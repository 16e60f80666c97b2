------------------------------- MODULE KeyLock -------------------------------
(***************************************************************************)
(* common/keylock: locks on keys that expire, as the custom command runner *)
(* uses them (customcommands/bot.go, CCExecLock).  A caller polls tryLock  *)
(* until it gets the key or its timeout is over, runs the command, and     *)
(* unlocks with the handle it was given.  locksMU makes tryLock and Unlock *)
(* atomic; everything between them interleaves.                            *)
(*                                                                         *)
(* Time is relative: a bucket carries the ticks left until it expires, a   *)
(* caller the ticks it has waited and the ticks since it got the key.      *)
(***************************************************************************)
EXTENDS Integers

CONSTANTS Procs,      \* goroutines that execute custom commands
          Keys,       \* lock keys: (guild, custom command)
          Timeout,    \* how long Lock waits, in ticks
          TTL,        \* how long a lock is held at most, in ticks
          MaxExecs    \* bound: executions in a behaviour

ASSUME KeyLockAssumption == /\ Timeout \in Nat
                            /\ TTL \in Nat
                            /\ MaxExecs \in Nat

VARIABLES locks,    \* KeyLock.locks: the bucket of every key
          c,        \* KeyLock.c: the last handle given out
          pc,       \* where every caller is
          key,      \* the key it wants or holds
          waited,   \* time.Since(started) of its Lock call, up to Timeout
          handle,   \* the handle Lock returned to it
          age,      \* ticks since Lock returned, up to TTL + 1
          execs     \* executions started so far

callers == <<pc, key, waited, handle, age>>
vars == <<locks, c, callers, execs>>

\* A key nobody locked.  Handles start at 1, so no caller holds handle 0.
NoBucket == [handle |-> 0, left |-> -1]
Bucket == [handle : Nat, left : -1 .. TTL]

TypeOK == /\ locks \in [Keys -> Bucket]
          /\ c \in Nat
          /\ pc \in [Procs -> {"idle", "try", "failed", "running"}]
          /\ key \in [Procs -> Keys]
          /\ waited \in [Procs -> 0 .. Timeout]
          /\ handle \in [Procs -> Nat]
          /\ age \in [Procs -> 0 .. TTL + 1]
          /\ execs \in Nat

Init == /\ locks = [k \in Keys |-> NoBucket]
        /\ c = 0
        /\ pc = [p \in Procs |-> "idle"]
        /\ key \in [Procs -> Keys]
        /\ waited = [p \in Procs |-> 0]
        /\ handle = [p \in Procs |-> 0]
        /\ age = [p \in Procs |-> 0]
        /\ execs = 0

-----------------------------------------------------------------------------
\* ExecuteCustomCommand calls Lock: started is taken before the first attempt.
StartExec(p, k) == /\ pc[p] = "idle"
                   /\ execs < MaxExecs
                   /\ pc' = [pc EXCEPT ![p] = "try"]
                   /\ key' = [key EXCEPT ![p] = k]
                   /\ waited' = [waited EXCEPT ![p] = 0]
                   /\ execs' = execs + 1
                   /\ UNCHANGED <<locks, c, handle, age>>

\* Mutant: the bucket is looked up but its expiry is compared the wrong way round.
LockableIgnoresHolder(k) == locks[k].left >= 0 \/ locks[k] = NoBucket

\* No bucket, or one whose expiry is in the past.
Lockable(k) == locks[k].left < 0

\* tryLock grants the key, with a fresh handle and a full ttl ...
TryLockGranted(p) == /\ pc[p] = "try"
                     /\ Lockable(key[p])
                     /\ c' = c + 1
                     /\ locks' = [locks EXCEPT ![key[p]] =
                                    [handle |-> c + 1, left |-> TTL]]
                     /\ handle' = [handle EXCEPT ![p] = c + 1]
                     /\ age' = [age EXCEPT ![p] = 0]
                     /\ pc' = [pc EXCEPT ![p] = "running"]
                     /\ UNCHANGED <<key, waited, execs>>

\* ... or returns -1 and leaves the bucket alone.
TryLockRefused(p) == /\ pc[p] = "try"
                     /\ ~Lockable(key[p])
                     /\ pc' = [pc EXCEPT ![p] = "failed"]
                     /\ UNCHANGED <<locks, c, key, waited, handle, age, execs>>

\* Lock compares the time waited with its timeout: another round after the sleep,
Retry(p) == /\ pc[p] = "failed"
            /\ waited[p] < Timeout
            /\ pc' = [pc EXCEPT ![p] = "try"]
            /\ UNCHANGED <<locks, c, key, waited, handle, age, execs>>

\* or -1 to the caller, which reports that it gave up and does not execute.
GiveUp(p) == /\ pc[p] = "failed"
             /\ waited[p] >= Timeout
             /\ pc' = [pc EXCEPT ![p] = "idle"]
             /\ UNCHANGED <<locks, c, key, waited, handle, age, execs>>

\* Mutant: Unlock deletes whatever bucket the key has.
UnlockAnyHandle(p) == /\ pc[p] = "running"
                      /\ locks' = [locks EXCEPT ![key[p]] = NoBucket]
                      /\ pc' = [pc EXCEPT ![p] = "idle"]
                      /\ UNCHANGED <<c, key, waited, handle, age, execs>>

\* The deferred Unlock at the end of the execution, normal or by panic: the
\* bucket goes only if it still carries the caller's handle.
Unlock(p) == /\ pc[p] = "running"
             /\ locks' = IF locks[key[p]].handle = handle[p]
                           THEN [locks EXCEPT ![key[p]] = NoBucket]
                           ELSE locks
             /\ pc' = [pc EXCEPT ![p] = "idle"]
             /\ UNCHANGED <<c, key, waited, handle, age, execs>>

\* One tick of the clock for every bucket and every caller.
Tick == /\ locks' = [k \in Keys |-> IF locks[k].left >= 0
                                      THEN [locks[k] EXCEPT !.left = @ - 1]
                                      ELSE locks[k]]
        /\ waited' = [p \in Procs |-> IF pc[p] \in {"try", "failed"} /\ waited[p] < Timeout
                                        THEN waited[p] + 1 ELSE waited[p]]
        /\ age' = [p \in Procs |-> IF pc[p] = "running" /\ age[p] <= TTL
                                     THEN age[p] + 1 ELSE age[p]]
        /\ UNCHANGED <<c, pc, key, handle, execs>>

Next == \/ \E p \in Procs : \/ \E k \in Keys : StartExec(p, k)
                            \/ TryLockGranted(p) \/ TryLockRefused(p)
                            \/ Retry(p) \/ GiveUp(p) \/ Unlock(p)
        \/ Tick

Spec == Init /\ [][Next]_vars

-----------------------------------------------------------------------------
Running(p) == pc[p] = "running"
WithinLease(p) == Running(p) /\ age[p] <= TTL

\* While a caller's ttl has not run out, the bucket of its key is its own, whatever
\* the others do: late Unlock calls with an old handle and polling attempts included.
LeaseOwner == \A p \in Procs : WithinLease(p) =>
                locks[key[p]] = [handle |-> handle[p], left |-> TTL - age[p]]

\* Two executions of one custom command that are both within their ttl never overlap.
LeaseExclusion == \A p, q \in Procs :
                    WithinLease(p) /\ WithinLease(q) /\ key[p] = key[q] => p = q

\* No step takes an unexpired lock away except the Unlock of its holder.
OnlyHolderReleases ==
  [][\A k \in Keys :
       locks[k].left >= 0 /\ locks'[k].handle # locks[k].handle
         => \E p \in Procs : /\ Running(p) /\ pc'[p] = "idle"
                             /\ key[p] = k /\ handle[p] = locks[k].handle]_vars
=============================================================================
