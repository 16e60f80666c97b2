---------------------------- MODULE KeyLockProofs ----------------------------
(***************************************************************************)
(* What a caller of common/keylock may rely on for any number of callers   *)
(* and keys and any timeout and ttl: while its ttl lasts, it is alone.     *)
(***************************************************************************)
EXTENDS KeyLock, TLAPS

\* Handles are never given out twice: no bucket and no caller has a handle beyond the
\* counter, and two running callers have different ones.  An Unlock with another
\* handle therefore leaves a holder's bucket alone.
HandlesDistinct ==
  /\ \A k \in Keys : locks[k].handle <= c
  /\ \A p \in Procs : Running(p) => handle[p] \in 1 .. c
  /\ \A p, q \in Procs : Running(p) /\ Running(q) /\ handle[p] = handle[q] => p = q

IInv == TypeOK /\ HandlesDistinct /\ LeaseOwner

\* Every variable keeps to its type through every step of Lock, Unlock and the clock.
LEMMA TypeCorrect == Spec => []TypeOK
<1> USE KeyLockAssumption DEF TypeOK, Bucket
<1>1. Init => TypeOK
  BY DEF Init, NoBucket
<1>2. TypeOK /\ [Next]_vars => TypeOK'
  <2> SUFFICES ASSUME TypeOK, [Next]_vars PROVE TypeOK'
    OBVIOUS
  <2>1. ASSUME NEW p \in Procs, NEW k \in Keys, StartExec(p, k) PROVE TypeOK'
    BY <2>1 DEF StartExec
  <2>2. ASSUME NEW p \in Procs, TryLockGranted(p) PROVE TypeOK'
    BY <2>2 DEF TryLockGranted
  <2>3. ASSUME NEW p \in Procs, TryLockRefused(p) \/ Retry(p) \/ GiveUp(p) PROVE TypeOK'
    BY <2>3 DEF TryLockRefused, Retry, GiveUp
  <2>4. ASSUME NEW p \in Procs, Unlock(p) PROVE TypeOK'
    BY <2>4 DEF Unlock, NoBucket
  <2>5. CASE Tick
    BY <2>5 DEF Tick
  <2>6. CASE UNCHANGED vars
    BY <2>6 DEF vars, callers
  <2>7. QED
    BY <2>1, <2>2, <2>3, <2>4, <2>5, <2>6 DEF Next
<1>3. QED
  BY <1>1, <1>2, PTL DEF Spec

\* The invariant that makes the lock correct is inductive.
LEMMA Inductive == Spec => []IInv
<1>1. Init => IInv
  BY KeyLockAssumption
  DEF Init, IInv, TypeOK, Bucket, NoBucket, HandlesDistinct, LeaseOwner, WithinLease, Running
<1>2. IInv /\ TypeOK' /\ [Next]_vars => IInv'
  <2> SUFFICES ASSUME IInv, TypeOK', [Next]_vars PROVE HandlesDistinct' /\ LeaseOwner'
    BY DEF IInv
  <2> USE KeyLockAssumption
      DEF IInv, TypeOK, Bucket, HandlesDistinct, LeaseOwner, WithinLease, Running
  <2>1. ASSUME NEW p \in Procs, NEW k \in Keys, StartExec(p, k)
        PROVE HandlesDistinct' /\ LeaseOwner'
    BY <2>1 DEF StartExec
  <2>2. ASSUME NEW p \in Procs, TryLockGranted(p)
        PROVE HandlesDistinct' /\ LeaseOwner'
    <3>1. HandlesDistinct'
      BY <2>2 DEF TryLockGranted
    <3>2. ASSUME NEW q \in Procs, WithinLease(q)'
          PROVE locks'[key'[q]] = [handle |-> handle'[q], left |-> TTL - age'[q]]
      \* Another holder of the same key would have kept it from being lockable.
      <4>1. CASE q = p
        BY <2>2, <4>1 DEF TryLockGranted
      <4>2. CASE q # p
        BY <2>2, <3>2, <4>2 DEF TryLockGranted, Lockable
      <4>3. QED
        BY <4>1, <4>2
    <3>3. QED
      BY <3>1, <3>2
  <2>3. ASSUME NEW p \in Procs, TryLockRefused(p) \/ Retry(p) \/ GiveUp(p)
        PROVE HandlesDistinct' /\ LeaseOwner'
    BY <2>3 DEF TryLockRefused, Retry, GiveUp
  <2>4. ASSUME NEW p \in Procs, Unlock(p)
        PROVE HandlesDistinct' /\ LeaseOwner'
    <3>1. HandlesDistinct'
      BY <2>4 DEF Unlock, NoBucket
    <3>2. ASSUME NEW q \in Procs, WithinLease(q)'
          PROVE locks'[key'[q]] = [handle |-> handle'[q], left |-> TTL - age'[q]]
      \* The caller that unlocks is not q, and does not have q's handle.
      <4>0. q # p /\ Running(q) /\ Running(p) /\ age[q] <= TTL
        BY <2>4, <3>2 DEF Unlock
      <4>1. q # p /\ handle[q] # handle[p] /\ WithinLease(q)
        BY <4>0
      <4>2. locks[key[q]].handle = handle[q]
        <5>1. locks[key[q]] = [handle |-> handle[q], left |-> TTL - age[q]]
          BY <4>0
        <5>2. QED
          BY <5>1
      <4>3. locks'[key[q]] = locks[key[q]]
        BY <2>4, <4>1, <4>2 DEF Unlock
      <4>4. QED
        BY <2>4, <4>1, <4>3 DEF Unlock
    <3>3. QED
      BY <3>1, <3>2
  <2>5. CASE Tick
    <3>1. \A k \in Keys : locks'[k].handle = locks[k].handle
      BY <2>5 DEF Tick
    <3>2. HandlesDistinct'
      BY <2>5, <3>1 DEF Tick
    <3>3. ASSUME NEW q \in Procs, WithinLease(q)'
          PROVE locks'[key'[q]] = [handle |-> handle'[q], left |-> TTL - age'[q]]
      \* q's age was below the ttl, so its bucket had a tick left to lose.
      <4>1. Running(q) /\ age[q] <= TTL /\ age'[q] = age[q] + 1 /\ age[q] < TTL
        BY <2>5, <3>3 DEF Tick
      <4>2. locks[key[q]] = [handle |-> handle[q], left |-> TTL - age[q]]
        BY <4>1
      <4>3. locks'[key[q]] = [handle |-> handle[q], left |-> TTL - age[q] - 1]
        BY <2>5, <4>1, <4>2 DEF Tick
      <4>4. QED
        BY <2>5, <4>1, <4>3 DEF Tick
    <3>4. QED
      BY <3>2, <3>3
  <2>6. CASE UNCHANGED vars
    <3>1. HandlesDistinct'
      BY <2>6 DEF vars, callers
    <3>2. LeaseOwner'
      BY <2>6 DEF vars, callers
    <3>3. QED
      BY <3>1, <3>2
  <2>7. QED
    BY <2>1, <2>2, <2>3, <2>4, <2>5, <2>6 DEF Next
<1>3. QED
  BY <1>1, <1>2, TypeCorrect, PTL DEF Spec

\* While a caller's ttl has not run out, the bucket of its key is its own.
THEOREM LeaseOwnerTheorem == Spec => []LeaseOwner
BY Inductive, PTL DEF IInv

\* Executions of one custom command within their ttl never overlap.
THEOREM LeaseExclusionTheorem == Spec => []LeaseExclusion
<1>1. IInv => LeaseExclusion
  <2> SUFFICES ASSUME IInv, NEW p \in Procs, NEW q \in Procs,
                      WithinLease(p), WithinLease(q), key[p] = key[q]
               PROVE p = q
    BY DEF LeaseExclusion
  <2>1. /\ locks[key[p]] = [handle |-> handle[p], left |-> TTL - age[p]]
        /\ locks[key[p]] = [handle |-> handle[q], left |-> TTL - age[q]]
    BY DEF IInv, LeaseOwner
  <2>2. handle[p] = handle[q]
    BY <2>1
  <2>3. QED
    BY <2>2 DEF IInv, HandlesDistinct, WithinLease
<1>2. QED
  BY <1>1, Inductive, PTL

\* Only the Unlock of its holder takes an unexpired lock away.
THEOREM OnlyHolderReleasesTheorem == Spec => OnlyHolderReleases
<1>1. TypeOK /\ [Next]_vars =>
        [\A k \in Keys :
           locks[k].left >= 0 /\ locks'[k].handle # locks[k].handle
             => \E p \in Procs : /\ Running(p) /\ pc'[p] = "idle"
                                 /\ key[p] = k /\ handle[p] = locks[k].handle]_vars
  BY KeyLockAssumption
  DEF Next, vars, callers, StartExec, TryLockGranted, TryLockRefused, Retry, GiveUp, Unlock,
      Tick, Lockable, TypeOK, Bucket, Running
<1>2. QED
  BY <1>1, TypeCorrect, PTL DEF Spec, OnlyHolderReleases
=============================================================================
