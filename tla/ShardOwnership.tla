---------------------------- MODULE ShardOwnership ----------------------------
(***************************************************************************)
(* What moving shards promises, without orchestrator, nodes' bookkeeping   *)
(* or messages: a shard's gateway is held by one process at a time, and    *)
(* whoever takes it over resumes the very session the last holder closed.  *)
(* lib/dshardorchestrator/events.go describes this as the contract of      *)
(* EvtPrepareShardmigration.                                               *)
(***************************************************************************)
EXTENDS Naturals

CONSTANTS Nodes, Shards, Nobody, MaxSessions

VARIABLES holder,    \* who has the shard's gateway open
          closed,    \* the session of the gateway that was closed last
          resumed    \* the session the gateway was opened with, 0 for a new one

ownershipVars == <<holder, closed, resumed>>

Init == /\ holder \in [Shards -> Nodes \cup {Nobody}]
        /\ closed = [s \in Shards |-> 0]
        /\ resumed = [s \in Shards |-> 0]

\* The holder gives the shard away; session x is what it hands over.
Release(s, x) == /\ holder[s] # Nobody
                 /\ x > closed[s]
                 /\ holder' = [holder EXCEPT ![s] = Nobody]
                 /\ closed' = [closed EXCEPT ![s] = x]
                 /\ UNCHANGED resumed

\* Another node continues the session handed over, once.
Resume(s, n) == /\ holder[s] = Nobody
                /\ closed[s] # resumed[s]
                /\ holder' = [holder EXCEPT ![s] = n]
                /\ resumed' = [resumed EXCEPT ![s] = closed[s]]
                /\ UNCHANGED closed

Move == \E s \in Shards : \/ \E x \in 1 .. MaxSessions : Release(s, x)
                          \/ \E n \in Nodes : Resume(s, n)

\* A shard nobody holds and nobody is moving is opened anew.
Open(s, n) == /\ holder[s] = Nobody
              /\ closed[s] = resumed[s]
              /\ holder' = [holder EXCEPT ![s] = n]
              /\ closed' = [closed EXCEPT ![s] = 0]
              /\ resumed' = [resumed EXCEPT ![s] = 0]

\* A process ends: whatever it held is nobody's.
Lose(n) == /\ holder' = [s \in Shards |-> IF holder[s] = n THEN Nobody ELSE holder[s]]
           /\ UNCHANGED <<closed, resumed>>

Change == Move \/ \E n \in Nodes : Lose(n) \/ \E s \in Shards : Open(s, n)

\* Shards only move, or processes also end and shards are opened again.
MoveSpec == Init /\ [][Move]_ownershipVars
Spec == Init /\ [][Change]_ownershipVars
=============================================================================
