------------------------- MODULE ScheduledEventsProofs -------------------------
(***************************************************************************)
(* Scheduled events for any number of events and processes, and any bounds *)
(* on failures: every variable keeps its type, no event is forgotten, only *)
(* what is over is marked as done, and a handler is begun again only for   *)
(* an interruption.                                                        *)
(***************************************************************************)
EXTENDS ScheduledEvents, FiniteSetTheorems, TLAPS

\* A goroutine moves from one step to another: nobody is anywhere else than before.
LEMMA Moves ==
  ASSUME TypeOK, NEW n \in Nodes, NEW e \in Events, NEW s \in Steps, NEW t \in Steps, s # t,
         Goes(n, e, s, t)
  PROVE  /\ goroutines' \in [Nodes -> [Events -> [Steps -> Nat]]]
         /\ At(n, e, s)
         /\ \A m \in Nodes, f \in Events, r \in Steps :
              goroutines'[m][f][r] > 0 => At(m, f, r) \/ (m = n /\ f = e /\ r = t)
         /\ \A m \in Nodes, f \in Events : m # n \/ f # e => goroutines'[m][f] = goroutines[m][f]
         /\ goroutines'[n][e][s] = goroutines[n][e][s] - 1
         /\ goroutines'[n][e][t] = goroutines[n][e][t] + 1
         /\ \A r \in Steps \ {s, t} : goroutines'[n][e][r] = goroutines[n][e][r]
<1> DEFINE g == goroutines[n][e]
           h == [g EXCEPT ![s] = @ - 1, ![t] = @ + 1]
<1>1. g \in [Steps -> Nat] /\ g[s] > 0
  BY DEF TypeOK, Goes, At
<1>2. /\ h \in [Steps -> Nat] /\ \A r \in Steps : h[r] > 0 => g[r] > 0 \/ r = t
      /\ h[s] = g[s] - 1 /\ h[t] = g[t] + 1 /\ \A r \in Steps \ {s, t} : h[r] = g[r]
  BY <1>1
<1>3. goroutines' = [goroutines EXCEPT ![n] = [goroutines[n] EXCEPT ![e] = h]]
  BY DEF Goes, TypeOK
<1> HIDE DEF h
<1>4. goroutines' \in [Nodes -> [Events -> [Steps -> Nat]]]
  BY <1>2, <1>3 DEF TypeOK
<1>5. \A m \in Nodes, f \in Events :
        goroutines'[m][f] = IF m = n /\ f = e THEN h ELSE goroutines[m][f]
  BY <1>3 DEF TypeOK
<1>6. QED
  BY <1>1, <1>2, <1>4, <1>5 DEF At

\* A goroutine begins.
LEMMA Begins ==
  ASSUME TypeOK, NEW n \in Nodes, NEW e \in Events, NEW s \in Steps, Spawn(n, e, s)
  PROVE  /\ goroutines' \in [Nodes -> [Events -> [Steps -> Nat]]]
         /\ \A m \in Nodes, f \in Events, r \in Steps :
              goroutines'[m][f][r] > 0 => At(m, f, r) \/ (m = n /\ f = e /\ r = s)
         /\ \A m \in Nodes, f \in Events : m # n \/ f # e => goroutines'[m][f] = goroutines[m][f]
         /\ goroutines'[n][e][s] = goroutines[n][e][s] + 1
         /\ \A r \in Steps \ {s} : goroutines'[n][e][r] = goroutines[n][e][r]
<1> DEFINE g == goroutines[n][e]
           h == [g EXCEPT ![s] = @ + 1]
<1>1. g \in [Steps -> Nat]
  BY DEF TypeOK
<1>2. /\ h \in [Steps -> Nat] /\ \A r \in Steps : h[r] > 0 => g[r] > 0 \/ r = s
      /\ h[s] = g[s] + 1 /\ \A r \in Steps \ {s} : h[r] = g[r]
  BY <1>1
<1>3. goroutines' = [goroutines EXCEPT ![n] = [goroutines[n] EXCEPT ![e] = h]]
  BY DEF Spawn, TypeOK
<1> HIDE DEF h
<1>4. goroutines' \in [Nodes -> [Events -> [Steps -> Nat]]]
  BY <1>2, <1>3 DEF TypeOK
<1>5. \A m \in Nodes, f \in Events :
        goroutines'[m][f] = IF m = n /\ f = e THEN h ELSE goroutines[m][f]
  BY <1>3 DEF TypeOK
<1>6. QED
  BY <1>1, <1>2, <1>4, <1>5 DEF At

\* A goroutine ends.
LEMMA Ends ==
  ASSUME TypeOK, NEW n \in Nodes, NEW e \in Events, NEW s \in Steps, At(n, e, s),
         goroutines' = [goroutines EXCEPT ![n][e][s] = @ - 1]
  PROVE  /\ goroutines' \in [Nodes -> [Events -> [Steps -> Nat]]]
         /\ \A m \in Nodes, f \in Events, r \in Steps : goroutines'[m][f][r] > 0 => At(m, f, r)
         /\ \A m \in Nodes, f \in Events : m # n \/ f # e => goroutines'[m][f] = goroutines[m][f]
         /\ goroutines'[n][e][s] = goroutines[n][e][s] - 1
         /\ \A r \in Steps \ {s} : goroutines'[n][e][r] = goroutines[n][e][r]
<1> DEFINE g == goroutines[n][e]
           h == [g EXCEPT ![s] = @ - 1]
<1>1. g \in [Steps -> Nat] /\ g[s] > 0
  BY DEF TypeOK, At
<1>2. /\ h \in [Steps -> Nat] /\ \A r \in Steps : h[r] > 0 => g[r] > 0
      /\ h[s] = g[s] - 1 /\ \A r \in Steps \ {s} : h[r] = g[r]
  BY <1>1
<1>3. goroutines' = [goroutines EXCEPT ![n] = [goroutines[n] EXCEPT ![e] = h]]
  BY DEF TypeOK
<1> HIDE DEF h
<1>4. goroutines' \in [Nodes -> [Events -> [Steps -> Nat]]]
  BY <1>2, <1>3 DEF TypeOK
<1>5. \A m \in Nodes, f \in Events :
        goroutines'[m][f] = IF m = n /\ f = e THEN h ELSE goroutines[m][f]
  BY <1>3 DEF TypeOK
<1>6. QED
  BY <1>1, <1>2, <1>4, <1>5 DEF At

-----------------------------------------------------------------------------
(* Types. *)

\* The goroutines of one event.
LEMMA GoroutinesType ==
  ASSUME TypeOK, NEW n \in Nodes, NEW e \in Events, ProcessItem(n, e) \/ MarkDoneID(n, e) \/ Finish(n, e)
  PROVE  goroutines' \in [Nodes -> [Events -> [Steps -> Nat]]]
<1>1. CASE \E s, t \in Steps : s # t /\ Goes(n, e, s, t)
  BY <1>1, Moves
<1>2. CASE ProcessItem(n, e)
  BY <1>1, <1>2 DEF ProcessItem, FindPending, FindNothing, FindFails, HandlerReturns, HandlerPanics,
                    Mark, Steps
<1>3. CASE MarkDoneID(n, e)
  BY <1>1, <1>3 DEF MarkDoneID, MarkProcessed, MarkProcessedFails, RemovePair, Steps
<1>4. CASE Finish(n, e)
  <2>1. "delete" \in Steps
    BY DEF Steps
  <2>2. QED
    BY <1>4, <2>1, Ends DEF Finish
<1>5. QED
  BY <1>2, <1>3, <1>4

\* The counts of interruptions.
LEMMA InterruptsType ==
  ASSUME TypeOK
  PROVE  /\ \A e \in Events : Interrupted(e) => interrupts' \in [Events -> Nat]
         /\ \A n \in Nodes : InterruptAll(n) => interrupts' \in [Events -> Nat]
<1>1. interrupts \in [Events -> Nat]
  BY DEF TypeOK
<1>2. ASSUME NEW e \in Events, Interrupted(e) PROVE interrupts' \in [Events -> Nat]
  BY <1>1, <1>2 DEF Interrupted
<1>3. ASSUME NEW n \in Nodes, InterruptAll(n) PROVE interrupts' \in [Events -> Nat]
  <2>1. \A e \in Events : interrupts[e] + (IF Unmarked(n, e) THEN 1 ELSE 0) \in Nat
    BY <1>1
  <2>2. QED
    BY <1>3, <2>1 DEF InterruptAll
<1>4. QED
  BY <1>2, <1>3

\* Every variable keeps its type, through crashes and failures too.
THEOREM TypeTheorem == Spec => []TypeOK
<1> USE ScheduledEventsAssumption
<1>1. Init => TypeOK
  BY DEF Init, TypeOK, NoGoroutines
<1>2. TypeOK /\ [Next]_vars => TypeOK'
  <2> SUFFICES ASSUME TypeOK, [Next]_vars PROVE TypeOK'
    OBVIOUS
  <2>1. ASSUME NEW e \in Events, Insert(e) \/ FlushInserted(e) \/ Cancel(e) \/ ComesDue(e)
        PROVE  TypeOK'
    <3>1. CASE Insert(e) \/ FlushInserted(e)
      <4>1. row' \in [Events -> {"none", "pending", "processed"}] /\ soon' \subseteq Events
        BY <3>1 DEF Insert, FlushInserted, TypeOK
      <4>2. stage' \in [Events -> {"new", "inserted", "scheduled"}]
        BY <3>1 DEF Insert, FlushInserted, TypeOK
      <4>3. UNCHANGED <<recentlyDone, due, worldVars, nodeVars, workerVars, historyVars>>
        BY <3>1 DEF Insert, FlushInserted
      <4>4. QED
        BY <4>1, <4>2, <4>3 DEF TypeOK, worldVars, nodeVars, workerVars, historyVars
    <3>2. CASE Cancel(e) \/ ComesDue(e)
      BY <3>2 DEF Cancel, ComesDue, TypeOK, storeVars, worldVars, nodeVars, workerVars, historyVars
    <3>3. QED
      BY <2>1, <3>1, <3>2
  <2>2. ASSUME NEW n \in Nodes, BeginCheck(n) \/ EndCheck(n) PROVE TypeOK'
    <3>1. pairs' \in [Nodes -> SUBSET Events] /\ checking' \subseteq Nodes
      <4>1. soon \cap due \in SUBSET Events /\ pairs \in [Nodes -> SUBSET Events] /\ checking \subseteq Nodes
        BY DEF TypeOK
      <4>2. QED
        BY <2>2, <4>1 DEF BeginCheck, EndCheck
    <3>2. UNCHANGED <<storeVars, stage, due, worldVars, currentlyProcessing, goroutines, workerVars,
                      historyVars>>
      BY <2>2 DEF BeginCheck, EndCheck
    <3>3. QED
      BY <3>1, <3>2 DEF TypeOK, storeVars, worldVars, workerVars, historyVars
  <2>3. ASSUME NEW n \in Nodes, NEW e \in Events, CheckPair(n, e) PROVE TypeOK'
    <3>1. goroutines' \in [Nodes -> [Events -> [Steps -> Nat]]]
      <4>1. \A s \in Steps : Spawn(n, e, s) => goroutines' \in [Nodes -> [Events -> [Steps -> Nat]]]
        BY Begins
      <4>2. QED
        BY <2>3, <4>1 DEF CheckPair, Steps, TypeOK
    <3>2. pairs' \in [Nodes -> SUBSET Events] /\ currentlyProcessing' \in [Nodes -> SUBSET Events]
      <4>1. pairs \in [Nodes -> SUBSET Events] /\ currentlyProcessing \in [Nodes -> SUBSET Events]
        BY DEF TypeOK
      <4>2. pairs' = [pairs EXCEPT ![n] = @ \ {e}]
        BY <2>3 DEF CheckPair
      <4>3. \/ currentlyProcessing' = currentlyProcessing
            \/ currentlyProcessing' = [currentlyProcessing EXCEPT ![n] = @ \cup {e}]
        BY <2>3 DEF CheckPair
      <4>4. pairs' \in [Nodes -> SUBSET Events]
        BY <4>1, <4>2
      <4>5. QED
        BY <4>1, <4>3, <4>4
    <3>3. soon' \subseteq Events /\ forsaken' \subseteq Events
      BY <2>3 DEF CheckPair, TypeOK
    <3>4. UNCHANGED <<row, recentlyDone, stage, due, worldVars, checking, workerVars, cancelled,
                      handled, begun, interrupts>>
      BY <2>3 DEF CheckPair
    <3>5. QED
      BY <3>1, <3>2, <3>3, <3>4 DEF TypeOK, worldVars, workerVars
  <2>4. ASSUME NEW n \in Nodes, ShardReady(n) \/ ShardRemoved(n) \/ Crash(n) PROVE TypeOK'
    <3>1. CASE ShardReady(n)
      BY <3>1 DEF ShardReady, TypeOK, storeVars, nodeVars, workerVars, historyVars
    <3>2. CASE ShardRemoved(n) \/ Crash(n)
      <4>1. interrupts' \in [Events -> Nat]
        BY <3>2, InterruptsType DEF ShardRemoved, Crash
      <4>2. serving' \subseteq Nodes /\ \A m, k \in serving' : m = k
        BY <3>2 DEF ShardRemoved, Crash, TypeOK
      <4>3. /\ pairs' \in [Nodes -> SUBSET Events] /\ checking' \subseteq Nodes
            /\ currentlyProcessing' \in [Nodes -> SUBSET Events]
            /\ goroutines' \in [Nodes -> [Events -> [Steps -> Nat]]]
        <5>1. NoGoroutines \in [Events -> [Steps -> Nat]]
          BY DEF NoGoroutines
        <5>2. /\ pairs \in [Nodes -> SUBSET Events] /\ checking \subseteq Nodes
              /\ currentlyProcessing \in [Nodes -> SUBSET Events]
              /\ goroutines \in [Nodes -> [Events -> [Steps -> Nat]]]
          BY DEF TypeOK
        <5>3. CASE Crash(n)
          BY <5>1, <5>2, <5>3 DEF Crash
        <5>4. CASE ShardRemoved(n)
          BY <5>2, <5>4 DEF ShardRemoved, nodeVars
        <5>5. QED
          BY <3>2, <5>3, <5>4
      <4>4. UNCHANGED <<storeVars, stage, due, here, readied, leaves, failures, panics, workerVars,
                        cancelled, forsaken, handled, begun>>
        BY <3>2 DEF ShardRemoved, Crash
      <4>5. QED
        BY <4>1, <4>2, <4>3, <4>4 DEF TypeOK, storeVars, workerVars
    <3>3. QED
      BY <2>4, <3>1, <3>2
  <2>5. ASSUME NEW n \in Nodes, NEW e \in Events, ProcessItem(n, e) PROVE TypeOK'
    <3>1. goroutines' \in [Nodes -> [Events -> [Steps -> Nat]]]
      BY <2>5, GoroutinesType
    <3>2. begun' \in [Events -> Nat] /\ interrupts' \in [Events -> Nat]
      <4>1. begun \in [Events -> Nat] /\ interrupts \in [Events -> Nat]
        BY DEF TypeOK
      <4>2. begun' = begun \/ begun' = [begun EXCEPT ![e] = @ + 1]
        BY <2>5 DEF ProcessItem, FindPending, FindNothing, FindFails, HandlerReturns, HandlerPanics,
                    Mark, historyVars
      <4>3. interrupts' = interrupts \/ Interrupted(e)
        BY <2>5 DEF ProcessItem, FindPending, FindNothing, FindFails, HandlerReturns, HandlerPanics,
                    Mark, historyVars
      <4>4. begun' \in [Events -> Nat]
        BY <4>1, <4>2
      <4>5. QED
        BY <4>1, <4>3, <4>4, InterruptsType
    <3>3. handled' \subseteq Events /\ recentlyDone' \subseteq Events
      BY <2>5 DEF ProcessItem, FindPending, FindNothing, FindFails, HandlerReturns, HandlerPanics,
                  Mark, TypeOK, historyVars, storeVars
    <3>4. failures' \in 0 .. MaxFailures /\ panics' \in 0 .. MaxPanics
      BY <2>5 DEF ProcessItem, FindPending, FindNothing, FindFails, HandlerReturns, HandlerPanics,
                  Mark, TypeOK, worldVars
    <3>5. UNCHANGED <<row, soon, stage, due, here, serving, readied, leaves, pairs, checking,
                      currentlyProcessing, workerVars, cancelled, forsaken>>
      BY <2>5 DEF ProcessItem, FindPending, FindNothing, FindFails, HandlerReturns, HandlerPanics,
                  Mark, storeVars, worldVars, historyVars
    <3>6. QED
      BY <3>1, <3>2, <3>3, <3>4, <3>5 DEF TypeOK, workerVars
  <2>6. ASSUME NEW n \in Nodes, NEW e \in Events, MarkDoneID(n, e) \/ Finish(n, e) PROVE TypeOK'
    <3>1. goroutines' \in [Nodes -> [Events -> [Steps -> Nat]]]
      BY <2>6, GoroutinesType
    <3>2. row' \in [Events -> {"none", "pending", "processed"}] /\ soon' \subseteq Events
      BY <2>6 DEF MarkDoneID, MarkProcessed, MarkProcessedFails, RemovePair, Finish, TypeOK, storeVars
    <3>3. interrupts' \in [Events -> Nat] /\ failures' \in 0 .. MaxFailures
      <4>1. interrupts' = interrupts \/ Interrupted(e)
        BY <2>6 DEF MarkDoneID, MarkProcessed, MarkProcessedFails, RemovePair, Finish, historyVars
      <4>2. interrupts' \in [Events -> Nat]
        BY <4>1, InterruptsType DEF TypeOK
      <4>3. failures' \in 0 .. MaxFailures
        BY <2>6 DEF MarkDoneID, MarkProcessed, MarkProcessedFails, RemovePair, Finish, TypeOK, worldVars
      <4>4. QED
        BY <4>2, <4>3
    <3>4. currentlyProcessing' \in [Nodes -> SUBSET Events]
      BY <2>6 DEF MarkDoneID, MarkProcessed, MarkProcessedFails, RemovePair, Finish, TypeOK
    <3>5. UNCHANGED <<recentlyDone, stage, due, here, serving, readied, leaves, panics, pairs,
                      checking, workerVars, cancelled, forsaken, handled, begun>>
      BY <2>6 DEF MarkDoneID, MarkProcessed, MarkProcessedFails, RemovePair, Finish, storeVars,
                  worldVars, historyVars
    <3>6. QED
      BY <3>1, <3>2, <3>3, <3>4, <3>5 DEF TypeOK, workerVars
  <2>7. ASSUME FlushStep \/ CleanupStep PROVE TypeOK'
    <3>1. CASE FlushStep
      <4>1. soon' \subseteq Events /\ batch' \subseteq Events /\ adding' \subseteq Events
        BY <3>1 DEF FlushStep, FlushRead, FlushCheck, FlushAdd, TypeOK, storeVars
      <4>2. UNCHANGED <<row, recentlyDone, stage, due, worldVars, nodeVars, cleaning, doomed,
                        historyVars>>
        BY <3>1 DEF FlushStep, FlushRead, FlushCheck, FlushAdd, storeVars
      <4>3. QED
        BY <4>1, <4>2 DEF TypeOK, worldVars, nodeVars, historyVars
    <3>2. CASE CleanupStep
      <4>1. row' \in [Events -> {"none", "pending", "processed"}]
        BY <3>2 DEF CleanupStep, CleanupRead, CleanupRows, CleanupSet, CleanupProcessed, TypeOK,
                    storeVars
      <4>2. /\ recentlyDone' \subseteq Events /\ doomed' \subseteq Events
            /\ cleaning' \in {"idle", "rows", "set"}
        BY <3>2 DEF CleanupStep, CleanupRead, CleanupRows, CleanupSet, CleanupProcessed, TypeOK,
                    storeVars, workerVars
      <4>3. UNCHANGED <<soon, stage, due, worldVars, nodeVars, batch, adding, historyVars>>
        BY <3>2 DEF CleanupStep, CleanupRead, CleanupRows, CleanupSet, CleanupProcessed, storeVars,
                    workerVars
      <4>4. QED
        BY <4>1, <4>2, <4>3 DEF TypeOK, worldVars, nodeVars, historyVars
    <3>3. QED
      BY <2>7, <3>1, <3>2
  <2>8. ASSUME LeaveGuild \/ JoinGuild PROVE TypeOK'
    <3>1. MaxLeaves \in Nat
      BY DEF ScheduledEventsAssumption
    <3>2. here' \in BOOLEAN /\ leaves' \in 0 .. MaxLeaves
      <4>1. here' \in BOOLEAN
        BY <2>8, Zenon DEF LeaveGuild, JoinGuild
      <4>2. leaves \in 0 .. MaxLeaves
        BY DEF TypeOK
      <4>3. leaves' = leaves \/ (leaves < MaxLeaves /\ leaves' = leaves + 1)
        BY <2>8, Zenon DEF LeaveGuild, JoinGuild
      <4>4. QED
        BY <3>1, <4>1, <4>2, <4>3
    <3>3. UNCHANGED <<storeVars, stage, due, serving, readied, failures, panics, nodeVars, workerVars,
                      historyVars>>
      BY <2>8 DEF LeaveGuild, JoinGuild
    <3>4. QED
      BY <3>2, <3>3 DEF TypeOK, storeVars, nodeVars, workerVars, historyVars
  <2>9. CASE UNCHANGED vars
    BY <2>9 DEF vars, TypeOK, storeVars, worldVars, nodeVars, workerVars, historyVars
  <2>10. ASSUME NEW n \in Nodes, CheckStep(n) PROVE TypeOK'
    BY <2>2, <2>3, <2>10 DEF CheckStep
  <2>11. \A e \in Events : Insert(e) \/ FlushInserted(e) \/ Cancel(e) \/ ComesDue(e) => TypeOK'
    BY <2>1
  <2>12. \A n \in Nodes : CheckStep(n) \/ ShardReady(n) \/ ShardRemoved(n) \/ Crash(n) => TypeOK'
    BY <2>4, <2>10
  <2>13. \A n \in Nodes, e \in Events : ProcessItem(n, e) \/ MarkDoneID(n, e) \/ Finish(n, e) => TypeOK'
    BY <2>5, <2>6
  <2>14. QED
    BY <2>7, <2>8, <2>9, <2>11, <2>12, <2>13, Zenon DEF Next
<1>3. QED
  BY <1>1, <1>2, PTL DEF Spec

-----------------------------------------------------------------------------
(* Nothing is forgotten.  A step disturbs the invariant only where it      *)
(* changes rows or marks, or moves a goroutine that is about to.           *)

\* A step that changes or deletes rows of what is over only, by which no event becomes new or is
\* not over any more, no mark or goroutine appears without its reason, and nothing but scheduled
\* events is copied.
LEMMA Harmless ==
  ASSUME TypeOK, EventsInv,
         \A e \in Events : row'[e] = row[e] \/ (Over(e)' /\ (row'[e] # "none" => row[e] # "none")),
         \A e \in Events : stage'[e] # "new" <=> stage[e] # "new",
         handled \subseteq handled', cancelled \subseteq cancelled', forsaken \subseteq forsaken',
         \A e \in recentlyDone' : e \in recentlyDone \/ Over(e)',
         \A e \in doomed' : e \in doomed \/ Over(e)',
         soon' \cup batch' \cup adding' \subseteq Scheduled,
         \A n \in Nodes : pairs'[n] \subseteq Scheduled,
         \A n \in Nodes, e \in Events, s \in Steps :
           goroutines'[n][e][s] > 0 =>
             \/ At(n, e, s)
             \/ e \in Scheduled /\ (s = "mark" => Over(e)') /\ (s = "update" => e \in forsaken')
  PROVE  EventsInv'
<1>1. \A e : Over(e) => Over(e)'
  BY DEF Over
<1>2. NotForgotten'
  BY <1>1 DEF EventsInv, NotForgotten
<1>3. MarksTrue'
  BY <1>1 DEF EventsInv, MarksTrue
<1>4. Scheduled' = Scheduled
  BY DEF Scheduled
<1>5. OnlyScheduled'
  BY <1>4 DEF EventsInv, OnlyScheduled, At
<1>6. MarkersKnow'
  <2>1. "mark" \in Steps /\ "update" \in Steps
    BY DEF Steps
  <2>2. ASSUME NEW n \in Nodes, NEW e \in Events
        PROVE  (At(n, e, "mark") => Over(e))' /\ (At(n, e, "update") => e \in forsaken)'
    BY <1>1, <2>1 DEF EventsInv, MarkersKnow, At
  <2>3. \A e \in doomed' : Over(e)'
    BY <1>1 DEF EventsInv, MarkersKnow
  <2>4. QED
    BY <2>2, <2>3 DEF MarkersKnow
<1>7. QED
  BY <1>2, <1>3, <1>5, <1>6 DEF EventsInv

\* A goroutine goes on, marks or unmarks nothing but what is over, and copies nothing.
LEMMA GoesOn ==
  ASSUME TypeOK, EventsInv, NEW n \in Nodes, NEW e \in Events, NEW s \in Steps, NEW t \in Steps,
         s # t, Goes(n, e, s, t), t # "update", t = "mark" => Over(e)',
         \A f \in Events : row'[f] = row[f] \/ (Over(f)' /\ (row'[f] # "none" => row[f] # "none")),
         handled \subseteq handled', cancelled' = cancelled, forsaken' = forsaken,
         \A f \in recentlyDone' : f \in recentlyDone \/ Over(f)',
         soon' \subseteq soon, UNCHANGED <<stage, batch, adding, doomed, pairs>>
  PROVE  EventsInv'
<1>1. At(n, e, s) /\ \A m \in Nodes, f \in Events, r \in Steps :
        goroutines'[m][f][r] > 0 => At(m, f, r) \/ (m = n /\ f = e /\ r = t)
  BY Moves
<1>2. e \in Scheduled
  BY <1>1 DEF EventsInv, OnlyScheduled
<1>3. \A m \in Nodes, f \in Events, r \in Steps :
        goroutines'[m][f][r] > 0 =>
          \/ At(m, f, r)
          \/ f \in Scheduled /\ (r = "mark" => Over(f)') /\ (r = "update" => f \in forsaken')
  BY <1>1, <1>2
<1>4. soon' \cup batch' \cup adding' \subseteq Scheduled /\ \A m \in Nodes : pairs'[m] \subseteq Scheduled
  BY DEF EventsInv, OnlyScheduled
<1>5. QED
  BY <1>3, <1>4, Harmless

\* A step that leaves all of this alone, or loses goroutines.
LEMMA Untouched ==
  ASSUME TypeOK, EventsInv, UNCHANGED <<row, soon, recentlyDone, stage, workerVars, cancelled,
                                        forsaken, handled>>,
         \A m \in Nodes : pairs'[m] \subseteq Scheduled,
         \A m \in Nodes, f \in Events, r \in Steps : goroutines'[m][f][r] > 0 => At(m, f, r)
  PROVE  EventsInv'
<1>1. UNCHANGED <<batch, adding, doomed>>
  BY DEF workerVars
<1>2. soon' \cup batch' \cup adding' \subseteq Scheduled
  BY <1>1 DEF EventsInv, OnlyScheduled
<1>3. QED
  BY <1>1, <1>2, Harmless

\* Scheduling an event gives it its row at once.
LEMMA Scheduling ==
  ASSUME TypeOK, EventsInv, NEW e \in Events, Insert(e) \/ FlushInserted(e)
  PROVE  EventsInv'
<1>1. CASE Insert(e)
  <2>1. /\ row' = [row EXCEPT ![e] = "pending"] /\ stage' = [stage EXCEPT ![e] = "inserted"]
        /\ UNCHANGED <<soon, recentlyDone, pairs, goroutines, batch, adding, doomed, cancelled,
                       forsaken, handled>>
    BY <1>1 DEF Insert, nodeVars, workerVars, historyVars
  <2>2. \A f : Over(f)' <=> Over(f)
    BY <2>1 DEF Over
  <2>3. \A f \in Events : row'[f] = IF f = e THEN "pending" ELSE row[f]
    BY <2>1 DEF TypeOK
  <2>4. \A f \in Events : stage'[f] = IF f = e THEN "inserted" ELSE stage[f]
    BY <2>1 DEF TypeOK
  <2>5. Scheduled \subseteq Scheduled' /\ e \in Scheduled'
    BY <2>4 DEF Scheduled
  <2>6. NotForgotten'
    BY <2>2, <2>3, <2>4 DEF EventsInv, NotForgotten
  <2>7. MarksTrue' /\ MarkersKnow'
    BY <2>1, <2>2 DEF EventsInv, MarksTrue, MarkersKnow, At
  <2>8. OnlyScheduled'
    BY <2>1, <2>3, <2>5 DEF EventsInv, OnlyScheduled, At
  <2>9. QED
    BY <2>6, <2>7, <2>8 DEF EventsInv
<1>2. CASE FlushInserted(e)
  <2>1. /\ stage[e] = "inserted" /\ stage' = [stage EXCEPT ![e] = "scheduled"] /\ soon' = soon \cup {e}
        /\ UNCHANGED <<row, recentlyDone, pairs, goroutines, batch, adding, doomed, cancelled,
                       forsaken, handled>>
    BY <1>2 DEF FlushInserted, nodeVars, workerVars, historyVars
  <2>2. \A f \in Events : stage'[f] = IF f = e THEN "scheduled" ELSE stage[f]
    BY <2>1 DEF TypeOK
  <2>3. \A f \in Events : stage'[f] # "new" <=> stage[f] # "new"
    BY <2>1, <2>2
  <2>4. soon' \cup batch' \cup adding' \subseteq Scheduled /\ \A m \in Nodes : pairs'[m] \subseteq Scheduled
    BY <2>1 DEF EventsInv, OnlyScheduled, Scheduled
  <2>5. \A m \in Nodes, f \in Events, r \in Steps : goroutines'[m][f][r] > 0 => At(m, f, r)
    BY <2>1 DEF At
  <2>6. QED
    BY <2>1, <2>3, <2>4, <2>5, Harmless
<1>3. QED
  BY <1>1, <1>2

\* check() reads pairs of scheduled events, and begins goroutines for these only.
LEMMA Checking ==
  ASSUME TypeOK, EventsInv, NEW n \in Nodes, CheckStep(n)
  PROVE  EventsInv'
<1>1. CASE BeginCheck(n) \/ EndCheck(n)
  <2>1. \A m \in Nodes : pairs'[m] \subseteq pairs[m] \cup soon
    BY <1>1 DEF BeginCheck, EndCheck, TypeOK
  <2>2. \A m \in Nodes : pairs'[m] \subseteq Scheduled
    BY <2>1 DEF EventsInv, OnlyScheduled
  <2>3. UNCHANGED <<row, soon, recentlyDone, stage, workerVars, cancelled, forsaken, handled, goroutines>>
    BY <1>1 DEF BeginCheck, EndCheck, storeVars, historyVars
  <2>4. \A m \in Nodes, f \in Events, r \in Steps : goroutines'[m][f][r] > 0 => At(m, f, r)
    BY <2>3 DEF At
  <2>5. QED
    BY <2>2, <2>3, <2>4, Untouched
<1>2. ASSUME NEW e \in Events, CheckPair(n, e) PROVE EventsInv'
  <2>1. e \in Scheduled /\ \A m \in Nodes : pairs'[m] \subseteq Scheduled
    <3>1. e \in pairs[n] /\ pairs' = [pairs EXCEPT ![n] = pairs[n] \ {e}]
      BY <1>2 DEF CheckPair
    <3>2. \A m \in Nodes : pairs'[m] \subseteq pairs[m]
      BY <3>1 DEF TypeOK
    <3>3. QED
      BY <3>1, <3>2 DEF EventsInv, OnlyScheduled
  <2>2. /\ UNCHANGED <<row, recentlyDone, stage, batch, adding, doomed, cancelled, handled>>
        /\ soon' \subseteq soon /\ forsaken \subseteq forsaken'
    BY <1>2 DEF CheckPair, workerVars
  <2>3. \/ goroutines' = goroutines
        \/ Spawn(n, e, "update") /\ e \in forsaken'
        \/ Spawn(n, e, "find")
    BY <1>2 DEF CheckPair
  <2>4. \A m \in Nodes, f \in Events, r \in Steps :
          goroutines'[m][f][r] > 0 =>
            \/ At(m, f, r)
            \/ f \in Scheduled /\ (r = "mark" => Over(f)') /\ (r = "update" => f \in forsaken')
    <3>1. CASE goroutines' = goroutines
      BY <3>1 DEF At
    <3>2. CASE Spawn(n, e, "update") /\ e \in forsaken'
      <4>1. \A m \in Nodes, f \in Events, r \in Steps :
              goroutines'[m][f][r] > 0 => At(m, f, r) \/ (m = n /\ f = e /\ r = "update")
        BY <3>2, Begins DEF Steps
      <4>2. QED
        BY <2>1, <3>2, <4>1
    <3>3. CASE Spawn(n, e, "find")
      <4>1. \A m \in Nodes, f \in Events, r \in Steps :
              goroutines'[m][f][r] > 0 => At(m, f, r) \/ (m = n /\ f = e /\ r = "find")
        BY <3>3, Begins DEF Steps
      <4>2. QED
        BY <2>1, <4>1
    <3>4. QED
      BY <2>3, <3>1, <3>2, <3>3
  <2>5. soon' \cup batch' \cup adding' \subseteq Scheduled
    BY <2>2 DEF EventsInv, OnlyScheduled
  <2>6. QED
    BY <2>1, <2>2, <2>4, <2>5, Harmless
<1>3. QED
  BY <1>1, <1>2 DEF CheckStep

\* Whoever comes to mark an event has run its handler to the end, or found its row gone or
\* processed, or its handler unknown: a row that is gone was not one of a wanted event.
LEMMA Processing ==
  ASSUME TypeOK, EventsInv, NEW n \in Nodes, NEW e \in Events, ProcessItem(n, e)
  PROVE  EventsInv'
<1> DEFINE Same == UNCHANGED <<row, soon, stage, batch, adding, doomed, pairs, cancelled, forsaken>>
<1>1. CASE FindPending(n, e) \/ FindFails(n, e) \/ HandlerPanics(n, e)
  <2>1. Same /\ UNCHANGED <<recentlyDone, handled>>
    BY <1>1 DEF FindPending, FindFails, HandlerPanics, storeVars, workerVars
  <2>2. \/ Goes(n, e, "find", "handle") \/ Goes(n, e, "find", "delete")
        \/ Goes(n, e, "handle", "delete")
    BY <1>1 DEF FindPending, FindFails, HandlerPanics
  <2>3. {"find", "handle", "delete"} \subseteq Steps
    BY DEF Steps
  <2>4. QED
    BY <2>1, <2>2, <2>3, GoesOn
<1>2. CASE FindNothing(n, e)
  <2>1. Same /\ recentlyDone' = recentlyDone /\ handled \subseteq handled' /\ Goes(n, e, "find", "mark")
    BY <1>2 DEF FindNothing, storeVars, workerVars
  <2>2. "find" \in Steps /\ "mark" \in Steps
    BY DEF Steps
  <2>3. stage[e] # "new"
    <3>1. At(n, e, "find")
      BY <2>1 DEF Goes
    <3>2. QED
      BY <2>2, <3>1 DEF EventsInv, OnlyScheduled, Scheduled
  <2>4. Over(e)'
    <3>1. CASE row[e] = "pending"
      BY <1>2, <3>1 DEF FindNothing, Over
    <3>2. CASE row[e] # "pending"
      BY <2>1, <2>3, <3>2 DEF EventsInv, NotForgotten, Over
    <3>3. QED
      BY <3>1, <3>2
  <2>5. QED
    BY <2>1, <2>2, <2>4, GoesOn
<1>3. CASE HandlerReturns(n, e)
  <2>1. /\ Same /\ recentlyDone' = recentlyDone /\ handled' = handled \cup {e}
        /\ Goes(n, e, "handle", "mark")
    BY <1>3 DEF HandlerReturns, storeVars, workerVars
  <2>2. Over(e)' /\ {"handle", "mark"} \subseteq Steps
    BY <2>1 DEF Over, Steps
  <2>3. QED
    BY <2>1, <2>2, GoesOn
<1>4. CASE Mark(n, e)
  <2>1. /\ Same /\ handled' = handled /\ recentlyDone' = recentlyDone \cup {e}
        /\ Goes(n, e, "mark", "delete")
    BY <1>4 DEF Mark, workerVars, historyVars
  <2>2. At(n, e, "mark") /\ {"mark", "delete"} \subseteq Steps
    BY <2>1 DEF Goes, Steps
  <2>3. Over(e)
    BY <2>2 DEF EventsInv, MarkersKnow
  <2>4. Over(e)'
    BY <2>1, <2>3 DEF Over
  <2>5. QED
    BY <2>1, <2>2, <2>4, GoesOn
<1>5. QED
  BY <1>1, <1>2, <1>3, <1>4 DEF ProcessItem

\* markDoneID updates the row of an event that was given up; every goroutine ends by leaving
\* currentlyProcessing.
LEMMA MarkingDone ==
  ASSUME TypeOK, EventsInv, NEW n \in Nodes, NEW e \in Events, MarkDoneID(n, e) \/ Finish(n, e)
  PROVE  EventsInv'
<1>1. CASE MarkProcessed(n, e)
  <2>1. /\ row' = [row EXCEPT ![e] = IF row[e] = "none" THEN row[e] ELSE "processed"]
        /\ UNCHANGED <<soon, recentlyDone, stage, batch, adding, doomed, pairs, cancelled, forsaken,
                       handled>>
        /\ Goes(n, e, "update", "zrem")
    BY <1>1 DEF MarkProcessed, workerVars, historyVars
  <2>2. At(n, e, "update") /\ {"update", "zrem"} \subseteq Steps
    BY <2>1 DEF Goes, Steps
  <2>3. Over(e)'
    BY <2>1, <2>2 DEF EventsInv, MarkersKnow, Over
  <2>4. \A f \in Events : row'[f] = row[f] \/ (Over(f)' /\ (row'[f] # "none" => row[f] # "none"))
    BY <2>1, <2>3 DEF TypeOK
  <2>5. QED
    BY <2>1, <2>2, <2>4, GoesOn
<1>2. CASE MarkProcessedFails(n, e) \/ RemovePair(n, e)
  <2>1. /\ soon' \subseteq soon
        /\ UNCHANGED <<row, recentlyDone, stage, batch, adding, doomed, pairs, cancelled, forsaken,
                       handled>>
    BY <1>2 DEF MarkProcessedFails, RemovePair, storeVars, workerVars, historyVars
  <2>2. Goes(n, e, "update", "delete") \/ Goes(n, e, "zrem", "delete")
    BY <1>2 DEF MarkProcessedFails, RemovePair
  <2>3. {"update", "zrem", "delete"} \subseteq Steps
    BY DEF Steps
  <2>4. QED
    BY <2>1, <2>2, <2>3, GoesOn
<1>3. CASE Finish(n, e)
  <2>1. UNCHANGED <<row, soon, recentlyDone, stage, workerVars, pairs, cancelled, forsaken, handled>>
    BY <1>3 DEF Finish, storeVars, historyVars
  <2>2. \A m \in Nodes, f \in Events, r \in Steps : goroutines'[m][f][r] > 0 => At(m, f, r)
    BY <1>3, Ends DEF Finish, Steps
  <2>3. QED
    BY <2>1, <2>2, Untouched DEF EventsInv, OnlyScheduled
<1>4. QED
  BY <1>1, <1>2, <1>3 DEF MarkDoneID

\* The background worker copies rows of scheduled events, and deletes those that are over.
LEMMA Working ==
  ASSUME TypeOK, EventsInv, FlushStep \/ CleanupStep
  PROVE  EventsInv'
<1>1. CASE FlushStep
  <2>1. soon' \cup batch' \cup adding' \subseteq soon \cup batch \cup adding \cup {e \in Events : row[e] = "pending"}
    BY <1>1 DEF FlushStep, FlushRead, FlushCheck, FlushAdd, storeVars
  <2>2. soon' \cup batch' \cup adding' \subseteq Scheduled
    BY <2>1 DEF EventsInv, OnlyScheduled
  <2>3. UNCHANGED <<row, recentlyDone, stage, doomed, pairs, goroutines, cancelled, forsaken, handled>>
    BY <1>1 DEF FlushStep, FlushRead, FlushCheck, FlushAdd, storeVars, nodeVars, historyVars
  <2>4. \A m \in Nodes, f \in Events, r \in Steps : goroutines'[m][f][r] > 0 => At(m, f, r)
    BY <2>3 DEF At
  <2>5. QED
    BY <2>2, <2>3, <2>4, Harmless DEF EventsInv, OnlyScheduled
<1>2. CASE CleanupStep
  <2>1. UNCHANGED <<soon, stage, batch, adding, pairs, goroutines, cancelled, forsaken, handled>>
    BY <1>2 DEF CleanupStep, CleanupRead, CleanupRows, CleanupSet, CleanupProcessed, storeVars,
                nodeVars, workerVars, historyVars
  <2>2. \A f : Over(f)' <=> Over(f)
    BY <2>1 DEF Over
  <2>3. recentlyDone' \subseteq recentlyDone /\ doomed' \subseteq doomed \cup recentlyDone
    BY <1>2 DEF CleanupStep, CleanupRead, CleanupRows, CleanupSet, CleanupProcessed, storeVars,
                workerVars
  <2>4. \A f \in Events : row'[f] = row[f] \/ (Over(f)' /\ (row'[f] # "none" => row[f] # "none"))
    <3>1. CASE row' = row
      BY <3>1
    <3>2. CASE CleanupRows
      BY <2>2, <3>2 DEF CleanupRows, EventsInv, MarkersKnow
    <3>3. CASE CleanupProcessed
      <4>1. \A f \in Events : row[f] = "processed" => Over(f)
        BY DEF EventsInv, OnlyScheduled, NotForgotten, Scheduled
      <4>2. QED
        BY <2>2, <3>3, <4>1 DEF CleanupProcessed
    <3>4. QED
      BY <1>2, <3>1, <3>2, <3>3 DEF CleanupStep, CleanupRead, CleanupSet, storeVars
  <2>5. \A f \in recentlyDone \cup doomed : Over(f)'
    BY <2>2 DEF EventsInv, MarksTrue, MarkersKnow
  <2>6. \A m \in Nodes, f \in Events, r \in Steps : goroutines'[m][f][r] > 0 => At(m, f, r)
    BY <2>1 DEF At
  <2>7. soon' \cup batch' \cup adding' \subseteq Scheduled /\ \A m \in Nodes : pairs'[m] \subseteq Scheduled
    BY <2>1 DEF EventsInv, OnlyScheduled
  <2>8. QED
    BY <2>1, <2>3, <2>4, <2>5, <2>6, <2>7, Harmless
<1>3. QED
  BY <1>1, <1>2

\* A plugin that cancels an event, time, and a bot that leaves a guild or joins it again.
LEMMA Outside ==
  ASSUME TypeOK, EventsInv, LeaveGuild \/ JoinGuild \/ \E e \in Events : Cancel(e) \/ ComesDue(e)
  PROVE  EventsInv'
<1>1. UNCHANGED <<soon, recentlyDone, stage, nodeVars, workerVars, forsaken, handled>>
  BY DEF LeaveGuild, JoinGuild, Cancel, ComesDue, storeVars, historyVars
<1>2. \A m \in Nodes, f \in Events, r \in Steps : goroutines'[m][f][r] > 0 => At(m, f, r)
  BY <1>1 DEF At, nodeVars
<1>3. \A m \in Nodes : pairs'[m] \subseteq Scheduled
  BY <1>1 DEF EventsInv, OnlyScheduled, nodeVars
<1>4. ASSUME NEW e \in Events, Cancel(e) PROVE EventsInv'
  <2>1. row' = [row EXCEPT ![e] = "none"] /\ cancelled' = cancelled \cup {e}
    BY <1>4 DEF Cancel
  <2>2. Over(e)'
    BY <2>1 DEF Over
  <2>3. \A f \in Events : row'[f] = row[f] \/ (Over(f)' /\ (row'[f] # "none" => row[f] # "none"))
    BY <2>1, <2>2 DEF TypeOK
  <2>4. soon' \cup batch' \cup adding' \subseteq Scheduled /\ UNCHANGED <<batch, adding, doomed>>
    BY <1>1 DEF EventsInv, OnlyScheduled, workerVars
  <2>5. QED
    BY <1>1, <1>2, <1>3, <2>1, <2>3, <2>4, Harmless
<1>5. CASE LeaveGuild \/ JoinGuild \/ \E e \in Events : ComesDue(e)
  <2>1. UNCHANGED <<row, cancelled>>
    BY <1>5 DEF LeaveGuild, JoinGuild, ComesDue, storeVars, historyVars
  <2>2. QED
    BY <1>1, <1>2, <1>3, <2>1, Untouched
<1>6. QED
  BY <1>4, <1>5

\* A shard that comes, goes, or dies with its process takes goroutines with it, and no event.
LEMMA Moving ==
  ASSUME TypeOK, EventsInv, NEW n \in Nodes, ShardReady(n) \/ ShardRemoved(n) \/ Crash(n)
  PROVE  EventsInv'
<1>1. UNCHANGED <<row, soon, recentlyDone, stage, workerVars, cancelled, forsaken, handled>>
  BY DEF ShardReady, ShardRemoved, Crash, storeVars, historyVars
<1>2. /\ \A m \in Nodes : pairs'[m] \subseteq pairs[m]
      /\ \A m \in Nodes, f \in Events, r \in Steps : goroutines'[m][f][r] > 0 => At(m, f, r)
  <2>1. CASE ShardReady(n) \/ ShardRemoved(n)
    BY <2>1 DEF ShardReady, ShardRemoved, nodeVars, At
  <2>2. CASE Crash(n)
    <3>1. pairs' = [pairs EXCEPT ![n] = {}] /\ goroutines' = [goroutines EXCEPT ![n] = NoGoroutines]
      BY <2>2 DEF Crash
    <3>2. \A m \in Nodes : pairs'[m] \subseteq pairs[m]
      BY <3>1 DEF TypeOK
    <3>3. ASSUME NEW m \in Nodes, NEW f \in Events, NEW r \in Steps, goroutines'[m][f][r] > 0
          PROVE  At(m, f, r)
      <4>1. goroutines'[m] = IF m = n THEN NoGoroutines ELSE goroutines[m]
        BY <3>1 DEF TypeOK
      <4>2. NoGoroutines[f][r] = 0
        BY DEF NoGoroutines
      <4>3. QED
        BY <3>3, <4>1, <4>2 DEF At
    <3>4. QED
      BY <3>2, <3>3
  <2>3. QED
    BY <2>1, <2>2
<1>3. \A m \in Nodes : pairs'[m] \subseteq Scheduled
  BY <1>2 DEF EventsInv, OnlyScheduled
<1>4. QED
  BY <1>1, <1>2, <1>3, Untouched

\* Nothing is scheduled at first, and every step keeps the invariant.
LEMMA EventsInvariant == Spec => []EventsInv
<1>1. Init => EventsInv
  <2> SUFFICES ASSUME Init PROVE EventsInv
    OBVIOUS
  <2>1. NotForgotten /\ MarksTrue
    BY DEF Init, NotForgotten, MarksTrue
  <2>2. \A n \in Nodes, e \in Events, s \in Steps : ~At(n, e, s)
    BY DEF Init, At, NoGoroutines
  <2>3. OnlyScheduled
    BY <2>2 DEF Init, OnlyScheduled
  <2>4. MarkersKnow
    BY <2>2 DEF Init, MarkersKnow, Steps
  <2>5. QED
    BY <2>1, <2>3, <2>4 DEF EventsInv
<1>2. TypeOK /\ EventsInv /\ [Next]_vars => EventsInv'
  <2> SUFFICES ASSUME TypeOK, EventsInv, [Next]_vars PROVE EventsInv'
    OBVIOUS
  <2>1. \A e \in Events : Insert(e) \/ FlushInserted(e) \/ Cancel(e) \/ ComesDue(e) => EventsInv'
    BY Scheduling, Outside
  <2>2. \A n \in Nodes : CheckStep(n) \/ ShardReady(n) \/ ShardRemoved(n) \/ Crash(n) => EventsInv'
    BY Checking, Moving
  <2>3. \A n \in Nodes, e \in Events :
          ProcessItem(n, e) \/ MarkDoneID(n, e) \/ Finish(n, e) => EventsInv'
    BY Processing, MarkingDone
  <2>4. FlushStep \/ CleanupStep \/ LeaveGuild \/ JoinGuild => EventsInv'
    BY Working, Outside
  <2>5. CASE UNCHANGED vars
    <3>1. UNCHANGED <<storeVars, stage, nodeVars, workerVars, historyVars>>
      BY <2>5 DEF vars
    <3>2. \A m \in Nodes, f \in Events, r \in Steps : goroutines'[m][f][r] > 0 => At(m, f, r)
      BY <3>1 DEF nodeVars, At
    <3>3. \A m \in Nodes : pairs'[m] \subseteq Scheduled
      BY <3>1 DEF nodeVars, EventsInv, OnlyScheduled
    <3>4. QED
      BY <3>1, <3>2, <3>3, Untouched DEF storeVars, historyVars
  <2>6. QED
    BY <2>1, <2>2, <2>3, <2>4, <2>5, Zenon DEF Next
<1>3. QED
  BY <1>1, <1>2, TypeTheorem, PTL DEF Spec

\* An event whose handler has not come to an end keeps its row, whatever crashes, fails or moves,
\* and however the worker's steps mix with those of the bot processes.
THEOREM NotForgottenTheorem == Spec => []NotForgotten
<1>1. EventsInv => NotForgotten
  BY DEF EventsInv
<1>2. QED
  BY <1>1, EventsInvariant, PTL

\* What was marked as handled lately is not wanted any more.
THEOREM MarksTrueTheorem == Spec => []MarksTrue
<1>1. EventsInv => MarksTrue
  BY DEF EventsInv
<1>2. QED
  BY <1>1, EventsInvariant, PTL
-----------------------------------------------------------------------------
(* The handler is begun once for each interruption, and once more.  The    *)
(* account of an event is kept by counting claims: a step adds one or      *)
(* takes one away, and a claim that is added was paid for.                 *)

\* The set of claims grows and shrinks with one process's number of them.
Numbered(w) == UNION {{n} \X (1 .. w[n]) : n \in Nodes}

LEMMA NumberedMembers ==
  ASSUME NEW w \in [Nodes -> Nat]
  PROVE  \A x : x \in Numbered(w) <=> \E n \in Nodes : \E i \in 1 .. w[n] : x = <<n, i>>
BY DEF Numbered

LEMMA CountOneMore ==
  ASSUME NEW w \in [Nodes -> Nat], NEW v \in [Nodes -> Nat], NEW n \in Nodes,
         v[n] = w[n] + 1, \A m \in Nodes \ {n} : v[m] = w[m]
  PROVE  /\ IsFiniteSet(Numbered(v)) <=> IsFiniteSet(Numbered(w))
         /\ IsFiniteSet(Numbered(w)) => Cardinality(Numbered(v)) = Cardinality(Numbered(w)) + 1
<1>1. Numbered(v) = Numbered(w) \cup {<<n, v[n]>>}
  <2>1. ASSUME NEW m \in Nodes, NEW i \in 1 .. v[m] PROVE i \in 1 .. w[m] \/ (m = n /\ i = v[n])
    OBVIOUS
  <2>2. ASSUME NEW m \in Nodes, NEW i \in 1 .. w[m] PROVE i \in 1 .. v[m]
    OBVIOUS
  <2>3. v[n] \in 1 .. v[n]
    OBVIOUS
  <2>4. QED
    BY <2>1, <2>2, <2>3, NumberedMembers
<1>2. <<n, v[n]>> \notin Numbered(w)
  <2> SUFFICES ASSUME NEW m \in Nodes, NEW i \in 1 .. w[m], <<n, v[n]>> = <<m, i>> PROVE FALSE
    BY NumberedMembers
  <2> QED
    OBVIOUS
<1>3. IsFiniteSet(Numbered(v)) => IsFiniteSet(Numbered(w))
  BY <1>1, FS_Subset
<1>4. IsFiniteSet(Numbered(w)) => /\ IsFiniteSet(Numbered(v))
                                  /\ Cardinality(Numbered(v)) = Cardinality(Numbered(w)) + 1
  BY <1>1, <1>2, FS_AddElement
<1>5. QED
  BY <1>3, <1>4

LEMMA CountNoMore ==
  ASSUME NEW w \in [Nodes -> Nat], NEW v \in [Nodes -> Nat], \A m \in Nodes : v[m] <= w[m],
         IsFiniteSet(Numbered(w))
  PROVE  /\ IsFiniteSet(Numbered(v))
         /\ Cardinality(Numbered(v)) <= Cardinality(Numbered(w))
<1>1. Numbered(v) \subseteq Numbered(w)
  <2>1. \A m \in Nodes : \A i \in 1 .. v[m] : i \in 1 .. w[m]
    OBVIOUS
  <2>2. QED
    BY <2>1, NumberedMembers
<1>2. QED
  BY <1>1, FS_Subset

\* The claims on an event, as numbers.
Counted == \A e \in Events :
  /\ \A n \in Nodes : Claims(n, e) \in Nat /\ Surplus(n, e) \in Nat /\ Deletions(n, e) \in Nat
  /\ [n \in Nodes |-> Claims(n, e)] \in [Nodes -> Nat]
  /\ ClaimSet(e) = Numbered([n \in Nodes |-> Claims(n, e)])
  /\ IsFiniteSet(ClaimSet(e)) => Cardinality(ClaimSet(e)) \in Nat
  /\ NextClaim(e) \in {0, 1} /\ begun[e] \in Nat /\ interrupts[e] \in Nat

LEMMA ClaimsCounted == TypeOK => Counted
<1> SUFFICES ASSUME TypeOK, NEW e \in Events
    PROVE  /\ \A n \in Nodes : Claims(n, e) \in Nat /\ Surplus(n, e) \in Nat /\ Deletions(n, e) \in Nat
           /\ [n \in Nodes |-> Claims(n, e)] \in [Nodes -> Nat]
           /\ ClaimSet(e) = Numbered([n \in Nodes |-> Claims(n, e)])
           /\ IsFiniteSet(ClaimSet(e)) => Cardinality(ClaimSet(e)) \in Nat
           /\ NextClaim(e) \in {0, 1} /\ begun[e] \in Nat /\ interrupts[e] \in Nat
  BY DEF Counted
<1>1. ASSUME NEW n \in Nodes
      PROVE  Claims(n, e) \in Nat /\ Surplus(n, e) \in Nat /\ Deletions(n, e) \in Nat
  <2>1. goroutines[n][e]["find"] \in Nat /\ goroutines[n][e]["delete"] \in Nat
    BY DEF TypeOK, Steps
  <2>2. QED
    BY <2>1 DEF Claims, Surplus, Deletions
<1>2. ClaimSet(e) = Numbered([n \in Nodes |-> Claims(n, e)])
  BY DEF ClaimSet, Numbered
<1>3. QED
  BY <1>1, <1>2, FS_CardinalityType DEF NextClaim, TypeOK

LEMMA CountedNext == TypeOK' => Counted'
BY ClaimsCounted, PTL

\* An account stays paid when nothing is called, and no claim is added that is not paid for.
LEMMA PaidStill ==
  ASSUME TypeOK, TypeOK', NEW e \in Events, Paid(e), e \in Scheduled => e \in Scheduled',
         begun'[e] = begun[e], interrupts'[e] >= interrupts[e],
         row'[e] = "pending" =>
           /\ row[e] = "pending"
           /\ \A m \in Nodes : Claims(m, e)' <= Claims(m, e)
           /\ NextClaim(e)' + interrupts[e] <= NextClaim(e) + interrupts'[e]
  PROVE  Paid(e)'
<1>1. Counted /\ Counted'
  BY ClaimsCounted, CountedNext
<1> USE <1>1 DEF Counted
<1>2. /\ {begun[e], begun'[e], interrupts[e], interrupts'[e]} \subseteq Nat
      /\ NextClaim(e) \in {0, 1} /\ NextClaim(e)' \in {0, 1}
  OBVIOUS
<1>3. begun'[e] <= 1 + interrupts'[e] /\ (begun'[e] > 0 => e \in Scheduled')
  BY <1>2 DEF Paid
<1>4. ASSUME row'[e] = "pending"
      PROVE  /\ IsFiniteSet(ClaimSet(e)')
             /\ begun'[e] + Cardinality(ClaimSet(e)') + NextClaim(e)' <= 1 + interrupts'[e]
  <2>1. PICK w \in [Nodes -> Nat] : w = [m \in Nodes |-> Claims(m, e)] /\ ClaimSet(e) = Numbered(w)
    OBVIOUS
  <2>2. PICK v \in [Nodes -> Nat] : v = [m \in Nodes |-> Claims(m, e)'] /\ ClaimSet(e)' = Numbered(v)
    OBVIOUS
  <2>3. \A m \in Nodes : v[m] <= w[m]
    BY <1>4, <2>1, <2>2
  <2>4. IsFiniteSet(ClaimSet(e)) /\ begun[e] + Cardinality(ClaimSet(e)) + NextClaim(e) <= 1 + interrupts[e]
    BY <1>4 DEF Paid
  <2>5. IsFiniteSet(ClaimSet(e)') /\ Cardinality(ClaimSet(e)') <= Cardinality(ClaimSet(e))
    BY <2>1, <2>2, <2>3, <2>4, CountNoMore
  <2>6. Cardinality(ClaimSet(e)) \in Nat /\ Cardinality(ClaimSet(e)') \in Nat
    BY <2>4, <2>5, FS_CardinalityType
  <2>7. QED
    BY <1>4, <1>2, <2>4, <2>5, <2>6
<1>5. QED
  BY <1>3, <1>4 DEF Paid

\* It stays paid when one process has a claim more or less, if that balances what was called
\* and paid.
LEMMA PaidMoves ==
  ASSUME TypeOK, TypeOK', NEW e \in Events, NEW n \in Nodes, Paid(e), e \in Scheduled',
         row[e] = "pending", \A m \in Nodes \ {n} : Claims(m, e)' = Claims(m, e),
         Claims(n, e)' - Claims(n, e) \in {-1, 0, 1},
         begun'[e] + Claims(n, e)' + NextClaim(e)' + interrupts[e]
           <= begun[e] + Claims(n, e) + NextClaim(e) + interrupts'[e]
  PROVE  Paid(e)'
<1>1. Counted /\ Counted'
  BY ClaimsCounted, CountedNext
<1> USE <1>1 DEF Counted
<1>2. PICK w \in [Nodes -> Nat] : w = [m \in Nodes |-> Claims(m, e)] /\ ClaimSet(e) = Numbered(w)
  OBVIOUS
<1>3. PICK v \in [Nodes -> Nat] : v = [m \in Nodes |-> Claims(m, e)'] /\ ClaimSet(e)' = Numbered(v)
  OBVIOUS
<1>4. \A m \in Nodes \ {n} : v[m] = w[m]
  BY <1>2, <1>3
<1>5. IsFiniteSet(ClaimSet(e)) /\ begun[e] + Cardinality(ClaimSet(e)) + NextClaim(e) <= 1 + interrupts[e]
  BY DEF Paid
<1>6. /\ IsFiniteSet(ClaimSet(e)')
      /\ Cardinality(ClaimSet(e)') - Cardinality(ClaimSet(e)) = v[n] - w[n]
  <2>1. CASE v[n] = w[n] + 1
    BY <1>2, <1>3, <1>4, <1>5, <2>1, CountOneMore
  <2>2. CASE w[n] = v[n] + 1
    BY <1>2, <1>3, <1>4, <1>5, <2>2, CountOneMore
  <2>3. CASE v[n] = w[n]
    <3>1. v = w
      BY <1>4, <2>3
    <3>2. QED
      BY <1>2, <1>3, <1>5, <3>1
  <2>4. QED
    BY <1>2, <1>3, <2>1, <2>2, <2>3
<1>7. /\ {begun[e], begun'[e], interrupts[e], interrupts'[e]} \subseteq Nat
      /\ NextClaim(e) \in {0, 1} /\ NextClaim(e)' \in {0, 1}
  OBVIOUS
<1>8. Cardinality(ClaimSet(e)) \in Nat /\ Cardinality(ClaimSet(e)') \in Nat
  BY <1>5, <1>6, FS_CardinalityType
<1>9. begun'[e] + Cardinality(ClaimSet(e)') + NextClaim(e)' <= 1 + interrupts'[e]
  BY <1>2, <1>3, <1>5, <1>6, <1>7, <1>8
<1>10. begun'[e] <= 1 + interrupts'[e]
  BY <1>9, <1>7, <1>8
<1>11. QED
  BY <1>6, <1>9, <1>10 DEF Paid

\* The claims on e are what they were when no goroutine of it came to a step that claims, or
\* left one, nobody took it in hand or let go of it, and its mark and the shard stayed.
LEMMA Bystander ==
  ASSUME TypeOK, TypeOK', NEW e \in Events, Paid(e), e \in Scheduled => e \in Scheduled',
         begun'[e] = begun[e], interrupts'[e] >= interrupts[e],
         row'[e] = "pending" => row[e] = "pending",
         \A m \in Nodes : /\ goroutines'[m][e]["find"] = goroutines[m][e]["find"]
                          /\ goroutines'[m][e]["delete"] = goroutines[m][e]["delete"]
                          /\ e \in currentlyProcessing'[m] <=> e \in currentlyProcessing[m],
         e \in recentlyDone' <=> e \in recentlyDone, serving' = serving
  PROVE  Paid(e)'
<1>1. Counted
  BY ClaimsCounted
<1>2. \A m \in Nodes : Claims(m, e)' = Claims(m, e)
  BY DEF Claims, Surplus, Deletions
<1>3. InHand(e)' <=> InHand(e)
  BY DEF InHand, Deletions, TypeOK
<1>4. NextClaim(e)' = NextClaim(e)
  BY <1>3 DEF NextClaim
<1>5. begun[e] \in Nat /\ interrupts[e] \in Nat /\ interrupts'[e] \in Nat /\ NextClaim(e) \in {0, 1}
  BY <1>1 DEF Counted, TypeOK
<1>6. \A m \in Nodes : Claims(m, e)' <= Claims(m, e)
  <2> SUFFICES ASSUME NEW m \in Nodes PROVE Claims(m, e)' <= Claims(m, e)
    OBVIOUS
  <2>1. Claims(m, e) \in Nat
    BY <1>1 DEF Counted
  <2>2. QED
    BY <1>2, <2>1
<1>7. NextClaim(e)' + interrupts[e] <= NextClaim(e) + interrupts'[e]
  BY <1>4, <1>5
<1>8. QED
  BY <1>6, <1>7, PaidStill

\* Interruptions are never taken back.
LEMMA InterruptsGrow ==
  ASSUME TypeOK, [Next]_vars
  PROVE  \A e \in Events : interrupts'[e] >= interrupts[e] /\ (e \in Scheduled => e \in Scheduled')
<1> SUFFICES ASSUME NEW e \in Events
             PROVE  interrupts'[e] >= interrupts[e] /\ (e \in Scheduled => e \in Scheduled')
  OBVIOUS
<1>1. interrupts \in [Events -> Nat] /\ stage \in [Events -> {"new", "inserted", "scheduled"}]
  BY DEF TypeOK
<1>2. \A f \in Events : Interrupted(f) => interrupts'[e] >= interrupts[e]
  BY <1>1 DEF Interrupted
<1>3. \A n \in Nodes : InterruptAll(n) => interrupts'[e] >= interrupts[e]
  BY <1>1 DEF InterruptAll
<1>4. /\ interrupts' = interrupts \/ (\E f \in Events : Interrupted(f)) \/ \E n \in Nodes : InterruptAll(n)
      /\ stage' = stage \/ \E f \in Events : Insert(f) \/ FlushInserted(f)
  <2> DEFINE P == /\ \/ interrupts' = interrupts
                     \/ \E f \in Events : Interrupted(f)
                     \/ \E n \in Nodes : InterruptAll(n)
                  /\ stage' = stage \/ \E f \in Events : Insert(f) \/ FlushInserted(f)
  <2>1. ASSUME NEW f \in Events, Insert(f) \/ FlushInserted(f) PROVE P
    <3>1. interrupts' = interrupts
      BY <2>1 DEF Insert, FlushInserted, historyVars
    <3>2. QED
      BY <2>1, <3>1
  <2>2. ASSUME NEW f \in Events, Cancel(f) \/ ComesDue(f) PROVE P
    BY <2>2 DEF Cancel, ComesDue, historyVars
  <2>3. ASSUME NEW n \in Nodes, CheckStep(n) PROVE P
    BY <2>3 DEF CheckStep, BeginCheck, EndCheck, CheckPair, historyVars
  <2>4. ASSUME NEW n \in Nodes, ShardReady(n) \/ ShardRemoved(n) \/ Crash(n) PROVE P
    BY <2>4 DEF ShardReady, ShardRemoved, Crash, historyVars
  <2>5. ASSUME NEW n \in Nodes, NEW f \in Events, ProcessItem(n, f) \/ MarkDoneID(n, f) \/ Finish(n, f)
        PROVE  P
    BY <2>5 DEF ProcessItem, FindPending, FindNothing, FindFails, HandlerReturns, HandlerPanics, Mark,
                MarkDoneID, MarkProcessed, MarkProcessedFails, RemovePair, Finish, historyVars
  <2>6. CASE FlushStep \/ CleanupStep
    BY <2>6 DEF FlushStep, FlushRead, FlushCheck, FlushAdd, CleanupStep, CleanupRead, CleanupRows,
                CleanupSet, CleanupProcessed, historyVars
  <2>7. CASE LeaveGuild \/ JoinGuild \/ UNCHANGED vars
    BY <2>7 DEF LeaveGuild, JoinGuild, vars, historyVars
  <2> HIDE DEF P
  <2>8. \A f \in Events : Insert(f) \/ FlushInserted(f) \/ Cancel(f) \/ ComesDue(f) => P
    BY <2>1, <2>2
  <2>9. \A n \in Nodes : CheckStep(n) \/ ShardReady(n) \/ ShardRemoved(n) \/ Crash(n) => P
    BY <2>3, <2>4
  <2>10. \A n \in Nodes, f \in Events : ProcessItem(n, f) \/ MarkDoneID(n, f) \/ Finish(n, f) => P
    BY <2>5
  <2>11. FlushStep \/ CleanupStep \/ LeaveGuild \/ JoinGuild \/ UNCHANGED vars => P
    BY <2>6, <2>7 DEF P
  <2>12. P
    BY <2>8, <2>9, <2>10, <2>11, Zenon DEF Next
  <2>13. QED
    BY <2>12 DEF P
<1>5. stage[e] # "new" => stage'[e] # "new"
  BY <1>1, <1>4 DEF Insert, FlushInserted
<1>6. interrupts'[e] >= interrupts[e]
  BY <1>1, <1>2, <1>3, <1>4
<1>7. QED
  BY <1>5, <1>6 DEF Scheduled

\* What a goroutine of e at process n does is nobody else's business.
LEMMA OthersPaid ==
  ASSUME TypeOK, TypeOK', AccountInv, [Next]_vars, NEW n \in Nodes, NEW e \in Events,
         NEW f \in Events, f # e, begun'[f] = begun[f], row'[f] = row[f],
         \A m \in Nodes : goroutines'[m][f] = goroutines[m][f],
         \A m \in Nodes : f \in currentlyProcessing'[m] <=> f \in currentlyProcessing[m],
         f \in recentlyDone' <=> f \in recentlyDone, serving' = serving
  PROVE  Paid(f)'
BY InterruptsGrow, Bystander DEF AccountInv

\* A goroutine that comes to its deletion adds one claim at most: to what check() may hand out
\* later if there was an entry without one, and to what it may hand out next otherwise.
LEMMA DeletionAdded ==
  ASSUME TypeOK, TypeOK', NEW n \in Nodes, NEW e \in Events,
         \A m \in Nodes \ {n} : goroutines'[m][e] = goroutines[m][e],
         goroutines'[n][e]["delete"] = goroutines[n][e]["delete"] + 1,
         UNCHANGED <<currentlyProcessing, recentlyDone, serving>>
  PROVE  /\ \A m \in Nodes \ {n} : Claims(m, e)' = Claims(m, e)
         /\ Claims(n, e)' - goroutines'[n][e]["find"] - (Claims(n, e) - goroutines[n][e]["find"]) \in {0, 1}
         /\ Claims(n, e)' + NextClaim(e)' + goroutines[n][e]["find"]
              <= Claims(n, e) + NextClaim(e) + goroutines'[n][e]["find"] + 1
<1>1. /\ goroutines[n][e]["delete"] \in Nat /\ goroutines'[n][e]["delete"] \in Nat
      /\ goroutines[n][e]["find"] \in Nat /\ goroutines'[n][e]["find"] \in Nat
  BY DEF TypeOK, Steps
<1>2. \A m \in Nodes \ {n} : Claims(m, e)' = Claims(m, e) /\ Deletions(m, e)' = Deletions(m, e)
  BY DEF Claims, Surplus, Deletions
<1>3. /\ Deletions(n, e) \in Nat /\ Deletions(n, e)' = Deletions(n, e) + 1
      /\ Claims(n, e) = goroutines[n][e]["find"] + (IF e \in recentlyDone THEN 0 ELSE Surplus(n, e))
      /\ Claims(n, e)' = goroutines'[n][e]["find"] + (IF e \in recentlyDone THEN 0 ELSE Surplus(n, e)')
  BY <1>1 DEF Claims, Deletions
<1>4. CASE e \in recentlyDone
  <2>1. NextClaim(e)' = 0 /\ NextClaim(e) = 0
    BY <1>4 DEF NextClaim
  <2>2. QED
    BY <1>1, <1>2, <1>3, <1>4, <2>1
<1>5. CASE e \notin recentlyDone /\ e \in currentlyProcessing[n] /\ Deletions(n, e) = 0
  <2>1. Surplus(n, e) = 0 /\ Surplus(n, e)' = 0
    BY <1>3, <1>5 DEF Surplus
  <2>2. NextClaim(e)' <= NextClaim(e) + 1
    BY DEF NextClaim
  <2>3. NextClaim(e) \in {0, 1} /\ NextClaim(e)' \in {0, 1}
    BY DEF NextClaim
  <2>4. QED
    BY <1>1, <1>2, <1>3, <1>5, <2>1, <2>2, <2>3
<1>6. CASE e \notin recentlyDone /\ ~(e \in currentlyProcessing[n] /\ Deletions(n, e) = 0)
  <2>1. Surplus(n, e)' = Surplus(n, e) + 1 /\ Surplus(n, e) \in Nat
    BY <1>3, <1>6 DEF Surplus
  <2>2. InHand(e)' <=> InHand(e)
    <3>1. ~(e \in currentlyProcessing'[n] /\ Deletions(n, e)' = 0)
      BY <1>3
    <3>2. QED
      BY <1>2, <1>6, <3>1 DEF InHand, TypeOK
  <2>3. NextClaim(e)' = NextClaim(e) /\ NextClaim(e) \in {0, 1}
    BY <2>2 DEF NextClaim
  <2>4. QED
    BY <1>1, <1>2, <1>3, <1>6, <2>1, <2>3
<1>7. QED
  BY <1>4, <1>5, <1>6

\* processItem: a call of the handler uses the claim of whoever looked the event up, and every
\* end without a mark is paid for.
LEMMA ProcessingPaid ==
  ASSUME TypeOK, TypeOK', EventsInv, AccountInv, [Next]_vars, NEW n \in Nodes, NEW e \in Events,
         ProcessItem(n, e)
  PROVE  Paid(e)'
<1>1. Counted /\ Counted' /\ Paid(e) /\ (e \in Scheduled => e \in Scheduled') /\ interrupts'[e] >= interrupts[e]
  BY ClaimsCounted, CountedNext, InterruptsGrow DEF AccountInv
<1>2. {"find", "handle", "mark", "delete"} \subseteq Steps
  BY DEF Steps
<1>3. ASSUME NEW s \in {"find", "handle", "mark"}, At(n, e, s) PROVE e \in Scheduled /\ e \in Scheduled'
  BY <1>1, <1>2, <1>3 DEF EventsInv, OnlyScheduled
<1>4. /\ begun[e] \in Nat /\ begun'[e] \in Nat /\ interrupts[e] \in Nat /\ interrupts'[e] \in Nat
      /\ Claims(n, e) \in Nat /\ Claims(n, e)' \in Nat
      /\ NextClaim(e) \in {0, 1} /\ NextClaim(e)' \in {0, 1}
  BY <1>1 DEF Counted
<1>5. /\ serving' = serving /\ currentlyProcessing' = currentlyProcessing /\ row' = row
      /\ row[e] # "pending" \/ row[e] = "pending"
  BY DEF ProcessItem, FindPending, FindNothing, FindFails, HandlerReturns, HandlerPanics, Mark,
         storeVars, worldVars
<1>6. CASE FindPending(n, e)
  <2>1. Goes(n, e, "find", "handle") /\ recentlyDone' = recentlyDone /\ interrupts' = interrupts
    BY <1>6 DEF FindPending, storeVars
  <2>2. row[e] = "pending" /\ begun'[e] = begun[e] + 1
    BY <1>6 DEF FindPending, TypeOK
  <2>3. /\ \A m \in Nodes \ {n} : goroutines'[m][e] = goroutines[m][e]
        /\ goroutines'[n][e]["find"] = goroutines[n][e]["find"] - 1
        /\ goroutines'[n][e]["delete"] = goroutines[n][e]["delete"]
    <3>1. "find" # "handle" /\ "delete" \in Steps \ {"find", "handle"}
      BY <1>2
    <3>2. \A m \in Nodes \ {n} : goroutines'[m][e] = goroutines[m][e]
      BY <1>2, <2>1, <3>1, Moves
    <3>3. goroutines'[n][e]["find"] = goroutines[n][e]["find"] - 1
      BY <1>2, <2>1, <3>1, Moves
    <3>4. goroutines'[n][e]["delete"] = goroutines[n][e]["delete"]
      BY <1>2, <2>1, <3>1, Moves
    <3>5. QED
      BY <3>2, <3>3, <3>4
  <2>4. \A m \in Nodes \ {n} : Claims(m, e)' = Claims(m, e)
    BY <1>5, <2>1, <2>3 DEF Claims, Surplus, Deletions
  <2>5. /\ Surplus(n, e)' = Surplus(n, e) /\ (InHand(e)' <=> InHand(e))
        /\ goroutines[n][e]["find"] \in Nat /\ Surplus(n, e) \in Nat
    <3>1. goroutines[n][e]["find"] \in Nat
      BY <1>2 DEF TypeOK
    <3>2. Surplus(n, e) \in Nat
      BY <1>1 DEF Counted
    <3>3. \A m \in Nodes : Deletions(m, e)' = Deletions(m, e)
      BY <2>3 DEF Deletions
    <3>4. Surplus(n, e)' = Surplus(n, e)
      BY <1>5, <3>3 DEF Surplus
    <3>5. InHand(e)' <=> InHand(e)
      BY <1>5, <3>3 DEF InHand, TypeOK
    <3>6. QED
      BY <3>1, <3>4, <3>5, <3>2
  <2>6. Claims(n, e)' = Claims(n, e) - 1 /\ NextClaim(e)' = NextClaim(e)
    BY <2>1, <2>3, <2>5 DEF Claims, NextClaim
  <2>7. e \in Scheduled'
    BY <1>3, <2>1 DEF Goes
  <2>8. Claims(n, e)' - Claims(n, e) \in {-1, 0, 1}
    BY <1>4, <2>6
  <2>9. begun'[e] + Claims(n, e)' + NextClaim(e)' + interrupts[e]
          <= begun[e] + Claims(n, e) + NextClaim(e) + interrupts'[e]
    BY <1>4, <2>1, <2>2, <2>6
  <2>10. QED
    BY <1>1, <2>2, <2>4, <2>7, <2>8, <2>9, PaidMoves
<1>7. CASE FindNothing(n, e) \/ HandlerReturns(n, e)
  <2>1. /\ Goes(n, e, "find", "mark") \/ Goes(n, e, "handle", "mark")
        /\ recentlyDone' = recentlyDone /\ interrupts' = interrupts /\ begun' = begun
    BY <1>7 DEF FindNothing, HandlerReturns, storeVars
  <2>2. /\ \A m \in Nodes \ {n} : goroutines'[m][e] = goroutines[m][e]
        /\ goroutines'[n][e]["find"] <= goroutines[n][e]["find"]
        /\ goroutines'[n][e]["delete"] = goroutines[n][e]["delete"]
        /\ goroutines[n][e]["find"] \in Nat
    <3>1. goroutines[n][e]["find"] \in Nat
      BY <1>2 DEF TypeOK
    <3>2. CASE Goes(n, e, "find", "mark")
      BY <1>2, <3>1, <3>2, Moves
    <3>3. CASE Goes(n, e, "handle", "mark")
      BY <1>2, <3>1, <3>3, Moves
    <3>4. QED
      BY <2>1, <3>2, <3>3
  <2>3. \A m \in Nodes \ {n} : Claims(m, e)' = Claims(m, e)
    BY <1>5, <2>1, <2>2 DEF Claims, Surplus, Deletions
  <2>4. /\ Surplus(n, e)' = Surplus(n, e) /\ (InHand(e)' <=> InHand(e)) /\ Surplus(n, e) \in Nat
        /\ goroutines'[n][e]["find"] \in Nat
    <3>1. goroutines'[n][e]["find"] \in Nat
      BY <1>2 DEF TypeOK
    <3>2. Surplus(n, e) \in Nat
      BY <1>1 DEF Counted
    <3>3. \A m \in Nodes : Deletions(m, e)' = Deletions(m, e)
      BY <2>2 DEF Deletions
    <3>4. Surplus(n, e)' = Surplus(n, e)
      BY <1>5, <3>3 DEF Surplus
    <3>5. InHand(e)' <=> InHand(e)
      BY <1>5, <3>3 DEF InHand, TypeOK
    <3>6. QED
      BY <3>1, <3>4, <3>5, <3>2
  <2>5. Claims(n, e)' <= Claims(n, e) /\ NextClaim(e)' = NextClaim(e)
    BY <2>1, <2>2, <2>4 DEF Claims, NextClaim
  <2>6. ASSUME NEW m \in Nodes PROVE Claims(m, e)' <= Claims(m, e)
    <3>1. Claims(m, e) \in Nat
      BY <1>1 DEF Counted
    <3>2. QED
      BY <2>3, <2>5, <3>1
  <2>7. NextClaim(e)' + interrupts[e] <= NextClaim(e) + interrupts'[e]
    BY <1>4, <2>1, <2>5
  <2>8. QED
    BY <1>1, <1>5, <2>1, <2>6, <2>7, PaidStill
<1>8. CASE FindFails(n, e) \/ HandlerPanics(n, e)
  <2>1. /\ Goes(n, e, "find", "delete") \/ Goes(n, e, "handle", "delete")
        /\ recentlyDone' = recentlyDone /\ Interrupted(e) /\ begun' = begun
    BY <1>8 DEF FindFails, HandlerPanics, storeVars
  <2>2. interrupts'[e] = interrupts[e] + 1
    BY <2>1 DEF Interrupted, TypeOK
  <2>3. /\ \A m \in Nodes \ {n} : goroutines'[m][e] = goroutines[m][e]
        /\ goroutines'[n][e]["find"] - goroutines[n][e]["find"] \in {-1, 0}
        /\ goroutines'[n][e]["delete"] = goroutines[n][e]["delete"] + 1
        /\ goroutines[n][e]["find"] \in Nat /\ goroutines'[n][e]["find"] \in Nat
    <3>1. goroutines[n][e]["find"] \in Nat /\ goroutines'[n][e]["find"] \in Nat
      BY <1>2 DEF TypeOK
    <3>2. CASE Goes(n, e, "find", "delete")
      BY <1>2, <3>1, <3>2, Moves
    <3>3. CASE Goes(n, e, "handle", "delete")
      <4>1. "handle" # "delete" /\ "find" \in Steps \ {"handle", "delete"}
        BY <1>2
      <4>2. \A m \in Nodes \ {n} : goroutines'[m][e] = goroutines[m][e]
        BY <1>2, <3>3, <4>1, Moves
      <4>3. goroutines'[n][e]["find"] = goroutines[n][e]["find"]
        BY <1>2, <3>3, <4>1, Moves
      <4>4. goroutines'[n][e]["delete"] = goroutines[n][e]["delete"] + 1
        BY <1>2, <3>3, <4>1, Moves
      <4>5. QED
        BY <3>1, <4>2, <4>3, <4>4
    <3>4. QED
      BY <2>1, <3>2, <3>3
  <2>4. CASE row[e] = "pending"
    <3>1. /\ \A m \in Nodes \ {n} : Claims(m, e)' = Claims(m, e)
          /\ Claims(n, e)' - goroutines'[n][e]["find"] - (Claims(n, e) - goroutines[n][e]["find"]) \in {0, 1}
          /\ Claims(n, e)' + NextClaim(e)' + goroutines[n][e]["find"]
               <= Claims(n, e) + NextClaim(e) + goroutines'[n][e]["find"] + 1
      BY <1>5, <2>1, <2>3, DeletionAdded
    <3>2. Claims(n, e)' - Claims(n, e) \in {-1, 0, 1}
      BY <1>4, <2>3, <3>1
    <3>3. begun'[e] + Claims(n, e)' + NextClaim(e)' + interrupts[e]
            <= begun[e] + Claims(n, e) + NextClaim(e) + interrupts'[e]
      BY <1>4, <2>1, <2>2, <2>3, <3>1
    <3>4. e \in Scheduled'
      BY <1>3, <2>1 DEF Goes
    <3>5. QED
      BY <1>1, <2>4, <3>1, <3>2, <3>3, <3>4, PaidMoves
  <2>5. CASE row[e] # "pending"
    BY <1>1, <1>5, <2>1, <2>5, PaidStill
  <2>6. QED
    BY <2>4, <2>5
<1>9. CASE Mark(n, e)
  <2>1. /\ Goes(n, e, "mark", "delete") /\ e \in recentlyDone'
        /\ interrupts' = interrupts /\ begun' = begun
    BY <1>9 DEF Mark, historyVars
  <2>2. /\ \A m \in Nodes \ {n} : goroutines'[m][e] = goroutines[m][e]
        /\ goroutines'[n][e]["find"] = goroutines[n][e]["find"]
    BY <1>2, <2>1, Moves
  <2>3. ASSUME NEW m \in Nodes PROVE Claims(m, e)' <= Claims(m, e)
    <3>1. goroutines'[m][e]["find"] = goroutines[m][e]["find"] /\ goroutines[m][e]["find"] \in Nat
      <4>1. goroutines'[m][e]["find"] = goroutines[m][e]["find"]
        BY <2>2
      <4>2. QED
        BY <1>2, <4>1 DEF TypeOK
    <3>2. Surplus(m, e) \in Nat
      BY <1>1 DEF Counted
    <3>3. QED
      BY <2>1, <3>1, <3>2 DEF Claims
  <2>4. NextClaim(e)' = 0
    BY <2>1 DEF NextClaim
  <2>5. NextClaim(e)' + interrupts[e] <= NextClaim(e) + interrupts'[e]
    BY <1>4, <2>1, <2>4
  <2>6. QED
    BY <1>1, <1>5, <2>1, <2>3, <2>5, PaidStill
<1>10. QED
  BY <1>6, <1>7, <1>8, <1>9 DEF ProcessItem

\* markDoneID and the deferred deletion: what is about to be deleted was a claim already, or its
\* row is processed, or its query failed, which is an interruption.
LEMMA FinishingPaid ==
  ASSUME TypeOK, TypeOK', EventsInv, AccountInv, [Next]_vars, NEW n \in Nodes, NEW e \in Events,
         MarkDoneID(n, e) \/ Finish(n, e)
  PROVE  Paid(e)'
<1>1. Counted /\ Counted' /\ Paid(e) /\ (e \in Scheduled => e \in Scheduled') /\ interrupts'[e] >= interrupts[e]
  BY ClaimsCounted, CountedNext, InterruptsGrow DEF AccountInv
<1>2. {"find", "update", "zrem", "delete"} \subseteq Steps /\ "find" \in Steps \ {"update", "delete"}
  BY DEF Steps
<1>3. /\ begun[e] \in Nat /\ begun'[e] \in Nat /\ interrupts[e] \in Nat /\ interrupts'[e] \in Nat
      /\ Claims(n, e) \in Nat /\ Claims(n, e)' \in Nat
      /\ NextClaim(e) \in {0, 1} /\ NextClaim(e)' \in {0, 1}
  BY <1>1 DEF Counted
<1>4. begun' = begun /\ serving' = serving /\ recentlyDone' = recentlyDone
  BY DEF MarkDoneID, MarkProcessed, MarkProcessedFails, RemovePair, Finish, historyVars, worldVars,
         storeVars
<1>5. CASE MarkProcessed(n, e) \/ RemovePair(n, e)
  <2>1. row'[e] # "pending"
    <3>1. CASE MarkProcessed(n, e)
      BY <3>1 DEF MarkProcessed, TypeOK
    <3>2. CASE RemovePair(n, e)
      BY <3>2 DEF RemovePair, Goes, AccountInv, RowsFirst
    <3>3. QED
      BY <1>5, <3>1, <3>2
  <2>2. QED
    BY <1>1, <1>4, <2>1, PaidStill
<1>6. CASE MarkProcessedFails(n, e)
  <2>1. /\ Goes(n, e, "update", "delete") /\ Interrupted(e) /\ row' = row
        /\ currentlyProcessing' = currentlyProcessing
    BY <1>6 DEF MarkProcessedFails, storeVars
  <2>2. interrupts'[e] = interrupts[e] + 1
    BY <2>1 DEF Interrupted, TypeOK
  <2>3. \A m \in Nodes \ {n} : goroutines'[m][e] = goroutines[m][e]
    BY <1>2, <2>1, Moves
  <2>4. goroutines'[n][e]["find"] = goroutines[n][e]["find"]
    BY <1>2, <2>1, Moves
  <2>5. goroutines'[n][e]["delete"] = goroutines[n][e]["delete"] + 1
    BY <1>2, <2>1, Moves
  <2>6. goroutines[n][e]["find"] \in Nat
    BY <1>2 DEF TypeOK
  <2>7. CASE row[e] = "pending"
    <3>1. /\ \A m \in Nodes \ {n} : Claims(m, e)' = Claims(m, e)
          /\ Claims(n, e)' - goroutines'[n][e]["find"] - (Claims(n, e) - goroutines[n][e]["find"]) \in {0, 1}
          /\ Claims(n, e)' + NextClaim(e)' + goroutines[n][e]["find"]
               <= Claims(n, e) + NextClaim(e) + goroutines'[n][e]["find"] + 1
      BY <1>4, <2>1, <2>3, <2>5, DeletionAdded
    <3>2. Claims(n, e)' - Claims(n, e) \in {-1, 0, 1}
      BY <1>3, <2>4, <2>6, <3>1
    <3>3. begun'[e] + Claims(n, e)' + NextClaim(e)' + interrupts[e]
            <= begun[e] + Claims(n, e) + NextClaim(e) + interrupts'[e]
      BY <1>3, <1>4, <2>2, <2>4, <2>6, <3>1
    <3>4. e \in Scheduled'
      BY <1>1, <1>2, <2>1 DEF Goes, EventsInv, OnlyScheduled
    <3>5. QED
      BY <1>1, <2>7, <3>1, <3>2, <3>3, <3>4, PaidMoves
  <2>8. CASE row[e] # "pending"
    BY <1>1, <1>4, <2>1, <2>8, PaidStill
  <2>9. QED
    BY <2>7, <2>8
<1>7. CASE Finish(n, e)
  <2>1. /\ At(n, e, "delete") /\ goroutines' = [goroutines EXCEPT ![n][e]["delete"] = @ - 1]
        /\ currentlyProcessing' = [currentlyProcessing EXCEPT ![n] = @ \ {e}]
        /\ row' = row /\ interrupts' = interrupts
    BY <1>7 DEF Finish, storeVars, historyVars
  <2>2. \A m \in Nodes \ {n} : goroutines'[m][e] = goroutines[m][e]
    BY <1>2, <2>1, Ends
  <2>3. goroutines'[n][e]["find"] = goroutines[n][e]["find"]
    BY <1>2, <2>1, Ends
  <2>4. goroutines'[n][e]["delete"] = goroutines[n][e]["delete"] - 1
    BY <1>2, <2>1, Ends
  <2>5. goroutines[n][e]["find"] \in Nat /\ goroutines[n][e]["delete"] \in Nat
    BY <1>2 DEF TypeOK
  <2>6. /\ e \notin currentlyProcessing'[n]
        /\ \A m \in Nodes \ {n} : currentlyProcessing'[m] = currentlyProcessing[m]
    BY <2>1 DEF TypeOK
  <2>7. Surplus(n, e)' <= Surplus(n, e) /\ Surplus(n, e) \in Nat /\ Surplus(n, e)' \in Nat
    <3>1. Surplus(n, e)' = goroutines[n][e]["delete"] - 1
      BY <2>4, <2>6 DEF Surplus, Deletions
    <3>2. goroutines[n][e]["delete"] > 0
      BY <2>1 DEF At
    <3>3. QED
      BY <2>5, <3>1, <3>2 DEF Surplus, Deletions
  <2>8. ASSUME NEW m \in Nodes PROVE Claims(m, e)' <= Claims(m, e)
    <3>1. CASE m = n
      BY <1>4, <2>3, <2>5, <2>7, <3>1 DEF Claims
    <3>2. CASE m # n
      <4>1. Claims(m, e)' = Claims(m, e)
        BY <1>4, <2>2, <2>6, <3>2 DEF Claims, Surplus, Deletions
      <4>2. Claims(m, e) \in Nat
        BY <1>1 DEF Counted
      <4>3. QED
        BY <4>1, <4>2
    <3>3. QED
      BY <3>1, <3>2
  <2>9. NextClaim(e)' = NextClaim(e)
    <3>1. InHand(e) => InHand(e)'
      <4>1. ~(e \in currentlyProcessing[n] /\ Deletions(n, e) = 0)
        BY <2>1, <2>5 DEF At, Deletions
      <4>2. QED
        BY <1>4, <2>2, <2>6, <4>1 DEF InHand, Deletions, TypeOK
    <3>2. InHand(e)' => InHand(e)
      BY <1>4, <2>2, <2>6 DEF InHand, Deletions, TypeOK
    <3>3. QED
      BY <1>4, <3>1, <3>2 DEF NextClaim
  <2>10. NextClaim(e)' + interrupts[e] <= NextClaim(e) + interrupts'[e]
    BY <1>3, <2>1, <2>9
  <2>11. QED
    BY <1>1, <1>4, <2>1, <2>8, <2>10, PaidStill
<1>8. QED
  BY <1>5, <1>6, <1>7 DEF MarkDoneID

\* check() hands out an event that nobody has in hand: that was the next claim, or stands for an
\* entry that somebody else is about to delete.
LEMMA HandingOutPaid ==
  ASSUME TypeOK, TypeOK', EventsInv, AccountInv, [Next]_vars, NEW n \in Nodes, NEW e \in Events,
         CheckPair(n, e)
  PROVE  Paid(e)'
<1>1. Counted /\ Counted' /\ Paid(e) /\ (e \in Scheduled => e \in Scheduled') /\ interrupts'[e] >= interrupts[e]
  BY ClaimsCounted, CountedNext, InterruptsGrow DEF AccountInv
<1>2. {"find", "update", "delete"} \subseteq Steps /\ "find" \in Steps \ {"update"}
      /\ "delete" \in Steps \ {"update"} /\ "delete" \in Steps \ {"find"}
  BY DEF Steps
<1>3. /\ begun[e] \in Nat /\ interrupts[e] \in Nat
      /\ Claims(n, e) \in Nat /\ Claims(n, e)' \in Nat
      /\ NextClaim(e) \in {0, 1} /\ NextClaim(e)' \in {0, 1}
  BY <1>1 DEF Counted
<1>4. /\ begun' = begun /\ serving' = serving /\ recentlyDone' = recentlyDone /\ row' = row
      /\ interrupts' = interrupts
  BY DEF CheckPair, worldVars
<1>5. CASE currentlyProcessing' = currentlyProcessing /\ (goroutines' = goroutines \/ Spawn(n, e, "update"))
  <2>1. ASSUME NEW m \in Nodes
        PROVE  /\ goroutines'[m][e]["find"] = goroutines[m][e]["find"]
               /\ goroutines'[m][e]["delete"] = goroutines[m][e]["delete"]
    <3>1. CASE Spawn(n, e, "update") /\ m # n
      BY <1>2, <3>1, Begins
    <3>2. CASE Spawn(n, e, "update") /\ m = n
      <4>1. goroutines'[n][e]["find"] = goroutines[n][e]["find"]
        BY <1>2, <3>2, Begins
      <4>2. goroutines'[n][e]["delete"] = goroutines[n][e]["delete"]
        BY <1>2, <3>2, Begins
      <4>3. QED
        BY <3>2, <4>1, <4>2
    <3>3. QED
      BY <1>5, <3>1, <3>2
  <2>2. QED
    BY <1>1, <1>4, <1>5, <2>1, Bystander
<1>6. CASE /\ ~Skip(n, e) /\ here /\ e \notin recentlyDone /\ Spawn(n, e, "find")
           /\ currentlyProcessing' = [currentlyProcessing EXCEPT ![n] = @ \cup {e}]
  <2>1. \A m \in Nodes \ {n} : goroutines'[m][e] = goroutines[m][e]
    BY <1>2, <1>6, Begins
  <2>2. goroutines'[n][e]["find"] = goroutines[n][e]["find"] + 1
    BY <1>2, <1>6, Begins
  <2>3. goroutines'[n][e]["delete"] = goroutines[n][e]["delete"]
    BY <1>2, <1>6, Begins
  <2>4. goroutines[n][e]["find"] \in Nat /\ goroutines[n][e]["delete"] \in Nat
    BY <1>2 DEF TypeOK
  <2>5. /\ e \in currentlyProcessing'[n] /\ e \notin currentlyProcessing[n]
        /\ \A m \in Nodes \ {n} : currentlyProcessing'[m] = currentlyProcessing[m]
    BY <1>6 DEF Skip, TypeOK
  <2>6. serving = {n}
    BY <1>6 DEF Skip, TypeOK
  <2>7. \A m \in Nodes \ {n} : Claims(m, e)' = Claims(m, e)
    BY <1>4, <2>1, <2>5 DEF Claims, Surplus, Deletions
  <2>8. /\ Claims(n, e) = goroutines[n][e]["find"] + goroutines[n][e]["delete"]
        /\ Claims(n, e)' = goroutines[n][e]["find"] + 1
                             + (IF goroutines[n][e]["delete"] > 0 THEN goroutines[n][e]["delete"] - 1
                                                                  ELSE goroutines[n][e]["delete"])
    BY <1>4, <1>6, <2>2, <2>3, <2>5 DEF Claims, Surplus, Deletions
  <2>9. /\ NextClaim(e) = 1
        /\ NextClaim(e)' = IF goroutines[n][e]["delete"] = 0 THEN 0 ELSE 1
    <3>1. ~InHand(e)
      BY <2>5, <2>6 DEF InHand
    <3>2. InHand(e)' <=> goroutines[n][e]["delete"] = 0
      BY <1>4, <2>3, <2>5, <2>6 DEF InHand, Deletions
    <3>3. QED
      BY <1>4, <1>6, <3>1, <3>2 DEF NextClaim
  <2>10. Claims(n, e)' - Claims(n, e) \in {-1, 0, 1}
    BY <2>4, <2>8
  <2>11. begun'[e] + Claims(n, e)' + NextClaim(e)' + interrupts[e]
           <= begun[e] + Claims(n, e) + NextClaim(e) + interrupts'[e]
    BY <1>3, <1>4, <2>4, <2>8, <2>9
  <2>12. e \in Scheduled'
    BY <1>1 DEF CheckPair, EventsInv, OnlyScheduled
  <2>13. CASE row[e] = "pending"
    BY <1>1, <2>7, <2>10, <2>11, <2>12, <2>13, PaidMoves
  <2>14. CASE row[e] # "pending"
    BY <1>1, <1>4, <2>14, PaidStill
  <2>15. QED
    BY <2>13, <2>14
<1>7. QED
  BY <1>5, <1>6 DEF CheckPair

\* A new event has no claims but the next one.
LEMMA InsertPaid ==
  ASSUME TypeOK, TypeOK', EventsInv, AccountInv, [Next]_vars, NEW e \in Events, Insert(e)
  PROVE  Paid(e)'
<1>1. Counted /\ Counted' /\ Paid(e) /\ (e \in Scheduled => e \in Scheduled') /\ interrupts'[e] >= interrupts[e]
  BY ClaimsCounted, CountedNext, InterruptsGrow DEF AccountInv
<1>2. /\ begun' = begun /\ interrupts' = interrupts /\ goroutines' = goroutines
      /\ recentlyDone' = recentlyDone /\ currentlyProcessing' = currentlyProcessing
  BY DEF Insert, historyVars, nodeVars
<1>3. e \notin Scheduled /\ e \in Scheduled'
  BY DEF Insert, Scheduled, TypeOK
<1>4. begun[e] = 0 /\ interrupts[e] \in Nat /\ NextClaim(e)' \in {0, 1}
  <2>1. begun[e] \in Nat /\ interrupts[e] \in Nat /\ NextClaim(e)' \in {0, 1}
    BY <1>1 DEF Counted
  <2>2. ~(begun[e] > 0)
    BY <1>1, <1>3 DEF Paid
  <2>3. QED
    BY <2>1, <2>2
<1>5. ASSUME NEW m \in Nodes PROVE Claims(m, e)' = 0
  <2>1. goroutines[m][e]["find"] = 0 /\ goroutines[m][e]["delete"] = 0
    <3>1. \A s \in Steps : goroutines[m][e][s] \in Nat /\ ~At(m, e, s)
      BY <1>3 DEF TypeOK, EventsInv, OnlyScheduled
    <3>2. QED
      BY <3>1 DEF At, Steps
  <2>2. QED
    BY <1>2, <2>1 DEF Claims, Surplus, Deletions
<1>6. ClaimSet(e)' = {}
  <2>1. \A m \in Nodes : 1 .. Claims(m, e)' = {}
    BY <1>5
  <2>2. QED
    BY <2>1 DEF ClaimSet
<1>7. IsFiniteSet(ClaimSet(e)') /\ Cardinality(ClaimSet(e)') = 0
  BY <1>6, FS_EmptySet
<1>8. QED
  BY <1>2, <1>3, <1>4, <1>7 DEF Paid

\* A shard that leaves its process, or dies with it, interrupts what was not marked yet; what
\* comes to a process finds there what it had in hand.
LEMMA ShardPaid ==
  ASSUME TypeOK, TypeOK', EventsInv, AccountInv, [Next]_vars, NEW n \in Nodes, NEW e \in Events,
         ShardReady(n) \/ ShardRemoved(n) \/ Crash(n)
  PROVE  Paid(e)'
<1>1. Counted /\ Counted' /\ Paid(e) /\ (e \in Scheduled => e \in Scheduled') /\ interrupts'[e] >= interrupts[e]
  BY ClaimsCounted, CountedNext, InterruptsGrow DEF AccountInv
<1>2. /\ interrupts[e] \in Nat /\ interrupts'[e] \in Nat
      /\ NextClaim(e) \in {0, 1} /\ NextClaim(e)' \in {0, 1}
  BY <1>1 DEF Counted
<1>3. row' = row /\ begun' = begun /\ recentlyDone' = recentlyDone
  BY DEF ShardReady, ShardRemoved, Crash, storeVars, historyVars
<1>4. ASSUME NEW m \in Nodes PROVE Claims(m, e)' <= Claims(m, e)
  <2>1. Claims(m, e) \in Nat
    BY <1>1 DEF Counted
  <2>2. CASE goroutines'[m] = goroutines[m] /\ currentlyProcessing'[m] = currentlyProcessing[m]
    BY <1>3, <2>1, <2>2 DEF Claims, Surplus, Deletions
  <2>3. CASE Crash(n) /\ m = n
    <3>1. goroutines'[n] = NoGoroutines
      BY <2>3 DEF Crash, TypeOK
    <3>2. goroutines'[n][e]["find"] = 0 /\ goroutines'[n][e]["delete"] = 0
      BY <3>1 DEF NoGoroutines, Steps
    <3>3. Claims(m, e)' = 0
      BY <2>3, <3>2 DEF Claims, Surplus, Deletions
    <3>4. QED
      BY <2>1, <3>3
  <2>4. CASE Crash(n) /\ m # n
    BY <2>2, <2>4 DEF Crash, TypeOK
  <2>5. CASE ShardReady(n) \/ ShardRemoved(n)
    BY <2>2, <2>5 DEF ShardReady, ShardRemoved, nodeVars
  <2>6. QED
    BY <2>3, <2>4, <2>5
<1>5. NextClaim(e)' + interrupts[e] <= NextClaim(e) + interrupts'[e]
  <2>1. CASE ShardReady(n)
    <3>1. ~InHand(e)
      BY <2>1 DEF ShardReady, InHand
    <3>2. NextClaim(e)' <= NextClaim(e)
      BY <1>2, <1>3, <3>1 DEF NextClaim
    <3>3. QED
      BY <1>1, <1>2, <3>2
  <2>2. CASE (ShardRemoved(n) \/ Crash(n)) /\ n \in serving /\ InHand(e)
    <3>1. serving = {n} /\ e \in currentlyProcessing[n] /\ Deletions(n, e) = 0
      BY <2>2 DEF InHand, TypeOK
    <3>2. Unmarked(n, e)
      <4>1. ~At(n, e, "delete")
        BY <3>1 DEF At, Deletions
      <4>2. QED
        BY <3>1, <4>1 DEF AccountInv, EntriesOwned
    <3>3. interrupts'[e] = interrupts[e] + 1
      BY <2>2, <3>2 DEF ShardRemoved, Crash, InterruptAll, TypeOK
    <3>4. QED
      BY <1>2, <3>3
  <2>3. CASE (ShardRemoved(n) \/ Crash(n)) /\ ~InHand(e)
    <3>1. NextClaim(e)' <= NextClaim(e)
      BY <1>2, <1>3, <2>3 DEF NextClaim
    <3>2. QED
      BY <1>1, <1>2, <3>1
  <2>4. CASE Crash(n) /\ n \notin serving /\ InHand(e)
    <3>1. PICK k \in serving : e \in currentlyProcessing[k] /\ Deletions(k, e) = 0
      BY <2>4 DEF InHand
    <3>2. k \in Nodes /\ k # n /\ k \in serving'
      BY <2>4 DEF Crash, TypeOK
    <3>3. currentlyProcessing'[k] = currentlyProcessing[k] /\ goroutines'[k] = goroutines[k]
      BY <2>4, <3>2 DEF Crash, TypeOK
    <3>4. InHand(e)'
      BY <3>1, <3>2, <3>3 DEF InHand, Deletions
    <3>5. NextClaim(e)' = NextClaim(e)
      BY <1>3, <2>4, <3>4 DEF NextClaim
    <3>6. QED
      BY <1>1, <1>2, <3>5
  <2>5. ShardRemoved(n) => n \in serving
    BY DEF ShardRemoved
  <2>6. QED
    BY <2>1, <2>2, <2>3, <2>4, <2>5
<1>6. QED
  BY <1>1, <1>3, <1>4, <1>5, PaidStill

\* The worker deletes rows, and forgets marks when their rows are gone; the rest of the world
\* touches no claims.
LEMMA WorkPaid ==
  ASSUME TypeOK, TypeOK', EventsInv, AccountInv, [Next]_vars, NEW e \in Events,
         FlushStep \/ CleanupStep
  PROVE  Paid(e)'
<1>1. Paid(e) /\ (e \in Scheduled => e \in Scheduled') /\ interrupts'[e] >= interrupts[e]
  BY InterruptsGrow DEF AccountInv
<1>2. begun' = begun /\ goroutines' = goroutines /\ currentlyProcessing' = currentlyProcessing
      /\ serving' = serving
  BY DEF FlushStep, FlushRead, FlushCheck, FlushAdd, CleanupStep, CleanupRead, CleanupRows, CleanupSet,
         CleanupProcessed, historyVars, nodeVars, worldVars
<1>3. row'[e] = "pending" => row[e] = "pending"
  BY DEF FlushStep, FlushRead, FlushCheck, FlushAdd, CleanupStep, CleanupRead, CleanupRows, CleanupSet,
         CleanupProcessed, storeVars, TypeOK
<1>4. CASE row'[e] = "pending"
  <2>1. e \in recentlyDone' <=> e \in recentlyDone
    <3>1. CASE CleanupSet
      BY <1>3, <1>4, <3>1 DEF CleanupSet, AccountInv, RowsFirst
    <3>2. QED
      BY <3>1 DEF FlushStep, FlushRead, FlushCheck, FlushAdd, CleanupStep, CleanupRead, CleanupRows,
                  CleanupProcessed, storeVars
  <2>2. QED
    BY <1>1, <1>2, <1>3, <2>1, Bystander
<1>5. CASE row'[e] # "pending"
  BY <1>1, <1>2, <1>5, PaidStill
<1>6. QED
  BY <1>4, <1>5

\* Every account stays paid.
LEMMA EveryonePaid ==
  ASSUME TypeOK, TypeOK', EventsInv, AccountInv, [Next]_vars, NEW f \in Events
  PROVE  Paid(f)'
<1>1. Paid(f) /\ (f \in Scheduled => f \in Scheduled') /\ interrupts'[f] >= interrupts[f]
  BY InterruptsGrow DEF AccountInv
<1>2. ASSUME UNCHANGED <<goroutines, currentlyProcessing, recentlyDone, serving, begun>>,
             row'[f] = "pending" => row[f] = "pending"
      PROVE  Paid(f)'
  BY <1>1, <1>2, Bystander
<1>3. ASSUME NEW e \in Events, Insert(e) \/ FlushInserted(e) \/ Cancel(e) \/ ComesDue(e)
      PROVE  Paid(f)'
  <2>1. CASE Insert(e) /\ e = f
    BY <2>1, InsertPaid
  <2>2. CASE ~(Insert(e) /\ e = f)
    <3>1. row'[f] = "pending" => row[f] = "pending"
      BY <1>3, <2>2 DEF Insert, FlushInserted, Cancel, ComesDue, storeVars, TypeOK
    <3>2. UNCHANGED <<goroutines, currentlyProcessing, recentlyDone, serving, begun>>
      BY <1>3 DEF Insert, FlushInserted, Cancel, ComesDue, storeVars, nodeVars, worldVars, historyVars
    <3>3. QED
      BY <1>2, <3>1, <3>2
  <2>3. QED
    BY <2>1, <2>2
<1>4. ASSUME NEW n \in Nodes, CheckStep(n) PROVE Paid(f)'
  <2>1. CASE BeginCheck(n) \/ EndCheck(n)
    BY <1>2, <2>1 DEF BeginCheck, EndCheck, storeVars, worldVars, historyVars
  <2>2. ASSUME NEW e \in Events, CheckPair(n, e) PROVE Paid(f)'
    <3>1. CASE f = e
      BY <2>2, <3>1, HandingOutPaid
    <3>2. CASE f # e
      <4>1. begun' = begun /\ row' = row /\ recentlyDone' = recentlyDone /\ serving' = serving
        BY <2>2 DEF CheckPair, worldVars
      <4>2. \A m \in Nodes : goroutines'[m][f] = goroutines[m][f]
        <5>1. \A s \in {"find", "update"} :
                Spawn(n, e, s) => \A m \in Nodes : goroutines'[m][f] = goroutines[m][f]
          BY <3>2, Begins DEF Steps
        <5>2. QED
          BY <2>2, <5>1 DEF CheckPair
      <4>3. \A m \in Nodes : f \in currentlyProcessing'[m] <=> f \in currentlyProcessing[m]
        <5>1. currentlyProcessing \in [Nodes -> SUBSET Events]
          BY DEF TypeOK
        <5>2. \/ currentlyProcessing' = currentlyProcessing
              \/ currentlyProcessing' = [currentlyProcessing EXCEPT ![n] = @ \cup {e}]
          BY <2>2 DEF CheckPair
        <5>3. QED
          BY <3>2, <5>1, <5>2
      <4>4. QED
        BY <3>2, <4>1, <4>2, <4>3, OthersPaid
    <3>3. QED
      BY <3>1, <3>2
  <2>3. QED
    BY <1>4, <2>1, <2>2 DEF CheckStep
<1>5. ASSUME NEW n \in Nodes, ShardReady(n) \/ ShardRemoved(n) \/ Crash(n) PROVE Paid(f)'
  BY <1>5, ShardPaid
<1>6. ASSUME NEW n \in Nodes, NEW e \in Events, ProcessItem(n, e) \/ MarkDoneID(n, e) \/ Finish(n, e)
      PROVE  Paid(f)'
  <2>1. CASE f = e
    BY <1>6, <2>1, ProcessingPaid, FinishingPaid
  <2>2. CASE f # e
    <3>1. serving' = serving /\ (f \in recentlyDone' <=> f \in recentlyDone)
      BY <1>6, <2>2 DEF ProcessItem, FindPending, FindNothing, FindFails, HandlerReturns, HandlerPanics,
                  Mark, MarkDoneID, MarkProcessed, MarkProcessedFails, RemovePair, Finish, storeVars,
                  worldVars
    <3>2. begun'[f] = begun[f] /\ row'[f] = row[f]
      BY <1>6, <2>2 DEF ProcessItem, FindPending, FindNothing, FindFails, HandlerReturns, HandlerPanics,
                  Mark, MarkDoneID, MarkProcessed, MarkProcessedFails, RemovePair, Finish, storeVars,
                  historyVars, TypeOK
    <3>3. \A m \in Nodes : f \in currentlyProcessing'[m] <=> f \in currentlyProcessing[m]
      <4>1. currentlyProcessing \in [Nodes -> SUBSET Events]
        BY DEF TypeOK
      <4>2. \/ currentlyProcessing' = currentlyProcessing
            \/ currentlyProcessing' = [currentlyProcessing EXCEPT ![n] = @ \ {e}]
        BY <1>6 DEF ProcessItem, FindPending, FindNothing, FindFails, HandlerReturns, HandlerPanics,
                    Mark, MarkDoneID, MarkProcessed, MarkProcessedFails, RemovePair, Finish
      <4>3. QED
        BY <2>2, <4>1, <4>2
    <3>4. \A m \in Nodes : goroutines'[m][f] = goroutines[m][f]
      <4>1. \/ Goes(n, e, "find", "handle") \/ Goes(n, e, "find", "mark") \/ Goes(n, e, "find", "delete")
            \/ Goes(n, e, "handle", "mark") \/ Goes(n, e, "handle", "delete")
            \/ Goes(n, e, "mark", "delete") \/ Goes(n, e, "update", "zrem")
            \/ Goes(n, e, "update", "delete") \/ Goes(n, e, "zrem", "delete") \/ Finish(n, e)
        BY <1>6 DEF ProcessItem, FindPending, FindNothing, FindFails, HandlerReturns, HandlerPanics,
                    Mark, MarkDoneID, MarkProcessed, MarkProcessedFails, RemovePair
      <4>2. \A s, t \in Steps :
              s # t /\ Goes(n, e, s, t) => \A m \in Nodes : goroutines'[m][f] = goroutines[m][f]
        BY <2>2, Moves
      <4>3. Finish(n, e) => \A m \in Nodes : goroutines'[m][f] = goroutines[m][f]
        <5>1. "delete" \in Steps
          BY DEF Steps
        <5>2. QED
          BY <2>2, <5>1, Ends DEF Finish
      <4>4. Steps = {"find", "handle", "mark", "update", "zrem", "delete"}
        BY DEF Steps
      <4>5. QED
        BY <4>1, <4>2, <4>3, <4>4
    <3>5. QED
      BY <2>2, <3>1, <3>2, <3>3, <3>4, OthersPaid
  <2>3. QED
    BY <2>1, <2>2
<1>7. FlushStep \/ CleanupStep => Paid(f)'
  BY WorkPaid
<1>8. LeaveGuild \/ JoinGuild \/ UNCHANGED vars => Paid(f)'
  BY <1>2 DEF LeaveGuild, JoinGuild, vars, storeVars, worldVars, nodeVars, historyVars
<1>9. \A e \in Events : Insert(e) \/ FlushInserted(e) \/ Cancel(e) \/ ComesDue(e) => Paid(f)'
  BY <1>3
<1>10. \A n \in Nodes : CheckStep(n) \/ ShardReady(n) \/ ShardRemoved(n) \/ Crash(n) => Paid(f)'
  BY <1>4, <1>5
<1>11. \A n \in Nodes, e \in Events : ProcessItem(n, e) \/ MarkDoneID(n, e) \/ Finish(n, e) => Paid(f)'
  BY <1>6
<1>12. QED
  BY <1>7, <1>8, <1>9, <1>10, <1>11, Zenon DEF Next

\* An entry of currentlyProcessing is made with a goroutine, and goes with one.
LEMMA EntriesStep ==
  ASSUME TypeOK, TypeOK', AccountInv, [Next]_vars
  PROVE  EntriesOwned'
<1> SUFFICES ASSUME NEW k \in Nodes, NEW f \in Events, f \in currentlyProcessing'[k]
             PROVE  \E s \in {"find", "handle", "mark", "delete"} : goroutines'[k][f][s] > 0
  <2>1. \A k \in Nodes : currentlyProcessing'[k] \subseteq Events
    BY DEF TypeOK
  <2>2. QED
    BY <2>1 DEF EntriesOwned, Unmarked, At
<1>1. f \in currentlyProcessing[k] => \E s \in {"find", "handle", "mark", "delete"} : goroutines[k][f][s] > 0
  BY DEF AccountInv, EntriesOwned, Unmarked, At
<1>2. CASE f \in currentlyProcessing[k] /\ goroutines'[k][f] = goroutines[k][f]
  BY <1>1, <1>2
<1>3. ASSUME NEW n \in Nodes, NEW e \in Events, CheckPair(n, e)
      PROVE  \E s \in {"find", "handle", "mark", "delete"} : goroutines'[k][f][s] > 0
  <2>1. currentlyProcessing \in [Nodes -> SUBSET Events]
    BY DEF TypeOK
  <2>2. CASE goroutines' = goroutines /\ currentlyProcessing' = currentlyProcessing
    BY <1>2, <2>2
  <2>3. CASE Spawn(n, e, "update") /\ currentlyProcessing' = currentlyProcessing
    <3>1. \A s \in {"find", "handle", "mark", "delete"} : goroutines'[k][f][s] = goroutines[k][f][s]
      <4>1. "update" \in Steps /\ {"find", "handle", "mark", "delete"} \subseteq Steps \ {"update"}
        BY DEF Steps
      <4>2. CASE k = n /\ f = e
        BY <2>3, <4>1, <4>2, Begins
      <4>3. CASE k # n \/ f # e
        BY <2>3, <4>1, <4>3, Begins
      <4>4. QED
        BY <4>2, <4>3
    <3>2. QED
      BY <1>1, <2>3, <3>1
  <2>4. CASE /\ Spawn(n, e, "find")
             /\ currentlyProcessing' = [currentlyProcessing EXCEPT ![n] = @ \cup {e}]
    <3>1. "find" \in Steps
      BY DEF Steps
    <3>2. CASE k = n /\ f = e
      <4>1. goroutines'[n][e]["find"] = goroutines[n][e]["find"] + 1
        BY <2>4, <3>1, Begins
      <4>2. goroutines[n][e]["find"] \in Nat
        BY <3>1 DEF TypeOK
      <4>3. QED
        BY <3>2, <4>1, <4>2
    <3>3. CASE k # n \/ f # e
      <4>1. goroutines'[k][f] = goroutines[k][f]
        BY <2>4, <3>1, <3>3, Begins
      <4>2. f \in currentlyProcessing[k]
        BY <2>1, <2>4, <3>3
      <4>3. QED
        BY <1>2, <4>1, <4>2
    <3>4. QED
      BY <3>2, <3>3
  <2>5. QED
    BY <1>3, <2>2, <2>3, <2>4 DEF CheckPair
<1>4. ASSUME NEW n \in Nodes, NEW e \in Events, ProcessItem(n, e) \/ MarkDoneID(n, e)
      PROVE  \E s \in {"find", "handle", "mark", "delete"} : goroutines'[k][f][s] > 0
  <2>1. currentlyProcessing' = currentlyProcessing
    BY <1>4 DEF ProcessItem, FindPending, FindNothing, FindFails, HandlerReturns, HandlerPanics, Mark,
                MarkDoneID, MarkProcessed, MarkProcessedFails, RemovePair
  <2>2. Steps = {"find", "handle", "mark", "update", "zrem", "delete"}
    BY DEF Steps
  <2>3. PICK s \in Steps, t \in Steps :
          s # t /\ Goes(n, e, s, t) /\ (t \in {"handle", "mark", "delete"} \/ (s = "update" /\ t = "zrem"))
    BY <1>4, <2>2 DEF ProcessItem, FindPending, FindNothing, FindFails, HandlerReturns, HandlerPanics,
                Mark, MarkDoneID, MarkProcessed, MarkProcessedFails, RemovePair
  <2>4. CASE k # n \/ f # e
    <3>1. goroutines'[k][f] = goroutines[k][f]
      BY <2>3, <2>4, Moves
    <3>2. QED
      BY <1>2, <2>1, <3>1
  <2>5. CASE k = n /\ f = e /\ t \in {"handle", "mark", "delete"}
    <3>1. goroutines'[n][e][t] = goroutines[n][e][t] + 1
      BY <2>3, Moves
    <3>2. goroutines[n][e][t] \in Nat
      BY <2>3 DEF TypeOK
    <3>3. QED
      BY <2>5, <3>1, <3>2
  <2>6. CASE k = n /\ f = e /\ s = "update" /\ t = "zrem"
    <3>1. {"find", "handle", "mark", "delete"} \subseteq Steps \ {s, t}
      BY <2>2, <2>6
    <3>2. \A r \in Steps \ {s, t} : goroutines'[k][f][r] = goroutines[k][f][r]
      BY <2>3, <2>6, Moves
    <3>3. QED
      BY <1>1, <2>1, <3>1, <3>2
  <2>7. QED
    BY <2>3, <2>4, <2>5, <2>6
<1>5. ASSUME NEW n \in Nodes, NEW e \in Events, Finish(n, e)
      PROVE  \E s \in {"find", "handle", "mark", "delete"} : goroutines'[k][f][s] > 0
  <2>1. /\ At(n, e, "delete") /\ goroutines' = [goroutines EXCEPT ![n][e]["delete"] = @ - 1]
        /\ currentlyProcessing' = [currentlyProcessing EXCEPT ![n] = @ \ {e}]
    BY <1>5 DEF Finish
  <2>2. f \in currentlyProcessing[k] /\ (k # n \/ f # e)
    BY <2>1 DEF TypeOK
  <2>3. "delete" \in Steps
    BY DEF Steps
  <2>4. goroutines'[k][f] = goroutines[k][f]
    BY <2>1, <2>2, <2>3, Ends
  <2>5. QED
    BY <1>2, <2>2, <2>4
<1>6. ASSUME NEW n \in Nodes, Crash(n)
      PROVE  \E s \in {"find", "handle", "mark", "delete"} : goroutines'[k][f][s] > 0
  <2>1. k # n /\ currentlyProcessing'[k] = currentlyProcessing[k] /\ goroutines'[k] = goroutines[k]
    BY <1>6 DEF Crash, TypeOK
  <2>2. QED
    BY <1>2, <2>1
<1>7. UNCHANGED <<goroutines, currentlyProcessing>>
        => \E s \in {"find", "handle", "mark", "delete"} : goroutines'[k][f][s] > 0
  BY <1>2
<1>8. \/ UNCHANGED <<goroutines, currentlyProcessing>>
      \/ \E n \in Nodes, e \in Events : CheckPair(n, e) \/ ProcessItem(n, e) \/ MarkDoneID(n, e) \/ Finish(n, e)
      \/ \E n \in Nodes : Crash(n)
  BY DEF Next, Insert, FlushInserted, Cancel, ComesDue, CheckStep, BeginCheck, EndCheck, ShardReady,
         ShardRemoved, FlushStep, FlushRead, FlushCheck, FlushAdd, CleanupStep, CleanupRead, CleanupRows,
         CleanupSet, CleanupProcessed, LeaveGuild, JoinGuild, vars, nodeVars
<1>9. QED
  BY <1>3, <1>4, <1>5, <1>6, <1>7, <1>8

\* A row is gone, or processed, before its pair is removed or its mark forgotten; and it never
\* comes back.
LEMMA RowsStep ==
  ASSUME TypeOK, TypeOK', EventsInv, EventsInv', AccountInv, [Next]_vars
  PROVE  RowsFirst'
<1>1. \A e \in Events : e \in Scheduled /\ row[e] # "pending" => row'[e] # "pending"
  <2> SUFFICES ASSUME NEW e \in Events, e \in Scheduled, row[e] # "pending", row'[e] = "pending" PROVE FALSE
    OBVIOUS
  <2>1. \E f \in Events : Insert(f)
    <3>1. row' # row
      OBVIOUS
    <3>2. /\ \A n \in Nodes, f \in Events : ~ProcessItem(n, f) /\ ~Finish(n, f)
          /\ \A n \in Nodes : ~CheckStep(n) /\ ~ShardReady(n) /\ ~ShardRemoved(n) /\ ~Crash(n)
      BY <3>1 DEF ProcessItem, FindPending, FindNothing, FindFails, HandlerReturns, HandlerPanics, Mark,
                  Finish, CheckStep, BeginCheck, EndCheck, CheckPair, ShardReady, ShardRemoved, Crash,
                  storeVars
    <3>3. /\ \A n \in Nodes, f \in Events : ~MarkDoneID(n, f)
          /\ ~CleanupStep
      BY <3>1 DEF MarkDoneID, MarkProcessed, MarkProcessedFails, RemovePair, CleanupStep, CleanupRead,
                  CleanupRows, CleanupSet, CleanupProcessed, storeVars, TypeOK
    <3>4. /\ \A f \in Events : ~FlushInserted(f) /\ ~Cancel(f) /\ ~ComesDue(f)
          /\ ~FlushStep /\ ~LeaveGuild /\ ~JoinGuild /\ ~UNCHANGED vars
      BY <3>1 DEF FlushInserted, Cancel, ComesDue, FlushStep, FlushRead, FlushCheck, FlushAdd, LeaveGuild,
                  JoinGuild, storeVars, vars, TypeOK
    <3>5. QED
      BY <3>2, <3>3, <3>4, Zenon DEF Next
  <2>2. QED
    BY <2>1 DEF Insert, Scheduled, TypeOK
<1>2. \A e \in Events : e \in Scheduled => e \in Scheduled'
  BY InterruptsGrow
<1>3. \/ UNCHANGED <<recentlyDone, doomed, cleaning>>
      \/ \E n \in Nodes, e \in Events : Mark(n, e)
      \/ CleanupRead \/ CleanupRows \/ CleanupSet
  BY DEF Next, Insert, FlushInserted, Cancel, ComesDue, CheckStep, BeginCheck, EndCheck, CheckPair,
         ShardReady, ShardRemoved, Crash, ProcessItem, FindPending, FindNothing, FindFails,
         HandlerReturns, HandlerPanics, MarkDoneID, MarkProcessed, MarkProcessedFails, RemovePair, Finish,
         FlushStep, FlushRead, FlushCheck, FlushAdd, CleanupStep, CleanupProcessed, LeaveGuild, JoinGuild,
         vars, storeVars, workerVars
<1>4. /\ recentlyDone' \cup doomed' \subseteq Scheduled'
      /\ cleaning' = "set" => \A e \in doomed' : row'[e] # "pending"
  <2>1. CASE UNCHANGED <<recentlyDone, doomed, cleaning>>
    BY <1>1, <1>2, <2>1 DEF AccountInv, RowsFirst, TypeOK
  <2>2. ASSUME NEW n \in Nodes, NEW e \in Events, Mark(n, e)
        PROVE  /\ recentlyDone' \cup doomed' \subseteq Scheduled'
               /\ cleaning' = "set" => \A f \in doomed' : row'[f] # "pending"
    <3>1. e \in Scheduled
      BY <2>2 DEF Mark, Goes, EventsInv, OnlyScheduled, Steps
    <3>2. recentlyDone' = recentlyDone \cup {e} /\ UNCHANGED <<doomed, cleaning>>
      BY <2>2 DEF Mark, workerVars
    <3>3. QED
      BY <1>1, <1>2, <3>1, <3>2 DEF AccountInv, RowsFirst, TypeOK
  <2>3. CASE CleanupRead \/ CleanupSet
    BY <1>2, <2>3 DEF CleanupRead, CleanupSet, storeVars, AccountInv, RowsFirst, TypeOK
  <2>4. CASE CleanupRows
    BY <1>2, <2>4 DEF CleanupRows, AccountInv, RowsFirst, TypeOK
  <2>5. QED
    BY <1>3, <2>1, <2>2, <2>3, <2>4
<1>5. ASSUME NEW m \in Nodes, NEW f \in Events, goroutines'[m][f]["zrem"] > 0
      PROVE  row'[f] # "pending"
  <2>1. At(m, f, "zrem") => row'[f] # "pending"
    BY <1>1 DEF AccountInv, RowsFirst, EventsInv, OnlyScheduled, Steps
  <2>2. Steps = {"find", "handle", "mark", "update", "zrem", "delete"}
    BY DEF Steps
  <2>3. \/ UNCHANGED goroutines
        \/ \E n \in Nodes, e \in Events : CheckPair(n, e) \/ ProcessItem(n, e) \/ MarkDoneID(n, e) \/ Finish(n, e)
        \/ \E n \in Nodes : Crash(n)
    BY DEF Next, Insert, FlushInserted, Cancel, ComesDue, CheckStep, BeginCheck, EndCheck, ShardReady,
           ShardRemoved, FlushStep, FlushRead, FlushCheck, FlushAdd, CleanupStep, CleanupRead, CleanupRows,
           CleanupSet, CleanupProcessed, LeaveGuild, JoinGuild, vars, nodeVars
  <2>4. ASSUME NEW n \in Nodes, NEW e \in Events, CheckPair(n, e) PROVE row'[f] # "pending"
    <3>1. CASE Spawn(n, e, "find")
      <4>1. At(m, f, "zrem")
        BY <1>5, <2>2, <3>1, Begins
      <4>2. QED
        BY <2>1, <4>1
    <3>2. CASE Spawn(n, e, "update")
      <4>1. At(m, f, "zrem")
        BY <1>5, <2>2, <3>2, Begins
      <4>2. QED
        BY <2>1, <4>1
    <3>3. CASE goroutines' = goroutines
      BY <1>5, <2>1, <3>3 DEF At
    <3>4. QED
      BY <2>4, <3>1, <3>2, <3>3 DEF CheckPair
  <2>5. ASSUME NEW n \in Nodes, NEW e \in Events, ProcessItem(n, e) \/ MarkDoneID(n, e)
        PROVE  row'[f] # "pending"
    <3>1. CASE MarkProcessed(n, e) /\ f = e
      BY <3>1 DEF MarkProcessed, TypeOK
    <3>2. CASE ~(MarkProcessed(n, e) /\ f = e)
      <4>1. PICK s \in Steps, t \in Steps : s # t /\ Goes(n, e, s, t) /\ (t # "zrem" \/ f # e)
        BY <2>2, <2>5, <3>2 DEF ProcessItem, FindPending, FindNothing, FindFails, HandlerReturns,
                    HandlerPanics, Mark, MarkDoneID, MarkProcessed, MarkProcessedFails, RemovePair
      <4>2. At(m, f, "zrem")
        BY <1>5, <2>2, <4>1, Moves
      <4>3. QED
        BY <2>1, <4>2
    <3>3. QED
      BY <3>1, <3>2
  <2>6. ASSUME NEW n \in Nodes, NEW e \in Events, Finish(n, e) PROVE row'[f] # "pending"
    <3>1. At(m, f, "zrem")
      BY <1>5, <2>2, <2>6, Ends DEF Finish
    <3>2. QED
      BY <2>1, <3>1
  <2>7. ASSUME NEW n \in Nodes, Crash(n) PROVE row'[f] # "pending"
    <3>1. m # n /\ goroutines'[m] = goroutines[m]
      BY <1>5, <2>7 DEF Crash, NoGoroutines, TypeOK, Steps
    <3>2. QED
      BY <1>5, <2>1, <3>1 DEF At
  <2>8. QED
    BY <1>5, <2>1, <2>3, <2>4, <2>5, <2>6, <2>7 DEF At
<1>6. QED
  BY <1>4, <1>5 DEF RowsFirst, At

LEMMA AccountInit == Init => AccountInv
<1> SUFFICES ASSUME Init PROVE AccountInv
  OBVIOUS
<1>1. \A n \in Nodes, e \in Events, s \in Steps : ~At(n, e, s)
  BY DEF Init, At, NoGoroutines
<1>2. ASSUME NEW e \in Events PROVE Paid(e)
  BY DEF Init, Paid
<1>3. EntriesOwned /\ RowsFirst
  BY <1>1 DEF Init, EntriesOwned, RowsFirst, Steps
<1>4. QED
  BY <1>2, <1>3 DEF AccountInv

\* Every event's account stays paid, whatever crashes, fails, panics or moves.
LEMMA AccountInvariant == Spec => []AccountInv
<1>1. TypeOK /\ TypeOK' /\ EventsInv /\ EventsInv' /\ AccountInv /\ [Next]_vars => AccountInv'
  BY EveryonePaid, EntriesStep, RowsStep DEF AccountInv
<1>2. QED
  BY <1>1, AccountInit, TypeTheorem, EventsInvariant, PTL DEF Spec

\* The handler of an event is begun once, and once more at most for each time that a goroutine,
\* its process or its shard was lost before the event was marked: for any number of processes,
\* and although a finished markDoneID deletes the entry of a handler that still runs.
THEOREM OnceTheorem == Spec => []OnceUnlessInterrupted
<1>1. AccountInv => OnceUnlessInterrupted
  BY DEF AccountInv, Paid, OnceUnlessInterrupted
<1>2. QED
  BY <1>1, AccountInvariant, PTL
=============================================================================
