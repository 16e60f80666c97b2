---------------------------- MODULE ScheduledEvents ----------------------------
(***************************************************************************)
(* common/scheduledevents2: what a plugin asks to be done later.  Postgres *)
(* holds a row for each event until it was handled; the events due soon    *)
(* are copied to a sorted set in Redis, which every bot process polls.  A  *)
(* background worker copies and cleans up beside them.  The events here    *)
(* belong to one guild, whose shard moves between the processes; no two    *)
(* serve it at once (ShardMigration).                                      *)
(***************************************************************************)
EXTENDS Integers, FiniteSets

CONSTANTS Events,
          Nodes,
          Unhandled,      \* events whose handler is unknown, or whose data it cannot decode
          MaxPanics,      \* bound: handlers that panic
          MaxRemoving,    \* bound: goroutines that wait to finish, for each event and process
          MaxReady,       \* bound: times the shard becomes ready
          MaxLeaves,      \* bound: times the bot leaves the guild
          MaxFailures     \* bound: queries that Postgres fails

ASSUME ScheduledEventsAssumption == /\ IsFiniteSet(Events) /\ Unhandled \subseteq Events
                                    /\ {MaxPanics, MaxRemoving, MaxReady, MaxLeaves, MaxFailures} \subseteq Nat

VARIABLES
  \* Postgres and Redis
  row,         \* "none", "pending", or "processed"
  soon,        \* sorted set "scheduled_events_soon"
  recentlyDone,  \* set "recently_done_scheduled_events"
  \* the world
  stage,       \* how far ScheduleEvent is with an event
  due,         \* events whose time has come; any other one may be near enough to be flushed
  here,        \* the bot is on the guild
  serving,     \* processes the guild's shard is ready on and the guild available to
  readied, leaves, failures, panics,
  \* bot processes
  pairs,       \* what check() has read and not looked at yet
  checking,    \* processes in check(), which hold currentlyProcessingMU
  currentlyProcessing,
  goroutines,  \* how many of processItem and markDoneID are at a step, by event
  \* background worker
  batch, adding,      \* runFlushNewEvents: rows read, and the one found not to be done
  cleaning, doomed,   \* cleanupRecent: what is next, and the IDs it has read
  \* history
  cancelled, forsaken, handled, begun, interrupts

storeVars == <<row, soon, recentlyDone>>
worldVars == <<here, serving, readied, leaves, failures, panics>>
nodeVars == <<pairs, checking, currentlyProcessing, goroutines>>
workerVars == <<batch, adding, cleaning, doomed>>
historyVars == <<cancelled, forsaken, handled, begun, interrupts>>
vars == <<storeVars, stage, due, worldVars, nodeVars, workerVars, historyVars>>

\* processItem finds the row, runs the handler, marks the event done and deletes it from
\* currentlyProcessing; markDoneID updates the row, deletes the pair, and does the same.
Steps == {"find", "handle", "mark", "update", "zrem", "delete"}

TypeOK ==
  /\ row \in [Events -> {"none", "pending", "processed"}]
  /\ soon \subseteq Events /\ recentlyDone \subseteq Events
  /\ stage \in [Events -> {"new", "inserted", "scheduled"}]
  /\ due \subseteq Events
  /\ here \in BOOLEAN
  /\ serving \subseteq Nodes /\ \A n, m \in serving : n = m
  /\ readied \in 0 .. MaxReady /\ leaves \in 0 .. MaxLeaves /\ failures \in 0 .. MaxFailures
  /\ panics \in 0 .. MaxPanics
  /\ pairs \in [Nodes -> SUBSET Events]
  /\ checking \subseteq Nodes
  /\ currentlyProcessing \in [Nodes -> SUBSET Events]
  /\ goroutines \in [Nodes -> [Events -> [Steps -> Nat]]]
  /\ batch \subseteq Events /\ adding \subseteq Events
  /\ cleaning \in {"idle", "rows", "set"} /\ doomed \subseteq Events
  /\ cancelled \subseteq Events /\ forsaken \subseteq Events /\ handled \subseteq Events
  /\ begun \in [Events -> Nat]
  /\ interrupts \in [Events -> Nat]

NoGoroutines == [e \in Events |-> [s \in Steps |-> 0]]

Init ==
  /\ row = [e \in Events |-> "none"] /\ soon = {} /\ recentlyDone = {}
  /\ stage = [e \in Events |-> "new"]
  /\ due \in SUBSET Events
  /\ here = TRUE /\ serving = {} /\ readied = 0 /\ leaves = 0 /\ failures = 0 /\ panics = 0
  /\ pairs = [n \in Nodes |-> {}] /\ checking = {}
  /\ currentlyProcessing = [n \in Nodes |-> {}]
  /\ goroutines = [n \in Nodes |-> NoGoroutines]
  /\ batch = {} /\ adding = {} /\ cleaning = "idle" /\ doomed = {}
  /\ cancelled = {} /\ forsaken = {} /\ handled = {}
  /\ begun = [e \in Events |-> 0] /\ interrupts = [e \in Events |-> 0]

-----------------------------------------------------------------------------
(* Plugins.                                                                *)

\* ScheduleEvent inserts the row, and then flushes an event of the next hour itself.
Insert(e) ==
  /\ stage[e] = "new"
  /\ stage' = [stage EXCEPT ![e] = "inserted"]
  /\ row' = [row EXCEPT ![e] = "pending"]
  /\ UNCHANGED <<soon, recentlyDone, due, worldVars, nodeVars, workerVars, historyVars>>

FlushInserted(e) ==
  /\ stage[e] = "inserted"
  /\ stage' = [stage EXCEPT ![e] = "scheduled"]
  /\ soon' = soon \cup {e}
  /\ UNCHANGED <<row, recentlyDone, due, worldVars, nodeVars, workerVars, historyVars>>

\* Plugins cancel an event by deleting its row, and leave its pair in Redis.
Cancel(e) ==
  /\ row[e] = "pending"
  /\ row' = [row EXCEPT ![e] = "none"]
  /\ cancelled' = cancelled \cup {e}
  /\ UNCHANGED <<soon, recentlyDone, stage, due, worldVars, nodeVars, workerVars,
                 forsaken, handled, begun, interrupts>>

-----------------------------------------------------------------------------
(* check: the mutex is held from its first line to its last.               *)

BeginCheck(n) ==
  /\ n \notin checking
  /\ checking' = checking \cup {n}
  /\ pairs' = [pairs EXCEPT ![n] = soon \cap due]
  /\ UNCHANGED <<storeVars, stage, due, worldVars, currentlyProcessing, goroutines, workerVars,
                 historyVars>>

Spawn(n, e, s) == goroutines' = [goroutines EXCEPT ![n][e][s] = @ + 1]
Finishing(n, e) == goroutines[n][e]["update"] + goroutines[n][e]["zrem"] + goroutines[n][e]["delete"]

\* Mutant: an event that is being handled is not skipped.
SkipUnready(n, e) == n \notin serving

\* The guild is not ready or not available, or the event is being handled.
Skip(n, e) == n \notin serving \/ (here /\ e \in currentlyProcessing[n])

\* A pair that check() has read: skipped, removed as the bot is not on the guild, deleted
\* from Redis as one that was handled lately, or handed to a goroutine.
CheckPair(n, e) ==
  /\ n \in checking /\ e \in pairs[n]
  /\ pairs' = [pairs EXCEPT ![n] = @ \ {e}]
  /\ \/ /\ Skip(n, e) \/ (~here /\ Finishing(n, e) >= MaxRemoving)
        /\ UNCHANGED <<soon, currentlyProcessing, goroutines, forsaken>>
     \/ /\ ~Skip(n, e) /\ ~here /\ Finishing(n, e) < MaxRemoving
        /\ Spawn(n, e, "update")
        /\ forsaken' = forsaken \cup {e}
        /\ UNCHANGED <<soon, currentlyProcessing>>
     \/ /\ ~Skip(n, e) /\ here /\ e \in recentlyDone
        /\ soon' = soon \ {e}
        /\ UNCHANGED <<currentlyProcessing, goroutines, forsaken>>
     \/ /\ ~Skip(n, e) /\ here /\ e \notin recentlyDone
        /\ currentlyProcessing' = [currentlyProcessing EXCEPT ![n] = @ \cup {e}]
        /\ Spawn(n, e, "find")
        /\ UNCHANGED <<soon, forsaken>>
  /\ UNCHANGED <<row, recentlyDone, stage, due, worldVars, checking, workerVars, cancelled,
                 handled, begun, interrupts>>

EndCheck(n) ==
  /\ n \in checking /\ pairs[n] = {}
  /\ checking' = checking \ {n}
  /\ UNCHANGED <<storeVars, stage, due, worldVars, pairs, currentlyProcessing, goroutines,
                 workerVars, historyVars>>

-----------------------------------------------------------------------------
(* processItem and markDoneID, each a goroutine.                           *)

At(n, e, s) == goroutines[n][e][s] > 0
Goes(n, e, s, t) == At(n, e, s) /\ goroutines' = [goroutines EXCEPT ![n][e][s] = @ - 1, ![n][e][t] = @ + 1]

\* The goroutine ends without having marked its event as done.
Interrupted(e) == interrupts' = [interrupts EXCEPT ![e] = @ + 1]

\* The row is there and not processed: its handler is called.
FindPending(n, e) ==
  /\ Goes(n, e, "find", "handle")
  /\ row[e] = "pending" /\ e \notin Unhandled
  /\ begun' = [begun EXCEPT ![e] = @ + 1]
  /\ UNCHANGED <<storeVars, stage, due, worldVars, pairs, checking, currentlyProcessing,
                 workerVars, cancelled, forsaken, handled, interrupts>>

\* Nothing to call: the row is gone or processed, or nobody can handle it.
FindNothing(n, e) ==
  /\ Goes(n, e, "find", "mark")
  /\ row[e] # "pending" \/ e \in Unhandled
  /\ handled' = IF row[e] = "pending" THEN handled \cup {e} ELSE handled
  /\ UNCHANGED <<storeVars, stage, due, worldVars, pairs, checking, currentlyProcessing,
                 workerVars, cancelled, forsaken, begun, interrupts>>

\* Mutant: any error is taken for a row that is gone.
FindFailsMarked(n, e) ==
  /\ Goes(n, e, "find", "mark")
  /\ failures < MaxFailures /\ failures' = failures + 1
  /\ Interrupted(e)
  /\ UNCHANGED <<storeVars, stage, due, here, serving, readied, leaves, panics, pairs, checking,
                 currentlyProcessing, workerVars, cancelled, forsaken, handled, begun>>

FindFails(n, e) ==
  /\ Goes(n, e, "find", "delete")
  /\ failures < MaxFailures /\ failures' = failures + 1
  /\ Interrupted(e)
  /\ UNCHANGED <<storeVars, stage, due, here, serving, readied, leaves, panics, pairs, checking,
                 currentlyProcessing, workerVars, cancelled, forsaken, handled, begun>>

\* The handler returns, for the tenth time if it asks to be called again.
HandlerReturns(n, e) ==
  /\ Goes(n, e, "handle", "mark")
  /\ handled' = handled \cup {e}
  /\ UNCHANGED <<storeVars, stage, due, worldVars, pairs, checking, currentlyProcessing,
                 workerVars, cancelled, forsaken, begun, interrupts>>

\* Mutant: the deferred deletion is not reached.
HandlerPanicsDead(n, e) ==
  /\ At(n, e, "handle") /\ panics < MaxPanics
  /\ goroutines' = [goroutines EXCEPT ![n][e]["handle"] = @ - 1]
  /\ panics' = panics + 1
  /\ Interrupted(e)
  /\ UNCHANGED <<storeVars, stage, due, here, serving, readied, leaves, failures, pairs, checking,
                 currentlyProcessing, workerVars, cancelled, forsaken, handled, begun>>

\* Mutant: the deferred function marks the event.
HandlerPanicsMarked(n, e) ==
  /\ Goes(n, e, "handle", "mark")
  /\ panics < MaxPanics /\ panics' = panics + 1
  /\ Interrupted(e)
  /\ UNCHANGED <<storeVars, stage, due, here, serving, readied, leaves, failures, pairs, checking,
                 currentlyProcessing, workerVars, cancelled, forsaken, handled, begun>>

\* The panic is recovered, and nothing marks the event.
HandlerPanics(n, e) ==
  /\ Goes(n, e, "handle", "delete")
  /\ panics < MaxPanics /\ panics' = panics + 1
  /\ Interrupted(e)
  /\ UNCHANGED <<storeVars, stage, due, here, serving, readied, leaves, failures, pairs, checking,
                 currentlyProcessing, workerVars, cancelled, forsaken, handled, begun>>

\* markDoneFast
Mark(n, e) ==
  /\ Goes(n, e, "mark", "delete")
  /\ recentlyDone' = recentlyDone \cup {e}
  /\ UNCHANGED <<row, soon, stage, due, worldVars, pairs, checking, currentlyProcessing,
                 workerVars, historyVars>>

\* Mutant: only the pair is deleted.
MarkProcessedNot(n, e) ==
  /\ Goes(n, e, "update", "zrem")
  /\ UNCHANGED <<storeVars, stage, due, worldVars, pairs, checking, currentlyProcessing,
                 workerVars, historyVars>>

MarkProcessed(n, e) ==
  /\ Goes(n, e, "update", "zrem")
  /\ row' = [row EXCEPT ![e] = IF @ = "none" THEN @ ELSE "processed"]
  /\ UNCHANGED <<soon, recentlyDone, stage, due, worldVars, pairs, checking, currentlyProcessing,
                 workerVars, historyVars>>

MarkProcessedFails(n, e) ==
  /\ Goes(n, e, "update", "delete")
  /\ failures < MaxFailures /\ failures' = failures + 1
  /\ Interrupted(e)
  /\ UNCHANGED <<storeVars, stage, due, here, serving, readied, leaves, panics, pairs, checking,
                 currentlyProcessing, workerVars, cancelled, forsaken, handled, begun>>

\* markDoneRedis
RemovePair(n, e) ==
  /\ Goes(n, e, "zrem", "delete")
  /\ soon' = soon \ {e}
  /\ UNCHANGED <<row, recentlyDone, stage, due, worldVars, pairs, checking, currentlyProcessing,
                 workerVars, historyVars>>

\* Mutant: it runs although it was not scheduled.
FinishEarly(n, e) ==
  /\ n \notin checking
  /\ goroutines' = [goroutines EXCEPT ![n][e]["delete"] = @ - 1]
  /\ currentlyProcessing' = [currentlyProcessing EXCEPT ![n] = @ \ {e}]
  /\ UNCHANGED <<storeVars, stage, due, worldVars, pairs, checking, workerVars, historyVars>>

\* The deferred deletion waits for the mutex that check() holds.
Finish(n, e) ==
  /\ At(n, e, "delete") /\ n \notin checking
  /\ goroutines' = [goroutines EXCEPT ![n][e]["delete"] = @ - 1]
  /\ currentlyProcessing' = [currentlyProcessing EXCEPT ![n] = @ \ {e}]
  /\ UNCHANGED <<storeVars, stage, due, worldVars, pairs, checking, workerVars, historyVars>>

-----------------------------------------------------------------------------
(* The background worker: one goroutine flushes, another one cleans up.    *)

\* runFlushNewEvents reads the rows of the next minutes.
FlushRead ==
  /\ batch = {} /\ adding = {}
  /\ batch' = {e \in Events : row[e] = "pending"}
  /\ UNCHANGED <<storeVars, stage, due, worldVars, nodeVars, adding, cleaning, doomed, historyVars>>

\* One of them is flushed, unless it was handled lately.
FlushCheck(e) ==
  /\ e \in batch /\ adding = {}
  /\ batch' = batch \ {e}
  /\ adding' = {e} \ recentlyDone
  /\ UNCHANGED <<storeVars, stage, due, worldVars, nodeVars, cleaning, doomed, historyVars>>

FlushAdd(e) ==
  /\ e \in adding
  /\ soon' = soon \cup {e}
  /\ adding' = {}
  /\ UNCHANGED <<row, recentlyDone, stage, due, worldVars, nodeVars, batch, cleaning, doomed,
                 historyVars>>

\* cleanupRecent reads the events handled lately, deletes their rows and then forgets them.
CleanupRead ==
  /\ cleaning = "idle" /\ recentlyDone # {}
  /\ cleaning' = "rows" /\ doomed' = recentlyDone
  /\ UNCHANGED <<storeVars, stage, due, worldVars, nodeVars, batch, adding, historyVars>>

CleanupRows ==
  /\ cleaning = "rows"
  /\ cleaning' = "set"
  /\ row' = [e \in Events |-> IF e \in doomed THEN "none" ELSE row[e]]
  /\ UNCHANGED <<soon, recentlyDone, stage, due, worldVars, nodeVars, batch, adding, doomed,
                 historyVars>>

CleanupSet ==
  /\ cleaning = "set"
  /\ cleaning' = "idle" /\ doomed' = {}
  /\ recentlyDone' = recentlyDone \ doomed
  /\ UNCHANGED <<row, soon, stage, due, worldVars, nodeVars, batch, adding, historyVars>>

\* runCleanup
CleanupProcessed ==
  /\ cleaning = "idle" /\ \E e \in Events : row[e] = "processed"
  /\ row' = [e \in Events |-> IF row[e] = "processed" THEN "none" ELSE row[e]]
  /\ UNCHANGED <<soon, recentlyDone, stage, due, worldVars, nodeVars, workerVars, historyVars>>

-----------------------------------------------------------------------------
(* The world.                                                              *)

ComesDue(e) ==
  /\ e \notin due
  /\ due' = due \cup {e}
  /\ UNCHANGED <<storeVars, stage, worldVars, nodeVars, workerVars, historyVars>>

ShardReady(n) ==
  /\ serving = {} /\ readied < MaxReady
  /\ serving' = {n} /\ readied' = readied + 1
  /\ UNCHANGED <<storeVars, stage, due, here, leaves, failures, panics, nodeVars, workerVars,
                 historyVars>>

Unmarked(n, e) == \E s \in {"find", "handle", "mark"} : At(n, e, s)
InterruptAll(n) ==
  interrupts' = [e \in Events |-> interrupts[e] + IF Unmarked(n, e) THEN 1 ELSE 0]

\* The shard moves away; its process goes on with what it handles.
ShardRemoved(n) ==
  /\ n \in serving
  /\ serving' = {}
  /\ InterruptAll(n)
  /\ UNCHANGED <<storeVars, stage, due, here, readied, leaves, failures, panics, nodeVars,
                 workerVars, cancelled, forsaken, handled, begun>>

\* The process ends, and another one takes its place.
Crash(n) ==
  /\ serving' = serving \ {n}
  /\ InterruptAll(n)
  /\ pairs' = [pairs EXCEPT ![n] = {}]
  /\ checking' = checking \ {n}
  /\ currentlyProcessing' = [currentlyProcessing EXCEPT ![n] = {}]
  /\ goroutines' = [goroutines EXCEPT ![n] = NoGoroutines]
  /\ UNCHANGED <<storeVars, stage, due, here, readied, leaves, failures, panics, workerVars,
                 cancelled, forsaken, handled, begun>>

LeaveGuild == /\ here /\ leaves < MaxLeaves
              /\ here' = FALSE /\ leaves' = leaves + 1
              /\ UNCHANGED <<storeVars, stage, due, serving, readied, failures, panics, nodeVars,
                             workerVars, historyVars>>
JoinGuild == /\ ~here
             /\ here' = TRUE
             /\ UNCHANGED <<storeVars, stage, due, serving, readied, leaves, failures, panics,
                            nodeVars, workerVars, historyVars>>

CheckStep(n) == BeginCheck(n) \/ EndCheck(n) \/ \E e \in Events : CheckPair(n, e)
ProcessItem(n, e) == FindPending(n, e) \/ FindNothing(n, e) \/ FindFails(n, e)
                     \/ HandlerReturns(n, e) \/ HandlerPanics(n, e) \/ Mark(n, e)
MarkDoneID(n, e) == MarkProcessed(n, e) \/ MarkProcessedFails(n, e) \/ RemovePair(n, e)
FlushStep == FlushRead \/ \E e \in Events : FlushCheck(e) \/ FlushAdd(e)
CleanupStep == CleanupRead \/ CleanupRows \/ CleanupSet \/ CleanupProcessed

Next == \/ \E e \in Events : Insert(e) \/ FlushInserted(e) \/ Cancel(e) \/ ComesDue(e)
        \/ \E n \in Nodes : \/ CheckStep(n) \/ ShardReady(n) \/ ShardRemoved(n) \/ Crash(n)
                            \/ \E e \in Events : ProcessItem(n, e) \/ MarkDoneID(n, e) \/ Finish(n, e)
        \/ FlushStep \/ CleanupStep \/ LeaveGuild \/ JoinGuild
Spec == Init /\ [][Next]_vars

-----------------------------------------------------------------------------
\* The handler of an event is begun once, and once more at most for each time that a
\* goroutine, its process or its shard was lost before the event was marked as done:
\* neither stale pairs, nor the cleanup that forgets who was handled, repeat it.
OnceUnlessInterrupted == \A e \in Events : begun[e] <= 1 + interrupts[e]

\* Nothing is left to do for e: its handler came to an end, or the event was given up.
Over(e) == e \in handled \cup cancelled \cup forsaken

\* An event whose handler has not come to an end keeps its row, unless it was cancelled
\* or the bot was found to have left the guild.
NotForgotten == \A e \in Events : stage[e] # "new" /\ ~Over(e) => row[e] = "pending"

\* What is known to be handled, by a mark or by a processed row, is not a guess: nobody marks
\* an event that is still wanted.
MarksTrue == \A e \in recentlyDone : Over(e)

\* What both rest on.  Whatever is copied, read or worked on was scheduled before, and
\* whoever is about to mark an event, to delete its row or to forget its mark knows that it
\* is over.
Scheduled == {e \in Events : stage[e] # "new"}
OnlyScheduled ==
  /\ soon \cup batch \cup adding \subseteq Scheduled
  /\ \A e \in Events : row[e] # "none" => e \in Scheduled
  /\ \A n \in Nodes : pairs[n] \subseteq Scheduled
  /\ \A n \in Nodes, e \in Events, s \in Steps : At(n, e, s) => e \in Scheduled
MarkersKnow ==
  /\ \A n \in Nodes, e \in Events :
       (At(n, e, "mark") => Over(e)) /\ (At(n, e, "update") => e \in forsaken)
  /\ \A e \in doomed : Over(e)
EventsInv == NotForgotten /\ MarksTrue /\ OnlyScheduled /\ MarkersKnow

-----------------------------------------------------------------------------
(* Why a handler is not begun again without an interruption: an account of *)
(* every event.  Each interruption pays for one more call of the handler,  *)
(* and whatever may still call it is a claim on what was paid.             *)

\* Goroutines of n that will delete e from currentlyProcessing, but for the one that its
\* entry waits for: after each of them check() hands e out once more.
Deletions(n, e) == goroutines[n][e]["delete"]
Surplus(n, e) ==
  IF e \in currentlyProcessing[n] /\ Deletions(n, e) > 0 THEN Deletions(n, e) - 1 ELSE Deletions(n, e)

\* What process n may call the handler for; a mark keeps check() from handing e out.
Claims(n, e) == goroutines[n][e]["find"] + (IF e \in recentlyDone THEN 0 ELSE Surplus(n, e))
ClaimSet(e) == UNION {{n} \X (1 .. Claims(n, e)) : n \in Nodes}

\* One more claim is the next check()'s, unless the process that serves the guild has e in
\* hand, and nothing is about to delete its entry.
InHand(e) == \E n \in serving : e \in currentlyProcessing[n] /\ Deletions(n, e) = 0
NextClaim(e) == IF e \in recentlyDone \/ InHand(e) THEN 0 ELSE 1

Paid(e) ==
  /\ begun[e] <= 1 + interrupts[e]
  /\ begun[e] > 0 => e \in Scheduled
  /\ row[e] = "pending" => /\ IsFiniteSet(ClaimSet(e))
                           /\ begun[e] + Cardinality(ClaimSet(e)) + NextClaim(e) <= 1 + interrupts[e]

\* An entry of currentlyProcessing has a goroutine that deletes it in the end; and a mark is
\* forgotten, or a pair removed, after the row it stands for is gone or processed.
EntriesOwned == \A n \in Nodes : \A e \in currentlyProcessing[n] : Unmarked(n, e) \/ At(n, e, "delete")
RowsFirst == /\ recentlyDone \cup doomed \subseteq Scheduled
             /\ cleaning = "set" => \A e \in doomed : row[e] # "pending"
             /\ \A n \in Nodes, e \in Events : At(n, e, "zrem") => row[e] # "pending"
AccountInv == (\A e \in Events : Paid(e)) /\ EntriesOwned /\ RowsFirst

-----------------------------------------------------------------------------
(* Liveness.  check() runs every second, the flush every minute, and each  *)
(* goroutine goes on; a goroutine that waits for the mutex gets it.        *)

Fairness == /\ \A n \in Nodes : WF_vars(CheckStep(n))
            /\ \A n \in Nodes, e \in Events : /\ WF_vars(ProcessItem(n, e)) /\ WF_vars(MarkDoneID(n, e))
                                              /\ SF_vars(Finish(n, e))
            /\ WF_vars(FlushStep)
FairSpec == Spec /\ Fairness

Wanted(e) == row[e] = "pending" /\ e \in due
Servable == here /\ serving # {}

\* An event that is due is handled while the guild can be served, whatever was interrupted.
DueHandled == \A e \in Events : Wanted(e) ~> (e \in handled \/ ~Wanted(e) \/ ~Servable)
=============================================================================
