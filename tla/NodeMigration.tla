---------------------------- MODULE NodeMigration ----------------------------
(***************************************************************************)
(* Orchestrator.MigrateFullNode: every shard of one node is moved to       *)
(* another, one after the other, and the old node is shut down.  It calls  *)
(* StartShardMigration and polls the NodeConns until the shard has moved;  *)
(* meanwhile the other callers of ShardMigration go on.                    *)
(***************************************************************************)
EXTENDS ShardMigration

CONSTANT FullCaller   \* the goroutine that runs MigrateFullNode

ASSUME FullCallerAssumption == FullCaller \in Callers

VARIABLE full   \* where it is, its arguments, the shards left and the one in hand

nodeMigrationVars == <<vars, full>>

FullPCs == {"off", "next", "starting", "waitGone", "waitThere", "waitClear",
            "resetTo", "resetFrom", "shutdown", "done"}
FullTypeOK == full \in [pc : FullPCs, from : Nodes \cup {NoNode}, to : Nodes \cup {NoNode},
                        todo : SUBSET Shards, shard : Shards \cup {NoShard}]

FullInit == /\ Init
            /\ full = [pc |-> "off", from |-> NoNode, to |-> NoNode, todo |-> {}, shard |-> NoShard]

\* The shards are the ones the orchestrator knows of at the start.
Begin(from, to) == /\ full.pc = "off" /\ ~crashed
                   /\ from # to
                   /\ full' = [full EXCEPT !.pc = "next", !.from = from, !.to = to,
                                           !.todo = running[from]]
                   /\ UNCHANGED vars

\* StartShardMigration for the next shard.
StartNext(s) == /\ full.pc = "next"
                /\ s \in full.todo
                /\ \E n \in Nodes : FindOrigin(FullCaller, n, full.to, s)
                /\ full' = [full EXCEPT !.pc = "starting", !.shard = s]

\* No connected node reports the shard any more: ErrUnknownFromNode ends the call.
OriginGone(s) == /\ full.pc = "next" /\ ~crashed
                 /\ s \in full.todo
                 /\ ~Reported(s)
                 /\ full' = [full EXCEPT !.pc = "done"]
                 /\ UNCHANGED vars

\* The steps of that call; an error from it ends MigrateFullNode.
Starting == /\ full.pc = "starting"
            /\ CallStep(FullCaller)
            /\ full' = [full EXCEPT !.pc = IF pc'[FullCaller] = "markTo" THEN "starting"
                                          ELSE IF pc[FullCaller] = "markTo" /\ ~crashed'
                                          THEN "waitGone" ELSE "done"]

\* WaitForShardMigration polls for three things in turn.
WaitStepNot(here, cond, next) == /\ full.pc = here /\ ~crashed      \* mutant: does not wait
                                 /\ full' = [full EXCEPT !.pc = next]
                                 /\ UNCHANGED vars
WaitStep(here, cond, next) == /\ full.pc = here /\ ~crashed
                              /\ cond
                              /\ full' = [full EXCEPT !.pc = next]
                              /\ UNCHANGED vars
OriginOffline == ~connected[full.from]
WaitGone == WaitStep("waitGone", full.shard \notin running[full.from] \/ OriginOffline, "waitThere")
WaitThere == WaitStep("waitThere", full.shard \in running[full.to] \/ OriginOffline, "waitClear")
WaitClear == WaitStep("waitClear", mode[full.to] # "to" \/ OriginOffline, "resetTo")

\* "reset here in case something went wrong": both marks are cleared, one lock after the
\* other, whosever they are by now.
Reset(here, n, next) == /\ full.pc = here /\ ~crashed
                        /\ mode' = [mode EXCEPT ![n] = "none"]
                        /\ full' = next
                        /\ UNCHANGED <<connected, running, other, migShard, callVars,
                                       nodeShards, transferVars, gatewayVars, net>>
ResetTo == Reset("resetTo", full.to, [full EXCEPT !.pc = "resetFrom"])
ResetFrom == Reset("resetFrom", full.from, [full EXCEPT !.pc = "next", !.todo = @ \ {full.shard}])

\* Mutant: the shards left are not looked at.
AllMovedUnchecked == /\ full.pc = "next" /\ ~crashed
                     /\ \E next \in {"shutdown", "done"} : full' = [full EXCEPT !.pc = next]
                     /\ UNCHANGED vars

\* All moved: the old node is told to shut down, or is left alone.
AllMoved == /\ full.pc = "next" /\ ~crashed
            /\ full.todo = {}
            /\ \E next \in {"shutdown", "done"} : full' = [full EXCEPT !.pc = next]
            /\ UNCHANGED vars

\* The node stops its bot and exits.
Shutdown == /\ full.pc = "shutdown"
            /\ Die(full.from)
            /\ full' = [full EXCEPT !.pc = "done"]

FullStep == \/ \E from, to \in Nodes : Begin(from, to)
            \/ \E s \in Shards : StartNext(s)
            \/ Starting \/ WaitGone \/ WaitThere \/ WaitClear \/ ResetTo \/ ResetFrom
            \/ AllMoved \/ Shutdown

FullNext == FullStep \/ ((NodeStep \/ OrchestratorStep) /\ UNCHANGED full)

\* MigrateFullNode is the only caller of StartShardMigration.
FullSpec == FullInit /\ [][FullNext]_nodeMigrationVars

OtherCalls == /\ \E c \in Callers \ {FullCaller} :
                   CallStep(c) \/ \E n, to \in Nodes, s \in Shards : FindOrigin(c, n, to, s)
              /\ UNCHANGED full

\* There are others.
SharedSpec == FullInit /\ [][FullNext \/ OtherCalls \/ \E s \in Shards : OriginGone(s)]_nodeMigrationVars

-----------------------------------------------------------------------------
\* A node is only shut down when it has nothing left to run.
ShutdownEmpty == [][Shutdown => gateway[full.from] = {} /\ nodeShards[full.from] = {}]_nodeMigrationVars

\* A node marked as the destination of a shard stays busy until it has reported the shard
\* ("make sure its not busy" in StartShardMigration): nothing else may make it available
\* to another migration.
BusyStaysBusy == [][\A n \in Nodes : mode[n] = "to" /\ mode'[n] # "to"
                                       => migShard[n] \in running'[n]]_nodeMigrationVars

\* MigrateFullNode comes to an end, with every shard it set out to move on the
\* destination, when nothing else migrates shards.
FullFairness == /\ WF_nodeMigrationVars((NodeStep \/ OrchestratorStep) /\ UNCHANGED full)
                /\ WF_nodeMigrationVars(\/ \E s \in Shards : StartNext(s)
                                        \/ Starting \/ WaitGone \/ WaitThere \/ WaitClear
                                        \/ ResetTo \/ ResetFrom \/ AllMoved \/ Shutdown)
FairFullSpec == FullSpec /\ FullFairness

NodeMoves == \A s \in Shards :
  full.pc = "next" /\ s \in full.todo ~> full.pc = "done" /\ s \in gateway[full.to]
=============================================================================
