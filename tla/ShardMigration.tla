---------------------------- MODULE ShardMigration ----------------------------
(***************************************************************************)
(* lib/dshardorchestrator: the orchestrator moves a shard (one gateway     *)
(* connection to Discord) from an origin node to a destination node.       *)
(*                                                                         *)
(*   orchestrator -> origin        prepFrom       close the gateway        *)
(*   origin -> orchestrator        fromReady      session of the gateway   *)
(*   orchestrator -> destination   prepTo         keep the session         *)
(*   destination -> orchestrator   toReady                                 *)
(*   orchestrator -> origin        startMig       send the shard's state   *)
(*   origin -> destination         evtUp/evtDown  one user event each      *)
(*   origin -> destination         allUp/allDown  how many there were      *)
(*   destination -> orchestrator   started        gateway resumed          *)
(*                                                                         *)
(* Every send is a goroutine of its own ("go ... SendLogErr"), so messages *)
(* overtake each other and the network is a bag.  One order is kept: the   *)
(* origin writes its count after its user events, on one connection that   *)
(* the orchestrator reads in order.  Handlers run under the lock of their  *)
(* node and are atomic; StartShardMigration takes one node's lock after    *)
(* the other, so calls interleave between its steps.                       *)
(***************************************************************************)
EXTENDS Integers

CONSTANTS Nodes,          \* bot processes, all of them identified
          Shards,         \* shard numbers
          ZeroShard,      \* shard 0, the zero value of the shard fields
          NoShard,        \* -1 in the shard fields
          NoNode,         \* "" in the node fields
          Callers,        \* goroutines that call StartShardMigration
          MaxEvents,      \* bound: user events of one transfer
          MaxMigrations   \* bound: calls of StartShardMigration

ASSUME ShardAssumption == /\ ZeroShard \in Shards
                          /\ NoShard \notin Shards
                          /\ NoNode \notin Nodes
                          /\ MaxEvents \in Nat
                          /\ MaxMigrations \in Nat

VARIABLES
  \* the orchestrator: one NodeConn per node
  connected,    \* NodeConn.connected
  running,      \* NodeConn.runningShards
  mode,         \* NodeConn.shardMigrationMode
  other,        \* NodeConn.shardMigrationOtherNodeID
  migShard,     \* NodeConn.shardMigrationShard
  pc, call,     \* where every caller of StartShardMigration is, and its arguments
  crashed,      \* the orchestrator's process died
  \* the nodes: node.Conn and the bot behind it
  nodeShards,   \* Conn.nodeShards
  nodeShard,    \* Conn.shardMigrationShard
  session,      \* Conn.discordSessionID and discordSequence
  processed,    \* Conn.processedUserEvents
  total,        \* Conn.shardmigrationTotalUserEvts
  gateway,      \* shards whose gateway connection is open
  dead,         \* the bot process ended
  \* the network: how often every message is in flight
  net,
  \* history
  calls,        \* calls of StartShardMigration so far
  closes,       \* gateways closed for a transfer so far, also the last session made
  lastClosed,   \* the session a shard had when its gateway was last closed
  openedWith,   \* the session its gateway was last opened with, 0 for a new one
  sent,         \* user events the origin sent when it last transferred a shard
  panics        \* nodes that ended in a panic

orchVars == <<connected, running, mode, other, migShard>>
callVars == <<pc, call, crashed, calls>>
transferVars == <<nodeShard, session, processed, total>>
gatewayVars == <<gateway, closes, lastClosed, openedWith, sent, dead, panics>>
vars == <<orchVars, callVars, nodeShards, transferVars, gatewayVars, net>>

Sessions == 0 .. MaxMigrations
ToNodeKinds == {"prepFrom", "startMig", "evtDown", "startShard", "stopShard"}
FromNodeKinds == {"toReady", "evtUp", "started", "stopped"}
Msg == [kind : ToNodeKinds \cup FromNodeKinds, node : Nodes, shard : Shards]
         \cup [kind : {"prepTo", "fromReady"}, node : Nodes, shard : Shards, session : Sessions]
         \cup [kind : {"allDown", "allUp"}, node : Nodes, events : 0 .. MaxEvents]

\* A message to or from node n about shard s.
M(kind, n, s) == [kind |-> kind, node |-> n, shard |-> s]
WithSession(kind, n, s, x) == [kind |-> kind, node |-> n, shard |-> s, session |-> x]
WithCount(kind, n, k) == [kind |-> kind, node |-> n, events |-> k]

Modes == {"none", "from", "to"}
Call == [from : Nodes, to : Nodes, shard : Shards]
NoCall == [from |-> NoNode, to |-> NoNode, shard |-> NoShard]

TypeOK == /\ connected \in [Nodes -> BOOLEAN]
          /\ running \in [Nodes -> SUBSET Shards]
          /\ mode \in [Nodes -> Modes]
          /\ other \in [Nodes -> Nodes \cup {NoNode}]
          /\ migShard \in [Nodes -> Shards \cup {NoShard}]
          /\ pc \in [Callers -> {"idle", "markFrom", "markTo"}]
          /\ call \in [Callers -> Call \cup {NoCall}]
          /\ \A c \in Callers : pc[c] # "idle" => call[c] \in Call
          /\ crashed \in BOOLEAN
          /\ nodeShards \in [Nodes -> SUBSET Shards]
          /\ nodeShard \in [Nodes -> Shards \cup {NoShard}]
          /\ session \in [Nodes -> Sessions]
          /\ processed \in [Nodes -> Nat]
          /\ total \in [Nodes -> -1 .. MaxEvents]
          /\ gateway \in [Nodes -> SUBSET Shards]
          /\ dead \in [Nodes -> BOOLEAN]
          /\ panics \in SUBSET Nodes
          /\ net \in [Msg -> Nat]
          /\ calls \in 0 .. MaxMigrations
          /\ closes \in Nat
          /\ lastClosed \in [Shards -> Nat]
          /\ openedWith \in [Shards -> Nat]
          /\ sent \in [Shards -> 0 .. MaxEvents]

\* Every shard was started on at most one node and everybody has heard of it; nothing
\* migrated yet, so the migration fields have Go's zero values.
Init == /\ connected = [n \in Nodes |-> TRUE]
        /\ running \in [Nodes -> SUBSET Shards]
        /\ \A n, m \in Nodes : n # m => running[n] \cap running[m] = {}
        /\ mode = [n \in Nodes |-> "none"]
        /\ other = [n \in Nodes |-> NoNode]
        /\ migShard = [n \in Nodes |-> ZeroShard]
        /\ pc = [c \in Callers |-> "idle"]
        /\ call = [c \in Callers |-> NoCall]
        /\ crashed = FALSE
        /\ nodeShards = running
        /\ nodeShard = [n \in Nodes |-> ZeroShard]
        /\ session = [n \in Nodes |-> 0]
        /\ processed = [n \in Nodes |-> 0]
        /\ total = [n \in Nodes |-> 0]
        /\ gateway = running
        /\ dead = [n \in Nodes |-> FALSE]
        /\ panics = {}
        /\ net = [m \in Msg |-> 0]
        /\ calls = 0
        /\ closes = 0
        /\ lastClosed = [s \in Shards |-> 0]
        /\ openedWith = [s \in Shards |-> 0]
        /\ sent = [s \in Shards |-> 0]

-----------------------------------------------------------------------------
(* The network.  A message to a node that is not connected is lost.        *)

One(b) == IF b THEN 1 ELSE 0

\* Mutant: a message is handled again although it was handled before.
HandleAgain(m, out) == net' = [x \in Msg |-> net[x] - One(x = m)
                                               + One(x \in out /\ connected[x.node])]

\* Message m is handled, and the messages of out are sent.
Handle(m, out) == /\ net[m] > 0
                  /\ net' = [x \in Msg |-> net[x] - One(x = m)
                                                  + One(x \in out /\ connected[x.node])]
Send(out) == net' = [x \in Msg |-> net[x] + One(x \in out /\ connected[x.node])]

\* Nothing to or from node n is under way any more.
Cut(n) == /\ connected' = [connected EXCEPT ![n] = FALSE]
          /\ net' = [x \in Msg |-> IF x.node = n THEN 0 ELSE net[x]]

\* The orchestrator handles a message of node n; o is the node n migrates with.
\* FindNodeByID finds every node, and finds nothing for "".
Forward(m, n, out) == /\ ~crashed
                      /\ Handle(m, IF other[n] = NoNode THEN {} ELSE out)

-----------------------------------------------------------------------------
(* StartShardMigration.                                                    *)

\* The origin is a connected node that reports the shard; the destination any node.
\* Without an origin the call returns ErrUnknownFromNode and changes nothing.
FindOrigin(c, n, to, s) == /\ pc[c] = "idle" /\ ~crashed
                           /\ calls < MaxMigrations
                           /\ connected[n] /\ s \in running[n]
                           /\ pc' = [pc EXCEPT ![c] = "markFrom"]
                           /\ call' = [call EXCEPT ![c] = [from |-> n, to |-> to, shard |-> s]]
                           /\ calls' = calls + 1
                           /\ UNCHANGED <<orchVars, crashed, nodeShards, transferVars, gatewayVars, net>>

\* The origin is marked busy, if it still has the shard and is not busy already.
MarkFrom(c) == LET n == call[c].from IN
               /\ pc[c] = "markFrom" /\ ~crashed
               /\ call[c].shard \in running[n] /\ mode[n] = "none"
               /\ mode' = [mode EXCEPT ![n] = "from"]
               /\ other' = [other EXCEPT ![n] = call[c].to]
               /\ migShard' = [migShard EXCEPT ![n] = call[c].shard]
               /\ pc' = [pc EXCEPT ![c] = "markTo"]
               /\ UNCHANGED <<connected, running, call, crashed, calls, nodeShards,
                              transferVars, gatewayVars, net>>

\* Otherwise ErrFromNodeNotRunningShard or ErrNodeBusy.
RefuseFrom(c) == LET n == call[c].from IN
                 /\ pc[c] = "markFrom" /\ ~crashed
                 /\ call[c].shard \notin running[n] \/ mode[n] # "none"
                 /\ pc' = [pc EXCEPT ![c] = "idle"]
                 /\ UNCHANGED <<orchVars, call, crashed, calls, nodeShards, transferVars,
                                gatewayVars, net>>

\* Mutant: nobody looks whether the destination is busy.
MarkToUnchecked(c) == LET n == call[c].to IN
                      /\ pc[c] = "markTo" /\ ~crashed
                      /\ mode' = [mode EXCEPT ![n] = "to"]
                      /\ other' = [other EXCEPT ![n] = call[c].from]
                      /\ migShard' = [migShard EXCEPT ![n] = call[c].shard]
                      /\ pc' = [pc EXCEPT ![c] = "idle"]
                      /\ Send({M("prepFrom", call[c].from, call[c].shard)})
                      /\ UNCHANGED <<connected, running, call, crashed, calls, nodeShards,
                                     transferVars, gatewayVars>>

\* The destination is marked busy and the origin told to close the gateway.
MarkTo(c) == LET n == call[c].to IN
             /\ pc[c] = "markTo" /\ ~crashed
             /\ mode[n] = "none"
             /\ mode' = [mode EXCEPT ![n] = "to"]
             /\ other' = [other EXCEPT ![n] = call[c].from]
             /\ migShard' = [migShard EXCEPT ![n] = call[c].shard]
             /\ pc' = [pc EXCEPT ![c] = "idle"]
             /\ Send({M("prepFrom", call[c].from, call[c].shard)})
             /\ UNCHANGED <<connected, running, call, crashed, calls, nodeShards,
                            transferVars, gatewayVars>>

\* The destination is busy: the origin's mark is taken back, and then toNode.mu, which
\* is no longer held, is unlocked a second time, which ends the process.
BusyDestination(c) == LET n == call[c].from IN
                      /\ pc[c] = "markTo" /\ ~crashed
                      /\ mode[call[c].to] # "none"
                      /\ mode' = [mode EXCEPT ![n] = "none"]
                      /\ other' = [other EXCEPT ![n] = NoNode]
                      /\ migShard' = [migShard EXCEPT ![n] = NoShard]
                      /\ pc' = [pc EXCEPT ![c] = "idle"]
                      /\ crashed' = TRUE
                      /\ UNCHANGED <<connected, running, call, calls, nodeShards,
                                     transferVars, gatewayVars, net>>

-----------------------------------------------------------------------------
(* The origin node.                                                        *)

\* Mutant: the session is read but the gateway is left open.
PrepareFromOpen(n, s) ==
  /\ ~dead[n] /\ closes < MaxMigrations
  /\ Handle(M("prepFrom", n, s), {WithSession("fromReady", n, s, closes + 1)})
  /\ nodeShards' = [nodeShards EXCEPT ![n] = @ \ {s}]
  /\ nodeShard' = [nodeShard EXCEPT ![n] = s]
  /\ closes' = closes + 1
  /\ lastClosed' = [lastClosed EXCEPT ![s] = closes + 1]
  /\ UNCHANGED <<orchVars, callVars, session, processed, total, gateway, openedWith, sent,
                 dead, panics>>

\* handlePrepareShardMigration at the origin: the shard is no longer the node's, its
\* gateway is closed and the session goes back.  A gateway that was not open has no
\* session worth resuming.
PrepareFrom(n, s) ==
  LET open == s \in gateway[n]
      x == IF open THEN closes + 1 ELSE 0 IN
  /\ ~dead[n]
  /\ closes < MaxMigrations   \* never bites: a call closes at most one gateway
  /\ Handle(M("prepFrom", n, s), {WithSession("fromReady", n, s, x)})
  /\ nodeShards' = [nodeShards EXCEPT ![n] = @ \ {s}]
  /\ nodeShard' = [nodeShard EXCEPT ![n] = s]
  /\ gateway' = [gateway EXCEPT ![n] = @ \ {s}]
  /\ closes' = IF open THEN x ELSE closes
  /\ lastClosed' = IF open THEN [lastClosed EXCEPT ![s] = x] ELSE lastClosed
  /\ UNCHANGED <<orchVars, callVars, session, processed, total, openedWith, sent, dead, panics>>

\* handleStartShardMigration: k user events, then their number.  Afterwards the origin
\* has nothing left of the shard.
SendUserEvents(n, s, k) ==
  /\ ~dead[n]
  /\ net[M("startMig", n, s)] > 0
  /\ net' = [x \in Msg |-> net[x] - One(x = M("startMig", n, s))
                             + (IF connected[n]
                                  THEN (IF x = M("evtUp", n, s) THEN k ELSE 0)
                                         + One(x = WithCount("allUp", n, k))
                                  ELSE 0)]
  /\ sent' = [sent EXCEPT ![s] = k]
  /\ UNCHANGED <<orchVars, callVars, nodeShards, transferVars, gateway, closes, lastClosed,
                 openedWith, dead, panics>>

-----------------------------------------------------------------------------
(* The destination node.                                                   *)

\* Mutant: the session is not kept.
PrepareToForgetsSession(n, s, x) ==
  /\ ~dead[n]
  /\ Handle(WithSession("prepTo", n, s, x), {M("toReady", n, s)})
  /\ nodeShard' = [nodeShard EXCEPT ![n] = s]
  /\ processed' = [processed EXCEPT ![n] = 0]
  /\ total' = [total EXCEPT ![n] = -1]
  /\ nodeShards' = [nodeShards EXCEPT ![n] = @ \cup {s}]
  /\ UNCHANGED <<orchVars, callVars, session, gatewayVars>>

\* Mutant: the number of events is not reset.
PrepareToKeepsTotal(n, s, x) ==
  /\ ~dead[n]
  /\ Handle(WithSession("prepTo", n, s, x), {M("toReady", n, s)})
  /\ session' = [session EXCEPT ![n] = x]
  /\ nodeShard' = [nodeShard EXCEPT ![n] = s]
  /\ processed' = [processed EXCEPT ![n] = 0]
  /\ nodeShards' = [nodeShards EXCEPT ![n] = @ \cup {s}]
  /\ UNCHANGED <<orchVars, callVars, total, gatewayVars>>

\* handlePrepareShardMigration at the destination.
PrepareTo(n, s, x) ==
  /\ ~dead[n]
  /\ Handle(WithSession("prepTo", n, s, x), {M("toReady", n, s)})
  /\ session' = [session EXCEPT ![n] = x]
  /\ nodeShard' = [nodeShard EXCEPT ![n] = s]
  /\ processed' = [processed EXCEPT ![n] = 0]
  /\ total' = [total EXCEPT ![n] = -1]
  /\ nodeShards' = [nodeShards EXCEPT ![n] = @ \cup {s}]
  /\ UNCHANGED <<orchVars, callVars, gatewayVars>>

\* finishShardMigrationTo: the gateway is resumed with the stored session and the
\* orchestrator told.  m is the message that completed the transfer.
Finish(n, m) ==
  LET s == nodeShard[n] IN
  /\ s # NoShard
  /\ Handle(m, {M("started", n, s)})
  /\ gateway' = [gateway EXCEPT ![n] = @ \cup {s}]
  /\ openedWith' = [openedWith EXCEPT ![s] = session[n]]
  /\ nodeShard' = [nodeShard EXCEPT ![n] = NoShard]
  /\ session' = [session EXCEPT ![n] = 0]
  /\ total' = [total EXCEPT ![n] = -1]
  /\ UNCHANGED <<orchVars, callVars, nodeShards, closes, lastClosed, sent, dead, panics>>

\* With shard -1 in hand ResumeShard indexes the sessions out of range: the process ends.
FinishNothing(n, m) ==
  /\ nodeShard[n] = NoShard
  /\ net[m] > 0
  /\ dead' = [dead EXCEPT ![n] = TRUE]
  /\ panics' = panics \cup {n}
  /\ gateway' = [gateway EXCEPT ![n] = {}]
  /\ Cut(n)
  /\ UNCHANGED <<running, mode, other, migShard, callVars, nodeShards, nodeShard, session,
                 total, closes, lastClosed, openedWith, sent>>

Complete(n, m) == Finish(n, m) \/ FinishNothing(n, m)

\* handleUserEvt: the event is counted, and completes the transfer if the number of
\* events is known and reached.
CompletesEventsLate(n) == total[n] > -1 /\ processed[n] + 1 > total[n]   \* mutant: off by one
CompletesEvents(n) == total[n] > -1 /\ processed[n] + 1 >= total[n]

UserEvent(n, s) ==
  /\ ~dead[n] /\ ~CompletesEvents(n)
  /\ Handle(M("evtDown", n, s), {})
  /\ processed' = [processed EXCEPT ![n] = @ + 1]
  /\ UNCHANGED <<orchVars, callVars, nodeShards, nodeShard, session, total, gatewayVars>>

LastUserEvent(n, s) ==
  /\ ~dead[n] /\ CompletesEvents(n)
  /\ processed' = [processed EXCEPT ![n] = @ + 1]
  /\ Complete(n, M("evtDown", n, s))

\* handleAllUserdataSent: the number is kept, and completes the transfer if it was
\* already reached.
CompletesCountEarly(n, k) == k <= processed[n] + 1                        \* mutant: off by one
CompletesCount(n, k) == k <= processed[n]

AllUserdataSent(n, k) ==
  /\ ~dead[n] /\ ~CompletesCount(n, k)
  /\ Handle(WithCount("allDown", n, k), {})
  /\ total' = [total EXCEPT ![n] = k]
  /\ UNCHANGED <<orchVars, callVars, nodeShards, nodeShard, session, processed, gatewayVars>>

LateAllUserdataSent(n, k) ==
  /\ ~dead[n] /\ CompletesCount(n, k)
  /\ processed' = processed
  /\ Complete(n, WithCount("allDown", n, k))

-----------------------------------------------------------------------------
(* The orchestrator's side of the protocol: NodeConn.handleMessage.        *)

\* Mutant: the shard stays listed under the origin.
OnFromReadyKeeps(n, s, x) ==
  /\ Forward(WithSession("fromReady", n, s, x), n, {WithSession("prepTo", other[n], s, x)})
  /\ UNCHANGED <<orchVars, callVars, nodeShards, transferVars, gatewayVars>>

\* EvtPrepareShardmigration from the origin: the shard is nobody's from here on, and
\* the session goes to the destination.
OnFromReady(n, s, x) ==
  /\ Forward(WithSession("fromReady", n, s, x), n, {WithSession("prepTo", other[n], s, x)})
  /\ running' = IF other[n] = NoNode THEN running ELSE [running EXCEPT ![n] = @ \ {s}]
  /\ UNCHANGED <<connected, mode, other, migShard, callVars, nodeShards, transferVars, gatewayVars>>

\* EvtPrepareShardmigration from the destination: the origin may send its state.
OnToReady(n, s) ==
  /\ Forward(M("toReady", n, s), n, {M("startMig", other[n], s)})
  /\ UNCHANGED <<orchVars, callVars, nodeShards, transferVars, gatewayVars>>

\* A user event is passed on unread.
OnUserEvent(n, s) ==
  /\ Forward(M("evtUp", n, s), n, {M("evtDown", other[n], s)})
  /\ UNCHANGED <<orchVars, callVars, nodeShards, transferVars, gatewayVars>>

\* Mutant: the destination's mark is cleared together with the origin's.
OnAllUserdataSentClearsBoth(n, k) ==
  /\ \A s \in Shards : net[M("evtUp", n, s)] = 0
  /\ Forward(WithCount("allUp", n, k), n, {WithCount("allDown", other[n], k)})
  /\ mode' = [m \in Nodes |-> IF m \in {n, other[n]} THEN "none" ELSE mode[m]]
  /\ UNCHANGED <<connected, running, other, migShard, callVars, nodeShards, transferVars, gatewayVars>>

\* Mutant: the origin's mark is left.
OnAllUserdataSentKeepsMark(n, k) ==
  /\ \A s \in Shards : net[M("evtUp", n, s)] = 0
  /\ Forward(WithCount("allUp", n, k), n, {WithCount("allDown", other[n], k)})
  /\ UNCHANGED <<orchVars, callVars, nodeShards, transferVars, gatewayVars>>

\* EvtAllUserdataSent, read after the user events the origin wrote before it: the
\* origin is free again, the destination learns how many events to expect.
OnAllUserdataSent(n, k) ==
  /\ \A s \in Shards : net[M("evtUp", n, s)] = 0
  /\ Forward(WithCount("allUp", n, k), n, {WithCount("allDown", other[n], k)})
  /\ mode' = [mode EXCEPT ![n] = "none"]
  /\ UNCHANGED <<connected, running, other, migShard, callVars, nodeShards, transferVars, gatewayVars>>

\* Mutant: the mark goes but the shard is not added.
OnStartedUnlisted(n, s) ==
  /\ ~crashed
  /\ Handle(M("started", n, s), {})
  /\ mode' = IF migShard[n] = s THEN [mode EXCEPT ![n] = "none"] ELSE mode
  /\ UNCHANGED <<connected, running, other, migShard, callVars, nodeShards, transferVars, gatewayVars>>

\* EvtStartShards from a node: it runs the shard, and a migration of it is over.
OnStarted(n, s) ==
  /\ ~crashed
  /\ Handle(M("started", n, s), {})
  /\ running' = [running EXCEPT ![n] = @ \cup {s}]
  /\ mode' = IF migShard[n] = s THEN [mode EXCEPT ![n] = "none"] ELSE mode
  /\ UNCHANGED <<connected, other, migShard, callVars, nodeShards, transferVars, gatewayVars>>

\* EvtStopShard from a node.
OnStopped(n, s) ==
  /\ ~crashed
  /\ Handle(M("stopped", n, s), {})
  /\ running' = [running EXCEPT ![n] = @ \ {s}]
  /\ UNCHANGED <<connected, mode, other, migShard, callVars, nodeShards, transferVars, gatewayVars>>

-----------------------------------------------------------------------------
(* StopShard, as the REST interface calls it, and the nodes' handlers of   *)
(* stop and start messages.                                                *)

ReportedByAnyone(s) == \E n \in Nodes : s \in running[n]   \* mutant: connected or not
Reported(s) == \E n \in Nodes : connected[n] /\ s \in running[n]

\* StopShard is sent to every connected node that reports the shard.
StopShard(s) == /\ ~crashed
                /\ Reported(s)
                /\ \A n \in Nodes : net[M("stopShard", n, s)] + net[M("stopped", n, s)] = 0   \* bound: one at a time
                /\ Send({M("stopShard", n, s) : n \in {m \in Nodes : connected[m] /\ s \in running[m]}})
                /\ UNCHANGED <<orchVars, callVars, nodeShards, transferVars, gatewayVars>>

\* handleStartShard: AddNewShards clears the session and opens a new gateway, unless it
\* is open already.
NodeStartShard(n, s) ==
  /\ ~dead[n]
  /\ Handle(M("startShard", n, s), {M("started", n, s)})
  /\ nodeShards' = [nodeShards EXCEPT ![n] = @ \cup {s}]
  /\ gateway' = [gateway EXCEPT ![n] = @ \cup {s}]
  /\ IF s \in gateway[n] THEN UNCHANGED <<lastClosed, openedWith>>
                          ELSE /\ lastClosed' = [lastClosed EXCEPT ![s] = 0]
                               /\ openedWith' = [openedWith EXCEPT ![s] = 0]
  /\ UNCHANGED <<orchVars, callVars, transferVars, closes, sent, dead, panics>>

\* handleStopShard.
NodeStopShard(n, s) ==
  /\ ~dead[n]
  /\ Handle(M("stopShard", n, s), {M("stopped", n, s)})
  /\ nodeShards' = [nodeShards EXCEPT ![n] = @ \ {s}]
  /\ gateway' = [gateway EXCEPT ![n] = @ \ {s}]
  /\ UNCHANGED <<orchVars, callVars, transferVars, closes, lastClosed, openedWith, sent,
                 dead, panics>>

-----------------------------------------------------------------------------
(* Failures.                                                               *)

\* A connection breaks and both ends notice.  What the node sends meanwhile it appends
\* to Conn.sendQueue, which nothing ever sends.
Disconnect(n) == /\ connected[n]
                 /\ Cut(n)
                 /\ UNCHANGED <<running, mode, other, migShard, callVars, nodeShards,
                                transferVars, gatewayVars>>

\* The node reconnects and identifies: handleIdentify replaces the NodeConn by a fresh
\* one that takes the node's word for its shards and knows of no migration.  Assumed of
\* the clock: a call, which holds on to the NodeConns it found, is not between two of its
\* locks while one of them is replaced (see the README).
Identify(n) == /\ ~connected[n] /\ ~dead[n] /\ ~crashed
               /\ \A c \in Callers : pc[c] # "idle" => n \notin {call[c].from, call[c].to}
               /\ connected' = [connected EXCEPT ![n] = TRUE]
               /\ running' = [running EXCEPT ![n] = nodeShards[n]]
               /\ mode' = [mode EXCEPT ![n] = "none"]
               /\ other' = [other EXCEPT ![n] = NoNode]
               /\ migShard' = [migShard EXCEPT ![n] = ZeroShard]
               /\ UNCHANGED <<callVars, nodeShards, transferVars, gatewayVars, net>>

\* A bot process ends and its gateways with it.  The NodeConn stays in the list with
\* its marks; a process launched in its place has another ID.
Die(n) == /\ ~dead[n]
          /\ dead' = [dead EXCEPT ![n] = TRUE]
          /\ gateway' = [gateway EXCEPT ![n] = {}]
          /\ Cut(n)
          /\ UNCHANGED <<running, mode, other, migShard, callVars, nodeShards, transferVars,
                         closes, lastClosed, openedWith, sent, panics>>

\* monitor.tick starts a shard that no connected node reports and no NodeConn, connected
\* or not, is marked as migrating.  Assumed of the clock: a shard is looked at again
\* only when an earlier start of it has been answered, which the code has five seconds
\* for, and a started shard is lost only with its node (see the README).
MarkedMigrating(s) == \E n \in Nodes : mode[n] # "none" /\ migShard[n] = s

\* Mutant: the marks are not looked at.
MonitorStartUnmarked(n, s) ==
  /\ ~crashed
  /\ ~Reported(s)
  /\ connected[n]
  /\ \A m \in Nodes : net[M("startShard", m, s)] = 0 /\ net[M("started", m, s)] = 0
  /\ Send({M("startShard", n, s)})
  /\ UNCHANGED <<orchVars, callVars, nodeShards, transferVars, gatewayVars>>

MonitorStart(n, s) ==
  /\ ~crashed
  /\ ~Reported(s) /\ ~MarkedMigrating(s)
  /\ connected[n]
  /\ \A m \in Nodes : net[M("startShard", m, s)] = 0 /\ net[M("started", m, s)] = 0
  /\ Send({M("startShard", n, s)})
  /\ UNCHANGED <<orchVars, callVars, nodeShards, transferVars, gatewayVars>>

-----------------------------------------------------------------------------
CallStep(c) == MarkFrom(c) \/ RefuseFrom(c) \/ MarkTo(c) \/ BusyDestination(c)
Migrate == \E c \in Callers :
             CallStep(c) \/ \E n, to \in Nodes, s \in Shards : FindOrigin(c, n, to, s)

NodeStep == \E n \in Nodes :
              \/ \E s \in Shards : \/ PrepareFrom(n, s)
                                  \/ \E k \in 0 .. MaxEvents : SendUserEvents(n, s, k)
                                  \/ \E x \in Sessions : PrepareTo(n, s, x)
                                  \/ UserEvent(n, s) \/ LastUserEvent(n, s)
              \/ \E k \in 0 .. MaxEvents : AllUserdataSent(n, k) \/ LateAllUserdataSent(n, k)

OrchestratorStep == \E n \in Nodes :
              \/ \E s \in Shards : \/ \E x \in Sessions : OnFromReady(n, s, x)
                                  \/ OnToReady(n, s) \/ OnUserEvent(n, s) \/ OnStarted(n, s)
              \/ \E k \in 0 .. MaxEvents : OnAllUserdataSent(n, k)

\* Migrations only, over connections that hold.
Next == Migrate \/ NodeStep \/ OrchestratorStep
Spec == Init /\ [][Next]_vars

\* Connections break and come back, and shards are also stopped by hand.
StopStep == \E n \in Nodes, s \in Shards : StopShard(s) \/ NodeStopShard(n, s) \/ OnStopped(n, s)
ConnectionStep == \E n \in Nodes : Disconnect(n) \/ Identify(n)
LossySpec == Init /\ [][Next \/ ConnectionStep \/ StopStep]_vars

\* Bot processes end, one always survives, and the monitor restarts their shards.
CrashStep == \E n \in Nodes :
               \/ (\E m \in Nodes : m # n /\ ~dead[m]) /\ Die(n)
               \/ \E s \in Shards : MonitorStart(n, s) \/ NodeStartShard(n, s)
CrashSpec == Init /\ [][Next \/ CrashStep]_vars

-----------------------------------------------------------------------------
\* The gateway of s was closed for a transfer and has not been resumed yet.
InTransit(s) == lastClosed[s] # openedWith[s]

\* No shard's gateway is open on two nodes at once: Discord would deliver every event
\* twice and the bot would answer twice.
OneGateway == \A s \in Shards, n, m \in Nodes :
                s \in gateway[n] /\ s \in gateway[m] => n = m

\* A shard that is on its way, or has arrived but is not reported yet, is covered by the
\* mark of a migration or by an answer under way: the mark is all that keeps the monitor
\* from starting such a shard a second time.
InTransitMarked == \A s \in Shards :
  (InTransit(s) \/ \E n \in Nodes : s \in gateway[n]) /\ ~Reported(s)
    => MarkedMigrating(s) \/ \E n \in Nodes : net[M("started", n, s)] > 0

\* No node completes a transfer it has no shard for, which would be a panic.
NoPanic == panics = {}

\* When nothing is under way, what the orchestrator believes, what the node would
\* identify with and what it really runs are the same.
Quiet == (\A m \in Msg : net[m] = 0) /\ (\A n \in Nodes : connected[n])
ViewsAgree == Quiet => \A n \in Nodes : running[n] = nodeShards[n] /\ running[n] = gateway[n]

\* A gateway is resumed on the state the origin had: the destination has received as many
\* user events as the origin sent, although counts and events overtake each other and a
\* broken connection destroys any of them (handleUserEvt, handleAllUserdataSent).
StateBeforeResume ==
  [][\A n \in Nodes, s \in Shards :
       s \in gateway'[n] \ gateway[n] => processed'[n] = sent[s]]_vars

\* The protocol keeps the promise of ShardOwnership: the holder of a shard is the node
\* with its gateway open, and a gateway is resumed with the session closed last.
Holder(s) == IF \E n \in Nodes : s \in gateway[n]
               THEN CHOOSE n \in Nodes : s \in gateway[n] ELSE NoNode
Ownership == INSTANCE ShardOwnership
               WITH holder <- [s \in Shards |-> Holder(s)], closed <- lastClosed,
                    resumed <- openedWith, Nobody <- NoNode, MaxSessions <- MaxMigrations
KeepsOwnership == Ownership!MoveSpec
KeepsOwnershipThroughCrashes == Ownership!Spec

-----------------------------------------------------------------------------
(* Why one gateway per shard is kept while shards only migrate (Spec): an  *)
(* invariant that is inductive.  A migration is known by its destination,  *)
(* and one message at a time, its token, carries it on.                    *)

FromTokens == {"prepFrom", "fromReady", "startMig", "allUp"}    \* at the origin
ToTokens == {"prepTo", "toReady", "allDown", "started"}         \* at the destination

\* The destination of the migration that token m belongs to.
Destination(m) == IF m.kind \in FromTokens THEN other[m.node] ELSE m.node
Token(m) == m.kind \in FromTokens \cup ToTokens /\ net[m] > 0

\* A migration's destination has one token at most.
OneToken == \A m1 \in Msg : Token(m1) =>
              /\ net[m1] = 1
              /\ \A m2 \in Msg : Token(m2) /\ Destination(m1) = Destination(m2) => m1 = m2

\* Origin n and its destination are marked with each other, and no call is still marking.
Linked(n) == /\ mode[n] = "from"
             /\ other[n] \in Nodes
             /\ mode[other[n]] = "to"
             /\ other[other[n]] = n
             /\ migShard[other[n]] = migShard[n]
             /\ \A c \in Callers : pc[c] = "markTo" => call[c].from # n
Nowhere(s) == \A n \in Nodes : s \notin gateway[n]
Prepared(d) == nodeShard[d] = migShard[d] /\ total[d] = -1

\* What the tokens tell, in the order of the protocol.
ClosingToken == \A n \in Nodes, s \in Shards :
  net[M("prepFrom", n, s)] > 0 => Linked(n) /\ migShard[n] = s /\ s \in gateway[n]
ClosedToken == \A n \in Nodes, s \in Shards, x \in Sessions :
  net[WithSession("fromReady", n, s, x)] > 0 => Linked(n) /\ migShard[n] = s /\ Nowhere(s)
PreparingToken == \A d \in Nodes, s \in Shards, x \in Sessions :
  net[WithSession("prepTo", d, s, x)] > 0 =>
    /\ mode[d] = "to" /\ migShard[d] = s /\ Nowhere(s)
    /\ other[d] \in Nodes /\ Linked(other[d]) /\ other[other[d]] = d
PreparedToken == \A d \in Nodes, s \in Shards :
  net[M("toReady", d, s)] > 0 =>
    /\ mode[d] = "to" /\ migShard[d] = s /\ Nowhere(s) /\ Prepared(d)
    /\ other[d] \in Nodes /\ Linked(other[d]) /\ other[other[d]] = d
SendingToken == \A n \in Nodes, s \in Shards :
  net[M("startMig", n, s)] > 0 => Linked(n) /\ migShard[n] = s /\ Nowhere(s) /\ Prepared(other[n])
SentToken == \A n \in Nodes, k \in 0 .. MaxEvents :
  net[WithCount("allUp", n, k)] > 0 => Linked(n) /\ Nowhere(migShard[n]) /\ Prepared(other[n])
CountToken == \A d \in Nodes, k \in 0 .. MaxEvents :
  net[WithCount("allDown", d, k)] > 0 => mode[d] = "to" /\ Nowhere(migShard[d]) /\ Prepared(d)
StartedToken == \A d \in Nodes, s \in Shards :
  net[M("started", d, s)] > 0 => mode[d] = "to" /\ migShard[d] = s /\ s \in gateway[d]

\* User events come before their number, and find the destination ready for them; if it
\* knows the number already, they are all its migration waits for.
EventsBeforeCount == \A n \in Nodes, s \in Shards :
  net[M("evtUp", n, s)] > 0 => \E k \in 0 .. MaxEvents : net[WithCount("allUp", n, k)] > 0
EventsExpected == \A d \in Nodes, s \in Shards :
  net[M("evtDown", d, s)] > 0 /\ total[d] # -1 =>
    /\ mode[d] = "to" /\ nodeShard[d] = migShard[d] /\ Nowhere(migShard[d])
    /\ \A m \in Msg : Token(m) => Destination(m) # d

\* A caller that has marked the origin and not yet the destination.
Marking == \A c \in Callers : pc[c] = "markTo" =>
  LET n == call[c].from IN
  /\ mode[n] = "from" /\ other[n] = call[c].to /\ migShard[n] = call[c].shard
  /\ call[c].shard \in gateway[n]
  /\ \A e \in Callers : pc[e] = "markTo" /\ call[e].from = n => e = c

\* A shard's migration has released it, unless it has just begun or is just over.
ReleasedUnlessMarked == \A d \in Nodes : mode[d] = "to" =>
  /\ migShard[d] \in Shards
  /\ \/ Nowhere(migShard[d])
     \/ other[d] \in Nodes /\ net[M("prepFrom", other[d], migShard[d])] > 0
     \/ net[M("started", d, migShard[d])] > 0
OneMigration == \A d, e \in Nodes :
  mode[d] = "to" /\ mode[e] = "to" /\ migShard[d] = migShard[e] => d = e

\* What is reported is running, or is just being closed.
ReportedRuns == \A n \in Nodes, s \in Shards :
  s \in running[n] => s \in gateway[n] \/ \E x \in Sessions : net[WithSession("fromReady", n, s, x)] > 0

NothingFails == /\ connected = [n \in Nodes |-> TRUE]
                /\ dead = [n \in Nodes |-> FALSE]
                /\ panics = {}

TokenInv == /\ ClosingToken /\ ClosedToken /\ PreparingToken /\ PreparedToken
            /\ SendingToken /\ SentToken /\ CountToken /\ StartedToken
MigrationInv == /\ NothingFails /\ OneGateway /\ OneToken /\ TokenInv
                /\ EventsBeforeCount /\ EventsExpected
                /\ Marking /\ ReleasedUnlessMarked /\ OneMigration /\ ReportedRuns

-----------------------------------------------------------------------------
(* Why a gateway is resumed with the session its last holder closed: what  *)
(* MigrationInv leaves out, the session on its way to the destination.     *)

\* A migration has closed its shard's gateway and not yet opened it again.
Moving(d) == mode[d] = "to" /\ Nowhere(migShard[d])
HandedOver(d) == \/ \E x \in Sessions : net[WithSession("prepTo", d, migShard[d], x)] > 0
                 \/ \E n \in Nodes, x \in Sessions :
                      other[n] = d /\ net[WithSession("fromReady", n, migShard[d], x)] > 0

\* The session is in a message to or from the orchestrator, or else kept at the
\* destination, and it is always the one closed last.
SessionsCarried == \A k \in {"fromReady", "prepTo"}, n \in Nodes, s \in Shards, x \in Sessions :
  net[WithSession(k, n, s, x)] > 0 => x = lastClosed[s]
SessionKept == \A d \in Nodes : Moving(d) => HandedOver(d) \/ session[d] = lastClosed[migShard[d]]
NotResumed == \A d \in Nodes : Moving(d) => InTransit(migShard[d])
SessionsOld == \A s \in Shards : lastClosed[s] <= closes /\ openedWith[s] <= closes

\* The session closed last travels with the shard until the destination resumes it.
SessionInv == SessionsCarried /\ SessionKept /\ NotResumed /\ SessionsOld

-----------------------------------------------------------------------------
(* Why everybody agrees when nothing is under way: a shard that has left   *)
(* its origin is waited for by a message, its token or a user event still  *)
(* to come, for the destination counts no user event twice and misses none. *)

\* The destination has recorded the shard; the user events it has counted or will count
\* without the orchestrator's doing.
Recorded(d) == migShard[d] \in nodeShards[d]
Delivered(d) == processed[d] + net[M("evtDown", d, migShard[d])]

\* What token m tells of the user events: none yet, or how many they are in all.
TokenCounts(m) ==
  LET d == Destination(m) IN
  /\ m.kind \in {"toReady", "startMig"} => Recorded(d) /\ processed[d] = 0
  /\ m.kind = "allUp" =>
       Recorded(d) /\ Delivered(d) + net[M("evtUp", m.node, migShard[m.node])] = m.events
  /\ m.kind = "allDown" => Recorded(d) /\ Delivered(d) = m.events
  /\ m.kind \in {"allUp", "allDown"} => m.events = sent[migShard[d]]

\* Without a token the destination knows their number and one at least is still to come.
NoTokenFor(d) == \A m \in Msg : Token(m) => Destination(m) # d
Waits(d) == /\ Recorded(d) /\ nodeShard[d] = migShard[d]
            /\ processed[d] < total[d] /\ Delivered(d) = total[d] /\ total[d] = sent[migShard[d]]

\* User events are of the migration their node is marked with, and go to a destination
\* only between its origin's start of the transfer and the end.
EventsUp(n) == \A s \in Shards : net[M("evtUp", n, s)] > 0 => s = migShard[n]
EventsDown(d) == \A s \in Shards : net[M("evtDown", d, s)] > 0 =>
  /\ Moving(d) /\ s = migShard[d]
  /\ \A m \in Msg : Token(m) /\ Destination(m) = d => m.kind \in {"allUp", "allDown"}

\* What a node records runs there or is on its way to it; what runs is recorded, and is
\* reported or about to be.
RecordedRuns == \A n \in Nodes, s \in Shards :
  s \in nodeShards[n] => s \in gateway[n] \/ (Moving(n) /\ s = migShard[n])
RunsRecorded == \A n \in Nodes : gateway[n] \subseteq nodeShards[n]
RunsReported == \A n \in Nodes, s \in Shards :
  s \in gateway[n] => s \in running[n] \/ net[M("started", n, s)] > 0

EventsInv == /\ \A m \in Msg : Token(m) => TokenCounts(m)
             /\ \A d \in Nodes : Moving(d) /\ NoTokenFor(d) => Waits(d)
             /\ \A n \in Nodes : EventsUp(n) /\ EventsDown(n)
RunsInv == RecordedRuns /\ RunsRecorded /\ RunsReported
DeliveryInv == EventsInv /\ RunsInv

\* The shard travels with its session and its state.
TransferInv == MigrationInv /\ SessionInv /\ DeliveryInv

-----------------------------------------------------------------------------
(* Why one gateway per shard is kept although processes end and the        *)
(* monitor starts shards (CrashSpec).  Marks of a dead node stay for ever  *)
(* and a caller may still mark one, so that a mark says little by itself:  *)
(* what counts is a migration that a message carries on, a start message   *)
(* not included.  Nobody else opens the gateway of such a shard, and a     *)
(* shard that left its origin stays marked until it is open.               *)

Carriers == (FromTokens \cup ToTokens) \ {"started"}
Carries(m) == m.kind \in Carriers /\ net[m] > 0
Origin(m) == IF m.kind \in FromTokens THEN m.node ELSE other[m.node]
Ready(d) == Prepared(d) /\ session[d] = lastClosed[migShard[d]]

\* What message m tells of its migration.
Tells(m) ==
  LET d == Destination(m)
      n == Origin(m)
      s == migShard[d] IN
  /\ d \in Nodes /\ mode[d] = "to" /\ s \in Shards
  /\ m.kind \notin {"allUp", "allDown"} => m.shard = s
  /\ m.kind # "allDown" => n \in Nodes /\ Linked(n) /\ other[n] = d
  /\ IF m.kind = "prepFrom" THEN s \in gateway[n] /\ s \in running[n] ELSE Nowhere(s)
  /\ m.kind \in {"fromReady", "prepTo"} => m.session = lastClosed[s]
  /\ m.kind \in {"toReady", "startMig", "allUp", "allDown"} => Ready(d)
CarriersTell == \A m \in Msg : Carries(m) => Tells(m)
OneCarrier == \A m1 \in Msg : Carries(m1) =>
                /\ net[m1] = 1
                /\ \A m2 \in Msg : Carries(m2) /\ Destination(m1) = Destination(m2) => m1 = m2

\* The destination knows the number of user events, and one is under way.
Waiting(d) == total[d] # -1 /\ \E s \in Shards : net[M("evtDown", d, s)] > 0
Expects(d) == /\ mode[d] = "to" /\ migShard[d] \in Shards /\ Nowhere(migShard[d])
              /\ nodeShard[d] = migShard[d] /\ session[d] = lastClosed[migShard[d]]
              /\ \A m \in Msg : Carries(m) => Destination(m) # d
WaitingTells == \A d \in Nodes : Waiting(d) => Expects(d)

\* No two migrations of one shard go on.
Engaged(d) == Waiting(d) \/ \E m \in Msg : Carries(m) /\ Destination(m) = d
OneEngaged == \A d, e \in Nodes : Engaged(d) /\ Engaged(e) /\ migShard[d] = migShard[e] => d = e

MarkingAlive == \A c \in Callers : pc[c] = "markTo" =>
  LET n == call[c].from IN
  /\ mode[n] = "from" /\ other[n] = call[c].to /\ migShard[n] = call[c].shard
  /\ dead[n] \/ (call[c].shard \in gateway[n] /\ call[c].shard \in running[n])
  /\ \A e \in Callers : pc[e] = "markTo" /\ call[e].from = n => e = c

\* A node that ended has no connection, no gateway and no message.
Ends == /\ panics = {}
        /\ \A n \in Nodes : connected[n] = ~dead[n]
        /\ \A n \in Nodes : dead[n] => gateway[n] = {} /\ \A m \in Msg : m.node = n => net[m] = 0

\* What a living node is said to run is running there, or is just being closed; what is about
\* to be reported runs, and was not reported before.
ReportedAlive == \A n \in Nodes, s \in Shards : s \in running[n] /\ ~dead[n] =>
  s \in gateway[n] \/ \E x \in Sessions : net[WithSession("fromReady", n, s, x)] > 0
StartedOnce == \A n \in Nodes, s \in Shards :
  net[M("started", n, s)] > 0 => net[M("started", n, s)] = 1 /\ s \in gateway[n] /\ s \notin running[n]

\* The monitor starts a shard once, when it is nobody's and no migration of it goes on.
StartingAlone == \A n \in Nodes, s \in Shards : net[M("startShard", n, s)] > 0 =>
  /\ Nowhere(s) /\ ~InTransit(s) /\ net[M("startShard", n, s)] = 1
  /\ \A m \in Nodes : net[M("startShard", m, s)] > 0 => m = n
  /\ \A d \in Nodes : Engaged(d) => migShard[d] # s

TransitMarked == \A s \in Shards : InTransit(s) =>
  Nowhere(s) /\ \E d \in Nodes : mode[d] = "to" /\ migShard[d] = s

\* A migration that goes on has not resumed its shard yet.
MovesOn == \A d \in Nodes : Engaged(d) /\ Nowhere(migShard[d]) => InTransit(migShard[d])

CarryInv == OneCarrier /\ CarriersTell /\ WaitingTells /\ OneEngaged /\ EventsBeforeCount /\ MarkingAlive
StartInv == /\ Ends /\ OneGateway /\ ReportedAlive /\ RunsReported /\ StartedOnce
            /\ StartingAlone /\ TransitMarked /\ MovesOn
CrashInv == CarryInv /\ StartInv
OwnershipInv == CrashInv /\ SessionsOld

-----------------------------------------------------------------------------
(* Liveness.  Every connection has a goroutine that reads it, every call   *)
(* goes on once it holds the locks, and the monitor ticks every second.    *)

Fairness == WF_vars(NodeStep \/ OrchestratorStep) /\ WF_vars(\E c \in Callers : CallStep(c))
MonitorRuns == \A s \in Shards :
                 /\ WF_vars(\E n \in Nodes : MonitorStart(n, s))
                 /\ WF_vars(\E n \in Nodes : NodeStartShard(n, s))
FairCrashSpec == CrashSpec /\ Fairness /\ MonitorRuns

SomeDead == crashed \/ \E n \in Nodes : dead[n]

\* A shard that left its origin arrives, unless a process ends.
MigrationCompletes == \A s \in Shards : InTransit(s) ~> (~InTransit(s) \/ SomeDead)

\* No node stays busy, unless a process ends.
BusyEnds == \A n \in Nodes : mode[n] # "none" ~> (mode[n] = "none" \/ SomeDead)

Held(s) == \E n \in Nodes : s \in gateway[n]

\* The monitor brings back a shard that is nobody's and that nothing marks as migrating, while
\* connections hold as long as their node lives.  Marks of a node that ended stay, and keep their shard from
\* being started (monitor.go:119).
UnmarkedShardStarts == \A s \in Shards :
  ~Held(s) /\ ~MarkedMigrating(s) ~> (Held(s) \/ MarkedMigrating(s) \/ crashed)
=============================================================================
