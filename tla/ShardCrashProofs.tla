--------------------------- MODULE ShardCrashProofs ---------------------------
(***************************************************************************)
(* What shard migrations keep, for any number of nodes, shards, callers    *)
(* and user events, although bot processes end at any time and the monitor *)
(* starts shards that are nobody's (CrashSpec).  MigrationInv fails here:  *)
(* the marks of a dead node stay.  CrashInv takes its place, which says    *)
(* what the messages of a migration tell of it, and keeps the monitor and  *)
(* the migrations apart: no gateway is open on two nodes, a shard on its   *)
(* way is marked as such, and the protocol implements ShardOwnership!Spec. *)
(***************************************************************************)
EXTENDS ShardMigrationProofs

-----------------------------------------------------------------------------
(* Types.                                                                  *)

\* Every variable keeps to its type when processes end and shards are started.
LEMMA CrashTypeStep == TypeOK /\ [Next \/ CrashStep]_vars => TypeOK'
<1> SUFFICES ASSUME TypeOK, [Next \/ CrashStep]_vars PROVE TypeOK'
  OBVIOUS
<1>1. ASSUME NEW n \in Nodes, Die(n) PROVE TypeOK'
  BY <1>1, ShardAssumption DEF TypeOK, Die, Cut, callVars, transferVars
<1>2. ASSUME NEW n \in Nodes, NEW s \in Shards, MonitorStart(n, s) PROVE TypeOK'
  <2>1. net' \in [Msg -> Nat]
    BY <1>2, SendType DEF MonitorStart, TypeOK
  <2>2. QED
    BY <1>2, <2>1, ShardAssumption DEF TypeOK, MonitorStart, orchVars, callVars, transferVars, gatewayVars
<1>3. ASSUME NEW n \in Nodes, NEW s \in Shards, NodeStartShard(n, s) PROVE TypeOK'
  <2>1. net' \in [Msg -> Nat]
    BY <1>3, HandleType, MessageType DEF NodeStartShard, TypeOK, ToNodeKinds
  <2>2. lastClosed' \in [Shards -> Nat] /\ openedWith' \in [Shards -> Nat]
    <3>1. lastClosed \in [Shards -> Nat] /\ openedWith \in [Shards -> Nat]
      BY DEF TypeOK
    <3>2. QED
      BY <1>3, <3>1 DEF NodeStartShard
  <2>3. QED
    BY <1>3, <2>1, <2>2, ShardAssumption DEF TypeOK, NodeStartShard, orchVars, callVars, transferVars
<1>4. QED
  BY <1>1, <1>2, <1>3, TypeStep DEF CrashStep

\* The types are kept by every behaviour in which processes end.
THEOREM CrashTypeTheorem == CrashSpec => []TypeOK
BY TypeInit, CrashTypeStep, PTL DEF CrashSpec

-----------------------------------------------------------------------------
(* The network while nodes end.                                            *)

\* Which messages are in flight after m was handled and the messages of out were sent to
\* those nodes that are connected.
LEMMA AliveCounts ==
  ASSUME TypeOK, NEW m \in Msg, NEW out, m \notin out, Handle(m, out)
  PROVE /\ net[m] > 0
        /\ \A x \in Msg : net'[x] = IF x = m THEN net[x] - 1
                                    ELSE IF x \in out /\ connected[x.node] THEN net[x] + 1 ELSE net[x]
<1>1. \A x \in Msg : net[x] \in Nat
  BY DEF TypeOK
<1>2. QED
  BY <1>1 DEF Handle, One

\* Message m is handled and its successor sent: the migration has one carrier at most, and
\* the other migrations keep theirs.
LEMMA PassCarrier ==
  ASSUME TypeOK, OneCarrier, other' = other,
         NEW m \in Msg, m.kind \in Carriers,
         NEW out, m \notin out,
         \A x, y \in out : x = y,
         \A x \in out : x.kind \in Carriers /\ Destination(x) = Destination(m),
         Handle(m, out)
  PROVE /\ OneCarrier' /\ Carries(m)
        /\ \A x \in Msg : Carries(x)' =>
             \/ x \in out
             \/ Carries(x) /\ x # m /\ Destination(x) # Destination(m)
        /\ \A x \in Msg : Carries(x) /\ x # m => Carries(x)'
        /\ \A x \in Msg : x.kind \notin Carriers => net'[x] = net[x]
        /\ \A x \in Msg : net'[x] > 0 => net[x] > 0 \/ connected[x.node]
<1>1. /\ net[m] > 0
      /\ \A x \in Msg : net'[x] = IF x = m THEN net[x] - 1
                                  ELSE IF x \in out /\ connected[x.node] THEN net[x] + 1 ELSE net[x]
  BY AliveCounts
<1>2. Carries(m) /\ net[m] = 1
  BY <1>1 DEF Carries, OneCarrier
<1>3. \A x \in Msg : Carries(x) /\ x # m => Destination(x) # Destination(m)
  BY <1>2 DEF OneCarrier
<1>4. \A x \in Msg : net[x] \in Nat
  BY DEF TypeOK
<1>5. \A x \in Msg : x \in out => net[x] = 0
  BY <1>3, <1>4 DEF Carries
<1>6. \A x \in Msg : Destination(x)' = Destination(x)
  BY DEF Destination
<1>7. ASSUME NEW x \in Msg, Carries(x)' PROVE net'[x] = 1 /\ (x \in out \/ (Carries(x) /\ x # m))
  BY <1>1, <1>2, <1>4, <1>5, <1>7 DEF Carries, OneCarrier
<1>8. ASSUME NEW x \in Msg, Carries(x)', NEW y \in Msg, Carries(y)', Destination(x) = Destination(y)
      PROVE x = y
  BY <1>3, <1>7, <1>8 DEF OneCarrier
<1>9. /\ \A x \in Msg : Carries(x) /\ x # m => Carries(x)'
      /\ \A x \in Msg : x.kind \notin Carriers => net'[x] = net[x]
      /\ \A x \in Msg : net'[x] > 0 => net[x] > 0 \/ connected[x.node]
  <2>1. \A x \in Msg : x # m => net'[x] = net[x] \/ (net'[x] = net[x] + 1 /\ x \in out /\ connected[x.node])
    BY <1>1
  <2>2. \A x \in Msg : net[x] > 0 /\ x # m => net'[x] > 0
    BY <1>4, <2>1
  <2>3. QED
    BY <1>2, <1>4, <2>1, <2>2 DEF Carries
<1>10. OneCarrier'
  BY <1>6, <1>7, <1>8 DEF OneCarrier
<1>11. QED
  BY <1>2, <1>3, <1>7, <1>9, <1>10

\* What a message tells stays true as long as its migration is left alone.
LEMMA TellsKept ==
  ASSUME NEW x \in Msg, x.kind \in Carriers, Tells(x),
         NEW d, d = Destination(x), NEW n, n = Origin(x), NEW s, s = migShard[d],
         other'[d] = other[d], mode'[d] = mode[d], migShard'[d] = migShard[d],
         x.kind # "allDown" => Linked(n)' /\ other'[n] = other[n],
         IF x.kind = "prepFrom" THEN s \in gateway'[n] /\ s \in running'[n]
                                ELSE Nowhere(s)' /\ lastClosed'[s] = lastClosed[s],
         x.kind \in {"toReady", "startMig", "allUp", "allDown"} =>
           nodeShard'[d] = nodeShard[d] /\ total'[d] = total[d] /\ session'[d] = session[d]
  PROVE  Tells(x)' /\ Destination(x)' = Destination(x)
<1>1. Destination(x)' = d /\ Origin(x)' = n
  BY DEF Destination, Origin, Tells, Carriers, FromTokens, ToTokens
<1>2. /\ d \in Nodes /\ mode'[d] = "to" /\ s \in Shards /\ migShard'[d] = s
      /\ x.kind \notin {"allUp", "allDown"} => x.shard = s
      /\ x.kind # "allDown" => n \in Nodes /\ other[n] = d
      /\ x.kind \in {"fromReady", "prepTo"} => x.session = lastClosed[s]
      /\ x.kind \in {"toReady", "startMig", "allUp", "allDown"} => Ready(d)
  BY DEF Tells
<1>3. x.kind \in {"toReady", "startMig", "allUp", "allDown"} => Ready(d)'
  BY <1>2 DEF Ready, Prepared
<1>4. QED
  BY <1>1, <1>2, <1>3 DEF Tells

\* Whoever is engaged stays with its migration, if marks stay and nobody else gets engaged.
EngagedOn == \A d \in Nodes : Engaged(d)' => Engaged(d) /\ migShard'[d] = migShard[d]

\* If no migration begins to go on, still no two of one shard do.
LEMMA OneEngagedKept == ASSUME OneEngaged, EngagedOn PROVE OneEngaged'
  BY DEF OneEngaged, EngagedOn

\* A step that touches neither marks nor gateways, and of the migrations that go on only the
\* one to d0.
LEMMA QuietAlive ==
  ASSUME TypeOK, CrashInv, TypeOK',
         UNCHANGED <<mode, other, migShard, gateway, lastClosed, openedWith, connected, dead, panics>>,
         \A c \in Callers : pc'[c] = "markTo" => pc[c] = "markTo" /\ call'[c] = call[c],
         NEW d0,
         \A d \in Nodes : d # d0 => /\ nodeShard'[d] = nodeShard[d] /\ total'[d] = total[d]
                                    /\ session'[d] = session[d],
         OneCarrier',
         \A x \in Msg : Carries(x)' => \/ Carries(x) /\ Destination(x) # d0
                                       \/ Destination(x) = d0 /\ Engaged(d0) /\ Tells(x)',
         \A d \in Nodes : Waiting(d)' => \/ Waiting(d) /\ d # d0
                                         \/ d = d0 /\ Engaged(d) /\ Expects(d)',
         \A k \in {"started", "startShard"}, n \in Nodes, s \in Shards : net'[M(k, n, s)] = net[M(k, n, s)],
         \A x \in Msg : net'[x] > 0 => net[x] > 0 \/ connected[x.node],
         EventsBeforeCount', ReportedAlive',
         \A n \in Nodes : running'[n] \subseteq running[n],
         \A n \in Nodes : \A s \in running[n] : s \in running'[n] \/ Nowhere(s)
  PROVE  CrashInv'
<1>1. /\ \A t : Nowhere(t)' = Nowhere(t)
      /\ \A t : InTransit(t)' = InTransit(t)
      /\ \A a : Linked(a) => Linked(a)'
      /\ \A x : Destination(x)' = Destination(x)
  BY DEF Nowhere, InTransit, Linked, Destination
<1>2. \A n \in Nodes : \A s \in running[n] : s \in gateway[n] => s \in running'[n]
  BY DEF Nowhere
<1>3. CarriersTell'
  <2> SUFFICES ASSUME NEW x \in Msg, Carries(x), Destination(x) # d0 PROVE Tells(x)'
    BY DEF CarriersTell
  <2>1. Tells(x) /\ x.kind \in Carriers
    BY DEF CrashInv, CarryInv, CarriersTell, Carries
  <2>0. PICK d, n, t : d = Destination(x) /\ n = Origin(x) /\ t = migShard[d]
    OBVIOUS
  <2>2. /\ d \in Nodes /\ (x.kind # "allDown" => n \in Nodes /\ Linked(n))
        /\ IF x.kind = "prepFrom" THEN t \in gateway[n] /\ t \in running[n] ELSE Nowhere(t)
    BY <2>0, <2>1 DEF Tells
  <2>3. /\ x.kind # "allDown" => Linked(n)' /\ other'[n] = other[n]
        /\ x.kind = "prepFrom" => n \in Nodes
    BY <1>1, <2>2
  <2>4. IF x.kind = "prepFrom" THEN t \in gateway'[n] /\ t \in running'[n]
                               ELSE Nowhere(t)' /\ lastClosed'[t] = lastClosed[t]
    BY <1>1, <1>2, <2>2, <2>3
  <2>5. /\ other'[d] = other[d] /\ mode'[d] = mode[d] /\ migShard'[d] = migShard[d]
        /\ nodeShard'[d] = nodeShard[d] /\ total'[d] = total[d] /\ session'[d] = session[d]
    BY <2>0, <2>2
  <2>6. QED
    BY <2>0, <2>1, <2>3, <2>4, <2>5, TellsKept
<1>4. EngagedOn
  BY <1>1 DEF EngagedOn, Engaged
<1>5. WaitingTells'
  <2> SUFFICES ASSUME NEW d \in Nodes, Waiting(d), d # d0 PROVE Expects(d)'
    BY DEF WaitingTells
  <2>1. Expects(d)
    BY DEF CrashInv, CarryInv, WaitingTells
  <2>2. QED
    BY <1>1, <2>1 DEF Expects
<1>6. OneEngaged'
  BY <1>4, OneEngagedKept DEF CrashInv, CarryInv
<1>7. MarkingAlive'
  <2>1. \A c \in Callers : pc[c] = "markTo" => call[c].from \in Nodes
    BY DEF TypeOK, Call
  <2>2. QED
    BY <1>2, <2>1 DEF MarkingAlive, CrashInv, CarryInv
<1>8. Ends'
  <2>1. \A n \in Nodes : \A x \in Msg : x.node = n /\ dead[n] => net'[x] = 0
    <3> SUFFICES ASSUME NEW n \in Nodes, NEW x \in Msg, x.node = n, dead[n] PROVE net'[x] = 0
      OBVIOUS
    <3>1. net[x] = 0 /\ ~connected[n] /\ net'[x] \in Nat
      BY DEF Ends, CrashInv, StartInv, TypeOK
    <3>2. QED
      BY <3>1
  <2>2. QED
    BY <2>1 DEF Ends, CrashInv, StartInv
<1>9. OneGateway' /\ TransitMarked'
  BY <1>1 DEF OneGateway, TransitMarked, CrashInv, StartInv
<1>10. RunsReported' /\ StartedOnce'
  BY <1>2 DEF RunsReported, StartedOnce, CrashInv, StartInv
<1>11. StartingAlone' /\ MovesOn'
  BY <1>1, <1>4 DEF StartingAlone, MovesOn, EngagedOn, CrashInv, StartInv
<1>12. QED
  BY <1>3, <1>5, <1>6, <1>7, <1>8, <1>9, <1>10, <1>11 DEF CrashInv, CarryInv, StartInv

\* The messages that carry a migration, kind by kind, and those that do not.
LEMMA CarrierMessages ==
  /\ \A k \in {"prepFrom", "startMig", "toReady"}, a \in Nodes, t \in Shards :
       LET x == M(k, a, t) IN
       /\ x \in Msg /\ x.kind = k /\ x.node = a /\ x.shard = t /\ k \in Carriers
       /\ Destination(x) = IF k = "toReady" THEN a ELSE other[a]
       /\ Origin(x) = IF k = "toReady" THEN other[a] ELSE a
  /\ \A k \in {"fromReady", "prepTo"}, a \in Nodes, t \in Shards, y \in Sessions :
       LET x == WithSession(k, a, t, y) IN
       /\ x \in Msg /\ x.kind = k /\ x.node = a /\ x.shard = t /\ x.session = y /\ k \in Carriers
       /\ Destination(x) = IF k = "fromReady" THEN other[a] ELSE a
       /\ Origin(x) = IF k = "fromReady" THEN a ELSE other[a]
  /\ \A k \in {"allUp", "allDown"}, a \in Nodes, j \in 0 .. MaxEvents :
       LET x == WithCount(k, a, j) IN
       /\ x \in Msg /\ x.kind = k /\ x.node = a /\ k \in Carriers
       /\ Destination(x) = IF k = "allUp" THEN other[a] ELSE a
       /\ Origin(x) = IF k = "allUp" THEN a ELSE other[a]
  /\ \A k \in {"evtUp", "evtDown", "started", "startShard"}, a \in Nodes, t \in Shards :
       M(k, a, t) \in Msg /\ M(k, a, t).kind = k /\ M(k, a, t).node = a /\ k \notin Carriers
<1>1. ASSUME NEW k \in {"prepFrom", "startMig", "toReady"}, NEW a \in Nodes, NEW t \in Shards
      PROVE LET x == M(k, a, t) IN
            /\ x \in Msg /\ x.kind = k /\ x.node = a /\ x.shard = t /\ k \in Carriers
            /\ Destination(x) = IF k = "toReady" THEN a ELSE other[a]
            /\ Origin(x) = IF k = "toReady" THEN other[a] ELSE a
  BY MessageType
  DEF M, Carriers, FromTokens, ToTokens, ToNodeKinds, FromNodeKinds, Destination, Origin
<1>2. ASSUME NEW k \in {"fromReady", "prepTo"}, NEW a \in Nodes, NEW t \in Shards, NEW y \in Sessions
      PROVE LET x == WithSession(k, a, t, y) IN
            /\ x \in Msg /\ x.kind = k /\ x.node = a /\ x.shard = t /\ x.session = y /\ k \in Carriers
            /\ Destination(x) = IF k = "fromReady" THEN other[a] ELSE a
            /\ Origin(x) = IF k = "fromReady" THEN a ELSE other[a]
  BY MessageType DEF WithSession, Carriers, FromTokens, ToTokens, Destination, Origin
<1>3. ASSUME NEW k \in {"allUp", "allDown"}, NEW a \in Nodes, NEW j \in 0 .. MaxEvents
      PROVE LET x == WithCount(k, a, j) IN
            /\ x \in Msg /\ x.kind = k /\ x.node = a /\ k \in Carriers
            /\ Destination(x) = IF k = "allUp" THEN other[a] ELSE a
            /\ Origin(x) = IF k = "allUp" THEN a ELSE other[a]
  BY MessageType DEF WithCount, Carriers, FromTokens, ToTokens, Destination, Origin
<1>4. ASSUME NEW k \in {"evtUp", "evtDown", "started", "startShard"}, NEW a \in Nodes, NEW t \in Shards
      PROVE M(k, a, t) \in Msg /\ M(k, a, t).kind = k /\ M(k, a, t).node = a /\ k \notin Carriers
  BY MessageType DEF M, Carriers, FromTokens, ToTokens, ToNodeKinds, FromNodeKinds
<1>5. QED
  BY <1>1, <1>2, <1>3, <1>4

-----------------------------------------------------------------------------
(* The steps that pass a migration on.                                     *)

\* The destination keeps the session.
LEMMA PrepareToAlive ==
  ASSUME TypeOK, CrashInv, TypeOK', NEW n \in Nodes, NEW s \in Shards, NEW x0 \in Sessions,
         PrepareTo(n, s, x0)
  PROVE  CrashInv'
<1> DEFINE m == WithSession("prepTo", n, s, x0)
           w == M("toReady", n, s)
<1>1. /\ m \in Msg /\ m.kind = "prepTo" /\ m.kind \in Carriers /\ m.shard = s /\ m.session = x0
      /\ Destination(m) = n /\ Origin(m) = other[n]
      /\ w \in Msg /\ w.kind = "toReady" /\ w.kind \in Carriers /\ w.shard = s
      /\ Destination(w) = n /\ Origin(w) = other[n]
  BY CarrierMessages
<1> HIDE DEF m, w
<1>2. Handle(m, {w}) /\ net[m] > 0
  BY DEF PrepareTo, Handle, m, w
<1>3. /\ UNCHANGED <<connected, running, mode, other, migShard, pc, call, gateway, dead, panics,
                     lastClosed, openedWith>>
      /\ session' = [session EXCEPT ![n] = x0] /\ nodeShard' = [nodeShard EXCEPT ![n] = s]
      /\ total' = [total EXCEPT ![n] = -1]
  BY DEF PrepareTo, orchVars, callVars, gatewayVars
<1>4. Tells(m)
  BY <1>1, <1>2 DEF CrashInv, CarryInv, CarriersTell, Carries
<1>5. /\ OneCarrier' /\ Carries(m)
      /\ \A x \in Msg : Carries(x)' => x = w \/ (Carries(x) /\ x # m /\ Destination(x) # n)
      /\ \A x \in Msg : Carries(x) /\ x # m => Carries(x)'
      /\ \A x \in Msg : x.kind \notin Carriers => net'[x] = net[x]
      /\ \A x \in Msg : net'[x] > 0 => net[x] > 0 \/ connected[x.node]
  BY <1>1, <1>2, <1>3, PassCarrier DEF CrashInv, CarryInv
<1>6. /\ mode[n] = "to" /\ migShard[n] = s /\ Nowhere(s) /\ x0 = lastClosed[s]
      /\ other[n] \in Nodes /\ Linked(other[n]) /\ other[other[n]] = n
  BY <1>1, <1>4 DEF Tells
<1>7. Linked(other[n])' /\ Nowhere(s)' /\ Ready(n)' /\ Destination(w)' = n /\ Origin(w)' = other[n]
  BY <1>1, <1>3, <1>6 DEF Linked, Nowhere, Ready, Prepared, Destination, Origin, TypeOK
<1>8. Tells(w)'
  BY <1>1, <1>3, <1>6, <1>7 DEF Tells
<1>9. /\ \A k \in {"evtUp", "evtDown", "started", "startShard"}, a \in Nodes, t \in Shards :
           net'[M(k, a, t)] = net[M(k, a, t)]
      /\ \A a \in Nodes, j \in 0 .. MaxEvents :
           net[WithCount("allUp", a, j)] > 0 => net'[WithCount("allUp", a, j)] > 0
      /\ \A a \in Nodes, t \in Shards, x \in Sessions :
           net[WithSession("fromReady", a, t, x)] > 0 => net'[WithSession("fromReady", a, t, x)] > 0
  BY <1>1, <1>5, CarrierMessages DEF Carries
<1>10. EventsBeforeCount' /\ ReportedAlive'
  BY <1>3, <1>9 DEF EventsBeforeCount, ReportedAlive, CrashInv, CarryInv, StartInv
<1>11. \A d \in Nodes : Waiting(d)' => Waiting(d) /\ d # n
  BY <1>3, <1>9 DEF Waiting, TypeOK
<1>12. \A d \in Nodes : d # n => /\ nodeShard'[d] = nodeShard[d] /\ total'[d] = total[d]
                                 /\ session'[d] = session[d]
  BY <1>3 DEF TypeOK
<1>13. Engaged(n)
  BY <1>1, <1>5 DEF Engaged
<1>14. QED
  BY <1>1, <1>3, <1>5, <1>8, <1>9, <1>10, <1>11, <1>12, <1>13, QuietAlive

\* The orchestrator takes the shard from the origin and passes the session on.
LEMMA OnFromReadyAlive ==
  ASSUME TypeOK, CrashInv, TypeOK', NEW n \in Nodes, NEW s \in Shards, NEW x0 \in Sessions,
         OnFromReady(n, s, x0)
  PROVE  CrashInv'
<1>0. PICK d : d = other[n]
  OBVIOUS
<1> DEFINE m == WithSession("fromReady", n, s, x0)
           w == WithSession("prepTo", d, s, x0)
<1>1. /\ m \in Msg /\ m.kind = "fromReady" /\ m.kind \in Carriers /\ m.shard = s /\ m.session = x0
      /\ Destination(m) = d /\ Origin(m) = n
  BY <1>0, CarrierMessages
<1>2. net[m] > 0
  BY DEF OnFromReady, Forward, Handle
<1>3. Tells(m)
  BY <1>1, <1>2 DEF CrashInv, CarryInv, CarriersTell, Carries
<1>4. /\ d \in Nodes /\ mode[d] = "to" /\ migShard[d] = s /\ Nowhere(s) /\ x0 = lastClosed[s]
      /\ Linked(n) /\ other[d] = n /\ d # NoNode
  BY <1>0, <1>1, <1>3, ShardAssumption DEF Tells, Linked
<1>5. /\ w \in Msg /\ w.kind = "prepTo" /\ w.kind \in Carriers /\ w.shard = s /\ w.session = x0
      /\ Destination(w) = d /\ Origin(w) = n /\ w.node = d
  BY <1>4, CarrierMessages
<1> HIDE DEF m, w
<1>6. Handle(m, {w})
  BY <1>0, <1>4 DEF OnFromReady, Forward, m, w
<1>7. /\ UNCHANGED <<connected, mode, other, migShard, pc, call, gateway, dead, panics, lastClosed,
                     openedWith, session, nodeShard, total>>
      /\ running' = [running EXCEPT ![n] = @ \ {s}]
  BY <1>0, <1>4 DEF OnFromReady, callVars, gatewayVars, transferVars
<1>8. /\ OneCarrier' /\ Carries(m)
      /\ \A x \in Msg : Carries(x)' => x = w \/ (Carries(x) /\ x # m /\ Destination(x) # d)
      /\ \A x \in Msg : Carries(x) /\ x # m => Carries(x)'
      /\ \A x \in Msg : x.kind \notin Carriers => net'[x] = net[x]
      /\ \A x \in Msg : net'[x] > 0 => net[x] > 0 \/ connected[x.node]
  BY <1>1, <1>5, <1>6, <1>7, PassCarrier DEF CrashInv, CarryInv
<1>9. Linked(n)' /\ Nowhere(s)' /\ Destination(w)' = d /\ Origin(w)' = n
  BY <1>4, <1>5, <1>7 DEF Linked, Nowhere, Destination, Origin
<1>10. Tells(w)'
  BY <1>0, <1>4, <1>5, <1>7, <1>9 DEF Tells
<1>11. /\ \A k \in {"evtUp", "evtDown", "started", "startShard"}, a \in Nodes, t \in Shards :
            net'[M(k, a, t)] = net[M(k, a, t)]
       /\ \A a \in Nodes, j \in 0 .. MaxEvents :
            net[WithCount("allUp", a, j)] > 0 => net'[WithCount("allUp", a, j)] > 0
       /\ \A a \in Nodes, t \in Shards, x \in Sessions :
            net[WithSession("fromReady", a, t, x)] > 0 /\ (a # n \/ t # s) =>
              net'[WithSession("fromReady", a, t, x)] > 0
  BY <1>1, <1>8, CarrierMessages, SameMessage DEF Carries, m
<1>12. EventsBeforeCount'
  BY <1>11 DEF EventsBeforeCount, CrashInv, CarryInv
<1>13. ReportedAlive'
  BY <1>7, <1>11 DEF ReportedAlive, CrashInv, StartInv, TypeOK
<1>14. \A a \in Nodes : Waiting(a)' => Waiting(a) /\ a # d
  <2>1. ~Waiting(d)
    BY <1>1, <1>4, <1>8 DEF CrashInv, CarryInv, WaitingTells, Expects
  <2>2. \A a \in Nodes : Waiting(a)' = Waiting(a)
    BY <1>7, <1>11 DEF Waiting
  <2>3. QED
    BY <2>1, <2>2
<1>15. Engaged(d) /\ (\A a \in Nodes : running'[a] \subseteq running[a])
       /\ \A a \in Nodes : \A t \in running[a] : t \in running'[a] \/ Nowhere(t)
  BY <1>1, <1>4, <1>7, <1>8 DEF Engaged, TypeOK
<1>16. QED
  BY <1>5, <1>7, <1>8, <1>10, <1>11, <1>12, <1>13, <1>14, <1>15, QuietAlive

\* The destination is ready, and the origin told to send the shard's state.
LEMMA OnToReadyAlive ==
  ASSUME TypeOK, CrashInv, TypeOK', NEW n \in Nodes, NEW s \in Shards, OnToReady(n, s)
  PROVE  CrashInv'
<1>0. PICK o : o = other[n]
  OBVIOUS
<1> DEFINE m == M("toReady", n, s)
           w == M("startMig", o, s)
<1>1. /\ m \in Msg /\ m.kind = "toReady" /\ m.kind \in Carriers /\ m.shard = s
      /\ Destination(m) = n /\ Origin(m) = o
  BY <1>0, CarrierMessages
<1>2. net[m] > 0
  BY DEF OnToReady, Forward, Handle
<1>3. Tells(m)
  BY <1>1, <1>2 DEF CrashInv, CarryInv, CarriersTell, Carries
<1>4. /\ mode[n] = "to" /\ migShard[n] = s /\ Nowhere(s) /\ Ready(n)
      /\ o \in Nodes /\ Linked(o) /\ other[o] = n /\ o # NoNode
  BY <1>0, <1>1, <1>3, ShardAssumption DEF Tells
<1>5. /\ w \in Msg /\ w.kind = "startMig" /\ w.kind \in Carriers /\ w.shard = s
      /\ Destination(w) = n /\ Origin(w) = o
  BY <1>4, CarrierMessages
<1> HIDE DEF m, w
<1>6. Handle(m, {w})
  BY <1>0, <1>4 DEF OnToReady, Forward, m, w
<1>7. UNCHANGED <<connected, running, mode, other, migShard, pc, call, gateway, dead, panics, lastClosed,
                  openedWith, session, nodeShard, total>>
  BY DEF OnToReady, orchVars, callVars, gatewayVars, transferVars
<1>8. /\ OneCarrier' /\ Carries(m)
      /\ \A x \in Msg : Carries(x)' => x = w \/ (Carries(x) /\ x # m /\ Destination(x) # n)
      /\ \A x \in Msg : Carries(x) /\ x # m => Carries(x)'
      /\ \A x \in Msg : x.kind \notin Carriers => net'[x] = net[x]
      /\ \A x \in Msg : net'[x] > 0 => net[x] > 0 \/ connected[x.node]
  BY <1>1, <1>5, <1>6, <1>7, PassCarrier DEF CrashInv, CarryInv
<1>9. Linked(o)' /\ Nowhere(s)' /\ Ready(n)' /\ Destination(w)' = n /\ Origin(w)' = o
  BY <1>4, <1>5, <1>7 DEF Linked, Nowhere, Ready, Prepared, Destination, Origin
<1>10. Tells(w)'
  BY <1>4, <1>5, <1>7, <1>9 DEF Tells
<1>11. /\ \A k \in {"evtUp", "evtDown", "started", "startShard"}, a \in Nodes, t \in Shards :
            net'[M(k, a, t)] = net[M(k, a, t)]
       /\ \A a \in Nodes, j \in 0 .. MaxEvents :
            net[WithCount("allUp", a, j)] > 0 => net'[WithCount("allUp", a, j)] > 0
       /\ \A a \in Nodes, t \in Shards, x \in Sessions :
            net[WithSession("fromReady", a, t, x)] > 0 => net'[WithSession("fromReady", a, t, x)] > 0
  BY <1>1, <1>8, CarrierMessages DEF Carries
<1>12. EventsBeforeCount' /\ ReportedAlive'
  BY <1>7, <1>11 DEF EventsBeforeCount, ReportedAlive, CrashInv, CarryInv, StartInv
<1>13. \A a \in Nodes : Waiting(a)' => Waiting(a) /\ a # n
  <2>1. ~Waiting(n)
    BY <1>1, <1>4, <1>8 DEF CrashInv, CarryInv, WaitingTells, Expects
  <2>2. \A a \in Nodes : Waiting(a)' = Waiting(a)
    BY <1>7, <1>11 DEF Waiting
  <2>3. QED
    BY <2>1, <2>2
<1>14. Engaged(n)
  BY <1>1, <1>8 DEF Engaged
<1>15. QED
  BY <1>5, <1>7, <1>8, <1>10, <1>11, <1>12, <1>13, <1>14, QuietAlive

\* The number of user events is known before the last of them has come.
LEMMA AllUserdataSentAlive ==
  ASSUME TypeOK, CrashInv, TypeOK', NEW n \in Nodes, NEW k0 \in 0 .. MaxEvents, AllUserdataSent(n, k0)
  PROVE  CrashInv'
<1> DEFINE m == WithCount("allDown", n, k0)
<1>1. m \in Msg /\ m.kind = "allDown" /\ m.kind \in Carriers /\ Destination(m) = n
  BY CarrierMessages
<1> HIDE DEF m
<1>2. Handle(m, {}) /\ net[m] > 0
  BY DEF AllUserdataSent, Handle, m
<1>3. Tells(m)
  BY <1>1, <1>2 DEF CrashInv, CarryInv, CarriersTell, Carries
<1>4. mode[n] = "to" /\ migShard[n] \in Shards /\ Nowhere(migShard[n]) /\ Ready(n)
  BY <1>1, <1>3 DEF Tells
<1>5. /\ UNCHANGED <<connected, running, mode, other, migShard, pc, call, gateway, dead, panics, lastClosed,
                     openedWith, session, nodeShard>>
      /\ total' = [total EXCEPT ![n] = k0]
  BY DEF AllUserdataSent, orchVars, callVars, gatewayVars
<1>6. /\ OneCarrier' /\ Carries(m)
      /\ \A x \in Msg : Carries(x)' => Carries(x) /\ x # m /\ Destination(x) # n
      /\ \A x \in Msg : Carries(x) /\ x # m => Carries(x)'
      /\ \A x \in Msg : x.kind \notin Carriers => net'[x] = net[x]
      /\ \A x \in Msg : net'[x] > 0 => net[x] > 0 \/ connected[x.node]
  BY <1>1, <1>2, <1>5, PassCarrier DEF CrashInv, CarryInv
<1>7. Expects(n)'
  <2>1. \A x : Destination(x)' = Destination(x)
    BY <1>5 DEF Destination
  <2>2. QED
    BY <1>4, <1>5, <1>6, <2>1 DEF Expects, Ready, Prepared, Nowhere
<1>8. /\ \A k \in {"evtUp", "evtDown", "started", "startShard"}, a \in Nodes, t \in Shards :
           net'[M(k, a, t)] = net[M(k, a, t)]
      /\ \A a \in Nodes, j \in 0 .. MaxEvents :
           net[WithCount("allUp", a, j)] > 0 => net'[WithCount("allUp", a, j)] > 0
      /\ \A a \in Nodes, t \in Shards, x \in Sessions :
           net[WithSession("fromReady", a, t, x)] > 0 => net'[WithSession("fromReady", a, t, x)] > 0
  BY <1>1, <1>6, CarrierMessages DEF Carries
<1>9. EventsBeforeCount' /\ ReportedAlive'
  BY <1>5, <1>8 DEF EventsBeforeCount, ReportedAlive, CrashInv, CarryInv, StartInv
<1>10. Engaged(n)
  BY <1>1, <1>6 DEF Engaged
<1>11. \A d \in Nodes : d # n => /\ nodeShard'[d] = nodeShard[d] /\ total'[d] = total[d]
                                 /\ session'[d] = session[d]
  BY <1>5 DEF TypeOK
<1>12. \A a \in Nodes : a # n => Waiting(a)' = Waiting(a)
  BY <1>8, <1>11 DEF Waiting
<1>13. QED
  BY <1>5, <1>6, <1>7, <1>8, <1>9, <1>10, <1>11, <1>12, QuietAlive

-----------------------------------------------------------------------------
(* The steps that leave every migration as it is.                          *)

\* Only user events and callers that do not mark yet are concerned.
LEMMA BystanderAlive ==
  ASSUME TypeOK, CrashInv, TypeOK',
         UNCHANGED <<mode, other, migShard, gateway, lastClosed, openedWith, connected, dead, panics,
                     running, nodeShard, total, session>>,
         \A c \in Callers : pc'[c] = "markTo" => pc[c] = "markTo" /\ call'[c] = call[c],
         \A x \in Msg : x.kind \notin {"evtUp", "evtDown"} => net'[x] = net[x],
         \A a \in Nodes, t \in Shards :
           /\ net'[M("evtUp", a, t)] > 0 => net[M("evtUp", a, t)] > 0
           /\ net'[M("evtDown", a, t)] > 0 => net[M("evtDown", a, t)] > 0 \/ (total[a] = -1 /\ connected[a])
  PROVE  CrashInv'
<1>1. \A x \in Msg : x.kind \in Carriers => x.kind \notin {"evtUp", "evtDown"}
  BY DEF Carriers, FromTokens, ToTokens
<1>2. /\ \A x \in Msg : Destination(x)' = Destination(x)
      /\ \A x \in Msg : Carries(x)' = Carries(x)
      /\ \A x \in Msg : Carries(x) => net'[x] = net[x]
  BY <1>1 DEF Destination, Carries
<1>3. OneCarrier'
  BY <1>2 DEF OneCarrier, CrashInv, CarryInv
<1>4. \A x \in Msg : Carries(x)' => Carries(x) /\ Destination(x) # NoNode
  BY <1>2, ShardAssumption DEF CrashInv, CarryInv, CarriersTell, Tells
<1>5. \A d \in Nodes : Waiting(d)' => Waiting(d) /\ d # NoNode
  BY ShardAssumption DEF Waiting
<1>6. /\ \A k \in {"started", "startShard"}, a \in Nodes, t \in Shards : net'[M(k, a, t)] = net[M(k, a, t)]
      /\ \A a \in Nodes, j \in 0 .. MaxEvents : net'[WithCount("allUp", a, j)] = net[WithCount("allUp", a, j)]
      /\ \A a \in Nodes, t \in Shards, x \in Sessions :
           net'[WithSession("fromReady", a, t, x)] = net[WithSession("fromReady", a, t, x)]
  BY CarrierMessages
<1>7. EventsBeforeCount' /\ ReportedAlive'
  BY <1>6 DEF EventsBeforeCount, ReportedAlive, CrashInv, CarryInv, StartInv
<1>8. \A x \in Msg : net'[x] > 0 => net[x] > 0 \/ connected[x.node]
  <2> SUFFICES ASSUME NEW x \in Msg, x.kind \in {"evtUp", "evtDown"}, net'[x] > 0
               PROVE  net[x] > 0 \/ connected[x.node]
    OBVIOUS
  <2>1. x \in [kind : ToNodeKinds \cup FromNodeKinds, node : Nodes, shard : Shards]
    BY DEF Msg
  <2>2. x = M(x.kind, x.node, x.shard) /\ x.node \in Nodes /\ x.shard \in Shards
    BY <2>1 DEF M
  <2>3. QED
    BY <2>2
<1>9. QED
  BY <1>3, <1>4, <1>5, <1>6, <1>7, <1>8, QuietAlive

\* A caller finds the origin, or is refused.
LEMMA UnmarkedCallAlive ==
  ASSUME TypeOK, CrashInv, TypeOK', NEW c \in Callers,
         RefuseFrom(c) \/ \E n, to \in Nodes, s \in Shards : FindOrigin(c, n, to, s)
  PROVE  CrashInv'
<1>1. /\ UNCHANGED <<mode, other, migShard, gateway, lastClosed, openedWith, connected, dead, panics,
                     running, nodeShard, total, session, net>>
      /\ \A e \in Callers : pc'[e] = "markTo" => pc[e] = "markTo" /\ call'[e] = call[e]
  BY DEF RefuseFrom, FindOrigin, orchVars, transferVars, gatewayVars, TypeOK
<1>2. QED
  BY <1>1, BystanderAlive

\* Nothing happens.
LEMMA StutterAlive ==
  ASSUME TypeOK, CrashInv, TypeOK', UNCHANGED vars
  PROVE  CrashInv'
<1>1. UNCHANGED <<mode, other, migShard, gateway, lastClosed, openedWith, connected, dead, panics,
                  running, nodeShard, total, session, net, pc, call>>
  BY DEF vars, orchVars, callVars, transferVars, gatewayVars
<1>2. QED
  BY <1>1, BystanderAlive

\* A user event is passed on while its number has not been: the destination does not know it.
LEMMA OnUserEventAlive ==
  ASSUME TypeOK, CrashInv, TypeOK', NEW n \in Nodes, NEW s \in Shards, OnUserEvent(n, s)
  PROVE  CrashInv'
<1>0. PICK d : d = other[n]
  OBVIOUS
<1> DEFINE m == M("evtUp", n, s)
           w == M("evtDown", d, s)
<1>1. net[m] > 0
  BY DEF OnUserEvent, Forward, Handle
<1>2. PICK j \in 0 .. MaxEvents : net[WithCount("allUp", n, j)] > 0
  BY <1>1 DEF CrashInv, CarryInv, EventsBeforeCount
<1>3. Tells(WithCount("allUp", n, j)) /\ Destination(WithCount("allUp", n, j)) = d
  BY <1>0, <1>2, CarrierMessages DEF CrashInv, CarryInv, CarriersTell, Carries
<1>4. d \in Nodes /\ total[d] = -1 /\ d # NoNode
  BY <1>3, CarrierMessages, ShardAssumption DEF Tells, Ready, Prepared
<1>5. Handle(m, {w}) /\ m \in Msg /\ w \in Msg /\ m # w /\ w.node = d
  BY <1>0, <1>4, CarrierMessages, SameMessage DEF OnUserEvent, Forward
<1>6. m.kind = "evtUp" /\ w.kind = "evtDown"
  BY DEF M
<1> HIDE DEF m, w
<1>7. \A x \in Msg : net'[x] = IF x = m THEN net[x] - 1
                               ELSE IF x \in {w} /\ connected[x.node] THEN net[x] + 1 ELSE net[x]
  BY <1>5, AliveCounts
<1>8. \A x \in Msg : x.kind \notin {"evtUp", "evtDown"} => net'[x] = net[x]
  BY <1>6, <1>7
<1>9. \A a \in Nodes, t \in Shards :
        /\ net'[M("evtUp", a, t)] > 0 => net[M("evtUp", a, t)] > 0
        /\ net'[M("evtDown", a, t)] > 0 => net[M("evtDown", a, t)] > 0 \/ (total[a] = -1 /\ connected[a])
  <2> SUFFICES ASSUME NEW k \in {"evtUp", "evtDown"}, NEW a \in Nodes, NEW t \in Shards,
                      net'[M(k, a, t)] > 0
               PROVE  net[M(k, a, t)] > 0 \/ (k = "evtDown" /\ total[a] = -1 /\ connected[a])
    OBVIOUS
  <2>1. PICK x \in Msg : x = M(k, a, t)
    BY CarrierMessages
  <2>2. x.kind = k /\ x.node = a /\ net[x] \in Nat
    BY <2>1, CarrierMessages DEF TypeOK
  <2>3. CASE x = w
    BY <1>4, <1>5, <1>6, <1>7, <2>1, <2>2, <2>3
  <2>4. CASE x # w
    BY <1>7, <2>1, <2>2, <2>4
  <2>5. QED
    BY <2>3, <2>4
<1>10. UNCHANGED <<mode, other, migShard, gateway, lastClosed, openedWith, connected, dead, panics,
                   running, nodeShard, total, session, pc, call>>
  BY DEF OnUserEvent, orchVars, callVars, transferVars, gatewayVars
<1>11. QED
  BY <1>8, <1>9, <1>10, BystanderAlive

\* A user event that is not the last is counted.
LEMMA UserEventAlive ==
  ASSUME TypeOK, CrashInv, TypeOK', NEW n \in Nodes, NEW s \in Shards, UserEvent(n, s)
  PROVE  CrashInv'
<1> DEFINE m == M("evtDown", n, s)
<1>1. Handle(m, {}) /\ m \in Msg /\ m.kind = "evtDown"
  BY CarrierMessages DEF UserEvent
<1> HIDE DEF m
<1>2. \A x \in Msg : net'[x] = IF x = m THEN net[x] - 1 ELSE net[x]
  <2>1. m \notin {}
    OBVIOUS
  <2>2. QED
    BY <1>1, <2>1, AliveCounts
<1>3. \A x \in Msg : x.kind \notin {"evtUp", "evtDown"} => net'[x] = net[x]
  BY <1>1, <1>2
<1>4. \A k \in {"evtUp", "evtDown"}, a \in Nodes, t \in Shards :
        net'[M(k, a, t)] > 0 => net[M(k, a, t)] > 0
  <2> SUFFICES ASSUME NEW x \in Msg, net'[x] > 0 PROVE net[x] > 0
    BY CarrierMessages
  <2>1. net[x] \in Nat
    BY DEF TypeOK
  <2>2. QED
    BY <1>2, <2>1
<1>5. UNCHANGED <<mode, other, migShard, gateway, lastClosed, openedWith, connected, dead, panics,
                  running, nodeShard, total, session, pc, call>>
  BY DEF UserEvent, orchVars, callVars, transferVars, gatewayVars
<1>6. QED
  BY <1>3, <1>4, <1>5, BystanderAlive

\* The origin sends its user events and their number: the number carries the migration on.
LEMMA SendUserEventsAlive ==
  ASSUME TypeOK, CrashInv, TypeOK', NEW n \in Nodes, NEW s \in Shards, NEW k0 \in 0 .. MaxEvents,
         SendUserEvents(n, s, k0)
  PROVE  CrashInv'
<1>0. PICK d : d = other[n]
  OBVIOUS
<1> DEFINE m == M("startMig", n, s)
           w == WithCount("allUp", n, k0)
           e == M("evtUp", n, s)
<1>1. /\ m \in Msg /\ m.kind = "startMig" /\ m.kind \in Carriers /\ m.shard = s
      /\ Destination(m) = d /\ Origin(m) = n
      /\ w \in Msg /\ w.kind = "allUp" /\ w.kind \in Carriers /\ Destination(w) = d /\ Origin(w) = n
      /\ e \in Msg /\ e.kind = "evtUp" /\ e.kind \notin Carriers /\ w.node = n /\ e.node = n
  BY <1>0, CarrierMessages
<1>2. net[m] > 0 /\ connected[n] = TRUE
  BY DEF SendUserEvents, CrashInv, StartInv, Ends, TypeOK
<1>3. Tells(m) /\ Carries(m) /\ net[m] = 1
  BY <1>1, <1>2 DEF CrashInv, CarryInv, CarriersTell, OneCarrier, Carries
<1>4. /\ d \in Nodes /\ mode[d] = "to" /\ migShard[d] = s /\ Nowhere(s) /\ Ready(d)
      /\ Linked(n) /\ other[n] = d
  BY <1>0, <1>1, <1>3 DEF Tells
<1>5. \A x \in Msg : net'[x] = IF x = m THEN net[x] - 1
                               ELSE IF x = w THEN net[x] + 1
                               ELSE IF x = e THEN net[x] + k0 ELSE net[x]
  <2>1. \A x \in Msg : net[x] \in Nat
    BY DEF TypeOK
  <2>2. m # w /\ m # e /\ w # e
    BY SameMessage
  <2> HIDE DEF m, w, e
  <2>3. net' = [x \in Msg |-> net[x] - One(x = m)
                                + (IF connected[n] THEN (IF x = e THEN k0 ELSE 0) + One(x = w) ELSE 0)]
    BY DEF SendUserEvents, m, w, e
  <2>4. QED
    BY <1>2, <2>1, <2>2, <2>3 DEF One
<1>6. e = M("evtUp", n, s) /\ w = WithCount("allUp", n, k0)
  OBVIOUS
<1> HIDE DEF m, w, e
<1>7. UNCHANGED <<connected, running, mode, other, migShard, pc, call, gateway, dead, panics, lastClosed,
                  openedWith, session, nodeShard, total>>
  BY DEF SendUserEvents, orchVars, callVars, gatewayVars, transferVars
<1>8. \A x \in Msg : Carries(x) /\ x # m => Destination(x) # d
  BY <1>1, <1>3 DEF CrashInv, CarryInv, OneCarrier
<1>9. \A x \in Msg : net[x] \in Nat
  BY DEF TypeOK
<1>10. net[w] = 0
  BY <1>1, <1>8, <1>9 DEF Carries
<1>11. \A x \in Msg : Carries(x)' =>
         net'[x] = 1 /\ (x = w \/ (Carries(x) /\ x # m /\ Destination(x) # d))
  <2> SUFFICES ASSUME NEW x \in Msg, Carries(x)'
               PROVE  net'[x] = 1 /\ (x = w \/ (Carries(x) /\ x # m /\ Destination(x) # d))
    OBVIOUS
  <2>1. x.kind \in Carriers /\ net'[x] > 0 /\ x # e
    BY <1>1 DEF Carries
  <2>2. CASE x = w
    BY <1>1, <1>5, <1>10, <2>2
  <2>3. CASE x # w
    BY <1>3, <1>5, <1>8, <2>1, <2>3 DEF Carries, CrashInv, CarryInv, OneCarrier
  <2>4. QED
    BY <2>2, <2>3
<1>12. \A x \in Msg : Destination(x)' = Destination(x)
  BY <1>7 DEF Destination
<1>13. OneCarrier'
  <2> SUFFICES ASSUME NEW x \in Msg, NEW y \in Msg, Carries(x)', Carries(y)', Destination(x) = Destination(y)
               PROVE  x = y
    BY <1>11, <1>12 DEF OneCarrier
  <2>1. QED
    BY <1>1, <1>11 DEF CrashInv, CarryInv, OneCarrier
<1>14. Linked(n)' /\ Nowhere(s)' /\ Ready(d)' /\ Destination(w)' = d /\ Origin(w)' = n
  BY <1>0, <1>1, <1>4, <1>7 DEF Linked, Nowhere, Ready, Prepared, Destination, Origin
<1>15. Tells(w)'
  BY <1>0, <1>1, <1>4, <1>7, <1>14 DEF Tells
<1>16. /\ \A x \in Msg : x # m /\ net[x] > 0 => net'[x] > 0
       /\ \A x \in Msg : x.kind \notin Carriers /\ x # e => net'[x] = net[x]
       /\ \A x \in Msg : net'[x] > 0 => net[x] > 0 \/ connected[x.node]
       /\ net'[w] > 0
  <2>1. k0 \in Nat /\ w # m /\ w # e
    BY <1>1
  <2>2. \A x \in Msg : x # m /\ net[x] > 0 => net'[x] > 0
    BY <1>5, <1>9, <2>1
  <2>3. \A x \in Msg : net'[x] > 0 => net[x] > 0 \/ x \in {w, e}
    BY <1>3, <1>5, <1>9
  <2>4. \A x \in Msg : x.kind \notin Carriers /\ x # e => net'[x] = net[x]
    BY <1>1, <1>5
  <2>5. net'[w] > 0
    BY <1>1, <1>5, <1>10, <2>1
  <2>6. QED
    BY <1>1, <1>2, <2>2, <2>3, <2>4, <2>5
<1>17. /\ \A k \in {"evtDown", "started", "startShard"}, a \in Nodes, t \in Shards :
            net'[M(k, a, t)] = net[M(k, a, t)]
       /\ \A a \in Nodes, t \in Shards : net'[M("evtUp", a, t)] > 0 => net[M("evtUp", a, t)] > 0 \/ a = n
       /\ \A a \in Nodes, j \in 0 .. MaxEvents :
            net[WithCount("allUp", a, j)] > 0 => net'[WithCount("allUp", a, j)] > 0
       /\ \A a \in Nodes, t \in Shards, x \in Sessions :
            net[WithSession("fromReady", a, t, x)] > 0 => net'[WithSession("fromReady", a, t, x)] > 0
  <2>1. \A k \in {"evtDown", "started", "startShard"}, a \in Nodes, t \in Shards :
          M(k, a, t) \in Msg /\ M(k, a, t).kind \notin Carriers /\ M(k, a, t) # e
    BY <1>1, CarrierMessages
  <2>2. \A a \in Nodes, t \in Shards : net'[M("evtUp", a, t)] > 0 => net[M("evtUp", a, t)] > 0 \/ a = n
    <3> SUFFICES ASSUME NEW a \in Nodes, NEW t \in Shards, a # n, net'[M("evtUp", a, t)] > 0
                 PROVE  net[M("evtUp", a, t)] > 0
      OBVIOUS
    <3>1. M("evtUp", a, t) \in Msg /\ M("evtUp", a, t).kind \notin Carriers /\ M("evtUp", a, t) # e
      BY <1>1, CarrierMessages
    <3>2. QED
      BY <1>16, <3>1
  <2>3. \A a \in Nodes, j \in 0 .. MaxEvents : WithCount("allUp", a, j) \in Msg /\ WithCount("allUp", a, j) # m
    BY <1>1, CarrierMessages
  <2>4. \A a \in Nodes, t \in Shards, x \in Sessions :
          WithSession("fromReady", a, t, x) \in Msg /\ WithSession("fromReady", a, t, x) # m
    BY <1>1, CarrierMessages
  <2>5. QED
    BY <1>16, <2>1, <2>2, <2>3, <2>4
<1>18. EventsBeforeCount'
  BY <1>6, <1>16, <1>17 DEF EventsBeforeCount, CrashInv, CarryInv
<1>19. ReportedAlive'
  BY <1>7, <1>17 DEF ReportedAlive, CrashInv, StartInv
<1>20. \A a \in Nodes : Waiting(a)' => Waiting(a) /\ a # d
  <2>1. ~Waiting(d)
    BY <1>1, <1>3, <1>4 DEF CrashInv, CarryInv, WaitingTells, Expects
  <2>2. \A a \in Nodes : Waiting(a)' = Waiting(a)
    BY <1>7, <1>17 DEF Waiting
  <2>3. QED
    BY <2>1, <2>2
<1>21. Engaged(d) /\ Destination(w) = d
  BY <1>1, <1>3 DEF Engaged
<1>22. \A x \in Msg : Carries(x)' => \/ Carries(x) /\ Destination(x) # d
                                     \/ Destination(x) = d /\ Engaged(d) /\ Tells(x)'
  BY <1>11, <1>15, <1>21
<1>23. QED
  BY <1>7, <1>13, <1>16, <1>17, <1>18, <1>19, <1>20, <1>22, QuietAlive

-----------------------------------------------------------------------------
(* The steps that change marks.                                            *)

\* What the migrations that go on know of a node that is no destination and linked to none:
\* nothing.
LEMMA RemarkAlive ==
  ASSUME TypeOK, CrashInv, TypeOK', NEW n \in Nodes, mode[n] # "to", ~Linked(n),
         NEW v, v # "to", mode' = [mode EXCEPT ![n] = v],
         NEW o, other' = [other EXCEPT ![n] = o],
         NEW sh, migShard' = [migShard EXCEPT ![n] = sh],
         UNCHANGED <<connected, dead, panics, running, gateway, nodeShard, total, session, net,
                     lastClosed, openedWith>>,
         \A e \in Callers : pc'[e] = "markTo" =>
           call'[e].from = n \/ (pc[e] = "markTo" /\ call'[e] = call[e]),
         MarkingAlive'
  PROVE  CrashInv'
<1>1. /\ \A a \in Nodes : a # n => mode'[a] = mode[a] /\ other'[a] = other[a] /\ migShard'[a] = migShard[a]
      /\ \A a \in Nodes : mode[a] = "to" => a # n
      /\ \A a \in Nodes : Linked(a) => Linked(a)' /\ a # n
      /\ \A a \in Nodes : mode'[a] = "to" => mode[a] = "to"
      /\ \A t : Nowhere(t)' = Nowhere(t)
      /\ \A t : InTransit(t)' = InTransit(t)
      /\ \A x : Carries(x)' = Carries(x)
  <2>1. \A a \in Nodes : a # n => mode'[a] = mode[a] /\ other'[a] = other[a] /\ migShard'[a] = migShard[a]
    BY DEF TypeOK
  <2>2. mode'[n] = v
    BY DEF TypeOK
  <2>3. \A a \in Nodes : mode[a] = "to" => a # n
    OBVIOUS
  <2>4. \A a \in Nodes : mode'[a] = "to" => mode[a] = "to"
    BY <2>1, <2>2
  <2>5. ASSUME NEW a \in Nodes, Linked(a) PROVE Linked(a)' /\ a # n
    <3>1. a # n /\ other[a] # n /\ other[a] \in Nodes
      BY <2>5 DEF Linked
    <3>2. QED
      BY <2>1, <2>5, <3>1 DEF Linked
  <2>6. QED
    BY <2>1, <2>3, <2>4, <2>5 DEF Nowhere, InTransit, Carries
<1>2. ASSUME NEW x \in Msg, Carries(x) PROVE Tells(x)' /\ Destination(x)' = Destination(x) /\ Destination(x) # n
  <2>0. PICK d, a, t : d = Destination(x) /\ a = Origin(x) /\ t = migShard[d]
    OBVIOUS
  <2>1. Tells(x) /\ x.kind \in Carriers
    BY <1>2 DEF CrashInv, CarryInv, CarriersTell, Carries
  <2>2. /\ d \in Nodes /\ mode[d] = "to" /\ (x.kind # "allDown" => a \in Nodes /\ Linked(a))
        /\ IF x.kind = "prepFrom" THEN t \in gateway[a] /\ t \in running[a] ELSE Nowhere(t)
    BY <2>0, <2>1 DEF Tells
  <2>3. QED
    BY <1>1, <2>0, <2>1, <2>2, TellsKept
<1>3. OneCarrier' /\ CarriersTell'
  BY <1>1, <1>2 DEF OneCarrier, CarriersTell, CrashInv, CarryInv
<1>4. \A d \in Nodes : Waiting(d)' = Waiting(d)
  BY DEF Waiting
<1>5. WaitingTells'
  <2> SUFFICES ASSUME NEW d \in Nodes, Waiting(d) PROVE Expects(d)'
    BY <1>4 DEF WaitingTells
  <2>1. Expects(d)
    BY DEF CrashInv, CarryInv, WaitingTells
  <2>2. QED
    BY <1>1, <1>2, <2>1 DEF Expects
<1>6. EngagedOn
  <2> SUFFICES ASSUME NEW d \in Nodes, Engaged(d)' PROVE Engaged(d) /\ migShard'[d] = migShard[d]
    BY DEF EngagedOn
  <2>1. Engaged(d)
    BY <1>1, <1>2, <1>4 DEF Engaged
  <2>2. mode[d] = "to"
    BY <2>1 DEF Engaged, CrashInv, CarryInv, CarriersTell, Tells, WaitingTells, Expects
  <2>3. QED
    BY <1>1, <2>1, <2>2
<1>7. OneEngaged' /\ EventsBeforeCount'
  BY <1>6, OneEngagedKept DEF EventsBeforeCount, CrashInv, CarryInv
<1>8. Ends' /\ OneGateway' /\ ReportedAlive' /\ RunsReported' /\ StartedOnce'
  BY DEF Ends, OneGateway, ReportedAlive, RunsReported, StartedOnce, CrashInv, StartInv
<1>9. StartingAlone' /\ MovesOn' /\ TransitMarked'
  BY <1>1, <1>6 DEF StartingAlone, MovesOn, EngagedOn, TransitMarked, CrashInv, StartInv
<1>10. QED
  BY <1>3, <1>5, <1>7, <1>8, <1>9 DEF CrashInv, CarryInv, StartInv

\* The origin is marked.
LEMMA MarkFromAlive ==
  ASSUME TypeOK, CrashInv, TypeOK', NEW c \in Callers, MarkFrom(c)
  PROVE  CrashInv'
<1>0. PICK n, s : n = call[c].from /\ s = call[c].shard
  OBVIOUS
<1>1. n \in Nodes /\ s \in Shards /\ mode[n] = "none" /\ s \in running[n]
  BY <1>0 DEF MarkFrom, TypeOK, Call
<1>2. dead[n] \/ s \in gateway[n]
  <2>1. ASSUME ~dead[n], s \notin gateway[n] PROVE FALSE
    <3>1. PICK x \in Sessions : net[WithSession("fromReady", n, s, x)] > 0
      BY <1>1, <2>1 DEF CrashInv, StartInv, ReportedAlive
    <3>2. Tells(WithSession("fromReady", n, s, x))
      BY <1>1, <3>1, CarrierMessages DEF CrashInv, CarryInv, CarriersTell, Carries
    <3>3. Linked(n)
      BY <1>1, <3>2, CarrierMessages DEF Tells
    <3>4. QED
      BY <1>1, <3>3 DEF Linked
  <2>2. QED
    BY <2>1
<1>3. /\ mode' = [mode EXCEPT ![n] = "from"] /\ other' = [other EXCEPT ![n] = call[c].to]
      /\ migShard' = [migShard EXCEPT ![n] = s] /\ pc' = [pc EXCEPT ![c] = "markTo"]
      /\ UNCHANGED <<call, connected, dead, panics, running, gateway, nodeShard, total, session, net,
                     lastClosed, openedWith>>
  BY <1>0 DEF MarkFrom, transferVars, gatewayVars
<1>4. \A e \in Callers : e # c /\ pc[e] = "markTo" => call[e].from # n
  BY <1>1 DEF CrashInv, CarryInv, MarkingAlive
<1>5. \A e \in Callers : e # c => pc'[e] = pc[e]
  BY <1>3 DEF TypeOK
<1>6. MarkingAlive'
  <2> SUFFICES ASSUME NEW e \in Callers, pc'[e] = "markTo"
               PROVE  /\ mode'[call[e].from] = "from" /\ other'[call[e].from] = call[e].to
                      /\ migShard'[call[e].from] = call[e].shard
                      /\ dead[call[e].from] \/ (call[e].shard \in gateway[call[e].from]
                                                /\ call[e].shard \in running[call[e].from])
                      /\ \A f \in Callers : pc'[f] = "markTo" /\ call[f].from = call[e].from => f = e
    BY <1>3 DEF MarkingAlive
  <2>1. CASE e = c
    BY <1>0, <1>1, <1>2, <1>3, <1>4, <1>5, <2>1 DEF TypeOK
  <2>2. CASE e # c
    <3>1. pc[e] = "markTo" /\ call[e].from # n
      BY <1>4, <1>5, <2>2
    <3>2. QED
      BY <1>0, <1>3, <1>5, <3>1 DEF CrashInv, CarryInv, MarkingAlive, TypeOK
  <2>3. QED
    BY <2>1, <2>2
<1>7. ~Linked(n) /\ \A e \in Callers : pc'[e] = "markTo" =>
        call'[e].from = n \/ (pc[e] = "markTo" /\ call'[e] = call[e])
  BY <1>0, <1>1, <1>3, <1>5 DEF Linked
<1>8. QED
  BY <1>1, <1>3, <1>6, <1>7, RemarkAlive

\* The mark is taken back.
LEMMA BusyDestinationAlive ==
  ASSUME TypeOK, CrashInv, TypeOK', NEW c \in Callers, BusyDestination(c)
  PROVE  CrashInv'
<1>0. PICK n : n = call[c].from
  OBVIOUS
<1>1. n \in Nodes /\ mode[n] = "from" /\ ~Linked(n)
  BY <1>0 DEF BusyDestination, CrashInv, CarryInv, MarkingAlive, Linked, TypeOK, Call
<1>2. /\ mode' = [mode EXCEPT ![n] = "none"] /\ other' = [other EXCEPT ![n] = NoNode]
      /\ migShard' = [migShard EXCEPT ![n] = NoShard] /\ pc' = [pc EXCEPT ![c] = "idle"]
      /\ UNCHANGED <<call, connected, dead, panics, running, gateway, nodeShard, total, session, net,
                     lastClosed, openedWith>>
  BY <1>0 DEF BusyDestination, transferVars, gatewayVars
<1>3. \A e \in Callers : pc'[e] = "markTo" => e # c /\ pc[e] = "markTo" /\ call[e].from # n
  BY <1>0, <1>2 DEF BusyDestination, CrashInv, CarryInv, MarkingAlive, TypeOK
<1>4. MarkingAlive'
  BY <1>2, <1>3 DEF CrashInv, CarryInv, MarkingAlive, TypeOK
<1>5. QED
  BY <1>1, <1>2, <1>3, <1>4, RemarkAlive

\* The destination is marked: from here on the migration has a carrier, unless its origin ended.
LEMMA MarkToAlive ==
  ASSUME TypeOK, CrashInv, TypeOK', NEW c \in Callers, MarkTo(c)
  PROVE  CrashInv'
<1>0. PICK n, d, s : n = call[c].from /\ d = call[c].to /\ s = call[c].shard
  OBVIOUS
<1> DEFINE w == M("prepFrom", n, s)
<1>1. /\ n \in Nodes /\ d \in Nodes /\ s \in Shards /\ pc[c] = "markTo"
      /\ mode[n] = "from" /\ other[n] = d /\ migShard[n] = s
      /\ dead[n] \/ (s \in gateway[n] /\ s \in running[n])
      /\ mode[d] = "none" /\ n # d /\ ~Linked(n)
      /\ \A e \in Callers : pc[e] = "markTo" /\ call[e].from = n => e = c
  BY <1>0 DEF MarkTo, CrashInv, CarryInv, MarkingAlive, Linked, TypeOK, Call
<1>2. /\ mode' = [mode EXCEPT ![d] = "to"] /\ other' = [other EXCEPT ![d] = n]
      /\ migShard' = [migShard EXCEPT ![d] = s] /\ pc' = [pc EXCEPT ![c] = "idle"]
      /\ Send({w})
      /\ UNCHANGED <<call, connected, dead, panics, running, gateway, nodeShard, total, session,
                     lastClosed, openedWith>>
  BY <1>0 DEF MarkTo, transferVars, gatewayVars
<1>3. w \in Msg /\ w.kind = "prepFrom" /\ w.kind \in Carriers /\ w.node = n /\ w.shard = s
  BY <1>1, CarrierMessages
<1>4. w = M("prepFrom", n, s)
  OBVIOUS
<1> HIDE DEF w
<1>5. \A x \in Msg : net[x] \in Nat /\ net'[x] = IF x = w /\ connected[n] THEN net[x] + 1 ELSE net[x]
  BY <1>2, <1>3 DEF Send, One, TypeOK
<1>6. /\ mode'[d] = "to" /\ other'[d] = n /\ migShard'[d] = s
      /\ \A a \in Nodes : a # d => mode'[a] = mode[a] /\ other'[a] = other[a] /\ migShard'[a] = migShard[a]
      /\ \A e \in Callers : pc'[e] = "markTo" => pc[e] = "markTo" /\ e # c
      /\ \A t : Nowhere(t)' = Nowhere(t)
      /\ \A t : InTransit(t)' = InTransit(t)
  BY <1>1, <1>2 DEF Nowhere, InTransit, TypeOK
<1>7. \A a \in Nodes : Linked(a) => Linked(a)' /\ a # d /\ a # n /\ other[a] # d
  BY <1>1, <1>2, <1>6 DEF Linked
<1>8. Linked(n)'
  BY <1>1, <1>2, <1>6 DEF Linked
\* The other migrations.
<1>9. ASSUME NEW x \in Msg, Carries(x)
      PROVE Tells(x)' /\ Destination(x)' = Destination(x) /\ Destination(x) \in Nodes /\ Destination(x) # d
            /\ (x.kind = "prepFrom" => Origin(x) # n)
  <2>0. PICK b, a, t : b = Destination(x) /\ a = Origin(x) /\ t = migShard[b]
    OBVIOUS
  <2>1. Tells(x) /\ x.kind \in Carriers
    BY <1>9 DEF CrashInv, CarryInv, CarriersTell, Carries
  <2>2. /\ b \in Nodes /\ mode[b] = "to" /\ (x.kind # "allDown" => a \in Nodes /\ Linked(a))
        /\ IF x.kind = "prepFrom" THEN t \in gateway[a] /\ t \in running[a] ELSE Nowhere(t)
        /\ b # d
    BY <1>1, <2>0, <2>1 DEF Tells
  <2>3. x.kind = "prepFrom" => a # n
    BY <1>1, <2>2
  <2>4. QED
    BY <1>2, <1>6, <1>7, <2>0, <2>1, <2>2, <2>3, TellsKept
<1>10. net[w] = 0
  <2>1. Origin(w) = n
    BY <1>1, <1>4, CarrierMessages
  <2>2. QED
    BY <1>3, <1>5, <1>9, <2>1 DEF Carries
<1>11. \A x \in Msg : Carries(x)' => Carries(x) \/ (x = w /\ connected[n] /\ net'[w] = 1)
  BY <1>3, <1>5, <1>10 DEF Carries
<1>12. /\ Destination(w)' = d
       /\ connected[n] => Tells(w)'
  <2>1. Destination(w)' = d /\ Origin(w)' = n
    BY <1>1, <1>3, <1>6 DEF Destination, Origin, FromTokens
  <2>2. connected[n] => s \in gateway[n] /\ s \in running[n]
    BY <1>1 DEF CrashInv, StartInv, Ends
  <2>3. QED
    BY <1>1, <1>2, <1>3, <1>6, <1>8, <2>1, <2>2 DEF Tells
<1>13. CarriersTell'
  BY <1>9, <1>11, <1>12 DEF CarriersTell
<1>14. OneCarrier'
  <2>1. \A x \in Msg : Carries(x) => x # w /\ net'[x] = 1
    BY <1>5, <1>10 DEF Carries, CrashInv, CarryInv, OneCarrier
  <2>2. ASSUME NEW x \in Msg, NEW y \in Msg, Carries(x)', Carries(y)', Destination(x)' = Destination(y)'
        PROVE x = y
    BY <1>9, <1>11, <1>12, <2>2 DEF CrashInv, CarryInv, OneCarrier
  <2>3. QED
    BY <1>11, <2>1, <2>2 DEF OneCarrier
\* Who is engaged.
<1>15. \A a \in Nodes : Waiting(a)' => Waiting(a)
  <2>1. \A a \in Nodes, t \in Shards : M("evtDown", a, t) \in Msg /\ M("evtDown", a, t) # w
    BY <1>3, CarrierMessages
  <2>2. QED
    BY <1>2, <1>5, <2>1 DEF Waiting
<1>16. \A a \in Nodes : Waiting(a) => a # d /\ Expects(a)
  BY <1>1 DEF CrashInv, CarryInv, WaitingTells, Expects
<1>17. WaitingTells'
  <2> SUFFICES ASSUME NEW a \in Nodes, a # d, Expects(a) PROVE Expects(a)'
    BY <1>15, <1>16 DEF WaitingTells
  <2>1. \A x \in Msg : Carries(x)' => Destination(x)' # a
    BY <1>9, <1>11, <1>12 DEF Expects
  <2>2. QED
    BY <1>2, <1>6, <2>1 DEF Expects
<1>18. \A a \in Nodes : Engaged(a)' => \/ Engaged(a) /\ a # d
                                       \/ a = d /\ connected[n]
  BY <1>9, <1>11, <1>12, <1>15, <1>16 DEF Engaged
<1>19. \A a \in Nodes : Engaged(a) /\ connected[n] => migShard[a] # s
  <2> SUFFICES ASSUME NEW a \in Nodes, Engaged(a), connected[n], migShard[a] = s PROVE FALSE
    OBVIOUS
  <2>1. s \in gateway[n] /\ ~Nowhere(s)
    BY <1>1 DEF CrashInv, StartInv, Ends, Nowhere
  <2>2. PICK x \in Msg : Carries(x) /\ Destination(x) = a
    BY <1>16, <2>1 DEF Engaged, Expects
  <2>3. Tells(x)
    BY <2>2 DEF CrashInv, CarryInv, CarriersTell
  <2>4. x.kind = "prepFrom" /\ s \in gateway[Origin(x)] /\ Origin(x) \in Nodes
    BY <2>1, <2>2, <2>3 DEF Tells
  <2>5. Origin(x) = n
    BY <1>1, <2>1, <2>4 DEF CrashInv, StartInv, OneGateway
  <2>6. QED
    BY <1>9, <2>2, <2>4, <2>5
<1>20. OneEngaged'
  <2> SUFFICES ASSUME NEW a \in Nodes, NEW b \in Nodes, Engaged(a)', Engaged(b)', migShard'[a] = migShard'[b]
               PROVE  a = b
    BY DEF OneEngaged
  <2>1. QED
    BY <1>6, <1>18, <1>19 DEF CrashInv, CarryInv, OneEngaged
<1>21. MarkingAlive'
  <2>1. \A e \in Callers : pc[e] = "markTo" => call[e].from \in Nodes /\ call[e].from # d
    BY <1>1 DEF CrashInv, CarryInv, MarkingAlive, TypeOK, Call
  <2>2. QED
    BY <1>2, <1>6, <2>1 DEF CrashInv, CarryInv, MarkingAlive
<1>22. \A k \in {"started", "startShard", "evtUp"}, a \in Nodes, t \in Shards :
         net'[M(k, a, t)] = net[M(k, a, t)]
  BY <1>3, <1>5, CarrierMessages
<1>23. \A a \in Nodes, j \in 0 .. MaxEvents : net'[WithCount("allUp", a, j)] = net[WithCount("allUp", a, j)]
  BY <1>3, <1>5, CarrierMessages
<1>24. \A a \in Nodes, t \in Shards, x \in Sessions :
         net'[WithSession("fromReady", a, t, x)] = net[WithSession("fromReady", a, t, x)]
  BY <1>3, <1>5, CarrierMessages
<1>25. EventsBeforeCount'
  BY <1>22, <1>23 DEF EventsBeforeCount, CrashInv, CarryInv
<1>26. Ends'
  <2>1. \A x \in Msg : dead[x.node] /\ net[x] = 0 => net'[x] = 0
    BY <1>1, <1>3, <1>5 DEF CrashInv, StartInv, Ends
  <2>2. QED
    BY <1>2, <2>1 DEF CrashInv, StartInv, Ends
<1>27. OneGateway' /\ ReportedAlive' /\ RunsReported' /\ StartedOnce'
  BY <1>2, <1>22, <1>24 DEF OneGateway, ReportedAlive, RunsReported, StartedOnce, CrashInv, StartInv
<1>28. StartingAlone'
  <2> SUFFICES ASSUME NEW a \in Nodes, NEW t \in Shards, net[M("startShard", a, t)] > 0,
                      NEW b \in Nodes, Engaged(b)'
               PROVE  migShard'[b] # t
    BY <1>6, <1>22 DEF StartingAlone, CrashInv, StartInv
  <2>1. Nowhere(t) /\ \A e \in Nodes : Engaged(e) => migShard[e] # t
    BY DEF StartingAlone, CrashInv, StartInv
  <2>2. connected[n] => t # s
    BY <1>1, <2>1 DEF Nowhere, CrashInv, StartInv, Ends
  <2>3. QED
    BY <1>6, <1>18, <2>1, <2>2
<1>29. TransitMarked'
  <2> SUFFICES ASSUME NEW t \in Shards, InTransit(t)
               PROVE  Nowhere(t) /\ \E e \in Nodes : mode'[e] = "to" /\ migShard'[e] = t
    BY <1>6 DEF TransitMarked
  <2>1. Nowhere(t) /\ \E e \in Nodes : mode[e] = "to" /\ migShard[e] = t
    BY DEF TransitMarked, CrashInv, StartInv
  <2>2. QED
    BY <1>1, <1>6, <2>1
<1>30. MovesOn'
  <2> SUFFICES ASSUME NEW a \in Nodes, NEW t, t = migShard'[a], Engaged(a)', Nowhere(t) PROVE InTransit(t)
    BY <1>6 DEF MovesOn
  <2>1. a # d
    <3>1. a = d => s \in gateway[n] /\ migShard'[a] = s
      BY <1>1, <1>6, <1>18 DEF CrashInv, StartInv, Ends
    <3>2. ~Nowhere(s) \/ a # d
      BY <1>1, <3>1 DEF Nowhere
    <3>3. QED
      BY <1>6, <3>1, <3>2
  <2>2. QED
    BY <1>6, <1>18, <2>1 DEF MovesOn, CrashInv, StartInv
<1>31. QED
  BY <1>13, <1>14, <1>17, <1>20, <1>21, <1>25, <1>26, <1>27, <1>28, <1>29, <1>30
  DEF CrashInv, CarryInv, StartInv

\* The origin has sent everything: it is free, and the number goes to the destination.
LEMMA OnAllUserdataSentAlive ==
  ASSUME TypeOK, CrashInv, TypeOK', NEW n \in Nodes, NEW k0 \in 0 .. MaxEvents, OnAllUserdataSent(n, k0)
  PROVE  CrashInv'
<1>0. PICK d : d = other[n]
  OBVIOUS
<1> DEFINE m == WithCount("allUp", n, k0)
           w == WithCount("allDown", d, k0)
<1>1. m \in Msg /\ m.kind = "allUp" /\ m.kind \in Carriers /\ Destination(m) = d /\ Origin(m) = n /\ net[m] > 0
  BY <1>0, CarrierMessages DEF OnAllUserdataSent, Forward, Handle
<1>2. Tells(m)
  BY <1>1 DEF CrashInv, CarryInv, CarriersTell, Carries
<1>3. /\ d \in Nodes /\ mode[d] = "to" /\ migShard[d] \in Shards /\ Nowhere(migShard[d]) /\ Ready(d)
      /\ Linked(n) /\ other[n] = d /\ d # NoNode /\ d # n /\ other[d] = n
  BY <1>0, <1>1, <1>2, ShardAssumption DEF Tells, Linked
<1>4. w \in Msg /\ w.kind = "allDown" /\ w.kind \in Carriers /\ Destination(w) = d /\ w.node = d
  BY <1>3, CarrierMessages
<1> HIDE DEF w
<1>5. /\ Handle(m, {w}) /\ mode' = [mode EXCEPT ![n] = "none"]
      /\ \A t \in Shards : net[M("evtUp", n, t)] = 0
  BY <1>0, <1>3 DEF OnAllUserdataSent, Forward, w
<1>6. UNCHANGED <<connected, running, other, migShard, pc, call, gateway, dead, panics, lastClosed,
                  openedWith, session, nodeShard, total>>
  BY DEF OnAllUserdataSent, callVars, gatewayVars, transferVars
<1>7. m = WithCount("allUp", n, k0)
  OBVIOUS
<1> HIDE DEF m
<1>8. /\ OneCarrier' /\ Carries(m)
      /\ \A x \in Msg : Carries(x)' => x = w \/ (Carries(x) /\ x # m /\ Destination(x) # d)
      /\ \A x \in Msg : Carries(x) /\ x # m => Carries(x)'
      /\ \A x \in Msg : x.kind \notin Carriers => net'[x] = net[x]
      /\ \A x \in Msg : net'[x] > 0 => net[x] > 0 \/ connected[x.node]
  BY <1>1, <1>4, <1>5, <1>6, PassCarrier DEF CrashInv, CarryInv
<1>9. /\ \A a \in Nodes : a # n => mode'[a] = mode[a]
      /\ \A a \in Nodes : mode[a] = "to" => a # n
      /\ \A a \in Nodes : mode'[a] = "to" <=> mode[a] = "to"
      /\ \A a \in Nodes : Linked(a) /\ a # n => Linked(a)'
      /\ \A t : Nowhere(t)' = Nowhere(t)
      /\ \A t : InTransit(t)' = InTransit(t)
      /\ \A x : Destination(x)' = Destination(x)
  <2>1. /\ \A a \in Nodes : a # n => mode'[a] = mode[a]
        /\ mode[n] = "from" /\ mode'[n] = "none"
    BY <1>3, <1>5 DEF Linked, TypeOK
  <2>2. ASSUME NEW a \in Nodes, Linked(a), a # n PROVE Linked(a)'
    <3>1. other[a] \in Nodes /\ other[a] # n
      BY <2>1, <2>2 DEF Linked
    <3>2. QED
      BY <1>6, <2>1, <2>2, <3>1 DEF Linked
  <2>3. QED
    BY <1>6, <2>1, <2>2 DEF Nowhere, InTransit, Destination
<1>10. Tells(w)' /\ Destination(w)' = d
  <2>1. Ready(d)' /\ Nowhere(migShard[d])' /\ Destination(w)' = d
    BY <1>3, <1>4, <1>6, <1>9 DEF Ready, Prepared
  <2>2. QED
    BY <1>3, <1>4, <1>6, <1>9, <2>1 DEF Tells
<1>11. ASSUME NEW x \in Msg, Carries(x), Destination(x) # d PROVE Tells(x)'
  <2>0. PICK b, a, t : b = Destination(x) /\ a = Origin(x) /\ t = migShard[b]
    OBVIOUS
  <2>1. Tells(x) /\ x.kind \in Carriers
    BY <1>11 DEF CrashInv, CarryInv, CarriersTell, Carries
  <2>2. /\ b \in Nodes /\ mode[b] = "to"
        /\ (x.kind # "allDown" => a \in Nodes /\ Linked(a) /\ other[a] = b)
        /\ IF x.kind = "prepFrom" THEN t \in gateway[a] /\ t \in running[a] ELSE Nowhere(t)
        /\ b # d
    BY <1>11, <2>0, <2>1 DEF Tells
  <2>3. x.kind # "allDown" => a # n
    BY <1>3, <2>2
  <2>4. QED
    BY <1>6, <1>9, <2>0, <2>1, <2>2, <2>3, TellsKept
<1>12. CarriersTell'
  BY <1>8, <1>10, <1>11 DEF CarriersTell
<1>13. /\ \A k \in {"evtUp", "evtDown", "started", "startShard"}, a \in Nodes, t \in Shards :
            net'[M(k, a, t)] = net[M(k, a, t)]
       /\ \A a \in Nodes, j \in 0 .. MaxEvents :
            net[WithCount("allUp", a, j)] > 0 /\ a # n => net'[WithCount("allUp", a, j)] > 0
       /\ \A a \in Nodes, t \in Shards, x \in Sessions :
            net[WithSession("fromReady", a, t, x)] > 0 => net'[WithSession("fromReady", a, t, x)] > 0
  <2>1. \A a \in Nodes, j \in 0 .. MaxEvents : a # n => WithCount("allUp", a, j) # m
    BY <1>7, SameMessage
  <2>2. \A a \in Nodes, t \in Shards, x \in Sessions : WithSession("fromReady", a, t, x) # m
    BY <1>1, CarrierMessages
  <2>3. QED
    BY <1>8, <2>1, <2>2, CarrierMessages DEF Carries
<1>14. EventsBeforeCount'
  BY <1>5, <1>13 DEF EventsBeforeCount, CrashInv, CarryInv
<1>15. \A a \in Nodes : Waiting(a)' = Waiting(a)
  BY <1>6, <1>13 DEF Waiting
<1>16. EngagedOn
  <2>1. Engaged(d)
    BY <1>1, <1>8 DEF Engaged
  <2>2. QED
    BY <1>4, <1>6, <1>8, <1>9, <1>15, <2>1 DEF EngagedOn, Engaged
<1>17. WaitingTells'
  <2> SUFFICES ASSUME NEW a \in Nodes, Waiting(a) PROVE Expects(a)'
    BY <1>15 DEF WaitingTells
  <2>1. Expects(a) /\ a # d
    BY <1>1, <1>8 DEF Expects, CrashInv, CarryInv, WaitingTells
  <2>2. \A x \in Msg : Carries(x)' => Destination(x)' # a
    BY <1>4, <1>8, <1>9, <2>1 DEF Expects
  <2>3. QED
    BY <1>6, <1>9, <2>1, <2>2 DEF Expects
<1>18. MarkingAlive'
  <2>1. \A e \in Callers : pc[e] = "markTo" => call[e].from \in Nodes /\ call[e].from # n
    BY <1>3 DEF Linked, TypeOK, Call
  <2>2. QED
    BY <1>6, <1>9, <2>1 DEF CrashInv, CarryInv, MarkingAlive
<1>19. OneEngaged'
  BY <1>16, OneEngagedKept DEF CrashInv, CarryInv
<1>20. Ends'
  <2>1. \A x \in Msg : net[x] \in Nat /\ net'[x] \in Nat
    BY DEF TypeOK
  <2>2. \A x \in Msg : dead[x.node] /\ x.node \in Nodes /\ net[x] = 0 => net'[x] = 0
    <3> SUFFICES ASSUME NEW x \in Msg, dead[x.node], x.node \in Nodes, net[x] = 0 PROVE net'[x] = 0
      OBVIOUS
    <3>1. ~connected[x.node]
      BY DEF CrashInv, StartInv, Ends
    <3>2. ~(net'[x] > 0)
      BY <1>8, <3>1
    <3>3. QED
      BY <2>1, <3>2
  <2>3. QED
    BY <1>6, <2>2 DEF CrashInv, StartInv, Ends
<1>21. OneGateway' /\ ReportedAlive' /\ RunsReported' /\ StartedOnce'
  BY <1>6, <1>13 DEF OneGateway, ReportedAlive, RunsReported, StartedOnce, CrashInv, StartInv
<1>22. StartingAlone' /\ MovesOn' /\ TransitMarked'
  BY <1>6, <1>9, <1>13, <1>16 DEF StartingAlone, MovesOn, EngagedOn, TransitMarked, CrashInv, StartInv
<1>23. QED
  BY <1>8, <1>12, <1>14, <1>17, <1>18, <1>19, <1>20, <1>21, <1>22 DEF CrashInv, CarryInv, StartInv

\* A node reports that it runs the shard: no migration of the shard goes on, so that its mark,
\* if the node has one for the shard, is none of a migration that goes on.
LEMMA OnStartedAlive ==
  ASSUME TypeOK, CrashInv, TypeOK', NEW n \in Nodes, NEW s \in Shards, OnStarted(n, s)
  PROVE  CrashInv'
<1> DEFINE m == M("started", n, s)
<1>1. m \in Msg /\ m.kind = "started" /\ m.kind \notin Carriers /\ net[m] > 0 /\ m.node = n
  BY CarrierMessages DEF OnStarted, Handle
<1>2. net[m] = 1 /\ s \in gateway[n] /\ s \notin running[n] /\ ~Nowhere(s) /\ ~dead[n]
  BY <1>1 DEF CrashInv, StartInv, StartedOnce, Ends, Nowhere
<1>3. m = M("started", n, s)
  OBVIOUS
<1>4. /\ Handle(m, {})
      /\ running' = [running EXCEPT ![n] = @ \cup {s}]
      /\ mode' = IF migShard[n] = s THEN [mode EXCEPT ![n] = "none"] ELSE mode
      /\ UNCHANGED <<connected, other, migShard, pc, call, gateway, dead, panics, lastClosed,
                     openedWith, session, nodeShard, total>>
  BY DEF OnStarted, callVars, gatewayVars, transferVars
<1> HIDE DEF m
<1>5. \A x \in Msg : net[x] \in Nat /\ net'[x] = IF x = m THEN 0 ELSE net[x]
  <2>1. m \notin {} /\ \A x \in Msg : net[x] \in Nat
    BY DEF TypeOK
  <2>2. QED
    BY <1>1, <1>2, <1>4, <2>1, AliveCounts
<1>6. \A x : Destination(x)' = Destination(x)
  BY <1>4 DEF Destination
<1>7. \A x \in Msg : Carries(x)' = Carries(x) /\ (Carries(x) => net'[x] = net[x])
  BY <1>1, <1>5 DEF Carries
<1>8. OneCarrier'
  BY <1>6, <1>7 DEF OneCarrier, CrashInv, CarryInv
<1>9. \A a \in Nodes : Engaged(a) => migShard[a] # s /\ mode[a] = "to"
  <2> SUFFICES ASSUME NEW a \in Nodes, Engaged(a) PROVE migShard[a] # s /\ mode[a] = "to"
    OBVIOUS
  <2>1. CASE Waiting(a)
    BY <1>2, <2>1 DEF CrashInv, CarryInv, WaitingTells, Expects
  <2>2. CASE \E x \in Msg : Carries(x) /\ Destination(x) = a
    <3>1. PICK x \in Msg : Carries(x) /\ Destination(x) = a
      BY <2>2
    <3>2. PICK o, t : o = Origin(x) /\ t = migShard[a]
      OBVIOUS
    <3>3. /\ mode[a] = "to"
          /\ x.kind = "prepFrom" => o \in Nodes /\ t \in Shards /\ t \in gateway[o] /\ t \in running[o]
          /\ x.kind # "prepFrom" => Nowhere(t)
      BY <3>1, <3>2 DEF CrashInv, CarryInv, CarriersTell, Tells
    <3>4. x.kind = "prepFrom" /\ t = s => o = n
      BY <1>2, <3>3 DEF CrashInv, StartInv, OneGateway
    <3>5. QED
      BY <1>2, <3>2, <3>3, <3>4
  <2>3. QED
    BY <2>1, <2>2 DEF Engaged
<1>10. /\ \A a \in Nodes : migShard[a] # s => mode'[a] = mode[a]
       /\ \A a \in Nodes : mode'[a] = "to" => mode[a] = "to"
       /\ \A t : Nowhere(t)' = Nowhere(t)
       /\ \A t : InTransit(t)' = InTransit(t)
       /\ \A a \in Nodes : running[a] \subseteq running'[a]
       /\ \A a \in Nodes : \A t \in running'[a] : t \in running[a] \/ (a = n /\ t = s)
       /\ s \in running'[n]
  BY <1>4 DEF TypeOK, Nowhere, InTransit
<1>11. \A a \in Nodes : Linked(a) /\ migShard[a] # s => Linked(a)'
  BY <1>4, <1>10 DEF Linked
<1>12. ASSUME NEW x \in Msg, Carries(x) PROVE Tells(x)'
  <2>0. PICK b, a, t : b = Destination(x) /\ a = Origin(x) /\ t = migShard[b]
    OBVIOUS
  <2>1. Tells(x) /\ x.kind \in Carriers
    BY <1>12 DEF CrashInv, CarryInv, CarriersTell, Carries
  <2>2. /\ b \in Nodes /\ mode[b] = "to"
        /\ (x.kind # "allDown" => a \in Nodes /\ Linked(a) /\ other[a] = b)
        /\ IF x.kind = "prepFrom" THEN t \in gateway[a] /\ t \in running[a] ELSE Nowhere(t)
    BY <2>0, <2>1 DEF Tells
  <2>3. t # s
    BY <1>9, <1>12, <2>0, <2>2 DEF Engaged
  <2>4. x.kind # "allDown" => migShard[a] = t
    BY <2>0, <2>2 DEF Linked
  <2>5. x.kind = "prepFrom" => a \in Nodes
    BY <2>2
  <2>6. QED
    BY <1>4, <1>10, <1>11, <2>0, <2>1, <2>2, <2>3, <2>4, <2>5, TellsKept
<1>13. CarriersTell'
  BY <1>7, <1>12 DEF CarriersTell
<1>14. /\ \A k \in {"evtUp", "evtDown", "startShard"}, a \in Nodes, t \in Shards :
            net'[M(k, a, t)] = net[M(k, a, t)]
       /\ \A a \in Nodes, t \in Shards :
            net'[M("started", a, t)] = IF a = n /\ t = s THEN 0 ELSE net[M("started", a, t)]
       /\ \A a \in Nodes, j \in 0 .. MaxEvents : net'[WithCount("allUp", a, j)] = net[WithCount("allUp", a, j)]
       /\ \A a \in Nodes, t \in Shards, x \in Sessions :
            net'[WithSession("fromReady", a, t, x)] = net[WithSession("fromReady", a, t, x)]
  <2>1. \A k \in {"evtUp", "evtDown", "startShard"}, a \in Nodes, t \in Shards :
          M(k, a, t) \in Msg /\ M(k, a, t) # m
    BY <1>1, CarrierMessages
  <2>2. \A a \in Nodes, t \in Shards : M("started", a, t) \in Msg /\ (M("started", a, t) = m <=> a = n /\ t = s)
    BY <1>3, CarrierMessages, SameMessage
  <2>3. \A a \in Nodes, j \in 0 .. MaxEvents : WithCount("allUp", a, j) \in Msg /\ WithCount("allUp", a, j) # m
    BY <1>1, CarrierMessages
  <2>4. \A a \in Nodes, t \in Shards, x \in Sessions :
          WithSession("fromReady", a, t, x) \in Msg /\ WithSession("fromReady", a, t, x) # m
    BY <1>1, CarrierMessages
  <2>5. QED
    BY <1>5, <2>1, <2>2, <2>3, <2>4
<1>15. EventsBeforeCount'
  BY <1>14 DEF EventsBeforeCount, CrashInv, CarryInv
<1>16. \A a \in Nodes : Waiting(a)' = Waiting(a)
  BY <1>4, <1>14 DEF Waiting
<1>17. EngagedOn /\ \A a \in Nodes : Engaged(a)' = Engaged(a)
  BY <1>4, <1>6, <1>7, <1>16 DEF EngagedOn, Engaged
<1>18. WaitingTells'
  <2> SUFFICES ASSUME NEW a \in Nodes, Waiting(a) PROVE Expects(a)'
    BY <1>16 DEF WaitingTells
  <2>1. Expects(a) /\ Engaged(a)
    BY DEF Engaged, CrashInv, CarryInv, WaitingTells
  <2>2. QED
    BY <1>4, <1>6, <1>7, <1>9, <1>10, <2>1 DEF Expects
<1>19. OneEngaged'
  BY <1>17, OneEngagedKept DEF CrashInv, CarryInv
<1>20. MarkingAlive'
  <2>1. ASSUME NEW e \in Callers, pc[e] = "markTo" PROVE call[e].from \in Nodes /\ mode'[call[e].from] = "from"
    <3>1. PICK a, t : a = call[e].from /\ t = call[e].shard
      OBVIOUS
    <3>2. /\ a \in Nodes /\ mode[a] = "from" /\ migShard[a] = t
          /\ dead[a] \/ t \in running[a]
      BY <2>1, <3>1 DEF CrashInv, CarryInv, MarkingAlive, TypeOK, Call
    <3>3. t # s \/ a # n
      BY <1>2, <3>2
    <3>4. mode'[a] = mode[a]
      BY <1>4, <3>2, <3>3 DEF TypeOK
    <3>5. QED
      BY <3>1, <3>2, <3>4
  <2>2. QED
    BY <1>4, <1>10, <2>1 DEF CrashInv, CarryInv, MarkingAlive
<1>21. Ends'
  <2>1. \A x \in Msg : net[x] = 0 => net'[x] = 0
    BY <1>5
  <2>2. QED
    BY <1>4, <2>1 DEF Ends, CrashInv, StartInv
<1>22. OneGateway' /\ ReportedAlive'
  BY <1>2, <1>4, <1>10, <1>14 DEF OneGateway, ReportedAlive, CrashInv, StartInv
<1>23. RunsReported' /\ StartedOnce'
  BY <1>4, <1>10, <1>14 DEF RunsReported, StartedOnce, CrashInv, StartInv
<1>24. StartingAlone' /\ MovesOn'
  BY <1>4, <1>10, <1>14, <1>17 DEF StartingAlone, MovesOn, CrashInv, StartInv
<1>25. TransitMarked'
  <2> SUFFICES ASSUME NEW t \in Shards, InTransit(t)
               PROVE  Nowhere(t) /\ \E e \in Nodes : mode'[e] = "to" /\ migShard'[e] = t
    BY <1>10 DEF TransitMarked
  <2>1. Nowhere(t) /\ \E e \in Nodes : mode[e] = "to" /\ migShard[e] = t
    BY DEF TransitMarked, CrashInv, StartInv
  <2>2. QED
    BY <1>2, <1>4, <1>10, <2>1
<1>26. QED
  BY <1>8, <1>13, <1>15, <1>18, <1>19, <1>20, <1>21, <1>22, <1>23, <1>24, <1>25
  DEF CrashInv, CarryInv, StartInv

-----------------------------------------------------------------------------
(* The steps that open and close gateways.                                 *)

\* The origin closes its gateway.
LEMMA PrepareFromAlive ==
  ASSUME TypeOK, CrashInv, SessionsOld, TypeOK', NEW n \in Nodes, NEW s \in Shards, PrepareFrom(n, s)
  PROVE  CrashInv'
<1>0. PICK d, y : d = other[n] /\ y = closes + 1
  OBVIOUS
<1> DEFINE m == M("prepFrom", n, s)
           w == WithSession("fromReady", n, s, y)
<1>1. /\ m \in Msg /\ m.kind = "prepFrom" /\ m.kind \in Carriers /\ m.shard = s
      /\ Destination(m) = d /\ Origin(m) = n /\ net[m] > 0 /\ m.node = n
  BY <1>0, CarrierMessages DEF PrepareFrom, Handle
<1>2. Tells(m) /\ Carries(m)
  BY <1>1 DEF CrashInv, CarryInv, CarriersTell, Carries
<1>3. /\ d \in Nodes /\ mode[d] = "to" /\ migShard[d] = s /\ s \in gateway[n] /\ s \in running[n]
      /\ Linked(n) /\ other[n] = d /\ mode[n] = "from" /\ d # n
  BY <1>0, <1>1, <1>2 DEF Tells, Linked
<1>4. y \in Sessions
  BY <1>0, ShardAssumption DEF PrepareFrom, TypeOK, Sessions
<1>5. /\ w \in Msg /\ w.kind = "fromReady" /\ w.kind \in Carriers /\ Destination(w) = d /\ Origin(w) = n
      /\ w.shard = s /\ w.session = y /\ w.node = n
  BY <1>0, <1>4, CarrierMessages
<1>6. /\ Handle(m, {w})
      /\ nodeShard' = [nodeShard EXCEPT ![n] = s]
      /\ gateway' = [gateway EXCEPT ![n] = @ \ {s}]
      /\ lastClosed' = [lastClosed EXCEPT ![s] = y]
  BY <1>0, <1>3 DEF PrepareFrom
<1>7. UNCHANGED <<connected, running, mode, other, migShard, pc, call, dead, panics, openedWith, session, total>>
  BY DEF PrepareFrom, orchVars, callVars
<1>8. m = M("prepFrom", n, s) /\ w = WithSession("fromReady", n, s, y)
  OBVIOUS
<1> HIDE DEF m, w
<1>9. /\ OneCarrier' /\ Carries(m)
      /\ \A x \in Msg : Carries(x)' => x = w \/ (Carries(x) /\ x # m /\ Destination(x) # d)
      /\ \A x \in Msg : Carries(x) /\ x # m => Carries(x)'
      /\ \A x \in Msg : x.kind \notin Carriers => net'[x] = net[x]
      /\ \A x \in Msg : net'[x] > 0 => net[x] > 0 \/ connected[x.node]
  BY <1>1, <1>5, <1>6, <1>7, PassCarrier DEF CrashInv, CarryInv
<1>10. /\ \A a \in Nodes : gateway'[a] \subseteq gateway[a]
       /\ \A a \in Nodes : a # n => gateway'[a] = gateway[a]
       /\ \A t \in Shards : t # s => lastClosed'[t] = lastClosed[t] /\ InTransit(t)' = InTransit(t)
       /\ lastClosed'[s] = y
       /\ \A a \in Nodes : a # n => nodeShard'[a] = nodeShard[a]
       /\ \A t : Nowhere(t) => Nowhere(t)'
       /\ \A a \in Nodes, t \in Shards : t # s /\ t \in gateway[a] => t \in gateway'[a]
  BY <1>6, <1>7 DEF TypeOK, Nowhere, InTransit
<1>11. Nowhere(s)'
  BY <1>3, <1>6, <1>10 DEF Nowhere, OneGateway, CrashInv, StartInv, TypeOK
<1>12. \A x : Destination(x)' = Destination(x)
  BY <1>7 DEF Destination
<1>13. \A a : Linked(a)' = Linked(a)
  BY <1>7 DEF Linked
<1>14. Tells(w)' /\ Destination(w)' = d
  <2>1. Destination(w)' = d /\ Origin(w)' = n
    BY <1>0, <1>5, <1>7 DEF Destination, Origin
  <2>2. QED
    BY <1>0, <1>3, <1>5, <1>7, <1>10, <1>11, <1>13, <2>1 DEF Tells
<1>15. \A a \in Nodes : Engaged(a) => mode[a] = "to" /\ a # n /\ migShard[a] \in Shards
  BY <1>3 DEF Engaged, CrashInv, CarryInv, CarriersTell, Tells, WaitingTells, Expects
<1>16. Engaged(d)
  BY <1>1, <1>2 DEF Engaged
<1>17. ASSUME NEW x \in Msg, Carries(x), Destination(x) # d PROVE Tells(x)'
  <2>0. PICK b, a, t : b = Destination(x) /\ a = Origin(x) /\ t = migShard[b]
    OBVIOUS
  <2>1. Tells(x) /\ x.kind \in Carriers
    BY <1>17 DEF CrashInv, CarryInv, CarriersTell, Carries
  <2>2. /\ b \in Nodes /\ mode[b] = "to" /\ t \in Shards
        /\ (x.kind # "allDown" => a \in Nodes /\ Linked(a) /\ other[a] = b)
        /\ IF x.kind = "prepFrom" THEN t \in gateway[a] /\ t \in running[a] ELSE Nowhere(t)
        /\ b # d
    BY <1>17, <2>0, <2>1 DEF Tells
  <2>3. t # s /\ b # n
    BY <1>3, <1>15, <1>16, <1>17, <2>0, <2>2 DEF Engaged, CrashInv, CarryInv, OneEngaged
  <2>4. x.kind = "prepFrom" => a \in Nodes
    BY <2>2
  <2>5. QED
    BY <1>7, <1>10, <1>13, <2>0, <2>1, <2>2, <2>3, <2>4, TellsKept
<1>18. CarriersTell'
  BY <1>9, <1>14, <1>17 DEF CarriersTell
<1>19. /\ \A k \in {"evtUp", "evtDown", "started", "startShard"}, a \in Nodes, t \in Shards :
            net'[M(k, a, t)] = net[M(k, a, t)]
       /\ \A a \in Nodes, j \in 0 .. MaxEvents :
            net[WithCount("allUp", a, j)] > 0 => net'[WithCount("allUp", a, j)] > 0
       /\ \A a \in Nodes, t \in Shards, x \in Sessions :
            net[WithSession("fromReady", a, t, x)] > 0 => net'[WithSession("fromReady", a, t, x)] > 0
  BY <1>1, <1>9, CarrierMessages DEF Carries
<1>20. EventsBeforeCount'
  BY <1>19 DEF EventsBeforeCount, CrashInv, CarryInv
<1>21. \A a \in Nodes : Waiting(a)' = Waiting(a)
  BY <1>7, <1>19 DEF Waiting
<1>22. EngagedOn
  BY <1>5, <1>7, <1>9, <1>12, <1>16, <1>21 DEF EngagedOn, Engaged
<1>23. WaitingTells'
  <2> SUFFICES ASSUME NEW a \in Nodes, Waiting(a) PROVE Expects(a)'
    BY <1>21 DEF WaitingTells
  <2>1. Expects(a) /\ a # d /\ Engaged(a)
    BY <1>1, <1>2 DEF Engaged, Expects, CrashInv, CarryInv, WaitingTells
  <2>2. migShard[a] # s /\ a # n
    BY <1>3, <1>15, <1>16, <2>1 DEF CrashInv, CarryInv, OneEngaged
  <2>3. \A x \in Msg : Carries(x)' => Destination(x)' # a
    BY <1>9, <1>12, <1>14, <2>1 DEF Expects
  <2>4. QED
    BY <1>7, <1>10, <2>1, <2>2, <2>3 DEF Expects
<1>24. OneEngaged'
  BY <1>22, OneEngagedKept DEF CrashInv, CarryInv
<1>25. MarkingAlive'
  <2>1. \A e \in Callers : pc[e] = "markTo" => call[e].from \in Nodes /\ call[e].from # n
    BY <1>3 DEF Linked, TypeOK, Call
  <2>2. QED
    BY <1>7, <1>10, <2>1 DEF CrashInv, CarryInv, MarkingAlive
<1>26. Ends'
  <2>1. \A a \in Nodes : gateway[a] = {} => gateway'[a] = {}
    BY <1>10
  <2>2. \A x \in Msg : net[x] \in Nat /\ net'[x] \in Nat
    BY DEF TypeOK
  <2>3. /\ panics = {} /\ \A a \in Nodes : connected[a] = ~dead[a]
        /\ \A a \in Nodes : dead[a] => gateway[a] = {} /\ \A x \in Msg : x.node = a => net[x] = 0
    BY DEF Ends, CrashInv, StartInv
  <2>4. ASSUME NEW a \in Nodes, dead[a], NEW x \in Msg, x.node = a PROVE net'[x] = 0
    <3>1. ~connected[x.node]
      BY <2>3, <2>4
    <3>2. ~(net[x] > 0)
      BY <2>3, <2>4
    <3>3. ~(net'[x] > 0)
      BY <1>9, <3>1, <3>2
    <3>4. QED
      BY <2>2, <3>3
  <2>5. QED
    BY <1>7, <2>1, <2>3, <2>4 DEF Ends
<1>27. OneGateway'
  BY <1>10 DEF OneGateway, CrashInv, StartInv
<1>28. ReportedAlive'
  <2>1. connected[n] = TRUE
    BY DEF PrepareFrom, CrashInv, StartInv, Ends, TypeOK
  <2>2. net'[w] > 0
    <3>1. m \notin {w} /\ m # w
      BY <1>1, <1>5
    <3>2. net'[w] = IF w = m THEN net[w] - 1
                    ELSE IF w \in {w} /\ connected[w.node] THEN net[w] + 1 ELSE net[w]
      BY <1>1, <1>5, <1>6, <3>1, AliveCounts
    <3>3. net[w] \in Nat
      BY <1>5 DEF TypeOK
    <3>4. QED
      BY <1>5, <2>1, <3>1, <3>2, <3>3
  <2> SUFFICES ASSUME NEW a \in Nodes, NEW t \in Shards, t \in running[a], ~dead[a]
               PROVE  t \in gateway'[a] \/ \E x \in Sessions : net'[WithSession("fromReady", a, t, x)] > 0
    BY <1>7 DEF ReportedAlive
  <2>3. CASE a = n /\ t = s
    BY <1>4, <1>8, <2>2, <2>3
  <2>4. CASE a # n \/ t # s
    <3>1. t \in gateway[a] \/ \E x \in Sessions : net[WithSession("fromReady", a, t, x)] > 0
      BY DEF CrashInv, StartInv, ReportedAlive
    <3>2. QED
      BY <1>10, <1>19, <2>4, <3>1
  <2>5. QED
    BY <2>3, <2>4
<1>29. RunsReported'
  BY <1>7, <1>10, <1>19 DEF RunsReported, CrashInv, StartInv
<1>30. StartedOnce'
  <2> SUFFICES ASSUME NEW a \in Nodes, NEW t \in Shards, net[M("started", a, t)] > 0
               PROVE  net[M("started", a, t)] = 1 /\ t \in gateway'[a] /\ t \notin running[a]
    BY <1>7, <1>19 DEF StartedOnce
  <2>1. net[M("started", a, t)] = 1 /\ t \in gateway[a] /\ t \notin running[a]
    BY DEF StartedOnce, CrashInv, StartInv
  <2>2. a # n \/ t # s
    BY <1>3, <2>1
  <2>3. QED
    BY <1>10, <2>1, <2>2
<1>31. StartingAlone'
  <2>1. \A a \in Nodes, t \in Shards : net[M("startShard", a, t)] > 0 => t # s
    BY <1>3 DEF StartingAlone, Nowhere, CrashInv, StartInv
  <2>2. QED
    BY <1>10, <1>19, <1>22, <2>1 DEF StartingAlone, EngagedOn, CrashInv, StartInv
<1>32. MovesOn'
  <2> SUFFICES ASSUME NEW a \in Nodes, NEW t, t = migShard[a], Engaged(a)', Nowhere(t)' PROVE InTransit(t)'
    BY <1>7 DEF MovesOn
  <2>1. Engaged(a) /\ t \in Shards
    BY <1>15, <1>22 DEF EngagedOn
  <2>2. CASE t = s
    <3>1. openedWith[s] < y
      BY <1>0 DEF SessionsOld, TypeOK
    <3>2. QED
      BY <1>7, <1>10, <2>2, <3>1 DEF InTransit, TypeOK
  <2>3. CASE t # s
    <3>1. Nowhere(t)
      BY <1>10, <2>1, <2>3 DEF Nowhere
    <3>2. QED
      BY <1>10, <2>1, <2>3, <3>1 DEF MovesOn, CrashInv, StartInv
  <2>4. QED
    BY <2>2, <2>3
<1>33. TransitMarked'
  BY <1>3, <1>7, <1>10, <1>11 DEF TransitMarked, CrashInv, StartInv
<1>34. QED
  BY <1>9, <1>18, <1>20, <1>23, <1>24, <1>25, <1>26, <1>27, <1>28, <1>29, <1>30, <1>31, <1>32, <1>33
  DEF CrashInv, CarryInv, StartInv

\* The transfer is complete: with m, the last user event or the number, nothing else of
\* n's migration is under way, and the shard's gateway is opened at n.
LEMMA FinishAlive ==
  ASSUME TypeOK, CrashInv, TypeOK', NEW n \in Nodes, NEW m \in Msg,
         m.kind \in {"allDown", "evtDown"}, ~dead[n],
         mode[n] = "to", migShard[n] \in Shards, nodeShard[n] = migShard[n], Nowhere(migShard[n]),
         session[n] = lastClosed[migShard[n]], Engaged(n),
         \A x \in Msg : Carries(x) /\ x # m => Destination(x) # n,
         m.kind = "allDown" => net[m] = 1 /\ Destination(m) = n,
         Finish(n, m)
  PROVE  CrashInv'
<1>0. PICK s : s = migShard[n]
  OBVIOUS
<1> DEFINE w == M("started", n, s)
<1>1. s \in Shards /\ Nowhere(s) /\ nodeShard[n] = s /\ session[n] = lastClosed[s] /\ migShard[n] = s
      /\ connected[n] = TRUE
  BY <1>0 DEF CrashInv, StartInv, Ends, TypeOK
<1>2. w \in Msg /\ w.kind = "started" /\ w.kind \notin Carriers /\ w.node = n /\ m # w
  BY <1>1, CarrierMessages
<1>3. w = M("started", n, s)
  OBVIOUS
<1>4. /\ Handle(m, {w})
      /\ gateway' = [gateway EXCEPT ![n] = @ \cup {s}]
      /\ openedWith' = [openedWith EXCEPT ![s] = lastClosed[s]]
      /\ nodeShard' = [nodeShard EXCEPT ![n] = NoShard]
      /\ session' = [session EXCEPT ![n] = 0]
      /\ total' = [total EXCEPT ![n] = -1]
  BY <1>1 DEF Finish
<1>5. UNCHANGED <<connected, running, mode, other, migShard, pc, call, dead, panics, lastClosed>>
  BY DEF Finish, orchVars, callVars
\* The shard was not reported, nor about to be.
<1>6. net[w] = 0 /\ s \notin running[n]
  <2>1. ~(net[w] > 0)
    BY <1>1, <1>3 DEF CrashInv, StartInv, StartedOnce, Nowhere
  <2>2. ASSUME s \in running[n] PROVE FALSE
    <3>1. PICK x \in Sessions : net[WithSession("fromReady", n, s, x)] > 0
      BY <1>1, <2>2 DEF CrashInv, StartInv, ReportedAlive, Nowhere
    <3>2. Tells(WithSession("fromReady", n, s, x))
      BY <1>1, <3>1, CarrierMessages DEF CrashInv, CarryInv, CarriersTell, Carries
    <3>3. Linked(n)
      BY <1>1, <3>2, CarrierMessages DEF Tells
    <3>4. QED
      BY <3>3 DEF Linked
  <2>3. net[w] \in Nat
    BY <1>2 DEF TypeOK
  <2>4. QED
    BY <2>1, <2>2, <2>3
<1> HIDE DEF w
<1>7. /\ net[m] > 0 /\ net'[w] = 1
      /\ \A x \in Msg : x # w => net'[x] = IF x = m THEN net[x] - 1 ELSE net[x]
      /\ \A x \in Msg : net[x] \in Nat
  <2>1. m \notin {w}
    BY <1>2
  <2>2. /\ net[m] > 0
        /\ \A x \in Msg : net'[x] = IF x = m THEN net[x] - 1
                                    ELSE IF x \in {w} /\ connected[x.node] THEN net[x] + 1 ELSE net[x]
    BY <1>4, <2>1, AliveCounts
  <2>3. QED
    BY <1>1, <1>2, <1>6, <2>2 DEF TypeOK
<1>8. \A x : Destination(x)' = Destination(x)
  BY <1>5 DEF Destination
<1>9. \A a : Linked(a)' = Linked(a)
  BY <1>5 DEF Linked
<1>10. \A x \in Msg : Carries(x)' <=> Carries(x) /\ x # m
  <2>1. m.kind = "evtDown" => m.kind \notin Carriers
    BY DEF Carriers, FromTokens, ToTokens
  <2>2. QED
    BY <1>2, <1>7, <2>1 DEF Carries
<1>11. OneCarrier'
  BY <1>2, <1>7, <1>8, <1>10 DEF OneCarrier, Carries, CrashInv, CarryInv
<1>12. /\ \A t \in Shards : t # s => InTransit(t)' = InTransit(t)
       /\ ~InTransit(s)'
       /\ \A a \in Nodes : gateway[a] \subseteq gateway'[a]
       /\ \A a \in Nodes : \A t \in gateway'[a] : t \in gateway[a] \/ (a = n /\ t = s)
       /\ s \in gateway'[n]
       /\ \A t : t # s /\ Nowhere(t) => Nowhere(t)'
       /\ \A a \in Nodes : a # n => /\ nodeShard'[a] = nodeShard[a] /\ total'[a] = total[a]
                                    /\ session'[a] = session[a]
       /\ total'[n] = -1
  BY <1>1, <1>4, <1>5 DEF TypeOK, InTransit, Nowhere
<1>13. \A a \in Nodes : Engaged(a) /\ a # n => migShard[a] # s
  BY <1>1 DEF CrashInv, CarryInv, OneEngaged
<1>14. ASSUME NEW x \in Msg, Carries(x), x # m PROVE Tells(x)'
  <2>0. PICK b, a, t : b = Destination(x) /\ a = Origin(x) /\ t = migShard[b]
    OBVIOUS
  <2>1. Tells(x) /\ x.kind \in Carriers
    BY <1>14 DEF CrashInv, CarryInv, CarriersTell, Carries
  <2>2. /\ b \in Nodes /\ mode[b] = "to" /\ t \in Shards /\ b # n
        /\ (x.kind # "allDown" => a \in Nodes /\ Linked(a) /\ other[a] = b)
        /\ IF x.kind = "prepFrom" THEN t \in gateway[a] /\ t \in running[a] ELSE Nowhere(t)
    BY <1>14, <2>0, <2>1 DEF Tells
  <2>3. t # s
    BY <1>13, <1>14, <2>0, <2>2 DEF Engaged
  <2>4. x.kind = "prepFrom" => a \in Nodes
    BY <2>2
  <2>5. QED
    BY <1>5, <1>9, <1>12, <2>0, <2>1, <2>2, <2>3, <2>4, TellsKept
<1>15. CarriersTell'
  BY <1>10, <1>14 DEF CarriersTell
<1>16. /\ \A k \in {"evtUp", "startShard"}, a \in Nodes, t \in Shards : net'[M(k, a, t)] = net[M(k, a, t)]
       /\ \A a \in Nodes, t \in Shards : net'[M("evtDown", a, t)] > 0 => net[M("evtDown", a, t)] > 0
       /\ \A a \in Nodes, t \in Shards :
            net'[M("started", a, t)] = IF a = n /\ t = s THEN 1 ELSE net[M("started", a, t)]
       /\ \A a \in Nodes, j \in 0 .. MaxEvents : net'[WithCount("allUp", a, j)] = net[WithCount("allUp", a, j)]
       /\ \A a \in Nodes, t \in Shards, x \in Sessions :
            net'[WithSession("fromReady", a, t, x)] = net[WithSession("fromReady", a, t, x)]
  <2>1. \A k \in {"evtUp", "startShard"}, a \in Nodes, t \in Shards :
          M(k, a, t) \in Msg /\ M(k, a, t) # m /\ M(k, a, t) # w
    BY <1>2, CarrierMessages
  <2>2. \A a \in Nodes, t \in Shards :
          M("started", a, t) \in Msg /\ M("started", a, t) # m /\ (M("started", a, t) = w <=> a = n /\ t = s)
    BY <1>3, CarrierMessages, SameMessage
  <2>3. \A a \in Nodes, j \in 0 .. MaxEvents :
          WithCount("allUp", a, j) \in Msg /\ WithCount("allUp", a, j) # m /\ WithCount("allUp", a, j) # w
    BY <1>2, CarrierMessages
  <2>4. \A a \in Nodes, t \in Shards, x \in Sessions :
          LET y == WithSession("fromReady", a, t, x) IN y \in Msg /\ y # m /\ y # w
    BY <1>2, CarrierMessages
  <2>5. ASSUME NEW a \in Nodes, NEW t \in Shards, net'[M("evtDown", a, t)] > 0
        PROVE  net[M("evtDown", a, t)] > 0
    <3>1. PICK x \in Msg : x = M("evtDown", a, t) /\ x.kind = "evtDown" /\ x # w
      BY <1>2, CarrierMessages
    <3>2. QED
      BY <1>7, <2>5, <3>1
  <2>6. QED
    BY <1>7, <2>1, <2>2, <2>3, <2>4, <2>5
<1>17. EventsBeforeCount'
  BY <1>16 DEF EventsBeforeCount, CrashInv, CarryInv
<1>18. \A a \in Nodes : Waiting(a)' => Waiting(a) /\ a # n
  BY <1>12, <1>16 DEF Waiting
<1>19. EngagedOn
  BY <1>5, <1>8, <1>10, <1>18 DEF EngagedOn, Engaged
<1>20. WaitingTells'
  <2> SUFFICES ASSUME NEW a \in Nodes, Waiting(a), a # n PROVE Expects(a)'
    BY <1>18 DEF WaitingTells
  <2>1. Expects(a) /\ Engaged(a)
    BY DEF Engaged, Expects, CrashInv, CarryInv, WaitingTells
  <2>2. migShard[a] # s
    BY <1>13, <2>1
  <2>3. \A x \in Msg : Carries(x)' => Destination(x)' # a
    BY <1>8, <1>10, <2>1 DEF Expects
  <2>4. QED
    BY <1>5, <1>12, <2>1, <2>2, <2>3 DEF Expects
<1>21. OneEngaged'
  BY <1>19, OneEngagedKept DEF CrashInv, CarryInv
<1>22. MarkingAlive'
  <2>1. \A e \in Callers : pc[e] = "markTo" => call[e].from \in Nodes
    BY DEF TypeOK, Call
  <2>2. QED
    BY <1>5, <1>12, <2>1 DEF CrashInv, CarryInv, MarkingAlive
<1>23. Ends'
  <2>1. \A x \in Msg : dead[x.node] /\ net[x] = 0 => net'[x] = 0
    BY <1>2, <1>7
  <2>2. \A a \in Nodes : dead[a] => gateway'[a] = gateway[a]
    BY <1>4 DEF TypeOK
  <2>3. QED
    BY <1>5, <2>1, <2>2 DEF Ends, CrashInv, StartInv
<1>24. OneGateway'
  BY <1>1, <1>12 DEF Nowhere, OneGateway, CrashInv, StartInv
<1>25. ReportedAlive'
  BY <1>5, <1>12, <1>16 DEF ReportedAlive, CrashInv, StartInv
<1>26. RunsReported'
  <2> SUFFICES ASSUME NEW a \in Nodes, NEW t \in Shards, t \in gateway'[a]
               PROVE  t \in running[a] \/ net'[M("started", a, t)] > 0
    BY <1>5 DEF RunsReported
  <2>1. CASE a = n /\ t = s
    BY <1>16, <2>1
  <2>2. CASE ~(a = n /\ t = s)
    BY <1>12, <1>16, <2>2 DEF RunsReported, CrashInv, StartInv
  <2>3. QED
    BY <2>1, <2>2
<1>27. StartedOnce'
  <2> SUFFICES ASSUME NEW a \in Nodes, NEW t \in Shards, net'[M("started", a, t)] > 0
               PROVE  net'[M("started", a, t)] = 1 /\ t \in gateway'[a] /\ t \notin running[a]
    BY <1>5 DEF StartedOnce
  <2>1. CASE a = n /\ t = s
    BY <1>6, <1>12, <1>16, <2>1
  <2>2. CASE ~(a = n /\ t = s)
    BY <1>12, <1>16, <2>2 DEF StartedOnce, CrashInv, StartInv
  <2>3. QED
    BY <2>1, <2>2
<1>28. StartingAlone'
  <2> SUFFICES ASSUME NEW a \in Nodes, NEW t \in Shards, net[M("startShard", a, t)] > 0 PROVE Nowhere(t)' /\ ~InTransit(t)'
    BY <1>5, <1>16, <1>19 DEF StartingAlone, EngagedOn, CrashInv, StartInv
  <2>1. QED
    BY <1>1, <1>12 DEF StartingAlone, CrashInv, StartInv
<1>29. TransitMarked'
  BY <1>5, <1>12 DEF TransitMarked, CrashInv, StartInv
<1>30. MovesOn'
  <2> SUFFICES ASSUME NEW a \in Nodes, NEW t, t = migShard[a], Engaged(a)', Nowhere(t)' PROVE InTransit(t)'
    BY <1>5 DEF MovesOn
  <2>1. Engaged(a) /\ a # n
    BY <1>8, <1>10, <1>18, <1>19 DEF EngagedOn, Engaged
  <2>2. t \in Shards /\ t # s
    BY <1>13, <2>1 DEF Engaged, CrashInv, CarryInv, CarriersTell, Tells, WaitingTells, Expects
  <2>3. Nowhere(t)
    BY <1>12 DEF Nowhere
  <2>4. QED
    BY <1>12, <2>1, <2>2, <2>3 DEF MovesOn, CrashInv, StartInv
<1>31. QED
  BY <1>11, <1>15, <1>17, <1>20, <1>21, <1>22, <1>23, <1>24, <1>25, <1>26, <1>27, <1>28, <1>29, <1>30
  DEF CrashInv, CarryInv, StartInv

\* A transfer is completed by the last user event or by the number, whichever comes last,
\* and the destination has the shard and its session in hand.
LEMMA AliveCompletion ==
  ASSUME TypeOK, CrashInv, NEW n \in Nodes,
         \/ \E s \in Shards : LastUserEvent(n, s)
         \/ \E k \in 0 .. MaxEvents : LateAllUserdataSent(n, k)
  PROVE  /\ ~dead[n] /\ mode[n] = "to" /\ migShard[n] \in Shards /\ nodeShard[n] = migShard[n]
         /\ Nowhere(migShard[n]) /\ session[n] = lastClosed[migShard[n]] /\ Engaged(n)
         /\ \E m \in Msg : /\ m.kind \in {"allDown", "evtDown"}
                           /\ \A x \in Msg : Carries(x) /\ x # m => Destination(x) # n
                           /\ m.kind = "allDown" => net[m] = 1 /\ Destination(m) = n
                           /\ Finish(n, m)
\* The number comes after the last user event, or there is none.
<1>1. CASE \E k \in 0 .. MaxEvents : LateAllUserdataSent(n, k)
  <2>0. PICK k \in 0 .. MaxEvents : LateAllUserdataSent(n, k)
    BY <1>1
  <2> DEFINE m == WithCount("allDown", n, k)
  <2>1. m \in Msg /\ m.kind = "allDown" /\ m.kind \in Carriers /\ Destination(m) = n
    BY CarrierMessages
  <2>2. net[m] > 0 /\ ~dead[n] /\ (Finish(n, m) \/ nodeShard[n] = NoShard)
    BY <2>0 DEF LateAllUserdataSent, Complete, Finish, FinishNothing, Handle
  <2> HIDE DEF m
  <2>3. Carries(m) /\ net[m] = 1 /\ Tells(m) /\ \A x \in Msg : Carries(x) /\ x # m => Destination(x) # n
    BY <2>1, <2>2 DEF CrashInv, CarryInv, CarriersTell, OneCarrier, Carries
  <2>4. /\ mode[n] = "to" /\ migShard[n] \in Shards /\ Nowhere(migShard[n]) /\ nodeShard[n] = migShard[n]
        /\ session[n] = lastClosed[migShard[n]]
    BY <2>1, <2>3 DEF Tells, Ready, Prepared
  <2>5. Finish(n, m) /\ Engaged(n)
    BY <2>1, <2>2, <2>3, <2>4, ShardAssumption DEF Engaged
  <2>6. QED
    BY <2>1, <2>2, <2>3, <2>4, <2>5
\* The last user event comes after their number.
<1>2. CASE \E s \in Shards : LastUserEvent(n, s)
  <2>0. PICK s \in Shards : LastUserEvent(n, s)
    BY <1>2
  <2> DEFINE m == M("evtDown", n, s)
  <2>1. m \in Msg /\ m.kind = "evtDown"
    BY CarrierMessages
  <2>2. net[m] > 0 /\ ~dead[n] /\ (Finish(n, m) \/ nodeShard[n] = NoShard) /\ total[n] # -1
    BY <2>0 DEF LastUserEvent, CompletesEvents, Complete, Finish, FinishNothing, Handle
  <2>3. Waiting(n)
    BY <2>2 DEF Waiting
  <2>4. Expects(n) /\ Engaged(n)
    BY <2>3 DEF Engaged, CrashInv, CarryInv, WaitingTells
  <2> HIDE DEF m
  <2>5. Finish(n, m)
    BY <2>2, <2>4, ShardAssumption DEF Expects
  <2>6. QED
    BY <2>1, <2>2, <2>4, <2>5 DEF Expects
<1>3. QED
  BY <1>1, <1>2

\* Completing a transfer keeps the invariant.
LEMMA CompletionAlive ==
  ASSUME TypeOK, CrashInv, TypeOK', NEW n \in Nodes,
         \/ \E s \in Shards : LastUserEvent(n, s)
         \/ \E k \in 0 .. MaxEvents : LateAllUserdataSent(n, k)
  PROVE  CrashInv'
BY AliveCompletion, FinishAlive

-----------------------------------------------------------------------------
(* The steps of a crash and of what follows it.                            *)

\* A node ends, and its connections and gateways with it.
LEMMA DieAlive ==
  ASSUME TypeOK, CrashInv, TypeOK', NEW n \in Nodes, Die(n)
  PROVE  CrashInv'
<1>1. /\ UNCHANGED <<running, mode, other, migShard, pc, call, nodeShard, session, total, lastClosed,
                     openedWith, panics>>
      /\ \A x \in Msg : net'[x] = IF x.node = n THEN 0 ELSE net[x]
      /\ \A a \in Nodes : a # n => /\ gateway'[a] = gateway[a] /\ dead'[a] = dead[a]
                                   /\ connected'[a] = connected[a]
      /\ gateway'[n] = {} /\ dead'[n] = TRUE /\ connected'[n] = FALSE
  BY DEF Die, Cut, callVars, transferVars, TypeOK
<1>2. /\ \A x : Destination(x)' = Destination(x)
      /\ \A a : Linked(a)' = Linked(a)
      /\ \A t : InTransit(t)' = InTransit(t)
      /\ \A t : Nowhere(t) => Nowhere(t)'
      /\ \A x \in Msg : Carries(x)' => Carries(x) /\ x.node # n /\ net'[x] = net[x]
  BY <1>1 DEF Destination, Linked, InTransit, Nowhere, Carries
<1>3. OneCarrier'
  BY <1>2 DEF OneCarrier, CrashInv, CarryInv
<1>4. ASSUME NEW x \in Msg, Carries(x), x.node # n PROVE Tells(x)'
  <2>0. PICK b, a, t : b = Destination(x) /\ a = Origin(x) /\ t = migShard[b]
    OBVIOUS
  <2>1. Tells(x) /\ x.kind \in Carriers
    BY <1>4 DEF CrashInv, CarryInv, CarriersTell, Carries
  <2>2. /\ (x.kind # "allDown" => a \in Nodes /\ Linked(a) /\ other[a] = b)
        /\ IF x.kind = "prepFrom" THEN t \in gateway[a] /\ t \in running[a] ELSE Nowhere(t)
    BY <2>0, <2>1 DEF Tells
  <2>3. x.kind = "prepFrom" => a \in Nodes /\ a # n
    BY <1>4, <2>0, <2>2 DEF Origin, FromTokens
  <2>4. QED
    BY <1>1, <1>2, <2>0, <2>1, <2>2, <2>3, TellsKept
<1>5. CarriersTell'
  BY <1>2, <1>4 DEF CarriersTell
<1>6. \A k \in {"evtUp", "evtDown", "started", "startShard"}, a \in Nodes, t \in Shards :
        net'[M(k, a, t)] = IF a = n THEN 0 ELSE net[M(k, a, t)]
  BY <1>1, CarrierMessages
<1>7. /\ \A a \in Nodes, j \in 0 .. MaxEvents : a # n =>
           net'[WithCount("allUp", a, j)] = net[WithCount("allUp", a, j)]
      /\ \A a \in Nodes, t \in Shards, x \in Sessions : a # n =>
           net'[WithSession("fromReady", a, t, x)] = net[WithSession("fromReady", a, t, x)]
  BY <1>1, CarrierMessages
<1>8. EventsBeforeCount'
  BY <1>6, <1>7 DEF EventsBeforeCount, CrashInv, CarryInv
<1>9. \A a \in Nodes : Waiting(a)' => Waiting(a)
  BY <1>1, <1>6 DEF Waiting
<1>10. EngagedOn
  BY <1>1, <1>2, <1>9 DEF EngagedOn, Engaged
<1>11. WaitingTells'
  BY <1>1, <1>2, <1>9 DEF WaitingTells, Expects, CrashInv, CarryInv
<1>12. OneEngaged'
  BY <1>10, OneEngagedKept DEF CrashInv, CarryInv
<1>13. MarkingAlive'
  <2>1. \A e \in Callers : pc[e] = "markTo" => call[e].from \in Nodes
    BY DEF TypeOK, Call
  <2>2. QED
    BY <1>1, <2>1 DEF CrashInv, CarryInv, MarkingAlive
<1>14. Ends'
  <2>1. panics' = {} /\ \A a \in Nodes : connected'[a] = ~dead'[a]
    BY <1>1 DEF Ends, CrashInv, StartInv
  <2>2. ASSUME NEW a \in Nodes, dead'[a] PROVE gateway'[a] = {} /\ \A x \in Msg : x.node = a => net'[x] = 0
    BY <1>1, <2>2 DEF Ends, CrashInv, StartInv
  <2>3. QED
    BY <2>1, <2>2 DEF Ends
<1>15. OneGateway' /\ ReportedAlive' /\ RunsReported' /\ StartedOnce'
  BY <1>1, <1>6, <1>7 DEF OneGateway, ReportedAlive, RunsReported, StartedOnce, CrashInv, StartInv
<1>16. StartingAlone'
  BY <1>2, <1>6, <1>10 DEF StartingAlone, EngagedOn, CrashInv, StartInv
<1>17. TransitMarked'
  BY <1>1, <1>2 DEF TransitMarked, CrashInv, StartInv
<1>18. MovesOn'
  <2> SUFFICES ASSUME NEW a \in Nodes, NEW t, t = migShard[a], Engaged(a)', Nowhere(t)' PROVE InTransit(t)
    BY <1>1, <1>2 DEF MovesOn
  <2>1. Nowhere(t)
    <3>1. CASE Waiting(a)
      BY <3>1 DEF CrashInv, CarryInv, WaitingTells, Expects
    <3>2. CASE \E x \in Msg : Carries(x)' /\ Destination(x) = a
      <4>1. PICK x \in Msg : Carries(x)' /\ Destination(x) = a
        BY <3>2
      <4>2. Tells(x) /\ Tells(x)'
        BY <1>2, <1>4, <4>1 DEF CrashInv, CarryInv, CarriersTell
      <4>3. Destination(x)' = a /\ migShard'[a] = t
        BY <1>1, <1>2, <4>1
      <4>4. x.kind # "prepFrom"
        BY <4>2, <4>3 DEF Tells, Nowhere
      <4>5. QED
        BY <4>1, <4>2, <4>4 DEF Tells
    <3>3. QED
      BY <1>2, <1>9, <3>1, <3>2 DEF Engaged
  <2>2. QED
    BY <1>10, <2>1 DEF EngagedOn, MovesOn, CrashInv, StartInv
<1>19. QED
  BY <1>3, <1>5, <1>8, <1>11, <1>12, <1>13, <1>14, <1>15, <1>16, <1>17, <1>18
  DEF CrashInv, CarryInv, StartInv

\* The monitor starts a shard that is nobody's: it runs nowhere, for what runs is reported or
\* about to be, and no migration of it goes on, for its destination is marked.
LEMMA MonitorStartAlive ==
  ASSUME TypeOK, CrashInv, TypeOK', NEW n \in Nodes, NEW s \in Shards, MonitorStart(n, s)
  PROVE  CrashInv'
<1> DEFINE w == M("startShard", n, s)
<1>1. w \in Msg /\ w.kind = "startShard" /\ w.kind \notin Carriers /\ w.node = n
  BY CarrierMessages
<1>2. w = M("startShard", n, s)
  OBVIOUS
<1>3. /\ Send({w}) /\ connected[n] /\ ~Reported(s) /\ ~MarkedMigrating(s)
      /\ \A a \in Nodes : net[M("startShard", a, s)] = 0 /\ net[M("started", a, s)] = 0
  BY DEF MonitorStart
<1> HIDE DEF w
<1>4. UNCHANGED <<mode, other, migShard, gateway, lastClosed, openedWith, connected, dead, panics, running,
                  nodeShard, total, session, pc, call>>
  BY DEF MonitorStart, orchVars, callVars, transferVars, gatewayVars
<1>5. \A x \in Msg : net'[x] = IF x = w THEN 1 ELSE net[x]
  <2>1. net[w] = 0 /\ \A x \in Msg : net[x] \in Nat
    BY <1>2, <1>3 DEF TypeOK
  <2>2. QED
    BY <1>1, <1>3, <2>1 DEF Send, One
<1>6. Nowhere(s)
  <2> SUFFICES ASSUME NEW a \in Nodes, s \in gateway[a] PROVE FALSE
    BY DEF Nowhere
  <2>1. s \in running[a]
    BY <1>3 DEF RunsReported, CrashInv, StartInv
  <2>2. connected[a]
    BY DEF Ends, CrashInv, StartInv
  <2>3. QED
    BY <1>3, <2>1, <2>2 DEF Reported
<1>7. ~InTransit(s) /\ \A a \in Nodes : Engaged(a) => migShard[a] # s
  <2>1. ~InTransit(s)
    BY <1>3 DEF MarkedMigrating, TransitMarked, CrashInv, StartInv
  <2>2. \A a \in Nodes : Engaged(a) => migShard[a] # s
    BY <1>3 DEF MarkedMigrating, Engaged, CrashInv, CarryInv, CarriersTell, Tells, WaitingTells, Expects
  <2>3. QED
    BY <2>1, <2>2
<1>8. /\ \A t : Nowhere(t)' = Nowhere(t)
      /\ \A t : InTransit(t)' = InTransit(t)
      /\ \A a : Linked(a)' = Linked(a)
      /\ \A x : Destination(x)' = Destination(x)
      /\ \A x \in Msg : Carries(x)' = Carries(x) /\ (Carries(x) => net'[x] = net[x])
  BY <1>1, <1>4, <1>5 DEF Nowhere, InTransit, Linked, Destination, Carries
<1>9. OneCarrier'
  BY <1>8 DEF OneCarrier, CrashInv, CarryInv
<1>10. CarriersTell'
  <2> SUFFICES ASSUME NEW x \in Msg, Carries(x) PROVE Tells(x)'
    BY <1>8 DEF CarriersTell
  <2>0. PICK b, a, t : b = Destination(x) /\ a = Origin(x) /\ t = migShard[b]
    OBVIOUS
  <2>1. Tells(x) /\ x.kind \in Carriers
    BY DEF CrashInv, CarryInv, CarriersTell, Carries
  <2>2. /\ (x.kind # "allDown" => a \in Nodes /\ Linked(a) /\ other[a] = b)
        /\ IF x.kind = "prepFrom" THEN t \in gateway[a] /\ t \in running[a] ELSE Nowhere(t)
    BY <2>0, <2>1 DEF Tells
  <2>3. QED
    BY <1>4, <1>8, <2>0, <2>1, <2>2, TellsKept
<1>11. /\ \A k \in {"evtUp", "evtDown", "started"}, a \in Nodes, t \in Shards : net'[M(k, a, t)] = net[M(k, a, t)]
       /\ \A a \in Nodes, t \in Shards :
            net'[M("startShard", a, t)] = IF a = n /\ t = s THEN 1 ELSE net[M("startShard", a, t)]
       /\ \A a \in Nodes, j \in 0 .. MaxEvents : net'[WithCount("allUp", a, j)] = net[WithCount("allUp", a, j)]
       /\ \A a \in Nodes, t \in Shards, x \in Sessions :
            net'[WithSession("fromReady", a, t, x)] = net[WithSession("fromReady", a, t, x)]
  <2>1. \A k \in {"evtUp", "evtDown", "started"}, a \in Nodes, t \in Shards :
          M(k, a, t) \in Msg /\ M(k, a, t) # w
    BY <1>1, CarrierMessages
  <2>2. \A a \in Nodes, t \in Shards :
          M("startShard", a, t) \in Msg /\ (M("startShard", a, t) = w <=> a = n /\ t = s)
    BY <1>2, CarrierMessages, SameMessage
  <2>3. \A a \in Nodes, j \in 0 .. MaxEvents : WithCount("allUp", a, j) \in Msg /\ WithCount("allUp", a, j) # w
    BY <1>1, CarrierMessages
  <2>4. \A a \in Nodes, t \in Shards, x \in Sessions :
          WithSession("fromReady", a, t, x) \in Msg /\ WithSession("fromReady", a, t, x) # w
    BY <1>1, CarrierMessages
  <2>5. QED
    BY <1>5, <2>1, <2>2, <2>3, <2>4
<1>12. EventsBeforeCount'
  BY <1>11 DEF EventsBeforeCount, CrashInv, CarryInv
<1>13. \A a \in Nodes : Waiting(a)' = Waiting(a)
  BY <1>4, <1>11 DEF Waiting
<1>14. EngagedOn /\ \A a \in Nodes : Engaged(a)' = Engaged(a)
  BY <1>4, <1>8, <1>13 DEF EngagedOn, Engaged
<1>15. WaitingTells'
  BY <1>4, <1>8, <1>13 DEF WaitingTells, Expects, CrashInv, CarryInv
<1>16. OneEngaged'
  BY <1>14, OneEngagedKept DEF CrashInv, CarryInv
<1>17. MarkingAlive'
  BY <1>4 DEF CrashInv, CarryInv, MarkingAlive
<1>18. Ends'
  <2>1. ~dead[n]
    BY <1>3 DEF Ends, CrashInv, StartInv
  <2>2. \A x \in Msg : dead[x.node] => net'[x] = net[x]
    BY <1>1, <1>5, <2>1
  <2>3. QED
    BY <1>4, <2>2 DEF Ends, CrashInv, StartInv
<1>19. OneGateway' /\ ReportedAlive' /\ RunsReported' /\ StartedOnce'
  BY <1>4, <1>11 DEF OneGateway, ReportedAlive, RunsReported, StartedOnce, CrashInv, StartInv
<1>20. StartingAlone'
  <2> SUFFICES ASSUME NEW a \in Nodes, NEW t \in Shards, net'[M("startShard", a, t)] > 0
               PROVE  /\ Nowhere(t) /\ ~InTransit(t) /\ net'[M("startShard", a, t)] = 1
                      /\ \A b \in Nodes : net'[M("startShard", b, t)] > 0 => b = a
                      /\ \A b \in Nodes : Engaged(b) => migShard[b] # t
    BY <1>4, <1>8, <1>14 DEF StartingAlone
  <2>1. CASE t = s
    BY <1>3, <1>6, <1>7, <1>11, <2>1
  <2>2. CASE t # s
    BY <1>11, <2>2 DEF StartingAlone, CrashInv, StartInv
  <2>3. QED
    BY <2>1, <2>2
<1>21. TransitMarked' /\ MovesOn'
  BY <1>4, <1>8, <1>14 DEF TransitMarked, MovesOn, CrashInv, StartInv
<1>22. QED
  BY <1>9, <1>10, <1>12, <1>15, <1>16, <1>17, <1>18, <1>19, <1>20, <1>21 DEF CrashInv, CarryInv, StartInv

\* The node opens a new gateway: the shard ran nowhere and nobody else was told to start it.
LEMMA NodeStartShardAlive ==
  ASSUME TypeOK, CrashInv, TypeOK', NEW n \in Nodes, NEW s \in Shards, NodeStartShard(n, s)
  PROVE  CrashInv'
<1> DEFINE m == M("startShard", n, s)
           w == M("started", n, s)
<1>1. /\ m \in Msg /\ m.kind = "startShard" /\ m.kind \notin Carriers
      /\ w \in Msg /\ w.kind = "started" /\ w.kind \notin Carriers /\ w.node = n /\ m # w
  BY CarrierMessages
<1>2. m = M("startShard", n, s) /\ w = M("started", n, s)
  OBVIOUS
<1>3. Handle(m, {w}) /\ net[m] > 0 /\ ~dead[n]
  BY DEF NodeStartShard, Handle
<1>4. /\ Nowhere(s) /\ net[m] = 1
      /\ \A a \in Nodes : net[M("startShard", a, s)] > 0 => a = n
      /\ \A a \in Nodes : Engaged(a) => migShard[a] # s
      /\ connected[n] = TRUE
  BY <1>3 DEF CrashInv, StartInv, StartingAlone, Ends, TypeOK
<1>5. /\ gateway' = [gateway EXCEPT ![n] = @ \cup {s}]
      /\ lastClosed' = [lastClosed EXCEPT ![s] = 0] /\ openedWith' = [openedWith EXCEPT ![s] = 0]
  BY <1>4 DEF NodeStartShard, Nowhere
<1>6. UNCHANGED <<connected, running, mode, other, migShard, pc, call, nodeShard, session, total, dead, panics>>
  BY DEF NodeStartShard, orchVars, callVars, transferVars
\* The shard was not reported, nor about to be.
<1>7. net[w] = 0 /\ s \notin running[n]
  <2>1. ~(net[w] > 0)
    BY <1>2, <1>4 DEF CrashInv, StartInv, StartedOnce, Nowhere
  <2>2. ASSUME s \in running[n] PROVE FALSE
    <3>1. PICK x \in Sessions : net[WithSession("fromReady", n, s, x)] > 0
      BY <1>3, <1>4, <2>2 DEF CrashInv, StartInv, ReportedAlive, Nowhere
    <3>2. PICK y \in Msg : y = WithSession("fromReady", n, s, x)
      BY CarrierMessages
    <3>3. Carries(y) /\ Tells(y) /\ y.kind = "fromReady" /\ y.shard = s
      BY <3>1, <3>2, CarrierMessages DEF CrashInv, CarryInv, CarriersTell, Carries
    <3>4. Destination(y) \in Nodes /\ migShard[Destination(y)] = s /\ Engaged(Destination(y))
      BY <3>3 DEF Tells, Engaged
    <3>5. QED
      BY <1>4, <3>4
  <2>3. net[w] \in Nat
    BY <1>1 DEF TypeOK
  <2>4. QED
    BY <2>1, <2>2, <2>3
<1> HIDE DEF m, w
<1>8. \A x \in Msg : net'[x] = IF x = m THEN 0 ELSE IF x = w THEN 1 ELSE net[x]
  <2>1. m \notin {w}
    BY <1>1
  <2>2. \A x \in Msg : net'[x] = IF x = m THEN net[x] - 1
                                 ELSE IF x \in {w} /\ connected[x.node] THEN net[x] + 1 ELSE net[x]
    BY <1>1, <1>3, <2>1, AliveCounts
  <2>3. QED
    BY <1>1, <1>4, <1>7, <2>2
<1>9. /\ \A a : Linked(a)' = Linked(a)
      /\ \A x : Destination(x)' = Destination(x)
      /\ \A x \in Msg : Carries(x)' = Carries(x) /\ (Carries(x) => net'[x] = net[x])
  BY <1>1, <1>6, <1>8 DEF Linked, Destination, Carries
<1>10. OneCarrier'
  BY <1>9 DEF OneCarrier, CrashInv, CarryInv
<1>11. /\ \A t \in Shards : t # s => InTransit(t)' = InTransit(t) /\ lastClosed'[t] = lastClosed[t]
       /\ ~InTransit(s)'
       /\ \A a \in Nodes : gateway[a] \subseteq gateway'[a]
       /\ \A a \in Nodes : \A t \in gateway'[a] : t \in gateway[a] \/ (a = n /\ t = s)
       /\ s \in gateway'[n]
       /\ \A t : t # s /\ Nowhere(t) => Nowhere(t)'
  BY <1>4, <1>5 DEF TypeOK, InTransit, Nowhere
<1>12. ASSUME NEW x \in Msg, Carries(x) PROVE Tells(x)'
  <2>0. PICK b, a, t : b = Destination(x) /\ a = Origin(x) /\ t = migShard[b]
    OBVIOUS
  <2>1. Tells(x) /\ x.kind \in Carriers
    BY <1>12 DEF CrashInv, CarryInv, CarriersTell, Carries
  <2>2. /\ b \in Nodes /\ t \in Shards
        /\ (x.kind # "allDown" => a \in Nodes /\ Linked(a) /\ other[a] = b)
        /\ IF x.kind = "prepFrom" THEN t \in gateway[a] /\ t \in running[a] ELSE Nowhere(t)
    BY <2>0, <2>1 DEF Tells
  <2>3. t # s
    BY <1>4, <1>12, <2>0, <2>2 DEF Engaged
  <2>4. x.kind = "prepFrom" => a \in Nodes
    BY <2>2
  <2>5. QED
    BY <1>6, <1>9, <1>11, <2>0, <2>1, <2>2, <2>3, <2>4, TellsKept
<1>13. CarriersTell'
  BY <1>9, <1>12 DEF CarriersTell
<1>14. /\ \A k \in {"evtUp", "evtDown"}, a \in Nodes, t \in Shards : net'[M(k, a, t)] = net[M(k, a, t)]
       /\ \A a \in Nodes, t \in Shards :
            net'[M("startShard", a, t)] = IF a = n /\ t = s THEN 0 ELSE net[M("startShard", a, t)]
       /\ \A a \in Nodes, t \in Shards :
            net'[M("started", a, t)] = IF a = n /\ t = s THEN 1 ELSE net[M("started", a, t)]
       /\ \A a \in Nodes, j \in 0 .. MaxEvents : net'[WithCount("allUp", a, j)] = net[WithCount("allUp", a, j)]
       /\ \A a \in Nodes, t \in Shards, x \in Sessions :
            net'[WithSession("fromReady", a, t, x)] = net[WithSession("fromReady", a, t, x)]
  <2>1. \A k \in {"evtUp", "evtDown"}, a \in Nodes, t \in Shards :
          M(k, a, t) \in Msg /\ M(k, a, t) # m /\ M(k, a, t) # w
    BY <1>1, CarrierMessages
  <2>2. \A a \in Nodes, t \in Shards :
          /\ M("startShard", a, t) \in Msg /\ (M("startShard", a, t) = m <=> a = n /\ t = s)
          /\ M("startShard", a, t) # w
    BY <1>1, <1>2, CarrierMessages, SameMessage
  <2>3. \A a \in Nodes, t \in Shards :
          /\ M("started", a, t) \in Msg /\ (M("started", a, t) = w <=> a = n /\ t = s)
          /\ M("started", a, t) # m
    BY <1>1, <1>2, CarrierMessages, SameMessage
  <2>4. \A a \in Nodes, j \in 0 .. MaxEvents :
          WithCount("allUp", a, j) \in Msg /\ WithCount("allUp", a, j) # m /\ WithCount("allUp", a, j) # w
    BY <1>1, CarrierMessages
  <2>5. \A a \in Nodes, t \in Shards, x \in Sessions :
          LET y == WithSession("fromReady", a, t, x) IN y \in Msg /\ y # m /\ y # w
    BY <1>1, CarrierMessages
  <2>6. QED
    BY <1>8, <2>1, <2>2, <2>3, <2>4, <2>5
<1>15. EventsBeforeCount'
  BY <1>14 DEF EventsBeforeCount, CrashInv, CarryInv
<1>16. \A a \in Nodes : Waiting(a)' = Waiting(a)
  BY <1>6, <1>14 DEF Waiting
<1>17. EngagedOn /\ \A a \in Nodes : Engaged(a)' = Engaged(a)
  BY <1>6, <1>9, <1>16 DEF EngagedOn, Engaged
<1>18. WaitingTells'
  <2> SUFFICES ASSUME NEW a \in Nodes, Waiting(a) PROVE Expects(a)'
    BY <1>16 DEF WaitingTells
  <2>1. Expects(a) /\ migShard[a] # s
    BY <1>4 DEF Engaged, CrashInv, CarryInv, WaitingTells
  <2>2. QED
    BY <1>6, <1>9, <1>11, <2>1 DEF Expects
<1>19. OneEngaged'
  BY <1>17, OneEngagedKept DEF CrashInv, CarryInv
<1>20. MarkingAlive'
  <2>1. \A e \in Callers : pc[e] = "markTo" => call[e].from \in Nodes
    BY DEF TypeOK, Call
  <2>2. QED
    BY <1>6, <1>11, <2>1 DEF CrashInv, CarryInv, MarkingAlive
<1>21. Ends'
  <2>1. \A x \in Msg : dead[x.node] /\ net[x] = 0 => net'[x] = 0
    BY <1>1, <1>3, <1>8
  <2>2. \A a \in Nodes : dead[a] => gateway'[a] = gateway[a]
    BY <1>3, <1>5 DEF TypeOK
  <2>3. QED
    BY <1>6, <2>1, <2>2 DEF Ends, CrashInv, StartInv
<1>22. OneGateway'
  BY <1>4, <1>11 DEF Nowhere, OneGateway, CrashInv, StartInv
<1>23. ReportedAlive'
  BY <1>6, <1>11, <1>14 DEF ReportedAlive, CrashInv, StartInv
<1>24. RunsReported'
  <2> SUFFICES ASSUME NEW a \in Nodes, NEW t \in Shards, t \in gateway'[a]
               PROVE  t \in running[a] \/ net'[M("started", a, t)] > 0
    BY <1>6 DEF RunsReported
  <2>1. CASE a = n /\ t = s
    BY <1>14, <2>1
  <2>2. CASE ~(a = n /\ t = s)
    BY <1>11, <1>14, <2>2 DEF RunsReported, CrashInv, StartInv
  <2>3. QED
    BY <2>1, <2>2
<1>25. StartedOnce'
  <2> SUFFICES ASSUME NEW a \in Nodes, NEW t \in Shards, net'[M("started", a, t)] > 0
               PROVE  net'[M("started", a, t)] = 1 /\ t \in gateway'[a] /\ t \notin running[a]
    BY <1>6 DEF StartedOnce
  <2>1. CASE a = n /\ t = s
    BY <1>7, <1>11, <1>14, <2>1
  <2>2. CASE ~(a = n /\ t = s)
    BY <1>11, <1>14, <2>2 DEF StartedOnce, CrashInv, StartInv
  <2>3. QED
    BY <2>1, <2>2
<1>26. StartingAlone'
  <2> SUFFICES ASSUME NEW a \in Nodes, NEW t \in Shards, net'[M("startShard", a, t)] > 0
               PROVE  /\ Nowhere(t)' /\ ~InTransit(t)' /\ net'[M("startShard", a, t)] = 1
                      /\ \A b \in Nodes : net'[M("startShard", b, t)] > 0 => b = a
                      /\ \A b \in Nodes : Engaged(b) => migShard[b] # t
    BY <1>6, <1>17 DEF StartingAlone
  <2>1. t # s /\ net[M("startShard", a, t)] > 0
    BY <1>4, <1>14
  <2>2. QED
    BY <1>11, <1>14, <2>1 DEF StartingAlone, CrashInv, StartInv
<1>27. TransitMarked'
  BY <1>6, <1>11 DEF TransitMarked, CrashInv, StartInv
<1>28. MovesOn'
  <2> SUFFICES ASSUME NEW a \in Nodes, NEW t, t = migShard[a], Engaged(a), Nowhere(t)' PROVE InTransit(t)'
    BY <1>6, <1>17 DEF MovesOn
  <2>1. t \in Shards /\ t # s
    BY <1>4 DEF Engaged, CrashInv, CarryInv, CarriersTell, Tells, WaitingTells, Expects
  <2>2. Nowhere(t)
    BY <1>11 DEF Nowhere
  <2>3. QED
    BY <1>11, <2>1, <2>2 DEF MovesOn, CrashInv, StartInv
<1>29. QED
  BY <1>10, <1>13, <1>15, <1>18, <1>19, <1>20, <1>21, <1>22, <1>23, <1>24, <1>25, <1>26, <1>27, <1>28
  DEF CrashInv, CarryInv, StartInv

-----------------------------------------------------------------------------
(* CrashInv is inductive, and what follows from it.                        *)

\* It holds at the start.
LEMMA CrashInit == Init => CrashInv
<1> SUFFICES ASSUME Init PROVE CrashInv
  OBVIOUS
<1>1. \A m \in Msg : ~(net[m] > 0) /\ net[m] = 0
  BY DEF Init
<1>2. \A k \in {"evtUp", "evtDown", "started", "startShard"}, a \in Nodes, t \in Shards : ~(net[M(k, a, t)] > 0)
  BY <1>1, CarrierMessages
<1>3. \A a \in Nodes : ~Waiting(a)
  BY <1>2 DEF Waiting
<1>4. \A m \in Msg : ~Carries(m)
  BY <1>1 DEF Carries
<1>5. OneCarrier /\ CarriersTell /\ WaitingTells /\ OneEngaged
  BY <1>3, <1>4 DEF OneCarrier, CarriersTell, WaitingTells, OneEngaged, Engaged
<1>6. EventsBeforeCount /\ MarkingAlive
  BY <1>2 DEF EventsBeforeCount, MarkingAlive, Init
<1>7. Ends
  BY <1>1 DEF Ends, Init
<1>8. OneGateway
  BY DEF OneGateway, Init
<1>9. ReportedAlive /\ RunsReported
  BY DEF ReportedAlive, RunsReported, Init
<1>10. StartedOnce /\ StartingAlone /\ MovesOn
  BY <1>2, <1>3, <1>4 DEF StartedOnce, StartingAlone, MovesOn, Engaged
<1>11. TransitMarked
  BY DEF TransitMarked, InTransit, Init
<1>12. QED
  BY <1>5, <1>6, <1>7, <1>8, <1>9, <1>10, <1>11 DEF CrashInv, CarryInv, StartInv

\* Calls, nodes, the orchestrator, the monitor and the end of a process all keep it.
LEMMA CrashInvStep == TypeOK /\ OwnershipInv /\ [Next \/ CrashStep]_vars => CrashInv'
<1> SUFFICES ASSUME TypeOK, CrashInv, SessionsOld, [Next \/ CrashStep]_vars PROVE CrashInv'
  BY DEF OwnershipInv
<1>0. TypeOK'
  BY CrashTypeStep
<1>1. CASE UNCHANGED vars
  BY <1>0, <1>1, StutterAlive
<1>2. CASE Migrate
  BY <1>0, <1>2, UnmarkedCallAlive, MarkFromAlive, MarkToAlive, BusyDestinationAlive DEF Migrate, CallStep
<1>3. CASE NodeStep
  BY <1>0, <1>3, PrepareFromAlive, SendUserEventsAlive, PrepareToAlive, UserEventAlive,
     AllUserdataSentAlive, CompletionAlive DEF NodeStep
<1>4. CASE OrchestratorStep
  BY <1>0, <1>4, OnFromReadyAlive, OnToReadyAlive, OnUserEventAlive, OnStartedAlive, OnAllUserdataSentAlive
  DEF OrchestratorStep
<1>5. CASE CrashStep
  BY <1>0, <1>5, DieAlive, MonitorStartAlive, NodeStartShardAlive DEF CrashStep
<1>6. QED
  BY <1>1, <1>2, <1>3, <1>4, <1>5 DEF Next

\* A step opens or closes no gateway unless it is one of these.
LEMMA GatewaySteps ==
  ASSUME [Next \/ CrashStep]_vars
  PROVE  \/ UNCHANGED <<gateway, closes, lastClosed, openedWith>>
         \/ \E n \in Nodes, s \in Shards : PrepareFrom(n, s) \/ NodeStartShard(n, s)
         \/ \E n \in Nodes, s \in Shards : LastUserEvent(n, s)
         \/ \E n \in Nodes, k \in 0 .. MaxEvents : LateAllUserdataSent(n, k)
         \/ \E n \in Nodes : Die(n)
<1>1. CASE UNCHANGED vars
  BY <1>1 DEF vars, gatewayVars
<1>2. CASE Migrate
  BY <1>2 DEF Migrate, CallStep, FindOrigin, MarkFrom, RefuseFrom, MarkTo, BusyDestination, gatewayVars
<1>3. CASE OrchestratorStep
  BY <1>3 DEF OrchestratorStep, OnFromReady, OnToReady, OnUserEvent, OnStarted, OnAllUserdataSent, gatewayVars
<1>4. CASE NodeStep
  <2>1. ASSUME NEW n \in Nodes, NEW s \in Shards, NEW k, NEW x,
               SendUserEvents(n, s, k) \/ PrepareTo(n, s, x) \/ UserEvent(n, s) \/ AllUserdataSent(n, k)
        PROVE  UNCHANGED <<gateway, closes, lastClosed, openedWith>>
    BY <2>1 DEF SendUserEvents, PrepareTo, UserEvent, AllUserdataSent, gatewayVars
  <2>2. ASSUME NEW n \in Nodes, NEW k, AllUserdataSent(n, k)
        PROVE  UNCHANGED <<gateway, closes, lastClosed, openedWith>>
    BY <2>2 DEF AllUserdataSent, gatewayVars
  <2>3. QED
    BY <1>4, <2>1, <2>2 DEF NodeStep
<1>5. CASE CrashStep
  <2>1. ASSUME NEW n \in Nodes, NEW s \in Shards, MonitorStart(n, s)
        PROVE  UNCHANGED <<gateway, closes, lastClosed, openedWith>>
    BY <2>1 DEF MonitorStart, gatewayVars
  <2>2. QED
    BY <1>5, <2>1 DEF CrashStep
<1>6. QED
  BY <1>1, <1>2, <1>3, <1>4, <1>5 DEF Next

\* Sessions are numbered upwards: a gateway is closed with a new number, and one that is open
\* has been opened with the number closed last.
LEMMA SessionsOldStep ==
  TypeOK /\ OwnershipInv /\ CrashInv' /\ [Next \/ CrashStep]_vars => SessionsOld'
<1> SUFFICES ASSUME TypeOK, CrashInv, SessionsOld, CrashInv', [Next \/ CrashStep]_vars
             PROVE  SessionsOld'
  BY DEF OwnershipInv
<1>0. TypeOK'
  BY CrashTypeStep
<1>1. CASE UNCHANGED <<closes, lastClosed, openedWith>>
  BY <1>1 DEF SessionsOld
<1>2. ASSUME NEW n \in Nodes, NEW s \in Shards, PrepareFrom(n, s) PROVE SessionsOld'
  <2>1. closes' >= closes /\ openedWith' = openedWith
    BY <1>2 DEF PrepareFrom, TypeOK
  <2>2. \A t \in Shards : lastClosed'[t] = lastClosed[t] \/ lastClosed'[t] = closes'
    BY <1>2 DEF PrepareFrom, TypeOK
  <2>3. ASSUME NEW t \in Shards PROVE lastClosed'[t] <= closes' /\ openedWith'[t] <= closes'
    <3>1. lastClosed[t] <= closes /\ openedWith[t] <= closes
      BY DEF SessionsOld
    <3>2. /\ lastClosed[t] \in Nat /\ openedWith[t] \in Nat /\ closes \in Nat /\ closes' \in Nat
      BY <1>0 DEF TypeOK
    <3>3. QED
      BY <2>1, <2>2, <3>1, <3>2
  <2>4. QED
    BY <2>3 DEF SessionsOld
<1>3. ASSUME NEW n \in Nodes, NEW m, Finish(n, m) PROVE SessionsOld'
  <2>1. PICK s : s = nodeShard[n]
    OBVIOUS
  <2>2. s \in Shards /\ s \in gateway'[n] /\ closes' = closes /\ lastClosed' = lastClosed
    BY <1>3, <2>1 DEF Finish, TypeOK
  <2>3. lastClosed'[s] = openedWith'[s]
    BY <2>2 DEF CrashInv, StartInv, TransitMarked, InTransit, Nowhere
  <2>4. \A t \in Shards : t # s => openedWith'[t] = openedWith[t]
    BY <1>3, <2>1 DEF Finish, TypeOK
  <2>5. QED
    BY <2>2, <2>3, <2>4 DEF SessionsOld
<1>4. ASSUME NEW n \in Nodes, NEW s \in Shards, NodeStartShard(n, s) PROVE SessionsOld'
  <2>1. \A t \in Shards : /\ lastClosed'[t] \in {lastClosed[t], 0}
                          /\ openedWith'[t] \in {openedWith[t], 0}
    BY <1>4 DEF NodeStartShard, TypeOK
  <2>2. closes' = closes /\ 0 <= closes
    BY <1>4 DEF NodeStartShard, TypeOK
  <2>3. QED
    BY <2>1, <2>2 DEF SessionsOld
<1>5. ASSUME NEW n \in Nodes,
             \/ \E s \in Shards : LastUserEvent(n, s)
             \/ \E k \in 0 .. MaxEvents : LateAllUserdataSent(n, k)
      PROVE  SessionsOld'
  BY <1>3, <1>5, AliveCompletion
<1>6. ASSUME NEW n \in Nodes, Die(n) PROVE SessionsOld'
  BY <1>1, <1>6 DEF Die
<1>7. QED
  BY <1>1, <1>2, <1>4, <1>5, <1>6, GatewaySteps

\* While processes end and the monitor starts shards: no two migrations of one shard go on,
\* nobody else opens a gateway the migration has closed or is about to, and no shard's
\* gateway is open on two nodes.
THEOREM CrashTheorem == CrashSpec => []OwnershipInv
<1>1. Init => OwnershipInv
  <2>1. Init => SessionsOld
    BY DEF Init, SessionsOld
  <2>2. QED
    BY <2>1, CrashInit DEF OwnershipInv
<1>2. TypeOK /\ OwnershipInv /\ [Next \/ CrashStep]_vars => OwnershipInv'
  BY CrashTypeStep, CrashInvStep, SessionsOldStep DEF OwnershipInv
<1>3. QED
  BY <1>1, <1>2, CrashTypeTheorem, PTL DEF CrashSpec

\* A shard that is on its way, or has arrived and is not reported yet, is never one the
\* monitor would start: this keeps it from opening a second gateway.
THEOREM InTransitMarkedTheorem == CrashSpec => []InTransitMarked
<1>1. OwnershipInv => InTransitMarked
  <2> SUFFICES ASSUME CrashInv, NEW s \in Shards, ~Reported(s),
                      InTransit(s) \/ \E n \in Nodes : s \in gateway[n]
               PROVE  MarkedMigrating(s) \/ \E n \in Nodes : net[M("started", n, s)] > 0
    BY DEF InTransitMarked, OwnershipInv
  <2>1. CASE InTransit(s)
    BY <2>1 DEF CrashInv, StartInv, TransitMarked, MarkedMigrating
  <2>2. CASE \E n \in Nodes : s \in gateway[n]
    <3>1. PICK n \in Nodes : s \in gateway[n]
      BY <2>2
    <3>2. connected[n]
      BY <3>1 DEF CrashInv, StartInv, Ends
    <3>3. s \notin running[n]
      BY <3>2 DEF Reported
    <3>4. QED
      BY <3>1, <3>3 DEF CrashInv, StartInv, RunsReported
  <2>3. QED
    BY <2>1, <2>2
<1>2. QED
  BY <1>1, CrashTheorem, PTL

\* Discord sees one gateway of a shard at most, also when bot processes end at any time.
THEOREM OneGatewayThroughCrashesTheorem == CrashSpec => []OneGateway
<1>1. OwnershipInv => OneGateway
  BY DEF OwnershipInv, CrashInv, StartInv
<1>2. QED
  BY <1>1, CrashTheorem, PTL

-----------------------------------------------------------------------------
(* The protocol implements ShardOwnership!Spec: a process that ends loses  *)
(* its shards, and what the monitor starts is nobody's and on no way.      *)

\* A step that opens or closes the gateway of shard s alone changes no other holder.
LEMMA OneHolderChanges ==
  ASSUME TypeOK, OneGateway, OneGateway', NEW n \in Nodes, NEW s \in Shards, NEW h, Holder(s)' = h,
         \/ gateway' = [gateway EXCEPT ![n] = @ \ {s}]
         \/ gateway' = [gateway EXCEPT ![n] = @ \cup {s}]
  PROVE  [t \in Shards |-> Holder(t)]' = [[t \in Shards |-> Holder(t)] EXCEPT ![s] = h]
<1>1. ASSUME NEW t \in Shards, t # s PROVE Holder(t)' = Holder(t)
  <2>1. \A a \in Nodes : t \in gateway'[a] <=> t \in gateway[a]
    BY <1>1 DEF TypeOK
  <2>2. QED
    BY <2>1, HolderKnown DEF Nowhere
<1>2. QED
  BY <1>1

\* Closing a gateway is a Release, completing a transfer a Resume, the end of a process a
\* Lose, a start of the monitor's an Open, and nothing else is seen.
LEMMA OwnershipCrashStep ==
  ASSUME TypeOK, OwnershipInv, OwnershipInv', [Next \/ CrashStep]_vars
  PROVE  [Ownership!Change]_(Ownership!ownershipVars)
<1>1. OneGateway /\ OneGateway' /\ CrashInv
  BY DEF OwnershipInv, CrashInv, StartInv
<1>2. CASE UNCHANGED <<gateway, lastClosed, openedWith>>
  <2>1. \A s \in Shards : Holder(s)' = Holder(s)
    BY <1>2 DEF Holder
  <2>2. QED
    BY <1>2, <2>1 DEF Ownership!ownershipVars
<1>3. ASSUME NEW n \in Nodes, NEW s \in Shards, PrepareFrom(n, s)
      PROVE Ownership!Release(s, closes + 1) /\ closes + 1 \in 1 .. MaxMigrations
  <2>0. PICK m \in Msg : m = M("prepFrom", n, s)
    BY CarrierMessages
  <2>1. m.kind = "prepFrom" /\ m.kind \in Carriers /\ m.shard = s /\ Origin(m) = n /\ net[m] > 0
    BY <1>3, <2>0, CarrierMessages DEF PrepareFrom, Handle
  <2>2. Tells(m)
    BY <2>1 DEF OwnershipInv, CrashInv, CarryInv, CarriersTell, Carries
  <2>3. s \in gateway[n]
    BY <2>1, <2>2 DEF Tells
  <2>4. /\ gateway' = [gateway EXCEPT ![n] = @ \ {s}] /\ openedWith' = openedWith
        /\ lastClosed' = [lastClosed EXCEPT ![s] = closes + 1] /\ closes < MaxMigrations
    BY <1>3, <2>3 DEF PrepareFrom
  <2>5. lastClosed[s] < closes + 1 /\ closes + 1 \in 1 .. MaxMigrations
    <3>1. lastClosed[s] \in Nat /\ closes \in Nat /\ lastClosed[s] <= closes
      BY DEF TypeOK, OwnershipInv, SessionsOld
    <3>2. QED
      BY <2>4, <3>1, ShardAssumption
  <2>6. Holder(s)' = NoNode /\ Holder(s) # NoNode
    BY <1>1, <2>3, <2>4, HolderKnown, ShardAssumption DEF Nowhere, OneGateway, TypeOK
  <2>7. [t \in Shards |-> Holder(t)]' = [[t \in Shards |-> Holder(t)] EXCEPT ![s] = NoNode]
    BY <1>1, <2>4, <2>6, OneHolderChanges
  <2>8. lastClosed[s] \in Nat /\ closes \in Nat
    BY DEF TypeOK
  <2>9. QED
    BY <2>4, <2>5, <2>6, <2>7, <2>8 DEF Ownership!Release
<1>4. ASSUME NEW n \in Nodes,
             \/ \E s \in Shards : LastUserEvent(n, s)
             \/ \E k \in 0 .. MaxEvents : LateAllUserdataSent(n, k)
      PROVE  migShard[n] \in Shards /\ Ownership!Resume(migShard[n], n)
  <2>1. PICK s \in Shards : s = migShard[n] /\ s = nodeShard[n] /\ Nowhere(s) /\ session[n] = lastClosed[s]
    BY <1>1, <1>4, AliveCompletion
  <2>2. PICK m \in Msg : Finish(n, m)
    BY <1>1, <1>4, AliveCompletion
  <2>3. lastClosed[s] # openedWith[s]
    BY <1>1, <1>4, <2>1, AliveCompletion DEF InTransit, CrashInv, StartInv, MovesOn
  <2>4. /\ gateway' = [gateway EXCEPT ![n] = @ \cup {s}] /\ lastClosed' = lastClosed
        /\ openedWith' = [openedWith EXCEPT ![s] = lastClosed[s]]
    BY <2>1, <2>2 DEF Finish
  <2>5. Holder(s) = NoNode /\ Holder(s)' = n
    BY <1>1, <2>1, <2>4, HolderKnown DEF TypeOK
  <2>6. [t \in Shards |-> Holder(t)]' = [[t \in Shards |-> Holder(t)] EXCEPT ![s] = n]
    BY <1>1, <2>4, <2>5, OneHolderChanges
  <2>7. QED
    BY <2>1, <2>3, <2>4, <2>5, <2>6 DEF Ownership!Resume
<1>5. ASSUME NEW n \in Nodes, Die(n) PROVE Ownership!Lose(n)
  <2>1. /\ gateway' = [gateway EXCEPT ![n] = {}] /\ UNCHANGED <<lastClosed, openedWith>>
    BY <1>5 DEF Die
  <2>2. ASSUME NEW t \in Shards PROVE Holder(t)' = IF Holder(t) = n THEN NoNode ELSE Holder(t)
    <3>1. CASE t \in gateway[n]
      BY <1>1, <2>1, <3>1, HolderKnown DEF Nowhere, OneGateway, TypeOK
    <3>2. CASE \E a \in Nodes : a # n /\ t \in gateway[a]
      BY <1>1, <2>1, <3>2, HolderKnown DEF TypeOK
    <3>3. CASE Nowhere(t)
      BY <1>1, <2>1, <3>3, HolderKnown, ShardAssumption DEF Nowhere, TypeOK
    <3>4. QED
      BY <3>1, <3>2, <3>3 DEF Nowhere
  <2>3. QED
    BY <2>1, <2>2 DEF Ownership!Lose
<1>6. ASSUME NEW n \in Nodes, NEW s \in Shards, NodeStartShard(n, s) PROVE Ownership!Open(s, n)
  <2>1. net[M("startShard", n, s)] > 0
    BY <1>6 DEF NodeStartShard, Handle
  <2>2. Nowhere(s) /\ lastClosed[s] = openedWith[s]
    BY <1>1, <2>1 DEF CrashInv, StartInv, StartingAlone, InTransit
  <2>3. /\ gateway' = [gateway EXCEPT ![n] = @ \cup {s}]
        /\ lastClosed' = [lastClosed EXCEPT ![s] = 0] /\ openedWith' = [openedWith EXCEPT ![s] = 0]
    BY <1>6, <2>2 DEF NodeStartShard, Nowhere
  <2>4. Holder(s) = NoNode /\ Holder(s)' = n
    BY <1>1, <2>2, <2>3, HolderKnown DEF TypeOK
  <2>5. [t \in Shards |-> Holder(t)]' = [[t \in Shards |-> Holder(t)] EXCEPT ![s] = n]
    BY <1>1, <2>3, <2>4, OneHolderChanges
  <2>6. QED
    BY <2>2, <2>3, <2>4, <2>5 DEF Ownership!Open
<1>7. QED
  BY <1>1, <1>2, <1>3, <1>4, <1>5, <1>6, GatewaySteps DEF Ownership!Move, Ownership!Change

\* Also when processes end and the monitor starts shards, a shard is held by one process at
\* a time, what the monitor starts is nobody's and not on its way, and a migration that
\* completes resumes, once, the very session the last holder closed.
THEOREM KeepsOwnershipThroughCrashesTheorem == CrashSpec => KeepsOwnershipThroughCrashes
<1>1. /\ TypeOK /\ OwnershipInv /\ OwnershipInv' /\ [Next \/ CrashStep]_vars
      => [Ownership!Change]_(Ownership!ownershipVars)
  BY OwnershipCrashStep
<1>2. QED
  BY <1>1, OwnershipInit, CrashTypeTheorem, CrashTheorem, PTL
  DEF CrashSpec, KeepsOwnershipThroughCrashes, Ownership!Spec
=============================================================================
