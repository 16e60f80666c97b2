-------------------------- MODULE ShardMigrationProofs --------------------------
(***************************************************************************)
(* What shard migrations keep for any number of nodes, shards, callers and *)
(* user events, while connections hold and shards only migrate (Spec).     *)
(* First the types; then MigrationInv, from which follow one gateway for   *)
(* each shard and that no node completes a transfer without one; then      *)
(* DeliveryInv: no user event is lost or counted twice, so that a shard    *)
(* that has left its origin is always waited for, and when nothing is      *)
(* under way everybody agrees on who runs what.  Last, the protocol        *)
(* implements ShardOwnership!MoveSpec: a gateway is only released by its   *)
(* holder, and only resumed with the session released last.                *)
(***************************************************************************)
EXTENDS ShardMigration, TLAPS

-----------------------------------------------------------------------------
(* Messages.                                                               *)

\* Every message the handlers send or take is one.
LEMMA MessageType ==
  ASSUME NEW n \in Nodes
  PROVE /\ \A s \in Shards : /\ \A kind \in ToNodeKinds \cup FromNodeKinds : M(kind, n, s) \in Msg
                             /\ \A kind \in {"prepTo", "fromReady"}, x \in Sessions :
                                  WithSession(kind, n, s, x) \in Msg
        /\ \A kind \in {"allDown", "allUp"}, k \in 0 .. MaxEvents : WithCount(kind, n, k) \in Msg
  BY DEF Msg, M, WithSession, WithCount

\* Handling a message keeps the counts of the network natural numbers.
LEMMA HandleType ==
  ASSUME net \in [Msg -> Nat], NEW m \in Msg, NEW out, Handle(m, out)
  PROVE net' \in [Msg -> Nat]
<1>1. ASSUME NEW x \in Msg
      PROVE net[x] - One(x = m) + One(x \in out /\ connected[x.node]) \in Nat
  <2>1. CASE x = m
    BY <2>1 DEF Handle, One
  <2>2. CASE x # m
    BY <2>2 DEF One
  <2>3. QED
    BY <2>1, <2>2
<1>2. QED
  BY <1>1 DEF Handle

\* So does sending.
LEMMA SendType ==
  ASSUME net \in [Msg -> Nat], NEW out, Send(out)
  PROVE net' \in [Msg -> Nat]
  BY DEF Send, One

-----------------------------------------------------------------------------
(* Types.                                                                  *)

\* Every variable keeps to its type through every step of a migration.
LEMMA TypeStep == TypeOK /\ [Next]_vars => TypeOK'
<1> SUFFICES ASSUME TypeOK, [Next]_vars PROVE TypeOK'
  OBVIOUS
<1> USE ShardAssumption DEF TypeOK
<1>1. ASSUME NEW c \in Callers, NEW n \in Nodes, NEW to \in Nodes, NEW s \in Shards,
             FindOrigin(c, n, to, s)
      PROVE TypeOK'
  BY <1>1 DEF FindOrigin, orchVars, transferVars, gatewayVars, Call
<1>2. ASSUME NEW c \in Callers, MarkFrom(c) PROVE TypeOK'
  BY <1>2 DEF MarkFrom, transferVars, gatewayVars, Call, Modes
<1>3. ASSUME NEW c \in Callers, RefuseFrom(c) PROVE TypeOK'
  BY <1>3 DEF RefuseFrom, orchVars, transferVars, gatewayVars
<1>4. ASSUME NEW c \in Callers, MarkTo(c) PROVE TypeOK'
  <2>1. net' \in [Msg -> Nat]
    BY <1>4, SendType DEF MarkTo
  <2>2. QED
    BY <1>4, <2>1 DEF MarkTo, transferVars, gatewayVars, Call, Modes
<1>5. ASSUME NEW c \in Callers, BusyDestination(c) PROVE TypeOK'
  BY <1>5 DEF BusyDestination, transferVars, gatewayVars, Call, Modes
<1>6. ASSUME NEW n \in Nodes, NEW s \in Shards, PrepareFrom(n, s) PROVE TypeOK'
  <2>1. net' \in [Msg -> Nat]
    BY <1>6, HandleType, MessageType DEF PrepareFrom, ToNodeKinds
  <2>2. QED
    BY <1>6, <2>1 DEF PrepareFrom, orchVars, callVars
<1>7. ASSUME NEW n \in Nodes, NEW s \in Shards, NEW k \in 0 .. MaxEvents, SendUserEvents(n, s, k)
      PROVE TypeOK'
  <2>1. M("startMig", n, s) \in Msg /\ M("startMig", n, s) # M("evtUp", n, s)
    BY MessageType DEF ToNodeKinds, M
  <2>2. net' \in [Msg -> Nat]
    BY <1>7, <2>1 DEF SendUserEvents, One
  <2>3. QED
    BY <1>7, <2>2 DEF SendUserEvents, orchVars, callVars, transferVars, gatewayVars
<1>8. ASSUME NEW n \in Nodes, NEW s \in Shards, NEW x \in Sessions, PrepareTo(n, s, x)
      PROVE TypeOK'
  <2>1. net' \in [Msg -> Nat]
    BY <1>8, HandleType, MessageType DEF PrepareTo
  <2>2. QED
    BY <1>8, <2>1 DEF PrepareTo, orchVars, callVars, gatewayVars
<1>9. ASSUME NEW n \in Nodes, NEW m \in Msg, Complete(n, m), processed' \in [Nodes -> Nat]
      PROVE TypeOK'
  <2>1. CASE Finish(n, m)
    <3>1. net' \in [Msg -> Nat]
      BY <2>1, HandleType DEF Finish
    <3>2. QED
      BY <1>9, <2>1, <3>1 DEF Finish, orchVars, callVars, Sessions
  <2>2. CASE FinishNothing(n, m)
    BY <1>9, <2>2 DEF FinishNothing, callVars, Cut
  <2>3. QED
    BY <1>9, <2>1, <2>2 DEF Complete
<1>10. ASSUME NEW n \in Nodes, NEW s \in Shards, UserEvent(n, s) \/ LastUserEvent(n, s)
       PROVE TypeOK'
  <2>1. M("evtDown", n, s) \in Msg
    BY MessageType DEF ToNodeKinds
  <2>2. CASE UserEvent(n, s)
    <3>1. net' \in [Msg -> Nat]
      BY <2>1, <2>2, HandleType DEF UserEvent
    <3>2. QED
      BY <2>2, <3>1 DEF UserEvent, orchVars, callVars, gatewayVars
  <2>3. CASE LastUserEvent(n, s)
    BY <1>9, <2>1, <2>3 DEF LastUserEvent
  <2>4. QED
    BY <1>10, <2>2, <2>3
<1>11. ASSUME NEW n \in Nodes, NEW k \in 0 .. MaxEvents,
              AllUserdataSent(n, k) \/ LateAllUserdataSent(n, k)
       PROVE TypeOK'
  <2>1. WithCount("allDown", n, k) \in Msg
    BY MessageType
  <2>2. CASE AllUserdataSent(n, k)
    <3>1. net' \in [Msg -> Nat]
      BY <2>1, <2>2, HandleType DEF AllUserdataSent
    <3>2. QED
      BY <2>2, <3>1 DEF AllUserdataSent, orchVars, callVars, gatewayVars
  <2>3. CASE LateAllUserdataSent(n, k)
    BY <1>9, <2>1, <2>3 DEF LateAllUserdataSent
  <2>4. QED
    BY <1>11, <2>2, <2>3
<1>12. ASSUME NEW n \in Nodes, NEW s \in Shards, NEW x \in Sessions, OnFromReady(n, s, x)
       PROVE TypeOK'
  <2>1. net' \in [Msg -> Nat]
    BY <1>12, HandleType, MessageType DEF OnFromReady, Forward
  <2>2. QED
    BY <1>12, <2>1 DEF OnFromReady, callVars, transferVars, gatewayVars
<1>13. ASSUME NEW n \in Nodes, NEW s \in Shards,
              OnToReady(n, s) \/ OnUserEvent(n, s) \/ OnStarted(n, s)
       PROVE TypeOK'
  <2>1. \A kind \in {"toReady", "evtUp", "started"} : M(kind, n, s) \in Msg
    BY MessageType DEF FromNodeKinds
  <2>2. net' \in [Msg -> Nat]
    BY <1>13, <2>1, HandleType DEF OnToReady, OnUserEvent, OnStarted, Forward
  <2>3. CASE OnToReady(n, s) \/ OnUserEvent(n, s)
    BY <2>2, <2>3 DEF OnToReady, OnUserEvent, orchVars, callVars, transferVars, gatewayVars
  <2>4. CASE OnStarted(n, s)
    BY <2>2, <2>4 DEF OnStarted, callVars, transferVars, gatewayVars, Modes
  <2>5. QED
    BY <1>13, <2>3, <2>4
<1>14. ASSUME NEW n \in Nodes, NEW k \in 0 .. MaxEvents, OnAllUserdataSent(n, k)
       PROVE TypeOK'
  <2>1. net' \in [Msg -> Nat]
    BY <1>14, HandleType, MessageType DEF OnAllUserdataSent, Forward
  <2>2. mode' \in [Nodes -> Modes]
    BY <1>14 DEF OnAllUserdataSent, Modes
  <2>3. QED
    BY <1>14, <2>1, <2>2 DEF OnAllUserdataSent, callVars, transferVars, gatewayVars
<1>15. CASE UNCHANGED vars
  BY <1>15 DEF vars, orchVars, callVars, transferVars, gatewayVars
<1>16. QED
  BY <1>1, <1>2, <1>3, <1>4, <1>5, <1>6, <1>7, <1>8, <1>10, <1>11, <1>12, <1>13, <1>14, <1>15
  DEF Next, Migrate, CallStep, NodeStep, OrchestratorStep

LEMMA TypeInit == Init => TypeOK
<1> SUFFICES ASSUME Init PROVE TypeOK
  OBVIOUS
<1>1. 0 \in Sessions /\ 0 \in -1 .. MaxEvents /\ 0 \in 0 .. MaxMigrations /\ 0 \in Nat
  BY ShardAssumption DEF Sessions
<1>2. net \in [Msg -> Nat]
  BY DEF Init
<1>3. sent \in [Shards -> 0 .. MaxEvents] /\ total \in [Nodes -> -1 .. MaxEvents]
  BY ShardAssumption DEF Init
<1>4. QED
  BY <1>1, <1>2, <1>3, ShardAssumption DEF Init, TypeOK, Modes

\* The types are kept by every behaviour of migrations.
THEOREM TypeTheorem == Spec => []TypeOK
BY TypeInit, TypeStep, PTL DEF Spec

-----------------------------------------------------------------------------
(* MigrationInv is inductive: no shard's gateway is open on two nodes, and *)
(* no node completes a transfer it has no shard for.                       *)

TokenKinds == FromTokens \cup ToTokens

-----------------------------------------------------------------------------
(* The network while every node is connected.                              *)

\* Which messages are in flight after m was handled and the messages of out were sent.
LEMMA HandleCounts ==
  ASSUME TypeOK, NothingFails, NEW m \in Msg, NEW out, m \notin out, Handle(m, out)
  PROVE /\ net[m] > 0
        /\ \A x \in Msg : net'[x] = IF x = m THEN net[x] - 1
                                    ELSE IF x \in out THEN net[x] + 1 ELSE net[x]
<1>1. \A x \in Msg : x.node \in Nodes
  BY DEF Msg
<1>2. \A x \in Msg : connected[x.node] = TRUE
  BY <1>1 DEF NothingFails
<1>3. \A x \in Msg : net[x] \in Nat
  BY DEF TypeOK
<1>4. QED
  BY <1>2, <1>3 DEF Handle, One

\* Which messages are in flight after the messages of out were sent.
LEMMA SendCounts ==
  ASSUME TypeOK, NothingFails, NEW out, Send(out)
  PROVE \A x \in Msg : net'[x] = IF x \in out THEN net[x] + 1 ELSE net[x]
<1>1. \A x \in Msg : x.node \in Nodes
  BY DEF Msg
<1>2. \A x \in Msg : connected[x.node] = TRUE
  BY <1>1 DEF NothingFails
<1>3. \A x \in Msg : net[x] \in Nat
  BY DEF TypeOK
<1>4. QED
  BY <1>2, <1>3 DEF Send, One

\* Token m is taken and the token in out, if any, is sent; user events stay as they are.
Passed(m, out) == \A x \in Msg :
  x.kind \in TokenKinds => (net'[x] > 0 <=> x \in out \/ (net[x] > 0 /\ x # m))
EventsKept == \A x \in Msg : x.kind \notin TokenKinds => net'[x] = net[x]

\* A token handled and its successor sent: the migration still has one token at most.
LEMMA PassToken ==
  ASSUME TypeOK, NothingFails, OneToken, other' = other,
         NEW m \in Msg, m.kind \in TokenKinds,
         NEW out, m \notin out,
         \A x, y \in out : x = y,
         \A x \in out : x.kind \in TokenKinds /\ Destination(x) = Destination(m),
         Handle(m, out)
  PROVE /\ OneToken' /\ Passed(m, out) /\ EventsKept /\ Token(m)
        /\ \A x \in Msg : Token(x) /\ x # m => Destination(x) # Destination(m)
<1>1. /\ net[m] > 0
      /\ \A x \in Msg : net'[x] = IF x = m THEN net[x] - 1
                                  ELSE IF x \in out THEN net[x] + 1 ELSE net[x]
  BY HandleCounts
<1>2. Token(m) /\ net[m] = 1
  BY <1>1 DEF Token, TokenKinds, OneToken
<1>3. \A x \in Msg : Token(x) /\ x # m => Destination(x) # Destination(m)
  BY <1>2 DEF OneToken
<1>4. \A x \in Msg : net[x] \in Nat
  BY DEF TypeOK
<1>5. \A x \in Msg : x \in out => net[x] = 0
  BY <1>3, <1>4 DEF Token, TokenKinds
<1>6. Passed(m, out) /\ EventsKept
  BY <1>1, <1>2, <1>4, <1>5 DEF Passed, EventsKept
<1>7. \A x \in Msg : Destination(x)' = Destination(x)
  BY DEF Destination
<1>8. ASSUME NEW x \in Msg, Token(x)' PROVE net'[x] = 1 /\ (x \in out \/ (Token(x) /\ x # m))
  BY <1>1, <1>2, <1>4, <1>5, <1>8 DEF Token, TokenKinds, OneToken
<1>9. ASSUME NEW x \in Msg, Token(x)', NEW y \in Msg, Token(y)', Destination(x) = Destination(y)
      PROVE x = y
  BY <1>3, <1>8, <1>9 DEF OneToken
<1>10. QED
  BY <1>2, <1>3, <1>6, <1>7, <1>8, <1>9 DEF OneToken

\* The tokens, kind by kind, with the migration they belong to.
LEMMA TokenMessages ==
  /\ \A k \in {"prepFrom", "startMig", "toReady", "started"}, a \in Nodes, t \in Shards :
       /\ M(k, a, t) \in Msg /\ M(k, a, t).kind = k /\ k \in TokenKinds
       /\ Destination(M(k, a, t)) = IF k \in {"prepFrom", "startMig"} THEN other[a] ELSE a
  /\ \A k \in {"fromReady", "prepTo"}, a \in Nodes, t \in Shards, x \in Sessions :
       /\ WithSession(k, a, t, x) \in Msg /\ WithSession(k, a, t, x).kind = k /\ k \in TokenKinds
       /\ Destination(WithSession(k, a, t, x)) = IF k = "fromReady" THEN other[a] ELSE a
  /\ \A k \in {"allUp", "allDown"}, a \in Nodes, j \in 0 .. MaxEvents :
       /\ WithCount(k, a, j) \in Msg /\ WithCount(k, a, j).kind = k /\ k \in TokenKinds
       /\ Destination(WithCount(k, a, j)) = IF k = "allUp" THEN other[a] ELSE a
<1>1. ASSUME NEW k \in {"prepFrom", "startMig", "toReady", "started"}, NEW a \in Nodes, NEW t \in Shards
      PROVE /\ M(k, a, t) \in Msg /\ M(k, a, t).kind = k /\ k \in TokenKinds
            /\ Destination(M(k, a, t)) = IF k \in {"prepFrom", "startMig"} THEN other[a] ELSE a
  BY MessageType
  DEF M, TokenKinds, FromTokens, ToTokens, ToNodeKinds, FromNodeKinds, Destination
<1>2. ASSUME NEW k \in {"fromReady", "prepTo"}, NEW a \in Nodes, NEW t \in Shards, NEW x \in Sessions
      PROVE /\ WithSession(k, a, t, x) \in Msg /\ WithSession(k, a, t, x).kind = k /\ k \in TokenKinds
            /\ Destination(WithSession(k, a, t, x)) = IF k = "fromReady" THEN other[a] ELSE a
  BY MessageType DEF WithSession, TokenKinds, FromTokens, ToTokens, Destination
<1>3. ASSUME NEW k \in {"allUp", "allDown"}, NEW a \in Nodes, NEW j \in 0 .. MaxEvents
      PROVE /\ WithCount(k, a, j) \in Msg /\ WithCount(k, a, j).kind = k /\ k \in TokenKinds
            /\ Destination(WithCount(k, a, j)) = IF k = "allUp" THEN other[a] ELSE a
  BY MessageType DEF WithCount, TokenKinds, FromTokens, ToTokens, Destination
<1>4. QED
  BY <1>1, <1>2, <1>3

\* What becomes of them when one is passed on.
LEMMA Carried ==
  ASSUME NEW m, NEW out, Passed(m, out)
  PROVE /\ \A k \in {"prepFrom", "toReady", "startMig", "started"}, a \in Nodes, t \in Shards :
             net'[M(k, a, t)] > 0 <=> M(k, a, t) \in out \/ (net[M(k, a, t)] > 0 /\ M(k, a, t) # m)
        /\ \A k \in {"prepTo", "fromReady"}, a \in Nodes, t \in Shards, x \in Sessions :
             net'[WithSession(k, a, t, x)] > 0 <=>
               \/ WithSession(k, a, t, x) \in out
               \/ net[WithSession(k, a, t, x)] > 0 /\ WithSession(k, a, t, x) # m
        /\ \A k \in {"allUp", "allDown"}, a \in Nodes, j \in 0 .. MaxEvents :
             net'[WithCount(k, a, j)] > 0 <=>
               \/ WithCount(k, a, j) \in out
               \/ net[WithCount(k, a, j)] > 0 /\ WithCount(k, a, j) # m
  BY TokenMessages DEF Passed

\* User events are no tokens.
LEMMA KeptEvents ==
  ASSUME EventsKept
  PROVE \A k \in {"evtUp", "evtDown"}, a \in Nodes, t \in Shards : net'[M(k, a, t)] = net[M(k, a, t)]
<1>1. ASSUME NEW k \in {"evtUp", "evtDown"}, NEW a \in Nodes, NEW t \in Shards
      PROVE M(k, a, t) \in Msg /\ M(k, a, t).kind \notin TokenKinds
  BY MessageType DEF M, TokenKinds, FromTokens, ToTokens, ToNodeKinds, FromNodeKinds
<1>2. QED
  BY <1>1 DEF EventsKept

\* Messages are the same when kind, node and content are.
LEMMA SameMessage ==
  /\ \A k, a, t, l, b, u : M(k, a, t) = M(l, b, u) <=> k = l /\ a = b /\ t = u
  /\ \A k, a, t, x, l, b, u, y :
       WithSession(k, a, t, x) = WithSession(l, b, u, y) <=> k = l /\ a = b /\ t = u /\ x = y
  /\ \A k, a, i, l, b, j : WithCount(k, a, i) = WithCount(l, b, j) <=> k = l /\ a = b /\ i = j
  /\ \A k, a, t, l, b, u, x : k # l => M(k, a, t) # WithSession(l, b, u, x)
  /\ \A k, a, t, l, b, j : k # l => M(k, a, t) # WithCount(l, b, j)
  /\ \A k, a, t, x, l, b, j : k # l => WithSession(k, a, t, x) # WithCount(l, b, j)
<1>1. \A k, a, t : M(k, a, t).kind = k /\ M(k, a, t).node = a /\ M(k, a, t).shard = t
  BY DEF M
<1>2. \A k, a, t, x : LET w == WithSession(k, a, t, x) IN
        w.kind = k /\ w.node = a /\ w.shard = t /\ w.session = x
  BY DEF WithSession
<1>3. \A k, a, j : LET w == WithCount(k, a, j) IN w.kind = k /\ w.node = a /\ w.events = j
  BY DEF WithCount
<1>4. QED
  BY <1>1, <1>2, <1>3

-----------------------------------------------------------------------------
(* One lemma for every step of a migration.                                *)

\* The origin closes the gateway.
LEMMA PrepareFromStep ==
  ASSUME TypeOK, MigrationInv, NEW n \in Nodes, NEW s \in Shards, PrepareFrom(n, s)
  PROVE MigrationInv'
<1> DEFINE m == M("prepFrom", n, s)
           x0 == closes + 1
           out == {WithSession("fromReady", n, s, x0)}
<1>1. Linked(n) /\ migShard[n] = s /\ s \in gateway[n]
  BY DEF PrepareFrom, Handle, MigrationInv, TokenInv, ClosingToken
<1>2. Handle(m, out) /\ x0 \in Sessions
  BY <1>1, ShardAssumption DEF PrepareFrom, TypeOK, Sessions
<1>3. m \in Msg /\ out \subseteq Msg /\ m \notin out
  BY <1>2, MessageType DEF ToNodeKinds, M, WithSession
<1>4. /\ OneToken' /\ Passed(m, out) /\ EventsKept /\ Token(m)
      /\ \A x \in Msg : Token(x) /\ x # m => Destination(x) # Destination(m)
  <2>1. other' = other
    BY DEF PrepareFrom, orchVars
  <2>2. \A x \in out : x.kind \in TokenKinds /\ Destination(x) = Destination(m)
    BY DEF Destination, TokenKinds, FromTokens, M, WithSession
  <2>3. m.kind \in TokenKinds
    BY DEF TokenKinds, FromTokens, M
  <2> HIDE DEF m, out
  <2>4. QED
    BY <1>2, <1>3, <2>1, <2>2, <2>3, PassToken DEF MigrationInv, out
<1>5. /\ gateway' = [gateway EXCEPT ![n] = @ \ {s}] /\ nodeShard' = [nodeShard EXCEPT ![n] = s]
      /\ UNCHANGED <<connected, dead, panics, mode, other, migShard, running, pc, call, total>>
  BY <1>1 DEF PrepareFrom, orchVars, callVars
<1>6. Nowhere(s)' /\ \A t : Nowhere(t) => Nowhere(t)'
  BY <1>1, <1>5 DEF Nowhere, MigrationInv, OneGateway, TypeOK
<1>7. /\ \A a \in Nodes : Linked(a) => Linked(a)'
      /\ \A a \in Nodes : Prepared(a) /\ mode[a] = "to" => Prepared(a)'
  BY <1>1, <1>5 DEF Linked, Prepared, TypeOK
<1>8. /\ \A k \in {"prepFrom", "toReady", "startMig", "started"}, a \in Nodes, t \in Shards :
           net'[M(k, a, t)] > 0 <=> net[M(k, a, t)] > 0 /\ M(k, a, t) # m
      /\ \A k \in {"prepTo", "fromReady"}, a \in Nodes, t \in Shards, x \in Sessions :
           net'[WithSession(k, a, t, x)] > 0 <=>
             net[WithSession(k, a, t, x)] > 0 \/ (k = "fromReady" /\ a = n /\ t = s /\ x = x0)
      /\ \A k \in {"allUp", "allDown"}, a \in Nodes, j \in 0 .. MaxEvents :
           net'[WithCount(k, a, j)] > 0 <=> net[WithCount(k, a, j)] > 0
      /\ \A k \in {"evtUp", "evtDown"}, a \in Nodes, t \in Shards : net'[M(k, a, t)] = net[M(k, a, t)]
  BY <1>4, Carried, KeptEvents, SameMessage
<1>10. ClosingToken'
  BY <1>1, <1>5, <1>7, <1>8 DEF ClosingToken, MigrationInv, TokenInv, Linked, TypeOK, M
<1>11. ClosedToken'
  BY <1>1, <1>5, <1>6, <1>7, <1>8 DEF ClosedToken, MigrationInv, TokenInv
<1>12. PreparingToken' /\ PreparedToken'
  BY <1>5, <1>6, <1>7, <1>8 DEF PreparingToken, PreparedToken, MigrationInv, TokenInv
<1>13. SendingToken' /\ SentToken' /\ CountToken'
  BY <1>5, <1>6, <1>7, <1>8
  DEF SendingToken, SentToken, CountToken, MigrationInv, TokenInv, Linked
<1>14. StartedToken'
  BY <1>1, <1>5, <1>8 DEF StartedToken, MigrationInv, TokenInv, Linked, TypeOK
<1>15. EventsBeforeCount'
  BY <1>8 DEF EventsBeforeCount, MigrationInv
<1>16. EventsExpected'
  <2>1. ASSUME NEW a \in Msg, Token(a)' PROVE \E b \in Msg : Token(b) /\ Destination(a)' = Destination(b)
    BY <1>3, <1>4, <1>5, <2>1 DEF Passed, Token, TokenKinds, Destination, FromTokens, M, WithSession
  <2>2. ASSUME NEW d \in Nodes, NEW t \in Shards, net'[M("evtDown", d, t)] > 0, total'[d] # -1
        PROVE /\ mode[d] = "to" /\ nodeShard[d] = migShard[d] /\ Nowhere(migShard[d])
              /\ \A b \in Msg : Token(b) => Destination(b) # d
    BY <1>5, <1>8, <2>2 DEF EventsExpected, MigrationInv
  <2>3. ASSUME NEW d \in Nodes, mode[d] = "to" PROVE mode'[d] = "to" /\ nodeShard'[d] = nodeShard[d]
    BY <1>1, <1>5, <2>3 DEF Linked, TypeOK
  <2>4. QED
    BY <1>5, <1>6, <2>1, <2>2, <2>3 DEF EventsExpected
<1>17. Marking'
  BY <1>1, <1>5 DEF Marking, MigrationInv, Linked, TypeOK
<1>18. ReleasedUnlessMarked'
  <2> SUFFICES ASSUME NEW d \in Nodes, mode[d] = "to"
               PROVE /\ migShard'[d] \in Shards
                     /\ \/ Nowhere(migShard[d])'
                        \/ other'[d] \in Nodes /\ net'[M("prepFrom", other'[d], migShard'[d])] > 0
                        \/ net'[M("started", d, migShard'[d])] > 0
    BY <1>5 DEF ReleasedUnlessMarked
  <2>1. migShard'[d] = migShard[d] /\ other'[d] = other[d] /\ migShard[d] \in Shards
    BY <1>5 DEF ReleasedUnlessMarked, MigrationInv
  <2>2. Nowhere(migShard[d]) \/ migShard[d] = s => Nowhere(migShard[d])'
    BY <1>5, <1>6, <2>1 DEF Nowhere
  <2>3. CASE migShard[d] # s /\ ~Nowhere(migShard[d])
    <3>1. \A k \in {"prepFrom", "started"}, a \in Nodes : M(k, a, migShard[d]) # m
      BY <2>3, SameMessage
    <3>2. QED
      BY <1>8, <2>1, <2>3, <3>1 DEF ReleasedUnlessMarked, MigrationInv
  <2>4. QED
    BY <2>1, <2>2, <2>3
<1>19. NothingFails' /\ OneGateway' /\ OneMigration' /\ ReportedRuns'
  BY <1>1, <1>2, <1>5, <1>8
  DEF NothingFails, OneGateway, OneMigration, ReportedRuns, MigrationInv, TypeOK
<1>20. QED
  BY <1>4, <1>10, <1>11, <1>12, <1>13, <1>14, <1>15, <1>16, <1>17, <1>18, <1>19
  DEF MigrationInv, TokenInv

\* The orchestrator takes the shard from the origin and passes the session on.
LEMMA OnFromReadyStep ==
  ASSUME TypeOK, MigrationInv, NEW n \in Nodes, NEW s \in Shards, NEW x0 \in Sessions,
         OnFromReady(n, s, x0)
  PROVE MigrationInv'
<1> DEFINE d0 == other[n]
           m == WithSession("fromReady", n, s, x0)
           out == {WithSession("prepTo", d0, s, x0)}
<1>1. Linked(n) /\ migShard[n] = s /\ Nowhere(s) /\ d0 \in Nodes /\ d0 # NoNode
  BY ShardAssumption DEF OnFromReady, Forward, Handle, MigrationInv, TokenInv, ClosedToken, Linked
<1>2. Handle(m, out)
  BY <1>1 DEF OnFromReady, Forward
<1>3. m \in Msg /\ out \subseteq Msg /\ m \notin out
  BY <1>1, MessageType, SameMessage
<1>4. /\ OneToken' /\ Passed(m, out) /\ EventsKept /\ Token(m)
      /\ \A x \in Msg : Token(x) /\ x # m => Destination(x) # Destination(m)
  <2>1. other' = other
    BY DEF OnFromReady
  <2>2. /\ m.kind \in TokenKinds
        /\ \A x \in out : x.kind \in TokenKinds /\ Destination(x) = Destination(m)
    BY DEF Destination, TokenKinds, FromTokens, ToTokens, WithSession
  <2> HIDE DEF m, out
  <2>3. QED
    BY <1>2, <1>3, <2>1, <2>2, PassToken DEF MigrationInv, out
<1>5. /\ running' = [running EXCEPT ![n] = @ \ {s}]
      /\ UNCHANGED <<connected, dead, panics, mode, other, migShard, pc, call, gateway, nodeShard, total>>
  BY <1>1 DEF OnFromReady, callVars, transferVars, gatewayVars
<1>6. /\ \A t : Nowhere(t)' = Nowhere(t)
      /\ \A a : Linked(a)' = Linked(a) /\ Prepared(a)' = Prepared(a)
      /\ \A b : Destination(b)' = Destination(b)
  BY <1>5 DEF Nowhere, Linked, Prepared, Destination
<1>7. /\ \A k \in {"prepFrom", "toReady", "startMig", "started"}, a \in Nodes, t \in Shards :
           net'[M(k, a, t)] > 0 <=> net[M(k, a, t)] > 0
      /\ \A a \in Nodes, t \in Shards, x \in Sessions :
           /\ net'[WithSession("prepTo", a, t, x)] > 0 =>
                net[WithSession("prepTo", a, t, x)] > 0 \/ (a = d0 /\ t = s)
           /\ net'[WithSession("fromReady", a, t, x)] > 0 <=>
                net[WithSession("fromReady", a, t, x)] > 0 /\ ~(a = n /\ t = s /\ x = x0)
      /\ \A k \in {"allUp", "allDown"}, a \in Nodes, j \in 0 .. MaxEvents :
           net'[WithCount(k, a, j)] > 0 <=> net[WithCount(k, a, j)] > 0
      /\ \A k \in {"evtUp", "evtDown"}, a \in Nodes, t \in Shards : net'[M(k, a, t)] = net[M(k, a, t)]
  BY <1>4, Carried, KeptEvents, SameMessage
<1>8. ClosingToken' /\ ClosedToken' /\ PreparedToken' /\ SendingToken'
  BY <1>5, <1>6, <1>7
  DEF ClosingToken, ClosedToken, PreparedToken, SendingToken, MigrationInv, TokenInv
<1>9. PreparingToken'
  BY <1>1, <1>5, <1>6, <1>7 DEF PreparingToken, MigrationInv, TokenInv, Linked
<1>10. SentToken' /\ CountToken' /\ StartedToken'
  BY <1>5, <1>6, <1>7 DEF SentToken, CountToken, StartedToken, MigrationInv, TokenInv
<1>11. EventsBeforeCount'
  BY <1>7 DEF EventsBeforeCount, MigrationInv
<1>12. EventsExpected'
  <2>1. ASSUME NEW a \in Msg, Token(a)' PROVE \E b \in Msg : Token(b) /\ Destination(a)' = Destination(b)
    BY <1>3, <1>4, <1>6, <2>1 DEF Passed, Token, TokenKinds, Destination, FromTokens, WithSession
  <2>2. QED
    BY <1>5, <1>6, <1>7, <2>1 DEF EventsExpected, MigrationInv
<1>13. Marking' /\ ReleasedUnlessMarked' /\ OneMigration'
  BY <1>5, <1>6, <1>7 DEF Marking, ReleasedUnlessMarked, OneMigration, MigrationInv
<1>14. ReportedRuns'
  BY <1>5, <1>7 DEF ReportedRuns, MigrationInv, TypeOK
<1>15. QED
  BY <1>4, <1>5, <1>8, <1>9, <1>10, <1>11, <1>12, <1>13, <1>14
  DEF MigrationInv, TokenInv, NothingFails, OneGateway

\* The destination keeps the session and waits for the shard's state.
LEMMA PrepareToStep ==
  ASSUME TypeOK, MigrationInv, NEW n \in Nodes, NEW s \in Shards, NEW x0 \in Sessions,
         PrepareTo(n, s, x0)
  PROVE MigrationInv'
<1> DEFINE m == WithSession("prepTo", n, s, x0)
           out == {M("toReady", n, s)}
<1>1. /\ mode[n] = "to" /\ migShard[n] = s /\ Nowhere(s)
      /\ other[n] \in Nodes /\ Linked(other[n]) /\ other[other[n]] = n
  BY DEF PrepareTo, Handle, MigrationInv, TokenInv, PreparingToken
<1>2. Handle(m, out)
  BY DEF PrepareTo
<1>3. m \in Msg /\ out \subseteq Msg /\ m \notin out
  BY MessageType, SameMessage DEF FromNodeKinds
<1>4. /\ OneToken' /\ Passed(m, out) /\ EventsKept /\ Token(m)
      /\ \A x \in Msg : Token(x) /\ x # m => Destination(x) # Destination(m)
  <2>1. other' = other
    BY DEF PrepareTo, orchVars
  <2>2. /\ m.kind \in TokenKinds
        /\ \A x \in out : x.kind \in TokenKinds /\ Destination(x) = Destination(m)
    BY DEF Destination, TokenKinds, FromTokens, ToTokens, WithSession, M
  <2> HIDE DEF m, out
  <2>3. QED
    BY <1>2, <1>3, <2>1, <2>2, PassToken DEF MigrationInv, out
<1>5. /\ nodeShard' = [nodeShard EXCEPT ![n] = s] /\ total' = [total EXCEPT ![n] = -1]
      /\ UNCHANGED <<connected, dead, panics, running, mode, other, migShard, pc, call, gateway>>
  BY DEF PrepareTo, orchVars, callVars, gatewayVars
<1>6. /\ \A t : Nowhere(t)' = Nowhere(t)
      /\ \A a : Linked(a)' = Linked(a)
      /\ \A a \in Nodes : (Prepared(a) \/ a = n) => Prepared(a)'
      /\ \A b : Destination(b)' = Destination(b)
  BY <1>1, <1>5 DEF Nowhere, Linked, Prepared, Destination, TypeOK
<1>7. /\ \A k \in {"prepFrom", "toReady", "startMig", "started"}, a \in Nodes, t \in Shards :
           net'[M(k, a, t)] > 0 <=> net[M(k, a, t)] > 0 \/ (k = "toReady" /\ a = n /\ t = s)
      /\ \A k \in {"prepTo", "fromReady"}, a \in Nodes, t \in Shards, x \in Sessions :
           net'[WithSession(k, a, t, x)] > 0 <=>
             net[WithSession(k, a, t, x)] > 0 /\ ~(k = "prepTo" /\ a = n /\ t = s /\ x = x0)
      /\ \A k \in {"allUp", "allDown"}, a \in Nodes, j \in 0 .. MaxEvents :
           net'[WithCount(k, a, j)] > 0 <=> net[WithCount(k, a, j)] > 0
      /\ \A k \in {"evtUp", "evtDown"}, a \in Nodes, t \in Shards : net'[M(k, a, t)] = net[M(k, a, t)]
  BY <1>4, Carried, KeptEvents, SameMessage
<1>8. ClosingToken' /\ ClosedToken' /\ PreparingToken'
  BY <1>5, <1>6, <1>7 DEF ClosingToken, ClosedToken, PreparingToken, MigrationInv, TokenInv
<1>9. PreparedToken'
  BY <1>1, <1>5, <1>6, <1>7 DEF PreparedToken, MigrationInv, TokenInv
<1>10. SendingToken' /\ SentToken' /\ CountToken' /\ StartedToken'
  BY <1>5, <1>6, <1>7
  DEF SendingToken, SentToken, CountToken, StartedToken, Linked, MigrationInv, TokenInv
<1>11. EventsBeforeCount' /\ ReportedRuns'
  BY <1>5, <1>7 DEF EventsBeforeCount, ReportedRuns, MigrationInv
<1>12. EventsExpected'
  <2>1. ASSUME NEW a \in Msg, Token(a)' PROVE \E b \in Msg : Token(b) /\ Destination(a)' = Destination(b)
    BY <1>3, <1>4, <1>6, <2>1
    DEF Passed, Token, TokenKinds, Destination, FromTokens, WithSession, M
  <2>2. \A d \in Nodes : total'[d] # -1 => d # n /\ total'[d] = total[d] /\ nodeShard'[d] = nodeShard[d]
    BY <1>5 DEF TypeOK
  <2>3. QED
    BY <1>5, <1>6, <1>7, <2>1, <2>2 DEF EventsExpected, MigrationInv
<1>13. Marking' /\ ReleasedUnlessMarked' /\ OneMigration'
  BY <1>5, <1>6, <1>7 DEF Marking, ReleasedUnlessMarked, OneMigration, MigrationInv
<1>14. QED
  BY <1>4, <1>5, <1>8, <1>9, <1>10, <1>11, <1>12, <1>13
  DEF MigrationInv, TokenInv, NothingFails, OneGateway

\* The destination is ready, and the origin told to send the shard's state.
LEMMA OnToReadyStep ==
  ASSUME TypeOK, MigrationInv, NEW n \in Nodes, NEW s \in Shards, OnToReady(n, s)
  PROVE MigrationInv'
<1> DEFINE o0 == other[n]
           m == M("toReady", n, s)
           out == {M("startMig", o0, s)}
<1>1. /\ mode[n] = "to" /\ migShard[n] = s /\ Nowhere(s) /\ Prepared(n)
      /\ o0 \in Nodes /\ o0 # NoNode /\ Linked(o0) /\ other[o0] = n
  BY ShardAssumption
  DEF OnToReady, Forward, Handle, MigrationInv, TokenInv, PreparedToken
<1>2. Handle(m, out)
  BY <1>1 DEF OnToReady, Forward
<1>3. m \in Msg /\ out \subseteq Msg /\ m \notin out
  BY <1>1, MessageType, SameMessage DEF FromNodeKinds, ToNodeKinds
<1>4. /\ OneToken' /\ Passed(m, out) /\ EventsKept /\ Token(m)
      /\ \A x \in Msg : Token(x) /\ x # m => Destination(x) # Destination(m)
  <2>1. other' = other
    BY DEF OnToReady, orchVars
  <2>2. /\ m.kind \in TokenKinds
        /\ \A x \in out : x.kind \in TokenKinds /\ Destination(x) = Destination(m)
    BY <1>1 DEF Destination, TokenKinds, FromTokens, ToTokens, WithSession, WithCount, M
  <2> HIDE DEF m, out
  <2>3. QED
    BY <1>2, <1>3, <2>1, <2>2, PassToken DEF MigrationInv, out
<1>5. UNCHANGED <<connected, dead, panics, running, mode, other, migShard, pc, call, gateway,
                  nodeShard, total>>
  BY DEF OnToReady, orchVars, callVars, transferVars, gatewayVars
<1>6. /\ \A t : Nowhere(t)' = Nowhere(t)
      /\ \A a : Linked(a)' = Linked(a) /\ Prepared(a)' = Prepared(a)
      /\ \A b : Destination(b)' = Destination(b)
  BY <1>5 DEF Nowhere, Linked, Prepared, Destination
<1>7. /\ \A k \in {"prepFrom", "toReady", "startMig", "started"}, a \in Nodes, t \in Shards :
           net'[M(k, a, t)] > 0 =>
             net[M(k, a, t)] > 0 \/ (k = "startMig" /\ a = o0 /\ t = s)
      /\ \A k \in {"prepFrom", "started"}, a \in Nodes, t \in Shards :
           net'[M(k, a, t)] > 0 <=> net[M(k, a, t)] > 0
      /\ \A k \in {"prepTo", "fromReady"}, a \in Nodes, t \in Shards, x \in Sessions :
           net'[WithSession(k, a, t, x)] > 0 <=> net[WithSession(k, a, t, x)] > 0
      /\ \A k \in {"allUp", "allDown"}, a \in Nodes, j \in 0 .. MaxEvents :
           net'[WithCount(k, a, j)] > 0 <=> net[WithCount(k, a, j)] > 0
      /\ \A k \in {"evtUp", "evtDown"}, a \in Nodes, t \in Shards : net'[M(k, a, t)] = net[M(k, a, t)]
  BY <1>4, Carried, KeptEvents, SameMessage
<1>8. ClosingToken' /\ ClosedToken' /\ PreparingToken' /\ PreparedToken'
  BY <1>5, <1>6, <1>7
  DEF ClosingToken, ClosedToken, PreparingToken, PreparedToken, MigrationInv, TokenInv
<1>9. SendingToken'
  BY <1>1, <1>5, <1>6, <1>7 DEF SendingToken, Linked, MigrationInv, TokenInv
<1>10. SentToken' /\ CountToken' /\ StartedToken'
  BY <1>5, <1>6, <1>7 DEF SentToken, CountToken, StartedToken, MigrationInv, TokenInv
<1>11. EventsBeforeCount' /\ ReportedRuns'
  BY <1>5, <1>7 DEF EventsBeforeCount, ReportedRuns, MigrationInv
<1>12. EventsExpected'
  <2>1. ASSUME NEW a \in Msg, Token(a)' PROVE \E b \in Msg : Token(b) /\ Destination(a)' = Destination(b)
    BY <1>1, <1>3, <1>4, <1>6, <2>1
    DEF Passed, Token, TokenKinds, Destination, FromTokens, M
  <2>2. QED
    BY <1>5, <1>6, <1>7, <2>1 DEF EventsExpected, MigrationInv
<1>13. Marking' /\ ReleasedUnlessMarked' /\ OneMigration'
  BY <1>5, <1>6, <1>7 DEF Marking, ReleasedUnlessMarked, OneMigration, MigrationInv
<1>14. QED
  BY <1>4, <1>5, <1>8, <1>9, <1>10, <1>11, <1>12, <1>13
  DEF MigrationInv, TokenInv, NothingFails, OneGateway

\* The origin sends the user events e and their number w, which is the migration's next
\* token after m.
UserEventsSent(n, s, k, m, w, e) ==
  /\ m = M("startMig", n, s) /\ w = WithCount("allUp", n, k) /\ e = M("evtUp", n, s)
  /\ Linked(n) /\ migShard[n] = s /\ Nowhere(s) /\ Prepared(other[n]) /\ Token(m)
  /\ m # w /\ m # e /\ w # e
  /\ m.kind \in TokenKinds /\ w.kind \in TokenKinds /\ e.kind \notin TokenKinds
  /\ Destination(m) = Destination(w)
  /\ \A x \in Msg : net'[x] = IF x = m THEN net[x] - 1
                              ELSE IF x = w THEN net[x] + 1
                              ELSE IF x = e THEN net[x] + k ELSE net[x]
  /\ OneToken' /\ Passed(m, {w})
  /\ \A x \in Msg : Token(x) /\ x # m => Destination(x) # Destination(m)

LEMMA SendUserEventsPasses ==
  ASSUME TypeOK, MigrationInv, NEW n \in Nodes, NEW s \in Shards, NEW k0 \in 0 .. MaxEvents,
         SendUserEvents(n, s, k0)
  PROVE \E m, w, e \in Msg : UserEventsSent(n, s, k0, m, w, e)
<1> DEFINE m == M("startMig", n, s)
           w == WithCount("allUp", n, k0)
           e == M("evtUp", n, s)
<1>1. Linked(n) /\ migShard[n] = s /\ Nowhere(s) /\ Prepared(other[n]) /\ net[m] > 0
  BY DEF SendUserEvents, MigrationInv, TokenInv, SendingToken
<1>2. m \in Msg /\ w \in Msg /\ e \in Msg /\ m # w /\ m # e /\ w # e
  BY MessageType, SameMessage DEF ToNodeKinds, FromNodeKinds
<1>3. /\ m.kind \in TokenKinds /\ w.kind \in TokenKinds /\ e.kind \notin TokenKinds
      /\ Destination(m) = Destination(w) /\ m.kind \in FromTokens
  BY DEF Destination, TokenKinds, FromTokens, ToTokens, WithCount, M
<1> HIDE DEF m, w, e
<1>4. \A x \in Msg : net'[x] = IF x = m THEN net[x] - 1
                              ELSE IF x = w THEN net[x] + 1
                              ELSE IF x = e THEN net[x] + k0 ELSE net[x]
  <2>1. connected[n] = TRUE /\ \A x \in Msg : net[x] \in Nat
    BY DEF MigrationInv, NothingFails, TypeOK
  <2>2. QED
    BY <1>2, <2>1 DEF SendUserEvents, One, m, w, e
<1>5. Token(m) /\ net[m] = 1 /\ \A x \in Msg : net[x] \in Nat
  BY <1>1, <1>2, <1>3 DEF Token, TokenKinds, MigrationInv, OneToken, TypeOK
<1>6. \A x \in Msg : Token(x) /\ x # m => Destination(x) # Destination(m)
  BY <1>2, <1>5 DEF MigrationInv, OneToken
<1>7. net[w] = 0
  BY <1>2, <1>3, <1>5, <1>6 DEF Token, TokenKinds
<1>8. \A x \in Msg : Destination(x)' = Destination(x)
  BY DEF SendUserEvents, orchVars, Destination
<1>9. ASSUME NEW x \in Msg, Token(x)' PROVE net'[x] = 1 /\ (x = w \/ (Token(x) /\ x # m))
  BY <1>3, <1>4, <1>5, <1>7, <1>9 DEF Token, TokenKinds, MigrationInv, OneToken
<1>10. ASSUME NEW x \in Msg, Token(x)', NEW y \in Msg, Token(y)', Destination(x) = Destination(y)
       PROVE x = y
  BY <1>3, <1>6, <1>9, <1>10 DEF MigrationInv, OneToken
<1>11. OneToken' /\ Passed(m, {w})
  BY <1>2, <1>3, <1>4, <1>5, <1>7, <1>8, <1>9, <1>10 DEF OneToken, Passed
<1>12. UserEventsSent(n, s, k0, m, w, e)
  BY <1>1, <1>2, <1>3, <1>4, <1>5, <1>6, <1>11 DEF UserEventsSent, m, w, e
<1>13. QED
  BY <1>2, <1>12

LEMMA SendUserEventsStep ==
  ASSUME TypeOK, MigrationInv, NEW n \in Nodes, NEW s \in Shards, NEW k0 \in 0 .. MaxEvents,
         SendUserEvents(n, s, k0)
  PROVE MigrationInv'
<1> PICK m, w, e \in Msg : UserEventsSent(n, s, k0, m, w, e)
  BY SendUserEventsPasses
<1>1. /\ m = M("startMig", n, s) /\ w = WithCount("allUp", n, k0) /\ e = M("evtUp", n, s)
      /\ Linked(n) /\ migShard[n] = s /\ Nowhere(s) /\ Prepared(other[n]) /\ Token(m)
      /\ m.kind \in TokenKinds /\ w.kind \in TokenKinds /\ Destination(m) = Destination(w)
      /\ \A x \in Msg : net'[x] = IF x = m THEN net[x] - 1
                                  ELSE IF x = w THEN net[x] + 1
                                  ELSE IF x = e THEN net[x] + k0 ELSE net[x]
      /\ OneToken' /\ Passed(m, {w})
  BY DEF UserEventsSent
<1>2. UNCHANGED <<connected, dead, panics, running, mode, other, migShard, pc, call, gateway,
                  nodeShard, total>>
  BY DEF SendUserEvents, orchVars, callVars, transferVars, gatewayVars
<1>3. /\ \A t : Nowhere(t)' = Nowhere(t)
      /\ \A a : Linked(a)' = Linked(a) /\ Prepared(a)' = Prepared(a)
      /\ \A b : Destination(b)' = Destination(b)
  BY <1>2 DEF Nowhere, Linked, Prepared, Destination
<1>4. /\ \A k \in {"prepFrom", "toReady", "started"}, a \in Nodes, t \in Shards :
           net'[M(k, a, t)] > 0 <=> net[M(k, a, t)] > 0
      /\ \A a \in Nodes, t \in Shards :
           net'[M("startMig", a, t)] > 0 => net[M("startMig", a, t)] > 0
      /\ \A k \in {"prepTo", "fromReady"}, a \in Nodes, t \in Shards, x \in Sessions :
           net'[WithSession(k, a, t, x)] > 0 <=> net[WithSession(k, a, t, x)] > 0
      /\ \A k \in {"allUp", "allDown"}, a \in Nodes, j \in 0 .. MaxEvents :
           net'[WithCount(k, a, j)] > 0 <=>
             net[WithCount(k, a, j)] > 0 \/ (k = "allUp" /\ a = n /\ j = k0)
  BY <1>1, Carried, SameMessage
<1>5. /\ \A a \in Nodes, t \in Shards : net'[M("evtDown", a, t)] = net[M("evtDown", a, t)]
      /\ \A a \in Nodes, t \in Shards : net'[M("evtUp", a, t)] > 0 => net[M("evtUp", a, t)] > 0 \/ a = n
  <2>1. ASSUME NEW k \in {"evtUp", "evtDown"}, NEW a \in Nodes, NEW t \in Shards
        PROVE M(k, a, t) \in Msg /\ M(k, a, t) # m /\ M(k, a, t) # w
    BY <1>1, MessageType, SameMessage DEF ToNodeKinds, FromNodeKinds
  <2>2. QED
    BY <1>1, <2>1, SameMessage
<1>6. ClosingToken' /\ ClosedToken' /\ PreparingToken' /\ PreparedToken'
  BY <1>2, <1>3, <1>4
  DEF ClosingToken, ClosedToken, PreparingToken, PreparedToken, MigrationInv, TokenInv
<1>7. SendingToken' /\ CountToken' /\ StartedToken'
  BY <1>2, <1>3, <1>4 DEF SendingToken, CountToken, StartedToken, MigrationInv, TokenInv
<1>8. SentToken'
  BY <1>1, <1>2, <1>3, <1>4 DEF SentToken, MigrationInv, TokenInv
<1>9. EventsBeforeCount'
  BY <1>4, <1>5 DEF EventsBeforeCount, MigrationInv
<1>10. EventsExpected'
  <2>1. ASSUME NEW a \in Msg, Token(a)' PROVE \E b \in Msg : Token(b) /\ Destination(a)' = Destination(b)
    BY <1>1, <1>3, <2>1 DEF Passed, Token, TokenKinds
  <2>2. QED
    BY <1>2, <1>3, <1>5, <2>1 DEF EventsExpected, MigrationInv
<1>11. Marking' /\ ReleasedUnlessMarked' /\ OneMigration' /\ ReportedRuns'
  BY <1>2, <1>3, <1>4 DEF Marking, ReleasedUnlessMarked, OneMigration, ReportedRuns, MigrationInv
<1>12. QED
  BY <1>1, <1>2, <1>6, <1>7, <1>8, <1>9, <1>10, <1>11
  DEF MigrationInv, TokenInv, NothingFails, OneGateway

\* The origin has sent everything: it is free, and the number goes to the destination.
LEMMA OnAllUserdataSentStep ==
  ASSUME TypeOK, MigrationInv, NEW n \in Nodes, NEW k0 \in 0 .. MaxEvents, OnAllUserdataSent(n, k0)
  PROVE MigrationInv'
<1> DEFINE d0 == other[n]
           m == WithCount("allUp", n, k0)
           out == {WithCount("allDown", d0, k0)}
<1>1. Linked(n) /\ Nowhere(migShard[n]) /\ Prepared(d0) /\ d0 \in Nodes /\ d0 # NoNode /\ d0 # n
  BY ShardAssumption
  DEF OnAllUserdataSent, Forward, Handle, MigrationInv, TokenInv, SentToken, Linked
<1>2. Handle(m, out)
  BY <1>1 DEF OnAllUserdataSent, Forward
<1>3. m \in Msg /\ out \subseteq Msg /\ m \notin out
  BY <1>1, MessageType, SameMessage
<1>4. /\ OneToken' /\ Passed(m, out) /\ EventsKept /\ Token(m)
      /\ \A x \in Msg : Token(x) /\ x # m => Destination(x) # Destination(m)
  <2>1. other' = other
    BY DEF OnAllUserdataSent
  <2>2. /\ m.kind \in TokenKinds
        /\ \A x \in out : x.kind \in TokenKinds /\ Destination(x) = Destination(m)
    BY <1>1 DEF Destination, TokenKinds, FromTokens, ToTokens, WithSession, WithCount, M
  <2> HIDE DEF m, out
  <2>3. QED
    BY <1>2, <1>3, <2>1, <2>2, PassToken DEF MigrationInv, out
<1>5. /\ mode' = [mode EXCEPT ![n] = "none"]
      /\ UNCHANGED <<connected, dead, panics, running, other, migShard, pc, call, gateway,
                     nodeShard, total>>
  BY DEF OnAllUserdataSent, callVars, transferVars, gatewayVars
<1>6. /\ \A t : Nowhere(t)' = Nowhere(t)
      /\ \A a : Prepared(a)' = Prepared(a)
      /\ \A a \in Nodes : Linked(a) /\ a # n => Linked(a)'
      /\ \A a \in Nodes : a # n => mode'[a] = mode[a]
      /\ \A a \in Nodes : mode[a] = "to" <=> mode'[a] = "to"
      /\ \A b : Destination(b)' = Destination(b)
  BY <1>1, <1>5 DEF Nowhere, Linked, Prepared, Destination, TypeOK
\* Every other token belongs to another migration.
<1>7. /\ \A k \in {"prepFrom", "startMig"}, a \in Nodes, t \in Shards :
           net'[M(k, a, t)] > 0 => net[M(k, a, t)] > 0 /\ a # n
      /\ \A a \in Nodes, t \in Shards, x \in Sessions :
           net'[WithSession("fromReady", a, t, x)] > 0 => net[WithSession("fromReady", a, t, x)] > 0 /\ a # n
      /\ \A a \in Nodes, j \in 0 .. MaxEvents :
           net'[WithCount("allUp", a, j)] > 0 => net[WithCount("allUp", a, j)] > 0 /\ a # n
      /\ \A a \in Nodes, t \in Shards :
           net'[M("toReady", a, t)] > 0 => net[M("toReady", a, t)] > 0 /\ other[a] # n
      /\ \A a \in Nodes, t \in Shards, x \in Sessions :
           net'[WithSession("prepTo", a, t, x)] > 0 => net[WithSession("prepTo", a, t, x)] > 0 /\ other[a] # n
  <2>1. ASSUME NEW x \in Msg, net'[x] > 0, x.kind \in TokenKinds, x \notin out
        PROVE net[x] > 0 /\ Destination(x) # d0
    BY <1>4, <2>1 DEF Passed, Token, TokenKinds, Destination, FromTokens, WithCount
  <2>2. /\ \A k \in {"prepFrom", "startMig", "toReady"}, a \in Nodes, t \in Shards : M(k, a, t) \notin out
        /\ \A k \in {"prepTo", "fromReady"}, a \in Nodes, t \in Shards, x \in Sessions :
             WithSession(k, a, t, x) \notin out
        /\ \A a \in Nodes, j \in 0 .. MaxEvents : WithCount("allUp", a, j) \notin out
    BY SameMessage
  <2>3. \A a \in Nodes, t \in Shards : net[M("toReady", a, t)] > 0 => other[other[a]] = a
    BY DEF MigrationInv, TokenInv, PreparedToken
  <2>4. \A a \in Nodes, t \in Shards, x \in Sessions :
          net[WithSession("prepTo", a, t, x)] > 0 => other[other[a]] = a
    BY DEF MigrationInv, TokenInv, PreparingToken
  <2> HIDE DEF m, out
  <2>5. QED
    BY <2>1, <2>2, <2>3, <2>4, TokenMessages
<1>8. /\ \A k \in {"prepFrom", "started"}, a \in Nodes, t \in Shards :
           net'[M(k, a, t)] > 0 <=> net[M(k, a, t)] > 0
      /\ \A a \in Nodes, t \in Shards, x \in Sessions :
           net'[WithSession("fromReady", a, t, x)] > 0 <=> net[WithSession("fromReady", a, t, x)] > 0
      /\ \A a \in Nodes, j \in 0 .. MaxEvents :
           /\ net'[WithCount("allDown", a, j)] > 0 => net[WithCount("allDown", a, j)] > 0 \/ a = d0
           /\ net'[WithCount("allUp", a, j)] > 0 <=> net[WithCount("allUp", a, j)] > 0 /\ ~(a = n /\ j = k0)
      /\ \A k \in {"evtUp", "evtDown"}, a \in Nodes, t \in Shards : net'[M(k, a, t)] = net[M(k, a, t)]
  BY <1>4, Carried, KeptEvents, SameMessage
<1>9. ClosingToken' /\ ClosedToken' /\ SendingToken'
  BY <1>5, <1>6, <1>7 DEF ClosingToken, ClosedToken, SendingToken, MigrationInv, TokenInv
<1>10. PreparingToken' /\ PreparedToken'
  BY <1>5, <1>6, <1>7 DEF PreparingToken, PreparedToken, MigrationInv, TokenInv
<1>11. SentToken' /\ StartedToken'
  BY <1>5, <1>6, <1>7, <1>8 DEF SentToken, StartedToken, MigrationInv, TokenInv
<1>12. CountToken'
  BY <1>1, <1>5, <1>6, <1>8 DEF CountToken, MigrationInv, TokenInv, Linked
<1>13. EventsBeforeCount'
  <2>1. \A t \in Shards : net[M("evtUp", n, t)] = 0
    BY DEF OnAllUserdataSent
  <2>2. QED
    BY <1>8, <2>1 DEF EventsBeforeCount, MigrationInv
<1>14. EventsExpected'
  <2>1. ASSUME NEW a \in Msg, Token(a)' PROVE \E b \in Msg : Token(b) /\ Destination(a)' = Destination(b)
    BY <1>3, <1>4, <1>6, <2>1 DEF Passed, Token, TokenKinds, Destination, FromTokens, WithCount
  <2>2. QED
    BY <1>5, <1>6, <1>8, <2>1 DEF EventsExpected, MigrationInv
<1>15. Marking'
  BY <1>1, <1>5, <1>6 DEF Marking, MigrationInv, Linked, TypeOK
<1>16. ReleasedUnlessMarked' /\ OneMigration' /\ ReportedRuns'
  BY <1>5, <1>6, <1>8 DEF ReleasedUnlessMarked, OneMigration, ReportedRuns, MigrationInv
<1>17. QED
  BY <1>4, <1>5, <1>9, <1>10, <1>11, <1>12, <1>13, <1>14, <1>15, <1>16
  DEF MigrationInv, TokenInv, NothingFails, OneGateway

\* The number of user events is known before the last of them has come.
LEMMA AllUserdataSentStep ==
  ASSUME TypeOK, MigrationInv, NEW n \in Nodes, NEW k0 \in 0 .. MaxEvents, AllUserdataSent(n, k0)
  PROVE MigrationInv'
<1> DEFINE m == WithCount("allDown", n, k0)
           out == {}
<1>1. mode[n] = "to" /\ Nowhere(migShard[n]) /\ Prepared(n)
  BY DEF AllUserdataSent, Handle, MigrationInv, TokenInv, CountToken
<1>2. Handle(m, out)
  BY DEF AllUserdataSent
<1>3. m \in Msg /\ out \subseteq Msg /\ m \notin out
  BY MessageType
<1>4. /\ OneToken' /\ Passed(m, out) /\ EventsKept /\ Token(m)
      /\ \A x \in Msg : Token(x) /\ x # m => Destination(x) # Destination(m)
  <2>1. other' = other
    BY DEF AllUserdataSent, orchVars
  <2>2. /\ m.kind \in TokenKinds
        /\ \A x \in out : x.kind \in TokenKinds /\ Destination(x) = Destination(m)
    BY <1>1 DEF Destination, TokenKinds, FromTokens, ToTokens, WithSession, WithCount, M
  <2> HIDE DEF m, out
  <2>3. QED
    BY <1>2, <1>3, <2>1, <2>2, PassToken DEF MigrationInv, out
<1>5. /\ total' = [total EXCEPT ![n] = k0]
      /\ UNCHANGED <<connected, dead, panics, running, mode, other, migShard, pc, call, gateway,
                     nodeShard>>
  BY DEF AllUserdataSent, orchVars, callVars, gatewayVars
<1>6. /\ \A t : Nowhere(t)' = Nowhere(t)
      /\ \A a : Linked(a)' = Linked(a)
      /\ \A a \in Nodes : Prepared(a) /\ a # n => Prepared(a)'
      /\ \A b : Destination(b)' = Destination(b)
  BY <1>5 DEF Nowhere, Linked, Prepared, Destination, TypeOK
\* Nothing else is under way to n for its migration.
<1>7. \A x \in Msg : Token(x)' => Token(x) /\ Destination(x) # n
  BY <1>4 DEF Passed, Token, TokenKinds, Destination, FromTokens, WithCount
<1>8. /\ \A k \in {"toReady", "startMig"}, a \in Nodes, t \in Shards :
           net'[M(k, a, t)] > 0 => net[M(k, a, t)] > 0 /\ (IF k = "toReady" THEN a ELSE other[a]) # n
      /\ \A k \in {"allUp", "allDown"}, a \in Nodes, j \in 0 .. MaxEvents :
           net'[WithCount(k, a, j)] > 0 =>
             net[WithCount(k, a, j)] > 0 /\ (IF k = "allDown" THEN a ELSE other[a]) # n
  BY <1>7, TokenMessages DEF Token, TokenKinds
<1>9. /\ \A k \in {"prepFrom", "started"}, a \in Nodes, t \in Shards :
           net'[M(k, a, t)] > 0 <=> net[M(k, a, t)] > 0
      /\ \A k \in {"prepTo", "fromReady"}, a \in Nodes, t \in Shards, x \in Sessions :
           net'[WithSession(k, a, t, x)] > 0 <=> net[WithSession(k, a, t, x)] > 0
      /\ \A a \in Nodes, j \in 0 .. MaxEvents :
           net'[WithCount("allUp", a, j)] > 0 <=> net[WithCount("allUp", a, j)] > 0
      /\ \A k \in {"evtUp", "evtDown"}, a \in Nodes, t \in Shards : net'[M(k, a, t)] = net[M(k, a, t)]
  BY <1>4, Carried, KeptEvents, SameMessage
<1>10. ClosingToken' /\ ClosedToken' /\ PreparingToken' /\ StartedToken'
  BY <1>5, <1>6, <1>9
  DEF ClosingToken, ClosedToken, PreparingToken, StartedToken, MigrationInv, TokenInv
<1>11. PreparedToken' /\ CountToken'
  BY <1>5, <1>6, <1>8 DEF PreparedToken, CountToken, MigrationInv, TokenInv
<1>12. SendingToken' /\ SentToken'
  BY <1>5, <1>6, <1>8 DEF SendingToken, SentToken, Linked, MigrationInv, TokenInv
<1>13. EventsBeforeCount' /\ ReportedRuns'
  BY <1>5, <1>9 DEF EventsBeforeCount, ReportedRuns, MigrationInv
<1>14. EventsExpected'
  <2>1. \A d \in Nodes : d # n => total'[d] = total[d]
    BY <1>5 DEF TypeOK
  <2>2. nodeShard[n] = migShard[n]
    BY <1>1 DEF Prepared
  <2>3. QED
    BY <1>1, <1>5, <1>6, <1>7, <1>9, <2>1, <2>2 DEF EventsExpected, MigrationInv
<1>15. Marking' /\ ReleasedUnlessMarked' /\ OneMigration'
  BY <1>5, <1>6, <1>9 DEF Marking, ReleasedUnlessMarked, OneMigration, MigrationInv
<1>16. QED
  BY <1>4, <1>5, <1>10, <1>11, <1>12, <1>13, <1>14, <1>15
  DEF MigrationInv, TokenInv, NothingFails, OneGateway

\* Steps that only touch user events, or callers that have marked nothing yet.
LEMMA BystanderStep ==
  ASSUME TypeOK, MigrationInv,
         UNCHANGED <<connected, dead, panics, running, mode, other, migShard, gateway, nodeShard, total>>,
         \A c \in Callers : pc'[c] = "markTo" => pc[c] = "markTo" /\ call'[c] = call[c],
         \A x \in Msg : x.kind \in TokenKinds => net'[x] = net[x],
         \A a \in Nodes, t \in Shards :
           /\ net'[M("evtUp", a, t)] > 0 => net[M("evtUp", a, t)] > 0
           /\ net'[M("evtDown", a, t)] > 0 => net[M("evtDown", a, t)] > 0 \/ total[a] = -1
  PROVE MigrationInv'
<1>1. /\ \A t : Nowhere(t)' = Nowhere(t)
      /\ \A a : Linked(a) => Linked(a)'
      /\ \A a : Prepared(a)' = Prepared(a)
      /\ \A x : Destination(x)' = Destination(x)
  BY DEF Nowhere, Linked, Prepared, Destination
<1>2. \A x \in Msg : Token(x)' = Token(x)
  BY DEF Token, TokenKinds
<1>3. /\ \A k \in {"prepFrom", "startMig", "toReady", "started"}, a \in Nodes, t \in Shards :
           net'[M(k, a, t)] = net[M(k, a, t)]
      /\ \A k \in {"fromReady", "prepTo"}, a \in Nodes, t \in Shards, x \in Sessions :
           net'[WithSession(k, a, t, x)] = net[WithSession(k, a, t, x)]
      /\ \A k \in {"allUp", "allDown"}, a \in Nodes, j \in 0 .. MaxEvents :
           net'[WithCount(k, a, j)] = net[WithCount(k, a, j)]
  BY TokenMessages
<1>4. OneToken'
  <2>1. \A x \in Msg : Token(x) => net'[x] = net[x]
    BY DEF Token, TokenKinds
  <2>2. QED
    BY <1>1, <1>2, <2>1 DEF OneToken, MigrationInv
<1>5. ClosingToken' /\ ClosedToken' /\ PreparingToken' /\ PreparedToken'
  BY <1>1, <1>3 DEF ClosingToken, ClosedToken, PreparingToken, PreparedToken, MigrationInv, TokenInv
<1>6. SendingToken' /\ SentToken' /\ CountToken' /\ StartedToken'
  BY <1>1, <1>3 DEF SendingToken, SentToken, CountToken, StartedToken, MigrationInv, TokenInv
<1>7. EventsBeforeCount'
  BY <1>3 DEF EventsBeforeCount, MigrationInv
<1>8. EventsExpected'
  BY <1>1, <1>2 DEF EventsExpected, MigrationInv
<1>9. Marking'
  BY DEF Marking, MigrationInv
<1>10. ReleasedUnlessMarked' /\ OneMigration' /\ ReportedRuns'
  BY <1>1, <1>3 DEF ReleasedUnlessMarked, OneMigration, ReportedRuns, MigrationInv
<1>11. QED
  BY <1>4, <1>5, <1>6, <1>7, <1>8, <1>9, <1>10
  DEF MigrationInv, TokenInv, NothingFails, OneGateway

\* A user event reaches the orchestrator, or the destination.
LEMMA UserEventStep ==
  ASSUME TypeOK, MigrationInv, NEW n \in Nodes, NEW s \in Shards, OnUserEvent(n, s) \/ UserEvent(n, s)
  PROVE MigrationInv'
<1>1. /\ M("evtUp", n, s) \in Msg /\ M("evtUp", n, s).kind \notin TokenKinds
      /\ M("evtDown", n, s) \in Msg /\ M("evtDown", n, s).kind \notin TokenKinds
  BY MessageType DEF M, TokenKinds, FromTokens, ToTokens, ToNodeKinds, FromNodeKinds
<1>2. CASE OnUserEvent(n, s)
  <2> DEFINE m == M("evtUp", n, s)
             down == M("evtDown", other[n], s)
  <2>1. net[m] > 0 /\ Linked(n) /\ total[other[n]] = -1
    BY <1>2 DEF OnUserEvent, Forward, Handle, MigrationInv, TokenInv, EventsBeforeCount, SentToken, Prepared
  <2>2. other[n] \in Nodes /\ other[n] # NoNode
    BY <2>1, ShardAssumption DEF Linked
  <2>3. Handle(m, {down}) /\ down \in Msg /\ m \notin {down} /\ down.kind \notin TokenKinds
    BY <1>2, <2>2, MessageType, SameMessage
    DEF OnUserEvent, Forward, ToNodeKinds, M, TokenKinds, FromTokens, ToTokens
  <2>4. \A x \in Msg : net'[x] = IF x = m THEN net[x] - 1 ELSE IF x \in {down} THEN net[x] + 1 ELSE net[x]
    <3> HIDE DEF m, down
    <3>1. QED
      BY <1>1, <2>3, HandleCounts DEF MigrationInv, m
  <2>5. \A x \in Msg : x.kind \in TokenKinds => net'[x] = net[x]
    BY <1>1, <2>3, <2>4
  <2>6. \A a \in Nodes, t \in Shards :
          /\ net'[M("evtUp", a, t)] > 0 => net[M("evtUp", a, t)] > 0
          /\ net'[M("evtDown", a, t)] > 0 => net[M("evtDown", a, t)] > 0 \/ total[a] = -1
    <3>1. \A a \in Nodes, t \in Shards : M("evtUp", a, t) \in Msg /\ M("evtDown", a, t) \in Msg
      BY MessageType DEF ToNodeKinds, FromNodeKinds
    <3>2. QED
      BY <2>1, <2>4, <3>1, SameMessage
  <2>7. QED
    BY <1>2, <2>5, <2>6, BystanderStep
    DEF OnUserEvent, orchVars, callVars, transferVars, gatewayVars
<1>3. CASE UserEvent(n, s)
  <2> DEFINE m == M("evtDown", n, s)
  <2>1. Handle(m, {})
    BY <1>3 DEF UserEvent
  <2>2. \A x \in Msg : net'[x] = IF x = m THEN net[x] - 1 ELSE IF x \in {} THEN net[x] + 1 ELSE net[x]
    BY <1>1, <2>1, HandleCounts DEF MigrationInv
  <2>3. \A x \in Msg : x.kind \in TokenKinds => net'[x] = net[x]
    BY <1>1, <2>2
  <2>4. \A a \in Nodes, t \in Shards :
          /\ net'[M("evtUp", a, t)] > 0 => net[M("evtUp", a, t)] > 0
          /\ net'[M("evtDown", a, t)] > 0 => net[M("evtDown", a, t)] > 0
    <3>1. \A a \in Nodes, t \in Shards : M("evtUp", a, t) \in Msg /\ M("evtDown", a, t) \in Msg
      BY MessageType DEF ToNodeKinds, FromNodeKinds
    <3>2. \A x \in Msg : net[x] \in Nat
      BY DEF TypeOK
    <3>3. QED
      BY <2>2, <3>1, <3>2, SameMessage
  <2>5. QED
    BY <1>3, <2>3, <2>4, BystanderStep DEF UserEvent, orchVars, callVars, gatewayVars
<1>4. QED
  BY <1>2, <1>3

\* A call looks for the origin, or is refused before it has marked anything.
LEMMA UnmarkedCallStep ==
  ASSUME TypeOK, MigrationInv, NEW c \in Callers,
         RefuseFrom(c) \/ \E n, to \in Nodes, s \in Shards : FindOrigin(c, n, to, s)
  PROVE MigrationInv'
<1>1. /\ UNCHANGED <<connected, dead, panics, running, mode, other, migShard, gateway, nodeShard, total, net>>
      /\ \A e \in Callers : pc'[e] = "markTo" => pc[e] = "markTo" /\ call'[e] = call[e]
  BY DEF RefuseFrom, FindOrigin, orchVars, transferVars, gatewayVars, TypeOK
<1>2. QED
  BY <1>1, BystanderStep

\* Nothing happens.
LEMMA StutterStep ==
  ASSUME TypeOK, MigrationInv, UNCHANGED vars
  PROVE MigrationInv'
<1>1. /\ UNCHANGED <<connected, dead, panics, running, mode, other, migShard, gateway, nodeShard, total, net>>
      /\ UNCHANGED <<pc, call>>
  BY DEF vars, orchVars, callVars, transferVars, gatewayVars
<1>2. QED
  BY <1>1, BystanderStep

\* The transfer is complete: with m, the last user event or the number, nothing else of
\* n's migration is under way, and the shard's gateway is opened at n.
LEMMA FinishStep ==
  ASSUME TypeOK, MigrationInv, NEW n \in Nodes, NEW m \in Msg,
         m.kind \in {"allDown", "evtDown"},
         mode[n] = "to", nodeShard[n] = migShard[n], Nowhere(migShard[n]),
         \A x \in Msg : Token(x) /\ x # m => Destination(x) # n,
         m.kind = "allDown" => net[m] = 1 /\ Destination(m) = n,
         Finish(n, m)
  PROVE MigrationInv'
<1> DEFINE s == migShard[n]
           w == M("started", n, s)
<1>1. s \in Shards /\ w \in Msg /\ w.kind \in TokenKinds /\ Destination(w) = n /\ w.kind = "started"
  BY TokenMessages DEF MigrationInv, ReleasedUnlessMarked
<1> HIDE DEF w
<1>2. Handle(m, {w}) /\ m \notin {w}
  BY <1>1 DEF Finish, w
<1>3. \A x \in Msg : net'[x] = IF x = m THEN net[x] - 1 ELSE IF x \in {w} THEN net[x] + 1 ELSE net[x]
  BY <1>2, HandleCounts DEF MigrationInv
<1>4. net[w] = 0 /\ \A x \in Msg : net[x] \in Nat
  BY <1>1, <1>2 DEF Token, TokenKinds, TypeOK
<1>5. /\ gateway' = [gateway EXCEPT ![n] = @ \cup {s}]
      /\ nodeShard' = [nodeShard EXCEPT ![n] = NoShard] /\ total' = [total EXCEPT ![n] = -1]
      /\ UNCHANGED <<connected, dead, panics, running, mode, other, migShard, pc, call>>
  BY DEF Finish, orchVars, callVars
<1>6. ASSUME NEW x \in Msg, Token(x)'
      PROVE net'[x] = 1 /\ (x = w \/ (Token(x) /\ Destination(x) # n))
  BY <1>1, <1>3, <1>4, <1>6 DEF Token, TokenKinds, FromTokens, ToTokens, MigrationInv, OneToken
<1>7. /\ \A x : Destination(x)' = Destination(x)
      /\ \A a : Linked(a)' = Linked(a)
      /\ \A a \in Nodes : Prepared(a) /\ a # n => Prepared(a)'
      /\ \A t : Nowhere(t) /\ t # s => Nowhere(t)'
      /\ \A a \in Nodes : \A t : t \in gateway[a] => t \in gateway'[a]
  BY <1>5 DEF Destination, Linked, Prepared, Nowhere, TypeOK
<1>8. OneToken'
  BY <1>1, <1>6, <1>7 DEF OneToken, MigrationInv
\* No other migration moves the same shard.
<1>9. \A a \in Nodes : mode[a] = "to" /\ a # n => migShard[a] # s
  BY DEF MigrationInv, OneMigration
<1>10. /\ \A k \in {"prepFrom", "startMig", "toReady"}, a \in Nodes, t \in Shards :
            net'[M(k, a, t)] > 0 =>
              net[M(k, a, t)] > 0 /\ (IF k = "toReady" THEN a ELSE other[a]) # n
       /\ \A a \in Nodes, t \in Shards :
            net'[M("started", a, t)] > 0 => net[M("started", a, t)] > 0 \/ (a = n /\ t = s)
       /\ \A k \in {"fromReady", "prepTo"}, a \in Nodes, t \in Shards, x \in Sessions :
            net'[WithSession(k, a, t, x)] > 0 =>
              net[WithSession(k, a, t, x)] > 0 /\ (IF k = "prepTo" THEN a ELSE other[a]) # n
       /\ \A k \in {"allUp", "allDown"}, a \in Nodes, j \in 0 .. MaxEvents :
            net'[WithCount(k, a, j)] > 0 =>
              net[WithCount(k, a, j)] > 0 /\ (IF k = "allDown" THEN a ELSE other[a]) # n
  BY <1>6, TokenMessages, SameMessage DEF Token, TokenKinds, w
<1>11. /\ \A k \in {"prepFrom", "started"}, a \in Nodes, t \in Shards :
            net[M(k, a, t)] > 0 => net'[M(k, a, t)] > 0
       /\ \A a \in Nodes, t \in Shards, x \in Sessions :
            net[WithSession("fromReady", a, t, x)] > 0 => net'[WithSession("fromReady", a, t, x)] > 0
       /\ \A a \in Nodes, j \in 0 .. MaxEvents :
            net[WithCount("allUp", a, j)] > 0 => net'[WithCount("allUp", a, j)] > 0
       /\ net'[w] > 0
  BY <1>1, <1>3, <1>4, TokenMessages
<1>12. \A k \in {"evtUp", "evtDown"}, a \in Nodes, t \in Shards :
         net'[M(k, a, t)] > 0 => net[M(k, a, t)] > 0
  <2>1. \A k \in {"evtUp", "evtDown"}, a \in Nodes, t \in Shards : M(k, a, t) \in Msg /\ M(k, a, t) # w
    BY MessageType, SameMessage DEF ToNodeKinds, FromNodeKinds, w
  <2>2. QED
    BY <1>3, <1>4, <2>1
<1>13. ClosingToken' /\ ClosedToken'
  BY <1>5, <1>7, <1>9, <1>10 DEF ClosingToken, ClosedToken, Linked, MigrationInv, TokenInv
<1>14. PreparingToken' /\ PreparedToken'
  BY <1>5, <1>7, <1>9, <1>10 DEF PreparingToken, PreparedToken, MigrationInv, TokenInv
<1>15. SendingToken' /\ SentToken' /\ CountToken'
  BY <1>5, <1>7, <1>9, <1>10 DEF SendingToken, SentToken, CountToken, Linked, MigrationInv, TokenInv
<1>16. StartedToken'
  BY <1>5, <1>7, <1>10 DEF StartedToken, MigrationInv, TokenInv, TypeOK
<1>17. EventsBeforeCount'
  BY <1>11, <1>12 DEF EventsBeforeCount, MigrationInv
<1>18. EventsExpected'
  <2>1. \A d \in Nodes : total'[d] # -1 => d # n /\ total'[d] = total[d] /\ nodeShard'[d] = nodeShard[d]
    BY <1>5 DEF TypeOK
  <2>2. \A x \in Msg : Token(x)' => Token(x) \/ Destination(x) = n
    BY <1>1, <1>6
  <2>3. QED
    BY <1>5, <1>7, <1>9, <1>12, <2>1, <2>2 DEF EventsExpected, MigrationInv
<1>19. Marking'
  BY <1>5, <1>7 DEF Marking, MigrationInv, TypeOK
<1>20. ReleasedUnlessMarked'
  <2> SUFFICES ASSUME NEW d \in Nodes, mode[d] = "to"
               PROVE /\ migShard[d] \in Shards
                     /\ \/ Nowhere(migShard[d])'
                        \/ other[d] \in Nodes /\ net'[M("prepFrom", other[d], migShard[d])] > 0
                        \/ net'[M("started", d, migShard[d])] > 0
    BY <1>5 DEF ReleasedUnlessMarked, Nowhere
  <2>1. CASE d = n
    <3>1. net'[M("started", n, migShard[n])] > 0
      BY <1>11 DEF w
    <3>2. migShard[n] \in Shards
      BY <1>1
    <3>3. QED
      BY <2>1, <3>1, <3>2
  <2>2. CASE d # n
    BY <1>5, <1>7, <1>9, <1>11, <2>2 DEF ReleasedUnlessMarked, MigrationInv
  <2>3. QED
    BY <2>1, <2>2
<1>21. OneMigration' /\ ReportedRuns' /\ NothingFails'
  BY <1>5, <1>7, <1>11 DEF OneMigration, ReportedRuns, NothingFails, MigrationInv
<1>22. OneGateway'
  BY <1>5 DEF OneGateway, Nowhere, MigrationInv, TypeOK
<1>23. QED
  BY <1>8, <1>13, <1>14, <1>15, <1>16, <1>17, <1>18, <1>19, <1>20, <1>21, <1>22
  DEF MigrationInv, TokenInv

\* A transfer is completed by its number of user events.
LEMMA LateAllUserdataSentStep ==
  ASSUME TypeOK, MigrationInv, NEW n \in Nodes, NEW k0 \in 0 .. MaxEvents, LateAllUserdataSent(n, k0)
  PROVE MigrationInv'
<1> DEFINE m == WithCount("allDown", n, k0)
<1>1. m \in Msg /\ m.kind = "allDown" /\ m.kind \in TokenKinds /\ Destination(m) = n
  BY TokenMessages
<1>2. net[m] > 0
  BY DEF LateAllUserdataSent, Complete, Finish, FinishNothing, Handle
<1>3. mode[n] = "to" /\ Nowhere(migShard[n]) /\ nodeShard[n] = migShard[n]
  BY <1>2 DEF MigrationInv, TokenInv, CountToken, Prepared
<1> HIDE DEF m
<1>4. net[m] = 1 /\ \A x \in Msg : Token(x) /\ x # m => Destination(x) # n
  BY <1>1, <1>2 DEF Token, TokenKinds, MigrationInv, OneToken
<1>5. Finish(n, m)
  BY <1>3, ShardAssumption
  DEF LateAllUserdataSent, Complete, FinishNothing, MigrationInv, ReleasedUnlessMarked, m
<1>6. QED
  BY <1>1, <1>3, <1>4, <1>5, FinishStep

\* Or by the last of them.
LEMMA LastUserEventStep ==
  ASSUME TypeOK, MigrationInv, NEW n \in Nodes, NEW s \in Shards, LastUserEvent(n, s)
  PROVE MigrationInv'
<1> DEFINE m == M("evtDown", n, s)
<1>1. m \in Msg /\ m.kind = "evtDown"
  BY MessageType DEF ToNodeKinds, M
<1>2. net[m] > 0 /\ total[n] # -1
  BY DEF LastUserEvent, CompletesEvents, Complete, Finish, FinishNothing, Handle, TypeOK
<1>3. /\ mode[n] = "to" /\ Nowhere(migShard[n]) /\ nodeShard[n] = migShard[n]
      /\ \A x \in Msg : Token(x) => Destination(x) # n
  BY <1>2 DEF MigrationInv, EventsExpected
<1>4. Finish(n, m)
  BY <1>3, ShardAssumption
  DEF LastUserEvent, Complete, FinishNothing, MigrationInv, ReleasedUnlessMarked
<1> HIDE DEF m
<1>5. QED
  BY <1>1, <1>3, <1>4, FinishStep

\* The destination reports the shard: its migration is over.
LEMMA OnStartedStep ==
  ASSUME TypeOK, MigrationInv, NEW n \in Nodes, NEW s \in Shards, OnStarted(n, s)
  PROVE MigrationInv'
<1> DEFINE m == M("started", n, s)
<1>1. mode[n] = "to" /\ migShard[n] = s /\ s \in gateway[n]
  BY DEF OnStarted, Handle, MigrationInv, TokenInv, StartedToken
<1>2. Handle(m, {}) /\ m \in Msg /\ m.kind \in TokenKinds /\ Destination(m) = n
  BY TokenMessages DEF OnStarted
<1>3. /\ OneToken' /\ Passed(m, {}) /\ EventsKept /\ Token(m)
      /\ \A x \in Msg : Token(x) /\ x # m => Destination(x) # n
  <2>1. other' = other
    BY DEF OnStarted
  <2> HIDE DEF m
  <2>2. QED
    BY <1>2, <2>1, PassToken DEF MigrationInv
<1>4. /\ mode' = [mode EXCEPT ![n] = "none"] /\ running' = [running EXCEPT ![n] = @ \cup {s}]
      /\ UNCHANGED <<connected, dead, panics, other, migShard, pc, call, gateway, nodeShard, total>>
  BY <1>1 DEF OnStarted, callVars, transferVars, gatewayVars
<1>5. /\ \A t : Nowhere(t)' = Nowhere(t)
      /\ \A a \in Nodes : Linked(a) /\ other[a] # n => Linked(a)'
      /\ \A a : Prepared(a)' = Prepared(a)
      /\ \A x : Destination(x)' = Destination(x)
  BY <1>1, <1>4 DEF Nowhere, Linked, Prepared, Destination, TypeOK
\* What is left is of other migrations.
<1>6. /\ \A k \in {"prepFrom", "startMig", "toReady", "started"}, a \in Nodes, t \in Shards :
           net'[M(k, a, t)] > 0 =>
             net[M(k, a, t)] > 0 /\ (IF k \in {"prepFrom", "startMig"} THEN other[a] ELSE a) # n
      /\ \A k \in {"fromReady", "prepTo"}, a \in Nodes, t \in Shards, x \in Sessions :
           net'[WithSession(k, a, t, x)] > 0 =>
             net[WithSession(k, a, t, x)] > 0 /\ (IF k = "fromReady" THEN other[a] ELSE a) # n
      /\ \A k \in {"allUp", "allDown"}, a \in Nodes, j \in 0 .. MaxEvents :
           net'[WithCount(k, a, j)] > 0 =>
             net[WithCount(k, a, j)] > 0 /\ (IF k = "allUp" THEN other[a] ELSE a) # n
  <2>1. \A x \in Msg : x.kind \in TokenKinds /\ net'[x] > 0 => net[x] > 0 /\ Destination(x) # n
    BY <1>3 DEF Passed, Token, TokenKinds
  <2>2. QED
    BY <2>1, TokenMessages
<1>7. /\ \A a \in Nodes, t \in Shards : net[M("prepFrom", a, t)] > 0 => net'[M("prepFrom", a, t)] > 0
      /\ \A a \in Nodes, t \in Shards :
           a # n /\ net[M("started", a, t)] > 0 => net'[M("started", a, t)] > 0
      /\ \A a \in Nodes, t \in Shards, x \in Sessions :
           net[WithSession("fromReady", a, t, x)] > 0 => net'[WithSession("fromReady", a, t, x)] > 0
      /\ \A a \in Nodes, j \in 0 .. MaxEvents :
           net[WithCount("allUp", a, j)] > 0 => net'[WithCount("allUp", a, j)] > 0
      /\ \A k \in {"evtUp", "evtDown"}, a \in Nodes, t \in Shards : net'[M(k, a, t)] = net[M(k, a, t)]
  BY <1>3, Carried, KeptEvents, SameMessage
<1>8. ClosingToken' /\ ClosedToken'
  BY <1>4, <1>5, <1>6 DEF ClosingToken, ClosedToken, MigrationInv, TokenInv
<1>9. PreparingToken' /\ PreparedToken'
  BY <1>4, <1>5, <1>6 DEF PreparingToken, PreparedToken, MigrationInv, TokenInv, TypeOK
<1>10. SendingToken' /\ SentToken'
  BY <1>4, <1>5, <1>6 DEF SendingToken, SentToken, MigrationInv, TokenInv
<1>11. CountToken' /\ StartedToken'
  BY <1>4, <1>5, <1>6 DEF CountToken, StartedToken, MigrationInv, TokenInv, TypeOK
<1>12. EventsBeforeCount'
  BY <1>7 DEF EventsBeforeCount, MigrationInv
<1>13. EventsExpected'
  <2>1. \A x \in Msg : Token(x)' => Token(x)
    BY <1>3 DEF Passed, Token, TokenKinds
  <2>2. QED
    BY <1>2, <1>3, <1>4, <1>5, <1>7, <2>1 DEF EventsExpected, MigrationInv, TypeOK
<1>14. Marking'
  BY <1>1, <1>4 DEF Marking, MigrationInv, TypeOK
<1>15. ReleasedUnlessMarked' /\ OneMigration'
  BY <1>4, <1>5, <1>7 DEF ReleasedUnlessMarked, OneMigration, MigrationInv, TypeOK
<1>16. ReportedRuns'
  BY <1>1, <1>4, <1>7 DEF ReportedRuns, MigrationInv, TypeOK
<1>17. QED
  BY <1>3, <1>4, <1>8, <1>9, <1>10, <1>11, <1>12, <1>13, <1>14, <1>15, <1>16
  DEF MigrationInv, TokenInv, NothingFails, OneGateway

\* Tokens are found at marked nodes.
LEMMA TokenPlaces ==
  ASSUME TypeOK, MigrationInv, NEW x \in Msg, Token(x)
  PROVE IF x.kind \in FromTokens THEN x.node \in Nodes /\ Linked(x.node)
                                 ELSE x.node \in Nodes /\ mode[x.node] = "to"
<1>1. CASE x \in [kind : ToNodeKinds \cup FromNodeKinds, node : Nodes, shard : Shards]
  <2>1. x = M(x.kind, x.node, x.shard)
    BY <1>1 DEF M
  <2>2. QED
    BY <1>1, <2>1 DEF Token, FromTokens, ToTokens, ToNodeKinds, FromNodeKinds, MigrationInv, TokenInv,
                      ClosingToken, SendingToken, PreparedToken, StartedToken
<1>2. CASE x \in [kind : {"prepTo", "fromReady"}, node : Nodes, shard : Shards, session : Sessions]
  <2>1. x = WithSession(x.kind, x.node, x.shard, x.session)
    BY <1>2 DEF WithSession
  <2>2. QED
    BY <1>2, <2>1 DEF Token, FromTokens, ToTokens, MigrationInv, TokenInv, ClosedToken, PreparingToken
<1>3. CASE x \in [kind : {"allDown", "allUp"}, node : Nodes, events : 0 .. MaxEvents]
  <2>1. x = WithCount(x.kind, x.node, x.events)
    BY <1>3 DEF WithCount
  <2>2. QED
    BY <1>3, <2>1 DEF Token, FromTokens, ToTokens, MigrationInv, TokenInv, SentToken, CountToken
<1>4. QED
  BY <1>1, <1>2, <1>3 DEF Msg

\* A node that is part of no migration is marked as an origin, or its mark taken back.
LEMMA RemarkStep ==
  ASSUME TypeOK, MigrationInv, NEW n \in Nodes, mode[n] # "to", ~Linked(n),
         NEW v, v # "to", mode' = [mode EXCEPT ![n] = v],
         NEW o, other' = [other EXCEPT ![n] = o],
         NEW sh, migShard' = [migShard EXCEPT ![n] = sh],
         UNCHANGED <<connected, dead, panics, running, gateway, nodeShard, total, net>>,
         \A e \in Callers : pc'[e] = "markTo" =>
           call'[e].from = n \/ (pc[e] = "markTo" /\ call'[e] = call[e]),
         Marking'
  PROVE MigrationInv'
<1>1. /\ \A a \in Nodes : Linked(a) => Linked(a)' /\ a # n /\ other[a] # n /\ other[a] \in Nodes
      /\ \A a \in Nodes : a # n => mode'[a] = mode[a] /\ other'[a] = other[a] /\ migShard'[a] = migShard[a]
      /\ \A a \in Nodes : mode'[a] = "to" <=> mode[a] = "to"
      /\ \A t : Nowhere(t)' = Nowhere(t)
      /\ \A a \in Nodes : a # n => Prepared(a)' = Prepared(a)
  BY DEF Linked, Nowhere, Prepared, TypeOK
<1>2. \A x \in Msg : Token(x)' = Token(x) /\ (Token(x) => Destination(x)' = Destination(x))
  BY <1>1, TokenPlaces DEF Token, Destination
<1>3. OneToken'
  BY <1>2 DEF OneToken, MigrationInv
<1>4. ClosingToken' /\ ClosedToken'
  BY <1>1 DEF ClosingToken, ClosedToken, MigrationInv, TokenInv
<1>5. PreparingToken' /\ PreparedToken'
  BY <1>1 DEF PreparingToken, PreparedToken, MigrationInv, TokenInv
<1>6. SendingToken' /\ SentToken'
  BY <1>1 DEF SendingToken, SentToken, MigrationInv, TokenInv
<1>7. CountToken' /\ StartedToken'
  BY <1>1 DEF CountToken, StartedToken, MigrationInv, TokenInv
<1>8. EventsBeforeCount'
  BY DEF EventsBeforeCount, MigrationInv
<1>9. EventsExpected'
  BY <1>1, <1>2 DEF EventsExpected, MigrationInv
<1>10. ReleasedUnlessMarked' /\ OneMigration' /\ ReportedRuns'
  BY <1>1 DEF ReleasedUnlessMarked, OneMigration, ReportedRuns, MigrationInv
<1>11. QED
  BY <1>3, <1>4, <1>5, <1>6, <1>7, <1>8, <1>9, <1>10
  DEF MigrationInv, TokenInv, NothingFails, OneGateway

\* A call marks the origin: the shard it reports is running, for an origin that is
\* giving it away is busy.
LEMMA MarkFromStep ==
  ASSUME TypeOK, MigrationInv, NEW c \in Callers, MarkFrom(c)
  PROVE MigrationInv'
<1> DEFINE n == call[c].from
           s == call[c].shard
<1>1. n \in Nodes /\ s \in Shards /\ mode[n] = "none" /\ s \in running[n]
  BY DEF MarkFrom, TypeOK, Call
<1>2. s \in gateway[n]
  BY <1>1 DEF MigrationInv, ReportedRuns, TokenInv, ClosedToken, Linked
<1>3. /\ mode' = [mode EXCEPT ![n] = "from"] /\ other' = [other EXCEPT ![n] = call[c].to]
      /\ migShard' = [migShard EXCEPT ![n] = s] /\ pc' = [pc EXCEPT ![c] = "markTo"]
      /\ UNCHANGED <<call, connected, dead, panics, running, gateway, nodeShard, total, net>>
  BY DEF MarkFrom, transferVars, gatewayVars
<1>4. \A e \in Callers : e # c /\ pc[e] = "markTo" => call[e].from # n
  BY <1>1 DEF MigrationInv, Marking
<1>5. \A e \in Callers : pc'[e] = "markTo" => e = c \/ pc[e] = "markTo"
  BY <1>3 DEF TypeOK
<1>6. Marking'
  BY <1>1, <1>2, <1>3, <1>4, <1>5 DEF MigrationInv, Marking, TypeOK
<1>7. QED
  BY <1>1, <1>3, <1>5, <1>6, RemarkStep DEF Linked

\* A call gives up because the destination is busy.
LEMMA BusyDestinationStep ==
  ASSUME TypeOK, MigrationInv, NEW c \in Callers, BusyDestination(c)
  PROVE MigrationInv'
<1> DEFINE n == call[c].from
<1>1. n \in Nodes /\ mode[n] = "from" /\ ~Linked(n)
  BY DEF BusyDestination, TypeOK, Call, MigrationInv, Marking, Linked
<1>2. /\ mode' = [mode EXCEPT ![n] = "none"] /\ other' = [other EXCEPT ![n] = NoNode]
      /\ migShard' = [migShard EXCEPT ![n] = NoShard] /\ pc' = [pc EXCEPT ![c] = "idle"]
      /\ UNCHANGED <<call, connected, dead, panics, running, gateway, nodeShard, total, net>>
  BY DEF BusyDestination, transferVars, gatewayVars
<1>3. \A e \in Callers : pc'[e] = "markTo" => e # c /\ pc[e] = "markTo" /\ call[e].from # n
  BY <1>2 DEF BusyDestination, TypeOK, MigrationInv, Marking
<1>4. Marking'
  BY <1>2, <1>3 DEF MigrationInv, Marking, TypeOK
<1>5. QED
  BY <1>1, <1>2, <1>3, <1>4, RemarkStep

\* A call marks the destination and the migration gets its first token.
LEMMA MarkToStep ==
  ASSUME TypeOK, MigrationInv, NEW c \in Callers, MarkTo(c)
  PROVE MigrationInv'
<1> DEFINE n == call[c].from
           d == call[c].to
           s == call[c].shard
           w == M("prepFrom", n, s)
<1>1. /\ n \in Nodes /\ d \in Nodes /\ s \in Shards /\ pc[c] = "markTo"
      /\ mode[n] = "from" /\ other[n] = d /\ migShard[n] = s /\ s \in gateway[n]
      /\ mode[d] = "none" /\ n # d
      /\ \A e \in Callers : pc[e] = "markTo" /\ call[e].from = n => e = c
  BY DEF MarkTo, TypeOK, Call, MigrationInv, Marking
<1>2. /\ mode' = [mode EXCEPT ![d] = "to"] /\ other' = [other EXCEPT ![d] = n]
      /\ migShard' = [migShard EXCEPT ![d] = s] /\ pc' = [pc EXCEPT ![c] = "idle"]
      /\ Send({w})
      /\ UNCHANGED <<call, connected, dead, panics, running, gateway, nodeShard, total>>
  BY DEF MarkTo, transferVars, gatewayVars
<1>3. w \in Msg /\ w.kind = "prepFrom" /\ w.node = n /\ w.kind \in TokenKinds
  BY <1>1, TokenMessages DEF M
<1>4. ~Linked(n)
  BY <1>1 DEF Linked
<1>5. net[w] = 0
  BY <1>1, <1>3, <1>4 DEF MigrationInv, TokenInv, ClosingToken, TypeOK
<1>6. /\ \A a \in Nodes : Linked(a) => Linked(a)' /\ a # n /\ a # d /\ other[a] # d
      /\ Linked(n)'
      /\ \A a \in Nodes : a # d => mode'[a] = mode[a] /\ other'[a] = other[a] /\ migShard'[a] = migShard[a]
      /\ mode'[d] = "to" /\ other'[d] = n /\ migShard'[d] = s
      /\ \A t : Nowhere(t)' = Nowhere(t)
      /\ \A a \in Nodes : a # d => Prepared(a)' = Prepared(a)
  BY <1>1, <1>2, <1>4 DEF Linked, Nowhere, Prepared, TypeOK
<1> HIDE DEF w
<1>7. \A x \in Msg : net'[x] = IF x \in {w} THEN net[x] + 1 ELSE net[x]
  BY <1>2, SendCounts DEF MigrationInv
<1>8. \A x \in Msg : Token(x)' =>
        \/ x = w /\ net'[x] = 1 /\ Destination(x)' = d
        \/ Token(x) /\ net'[x] = net[x] /\ Destination(x)' = Destination(x) /\ Destination(x) # d
  <2>1. ASSUME NEW x \in Msg, Token(x)', x # w
        PROVE Token(x) /\ net'[x] = net[x] /\ Destination(x)' = Destination(x) /\ Destination(x) # d
    <3>1. Token(x) /\ net'[x] = net[x]
      BY <1>7, <2>1 DEF Token
    <3>2. QED
      BY <1>1, <1>6, <3>1, TokenPlaces DEF Destination
  <2>2. net'[w] = 1
    BY <1>3, <1>5, <1>7
  <2>3. \A x \in Msg : x = w => Destination(x)' = d
    BY <1>1, <1>3, <1>6 DEF Destination, FromTokens
  <2>4. QED
    BY <2>1, <2>2, <2>3
<1>9. OneToken'
  BY <1>8 DEF OneToken, MigrationInv
<1>10. /\ \A a \in Nodes, t \in Shards :
            /\ net'[M("prepFrom", a, t)] > 0 <=> net[M("prepFrom", a, t)] > 0 \/ (a = n /\ t = s)
            /\ net'[M("startMig", a, t)] = net[M("startMig", a, t)]
            /\ net'[M("toReady", a, t)] = net[M("toReady", a, t)]
            /\ net'[M("started", a, t)] = net[M("started", a, t)]
       /\ \A k \in {"fromReady", "prepTo"}, a \in Nodes, t \in Shards, x \in Sessions :
            net'[WithSession(k, a, t, x)] = net[WithSession(k, a, t, x)]
       /\ \A k \in {"allUp", "allDown"}, a \in Nodes, j \in 0 .. MaxEvents :
            net'[WithCount(k, a, j)] = net[WithCount(k, a, j)]
  BY <1>5, <1>7, TokenMessages, SameMessage DEF w, TypeOK
<1>11. \A k \in {"evtUp", "evtDown"}, a \in Nodes, t \in Shards : net'[M(k, a, t)] = net[M(k, a, t)]
  <2>1. \A k \in {"evtUp", "evtDown"}, a \in Nodes, t \in Shards : M(k, a, t) \in Msg /\ M(k, a, t) # w
    BY MessageType, SameMessage DEF ToNodeKinds, FromNodeKinds, w
  <2>2. QED
    BY <1>7, <2>1
<1>12. ClosingToken'
  BY <1>1, <1>2, <1>6, <1>10 DEF ClosingToken, MigrationInv, TokenInv
<1>13. ClosedToken'
  BY <1>6, <1>10 DEF ClosedToken, MigrationInv, TokenInv
<1>14. PreparingToken' /\ PreparedToken'
  BY <1>1, <1>6, <1>10 DEF PreparingToken, PreparedToken, MigrationInv, TokenInv
<1>15. SendingToken' /\ SentToken'
  BY <1>6, <1>10 DEF SendingToken, SentToken, MigrationInv, TokenInv, Linked
<1>16. CountToken' /\ StartedToken'
  BY <1>1, <1>2, <1>6, <1>10 DEF CountToken, StartedToken, MigrationInv, TokenInv
<1>17. EventsBeforeCount'
  BY <1>10, <1>11 DEF EventsBeforeCount, MigrationInv
<1>18. EventsExpected'
  BY <1>1, <1>2, <1>6, <1>8, <1>11 DEF EventsExpected, MigrationInv
<1>19. Marking'
  <2>1. \A e \in Callers : pc'[e] = "markTo" => pc[e] = "markTo" /\ e # c /\ call[e].from \in Nodes
    BY <1>2 DEF TypeOK, Call
  <2>2. QED
    BY <1>1, <1>2, <1>6, <2>1 DEF Marking, MigrationInv
<1>20. ReleasedUnlessMarked'
  BY <1>1, <1>6, <1>10 DEF ReleasedUnlessMarked, MigrationInv
\* A migration of the same shard would have released it, be linked with n or run it itself.
<1>21. \A e \in Nodes : mode[e] = "to" => migShard[e] # s
  BY <1>1, <1>4 DEF Nowhere, MigrationInv, ReleasedUnlessMarked, TokenInv, ClosingToken, StartedToken,
                    OneGateway
<1>22. OneMigration'
  BY <1>1, <1>6, <1>21 DEF OneMigration, MigrationInv
<1>23. ReportedRuns'
  BY <1>2, <1>10 DEF ReportedRuns, MigrationInv
<1>24. QED
  BY <1>2, <1>9, <1>12, <1>13, <1>14, <1>15, <1>16, <1>17, <1>18, <1>19, <1>20, <1>22, <1>23
  DEF MigrationInv, TokenInv, NothingFails, OneGateway

-----------------------------------------------------------------------------
(* The theorems.                                                           *)

LEMMA MigrationInit == Init => MigrationInv
<1> SUFFICES ASSUME Init PROVE MigrationInv
  OBVIOUS
<1>1. /\ \A m \in Msg : ~Token(m)
      /\ \A k \in {"prepFrom", "startMig", "toReady", "started"}, a \in Nodes, t \in Shards :
           ~(net[M(k, a, t)] > 0)
      /\ \A k \in {"fromReady", "prepTo"}, a \in Nodes, t \in Shards, x \in Sessions :
           ~(net[WithSession(k, a, t, x)] > 0)
      /\ \A k \in {"allUp", "allDown"}, a \in Nodes, j \in 0 .. MaxEvents :
           ~(net[WithCount(k, a, j)] > 0)
  BY TokenMessages DEF Init, Token
<1>2. \A k \in {"evtUp", "evtDown"}, a \in Nodes, t \in Shards : ~(net[M(k, a, t)] > 0)
  BY MessageType DEF Init, ToNodeKinds, FromNodeKinds
<1>3. TokenInv
  BY <1>1 DEF TokenInv, ClosingToken, ClosedToken, PreparingToken, PreparedToken, SendingToken, SentToken,
              CountToken, StartedToken
<1>4. OneToken /\ EventsBeforeCount /\ EventsExpected
  BY <1>1, <1>2 DEF OneToken, EventsBeforeCount, EventsExpected
<1>5. OneGateway
  BY DEF Init, OneGateway
<1>6. QED
  BY <1>3, <1>4, <1>5
  DEF Init, MigrationInv, NothingFails, Marking, ReleasedUnlessMarked, OneMigration, ReportedRuns

LEMMA MigrationStep == TypeOK /\ MigrationInv /\ [Next]_vars => MigrationInv'
<1> SUFFICES ASSUME TypeOK, MigrationInv, [Next]_vars PROVE MigrationInv'
  OBVIOUS
<1>1. CASE UNCHANGED vars
  BY <1>1, StutterStep
<1>2. CASE Migrate
  BY <1>2, UnmarkedCallStep, MarkFromStep, MarkToStep, BusyDestinationStep DEF Migrate, CallStep
<1>3. CASE NodeStep
  BY <1>3, PrepareFromStep, SendUserEventsStep, PrepareToStep, UserEventStep, LastUserEventStep,
     AllUserdataSentStep, LateAllUserdataSentStep DEF NodeStep
<1>4. CASE OrchestratorStep
  BY <1>4, OnFromReadyStep, OnToReadyStep, UserEventStep, OnStartedStep, OnAllUserdataSentStep
  DEF OrchestratorStep
<1>5. QED
  BY <1>1, <1>2, <1>3, <1>4 DEF Next

\* The inductive invariant holds in every behaviour of migrations: a migration has one
\* token, its nodes are marked with each other while the origin is needed, and the
\* shard is released before anything is prepared at the destination.
THEOREM MigrationTheorem == Spec => []MigrationInv
BY TypeTheorem, MigrationInit, MigrationStep, PTL DEF Spec

\* No shard's gateway is ever open on two nodes, whatever calls of StartShardMigration
\* and messages interleave.
THEOREM OneGatewayTheorem == Spec => []OneGateway
<1>1. MigrationInv => OneGateway
  BY DEF MigrationInv
<1>2. QED
  BY <1>1, MigrationTheorem, PTL

\* ResumeShard is never called without a shard: no node's process ends in a panic.
THEOREM NoPanicTheorem == Spec => []NoPanic
<1>1. MigrationInv => NoPanic
  BY DEF MigrationInv, NothingFails, NoPanic
<1>2. QED
  BY <1>1, MigrationTheorem, PTL

-----------------------------------------------------------------------------
(* What a step leaves alone.                                               *)

\* A token's destination is marked, and its origin as long as the token is there.
LEMMA TokenDestination ==
  ASSUME TypeOK, MigrationInv, NEW x \in Msg, Token(x)
  PROVE /\ Destination(x) \in Nodes /\ mode[Destination(x)] = "to" /\ migShard[Destination(x)] \in Shards
        /\ x.kind \in FromTokens => /\ x.node \in Nodes /\ Linked(x.node) /\ other[x.node] = Destination(x)
                                    /\ migShard[x.node] \in Shards
BY TokenPlaces DEF Destination, Linked, MigrationInv, ReleasedUnlessMarked

\* Migrations other than that to d0 go on as before.
LEMMA OtherMigrations ==
  ASSUME TypeOK, MigrationInv, EventsInv, NEW d0,
         \A d \in Nodes : d # d0 /\ mode[d] = "to" =>
           /\ migShard'[d] = migShard[d] /\ nodeShards'[d] = nodeShards[d] /\ nodeShard'[d] = nodeShard[d]
           /\ processed'[d] = processed[d] /\ total'[d] = total[d]
           /\ sent'[migShard[d]] = sent[migShard[d]],
         \A d \in Nodes : d # d0 => Moving(d)' = Moving(d),
         \A d \in Nodes, t \in Shards : d # d0 => net'[M("evtDown", d, t)] = net[M("evtDown", d, t)],
         \A a \in Nodes, t \in Shards : Linked(a) /\ other[a] # d0 =>
           migShard'[a] = migShard[a] /\ net'[M("evtUp", a, t)] = net[M("evtUp", a, t)],
         \A x \in Msg : Token(x)' => Destination(x)' = d0 \/ (Token(x) /\ Destination(x)' = Destination(x)),
         \A x \in Msg : Token(x) => Destination(x) = d0 \/ (Token(x)' /\ Destination(x)' = Destination(x))
  PROVE /\ \A x \in Msg : Token(x)' /\ Destination(x)' # d0 => TokenCounts(x)'
        /\ \A d \in Nodes : d # d0 /\ Moving(d)' /\ NoTokenFor(d)' => Waits(d)'
        /\ \A d \in Nodes : d # d0 => EventsDown(d)'
<1>1. ASSUME NEW d \in Nodes, d # d0, mode[d] = "to"
      PROVE /\ migShard[d] \in Shards /\ migShard'[d] = migShard[d]
            /\ Recorded(d)' = Recorded(d) /\ Delivered(d)' = Delivered(d) /\ Waits(d)' = Waits(d)
            /\ sent'[migShard'[d]] = sent[migShard[d]]
  <2>1. migShard[d] \in Shards
    BY <1>1 DEF MigrationInv, ReleasedUnlessMarked
  <2>2. QED
    BY <1>1, <2>1 DEF Recorded, Delivered, Waits
<1>2. ASSUME NEW x \in Msg, Token(x)', Destination(x)' # d0 PROVE TokenCounts(x)'
  <2>1. PICK d \in Nodes : d = Destination(x) /\ d = Destination(x)' /\ d # d0 /\ mode[d] = "to" /\ Token(x)
    BY <1>2, TokenDestination
  <2>2. TokenCounts(x)
    BY <2>1 DEF EventsInv
  <2>3. ASSUME x.kind = "allUp"
        PROVE net'[M("evtUp", x.node, migShard'[x.node])] = net[M("evtUp", x.node, migShard[x.node])]
    <3>1. x.node \in Nodes /\ Linked(x.node) /\ other[x.node] # d0 /\ migShard[x.node] \in Shards
      BY <2>1, <2>3, TokenDestination DEF FromTokens
    <3>2. QED
      BY <3>1
  <2>4. /\ Recorded(d)' = Recorded(d) /\ Delivered(d)' = Delivered(d) /\ processed'[d] = processed[d]
        /\ sent'[migShard'[d]] = sent[migShard[d]]
    BY <1>1, <2>1
  <2>5. QED
    BY <2>1, <2>2, <2>3, <2>4 DEF TokenCounts
<1>3. ASSUME NEW d \in Nodes, d # d0, Moving(d)', NoTokenFor(d)' PROVE Waits(d)'
  <2>1. Moving(d) /\ mode[d] = "to"
    BY <1>3 DEF Moving
  <2>2. NoTokenFor(d)
    BY <1>3 DEF NoTokenFor
  <2>3. QED
    BY <1>1, <1>3, <2>1, <2>2 DEF EventsInv
<1>4. ASSUME NEW d \in Nodes, d # d0 PROVE EventsDown(d)'
  <2> SUFFICES ASSUME NEW t \in Shards, net'[M("evtDown", d, t)] > 0
               PROVE /\ Moving(d)' /\ t = migShard'[d]
                     /\ \A x \in Msg : Token(x)' /\ Destination(x)' = d => x.kind \in {"allUp", "allDown"}
    BY DEF EventsDown
  <2>1. /\ Moving(d) /\ t = migShard[d]
        /\ \A x \in Msg : Token(x) /\ Destination(x) = d => x.kind \in {"allUp", "allDown"}
    BY <1>4 DEF EventsInv, EventsDown
  <2>2. QED
    BY <1>1, <1>4, <2>1 DEF Moving
<1>5. QED
  BY <1>2, <1>3, <1>4

\* Token m of the migration to d0 is taken and the one in out, if any, is sent.
LEMMA PassedOn ==
  ASSUME TypeOK, MigrationInv, EventsInv, UNCHANGED <<other, migShard>>,
         NEW m \in Msg, NEW out \in SUBSET Msg, NEW d0 \in Nodes, Token(m), Destination(m) = d0,
         \A x \in Msg : Token(x) /\ x # m => Destination(x) # d0,
         \A x \in out : x.kind \in TokenKinds /\ Destination(x) = d0,
         Passed(m, out),
         \A d \in Nodes : d # d0 /\ mode[d] = "to" =>
           /\ nodeShards'[d] = nodeShards[d] /\ nodeShard'[d] = nodeShard[d]
           /\ processed'[d] = processed[d] /\ total'[d] = total[d]
           /\ sent'[migShard[d]] = sent[migShard[d]],
         \A d \in Nodes : d # d0 => Moving(d)' = Moving(d),
         \A d \in Nodes, t \in Shards : net'[M("evtDown", d, t)] = net[M("evtDown", d, t)],
         \A a \in Nodes, t \in Shards : Linked(a) /\ other[a] # d0 => net'[M("evtUp", a, t)] = net[M("evtUp", a, t)],
         \A a \in Nodes : EventsUp(a)',
         \A x \in out : TokenCounts(x)',
         m.kind \in {"allUp", "allDown"} => EventsDown(d0)',
         out = {} /\ Moving(d0)' => Waits(d0)'
  PROVE EventsInv'
<1>1. \A x : Destination(x)' = Destination(x)
  BY DEF Destination
<1>2. \A x \in Msg : /\ Token(x)' => x \in out \/ (Token(x) /\ x # m)
                     /\ x \in out \/ (Token(x) /\ x # m) => Token(x)'
  BY DEF Passed, Token, TokenKinds
<1>3. /\ \A x \in Msg : Token(x)' /\ Destination(x)' # d0 => TokenCounts(x)'
      /\ \A d \in Nodes : d # d0 /\ Moving(d)' /\ NoTokenFor(d)' => Waits(d)'
      /\ \A d \in Nodes : d # d0 => EventsDown(d)'
  BY <1>1, <1>2, OtherMigrations
<1>4. \A x \in Msg : Token(x)' => TokenCounts(x)'
  BY <1>1, <1>2, <1>3
<1>5. Moving(d0)' /\ NoTokenFor(d0)' => Waits(d0)'
  BY <1>1, <1>2 DEF NoTokenFor
<1>6. EventsDown(d0)'
  <2>1. ASSUME m.kind \notin {"allUp", "allDown"}, NEW t \in Shards PROVE ~(net[M("evtDown", d0, t)] > 0)
    BY <2>1 DEF EventsInv, EventsDown
  <2>2. QED
    BY <2>1 DEF EventsDown
<1>7. QED
  BY <1>3, <1>4, <1>5, <1>6 DEF EventsInv

\* The same for the handler of a message that touches no user event.
LEMMA HandledOn ==
  ASSUME TypeOK, MigrationInv, EventsInv, UNCHANGED <<other, migShard>>,
         NEW m \in Msg, NEW out \in SUBSET Msg, NEW d0 \in Nodes,
         m \notin out, m.kind \in TokenKinds, Destination(m) = d0, \A x, y \in out : x = y,
         \A x \in out : x.kind \in TokenKinds /\ Destination(x) = d0,
         Handle(m, out),
         \A d \in Nodes : d # d0 /\ mode[d] = "to" =>
           /\ nodeShards'[d] = nodeShards[d] /\ nodeShard'[d] = nodeShard[d]
           /\ processed'[d] = processed[d] /\ total'[d] = total[d]
           /\ sent'[migShard[d]] = sent[migShard[d]],
         \A d \in Nodes : d # d0 => Moving(d)' = Moving(d),
         \A x \in out : TokenCounts(x)',
         m.kind \in {"allUp", "allDown"} => EventsDown(d0)',
         out = {} /\ Moving(d0)' => Waits(d0)'
  PROVE /\ EventsInv'
        /\ \A a \in Nodes, t \in Shards :
             net[M("started", a, t)] > 0 /\ M("started", a, t) # m => net'[M("started", a, t)] > 0
<1>1. NothingFails /\ OneToken /\ other' = other
  BY DEF MigrationInv
<1>2. /\ Passed(m, out) /\ EventsKept /\ Token(m)
      /\ \A x \in Msg : Token(x) /\ x # m => Destination(x) # Destination(m)
  BY <1>1, PassToken
<1>3. \A k \in {"evtUp", "evtDown"}, a \in Nodes, t \in Shards : net'[M(k, a, t)] = net[M(k, a, t)]
  BY <1>2, KeptEvents
<1>4. \A a \in Nodes : EventsUp(a)'
  BY <1>3 DEF EventsInv, EventsUp
<1>5. \A a \in Nodes, t \in Shards :
        net[M("started", a, t)] > 0 /\ M("started", a, t) # m => net'[M("started", a, t)] > 0
  BY <1>2, Carried
<1>6. QED
  BY <1>2, <1>3, <1>4, <1>5, PassedOn

\* What runs and what is recorded and reported stay while no shard's migration ends.
LEMMA RunsKept ==
  ASSUME RunsInv, UNCHANGED <<gateway, nodeShards, running>>,
         \A d \in Nodes : Moving(d) => Moving(d)' /\ migShard'[d] = migShard[d],
         \A a \in Nodes, t \in Shards : net[M("started", a, t)] > 0 => net'[M("started", a, t)] > 0
  PROVE RunsInv'
BY DEF RunsInv, RecordedRuns, RunsRecorded, RunsReported

\* A step that touches nothing of a migration.
LEMMA UnseenDelivery ==
  ASSUME DeliveryInv,
         UNCHANGED <<mode, other, migShard, running, gateway, nodeShards, nodeShard, processed, total, sent, net>>
  PROVE DeliveryInv'
BY DEF DeliveryInv, EventsInv, RunsInv, RecordedRuns, RunsRecorded, RunsReported, TokenCounts, Token,
       Destination, NoTokenFor, Waits, Recorded, Delivered, EventsUp, EventsDown, Moving, Nowhere
-----------------------------------------------------------------------------
(* One lemma for every step of a migration.                                *)

\* The origin closes the shard's gateway and no longer records it.
LEMMA PrepareFromDelivery ==
  ASSUME TypeOK, MigrationInv, DeliveryInv, NEW n \in Nodes, NEW s \in Shards, PrepareFrom(n, s)
  PROVE DeliveryInv'
<1>1. Linked(n) /\ migShard[n] = s /\ s \in gateway[n] /\ ~Nowhere(s)
  BY DEF PrepareFrom, Handle, MigrationInv, TokenInv, ClosingToken, Nowhere
<1>2. PICK d0 \in Nodes, x0 \in Sessions : d0 = other[n] /\ x0 = closes + 1
  BY <1>1, ShardAssumption DEF PrepareFrom, TypeOK, Linked, Sessions
<1> DEFINE m == M("prepFrom", n, s)
           w == WithSession("fromReady", n, s, x0)
<1>3. /\ Handle(m, {w})
      /\ gateway' = [gateway EXCEPT ![n] = @ \ {s}] /\ nodeShards' = [nodeShards EXCEPT ![n] = @ \ {s}]
      /\ nodeShard' = [nodeShard EXCEPT ![n] = s]
      /\ UNCHANGED <<mode, other, migShard, running, processed, total, sent>>
  BY <1>1, <1>2 DEF PrepareFrom, orchVars
<1>4. /\ m \in Msg /\ m.kind = "prepFrom" /\ m.kind \in TokenKinds /\ Destination(m) = d0
      /\ w \in Msg /\ w.kind = "fromReady" /\ w.kind \in TokenKinds /\ Destination(w) = d0
  BY <1>2, TokenMessages
<1>5. \A a \in Nodes, t \in Shards : M("started", a, t) # m
  BY SameMessage
<1> HIDE DEF m, w
\* Every other migration is of another shard.
<1>6. \A d \in Nodes : d # d0 => Moving(d)' = Moving(d)
  <2>1. mode[d0] = "to" /\ migShard[d0] = s
    BY <1>1, <1>2 DEF Linked
  <2>2. \A d \in Nodes : d # d0 /\ mode[d] = "to" => migShard[d] # s /\ migShard[d] \in Shards
    BY <2>1 DEF MigrationInv, OneMigration, ReleasedUnlessMarked
  <2>3. \A t \in Shards : t # s => Nowhere(t)' = Nowhere(t)
    BY <1>3 DEF Nowhere, TypeOK
  <2>4. QED
    BY <1>3, <2>2, <2>3 DEF Moving
<1>7. /\ EventsInv'
      /\ \A a \in Nodes, t \in Shards : net[M("started", a, t)] > 0 => net'[M("started", a, t)] > 0
  <2>1. TokenCounts(w)'
    BY <1>4 DEF TokenCounts
  <2>2. mode[n] # "to"
    BY <1>1 DEF Linked
  <2>3. \A d \in Nodes : d # n => nodeShards'[d] = nodeShards[d] /\ nodeShard'[d] = nodeShard[d]
    BY <1>3 DEF TypeOK
  <2>4. \A x \in {w} : x.kind \in TokenKinds /\ Destination(x) = d0 /\ TokenCounts(x)'
    BY <1>4, <2>1
  <2>5. m \notin {w} /\ {w} \in SUBSET Msg /\ \A x, y \in {w} : x = y
    BY <1>4
  <2>6. QED
    BY <1>3, <1>4, <1>5, <1>6, <2>2, <2>3, <2>4, <2>5, HandledOn DEF DeliveryInv
<1>8. RecordedRuns'
  <2> SUFFICES ASSUME NEW a \in Nodes, NEW t \in Shards, t \in nodeShards'[a]
               PROVE t \in gateway'[a] \/ (Moving(a)' /\ t = migShard'[a])
    BY DEF RecordedRuns
  <2>1. t \in nodeShards[a] /\ (t \in gateway[a] \/ (Moving(a) /\ t = migShard[a]))
    BY <1>3 DEF DeliveryInv, RunsInv, RecordedRuns, TypeOK
  <2>2. CASE t \in gateway[a]
    <3>1. ~(a = n /\ t = s)
      BY <1>3 DEF TypeOK
    <3>2. QED
      BY <1>3, <2>2, <3>1 DEF TypeOK
  <2>3. CASE Moving(a) /\ t = migShard[a]
    BY <1>3, <2>3 DEF Moving, Nowhere, TypeOK
  <2>4. QED
    BY <2>1, <2>2, <2>3
<1>9. RunsRecorded' /\ RunsReported'
  BY <1>3, <1>7 DEF DeliveryInv, RunsInv, RunsRecorded, RunsReported, TypeOK
<1>10. QED
  BY <1>7, <1>8, <1>9 DEF DeliveryInv, RunsInv

\* The orchestrator takes the shard from the origin, which runs it no longer.
LEMMA OnFromReadyDelivery ==
  ASSUME TypeOK, MigrationInv, DeliveryInv, NEW n \in Nodes, NEW s \in Shards, NEW x0 \in Sessions,
         OnFromReady(n, s, x0)
  PROVE DeliveryInv'
<1>1. Linked(n) /\ migShard[n] = s /\ Nowhere(s)
  BY DEF OnFromReady, Forward, Handle, MigrationInv, TokenInv, ClosedToken
<1>2. PICK d0 \in Nodes : d0 = other[n] /\ d0 # NoNode
  BY <1>1, ShardAssumption DEF Linked
<1> DEFINE m == WithSession("fromReady", n, s, x0)
           w == WithSession("prepTo", d0, s, x0)
<1>3. /\ Handle(m, {w}) /\ running' = [running EXCEPT ![n] = @ \ {s}]
      /\ UNCHANGED <<gateway, nodeShards, nodeShard, mode, other, migShard, processed, total, sent>>
  BY <1>2 DEF OnFromReady, Forward, transferVars, gatewayVars
<1>4. /\ m \in Msg /\ m.kind = "fromReady" /\ m.kind \in TokenKinds /\ Destination(m) = d0
      /\ w \in Msg /\ w.kind = "prepTo" /\ w.kind \in TokenKinds /\ Destination(w) = d0
  BY <1>2, TokenMessages
<1>5. \A a \in Nodes, t \in Shards : M("started", a, t) # m
  BY SameMessage
<1> HIDE DEF m, w
<1>6. \A d \in Nodes : Moving(d)' = Moving(d)
  BY <1>3 DEF Moving, Nowhere
<1>7. /\ EventsInv'
      /\ \A a \in Nodes, t \in Shards : net[M("started", a, t)] > 0 => net'[M("started", a, t)] > 0
  <2>1. TokenCounts(w)'
    BY <1>4 DEF TokenCounts
  <2>2. \A x \in {w} : x.kind \in TokenKinds /\ Destination(x) = d0 /\ TokenCounts(x)'
    BY <1>4, <2>1
  <2>3. m \notin {w} /\ {w} \in SUBSET Msg /\ \A x, y \in {w} : x = y
    BY <1>4
  <2>4. QED
    BY <1>3, <1>4, <1>5, <1>6, <2>2, <2>3, HandledOn DEF DeliveryInv
<1>8. RunsReported'
  BY <1>1, <1>3, <1>7 DEF DeliveryInv, RunsInv, RunsReported, Nowhere, TypeOK
<1>9. RecordedRuns' /\ RunsRecorded'
  BY <1>3, <1>6 DEF DeliveryInv, RunsInv, RecordedRuns, RunsRecorded
<1>10. QED
  BY <1>7, <1>8, <1>9 DEF DeliveryInv, RunsInv

\* The destination records the shard and starts to count.
LEMMA PrepareToDelivery ==
  ASSUME TypeOK, MigrationInv, DeliveryInv, NEW n \in Nodes, NEW s \in Shards, NEW x0 \in Sessions,
         PrepareTo(n, s, x0)
  PROVE DeliveryInv'
<1>1. mode[n] = "to" /\ migShard[n] = s /\ Nowhere(s)
  BY DEF PrepareTo, Handle, MigrationInv, TokenInv, PreparingToken
<1> DEFINE m == WithSession("prepTo", n, s, x0)
           w == M("toReady", n, s)
<1>2. /\ Handle(m, {w})
      /\ nodeShards' = [nodeShards EXCEPT ![n] = @ \cup {s}] /\ nodeShard' = [nodeShard EXCEPT ![n] = s]
      /\ processed' = [processed EXCEPT ![n] = 0] /\ total' = [total EXCEPT ![n] = -1]
      /\ UNCHANGED <<gateway, running, mode, other, migShard, sent>>
  BY DEF PrepareTo, orchVars, gatewayVars
<1>3. /\ m \in Msg /\ m.kind = "prepTo" /\ m.kind \in TokenKinds /\ Destination(m) = n
      /\ w \in Msg /\ w.kind = "toReady" /\ w.kind \in TokenKinds /\ Destination(w) = n
  BY TokenMessages
<1>4. \A a \in Nodes, t \in Shards : M("started", a, t) # m
  BY SameMessage
<1> HIDE DEF m, w
<1>5. \A d \in Nodes : Moving(d)' = Moving(d)
  BY <1>2 DEF Moving, Nowhere
<1>6. /\ EventsInv'
      /\ \A a \in Nodes, t \in Shards : net[M("started", a, t)] > 0 => net'[M("started", a, t)] > 0
  <2>1. Destination(w)' = n
    BY <1>2, <1>3 DEF Destination
  <2>2. TokenCounts(w)'
    BY <1>1, <1>2, <1>3, <2>1 DEF TokenCounts, Recorded, TypeOK
  <2>3. \A d \in Nodes : d # n => /\ nodeShards'[d] = nodeShards[d] /\ nodeShard'[d] = nodeShard[d]
                                 /\ processed'[d] = processed[d] /\ total'[d] = total[d]
    BY <1>2 DEF TypeOK
  <2>4. \A x \in {w} : x.kind \in TokenKinds /\ Destination(x) = n /\ TokenCounts(x)'
    BY <1>3, <2>2
  <2>5. m \notin {w} /\ {w} \in SUBSET Msg /\ \A x, y \in {w} : x = y
    BY <1>3
  <2>6. QED
    BY <1>2, <1>3, <1>4, <1>5, <2>3, <2>4, <2>5, HandledOn DEF DeliveryInv
<1>7. RecordedRuns'
  BY <1>1, <1>2, <1>5 DEF DeliveryInv, RunsInv, RecordedRuns, Moving, TypeOK
<1>8. RunsRecorded' /\ RunsReported'
  BY <1>2, <1>6 DEF DeliveryInv, RunsInv, RunsRecorded, RunsReported, TypeOK
<1>9. QED
  BY <1>6, <1>7, <1>8 DEF DeliveryInv, RunsInv

\* The origin may send: nothing has been counted yet.
LEMMA OnToReadyDelivery ==
  ASSUME TypeOK, MigrationInv, DeliveryInv, NEW n \in Nodes, NEW s \in Shards, OnToReady(n, s)
  PROVE DeliveryInv'
<1>1. mode[n] = "to" /\ migShard[n] = s /\ other[n] \in Nodes /\ other[other[n]] = n
  BY DEF OnToReady, Forward, Handle, MigrationInv, TokenInv, PreparedToken
<1>2. PICK o0 \in Nodes : o0 = other[n] /\ o0 # NoNode
  BY <1>1, ShardAssumption
<1> DEFINE m == M("toReady", n, s)
           w == M("startMig", o0, s)
<1>3. /\ Handle(m, {w})
      /\ UNCHANGED <<gateway, running, nodeShards, nodeShard, mode, other, migShard, processed, total, sent>>
  BY <1>2 DEF OnToReady, Forward, orchVars, transferVars, gatewayVars
<1>4. /\ m \in Msg /\ m.kind = "toReady" /\ m.kind \in TokenKinds /\ Destination(m) = n
      /\ w \in Msg /\ w.kind = "startMig" /\ w.kind \in TokenKinds /\ Destination(w) = n
  BY <1>1, <1>2, TokenMessages
<1>5. \A a \in Nodes, t \in Shards : M("started", a, t) # m
  BY SameMessage
<1> HIDE DEF m, w
<1>6. \A d \in Nodes : Moving(d)' = Moving(d)
  BY <1>3 DEF Moving, Nowhere
<1>7. /\ EventsInv'
      /\ \A a \in Nodes, t \in Shards : net[M("started", a, t)] > 0 => net'[M("started", a, t)] > 0
  <2>1. Token(m)
    BY <1>3, <1>4 DEF Handle, Token, TokenKinds
  <2>2. Recorded(n) /\ processed[n] = 0
    BY <1>4, <2>1 DEF DeliveryInv, EventsInv, TokenCounts
  <2>3. Destination(w)' = n
    BY <1>3, <1>4 DEF Destination
  <2>4. TokenCounts(w)'
    BY <1>3, <1>4, <2>2, <2>3 DEF TokenCounts, Recorded
  <2>5. \A x \in {w} : x.kind \in TokenKinds /\ Destination(x) = n /\ TokenCounts(x)'
    BY <1>4, <2>4
  <2>6. m \notin {w} /\ {w} \in SUBSET Msg /\ \A x, y \in {w} : x = y
    BY <1>4
  <2>7. QED
    BY <1>3, <1>4, <1>5, <1>6, <2>5, <2>6, HandledOn DEF DeliveryInv
<1>8. RunsInv'
  BY <1>3, <1>6, <1>7, RunsKept DEF DeliveryInv
<1>9. QED
  BY <1>7, <1>8 DEF DeliveryInv

\* The origin sends k0 user events, the first ones, and says how many.
LEMMA SendUserEventsDelivery ==
  ASSUME TypeOK, MigrationInv, DeliveryInv, NEW n \in Nodes, NEW s \in Shards,
         NEW k0 \in 0 .. MaxEvents, SendUserEvents(n, s, k0)
  PROVE DeliveryInv'
<1> PICK m, w, e \in Msg : UserEventsSent(n, s, k0, m, w, e)
  BY SendUserEventsPasses
<1>1. /\ m = M("startMig", n, s) /\ w = WithCount("allUp", n, k0) /\ e = M("evtUp", n, s)
      /\ Linked(n) /\ migShard[n] = s /\ Token(m) /\ m # w /\ m # e /\ w # e
      /\ m.kind \in TokenKinds /\ w.kind \in TokenKinds /\ Destination(m) = Destination(w)
      /\ \A x \in Msg : net'[x] = IF x = m THEN net[x] - 1
                                  ELSE IF x = w THEN net[x] + 1
                                  ELSE IF x = e THEN net[x] + k0 ELSE net[x]
      /\ Passed(m, {w})
      /\ \A x \in Msg : Token(x) /\ x # m => Destination(x) # Destination(m)
  BY DEF UserEventsSent
<1>2. PICK d0 \in Nodes : d0 = other[n] /\ d0 = Destination(m)
  BY <1>1, TokenMessages DEF Linked
<1>3. /\ UNCHANGED <<gateway, running, nodeShards, nodeShard, mode, other, migShard, processed, total>>
      /\ sent' = [sent EXCEPT ![s] = k0]
  BY DEF SendUserEvents, orchVars, transferVars, gatewayVars
<1>4. \A d \in Nodes : Moving(d)' = Moving(d)
  BY <1>3 DEF Moving, Nowhere
<1>5. m.kind = "startMig" /\ w.kind = "allUp" /\ w.node = n /\ w.events = k0
  BY <1>1 DEF M, WithCount
<1>6. \A a \in Nodes, t \in Shards :
        /\ M("evtDown", a, t) \in Msg /\ M("evtUp", a, t) \in Msg
        /\ M("evtDown", a, t) # m /\ M("evtDown", a, t) # w /\ M("evtDown", a, t) # e
        /\ M("evtUp", a, t) # m /\ M("evtUp", a, t) # w /\ (M("evtUp", a, t) = e <=> a = n /\ t = s)
        /\ M("started", a, t) # m
  BY <1>1, MessageType, SameMessage DEF ToNodeKinds, FromNodeKinds
<1>7. \A a \in Nodes, t \in Shards :
        /\ net'[M("evtDown", a, t)] = net[M("evtDown", a, t)]
        /\ a # n \/ t # s => net'[M("evtUp", a, t)] = net[M("evtUp", a, t)]
  BY <1>1, <1>6
<1>8. net'[M("evtUp", n, s)] = net[M("evtUp", n, s)] + k0
  BY <1>1, <1>6
\* None was under way before.
<1>9. net[M("evtDown", d0, s)] = 0 /\ net[M("evtUp", n, s)] = 0
  <2>1. ~(net[M("evtDown", d0, s)] > 0)
    BY <1>1, <1>2, <1>5 DEF DeliveryInv, EventsInv, EventsDown
  <2>2. \A j \in 0 .. MaxEvents : ~(net[WithCount("allUp", n, j)] > 0)
    <3>1. ASSUME NEW j \in 0 .. MaxEvents, net[WithCount("allUp", n, j)] > 0 PROVE FALSE
      <4>1. /\ Token(WithCount("allUp", n, j)) /\ WithCount("allUp", n, j) \in Msg
            /\ WithCount("allUp", n, j) # m /\ Destination(WithCount("allUp", n, j)) = other[n]
        BY <1>5, <3>1, TokenMessages DEF Token, TokenKinds
      <4>2. QED
        BY <1>1, <1>2, <4>1
    <3>2. QED
      BY <3>1
  <2>3. ~(net[M("evtUp", n, s)] > 0)
    BY <2>2 DEF MigrationInv, EventsBeforeCount
  <2>4. QED
    BY <1>6, <2>1, <2>3 DEF TypeOK
<1>10. TokenCounts(w)'
  <2>1. Recorded(d0) /\ processed[d0] = 0
    BY <1>1, <1>2, <1>5 DEF DeliveryInv, EventsInv, TokenCounts
  <2>2. Destination(w)' = d0 /\ migShard'[d0] = s /\ migShard'[n] = s
    BY <1>1, <1>2, <1>3 DEF Destination, Linked
  <2>3. Delivered(d0)' = 0
    BY <1>3, <1>7, <1>9, <2>1, <2>2 DEF Delivered
  <2>4. sent'[s] = k0
    BY <1>3 DEF TypeOK
  <2>5. QED
    BY <1>3, <1>5, <1>8, <1>9, <2>1, <2>2, <2>3, <2>4 DEF TokenCounts, Recorded
<1>11. EventsInv'
  <2>1. \A a \in Nodes : EventsUp(a)'
    BY <1>1, <1>3, <1>7 DEF DeliveryInv, EventsInv, EventsUp
  <2>2. \A a \in Nodes, t \in Shards : Linked(a) /\ other[a] # d0 => net'[M("evtUp", a, t)] = net[M("evtUp", a, t)]
    BY <1>2, <1>7
  <2>3. \A x \in {w} : x.kind \in TokenKinds /\ Destination(x) = d0 /\ TokenCounts(x)'
    BY <1>1, <1>2, <1>10
  <2>4. {w} \in SUBSET Msg /\ {w} # {} /\ Destination(m) = d0 /\ m.kind \notin {"allUp", "allDown"}
    BY <1>1, <1>2, <1>5
  \* No other migration is of this shard.
  <2>5. \A d \in Nodes : d # d0 /\ mode[d] = "to" => sent'[migShard[d]] = sent[migShard[d]]
    <3>1. mode[d0] = "to" /\ migShard[d0] = s
      BY <1>1, <1>2 DEF Linked
    <3>2. \A d \in Nodes : d # d0 /\ mode[d] = "to" => migShard[d] # s /\ migShard[d] \in Shards
      BY <3>1 DEF MigrationInv, OneMigration, ReleasedUnlessMarked
    <3>3. QED
      BY <1>3, <3>2 DEF TypeOK
  <2>6. QED
    BY <1>1, <1>2, <1>3, <1>4, <1>7, <2>1, <2>2, <2>3, <2>4, <2>5, PassedOn DEF DeliveryInv
<1>12. \A a \in Nodes, t \in Shards : net[M("started", a, t)] > 0 => net'[M("started", a, t)] > 0
  BY <1>1, <1>6, Carried
<1>13. RunsInv'
  BY <1>3, <1>4, <1>12, RunsKept DEF DeliveryInv
<1>14. QED
  BY <1>11, <1>13 DEF DeliveryInv

\* The number goes to the destination when every user event has.
LEMMA OnAllUserdataSentDelivery ==
  ASSUME TypeOK, MigrationInv, DeliveryInv, NEW n \in Nodes, NEW k0 \in 0 .. MaxEvents,
         OnAllUserdataSent(n, k0)
  PROVE DeliveryInv'
<1>1. Linked(n) /\ Nowhere(migShard[n])
  BY DEF OnAllUserdataSent, Forward, Handle, MigrationInv, TokenInv, SentToken
<1>2. PICK d0 \in Nodes : d0 = other[n] /\ d0 # NoNode
  BY <1>1, ShardAssumption DEF Linked
<1> DEFINE m == WithCount("allUp", n, k0)
           w == WithCount("allDown", d0, k0)
<1>3. /\ Handle(m, {w}) /\ mode' = [mode EXCEPT ![n] = "none"]
      /\ UNCHANGED <<gateway, running, nodeShards, nodeShard, other, migShard, processed, total, sent>>
  BY <1>2 DEF OnAllUserdataSent, Forward, transferVars, gatewayVars
<1>4. /\ m \in Msg /\ m.kind = "allUp" /\ m.kind \in TokenKinds /\ Destination(m) = d0
      /\ w \in Msg /\ w.kind = "allDown" /\ w.kind \in TokenKinds /\ Destination(w) = d0
      /\ m.node = n /\ m.events = k0 /\ w.events = k0
  BY <1>2, TokenMessages DEF WithCount
<1>5. \A a \in Nodes, t \in Shards : M("started", a, t) # m
  BY SameMessage
<1> HIDE DEF m, w
<1>6. \A d \in Nodes : Moving(d)' = Moving(d)
  BY <1>1, <1>3 DEF Moving, Nowhere, Linked, TypeOK
<1>7. Token(m) /\ migShard[n] \in Shards
  BY <1>3, <1>4, TokenDestination DEF Handle, Token, TokenKinds, FromTokens
<1>8. EventsKept /\ Passed(m, {w})
  <2>1. m \notin {w} /\ \A x, y \in {w} : x = y
    BY <1>4
  <2>2. \A x \in {w} : x.kind \in TokenKinds /\ Destination(x) = Destination(m)
    BY <1>4
  <2>3. NothingFails /\ OneToken /\ other' = other
    BY <1>3 DEF MigrationInv
  <2>4. QED
    BY <1>3, <1>4, <2>1, <2>2, <2>3, PassToken
<1>9. Recorded(d0) /\ Delivered(d0) = k0 /\ k0 = sent[migShard[d0]]
  <2>1. net[M("evtUp", n, migShard[n])] = 0
    BY <1>7 DEF OnAllUserdataSent
  <2>2. /\ Recorded(d0) /\ Delivered(d0) + net[M("evtUp", n, migShard[n])] = k0
        /\ k0 = sent[migShard[d0]]
    BY <1>4, <1>7 DEF DeliveryInv, EventsInv, TokenCounts
  <2>3. M("evtDown", d0, migShard[d0]) \in Msg
    BY <1>4, <1>7, TokenDestination, MessageType DEF ToNodeKinds
  <2>4. Delivered(d0) \in Nat
    BY <2>3 DEF Delivered, TypeOK
  <2>5. QED
    BY <2>1, <2>2, <2>4
<1>10. /\ EventsInv'
       /\ \A a \in Nodes, t \in Shards : net[M("started", a, t)] > 0 => net'[M("started", a, t)] > 0
  <2>1. \A a \in Nodes, t \in Shards : net'[M("evtDown", a, t)] = net[M("evtDown", a, t)]
    BY <1>8, KeptEvents
  <2>2. Destination(w)' = d0 /\ migShard[d0] \in Shards
    BY <1>3, <1>4, <1>7, TokenDestination DEF Destination
  <2>3. TokenCounts(w)'
    BY <1>3, <1>4, <1>9, <2>1, <2>2 DEF TokenCounts, Recorded, Delivered
  <2>4. EventsDown(d0)'
    <3>1. \A x \in Msg : Token(x)' => x = w \/ Token(x)
      BY <1>8 DEF Passed, Token, TokenKinds
    <3>2. \A x : Destination(x)' = Destination(x)
      BY <1>3 DEF Destination
    <3>3. QED
      BY <1>3, <1>4, <1>6, <2>1, <3>1, <3>2 DEF DeliveryInv, EventsInv, EventsDown
  <2>5. \A x \in {w} : x.kind \in TokenKinds /\ Destination(x) = d0 /\ TokenCounts(x)'
    BY <1>4, <2>3
  <2>6. m \notin {w} /\ {w} \in SUBSET Msg /\ \A x, y \in {w} : x = y
    BY <1>4
  <2>7. QED
    BY <1>3, <1>4, <1>5, <1>6, <2>4, <2>5, <2>6, HandledOn DEF DeliveryInv
<1>11. RunsInv'
  BY <1>3, <1>6, <1>10, RunsKept DEF DeliveryInv
<1>12. QED
  BY <1>10, <1>11 DEF DeliveryInv

\* The destination learns the number and waits for the rest.
LEMMA AllUserdataSentDelivery ==
  ASSUME TypeOK, MigrationInv, DeliveryInv, NEW n \in Nodes, NEW k0 \in 0 .. MaxEvents,
         AllUserdataSent(n, k0)
  PROVE DeliveryInv'
<1> DEFINE m == WithCount("allDown", n, k0)
<1>1. /\ Handle(m, {}) /\ total' = [total EXCEPT ![n] = k0] /\ processed[n] < k0
      /\ UNCHANGED <<gateway, running, nodeShards, nodeShard, mode, other, migShard, processed, sent>>
  BY DEF AllUserdataSent, CompletesCount, orchVars, gatewayVars, TypeOK
<1>2. /\ m \in Msg /\ m.kind = "allDown" /\ m.kind \in TokenKinds /\ Destination(m) = n /\ m.events = k0
  BY TokenMessages DEF WithCount
<1>3. \A a \in Nodes, t \in Shards : M("started", a, t) # m
  BY SameMessage
<1>4. Nowhere(migShard[n]) /\ nodeShard[n] = migShard[n]
  BY <1>1 DEF Handle, MigrationInv, TokenInv, CountToken, Prepared
<1> HIDE DEF m
<1>5. \A d \in Nodes : Moving(d)' = Moving(d)
  BY <1>1 DEF Moving, Nowhere
<1>6. Token(m) /\ migShard[n] \in Shards
  BY <1>1, <1>2, TokenDestination DEF Handle, Token, TokenKinds
<1>7. EventsKept /\ Passed(m, {})
  <2>1. NothingFails /\ OneToken /\ other' = other
    BY <1>1 DEF MigrationInv
  <2>2. QED
    BY <1>1, <1>2, <2>1, PassToken
<1>8. Recorded(n) /\ Delivered(n) = k0 /\ k0 = sent[migShard[n]]
  BY <1>2, <1>6 DEF DeliveryInv, EventsInv, TokenCounts
<1>9. \A a \in Nodes, t \in Shards : net'[M("evtDown", a, t)] = net[M("evtDown", a, t)]
  BY <1>7, KeptEvents
<1>10. Waits(n)'
  BY <1>1, <1>4, <1>6, <1>8, <1>9 DEF Waits, Recorded, Delivered, TypeOK
<1>11. EventsDown(n)'
  <2>1. \A x \in Msg : Token(x)' => Token(x)
    BY <1>7 DEF Passed, Token, TokenKinds
  <2>2. \A x : Destination(x)' = Destination(x)
    BY <1>1 DEF Destination
  <2>3. QED
    BY <1>1, <1>5, <1>9, <2>1, <2>2 DEF DeliveryInv, EventsInv, EventsDown
<1>12. /\ EventsInv'
       /\ \A a \in Nodes, t \in Shards : net[M("started", a, t)] > 0 => net'[M("started", a, t)] > 0
  <2>1. \A d \in Nodes : d # n => total'[d] = total[d]
    BY <1>1 DEF TypeOK
  <2>2. m \notin {} /\ {} \in SUBSET Msg
    OBVIOUS
  <2>3. QED
    BY <1>1, <1>2, <1>3, <1>5, <1>10, <1>11, <2>1, <2>2, HandledOn DEF DeliveryInv
<1>13. RunsInv'
  BY <1>1, <1>5, <1>12, RunsKept DEF DeliveryInv
<1>14. QED
  BY <1>12, <1>13 DEF DeliveryInv

\* A user event on its way from the orchestrator's side to the destination's: it is
\* counted neither twice nor never.
LEMMA OnUserEventDelivery ==
  ASSUME TypeOK, MigrationInv, DeliveryInv, NEW n \in Nodes, NEW s \in Shards, OnUserEvent(n, s)
  PROVE DeliveryInv'
<1> DEFINE m == M("evtUp", n, s)
<1>1. net[m] > 0
  BY DEF OnUserEvent, Forward, Handle
<1>2. PICK k0 \in 0 .. MaxEvents : net[WithCount("allUp", n, k0)] > 0
  BY <1>1 DEF MigrationInv, EventsBeforeCount
<1>3. Linked(n) /\ Nowhere(migShard[n]) /\ s = migShard[n]
  BY <1>1, <1>2 DEF MigrationInv, TokenInv, SentToken, DeliveryInv, EventsInv, EventsUp
<1>4. PICK d0 \in Nodes : d0 = other[n] /\ d0 # NoNode /\ mode[d0] = "to" /\ migShard[d0] = s /\ other[d0] = n
  BY <1>3, ShardAssumption DEF Linked
<1> DEFINE w == M("evtDown", d0, s)
           c == WithCount("allUp", n, k0)
<1>5. /\ Handle(m, {w})
      /\ UNCHANGED <<gateway, running, nodeShards, nodeShard, mode, other, migShard, processed, total, sent>>
  BY <1>4 DEF OnUserEvent, Forward, orchVars, transferVars, gatewayVars
<1>6. /\ m \in Msg /\ m.kind \notin TokenKinds /\ w \in Msg /\ w.kind \notin TokenKinds /\ m # w
      /\ c \in Msg /\ c.kind = "allUp" /\ c.node = n /\ c.events = k0 /\ Token(c) /\ Destination(c) = d0
      /\ \A a \in Nodes, t \in Shards :
           /\ M("evtUp", a, t) \in Msg /\ M("evtUp", a, t) # w /\ (M("evtUp", a, t) = m <=> a = n /\ t = s)
           /\ M("evtDown", a, t) \in Msg /\ M("evtDown", a, t) # m
           /\ M("evtDown", a, t) = w <=> a = d0 /\ t = s
           /\ M("started", a, t) \in Msg /\ M("started", a, t).kind \in TokenKinds
  <2>1. /\ \A k \in {"evtUp", "evtDown"}, a \in Nodes, t \in Shards :
             M(k, a, t) \in Msg /\ M(k, a, t).kind \notin TokenKinds
        /\ \A a \in Nodes, t \in Shards : M("started", a, t) \in Msg /\ M("started", a, t).kind \in TokenKinds
    BY MessageType DEF M, TokenKinds, FromTokens, ToTokens, ToNodeKinds, FromNodeKinds
  <2>2. /\ c \in Msg /\ c.kind = "allUp" /\ c.node = n /\ c.events = k0 /\ Destination(c) = d0
        /\ Token(c)
    BY <1>2, <1>4, TokenMessages DEF Token, TokenKinds, WithCount
  <2>3. QED
    BY <2>1, <2>2, SameMessage
<1> HIDE DEF m, w, c
<1>7. \A x \in Msg : net'[x] = IF x = m THEN net[x] - 1 ELSE IF x \in {w} THEN net[x] + 1 ELSE net[x]
  <2>1. NothingFails /\ m \notin {w}
    BY <1>6 DEF MigrationInv
  <2>2. QED
    BY <1>5, <1>6, <2>1, HandleCounts
<1>8. /\ \A x \in Msg : Token(x)' = Token(x)
      /\ \A x : Destination(x)' = Destination(x)
      /\ \A d \in Nodes : Moving(d)' = Moving(d)
  BY <1>5, <1>6, <1>7 DEF Token, TokenKinds, Destination, Moving, Nowhere
\* The migration's only token is the count that follows its events.
<1>9. \A x \in Msg : Token(x) /\ Destination(x) = d0 => x = c
  BY <1>6 DEF MigrationInv, OneToken
<1>10. /\ \A a \in Nodes, t \in Shards : a # d0 => net'[M("evtDown", a, t)] = net[M("evtDown", a, t)]
       /\ \A a \in Nodes, t \in Shards : a # n => net'[M("evtUp", a, t)] = net[M("evtUp", a, t)]
       /\ net'[M("evtDown", d0, s)] = net[M("evtDown", d0, s)] + 1
       /\ net'[M("evtUp", n, s)] = net[M("evtUp", n, s)] - 1
       /\ \A t \in Shards : t # s => /\ net'[M("evtDown", d0, t)] = net[M("evtDown", d0, t)]
                                    /\ net'[M("evtUp", n, t)] = net[M("evtUp", n, t)]
       /\ \A a \in Nodes, t \in Shards : net'[M("started", a, t)] = net[M("started", a, t)]
  BY <1>6, <1>7
<1>11. /\ \A x \in Msg : Token(x)' /\ Destination(x)' # d0 => TokenCounts(x)'
       /\ \A d \in Nodes : d # d0 /\ Moving(d)' /\ NoTokenFor(d)' => Waits(d)'
       /\ \A d \in Nodes : d # d0 => EventsDown(d)'
  <2>1. \A a \in Nodes, t \in Shards : Linked(a) /\ other[a] # d0 =>
          migShard'[a] = migShard[a] /\ net'[M("evtUp", a, t)] = net[M("evtUp", a, t)]
    BY <1>4, <1>5, <1>10
  <2>2. QED
    BY <1>5, <1>8, <1>10, <2>1, OtherMigrations DEF DeliveryInv
<1>12. TokenCounts(c)'
  <2>1. /\ Recorded(d0)
        /\ processed[d0] + net[M("evtDown", d0, s)] + net[M("evtUp", n, s)] = k0
        /\ k0 = sent[migShard[d0]]
    BY <1>3, <1>4, <1>6 DEF DeliveryInv, EventsInv, TokenCounts, Delivered
  <2>2. /\ processed[d0] \in Nat /\ net[M("evtDown", d0, s)] \in Nat /\ net[M("evtUp", n, s)] \in Nat
    BY <1>6 DEF TypeOK
  <2>3. processed[d0] + (net[M("evtDown", d0, s)] + 1) + (net[M("evtUp", n, s)] - 1) = k0
    BY <2>1, <2>2
  <2>4. QED
    BY <1>3, <1>4, <1>5, <1>6, <1>8, <1>10, <2>1, <2>3 DEF TokenCounts, Recorded, Delivered
<1>13. EventsInv'
  <2>1. \A a \in Nodes : EventsUp(a)'
    BY <1>3, <1>5, <1>10 DEF DeliveryInv, EventsInv, EventsUp
  <2>2. EventsDown(d0)'
    <3>1. Moving(d0)
      BY <1>3, <1>4 DEF Moving
    <3>2. QED
      BY <1>4, <1>5, <1>6, <1>8, <1>9, <1>10, <3>1 DEF DeliveryInv, EventsInv, EventsDown
  <2>3. \A x \in Msg : Token(x)' => TokenCounts(x)'
    BY <1>8, <1>9, <1>11, <1>12
  <2>4. ~NoTokenFor(d0)'
    BY <1>6, <1>8 DEF NoTokenFor
  <2>5. QED
    BY <1>11, <2>1, <2>2, <2>3, <2>4 DEF EventsInv
<1>14. RunsInv'
  BY <1>5, <1>8, <1>10, RunsKept DEF DeliveryInv
<1>15. QED
  BY <1>13, <1>14 DEF DeliveryInv

\* The destination counts a user event that is not the last one.
LEMMA UserEventDelivery ==
  ASSUME TypeOK, MigrationInv, DeliveryInv, NEW n \in Nodes, NEW s \in Shards, UserEvent(n, s)
  PROVE DeliveryInv'
<1> DEFINE m == M("evtDown", n, s)
<1>1. /\ Handle(m, {}) /\ net[m] > 0 /\ processed' = [processed EXCEPT ![n] = @ + 1]
      /\ total[n] > -1 => processed[n] + 1 < total[n]
      /\ UNCHANGED <<gateway, running, nodeShards, nodeShard, mode, other, migShard, total, sent>>
  BY DEF UserEvent, CompletesEvents, Handle, orchVars, gatewayVars, TypeOK
<1>2. /\ m \in Msg /\ m.kind \notin TokenKinds
      /\ \A a \in Nodes, t \in Shards :
           /\ M("evtUp", a, t) \in Msg /\ M("evtUp", a, t) # m
           /\ M("evtDown", a, t) \in Msg /\ (M("evtDown", a, t) = m <=> a = n /\ t = s)
           /\ M("started", a, t) \in Msg /\ M("started", a, t) # m
  BY MessageType, SameMessage DEF M, TokenKinds, FromTokens, ToTokens, ToNodeKinds, FromNodeKinds
<1>3. /\ Moving(n) /\ s = migShard[n]
      /\ \A x \in Msg : Token(x) /\ Destination(x) = n => x.kind \in {"allUp", "allDown"}
  BY <1>1 DEF DeliveryInv, EventsInv, EventsDown
<1> HIDE DEF m
<1>4. \A x \in Msg : net'[x] = IF x = m THEN net[x] - 1 ELSE net[x]
  <2>1. \A x \in Msg : net'[x] = IF x = m THEN net[x] - 1 ELSE IF x \in {} THEN net[x] + 1 ELSE net[x]
    BY <1>1, <1>2, HandleCounts DEF MigrationInv
  <2>2. QED
    BY <2>1
<1>5. /\ \A x \in Msg : Token(x)' = Token(x)
      /\ \A x : Destination(x)' = Destination(x)
      /\ \A d \in Nodes : Moving(d)' = Moving(d)
  BY <1>1, <1>2, <1>4 DEF Token, TokenKinds, Destination, Moving, Nowhere
<1>6. /\ \A a \in Nodes, t \in Shards : a # n \/ t # s => net'[M("evtDown", a, t)] = net[M("evtDown", a, t)]
      /\ net'[M("evtDown", n, s)] = net[M("evtDown", n, s)] - 1
      /\ \A a \in Nodes, t \in Shards : /\ net'[M("evtUp", a, t)] = net[M("evtUp", a, t)]
                                       /\ net'[M("started", a, t)] = net[M("started", a, t)]
  BY <1>2, <1>4
<1>7. Delivered(n)' = Delivered(n) /\ Recorded(n)' = Recorded(n)
  BY <1>1, <1>2, <1>3, <1>6 DEF Delivered, Recorded, TypeOK
<1>8. /\ \A x \in Msg : Token(x)' /\ Destination(x)' # n => TokenCounts(x)'
      /\ \A d \in Nodes : d # n /\ Moving(d)' /\ NoTokenFor(d)' => Waits(d)'
      /\ \A d \in Nodes : d # n => EventsDown(d)'
  <2>1. \A d \in Nodes : d # n => processed'[d] = processed[d]
    BY <1>1 DEF TypeOK
  <2>2. QED
    BY <1>1, <1>5, <1>6, <2>1, OtherMigrations DEF DeliveryInv
<1>9. ASSUME NEW x \in Msg, Token(x), Destination(x) = n PROVE TokenCounts(x)'
  <2>1. TokenCounts(x) /\ x.kind \in {"allUp", "allDown"}
    BY <1>3, <1>9 DEF DeliveryInv, EventsInv
  <2>2. x.kind = "allUp" =>
          net'[M("evtUp", x.node, migShard'[x.node])] = net[M("evtUp", x.node, migShard[x.node])]
    BY <1>1, <1>6, <1>9, TokenDestination DEF FromTokens
  <2>3. sent'[migShard'[n]] = sent[migShard[n]]
    BY <1>1
  <2>4. QED
    BY <1>5, <1>7, <1>9, <2>1, <2>2, <2>3 DEF TokenCounts
<1>10. Moving(n)' /\ NoTokenFor(n)' => Waits(n)'
  <2>1. ASSUME NoTokenFor(n)' PROVE Waits(n)
    BY <1>3, <1>5, <2>1 DEF DeliveryInv, EventsInv, NoTokenFor
  <2>2. Waits(n) => Waits(n)'
    BY <1>1, <1>7 DEF Waits, TypeOK
  <2>3. QED
    BY <2>1, <2>2
<1>11. EventsInv'
  <2>1. \A a \in Nodes : EventsUp(a)'
    BY <1>1, <1>6 DEF DeliveryInv, EventsInv, EventsUp
  <2>2. EventsDown(n)'
    BY <1>1, <1>2, <1>3, <1>5, <1>6 DEF EventsDown, DeliveryInv, EventsInv
  <2>3. QED
    BY <1>5, <1>8, <1>9, <1>10, <2>1, <2>2 DEF EventsInv
<1>12. RunsInv'
  BY <1>1, <1>5, <1>6, RunsKept DEF DeliveryInv
<1>13. QED
  BY <1>11, <1>12 DEF DeliveryInv

\* Both ways to complete a transfer end with nothing else under way and a gateway that
\* is nobody's.
LEMMA CompletionFinishes ==
  ASSUME TypeOK, MigrationInv, NEW n \in Nodes, NEW s \in Shards, NEW k \in 0 .. MaxEvents,
         LastUserEvent(n, s) \/ LateAllUserdataSent(n, k)
  PROVE \E m \in Msg :
          /\ m.kind \in {"allDown", "evtDown"}
          /\ mode[n] = "to" /\ nodeShard[n] = migShard[n] /\ Nowhere(migShard[n])
          /\ \A x \in Msg : Token(x) /\ x # m => Destination(x) # n
          /\ Finish(n, m)
<1>1. CASE LastUserEvent(n, s)
  <2>1. M("evtDown", n, s) \in Msg /\ M("evtDown", n, s).kind = "evtDown"
    BY MessageType DEF ToNodeKinds, M
  <2>2. net[M("evtDown", n, s)] > 0 /\ total[n] # -1
    BY <1>1 DEF LastUserEvent, CompletesEvents, Complete, Finish, FinishNothing, Handle, TypeOK
  <2>3. /\ mode[n] = "to" /\ Nowhere(migShard[n]) /\ nodeShard[n] = migShard[n]
        /\ \A x \in Msg : Token(x) => Destination(x) # n
    BY <2>2 DEF MigrationInv, EventsExpected
  <2>4. Finish(n, M("evtDown", n, s))
    BY <1>1, <2>3, ShardAssumption
    DEF LastUserEvent, Complete, FinishNothing, MigrationInv, ReleasedUnlessMarked
  <2>5. QED
    BY <2>1, <2>3, <2>4
<1>2. CASE LateAllUserdataSent(n, k)
  <2> DEFINE m == WithCount("allDown", n, k)
  <2>1. m \in Msg /\ m.kind = "allDown" /\ Destination(m) = n
    BY TokenMessages
  <2>2. net[m] > 0
    BY <1>2 DEF LateAllUserdataSent, Complete, Finish, FinishNothing, Handle
  <2>3. mode[n] = "to" /\ Nowhere(migShard[n]) /\ nodeShard[n] = migShard[n]
    BY <2>2 DEF MigrationInv, TokenInv, CountToken, Prepared
  <2>4. Finish(n, m)
    BY <1>2, <2>3, ShardAssumption
    DEF LateAllUserdataSent, Complete, FinishNothing, MigrationInv, ReleasedUnlessMarked
  <2> HIDE DEF m
  <2>5. \A x \in Msg : Token(x) /\ x # m => Destination(x) # n
    BY <2>1, <2>2 DEF Token, ToTokens, MigrationInv, OneToken
  <2>6. QED
    BY <2>1, <2>3, <2>4, <2>5
<1>3. QED
  BY <1>1, <1>2

\* The transfer is complete: the gateway is opened where the shard is recorded.
LEMMA FinishDelivery ==
  ASSUME TypeOK, MigrationInv, DeliveryInv, NEW n \in Nodes, NEW m \in Msg,
         m.kind \in {"allDown", "evtDown"},
         mode[n] = "to", nodeShard[n] = migShard[n], Nowhere(migShard[n]),
         \A x \in Msg : Token(x) /\ x # m => Destination(x) # n,
         m.kind = "allDown" => m.node = n,
         m.kind = "evtDown" => m.node = n,
         Finish(n, m), \A d \in Nodes : d # n => processed'[d] = processed[d],
         Recorded(n), \A t \in Shards : ~(net'[M("evtDown", n, t)] > 0)
  PROVE DeliveryInv'
<1>1. PICK s \in Shards : s = migShard[n]
  BY DEF MigrationInv, ReleasedUnlessMarked
<1> DEFINE w == M("started", n, s)
<1>2. /\ Handle(m, {w})
      /\ gateway' = [gateway EXCEPT ![n] = @ \cup {s}]
      /\ nodeShard' = [nodeShard EXCEPT ![n] = NoShard] /\ total' = [total EXCEPT ![n] = -1]
      /\ UNCHANGED <<running, nodeShards, mode, other, migShard, sent>>
  BY <1>1 DEF Finish, orchVars
<1>3. /\ w \in Msg /\ w.kind = "started" /\ Destination(w) = n
      /\ \A a \in Nodes, t \in Shards :
           /\ M("evtUp", a, t) \in Msg /\ M("evtUp", a, t) # w /\ M("evtUp", a, t) # m
           /\ M("evtDown", a, t) \in Msg /\ M("evtDown", a, t) # w /\ (a # n => M("evtDown", a, t) # m)
           /\ M("started", a, t) \in Msg /\ M("started", a, t) # m
  <2>1. \A k \in {"evtUp", "evtDown", "started"}, a \in Nodes, t \in Shards :
          M(k, a, t) \in Msg /\ M(k, a, t).kind = k /\ M(k, a, t).node = a
    BY MessageType DEF M, ToNodeKinds, FromNodeKinds
  <2>2. Destination(w) = n
    BY TokenMessages
  <2>3. QED
    BY <2>1, <2>2
<1> HIDE DEF w
<1>4. \A x \in Msg : net'[x] = IF x = m THEN net[x] - 1 ELSE IF x \in {w} THEN net[x] + 1 ELSE net[x]
  <2>1. NothingFails /\ m \notin {w}
    BY <1>3 DEF MigrationInv
  <2>2. QED
    BY <1>2, <2>1, HandleCounts
<1>5. /\ \A x : Destination(x)' = Destination(x)
      /\ \A x \in Msg : Token(x)' => x = w \/ Token(x)
      /\ \A x \in Msg : Token(x) => x = m \/ Token(x)'
  BY <1>2, <1>4 DEF Destination, Token, TypeOK
\* m is a message to n.
<1>6. Token(m) => Destination(m) = n
  BY DEF Token, Destination, FromTokens
<1>7. ~Moving(n)' /\ \A d \in Nodes : d # n => Moving(d)' = Moving(d)
  <2>1. \A d \in Nodes : d # n /\ mode[d] = "to" => migShard[d] # s /\ migShard[d] \in Shards
    BY <1>1 DEF MigrationInv, OneMigration, ReleasedUnlessMarked
  <2>2. s \in gateway'[n] /\ \A t \in Shards : t # s => Nowhere(t)' = Nowhere(t)
    BY <1>2 DEF Nowhere, TypeOK
  <2>3. QED
    BY <1>1, <1>2, <2>1, <2>2 DEF Moving, Nowhere
<1>8. \A a \in Nodes, t \in Shards :
        /\ a # n => net'[M("evtDown", a, t)] = net[M("evtDown", a, t)]
        /\ net'[M("evtUp", a, t)] = net[M("evtUp", a, t)]
        /\ net[M("started", a, t)] > 0 \/ (a = n /\ t = s) => net'[M("started", a, t)] > 0
  BY <1>3, <1>4 DEF w, TypeOK
<1>9. /\ \A x \in Msg : Token(x)' /\ Destination(x)' # n => TokenCounts(x)'
      /\ \A d \in Nodes : d # n /\ Moving(d)' /\ NoTokenFor(d)' => Waits(d)'
      /\ \A d \in Nodes : d # n => EventsDown(d)'
  <2>1. \A d \in Nodes : d # n => nodeShard'[d] = nodeShard[d] /\ total'[d] = total[d]
    BY <1>2 DEF TypeOK
  <2>2. \A x \in Msg : Token(x)' => Destination(x)' = n \/ (Token(x) /\ Destination(x)' = Destination(x))
    BY <1>3, <1>5
  <2>3. \A x \in Msg : Token(x) => Destination(x) = n \/ (Token(x)' /\ Destination(x)' = Destination(x))
    BY <1>5, <1>6
  <2>4. QED
    BY <1>2, <1>7, <1>8, <2>1, <2>2, <2>3, OtherMigrations DEF DeliveryInv
<1>10. \A x \in Msg : Token(x)' => TokenCounts(x)'
  <2>1. ASSUME NEW x \in Msg, Token(x)', Destination(x)' = n PROVE x = w \/ x = m
    BY <1>5, <2>1
  <2>2. TokenCounts(w)'
    BY <1>3 DEF TokenCounts
  <2>3. Token(m)' => Token(m)
    BY <1>3, <1>4 DEF Token, TypeOK
  <2>4. ~Token(m)'
    <3>1. Token(m) => net[m] = 1
      BY DEF MigrationInv, OneToken
    <3>2. QED
      BY <1>3, <1>4, <2>3, <3>1 DEF Token
  <2>5. QED
    BY <1>9, <2>1, <2>2, <2>4
<1>11. EventsInv'
  <2>1. \A a \in Nodes : EventsUp(a)'
    BY <1>2, <1>8 DEF DeliveryInv, EventsInv, EventsUp
  <2>2. EventsDown(n)'
    BY DEF EventsDown
  <2>3. QED
    BY <1>7, <1>9, <1>10, <2>1, <2>2 DEF EventsInv
<1>12. RecordedRuns'
  <2> SUFFICES ASSUME NEW a \in Nodes, NEW t \in Shards, t \in nodeShards'[a]
               PROVE t \in gateway'[a] \/ (Moving(a)' /\ t = migShard'[a])
    BY DEF RecordedRuns
  <2>1. t \in gateway[a] \/ (Moving(a) /\ t = migShard[a])
    BY <1>2 DEF DeliveryInv, RunsInv, RecordedRuns
  <2>2. CASE t \in gateway[a]
    BY <1>2, <2>2 DEF TypeOK
  <2>3. CASE Moving(a) /\ t = migShard[a]
    BY <1>1, <1>2, <1>7, <2>3 DEF TypeOK
  <2>4. QED
    BY <2>1, <2>2, <2>3
<1>13. RunsRecorded' /\ RunsReported'
  BY <1>1, <1>2, <1>8 DEF DeliveryInv, RunsInv, RunsRecorded, RunsReported, Recorded, TypeOK
<1>14. QED
  BY <1>11, <1>12, <1>13 DEF DeliveryInv, RunsInv

\* The last user event completes the transfer: the count said there was one to come.
LEMMA LastUserEventDelivery ==
  ASSUME TypeOK, MigrationInv, DeliveryInv, NEW n \in Nodes, NEW s \in Shards, LastUserEvent(n, s)
  PROVE DeliveryInv'
<1> DEFINE m == M("evtDown", n, s)
<1>1. /\ m \in Msg /\ m.kind = "evtDown" /\ m.node = n
      /\ \A t \in Shards : M("evtDown", n, t) \in Msg /\ (M("evtDown", n, t) = m <=> t = s)
      /\ \A t \in Shards : m # M("started", n, t) /\ M("evtDown", n, t) # M("started", n, migShard[n])
  BY MessageType, SameMessage DEF ToNodeKinds, M
<1>2. net[m] > 0 /\ total[n] # -1 /\ total[n] > -1 /\ processed[n] + 1 >= total[n]
  BY DEF LastUserEvent, CompletesEvents, Complete, Finish, FinishNothing, Handle, TypeOK
<1>3. /\ mode[n] = "to" /\ Nowhere(migShard[n]) /\ nodeShard[n] = migShard[n]
      /\ \A x \in Msg : Token(x) => Destination(x) # n
  BY <1>2 DEF MigrationInv, EventsExpected
<1>4. Moving(n) /\ NoTokenFor(n) /\ s = migShard[n]
  BY <1>2, <1>3 DEF Moving, NoTokenFor, DeliveryInv, EventsInv, EventsDown
<1>5. Recorded(n) /\ processed[n] < total[n] /\ Delivered(n) = total[n]
  BY <1>4 DEF DeliveryInv, EventsInv, Waits
<1>6. net[m] = 1 /\ \A t \in Shards : t # s => ~(net[M("evtDown", n, t)] > 0)
  <2>1. net[m] \in Nat /\ processed[n] \in Nat /\ total[n] \in Int
    BY <1>1 DEF TypeOK
  <2>2. processed[n] + net[m] = total[n]
    BY <1>4, <1>5 DEF Delivered
  <2>3. QED
    BY <1>2, <1>4, <1>5, <2>1, <2>2 DEF DeliveryInv, EventsInv, EventsDown
<1>7. Finish(n, m) /\ processed' = [processed EXCEPT ![n] = @ + 1]
  BY <1>3, ShardAssumption
  DEF LastUserEvent, Complete, FinishNothing, MigrationInv, ReleasedUnlessMarked
<1> HIDE DEF m
<1>8. \A t \in Shards : ~(net'[M("evtDown", n, t)] > 0)
  <2>1. Handle(m, {M("started", n, migShard[n])})
    BY <1>3, <1>7 DEF Finish
  <2>2. m \notin {M("started", n, migShard[n])}
    BY <1>1, SameMessage DEF m
  <2>3. \A x \in Msg : net'[x] = IF x = m THEN net[x] - 1
                                ELSE IF x \in {M("started", n, migShard[n])} THEN net[x] + 1 ELSE net[x]
    BY <1>1, <2>1, <2>2, HandleCounts DEF MigrationInv
  <2>4. QED
    BY <1>1, <1>6, <2>3
<1>9. \A d \in Nodes : d # n => processed'[d] = processed[d]
  BY <1>7 DEF TypeOK
<1>10. QED
  BY <1>1, <1>3, <1>5, <1>7, <1>8, <1>9, FinishDelivery

\* The count completes the transfer: every event it speaks of has been counted.
LEMMA LateAllUserdataSentDelivery ==
  ASSUME TypeOK, MigrationInv, DeliveryInv, NEW n \in Nodes, NEW k0 \in 0 .. MaxEvents,
         LateAllUserdataSent(n, k0)
  PROVE DeliveryInv'
<1> DEFINE m == WithCount("allDown", n, k0)
<1>1. /\ m \in Msg /\ m.kind = "allDown" /\ m.node = n /\ m.events = k0 /\ Destination(m) = n
      /\ \A t \in Shards : /\ M("evtDown", n, t) \in Msg /\ M("evtDown", n, t) # m
                           /\ M("evtDown", n, t) # M("started", n, migShard[n])
      /\ m # M("started", n, migShard[n])
  BY MessageType, TokenMessages, SameMessage DEF ToNodeKinds, WithCount
<1>2. net[m] > 0 /\ k0 <= processed[n] /\ processed' = processed
  BY DEF LateAllUserdataSent, CompletesCount, Complete, Finish, FinishNothing, Handle
<1>3. mode[n] = "to" /\ Nowhere(migShard[n]) /\ nodeShard[n] = migShard[n]
  BY <1>2 DEF MigrationInv, TokenInv, CountToken, Prepared
<1>4. Finish(n, m)
  BY <1>3, ShardAssumption
  DEF LateAllUserdataSent, Complete, FinishNothing, MigrationInv, ReleasedUnlessMarked
<1> HIDE DEF m
<1>5. Token(m) /\ \A x \in Msg : Token(x) /\ x # m => Destination(x) # n
  BY <1>1, <1>2 DEF Token, ToTokens, MigrationInv, OneToken
<1>6. Recorded(n) /\ Delivered(n) = k0
  BY <1>1, <1>5 DEF DeliveryInv, EventsInv, TokenCounts
<1>7. \A t \in Shards : ~(net[M("evtDown", n, t)] > 0)
  <2>1. migShard[n] \in Shards
    BY <1>3 DEF MigrationInv, ReleasedUnlessMarked
  <2>2. net[M("evtDown", n, migShard[n])] \in Nat /\ processed[n] \in Nat
    BY <1>1, <2>1 DEF TypeOK
  <2>3. ~(net[M("evtDown", n, migShard[n])] > 0)
    BY <1>2, <1>6, <2>2 DEF Delivered
  <2>4. QED
    BY <2>3 DEF DeliveryInv, EventsInv, EventsDown
<1>8. \A t \in Shards : ~(net'[M("evtDown", n, t)] > 0)
  <2>1. Handle(m, {M("started", n, migShard[n])})
    BY <1>3, <1>4 DEF Finish
  <2>2. m \notin {M("started", n, migShard[n])}
    BY <1>1
  <2>3. \A x \in Msg : net'[x] = IF x = m THEN net[x] - 1
                                ELSE IF x \in {M("started", n, migShard[n])} THEN net[x] + 1 ELSE net[x]
    BY <1>1, <2>1, <2>2, HandleCounts DEF MigrationInv
  <2>4. QED
    BY <1>1, <1>7, <2>3
<1>9. QED
  BY <1>1, <1>2, <1>3, <1>4, <1>5, <1>6, <1>8, FinishDelivery

\* The orchestrator hears that the shard runs, and the migration is over.
LEMMA OnStartedDelivery ==
  ASSUME TypeOK, MigrationInv, DeliveryInv, NEW n \in Nodes, NEW s \in Shards, OnStarted(n, s)
  PROVE DeliveryInv'
<1> DEFINE m == M("started", n, s)
<1>1. mode[n] = "to" /\ migShard[n] = s /\ s \in gateway[n]
  BY DEF OnStarted, Handle, MigrationInv, TokenInv, StartedToken
<1>2. /\ Handle(m, {}) /\ running' = [running EXCEPT ![n] = @ \cup {s}]
      /\ mode' = [mode EXCEPT ![n] = "none"]
      /\ UNCHANGED <<gateway, nodeShards, nodeShard, other, migShard, processed, total, sent>>
  BY <1>1 DEF OnStarted, transferVars, gatewayVars
<1>3. m \in Msg /\ m.kind = "started" /\ m.kind \in TokenKinds /\ Destination(m) = n
  BY TokenMessages
<1>4. \A a \in Nodes, t \in Shards : M("started", a, t) = m <=> a = n /\ t = s
  BY SameMessage
<1> HIDE DEF m
<1>5. ~Moving(n)' /\ \A d \in Nodes : Moving(d)' = Moving(d)
  BY <1>1, <1>2 DEF Moving, Nowhere, TypeOK
<1>6. /\ EventsInv'
      /\ \A a \in Nodes, t \in Shards :
           net[M("started", a, t)] > 0 /\ M("started", a, t) # m => net'[M("started", a, t)] > 0
  <2>1. \A x \in {} : x.kind \in TokenKinds /\ Destination(x) = n /\ TokenCounts(x)'
    OBVIOUS
  <2>2. m \notin {} /\ {} \in SUBSET Msg /\ \A x, y \in {} : x = y
    OBVIOUS
  <2>3. \A d \in Nodes : /\ nodeShards'[d] = nodeShards[d] /\ nodeShard'[d] = nodeShard[d]
                         /\ processed'[d] = processed[d] /\ total'[d] = total[d]
                         /\ sent'[migShard[d]] = sent[migShard[d]]
    BY <1>2
  <2>4. m.kind \notin {"allUp", "allDown"}
    BY <1>3
  <2>5. UNCHANGED <<other, migShard>>
    BY <1>2
  <2>6. QED
    BY <1>2, <1>3, <1>5, <2>1, <2>2, <2>3, <2>4, <2>5, HandledOn DEF DeliveryInv
<1>7. RunsReported'
  BY <1>2, <1>4, <1>6 DEF DeliveryInv, RunsInv, RunsReported, TypeOK
<1>8. RecordedRuns' /\ RunsRecorded'
  BY <1>2, <1>5 DEF DeliveryInv, RunsInv, RecordedRuns, RunsRecorded
<1>9. QED
  BY <1>6, <1>7, <1>8 DEF DeliveryInv, RunsInv

-----------------------------------------------------------------------------
(* Calls of StartShardMigration.                                           *)

\* A node that is in no migration yet is marked as origin, or its mark taken back: the
\* user events of another are none of its business.
LEMMA RemarkDelivery ==
  ASSUME TypeOK, MigrationInv, DeliveryInv, NEW n \in Nodes, mode[n] # "to", ~Linked(n),
         NEW v, v # "to", mode' = [mode EXCEPT ![n] = v],
         NEW o, other' = [other EXCEPT ![n] = o],
         NEW sh, migShard' = [migShard EXCEPT ![n] = sh],
         UNCHANGED <<running, gateway, nodeShards, nodeShard, processed, total, sent, net>>
  PROVE DeliveryInv'
<1>1. /\ \A a \in Nodes : Linked(a) => a # n /\ other[a] # n /\ other[a] \in Nodes
      /\ \A a \in Nodes : a # n => mode'[a] = mode[a] /\ other'[a] = other[a] /\ migShard'[a] = migShard[a]
      /\ \A t : Nowhere(t)' = Nowhere(t)
      /\ ~Moving(n)' /\ ~Moving(n)
  BY DEF Linked, Nowhere, Moving, TypeOK
<1>2. \A d \in Nodes : Moving(d)' = Moving(d)
  BY <1>1 DEF Moving
<1>3. \A x \in Msg : Token(x)' = Token(x) /\ (Token(x) => Destination(x)' = Destination(x))
  BY <1>1, TokenPlaces DEF Token, Destination
<1>4. \A x \in Msg : Token(x) => Destination(x) \in Nodes
  BY TokenDestination
\* The node sends nothing up before it is linked.
<1>5. \A t \in Shards : ~(net[M("evtUp", n, t)] > 0)
  BY DEF MigrationInv, EventsBeforeCount, TokenInv, SentToken
<1>6. /\ \A x \in Msg : Token(x)' /\ Destination(x)' # NoNode => TokenCounts(x)'
      /\ \A d \in Nodes : d # NoNode /\ Moving(d)' /\ NoTokenFor(d)' => Waits(d)'
      /\ \A d \in Nodes : d # NoNode => EventsDown(d)'
  <2>1. \A d \in Nodes : d # NoNode /\ mode[d] = "to" =>
          /\ migShard'[d] = migShard[d] /\ nodeShards'[d] = nodeShards[d] /\ nodeShard'[d] = nodeShard[d]
          /\ processed'[d] = processed[d] /\ total'[d] = total[d]
          /\ sent'[migShard[d]] = sent[migShard[d]]
    BY <1>1
  <2>2. \A a \in Nodes, t \in Shards : Linked(a) /\ other[a] # NoNode =>
          migShard'[a] = migShard[a] /\ net'[M("evtUp", a, t)] = net[M("evtUp", a, t)]
    BY <1>1
  <2>3. EventsInv /\ \A a \in Nodes, t \in Shards : net'[M("evtDown", a, t)] = net[M("evtDown", a, t)]
    BY DEF DeliveryInv
  <2>4. QED
    BY <1>2, <1>3, <2>1, <2>2, <2>3, OtherMigrations
<1>7. EventsInv'
  <2>1. \A a \in Nodes : EventsUp(a)'
    BY <1>1, <1>5 DEF DeliveryInv, EventsInv, EventsUp
  <2>2. QED
    BY <1>3, <1>4, <1>6, <2>1, ShardAssumption DEF EventsInv
<1>8. RunsInv'
  <2>1. \A d \in Nodes : Moving(d) => Moving(d)' /\ migShard'[d] = migShard[d]
    BY <1>1, <1>2
  <2>2. QED
    BY <2>1, RunsKept DEF DeliveryInv
<1>9. QED
  BY <1>7, <1>8 DEF DeliveryInv

\* The destination is marked and the origin told to close the gateway: nothing of an
\* earlier migration is on its way to either.
LEMMA MarkToDelivery ==
  ASSUME TypeOK, MigrationInv, DeliveryInv, NEW c \in Callers, MarkTo(c)
  PROVE DeliveryInv'
<1>1. PICK n \in Nodes, d0 \in Nodes, s \in Shards :
        n = call[c].from /\ d0 = call[c].to /\ s = call[c].shard /\ pc[c] = "markTo"
  BY DEF MarkTo, TypeOK, Call
<1>2. /\ mode[n] = "from" /\ other[n] = d0 /\ migShard[n] = s /\ s \in gateway[n]
      /\ mode[d0] = "none" /\ n # d0 /\ ~Linked(n) /\ ~Linked(d0)
  BY <1>1 DEF MarkTo, MigrationInv, Marking, Linked
<1> DEFINE w == M("prepFrom", n, s)
<1>3. /\ mode' = [mode EXCEPT ![d0] = "to"] /\ other' = [other EXCEPT ![d0] = n]
      /\ migShard' = [migShard EXCEPT ![d0] = s] /\ Send({w})
      /\ UNCHANGED <<running, gateway, nodeShards, nodeShard, processed, total, sent>>
  BY <1>1 DEF MarkTo, transferVars, gatewayVars
<1>4. /\ w \in Msg /\ w.kind = "prepFrom" /\ w.node = n
      /\ \A k \in {"evtUp", "evtDown", "started"}, a \in Nodes, t \in Shards : M(k, a, t) \in Msg /\ M(k, a, t) # w
  <2>1. w \in Msg /\ w.kind = "prepFrom" /\ w.node = n
    BY TokenMessages DEF M
  <2>2. \A k \in {"evtUp", "evtDown", "started"}, a \in Nodes, t \in Shards : M(k, a, t) \in Msg
    BY MessageType DEF ToNodeKinds, FromNodeKinds
  <2>3. \A k \in {"evtUp", "evtDown", "started"}, a \in Nodes, t \in Shards : M(k, a, t) # w
    BY SameMessage
  <2>4. QED
    BY <2>1, <2>2, <2>3
<1> HIDE DEF w
<1>5. \A x \in Msg : net'[x] = IF x \in {w} THEN net[x] + 1 ELSE net[x]
  BY <1>3, SendCounts DEF MigrationInv
<1>6. \A k \in {"evtUp", "evtDown", "started"}, a \in Nodes, t \in Shards : net'[M(k, a, t)] = net[M(k, a, t)]
  BY <1>4, <1>5
<1>7. /\ \A a \in Nodes : Linked(a) => a # n /\ a # d0 /\ other[a] # d0
      /\ \A a \in Nodes : a # d0 => mode'[a] = mode[a] /\ other'[a] = other[a] /\ migShard'[a] = migShard[a]
      /\ migShard'[d0] = s /\ \A t : Nowhere(t)' = Nowhere(t)
  BY <1>2, <1>3 DEF Linked, Nowhere, TypeOK
<1>8. ~Moving(d0) /\ ~Moving(d0)' /\ \A d \in Nodes : Moving(d)' = Moving(d)
  <2>1. ~Moving(d0) /\ ~Nowhere(s)
    BY <1>2 DEF Moving, Nowhere
  <2>2. ~Moving(d0)'
    BY <1>7, <2>1 DEF Moving, Nowhere
  <2>3. \A d \in Nodes : d # d0 => Moving(d)' = Moving(d)
    BY <1>3, <1>7 DEF Moving, Nowhere
  <2>4. \A d \in Nodes : d = d0 => Moving(d)' = Moving(d)
    BY <2>1, <2>2 DEF Moving
  <2>5. QED
    BY <2>1, <2>2, <2>3, <2>4
<1>9. ASSUME NEW x \in Msg, Token(x)
      PROVE Token(x)' /\ Destination(x) # d0 /\ Destination(x)' = Destination(x)
  <2>1. Token(x)'
    BY <1>5, <1>9 DEF Token, TypeOK
  <2>2. QED
    BY <1>2, <1>7, <1>9, <2>1, TokenPlaces DEF Destination
<1>10. ASSUME NEW x \in Msg, Token(x)' PROVE x = w \/ Token(x)
  BY <1>5, <1>10 DEF Token
<1>11. Destination(w)' = d0 /\ TokenCounts(w)'
  BY <1>2, <1>4, <1>7 DEF Destination, FromTokens, TokenCounts
<1>12. /\ \A x \in Msg : Token(x)' /\ Destination(x)' # d0 => TokenCounts(x)'
       /\ \A d \in Nodes : d # d0 /\ Moving(d)' /\ NoTokenFor(d)' => Waits(d)'
       /\ \A d \in Nodes : d # d0 => EventsDown(d)'
  <2>1. \A d \in Nodes : d # d0 /\ mode[d] = "to" =>
          /\ migShard'[d] = migShard[d] /\ nodeShards'[d] = nodeShards[d] /\ nodeShard'[d] = nodeShard[d]
          /\ processed'[d] = processed[d] /\ total'[d] = total[d]
          /\ sent'[migShard[d]] = sent[migShard[d]]
    BY <1>3, <1>7
  <2>2. \A a \in Nodes, t \in Shards : Linked(a) /\ other[a] # d0 =>
          migShard'[a] = migShard[a] /\ net'[M("evtUp", a, t)] = net[M("evtUp", a, t)]
    BY <1>6, <1>7
  <2>3. \A d \in Nodes, t \in Shards : d # d0 => net'[M("evtDown", d, t)] = net[M("evtDown", d, t)]
    BY <1>6
  <2>4. \A x \in Msg : Token(x)' => Destination(x)' = d0 \/ (Token(x) /\ Destination(x)' = Destination(x))
    BY <1>9, <1>10, <1>11
  <2>5. \A x \in Msg : Token(x) => Destination(x) = d0 \/ (Token(x)' /\ Destination(x)' = Destination(x))
    BY <1>9
  <2>6. QED
    BY <1>8, <2>1, <2>2, <2>3, <2>4, <2>5, OtherMigrations DEF DeliveryInv
<1>13. EventsInv'
  <2>1. \A t \in Shards : ~(net[M("evtUp", d0, t)] > 0) /\ ~(net[M("evtDown", d0, t)] > 0)
    BY <1>2, <1>8 DEF MigrationInv, EventsBeforeCount, TokenInv, SentToken, DeliveryInv, EventsInv, EventsDown
  <2>2. \A a \in Nodes : EventsUp(a)'
    BY <1>6, <1>7, <2>1 DEF DeliveryInv, EventsInv, EventsUp
  <2>3. EventsDown(d0)'
    BY <1>6, <2>1 DEF EventsDown
  <2>4. \A x \in Msg : Token(x)' => TokenCounts(x)'
    BY <1>9, <1>10, <1>11, <1>12
  <2>5. QED
    BY <1>8, <1>12, <2>2, <2>3, <2>4 DEF EventsInv
<1>14. RunsInv'
  <2>1. \A d \in Nodes : Moving(d) => Moving(d)' /\ migShard'[d] = migShard[d]
    BY <1>7, <1>8
  <2>2. QED
    BY <1>3, <1>6, <2>1, RunsKept DEF DeliveryInv
<1>15. QED
  BY <1>13, <1>14 DEF DeliveryInv

\* A call marks its nodes or gives up.
LEMMA CallDelivery ==
  ASSUME TypeOK, MigrationInv, DeliveryInv, NEW c \in Callers, CallStep(c)
  PROVE DeliveryInv'
<1>1. CASE MarkFrom(c)
  <2>1. call[c].from \in Nodes /\ mode[call[c].from] = "none"
    BY <1>1 DEF MarkFrom, TypeOK, Call
  <2>2. /\ mode' = [mode EXCEPT ![call[c].from] = "from"]
        /\ other' = [other EXCEPT ![call[c].from] = call[c].to]
        /\ migShard' = [migShard EXCEPT ![call[c].from] = call[c].shard]
        /\ UNCHANGED <<running, gateway, nodeShards, nodeShard, processed, total, sent, net>>
    BY <1>1 DEF MarkFrom, transferVars, gatewayVars
  <2>3. QED
    BY <2>1, <2>2, RemarkDelivery DEF Linked
<1>2. CASE BusyDestination(c)
  <2>1. call[c].from \in Nodes /\ mode[call[c].from] = "from" /\ ~Linked(call[c].from)
    BY <1>2 DEF BusyDestination, TypeOK, Call, MigrationInv, Marking, Linked
  <2>2. /\ mode' = [mode EXCEPT ![call[c].from] = "none"]
        /\ other' = [other EXCEPT ![call[c].from] = NoNode]
        /\ migShard' = [migShard EXCEPT ![call[c].from] = NoShard]
        /\ UNCHANGED <<running, gateway, nodeShards, nodeShard, processed, total, sent, net>>
    BY <1>2 DEF BusyDestination, transferVars, gatewayVars
  <2>3. QED
    BY <2>1, <2>2, RemarkDelivery
<1>3. CASE RefuseFrom(c)
  BY <1>3, UnseenDelivery DEF RefuseFrom, orchVars, transferVars, gatewayVars
<1>4. QED
  BY <1>1, <1>2, <1>3, MarkToDelivery DEF CallStep

-----------------------------------------------------------------------------
(* The theorems.                                                           *)

LEMMA DeliveryInit == Init => DeliveryInv
<1> SUFFICES ASSUME Init PROVE DeliveryInv
  OBVIOUS
<1>1. /\ \A m \in Msg : ~Token(m)
      /\ \A k \in {"evtUp", "evtDown"}, a \in Nodes, t \in Shards : ~(net[M(k, a, t)] > 0)
  BY MessageType DEF Init, Token, ToNodeKinds, FromNodeKinds
<1>2. \A d \in Nodes : ~Moving(d)
  BY DEF Init, Moving
<1>3. EventsInv
  BY <1>1, <1>2 DEF EventsInv, EventsUp, EventsDown
<1>4. RunsInv
  BY DEF Init, RunsInv, RecordedRuns, RunsRecorded, RunsReported
<1>5. QED
  BY <1>3, <1>4 DEF DeliveryInv

LEMMA DeliveryStep == TypeOK /\ MigrationInv /\ DeliveryInv /\ [Next]_vars => DeliveryInv'
<1> SUFFICES ASSUME TypeOK, MigrationInv, DeliveryInv, [Next]_vars PROVE DeliveryInv'
  OBVIOUS
<1>1. CASE UNCHANGED vars
  BY <1>1, UnseenDelivery DEF vars, orchVars, transferVars, gatewayVars
<1>2. CASE Migrate
  <2>1. ASSUME NEW c \in Callers, NEW n \in Nodes, NEW to \in Nodes, NEW s \in Shards,
               FindOrigin(c, n, to, s)
        PROVE DeliveryInv'
    BY <2>1, UnseenDelivery DEF FindOrigin, orchVars, transferVars, gatewayVars
  <2>2. QED
    BY <1>2, <2>1, CallDelivery DEF Migrate
<1>3. CASE NodeStep
  BY <1>3, PrepareFromDelivery, SendUserEventsDelivery, PrepareToDelivery, UserEventDelivery,
     LastUserEventDelivery, AllUserdataSentDelivery, LateAllUserdataSentDelivery DEF NodeStep
<1>4. CASE OrchestratorStep
  BY <1>4, OnFromReadyDelivery, OnToReadyDelivery, OnUserEventDelivery, OnStartedDelivery,
     OnAllUserdataSentDelivery DEF OrchestratorStep
<1>5. QED
  BY <1>1, <1>2, <1>3, <1>4 DEF Next

\* The destination of a migration counts every user event its origin sent once, and as
\* long as the shard is nowhere a message or a user event is still to come for it; what
\* a node records runs there or is on its way to it.
THEOREM DeliveryTheorem == Spec => []DeliveryInv
BY TypeTheorem, MigrationTheorem, DeliveryInit, DeliveryStep, PTL DEF Spec

\* When nothing is under way, the shards the orchestrator believes a node to run, those
\* the node would identify with and those whose gateways it has open are the same.
THEOREM ViewsAgreeTheorem == Spec => []ViewsAgree
<1>1. TypeOK /\ MigrationInv /\ DeliveryInv => ViewsAgree
  <2> SUFFICES ASSUME TypeOK, MigrationInv, DeliveryInv, Quiet, NEW n \in Nodes
               PROVE running[n] = nodeShards[n] /\ running[n] = gateway[n]
    BY DEF ViewsAgree
  <2>1. /\ \A s \in Shards : net[M("evtDown", n, s)] = 0 /\ net[M("started", n, s)] = 0
        /\ \A s \in Shards, x \in Sessions : net[WithSession("fromReady", n, s, x)] = 0
    BY MessageType DEF Quiet, ToNodeKinds, FromNodeKinds
  <2>2. ~Moving(n)
    <3> SUFFICES ASSUME Moving(n) PROVE FALSE
      OBVIOUS
    <3>1. migShard[n] \in Shards
      BY DEF Moving, MigrationInv, ReleasedUnlessMarked
    <3>2. processed[n] < total[n] /\ Delivered(n) = total[n]
      BY DEF Quiet, NoTokenFor, Token, DeliveryInv, EventsInv, Waits
    <3>3. processed[n] \in Nat /\ total[n] \in Int
      BY DEF TypeOK
    <3>4. QED
      BY <2>1, <3>1, <3>2, <3>3 DEF Delivered
  <2>3. nodeShards[n] = gateway[n]
    BY <2>2 DEF DeliveryInv, RunsInv, RecordedRuns, RunsRecorded, TypeOK
  <2>4. gateway[n] = running[n]
    <3>1. \A s \in Shards : s \in gateway[n] => s \in running[n]
      BY <2>1 DEF DeliveryInv, RunsInv, RunsReported
    <3>2. \A s \in Shards : s \in running[n] => s \in gateway[n]
      BY <2>1 DEF MigrationInv, ReportedRuns
    <3>3. QED
      BY <3>1, <3>2 DEF TypeOK
  <2>5. QED
    BY <2>3, <2>4
<1>2. QED
  BY <1>1, TypeTheorem, MigrationTheorem, DeliveryTheorem, PTL

\* The count or the event that completes a transfer finds as many counted as were sent.
LEMMA CompletedCount ==
  ASSUME TypeOK, MigrationInv, DeliveryInv, NEW n \in Nodes, NEW s \in Shards, NEW k \in 0 .. MaxEvents,
         LastUserEvent(n, s) \/ LateAllUserdataSent(n, k)
  PROVE processed'[n] = sent[migShard[n]]
<1>1. CASE LastUserEvent(n, s)
  <2>1. net[M("evtDown", n, s)] > 0 /\ total[n] # -1 /\ processed[n] + 1 >= total[n]
    BY <1>1 DEF LastUserEvent, CompletesEvents, Complete, Finish, FinishNothing, Handle, TypeOK
  <2>2. Moving(n) /\ NoTokenFor(n)
    BY <2>1 DEF MigrationInv, EventsExpected, Moving, NoTokenFor
  <2>3. processed[n] < total[n] /\ total[n] = sent[migShard[n]]
    BY <2>2 DEF DeliveryInv, EventsInv, Waits
  <2>4. processed'[n] = processed[n] + 1
    BY <1>1 DEF LastUserEvent, TypeOK
  <2>5. processed[n] \in Int /\ total[n] \in Int
    BY ShardAssumption DEF TypeOK
  <2>6. processed[n] + 1 = total[n]
    BY <2>1, <2>3, <2>5
  <2>7. QED
    BY <2>3, <2>4, <2>6
<1>2. CASE LateAllUserdataSent(n, k)
  <2> DEFINE m == WithCount("allDown", n, k)
  <2>1. m \in Msg /\ m.kind = "allDown" /\ m.events = k /\ Destination(m) = n
    BY TokenMessages DEF WithCount
  <2>2. net[m] > 0 /\ k <= processed[n] /\ processed' = processed
    BY <1>2 DEF LateAllUserdataSent, CompletesCount, Complete, Finish, FinishNothing, Handle
  <2> HIDE DEF m
  <2>3. Delivered(n) = k /\ k = sent[migShard[n]]
    BY <2>1, <2>2 DEF Token, ToTokens, DeliveryInv, EventsInv, TokenCounts
  <2>4. M("evtDown", n, migShard[n]) \in Msg
    BY <2>1, <2>2, TokenDestination, MessageType DEF Token, ToTokens, ToNodeKinds
  <2>5. processed[n] <= k
    BY <2>3, <2>4 DEF Delivered, TypeOK
  <2>6. QED
    BY <2>2, <2>3, <2>5, ShardAssumption DEF TypeOK
<1>3. QED
  BY <1>1, <1>2

\* A gateway is resumed only when its node has received as many user events as the origin
\* sent, in whatever order they and their number arrive (over connections that hold).
THEOREM StateBeforeResumeTheorem == Spec => StateBeforeResume
<1> DEFINE Resumed == \A n \in Nodes, s \in Shards : s \in gateway'[n] \ gateway[n] => processed'[n] = sent[s]
<1>1. ASSUME TypeOK, MigrationInv, DeliveryInv, [Next]_vars PROVE Resumed
  <2>1. CASE \E n \in Nodes, s \in Shards, k \in 0 .. MaxEvents :
               LastUserEvent(n, s) \/ LateAllUserdataSent(n, k)
    <3>1. PICK n \in Nodes, s \in Shards, k \in 0 .. MaxEvents :
                 LastUserEvent(n, s) \/ LateAllUserdataSent(n, k)
      BY <2>1
    <3>2. processed'[n] = sent[migShard[n]]
      BY <1>1, <3>1, CompletedCount
    <3>3. gateway' = [gateway EXCEPT ![n] = @ \cup {migShard[n]}]
      BY <1>1, <3>1, CompletionFinishes DEF Finish
    <3>4. QED
      BY <1>1, <3>2, <3>3 DEF TypeOK
  <2>2. CASE \A n \in Nodes : gateway'[n] \subseteq gateway[n]
    BY <2>2
  <2>3. QED
    <3>1. (\E s \in Shards : TRUE) /\ (\E k \in 0 .. MaxEvents : TRUE)
      BY ShardAssumption
    <3>2. CASE UNCHANGED vars
      BY <2>2, <3>2 DEF vars, gatewayVars
    <3>3. CASE Migrate
      BY <2>2, <3>3
      DEF Migrate, CallStep, MarkFrom, RefuseFrom, MarkTo, BusyDestination, FindOrigin, gatewayVars
    <3>4. CASE OrchestratorStep
      BY <2>2, <3>4
      DEF OrchestratorStep, OnFromReady, OnToReady, OnUserEvent, OnStarted, OnAllUserdataSent, gatewayVars
    <3>5. CASE NodeStep
      <4>1. ASSUME NEW n \in Nodes, NEW s \in Shards, PrepareFrom(n, s)
            PROVE \A a \in Nodes : gateway'[a] \subseteq gateway[a]
        BY <1>1, <4>1 DEF PrepareFrom, TypeOK
      <4>2. ASSUME NEW n \in Nodes, NEW s \in Shards, NEW k \in 0 .. MaxEvents, NEW x \in Sessions,
                   \/ SendUserEvents(n, s, k) \/ PrepareTo(n, s, x)
                   \/ UserEvent(n, s) \/ AllUserdataSent(n, k)
            PROVE \A a \in Nodes : gateway'[a] \subseteq gateway[a]
        BY <4>2 DEF SendUserEvents, PrepareTo, UserEvent, AllUserdataSent, gatewayVars
      <4>3. \E x \in Sessions : TRUE
        BY ShardAssumption DEF Sessions
      <4>4. QED
        BY <2>1, <2>2, <3>1, <3>5, <4>1, <4>2, <4>3 DEF NodeStep
    <3>6. QED
      BY <1>1, <3>2, <3>3, <3>4, <3>5 DEF Next
<1>2. ASSUME TypeOK, MigrationInv, DeliveryInv, [Next]_vars PROVE [Resumed]_vars
  BY <1>1, <1>2
<1>3. QED
  BY <1>2, TypeTheorem, MigrationTheorem, DeliveryTheorem, PTL DEF Spec, StateBeforeResume

-----------------------------------------------------------------------------
(* The refinement of ShardOwnership.                                       *)

SessionKinds == {"fromReady", "prepTo"}
MessagesKept == \A k \in SessionKinds, n \in Nodes, s \in Shards, x \in Sessions :
                  net'[WithSession(k, n, s, x)] = net[WithSession(k, n, s, x)]

-----------------------------------------------------------------------------
(* Steps that neither close nor open a gateway nor pass a session on.      *)

\* A message that carries no session is handled and others like it are sent.
LEMMA HandleKeeps ==
  ASSUME TypeOK, NothingFails, NEW m \in Msg, NEW out, m \notin out, Handle(m, out),
         m.kind \notin SessionKinds, \A x \in out : x.kind \notin SessionKinds
  PROVE MessagesKept
<1>1. \A x \in Msg : x # m /\ x \notin out => net'[x] = net[x]
  BY HandleCounts
<1>2. QED
  BY <1>1, TokenMessages DEF MessagesKept, SessionKinds

\* The session stays where it is while nobody's part in its migration changes.
LEMMA QuietStep ==
  ASSUME MigrationInv, SessionInv, MessagesKept,
         UNCHANGED <<gateway, session, closes, lastClosed, openedWith>>,
         \A d \in Nodes : mode'[d] = "to" /\ Nowhere(migShard'[d])
                            => mode[d] = "to" /\ migShard'[d] = migShard[d],
         \A n \in Nodes : Linked(n) => other'[n] = other[n]
  PROVE SessionInv'
<1>1. \A t : Nowhere(t)' = Nowhere(t) /\ InTransit(t)' = InTransit(t)
  BY DEF Nowhere, InTransit
<1>2. \A d \in Nodes : Moving(d)' => Moving(d) /\ migShard'[d] = migShard[d] /\ migShard[d] \in Shards
  BY <1>1 DEF Moving, MigrationInv, ReleasedUnlessMarked
<1>3. SessionsCarried'
  BY DEF SessionsCarried, SessionInv, MessagesKept, SessionKinds
<1>4. SessionKept'
  <2>1. ASSUME NEW d \in Nodes, migShard'[d] = migShard[d], migShard[d] \in Shards, HandedOver(d)
        PROVE HandedOver(d)'
    <3>1. \A n \in Nodes, x \in Sessions :
            net[WithSession("fromReady", n, migShard[d], x)] > 0 => other'[n] = other[n]
      BY <2>1 DEF MigrationInv, TokenInv, ClosedToken
    <3>2. QED
      BY <2>1, <3>1 DEF HandedOver, MessagesKept, SessionKinds
  <2>2. QED
    BY <1>2, <2>1 DEF SessionKept, SessionInv
<1>5. NotResumed' /\ SessionsOld'
  BY <1>1, <1>2 DEF NotResumed, SessionsOld, SessionInv
<1>6. QED
  BY <1>3, <1>4, <1>5 DEF SessionInv

\* The calls: a destination is marked while its shard's gateway is still open.
LEMMA QuietCall ==
  ASSUME TypeOK, MigrationInv, SessionInv, NEW c \in Callers,
         CallStep(c) \/ \E n, to \in Nodes, s \in Shards : FindOrigin(c, n, to, s)
  PROVE SessionInv'
<1>1. CASE RefuseFrom(c) \/ \E n, to \in Nodes, s \in Shards : FindOrigin(c, n, to, s)
  BY <1>1, QuietStep DEF RefuseFrom, FindOrigin, orchVars, transferVars, gatewayVars, MessagesKept
<1>2. CASE MarkFrom(c)
  <2>1. call[c].from \in Nodes /\ ~Linked(call[c].from)
    BY <1>2 DEF MarkFrom, TypeOK, Call, Linked
  <2>2. /\ \A d \in Nodes : mode'[d] = "to" => mode[d] = "to" /\ migShard'[d] = migShard[d]
        /\ \A n \in Nodes : Linked(n) => other'[n] = other[n]
    BY <1>2, <2>1 DEF MarkFrom, TypeOK
  <2>3. QED
    BY <1>2, <2>2, QuietStep DEF MarkFrom, transferVars, gatewayVars, MessagesKept
<1>3. CASE BusyDestination(c)
  <2>1. call[c].from \in Nodes /\ ~Linked(call[c].from)
    BY <1>3 DEF BusyDestination, TypeOK, Call, Linked
  <2>2. /\ \A d \in Nodes : mode'[d] = "to" => mode[d] = "to" /\ migShard'[d] = migShard[d]
        /\ \A n \in Nodes : Linked(n) => other'[n] = other[n]
    BY <1>3, <2>1 DEF BusyDestination, TypeOK
  <2>3. QED
    BY <1>3, <2>2, QuietStep DEF BusyDestination, transferVars, gatewayVars, MessagesKept
<1>4. CASE MarkTo(c)
  <2> DEFINE n == call[c].from
             d == call[c].to
             s == call[c].shard
  <2>1. /\ n \in Nodes /\ d \in Nodes /\ s \in Shards /\ ~Linked(d) /\ ~Nowhere(s)
    BY <1>4 DEF MarkTo, TypeOK, Call, Linked, Nowhere, MigrationInv, Marking
  <2>2. MessagesKept
    <3>1. \A x \in Msg : x \notin {M("prepFrom", n, s)} => net'[x] = net[x]
      BY <1>4, SendCounts DEF MarkTo, MigrationInv
    <3>2. QED
      BY <3>1, TokenMessages, SameMessage DEF MessagesKept, SessionKinds
  <2>3. /\ \A a \in Nodes : mode'[a] = "to" /\ Nowhere(migShard'[a])
                              => mode[a] = "to" /\ migShard'[a] = migShard[a]
        /\ \A a \in Nodes : Linked(a) => other'[a] = other[a]
    BY <1>4, <2>1 DEF MarkTo, TypeOK
  <2>4. QED
    BY <1>4, <2>2, <2>3, QuietStep DEF MarkTo, transferVars, gatewayVars
<1>5. QED
  BY <1>1, <1>2, <1>3, <1>4 DEF CallStep

\* Messages about the shard's state.
LEMMA QuietMessage ==
  ASSUME TypeOK, MigrationInv, SessionInv, NEW n \in Nodes, NEW s \in Shards, NEW k \in 0 .. MaxEvents,
         \/ SendUserEvents(n, s, k) \/ UserEvent(n, s) \/ AllUserdataSent(n, k)
         \/ OnToReady(n, s) \/ OnUserEvent(n, s) \/ OnStarted(n, s) \/ OnAllUserdataSent(n, k)
  PROVE SessionInv'
<1>1. /\ \A kind \in {"toReady", "startMig", "evtUp", "evtDown", "started"}, a \in Nodes :
           M(kind, a, s) \in Msg /\ M(kind, a, s).kind \notin SessionKinds
      /\ \A kind \in {"allUp", "allDown"}, a \in Nodes :
           WithCount(kind, a, k) \in Msg /\ WithCount(kind, a, k).kind \notin SessionKinds
  BY MessageType, TokenMessages DEF ToNodeKinds, FromNodeKinds, M, SessionKinds
<1>2. /\ UNCHANGED <<gateway, session, closes, lastClosed, openedWith, other, migShard>>
      /\ \A d \in Nodes : mode'[d] = "to" => mode[d] = "to"
  BY DEF SendUserEvents, UserEvent, AllUserdataSent, OnToReady, OnUserEvent, OnStarted, OnAllUserdataSent,
         orchVars, transferVars, gatewayVars, TypeOK
<1>3. NothingFails /\ (other[n] # NoNode => other[n] \in Nodes)
  BY DEF MigrationInv, TypeOK
<1>4. CASE SendUserEvents(n, s, k)
  <2>1. \A x \in Msg : x \notin {M("startMig", n, s), M("evtUp", n, s), WithCount("allUp", n, k)}
          => net'[x] = net[x]
    BY <1>4 DEF SendUserEvents, One, TypeOK
  <2>2. MessagesKept
    BY <2>1, TokenMessages, SameMessage DEF MessagesKept, SessionKinds
  <2>3. QED
    BY <1>2, <2>2, QuietStep
<1>5. CASE UserEvent(n, s) \/ AllUserdataSent(n, k) \/ OnStarted(n, s)
  <2>1. PICK m \in {M("evtDown", n, s), WithCount("allDown", n, k), M("started", n, s)} : Handle(m, {})
    BY <1>5 DEF UserEvent, AllUserdataSent, OnStarted
  <2>2. m \in Msg /\ m.kind \notin SessionKinds
    BY <1>1
  <2>3. QED
    BY <1>2, <1>3, <2>1, <2>2, HandleKeeps, QuietStep
<1>6. CASE OnToReady(n, s)
  <2> DEFINE m == M("toReady", n, s)
             out == IF other[n] = NoNode THEN {} ELSE {M("startMig", other[n], s)}
  <2>1. Handle(m, out)
    BY <1>6 DEF OnToReady, Forward
  <2>2. m \in Msg /\ m.kind \notin SessionKinds /\ \A x \in out : x.kind \notin SessionKinds
    BY <1>1, <1>3
  <2>3. m \notin out
    BY SameMessage
  <2> HIDE DEF m, out
  <2>4. QED
    BY <1>2, <1>3, <2>1, <2>2, <2>3, HandleKeeps, QuietStep
<1>7. CASE OnUserEvent(n, s)
  <2> DEFINE m == M("evtUp", n, s)
             out == IF other[n] = NoNode THEN {} ELSE {M("evtDown", other[n], s)}
  <2>1. Handle(m, out)
    BY <1>7 DEF OnUserEvent, Forward
  <2>2. m \in Msg /\ m.kind \notin SessionKinds /\ \A x \in out : x.kind \notin SessionKinds
    BY <1>1, <1>3
  <2>3. m \notin out
    BY SameMessage
  <2> HIDE DEF m, out
  <2>4. QED
    BY <1>2, <1>3, <2>1, <2>2, <2>3, HandleKeeps, QuietStep
<1>8. CASE OnAllUserdataSent(n, k)
  <2> DEFINE m == WithCount("allUp", n, k)
             out == IF other[n] = NoNode THEN {} ELSE {WithCount("allDown", other[n], k)}
  <2>1. Handle(m, out)
    BY <1>8 DEF OnAllUserdataSent, Forward
  <2>2. m \in Msg /\ m.kind \notin SessionKinds /\ \A x \in out : x.kind \notin SessionKinds
    BY <1>1, <1>3
  <2>3. m \notin out
    BY SameMessage
  <2> HIDE DEF m, out
  <2>4. QED
    BY <1>2, <1>3, <2>1, <2>2, <2>3, HandleKeeps, QuietStep
<1>9. QED
  BY <1>4, <1>5, <1>6, <1>7, <1>8

-----------------------------------------------------------------------------
(* Steps that close or open a gateway or pass a session on.                *)

\* The messages with a session after m was handled and the messages of out were sent.
LEMMA SessionMessages ==
  ASSUME TypeOK, NothingFails, NEW m \in Msg, NEW out, m \notin out, Handle(m, out)
  PROVE \A k \in SessionKinds, a \in Nodes, t \in Shards, x \in Sessions :
          /\ net'[WithSession(k, a, t, x)] > 0 =>
               WithSession(k, a, t, x) \in out \/ net[WithSession(k, a, t, x)] > 0
          /\ WithSession(k, a, t, x) \in out => net'[WithSession(k, a, t, x)] > 0
          /\ net[WithSession(k, a, t, x)] > 0 /\ WithSession(k, a, t, x) # m =>
               net'[WithSession(k, a, t, x)] > 0
<1>1. ASSUME NEW y \in Msg
      PROVE /\ net'[y] > 0 => y \in out \/ net[y] > 0
            /\ y \in out => net'[y] > 0
            /\ net[y] > 0 /\ y # m => net'[y] > 0
  BY HandleCounts DEF TypeOK
<1>2. QED
  BY <1>1, TokenMessages DEF SessionKinds

\* The origin closes the gateway: the session closed last is a new one, and on its way.
LEMMA PrepareFromSession ==
  ASSUME TypeOK, MigrationInv, SessionInv, NEW n \in Nodes, NEW s \in Shards, PrepareFrom(n, s)
  PROVE /\ SessionInv'
        /\ s \in gateway[n] /\ lastClosed[s] < closes + 1 /\ closes + 1 \in 1 .. MaxMigrations
<1> DEFINE m == M("prepFrom", n, s)
           x0 == closes + 1
           w == WithSession("fromReady", n, s, x0)
<1>1. /\ Linked(n) /\ migShard[n] = s /\ s \in gateway[n] /\ ~Nowhere(s)
      /\ other[n] \in Nodes /\ mode[other[n]] = "to" /\ migShard[other[n]] = s
  BY DEF PrepareFrom, Handle, MigrationInv, TokenInv, ClosingToken, Linked, Nowhere
<1>2. /\ x0 \in Sessions /\ x0 \in 1 .. MaxMigrations /\ Handle(m, {w})
      /\ gateway' = [gateway EXCEPT ![n] = @ \ {s}]
      /\ closes' = x0 /\ lastClosed' = [lastClosed EXCEPT ![s] = x0]
      /\ UNCHANGED <<mode, other, migShard, session, openedWith>>
  BY <1>1, ShardAssumption DEF PrepareFrom, TypeOK, Sessions, orchVars
<1>3. \A k \in SessionKinds, a \in Nodes, t \in Shards, x \in Sessions :
        /\ net'[WithSession(k, a, t, x)] > 0 =>
             WithSession(k, a, t, x) = w \/ net[WithSession(k, a, t, x)] > 0
        /\ WithSession(k, a, t, x) = w => net'[WithSession(k, a, t, x)] > 0
        /\ net[WithSession(k, a, t, x)] > 0 => net'[WithSession(k, a, t, x)] > 0
  <2>1. m \in Msg /\ m \notin {w} /\ \A k \in SessionKinds : \A a, t, x : WithSession(k, a, t, x) # m
    BY TokenMessages, SameMessage DEF SessionKinds
  <2> HIDE DEF m, w
  <2>2. QED
    BY <1>2, <2>1, SessionMessages DEF MigrationInv
\* The shard's gateway was open, so no session of it was under way.
<1>4. \A k \in SessionKinds, a \in Nodes, x \in Sessions : ~(net[WithSession(k, a, s, x)] > 0)
  BY <1>1 DEF MigrationInv, TokenInv, ClosedToken, PreparingToken, SessionKinds
<1>5. SessionsCarried'
  <2>1. ASSUME NEW k \in SessionKinds, NEW a \in Nodes, NEW t \in Shards, NEW x \in Sessions,
               net'[WithSession(k, a, t, x)] > 0
        PROVE x = lastClosed'[t]
    <3>1. CASE WithSession(k, a, t, x) = w
      BY <1>2, <3>1, SameMessage DEF TypeOK
    <3>2. CASE WithSession(k, a, t, x) # w
      <4>1. net[WithSession(k, a, t, x)] > 0
        BY <1>3, <2>1, <3>2
      <4>2. t # s /\ x = lastClosed[t]
        BY <1>4, <4>1 DEF SessionInv, SessionsCarried, SessionKinds
      <4>3. QED
        BY <1>2, <4>2 DEF TypeOK
    <3>3. QED
      BY <3>1, <3>2
  <2>2. QED
    BY <2>1 DEF SessionsCarried, SessionKinds
\* Every other migration is of another shard.
<1>6. ASSUME NEW d \in Nodes, d # other[n], Moving(d)'
      PROVE Moving(d) /\ migShard'[d] = migShard[d] /\ migShard[d] \in Shards /\ migShard[d] # s
  <2>1. mode[d] = "to" /\ migShard[d] \in Shards /\ migShard[d] # s
    BY <1>1, <1>2, <1>6 DEF Moving, MigrationInv, OneMigration, ReleasedUnlessMarked
  <2>2. \A a \in Nodes : migShard[d] \in gateway[a] => migShard[d] \in gateway'[a]
    BY <1>2, <2>1 DEF TypeOK
  <2>3. QED
    BY <1>2, <1>6, <2>1, <2>2 DEF Moving, Nowhere
<1>7. SessionKept'
  <2> SUFFICES ASSUME NEW d \in Nodes, Moving(d)'
               PROVE HandedOver(d)' \/ session'[d] = lastClosed'[migShard'[d]]
    BY DEF SessionKept
  <2>1. CASE d = other[n]
    <3>1. net'[w] > 0
      BY <1>2, <1>3 DEF SessionKinds
    <3>2. QED
      BY <1>1, <1>2, <2>1, <3>1 DEF HandedOver
  <2>2. CASE d # other[n]
    <3>1. HandedOver(d) => HandedOver(d)'
      BY <1>2, <1>3, <1>6, <2>2 DEF HandedOver, SessionKinds
    <3>2. QED
      BY <1>2, <1>6, <2>2, <3>1 DEF SessionKept, SessionInv, TypeOK
  <2>3. QED
    BY <2>1, <2>2
<1>8. SessionsOld' /\ lastClosed[s] < x0
  BY <1>2 DEF SessionsOld, SessionInv, TypeOK
<1>9. NotResumed'
  <2> SUFFICES ASSUME NEW d \in Nodes, Moving(d)' PROVE lastClosed'[migShard'[d]] # openedWith'[migShard'[d]]
    BY DEF NotResumed, InTransit
  <2>1. CASE d = other[n]
    BY <1>1, <1>2, <2>1 DEF SessionInv, SessionsOld, TypeOK
  <2>2. CASE d # other[n]
    BY <1>2, <1>6, <2>2 DEF NotResumed, InTransit, SessionInv, TypeOK
  <2>3. QED
    BY <2>1, <2>2
<1>10. QED
  BY <1>1, <1>2, <1>5, <1>7, <1>8, <1>9 DEF SessionInv

\* The orchestrator passes the session on.
LEMMA OnFromReadySession ==
  ASSUME TypeOK, MigrationInv, SessionInv, NEW n \in Nodes, NEW s \in Shards, NEW x0 \in Sessions,
         OnFromReady(n, s, x0)
  PROVE SessionInv'
<1> DEFINE d0 == other[n]
           m == WithSession("fromReady", n, s, x0)
           w == WithSession("prepTo", d0, s, x0)
<1>1. Linked(n) /\ migShard[n] = s /\ d0 \in Nodes /\ d0 # NoNode /\ migShard[d0] = s /\ x0 = lastClosed[s]
  BY ShardAssumption
  DEF OnFromReady, Forward, Handle, MigrationInv, TokenInv, ClosedToken, Linked, SessionInv, SessionsCarried
<1>2. UNCHANGED <<gateway, session, closes, lastClosed, openedWith, mode, other, migShard>>
  BY DEF OnFromReady, transferVars, gatewayVars
<1>3. \A k \in SessionKinds, a \in Nodes, t \in Shards, x \in Sessions :
        /\ net'[WithSession(k, a, t, x)] > 0 =>
             WithSession(k, a, t, x) = w \/ net[WithSession(k, a, t, x)] > 0
        /\ WithSession(k, a, t, x) = w => net'[WithSession(k, a, t, x)] > 0
        /\ net[WithSession(k, a, t, x)] > 0 /\ WithSession(k, a, t, x) # m =>
             net'[WithSession(k, a, t, x)] > 0
  <2>1. Handle(m, {w}) /\ m \in Msg /\ m \notin {w}
    BY <1>1, TokenMessages, SameMessage DEF OnFromReady, Forward
  <2> HIDE DEF m, w
  <2>2. QED
    BY <2>1, SessionMessages DEF MigrationInv
<1>4. SessionsCarried'
  <2>1. ASSUME NEW k \in SessionKinds, NEW a \in Nodes, NEW t \in Shards, NEW x \in Sessions,
               net'[WithSession(k, a, t, x)] > 0
        PROVE x = lastClosed[t]
    <3>1. CASE WithSession(k, a, t, x) = w
      BY <1>1, <3>1, SameMessage
    <3>2. CASE WithSession(k, a, t, x) # w
      BY <1>3, <2>1, <3>2 DEF SessionInv, SessionsCarried, SessionKinds
    <3>3. QED
      BY <3>1, <3>2
  <2>2. QED
    BY <1>2, <2>1 DEF SessionsCarried, SessionKinds
\* Where m was what carried a session, now w is.
<1>5. ASSUME NEW d \in Nodes, Moving(d), HandedOver(d) PROVE HandedOver(d)'
  <2>1. migShard[d] \in Shards
    BY <1>5 DEF Moving, MigrationInv, ReleasedUnlessMarked
  <2>2. CASE \E x \in Sessions : net[WithSession("prepTo", d, migShard[d], x)] > 0
    BY <1>2, <1>3, <2>1, <2>2, SameMessage DEF HandedOver, SessionKinds
  <2>3. ASSUME NEW a \in Nodes, NEW x \in Sessions, other[a] = d,
               net[WithSession("fromReady", a, migShard[d], x)] > 0
        PROVE HandedOver(d)'
    <3>1. CASE a = n /\ x = x0
      <4>1. net'[w] > 0
        BY <1>1, <1>3 DEF SessionKinds
      <4>2. QED
        BY <1>1, <1>2, <2>3, <3>1, <4>1 DEF HandedOver
    <3>2. CASE ~(a = n /\ x = x0)
      BY <1>2, <1>3, <2>1, <2>3, <3>2, SameMessage DEF HandedOver, SessionKinds
    <3>3. QED
      BY <3>1, <3>2
  <2>4. QED
    BY <1>5, <2>2, <2>3 DEF HandedOver
<1>6. SessionKept' /\ NotResumed' /\ SessionsOld'
  BY <1>2, <1>5 DEF SessionKept, NotResumed, SessionsOld, SessionInv, Moving, Nowhere, InTransit
<1>7. QED
  BY <1>4, <1>6 DEF SessionInv

\* The destination keeps the session.
LEMMA PrepareToSession ==
  ASSUME TypeOK, MigrationInv, SessionInv, NEW n \in Nodes, NEW s \in Shards, NEW x0 \in Sessions,
         PrepareTo(n, s, x0)
  PROVE SessionInv'
<1> DEFINE m == WithSession("prepTo", n, s, x0)
           w == M("toReady", n, s)
<1>1. migShard[n] = s /\ x0 = lastClosed[s]
  BY DEF PrepareTo, Handle, MigrationInv, TokenInv, PreparingToken, SessionInv, SessionsCarried
<1>2. /\ session' = [session EXCEPT ![n] = x0]
      /\ UNCHANGED <<gateway, closes, lastClosed, openedWith, mode, other, migShard>>
  BY DEF PrepareTo, orchVars, gatewayVars
<1>3. \A k \in SessionKinds, a \in Nodes, t \in Shards, x \in Sessions :
        /\ net'[WithSession(k, a, t, x)] > 0 => net[WithSession(k, a, t, x)] > 0
        /\ net[WithSession(k, a, t, x)] > 0 /\ WithSession(k, a, t, x) # m =>
             net'[WithSession(k, a, t, x)] > 0
  <2>1. Handle(m, {w}) /\ m \in Msg /\ m \notin {w}
    BY TokenMessages, SameMessage DEF PrepareTo
  <2>2. \A k \in SessionKinds : \A a, t, x : WithSession(k, a, t, x) \notin {w}
    BY SameMessage DEF SessionKinds
  <2> HIDE DEF m, w
  <2>3. QED
    BY <2>1, <2>2, SessionMessages DEF MigrationInv
<1>4. SessionsCarried'
  BY <1>2, <1>3 DEF SessionInv, SessionsCarried, SessionKinds
<1>5. ASSUME NEW d \in Nodes, d # n, Moving(d), HandedOver(d) PROVE HandedOver(d)'
  <2>1. migShard[d] \in Shards
    BY <1>5 DEF Moving, MigrationInv, ReleasedUnlessMarked
  <2>2. \A a, x : /\ WithSession("fromReady", a, migShard[d], x) # m
                 /\ WithSession("prepTo", d, migShard[d], x) # m
    BY <1>5, SameMessage
  <2>3. QED
    BY <1>2, <1>3, <1>5, <2>1, <2>2 DEF HandedOver, SessionKinds
<1>6. SessionKept'
  BY <1>1, <1>2, <1>5 DEF SessionKept, SessionInv, Moving, Nowhere, TypeOK
<1>7. NotResumed' /\ SessionsOld'
  BY <1>2 DEF NotResumed, SessionsOld, SessionInv, Moving, Nowhere, InTransit
<1>8. QED
  BY <1>4, <1>6, <1>7 DEF SessionInv

\* The transfer is complete: the session kept is the one closed last, and is resumed.
LEMMA FinishSession ==
  ASSUME TypeOK, MigrationInv, SessionInv, NEW n \in Nodes, NEW m \in Msg,
         m.kind \in {"allDown", "evtDown"},
         mode[n] = "to", nodeShard[n] = migShard[n], Nowhere(migShard[n]),
         \A x \in Msg : Token(x) /\ x # m => Destination(x) # n,
         Finish(n, m)
  PROVE /\ SessionInv'
        /\ session[n] = lastClosed[migShard[n]] /\ InTransit(migShard[n])
<1> DEFINE s == migShard[n]
           w == M("started", n, s)
<1>1. Moving(n) /\ s \in Shards
  BY DEF Moving, MigrationInv, ReleasedUnlessMarked
<1>2. /\ gateway' = [gateway EXCEPT ![n] = @ \cup {s}] /\ session' = [session EXCEPT ![n] = 0]
      /\ openedWith' = [openedWith EXCEPT ![s] = session[n]]
      /\ UNCHANGED <<closes, lastClosed, mode, other, migShard>>
  BY DEF Finish, orchVars
<1>3. \A k \in SessionKinds, a \in Nodes, t \in Shards, x \in Sessions :
        net'[WithSession(k, a, t, x)] > 0 <=> net[WithSession(k, a, t, x)] > 0
  <2>1. Handle(m, {w}) /\ w.kind = "started"
    BY DEF Finish, M
  <2>2. m \notin {w} /\ \A k \in SessionKinds, a \in Nodes, t \in Shards, x \in Sessions :
                          WithSession(k, a, t, x) # m /\ WithSession(k, a, t, x) \notin {w}
    BY <2>1, TokenMessages DEF SessionKinds
  <2> HIDE DEF w
  <2>3. QED
    BY <2>1, <2>2, SessionMessages DEF MigrationInv
<1>4. ~HandedOver(n)
  <2>1. ASSUME NEW k \in SessionKinds, NEW a \in Nodes, NEW x \in Sessions,
               net[WithSession(k, a, s, x)] > 0
        PROVE (IF k = "fromReady" THEN other[a] ELSE a) # n
    <3>1. /\ WithSession(k, a, s, x) \in Msg /\ WithSession(k, a, s, x) # m
          /\ Token(WithSession(k, a, s, x))
      BY <1>1, <2>1, TokenMessages DEF SessionKinds, Token, TokenKinds
    <3>2. QED
      BY <1>1, <3>1, TokenMessages DEF SessionKinds
  <2>2. QED
    BY <2>1 DEF HandedOver, SessionKinds
<1>5. session[n] = lastClosed[s] /\ InTransit(s)
  BY <1>1, <1>4 DEF SessionInv, SessionKept, NotResumed
<1>6. SessionsCarried'
  BY <1>2, <1>3 DEF SessionInv, SessionsCarried, SessionKinds
<1>7. ASSUME NEW d \in Nodes, Moving(d)'
      PROVE d # n /\ Moving(d) /\ migShard[d] \in Shards /\ migShard[d] # s
  <2>1. d # n
    BY <1>2, <1>7 DEF Moving, Nowhere, TypeOK
  <2>2. migShard[d] \in Shards /\ migShard[d] # s
    BY <1>2, <1>7, <2>1 DEF Moving, MigrationInv, OneMigration, ReleasedUnlessMarked
  <2>3. \A a \in Nodes : migShard[d] \in gateway[a] => migShard[d] \in gateway'[a]
    BY <1>2 DEF TypeOK
  <2>4. QED
    BY <1>2, <1>7, <2>1, <2>2, <2>3 DEF Moving, Nowhere
<1>8. SessionKept'
  <2>1. ASSUME NEW d \in Nodes, migShard[d] \in Shards, HandedOver(d) PROVE HandedOver(d)'
    BY <1>2, <1>3, <2>1 DEF HandedOver, SessionKinds
  <2>2. QED
    BY <1>2, <1>7, <2>1 DEF SessionKept, SessionInv, TypeOK
<1>9. NotResumed'
  BY <1>2, <1>7 DEF NotResumed, InTransit, SessionInv, TypeOK
<1>10. SessionsOld'
  BY <1>1, <1>2, <1>5 DEF SessionsOld, SessionInv, TypeOK
<1>11. QED
  BY <1>5, <1>6, <1>8, <1>9, <1>10 DEF SessionInv

-----------------------------------------------------------------------------
(* The theorems.                                                           *)

LEMMA SessionInit == Init => SessionInv
<1> SUFFICES ASSUME Init PROVE SessionInv
  OBVIOUS
<1>1. \A k \in SessionKinds, a \in Nodes, t \in Shards, x \in Sessions : ~(net[WithSession(k, a, t, x)] > 0)
  BY TokenMessages DEF Init, SessionKinds
<1>2. \A d \in Nodes : ~Moving(d)
  BY DEF Init, Moving
<1>3. QED
  BY <1>1, <1>2 DEF Init, SessionInv, SessionsCarried, SessionKept, NotResumed, SessionsOld, SessionKinds

\* A step of a migration carries the session on, and opens or closes no gateway unless
\* PrepareFrom or a completed transfer does.
LEMMA StepKinds ==
  ASSUME TypeOK, MigrationInv, SessionInv, [Next]_vars
  PROVE \/ SessionInv' /\ UNCHANGED <<gateway, lastClosed, openedWith>>
        \/ \E n \in Nodes, s \in Shards : PrepareFrom(n, s)
        \/ \E n \in Nodes, m \in Msg :
             /\ m.kind \in {"allDown", "evtDown"}
             /\ mode[n] = "to" /\ nodeShard[n] = migShard[n] /\ Nowhere(migShard[n])
             /\ \A x \in Msg : Token(x) /\ x # m => Destination(x) # n
             /\ Finish(n, m)
<1>1. CASE UNCHANGED vars
  BY <1>1, QuietStep DEF vars, orchVars, transferVars, gatewayVars, MessagesKept
<1>2. CASE Migrate
  <2>1. UNCHANGED <<gateway, lastClosed, openedWith>>
    BY <1>2 DEF Migrate, CallStep, MarkFrom, RefuseFrom, MarkTo, BusyDestination, FindOrigin, gatewayVars
  <2>2. QED
    BY <1>2, <2>1, QuietCall DEF Migrate
<1>3. CASE \E n \in Nodes, s \in Shards, k \in 0 .. MaxEvents :
             \/ SendUserEvents(n, s, k) \/ UserEvent(n, s) \/ AllUserdataSent(n, k)
             \/ OnToReady(n, s) \/ OnUserEvent(n, s) \/ OnStarted(n, s) \/ OnAllUserdataSent(n, k)
  <2>1. UNCHANGED <<gateway, lastClosed, openedWith>>
    BY <1>3 DEF SendUserEvents, UserEvent, AllUserdataSent, OnToReady, OnUserEvent, OnStarted,
                OnAllUserdataSent, gatewayVars
  <2>2. QED
    BY <1>3, <2>1, QuietMessage
<1>4. CASE \E n \in Nodes, s \in Shards, x \in Sessions : PrepareTo(n, s, x) \/ OnFromReady(n, s, x)
  <2>1. UNCHANGED <<gateway, lastClosed, openedWith>>
    BY <1>4 DEF PrepareTo, OnFromReady, gatewayVars
  <2>2. QED
    BY <1>4, <2>1, PrepareToSession, OnFromReadySession
<1>5. CASE \E n \in Nodes, s \in Shards, k \in 0 .. MaxEvents :
             LastUserEvent(n, s) \/ LateAllUserdataSent(n, k)
  BY <1>5, CompletionFinishes
\* Every step is of one of these kinds; what has no shard or no count of its own is
\* given one.
<1>6. (\E s \in Shards : TRUE) /\ (\E k \in 0 .. MaxEvents : TRUE)
  BY ShardAssumption
<1>7. CASE NodeStep
  BY <1>3, <1>4, <1>5, <1>6, <1>7 DEF NodeStep
<1>8. CASE OrchestratorStep
  BY <1>3, <1>4, <1>6, <1>8 DEF OrchestratorStep
<1>9. QED
  BY <1>1, <1>2, <1>7, <1>8 DEF Next

LEMMA SessionStep == TypeOK /\ MigrationInv /\ SessionInv /\ [Next]_vars => SessionInv'
BY StepKinds, PrepareFromSession, FinishSession

\* Migrations keep their invariant, no user event of a shard is lost or counted twice,
\* and the session of the gateway closed last travels with the shard, by message and in
\* the destination's memory, until it is resumed.
THEOREM TransferTheorem == Spec => []TransferInv
BY TypeTheorem, MigrationTheorem, DeliveryTheorem, SessionInit, SessionStep, PTL DEF Spec, TransferInv

\* Whoever has the gateway open is the holder.
LEMMA HolderKnown ==
  ASSUME OneGateway, OneGateway'
  PROVE \A t \in Shards : /\ \A a \in Nodes : t \in gateway[a] => Holder(t) = a
                          /\ Nowhere(t) => Holder(t) = NoNode
                          /\ \A a \in Nodes : t \in gateway'[a] => Holder(t)' = a
                          /\ Nowhere(t)' => Holder(t)' = NoNode
BY DEF OneGateway, Holder, Nowhere

LEMMA OwnershipInit == Init => Ownership!Init
<1> SUFFICES ASSUME Init PROVE Ownership!Init
  OBVIOUS
<1>1. \A s \in Shards : Holder(s) \in Nodes \cup {NoNode}
  BY DEF Holder
<1>2. QED
  BY <1>1 DEF Init, Ownership!Init

\* Closing the gateway is a Release, completing a transfer a Resume, and nothing else
\* is seen of a migration.
LEMMA OwnershipStep ==
  ASSUME TypeOK, MigrationInv, SessionInv, [Next]_vars
  PROVE [Ownership!Move]_(Ownership!ownershipVars)
<1>1. OneGateway /\ OneGateway'
  BY MigrationStep DEF MigrationInv
<1>2. CASE UNCHANGED <<gateway, lastClosed, openedWith>>
  <2>1. \A s \in Shards : Holder(s)' = Holder(s)
    BY <1>2 DEF Holder
  <2>2. QED
    BY <1>2, <2>1 DEF Ownership!ownershipVars
<1>3. ASSUME NEW n \in Nodes, NEW s \in Shards, PrepareFrom(n, s)
      PROVE Ownership!Release(s, closes + 1) /\ closes + 1 \in 1 .. MaxMigrations
  <2>1. /\ s \in gateway[n] /\ lastClosed[s] < closes + 1 /\ closes + 1 \in 1 .. MaxMigrations
    BY <1>3, PrepareFromSession
  <2>2. /\ gateway' = [gateway EXCEPT ![n] = @ \ {s}] /\ openedWith' = openedWith
        /\ lastClosed' = [lastClosed EXCEPT ![s] = closes + 1]
    BY <1>3, <2>1 DEF PrepareFrom
  <2>3. Nowhere(s)' /\ Holder(s)' = NoNode /\ Holder(s) # NoNode
    BY <1>1, <2>1, <2>2, HolderKnown, ShardAssumption DEF Nowhere, OneGateway, TypeOK
  <2>4. ASSUME NEW t \in Shards, t # s PROVE Holder(t)' = Holder(t)
    <3>1. \A a \in Nodes : t \in gateway'[a] <=> t \in gateway[a]
      BY <2>2, <2>4 DEF TypeOK
    <3>2. QED
      BY <1>1, <3>1, HolderKnown DEF Nowhere
  <2>5. [t \in Shards |-> Holder(t)]' = [[t \in Shards |-> Holder(t)] EXCEPT ![s] = NoNode]
    BY <2>3, <2>4
  <2>6. lastClosed[s] \in Nat /\ closes \in Nat
    BY DEF TypeOK
  <2>7. QED
    BY <2>1, <2>2, <2>3, <2>5, <2>6 DEF Ownership!Release
<1>4. ASSUME NEW n \in Nodes, NEW m \in Msg, m.kind \in {"allDown", "evtDown"},
             mode[n] = "to", nodeShard[n] = migShard[n], Nowhere(migShard[n]),
             \A x \in Msg : Token(x) /\ x # m => Destination(x) # n,
             Finish(n, m)
      PROVE migShard[n] \in Shards /\ Ownership!Resume(migShard[n], n)
  <2>1. PICK s \in Shards : s = migShard[n] /\ session[n] = lastClosed[s] /\ lastClosed[s] # openedWith[s]
    BY <1>4, FinishSession DEF InTransit, MigrationInv, ReleasedUnlessMarked
  <2>2. /\ gateway' = [gateway EXCEPT ![n] = @ \cup {s}] /\ lastClosed' = lastClosed
        /\ openedWith' = [openedWith EXCEPT ![s] = lastClosed[s]]
    BY <1>4, <2>1 DEF Finish
  <2>3. Holder(s) = NoNode /\ Holder(s)' = n
    BY <1>1, <1>4, <2>1, <2>2, HolderKnown DEF TypeOK
  <2>4. ASSUME NEW t \in Shards, t # s PROVE Holder(t)' = Holder(t)
    <3>1. \A a \in Nodes : t \in gateway'[a] <=> t \in gateway[a]
      BY <2>2, <2>4 DEF TypeOK
    <3>2. QED
      BY <1>1, <3>1, HolderKnown DEF Nowhere
  <2>5. [t \in Shards |-> Holder(t)]' = [[t \in Shards |-> Holder(t)] EXCEPT ![s] = n]
    BY <2>3, <2>4
  <2>6. QED
    BY <2>1, <2>2, <2>3, <2>5 DEF Ownership!Resume
<1>5. QED
  BY <1>2, <1>3, <1>4, StepKinds DEF Ownership!Move

\* Migrations implement ShardOwnership: a shard is held by one process at a time, and
\* whoever takes it over resumes, once, the very session its last holder closed.
THEOREM KeepsOwnershipTheorem == Spec => KeepsOwnership
<1>1. TypeOK /\ TransferInv /\ [Next]_vars => [Ownership!Move]_(Ownership!ownershipVars)
  BY OwnershipStep DEF TransferInv
<1>2. QED
  BY <1>1, OwnershipInit, TypeTheorem, TransferTheorem, PTL
  DEF Spec, KeepsOwnership, Ownership!MoveSpec
=============================================================================
