----------------------------- MODULE MqueueProofs -----------------------------
(***************************************************************************)
(* The message queue, for any elements, channels, shards and bounds on     *)
(* restarts: every variable keeps its type, no element is lost, overlooked *)
(* or brought back, no two attempts to send disturb each other, and the    *)
(* server never rests on work.                                             *)
(***************************************************************************)
EXTENDS Mqueue, FilterProofs, FiniteSetTheorems, TLAPS

\* An attempt that need not be repeated has settled its element before the server hears of it:
\* so the server deletes nothing else from Redis.
DoneSettled == \A i \in Items : attempt[i] = "done" => i \in settled

QueueInv == /\ stage \in [Items -> {"new", "added", "published"}]
            /\ attempt \in [Items -> {"none", "sending", "done", "retry"}]
            /\ DoneSettled /\ NothingLost

\* Whatever the server chooses to send next, no attempt is done by that.
LEMMA RunningNext ==
  ASSUME NEW lw, NEW aw, NEW at \in [Items -> {"none", "sending", "done", "retry"}],
         RunNextWork(lw, aw, at)
  PROVE  /\ attempt' \in [Items -> {"none", "sending", "done", "retry"}]
         /\ \A i \in Items : attempt'[i] = "done" => at[i] = "done"
<1> DEFINE next == FindWork(lw, aw)
<1>1. attempt' = [i \in Items |-> IF i \in next THEN "sending" ELSE at[i]]
  BY DEF RunNextWork
<1> HIDE DEF next
<1>2. QED
  BY <1>1

\* The server's goroutine: it deletes from Redis what an attempt is done with.
LEMMA ServerSteps ==
  ASSUME QueueInv, ServerStep \/ ClearTotalWork \/ CleanRecentSentTimes
  PROVE  QueueInv'
<1>1. ASSUME NEW force \in BOOLEAN, Refresh(force) PROVE QueueInv'
  <2>1. \E lw : RunNextWork(lw, activeWork, attempt)
    BY <1>1, Zenon DEF Refresh
  <2>2. UNCHANGED <<stage, stored, settled>>
    BY <1>1, Zenon DEF Refresh, redisVars
  <2>3. QED
    BY <2>1, <2>2, RunningNext DEF QueueInv, DoneSettled, NothingLost
<1>2. CASE AddWork
  <2>1. UNCHANGED <<stage, stored, settled>>
    BY <1>2, Zenon DEF AddWork
  <2>2. (\E lw : RunNextWork(lw, activeWork, attempt)) \/ attempt' = attempt
    BY <1>2, Zenon DEF AddWork, AddLocal, AddForeign, sendVars
  <2>3. QED
    BY <2>1, <2>2, RunningNext DEF QueueInv, DoneSettled, NothingLost
<1>3. ASSUME NEW i \in Items, FinishWork(i) PROVE QueueInv'
  <2> DEFINE at == [attempt EXCEPT ![i] = "none"]
  <2>1. \E lw, aw : RunNextWork(lw, aw, at)
    BY <1>3, Zenon DEF FinishWork
  <2>2. /\ UNCHANGED <<stage, settled>>
        /\ stored' = IF attempt[i] = "done" THEN stored \ {i} ELSE stored
    BY <1>3, Zenon DEF FinishWork
  <2>3. at \in [Items -> {"none", "sending", "done", "retry"}] /\ \A j \in Items : at[j] = "done" => attempt[j] = "done"
    BY DEF QueueInv
  <2> HIDE DEF at
  <2>4. QED
    BY <2>1, <2>2, <2>3, RunningNext DEF QueueInv, DoneSettled, NothingLost
<1>4. CASE ClearTotalWork \/ CleanRecentSentTimes
  <2>1. UNCHANGED <<stage, stored, settled, attempt>>
    BY <1>4, Zenon DEF ClearTotalWork, CleanRecentSentTimes, redisVars, sendVars
  <2>2. QED
    BY <2>1 DEF QueueInv, DoneSettled, NothingLost
<1>5. QED
  BY <1>1, <1>2, <1>3, <1>4 DEF ServerStep

\* Producers store an element before it is anywhere else, and an attempt settles it.
LEMMA QueueingAndSending ==
  ASSUME QueueInv, NEW i \in Items, Add(i) \/ Publish(i) \/ Send(i) \/ Fail(i)
  PROVE  QueueInv'
<1>1. CASE Add(i)
  <2>1. /\ stage' = [stage EXCEPT ![i] = "added"] /\ stored' = stored \cup {i}
        /\ UNCHANGED <<settled, attempt>>
    BY <1>1 DEF Add, sendVars
  <2>2. QED
    BY <2>1 DEF QueueInv, DoneSettled, NothingLost
<1>2. CASE Publish(i)
  <2>1. /\ stage[i] = "added" /\ stage' = [stage EXCEPT ![i] = "published"]
        /\ UNCHANGED <<stored, settled, attempt>>
    BY <1>2 DEF Publish, sendVars
  <2>2. QED
    BY <2>1 DEF QueueInv, DoneSettled, NothingLost
<1>3. CASE Send(i)
  <2>1. /\ attempt' = [attempt EXCEPT ![i] = "done"] /\ settled' = settled \cup {i}
        /\ UNCHANGED <<stage, stored>>
    BY <1>3 DEF Send
  <2>2. QED
    BY <2>1 DEF QueueInv, DoneSettled, NothingLost
<1>4. CASE Fail(i)
  <2>1. attempt' = [attempt EXCEPT ![i] = "retry"] /\ UNCHANGED <<stage, stored, settled>>
    BY <1>4 DEF Fail, redisVars
  <2>2. QED
    BY <2>1 DEF QueueInv, DoneSettled, NothingLost
<1>5. QED
  BY <1>1, <1>2, <1>3, <1>4

\* The process starts, stops and ends, and its shards come and go: Redis keeps what it has.
LEMMA ProcessSteps ==
  ASSUME QueueInv,
         \/ Start \/ Subscribe \/ StopBot \/ Exit
         \/ \E s \in Shards : ShardReady(s) \/ ShardRemoved(s)
  PROVE  QueueInv'
<1>1. UNCHANGED <<stage, stored, settled>> /\ (attempt' = attempt \/ attempt' = NoAttempts)
  BY Zenon DEF Start, Subscribe, StopBot, Exit, ShardReady, ShardRemoved, redisVars, sendVars
<1>2. QED
  BY <1>1 DEF QueueInv, DoneSettled, NothingLost, NoAttempts

\* An element is in Redis until it was sent or refused for good, whoever crashes, and however
\* refreshes, pubsub messages and results of attempts interleave.
THEOREM NothingLostTheorem == Spec => []NothingLost
<1>1. Init => QueueInv
  BY DEF Init, QueueInv, DoneSettled, NothingLost, NoAttempts
<1>2. QueueInv /\ [Next]_vars => QueueInv'
  <2> SUFFICES ASSUME QueueInv, [Next]_vars PROVE QueueInv'
    OBVIOUS
  <2>1. \A i \in Items : Add(i) \/ Publish(i) \/ Send(i) \/ Fail(i) => QueueInv'
    BY QueueingAndSending
  <2>2. ServerStep \/ ClearTotalWork \/ CleanRecentSentTimes => QueueInv'
    BY ServerSteps
  <2>3. \/ Start \/ Subscribe \/ StopBot \/ Exit
        \/ \E s \in Shards : ShardReady(s) \/ ShardRemoved(s)
        => QueueInv'
    BY ProcessSteps
  <2>4. CASE UNCHANGED vars
    BY <2>4 DEF vars, redisVars, sendVars, QueueInv, DoneSettled, NothingLost
  <2>5. QED
    BY <2>1, <2>2, <2>3, <2>4, Zenon DEF Next
<1>3. QueueInv => NothingLost
  BY DEF QueueInv
<1>4. QED
  BY <1>1, <1>2, <1>3, PTL DEF Spec

-----------------------------------------------------------------------------
(* Attempts: what the server counts as active covers every attempt, and is  *)
(* what the limit and the channels are respected for.                      *)

Apart(aw) == \A i, j \in aw : ChannelOf[i] = ChannelOf[j] => i = j
Within(aw) == IsFiniteSet(aw) /\ Cardinality(aw) <= MaxConcurrent /\ Apart(aw)
Covered(at, aw) == /\ at \in [Items -> {"none", "sending", "done", "retry"}]
                   /\ \A i \in Items : at[i] # "none" => i \in aw
ActiveInv == Within(activeWork) /\ Covered(attempt, activeWork)

\* findWork finds one element at most, of a channel nothing is being sent to, and none when as
\* much is active as may be.
LEMMA Finding ==
  ASSUME NEW lw, NEW aw
  PROVE  /\ \A x, y \in FindWork(lw, aw) : x = y
         /\ \A x \in FindWork(lw, aw), a \in aw : ChannelOf[a] # ChannelOf[x]
         /\ Cardinality(aw) >= MaxConcurrent => FindWork(lw, aw) = {}
<1> DEFINE free == Idle(lw, aw)
           sent == [k \in free |-> Max({0} \cup {r \in 1 .. Len(recent) : recent[r] = ChannelOf[lw[k]]})]
           places == {k \in free : \A m \in free : sent[k] <= sent[m]}
<1>1. \A k \in places : k \in Int /\ \A a \in aw : ChannelOf[a] # ChannelOf[lw[k]]
  BY DEF Idle
<1>2. FindWork(lw, aw) = IF Cardinality(aw) >= MaxConcurrent THEN {} ELSE First(lw, places)
  BY DEF FindWork
<1> HIDE DEF places
<1>3. \A x \in First(lw, places) : \E k \in places : x = lw[k] /\ \A m \in places : k <= m
  BY DEF First
<1>4. \A x, y \in First(lw, places) : x = y
  <2> SUFFICES ASSUME NEW x \in First(lw, places), NEW y \in First(lw, places) PROVE x = y
    OBVIOUS
  <2>1. PICK k \in places : x = lw[k] /\ \A m \in places : k <= m
    BY <1>3
  <2>2. PICK l \in places : y = lw[l] /\ \A m \in places : l <= m
    BY <1>3
  <2>3. k \in Int /\ l \in Int /\ k <= l /\ l <= k
    BY <1>1, <2>1, <2>2
  <2>4. k = l
    BY <2>3
  <2>5. QED
    BY <2>1, <2>2, <2>4
<1>5. \A x \in First(lw, places), a \in aw : ChannelOf[a] # ChannelOf[x]
  BY <1>1, <1>3
<1>6. QED
  BY <1>2, <1>4, <1>5

\* Starting what findWork found keeps attempts apart, and within the limit.
LEMMA Starting ==
  ASSUME NEW lw, NEW aw, NEW at, Within(aw), Covered(at, aw), RunNextWork(lw, aw, at)
  PROVE  ActiveInv'
<1> DEFINE next == FindWork(lw, aw)
<1>1. /\ activeWork' = aw \cup next
      /\ attempt' = [i \in Items |-> IF i \in next THEN "sending" ELSE at[i]]
  BY DEF RunNextWork
<1>2. /\ \A x, y \in next : x = y
      /\ \A x \in next, a \in aw : ChannelOf[a] # ChannelOf[x]
      /\ Cardinality(aw) >= MaxConcurrent => next = {}
  BY Finding
<1> HIDE DEF next
<1>3. Covered(attempt', activeWork')
  BY <1>1 DEF Covered
<1>4. Within(activeWork')
  <2>1. CASE next = {}
    BY <1>1, <2>1 DEF Within
  <2>2. CASE next # {}
    <3>1. PICK x \in next : next = {x}
      BY <1>2, <2>2
    <3>2. activeWork' = aw \cup {x}
      BY <1>1, <3>1
    <3>3. Cardinality(aw) \in Nat /\ MaxConcurrent \in Nat
      BY FS_CardinalityType, MqueueAssumption DEF Within
    <3>4. ~(Cardinality(aw) >= MaxConcurrent)
      BY <1>2, <2>2
    <3>5. IsFiniteSet(activeWork') /\ Cardinality(activeWork') <= Cardinality(aw) + 1
      <4>1. /\ IsFiniteSet(aw \cup {x})
            /\ Cardinality(aw \cup {x}) = IF x \in aw THEN Cardinality(aw) ELSE Cardinality(aw) + 1
        BY FS_AddElement, Zenon DEF Within
      <4>2. QED
        BY <3>2, <3>3, <4>1
    <3>6. Cardinality(activeWork') \in Nat
      BY <3>5, FS_CardinalityType
    <3>7. Cardinality(activeWork') <= MaxConcurrent
      BY <3>3, <3>4, <3>5, <3>6
    <3>8. Apart(activeWork')
      BY <1>2, <3>1, <3>2 DEF Within, Apart
    <3>9. QED
      BY <3>5, <3>7, <3>8 DEF Within
  <2>3. QED
    BY <2>1, <2>2
<1>5. QED
  BY <1>3, <1>4 DEF ActiveInv

\* "Don't send 2 messages in a channel at the same time", and no more at once than configured:
\* through refreshes, arrivals, failures, stops and restarts.
THEOREM AttemptsApartTheorem == Spec => []AttemptsApart
<1>1. Init => ActiveInv
  <2>1. Cardinality({}) <= MaxConcurrent /\ IsFiniteSet({})
    BY FS_EmptySet, MqueueAssumption
  <2>2. QED
    BY <2>1 DEF Init, ActiveInv, Within, Covered, Apart, NoAttempts
<1>2. ActiveInv /\ [Next]_vars => ActiveInv'
  <2> SUFFICES ASSUME ActiveInv, [Next]_vars PROVE ActiveInv'
    OBVIOUS
  <2>1. ASSUME UNCHANGED <<activeWork, attempt>> PROVE ActiveInv'
    BY <2>1 DEF ActiveInv
  <2>2. ASSUME NEW lw, RunNextWork(lw, activeWork, attempt) PROVE ActiveInv'
    BY <2>2, Starting DEF ActiveInv
  <2>3. ASSUME NEW force \in BOOLEAN, Refresh(force) PROVE ActiveInv'
    BY <2>2, <2>3, Zenon DEF Refresh
  <2>4. CASE AddWork
    BY <2>1, <2>2, <2>4, Zenon DEF AddWork, AddLocal, AddForeign, sendVars
  <2>5. ASSUME NEW i \in Items, FinishWork(i) PROVE ActiveInv'
    <3> DEFINE at == [attempt EXCEPT ![i] = "none"]
    <3>1. \E lw : RunNextWork(lw, activeWork \ {i}, at)
      BY <2>5, Zenon DEF FinishWork
    <3>2. Within(activeWork \ {i})
      <4>1. IsFiniteSet(activeWork) /\ Cardinality(activeWork) <= MaxConcurrent /\ Apart(activeWork)
        BY DEF ActiveInv, Within
      <4>2. /\ IsFiniteSet(activeWork \ {i})
            /\ Cardinality(activeWork \ {i}) <= Cardinality(activeWork)
        <5>1. activeWork \ {i} \in SUBSET activeWork
          OBVIOUS
        <5>2. QED
          BY <4>1, <5>1, FS_Subset, Zenon
      <4>3. /\ Cardinality(activeWork) \in Nat /\ Cardinality(activeWork \ {i}) \in Nat
            /\ MaxConcurrent \in Nat
        BY <4>1, <4>2, FS_CardinalityType, MqueueAssumption
      <4>4. Cardinality(activeWork \ {i}) <= MaxConcurrent
        BY <4>1, <4>2, <4>3
      <4>5. QED
        BY <4>1, <4>2, <4>4 DEF Within, Apart
    <3>3. Covered(at, activeWork \ {i})
      BY DEF ActiveInv, Covered
    <3> HIDE DEF at
    <3>4. QED
      BY <3>1, <3>2, <3>3, Starting
  <2>6. ASSUME NEW i \in Items, Send(i) \/ Fail(i) PROVE ActiveInv'
    <3>1. /\ attempt[i] = "sending" /\ activeWork' = activeWork
          /\ \E s \in {"done", "retry"} : attempt' = [attempt EXCEPT ![i] = s]
      BY <2>6 DEF Send, Fail
    <3>2. QED
      BY <3>1 DEF ActiveInv, Covered
  <2>7. CASE Exit
    <3>1. activeWork' = {} /\ attempt' = NoAttempts
      BY <2>7 DEF Exit
    <3>2. Cardinality({}) <= MaxConcurrent /\ IsFiniteSet({})
      BY FS_EmptySet, MqueueAssumption
    <3>3. QED
      BY <3>1, <3>2 DEF ActiveInv, Within, Covered, Apart, NoAttempts
  <2>8. ASSUME NEW i \in Items, Add(i) \/ Publish(i) PROVE ActiveInv'
    BY <2>1, <2>8, Zenon DEF Add, Publish, sendVars
  <2>9. CASE ClearTotalWork \/ CleanRecentSentTimes \/ Start \/ Subscribe \/ StopBot
    BY <2>1, <2>9, Zenon DEF ClearTotalWork, CleanRecentSentTimes, Start, Subscribe, StopBot, sendVars
  <2>10. ASSUME NEW s \in Shards, ShardReady(s) \/ ShardRemoved(s) PROVE ActiveInv'
    BY <2>1, <2>10, Zenon DEF ShardReady, ShardRemoved, sendVars
  <2>11. CASE UNCHANGED vars
    BY <2>1, <2>11, Zenon DEF vars, sendVars
  <2>12. QED
    BY <2>3, <2>4, <2>5, <2>6, <2>7, <2>8, <2>9, <2>10, <2>11 DEF Next, ServerStep
<1>3. ActiveInv => AttemptsApart
  <2> SUFFICES ASSUME ActiveInv PROVE AttemptsApart
    OBVIOUS
  <2>1. Attempted \in SUBSET activeWork
    BY DEF ActiveInv, Covered, Attempted
  <2>2. IsFiniteSet(activeWork) /\ Cardinality(activeWork) <= MaxConcurrent
    BY DEF ActiveInv, Within
  <2>3. IsFiniteSet(Attempted) /\ Cardinality(Attempted) <= Cardinality(activeWork)
    BY <2>1, <2>2, FS_Subset, Zenon
  <2>4. Cardinality(Attempted) \in Nat /\ Cardinality(activeWork) \in Nat /\ MaxConcurrent \in Nat
    BY <2>2, <2>3, FS_CardinalityType, MqueueAssumption
  <2>5. Cardinality(Attempted) <= MaxConcurrent
    BY <2>2, <2>3, <2>4
  <2>6. \A i, j \in Attempted : ChannelOf[i] = ChannelOf[j] => i = j
    BY <2>1 DEF ActiveInv, Within, Apart
  <2>7. QED
    BY <2>5, <2>6 DEF AttemptsApart
<1>4. QED
  BY <1>1, <1>2, <1>3, PTL DEF Spec
-----------------------------------------------------------------------------
(* The types.  RunNextWork takes the local work it leaves as an operator's  *)
(* argument: what it changes is of the right type if that is.               *)

Attempts == [Items -> {"none", "sending", "done", "retry"}]

\* What is at hand of the queue is empty while none is, and a process that is down has nothing.
AtHand == /\ ~totalPresent => totalWork = << >>
          /\ up = "down" => localWork = << >> /\ ~subscribed
TypeInv == TypeOK /\ AtHand

\* Filtering, as the server uses it.
LEMMA Filtering ==
  ASSUME NEW s \in Works, NEW S
  PROVE  /\ Only(s, S) \in Works
         /\ ToSet(Only(s, S)) = ToSet(s) \cap S
         /\ ToSet(s) \subseteq Items
<1>1. Only(s, S) \in Seq(Items) /\ Range(Only(s, S)) = Range(s) \cap S
  BY OnlyProperties, Zenon DEF Works
<1>2. ToSet(s) \subseteq Items
  BY DEF ToSet, Works
<1>3. QED
  BY <1>1, <1>2 DEF Works, Range, ToSet

\* Putting one list after another.
LEMMA Joining ==
  ASSUME NEW s \in Works, NEW t \in Works
  PROVE  s \o t \in Works /\ ToSet(s \o t) = ToSet(s) \cup ToSet(t)
<1>1. s \o t \in Seq(Items)
  BY ConcatProperties, Zenon DEF Works
<1>2. Range(s \o t) = Range(s) \cup Range(t)
  BY RangeConcatenation, Zenon DEF Works
<1>3. QED
  BY <1>1, <1>2, Zenon DEF Works, ToSet, Range

\* Appending one element, and taking the first.
LEMMA Queueing ==
  ASSUME NEW s \in Works
  PROVE  /\ \A i \in Items : Append(s, i) \in Works /\ ToSet(Append(s, i)) = ToSet(s) \cup {i}
         /\ s # << >> => /\ Head(s) \in Items /\ Tail(s) \in Works
                         /\ ToSet(s) = ToSet(Tail(s)) \cup {Head(s)}
<1>1. ASSUME NEW i \in Items PROVE Append(s, i) \in Works /\ ToSet(Append(s, i)) = ToSet(s) \cup {i}
  <2>1. /\ Append(s, i) \in Seq(Items) /\ Len(Append(s, i)) = Len(s) + 1 /\ Len(s) \in Nat
        /\ \A k \in 1 .. Len(s) : Append(s, i)[k] = s[k]
        /\ Append(s, i)[Len(s) + 1] = i
    BY AppendProperties, LenProperties DEF Works
  <2>2. DOMAIN s = 1 .. Len(s) /\ DOMAIN Append(s, i) = 1 .. Len(s) + 1
    BY <2>1, LenProperties DEF Works
  <2>3. \A k : k \in DOMAIN Append(s, i) <=> k \in DOMAIN s \/ k = Len(s) + 1
    BY <2>1, <2>2
  <2>4. QED
    BY <2>1, <2>2, <2>3 DEF ToSet, Works
<1>2. ASSUME s # << >>
      PROVE  Head(s) \in Items /\ Tail(s) \in Works /\ ToSet(s) = ToSet(Tail(s)) \cup {Head(s)}
  <2>1. /\ Head(s) \in Items /\ Tail(s) \in Seq(Items) /\ Len(Tail(s)) = Len(s) - 1
        /\ \A k \in 1 .. Len(Tail(s)) : Tail(s)[k] = s[k + 1]
        /\ Len(s) \in Nat /\ Len(s) # 0 /\ Head(s) = s[1]
    BY <1>2, HeadTailProperties, LenProperties, EmptySeq DEF Works
  <2>2. DOMAIN s = 1 .. Len(s) /\ DOMAIN Tail(s) = 1 .. Len(s) - 1
    BY <2>1, LenProperties DEF Works
  <2>3. \A k \in DOMAIN s : k = 1 \/ (k - 1 \in DOMAIN Tail(s) /\ s[k] = Tail(s)[k - 1])
    BY <2>1, <2>2
  <2>4. 1 \in DOMAIN s /\ \A k \in DOMAIN Tail(s) : k + 1 \in DOMAIN s /\ Tail(s)[k] = s[k + 1]
    BY <2>1, <2>2
  <2>5. QED
    BY <2>1, <2>3, <2>4 DEF ToSet, Works
<1>3. QED
  BY <1>1, <1>2
\* What is handed to a goroutine is local work.
LEMMA RunningWork ==
  ASSUME recent \in Seq(Channels), NEW lw \in Works, NEW aw \in SUBSET Items, NEW at \in Attempts,
         RunNextWork(lw, aw, at)
  PROVE  /\ localWork' = lw /\ activeWork' \subseteq Items
         /\ attempt' \in Attempts /\ recent' \in Seq(Channels)
<1> DEFINE next == FindWork(lw, aw)
<1>1. next \subseteq Items
  <2>1. \A k \in 1 .. Len(lw) : lw[k] \in Items
    BY ElementOfSeq DEF Works
  <2>2. \A places \in SUBSET (1 .. Len(lw)) : First(lw, places) \subseteq Items
    BY <2>1 DEF First
  <2>3. \E places \in SUBSET (1 .. Len(lw)) : next = {} \/ next = First(lw, places)
    <3>1. Idle(lw, aw) \in SUBSET (1 .. Len(lw))
      BY DEF Idle
    <3>2. QED
      BY <3>1 DEF FindWork
  <2>4. QED
    BY <2>2, <2>3
<1>2. /\ localWork' = lw /\ activeWork' = aw \cup next
      /\ attempt' = [i \in Items |-> IF i \in next THEN "sending" ELSE at[i]]
      /\ \/ recent' = recent
         \/ \E i \in next : recent' = Append(Only(recent, Channels \ {ChannelOf[i]}), ChannelOf[i])
  BY Zenon DEF RunNextWork
<1> HIDE DEF next
<1>3. attempt' \in Attempts
  BY <1>2 DEF Attempts
<1>4. recent' \in Seq(Channels)
  <2>1. \A i \in next : ChannelOf[i] \in Channels
    BY <1>1, MqueueAssumption
  <2>2. \A S : Only(recent, S) \in Seq(Channels)
    BY OnlyProperties
  <2>3. \A q \in Seq(Channels), c \in Channels : Append(q, c) \in Seq(Channels)
    BY AppendProperties
  <2>4. QED
    BY <1>2, <2>1, <2>2, <2>3
<1>5. QED
  BY <1>1, <1>2, <1>3, <1>4

\* Lists of work are made of lists of work.
LEMMA WorkLists ==
  ASSUME TypeOK
  PROVE  /\ Only(StoredOrder, stored) \in Works /\ ToSet(Only(StoredOrder, stored)) = stored
         /\ \A s \in Works, lw \in Works :
              /\ Missing(s, lw) \in Works /\ ToSet(Missing(s, lw)) = ToSet(s) \ ToSet(lw)
         /\ \A s \in Works :
              /\ Local(s) \in Works /\ ToSet(Local(s)) = {i \in ToSet(s) : ShardOf[i] \in ready}
              /\ \A i : Without(s, i) \in Works /\ ToSet(Without(s, i)) = ToSet(s) \ {i}
         /\ \A i \in Items : <<i>> \in Works /\ ToSet(<<i>>) = {i}
<1>1. StoredOrder \in Works /\ ToSet(StoredOrder) = Items /\ stored \subseteq Items
  BY MqueueAssumption DEF Works, TypeOK
<1>2. Only(StoredOrder, stored) \in Works /\ ToSet(Only(StoredOrder, stored)) = stored
  <2>1. /\ Only(StoredOrder, stored) \in Works
        /\ ToSet(Only(StoredOrder, stored)) = ToSet(StoredOrder) \cap stored
    BY <1>1, Filtering
  <2>2. QED
    BY <1>1, <2>1
<1>3. ASSUME NEW s \in Works, NEW lw \in Works
      PROVE  Missing(s, lw) \in Works /\ ToSet(Missing(s, lw)) = ToSet(s) \ ToSet(lw)
  <2>1. /\ Missing(s, lw) \in Works /\ ToSet(s) \subseteq Items
        /\ ToSet(Missing(s, lw)) = ToSet(s) \cap (Items \ ToSet(lw))
    BY Filtering, Zenon DEF Missing
  <2>2. QED
    BY <2>1
<1>4. ASSUME NEW s \in Works
      PROVE  Local(s) \in Works /\ ToSet(Local(s)) = {i \in ToSet(s) : ShardOf[i] \in ready}
  <2>1. /\ Local(s) \in Works /\ ToSet(s) \subseteq Items
        /\ ToSet(Local(s)) = ToSet(s) \cap {i \in Items : ShardOf[i] \in ready}
    BY Filtering, Zenon DEF Local
  <2>2. QED
    BY <2>1
<1>5. ASSUME NEW s \in Works, NEW i
      PROVE  Without(s, i) \in Works /\ ToSet(Without(s, i)) = ToSet(s) \ {i}
  <2>1. /\ Without(s, i) \in Works /\ ToSet(s) \subseteq Items
        /\ ToSet(Without(s, i)) = ToSet(s) \cap (Items \ {i})
    BY Filtering, Zenon DEF Without
  <2>2. QED
    BY <2>1
<1>6. ASSUME NEW i \in Items PROVE <<i>> \in Works /\ ToSet(<<i>>) = {i}
  BY DEF Works, ToSet
<1>7. QED
  BY <1>2, <1>3, <1>4, <1>5, <1>6

\* A refresh: what is at hand of the queue, and what is local work from then on.
LEMMA Refreshing ==
  ASSUME TypeInv, NEW force \in BOOLEAN, Refresh(force)
  PROVE  /\ totalWork' \in Works /\ localWork' \in Works
         /\ activeWork' \subseteq Items /\ attempt' \in Attempts /\ recent' \in Seq(Channels)
         /\ ToSet(localWork') = ToSet(localWork) \cup {i \in ToSet(totalWork') : ShardOf[i] \in ready}
         /\ IF force \/ ~totalPresent THEN ToSet(totalWork') = stored ELSE totalWork' = totalWork
<1>1. TypeOK
  BY DEF TypeInv
<1>2. /\ totalWork \in Works /\ localWork \in Works /\ activeWork \subseteq Items
      /\ recent \in Seq(Channels) /\ attempt \in Attempts
  BY <1>1 DEF TypeOK, Attempts
<1>3. /\ totalWork' = IF force \/ ~totalPresent THEN Only(StoredOrder, stored) ELSE totalWork
      /\ RunNextWork(localWork \o Missing(Local(totalWork'), localWork), activeWork, attempt)
  BY Zenon DEF Refresh
<1>4. totalWork' \in Works
  BY <1>1, <1>2, <1>3, WorkLists
<1>5. /\ Local(totalWork') \in Works
      /\ ToSet(Local(totalWork')) = {i \in ToSet(totalWork') : ShardOf[i] \in ready}
  BY <1>1, <1>4, WorkLists
<1> DEFINE new == Missing(Local(totalWork'), localWork)
<1>6. new \in Works /\ ToSet(new) = ToSet(Local(totalWork')) \ ToSet(localWork)
  BY <1>1, <1>2, <1>5, WorkLists
<1> HIDE DEF new
<1>7. localWork \o new \in Works /\ ToSet(localWork \o new) = ToSet(localWork) \cup ToSet(new)
  BY <1>2, <1>6, Joining
<1>8. RunNextWork(localWork \o new, activeWork, attempt)
  BY <1>3 DEF new
<1>9. /\ localWork' = localWork \o new /\ activeWork' \subseteq Items
      /\ attempt' \in Attempts /\ recent' \in Seq(Channels)
  BY <1>2, <1>7, <1>8, RunningWork
<1>10. ToSet(localWork') = ToSet(localWork) \cup {i \in ToSet(totalWork') : ShardOf[i] \in ready}
  BY <1>5, <1>6, <1>7, <1>9
<1>11. IF force \/ ~totalPresent THEN ToSet(totalWork') = stored ELSE totalWork' = totalWork
  BY <1>1, <1>3, WorkLists
<1>12. QED
  BY <1>4, <1>7, <1>9, <1>10, <1>11

\* The arrival of a published element.
LEMMA Arriving ==
  ASSUME TypeInv, AddWork
  PROVE  /\ totalWork' \in Works /\ localWork' \in Works
         /\ activeWork' \subseteq Items /\ attempt' \in Attempts /\ recent' \in Seq(Channels)
         /\ pushes' \in Works /\ ToSet(pushes) = ToSet(pushes') \cup {Head(pushes)}
         /\ ToSet(localWork') = IF ShardOf[Head(pushes)] \in ready
                                  THEN ToSet(localWork) \cup {Head(pushes)} ELSE ToSet(localWork)
         /\ ToSet(totalWork') = IF ShardOf[Head(pushes)] \notin ready /\ totalPresent
                                  THEN ToSet(totalWork) \cup {Head(pushes)} ELSE ToSet(totalWork)
         /\ ~totalPresent => totalWork' = totalWork
<1>1. TypeOK
  BY DEF TypeInv
<1>2. /\ totalWork \in Works /\ localWork \in Works /\ activeWork \subseteq Items /\ pushes \in Works
      /\ recent \in Seq(Channels) /\ attempt \in Attempts
  BY <1>1 DEF TypeOK, Attempts
<1>3. PICK i : i = Head(pushes)
  OBVIOUS
<1>4. /\ pushes # << >> /\ pushes' = Tail(pushes)
      /\ IF ShardOf[i] \in ready THEN AddLocal(i) ELSE AddForeign(i)
  BY <1>3, Zenon DEF AddWork
<1>5. i \in Items /\ pushes' \in Works /\ ToSet(pushes) = ToSet(pushes') \cup {i}
  BY <1>2, <1>3, <1>4, Queueing
<1>6. CASE ShardOf[i] \in ready
  <2>1. totalWork' = totalWork
    BY <1>4, <1>6 DEF AddLocal
  <2>2. CASE i \in ToSet(localWork)
    <3>1. UNCHANGED <<localWork, activeWork, recent, attempt>>
      BY <1>4, <1>6, <2>2 DEF AddLocal, sendVars
    <3>2. QED
      BY <1>2, <1>3, <1>5, <1>6, <2>1, <2>2, <3>1
  <2>3. CASE i \notin ToSet(localWork)
    <3>1. RunNextWork(Append(localWork, i), activeWork, attempt)
      BY <1>4, <1>6, <2>3 DEF AddLocal
    <3>2. Append(localWork, i) \in Works /\ ToSet(Append(localWork, i)) = ToSet(localWork) \cup {i}
      BY <1>2, <1>5, Queueing
    <3>3. /\ localWork' = Append(localWork, i) /\ activeWork' \subseteq Items
          /\ attempt' \in Attempts /\ recent' \in Seq(Channels)
      BY <1>2, <3>1, <3>2, RunningWork
    <3>4. QED
      BY <1>2, <1>3, <1>5, <1>6, <2>1, <3>2, <3>3
  <2>4. QED
    BY <2>2, <2>3
<1>7. CASE ShardOf[i] \notin ready
  <2>1. /\ totalWork' = IF totalPresent THEN totalWork \o Missing(<<i>>, totalWork) ELSE totalWork
        /\ UNCHANGED <<localWork, activeWork, recent, attempt>>
    BY <1>4, <1>7 DEF AddForeign, sendVars
  <2>2. <<i>> \in Works /\ ToSet(<<i>>) = {i}
    BY <1>1, <1>5, WorkLists
  <2>3. Missing(<<i>>, totalWork) \in Works /\ ToSet(Missing(<<i>>, totalWork)) = {i} \ ToSet(totalWork)
    BY <1>1, <1>2, <2>2, WorkLists
  <2>4. /\ totalWork \o Missing(<<i>>, totalWork) \in Works
        /\ ToSet(totalWork \o Missing(<<i>>, totalWork))
             = ToSet(totalWork) \cup ToSet(Missing(<<i>>, totalWork))
    BY <1>2, <2>3, Joining
  <2>5. totalWork' \in Works /\ ToSet(totalWork') = IF totalPresent THEN ToSet(totalWork) \cup {i} ELSE ToSet(totalWork)
    BY <1>2, <2>1, <2>3, <2>4
  <2>6. QED
    BY <1>2, <1>3, <1>5, <1>7, <2>1, <2>5
<1>8. QED
  BY <1>6, <1>7

\* The result of an attempt.
LEMMA Finishing ==
  ASSUME TypeInv, NEW i \in Items, FinishWork(i)
  PROVE  /\ totalWork' \in Works /\ localWork' \in Works
         /\ activeWork' \subseteq Items /\ attempt' \in Attempts /\ recent' \in Seq(Channels)
         /\ ~totalPresent => totalWork' = totalWork
         /\ IF attempt[i] = "done"
              THEN /\ stored' = stored \ {i}
                   /\ ToSet(localWork') = ToSet(localWork) \ {i}
                   /\ totalPresent => ToSet(totalWork') = ToSet(totalWork) \ {i}
              ELSE UNCHANGED <<stored, localWork, totalWork>>
<1>1. TypeOK
  BY DEF TypeInv
<1>2. /\ totalWork \in Works /\ localWork \in Works /\ activeWork \subseteq Items
      /\ recent \in Seq(Channels) /\ attempt \in Attempts
  BY <1>1 DEF TypeOK, Attempts
<1> DEFINE left == IF attempt[i] = "done" THEN Without(localWork, i) ELSE localWork
           at == [attempt EXCEPT ![i] = "none"]
<1>3. /\ stored' = IF attempt[i] = "done" THEN stored \ {i} ELSE stored
      /\ totalWork' = IF attempt[i] = "done" /\ totalPresent THEN Without(totalWork, i) ELSE totalWork
      /\ RunNextWork(left, activeWork \ {i}, at)
  BY Zenon DEF FinishWork
<1>4. Without(localWork, i) \in Works /\ ToSet(Without(localWork, i)) = ToSet(localWork) \ {i}
  BY <1>1, <1>2, WorkLists
<1>5. Without(totalWork, i) \in Works /\ ToSet(Without(totalWork, i)) = ToSet(totalWork) \ {i}
  BY <1>1, <1>2, WorkLists
<1>6. left \in Works /\ activeWork \ {i} \in SUBSET Items
  BY <1>2, <1>4
<1>7. at \in Attempts
  BY <1>2 DEF Attempts
<1> HIDE DEF at
<1>8. /\ localWork' = left /\ activeWork' \subseteq Items
      /\ attempt' \in Attempts /\ recent' \in Seq(Channels)
  <2> HIDE DEF left
  <2>1. QED
    BY <1>2, <1>3, <1>6, <1>7, RunningWork
<1>9. QED
  BY <1>2, <1>3, <1>4, <1>5, <1>8

\* Steps of the server and the producers keep the types.
LEMMA ServerTypes ==
  ASSUME TypeInv
  PROVE  /\ \A force \in BOOLEAN : Refresh(force) => TypeInv'
         /\ AddWork => TypeInv'
         /\ \A i \in Items : FinishWork(i) => TypeInv'
         /\ ClearTotalWork \/ CleanRecentSentTimes => TypeInv'
<1>1. ASSUME NEW force \in BOOLEAN, Refresh(force) PROVE TypeInv'
  <2>1. /\ totalWork' \in Works /\ localWork' \in Works
        /\ activeWork' \subseteq Items /\ attempt' \in Attempts /\ recent' \in Seq(Channels)
    BY <1>1, Refreshing
  <2>2. /\ refreshWork[force] > 0 /\ refreshWork' = [refreshWork EXCEPT ![force] = @ - 1]
        /\ totalPresent' = TRUE /\ clears' \in {clears, clears + 1} /\ up = "running"
        /\ UNCHANGED <<stage, stored, pushes, settled, up, starts, subscribed, ready, readied>>
    BY <1>1, Zenon DEF Refresh, redisVars, processVars
  <2>3. refreshWork' \in [BOOLEAN -> Nat]
    BY <2>2 DEF TypeInv, TypeOK
  <2>4. QED
    BY <2>1, <2>2, <2>3 DEF TypeInv, TypeOK, AtHand, Attempts
<1>2. ASSUME AddWork PROVE TypeInv'
  <2>1. /\ totalWork' \in Works /\ localWork' \in Works /\ pushes' \in Works
        /\ activeWork' \subseteq Items /\ attempt' \in Attempts /\ recent' \in Seq(Channels)
        /\ ~totalPresent => totalWork' = totalWork
    BY <1>2, Arriving
  <2>2. /\ up = "running" /\ totalPresent' = totalPresent
        /\ UNCHANGED <<stage, stored, settled, up, starts, subscribed, ready, readied, refreshWork, clears>>
    BY <1>2, Zenon DEF AddWork, AddLocal, AddForeign, processVars
  <2>3. QED
    BY <2>1, <2>2 DEF TypeInv, TypeOK, AtHand, Attempts
<1>3. ASSUME NEW i \in Items, FinishWork(i) PROVE TypeInv'
  <2>1. /\ totalWork' \in Works /\ localWork' \in Works
        /\ activeWork' \subseteq Items /\ attempt' \in Attempts /\ recent' \in Seq(Channels)
        /\ ~totalPresent => totalWork' = totalWork
    BY <1>3, Finishing
  <2>2. /\ up = "running" /\ stored' \in {stored, stored \ {i}}
        /\ UNCHANGED <<stage, pushes, settled, up, starts, subscribed, ready, readied, refreshWork, clears,
                       totalPresent>>
    BY <1>3, Zenon DEF FinishWork, processVars
  <2>3. QED
    BY <2>1, <2>2 DEF TypeInv, TypeOK, AtHand, Attempts
<1>4. ASSUME ClearTotalWork PROVE TypeInv'
  <2>1. << >> \in Works
    BY EmptySeq DEF Works
  <2>2. clears' \in Nat
    BY <1>4 DEF ClearTotalWork, TypeInv, TypeOK
  <2>3. /\ up = "running" /\ totalWork' = << >> /\ totalPresent' = FALSE
        /\ UNCHANGED <<stage, stored, pushes, settled, up, starts, subscribed, ready, readied, refreshWork,
                       localWork, activeWork, recent, attempt>>
    BY <1>4 DEF ClearTotalWork, redisVars, processVars, sendVars
  <2>4. QED
    BY <2>1, <2>2, <2>3 DEF TypeInv, TypeOK, AtHand
<1>5. ASSUME CleanRecentSentTimes PROVE TypeInv'
  <2>1. recent' \in Seq(Channels)
    BY <1>5, HeadTailProperties DEF CleanRecentSentTimes, TypeInv, TypeOK
  <2>2. QED
    BY <1>5, <2>1 DEF CleanRecentSentTimes, redisVars, processVars, workVars, TypeInv, TypeOK, AtHand
<1>6. QED
  BY <1>1, <1>2, <1>3, <1>4, <1>5

LEMMA TypeStep == TypeInv /\ [Next]_vars => TypeInv'
<1> SUFFICES ASSUME TypeInv, [Next]_vars PROVE TypeInv'
  OBVIOUS
<1>0. /\ refreshWork \in [BOOLEAN -> Nat]
      /\ \A force \in BOOLEAN : [refreshWork EXCEPT ![force] = @ + 1] \in [BOOLEAN -> Nat]
  BY DEF TypeInv, TypeOK
<1>1. ASSUME NEW i \in Items, Add(i) \/ Send(i) \/ Fail(i) PROVE TypeInv'
  <2>1. CASE Add(i)
    <3>1. stage' = [stage EXCEPT ![i] = "added"] /\ stored' = stored \cup {i}
      BY <2>1 DEF Add
    <3>2. QED
      BY <2>1, <3>1 DEF Add, processVars, workVars, sendVars, TypeInv, TypeOK, AtHand
  <2>2. CASE Send(i)
    <3>1. attempt' = [attempt EXCEPT ![i] = "done"] /\ settled' = settled \cup {i}
      BY <2>2 DEF Send
    <3>2. QED
      BY <2>2, <3>1 DEF Send, processVars, workVars, TypeInv, TypeOK, AtHand
  <2>3. CASE Fail(i)
    <3>1. attempt' = [attempt EXCEPT ![i] = "retry"]
      BY <2>3 DEF Fail
    <3>2. QED
      BY <2>3, <3>1 DEF Fail, redisVars, processVars, workVars, TypeInv, TypeOK, AtHand
  <2>4. QED
    BY <1>1, <2>1, <2>2, <2>3
<1>2. ASSUME NEW i \in Items, Publish(i) PROVE TypeInv'
  <2>1. Append(pushes, i) \in Works
    BY Queueing DEF TypeInv, TypeOK
  <2>2. pushes' \in Works /\ stage' = [stage EXCEPT ![i] = "published"]
    BY <1>2, <2>1 DEF Publish, TypeInv, TypeOK
  <2>3. QED
    BY <1>2, <2>2 DEF Publish, processVars, workVars, sendVars, TypeInv, TypeOK, AtHand
<1>3. CASE Start
  <2>1. starts' \in 0 .. MaxStarts
    BY <1>3, MqueueAssumption DEF Start, TypeInv, TypeOK
  <2>2. QED
    BY <1>3, <2>1 DEF Start, redisVars, workVars, sendVars, TypeInv, TypeOK, AtHand
<1>4. CASE Subscribe
  <2>1. refreshWork' \in [BOOLEAN -> Nat]
    BY <1>4, <1>0 DEF Subscribe
  <2>2. QED
    BY <1>4, <2>1 DEF Subscribe, redisVars, workVars, sendVars, TypeInv, TypeOK, AtHand
<1>5. CASE StopBot
  BY <1>5 DEF StopBot, redisVars, workVars, sendVars, TypeInv, TypeOK, AtHand
<1>6. CASE Exit
  <2>1. << >> \in Works /\ << >> \in Seq(Channels)
    BY EmptySeq DEF Works
  <2>2. NoAttempts \in [Items -> {"none", "sending", "done", "retry"}] /\ NothingToRefresh \in [BOOLEAN -> Nat]
    BY DEF NoAttempts, NothingToRefresh
  <2>3. QED
    BY <1>6, <2>1, <2>2 DEF Exit, TypeInv, TypeOK, AtHand
<1>7. ASSUME NEW s \in Shards, ShardReady(s) PROVE TypeInv'
  <2>1. refreshWork' \in [BOOLEAN -> Nat]
    BY <1>7, <1>0 DEF ShardReady
  <2>2. readied' \in 0 .. MaxReady
    BY <1>7, MqueueAssumption DEF ShardReady, TypeInv, TypeOK
  <2>3. QED
    BY <1>7, <2>1, <2>2 DEF ShardReady, redisVars, workVars, sendVars, TypeInv, TypeOK, AtHand
<1>8. ASSUME NEW s \in Shards, ShardRemoved(s) PROVE TypeInv'
  BY <1>8 DEF ShardRemoved, redisVars, workVars, sendVars, TypeInv, TypeOK, AtHand
<1>9. CASE UNCHANGED vars
  BY <1>9 DEF vars, redisVars, processVars, workVars, sendVars, TypeInv, TypeOK, AtHand
<1>10. QED
  BY <1>1, <1>2, <1>3, <1>4, <1>5, <1>6, <1>7, <1>8, <1>9, ServerTypes DEF Next, ServerStep

LEMMA TypeInit == Init => TypeInv
<1> SUFFICES ASSUME Init PROVE TypeInv
  OBVIOUS
<1>1. << >> \in Works /\ << >> \in Seq(Channels)
  BY EmptySeq DEF Works
<1>2. NoAttempts \in [Items -> {"none", "sending", "done", "retry"}] /\ NothingToRefresh \in [BOOLEAN -> Nat]
  BY DEF NoAttempts, NothingToRefresh
<1>3. stage \in [Items -> {"new", "added", "published"}] /\ stored \subseteq Items
  BY MqueueAssumption DEF Init
<1>4. starts \in 0 .. MaxStarts /\ readied \in 0 .. MaxReady
  BY MqueueAssumption DEF Init
<1>5. QED
  BY <1>1, <1>2, <1>3, <1>4 DEF Init, TypeInv, TypeOK, AtHand

LEMMA TypeInvariant == Spec => []TypeInv
  BY TypeInit, TypeStep, PTL DEF Spec

\* Every variable of the server, of Redis and of the process has its type, for any queue: no more
\* refreshes are taken than were asked for.
THEOREM TypeTheorem == Spec => []TypeOK
<1>1. TypeInv => TypeOK
  BY DEF TypeInv
<1>2. QED
  BY <1>1, TypeInvariant, PTL

-----------------------------------------------------------------------------
(* The server does not fall asleep over its work.                          *)

\* A set of numbers up to n has a greatest element, which Max finds.
LEMMA Highest ==
  ASSUME NEW n \in Nat, NEW S \in SUBSET (0 .. n), S # {}
  PROVE  Max(S) \in S
<1> DEFINE T == {k \in Nat : n - k \in S}
<1>1. T \in SUBSET Nat /\ T # {}
  <2>1. PICK x \in S : TRUE
    OBVIOUS
  <2>2. n - x \in T
    <3>1. x \in 0 .. n
      BY <2>1
    <3>2. n - x \in Nat /\ n - (n - x) = x
      BY <3>1
    <3>3. QED
      BY <2>1, <3>2
  <2>3. QED
    BY <2>2
<1>2. PICK k \in T : \A l \in T : k <= l
  <2> HIDE DEF T
  <2>1. QED
    BY <1>1, Least
<1>3. ASSUME NEW x \in S PROVE n - k >= x
  <2>1. x \in 0 .. n
    BY <1>3
  <2>2. n - x \in Nat /\ n - (n - x) = x
    BY <2>1
  <2>3. n - x \in T
    BY <1>3, <2>2
  <2>4. k <= n - x /\ k \in Nat
    BY <1>2, <2>3
  <2>5. QED
    BY <2>1, <2>4
<1>4. n - k \in S
  BY <1>2
<1>5. QED
  BY <1>3, <1>4, Zenon DEF Max

\* With nothing active, something is found in any work there is: of the channels that were sent to
\* longest ago there is one that comes first.
LEMMA SomethingFound ==
  ASSUME recent \in Seq(Channels), NEW lw \in Works, lw # << >>
  PROVE  FindWork(lw, {}) # {}
<1> DEFINE free == Idle(lw, {})
           last(k) == Max({0} \cup {r \in 1 .. Len(recent) : recent[r] = ChannelOf[lw[k]]})
           sent == [k \in free |-> last(k)]
           places == {k \in free : \A m \in free : sent[k] <= sent[m]}
<1>1. Cardinality({}) = 0 /\ ~(Cardinality({}) >= MaxConcurrent)
  BY FS_EmptySet, MqueueAssumption
<1>2. FindWork(lw, {}) = First(lw, places)
  BY <1>1, Zenon DEF FindWork
<1>3. free \in SUBSET Nat /\ free # {}
  <2>1. Len(lw) \in Nat \ {0}
    BY EmptySeq DEF Works
  <2>2. free = 1 .. Len(lw)
    BY DEF Idle
  <2> HIDE DEF free
  <2>3. QED
    BY <2>1, <2>2
<1>4. ASSUME NEW k \in free PROVE sent[k] \in Nat
  <2> DEFINE R == {0} \cup {r \in 1 .. Len(recent) : recent[r] = ChannelOf[lw[k]]}
  <2>1. Len(recent) \in Nat
    BY LenProperties
  <2>2. R \in SUBSET (0 .. Len(recent)) /\ R # {}
    BY <2>1
  <2> HIDE DEF R
  <2>3. Max(R) \in R
    BY <2>1, <2>2, Highest
  <2>4. R \in SUBSET Nat
    BY <2>1, <2>2
  <2>5. sent[k] = Max(R)
    BY Zenon DEF R
  <2>6. QED
    BY <2>3, <2>4, <2>5
<1> HIDE DEF sent
<1>5. places # {}
  <2> DEFINE T == {sent[k] : k \in free}
  <2>1. T \in SUBSET Nat /\ T # {}
    <3> HIDE DEF free
    <3>1. QED
      BY <1>3, <1>4
  <2>2. PICK n \in T : \A m \in T : n <= m
    <3> HIDE DEF T
    <3>1. QED
      BY <2>1, Least
  <2>3. PICK k \in free : n = sent[k]
    BY <2>2
  <2>4. \A m \in free : sent[k] <= sent[m]
    BY <2>2, <2>3
  <2>5. QED
    BY <2>3, <2>4
<1>6. places \in SUBSET Nat
  BY <1>3
<1> HIDE DEF places
<1>7. PICK k \in places : \A m \in places : k <= m
  BY <1>5, <1>6, Least
<1>8. lw[k] \in First(lw, places)
  BY <1>7 DEF First
<1>9. QED
  BY <1>2, <1>8

\* So once the server has looked for work, it has none or an attempt is under way.
LEMMA LookedForWork ==
  ASSUME recent \in Seq(Channels), NEW lw \in Works, NEW aw, NEW at, RunNextWork(lw, aw, at)
  PROVE  localWork' # << >> => activeWork' # {}
<1>1. localWork' = lw /\ activeWork' = aw \cup FindWork(lw, aw)
  BY Zenon DEF RunNextWork
<1>2. CASE aw = {} /\ lw # << >>
  <2>1. FindWork(lw, aw) # {}
    BY <1>2, SomethingFound
  <2>2. QED
    BY <1>1, <2>1
<1>3. QED
  BY <1>1, <1>2

\* While there is work there is an attempt under way, whose result makes the server look again:
\* whatever order elements, refreshes, ready events and results come in.
THEOREM NeverIdleTheorem == Spec => []NeverIdle
<1>1. Init => NeverIdle
  BY DEF Init, NeverIdle
<1>2. TypeInv /\ TypeInv' /\ NeverIdle /\ [Next]_vars => NeverIdle'
  <2> SUFFICES ASSUME TypeInv, TypeInv', NeverIdle, [Next]_vars PROVE NeverIdle'
    OBVIOUS
  <2>1. ASSUME NEW aw, NEW at, RunNextWork(localWork', aw, at) PROVE NeverIdle'
    <3>1. recent \in Seq(Channels) /\ localWork' \in Works
      BY DEF TypeInv, TypeOK
    <3>2. QED
      BY <2>1, <3>1, LookedForWork DEF NeverIdle
  <2>2. ASSUME NEW lw, NEW aw, NEW at, RunNextWork(lw, aw, at) PROVE NeverIdle'
    <3>1. localWork' = lw
      BY <2>2, Zenon DEF RunNextWork
    <3>2. QED
      BY <2>1, <2>2, <3>1
  <2>3. ASSUME NEW force \in BOOLEAN, Refresh(force) PROVE NeverIdle'
    BY <2>2, <2>3, Zenon DEF Refresh
  <2>4. ASSUME UNCHANGED <<localWork, activeWork>>, up' = "running" => up = "running" PROVE NeverIdle'
    BY <2>4 DEF NeverIdle
  <2>5. CASE AddWork
    <3>1. up' = up /\ (UNCHANGED <<localWork, activeWork>> \/ \E lw : RunNextWork(lw, activeWork, attempt))
      BY <2>5, Zenon DEF AddWork, AddLocal, AddForeign, processVars, sendVars
    <3>2. QED
      BY <2>2, <2>4, <3>1
  <2>6. ASSUME NEW i \in Items, FinishWork(i) PROVE NeverIdle'
    BY <2>2, <2>6, Zenon DEF FinishWork
  <2>7. ASSUME NEW i \in Items, Add(i) \/ Publish(i) \/ Send(i) \/ Fail(i) PROVE NeverIdle'
    BY <2>4, <2>7, Zenon DEF Add, Publish, Send, Fail, processVars, workVars, sendVars
  <2>8. CASE ClearTotalWork \/ CleanRecentSentTimes \/ Subscribe \/ StopBot
    BY <2>4, <2>8 DEF ClearTotalWork, CleanRecentSentTimes, Subscribe, StopBot, processVars, workVars, sendVars
  <2>9. ASSUME NEW s \in Shards, ShardReady(s) \/ ShardRemoved(s) PROVE NeverIdle'
    BY <2>4, <2>9, Zenon DEF ShardReady, ShardRemoved, workVars, sendVars
  <2>10. CASE Start
    BY <2>10 DEF Start, workVars, TypeInv, AtHand, NeverIdle
  <2>11. CASE Exit
    BY <2>11 DEF Exit, NeverIdle
  <2>12. CASE UNCHANGED vars
    BY <2>4, <2>12, Zenon DEF vars, processVars, workVars, sendVars
  <2>13. QED
    BY <2>3, <2>5, <2>6, <2>7, <2>8, <2>9, <2>10, <2>11, <2>12, Zenon DEF Next, ServerStep
<1>3. QED
  BY <1>1, <1>2, TypeInvariant, PTL DEF Spec

-----------------------------------------------------------------------------
(* What the server knows.                                                  *)

\* Elements that nobody will tell the server of any more.
Told == {i \in stored : stage[i] = "published" /\ i \notin ToSet(pushes)}

\* Once the forced refresh is done, such an element is in the copy of the queue, if there is one,
\* or work already; with no ready event on its way either, it is work if its shard is ready.
KnownInv == up = "running" /\ subscribed /\ refreshWork[TRUE] = 0 =>
              /\ totalPresent => Told \subseteq ToSet(totalWork) \cup ToSet(localWork)
              /\ refreshWork[FALSE] = 0 => {i \in Told : ShardOf[i] \in ready} \subseteq ToSet(localWork)

\* A refresh looks at everything the server was not told of.
LEMMA RefreshKnows ==
  ASSUME TypeInv, KnownInv, NEW force \in BOOLEAN, Refresh(force)
  PROVE  KnownInv'
<1>1. /\ ToSet(localWork') = ToSet(localWork) \cup {i \in ToSet(totalWork') : ShardOf[i] \in ready}
      /\ IF force \/ ~totalPresent THEN ToSet(totalWork') = stored ELSE totalWork' = totalWork
  BY Refreshing
<1>2. /\ refreshWork[force] > 0 /\ refreshWork' = [refreshWork EXCEPT ![force] = @ - 1]
      /\ UNCHANGED <<stage, stored, pushes, up, subscribed, ready>>
  BY Zenon DEF Refresh, redisVars, processVars
<1>3. Told' = Told /\ Told \subseteq stored
  BY <1>2 DEF Told
<1>4. CASE force \/ ~totalPresent
  <2>1. Told' \subseteq ToSet(totalWork')
    BY <1>1, <1>3, <1>4
  <2>2. QED
    BY <1>1, <1>2, <2>1 DEF KnownInv
<1>5. CASE ~force /\ totalPresent
  <2>1. refreshWork'[TRUE] = refreshWork[TRUE]
    BY <1>2, <1>5 DEF TypeInv, TypeOK
  <2>2. totalWork' = totalWork
    BY <1>1, <1>5
  <2>3. up = "running" /\ subscribed /\ refreshWork[TRUE] = 0 => Told' \subseteq ToSet(totalWork') \cup ToSet(localWork)
    BY <1>3, <1>5, <2>2 DEF KnownInv
  <2>4. ToSet(localWork) \subseteq ToSet(localWork')
    BY <1>1
  <2>5. ASSUME up' = "running", subscribed', refreshWork'[TRUE] = 0
        PROVE  /\ Told' \subseteq ToSet(totalWork') \cup ToSet(localWork')
               /\ {i \in Told' : ShardOf[i] \in ready'} \subseteq ToSet(localWork')
    BY <1>1, <1>2, <2>1, <2>3, <2>4, <2>5
  <2>6. QED
    BY <2>5 DEF KnownInv
<1>6. QED
  BY <1>4, <1>5

\* An element that arrives becomes work, or is added to the copy until its shard is ready.
LEMMA ArrivalKnown ==
  ASSUME TypeInv, KnownInv, AddWork
  PROVE  KnownInv'
<1> DEFINE i == Head(pushes)
<1>1. /\ ToSet(pushes) = ToSet(pushes') \cup {i}
      /\ ToSet(localWork') = IF ShardOf[i] \in ready THEN ToSet(localWork) \cup {i} ELSE ToSet(localWork)
      /\ ToSet(totalWork') = IF ShardOf[i] \notin ready /\ totalPresent
                               THEN ToSet(totalWork) \cup {i} ELSE ToSet(totalWork)
  BY Arriving
<1>2. /\ UNCHANGED <<stage, stored, up, subscribed, ready, refreshWork>>
      /\ totalPresent' = totalPresent
  BY Zenon DEF AddWork, AddLocal, AddForeign, processVars
<1> HIDE DEF i
<1>3. Told' \subseteq Told \cup {i}
  BY <1>1, <1>2 DEF Told
<1>4. QED
  BY <1>1, <1>2, <1>3 DEF KnownInv

\* An element that is deleted from Redis is deleted everywhere, and no other one.
LEMMA ResultKnown ==
  ASSUME TypeInv, KnownInv, NEW i \in Items, FinishWork(i)
  PROVE  KnownInv'
<1>1. /\ ~totalPresent => totalWork' = totalWork
      /\ IF attempt[i] = "done"
           THEN /\ stored' = stored \ {i}
                /\ ToSet(localWork') = ToSet(localWork) \ {i}
                /\ totalPresent => ToSet(totalWork') = ToSet(totalWork) \ {i}
           ELSE UNCHANGED <<stored, localWork, totalWork>>
  BY Finishing
<1>2. UNCHANGED <<stage, pushes, up, subscribed, ready, refreshWork, totalPresent>>
  BY Zenon DEF FinishWork, processVars
<1>3. CASE attempt[i] = "done"
  <2>1. Told' = Told \ {i}
    BY <1>1, <1>2, <1>3 DEF Told
  <2>2. QED
    BY <1>1, <1>2, <1>3, <2>1 DEF KnownInv
<1>4. CASE attempt[i] # "done"
  <2>1. Told' = Told /\ UNCHANGED <<localWork, totalWork>>
    BY <1>1, <1>2, <1>4 DEF Told
  <2>2. QED
    BY <1>2, <2>1 DEF KnownInv
<1>5. QED
  BY <1>3, <1>4

\* Producers tell the server of what they store, once it listens.
LEMMA ProducersTell ==
  ASSUME TypeInv, KnownInv, NEW i \in Items, Add(i) \/ Publish(i) \/ Send(i) \/ Fail(i)
  PROVE  KnownInv'
<1>1. UNCHANGED <<up, subscribed, ready, refreshWork, totalPresent, totalWork, localWork>>
  BY Zenon DEF Add, Publish, Send, Fail, processVars, workVars
<1>2. CASE Add(i)
  <2>1. stage' = [stage EXCEPT ![i] = "added"] /\ stored' = stored \cup {i} /\ pushes' = pushes
    BY <1>2 DEF Add
  <2>2. Told' \subseteq Told
    BY <2>1 DEF Told, TypeInv, TypeOK
  <2>3. QED
    BY <1>1, <2>2 DEF KnownInv
<1>3. CASE Publish(i)
  <2>1. /\ stage' = [stage EXCEPT ![i] = "published"] /\ stored' = stored
        /\ pushes' = IF subscribed THEN Append(pushes, i) ELSE pushes
    BY <1>3 DEF Publish
  <2>2. ToSet(Append(pushes, i)) = ToSet(pushes) \cup {i}
    BY Queueing DEF TypeInv, TypeOK
  <2>3. CASE subscribed
    <3>1. ToSet(pushes') = ToSet(pushes) \cup {i}
      BY <2>1, <2>2, <2>3
    <3>2. Told' \subseteq Told
      BY <2>1, <3>1 DEF Told, TypeInv, TypeOK
    <3>3. QED
      BY <1>1, <3>2 DEF KnownInv
  <2>4. CASE ~subscribed
    BY <1>1, <2>4 DEF KnownInv
  <2>5. QED
    BY <2>3, <2>4
<1>4. CASE Send(i) \/ Fail(i)
  <2>1. UNCHANGED <<stage, stored, pushes>>
    BY <1>4 DEF Send, Fail, redisVars
  <2>2. Told' = Told
    BY <2>1 DEF Told
  <2>3. QED
    BY <1>1, <2>2 DEF KnownInv
<1>5. QED
  BY <1>2, <1>3, <1>4

\* A shard that becomes ready, or a process that starts to listen, has a refresh on its way.
LEMMA ProcessKnows ==
  ASSUME TypeInv, KnownInv,
         \/ Start \/ Subscribe \/ StopBot \/ Exit \/ ClearTotalWork \/ CleanRecentSentTimes
         \/ \E s \in Shards : ShardReady(s) \/ ShardRemoved(s)
  PROVE  KnownInv'
<1>1. CASE Start
  BY <1>1 DEF Start, KnownInv, TypeInv, AtHand
<1>2. CASE Subscribe
  <2>1. refreshWork'[TRUE] = refreshWork[TRUE] + 1 /\ refreshWork[TRUE] \in Nat
    BY <1>2 DEF Subscribe, TypeInv, TypeOK
  <2>2. refreshWork'[TRUE] # 0
    <3>1. \A n \in Nat : n + 1 # 0
      OBVIOUS
    <3>2. QED
      BY <2>1, <3>1, Zenon
  <2>3. QED
    BY <2>2 DEF KnownInv
<1>3. CASE StopBot \/ Exit
  BY <1>3 DEF StopBot, Exit, KnownInv
<1>4. CASE ClearTotalWork \/ CleanRecentSentTimes
  <2>1. /\ UNCHANGED <<stage, stored, pushes, up, subscribed, ready, refreshWork, localWork>>
        /\ totalPresent' => UNCHANGED <<totalPresent, totalWork>>
    BY <1>4 DEF ClearTotalWork, CleanRecentSentTimes, redisVars, processVars, workVars
  <2>2. Told' = Told
    BY <2>1 DEF Told
  <2>3. QED
    BY <2>1, <2>2 DEF KnownInv
<1>5. ASSUME NEW s \in Shards, ShardReady(s) PROVE KnownInv'
  <2>1. /\ UNCHANGED <<stage, stored, pushes, up, subscribed, totalPresent, totalWork, localWork>>
        /\ up = "running" => refreshWork' = [refreshWork EXCEPT ![FALSE] = @ + 1]
    BY <1>5 DEF ShardReady, redisVars, workVars
  <2>2. Told' = Told
    BY <2>1 DEF Told
  <2>3. up = "running" => refreshWork'[TRUE] = refreshWork[TRUE] /\ refreshWork'[FALSE] # 0
    <3>1. refreshWork \in [BOOLEAN -> Nat]
      BY DEF TypeInv, TypeOK
    <3>2. up = "running" => /\ refreshWork'[TRUE] = refreshWork[TRUE]
                            /\ refreshWork'[FALSE] = refreshWork[FALSE] + 1
      BY <2>1, <3>1
    <3>3. refreshWork[FALSE] \in Nat
      BY <3>1, Zenon
    <3>4. \A n \in Nat : n + 1 # 0
      OBVIOUS
    <3>5. QED
      BY <3>2, <3>3, <3>4, Zenon
  <2>4. QED
    BY <2>1, <2>2, <2>3 DEF KnownInv
<1>6. ASSUME NEW s \in Shards, ShardRemoved(s) PROVE KnownInv'
  <2>1. /\ UNCHANGED <<stage, stored, pushes, up, subscribed, refreshWork, totalPresent, totalWork, localWork>>
        /\ ready' \subseteq ready
    BY <1>6 DEF ShardRemoved, redisVars, workVars
  <2>2. Told' = Told
    BY <2>1 DEF Told
  <2>3. QED
    BY <2>1, <2>2 DEF KnownInv
<1>7. QED
  BY <1>1, <1>2, <1>3, <1>4, <1>5, <1>6

\* No element falls between the copy of the queue, the pubsub messages and the ready events: the
\* server has every element it should send once nothing is on its way to it.
THEOREM WorkKnownTheorem == Spec => []WorkKnown
<1>1. Init => KnownInv
  BY DEF Init, KnownInv
<1>2. TypeInv /\ KnownInv /\ [Next]_vars => KnownInv'
  <2> SUFFICES ASSUME TypeInv, KnownInv, [Next]_vars PROVE KnownInv'
    OBVIOUS
  <2>1. CASE UNCHANGED vars
    BY <2>1 DEF vars, redisVars, processVars, workVars, sendVars, KnownInv, Told
  <2>2. CASE ServerStep
    <3>1. Refresh(TRUE) => KnownInv'
      BY RefreshKnows
    <3>2. Refresh(FALSE) => KnownInv'
      BY RefreshKnows
    <3>3. QED
      BY <2>2, <3>1, <3>2, ArrivalKnown, ResultKnown DEF ServerStep
  <2>3. CASE Next /\ ~ServerStep
    BY <2>3, ProducersTell, ProcessKnows DEF Next
  <2>4. QED
    BY <2>1, <2>2, <2>3
<1>3. KnownInv => WorkKnown
  BY DEF KnownInv, WorkKnown, Told
<1>4. QED
  BY <1>1, <1>2, <1>3, TypeInvariant, PTL DEF Spec

-----------------------------------------------------------------------------
(* What comes back after it was sent.                                      *)

\* An element that is not in Redis any more becomes work again, or is counted as such, only when its
\* pubsub message comes after a refresh had it sent: no refresh, result or restart brings it back.
THEOREM OnlyLatePushesReviveTheorem == Spec => OnlyLatePushesRevive
<1> DEFINE Revives == \A i \in Remembered' \ stored' :
                        \/ i \in Remembered \ stored
                        \/ pushes # << >> /\ i = Head(pushes) /\ pushes' = Tail(pushes)
<1>1. TypeInv /\ [Next]_vars => [Revives]_vars
  <2> SUFFICES ASSUME TypeInv, [Next]_vars PROVE Revives
    OBVIOUS
  <2>1. ASSUME UNCHANGED <<localWork, totalWork>>, stored \subseteq stored' PROVE Revives
    BY <2>1 DEF Remembered
  <2>2. ASSUME NEW force \in BOOLEAN, Refresh(force) PROVE Revives
    <3>1. /\ ToSet(localWork') = ToSet(localWork) \cup {i \in ToSet(totalWork') : ShardOf[i] \in ready}
          /\ ToSet(totalWork') = stored \/ totalWork' = totalWork
      BY <2>2, Refreshing
    <3>2. stored' = stored
      BY <2>2, Zenon DEF Refresh, redisVars
    <3>3. QED
      BY <3>1, <3>2 DEF Remembered
  <2>3. CASE AddWork
    <3>1. /\ ToSet(localWork') \subseteq ToSet(localWork) \cup {Head(pushes)}
          /\ ToSet(totalWork') \subseteq ToSet(totalWork) \cup {Head(pushes)}
      BY <2>3, Arriving
    <3>2. stored' = stored /\ pushes # << >> /\ pushes' = Tail(pushes)
      BY <2>3, Zenon DEF AddWork
    <3>3. QED
      BY <3>1, <3>2 DEF Remembered
  <2>4. ASSUME NEW i \in Items, FinishWork(i) PROVE Revives
    <3>1. /\ ~totalPresent => totalWork = << >> /\ totalWork' = totalWork
          /\ IF attempt[i] = "done"
               THEN /\ stored' = stored \ {i}
                    /\ ToSet(localWork') = ToSet(localWork) \ {i}
                    /\ totalPresent => ToSet(totalWork') = ToSet(totalWork) \ {i}
               ELSE UNCHANGED <<stored, localWork, totalWork>>
      BY <2>4, Finishing DEF TypeInv, AtHand
    <3>2. ToSet(<< >>) = {}
      BY DEF ToSet
    <3>3. QED
      BY <3>1, <3>2 DEF Remembered
  <2>5. ASSUME NEW i \in Items, Add(i) \/ Publish(i) \/ Send(i) \/ Fail(i) PROVE Revives
    <3>1. UNCHANGED <<localWork, totalWork>>
      BY <2>5, Zenon DEF Add, Publish, Send, Fail, workVars
    <3>2. stored \subseteq stored'
      BY <2>5 DEF Add, Publish, Send, Fail, redisVars
    <3>3. QED
      BY <2>1, <3>1, <3>2
  <2>6. CASE ClearTotalWork \/ Exit
    <3>1. totalWork' = << >> /\ localWork' \in {localWork, << >>} /\ stored' = stored
      BY <2>6 DEF ClearTotalWork, Exit, redisVars
    <3>2. ToSet(<< >>) = {}
      BY DEF ToSet
    <3>3. QED
      BY <3>1, <3>2 DEF Remembered
  <2>7. CASE CleanRecentSentTimes \/ Start \/ Subscribe \/ StopBot
    BY <2>1, <2>7 DEF CleanRecentSentTimes, Start, Subscribe, StopBot, redisVars, workVars
  <2>8. ASSUME NEW s \in Shards, ShardReady(s) \/ ShardRemoved(s) PROVE Revives
    BY <2>1, <2>8, Zenon DEF ShardReady, ShardRemoved, redisVars, workVars
  <2>9. CASE UNCHANGED vars
    BY <2>1, <2>9 DEF vars, redisVars, workVars
  <2> HIDE DEF Revives
  <2>10. QED
    BY <2>2, <2>3, <2>4, <2>5, <2>6, <2>7, <2>8, <2>9, Zenon DEF Next, ServerStep
<1>2. QED
  BY <1>1, TypeInvariant, PTL DEF Spec, OnlyLatePushesRevive
=============================================================================
