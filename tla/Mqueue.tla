-------------------------------- MODULE Mqueue --------------------------------
(***************************************************************************)
(* common/mqueue: messages that feeds queue in Redis and one bot process   *)
(* sends.  MqueueServer.Run is one goroutine that selects on channels, so  *)
(* each case of its select is one atomic step; producers, the goroutine    *)
(* that reads the pubsub connection, the shards' ready events, the timers  *)
(* that forget the cached queue and one goroutine for each attempt to send *)
(* run beside it.                                                          *)
(***************************************************************************)
EXTENDS Integers, SequencesExt, Filter

CONSTANTS Items,          \* queued elements, by ID
          Channels,       \* Discord channels
          Shards,
          ChannelOf, ShardOf,
          StoredOrder,    \* how Redis orders the elements: by their bytes, not their age
          Backlog,        \* elements left in Redis by earlier processes
          Failing,        \* elements an attempt to send may fail for, to be tried again
          MaxConcurrent,  \* yagpdb.mqueue.max_concurrent_sends
          MaxReady,       \* bound: times a shard becomes ready
          MaxStarts       \* bound: bot processes, one after the other

ASSUME MqueueAssumption == /\ ChannelOf \in [Items -> Channels]
                           /\ ShardOf \in [Items -> Shards]
                           \* A channel is in one guild, a guild in one shard.
                           /\ \A i, j \in Items : ChannelOf[i] = ChannelOf[j] => ShardOf[i] = ShardOf[j]
                           /\ StoredOrder \in Seq(Items) /\ ToSet(StoredOrder) = Items
                           /\ Backlog \subseteq Items
                           /\ Failing \subseteq Items
                           /\ MaxConcurrent \in Nat \ {0}
                           /\ MaxReady \in Nat /\ MaxStarts \in Nat

VARIABLES
  \* Redis and the producers
  stage,         \* how far QueueMessage is with an element
  stored,        \* the sorted set "mqueue"
  pushes,        \* elements published and not yet read by this process
  settled,       \* history: elements that were sent, or refused by Discord for good
  \* the process
  up,            \* "down", "running", or "stopped" by StopBot
  starts,        \* processes so far
  subscribed,    \* the pubsub connection is subscribed
  ready,         \* shards whose gateway is ready, readyTracker.receivedReadyOrResume
  readied,       \* ready events so far
  \* MqueueServer
  refreshWork,   \* goroutines waiting to send TRUE or FALSE on refreshWork
  clears,        \* timers of refreshTotalWork that have not fired
  totalPresent, totalWork, localWork, activeWork,
  recent,        \* channels of recentSentTimes, the one sent to longest ago first
  attempt        \* where ProcessItem is with an element

redisVars == <<stage, stored, pushes, settled>>
processVars == <<up, starts, subscribed, ready, readied>>
workVars == <<totalPresent, totalWork, localWork>>
sendVars == <<activeWork, recent, attempt>>
vars == <<redisVars, processVars, refreshWork, clears, workVars, sendVars>>

Works == Seq(Items)
TypeOK == /\ stage \in [Items -> {"new", "added", "published"}]
          /\ stored \subseteq Items
          /\ pushes \in Works
          /\ settled \subseteq Items
          /\ up \in {"down", "running", "stopped"}
          /\ starts \in 0 .. MaxStarts
          /\ subscribed \in BOOLEAN
          /\ ready \subseteq Shards
          /\ readied \in 0 .. MaxReady
          /\ refreshWork \in [BOOLEAN -> Nat]
          /\ clears \in Nat
          /\ totalPresent \in BOOLEAN
          /\ totalWork \in Works /\ localWork \in Works
          /\ activeWork \subseteq Items
          /\ recent \in Seq(Channels)
          /\ attempt \in [Items -> {"none", "sending", "done", "retry"}]

NothingToRefresh == [force \in BOOLEAN |-> 0]
NoAttempts == [i \in Items |-> "none"]

Init == /\ stage = [i \in Items |-> IF i \in Backlog THEN "published" ELSE "new"]
        /\ stored = Backlog /\ pushes = <<>> /\ settled = {}
        /\ up = "down" /\ starts = 0 /\ subscribed = FALSE
        /\ ready = {} /\ readied = 0
        /\ refreshWork = NothingToRefresh /\ clears = 0
        /\ totalPresent = FALSE /\ totalWork = <<>> /\ localWork = <<>>
        /\ activeWork = {} /\ recent = <<>> /\ attempt = NoAttempts

-----------------------------------------------------------------------------
(* Producers: AppendItem adds to the sorted set, then publishes.           *)

Add(i) == /\ stage[i] = "new"
          /\ stage' = [stage EXCEPT ![i] = "added"]
          /\ stored' = stored \cup {i}
          /\ UNCHANGED <<pushes, settled, processVars, refreshWork, clears, workVars, sendVars>>

Publish(i) == /\ stage[i] = "added"
              /\ stage' = [stage EXCEPT ![i] = "published"]
              /\ pushes' = IF subscribed THEN Append(pushes, i) ELSE pushes
              /\ UNCHANGED <<stored, settled, processVars, refreshWork, clears, workVars, sendVars>>

-----------------------------------------------------------------------------
(* Choosing what to send next.                                             *)

\* The places in lw of elements whose channel nothing is being sent to.
Idle(lw, aw) == {k \in 1 .. Len(lw) : \A a \in aw : ChannelOf[a] # ChannelOf[lw[k]]}
First(lw, places) == {lw[k] : k \in {k \in places : \A m \in places : k <= m}}

\* Mutant: the first one, whatever was sent lately.
FindWorkInOrder(lw, aw) ==
  IF Cardinality(aw) >= MaxConcurrent THEN {} ELSE First(lw, Idle(lw, aw))

\* Mutant: only the element itself must not be active.
FindWorkSharing(lw, aw) ==
  IF Cardinality(aw) >= MaxConcurrent THEN {} ELSE First(lw, {k \in 1 .. Len(lw) : lw[k] \notin aw})

\* findWork: among the elements whose channel nothing is being sent to, the first one of
\* an unmentioned channel, or else of the channel that was sent to longest ago.
FindWork(lw, aw) ==
  LET free == Idle(lw, aw)
      sent == [k \in free |-> Max({0} \cup {r \in 1 .. Len(recent) : recent[r] = ChannelOf[lw[k]]})] IN
  IF Cardinality(aw) >= MaxConcurrent THEN {}
  ELSE First(lw, {k \in free : \A m \in free : sent[k] <= sent[m]})

\* checkRunNextWork on local work lw, active work aw and attempts at: one element at most
\* is handed to a goroutine of its own.
RunNextWork(lw, aw, at) ==
  \E work \in {lw} : \E next \in {FindWork(work, aw)} :
  /\ localWork' = work
  /\ activeWork' = aw \cup next
  /\ attempt' = [i \in Items |-> IF i \in next THEN "sending" ELSE at[i]]
  /\ IF next = {} THEN recent' = recent
     ELSE \E i \in next : recent' = Append(Only(recent, Channels \ {ChannelOf[i]}), ChannelOf[i])

-----------------------------------------------------------------------------
(* MqueueServer.Run.                                                       *)

\* Elements of s that lw does not have yet.
Missing(s, lw) == Only(s, Items \ ToSet(lw))
Local(s) == Only(s, {i \in Items : ShardOf[i] \in ready})

\* removeFromWorkSlice: s without i.
Without(s, i) == Only(s, Items \ {i})

\* Mutant: nobody asked.
RefreshUnasked(force) ==
  /\ up = "running"
  /\ refreshWork' = [refreshWork EXCEPT ![force] = @ - 1]
  /\ totalWork' = Only(StoredOrder, stored)
  /\ totalPresent' = TRUE
  /\ clears' = clears + 1
  /\ RunNextWork(localWork \o Missing(Local(totalWork'), localWork), activeWork, attempt)
  /\ UNCHANGED <<redisVars, processVars>>

\* doRefreshWork: the whole queue is fetched when forced or when no copy is at hand, and
\* what belongs to a ready shard becomes local work.
Refresh(force) ==
  LET fetch == force \/ ~totalPresent
      total == IF fetch THEN Only(StoredOrder, stored) ELSE totalWork IN
  /\ up = "running"
  /\ refreshWork[force] > 0
  /\ refreshWork' = [refreshWork EXCEPT ![force] = @ - 1]
  /\ totalWork' = total
  /\ totalPresent' = TRUE
  /\ clears' = IF fetch THEN clears + 1 ELSE clears
  /\ RunNextWork(localWork \o Missing(Local(total), localWork), activeWork, attempt)
  /\ UNCHANGED <<redisVars, processVars>>

\* A timer of refreshTotalWork fires, some time after its minute.
ClearTotalWork == /\ up = "running"
                  /\ clears > 0
                  /\ clears' = clears - 1
                  /\ totalWork' = <<>>
                  /\ totalPresent' = FALSE
                  /\ UNCHANGED <<redisVars, processVars, refreshWork, localWork, sendVars>>

\* Mutant: an element of a shard that is not ready is forgotten.
AddForeignForgets(i) == i \in Items /\ UNCHANGED <<workVars, sendVars>>

\* addWork for an element of a shard that is not ready: the copy of the queue is kept
\* up to date.
AddForeign(i) == /\ totalWork' = IF totalPresent THEN totalWork \o Missing(<<i>>, totalWork) ELSE totalWork
                 /\ UNCHANGED <<totalPresent, localWork, sendVars>>

AddLocal(i) == /\ IF i \in ToSet(localWork) THEN UNCHANGED <<localWork, sendVars>>
                  ELSE RunNextWork(Append(localWork, i), activeWork, attempt)
               /\ UNCHANGED <<totalPresent, totalWork>>

\* A published element arrives.  The reader of the pubsub connection has handed in its
\* forced refresh first.
AddWork == /\ up = "running"
           /\ pushes # <<>> /\ refreshWork[TRUE] = 0
           /\ pushes' = Tail(pushes)
           /\ LET i == Head(pushes) IN IF ShardOf[i] \in ready THEN AddLocal(i) ELSE AddForeign(i)
           /\ UNCHANGED <<stage, stored, settled, processVars, refreshWork, clears>>

\* Mutant: a failed element is deleted as well.
FinishWorkDeletes(i) ==
  /\ up = "running"
  /\ attempt[i] \in {"done", "retry"}
  /\ stored' = stored \ {i}
  /\ totalWork' = IF totalPresent THEN Without(totalWork, i) ELSE totalWork
  /\ RunNextWork(Without(localWork, i), activeWork \ {i}, [attempt EXCEPT ![i] = "none"])
  /\ UNCHANGED <<stage, pushes, settled, processVars, refreshWork, clears, totalPresent>>

\* Mutant: nothing else is started when an element failed.
FinishWorkIdles(i) ==
  /\ up = "running"
  /\ attempt[i] \in {"done", "retry"}
  /\ activeWork' = activeWork \ {i}
  /\ attempt' = [attempt EXCEPT ![i] = "none"]
  /\ IF attempt[i] = "retry" THEN UNCHANGED <<stored, workVars>>
     ELSE /\ stored' = stored \ {i}
          /\ totalWork' = IF totalPresent THEN Without(totalWork, i) ELSE totalWork
          /\ localWork' = Without(localWork, i)
          /\ UNCHANGED totalPresent
  /\ UNCHANGED <<stage, pushes, settled, processVars, refreshWork, clears, recent>>

\* Mutant: the copy of the queue keeps the element.
FinishWorkKeepsCopy(i) ==
  LET done == attempt[i] = "done" IN
  /\ up = "running"
  /\ attempt[i] \in {"done", "retry"}
  /\ stored' = IF done THEN stored \ {i} ELSE stored
  /\ RunNextWork(IF done THEN Without(localWork, i) ELSE localWork, activeWork \ {i},
                 [attempt EXCEPT ![i] = "none"])
  /\ UNCHANGED <<stage, pushes, settled, processVars, refreshWork, clears, totalPresent, totalWork>>

\* finishWork: an element that need not be tried again is deleted everywhere.
FinishWork(i) ==
  LET done == attempt[i] = "done" IN
  /\ up = "running"
  /\ attempt[i] \in {"done", "retry"}
  /\ stored' = IF done THEN stored \ {i} ELSE stored
  /\ totalWork' = IF done /\ totalPresent THEN Without(totalWork, i) ELSE totalWork
  /\ RunNextWork(IF done THEN Without(localWork, i) ELSE localWork, activeWork \ {i},
                 [attempt EXCEPT ![i] = "none"])
  /\ UNCHANGED <<stage, pushes, settled, processVars, refreshWork, clears, totalPresent>>

\* cleanRecentSentTimes forgets the channels whose last attempt began more than a minute
\* ago, one of an attempt that is still under way too.
CleanRecentSentTimes ==
  /\ up = "running"
  /\ recent # <<>>
  /\ recent' = Tail(recent)
  /\ UNCHANGED <<redisVars, processVars, refreshWork, clears, workVars, activeWork, attempt>>

-----------------------------------------------------------------------------
(* ProcessItem: sent or refused for good, or to be tried again.  It goes   *)
(* on when the server has stopped, and nobody takes its result.            *)

Send(i) == /\ attempt[i] = "sending"
           /\ attempt' = [attempt EXCEPT ![i] = "done"]
           /\ settled' = settled \cup {i}
           /\ UNCHANGED <<stage, stored, pushes, processVars, refreshWork, clears, workVars,
                          activeWork, recent>>

Fail(i) == /\ attempt[i] = "sending" /\ i \in Failing
           /\ attempt' = [attempt EXCEPT ![i] = "retry"]
           /\ UNCHANGED <<redisVars, processVars, refreshWork, clears, workVars, activeWork, recent>>

-----------------------------------------------------------------------------
(* The process and its shards.                                             *)

\* LateBotInit starts the server, and the goroutine that subscribes.
Start == /\ up = "down" /\ starts < MaxStarts
         /\ up' = "running"
         /\ starts' = starts + 1
         /\ UNCHANGED <<redisVars, subscribed, ready, readied, refreshWork, clears, workVars, sendVars>>

\* RedisPushServer.run: from now on published elements come in, and a forced refresh
\* fetches what was queued before.
Subscribe == /\ up = "running" /\ ~subscribed
             /\ subscribed' = TRUE
             /\ refreshWork' = [refreshWork EXCEPT ![TRUE] = @ + 1]
             /\ UNCHANGED <<redisVars, up, starts, ready, readied, clears, workVars, sendVars>>

\* A shard becomes ready; its event reaches the server if there is one.
ShardReady(s) == /\ s \notin ready /\ readied < MaxReady
                 /\ ready' = ready \cup {s}
                 /\ readied' = readied + 1
                 /\ refreshWork' = IF up = "down" THEN refreshWork
                                   ELSE [refreshWork EXCEPT ![FALSE] = @ + 1]
                 /\ UNCHANGED <<redisVars, up, starts, subscribed, clears, workVars, sendVars>>

ShardRemoved(s) == /\ s \in ready
                   /\ ready' = ready \ {s}
                   /\ UNCHANGED <<redisVars, up, starts, subscribed, readied, refreshWork, clears,
                                  workVars, sendVars>>

StopBot == /\ up = "running"
           /\ up' = "stopped"
           /\ UNCHANGED <<redisVars, starts, subscribed, ready, readied, refreshWork, clears,
                          workVars, sendVars>>

\* The process ends, after StopBot or in a crash; Redis keeps the queue.
Exit == /\ up # "down"
        /\ up' = "down" /\ subscribed' = FALSE /\ pushes' = <<>>
        /\ ready' = {}
        /\ refreshWork' = NothingToRefresh /\ clears' = 0
        /\ totalPresent' = FALSE /\ totalWork' = <<>> /\ localWork' = <<>>
        /\ activeWork' = {} /\ recent' = <<>> /\ attempt' = NoAttempts
        /\ UNCHANGED <<stage, stored, settled, starts, readied>>

ServerStep == Refresh(TRUE) \/ Refresh(FALSE) \/ AddWork \/ \E i \in Items : FinishWork(i)
Next == \/ \E i \in Items : Add(i) \/ Publish(i) \/ Send(i) \/ Fail(i)
        \/ ServerStep \/ ClearTotalWork \/ CleanRecentSentTimes
        \/ Start \/ Subscribe \/ StopBot \/ Exit
        \/ \E s \in Shards : ShardReady(s) \/ ShardRemoved(s)
Spec == Init /\ [][Next]_vars

-----------------------------------------------------------------------------
\* An element is in Redis until it was sent or refused for good, through crashes too.
NothingLost == \A i \in Items : stage[i] # "new" => i \in stored \/ i \in settled

Attempted == {i \in Items : attempt[i] # "none"}

\* "Don't send 2 messages in a channel at the same time", and no more attempts at once
\* than configured.
AttemptsApart == /\ \A i, j \in Attempted : ChannelOf[i] = ChannelOf[j] => i = j
                 /\ Cardinality(Attempted) <= MaxConcurrent

\* Work is only looked for when something happens: while there is any, an attempt is
\* under way whose result will make the server look again.
NeverIdle == up = "running" /\ localWork # <<>> => activeWork # {}

\* The server knows every element it has to send once nothing is on its way to it: none
\* falls between the refresh, the pubsub messages and the ready events.
WorkKnown == up = "running" /\ subscribed /\ (\A force \in BOOLEAN : refreshWork[force] = 0) =>
  \A i \in stored : stage[i] = "published" /\ ShardOf[i] \in ready /\ i \notin ToSet(pushes)
                      => i \in ToSet(localWork)

\* An element that is not in Redis any more is work, or counted as such, only because its
\* pubsub message came after it had been sent from a refresh.
Remembered == ToSet(localWork) \cup ToSet(totalWork)
OnlyLatePushesRevive ==
  [][\A i \in Remembered' \ stored' :
       \/ i \in Remembered \ stored
       \/ pushes # <<>> /\ i = Head(pushes) /\ pushes' = Tail(pushes)]_vars

-----------------------------------------------------------------------------
(* Liveness.  Every goroutine goes on: the reader of the pubsub connection, *)
(* the handlers of ready events, and each attempt, which ends and hands in *)
(* its result.                                                             *)

PubSubReader == Subscribe \/ Refresh(TRUE) \/ AddWork
Attempt(i) == Send(i) \/ Fail(i) \/ FinishWork(i)
Fairness == /\ WF_vars(PubSubReader) /\ WF_vars(Refresh(FALSE))
            /\ \A i \in Items : WF_vars(Attempt(i))
FairSpec == Spec /\ Fairness

Waiting(i) == i \in stored /\ stage[i] = "published" /\ up = "running" /\ ShardOf[i] \in ready
ToBeSent == {i \in Items : \A f \in Failing : ChannelOf[f] # ChannelOf[i]}

\* The time of an attempt is forgotten while the attempt goes on.
ForgetsActive == /\ up = "running" /\ up' = "running"
                 /\ \E a \in activeWork : ChannelOf[a] \in ToSet(recent) \ ToSet(recent')

\* Elements that fail again and again do not keep those of other channels from being sent,
\* unless their attempts, again and again, outlast the minute after which they are forgotten.
\* The channel of such an attempt counts as one that was never sent to, and comes first again.
OthersSent == <>[][~ForgetsActive]_vars =>
                \A i \in ToBeSent : Waiting(i) ~> (i \in settled \/ ~Waiting(i))
=============================================================================
