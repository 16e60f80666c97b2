# A verification project for the pagst Discord bot

pagst is a Discord bot written in Go, a fork of YAGPDB. It runs as several processes
over one Postgres database and one Redis server: any number of *bot processes* ("nodes"),
each holding the gateway connections ("shards") of a part of the guilds; a *shard
orchestrator* that starts shards on nodes and moves them from one to another, so that
nodes can be replaced without the bot going offline; and processes with *background
workers*, feeds and the web panel, whose browser side is a program of its own. This directory
models the parts of it that run concurrently and cannot be tested well, checks the models with
TLC, and proves the most important of their properties with TLAPS.

Contents: [inventory](#inventory), [plan](#plan), [how modules correspond to the
code](#modules-and-the-code), [runs](#runs), [fairness](#fairness), [proofs](#proofs),
[findings](#disagreements-found), [what is not modelled](#what-is-not-modelled).
`PROJECT.json` holds the same in a form for tools: every definition's lines in the
source, every property's mutant, every hazard's line.

## Inventory

Status: **M** modelled, **P** partly, **-** not (yet).

### Moving shards between nodes

| part | state | operations | interacts with | hard behaviour | correct when |
|---|---|---|---|---|---|
| **P** orchestrator, `lib/dshardorchestrator/orchestrator` | a `NodeConn` for each node: its shards and a mark of the migration it takes part in | `StartShardMigration`, `MigrateFullNode`, `StartShards`, `StopShard`, `WaitForShardMigration`, `handleMessage`, `handleIdentify` | nodes by messages; REST calls; the monitor | calls take the locks of two nodes one after the other; every send is a goroutine of its own, so messages overtake; nodes disconnect and die | a shard's gateway is open on one node at most; a shard that is moved arrives; a node stays busy until its migration is over |
| **P** node side, `lib/dshardorchestrator/node`, `bot/nodeimpl.go` | the shards it has, the transfer it is in, its gateways | handlers of start, stop, prepare, start-migration, user-event and all-sent messages | orchestrator; the gateway sessions | events and their number arrive in any order; a reconnect reports what was recorded | the gateway is resumed with as much of the shard's state received as was sent, with the session that was closed, once |
| **P** monitor, `orchestrator/monitor.go` | the time each shard was last seen | `tick` | reads the status of the nodes, calls `StartShards` | decides from marks that other goroutines set and clear | starts what is nobody's, and never what is only on its way |
| **P** transport, `lib/dshardorchestrator/conn.go` | a TCP connection | framing, encoding | both ends | breaks | delivers or is lost |

### Things done later, and once

| part | state | operations | interacts with | hard behaviour | correct when |
|---|---|---|---|---|---|
| **P** scheduled events, `common/scheduledevents2` | rows in Postgres; in Redis the events due soon and those handled lately; in each process what it is handling | `ScheduleEvent`, `check`, `processItem`, `markDoneID`, the flush, two cleanups | plugins (mutes, reminders, custom command timers, RSVP, temporary roles); shards' moves | three stores that are changed one after the other by goroutines of several processes; crashes; panics of handlers | an event is handled when due, never forgotten, and repeated only when it was interrupted |
| **P** message queue, `common/mqueue` | a sorted set in Redis; in each bot process a copy of the queue, its local and its active work | `QueueMessage`, `addWork`, `doRefreshWork`, `findWork`, `ProcessItem`, `finishWork` | feeds, reminders, custom commands, notifications (producers); ready events of shards; Discord | work is looked for on events only; pubsub messages race refreshes; failures are retried | no element is lost, none waits for ever behind another channel's, one attempt for each channel at a time |
| **M** keylock, `common/keylock` | a bucket for each locked key | `Lock` (polling), `tryLock`, `Unlock` | executions of custom commands | locks expire under their holders | within its ttl a holder is alone |

### Shared state of the processes

| part | state | operations | hard behaviour | correct when |
|---|---|---|---|---|
| **-** cache set, `common/cacheset` | slots of values, keys being fetched | `Get`, `Delete`, evictions by pubsub | an eviction that comes during a fetch; a fetcher that panics | a value read long after a change is the new one; a reader never waits for ever |
| **-** redis lock, `common/redislock.go` | a key with a ttl | `TryLockRedisKey`, `BlockingLockRedisKey`, `UnlockRedisKey` | the ttl runs out under the holder, who then unlocks | the lease KeyLock keeps; this one deletes whatever is there |
| **P** feature flags, `common/featureflags` | sets in Redis, lists of dirty guilds, a copy of the sets in each process | `MarkGuildDirty`, `runUpdateDirtyFlags`, `UpdateGuildFlags`, `UpdatePluginFeatureFlags`, `getGuildFlags`, evictions | a batch is popped before it is done; the worker and web handlers write the same flags in two steps without a lock; evictions race fetches and are lost | flags that differ from what the settings call for have an update coming, a copy that differs from Redis an eviction |
| **P** pubsub, `common/pubsub` | handlers | `Publish`, delivery | delivered once at most, lost while disconnected | as part of the feature flags |
| **-** configuration, prefix, `configstore`, `pqkeydb` | rows and keys, cached | get, set, invalidate | as the cache set | as the cache set |

### The control panel

| part | state | operations | hard behaviour | correct when |
|---|---|---|---|---|
| **P** browser side, `frontend/static/js/spongebob.js` | the history, the page shown, the request under way, the stack of changed forms, the popup | `navigate` with its listeners, links, Back and Forward, submission of forms by their action and by buttons, Save! | one request at a time, and whatever the user does meanwhile is dropped or half done; several forms are posted one from the other's callback | the address is the page's; a change is tracked and offered; Save! posts all forms |

### The bot itself

| part | why it is not modelled |
|---|---|
| bot core (`bot/bot.go`, `bot/eventsystem`) | three ordered groups of handlers; what matters to others (ready, removed, stop, crash) is an action of their modules |
| gateway session, `lib/discordgo`; tracked state, `lib/dstate` | Discord's protocol; a gateway is a set member with a session number in `ShardMigration` |
| member fetcher, message delete queue, RSVP embed updates | one goroutine for each channel, shard or event that leaves when its queue is empty |
| merged messages, history, joined guilds updater | a queue under one mutex, drained on a timer; I/O |
| commands, custom command triggers, templates | parsing and interpretation: sequential |
| moderation, automod, roles, reputation, tickets, logs, reminders | one handler, one or two rows, one API call; their timers are ScheduledEvents. Mutes replace a scheduled event in several steps, a hazard listed |
| feeds | producers of the message queue; polling of external services |
| games, sound, statistics, the panel's pages on the server, single commands, vendored libraries (among them all other scripts in `frontend/static`), entry points | side features, pages, I/O and wiring |

`PROJECT.json` lists each of them with its files, and the hazards of those that have any.

## Plan

Modules, in the order of their importance:

1. `ShardMigration`, the protocol that moves a shard, with failures and the monitor;
   `ShardOwnership`, the abstract promise it implements.
2. `NodeMigration` EXTENDS `ShardMigration`: `MigrateFullNode` beside other callers.
3. `ScheduledEvents`; it assumes of shards what `ShardMigration` keeps (one process at most
   serves a guild).
4. `Mqueue`, one bot process with its restarts.
5. `FeatureFlags`, updaters, caches and the lossy channel between them.
6. `ControlPanel`, the browser side of the panel.
7. `KeyLock`.
8. Proofs: `KeyLockProofs`, `ShardMigrationProofs` (about `Spec`), `ShardCrashProofs` (about
   `CrashSpec`, on top of the former), `FeatureFlagsProofs`, `ScheduledEventsProofs`, `MqueueProofs`,
   `ControlPanelProofs`, and `FilterProofs`, which the last two need.

What is left, in this order: `CacheSet`, whose fetches are not ordered with evictions as those of
the feature flags are; the redis lock, checked against KeyLock's lease; mutes on top of
`ScheduledEvents`; `Mqueue` for two processes that share the queue while a shard moves; node
registration in `handleIdentify`; identities in the messages of a migration, without
which more than one migration over connections that break cannot keep `OneGateway` (`shard_migration_late`). Theorems:
`StateBeforeResume` and `OneGateway` for one migration over connections that break (`LossySpec`); `NodeMigration`.

## Modules and the code

### ShardMigration

One `NodeConn` is a row of `connected`, `running`, `mode`, `other`, `migShard`; one
`node.Conn` a row of `nodeShards`, `nodeShard`, `session`, `processed`, `total`; the bot
behind it the set `gateway`. A caller of `StartShardMigration` has a program counter: it
finds an origin (`FindOrigin`, from the status of the nodes), marks it under its lock
(`MarkFrom`, or `RefuseFrom`), and marks the destination under its lock (`MarkTo`, or
`BusyDestination`). All the rest are handlers, each atomic under the lock of its node:
`PrepareFrom`, `SendUserEvents` at the origin; `PrepareTo`, `UserEvent`, `LastUserEvent`,
`AllUserdataSent`, `LateAllUserdataSent` at the destination; `OnFromReady`, `OnToReady`,
`OnUserEvent`, `OnAllUserdataSent`, `OnStarted`, `OnStopped` at the orchestrator.

The network is a bag, as every send is `go ... SendLogErr(...)`. One order is kept, that of the
origin's user events before their number: it writes them one after the other, and the
orchestrator reads a connection in order.

Three specifications are built from these actions: `Spec` (migrations, connections hold),
`LossySpec` (connections break and come back, with all that is under way lost, and shards
are stopped by hand), and `CrashSpec` (processes end; the monitor starts what is gone).

One history variable, `sent`, keeps how many user events the origin sent when it last transferred a shard. A
resume can so be compared with what was sent, and not just with what is still under way: an event that a
broken connection destroyed is neither.

Abstracted or assumed:

* the clock of the monitor: it looks at a shard again only when an earlier start of the shard has been
  answered (five seconds in the code), and a started shard is lost only with its
  node. What happens when an answer takes longer is a hazard no property covers.
* the clock of a call: `StartShardMigration` and `MigrateFullNode` hold on to the `NodeConn`s they found. While a
  call is between two of its locks, no node of the call identifies again (`Identify`), as a lock is taken
  within microseconds and a node that lost its connection waits before it dials again. A call that marks a
  `NodeConn` no longer in the list is not modelled.
* `ResumeShard` and `AddNewShards` run in goroutines: here the gateway is open when the
  handler ends. A gateway that is closed again before it opened is a hazard not covered.
* `StartShards` by hand is left out: it looks at reported shards only, so that two calls in a row
  start a shard twice, against its comment. Also listed as a hazard.
* all nodes have identified before a behaviour begins; total shard counts and versions agree.
* sessions are numbers: each time a gateway is closed for a transfer it makes a new
  one, so that "resumed with the session closed last" can be said.

### ShardOwnership

The promise without messages: a holder releases a shard, and somebody resumes the session
it closed, once (`MoveSpec`); or else a process ends, and a shard that is nobody's and not
on its way is opened anew (`Spec`). `ShardMigration` implements it with the holder mapped to
the node whose gateway is open.

### NodeMigration

`MigrateFullNode` as a program counter `full`, whose calls of `StartShardMigration` are the
actions of `ShardMigration` taken by `FullCaller`, and whose `WaitForShardMigration` waits in three
steps. `FullSpec` has no other caller, `SharedSpec` has.

### ScheduledEvents

An event is a row in Postgres (`row`), a member of the sorted set `soon`, a member of
`recentlyDone`, and in each process a member of `currentlyProcessing` and of goroutines
that are at one of six steps. `check()` holds its mutex from its first line to its last but
reads Redis before it looks at each pair, so that `BeginCheck`, `CheckPair` for each pair
and `EndCheck` are separate. `processItem` goes `find`, `handle`, `mark`, `delete`;
`markDoneID` goes `update`, `zrem`, `delete`. The background worker's flush reads rows,
asks for each whether it was handled lately, and then adds it; `cleanupRecent` reads the set,
deletes the rows and then forgets the set's members; `runCleanup` deletes processed rows.

Abstracted or assumed: all events belong to one guild; Redis answers; at most one process
serves the guild's shard (`OneGateway`); a handler that asks to be called again is called in the same
step, ten times at most as in the code; the branch of `processItem` that puts an event back
whose time has changed (scheduledevents.go:292) is left out, as nothing in the repository
changes a row's time; an event not yet due may be flushed or not.

### Mqueue

`MqueueServer.Run` is one goroutine, so each case of its `select` is one step: `Refresh`,
`AddWork`, `FinishWork`, each with the `checkRunNextWork` it ends with, and
`ClearTotalWork`, `CleanRecentSentTimes`. The latter forgets times of more than a minute ago, whether or not
the attempt that began then is over: an attempt that fails for a reason of its own goes through ten retries with
growing pauses in the client library. Beside it: producers (`Add`, then `Publish`), the reader
of the pubsub connection (`Subscribe`, then a forced refresh, then one message after the
other), ready events, an attempt for each active element (`Send`, `Fail`), `StopBot`, and the
end of the process (`Exit`), after which Redis is all that is left.

`findWork` is the set `FindWork` of one element or none: of the elements whose channel nothing is
being sent to (`Idle`), the first one in local work of those whose channel was sent to longest ago,
where a channel in `recentSentTimes` (`recent`, the longest ago first) comes after all that are not.

Abstracted or assumed: Redis answers; the pubsub connection holds; one bot process at a time (what a second one remembers of a queue that the first
sent is a hazard not covered); a channel is in one shard. Elements that Discord refuses for good are settled
as the code deletes them.

`OthersSent` has a premise, `<>[][~ForgetsActive]_vars`: from some moment on no time of sending is forgotten while its attempt goes on. Without it
a channel whose attempts fail takes every turn: cleanRecentSentTimes (worker.go:98) drops its time while the attempt is under way, the attempt fails,
and `findWork` takes the channel as one that was never sent to (242) before the element that waits in another, though the comment at 235 means
to "Send in a channel we havne't sent a message in a while in".

Known behaviour that no property excludes: `checkRunNextWork` (worker.go:182) starts one element for
each that arrives or ends, so that after a refresh that brought many a single attempt runs at first
and, while a rate limit holds it up, elements of idle channels wait although workers are free.

### Filter

`Only(s, S)` is what the loops of the queue (`refreshLocalWorkCached`, `removeFromWorkSlice`) and of the
panel (`hideUnsavedChangesPopup`) do to a slice or an array: the elements of s in S, in their order. `SelectSeq` and
`Remove` of the libraries would say the same, but are not known to the prover; `Only` is a recursive function, of which
`FilterProofs` has what the proofs need.

### FeatureFlags

A guild's flags are a set `flags` in Redis. Settings are what they call for: `settings[g]` is the set
of flags that the plugins' `UpdateFeatureFlags` would return now, as their queries are theirs. A
plugin either marks the guild (`SaveAndMark`, then `MarkGuildDirty`, which retries), or
computes its own flags at once (`SaveAndUpdate`), or, as `automod_basic`, marks before it saves
(`SaveMarked`). The worker pops a batch (`PopHigh`, `PopLow`) and takes guild after guild
(`NextGuild`); its job, and that of a caller of `UpdatePluginFeatureFlags`, goes through `compute`, `add`
and `remove` for each plugin, then publishes two evictions, and the caller evicts its own
process's copy as well. A process reads a set in two steps under the lock of the cache (`Fetch`,
`Store`, or `FetchFails` when Redis does not answer), for which evictions wait. Any process may read any guild's set, as
the web server does; whether it serves the guild (`Ready`) decides only whether it hears one eviction of an
update or two (`Publications`).

`Nodes` are caches with a lock of their own: the code has ten of them in each process and picks one
by the guild. `MaxFaults` bounds everything that goes wrong: failing commands and queries
(`UpdateFails`, `FetchFails`), evictions that are not heard (`deaf`), processes that end (`UpdaterEnds`,
`MarkerEnds`).

Three histories name what the code gives up, each with its line: `forgotten`, an update that an error or
a crash dropped (the guilds of a batch after one that failed, bgworker.go:172) or that was marked
too early (automod_basic/web.go:71); `overlapped`, two updaters that write one plugin's flags at
once, where the one with older settings may write last; `unheard`, a process that missed an
eviction, whose `Publish` error is dropped (featureflags.go:217). `FlagsFollow`, `CacheFollows` and
`SettingsArrive` hold for all else: they say nothing of these cases themselves, each a hazard without a property, but
that nothing else is lost with them.

Left out: manual flags, `BatchInitialPluginUpdater`, the cache of `configstore` that moderation reads
its settings through, and the fetch of several guilds at once.

### ControlPanel

The panel is one document; `navigate` (spongebob.js:46) asks the server for a part of a page and
puts it in the place of the last one. `Click`, `Travel` (Back and Forward), `Submit` and `Press` start a
request, unless one is under way; `Answer` and `Fail` are its listeners. `Submit` posts a form to its action or, without
one, to the address that the browser shows (`Target`); `Press` is a button with an action and alerts of
its own (spongebob.js:571), by which one form is posted to several addresses. `Edit` is the change handler
of a tracked form; `SaveOne` and `SaveAll` are the popup's button, and `SaveNext` the posting of one
form after the other from the callback of the last one's answer. The server keeps a form that was posted to its page or to an
action in `Saving` (`Kept`), or turns it down with a status of 400; any other action does something else, such as
deleting the command, and may answer with another page (`Leads`). A form's contents are one value.

Four histories name what the code is known to drop. No guard reads them, and each is set by what the user or the server did,
never by whether a form was left unsaved:

* `lapse`, for each form, what came between it and the save it was last posted for: the server `refused` it, it was
  `edited` while its own answer was awaited, it was posted `elsewhere`, to an action that saves something else (the callback, 641-642,
  takes it off the stack whatever the address), or Save! took it off the stack while
  another answer was awaited (`early`). `ChangesTracked` leaves out a form with a lapse until it is edited or posted
  again. It holds for a form refused or edited while Save! posts several, as their callback takes nothing off the stack.
* `early`, the last Save! was pressed while an answer was awaited: the one exception of `PopupTells`, for the button then
  stays hidden. A refused form in Save!'s chain is no exception.
* `strayed`, a Back or Forward while an answer is
  awaited, which changes the address though `navigate` ignores it, or a button that led to another page: what is then posted
  without an action goes to another page's address. The exception of `AddressMatches`.
* `hasty`, an edit or Save! while an answer is awaited: the exception of `SavesThemAll`.

Besides, `savedVersion` stays what was loaded after a save that shows alerts only, so that a change back to it is not
offered; `ChangesTracked` leaves that value out.

Left out: forms without `data-async-form`, whose buttons the code ignores; the questions that some buttons ask (a press is one that was
agreed to); the check of channel permissions, anchors and scrolling, widgets, themes; scripts of third parties.

### KeyLock

`locksMU` makes `tryLock` and `Unlock` atomic; a caller's polling, its timeout, and the
clock interleave. Time is relative: a bucket has ticks left, a caller ticks waited and ticks
held.

## Runs

| run | instance | what it shows |
|---|---|---|
| `shard_migration` | 3 nodes, 2 shards, 2 callers, 3 migrations, 0 or 1 user events each; every initial placement | no shard has two gateways, views of orchestrator and nodes agree when nothing is under way, the inductive invariants of the proofs, together `TransferInv` (from which the absence of panics follows too), and the refinement of `ShardOwnership!MoveSpec` |
| `shard_migration_crash` | 3 nodes, 1 shard, 2 migrations; all nodes but one may die | the monitor never starts a shard that is on its way (`InTransitMarked`), the inductive invariant `OwnershipInv` of the proofs holds (`OneGateway` is a part of it), `ShardOwnership!Spec` is kept; every migration arrives and no node stays busy unless somebody died; a shard that is lost and not marked is started again |
| `shard_migration_lossy` | 3 nodes, 2 shards, 1 migration; any number of disconnects, reconnects and stops by hand | a shard may be lost, but is resumed only when as many user events have arrived as its origin sent (`StateBeforeResume`), and no node completes a transfer without a shard |
| `shard_migration_late` | 3 nodes, 2 shards, 2 migrations without events; disconnects, reconnects and stops | violated: `OneGateway`, when an answer to the first migration is taken for one to the second |
| `node_migration_busy` | 3 nodes, 2 callers | violated: `BusyStaysBusy`, when `MigrateFullNode` clears another migration's mark |
| `node_migration` | 2 nodes, 2 shards, 2 events | alone, `MigrateFullNode` moves every shard, ends, shuts down an empty node only, and nobody's mark is cleared early |
| `scheduled_events` | 1 event, 2 processes, 2 times ready, 1 panic; crashes without bound | handled when due, marked only when over, and begun again only after an interruption |
| `scheduled_events_leave` | 1 event, 1 process, the bot leaves and returns, 1 failed query | `currentlyProcessing` loses an event that is still handled, and it is still not repeated; nothing is forgotten |
| `mqueue` | 3 elements in 2 channels of 2 shards, one failing any number of times, 2 attempts at once, 2 processes one after the other | nothing is lost or overlooked, channels get one attempt at a time, and a failing one starves no other unless its attempts outlast their minute again and again |
| `feature_flags` | 2 guilds, 2 plugins (one that updates itself, one that marks early and whose flag is new), 1 process that serves one of the guilds, with worker and web handler, batches of 2, 1 save, 1 fault | flags follow the settings and copies the flags, but for the named exceptions, and settle |
| `control_panel` | 2 pages, one with 2 forms (one with alerts only; one with an action and two buttons, one of which leads to the other page), 2 values, a history of 2 entries, on a telephone | the address is the page's, each change is tracked and offered, but for the named exceptions, and Save! posts every form |
| `keylock` | 3 callers, 2 keys, timeouts and ttls of 2 ticks, 4 executions | within its ttl a holder is alone |

Why the bounds are enough. *Migrations*: two callers are needed for one to act between the two
locks of another; three nodes for two migrations to share one (origin of one, destination of
the other, or a busy destination); two shards to be in transit at once; three migrations for
a shard to go back to where it came from while another's marks are being reused. One user event lets it
overtake its number and be overtaken; the theorems hold for any number. `TransferInv`
is checked in the same run and proved for every instance, so the bounds matter only to
the properties that are not proved. Over connections that break, `StateBeforeResume` is asked of one migration: messages carry no identity of theirs, so that after a reconnect what is left of a first migration can
be taken for a second one's, which `shard_migration_late` shows with the gateway itself. *Crashes*: one shard, as marks of a dead node matter to the
shard they name; two migrations, the second finds what the first left. *Scheduled events*:
events share nothing but the mutex and the batch of the flush, so one is enough for the three
stores to disagree about it; two processes for it to move. *Queue*: `f` (c1, left over,
failing) and `h` (c2, left over) compete for workers, `g` shares a channel with `h` and comes
live, before, between or after the ready events and the restart; two attempts at once are one for each channel.
*Feature flags*: two guilds fill a batch whose first one fails; a save beside the initial
update lets two updaters meet at one guild; of one guild the process hears one eviction, of the other two; a fault is a retry or a loss, and the exceptions it makes
are named in the properties, which the proofs extend to any number of saves and faults. *Panel*: two forms
of one page for Save! to post one after the other, another page for navigation to go to; two buttons for one form to be posted to three addresses, with and without alerts only; two entries are the least for Back and Forward; a telephone, as elsewhere the popup is never
shown. *Keylock*: three callers are the least for a late `Unlock` to free the key of a second
for a third; the ttl of two ticks lets a lock be taken, aged and expired apart.

Deadlock is not checked where the system may come to rest: when the bounded migrations, events or
elements are done. In `keylock` the clock always goes on.

Symmetry is used in runs without liveness properties only. One definition, `Holder`, is a CHOOSE over
nodes; the set it chooses from has one member in every state `OneGateway` holds in, which the same run checks.

## Fairness

Each condition is on a goroutine that exists and that nothing in the code keeps from running.

* `ShardMigration`: the goroutine that reads a connection goes on (`NodeStep`,
  `OrchestratorStep`), and a call goes on once it has been made (`CallStep`), as locks are
  held for the length of a handler only. One weak fairness for all messages together is enough, as a
  migration has one message at a time that moves it on. Nobody is obliged to start a migration, to disconnect
  or to die. `MonitorRuns`: `tick` runs each second, and a node answers a start.
* `NodeMigration`: as above, and the loop of `MigrateFullNode`.
* `ScheduledEvents`: `check()` runs each second and the flush each minute; each goroutine goes
  on; the deletion from `currentlyProcessing` waits for a mutex that `check()` takes again
  and again, and gets it (`SF`), as Go's mutex hands itself over to a waiter of more than a
  millisecond. Neither cleanup is assumed to run.
* `Mqueue`: the pubsub reader, the goroutine of a ready event, and each attempt. The timers
  are not assumed to fire, and `OthersSent` has the premise given [above](#mqueue).
* `FeatureFlags`: the worker's ticker, the goroutines of updaters and markers, and a fetch under way go
  on. An eviction waits for the lock that fetches take (`SF`): a Go `RWMutex` lets a waiting writer
  in before later ones. Nobody is obliged to save, to fetch or to fail.
* `ControlPanel`: a request ends, with an answer or without. Nothing is assumed of the user.

## Proofs

TLAPS proves, for every value of the constants and under the assumptions that the modules
name (`ShardAssumption`: shard 0 is a shard, -1 is none, "" is no node; `KeyLockAssumption`: times are
natural numbers; `FlagsAssumption`: plugins have an order and flags of their own;
`ScheduledEventsAssumption`: bounds are natural numbers; `MqueueAssumption`: a channel is in one shard,
`StoredOrder` is an order of all elements, one attempt at least is allowed, bounds are natural numbers;
`PanelAssumption`: a page and a form are different things, and so on; the two `NoneAssumption`s: None is
none of the values):

| theorem | says |
|---|---|
| `TypeTheorem` (ShardMigrationProofs) | `Spec => []TypeOK`; counts of messages stay natural numbers |
| `MigrationTheorem` | `Spec => []MigrationInv`, the inductive invariant |
| `OneGatewayTheorem` | `Spec => []OneGateway` |
| `NoPanicTheorem` | `Spec => []NoPanic` |
| `DeliveryTheorem` | `Spec => []DeliveryInv`: no user event is lost or counted twice |
| `ViewsAgreeTheorem` | `Spec => []ViewsAgree` |
| `StateBeforeResumeTheorem` | `Spec => StateBeforeResume`, an action property: no gateway is resumed on a part of the events |
| `TransferTheorem` | `Spec => []TransferInv`: the two above, and the session on its way |
| `KeepsOwnershipTheorem` | `Spec => KeepsOwnership`: migrations implement `ShardOwnership!MoveSpec` |
| `CrashTypeTheorem` (ShardCrashProofs) | `CrashSpec => []TypeOK` |
| `CrashTheorem` | `CrashSpec => []OwnershipInv`, the inductive invariant while processes end |
| `InTransitMarkedTheorem` | `CrashSpec => []InTransitMarked` |
| `OneGatewayThroughCrashesTheorem` | `CrashSpec => []OneGateway` |
| `KeepsOwnershipThroughCrashesTheorem` | `CrashSpec => KeepsOwnershipThroughCrashes`: `ShardOwnership!Spec` is implemented |
| `LeaseExclusionTheorem` (KeyLockProofs) | `Spec => []LeaseExclusion` |
| `OnlyHolderReleasesTheorem` | `Spec => OnlyHolderReleases`, an action property |
| `TypeTheorem` (FeatureFlagsProofs) | `Spec => []TypeOK` |
| `CopiesTheorem` | `Spec => []CacheFollows` |
| `UpdatesTheorem` | `Spec => []FlagsFollow` |
| `TypeTheorem` (ScheduledEventsProofs) | `Spec => []TypeOK`; counts of goroutines stay natural numbers |
| `NotForgottenTheorem` | `Spec => []NotForgotten` |
| `MarksTrueTheorem` | `Spec => []MarksTrue` |
| `OnceTheorem` | `Spec => []OnceUnlessInterrupted` |
| `TypeTheorem` (MqueueProofs) | `Spec => []TypeOK` |
| `NothingLostTheorem` | `Spec => []NothingLost` |
| `AttemptsApartTheorem` | `Spec => []AttemptsApart` |
| `NeverIdleTheorem` | `Spec => []NeverIdle` |
| `WorkKnownTheorem` | `Spec => []WorkKnown` |
| `OnlyLatePushesReviveTheorem` | `Spec => OnlyLatePushesRevive`, an action property |
| `TypeTheorem` (ControlPanelProofs) | `Spec => []TypeOK`; no form is on the stack twice |
| `ChangesTrackedTheorem` | `Spec => []ChangesTracked` |
| `AddressMatchesTheorem` | `Spec => []AddressMatches` |
| `PopupTellsTheorem` | `Spec => []PopupTells` |
| `OnlyProperties` (FilterProofs) | what `Only` returns, for every sequence and set |

**One gateway.** That no two nodes have a shard's gateway open says nothing of why a third step
may not open one. The reason is the protocol's bookkeeping, and `MigrationInv` puts it in words:

1. A migration is known by its destination, and one message at a time carries it on: its
   *token* (`OneToken`). `prepFrom`, `fromReady`, `startMig` and `allUp` are tokens at the
   origin, `prepTo`, `toReady`, `allDown` and `started` at the destination.
2. Each kind of token tells how far its migration is (`TokenInv`): while the origin is needed
   it and the destination are marked with each other (`Linked`); from `fromReady` on the
   gateway of the shard is open nowhere (`Nowhere`); from `toReady` on the destination is
   prepared for this very shard (`Prepared`).
3. A user event under way comes before its number, and finds its destination prepared
   (`EventsBeforeCount`, `EventsExpected`). So `finishShardMigrationTo` runs once for each migration, with a shard
   in hand, which is `NoPanic`, and with its gateway open nowhere, which is `OneGateway`.
4. Callers between their two locks own the mark they have set (`Marking`), no two destinations are
   marked with one shard (`OneMigration`), a marked shard is released unless its migration has
   just begun or is just over (`ReleasedUnlessMarked`), and what a node reports is running there, or is just being closed
   (`ReportedRuns`): so a new call cannot find an origin for a shard on its way.

There is one lemma for each action. Those that pass a token on use a common lemma
(`PassToken`) about the counts of messages before and after. The last lemma joins them by cases of
`Next`, and the theorems follow by temporal logic from `TypeTheorem`.

**Delivery.** That everybody agrees once nothing is under way (`ViewsAgree`) would be wrong if a destination could wait for
a user event that never comes, for then no message is left and the shard runs nowhere. So `DeliveryInv` counts them: what the
destination has processed and what is on its way to it or to the orchestrator add up to the number in the token,
which is what the origin sent (`TokenCounts`), and once the token is spent, to the total it waits for, of which one is missing (`Waits`). User events are of the
migration their node is marked with, and of no earlier one (`EventsUp`, `EventsDown`). With that, a shard that is
recorded but not open is waited for by a message (`RecordedRuns`), one that is open is recorded (`RunsRecorded`), and reported
or about to be (`RunsReported`). `ViewsAgree` is the case of no message at all, and `StateBeforeResume` that of the message that completes the transfer: the count, or the last event (lemma `CompletedCount`).

**Ownership.** The refinement also needs to know where a closed gateway's session is, which `MigrationInv`
leaves out. `SessionInv` says that every message that carries a session carries the one closed last
(`SessionsCarried`), and that a destination whose shard is open nowhere either waits for such a message or keeps that session
(`SessionKept`), which was not resumed before (`NotResumed`). With one token for each migration, no such message is left when the transfer
completes, so the kept session is resumed. `QuietStep` serves all actions that touch neither
gateways nor sessions; then `PrepareFrom` maps to `Release`, a completed transfer to `Resume`, and every
other step to a stutter. That a shard has one holder is `OneGateway`, without which `Holder` would choose.

**Crashes.** When processes end (`CrashSpec`), `MigrationInv` fails in several parts: a message may find its node dead,
marks of a dead node stay for ever, and a caller may still mark one, so that a mark says little by itself. `CrashInv` speaks of
the migrations that a message carries on, `started` not included (`Carriers`), or that wait for a user event which is under way
(`Waiting`): their destinations are `Engaged`. Its parts:

1. *What goes on* (`CarryInv`). One message carries a migration (`OneCarrier`), and tells its nodes' marks, its shard and its session
   (`CarriersTell`); no two destinations are engaged for one shard (`OneEngaged`). A migration ends silently with its message when
   a node dies, and nothing else has to be said of it.
2. *What the monitor may start* (`StartInv`). What it told a node to start is open nowhere, on no way, and of no engaged
   destination (`StartingAlone`). This is kept in both directions: the monitor skips what is marked, and whatever is on its way or engaged is marked
   (`TransitMarked`, `CarriersTell`); an origin must have the shard open and reported to be told to close it, which a shard being started has not.
   `ReportedAlive`, `RunsReported` and `StartedOnce` relate reports and gateways of the living.
3. *Who may resume* (`MovesOn`). A migration that goes on and has closed its gateway has not resumed it. With `SessionsOld` (sessions are
   numbered upwards) this gives the condition of `Resume`, and `StartingAlone` that of `Open`.

`InTransitMarked` and `OneGateway` follow without another induction. The theorems assume of the monitor what the model does: a start is answered before
the shard is looked at again.

**Keylock.** The strengthening `IInv` says that every handle, of a bucket or a caller, was given out by
the counter, that handles of different running callers differ (`HandlesDistinct`), and that a caller within its ttl
owns the bucket of its key with exactly the ticks left that it has not used (`LeaseOwner`). Two callers of one
key within their ttl then own one bucket, so their handles are equal, so they are one.

**Feature flags.** A copy is safe by itself: each write of `flags` is by an updater that has yet to publish,
and an eviction waits for the fetch that may have read the older set, so `CacheFollows` is inductive
with the types. `FlagsFollow` is not: that flags are up to date once an updater is done depends on what
it computed, two steps earlier. `FlagsInv` says of each updater that is writing (`WriteSound`) that what it
writes is what the settings still call for, or something else will come (`OtherComes`), or it is an
exception; that whoever overlaps with it is known; and that nothing it added was removed meanwhile. Saving
settings breaks the first of these and puts the guild in a list; the end of a job relies on it.

**Scheduled events.** A row is deleted by others than those who know the event is over: cleanups delete by a
set of IDs read before, and `processItem` takes a missing row as a reason to mark the event. `EventsInv`
adds to `NotForgotten` and `MarksTrue` what closes this circle: whoever is at a step that marks, updates or deletes knows that the event
is over (`MarkersKnow`), and whatever was copied anywhere was scheduled before (`OnlyScheduled`), so that a row which is gone was
not one of a wanted event. One lemma, `Harmless`, states when a step keeps all this; the lemmas for the actions cite it.

`OnceUnlessInterrupted` needs an account, `AccountInv`. While a row is pending, the handlers begun, those that goroutines on any
process may still begin (`Claims`) and the one that the next `check()` may start (`NextClaim`) are
together within one more than the interruptions (`Paid`). A goroutine at `delete` counts as well: it will take the event out of `currentlyProcessing`,
after which `check()` may hand it out again, unless it is marked; but of several such goroutines one only takes away an entry (`Surplus`). Claims are summed over the processes as the
cardinality of a set of pairs (`ClaimSet`), as theorems about finite sets are at hand and those about sums are not. Each step
moves a claim, spends it on a handler, or adds an interruption to pay for it. Entries that nobody owns, and marks or
pairs that go before their row, would break the account (`EntriesOwned`, `RowsFirst`).

**Filtering.** What a recursive function computes for every length needs an induction, and the induction theorems of the
library take an operator, which the prover cannot instantiate. `FilterProofs` goes by least
counterexample: the lengths for which the claim fails are a set of natural numbers, which has a least element if it has any (`Least`, from
`WFMin` and `NatLessThanWellFounded`); it is not 0, and the step from the length before gives a contradiction.

**Message queue.** For `NothingLost`: an attempt is done only once its element is settled, and the server
deletes nothing else. For `AttemptsApart`: attempts are among what the server counts as active
(`Covered`), which is within the limit and apart by channels (`Within`); the lemma `Finding` says of `findWork` that it finds one element at
most, of an idle channel, and none at the limit. For `NeverIdle`, that it does find one while there is work and nothing is active: the places in local
work of the channel that was sent to longest ago are a set of numbers with a least element. `WorkKnown` is not inductive: it speaks of the moment when
both kinds of refresh are done, and the copy of the queue, which an unforced refresh reads instead of Redis, must have been complete already. `KnownInv` says when it is:
once the forced refresh of this connection is done, everything that no message will tell of is in the copy, if there is one,
or is work. `OnlyLatePushesRevive` follows action by action from the types and from what a copy that is not at hand holds (`AtHand`: nothing).

**Control panel.** `ChangesTracked` and `PopupTells` leave open what holds while an answer is awaited, which is when things go
wrong. `TrackedInv` says that a changed form without a lapse is then on the stack or is the one awaited (`Tracked`), that the form
awaited is posted with what it holds, or is on the stack again for Save! to go on with if it was changed since (`Carried`), and that the form awaited is on
the page. `AddressInv` says that a request, until it is answered, is to be
pushed to the history, or is for the page of the address, or posts a form from a page that is
`Settled` (it has the address shown, and `lastLoc`, if it is a page's, is the same) to that address or to an action. `PopupInv` says that while
Save! goes through its forms the popup may be out of step with the stack, and after that its button is hidden only if
Save! was pressed too early.

**Model-checked only**: what involves connections that break and come back, and stops by hand (`LossySpec`: `NoPanic` and `StateBeforeResume`
there), and all of `NodeMigration`. `MigrationInv` and `CrashInv` are about connections that hold as long as their node lives; a
node that identifies again gets a fresh `NodeConn` while its own memory of the transfer stays, and what an
invariant would say of that is not worked out yet. Liveness under fairness is beyond the prover and stays with TLC: `OthersSent`, `DueHandled`,
`SettingsArrive`, `SavesThemAll`, and those of the migrations.

## Disagreements found

1. **`MigrateFullNode` clears marks that are not its own** (`node_migration_busy`).
   orchestrator.go:425 sets both nodes' modes to none after waiting, "in case something went
   wrong"; a migration that another caller started meanwhile loses its mark.
2. **A late answer opens a shard twice** (`shard_migration_late`). A destination has prepared, and before its answer is handled the origin
   loses its connection, identifies again, so that its fresh `NodeConn` is in no migration, and becomes the origin of a second
   one. The answer names no migration, and nodeconn.go:120 forwards it to the node the destination is still marked with: the origin
   sends the number of its events, which goes to the second destination. That one has prepared for nothing, and resumes
   shard 0, the zero of its field (node.go:261), while the origin runs it. events.go:50 says the answer is "sent as a response when ready for the shard data
   transfer"; nodeconn.go:219 means to stop everything rather than launch a shard that is connected.

More behaviours are part of the model, and its properties are stated so that they leave them out:

* A node that dies while it migrates keeps its shard from being started. Its `NodeConn` stays in the list with its mark, and
  `tick` (monitor.go:119) skips a shard that is marked, in every round, though orchestrator.go:62 says that all the shards are
  always running. `UnmarkedShardStarts` is asked of the shards that no mark names.
* A destination records its shard when it is told to prepare (node.go:240), and identifies with what it has recorded
  (node.go:89). When the rest of the transfer is lost with its connection, the orchestrator takes the shard for running on it, no mark
  is left, and `tick` has nothing to start. The liveness properties are asked of connections that hold as long as their node lives.
* In `StartShardMigration`
  `toNode.mu` is unlocked at orchestrator.go:288 and, after the origin's mark was taken back, again at
  297; Go ends the process ("sync: unlock of unlocked mutex") where the next line means to return
  `ErrNodeBusy`. `BusyDestination` models it, and nothing of the orchestrator goes on afterwards.
* The choice of one element at a time in the message queue, and what attempts that outlast a minute do to it, described [there](#mqueue).

## What is not modelled

The parts marked **-** above, as they are sequential, I/O, or next in the plan; all scripts of third parties in
`frontend/static`, which are most of the lines of the repository. Within modelled parts: encoding, logging, HTTP
handlers, metrics, formatting of messages, launching node processes, blacklists, versions and
buckets of the orchestrator, `MigrateAllNodesToNewNodes`, handlers of scheduled events and the migration of old
ones, and what a custom command does while it holds its lock. The assumptions each module
makes are listed with it.

## Checking it

`tlc -config MCShardMigration.cfg MCShardMigration.tla` and so on, four minutes each at most;
`tlapm ShardMigrationProofs.tla` and the other seven modules of proofs. A definition called a mutant in its
comment is the one that follows it with a bug put in; in its place it makes the run
that `PROJECT.json` names fail.
