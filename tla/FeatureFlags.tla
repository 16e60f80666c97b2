----------------------------- MODULE FeatureFlags -----------------------------
(***************************************************************************)
(* The feature flags of guilds (common/featureflags).  A guild's flags are *)
(* a set in Redis, computed by plugins from the guild's settings, and each *)
(* process keeps a copy of the sets it was asked for.  A plugin that saved *)
(* settings either marks the guild dirty, for the background worker to     *)
(* compute the flags of all plugins again, or computes its own flags at    *)
(* once.  Both write Redis in two steps, and publish an eviction           *)
(* afterwards (common/pubsub).  Nothing keeps two updaters of a guild      *)
(* apart.                                                                  *)
(*                                                                         *)
(* Redis commands are atomic.  Faults, MaxFaults of them, are commands and *)
(* look-ups that fail, evictions that are not heard and processes that     *)
(* end.  unheard, overlapped and forgotten are history variables.          *)
(***************************************************************************)
EXTENDS Integers, FiniteSets

CONSTANTS
  Guilds,      \* guilds
  Plugins,     \* plugins with feature flags
  Order,       \* [Plugins -> Nat], their order in common.Plugins
  FlagsOf,     \* AllFeatureFlags: [Plugins -> sets of flags], disjoint
  Direct,      \* the plugins that update their flags themselves when saved
  Early,       \* the plugins that mark the guild before they save its settings
  Nodes,       \* processes that keep a cache
  Updaters,    \* the background worker, and callers of UpdatePluginFeatureFlags
  Worker,      \* the background worker
  Home,        \* [Updaters -> Nodes], the process of an updater
  Ready,       \* pairs of a process and a guild that hears evictions for that guild's shard
  Initial,     \* [Guilds -> sets of flags], what the settings call for at first
  Initialized, \* feature_flags_initialized: the flags that Redis has at first
  BatchSize,   \* guilds popped at once: 25
  MaxSaves,    \* bound: times that settings are saved
  MaxFaults,   \* bound: faults
  None         \* no job, no plugin, no fetch, nothing cached

Flags == UNION {FlagsOf[p] : p \in Plugins}

ASSUME FlagsAssumption ==
  /\ Order \in [Plugins -> Nat] /\ \A p, q \in Plugins : Order[p] = Order[q] => p = q
  /\ \A p, q \in Plugins : p # q => FlagsOf[p] \cap FlagsOf[q] = {}
  /\ Direct \subseteq Plugins /\ Early \subseteq Plugins
  /\ Worker \in Updaters
  /\ Home \in [Updaters -> Nodes]
  /\ Initial \in [Guilds -> SUBSET Flags]
  /\ Ready \subseteq Nodes \X Guilds
  /\ BatchSize \in Nat \ {0} /\ MaxSaves \in Nat /\ MaxFaults \in Nat

VARIABLES
  settings,    \* what the settings of a guild call for
  flags,       \* f_flags of a guild, in Redis
  high, low,   \* feature_flags_dirty_high_priority and _low_priority
  marking,     \* guilds that a caller of MarkGuildDirty has yet to mark
  batch,       \* guilds the worker has popped and not come to
  job,         \* what an updater is doing
  cache,       \* a process's copy of a guild's flags
  fetch,       \* the fetch of a process, which holds the lock of the cache
  evictions,   \* evictions a process has yet to handle, for each guild
  saves, faults,
  unheard,     \* history: guilds whose eviction a process missed
  overlapped,  \* history: guild and plugin with two updaters at once
  forgotten    \* history: guild and plugin whose update was dropped, or was over too early

redis == <<flags, high, low>>
work == <<marking, batch, job>>
caches == <<cache, fetch, evictions>>
counts == <<saves, faults>>
history == <<unheard, overlapped, forgotten>>
vars == <<settings, redis, work, caches, counts, history>>

\* todo: plugins left; plugin and want: what was computed and is being written;
\* at: the next step; failed: one of the plugins failed (lastErr).
Job(g, todo) ==
  [guild |-> g, todo |-> todo, plugin |-> None, want |-> {}, at |-> "compute", failed |-> FALSE]

Jobs == [guild : Guilds, todo : SUBSET Plugins, plugin : Plugins \cup {None},
         want : SUBSET Flags, at : {"compute", "add", "remove", "evict"}, failed : BOOLEAN]

Fetches == [guild : Guilds, got : SUBSET Flags]

ASSUME NoneAssumption ==
  /\ None \notin Plugins
  /\ \A x \in Jobs \cup Fetches \cup SUBSET Flags : x # None

WorkingOn(u, g) == job[u] # None /\ job[u].guild = g

Fault == faults < MaxFaults /\ faults' = faults + 1

\* checkInitFeatureFlags has marked every guild if there are flags that were never
\* computed.
Init ==
  /\ settings = Initial
  /\ flags = [g \in Guilds |-> Initial[g] \cap Initialized]
  /\ high = {} /\ low = IF Flags \subseteq Initialized THEN {} ELSE Guilds
  /\ marking = {} /\ batch = {}
  /\ job = [u \in Updaters |-> None]
  /\ cache = [n \in Nodes |-> [g \in Guilds |-> None]]
  /\ fetch = [n \in Nodes |-> None]
  /\ evictions = [n \in Nodes |-> [g \in Guilds |-> 0]]
  /\ saves = 0 /\ faults = 0
  /\ unheard = [n \in Nodes |-> {}]
  /\ overlapped = {} /\ forgotten = {}

-----------------------------------------------------------------------------
(* Plugins save settings.                                                  *)

Saved(g, p, new) ==
  /\ saves < MaxSaves /\ saves' = saves + 1
  /\ new \subseteq FlagsOf[p]
  /\ settings' = [settings EXCEPT ![g] = (@ \ FlagsOf[p]) \cup new]

\* A plugin saves settings and then calls MarkGuildDirty.
SaveAndMark(g, p, new) ==
  /\ p \notin Early
  /\ Saved(g, p, new)
  /\ marking' = marking \cup {g}
  /\ UNCHANGED <<redis, batch, job, caches, faults, history>>

\* ExtraPostMW of automod_basic calls MarkGuildDirty before the handler inside saves the
\* settings: the worker may have taken the mark and be done by then.
SaveMarked(g, p, new) ==
  /\ p \in Early
  /\ Saved(g, p, new)
  /\ \/ high' = high \cup {g} /\ forgotten' = forgotten
     \/ high' = high /\ forgotten' = forgotten \cup {<<g, p>>}
  /\ UNCHANGED <<flags, low, work, caches, faults, unheard, overlapped>>

\* A plugin saves settings and then calls UpdatePluginFeatureFlags.
SaveAndUpdate(u, g, p, new) ==
  /\ p \in Direct
  /\ u # Worker /\ job[u] = None
  /\ Saved(g, p, new)
  /\ job' = [job EXCEPT ![u] = Job(g, {p})]
  /\ UNCHANGED <<redis, marking, batch, caches, faults, history>>

\* MarkGuildDirty retries until Redis takes the guild.
MarkGuildDirty(g) ==
  /\ g \in marking
  /\ marking' = marking \ {g}
  /\ high' = high \cup {g}
  /\ UNCHANGED <<settings, flags, low, batch, job, caches, counts, history>>

\* The process that would have marked the guild ends.
MarkerEnds(g) ==
  /\ g \in marking
  /\ Fault
  /\ marking' = marking \ {g}
  /\ forgotten' = forgotten \cup ({g} \X Plugins)
  /\ UNCHANGED <<settings, redis, batch, job, caches, saves, unheard, overlapped>>

-----------------------------------------------------------------------------
(* The background worker: runUpdateDirtyFlags.                             *)

\* The list is popped: a batch of it, or all of it if that is less.
Popped(list, next) ==
  /\ batch' \in SUBSET list /\ batch' # {}
  /\ Cardinality(batch') = BatchSize \/ batch' = list
  /\ Cardinality(batch') <= BatchSize
  /\ next = list \ batch'

PopHigh ==
  /\ job[Worker] = None /\ batch = {}
  /\ Popped(high, high')
  /\ UNCHANGED <<settings, flags, low, marking, job, caches, counts, history>>

\* Only with no high priority guild.
PopLow ==
  /\ job[Worker] = None /\ batch = {}
  /\ high = {} /\ Popped(low, low')
  /\ UNCHANGED <<settings, flags, high, marking, job, caches, counts, history>>

NextGuild(g) ==
  /\ job[Worker] = None /\ g \in batch
  /\ batch' = batch \ {g}
  /\ job' = [job EXCEPT ![Worker] = Job(g, Plugins)]
  /\ UNCHANGED <<settings, redis, marking, caches, counts, history>>

-----------------------------------------------------------------------------
(* Updaters: updatePluginFeatureFlags for each plugin, and the evictions.  *)

\* Another updater is between computing the same flags and writing them.
Overlaps(u, g, p) == \E v \in Updaters \ {u} : WorkingOn(v, g) /\ job[v].plugin = p

\* p is the next plugin of u, or the one it is at.
Current(u, p) == p \in job[u].todo /\ \A q \in job[u].todo : Order[p] <= Order[q]

\* UpdateFeatureFlags computes the flags the settings call for.
Compute(u, p) ==
  /\ job[u] # None /\ job[u].at = "compute" /\ Current(u, p)
  /\ LET g == job[u].guild IN
     /\ job' = [job EXCEPT ![u].plugin = p, ![u].want = settings[g] \cap FlagsOf[p],
                           ![u].at = "add"]
     /\ overlapped' = IF Overlaps(u, g, p) THEN overlapped \cup {<<g, p>>}
                      ELSE overlapped \ {<<g, p>>}
     /\ forgotten' = forgotten \ {<<g, p>>}
  /\ UNCHANGED <<settings, redis, marking, batch, caches, counts, unheard>>

\* The flags that are active are added first.
Add(u) ==
  /\ job[u] # None /\ job[u].at = "add"
  /\ flags' = [flags EXCEPT ![job[u].guild] = @ \cup job[u].want]
  /\ job' = [job EXCEPT ![u].at = "remove"]
  /\ UNCHANGED <<settings, high, low, marking, batch, caches, counts, history>>

\* Mutant: the error of a plugin is dropped.
DoneAnyway(u, p, fails) ==
  [job EXCEPT ![u].plugin = None, ![u].want = {}, ![u].todo = @ \ {p}, ![u].at = "compute"]

\* The job of u, done with plugin p.
Done(u, p, fails) ==
  [job EXCEPT ![u].plugin = None, ![u].want = {}, ![u].todo = @ \ {p}, ![u].at = "compute",
              ![u].failed = @ \/ fails]

\* Mutant: the others stay.
RemoveNone(u) ==
  /\ job[u] # None /\ job[u].at = "remove"
  /\ job' = Done(u, job[u].plugin, FALSE)
  /\ UNCHANGED <<settings, redis, marking, batch, caches, counts, history>>

\* Then the plugin's others are removed.
Remove(u) ==
  /\ job[u] # None /\ job[u].at = "remove"
  /\ flags' = [flags EXCEPT ![job[u].guild] = @ \ (FlagsOf[job[u].plugin] \ job[u].want)]
  /\ job' = Done(u, job[u].plugin, FALSE)
  /\ UNCHANGED <<settings, high, low, marking, batch, caches, counts, history>>

\* Any of the three fails, and the other plugins are still updated.  A caller of
\* UpdatePluginFeatureFlags only logs or returns the error.
UpdateFails(u, p) ==
  /\ job[u] # None /\ Current(u, p)
  /\ job[u].at \in {"compute", "add", "remove"}
  /\ Fault
  /\ job' = Done(u, p, TRUE)
  /\ forgotten' = IF u = Worker THEN forgotten ELSE forgotten \cup {<<job[u].guild, p>>}
  /\ UNCHANGED <<settings, redis, marking, batch, caches, saves, unheard, overlapped>>

\* One eviction for every process, and one for those that serve the guild.
Publications(n, g) == IF <<n, g>> \in Ready THEN 2 ELSE 1

\* Both evictions of g are published.  The processes in deaf do not hear them:
\* nobody looks at the error of Publish, and a connection that is broken misses it.
Publish(g, deaf) ==
  /\ IF deaf = {} THEN UNCHANGED faults ELSE Fault
  /\ evictions' = [n \in Nodes |->
       IF n \in deaf THEN evictions[n] ELSE [evictions[n] EXCEPT ![g] = @ + Publications(n, g)]]
  /\ unheard' = [n \in Nodes |-> IF n \in deaf THEN unheard[n] \cup {g} ELSE unheard[n]]

Finished(u) == job[u] # None /\ job[u].at = "compute" /\ job[u].todo = {}

\* UpdateGuildFlags returns.  After an error the guild is marked again, and the
\* rest of the batch is forgotten.
WorkerPublishes(deaf) ==
  /\ Finished(Worker)
  /\ Publish(job[Worker].guild, deaf)
  /\ job' = [job EXCEPT ![Worker] = None]
  /\ IF job[Worker].failed
       THEN /\ marking' = marking \cup {job[Worker].guild}
            /\ forgotten' = forgotten \cup (batch \X Plugins)
            /\ batch' = {}
       ELSE UNCHANGED <<marking, forgotten, batch>>
  /\ UNCHANGED <<settings, redis, cache, fetch, saves, overlapped>>

\* UpdatePluginFeatureFlags publishes, and then evicts its own process's copy.
CallerPublishes(u, deaf) ==
  /\ u # Worker /\ Finished(u)
  /\ Publish(job[u].guild, deaf)
  /\ job' = [job EXCEPT ![u].at = "evict"]
  /\ UNCHANGED <<settings, redis, marking, batch, cache, fetch, saves, overlapped, forgotten>>

\* The process of an updater ends.  What it popped is in no list any more.
UpdaterEnds(u) ==
  /\ job[u] # None \/ (u = Worker /\ batch # {})
  /\ Fault
  /\ job' = [job EXCEPT ![u] = None]
  /\ LET mine == IF job[u] = None THEN {} ELSE {job[u].guild}
         dropped == IF u = Worker THEN mine \cup batch ELSE mine IN
     /\ forgotten' = forgotten \cup (dropped \X Plugins)
     /\ unheard' = [n \in Nodes |-> unheard[n] \cup mine]
     /\ batch' = IF u = Worker THEN {} ELSE batch
  /\ UNCHANGED <<settings, redis, marking, caches, saves, overlapped>>

-----------------------------------------------------------------------------
(* A process's cache.  One lock is held for the whole of a fetch.          *)

\* Mutant: the lock is only held while the map is looked at.
UnlockedAlways(n) == n \in Nodes

Unlocked(n) == fetch[n] = None

\* getGuildFlags finds no copy, takes the lock, and reads the set from Redis: any process
\* for any guild, such as the web server for all of them.
Fetch(n, g) ==
  /\ Unlocked(n) /\ cache[n][g] = None
  /\ fetch' = [fetch EXCEPT ![n] = [guild |-> g, got |-> flags[g]]]
  /\ UNCHANGED <<settings, redis, work, cache, evictions, counts, history>>

Store(n) ==
  /\ ~Unlocked(n)
  /\ cache' = [cache EXCEPT ![n][fetch[n].guild] = fetch[n].got]
  /\ fetch' = [fetch EXCEPT ![n] = None]
  /\ UNCHANGED <<settings, redis, work, evictions, counts, history>>

\* Redis fails to answer: nothing is stored, and the caller gets the error.
FetchFails(n) ==
  /\ ~Unlocked(n)
  /\ Fault
  /\ fetch' = [fetch EXCEPT ![n] = None]
  /\ UNCHANGED <<settings, redis, work, cache, evictions, saves, history>>

\* invalidateGuild
Invalidate(n, g) ==
  /\ Unlocked(n)
  /\ cache' = [cache EXCEPT ![n][g] = None]
  /\ unheard' = [unheard EXCEPT ![n] = @ \ {g}]

\* Mutant: the two publications are taken for one.
HandleEvictions(n, g) ==
  /\ evictions[n][g] > 0
  /\ evictions' = [evictions EXCEPT ![n][g] = @ - 2]
  /\ Invalidate(n, g)
  /\ UNCHANGED <<settings, redis, work, fetch, counts, overlapped, forgotten>>

\* An eviction arrives by pubsub.
HandleEviction(n, g) ==
  /\ evictions[n][g] > 0
  /\ evictions' = [evictions EXCEPT ![n][g] = @ - 1]
  /\ Invalidate(n, g)
  /\ UNCHANGED <<settings, redis, work, fetch, counts, overlapped, forgotten>>

\* UpdatePluginFeatureFlags ends with the copy of its own process.
EvictOwn(u) ==
  /\ job[u] # None /\ job[u].at = "evict"
  /\ job' = [job EXCEPT ![u] = None]
  /\ Invalidate(Home[u], job[u].guild)
  /\ UNCHANGED <<settings, redis, marking, batch, fetch, evictions, counts, overlapped, forgotten>>

\* guildRemoved, when the bot has left a guild.
GuildRemoved(n, g) ==
  /\ cache[n][g] # None
  /\ Invalidate(n, g)
  /\ UNCHANGED <<settings, redis, work, fetch, evictions, counts, overlapped, forgotten>>

-----------------------------------------------------------------------------
WorkerStep ==
  \/ PopHigh \/ PopLow
  \/ \E g \in Guilds : NextGuild(g)
  \/ \E deaf \in SUBSET Nodes : WorkerPublishes(deaf)

UpdaterStep(u) ==
  \/ \E p \in Plugins : Compute(u, p) \/ UpdateFails(u, p)
  \/ Add(u) \/ Remove(u)
  \/ \E deaf \in SUBSET Nodes : CallerPublishes(u, deaf)

Next ==
  \/ \E g \in Guilds, p \in Plugins, new \in SUBSET Flags :
       \/ SaveAndMark(g, p, new) \/ SaveMarked(g, p, new)
       \/ \E u \in Updaters : SaveAndUpdate(u, g, p, new)
  \/ \E g \in Guilds : MarkGuildDirty(g) \/ MarkerEnds(g)
  \/ WorkerStep
  \/ \E u \in Updaters : UpdaterStep(u) \/ EvictOwn(u) \/ UpdaterEnds(u)
  \/ \E n \in Nodes :
       \/ Store(n) \/ FetchFails(n)
       \/ \E g \in Guilds : Fetch(n, g) \/ HandleEviction(n, g) \/ GuildRemoved(n, g)

\* The worker's ticker, the goroutines of updaters and of MarkGuildDirty, and
\* fetches under way go on.  An eviction waits for the lock, and sync.RWMutex hands
\* it to whoever waited for long.
Fairness ==
  /\ WF_vars(WorkerStep)
  /\ \A u \in Updaters : WF_vars(UpdaterStep(u))
  /\ \A u \in Updaters \ {Worker} : SF_vars(EvictOwn(u))
  /\ WF_vars(\E g \in Guilds : MarkGuildDirty(g))
  /\ \A n \in Nodes : WF_vars(Store(n) \/ FetchFails(n)) /\ SF_vars(\E g \in Guilds : HandleEviction(n, g))

Spec == Init /\ [][Next]_vars /\ Fairness

-----------------------------------------------------------------------------
(* Properties. *)

TypeOK ==
  /\ settings \in [Guilds -> SUBSET Flags] /\ flags \in [Guilds -> SUBSET Flags]
  /\ high \subseteq Guilds /\ low \subseteq Guilds
  /\ marking \subseteq Guilds /\ batch \subseteq Guilds
  /\ job \in [Updaters -> {None} \cup Jobs]
  /\ cache \in [Nodes -> [Guilds -> {None} \cup SUBSET Flags]]
  /\ fetch \in [Nodes -> {None} \cup Fetches]
  /\ evictions \in [Nodes -> [Guilds -> Nat]]
  /\ saves \in 0 .. MaxSaves /\ faults \in 0 .. MaxFaults
  /\ unheard \in [Nodes -> SUBSET Guilds]
  /\ overlapped \subseteq Guilds \X Plugins /\ forgotten \subseteq Guilds \X Plugins

\* An eviction of g is on its way to n, or will be: an updater has yet to publish it.
EvictionComes(n, g) ==
  \/ evictions[n][g] > 0
  \/ \E u \in Updaters : WorkingOn(u, g) /\ job[u].at # "evict"
  \/ g \in unheard[n]

\* A copy of g differs from the flags in Redis, or one that is about to be stored.
Stale(n, g) ==
  \/ cache[n][g] \notin {None, flags[g]}
  \/ fetch[n] # None /\ fetch[n].guild = g /\ fetch[n].got # flags[g]

\* A copy that differs from the flags in Redis, or is about to be stored, is going
\* to be evicted, unless the process missed the eviction: the lock held during a
\* fetch makes the eviction wait for it (getGuildFlags, invalidateGuild).
CacheFollows == \A n \in Nodes, g \in Guilds : Stale(n, g) => EvictionComes(n, g)

Behind(g, p) == (flags[g] \cap FlagsOf[p]) # (settings[g] \cap FlagsOf[p])

\* Guilds that are marked, or will be, or whose mark was taken by the worker.
Listed == marking \cup high \cup low \cup batch

\* u has yet to compute or write the plugin's flags, or to mark the guild again.
Pending(u, g, p) == WorkingOn(u, g) /\ (p \in job[u].todo \/ (u = Worker /\ job[u].failed))

UpdateComes(g, p) == g \in Listed \/ \E u \in Updaters : Pending(u, g, p)

\* The exceptions of FlagsFollow.
Excused(g, p) == (p \in Direct /\ <<g, p>> \in overlapped) \/ <<g, p>> \in forgotten

\* Flags that differ from what the settings call for are going to be updated
\* (runUpdateDirtyFlags, UpdatePluginFeatureFlags), unless an error or a crash dropped the
\* update, or the guild was marked before the settings were saved, or, for a plugin that
\* updates its flags itself, two updaters wrote them at once and the one with the older
\* settings came last.
FlagsFollow ==
  \A g \in Guilds, p \in Plugins : Behind(g, p) => UpdateComes(g, p) \/ Excused(g, p)

\* What FlagsFollow rests on.  Other work than u's writing of p's flags will update them.
OtherComes(u, g, p) ==
  \/ g \in Listed
  \/ u = Worker /\ job[u].failed
  \/ \E v \in Updaters \ {u} : Pending(v, g, p)

\* The fields of a job agree with each other.
JobSound(u) ==
  /\ job[u].at \in {"add", "remove"} <=> job[u].plugin # None
  /\ job[u].plugin # None => Current(u, job[u].plugin) /\ job[u].want \subseteq FlagsOf[job[u].plugin]
  /\ job[u].at = "evict" => job[u].todo = {} /\ u # Worker
  /\ u # Worker => job[u].todo \subseteq Direct

\* What u writes is what the settings call for, and nobody else writes it.
WriteSound(u, g, p) ==
  /\ \/ job[u].want = settings[g] \cap FlagsOf[p]
     \/ OtherComes(u, g, p)
     \/ <<g, p>> \in overlapped \cup forgotten
  /\ Overlaps(u, g, p) => <<g, p>> \in overlapped
  /\ job[u].at = "remove" => job[u].want \subseteq flags[g] \/ <<g, p>> \in overlapped

UpdaterSound(u) ==
  job[u] # None =>
    JobSound(u) /\ (job[u].plugin # None => WriteSound(u, job[u].guild, job[u].plugin))

FlagsInv ==
  /\ \A u \in Updaters : UpdaterSound(u)
  /\ overlapped \subseteq Guilds \X Direct
  /\ FlagsFollow

\* Nothing is left to do for the flags and for the copy: they are what the settings
\* call for, but for what FlagsFollow and CacheFollows except.
Settled(n, g, p) ==
  \/ <<g, p>> \in overlapped \cup forgotten
  \/ g \in unheard[n]
  \/ ~Behind(g, p) /\ (cache[n][g] = None \/ cache[n][g] = flags[g])

\* Settings reach the flags in Redis and every process's copy of them.
SettingsArrive == <>[](\A n \in Nodes, g \in Guilds, p \in Plugins : Settled(n, g, p))
=============================================================================
