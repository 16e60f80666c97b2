-------------------------- MODULE FeatureFlagsProofs --------------------------
(***************************************************************************)
(* What the feature flags promise for any number of guilds, plugins,       *)
(* processes and updaters: a copy that is not what Redis has is going to   *)
(* be evicted.                                                             *)
(***************************************************************************)
EXTENDS FeatureFlags, TLAPS

-----------------------------------------------------------------------------
(* Types. *)

\* A record of Jobs with new fields is one of Jobs.
LEMMA JobFields ==
  ASSUME NEW j \in Jobs,
         NEW todo \in SUBSET Plugins, NEW plugin \in Plugins \cup {None}, NEW want \in SUBSET Flags,
         NEW at \in {"compute", "add", "remove", "evict"}, NEW failed \in BOOLEAN
  PROVE  /\ [j EXCEPT !.plugin = plugin, !.want = want, !.at = at] \in Jobs
         /\ [j EXCEPT !.at = at] \in Jobs
         /\ [j EXCEPT !.plugin = plugin, !.want = want, !.todo = todo, !.at = at, !.failed = failed]
              \in Jobs
BY DEF Jobs

\* An updater that is at work has a job.
LEMMA HasJob ==
  ASSUME TypeOK, NEW u \in Updaters, job[u] # None
  PROVE  /\ job[u] \in Jobs
         /\ job[u].guild \in Guilds /\ job[u].todo \in SUBSET Plugins
         /\ job[u].plugin \in Plugins \cup {None} /\ job[u].want \in SUBSET Flags
         /\ job[u].at \in {"compute", "add", "remove", "evict"} /\ job[u].failed \in BOOLEAN
<1>1. job[u] \in Jobs
  BY DEF TypeOK
<1>2. QED
  BY <1>1 DEF Jobs

\* Done keeps the type of the jobs.
LEMMA DoneType ==
  ASSUME TypeOK, NEW u \in Updaters, NEW p, NEW fails \in BOOLEAN, job[u] # None
  PROVE  Done(u, p, fails) \in [Updaters -> {None} \cup Jobs]
<1> DEFINE j == [job[u] EXCEPT !.plugin = None, !.want = {}, !.todo = @ \ {p}, !.at = "compute",
                               !.failed = @ \/ fails]
<1>1. (job[u].failed \/ fails) \in BOOLEAN /\ job[u].todo \ {p} \in SUBSET Plugins
  BY HasJob
<1>2. j \in Jobs
  BY <1>1, HasJob, JobFields
<1>3. Done(u, p, fails) = [job EXCEPT ![u] = j]
  BY DEF Done
<1>4. QED
  BY <1>2, <1>3 DEF TypeOK

\* A step of an updater that computes or writes a plugin's flags stays at the guild and
\* leaves the other updaters alone.
LEMMA AtWork ==
  ASSUME TypeOK, NEW u \in Updaters, NEW p,
         Compute(u, p) \/ UpdateFails(u, p) \/ Add(u) \/ Remove(u)
  PROVE  /\ job' \in [Updaters -> {None} \cup Jobs]
         /\ job[u] # None /\ job'[u] \in Jobs /\ job'[u] # None
         /\ job'[u].guild = job[u].guild /\ job'[u].at # "evict"
         /\ \A v \in Updaters \ {u} : job'[v] = job[v]
<1> USE NoneAssumption
<1>0. job[u] # None
  BY DEF Compute, UpdateFails, Add, Remove
<1>1. CASE Compute(u, p)
  <2> DEFINE r == [job[u] EXCEPT !.plugin = p, !.want = settings[job[u].guild] \cap FlagsOf[p],
                                 !.at = "add"]
  <2>1. job' = [job EXCEPT ![u] = r]
    BY <1>1 DEF Compute
  <2>2. settings[job[u].guild] \cap FlagsOf[p] \in SUBSET Flags
    BY <1>0, HasJob DEF TypeOK
  <2>3. r \in Jobs
    <3>1. p \in Plugins
      BY <1>0, <1>1, HasJob DEF Compute, Current
    <3>2. QED
      BY <1>0, <2>2, <3>1, HasJob, JobFields
  <2>4. r.guild = job[u].guild /\ r.at = "add"
    BY <1>0, HasJob DEF Jobs
  <2>5. QED
    BY <1>0, <2>1, <2>3, <2>4 DEF TypeOK
<1>2. CASE Add(u)
  <2> DEFINE r == [job[u] EXCEPT !.at = "remove"]
  <2>1. job' = [job EXCEPT ![u] = r]
    BY <1>2 DEF Add
  <2>2. r \in Jobs
    BY <1>0, HasJob, JobFields
  <2>3. r.guild = job[u].guild /\ r.at = "remove"
    BY <1>0, HasJob DEF Jobs
  <2>4. QED
    BY <1>0, <2>1, <2>2, <2>3 DEF TypeOK
<1>3. CASE UpdateFails(u, p) \/ Remove(u)
  <2>1. PICK q, fails : fails \in BOOLEAN /\ job' = Done(u, q, fails)
    BY <1>3 DEF UpdateFails, Remove
  <2> DEFINE r == [job[u] EXCEPT !.plugin = None, !.want = {}, !.todo = @ \ {q}, !.at = "compute",
                                 !.failed = @ \/ fails]
  <2>2. job' = [job EXCEPT ![u] = r]
    BY <2>1 DEF Done
  <2>3. job' \in [Updaters -> {None} \cup Jobs]
    BY <1>0, <2>1, DoneType
  <2>4. job'[u] = r
    BY <2>2 DEF TypeOK
  <2>5. (job[u].failed \/ fails) \in BOOLEAN /\ job[u].todo \ {q} \in SUBSET Plugins
    BY <1>0, HasJob
  <2>6. r \in Jobs
    BY <1>0, <2>5, HasJob, JobFields
  <2>7. r.guild = job[u].guild /\ r.at = "compute"
    BY <1>0, HasJob DEF Jobs
  <2>8. QED
    BY <1>0, <2>2, <2>4, <2>6, <2>7 DEF TypeOK
<1>4. QED
  BY <1>1, <1>2, <1>3

\* Saving settings keeps their type.
LEMMA SavedType ==
  ASSUME TypeOK, NEW g \in Guilds, NEW p \in Plugins, NEW new \in SUBSET Flags, Saved(g, p, new)
  PROVE  settings' \in [Guilds -> SUBSET Flags] /\ saves' \in 0 .. MaxSaves
<1>1. (settings[g] \ FlagsOf[p]) \cup new \in SUBSET Flags
  BY DEF TypeOK
<1>2. settings' \in [Guilds -> SUBSET Flags]
  BY <1>1 DEF TypeOK, Saved
<1>3. saves' \in 0 .. MaxSaves
  BY FlagsAssumption DEF TypeOK, Saved
<1>4. QED
  BY <1>2, <1>3

\* Every variable keeps its type through every step of updaters and caches.
THEOREM TypeTheorem == Spec => []TypeOK
<1> USE FlagsAssumption, NoneAssumption
<1>1. Init => TypeOK
  BY DEF Init, TypeOK, Flags
<1>2. TypeOK /\ [Next]_vars => TypeOK'
  <2> SUFFICES ASSUME TypeOK, [Next]_vars PROVE TypeOK'
    OBVIOUS
  <2> USE DEF TypeOK, redis, work, caches, counts, history, Fault
  <2>1. ASSUME NEW g \in Guilds, NEW p \in Plugins, NEW new \in SUBSET Flags,
               SaveAndMark(g, p, new) \/ SaveMarked(g, p, new)
        PROVE TypeOK'
    <3>1. settings' \in [Guilds -> SUBSET Flags] /\ saves' \in 0 .. MaxSaves
      BY <2>1, SavedType DEF SaveAndMark, SaveMarked
    <3>2. CASE SaveAndMark(g, p, new)
      BY <3>1, <3>2 DEF SaveAndMark
    <3>3. CASE SaveMarked(g, p, new)
      <4>1. forgotten' \subseteq Guilds \X Plugins
        BY <3>3 DEF SaveMarked
      <4>2. high' \subseteq Guilds
        BY <3>3 DEF SaveMarked
      <4>3. QED
        BY <3>1, <3>3, <4>1, <4>2 DEF SaveMarked
    <3>4. QED
      BY <2>1, <3>2, <3>3
  <2>2. ASSUME NEW u \in Updaters, NEW g \in Guilds, NEW p \in Plugins, NEW new \in SUBSET Flags,
               SaveAndUpdate(u, g, p, new)
        PROVE TypeOK'
    <3>1. settings' \in [Guilds -> SUBSET Flags] /\ saves' \in 0 .. MaxSaves
      BY <2>2, SavedType DEF SaveAndUpdate
    <3>2. Job(g, {p}) \in Jobs
      BY DEF Job, Jobs
    <3>3. QED
      BY <2>2, <3>1, <3>2 DEF SaveAndUpdate
  <2>3. ASSUME NEW g \in Guilds, MarkGuildDirty(g) \/ MarkerEnds(g) PROVE TypeOK'
    BY <2>3 DEF MarkGuildDirty, MarkerEnds
  <2>4. ASSUME PopHigh \/ PopLow PROVE TypeOK'
    BY <2>4 DEF PopHigh, PopLow, Popped
  <2>5. ASSUME NEW g \in Guilds, NextGuild(g) PROVE TypeOK'
    BY <2>5 DEF NextGuild, Job, Jobs
  <2>6. ASSUME NEW deaf \in SUBSET Nodes, WorkerPublishes(deaf) PROVE TypeOK'
    BY <2>6 DEF WorkerPublishes, Finished, Publish, Publications, Jobs
  <2>7. ASSUME NEW u \in Updaters, NEW p, Compute(u, p) \/ UpdateFails(u, p) \/ Add(u) \/ Remove(u)
        PROVE TypeOK'
    <3>1. job[u] # None /\ job' \in [Updaters -> {None} \cup Jobs]
      BY <2>7, AtWork
    <3>2. CASE Compute(u, p)
      <4>1. p \in Plugins
        BY <3>1, <3>2, HasJob DEF Compute, Current
      <4>2. overlapped' \subseteq Guilds \X Plugins /\ forgotten' \subseteq Guilds \X Plugins
        BY <3>1, <3>2, <4>1, HasJob DEF Compute
      <4>3. QED
        BY <3>1, <3>2, <4>2 DEF Compute
    <3>3. CASE UpdateFails(u, p)
      <4>1. p \in Plugins
        BY <3>1, <3>3, HasJob DEF UpdateFails, Current
      <4>2. forgotten' \subseteq Guilds \X Plugins
        BY <3>1, <3>3, <4>1, HasJob DEF UpdateFails
      <4>3. /\ UNCHANGED <<settings, redis, marking, batch, caches, saves, unheard, overlapped>>
            /\ faults' \in 0 .. MaxFaults
        BY <3>3 DEF UpdateFails
      <4>4. QED
        BY <3>1, <4>2, <4>3
    <3>4. CASE Add(u)
      <4>1. flags' \in [Guilds -> SUBSET Flags]
        BY <3>1, <3>4, HasJob DEF Add
      <4>2. QED
        BY <3>1, <3>4, <4>1 DEF Add
    <3>5. CASE Remove(u)
      <4>1. flags' \in [Guilds -> SUBSET Flags]
        BY <3>1, <3>5, HasJob DEF Remove
      <4>2. QED
        BY <3>1, <3>5, <4>1 DEF Remove
    <3>6. QED
      BY <2>7, <3>2, <3>3, <3>4, <3>5
  <2>8. ASSUME NEW u \in Updaters, NEW deaf \in SUBSET Nodes, CallerPublishes(u, deaf) PROVE TypeOK'
    <3>1. job[u] # None /\ job' = [job EXCEPT ![u] = [job[u] EXCEPT !.at = "evict"]]
      BY <2>8 DEF CallerPublishes, Finished
    <3>2. [job[u] EXCEPT !.at = "evict"] \in Jobs
      BY <3>1, HasJob, JobFields
    <3>3. job' \in [Updaters -> {None} \cup Jobs]
      BY <3>1, <3>2
    <3>4. QED
      BY <2>8, <3>1, <3>3, HasJob DEF CallerPublishes, Publish, Publications
  <2>9. ASSUME NEW u \in Updaters, EvictOwn(u) PROVE TypeOK'
    BY <2>9 DEF EvictOwn, Invalidate, Jobs
  <2>10. ASSUME NEW u \in Updaters, UpdaterEnds(u) PROVE TypeOK'
    BY <2>10 DEF UpdaterEnds, Jobs
  <2>11. ASSUME NEW n \in Nodes, Store(n) \/ FetchFails(n) PROVE TypeOK'
    <3>1. CASE Store(n)
      <4>1. fetch[n] \in Fetches
        BY <3>1 DEF Store, Unlocked
      <4>2. fetch[n].guild \in Guilds /\ fetch[n].got \in SUBSET Flags
        BY <4>1 DEF Fetches
      <4>3. QED
        BY <3>1, <4>2 DEF Store, Fetches
    <3>2. CASE FetchFails(n)
      BY <3>2 DEF FetchFails, Fault
    <3>3. QED
      BY <2>11, <3>1, <3>2
  <2>12. ASSUME NEW n \in Nodes, NEW g \in Guilds, Fetch(n, g) \/ HandleEviction(n, g) \/ GuildRemoved(n, g)
         PROVE TypeOK'
    <3>1. CASE Fetch(n, g)
      BY <3>1 DEF Fetch, Fetches
    <3>2. CASE HandleEviction(n, g)
      BY <3>2 DEF HandleEviction, Invalidate
    <3>3. CASE GuildRemoved(n, g)
      BY <3>3 DEF GuildRemoved, Invalidate
    <3>4. QED
      BY <2>12, <3>1, <3>2, <3>3
  <2>13. CASE UNCHANGED vars
    BY <2>13 DEF vars
  <2>14. QED
    BY <2>1, <2>2, <2>3, <2>4, <2>5, <2>6, <2>7, <2>8, <2>9, <2>10, <2>11, <2>12, <2>13
    DEF Next, WorkerStep, UpdaterStep
<1>3. QED
  BY <1>1, <1>2, PTL DEF Spec

-----------------------------------------------------------------------------
(* Copies. *)

\* A step that leaves Redis and the cache of a process alone, and takes nothing from
\* the evictions that come to it, keeps CacheFollows there.
LEMMA KeepsCopy ==
  ASSUME CacheFollows, NEW n \in Nodes, NEW g \in Guilds,
         UNCHANGED <<flags, cache, fetch>>, EvictionComes(n, g) => EvictionComes(n, g)'
  PROVE  Stale(n, g)' => EvictionComes(n, g)'
BY DEF CacheFollows, Stale

\* A job that has not ended keeps the evictions coming that come before the step.
LEMMA KeepsComing ==
  ASSUME TypeOK, NEW n \in Nodes, NEW g \in Guilds, NEW u \in Updaters,
         \A v \in Updaters \ {u} : job'[v] = job[v],
         WorkingOn(u, g) /\ job[u].at # "evict" => WorkingOn(u, g)' /\ job'[u].at # "evict",
         UNCHANGED <<evictions, unheard>>
  PROVE  EvictionComes(n, g) => EvictionComes(n, g)'
BY DEF EvictionComes, WorkingOn

\* Flags that change are those of the guild an updater works on, which publishes an
\* eviction at its end.
LEMMA WritesEvict ==
  ASSUME TypeOK, CacheFollows, NEW u \in Updaters, job[u] # None,
         job'[u] # None, job'[u].guild = job[u].guild, job'[u].at # "evict",
         \A v \in Updaters \ {u} : job'[v] = job[v],
         \A h \in Guilds \ {job[u].guild} : flags'[h] = flags[h],
         UNCHANGED <<cache, fetch, evictions, unheard>>
  PROVE  CacheFollows'
<1> SUFFICES ASSUME NEW n \in Nodes, NEW g \in Guilds, Stale(n, g)' PROVE EvictionComes(n, g)'
  BY DEF CacheFollows
<1>1. CASE g = job[u].guild
  BY <1>1 DEF EvictionComes, WorkingOn
<1>2. CASE g # job[u].guild
  <2>1. Stale(n, g)
    BY <1>2 DEF Stale
  <2>2. EvictionComes(n, g)
    BY <2>1 DEF CacheFollows
  <2>3. QED
    BY <1>2, <2>2, KeepsComing DEF WorkingOn
<1>3. QED
  BY <1>1, <1>2

\* An eviction empties the copy, and no fetch is under way.
LEMMA InvalidateKeeps ==
  ASSUME TypeOK, CacheFollows, NEW m \in Nodes, NEW h \in Guilds, Invalidate(m, h),
         UNCHANGED <<flags, fetch>>,
         \A n \in Nodes, g \in Guilds : n # m \/ g # h => evictions'[n][g] = evictions[n][g],
         \A u \in Updaters : job[u] # None /\ job[u].at # "evict" => job'[u] = job[u]
  PROVE  CacheFollows'
<1> SUFFICES ASSUME NEW n \in Nodes, NEW g \in Guilds, Stale(n, g)' PROVE EvictionComes(n, g)'
  BY DEF CacheFollows
<1>1. ~(n = m /\ g = h)
  BY DEF Stale, Invalidate, Unlocked, TypeOK
<1>2. Stale(n, g)
  BY <1>1 DEF Stale, Invalidate, TypeOK
<1>3. EvictionComes(n, g)
  BY <1>2 DEF CacheFollows
<1>4. evictions'[n][g] = evictions[n][g] /\ (g \in unheard[n] => g \in unheard'[n])
  BY <1>1 DEF Invalidate, TypeOK
<1>5. QED
  BY <1>3, <1>4 DEF EvictionComes, WorkingOn

\* The evictions of a guild are published: they come to a process, or it misses them.
LEMMA PublishKeeps ==
  ASSUME TypeOK, CacheFollows, NEW u \in Updaters, job[u] # None,
         NEW deaf \in SUBSET Nodes, Publish(job[u].guild, deaf),
         \A v \in Updaters \ {u} : job'[v] = job[v],
         UNCHANGED <<flags, cache, fetch>>
  PROVE  CacheFollows'
<1> SUFFICES ASSUME NEW n \in Nodes, NEW g \in Guilds, Stale(n, g)' PROVE EvictionComes(n, g)'
  BY DEF CacheFollows
<1>1. job[u].guild \in Guilds
  BY HasJob
<1>2. EvictionComes(n, g)
  BY DEF CacheFollows, Stale
<1>3. CASE g = job[u].guild
  <2>1. n \in deaf => g \in unheard'[n]
    BY <1>3 DEF Publish, TypeOK
  <2>2. n \notin deaf => evictions'[n][g] > 0
    BY <1>3 DEF Publish, Publications, TypeOK
  <2>3. QED
    BY <2>1, <2>2 DEF EvictionComes
<1>4. CASE g # job[u].guild
  <2>1. evictions'[n][g] = evictions[n][g] /\ (g \in unheard[n] => g \in unheard'[n])
    BY <1>4, <1>1 DEF Publish, TypeOK
  <2>2. QED
    BY <1>2, <1>4, <2>1 DEF EvictionComes, WorkingOn
<1>5. QED
  BY <1>3, <1>4

\* A copy that is not what Redis has is going to be evicted, in every process: the
\* lock that is held during a fetch keeps an eviction from passing it.
THEOREM CopiesTheorem == Spec => []CacheFollows
<1> USE FlagsAssumption, NoneAssumption
<1>1. Init => CacheFollows
  BY DEF Init, CacheFollows, Stale
<1>2. TypeOK /\ CacheFollows /\ [Next]_vars => CacheFollows'
  <2> SUFFICES ASSUME TypeOK, CacheFollows, [Next]_vars PROVE CacheFollows'
    OBVIOUS
  <2> USE DEF redis, work, caches, counts, history
  <2>1. ASSUME UNCHANGED <<flags, cache, fetch, evictions, unheard>>,
               \A u \in Updaters : job[u] # None => job'[u] = job[u]
        PROVE CacheFollows'
    <3> SUFFICES ASSUME NEW n \in Nodes, NEW g \in Guilds PROVE Stale(n, g)' => EvictionComes(n, g)'
      BY DEF CacheFollows
    <3>1. EvictionComes(n, g) => EvictionComes(n, g)'
      BY <2>1 DEF EvictionComes, WorkingOn
    <3>2. QED
      BY <2>1, <3>1, KeepsCopy
  <2>2. ASSUME NEW g \in Guilds, NEW p \in Plugins, NEW new \in SUBSET Flags,
               SaveAndMark(g, p, new) \/ SaveMarked(g, p, new)
        PROVE CacheFollows'
    BY <2>1, <2>2 DEF SaveAndMark, SaveMarked
  <2>3. ASSUME NEW u \in Updaters, NEW g \in Guilds, NEW p \in Plugins, NEW new \in SUBSET Flags,
               SaveAndUpdate(u, g, p, new)
        PROVE CacheFollows'
    BY <2>1, <2>3 DEF SaveAndUpdate, TypeOK
  <2>4. ASSUME NEW g \in Guilds, MarkGuildDirty(g) \/ MarkerEnds(g) PROVE CacheFollows'
    BY <2>1, <2>4 DEF MarkGuildDirty, MarkerEnds
  <2>5. ASSUME PopHigh \/ PopLow PROVE CacheFollows'
    BY <2>1, <2>5 DEF PopHigh, PopLow
  <2>6. ASSUME NEW g \in Guilds, NextGuild(g) PROVE CacheFollows'
    BY <2>1, <2>6 DEF NextGuild, TypeOK
  <2>7. ASSUME NEW deaf \in SUBSET Nodes, WorkerPublishes(deaf) PROVE CacheFollows'
    BY <2>7, PublishKeeps DEF WorkerPublishes, Finished, TypeOK
  <2>8. ASSUME NEW u \in Updaters, NEW p,
               Compute(u, p) \/ UpdateFails(u, p) \/ Add(u) \/ Remove(u)
        PROVE CacheFollows'
    <3>1. /\ job[u] # None /\ job'[u] # None
          /\ job'[u].guild = job[u].guild /\ job'[u].at # "evict"
          /\ \A v \in Updaters \ {u} : job'[v] = job[v]
      BY <2>8, AtWork
    <3>2. /\ \A h \in Guilds \ {job[u].guild} : flags'[h] = flags[h]
          /\ UNCHANGED <<cache, fetch, evictions, unheard>>
      BY <2>8 DEF Compute, UpdateFails, Add, Remove, TypeOK
    <3>3. QED
      BY <3>1, <3>2, WritesEvict
  <2>9. ASSUME NEW u \in Updaters, NEW deaf \in SUBSET Nodes, CallerPublishes(u, deaf)
         PROVE CacheFollows'
    BY <2>9, PublishKeeps DEF CallerPublishes, Finished, TypeOK
  <2>10. ASSUME NEW u \in Updaters, EvictOwn(u) PROVE CacheFollows'
    <3>1. Home[u] \in Nodes /\ job[u] # None /\ job[u].guild \in Guilds
      BY <2>10, HasJob DEF EvictOwn
    <3>2. \A v \in Updaters : job[v] # None /\ job[v].at # "evict" => job'[v] = job[v]
      BY <2>10 DEF EvictOwn, TypeOK
    <3>3. Invalidate(Home[u], job[u].guild) /\ UNCHANGED <<flags, fetch, evictions>>
      BY <2>10 DEF EvictOwn
    <3>4. QED
      BY <3>1, <3>2, <3>3, InvalidateKeeps
  <2>11. ASSUME NEW u \in Updaters, UpdaterEnds(u) PROVE CacheFollows'
    <3> SUFFICES ASSUME NEW n \in Nodes, NEW g \in Guilds PROVE Stale(n, g)' => EvictionComes(n, g)'
      BY DEF CacheFollows
    <3>1. WorkingOn(u, g) => g \in unheard'[n]
      BY <2>11 DEF UpdaterEnds, WorkingOn, TypeOK
    <3>2. g \in unheard[n] => g \in unheard'[n]
      BY <2>11 DEF UpdaterEnds, TypeOK
    <3>3. \A v \in Updaters \ {u} : job'[v] = job[v]
      BY <2>11 DEF UpdaterEnds, TypeOK
    <3>4. UNCHANGED <<flags, cache, fetch, evictions>>
      BY <2>11 DEF UpdaterEnds
    <3>5. EvictionComes(n, g) => EvictionComes(n, g)'
      BY <3>1, <3>2, <3>3, <3>4 DEF EvictionComes, WorkingOn
    <3>6. QED
      BY <3>4, <3>5, KeepsCopy
  <2>12. ASSUME NEW n \in Nodes, Store(n) \/ FetchFails(n) PROVE CacheFollows'
    <3> SUFFICES ASSUME NEW m \in Nodes, NEW g \in Guilds, Stale(m, g)' PROVE EvictionComes(m, g)'
      BY DEF CacheFollows
    <3>1. Stale(m, g)
      <4>1. CASE Store(n)
        BY <4>1 DEF Store, Unlocked, Stale, TypeOK, Fetches
      <4>2. CASE FetchFails(n)
        BY <4>2 DEF FetchFails, Unlocked, Stale, TypeOK, Fetches
      <4>3. QED
        BY <2>12, <4>1, <4>2
    <3>2. EvictionComes(m, g)
      BY <3>1 DEF CacheFollows
    <3>3. QED
      BY <2>12, <3>2 DEF Store, FetchFails, EvictionComes, WorkingOn
  <2>13. ASSUME NEW n \in Nodes, NEW g \in Guilds, Fetch(n, g) PROVE CacheFollows'
    <3> SUFFICES ASSUME NEW m \in Nodes, NEW h \in Guilds, Stale(m, h)' PROVE EvictionComes(m, h)'
      BY DEF CacheFollows
    <3>1. Stale(m, h)
      BY <2>13 DEF Fetch, Stale, TypeOK
    <3>2. EvictionComes(m, h)
      BY <3>1 DEF CacheFollows
    <3>3. QED
      BY <2>13, <3>2 DEF Fetch, EvictionComes, WorkingOn
  <2>14. ASSUME NEW n \in Nodes, NEW g \in Guilds, HandleEviction(n, g) PROVE CacheFollows'
    <3>1. \A m \in Nodes, h \in Guilds : m # n \/ h # g => evictions'[m][h] = evictions[m][h]
      BY <2>14 DEF HandleEviction, TypeOK
    <3>2. QED
      BY <2>14, <3>1, InvalidateKeeps DEF HandleEviction
  <2>15. ASSUME NEW n \in Nodes, NEW g \in Guilds, GuildRemoved(n, g) PROVE CacheFollows'
    BY <2>15, InvalidateKeeps DEF GuildRemoved
  <2>16. CASE UNCHANGED vars
    BY <2>16, <2>1 DEF vars
  <2>17. QED
    BY <2>2, <2>3, <2>4, <2>5, <2>6, <2>7, <2>8, <2>9, <2>10, <2>11, <2>12, <2>13, <2>14, <2>15,
       <2>16
    DEF Next, WorkerStep, UpdaterStep
<1>3. QED
  BY <1>1, <1>2, TypeTheorem, PTL DEF Spec

-----------------------------------------------------------------------------
(* Flags. *)

\* Work for p's flags of g that updaters of U have, or that is listed.
WorkOf(U, g, p) == g \in Listed \/ \E u \in U : Pending(u, g, p)

\* A step of the updaters in U that writes nothing and ends their writing, if any, that
\* drops no work but what is forgotten, and that leaves work for settings that change,
\* unless they are forgotten too, keeps the invariant.
LEMMA QuietStep ==
  ASSUME TypeOK, FlagsInv, NEW U \in SUBSET Updaters,
         \A v \in Updaters \ U : job'[v] = job[v],
         \A u \in U : job'[u] # None => JobSound(u)' /\ job'[u].plugin = None,
         UNCHANGED <<flags, overlapped>>,
         forgotten \subseteq forgotten',
         \A g \in Guilds, p \in Plugins :
           /\ WorkOf(U, g, p) => WorkOf(U, g, p)' \/ <<g, p>> \in forgotten'
           /\ \/ settings'[g] \cap FlagsOf[p] = settings[g] \cap FlagsOf[p]
              \/ WorkOf(U, g, p)' \/ <<g, p>> \in forgotten'
  PROVE  FlagsInv'
<1>1. ASSUME NEW v \in Updaters \ U PROVE UpdaterSound(v)'
  <2>1. CASE job[v] = None
    BY <1>1, <2>1 DEF UpdaterSound
  <2>2. CASE job[v] # None
    <3>1. job'[v] = job[v] /\ JobSound(v) /\ JobSound(v)'
      BY <1>1, <2>2 DEF FlagsInv, UpdaterSound, JobSound, Current
    <3>2. CASE job[v].plugin = None
      BY <3>1, <3>2 DEF UpdaterSound
    <3>3. CASE job[v].plugin # None
      <4> SUFFICES ASSUME NEW g \in Guilds, NEW p \in Plugins,
                          job[v].guild = g, job[v].plugin = p
                   PROVE UpdaterSound(v)'
        BY <2>2, <3>3, HasJob
      <4>1. WriteSound(v, g, p)
        BY <1>1, <2>2, <3>3 DEF FlagsInv, UpdaterSound
      <4>2. WorkOf(U, g, p)' => OtherComes(v, g, p)'
        BY <1>1 DEF WorkOf, OtherComes
      <4>3. OtherComes(v, g, p) => OtherComes(v, g, p)' \/ <<g, p>> \in forgotten'
        <5>1. ASSUME NEW w \in Updaters \ {v}, Pending(w, g, p)
              PROVE OtherComes(v, g, p)' \/ <<g, p>> \in forgotten'
          <6>1. CASE w \in U
            BY <4>2, <5>1, <6>1 DEF WorkOf
          <6>2. CASE w \notin U
            BY <5>1, <6>2 DEF Pending, WorkingOn, OtherComes
          <6>3. QED
            BY <6>1, <6>2
        <5>2. g \in Listed => OtherComes(v, g, p)' \/ <<g, p>> \in forgotten'
          BY <4>2 DEF WorkOf
        <5>3. v = Worker /\ job[v].failed => OtherComes(v, g, p)'
          BY <3>1 DEF OtherComes
        <5>4. QED
          BY <5>1, <5>2, <5>3 DEF OtherComes
      <4>4. Overlaps(v, g, p)' => Overlaps(v, g, p)
        <5> SUFFICES ASSUME NEW w \in Updaters \ {v}, WorkingOn(w, g)', job'[w].plugin = p
                     PROVE WorkingOn(w, g) /\ job[w].plugin = p
          BY DEF Overlaps
        <5>1. w \notin U
          BY NoneAssumption DEF WorkingOn
        <5>2. QED
          BY <5>1 DEF WorkingOn
      <4>5. WriteSound(v, g, p)'
        <5>1. job'[v].at = "remove" => job'[v].want \subseteq flags'[g] \/ <<g, p>> \in overlapped'
          BY <3>1, <4>1 DEF WriteSound
        <5>2. Overlaps(v, g, p)' => <<g, p>> \in overlapped'
          BY <4>1, <4>4 DEF WriteSound
        <5>3. \/ job'[v].want = settings'[g] \cap FlagsOf[p]
              \/ OtherComes(v, g, p)'
              \/ <<g, p>> \in overlapped' \cup forgotten'
          BY <3>1, <4>1, <4>2, <4>3 DEF WriteSound
        <5>4. QED
          BY <5>1, <5>2, <5>3 DEF WriteSound
      <4>6. QED
        BY <3>1, <4>5 DEF UpdaterSound
    <3>4. QED
      BY <3>2, <3>3
  <2>3. QED
    BY <2>1, <2>2
<1>2. ASSUME NEW u \in U PROVE UpdaterSound(u)'
  BY <1>2 DEF UpdaterSound
<1>3. FlagsFollow'
  <2> SUFFICES ASSUME NEW g \in Guilds, NEW p \in Plugins, Behind(g, p)'
               PROVE UpdateComes(g, p)' \/ Excused(g, p)'
    BY DEF FlagsFollow
  <2>1. WorkOf(U, g, p)' => UpdateComes(g, p)'
    BY DEF WorkOf, UpdateComes
  <2>2. CASE Behind(g, p)
    <3>1. UpdateComes(g, p) \/ Excused(g, p)
      BY <2>2 DEF FlagsInv, FlagsFollow
    <3>2. Excused(g, p) => Excused(g, p)'
      BY DEF Excused
    <3>3. ASSUME NEW v \in Updaters \ U, Pending(v, g, p) PROVE UpdateComes(g, p)'
      BY <3>3 DEF Pending, WorkingOn, UpdateComes
    <3>4. UpdateComes(g, p) => UpdateComes(g, p)' \/ Excused(g, p)'
      BY <2>1, <3>3 DEF UpdateComes, WorkOf, Excused
    <3>5. QED
      BY <3>1, <3>2, <3>4
  <2>3. CASE ~Behind(g, p)
    BY <2>1, <2>3 DEF Behind, Excused
  <2>4. QED
    BY <2>2, <2>3
<1>4. QED
  BY <1>1, <1>2, <1>3 DEF FlagsInv

\* Plugins have no flag in common.
LEMMA Disjoint ==
  ASSUME NEW p \in Plugins, NEW q \in Plugins, p # q
  PROVE  FlagsOf[p] \cap FlagsOf[q] = {}
BY FlagsAssumption

\* A step of u at plugin q of guild h, which it computes or writes, keeps the invariant
\* if it does so for q's flags of h and for u: another updater that writes them too has
\* made the two overlap, and nothing else changes.
LEMMA WriteStep ==
  ASSUME TypeOK, FlagsInv, NEW u \in Updaters, NEW q \in Plugins, NEW h \in Guilds,
         job[u] # None, job'[u] # None,
         job[u].guild = h, job'[u].guild = h, job'[u].failed = job[u].failed,
         job[u].plugin \in {None, q}, job'[u].plugin \in {None, q},
         \A p \in Plugins \ {q} : p \in job[u].todo => p \in job'[u].todo,
         \A v \in Updaters \ {u} : job'[v] = job[v],
         UNCHANGED <<settings, marking, high, low, batch>>,
         \A g \in Guilds, p \in Plugins : g # h \/ p # q =>
           /\ flags'[g] \cap FlagsOf[p] = flags[g] \cap FlagsOf[p]
           /\ <<g, p>> \in overlapped' <=> <<g, p>> \in overlapped
           /\ <<g, p>> \in forgotten' <=> <<g, p>> \in forgotten,
         overlapped' \subseteq Guilds \X Direct,
         Overlaps(u, h, q) => <<h, q>> \in overlapped',
         JobSound(u)',
         job'[u].plugin # None => WriteSound(u, h, q)',
         Behind(h, q)' => UpdateComes(h, q)' \/ Excused(h, q)'
  PROVE  FlagsInv'
<1>1. ASSUME NEW v \in Updaters, NEW g \in Guilds, NEW p \in Plugins, g # h \/ p # q, Pending(v, g, p)
      PROVE Pending(v, g, p)'
  BY <1>1 DEF Pending, WorkingOn
<1>2. ASSUME NEW v \in Updaters \ {u} PROVE UpdaterSound(v)'
  <2>1. CASE job[v] = None
    BY <2>1 DEF UpdaterSound
  <2>2. CASE job[v] # None
    <3>1. job'[v] = job[v] /\ JobSound(v) /\ JobSound(v)'
      BY <2>2 DEF FlagsInv, UpdaterSound, JobSound, Current
    <3>2. CASE job[v].plugin = None
      BY <3>1, <3>2 DEF UpdaterSound
    <3>3. CASE job[v].plugin # None
      <4> SUFFICES ASSUME NEW g \in Guilds, NEW p \in Plugins,
                          job[v].guild = g, job[v].plugin = p
                   PROVE WriteSound(v, g, p)'
        BY <2>2, <3>1, <3>3, HasJob DEF UpdaterSound
      <4>1. WriteSound(v, g, p)
        BY <2>2, <3>3 DEF FlagsInv, UpdaterSound
      <4>2. CASE g = h /\ p = q
        <5>1. <<g, p>> \in overlapped'
          BY <2>2, <4>2 DEF Overlaps, WorkingOn
        <5>2. QED
          BY <5>1 DEF WriteSound
      <4>3. CASE g # h \/ p # q
        <5>1. OtherComes(v, g, p) => OtherComes(v, g, p)'
          BY <1>1, <3>1, <4>3 DEF OtherComes, Listed
        <5>2. ASSUME NEW w \in Updaters \ {v}, WorkingOn(w, g)', job'[w].plugin = p
              PROVE WorkingOn(w, g) /\ job[w].plugin = p
          <6>1. w # u
            BY <4>3, <5>2, NoneAssumption DEF WorkingOn
          <6>2. QED
            BY <5>2, <6>1 DEF WorkingOn
        <5>3. Overlaps(v, g, p)' => Overlaps(v, g, p)
          BY <5>2 DEF Overlaps
        <5>4. job[v].plugin # None => job[v].want \subseteq FlagsOf[p]
          BY <3>1 DEF JobSound
        <5>5. job[v].want \subseteq flags[g] => job'[v].want \subseteq flags'[g]
          BY <3>1, <3>3, <4>3, <5>4
        <5>6. QED
          BY <3>1, <4>1, <4>3, <5>1, <5>3, <5>5 DEF WriteSound
      <4>4. QED
        BY <4>2, <4>3
    <3>4. QED
      BY <3>2, <3>3
  <2>3. QED
    BY <2>1, <2>2
<1>3. UpdaterSound(u)'
  BY DEF UpdaterSound
<1>4. FlagsFollow'
  <2> SUFFICES ASSUME NEW g \in Guilds, NEW p \in Plugins, Behind(g, p)', g # h \/ p # q
               PROVE UpdateComes(g, p)' \/ Excused(g, p)'
    BY DEF FlagsFollow
  <2>1. UpdateComes(g, p) \/ Excused(g, p)
    BY DEF FlagsInv, FlagsFollow, Behind
  <2>2. UpdateComes(g, p) => UpdateComes(g, p)'
    BY <1>1 DEF UpdateComes, Listed
  <2>3. QED
    BY <2>1, <2>2 DEF Excused
<1>5. QED
  BY <1>2, <1>3, <1>4 DEF FlagsInv

\* Computing flags keeps the invariant: the flags wanted are what the settings call for,
\* and the plugin is still to be written.
LEMMA ComputeKeeps ==
  ASSUME TypeOK, FlagsInv, NEW u \in Updaters, NEW q \in Plugins, Compute(u, q)
  PROVE  FlagsInv'
<1>1. PICK g \in Guilds : g = job[u].guild
  BY HasJob DEF Compute
<1>2. /\ job[u] # None /\ job[u] \in Jobs /\ job[u].at = "compute" /\ Current(u, q)
      /\ job[u].plugin = None
  BY HasJob DEF Compute, FlagsInv, UpdaterSound, JobSound
<1>3. /\ job'[u] = [job[u] EXCEPT !.plugin = q, !.want = settings[g] \cap FlagsOf[q], !.at = "add"]
      /\ \A v \in Updaters \ {u} : job'[v] = job[v]
  BY <1>1 DEF Compute, TypeOK
<1>4. /\ job'[u] # None /\ job'[u].guild = g /\ job'[u].plugin = q
      /\ job'[u].want = settings[g] \cap FlagsOf[q] /\ job'[u].at = "add"
      /\ job'[u].todo = job[u].todo /\ job'[u].failed = job[u].failed
  BY <1>1, <1>2, <1>3, AtWork DEF Jobs
<1>5. overlapped' = IF Overlaps(u, g, q) THEN overlapped \cup {<<g, q>>} ELSE overlapped \ {<<g, q>>}
  BY <1>1 DEF Compute
<1>6. Overlaps(u, g, q) => q \in Direct
  <2> SUFFICES ASSUME NEW v \in Updaters \ {u}, WorkingOn(v, g), job[v].plugin = q
               PROVE q \in Direct
    BY DEF Overlaps
  <2>1. q \in job[v].todo /\ JobSound(v) /\ JobSound(u)
    BY <1>2, NoneAssumption DEF WorkingOn, FlagsInv, UpdaterSound, JobSound, Current
  <2>2. q \in job[u].todo
    BY <1>2 DEF Current
  <2>3. QED
    BY <2>1, <2>2 DEF JobSound
<1>7. overlapped' \subseteq Guilds \X Direct
  BY <1>5, <1>6 DEF FlagsInv
<1>8. JobSound(u)'
  BY <1>2, <1>4, NoneAssumption DEF FlagsInv, UpdaterSound, JobSound, Current
<1>9. WriteSound(u, g, q)'
  <2>1. Overlaps(u, g, q)' => Overlaps(u, g, q)
    BY <1>3 DEF Overlaps, WorkingOn
  <2>2. settings' = settings
    BY DEF Compute
  <2>3. QED
    BY <1>4, <1>5, <2>1, <2>2 DEF WriteSound
<1>10. UpdateComes(g, q)'
  BY <1>2, <1>4 DEF UpdateComes, Pending, WorkingOn, Current
<1>11. \A k \in Guilds, p \in Plugins : k # g \/ p # q =>
         /\ flags'[k] \cap FlagsOf[p] = flags[k] \cap FlagsOf[p]
         /\ <<k, p>> \in overlapped' <=> <<k, p>> \in overlapped
         /\ <<k, p>> \in forgotten' <=> <<k, p>> \in forgotten
  BY <1>1, <1>5 DEF Compute, redis
<1>12. UNCHANGED <<settings, marking, high, low, batch>>
  BY DEF Compute, redis
<1>13. Overlaps(u, g, q) => <<g, q>> \in overlapped'
  BY <1>5
<1>14. /\ \A p \in Plugins \ {q} : p \in job[u].todo => p \in job'[u].todo
       /\ \A v \in Updaters \ {u} : job'[v] = job[v]
       /\ job[u] # None /\ job'[u] # None
       /\ job[u].guild = g /\ job'[u].guild = g /\ job'[u].failed = job[u].failed
       /\ job[u].plugin \in {None, q} /\ job'[u].plugin \in {None, q}
  BY <1>1, <1>2, <1>3, <1>4
<1>15. QED
  BY <1>7, <1>8, <1>9, <1>10, <1>11, <1>12, <1>13, <1>14, WriteStep

\* Adding flags keeps the invariant: those wanted are active then.
LEMMA AddKeeps ==
  ASSUME TypeOK, FlagsInv, NEW u \in Updaters, Add(u)
  PROVE  FlagsInv'
<1>1. /\ job[u] # None /\ job[u] \in Jobs /\ job[u].at = "add"
      /\ JobSound(u) /\ job[u].plugin # None
  BY HasJob DEF Add, FlagsInv, UpdaterSound, JobSound
<1>2. PICK g \in Guilds, q \in Plugins : g = job[u].guild /\ q = job[u].plugin
  BY <1>1, HasJob
<1>3. /\ job'[u] = [job[u] EXCEPT !.at = "remove"]
      /\ \A v \in Updaters \ {u} : job'[v] = job[v]
  BY DEF Add, TypeOK
<1>4. /\ job'[u] # None /\ job'[u].guild = g /\ job'[u].plugin = q
      /\ job'[u].want = job[u].want /\ job'[u].at = "remove"
      /\ job'[u].todo = job[u].todo /\ job'[u].failed = job[u].failed
  BY <1>1, <1>2, <1>3, AtWork DEF Jobs
<1>5. flags' = [flags EXCEPT ![g] = @ \cup job[u].want]
  BY <1>2 DEF Add
<1>6. job[u].want \subseteq FlagsOf[q]
  BY <1>1, <1>2 DEF JobSound
<1>7. UNCHANGED <<settings, marking, high, low, batch, overlapped, forgotten>>
  BY DEF Add, history
<1>8. \A k \in Guilds, p \in Plugins : k # g \/ p # q =>
        /\ flags'[k] \cap FlagsOf[p] = flags[k] \cap FlagsOf[p]
        /\ <<k, p>> \in overlapped' <=> <<k, p>> \in overlapped
        /\ <<k, p>> \in forgotten' <=> <<k, p>> \in forgotten
  BY <1>5, <1>6, <1>7, Disjoint DEF TypeOK
<1>9. JobSound(u)'
  BY <1>1, <1>2, <1>4 DEF JobSound, Current
<1>10. WriteSound(u, g, q)'
  <2>1. WriteSound(u, g, q)
    BY <1>1, <1>2 DEF FlagsInv, UpdaterSound
  <2>2. Overlaps(u, g, q)' => Overlaps(u, g, q)
    BY <1>3 DEF Overlaps, WorkingOn
  <2>3. OtherComes(u, g, q) => OtherComes(u, g, q)'
    BY <1>3, <1>4, <1>7 DEF OtherComes, Pending, WorkingOn, Listed
  <2>4. job'[u].want \subseteq flags'[g]
    BY <1>4, <1>5 DEF TypeOK
  <2>5. QED
    BY <1>4, <1>7, <2>1, <2>2, <2>3, <2>4 DEF WriteSound
<1>11. UpdateComes(g, q)'
  BY <1>1, <1>2, <1>4 DEF UpdateComes, Pending, WorkingOn, JobSound, Current
<1>12. Overlaps(u, g, q) => <<g, q>> \in overlapped'
  BY <1>1, <1>2, <1>7 DEF FlagsInv, UpdaterSound, WriteSound
<1>13. overlapped' \subseteq Guilds \X Direct
  BY <1>7 DEF FlagsInv
<1>14. \A p \in Plugins \ {q} : p \in job[u].todo => p \in job'[u].todo
  BY <1>4
<1>15. QED
  BY <1>1, <1>2, <1>3, <1>4, <1>7, <1>8, <1>9, <1>10, <1>11, <1>12, <1>13, <1>14, WriteStep

\* Removing flags ends the writing: Redis has what was wanted, or the writing overlapped.
LEMMA RemoveKeeps ==
  ASSUME TypeOK, FlagsInv, NEW u \in Updaters, Remove(u)
  PROVE  FlagsInv'
<1>1. /\ job[u] # None /\ job[u] \in Jobs /\ job[u].at = "remove"
      /\ JobSound(u) /\ job[u].plugin # None
  BY HasJob DEF Remove, FlagsInv, UpdaterSound, JobSound
<1>2. PICK g \in Guilds, q \in Plugins : g = job[u].guild /\ q = job[u].plugin
  BY <1>1, HasJob
<1>3. \A v \in Updaters \ {u} : job'[v] = job[v]
  BY DEF Remove, Done, TypeOK
<1>4. /\ job'[u] # None /\ job'[u].guild = g /\ job'[u].plugin = None
      /\ job'[u].at = "compute"
      /\ job'[u].todo = job[u].todo \ {q} /\ job'[u].failed = job[u].failed
  <2>1. job'[u] # None
    BY AtWork
  <2>2. job'[u] = [job[u] EXCEPT !.plugin = None, !.want = {}, !.todo = @ \ {q}, !.at = "compute",
                                 !.failed = @ \/ FALSE]
    BY <1>2 DEF Remove, Done, TypeOK
  <2>3. job'[u].failed = (job[u].failed \/ FALSE)
    BY <1>1, <2>2 DEF Jobs
  <2>4. job'[u].failed = job[u].failed
    BY <1>1, <2>3, HasJob
  <2>5. QED
    BY <1>1, <1>2, <2>1, <2>2, <2>4 DEF Jobs
<1>5. flags' = [flags EXCEPT ![g] = @ \ (FlagsOf[q] \ job[u].want)]
  BY <1>2 DEF Remove
<1>6. job[u].want \subseteq FlagsOf[q]
  BY <1>1, <1>2 DEF JobSound
<1>7. UNCHANGED <<settings, marking, high, low, batch, overlapped, forgotten>>
  BY DEF Remove, history
<1>8. \A k \in Guilds, p \in Plugins : k # g \/ p # q =>
        /\ flags'[k] \cap FlagsOf[p] = flags[k] \cap FlagsOf[p]
        /\ <<k, p>> \in overlapped' <=> <<k, p>> \in overlapped
        /\ <<k, p>> \in forgotten' <=> <<k, p>> \in forgotten
  BY <1>5, <1>7, Disjoint DEF TypeOK
<1>9. JobSound(u)'
  BY <1>1, <1>4 DEF JobSound
<1>10. WriteSound(u, g, q)
  BY <1>1, <1>2 DEF FlagsInv, UpdaterSound
<1>11. overlapped' \subseteq Guilds \X Direct
  BY <1>7 DEF FlagsInv
<1>12. ASSUME Behind(g, q)' PROVE UpdateComes(g, q)' \/ Excused(g, q)'
  <2>1. CASE <<g, q>> \in overlapped \cup forgotten
    BY <1>7, <1>11, <2>1 DEF Excused
  <2>2. CASE <<g, q>> \notin overlapped \cup forgotten
    <3>1. job[u].want \subseteq flags[g]
      BY <1>1, <1>10, <2>2 DEF WriteSound
    <3>2. flags'[g] \cap FlagsOf[q] = job[u].want
      BY <1>5, <1>6, <3>1 DEF TypeOK
    <3>3. OtherComes(u, g, q)
      BY <1>7, <1>10, <1>12, <2>2, <3>2 DEF WriteSound, Behind
    <3>4. QED
      BY <1>1, <1>3, <1>4, <1>7, <3>3 DEF OtherComes, UpdateComes, Pending, WorkingOn, Listed
  <2>3. QED
    BY <2>1, <2>2
<1>13. Overlaps(u, g, q) => <<g, q>> \in overlapped'
  BY <1>7, <1>10 DEF WriteSound
<1>14. \A p \in Plugins \ {q} : p \in job[u].todo => p \in job'[u].todo
  BY <1>4
<1>15. QED
  BY <1>1, <1>2, <1>3, <1>4, <1>7, <1>8, <1>9, <1>11, <1>12, <1>13, <1>14, WriteStep

\* The invariant behind FlagsFollow holds from the start, when guilds are marked if
\* there are flags that were never computed.
LEMMA FlagsInvInit ==
  ASSUME Init
  PROVE  FlagsInv
<1>1. \A u \in Updaters : UpdaterSound(u)
  BY DEF Init, UpdaterSound
<1>2. FlagsFollow
  <2> SUFFICES ASSUME NEW g \in Guilds, NEW p \in Plugins, Behind(g, p) PROVE g \in low
    BY DEF FlagsFollow, UpdateComes, Listed
  <2>1. ~(Flags \subseteq Initialized)
    BY DEF Init, Behind, Flags
  <2>2. QED
    BY <2>1 DEF Init
<1>3. QED
  BY <1>1, <1>2 DEF FlagsInv, Init

\* Flags that differ from what the settings call for are going to be updated, unless an
\* error or a crash dropped the update or two updaters wrote them at once.
THEOREM UpdatesTheorem == Spec => []FlagsFollow
<1> USE FlagsAssumption, NoneAssumption
<1>1. TypeOK /\ FlagsInv /\ [Next]_vars => FlagsInv'
  <2> SUFFICES ASSUME TypeOK, FlagsInv, [Next]_vars PROVE FlagsInv'
    OBVIOUS
  <2> USE DEF redis, work, caches, counts, history
  <2>1. ASSUME UNCHANGED <<flags, overlapped, settings>>,
               \A u \in Updaters : job'[u] = job[u],
               forgotten \subseteq forgotten',
               \A g \in Guilds, p \in Plugins :
                 g \in Listed => g \in Listed' \/ <<g, p>> \in forgotten'
        PROVE FlagsInv'
    <3>1. \A g \in Guilds, p \in Plugins : WorkOf({}, g, p) <=> g \in Listed
      BY DEF WorkOf
    <3>2. \A g \in Guilds, p \in Plugins : WorkOf({}, g, p)' <=> g \in Listed'
      BY DEF WorkOf
    <3>3. QED
      BY <2>1, <3>1, <3>2, QuietStep
  <2>2. ASSUME NEW g \in Guilds, NEW p \in Plugins, NEW new \in SUBSET Flags, SaveAndMark(g, p, new)
        PROVE FlagsInv'
    <3>1. \A h \in Guilds, q \in Plugins :
            /\ WorkOf({}, h, q) => WorkOf({}, h, q)'
            /\ settings'[h] \cap FlagsOf[q] = settings[h] \cap FlagsOf[q] \/ WorkOf({}, h, q)'
      BY <2>2 DEF SaveAndMark, Saved, WorkOf, Listed, TypeOK
    <3>2. QED
      BY <2>2, <3>1, QuietStep DEF SaveAndMark
  <2>3. ASSUME NEW g \in Guilds, NEW p \in Plugins, NEW new \in SUBSET Flags, SaveMarked(g, p, new)
        PROVE FlagsInv'
    <3>1. g \in Listed' \/ <<g, p>> \in forgotten'
      BY <2>3 DEF SaveMarked, Listed
    <3>2. ASSUME NEW h \in Guilds, NEW q \in Plugins
          PROVE /\ WorkOf({}, h, q) => WorkOf({}, h, q)'
                /\ \/ settings'[h] \cap FlagsOf[q] = settings[h] \cap FlagsOf[q]
                   \/ WorkOf({}, h, q)' \/ <<h, q>> \in forgotten'
      <4>1. WorkOf({}, h, q) => WorkOf({}, h, q)'
        BY <2>3 DEF SaveMarked, WorkOf, Listed
      <4>2. CASE h = g /\ q = p
        BY <3>1, <4>1, <4>2 DEF WorkOf
      <4>3. CASE h # g \/ q # p
        BY <2>3, <4>1, <4>3, Disjoint DEF SaveMarked, Saved, TypeOK
      <4>4. QED
        BY <4>2, <4>3
    <3>3. UNCHANGED <<flags, overlapped, job>> /\ forgotten \subseteq forgotten'
      BY <2>3 DEF SaveMarked
    <3>4. QED
      BY <3>2, <3>3, QuietStep
  <2>4. ASSUME NEW u \in Updaters, NEW g \in Guilds, NEW p \in Plugins, NEW new \in SUBSET Flags,
               SaveAndUpdate(u, g, p, new)
        PROVE FlagsInv'
    <3>1. /\ job'[u] = Job(g, {p}) /\ Job(g, {p}) \in Jobs
          /\ \A v \in Updaters \ {u} : job'[v] = job[v]
      BY <2>4 DEF SaveAndUpdate, TypeOK, Job, Jobs
    <3>2. job'[u] # None /\ JobSound(u)' /\ job'[u].plugin = None
      <4>1. job'[u].at = "compute" /\ job'[u].plugin = None /\ job'[u].todo = {p} /\ p \in Direct
        BY <2>4, <3>1 DEF SaveAndUpdate, Job
      <4>2. QED
        BY <3>1, <4>1 DEF JobSound
    <3>3. WorkOf({u}, g, p)'
      BY <3>1, <3>2 DEF WorkOf, Pending, WorkingOn, Job
    <3>4. ASSUME NEW h \in Guilds, NEW q \in Plugins
          PROVE /\ WorkOf({u}, h, q) => WorkOf({u}, h, q)'
                /\ settings'[h] \cap FlagsOf[q] = settings[h] \cap FlagsOf[q] \/ WorkOf({u}, h, q)'
      <4>1. WorkOf({u}, h, q) => WorkOf({u}, h, q)'
        BY <2>4 DEF SaveAndUpdate, WorkOf, Listed, Pending, WorkingOn
      <4>2. CASE h = g /\ q = p
        BY <3>3, <4>1, <4>2
      <4>3. CASE h # g
        BY <2>4, <4>1, <4>3 DEF SaveAndUpdate, Saved, TypeOK
      <4>4. CASE q # p
        <5>1. new \subseteq FlagsOf[p] /\ FlagsOf[p] \cap FlagsOf[q] = {}
          BY <2>4, <4>4, Disjoint DEF SaveAndUpdate, Saved
        <5>2. settings'[h] \cap FlagsOf[q] = settings[h] \cap FlagsOf[q]
          BY <2>4, <5>1 DEF SaveAndUpdate, Saved, TypeOK
        <5>3. QED
          BY <4>1, <5>2
      <4>5. QED
        BY <4>2, <4>3, <4>4
    <3>5. UNCHANGED <<flags, overlapped, forgotten>>
      BY <2>4 DEF SaveAndUpdate
    <3>6. QED
      BY <3>1, <3>2, <3>4, <3>5, QuietStep
  <2>5. ASSUME NEW g \in Guilds, MarkGuildDirty(g) \/ MarkerEnds(g) PROVE FlagsInv'
    BY <2>1, <2>5 DEF MarkGuildDirty, MarkerEnds, Listed
  <2>6. ASSUME PopHigh \/ PopLow PROVE FlagsInv'
    BY <2>1, <2>6 DEF PopHigh, PopLow, Popped, Listed
  <2>7. ASSUME NEW g \in Guilds, NextGuild(g) PROVE FlagsInv'
    <3>1. /\ job'[Worker] = Job(g, Plugins) /\ Job(g, Plugins) \in Jobs
          /\ \A v \in Updaters \ {Worker} : job'[v] = job[v]
      BY <2>7 DEF NextGuild, TypeOK, Job, Jobs
    <3>2. job'[Worker] # None /\ JobSound(Worker)' /\ job'[Worker].plugin = None
      <4>1. job'[Worker].at = "compute" /\ job'[Worker].plugin = None
        BY <3>1 DEF Job
      <4>2. QED
        BY <3>1, <4>1 DEF JobSound
    <3>3. \A q \in Plugins : WorkOf({Worker}, g, q)'
      BY <3>1, <3>2 DEF WorkOf, Pending, WorkingOn, Job
    <3>4. \A h \in Guilds, q \in Plugins : WorkOf({Worker}, h, q) => WorkOf({Worker}, h, q)'
      BY <2>7, <3>3 DEF NextGuild, WorkOf, Listed, Pending, WorkingOn
    <3>5. UNCHANGED <<settings, flags, overlapped, forgotten>>
      BY <2>7 DEF NextGuild
    <3>6. QED
      BY <3>1, <3>2, <3>4, <3>5, QuietStep
  <2>8. ASSUME NEW deaf \in SUBSET Nodes, WorkerPublishes(deaf) PROVE FlagsInv'
    <3>1. job'[Worker] = None /\ \A v \in Updaters \ {Worker} : job'[v] = job[v]
      BY <2>8 DEF WorkerPublishes, TypeOK
    <3>2. ASSUME NEW h \in Guilds, NEW q \in Plugins, WorkOf({Worker}, h, q)
          PROVE WorkOf({Worker}, h, q)' \/ <<h, q>> \in forgotten'
      BY <2>8, <3>2 DEF WorkerPublishes, Finished, WorkOf, Listed, Pending, WorkingOn
    <3>3. UNCHANGED <<settings, flags, overlapped>> /\ forgotten \subseteq forgotten'
      BY <2>8 DEF WorkerPublishes
    <3>4. QED
      BY <3>1, <3>2, <3>3, QuietStep
  <2>9. ASSUME NEW u \in Updaters, NEW q \in Plugins, Compute(u, q) PROVE FlagsInv'
    BY <2>9, ComputeKeeps
  <2>10. ASSUME NEW u \in Updaters, Add(u) \/ Remove(u) PROVE FlagsInv'
    BY <2>10, AddKeeps, RemoveKeeps
  <2>11. ASSUME NEW u \in Updaters, NEW q \in Plugins, UpdateFails(u, q) PROVE FlagsInv'
    <3>1. job[u] # None /\ job[u] \in Jobs /\ job'[u] # None /\ JobSound(u) /\ Current(u, q)
      BY <2>11, AtWork, HasJob DEF UpdateFails, FlagsInv, UpdaterSound
    <3>2. /\ job'[u] = [job[u] EXCEPT !.plugin = None, !.want = {}, !.todo = @ \ {q}, !.at = "compute",
                                     !.failed = @ \/ TRUE]
          /\ \A v \in Updaters \ {u} : job'[v] = job[v]
      BY <2>11 DEF UpdateFails, Done, TypeOK
    <3>3. /\ job'[u].guild = job[u].guild /\ job'[u].plugin = None /\ job'[u].at = "compute"
          /\ job'[u].todo = job[u].todo \ {q} /\ job'[u].failed = TRUE
      BY <3>1, <3>2 DEF Jobs
    <3>4. JobSound(u)'
      BY <3>1, <3>3 DEF JobSound
    <3>5. ASSUME NEW h \in Guilds, NEW p \in Plugins, WorkOf({u}, h, p)
          PROVE WorkOf({u}, h, p)' \/ <<h, p>> \in forgotten'
      BY <2>11, <3>1, <3>3, <3>5 DEF UpdateFails, WorkOf, Listed, Pending, WorkingOn
    <3>6. UNCHANGED <<settings, flags, overlapped>> /\ forgotten \subseteq forgotten'
      BY <2>11 DEF UpdateFails
    <3>7. \A v \in Updaters \ {u} : job'[v] = job[v]
      BY <3>2
    <3>8. job'[u].plugin = None
      BY <3>3
    <3>9. QED
      BY <3>4, <3>5, <3>6, <3>7, <3>8, QuietStep
  <2>12. ASSUME NEW u \in Updaters, NEW deaf \in SUBSET Nodes, CallerPublishes(u, deaf)
         PROVE FlagsInv'
    <3>1. /\ job[u] # None /\ job[u] \in Jobs /\ job[u].todo = {} /\ u # Worker
          /\ JobSound(u) /\ job[u].at = "compute"
      BY <2>12, HasJob DEF CallerPublishes, Finished, FlagsInv, UpdaterSound
    <3>2. /\ job'[u] = [job[u] EXCEPT !.at = "evict"]
          /\ \A v \in Updaters \ {u} : job'[v] = job[v]
      BY <2>12 DEF CallerPublishes, TypeOK
    <3>3. job'[u].plugin = None /\ job'[u].todo = {} /\ job'[u].at = "evict"
      BY <3>1, <3>2 DEF Jobs, JobSound
    <3>4. JobSound(u)'
      BY <3>1, <3>3 DEF JobSound
    <3>5. UNCHANGED <<settings, flags, overlapped, forgotten, marking, high, low, batch>>
      BY <2>12 DEF CallerPublishes
    <3>6. ASSUME NEW h \in Guilds, NEW p \in Plugins, WorkOf({u}, h, p)
          PROVE WorkOf({u}, h, p)'
      BY <3>1, <3>5, <3>6 DEF WorkOf, Listed, Pending, WorkingOn
    <3>7. QED
      BY <3>2, <3>3, <3>4, <3>5, <3>6, QuietStep
  <2>13. ASSUME NEW u \in Updaters, EvictOwn(u) PROVE FlagsInv'
    <3>1. /\ job[u] # None /\ job[u].todo = {} /\ u # Worker
      BY <2>13 DEF EvictOwn, FlagsInv, UpdaterSound, JobSound
    <3>2. job'[u] = None /\ \A v \in Updaters \ {u} : job'[v] = job[v]
      BY <2>13 DEF EvictOwn, TypeOK
    <3>3. UNCHANGED <<settings, flags, overlapped, forgotten, marking, high, low, batch>>
      BY <2>13 DEF EvictOwn
    <3>4. ASSUME NEW h \in Guilds, NEW p \in Plugins, WorkOf({u}, h, p)
          PROVE WorkOf({u}, h, p)'
      BY <3>1, <3>3, <3>4 DEF WorkOf, Listed, Pending, WorkingOn
    <3>5. QED
      BY <3>2, <3>3, <3>4, QuietStep
  <2>14. ASSUME NEW u \in Updaters, UpdaterEnds(u) PROVE FlagsInv'
    <3>1. job'[u] = None /\ \A v \in Updaters \ {u} : job'[v] = job[v]
      BY <2>14 DEF UpdaterEnds, TypeOK
    <3>2. ASSUME NEW h \in Guilds, NEW p \in Plugins, WorkOf({u}, h, p)
          PROVE WorkOf({u}, h, p)' \/ <<h, p>> \in forgotten'
      BY <2>14, <3>2 DEF UpdaterEnds, WorkOf, Listed, Pending, WorkingOn
    <3>3. UNCHANGED <<settings, flags, overlapped>> /\ forgotten \subseteq forgotten'
      BY <2>14 DEF UpdaterEnds
    <3>4. QED
      BY <3>1, <3>2, <3>3, QuietStep
  <2>15. ASSUME NEW n \in Nodes, Store(n) \/ FetchFails(n) \/ \E g \in Guilds : Fetch(n, g)
         PROVE FlagsInv'
    BY <2>1, <2>15 DEF Store, FetchFails, Fetch, Listed
  <2>16. ASSUME NEW n \in Nodes, NEW g \in Guilds, HandleEviction(n, g) \/ GuildRemoved(n, g)
         PROVE FlagsInv'
    BY <2>1, <2>16 DEF HandleEviction, GuildRemoved, Listed
  <2>17. CASE UNCHANGED vars
    BY <2>1, <2>17 DEF vars, Listed
  <2>18. QED
    BY <2>2, <2>3, <2>4, <2>5, <2>6, <2>7, <2>8, <2>9, <2>10, <2>11, <2>12, <2>13, <2>14, <2>15, <2>16,
       <2>17
    DEF Next, WorkerStep, UpdaterStep
<1>2. FlagsInv => FlagsFollow
  BY DEF FlagsInv
<1>3. QED
  BY <1>1, <1>2, FlagsInvInit, TypeTheorem, PTL DEF Spec
=============================================================================
