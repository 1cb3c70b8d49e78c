------------------------------ MODULE ScanRuns ------------------------------
(***************************************************************************)
(* ScanRunStore (src/src/tex/stores/scan_runs.py) and the way             *)
(* DiscoveryService.scan (discovery/service.py) uses it: the per-tenant    *)
(* scan lock, idempotency keys, heartbeats, and reclaiming a stale lock.   *)
(*                                                                         *)
(* Every process has its own store: a cache of runs (_runs), the active    *)
(* run per tenant (_active_by_tenant) and a lock its threads take for a    *)
(* whole call.  The processes share the table tex_scan_runs, whose two     *)
(* unique indexes are the only thing that keeps them apart.  acquire makes *)
(* its statements one by one, so it takes two steps: Check reads and       *)
(* reclaims, Open inserts.                                                 *)
(*                                                                         *)
(* Time is abstracted: Age says that a cached heartbeat has become older   *)
(* than stale_lock_seconds.                                                *)
(***************************************************************************)
EXTENDS Integers, FiniteSets

CONSTANTS
    Procs,          \* processes (replicas, or the two sides of a deploy)
    Workers,        \* scanning threads: pairs of a process and a name
    Tenants,
    Keys,           \* idempotency keys
    ScansAreShort,  \* no scan outlasts stale_lock_seconds
    MaxRuns,        \* bound: runs opened in one behaviour
    MaxCrashes      \* bound: process crashes in one behaviour

ASSUME BoundAssumption == MaxRuns \in Nat /\ MaxCrashes \in Nat
ASSUME FlagAssumption == ScansAreShort \in BOOLEAN
ASSUME WorkerAssumption == \A w \in Workers : w[1] \in Procs

VARIABLES
    rows,     \* status of each row of tex_scan_runs
    asked,    \* tenant and idempotency key of each opened run
    opened,   \* runs opened so far
    cache,    \* per process: status of each run in _runs
    stale,    \* per process: cached runs whose heartbeat is too old
    active,   \* per process: _active_by_tenant
    pc,       \* per worker: where its call of scan stands
    req,      \* per worker: tenant and key of that call
    run,      \* per worker: the run acquire returned
    own,      \* per worker: is_new_run
    crashes

vars == <<rows, asked, opened, cache, stale, active, pc, req, run, own, crashes>>

-----------------------------------------------------------------------------

Runs == 1..MaxRuns
NoRun == 0
NoKey == "no key"

\* Tenant and key of a scan request.
Requests == [tenant : Tenants, key : Keys \union {NoKey}]

NoRequest == [tenant |-> "no tenant", key |-> NoKey]

\* ScanRunStatus; "none": no such row, or not cached.
Status == {"none", "running", "completed", "failed"}

Closed == {"completed", "failed"}

Busy == {"opening", "scanning"}

\* "replayed" and "refused" tell how the last call ended.
Places == {"idle", "replayed", "refused"} \union Busy

\* A thread of p is inside acquire and holds the store's lock.
StoreLocked(p) == \E w \in Workers : w[1] = p /\ pc[w] = "opening"

-----------------------------------------------------------------------------

Init ==
    /\ rows = [r \in Runs |-> "none"]
    /\ asked = [r \in Runs |-> NoRequest]
    /\ opened = 0
    /\ cache = [p \in Procs |-> [r \in Runs |-> "none"]]
    /\ stale = [p \in Procs |-> {}]
    /\ active = [p \in Procs |-> [t \in Tenants |-> NoRun]]
    /\ pc = [w \in Workers |-> "idle"]
    /\ req = [w \in Workers |-> NoRequest]
    /\ run = [w \in Workers |-> NoRun]
    /\ own = [w \in Workers |-> FALSE]
    /\ crashes = 0

\* _find_by_idempotency_key: the runs of the cache, else of the table.
CachedHits(p, rq) ==
    {r \in Runs : cache[p][r] # "none" /\ rq.key # NoKey /\ asked[r] = rq}

StoredHits(rq) ==
    {r \in Runs : rows[r] # "none" /\ rq.key # NoKey /\ asked[r] = rq}

\* Mutant: every lock is taken to be stale.
AlwaysStale(p, r) == TRUE

\* _is_stale.
IsStale(p, r) == cache[p][r] = "running" /\ r \in stale[p]

\* Mutant: the closed run stays the active one.
ActiveKept(p, r) == active

\* complete and _fail_in_place release the tenant's lock if r holds it.
ActiveWithout(p, r) ==
    [active EXCEPT ![p] = [t \in Tenants |-> IF active[p][t] = r
                                              THEN NoRun ELSE active[p][t]]]

\* _flush_close: the update finds no row if the insert had failed.
RowsClosed(r, status) ==
    IF rows[r] = "none" THEN rows ELSE [rows EXCEPT ![r] = status]

\* complete and _fail_in_place: close r in the cache of p and, unless the
\* update fails, in the table.
Close(p, r, status) ==
    /\ cache' = [cache EXCEPT ![p][r] = status]
    /\ stale' = [stale EXCEPT ![p] = @ \ {r}]
    /\ active' = ActiveWithout(p, r)
    /\ rows' \in {RowsClosed(r, status), rows}

\* The call of w is at where, with request rq and run r.
MoveTo(w, where, rq, r) ==
    /\ pc' = [pc EXCEPT ![w] = where]
    /\ req' = [req EXCEPT ![w] = rq]
    /\ run' = [run EXCEPT ![w] = r]
    /\ own' = [own EXCEPT ![w] = FALSE]

CanCall(w) == pc[w] \notin Busy /\ ~StoreLocked(w[1])

\* acquire finds the idempotency key.  scan replays a closed run, but for one
\* that is still running it goes on and scans.
FindKey(w, rq) ==
    \E r \in Runs :
        /\ CanCall(w)
        /\ \/ r \in CachedHits(w[1], rq)
           \/ CachedHits(w[1], rq) = {} /\ r \in StoredHits(rq)
        /\ LET status == IF r \in CachedHits(w[1], rq) THEN cache[w[1]][r]
                                                       ELSE rows[r]
           IN  IF status = "running" THEN MoveTo(w, "scanning", rq, r)
                                     ELSE MoveTo(w, "replayed", rq, r)
        /\ UNCHANGED <<rows, asked, opened, cache, stale, active, crashes>>

\* No run of that key in the cache; the lookup in the table may fail, or miss
\* a row that another process inserts right after it.
Unknown(w, rq) == CanCall(w) /\ CachedHits(w[1], rq) = {}

\* acquire: the lock is held by a run whose heartbeat is recent.
Refuse(w, rq) ==
    LET holder == active[w[1]][rq.tenant] IN
    /\ Unknown(w, rq)
    /\ holder # NoRun
    /\ ~IsStale(w[1], holder)
    /\ MoveTo(w, "refused", rq, NoRun)
    /\ UNCHANGED <<rows, asked, opened, cache, stale, active, crashes>>

\* acquire: the lock is free, or its holder is stale and is marked failed.
Check(w, rq) ==
    LET holder == active[w[1]][rq.tenant] IN
    /\ Unknown(w, rq)
    /\ MoveTo(w, "opening", rq, NoRun)
    /\ \/ holder = NoRun /\ UNCHANGED <<rows, cache, stale, active>>
       \/ /\ holder # NoRun
          /\ IsStale(w[1], holder)
          /\ Close(w[1], holder, "failed")
    /\ UNCHANGED <<asked, opened, crashes>>

\* Mutant: only the idempotency index exists.
ConflictKeyOnly(rq) == StoredHits(rq) # {}

\* The unique indexes of tex_scan_runs refuse the insert.
Conflict(rq) ==
    \/ \E r \in Runs : rows[r] = "running" /\ asked[r].tenant = rq.tenant
    \/ StoredHits(rq) # {}

NextRun == opened + 1

\* acquire: the new run is in the cache and, unless the insert failed for
\* another reason than uniqueness, in the table.
Open(w) ==
    LET r == NextRun  p == w[1] IN
    /\ pc[w] = "opening"
    /\ opened < MaxRuns
    /\ \/ ~Conflict(req[w]) /\ rows' = [rows EXCEPT ![r] = "running"]
       \/ rows' = rows
    /\ asked' = [asked EXCEPT ![r] = req[w]]
    /\ opened' = r
    /\ cache' = [cache EXCEPT ![p][r] = "running"]
    /\ active' = [active EXCEPT ![p][req[w].tenant] = r]
    /\ pc' = [pc EXCEPT ![w] = "scanning"]
    /\ run' = [run EXCEPT ![w] = r]
    /\ own' = [own EXCEPT ![w] = TRUE]
    /\ UNCHANGED <<stale, req, crashes>>

\* acquire after a unique violation: the running row is read and cached as
\* the holder, and the caller is refused.
Conflicted(w) ==
    LET p == w[1]  t == req[w].tenant IN
    /\ pc[w] = "opening"
    /\ Conflict(req[w])
    /\ \E holder \in Runs :
          /\ rows[holder] = "running" /\ asked[holder].tenant = t
          /\ cache' = [cache EXCEPT ![p][holder] = "running"]
          /\ stale' = [stale EXCEPT ![p] = @ \ {holder}]
          /\ active' = [active EXCEPT ![p][t] = holder]
          /\ MoveTo(w, "refused", req[w], NoRun)
    /\ UNCHANGED <<rows, asked, opened, crashes>>

\* The same, but the read fails or finds the holder gone: the error surfaces.
ConflictErrs(w) ==
    /\ pc[w] = "opening"
    /\ Conflict(req[w])
    /\ active' = [active EXCEPT ![w[1]][req[w].tenant] = NoRun]
    /\ MoveTo(w, "idle", NoRequest, NoRun)
    /\ UNCHANGED <<rows, asked, opened, cache, stale, crashes>>

\* heartbeat after a connector: only a cached, running run is refreshed.
Heartbeat(w) ==
    /\ pc[w] = "scanning"
    /\ ~StoreLocked(w[1])
    /\ cache[w[1]][run[w]] = "running"
    /\ stale' = [stale EXCEPT ![w[1]] = @ \ {run[w]}]
    /\ UNCHANGED <<rows, asked, opened, cache, active, pc, req, run, own, crashes>>

\* scan ends: complete, or fail when an exception escaped.  Both return at
\* once when the run is not in this process's cache.
End(w, status) ==
    /\ pc[w] = "scanning"
    /\ ~StoreLocked(w[1])
    /\ IF cache[w[1]][run[w]] # "none"
         THEN Close(w[1], run[w], status)
         ELSE UNCHANGED <<rows, cache, stale, active>>
    /\ MoveTo(w, "idle", NoRequest, NoRun)
    /\ UNCHANGED <<asked, opened, crashes>>

Complete(w) == End(w, "completed")
Fail(w) == End(w, "failed")

\* Time passes: process p has not seen a heartbeat of r for too long.  Only
\* its own threads refresh the copy it has.
Age(p, r) ==
    /\ cache[p][r] = "running"
    /\ ScansAreShort =>
          ~\E w \in Workers : pc[w] = "scanning" /\ own[w] /\ run[w] = r
    /\ r \notin stale[p]
    /\ stale' = [stale EXCEPT ![p] = @ \union {r}]
    /\ UNCHANGED <<rows, asked, opened, cache, active, pc, req, run, own, crashes>>

\* A process dies and starts again with an empty store.
Crash(p) ==
    /\ crashes < MaxCrashes
    /\ crashes' = crashes + 1
    /\ cache' = [cache EXCEPT ![p] = [r \in Runs |-> "none"]]
    /\ stale' = [stale EXCEPT ![p] = {}]
    /\ active' = [active EXCEPT ![p] = [t \in Tenants |-> NoRun]]
    /\ pc' = [w \in Workers |-> IF w[1] = p THEN "idle" ELSE pc[w]]
    /\ req' = [w \in Workers |-> IF w[1] = p THEN NoRequest ELSE req[w]]
    /\ run' = [w \in Workers |-> IF w[1] = p THEN NoRun ELSE run[w]]
    /\ own' = [w \in Workers |-> own[w] /\ w[1] # p]
    /\ UNCHANGED <<rows, asked, opened>>

Acquire(w) ==
    \/ \E rq \in Requests : FindKey(w, rq) \/ Refuse(w, rq) \/ Check(w, rq)
    \/ Open(w) \/ Conflicted(w) \/ ConflictErrs(w)

Next ==
    \/ \E w \in Workers :
          Acquire(w) \/ Heartbeat(w) \/ Complete(w) \/ Fail(w)
    \/ \E p \in Procs : Crash(p) \/ \E r \in Runs : Age(p, r)

Spec == Init /\ [][Next]_vars

\* The scheduler's scan of a tenant carries no key.
Scheduled(w, t) == Check(w, [tenant |-> t, key |-> NoKey])

\* It reclaims a lock and the update of the old row succeeds.
Reclaim(w, t) == Scheduled(w, t) /\ rows' # rows

\* The scheduler's threads keep scanning their tenants, a scan that started
\* ends, time passes, and the database is not down for ever.
FairSpec ==
    /\ Spec
    /\ \A w \in Workers :
          /\ WF_vars(Open(w))
          /\ SF_vars(Conflicted(w))
          /\ WF_vars(Complete(w) \/ Fail(w))
          /\ \A t \in Tenants : WF_vars(Scheduled(w, t)) /\ SF_vars(Reclaim(w, t))
    /\ \A p \in Procs, r \in Runs : WF_vars(Age(p, r))

-----------------------------------------------------------------------------

\* Shapes of the variables.
TypeOK ==
    /\ rows \in [Runs -> Status]
    /\ asked \in [Runs -> Requests \union {NoRequest}]
    /\ opened \in 0..MaxRuns
    /\ cache \in [Procs -> [Runs -> Status]]
    /\ stale \in [Procs -> SUBSET Runs]
    /\ active \in [Procs -> [Tenants -> Runs \union {NoRun}]]
    /\ pc \in [Workers -> Places]
    /\ req \in [Workers -> Requests \union {NoRequest}]
    /\ run \in [Workers -> Runs \union {NoRun}]
    /\ own \in [Workers -> BOOLEAN]
    /\ crashes \in 0..MaxCrashes

\* A scan that opened its run itself, for a request without a key.
LockedScan(w) == pc[w] = "scanning" /\ own[w] /\ req[w].key = NoKey

\* Two such scans of one tenant run at the same time only in two processes of
\* which one could not insert its row: inside a process the store's lock, and
\* between processes the unique index, keep them apart through crashes, lost
\* closes and reclaimed locks.
OneScan ==
    \A v, w \in Workers :
        /\ v # w
        /\ LockedScan(v) /\ LockedScan(w)
        /\ req[v].tenant = req[w].tenant
        => v[1] # w[1] /\ "none" \in {rows[run[v]], rows[run[w]]}

\* Such a scan keeps the lock until it closes its run: its row is not closed
\* under it and its process has it as the tenant's active run.
LockHeld ==
    \A w \in Workers :
        LockedScan(w) =>
            /\ rows[run[w]] \in {"running", "none"}
            /\ active[w[1]][req[w].tenant] = run[w]

\* The active run of a tenant is running in the same process's cache and is
\* that tenant's: _is_stale never calls a closed run stale, so a closed run
\* left in _active_by_tenant would lock the tenant out for ever.
ActiveRunning ==
    \A p \in Procs, t \in Tenants :
        active[p][t] # NoRun =>
            /\ cache[p][active[p][t]] = "running"
            /\ asked[active[p][t]].tenant = t

\* "even a process crash that fails to release the lock cannot lock the
\* tenant out forever" (scan_runs.py:196): a running row nobody scans for is
\* closed, unless the bound on runs stops the scheduler.
NoEternalLock ==
    \A r \in Runs :
        (rows[r] = "running" /\ ~\E w \in Workers :
                                   pc[w] = "scanning" /\ run[w] = r)
            ~> (rows[r] \in Closed \/ opened = MaxRuns)

-----------------------------------------------------------------------------
(* Strengthenings that make the invariants above inductive.                *)

\* A call that is under way has a request, and a scanning one a run.
CallInv ==
    \A w \in Workers :
        /\ pc[w] \in Busy => req[w] \in Requests
        /\ pc[w] = "scanning" => run[w] \in Runs

\* Nothing is known of a run before it is opened.
UnopenedInv ==
    \A r \in Runs : r > opened =>
        /\ rows[r] = "none"
        /\ \A p \in Procs : cache[p][r] = "none" /\ r \notin stale[p]

\* A scanning worker's run was opened for its request, by itself or, for a
\* keyed request, by another; two workers do not own one run.
OwnerInv ==
    /\ \A w \in Workers : pc[w] = "scanning" =>
          /\ run[w] <= opened
          /\ asked[run[w]] = req[w]
          /\ own[w] \/ req[w].key # NoKey
    /\ \A v, w \in Workers :
          /\ pc[v] = "scanning" /\ own[v]
          /\ pc[w] = "scanning" /\ own[w]
          /\ run[v] = run[w]
          => v = w

\* One worker of a process is inside acquire, and its tenant is unlocked.
OpeningInv ==
    /\ \A v, w \in Workers :
          pc[v] = "opening" /\ pc[w] = "opening" /\ v[1] = w[1] => v = w
    /\ \A w \in Workers :
          pc[w] = "opening" => active[w[1]][req[w].tenant] = NoRun

\* What the unique index on running rows enforces.
IndexInv ==
    \A q, r \in Runs :
        /\ rows[q] = "running" /\ rows[r] = "running"
        /\ asked[q].tenant = asked[r].tenant
        => q = r

\* No process sees the run of a live scan as stale.
FreshInv ==
    \A w \in Workers, p \in Procs :
        pc[w] = "scanning" /\ own[w] => run[w] \notin stale[p]
=============================================================================
