# A TLA+ verification of Tex

Tex (`src/src/tex`) is a governance service for software agents. It discovers
agents, decides whether an agent may perform an action (PERMIT, ABSTAIN,
FORBID), enforces the decision at the egress, leaves evidence of it, and learns
from outcomes. It runs as one ASGI process (`src/Dockerfile` starts uvicorn with
one worker) with several threads: the request threads, the discovery scheduler,
the alert worker and the provenance feed. Its stores are in-memory caches over an
optional Postgres database, and its evidence is an append-only JSONL file on a
disk that a deploy resets. During a deploy two processes overlap over one
database.

The project models the control of Tex, from the decision to the evidence: what is
written in which order, by whom, and what is left when a step fails, a process
dies or another thread comes between. What a recogniser makes of a text, and how a
score is computed, is an input of the models.

Contents:

1. [Inventory](#1-inventory)
2. [Modules](#2-modules)
3. [Runs](#3-runs)
4. [Proofs](#4-proofs)
5. [Where the code and its documentation differ](#5-where-the-code-and-its-documentation-differ)
6. [What is not modelled](#6-what-is-not-modelled)
7. [Plan](#7-plan)

To check it: `tlc -config X.cfg M` for a run (`PROJECT.json` pairs configurations
and modules), `tlapm M.tla` for the proofs of a `*Proofs` module.

## 1. Inventory

### Components, their state and their operations

| Component | State | Operations | Hard because |
|---|---|---|---|
| Policy decision point: `engine/pdp.py`, `router.py`, `precedent_influence.py`, `deterministic/cadence.py` | windows and memo of the cadence tracker, sealed precedent facts | `evaluate`: streams, floor, router, merges, holds, conformal gate, precedent step | many stages touch one verdict, one of them upward; threads share the tracker and reach it out of order |
| Decision memory: `memory/system.py`, `_db.py`, the stores beside them | rows of three tables and a mirror; a cache per store; a degraded flag and a flag per store | `record_decision_with_policy`, `_enter_degraded_mode`, boot with schema bootstrap and hydration | request threads share the flags without a common lock; every database call may fail, a commit even after it took effect; strict and degrading mode |
| Evidence chain: `evidence/recorder.py`, `chain.py`, `exporter.py`, `postgres_mirror.py` | lines of the file, last hash, index of resolved holds, mirror rows | `_append`, `resolved_decision_ids`, start over an existing file, verification of the chain and of a slice | a write that stops part way, a crash inside an append, a deploy that empties the disk and leaves the mirror |
| Scan runs: `stores/scan_runs.py`, used by `discovery/service.py` and `scheduler.py` | table of runs with two unique indexes; per process a cache, the active run per tenant, heartbeats | `acquire`, `heartbeat`, `complete`, `fail`, reclaiming a stale lock | several processes, locks that time out, repeated keyed requests, failing inserts and updates |
| Discovery scan: `discovery/service.py`, `reconciliation.py`, `stores/discovery_ledger*.py` | ledger with its hash chain, reconciliation index, queue of refused entries, held agents | look up, decide, write registry, index and ledger per candidate; replay a keyed run; restart | several stores are written per candidate without a transaction; two processes number entries alike |
| Standing watch: `discovery/scheduler.py`, `presence.py`, `stores/drift_events.py` | entries of the last scan, miss counters with a table, drift events | scan cycle, manual trigger, comparison, disappearance pass, restart | the counter and the list of keys to count live in two objects; cycles may overlap |
| Agent registry: `stores/agent_registry.py`, `agent_registry_postgres.py` | histories of revisions, hash chain head, queue of unwritten revisions, table | `save`, `set_lifecycle`, `get`, load at boot, periodic re-load, `replay_pending` | users read, decide, then write; the re-load replaces the cache under them; failed writes and purged rows |
| Calibration loop and policy store: `learning/`, `stores/policy_store.py`, `calibration_proposal_store.py`, `memory/policy_snapshot_store.py` | versions with active flags, proposals with statuses, their tables, movement budget | draft, approve, apply, reject, expire, roll back, activate; evaluations that save the policy they read | one apply is five writes; a snapshot read earlier is saved back with its flag |
| Enforcement-point proxy, credential broker, permits: `pep/proxy.py`, `authority/broker.py`, `memory/permit_store.py` | permits and credentials with marks, per process cached, one table; receipts | rule, mint, check, consume, broker, seal, forward; redeem, revoke, expire | verify and consume are two steps; caches of several processes; a receipt is sealed before the request leaves |
| Governance snapshots: `stores/governance_snapshots.py` | hash chain in a table, tip per process, parked records | capture, refusal and re-link, replay, restart | two processes extend one chain; an insert that raises may have been committed |
| Standing governance, forbid set; enforcement gate and gateway | published forbid set, leases | decide, publish, enforce | a client that works on an old set |
| Sealed fact ledger and feed: `provenance/` | entries with sequence numbers, holds | `append`, feed thread | callers that bring their own sequence number |
| SafeFlow: `safeflow/` | write-ahead log, steps | begin, execute, commit, abort, recover | not reachable from the application |

### How they interact

* An evaluation (`commands/evaluate_action.py`) reads the agent from the
  **registry** and the active policy from the **policy store**, asks the **decision
  point** for a verdict, calls **`MemorySystem.record_decision_with_policy`**, which
  writes the three tables (the policy among them), appends to the **evidence chain**
  and mirrors the record, and finally saves a copy of the agent it read back to the
  **registry**.
* A scan (`discovery/service.py`) opens a **scan run**, asks each connector for
  candidates, reconciles every one against the index and the **registry**, appends to
  the **discovery ledger**, and closes the run. The scheduler starts scans without an
  idempotency key, compares the entries with those of the scan before, counts misses
  and captures **governance snapshots**; the API route takes a key from its client.
* The **proxy** asks the decision endpoint for a ruling, mints and consumes a permit in
  the **permit store**, asks the **broker** for a credential, seals a receipt and forwards.
* The **calibration loop** reads outcomes, drafts proposals and, once approved, saves and
  activates a policy in the **policy store**.
* Human resolutions of held decisions are appended to the **evidence chain** by the
  API; the voice and vigil surfaces ask the recorder which holds are resolved.
* The components share no lock. A component has its own, held for one call; what
  happens between two calls of one request is open to every other thread.

### What makes each modelled component correct

* *Decision point.* A deterministic proof forbids for good; a PERMIT has nothing against
  it or is sealed precedent, and the recorded witness tells the two apart; a burst
  cannot hide in the order of threads.
* *Decision memory.* It implements the abstract decision service: each request is
  recorded once and answered after it. In strict mode no evidence is without its durable
  rows, which stand or fall together; readers know a decision before its evidence
  exists; every request ends; degrading is completed, and a degraded layer falls silent.
* *Evidence chain.* Whatever fails, the file is one chain with every record whose
  append returned, or it visibly holds a line that does not parse; verification
  accepts no omission but of a tail, and no reordering; the index of resolved
  holds neither hides a waiting hold nor asks again about a resolved one.
* *Scan runs.* One scan per tenant; a scan keeps its lock to its end; a lock whose
  holder died is released.
* *Discovery scan.* A process doubles no agent it knows; no ledger entry is lost or numbered twice; a
  replayed run answers with its own entries.
* *Standing watch.* The events add up to what was found; no alarm by one flaky answer;
  an agent that is gone is reported.
* *Agent registry.* An acknowledged write is served, and is stored or queued; a process
  overwrites no revision it knows of; agents deleted from the table leave the cache; a revoked agent
  comes back only by an operator or by a writer with an earlier copy.
* *Calibration loop.* The policy in force is the one last put in force on purpose; a
  proposal is answered once; the budget bounds the movement.
* *Enforcement point.* What leaves was released, with a used permit bound to the very
  bytes; receipts are true; a process never accepts a credential it knows to be dead.
* *Snapshots.* One chain, whoever writes; no capture vanishes.

The hazards behind these, each at its line, are listed in `PROJECT.json`.

## 2. Modules

Each component is one specification, with the properties stated at its end (for two of them in a
module before it) and, after them, the strengthenings that make the invariants inductive. `MC*` modules
give TLC its instances, `*Proofs` modules hold the theorems. Definitions called
*Mutant* are plausible slips in the definition that follows them; nothing uses
them, they document against which mistake a property is sensitive.

Common abstractions: a decision, a request, a tenant or a key is a model value;
hashes are injective (SHA-256 collisions are not considered); log lines, payloads,
signatures and timestamps are left out. A database call either has its effect, or
fails, or (a commit) has its effect and fails.

### PolicyDecision

What the streams report of a request is one record (`AllReports`): each comparison the code makes
with a threshold is a field, or a comparison between levels of the fused score. Stamp, request_id
and agent of a request are what its caller sent, and `Init` ranges over them: both the stamp and the
id may be the caller's choice, and an id may be repeated. An evaluation is received, observed by the
cadence tracker, judged, and decided; a collaborator may raise (`Raise`). `Judge` is `evaluate` from
the gate's answer to the conformal gate: `HardViolation` short-circuits to FORBID, otherwise the
result of the router (`Route`, with the ladder in `Forbids`, `ShouldAbstain` and `PositivelyClean`)
passes the stages of `Lowered` in the order of the code. `Merge` is a signal that flags whatever it
finds, `Hold` one that acts on a PERMIT only. `Resolve` is the one step upward, behind the gates of
`Eligible`, and `Stand` everything that leaves the verdict, a failed seal included. `Observe` is the
first `assess`: it prunes from the front, counts and memoises under the tracker's lock, so it is one
step; the threads reach it in any order. It counts a request_id once, and what it memoises is the
level of either budget, of actions or of distinct targets (`Classify`, `Fanout`). Floor and hold
read the memo whatever the policy says; the finding, and with it a flag of the router, is there only
if the policy lists the recogniser (`listed`, `Finding`). `WitnessHolds` is the relation that
`derive_monotonicity_witness` checks on the recorded end points.

### DecisionMemory

`Requests` are evaluations in flight, one thread each. `step[r]` is the place of the
thread inside `record_decision_with_policy`: `idle`, then `tx` and `commit` on the
durable path, `enter` and `mark` inside `_enter_degraded_mode`, `save` and `dial` on
the fallback path, `append`, `mirror`, `dial_mirror`, and one of three ends:
`answered`, `raised`, `lost` (the process died). `at[r]` is the store that the thread
handles next, in the order of `Stores`.

| State | Code |
|---|---|
| `degraded` | `MemorySystem._degraded`, set under a lock |
| `enabled` | the stores whose `_postgres_enabled` is set; cleared one by one, outside the lock |
| `pg`, `cache` | rows in Postgres, rows in the stores' dictionaries |
| `staged` | the tables whose statement was emitted in the thread's open transaction |
| `chain` | decisions recorded in the JSONL file |

A transaction is taken apart into one `TxWrite` per `save_in_tx`, because each of them
looks at its store's flag, and the flag may have changed since the last one. `TxWrite`
updates the cache in the same step, as the code does before the commit. `Boot` stands
for `__post_init__`: the stores bootstrap in order and the first success serves
the ones after it (`Bootstrapped`), hydration may fail per store, and only a missing
decision store degrades the layer, and only when not strict. `Crash` loses memory and
open transactions.

`DecisionService` is the abstract specification: a trail of records and one phase per
request. `ImplementsService` maps `chain` to the trail and `step` to the phases
(`Phase`), and every step of the write path to a step of the service or to none.

### EvidenceChain

A record is `[n, prev, type, did]`: `n` is its hash, `prev` the hash it names. `_append`
holds the recorder's lock throughout, so an append is one action with four outcomes:
`AppendRecord`, `AppendFails` (nothing on disk), `AppendTears` (part of the line, or all of
it but the newline, stays: `unended`), `CrashInAppend` (the line is there, the rest of
the append is not). Text appended behind an unended line continues it, and the two
together do not parse: `Junk`. `Restart` reads the last hash from the last line and does not come up
over a last line that does not parse; `Redeploy` starts over an empty disk and
keeps the mirror. `BuildIndex` is the first call of `resolved_decision_ids`.
`Verifies` and `VerifiesSlice` are the two verifiers of `chain.py`, `Slice` and `Witness`
what the exporter hands to the second (`Places`, where its records are, is the list that
increases and has them all).

### ScanRuns

`Workers` are pairs of a process and a thread name. A worker's call of
`DiscoveryService.scan` is at `pc[w]`: `opening` (inside `acquire`, between the checks and
the insert), `scanning`, or done. Inside a process the store's lock makes a call
atomic with respect to the other threads (`StoreLocked`), but not with respect to another process, which
is why `acquire` has two steps. `FindKey` is the idempotency branch together with what
`scan` makes of it; `Refuse` and `Check` are the branches on the active run, the latter
with reclaiming; `Open`, `Conflicted` and `ConflictErrs` are the outcomes of the
insert. `Close` is shared by `complete` and `_fail_in_place`, and its update may fail.

More than one process: the deployment file starts one worker, but two processes meet
during a deploy, and the store is written for it (the unique index on running rows
and the handling of its violation have no other purpose).

Time is abstracted to `Age`: a cached heartbeat becomes older than
`stale_lock_seconds`. With `ScansAreShort` this does not happen to the run of a scan in
progress, which is what the code assumes of its default of 30 minutes
(`scan_runs.py:57`). It may always happen to another process's copy of a closed or
abandoned run, since nothing refreshes such a copy.

### AgentRegistry

One agent: no operation of the registry relates two. `cache` and `rows` map revision
numbers to lifecycle statuses, `hashes` and `head` hold the chain of revisions a
record hash was computed from. `mode` tells how the process came up: `loaded`, `blind`
(the schema is there, the load failed, the store is enabled over an empty cache),
`memory` (no database). `Write` is what `save` and `set_lifecycle` share: the cache
first, then `Flush`, which stores the revision, or queues it, or both (a commit
reported as failed). `Load` and `Reapply` are the two halves of `_maybe_resync`;
between them readers, who take no lock, see the table without the queued writes.
`Read`, `Save`, `Shift` and `Leave` are the users: the evaluation, the patch route,
discovery and the dormancy sweep read an agent and later write by what they
read. The table is changed behind the cache's back by `Purge` (a deletion) and by `Foreign`:
another process, a replica or a repair script (lines 16-17, 94) writes any revision.
Two history variables: `acked`, the revisions whose write returned in this process and that
nobody has overwritten or deleted since, and `foreign`, which revisions others wrote and whether
a load has shown them to this process.

### DiscoveryScan

A scan looks a candidate up (`Look`: index, registry and the decision of `reconciliation.py`),
applies the decision (`Apply`: registry, then index) and appends an entry (`AppendEntry`: numbers,
links, inserts). Between the three other threads, another process or a crash may come. A hash is the
sequence of entries it stands for, so that chains can be compared. `ReplayOne` re-tries parked
entries, `Finish` and `Slice` record and replay the range of a keyed run. `Register` and `Revoke`
are operators, who write the registry and not the index; `Resync` re-loads the cache of the registry
and leaves the index as it is; `Restart` loads table and index again. Histories of a process:
`loaded`, the agents there at its start, `promoted`, the ones its scans have registered since, and
`raced`, the keys that two of its scans had looked up at once. `Sorted` is the table in the order of
its numbers, as the load reads it; `FreshAgent` is the new identifier of a registration, one that no
agent has had.

### PresenceWatch

State and properties are in PresencePromises, the steps in PresenceWatch. A cycle of the scheduler's
thread or of a manual trigger: `Scan` (one step here), `Compare` with the entries of the scan
before, `Seen` and `Missed` per key, `Finish`, which replaces those entries. `Record` writes a
presence record and its row, which may fail. `log` is the drift events of a key, read as what they
say is there. `Move` is the estate.

### CalibrationLoop

State and properties are in CalibrationPromises, the calls in CalibrationLoop. Policy store and
proposal store over their tables, and their users. `propose` is two steps: `Draft` asks the safety
guard and `Propose` saves the proposal after replay and off-policy evaluation, unless they refuse
(`Abandon`); approvals and applies of other proposals come between. The four calls of
`apply_proposal` after the approval are actions of their own (`ApplySave`, `ApplyActivate`,
`ApplyCommit`, `ApplyMark`), each of which may be the last (`ApplyFails`). `Resolve` and
`SavePolicy` are the two ends of an evaluation: it reads the policy and later saves that copy.
`intended` is a history variable: the version last put in force by an operator, an apply or a
rollback, and `happened` what went wrong since.

### PermitStore and EnforcementPoint

`PermitStore` gives the store's operations as operators on a table and a cache per process, for
the module that composes it: `EnforcementPoint` extends it with the proxy and the broker. A
request passes `Start`, `Decide`, `Mint`, `Check`, the consumption of the permit, `Broker`, the seal
and the forward; an opaque one only a part of them. Redemptions of the credential, revocations,
expiry, degradation of a store and restarts come between. `conf` ranges over every combination of
permits, broker, receipts and strict mode that can be wired.

### SnapshotChain

`Stamp` takes `captured_at` before the lock, `Link` takes the tip, `Insert` is refused when the
parent has a child, `Relink` reads the tip again, `InsertAgain` tries once more, `Reseed`
takes the tip from the table and parks the record. `ReplayBegin` and `ReplayOne` are the replay
of parked records. A record is the sequence of captures it descends from.

## 3. Runs

Twelve runs, one per question. Sizes are TLC's distinct states.

| Run | Question | Result |
|---|---|---|
| `policy_decision` | Three overlapping evaluations with stamps and request_ids of their callers' choice, one of them with every combination of up to two signals: do proofs stand, is every PERMIT explained and told by the witness, is a burst stopped? | holds; 2 018 960 states |
| `decision_memory` | Strict and degrading mode, boots that may find no database, ambiguous commits, a crash: does the write path implement the decision service, are rows durable and whole, does every request end? | holds; 85 723 states |
| `evidence_chain` | Failing, torn and cut-off appends, restarts, deploys: is damage visible, is the verifier sensitive to every omission, repetition and reordering, are slices and the index exact? | holds; 234 853 states |
| `scan_lock` | Three threads in two processes, keyed and unkeyed, with failures and a crash: is the lock exclusive and kept? | holds; 530 866 states |
| `scan_lock_released` | Is a lock left behind by a crash or a lost update released? | holds; 100 853 states |
| `registry_keeps_writes` | Failed and ambiguous writes, crashes, purges, other writers, re-loads: is a write served, stored or queued, a known revision never rewritten, a purged agent forgotten, a revoked one revived only by who had read it before? | holds; 679 625 states |
| `calibration_loop` | Overlapping applies, evaluations, failures and restarts: is the policy in force the intended one, a proposal answered once, the budget kept? | holds; 1 089 133 states |
| `enforcement_point` | A request and two redemptions in two processes with restarts: is egress gated, are receipts true, is a known dead credential refused? | holds; 1 115 572 states |
| `snapshot_chain` | Four captures in two processes, outages, a crash: is the table one chain, is every capture accounted for? | holds; 1 313 819 states |
| `discovery_scan` | Two scans in two processes, an operator, re-loads, failing inserts, a crash: no known agent doubled, entries accounted, stored chain sound, replay complete? | holds; 2 016 705 states |
| `presence_watch` | A scheduler and a trigger, flaky connectors, a restart with another threshold: do events add up, is there no false alarm, is a gone agent reported at threshold one? | holds; 122 648 states |
| `lost_disappearance` | Is a gone agent reported at the default threshold? | violated, see section 5 |

### The properties

*PolicyDecision.* `FloorStands`, `PermitExplained` and `WitnessTells` are about the one stage that
raises a verdict after seven that lower it: it knows of them only by their flags.
`BurstStopped` bounds the tracker's level from below, for actions and targets, every interleaving and
all stamps, and says that it is exact when requests are counted in the order of their stamps. It covers
every request under the counted request_id, and names what is left open: a soft burst that precedent
permits under a policy without the recogniser.

*DecisionMemory.* `ImplementsService` is the refinement. `StrictWriteThrough` relates the chain and
the three tables in strict mode, `WholeUnlessDegraded` the three tables in any mode: they could
fail by a crash or an ambiguous commit between any two steps, or by a
transaction that emits only part of its statements. `EvidenceBacked`: reads served from the
stores know a decision before evidence of it exists, on the durable and on the
fallback path. `QuietOnceDegraded`: when all stores are marked no thread starts a new
database call, and when the calls in flight are over Postgres stays as it is.
`RequestsSettle` and `DegradeCompletes` are liveness properties.

*EvidenceChain.* `CorruptionVisible` is a disjunction on purpose. The code does not keep
the chain intact across a torn write: the next append continues the fragment
and its own record becomes unreadable. What it does keep is that this cannot
go unnoticed. `TamperEvident` quantifies over every selection, repetition and
order of the stored lines: exactly the prefixes verify, so truncation at the end is
the one omission the verifier alone cannot see. `SliceExact` says for which decisions the
exported slice verifies. `NeverHidesWaiting` and `IndexCurrent` bound the index of resolved holds
from both sides.

*ScanRuns.* `OneScan` says exactly what the store guarantees for scans that opened their
own run without a key: two overlap only in two processes of which one could not insert
its row, which is the fallback of `scan_runs.py:319`. `LockHeld` says that such a scan's
row is not closed under it. `NoEternalLock` is liveness.

*AgentRegistry.* `NoWriteLost` states the comment on line 31 outside the re-load window, for
the writes nobody else has overwritten, and that nothing newer is served but what others wrote.
`NothingForgotten` relates what was acknowledged to table and queue. `RowsKept` is an action
property that covers every mode and a second writer: neither a write nor a late replay of this
process rewrites a stored revision, except one that another wrote and this process has not
loaded since, or loaded while it had a write of the same revision queued. `RevivedByStaleOnly`
bounds the race that callers leave open. `GhostsFade` is liveness.

*The others.* Where the code has a window, the property names it, and the exceptions are as narrow
as TLC allows: `ActiveHolds` and `BudgetWhenSerial` (CalibrationLoop) list the ways in which a
policy in force is not the intended one or the budget is exceeded; `HolesFromOutages` and `OneChain`
(SnapshotChain) distinguish refusals, which leave no trace, from outages, which may;
`OneAgentPerKey` (DiscoveryScan) speaks of the agents a process loaded or registered, and excepts
two of its scans at one key; `StoredChain` needs a process that has not seen the table;
`LogIsEstate` and `NoFalseAlarm` (PresenceWatch) need cycles that overlap or a restart.
`AnsweredOnce`, `EgressGated`, `ReceiptTruth`, `KnownDeadRefused`, `Accounted`, `EntriesAccounted`
and `ReplayHasRun` are promises to a caller: what has been answered, sent, sealed, captured or
entered stays true under every later failure.

### Bounds

Every bound is a constant in the guards, or a small set.

* *PolicyDecision*: three requests, budgets of two and three for actions and for targets, a window of two and
  stamps from zero to two: three requests are a hard burst of actions, two of them are one of targets
  (the third request has two), and an entry can be inside, at the edge of and outside a window. The third
  may repeat the request_id of the first; it is only counted, not judged. Two signals at once for
  one request (the others are clean): a property
  fails by a pair, one signal that lowers and one that hides it. The proofs cover all reports.
* *DecisionMemory*: two requests under two policies, two boots: one crash and a restart over
  what it left. A torn transaction needs one thread that degrades and one that is inside a
  transaction.
* *EvidenceChain*: four records, two downs, two decisions: a fragment, its continuation, and a
  chain of records around them; a restart on the damaged disk and a deploy after it.
* *ScanRuns*: two runs (three for liveness), three workers, one tenant, one key, one crash: two
  threads that share a store and a third that shares only the table; one run that
  is left behind and one that reclaims its lock. A tenant's entries are disjoint from every
  other tenant's, so one is enough. `NoEternalLock` has an escape when the bound on runs is
  used up, since then nobody can open the run that would reclaim.
* *AgentRegistry*: two revisions, hash chains of three, one queued write, two boots, one reader,
  another writer that revokes: both writers use one number, a stale cache meets a foreign row
  before and after a re-load, a queued write meets one, and a boot that loads nothing starts
  again at the first revision.
* *CalibrationLoop*: two proposals against a budget of one, one evaluation, two boots: two
  applies overlap, one proposal is applied between the guard and the save of the other, an
  evaluation spans both, a restart comes after.
* *EnforcementPoint*: one request, whose permit and credential are two records, two redemptions,
  two processes, two restarts: each redemption in its own process, one of them restarted.
* *SnapshotChain*: four captures in two processes, one crash: two refusals in a row need three
  writers of one tip, the fourth follows.
* *DiscoveryScan*: two scans, two entries, two processes, one key, reported with a clean surface
  or with one that has grown by two levels, one action of an operator, one crash: two scans of one
  process meet at the key, and
  an agent registered by hand or by the other process is doubled.
* *PresenceWatch*: one key (keys do not interact), thresholds one and two over a restart, one
  trigger beside the loop.

Deadlock checking is off where behaviours end when the bounded requests, records, runs or boots are
used up; the standing watch never ends, and there it is on.

Symmetry is used for processes, captures, redemptions, scans, decision ids and the requests that
differ in nothing, in runs without liveness properties.

### Fairness

* *DecisionMemory*: weak fairness of every request thread and of `Boot`. Database calls are
  bounded by `connect_timeout`, `statement_timeout` and `lock_timeout`
  (`memory/_db.py`), so a thread cannot stay in one; a process that died is
  started again by the platform. A choice between success and failure is not
  made fair.
* *ScanRuns*: weak fairness of the scheduler's unkeyed `Scheduled` scans, of the insert, of the end of
  a scan and of time (`Age`). Strong fairness of `Conflicted` and `Reclaim`: the read
  of the holder and the update of the reclaimed row are each one statement that may
  fail now and then; a database that fails it every single time is down for ever,
  and then nothing can release the row.
* *AgentRegistry*: weak fairness of `Load` and `Reapply`: reads keep coming, each one
  starts a re-load once `TEX_REGISTRY_RESYNC_S` (120 s by default) is over, and the
  database can be read eventually.
* *PresenceWatch*: weak fairness of the loop's scans and of the steps of a cycle: `_run_loop` catches
  what a cycle raises and goes on, and a cycle waits for nobody.
* The other modules have no liveness property.

## 4. Proofs

The theorems hold for every value of the constants: any number of requests,
reports, restarts, records, processes, threads, tenants, runs, revisions, proposals and agents, any
queue length, budget and threshold.

| Module | Theorem | States |
|---|---|---|
| PolicyDecisionProofs | `TypeCorrect` | `Spec => []TypeOK` |
| | `FloorAlwaysStands`, `EveryPermitExplained`, `WitnessIsExact` | `Spec => []FloorStands`, `[]PermitExplained`, `[]WitnessTells` |
| | `NoBurstPasses` | `Spec => []BurstStopped`, for any budgets and window |
| ... CalibrationLoop | `CalibratedPolicyHolds`, `ProposalsAnsweredOnce`, `SerialBudget` | `Cal!Spec => []ActiveHolds`, `[]AnsweredOnce`, `[]BudgetWhenSerial` |
| DecisionMemoryProofs | `TypeCorrect` | `Spec => []TypeOK` |
| | `StrictDurability` | `Spec => []StrictWriteThrough` |
| | `EvidenceIsBacked`, `AnsweredOnce` | `Spec => []EvidenceBacked`, `[]AnsweredOnceRecorded`, in every mode |
| | `WholeCommits`, `DegradedIsQuiet` | `Spec => []WholeUnlessDegraded`, `Spec => QuietOnceDegraded`, an action property |
| | `Implementation` | `Spec => ImplementsService`, the refinement of DecisionService |
| EvidenceChainProofs | `TypeCorrect` | `Spec => []TypeOK` |
| | `DamageIsVisible` | `Spec => []CorruptionVisible` |
| | `NoHoldHidden`, `NoResolutionMissed` | `Spec => []NeverHidesWaiting`, `[]IndexCurrent` |
| | `TamperingShows`, `SlicesAreExact` | `Spec => []TamperEvident`, `[]SliceExact` |
| ScanRunsProofs | `TypeCorrect`, `NoClosedHolder` | `Spec => []TypeOK`, `[]ActiveRunning`, without any assumption on time |
| | `LockIsHeld`, `OneScanAtATime` | `Spec => []LockHeld`, `[]OneScan`, assuming `ScansAreShort` |
| AgentRegistryProofs | `TypeCorrect`, `WritesAreStored`, `WritesAreServed` | `Spec => []TypeOK`, `[]NothingForgotten`, `[]NoWriteLost` |
| | `RevisionsAreKept`, `RevivedByEarlierReaders` | `Spec => RowsKept`, `RevivedByStaleOnly`, action properties |
| ... PresenceWatch | `DriftEventsTellTheScan` | `Watch!Spec => []LogIsEstate` |
| | `NoEarlyDisappearance` | `Watch!Spec => NoFalseAlarm`, an action property |
| | `NoDisappearanceAboveOne` | without overlapping cycles, no `AGENT_DISAPPEARED` at a threshold above one |
| EnforcementPointProofs | `TypeCorrect` | `Spec => []TypeOK` |
| | `EgressIsGated`, `ReceiptsAreTrue` | `Spec => []EgressGated`, `[]ReceiptTruth` |
| | `DeadStaysRefused` | `Spec => KnownDeadRefused`, an action property |
| SnapshotChainProofs | `TypeCorrect`, `NothingDropped` | `Spec => []TypeOK`, `[]Accounted` |
| | `HolesAreOutages`, `ChainIsOne` | `Spec => []HolesFromOutages`, `[]OneChain` |
| DiscoveryScanProofs | `TypeCorrect`, `OneAgentUnlessRaced` | `Spec => []TypeOK`, `[]OneAgentPerKey` |
| | `EntriesAreAccounted`, `ChainIsStored`, `ReplayIsComplete` | `Spec => []EntriesAccounted`, `[]StoredChain`, `[]ReplayHasRun` |

The proofs about CalibrationLoop, whose policy the decision point reads, are the second half of
PolicyDecisionProofs, those about PresenceWatch the second half of AgentRegistryProofs. Two
specifications cannot be extended side by side, since both define `Init`, `Next` and `TypeOK`; so
state, assumptions and properties of these two are in modules of their own (CalibrationPromises,
PresencePromises), which are extended, and the specifications are their instances `Cal` and `Watch`
over that state. Type invariants of all these modules are proved and not run.

**Assumptions.** The named `ASSUME`s of the specifications give the constants their types; TLC
evaluates them in every run. Those about bounds say that a bound (or the budget) is a natural
number; `ThresholdAssumption` that a presence threshold is at least one; `CadenceAssumption` that
soft budgets are not above hard ones, which `CadenceConfig.from_env` sees to, and that a request has
finitely many targets; `CapturesAssumption` that a behaviour of SnapshotChain has finitely many
captures; `CandidateAssumption` that a candidate of a scan has a kind and a level, and that no key
is the mark of a missing one. None of them limits how many there are. `StrictWriteThrough` has its
hypothesis `StrictMode` (strict, a database configured, every store up at every boot) inside;
section 5 shows that it is needed. Two theorems about scan runs assume `ScansAreShort`; without it a
slow holder's lock is reclaimed and both are false.

**PolicyDecision.** `Accounted` says that a decided request has the judgment of its report
(`Judgment`), or was raised from it by precedent (`Raised`). It is inductive because the
identity and the memoised level of a judged request never change (`SameJudgment`), although the
windows do. What is left is about the judgment alone: `Below` is what a stage after the router may
do to a result, `MergeLowers` and `HoldLowers` show it of one stage, `LoweredResult` of all of them;
from it `RaisedFromRouter` shows that an ABSTAIN that precedent may raise was the router's own,
with no violation among its flags, and `PermitIsQuiet` that a PERMIT has nothing against it.
`BurstStopped` needs the tracker. `WindowInv` says of each agent's window that it holds requests of
the agent once each, and that a counted request which is *not* in it lies a whole window before
one counted later: this survives pruning at any stamp, in any order of arrival, and is why the
window has all recent requests. That more requests have at least the level of fewer, in actions and in
targets, are `FanoutRises` and `LevelsRise`. If stamps are in order the window has that order as well,
so that the first entry the prune loop keeps vouches for all behind it, and the level is exact.
`OnceInv` says that no request_id is counted twice and `Assessed` that a request past the tracker has a
level, so a memoised level never changes; `CountInv` carries its comparison with the recent requests.
`NoBurstPasses` then follows from the theorems before it: a HARD level is a hard violation, and an
explained PERMIT has a level above CLEAR only if precedent raised it under a policy without the recogniser.

**DecisionMemory.** `AtTable` bounds the position of a thread that is at a table, without which
`TypeOK` does not survive `at + 1`. `StrictInv` says that in strict mode no thread is
ever on the fallback path, that all stores stay enabled, and that the statements a
thread has passed are staged; this is what `Commit` needs to show that all three rows
appear together. That rows are whole is not inductive by itself: it says nothing of an open
transaction. `CacheInv` tells how far the cache is filled at each step, through the
restart of the saves after a failed transaction. `ChainInv` says exactly
when a thread's decision is in the chain, by its step and by where it resumes after
degrading; both directions are needed, one for "answered", one for "once". `Implementation` rests on
`ChainInv`: each action is shown to be one step of the service or none, a crash being the failure of
every request that works. `WholeCommits` rests on `TransactionInv`: while every store is up and
nothing is degraded, every thread is on the transaction path and has staged the tables before its
place; a commit then has all of them. `DegradedIsQuiet` needs `DownInv`, that a process
which is down has neither flag nor stores and that a store is enabled only over a database.

**EvidenceChain.** `TypeInv` adds that an unended file has a last line. `DiskInv` is
`CorruptionVisible` itself with that fact: the lemma `DamageStays` shows that a damaged
file never becomes undamaged by appending, and `NextLink` that an append to an undamaged, ended file extends
the chain. `IndexInv` adds that a stopped process has no index. `NumberInv` says that record
numbers increase along the file, so a link names one place (`OneLink`); a file that verifies is then one
whose order has no first mistake, and the first mistake exists because the order of the naturals
is well founded (`First`). The same argument, in place of an induction over the file, gives the list of a
decision's places (`ListExists`) and shows that it has no gap exactly when the places stand together
(`NoGap`), which is all `SliceExact` says once links are places.

**ScanRuns.** `Inv` is enough for the theorems without assumption: a call under way has a
request, nothing is known of a run before it is opened, and active runs are
running. `LockInv` adds who owns a run (`OwnerInv`), that one thread of a process is inside
`acquire` and its tenant is unlocked there (`OpeningInv`), what the unique index enforces
(`IndexInv`), and that no process sees a live scan's run as stale (`FreshInv`); the last is
what the assumption gives, and what stops `Check` from closing the run. `OneScan` follows
from it without induction: two scans with rows contradict the index, two scans in one
process contradict the single active run.

**AgentRegistry.** `IndInv` relates four copies of a revision: acknowledged, cached, queued and
stored. `QueuedInv`: queued copies of one revision agree, so the order of replays does not matter.
`StoredInv`, `CacheInv`: where an acknowledged write is, during a re-load and outside it.
`TableInv`: a running process has the rows of the table in its cache but for foreign ones it has not
seen, which is why a new revision has no number that it knows to be taken. `NewestInv`: nothing is
newer than an acknowledged write but later ones and foreign rows. The maxima (`Latest`,
`LastQueued`) are handled by a least upper bound from the well-founded order of the naturals.

**EnforcementPoint.** `RequestInv` tells, for each place of a request, what every check it has passed
has left behind (`Gated`), what stays of it once it has left (`Left`), and which receipts follow from
where it is and how it ended (`Receipted`). These speak of one request, so a step of another one,
of a store or of a restart only has to be shown not to touch it. `Fresh` says that no store knows a
permit before it is minted nor a credential before it is brokered: a record is never issued twice,
and what was consumed stays consumed. `RedeemInv` says that a redemption under way is of a credential
that has left. `DeadInv` is what `KnownDeadRefused` needs: a process that knows a record to be dead has the
mark in its cache, or has not cached the record and finds the mark in the table.

**SnapshotChain.** A record is the sequence of captures it descends from. `Sound` says what one may
descend from: nothing, a row, or a record that an outage has parked or lost; `LinkInv` says that every
record in the table, parked or on its way to the table does, and the tip of every process that
has the table; `HolesFromOutages` is a consequence. `CallInv`, `LockInv` and `ParkInv` say what a call
has at each place, that one call of a process is under the lock and none during a replay, and that
what is parked stays parked; `Accounted` follows. `OneChild` is the unique index. For `OneChain`,
`AncestorInv` says that without outages every prefix of a row is a row, any two rows are
comparable, and, if nobody was overtaken, none of a row's ancestors is younger; a new row is the child of a
row that has none, which by the first two can only be the longest. `TimeInv` and `SomeNewest` give
the newest row, from which the chain is read. There is no induction over the length of the chain: the
prefixes are quantified in the invariant.

**DiscoveryScan.** `AgentInv`: caches and table of the registry agree on keys, and the index of a
process has an agent of the key of every agent that it loaded at its start or registered since.
`LookInv`: what a scan has decided on is what it looked up. `RaceInv`: where two scans of a process
have not met at a key, it has registered no second agent of it, and no known agent has the key
that one of them is about to register; `OneAgentPerKey` is its first conjunct. `OrderInv`: the
numbers in a ledger increase, so the next one is above all of them. `ChainInv`: without outages and
without entries by a process that was behind, nothing is parked, every number below a stored
one is stored, and a row descends from the one before it; that the numbers of the sorted table are then its
positions follows by counting, from a bijection. `RunInv` says where the entries of a scan are in the
ledger of its process, during the run and after it.

**CalibrationLoop.** `ApplyInv` ties an apply to its proposal, which is APPROVED in the cache as
long as the apply runs, so it is neither approved again, rejected nor expired meanwhile; `DraftInv`
says that a draft between guard and save is in no store yet. `ActiveHolds` is not inductive: it
allows other active versions before the last saved one, and saving that one again as inactive would
put another in force. `ActiveInv` says that nothing is active but the policy in force, or an apply
is between its save and its activation, or one of the named faults has happened; the faults stay
until the process ends. `AnswerInv` is about the two copies of a proposal: not approved in the cache
or not approved in the table, its policy has not been saved; and the copies agree while the table
works, and have no proposal in common while it does not. This is what carries "once" over a restart,
which reads the table. For the budget, `Serial` says that while an apply moves a threshold no other
proposal is in progress, that the budget has room for each one that is, and that the thresholds have
moved by what is recorded and the one movement that is not; `BudgetInv` that this holds in the first
process or an exception of the property does. The order of the active versions is a sequence; that a
version is in it at most once is part of `TypeOK`, and lemmas on `RemoveFirst` show that a save
keeps it so.

**PresenceWatch.** Without an overlap one cycle is open at most (`CycleInv`). `Tells` relates drift events
and a scan at one key. A cycle has handled some keys, for which the events tell its own scan, and
has still to handle others, for which they tell the scan before; `Finish` makes the first
the scan before. `NoFalseAlarm` needs more: that every agent of the scan before is present
in the tracker, with no miss counted, until the open cycle has missed it. A miss is therefore always
the first of its agent, so it is confirmed at a threshold of one or not at all. That is also the content of
`NoDisappearanceAboveOne`.

**Only model-checked.** The liveness properties `RequestsSettle`, `DegradeCompletes`,
`NoEternalLock`, `GhostsFade` and `GoneReportedAtOne`: liveness and ENABLED are out of the prover's
reach. Every safety property that a passing run checks is a theorem.

## 5. Where the code and its documentation differ

One disagreement is a run that TLC ends with a counterexample:

**A disappearance is never reported at the default threshold** (`discovery/scheduler.py:614`,
`lost_disappearance`). The disappearance pass counts a miss only for the keys of the scan just before
and then replaces those keys, so a key that is missed once is never counted again. With any
threshold above one, `AGENT_DISAPPEARED` is not emitted; `NoDisappearanceAboveOne` proves this of every
behaviour without overlapping cycles. `discovery/presence.py:31-32`: "three consecutive
missing scans cement disappearance".

In the other cases a property says exactly how much the code keeps, and the models have the rest:

* *Strict mode after a failed bootstrap* (`memory/system.py:293`). A store whose schema bootstrap
  failed is not enabled, strict mode does not degrade, and the durable path commits an empty
  transaction and answers; line 69 promises "strict write-through". `StrictMode` excludes it.
* *Degrading tears a transaction* (`memory/system.py:374`). Stores are marked one by one while another
  thread is between two `save_in_tx` calls; line 250: "Either all three commit or none of them do".
  `WholeUnlessDegraded` excludes it.
* *Slices of interleaved decisions* (`evidence/exporter.py:304`). A decision whose records are not
  adjacent in the chain is exported as invalid; line 262 promises independent verification.
  `SliceExact` says for which decisions it holds.
* *A keyed retry scans beside the first* (`discovery/service.py:332`). `acquire` returns the running run
  of the same key, and `scan` goes on; `stores/scan_runs.py:28`: "holds a per-tenant lock for its
  lifetime". `OneScan` speaks of unkeyed scans.
* *A lifecycle request for the present status breaks the hash chain*
  (`stores/agent_registry_postgres.py:296`): the unchanged revision is flushed again with its own hash
  as predecessor. A failed flush has a similar effect (line 649). No property of the chain is stated.
* *Revisions of another writer are overwritten* (`stores/agent_registry_postgres.py:683`). The
  upsert is keyed by agent and revision, and the revision is counted in the cache: a process whose
  cache is older than the table, by a re-sync window, a queued write or a failed load at boot (line
  233), rewrites rows of the audit trail. `RowsKept` says which.
* *A revoked agent comes back* (`commands/evaluate_action.py:446`). The evaluation saves a copy of the
  agent it read before the revocation; `domain/agent.py:50`: "REVOKED: terminal".
  `RevivedByStaleOnly` says that there is no other way.
* *The policy in force is undone by an evaluation* (`memory/system.py:305`), which saves the policy it
  read with the flag of that time; and *the budget is exceeded* by proposals in progress at the same
  time (`learning/feedback_loop.py:479` asks the guard, line 624 saves, line 681 records), by an
  apply that raised, or across a restart. `ActiveHolds` and `BudgetWhenSerial` name these.
* *A credential outlives a failed consume* (`authority/broker.py:768`): `redeem` answers with the
  verification whatever became of the consume. `KnownDeadRefused` speaks of what the process knows.
* *The index is older than the registry* (`discovery/service.py:247`). It is built when the service is
  constructed and then written by its own scans only, so an agent that another process or an
  operator has registered since is registered again by the next scan, without any race. Line 84
  says that an operator-registered agent "is recognized by subsequent scans"; it is after a restart.
  `OneAgentPerKey` speaks of the agents a process loaded or registered.
* *The order of the snapshots is not the order of the chain* (`stores/governance_snapshots.py:238`):
  `captured_at` is taken before the lock. `OneChain` excludes captures that were overtaken.
* *Holds that were not heard* (`engine/precedent_influence.py:216`). The holds and the conformal gate act
  on a PERMIT only; when the router abstains they leave no flag, and precedent may then raise an
  ABSTAIN that they would have held. The comment above the allowlist says that each such signal
  "stamps its own marker flag". `PermitExplained` says what is known of such a PERMIT.
* *Cadence under a policy without its recogniser* (`deterministic/gate.py:79`). The floor and the hold
  still assess, but the hold touches a PERMIT only (`deterministic/cadence.py:594`): a soft burst on
  which the router abstains for a discretionary reason leaves no flag, and precedent may permit it.
  `cadence.py:66-67` calls the tracker "robust to the recognizer being disabled by policy"; it is for a
  hard burst. `BurstStopped` and `PermitExplained` have the exception.
* *What the tracker counts by is the caller's* (`api/schemas.py:377`, 387). `requested_at` may be set by
  the caller, though `deterministic/cadence.py:71-73` calls it edge-assigned, and a second request under the
  same request_id is answered from the memo and not counted (lines 341-343). `BurstStopped` holds for any
  choice of both, of the requests that are counted and within a window of every stamp since.

Behaviour that no property forbids, because the code does not keep it: a cached decision whose strict
transaction was rolled back (`memory/decision_store.py:168`); a completed run that another process
rewrites as failed because its copy of the heartbeat aged (`stores/scan_runs.py:312`); a reader that
sees the table without queued writes during a re-load (`stores/agent_registry_postgres.py:590`); the
record behind a torn line, which is unreadable although its append returned
(`evidence/recorder.py:792`).

## 6. What is not modelled

Within the modelled components: read paths and administrative deletes; signatures, payload contents,
C2PA emission and retention in the evidence chain; agent fields other than the lifecycle status and
the capability surface, the audit context and the self-governance gate (unbound by default) in the
registry; agents deleted from the table while scans run (AgentRegistry has them, DiscoveryScan does
not); score fusion, calibration of the conformal gate and the statistics of the risk spine in the
decision point; a cadence tracker that is switched off (`TEX_CADENCE_ENABLED`), and the eviction
from its memo and windows, whose limits (4096 requests, 1024 entries) small instances cannot reach.
SQL text, serialisation and documentation make up most of the lines of these files that the map of
`PROJECT.json` does not name.

Components left out, with the reason (`PROJECT.json` has the full list):

* rules and adapters around a modelled component: standing governance, enforcement gate and
  gateway, HTTP API and commands, dormancy sweep, sealed fact ledger and feed;
* floating-point estimation, text recognition and model calls: discovery engine,
  deterministic gate, specialists, semantic judge, drift and systemic analysis;
* cryptography and zero-knowledge backends: number theory;
* read models and language generation: vigil, voice, answers;
* code that no entry point reaches: SafeFlow, compliance and pending packages;
* other languages, generated and third-party code, demonstrations, deployment files.

Most of the repository's lines are in these: the modelled components are the ones that keep state
which several actors share or which outlives a failure.

## 7. Plan

Done, in this order: DecisionMemory, EvidenceChain, ScanRuns, AgentRegistry, each with its proofs;
DecisionService and the refinement; CalibrationLoop, PermitStore with EnforcementPoint,
SnapshotChain, DiscoveryScan, PresenceWatch; PolicyDecision with its proofs; the proofs of
EnforcementPoint, SnapshotChain and DiscoveryScan, and of what was open in DecisionMemory,
PolicyDecision and EvidenceChain; the proofs of CalibrationLoop and PresenceWatch.

Next:

1. Abstract specifications for the other stores: an exclusive lock with lease, implemented by
   ScanRuns for unkeyed requests over a working table; an append-only log with a visible failure
   bit, implemented by EvidenceChain.
2. The sealed fact ledger with its feed: claimed and assigned sequence numbers, held decisions that
   reach the ledger.
3. Publication of forbid sets to enforcement points that may hold an old one.
