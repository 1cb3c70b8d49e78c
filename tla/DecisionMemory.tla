--------------------------- MODULE DecisionMemory ---------------------------
(***************************************************************************)
(* MemorySystem.record_decision_with_policy (src/src/tex/memory/system.py) *)
(* run by concurrent request threads over one database, one JSONL evidence *)
(* chain and one set of in-process stores.                                 *)
(*                                                                         *)
(* A request thread either writes decision, input and policy snapshot in   *)
(* one Postgres transaction, or, once the memory layer is degraded, store  *)
(* by store; it then appends to the chain and mirrors the record.  Every   *)
(* database call may fail, and a commit may fail after the server has      *)
(* applied it: the per-statement timeouts and the connection cap of        *)
(* memory/_db.py make such failures hit one thread and spare another.      *)
(***************************************************************************)
EXTENDS Integers, Sequences

CONSTANTS
    Requests,      \* evaluation requests; each carries one decision
    Policies,      \* policy versions, all seeded into the store at boot
    PolicyOf,      \* the policy version that judged each request
    DbConfigured,  \* DATABASE_URL is set
    MaxBoots       \* bound: process starts in one behaviour

ASSUME PolicyOfAssumption == PolicyOf \in [Requests -> Policies]
ASSUME FlagAssumption == DbConfigured \in BOOLEAN
ASSUME MaxBootsAssumption == MaxBoots \in Nat

VARIABLES
    strict,    \* TEX_REQUIRE_DURABLE=1, for the life of the deployment
    patchy,    \* history: some boot brought a store up without Postgres
    up,        \* the process runs
    boots,     \* process starts so far
    degraded,  \* MemorySystem._degraded
    enabled,   \* the stores whose _postgres_enabled is set
    pg,        \* committed rows of every table
    cache,     \* the stores' in-memory rows
    chain,     \* decisions recorded in the JSONL chain, oldest first
    step,      \* where each request thread stands
    at,        \* index of the store the thread handles next
    resume,    \* where the thread continues after _enter_degraded_mode
    staged     \* rows' tables written in the thread's open transaction

vars == <<strict, patchy, up, boots, degraded, enabled, pg, cache, chain, step,
          at, resume, staged>>

-----------------------------------------------------------------------------

\* The stores in the order in which __post_init__ builds them and
\* _enter_degraded_mode marks them.
Stores == <<"decisions", "inputs", "policies",
            "permits", "verifications", "evidence_mirror">>

StoreNames == {"decisions", "inputs", "policies",
               "permits", "verifications", "evidence_mirror"}

\* The three tables of the transaction are the first three stores.
Tables == {"decisions", "inputs", "policies"}

\* Index of the last table of the transaction.
LastTable == 3

\* Mutant: the marking loop forgets the evidence mirror.
LastStoreForgotten == 5

\* Index of the last store to mark.
LastStore == 6

\* The row a request writes into a table.
Row(s, r) == IF s = "policies" THEN PolicyOf[r] ELSE r

Insert(db, s, r) == [db EXCEPT ![s] = @ \union {Row(s, r)}]

Steps == {"idle", "tx", "commit", "enter", "mark", "save", "dial", "append",
          "mirror", "dial_mirror", "answered", "raised", "lost"}

Settled == {"answered", "raised", "lost"}

Goto(r, s) == step' = [step EXCEPT ![r] = s]

EmptyRows == [s \in Tables \union {"evidence_mirror"} |-> {}]

-----------------------------------------------------------------------------

\* A fresh deployment: the process is down, the database and chain empty.
Init ==
    /\ strict \in BOOLEAN
    /\ patchy = FALSE
    /\ up = FALSE
    /\ boots = 0
    /\ degraded = FALSE
    /\ enabled = {}
    /\ pg = EmptyRows
    /\ cache = [s \in Tables |-> {}]
    /\ chain = <<>>
    /\ step = [r \in Requests |-> "idle"]
    /\ at = [r \in Requests |-> 1]
    /\ resume = [r \in Requests |-> "save"]
    /\ staged = [r \in Requests |-> {}]

\* Which stores come up with Postgres: each store retries the schema
\* bootstrap, and the first success serves all the stores after it.
Bootstrapped ==
    IF ~DbConfigured THEN {{}}
    ELSE {{Stores[i] : i \in k..6} : k \in 1..7}

\* MemorySystem.__post_init__ and _seed_default_policies.  A store that came
\* up with Postgres hydrates its cache, or starts empty when the read fails.
Boot ==
    /\ ~up
    /\ boots < MaxBoots
    /\ up' = TRUE
    /\ boots' = boots + 1
    /\ \E on \in Bootstrapped :
          LET boot_degraded ==
                  DbConfigured /\ "decisions" \notin on /\ ~strict
          IN  /\ patchy' = (patchy \/ on # StoreNames)
              /\ degraded' = boot_degraded
              /\ enabled' = IF boot_degraded THEN {} ELSE on
              /\ \E hydrated \in SUBSET (on \intersect {"decisions", "inputs"}) :
                    cache' = [s \in Tables |->
                                IF s = "policies" THEN Policies
                                ELSE IF s \in hydrated THEN pg[s] ELSE {}]
              /\ pg' = IF "policies" \in enabled'
                         THEN [pg EXCEPT !["policies"] = Policies] ELSE pg
    /\ UNCHANGED <<strict, chain, step, at, resume, staged>>

\* Mutant: what a dead process was working on is taken up again.
CrashRetries ==
    /\ up
    /\ boots < MaxBoots
    /\ up' = FALSE
    /\ degraded' = FALSE
    /\ enabled' = {}
    /\ cache' = [s \in Tables |-> {}]
    /\ step' = [r \in Requests |-> IF step[r] \in Settled THEN step[r] ELSE "idle"]
    /\ staged' = [r \in Requests |-> {}]
    /\ UNCHANGED <<strict, patchy, boots, pg, chain, at, resume>>

\* The process dies: memory is lost, open transactions are rolled back by the
\* server, unanswered requests get no answer.
Crash ==
    /\ up
    /\ boots < MaxBoots
    /\ up' = FALSE
    /\ degraded' = FALSE
    /\ enabled' = {}
    /\ cache' = [s \in Tables |-> {}]
    /\ step' = [r \in Requests |->
                  IF step[r] \in Settled \union {"idle"} THEN step[r]
                  ELSE "lost"]
    /\ staged' = [r \in Requests |-> {}]
    /\ UNCHANGED <<strict, patchy, boots, pg, chain, at, resume>>

-----------------------------------------------------------------------------

\* Mutant: the fallback is taken in strict mode too.
DbErrorDegrades(r, next) ==
    /\ Goto(r, "enter")
    /\ resume' = [resume EXCEPT ![r] = next]

\* A psycopg.Error on the decide path: strict mode raises, otherwise the
\* memory layer degrades and the thread continues at `next'.
DbError(r, next) ==
    /\ Goto(r, IF strict THEN "raised" ELSE "enter")
    /\ resume' = [resume EXCEPT ![r] = next]

\* Mutant: a degraded layer still opens a transaction per call.
DurableAsConfigured == DbConfigured

\* The path the next write takes.
Durable == DbConfigured /\ ~degraded

\* The `durable' test and, when durable, connect_tx: the connect may fail.
Begin(r) ==
    /\ up
    /\ step[r] = "idle"
    /\ at' = [at EXCEPT ![r] = 1]
    /\ staged' = [staged EXCEPT ![r] = {}]
    /\ \/ /\ Durable
          /\ \/ Goto(r, "tx") /\ UNCHANGED resume
             \/ DbError(r, "save")
       \/ /\ ~Durable
          /\ Goto(r, "save")
          /\ UNCHANGED resume
    /\ UNCHANGED <<strict, patchy, up, boots, degraded, enabled, pg, cache, chain>>

\* The rows of the thread's transaction become visible.
ApplyStaged(r) ==
    pg' = [s \in DOMAIN pg |->
             IF s \in staged[r] THEN pg[s] \union {Row(s, r)} ELSE pg[s]]

\* Mutant: the connection is in autocommit mode, statements stay.
RollbackKeepsRows(r) ==
    /\ staged' = [staged EXCEPT ![r] = {}]
    /\ ApplyStaged(r)

\* connect_tx: conn.rollback() and close.
Rollback(r) ==
    /\ staged' = [staged EXCEPT ![r] = {}]
    /\ UNCHANGED pg

\* save_in_tx of the next table: SQL only when the store is enabled, then the
\* cache, whatever becomes of the transaction.
TxWrite(r) ==
    LET s == Stores[at[r]] IN
    /\ up
    /\ step[r] = "tx"
    /\ staged' = [staged EXCEPT ![r] =
                    IF s \in enabled THEN @ \union {s} ELSE @]
    /\ cache' = Insert(cache, s, r)
    /\ at' = [at EXCEPT ![r] = @ + 1]
    /\ Goto(r, IF at[r] = LastTable THEN "commit" ELSE "tx")
    /\ UNCHANGED <<strict, patchy, up, boots, degraded, enabled, pg, chain, resume>>

\* The statement fails: rollback, and the exception leaves the transaction.
TxWriteFails(r) ==
    /\ up
    /\ step[r] = "tx"
    /\ Stores[at[r]] \in enabled
    /\ DbError(r, "save")
    /\ Rollback(r)
    /\ at' = [at EXCEPT ![r] = 1]
    /\ UNCHANGED <<strict, patchy, up, boots, degraded, enabled, cache, chain>>

\* conn.commit().
Commit(r) ==
    /\ up
    /\ step[r] = "commit"
    /\ ApplyStaged(r)
    /\ staged' = [staged EXCEPT ![r] = {}]
    /\ Goto(r, "append")
    /\ UNCHANGED <<strict, patchy, up, boots, degraded, enabled, cache, chain, at, resume>>

\* conn.commit() raises: the server may or may not have applied it.
CommitFails(r) ==
    /\ up
    /\ step[r] = "commit"
    /\ \/ Rollback(r)
       \/ ApplyStaged(r) /\ staged' = [staged EXCEPT ![r] = {}]
    /\ at' = [at EXCEPT ![r] = 1]
    /\ DbError(r, "save")
    /\ UNCHANGED <<strict, patchy, up, boots, degraded, enabled, cache, chain>>

\* Mutant: a thread that finds the flag set takes its write as done.
EnterDegradedSkips(r) ==
    /\ up
    /\ step[r] = "enter"
    /\ degraded' = TRUE
    /\ at' = [at EXCEPT ![r] = 1]
    /\ Goto(r, IF degraded THEN "append" ELSE "mark")
    /\ UNCHANGED <<strict, patchy, up, boots, enabled, pg, cache, chain, resume, staged>>

\* Mutant: the lock is never released after the flag is set.
EnterDegradedBlocks(r) ==
    /\ ~degraded
    /\ EnterDegradedSkips(r)

\* _enter_degraded_mode: test and set under the lock; a thread that finds the
\* flag set returns at once, the first one goes on to mark the stores.
EnterDegraded(r) ==
    /\ up
    /\ step[r] = "enter"
    /\ degraded' = TRUE
    /\ at' = [at EXCEPT ![r] = 1]
    /\ Goto(r, IF degraded THEN resume[r] ELSE "mark")
    /\ UNCHANGED <<strict, patchy, up, boots, enabled, pg, cache, chain, resume, staged>>

\* store.mark_degraded(), one store after the other, outside the lock.
MarkStore(r) ==
    /\ up
    /\ step[r] = "mark"
    /\ enabled' = enabled \ {Stores[at[r]]}
    /\ IF at[r] < LastStore
         THEN at' = [at EXCEPT ![r] = @ + 1] /\ UNCHANGED step
         ELSE at' = [at EXCEPT ![r] = 1] /\ Goto(r, resume[r])
    /\ UNCHANGED <<strict, patchy, up, boots, degraded, pg, cache, chain, resume, staged>>

-----------------------------------------------------------------------------

\* Continue after the single-store save of Stores[at[r]].
NextSave(r) ==
    /\ at' = [at EXCEPT ![r] = @ + 1]
    /\ Goto(r, IF at[r] = LastTable THEN "append" ELSE "save")

\* store.save outside a transaction, store not enabled: cache only.
SaveCached(r) ==
    /\ up
    /\ step[r] = "save"
    /\ Stores[at[r]] \notin enabled
    /\ cache' = Insert(cache, Stores[at[r]], r)
    /\ NextSave(r)
    /\ UNCHANGED <<strict, patchy, up, boots, degraded, enabled, pg, chain, resume, staged>>

\* store.save, store still enabled: the thread dials Postgres.
SaveDials(r) ==
    /\ up
    /\ step[r] = "save"
    /\ Stores[at[r]] \in enabled
    /\ Goto(r, "dial")
    /\ UNCHANGED <<strict, patchy, up, boots, degraded, enabled, pg, cache, chain, at, resume,
                   staged>>

\* _write_postgres succeeds: autocommitted row, then the cache.
DialSucceeds(r) ==
    /\ up
    /\ step[r] = "dial"
    /\ pg' = Insert(pg, Stores[at[r]], r)
    /\ cache' = Insert(cache, Stores[at[r]], r)
    /\ NextSave(r)
    /\ UNCHANGED <<strict, patchy, up, boots, degraded, enabled, chain, resume, staged>>

\* _write_postgres raises: nothing catches it on this path.
DialFails(r) ==
    /\ up
    /\ step[r] = "dial"
    /\ pg' = Insert(pg, Stores[at[r]], r) \/ UNCHANGED pg
    /\ Goto(r, "raised")
    /\ UNCHANGED <<strict, patchy, up, boots, degraded, enabled, cache, chain, at, resume,
                   staged>>

-----------------------------------------------------------------------------

\* recorder.record_decision: one locked append to the JSONL chain.
AppendChain(r) ==
    /\ up
    /\ step[r] = "append"
    /\ chain' = Append(chain, r)
    /\ Goto(r, "mirror")
    /\ UNCHANGED <<strict, patchy, up, boots, degraded, enabled, pg, cache, at, resume,
                   staged>>

\* The file cannot be written: the exception reaches the caller.
AppendFails(r) ==
    /\ up
    /\ step[r] = "append"
    /\ Goto(r, "raised")
    /\ UNCHANGED <<strict, patchy, up, boots, degraded, enabled, pg, cache, chain, at, resume,
                   staged>>

\* mirror_record returns at once when its store is not enabled.
MirrorSkipped(r) ==
    /\ up
    /\ step[r] = "mirror"
    /\ "evidence_mirror" \notin enabled
    /\ Goto(r, "answered")
    /\ UNCHANGED <<strict, patchy, up, boots, degraded, enabled, pg, cache, chain, at, resume,
                   staged>>

MirrorDials(r) ==
    /\ up
    /\ step[r] = "mirror"
    /\ "evidence_mirror" \in enabled
    /\ Goto(r, "dial_mirror")
    /\ UNCHANGED <<strict, patchy, up, boots, degraded, enabled, pg, cache, chain, at, resume,
                   staged>>

MirrorSucceeds(r) ==
    /\ up
    /\ step[r] = "dial_mirror"
    /\ pg' = Insert(pg, "evidence_mirror", r)
    /\ Goto(r, "answered")
    /\ UNCHANGED <<strict, patchy, up, boots, degraded, enabled, cache, chain, at, resume,
                   staged>>

\* The mirror insert fails: strict raises, otherwise degrade and answer.
MirrorFails(r) ==
    /\ up
    /\ step[r] = "dial_mirror"
    /\ pg' = Insert(pg, "evidence_mirror", r) \/ UNCHANGED pg
    /\ DbError(r, "answered")
    /\ UNCHANGED <<strict, patchy, up, boots, degraded, enabled, cache, chain, at, staged>>

-----------------------------------------------------------------------------

\* One step of the thread that serves r.
Thread(r) ==
    \/ Begin(r)
    \/ TxWrite(r) \/ TxWriteFails(r) \/ Commit(r) \/ CommitFails(r)
    \/ EnterDegraded(r) \/ MarkStore(r)
    \/ SaveCached(r) \/ SaveDials(r) \/ DialSucceeds(r) \/ DialFails(r)
    \/ AppendChain(r) \/ AppendFails(r)
    \/ MirrorSkipped(r) \/ MirrorDials(r) \/ MirrorSucceeds(r)
    \/ MirrorFails(r)

Next == Boot \/ Crash \/ \E r \in Requests : Thread(r)

Spec == Init /\ [][Next]_vars

\* Every database call is bounded by connect_timeout, statement_timeout and
\* lock_timeout, and the operator restarts a dead process.
FairSpec ==
    /\ Spec
    /\ WF_vars(Boot)
    /\ \A r \in Requests : WF_vars(Thread(r))
-----------------------------------------------------------------------------

Recorded(r) == \E i \in DOMAIN chain : chain[i] = r

Stored(db, r) == \A s \in Tables : Row(s, r) \in db[s]

\* Past the stores: the next thing the thread may do is leave evidence.
PastStores(r) ==
    \/ step[r] \in {"append", "mirror", "dial_mirror"}
    \/ step[r] \in {"enter", "mark"} /\ resume[r] = "answered"

\* Shapes of all the variables.
TypeOK ==
    /\ strict \in BOOLEAN
    /\ patchy \in BOOLEAN
    /\ up \in BOOLEAN
    /\ boots \in 0..MaxBoots
    /\ degraded \in BOOLEAN
    /\ enabled \subseteq StoreNames
    /\ pg \in [Tables \union {"evidence_mirror"} ->
                 SUBSET (Requests \union Policies)]
    /\ cache \in [Tables -> SUBSET (Requests \union Policies)]
    /\ chain \in Seq(Requests)
    /\ step \in [Requests -> Steps]
    /\ at \in [Requests -> 1..6]
    /\ resume \in [Requests -> {"save", "answered"}]
    /\ staged \in [Requests -> SUBSET Tables]

\* Every evidence record has its decision, input and policy rows in Postgres.
RowsBehind == \A r \in Requests : Recorded(r) => Stored(pg, r)

\* Every decision row has its input row and its policy row.
Triples == \A r \in Requests : r \in pg["decisions"] => Stored(pg, r)

\* Strict mode, and every boot so far brought up every store with Postgres.
\* Without the latter record_decision_with_policy commits a transaction into
\* which the store that is off has written nothing.
StrictMode == strict /\ DbConfigured /\ ~patchy

\* TEX_REQUIRE_DURABLE=1 "restores strict write-through" (system.py:69), and
\* "either all three commit or none of them do" (system.py:250): whatever
\* fails or crashes after complete boots, a decision that has an evidence
\* record has its three rows in Postgres, and no decision row is there without
\* its input and policy rows.
StrictWriteThrough == StrictMode => RowsBehind /\ Triples

\* A request is answered only after its evidence record is in the chain, and
\* no interleaving or restart records a decision twice.
AnsweredOnceRecorded ==
    /\ \A r \in Requests : step[r] = "answered" => Recorded(r)
    /\ \A i, j \in DOMAIN chain : chain[i] = chain[j] => i = j

\* The stores are written before the evidence: a thread that is about to
\* append, or has appended, finds its decision, input and policy in the
\* stores that serve reads, degraded or not.
EvidenceBacked ==
    \A r \in Requests : PastStores(r) => Stored(cache, r)

InFlight(r) == step[r] \in {"tx", "commit", "dial", "dial_mirror"}

\* "later calls stop dialing a dead database" (decision_store.py:362): when
\* every store is marked no thread starts a database call, and once the calls
\* in flight are over Postgres does not change until the process restarts.
QuietOnceDegraded ==
    [][ degraded /\ enabled = {} /\ up' =>
          /\ \A r \in Requests : InFlight(r)' => InFlight(r)
          /\ (\A r \in Requests : ~InFlight(r)) => pg' = pg ]_vars

\* "Either all three commit or none of them do" (system.py:250), outside a
\* degradation: as long as no thread has degraded the layer and every store
\* came up with Postgres, a decision row appears together with its input and
\* policy rows, whichever statement or commit fails.
WholeUnlessDegraded ==
    [][\A r \in Requests :
          /\ r \in pg'["decisions"] \ pg["decisions"]
          /\ ~degraded /\ enabled = StoreNames
          => Stored(pg', r)]_vars

\* A request as its caller sees it.
Phase(r) ==
    CASE step[r] = "idle"              -> "new"
      [] step[r] = "answered"          -> "answered"
      [] step[r] \in {"raised", "lost"} -> "failed"
      [] OTHER                         -> "working"

Service == INSTANCE DecisionService
               WITH trail <- chain, phase <- [r \in Requests |-> Phase(r)]

\* Threads, transactions, degradation and crashes implement DecisionService:
\* a request is recorded once, in one unbroken trail, and answered after it.
ImplementsService == Service!Spec

\* Every request that was begun is answered, refused, or cut off by a crash:
\* no error path leaves a thread waiting.
RequestsSettle ==
    \A r \in Requests :
        (step[r] # "idle") ~> (step[r] \in Settled)

\* Degrading is carried through: once the flag is set every store ends up
\* cache-only, although the marking runs outside the lock.
DegradeCompletes == degraded ~> (enabled = {} \/ ~up)

-----------------------------------------------------------------------------
(* Strengthenings that make the invariants above inductive.                *)

\* A thread at a table is at one of the three tables.
AtTable ==
    \A r \in Requests : step[r] \in {"tx", "save", "dial"} => at[r] <= LastTable

\* Strict mode after complete boots never leaves the transaction path:
\* all stores stay enabled, what precedes the thread in the table order is
\* staged, and what has been committed is stored.
StrictInv ==
    /\ ~degraded
    /\ up => enabled = StoreNames
    /\ \A r \in Requests :
        /\ step[r] \notin {"enter", "mark", "save", "dial"}
        /\ step[r] = "tx" =>
             /\ at[r] > 1 => "decisions" \in staged[r]
             /\ at[r] > 2 => "inputs" \in staged[r]
        /\ step[r] = "commit" => staged[r] = Tables
        /\ step[r] \in {"append", "mirror", "dial_mirror"} => Stored(pg, r)
    /\ RowsBehind
    /\ Triples

\* No thread runs while the process is down, and the tables before the one
\* a thread is at are in the cache.
CacheInv ==
    \A r \in Requests :
        /\ ~up => step[r] \in Settled \union {"idle"}
        /\ step[r] \in {"tx", "save", "dial"} =>
             /\ at[r] > 1 => Row("decisions", r) \in cache["decisions"]
             /\ at[r] > 2 => Row("inputs", r) \in cache["inputs"]
        /\ step[r] = "commit" => Stored(cache, r)
        /\ PastStores(r) => Stored(cache, r)

\* A thread has evidence exactly when it is past its append.
ChainInv ==
    /\ \A r \in Requests :
        /\ (\/ step[r] \in {"mirror", "dial_mirror", "answered"}
            \/ step[r] \in {"enter", "mark"} /\ resume[r] = "answered")
             => Recorded(r)
        /\ (\/ step[r] \in {"idle", "tx", "commit", "save", "dial", "append"}
            \/ step[r] \in {"enter", "mark"} /\ resume[r] = "save")
             => ~Recorded(r)
    /\ AnsweredOnceRecorded

\* A process that is down has neither flag nor stores, and a store is enabled
\* only over a database.
DownInv ==
    /\ ~up => ~degraded /\ enabled = {}
    /\ enabled # {} => DbConfigured

\* As long as every store is up and nothing is degraded every thread is on the
\* transaction path: what precedes it in the table order is staged.
TransactionInv ==
    ~degraded /\ enabled = StoreNames =>
        \A r \in Requests :
            /\ step[r] \notin {"mark", "save", "dial"}
            /\ step[r] = "tx" =>
                 /\ at[r] > 1 => "decisions" \in staged[r]
                 /\ at[r] > 2 => "inputs" \in staged[r]
            /\ step[r] = "commit" => staged[r] = Tables
=============================================================================
