----------------------------- MODULE PermitStore -----------------------------
(***************************************************************************)
(* PermitStore (src/src/tex/memory/permit_store.py): the one-time records  *)
(* behind egress permits and brokered credentials.  Every process has its  *)
(* own cache; the processes share the table tex_permits.  A record is a    *)
(* set of marks, and the empty set is a record that is not there.          *)
(*                                                                         *)
(* The operations are given as operators on the state, for the modules     *)
(* that call them.                                                         *)
(***************************************************************************)
EXTENDS Integers, FiniteSets

CONSTANTS
    Procs,  \* processes
    Ids     \* nonces: one permit or credential each

VARIABLES
    rows,   \* tex_permits: the marks of each record
    cache,  \* per process: the marks of each record in _by_id
    pg      \* per process: _postgres_enabled

storeVars == <<rows, cache, pg>>

Marks == {"issued", "consumed", "revoked"}
Nothing == {}

StoreInit ==
    /\ rows = [k \in Ids |-> Nothing]
    /\ cache = [p \in Procs |-> [k \in Ids |-> Nothing]]
    /\ pg \in [Procs -> BOOLEAN]

StoreType ==
    /\ rows \in [Ids -> SUBSET Marks]
    /\ cache \in [Procs -> [Ids -> SUBSET Marks]]
    /\ pg \in [Procs -> BOOLEAN]

-----------------------------------------------------------------------------

\* get_by_nonce: the cached record, else the row; a read that fails finds
\* nothing.
Lookup(p, k) ==
    IF cache[p][k] # Nothing THEN {cache[p][k]}
    ELSE IF pg[p] THEN {rows[k], Nothing} ELSE {Nothing}

\* issue: the row first, then the cache.
Issue(p, k) ==
    /\ rows' = IF pg[p] THEN [rows EXCEPT ![k] = {"issued"}] ELSE rows
    /\ cache' = [cache EXCEPT ![p][k] = {"issued"}]
    /\ UNCHANGED pg

\* issue raises; the insert may have been committed.
IssueFails(p, k) ==
    /\ pg[p]
    /\ rows' \in {rows, [rows EXCEPT ![k] = {"issued"}]}
    /\ UNCHANGED <<cache, pg>>

\* consume: the row gets its mark if it has none yet, then the cached record,
\* which is read from the table if it is not cached.
Consume(p, k) ==
    /\ IF pg[p] THEN rows[k] # Nothing ELSE cache[p][k] # Nothing
    /\ rows' = IF pg[p] THEN [rows EXCEPT ![k] = @ \union {"consumed"}] ELSE rows
    /\ cache' = [cache EXCEPT ![p][k] =
                    (IF @ = Nothing THEN rows[k] ELSE @) \union {"consumed"}]
    /\ UNCHANGED pg

\* consume raises: no such record, or Postgres fails with the update made or
\* not, or the record is not cached and cannot be read back.
ConsumeFails(p, k) ==
    /\ UNCHANGED <<cache, pg>>
    /\ IF pg[p]
       THEN \/ rows' = rows
            \/ /\ rows[k] # Nothing
               /\ rows' = [rows EXCEPT ![k] = @ \union {"consumed"}]
       ELSE cache[p][k] = Nothing /\ rows' = rows

\* revoke: as consume, but a record that is not cached is not read back.
Revoke(p, k) ==
    /\ cache[p][k] # Nothing
    /\ pg[p] => rows[k] # Nothing
    /\ rows' = IF pg[p] THEN [rows EXCEPT ![k] = @ \union {"revoked"}] ELSE rows
    /\ cache' = [cache EXCEPT ![p][k] = @ \union {"revoked"}]
    /\ UNCHANGED pg

\* revoke raises; the row may have its mark.
RevokeFails(p, k) ==
    /\ pg[p]
    /\ rows[k] # Nothing
    /\ rows' \in {rows, [rows EXCEPT ![k] = @ \union {"revoked"}]}
    /\ UNCHANGED <<cache, pg>>

\* mark_degraded: the process goes on with its cache alone.
Degrade(p) ==
    /\ pg[p]
    /\ pg' = [pg EXCEPT ![p] = FALSE]
    /\ UNCHANGED <<rows, cache>>

\* Mutant: hydration does not read the consumed_at and revoked_at columns.
RestartBlank(p) ==
    /\ pg' \in {[pg EXCEPT ![p] = b] : b \in BOOLEAN}
    /\ \/ pg'[p] /\ cache' = [cache EXCEPT ![p] =
                                 [k \in Ids |-> rows[k] \intersect {"issued"}]]
       \/ cache' = [cache EXCEPT ![p] = [k \in Ids |-> Nothing]]
    /\ UNCHANGED rows

\* The process restarts: __init__ connects and hydrates, connects and fails to
\* hydrate, or falls back to memory.
Restart(p) ==
    /\ pg' \in {[pg EXCEPT ![p] = b] : b \in BOOLEAN}
    /\ \/ pg'[p] /\ cache' = [cache EXCEPT ![p] = rows]
       \/ cache' = [cache EXCEPT ![p] = [k \in Ids |-> Nothing]]
    /\ UNCHANGED rows

=============================================================================
