---------------------------- MODULE AgentRegistry ----------------------------
(***************************************************************************)
(* PostgresAgentRegistry (src/src/tex/stores/agent_registry_postgres.py)   *)
(* over InMemoryAgentRegistry (stores/agent_registry.py): a write-through  *)
(* cache of agent revisions with a queue of writes that did not reach      *)
(* Postgres, a hash chain over the revisions, and a periodic re-load of    *)
(* the cache.  Its users read an agent, decide, and then write: the        *)
(* evaluation command, the patch route, discovery and the dormancy sweep.  *)
(*                                                                         *)
(* The model follows one agent: no operation relates two.  A revision's    *)
(* content is its lifecycle status.  A record hash is the chain of         *)
(* revisions it was computed from, which is what an injective hash tells.  *)
(***************************************************************************)
EXTENDS Integers, Sequences

CONSTANTS
    Threads,      \* readers that may write what they read
    Births,       \* lifecycle statuses that new agents are saved with
    Transitions,  \* lifecycle statuses that operators ask for
    Others,       \* lifecycle statuses that other writers of the table give
    MaxRev,       \* bound: revisions
    MaxChain,     \* bound: length of a hash chain
    MaxPending,   \* bound: queued writes
    MaxBoots      \* bound: process starts

Status == {"PENDING", "ACTIVE", "QUARANTINED", "SLEEPING", "REVOKED"}

ASSUME BoundAssumption ==
    MaxRev \in Nat /\ MaxChain \in Nat /\ MaxPending \in Nat /\ MaxBoots \in Nat
ASSUME StatusAssumption ==
    Births \subseteq Status /\ Transitions \subseteq Status /\ Others \subseteq Status

VARIABLES
    mode,     \* "down", "loaded", "blind" (the load at boot failed), "memory"
    boots,
    rows,     \* tex_agent_registry: status of each revision
    hashes,   \* tex_agent_registry: record_hash of each revision
    cache,    \* _cache: status of each revision in its history
    head,     \* _last_hash_by_agent
    pending,  \* _pending_resync
    loading,  \* _maybe_resync is between the load and the re-applied writes
    saw,      \* per thread: the status it read, and "idle" or "absent"
    acked,    \* the revisions that this process's writes returned, less those
              \* that others have overwritten or deleted since
    foreign   \* per revision: whether another wrote the row, and the process
              \* has "seen" it

vars == <<mode, boots, rows, hashes, cache, head, pending, loading, saw, acked, foreign>>

-----------------------------------------------------------------------------

Revs == 1..MaxRev

None == "none"

Links == Revs \X Status

Entries == [rev : Revs, status : Status, hash : Seq(Links)]

Empty == [r \in Revs |-> None]

Unwritten == [r \in Revs |-> "none"]

\* The newest revision of a history, 0 if it is empty.
Latest(history) ==
    CHOOSE r \in 0..MaxRev :
        /\ r > 0 => history[r] # None
        /\ \A q \in Revs : history[q] # None => q <= r

\* InMemoryAgentRegistry.get.
Current == IF Latest(cache) = 0 THEN "absent" ELSE cache[Latest(cache)]

Init ==
    /\ mode = "down"
    /\ boots = 0
    /\ rows = Empty
    /\ hashes = [r \in Revs |-> <<>>]
    /\ cache = Empty
    /\ head = <<>>
    /\ pending = <<>>
    /\ loading = FALSE
    /\ saw = [t \in Threads |-> "idle"]
    /\ acked = Empty
    /\ foreign = Unwritten

-----------------------------------------------------------------------------

\* Mutant: the snapshot is merged into the cache.
SnapshotMerged == [r \in Revs |-> IF rows[r] = None THEN cache[r] ELSE rows[r]]

\* _bootstrap_from_postgres: the cache becomes what the table has.
Snapshot == rows

SnapshotHead == IF Latest(rows) = 0 THEN <<>> ELSE hashes[Latest(rows)]

\* __init__: the schema may fail (memory only), or the load (an empty cache
\* over an enabled store).
Boot ==
    /\ mode = "down"
    /\ boots < MaxBoots
    /\ boots' = boots + 1
    /\ \/ /\ mode' = "loaded"
          /\ cache' = Snapshot
          /\ head' = SnapshotHead
          /\ foreign' = Unwritten
       \/ /\ mode' \in {"blind", "memory"}
          /\ cache' = Empty
          /\ head' = <<>>
          /\ foreign' = [r \in Revs |-> IF rows[r] = None THEN "none" ELSE "unseen"]
    /\ UNCHANGED <<rows, hashes, pending, loading, saw, acked>>

\* The process dies.
Crash ==
    /\ mode # "down"
    /\ mode' = "down"
    /\ cache' = Empty
    /\ head' = <<>>
    /\ pending' = <<>>
    /\ loading' = FALSE
    /\ saw' = [t \in Threads |-> "idle"]
    /\ acked' = Empty
    /\ UNCHANGED <<boots, rows, hashes, foreign>>

\* _flush_save: an upsert.  Whatever another had written there is gone.
Upsert(entry) ==
    /\ rows' = [rows EXCEPT ![entry.rev] = entry.status]
    /\ hashes' = [hashes EXCEPT ![entry.rev] = entry.hash]
    /\ foreign' = [foreign EXCEPT ![entry.rev] = IF @ = "none" THEN "none" ELSE "seen"]

\* Mutant: a failed write is logged and not queued.
QueueNothing(entry) == UNCHANGED pending

\* _safe_flush_save on failure; the head of the chain stays.
Queue(entry) == pending' = Append(pending, entry)

\* _compute_audit_for and _safe_flush_save.  The commit may fail after the
\* server has applied it.
Flush(entry) ==
    \/ /\ mode = "memory"
       /\ head' = entry.hash
       /\ UNCHANGED <<rows, hashes, pending, foreign>>
    \/ /\ mode # "memory"
       /\ Upsert(entry)
       /\ head' = entry.hash
       /\ UNCHANGED pending
    \/ /\ mode # "memory"
       /\ Len(pending) < MaxPending
       /\ Queue(entry)
       /\ Upsert(entry) \/ UNCHANGED <<rows, hashes, foreign>>
       /\ UNCHANGED head

\* The registry's lock is free.
Unlocked == mode # "down" /\ ~loading

\* Write a revision: cache first, then the table.
Write(rev, status) ==
    /\ Unlocked
    /\ Len(head) < MaxChain
    /\ cache' = [cache EXCEPT ![rev] = status]
    /\ acked' = [acked EXCEPT ![rev] = status]
    /\ Flush([rev |-> rev, status |-> status, hash |-> Append(head, <<rev, status>>)])
    /\ UNCHANGED <<mode, boots, loading>>

\* Mutant: a new revision takes the number of the current one.
SameRev == IF Latest(cache) = 0 THEN 1 ELSE Latest(cache)

NextRev == Latest(cache) + 1

\* set_lifecycle.  The status it already has gives no new revision, and yet
\* the current one is audited and flushed again.
SetLifecycle(status) ==
    /\ Latest(cache) > 0
    /\ IF Current = status THEN Write(Latest(cache), status)
                           ELSE NextRev \in Revs /\ Write(NextRev, status)

\* The lifecycle route, DormancyManager.wake and .revoke.
Operate(status) == SetLifecycle(status) /\ UNCHANGED saw

\* registry.get or require, without the registry's lock.
Read(t) ==
    /\ mode # "down"
    /\ saw[t] = "idle"
    /\ saw' = [saw EXCEPT ![t] = Current]
    /\ UNCHANGED <<mode, boots, rows, hashes, cache, head, pending, loading, acked, foreign>>

\* The reader has nothing to write, or the agent is revoked or unknown to it.
Leave(t) ==
    /\ saw[t] # "idle"
    /\ saw' = [saw EXCEPT ![t] = "idle"]
    /\ UNCHANGED <<mode, boots, rows, hashes, cache, head, pending, loading, acked, foreign>>

\* save of a changed copy of what was read, or of a new agent.
Save(t) ==
    /\ saw[t] # "idle"
    /\ NextRev \in Revs
    /\ \E s \in IF saw[t] = "absent" THEN Births ELSE {saw[t]} : Write(NextRev, s)
    /\ saw' = [saw EXCEPT ![t] = "idle"]

\* Mutant: a revoked agent is quarantined like any other.
ShiftRevoked(t) ==
    /\ saw[t] \notin {"idle", "absent"}
    /\ \/ SetLifecycle("QUARANTINED")
       \/ saw[t] = "ACTIVE" /\ SetLifecycle("SLEEPING")
    /\ saw' = [saw EXCEPT ![t] = "idle"]

\* Discovery quarantines an agent it did not see revoked; the dormancy sweep
\* puts one to sleep that it saw active.
Shift(t) ==
    /\ saw[t] \notin {"idle", "absent", "REVOKED"}
    /\ \/ SetLifecycle("QUARANTINED")
       \/ saw[t] = "ACTIVE" /\ SetLifecycle("SLEEPING")
    /\ saw' = [saw EXCEPT ![t] = "idle"]

\* A write of the revision has not reached the table.
Queued(r) == \E i \in DOMAIN pending : pending[i].rev = r

\* _maybe_resync: the table is read and replaces the cache.
Load ==
    /\ mode \in {"loaded", "blind"}
    /\ ~loading
    /\ loading' = TRUE
    /\ cache' = Snapshot
    /\ head' = SnapshotHead
    /\ foreign' = [r \in Revs |-> IF foreign[r] = "unseen" /\ ~Queued(r)
                                    THEN "seen" ELSE foreign[r]]
    /\ UNCHANGED <<mode, boots, rows, hashes, pending, saw, acked>>

\* Mutant: queued writes are left out.
ReappliedNone == cache

\* The last queued write of a revision.
LastQueued(r) ==
    CHOOSE i \in DOMAIN pending :
        /\ pending[i].rev = r
        /\ \A j \in DOMAIN pending : pending[j].rev = r => j <= i

\* _reapply_pending_writes.
Reapplied ==
    [r \in Revs |-> IF Queued(r) THEN pending[LastQueued(r)].status ELSE cache[r]]

Reapply ==
    /\ loading
    /\ loading' = FALSE
    /\ cache' = Reapplied
    /\ head' = IF pending = <<>> THEN head ELSE pending[Len(pending)].hash
    /\ UNCHANGED <<mode, boots, rows, hashes, pending, saw, acked, foreign>>

Without(s, i) == [j \in 1..(Len(s) - 1) |-> IF j < i THEN s[j] ELSE s[j + 1]]

\* replay_pending writes one queued entry; the others fail again.  The commit
\* may be applied and still reported as failed: the entry stays queued.
Replay(i) ==
    /\ Unlocked
    /\ Upsert(pending[i])
    /\ \/ head' = pending[i].hash /\ pending' = Without(pending, i)
       \/ UNCHANGED <<head, pending>>
    /\ UNCHANGED <<mode, boots, cache, loading, saw, acked>>

\* Somebody deletes the agent's rows in the database.
Purge ==
    /\ rows # Empty
    /\ rows' = Empty
    /\ hashes' = [r \in Revs |-> <<>>]
    /\ acked' = Empty
    /\ foreign' = Unwritten
    /\ UNCHANGED <<mode, boots, cache, head, pending, loading, saw>>

\* Another process or a repair script writes a revision, chained to the row
\* below it.
Foreign(rev, status) ==
    /\ rows' = [rows EXCEPT ![rev] = status]
    /\ hashes' = [hashes EXCEPT ![rev] =
                      Append(IF rev = 1 THEN <<>> ELSE hashes[rev - 1], <<rev, status>>)]
    /\ acked' = [acked EXCEPT ![rev] = None]
    /\ foreign' = [foreign EXCEPT ![rev] = "unseen"]
    /\ UNCHANGED <<mode, boots, cache, head, pending, loading, saw>>

OutOfBand == Purge \/ \E r \in Revs, s \in Others : Foreign(r, s)

Next ==
    \/ Boot \/ Crash \/ Load \/ Reapply \/ OutOfBand
    \/ \E s \in Transitions : Operate(s)
    \/ \E t \in Threads : Read(t) \/ Leave(t) \/ Save(t) \/ Shift(t)
    \/ \E i \in DOMAIN pending : Replay(i)

Spec == Init /\ [][Next]_vars

\* Reads keep coming and the database is not unreachable for ever.
FairSpec == Spec /\ WF_vars(Load) /\ WF_vars(Reapply)

-----------------------------------------------------------------------------

\* Shapes of the variables.
TypeOK ==
    /\ mode \in {"down", "loaded", "blind", "memory"}
    /\ boots \in 0..MaxBoots
    /\ rows \in [Revs -> Status \union {None}]
    /\ hashes \in [Revs -> Seq(Links)]
    /\ cache \in [Revs -> Status \union {None}]
    /\ head \in Seq(Links)
    /\ pending \in Seq(Entries)
    /\ loading \in BOOLEAN
    /\ saw \in [Threads -> Status \union {"idle", "absent"}]
    /\ acked \in [Revs -> Status \union {None}]
    /\ foreign \in [Revs -> {"none", "unseen", "seen"}]

\* "a just-written row can never be lost to a re-sync" (line 31): outside the
\* window in which the cache is being re-loaded it has every revision this
\* process wrote that nobody else has overwritten, and serves none newer than
\* the last of them but what another wrote or it had not loaded at its start.
NoWriteLost ==
    ~loading =>
        /\ \A r \in Revs : acked[r] # None => cache[r] = acked[r]
        /\ acked # Empty =>
               \A r \in Revs : cache[r] # None /\ r > Latest(acked) => foreign[r] # "none"

\* Every write that returned is in the table or queued for it.
NothingForgotten ==
    mode # "memory" =>
        \A r \in Revs : acked[r] # None =>
            \/ rows[r] = acked[r]
            \/ \E i \in DOMAIN pending :
                  pending[i].rev = r /\ pending[i].status = acked[r]

\* Revisions are the audit trail of the agent: the upsert of this process
\* rewrites one that is in the table only if another wrote it and this process
\* has not loaded it since, or did and has an older write of its own queued.
\* After a boot that could not load the table, that is every row of it.
RowsKept ==
    [][~OutOfBand =>
         \A r \in Revs : rows[r] # None /\ foreign[r] # "unseen" => rows'[r] = rows[r]]_vars

\* An agent that was purged from the table leaves the cache too ("one window
\* instead of never", line 95), unless it is written again or the store stops.
GhostsFade ==
    (mode \in {"loaded", "blind"} /\ rows = Empty /\ pending = <<>>)
        ~> (cache = Empty \/ rows # Empty \/ pending # <<>>
              \/ mode \notin {"loaded", "blind"})

\* "REVOKED: terminal" (domain/agent.py:50) up to the race the callers leave
\* open: while the cache is not being re-loaded, a revoked agent comes back
\* only by an operator's request or by a thread that had read it before the
\* revocation, never by one that saw it revoked.
RevivedByStaleOnly ==
    [][Current = "REVOKED" /\ ~loading /\ Current' # "REVOKED"
        => \/ mode' = "down" \/ loading'
           \/ \E s \in Transitions \ {"REVOKED"} : Operate(s)
           \/ \E t \in Threads :
                 saw[t] \notin {"idle", "REVOKED"} /\ saw'[t] = "idle"]_vars
=============================================================================
