---------------------------- MODULE SnapshotChain ----------------------------
(***************************************************************************)
(* GovernanceSnapshotStore (src/src/tex/stores/governance_snapshots.py):   *)
(* the hash chain of governance snapshots.  Each process keeps the tip of  *)
(* the chain in memory; a zero-downtime deploy runs two of them over one   *)
(* table, whose unique indexes refuse a second child of a parent and a     *)
(* second genesis.                                                         *)
(*                                                                         *)
(* A snapshot's hash covers its identity and its parent's hash, so a       *)
(* record is written as the sequence of captures it descends from: its own *)
(* capture is the last element, its parent's hash the front, and the empty *)
(* sequence is "no parent".  A step ends where the code calls Postgres.    *)
(***************************************************************************)
EXTENDS Integers, FiniteSets, SequencesExt

CONSTANTS
    Procs,      \* processes
    Captures,   \* calls of capture
    MaxCrashes  \* bound: crashes of processes

ASSUME CapturesAssumption == IsFiniteSet(Captures)
ASSUME BoundAssumption == MaxCrashes \in Nat

VARIABLES
    at,       \* per capture: captured_at, 0 before the call
    owner,    \* per capture: the process it was called in
    pc,       \* per capture: where the call is
    rec,      \* per capture: its record, shared by the cache and the caller
    rows,     \* tex_governance_snapshots
    tip,      \* per process: _last_chain_hash
    pending,  \* per process: _pending_resync
    todo,     \* per process: parked records the running replay has yet to try
    disabled, \* per process: _disabled
    outage,   \* history: captures a call of Postgres has raised for
    lost,     \* history: captures that were in a process when it died
    crashes   \* history: number of crashes

vars == <<at, owner, pc, rec, rows, tip, pending, todo, disabled, outage, lost, crashes>>

NoHash == <<>>
NoProc == "none"
Waiting == {"idle", "stamped"}
Locked == {"flush", "refused", "reflush", "refused twice"}

Hashes == Seq(Captures)

TypeOK ==
    /\ at \in [Captures -> 0..Cardinality(Captures)]
    /\ owner \in [Captures -> Procs \union {NoProc}]
    /\ pc \in [Captures -> Waiting \union Locked \union {"done", "dead"}]
    /\ rec \in [Captures -> Hashes]
    /\ rows \subseteq Hashes \ {NoHash}
    /\ tip \in [Procs -> Hashes]
    /\ pending \in [Procs -> Seq(Captures)]
    /\ todo \in [Procs -> Nat]
    /\ disabled \in [Procs -> BOOLEAN]
    /\ outage \subseteq Captures
    /\ lost \subseteq Captures
    /\ crashes \in 0..MaxCrashes

\* A process that cannot set up the schema falls back to memory.
Init ==
    /\ at = [c \in Captures |-> 0]
    /\ owner = [c \in Captures |-> NoProc]
    /\ pc = [c \in Captures |-> "idle"]
    /\ rec = [c \in Captures |-> NoHash]
    /\ rows = {}
    /\ tip = [p \in Procs |-> NoHash]
    /\ pending = [p \in Procs |-> <<>>]
    /\ todo = [p \in Procs |-> 0]
    /\ disabled \in [Procs -> BOOLEAN]
    /\ outage = {}
    /\ lost = {}
    /\ crashes = 0

-----------------------------------------------------------------------------
(* The table *)

\* Mutant: there is no index on the genesis row.
ConflictParentOnly(h) ==
    \E g \in rows : (Front(h) # NoHash /\ Front(g) = Front(h)) \/ Last(g) = Last(h)

\* CHAIN_GUARD_INDEXES_SQL and the primary key: the parent has a child, or
\* there is a genesis row already, or the snapshot is there.
Conflict(h) == \E g \in rows : Front(g) = Front(h) \/ Last(g) = Last(h)

\* _flush_capture: what it answers and what becomes of the table.  When it
\* raises the row may have been committed.
Flush(h, answer) ==
    CASE answer = "landed"  -> ~Conflict(h) /\ rows' = rows \union {h}
      [] answer = "refused" -> Conflict(h) /\ UNCHANGED rows
      [] answer = "raised"  -> \/ UNCHANGED rows
                               \/ ~Conflict(h) /\ rows' = rows \union {h}

\* _read_db_tip, and the head of _load_from_postgres: the newest row, by
\* captured_at.
Newest ==
    IF rows = {} THEN NoHash
    ELSE CHOOSE h \in rows : \A g \in rows : at[Last(g)] <= at[Last(h)]

-----------------------------------------------------------------------------
(* capture *)

Free(p) == todo[p] = 0 /\ \A c \in Captures : owner[c] = p => pc[c] \notin Locked

\* capture up to the lock: captured_at is taken.
Stamp(c, p) ==
    /\ pc[c] = "idle"
    /\ pc' = [pc EXCEPT ![c] = "stamped"]
    /\ owner' = [owner EXCEPT ![c] = p]
    /\ at' = [at EXCEPT ![c] = Cardinality({d \in Captures : at[d] > 0}) + 1]
    /\ UNCHANGED <<rec, rows, tip, pending, todo, disabled, outage, lost, crashes>>

\* capture under the lock, up to _persist_with_refusal: the record is linked to
\* the tip in memory and becomes the tip.
Link(c) ==
    LET p == owner[c] IN
    /\ pc[c] = "stamped"
    /\ Free(p)
    /\ rec' = [rec EXCEPT ![c] = Append(tip[p], c)]
    /\ tip' = [tip EXCEPT ![p] = Append(tip[p], c)]
    /\ pc' = [pc EXCEPT ![c] = IF disabled[p] THEN "done" ELSE "flush"]
    /\ UNCHANGED <<at, owner, rows, pending, todo, disabled, outage, lost, crashes>>

\* Mutant: the record is only logged.
ParkForgotten(c) ==
    /\ outage' = outage \union {c}
    /\ pc' = [pc EXCEPT ![c] = "done"]
    /\ UNCHANGED pending

\* _park after a call that raised.
ParkOutage(c) ==
    /\ pending' = [pending EXCEPT ![owner[c]] = Append(@, c)]
    /\ outage' = outage \union {c}
    /\ pc' = [pc EXCEPT ![c] = "done"]

\* The first insert of _persist_with_refusal.
Insert(c) ==
    /\ pc[c] = "flush"
    /\ \/ /\ Flush(rec[c], "landed")
          /\ pc' = [pc EXCEPT ![c] = "done"]
          /\ UNCHANGED <<pending, outage>>
       \/ /\ Flush(rec[c], "refused")
          /\ pc' = [pc EXCEPT ![c] = "refused"]
          /\ UNCHANGED <<pending, outage>>
       \/ Flush(rec[c], "raised") /\ ParkOutage(c)
    /\ UNCHANGED <<at, owner, rec, tip, todo, disabled, lost, crashes>>

\* The re-read of the tip and _relink_record.
Relink(c) ==
    /\ pc[c] = "refused"
    /\ \/ /\ rec' = [rec EXCEPT ![c] = Append(Newest, c)]
          /\ tip' = [tip EXCEPT ![owner[c]] = Append(Newest, c)]
          /\ pc' = [pc EXCEPT ![c] = "reflush"]
          /\ UNCHANGED <<pending, outage>>
       \/ ParkOutage(c) /\ UNCHANGED <<rec, tip>>
    /\ UNCHANGED <<at, owner, rows, todo, disabled, lost, crashes>>

\* The second insert: refused again, the record is parked.
InsertAgain(c) ==
    /\ pc[c] = "reflush"
    /\ \/ /\ Flush(rec[c], "landed")
          /\ pc' = [pc EXCEPT ![c] = "done"]
          /\ UNCHANGED <<pending, outage>>
       \/ /\ Flush(rec[c], "refused")
          /\ pc' = [pc EXCEPT ![c] = "refused twice"]
          /\ pending' = [pending EXCEPT ![owner[c]] = Append(@, c)]
          /\ UNCHANGED outage
       \/ Flush(rec[c], "raised") /\ ParkOutage(c)
    /\ UNCHANGED <<at, owner, rec, tip, todo, disabled, lost, crashes>>

\* Mutant: the tip stays on the parked record.
ReseedForgotten(c) ==
    /\ pc[c] = "refused twice"
    /\ pc' = [pc EXCEPT ![c] = "done"]
    /\ UNCHANGED <<at, owner, rec, tip, rows, pending, todo, disabled, outage, lost, crashes>>

\* After the second refusal the tip is read from the table; when that fails it
\* is the tip of the first read, which is the parent the record was given.
Reseed(c) ==
    /\ pc[c] = "refused twice"
    /\ tip' \in {[tip EXCEPT ![owner[c]] = t] : t \in {Newest, Front(rec[c])}}
    /\ pc' = [pc EXCEPT ![c] = "done"]
    /\ UNCHANGED <<at, owner, rec, rows, pending, todo, disabled, outage, lost, crashes>>

-----------------------------------------------------------------------------
(* replay_pending *)

ReplayBegin(p) ==
    /\ Free(p)
    /\ ~disabled[p]
    /\ pending[p] # <<>>
    /\ todo' = [todo EXCEPT ![p] = Len(pending[p])]
    /\ UNCHANGED <<at, owner, pc, rec, rows, tip, pending, disabled, outage, lost, crashes>>

\* One parked record: it lands, or goes to the list of those still pending.
ReplayOne(p) ==
    LET c == Head(pending[p]) IN
    /\ todo[p] > 0
    /\ todo' = [todo EXCEPT ![p] = @ - 1]
    /\ \/ Flush(rec[c], "landed") /\ pending' = [pending EXCEPT ![p] = Tail(@)]
       \/ /\ \E answer \in {"refused", "raised"} : Flush(rec[c], answer)
          /\ pending' = [pending EXCEPT ![p] = Append(Tail(@), c)]
    /\ UNCHANGED <<at, owner, pc, rec, tip, disabled, outage, lost, crashes>>

-----------------------------------------------------------------------------
(* Processes *)

\* A process dies with its calls and its parked records, and another takes its
\* place: it has no table (disabled), fails to load it, or takes the newest row
\* for the head of the chain.
Restart(p) ==
    LET mine == {c \in Captures : owner[c] = p /\ pc[c] # "idle"} IN
    /\ crashes < MaxCrashes
    /\ crashes' = crashes + 1
    /\ lost' = lost \union mine
    /\ pc' = [c \in Captures |-> IF c \in mine /\ pc[c] # "done" THEN "dead" ELSE pc[c]]
    /\ pending' = [pending EXCEPT ![p] = <<>>]
    /\ todo' = [todo EXCEPT ![p] = 0]
    /\ \E b \in BOOLEAN : disabled' = [disabled EXCEPT ![p] = b]
    /\ tip' \in {[tip EXCEPT ![p] = t] :
                    t \in {NoHash} \union (IF disabled'[p] THEN {} ELSE {Newest})}
    /\ UNCHANGED <<at, owner, rec, rows, outage>>

Next ==
    \/ \E c \in Captures :
          \/ \E p \in Procs : Stamp(c, p)
          \/ Link(c) \/ Insert(c) \/ Relink(c) \/ InsertAgain(c) \/ Reseed(c)
    \/ \E p \in Procs : ReplayBegin(p) \/ ReplayOne(p) \/ Restart(p)

Spec == Init /\ [][Next]_vars

-----------------------------------------------------------------------------
(* Properties *)

Parked(c) == owner[c] \in Procs /\ Contains(pending[owner[c]], c)
Persisted(c) == rec[c] \in rows

\* A capture that has returned is in the table, parked or, in a process that
\* works from memory, only there, unless its process has died since; and the
\* caller's record is the one that is stored: no record is re-linked after it
\* has reached the table.
\* (capture and _persist_with_refusal: never silently dropped, never rewritten.)
Accounted ==
    /\ \A c \in Captures :
          pc[c] = "done" /\ c \notin lost /\ ~disabled[owner[c]] => Persisted(c) \/ Parked(c)
    /\ \A h \in rows : rec[Last(h)] = h

\* A persisted record whose parent is not persisted descends from one that was
\* parked because a call of Postgres raised: a refusal alone, however often it
\* happens, leaves no hole.
\* (_persist_with_refusal: the tip is taken from the table after two refusals.)
HolesFromOutages ==
    \A h \in rows :
        Front(h) # NoHash /\ Front(h) \notin rows
            => LET c == Last(Front(h)) IN
               /\ c \in outage
               /\ rec[c] = Front(h)
               /\ c \in lost \/ Parked(c)

\* Some persisted capture was stamped before the one it descends from.
Overtaken == \E h \in rows : Front(h) # NoHash /\ at[Last(h)] < at[Last(Front(h))]

\* The row verify_chain comes to after g, oldest first, is h.
Follows(g, h) ==
    /\ at[Last(g)] < at[Last(h)]
    /\ \A k \in rows : ~(at[Last(g)] < at[Last(k)] /\ at[Last(k)] < at[Last(h)])

\* verify_chain over the table: each row's parent is the row before it.
Intact == \A g, h \in rows : Follows(g, h) => Front(h) = g

\* Whatever the number of processes that write, and whichever of them die, the
\* table holds one chain from one genesis as long as no call of Postgres
\* raises; and if in addition nobody was overtaken, verify_chain finds it
\* intact and the newest row is its end.
\* (The indexes, and the refusal protocol on top of them.)
OneChain ==
    outage = {} =>
        /\ \A g, h \in rows : IsPrefix(g, h) \/ IsPrefix(h, g)
        /\ \A h \in rows : Front(h) \in rows \union {NoHash}
        /\ ~Overtaken => Intact /\ \A h \in rows : Front(h) # Newest

-----------------------------------------------------------------------------
(* Strengthenings that make the invariants above inductive.                *)

\* A hash a record may descend from: none, a row, or a record that an outage
\* has parked.
Sound(h) ==
    \/ h = NoHash
    \/ h \in rows
    \/ LET c == Last(h) IN
       c \in outage /\ rec[c] = h /\ (c \in lost \/ Parked(c))

Busy(p) == \E c \in Captures : owner[c] = p /\ pc[c] \in Locked

\* A call has its process, its time and its record.
CallInv ==
    \A c \in Captures :
        /\ pc[c] = "idle" => at[c] = 0
        /\ pc[c] # "idle" => owner[c] \in Procs /\ at[c] > 0
        /\ pc[c] \in Waiting => rec[c] = NoHash
        /\ pc[c] \in Locked \union {"done"} => rec[c] # NoHash
        /\ rec[c] # NoHash => Last(rec[c]) = c
        /\ c \in outage => pc[c] = "done"

\* The lock: at most one call of a process is under it, and none during a
\* replay or without the table.
LockInv ==
    /\ \A c \in Captures : pc[c] \in Locked => ~disabled[owner[c]] /\ todo[owner[c]] = 0
    /\ \A c, d \in Captures :
          pc[c] \in Locked /\ pc[d] \in Locked /\ owner[c] = owner[d] => c = d

\* What is parked in a process was captured there, and is parked for good.
ParkInv ==
    /\ \A p \in Procs : todo[p] <= Len(pending[p])
    /\ \A p \in Procs, c \in Captures :
          Contains(pending[p], c) =>
              owner[c] = p /\ pc[c] \in {"done", "refused twice"}
    /\ \A c \in Captures : pc[c] = "refused twice" => Parked(c)

\* Every record that is in the table, parked or on its way to the table
\* descends from a sound one, and so does the next one of every process that
\* has the table.
LinkInv ==
    /\ \A h \in rows : pc[Last(h)] = "done" /\ Sound(Front(h))
    /\ \A c \in Captures :
          /\ pc[c] \in Locked => tip[owner[c]] = rec[c]
          /\ pc[c] \in Locked \/ Parked(c) => Sound(Front(rec[c]))
    /\ \A p \in Procs : ~disabled[p] /\ ~Busy(p) => Sound(tip[p])

\* Times are distinct.
TimeInv ==
    /\ \A c \in Captures : at[c] <= Cardinality({d \in Captures : at[d] > 0})
    /\ \A c, d \in Captures : at[c] = at[d] /\ at[c] > 0 => c = d

\* One child per parent, whatever happens.
OneChild == \A g, h \in rows : Front(g) = Front(h) => g = h

\* One of the rows is the newest.
SomeNewest == rows # {} => \E h \in rows : \A g \in rows : at[Last(g)] <= at[Last(h)]

\* Without outages the ancestors of a row are rows, and as long as nobody is
\* overtaken none of them is younger.
AncestorInv ==
    outage = {} =>
        /\ \A h \in rows : \A n \in 1..Len(h) : SubSeq(h, 1, n) \in rows
        /\ \A g, h \in rows : IsPrefix(g, h) \/ IsPrefix(h, g)
        /\ ~Overtaken => \A h \in rows : \A n \in 1..Len(h) : at[h[n]] <= at[Last(h)]
=============================================================================
