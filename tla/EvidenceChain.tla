---------------------------- MODULE EvidenceChain ----------------------------
(***************************************************************************)
(* EvidenceRecorder (src/src/tex/evidence/recorder.py): the JSONL hash     *)
(* chain on local disk, the Postgres mirror that survives a deploy, the    *)
(* in-memory index of resolved holds, and the chain verifiers of           *)
(* evidence/chain.py and evidence/exporter.py.                             *)
(*                                                                         *)
(* _append holds the recorder's lock from the hash to the mirror write, so *)
(* an append is one action; what the lock cannot cover is a failing write, *)
(* a crash, and a deploy that resets the disk.  SHA-256 is taken to be     *)
(* collision free: a record's hash is its number n, None is 0.             *)
(***************************************************************************)
EXTENDS Integers, Sequences

CONSTANTS
    Decisions,     \* decision ids
    MaxRecords,    \* bound: appends attempted in one behaviour
    MaxDowns       \* bound: crashes in one behaviour

ASSUME BoundAssumption == MaxRecords \in Nat /\ MaxDowns \in Nat

VARIABLES
    up,        \* the process runs
    downs,     \* crashes so far
    file,      \* the lines of the JSONL file
    unended,   \* the last line lacks its newline
    last,      \* _last_record_hash
    index,     \* _resolved_ids_cache: <<>> before the first use, else <<set>>
    mirror,    \* rows of tex_evidence
    attempts,  \* appends attempted; numbers the records
    returned   \* records whose append returned since the disk was last reset

vars == <<up, downs, file, unended, last, index, mirror, attempts, returned>>

-----------------------------------------------------------------------------

None == 0

\* "decision" stands for every record type that is not a human resolution.
Types == {"decision", "human_resolution"}

\* A line that does not parse as one evidence record.
Junk == [n |-> None, prev |-> None, type |-> "junk", did |-> "junk"]

\* The records _verify_record_integrity accepts: contents match their hash.
Records == [n : 1..MaxRecords, prev : 0..MaxRecords, type : Types,
            did : Decisions]

\* The line of a new record: linked to the last hash the recorder knows.
NewRecord(type, did) ==
    [n |-> attempts + 1, prev |-> last, type |-> type, did |-> did]

\* What appending a line does to the file: text is added behind an unended
\* line, and the two together no longer parse.
Written(line) ==
    IF unended THEN [file EXCEPT ![Len(file)] = Junk] ELSE Append(file, line)

Resolutions(rows) == {r.did : r \in {q \in rows : q.type = "human_resolution"}}

Lines == {file[i] : i \in DOMAIN file}

-----------------------------------------------------------------------------

\* A fresh deployment: the recorder was built over an empty disk.
Init ==
    /\ up = TRUE
    /\ downs = 0
    /\ file = <<>>
    /\ unended = FALSE
    /\ last = None
    /\ index = <<>>
    /\ mirror = {}
    /\ attempts = 0
    /\ returned = {}

\* Mutant: every record type is indexed.
IndexAny(rec) ==
    IF index # <<>> THEN <<index[1] \union {rec.did}>> ELSE index

\* Mutant: an index that is already built is not kept current.
IndexStale(rec) == index

\* _append keeps a built index current; an unbuilt one will see the row.
IndexAfter(rec) ==
    IF index # <<>> /\ rec.type = "human_resolution"
      THEN <<index[1] \union {rec.did}>> ELSE index

\* _append after the write: the next record links to this one.
LastAfter(rec) == rec.n

\* PostgresEvidenceMirror.record: the row is inserted or the error swallowed.
MirrorAfter(rec) == {mirror, mirror \union {rec}}

\* _append: write the line, move the last hash, the index and, at best
\* effort, the mirror.
AppendRecord(type, did) ==
    LET rec == NewRecord(type, did) IN
    /\ up
    /\ attempts < MaxRecords
    /\ file' = Written(rec)
    /\ unended' = FALSE
    /\ last' = LastAfter(rec)
    /\ index' = IndexAfter(rec)
    /\ mirror' \in MirrorAfter(rec)
    /\ attempts' = attempts + 1
    /\ returned' = returned \union {rec}
    /\ UNCHANGED <<up, downs>>

\* Mutant: the last hash is moved before the write.
AppendFailsAdvances ==
    /\ up
    /\ attempts < MaxRecords
    /\ attempts' = attempts + 1
    /\ last' = attempts + 1
    /\ UNCHANGED <<up, downs, file, unended, index, mirror, returned>>

\* open or write raises and leaves nothing on disk.
AppendFails ==
    /\ up
    /\ attempts < MaxRecords
    /\ attempts' = attempts + 1
    /\ UNCHANGED <<up, downs, file, unended, last, index, mirror, returned>>

\* The flush stops part way (a full disk): part of the line, or all of it but
\* its newline, stays on disk, and the exception leaves the last hash alone.
AppendTears(type, did) ==
    /\ up
    /\ attempts < MaxRecords
    /\ \E line \in {Junk, NewRecord(type, did)} : file' = Written(line)
    /\ unended' = TRUE
    /\ attempts' = attempts + 1
    /\ UNCHANGED <<up, downs, last, index, mirror, returned>>

\* resolved_decision_ids: the first call builds the index from the mirror (a
\* failing read contributes nothing) and from the lines that parse.
BuildIndex ==
    /\ up
    /\ index = <<>>
    /\ \E seed \in {{}, Resolutions(mirror)} :
          index' = << seed \union Resolutions(Lines) >>
    /\ UNCHANGED <<up, downs, file, unended, last, mirror, attempts, returned>>

Down ==
    /\ up
    /\ downs < MaxDowns
    /\ up' = FALSE
    /\ downs' = downs + 1
    /\ last' = None
    /\ index' = <<>>

\* The process dies between two appends.
Crash ==
    /\ Down
    /\ UNCHANGED <<file, unended, mirror, attempts, returned>>

\* The process dies inside _append, after the line and before the rest.
CrashInAppend(type, did) ==
    /\ Down
    /\ attempts < MaxRecords
    /\ file' = Written(NewRecord(type, did))
    /\ unended' = FALSE
    /\ attempts' = attempts + 1
    /\ UNCHANGED <<mirror, returned>>

\* _load_last_record_hash: the hash of the last line of the file.
Loaded == IF file = <<>> THEN None ELSE file[Len(file)].n

\* Restart on the same disk.  A last line that does not parse makes the
\* constructor raise, and the process does not come up.
Restart ==
    /\ ~up
    /\ file # <<>> => file[Len(file)] # Junk
    /\ up' = TRUE
    /\ last' = Loaded
    /\ UNCHANGED <<downs, file, unended, index, mirror, attempts, returned>>

\* A deploy: the process starts over an empty disk, the mirror survives.
Redeploy ==
    /\ ~up
    /\ up' = TRUE
    /\ file' = <<>>
    /\ unended' = FALSE
    /\ last' = None
    /\ returned' = {}
    /\ UNCHANGED <<downs, index, mirror, attempts>>

Next ==
    \/ \E type \in Types, did \in Decisions :
          \/ AppendRecord(type, did)
          \/ AppendTears(type, did)
          \/ CrashInAppend(type, did)
    \/ AppendFails \/ BuildIndex
    \/ Crash \/ Restart \/ Redeploy

Spec == Init /\ [][Next]_vars

-----------------------------------------------------------------------------

\* _verify_chain_link: the record names the hash of the one before it.
LinksTo(rec, before) == rec.prev = before.n

\* _verify_witness_link: the first record of a slice names the witness.
LinksToWitness(rec, witness) == rec.prev = witness

\* Mutant: only the links between records are looked at.
VerifiesInside(s) == \A i \in 2..Len(s) : LinksTo(s[i], s[i - 1])

\* verify_evidence_chain: the first record has no predecessor, every other
\* one names the hash of the record before it.
Verifies(s) ==
    \A i \in 1..Len(s) :
        IF i = 1 THEN s[i].prev = None ELSE LinksTo(s[i], s[i - 1])

\* verify_evidence_chain_slice: the first record links to the witness.
VerifiesSlice(s, witness) ==
    /\ LinksToWitness(s[1], witness)
    /\ \A i \in 2..Len(s) : LinksTo(s[i], s[i - 1])

\* _matches_filters with only a decision id given.
Matches(rec, did) == rec.did = did

\* The loop of build_slice_bundle over all records: where those of a decision
\* are, in chain order.
Places(did) ==
    LET found == {i \in DOMAIN file : Matches(file[i], did)}
    IN  CHOOSE p \in UNION {[1..n -> found] : n \in 0..Len(file)} :
            /\ \A j, k \in DOMAIN p : j < k => p[j] < p[k]
            /\ \A i \in found : \E k \in DOMAIN p : p[k] = i

\* build_slice_bundle for one decision: its records, in chain order, and the
\* hash of the record before the first of them.
Slice(did) == [k \in DOMAIN Places(did) |-> file[Places(did)[k]]]

\* Mutant: the witness is the slice's own first record.
WitnessOwn(did) == Slice(did)[1].n

Witness(did) ==
    LET first == CHOOSE i \in DOMAIN file :
                     /\ Matches(file[i], did)
                     /\ \A j \in 1..(i - 1) : ~Matches(file[j], did)
    IN  IF first = 1 THEN None ELSE file[first - 1].n

\* No record of another decision stands between two of this one.
Contiguous(did) ==
    \A i, k \in DOMAIN file : Matches(file[i], did) /\ Matches(file[k], did)
        => \A j \in i..k : Matches(file[j], did)

-----------------------------------------------------------------------------

\* Shapes of the variables.
TypeOK ==
    /\ up \in BOOLEAN
    /\ downs \in 0..MaxDowns
    /\ file \in Seq(Records \union {Junk})
    /\ unended \in BOOLEAN
    /\ last \in 0..MaxRecords
    /\ index = <<>> \/ \E ids \in SUBSET Decisions : index = <<ids>>
    /\ mirror \subseteq Records
    /\ attempts \in 0..MaxRecords
    /\ returned \subseteq Records

\* Damage is visible.  Either the file holds a line that read_all refuses, or
\* it is one verifiable chain that holds every record whose append returned,
\* and a recorder behind an ended line stands at its end: whatever fails,
\* tears, crashes and restarts, nothing is lost or forked silently.
CorruptionVisible ==
    Junk \notin Lines =>
        /\ Verifies(file)
        /\ returned \subseteq Lines
        /\ up /\ ~unended => last = Loaded

\* "never hide a waiting one" (recorder.py:645): while the file is undamaged a
\* decision is indexed as resolved only if a human resolution of it is on
\* this disk, in the mirror, or was returned by this recorder.
NeverHidesWaiting ==
    index # <<>> /\ Junk \notin Lines =>
        index[1] \subseteq Resolutions(Lines \union mirror \union returned)

\* A built index misses no resolution of the local chain, and no resolution
\* the recorder returned since the disk was reset: no resolved hold is asked
\* again while its seal is at hand.
IndexCurrent ==
    index # <<>> /\ Junk \notin Lines /\ ~unended =>
        Resolutions(Lines) \union Resolutions(returned) \subseteq index[1]

\* verify_evidence_chain accepts the stored lines of an undamaged file only in
\* their order and without an omission before the end: of all the ways to
\* drop, repeat and reorder lines, exactly the prefixes of the file verify.
TamperEvident ==
    Junk \notin Lines => \A n \in 0..(Len(file) + 1) :
        \A order \in [1..n -> DOMAIN file] :
            Verifies([i \in 1..n |-> file[order[i]]])
                <=> \A i \in 1..n : order[i] = i

\* A slice "can be independently verified against the parent chain"
\* (exporter.py:262) exactly when the decision's records stand next to each
\* other: with another decision's record between them, as after a hold that
\* waited, build_slice_bundle exports a slice its own verifier refuses.
SliceExact ==
    Junk \notin Lines => \A did \in Decisions :
        Slice(did) # <<>> =>
            (VerifiesSlice(Slice(did), Witness(did)) <=> Contiguous(did))

-----------------------------------------------------------------------------

\* Strengthening of CorruptionVisible: an unended file has a last line.
DiskInv == (unended => file # <<>>) /\ CorruptionVisible

\* Records are numbered in the order of the file, so no two have one hash.
NumberInv ==
    /\ \A i \in DOMAIN file : file[i].n <= attempts
    /\ Junk \notin Lines =>
          \A i, j \in DOMAIN file : i < j => file[i].n < file[j].n
=============================================================================
