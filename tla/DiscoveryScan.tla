---------------------------- MODULE DiscoveryScan ----------------------------
(***************************************************************************)
(* The body of a discovery scan (src/src/tex/discovery/service.py and      *)
(* reconciliation.py) over the discovery ledger                            *)
(* (stores/discovery_ledger.py, discovery_ledger_postgres.py).  A scan     *)
(* looks each candidate up in the reconciliation index, decides, writes    *)
(* the registry and appends to the ledger; scans run in threads of one or  *)
(* two processes, and ScanRuns says when two of one tenant overlap.        *)
(*                                                                         *)
(* A capability surface is a level: level n contains the levels below it,  *)
(* and a jump of two levels is drift beyond the quarantine threshold.  The *)
(* hash of a ledger entry is the sequence of entries it descends from.     *)
(* The registry is a cache per process over one table, re-loaded now and   *)
(* then (AgentRegistry has its details); the index is built from it only   *)
(* when the process starts.                                                *)
(***************************************************************************)
EXTENDS Integers, FiniteSets, SequencesExt

CONSTANTS
    Procs,       \* processes
    Scans,       \* calls of scan
    Candidates,  \* what connectors report
    Manual,      \* what operators register: key and level
    MaxEntries,  \* bound: ledger entries made
    MaxManual,   \* bound: what operators do
    MaxCrashes   \* bound: crashes of processes

Levels == 0..2
Keys == {c.key : c \in Candidates}

ASSUME CandidateAssumption ==
    /\ \A c \in Candidates : c.kind \in {"weak", "unbounded", "bounded"} /\ c.level \in Levels
    /\ "none" \notin Keys
    /\ Manual \subseteq [key: Keys, level: Levels]
ASSUME BoundAssumption ==
    MaxEntries \in Nat /\ MaxManual \in Nat /\ MaxCrashes \in Nat

VARIABLES
    made,     \* the ledger entries, in the order they were made
    reg,      \* per process: the registry's cache, a record per agent
    regRows,  \* tex_agents
    idx,      \* per process: ReconciliationIndex
    held,     \* per process: keys of holds handed to the held queue
    ledger,   \* per process: _entries
    rows,     \* tex_discovery_ledger
    pending,  \* per process: _pending_resync
    disabled, \* per process: _disabled of the ledger
    scan,     \* per scan: where it is
    outage,   \* history: a call of Postgres by the ledger has raised
    behind,   \* history: an entry was made in a process that lacked a stored one
    loaded,   \* history, per process: agents in the registry when it started
    promoted, \* history, per process: agents its scans have registered since
    raced,    \* history, per process: keys two of its scans had looked up at
              \* the same time
    manual,   \* history: how often operators have acted
    crashes   \* history: number of crashes

vars == <<made, reg, regRows, idx, held, ledger, rows, pending, disabled, scan,
          outage, behind, loaded, promoted, raced, manual, crashes>>

Actions == {"registered", "below", "held", "skipped", "unchanged", "quarantined", "updated"}
Agents == 1..MaxEntries
NoAgent == 0
Absent == [key |-> "none", status |-> "none", level |-> 0]
Statuses == {"open", "quarantined", "revoked"}  \* open: what decide does not tell apart
Agent == [key: Keys, status: Statuses, level: Levels] \union {Absent}

Made == [scan: Scans, key: Keys, action: Actions, agent: Agents \union {NoAgent}]
Stored == [n: Nat, hash: Seq(Nat)]

NoCandidate == [key |-> "none", kind |-> "weak", level |-> 0]
Scan == [pc: {"new", "running", "decided", "applied", "done", "gone"},
         proc: Procs \union {"none"}, since: Nat, start: Nat, last: Int,
         cand: Candidates \union {NoCandidate}, action: Actions \union {"none"},
         agent: Agents \union {NoAgent}, copy: Agent]
NewScan == [pc |-> "new", proc |-> "none", since |-> 0, start |-> 0, last |-> -1,
            cand |-> NoCandidate, action |-> "none", agent |-> NoAgent, copy |-> Absent]

TypeOK ==
    /\ made \in Seq(Made)
    /\ reg \in [Procs -> [Agents -> Agent]]
    /\ regRows \in [Agents -> Agent]
    /\ idx \in [Procs -> [Keys -> Agents \union {NoAgent}]]
    /\ held \in [Procs -> SUBSET Keys]
    /\ ledger \in [Procs -> Seq(Stored)]
    /\ pending \in [Procs -> SUBSET Stored]
    /\ rows \subseteq Stored /\ IsFiniteSet(rows)
    /\ disabled \in [Procs -> BOOLEAN]
    /\ scan \in [Scans -> Scan]
    /\ outage \in BOOLEAN /\ behind \in BOOLEAN
    /\ loaded \in [Procs -> SUBSET Agents] /\ promoted \in [Procs -> SUBSET Agents]
    /\ raced \in [Procs -> SUBSET Keys]
    /\ manual \in 0..MaxManual
    /\ crashes \in 0..MaxCrashes

Init ==
    /\ made = <<>>
    /\ reg = [p \in Procs |-> [a \in Agents |-> Absent]]
    /\ regRows = [a \in Agents |-> Absent]
    /\ idx = [p \in Procs |-> [k \in Keys |-> NoAgent]]
    /\ held = [p \in Procs |-> {}]
    /\ ledger = [p \in Procs |-> <<>>]
    /\ rows = {}
    /\ pending = [p \in Procs |-> {}]
    /\ disabled = [p \in Procs |-> FALSE]
    /\ scan = [s \in Scans |-> NewScan]
    /\ outage = FALSE
    /\ behind = FALSE
    /\ loaded = [p \in Procs |-> {}]
    /\ promoted = [p \in Procs |-> {}]
    /\ raced = [p \in Procs |-> {}]
    /\ manual = 0
    /\ crashes = 0

-----------------------------------------------------------------------------
(* Reconciliation *)

\* ReconciliationEngine.decide: what becomes of a candidate.
Decide(cand, existing) ==
    IF existing = Absent
    THEN CASE cand.kind = "weak"      -> "below"
           [] cand.kind = "unbounded" -> "held"
           [] OTHER                   -> "registered"
    ELSE CASE existing.status = "revoked"       -> "skipped"
           [] OTHER ->
              CASE cand.level <= existing.level     -> "unchanged"
                [] cand.level = existing.level + 1  -> "updated"
                [] cand.level > existing.level + 1  -> "quarantined"

\* scan up to the first candidate.  (since: history, the entries made before.)
Begin(s, p) ==
    /\ scan[s].pc = "new"
    /\ scan' = [scan EXCEPT ![s].pc = "running", ![s].proc = p,
                            ![s].start = Len(ledger[p]), ![s].since = Len(made)]
    /\ UNCHANGED <<made, reg, regRows, idx, held, ledger, rows, pending, disabled,
                   outage, behind, loaded, promoted, raced, manual, crashes>>

\* Another scan of the same process has looked key k up and not yet written it.
Overlaps(s, k) ==
    \E t \in Scans \ {s} :
        scan[t].pc = "decided" /\ scan[t].proc = scan[s].proc /\ scan[t].cand.key = k

\* _handle_candidate up to _apply: the candidate is looked up and decided on.
Look(s, cand) ==
    LET p == scan[s].proc
        agent == idx[p][cand.key]
        existing == IF agent = NoAgent THEN Absent ELSE reg[p][agent]
    IN
    /\ scan[s].pc = "running"
    /\ Len(made) < MaxEntries
    /\ scan' = [scan EXCEPT ![s].pc = "decided", ![s].cand = cand, ![s].agent = agent,
                            ![s].copy = existing, ![s].action = Decide(cand, existing)]
    /\ raced' = [raced EXCEPT ![p] = IF Overlaps(s, cand.key) THEN @ \union {cand.key} ELSE @]
    /\ UNCHANGED <<made, reg, regRows, idx, held, ledger, rows, pending, disabled,
                   outage, behind, loaded, promoted, manual, crashes>>

\* registry.save and set_lifecycle: the cache and the row.  AgentRegistry has
\* the writes of a row that fail.
SaveAgent(p, a, record) ==
    /\ reg' = [reg EXCEPT ![p][a] = record]
    /\ regRows' = [regRows EXCEPT ![a] = record]

Born == {a \in Agents : regRows[a] # Absent}

\* A new agent_id.  (Bound: Agents.)
FreshAgent == CHOOSE a \in Agents : a \notin Born

\* Mutant: a registered agent is not linked in the index.
LinkForgotten(p, k, a) == UNCHANGED idx

\* ReconciliationIndex.link.
Link(p, k, a) == idx' = [idx EXCEPT ![p][k] = a]

\* _apply and _maybe_surface_hold.  An update saves the copy that was looked
\* up; a quarantine changes the agent as it is now.  Handing over a hold may
\* fail.
Apply(s) ==
    LET p == scan[s].proc
        cand == scan[s].cand
        a == IF scan[s].action = "registered" THEN FreshAgent ELSE scan[s].agent
    IN
    /\ scan[s].pc = "decided"
    /\ scan[s].action = "registered" => Born # Agents
    /\ scan' = [scan EXCEPT ![s].pc = "applied", ![s].agent = a]
    /\ \/ /\ scan[s].action = "registered"
          /\ SaveAgent(p, a, [key |-> cand.key, status |-> "open", level |-> cand.level])
          /\ Link(p, cand.key, a)
          /\ promoted' = [promoted EXCEPT ![p] = @ \union {a}]
          /\ UNCHANGED held
       \/ /\ scan[s].action = "updated"
          /\ SaveAgent(p, a, [scan[s].copy EXCEPT !.level = cand.level])
          /\ UNCHANGED <<idx, held, promoted>>
       \/ /\ scan[s].action = "quarantined"
          /\ SaveAgent(p, a, [reg[p][a] EXCEPT !.status = "quarantined"])
          /\ UNCHANGED <<idx, held, promoted>>
       \/ /\ scan[s].action = "held"
          /\ held' \in {held, [held EXCEPT ![p] = @ \union {cand.key}]}
          /\ UNCHANGED <<reg, regRows, idx, promoted>>
       \/ /\ scan[s].action \in {"below", "skipped", "unchanged"}
          /\ UNCHANGED <<reg, regRows, idx, held, promoted>>
    /\ UNCHANGED <<made, ledger, rows, pending, disabled, outage, behind, loaded, raced,
                   manual, crashes>>

-----------------------------------------------------------------------------
(* The ledger *)

\* Mutant: the number is the length of the ledger.
NumberedByLength(p, e) ==
    IF ledger[p] = <<>> THEN [n |-> 0, hash |-> <<e>>]
    ELSE [n |-> Len(ledger[p]), hash |-> Append(Last(ledger[p]).hash, e)]

\* InMemoryDiscoveryLedger.append: the number after the last one, the hash on
\* top of the last one.
NextStored(p, e) ==
    IF ledger[p] = <<>> THEN [n |-> 0, hash |-> <<e>>]
    ELSE [n |-> Last(ledger[p]).n + 1, hash |-> Append(Last(ledger[p]).hash, e)]

Taken(x) == \E y \in rows : y.n = x.n

\* Mutant: an insert that finds its number taken counts as made.
FlushUnchecked(x, answer) ==
    CASE answer = "landed"  -> rows' = IF Taken(x) THEN rows ELSE rows \union {x}
      [] answer = "refused" -> FALSE
      [] answer = "raised"  -> \/ UNCHANGED rows
                               \/ ~Taken(x) /\ rows' = rows \union {x}

\* _flush_append.  When it raises the row may have been committed.
Flush(x, answer) ==
    CASE answer = "landed"  -> ~Taken(x) /\ rows' = rows \union {x}
      [] answer = "refused" -> Taken(x) /\ UNCHANGED rows
      [] answer = "raised"  -> \/ UNCHANGED rows
                               \/ ~Taken(x) /\ rows' = rows \union {x}

\* PostgresDiscoveryLedger.append: the cache, then the table; an entry that is
\* refused or fails is parked.
AppendEntry(s) ==
    LET p == scan[s].proc
        e == Len(made) + 1
        x == NextStored(p, e)
        resulting == IF scan[s].action \in {"below", "held", "skipped"} THEN NoAgent
                     ELSE scan[s].agent
    IN
    /\ scan[s].pc = "applied"
    /\ e <= MaxEntries
    /\ made' = Append(made, [scan |-> s, key |-> scan[s].cand.key,
                             action |-> scan[s].action, agent |-> resulting])
    /\ ledger' = [ledger EXCEPT ![p] = Append(@, x)]
    /\ \/ disabled[p] /\ UNCHANGED <<rows, pending, outage>>
       \/ ~disabled[p] /\ Flush(x, "landed") /\ UNCHANGED <<pending, outage>>
       \/ /\ ~disabled[p]
          /\ Flush(x, "refused")
          /\ pending' = [pending EXCEPT ![p] = @ \union {x}]
          /\ UNCHANGED outage
       \/ /\ ~disabled[p]
          /\ Flush(x, "raised")
          /\ pending' = [pending EXCEPT ![p] = @ \union {x}]
          /\ outage' = TRUE
    /\ behind' = (behind \/ ~(rows \subseteq ToSet(ledger[p])))
    /\ scan' = [scan EXCEPT ![s] = [@ EXCEPT !.pc = "running", !.cand = NoCandidate,
                                             !.action = "none", !.agent = NoAgent,
                                             !.copy = Absent]]
    /\ UNCHANGED <<reg, regRows, idx, held, disabled, loaded, promoted, raced, manual, crashes>>

\* replay_pending, one parked entry.
ReplayOne(p, x) ==
    /\ ~disabled[p]
    /\ x \in pending[p]
    /\ \/ Flush(x, "landed") /\ pending' = [pending EXCEPT ![p] = @ \ {x}] /\ UNCHANGED outage
       \/ Flush(x, "raised") /\ outage' = TRUE /\ UNCHANGED pending
    /\ UNCHANGED <<made, reg, regRows, idx, held, ledger, disabled, scan, behind,
                   loaded, promoted, raced, manual, crashes>>

\* Mutant: the end of the range is read as the number of entries before the
\* last one.
LastShort(p) == Len(ledger[p]) - 2

\* ledger_seq_end: a position, not a number.
LastPosition(p) == Len(ledger[p]) - 1

\* The end of scan: the range of the ledger it leaves in its run.
Finish(s) ==
    LET p == scan[s].proc IN
    /\ scan[s].pc = "running"
    /\ scan' = [scan EXCEPT ![s].pc = "done",
                            ![s].last = IF Len(ledger[p]) > scan[s].start
                                        THEN LastPosition(p) ELSE -1]
    /\ UNCHANGED <<made, reg, regRows, idx, held, ledger, rows, pending, disabled,
                   outage, behind, loaded, promoted, raced, manual, crashes>>

\* _replay_completed_run: what the run is said to have entered.
Slice(s) ==
    LET l == ledger[scan[s].proc] IN
    {Last(l[i + 1].hash) : i \in scan[s].start..scan[s].last}

-----------------------------------------------------------------------------
(* Others *)

\* An operator revokes an agent.
Revoke(p, a) ==
    /\ manual < MaxManual
    /\ manual' = manual + 1
    /\ reg[p][a] # Absent
    /\ reg[p][a].status # "revoked"
    /\ SaveAgent(p, a, [reg[p][a] EXCEPT !.status = "revoked"])
    /\ UNCHANGED <<made, idx, held, ledger, rows, pending, disabled, scan,
                   outage, behind, loaded, promoted, raced, crashes>>

\* An operator registers an agent with discovery metadata: it is in the registry
\* and not in the index.
Register(p, m) ==
    /\ manual < MaxManual
    /\ manual' = manual + 1
    /\ Born # Agents
    /\ SaveAgent(p, FreshAgent, [key |-> m.key, status |-> "open", level |-> m.level])
    /\ UNCHANGED <<made, idx, held, ledger, rows, pending, disabled, scan,
                   outage, behind, loaded, promoted, raced, crashes>>

\* _maybe_resync: the cache of the registry is re-loaded, the index is not.
Resync(p) ==
    /\ reg' = [reg EXCEPT ![p] = regRows]
    /\ UNCHANGED <<made, regRows, idx, held, ledger, rows, pending, disabled, scan,
                   outage, behind, loaded, promoted, raced, manual, crashes>>

\* _bootstrap_from_postgres: the rows in the order of their numbers.
Sorted == {l \in SetToSeqs(rows) : \A i, j \in DOMAIN l : i < j => l[i].n < l[j].n}

\* A process dies and another takes its place: the registry from its table, the
\* index from the registry, the ledger from its table unless that fails.
Restart(p) ==
    /\ crashes < MaxCrashes
    /\ crashes' = crashes + 1
    /\ scan' = [s \in Scans |-> IF scan[s].proc = p THEN [NewScan EXCEPT !.pc = "gone"]
                                ELSE scan[s]]
    /\ reg' = [reg EXCEPT ![p] = regRows]
    /\ \E i \in [Keys -> Agents \union {NoAgent}] :
          /\ \A k \in Keys :
                LET known == {a \in Agents : regRows[a].key = k} IN
                IF known = {} THEN i[k] = NoAgent ELSE i[k] \in known
          /\ idx' = [idx EXCEPT ![p] = i]
    /\ held' = [held EXCEPT ![p] = {}]
    /\ \E b \in BOOLEAN : disabled' = [disabled EXCEPT ![p] = b]
    /\ ledger' \in {[ledger EXCEPT ![p] = l] :
                       l \in {<<>>} \union (IF disabled'[p] THEN {} ELSE Sorted)}
    /\ pending' = [pending EXCEPT ![p] = {}]
    /\ loaded' = [loaded EXCEPT ![p] = Born]
    /\ promoted' = [promoted EXCEPT ![p] = {}]
    /\ raced' = [raced EXCEPT ![p] = {}]
    /\ UNCHANGED <<made, regRows, rows, outage, behind, manual>>

Next ==
    \/ \E s \in Scans :
          \/ \E p \in Procs : Begin(s, p)
          \/ \E cand \in Candidates : Look(s, cand)
          \/ Apply(s) \/ AppendEntry(s) \/ Finish(s)
    \/ \E p \in Procs :
          \/ \E x \in pending[p] : ReplayOne(p, x)
          \/ \E a \in Agents : Revoke(p, a)
          \/ \E m \in Manual : Register(p, m)
          \/ Resync(p) \/ Restart(p)

Spec == Init /\ [][Next]_vars

-----------------------------------------------------------------------------
(* Properties *)

\* The entries a scan has made in the process that is still up.
Own(s) == IF scan[s].pc = "gone" THEN {} ELSE {e \in 1..Len(made) : made[e].scan = s}

\* The agents a process knows without re-loading the registry.
Known(p) == loaded[p] \union promoted[p]

\* The scans of a process register no second agent of a key that is in the
\* registry since the process started or that one of them has registered
\* since, unless two of them were at that key at the same time: the
\* index is read, and written after the decision (service.py:603, 697).  An
\* agent that another process or an operator has registered since is not
\* known: it may get a double without any race.
OneAgentPerKey ==
    \A p \in Procs : \A a \in Known(p), b \in promoted[p] :
        a # b /\ regRows[a].key = regRows[b].key => regRows[b].key \in raced[p]

\* Every entry in the ledger of a durable process is in the table, exactly as
\* it is in memory, or parked, and no two rows have one number.
\* (_safe_flush_append: refused and failed entries are kept.)
EntriesAccounted ==
    /\ \A p \in Procs :
          ~disabled[p] => ToSet(ledger[p]) \subseteq rows \union pending[p]
    /\ \A x, y \in rows : x.n = y.n => x = y

\* verify_chain over the table.
Verifies(l) ==
    \A i \in 1..Len(l) :
        Front(l[i].hash) = IF i = 1 THEN <<>> ELSE l[i - 1].hash

\* The chain a restart will load verifies, and its numbers are its positions,
\* which the lookups by key and by agent rely on, unless an insert failed or
\* an entry was made by a process that had not seen all of the table; and even
\* then a process that has seen all of it makes an entry with a free number.
\* (append: the number after the last; _bootstrap_from_postgres.)
StoredChain ==
    /\ ~outage /\ ~behind =>
          \A l \in Sorted : Verifies(l) /\ \A i \in 1..Len(l) : l[i].n = i - 1
    /\ \A p \in Procs : rows \subseteq ToSet(ledger[p]) => ~Taken(NextStored(p, 1))

\* The answer of a replayed run has all that the run entered, and nothing that
\* was entered before it began.
\* (_replay_completed_run: the recorded range, in the process that ran it.)
ReplayHasRun ==
    \A s \in Scans :
        scan[s].pc = "done" =>
            /\ Own(s) \subseteq Slice(s)
            /\ \A e \in Slice(s) : e > scan[s].since

-----------------------------------------------------------------------------
(* Strengthenings that make the invariants above inductive.                *)

\* The caches of the registry agree with the table on the keys, and the index
\* has an agent of the key of every known one.
AgentInv ==
    \A p \in Procs :
        /\ \A a \in Agents : reg[p][a] # Absent =>
              regRows[a] # Absent /\ regRows[a].key = reg[p][a].key
        /\ \A k \in Keys : idx[p][k] # NoAgent =>
              reg[p][idx[p][k]] # Absent /\ reg[p][idx[p][k]].key = k
        /\ \A a \in Known(p) : regRows[a] # Absent /\ idx[p][regRows[a].key] # NoAgent

\* A scan is in its process, and what it has decided on is what it looked up:
\* an agent of the key, unless the candidate was new.
LookInv ==
    \A s \in Scans :
        /\ scan[s].pc \in {"running", "decided", "applied", "done"} => scan[s].proc \in Procs
        /\ scan[s].pc \in {"decided", "applied"} =>
              scan[s].cand \in Candidates /\ scan[s].action \in Actions
        /\ scan[s].pc = "decided" /\ scan[s].action \in {"updated", "quarantined"} =>
              /\ scan[s].agent \in Agents
              /\ reg[scan[s].proc][scan[s].agent] # Absent
              /\ reg[scan[s].proc][scan[s].agent].key = scan[s].cand.key
              /\ scan[s].copy # Absent
              /\ scan[s].copy.key = scan[s].cand.key

\* Where two scans of a process have not met at a key, they have not registered
\* a second agent of it, and none is about to.
RaceInv ==
    /\ OneAgentPerKey
    /\ \A p \in Procs, s, t \in Scans :
          s # t /\ scan[s].pc = "decided" /\ scan[t].pc = "decided"
            /\ scan[s].proc = p /\ scan[t].proc = p /\ scan[s].cand.key = scan[t].cand.key
              => scan[s].cand.key \in raced[p]
    /\ \A p \in Procs, s \in Scans :
          scan[s].pc = "decided" /\ scan[s].action = "registered" /\ scan[s].proc = p =>
              \A a \in Known(p) : regRows[a].key = scan[s].cand.key
                  => scan[s].cand.key \in raced[p]

\* The numbers in a ledger increase.
OrderInv ==
    \A p \in Procs : \A i, j \in 1..Len(ledger[p]) :
        i < j => ledger[p][i].n < ledger[p][j].n

\* Without outages and without entries by a process that was behind, nothing
\* is parked, every number below a stored one is stored, and a row descends
\* from the one before it.
ChainInv ==
    ~outage /\ ~behind =>
        /\ \A p \in Procs : pending[p] = {}
        /\ \A x \in rows : \A m \in 0..(x.n - 1) : \E y \in rows : y.n = m
        /\ \A x \in rows : x.n = 0 => Front(x.hash) = <<>>
        /\ \A x, y \in rows : x.n = y.n + 1 => Front(x.hash) = y.hash

\* Where the entries of a scan are in the ledger of its process, and what is
\* there since it began.
RunInv ==
    \A s \in Scans :
        LET l == ledger[scan[s].proc]
            end == IF scan[s].pc = "done" THEN scan[s].last + 1 ELSE Len(l)
        IN
        /\ scan[s].pc = "new" => \A e \in 1..Len(made) : made[e].scan # s
        /\ scan[s].pc \in {"running", "decided", "applied", "done"} =>
              /\ end <= Len(l)
              /\ scan[s].since <= Len(made)
              /\ scan[s].start <= Len(l)
              /\ \A i \in (scan[s].start + 1)..Len(l) : Last(l[i].hash) > scan[s].since
              /\ \A e \in 1..Len(made) : made[e].scan = s =>
                    \E i \in (scan[s].start + 1)..end : Last(l[i].hash) = e
=============================================================================
