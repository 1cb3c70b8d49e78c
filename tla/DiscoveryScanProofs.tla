------------------------ MODULE DiscoveryScanProofs ------------------------
(***************************************************************************)
(* Theorems about DiscoveryScan, for any number of processes, scans,       *)
(* candidates, entries and crashes.                                        *)
(***************************************************************************)
EXTENDS DiscoveryScan, FiniteSetTheorems, TLAPS

-----------------------------------------------------------------------------
(* Constants and records.                                                  *)

LEMMA Constants ==
    /\ NewScan \in Scan /\ [NewScan EXCEPT !.pc = "gone"] \in Scan
    /\ Absent \in Agent /\ NoCandidate \in Candidates \union {NoCandidate}
    /\ NoAgent \notin Agents /\ Agents \subseteq Nat
    /\ \A c \in Candidates : c.key \in Keys /\ c.level \in Levels
    /\ \A k \in Keys : k # "none" /\ k # Absent.key /\ k # NoCandidate.key
<1>1. NoAgent \notin Agents /\ Agents \subseteq Nat
  BY BoundAssumption DEF NoAgent, Agents
<1>2. /\ \A c \in Candidates : c.key \in Keys /\ c.level \in Levels
      /\ \A k \in Keys : k # "none"
  BY CandidateAssumption DEF Keys
<1>3. Absent \in Agent
  BY DEF Absent, Agent
<1>4. NewScan \in Scan /\ [NewScan EXCEPT !.pc = "gone"] \in Scan
  BY <1>3 DEF NewScan, Scan
<1>5. Absent.key = "none" /\ NoCandidate.key = "none"
  BY DEF Absent, NoCandidate
<1>6. QED
  BY <1>1, <1>2, <1>3, <1>4, <1>5

\* What Begin leaves of the scans.
LEMMA BeginScan ==
    ASSUME TypeOK, NEW s \in Scans, NEW p \in Procs, Begin(s, p)
    PROVE  /\ scan' \in [Scans -> Scan] /\ \A t \in Scans : t # s => scan'[t] = scan[t]
           /\ scan'[s].pc = "running" /\ scan'[s].proc = p
           /\ scan'[s].start = Len(ledger[p]) /\ scan'[s].since = Len(made)
<1>1. scan[s] \in Scan /\ Len(ledger[p]) \in Nat /\ Len(made) \in Nat
  BY DEF TypeOK
<1> DEFINE r == [scan[s] EXCEPT !.pc = "running", !.proc = p,
                                !.start = Len(ledger[p]), !.since = Len(made)]
<1>2. scan' = [scan EXCEPT ![s] = r]
  BY DEF Begin, TypeOK
<1>3. r \in Scan
  BY <1>1 DEF Scan
<1>4. r.pc = "running" /\ r.proc = p /\ r.start = Len(ledger[p]) /\ r.since = Len(made)
  BY <1>1 DEF Scan
<1> HIDE DEF r
<1>5. QED
  BY <1>2, <1>3, <1>4 DEF TypeOK

\* What Decide may say, and of what.
LEMMA Decided ==
    ASSUME NEW cand \in Candidates, NEW existing \in Agent
    PROVE  /\ Decide(cand, existing) \in Actions
           /\ existing = Absent => Decide(cand, existing) \notin {"updated", "quarantined"}
           /\ existing # Absent => Decide(cand, existing) # "registered"
<1>1. cand.level \in 0..2 /\ existing.level \in 0..2
  BY Constants DEF Agent, Absent, Levels
<1>2. CASE existing = Absent
  BY <1>2 DEF Decide, Actions
<1>3. CASE existing # Absent
  BY <1>1, <1>3 DEF Decide, Actions
<1>4. QED
  BY <1>2, <1>3

LEMMA LookScan ==
    ASSUME TypeOK, AgentInv, LookInv, NEW s \in Scans, NEW cand \in Candidates, Look(s, cand)
    PROVE  LET p == scan[s].proc
               agent == idx[p][cand.key]
           IN
           /\ scan' \in [Scans -> Scan] /\ \A t \in Scans : t # s => scan'[t] = scan[t]
           /\ p \in Procs /\ cand.key \in Keys
           /\ scan'[s].pc = "decided" /\ scan'[s].proc = p /\ scan'[s].cand = cand
           /\ scan'[s].start = scan[s].start /\ scan'[s].since = scan[s].since
           /\ scan'[s].agent = agent /\ scan'[s].action \in Actions
           /\ scan'[s].action = "registered" => agent = NoAgent
           /\ scan'[s].action \in {"updated", "quarantined"} =>
                 agent \in Agents /\ scan'[s].copy = reg[p][agent] /\ scan'[s].copy # Absent
<1> DEFINE p == scan[s].proc
           agent == idx[p][cand.key]
           existing == IF agent = NoAgent THEN Absent ELSE reg[p][agent]
           r == [scan[s] EXCEPT !.pc = "decided", !.cand = cand, !.agent = agent,
                                !.copy = existing, !.action = Decide(cand, existing)]
<1>1. scan[s] \in Scan /\ p \in Procs /\ cand.key \in Keys
  BY Constants DEF TypeOK, Look, LookInv
<1>2. agent \in Agents \union {NoAgent}
  BY <1>1 DEF TypeOK
<1>3. existing \in Agent
  BY <1>1, <1>2, Constants DEF TypeOK
<1>4. agent # NoAgent => existing # Absent
  BY <1>1 DEF AgentInv
<1>5. scan' = [scan EXCEPT ![s] = r]
  BY DEF Look, TypeOK
<1> HIDE DEF existing, agent, p
<1>6. /\ Decide(cand, existing) \in Actions
      /\ existing = Absent => Decide(cand, existing) \notin {"updated", "quarantined"}
      /\ existing # Absent => Decide(cand, existing) # "registered"
  BY <1>3, Decided
<1>7. r \in Scan
  BY <1>1, <1>2, <1>3, <1>6 DEF Scan
<1>8. /\ r.pc = "decided" /\ r.cand = cand /\ r.agent = agent /\ r.copy = existing
      /\ r.action = Decide(cand, existing)
      /\ r.proc = scan[s].proc /\ r.start = scan[s].start /\ r.since = scan[s].since
  BY <1>1 DEF Scan
<1> HIDE DEF r
<1>9. scan' \in [Scans -> Scan] /\ scan'[s] = r /\ \A t \in Scans : t # s => scan'[t] = scan[t]
  BY <1>5, <1>7 DEF TypeOK
<1>10. existing # Absent => existing = reg[p][agent] /\ agent # NoAgent
  BY DEF existing
<1>11. QED
  BY <1>1, <1>2, <1>4, <1>6, <1>8, <1>9, <1>10 DEF p, agent

LEMMA Fresh ==
    ASSUME Born # Agents
    PROVE  FreshAgent \in Agents /\ regRows[FreshAgent] = Absent
<1>1. \E a \in Agents : a \notin Born
  BY DEF Born
<1>2. FreshAgent \in Agents /\ FreshAgent \notin Born
  BY <1>1 DEF FreshAgent
<1>3. QED
  BY <1>2 DEF Born

LEMMA ApplyScan ==
    ASSUME TypeOK, LookInv, NEW s \in Scans, Apply(s)
    PROVE  /\ scan' \in [Scans -> Scan] /\ \A t \in Scans : t # s => scan'[t] = scan[t]
           /\ scan[s].pc = "decided" /\ scan[s].proc \in Procs
           /\ scan[s].cand \in Candidates /\ scan[s].action \in Actions
           /\ scan'[s].pc = "applied" /\ scan'[s].proc = scan[s].proc
           /\ scan'[s].cand = scan[s].cand /\ scan'[s].action = scan[s].action
           /\ scan'[s].start = scan[s].start /\ scan'[s].since = scan[s].since
<1> DEFINE a == IF scan[s].action = "registered" THEN FreshAgent ELSE scan[s].agent
           r == [scan[s] EXCEPT !.pc = "applied", !.agent = a]
<1>1. /\ scan[s] \in Scan /\ scan[s].pc = "decided" /\ scan[s].proc \in Procs
      /\ scan[s].cand \in Candidates /\ scan[s].action \in Actions
  BY DEF TypeOK, LookInv, Apply
<1>2. a \in Agents \union {NoAgent}
  BY <1>1, Fresh DEF Apply, Scan
<1>3. scan' = [scan EXCEPT ![s] = r]
  BY DEF Apply, TypeOK
<1> HIDE DEF a
<1>4. r \in Scan
  BY <1>1, <1>2 DEF Scan
<1>5. /\ r.pc = "applied" /\ r.proc = scan[s].proc /\ r.cand = scan[s].cand
      /\ r.action = scan[s].action /\ r.start = scan[s].start /\ r.since = scan[s].since
  BY <1>1 DEF Scan
<1> HIDE DEF r
<1>6. scan' \in [Scans -> Scan] /\ scan'[s] = r /\ \A t \in Scans : t # s => scan'[t] = scan[t]
  BY <1>3, <1>4 DEF TypeOK
<1>7. QED
  BY <1>1, <1>5, <1>6

LEMMA AppendScan ==
    ASSUME TypeOK, LookInv, NEW s \in Scans, AppendEntry(s)
    PROVE  /\ scan' \in [Scans -> Scan] /\ \A t \in Scans : t # s => scan'[t] = scan[t]
           /\ scan[s].pc = "applied" /\ scan[s].proc \in Procs
           /\ scan[s].cand \in Candidates /\ scan[s].action \in Actions
           /\ scan'[s].pc = "running" /\ scan'[s].proc = scan[s].proc
           /\ scan'[s].start = scan[s].start /\ scan'[s].since = scan[s].since
<1> DEFINE r == [scan[s] EXCEPT !.pc = "running", !.cand = NoCandidate, !.action = "none",
                                !.agent = NoAgent, !.copy = Absent]
<1>1. /\ scan[s] \in Scan /\ scan[s].pc = "applied" /\ scan[s].proc \in Procs
      /\ scan[s].cand \in Candidates /\ scan[s].action \in Actions
  BY DEF TypeOK, LookInv, AppendEntry
<1>2. scan' = [scan EXCEPT ![s] = r]
  BY DEF AppendEntry, TypeOK
<1>3. r \in Scan
  BY <1>1, Constants DEF Scan
<1>4. r.pc = "running" /\ r.proc = scan[s].proc /\ r.start = scan[s].start /\ r.since = scan[s].since
  BY <1>1 DEF Scan
<1> HIDE DEF r
<1>5. scan' \in [Scans -> Scan] /\ scan'[s] = r /\ \A t \in Scans : t # s => scan'[t] = scan[t]
  BY <1>2, <1>3 DEF TypeOK
<1>6. QED
  BY <1>1, <1>4, <1>5

LEMMA FinishScan ==
    ASSUME TypeOK, LookInv, NEW s \in Scans, Finish(s)
    PROVE  LET l == ledger[scan[s].proc] IN
           /\ scan' \in [Scans -> Scan] /\ \A t \in Scans : t # s => scan'[t] = scan[t]
           /\ scan[s].pc = "running" /\ scan[s].proc \in Procs
           /\ scan'[s].pc = "done" /\ scan'[s].proc = scan[s].proc
           /\ scan'[s].start = scan[s].start /\ scan'[s].since = scan[s].since
           /\ scan'[s].last = IF Len(l) > scan[s].start THEN Len(l) - 1 ELSE -1
<1> DEFINE l == ledger[scan[s].proc]
           n == IF Len(l) > scan[s].start THEN Len(l) - 1 ELSE -1
           r == [scan[s] EXCEPT !.pc = "done", !.last = n]
<1>1. scan[s] \in Scan /\ scan[s].pc = "running" /\ scan[s].proc \in Procs
  BY DEF TypeOK, LookInv, Finish
<1>2. Len(l) \in Nat
  BY <1>1 DEF TypeOK
<1>3. n \in Int
  BY <1>2
<1>4. scan' = [scan EXCEPT ![s] = r]
  BY DEF Finish, TypeOK, LastPosition
<1> HIDE DEF n
<1>5. r \in Scan
  BY <1>1, <1>3 DEF Scan
<1>6. /\ r.pc = "done" /\ r.proc = scan[s].proc /\ r.start = scan[s].start
      /\ r.since = scan[s].since /\ r.last = n
  BY <1>1 DEF Scan
<1> HIDE DEF r
<1>7. scan' \in [Scans -> Scan] /\ scan'[s] = r /\ \A t \in Scans : t # s => scan'[t] = scan[t]
  BY <1>4, <1>5 DEF TypeOK
<1>8. QED
  BY <1>1, <1>6, <1>7 DEF n

LEMMA RestartScan ==
    ASSUME TypeOK, NEW p \in Procs, Restart(p)
    PROVE  /\ scan' \in [Scans -> Scan]
           /\ \A t \in Scans : /\ scan[t].proc = p => scan'[t].pc = "gone"
                               /\ scan[t].proc # p => scan'[t] = scan[t]
<1>1. scan' = [t \in Scans |-> IF scan[t].proc = p THEN [NewScan EXCEPT !.pc = "gone"]
                               ELSE scan[t]]
  BY DEF Restart
<1>2. [NewScan EXCEPT !.pc = "gone"].pc = "gone"
  BY DEF NewScan
<1>3. QED
  BY <1>1, <1>2, Constants DEF TypeOK

-----------------------------------------------------------------------------
(* The registry.                                                           *)

\* A process saves an agent it has again.
Rewrites(p) ==
    \E a \in Agents, r \in Agent \ {Absent} :
        /\ SaveAgent(p, a, r)
        /\ reg[p][a] # Absent /\ r.key = reg[p][a].key
        /\ UNCHANGED <<idx, loaded, promoted>>

\* A scan saves and links a new agent.
Registers(p, k) ==
    \E a \in Agents, r \in Agent \ {Absent} :
        /\ SaveAgent(p, a, r)
        /\ regRows[a] = Absent /\ r.key = k
        /\ Link(p, k, a)
        /\ loaded' = loaded /\ promoted' = [promoted EXCEPT ![p] = @ \union {a}]

\* An operator saves a new agent, which is not linked.
Enrols(p) ==
    \E a \in Agents, r \in Agent \ {Absent} :
        /\ SaveAgent(p, a, r)
        /\ regRows[a] = Absent
        /\ UNCHANGED <<idx, loaded, promoted>>

LEMMA SavePointwise ==
    ASSUME TypeOK, NEW p \in Procs, NEW a \in Agents, NEW r \in Agent, SaveAgent(p, a, r)
    PROVE  /\ reg' \in [Procs -> [Agents -> Agent]] /\ regRows' \in [Agents -> Agent]
           /\ reg'[p][a] = r /\ regRows'[a] = r
           /\ \A q \in Procs, b \in Agents : q # p \/ b # a => reg'[q][b] = reg[q][b]
           /\ \A b \in Agents : b # a => regRows'[b] = regRows[b]
BY DEF SaveAgent, TypeOK

LEMMA AgentParts ==
    ASSUME NEW r \in Agent, r # Absent
    PROVE  /\ r.key \in Keys
           /\ \A x \in Levels : /\ [r EXCEPT !.level = x] \in Agent \ {Absent}
                                /\ [r EXCEPT !.level = x].key = r.key
           /\ \A x \in Statuses : /\ [r EXCEPT !.status = x] \in Agent \ {Absent}
                                  /\ [r EXCEPT !.status = x].key = r.key
<1>1. r \in [key: Keys, status: Statuses, level: Levels] /\ r.key # "none"
  BY Constants DEF Agent
<1>2. QED
  BY <1>1, Constants DEF Agent, Absent

LEMMA ApplyRegistry ==
    ASSUME TypeOK, AgentInv, LookInv, NEW s \in Scans, Apply(s)
    PROVE  \/ /\ scan[s].action = "registered" 
              /\ Registers(scan[s].proc, scan[s].cand.key)
           \/ Rewrites(scan[s].proc)
           \/ UNCHANGED <<reg, regRows, idx, loaded, promoted>>
<1> DEFINE p == scan[s].proc
           cand == scan[s].cand
<1>1. p \in Procs /\ cand \in Candidates /\ cand.key \in Keys /\ cand.level \in Levels
  BY ApplyScan, Constants
<1>2. CASE scan[s].action = "registered"
  <2>1. FreshAgent \in Agents /\ regRows[FreshAgent] = Absent
    BY <1>2, Fresh DEF Apply
  <2> DEFINE r == [key |-> cand.key, status |-> "open", level |-> cand.level]
  <2>2. r \in Agent /\ r.key = cand.key
    BY <1>1 DEF Agent, Statuses
  <2>3. r # Absent
    BY <1>1, <2>2, Constants
  <2>4. /\ SaveAgent(p, FreshAgent, r) /\ Link(p, cand.key, FreshAgent)
        /\ loaded' = loaded /\ promoted' = [promoted EXCEPT ![p] = @ \union {FreshAgent}]
    BY <1>2 DEF Apply
  <2> HIDE DEF r, p, cand
  <2>5. Registers(p, cand.key)
    BY <2>1, <2>2, <2>3, <2>4 DEF Registers
  <2>6. QED
    BY <1>2, <2>5 DEF p, cand
<1>3. CASE scan[s].action \in {"updated", "quarantined"}
  <2> DEFINE a == scan[s].agent
  <2>1. /\ a \in Agents /\ reg[p][a] # Absent /\ reg[p][a].key = cand.key
        /\ scan[s].copy # Absent /\ scan[s].copy.key = cand.key
    BY <1>3 DEF LookInv, Apply
  <2>2. scan[s].copy \in Agent /\ reg[p][a] \in Agent
    BY <1>1, <2>1 DEF TypeOK, Scan
  <2>3. /\ UNCHANGED <<idx, loaded, promoted>>
        /\ \/ SaveAgent(p, a, [scan[s].copy EXCEPT !.level = cand.level])
           \/ SaveAgent(p, a, [reg[p][a] EXCEPT !.status = "quarantined"])
    BY <1>3 DEF Apply
  <2>4. /\ [scan[s].copy EXCEPT !.level = cand.level] \in Agent \ {Absent}
        /\ [scan[s].copy EXCEPT !.level = cand.level].key = cand.key
    BY <1>1, <2>1, <2>2, AgentParts
  <2>5. /\ [reg[p][a] EXCEPT !.status = "quarantined"] \in Agent \ {Absent}
        /\ [reg[p][a] EXCEPT !.status = "quarantined"].key = cand.key
    <3>1. "quarantined" \in Statuses
      BY DEF Statuses
    <3>2. QED
      BY <2>1, <2>2, <3>1, AgentParts
  <2>6. Rewrites(p)
    BY <2>1, <2>3, <2>4, <2>5 DEF Rewrites
  <2>7. QED
    BY <2>6
<1>4. CASE scan[s].action \notin {"registered", "updated", "quarantined"}
  BY <1>4 DEF Apply
<1>5. QED
  BY <1>2, <1>3, <1>4

LEMMA RevokeRegistry ==
    ASSUME TypeOK, NEW p \in Procs, NEW a \in Agents, Revoke(p, a)
    PROVE  Rewrites(p)
<1>1. /\ reg[p][a] \in Agent /\ reg[p][a] # Absent /\ "revoked" \in Statuses
      /\ UNCHANGED <<idx, loaded, promoted>>
      /\ SaveAgent(p, a, [reg[p][a] EXCEPT !.status = "revoked"])
  BY DEF Revoke, TypeOK, Statuses
<1>2. /\ [reg[p][a] EXCEPT !.status = "revoked"] \in Agent \ {Absent}
      /\ [reg[p][a] EXCEPT !.status = "revoked"].key = reg[p][a].key
  BY <1>1, AgentParts
<1>3. QED
  BY <1>1, <1>2 DEF Rewrites

LEMMA EnrolRegistry ==
    ASSUME TypeOK, NEW p \in Procs, NEW m \in Manual, Register(p, m)
    PROVE  Enrols(p)
<1> DEFINE r == [key |-> m.key, status |-> "open", level |-> m.level]
<1>1. m.key \in Keys /\ m.level \in Levels
  BY CandidateAssumption
<1>2. r \in Agent /\ r # Absent
  <2>1. r \in Agent /\ r.key = m.key
    BY <1>1 DEF Agent, Statuses
  <2>2. QED
    BY <1>1, <2>1, Constants
<1>3. /\ FreshAgent \in Agents /\ regRows[FreshAgent] = Absent
      /\ SaveAgent(p, FreshAgent, r) /\ UNCHANGED <<idx, loaded, promoted>>
  BY Fresh DEF Register
<1> HIDE DEF r
<1>4. QED
  BY <1>2, <1>3 DEF Enrols

-----------------------------------------------------------------------------
(* The ledger.                                                             *)

LEMMA LedgerAppend ==
    ASSUME NEW l \in Seq(Stored), NEW x \in Stored
    PROVE  /\ Append(l, x) \in Seq(Stored) /\ Len(l) \in Nat /\ Len(Append(l, x)) = Len(l) + 1
           /\ Append(l, x)[Len(l) + 1] = x
           /\ \A i \in 1..Len(l) : Append(l, x)[i] = l[i]
           /\ ToSet(Append(l, x)) = ToSet(l) \union {x}
<1>1. /\ Append(l, x) \in Seq(Stored) /\ Len(l) \in Nat /\ Len(Append(l, x)) = Len(l) + 1
      /\ Append(l, x)[Len(l) + 1] = x
      /\ \A i \in 1..Len(l) : Append(l, x)[i] = l[i]
      /\ DOMAIN l = 1..Len(l) /\ DOMAIN Append(l, x) = 1..(Len(l) + 1)
  OBVIOUS
<1>2. \A y : y \in ToSet(Append(l, x)) <=> \E i \in 1..(Len(l) + 1) : Append(l, x)[i] = y
  BY <1>1 DEF ToSet
<1>3. \A y : y \in ToSet(l) <=> \E i \in 1..Len(l) : l[i] = y
  BY <1>1 DEF ToSet
<1>4. \A i \in 1..(Len(l) + 1) : i \in 1..Len(l) \/ i = Len(l) + 1
  BY <1>1
<1>5. \A y : y \in ToSet(Append(l, x)) => y \in ToSet(l) \union {x}
  BY <1>1, <1>2, <1>3, <1>4
<1>6. \A i \in 1..Len(l) : i \in 1..(Len(l) + 1)
  BY <1>1
<1>7. Len(l) + 1 \in 1..(Len(l) + 1)
  BY <1>1
<1>8. \A y : y \in ToSet(l) \union {x} => y \in ToSet(Append(l, x))
  BY <1>1, <1>2, <1>3, <1>6, <1>7
<1>9. ToSet(Append(l, x)) = ToSet(l) \union {x}
  BY <1>5, <1>8
<1>10. QED
  BY <1>1, <1>9

LEMMA StoredParts ==
    /\ \A x \in Stored : x.n \in Nat /\ x.hash \in Seq(Nat)
    /\ \A l \in Seq(Stored), i \in Nat : i \in 1..Len(l) => l[i] \in Stored /\ l[i].n \in Nat
<1>1. \A x \in Stored : x.n \in Nat /\ x.hash \in Seq(Nat)
  BY DEF Stored
<1>2. \A l \in Seq(Stored), i \in Nat : i \in 1..Len(l) => l[i] \in Stored
  OBVIOUS
<1>3. QED
  BY <1>1, <1>2

LEMMA HashAppend ==
    ASSUME NEW h \in Seq(Nat), NEW e \in Nat
    PROVE  /\ Append(h, e) \in Seq(Nat) /\ Front(Append(h, e)) = h /\ Last(Append(h, e)) = e
           /\ <<e>> \in Seq(Nat) /\ Front(<<e>>) = <<>> /\ Last(<<e>>) = e
<1>1. /\ Append(h, e) \in Seq(Nat) /\ Len(Append(h, e)) = Len(h) + 1 /\ Len(h) \in Nat
      /\ Append(h, e)[Len(h) + 1] = e
      /\ \A i \in 1..Len(h) : Append(h, e)[i] = h[i]
  OBVIOUS
<1>2. SubSeq(Append(h, e), 1, Len(h)) = h
  BY <1>1
<1>3. Front(Append(h, e)) = h /\ Last(Append(h, e)) = e
  BY <1>1, <1>2 DEF Front, Last
<1>4. <<e>> \in Seq(Nat) /\ Len(<<e>>) = 1 /\ <<e>>[1] = e
  OBVIOUS
<1>5. Front(<<e>>) = <<>> /\ Last(<<e>>) = e
  BY <1>4 DEF Front, Last
<1>6. QED
  BY <1>1, <1>3, <1>4, <1>5

\* The next entry of a ledger: after the last, on top of it.
LEMMA NextFacts ==
    ASSUME TypeOK, NEW p \in Procs, NEW e \in Nat
    PROVE  LET x == NextStored(p, e)
               y == Last(ledger[p])
           IN
           /\ x \in Stored /\ Last(x.hash) = e
           /\ ledger[p] = <<>> => x.n = 0 /\ Front(x.hash) = <<>>
           /\ ledger[p] # <<>> =>
                 /\ y \in ToSet(ledger[p]) /\ y \in Stored
                 /\ x.n = y.n + 1 /\ Front(x.hash) = y.hash
<1> DEFINE x == NextStored(p, e)
           y == Last(ledger[p])
<1>1. ledger[p] \in Seq(Stored)
  BY DEF TypeOK
<1>2. CASE ledger[p] = <<>>
  <2>1. <<e>> \in Seq(Nat) /\ Front(<<e>>) = <<>> /\ Last(<<e>>) = e
    <3>1. <<>> \in Seq(Nat)
      OBVIOUS
    <3>2. QED
      BY <3>1, HashAppend
  <2>2. x = [n |-> 0, hash |-> <<e>>]
    BY <1>2 DEF NextStored
  <2>3. x \in Stored /\ x.n = 0 /\ x.hash = <<e>>
    BY <2>1, <2>2 DEF Stored
  <2>4. QED
    BY <1>2, <2>1, <2>3
<1>3. CASE ledger[p] # <<>>
  <2>1. y \in Stored /\ y \in ToSet(ledger[p])
    <3>1. Len(ledger[p]) \in 1..Len(ledger[p]) /\ DOMAIN ledger[p] = 1..Len(ledger[p])
      BY <1>1, <1>3
    <3>2. QED
      BY <1>1, <3>1 DEF Last, ToSet
  <2>2. y.n \in Nat /\ y.hash \in Seq(Nat)
    BY <2>1 DEF Stored
  <2>3. x = [n |-> y.n + 1, hash |-> Append(y.hash, e)]
    BY <1>3 DEF NextStored
  <2> HIDE DEF y
  <2>4. x \in Stored /\ x.n = y.n + 1 /\ x.hash = Append(y.hash, e)
    BY <2>2, <2>3, HashAppend DEF Stored
  <2>5. Front(x.hash) = y.hash /\ Last(x.hash) = e
    BY <2>2, <2>4, HashAppend
  <2>6. QED
    BY <1>3, <2>1, <2>4, <2>5 DEF y
<1>4. QED
  BY <1>2, <1>3

\* No entry of a ledger has the number of the next one.
LEMMA NextIsFree ==
    ASSUME TypeOK, OrderInv, NEW p \in Procs, NEW e \in Nat
    PROVE  /\ \A i \in 1..Len(ledger[p]) : ledger[p][i].n < NextStored(p, e).n
           /\ rows \subseteq ToSet(ledger[p]) => ~Taken(NextStored(p, e))
<1> DEFINE l == ledger[p]
           x == NextStored(p, e)
<1>1. l \in Seq(Stored) /\ Len(l) \in Nat /\ DOMAIN l = 1..Len(l)
  BY DEF TypeOK
<1>2. \A i \in 1..Len(l) : l[i].n < x.n
  <2> SUFFICES ASSUME NEW i \in 1..Len(l) PROVE l[i].n < x.n
    OBVIOUS
  <2>1. l # <<>> /\ Len(l) \in 1..Len(l)
    BY <1>1
  <2>2. x.n = Last(l).n + 1 /\ Last(l) \in Stored
    BY <2>1, NextFacts
  <2>3. Last(l).n \in Nat /\ l[i].n \in Nat
    BY <1>1, <2>2, StoredParts
  <2>4. i < Len(l) => l[i].n < Last(l).n
    BY <2>1 DEF OrderInv, Last
  <2>5. i = Len(l) => l[i].n = Last(l).n
    BY DEF Last
  <2>6. QED
    BY <1>1, <2>2, <2>3, <2>4, <2>5
<1>3. \A y \in ToSet(l) : y.n # x.n
  <2> SUFFICES ASSUME NEW i \in 1..Len(l) PROVE l[i].n # x.n
    BY <1>1 DEF ToSet
  <2>1. l[i].n \in Nat /\ x.n \in Nat
    BY <1>1, NextFacts, StoredParts
  <2>2. QED
    BY <1>2, <2>1
<1>4. QED
  BY <1>2, <1>3 DEF Taken

\* What a flush may do to the table.
RowAdded(x) == ~Taken(x) /\ rows' = rows \union {x}

LEMMA FlushFacts ==
    ASSUME NEW x
    PROVE  /\ Flush(x, "landed") => RowAdded(x)
           /\ Flush(x, "refused") => Taken(x) /\ rows' = rows
           /\ Flush(x, "raised") => rows' = rows \/ RowAdded(x)
BY DEF Flush, RowAdded

LEMMA AppendLedger ==
    ASSUME TypeOK, LookInv, NEW s \in Scans, AppendEntry(s)
    PROVE  LET p == scan[s].proc
               e == Len(made) + 1
               x == NextStored(p, e)
           IN
           /\ p \in Procs /\ e \in Nat /\ Len(made) \in Nat /\ x \in Stored
           /\ ledger' \in [Procs -> Seq(Stored)] /\ ledger'[p] = Append(ledger[p], x)
           /\ \A q \in Procs : q # p => ledger'[q] = ledger[q]
           /\ behind' = (behind \/ ~(rows \subseteq ToSet(ledger[p])))
           /\ disabled' = disabled
           /\ \/ disabled[p] /\ UNCHANGED <<rows, pending, outage>>
              \/ ~disabled[p] /\ RowAdded(x) /\ UNCHANGED <<pending, outage>>
              \/ /\ ~disabled[p] /\ Taken(x) /\ UNCHANGED <<rows, outage>>
                 /\ pending' = [pending EXCEPT ![p] = @ \union {x}]
              \/ /\ ~disabled[p] /\ outage' = TRUE /\ (rows' = rows \/ RowAdded(x))
                 /\ pending' = [pending EXCEPT ![p] = @ \union {x}]
<1> DEFINE p == scan[s].proc
           e == Len(made) + 1
           x == NextStored(p, e)
<1>1. p \in Procs /\ e \in Nat /\ Len(made) \in Nat
  BY AppendScan DEF TypeOK
<1>2. x \in Stored
  BY <1>1, NextFacts
<1>3. ledger' = [ledger EXCEPT ![p] = Append(@, x)]
  BY DEF AppendEntry
<1>4. /\ behind' = (behind \/ ~(rows \subseteq ToSet(ledger[p])))
      /\ disabled' = disabled
  BY DEF AppendEntry
<1>5. \/ disabled[p] /\ UNCHANGED <<rows, pending, outage>>
      \/ ~disabled[p] /\ Flush(x, "landed") /\ UNCHANGED <<pending, outage>>
      \/ /\ ~disabled[p] /\ Flush(x, "refused") /\ UNCHANGED outage
         /\ pending' = [pending EXCEPT ![p] = @ \union {x}]
      \/ /\ ~disabled[p] /\ Flush(x, "raised") /\ outage' = TRUE
         /\ pending' = [pending EXCEPT ![p] = @ \union {x}]
  BY DEF AppendEntry
<1> HIDE DEF x, p, e
<1>6. ledger' \in [Procs -> Seq(Stored)] /\ ledger'[p] = Append(ledger[p], x)
      /\ \A q \in Procs : q # p => ledger'[q] = ledger[q]
  <2>1. Append(ledger[p], x) \in Seq(Stored)
    BY <1>1, <1>2, LedgerAppend DEF TypeOK
  <2>2. QED
    BY <1>1, <1>3, <2>1 DEF TypeOK
<1>7. QED
  BY <1>1, <1>2, <1>4, <1>5, <1>6, FlushFacts DEF x, p, e

\* The rows in order are all the rows.
LEMMA SortedRows ==
    ASSUME TypeOK, NEW l \in Sorted
    PROVE  /\ l \in Seq(Stored) /\ ToSet(l) = rows /\ Len(l) = Cardinality(rows)
           /\ Cardinality(rows) \in Nat
           /\ \A i, j \in 1..Len(l) : i < j => l[i].n < l[j].n
<1> DEFINE n == Cardinality(rows)
<1>1. n \in Nat /\ IsFiniteSet(rows)
  BY FS_CardinalityType DEF TypeOK
<1>2. l \in [1..n -> rows] /\ \A i, j \in 1..n : i # j => l[i] # l[j]
  BY DEF Sorted, SetToSeqs
<1>3. \A i, j \in DOMAIN l : i < j => l[i].n < l[j].n
  BY DEF Sorted
<1> HIDE DEF n
<1>4. l \in Injection(1..n, rows)
  BY <1>2 DEF Injection, IsInjective
<1>5. Cardinality(1..n) = n
  BY <1>1, FS_Interval
<1>6. l \in Surjection(1..n, rows)
  BY <1>1, <1>4, <1>5, FS_Injection DEF n
<1>7. DOMAIN l = 1..n /\ \A x \in rows : \E i \in 1..n : l[i] = x
  BY <1>2, <1>6 DEF Surjection
<1>8. ToSet(l) = rows
  BY <1>2, <1>7 DEF ToSet
<1>9. l \in Seq(Stored) /\ Len(l) = n
  BY <1>1, <1>2 DEF TypeOK
<1>10. QED
  BY <1>1, <1>3, <1>7, <1>8, <1>9 DEF n

LEMMA RestartLedger ==
    ASSUME TypeOK, NEW p \in Procs, Restart(p)
    PROVE  /\ ledger' \in [Procs -> Seq(Stored)]
           /\ \A q \in Procs : q # p => ledger'[q] = ledger[q]
           /\ ledger'[p] = <<>> \/ ledger'[p] \in Sorted
<1>1. PICK l \in {<<>>} \union Sorted : ledger' = [ledger EXCEPT ![p] = l]
  BY DEF Restart
<1>2. <<>> \in Seq(Stored) /\ \A k \in Sorted : k \in Seq(Stored)
  BY SortedRows
<1>3. QED
  BY <1>1, <1>2 DEF TypeOK

-----------------------------------------------------------------------------
(* Types.                                                                  *)

LEMMA TypeInit == Init => TypeOK
<1> SUFFICES ASSUME Init PROVE TypeOK
  OBVIOUS
<1>1. made \in Seq(Made) /\ ledger \in [Procs -> Seq(Stored)]
  BY DEF Init
<1>2. scan \in [Scans -> Scan] /\ reg \in [Procs -> [Agents -> Agent]] /\ regRows \in [Agents -> Agent]
  BY Constants DEF Init
<1>3. idx \in [Procs -> [Keys -> Agents \union {NoAgent}]] /\ held \in [Procs -> SUBSET Keys]
  BY DEF Init
<1>4. rows \subseteq Stored /\ IsFiniteSet(rows) /\ pending \in [Procs -> SUBSET Stored]
  BY FS_EmptySet DEF Init
<1>5. disabled \in [Procs -> BOOLEAN] /\ outage \in BOOLEAN /\ behind \in BOOLEAN
  BY DEF Init
<1>6. /\ loaded \in [Procs -> SUBSET Agents] /\ promoted \in [Procs -> SUBSET Agents]
      /\ raced \in [Procs -> SUBSET Keys] /\ manual \in 0..MaxManual /\ crashes \in 0..MaxCrashes
  BY BoundAssumption DEF Init
<1>7. QED
  BY <1>1, <1>2, <1>3, <1>4, <1>5, <1>6 DEF TypeOK

LEMMA RewriteTypes ==
    ASSUME TypeOK, NEW p \in Procs, Rewrites(p) \/ Enrols(p)
    PROVE  /\ reg' \in [Procs -> [Agents -> Agent]] /\ regRows' \in [Agents -> Agent]
           /\ idx' \in [Procs -> [Keys -> Agents \union {NoAgent}]]
           /\ loaded' \in [Procs -> SUBSET Agents] /\ promoted' \in [Procs -> SUBSET Agents]
<1>1. PICK a \in Agents, r \in Agent \ {Absent} :
        SaveAgent(p, a, r) /\ UNCHANGED <<idx, loaded, promoted>>
  BY DEF Rewrites, Enrols
<1>2. QED
  BY <1>1, SavePointwise DEF TypeOK

LEMMA RegisterTypes ==
    ASSUME TypeOK, NEW p \in Procs, NEW k \in Keys, Registers(p, k)
    PROVE  /\ reg' \in [Procs -> [Agents -> Agent]] /\ regRows' \in [Agents -> Agent]
           /\ idx' \in [Procs -> [Keys -> Agents \union {NoAgent}]]
           /\ loaded' \in [Procs -> SUBSET Agents] /\ promoted' \in [Procs -> SUBSET Agents]
<1>1. PICK a \in Agents, r \in Agent \ {Absent} :
        /\ SaveAgent(p, a, r) /\ Link(p, k, a)
        /\ loaded' = loaded /\ promoted' = [promoted EXCEPT ![p] = @ \union {a}]
  BY DEF Registers
<1>2. /\ idx' \in [Procs -> [Keys -> Agents \union {NoAgent}]]
      /\ loaded' \in [Procs -> SUBSET Agents] /\ promoted' \in [Procs -> SUBSET Agents]
  BY <1>1 DEF Link, TypeOK
<1>3. QED
  BY <1>1, <1>2, SavePointwise

\* The table and the parked entries after an append or a replay.
LEMMA TableTypes ==
    ASSUME TypeOK, NEW x \in Stored
    PROVE  /\ RowAdded(x) => rows' \subseteq Stored /\ IsFiniteSet(rows')
           /\ \A p \in Procs : /\ [pending EXCEPT ![p] = @ \union {x}] \in [Procs -> SUBSET Stored]
                               /\ [pending EXCEPT ![p] = @ \ {x}] \in [Procs -> SUBSET Stored]
<1>1. RowAdded(x) => rows' \subseteq Stored /\ IsFiniteSet(rows')
  <2>1. IsFiniteSet(rows \union {x})
    BY FS_AddElement DEF TypeOK
  <2>2. rows \union {x} \subseteq Stored
    BY DEF TypeOK
  <2>3. QED
    BY <2>1, <2>2 DEF RowAdded
<1>2. QED
  BY <1>1 DEF TypeOK

LEMMA TypeStep ==
    ASSUME TypeOK, AgentInv, LookInv, [Next]_vars
    PROVE  TypeOK'
<1>1. ASSUME NEW s \in Scans, NEW p \in Procs, Begin(s, p) PROVE TypeOK'
  <2>1. scan' \in [Scans -> Scan]
    BY <1>1, BeginScan
  <2>2. QED
    BY <1>1, <2>1 DEF Begin, TypeOK
<1>2. ASSUME NEW s \in Scans, NEW cand \in Candidates, Look(s, cand) PROVE TypeOK'
  <2>1. scan' \in [Scans -> Scan] /\ cand.key \in Keys
    BY <1>2, LookScan
  <2>2. raced' \in [Procs -> SUBSET Keys]
    <3>1. PICK K \in SUBSET Keys : raced' = [raced EXCEPT ![scan[s].proc] = K]
      <4>1. raced[scan[s].proc] \subseteq Keys
        BY <1>2, LookScan DEF TypeOK
      <4>2. raced' = [raced EXCEPT ![scan[s].proc] =
                         IF Overlaps(s, cand.key) THEN raced[scan[s].proc] \union {cand.key}
                         ELSE raced[scan[s].proc]]
        BY <1>2 DEF Look
      <4>3. QED
        BY <2>1, <4>1, <4>2
    <3>2. QED
      BY <3>1 DEF TypeOK
  <2>3. QED
    BY <1>2, <2>1, <2>2 DEF Look, TypeOK
<1>3. ASSUME NEW s \in Scans, Apply(s) PROVE TypeOK'
  <2>1. /\ scan' \in [Scans -> Scan] /\ scan[s].proc \in Procs /\ scan[s].cand.key \in Keys
    BY <1>3, ApplyScan, Constants
  <2>2. /\ reg' \in [Procs -> [Agents -> Agent]] /\ regRows' \in [Agents -> Agent]
        /\ idx' \in [Procs -> [Keys -> Agents \union {NoAgent}]]
        /\ loaded' \in [Procs -> SUBSET Agents] /\ promoted' \in [Procs -> SUBSET Agents]
    <3>1. CASE Registers(scan[s].proc, scan[s].cand.key)
      BY <2>1, <3>1, RegisterTypes
    <3>2. CASE Rewrites(scan[s].proc)
      BY <2>1, <3>2, RewriteTypes
    <3>3. CASE UNCHANGED <<reg, regRows, idx, loaded, promoted>>
      BY <3>3 DEF TypeOK
    <3>4. QED
      BY <1>3, <3>1, <3>2, <3>3, ApplyRegistry
  <2>3. held' = held \/ held' = [held EXCEPT ![scan[s].proc] = @ \union {scan[s].cand.key}]
    BY <1>3 DEF Apply
  <2>4. held' \in [Procs -> SUBSET Keys]
    <3>1. PICK p \in Procs, k \in Keys : held' = held \/ held' = [held EXCEPT ![p] = @ \union {k}]
      BY <2>1, <2>3
    <3>2. held \in [Procs -> SUBSET Keys]
      BY DEF TypeOK
    <3>3. QED
      BY <3>1, <3>2
  <2>5. UNCHANGED <<made, ledger, rows, pending, disabled, outage, behind, raced, manual, crashes>>
    BY <1>3 DEF Apply
  <2>6. QED
    BY <2>1, <2>2, <2>4, <2>5 DEF TypeOK
<1>4. ASSUME NEW s \in Scans, AppendEntry(s) PROVE TypeOK'
  <2> DEFINE p == scan[s].proc
             x == NextStored(p, Len(made) + 1)
             resulting == IF scan[s].action \in {"below", "held", "skipped"} THEN NoAgent
                          ELSE scan[s].agent
             m == [scan |-> s, key |-> scan[s].cand.key, action |-> scan[s].action,
                   agent |-> resulting]
  <2>1. /\ scan' \in [Scans -> Scan] /\ scan[s].cand \in Candidates /\ scan[s].action \in Actions
        /\ scan[s].cand.key \in Keys /\ p \in Procs
    BY <1>4, AppendScan, Constants
  <2>2. resulting \in Agents \union {NoAgent}
    BY DEF TypeOK, Scan
  <2>3. made' = Append(made, m)
    BY <1>4 DEF AppendEntry
  <2>4. m \in Made
    BY <2>1, <2>2 DEF Made
  <2> HIDE DEF m
  <2>5. made' \in Seq(Made)
    BY <2>3, <2>4 DEF TypeOK
  <2> HIDE DEF x, p
  <2>6. /\ x \in Stored /\ ledger' \in [Procs -> Seq(Stored)]
        /\ rows' = rows \/ RowAdded(x)
        /\ outage' = outage \/ outage' = TRUE
        /\ behind' \in BOOLEAN
        /\ pending' = pending \/ pending' = [pending EXCEPT ![p] = @ \union {x}]
    <3>1. behind' = (behind \/ ~(rows \subseteq ToSet(ledger[p])))
      BY <1>4, AppendLedger DEF p
    <3>2. behind' \in BOOLEAN
      BY <3>1
    <3>3. QED
      BY <1>4, <3>2, AppendLedger DEF x, p
  <2>7. rows' \subseteq Stored /\ IsFiniteSet(rows') /\ pending' \in [Procs -> SUBSET Stored]
    <3>1. rows' \subseteq Stored /\ IsFiniteSet(rows')
      <4>1. CASE rows' = rows
        BY <4>1 DEF TypeOK
      <4>2. CASE RowAdded(x)
        BY <2>6, <4>2, TableTypes
      <4>3. QED
        BY <2>6, <4>1, <4>2
    <3>2. pending' \in [Procs -> SUBSET Stored]
      <4>1. CASE pending' = pending
        BY <4>1 DEF TypeOK
      <4>2. CASE pending' = [pending EXCEPT ![p] = @ \union {x}]
        BY <2>1, <2>6, <4>2, TableTypes
      <4>3. QED
        BY <2>6, <4>1, <4>2
    <3>3. QED
      BY <3>1, <3>2
  <2>8. outage' \in BOOLEAN
    BY <2>6 DEF TypeOK
  <2>9. UNCHANGED <<reg, regRows, idx, held, disabled, loaded, promoted, raced, manual, crashes>>
    BY <1>4 DEF AppendEntry
  <2>10. QED
    BY <2>1, <2>5, <2>6, <2>7, <2>8, <2>9 DEF TypeOK
<1>5. ASSUME NEW s \in Scans, Finish(s) PROVE TypeOK'
  <2>1. scan' \in [Scans -> Scan]
    BY <1>5, FinishScan
  <2>2. QED
    BY <1>5, <2>1 DEF Finish, TypeOK
<1>6. ASSUME NEW p \in Procs, NEW x \in pending[p], ReplayOne(p, x) PROVE TypeOK'
  <2>1. x \in Stored
    BY DEF TypeOK
  <2>2. /\ rows' = rows \/ RowAdded(x)
        /\ outage' = outage \/ outage' = TRUE
        /\ pending' = pending \/ pending' = [pending EXCEPT ![p] = @ \ {x}]
    BY <1>6, FlushFacts DEF ReplayOne
  <2>3. rows' \subseteq Stored /\ IsFiniteSet(rows') /\ pending' \in [Procs -> SUBSET Stored]
    BY <2>1, <2>2, TableTypes DEF TypeOK
  <2>4. outage' \in BOOLEAN
    BY <2>2 DEF TypeOK
  <2>5. QED
    BY <1>6, <2>3, <2>4 DEF ReplayOne, TypeOK
<1>7. ASSUME NEW p \in Procs,
             (\E a \in Agents : Revoke(p, a)) \/ (\E m \in Manual : Register(p, m))
      PROVE  TypeOK'
  <2>1. /\ reg' \in [Procs -> [Agents -> Agent]] /\ regRows' \in [Agents -> Agent]
        /\ idx' \in [Procs -> [Keys -> Agents \union {NoAgent}]]
        /\ loaded' \in [Procs -> SUBSET Agents] /\ promoted' \in [Procs -> SUBSET Agents]
    BY <1>7, RevokeRegistry, EnrolRegistry, RewriteTypes
  <2>2. UNCHANGED <<made, held, ledger, rows, pending, disabled, scan, outage, behind, raced,
                    crashes>>
    BY <1>7 DEF Revoke, Register
  <2>3. manual' \in 0..MaxManual
    <3>1. manual \in 0..MaxManual /\ manual < MaxManual /\ manual' = manual + 1
      BY <1>7 DEF Revoke, Register, TypeOK
    <3>2. QED
      BY <3>1, BoundAssumption
  <2>4. QED
    BY <2>1, <2>2, <2>3 DEF TypeOK
<1>8. ASSUME NEW p \in Procs, Restart(p) PROVE TypeOK'
  <2>1. scan' \in [Scans -> Scan] /\ ledger' \in [Procs -> Seq(Stored)]
    BY <1>8, RestartScan, RestartLedger
  <2>2. crashes' \in 0..MaxCrashes
    BY <1>8, BoundAssumption DEF Restart, TypeOK
  <2>3. reg' \in [Procs -> [Agents -> Agent]]
    BY <1>8 DEF Restart, TypeOK
  <2>4. idx' \in [Procs -> [Keys -> Agents \union {NoAgent}]]
    <3>1. PICK i \in [Keys -> Agents \union {NoAgent}] : idx' = [idx EXCEPT ![p] = i]
      BY <1>8 DEF Restart
    <3>2. QED
      BY <3>1 DEF TypeOK
  <2>5. held' \in [Procs -> SUBSET Keys] /\ pending' \in [Procs -> SUBSET Stored]
    BY <1>8 DEF Restart, TypeOK
  <2>6. disabled' \in [Procs -> BOOLEAN]
    BY <1>8 DEF Restart, TypeOK
  <2>7. UNCHANGED <<made, regRows, rows, outage, behind, manual>>
    BY <1>8 DEF Restart
  <2>8. /\ loaded' \in [Procs -> SUBSET Agents] /\ promoted' \in [Procs -> SUBSET Agents]
        /\ raced' \in [Procs -> SUBSET Keys]
    BY <1>8 DEF Restart, TypeOK, Born
  <2>9. QED
    BY <2>1, <2>2, <2>3, <2>4, <2>5, <2>6, <2>7, <2>8 DEF TypeOK
<1>9. ASSUME NEW p \in Procs, Resync(p) PROVE TypeOK'
  BY <1>9 DEF Resync, TypeOK
<1>10. CASE UNCHANGED vars
  BY <1>10 DEF vars, TypeOK
<1>11. QED
  BY <1>1, <1>2, <1>3, <1>4, <1>5, <1>6, <1>7, <1>8, <1>9, <1>10 DEF Next

-----------------------------------------------------------------------------
(* What a step does to the registry.                                       *)

LEMMA RewriteKeys ==
    ASSUME TypeOK, AgentInv, NEW p \in Procs, Rewrites(p)
    PROVE  /\ UNCHANGED <<idx, loaded, promoted>>
           /\ \A q \in Procs, b \in Agents :
                 (reg'[q][b] # Absent <=> reg[q][b] # Absent) /\ reg'[q][b].key = reg[q][b].key
           /\ \A b \in Agents :
                 (regRows'[b] # Absent <=> regRows[b] # Absent) /\ regRows'[b].key = regRows[b].key
<1>1. PICK a \in Agents, r \in Agent \ {Absent} :
        /\ SaveAgent(p, a, r) /\ reg[p][a] # Absent /\ r.key = reg[p][a].key
        /\ UNCHANGED <<idx, loaded, promoted>>
  BY DEF Rewrites
<1>2. regRows[a] # Absent /\ regRows[a].key = reg[p][a].key
  BY <1>1 DEF AgentInv
<1>3. /\ reg'[p][a] = r /\ regRows'[a] = r /\ r # Absent
      /\ \A q \in Procs, b \in Agents : q # p \/ b # a => reg'[q][b] = reg[q][b]
      /\ \A b \in Agents : b # a => regRows'[b] = regRows[b]
  BY <1>1, SavePointwise
<1>4. QED
  BY <1>1, <1>2, <1>3

LEMMA RegisterKeys ==
    ASSUME TypeOK, AgentInv, NEW p \in Procs, NEW k \in Keys, Registers(p, k)
    PROVE  \E a \in Agents :
              /\ regRows[a] = Absent /\ regRows'[a] # Absent /\ regRows'[a].key = k
              /\ \A b \in Agents : b # a => regRows'[b] = regRows[b]
              /\ \A q \in Procs : reg[q][a] = Absent
              /\ reg'[p][a] # Absent /\ reg'[p][a].key = k
              /\ \A q \in Procs, b \in Agents : q # p \/ b # a => reg'[q][b] = reg[q][b]
              /\ idx'[p][k] = a
              /\ \A q \in Procs, j \in Keys : q # p \/ j # k => idx'[q][j] = idx[q][j]
              /\ Known(p)' = Known(p) \union {a} /\ promoted'[p] = promoted[p] \union {a}
              /\ \A q \in Procs : q # p => Known(q)' = Known(q) /\ promoted'[q] = promoted[q]
<1>1. PICK a \in Agents, r \in Agent \ {Absent} :
        /\ SaveAgent(p, a, r) /\ regRows[a] = Absent /\ r.key = k /\ Link(p, k, a)
        /\ loaded' = loaded /\ promoted' = [promoted EXCEPT ![p] = @ \union {a}]
  BY DEF Registers
<1>2. \A q \in Procs : reg[q][a] = Absent
  BY <1>1 DEF AgentInv
<1>3. /\ reg'[p][a] = r /\ regRows'[a] = r /\ r # Absent
      /\ \A q \in Procs, b \in Agents : q # p \/ b # a => reg'[q][b] = reg[q][b]
      /\ \A b \in Agents : b # a => regRows'[b] = regRows[b]
  BY <1>1, SavePointwise
<1>4. idx'[p][k] = a /\ \A q \in Procs, j \in Keys : q # p \/ j # k => idx'[q][j] = idx[q][j]
  BY <1>1 DEF Link, TypeOK
<1>5. /\ Known(p)' = Known(p) \union {a} /\ promoted'[p] = promoted[p] \union {a}
      /\ \A q \in Procs : q # p => Known(q)' = Known(q) /\ promoted'[q] = promoted[q]
  BY <1>1 DEF Known, TypeOK
<1>6. QED
  BY <1>1, <1>2, <1>3, <1>4, <1>5

LEMMA EnrolKeys ==
    ASSUME TypeOK, AgentInv, NEW p \in Procs, Enrols(p)
    PROVE  /\ UNCHANGED <<idx, loaded, promoted>>
           /\ \E a \in Agents :
                 /\ regRows[a] = Absent /\ regRows'[a] # Absent
                 /\ \A b \in Agents : b # a => regRows'[b] = regRows[b]
                 /\ \A q \in Procs : reg[q][a] = Absent
                 /\ reg'[p][a] # Absent /\ reg'[p][a].key = regRows'[a].key
                 /\ \A q \in Procs, b \in Agents : q # p \/ b # a => reg'[q][b] = reg[q][b]
<1>1. PICK a \in Agents, r \in Agent \ {Absent} :
        SaveAgent(p, a, r) /\ regRows[a] = Absent /\ UNCHANGED <<idx, loaded, promoted>>
  BY DEF Enrols
<1>2. \A q \in Procs : reg[q][a] = Absent
  BY <1>1 DEF AgentInv
<1>3. /\ reg'[p][a] = r /\ regRows'[a] = r /\ r # Absent
      /\ \A q \in Procs, b \in Agents : q # p \/ b # a => reg'[q][b] = reg[q][b]
      /\ \A b \in Agents : b # a => regRows'[b] = regRows[b]
  BY <1>1, SavePointwise
<1>4. QED
  BY <1>1, <1>2, <1>3

LEMMA ResyncKeys ==
    ASSUME TypeOK, NEW p \in Procs, Resync(p)
    PROVE  /\ UNCHANGED <<regRows, idx, loaded, promoted>> /\ reg'[p] = regRows
           /\ \A q \in Procs : q # p => reg'[q] = reg[q]
BY DEF Resync, TypeOK

LEMMA RestartRegistry ==
    ASSUME TypeOK, NEW p \in Procs, Restart(p)
    PROVE  /\ regRows' = regRows /\ reg'[p] = regRows
           /\ \A q \in Procs : q # p => reg'[q] = reg[q] /\ idx'[q] = idx[q]
           /\ \A k \in Keys : idx'[p][k] # NoAgent =>
                 idx'[p][k] \in Agents /\ regRows[idx'[p][k]].key = k
           /\ \A a \in Agents : regRows[a].key \in Keys => idx'[p][regRows[a].key] # NoAgent
           /\ Known(p)' = Born /\ promoted'[p] = {}
           /\ \A q \in Procs : q # p =>
                 Known(q)' = Known(q) /\ promoted'[q] = promoted[q] /\ raced'[q] = raced[q]
<1>1. PICK i \in [Keys -> Agents \union {NoAgent}] :
        /\ \A k \in Keys :
              LET known == {a \in Agents : regRows[a].key = k} IN
              IF known = {} THEN i[k] = NoAgent ELSE i[k] \in known
        /\ idx' = [idx EXCEPT ![p] = i]
  BY DEF Restart
<1>2. idx'[p] = i /\ \A q \in Procs : q # p => idx'[q] = idx[q]
  BY <1>1 DEF TypeOK
<1>3. ASSUME NEW k \in Keys, i[k] # NoAgent PROVE i[k] \in Agents /\ regRows[i[k]].key = k
  BY <1>1, <1>3
<1>4. ASSUME NEW a \in Agents, regRows[a].key \in Keys PROVE i[regRows[a].key] # NoAgent
  <2>1. a \in {b \in Agents : regRows[b].key = regRows[a].key}
    OBVIOUS
  <2>2. i[regRows[a].key] \in {b \in Agents : regRows[b].key = regRows[a].key}
    BY <1>1, <1>4, <2>1
  <2>3. QED
    BY <2>2, Constants
<1>5. reg'[p] = regRows /\ regRows' = regRows /\ \A q \in Procs : q # p => reg'[q] = reg[q]
  BY DEF Restart, TypeOK
<1>6. /\ loaded'[p] = Born /\ promoted'[p] = {}
      /\ \A q \in Procs : q # p =>
            loaded'[q] = loaded[q] /\ promoted'[q] = promoted[q] /\ raced'[q] = raced[q]
  BY DEF Restart, TypeOK
<1>7. QED
  BY <1>2, <1>3, <1>4, <1>5, <1>6 DEF Known

LEMMA RegistryStep ==
    ASSUME TypeOK, AgentInv, LookInv, [Next]_vars
    PROVE  \/ UNCHANGED <<reg, regRows, idx, loaded, promoted>>
           \/ \E p \in Procs : Rewrites(p)
           \/ \E s \in Scans : /\ Apply(s) /\ scan[s].action = "registered"
                               /\ Registers(scan[s].proc, scan[s].cand.key)
           \/ \E p \in Procs : Enrols(p) \/ Resync(p) \/ Restart(p)
<1>1. ASSUME NEW s \in Scans, NEW p \in Procs, Begin(s, p) PROVE UNCHANGED <<reg, regRows, idx, loaded, promoted>>
  BY <1>1 DEF Begin
<1>2. ASSUME NEW s \in Scans, NEW cand \in Candidates, Look(s, cand)
      PROVE  UNCHANGED <<reg, regRows, idx, loaded, promoted>>
  BY <1>2 DEF Look
<1>3. ASSUME NEW s \in Scans, Apply(s)
      PROVE  \/ UNCHANGED <<reg, regRows, idx, loaded, promoted>>
             \/ \E p \in Procs : Rewrites(p)
             \/ /\ Apply(s) /\ scan[s].action = "registered"
                /\ Registers(scan[s].proc, scan[s].cand.key)
  <2>1. scan[s].proc \in Procs
    BY <1>3, ApplyScan
  <2>2. QED
    BY <1>3, <2>1, ApplyRegistry
<1>4. ASSUME NEW s \in Scans, AppendEntry(s) PROVE UNCHANGED <<reg, regRows, idx, loaded, promoted>>
  BY <1>4 DEF AppendEntry
<1>5. ASSUME NEW s \in Scans, Finish(s) PROVE UNCHANGED <<reg, regRows, idx, loaded, promoted>>
  BY <1>5 DEF Finish
<1>6. ASSUME NEW p \in Procs, NEW x \in pending[p], ReplayOne(p, x)
      PROVE  UNCHANGED <<reg, regRows, idx, loaded, promoted>>
  BY <1>6 DEF ReplayOne
<1>7. ASSUME NEW p \in Procs, NEW a \in Agents, Revoke(p, a) PROVE Rewrites(p)
  BY <1>7, RevokeRegistry
<1>8. CASE UNCHANGED vars
  BY <1>8 DEF vars
<1>9. ASSUME NEW p \in Procs, NEW m \in Manual, Register(p, m) PROVE Enrols(p)
  BY <1>9, EnrolRegistry
<1>10. QED
  BY <1>1, <1>2, <1>3, <1>4, <1>5, <1>6, <1>7, <1>8, <1>9 DEF Next

LEMMA AgentStep ==
    ASSUME TypeOK, TypeOK', AgentInv, LookInv, [Next]_vars
    PROVE  AgentInv'
<1>0. /\ \A r \in Agent : r # Absent => r.key \in Keys
      /\ \A q \in Procs : Known(q) \subseteq Agents
      /\ \A q \in Procs, k \in Keys : idx[q][k] \in Agents \union {NoAgent}
      /\ \A a \in Agents : regRows[a] \in Agent
  BY AgentParts DEF TypeOK, Known
<1>1. CASE UNCHANGED <<reg, regRows, idx, loaded, promoted>>
  BY <1>1 DEF AgentInv, Known
<1>2. ASSUME NEW p \in Procs, Rewrites(p) PROVE AgentInv'
  <2>1. /\ UNCHANGED <<idx, loaded, promoted>>
        /\ \A q \in Procs, b \in Agents :
              (reg'[q][b] # Absent <=> reg[q][b] # Absent) /\ reg'[q][b].key = reg[q][b].key
        /\ \A b \in Agents :
              (regRows'[b] # Absent <=> regRows[b] # Absent) /\ regRows'[b].key = regRows[b].key
    BY <1>2, RewriteKeys
  <2>2. \A q \in Procs : Known(q)' = Known(q)
    BY <2>1 DEF Known
  <2>3. QED
    BY <1>0, <2>1, <2>2 DEF AgentInv
<1>3. ASSUME NEW s \in Scans, Apply(s), Registers(scan[s].proc, scan[s].cand.key) PROVE AgentInv'
  <2>1. PICK p \in Procs, k \in Keys : p = scan[s].proc /\ k = scan[s].cand.key
    BY <1>3, ApplyScan, Constants
  <2>2. PICK a \in Agents :
              /\ regRows[a] = Absent /\ regRows'[a] # Absent /\ regRows'[a].key = k
              /\ \A b \in Agents : b # a => regRows'[b] = regRows[b]
              /\ \A q \in Procs : reg[q][a] = Absent
              /\ reg'[p][a] # Absent /\ reg'[p][a].key = k
              /\ \A q \in Procs, b \in Agents : q # p \/ b # a => reg'[q][b] = reg[q][b]
              /\ idx'[p][k] = a
              /\ \A q \in Procs, j \in Keys : q # p \/ j # k => idx'[q][j] = idx[q][j]
              /\ Known(p)' = Known(p) \union {a}
              /\ \A q \in Procs : q # p => Known(q)' = Known(q)
    BY <1>3, <2>1, RegisterKeys
  <2>3. a # NoAgent
    BY Constants
  <2>4. ASSUME NEW q \in Procs, NEW b \in Agents, reg'[q][b] # Absent
        PROVE  regRows'[b] # Absent /\ regRows'[b].key = reg'[q][b].key
    <3>1. CASE q = p /\ b = a
      BY <2>2, <3>1
    <3>2. CASE ~(q = p /\ b = a)
      <4>1. reg'[q][b] = reg[q][b]
        BY <2>2, <3>2
      <4>2. b # a /\ regRows[b] # Absent /\ regRows[b].key = reg[q][b].key
        BY <2>2, <2>4, <4>1 DEF AgentInv
      <4>3. QED
        BY <2>2, <4>1, <4>2
    <3>3. QED
      BY <3>1, <3>2
  <2>5. ASSUME NEW q \in Procs, NEW j \in Keys, idx'[q][j] # NoAgent
        PROVE  reg'[q][idx'[q][j]] # Absent /\ reg'[q][idx'[q][j]].key = j
    <3>1. CASE q = p /\ j = k
      BY <2>2, <3>1
    <3>2. CASE ~(q = p /\ j = k)
      <4>1. idx'[q][j] = idx[q][j] /\ idx[q][j] \in Agents
        BY <2>2, <2>5, <3>2 DEF TypeOK
      <4>2. reg[q][idx[q][j]] # Absent /\ reg[q][idx[q][j]].key = j
        BY <2>5, <4>1 DEF AgentInv
      <4>3. idx[q][j] # a
        BY <2>2, <4>2
      <4>4. QED
        BY <2>2, <4>1, <4>2, <4>3
    <3>3. QED
      BY <3>1, <3>2
  <2>6. ASSUME NEW q \in Procs, NEW b \in Known(q)'
        PROVE  regRows'[b] # Absent /\ idx'[q][regRows'[b].key] # NoAgent
    <3>1. CASE q = p /\ b = a
      BY <2>2, <2>3, <3>1
    <3>2. CASE ~(q = p /\ b = a)
      <4>1. b \in Known(q) /\ b \in Agents
        BY <1>0, <2>2, <3>2
      <4>2. regRows[b] # Absent /\ idx[q][regRows[b].key] # NoAgent
        BY <4>1 DEF AgentInv
      <4>3. regRows'[b] = regRows[b] /\ regRows[b].key \in Keys
        BY <1>0, <2>2, <4>1, <4>2
      <4>4. idx'[q][regRows[b].key] # NoAgent
        BY <2>1, <2>2, <2>3, <4>2, <4>3
      <4>5. QED
        BY <4>2, <4>3, <4>4
    <3>3. QED
      BY <3>1, <3>2
  <2>7. QED
    BY <2>4, <2>5, <2>6 DEF AgentInv
<1>4. ASSUME NEW p \in Procs, Restart(p) PROVE AgentInv'
  <2>1. /\ regRows' = regRows /\ reg'[p] = regRows
        /\ \A q \in Procs : q # p => reg'[q] = reg[q] /\ idx'[q] = idx[q]
        /\ \A k \in Keys : idx'[p][k] # NoAgent =>
              idx'[p][k] \in Agents /\ regRows[idx'[p][k]].key = k
        /\ \A a \in Agents : regRows[a].key \in Keys => idx'[p][regRows[a].key] # NoAgent
        /\ Known(p)' = Born
        /\ \A q \in Procs : q # p => Known(q)' = Known(q)
    BY <1>4, RestartRegistry
  <2>2. \A a \in Agents : regRows[a] # Absent <=> regRows[a].key \in Keys
    BY <1>0, Constants
  <2>3. ASSUME NEW q \in Procs, NEW b \in Agents, reg'[q][b] # Absent
        PROVE  regRows'[b] # Absent /\ regRows'[b].key = reg'[q][b].key
    <3>1. CASE q = p
      BY <2>1, <2>3, <3>1
    <3>2. CASE q # p
      BY <2>1, <2>3, <3>2 DEF AgentInv
    <3>3. QED
      BY <3>1, <3>2
  <2>4. ASSUME NEW q \in Procs, NEW j \in Keys, idx'[q][j] # NoAgent
        PROVE  reg'[q][idx'[q][j]] # Absent /\ reg'[q][idx'[q][j]].key = j
    <3>1. CASE q = p
      BY <2>1, <2>2, <2>4, <3>1
    <3>2. CASE q # p
      BY <2>1, <2>4, <3>2 DEF AgentInv
    <3>3. QED
      BY <3>1, <3>2
  <2>5. ASSUME NEW q \in Procs, NEW b \in Known(q)'
        PROVE  regRows'[b] # Absent /\ idx'[q][regRows'[b].key] # NoAgent
    <3>1. CASE q = p
      BY <2>1, <2>2, <3>1 DEF Born
    <3>2. CASE q # p
      BY <2>1, <3>2 DEF AgentInv
    <3>3. QED
      BY <3>1, <3>2
  <2>6. QED
    BY <2>3, <2>4, <2>5 DEF AgentInv
<1>5. ASSUME NEW p \in Procs, Enrols(p) PROVE AgentInv'
  <2>1. UNCHANGED <<idx, loaded, promoted>> /\ \A q \in Procs : Known(q)' = Known(q)
    BY <1>5, EnrolKeys DEF Known
  <2>2. PICK a \in Agents :
              /\ regRows[a] = Absent /\ regRows'[a] # Absent
              /\ \A b \in Agents : b # a => regRows'[b] = regRows[b]
              /\ \A q \in Procs : reg[q][a] = Absent
              /\ reg'[p][a] # Absent /\ reg'[p][a].key = regRows'[a].key
              /\ \A q \in Procs, b \in Agents : q # p \/ b # a => reg'[q][b] = reg[q][b]
    BY <1>5, EnrolKeys
  <2>3. ASSUME NEW q \in Procs, NEW b \in Agents, reg'[q][b] # Absent
        PROVE  regRows'[b] # Absent /\ regRows'[b].key = reg'[q][b].key
    BY <2>2, <2>3 DEF AgentInv
  <2>4. ASSUME NEW q \in Procs, NEW j \in Keys, idx'[q][j] # NoAgent
        PROVE  reg'[q][idx'[q][j]] # Absent /\ reg'[q][idx'[q][j]].key = j
    <3>1. idx[q][j] \in Agents /\ idx'[q][j] = idx[q][j]
      BY <1>0, <2>1, <2>4
    <3>2. reg[q][idx[q][j]] # Absent /\ reg[q][idx[q][j]].key = j
      BY <2>4, <3>1 DEF AgentInv
    <3>3. QED
      BY <2>2, <3>1, <3>2
  <2>5. ASSUME NEW q \in Procs, NEW b \in Known(q)'
        PROVE  regRows'[b] # Absent /\ idx'[q][regRows'[b].key] # NoAgent
    BY <1>0, <2>1, <2>2 DEF AgentInv
  <2>6. QED
    BY <2>3, <2>4, <2>5 DEF AgentInv
<1>6. ASSUME NEW p \in Procs, Resync(p) PROVE AgentInv'
  <2>1. /\ UNCHANGED <<regRows, idx, loaded, promoted>> /\ reg'[p] = regRows
        /\ \A q \in Procs : q # p => reg'[q] = reg[q]
    BY <1>6, ResyncKeys
  <2>2. \A q \in Procs : Known(q)' = Known(q)
    BY <2>1 DEF Known
  <2>3. ASSUME NEW q \in Procs, NEW j \in Keys, idx'[q][j] # NoAgent
        PROVE  reg'[q][idx'[q][j]] # Absent /\ reg'[q][idx'[q][j]].key = j
    <3>1. idx[q][j] \in Agents /\ idx'[q][j] = idx[q][j]
      BY <1>0, <2>1, <2>3
    <3>2. reg[q][idx[q][j]] # Absent /\ reg[q][idx[q][j]].key = j
      BY <2>3, <3>1 DEF AgentInv
    <3>3. regRows[idx[q][j]] # Absent /\ regRows[idx[q][j]].key = j
      BY <3>1, <3>2 DEF AgentInv
    <3>4. QED
      BY <2>1, <3>1, <3>2, <3>3
  <2>4. ASSUME NEW q \in Procs, NEW b \in Agents, reg'[q][b] # Absent
        PROVE  regRows'[b] # Absent /\ regRows'[b].key = reg'[q][b].key
    BY <2>1, <2>4 DEF AgentInv
  <2>5. QED
    BY <2>1, <2>2, <2>3, <2>4 DEF AgentInv
<1>7. QED
  BY <1>1, <1>2, <1>3, <1>4, <1>5, <1>6, RegistryStep

-----------------------------------------------------------------------------
(* What the scans know of the registry.                                    *)

\* Process q loses no agent and no key of one.
AgentsKept(q) ==
    \A b \in Agents : reg[q][b] # Absent => reg'[q][b] # Absent /\ reg'[q][b].key = reg[q][b].key

LookAt(s) ==
    /\ scan[s].pc \in {"running", "decided", "applied", "done"} => scan[s].proc \in Procs
    /\ scan[s].pc \in {"decided", "applied"} =>
          scan[s].cand \in Candidates /\ scan[s].action \in Actions
    /\ scan[s].pc = "decided" /\ scan[s].action \in {"updated", "quarantined"} =>
          /\ scan[s].agent \in Agents
          /\ reg[scan[s].proc][scan[s].agent] # Absent
          /\ reg[scan[s].proc][scan[s].agent].key = scan[s].cand.key
          /\ scan[s].copy # Absent
          /\ scan[s].copy.key = scan[s].cand.key

LEMMA LookParts == LookInv <=> \A s \in Scans : LookAt(s)
BY DEF LookInv, LookAt

LEMMA LookFrame ==
    ASSUME NEW t \in Scans, LookAt(t), scan'[t] = scan[t],
           scan[t].proc \in Procs => AgentsKept(scan[t].proc)
    PROVE  LookAt(t)'
BY DEF LookAt, AgentsKept

LEMMA KeptStep ==
    ASSUME TypeOK, AgentInv, LookInv, [Next]_vars
    PROVE  \/ \A q \in Procs : AgentsKept(q)
           \/ \E p \in Procs : Restart(p) /\ \A q \in Procs : q # p => AgentsKept(q)
<1>1. CASE UNCHANGED <<reg, regRows, idx, loaded, promoted>>
  BY <1>1 DEF AgentsKept
<1>2. ASSUME NEW p \in Procs, Rewrites(p), NEW q \in Procs PROVE AgentsKept(q)
  BY <1>2, RewriteKeys DEF AgentsKept
<1>3. ASSUME NEW s \in Scans, Apply(s), Registers(scan[s].proc, scan[s].cand.key),
             NEW q \in Procs
      PROVE  AgentsKept(q)
  <2>1. scan[s].proc \in Procs /\ scan[s].cand.key \in Keys
    BY <1>3, ApplyScan, Constants
  <2>2. PICK a \in Agents :
              /\ \A r \in Procs : reg[r][a] = Absent
              /\ \A r \in Procs, b \in Agents :
                    r # scan[s].proc \/ b # a => reg'[r][b] = reg[r][b]
    BY <1>3, <2>1, RegisterKeys
  <2>3. QED
    BY <2>2 DEF AgentsKept
<1>4. ASSUME NEW p \in Procs, Restart(p), NEW q \in Procs, q # p PROVE AgentsKept(q)
  BY <1>4, RestartRegistry DEF AgentsKept
<1>5. ASSUME NEW p \in Procs, Enrols(p), NEW q \in Procs PROVE AgentsKept(q)
  <2>1. PICK a \in Agents :
              /\ \A r \in Procs : reg[r][a] = Absent
              /\ \A r \in Procs, b \in Agents : r # p \/ b # a => reg'[r][b] = reg[r][b]
    BY <1>5, EnrolKeys
  <2>2. QED
    BY <2>1 DEF AgentsKept
<1>6. ASSUME NEW p \in Procs, Resync(p), NEW q \in Procs PROVE AgentsKept(q)
  BY <1>6, ResyncKeys DEF AgentsKept, AgentInv
<1>7. QED
  BY <1>1, <1>2, <1>3, <1>4, <1>5, <1>6, RegistryStep

LEMMA LookStep ==
    ASSUME TypeOK, AgentInv, LookInv, [Next]_vars
    PROVE  LookInv'
<1> SUFFICES ASSUME NEW t \in Scans PROVE LookAt(t)'
  BY LookParts DEF LookInv, LookAt
<1>1. LookAt(t)
  BY LookParts
<1>2. ASSUME scan'[t] = scan[t], ~\E p \in Procs : Restart(p) PROVE LookAt(t)'
  BY <1>1, <1>2, LookFrame, KeptStep
<1>3. ASSUME NEW p \in Procs, Restart(p) PROVE LookAt(t)'
  <2>1. CASE scan[t].proc = p
    <3>1. scan'[t].pc = "gone"
      BY <1>3, <2>1, RestartScan
    <3>2. QED
      BY <3>1 DEF LookAt
  <2>2. CASE scan[t].proc # p
    <3>1. scan'[t] = scan[t]
      BY <1>3, <2>2, RestartScan
    <3>2. scan[t].proc \in Procs => AgentsKept(scan[t].proc)
      BY <1>3, <2>2, RestartRegistry DEF AgentsKept
    <3>3. QED
      BY <1>1, <3>1, <3>2, LookFrame
  <2>3. QED
    BY <2>1, <2>2
<1>4. ASSUME scan'[t].pc \in {"running", "applied", "done"}, scan'[t].proc \in Procs,
             scan'[t].pc = "applied" => scan'[t].cand \in Candidates /\ scan'[t].action \in Actions
      PROVE  LookAt(t)'
  BY <1>4 DEF LookAt
<1>5. ASSUME NEW s \in Scans, NEW p \in Procs, Begin(s, p), t = s PROVE LookAt(t)'
  BY <1>4, <1>5, BeginScan
<1>6. ASSUME NEW s \in Scans, NEW cand \in Candidates, Look(s, cand), t = s PROVE LookAt(t)'
  <2> DEFINE p == scan[s].proc
             agent == idx[p][cand.key]
  <2>1. /\ p \in Procs /\ cand.key \in Keys
        /\ scan'[s].pc = "decided" /\ scan'[s].proc = p /\ scan'[s].cand = cand
        /\ scan'[s].agent = agent /\ scan'[s].action \in Actions
        /\ scan'[s].action \in {"updated", "quarantined"} =>
                 agent \in Agents /\ scan'[s].copy = reg[p][agent] /\ scan'[s].copy # Absent
    BY <1>6, LookScan
  <2>2. reg' = reg
    BY <1>6 DEF Look
  <2>3. agent # NoAgent => reg[p][agent].key = cand.key
    BY <2>1 DEF AgentInv
  <2> HIDE DEF p, agent
  <2>4. agent \in Agents => agent # NoAgent
    BY Constants
  <2>5. QED
    BY <1>6, <2>1, <2>2, <2>3, <2>4 DEF LookAt
<1>7. ASSUME NEW s \in Scans, Apply(s), t = s PROVE LookAt(t)'
  BY <1>4, <1>7, ApplyScan
<1>8. ASSUME NEW s \in Scans, AppendEntry(s), t = s PROVE LookAt(t)'
  BY <1>4, <1>8, AppendScan
<1>9. ASSUME NEW s \in Scans, Finish(s), t = s PROVE LookAt(t)'
  BY <1>4, <1>9, FinishScan
<1>10. ASSUME NEW s \in Scans, t # s,
              \/ \E p \in Procs : Begin(s, p)
              \/ \E cand \in Candidates : Look(s, cand)
              \/ Apply(s) \/ AppendEntry(s) \/ Finish(s)
       PROVE  scan'[t] = scan[t]
  BY <1>10, BeginScan, LookScan, ApplyScan, AppendScan, FinishScan
<1>11. ASSUME \/ \E p \in Procs, x \in UNION {pending[q] : q \in Procs} : ReplayOne(p, x)
              \/ \E p \in Procs, a \in Agents : Revoke(p, a)
              \/ \E p \in Procs, m \in Manual : Register(p, m)
              \/ \E p \in Procs : Resync(p)
              \/ UNCHANGED vars
       PROVE  scan'[t] = scan[t]
  BY <1>11 DEF ReplayOne, Revoke, Register, Resync, vars
<1>12. QED
  BY <1>2, <1>3, <1>5, <1>6, <1>7, <1>8, <1>9, <1>10, <1>11 DEF Next

-----------------------------------------------------------------------------
(* Two scans at one key.                                                   *)

RowKeysKept ==
    \A b \in Agents : regRows[b] # Absent => regRows'[b].key = regRows[b].key

\* What process q knows is as before, and no race is forgotten.
KnowledgeKept(q) ==
    Known(q)' = Known(q) /\ promoted'[q] = promoted[q] /\ raced[q] \subseteq raced'[q]

LEMMA KnownRows ==
    ASSUME TypeOK, AgentInv, NEW p \in Procs
    PROVE  /\ promoted[p] \subseteq Known(p)
           /\ \A a \in Known(p) : a \in Agents /\ regRows[a] # Absent
BY DEF TypeOK, AgentInv, Known

LEMMA RaceFrame ==
    ASSUME TypeOK, AgentInv, LookInv, RaceInv, RowKeysKept,
           \A q \in Procs : KnowledgeKept(q),
           \A t \in Scans : scan'[t].pc = "decided" => scan'[t] = scan[t]
    PROVE  RaceInv'
<1>1. ASSUME NEW p \in Procs, NEW a \in Known(p)', NEW b \in promoted'[p], a # b,
             regRows'[a].key = regRows'[b].key
      PROVE  regRows'[b].key \in raced'[p]
  <2>1. a \in Known(p) /\ b \in promoted[p] /\ raced[p] \subseteq raced'[p]
    BY DEF KnowledgeKept
  <2>2. regRows'[a].key = regRows[a].key /\ regRows'[b].key = regRows[b].key
    BY <2>1, KnownRows DEF RowKeysKept
  <2>3. QED
    BY <1>1, <2>1, <2>2 DEF RaceInv, OneAgentPerKey
<1>2. ASSUME NEW s \in Scans, NEW t \in Scans, s # t,
             scan'[s].pc = "decided", scan'[t].pc = "decided",
             NEW o \in Procs, scan'[s].proc = o, scan'[t].proc = o,
             scan'[s].cand.key = scan'[t].cand.key
      PROVE  scan'[s].cand.key \in raced'[o]
  <2>1. scan'[s] = scan[s] /\ scan'[t] = scan[t] /\ scan[s].proc \in Procs
    BY <1>2 DEF LookInv
  <2>2. QED
    BY <1>2, <2>1 DEF RaceInv, KnowledgeKept
<1>3. ASSUME NEW s \in Scans, scan'[s].pc = "decided", scan'[s].action = "registered",
             NEW o \in Procs, scan'[s].proc = o, NEW a \in Known(o)',
             regRows'[a].key = scan'[s].cand.key
      PROVE  scan'[s].cand.key \in raced'[o]
  <2>1. scan'[s] = scan[s] /\ scan[s].proc \in Procs
    BY <1>3 DEF LookInv
  <2>2. a \in Known(o)
    BY <1>3 DEF KnowledgeKept
  <2>3. regRows'[a].key = regRows[a].key
    BY <2>1, <2>2, KnownRows DEF RowKeysKept
  <2>4. QED
    BY <1>3, <2>1, <2>2, <2>3 DEF RaceInv, KnowledgeKept
<1>4. QED
  BY <1>1, <1>2, <1>3 DEF RaceInv, OneAgentPerKey

LEMMA LookRaces ==
    ASSUME TypeOK, AgentInv, LookInv, RaceInv,
           NEW s \in Scans, NEW cand \in Candidates, Look(s, cand)
    PROVE  RaceInv'
<1> DEFINE p == scan[s].proc
           k == cand.key
<1>1. /\ p \in Procs /\ k \in Keys
      /\ scan'[s].pc = "decided" /\ scan'[s].cand = cand /\ scan'[s].proc = p
      /\ scan'[s].action = "registered" => idx[p][k] = NoAgent
      /\ \A t \in Scans : t # s => scan'[t] = scan[t]
  BY LookScan
<1>2. /\ Overlaps(s, k) => k \in raced'[p]
      /\ \A q \in Procs : raced[q] \subseteq raced'[q]
  BY <1>1 DEF Look, TypeOK
<1>3. UNCHANGED <<regRows, loaded, promoted>> /\ \A q \in Procs : Known(q)' = Known(q)
  BY DEF Look, Known
<1>4. ASSUME NEW t \in Scans, t # s, scan[t].pc = "decided", scan[t].proc = p,
             scan[t].cand.key = k
      PROVE  k \in raced'[p]
  BY <1>2, <1>4 DEF Overlaps
<1>5. ASSUME NEW a \in Known(p), regRows[a].key = k PROVE idx[p][k] # NoAgent
  BY <1>1, <1>5 DEF AgentInv
<1> HIDE DEF p, k
<1>6. ASSUME NEW t \in Scans, NEW u \in Scans, t # u,
             scan'[t].pc = "decided", scan'[u].pc = "decided",
             NEW o \in Procs, scan'[t].proc = o, scan'[u].proc = o,
             scan'[t].cand.key = scan'[u].cand.key
      PROVE  scan'[t].cand.key \in raced'[o]
  <2>1. CASE t = s
    BY <1>1, <1>4, <1>6, <2>1 DEF k
  <2>2. CASE u = s
    BY <1>1, <1>4, <1>6, <2>2 DEF k
  <2>3. CASE t # s /\ u # s
    <3>1. scan'[t] = scan[t] /\ scan'[u] = scan[u] /\ scan[t].proc \in Procs
      BY <1>1, <1>6, <2>3 DEF LookInv
    <3>2. QED
      BY <1>2, <1>6, <3>1 DEF RaceInv
  <2>4. QED
    BY <2>1, <2>2, <2>3
<1>7. ASSUME NEW t \in Scans, scan'[t].pc = "decided", scan'[t].action = "registered",
             NEW o \in Procs, scan'[t].proc = o, NEW a \in Known(o)',
             regRows'[a].key = scan'[t].cand.key
      PROVE  scan'[t].cand.key \in raced'[o]
  <2>1. CASE t = s
    <3>1. a \in Known(p) /\ o = p
      BY <1>1, <1>3, <1>7, <2>1
    <3>2. QED
      BY <1>1, <1>3, <1>5, <1>7, <2>1, <3>1 DEF k
  <2>2. CASE t # s
    <3>1. scan'[t] = scan[t] /\ scan[t].proc \in Procs
      BY <1>1, <1>7, <2>2 DEF LookInv
    <3>2. a \in Known(o)
      BY <1>3, <1>7
    <3>3. QED
      BY <1>2, <1>3, <1>7, <3>1, <3>2 DEF RaceInv
  <2>3. QED
    BY <2>1, <2>2
<1>8. ASSUME NEW q \in Procs, NEW a \in Known(q)', NEW b \in promoted'[q], a # b,
             regRows'[a].key = regRows'[b].key
      PROVE  regRows'[b].key \in raced'[q]
  BY <1>2, <1>3, <1>8 DEF RaceInv, OneAgentPerKey
<1>9. QED
  BY <1>6, <1>7, <1>8 DEF RaceInv, OneAgentPerKey

LEMMA RegisterRaces ==
    ASSUME TypeOK, AgentInv, LookInv, RaceInv, NEW s \in Scans, Apply(s),
           scan[s].action = "registered", Registers(scan[s].proc, scan[s].cand.key)
    PROVE  RaceInv'
<1>1. PICK p \in Procs, k \in Keys :
         /\ p = scan[s].proc /\ k = scan[s].cand.key /\ scan[s].pc = "decided"
         /\ scan'[s].pc = "applied" /\ \A t \in Scans : t # s => scan'[t] = scan[t]
  BY ApplyScan, Constants
<1>2. PICK a \in Agents :
         /\ regRows[a] = Absent /\ regRows'[a] # Absent /\ regRows'[a].key = k
         /\ \A b \in Agents : b # a => regRows'[b] = regRows[b]
         /\ Known(p)' = Known(p) \union {a} /\ promoted'[p] = promoted[p] \union {a}
         /\ \A q \in Procs : q # p => Known(q)' = Known(q) /\ promoted'[q] = promoted[q]
  BY <1>1, RegisterKeys
<1>3. raced' = raced
  BY DEF Apply
<1>4. \A b \in Known(p) : regRows[b].key = k => k \in raced[p]
  BY <1>1 DEF RaceInv
<1>5. \A t \in Scans :
         t # s /\ scan[t].pc = "decided" /\ scan[t].proc = p /\ scan[t].cand.key = k
             => k \in raced[p]
  BY <1>1 DEF RaceInv
<1>6. \A q \in Procs : \A b \in Known(q) : b # a /\ regRows'[b] = regRows[b]
  BY <1>2, KnownRows
<1>7. \A q \in Procs : promoted[q] \subseteq Known(q)
  BY KnownRows
<1>8. ASSUME NEW q \in Procs, NEW b \in Known(q)', NEW c \in promoted'[q], b # c,
             regRows'[b].key = regRows'[c].key
      PROVE  regRows'[c].key \in raced'[q]
  <2>1. CASE q = p /\ b = a
    BY <1>2, <1>3, <1>4, <1>6, <1>7, <1>8, <2>1
  <2>2. CASE q = p /\ c = a
    BY <1>2, <1>3, <1>4, <1>6, <1>8, <2>2
  <2>3. CASE q # p \/ (b # a /\ c # a)
    <3>1. b \in Known(q) /\ c \in promoted[q]
      BY <1>2, <2>3
    <3>2. QED
      BY <1>3, <1>6, <1>7, <1>8, <3>1 DEF RaceInv, OneAgentPerKey
  <2>4. QED
    BY <2>1, <2>2, <2>3
<1>9. ASSUME NEW t \in Scans, NEW u \in Scans, t # u,
             scan'[t].pc = "decided", scan'[u].pc = "decided",
             NEW o \in Procs, scan'[t].proc = o, scan'[u].proc = o,
             scan'[t].cand.key = scan'[u].cand.key
      PROVE  scan'[t].cand.key \in raced'[o]
  BY <1>1, <1>3, <1>9 DEF RaceInv
<1>10. ASSUME NEW t \in Scans, scan'[t].pc = "decided", scan'[t].action = "registered",
              NEW o \in Procs, scan'[t].proc = o, NEW b \in Known(o)',
             regRows'[b].key = scan'[t].cand.key
       PROVE  scan'[t].cand.key \in raced'[o]
  <2>1. t # s /\ scan'[t] = scan[t]
    BY <1>1, <1>10
  <2>2. CASE o = p /\ b = a
    BY <1>2, <1>3, <1>5, <1>10, <2>1, <2>2
  <2>3. CASE ~(o = p /\ b = a)
    <3>1. b \in Known(o)
      BY <1>2, <1>10, <2>3
    <3>2. regRows'[b] = regRows[b]
      BY <1>6, <3>1
    <3>3. QED
      BY <1>3, <1>10, <2>1, <3>1, <3>2 DEF RaceInv
  <2>4. QED
    BY <2>2, <2>3
<1>11. QED
  BY <1>8, <1>9, <1>10 DEF RaceInv, OneAgentPerKey

LEMMA RestartRaces ==
    ASSUME TypeOK, AgentInv, LookInv, RaceInv, NEW p \in Procs, Restart(p)
    PROVE  RaceInv'
<1>1. /\ regRows' = regRows /\ promoted'[p] = {}
      /\ \A q \in Procs : q # p =>
            Known(q)' = Known(q) /\ promoted'[q] = promoted[q] /\ raced'[q] = raced[q]
  BY RestartRegistry
<1>2. \A t \in Scans : scan'[t].pc = "decided" =>
         scan'[t] = scan[t] /\ scan[t].proc # p /\ scan[t].proc \in Procs
  BY RestartScan DEF LookInv
<1>3. ASSUME NEW q \in Procs, NEW a \in Known(q)', NEW b \in promoted'[q], a # b,
             regRows'[a].key = regRows'[b].key
      PROVE  regRows'[b].key \in raced'[q]
  BY <1>1, <1>3 DEF RaceInv, OneAgentPerKey
<1>4. ASSUME NEW t \in Scans, NEW u \in Scans, t # u,
             scan'[t].pc = "decided", scan'[u].pc = "decided",
             NEW o \in Procs, scan'[t].proc = o, scan'[u].proc = o,
             scan'[t].cand.key = scan'[u].cand.key
      PROVE  scan'[t].cand.key \in raced'[o]
  BY <1>1, <1>2, <1>4 DEF RaceInv
<1>5. ASSUME NEW t \in Scans, scan'[t].pc = "decided", scan'[t].action = "registered",
             NEW o \in Procs, scan'[t].proc = o, NEW a \in Known(o)',
             regRows'[a].key = scan'[t].cand.key
      PROVE  scan'[t].cand.key \in raced'[o]
  <2>1. scan'[t] = scan[t] /\ scan[t].proc # p /\ scan[t].proc \in Procs
    BY <1>2, <1>5
  <2>2. o # p /\ a \in Known(o)
    BY <1>1, <1>5, <2>1
  <2>3. QED
    BY <1>1, <1>5, <2>1, <2>2 DEF RaceInv
<1>6. QED
  BY <1>3, <1>4, <1>5 DEF RaceInv, OneAgentPerKey

LEMMA RaceStep ==
    ASSUME TypeOK, AgentInv, LookInv, RaceInv, [Next]_vars
    PROVE  RaceInv'
<1>1. ASSUME UNCHANGED <<loaded, promoted, raced>>, RowKeysKept,
             \A t \in Scans : scan'[t].pc = "decided" => scan'[t] = scan[t]
      PROVE  RaceInv'
  <2>1. \A q \in Procs : KnowledgeKept(q)
    BY <1>1 DEF KnowledgeKept, Known
  <2>2. QED
    BY <1>1, <2>1, RaceFrame
<1>2. ASSUME NEW p \in Procs, Rewrites(p) \/ Enrols(p)
      PROVE  UNCHANGED <<loaded, promoted>> /\ RowKeysKept
  <2>1. CASE Rewrites(p)
    BY <2>1, RewriteKeys DEF RowKeysKept
  <2>2. CASE Enrols(p)
    BY <2>2, EnrolKeys DEF RowKeysKept
  <2>3. QED
    BY <1>2, <2>1, <2>2
<1>3. regRows' = regRows => RowKeysKept
  BY DEF RowKeysKept
<1>4. ASSUME NEW s \in Scans, NEW p \in Procs, Begin(s, p) PROVE RaceInv'
  <2>1. UNCHANGED <<loaded, promoted, raced, regRows>>
    BY <1>4 DEF Begin
  <2>2. QED
    BY <1>1, <1>3, <1>4, <2>1, BeginScan
<1>5. ASSUME NEW s \in Scans, Apply(s) PROVE RaceInv'
  <2>1. raced' = raced
    BY <1>5 DEF Apply
  <2>2. scan[s].proc \in Procs /\ \A t \in Scans : scan'[t].pc = "decided" => scan'[t] = scan[t]
    BY <1>5, ApplyScan
  <2>3. CASE Rewrites(scan[s].proc)
    BY <1>1, <1>2, <2>1, <2>2, <2>3
  <2>4. CASE UNCHANGED <<reg, regRows, idx, loaded, promoted>>
    BY <1>1, <1>3, <2>1, <2>2, <2>4
  <2>5. QED
    BY <1>5, <2>3, <2>4, ApplyRegistry, RegisterRaces
<1>6. ASSUME NEW s \in Scans, AppendEntry(s) PROVE RaceInv'
  <2>1. UNCHANGED <<loaded, promoted, raced, regRows>>
    BY <1>6 DEF AppendEntry
  <2>2. QED
    BY <1>1, <1>3, <1>6, <2>1, AppendScan
<1>7. ASSUME NEW s \in Scans, Finish(s) PROVE RaceInv'
  <2>1. UNCHANGED <<loaded, promoted, raced, regRows>>
    BY <1>7 DEF Finish
  <2>2. QED
    BY <1>1, <1>3, <1>7, <2>1, FinishScan
<1>8. ASSUME NEW p \in Procs, NEW x \in pending[p], ReplayOne(p, x) PROVE RaceInv'
  BY <1>1, <1>3, <1>8 DEF ReplayOne
<1>9. ASSUME NEW p \in Procs, NEW a \in Agents, Revoke(p, a) PROVE RaceInv'
  <2>1. raced' = raced /\ scan' = scan
    BY <1>9 DEF Revoke
  <2>2. QED
    BY <1>1, <1>2, <1>9, <2>1, RevokeRegistry
<1>10. ASSUME NEW p \in Procs, NEW m \in Manual, Register(p, m) PROVE RaceInv'
  <2>1. raced' = raced /\ scan' = scan
    BY <1>10 DEF Register
  <2>2. QED
    BY <1>1, <1>2, <1>10, <2>1, EnrolRegistry
<1>11. ASSUME NEW p \in Procs, Resync(p) PROVE RaceInv'
  BY <1>1, <1>3, <1>11 DEF Resync
<1>12. CASE UNCHANGED vars
  BY <1>1, <1>3, <1>12 DEF vars
<1>13. QED
  BY <1>4, <1>5, <1>6, <1>7, <1>8, <1>9, <1>10, <1>11, <1>12, LookRaces, RestartRaces DEF Next

-----------------------------------------------------------------------------
(* The ledgers and the table.                                              *)

LEMMA TableStep ==
    ASSUME [Next]_vars
    PROVE  \/ UNCHANGED <<made, ledger, rows, pending, disabled, outage, behind>>
           \/ \E s \in Scans : AppendEntry(s)
           \/ \E p \in Procs : \E x \in pending[p] : ReplayOne(p, x)
           \/ \E p \in Procs : Restart(p)
<1> DEFINE Kept == UNCHANGED <<made, ledger, rows, pending, disabled, outage, behind>>
<1>1. \A s \in Scans, p \in Procs : Begin(s, p) => Kept
  BY DEF Begin
<1>2. \A s \in Scans, cand \in Candidates : Look(s, cand) => Kept
  BY DEF Look
<1>3. \A s \in Scans : Apply(s) => Kept
  BY DEF Apply
<1>4. \A s \in Scans : Finish(s) => Kept
  BY DEF Finish
<1>5. \A p \in Procs, a \in Agents : Revoke(p, a) => Kept
  BY DEF Revoke
<1>6. UNCHANGED vars => Kept
  BY DEF vars
<1>7. /\ \A p \in Procs, m \in Manual : Register(p, m) => Kept
      /\ \A p \in Procs : Resync(p) => Kept
  BY DEF Register, Resync
<1> HIDE DEF Kept
<1>8. \/ Kept
      \/ \E s \in Scans : AppendEntry(s)
      \/ \E p \in Procs : \E x \in pending[p] : ReplayOne(p, x)
      \/ \E p \in Procs : Restart(p)
  BY <1>1, <1>2, <1>3, <1>4, <1>5, <1>6, <1>7 DEF Next
<1>9. QED
  BY <1>8 DEF Kept

LEMMA OrderStep ==
    ASSUME TypeOK, TypeOK', LookInv, OrderInv, [Next]_vars
    PROVE  OrderInv'
<1>1. CASE ledger' = ledger
  BY <1>1 DEF OrderInv
<1>2. ASSUME NEW s \in Scans, AppendEntry(s) PROVE OrderInv'
  <2> DEFINE p == scan[s].proc
             e == Len(made) + 1
             x == NextStored(p, e)
             l == ledger[p]
  <2>1. /\ p \in Procs /\ e \in Nat /\ x \in Stored /\ ledger'[p] = Append(l, x)
        /\ \A q \in Procs : q # p => ledger'[q] = ledger[q]
    BY <1>2, AppendLedger
  <2>2. \A i \in 1..Len(l) : l[i].n < x.n
    BY <2>1, NextIsFree
  <2>3. l \in Seq(Stored)
    BY <2>1 DEF TypeOK
  <2> HIDE DEF x, e
  <2>4. /\ Len(l) \in Nat /\ Len(Append(l, x)) = Len(l) + 1 /\ Append(l, x)[Len(l) + 1] = x
        /\ \A i \in 1..Len(l) : Append(l, x)[i] = l[i]
    BY <2>1, <2>3, LedgerAppend
  <2>5. \A i, j \in 1..Len(l) : i < j => l[i].n < l[j].n
    BY <2>1 DEF OrderInv
  <2> HIDE DEF l
  <2>6. \A i, j \in 1..(Len(l) + 1) : i < j => Append(l, x)[i].n < Append(l, x)[j].n
    <3> SUFFICES ASSUME NEW i \in 1..(Len(l) + 1), NEW j \in 1..(Len(l) + 1), i < j
                 PROVE  Append(l, x)[i].n < Append(l, x)[j].n
      OBVIOUS
    <3>1. i \in 1..Len(l) /\ Append(l, x)[i] = l[i]
      BY <2>4
    <3>2. CASE j \in 1..Len(l)
      BY <2>4, <2>5, <3>1, <3>2
    <3>3. CASE j = Len(l) + 1
      BY <2>2, <2>4, <3>1, <3>3
    <3>4. QED
      BY <2>4, <3>2, <3>3
  <2>7. ASSUME NEW q \in Procs, NEW i \in 1..Len(ledger'[q]), NEW j \in 1..Len(ledger'[q]), i < j
        PROVE  ledger'[q][i].n < ledger'[q][j].n
    <3>1. CASE q = p
      BY <2>1, <2>4, <2>6, <2>7, <3>1
    <3>2. CASE q # p
      BY <2>1, <2>7, <3>2 DEF OrderInv
    <3>3. QED
      BY <3>1, <3>2
  <2>8. QED
    BY <2>7 DEF OrderInv
<1>3. ASSUME NEW p \in Procs, Restart(p) PROVE OrderInv'
  <2>1. /\ \A q \in Procs : q # p => ledger'[q] = ledger[q]
        /\ ledger'[p] = <<>> \/ ledger'[p] \in Sorted
    BY <1>3, RestartLedger
  <2>2. \A i, j \in 1..Len(ledger'[p]) : i < j => ledger'[p][i].n < ledger'[p][j].n
    <3>1. CASE ledger'[p] = <<>>
      BY <3>1
    <3>2. CASE ledger'[p] \in Sorted
      BY <3>2, SortedRows
    <3>3. QED
      BY <2>1, <3>1, <3>2
  <2>3. QED
    BY <2>1, <2>2 DEF OrderInv
<1>4. ASSUME NEW p \in Procs, NEW x \in pending[p], ReplayOne(p, x) PROVE ledger' = ledger
  BY <1>4 DEF ReplayOne
<1>5. QED
  BY <1>1, <1>2, <1>3, <1>4, TableStep

LEMMA UniqueRows ==
    ASSUME EntriesAccounted, NEW x, RowAdded(x)
    PROVE  \A y, z \in rows' : y.n = z.n => y = z
<1>1. \A y, z \in rows : y.n = z.n => y = z
  BY DEF EntriesAccounted
<1>2. \A y \in rows : y.n # x.n
  BY DEF RowAdded, Taken
<1>3. rows' = rows \union {x}
  BY DEF RowAdded
<1>4. QED
  BY <1>1, <1>2, <1>3

LEMMA AccountedStep ==
    ASSUME TypeOK, LookInv, EntriesAccounted, [Next]_vars
    PROVE  EntriesAccounted'
<1>1. ASSUME NEW s \in Scans, AppendEntry(s) PROVE EntriesAccounted'
  <2> DEFINE p == scan[s].proc
             x == NextStored(p, Len(made) + 1)
  <2>1. /\ p \in Procs /\ x \in Stored /\ ledger'[p] = Append(ledger[p], x)
        /\ \A q \in Procs : q # p => ledger'[q] = ledger[q]
        /\ disabled' = disabled
        /\ rows' = rows \/ RowAdded(x)
        /\ pending' = pending \/ pending' = [pending EXCEPT ![p] = @ \union {x}]
        /\ disabled[p] \/ rows' = rows \union {x} \/ pending' = [pending EXCEPT ![p] = @ \union {x}]
    BY <1>1, AppendLedger DEF RowAdded
  <2> HIDE DEF x, p
  <2>2. \A q \in Procs : pending[q] \subseteq pending'[q]
    BY <2>1 DEF TypeOK
  <2>3. rows \subseteq rows'
    BY <2>1 DEF RowAdded
  <2>4. disabled[p] \/ x \in rows' \/ x \in pending'[p]
    BY <2>1 DEF TypeOK
  <2>5. ToSet(ledger'[p]) = ToSet(ledger[p]) \union {x}
    BY <2>1, LedgerAppend DEF TypeOK
  <2>6. ASSUME NEW q \in Procs, ~disabled'[q] PROVE ToSet(ledger'[q]) \subseteq rows' \union pending'[q]
    <3>1. ToSet(ledger[q]) \subseteq rows' \union pending'[q]
      BY <2>1, <2>2, <2>3, <2>6 DEF EntriesAccounted
    <3>2. QED
      BY <2>1, <2>4, <2>5, <2>6, <3>1
  <2>7. \A y, z \in rows' : y.n = z.n => y = z
    BY <2>1, UniqueRows DEF EntriesAccounted
  <2>8. QED
    BY <2>6, <2>7 DEF EntriesAccounted
<1>2. ASSUME NEW p \in Procs, NEW x \in pending[p], ReplayOne(p, x) PROVE EntriesAccounted'
  <2>1. /\ ledger' = ledger /\ disabled' = disabled
        /\ rows' = rows \/ RowAdded(x)
        /\ \/ pending' = pending
           \/ rows' = rows \union {x} /\ pending' = [pending EXCEPT ![p] = @ \ {x}]
    BY <1>2, FlushFacts DEF ReplayOne, RowAdded
  <2>2. \A q \in Procs : rows \union pending[q] \subseteq rows' \union pending'[q]
    BY <2>1 DEF TypeOK, RowAdded
  <2>3. \A y, z \in rows' : y.n = z.n => y = z
    BY <2>1, UniqueRows DEF EntriesAccounted
  <2>4. QED
    BY <2>1, <2>2, <2>3 DEF EntriesAccounted
<1>3. ASSUME NEW p \in Procs, Restart(p) PROVE EntriesAccounted'
  <2>1. /\ \A q \in Procs : q # p => ledger'[q] = ledger[q]
        /\ ledger'[p] = <<>> \/ ledger'[p] \in Sorted
    BY <1>3, RestartLedger
  <2>2. /\ rows' = rows
        /\ \A q \in Procs : q # p => pending'[q] = pending[q] /\ disabled'[q] = disabled[q]
    BY <1>3 DEF Restart, TypeOK
  <2>3. ToSet(ledger'[p]) \subseteq rows
    <3>1. CASE ledger'[p] = <<>>
      BY <3>1 DEF ToSet
    <3>2. CASE ledger'[p] \in Sorted
      BY <3>2, SortedRows
    <3>3. QED
      BY <2>1, <3>1, <3>2
  <2>4. QED
    BY <2>1, <2>2, <2>3 DEF EntriesAccounted
<1>4. CASE UNCHANGED <<made, ledger, rows, pending, disabled, outage, behind>>
  BY <1>4 DEF EntriesAccounted
<1>5. QED
  BY <1>1, <1>2, <1>3, <1>4, TableStep

LEMMA ChainStep ==
    ASSUME TypeOK, LookInv, OrderInv, EntriesAccounted, ChainInv, [Next]_vars
    PROVE  ChainInv'
<1> SUFFICES ASSUME ~outage', ~behind'
             PROVE  /\ \A p \in Procs : pending'[p] = {}
                    /\ \A x \in rows' : \A m \in 0..(x.n - 1) : \E y \in rows' : y.n = m
                    /\ \A x \in rows' : x.n = 0 => Front(x.hash) = <<>>
                    /\ \A x, y \in rows' : x.n = y.n + 1 => Front(x.hash) = y.hash
  BY DEF ChainInv
<1>1. ASSUME ~outage, ~behind
      PROVE  /\ \A p \in Procs : pending[p] = {}
             /\ \A x \in rows : \A m \in 0..(x.n - 1) : \E y \in rows : y.n = m
             /\ \A x \in rows : x.n = 0 => Front(x.hash) = <<>>
             /\ \A x, y \in rows : x.n = y.n + 1 => Front(x.hash) = y.hash
  BY <1>1 DEF ChainInv
<1>2. CASE UNCHANGED <<made, ledger, rows, pending, disabled, outage, behind>>
  BY <1>1, <1>2
<1>3. ASSUME NEW s \in Scans, AppendEntry(s)
      PROVE  /\ \A p \in Procs : pending'[p] = {}
             /\ \A x \in rows' : \A m \in 0..(x.n - 1) : \E y \in rows' : y.n = m
             /\ \A x \in rows' : x.n = 0 => Front(x.hash) = <<>>
             /\ \A x, y \in rows' : x.n = y.n + 1 => Front(x.hash) = y.hash
  <2> DEFINE p == scan[s].proc
             e == Len(made) + 1
             x == NextStored(p, e)
             l == ledger[p]
  <2>1. p \in Procs /\ e \in Nat /\ x \in Stored
    BY <1>3, AppendLedger
  <2>2. ~behind /\ rows \subseteq ToSet(l)
    BY <1>3, AppendLedger
  <2>3. ~Taken(x)
    BY <2>1, <2>2, NextIsFree
  <2>4. /\ pending' = pending /\ outage' = outage
        /\ rows' = rows \/ (~disabled[p] /\ rows' = rows \union {x})
    BY <1>3, <2>3, AppendLedger DEF RowAdded
  <2>5. /\ \A q \in Procs : pending[q] = {}
        /\ \A z \in rows : \A m \in 0..(z.n - 1) : \E y \in rows : y.n = m
        /\ \A z \in rows : z.n = 0 => Front(z.hash) = <<>>
        /\ \A z, y \in rows : z.n = y.n + 1 => Front(z.hash) = y.hash
    BY <1>1, <2>2, <2>4
  <2>6. CASE rows' = rows
    BY <2>4, <2>5, <2>6
  <2>7. CASE ~disabled[p] /\ rows' = rows \union {x}
    <3>1. ToSet(l) \subseteq rows
      BY <2>1, <2>5, <2>7 DEF EntriesAccounted
    <3>2. \A y \in rows : y.n \in Nat
      BY StoredParts DEF TypeOK
    <3>3. \A y \in rows : y.n < x.n
      <4>1. \A y \in rows : \E i \in 1..Len(l) : l[i] = y
        BY <2>1, <2>2 DEF ToSet, TypeOK
      <4>2. \A i \in 1..Len(l) : l[i].n < x.n
        BY <2>1, NextIsFree
      <4>3. QED
        BY <4>1, <4>2
    <3>4. CASE l = <<>>
      <4>1. rows = {}
        BY <2>2, <3>4 DEF ToSet
      <4>2. x.n = 0 /\ Front(x.hash) = <<>>
        BY <2>1, <3>4, NextFacts
      <4> HIDE DEF x, l, p
      <4>3. rows' = {x}
        BY <2>7, <4>1
      <4>4. QED
        BY <2>4, <2>5, <4>2, <4>3
    <3>5. CASE l # <<>>
      <4> DEFINE y == Last(l)
      <4>1. y \in ToSet(l) /\ x.n = y.n + 1 /\ Front(x.hash) = y.hash
        BY <2>1, <3>5, NextFacts
      <4> HIDE DEF y, x, l, p, e
      <4>2. y \in rows /\ y.n \in Nat
        BY <3>1, <3>2, <4>1
      <4>3. ASSUME NEW z \in rows', NEW m \in 0..(z.n - 1) PROVE \E w \in rows' : w.n = m
        <5>1. CASE z \in rows
          BY <2>5, <2>7, <5>1, <4>3
        <5>2. CASE z = x
          <6>1. m = y.n \/ m \in 0..(y.n - 1)
            BY <4>1, <4>2, <4>3, <5>2
          <6>2. QED
            BY <2>5, <2>7, <4>2, <6>1
        <5>3. QED
          BY <2>7, <5>1, <5>2
      <4>4. ASSUME NEW z \in rows', z.n = 0 PROVE Front(z.hash) = <<>>
        BY <2>5, <2>7, <4>1, <4>2, <4>4
      <4>5. ASSUME NEW z \in rows', NEW w \in rows', z.n = w.n + 1 PROVE Front(z.hash) = w.hash
        <5>1. CASE z \in rows /\ w \in rows
          BY <2>5, <4>5, <5>1
        <5>2. CASE z \in rows /\ w = x
          BY <3>2, <3>3, <4>1, <4>2, <4>5, <5>2
        <5>3. CASE z = x /\ w \in rows
          <6>1. w.n = y.n
            BY <3>2, <4>1, <4>2, <4>5, <5>3
          <6>2. w = y
            BY <4>2, <5>3, <6>1 DEF EntriesAccounted
          <6>3. QED
            BY <4>1, <5>3, <6>2
        <5>4. CASE z = x /\ w = x
          BY <4>1, <4>2, <4>5, <5>4
        <5>5. QED
          BY <2>7, <5>1, <5>2, <5>3, <5>4
      <4>6. QED
        BY <2>4, <2>5, <4>3, <4>4, <4>5
    <3>6. QED
      BY <3>4, <3>5
  <2>8. QED
    BY <2>4, <2>6, <2>7
<1>4. ASSUME NEW p \in Procs, NEW x \in pending[p], ReplayOne(p, x) PROVE FALSE
  <2>1. ~outage /\ ~behind
    BY <1>4 DEF ReplayOne, TypeOK
  <2>2. QED
    BY <1>1, <1>4, <2>1
<1>5. ASSUME NEW p \in Procs, Restart(p)
      PROVE  rows' = rows /\ outage' = outage /\ behind' = behind
             /\ \A q \in Procs : pending'[q] = {} \/ pending'[q] = pending[q]
  BY <1>5 DEF Restart, TypeOK
<1>6. QED
  BY <1>1, <1>2, <1>3, <1>4, <1>5, TableStep

-----------------------------------------------------------------------------
(* The entries of a run.                                                   *)

Live == {"running", "decided", "applied", "done"}

End(s) == IF scan[s].pc = "done" THEN scan[s].last + 1 ELSE Len(ledger[scan[s].proc])

RunAt(s) ==
    LET l == ledger[scan[s].proc] IN
    /\ scan[s].pc = "new" => \A e \in 1..Len(made) : made[e].scan # s
    /\ scan[s].pc \in Live =>
          /\ End(s) <= Len(l)
          /\ scan[s].since <= Len(made)
          /\ scan[s].start <= Len(l)
          /\ \A i \in (scan[s].start + 1)..Len(l) : Last(l[i].hash) > scan[s].since
          /\ \A e \in 1..Len(made) : made[e].scan = s =>
                \E i \in (scan[s].start + 1)..End(s) : Last(l[i].hash) = e

LEMMA RunParts == RunInv <=> \A s \in Scans : RunAt(s)
BY DEF RunInv, RunAt, End, Live

\* A scan that goes on, while the ledgers stay.
LEMMA RunFrame ==
    ASSUME NEW t \in Scans, RunAt(t), UNCHANGED <<made, ledger>>,
           \/ scan'[t] = scan[t]
           \/ /\ scan[t].pc \in Live \ {"done"} /\ scan'[t].pc \in Live \ {"done"}
              /\ scan'[t].proc = scan[t].proc
              /\ scan'[t].start = scan[t].start /\ scan'[t].since = scan[t].since
    PROVE  RunAt(t)'
<1>1. CASE scan'[t] = scan[t]
  BY <1>1 DEF RunAt, End
<1>2. CASE /\ scan[t].pc \in Live \ {"done"} /\ scan'[t].pc \in Live \ {"done"}
           /\ scan'[t].proc = scan[t].proc
           /\ scan'[t].start = scan[t].start /\ scan'[t].since = scan[t].since
  <2>1. End(t)' = Len(ledger[scan[t].proc]) /\ End(t) = Len(ledger[scan[t].proc])
    BY <1>2 DEF End
  <2>2. scan'[t].pc # "new"
    BY <1>2 DEF Live
  <2>3. QED
    BY <1>2, <2>1, <2>2 DEF RunAt
<1>3. QED
  BY <1>1, <1>2

\* What an append leaves of a scan, its own or another.
LEMMA RunAppend ==
    ASSUME TypeOK, LookInv, NEW s \in Scans, AppendEntry(s), NEW t \in Scans, RunAt(t)
    PROVE  RunAt(t)'
<1> DEFINE p == scan[s].proc
           e == Len(made) + 1
           x == NextStored(p, e)
           q == scan[t].proc
           l == ledger[q]
           k == ledger'[q]
<1>1. /\ p \in Procs /\ e \in Nat /\ Len(made) \in Nat /\ x \in Stored
      /\ ledger'[p] = Append(ledger[p], x)
      /\ \A r \in Procs : r # p => ledger'[r] = ledger[r]
  BY AppendLedger
<1>2. Last(x.hash) = e
  BY <1>1, NextFacts
<1>3. /\ scan[s].pc = "applied" /\ scan'[s].pc = "running" /\ scan'[s].proc = p
      /\ scan'[s].start = scan[s].start /\ scan'[s].since = scan[s].since
      /\ t # s => scan'[t] = scan[t]
  BY AppendScan
<1>4. /\ Len(made') = e /\ made'[e].scan = s
      /\ \A f \in 1..Len(made) : made'[f] = made[f]
  <2>1. PICK m : made' = Append(made, m) /\ m.scan = s
    BY DEF AppendEntry
  <2>2. made \in Seq(Made)
    BY DEF TypeOK
  <2>3. QED
    BY <2>1, <2>2
<1>5. /\ scan[t] \in Scan /\ scan[t].start \in Nat /\ scan[t].since \in Nat /\ scan[t].last \in Int
  BY DEF TypeOK, Scan
<1>6. CASE scan[t].pc = "new"
  <2>1. t # s /\ scan'[t] = scan[t]
    BY <1>3, <1>6
  <2>2. \A f \in 1..Len(made) : made[f].scan # t
    BY <1>6 DEF RunAt
  <2>3. \A f \in 1..Len(made') : made'[f].scan # t
    BY <1>1, <1>4, <2>1, <2>2
  <2>4. scan'[t].pc \notin Live
    BY <1>6, <2>1 DEF Live
  <2>5. QED
    BY <2>3, <2>4 DEF RunAt
<1>7. CASE scan[t].pc \in Live
  <2>1. q \in Procs
    BY <1>7 DEF LookInv, Live
  <2>2. l \in Seq(Stored) /\ Len(l) \in Nat
    BY <2>1 DEF TypeOK
  <2>3. /\ scan'[t].proc = q /\ scan'[t].start = scan[t].start /\ scan'[t].since = scan[t].since
        /\ scan'[t].pc # "new" /\ (scan'[t].pc = "done" <=> scan[t].pc = "done")
        /\ scan'[t].pc = "done" => scan'[t].last = scan[t].last
    BY <1>3, <1>7 DEF Live
  <2>4. q = p => k = Append(l, x)
    BY <1>1
  <2>5. q # p => k = l
    BY <1>1, <2>1
  <2> HIDE DEF x, e, l, k
  <2>6. /\ \/ Len(k) = Len(l) /\ q # p
           \/ Len(k) = Len(l) + 1 /\ k[Len(l) + 1] = x /\ q = p
        /\ \A i \in 1..Len(l) : k[i] = l[i]
    BY <1>1, <2>2, <2>4, <2>5, LedgerAppend
  <2>7. /\ End(t) <= Len(l) /\ scan[t].since <= Len(made) /\ scan[t].start <= Len(l)
        /\ \A i \in (scan[t].start + 1)..Len(l) : Last(l[i].hash) > scan[t].since
        /\ \A f \in 1..Len(made) : made[f].scan = t =>
              \E i \in (scan[t].start + 1)..End(t) : Last(l[i].hash) = f
    BY <1>7 DEF RunAt, l
  <2>8. End(t) = (IF scan[t].pc = "done" THEN scan[t].last + 1 ELSE Len(l)) /\ End(t) \in Int
    BY <1>5, <2>2 DEF End, l
  <2>9. End(t)' = IF scan[t].pc = "done" THEN scan[t].last + 1 ELSE Len(k)
    BY <2>3 DEF End, k
  <2>10. /\ End(t)' <= Len(k) /\ End(t) <= End(t)' /\ scan'[t].since <= Len(made')
         /\ scan'[t].start <= Len(k)
    BY <1>1, <1>4, <1>5, <2>2, <2>3, <2>6, <2>7, <2>8, <2>9 DEF e
  <2>11. ASSUME NEW i \in (scan[t].start + 1)..Len(k) PROVE Last(k[i].hash) > scan[t].since
    <3>1. CASE i \in 1..Len(l)
      BY <1>5, <2>2, <2>6, <2>7, <3>1
    <3>2. CASE i \notin 1..Len(l)
      <4>1. i = Len(l) + 1 /\ k[i] = x
        BY <1>5, <2>2, <2>6, <2>11, <3>2
      <4>2. QED
        BY <1>1, <1>2, <1>5, <2>7, <4>1 DEF e
    <3>3. QED
      BY <3>1, <3>2
  <2>12. ASSUME NEW f \in 1..Len(made'), made'[f].scan = t
         PROVE  \E i \in (scan[t].start + 1)..End(t)' : Last(k[i].hash) = f
    <3>1. CASE f \in 1..Len(made)
      <4>1. PICK i \in (scan[t].start + 1)..End(t) : Last(l[i].hash) = f
        BY <1>4, <2>7, <2>12, <3>1
      <4>2. i \in 1..Len(l) /\ k[i] = l[i]
        BY <1>5, <2>2, <2>6, <2>7, <2>8, <4>1
      <4>3. End(t)' \in Int
        BY <1>5, <2>2, <2>6, <2>9
      <4>4. i \in (scan[t].start + 1)..End(t)'
        BY <1>5, <2>8, <2>10, <4>1, <4>3
      <4>5. QED
        BY <4>1, <4>2, <4>4
    <3>2. CASE f = e
      <4>1. t = s /\ q = p
        BY <1>4, <2>12, <3>2
      <4>2. End(t)' = Len(l) + 1 /\ k[Len(l) + 1] = x
        BY <1>3, <2>2, <2>6, <2>9, <4>1
      <4>3. Len(l) + 1 \in (scan[t].start + 1)..End(t)'
        BY <1>5, <2>2, <2>7, <4>2
      <4>4. QED
        BY <1>2, <3>2, <4>2, <4>3
    <3>3. QED
      BY <1>1, <1>4, <2>12, <3>1, <3>2 DEF e
  <2>13. QED
    BY <2>3, <2>10, <2>11, <2>12 DEF RunAt, k
<1>8. CASE scan[t].pc \notin Live \union {"new"}
  <2>1. scan'[t].pc \notin Live \union {"new"}
    BY <1>3, <1>8 DEF Live
  <2>2. QED
    BY <2>1 DEF RunAt
<1>9. QED
  BY <1>6, <1>7, <1>8

LEMMA RunStep ==
    ASSUME TypeOK, AgentInv, LookInv, RunInv, [Next]_vars
    PROVE  RunInv'
<1> SUFFICES ASSUME NEW t \in Scans PROVE RunAt(t)'
  BY RunParts DEF RunInv, RunAt, End, Live
<1>1. RunAt(t)
  BY RunParts
<1>2. ASSUME UNCHANGED <<made, ledger>>, scan'[t] = scan[t] PROVE RunAt(t)'
  BY <1>1, <1>2, RunFrame
<1>3. ASSUME NEW s \in Scans, NEW p \in Procs, Begin(s, p) PROVE RunAt(t)'
  <2>1. UNCHANGED <<made, ledger>>
    BY <1>3 DEF Begin
  <2>2. CASE t # s
    BY <1>2, <1>3, <2>1, <2>2, BeginScan
  <2>3. CASE t = s
    <3>1. /\ scan'[t].pc = "running" /\ scan'[t].proc = p
          /\ scan'[t].start = Len(ledger[p]) /\ scan'[t].since = Len(made)
      BY <1>3, <2>3, BeginScan
    <3>2. \A e \in 1..Len(made) : made[e].scan # t
      BY <1>1, <1>3, <2>3 DEF RunAt, Begin
    <3>3. Len(ledger[p]) \in Nat /\ Len(made) \in Nat
      BY DEF TypeOK
    <3>4. End(t)' = Len(ledger[p])
      BY <2>1, <3>1 DEF End
    <3>5. QED
      BY <2>1, <3>1, <3>2, <3>3, <3>4 DEF RunAt
  <2>4. QED
    BY <2>2, <2>3
<1>4. ASSUME NEW s \in Scans, NEW cand \in Candidates, Look(s, cand) PROVE RunAt(t)'
  <2>1. UNCHANGED <<made, ledger>> /\ scan[s].pc = "running"
    BY <1>4 DEF Look
  <2>2. QED
    BY <1>1, <1>4, <2>1, LookScan, RunFrame DEF Live
<1>5. ASSUME NEW s \in Scans, Apply(s) PROVE RunAt(t)'
  <2>1. UNCHANGED <<made, ledger>> /\ scan[s].pc = "decided"
    BY <1>5 DEF Apply
  <2>2. QED
    BY <1>1, <1>5, <2>1, ApplyScan, RunFrame DEF Live
<1>6. ASSUME NEW s \in Scans, AppendEntry(s) PROVE RunAt(t)'
  BY <1>1, <1>6, RunAppend
<1>7. ASSUME NEW s \in Scans, Finish(s) PROVE RunAt(t)'
  <2>1. UNCHANGED <<made, ledger>>
    BY <1>7 DEF Finish
  <2>2. CASE t # s
    BY <1>2, <1>7, <2>1, <2>2, FinishScan
  <2>3. CASE t = s
    <3> DEFINE l == ledger[scan[t].proc]
    <3>1. /\ scan[t].pc = "running" /\ scan[t].proc \in Procs
          /\ scan'[t].pc = "done" /\ scan'[t].proc = scan[t].proc
          /\ scan'[t].start = scan[t].start /\ scan'[t].since = scan[t].since
          /\ scan'[t].last = IF Len(l) > scan[t].start THEN Len(l) - 1 ELSE -1
      BY <1>7, <2>3, FinishScan
    <3>2. Len(l) \in Nat /\ scan[t].start \in Nat
      BY <3>1 DEF TypeOK, Scan
    <3>3. End(t) = Len(l)
      BY <3>1 DEF End
    <3>4. End(t)' = scan'[t].last + 1
      BY <3>1 DEF End
    <3>5. /\ scan[t].since <= Len(made) /\ scan[t].start <= Len(l)
          /\ \A i \in (scan[t].start + 1)..Len(l) : Last(l[i].hash) > scan[t].since
          /\ \A e \in 1..Len(made) : made[e].scan = t =>
                \E i \in (scan[t].start + 1)..Len(l) : Last(l[i].hash) = e
      BY <1>1, <3>1, <3>3 DEF RunAt, Live
    <3>6. ledger'[scan'[t].proc] = l
      BY <2>1, <3>1
    <3> HIDE DEF l
    <3>7. End(t)' <= Len(l) /\ (Len(l) > scan[t].start => End(t)' = Len(l))
      BY <3>1, <3>2, <3>4
    <3>8. \A e \in 1..Len(made) : made[e].scan = t =>
             \E i \in (scan[t].start + 1)..End(t)' : Last(l[i].hash) = e
      <4>1. CASE Len(l) > scan[t].start
        BY <3>5, <3>7, <4>1
      <4>2. CASE ~(Len(l) > scan[t].start)
        <5>1. (scan[t].start + 1)..Len(l) = {}
          BY <3>2, <4>2
        <5>2. QED
          BY <3>5, <5>1
      <4>3. QED
        BY <4>1, <4>2
    <3>9. QED
      BY <2>1, <3>1, <3>5, <3>6, <3>7, <3>8 DEF RunAt
  <2>4. QED
    BY <2>2, <2>3
<1>8. ASSUME NEW p \in Procs, NEW x \in pending[p], ReplayOne(p, x) PROVE RunAt(t)'
  BY <1>2, <1>8 DEF ReplayOne
<1>9. ASSUME NEW p \in Procs,
             \/ \E a \in Agents : Revoke(p, a)
             \/ \E m \in Manual : Register(p, m)
             \/ Resync(p)
      PROVE  RunAt(t)'
  BY <1>2, <1>9 DEF Revoke, Register, Resync
<1>10. ASSUME NEW p \in Procs, Restart(p) PROVE RunAt(t)'
  <2>1. CASE scan[t].proc = p
    <3>1. scan'[t].pc = "gone"
      BY <1>10, <2>1, RestartScan
    <3>2. QED
      BY <3>1 DEF RunAt, Live
  <2>2. CASE scan[t].proc # p
    <3>1. scan'[t] = scan[t] /\ made' = made
      BY <1>10, <2>2, RestartScan DEF Restart
    <3>2. scan[t].proc \in Procs => ledger'[scan[t].proc] = ledger[scan[t].proc]
      BY <1>10, <2>2, RestartLedger
    <3>3. CASE scan[t].pc \in Live
      <4>1. scan[t].proc \in Procs
        BY <3>3 DEF LookInv, Live
      <4>2. End(t)' = End(t)
        BY <3>1, <3>2, <4>1 DEF End
      <4>3. QED
        BY <1>1, <3>1, <3>2, <4>1, <4>2 DEF RunAt
    <3>4. CASE scan[t].pc \notin Live
      BY <1>1, <3>1, <3>4 DEF RunAt
    <3>5. QED
      BY <3>3, <3>4
  <2>3. QED
    BY <2>1, <2>2
<1>11. CASE UNCHANGED vars
  BY <1>2, <1>11 DEF vars
<1>12. QED
  BY <1>3, <1>4, <1>5, <1>6, <1>7, <1>8, <1>9, <1>10, <1>11 DEF Next

-----------------------------------------------------------------------------
(* The theorems.                                                           *)

IndInv ==
    /\ TypeOK /\ AgentInv /\ LookInv /\ RaceInv
    /\ OrderInv /\ EntriesAccounted /\ ChainInv /\ RunInv

LEMMA InitInv == Init => IndInv
<1> SUFFICES ASSUME Init PROVE IndInv
  OBVIOUS
<1>1. TypeOK
  BY TypeInit
<1>2. /\ made = <<>> /\ rows = {}
      /\ \A p \in Procs : ledger[p] = <<>> /\ pending[p] = {}
      /\ \A p \in Procs, a \in Agents : reg[p][a] = Absent
      /\ \A a \in Agents : regRows[a] = Absent
      /\ \A p \in Procs, k \in Keys : idx[p][k] = NoAgent
      /\ \A p \in Procs : Known(p) = {} /\ promoted[p] = {}
  BY DEF Init, Known
<1>3. \A s \in Scans : scan[s].pc = "new"
  BY DEF Init, NewScan
<1>4. AgentInv
  BY <1>2 DEF AgentInv
<1>5. LookInv
  BY <1>3 DEF LookInv
<1>6. RaceInv
  BY <1>2, <1>3 DEF RaceInv, OneAgentPerKey
<1>7. OrderInv
  BY <1>2 DEF OrderInv
<1>8. EntriesAccounted
  BY <1>2 DEF EntriesAccounted, ToSet
<1>9. ChainInv
  BY <1>2 DEF ChainInv
<1>10. RunInv
  BY <1>2, <1>3 DEF RunInv
<1>11. QED
  BY <1>1, <1>4, <1>5, <1>6, <1>7, <1>8, <1>9, <1>10 DEF IndInv

LEMMA Inductive == Spec => []IndInv
<1>1. ASSUME IndInv, [Next]_vars PROVE IndInv'
  <2> USE <1>1 DEF IndInv
  <2>1. TypeOK'
    BY TypeStep
  <2>2. AgentInv' /\ LookInv' /\ RaceInv'
    BY <2>1, AgentStep, LookStep, RaceStep
  <2>3. OrderInv' /\ EntriesAccounted' /\ ChainInv'
    BY <2>1, OrderStep, AccountedStep, ChainStep
  <2>4. RunInv'
    BY RunStep
  <2>5. QED
    BY <2>1, <2>2, <2>3, <2>4
<1>2. IndInv /\ [Next]_vars => IndInv'
  BY <1>1
<1>3. QED
  BY <1>2, InitInv, PTL DEF Spec

\* Every variable keeps its type, through every failed insert and restart: what
\* a scan has looked up is an agent, and what a ledger holds an entry.
THEOREM TypeCorrect == Spec => []TypeOK
<1>1. IndInv => TypeOK
  BY DEF IndInv
<1>2. QED
  BY <1>1, Inductive, PTL

\* The scans of a process register no second agent of a key it knows one of,
\* unless two of them were at that key at the same time (service.py,
\* _handle_candidate).
THEOREM OneAgentUnlessRaced == Spec => []OneAgentPerKey
<1>1. IndInv => OneAgentPerKey
  BY DEF IndInv, RaceInv
<1>2. QED
  BY <1>1, Inductive, PTL

\* Every entry of a durable process is stored as it is in memory or parked, and
\* no two rows have one number (discovery_ledger_postgres.py,
\* _safe_flush_append and _flush_append).
THEOREM EntriesAreAccounted == Spec => []EntriesAccounted
<1>1. IndInv => EntriesAccounted
  BY DEF IndInv
<1>2. QED
  BY <1>1, Inductive, PTL

\* Rows whose numbers have no gap stand at their numbers.
LEMMA NumbersArePositions ==
    ASSUME TypeOK, NEW l \in Sorted, NEW i \in 1..Len(l),
           \A x \in rows : \A m \in 0..(x.n - 1) : \E y \in rows : y.n = m
    PROVE  l[i].n = i - 1
<1>1. /\ l \in Seq(Stored) /\ ToSet(l) = rows /\ Len(l) \in Nat /\ DOMAIN l = 1..Len(l)
      /\ \A j, k \in 1..Len(l) : j < k => l[j].n < l[k].n
  BY SortedRows
<1>2. \A j \in 1..Len(l) : l[j].n \in Nat /\ l[j] \in rows
  <2>1. \A j \in 1..Len(l) : l[j].n \in Nat
    BY <1>1, StoredParts
  <2>2. \A j \in 1..Len(l) : l[j] \in rows
    BY <1>1 DEF ToSet
  <2>3. QED
    BY <2>1, <2>2
<1> DEFINE S == 1..(i - 1)
           T == 0..(l[i].n - 1)
           f == [j \in S |-> l[j].n]
<1>3. \A j \in S : j \in 1..Len(l) /\ j < i /\ l[j].n < l[i].n
  BY <1>1
<1>4. f \in [S -> T]
  BY <1>2, <1>3
<1>5. \A j, k \in S : j # k => f[j] # f[k]
  <2> SUFFICES ASSUME NEW j \in S, NEW k \in S, j < k PROVE f[j] # f[k]
    OBVIOUS
  <2>1. l[j].n < l[k].n /\ l[j].n \in Nat /\ l[k].n \in Nat
    BY <1>1, <1>2, <1>3
  <2>2. QED
    BY <2>1
<1>6. \A m \in T : \E j \in S : f[j] = m
  <2> SUFFICES ASSUME NEW m \in T PROVE \E j \in S : f[j] = m
    OBVIOUS
  <2>1. PICK y \in rows : y.n = m
    BY <1>2
  <2>2. PICK j \in 1..Len(l) : l[j] = y
    BY <1>1 DEF ToSet
  <2>3. l[j].n < l[i].n
    BY <1>2, <2>1, <2>2
  <2>4. ~(i < j) /\ i # j
    BY <1>1, <1>2, <2>3
  <2>5. j \in S
    BY <1>1, <2>4
  <2>6. QED
    BY <2>1, <2>2, <2>5
<1>7. IsFiniteSet(S) /\ Cardinality(S) = i - 1 /\ IsFiniteSet(T) /\ Cardinality(T) = l[i].n
  <2>1. \A b \in Int : IsFiniteSet(1..b) /\ Cardinality(1..b) = IF 1 > b THEN 0 ELSE b - 1 + 1
    BY FS_Interval
  <2>2. \A b \in Int : IsFiniteSet(0..b) /\ Cardinality(0..b) = IF 0 > b THEN 0 ELSE b - 0 + 1
    BY FS_Interval
  <2>3. i - 1 \in Nat /\ i - 1 \in Int /\ l[i].n \in Nat /\ l[i].n - 1 \in Int
    BY <1>1, <1>2
  <2>4. IsFiniteSet(S) /\ Cardinality(S) = IF 1 > i - 1 THEN 0 ELSE (i - 1) - 1 + 1
    BY <2>1, <2>3
  <2>5. IsFiniteSet(T) /\ Cardinality(T) = IF 0 > l[i].n - 1 THEN 0 ELSE (l[i].n - 1) - 0 + 1
    BY <2>2, <2>3
  <2> HIDE DEF S, T, f
  <2>6. QED
    BY <2>3, <2>4, <2>5
<1> HIDE DEF S, T, f
<1>8. f \in Injection(S, T) /\ f \in Surjection(S, T)
  BY <1>4, <1>5, <1>6 DEF Injection, IsInjective, Surjection
<1>9. Cardinality(S) = Cardinality(T)
  BY <1>7, <1>8, FS_Injection
<1>10. QED
  BY <1>7, <1>9

\* Without outages and late processes the table is one chain numbered by its
\* positions, and a process that has seen all of it always numbers its next
\* entry after it (discovery_ledger.py, append; discovery_ledger_postgres.py,
\* _bootstrap_from_postgres).
THEOREM ChainIsStored == Spec => []StoredChain
<1>1. ASSUME IndInv, ~outage, ~behind, NEW l \in Sorted
      PROVE  Verifies(l) /\ \A i \in 1..Len(l) : l[i].n = i - 1
  <2> USE <1>1 DEF IndInv
  <2>1. /\ \A x \in rows : \A m \in 0..(x.n - 1) : \E y \in rows : y.n = m
        /\ \A x \in rows : x.n = 0 => Front(x.hash) = <<>>
        /\ \A x, y \in rows : x.n = y.n + 1 => Front(x.hash) = y.hash
    BY DEF ChainInv
  <2>2. \A i \in 1..Len(l) : l[i].n = i - 1
    BY <2>1, NumbersArePositions
  <2>3. Len(l) \in Nat /\ \A i \in 1..Len(l) : l[i] \in rows
    <3>1. l \in Seq(Stored) /\ ToSet(l) = rows
      BY SortedRows
    <3>2. QED
      BY <3>1 DEF ToSet
  <2>4. ASSUME NEW i \in 1..Len(l)
        PROVE  Front(l[i].hash) = IF i = 1 THEN <<>> ELSE l[i - 1].hash
    <3>1. CASE i = 1
      BY <2>1, <2>2, <2>3, <3>1
    <3>2. CASE i # 1
      <4>1. i - 1 \in 1..Len(l)
        BY <2>3, <3>2
      <4>2. l[i].n = l[i - 1].n + 1
        BY <2>2, <4>1
      <4>3. QED
        BY <2>1, <2>3, <3>2, <4>1, <4>2
    <3>3. QED
      BY <3>1, <3>2
  <2>5. QED
    BY <2>2, <2>4 DEF Verifies
<1>2. ASSUME IndInv, NEW p \in Procs, rows \subseteq ToSet(ledger[p])
      PROVE  ~Taken(NextStored(p, 1))
  BY <1>2, NextIsFree DEF IndInv
<1>3. IndInv => StoredChain
  BY <1>1, <1>2 DEF StoredChain
<1>4. QED
  BY <1>3, Inductive, PTL

\* The range a run recorded has all that the run entered and nothing older
\* (service.py, scan and _replay_completed_run).
THEOREM ReplayIsComplete == Spec => []ReplayHasRun
<1>1. ASSUME IndInv, NEW s \in Scans, scan[s].pc = "done"
      PROVE  /\ Own(s) \subseteq Slice(s)
             /\ \A e \in Slice(s) : e > scan[s].since
  <2> USE <1>1 DEF IndInv
  <2> DEFINE l == ledger[scan[s].proc]
  <2>1. Len(l) \in Nat /\ scan[s].start \in Nat /\ scan[s].last \in Int
    BY DEF TypeOK, LookInv, Scan
  <2>2. /\ scan[s].last + 1 <= Len(l)
        /\ \A i \in (scan[s].start + 1)..Len(l) : Last(l[i].hash) > scan[s].since
        /\ \A e \in 1..Len(made) : made[e].scan = s =>
              \E i \in (scan[s].start + 1)..(scan[s].last + 1) : Last(l[i].hash) = e
    <3>1. RunAt(s) /\ End(s) = scan[s].last + 1 /\ scan[s].pc \in Live
      BY RunParts DEF End, Live
    <3>2. QED
      BY <3>1 DEF RunAt
  <2>3. Slice(s) = {Last(l[i + 1].hash) : i \in scan[s].start..scan[s].last}
    BY DEF Slice
  <2> HIDE DEF l
  <2>4. ASSUME NEW e \in 1..Len(made), made[e].scan = s PROVE e \in Slice(s)
    <3>1. PICK i \in (scan[s].start + 1)..(scan[s].last + 1) : Last(l[i].hash) = e
      BY <2>2, <2>4
    <3>2. i - 1 \in scan[s].start..scan[s].last /\ (i - 1) + 1 = i
      BY <2>1
    <3>3. QED
      BY <2>3, <3>1, <3>2
  <2>5. ASSUME NEW e \in Slice(s) PROVE e > scan[s].since
    <3>1. PICK i \in scan[s].start..scan[s].last : e = Last(l[i + 1].hash)
      BY <2>3
    <3>2. i + 1 \in (scan[s].start + 1)..Len(l)
      BY <2>1, <2>2
    <3>3. QED
      BY <2>2, <3>1, <3>2
  <2>6. QED
    BY <2>4, <2>5 DEF Own
<1>2. IndInv => ReplayHasRun
  BY <1>1 DEF ReplayHasRun
<1>3. QED
  BY <1>2, Inductive, PTL
=============================================================================
