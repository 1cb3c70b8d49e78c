------------------------ MODULE PolicyDecisionProofs ------------------------
(***************************************************************************)
(* Proofs about the policy decision point, for any number of requests and  *)
(* any reports.  The stages after the router are functions of the report   *)
(* and of what the tracker said of the request, and neither changes once   *)
(* the request is judged; so a decided request either has the judgment of  *)
(* its report or is one the precedent step has raised from it.  The rest   *)
(* is about the judgment alone: what Merge and Hold may do to a result.    *)
(* The second half is about the policy that is decided under: the proofs   *)
(* of CalibrationLoop, taken as the instance Cal.                          *)
(***************************************************************************)
EXTENDS PolicyDecision, CalibrationPromises, WellFoundedInduction, FiniteSetTheorems, TLAPS

-----------------------------------------------------------------------------
(* The judgment of a report.                                               *)

Judgment(r, i) == IF HardViolation(r, i) THEN Forbidden(i) ELSE Lowered(r, i)

\* y is x after stages that may only lower: a PERMIT becomes an ABSTAIN at
\* most, and what lowers it leaves a flag that is no matter of judgment.
Below(x, y) ==
    /\ y.base = x.base /\ y.report = x.report
    /\ x.flags \subseteq y.flags
    /\ x.verdict # "PERMIT" => y.verdict = x.verdict
    /\ x.verdict = "PERMIT" => y.verdict \in {"PERMIT", "ABSTAIN"}
    /\ y.verdict # x.verdict => ~(y.flags \subseteq Discretionary)

\* A merged signal lowers, marks, and leaves a PERMIT only if it is silent.
LEMMA MergeLowers ==
    ASSUME NEW x \in Results, NEW fires \in BOOLEAN, NEW flag \in Flags \ Discretionary
    PROVE  /\ Merge(x, fires, flag) \in Results
           /\ Below(x, Merge(x, fires, flag))
           /\ fires => flag \in Merge(x, fires, flag).flags
           /\ Merge(x, fires, flag).verdict = "PERMIT" => x.verdict = "PERMIT" /\ ~fires
BY DEF Merge, Results, Below, Verdicts

\* A hold lowers, and leaves a PERMIT only if it is silent.
LEMMA HoldLowers ==
    ASSUME NEW x \in Results, NEW fires \in BOOLEAN, NEW flag \in Flags \ Discretionary
    PROVE  /\ Hold(x, fires, flag) \in Results
           /\ Below(x, Hold(x, fires, flag))
           /\ Hold(x, fires, flag).verdict = "PERMIT" => x.verdict = "PERMIT" /\ ~fires
BY DEF Hold, Results, Below, Verdicts

LEMMA BelowTrans ==
    ASSUME NEW x \in Results, NEW y \in Results, NEW z \in Results, Below(x, y), Below(y, z)
    PROVE  Below(x, z)
BY DEF Below, Results, Verdicts

LEMMA Markers ==
    {"contract_soft", "path_warn", "predictive", "cadence", "risk_spine",
     "pq_non_repudiation", "crc_permit_region_exceeded"} \subseteq Flags \ Discretionary
BY DEF Flags, Discretionary

LEMMA RouteResult ==
    ASSUME NEW r, NEW i \in AllReports
    PROVE  /\ Route(r, i) \in Results
           /\ Route(r, i).base = DetermineVerdict(r, i)
           /\ Route(r, i).verdict = DetermineVerdict(r, i)
           /\ Route(r, i).flags = UncertaintyFlags(r, i)
           /\ Route(r, i).report = i
<1>1. DetermineVerdict(r, i) \in Verdicts
  BY DEF DetermineVerdict, Verdicts
<1>2. UncertaintyFlags(r, i) \subseteq Flags
  BY DEF UncertaintyFlags, Flags, If
<1>3. QED
  BY <1>1, <1>2 DEF Route, Results

\* What the stages between the router and the precedent step do to a result.
LEMMA LoweredResult ==
    ASSUME NEW r, NEW i \in AllReports
    PROVE  LET low == Lowered(r, i) IN
           /\ low \in Results
           /\ Below(Route(r, i), low)
           /\ i.contract = "soft" => "contract_soft" \in low.flags
           /\ i.path = "warn" => "path_warn" \in low.flags
           /\ low.verdict = "PERMIT" =>
                 /\ DetermineVerdict(r, i) = "PERMIT"
                 /\ i.contract # "soft" /\ i.path # "warn" /\ Level(r) = "CLEAR"
                 /\ ~i.predicted /\ ~i.drift /\ ~i.pq /\ ~i.outside
<1> DEFINE x0 == Route(r, i)
           x1 == Merge(x0, i.contract = "soft", "contract_soft")
           x2 == Merge(x1, i.path = "warn", "path_warn")
           x3 == Hold(x2, i.predicted, "predictive")
           x4 == Hold(x3, Level(r) # "CLEAR", "cadence")
           x5 == Hold(x4, i.drift, "risk_spine")
           x6 == Hold(x5, i.pq, "pq_non_repudiation")
           x7 == Hold(x6, i.outside, "crc_permit_region_exceeded")
<1>0. x7 = Lowered(r, i)
  BY DEF Lowered
<1>b. /\ (i.contract = "soft") \in BOOLEAN /\ (i.path = "warn") \in BOOLEAN
      /\ i.predicted \in BOOLEAN /\ (Level(r) # "CLEAR") \in BOOLEAN
      /\ i.drift \in BOOLEAN /\ i.pq \in BOOLEAN /\ i.outside \in BOOLEAN
  BY DEF AllReports
<1>r. x0 \in Results /\ x0.verdict = DetermineVerdict(r, i)
  BY RouteResult
<1> HIDE DEF x0
<1>1. /\ x1 \in Results /\ Below(x0, x1)
      /\ i.contract = "soft" => "contract_soft" \in x1.flags
      /\ x1.verdict = "PERMIT" => x0.verdict = "PERMIT" /\ i.contract # "soft"
  BY <1>r, <1>b, MergeLowers, Markers
<1> HIDE DEF x1
<1>2. /\ x2 \in Results /\ Below(x1, x2)
      /\ i.path = "warn" => "path_warn" \in x2.flags
      /\ x2.verdict = "PERMIT" => x1.verdict = "PERMIT" /\ i.path # "warn"
  BY <1>1, <1>b, MergeLowers, Markers
<1> HIDE DEF x2
<1>3. /\ x3 \in Results /\ Below(x2, x3)
      /\ x3.verdict = "PERMIT" => x2.verdict = "PERMIT" /\ ~i.predicted
  BY <1>2, <1>b, HoldLowers, Markers
<1> HIDE DEF x3
<1>4. /\ x4 \in Results /\ Below(x3, x4)
      /\ x4.verdict = "PERMIT" => x3.verdict = "PERMIT" /\ Level(r) = "CLEAR"
  BY <1>3, <1>b, HoldLowers, Markers
<1> HIDE DEF x4
<1>5. /\ x5 \in Results /\ Below(x4, x5)
      /\ x5.verdict = "PERMIT" => x4.verdict = "PERMIT" /\ ~i.drift
  BY <1>4, <1>b, HoldLowers, Markers
<1> HIDE DEF x5
<1>6. /\ x6 \in Results /\ Below(x5, x6)
      /\ x6.verdict = "PERMIT" => x5.verdict = "PERMIT" /\ ~i.pq
  BY <1>5, <1>b, HoldLowers, Markers
<1> HIDE DEF x6
<1>7. /\ x7 \in Results /\ Below(x6, x7)
      /\ x7.verdict = "PERMIT" => x6.verdict = "PERMIT" /\ ~i.outside
  BY <1>6, <1>b, HoldLowers, Markers
<1> HIDE DEF x7
<1>8. Below(x2, x7)
  <2>1. Below(x2, x4)  BY <1>2, <1>3, <1>4, BelowTrans
  <2>2. Below(x2, x5)  BY <2>1, <1>2, <1>4, <1>5, BelowTrans
  <2>3. Below(x2, x6)  BY <2>2, <1>2, <1>5, <1>6, BelowTrans
  <2>4. QED            BY <2>3, <1>2, <1>6, <1>7, BelowTrans
<1>9. Below(x1, x7)
  BY <1>8, <1>1, <1>2, <1>7, BelowTrans
<1>10. Below(x0, x7)
  BY <1>9, <1>r, <1>1, <1>7, BelowTrans
<1>11. x1.flags \subseteq x7.flags /\ x2.flags \subseteq x7.flags
  BY <1>8, <1>9 DEF Below
<1>12. QED
  <2> SUFFICES /\ x7 \in Results
               /\ Below(x0, x7)
               /\ i.contract = "soft" => "contract_soft" \in x7.flags
               /\ i.path = "warn" => "path_warn" \in x7.flags
               /\ x7.verdict = "PERMIT" =>
                    /\ DetermineVerdict(r, i) = "PERMIT"
                    /\ i.contract # "soft" /\ i.path # "warn" /\ Level(r) = "CLEAR"
                    /\ ~i.predicted /\ ~i.drift /\ ~i.pq /\ ~i.outside
    BY <1>0 DEF x0
  <2> QED
    BY <1>r, <1>1, <1>2, <1>3, <1>4, <1>5, <1>6, <1>7, <1>10, <1>11

\* An ABSTAIN that the precedent step may raise is the router's own: nothing
\* after the router has lowered it, and no flag speaks of a violation.
LEMMA RaisedFromRouter ==
    ASSUME NEW r, NEW i \in AllReports, HasAgent(r), ~HardViolation(r, i),
           Lowered(r, i).verdict = "ABSTAIN", Lowered(r, i).flags \subseteq Discretionary
    PROVE  /\ DetermineVerdict(r, i) = "ABSTAIN"
           /\ ~Parked(r, i)
           /\ NoViolation(r, i)
<1>1. UncertaintyFlags(r, i) \subseteq Discretionary
  BY LoweredResult, RouteResult DEF Below
<1>2. DetermineVerdict(r, i) = "ABSTAIN"
  <2>1. DetermineVerdict(r, i) \in {"PERMIT", "ABSTAIN", "FORBID"}
    BY DEF DetermineVerdict
  <2>2. QED
    BY <2>1, LoweredResult, RouteResult DEF Below
<1>3. ~Forbids(r, i)
  BY <1>2 DEF DetermineVerdict
<1>4. /\ i.contract \in {"none", "soft", "hard"} /\ i.path \in {"none", "warn", "block"}
      /\ i.life \in {"ACTIVE", "PENDING", "QUARANTINED", "SLEEPING"} /\ i.score \in 0..5
  BY DEF AllReports, Scores, ForbidAt
<1>5. i.contract = "none" /\ i.path = "none"
  BY <1>4, LoweredResult DEF Discretionary, HardViolation
<1>6. /\ ~i.marked /\ ~i.noContext /\ ~(Finding(r, i) /\ ~i.blocked)
      /\ i.life # "QUARANTINED" /\ i.life # "SLEEPING" /\ i.life # "PENDING" /\ ~i.streak
  <2> DEFINE noted == UncertaintyFlags(r, i)
  <2>1. /\ i.marked => "stream_marker" \in noted
        /\ i.noContext => "no_retrieval_context" \in noted
        /\ Finding(r, i) /\ ~i.blocked => "deterministic_findings_present" \in noted
        /\ i.life = "QUARANTINED" => "agent_quarantined" \in noted
        /\ i.life = "SLEEPING" => "agent_sleeping" \in noted
        /\ i.life = "PENDING" => "agent_pending" \in noted
        /\ i.streak => "forbid_streak" \in noted
    BY DEF UncertaintyFlags, If
  <2>2. QED
    BY <1>1, <2>1 DEF Discretionary
<1>7. ~Parked(r, i)
  BY <1>6 DEF Parked
<1>8. /\ ~i.blocked /\ ~i.dominant /\ ~(i.semantic = "FORBID" /\ i.score >= PermitAt)
      /\ ~(i.score >= ForbidAt)
  BY <1>3, <1>7 DEF Forbids
<1>9. i.score < ForbidAt
  BY <1>4, <1>8 DEF ForbidAt
<1>10. /\ ~i.finding /\ (i.listed => Level(r) = "CLEAR") /\ Level(r) # "HARD"
  BY <1>6, <1>8 DEF Finding, HardViolation
<1>11. QED
  BY <1>2, <1>4, <1>5, <1>6, <1>7, <1>8, <1>9, <1>10 DEF NoViolation

\* A PERMIT that no stage has lowered has nothing against it.
LEMMA PermitIsQuiet ==
    ASSUME NEW r, NEW i \in AllReports, ~HardViolation(r, i),
           Lowered(r, i).verdict = "PERMIT"
    PROVE  Quiet(r, i)
<1>1. /\ DetermineVerdict(r, i) = "PERMIT"
      /\ i.contract # "soft" /\ i.path # "warn" /\ Level(r) = "CLEAR"
      /\ ~i.predicted /\ ~i.drift /\ ~i.pq /\ ~i.outside
  BY LoweredResult
<1>2. ~ShouldAbstain(r, i) /\ PositivelyClean(i)
  BY <1>1 DEF DetermineVerdict
<1>3. i.contract = "none" /\ i.path = "none" /\ i.score \in 0..5
  BY <1>1 DEF AllReports, HardViolation, Scores, ForbidAt
<1>4. ~(i.weak /\ i.score = PermitAt) /\ ~(i.noContext /\ i.score = PermitAt)
  BY <1>2 DEF ShouldAbstain, PermitAt
<1>5. ~i.lowDimension /\ ~i.risky /\ (HasAgent(r) => ~i.streak)
  BY <1>2 DEF ShouldAbstain
<1>6. QED
  BY <1>1, <1>2, <1>3, <1>4, <1>5 DEF Quiet

-----------------------------------------------------------------------------
(* The evaluations.                                                        *)

\* r has been raised by precedent from the judgment of its report.
Raised(r) ==
    LET res == result[r]  i == result[r].report IN
    /\ i \in AllReports /\ ~HardViolation(r, i) /\ HasAgent(r)
    /\ i.autoresolve /\ i.history = "unanimous"
    /\ Lowered(r, i).verdict = "ABSTAIN" /\ Lowered(r, i).flags \subseteq Discretionary
    /\ res.base = Lowered(r, i).base /\ res.verdict = "PERMIT"

Judged(r) == result[r].report \in AllReports /\ result[r] = Judgment(r, result[r].report)

\* Every decided request has the judgment of its report, or is one that the
\* sealed precedents have raised from it.
Accounted ==
    \A r \in Requests :
        /\ pc[r] = "judged" => Judged(r)
        /\ pc[r] = "decided" => IF r \in sealed THEN Raised(r) ELSE Judged(r)
        /\ pc[r] # "decided" => r \notin sealed

Inv == TypeOK /\ Accounted /\ Assessed

USE DEF Verdicts

LEMMA JudgmentResult ==
    ASSUME NEW r, NEW i \in AllReports
    PROVE  Judgment(r, i) \in Results /\ Judgment(r, i).report = i
<1>1. Forbidden(i) \in Results /\ Forbidden(i).report = i
  BY DEF Forbidden, Results
<1>2. Lowered(r, i) \in Results /\ Lowered(r, i).report = i
  BY LoweredResult, RouteResult DEF Below
<1>3. QED
  BY <1>1, <1>2 DEF Judgment

LEMMA LevelOfCount == ASSUME NEW n, NEW m PROVE Classify(n, m) \in {"CLEAR", "SOFT", "HARD"}
BY DEF Classify

-----------------------------------------------------------------------------
(* The prune loop.                                                         *)

\* A set of positions has a first one.
LEMMA FirstPosition ==
    ASSUME NEW T, T \subseteq Nat, T # {}
    PROVE  \E x \in T : \A y \in T : x <= y
<1> DEFINE R == OpToRel(<, Nat)
<1>1. IsWellFoundedOn(R, Nat)
  BY NatLessThanWellFounded
<1>2. \A x, y \in Nat : <<y, x>> \in R <=> y < x
  BY DEF OpToRel
<1> HIDE DEF R
<1>3. PICK x \in T : \A y \in T : ~(<<y, x>> \in R)
  BY <1>1, WFMin
<1>4. ASSUME NEW y \in T PROVE x <= y
  <2>1. x \in Nat /\ y \in Nat
    OBVIOUS
  <2>2. ~(y < x)
    BY <1>2, <1>3, <2>1
  <2>3. QED
    BY <2>1, <2>2
<1>5. QED
  BY <1>4

\* Pruning keeps the part from the first entry that is inside the window.
LEMMA PrunedFacts ==
    ASSUME NEW win \in Seq(Requests), NEW t
    PROVE  \E f \in 1..(Len(win) + 1) :
              /\ Pruned(win, t) = SubSeq(win, f, Len(win))
              /\ \A k \in 1..(f - 1) : ~(stamp[win[k]] > t - Window)
              /\ f <= Len(win) => stamp[win[f]] > t - Window
<1> DEFINE keep == {k \in DOMAIN win : stamp[win[k]] > t - Window}
           first == IF keep = {} THEN Len(win) + 1
                    ELSE CHOOSE k \in keep : \A j \in keep : k <= j
<1>0. Len(win) \in Nat /\ DOMAIN win = 1..Len(win) /\ keep \subseteq 1..Len(win)
  OBVIOUS
<1>1. Pruned(win, t) = SubSeq(win, first, Len(win))
  BY DEF Pruned
<1>2. CASE keep = {}
  <2>1. first = Len(win) + 1
    BY <1>2
  <2>2. \A k \in 1..Len(win) : ~(stamp[win[k]] > t - Window)
    BY <1>0, <1>2
  <2> HIDE DEF first, keep
  <2>3. /\ first \in 1..(Len(win) + 1) /\ ~(first <= Len(win))
        /\ 1..(first - 1) = 1..Len(win)
    BY <1>0, <2>1
  <2>4. QED
    BY <1>1, <2>2, <2>3
<1>3. CASE keep # {}
  <2>1. first = CHOOSE k \in keep : \A j \in keep : k <= j
    BY <1>3
  <2>2. \E x \in keep : \A y \in keep : x <= y
    <3>1. keep \subseteq Nat
      BY <1>0
    <3> HIDE DEF keep
    <3>2. QED
      BY <1>3, <3>1, FirstPosition
  <2>3. first \in keep /\ \A j \in keep : first <= j
    BY <2>1, <2>2
  <2>4. first \in 1..Len(win) /\ stamp[win[first]] > t - Window
    BY <2>3
  <2>5. ASSUME NEW k \in 1..(first - 1) PROVE ~(stamp[win[k]] > t - Window)
    <3>1. k \in DOMAIN win /\ ~(first <= k)
      BY <1>0, <2>4
    <3>2. QED
      BY <2>3, <3>1
  <2>6. first \in 1..(Len(win) + 1)
    BY <1>0, <2>4
  <2> HIDE DEF first, keep
  <2>7. QED
    BY <1>1, <2>4, <2>5, <2>6
<1>4. QED
  BY <1>2, <1>3

\* The part of a sequence from position f, with one more entry.
LEMMA SuffixFacts ==
    ASSUME NEW win \in Seq(Requests), NEW f \in 1..(Len(win) + 1), NEW r \in Requests
    PROVE  LET new == Append(SubSeq(win, f, Len(win)), r)  n == Len(win) + 1 - f IN
           /\ new \in Seq(Requests) /\ n \in Nat
           /\ Len(new) = n + 1 /\ DOMAIN new = 1..(n + 1)
           /\ \A k \in 1..n : k + f - 1 \in DOMAIN win /\ new[k] = win[k + f - 1]
           /\ new[n + 1] = r
<1> DEFINE n == Len(win) + 1 - f
           sub == SubSeq(win, f, Len(win))
<1>1. /\ sub \in Seq(Requests) /\ n \in Nat /\ Len(sub) = n
      /\ \A k \in 1..n : sub[k] = win[f + k - 1]
  OBVIOUS
<1>2. \A k \in 1..n : k + f - 1 \in DOMAIN win /\ f + k - 1 = k + f - 1
  OBVIOUS
<1> HIDE DEF sub, n
<1>3. /\ Append(sub, r) \in Seq(Requests) /\ Len(Append(sub, r)) = n + 1
      /\ DOMAIN Append(sub, r) = 1..(n + 1)
      /\ \A k \in 1..n : Append(sub, r)[k] = sub[k]
      /\ Append(sub, r)[n + 1] = r
  BY <1>1
<1>4. QED
  BY <1>1, <1>2, <1>3 DEF n, sub

\* The initial states.
LEMMA InvInit == Init => Inv
<1> SUFFICES ASSUME Init PROVE Inv
  OBVIOUS
<1>1. stamp \in [Requests -> Nat]
  BY CadenceAssumption DEF Init
<1>2. TypeOK
  BY <1>1 DEF Init, TypeOK, NoResult
<1>3. Accounted /\ Assessed
  BY DEF Init, Accounted, Assessed
<1>4. QED
  BY <1>2, <1>3 DEF Inv

LEMMA TypeStep == Inv /\ [Next]_vars => TypeOK'
<1> SUFFICES ASSUME Inv, [Next]_vars PROVE TypeOK'
  OBVIOUS
<1> USE DEF Inv, TypeOK, request
<1>1. ASSUME NEW r \in Requests, Observe(r) PROVE TypeOK'
  <2>0. CASE ~(HasAgent(r) /\ memo[id[r]] = "none")
    BY <1>1, <2>0 DEF Observe
  <2>1. CASE HasAgent(r) /\ memo[id[r]] = "none"
    <3> DEFINE win == window[agent[r]]
    <3>1. agent[r] \in Agents /\ win \in Seq(Requests)
      BY <2>1 DEF HasAgent
    <3> DEFINE new == Append(Pruned(win, stamp[r]), r)
               level == Classify(Len(new), Fanout(Entries(new)))
    <3>2. /\ window' = [window EXCEPT ![agent[r]] = new]
          /\ memo' = [memo EXCEPT ![id[r]] = level]
          /\ order' = Append(order, r)
          /\ pc' = [pc EXCEPT ![r] = "observed"]
          /\ UNCHANGED <<stamp, agent, id, result, sealed>> /\ pc[r] = "received"
      BY <1>1, <2>1 DEF Observe
    <3>3. level \in {"CLEAR", "SOFT", "HARD"}
      BY LevelOfCount
    <3> HIDE DEF win, level
    <3>4. PICK f \in 1..(Len(win) + 1) : Pruned(win, stamp[r]) = SubSeq(win, f, Len(win))
      BY <3>1, PrunedFacts
    <3>5. new \in Seq(Requests)
      BY <3>1, <3>4, SuffixFacts
    <3> HIDE DEF new
    <3>6. order' \in Seq(Requests)
      BY <3>2
    <3>7. window' \in [Agents -> Seq(Requests)]
      BY <3>2, <3>5
    <3>8. memo' \in [Ids -> {"none", "CLEAR", "SOFT", "HARD"}]
      BY <3>2, <3>3
    <3>9. QED
      BY <3>2, <3>6, <3>7, <3>8
  <2>2. QED
    BY <2>0, <2>1
<1>2. ASSUME NEW r \in Requests, Judge(r) PROVE TypeOK'
  <2>1. PICK i \in Reports[r] : result' = [result EXCEPT ![r] = Judgment(r, i)]
    BY <1>2 DEF Judge, Judgment
  <2>2. i \in AllReports
    BY ReportsAssumption
  <2>3. Judgment(r, i) \in Results
    BY <2>2, JudgmentResult
  <2>4. QED
    BY <1>2, <2>1, <2>3 DEF Judge
<1>3. ASSUME NEW r \in Requests, Resolve(r) PROVE TypeOK'
  <2>1. result[r] \in Results
    BY <1>3 DEF Resolve
  <2>2. [result[r] EXCEPT !.verdict = "PERMIT", !.flags = @ \union {"precedent_autoresolved"}] \in Results
    BY <2>1 DEF Results, Flags
  <2>3. /\ result'[r] \in Results /\ DOMAIN result' = Requests
        /\ \A q \in Requests \ {r} : result'[q] = result[q]
    BY <1>3, <2>2 DEF Resolve
  <2>4. QED
    BY <1>3, <2>3 DEF Resolve
<1>4. ASSUME NEW r \in Requests, Stand(r) \/ Raise(r) PROVE TypeOK'
  BY <1>4 DEF Stand, Raise
<1>5. CASE UNCHANGED vars
  BY <1>5 DEF vars
<1>6. QED
  BY <1>1, <1>2, <1>3, <1>4, <1>5 DEF Next, Evaluate

\* What a judgment depends on does not change once the request is judged.
LEMMA SameJudgment ==
    ASSUME NEW r, NEW i, agent'[r] = agent[r], id'[r] = id[r],
           HasAgent(r) => memo'[id[r]] = memo[id[r]]
    PROVE  /\ HasAgent(r)' = HasAgent(r)
           /\ HardViolation(r, i)' = HardViolation(r, i)
           /\ Lowered(r, i)' = Lowered(r, i)
           /\ Judgment(r, i)' = Judgment(r, i)
<1>1. HasAgent(r)' = HasAgent(r) /\ Level(r)' = Level(r)
  BY DEF HasAgent, Level
<1>2. HardViolation(r, i)' = HardViolation(r, i)
  BY <1>1 DEF HardViolation
<1>3. DetermineVerdict(r, i)' = DetermineVerdict(r, i)
  <2>1. Parked(r, i)' = Parked(r, i) /\ ShouldAbstain(r, i)' = ShouldAbstain(r, i)
    BY <1>1 DEF Parked, ShouldAbstain
  <2>2. Forbids(r, i)' = Forbids(r, i)
    BY <1>1, <2>1 DEF Forbids
  <2>3. QED
    BY <2>1, <2>2 DEF DetermineVerdict
<1>4. UncertaintyFlags(r, i)' = UncertaintyFlags(r, i)
  BY <1>1 DEF UncertaintyFlags, Finding
<1>5. Route(r, i)' = Route(r, i)
  BY <1>3, <1>4 DEF Route
<1>6. Lowered(r, i)' = Lowered(r, i)
  BY <1>1, <1>5 DEF Lowered
<1>7. Judgment(r, i)' = Judgment(r, i)
  BY <1>2, <1>6 DEF Judgment
<1>8. QED
  BY <1>1, <1>2, <1>6, <1>7

\* A step that leaves a request's facts alone leaves it accounted for.
LEMMA KeepsAccount ==
    ASSUME NEW r, agent'[r] = agent[r], id'[r] = id[r],
           HasAgent(r) => memo'[id[r]] = memo[id[r]],
           result'[r] = result[r]
    PROVE  (Judged(r) => Judged(r)') /\ (Raised(r) => Raised(r)')
<1> DEFINE i == result[r].report
<1>1. /\ HasAgent(r)' = HasAgent(r)
      /\ HardViolation(r, i)' = HardViolation(r, i)
      /\ Lowered(r, i)' = Lowered(r, i)
      /\ Judgment(r, i)' = Judgment(r, i)
  <2>1. /\ HasAgent(r)' = HasAgent(r)
        /\ \A j : /\ (HardViolation(r, j)' = HardViolation(r, j))
                  /\ (Lowered(r, j)' = Lowered(r, j))
                  /\ (Judgment(r, j)' = Judgment(r, j))
    BY SameJudgment
  <2>2. QED
    BY <2>1
<1> QED
  BY <1>1 DEF Judged, Raised

AccountOf(r) ==
    /\ pc[r] = "judged" => Judged(r)
    /\ pc[r] = "decided" => IF r \in sealed THEN Raised(r) ELSE Judged(r)
    /\ pc[r] # "decided" => r \notin sealed

\* A step of another request leaves a request accounted for.
LEMMA AccountKept ==
    ASSUME NEW r, AccountOf(r), pc'[r] = pc[r], agent'[r] = agent[r], id'[r] = id[r],
           HasAgent(r) /\ pc[r] \in {"judged", "decided"} => memo'[id[r]] = memo[id[r]],
           pc[r] \in {"judged", "decided"} => result'[r] = result[r],
           (r \in sealed') <=> (r \in sealed)
    PROVE  AccountOf(r)'
<1>1. CASE pc[r] \in {"judged", "decided"}
  <2>1. (Judged(r) => Judged(r)') /\ (Raised(r) => Raised(r)')
    BY <1>1, KeepsAccount
  <2>2. QED
    BY <1>1, <2>1 DEF AccountOf
<1>2. CASE pc[r] \notin {"judged", "decided"}
  BY <1>2 DEF AccountOf
<1>3. QED
  BY <1>1, <1>2

\* The memo only gains levels, and an assessed request has one.
LEMMA MemoGrows ==
    ASSUME TypeOK, NEW r \in Requests, Observe(r)
    PROVE  /\ \A i \in Ids : memo[i] # "none" => memo'[i] = memo[i]
           /\ HasAgent(r) => memo'[id[r]] # "none"
<1>0. memo \in [Ids -> {"none", "CLEAR", "SOFT", "HARD"}] /\ id[r] \in Ids
  BY DEF TypeOK
<1>1. CASE HasAgent(r) /\ memo[id[r]] = "none"
  <2>1. PICK n, m : memo' = [memo EXCEPT ![id[r]] = Classify(n, m)]
    BY <1>1 DEF Observe
  <2>2. Classify(n, m) \in {"CLEAR", "SOFT", "HARD"}
    BY LevelOfCount
  <2>3. QED
    BY <1>0, <1>1, <2>1, <2>2
<1>2. CASE ~(HasAgent(r) /\ memo[id[r]] = "none")
  BY <1>2 DEF Observe
<1>3. QED
  BY <1>1, <1>2

LEMMA AssessedStep == Inv /\ [Next]_vars => Assessed'
<1> SUFFICES ASSUME Inv, [Next]_vars, NEW q \in Requests, HasAgent(q)',
                    pc'[q] \in {"observed", "judged", "decided"}
             PROVE  memo'[id'[q]] # "none"
  BY DEF Assessed
<1>0. TypeOK /\ Assessed
  BY DEF Inv
<1>1. agent' = agent /\ id' = id
  BY DEF Next, Evaluate, Observe, Judge, Resolve, Stand, Raise, request, vars
<1>2. HasAgent(q) /\ id[q] \in Ids
  BY <1>0, <1>1 DEF HasAgent, TypeOK
<1>3. ASSUME NEW r \in Requests, Observe(r) PROVE memo'[id'[q]] # "none"
  <2>1. CASE q = r
    BY <1>0, <1>1, <1>2, <1>3, <2>1, MemoGrows
  <2>2. CASE q # r
    <3>1. pc'[q] = pc[q]
      BY <1>0, <1>3, <2>2 DEF Observe, TypeOK
    <3>2. memo[id[q]] # "none"
      BY <1>0, <1>2, <3>1 DEF Assessed
    <3>3. QED
      BY <1>0, <1>1, <1>2, <1>3, <3>2, MemoGrows
  <2>3. QED
    BY <2>1, <2>2
<1>4. ASSUME NEW r \in Requests, Judge(r) \/ Resolve(r) \/ Stand(r) \/ Raise(r)
      PROVE  memo'[id'[q]] # "none"
  <2>1. memo' = memo /\ pc[q] \in {"observed", "judged", "decided"}
    BY <1>0, <1>4 DEF Judge, Resolve, Stand, Raise, TypeOK
  <2>2. QED
    BY <1>0, <1>1, <1>2, <2>1 DEF Assessed
<1>5. CASE UNCHANGED vars
  BY <1>0, <1>2, <1>5 DEF vars, Assessed, request
<1>6. QED
  BY <1>3, <1>4, <1>5 DEF Next, Evaluate

LEMMA AccountStep == Inv /\ [Next]_vars => Accounted'
<1> SUFFICES ASSUME Inv, [Next]_vars, NEW q \in Requests PROVE AccountOf(q)'
  BY DEF Accounted, AccountOf
<1> USE DEF request
<1>0. TypeOK /\ Assessed /\ AccountOf(q)
  BY DEF Inv, Accounted, AccountOf
<1>1. ASSUME NEW r \in Requests, Observe(r) PROVE AccountOf(q)'
  <2>1. CASE q = r
    BY <1>0, <1>1, <2>1 DEF Observe, AccountOf, TypeOK
  <2>2. CASE q # r
    <3>1. HasAgent(q) /\ pc[q] \in {"judged", "decided"} => memo'[id[q]] = memo[id[q]]
      BY <1>0, <1>1, MemoGrows DEF Assessed, TypeOK
    <3>2. QED
      BY <1>0, <1>1, <2>2, <3>1, AccountKept DEF Observe, TypeOK
  <2>3. QED
    BY <2>1, <2>2
<1>2. ASSUME NEW r \in Requests, Judge(r) PROVE AccountOf(q)'
  <2>1. CASE q = r
    <3>1. PICK i \in Reports[r] : result' = [result EXCEPT ![r] = Judgment(r, i)]
      BY <1>2 DEF Judge, Judgment
    <3>2. i \in AllReports
      BY ReportsAssumption
    <3>3. result'[r] = Judgment(r, i) /\ result'[r].report = i
      BY <1>0, <3>1, <3>2, JudgmentResult DEF TypeOK
    <3>4. Judgment(r, i)' = Judgment(r, i)
      BY <1>2, SameJudgment DEF Judge
    <3>5. Judged(r)'
      BY <3>2, <3>3, <3>4 DEF Judged
    <3>6. pc'[r] = "judged" /\ r \notin sealed'
      BY <1>0, <1>2, <2>1 DEF Judge, AccountOf, TypeOK
    <3>7. QED
      BY <2>1, <3>5, <3>6 DEF AccountOf
  <2>2. CASE q # r
    BY <1>0, <1>2, <2>2, AccountKept DEF Judge, TypeOK
  <2>3. QED
    BY <2>1, <2>2
<1>3. ASSUME NEW r \in Requests, Resolve(r) PROVE AccountOf(q)'
  <2>1. CASE q = r
    <3> DEFINE res == result[r]
               i == result[r].report
    <3>1. Judged(r) /\ res \in Results
      BY <1>0, <1>3, <2>1 DEF AccountOf, Resolve, TypeOK
    <3>2. /\ res.verdict = "ABSTAIN" /\ res.flags \subseteq Discretionary
          /\ HasAgent(r) /\ i.autoresolve /\ i.history = "unanimous"
      BY <1>3 DEF Resolve, Eligible
    <3>3. ~HardViolation(r, i) /\ res = Lowered(r, i) /\ i \in AllReports
      BY <3>1, <3>2 DEF Judged, Judgment, Forbidden
    <3>4. /\ result'[r].base = res.base /\ result'[r].verdict = "PERMIT"
          /\ result'[r].report = i
      BY <1>0, <1>3, <3>1 DEF Resolve, TypeOK, Results
    <3>5. \A j : /\ HasAgent(r)' = HasAgent(r)
                 /\ (HardViolation(r, j)' = HardViolation(r, j))
                 /\ (Lowered(r, j)' = Lowered(r, j))
      BY <1>3, SameJudgment DEF Resolve
    <3>6. Raised(r)'
      BY <3>2, <3>3, <3>4, <3>5 DEF Raised
    <3>7. pc'[r] = "decided" /\ r \in sealed'
      BY <1>0, <1>3 DEF Resolve, TypeOK
    <3>8. QED
      BY <2>1, <3>6, <3>7 DEF AccountOf
  <2>2. CASE q # r
    BY <1>0, <1>3, <2>2, AccountKept DEF Resolve, TypeOK
  <2>3. QED
    BY <2>1, <2>2
<1>4. ASSUME NEW r \in Requests, Stand(r) PROVE AccountOf(q)'
  <2>1. CASE q = r
    <3>1. Judged(r)'
      BY <1>0, <1>4, <2>1, KeepsAccount DEF AccountOf, Stand
    <3>2. pc'[r] = "decided" /\ r \notin sealed'
      BY <1>0, <1>4, <2>1 DEF Stand, AccountOf, TypeOK
    <3>3. QED
      BY <2>1, <3>1, <3>2 DEF AccountOf
  <2>2. CASE q # r
    BY <1>0, <1>4, <2>2, AccountKept DEF Stand, TypeOK
  <2>3. QED
    BY <2>1, <2>2
<1>5. ASSUME NEW r \in Requests, Raise(r) PROVE AccountOf(q)'
  <2>1. CASE q = r
    BY <1>0, <1>5, <2>1 DEF Raise, AccountOf, TypeOK
  <2>2. CASE q # r
    BY <1>0, <1>5, <2>2, AccountKept DEF Raise, TypeOK
  <2>3. QED
    BY <2>1, <2>2
<1>6. CASE UNCHANGED vars
  BY <1>0, <1>6, AccountKept DEF vars
<1>7. QED
  BY <1>1, <1>2, <1>3, <1>4, <1>5, <1>6 DEF Next, Evaluate

LEMMA InvHolds == Spec => []Inv
<1>1. Inv /\ [Next]_vars => Inv'
  BY TypeStep, AccountStep, AssessedStep DEF Inv
<1>2. QED
  BY <1>1, InvInit, PTL DEF Spec

-----------------------------------------------------------------------------
(* The cadence.                                                            *)

\* A sequence without repetition has as many entries as elements.
LEMMA OnceEach ==
    ASSUME NEW s \in Seq(Requests), \A j, k \in DOMAIN s : s[j] = s[k] => j = k
    PROVE  LET S == {s[k] : k \in DOMAIN s} IN IsFiniteSet(S) /\ Cardinality(S) = Len(s)
<1> DEFINE S == {s[k] : k \in DOMAIN s}
<1>1. Len(s) \in Nat /\ DOMAIN s = 1..Len(s)
  OBVIOUS
<1>2. s \in [1..Len(s) -> S] /\ \A x \in S : \E k \in 1..Len(s) : s[k] = x
  BY <1>1
<1>3. \A j, k \in 1..Len(s) : s[j] = s[k] => j = k
  BY <1>1
<1> HIDE DEF S
<1>4. s \in Bijection(1..Len(s), S)
  BY <1>2, <1>3 DEF Bijection, Injection, Surjection, IsInjective
<1>5. ExistsBijection(1..Len(s), S)
  BY <1>4 DEF ExistsBijection
<1>6. QED
  BY <1>1, <1>5, FS_CountingElements, FS_NatBijection DEF S

\* More actions and more targets have no lower level.
LEMMA LevelsRise ==
    ASSUME NEW c \in Nat, NEW n \in Nat, c <= n, NEW d \in Nat, NEW m \in Nat, d <= m
    PROVE  /\ Classify(c, d) = "HARD" => Classify(n, m) = "HARD"
           /\ Classify(c, d) # "CLEAR" => Classify(n, m) # "CLEAR"
BY CadenceAssumption DEF Classify

\* A part of the requests has no more targets than all of them.
LEMMA FanoutRises ==
    ASSUME NEW S, S \subseteq Requests, IsFiniteSet(S), NEW T, T \subseteq S
    PROVE  Fanout(T) \in Nat /\ Fanout(S) \in Nat /\ Fanout(T) <= Fanout(S)
<1> DEFINE all == UNION {Targets[q] : q \in S}
           some == UNION {Targets[q] : q \in T}
           sets == {Targets[q] : q \in S}
<1>1. IsFiniteSet(sets)
  <2> DEFINE f == [q \in S |-> Targets[q]]
  <2>1. f \in [S -> sets] /\ \A X \in sets : \E q \in S : f[q] = X
    OBVIOUS
  <2> HIDE DEF f, sets
  <2>2. f \in Surjection(S, sets)
    BY <2>1 DEF Surjection
  <2>3. QED
    BY <2>2, FS_Surjection
<1>2. \A X \in sets : IsFiniteSet(X)
  BY CadenceAssumption
<1>3. IsFiniteSet(all)
  <2> HIDE DEF sets
  <2>1. IsFiniteSet(UNION sets)
    BY <1>1, <1>2, FS_UNION
  <2>2. QED
    BY <2>1 DEF sets
<1>4. some \subseteq all
  OBVIOUS
<1> HIDE DEF all, some
<1>5. IsFiniteSet(some) /\ Cardinality(some) <= Cardinality(all)
  BY <1>3, <1>4, FS_Subset
<1>6. Cardinality(all) \in Nat /\ Cardinality(some) \in Nat
  BY <1>3, <1>5, FS_CardinalityType
<1>7. QED
  BY <1>5, <1>6 DEF Fanout, all, some

LEMMA CadenceInit == Init => CadenceInv
BY DEF Init, CadenceInv, Assessed, OnceInv, WindowInv, CountInv, Observed, Entries

LEMMA BeforeObserved == \A r : Before(r) \subseteq Observed
BY DEF Before

\* A step that counts nothing leaves the tracker's facts alone.
LEMMA CadenceKept ==
    ASSUME CadenceInv, Assessed', UNCHANGED <<order, window, memo, stamp, agent, id>>
    PROVE  CadenceInv'
<1>1. Observed' = Observed /\ (InOrder' <=> InOrder)
  BY DEF Observed, InOrder
<1>2. \A q, p : Upto(q, p)' <=> Upto(q, p)
  BY DEF Upto
<1>3. ASSUME NEW r \in Observed PROVE RecentLevel(r)' = RecentLevel(r)
  <2>1. Before(r)' = Before(r)
    BY <1>1, <1>2 DEF Before
  <2>2. Recent(r)' = Recent(r)
    BY <1>2, <2>1 DEF Recent
  <2>3. QED
    BY <2>2 DEF RecentLevel
<1>4. OnceInv'
  BY <1>1 DEF CadenceInv, OnceInv, HasAgent
<1>5. WindowInv'
  BY <1>1, <1>2 DEF CadenceInv, WindowInv
<1>6. CountInv'
  BY <1>1, <1>3 DEF CadenceInv, CountInv
<1>7. QED
  BY <1>4, <1>5, <1>6 DEF CadenceInv

\* A request that is observed is counted with all that is recent.
LEMMA CadenceObserved ==
    ASSUME TypeOK, CadenceInv, Assessed', NEW r \in Requests, Observe(r), HasAgent(r),
           memo[id[r]] = "none"
    PROVE  CadenceInv'
<1> DEFINE a == agent[r]
           win == window[a]
           new == Append(Pruned(win, stamp[r]), r)
           last == Len(order) + 1
<1>1. /\ a \in Agents /\ win \in Seq(Requests) /\ order \in Seq(Requests)
      /\ stamp \in [Requests -> Nat] /\ Window \in Nat \ {0}
  BY CadenceAssumption DEF TypeOK, HasAgent
<1>2. /\ window' = [window EXCEPT ![a] = new]
      /\ memo' = [memo EXCEPT ![id[r]] = Classify(Len(new), Fanout(Entries(new)))]
      /\ order' = Append(order, r)
      /\ stamp' = stamp /\ agent' = agent /\ id' = id
  BY DEF Observe, request
<1>3. /\ Observed \subseteq Requests /\ \A k \in DOMAIN order : order[k] \in Observed
      /\ \A q \in Observed : id[q] # id[r]
      /\ r \notin Observed
  <2>1. Observed \subseteq Requests /\ \A k \in DOMAIN order : order[k] \in Observed
    BY <1>1 DEF Observed, Entries
  <2>2. \A q \in Observed : id[q] # id[r]
    BY DEF CadenceInv, OnceInv
  <2>3. QED
    BY <2>1, <2>2
<1>4. /\ last \in Nat \ {0} /\ DOMAIN order = 1..(last - 1) /\ DOMAIN order' = 1..last
      /\ \A k \in 1..(last - 1) : order'[k] = order[k]
      /\ order'[last] = r
  BY <1>1, <1>2
<1> HIDE DEF last
<1>5. Observed' = Observed \union {r}
  <2>1. Observed' \subseteq Observed \union {r}
    <3> SUFFICES ASSUME NEW k \in 1..last PROVE order'[k] \in Observed \union {r}
      BY <1>4 DEF Observed, Entries
    <3>1. k = last \/ k \in 1..(last - 1)
      BY <1>4
    <3>2. QED
      BY <1>3, <1>4, <3>1
  <2>2. Observed \subseteq Observed'
    <3> SUFFICES ASSUME NEW k \in 1..(last - 1) PROVE order[k] \in Observed'
      BY <1>4 DEF Observed, Entries
    <3>1. k \in DOMAIN order' /\ order'[k] = order[k]
      BY <1>4
    <3>2. QED
      BY <3>1 DEF Observed, Entries
  <2>3. r \in Observed'
    <3>1. last \in DOMAIN order'
      BY <1>4
    <3>2. QED
      BY <1>4, <3>1 DEF Observed, Entries
  <2>4. QED
    BY <2>1, <2>2, <2>3
<1>m. Classify(Len(new), Fanout(Entries(new))) # "none"
  <2> HIDE DEF new
  <2>1. QED
    BY LevelOfCount
<1>6. OnceInv'
  <2> HIDE DEF new
  <2>1. ASSUME NEW j \in 1..last, NEW k \in 1..last, id[order'[j]] = id[order'[k]] PROVE j = k
    <3>1. (j = last \/ j \in 1..(last - 1)) /\ (k = last \/ k \in 1..(last - 1))
      BY <1>4
    <3>2. QED
      BY <1>3, <1>4, <2>1, <3>1 DEF CadenceInv, OnceInv
  <2>2. ASSUME NEW q \in Observed' PROVE HasAgent(q)' /\ memo'[id[q]] # "none"
    <3>1. HasAgent(q)' = HasAgent(q) /\ id[q] \in Ids /\ id[r] \in Ids
      BY <1>2, <1>3, <1>5 DEF HasAgent, TypeOK
    <3>2. QED
      BY <1>2, <1>3, <1>5, <1>m, <3>1 DEF CadenceInv, OnceInv, TypeOK
  <2>3. QED
    BY <1>2, <1>4, <2>1, <2>2 DEF OnceInv
\* Who was counted before whom.
<1>u. /\ \A q, p \in Observed : Upto(q, p)' <=> Upto(q, p)
      /\ \A q \in Observed' : Upto(q, r)'
      /\ \A q \in Observed : ~Upto(r, q)'
  <2>1. ASSUME NEW q \in Observed, NEW p \in Observed PROVE Upto(q, p)' <=> Upto(q, p)
    <3>1. ASSUME NEW j \in 1..last, NEW k \in 1..last, order'[j] = q, order'[k] = p, j <= k
          PROVE  Upto(q, p)
      <4>1. j \in 1..(last - 1) /\ k \in 1..(last - 1)
        BY <1>3, <1>4, <3>1
      <4>2. QED
        BY <1>4, <3>1, <4>1 DEF Upto
    <3>2. ASSUME NEW j \in 1..(last - 1), NEW k \in 1..(last - 1), order[j] = q, order[k] = p,
                 j <= k
          PROVE  Upto(q, p)'
      <4>1. j \in DOMAIN order' /\ k \in DOMAIN order' /\ order'[j] = q /\ order'[k] = p
        BY <1>4, <3>2
      <4>2. QED
        BY <3>2, <4>1 DEF Upto
    <3>3. QED
      BY <1>4, <3>1, <3>2 DEF Upto
  <2>2. ASSUME NEW q \in Observed' PROVE Upto(q, r)'
    <3>1. PICK j \in DOMAIN order' : order'[j] = q
      BY DEF Observed, Entries
    <3>2. last \in DOMAIN order' /\ j <= last
      BY <1>4
    <3>3. QED
      BY <1>4, <3>1, <3>2 DEF Upto
  <2>3. ASSUME NEW q \in Observed, Upto(r, q)' PROVE FALSE
    <3>1. PICK j, k \in DOMAIN order' : order'[j] = r /\ order'[k] = q /\ j <= k
      BY <2>3 DEF Upto
    <3>2. j = last /\ k \in 1..(last - 1)
      BY <1>3, <1>4, <3>1
    <3>3. QED
      BY <1>4, <3>1, <3>2
  <2>4. QED
    BY <2>1, <2>2, <2>3
<1>7. InOrder' => InOrder /\ \A q \in Observed : stamp[q] <= stamp[r]
  <2> SUFFICES ASSUME InOrder' PROVE InOrder /\ \A q \in Observed : stamp[q] <= stamp[r]
    OBVIOUS
  <2>1. \A j, k \in 1..last : j < k => stamp[order'[j]] <= stamp[order'[k]]
    BY <1>2, <1>4 DEF InOrder
  <2>2. InOrder
    BY <1>4, <2>1 DEF InOrder
  <2>3. \A j \in 1..(last - 1) : stamp[order[j]] <= stamp[r]
    BY <1>4, <2>1
  <2>4. QED
    BY <1>4, <2>2, <2>3 DEF Observed, Entries
<1>8. PICK f \in 1..(Len(win) + 1) :
          /\ Pruned(win, stamp[r]) = SubSeq(win, f, Len(win))
          /\ \A k \in 1..(f - 1) : ~(stamp[win[k]] > stamp[r] - Window)
          /\ f <= Len(win) => stamp[win[f]] > stamp[r] - Window
  <2> HIDE DEF win
  <2>1. QED
    BY <1>1, PrunedFacts
<1>9. PICK n \in Nat :
          /\ n = Len(win) + 1 - f
          /\ new \in Seq(Requests) /\ Len(new) = n + 1 /\ DOMAIN new = 1..(n + 1)
          /\ \A k \in 1..n : k + f - 1 \in DOMAIN win /\ new[k] = win[k + f - 1]
          /\ new[n + 1] = r
  <2> DEFINE part == Append(SubSeq(win, f, Len(win)), r)
             m == Len(win) + 1 - f
  <2>1. new = part
    BY <1>8
  <2> HIDE DEF win, new
  <2>2. /\ part \in Seq(Requests) /\ m \in Nat
        /\ Len(part) = m + 1 /\ DOMAIN part = 1..(m + 1)
        /\ \A k \in 1..m : k + f - 1 \in DOMAIN win /\ part[k] = win[k + f - 1]
        /\ part[m + 1] = r
    BY <1>1, SuffixFacts
  <2>3. m = Len(win) + 1 - f
    OBVIOUS
  <2> HIDE DEF part, m
  <2>4. QED
    BY <2>1, <2>2, <2>3
<1>10. /\ \A j, k \in DOMAIN win : win[j] = win[k] => j = k
       /\ \A k \in DOMAIN win : win[k] \in Observed /\ agent[win[k]] = a
       /\ \A q \in Observed : agent[q] = a =>
              \/ \E k \in DOMAIN win : win[k] = q
              \/ \E p \in Observed :
                    agent[p] = a /\ Upto(q, p) /\ stamp[q] <= stamp[p] - Window
       /\ InOrder => \A j, k \in DOMAIN win : j < k => stamp[win[j]] <= stamp[win[k]]
  BY <1>1 DEF CadenceInv, WindowInv
<1>11. DOMAIN win = 1..Len(win) /\ Len(win) \in Nat
  BY <1>1
<1> HIDE DEF win, new
<1>12. \A k \in 1..(n + 1) : k = n + 1 \/ k \in 1..n
  OBVIOUS
<1>13. \A j, k \in DOMAIN new : new[j] = new[k] => j = k
  <2> SUFFICES ASSUME NEW j \in 1..(n + 1), NEW k \in 1..(n + 1), new[j] = new[k] PROVE j = k
    BY <1>9
  <2>1. \A i \in 1..n : new[i] # r
    BY <1>3, <1>9, <1>10
  <2>2. CASE j \in 1..n /\ k \in 1..n
    <3>1. j + f - 1 = k + f - 1
      BY <1>9, <1>10, <2>2
    <3>2. QED
      BY <2>2, <3>1
  <2>3. QED
    BY <1>9, <1>12, <2>1, <2>2
<1>14. \A k \in DOMAIN new : new[k] \in Observed' /\ agent[new[k]] = a
  <2> SUFFICES ASSUME NEW k \in 1..(n + 1) PROVE new[k] \in Observed' /\ agent[new[k]] = a
    BY <1>9
  <2>1. CASE k = n + 1
    <3>1. new[k] = r
      BY <1>9, <2>1
    <3>2. QED
      BY <1>5, <3>1 DEF a
  <2>2. CASE k \in 1..n
    <3>1. k + f - 1 \in DOMAIN win /\ new[k] = win[k + f - 1]
      BY <1>9, <2>2
    <3> HIDE DEF a
    <3>2. QED
      BY <1>5, <1>10, <3>1
  <2>3. QED
    BY <1>12, <2>1, <2>2
\* What is not in the new window is out of it for some later request.
<1>15. ASSUME NEW q \in Observed', agent[q] = a
       PROVE  \/ \E k \in DOMAIN new : new[k] = q
              \/ \E p \in Observed' :
                    agent[p] = a /\ Upto(q, p)' /\ stamp[q] <= stamp[p] - Window
  <2>1. CASE q = r
    BY <1>9, <2>1
  <2>2. CASE q # r
    <3>1. q \in Observed
      BY <1>5, <2>2
    <3>2. ASSUME NEW k \in DOMAIN win, win[k] = q, k < f PROVE stamp[q] <= stamp[r] - Window
      <4>1. k \in 1..(f - 1)
        BY <1>11, <3>2
      <4>2. stamp[q] \in Nat /\ stamp[r] \in Nat
        BY <1>1, <1>3, <3>1
      <4>3. QED
        BY <1>1, <1>8, <3>2, <4>1, <4>2
    <3>3. ASSUME NEW k \in DOMAIN win, win[k] = q, ~(k < f) PROVE \E i \in DOMAIN new : new[i] = q
      <4>1. k - f + 1 \in 1..n /\ (k - f + 1) + f - 1 = k /\ k - f + 1 \in 1..(n + 1)
        BY <1>9, <1>11, <3>3
      <4>2. QED
        BY <1>9, <3>3, <4>1
    <3>4. r \in Observed' /\ agent[r] = a /\ Upto(q, r)'
      BY <1>5, <1>u DEF a
    <3>5. CASE \E k \in DOMAIN win : win[k] = q
      BY <3>2, <3>3, <3>4, <3>5
    <3>6. CASE \E p \in Observed : agent[p] = a /\ Upto(q, p) /\ stamp[q] <= stamp[p] - Window
      BY <1>5, <1>u, <3>1, <3>6
    <3>7. QED
      BY <1>10, <1>15, <3>1, <3>5, <3>6
  <2>3. QED
    BY <2>1, <2>2
<1>16. ASSUME InOrder', NEW j \in DOMAIN new, NEW k \in DOMAIN new, j < k
       PROVE  stamp[new[j]] <= stamp[new[k]]
  <2>1. InOrder /\ \A q \in Observed : stamp[q] <= stamp[r]
    BY <1>7, <1>16
  <2>2. j \in 1..n
    BY <1>9, <1>16
  <2>3. CASE k = n + 1
    BY <1>9, <1>10, <2>1, <2>2, <2>3
  <2>4. CASE k \in 1..n
    <3>1. j + f - 1 < k + f - 1
      BY <1>16, <2>2, <2>4
    <3>2. QED
      BY <1>9, <1>10, <2>1, <2>2, <2>4, <3>1
  <2>5. QED
    BY <1>9, <1>12, <2>3, <2>4
<1>17. WindowInv'
  <2> SUFFICES ASSUME NEW b \in Agents
               PROVE  LET w == window'[b] IN
                      /\ \A j, k \in DOMAIN w : w[j] = w[k] => j = k
                      /\ \A k \in DOMAIN w : w[k] \in Observed' /\ agent[w[k]] = b
                      /\ \A q \in Observed' : agent[q] = b =>
                            \/ \E k \in DOMAIN w : w[k] = q
                            \/ \E p \in Observed' :
                                  agent[p] = b /\ Upto(q, p)' /\ stamp[q] <= stamp[p] - Window
                      /\ InOrder' => \A j, k \in DOMAIN w : j < k => stamp[w[j]] <= stamp[w[k]]
    BY <1>2 DEF WindowInv
  <2>1. CASE b = a
    <3>1. window'[b] = new
      BY <1>2, <2>1 DEF TypeOK
    <3>2. QED
      BY <2>1, <3>1, <1>13, <1>14, <1>15, <1>16
  <2>2. CASE b # a
    <3> DEFINE w == window[b]
    <3>1. window'[b] = w
      BY <1>2, <2>2 DEF TypeOK
    <3>2. /\ \A j, k \in DOMAIN w : w[j] = w[k] => j = k
          /\ \A k \in DOMAIN w : w[k] \in Observed /\ agent[w[k]] = b
          /\ \A q \in Observed : agent[q] = b =>
                \/ \E k \in DOMAIN w : w[k] = q
                \/ \E p \in Observed :
                      agent[p] = b /\ Upto(q, p) /\ stamp[q] <= stamp[p] - Window
          /\ InOrder => \A j, k \in DOMAIN w : j < k => stamp[w[j]] <= stamp[w[k]]
      BY DEF CadenceInv, WindowInv
    <3> HIDE DEF w
    <3>3. \A q \in Observed' : agent[q] = b => q \in Observed
      BY <1>5, <2>2 DEF a
    <3>4. QED
      BY <1>5, <1>7, <1>u, <3>1, <3>2, <3>3
  <2>3. QED
    BY <2>1, <2>2
\* The requests before one that was observed earlier are the same.
<1>18. ASSUME NEW q \in Observed PROVE Recent(q)' = Recent(q)
  <2>1. Before(q)' = Before(q)
    BY <1>2, <1>5, <1>u DEF Before
  <2>2. \A x, p \in Before(q) : Upto(x, p)' <=> Upto(x, p)
    BY <1>u, BeforeObserved
  <2>3. QED
    BY <1>2, <2>1, <2>2 DEF Recent
<1>19. Before(r)' = {q \in Observed' : agent[q] = a}
  BY <1>2, <1>u DEF Before, a
\* The window has everything recent, and nothing else if stamps are in order.
<1> DEFINE S == Entries(new)
<1>20. IsFiniteSet(S) /\ Cardinality(S) = n + 1 /\ S \subseteq Requests
  <2>1. S = {new[k] : k \in DOMAIN new} /\ S \subseteq Requests
    BY <1>9 DEF Entries
  <2>2. QED
    BY <1>9, <1>13, <2>1, OnceEach
<1>21. Recent(r)' \subseteq S
  <2> SUFFICES ASSUME NEW q \in Recent(r)' PROVE q \in S
    OBVIOUS
  <2>1. /\ q \in Observed' /\ agent[q] = a
        /\ \A p \in Before(r)' : Upto(q, p)' => stamp[q] > stamp[p] - Window
    BY <1>2, <1>19 DEF Recent
  <2>2. ASSUME NEW p \in Observed', agent[p] = a, Upto(q, p)' PROVE ~(stamp[q] <= stamp[p] - Window)
    <3>1. stamp[q] > stamp[p] - Window
      BY <1>19, <2>1, <2>2
    <3>2. stamp[q] \in Nat /\ stamp[p] \in Nat
      BY <1>1, <1>3, <1>5, <2>1, <2>2
    <3>3. QED
      BY <1>1, <3>1, <3>2
  <2>3. QED
    BY <1>15, <2>1, <2>2 DEF Entries
<1>22. ASSUME InOrder' PROVE S \subseteq Recent(r)'
  <2> SUFFICES ASSUME NEW k \in DOMAIN new, NEW p \in Before(r)'
               PROVE  stamp[new[k]] > stamp[p] - Window
    BY <1>2, <1>14, <1>19 DEF Recent, Entries
  <2>1. InOrder /\ (\A q \in Observed : stamp[q] <= stamp[r]) /\ p \in Observed'
    BY <1>7, <1>19, <1>22
  <2>2. stamp[p] \in Nat /\ stamp[r] \in Nat /\ stamp[p] <= stamp[r]
    BY <1>1, <1>3, <1>5, <2>1
  <2>3. CASE k = n + 1
    BY <1>1, <1>9, <2>2, <2>3
  <2>4. CASE k \in 1..n
    <3>1. f \in DOMAIN win /\ k + f - 1 \in DOMAIN win /\ f <= k + f - 1 /\ f <= Len(win)
      BY <1>9, <1>11, <2>4
    <3>2. stamp[win[f]] <= stamp[win[k + f - 1]]
      <4>1. stamp[win[f]] \in Nat
        BY <1>1, <1>3, <1>10, <3>1
      <4>2. CASE f < k + f - 1
        BY <1>10, <2>1, <3>1, <4>2
      <4>3. CASE f = k + f - 1
        BY <4>1, <4>3
      <4>4. QED
        BY <2>4, <3>1, <4>2, <4>3
    <3>3. stamp[win[f]] \in Nat /\ stamp[win[k + f - 1]] \in Nat
      BY <1>1, <1>3, <1>10, <3>1
    <3>4. stamp[win[f]] > stamp[r] - Window /\ new[k] = win[k + f - 1]
      BY <1>8, <1>9, <2>4, <3>1
    <3> DEFINE x == stamp[win[f]]
               y == stamp[win[k + f - 1]]
               z == stamp[r]
               w == stamp[p]
    <3>5. /\ x \in Nat /\ y \in Nat /\ z \in Nat /\ w \in Nat /\ Window \in Nat
          /\ x <= y /\ w <= z /\ x > z - Window
      BY <1>1, <2>2, <3>2, <3>3, <3>4
    <3>6. stamp[new[k]] = y
      BY <3>4
    <3> HIDE DEF x, y, z, w
    <3>7. y > w - Window
      BY <3>5
    <3>8. QED
      BY <3>6, <3>7 DEF w
  <2>5. QED
    BY <1>9, <1>12, <2>3, <2>4
<1>23. memo'[id[r]] = Classify(n + 1, Fanout(S)) /\ \A q \in Observed : memo'[id[q]] = memo[id[q]]
  <2>1. id[r] \in Ids /\ \A q \in Observed : id[q] \in Ids /\ id[q] # id[r]
    BY <1>3 DEF TypeOK
  <2>2. QED
    BY <1>2, <1>9, <2>1 DEF TypeOK
<1>24. CountInv'
  <2> SUFFICES ASSUME NEW q \in Observed'
               PROVE  /\ RecentLevel(q)' = "HARD" => memo'[id[q]] = "HARD"
                      /\ RecentLevel(q)' # "CLEAR" => memo'[id[q]] # "CLEAR"
                      /\ InOrder' => memo'[id[q]] = RecentLevel(q)'
    BY <1>2 DEF CountInv
  <2>1. CASE q \in Observed
    <3>1. RecentLevel(q)' = RecentLevel(q)
      BY <1>18, <2>1 DEF RecentLevel
    <3>2. QED
      BY <1>7, <1>23, <2>1, <3>1 DEF CadenceInv, CountInv
  <2>2. CASE q = r
    <3> DEFINE T == Recent(r)'
               c == Cardinality(T)
    <3> HIDE DEF S
    <3>0. RecentLevel(r)' = Classify(c, Fanout(T)) /\ T \subseteq S /\ (InOrder' => T = S)
      BY <1>21, <1>22 DEF RecentLevel
    <3> HIDE DEF T
    <3>1. c \in Nat /\ c <= n + 1
      BY <1>20, <3>0, FS_Subset, FS_CardinalityType
    <3>2. Fanout(T) \in Nat /\ Fanout(S) \in Nat /\ Fanout(T) <= Fanout(S)
      BY <1>20, <3>0, FanoutRises
    <3>3. InOrder' => c = n + 1 /\ Fanout(T) = Fanout(S)
      BY <1>20, <3>0
    <3> HIDE DEF c
    <3>4. /\ Classify(c, Fanout(T)) = "HARD" => Classify(n + 1, Fanout(S)) = "HARD"
          /\ Classify(c, Fanout(T)) # "CLEAR" => Classify(n + 1, Fanout(S)) # "CLEAR"
      BY <3>1, <3>2, LevelsRise
    <3>5. QED
      BY <1>23, <2>2, <3>0, <3>3, <3>4
  <2>3. QED
    BY <1>5, <2>1, <2>2
<1>25. QED
  BY <1>6, <1>17, <1>24 DEF CadenceInv

LEMMA CadenceStep == Inv /\ CadenceInv /\ [Next]_vars => CadenceInv'
<1> SUFFICES ASSUME Inv, CadenceInv, [Next]_vars PROVE CadenceInv'
  OBVIOUS
<1>0. TypeOK /\ Assessed'
  BY AssessedStep DEF Inv
<1> USE DEF request
<1>1. ASSUME NEW r \in Requests, Observe(r) PROVE CadenceInv'
  <2>1. CASE HasAgent(r) /\ memo[id[r]] = "none"
    BY <1>0, <1>1, <2>1, CadenceObserved
  <2>2. CASE ~(HasAgent(r) /\ memo[id[r]] = "none")
    BY <1>0, <1>1, <2>2, CadenceKept DEF Observe
  <2>3. QED
    BY <2>1, <2>2
<1>2. ASSUME NEW r \in Requests, Judge(r) \/ Resolve(r) \/ Stand(r) \/ Raise(r) PROVE CadenceInv'
  BY <1>0, <1>2, CadenceKept DEF Judge, Resolve, Stand, Raise
<1>3. CASE UNCHANGED vars
  BY <1>0, <1>3, CadenceKept DEF vars
<1>4. QED
  BY <1>1, <1>2, <1>3 DEF Next, Evaluate

LEMMA CadenceHolds == Spec => []CadenceInv
<1>1. Inv /\ CadenceInv /\ [Next]_vars => CadenceInv'
  BY CadenceStep
<1>2. QED
  BY <1>1, InvHolds, CadenceInit, PTL DEF Spec

-----------------------------------------------------------------------------
(* The properties.                                                         *)

\* Types, of the evaluations and of the tracker's memo.
THEOREM TypeCorrect == Spec => []TypeOK
<1>1. Inv => TypeOK
  BY DEF Inv
<1>2. QED
  BY <1>1, InvHolds, PTL

\* A deterministic proof forbids and a parked agent is never permitted, for
\* every request and whatever the other streams report: no hold, gate or
\* precedent of evaluate undoes it.
THEOREM FloorAlwaysStands == Spec => []FloorStands
<1>1. Inv => FloorStands
  <2> SUFFICES ASSUME Inv, NEW r \in Requests, pc[r] = "decided"
               PROVE  LET i == result[r].report IN
                      /\ HardViolation(r, i) \/ i.blocked
                            \/ (HasAgent(r) /\ i.capability /\ ~Parked(r, i))
                            => result[r].verdict = "FORBID"
                      /\ Parked(r, i) => result[r].verdict # "PERMIT"
    BY DEF FloorStands, Decided, Final
  <2> DEFINE i == result[r].report
             res == result[r]
  <2>1. CASE r \in sealed
    <3>1. Raised(r)
      BY <2>1 DEF Inv, Accounted
    <3>2. DetermineVerdict(r, i) = "ABSTAIN" /\ ~Parked(r, i) /\ ~HardViolation(r, i)
      BY <3>1, RaisedFromRouter DEF Raised
    <3>3. ~Forbids(r, i)
      BY <3>2 DEF DetermineVerdict
    <3>4. QED
      BY <3>2, <3>3 DEF Forbids
  <2>2. CASE r \notin sealed
    <3>1. i \in AllReports /\ res = Judgment(r, i)
      BY <2>2 DEF Inv, Accounted, Judged
    <3>2. CASE HardViolation(r, i)
      BY <3>1, <3>2 DEF Judgment, Forbidden
    <3>3. CASE ~HardViolation(r, i)
      <4>1. Below(Route(r, i), res) /\ Route(r, i).verdict = DetermineVerdict(r, i)
        BY <3>1, <3>3, LoweredResult, RouteResult DEF Judgment
      <4>2. /\ Forbids(r, i) => res.verdict = "FORBID"
            /\ Parked(r, i) => res.verdict # "PERMIT"
        BY <4>1 DEF Below, DetermineVerdict
      <4>3. QED
        BY <3>3, <4>2 DEF Forbids
    <3>4. QED
      BY <3>2, <3>3
  <2>3. QED
    BY <2>1, <2>2
<1>2. QED
  BY <1>1, InvHolds, PTL

\* Every PERMIT of evaluate is clean or adopted from sealed unanimous
\* precedents, over every report and any overlap of the evaluations.
THEOREM EveryPermitExplained == Spec => []PermitExplained
<1>1. Inv => PermitExplained
  <2> SUFFICES ASSUME Inv, NEW r \in Requests, pc[r] = "decided", result[r].verdict = "PERMIT"
               PROVE  LET i == result[r].report IN
                      IF r \in sealed
                      THEN i.autoresolve /\ i.history = "unanimous" /\ NoViolation(r, i)
                      ELSE Quiet(r, i)
    BY DEF PermitExplained, Decided, Final
  <2> DEFINE i == result[r].report
  <2>1. CASE r \in sealed
    <3>1. Raised(r)
      BY <2>1 DEF Inv, Accounted
    <3>2. QED
      BY <2>1, <3>1, RaisedFromRouter DEF Raised
  <2>2. CASE r \notin sealed
    <3>1. i \in AllReports /\ result[r] = Judgment(r, i)
      BY <2>2 DEF Inv, Accounted, Judged
    <3>2. ~HardViolation(r, i) /\ result[r] = Lowered(r, i)
      BY <3>1 DEF Judgment, Forbidden
    <3>3. QED
      BY <2>2, <3>1, <3>2, PermitIsQuiet
  <2>3. QED
    BY <2>1, <2>2
<1>2. QED
  BY <1>1, InvHolds, PTL

\* The monotonicity witness fails on exactly the decisions that precedent has
\* raised.
THEOREM WitnessIsExact == Spec => []WitnessTells
<1>1. Inv => WitnessTells
  <2> SUFFICES ASSUME Inv, NEW r \in Requests, pc[r] = "decided"
               PROVE  WitnessHolds(r) <=> r \notin sealed
    BY DEF WitnessTells, Decided
  <2> DEFINE i == result[r].report
             res == result[r]
  <2>0. Caution["PERMIT"] = 0 /\ Caution["ABSTAIN"] = 1 /\ Caution["FORBID"] = 2
    BY DEF Caution
  <2>1. CASE r \in sealed
    <3>1. Raised(r)
      BY <2>1 DEF Inv, Accounted
    <3>2. DetermineVerdict(r, i) = "ABSTAIN" /\ i \in AllReports
      BY <3>1, RaisedFromRouter DEF Raised
    <3>3. res.base = "ABSTAIN" /\ res.verdict = "PERMIT"
      BY <3>1, <3>2, LoweredResult, RouteResult DEF Raised, Below
    <3>4. QED
      BY <2>0, <2>1, <3>3 DEF WitnessHolds
  <2>2. CASE r \notin sealed
    <3>1. i \in AllReports /\ res = Judgment(r, i)
      BY <2>2 DEF Inv, Accounted, Judged
    <3>2. CASE HardViolation(r, i)
      BY <2>2, <3>1, <3>2 DEF Judgment, Forbidden, WitnessHolds
    <3>3. CASE ~HardViolation(r, i)
      <4>1. /\ Below(Route(r, i), res)
            /\ Route(r, i).verdict = DetermineVerdict(r, i)
            /\ Route(r, i).base = DetermineVerdict(r, i)
        BY <3>1, <3>3, LoweredResult, RouteResult DEF Judgment
      <4>2. DetermineVerdict(r, i) \in {"PERMIT", "ABSTAIN", "FORBID"}
        BY DEF DetermineVerdict
      <4>3. \/ res.base = res.verdict /\ res.verdict \in {"PERMIT", "ABSTAIN", "FORBID"}
            \/ res.base = "PERMIT" /\ res.verdict = "ABSTAIN"
        BY <4>1, <4>2 DEF Below
      <4>4. QED
        BY <2>0, <2>2, <4>3 DEF WitnessHolds
    <3>4. QED
      BY <3>2, <3>3
  <2>3. QED
    BY <2>1, <2>2
<1>2. QED
  BY <1>1, InvHolds, PTL

\* However the threads reach the tracker and whatever stamps and request_ids
\* the callers choose, a burst of a hard number of actions or targets is
\* forbidden and one of a soft number is not permitted but by precedent under
\* a policy without the recogniser, for any budgets, window, agents and number
\* of requests; and with stamps in order nothing else raises a level.
THEOREM NoBurstPasses == Spec => []BurstStopped
<1>1. Inv /\ CadenceInv /\ FloorStands /\ PermitExplained => BurstStopped
  <2> SUFFICES ASSUME Inv, CadenceInv, FloorStands, PermitExplained, NEW r \in Observed
               PROVE  /\ \A q \in Requests : Decided(q) /\ HasAgent(q) /\ id[q] = id[r] =>
                            /\ RecentLevel(r) = "HARD" => Final(q) = "FORBID"
                            /\ RecentLevel(r) # "CLEAR" /\ Final(q) = "PERMIT" =>
                                  q \in sealed /\ ~result[q].report.listed
                      /\ InOrder => memo[id[r]] = RecentLevel(r)
    BY DEF BurstStopped
  <2>1. /\ RecentLevel(r) = "HARD" => memo[id[r]] = "HARD"
        /\ RecentLevel(r) # "CLEAR" => memo[id[r]] # "CLEAR"
        /\ InOrder => memo[id[r]] = RecentLevel(r)
    BY DEF CadenceInv, CountInv
  <2>2. ASSUME NEW q \in Requests, Decided(q), HasAgent(q), id[q] = id[r]
        PROVE  /\ memo[id[r]] = "HARD" => Final(q) = "FORBID"
               /\ memo[id[r]] # "CLEAR" /\ Final(q) = "PERMIT" =>
                     q \in sealed /\ ~result[q].report.listed
    <3>1. Level(q) = memo[id[r]]
      BY <2>2 DEF Level
    <3>2. Level(q) = "HARD" => Final(q) = "FORBID"
      BY <2>2 DEF FloorStands, HardViolation
    <3>3. Level(q) # "CLEAR" /\ Final(q) = "PERMIT" => q \in sealed /\ ~result[q].report.listed
      BY <2>2 DEF PermitExplained, NoViolation, Quiet
    <3>4. QED
      BY <3>1, <3>2, <3>3
  <2>3. QED
    BY <2>1, <2>2
<1>2. QED
  BY <1>1, InvHolds, CadenceHolds, FloorAlwaysStands, EveryPermitExplained, PTL

-----------------------------------------------------------------------------
(***************************************************************************)
(* The policy that is decided under: proofs about CalibrationLoop, for any *)
(* number of proposals, evaluations and starts and any budget.  The module *)
(* is taken as the instance Cal over the state of CalibrationPromises.     *)
(***************************************************************************)

Cal == INSTANCE CalibrationLoop

\* No element occurs twice.
Distinct(s) == \A i, j \in DOMAIN s : s[i] = s[j] => i = j

LEMMA CalConcat ==
    ASSUME NEW S, NEW a \in Seq(S), NEW b \in Seq(S)
    PROVE  /\ a \o b \in Seq(S) /\ Len(a \o b) = Len(a) + Len(b)
           /\ \A j \in 1..(Len(a) + Len(b)) :
                 (a \o b)[j] = IF j <= Len(a) THEN a[j] ELSE b[j - Len(a)]
OBVIOUS

LEMMA CalLengths ==
    ASSUME NEW S, NEW s \in Seq(S)
    PROVE  Len(s) > 1 \/ s = <<>> \/ Len(s) = 1
<1>1. Len(s) \in Nat
  OBVIOUS
<1>2. CASE Len(s) = 0
  BY <1>2
<1>3. QED
  BY <1>1, <1>2

\* Removing an element from a sequence that has it once.
LEMMA CalRemoveFirst ==
    ASSUME NEW S, NEW s \in Seq(S), Distinct(s), NEW e
    PROVE  /\ Cal!RemoveFirst(s, e) \in Seq(S)
           /\ Distinct(Cal!RemoveFirst(s, e))
           /\ \A i \in DOMAIN Cal!RemoveFirst(s, e) : Cal!RemoveFirst(s, e)[i] # e
<1>1. CASE \A i \in 1..Len(s) : s[i] # e
  <2>1. Cal!RemoveFirst(s, e) = s
    BY <1>1 DEF Cal!RemoveFirst
  <2>2. DOMAIN s = 1..Len(s)
    OBVIOUS
  <2>3. QED
    BY <1>1, <2>1, <2>2
<1>2. ASSUME NEW i \in 1..Len(s), s[i] = e
      PROVE  /\ Cal!RemoveFirst(s, e) \in Seq(S)
             /\ Distinct(Cal!RemoveFirst(s, e))
             /\ \A j \in DOMAIN Cal!RemoveFirst(s, e) : Cal!RemoveFirst(s, e)[j] # e
  <2> DEFINE I == {j \in 1..Len(s) : s[j] = e}
             a == SubSeq(s, 1, i - 1)
             b == SubSeq(s, i + 1, Len(s))
             r == a \o b
  <2>1. I = {i}
    BY <1>2 DEF Distinct
  <2>2. Cal!Min(I) = i
    BY <2>1 DEF Cal!Min
  <2>3. Cal!RemoveFirst(s, e) = Cal!RemoveAt(s, IF I # {} THEN Cal!Min(I) ELSE 0)
    BY <1>2 DEF Cal!RemoveFirst, Cal!SelectInSeq
  <2>4. Cal!RemoveFirst(s, e) = r
    BY <2>1, <2>2, <2>3 DEF Cal!RemoveAt
  <2>5. a \in Seq(S) /\ Len(a) = i - 1 /\ \A j \in 1..(i - 1) : a[j] = s[j]
    OBVIOUS
  <2>6. b \in Seq(S) /\ Len(b) = Len(s) - i /\ \A j \in 1..(Len(s) - i) : b[j] = s[j + i]
    OBVIOUS
  <2> HIDE DEF a, b
  <2>7. /\ r \in Seq(S) /\ Len(r) = Len(a) + Len(b)
        /\ \A j \in 1..(Len(a) + Len(b)) : r[j] = IF j <= Len(a) THEN a[j] ELSE b[j - Len(a)]
    BY <2>5, <2>6, CalConcat
  <2> HIDE DEF r
  <2>8. DOMAIN r = 1..Len(r) /\ Len(r) = Len(s) - 1
    BY <2>5, <2>6, <2>7
  <2>9. ASSUME NEW j \in 1..(Len(s) - 1)
        PROVE  r[j] = IF j < i THEN s[j] ELSE s[j + 1]
    <3>1. j \in 1..(Len(a) + Len(b))
      BY <2>5, <2>6
    <3>2. CASE j < i
      BY <3>1, <3>2, <2>5, <2>7
    <3>3. CASE i <= j
      <4>1. r[j] = b[j - (i - 1)]
        BY <3>1, <3>3, <2>5, <2>7
      <4>2. b[j - (i - 1)] = s[(j - (i - 1)) + i]
        BY <3>3, <2>6
      <4>3. (j - (i - 1)) + i = j + 1
        OBVIOUS
      <4>4. QED
        BY <3>3, <4>1, <4>2, <4>3
    <3>4. QED
      BY <3>2, <3>3
  <2>10. Distinct(r)
    BY <1>2, <2>8, <2>9 DEF Distinct
  <2>11. \A j \in DOMAIN r : r[j] # e
    BY <1>2, <2>8, <2>9 DEF Distinct
  <2>12. QED
    BY <2>4, <2>7, <2>10, <2>11
<1>3. QED
  BY <1>1, <1>2

\* Removing the only element.
LEMMA CalRemoveOnly == ASSUME NEW x PROVE Cal!RemoveFirst(<<x>>, x) = <<>>
<1> DEFINE I == {i \in 1..Len(<<x>>) : <<x>>[i] = x}
<1>1. I = {1}
  OBVIOUS
<1>2. Cal!Min(I) = 1
  BY <1>1 DEF Cal!Min
<1>3. Cal!RemoveFirst(<<x>>, x) = Cal!RemoveAt(<<x>>, IF I # {} THEN Cal!Min(I) ELSE 0)
  BY DEF Cal!RemoveFirst, Cal!SelectInSeq
<1>4. Cal!RemoveFirst(<<x>>, x) = Cal!RemoveAt(<<x>>, 1)
  BY <1>1, <1>2, <1>3
<1>5. SubSeq(<<x>>, 1, 0) = <<>> /\ SubSeq(<<x>>, 2, 1) = <<>>
  OBVIOUS
<1>6. Len(<<x>>) = 1 /\ <<>> \o <<>> = <<>>
  OBVIOUS
<1>7. QED
  BY <1>4, <1>5, <1>6 DEF Cal!RemoveAt

\* InMemoryPolicyStore.save keeps a version at most once.
LEMMA CalSaved ==
    ASSUME NEW S, NEW acts \in Seq(S), Distinct(acts), NEW s
    PROVE  /\ Cal!Saved(acts, s) \in Seq(S \union {s.version})
           /\ Distinct(Cal!Saved(acts, s))
<1> DEFINE o == Cal!RemoveFirst(acts, s.version)
           T == S \union {s.version}
<1>1. o \in Seq(S) /\ Distinct(o) /\ \A i \in DOMAIN o : o[i] # s.version
  BY CalRemoveFirst
<1>2. Cal!Saved(acts, s) = IF s.active THEN Append(o, s.version) ELSE o
  BY DEF Cal!Saved
<1> HIDE DEF o
<1>3. o \in Seq(T) /\ s.version \in T
  BY <1>1
<1>4. Append(o, s.version) \in Seq(T)
  BY <1>3
<1>5. Len(Append(o, s.version)) = Len(o) + 1
      /\ \A i \in 1..Len(o) : Append(o, s.version)[i] = o[i]
      /\ Append(o, s.version)[Len(o) + 1] = s.version
  BY <1>3
<1>6. Distinct(Append(o, s.version))
  BY <1>1, <1>4, <1>5 DEF Distinct
<1>7. QED
  BY <1>1, <1>2, <1>3, <1>4, <1>6

\* Saving again what is already so.
LEMMA CalSavedAgain ==
    ASSUME NEW s
    PROVE  /\ s.active => Cal!Saved(<<s.version>>, s) = <<s.version>>
           /\ ~s.active => Cal!Saved(<<>>, s) = <<>>
           /\ \A x : ~s.active /\ x # s.version => Cal!Saved(<<x>>, s) = <<x>>
<1>1. ASSUME s.active PROVE Cal!Saved(<<s.version>>, s) = <<s.version>>
  <2>1. Cal!RemoveFirst(<<s.version>>, s.version) = <<>>
    BY CalRemoveOnly
  <2>2. Cal!Saved(<<s.version>>, s) = Append(Cal!RemoveFirst(<<s.version>>, s.version), s.version)
    BY <1>1 DEF Cal!Saved
  <2>3. ASSUME NEW v PROVE Append(<<>>, v) = <<v>>
    OBVIOUS
  <2>4. Cal!Saved(<<s.version>>, s) = Append(<<>>, s.version)
    BY <2>1, <2>2
  <2>5. QED
    BY <2>3, <2>4
<1>2. ~s.active => Cal!Saved(<<>>, s) = <<>>
  BY DEF Cal!Saved, Cal!RemoveFirst
<1>3. ASSUME NEW x, ~s.active, x # s.version PROVE Cal!Saved(<<x>>, s) = <<x>>
  <2>1. \A i \in 1..Len(<<x>>) : <<x>>[i] # s.version
    BY <1>3
  <2>2. Cal!RemoveFirst(<<x>>, s.version) = <<x>>
    BY <2>1 DEF Cal!RemoveFirst
  <2>3. QED
    BY <1>3, <2>2 DEF Cal!Saved
<1>4. QED
  BY <1>1, <1>2, <1>3

\* The instance's name for the number of elements of a set.
LEMMA CalCardinality == ASSUME NEW S PROVE Cal!Cardinality(S) = Cardinality(S)
BY DEF Cardinality, Cal!Cardinality

LEMMA CalSets ==
    /\ Cal!Props \subseteq Cal!Versions /\ 0 \in Cal!Versions
           /\ Cal!NoVersion \notin Cal!Versions
           /\ IsFiniteSet(Cal!Props) /\ IsFiniteSet(Cal!Versions)
<1>1. IsFiniteSet(Cal!Props) /\ IsFiniteSet(Cal!Versions)
  BY FS_Interval, BoundAssumption DEF Cal!Props, Cal!Versions
<1>2. QED
  BY <1>1, BoundAssumption DEF Cal!Props, Cal!Versions, Cal!NoVersion

\* What the operators of the policy store return.
LEMMA CalReadThrough ==
    ASSUME Cal!TypeOK, NEW v \in Cal!Versions
    PROVE  /\ Cal!ReadThrough(v) \in Seq(cached \union {v})
           /\ Distinct(Cal!ReadThrough(v))
<1>1. actives \in Seq(cached) /\ Distinct(actives)
  BY DEF Cal!TypeOK, Distinct
<1>2. actives \in Seq(cached \union {v})
  BY <1>1
<1>3. Cal!StoredSnapshot(v).version = v
  BY DEF Cal!StoredSnapshot
<1>4. /\ Cal!Saved(actives, Cal!StoredSnapshot(v)) \in Seq(cached \union {v})
      /\ Distinct(Cal!Saved(actives, Cal!StoredSnapshot(v)))
  BY <1>1, <1>3, CalSaved
<1>5. QED
  BY <1>1, <1>2, <1>4 DEF Cal!ReadThrough

LEMMA CalRowsWith ==
    ASSUME Cal!TypeOK, NEW s, s.version \in Cal!Versions
    PROVE  Cal!RowsWith(s) \in [Cal!Versions -> {"none", "on", "off"}]
BY DEF Cal!TypeOK, Cal!RowsWith

LEMMA CalActivate ==
    ASSUME Cal!TypeOK, NEW v, Cal!Activate(v)
    PROVE  /\ cached' \subseteq Cal!Versions /\ v \in Cal!Versions
           /\ actives' \in Seq(cached') /\ Distinct(actives')
           /\ rows' \in [Cal!Versions -> {"none", "on", "off"}] /\ pgPolicy' \in BOOLEAN
<1>1. v \in cached /\ actives' = <<v>> /\ cached' = cached /\ rows' = rows /\ pgPolicy' = pgPolicy
  BY DEF Cal!Activate, Cal!Activated
<1>2. <<v>> \in Seq(cached) /\ Distinct(<<v>>)
  BY <1>1 DEF Distinct
<1>3. QED
  BY <1>1, <1>2 DEF Cal!TypeOK

\* What the operators of the proposal store return.
LEMMA CalPut ==
    ASSUME Cal!TypeOK, NEW ps \in [Cal!Props -> Cal!Proposals],
           NEW faults \in SUBSET Cal!Faults, Cal!Put(ps, faults)
    PROVE  /\ proposals' \in [Cal!Props -> Cal!Proposals]
           /\ stored' \in [Cal!Props -> Cal!Proposals]
           /\ pgProp' \in BOOLEAN
           /\ happened' \subseteq Cal!Faults
<1>1. "lost write" \in Cal!Faults
  BY DEF Cal!Faults
<1>2. proposals' \in [Cal!Props -> Cal!Proposals] /\ pgProp' \in BOOLEAN
  BY DEF Cal!Put, Cal!TypeOK
<1>3. stored' \in [Cal!Props -> Cal!Proposals]
  BY DEF Cal!Put, Cal!TypeOK
<1>4. happened' \subseteq Cal!Faults
  BY <1>1 DEF Cal!Put, Cal!TypeOK, Cal!If
<1>5. QED
  BY <1>2, <1>3, <1>4

LEMMA CalSetStatus ==
    ASSUME Cal!TypeOK, NEW p \in Cal!Props, NEW status \in Cal!Statuses
    PROVE  /\ [proposals EXCEPT ![p].status = status] \in [Cal!Props -> Cal!Proposals]
           /\ [proposals EXCEPT ![p].status = status][p].status = status
           /\ \A q \in Cal!Props \ {p} : [proposals EXCEPT ![p].status = status][q] = proposals[q]
<1> DEFINE ps == [proposals EXCEPT ![p].status = status]
<1>1. proposals \in [Cal!Props -> Cal!Proposals]
  BY DEF Cal!TypeOK
<1>2. proposals[p] \in [status : Cal!Statuses, source : Cal!Versions]
  BY <1>1 DEF Cal!Proposals
<1>3. ps = [proposals EXCEPT ![p] = [proposals[p] EXCEPT !.status = status]]
  OBVIOUS
<1>4. /\ [proposals[p] EXCEPT !.status = status] \in Cal!Proposals
      /\ [proposals[p] EXCEPT !.status = status].status = status
      /\ [proposals[p] EXCEPT !.status = status].source = proposals[p].source
  BY <1>2 DEF Cal!Proposals
<1>5. QED
  BY <1>1, <1>3, <1>4

LEMMA CalMove ==
    ASSUME Cal!TypeOK, NEW p \in Cal!Props, NEW status \in Cal!Statuses,
           NEW faults \in SUBSET Cal!Faults, Cal!Move(p, status, faults)
    PROVE  /\ proposals' \in [Cal!Props -> Cal!Proposals]
           /\ stored' \in [Cal!Props -> Cal!Proposals]
           /\ pgProp' \in BOOLEAN
           /\ happened' \subseteq Cal!Faults
<1> DEFINE ps == [proposals EXCEPT ![p].status = status]
<1>1. ps \in [Cal!Props -> Cal!Proposals]
  BY CalSetStatus
<1>2. Cal!Put(ps, faults)
  BY DEF Cal!Move
<1> HIDE DEF ps
<1>3. QED
  BY <1>1, <1>2, CalPut

\* Starting: the cache is read from the table or seeded.
LEMMA CalBootType ==
    ASSUME Cal!TypeOK, Cal!Boot
    PROVE  /\ cached' \subseteq Cal!Versions
           /\ actives' \in Seq(cached') /\ Distinct(actives')
           /\ rows' \in [Cal!Versions -> {"none", "on", "off"}]
           /\ intended' \in Cal!Versions \union {Cal!NoVersion}
<1>1. CASE Cal!Seed
  <2>1. cached' = {0} /\ actives' = <<0>>
    BY <1>1 DEF Cal!Seed
  <2>2. actives' \in Seq(cached') /\ Distinct(actives')
    BY <2>1 DEF Distinct
  <2>3. rows' \in [Cal!Versions -> {"none", "on", "off"}]
    <3>1. Cal!RowsWith(Cal!Default) \in [Cal!Versions -> {"none", "on", "off"}]
      BY CalRowsWith, CalSets DEF Cal!Default
    <3>2. QED
      BY <1>1, <3>1 DEF Cal!Seed, Cal!TypeOK
  <2>4. Cal!Active' = 0
    BY <2>1 DEF Cal!Active, Cal!Last
  <2>5. QED
    BY <2>1, <2>2, <2>3, <2>4, CalSets DEF Cal!Boot
<1>2. CASE Cal!Hydrate
  <2> DEFINE S == {v \in Cal!Versions : rows[v] = "on"}
             D == 1..Cal!Cardinality(S)
  <2>1. Cal!Cardinality(S) \in Nat
    BY CalSets, CalCardinality, FS_Subset, FS_CardinalityType
  <2>2. actives' \in [D -> S] /\ \A i, j \in D : i # j => actives'[i] # actives'[j]
    <3>1. actives' \in {f \in [D -> S] : \A i, j \in D : i # j => f[i] # f[j]}
      BY <1>2 DEF Cal!Hydrate, Cal!SetToSeqs
    <3> HIDE DEF S, D
    <3>2. QED
      BY <3>1
  <2>3. cached' \subseteq Cal!Versions /\ S \subseteq cached' /\ rows' = rows
    BY <1>2 DEF Cal!Hydrate
  <2> HIDE DEF S
  <2>4. actives' \in Seq(S)
    <3>1. ASSUME NEW n \in Nat, NEW f \in [1..n -> S] PROVE f \in Seq(S)
      OBVIOUS
    <3>2. QED
      BY <2>1, <2>2, <3>1
  <2>5. actives' \in Seq(cached')
    BY <2>3, <2>4
  <2>6. Distinct(actives')
    BY <2>2 DEF Distinct
  <2>7. Cal!Active' \in Cal!Versions \union {Cal!NoVersion}
    <3>1. CASE actives' = <<>>
      BY <3>1 DEF Cal!Active
    <3>2. CASE actives' # <<>>
      <4>1. Len(actives') \in 1..Len(actives') /\ actives'[Len(actives')] \in cached'
        BY <3>2, <2>5
      <4>2. QED
        BY <3>2, <4>1, <2>3 DEF Cal!Active, Cal!Last
    <3>3. QED
      BY <3>1, <3>2
  <2>8. QED
    BY <2>3, <2>5, <2>6, <2>7 DEF Cal!Boot, Cal!TypeOK
<1>3. QED
  BY <1>1, <1>2 DEF Cal!Boot

\* A draft takes a number and remembers its source.
LEMMA CalDraftType ==
    ASSUME Cal!TypeOK, NEW v \in Cal!Versions, Cal!Draft(v)
    PROVE  Cal!TypeOK'
<1>1. PICK p \in Cal!Fresh : Cal!Draft(v)!(p)
  BY DEF Cal!Draft
<1>2. drafting' \in [Cal!Props -> Cal!Versions \union {Cal!NoVersion}]
  BY <1>1 DEF Cal!TypeOK
<1>3. happened' \subseteq Cal!Faults
  BY <1>1 DEF Cal!TypeOK, Cal!If, Cal!Faults
<1>4. actives' \in Seq(cached') /\ Distinct(actives')
  BY <1>1, CalReadThrough
<1>5. cached' = cached \union {v}
      /\ UNCHANGED <<up, boots, rows, pgPolicy, proposals, stored, pgProp, applying, moved,
                     read, intended, uses>>
  BY <1>1 DEF Cal!proposalVars
<1>6. QED
  BY <1>2, <1>3, <1>4, <1>5 DEF Cal!TypeOK, Distinct

\* A draft that is saved is a new PENDING proposal, and expires the ones it
\* replaces.
LEMMA CalProposeType ==
    ASSUME Cal!TypeOK, NEW p \in Cal!Props, NEW old, Cal!Propose(p, old)
    PROVE  Cal!TypeOK'
<1> DEFINE v == drafting[p]
           ps == [q \in Cal!Props |->
                     IF q = p THEN [status |-> "PENDING", source |-> v]
                     ELSE IF q \in old THEN [proposals[q] EXCEPT !.status = "EXPIRED"]
                     ELSE proposals[q]]
<1>1. v \in Cal!Versions
  BY DEF Cal!Propose, Cal!TypeOK
<1>2. ps \in [Cal!Props -> Cal!Proposals]
  <2>1. [status |-> "PENDING", source |-> v] \in Cal!Proposals
    BY <1>1 DEF Cal!Proposals, Cal!Statuses
  <2> DEFINE new(q) == IF q = p THEN [status |-> "PENDING", source |-> v]
                       ELSE IF q \in old THEN [proposals[q] EXCEPT !.status = "EXPIRED"]
                       ELSE proposals[q]
  <2>2. ASSUME NEW q \in Cal!Props PROVE new(q) \in Cal!Proposals
    <3>1. proposals[q] \in Cal!Proposals
      BY DEF Cal!TypeOK
    <3>2. [proposals[q] EXCEPT !.status = "EXPIRED"] \in Cal!Proposals
      BY <3>1 DEF Cal!Proposals, Cal!Statuses
    <3>3. QED
      BY <2>1, <3>1, <3>2
  <2>3. ps = [q \in Cal!Props |-> new(q)]
    OBVIOUS
  <2> HIDE DEF new, ps
  <2>4. QED
    BY <2>2, <2>3
<1>3. Cal!Put(ps, {})
  BY DEF Cal!Propose
<1>4. drafting' \in [Cal!Props -> Cal!Versions \union {Cal!NoVersion}]
  BY DEF Cal!Propose, Cal!TypeOK
<1> HIDE DEF ps
<1>5. /\ proposals' \in [Cal!Props -> Cal!Proposals]
      /\ stored' \in [Cal!Props -> Cal!Proposals]
      /\ pgProp' \in BOOLEAN
      /\ happened' \subseteq Cal!Faults
  BY <1>2, <1>3, CalPut
<1>6. UNCHANGED <<up, boots, cached, actives, rows, pgPolicy, applying, moved, read, intended, uses>>
  BY DEF Cal!Propose, Cal!policyVars
<1>7. QED
  BY <1>4, <1>5, <1>6 DEF Cal!TypeOK

\* Every step keeps the types.
LEMMA CalTypeStep ==
    ASSUME Cal!TypeOK, [Cal!Next]_Cal!vars
    PROVE  Cal!TypeOK'
<1>1. CASE Cal!Boot
  <2>1. boots' \in 0..MaxBoots
    <3>1. boots < MaxBoots /\ boots' = boots + 1
      BY <1>1 DEF Cal!Boot
    <3>2. boots \in 0..MaxBoots
      BY DEF Cal!TypeOK
    <3>3. QED
      BY <3>1, <3>2, BoundAssumption
  <2>2. proposals' \in [Cal!Props -> Cal!Proposals]
    <3>1. Cal!NoProposal \in Cal!Proposals
      BY CalSets DEF Cal!NoProposal, Cal!Proposals, Cal!Statuses
    <3>2. QED
      BY <1>1, <3>1 DEF Cal!Boot, Cal!TypeOK
  <2>3. happened' \subseteq Cal!Faults
    BY <1>1 DEF Cal!Boot, Cal!TypeOK, Cal!If, Cal!Faults
  <2>4. QED
    BY <1>1, <2>1, <2>2, <2>3, CalBootType DEF Cal!Boot, Cal!TypeOK, Distinct
<1>2. CASE Cal!Crash
  <2>1. Cal!NoProposal \in Cal!Proposals /\ "idle" \in Cal!Steps
    BY CalSets DEF Cal!NoProposal, Cal!Proposals, Cal!Statuses, Cal!Steps
  <2>2. actives' \in Seq(cached') /\ Distinct(actives')
    BY <1>2 DEF Cal!Crash, Distinct
  <2>3. read' \in [Evaluations -> Cal!Snapshots \union {Cal!NoSnapshot, Cal!Done}]
    BY <1>2 DEF Cal!Crash
  <2>4. drafting' \in [Cal!Props -> Cal!Versions \union {Cal!NoVersion}]
    BY <1>2 DEF Cal!Crash
  <2>5. QED
    BY <1>2, <2>1, <2>2, <2>3, <2>4 DEF Cal!Crash, Cal!TypeOK, Distinct
<1>3. ASSUME NEW v \in Cal!Versions, Cal!ActivatePolicy(v) PROVE Cal!TypeOK'
  BY <1>3, CalActivate DEF Cal!ActivatePolicy, Cal!TypeOK, Distinct, Cal!proposalVars
<1>4. ASSUME NEW p \in Cal!Props, Cal!Reject(p) PROVE Cal!TypeOK'
  <2>1. "REJECTED" \in Cal!Statuses /\ {} \in SUBSET Cal!Faults
    BY DEF Cal!Statuses
  <2>2. QED
    BY <1>4, <2>1, CalMove DEF Cal!Reject, Cal!TypeOK, Cal!policyVars
<1>5. ASSUME NEW p \in Cal!Props, Cal!Approve(p) PROVE Cal!TypeOK'
  <2>1. "APPROVED" \in Cal!Statuses /\ "save" \in Cal!Steps
    BY DEF Cal!Statuses, Cal!Steps
  <2>2. PICK faults \in SUBSET Cal!Faults : Cal!Move(p, "APPROVED", faults)
    BY <1>5 DEF Cal!Approve, Cal!If, Cal!Faults
  <2>3. /\ proposals' \in [Cal!Props -> Cal!Proposals]
        /\ stored' \in [Cal!Props -> Cal!Proposals]
        /\ pgProp' \in BOOLEAN
        /\ happened' \subseteq Cal!Faults
    BY <2>1, <2>2, CalMove
  <2>4. QED
    BY <1>5, <2>1, <2>3 DEF Cal!Approve, Cal!TypeOK, Cal!policyVars
<1>6. ASSUME NEW p \in Cal!Props, Cal!Rollback(p) PROVE Cal!TypeOK'
  <2>1. "ROLLED_BACK" \in Cal!Statuses /\ {} \in SUBSET Cal!Faults
    BY DEF Cal!Statuses
  <2>2. /\ proposals' \in [Cal!Props -> Cal!Proposals]
        /\ stored' \in [Cal!Props -> Cal!Proposals]
        /\ pgProp' \in BOOLEAN
        /\ happened' \subseteq Cal!Faults
    BY <1>6, <2>1, CalMove DEF Cal!Rollback, Cal!TypeOK, Cal!proposalVars
  <2>3. /\ cached' \subseteq Cal!Versions /\ proposals[p].source \in Cal!Versions
        /\ actives' \in Seq(cached') /\ Distinct(actives')
        /\ rows' \in [Cal!Versions -> {"none", "on", "off"}] /\ pgPolicy' \in BOOLEAN
    BY <1>6, CalActivate DEF Cal!Rollback
  <2>4. intended' = proposals[p].source
        /\ UNCHANGED <<up, boots, drafting, applying, moved, read, uses>>
    BY <1>6 DEF Cal!Rollback
  <2>5. QED
    BY <2>2, <2>3, <2>4 DEF Cal!TypeOK, Distinct
<1>7. ASSUME NEW p \in Cal!Props, Cal!ApplySave(p) PROVE Cal!TypeOK'
  <2> DEFINE v == proposals[p].source
             s == [version |-> p, active |-> TRUE]
  <2>1. v \in Cal!Versions /\ s.version = p /\ p \in Cal!Versions
    BY CalSets DEF Cal!TypeOK, Cal!Proposals
  <2>2. /\ Cal!ReadThrough(v) \in Seq(cached \union {v})
        /\ Distinct(Cal!ReadThrough(v))
    BY <2>1, CalReadThrough
  <2>3. actives' = Cal!Saved(Cal!ReadThrough(v), s) /\ cached' = cached \union {v, p}
    BY <1>7 DEF Cal!ApplySave
  <2>4. rows' \in [Cal!Versions -> {"none", "on", "off"}]
    <3>1. Cal!RowsWith(s) \in [Cal!Versions -> {"none", "on", "off"}]
      BY <2>1, CalRowsWith
    <3>2. QED
      BY <1>7, <3>1 DEF Cal!ApplySave, Cal!TypeOK
  <2>5. happened' \subseteq Cal!Faults /\ "activate" \in Cal!Steps
    BY <1>7 DEF Cal!ApplySave, Cal!TypeOK, Cal!If, Cal!Faults, Cal!Steps
  <2>6. /\ applying' = [applying EXCEPT ![p] = "activate"] /\ uses' = [uses EXCEPT ![p] = @ + 1]
        /\ UNCHANGED <<up, boots, pgPolicy, proposals, stored, pgProp, drafting, moved, read,
                       intended>>
    BY <1>7 DEF Cal!ApplySave, Cal!proposalVars
  <2> HIDE DEF s, v
  <2>7. actives' \in Seq((cached \union {v}) \union {s.version}) /\ Distinct(actives')
    BY <2>2, <2>3, CalSaved
  <2>8. cached' = (cached \union {v}) \union {s.version}
    BY <2>1, <2>3
  <2>9. cached' \subseteq Cal!Versions
    BY <2>1, <2>8 DEF Cal!TypeOK
  <2>10. uses' \in [Cal!Props -> Nat] /\ applying' \in [Cal!Props -> Cal!Steps]
    BY <2>5, <2>6 DEF Cal!TypeOK
  <2>11. QED
    BY <2>4, <2>5, <2>6, <2>7, <2>8, <2>9, <2>10 DEF Cal!TypeOK, Distinct
<1>8. ASSUME NEW p \in Cal!Props, Cal!ApplyActivate(p) PROVE Cal!TypeOK'
  <2>1. "commit" \in Cal!Steps
    BY DEF Cal!Steps
  <2>2. QED
    BY <1>8, <2>1, CalActivate DEF Cal!ApplyActivate, Cal!TypeOK, Distinct, Cal!proposalVars
<1>9. ASSUME NEW p \in Cal!Props, Cal!ApplyCommit(p) PROVE Cal!TypeOK'
  <2>1. "mark" \in Cal!Steps
    BY DEF Cal!Steps
  <2>2. QED
    BY <1>9, <2>1 DEF Cal!ApplyCommit, Cal!TypeOK, Cal!policyVars, Cal!proposalVars
<1>10. ASSUME NEW p \in Cal!Props, Cal!ApplyMark(p) PROVE Cal!TypeOK'
  <2>1. "APPLIED" \in Cal!Statuses /\ "idle" \in Cal!Steps /\ {} \in SUBSET Cal!Faults
    BY DEF Cal!Statuses, Cal!Steps
  <2>2. QED
    BY <1>10, <2>1, CalMove DEF Cal!ApplyMark, Cal!TypeOK, Cal!policyVars
<1>11. ASSUME NEW p \in Cal!Props, Cal!ApplyFails(p) PROVE Cal!TypeOK'
  <2> DEFINE s == [version |-> p, active |-> TRUE]
  <2>1. Cal!RowsWith(s) \in [Cal!Versions -> {"none", "on", "off"}] /\ "idle" \in Cal!Steps
    BY CalRowsWith, CalSets DEF Cal!Steps
  <2>2. rows' \in [Cal!Versions -> {"none", "on", "off"}] /\ uses' \in [Cal!Props -> Nat]
    <3>1. \/ rows' = rows /\ uses' = uses
          \/ rows' = Cal!RowsWith(s) /\ uses' = [uses EXCEPT ![p] = @ + 1]
      BY <1>11 DEF Cal!ApplyFails
    <3> HIDE DEF s
    <3>2. rows \in [Cal!Versions -> {"none", "on", "off"}] /\ uses \in [Cal!Props -> Nat]
      BY DEF Cal!TypeOK
    <3>3. [uses EXCEPT ![p] = @ + 1] \in [Cal!Props -> Nat]
      BY <3>2
    <3>4. QED
      BY <2>1, <3>1, <3>2, <3>3
  <2>3. QED
    BY <1>11, <2>1, <2>2 DEF Cal!ApplyFails, Cal!TypeOK, Cal!proposalVars
<1>12. ASSUME NEW e \in Evaluations, Cal!Resolve(e) PROVE Cal!TypeOK'
  <2>1. PICK v \in Cal!Versions : Cal!Resolve(e)!(v)
    BY <1>12 DEF Cal!Resolve
  <2>2. actives' \in Seq(cached') /\ Distinct(actives')
    BY <2>1, CalReadThrough
  <2>3. [version |-> v, active |-> Cal!IsActive(v)'] \in Cal!Snapshots
    BY DEF Cal!IsActive, Cal!Snapshots
  <2>4. happened' \subseteq Cal!Faults
    BY <2>1 DEF Cal!TypeOK, Cal!If, Cal!Faults
  <2>5. read' \in [Evaluations -> Cal!Snapshots \union {Cal!NoSnapshot, Cal!Done}]
    BY <2>1, <2>3 DEF Cal!TypeOK
  <2>6. cached' \subseteq Cal!Versions
        /\ UNCHANGED <<up, boots, rows, pgPolicy, proposals, stored, pgProp, drafting, applying,
                       moved, intended, uses>>
    BY <2>1 DEF Cal!TypeOK, Cal!proposalVars
  <2>7. QED
    BY <2>2, <2>4, <2>5, <2>6 DEF Cal!TypeOK, Distinct
<1>13. ASSUME NEW e \in Evaluations, Cal!SavePolicy(e) PROVE Cal!TypeOK'
  <2>1. read[e].version \in Cal!Versions
    BY <1>13 DEF Cal!SavePolicy, Cal!Snapshots
  <2>2. actives \in Seq(cached) /\ Distinct(actives)
    BY DEF Cal!TypeOK, Distinct
  <2>3. actives' \in Seq(cached') /\ Distinct(actives')
    <3>1. actives' = Cal!Saved(actives, read[e]) /\ cached' = cached \union {read[e].version}
      BY <1>13 DEF Cal!SavePolicy
    <3>2. /\ Cal!Saved(actives, read[e]) \in Seq(cached \union {read[e].version})
          /\ Distinct(Cal!Saved(actives, read[e]))
      BY <2>2, CalSaved
    <3>3. QED
      BY <3>1, <3>2
  <2>4. rows' \in [Cal!Versions -> {"none", "on", "off"}] /\ pgPolicy' \in BOOLEAN
    <3>1. Cal!RowsWith(read[e]) \in [Cal!Versions -> {"none", "on", "off"}]
      BY <2>1, CalRowsWith
    <3>2. rows' \in {rows, Cal!RowsWith(read[e])} /\ pgPolicy' \in {pgPolicy, FALSE}
      BY <1>13 DEF Cal!SavePolicy
    <3>3. rows \in [Cal!Versions -> {"none", "on", "off"}] /\ pgPolicy \in BOOLEAN
      BY DEF Cal!TypeOK
    <3>4. QED
      BY <3>1, <3>2, <3>3
  <2>5. happened' \subseteq Cal!Faults
    BY <1>13 DEF Cal!SavePolicy, Cal!TypeOK, Cal!If, Cal!Faults
  <2>6. cached' \subseteq Cal!Versions
    BY <1>13, <2>1 DEF Cal!SavePolicy, Cal!TypeOK
  <2>7. read' \in [Evaluations -> Cal!Snapshots \union {Cal!NoSnapshot, Cal!Done}]
    BY <1>13 DEF Cal!SavePolicy, Cal!TypeOK
  <2>8. UNCHANGED <<up, boots, proposals, stored, pgProp, drafting, applying, moved, intended, uses>>
    BY <1>13 DEF Cal!SavePolicy, Cal!proposalVars
  <2>9. QED
    BY <2>3, <2>4, <2>5, <2>6, <2>7, <2>8 DEF Cal!TypeOK, Distinct
<1>14. CASE UNCHANGED Cal!vars
  BY <1>14 DEF Cal!vars, Cal!TypeOK
<1>15. ASSUME NEW p \in Cal!Props, Cal!Abandon(p) PROVE Cal!TypeOK'
  BY <1>15 DEF Cal!Abandon, Cal!TypeOK, Cal!policyVars, Cal!proposalVars
<1>16. QED
  BY <1>1, <1>2, <1>3, <1>4, <1>5, <1>6, <1>7, <1>8, <1>9, <1>10, <1>11, <1>12, <1>13,
     <1>14, <1>15, CalDraftType, CalProposeType DEF Cal!Next

LEMMA CalTypeInit == ASSUME Cal!Init PROVE Cal!TypeOK
<1>1. Cal!NoProposal \in Cal!Proposals /\ "idle" \in Cal!Steps
  BY CalSets DEF Cal!NoProposal, Cal!Proposals, Cal!Statuses, Cal!Steps
<1>2. actives \in Seq(cached) /\ Distinct(actives)
  BY DEF Cal!Init, Distinct
<1>3. boots \in 0..MaxBoots /\ intended \in Cal!Versions
  BY CalSets, BoundAssumption DEF Cal!Init
<1>4. QED
  BY <1>1, <1>2, <1>3 DEF Cal!Init, Cal!TypeOK, Distinct

-----------------------------------------------------------------------------
(* Calibration: an apply and its proposal.                                 *)

\* What a change of the proposals does to one of them.
LEMMA CalMoved ==
    ASSUME Cal!TypeOK, NEW p \in Cal!Props, NEW status, NEW faults, Cal!Move(p, status, faults)
    PROVE  /\ proposals' = [proposals EXCEPT ![p].status = status]
           /\ proposals'[p].status = status /\ proposals'[p].source = proposals[p].source
           /\ \A q \in Cal!Props : q # p => proposals'[q] = proposals[q] /\ stored'[q] = stored[q]
           /\ happened \subseteq happened' /\ faults \subseteq happened'
<1> DEFINE ps == [proposals EXCEPT ![p].status = status]
<1>1. Cal!Put(ps, faults)
  BY DEF Cal!Move
<1>2. proposals' = ps /\ happened \subseteq happened' /\ faults \subseteq happened'
  BY <1>1 DEF Cal!Put
<1>3. proposals \in [Cal!Props -> [status : Cal!Statuses, source : Cal!Versions]]
  BY DEF Cal!TypeOK, Cal!Proposals
<1>4. ps[p].status = status /\ ps[p].source = proposals[p].source
  BY <1>3
<1>5. \A q \in Cal!Props : q # p => ps[q] = proposals[q]
  BY <1>3
<1> HIDE DEF ps
<1>6. \A q \in Cal!Props : q # p => stored'[q] = stored[q]
  BY <1>1, <1>5 DEF Cal!Put, Cal!TypeOK
<1>7. QED
  BY <1>2, <1>4, <1>5, <1>6 DEF ps

\* What the save of a draft does to the proposals.
CalProposal(p, old) ==
    /\ uses[p] = 0 /\ proposals[p] = Cal!NoProposal /\ stored[p] = Cal!NoProposal
    /\ proposals'[p] = [status |-> "PENDING", source |-> drafting[p]]
    /\ \A q \in Cal!Props \ {p} :
          /\ q \in old => /\ proposals'[q].status = "EXPIRED"
                          /\ proposals'[q].source = proposals[q].source
          /\ q \notin old => proposals'[q] = proposals[q] /\ stored'[q] = stored[q]
    /\ drafting'[p] = Cal!NoVersion
    /\ \A q \in Cal!Props \ {p} : drafting'[q] = drafting[q]

LEMMA CalProposed ==
    ASSUME Cal!TypeOK, Cal!DraftInv, NEW p \in Cal!Props, NEW old, Cal!Propose(p, old)
    PROVE  CalProposal(p, old)
<1>1. uses[p] = 0 /\ proposals[p] = Cal!NoProposal /\ stored[p] = Cal!NoProposal
  BY DEF Cal!Propose, Cal!DraftInv
<1> DEFINE ps == [q \in Cal!Props |->
                     IF q = p THEN [status |-> "PENDING", source |-> drafting[p]]
                     ELSE IF q \in old THEN [proposals[q] EXCEPT !.status = "EXPIRED"]
                     ELSE proposals[q]]
<1>2. Cal!Put(ps, {})
  BY DEF Cal!Propose
<1>3. \A q \in Cal!Props \ {p} : q \notin old => ps[q] = proposals[q]
  OBVIOUS
<1>4. proposals' = ps
  BY <1>2 DEF Cal!Put
<1>5. ASSUME NEW q \in Cal!Props \ {p}
      PROVE  /\ q \in old => /\ ps[q].status = "EXPIRED"
                             /\ ps[q].source = proposals[q].source
  <2>1. proposals[q] \in Cal!Proposals
    BY DEF Cal!TypeOK
  <2>2. QED
    BY <2>1 DEF Cal!Proposals
<1>6. ps[p] = [status |-> "PENDING", source |-> drafting[p]]
  OBVIOUS
<1> HIDE DEF ps
<1>7. \A q \in Cal!Props \ {p} : q \notin old => stored'[q] = stored[q]
  BY <1>2, <1>3 DEF Cal!Put
<1>8. drafting'[p] = Cal!NoVersion /\ \A q \in Cal!Props \ {p} : drafting'[q] = drafting[q]
  BY DEF Cal!Propose, Cal!TypeOK
<1>9. QED
  BY <1>1, <1>3, <1>4, <1>5, <1>6, <1>7, <1>8 DEF CalProposal

\* An old proposal of a draft is a PENDING one.
LEMMA CalSuperseded ==
    ASSUME NEW v, NEW old \in {{}, Cal!Superseded(v)}, NEW q \in old
    PROVE  q \in Cal!Props /\ proposals[q].status = "PENDING"
BY DEF Cal!Superseded

\* Evaluations, activations by an operator and drafts that are not saved leave
\* the proposals alone.
CalPolicyStep ==
    \/ \E v \in Cal!Versions : Cal!ActivatePolicy(v) \/ Cal!Draft(v)
    \/ \E p \in Cal!Props : Cal!Abandon(p)
    \/ \E e \in Evaluations : Cal!Resolve(e) \/ Cal!SavePolicy(e)

LEMMA CalPolicyOnly ==
    ASSUME CalPolicyStep \/ UNCHANGED Cal!vars
    PROVE  /\ UNCHANGED <<up, boots, proposals, stored, pgProp, applying, moved, uses>>
           /\ happened \subseteq happened'
           /\ "lost write" \in happened' => "lost write" \in happened
<1> DEFINE P == /\ UNCHANGED <<up, boots, proposals, stored, pgProp, applying, moved, uses>>
                /\ happened \subseteq happened'
                /\ "lost write" \in happened' => "lost write" \in happened
<1>1. ASSUME NEW v \in Cal!Versions, Cal!ActivatePolicy(v) PROVE P
  BY <1>1 DEF Cal!ActivatePolicy, Cal!proposalVars
<1>2. ASSUME NEW e \in Evaluations, Cal!Resolve(e) PROVE P
  <2>1. PICK v \in Cal!Versions : Cal!Resolve(e)!(v)
    BY <1>2 DEF Cal!Resolve
  <2>2. happened' = happened \union Cal!If(v \notin cached, "read back")
    BY <2>1
  <2>3. UNCHANGED <<up, boots, proposals, stored, pgProp, applying, moved, uses>>
    BY <2>1 DEF Cal!proposalVars
  <2>4. QED
    BY <2>2, <2>3 DEF Cal!If
<1>3. ASSUME NEW e \in Evaluations, Cal!SavePolicy(e) PROVE P
  <2>1. happened' = happened \union Cal!If(Cal!Stale(read[e]), "stale save")
                             \union Cal!If(~pgPolicy', "degraded")
    BY <1>3 DEF Cal!SavePolicy
  <2>2. UNCHANGED <<up, boots, proposals, stored, pgProp, applying, moved, uses>>
    BY <1>3 DEF Cal!SavePolicy, Cal!proposalVars
  <2>3. QED
    BY <2>1, <2>2 DEF Cal!If
<1>4. CASE UNCHANGED Cal!vars
  BY <1>4 DEF Cal!vars
<1>5. CASE \E v \in Cal!Versions : Cal!ActivatePolicy(v)
  BY <1>1, <1>5
<1>6. CASE \E e \in Evaluations : Cal!Resolve(e) \/ Cal!SavePolicy(e)
  <2>1. PICK e \in Evaluations : Cal!Resolve(e) \/ Cal!SavePolicy(e)
    BY <1>6
  <2>2. QED
    BY <2>1, <1>2, <1>3
<1>7. ASSUME NEW v \in Cal!Versions, Cal!Draft(v) PROVE P
  <2>1. PICK p \in Cal!Fresh : Cal!Draft(v)!(p)
    BY <1>7 DEF Cal!Draft
  <2>2. happened' = happened \union Cal!If(Cal!Moving # {}, "overlap")
                             \union Cal!If(v \notin cached, "read back")
    BY <2>1
  <2>3. UNCHANGED <<up, boots, proposals, stored, pgProp, applying, moved, uses>>
    BY <2>1 DEF Cal!proposalVars
  <2>4. QED
    BY <2>2, <2>3 DEF Cal!If
<1>8. ASSUME NEW p \in Cal!Props, Cal!Abandon(p) PROVE P
  BY <1>8 DEF Cal!Abandon, Cal!proposalVars
<1>9. QED
  BY <1>4, <1>5, <1>6, <1>7, <1>8 DEF CalPolicyStep

LEMMA CalApplyStep ==
    ASSUME Cal!TypeOK, Cal!ApplyInv, Cal!DraftInv, [Cal!Next]_Cal!vars
    PROVE  Cal!ApplyInv'
<1> USE DEF Cal!ApplyInv
<1>1. CASE Cal!Boot
  BY <1>1 DEF Cal!Boot
<1>2. CASE Cal!Crash
  BY <1>2 DEF Cal!Crash
<1>3. ASSUME NEW p \in Cal!Props, NEW old \in {{}, Cal!Superseded(drafting[p])},
             Cal!Propose(p, old)
      PROVE  Cal!ApplyInv'
  <2>1. up' = up /\ applying' = applying
    BY <1>3 DEF Cal!Propose
  <2>2. Cal!NoProposal.status = "NONE"
    BY DEF Cal!NoProposal
  <2>3. CalProposal(p, old)
    BY <1>3, CalProposed
  <2>4. \A q \in old : proposals[q].status = "PENDING"
    BY CalSuperseded
  <2>5. QED
    BY <2>1, <2>2, <2>3, <2>4 DEF CalProposal
<1>4. CASE CalPolicyStep \/ UNCHANGED Cal!vars
  <2>1. UNCHANGED <<up, proposals, applying>>
    BY <1>4, CalPolicyOnly
  <2>2. QED
    BY <2>1
<1>5. ASSUME NEW p \in Cal!Props, Cal!Reject(p) PROVE Cal!ApplyInv'
  BY <1>5, CalMoved DEF Cal!Reject
<1>6. ASSUME NEW p \in Cal!Props, Cal!Approve(p) PROVE Cal!ApplyInv'
  BY <1>6, CalMoved DEF Cal!Approve, Cal!TypeOK
<1>7. ASSUME NEW p \in Cal!Props, Cal!Rollback(p) PROVE Cal!ApplyInv'
  <2>1. \/ /\ proposals' = proposals
        \/ /\ proposals[p].status = "APPLIED"
           /\ \A q \in Cal!Props : q # p => proposals'[q] = proposals[q]
    BY <1>7, CalMoved DEF Cal!Rollback, Cal!proposalVars
  <2>2. up' = up /\ applying' = applying
    BY <1>7 DEF Cal!Rollback
  <2>3. QED
    BY <2>1, <2>2
<1>8. ASSUME NEW p \in Cal!Props, Cal!ApplySave(p) PROVE Cal!ApplyInv'
  BY <1>8 DEF Cal!ApplySave, Cal!proposalVars, Cal!TypeOK
<1>9. ASSUME NEW p \in Cal!Props, Cal!ApplyActivate(p) PROVE Cal!ApplyInv'
  BY <1>9 DEF Cal!ApplyActivate, Cal!proposalVars, Cal!TypeOK
<1>10. ASSUME NEW p \in Cal!Props, Cal!ApplyCommit(p) PROVE Cal!ApplyInv'
  BY <1>10 DEF Cal!ApplyCommit, Cal!proposalVars, Cal!TypeOK
<1>11. ASSUME NEW p \in Cal!Props, Cal!ApplyMark(p) PROVE Cal!ApplyInv'
  BY <1>11, CalMoved DEF Cal!ApplyMark, Cal!TypeOK
<1>12. ASSUME NEW p \in Cal!Props, Cal!ApplyFails(p) PROVE Cal!ApplyInv'
  BY <1>12 DEF Cal!ApplyFails, Cal!proposalVars, Cal!TypeOK
<1>13. QED
  BY <1>1, <1>2, <1>3, <1>4, <1>5, <1>6, <1>7, <1>8, <1>9, <1>10, <1>11, <1>12
     DEF Cal!Next, CalPolicyStep

\* While the process runs, what went wrong is remembered and a proposal whose
\* apply raised stays as it is.
LEMMA CalExcuses ==
    ASSUME Cal!TypeOK, Cal!ApplyInv, Cal!DraftInv, [Cal!Next]_Cal!vars, up, up'
    PROVE  /\ happened \subseteq happened' /\ boots' = boots
           /\ Cal!FailedApply => Cal!FailedApply'
<1> DEFINE Stuck(p) == proposals[p].status = "APPROVED" /\ applying[p] = "idle"
<1>1. CASE Cal!Boot
  BY <1>1 DEF Cal!Boot
<1>2. CASE Cal!Crash
  BY <1>2 DEF Cal!Crash
<1>3. ASSUME NEW p \in Cal!Props, NEW old \in {{}, Cal!Superseded(drafting[p])},
             Cal!Propose(p, old)
      PROVE  happened \subseteq happened' /\ boots' = boots
             /\ \A q \in Cal!Props : Stuck(q) => Stuck(q)'
  <2>1. happened \subseteq happened' /\ boots' = boots /\ applying' = applying
    BY <1>3 DEF Cal!Propose, Cal!Put
  <2>2. Cal!NoProposal.status = "NONE"
    BY DEF Cal!NoProposal
  <2>3. CalProposal(p, old)
    BY <1>3, CalProposed
  <2>4. \A q \in old : proposals[q].status = "PENDING"
    BY CalSuperseded
  <2>5. QED
    BY <2>1, <2>2, <2>3, <2>4 DEF CalProposal
<1>4. CASE CalPolicyStep \/ UNCHANGED Cal!vars
  <2>1. UNCHANGED <<boots, proposals, applying>> /\ happened \subseteq happened'
    BY <1>4, CalPolicyOnly
  <2>2. QED
    BY <2>1 DEF Cal!FailedApply
<1>5. ASSUME NEW p \in Cal!Props,
             Cal!Reject(p) \/ Cal!Approve(p) \/ Cal!Rollback(p) \/ Cal!ApplyMark(p)
      PROVE  happened \subseteq happened' /\ boots' = boots
             /\ \A q \in Cal!Props : Stuck(q) => Stuck(q)'
  <2>1. boots' = boots /\ \A q \in Cal!Props : q # p => applying'[q] = applying[q]
    BY <1>5 DEF Cal!Reject, Cal!Approve, Cal!Rollback, Cal!ApplyMark, Cal!TypeOK
  <2>2. \/ proposals' = proposals /\ applying' = applying /\ happened' = happened
        \/ /\ ~Stuck(p)
           /\ \A q \in Cal!Props : q # p => proposals'[q] = proposals[q]
           /\ happened \subseteq happened'
    <3>1. CASE Cal!Reject(p) \/ Cal!Approve(p) \/ Cal!ApplyMark(p)
      BY <3>1, CalMoved DEF Cal!Reject, Cal!Approve, Cal!ApplyMark
    <3>2. CASE Cal!Rollback(p)
      BY <3>2, CalMoved DEF Cal!Rollback, Cal!proposalVars
    <3>3. QED
      BY <1>5, <3>1, <3>2
  <2>3. QED
    BY <2>1, <2>2
<1>6. ASSUME NEW p \in Cal!Props, Cal!ApplySave(p) \/ Cal!ApplyActivate(p)
                                  \/ Cal!ApplyCommit(p) \/ Cal!ApplyFails(p)
      PROVE  happened \subseteq happened' /\ boots' = boots
             /\ \A q \in Cal!Props : Stuck(q) => Stuck(q)'
  <2>1. /\ proposals' = proposals /\ boots' = boots /\ happened \subseteq happened'
        /\ applying[p] # "idle" /\ \A q \in Cal!Props : q # p => applying'[q] = applying[q]
    <3>1. CASE Cal!ApplySave(p)
      BY <3>1 DEF Cal!ApplySave, Cal!proposalVars, Cal!TypeOK
    <3>2. CASE Cal!ApplyActivate(p)
      BY <3>2 DEF Cal!ApplyActivate, Cal!proposalVars, Cal!TypeOK
    <3>3. CASE Cal!ApplyCommit(p)
      BY <3>3 DEF Cal!ApplyCommit, Cal!proposalVars, Cal!TypeOK
    <3>4. CASE Cal!ApplyFails(p)
      BY <3>4 DEF Cal!ApplyFails, Cal!proposalVars, Cal!TypeOK
    <3>5. QED
      BY <1>6, <3>1, <3>2, <3>3, <3>4
  <2>2. QED
    BY <2>1
<1>7. Cal!FailedApply <=> \E q \in Cal!Props : Stuck(q)
  BY DEF Cal!FailedApply
<1>8. Cal!FailedApply' <=> \E q \in Cal!Props : Stuck(q)'
  BY DEF Cal!FailedApply
<1> HIDE DEF Stuck
<1>9. QED
  BY <1>1, <1>2, <1>3, <1>4, <1>5, <1>6, <1>7, <1>8 DEF Cal!Next, CalPolicyStep

\* A process that is down stays down until it is started.
LEMMA CalDown ==
    ASSUME Cal!ApplyInv, Cal!DraftInv, [Cal!Next]_Cal!vars, ~up, ~Cal!Boot
    PROVE  ~up' /\ UNCHANGED <<boots, moved, uses, stored, drafting>>
<1>1. \A p \in Cal!Props : applying[p] = "idle" /\ drafting[p] = Cal!NoVersion
  BY DEF Cal!ApplyInv, Cal!DraftInv
<1>2. \/ \E e \in Evaluations : Cal!SavePolicy(e)
      \/ UNCHANGED Cal!vars
  BY <1>1 DEF Cal!Next, Cal!Crash, Cal!Draft, Cal!Abandon, Cal!Propose, Cal!ActivatePolicy,
     Cal!Reject, Cal!Approve, Cal!Rollback, Cal!ApplySave, Cal!ApplyActivate, Cal!ApplyCommit,
     Cal!ApplyMark, Cal!ApplyFails, Cal!Resolve
<1>3. CASE UNCHANGED Cal!vars
  BY <1>3 DEF Cal!vars
<1>4. ASSUME NEW e \in Evaluations, Cal!SavePolicy(e)
      PROVE  ~up' /\ UNCHANGED <<boots, moved, uses, stored, drafting>>
  BY <1>4 DEF Cal!SavePolicy, Cal!proposalVars
<1>5. QED
  BY <1>2, <1>3, <1>4

\* A draft keeps its number until it is saved, abandoned or lost in a crash.
LEMMA CalDraftStep ==
    ASSUME Cal!TypeOK, Cal!ApplyInv, Cal!DraftInv, [Cal!Next]_Cal!vars
    PROVE  Cal!DraftInv'
<1> USE DEF Cal!DraftInv
<1>0. Cal!NoProposal.status = "NONE"
  BY DEF Cal!NoProposal
<1>1. CASE Cal!Boot
  BY <1>1 DEF Cal!Boot
<1>2. CASE Cal!Crash
  BY <1>2 DEF Cal!Crash
<1>3. ASSUME NEW p \in Cal!Props, NEW old \in {{}, Cal!Superseded(drafting[p])},
             Cal!Propose(p, old)
      PROVE  Cal!DraftInv'
  <2>1. CalProposal(p, old) /\ up' = up /\ uses' = uses
    BY <1>3, CalProposed DEF Cal!Propose
  <2>2. \A q \in old : proposals[q].status = "PENDING"
    BY CalSuperseded
  <2>3. QED
    BY <1>0, <2>1, <2>2 DEF CalProposal
<1>4. ASSUME NEW v \in Cal!Versions, Cal!Draft(v) PROVE Cal!DraftInv'
  <2>1. PICK p \in Cal!Fresh : Cal!Draft(v)!(p)
    BY <1>4 DEF Cal!Draft
  <2>2. p \in Cal!Props /\ uses[p] = 0 /\ proposals[p] = Cal!NoProposal /\ stored[p] = Cal!NoProposal
    BY DEF Cal!Fresh
  <2>3. /\ up /\ UNCHANGED <<up, uses, proposals, stored>>
        /\ \A q \in Cal!Props \ {p} : drafting'[q] = drafting[q]
    BY <2>1 DEF Cal!proposalVars, Cal!TypeOK
  <2>4. QED
    BY <2>2, <2>3
<1>5. ASSUME NEW p \in Cal!Props, Cal!Abandon(p) PROVE Cal!DraftInv'
  BY <1>5 DEF Cal!Abandon, Cal!proposalVars, Cal!TypeOK
<1>6. ASSUME NEW p \in Cal!Props,
             Cal!Reject(p) \/ Cal!Approve(p) \/ Cal!Rollback(p) \/ Cal!ApplyMark(p)
      PROVE  Cal!DraftInv'
  <2>1. UNCHANGED <<up, uses, drafting>>
    BY <1>6 DEF Cal!Reject, Cal!Approve, Cal!Rollback, Cal!ApplyMark
  <2>2. \/ UNCHANGED <<proposals, stored>>
        \/ /\ proposals[p].status # "NONE"
           /\ \A q \in Cal!Props : q # p => proposals'[q] = proposals[q] /\ stored'[q] = stored[q]
    <3>1. CASE Cal!Reject(p) \/ Cal!Approve(p) \/ Cal!ApplyMark(p)
      BY <3>1, CalMoved DEF Cal!Reject, Cal!Approve, Cal!ApplyMark
    <3>2. CASE Cal!Rollback(p)
      BY <3>2, CalMoved DEF Cal!Rollback, Cal!proposalVars
    <3>3. QED
      BY <1>6, <3>1, <3>2
  <2>3. QED
    BY <1>0, <2>1, <2>2
<1>7. ASSUME NEW p \in Cal!Props, Cal!ApplySave(p) \/ Cal!ApplyActivate(p)
                                  \/ Cal!ApplyCommit(p) \/ Cal!ApplyFails(p)
      PROVE  Cal!DraftInv'
  <2>1. /\ UNCHANGED <<up, proposals, stored, drafting>> /\ applying[p] # "idle"
        /\ \A q \in Cal!Props : q # p => uses'[q] = uses[q]
    BY <1>7 DEF Cal!ApplySave, Cal!ApplyActivate, Cal!ApplyCommit, Cal!ApplyFails,
       Cal!proposalVars, Cal!TypeOK
  <2>2. drafting[p] = Cal!NoVersion
    BY <1>0, <2>1 DEF Cal!ApplyInv
  <2>3. QED
    BY <2>1, <2>2
<1>8. CASE \/ \E v \in Cal!Versions : Cal!ActivatePolicy(v)
           \/ \E e \in Evaluations : Cal!Resolve(e) \/ Cal!SavePolicy(e)
           \/ UNCHANGED Cal!vars
  <2>1. UNCHANGED <<up, proposals, stored, drafting, uses>>
    BY <1>8 DEF Cal!ActivatePolicy, Cal!Resolve, Cal!SavePolicy, Cal!proposalVars, Cal!vars
  <2>2. QED
    BY <2>1
<1>9. QED
  BY <1>1, <1>2, <1>3, <1>4, <1>5, <1>6, <1>7, <1>8 DEF Cal!Next

\* ActiveHolds is inductive once it says what else is active: nothing.
LEMMA CalActiveStep ==
    ASSUME Cal!TypeOK, Cal!ApplyInv, Cal!DraftInv, Cal!ActiveInv, [Cal!Next]_Cal!vars
    PROVE  Cal!ActiveInv'
<1> DEFINE Faulty == happened \intersect {"stale save", "read back", "two active"} # {}
           Held == (actives = <<>> /\ intended = Cal!NoVersion) \/ actives = <<intended>>
           Applying(p) == applying[p] = "activate"
<1>1. Cal!ActiveInv' <=> (up' => Held' \/ (\E p \in Cal!Props : Applying(p)') \/ Cal!FailedApply'
                                 \/ Faulty')
  BY DEF Cal!ActiveInv
<1>2. Cal!ActiveInv <=> (up => Held \/ (\E p \in Cal!Props : Applying(p)) \/ Cal!FailedApply
                               \/ Faulty)
  BY DEF Cal!ActiveInv
<1>3. CASE Cal!Boot
  <2>1. intended' = Cal!Active' /\ (Len(actives') > 1 => "two active" \in happened')
    BY <1>3 DEF Cal!Boot, Cal!If
  <2>2. actives' \in Seq(cached')
    BY <1>3, CalBootType
  <2>3. CASE Len(actives') > 1
    BY <1>1, <2>1, <2>3
  <2>4. CASE actives' = <<>>
    BY <1>1, <2>1, <2>4 DEF Cal!Active
  <2>5. CASE Len(actives') = 1
    <3>1. actives' # <<>> /\ Cal!Active' = actives'[1]
      BY <2>5 DEF Cal!Active, Cal!Last
    <3>2. actives' = <<actives'[1]>>
      BY <2>2, <2>5
    <3>3. QED
      BY <1>1, <2>1, <3>1, <3>2
  <2>6. Len(actives') > 1 \/ actives' = <<>> \/ Len(actives') = 1
    BY <2>2, CalLengths
  <2>7. QED
    BY <2>3, <2>4, <2>5, <2>6
<1>4. CASE up /\ ~up'
  BY <1>1, <1>4
<1>5. CASE ~up /\ ~Cal!Boot
  BY <1>1, <1>5, CalDown
<1>6. CASE up /\ up'
  <2>1. happened \subseteq happened' /\ (Cal!FailedApply => Cal!FailedApply')
    BY <1>6, CalExcuses
  <2>2. CASE Cal!FailedApply \/ Faulty
    BY <2>1, <2>2, <1>1
  <2>3. CASE Held \/ \E q \in Cal!Props : Applying(q)
    <3> SUFFICES Held' \/ (\E q \in Cal!Props : Applying(q)') \/ Cal!FailedApply' \/ Faulty'
      BY <1>1
    <3>1. ASSUME UNCHANGED <<actives, intended>>,
                 \A q \in Cal!Props : Applying(q) => Applying(q)'
          PROVE  Held' \/ \E q \in Cal!Props : Applying(q)'
      BY <2>3, <3>1
    <3>2. ASSUME NEW v \in Cal!Versions, Cal!Draft(v)
          PROVE  UNCHANGED <<actives, intended, applying>> \/ "read back" \in happened'
      BY <3>2 DEF Cal!Draft, Cal!ReadThrough, Cal!If
    <3>3. ASSUME NEW v, Cal!Activate(v), intended' = v PROVE Held'
      BY <3>3 DEF Cal!Activate, Cal!Activated
    <3>4. ASSUME NEW p \in Cal!Props,
                 Cal!Reject(p) \/ Cal!Approve(p) \/ Cal!ApplyCommit(p) \/ Cal!ApplyMark(p)
          PROVE  /\ UNCHANGED <<actives, intended>>
                 /\ \A q \in Cal!Props : Applying(q) => Applying(q)'
      BY <3>4 DEF Cal!Reject, Cal!Approve, Cal!ApplyCommit, Cal!ApplyMark, Cal!policyVars,
         Cal!ApplyInv, Cal!TypeOK
    <3>5. ASSUME NEW p \in Cal!Props, Cal!ApplySave(p) PROVE Applying(p)'
      BY <3>5 DEF Cal!ApplySave, Cal!TypeOK
    <3>6. ASSUME NEW p \in Cal!Props, Cal!ApplyFails(p) PROVE Cal!FailedApply'
      BY <3>6 DEF Cal!ApplyFails, Cal!proposalVars, Cal!ApplyInv, Cal!FailedApply, Cal!TypeOK
    <3>7. ASSUME NEW e \in Evaluations, Cal!Resolve(e)
          PROVE  UNCHANGED <<actives, intended, applying>> \/ "read back" \in happened'
      <4>1. PICK v \in Cal!Versions : Cal!Resolve(e)!(v)
        BY <3>7 DEF Cal!Resolve
      <4>2. QED
        BY <4>1 DEF Cal!ReadThrough, Cal!If
    <3>8. ASSUME NEW e \in Evaluations, Cal!SavePolicy(e)
          PROVE  (Held => Held') \/ "stale save" \in happened'
      <4> DEFINE s == read[e]
      <4>1. s.active \in BOOLEAN /\ actives' = Cal!Saved(actives, s) /\ intended' = intended
        BY <3>8 DEF Cal!SavePolicy, Cal!Snapshots
      <4>2. CASE Cal!Stale(s)
        BY <3>8, <4>2 DEF Cal!SavePolicy, Cal!If
      <4>3. CASE ~Cal!Stale(s) /\ Held
        <5>1. s.active <=> \E i \in DOMAIN actives : actives[i] = s.version
          BY <4>1, <4>3 DEF Cal!Stale, Cal!IsActive
        <5> HIDE DEF s
        <5>2. CASE actives = <<>>
          <6>1. DOMAIN actives = {} /\ intended = Cal!NoVersion
            BY <4>3, <5>2
          <6>2. ~s.active
            BY <5>1, <6>1
          <6>3. Cal!Saved(<<>>, s) = <<>>
            BY <6>2, CalSavedAgain
          <6>4. QED
            BY <4>1, <5>2, <6>1, <6>3
        <5>3. CASE actives = <<intended>> /\ intended = s.version
          <6>1. 1 \in DOMAIN actives /\ actives[1] = s.version
            BY <5>3
          <6>2. Cal!Saved(<<s.version>>, s) = <<s.version>>
            BY <5>1, <6>1, CalSavedAgain
          <6>3. QED
            BY <4>1, <5>3, <6>2
        <5>4. CASE actives = <<intended>> /\ intended # s.version
          <6>1. \A i \in DOMAIN actives : actives[i] # s.version
            BY <5>4
          <6>2. Cal!Saved(<<intended>>, s) = <<intended>>
            BY <5>1, <5>4, <6>1, CalSavedAgain
          <6>3. QED
            BY <4>1, <5>4, <6>2
        <5>5. QED
          BY <4>3, <5>2, <5>3, <5>4
      <4>4. QED
        BY <4>2, <4>3
    <3>9. ASSUME NEW e \in Evaluations, Cal!SavePolicy(e) PROVE applying' = applying
      BY <3>9 DEF Cal!SavePolicy
    <3>10. CASE \E e \in Evaluations : Cal!SavePolicy(e)
      BY <2>3, <3>8, <3>9, <3>10
    <3>11. CASE \E e \in Evaluations : Cal!Resolve(e)
      BY <3>1, <3>7, <3>11
    <3>12. CASE \E v \in Cal!Versions : Cal!Draft(v)
      BY <3>1, <3>2, <3>12
    <3>13. CASE \E v \in Cal!Versions : Cal!ActivatePolicy(v)
      BY <3>3, <3>13 DEF Cal!ActivatePolicy
    <3>14. CASE \E p \in Cal!Props : Cal!Rollback(p) \/ Cal!ApplyActivate(p)
      BY <3>3, <3>14 DEF Cal!Rollback, Cal!ApplyActivate
    <3>15. CASE \E p \in Cal!Props : \/ Cal!Reject(p) \/ Cal!Approve(p)
                                     \/ Cal!ApplyCommit(p) \/ Cal!ApplyMark(p)
      BY <3>1, <3>4, <3>15
    <3>16. CASE \E p \in Cal!Props : Cal!ApplySave(p) \/ Cal!ApplyFails(p)
      BY <3>5, <3>6, <3>16
    <3>17. CASE UNCHANGED Cal!vars
      BY <3>1, <3>17 DEF Cal!vars
    <3>18. CASE \E p \in Cal!Props : \/ Cal!Abandon(p) \/ Cal!Propose(p, {})
                                     \/ Cal!Propose(p, Cal!Superseded(drafting[p]))
      BY <3>1, <3>18 DEF Cal!Abandon, Cal!Propose, Cal!policyVars
    <3>19. QED
      BY <1>6, <3>10, <3>11, <3>12, <3>13, <3>14, <3>15, <3>16, <3>17, <3>18
         DEF Cal!Next, Cal!Boot, Cal!Crash
  <2>4. QED
    BY <1>2, <1>6, <2>2, <2>3
<1>7. QED
  BY <1>3, <1>4, <1>5, <1>6

-----------------------------------------------------------------------------
(* Calibration: a proposal is answered once.                               *)

\* Without a lost write, a change reaches the table or, if the store does not
\* write to Postgres, the cache alone.
LEMMA CalPutKept ==
    ASSUME Cal!TypeOK, NEW ps \in [Cal!Props -> Cal!Proposals], NEW faults, Cal!Put(ps, faults),
           "lost write" \notin happened', pgProp => proposals = stored
    PROVE  /\ "lost write" \notin happened /\ proposals' = ps /\ pgProp' = pgProp
           /\ pgProp => stored' = ps
           /\ ~pgProp => stored' = stored
<1>1. "lost write" \notin happened /\ proposals' = ps /\ pgProp' = pgProp
  BY DEF Cal!Put
<1>2. ~pgProp => stored' = stored
  BY DEF Cal!Put
<1>3. ASSUME pgProp PROVE stored' = ps
  <2>1. stored' = [p \in Cal!Props |-> IF ps[p] # proposals[p] THEN ps[p] ELSE stored[p]]
    BY <1>3 DEF Cal!Put, Cal!If
  <2>2. stored' = [p \in Cal!Props |-> ps[p]]
    BY <1>3, <2>1
  <2>3. QED
    BY <2>2
<1>4. QED
  BY <1>1, <1>2, <1>3

\* What is known of one proposal.
CalUnused(p) ==
    /\ uses[p] <= 1
    /\ applying[p] = "save" => uses[p] = 0
    /\ proposals[p].status \in Cal!Unapproved => uses[p] = 0
    /\ stored[p].status \in Cal!Unapproved => uses[p] = 0

\* Cache and table agree, or have no proposal in common.
CalAgree ==
    /\ pgProp => proposals = stored
    /\ ~pgProp => \A p \in Cal!Props : proposals[p] # Cal!NoProposal => stored[p] = Cal!NoProposal

\* A change that leaves every proposal's answer consistent with its use keeps
\* the invariant.
LEMMA CalPutAnswer ==
    ASSUME Cal!TypeOK, NEW ps \in [Cal!Props -> Cal!Proposals], NEW faults, Cal!Put(ps, faults),
           Cal!AnswerInv, up, uses' = uses, up' = up,
           \A p \in Cal!Props : applying'[p] = "save" => applying[p] = "save" \/ uses[p] = 0,
           \A p \in Cal!Props : ps[p].status \in Cal!Unapproved =>
                \/ uses[p] = 0
                \/ proposals[p].status \in Cal!Unapproved,
           \A p \in Cal!Props : ps[p] # Cal!NoProposal =>
                \/ proposals[p] # Cal!NoProposal
                \/ stored[p] = Cal!NoProposal
    PROVE  Cal!AnswerInv'
<1>1. CASE "lost write" \in happened'
  BY <1>1 DEF Cal!AnswerInv
<1>2. CASE "lost write" \notin happened'
  <2>1. "lost write" \notin happened
    BY <1>2 DEF Cal!Put
  <2>2. \A p \in Cal!Props : CalUnused(p)
    BY <2>1 DEF Cal!AnswerInv, CalUnused
  <2>3. CalAgree
    BY <2>1 DEF Cal!AnswerInv, CalAgree
  <2>4. /\ proposals' = ps /\ pgProp' = pgProp
        /\ pgProp => stored' = ps
        /\ ~pgProp => stored' = stored
    BY <1>2, <2>3, CalPutKept DEF CalAgree
  <2>5. ASSUME NEW p \in Cal!Props PROVE CalUnused(p)'
    BY <2>2, <2>3, <2>4 DEF CalUnused, CalAgree
  <2>6. CalAgree'
    BY <2>3, <2>4 DEF CalAgree
  <2>7. QED
    BY <2>5, <2>6 DEF Cal!AnswerInv, CalUnused, CalAgree
<1>3. QED
  BY <1>1, <1>2

LEMMA CalMoveAnswer ==
    ASSUME Cal!TypeOK, NEW p \in Cal!Props, NEW status \in Cal!Statuses, NEW faults,
           Cal!Move(p, status, faults), Cal!AnswerInv, up, uses' = uses, up' = up,
           \A q \in Cal!Props : applying'[q] = "save" => applying[q] = "save" \/ uses[q] = 0,
           status \in Cal!Unapproved => proposals[p].status \in Cal!Unapproved,
           proposals[p].status # "NONE"
    PROVE  Cal!AnswerInv'
<1> DEFINE ps == [proposals EXCEPT ![p].status = status]
<1>1. ps \in [Cal!Props -> Cal!Proposals]
  BY CalSetStatus
<1>2. Cal!Put(ps, faults)
  BY DEF Cal!Move
<1>3. ps[p].status = status /\ \A q \in Cal!Props \ {p} : ps[q] = proposals[q]
  BY CalSetStatus
<1>4. proposals[p] # Cal!NoProposal
  BY DEF Cal!NoProposal
<1> HIDE DEF ps
<1>5. \A q \in Cal!Props : ps[q].status \in Cal!Unapproved =>
                uses[q] = 0 \/ proposals[q].status \in Cal!Unapproved
  BY <1>3
<1>6. \A q \in Cal!Props : ps[q] # Cal!NoProposal =>
                proposals[q] # Cal!NoProposal \/ stored[q] = Cal!NoProposal
  BY <1>3, <1>4
<1>7. QED
  BY <1>1, <1>2, <1>5, <1>6, CalPutAnswer

LEMMA CalAnswerStep ==
    ASSUME Cal!TypeOK, Cal!ApplyInv, Cal!DraftInv, Cal!AnswerInv, [Cal!Next]_Cal!vars
    PROVE  Cal!AnswerInv'
<1>1. CASE Cal!Boot
  <2>1. "lost write" \in happened => "lost write" \in happened'
    BY <1>1 DEF Cal!Boot, Cal!Lasting
  <2>2. CASE "lost write" \in happened'
    BY <2>2 DEF Cal!AnswerInv
  <2>3. CASE "lost write" \notin happened'
    <3>1. \A p \in Cal!Props : CalUnused(p)
      BY <2>1, <2>3 DEF Cal!AnswerInv, CalUnused
    <3>2. /\ stored' = stored /\ uses' = uses /\ applying' = applying /\ pgProp' \in BOOLEAN
          /\ proposals' = IF pgProp' THEN stored ELSE [p \in Cal!Props |-> Cal!NoProposal]
      BY <1>1 DEF Cal!Boot
    <3>3. Cal!NoProposal.status \notin Cal!Unapproved
      BY DEF Cal!NoProposal, Cal!Unapproved
    <3>4. ASSUME NEW p \in Cal!Props PROVE CalUnused(p)'
      BY <3>1, <3>2, <3>3 DEF CalUnused
    <3>5. CalAgree'
      BY <3>2 DEF CalAgree
    <3>6. QED
      BY <3>4, <3>5 DEF Cal!AnswerInv, CalUnused, CalAgree
  <2>4. QED
    BY <2>2, <2>3
<1>2. CASE Cal!Crash
  <2>1. Cal!NoProposal.status \notin Cal!Unapproved
    BY DEF Cal!NoProposal, Cal!Unapproved
  <2>2. QED
    BY <1>2, <2>1 DEF Cal!Crash, Cal!AnswerInv
<1>3. ASSUME NEW p \in Cal!Props, NEW old \in {{}, Cal!Superseded(drafting[p])},
             Cal!Propose(p, old)
      PROVE  Cal!AnswerInv'
  <2> DEFINE ps == [q \in Cal!Props |->
                       IF q = p THEN [status |-> "PENDING", source |-> drafting[p]]
                       ELSE IF q \in old THEN [proposals[q] EXCEPT !.status = "EXPIRED"]
                       ELSE proposals[q]]
  <2>1. up /\ uses[p] = 0 /\ stored[p] = Cal!NoProposal
    BY <1>3 DEF Cal!Propose, Cal!DraftInv
  <2>2. Cal!Put(ps, {}) /\ uses' = uses /\ up' = up /\ applying' = applying
    BY <1>3 DEF Cal!Propose
  <2>3. ps \in [Cal!Props -> Cal!Proposals]
    <3>1. proposals' = ps
      BY <2>2 DEF Cal!Put
    <3>2. QED
      BY <1>3, <3>1, CalProposeType DEF Cal!TypeOK
  <2>4. \A q \in Cal!Props \ {p} : ps[q] = proposals[q] \/ proposals[q].status = "PENDING"
    BY CalSuperseded
  <2>5. "PENDING" \in Cal!Unapproved /\ Cal!NoProposal.status # "PENDING"
    BY DEF Cal!Unapproved, Cal!NoProposal
  <2> HIDE DEF ps
  <2>6. \A q \in Cal!Props : ps[q].status \in Cal!Unapproved =>
                uses[q] = 0 \/ proposals[q].status \in Cal!Unapproved
    BY <2>1, <2>4, <2>5
  <2>7. \A q \in Cal!Props : ps[q] # Cal!NoProposal =>
                proposals[q] # Cal!NoProposal \/ stored[q] = Cal!NoProposal
    BY <2>1, <2>4, <2>5
  <2>8. QED
    BY <2>1, <2>2, <2>3, <2>6, <2>7, CalPutAnswer
<1>4. CASE CalPolicyStep \/ UNCHANGED Cal!vars
  <2>1. /\ UNCHANGED <<up, proposals, stored, pgProp, applying, uses>>
        /\ happened \subseteq happened'
    BY <1>4, CalPolicyOnly
  <2>2. QED
    BY <2>1 DEF Cal!AnswerInv
<1>5. ASSUME NEW p \in Cal!Props, Cal!Reject(p) PROVE Cal!AnswerInv'
  <2>1. "REJECTED" \in Cal!Statuses /\ "PENDING" \in Cal!Unapproved
    BY DEF Cal!Statuses, Cal!Unapproved
  <2>2. QED
    BY <1>5, <2>1, CalMoveAnswer DEF Cal!Reject
<1>6. ASSUME NEW p \in Cal!Props, Cal!Approve(p) PROVE Cal!AnswerInv'
  <2>1. "APPROVED" \in Cal!Statuses /\ "APPROVED" \notin Cal!Unapproved
        /\ "PENDING" \in Cal!Unapproved
    BY DEF Cal!Statuses, Cal!Unapproved
  <2>2. CASE "lost write" \in happened
    BY <1>6, <2>2, CalMoved DEF Cal!Approve, Cal!AnswerInv
  <2>3. CASE "lost write" \notin happened
    <3>1. uses[p] = 0
      BY <1>6, <2>1, <2>3 DEF Cal!Approve, Cal!AnswerInv
    <3>2. \A q \in Cal!Props : applying'[q] = "save" => applying[q] = "save" \/ uses[q] = 0
      BY <1>6, <3>1 DEF Cal!Approve, Cal!TypeOK
    <3>3. QED
      BY <1>6, <2>1, <3>2, CalMoveAnswer DEF Cal!Approve
  <2>4. QED
    BY <2>2, <2>3
<1>7. ASSUME NEW p \in Cal!Props, Cal!Rollback(p) PROVE Cal!AnswerInv'
  <2>1. "ROLLED_BACK" \in Cal!Statuses /\ "ROLLED_BACK" \notin Cal!Unapproved
    BY DEF Cal!Statuses, Cal!Unapproved
  <2>2. up /\ uses' = uses /\ up' = up /\ applying' = applying
    BY <1>7 DEF Cal!Rollback
  <2>3. CASE proposals[p].status = "APPLIED"
    BY <1>7, <2>1, <2>2, <2>3, CalMoveAnswer DEF Cal!Rollback
  <2>4. CASE proposals[p].status # "APPLIED"
    BY <1>7, <2>2, <2>4 DEF Cal!Rollback, Cal!proposalVars, Cal!AnswerInv
  <2>5. QED
    BY <2>3, <2>4
<1>8. ASSUME NEW p \in Cal!Props, Cal!ApplyMark(p) PROVE Cal!AnswerInv'
  <2>1. "APPLIED" \in Cal!Statuses /\ "APPLIED" \notin Cal!Unapproved
    BY DEF Cal!Statuses, Cal!Unapproved
  <2>2. up /\ \A q \in Cal!Props : applying'[q] = "save" => applying[q] = "save" \/ uses[q] = 0
    BY <1>8 DEF Cal!ApplyMark, Cal!ApplyInv, Cal!TypeOK
  <2>3. QED
    BY <1>8, <2>1, <2>2, CalMoveAnswer DEF Cal!ApplyMark
<1>9. ASSUME NEW p \in Cal!Props, Cal!ApplySave(p) \/ Cal!ApplyFails(p) PROVE Cal!AnswerInv'
  <2>1. /\ UNCHANGED <<up, proposals, stored, pgProp>>
        /\ up /\ proposals[p].status = "APPROVED"
        /\ "lost write" \in happened => "lost write" \in happened'
    BY <1>9 DEF Cal!ApplySave, Cal!ApplyFails, Cal!proposalVars, Cal!ApplyInv
  <2>2. /\ applying'[p] # "save" /\ \A q \in Cal!Props \ {p} : applying'[q] = applying[q]
        /\ \A q \in Cal!Props \ {p} : uses'[q] = uses[q]
        /\ uses'[p] = uses[p] \/ (applying[p] = "save" /\ uses'[p] = uses[p] + 1)
    <3>1. CASE Cal!ApplySave(p)
      BY <3>1 DEF Cal!ApplySave, Cal!TypeOK
    <3>2. CASE Cal!ApplyFails(p)
      BY <3>2 DEF Cal!ApplyFails, Cal!TypeOK
    <3>3. QED
      BY <1>9, <3>1, <3>2
  <2>3. CASE "lost write" \in happened
    BY <2>1, <2>3 DEF Cal!AnswerInv
  <2>4. CASE "lost write" \notin happened
    <3>1. (\A q \in Cal!Props : CalUnused(q)) /\ CalAgree
      BY <2>1, <2>4 DEF Cal!AnswerInv, CalUnused, CalAgree
    <3>2. "APPROVED" \notin Cal!Unapproved /\ "NONE" \notin Cal!Unapproved
          /\ Cal!NoProposal.status = "NONE"
      BY DEF Cal!Unapproved, Cal!NoProposal
    <3>3. stored[p].status \notin Cal!Unapproved
      BY <2>1, <3>1, <3>2 DEF CalAgree, Cal!TypeOK
    <3>4. CalUnused(p)'
      <4>1. uses[p] \in Nat
        BY DEF Cal!TypeOK
      <4>2. uses[p] <= 1 /\ (applying[p] = "save" => uses[p] = 0)
        BY <3>1 DEF CalUnused
      <4>3. uses'[p] <= 1
        BY <2>2, <4>1, <4>2
      <4>4. proposals'[p].status \notin Cal!Unapproved /\ stored'[p].status \notin Cal!Unapproved
        BY <2>1, <3>2, <3>3
      <4>5. QED
        BY <2>2, <4>3, <4>4 DEF CalUnused
    <3>5. \A q \in Cal!Props \ {p} : CalUnused(q)'
      BY <2>1, <2>2, <3>1 DEF CalUnused
    <3>6. CalAgree'
      BY <2>1, <3>1 DEF CalAgree
    <3>7. QED
      BY <3>4, <3>5, <3>6 DEF Cal!AnswerInv, CalUnused, CalAgree
  <2>5. QED
    BY <2>3, <2>4
<1>10. ASSUME NEW p \in Cal!Props, Cal!ApplyActivate(p) \/ Cal!ApplyCommit(p) PROVE Cal!AnswerInv'
  <2>1. /\ UNCHANGED <<up, proposals, stored, pgProp, uses, happened>>
        /\ \A q \in Cal!Props : applying'[q] = "save" => applying[q] = "save"
    BY <1>10 DEF Cal!ApplyActivate, Cal!ApplyCommit, Cal!proposalVars, Cal!TypeOK
  <2>2. QED
    BY <2>1 DEF Cal!AnswerInv
<1>11. QED
  BY <1>1, <1>2, <1>3, <1>4, <1>5, <1>6, <1>7, <1>8, <1>9, <1>10 DEF Cal!Next, CalPolicyStep

-----------------------------------------------------------------------------
(* Calibration: the movement budget.                                       *)

\* One more element at most is counted at most once more.
LEMMA CalOneMore ==
    ASSUME NEW A, IsFiniteSet(A), NEW x, NEW B \in SUBSET (A \union {x})
    PROVE  /\ IsFiniteSet(B) /\ Cardinality(A) \in Nat /\ Cardinality(B) \in Nat
           /\ Cardinality(B) <= Cardinality(A) + 1
<1>1. /\ IsFiniteSet(A \union {x})
      /\ Cardinality(A \union {x}) = Cardinality(A) \/ Cardinality(A \union {x}) = Cardinality(A) + 1
  BY FS_AddElement
<1>2. IsFiniteSet(B) /\ Cardinality(B) <= Cardinality(A \union {x})
  BY <1>1, FS_Subset
<1>3. QED
  BY <1>1, <1>2, FS_CardinalityType

LEMMA CalDriftMoves ==
    ASSUME Cal!TypeOK
    PROVE  /\ Cal!Drift \in Nat
           /\ (\A q \in Cal!Props : uses[q] = 0) => Cal!Drift = 0
           /\ uses' = uses => Cal!Drift' = Cal!Drift
           /\ \A p \in Cal!Props :
                 (\A q \in Cal!Props \ {p} : uses'[q] = uses[q]) =>
                     Cal!Drift' \in Nat /\ Cal!Drift' <= Cal!Drift + 1
<1> DEFINE A == {q \in Cal!Props : uses[q] > 0}
           B == {q \in Cal!Props : uses'[q] > 0}
<1>1. Cal!Drift = Cardinality(A) /\ Cal!Drift' = Cardinality(B)
  BY CalCardinality DEF Cal!Drift
<1>2. IsFiniteSet(A) /\ Cardinality(A) \in Nat
  BY CalSets, FS_Subset, FS_CardinalityType
<1>3. (\A q \in Cal!Props : uses[q] = 0) => A = {}
  OBVIOUS
<1>4. uses' = uses => B = A
  OBVIOUS
<1>5. ASSUME NEW p \in Cal!Props, \A q \in Cal!Props \ {p} : uses'[q] = uses[q]
      PROVE  Cardinality(B) \in Nat /\ Cardinality(B) <= Cardinality(A) + 1
  <2>1. B \in SUBSET (A \union {p})
    BY <1>5
  <2> HIDE DEF A, B
  <2>2. QED
    BY <1>2, <2>1, CalOneMore
<1> HIDE DEF A, B
<1>6. QED
  BY <1>1, <1>2, <1>3, <1>4, <1>5, FS_EmptySet

\* Steps that put nothing in flight and let no apply save or commit.
LEMMA CalSerialShrinks ==
    ASSUME Cal!TypeOK, Cal!Serial, UNCHANGED <<moved, uses>>,
           Cal!InFlight' \subseteq Cal!InFlight,
           Cal!Moving' = Cal!Moving,
           Cal!Unrecorded' = Cal!Unrecorded
    PROVE  Cal!Serial'
<1>1. Cal!Drift' = Cal!Drift
  BY CalDriftMoves
<1>2. \A p \in Cal!Moving' : Cal!InFlight' = {p}
  BY DEF Cal!Serial, Cal!InFlight
<1>3. Cal!InFlight' # {} => moved' + 1 <= Budget
  BY DEF Cal!Serial
<1>4. QED
  BY <1>1, <1>2, <1>3 DEF Cal!Serial

LEMMA CalSerialStep ==
    ASSUME Cal!TypeOK, Cal!ApplyInv, Cal!DraftInv, Cal!Serial, [Cal!Next]_Cal!vars, up, up'
    PROVE  Cal!Serial' \/ Cal!FailedApply' \/ "overlap" \in happened'
<1>0. moved \in Nat /\ Budget \in Nat /\ Cal!Drift \in Nat
  BY CalDriftMoves, BoundAssumption DEF Cal!TypeOK
<1>1. ASSUME NEW v \in Cal!Versions, Cal!Draft(v), "overlap" \notin happened'
      PROVE  Cal!Serial'
  <2>1. PICK p \in Cal!Fresh : Cal!Draft(v)!(p)
    BY <1>1 DEF Cal!Draft
  <2>2. moved + 1 <= Budget /\ UNCHANGED <<proposals, applying, moved, uses>> /\ Cal!Moving = {}
    BY <1>1, <2>1 DEF Cal!proposalVars, Cal!Allowed, Cal!If
  <2>3. Cal!Moving' = {} /\ Cal!Unrecorded = {} /\ Cal!Unrecorded' = {}
    BY <2>2 DEF Cal!Moving, Cal!Unrecorded
  <2>4. Cal!Drift' = Cal!Drift
    BY <2>2, CalDriftMoves
  <2>5. QED
    BY <1>0, <2>2, <2>3, <2>4 DEF Cal!Serial
<1>2. ASSUME NEW p \in Cal!Props, NEW old \in {{}, Cal!Superseded(drafting[p])},
             Cal!Propose(p, old)
      PROVE  Cal!Serial'
  <2>1. UNCHANGED <<applying, moved, uses>> /\ CalProposal(p, old) /\ drafting[p] # Cal!NoVersion
    BY <1>2, CalProposed DEF Cal!Propose
  <2>2. Cal!Moving' = Cal!Moving /\ Cal!Unrecorded' = Cal!Unrecorded
    BY <2>1 DEF Cal!Moving, Cal!Unrecorded
  <2>3. ASSUME NEW q \in Cal!InFlight' PROVE q \in Cal!InFlight
    <3>1. CASE q = p
      BY <2>1, <3>1 DEF Cal!InFlight
    <3>2. CASE q # p
      <4>1. q \in Cal!Props /\ drafting'[q] = drafting[q]
        BY <2>1, <2>3, <3>2 DEF Cal!InFlight, Cal!Moving, CalProposal
      <4>2. proposals'[q].status = "PENDING" => proposals[q].status = "PENDING"
        BY <2>1, <3>2, <4>1 DEF CalProposal
      <4>3. QED
        BY <2>2, <2>3, <4>1, <4>2 DEF Cal!InFlight
    <3>3. QED
      BY <3>1, <3>2
  <2>4. QED
    BY <2>1, <2>2, <2>3, CalSerialShrinks
<1>3. CASE \/ \E v \in Cal!Versions : Cal!ActivatePolicy(v)
           \/ \E e \in Evaluations : Cal!Resolve(e) \/ Cal!SavePolicy(e)
           \/ UNCHANGED Cal!vars
  <2>1. UNCHANGED <<proposals, drafting, applying, moved, uses>>
    BY <1>3 DEF Cal!ActivatePolicy, Cal!Resolve, Cal!SavePolicy, Cal!proposalVars, Cal!vars
  <2>2. Cal!InFlight' = Cal!InFlight /\ Cal!Moving' = Cal!Moving /\ Cal!Unrecorded' = Cal!Unrecorded
    BY <2>1 DEF Cal!InFlight, Cal!Moving, Cal!Unrecorded
  <2>3. QED
    BY <2>1, <2>2, CalSerialShrinks
<1>4. ASSUME NEW p \in Cal!Props, Cal!Reject(p) \/ Cal!Rollback(p) \/ Cal!Abandon(p)
      PROVE  Cal!Serial'
  <2>1. UNCHANGED <<applying, moved, uses>>
    BY <1>4 DEF Cal!Reject, Cal!Rollback, Cal!Abandon
  <2>2. Cal!Moving' = Cal!Moving /\ Cal!Unrecorded' = Cal!Unrecorded
    BY <2>1 DEF Cal!Moving, Cal!Unrecorded
  <2>3. \A q \in Cal!Props : drafting'[q] # Cal!NoVersion => drafting[q] # Cal!NoVersion
    BY <1>4 DEF Cal!Reject, Cal!Rollback, Cal!Abandon, Cal!TypeOK
  <2>4. \A q \in Cal!Props : proposals'[q].status = "PENDING" => proposals[q].status = "PENDING"
    <3>1. CASE Cal!Reject(p)
      BY <3>1, CalMoved DEF Cal!Reject
    <3>2. CASE Cal!Rollback(p)
      BY <3>2, CalMoved DEF Cal!Rollback, Cal!proposalVars
    <3>3. CASE Cal!Abandon(p)
      BY <3>3 DEF Cal!Abandon, Cal!proposalVars
    <3>4. QED
      BY <1>4, <3>1, <3>2, <3>3
  <2>5. Cal!InFlight' \subseteq Cal!InFlight
    BY <2>2, <2>3, <2>4 DEF Cal!InFlight
  <2>6. QED
    BY <2>1, <2>2, <2>5, CalSerialShrinks
<1>5. ASSUME NEW p \in Cal!Props, Cal!Approve(p), "overlap" \notin happened' PROVE Cal!Serial'
  <2>1. /\ UNCHANGED <<moved, uses, drafting>> /\ applying[p] = "idle" /\ applying'[p] = "save"
        /\ \A q \in Cal!Props \ {p} : applying'[q] = applying[q]
    BY <1>5 DEF Cal!Approve, Cal!ApplyInv, Cal!TypeOK
  <2>2. p \in Cal!InFlight /\ Cal!InFlight \ {p} = {}
    BY <1>5, CalMoved DEF Cal!Approve, Cal!InFlight, Cal!If
  <2>3. \A q \in Cal!Props \ {p} : proposals'[q] = proposals[q]
    BY <1>5, CalMoved DEF Cal!Approve
  <2>4. Cal!InFlight' = {p} /\ Cal!Moving' = {p}
    BY <2>1, <2>2, <2>3 DEF Cal!InFlight, Cal!Moving
  <2>5. Cal!Unrecorded' = Cal!Unrecorded
    BY <2>1 DEF Cal!Unrecorded
  <2>6. Cal!Drift' = Cal!Drift
    BY <2>1, CalDriftMoves
  <2>7. QED
    BY <1>0, <2>1, <2>2, <2>4, <2>5, <2>6 DEF Cal!Serial
<1>6. ASSUME NEW p \in Cal!Props, Cal!ApplySave(p) PROVE Cal!Serial'
  <2>1. /\ UNCHANGED <<proposals, drafting, moved>> /\ applying[p] = "save"
        /\ applying'[p] = "activate"
        /\ \A q \in Cal!Props \ {p} : applying'[q] = applying[q] /\ uses'[q] = uses[q]
    BY <1>6 DEF Cal!ApplySave, Cal!TypeOK, Cal!proposalVars
  <2>2. p \in Cal!Moving /\ Cal!Moving' = Cal!Moving /\ Cal!InFlight' = Cal!InFlight
    BY <2>1 DEF Cal!InFlight, Cal!Moving
  <2>3. Cal!InFlight = {p}
    BY <2>2 DEF Cal!Serial
  <2>4. Cal!Unrecorded = {} /\ p \in Cal!Unrecorded'
    BY <2>1, <2>3 DEF Cal!Unrecorded, Cal!InFlight, Cal!Moving
  <2>5. Cal!Drift' \in Nat /\ Cal!Drift' <= Cal!Drift + 1
    BY <2>1, CalDriftMoves
  <2>6. Cal!Drift <= moved /\ moved + 1 <= Budget /\ moved <= Budget
    BY <1>0, <2>3, <2>4 DEF Cal!Serial
  <2>7. \A q \in Cal!Moving' : Cal!InFlight' = {q}
    BY <2>2 DEF Cal!Serial
  <2>8. QED
    BY <1>0, <2>1, <2>4, <2>5, <2>6, <2>7 DEF Cal!Serial
<1>7. ASSUME NEW p \in Cal!Props, Cal!ApplyActivate(p) PROVE Cal!Serial'
  <2>1. /\ UNCHANGED <<proposals, drafting, moved, uses>> /\ applying[p] = "activate"
        /\ applying'[p] = "commit"
        /\ \A q \in Cal!Props \ {p} : applying'[q] = applying[q]
    BY <1>7 DEF Cal!ApplyActivate, Cal!TypeOK, Cal!proposalVars
  <2>2. Cal!InFlight' = Cal!InFlight /\ Cal!Moving' = Cal!Moving /\ Cal!Unrecorded' = Cal!Unrecorded
    BY <2>1 DEF Cal!InFlight, Cal!Moving, Cal!Unrecorded
  <2>3. QED
    BY <2>1, <2>2, CalSerialShrinks
<1>8. ASSUME NEW p \in Cal!Props, Cal!ApplyCommit(p) PROVE Cal!Serial'
  <2>1. /\ UNCHANGED <<proposals, drafting, uses>> /\ applying[p] = "commit"
        /\ applying'[p] = "mark" /\ moved' = moved + 1
        /\ \A q \in Cal!Props \ {p} : applying'[q] = applying[q]
    BY <1>8 DEF Cal!ApplyCommit, Cal!TypeOK, Cal!proposalVars
  <2>2. p \in Cal!Moving
    BY <2>1 DEF Cal!Moving
  <2>3. Cal!InFlight = {p} /\ moved + 1 <= Budget
    BY <2>2 DEF Cal!Serial
  <2>4. Cal!InFlight' = {}
    <3>1. proposals[p].status = "APPROVED"
      BY <2>1 DEF Cal!ApplyInv
    <3>2. drafting[p] = Cal!NoVersion
      BY <3>1 DEF Cal!DraftInv, Cal!NoProposal
    <3>3. QED
      BY <2>1, <2>3, <3>1, <3>2 DEF Cal!InFlight, Cal!Moving
  <2>5. Cal!Drift' = Cal!Drift /\ Cal!Drift <= moved + 1
    BY <1>0, <2>1, CalDriftMoves DEF Cal!Serial
  <2>6. QED
    BY <1>0, <2>1, <2>3, <2>4, <2>5 DEF Cal!Serial, Cal!InFlight
<1>9. ASSUME NEW p \in Cal!Props, Cal!ApplyMark(p) PROVE Cal!Serial'
  <2>1. /\ UNCHANGED <<moved, uses, drafting>> /\ applying[p] = "mark" /\ applying'[p] = "idle"
        /\ \A q \in Cal!Props \ {p} : applying'[q] = applying[q]
    BY <1>9 DEF Cal!ApplyMark, Cal!TypeOK
  <2>2. Cal!Moving' = Cal!Moving /\ Cal!Unrecorded' = Cal!Unrecorded
    BY <2>1 DEF Cal!Moving, Cal!Unrecorded
  <2>3. \A q \in Cal!Props : proposals'[q].status = "PENDING" => proposals[q].status = "PENDING"
    BY <1>9, CalMoved DEF Cal!ApplyMark
  <2>4. Cal!InFlight' \subseteq Cal!InFlight
    BY <2>1, <2>2, <2>3 DEF Cal!InFlight
  <2>5. QED
    BY <2>1, <2>2, <2>4, CalSerialShrinks
<1>10. ASSUME NEW p \in Cal!Props, Cal!ApplyFails(p) PROVE Cal!FailedApply'
  BY <1>10 DEF Cal!ApplyFails, Cal!proposalVars, Cal!ApplyInv, Cal!FailedApply, Cal!TypeOK
<1>11. QED
  BY <1>1, <1>2, <1>3, <1>4, <1>5, <1>6, <1>7, <1>8, <1>9, <1>10
     DEF Cal!Next, Cal!Boot, Cal!Crash

LEMMA CalBudgetStep ==
    ASSUME Cal!TypeOK, Cal!ApplyInv, Cal!DraftInv, Cal!BudgetInv, [Cal!Next]_Cal!vars
    PROVE  Cal!BudgetInv'
<1>0. boots \in Nat
  BY BoundAssumption DEF Cal!TypeOK
<1>1. CASE Cal!Boot
  <2>1. /\ ~up /\ boots' = boots + 1
        /\ UNCHANGED <<stored, drafting, applying, moved, uses>> /\ pgProp' \in BOOLEAN
        /\ proposals' = IF pgProp' THEN stored ELSE [p \in Cal!Props |-> Cal!NoProposal]
    BY <1>1 DEF Cal!Boot
  <2>2. CASE boots > 0
    BY <1>0, <2>1, <2>2 DEF Cal!BudgetInv
  <2>3. CASE boots = 0
    <3>1. moved = 0 /\ \A p \in Cal!Props : uses[p] = 0 /\ stored[p] = Cal!NoProposal
      BY <2>3 DEF Cal!BudgetInv
    <3>2. \A p \in Cal!Props : /\ proposals'[p].status # "PENDING"
                               /\ applying'[p] = "idle" /\ drafting'[p] = Cal!NoVersion
      BY <2>1, <3>1 DEF Cal!NoProposal, Cal!ApplyInv, Cal!DraftInv
    <3>3. Cal!InFlight' = {} /\ Cal!Moving' = {} /\ Cal!Unrecorded' = {}
      BY <3>2 DEF Cal!InFlight, Cal!Moving, Cal!Unrecorded
    <3>4. Cal!Drift' = 0
      BY <2>1, <3>1, CalDriftMoves
    <3>5. Cal!Serial'
      BY <2>1, <3>1, <3>3, <3>4, BoundAssumption DEF Cal!Serial
    <3>6. QED
      BY <2>1, <2>3, <3>5 DEF Cal!BudgetInv
  <2>4. QED
    BY <1>0, <2>2, <2>3
<1>2. CASE ~up /\ ~Cal!Boot
  BY <1>2, CalDown DEF Cal!BudgetInv
<1>3. CASE up /\ up'
  <2>1. boots' = boots /\ boots # 0
    BY <1>3, CalExcuses DEF Cal!BudgetInv
  <2>2. CASE Cal!Serial
    BY <1>3, <2>1, <2>2, CalSerialStep DEF Cal!BudgetInv
  <2>3. CASE Cal!FailedApply \/ "overlap" \in happened \/ boots > 1
    BY <1>3, <2>1, <2>3, CalExcuses DEF Cal!BudgetInv
  <2>4. QED
    BY <1>3, <2>2, <2>3 DEF Cal!BudgetInv
<1>4. CASE up /\ ~up'
  <2>1. Cal!Crash
    BY <1>4 DEF Cal!Next, Cal!vars, Cal!Boot, Cal!Draft, Cal!Abandon, Cal!Propose,
       Cal!ActivatePolicy, Cal!Reject, Cal!Approve, Cal!Rollback, Cal!ApplySave, Cal!ApplyActivate, Cal!ApplyCommit,
       Cal!ApplyMark, Cal!ApplyFails, Cal!Resolve, Cal!SavePolicy
  <2>2. boots' = boots /\ boots # 0
    BY <1>4, <2>1 DEF Cal!Crash, Cal!BudgetInv
  <2>3. QED
    BY <1>4, <2>2 DEF Cal!BudgetInv
<1>5. QED
  BY <1>1, <1>2, <1>3, <1>4

-----------------------------------------------------------------------------
(* Calibration: the theorems.                                              *)

\* The inductive invariants hold at the start.
LEMMA CalInit ==
    ASSUME Cal!Init
    PROVE  /\ Cal!TypeOK /\ Cal!ApplyInv /\ Cal!DraftInv
           /\ Cal!ActiveInv /\ Cal!AnswerInv /\ Cal!BudgetInv
<1>1. Cal!TypeOK
  BY CalTypeInit
<1>2. Cal!ApplyInv /\ Cal!DraftInv /\ Cal!ActiveInv
  BY DEF Cal!Init, Cal!ApplyInv, Cal!DraftInv, Cal!ActiveInv
<1>3. Cal!NoProposal.status \notin Cal!Unapproved
  BY DEF Cal!NoProposal, Cal!Unapproved
<1>4. Cal!AnswerInv
  BY <1>3 DEF Cal!Init, Cal!AnswerInv
<1>5. Cal!BudgetInv
  BY DEF Cal!Init, Cal!BudgetInv
<1>6. QED
  BY <1>1, <1>2, <1>4, <1>5

\* The steps of the calibration loop keep the types and the link between an
\* apply or a draft and its proposal.
LEMMA CalTypes == Cal!Spec => [](Cal!TypeOK /\ Cal!ApplyInv /\ Cal!DraftInv)
<1>1. Cal!Init => Cal!TypeOK /\ Cal!ApplyInv /\ Cal!DraftInv
  BY CalInit
<1>2. Cal!TypeOK /\ Cal!ApplyInv /\ Cal!DraftInv /\ [Cal!Next]_Cal!vars
          => Cal!TypeOK' /\ Cal!ApplyInv' /\ Cal!DraftInv'
  BY CalTypeStep, CalApplyStep, CalDraftStep
<1>3. QED
  BY <1>1, <1>2, PTL DEF Cal!Spec

\* The policy in force is the one last put in force on purpose, for any number
\* of proposals, evaluations and starts, up to the exceptions ActiveHolds names:
\* the saves and activations of apply_proposal, rollback_proposal, the operator
\* and the evaluations, in any order.
THEOREM CalibratedPolicyHolds == Cal!Spec => []ActiveHolds
<1>1. Cal!Init => Cal!ActiveInv
  BY CalInit
<1>2. Cal!TypeOK /\ Cal!ApplyInv /\ Cal!DraftInv /\ Cal!ActiveInv /\ [Cal!Next]_Cal!vars
          => Cal!ActiveInv'
  BY CalActiveStep
<1>3. Cal!ActiveInv => ActiveHolds
  <2>1. actives = <<>> => Active = Cal!NoVersion
    BY DEF Active, NoVersion, Cal!NoVersion
  <2>2. actives = <<intended>> => Active = intended
    BY DEF Active, Last
  <2>3. QED
    BY <2>1, <2>2 DEF Cal!ActiveInv, Cal!FailedApply, Cal!Props, ActiveHolds, FailedApply, Props
<1>4. QED
  BY <1>1, <1>2, <1>3, CalTypes, PTL DEF Cal!Spec

\* A proposal's policy is saved at most once, and never if the proposal was
\* rejected or expired, across any number of restarts, unless a write of
\* CalibrationProposalStore was lost.
THEOREM ProposalsAnsweredOnce == Cal!Spec => []AnsweredOnce
<1>1. Cal!Init => Cal!AnswerInv
  BY CalInit
<1>2. Cal!TypeOK /\ Cal!ApplyInv /\ Cal!DraftInv /\ Cal!AnswerInv /\ [Cal!Next]_Cal!vars
          => Cal!AnswerInv'
  BY CalAnswerStep
<1>3. Cal!AnswerInv => AnsweredOnce
  BY DEF Cal!AnswerInv, Cal!Unapproved, Cal!Props, AnsweredOnce, Props
<1>4. QED
  BY <1>1, <1>2, <1>3, CalTypes, PTL DEF Cal!Spec

\* Whatever the budget, the thresholds move by no more than it in the first
\* process of a window as long as no apply raised, no proposal was approved
\* while another was between the guard of its draft and the commit of its
\* movement, and no guard was asked during an apply: what evaluate allowed at
\* the draft is then still allowed when commit records it.
THEOREM SerialBudget == Cal!Spec => []BudgetWhenSerial
<1>1. Cal!Init => Cal!BudgetInv
  BY CalInit
<1>2. Cal!TypeOK /\ Cal!ApplyInv /\ Cal!DraftInv /\ Cal!BudgetInv /\ [Cal!Next]_Cal!vars
          => Cal!BudgetInv'
  BY CalBudgetStep
<1>3. Cal!TypeOK /\ Cal!BudgetInv => BudgetWhenSerial
  <2> SUFFICES ASSUME Cal!TypeOK, Cal!Serial PROVE Cal!Drift <= Budget
    <3>1. Cal!Drift = Drift
      BY CalCardinality DEF Cal!Drift, Cal!Props, Drift, Props
    <3>2. QED
      BY <3>1 DEF Cal!BudgetInv, Cal!FailedApply, Cal!Props, BudgetWhenSerial, FailedApply, Props
  <2>1. moved \in Nat /\ Budget \in Nat /\ Cal!Drift \in Nat
    BY CalDriftMoves, BoundAssumption DEF Cal!TypeOK
  <2>2. \A p \in Cal!Unrecorded : p \in Cal!InFlight
    BY DEF Cal!Unrecorded, Cal!InFlight, Cal!Moving
  <2>3. QED
    BY <2>1, <2>2 DEF Cal!Serial
<1>4. QED
  BY <1>1, <1>2, <1>3, CalTypes, PTL DEF Cal!Spec
=============================================================================
