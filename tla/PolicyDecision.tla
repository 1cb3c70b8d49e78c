--------------------------- MODULE PolicyDecision ---------------------------
(***************************************************************************)
(* The policy decision point: PolicyDecisionPoint.evaluate (engine/pdp.py) *)
(* with the router's R0-R4 ladder, the structural floor, the holds that    *)
(* may only lower a verdict, the conformal gate, the precedent step, which *)
(* alone may raise one, and the action-cadence tracker that all threads    *)
(* share.                                                                  *)
(*                                                                         *)
(* What the recognisers, judges, contracts and monitors report about a     *)
(* request is one record of small values (a report): the fused score is a  *)
(* level between the policy's thresholds, and each comparison the code     *)
(* makes with a threshold is a field or a comparison of levels.  Facts     *)
(* that are sealed without being read back (ATTEMPT, DRIFT, DECISION, the  *)
(* transcript) are left out; the PRECEDENT fact decides and is kept.       *)
(* Reasons, findings and scores that only decorate the result are left     *)
(* out, and so is the eviction from the tracker's memo and windows, whose  *)
(* limits (4096 requests, 1024 entries) lie beyond these instances.        *)
(***************************************************************************)
EXTENDS Integers, Sequences, FiniteSets

CONSTANTS
    Requests,   \* the calls of evaluate
    Ids,        \* the request_ids, which callers choose
    CallIds,    \* [Requests -> the request_ids it may carry]
    Agents,     \* the agent identities that the tracker keys on
    NoAgent,    \* a request without agent identity
    Identities, \* [Requests -> the identities it may carry, or NoAgent]; an
                \* identity is known to the registry and names its tenant
    Targets,    \* [Requests -> the recipient, tools and servers it touches]
    Reports,    \* [Requests -> what the collaborators may say of the request]
    Soft, Hard,         \* cadence budgets, in actions per window
    SoftFan, HardFan,   \* cadence budgets, in distinct targets per window
    Window,     \* window_seconds
    Stamps      \* [Requests -> the stamps it may carry]

Verdicts == {"PERMIT", "ABSTAIN", "FORBID"}

\* Levels of the fused score: half and four fifths of the permit threshold,
\* the threshold itself, the band above it, and the forbid threshold.
HalfPermit == 1
NearPermit == 2
PermitAt == 3
ForbidAt == 5
Scores == 0..ForbidAt

Flags ==
    {"stream_marker", "no_retrieval_context", "deterministic_findings_present",
     "confidence_below_policy_minimum", "low_confidence_semantic_dimension",
     "weak_semantic_evidence", "borderline_fused_score",
     "semantic_dominance_override", "agent_quarantined", "agent_sleeping",
     "agent_pending", "forbid_streak", "cold_start", "no_behavioral_history",
     "contract_soft", "path_warn", "predictive", "cadence", "risk_spine",
     "pq_non_repudiation", "crc_permit_region_exceeded", "precedent_autoresolved"}

\* Every report: the streams' answers, what the request's opt-ins lead to, the
\* conformal gate's answer (outside: the score lies outside the certified
\* region; never, if the gate is not calibrated), the autoresolve switch (the
\* policy's flag, with a decision ledger wired), and what the precedents that
\* pass the eligibility gates say.  listed: the policy's enabled_recognizers
\* let the deterministic gate run action_cadence.
AllReports ==
    [contract : {"none", "soft", "hard"}, path : {"none", "warn", "block"},
     deny : BOOLEAN, blocked : BOOLEAN, finding : BOOLEAN, listed : BOOLEAN,
     score : Scores,
     semantic : Verdicts, dominant : BOOLEAN, lowDimension : BOOLEAN,
     weak : BOOLEAN, doubt : BOOLEAN, risky : BOOLEAN, noContext : BOOLEAN,
     marked : BOOLEAN,
     life : {"ACTIVE", "PENDING", "QUARANTINED", "SLEEPING"},
     capability : BOOLEAN, streak : BOOLEAN, cold : BOOLEAN,
     predicted : BOOLEAN, drift : BOOLEAN, pq : BOOLEAN,
     outside : BOOLEAN, autoresolve : BOOLEAN, history : {"unanimous", "few", "split"}]

ASSUME ReportsAssumption ==
    \A r \in Requests :
        /\ Reports[r] \subseteq AllReports
        /\ \A i \in Reports[r] : i.dominant => i.semantic = "FORBID" /\ ~i.weak
ASSUME CadenceAssumption ==
    /\ Soft \in Nat \ {0} /\ Hard \in Nat /\ Soft <= Hard
    /\ SoftFan \in Nat \ {0} /\ HardFan \in Nat /\ SoftFan <= HardFan
    /\ Window \in Nat \ {0} /\ Stamps \in [Requests -> SUBSET Nat]
    /\ \A r \in Requests : IsFiniteSet(Targets[r])
    /\ Identities \in [Requests -> SUBSET (Agents \union {NoAgent})]
    /\ CallIds \in [Requests -> SUBSET Ids]

VARIABLES
    stamp,      \* [Requests -> requested_at, the caller's or the edge's]
    agent,      \* [Requests -> the identity the request carries]
    id,         \* [Requests -> request_id]
    pc,         \* [Requests -> the stage of the evaluation]
    window,     \* ActionCadenceTracker._windows: [Agents -> Seq(Requests)]
    memo,       \* ActionCadenceTracker._memo: [Ids -> level or "none"]
    result,     \* [Requests -> routed verdict, verdict and flags, and the report]
    sealed,     \* the requests with a sealed PRECEDENT fact
    order       \* history: the requests in the order they were counted

request == <<stamp, agent, id>>
vars == <<request, pc, window, memo, result, sealed, order>>

\* A routing result, with the report it was made from.
Results ==
    [base : Verdicts \union {"none"}, verdict : Verdicts, flags : SUBSET Flags,
     report : AllReports]

NoResult == [base |-> "none", verdict |-> "none", flags |-> {}, report |-> "none"]

\* What the callers send is theirs to choose, the stamp and the request_id too.
Init ==
    /\ stamp \in [Requests -> UNION {Stamps[r] : r \in Requests}]
    /\ agent \in [Requests -> Agents \union {NoAgent}]
    /\ id \in [Requests -> Ids]
    /\ \A r \in Requests :
          stamp[r] \in Stamps[r] /\ agent[r] \in Identities[r] /\ id[r] \in CallIds[r]
    /\ pc = [r \in Requests |-> "received"]
    /\ window = [a \in Agents |-> <<>>]
    /\ memo = [i \in Ids |-> "none"]
    /\ result = [r \in Requests |-> NoResult]
    /\ sealed = {}
    /\ order = <<>>

HasAgent(r) == agent[r] # NoAgent
If(cond, flag) == IF cond THEN {flag} ELSE {}

-----------------------------------------------------------------------------
(* The cadence tracker.                                                    *)

\* CadenceConfig.classify: either budget counts, of actions or of targets.
Classify(actions, targets) ==
    IF actions >= Hard \/ targets >= HardFan THEN "HARD"
    ELSE IF actions >= Soft \/ targets >= SoftFan THEN "SOFT" ELSE "CLEAR"

Entries(win) == {win[k] : k \in DOMAIN win}
Fanout(S) == Cardinality(UNION {Targets[q] : q \in S})

\* Mutant: an entry that is a whole window old is kept.
PrunedLate(win, t) ==
    LET keep == {k \in DOMAIN win : stamp[win[k]] >= t - Window}
        first == IF keep = {} THEN Len(win) + 1 ELSE CHOOSE k \in keep : \A j \in keep : k <= j
    IN SubSeq(win, first, Len(win))

\* What the prune loop leaves for a request stamped t: it takes entries from
\* the front and stops at the first that is inside the window, whatever is
\* behind it.
Pruned(win, t) ==
    LET keep == {k \in DOMAIN win : stamp[win[k]] > t - Window}
        first == IF keep = {} THEN Len(win) + 1 ELSE CHOOSE k \in keep : \A j \in keep : k <= j
    IN SubSeq(win, first, Len(win))

\* The level of a request is what is memoised under its request_id.  A request
\* without identity is not tracked.
Level(r) == IF HasAgent(r) THEN memo[id[r]] ELSE "CLEAR"

\* The first assess of a request: by the recogniser, or by the floor if the
\* policy leaves the recogniser out.  It counts the request in the window
\* anchored at its stamp, unless its request_id is in the memo already.
Observe(r) ==
    /\ pc[r] = "received"
    /\ pc' = [pc EXCEPT ![r] = "observed"]
    /\ IF HasAgent(r) /\ memo[id[r]] = "none"
       THEN LET win == Append(Pruned(window[agent[r]], stamp[r]), r) IN
            /\ window' = [window EXCEPT ![agent[r]] = win]
            /\ memo' = [memo EXCEPT ![id[r]] = Classify(Len(win), Fanout(Entries(win)))]
            /\ order' = Append(order, r)
       ELSE UNCHANGED <<window, memo, order>>
    /\ UNCHANGED <<request, result, sealed>>

-----------------------------------------------------------------------------
(* The router.                                                             *)

\* _semantic_dominance_override_fired.
Override(i) == ~i.blocked /\ i.dominant

\* The lifecycle states that send everything to a person.
Parked(r, i) == HasAgent(r) /\ i.life \in {"QUARANTINED", "SLEEPING"}

\* R0 to R2.
Forbids(r, i) ==
    \/ i.blocked
    \/ /\ ~Parked(r, i)
       /\ \/ HasAgent(r) /\ i.capability
          \/ i.dominant
          \/ i.semantic = "FORBID" /\ i.score >= PermitAt
          \/ i.score >= ForbidAt

\* _should_abstain, below the forbid threshold.
ShouldAbstain(r, i) ==
    \/ i.semantic = "ABSTAIN"
    \/ i.doubt
    \/ i.lowDimension
    \/ i.weak /\ i.score >= PermitAt
    \/ i.risky
    \/ i.noContext /\ i.score >= PermitAt
    \/ PermitAt < i.score /\ i.score < ForbidAt
    \/ HasAgent(r) /\ (\/ i.streak
                       \/ i.cold /\ i.score >= NearPermit
                       \/ i.life = "PENDING" /\ i.score >= HalfPermit)

\* R4.
PositivelyClean(i) == i.score <= PermitAt /\ ~i.doubt /\ i.semantic = "PERMIT"

\* _determine_verdict: the ladder.
DetermineVerdict(r, i) ==
    IF Forbids(r, i) THEN "FORBID"
    ELSE IF ~Parked(r, i) /\ ~ShouldAbstain(r, i) /\ PositivelyClean(i) THEN "PERMIT"
    ELSE "ABSTAIN"

\* A finding of the deterministic layer: the cadence beyond its budget is one if
\* its recogniser ran.
Finding(r, i) == i.finding \/ (i.listed /\ Level(r) # "CLEAR")

\* _build_uncertainty_flags.
UncertaintyFlags(r, i) ==
    UNION {If(i.marked, "stream_marker"),
           If(i.noContext, "no_retrieval_context"),
           If(Finding(r, i) /\ ~i.blocked, "deterministic_findings_present"),
           If(i.doubt, "confidence_below_policy_minimum"),
           If(i.lowDimension, "low_confidence_semantic_dimension"),
           If(i.weak, "weak_semantic_evidence"),
           If(PermitAt < i.score /\ i.score < ForbidAt, "borderline_fused_score"),
           If(Override(i), "semantic_dominance_override"),
           If(HasAgent(r) /\ i.life = "QUARANTINED", "agent_quarantined"),
           If(HasAgent(r) /\ i.life = "SLEEPING", "agent_sleeping"),
           If(HasAgent(r) /\ i.life = "PENDING", "agent_pending"),
           If(HasAgent(r) /\ i.streak, "forbid_streak"),
           If(HasAgent(r) /\ i.cold, "cold_start"),
           If(HasAgent(r) /\ i.cold, "no_behavioral_history")}

Route(r, i) ==
    LET v == DetermineVerdict(r, i)
    IN [base |-> v, verdict |-> v, flags |-> UncertaintyFlags(r, i), report |-> i]

-----------------------------------------------------------------------------
(* What comes after the router.                                            *)

\* Mutant: the flag is only added when the verdict is lowered.
MergeOnPermit(res, fires, flag) ==
    IF fires /\ res.verdict = "PERMIT"
    THEN [res EXCEPT !.verdict = "ABSTAIN", !.flags = @ \union {flag}]
    ELSE res

\* _merge_soft_contract_signals and _merge_path_signals: a PERMIT becomes an
\* ABSTAIN, and the flag is added whatever the verdict.
Merge(res, fires, flag) ==
    IF fires
    THEN [res EXCEPT !.verdict = IF @ = "PERMIT" THEN "ABSTAIN" ELSE @,
                     !.flags = @ \union {flag}]
    ELSE res

\* Mutant: the hold lowers the verdict without its marker.
HoldUnmarked(res, fires, flag) ==
    IF fires /\ res.verdict = "PERMIT" THEN [res EXCEPT !.verdict = "ABSTAIN"] ELSE res

\* apply_predictive_holds, apply_cadence_hold, apply_risk_spine and
\* apply_pq_durability_hold, and the conformal gate: they act on a PERMIT and
\* leave any other result as it is, their marker included.
Hold(res, fires, flag) ==
    IF fires /\ res.verdict = "PERMIT"
    THEN [res EXCEPT !.verdict = "ABSTAIN", !.flags = @ \union {flag}]
    ELSE res

\* A hard violation: the short circuit before the router.
HardViolation(r, i) ==
    i.contract = "hard" \/ i.path = "block" \/ i.deny \/ Level(r) = "HARD"

Forbidden(i) == [base |-> "none", verdict |-> "FORBID", flags |-> {}, report |-> i]

Lowered(r, i) ==
    LET contract == Merge(Route(r, i), i.contract = "soft", "contract_soft")
        path     == Merge(contract, i.path = "warn", "path_warn")
        ahead    == Hold(path, i.predicted, "predictive")
        cadence  == Hold(ahead, Level(r) # "CLEAR", "cadence")
        spine    == Hold(cadence, i.drift, "risk_spine")
        durable  == Hold(spine, i.pq, "pq_non_repudiation")
    IN Hold(durable, i.outside, "crc_permit_region_exceeded")

-----------------------------------------------------------------------------
(* The evaluation of one request.                                          *)

\* evaluate from the deterministic gate's answer to the conformal gate.
Judge(r) ==
    /\ pc[r] = "observed"
    /\ pc' = [pc EXCEPT ![r] = "judged"]
    /\ \E i \in Reports[r] :
          result' = [result EXCEPT ![r] =
                        IF HardViolation(r, i) THEN Forbidden(i) ELSE Lowered(r, i)]
    /\ UNCHANGED <<request, window, memo, sealed, order>>

\* DISCRETIONARY_ABSTAIN_FLAGS.
Discretionary ==
    {"borderline_fused_score", "low_confidence_semantic_dimension",
     "weak_semantic_evidence", "confidence_below_policy_minimum", "cold_start",
     "no_behavioral_history"}

\* Mutant: the verdict is not looked at.
EligibleAny(r) ==
    LET res == result[r] IN
    /\ res.report.autoresolve
    /\ res.flags # {} /\ res.flags \subseteq Discretionary
    /\ HasAgent(r)
    /\ res.report.history = "unanimous"

\* The gates of apply_precedent_autoresolve: enough fresh, confident human
\* resolutions of the tenant's own, all of them PERMIT.
Eligible(r) ==
    LET res == result[r] IN
    /\ res.report.autoresolve
    /\ res.verdict = "ABSTAIN"
    /\ res.flags # {} /\ res.flags \subseteq Discretionary
    /\ HasAgent(r)
    /\ res.report.history = "unanimous"

\* ABSTAIN becomes PERMIT once the PRECEDENT fact is sealed.
Resolve(r) ==
    /\ pc[r] = "judged"
    /\ Eligible(r)
    /\ pc' = [pc EXCEPT ![r] = "decided"]
    /\ sealed' = sealed \union {r}
    /\ result' = [result EXCEPT ![r].verdict = "PERMIT",
                                ![r].flags = @ \union {"precedent_autoresolved"}]
    /\ UNCHANGED <<request, window, memo, order>>

\* The verdict stands: no gate opened, or the append failed.
Stand(r) ==
    /\ pc[r] = "judged"
    /\ pc' = [pc EXCEPT ![r] = "decided"]
    /\ UNCHANGED <<request, window, memo, result, sealed, order>>

\* A collaborator raises, before or after the first assess: evaluate has no
\* handler, the caller gets the error and the tracker keeps what it has counted.
Raise(r) ==
    /\ pc[r] \in {"received", "observed"}
    /\ pc' = [pc EXCEPT ![r] = "raised"]
    /\ UNCHANGED <<request, window, memo, result, sealed, order>>

Evaluate(r) ==
    Observe(r) \/ Judge(r) \/ Resolve(r) \/ Stand(r) \/ Raise(r)

Next == \E r \in Requests : Evaluate(r)

Spec == Init /\ [][Next]_vars

\* derive_monotonicity_witness over the recorded end points: no stage moved
\* the verdict toward PERMIT.
Caution == [v \in Verdicts |-> CASE v = "PERMIT" -> 0 [] v = "ABSTAIN" -> 1
                                 [] v = "FORBID" -> 2]
WitnessHolds(r) ==
    LET res == result[r] IN
    res.base # "none" => Caution[res.verdict] >= Caution[res.base]

-----------------------------------------------------------------------------
(* Properties *)

\* The types.
TypeOK ==
    /\ pc \in [Requests -> {"received", "observed", "judged", "decided", "raised"}]
    /\ stamp \in [Requests -> Nat]
    /\ agent \in [Requests -> Agents \union {NoAgent}]
    /\ id \in [Requests -> Ids]
    /\ window \in [Agents -> Seq(Requests)]
    /\ memo \in [Ids -> {"none", "CLEAR", "SOFT", "HARD"}]
    /\ order \in Seq(Requests)
    /\ DOMAIN result = Requests
    /\ \A r \in Requests :
          IF pc[r] \in {"judged", "decided"} THEN result[r] \in Results
          ELSE result[r] = NoResult
    /\ sealed \subseteq Requests

Decided(r) == pc[r] = "decided"
Final(r) == result[r].verdict

\* A deterministic proof forbids, from wherever it comes, and a parked agent
\* is never permitted anything: no stage after it, the precedent step
\* included, undoes either.
\* (pdp.py, hard_violation; router.py, R0: "a proof, not a score".)
FloorStands ==
    \A r \in Requests : Decided(r) =>
        LET i == result[r].report IN
        /\ HardViolation(r, i) \/ i.blocked \/ (HasAgent(r) /\ i.capability /\ ~Parked(r, i))
              => Final(r) = "FORBID"
        /\ Parked(r, i) => Final(r) # "PERMIT"

\* Nothing in the report speaks against the request.
Quiet(r, i) ==
    /\ PositivelyClean(i) /\ ~i.outside
    /\ ~i.lowDimension /\ ~i.risky /\ ~i.predicted /\ ~i.drift /\ ~i.pq
    /\ i.contract = "none" /\ i.path = "none" /\ Level(r) = "CLEAR"
    /\ ~(i.weak /\ i.score = PermitAt) /\ ~(i.noContext /\ i.score = PermitAt)
    /\ HasAgent(r) => ~i.streak

\* Nothing is flagged that is not a matter of judgment.
NoViolation(r, i) ==
    /\ i.contract = "none" /\ i.path = "none" /\ ~i.finding
    /\ Level(r) # "HARD" /\ (i.listed => Level(r) = "CLEAR")
    /\ ~i.dominant /\ i.score < ForbidAt /\ ~(i.semantic = "FORBID" /\ i.score >= PermitAt)
    /\ i.life = "ACTIVE" /\ ~i.streak /\ ~i.marked /\ ~i.noContext

\* A PERMIT is one of two: the router's own, with no signal, hold or
\* certified region against it; or one adopted from the tenant's unanimous
\* precedents and sealed, with no violation, lifecycle or evidence flag
\* against it, and no exceeded cadence if the policy lists its recogniser.  In
\* the second the holds and the conformal gate, which look at a PERMIT only,
\* have not been heard: the router's ABSTAIN came first.
\* (precedent_influence.py: fail-closed allowlist; router.py, R4; gate.py:79.)
PermitExplained ==
    \A r \in Requests : Decided(r) /\ Final(r) = "PERMIT" =>
        LET i == result[r].report IN
        IF r \in sealed THEN i.autoresolve /\ i.history = "unanimous" /\ NoViolation(r, i)
        ELSE Quiet(r, i)

\* The witness that is recorded with the verdict tells exactly the decisions
\* in which precedent moved the verdict toward PERMIT: every stage that could
\* have lowered a PERMIT leaves a mark that keeps the precedent step from
\* raising it back unseen.
\* (verdict_transcript.py, routed_base to routing_result.)
WitnessTells == \A r \in Requests : Decided(r) => (WitnessHolds(r) <=> r \notin sealed)

\* The requests the tracker has counted.
Observed == Entries(order)

\* q was counted no later than p.
Upto(q, p) == \E j, k \in DOMAIN order : order[j] = q /\ order[k] = p /\ j <= k

\* The requests of r's agent that had been counted when r was.
Before(r) == {q \in Observed : agent[q] = agent[r] /\ Upto(q, r)}

\* Those of them that lie within a window of every stamp counted since.
Recent(r) ==
    {q \in Before(r) : \A p \in Before(r) : Upto(q, p) => stamp[q] > stamp[p] - Window}

\* What their number and their targets come to.
RecentLevel(r) == Classify(Cardinality(Recent(r)), Fanout(Recent(r)))

\* Requests are counted in the order of their stamps.
InOrder == \A j, k \in DOMAIN order : j < k => stamp[order[j]] <= stamp[order[k]]

\* No interleaving of the threads and no choice of stamps hides a burst: a
\* request that makes the hard number of actions or of targets, among those
\* within a window of every stamp counted since, is forbidden; one that makes
\* a soft number is not permitted, unless precedent raised it under a policy
\* that does not list the cadence recogniser.  A repeated request_id is not
\* counted again and gets what the first one got.  And as long as requests are
\* counted in the order of their stamps, nothing else raises their level.
\* (cadence.py, assess: counted once, memoised, pruned from the front.)
BurstStopped ==
    \A r \in Observed :
        /\ \A q \in Requests : Decided(q) /\ HasAgent(q) /\ id[q] = id[r] =>
              /\ RecentLevel(r) = "HARD" => Final(q) = "FORBID"
              /\ RecentLevel(r) # "CLEAR" /\ Final(q) = "PERMIT" =>
                    q \in sealed /\ ~result[q].report.listed
        /\ InOrder => memo[id[r]] = RecentLevel(r)

-----------------------------------------------------------------------------
(* What keeps BurstStopped, step by step.                                  *)

\* An identified request has a level once it is assessed.
Assessed ==
    \A r \in Requests : HasAgent(r) /\ pc[r] \in {"observed", "judged", "decided"} =>
        memo[id[r]] # "none"

\* No request_id is counted twice, and what is counted has an identity and a
\* level.
OnceInv ==
    /\ \A j, k \in DOMAIN order : id[order[j]] = id[order[k]] => j = k
    /\ \A q \in Observed : HasAgent(q) /\ memo[id[q]] # "none"

\* A window holds requests of its agent, once each; one that is missing lies a
\* whole window before some later one; and as long as requests are counted in
\* the order of their stamps, the window has that order.
WindowInv ==
    \A a \in Agents :
        LET win == window[a] IN
        /\ \A j, k \in DOMAIN win : win[j] = win[k] => j = k
        /\ \A k \in DOMAIN win : win[k] \in Observed /\ agent[win[k]] = a
        /\ \A q \in Observed : agent[q] = a =>
              \/ \E k \in DOMAIN win : win[k] = q
              \/ \E p \in Observed :
                    agent[p] = a /\ Upto(q, p) /\ stamp[q] <= stamp[p] - Window
        /\ InOrder => \A j, k \in DOMAIN win : j < k => stamp[win[j]] <= stamp[win[k]]

\* The memoised level is that of the recent requests, or above it.
CountInv ==
    \A r \in Observed :
        /\ RecentLevel(r) = "HARD" => memo[id[r]] = "HARD"
        /\ RecentLevel(r) # "CLEAR" => memo[id[r]] # "CLEAR"
        /\ InOrder => memo[id[r]] = RecentLevel(r)

CadenceInv == Assessed /\ OnceInv /\ WindowInv /\ CountInv
=============================================================================
