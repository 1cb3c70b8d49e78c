-------------------------- MODULE MCPolicyDecision --------------------------
(* Small instances of PolicyDecision.                                      *)
EXTENDS PolicyDecision, TLC

CONSTANTS r1, r2, r3, i1, i2, i3, a1, t1, t2, t3

\* A report with nothing against the request, and precedents at hand.
Clean ==
    [contract |-> "none", path |-> "none", deny |-> FALSE, blocked |-> FALSE,
     finding |-> FALSE, listed |-> TRUE, score |-> 0, semantic |-> "PERMIT", dominant |-> FALSE,
     lowDimension |-> FALSE, weak |-> FALSE, doubt |-> FALSE, risky |-> FALSE,
     noContext |-> FALSE, marked |-> FALSE, life |-> "ACTIVE", capability |-> FALSE,
     streak |-> FALSE, cold |-> FALSE, predicted |-> FALSE, drift |-> FALSE,
     pq |-> FALSE, outside |-> FALSE, autoresolve |-> TRUE, history |-> "unanimous"]

Values ==
    [contract |-> {"soft", "hard"}, path |-> {"warn", "block"}, deny |-> {TRUE},
     blocked |-> {TRUE}, finding |-> {TRUE}, listed |-> {FALSE}, score |-> Scores,
     semantic |-> {"ABSTAIN", "FORBID"}, dominant |-> {TRUE}, lowDimension |-> {TRUE},
     weak |-> {TRUE}, doubt |-> {TRUE}, risky |-> {TRUE}, noContext |-> {TRUE},
     marked |-> {TRUE}, life |-> {"PENDING", "QUARANTINED", "SLEEPING"},
     capability |-> {TRUE}, streak |-> {TRUE}, cold |-> {TRUE}, predicted |-> {TRUE},
     drift |-> {TRUE}, pq |-> {TRUE}, outside |-> {TRUE}, autoresolve |-> {FALSE},
     history |-> {"few", "split"}]

\* A report with one more signal.
Vary(i) == UNION {{[i EXCEPT ![f] = v] : v \in Values[f]} : f \in DOMAIN Values}

\* Up to two signals, in combinations the layers can report.
Signals(S) == S \union UNION {Vary(i) : i \in S}
Varied == {i \in Signals(Signals({Clean})) : i.dominant => i.semantic = "FORBID" /\ ~i.weak}

\* One evaluation meets every combination; the others only share its tracker.
MCReports == (r1 :> Varied) @@ (r2 :> {Clean}) @@ (r3 :> {})
MCIdentities == [r \in Requests |-> IF r = r1 THEN {a1, NoAgent} ELSE {a1}]

\* The third request may repeat the request_id of the first, and has a second
\* target: two requests may reach the hard number of targets.
MCCallIds == (r1 :> {i1}) @@ (r2 :> {i2}) @@ (r3 :> {i1, i3})
MCStamps == (r1 :> {2}) @@ (r2 :> 0..2) @@ (r3 :> 0..2)
MCTargets == (r1 :> {t1}) @@ (r2 :> {t2}) @@ (r3 :> {t2, t3})
=============================================================================
