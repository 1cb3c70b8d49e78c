-------------------------- MODULE MCDecisionMemory --------------------------
(* Small instances of DecisionMemory: requests judged under two policies.   *)
EXTENDS DecisionMemory

CONSTANTS r1, r2, p1, p2

MCPolicies == {p1, p2}

MCPolicyOf == [r \in Requests |-> IF r = r2 THEN p2 ELSE p1]
=============================================================================
