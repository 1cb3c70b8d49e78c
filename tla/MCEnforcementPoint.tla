------------------------- MODULE MCEnforcementPoint -------------------------
(***************************************************************************)
(* Instances of EnforcementPoint for TLC.                                  *)
(***************************************************************************)
EXTENDS EnforcementPoint, TLC

CONSTANTS r1, d1, d2, p1, p2

AllIds == Requests \X {"permit", "cred"}
Symmetry == Permutations(Procs) \union Permutations(Redemptions)
=============================================================================
