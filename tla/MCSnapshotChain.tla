--------------------------- MODULE MCSnapshotChain ---------------------------
(***************************************************************************)
(* Instances of SnapshotChain for TLC.                                     *)
(***************************************************************************)
EXTENDS SnapshotChain, TLC

CONSTANTS p1, p2, c1, c2, c3, c4

Symmetry == Permutations(Procs) \union Permutations(Captures)
=============================================================================
