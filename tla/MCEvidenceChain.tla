--------------------------- MODULE MCEvidenceChain ---------------------------
(* Small instances of EvidenceChain.                                         *)
EXTENDS EvidenceChain, TLC

CONSTANTS d1, d2

MCSymmetry == Permutations(Decisions)
=============================================================================
