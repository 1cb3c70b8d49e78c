--------------------------- MODULE MCDiscoveryScan ---------------------------
(***************************************************************************)
(* Instances of DiscoveryScan for TLC.                                     *)
(***************************************************************************)
EXTENDS DiscoveryScan, TLC

CONSTANTS p1, p2, s1, s2

\* One key.  New at level 0 it is registered, new at level 2 it is held.  Once
\* it is known, level 2 is drift: of one degree from the level at which an
\* operator registers it, of two from level 0.
SomeCandidates ==
    {[key |-> "a", kind |-> "bounded", level |-> 0],
     [key |-> "a", kind |-> "unbounded", level |-> 2]}
SomeManual == {[key |-> "a", level |-> 1]}

Symmetry == Permutations(Procs) \union Permutations(Scans)
=============================================================================
