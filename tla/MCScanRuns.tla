----------------------------- MODULE MCScanRuns -----------------------------
(* Small instances of ScanRuns.                                              *)
EXTENDS ScanRuns

CONSTANTS p1, p2, a, b

TwoThreads == {<<p1, a>>, <<p1, b>>}
TwoProcesses == {<<p1, a>>, <<p2, a>>}
ThreeWorkers == TwoThreads \union TwoProcesses
=============================================================================
