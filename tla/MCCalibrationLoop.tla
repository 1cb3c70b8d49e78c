------------------------- MODULE MCCalibrationLoop -------------------------
(* Small instances of CalibrationLoop.                                       *)
EXTENDS CalibrationLoop

CONSTANT e1
=============================================================================
