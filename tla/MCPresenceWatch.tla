--------------------------- MODULE MCPresenceWatch ---------------------------
(* Small instances of PresenceWatch.                                         *)
EXTENDS PresenceWatch
=============================================================================
