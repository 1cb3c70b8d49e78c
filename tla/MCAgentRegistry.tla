--------------------------- MODULE MCAgentRegistry ---------------------------
(* Small instances of AgentRegistry.                                         *)
EXTENDS AgentRegistry
=============================================================================
