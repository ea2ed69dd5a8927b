--------------------------- MODULE MC_AgentCalls ---------------------------
(* Instances of AgentCalls for TLC; the configurations bound it.           *)
EXTENDS AgentCalls
=============================================================================
