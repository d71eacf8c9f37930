--------------------------- MODULE MCAgentWorker ---------------------------
(* Small instances of AgentWorker.                                           *)
EXTENDS AgentWorker

CONSTANTS w1, w2, alert, refresh
=============================================================================
