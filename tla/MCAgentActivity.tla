--------------------------- MODULE MCAgentActivity ---------------------------
(* Small instances of AgentActivity. *)
EXTENDS AgentActivity

=============================================================================
