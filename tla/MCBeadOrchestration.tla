------------------------- MODULE MCBeadOrchestration -------------------------
(* Small instances of BeadOrchestration. *)
EXTENDS BeadOrchestration

=============================================================================
