-------------------------- MODULE MCLegacyOutcomes --------------------------
(* Small instances of LegacyOutcomes. *)
EXTENDS LegacyOutcomes

=============================================================================
