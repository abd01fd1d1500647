------------------------ MODULE MCTimeZoneActivation ------------------------
(* Small instances of TimeZoneActivation. *)
EXTENDS TimeZoneActivation

=============================================================================
