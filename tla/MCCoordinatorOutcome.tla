------------------------ MODULE MCCoordinatorOutcome ------------------------
(* Small instances of CoordinatorOutcome. *)
EXTENDS CoordinatorOutcome

=============================================================================
