--------------------------- MODULE MCReadyDelivery ---------------------------
(* Small instances of ReadyDelivery. *)
EXTENDS ReadyDelivery

CONSTANTS b1, b2, r1

\* A bead with two generations and a bead with one, in one run.
MCEvents == {[bead |-> b1, gen |-> 1, run |-> r1],
             [bead |-> b1, gen |-> 2, run |-> r1],
             [bead |-> b2, gen |-> 1, run |-> r1]}

=============================================================================
