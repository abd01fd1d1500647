--------------------------- MODULE MCDoltBeadStore ---------------------------
(* Small instances of DoltBeadStore. *)
EXTENDS DoltBeadStore, TLC

\* Nothing in the specification tells the members of these sets apart.
Symmetry == Permutations(Workflows) \cup Permutations(Receipts)
                \cup Permutations(Coordinators) \cup Permutations(Callers)

=============================================================================
