--------------------------- MODULE MCFileBeadStore ---------------------------
(* Small instances of FileBeadStore. *)
EXTENDS FileBeadStore, TLC

\* Workflows, receipts and processes are interchangeable; beads are as well.
Symmetry == Permutations(Workflows) \cup Permutations(Processes)
                \cup Permutations(Beads) \cup Permutations(Receipts)

\* Bound: failure entries are explored while the file has one bead; the other may
\* still be in the maps of a process.  No operation decides by the entries.
FewFailures ==
    file # None =>
        \A b \in DOMAIN file.beads :
            file.beads[b].failures # {} => DOMAIN file.beads = {b}

=============================================================================
