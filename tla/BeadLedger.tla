------------------------------ MODULE BeadLedger ------------------------------
(***************************************************************************)
(* What a Beads adapter promises its callers, whatever it is stored in: the *)
(* generation-fenced work record behind the BeadStore interface.  A bead is *)
(* published ready at ever higher generations; each generation has at most  *)
(* one holder, and only that holder can complete it, once.  FileBeadStore   *)
(* and DoltBeadStore are shown to implement this specification.             *)
(***************************************************************************)
EXTENDS Naturals

CONSTANTS
    Beads,        \* bead identities
    Workflows,    \* orchestration workflows that may claim a bead
    Receipts,     \* terminal receipts: a session with its artifacts
    Generations,  \* ready generations a producer may publish
    None          \* absence of a workflow or of a receipt

\* What the ledger expects of its constants.
LedgerConstants ==
    /\ Generations \subseteq Nat \ {0}
    /\ None \notin Workflows
    /\ None \notin Receipts

VARIABLE work     \* work[b]: the fenced record of bead b

Phases == {"unpublished", "ready", "claimed", "completed", "disposed"}

Record == [gen     : Generations \cup {0},
           phase   : Phases,
           holder  : Workflows \cup {None},
           receipt : Receipts \cup {None}]

Unpublished == [gen |-> 0, phase |-> "unpublished",
                holder |-> None, receipt |-> None]

Init == work = [b \in Beads |-> Unpublished]

-----------------------------------------------------------------------------
\* A producer makes b ready at generation g; any older holder loses its fence.
Publish(b, g) ==
    /\ g > work[b].gen
    /\ work' = [work EXCEPT ![b] = [gen |-> g, phase |-> "ready",
                                    holder |-> None, receipt |-> None]]

\* Workflow w becomes the one holder of the current generation.
Claim(b, w) ==
    /\ work[b].phase = "ready"
    /\ work' = [work EXCEPT ![b].phase = "claimed", ![b].holder = w]

\* The holder records the terminal receipt of the current generation.
Complete(b, r) ==
    /\ work[b].phase = "claimed"
    /\ work' = [work EXCEPT ![b].phase = "completed", ![b].receipt = r]

\* A coordinator closes the work without a receipt of the current generation.
Dispose(b) ==
    /\ work[b].phase \in {"unpublished", "ready", "claimed"}
    /\ work' = [work EXCEPT ![b].phase = "disposed"]

Next ==
    \E b \in Beads :
        \/ \E g \in Generations : Publish(b, g)
        \/ \E w \in Workflows : Claim(b, w)
        \/ \E r \in Receipts : Complete(b, r)
        \/ Dispose(b)

Spec == Init /\ [][Next]_work

-----------------------------------------------------------------------------
\* The ledger itself keeps its promises: a claimed or completed generation has a
\* holder, only a completed one has a receipt.
LedgerInv ==
    /\ work \in [Beads -> Record]
    /\ \A b \in Beads :
        /\ work[b].phase \in {"claimed", "completed"} => work[b].holder # None
        /\ work[b].phase = "ready" => work[b].holder = None
        /\ (work[b].receipt # None) <=> (work[b].phase = "completed")

\* Within one generation a holder is never replaced and a receipt never
\* changes, and a generation never goes back.
FencedStep(b) ==
    LET old == work[b]
        new == work'[b]
    IN  /\ new.gen >= old.gen
        /\ new.gen = old.gen => /\ old.holder  # None => new.holder  = old.holder
                                /\ old.receipt # None => new.receipt = old.receipt

Fenced == [][\A b \in Beads : FencedStep(b)]_work

=============================================================================
