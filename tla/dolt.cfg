\* Concurrent claims, completions, producers and coordinators on one row.
SPECIFICATION Spec
CONSTANTS
    None = None
    Beads = {b1}
    Generations = {1, 2}
    Workflows = {w1, w2}
    Receipts = {r1, r2}
    Producers = {s1}
    Coordinators = {k1, k2}
    Callers = {c1, c2}
    Failures = {f1}
    MaxAttempts = 2
SYMMETRY Symmetry
INVARIANTS
    OneGrantPerGeneration
    OneReceiptPerGeneration
    OutcomeConserved
    FinalProof
    IInv
PROPERTY ImplementsLedger
CHECK_DEADLOCK FALSE
