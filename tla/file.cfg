\* Two processes share the file; one persist may fail, any process may restart.
SPECIFICATION Spec
CONSTANTS
    None = None
    Beads = {b1, b2}
    Workflows = {w1, w2}
    Receipts = {r1}
    Generations = {1, 2}
    Processes = {p1, p2}
    Failures = {f1}
    MaxFaults = 1
SYMMETRY Symmetry
CONSTRAINT FewFailures
INVARIANTS
    TypeOK
    OneLeasePerGeneration
    LeaseDurable
    CompletionDurable
    ReadyDurable
    OnlyCurrentPending
PROPERTY LedgerUntilFault
