\* Two concurrent claims of one generation, and a higher one published between.
SPECIFICATION Spec
CONSTANTS
    None = None
    Beads = {b1}
    Generations = {1, 2}
    Workflows = {w1, w2}
    Receipts = {r1}
    Producers = {}
    Coordinators = {k1}
    Callers = {c1, c2}
    Failures = {}
    MaxAttempts = 2
INVARIANT OneLeasePerGeneration
CHECK_DEADLOCK FALSE
