\* Two sessions, overlapping passes, continuation after two deliveries.
SPECIFICATION FairSpec
CONSTANTS
    Reconcilers = {r1, r2}
    MaxSessions = 2
    MaxSignals = 1
    MaxLate = 1
    ContinueAsNewAfter = 2
INVARIANTS
    TypeOK
    AcknowledgedBySession
    CompletedIsDurable
PROPERTY EventuallyAcknowledged
CHECK_DEADLOCK FALSE
