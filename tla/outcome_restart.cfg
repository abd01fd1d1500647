\* The acknowledgement is stored, its answer lost, and the coordinator restarts.
SPECIFICATION FairSpec
CONSTANTS
    Reconcilers = {r1}
    MaxSessions = 2
    MaxSignals = 1
    MaxLate = 1
    ContinueAsNewAfter = 2
PROPERTY RestartRebinds
CHECK_DEADLOCK FALSE
