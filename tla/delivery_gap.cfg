\* A Workflow closes between its signal and the acknowledgement.
SPECIFICATION FairSpec
CONSTANTS
    b1 = b1
    b2 = b2
    r1 = r1
    Events <- MCEvents
    Reconciler = reconciler
    Couriers = {}
PROPERTY CrashGapClosed
CHECK_DEADLOCK FALSE
