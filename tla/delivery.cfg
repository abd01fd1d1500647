\* A courier and the reconciler race, and Workflows close at any time.
SPECIFICATION FairSpec
CONSTANTS
    b1 = b1
    b2 = b2
    r1 = r1
    Events <- MCEvents
    Reconciler = reconciler
    Couriers = {c1}
INVARIANTS
    TypeOK
    AcknowledgedWasDelivered
PROPERTIES
    Delivered
    GapRepaired
CHECK_DEADLOCK FALSE
