\* A Workflow closes with its event pending; other events are behind it.
SPECIFICATION FairSpec
CONSTANTS
    b1 = b1
    b2 = b2
    r1 = r1
    Events <- MCEvents
    Reconciler = reconciler
    Couriers = {}
PROPERTY DroppedRepaired
CHECK_DEADLOCK FALSE
