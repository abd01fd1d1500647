\* Three events against a limit of two; seals, cancellation, failing links.
SPECIFICATION FairSpec
CONSTANTS
    Events = {e1, e2, e3}
    Parented = {e1, e2}
    EventLimit = 2
    MaxBuffer = 2
    MaxSeals = 2
    Cancelable = TRUE
INVARIANTS
    TypeOK
    OneActivityPerEvent
    SealHonoured
    ParentTold
    NothingUnread
PROPERTY SealedCloses
CHECK_DEADLOCK FALSE
