\* Three attempts that overlap in every way; one owner may be late.
SPECIFICATION FairSpec
CONSTANTS
    MaxAttempts = 3
    MaxSequence = 1
    MaxStalls = 1
INVARIANTS
    TypeOK
    OwnersBounded
    ReceiptAgrees
PROPERTIES
    CheckpointAdvances
    ActivityEnds
CHECK_DEADLOCK FALSE
