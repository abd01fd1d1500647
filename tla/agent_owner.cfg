\* Two attempts, the first of which owns the session and is late once.
SPECIFICATION Spec
CONSTANTS
    MaxAttempts = 2
    MaxSequence = 1
    MaxStalls = 1
INVARIANT OneOwner
CHECK_DEADLOCK FALSE
