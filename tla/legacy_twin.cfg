\* A second turns while a fenced completion is written.
SPECIFICATION Spec
CONSTANTS
    Passes = {p1}
    Generations = {1}
    MaxEvents = 1
    MaxTime = 1
INVARIANT OnlyOtherWriters
CHECK_DEADLOCK FALSE
