\* Two passes over one bead that workers, workflows and coordinators finish.
SPECIFICATION Spec
CONSTANTS
    Passes = {p1, p2}
    Generations = {2}
    MaxEvents = 2
    MaxTime = 2
INVARIANTS
    TypeOK
    OneOutcomePerTransition
    FinalizationSilent
PROPERTY NewestAccounted
CHECK_DEADLOCK FALSE
