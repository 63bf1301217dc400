SPECIFICATION Spec
CONSTANTS
    Step = 1
    Start = 2
    Window = 2
    Cooldown = 3
    StallTicks = 1
    Sizes = {2, 6}
    MaxTick = 13
INVARIANTS
    TypeOK
    StallIsReported
    PhaseIsKnown
PROPERTIES
    LossReportedOnce
    StallIsSustained
CHECK_DEADLOCK FALSE
