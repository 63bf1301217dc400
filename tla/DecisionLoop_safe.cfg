SPECIFICATION FairSpec
CONSTANTS
    Difficulty = "normal"
    Snapshots <- MCSnapshots
    QCap = 2
    TimeoutLimit = 2
    HistoryLimit = 2
    EmptyChat = "object"
    MaxIn = 4
INVARIANTS
    TypeOK
    DegradedExactly
    CommandsInSnapshotOrder
    HistoryWasSaid
PROPERTIES
    DegradedForGood
    LoopReturns
CHECK_DEADLOCK FALSE
