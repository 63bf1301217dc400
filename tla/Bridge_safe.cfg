SPECIFICATION FairSpec
CONSTANTS
    MaxSession = 3
    QCap = 1
    MaxSnap = 3
    MaxGame = 2
INVARIANTS
    TypeOK
    OneOpenInstance
    NoLeakedHandle
PROPERTIES
    SnapshotsInOrder
    CommandsInOrder
    LoopBlockedOnlyBySilence
    DeadSessionIsReplaced
    GameConnects
    SnapshotExposesDeadServer
CHECK_DEADLOCK FALSE
