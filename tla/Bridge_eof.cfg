SPECIFICATION FairSpec
CONSTANTS
    MaxSession = 2
    QCap = 1
    MaxSnap = 1
    MaxGame = 2
PROPERTIES
    ReaderFailureEndsSession
CHECK_DEADLOCK FALSE
