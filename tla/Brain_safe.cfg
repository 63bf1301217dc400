SPECIFICATION FairSpec
CONSTANTS
    FastInterval = 1
    DeepInterval = 1
    MAX_BUFFER = 1
    MaxAsked = 2
    MaxChat = 2
INVARIANTS
    TypeOK
    ChatInOrder
    ChatIsKept
    RepliesInOrder
PROPERTIES
    ChatArrives
CHECK_DEADLOCK FALSE
