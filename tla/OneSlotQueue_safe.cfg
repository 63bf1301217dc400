SPECIFICATION FairSpec
CONSTANTS
    Cap = 2
    MaxPush = 3
    LenArgs <- MCLenArgs
INVARIANTS
    TypeOK
    ReadyMeansWhole
    NoOlderByte
PROPERTIES
    ImplementsMailbox
    PublishedIsPopped
