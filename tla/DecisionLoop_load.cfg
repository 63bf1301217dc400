SPECIFICATION Spec
CONSTANTS
    Difficulty = "normal"
    Snapshots <- MCSnapshots
    QCap = 2
    TimeoutLimit = 2
    HistoryLimit = 2
    EmptyChat = "object"
    MaxIn = 4
PROPERTIES
    LoadResumes
CHECK_DEADLOCK FALSE
