SPECIFICATION FairSpec
CONSTANTS
    Pids = {4, 8}
    Delay = 3
    Elapsed = {1, 2}
    MaxStart = 3
    MaxFail = 2
PROPERTIES
    NeverTooEarly
    EveryGameAttached
