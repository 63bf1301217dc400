SPECIFICATION Spec
CONSTANTS
    Cap = 2
    MaxPush = 2
    LenArgs <- MCLenArgs
INVARIANTS
    PopsAreWhole
