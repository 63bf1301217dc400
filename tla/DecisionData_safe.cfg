SPECIFICATION Spec
CONSTANTS
    Null = Null
    Other = Other
    Array = Array
    Huge = Huge
    Large = Large
    Infinity = Infinity
    NotANumber = NotANumber
    Snapshots <- MCSnapshots
    Answers <- MCAnswers
    LogEnabled = TRUE
INVARIANTS
    CommandIsValid
    ValidIsKept
    OnlyFlatAnswersUsed
PROPERTIES
    FallbackAlwaysDecides
