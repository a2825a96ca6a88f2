SPECIFICATION Spec
CONSTANTS
    MaxBefore = 6
    MaxRecent = 4
    Sizes <- MCSizes
    MaxCalls = 2
    MaxMade = 8
CHECK_DEADLOCK FALSE
INVARIANTS
    TypeOK
    Shape
    PairsTogether
    WithinBudget
PROPERTIES
    PromiseKept
    PreambleKept
