SPECIFICATION Spec
CONSTANTS
    s1 = s1
    s2 = s2
    NoId = NoId
    Ids <- MCIds
    Texts <- MCTexts
    MaxPlanSteps = 3
    MaxRunSteps = 10
    MaxQueries = 2
INVARIANTS
    TypeOK
    FeedTellsOutcome
PROPERTIES
    PromiseKept
    QueryEnds
