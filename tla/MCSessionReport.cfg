SPECIFICATION Spec
CONSTANTS
    p1 = p1
    p2 = p2
    s1 = s1
    NoId = NoId
    Procs <- MCOneProc
    Ids <- MCIds
    MaxPlanSteps = 1
    MaxRounds = 4
    MaxRoundNum = 5
INVARIANTS
    PreviousReportIsMostRecent
