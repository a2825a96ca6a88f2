SPECIFICATION Spec
CONSTANTS
    p1 = p1
    p2 = p2
    s1 = s1
    NoId = NoId
    Procs <- MCProcs
    Ids <- MCIds
    MaxPlanSteps = 2
    MaxRounds = 2
    MaxRoundNum = 3
SYMMETRY MCSymmetry
INVARIANTS
    TypeOK
    AckedComplete
    CleanNumbering
    CleanHistory
    OwnRoundsRemembered
