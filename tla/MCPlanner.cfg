SPECIFICATION Spec
CONSTANTS
    Texts <- MCTexts
    MaxPlanSteps = 2
INVARIANTS
    TypeOK
    ProperRepliesAreDecoded
    OneEvent
