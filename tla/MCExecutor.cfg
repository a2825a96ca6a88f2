SPECIFICATION Spec
CONSTANTS
    MaxPlanSteps <- MCMaxPlanSteps
    MaxRunSteps <- MCMaxRunSteps
INVARIANTS
    TypeOK
    ContextComplete
    ResultComplete
    LastStepIsFinal
    StepBudget
    EventProtocol
PROPERTIES
    PromiseKept
    RunReturns
