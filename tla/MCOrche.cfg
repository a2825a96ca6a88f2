SPECIFICATION Spec
CONSTANTS
    MaxPlanSteps = 3
    MaxRunSteps = 14
    MaxCalls = 2
    MaxAgentSteps = 3
INVARIANTS
    TypeOK
    MetricsTruthful
PROPERTIES
    PromiseKept
