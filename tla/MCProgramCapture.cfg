SPECIFICATION Spec
CONSTANTS
    a = a
    b = b
    NoPath = NoPath
    Paths <- MCPaths
    MaxRuns = 3
CHECK_DEADLOCK FALSE
INVARIANTS
    CaptureIsThere
