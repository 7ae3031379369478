SPECIFICATION Spec
CONSTANTS
    Callers = {"main", "other"}
    Requests = {"r1", "r2"}
    Scenarios <- MCScenarios
    Sessions = {"raw", "shared"}
    CacheSize = 2
    MaxLog = 2
    MaxRuns = 2
INVARIANT AnalysisNotOlder
PROPERTY ShutdownReturns
CHECK_DEADLOCK FALSE
