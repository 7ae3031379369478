SPECIFICATION Spec
CONSTANTS
    Callers = {"main", "other"}
    Requests = {"r1"}
    Scenarios <- PanelScenarios
    Sessions = {"raw", "shared"}
    CacheSize = 2
    MaxLog = 2
    MaxRuns = 2
INVARIANT ViewShowsRun
CHECK_DEADLOCK FALSE
