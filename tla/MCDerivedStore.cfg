SPECIFICATION Spec
CONSTANTS
    bad = bad
    Bad = bad
    Analyzers <- MCAnalyzers
    Readers <- MCReaders
    Ids <- MCIds
    Logs <- MCLogs
    Rebuilders <- MCRebuilders
    MaxFiles <- MCMaxFiles
    MaxAsks <- MCMaxAsks
INVARIANTS
    ServedIsAsked
    
    FinishedRunStands
    WalkVisitsAll
PROPERTY
    NewerStoreUntouched
\* Every process may have ended.
CHECK_DEADLOCK FALSE
