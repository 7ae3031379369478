SPECIFICATION FairSpec
CONSTANTS
    r1 = r1
    r2 = r2
    api = api
    noise = noise
    other = other
    Requests <- MCRequests
    Urls <- MCUrls
    Scoped <- MCScoped
    Noisy <- MCNoisy
    NoUrl = NoUrl
INVARIANTS
    OutOfScopeWithheld
    RequestAccounted
    FalseGapOnlyUnregistered
    EachResponseOnce
PROPERTY
    ResponseRecorded
\* The session ends with the export.
CHECK_DEADLOCK FALSE
