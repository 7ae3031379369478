SPECIFICATION FairSpec
CONSTANTS
    p1 = p1
    p2 = p2
    Pages <- MCPages
    Initial = p1
INVARIANTS
    UniqueIds
    CoveredLeavesTrace
    DeadPageNotScanned
    ScannersEnded
    StopDrains
PROPERTIES
    StopEnds
\* The session ends: nothing is left to do once stop has.
CHECK_DEADLOCK FALSE
