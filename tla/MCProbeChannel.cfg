SPECIFICATION Spec
CONSTANTS
    c1 = c1
    c2 = c2
    f1 = f1
    m1 = m1
    Clicks <- MCClicks
    Calls <- MCCalls
    Changes <- MCChanges
    MaxBuffer = 2
    MaxDocs = 2
    MaxProbes = 2
    Navs <- MCNavs
INVARIANTS
    RecordsInOrder
    LossReported
    
SYMMETRY MCSymmetry
\* The session ends.
CHECK_DEADLOCK FALSE
