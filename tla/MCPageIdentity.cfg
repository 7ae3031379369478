SPECIFICATION Spec
CONSTANTS
    p1 = p1
    p2 = p2
    Pages <- MCPages
    Initial = p1
INVARIANT IdentityStable
CHECK_DEADLOCK FALSE
