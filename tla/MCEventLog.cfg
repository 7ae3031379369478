SPECIFICATION Spec
CONSTANTS
    t1 = t1
    t2 = t2
    Threads <- MCThreads
    NoThread = NoThread
    FsyncEvery = 2
    MaxSeq = 4
INVARIANTS
    LogOrdered
    AckedInFile
    AckedLossBounded
    CleanLogIsComplete
PROPERTY
    Implements
\* The system stops: the log is closed, or the process is gone.
CHECK_DEADLOCK FALSE
