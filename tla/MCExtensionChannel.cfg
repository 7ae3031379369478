SPECIFICATION FairSpec
CONSTANTS
    MaxBuffer <- MCMaxBuffer
    MaxSockets <- MCMaxSockets
    MaxObserved <- MCMaxObserved
    MaxFailures <- MCMaxFailures
    Observable <- MCObservable
    Writers <- MCWriters
INVARIANTS
    
    DropsCovered
    BlobBehindRef
PROPERTY
    BufferDrains
\* The session ends with the log closed.
CHECK_DEADLOCK FALSE
