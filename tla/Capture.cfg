\* Two neighbouring ports in different bytes of the bitmap, scans with and without
\* the lock.
SPECIFICATION FairSpec
CONSTANTS
    Ports <- AcrossBytes
    MockPorts <- NoPorts
    ActiveWindow = 0
    PruneAge = 1
    PruneLimit = 1
    CounterMod = 3
    Flows <- FlowsOneWay
    ReaderLocks <- Either
    MaxCount = 1
    MaxOverlap = 2
INVARIANTS
    TypeOK
    RegularRead
    NoOrphanedBit
    SegmentWholeAtRest
PROPERTIES
    QuietPortIsCleared
    ImplementsRegister
