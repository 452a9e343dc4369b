\* Two ports, counters that wrap, scans that skip ports, a clock that may step back,
\* a sniffer that may end, restarts with and without an orphan; no pruning.
SPECIFICATION FairSpec
CONSTANTS
    Ports <- TwoPorts
    MockPorts <- NoPorts
    Flows <- FlowsTwo
    ActiveWindow = 1
    PruneAge = 1
    PruneLimit = 2
    CounterMod = 3
    TableTTL = 0
    ClockSteps = TRUE
    MayExit = TRUE
    MayMiss = TRUE
    MayBreakOff = TRUE
    MaxBurst = 2
INVARIANTS
    TypeOK
    RateIsTraffic
PROPERTIES
    QuietPortLeavesTable
    BrowserFollows
