\* A tracked port is forgotten and heard of again (PruneLimit 0 stands for 5000
\* other ports).
SPECIFICATION Spec
CONSTANTS
    Ports <- OnePort
    MockPorts <- OnePort
    Flows <- FlowsOne
    ActiveWindow = 1
    PruneAge = 1
    PruneLimit = 0
    CounterMod = 5
    TableTTL = 1
    ClockSteps = FALSE
    MayExit = FALSE
    MayMiss = FALSE
    MayBreakOff = FALSE
    MaxBurst = 2
INVARIANTS
    RateIsTraffic
