\* The table after a graceful restart.
SPECIFICATION Spec
CONSTANTS
    Ports <- MCPorts
    Platforms <- Linux
    FaultChoices <- NoFaults
    Kinds <- AllKinds
    Ends <- Graceful
    MaxStarts = 2
INVARIANTS
    ListedIsBlocked
\* The process may be down and started as often as the bound allows.
CHECK_DEADLOCK FALSE
