\* One rule per port, one file for all rules.
SPECIFICATION Spec
CONSTANTS
    Ports <- MCPorts
    Platforms <- Mac
    FaultChoices <- NoFaults
    Kinds <- AllKinds
    Ends <- Graceful
    MaxStarts = 2
PROPERTIES
    BlockOnlyAdds
\* The process may be down and started as often as the bound allows.
CHECK_DEADLOCK FALSE
