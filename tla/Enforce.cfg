\* Every platform, every end of the process, with and without failures.
SPECIFICATION Spec
CONSTANTS
    Ports <- MCPorts
    Platforms <- AllPlatforms
    FaultChoices <- OneFault
    Kinds <- AllKinds
    Ends <- AllEnds
    MaxStarts = 3
INVARIANTS
    TypeOK
    RecordedIsBlocked
    
    
    
PROPERTIES
    ImplementsBlockList
\* The process may be down and started as often as the bound allows.
CHECK_DEADLOCK FALSE
