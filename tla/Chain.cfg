\* Other programs change the chain at any time.
SPECIFICATION Spec
CONSTANTS
    Ports <- MCPorts
    Foreign <- MCForeign
    MaxLen = 4
INVARIANTS
    TypeOK
    UnblockRemovesAll
    CleanupRemovesAll
PROPERTIES
    OnlyOwnLinesGo
