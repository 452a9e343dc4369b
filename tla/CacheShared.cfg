\* Two ports: one may be evicted while the other is in use.
SPECIFICATION Spec
CONSTANTS
    Ports <- TwoPorts
    MaxEntries = 2
    MaxAge = 1
    MaxTime = 2
    MaxDeques = 3
INVARIANTS
    TypeOK
    EvictionIsComplete
PROPERTIES
    RecentSnapshotsStay
