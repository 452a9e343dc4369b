\* Three addresses, a cache of one, two threads, an expiry and a failure.
SPECIFICATION FairCacheSpec
CONSTANTS
    i1 = i1
    i2 = i2
    i3 = i3
    w1 = w1
    w2 = w2
    Ips <- ThreeIps
    Workers <- TwoThreads
    MaxSize = 1
    TTL = 1
    MaxTasks = 2
    MaxFailed = 1
INVARIANTS
    CacheTypeOK
    SingleFlight
PROPERTIES
    PlaceholderEnds
CHECK_DEADLOCK FALSE
