----------------------------- MODULE MCLifecycle -----------------------------
EXTENDS Lifecycle

BothThreads == {"loop", "jobs"}
ThreeJobs   == <<"traffic_flush", "cache_evict", "traffic_prune">>
WritingJobs == {"traffic_flush", "traffic_prune"}
FlushOnly   == {"traffic_flush"}
Intervals   == [j \in ToSet(ThreeJobs) |-> IF j = "traffic_flush" THEN 1 ELSE 2]
=============================================================================
