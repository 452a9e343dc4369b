\* The three jobs, the hourly ones with twice the interval of the flush; the
\* tables may exist or not, and any statement may fail.
SPECIFICATION FairSpec
CONSTANTS
    Threads <- BothThreads
    Loop = "loop"
    Worker = "jobs"
    MayFail = TRUE
    Jobs <- ThreeJobs
    DbJobs <- WritingJobs
    IdleJobs <- FlushOnly
    Interval <- Intervals
INVARIANTS
    TypeOK
    FactoryIsConfigured
    CleanClose
PROPERTIES
    DueJobRuns
    RequestIsAnswered
    ShutdownEnds
CHECK_DEADLOCK FALSE
