\* One container and its probes, in units of fifteen seconds.
SPECIFICATION FairSpec
CONSTANTS
    TickSeconds = 4
    HEARTBEAT_THRESHOLD_SECONDS = 4
    PROGRESS_THRESHOLD_SECONDS = 12
    ProbePeriod = 2
    FailureThreshold = 3
    InitialDelay = 2
    MaxStart = 1
    MaxWork = 1
    MaxBlock = 1
    MaxFaults = 3
    Never = Never
    Forever = Forever
INVARIANTS
    HealthyMeansProgress
    OneSidecar
PROPERTIES
    LiveSchedulerKept
    StuckIsRestarted
    Recovers
