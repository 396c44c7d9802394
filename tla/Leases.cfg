SPECIFICATION Spec
CONSTANTS
    n1 = n1
    n2 = n2
    s1 = s1
    s2 = s2
    s3 = s3
    None = None
    Runner = {n1, n2}
    Scope = {s1}
    Plan = {1, 2}
    Planner = "autopilot"
    ScheduleDelay = 0
    CatchUpWindow = 2
    Lateness = 1
    MaxPlansPerTick = 2
    RunTimeout = 1
    StaleTimeout = 2
    HeartbeatInterval = 1
    AllowStaleReentry = TRUE
    MaxAttempts = 2
    RetryDelay = 1
    MaxTime = 4
SYMMETRY RunnerSymmetry
INVARIANTS
    SchedulerTypeOK
    LeaseUnique
PROPERTIES
    SuccessIsFinal
    LostOnlyWhenStale
    ImplementsLedger
