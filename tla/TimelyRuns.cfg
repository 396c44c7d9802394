SPECIFICATION TimelySpec
CONSTANTS
    n1 = n1
    n2 = n2
    s1 = s1
    s2 = s2
    s3 = s3
    None = None
    Runner = {n1, n2}
    Scope = {s1}
    Plan = {1, 2}
    Planner = "every_plan"
    ScheduleDelay = 0
    CatchUpWindow = 4
    Lateness = 1
    MaxPlansPerTick = 2
    RunTimeout = 1
    StaleTimeout = 2
    HeartbeatInterval = 1
    AllowStaleReentry = TRUE
    MaxAttempts = 2
    RetryDelay = 1
    MaxTime = 5
SYMMETRY RunnerSymmetry
INVARIANTS
    OneInstance
