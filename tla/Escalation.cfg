SPECIFICATION Spec
CONSTANTS
    a1 = a1
    a2 = a2
    i1 = i1
    c1 = c1
    r1 = r1
    r2 = r2
    d1 = d1
    d2 = d2
    h1 = h1
    h2 = h2
    None = None
    Bare = Bare
    Free = Free
    Task = {1, 2}
    Agent = {a1, a2}
    Issue = {i1}
    Chat = {}
    Runtime = {r1, r2}
    Handler = {h1}
    Daemon = {d1}
    RuntimesOf <- DaemonPerRuntime
    MaxConcurrent <- TwoEach
    MaxAttempts = 1
    MaxTasks = 1
    ReportedReason = {"agent_error"}
    FallbackAgent = {a2}
    MaxRoots = 2
    MaxClaims = 1
ACTION_CONSTRAINTS
    IssueRowsOnly
    RuntimesStayFresh
    DaemonsStayUp
    RetryAtOnce
    FallbackInTime
    StartFinishes
INVARIANTS
    LaneExclusive
PROPERTIES
    TerminalIsFinal
    FallbackStaysDown
    ImplementsLifecycle
