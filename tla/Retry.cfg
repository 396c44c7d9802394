SPECIFICATION Spec
CONSTANTS
    a1 = a1
    a2 = a2
    i1 = i1
    c1 = c1
    r1 = r1
    r2 = r2
    d1 = d1
    d2 = d2
    h1 = h1
    h2 = h2
    None = None
    Bare = Bare
    Free = Free
    Task = {1, 2, 3}
    Agent = {a1}
    Issue = {i1}
    Chat = {}
    Runtime = {r1}
    Handler = {h1}
    Daemon = {d1}
    RuntimesOf <- OneDaemon
    MaxConcurrent <- TwoEach
    MaxAttempts = 2
    MaxTasks = 1
    ReportedReason = {"provider_network"}
    FallbackAgent = {}
    MaxRoots = 1
    MaxClaims = 1
ACTION_CONSTRAINTS
    NoFreeRows
INVARIANTS
    TypeOK
    ReportedFailureRetried
    RetryChain
PROPERTIES
    TerminalIsFinal
