SPECIFICATION FairSpec
CONSTANTS
    r1 = r1
    r2 = r2
    h1 = h1
    h2 = h2
    None = None
    Task = {1}
    Runtime = {r1}
    RuntimeOf <- OneRuntime
    Handler = {h1, h2}
    Batch = {{r1}}
    MaxVersion = 2
INVARIANTS
    CacheTypeOK
    VisibleUntilLoss
PROPERTIES
    QueuedRowSeen
