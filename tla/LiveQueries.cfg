SPECIFICATION Spec
CONSTANTS
    i1 = i1
    detail = detail
    table = table
    m1 = m1
    o1 = o1
    None = None
    Created = Created
    Issue = {i1}
    Edit = {m1, o1}
    IssueOf <- AllOnOne
    Mine = {m1}
    Key = {detail, table}
    Covers <- EveryKey
    RefetchedKey = {table}
    CancelledKey = {table}
    MaxDrops = 1
    MaxFailures = 1
CHECK_DEADLOCK FALSE
INVARIANTS
    IssueCacheTypeOK
    TablesSettle
    RefusedEditsVanish
