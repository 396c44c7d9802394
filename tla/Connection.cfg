SPECIFICATION FairSpec
CONSTANTS
    s1 = s1
    s2 = s2
    s3 = s3
    t1 = t1
    t2 = t2
    None = None
    Socket = {s1, s2, s3}
    Token = {t1, t2}
    FirstToken = t1
    DegradedAfter = 2
    MaxTimers = 2
    MaxDrops = 2
CHECK_DEADLOCK FALSE
INVARIANTS
    ClientTypeOK
    OneSocketUntilRetry
    SilentAfterUnmount
    NeverStranded
    OutageHealed
PROPERTIES
    RenewedTokenConnects
