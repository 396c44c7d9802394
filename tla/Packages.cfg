SPECIFICATION Spec
CONSTANTS
    w1 = w1
    w2 = w2
    skill = skill
    browsers = browsers
    q1 = q1
    q2 = q2
    Denied = Denied
    Legacy = Legacy
    None = None
    Workspace = {w1, w2}
    Plain = {skill}
    Runtime = {browsers}
    Version = {1, 2, 3}
    Offer <- OneAtATime
    First <- SharedOrRevoked
    Pass = {q1, q2}
    Confirmations = 2
    MaxEvents = 1
SYMMETRY PassSymmetry
CONSTRAINTS
    LegacyWherePlain
ACTION_CONSTRAINTS
    OneOverlap
    RevocationStands
CHECK_DEADLOCK FALSE
INVARIANTS
    ProvisioningTypeOK
    CurrentResolves
PROPERTIES
    LegacyKept
    UndisturbedPassSyncs
    RuntimeInUseKept
