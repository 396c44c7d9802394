SPECIFICATION Spec
CONSTANTS
    u1 = u1
    u2 = u2
    l1 = l1
    l2 = l2
    Buttons = {button}
    Logins = {l1, l2}
    Logouts = {logout}
    Switches = {switch}
    Changes = {runtime}
    None = None
    MaxCalls = 3
    MaxChildren = 1
    User = {u1, u2}
    MaxPackages = 2
    Relaunches = TRUE
SYMMETRY Symmetry
CONSTRAINTS
    FewCalls
CHECK_DEADLOCK FALSE
INVARIANTS
    DaemonManagerTypeOK
    SwitchReachesDaemon
    PackagesRemembered
