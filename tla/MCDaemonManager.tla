-------------------------- MODULE MCDaemonManager --------------------------
(* The daemon manager with few users and packages.                           *)
EXTENDS DaemonManager, FiniteSets, TLC

CONSTANTS
    u1, u2, l1, l2,
    MaxCalls, MaxChildren   \* bounds: calls and processes that do not listen yet at one time

Symmetry == Permutations(User) \cup Permutations(Logins)

Users ==
    ({syncing[l].user : l \in Logins} \cup {session, profile.token, profile.user, port.token}) \ {None}

Calling(callers) == Cardinality({c \in callers : ~Idle(c)})

(* Bounds: once packages change there is one user, one call of a login, a     *)
(* logout or a setting, and as when two logins overlap, one call less; no    *)
(* task runs before that.                                                    *)
FewCalls ==
    /\ Calling(Caller) <= IF packages = 0 /\ Calling(Logins) < 2 THEN MaxCalls ELSE MaxCalls - 1
    /\ packages > 0 => Cardinality(Users) <= 1 /\ Calling(Logins \cup Logouts \cup Changes) < 2
    /\ packages = 0 => ~port.busy
    /\ Cardinality({c \in Caller : children[c] # None}) <= MaxChildren
=============================================================================
