--------------------------- MODULE MCProvisioning ---------------------------
(* Passes over the packages of two workspaces on small instances.            *)
EXTENDS Provisioning, TLC

CONSTANTS w1, w2, skill, browsers, q1, q2

PassSymmetry == Permutations(Pass)

Serving(served, v) == [p \in Package |-> IF p \in served THEN v ELSE None]
OneAtATime == {Serving({skill}, v) : v \in {1, 2}} \cup {Serving({browsers}, v) : v \in Version}
OlderAndNewer == {[w \in Workspace |-> Serving({p}, IF w = w1 THEN 1 ELSE 2)] : p \in Package}
OneRevoked == {[w \in Workspace |-> IF w = w1 THEN Serving({p}, 1) ELSE Denied] : p \in Package}
SharedOrRevoked == OlderAndNewer \cup OneRevoked

(* Bound: a workspace that is revoked from the start stays so, and leaves the *)
(* one event to a failure or a crash.                                        *)
RevocationStands ==
    events = 0 /\ (\E w \in Workspace : catalog[w] = Denied) => catalog' = catalog

(* Bound: unmarked content is there from the start where a workspace serves  *)
(* the package of that name from the start.                                  *)
LegacyWherePlain ==
    events = 0 /\ home[skill] = Legacy
    => \E w \in Workspace : catalog[w] # Denied /\ catalog[w][skill] # None

(* Bound: two passes overlap once in a behaviour.                            *)
OneOverlap == overlapped => ~\E q, o \in Pass : Under(o) /\ ~Under(q) /\ Under(q)'
=============================================================================
