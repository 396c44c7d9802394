---------------------------- MODULE Provisioning ----------------------------
(***************************************************************************)
(* The packages of the desktop application: passes that fetch the manifest   *)
(* of the bound workspace, install what it serves and remove what it no      *)
(* longer serves.  Timers and bindings share one pass; a retry starts        *)
(* another beside it.  The daemon uses the files meanwhile.                  *)
(*                                                                         *)
(* A plain package has one directory, which is swapped; a runtime has one    *)
(* directory per version and a link named current.                           *)
(***************************************************************************)
EXTENDS Naturals, FiniteSets

CONSTANTS
    Workspace,
    Plain, Runtime,   \* packages: skills and MCP servers, and runtimes
    Version,
    Offer,            \* what a catalog may serve: functions from packages to versions
    First,            \* the catalogs to begin with
    Pass,             \* identities of concurrent passes
    Denied,           \* a catalog the user has no access to
    Legacy,           \* content of a directory that carries no marker
    None,
    Confirmations,    \* ACCESS_REVOKED_CONFIRMATIONS_REQUIRED
    MaxEvents         \* bound: catalog changes, failures and crashes together

Package == Plain \cup Runtime

ASSUME ProvisioningAssumption ==
    /\ Plain \cap Runtime = {} /\ None \notin Workspace \cup Package \cup Version \cup Pass
    /\ Legacy \notin Version \cup {None}
    /\ Offer \subseteq [Package -> Version \cup {None}] /\ Denied \notin Offer
    /\ First \subseteq [Workspace -> Offer \cup {Denied}]
    /\ Confirmations \in Nat \ {0}
    /\ MaxEvents \in Nat

VARIABLES
    catalog,      \* of each workspace, on the server
    delivered,    \* packages the server remembers to have served to a workspace
    bound,        \* authState.workspaceId
    home,         \* the directory of a plain package: its marker's version
    aside,        \* plain packages whose unmarked content was set aside
    versions,     \* the version directories of a runtime
    current,      \* the version its link points to
    pass,         \* runSync and runWorkspaceAccessRevokedCleanup, step by step
    inflight,     \* syncInFlight
    strikes,      \* accessRevokedStrikeCount
    aged,         \* the first strike lies ACCESS_REVOKED_MIN_WINDOW_MS back
    daemon,       \* the tasks of the daemon, the runtimes it was started with, and,
                  \* as history, how often a link was switched since; a removal
                  \* counts as two
    pending,      \* the restart hook was called
    overlapped,   \* history: two passes ran side by side
    torn,         \* history: runtimes whose removal ended before their link was removed
    events

server == <<catalog, delivered>>
plain == <<home, aside>>
runtime == <<versions, current, torn>>
proof == <<strikes, aged>>
env == <<daemon, pending>>
vars == <<server, bound, plain, runtime, pass, inflight, proof, env, overlapped, events>>

Idle == [pc |-> "idle", ws |-> None, todo |-> [p \in Package |-> None], gone |-> {},
         pkg |-> None, prev |-> None, left |-> {}, failed |-> FALSE, changed |-> FALSE,
         alone |-> FALSE]

Under(q) == pass[q].pc # "idle"

PassState ==
    [pc : {"idle", "asked", "next", "fetched", "swap", "displaced", "switch", "prune", "remove",
           "list", "rm"},
     ws : Workspace \cup {None}, todo : [Package -> Version \cup {None}], gone : SUBSET Package,
     pkg : Package \cup {None}, prev : Version \cup {None, Legacy},
     left : SUBSET Version, failed : BOOLEAN, changed : BOOLEAN, alone : BOOLEAN]

ProvisioningTypeOK ==
    /\ catalog \in [Workspace -> Offer \cup {Denied}]
    /\ delivered \in [Workspace -> SUBSET Package]
    /\ bound \in Workspace \cup {None}
    /\ home \in [Plain -> Version \cup {None, Legacy}] /\ aside \subseteq Plain
    /\ versions \in [Runtime -> SUBSET Version]
    /\ current \in [Runtime -> Version \cup {None}] /\ torn \subseteq Runtime
    /\ pass \in [Pass -> PassState]
    /\ \A q \in Pass : pass[q].pc \in {"fetched", "swap", "displaced", "switch", "prune"} =>
         pass[q].pkg # None /\ pass[q].todo[pass[q].pkg] # None
    /\ inflight \in Pass \cup {None} /\ (inflight # None => Under(inflight))
    /\ strikes \in 0..Confirmations /\ aged \in BOOLEAN
    /\ daemon \in [busy : BOOLEAN, uses : [Runtime -> Version \cup {None}], switched : 0..2]
    /\ pending \in BOOLEAN /\ overlapped \in BOOLEAN /\ events \in 0..MaxEvents

Init ==
    /\ catalog \in First
    /\ delivered = [w \in Workspace |-> {}] /\ bound = None
    /\ home \in [Plain -> {None, Legacy}] /\ aside = {}
    /\ versions = [r \in Runtime |-> {}] /\ current = [r \in Runtime |-> None] /\ torn = {}
    /\ pass = [q \in Pass |-> Idle] /\ inflight = None
    /\ strikes = 0 /\ aged = FALSE
    /\ daemon = [busy |-> FALSE, uses |-> current, switched |-> 0] /\ pending = FALSE
    /\ overlapped = FALSE
    /\ events = 0

-----------------------------------------------------------------------------
(* What is on disk.                                                          *)

(* listInstalledProvisionedPackages: what carries a marker.                  *)
Marked(p) == IF p \in Plain THEN home[p] \in Version ELSE versions[p] # {}

(* resolveProvisionedRuntimeDir.                                             *)
Resolved(r) == IF current[r] \in versions[r] THEN current[r] ELSE None

(* The marker of packageInstallDir answers to the manifest's version.        *)
MarkerMatches(p, v) == IF p \in Plain THEN home[p] = v ELSE v \in versions[p]

(* The bounded part of the environment.                                      *)
Event == events < MaxEvents /\ events' = events + 1

(* Memory of the strikes.                                                    *)
ResetStrikes == strikes' = 0 /\ aged' = FALSE

-----------------------------------------------------------------------------
(* Starting a pass.                                                          *)

Begin(q, record) ==
    /\ ~Under(q)
    /\ pass' = [o \in Pass |-> IF o = q THEN [record EXCEPT !.alone = \A u \in Pass : ~Under(u)]
                               ELSE [pass[o] EXCEPT !.alone = FALSE]]
    /\ overlapped' = (overlapped \/ \E o \in Pass : Under(o))

Asking(w) == [Idle EXCEPT !.pc = "asked", !.ws = w]

(* runTrackedSync(runSync()) for workspace w: without one it is over at once. *)
Run(q, w) ==
    IF w = None THEN UNCHANGED <<pass, inflight, overlapped>>
    ELSE Begin(q, Asking(w)) /\ inflight' = q

(* syncProvisionedPackages: a pass under way is good enough.                 *)
SyncFor(w) ==
    IF inflight # None THEN UNCHANGED <<pass, inflight, overlapped>>
    ELSE \E q \in Pass : Run(q, w)

Sync ==
    /\ bound # None /\ inflight = None
    /\ SyncFor(bound)
    /\ UNCHANGED <<server, bound, plain, runtime, proof, env, events>>

(* retryProvisioning.                                                        *)
Retry ==
    /\ bound # None
    /\ \E q \in Pass : Run(q, bound)
    /\ UNCHANGED <<server, bound, plain, runtime, proof, env, events>>

(* bindProvisioningWorkspace.                                                *)
Bind(w) ==
    /\ w # bound
    /\ bound' = w
    /\ ResetStrikes
    /\ SyncFor(w)
    /\ UNCHANGED <<server, plain, runtime, env, events>>

(* runWorkspaceAccessRevokedCleanup: the server pushed that the user is out. *)
Cleanup(q, w) ==
    /\ w = bound /\ catalog[w] = Denied
    /\ Begin(q, [Idle EXCEPT !.pc = "next", !.ws = w, !.gone = {p \in Package : Marked(p)}])
    /\ UNCHANGED <<server, bound, plain, runtime, inflight, proof, env, events>>

-----------------------------------------------------------------------------
(* The manifest.                                                             *)

(* MUTANT: the pass stays the one that others join.                          *)
FinishTracked(q) ==
    /\ pass' = [pass EXCEPT ![q] = Idle]
    /\ pending' = (pending \/ pass[q].changed)
    /\ inflight' = inflight

(* The pass is over; the restart hook is told what changed.                  *)
Finish(q) ==
    /\ pass' = [pass EXCEPT ![q] = Idle]
    /\ pending' = (pending \/ pass[q].changed)
    /\ inflight' = IF inflight = q THEN None ELSE inflight

ManifestServed(q) ==
    LET w == pass[q].ws
        served == {p \in Package : catalog[w][p] # None}
    IN /\ pass[q].pc = "asked" /\ catalog[w] # Denied
       /\ delivered' = [delivered EXCEPT ![w] = @ \cup served]
       /\ pass' = [pass EXCEPT ![q].pc = "next", ![q].todo = catalog[w],
                               ![q].gone = delivered[w] \ served]
       /\ ResetStrikes
       /\ UNCHANGED <<catalog, bound, plain, runtime, inflight, env, overlapped, events>>

ManifestFails(q) ==
    /\ pass[q].pc = "asked" /\ Event
    /\ Finish(q)
    /\ ResetStrikes
    /\ UNCHANGED <<server, bound, plain, runtime, daemon, overlapped>>

(* A denial: enough of them, far enough apart, and everything goes.  The     *)
(* time that passed since the first is looked at when one comes.             *)
Strike(q) ==
    /\ strikes' = IF strikes = Confirmations THEN strikes ELSE strikes + 1
    /\ aged' \in {aged, aged \/ strikes > 0}

ManifestDenied(q) ==
    /\ pass[q].pc = "asked" /\ catalog[pass[q].ws] = Denied
    /\ Strike(q)
    /\ IF strikes' = Confirmations /\ aged
         THEN /\ pass' = [pass EXCEPT ![q].pc = "next", ![q].gone = {p \in Package : Marked(p)}]
              /\ UNCHANGED <<inflight, pending>>
         ELSE Finish(q)
    /\ UNCHANGED <<server, bound, plain, runtime, daemon, overlapped, events>>

-----------------------------------------------------------------------------
(* syncOnePackage, of the package p a pass turns to next.                    *)

Quiet(q) == /\ UNCHANGED <<server, bound, inflight, proof, env, overlapped, events>>
            /\ pass[q].pc # "idle"

Done(q, p) == [pass[q] EXCEPT !.pc = "next", !.todo[p] = None, !.pkg = None, !.prev = None]

(* MUTANT: what is installed needs nothing.                                  *)
AlreadyInstalledUnlinked(q, p) ==
    LET v == pass[q].todo[p]
    IN /\ pass[q].pc = "next" /\ v # None /\ MarkerMatches(p, v)
       /\ pass' = [pass EXCEPT ![q] = Done(q, p)]
       /\ UNCHANGED <<plain, runtime>> /\ Quiet(q)

(* A package that is installed only needs its link, if that.                 *)
AlreadyInstalled(q, p) ==
    LET v == pass[q].todo[p]
    IN /\ pass[q].pc = "next" /\ v # None /\ MarkerMatches(p, v)
       /\ pass' = [pass EXCEPT ![q] =
            IF p \in Runtime /\ Resolved(p) # v THEN [@ EXCEPT !.pc = "switch", !.pkg = p]
                                               ELSE Done(q, p)]
       /\ UNCHANGED <<plain, runtime>> /\ Quiet(q)

(* Another one is downloaded, checked against its digest and unpacked aside. *)
Fetch(q, p) ==
    LET v == pass[q].todo[p]
    IN /\ pass[q].pc = "next" /\ v # None /\ ~MarkerMatches(p, v)
       /\ pass' = [pass EXCEPT ![q].pc = "fetched", ![q].pkg = p]
       /\ UNCHANGED <<plain, runtime>> /\ Quiet(q)

FetchFails(q, p) ==
    LET v == pass[q].todo[p]
    IN /\ pass[q].pc = "next" /\ v # None /\ ~MarkerMatches(p, v)
       /\ Event
       /\ pass' = [pass EXCEPT ![q] = [Done(q, p) EXCEPT !.alone = FALSE]]
       /\ UNCHANGED <<server, bound, plain, runtime, inflight, proof, env, overlapped>>

-----------------------------------------------------------------------------
(* atomicSwapInstall.                                                        *)

Installed(q, p) ==
    IF p \in Runtime THEN [pass[q] EXCEPT !.pc = "switch", !.prev = None, !.changed = TRUE]
                     ELSE [Done(q, p) EXCEPT !.changed = TRUE]

(* The directory is not there: it is renamed into place.                     *)
InstallFresh(q) ==
    LET p == pass[q].pkg
        v == pass[q].todo[p]
    IN /\ pass[q].pc = "fetched"
       /\ IF p \in Plain
            THEN home[p] = None /\ home' = [home EXCEPT ![p] = v] /\ UNCHANGED <<aside, runtime>>
            ELSE v \notin versions[p] /\ versions' = [versions EXCEPT ![p] = @ \cup {v}]
                 /\ UNCHANGED <<plain, current, torn>>
       /\ pass' = [pass EXCEPT ![q] = Installed(q, p)]
       /\ Quiet(q)

(* Another pass was faster.                                                  *)
InstallSkipped(q) ==
    LET p == pass[q].pkg
    IN /\ pass[q].pc = "fetched" /\ MarkerMatches(p, pass[q].todo[p])
       /\ pass' = [pass EXCEPT ![q] = IF p \in Runtime THEN [@ EXCEPT !.pc = "switch"]
                                                        ELSE Done(q, p)]
       /\ UNCHANGED <<plain, runtime>> /\ Quiet(q)

(* Something else is in its place, and the marker read then is remembered: a *)
(* daemon with tasks keeps its files until a later pass.                     *)
AskDaemon(q) ==
    LET p == pass[q].pkg
    IN /\ pass[q].pc = "fetched"
       /\ p \in Plain /\ home[p] \notin {None, pass[q].todo[p]}
       /\ pass' = [pass EXCEPT ![q] =
            IF daemon.busy THEN [Done(q, p) EXCEPT !.alone = FALSE]
                           ELSE [@ EXCEPT !.pc = "swap", !.prev = home[p]]]
       /\ UNCHANGED <<plain, runtime>> /\ Quiet(q)

(* MUTANT: what is there is deleted, whatever it is.                         *)
DisplaceAnything(q) ==
    LET p == pass[q].pkg
    IN /\ pass[q].pc = "swap"
       /\ IF home[p] = None THEN pass' = [pass EXCEPT ![q] = Done(q, p)] /\ UNCHANGED plain
          ELSE /\ home' = [home EXCEPT ![p] = None]
               /\ UNCHANGED aside
               /\ pass' = [pass EXCEPT ![q].pc = "displaced"]
       /\ UNCHANGED runtime /\ Quiet(q)

(* It is renamed: to a name of its own for good if it had no marker, else to *)
(* be deleted later.  The rename fails if another pass took it away.         *)
Displace(q) ==
    LET p == pass[q].pkg
    IN /\ pass[q].pc = "swap"
       /\ IF home[p] = None THEN pass' = [pass EXCEPT ![q] = Done(q, p)] /\ UNCHANGED plain
          ELSE /\ home' = [home EXCEPT ![p] = None]
               /\ aside' = IF pass[q].prev = Legacy THEN aside \cup {p} ELSE aside
               /\ pass' = [pass EXCEPT ![q].pc = "displaced", ![q].prev =
                    IF pass[q].prev = Legacy THEN Legacy ELSE home[p]]
       /\ UNCHANGED runtime /\ Quiet(q)

(* Renaming the new one fails; what had a marker is put back.                *)
MoveInFails(q) ==
    LET p == pass[q].pkg
    IN /\ pass[q].pc = "displaced" /\ home[p] = None
       /\ Event
       /\ home' = [home EXCEPT ![p] = IF pass[q].prev = Legacy THEN None ELSE pass[q].prev]
       /\ pass' = [pass EXCEPT ![q] = [Done(q, p) EXCEPT !.alone = FALSE]]
       /\ UNCHANGED <<server, bound, aside, runtime, inflight, proof, env, overlapped>>

(* The new one is renamed into place, unless another pass filled it; then    *)
(* putting the old one back fails as well.                                   *)
MoveIn(q) ==
    LET p == pass[q].pkg
    IN /\ pass[q].pc = "displaced"
       /\ IF home[p] = None
            THEN /\ home' = [home EXCEPT ![p] = pass[q].todo[p]]
                 /\ pass' = [pass EXCEPT ![q] = Installed(q, p)]
            ELSE pass' = [pass EXCEPT ![q] = Done(q, p)] /\ UNCHANGED home
       /\ UNCHANGED <<aside, runtime>> /\ Quiet(q)

-----------------------------------------------------------------------------
(* switchRuntimeCurrentAndPrune: the link is replaced, then the directories  *)
(* go, except the new one and the one it pointed to.                         *)
SwitchCurrent(q) ==
    LET p == pass[q].pkg
    IN /\ pass[q].pc = "switch"
       /\ current' = [current EXCEPT ![p] = pass[q].todo[p]] /\ torn' = torn \ {p}
       /\ pass' = [pass EXCEPT ![q].pc = "prune", ![q].prev = current[p]]
       /\ daemon' = [daemon EXCEPT !.switched = IF @ = 2 THEN 2 ELSE @ + 1]
       /\ UNCHANGED <<server, bound, plain, versions, inflight, proof, pending, overlapped, events>>

(* MUTANT: the version before is not kept.                                   *)
PruneAllButNew(q) ==
    LET p == pass[q].pkg
    IN /\ pass[q].pc = "prune"
       /\ versions' = [versions EXCEPT ![p] = @ \cap {pass[q].todo[p]}]
       /\ pass' = [pass EXCEPT ![q] = Done(q, p)]
       /\ UNCHANGED <<plain, current, torn>> /\ Quiet(q)

Prune(q) ==
    LET p == pass[q].pkg
    IN /\ pass[q].pc = "prune"
       /\ versions' = [versions EXCEPT ![p] = @ \cap {pass[q].todo[p], pass[q].prev}]
       /\ pass' = [pass EXCEPT ![q] = Done(q, p)]
       /\ UNCHANGED <<plain, current, torn>> /\ Quiet(q)

-----------------------------------------------------------------------------
(* removeOneRevokedPackage: unmarked content stays, a busy daemon defers.    *)

Served(q) == \A p \in Package : pass[q].todo[p] = None

Settled(q, p) ==
    [pass[q] EXCEPT !.pc = "next", !.gone = @ \ {p}, !.pkg = None,
                    !.changed = @ \/ (pass[q].pc \in {"remove", "rm"} /\ ~pass[q].failed)]

(* Of a plain package the marker is looked at first, of a runtime whether it *)
(* has a directory.                                                          *)
Present(p) == IF p \in Plain THEN Marked(p) ELSE versions[p] # {} \/ current[p] # None

AskRemoval(q, p) ==
    /\ pass[q].pc = "next" /\ Served(q) /\ p \in pass[q].gone
    /\ pass' = [pass EXCEPT ![q] =
         IF Present(p) /\ ~daemon.busy
           THEN [@ EXCEPT !.pc = IF p \in Plain THEN "remove" ELSE "list", !.pkg = p,
                          !.failed = FALSE]
           ELSE [Settled(q, p) EXCEPT !.alone = @ /\ ~Marked(p)]]
    /\ UNCHANGED <<plain, runtime>> /\ Quiet(q)

(* A step of a removal fails, and the next pass has to see to the package.   *)
Stumbles(q) ==
    /\ pass' = [pass EXCEPT ![q].failed = TRUE, ![q].alone = FALSE]
    /\ Event
    /\ UNCHANGED <<server, bound, plain, runtime, inflight, proof, env, overlapped>>

(* A plain package goes at once, or its removal fails.                       *)
Remove(q) ==
    LET p == pass[q].pkg
    IN /\ pass[q].pc = "remove"
       /\ IF pass[q].failed THEN UNCHANGED home ELSE home' = [home EXCEPT ![p] = None]
       /\ pass' = [pass EXCEPT ![q] = Settled(q, p)]
       /\ UNCHANGED <<aside, runtime>> /\ Quiet(q)

RemoveFails(q) == pass[q].pc = "remove" /\ ~pass[q].failed /\ Stumbles(q)

(* removeRevokedRuntimePackage: the versions with a marker, one by one, then *)
(* the link.                                                                 *)
ListVersions(q) ==
    LET p == pass[q].pkg
    IN /\ pass[q].pc = "list"
       /\ pass' = [pass EXCEPT ![q] = IF versions[p] = {} THEN Settled(q, p)
                                      ELSE [@ EXCEPT !.pc = "rm", !.left = versions[p]]]
       /\ UNCHANGED <<plain, runtime>> /\ Quiet(q)

RemoveVersion(q, v) ==
    /\ pass[q].pc = "rm" /\ v \in pass[q].left
    /\ versions' = [versions EXCEPT ![pass[q].pkg] = @ \ {v}]
    /\ pass' = [pass EXCEPT ![q].left = @ \ {v}]
    /\ daemon' = [daemon EXCEPT !.switched = 2]
    /\ UNCHANGED <<server, bound, plain, current, torn, inflight, proof, pending, overlapped, events>>

RemoveVersionFails(q, v) ==
    /\ pass[q].pc = "rm" /\ v \in pass[q].left
    /\ pass' = [pass EXCEPT ![q].left = @ \ {v}, ![q].failed = TRUE, ![q].alone = FALSE]
    /\ Event
    /\ UNCHANGED <<server, bound, plain, runtime, inflight, proof, env, overlapped>>

(* MUTANT: the link stays.                                                   *)
UnlinkNever(q) ==
    /\ pass[q].pc = "rm" /\ pass[q].left = {}
    /\ pass' = [pass EXCEPT ![q] = Settled(q, pass[q].pkg)]
    /\ UNCHANGED <<plain, runtime>> /\ Quiet(q)

(* The link goes if what it points to is gone.                               *)
Unlink(q) ==
    LET p == pass[q].pkg
    IN /\ pass[q].pc = "rm" /\ pass[q].left = {}
       /\ current' = [current EXCEPT ![p] = Resolved(p)] /\ torn' = torn \ {p}
       /\ pass' = [pass EXCEPT ![q] = Settled(q, p)]
       /\ UNCHANGED <<plain, versions>> /\ Quiet(q)

(* Its failure is swallowed.                                                 *)
UnlinkFails(q) ==
    LET p == pass[q].pkg
    IN /\ pass[q].pc = "rm" /\ pass[q].left = {}
       /\ Event
       /\ torn' = torn \cup {p}
       /\ pass' = [pass EXCEPT ![q] = Settled(q, p)]
       /\ UNCHANGED <<server, bound, plain, versions, current, inflight, proof, env, overlapped>>

EndPass(q) ==
    /\ pass[q].pc = "next" /\ Served(q) /\ pass[q].gone = {}
    /\ Finish(q)
    /\ UNCHANGED <<server, bound, plain, runtime, proof, daemon, overlapped, events>>

-----------------------------------------------------------------------------
(* The world around.                                                         *)

CatalogChanges(w, c) ==
    /\ c # catalog[w] /\ Event
    /\ catalog' = [catalog EXCEPT ![w] = c]
    /\ pass' = [q \in Pass |-> [pass[q] EXCEPT !.alone = FALSE]]
    /\ UNCHANGED <<delivered, bound, plain, runtime, inflight, proof, env, overlapped>>

TaskBegins ==
    /\ ~daemon.busy /\ daemon' = [daemon EXCEPT !.busy = TRUE]
    /\ UNCHANGED <<server, bound, plain, runtime, pass, inflight, proof, pending, overlapped, events>>

TaskEnds ==
    /\ daemon.busy /\ daemon' = [daemon EXCEPT !.busy = FALSE]
    /\ UNCHANGED <<server, bound, plain, runtime, pass, inflight, proof, pending, overlapped, events>>

(* ensureProvisioningRestartIfNeeded: the restart the hook asked for, once    *)
(* the daemon is idle.                                                       *)
DaemonRestarts ==
    /\ pending /\ ~daemon.busy
    /\ pending' = FALSE
    /\ daemon' = [daemon EXCEPT !.uses = [r \in Runtime |-> Resolved(r)], !.switched = 0]
    /\ UNCHANGED <<server, bound, plain, runtime, pass, inflight, proof, overlapped, events>>

(* The application ends at any moment.  The files and the daemon remain.     *)
Crash ==
    /\ Event
    /\ pass' = [q \in Pass |-> Idle] /\ inflight' = None
    /\ bound' = None /\ pending' = FALSE
    /\ torn' = torn \cup {r \in Runtime : \E q \in Pass : pass[q].pc = "rm" /\ pass[q].pkg = r}
    /\ ResetStrikes
    /\ UNCHANGED <<server, plain, versions, current, daemon, overlapped>>

-----------------------------------------------------------------------------
PassStep(q) ==
    \/ ManifestServed(q) \/ ManifestFails(q) \/ ManifestDenied(q)
    \/ InstallFresh(q) \/ InstallSkipped(q) \/ AskDaemon(q) \/ Displace(q) \/ MoveIn(q) \/ MoveInFails(q)
    \/ SwitchCurrent(q) \/ Prune(q) \/ EndPass(q)
    \/ Remove(q) \/ RemoveFails(q) \/ ListVersions(q) \/ Unlink(q) \/ UnlinkFails(q)
    \/ \E v \in Version : RemoveVersion(q, v) \/ RemoveVersionFails(q, v)
    \/ \E p \in Package : AlreadyInstalled(q, p) \/ Fetch(q, p) \/ FetchFails(q, p) \/ AskRemoval(q, p)

Next ==
    \/ \E q \in Pass : PassStep(q)
    \/ Sync \/ Retry
    \/ \E w \in Workspace : Bind(w) \/ \E q \in Pass : Cleanup(q, w)
    \/ \E w \in Workspace, c \in Offer \cup {Denied} : CatalogChanges(w, c)
    \/ TaskBegins \/ TaskEnds \/ DaemonRestarts \/ Crash

Spec == Init /\ [][Next]_vars

-----------------------------------------------------------------------------
(* Content that carries no marker is never deleted: it stays where it is or  *)
(* is set aside, even when passes of several workspaces meet in a directory. *)
LegacyKept ==
    [][\A p \in Plain : home[p] = Legacy /\ home'[p] # Legacy => p \in aside']_vars

(* Its link points nowhere.                                                  *)
Dangling(r) == current[r] # None /\ current[r] \notin versions[r]

(* A removal of the runtime is between its first file and its link.          *)
Removing(r) == \E q \in Pass : pass[q].pc = "rm" /\ pass[q].pkg = r

(* The link to a runtime is good, unless passes ran side by side: it points  *)
(* nowhere only while a removal is under way, or after one that the end of   *)
(* the application cut short or that could not remove the link, until a pass *)
(* links the runtime again.                                                  *)
CurrentResolves ==
    ~overlapped => \A r \in Runtime : Dangling(r) => Removing(r) \/ r \in torn

(* What the bound workspace serves is installed, and what it served before is *)
(* gone.                                                                     *)
InSync(w) ==
    \A p \in Package :
        IF catalog[w][p] # None
          THEN MarkerMatches(p, catalog[w][p]) /\ (p \in Runtime => current[p] = catalog[w][p])
          ELSE p \in delivered[w] => ~Marked(p)

(* From whatever passes of other workspaces, crashes and failures have left  *)
(* behind, one pass that nothing disturbs makes the files what its workspace *)
(* serves, so the timer's next pass mends them.                              *)
UndisturbedPassSyncs ==
    [][\A q \in Pass :
         EndPass(q) /\ pass[q].alone /\ catalog[pass[q].ws] # Denied
           => InSync(pass[q].ws)]_vars

(* A daemon at work keeps the runtime it was started with, if no link was    *)
(* switched more than once since and none removed, whatever passes, crashes  *)
(* and failures came in between: prunings keep the version before.           *)
RuntimeInUseKept ==
    [][\A r \in Runtime :
         /\ daemon.busy /\ daemon'.switched < 2 /\ ~overlapped'
         /\ daemon.uses[r] \in versions[r]
         => daemon.uses[r] \in versions'[r]]_vars
=============================================================================
