--------------------------- MODULE DaemonManager ---------------------------
(***************************************************************************)
(* The daemon manager of the desktop application, the command line tool it   *)
(* runs and the start and end of the daemon process.  The manager's calls    *)
(* await between their steps, so that a login, a logout, a button, a pending  *)
(* restart and the restart of a user switch interleave.  Only the calls of   *)
(* the interface that name start, stop or restart hold the guard.            *)
(***************************************************************************)
EXTENDS Naturals

CONSTANTS
    User,
    None,
    Buttons, Logins, Logouts, Switches, Changes,   \* bounds: calls of one kind at one time
    MaxPackages,   \* bound: changes of the packages on disk
    Relaunches     \* bound: whether the application may end

(* Who calls startDaemon, stopDaemon and restartDaemon: the buttons, the      *)
(* login and the logout of the window, the restart of a user switch, a       *)
(* change of the agent runner or of the network mode, and the restart for    *)
(* new packages, which provisioningRestartInFlight joins into one.           *)
Caller == {"packages"} \cup Buttons \cup Logins \cup Logouts \cup Switches \cup Changes
Guarded == Buttons \cup Logouts

ASSUME DaemonManagerAssumption ==
    /\ None \notin User /\ MaxPackages \in Nat /\ Relaunches \in BOOLEAN
    /\ "packages" \notin Buttons \cup Logins \cup Logouts \cup Switches \cup Changes
    /\ Logins \cap (Buttons \cup Logouts \cup Switches \cup Changes) = {}
    /\ Logouts \cap (Buttons \cup Switches \cup Changes) = {}

VARIABLES
    session,      \* the user of the window
    profile,      \* the token in the profile's config, and .desktop-user-id
    guard,        \* operationInProgress
    pending,      \* pendingProvisioningRestart
    calls,        \* the step each call is at, what it is for, the environment it passes on
    syncing,      \* what syncToken read before its awaits
    packages,     \* generation of the packages on disk
    announced,    \* the generation of the last notification
    forgotten,    \* history: the generation whose restart was decided too early or lost
    children,     \* processes that do not listen yet: their environment, or None
    port          \* the daemon that holds the health port

disk == <<profile, packages>>
restarting == <<pending, announced, forgotten>>
vars == <<session, guard, calls, syncing, disk, restarting, children, port>>

Step == {"idle", "stop", "stopping", "start", "exec", "ready", "verify", "settle",
         "sync", "read", "mint", "write", "record", "check", "auto",
         "clear", "drop", "forget", "ask"}
Goal == {"start", "stop", "restart", "remove"}
Call == [at : Step, goal : Goal, env : 0..MaxPackages]

(* A daemon is a stray, as history, if it read a token whose owner was not    *)
(* recorded, an overtaken login recorded another user, or a stop meant for   *)
(* it was refused or lost.                                                   *)
NoDaemon == [phase |-> "none", token |-> None, packages |-> 0,
             draining |-> FALSE, busy |-> FALSE,
             stray |-> FALSE]

DaemonManagerTypeOK ==
    /\ session \in User \cup {None}
    /\ profile \in [token : User \cup {None}, user : User \cup {None}]
    /\ guard \in BOOLEAN /\ pending \in BOOLEAN
    /\ calls \in [Caller -> Call]
    /\ syncing \in [Logins -> [user : User \cup {None}, changed : BOOLEAN,
                                cached : User \cup {None}]]
    /\ packages \in 0..MaxPackages /\ announced \in 0..MaxPackages
    /\ forgotten \in 0..MaxPackages
    /\ children \in [Caller -> 0..MaxPackages \cup {None}]
    /\ port \in [phase : {"none", "bound", "starting", "running"}, token : User \cup {None},
                 packages : 0..MaxPackages, draining : BOOLEAN, busy : BOOLEAN,
                 stray : BOOLEAN]

NoSync == [user |-> None, changed |-> FALSE, cached |-> None]
Resting == [at |-> "idle", goal |-> "stop", env |-> 0]

Init ==
    /\ session = None /\ profile = [token |-> None, user |-> None]
    /\ guard = FALSE /\ pending = FALSE
    /\ calls = [c \in Caller |-> Resting]
    /\ syncing = [l \in Logins |-> NoSync]
    /\ packages = 0 /\ announced = 0 /\ forgotten = 0
    /\ children = [c \in Caller |-> None]
    /\ port = NoDaemon

(* A health request to a bound port waits until the server answers; bound:    *)
(* it takes less than the 2 s of the request.                                *)
Answers == port.phase # "bound"
Alive == port.phase \in {"starting", "running"}
Idle(c) == calls[c].at = "idle"
At(c, step) == calls[c].at = step

(* A call that will ask the daemon to drain.                                 *)
StopDue == \E c \in Caller : calls[c].at \in {"stop", "ask"}

Put(c, call) == calls' = [calls EXCEPT ![c] = call]
GoTo(c, step) == Put(c, [calls[c] EXCEPT !.at = step])
Begin(c, step, goal) == Put(c, [at |-> step, goal |-> goal, env |-> 0])
Finish(c) ==
    /\ Put(c, Resting)
    /\ guard' = IF c \in Guarded THEN FALSE ELSE guard
-----------------------------------------------------------------------------
(* startDaemon and stopDaemon, and the command line tool they run            *)

(* The daemon reports running while it drains, and startDaemon is content.   *)
startDaemon(c) ==
    /\ At(c, "start") /\ Answers
    /\ IF Alive THEN Finish(c)
       ELSE /\ Put(c, [calls[c] EXCEPT !.at = "exec", !.env = packages])
            /\ UNCHANGED guard
    /\ UNCHANGED <<session, syncing, disk, restarting, children, port>>

runDaemonBackground(c) ==
    /\ At(c, "exec") /\ Answers /\ children[c] = None
    /\ IF Alive \/ profile.token = None
       THEN Finish(c) /\ UNCHANGED children
       ELSE /\ Put(c, [calls[c] EXCEPT !.at = "ready", !.env = 0])
            /\ children' = [children EXCEPT ![c] = calls[c].env]
            /\ UNCHANGED guard
    /\ UNCHANGED <<session, syncing, disk, restarting, port>>

(* The daemon is ready, its process ended, or the tool gave up waiting.      *)
StartReturns(c) ==
    /\ At(c, "ready")
    /\ Finish(c)
    /\ UNCHANGED <<session, syncing, disk, restarting, children, port>>

AfterStop(c) ==
    \/ calls[c].goal = "restart" /\ GoTo(c, "start") /\ UNCHANGED guard
    \/ calls[c].goal = "remove" /\ GoTo(c, "verify") /\ guard' = FALSE
    \/ calls[c].goal = "stop" /\ Finish(c)

(* runDaemonStop asks whichever daemon answers to drain.                     *)
stopDaemon(c) ==
    /\ At(c, "stop") /\ Answers
    /\ IF Alive
       THEN port' = [port EXCEPT !.draining = TRUE] /\ GoTo(c, "stopping") /\ UNCHANGED guard
       ELSE AfterStop(c) /\ UNCHANGED port
    /\ UNCHANGED <<session, syncing, disk, restarting, children>>

StopReturns(c) ==
    /\ At(c, "stopping") /\ port = NoDaemon
    /\ AfterStop(c)
    /\ UNCHANGED <<session, syncing, disk, restarting, children, port>>

(* The tool outlasts the 15 s of execFile: a restart ends without a start.   *)
StopFails(c) ==
    /\ At(c, "stopping")
    /\ IF calls[c].goal = "remove" THEN GoTo(c, "verify") /\ guard' = FALSE ELSE Finish(c)
    /\ UNCHANGED <<session, syncing, disk, restarting, children, port>>

(* A change of the agent runner or of the network mode.                      *)
restartDaemonIfAlive(c) ==
    /\ Idle(c) /\ Alive
    /\ Begin(c, "stop", "restart")
    /\ UNCHANGED <<session, guard, syncing, disk, restarting, children, port>>

(* The interface's handlers.  A call that meets the guard returns an error.  *)
Press(c, goal) ==
    /\ session # None /\ Idle(c) /\ ~guard
    /\ guard' = TRUE
    /\ Begin(c, IF goal = "start" THEN "start" ELSE "stop", goal)
    /\ UNCHANGED <<session, syncing, disk, restarting, children, port>>

(* stopDaemonForRemoval polls until the daemon is gone or 10 s have passed.  *)
ReportStopped(c) ==
    /\ At(c, "verify") /\ Answers /\ ~Alive
    /\ Put(c, Resting)
    /\ UNCHANGED <<session, guard, syncing, disk, restarting, children, port>>

ReportNotStopped(c) ==
    /\ At(c, "verify") /\ Alive
    /\ Put(c, Resting)
    /\ UNCHANGED <<session, guard, syncing, disk, restarting, children, port>>
-----------------------------------------------------------------------------
(* The daemon process                                                        *)

(* MUTANT: whoever calls listens, with or without a process.                 *)
listenHealthAlways(c) ==
    /\ children' = [children EXCEPT ![c] = None]
    /\ port' = IF port = NoDaemon
               THEN [NoDaemon EXCEPT !.phase = "bound", !.packages = children[c]]
               ELSE port
    /\ UNCHANGED <<session, guard, calls, syncing, disk, restarting>>

(* listenHealth, then resolveAuth, then serveHealth.                         *)
listenHealth(c) ==
    /\ children[c] # None
    /\ children' = [children EXCEPT ![c] = None]
    /\ port' = IF port = NoDaemon
               THEN [NoDaemon EXCEPT !.phase = "bound", !.packages = children[c]]
               ELSE port
    /\ UNCHANGED <<session, guard, calls, syncing, disk, restarting>>

resolveAuth ==
    /\ port.phase = "bound"
    /\ port' = IF profile.token = None THEN NoDaemon
               ELSE [port EXCEPT !.phase = "starting", !.token = profile.token,
                                      !.stray = /\ profile.user # profile.token
                                                /\ ~\E l \in Logins : At(l, "record") /\ syncing[l].user = profile.token]
    /\ UNCHANGED <<session, guard, calls, syncing, disk, restarting, children>>

Ready ==
    /\ port.phase = "starting"
    /\ port' = [port EXCEPT !.phase = "running"]
    /\ UNCHANGED <<session, guard, calls, syncing, disk, restarting, children>>

TaskBegins ==
    /\ port.phase = "running" /\ ~port.draining /\ ~port.busy
    /\ port' = [port EXCEPT !.busy = TRUE]
    /\ UNCHANGED <<session, guard, calls, syncing, disk, restarting, children>>

TaskEnds ==
    /\ port.busy
    /\ port' = [port EXCEPT !.busy = FALSE]
    /\ UNCHANGED <<session, guard, calls, syncing, disk, restarting, children>>

(* Run returns when it was asked to and its tasks ended; a process may also  *)
(* die, fail in preflightAuth or give up on its tasks.                       *)
Exit ==
    /\ port # NoDaemon
    /\ port' = NoDaemon
    /\ UNCHANGED <<session, guard, calls, syncing, disk, restarting, children>>
-----------------------------------------------------------------------------
(* Packages                                                                  *)

(* A provisioning pass swaps packages; it calls the hook when it ends.       *)
Install ==
    /\ packages < MaxPackages
    /\ packages' = packages + 1
    /\ UNCHANGED <<session, guard, calls, syncing, profile, restarting, children, port>>

(* settleProvisioningRestartPending joins a call in flight.                  *)
Settle == IF Idle("packages") THEN Begin("packages", "settle", "restart") ELSE UNCHANGED calls

(* MUTANT: a notification that meets a call in flight counts as that call's.  *)
notifyUnlessInFlight ==
    /\ announced < packages
    /\ announced' = packages
    /\ IF Idle("packages") THEN pending' = TRUE /\ Settle ELSE UNCHANGED <<pending, calls>>
    /\ UNCHANGED <<session, guard, syncing, disk, forgotten, children, port>>

notifyProvisioningPackagesChanged ==
    /\ announced < packages
    /\ announced' = packages
    /\ pending' = TRUE
    /\ Settle
    /\ UNCHANGED <<session, guard, syncing, disk, forgotten, children, port>>

(* provisioning:restart-now, offered while a restart is pending.             *)
requestProvisioningRestartNow ==
    /\ pending /\ Idle("packages")
    /\ Settle
    /\ UNCHANGED <<session, guard, syncing, disk, restarting, children, port>>

pollOnce ==
    /\ pending /\ port.phase = "running" /\ Idle("packages")
    /\ Settle
    /\ UNCHANGED <<session, guard, syncing, disk, restarting, children, port>>

(* A start under way took its environment before the packages changed.       *)
StaleStart ==
    \/ \E c \in Caller : \/ At(c, "exec") /\ calls[c].env < announced
                        \/ children[c] \in 0..announced - 1
    \/ port.phase = "starting" /\ port.packages < announced

(* Any daemon that does not report running counts as none.                   *)
ensureProvisioningRestartIfNeeded ==
    /\ At("packages", "settle") /\ Answers
    /\ \/ /\ port.phase # "running"      \* not_running
          /\ pending' = FALSE
          /\ Finish("packages")
          /\ forgotten' = IF StaleStart THEN announced ELSE forgotten
       \/ /\ port.phase = "running" /\ port.busy      \* defer
          /\ Finish("packages")
          /\ UNCHANGED <<pending, forgotten>>
       \/ /\ port.phase = "running" /\ ~port.busy     \* restart
          /\ pending' = FALSE
          /\ GoTo("packages", "stop")
          /\ forgotten' = IF StaleStart THEN announced ELSE forgotten
          /\ UNCHANGED guard
    /\ UNCHANGED <<session, syncing, disk, announced, children, port>>
-----------------------------------------------------------------------------
(* Login, logout and the end of the application                              *)

(* The window starts syncToken and autoStart at every change of its user and *)
(* awaits no earlier call: a slow login may overlap the one after it.        *)
Login(l, u) ==
    /\ Idle(l)
    /\ session' = u
    /\ syncing' = [syncing EXCEPT ![l] = [NoSync EXCEPT !.user = u]]
    /\ Begin(l, "sync", "start")
    /\ UNCHANGED <<guard, disk, restarting, children, port>>

(* syncToken reads the config, then the recorded user: the token in the      *)
(* config counts as cached if the recorded user is the one who logs in.      *)
syncToken(l) ==
    /\ \/ At(l, "sync") /\ GoTo(l, "read") /\ syncing' = [syncing EXCEPT ![l].cached = profile.token]
       \/ /\ At(l, "read") /\ GoTo(l, "mint")
          /\ syncing' = [syncing EXCEPT ![l].changed = profile.user \notin {None, syncing[l].user},
                                        ![l].cached = IF profile.user = syncing[l].user THEN @ ELSE None]
    /\ UNCHANGED <<session, guard, disk, restarting, children, port>>

(* No token is minted if one is cached or the window's own is a PAT already. *)
mintPat(l) ==
    /\ At(l, "mint")
    /\ \/ GoTo(l, "write") /\ UNCHANGED syncing
       \/ /\ syncing[l].cached = None
          /\ Put(l, Resting) /\ syncing' = [syncing EXCEPT ![l] = NoSync]
    /\ UNCHANGED <<session, guard, disk, restarting, children, port>>

(* A cached token is written back as it was read, whoever owns it.           *)
writeProfileConfig(l) ==
    /\ At(l, "write")
    /\ \E token \in {syncing[l].user, syncing[l].cached} \ {None} :
          profile' = [profile EXCEPT !.token = token]
    /\ GoTo(l, "record")
    /\ UNCHANGED <<session, guard, syncing, packages, restarting, children, port>>

(* The check of a running daemon goes by the user who was recorded when the  *)
(* call began, not by the one it now replaces.                               *)
writeProfileUserId(l) ==
    /\ At(l, "record")
    /\ profile' = [profile EXCEPT !.user = syncing[l].user]
    /\ GoTo(l, IF syncing[l].changed THEN "check" ELSE "auto")
    /\ port' = IF /\ port # NoDaemon /\ ~syncing[l].changed
                  /\ profile.user \notin {None, syncing[l].user}
               THEN [port EXCEPT !.stray = TRUE] ELSE port
    /\ syncing' = [syncing EXCEPT ![l] = NoSync]
    /\ UNCHANGED <<session, guard, packages, restarting, children>>

(* MUTANT: only a daemon that reports running is restarted.                  *)
RestartOnUserSwitchRunning(l) ==
    /\ At(l, "check") /\ Answers
    /\ IF port.phase = "running"
       THEN \E c \in Switches :
              /\ Idle(c)
              /\ calls' = [calls EXCEPT ![l].at = "auto",
                                        ![c] = [at |-> "stop", goal |-> "restart", env |-> 0]]
       ELSE GoTo(l, "auto")
    /\ UNCHANGED <<session, guard, syncing, disk, restarting, children, port>>

(* The restart after a change of the user is not awaited.                    *)
RestartOnUserSwitch(l) ==
    /\ At(l, "check") /\ Answers
    /\ IF Alive
       THEN \E c \in Switches :
              /\ Idle(c)
              /\ calls' = [calls EXCEPT ![l].at = "auto",
                                        ![c] = [at |-> "stop", goal |-> "restart", env |-> 0]]
       ELSE GoTo(l, "auto")
    /\ UNCHANGED <<session, guard, syncing, disk, restarting, children, port>>

autoStart(l) ==
    /\ At(l, "auto") /\ Answers
    /\ IF port.phase = "running" THEN Finish(l)
       ELSE GoTo(l, "start") /\ UNCHANGED guard
    /\ UNCHANGED <<session, syncing, disk, restarting, children, port>>

Logout(c) ==
    /\ session # None /\ Idle(c)
    /\ session' = None
    /\ Begin(c, "clear", "stop")
    /\ UNCHANGED <<guard, syncing, disk, restarting, children, port>>

(* clearToken writes the config only if it read a token in it.               *)
clearToken(c) ==
    /\ \/ At(c, "clear") /\ GoTo(c, IF profile.token = None THEN "forget" ELSE "drop") /\ UNCHANGED profile
       \/ At(c, "drop") /\ profile' = [profile EXCEPT !.token = None] /\ GoTo(c, "forget")
       \/ At(c, "forget") /\ profile' = [profile EXCEPT !.user = None] /\ GoTo(c, "ask")
    /\ UNCHANGED <<session, guard, syncing, packages, restarting, children, port>>

(* The logout's stop is refused while another call holds the guard.          *)
withGuard(c) ==
    /\ At(c, "ask")
    /\ IF guard
       THEN /\ Put(c, Resting)
            /\ port' = IF port = NoDaemon THEN port ELSE [port EXCEPT !.stray = TRUE]
            /\ UNCHANGED guard
       ELSE guard' = TRUE /\ GoTo(c, "stop") /\ UNCHANGED port
    /\ UNCHANGED <<session, syncing, disk, restarting, children>>

(* A login that stands between the daemon on the port and a wrong record: it *)
(* has its check ahead, or is about to record the owner of the daemon's      *)
(* token.                                                                    *)
Mending(l) ==
    \/ At(l, "check")
    \/ At(l, "record") /\ (syncing[l].changed \/ syncing[l].user = port.token)

(* The application ends, the daemon stays; the next launch signs the user in *)
(* again, or out when the token was dropped meanwhile.  Bound: not while the *)
(* command line tool is about to start a daemon.                             *)
Relaunch ==
    /\ Relaunches
    /\ \A c \in Caller : ~At(c, "exec")
    /\ session' \in {session, None}
    /\ \E c \in IF session' = None THEN Logouts ELSE Logins :
          /\ calls' = [d \in Caller |-> IF d # c THEN Resting
                                        ELSE IF session' = None THEN [Resting EXCEPT !.at = "clear"]
                                        ELSE [Resting EXCEPT !.at = "sync", !.goal = "start"]]
          /\ syncing' = [l \in Logins |-> IF l = c THEN [NoSync EXCEPT !.user = session'] ELSE NoSync]
    /\ guard' = FALSE /\ pending' = FALSE
    /\ announced' = packages /\ forgotten' = packages
    /\ port' = IF port # NoDaemon /\ ((\E l \in Logins : Mending(l)) \/ StopDue)
               THEN [port EXCEPT !.stray = TRUE] ELSE port
    /\ UNCHANGED <<disk, children>>

Next ==
    \/ \E c \in Caller : \/ startDaemon(c) \/ runDaemonBackground(c) \/ StartReturns(c)
                         \/ stopDaemon(c) \/ StopReturns(c) \/ StopFails(c) \/ listenHealth(c)
    \/ \E c \in Buttons : \/ \E goal \in Goal : Press(c, goal)
                          \/ ReportStopped(c) \/ ReportNotStopped(c)
    \/ \E c \in Changes : restartDaemonIfAlive(c)
    \/ resolveAuth \/ Ready \/ TaskBegins \/ TaskEnds \/ Exit
    \/ Install \/ notifyProvisioningPackagesChanged \/ requestProvisioningRestartNow
    \/ pollOnce \/ ensureProvisioningRestartIfNeeded
    \/ \E l \in Logins : \/ \E u \in User : Login(l, u)
                         \/ syncToken(l) \/ mintPat(l) \/ writeProfileConfig(l)
                         \/ writeProfileUserId(l) \/ RestartOnUserSwitch(l) \/ autoStart(l)
    \/ \E c \in Logouts : Logout(c) \/ clearToken(c) \/ withGuard(c)
    \/ Relaunch

Spec == Init /\ [][Next]_vars
-----------------------------------------------------------------------------
Serving == Alive /\ ~port.draining

(* The user recorded in the profile is the user whose token the daemon runs  *)
(* with: while the two differ, a login has its check ahead or is about to    *)
(* record the daemon's own user, or a stop is due.  The exceptions are marks *)
(* of the daemon: a logout's stop met the guard, the application ended       *)
(* before the stop, the daemon read a token whose owner was not recorded, or *)
(* an overtaken login recorded its user without a check.  It rests on the    *)
(* orders of writeProfileConfig before fetchHealth and of listenHealth       *)
(* before resolveAuth.                                                       *)
SwitchReachesDaemon ==
    Serving /\ profile.user \notin {None, port.token}
        => (\E l \in Logins : Mending(l)) \/ StopDue \/ port.stray

(* While a daemon runs with the environment of older packages its restart is *)
(* pending or about to stop it, unless the manager decided while a start was *)
(* under way or the application ended.  A notification that joins a restart  *)
(* in flight is not lost with it.                                            *)
PackagesRemembered ==
    Serving /\ port.packages < announced
        => pending \/ At("packages", "stop") \/ announced <= forgotten
=============================================================================
