------------------------ MODULE DaemonManagerProofs ------------------------
(* Proofs about DaemonManager, for any number of users, package changes and  *)
(* calls under way at once.                                                  *)
EXTENDS DaemonManager, TLAPS

(* A login that will restart the daemon or records its owner, or a stop.     *)
Due == StopDue \/ \E l \in Logins : Mending(l)

(* Whoever serves has the token of the recorded user, or a step is due.      *)
OwnerInv ==
    /\ Alive => port.token # None
    /\ Serving /\ ~port.stray /\ port.token # profile.user => Due

(* The environment of older packages, on its way from a start to a serving   *)
(* daemon, is known to the manager.                                          *)
Known == pending \/ announced <= forgotten

EnvironmentInv ==
    /\ announced <= packages
    /\ \A c \in Caller : At(c, "exec") /\ calls[c].env < announced => Known
    /\ \A c \in Caller : children[c] # None /\ children[c] < announced => Known
    /\ port.phase \in {"bound", "starting"} /\ port.packages < announced => Known
    /\ port.phase = "running" /\ ~port.draining /\ port.packages < announced
         => Known \/ At("packages", "stop")

(* The steps that leave every call but one as it is.                         *)
Only(c) == \A d \in Caller : d # c => calls'[d] = calls[d]

CommandStep(c) ==
    \/ startDaemon(c) \/ runDaemonBackground(c) \/ StartReturns(c)
    \/ stopDaemon(c) \/ StopReturns(c) \/ StopFails(c)

ButtonStep(c) == (\E goal \in Goal : Press(c, goal)) \/ ReportStopped(c) \/ ReportNotStopped(c)

LoginStep(l) ==
    \/ \E u \in User : Login(l, u)
    \/ syncToken(l) \/ mintPat(l) \/ writeProfileConfig(l) \/ writeProfileUserId(l) \/ autoStart(l)

LogoutStep(c) == Logout(c) \/ clearToken(c) \/ withGuard(c)

PackagesStep ==
    \/ notifyProvisioningPackagesChanged \/ requestProvisioningRestartNow
    \/ pollOnce \/ ensureProvisioningRestartIfNeeded

OneCall(c) ==
    \/ CommandStep(c)
    \/ c \in Buttons /\ ButtonStep(c)
    \/ c \in Changes /\ restartDaemonIfAlive(c)
    \/ c \in Logins /\ LoginStep(c)
    \/ c \in Logouts /\ LogoutStep(c)
    \/ c = "packages" /\ PackagesStep

DaemonStep == resolveAuth \/ Ready \/ TaskBegins \/ TaskEnds \/ Exit

Port == [phase : {"none", "bound", "starting", "running"}, token : User \cup {None},
         packages : 0..MaxPackages, draining : BOOLEAN, busy : BOOLEAN, stray : BOOLEAN]

Sync == [user : User \cup {None}, changed : BOOLEAN, cached : User \cup {None}]
-----------------------------------------------------------------------------
(* A call is put where it belongs and the others stay.                       *)
LEMMA PutCall ==
    ASSUME calls \in [Caller -> Call], NEW c \in Caller, NEW call \in Call, Put(c, call)
    PROVE  /\ calls' \in [Caller -> Call]
           /\ calls'[c] = call
           /\ \A d \in Caller : d # c => calls'[d] = calls[d]
BY DEF Put

LEMMA RestingCall == Resting \in Call /\ Resting.at = "idle" /\ Resting.env = 0
<1>1. 0 \in 0..MaxPackages
  BY DaemonManagerAssumption
<1> QED  BY <1>1 DEF Resting, Call, Step, Goal

LEMMA GoToCall ==
    ASSUME calls \in [Caller -> Call], NEW c \in Caller, NEW step \in Step, GoTo(c, step)
    PROVE  /\ calls' \in [Caller -> Call]
           /\ calls'[c].at = step
           /\ \A d \in Caller : d # c => calls'[d] = calls[d]
<1>1. calls[c] \in Call /\ [calls[c] EXCEPT !.at = step] \in Call
  BY DEF Call
<1>2. Put(c, [calls[c] EXCEPT !.at = step])
  BY DEF GoTo
<1>3. [calls[c] EXCEPT !.at = step].at = step
  BY <1>1 DEF Call
<1> QED  BY <1>1, <1>2, <1>3, PutCall

LEMMA BeginCall ==
    ASSUME calls \in [Caller -> Call], NEW c \in Caller, NEW step \in Step, NEW goal \in Goal,
           Begin(c, step, goal)
    PROVE  /\ calls' \in [Caller -> Call]
           /\ calls'[c].at = step
           /\ \A d \in Caller : d # c => calls'[d] = calls[d]
<1>1. [at |-> step, goal |-> goal, env |-> 0] \in Call
  BY DaemonManagerAssumption DEF Call
<1> QED  BY <1>1, PutCall DEF Begin

LEMMA FinishCall ==
    ASSUME calls \in [Caller -> Call], guard \in BOOLEAN, NEW c \in Caller, Finish(c)
    PROVE  /\ calls' \in [Caller -> Call] /\ guard' \in BOOLEAN
           /\ calls'[c].at = "idle"
           /\ \A d \in Caller : d # c => calls'[d] = calls[d]
<1>1. calls' \in [Caller -> Call] /\ calls'[c] = Resting /\ \A d \in Caller : d # c => calls'[d] = calls[d]
  BY PutCall, RestingCall DEF Finish
<1>2. guard' \in BOOLEAN
  BY DEF Finish
<1> QED  BY <1>1, <1>2, RestingCall

LEMMA AfterStopCall ==
    ASSUME calls \in [Caller -> Call], guard \in BOOLEAN, NEW c \in Caller, AfterStop(c)
    PROVE  /\ calls' \in [Caller -> Call] /\ guard' \in BOOLEAN
           /\ calls'[c].at \in {"start", "verify", "idle"}
           /\ \A d \in Caller : d # c => calls'[d] = calls[d]
<1>1. "start" \in Step /\ "verify" \in Step
  BY DEF Step
<1>2. CASE GoTo(c, "start") /\ UNCHANGED guard
  BY <1>1, <1>2, GoToCall
<1>3. CASE GoTo(c, "verify") /\ guard' = FALSE
  BY <1>1, <1>3, GoToCall
<1>4. CASE Finish(c)
  BY <1>4, FinishCall
<1> QED  BY <1>2, <1>3, <1>4 DEF AfterStop

(* What one call does to the calls.                                          *)
LEMMA CallStep ==
    ASSUME DaemonManagerTypeOK, NEW c \in Caller,
           \/ \E step \in Step \ {"exec"} : GoTo(c, step) /\ guard' \in BOOLEAN
           \/ \E step \in Step \ {"exec"}, goal \in Goal : Begin(c, step, goal) /\ guard' \in BOOLEAN
           \/ Finish(c)
           \/ AfterStop(c)
           \/ \E call \in Call : call.at # "exec" /\ Put(c, call) /\ guard' \in BOOLEAN
    PROVE  /\ calls' \in [Caller -> Call] /\ guard' \in BOOLEAN
           /\ Only(c) /\ calls'[c].at # "exec"
<1>. calls \in [Caller -> Call] /\ guard \in BOOLEAN
  BY DEF DaemonManagerTypeOK
<1>1. CASE \E step \in Step \ {"exec"} : GoTo(c, step) /\ guard' \in BOOLEAN
  BY <1>1, GoToCall DEF Only
<1>2. CASE \E step \in Step \ {"exec"}, goal \in Goal : Begin(c, step, goal) /\ guard' \in BOOLEAN
  BY <1>2, BeginCall DEF Only
<1>3. CASE Finish(c)
  BY <1>3, FinishCall DEF Only
<1>4. CASE AfterStop(c)
  BY <1>4, AfterStopCall DEF Only
<1>5. CASE \E call \in Call : call.at # "exec" /\ Put(c, call) /\ guard' \in BOOLEAN
  BY <1>5, PutCall DEF Only
<1> QED  BY <1>1, <1>2, <1>3, <1>4, <1>5

(* The slots of a call.                                                      *)
LEMMA Slots ==
    /\ "packages" \in Caller
    /\ Buttons \subseteq Caller /\ Logins \subseteq Caller /\ Logouts \subseteq Caller
    /\ Switches \subseteq Caller /\ Changes \subseteq Caller
BY DEF Caller

(* A call about to run the command line tool carries the environment of now. *)
LEMMA ExecCall ==
    ASSUME DaemonManagerTypeOK, NEW c \in Caller
    PROVE  /\ [calls[c] EXCEPT !.at = "exec", !.env = packages] \in Call
           /\ [calls[c] EXCEPT !.at = "exec", !.env = packages].at = "exec"
           /\ [calls[c] EXCEPT !.at = "exec", !.env = packages].env = packages
           /\ [calls[c] EXCEPT !.at = "ready", !.env = 0] \in Call
           /\ [calls[c] EXCEPT !.at = "ready", !.env = 0].at = "ready"
<1>1. calls[c] \in Call /\ packages \in 0..MaxPackages /\ 0 \in 0..MaxPackages
  BY DaemonManagerAssumption DEF DaemonManagerTypeOK
<1>2. "exec" \in Step /\ "ready" \in Step
  BY DEF Step
<1> QED  BY <1>1, <1>2 DEF Call

(* The restart of a user switch puts two calls in place.                     *)
LEMMA SwitchCalls ==
    ASSUME DaemonManagerTypeOK, NEW l \in Logins, RestartOnUserSwitch(l)
    PROVE  /\ calls' \in [Caller -> Call]
           /\ \A d \in Caller : calls'[d].at = "exec" => calls'[d] = calls[d]
           /\ calls'["packages"] = calls["packages"]
           /\ ~Alive \/ \E c \in Caller : calls'[c].at = "stop"
<1>. calls \in [Caller -> Call] /\ l \in Caller /\ l # "packages"
  BY Slots, DaemonManagerAssumption DEF DaemonManagerTypeOK
<1>. "packages" \in Caller /\ Switches \subseteq Caller
  BY Slots
<1>1. CASE ~Alive
  <2>1. GoTo(l, "auto")
    BY <1>1 DEF RestartOnUserSwitch
  <2>2. "auto" \in Step
    BY DEF Step
  <2> QED  BY <1>1, <2>1, <2>2, GoToCall
<1>2. CASE Alive
  <2> DEFINE restart == [at |-> "stop", goal |-> "restart", env |-> 0]
  <2>1. PICK c \in Switches : calls' = [calls EXCEPT ![l].at = "auto", ![c] = restart]
    BY <1>2 DEF RestartOnUserSwitch
  <2>2. restart \in Call /\ restart.at = "stop"
    BY DaemonManagerAssumption DEF Call, Step, Goal
  <2>3. c \in Caller /\ c # l /\ c # "packages"
    BY DaemonManagerAssumption, Slots
  <2>4. [calls[l] EXCEPT !.at = "auto"] \in Call /\ [calls[l] EXCEPT !.at = "auto"].at = "auto"
    BY DEF Call, Step
  <2> HIDE DEF restart
  <2>5. /\ calls' \in [Caller -> Call]
        /\ calls'[c] = restart /\ calls'[l] = [calls[l] EXCEPT !.at = "auto"]
        /\ \A d \in Caller : d # c /\ d # l => calls'[d] = calls[d]
    BY <2>1, <2>2, <2>3, <2>4
  <2> QED  BY <2>2, <2>3, <2>4, <2>5
<1> QED  BY <1>1, <1>2

(* A new launch has one call, and it is at its first step.                   *)
LEMMA RelaunchCalls ==
    ASSUME DaemonManagerTypeOK, Relaunch
    PROVE  /\ calls' \in [Caller -> Call] /\ syncing' \in [Logins -> Sync]
           /\ \A d \in Caller : calls'[d].at # "exec"
<1>1. session' \in User \cup {None}
  BY DEF Relaunch, DaemonManagerTypeOK
<1>2. /\ Resting \in Call /\ Resting.at # "exec"
      /\ [Resting EXCEPT !.at = "clear"] \in Call /\ [Resting EXCEPT !.at = "clear"].at # "exec"
      /\ [Resting EXCEPT !.at = "sync", !.goal = "start"] \in Call
      /\ [Resting EXCEPT !.at = "sync", !.goal = "start"].at # "exec"
  BY RestingCall DEF Resting, Call, Step, Goal
<1>3. NoSync \in Sync /\ [NoSync EXCEPT !.user = session'] \in Sync
  BY <1>1 DEF NoSync, Sync
<1>4. PICK c \in IF session' = None THEN Logouts ELSE Logins :
          /\ calls' = [d \in Caller |-> IF d # c THEN Resting
                                        ELSE IF session' = None THEN [Resting EXCEPT !.at = "clear"]
                                        ELSE [Resting EXCEPT !.at = "sync", !.goal = "start"]]
          /\ syncing' = [l \in Logins |-> IF l = c THEN [NoSync EXCEPT !.user = session'] ELSE NoSync]
  BY DEF Relaunch
<1>5. syncing' \in [Logins -> Sync]
  BY <1>3, <1>4
<1>6. calls' \in [Caller -> Call] /\ \A d \in Caller : calls'[d].at # "exec"
  BY <1>2, <1>4
<1> QED  BY <1>5, <1>6

(* A step of one call keeps the calls well formed, touches no other call and  *)
(* hands on the environment of now.                                          *)
LEMMA OneCallMoves ==
    ASSUME DaemonManagerTypeOK, NEW c \in Caller, OneCall(c)
    PROVE  /\ calls' \in [Caller -> Call] /\ guard' \in BOOLEAN
           /\ Only(c)
           /\ calls'[c].at = "exec" => calls'[c].env = packages \/ calls'[c] = calls[c]
<1>. guard \in BOOLEAN /\ calls \in [Caller -> Call]
  BY DEF DaemonManagerTypeOK
<1>. Resting \in Call /\ Resting.at # "exec"
  BY RestingCall
<1>1. CASE startDaemon(c) /\ ~Alive
  <2> DEFINE call == [calls[c] EXCEPT !.at = "exec", !.env = packages]
  <2>1. call \in Call /\ call.at = "exec" /\ call.env = packages
    BY ExecCall
  <2>2. Put(c, call) /\ UNCHANGED guard
    BY <1>1 DEF startDaemon
  <2> HIDE DEF call
  <2> QED  BY <2>1, <2>2, PutCall DEF Only
<1>2. CASE startDaemon(c) /\ Alive
  BY <1>2, CallStep DEF startDaemon
<1>3. CASE runDaemonBackground(c)
  <2>1. CASE Finish(c)
    BY <2>1, CallStep
  <2>2. CASE ~Finish(c)
    <3> DEFINE call == [calls[c] EXCEPT !.at = "ready", !.env = 0]
    <3>1. call \in Call /\ call.at = "ready"
      BY ExecCall
    <3>2. Put(c, call) /\ UNCHANGED guard
      BY <1>3, <2>2 DEF runDaemonBackground
    <3> HIDE DEF call
    <3> QED  BY <3>1, <3>2, CallStep
  <2> QED  BY <2>1, <2>2
<1>4. CASE StartReturns(c)
  BY <1>4, CallStep DEF StartReturns
<1>5. CASE stopDaemon(c)
  BY <1>5, CallStep DEF stopDaemon, Step
<1>6. CASE StopReturns(c)
  BY <1>6, CallStep DEF StopReturns
<1>7. CASE StopFails(c)
  BY <1>7, CallStep DEF StopFails, Step
<1>8. CASE ButtonStep(c)
  <2>1. ASSUME NEW goal \in Goal, Press(c, goal)  PROVE \E step \in Step \ {"exec"} : Begin(c, step, goal) /\ guard' \in BOOLEAN
    <3>1. (IF goal = "start" THEN "start" ELSE "stop") \in Step \ {"exec"}
      BY DEF Step
    <3> QED  BY <2>1, <3>1 DEF Press
  <2>2. CASE ReportStopped(c) \/ ReportNotStopped(c)
    BY <2>2, CallStep DEF ReportStopped, ReportNotStopped
  <2> QED  BY <1>8, <2>1, <2>2, CallStep DEF ButtonStep
<1>9. CASE restartDaemonIfAlive(c)
  BY <1>9, CallStep DEF restartDaemonIfAlive, Step, Goal
<1>10. CASE c \in Logins /\ LoginStep(c)
  <2>1. ASSUME NEW u \in User, Login(c, u)  PROVE \E step \in Step \ {"exec"}, goal \in Goal : Begin(c, step, goal) /\ guard' \in BOOLEAN
    BY <2>1 DEF Login, Step, Goal
  <2>2. CASE syncToken(c)
    BY <2>2, CallStep DEF syncToken, Step
  <2>3. CASE mintPat(c)
    BY <2>3, CallStep DEF mintPat, Step
  <2>4. CASE writeProfileConfig(c)
    BY <2>4, CallStep DEF writeProfileConfig, Step
  <2>5. CASE writeProfileUserId(c)
    BY <2>5, CallStep DEF writeProfileUserId, Step
  <2>6. CASE autoStart(c)
    BY <2>6, CallStep DEF autoStart, Step
  <2> QED  BY <1>10, <2>1, <2>2, <2>3, <2>4, <2>5, <2>6, CallStep DEF LoginStep
<1>11. CASE c \in Logouts /\ LogoutStep(c)
  <2>1. CASE Logout(c)
    BY <2>1, CallStep DEF Logout, Step, Goal
  <2>2. CASE clearToken(c)
    BY <2>2, CallStep DEF clearToken, Step
  <2>3. CASE withGuard(c)
    BY <2>3, CallStep DEF withGuard, Step
  <2> QED  BY <1>11, <2>1, <2>2, <2>3 DEF LogoutStep
<1>12. CASE c = "packages" /\ PackagesStep
  <2>1. Begin(c, "settle", "restart") \/ UNCHANGED calls \/ Finish(c) \/ GoTo(c, "stop")
    BY <1>12 DEF PackagesStep, notifyProvisioningPackagesChanged, requestProvisioningRestartNow,
       pollOnce, ensureProvisioningRestartIfNeeded, Settle
  <2>2. UNCHANGED guard \/ Finish(c)
    BY <1>12 DEF PackagesStep, notifyProvisioningPackagesChanged, requestProvisioningRestartNow,
       pollOnce, ensureProvisioningRestartIfNeeded
  <2>3. CASE UNCHANGED calls
    <3>1. guard' \in BOOLEAN
      BY <2>2 DEF Finish
    <3> QED  BY <2>3, <3>1 DEF Only
  <2>4. CASE Finish(c)
    BY <2>4, CallStep
  <2>5. CASE ~Finish(c) /\ ~UNCHANGED calls
    BY <2>1, <2>2, <2>5, CallStep DEF Step, Goal
  <2> QED  BY <2>3, <2>4, <2>5
<1> QED  BY <1>1, <1>2, <1>3, <1>4, <1>5, <1>6, <1>7, <1>8, <1>9, <1>10, <1>11, <1>12
         DEF OneCall, CommandStep

(* Every step is a step of one call, of the daemon or of the packages, or    *)
(* the start of a restart by a login.                                        *)
LEMMA Steps ==
    ASSUME Next
    PROVE  \/ \E c \in Caller : OneCall(c)
           \/ DaemonStep \/ Install
           \/ \E c \in Caller : listenHealth(c)
           \/ \E l \in Logins : RestartOnUserSwitch(l)
           \/ Relaunch
<1>. "packages" \in Caller /\ Buttons \subseteq Caller /\ Logins \subseteq Caller
       /\ Logouts \subseteq Caller /\ Changes \subseteq Caller
  BY Slots
<1>1. ASSUME NEW c \in Caller, CommandStep(c)  PROVE OneCall(c)
  BY <1>1 DEF OneCall
<1>2. ASSUME NEW c \in Buttons, ButtonStep(c)  PROVE OneCall(c)
  BY <1>2 DEF OneCall
<1>3. ASSUME NEW c \in Changes, restartDaemonIfAlive(c)  PROVE OneCall(c)
  BY <1>3 DEF OneCall
<1>4. ASSUME NEW c \in Logins, LoginStep(c)  PROVE OneCall(c)
  BY <1>4 DEF OneCall
<1>5. ASSUME NEW c \in Logouts, LogoutStep(c)  PROVE OneCall(c)
  BY <1>5 DEF OneCall
<1>6. PackagesStep => OneCall("packages")
  BY DEF OneCall
<1>7. \/ \E c \in Caller : CommandStep(c) \/ listenHealth(c)
      \/ \E c \in Buttons : ButtonStep(c)
      \/ \E c \in Changes : restartDaemonIfAlive(c)
      \/ DaemonStep \/ Install \/ PackagesStep
      \/ \E l \in Logins : LoginStep(l) \/ RestartOnUserSwitch(l)
      \/ \E c \in Logouts : LogoutStep(c)
      \/ Relaunch
  BY DEF Next, CommandStep, ButtonStep, DaemonStep, PackagesStep, LoginStep, LogoutStep
<1> QED  BY <1>1, <1>2, <1>3, <1>4, <1>5, <1>6, <1>7

LEMMA NoDaemonPort == NoDaemon \in Port /\ NoSync \in Sync
<1>1. 0 \in 0..MaxPackages
  BY DaemonManagerAssumption
<1> QED  BY <1>1 DEF NoDaemon, NoSync, Port, Sync

(* Every step keeps the types.                                               *)
LEMMA TypeStep ==
    ASSUME DaemonManagerTypeOK, Next
    PROVE  DaemonManagerTypeOK'
<1>. /\ session \in User \cup {None} /\ port \in Port /\ syncing \in [Logins -> Sync]
     /\ profile \in [token : User \cup {None}, user : User \cup {None}]
     /\ calls \in [Caller -> Call] /\ children \in [Caller -> 0..MaxPackages \cup {None}]
     /\ pending \in BOOLEAN /\ packages \in 0..MaxPackages
     /\ announced \in 0..MaxPackages /\ forgotten \in 0..MaxPackages
  BY DEF DaemonManagerTypeOK, Port, Sync
<1>. NoDaemon \in Port /\ NoSync \in Sync
  BY NoDaemonPort
<1>1. ASSUME NEW c \in Caller, OneCall(c)  PROVE DaemonManagerTypeOK'
  <2>1. calls' \in [Caller -> Call] /\ guard' \in BOOLEAN
    BY <1>1, OneCallMoves
  <2>2. CASE CommandStep(c)
    <3>1. UNCHANGED <<session, syncing, profile, packages, pending, announced, forgotten>>
      BY <2>2 DEF CommandStep, startDaemon, runDaemonBackground, StartReturns, stopDaemon,
         StopReturns, StopFails, disk, restarting
    <3>2. children' \in [Caller -> 0..MaxPackages \cup {None}]
      <4>1. calls[c].env \in 0..MaxPackages
        BY DEF Call
      <4>2. UNCHANGED children \/ children' = [children EXCEPT ![c] = calls[c].env]
        BY <2>2 DEF CommandStep, startDaemon, runDaemonBackground, StartReturns, stopDaemon,
           StopReturns, StopFails
      <4> QED  BY <4>1, <4>2
    <3>3. port' \in Port
      <4>1. UNCHANGED port \/ port' = [port EXCEPT !.draining = TRUE]
        BY <2>2 DEF CommandStep, startDaemon, runDaemonBackground, StartReturns, stopDaemon,
           StopReturns, StopFails
      <4> QED  BY <4>1 DEF Port
    <3> QED  BY <2>1, <3>1, <3>2, <3>3 DEF DaemonManagerTypeOK, Port, Sync
  <2>3. CASE ButtonStep(c) \/ restartDaemonIfAlive(c)
    <3>1. UNCHANGED <<session, syncing, profile, packages, pending, announced, forgotten, children, port>>
      BY <2>3 DEF ButtonStep, Press, ReportStopped, ReportNotStopped, restartDaemonIfAlive, disk, restarting
    <3> QED  BY <2>1, <3>1 DEF DaemonManagerTypeOK, Port, Sync
  <2>4. CASE c \in Logins /\ LoginStep(c)
    <3>1. UNCHANGED <<packages, pending, announced, forgotten, children>>
      BY <2>4 DEF LoginStep, Login, syncToken, mintPat, writeProfileConfig, writeProfileUserId,
         autoStart, disk, restarting
    <3>2. session' \in User \cup {None}
      BY <2>4 DEF LoginStep, Login, syncToken, mintPat, writeProfileConfig, writeProfileUserId, autoStart
    <3>3. syncing' \in [Logins -> Sync]
      <4>0. syncing[c] \in Sync
        BY <2>4
      <4>1. ASSUME NEW u \in User, Login(c, u)  PROVE syncing' \in [Logins -> Sync]
        <5>1. [NoSync EXCEPT !.user = u] \in Sync
          BY DEF Sync, NoSync
        <5> QED  BY <4>1, <5>1 DEF Login
      <4>2. CASE syncToken(c)
        <5>1. syncing[c].user \in User \cup {None} /\ syncing[c].cached \in User \cup {None}
          BY <4>0 DEF Sync
        <5>2. [syncing[c] EXCEPT !.cached = profile.token] \in Sync
          BY <4>0 DEF Sync
        <5>3. [syncing[c] EXCEPT !.changed = profile.user \notin {None, syncing[c].user},
                                 !.cached = IF profile.user = syncing[c].user THEN @ ELSE None] \in Sync
          <6>1. (profile.user \notin {None, syncing[c].user}) \in BOOLEAN
            OBVIOUS
          <6> QED  BY <4>0, <5>1, <6>1 DEF Sync
        <5> QED  BY <4>2, <5>2, <5>3 DEF syncToken
      <4>3. CASE mintPat(c)
        BY <4>3 DEF mintPat
      <4>4. CASE writeProfileUserId(c)
        BY <4>4 DEF writeProfileUserId
      <4>5. CASE writeProfileConfig(c) \/ autoStart(c)
        BY <4>5 DEF writeProfileConfig, autoStart
      <4> QED  BY <2>4, <4>1, <4>2, <4>3, <4>4, <4>5 DEF LoginStep
    <3>4. profile' \in [token : User \cup {None}, user : User \cup {None}]
      <4>1. syncing[c].user \in User \cup {None} /\ syncing[c].cached \in User \cup {None}
        BY <2>4 DEF Sync
      <4>2. CASE writeProfileConfig(c)
        BY <4>1, <4>2 DEF writeProfileConfig
      <4>3. CASE writeProfileUserId(c)
        BY <4>1, <4>3 DEF writeProfileUserId
      <4>4. CASE ~writeProfileConfig(c) /\ ~writeProfileUserId(c)
        BY <2>4, <4>4 DEF LoginStep, Login, syncToken, mintPat, autoStart, disk
      <4> QED  BY <4>2, <4>3, <4>4
    <3>5. port' \in Port
      <4>1. UNCHANGED port \/ port' = [port EXCEPT !.stray = TRUE]
        BY <2>4 DEF LoginStep, Login, syncToken, mintPat, writeProfileConfig, writeProfileUserId, autoStart
      <4> QED  BY <4>1 DEF Port
    <3> QED  BY <2>1, <3>1, <3>2, <3>3, <3>4, <3>5 DEF DaemonManagerTypeOK, Port, Sync
  <2>5. CASE LogoutStep(c)
    <3>1. UNCHANGED <<syncing, packages, pending, announced, forgotten, children>>
      BY <2>5 DEF LogoutStep, Logout, clearToken, withGuard, disk, restarting
    <3>2. session' \in User \cup {None}
      BY <2>5 DEF LogoutStep, Logout, clearToken, withGuard
    <3>3. profile' \in [token : User \cup {None}, user : User \cup {None}]
      BY <2>5 DEF LogoutStep, Logout, clearToken, withGuard, disk
    <3>4. port' \in Port
      <4>1. UNCHANGED port \/ port' = [port EXCEPT !.stray = TRUE]
        BY <2>5 DEF LogoutStep, Logout, clearToken, withGuard
      <4> QED  BY <4>1 DEF Port
    <3> QED  BY <2>1, <3>1, <3>2, <3>3, <3>4 DEF DaemonManagerTypeOK, Port, Sync
  <2>6. CASE PackagesStep
    <3>1. UNCHANGED <<session, syncing, profile, packages, children, port>>
      BY <2>6 DEF PackagesStep, notifyProvisioningPackagesChanged, requestProvisioningRestartNow,
         pollOnce, ensureProvisioningRestartIfNeeded, disk
    <3>2. pending' \in BOOLEAN /\ announced' \in 0..MaxPackages /\ forgotten' \in 0..MaxPackages
      BY <2>6 DEF PackagesStep, notifyProvisioningPackagesChanged, requestProvisioningRestartNow,
         pollOnce, ensureProvisioningRestartIfNeeded, restarting
    <3> QED  BY <2>1, <3>1, <3>2 DEF DaemonManagerTypeOK, Port, Sync
  <2> QED  BY <1>1, <2>2, <2>3, <2>4, <2>5, <2>6 DEF OneCall
<1>2. CASE DaemonStep
  <2>1. UNCHANGED <<session, guard, calls, syncing, profile, packages, pending, announced, forgotten, children>>
    BY <1>2 DEF DaemonStep, resolveAuth, Ready, TaskBegins, TaskEnds, Exit, disk, restarting
  <2>2. port' \in Port
    <3>1. CASE resolveAuth
      <4> DEFINE stray == /\ profile.user # profile.token
                          /\ ~\E l \in Logins : At(l, "record") /\ syncing[l].user = profile.token
      <4>1. stray \in BOOLEAN
        OBVIOUS
      <4>2. port' = NoDaemon \/ port' = [port EXCEPT !.phase = "starting", !.token = profile.token, !.stray = stray]
        BY <3>1 DEF resolveAuth
      <4> HIDE DEF stray
      <4> QED  BY <4>1, <4>2 DEF Port
    <3>2. CASE Ready \/ TaskBegins \/ TaskEnds \/ Exit
      BY <3>2 DEF Ready, TaskBegins, TaskEnds, Exit, Port
    <3> QED  BY <1>2, <3>1, <3>2 DEF DaemonStep
  <2> QED  BY <2>1, <2>2 DEF DaemonManagerTypeOK, Port, Sync
<1>3. CASE Install
  <2>1. packages' \in 0..MaxPackages
    BY <1>3, DaemonManagerAssumption DEF Install
  <2> QED  BY <1>3, <2>1 DEF Install, DaemonManagerTypeOK, restarting
<1>4. ASSUME NEW c \in Caller, listenHealth(c)  PROVE DaemonManagerTypeOK'
  <2>1. children[c] \in 0..MaxPackages
    BY <1>4 DEF listenHealth
  <2>2. children' \in [Caller -> 0..MaxPackages \cup {None}]
    BY <1>4 DEF listenHealth
  <2>3. port' \in Port
    BY <1>4, <2>1 DEF listenHealth, NoDaemon, Port
  <2> QED  BY <1>4, <2>2, <2>3 DEF listenHealth, DaemonManagerTypeOK, disk, restarting, Port
<1>5. ASSUME NEW l \in Logins, RestartOnUserSwitch(l)  PROVE DaemonManagerTypeOK'
  <2>1. calls' \in [Caller -> Call]
    BY <1>5, SwitchCalls
  <2> QED  BY <1>5, <2>1 DEF RestartOnUserSwitch, DaemonManagerTypeOK, disk, restarting
<1>6. CASE Relaunch
  <2>1. calls' \in [Caller -> Call] /\ syncing' \in [Logins -> Sync]
    BY <1>6, RelaunchCalls
  <2>2. port' \in Port
    <3>1. UNCHANGED port \/ port' = [port EXCEPT !.stray = TRUE]
      BY <1>6 DEF Relaunch
    <3> QED  BY <3>1 DEF Port
  <2> QED  BY <1>6, <2>1, <2>2 DEF Relaunch, DaemonManagerTypeOK, disk, Port, Sync
<1> QED  BY <1>1, <1>2, <1>3, <1>4, <1>5, <1>6, Steps

(* A call that is no stop and no mending login may move: whatever is due      *)
(* stays due.                                                                *)
LEMMA DueStays ==
    ASSUME NEW c \in Caller, Only(c), port'.token = port.token,
           \A l \in Logins : l # c => syncing'[l] = syncing[l],
           calls[c].at \notin {"stop", "ask", "record", "check"}, Due
    PROVE  Due'
<1>1. CASE StopDue
  <2>1. PICK d \in Caller : calls[d].at \in {"stop", "ask"}
    BY <1>1 DEF StopDue
  <2>2. calls'[d].at \in {"stop", "ask"}
    BY <2>1 DEF Only
  <2> QED  BY <2>2 DEF Due, StopDue
<1>2. CASE \E l \in Logins : Mending(l)
  <2>1. PICK l \in Logins : Mending(l)
    BY <1>2
  <2>2. l \in Caller /\ l # c
    BY <2>1, Slots DEF Mending, At
  <2>3. Mending(l)'
    BY <2>1, <2>2 DEF Mending, At, Only
  <2> QED  BY <2>3 DEF Due
<1> QED  BY <1>1, <1>2 DEF Due

(* What a step must keep for the owner to stay known.                        *)
LEMMA OwnerFrame ==
    ASSUME OwnerInv, profile'.user = profile.user,
           Alive' => Alive /\ port'.token = port.token,
           Serving' => Serving /\ (port.stray => port'.stray),
           Due => Due' \/ ~Serving' \/ port'.stray
    PROVE  OwnerInv'
BY DEF OwnerInv, Serving

(* Every step keeps the owner of the daemon known.                           *)
LEMMA OwnerStep ==
    ASSUME DaemonManagerTypeOK, OwnerInv, Next
    PROVE  OwnerInv'
<1>. /\ calls \in [Caller -> Call] /\ port \in Port /\ syncing \in [Logins -> Sync]
     /\ profile \in [token : User \cup {None}, user : User \cup {None}]
  BY DEF DaemonManagerTypeOK, Port, Sync
<1>1. ASSUME NEW c \in Caller, OneCall(c)  PROVE OwnerInv'
  <2>1. Only(c)
    BY <1>1, OneCallMoves
  <2>2. ASSUME UNCHANGED <<profile, port>>, \A l \in Logins : l # c => syncing'[l] = syncing[l],
               calls[c].at \notin {"stop", "ask", "record", "check"}
        PROVE  OwnerInv'
    <3>1. Due => Due'
      BY <2>1, <2>2, DueStays
    <3>2. Serving' = Serving /\ Alive' = Alive
      BY <2>2 DEF Serving, Alive
    <3> QED  BY <2>2, <3>1, <3>2, OwnerFrame
  <2>3. CASE stopDaemon(c)
    <3>1. ~Serving' /\ (Alive' => Alive /\ port'.token = port.token) /\ UNCHANGED profile
      BY <2>3 DEF stopDaemon, Serving, Alive, Port, disk
    <3> QED  BY <3>1, OwnerFrame
  <2>4. CASE CommandStep(c) /\ ~stopDaemon(c)
    <3>1. UNCHANGED <<profile, port, syncing>> /\ calls[c].at \notin {"stop", "ask", "record", "check"}
      BY <2>4 DEF CommandStep, startDaemon, runDaemonBackground, StartReturns, StopReturns, StopFails,
         disk, At
    <3> QED  BY <2>2, <3>1
  <2>5. CASE ButtonStep(c) \/ restartDaemonIfAlive(c)
    <3>1. UNCHANGED <<profile, port, syncing>> /\ calls[c].at \notin {"stop", "ask", "record", "check"}
      BY <2>5 DEF ButtonStep, Press, ReportStopped, ReportNotStopped, restartDaemonIfAlive, disk, At, Idle
    <3> QED  BY <2>2, <3>1
  <2>6. CASE c \in Logins /\ LoginStep(c) /\ ~writeProfileConfig(c) /\ ~writeProfileUserId(c)
    <3>1. UNCHANGED <<profile, port>> /\ calls[c].at \notin {"stop", "ask", "record", "check"}
      BY <2>6 DEF LoginStep, Login, syncToken, mintPat, autoStart, disk, At, Idle
    <3>2. \A l \in Logins : l # c => syncing'[l] = syncing[l]
      BY <2>6 DEF LoginStep, Login, syncToken, mintPat, autoStart
    <3> QED  BY <2>2, <3>1, <3>2
  <2>7. CASE writeProfileConfig(c)
    <3>1. /\ profile'.user = profile.user /\ UNCHANGED <<port, syncing>>
          /\ calls[c].at \notin {"stop", "ask", "record", "check"}
      BY <2>7 DEF writeProfileConfig, At
    <3>2. Due => Due'
      BY <2>1, <3>1, DueStays
    <3>3. Serving' = Serving /\ Alive' = Alive
      BY <3>1 DEF Serving, Alive
    <3> QED  BY <3>1, <3>2, <3>3, OwnerFrame
  <2>8. CASE c \in Logins /\ writeProfileUserId(c)
    <3>1. /\ calls[c].at = "record" /\ profile'.user = syncing[c].user
          /\ UNCHANGED port \/ (port # NoDaemon /\ port' = [port EXCEPT !.stray = TRUE])
          /\ ~syncing[c].changed /\ port # NoDaemon /\ profile.user \notin {None, syncing[c].user} => port'.stray
          /\ \A l \in Logins : l # c => syncing'[l] = syncing[l]
      BY <2>8 DEF writeProfileUserId, At, Port
    <3>2. port'.phase = port.phase /\ port'.token = port.token /\ port'.draining = port.draining /\ (port.stray => port'.stray)
      BY <3>1 DEF Port
    <3>3. Serving' = Serving /\ Alive' = Alive
      BY <3>2 DEF Serving, Alive
    <3>4. (Alive => port.token # None)'
      BY <3>2, <3>3 DEF OwnerInv
    <3>5. (Serving /\ ~port.stray /\ port.token # profile.user => Due)'
      <4>1. SUFFICES ASSUME Serving, ~port'.stray, port.token # syncing[c].user  PROVE Due'
        BY <3>1, <3>2, <3>3
      <4>2. port # NoDaemon
        BY <4>1 DEF Serving, Alive, NoDaemon
      <4>3. CASE syncing[c].changed
        <5>1. GoTo(c, "check") /\ "check" \in Step
          BY <2>8, <4>3 DEF writeProfileUserId, Step
        <5>2. calls'[c].at = "check"
          BY <5>1, GoToCall
        <5> QED  BY <2>8, <5>2 DEF Due, Mending, At
      <4>4. CASE ~syncing[c].changed
        <5>1. profile.user \in {None, syncing[c].user}
          BY <3>1, <4>1, <4>2, <4>4
        <5>2. Due
          BY <3>2, <4>1, <5>1 DEF OwnerInv, Serving
        <5>3. CASE StopDue
          <6>1. PICK d \in Caller : calls[d].at \in {"stop", "ask"}
            BY <5>3 DEF StopDue
          <6>2. calls'[d].at \in {"stop", "ask"}
            BY <2>1, <3>1, <6>1 DEF Only
          <6> QED  BY <6>2 DEF Due, StopDue
        <5>4. CASE \E l \in Logins : Mending(l)
          <6>1. PICK l \in Logins : Mending(l)
            BY <5>4
          <6>2. l # c /\ l \in Caller
            BY <3>1, <4>1, <4>4, <6>1, Slots DEF Mending, At
          <6>3. Mending(l)'
            BY <2>1, <3>1, <3>2, <6>1, <6>2 DEF Mending, At, Only
          <6> QED  BY <6>3 DEF Due
        <5> QED  BY <5>2, <5>3, <5>4 DEF Due
      <4> QED  BY <4>3, <4>4
    <3> QED  BY <3>4, <3>5 DEF OwnerInv
  <2>9. CASE Logout(c)
    <3>1. UNCHANGED <<profile, port, syncing>> /\ calls[c].at \notin {"stop", "ask", "record", "check"}
      BY <2>9 DEF Logout, Idle, disk
    <3> QED  BY <2>2, <3>1
  <2>10. CASE clearToken(c)
    <3>1. UNCHANGED <<port, syncing>> /\ calls[c].at \notin {"stop", "ask", "record", "check"}
      BY <2>10 DEF clearToken, At
    <3>2. Due => Due'
      BY <2>1, <3>1, DueStays
    <3>3. Serving' = Serving /\ Alive' = Alive
      BY <3>1 DEF Serving, Alive
    <3>4. CASE profile'.user = profile.user
      BY <3>1, <3>2, <3>3, <3>4, OwnerFrame
    <3>5. CASE profile'.user # profile.user
      <4>1. GoTo(c, "ask") /\ "ask" \in Step
        BY <2>10, <3>5 DEF clearToken, Step
      <4>2. calls'[c].at = "ask"
        BY <4>1, GoToCall
      <4>3. Due'
        BY <4>2 DEF Due, StopDue
      <4> QED  BY <3>1, <3>3, <4>3 DEF OwnerInv
    <3> QED  BY <3>4, <3>5
  <2>11. CASE withGuard(c)
    <3>1. UNCHANGED <<profile, syncing>>
      BY <2>11 DEF withGuard, disk
    <3>2. CASE guard
      <4>1. port'.phase = port.phase /\ port'.token = port.token /\ port'.draining = port.draining
              /\ (port # NoDaemon => port'.stray) /\ (port = NoDaemon => UNCHANGED port)
        BY <2>11, <3>2 DEF withGuard, Port
      <4>2. Serving' = Serving /\ Alive' = Alive
        BY <4>1 DEF Serving, Alive
      <4>3. Serving => port # NoDaemon
        BY DEF Serving, Alive, NoDaemon
      <4> QED  BY <3>1, <4>1, <4>2, <4>3, OwnerFrame
    <3>3. CASE ~guard
      <4>1. UNCHANGED port /\ GoTo(c, "stop") /\ "stop" \in Step
        BY <2>11, <3>3 DEF withGuard, Step
      <4>2. calls'[c].at = "stop"
        BY <4>1, GoToCall
      <4>3. Due' /\ Serving' = Serving /\ Alive' = Alive
        BY <4>1, <4>2 DEF Due, StopDue, Serving, Alive
      <4> QED  BY <3>1, <4>1, <4>3, OwnerFrame
    <3> QED  BY <3>2, <3>3
  <2>12. CASE c = "packages" /\ PackagesStep
    <3>1. UNCHANGED <<profile, port, syncing>>
      BY <2>12 DEF PackagesStep, notifyProvisioningPackagesChanged, requestProvisioningRestartNow,
         pollOnce, ensureProvisioningRestartIfNeeded, disk
    <3>2. UNCHANGED calls \/ calls[c].at \notin {"stop", "ask", "record", "check"}
      BY <2>12 DEF PackagesStep, notifyProvisioningPackagesChanged, requestProvisioningRestartNow,
         pollOnce, ensureProvisioningRestartIfNeeded, Settle, At, Idle
    <3>3. CASE UNCHANGED calls
      BY <3>1, <3>3, OwnerFrame DEF Due, StopDue, Mending, At, Serving, Alive
    <3> QED  BY <2>2, <3>1, <3>2, <3>3
  <2> QED  BY <1>1, <2>3, <2>4, <2>5, <2>6, <2>7, <2>8, <2>9, <2>10, <2>11, <2>12
           DEF OneCall, LoginStep, LogoutStep
<1>2. CASE DaemonStep
  <2>1. UNCHANGED <<calls, profile, syncing>>
    BY <1>2 DEF DaemonStep, resolveAuth, Ready, TaskBegins, TaskEnds, Exit, disk
  <2>2. CASE resolveAuth
    <3>1. CASE profile.token = None
      BY <2>1, <2>2, <3>1 DEF resolveAuth, OwnerInv, Serving, Alive, NoDaemon
    <3>2. CASE profile.token # None
      <4>1. /\ port'.token = profile.token
            /\ ~port'.stray => \/ profile.user = profile.token
                               \/ \E l \in Logins : At(l, "record") /\ syncing[l].user = profile.token
        BY <2>2, <3>2 DEF resolveAuth, Port
      <4>2. ASSUME ~port'.stray, profile.user # profile.token  PROVE Due'
        <5>1. PICK l \in Logins : At(l, "record") /\ syncing[l].user = profile.token
          BY <4>1, <4>2
        <5>2. Mending(l)'
          BY <2>1, <4>1, <5>1 DEF Mending, At
        <5> QED  BY <5>2 DEF Due
      <4> QED  BY <2>1, <3>2, <4>1, <4>2 DEF OwnerInv
    <3> QED  BY <3>1, <3>2
  <2>3. CASE Ready \/ TaskBegins \/ TaskEnds
    <3>1. /\ port'.token = port.token /\ port'.draining = port.draining /\ port'.stray = port.stray
          /\ Alive' = Alive
      BY <2>3 DEF Ready, TaskBegins, TaskEnds, Alive, Port
    <3>2. Serving' = Serving /\ Due' = Due
      BY <2>1, <3>1 DEF Serving, Due, StopDue, Mending, At
    <3> QED  BY <2>1, <3>1, <3>2, OwnerFrame
  <2>4. CASE Exit
    BY <2>4 DEF Exit, OwnerInv, Serving, Alive, NoDaemon
  <2> QED  BY <1>2, <2>2, <2>3, <2>4 DEF DaemonStep
<1>3. CASE Install
  BY <1>3, OwnerFrame DEF Install, Due, StopDue, Mending, At, Serving, Alive
<1>4. ASSUME NEW c \in Caller, listenHealth(c)  PROVE OwnerInv'
  <2>1. UNCHANGED <<calls, profile, syncing>>
    BY <1>4 DEF listenHealth, disk
  <2>2. CASE UNCHANGED port
    BY <2>1, <2>2, OwnerFrame DEF Due, StopDue, Mending, At, Serving, Alive
  <2>3. CASE ~UNCHANGED port
    <3>1. port'.phase = "bound"
      BY <1>4, <2>3 DEF listenHealth, NoDaemon
    <3> QED  BY <3>1 DEF OwnerInv, Serving, Alive
  <2> QED  BY <2>2, <2>3
<1>5. ASSUME NEW l \in Logins, RestartOnUserSwitch(l)  PROVE OwnerInv'
  <2>1. UNCHANGED <<profile, port>>
    BY <1>5 DEF RestartOnUserSwitch, disk
  <2>2. ~Alive \/ Due'
    BY <1>5, SwitchCalls DEF Due, StopDue
  <2> QED  BY <2>1, <2>2 DEF OwnerInv, Serving, Alive
<1>6. CASE Relaunch
  <2>1. UNCHANGED profile /\ port'.phase = port.phase /\ port'.token = port.token /\ port'.draining = port.draining
          /\ (port.stray => port'.stray)
    BY <1>6 DEF Relaunch, disk, Port
  <2>2. port # NoDaemon /\ Due => port'.stray
    BY <1>6 DEF Relaunch, Due, Port
  <2>3. Serving' = Serving /\ Alive' = Alive /\ (Serving => port # NoDaemon)
    BY <2>1 DEF Serving, Alive, NoDaemon
  <2> QED  BY <2>1, <2>2, <2>3, OwnerFrame
<1> QED  BY <1>1, <1>2, <1>3, <1>4, <1>5, <1>6, Steps

(* What a step must keep for the environments to stay known.                 *)
LEMMA EnvironmentFrame ==
    ASSUME DaemonManagerTypeOK, EnvironmentInv, UNCHANGED <<packages, announced, forgotten, pending>>,
           \A d \in Caller : calls'[d].at = "exec" =>
               \/ calls'[d].env = packages
               \/ calls[d].at = "exec" /\ calls'[d].env = calls[d].env,
           \A d \in Caller : children'[d] # None =>
               \/ children'[d] = children[d]
               \/ calls[d].at = "exec" /\ children'[d] = calls[d].env,
           \/ port' = NoDaemon
           \/ /\ port'.phase = port.phase /\ port'.packages = port.packages
              /\ \/ port'.draining
                 \/ /\ port.draining => port'.draining
                    /\ calls["packages"].at = "stop" => calls'["packages"].at = "stop"
    PROVE  EnvironmentInv'
<1>1. Known' <=> Known
  BY DEF Known
<1>2. packages \in Nat /\ announced \in Nat /\ announced <= packages
  BY DaemonManagerAssumption DEF DaemonManagerTypeOK, EnvironmentInv
<1>3. (\A c \in Caller : At(c, "exec") /\ calls[c].env < announced => Known)'
  <2> SUFFICES ASSUME NEW d \in Caller, calls'[d].at = "exec", calls'[d].env < announced  PROVE Known
    BY <1>1 DEF At
  <2> QED  BY <1>2 DEF EnvironmentInv, At
<1>4. (\A c \in Caller : children[c] # None /\ children[c] < announced => Known)'
  <2> SUFFICES ASSUME NEW d \in Caller, children'[d] # None, children'[d] < announced  PROVE Known
    BY <1>1
  <2> QED  BY DEF EnvironmentInv, At
<1>5. (port.phase \in {"bound", "starting"} /\ port.packages < announced => Known)'
  BY <1>1 DEF EnvironmentInv, NoDaemon
<1>6. (port.phase = "running" /\ ~port.draining /\ port.packages < announced
         => Known \/ At("packages", "stop"))'
  BY <1>1 DEF EnvironmentInv, NoDaemon, At
<1> QED  BY <1>2, <1>3, <1>4, <1>5, <1>6 DEF EnvironmentInv

(* Every step keeps the environments known.                                  *)
LEMMA EnvironmentStep ==
    ASSUME DaemonManagerTypeOK, DaemonManagerTypeOK', EnvironmentInv, Next
    PROVE  EnvironmentInv'
<1>. /\ calls \in [Caller -> Call] /\ port \in Port /\ children \in [Caller -> 0..MaxPackages \cup {None}]
     /\ "packages" \in Caller
  BY Slots DEF DaemonManagerTypeOK, Port
<1>1. ASSUME NEW c \in Caller, OneCall(c)  PROVE EnvironmentInv'
  <2>1. /\ Only(c)
        /\ calls'[c].at = "exec" => calls'[c].env = packages \/ calls'[c] = calls[c]
    BY <1>1, OneCallMoves
  <2>2. \A d \in Caller : calls'[d].at = "exec" =>
          \/ calls'[d].env = packages
          \/ calls[d].at = "exec" /\ calls'[d].env = calls[d].env
    BY <2>1 DEF Only
  <2>3. ASSUME UNCHANGED <<packages, announced, forgotten, pending, children>>,
               port'.phase = port.phase, port'.packages = port.packages, port'.draining = port.draining,
               c = "packages" => calls["packages"].at # "stop"
        PROVE  EnvironmentInv'
    <3>1. calls["packages"].at = "stop" => calls'["packages"].at = "stop"
      BY <2>1, <2>3 DEF Only
    <3> QED  BY <2>2, <2>3, <3>1, EnvironmentFrame
  <2>4. CASE startDaemon(c) \/ StartReturns(c) \/ StopFails(c)
    <3>1. UNCHANGED <<packages, announced, forgotten, pending, children, port>> /\ calls[c].at # "stop"
      BY <2>4 DEF startDaemon, StartReturns, StopFails, At, disk, restarting
    <3> QED  BY <2>3, <3>1
  <2>5. CASE runDaemonBackground(c)
    <3>1. UNCHANGED <<packages, announced, forgotten, pending, port>> /\ calls[c].at = "exec"
      BY <2>5 DEF runDaemonBackground, At, disk, restarting
    <3>2. calls["packages"].at = "stop" => calls'["packages"].at = "stop"
      BY <2>1, <3>1 DEF Only
    <3>3. \A d \in Caller : children'[d] # None =>
            \/ children'[d] = children[d]
            \/ calls[d].at = "exec" /\ children'[d] = calls[d].env
      <4>1. UNCHANGED children \/ children' = [children EXCEPT ![c] = calls[c].env]
        BY <2>5 DEF runDaemonBackground
      <4> QED  BY <3>1, <4>1
    <3> QED  BY <2>2, <3>1, <3>2, <3>3, EnvironmentFrame
  <2>6. CASE stopDaemon(c)
    <3>1. UNCHANGED <<packages, announced, forgotten, pending, children>>
      BY <2>6 DEF stopDaemon, disk, restarting
    <3>2. CASE Alive
      <4>1. port'.phase = port.phase /\ port'.packages = port.packages /\ port'.draining
        BY <2>6, <3>2 DEF stopDaemon, Port
      <4> QED  BY <2>2, <3>1, <4>1, EnvironmentFrame
    <3>3. CASE ~Alive
      <4>1. UNCHANGED port /\ port.phase = "none"
        BY <2>6, <3>3 DEF stopDaemon, Alive, Answers, Port
      <4>2. Known' = Known /\ announced' = announced /\ packages' = packages /\ announced <= packages
        BY <3>1 DEF Known, EnvironmentInv
      <4>3. (\A d \in Caller : At(d, "exec") /\ calls[d].env < announced => Known)'
        <5> SUFFICES ASSUME NEW d \in Caller, calls'[d].at = "exec", calls'[d].env < announced  PROVE Known
          BY <4>2 DEF At
        <5>1. packages \in Nat /\ announced \in Nat
          BY DaemonManagerAssumption DEF DaemonManagerTypeOK
        <5> QED  BY <2>2, <4>2, <5>1 DEF EnvironmentInv, At
      <4>4. (\A d \in Caller : children[d] # None /\ children[d] < announced => Known)'
        BY <3>1, <4>2 DEF EnvironmentInv
      <4> QED  BY <4>1, <4>2, <4>3, <4>4 DEF EnvironmentInv
    <3> QED  BY <3>2, <3>3
  <2>7. CASE StopReturns(c)
    <3>1. UNCHANGED <<packages, announced, forgotten, pending, children>> /\ port' = NoDaemon
      BY <2>7 DEF StopReturns, disk, restarting
    <3> QED  BY <2>2, <3>1, EnvironmentFrame
  <2>8. CASE c # "packages" /\ (ButtonStep(c) \/ restartDaemonIfAlive(c) \/ LoginStep(c) \/ LogoutStep(c))
    <3>1. UNCHANGED <<packages, announced, forgotten, pending, children>>
      BY <2>8 DEF ButtonStep, Press, ReportStopped, ReportNotStopped, restartDaemonIfAlive, LoginStep,
         Login, syncToken, mintPat, writeProfileConfig, writeProfileUserId, autoStart, LogoutStep,
         Logout, clearToken, withGuard, disk, restarting
    <3>2. UNCHANGED port \/ port' = [port EXCEPT !.stray = TRUE]
      BY <2>8 DEF ButtonStep, Press, ReportStopped, ReportNotStopped, restartDaemonIfAlive, LoginStep,
         Login, syncToken, mintPat, writeProfileConfig, writeProfileUserId, autoStart, LogoutStep,
         Logout, clearToken, withGuard
    <3>3. port'.phase = port.phase /\ port'.packages = port.packages /\ port'.draining = port.draining
      BY <3>2 DEF Port
    <3> QED  BY <2>3, <2>8, <3>1, <3>3
  <2>9. CASE c = "packages" /\ PackagesStep
    <3>1. CASE notifyProvisioningPackagesChanged
      <4>1. Known' /\ announced' = packages /\ UNCHANGED packages
        BY <3>1 DEF notifyProvisioningPackagesChanged, Known, disk
      <4>2. packages \in Nat
        BY DaemonManagerAssumption DEF DaemonManagerTypeOK
      <4> QED  BY <4>1, <4>2 DEF EnvironmentInv
    <3>2. CASE requestProvisioningRestartNow \/ pollOnce
      <4>1. UNCHANGED <<packages, announced, forgotten, pending, children, port>> /\ calls[c].at # "stop"
        BY <2>9, <3>2 DEF requestProvisioningRestartNow, pollOnce, Idle, disk, restarting
      <4> QED  BY <2>3, <4>1
    <3>3. CASE ensureProvisioningRestartIfNeeded
      <4>1. /\ calls[c].at = "settle" /\ UNCHANGED <<packages, announced, children, port>> /\ Answers
            /\ \/ UNCHANGED <<pending, forgotten>>
               \/ forgotten' = IF StaleStart THEN announced ELSE forgotten
        BY <2>9, <3>3 DEF ensureProvisioningRestartIfNeeded, At, disk
      <4>2. CASE UNCHANGED <<pending, forgotten>>
        BY <2>3, <4>1, <4>2
      <4>3. CASE StaleStart /\ forgotten' = announced
        <5>1. Known'
          BY <4>1, <4>3, DaemonManagerAssumption DEF Known, DaemonManagerTypeOK
        <5> QED  BY <4>1, <5>1 DEF EnvironmentInv
      <4>4. CASE ~StaleStart /\ ~UNCHANGED <<pending, forgotten>>
        <5>1. packages \in Nat /\ announced \in Nat /\ announced <= packages
          BY DaemonManagerAssumption DEF DaemonManagerTypeOK, EnvironmentInv
        <5>2. \A d \in Caller : calls'[d].at = "exec" => ~(calls'[d].env < announced)
          BY <2>2, <4>4, <5>1 DEF StaleStart, At
        <5>3. \A d \in Caller : children[d] # None => ~(children[d] < announced)
          <6> SUFFICES ASSUME NEW d \in Caller, children[d] # None, children[d] < announced  PROVE FALSE
            OBVIOUS
          <6>1. children[d] \in 0..announced - 1
            BY <5>1, DaemonManagerAssumption
          <6> QED  BY <4>4, <6>1 DEF StaleStart
        <5>4. port.phase \in {"bound", "starting"} => ~(port.packages < announced)
          BY <4>1, <4>4 DEF StaleStart, Answers
        <5>5. port.phase = "running" => calls'["packages"].at = "stop"
          <6>1. port.phase = "running" => GoTo("packages", "stop")
            BY <3>3, <4>4 DEF ensureProvisioningRestartIfNeeded
          <6> QED  BY <6>1, GoToCall DEF Step
        <5> QED  BY <4>1, <5>1, <5>2, <5>3, <5>4, <5>5 DEF EnvironmentInv, At
      <4> QED  BY <4>1, <4>2, <4>3, <4>4
    <3> QED  BY <2>9, <3>1, <3>2, <3>3 DEF PackagesStep
  <2>10. c \in Buttons \cup Changes \cup Logins \cup Logouts => c # "packages"
    BY DaemonManagerAssumption
  <2> QED  BY <1>1, <2>4, <2>5, <2>6, <2>7, <2>8, <2>9, <2>10 DEF OneCall, CommandStep
<1>2. CASE DaemonStep
  <2>1. UNCHANGED <<packages, announced, forgotten, pending, children, calls>>
    BY <1>2 DEF DaemonStep, resolveAuth, Ready, TaskBegins, TaskEnds, Exit, disk, restarting
  <2>2. \/ port' = NoDaemon
        \/ port'.packages = port.packages /\ port'.draining = port.draining
    BY <1>2 DEF DaemonStep, resolveAuth, Ready, TaskBegins, TaskEnds, Exit, Port
  <2>3. \/ port' = NoDaemon \/ port'.phase = port.phase
        \/ port.phase \in {"bound", "starting"} /\ port'.phase \in {"starting", "running"}
    BY <1>2 DEF DaemonStep, resolveAuth, Ready, TaskBegins, TaskEnds, Exit, Port
  <2>4. CASE port' = NoDaemon \/ port'.phase = port.phase
    BY <2>1, <2>2, <2>4, EnvironmentFrame
  <2>5. CASE port' # NoDaemon /\ port'.phase # port.phase
    BY <2>1, <2>2, <2>3, <2>5 DEF EnvironmentInv, Known, At
  <2> QED  BY <2>4, <2>5
<1>3. CASE Install
  <2>1. UNCHANGED <<announced, forgotten, pending, children, calls, port>> /\ packages' = packages + 1
    BY <1>3 DEF Install, restarting
  <2>2. packages \in Nat /\ announced \in Nat
    BY DaemonManagerAssumption DEF DaemonManagerTypeOK
  <2> QED  BY <2>1, <2>2 DEF EnvironmentInv, Known, At
<1>4. ASSUME NEW c \in Caller, listenHealth(c)  PROVE EnvironmentInv'
  <2>1. UNCHANGED <<packages, announced, forgotten, pending, calls>>
    BY <1>4 DEF listenHealth, disk, restarting
  <2>2. \A d \in Caller : children'[d] # None => children'[d] = children[d]
    BY <1>4 DEF listenHealth
  <2>3. CASE UNCHANGED port
    BY <2>1, <2>2, <2>3, EnvironmentFrame
  <2>4. CASE ~UNCHANGED port
    <3>1. port'.phase = "bound" /\ port'.packages = children[c] /\ children[c] # None
      BY <1>4, <2>4 DEF listenHealth, NoDaemon
    <3> QED  BY <2>1, <2>2, <3>1 DEF EnvironmentInv, Known, At
  <2> QED  BY <2>3, <2>4
<1>5. ASSUME NEW l \in Logins, RestartOnUserSwitch(l)  PROVE EnvironmentInv'
  <2>1. UNCHANGED <<packages, announced, forgotten, pending, children, port>>
    BY <1>5 DEF RestartOnUserSwitch, disk, restarting
  <2>2. /\ \A d \in Caller : calls'[d].at = "exec" => calls'[d] = calls[d]
        /\ calls'["packages"] = calls["packages"]
    BY <1>5, SwitchCalls
  <2> QED  BY <2>1, <2>2, EnvironmentFrame
<1>6. CASE Relaunch
  <2>1. announced' = packages /\ forgotten' = packages /\ UNCHANGED packages
    BY <1>6 DEF Relaunch, disk
  <2>2. packages \in Nat
    BY DaemonManagerAssumption DEF DaemonManagerTypeOK
  <2> QED  BY <2>1, <2>2 DEF EnvironmentInv, Known
<1> QED  BY <1>1, <1>2, <1>3, <1>4, <1>5, <1>6, Steps


(* The daemon manager keeps its types.                                       *)
THEOREM DaemonManagerTypeCorrect == Spec => []DaemonManagerTypeOK
<1>1. Init => DaemonManagerTypeOK
  <2> SUFFICES ASSUME Init  PROVE DaemonManagerTypeOK
    OBVIOUS
  <2>1. calls \in [Caller -> Call] /\ 0 \in 0..MaxPackages
    BY DaemonManagerAssumption, RestingCall DEF Init
  <2>2. NoDaemon \in Port /\ NoSync \in Sync
    BY NoDaemonPort
  <2>3. [token |-> None, user |-> None] \in [token : User \cup {None}, user : User \cup {None}]
    OBVIOUS
  <2> QED  BY <2>1, <2>2, <2>3 DEF Init, DaemonManagerTypeOK, Port, Sync
<1>2. DaemonManagerTypeOK /\ [Next]_vars => DaemonManagerTypeOK'
  BY TypeStep DEF vars, disk, restarting, DaemonManagerTypeOK
<1> QED  BY <1>1, <1>2, PTL DEF Spec

LEMMA OwnerCorrect == Spec => []OwnerInv
<1>1. Init => OwnerInv
  BY DEF Init, OwnerInv, NoDaemon, Alive, Serving
<1>2. DaemonManagerTypeOK /\ OwnerInv /\ [Next]_vars => OwnerInv'
  BY OwnerStep DEF vars, disk, restarting, OwnerInv, Alive, Serving, Due, Mending, At, StopDue
<1> QED  BY <1>1, <1>2, DaemonManagerTypeCorrect, PTL DEF Spec

LEMMA EnvironmentCorrect == Spec => []EnvironmentInv
<1>1. Init => EnvironmentInv
  BY DEF Init, EnvironmentInv, NoDaemon, Resting, At, Known
<1>2. DaemonManagerTypeOK /\ DaemonManagerTypeOK' /\ EnvironmentInv /\ [Next]_vars => EnvironmentInv'
  BY EnvironmentStep DEF vars, disk, restarting, EnvironmentInv, At, Known
<1> QED  BY <1>1, <1>2, DaemonManagerTypeCorrect, PTL DEF Spec

(* A daemon runs with the token of the user the profile records, or the step  *)
(* of a login or of a stop that will end it is still to come, with any       *)
(* number of logins under way at once: a login that found another user       *)
(* recorded writes before it asks for the daemon's health, and the daemon    *)
(* holds the port before it reads the token.  Daemons that a refused or lost *)
(* stop, an unrecorded token or an overtaken login left behind are excepted. *)
THEOREM SwitchSafe == Spec => []SwitchReachesDaemon
<1>1. OwnerInv => SwitchReachesDaemon
  BY DEF OwnerInv, SwitchReachesDaemon, Due
<1> QED  BY <1>1, OwnerCorrect, PTL

(* The restart a package needs stays pending until a stop takes its place,    *)
(* whatever calls are under way when it is announced.                        *)
THEOREM PackagesSafe == Spec => []PackagesRemembered
<1>1. DaemonManagerTypeOK /\ EnvironmentInv => PackagesRemembered
  BY DEF DaemonManagerTypeOK, EnvironmentInv, PackagesRemembered, Known, Serving, Alive
<1> QED  BY <1>1, DaemonManagerTypeCorrect, EnvironmentCorrect, PTL
=============================================================================
