--------------------------- MODULE WSClientProofs ---------------------------
(***************************************************************************)
(* The connection of a client, for any number of sockets and tokens.  Each   *)
(* invariant needs to know what the client's flags say about its sockets:    *)
(* that is ClientInv.                                                        *)
(***************************************************************************)
EXTENDS WSClient, TLAPS

Phase == {"opening", "open", "acked", "refused", "live", "closing", "closed"}

(* Before the provider answers a rejection, this.ws and reconnectTimer tell   *)
(* the whole truth, and no close is suppressed.                              *)
Truthful ==
    ~retried =>
        /\ leaked = 0 /\ ~suppress
        /\ IF mounted = "yes" THEN Alive \subseteq {ws} /\ (Alive # {} => ~timer)
                              ELSE Alive = {} /\ ~timer

Fresh == mounted = "new" => ~retried /\ ~before /\ ~missed

(* The close that is to be suppressed is still to come, and if the client     *)
(* has got connected since, by another socket.                               *)
SuppressionMeant ==
    suppress => /\ \E s \in Socket : phase[s] = "closing"
                /\ state = "unauthorized" \/ Live # {}

Remembered == mounted = "yes" /\ (missed \/ Live # {}) => before

ClientInv ==
    /\ ClientTypeOK
    /\ Truthful /\ Fresh /\ SuppressionMeant /\ Remembered
    /\ NeverStranded /\ OutageHealed

-----------------------------------------------------------------------------
LEMMA Bounds ==
    /\ DegradedAfter \in Nat /\ MaxTimers \in Nat /\ MaxDrops \in Nat
    /\ 0 \in 0..DegradedAfter /\ 0 \in 0..MaxTimers /\ 0 \in 0..MaxDrops
BY ClientAssumption DEF ClientAssumption

LEMMA InitClient == Init => ClientInv
<1> SUFFICES ASSUME Init PROVE ClientInv
  OBVIOUS
<1> USE ClientAssumption DEF Init, ClientAssumption
<1>1. Alive = {} /\ Live = {}
  BY DEF Alive, Live
<1>2. ClientTypeOK
  BY Bounds DEF ClientTypeOK
<1>3. Truthful /\ Fresh /\ SuppressionMeant /\ Remembered
  BY <1>1 DEF Truthful, Fresh, SuppressionMeant, Remembered
<1>4. NeverStranded /\ OutageHealed
  BY DEF NeverStranded, OutageHealed
<1> QED
  BY <1>2, <1>3, <1>4 DEF ClientInv

(* A step that opens, closes and authenticates no socket.                    *)
LEMMA OtherwiseQuiet ==
    ASSUME ClientInv, ClientTypeOK', Alive' = Alive, Live' = Live,
           \A s \in Socket : phase[s] = "closing" => phase'[s] = "closing",
           UNCHANGED <<mounted, ws, suppress, timer, leaked, state, before, retried, missed>>
    PROVE  ClientInv'
<1>1. Truthful' /\ Fresh' /\ Remembered'
  BY DEF ClientInv, Truthful, Fresh, Remembered
<1>2. SuppressionMeant'
  BY DEF ClientInv, SuppressionMeant
<1>3. NeverStranded' /\ OutageHealed'
  BY DEF ClientInv, NeverStranded, OutageHealed
<1> QED
  BY <1>1, <1>2, <1>3 DEF ClientInv

LEMMA LoginsKeepClient ==
    ASSUME ClientInv, NEW t \in Token, StoreToken(t) \/ Revoke(t)
    PROVE  ClientInv'
<1>1. ClientTypeOK'
  BY DEF ClientInv, ClientTypeOK, StoreToken, Revoke, fixed, flags, retry
<1>2. UNCHANGED <<phase, mounted, ws, suppress, timer, leaked, state, before, retried, missed>>
  BY DEF StoreToken, Revoke, fixed, flags, retry
<1>3. Alive' = Alive /\ Live' = Live
  BY <1>2 DEF Alive, Live
<1> QED
  BY <1>1, <1>2, <1>3, OtherwiseQuiet

(* The phase of one socket changes, and neither before nor after it is live   *)
(* or closed.                                                                *)
LEMMA PhaseOnly ==
    ASSUME ClientTypeOK, NEW s \in Socket, NEW p, phase' = [phase EXCEPT ![s] = p],
           phase[s] \notin {"live", "closed", "closing"}, p \notin {"live", "closed"}
    PROVE  /\ Alive' = Alive /\ Live' = Live
           /\ \A u \in Socket : phase[u] = "closing" => phase'[u] = "closing"
BY DEF ClientTypeOK, Alive, Live

LEMMA ServerKeepsClient ==
    ASSUME ClientInv, NEW s \in Socket,
           ServerAccepts(s) \/ ServerRefuses(s) \/ RefusalDropped(s)
    PROVE  ClientInv'
<1> USE DEF ServerAccepts, ServerRefuses, RefusalDropped
<1>1. PICK p \in {"acked", "refused", "closing"} : phase' = [phase EXCEPT ![s] = p]
  OBVIOUS
<1>2. phase[s] \in {"open", "refused"}
  OBVIOUS
<1>3. ClientTypeOK'
  BY <1>1 DEF ClientInv, ClientTypeOK, fixed, flags, login, retry
<1>4. UNCHANGED <<mounted, ws, suppress, timer, leaked, state, before, retried, missed>>
  BY DEF fixed, flags, retry
<1> HIDE DEF ServerAccepts, ServerRefuses, RefusalDropped
<1>5. Alive' = Alive /\ Live' = Live /\ \A u \in Socket : phase[u] = "closing" => phase'[u] = "closing"
  BY <1>1, <1>2, PhaseOnly DEF ClientInv
<1> QED
  BY <1>3, <1>4, <1>5, OtherwiseQuiet

-----------------------------------------------------------------------------
LEMMA AuthenticatedKeepsClient ==
    ASSUME ClientInv, NEW s \in Socket, phase[s] \in {"opening", "acked"}, Authenticated(s),
           UNCHANGED <<fixed, attached, presented, token, login, retried, drops>>
    PROVE  ClientInv'
<1> USE DEF ClientInv, Authenticated, fixed, login
<1>1. ClientTypeOK'
  BY Bounds DEF ClientTypeOK
<1>2. Alive' = Alive /\ Live' = Live \cup {s} /\ s \in Alive
  BY DEF ClientTypeOK, Alive, Live
<1>3. Truthful' /\ Fresh'
  <2>1. mounted # "new"
    BY <1>2 DEF Truthful, Fresh
  <2> QED
    BY <1>2, <2>1 DEF Truthful, Fresh
<1>4. SuppressionMeant'
  BY <1>2 DEF SuppressionMeant, ClientTypeOK
<1>5. Remembered' /\ OutageHealed'
  BY DEF Remembered, OutageHealed
<1>6. NeverStranded'
  BY <1>2 DEF NeverStranded
<1> QED
  BY <1>1, <1>3, <1>4, <1>5, <1>6

LEMMA OpenedKeepsClient ==
    ASSUME ClientInv, NEW s \in Socket, Opened(s)
    PROVE  ClientInv'
<1>1. CASE cookieAuth
  <2>1. UNCHANGED <<fixed, attached, presented, token, login, retried, drops>>
        /\ phase[s] = "opening" /\ Authenticated(s)
    BY <1>1 DEF Opened
  <2> QED
    BY <2>1, AuthenticatedKeepsClient
<1>2. CASE ~cookieAuth
  <2>1. /\ phase[s] = "opening" /\ phase' = [phase EXCEPT ![s] = "open"]
        /\ UNCHANGED <<mounted, ws, suppress, timer, leaked, state, before, retried, missed>>
    BY <1>2 DEF Opened, fixed, retry
  <2>2. presented' \in [Socket -> Token \cup {None}]
    BY <1>2 DEF Opened, ClientInv, ClientTypeOK
  <2>3. ClientTypeOK'
    BY <1>2, <2>1, <2>2 DEF Opened, ClientInv, ClientTypeOK, fixed, login, retry
  <2>4. Alive' = Alive /\ Live' = Live /\ \A u \in Socket : phase[u] = "closing" => phase'[u] = "closing"
    BY <2>1, PhaseOnly DEF ClientInv
  <2> QED
    BY <2>1, <2>3, <2>4, OtherwiseQuiet
<1> QED
  BY <1>1, <1>2

LEMMA AckKeepsClient ==
    ASSUME ClientInv, NEW s \in Socket, AckArrives(s)
    PROVE  ClientInv'
BY AuthenticatedKeepsClient DEF AckArrives

(* Nobody answers a rejection: the client may only be past its first retry   *)
(* or its unmounting.                                                        *)
LEMMA RejectedKeepsClient ==
    ASSUME ClientInv, NEW s \in Socket, Rejected(s)
    PROVE  ClientInv'
<1> USE DEF ClientInv, Rejected, fixed, retry, login
<1>1. ClientTypeOK'
  BY DEF ClientTypeOK
<1>2. Alive' = Alive /\ Live' = Live /\ s \in Alive /\ phase'[s] = "closing"
  BY DEF ClientTypeOK, Alive, Live
<1>3. retried
  BY <1>2 DEF Truthful
<1>4. Truthful' /\ Fresh' /\ SuppressionMeant' /\ Remembered'
  BY <1>2, <1>3 DEF Truthful, Fresh, SuppressionMeant, Remembered
<1>5. NeverStranded' /\ OutageHealed'
  BY <1>2 DEF NeverStranded, OutageHealed
<1> QED
  BY <1>1, <1>4, <1>5

-----------------------------------------------------------------------------
(* connect() adds a socket that is not live; nothing is suppressed then.     *)
LEMMA ConnectAdds ==
    ASSUME ClientTypeOK, NEW n \in Socket, NEW p \in [Socket -> Phase], Connect(n, p),
           \A s \in Socket : (p[s] = "closed" <=> phase[s] = "closed") /\ (p[s] = "live" <=> phase[s] = "live")
    PROVE  Alive' = Alive \cup {n} /\ Live' = Live /\ ws' = n /\ ~suppress'
BY DEF Connect, Alive, Live, ClientTypeOK, Phase

LEMMA MountKeepsClient ==
    ASSUME ClientInv, Mount
    PROVE  ClientInv'
<1> USE DEF ClientInv, Mount, login, retry
<1>1. PICK n \in Socket : Connect(n, phase)
  OBVIOUS
<1>2. ClientTypeOK'
  BY <1>1 DEF ClientTypeOK, Connect
<1>3. Alive' = Alive \cup {n} /\ Live' = Live /\ ws' = n /\ ~suppress'
  <2>1. phase \in [Socket -> Phase]
    BY DEF ClientTypeOK, Phase
  <2> QED
    BY <1>1, <2>1, ConnectAdds
<1>4. Alive = {} /\ Live = {} /\ ~timer /\ leaked = 0
  BY DEF Truthful, Fresh, Alive, Live
<1>5. Truthful' /\ Fresh' /\ SuppressionMeant' /\ Remembered'
  BY <1>3, <1>4 DEF Truthful, Fresh, SuppressionMeant, Remembered
<1>6. NeverStranded' /\ OutageHealed'
  BY <1>3, <1>4 DEF NeverStranded, OutageHealed
<1> QED
  BY <1>2, <1>5, <1>6

LEMMA TimerKeepsClient ==
    ASSUME ClientInv, TimerFires
    PROVE  ClientInv'
<1> USE DEF ClientInv, TimerFires, fixed, login
<1>1. PICK n \in Socket : Connect(n, phase)
  OBVIOUS
<1>2. ClientTypeOK'
  <2>1. timer' \in BOOLEAN
    BY DEF ClientTypeOK
  <2>2. leaked \in 0..MaxTimers
    BY DEF ClientTypeOK
  <2>3. leaked' = leaked \/ (leaked > 0 /\ leaked' = leaked - 1)
    OBVIOUS
  <2> HIDE DEF ClientInv, TimerFires
  <2>4. leaked' \in 0..MaxTimers
    BY <2>2, <2>3, Bounds
  <2> QED
    BY <1>1, <2>1, <2>4 DEF ClientInv, TimerFires, ClientTypeOK, Connect
<1>3. Alive' = Alive \cup {n} /\ Live' = Live /\ ws' = n /\ ~suppress'
  <2>1. phase \in [Socket -> Phase]
    BY DEF ClientTypeOK, Phase
  <2> QED
    BY <1>1, <2>1, ConnectAdds
<1>4. ~retried => mounted = "yes" /\ timer /\ leaked = 0 /\ Alive = {} /\ ~timer' /\ leaked' = 0
  BY DEF Truthful, ClientTypeOK
<1>5. Truthful' /\ Fresh' /\ SuppressionMeant' /\ Remembered'
  BY <1>3, <1>4 DEF Truthful, Fresh, SuppressionMeant, Remembered
<1>6. NeverStranded' /\ OutageHealed'
  BY <1>3 DEF NeverStranded, OutageHealed
<1> QED
  BY <1>2, <1>5, <1>6

LEMMA RejectedRetryKeepsClient ==
    ASSUME ClientInv, NEW s \in Socket, RejectedRetry(s)
    PROVE  ClientInv'
<1> USE DEF ClientInv, RejectedRetry, fixed, login, retry
<1> DEFINE p == [phase EXCEPT ![s] = "closing"]
<1>1. PICK n \in Socket : Connect(n, p)
  OBVIOUS
<1>2. /\ p \in [Socket -> Phase]
      /\ \A u \in Socket : (p[u] = "closed" <=> phase[u] = "closed") /\ (p[u] = "live" <=> phase[u] = "live")
  BY DEF ClientTypeOK, Phase
<1>3. ClientTypeOK'
  BY <1>1 DEF ClientTypeOK, Connect
<1>4. Alive' = Alive \cup {n} /\ Live' = Live /\ ~suppress'
  <2> HIDE DEF p
  <2> QED
    BY <1>1, <1>2, ConnectAdds
<1>5. Truthful' /\ Fresh' /\ SuppressionMeant' /\ Remembered'
  BY <1>4 DEF Truthful, Fresh, SuppressionMeant, Remembered
<1>6. NeverStranded' /\ OutageHealed'
  BY <1>4 DEF NeverStranded, OutageHealed
<1> QED
  BY <1>3, <1>5, <1>6

-----------------------------------------------------------------------------
(* Without a suppression a close arms the timer; with one, the socket it was *)
(* meant for is still there, or another one is live.                         *)
LEMMA ClosedKeepsClient ==
    ASSUME ClientInv, NEW s \in Socket, phase[s] # "closed", Closed(s), drops' \in 0..MaxDrops
    PROVE  ClientInv'
<1> USE DEF ClientInv, Closed, fixed, login
<1>1. ClientTypeOK'
  <2>1. timer' \in BOOLEAN /\ leaked' \in 0..MaxTimers /\ attempt' \in 0..DegradedAfter
        /\ state' \in {"connecting", "connected", "degraded", "unauthorized"}
    <3>1. CASE suppress
      BY <3>1 DEF ClientTypeOK, retry
    <3>2. CASE ~suppress
      <4>1. ScheduleReconnect
        BY <3>2
      <4>2. leaked' \in 0..MaxTimers
        BY <4>1, Bounds DEF ClientTypeOK, ScheduleReconnect
      <4>3. attempt' \in 0..DegradedAfter
        BY <4>1, Bounds DEF ClientTypeOK, ScheduleReconnect
      <4> QED
        BY <4>1, <4>2, <4>3 DEF ScheduleReconnect
    <3> QED
      BY <3>1, <3>2
  <2>2. missed' \in BOOLEAN /\ phase' \in [Socket -> Phase]
    BY DEF ClientTypeOK, Phase
  <2> QED
    BY <2>1, <2>2 DEF ClientTypeOK, Phase
<1>2. Alive' = Alive \ {s} /\ Live' = Live \ {s} /\ s \in Alive
  BY DEF ClientTypeOK, Alive, Live
<1>3. Truthful' /\ Fresh'
  <2>1. CASE ~retried
    <3>1. mounted = "yes" /\ ~suppress /\ ~timer /\ Alive = {s} /\ leaked = 0
      BY <1>2, <2>1 DEF Truthful
    <3>2. timer' /\ leaked' = 0
      BY <3>1 DEF ScheduleReconnect
    <3> QED
      BY <1>2, <3>1, <3>2 DEF Truthful, Fresh
  <2>2. CASE retried
    BY <2>2 DEF Truthful, Fresh
  <2> QED
    BY <2>1, <2>2
<1>4. SuppressionMeant'
  BY DEF SuppressionMeant
<1>5. Remembered' /\ OutageHealed'
  <2>1. mounted = "yes" /\ missed' => before
    BY DEF Remembered, Missing
  <2>2. missed' => missed \/ Live' = {}
    BY DEF Missing, Live, ClientTypeOK
  <2> QED
    BY <1>2, <2>1, <2>2 DEF Remembered, OutageHealed
<1>6. NeverStranded'
  <2>1. CASE suppress
    <3>1. UNCHANGED <<retry, state>>
      BY <2>1
    <3>2. PICK c \in Socket : phase[c] = "closing"
      BY <2>1 DEF SuppressionMeant
    <3>3. CASE state = "unauthorized"
      BY <3>1, <3>3 DEF NeverStranded
    <3>4. CASE Live # {}
      <4>1. PICK u \in Socket : phase[u] = "live"
        BY <3>4 DEF Live
      <4>2. c \in Alive /\ u \in Alive /\ c # u
        BY <3>2, <4>1 DEF Alive
      <4> QED
        BY <1>2, <4>2 DEF NeverStranded
    <3> QED
      BY <2>1, <3>3, <3>4 DEF SuppressionMeant
  <2>2. CASE ~suppress
    BY <2>2 DEF ScheduleReconnect, NeverStranded
  <2> QED
    BY <2>1, <2>2
<1> QED
  BY <1>1, <1>3, <1>4, <1>5, <1>6

LEMMA ClosesKeepClient ==
    ASSUME ClientInv, NEW s \in Socket, ServerCloses(s) \/ Dropped(s)
    PROVE  ClientInv'
<1>1. phase[s] # "closed" /\ Closed(s)
  BY DEF ServerCloses, Dropped
<1>2. drops' \in 0..MaxDrops
  BY ClientAssumption DEF ClientAssumption, ServerCloses, Dropped, ClientInv, ClientTypeOK
<1> QED
  BY <1>1, <1>2, ClosedKeepsClient

LEMMA UnmountKeepsClient ==
    ASSUME ClientInv, Unmount
    PROVE  ClientInv'
<1> USE DEF ClientInv, Unmount, login
<1>1. ClientTypeOK'
  <2>1. phase' \in [Socket -> {"opening", "open", "acked", "refused", "live", "closing", "closed"}]
    BY DEF ClientTypeOK
  <2> QED
    BY <2>1, Bounds DEF ClientTypeOK
<1>2. Alive' = Alive \ {ws}
  BY DEF ClientTypeOK, Alive
<1>3. Truthful' /\ Fresh' /\ SuppressionMeant' /\ Remembered'
  BY <1>2 DEF Truthful, Fresh, SuppressionMeant, Remembered
<1>4. NeverStranded' /\ OutageHealed'
  BY DEF NeverStranded, OutageHealed
<1> QED
  BY <1>1, <1>3, <1>4

-----------------------------------------------------------------------------
LEMMA NextClient == ClientInv /\ [Next]_vars => ClientInv'
<1> SUFFICES ASSUME ClientInv, [Next]_vars PROVE ClientInv'
  OBVIOUS
<1>1. CASE Mount \/ Unmount \/ TimerFires
  BY <1>1, MountKeepsClient, UnmountKeepsClient, TimerKeepsClient
<1>2. ASSUME NEW t \in Token, StoreToken(t) \/ Revoke(t) PROVE ClientInv'
  BY <1>2, LoginsKeepClient
<1>3. ASSUME NEW s \in Socket, SocketStep(s) PROVE ClientInv'
  BY <1>3, OpenedKeepsClient, ServerKeepsClient, AckKeepsClient, RejectedKeepsClient,
     RejectedRetryKeepsClient, ClosesKeepClient DEF SocketStep
<1>4. CASE UNCHANGED vars
  <2>1. ClientTypeOK' /\ Alive' = Alive /\ Live' = Live
    BY <1>4 DEF ClientInv, ClientTypeOK, Alive, Live, vars, fixed, flags, login, retry
  <2>2. UNCHANGED <<phase, mounted, ws, suppress, timer, leaked, state, before, retried, missed>>
    BY <1>4 DEF vars, fixed, flags, retry
  <2> QED
    BY <2>1, <2>2, OtherwiseQuiet
<1> QED
  BY <1>1, <1>2, <1>3, <1>4 DEF Next

LEMMA ClientInvariant == Spec => []ClientInv
BY InitClient, NextClient, PTL DEF Spec

(* Every variable of the client keeps its type.                              *)
THEOREM ClientTypeCorrect == Spec => []ClientTypeOK
BY ClientInvariant, PTL DEF ClientInv

(* Until the provider answers a rejection there is one socket or one timer,  *)
(* for any number of sockets, closes and reconnects.                         *)
THEOREM OneSocket == Spec => []OneSocketUntilRetry
<1>1. ClientInv => OneSocketUntilRetry
  BY DEF ClientInv, Truthful, OneSocketUntilRetry
<1> QED
  BY <1>1, ClientInvariant, PTL

(* And nothing of the client is left once the provider has unmounted.        *)
THEOREM SilentOnceUnmounted == Spec => []SilentAfterUnmount
<1>1. ClientInv => SilentAfterUnmount
  BY DEF ClientInv, Truthful, SilentAfterUnmount
<1> QED
  BY <1>1, ClientInvariant, PTL

(* A suppressed close never leaves a mounted client with nothing under way.  *)
THEOREM ClientNotStranded == Spec => []NeverStranded
BY ClientInvariant, PTL DEF ClientInv

(* A live socket of a mounted client never covers up an outage that was not  *)
(* answered by an invalidation.                                              *)
THEOREM OutagesHealed == Spec => []OutageHealed
BY ClientInvariant, PTL DEF ClientInv
=============================================================================
