------------------------------ MODULE WSClient ------------------------------
(***************************************************************************)
(* The realtime connection of a client application: WSClient and the         *)
(* WSProvider that mounts it, hands it a token and answers a rejection.  The *)
(* client's flags are shared by all the sockets it ever opened, connect()    *)
(* forgets the old socket without closing it, and timers are overwritten     *)
(* without being cleared.                                                    *)
(***************************************************************************)
EXTENDS Naturals, FiniteSets

CONSTANTS
    Socket,         \* identities of sockets, used again once closed
    Token,
    FirstToken,     \* the token in storage when the provider mounts
    None,
    DegradedAfter,  \* DEGRADED_AFTER_ATTEMPTS
    MaxTimers,      \* bound: timers that reconnectTimer no longer names
    MaxDrops        \* bound: sockets lost by the network

ASSUME ClientAssumption ==
    /\ FirstToken \in Token /\ None \notin Socket \cup Token
    /\ DegradedAfter \in Nat \ {0} /\ MaxTimers \in Nat /\ MaxDrops \in Nat

VARIABLES
    cookieAuth,     \* the session is a cookie; otherwise a token is sent first
    mounted,        \* the effect of WSProvider: "new", "yes" or "no"
    ws,             \* this.ws
    phase,          \* of each socket, as the two ends see it
    attached,       \* sockets whose onclose is still set
    presented,      \* the token a socket carried to the server
    token,          \* this.token
    stored,         \* goosar_token in storage
    revoked,        \* tokens the server refuses
    awaiting,       \* awaitingAuthAck
    suppress,       \* suppressReconnectOnNextClose
    timer,          \* reconnectTimer is armed
    leaked,         \* armed timers that reconnectTimer no longer names
    attempt,        \* reconnectAttempt, counted up to DegradedAfter
    state,          \* WSConnectionState
    before,         \* hasConnectedBefore
    retried,        \* unauthorizedRetriedRef
    missed,         \* history: events passed by since the queries were invalidated
    drops

flags == <<ws, awaiting, suppress>>
retry == <<timer, leaked, attempt>>
login == <<stored, revoked>>
fixed == <<cookieAuth, mounted>>
vars == <<fixed, flags, phase, attached, presented, token, login, retry,
          state, before, retried, missed, drops>>

Live == {s \in Socket : phase[s] = "live"}
Alive == {s \in Socket : phase[s] # "closed"}

ClientTypeOK ==
    /\ cookieAuth \in BOOLEAN /\ mounted \in {"new", "yes", "no"}
    /\ ws \in Socket \cup {None}
    /\ phase \in [Socket -> {"opening", "open", "acked", "refused", "live", "closing", "closed"}]
    /\ attached \subseteq Socket
    /\ presented \in [Socket -> Token \cup {None}]
    /\ token \in Token /\ stored \in Token /\ revoked \subseteq Token
    /\ awaiting \in BOOLEAN /\ suppress \in BOOLEAN
    /\ timer \in BOOLEAN /\ leaked \in 0..MaxTimers /\ attempt \in 0..DegradedAfter
    /\ state \in {"connecting", "connected", "degraded", "unauthorized"}
    /\ before \in BOOLEAN /\ retried \in BOOLEAN /\ missed \in BOOLEAN
    /\ drops \in 0..MaxDrops

Init ==
    /\ cookieAuth \in BOOLEAN /\ mounted = "new"
    /\ ws = None /\ phase = [s \in Socket |-> "closed"] /\ attached = {}
    /\ presented = [s \in Socket |-> None]
    /\ token = FirstToken /\ stored = FirstToken /\ revoked = {}
    /\ awaiting = FALSE /\ suppress = FALSE
    /\ timer = FALSE /\ leaked = 0 /\ attempt = 0
    /\ state = "connecting" /\ before = FALSE /\ retried = FALSE
    /\ missed = FALSE /\ drops = 0

-----------------------------------------------------------------------------
(* The helpers of WSClient.  p is the phase of the sockets so far.           *)

(* connect(): the socket this.ws named is left as it is.                     *)
Connect(n, p) ==
    /\ p[n] = "closed"
    /\ ws' = n /\ awaiting' = FALSE /\ suppress' = FALSE
    /\ phase' = [p EXCEPT ![n] = "opening"]
    /\ attached' = attached \cup {n}
    /\ presented' = [presented EXCEPT ![n] = None]

(* MUTANT: the reconnect attempts are counted on.                            *)
ScheduleReconnectUncapped ==
    /\ timer => leaked < MaxTimers
    /\ leaked' = IF timer THEN leaked + 1 ELSE leaked
    /\ timer' = TRUE
    /\ attempt' = attempt + 1
    /\ state' = IF attempt' = DegradedAfter THEN "degraded" ELSE "connecting"

(* scheduleReconnect(): an armed timer is overwritten, not cleared.          *)
ScheduleReconnect ==
    /\ timer => leaked < MaxTimers
    /\ leaked' = IF timer THEN leaked + 1 ELSE leaked
    /\ timer' = TRUE
    /\ attempt' = IF attempt = DegradedAfter THEN attempt ELSE attempt + 1
    /\ state' = IF attempt' = DegradedAfter THEN "degraded" ELSE "connecting"

(* MUTANT: the client never notes that it was connected.                     *)
AuthenticatedForgetful(s) ==
    /\ phase' = [phase EXCEPT ![s] = "live"]
    /\ attempt' = 0 /\ awaiting' = FALSE /\ state' = "connected"
    /\ before' = FALSE
    /\ missed' = IF before THEN FALSE ELSE missed
    /\ UNCHANGED <<ws, suppress, timer, leaked>>

(* onAuthenticated(), for socket s: the reconnect callbacks run when the     *)
(* client was connected before.                                              *)
Authenticated(s) ==
    /\ phase' = [phase EXCEPT ![s] = "live"]
    /\ attempt' = 0 /\ awaiting' = FALSE /\ state' = "connected"
    /\ before' = TRUE
    /\ missed' = IF before THEN FALSE ELSE missed
    /\ UNCHANGED <<ws, suppress, timer, leaked>>

-----------------------------------------------------------------------------
(* The provider.                                                             *)

Mount ==
    /\ mounted = "new" /\ mounted' = "yes"
    /\ token' = stored
    /\ \E n \in Socket : Connect(n, phase)
    /\ UNCHANGED <<cookieAuth, login, retry, state, before, retried, missed, drops>>

(* MUTANT: the pending reconnect is not cancelled.                           *)
UnmountKeepsTimer ==
    /\ mounted = "yes" /\ mounted' = "no"
    /\ ws' = None
    /\ phase' = [s \in Socket |-> IF s = ws THEN "closed" ELSE phase[s]]
    /\ attached' = attached \ {ws}
    /\ before' = FALSE /\ missed' = FALSE
    /\ attempt' = 0 /\ awaiting' = FALSE /\ suppress' = FALSE
    /\ UNCHANGED <<cookieAuth, presented, token, login, timer, leaked, state, retried, drops>>

(* disconnect(): the socket and the timer the client knows of go, and every  *)
(* callback with them.                                                       *)
Unmount ==
    /\ mounted = "yes" /\ mounted' = "no"
    /\ ws' = None /\ timer' = FALSE
    /\ phase' = [s \in Socket |-> IF s = ws THEN "closed" ELSE phase[s]]
    /\ attached' = attached \ {ws}
    /\ before' = FALSE /\ missed' = FALSE
    /\ attempt' = 0 /\ awaiting' = FALSE /\ suppress' = FALSE
    /\ UNCHANGED <<cookieAuth, presented, token, login, leaked, state, retried, drops>>

(* Somebody logs in again, or the session is renewed.                        *)
StoreToken(t) ==
    /\ t # stored /\ t \notin revoked
    /\ stored' = t
    /\ UNCHANGED <<fixed, flags, phase, attached, presented, token, revoked, retry,
                   state, before, retried, missed, drops>>

Revoke(t) ==
    /\ t \notin revoked /\ ~cookieAuth
    /\ revoked' = revoked \cup {t}
    /\ UNCHANGED <<fixed, flags, phase, attached, presented, token, stored, retry,
                   state, before, retried, missed, drops>>

-----------------------------------------------------------------------------
(* Sockets.                                                                  *)

(* onopen.  With a token the frame goes out on this.ws, which need not be    *)
(* the socket that opened; send() throws on one that is still opening.       *)
Opened(s) ==
    /\ phase[s] = "opening"
    /\ \/ /\ cookieAuth /\ Authenticated(s)
          /\ UNCHANGED presented
       \/ /\ ~cookieAuth
          /\ awaiting' = TRUE
          /\ phase' = [phase EXCEPT ![s] = "open"]
          /\ presented' = IF ws # None /\ phase'[ws] = "open" /\ presented[ws] = None
                            THEN [presented EXCEPT ![ws] = token] ELSE presented
          /\ UNCHANGED <<ws, suppress, retry, state, before, missed>>
    /\ UNCHANGED <<fixed, attached, token, login, retried, drops>>

ServerAccepts(s) ==
    /\ phase[s] = "open" /\ presented[s] \notin revoked \cup {None}
    /\ phase' = [phase EXCEPT ![s] = "acked"]
    /\ UNCHANGED <<fixed, flags, attached, presented, token, login, retry,
                   state, before, retried, missed, drops>>

(* A token the server does not accept, or no token in time: an error frame,  *)
(* then the close.                                                           *)
ServerRefuses(s) ==
    /\ phase[s] = "open" /\ presented[s] \in revoked \cup {None}
    /\ phase' = [phase EXCEPT ![s] = "refused"]
    /\ UNCHANGED <<fixed, flags, attached, presented, token, login, retry,
                   state, before, retried, missed, drops>>

AckArrives(s) ==
    /\ phase[s] = "acked"
    /\ Authenticated(s)
    /\ UNCHANGED <<fixed, attached, presented, token, login, retried, drops>>

(* The server's error frame has no type: it is a rejection only for a client *)
(* that awaits its ack.                                                      *)
RefusalDropped(s) ==
    /\ phase[s] = "refused" /\ ~awaiting
    /\ phase' = [phase EXCEPT ![s] = "closing"]
    /\ UNCHANGED <<fixed, flags, attached, presented, token, login, retry,
                   state, before, retried, missed, drops>>

(* handleAuthError() when nobody answers the rejection.                      *)
Rejected(s) ==
    /\ phase[s] = "refused" /\ awaiting
    /\ mounted # "yes" \/ retried
    /\ phase' = [phase EXCEPT ![s] = "closing"]
    /\ awaiting' = FALSE /\ suppress' = TRUE /\ state' = "unauthorized"
    /\ UNCHANGED <<fixed, ws, attached, presented, token, login, retry,
                   before, retried, missed, drops>>

(* MUTANT: the rejected token is tried again.                                *)
RejectedRetrySame(s) ==
    /\ phase[s] = "refused" /\ awaiting
    /\ mounted = "yes" /\ ~retried
    /\ retried' = TRUE /\ state' = "unauthorized" /\ token' = token
    /\ \E n \in Socket : Connect(n, [phase EXCEPT ![s] = "closing"])
    /\ UNCHANGED <<fixed, login, retry, before, missed, drops>>

(* handleAuthError() with the provider's callback, once per mount: whatever  *)
(* token storage holds now is tried, and connect() takes back the            *)
(* suppression of the close that is still to come.                           *)
RejectedRetry(s) ==
    /\ phase[s] = "refused" /\ awaiting
    /\ mounted = "yes" /\ ~retried
    /\ retried' = TRUE /\ state' = "unauthorized" /\ token' = stored
    /\ \E n \in Socket : Connect(n, [phase EXCEPT ![s] = "closing"])
    /\ UNCHANGED <<fixed, login, retry, before, missed, drops>>

(* The last live socket is gone.                                             *)
Missing(p) == Live # {} /\ \A s \in Socket : p[s] # "live"

(* MUTANT: the suppression is not taken back by the close it was meant for.  *)
ClosedStillSuppressed(s) ==
    /\ phase' = [phase EXCEPT ![s] = "closed"]
    /\ missed' = (missed \/ Missing(phase'))
    /\ attached' = attached \ {s}
    /\ suppress' = suppress
    /\ IF suppress THEN UNCHANGED <<retry, state>> ELSE ScheduleReconnect
    /\ UNCHANGED <<fixed, ws, awaiting, presented, token, login, before, retried>>

(* onclose.                                                                  *)
Closed(s) ==
    /\ phase' = [phase EXCEPT ![s] = "closed"]
    /\ missed' = (missed \/ Missing(phase'))
    /\ attached' = attached \ {s}
    /\ suppress' = FALSE
    /\ IF suppress THEN UNCHANGED <<retry, state>> ELSE ScheduleReconnect
    /\ UNCHANGED <<fixed, ws, awaiting, presented, token, login, before, retried>>

ServerCloses(s) ==
    /\ phase[s] = "closing" /\ Closed(s)
    /\ UNCHANGED drops

Dropped(s) ==
    /\ phase[s] \notin {"closing", "closed"} /\ drops < MaxDrops
    /\ Closed(s)
    /\ drops' = drops + 1

(* MUTANT: the timer is a repeating one.                                     *)
TimerFiresOn ==
    /\ \/ timer /\ UNCHANGED <<timer, leaked>>
       \/ leaked > 0 /\ leaked' = leaked - 1 /\ UNCHANGED timer
    /\ \E n \in Socket : Connect(n, phase)
    /\ UNCHANGED <<fixed, token, login, attempt, state, before, retried, missed, drops>>

(* The timer reconnectTimer names, or one it named before.                   *)
TimerFires ==
    /\ \/ timer /\ timer' = FALSE /\ UNCHANGED leaked
       \/ leaked > 0 /\ leaked' = leaked - 1 /\ UNCHANGED timer
    /\ \E n \in Socket : Connect(n, phase)
    /\ UNCHANGED <<fixed, token, login, attempt, state, before, retried, missed, drops>>

SocketStep(s) ==
    \/ Opened(s) \/ ServerAccepts(s) \/ ServerRefuses(s) \/ AckArrives(s)
    \/ RefusalDropped(s) \/ Rejected(s) \/ RejectedRetry(s) \/ ServerCloses(s) \/ Dropped(s)

Next ==
    \/ Mount \/ Unmount \/ TimerFires
    \/ \E t \in Token : StoreToken(t) \/ Revoke(t)
    \/ \E s \in Socket : SocketStep(s)

Spec == Init /\ [][Next]_vars

(***************************************************************************)
(* Fairness: timers fire, and the two ends of a socket get on with it.  The  *)
(* network loses at most MaxDrops sockets.                                   *)
(***************************************************************************)
Progress(s) ==
    \/ Opened(s) \/ ServerAccepts(s) \/ ServerRefuses(s) \/ AckArrives(s)
    \/ RefusalDropped(s) \/ Rejected(s) \/ RejectedRetry(s) \/ ServerCloses(s)

FairSpec == Spec /\ WF_vars(TimerFires) /\ \A s \in Socket : WF_vars(Progress(s))

-----------------------------------------------------------------------------
(* Until the provider answers a rejection, the client has one socket or one  *)
(* timer, however sockets, timers and the application come and go: no event  *)
(* is handled twice.                                                         *)
OneSocketUntilRetry ==
    ~retried =>
        /\ \A s, u \in Alive : s = u
        /\ Alive # {} => ~timer
        /\ leaked = 0

(* And once the provider has unmounted nothing of it reconnects.             *)
SilentAfterUnmount ==
    mounted = "no" /\ ~retried => Alive = {} /\ ~timer /\ leaked = 0

(* A client that still wants a connection has a socket or a timer under way, *)
(* whichever socket used up the suppression of a close, unless it was told   *)
(* that its session is over.                                                 *)
NeverStranded ==
    mounted = "yes" => state = "unauthorized" \/ Alive # {} \/ timer \/ leaked > 0

(* What an outage hid is fetched again by the time a socket is live.         *)
OutageHealed == mounted = "yes" /\ Live # {} => ~missed

(* If the token in storage is always one the server takes, the client gets   *)
(* connected, although the token it started with may be refused meanwhile.   *)
RenewedTokenConnects ==
    [](stored \notin revoked) => (mounted = "yes" ~> mounted # "yes" \/ Live # {})
=============================================================================
