--------------------------- MODULE EmptyClaimCache ---------------------------
(***************************************************************************)
(* The verdicts in Redis that let a claim request skip the database: "this  *)
(* runtime has no queued row".  A verdict carries the runtime's version as   *)
(* it was before the database was asked, and whoever queues a row bumps the  *)
(* version afterwards, so a verdict that overlaps with an enqueue never      *)
(* matches.  Redis may fail, keys expire, servers die between two steps, and *)
(* Redis may come back empty.                                                *)
(*                                                                         *)
(* A version key that does not exist reads as 0.  Which rows of a runtime   *)
(* can be claimed, and by whom, is module TaskQueue's concern.               *)
(***************************************************************************)
EXTENDS Naturals, FiniteSets

CONSTANTS
    Task,        \* identities of rows
    Runtime,
    RuntimeOf,   \* the runtime a row is for
    Handler,     \* claim requests that may be in progress together
    Batch,       \* the sets of runtimes a request may ask for
    None,
    MaxVersion   \* bound: bumps of one runtime

ASSUME CacheAssumption ==
    /\ RuntimeOf \in [Task -> Runtime]
    /\ Batch \subseteq SUBSET Runtime
    /\ None \notin Nat \cup Runtime
    /\ MaxVersion \in Nat

VARIABLES
    queued,      \* rows whose status is queued
    bumping,     \* rows that were queued and whose bump has not run yet
    unannounced, \* queued rows whose bump failed or died with its server
    version,     \* mul:claim:runtime:version:<id>
    verdict,     \* mul:claim:runtime:empty:<id>, None when there is no key
    request,     \* the claim request each handler is serving
    lost         \* history: Redis lost its data

vars == <<queued, bumping, unannounced, version, verdict, request, lost>>
rowVars == <<queued, bumping, unannounced>>
redisVars == <<version, verdict, lost>>

Unread == [r \in Runtime |-> None]

IdleRequest == [pc |-> "idle", todo |-> {}, asking |-> None,
                observed |-> Unread, empty |-> {}, found |-> {}]

Request == [pc: {"idle", "asking", "marking"}, todo: SUBSET Runtime,
            asking: Runtime \cup {None}, observed: [Runtime -> Nat \cup {None}],
            empty: SUBSET Runtime, found: SUBSET Task]

(* Every variable keeps its type; a request marks only what it read, and     *)
(* only when it has listed.                                                  *)
CacheTypeOK ==
    /\ queued \subseteq Task /\ bumping \subseteq Task /\ unannounced \subseteq Task
    /\ version \in [Runtime -> Nat]
    /\ verdict \in [Runtime -> Nat \cup {None}]
    /\ request \in [Handler -> Request] /\ lost \in BOOLEAN
    /\ \A h \in Handler :
         /\ \A r \in request[h].empty : request[h].observed[r] # None
         /\ request[h].pc = "asking" \/ request[h].asking # None => request[h].empty = {}

Init ==
    /\ queued = {} /\ bumping = {} /\ unannounced = {}
    /\ version = [r \in Runtime |-> 0]
    /\ verdict = Unread
    /\ request = [h \in Handler |-> IdleRequest]
    /\ lost = FALSE

-----------------------------------------------------------------------------
(* Rows come and go.  Inserting, promoting and requeueing a row all commit   *)
(* first and call notifyTaskAvailable afterwards.                            *)

QueuedAt(r) == {t \in queued : RuntimeOf[t] = r}

RoomToBump(r) ==
    version[r] + Cardinality({t \in bumping : RuntimeOf[t] = r}) < MaxVersion

QueueRow(t) ==
    /\ t \notin queued \cup bumping
    /\ RoomToBump(RuntimeOf[t])
    /\ queued' = queued \cup {t}
    /\ bumping' = bumping \cup {t}
    /\ unannounced' = unannounced \ {t}
    /\ UNCHANGED <<redisVars, request>>

Incremented(r) == version' = [version EXCEPT ![r] = @ + 1]

Bump(t) ==
    /\ t \in bumping
    /\ bumping' = bumping \ {t}
    /\ Incremented(RuntimeOf[t])
    /\ UNCHANGED <<queued, unannounced, verdict, request, lost>>

(* Redis does not answer, or the server dies before it is asked.             *)
BumpFails(t) ==
    /\ t \in bumping
    /\ bumping' = bumping \ {t}
    /\ unannounced' = unannounced \cup ({t} \cap queued)
    /\ UNCHANGED <<queued, redisVars, request>>

(* A task finished: its runtime may have work that was blocked until now.    *)
BumpFinished(r) ==
    /\ RoomToBump(r)
    /\ Incremented(r)
    /\ UNCHANGED <<rowVars, verdict, request, lost>>

(* The row is claimed, cancelled or expired.                                 *)
TakeRow(t) ==
    /\ t \in queued
    /\ queued' = queued \ {t}
    /\ unannounced' = unannounced \ {t}
    /\ UNCHANGED <<bumping, redisVars, request>>

-----------------------------------------------------------------------------
(* A claim request.                                                          *)

IsEmpty(r) == verdict[r] = version[r]

Begin(h, rs) ==
    /\ request[h].pc = "idle"
    /\ request' = [request EXCEPT ![h] = [IdleRequest EXCEPT !.pc = "asking", !.todo = rs]]
    /\ UNCHANGED <<rowVars, redisVars>>

Asking(h, r) ==
    /\ request[h].pc = "asking" /\ request[h].asking = None
    /\ r \in request[h].todo

(* One MGET reads verdict and version; the runtime is skipped.               *)
CheckHit(h, r) ==
    /\ Asking(h, r) /\ IsEmpty(r)
    /\ request' = [request EXCEPT ![h].todo = @ \ {r}]
    /\ UNCHANGED <<rowVars, redisVars>>

(* No matching verdict, or Redis does not answer.                            *)
CheckMiss(h, r) ==
    /\ Asking(h, r)
    /\ request' = [request EXCEPT ![h].todo = @ \ {r}, ![h].asking = r]
    /\ UNCHANGED <<rowVars, redisVars>>

(* CurrentVersion reads 0 when Redis does not answer.                        *)
ReadVersion(h) ==
    LET r == request[h].asking
    IN /\ r # None
       /\ \E v \in {version[r], 0} :
            request' = [request EXCEPT ![h] = [@ EXCEPT !.asking = None, !.observed[r] = v]]
       /\ UNCHANGED <<rowVars, redisVars>>

Observed(h) == {r \in Runtime : request[h].observed[r] # None}

(* MUTANT: runtimes that were skipped count as listed and found empty.       *)
ListEveryRuntime(h) ==
    /\ request[h].pc = "asking" /\ request[h].asking = None /\ request[h].todo = {}
    /\ request' = [request EXCEPT
         ![h].pc = "marking",
         ![h].empty = {r \in Runtime : QueuedAt(r) = {}},
         ![h].found = UNION {QueuedAt(r) : r \in Observed(h)}]
    /\ UNCHANGED <<rowVars, redisVars>>

ListRows(h) ==
    /\ request[h].pc = "asking" /\ request[h].asking = None /\ request[h].todo = {}
    /\ request' = [request EXCEPT
         ![h].pc = "marking",
         ![h].empty = {r \in Observed(h) : QueuedAt(r) = {}},
         ![h].found = UNION {QueuedAt(r) : r \in Observed(h)}]
    /\ UNCHANGED <<rowVars, redisVars>>

(* MUTANT: the verdict carries the version of the moment it is written.      *)
MarkEmptyNow(h, r) ==
    /\ r \in request[h].empty
    /\ request' = [request EXCEPT ![h].empty = @ \ {r}]
    /\ verdict' = [verdict EXCEPT ![r] = version[r]]
    /\ UNCHANGED <<rowVars, version, lost>>

MarkEmpty(h, r) ==
    /\ r \in request[h].empty
    /\ request' = [request EXCEPT ![h].empty = @ \ {r}]
    /\ \/ verdict' = [verdict EXCEPT ![r] = request[h].observed[r]]
       \/ UNCHANGED verdict
    /\ UNCHANGED <<rowVars, version, lost>>

(* The request goes on to claim what it found.                               *)
Finish(h) ==
    /\ request[h].pc = "marking" /\ request[h].empty = {}
    /\ request' = [request EXCEPT ![h] = IdleRequest]
    /\ UNCHANGED <<rowVars, redisVars>>

(* The query failed, the client went away or the server died.                *)
Abort(h) ==
    /\ request[h].pc # "idle"
    /\ request' = [request EXCEPT ![h] = IdleRequest]
    /\ UNCHANGED <<rowVars, redisVars>>

-----------------------------------------------------------------------------
(* Redis.                                                                    *)

(* MUTANT: the verdict is stored without a TTL.                              *)
VerdictStays(r) == FALSE

VerdictExpires(r) ==
    /\ verdict[r] # None
    /\ verdict' = [verdict EXCEPT ![r] = None]
    /\ UNCHANGED <<rowVars, version, request, lost>>

(* Every read and every bump gives a version another 24 hours, a verdict     *)
(* lasts 3 minutes: the version outlives the requests and verdicts that saw  *)
(* it or were under way when it was bumped.                                  *)
VersionExpires(r) ==
    /\ version[r] > 0
    /\ verdict[r] = None
    /\ \A h \in Handler : request[h].observed[r] = None
    /\ version' = [version EXCEPT ![r] = 0]
    /\ UNCHANGED <<rowVars, verdict, request, lost>>

RedisLosesData ==
    /\ version' = [r \in Runtime |-> 0]
    /\ verdict' = Unread
    /\ lost' = TRUE
    /\ UNCHANGED <<rowVars, request>>

-----------------------------------------------------------------------------
RowStep(t) == QueueRow(t) \/ Bump(t) \/ BumpFails(t) \/ TakeRow(t)

RequestStep(h) ==
    \/ \E rs \in Batch : Begin(h, rs)
    \/ \E r \in Runtime : CheckHit(h, r) \/ CheckMiss(h, r) \/ MarkEmpty(h, r)
    \/ ReadVersion(h) \/ ListRows(h) \/ Finish(h) \/ Abort(h)

RuntimeStep(r) == BumpFinished(r) \/ VerdictExpires(r) \/ VersionExpires(r)

Next ==
    \/ \E t \in Task : RowStep(t)
    \/ \E h \in Handler : RequestStep(h)
    \/ \E r \in Runtime : RuntimeStep(r)
    \/ RedisLosesData

Spec == Init /\ [][Next]_vars

(* Daemons keep polling, keys expire, and a request that is made again and   *)
(* again gets through some time.  Nothing is assumed of bumps.               *)
Fairness ==
    /\ \A r \in Runtime : WF_vars(VerdictExpires(r))
    /\ \A h \in Handler :
         /\ \A rs \in Batch : WF_vars(Begin(h, rs))
         /\ \A r \in Runtime : /\ SF_vars(CheckHit(h, r) \/ CheckMiss(h, r))
                               /\ WF_vars(MarkEmpty(h, r))
         /\ SF_vars(ReadVersion(h)) /\ SF_vars(ListRows(h)) /\ WF_vars(Finish(h))

FairSpec == Spec /\ Fairness

-----------------------------------------------------------------------------
Announced(t) == t \in queued \ (bumping \cup unannounced)

(* A row whose bump went through is not hidden by a verdict, whichever       *)
(* requests listed before it was committed and marked after the bump, and    *)
(* however often they failed to read the version, until Redis loses its      *)
(* data: then a request may still store a verdict of the version it read     *)
(* before, and the bumps reach that number again.                            *)
VisibleUntilLoss ==
    ~lost => \A t \in Task : Announced(t) => ~IsEmpty(RuntimeOf[t])

(* Although bumps may all be lost, and Redis with them, a queued row is      *)
(* seen by a request in the end: no verdict outlives its TTL unless somebody *)
(* looked again and found nothing.                                           *)
QueuedRowSeen ==
    \A t \in Task :
        t \in queued ~> (t \notin queued \/ \E h \in Handler : t \in request[h].found)
=============================================================================
