------------------------------ MODULE TaskQueue ------------------------------
(***************************************************************************)
(* The agent task queue: the rows of agent_task_queue and everything that   *)
(* writes them.  Server replicas run claim requests (one Handler each), a   *)
(* sweeper and the users' commands; daemons run the tasks they were handed  *)
(* and report back.  Each action is one database statement or one           *)
(* transaction of a handler, because other requests, the sweeper and a      *)
(* crash can come between two of them.                                      *)
(*                                                                         *)
(* Priorities are abstracted: where the code takes the first row of an      *)
(* ORDER BY, any row qualifies.  The empty-claim cache is not here: it only *)
(* ever hides candidates for a while (module EmptyClaimCache).              *)
(***************************************************************************)
EXTENDS TaskRows

CONSTANTS
    Handler,        \* claim requests that may be in progress together
    Daemon,
    RuntimesOf,     \* the runtimes a daemon registered and polls for
    MaxTasks,       \* free slots a daemon asks for in one claim request
    ReportedReason, \* failure reasons a daemon reports
    FallbackAgent,  \* agents a routed comment falls back to
    MaxRoots,       \* bound: rows inserted other than by a retry
    MaxClaims       \* bound: claims of one row

ASSUME QueueAssumption ==
    /\ None \notin Handler \cup Daemon
    /\ RuntimesOf \in [Daemon -> SUBSET Runtime]
    /\ MaxTasks \in Nat \ {0}
    /\ ReportedReason \subseteq Reason \ {"none"}
    /\ FallbackAgent \subseteq Agent
    /\ MaxRoots \in Nat /\ MaxClaims \in Nat

(* The longest chain of retries a root can grow; with this many rows per    *)
(* root a retry always finds a row to insert.                               *)
MaxChain == IF MaxAttempts > 1 /\ "provider_network" \in ReportedReason
            THEN RetryCeiling("provider_network", MaxAttempts) ELSE MaxAttempts

ASSUME RoomAssumption == Cardinality(Task) >= MaxRoots * MaxChain

VARIABLES
    queue,          \* the table agent_task_queue
    runtime,        \* agent_runtime: status and how long it has been silent
    claim,          \* the claim request each handler is serving
    recovering,     \* failed rows a bulk sweep still has to retry
    acknowledging,  \* started rows whose fallbacks are still to be cancelled
    rerunning,      \* reruns that cancelled but have not enqueued yet
    linking,        \* completed quick creates whose issue is yet to be linked
    unread,         \* history: rows a report failed without having read them
    workers,        \* tasks the daemons hold
    rebooted        \* runtimes whose daemon restarted and recovers orphans

serverVars == <<recovering, acknowledging, rerunning, linking, unread>>
daemonVars == <<workers, rebooted>>
vars == <<queue, runtime, claim, serverVars, daemonVars>>

IdleClaim == [pc |-> "idle", daemon |-> None, listening |-> FALSE,
              agents |-> {}, holds |-> None, claimed |-> {}, ready |-> {}]

Claimed == [task: Task, stamp: Nat]

Worker == [daemon: Daemon \cup {None}, task: Task, stamp: Nat,
           phase: {"preparing", "running", "failing"}]

ClaimRequest == [pc: {"idle", "reclaiming", "listing", "claiming"},
                 daemon: Daemon \cup {None}, listening: BOOLEAN,
                 agents: SUBSET Agent, holds: Agent \cup {None},
                 claimed: SUBSET Claimed, ready: SUBSET Claimed]

(* Every variable keeps its type.                                           *)
TypeOK ==
    /\ queue \in [Task -> Row]
    /\ runtime \in [Runtime -> [online: BOOLEAN, silence: 0..2]]
    /\ claim \in [Handler -> ClaimRequest]
    /\ recovering \subseteq Task
    /\ acknowledging \subseteq Task
    /\ rerunning \subseteq Agent \X Issue
    /\ linking \subseteq Task /\ unread \subseteq Task
    /\ workers \subseteq Worker
    /\ rebooted \subseteq Runtime

Init ==
    /\ queue = [t \in Task |-> AbsentRow]
    /\ runtime = [r \in Runtime |-> [online |-> TRUE, silence |-> 0]]
    /\ claim = [h \in Handler |-> IdleClaim]
    /\ recovering = {} /\ acknowledging = {} /\ rerunning = {}
    /\ linking = {} /\ unread = {}
    /\ workers = {} /\ rebooted = {}

-----------------------------------------------------------------------------
(* Rows enter the queue.                                                    *)

Roots == {t \in Task : queue[t].status # "absent" /\ queue[t].parent = None}

RoomForRoot == Cardinality(Roots) < MaxRoots /\ Absent(queue) # {}

(* A row for an issue, a chat session, a quick create or an autopilot run.  *)
(* The index refuses a second pending row of the same issue and agent.      *)
Enqueue(a, l, r) ==
    /\ RoomForRoot
    /\ PendingUnique(Insert(queue, QueuedRow(a, l, r)))
    /\ queue' = Insert(queue, QueuedRow(a, l, r))
    /\ UNCHANGED <<runtime, claim, serverVars, daemonVars>>

(* The comment handler inserts the fallback of row t in a later statement   *)
(* than t itself, so t may have moved on by then.                           *)
EnqueueFallback(t, a, r) ==
    /\ RoomForRoot
    /\ queue[t].lane \in Issue
    /\ queue[t].parent = None /\ queue[t].escalates = None
    /\ a # queue[t].agent
    /\ \A u \in Task : queue[u].escalates # t
    /\ queue' = Insert(queue, FallbackRow(a, queue[t].lane, r, t))
    /\ UNCHANGED <<runtime, claim, serverVars, daemonVars>>

Standing(f) == queue[f].status \in {"deferred", "queued", "dispatched", "waiting"}

(* MUTANT: the comment cancels its fallbacks whatever became of them.        *)
FallbacksOfAnyStatus(a, i) == {f \in Task : /\ queue[f].escalates # None
                                           /\ queue[queue[f].escalates].agent = a
                                           /\ queue[queue[f].escalates].lane = i}

(* A comment of agent a on issue i answers for every row it was asked for.  *)
FallbacksFor(a, i) == {f \in Task : /\ Standing(f)
                                    /\ queue[f].escalates # None
                                    /\ queue[queue[f].escalates].agent = a
                                    /\ queue[queue[f].escalates].lane = i}

AgentComments(a, i) ==
    /\ FallbacksFor(a, i) # {}
    /\ queue' = End(queue, FallbacksFor(a, i), "cancelled", "none")
    /\ UNCHANGED <<runtime, claim, serverVars, daemonVars>>

-----------------------------------------------------------------------------
(* Users cancel and rerun.                                                  *)

CancelRows(rows) ==
    /\ rows # {}
    /\ queue' = End(queue, rows, "cancelled", "none")

Cancel ==
    /\ \/ \E t \in Task : CancelRows({t} \cap {u \in Task : queue[u].status \in Live})
       \/ \E a \in Agent :
            CancelRows({t \in Task : queue[t].status \in Live /\ queue[t].agent = a})
       \/ \E l \in Issue \cup Chat :
            CancelRows({t \in Task : queue[t].status \in Live /\ queue[t].lane = l})
    /\ UNCHANGED <<runtime, claim, serverVars, daemonVars>>

Rerun(a, i) ==
    /\ <<a, i>> \notin rerunning
    /\ \E t \in Task : queue[t].agent = a /\ queue[t].lane = i
    /\ RoomForRoot
    /\ queue' = End(queue, {t \in Task : /\ queue[t].status \in Live
                                         /\ queue[t].agent = a
                                         /\ queue[t].lane = i}, "cancelled", "none")
    /\ rerunning' = rerunning \cup {<<a, i>>}
    /\ UNCHANGED <<runtime, claim, recovering, acknowledging, linking, unread, daemonVars>>

(* The second half of a rerun fails if somebody enqueued in between.        *)
RerunEnqueue(a, i, r) ==
    /\ <<a, i>> \in rerunning
    /\ rerunning' = rerunning \ {<<a, i>>}
    /\ LET added == Insert(queue, QueuedRow(a, i, r))
       IN queue' = IF RoomForRoot /\ PendingUnique(added) THEN added ELSE queue
    /\ UNCHANGED <<runtime, claim, recovering, acknowledging, linking, unread, daemonVars>>

-----------------------------------------------------------------------------
(* A claim request of a daemon: promote, reclaim, list, claim, deliver.     *)

Fresh(r) == runtime[r].online /\ runtime[r].silence = 0

Promotable(d) == {t \in Task : /\ queue[t].status = "deferred"
                               /\ queue[t].age > 0
                               /\ queue[t].runtime \in RuntimesOf[d]
                               /\ Fresh(queue[t].runtime)}

(* One UPDATE promotes every due row; a clash with the index fails the      *)
(* whole request before anything else happens.                              *)
Poll(h, d) ==
    /\ claim[h].pc = "idle"
    /\ LET promoted == [t \in Task |->
              IF t \in Promotable(d)
              THEN [queue[t] EXCEPT !.status = "queued", !.age = 0]
              ELSE queue[t]]
       IN PendingUnique(promoted) /\ queue' = promoted
    /\ claim' = [claim EXCEPT ![h] =
                   [IdleClaim EXCEPT !.pc = "reclaiming", !.daemon = d, !.listening = TRUE]]
    /\ UNCHANGED <<runtime, serverVars, daemonVars>>

Reclaimable(d) == {t \in Task : /\ queue[t].status = "dispatched"
                                /\ queue[t].age > 0
                                /\ ~queue[t].leased
                                /\ queue[t].runtime \in RuntimesOf[d]
                                /\ queue[t].stamp < MaxClaims}

(* MUTANT: a reclaim extends the lease but keeps dispatched_at.              *)
DispatchedKeepingStamp(q, rows) ==
    [t \in Task |-> IF t \in rows
                    THEN [q[t] EXCEPT !.status = "dispatched", !.age = 0, !.leased = TRUE,
                            !.stamp = IF q[t].status = "queued" THEN @ + 1 ELSE @]
                    ELSE q[t]]

Dispatched(q, rows) ==
    [t \in Task |-> IF t \in rows
                    THEN [q[t] EXCEPT !.status = "dispatched", !.stamp = @ + 1,
                                      !.age = 0, !.leased = TRUE]
                    ELSE q[t]]

ReclaimStale(h) ==
    /\ claim[h].pc = "reclaiming"
    /\ \E rows \in SUBSET Reclaimable(claim[h].daemon) :
         /\ \/ rows = Reclaimable(claim[h].daemon)
            \/ Cardinality(rows) = MaxTasks
         /\ Cardinality(rows) <= MaxTasks
         /\ queue' = Dispatched(queue, rows)
         /\ claim' = [claim EXCEPT
              ![h].pc = IF Cardinality(rows) = MaxTasks THEN "claiming" ELSE "listing",
              ![h].claimed = {[task |-> t, stamp |-> queue'[t].stamp] : t \in rows}]
    /\ UNCHANGED <<runtime, serverVars, daemonVars>>

ListCandidates(h) ==
    /\ claim[h].pc = "listing"
    /\ claim' = [claim EXCEPT
         ![h].pc = "claiming",
         ![h].agents = {queue[t].agent : t \in
              {u \in Task : /\ queue[u].status = "queued"
                            /\ queue[u].runtime \in RuntimesOf[claim[h].daemon]}}]
    /\ UNCHANGED <<queue, runtime, serverVars, daemonVars>>

(* MUTANT: the agent row is read without FOR UPDATE.                         *)
CountWithoutLock(h, a) ==
    /\ claim[h].pc = "claiming" /\ claim[h].holds = None
    /\ a \in claim[h].agents
    /\ Cardinality(claim[h].claimed) < MaxTasks
    /\ claim' = [claim EXCEPT
         ![h].agents = @ \ {a},
         ![h].holds = IF Cardinality(ActiveRows(queue, a)) < MaxConcurrent[a]
                      THEN a ELSE None]
    /\ UNCHANGED <<queue, runtime, serverVars, daemonVars>>

(* ClaimTask locks the agent row, then counts what the agent has active.    *)
LockAgent(h, a) ==
    /\ claim[h].pc = "claiming" /\ claim[h].holds = None
    /\ a \in claim[h].agents
    /\ Cardinality(claim[h].claimed) < MaxTasks
    /\ \A g \in Handler : claim[g].holds # a
    /\ claim' = [claim EXCEPT
         ![h].agents = @ \ {a},
         ![h].holds = IF Cardinality(ActiveRows(queue, a)) < MaxConcurrent[a]
                      THEN a ELSE None]
    /\ UNCHANGED <<queue, runtime, serverVars, daemonVars>>

(* ClaimAgentTask picks any claimable row of the agent, on whatever runtime *)
(* it sits, and the commit releases the agent.  A row of a runtime outside  *)
(* the request stays dispatched but is left out of the response.            *)
ClaimRow(h) ==
    LET a == claim[h].holds
        rows == {t \in Task : /\ queue[t].agent = a /\ Claimable(queue, t)
                              /\ queue[t].stamp < MaxClaims}
    IN /\ a # None
       /\ \/ /\ rows = {}
             /\ claim' = [claim EXCEPT ![h].holds = None]
             /\ UNCHANGED queue
          \/ \E t \in rows :
               /\ queue' = Dispatched(queue, {t})
               /\ claim' = [claim EXCEPT
                    ![h].holds = None,
                    ![h].claimed = IF queue[t].runtime \in RuntimesOf[claim[h].daemon]
                                   THEN @ \cup {[task |-> t, stamp |-> queue'[t].stamp]}
                                   ELSE @]
       /\ UNCHANGED <<runtime, serverVars, daemonVars>>

(* A database error ends the search; what was claimed so far is delivered.  *)
ClaimError(h) ==
    /\ claim[h].pc \in {"listing", "claiming"}
    /\ claim' = [claim EXCEPT ![h] =
         IF claim[h].claimed = {} THEN IdleClaim
         ELSE [claim[h] EXCEPT !.pc = "claiming", !.agents = {}, !.holds = None]]
    /\ UNCHANGED <<queue, runtime, serverVars, daemonVars>>

DoneClaiming(h) ==
    /\ claim[h].pc = "claiming" /\ claim[h].holds = None
    /\ claim[h].agents = {} \/ Cardinality(claim[h].claimed) >= MaxTasks

(* The row's response was built and its token stored.                       *)
Deliver(h, c) ==
    /\ DoneClaiming(h) /\ c \in claim[h].claimed
    /\ claim' = [claim EXCEPT ![h].claimed = @ \ {c}, ![h].ready = @ \cup {c}]
    /\ UNCHANGED <<queue, runtime, serverVars, daemonVars>>

(* The response could not be built: the row stays dispatched, undelivered.  *)
Withhold(h, c) ==
    /\ DoneClaiming(h) /\ c \in claim[h].claimed
    /\ claim' = [claim EXCEPT ![h].claimed = @ \ {c}]
    /\ UNCHANGED <<queue, runtime, serverVars, daemonVars>>

(* The row is still on the runtime daemon d claimed it on: rows move only   *)
(* between runtimes of different daemons.                                   *)
OnRuntimeOf(d, t) == queue[t].runtime \in RuntimesOf[d]

(* MUTANT: the requeue does not compare dispatched_at.                       *)
OwnsRowByStatus(d, c) == queue[c.task].status = "dispatched" /\ OnRuntimeOf(d, c.task)

(* The claim c of daemon d still owns its row: nobody reclaimed, started,   *)
(* ended or moved it.                                                       *)
OwnsRow(d, c) == /\ queue[c.task].status = "dispatched"
                 /\ queue[c.task].stamp = c.stamp
                 /\ OnRuntimeOf(d, c.task)

(* Storing the token failed: the row goes back, if the claim still owns it. *)
Requeue(h, c) ==
    /\ DoneClaiming(h) /\ c \in claim[h].claimed
    /\ OwnsRow(claim[h].daemon, c)
    /\ queue' = [queue EXCEPT ![c.task] =
                   [@ EXCEPT !.status = "queued", !.age = 0, !.leased = FALSE]]
    /\ claim' = [claim EXCEPT ![h].claimed = @ \ {c}]
    /\ UNCHANGED <<runtime, serverVars, daemonVars>>

(* No owner, or a comment plan that lost its trigger: the row is cancelled. *)
CancelClaimed(h, c) ==
    /\ DoneClaiming(h) /\ c \in claim[h].claimed
    /\ queue' = End(queue, {c.task} \cap {t \in Task : queue[t].status \in Live},
                    "cancelled", "none")
    /\ claim' = [claim EXCEPT ![h].claimed = @ \ {c}]
    /\ UNCHANGED <<runtime, serverVars, daemonVars>>

Respond(h) ==
    /\ DoneClaiming(h) /\ claim[h].claimed = {}
    /\ claim' = [claim EXCEPT ![h] = IdleClaim]
    /\ workers' = workers \cup
         IF claim[h].listening
         THEN {[daemon |-> claim[h].daemon, task |-> c.task, stamp |-> c.stamp,
                phase |-> "preparing"] : c \in claim[h].ready}
         ELSE {}
    /\ UNCHANGED <<queue, runtime, serverVars, rebooted>>

(* The request dies, or its response never arrives: an open transaction     *)
(* rolls back, committed claims stay dispatched.                            *)
AbortClaim(h) ==
    /\ claim[h].pc # "idle"
    /\ claim' = [claim EXCEPT ![h] = IdleClaim]
    /\ UNCHANGED <<queue, runtime, serverVars, daemonVars>>

-----------------------------------------------------------------------------
(* The daemon runs what it was handed.                                      *)

ExtendLease(w) ==
    /\ w.phase = "preparing"
    /\ queue[w.task].status = "dispatched" /\ ~queue[w.task].leased
    /\ OnRuntimeOf(w.daemon, w.task)
    /\ queue' = [queue EXCEPT ![w.task].leased = TRUE]
    /\ UNCHANGED <<runtime, claim, serverVars, daemonVars>>

(* Waiting for a local directory; nothing reads a waiting row's deadlines.  *)
MarkWaiting(w) ==
    /\ w.phase = "preparing"
    /\ queue[w.task].status = "dispatched"
    /\ queue' = [queue EXCEPT ![w.task] =
                   [@ EXCEPT !.status = "waiting", !.age = 0, !.leased = FALSE]]
    /\ UNCHANGED <<runtime, claim, serverVars, daemonVars>>

Advance(w, phase) == workers' = (workers \ {w}) \cup {[w EXCEPT !.phase = phase]}

(* MUTANT: StartAgentTask does not look at the status.                       *)
StartAnyRow(w) ==
    /\ w.phase = "preparing"
    /\ queue' = [queue EXCEPT ![w.task] =
                   [@ EXCEPT !.status = "running", !.age = 0, !.leased = FALSE]]
    /\ acknowledging' = acknowledging \cup {w.task}
    /\ Advance(w, "running")
    /\ UNCHANGED <<runtime, claim, recovering, rerunning, linking, unread, rebooted>>

Start(w) ==
    /\ w.phase = "preparing"
    /\ IF queue[w.task].status \in {"dispatched", "waiting"}
       THEN /\ queue' = [queue EXCEPT ![w.task] =
                 [@ EXCEPT !.status = "running", !.age = 0, !.leased = FALSE]]
            /\ acknowledging' = acknowledging \cup {w.task}
            /\ Advance(w, "running")
       ELSE Advance(w, "failing") /\ UNCHANGED <<queue, acknowledging>>
    /\ UNCHANGED <<runtime, claim, recovering, rerunning, linking, unread, rebooted>>

(* MUTANT: only fallbacks that still wait are cancelled.                     *)
AcknowledgeDeferred(t) ==
    /\ t \in acknowledging
    /\ acknowledging' = acknowledging \ {t}
    /\ queue' = End(queue, {f \in Task : queue[f].escalates = t /\ queue[f].status = "deferred"},
                    "cancelled", "none")
    /\ UNCHANGED <<runtime, claim, recovering, rerunning, linking, unread, daemonVars>>

(* The second statement of StartTask.                                       *)
Acknowledge(t) ==
    /\ t \in acknowledging
    /\ acknowledging' = acknowledging \ {t}
    /\ queue' = End(queue, {f \in Task : queue[f].escalates = t /\ Standing(f)},
                    "cancelled", "none")
    /\ UNCHANGED <<runtime, claim, recovering, rerunning, linking, unread, daemonVars>>

(* It failed: the error is logged, StartTask returns success all the same.  *)
AcknowledgeFails(t) ==
    /\ t \in acknowledging
    /\ acknowledging' = acknowledging \ {t}
    /\ UNCHANGED <<queue, runtime, claim, recovering, rerunning, linking, unread, daemonVars>>

(* A row that is no longer running is left as it is and answered with 200.  *)
(* The request that completed a quick create goes on to look for its issue. *)
Complete(w) ==
    /\ w.phase = "running"
    /\ IF queue[w.task].status = "running"
       THEN /\ queue' = End(queue, {w.task}, "completed", "none")
            /\ linking' = linking \cup {t \in {w.task} : queue[t].lane = Bare}
       ELSE UNCHANGED <<queue, linking>>
    /\ workers' = workers \ {w}
    /\ UNCHANGED <<runtime, claim, recovering, acknowledging, rerunning, unread, rebooted>>

(* The issue i the agent created: the completed row becomes a row of it.    *)
LinkTaskToIssue(t, i) ==
    /\ t \in linking /\ queue[t].lane = Bare
    /\ linking' = linking \ {t}
    /\ queue' = [queue EXCEPT ![t].lane = i]
    /\ UNCHANGED <<runtime, claim, recovering, acknowledging, rerunning, unread, daemonVars>>

(* No issue was found, or a statement failed: the row stays as it is.       *)
LinkNothing(t) ==
    /\ t \in linking
    /\ linking' = linking \ {t}
    /\ UNCHANGED <<queue, runtime, claim, recovering, acknowledging, rerunning, unread, daemonVars>>

(* MUTANT: FailTask leaves the retry to a later step.                        *)
FailedAlone(t, reason) == End(queue, {t}, "failed", reason)

(* FailTask: the row and its retry change in one transaction, which the     *)
(* index may refuse; the daemon then tries again.                           *)
Failed(t, reason) ==
    LET ended == End(queue, {t}, "failed", reason)
    IN IF RetryEligible(reason, queue[t]) /\ Absent(queue) # {}
       THEN Insert(ended, RetryRow(reason, queue[t], t))
       ELSE ended

(* MUTANT: FailAgentTask also takes rows that have already failed.           *)
ReportFailureAgain(w, reason) ==
    /\ IF queue[w.task].status \in Active \cup {"failed"}
       THEN PendingUnique(Failed(w.task, reason)) /\ queue' = Failed(w.task, reason)
       ELSE UNCHANGED queue
    /\ workers' = workers \ {w}
    /\ UNCHANGED <<runtime, claim, serverVars, rebooted>>

ReportFailure(w, reason) ==
    /\ IF queue[w.task].status \in Active
       THEN PendingUnique(Failed(w.task, reason)) /\ queue' = Failed(w.task, reason)
       ELSE UNCHANGED queue
    /\ workers' = workers \ {w}
    /\ UNCHANGED <<runtime, claim, serverVars, rebooted>>

(* FailTask could not read the row: it fails without the retry it was due.  *)
FailUnread(w, reason) ==
    /\ queue[w.task].status \in Active
    /\ RetryEligible(reason, queue[w.task])
    /\ queue' = End(queue, {w.task}, "failed", reason)
    /\ unread' = unread \cup {w.task}
    /\ workers' = workers \ {w}
    /\ UNCHANGED <<runtime, claim, recovering, acknowledging, rerunning, linking, rebooted>>

(* The worker ends without the server learning of it: reports exhausted     *)
(* their retries, or the poll saw the row end.                              *)
GiveUp(w) ==
    /\ workers' = workers \ {w}
    /\ UNCHANGED <<queue, runtime, claim, serverVars, rebooted>>

(* The process dies with everything it held and comes back.                 *)
DaemonCrash(d) ==
    /\ workers' = {w \in workers : w.daemon # d}
    /\ rebooted' = rebooted \cup RuntimesOf[d]
    /\ claim' = [h \in Handler |->
                   IF claim[h].daemon = d THEN [claim[h] EXCEPT !.listening = FALSE]
                   ELSE claim[h]]
    /\ UNCHANGED <<queue, runtime, serverVars>>

-----------------------------------------------------------------------------
(* Bulk failures: the rows fail in one UPDATE, their retries follow one by  *)
(* one outside any transaction.                                             *)

FailRows(rows, reason) ==
    /\ rows # {}
    /\ queue' = End(queue, rows, "failed", reason)
    /\ recovering' = recovering \cup rows

RecoverOrphans(r) ==
    /\ r \in rebooted
    /\ rebooted' = rebooted \ {r}
    /\ LET rows == {t \in Task : queue[t].status \in Active /\ queue[t].runtime = r}
       IN \/ FailRows(rows, "runtime_recovery")
          \/ rows = {} /\ UNCHANGED <<queue, recovering>>
    /\ UNCHANGED <<runtime, claim, acknowledging, rerunning, linking, unread, workers>>

MarkOffline(r) ==
    /\ runtime[r].online /\ runtime[r].silence > 0
    /\ runtime' = [runtime EXCEPT ![r].online = FALSE]
    /\ UNCHANGED <<queue, claim, serverVars, daemonVars>>

Gone(r) == runtime[r].silence = 2

(* MUTANT: rows waiting for a local directory are overlooked.                *)
OfflineVictimsNotWaiting == {t \in Task : /\ queue[t].status \in {"dispatched", "running"}
                                          /\ ~runtime[queue[t].runtime].online
                                          /\ Gone(queue[t].runtime)}

OfflineVictims == {t \in Task : /\ queue[t].status \in Active
                                /\ ~runtime[queue[t].runtime].online
                                /\ Gone(queue[t].runtime)}

(* Retries of rows that failed because their runtime was offline.           *)
RecoveryRetries == {t \in Task : /\ queue[t].parent # None
                                 /\ queue[queue[t].parent].reason = "runtime_offline"}

ReconnectVictims == {t \in RecoveryRetries : /\ queue[t].status = "deferred"
                                             /\ queue[t].age = 2
                                             /\ ~Fresh(queue[t].runtime)}

StaleVictims == {t \in Task :
    \/ /\ queue[t].status = "dispatched" /\ queue[t].age = 2 /\ ~queue[t].leased
       /\ Fresh(queue[t].runtime) \/ Gone(queue[t].runtime)
    \/ /\ queue[t].status = "running" /\ queue[t].age = 1
       /\ Gone(queue[t].runtime)}

(* MUTANT: every retry is exempt from the queue TTL.                         *)
QueuedRoots == {t \in Task : /\ queue[t].status = "queued" /\ queue[t].age = 1
                             /\ queue[t].parent = None}

QueuedVictims == {t \in Task \ RecoveryRetries : /\ queue[t].status = "queued"
                                                 /\ queue[t].age = 1}

SweepRows(rows, reason) ==
    /\ FailRows(rows, reason)
    /\ UNCHANGED <<runtime, claim, acknowledging, rerunning, linking, unread, daemonVars>>

SweepOffline   == SweepRows(OfflineVictims, "runtime_offline")
SweepReconnect == SweepRows(ReconnectVictims, "runtime_reconnect_timeout")
SweepStale     == SweepRows(StaleVictims, "timeout")
SweepQueued    == SweepRows(QueuedVictims, "queued_expired")

(* MaybeRetryFailedTask; a clash with the index, or any other error of the  *)
(* database, only drops the retry.                                          *)
RetryFailed(t) ==
    /\ t \in recovering
    /\ recovering' = recovering \ {t}
    /\ LET reason == queue[t].reason
           added  == Insert(queue, RetryRow(reason, queue[t], t))
       IN \/ UNCHANGED queue
          \/ /\ RetryEligible(reason, queue[t])
             /\ Absent(queue) # {} /\ PendingUnique(added)
             /\ queue' = added
    /\ UNCHANGED <<runtime, claim, acknowledging, rerunning, linking, unread, daemonVars>>

-----------------------------------------------------------------------------
(* The world: time passes, runtimes fall silent and return, servers die.    *)

(* MUTANT: a dispatched row has one deadline more.                           *)
LaterDeadline == [s \in Status |-> CASE s \in {"dispatched", "deferred"} -> 3
                                     [] s \in {"queued", "running"} -> 1
                                     [] OTHER -> 0]

LastDeadline == [s \in Status |-> CASE s \in {"dispatched", "deferred"} -> 2
                                    [] s \in {"queued", "running"} -> 1
                                    [] OTHER -> 0]

DeadlinePasses(t) ==
    /\ queue[t].age < LastDeadline[queue[t].status]
    /\ queue' = [queue EXCEPT ![t].age = @ + 1]
    /\ UNCHANGED <<runtime, claim, serverVars, daemonVars>>

LeaseExpires(t) ==
    /\ queue[t].leased
    /\ queue' = [queue EXCEPT ![t].leased = FALSE]
    /\ UNCHANGED <<runtime, claim, serverVars, daemonVars>>

RuntimeSilent(r) ==
    /\ runtime[r].silence < 2
    /\ runtime' = [runtime EXCEPT ![r].silence = @ + 1]
    /\ UNCHANGED <<queue, claim, serverVars, daemonVars>>

Deregister(r) ==
    /\ runtime[r].online
    /\ runtime' = [runtime EXCEPT ![r].online = FALSE]
    /\ UNCHANGED <<queue, claim, serverVars, daemonVars>>

Heartbeat(r) ==
    /\ ~Fresh(r)
    /\ runtime' = [runtime EXCEPT ![r] = [online |-> TRUE, silence |-> 0]]
    /\ UNCHANGED <<queue, claim, serverVars, daemonVars>>

(* A daemon registers runtime new, which takes over what a stale or legacy  *)
(* daemon of the same machine left on runtime old: its rows, ended or not.  *)
ReassignTasksToRuntime(old, new) ==
    /\ old # new /\ Fresh(new)
    /\ \A d \in Daemon : ~({old, new} \subseteq RuntimesOf[d])
    /\ \E t \in Task : queue[t].runtime = old
    /\ queue' = [t \in Task |-> IF queue[t].runtime = old
                                THEN [queue[t] EXCEPT !.runtime = new] ELSE queue[t]]
    /\ UNCHANGED <<runtime, claim, serverVars, daemonVars>>

(* Every replica stops: requests, sweeps and second statements are lost.    *)
ServerCrash ==
    /\ claim' = [h \in Handler |-> IdleClaim]
    /\ recovering' = {} /\ acknowledging' = {} /\ rerunning' = {} /\ linking' = {}
    /\ UNCHANGED <<queue, runtime, unread, daemonVars>>

-----------------------------------------------------------------------------
UserStep ==
    \/ \E a \in Agent, l \in Lane, r \in Runtime : Enqueue(a, l, r)
    \/ \E t \in Task, a \in FallbackAgent, r \in Runtime : EnqueueFallback(t, a, r)
    \/ \E a \in Agent, i \in Issue : AgentComments(a, i) \/ Rerun(a, i)
    \/ \E a \in Agent, i \in Issue, r \in Runtime : RerunEnqueue(a, i, r)
    \/ Cancel

ClaimStep(h) ==
    \/ \E d \in Daemon : Poll(h, d)
    \/ ReclaimStale(h) \/ ListCandidates(h)
    \/ \E a \in Agent : LockAgent(h, a)
    \/ ClaimRow(h) \/ ClaimError(h)
    \/ \E c \in claim[h].claimed :
         Deliver(h, c) \/ Withhold(h, c) \/ Requeue(h, c) \/ CancelClaimed(h, c)
    \/ Respond(h) \/ AbortClaim(h)

WorkerStep(w) ==
    \/ ExtendLease(w) \/ MarkWaiting(w) \/ Start(w) \/ Complete(w) \/ GiveUp(w)
    \/ \E reason \in ReportedReason : ReportFailure(w, reason) \/ FailUnread(w, reason)

RowStep(t) ==
    \/ Acknowledge(t) \/ AcknowledgeFails(t)
    \/ \E i \in Issue : LinkTaskToIssue(t, i)
    \/ LinkNothing(t) \/ RetryFailed(t) \/ DeadlinePasses(t) \/ LeaseExpires(t)

RuntimeStep(r) ==
    \/ RecoverOrphans(r) \/ MarkOffline(r) \/ RuntimeSilent(r) \/ Deregister(r) \/ Heartbeat(r)
    \/ \E old \in Runtime : ReassignTasksToRuntime(old, r)

Next ==
    \/ UserStep
    \/ \E h \in Handler : ClaimStep(h)
    \/ \E w \in workers : WorkerStep(w)
    \/ \E t \in Task : RowStep(t)
    \/ \E r \in Runtime : RuntimeStep(r)
    \/ \E d \in Daemon : DaemonCrash(d)
    \/ SweepOffline \/ SweepReconnect \/ SweepStale \/ SweepQueued
    \/ ServerCrash

Spec == Init /\ [][Next]_vars

(***************************************************************************)
(* Fairness.  The sweeper's ticker runs every branch again and again, the   *)
(* handlers that started finish their statements, and time passes.  Nothing *)
(* is assumed of users, daemons, workers, heartbeats or crashes: a machine  *)
(* may be switched off for good.                                            *)
(***************************************************************************)
ClaimProgress(h) ==
    \/ ReclaimStale(h) \/ ListCandidates(h)
    \/ \E a \in Agent : LockAgent(h, a)
    \/ ClaimRow(h)
    \/ \E c \in claim[h].claimed : Deliver(h, c)
    \/ Respond(h)

Fairness ==
    /\ WF_vars(SweepOffline) /\ WF_vars(SweepReconnect)
    /\ WF_vars(SweepStale) /\ WF_vars(SweepQueued)
    /\ \A r \in Runtime : WF_vars(MarkOffline(r))
    /\ \A t \in Task : /\ WF_vars(RetryFailed(t))
                       /\ WF_vars(Acknowledge(t) \/ AcknowledgeFails(t))
                       /\ WF_vars(DeadlinePasses(t)) /\ WF_vars(LeaseExpires(t))
    /\ \A h \in Handler : WF_vars(ClaimProgress(h))

FairSpec == Spec /\ Fairness

(* Executions in which the comment handler gets every fallback in before    *)
(* StartTask of the row it backs up has returned, and the second statement  *)
(* of StartTask runs: the server does not die before it, and it succeeds.   *)
FallbackInTime ==
    \A f \in Task :
        queue[f].status = "absent" /\ queue'[f].escalates # None
        => \/ queue[queue'[f].escalates].status \notin {"running", "completed"}
           \/ queue'[f].escalates \in acknowledging

StartFinishes == \A t \in acknowledging \ acknowledging' : Acknowledge(t)

TimelySpec == Init /\ [][Next /\ FallbackInTime /\ StartFinishes]_vars

-----------------------------------------------------------------------------
(* An agent never works twice on the same issue, on the same chat session,  *)
(* or on two quick creates at once: ClaimAgentTask looks for active rows of *)
(* the lane, whether they wait, run or have only been handed over.          *)
LaneExclusive ==
    \A t, u \in Task :
        /\ queue[t].status \in Active /\ queue[u].status \in Active
        /\ Serialized(queue[t], queue[u])
        => t = u

(* An agent never has more active rows than max_concurrent_tasks, however   *)
(* many claim requests, requeues and reclaims overlap.                      *)
CapacityRespected ==
    \A a \in Agent : Cardinality(ActiveRows(queue, a)) <= MaxConcurrent[a]

(* Who was handed the present claim of row t: a request that has yet to     *)
(* answer, or a worker of a daemon.                                         *)
Holders(t) ==
    {h \in Handler : [task |-> t, stamp |-> queue[t].stamp]
                       \in claim[h].claimed \cup claim[h].ready}
    \cup {w \in workers : w.task = t /\ w.stamp = queue[t].stamp}

(* A row goes back to the queue only while nobody else was handed it: the   *)
(* requeue after a failed delivery is fenced by dispatched_at, so a slow    *)
(* request cannot take back a row that was reclaimed and delivered since.   *)
QueuedIsUnheld == \A t \in Task : queue[t].status = "queued" => Holders(t) = {}

(* One claim is handed to one holder: two requests never answer with the    *)
(* same claim of a row.                                                     *)
ClaimHandedOnce == \A t \in Task : Cardinality(Holders(t)) <= 1

(* A retry continues exactly one failed row, on the same agent and lane,    *)
(* within the attempt ceiling of the reason it failed for, and no failed    *)
(* row is retried twice, whether the daemon or a sweep reported it.         *)
RetryChain ==
    \A u \in Task : queue[u].parent # None =>
        LET p == queue[queue[u].parent]
        IN /\ p.status = "failed" /\ RetryEligible(p.reason, p)
           /\ queue[u].agent = p.agent /\ queue[u].lane = p.lane
           /\ queue[u].attempt = p.attempt + 1
           /\ \A v \in Task : queue[v].parent = queue[u].parent => v = u

(* A provider network failure comes from a daemon's report, which inserts   *)
(* the retry in the transaction that fails the row: once FailTask has read  *)
(* the row, no crash and no other statement can lose the retry.             *)
ReportedFailureRetried ==
    \A t \in Task \ unread :
        /\ queue[t].status = "failed" /\ queue[t].reason = "provider_network"
        /\ RetryEligible("provider_network", queue[t])
        => \E u \in Task : queue[u].parent = t

(* What two statements without a status filter may still write on an ended  *)
(* row: its runtime, and, once, the issue of a completed quick create.      *)
Refiled(old, new) ==
    /\ new = [old EXCEPT !.runtime = new.runtime, !.lane = new.lane]
    /\ new.lane # old.lane
       => old.status = "completed" /\ old.lane = Bare /\ new.lane \in Issue

(* Once a row completed, failed or was cancelled, no late report, sweep,    *)
(* start or requeue changes what became of it: all that is left are the     *)
(* take-over of its runtime and the link of a quick create to its issue.    *)
TerminalIsFinal ==
    [][\A t \in Task : queue[t].status \in Terminal => Refiled(queue[t], queue'[t])]_vars

(* A row whose runtime never comes back does not hold its lane and its      *)
(* agent's capacity for ever: the sweeper ends it after the reconnect       *)
(* grace, unless a registration moves it to another runtime first.          *)
GoneRuntimeReleasesRows ==
    \A t \in Task, r \in Runtime :
        <>[]Gone(r) =>
            [](queue[t].status \in Active /\ queue[t].runtime = r
               => <>(queue[t].status \notin Active \/ queue[t].runtime # r))

(* A queued row that is not a recovery retry is claimed, cancelled or       *)
(* expired, whether or not its runtime ever polls again.                    *)
QueuedRowMoves ==
    \A t \in Task :
        /\ queue[t].status = "queued" /\ t \notin RecoveryRetries
        ~> queue[t].status # "queued"

(* A fallback stands down once the agent it backs up has started: after     *)
(* StartTask returned, none of its fallbacks waits, is queued or is being   *)
(* handed over, however far its promotion and claim had come.  So it is in  *)
(* every execution of TimelySpec.                                           *)
FallbackStandsDown ==
    \A f \in Task : queue[f].escalates # None /\ Standing(f)
        => \/ queue[queue[f].escalates].status \notin {"running", "completed"}
           \/ queue[f].escalates \in acknowledging

(* The same for a run whose action constraints are the two assumptions of   *)
(* TimelySpec: TLC evaluates a property on the steps that a constraint       *)
(* rejects too, so the property excludes them itself.                        *)
FallbackStaysDown == [][FallbackInTime /\ StartFinishes => FallbackStandsDown']_vars

(***************************************************************************)
(* The abstract lifecycle this module implements.                           *)
(***************************************************************************)
Lifecycle == INSTANCE TaskLifecycle WITH
    status <- [t \in Task |-> queue[t].status],
    place  <- [t \in Task |-> [agent |-> queue[t].agent, lane |-> queue[t].lane]]

(* Every step of the handlers, daemons and sweeper is a step of the         *)
(* lifecycle: rows move only along its transitions, keep their agent, keep  *)
(* their lane until they have completed, and start work one at a time,      *)
(* within capacity, on a free lane.                                         *)
ImplementsLifecycle == Lifecycle!Spec
=============================================================================
