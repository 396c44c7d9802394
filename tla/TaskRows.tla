------------------------------ MODULE TaskRows ------------------------------
(***************************************************************************)
(* The rows of agent_task_queue and the pure rules of the task service      *)
(* about them: which statuses exist, which rows count against an agent's    *)
(* capacity, which rows serialize, what a retry row looks like.             *)
(*                                                                         *)
(* A row works on a "lane": the issue or the chat session it belongs to,    *)
(* Bare for a quick-create row (no issue, no chat, no autopilot run), or    *)
(* Free for an autopilot row without an issue.  Clocks are abstracted to    *)
(* the deadlines a row has passed in its present status (field age):        *)
(*   queued      1 = older than the queue TTL                               *)
(*   dispatched  1 = past the claim recovery window, 2 = past the dispatch  *)
(*               timeout                                                    *)
(*   running     1 = past the running timeout                               *)
(*   deferred    1 = due (fire_at), 2 = past the reconnect grace            *)
(* stamp numbers the claims of a row and stands for dispatched_at, which    *)
(* every claim sets to a new instant; leased says that                      *)
(* prepare_lease_expires_at is still ahead.                                 *)
(***************************************************************************)
EXTENDS Naturals, FiniteSets

CONSTANTS
    Task,            \* identities of rows
    Agent,
    Issue,
    Chat,
    Bare,            \* lane of quick-create rows
    Free,            \* lane of rows that never wait for one another
    Runtime,
    None,
    MaxConcurrent,   \* agent.max_concurrent_tasks
    MaxAttempts      \* the max_attempts a row is created with

Lane == Issue \cup Chat \cup {Bare, Free}

ASSUME TaskAssumption ==
    /\ IsFiniteSet(Task)
    /\ None \notin Task \cup Agent \cup Lane \cup Runtime
    /\ Free \notin Issue \cup Chat \cup {Bare}
    /\ Bare \notin Issue \cup Chat
    /\ MaxConcurrent \in [Agent -> Nat \ {0}]
    /\ MaxAttempts \in Nat \ {0}

-----------------------------------------------------------------------------
(* Statuses.  "absent" is a row that has not been inserted yet.             *)

Pending  == {"queued", "dispatched"}
Active   == {"dispatched", "running", "waiting"}
Live     == {"deferred", "queued"} \cup Active
Terminal == {"completed", "failed", "cancelled"}
Status   == {"absent"} \cup Live \cup Terminal

Reason == {"none", "agent_error", "provider_network", "timeout",
           "runtime_offline", "runtime_recovery", "queued_expired",
           "runtime_reconnect_timeout"}

Row == [status: Status, agent: Agent \cup {None}, lane: Lane \cup {None},
        runtime: Runtime \cup {None}, attempt: Nat, max: Nat,
        parent: Task \cup {None}, escalates: Task \cup {None},
        reason: Reason, stamp: Nat, age: 0..2, leased: BOOLEAN]

AbsentRow == [status |-> "absent", agent |-> None, lane |-> None,
              runtime |-> None, attempt |-> 0, max |-> 0,
              parent |-> None, escalates |-> None, reason |-> "none",
              stamp |-> 0, age |-> 0, leased |-> FALSE]

(* A row as CreateAgentTask and its siblings insert it.                     *)
QueuedRow(a, l, r) ==
    [AbsentRow EXCEPT !.status = "queued", !.agent = a, !.lane = l,
                      !.runtime = r, !.attempt = 1, !.max = MaxAttempts]

(* A fallback row waits for fire_at and names the row it backs up.          *)
FallbackRow(a, l, r, t) ==
    [QueuedRow(a, l, r) EXCEPT !.status = "deferred", !.escalates = t]

(***************************************************************************)
(* Who competes with whom.  q is the whole table.                           *)
(***************************************************************************)
ActiveRows(q, a) == {t \in Task : q[t].agent = a /\ q[t].status \in Active}

Serialized(x, y) == x.agent = y.agent /\ x.lane = y.lane /\ x.lane # Free

(* MUTANT: a row waiting for a local directory does not hold its lane.       *)
ClaimableBesideWaiting(q, t) ==
    /\ q[t].status = "queued"
    /\ \A u \in Task : q[u].status \in {"dispatched", "running"} => ~Serialized(q[t], q[u])

Claimable(q, t) ==
    /\ q[t].status = "queued"
    /\ \A u \in Task : q[u].status \in Active => ~Serialized(q[t], q[u])

(* The partial unique index on (issue_id, agent_id) over pending rows: the  *)
(* database refuses every statement that would make this false.             *)
PendingUnique(q) ==
    \A t, u \in Task :
        /\ q[t].status \in Pending /\ q[u].status \in Pending
        /\ q[t].lane \in Issue
        /\ Serialized(q[t], q[u])
        => t = u

Absent(q) == {t \in Task : q[t].status = "absent"}

(* The next identity: uuids carry no meaning, so any unused one will do.    *)
FreshRow(q) == CHOOSE t \in Absent(q) : TRUE

Insert(q, row) == [q EXCEPT ![FreshRow(q)] = row]

(* One UPDATE that ends every row of a set.                                 *)
End(q, rows, status, reason) ==
    [t \in Task |-> IF t \in rows
                    THEN [q[t] EXCEPT !.status = status, !.reason = reason,
                                      !.age = 0, !.leased = FALSE]
                    ELSE q[t]]

(***************************************************************************)
(* Automatic retries.                                                       *)
(***************************************************************************)
RetryableReasons == {"provider_network", "timeout", "runtime_offline",
                     "runtime_recovery"}

ProviderNetworkMaxAttempts == 3

RetryCeiling(reason, max) ==
    IF reason = "provider_network" /\ max > 1 /\ max < ProviderNetworkMaxAttempts
    THEN ProviderNetworkMaxAttempts
    ELSE max

RetryEligible(reason, row) ==
    /\ reason \in RetryableReasons
    /\ row.attempt < RetryCeiling(reason, row.max)
    /\ row.lane \in Issue \cup Chat

RetryDelayed(reason, attempt) ==
    \/ reason = "runtime_offline"
    \/ reason = "provider_network" /\ attempt >= ProviderNetworkMaxAttempts - 1

(* CreateRetryTask copies the parent p of row t.                            *)
RetryRow(reason, p, t) ==
    [QueuedRow(p.agent, p.lane, p.runtime) EXCEPT
        !.status  = IF RetryDelayed(reason, p.attempt) THEN "deferred" ELSE "queued",
        !.attempt = p.attempt + 1,
        !.max     = RetryCeiling(reason, p.max),
        !.parent  = t]
=============================================================================
