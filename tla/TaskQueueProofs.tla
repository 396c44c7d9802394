--------------------------- MODULE TaskQueueProofs ---------------------------
(***************************************************************************)
(* What TaskQueue guarantees for every set of agents, issues, rows,         *)
(* handlers and daemons and every capacity: lanes, capacity, the abstract   *)
(* lifecycle, and one holder for every claim.                               *)
(***************************************************************************)
EXTENDS TaskQueue, TLAPS, FiniteSetTheorems

-----------------------------------------------------------------------------
(* Rows and the operators on tables.                                        *)

Table == [Task -> Row]

(* A row keeps its type when one of its columns is overwritten.             *)
LEMMA RowFields ==
    ASSUME NEW p \in Row
    PROVE  /\ \A s \in Status : [p EXCEPT !.status = s] \in Row
           /\ \A z \in Reason : [p EXCEPT !.reason = z] \in Row
           /\ \A n \in 0..2 : [p EXCEPT !.age = n] \in Row
           /\ \A b \in BOOLEAN : [p EXCEPT !.leased = b] \in Row
           /\ \A n \in Nat : [p EXCEPT !.stamp = n] \in Row
           /\ \A n \in Nat : [p EXCEPT !.attempt = n] \in Row
           /\ \A n \in Nat : [p EXCEPT !.max = n] \in Row
           /\ \A a \in Agent : [p EXCEPT !.agent = a] \in Row
           /\ \A l \in Lane : [p EXCEPT !.lane = l] \in Row
           /\ \A r \in Runtime : [p EXCEPT !.runtime = r] \in Row
           /\ \A t \in Task : [p EXCEPT !.parent = t] \in Row
           /\ \A t \in Task : [p EXCEPT !.escalates = t] \in Row
BY DEF Row

(* A new row takes a slot that was absent and touches no other.             *)
LEMMA InsertRow ==
    ASSUME NEW q \in Table, Absent(q) # {}, NEW row \in Row
    PROVE  /\ FreshRow(q) \in Absent(q)
           /\ Insert(q, row) \in Table
           /\ Insert(q, row)[FreshRow(q)] = row
           /\ \A t \in Task \ {FreshRow(q)} : Insert(q, row)[t] = q[t]
<1>1. FreshRow(q) \in Absent(q)
  BY DEF FreshRow
<1>2. FreshRow(q) \in Task
  BY <1>1 DEF Absent
<1>. QED  BY <1>1, <1>2 DEF Insert, Table

(* A row that is ended or moved on keeps its agent, lane and runtime.       *)
LEMMA MovedRow ==
    ASSUME NEW p \in Row, NEW s \in Status, NEW z \in Reason, NEW b \in BOOLEAN
    PROVE  /\ [p EXCEPT !.status = s, !.reason = z, !.age = 0, !.leased = b] \in Row
           /\ [p EXCEPT !.status = s, !.age = 0, !.leased = b] \in Row
           /\ [p EXCEPT !.status = s, !.age = 0] \in Row
           /\ [p EXCEPT !.status = s, !.stamp = @ + 1, !.age = 0, !.leased = b] \in Row
<1>1. 0 \in 0..2
  OBVIOUS
<1>2. p.stamp + 1 \in Nat
  BY DEF Row
<1>3. [[p EXCEPT !.status = s] EXCEPT !.age = 0] \in Row
  BY <1>1, RowFields
<1>4. [[[[p EXCEPT !.status = s] EXCEPT !.reason = z] EXCEPT !.age = 0] EXCEPT !.leased = b] \in Row
  BY <1>1, RowFields
<1>5. [[[p EXCEPT !.status = s] EXCEPT !.age = 0] EXCEPT !.leased = b] \in Row
  BY <1>3, RowFields
<1>6. [[[[p EXCEPT !.status = s] EXCEPT !.stamp = p.stamp + 1] EXCEPT !.age = 0] EXCEPT !.leased = b] \in Row
  BY <1>1, <1>2, RowFields
<1>7. [p EXCEPT !.status = s, !.stamp = @ + 1, !.age = 0, !.leased = b]
        = [[[[p EXCEPT !.status = s] EXCEPT !.stamp = p.stamp + 1] EXCEPT !.age = 0] EXCEPT !.leased = b]
  BY DEF Row
<1>. QED  BY <1>3, <1>4, <1>5, <1>6, <1>7

(* A bulk end changes the rows of the set alone, and none of them moves to  *)
(* another agent, lane or runtime.                                          *)
LEMMA EndRows ==
    ASSUME NEW q \in Table, NEW rows \in SUBSET Task, NEW status \in Status, NEW reason \in Reason
    PROVE  /\ End(q, rows, status, reason) \in Table
           /\ \A t \in Task \ rows : End(q, rows, status, reason)[t] = q[t]
           /\ \A t \in rows :
                /\ End(q, rows, status, reason)[t].status = status
                /\ End(q, rows, status, reason)[t].agent = q[t].agent
                /\ End(q, rows, status, reason)[t].lane = q[t].lane
                /\ End(q, rows, status, reason)[t].runtime = q[t].runtime
<1>. DEFINE E == End(q, rows, status, reason)
<1>1. \A t \in Task \ rows : E[t] = q[t]
  BY DEF End
<1>2. ASSUME NEW t \in rows
      PROVE  /\ E[t] \in Row /\ E[t].status = status
             /\ E[t].agent = q[t].agent /\ E[t].lane = q[t].lane
             /\ E[t].runtime = q[t].runtime
  <2>1. E[t] = [q[t] EXCEPT !.status = status, !.reason = reason, !.age = 0, !.leased = FALSE]
    BY <1>2 DEF End
  <2>2. q[t] \in Row /\ FALSE \in BOOLEAN
    BY <1>2 DEF Table
  <2>3. [q[t] EXCEPT !.status = status, !.reason = reason, !.age = 0, !.leased = FALSE] \in Row
    BY <2>2, MovedRow
  <2>4. E[t] \in Row
    BY <2>1, <2>3
  <2>. QED  BY <2>1, <2>2, <2>4 DEF Row
<1>3. E \in Table
  BY <1>1, <1>2 DEF End, Table
<1>. QED  BY <1>1, <1>2, <1>3

(* A claim or a reclaim dispatches exactly the rows it names.               *)
LEMMA DispatchRows ==
    ASSUME NEW q \in Table, NEW rows \in SUBSET Task
    PROVE  /\ Dispatched(q, rows) \in Table
           /\ \A t \in Task \ rows : Dispatched(q, rows)[t] = q[t]
           /\ \A t \in rows :
                /\ Dispatched(q, rows)[t].status = "dispatched"
                /\ Dispatched(q, rows)[t].agent = q[t].agent
                /\ Dispatched(q, rows)[t].lane = q[t].lane
                /\ Dispatched(q, rows)[t].runtime = q[t].runtime
<1>. DEFINE D == Dispatched(q, rows)
<1>1. \A t \in Task \ rows : D[t] = q[t]
  BY DEF Dispatched
<1>2. ASSUME NEW t \in rows
      PROVE  /\ D[t] \in Row /\ D[t].status = "dispatched"
             /\ D[t].agent = q[t].agent /\ D[t].lane = q[t].lane
             /\ D[t].runtime = q[t].runtime
  <2>1. D[t] = [q[t] EXCEPT !.status = "dispatched", !.stamp = @ + 1, !.age = 0, !.leased = TRUE]
    BY <1>2 DEF Dispatched
  <2>2. q[t] \in Row /\ "dispatched" \in Status /\ "none" \in Reason /\ TRUE \in BOOLEAN
    BY <1>2 DEF Table, Status, Live, Active, Reason
  <2>3. D[t] \in Row
    BY <2>1, <2>2, MovedRow, Zenon
  <2>. QED  BY <2>1, <2>2, <2>3 DEF Row
<1>3. D \in Table
  BY <1>1, <1>2 DEF Dispatched, Table
<1>. QED  BY <1>1, <1>2, <1>3

(* Rows are inserted with every column filled in.                           *)
LEMMA NewRow ==
    ASSUME NEW a \in Agent, NEW l \in Lane, NEW r \in Runtime
    PROVE  /\ QueuedRow(a, l, r) \in Row
           /\ QueuedRow(a, l, r).status = "queued"
           /\ QueuedRow(a, l, r).agent = a
           /\ QueuedRow(a, l, r).lane = l
           /\ QueuedRow(a, l, r).runtime = r
<1>1. AbsentRow \in Row
  BY DEF AbsentRow, Row, Status, Reason
<1>2. "queued" \in Status /\ 1 \in Nat /\ MaxAttempts \in Nat
  BY TaskAssumption DEF Status, Live
<1>3. [AbsentRow EXCEPT !.status = "queued"] \in Row
  BY <1>1, <1>2, RowFields
<1>4. [[AbsentRow EXCEPT !.status = "queued"] EXCEPT !.agent = a] \in Row
  BY <1>3, RowFields
<1>5. [[[AbsentRow EXCEPT !.status = "queued"] EXCEPT !.agent = a] EXCEPT !.lane = l] \in Row
  BY <1>4, RowFields
<1>6. [[[[AbsentRow EXCEPT !.status = "queued"] EXCEPT !.agent = a] EXCEPT !.lane = l]
         EXCEPT !.runtime = r] \in Row
  BY <1>5, RowFields
<1>7. [[[[[AbsentRow EXCEPT !.status = "queued"] EXCEPT !.agent = a] EXCEPT !.lane = l]
         EXCEPT !.runtime = r] EXCEPT !.attempt = 1] \in Row
  BY <1>2, <1>6, RowFields
<1>8. QueuedRow(a, l, r) \in Row
  BY <1>2, <1>7, RowFields DEF QueuedRow
<1>. QED  BY <1>1, <1>8 DEF QueuedRow, Row

LEMMA NewFallback ==
    ASSUME NEW a \in Agent, NEW l \in Lane, NEW r \in Runtime, NEW t \in Task
    PROVE  /\ FallbackRow(a, l, r, t) \in Row
           /\ FallbackRow(a, l, r, t).status = "deferred"
           /\ FallbackRow(a, l, r, t).agent = a
           /\ FallbackRow(a, l, r, t).lane = l
           /\ FallbackRow(a, l, r, t).runtime = r
<1>. DEFINE p == QueuedRow(a, l, r)
<1>1. /\ p \in Row /\ p.agent = a /\ p.lane = l /\ p.runtime = r
  BY NewRow
<1>. HIDE DEF p
<1>2. FallbackRow(a, l, r, t) = [[p EXCEPT !.status = "deferred"] EXCEPT !.escalates = t]
  BY DEF FallbackRow, p
<1>3. "deferred" \in Status
  BY DEF Status, Live
<1>4. FallbackRow(a, l, r, t) \in Row
  <2>1. [p EXCEPT !.status = "deferred"] \in Row
    BY <1>1, <1>3, RowFields
  <2>. QED  BY <1>2, <2>1, RowFields
<1>. QED  BY <1>1, <1>2, <1>4 DEF Row

(* A retry keeps the agent, lane and runtime of the row it continues.       *)
LEMMA NewRetry ==
    ASSUME NEW p \in Row, p.agent \in Agent, p.lane \in Lane, p.runtime \in Runtime,
           NEW t \in Task, NEW reason \in Reason
    PROVE  /\ RetryRow(reason, p, t) \in Row
           /\ RetryRow(reason, p, t).status \in {"deferred", "queued"}
           /\ RetryRow(reason, p, t).agent = p.agent
           /\ RetryRow(reason, p, t).lane = p.lane
           /\ RetryRow(reason, p, t).runtime = p.runtime
<1>. DEFINE n == QueuedRow(p.agent, p.lane, p.runtime)
            s == IF RetryDelayed(reason, p.attempt) THEN "deferred" ELSE "queued"
<1>1. n \in Row /\ n.agent = p.agent /\ n.lane = p.lane /\ n.runtime = p.runtime
  BY NewRow
<1>2. RetryCeiling(reason, p.max) \in Nat /\ p.attempt + 1 \in Nat
  BY DEF RetryCeiling, ProviderNetworkMaxAttempts, Row
<1>3. s \in {"deferred", "queued"} /\ s \in Status
  BY DEF Status, Live
<1>4. RetryRow(reason, p, t) =
        [[[[n EXCEPT !.status = s] EXCEPT !.attempt = p.attempt + 1]
             EXCEPT !.max = RetryCeiling(reason, p.max)] EXCEPT !.parent = t]
  BY DEF RetryRow
<1>. HIDE DEF n, s
<1>5. RetryRow(reason, p, t) \in Row
  <2>1. [n EXCEPT !.status = s] \in Row
    BY <1>1, <1>3, RowFields
  <2>2. [[n EXCEPT !.status = s] EXCEPT !.attempt = p.attempt + 1] \in Row
    BY <1>2, <2>1, RowFields
  <2>3. [[[n EXCEPT !.status = s] EXCEPT !.attempt = p.attempt + 1]
            EXCEPT !.max = RetryCeiling(reason, p.max)] \in Row
    BY <1>2, <2>2, RowFields
  <2>. QED  BY <1>4, <2>3, RowFields
<1>. QED  BY <1>1, <1>2, <1>3, <1>4, <1>5 DEF Row

-----------------------------------------------------------------------------
(* How one step may change a row: it is inserted, or it keeps its place and *)
(* moves along the lifecycle without being dispatched, or it keeps its      *)
(* status and is filed elsewhere.  Only ClaimRow dispatches a queued row.   *)

Lawful(p, n) ==
    \/ /\ p.status = "absent" /\ n.status \in {"deferred", "queued"}
       /\ n.agent \in Agent /\ n.lane \in Lane /\ n.runtime \in Runtime
    \/ /\ n.agent = p.agent /\ n.lane = p.lane /\ n.runtime = p.runtime
       /\ \/ n.status = p.status
          \/ <<p.status, n.status>> \in Lifecycle!Moves
             /\ p.status # "absent" /\ n.status # "dispatched"
    \/ /\ n.status = p.status /\ n.agent = p.agent
       /\ p.status # "absent" /\ n.runtime \in Runtime
       /\ n.lane = p.lane \/ (p.status = "completed" /\ p.lane = Bare /\ n.lane \in Issue)

Orderly == \A t \in Task : Lawful(queue[t], queue'[t])

(* A row that exists has an agent, a lane and a runtime; a slot without a   *)
(* row has neither lane nor runtime.                                        *)
Placed == \A t \in Task :
    IF queue[t].status = "absent" THEN queue[t].lane = None /\ queue[t].runtime = None
    ELSE queue[t].agent \in Agent /\ queue[t].lane \in Lane /\ queue[t].runtime \in Runtime

(* Only a row that has completed is still to be linked to an issue.         *)
LinkingEnded == \A t \in linking : queue[t].status = "completed"

(* No handler takes an agent lock.                                          *)
Quiet == \A h \in Handler : claim'[h].holds \in {None, claim[h].holds}

LEMMA InsertOrderly ==
    ASSUME queue \in Table, Absent(queue) # {}, NEW row \in Row,
           row.status \in {"deferred", "queued"},
           row.agent \in Agent, row.lane \in Lane, row.runtime \in Runtime,
           queue' = Insert(queue, row)
    PROVE  queue' \in Table /\ Orderly
BY InsertRow DEF Orderly, Lawful, Absent

LEMMA EndLawful ==
    ASSUME queue \in Table, NEW rows \in SUBSET Task, NEW status \in Terminal, NEW reason \in Reason,
           \A t \in rows : /\ queue[t].status \in Live
                           /\ status = "completed" => queue[t].status = "running",
           queue' = End(queue, rows, status, reason)
    PROVE  queue' \in Table /\ Orderly
<1>1. status \in Status
  BY DEF Status
<1>2. /\ queue' \in Table
      /\ \A t \in Task \ rows : queue'[t] = queue[t]
      /\ \A t \in rows :
           /\ queue'[t].status = status
           /\ queue'[t].agent = queue[t].agent
           /\ queue'[t].lane = queue[t].lane
           /\ queue'[t].runtime = queue[t].runtime
  <2>1. /\ End(queue, rows, status, reason) \in Table
        /\ \A t \in Task \ rows : End(queue, rows, status, reason)[t] = queue[t]
        /\ \A t \in rows :
             /\ End(queue, rows, status, reason)[t].status = status
             /\ End(queue, rows, status, reason)[t].agent = queue[t].agent
             /\ End(queue, rows, status, reason)[t].lane = queue[t].lane
             /\ End(queue, rows, status, reason)[t].runtime = queue[t].runtime
    BY <1>1, EndRows, Zenon
  <2>. QED  BY <2>1, Zenon
<1>3. ASSUME NEW t \in rows
      PROVE  Lawful(queue[t], queue'[t])
  <2>1. queue[t].status \in Live /\ (status = "completed" => queue[t].status = "running")
    BY <1>3
  <2>2. /\ <<queue[t].status, queue'[t].status>> \in Lifecycle!Moves
        /\ queue[t].status # "absent" /\ queue'[t].status # "dispatched"
    BY <1>2, <2>1 DEF Lifecycle!Moves, Live, Active, Terminal
  <2>. QED  BY <1>2, <2>2 DEF Lawful
<1>. QED  BY <1>2, <1>3 DEF Orderly, Lawful

LEMMA EndOrderly ==
    ASSUME queue \in Table, NEW rows \in SUBSET Task, \A t \in rows : queue[t].status \in Live,
           NEW status \in {"failed", "cancelled"}, NEW reason \in Reason,
           queue' = End(queue, rows, status, reason)
    PROVE  queue' \in Table /\ Orderly
<1>1. status \in Terminal /\ status # "completed"
  BY DEF Terminal
<1>. QED  BY <1>1, EndLawful

LEMMA SetOrderly ==
    ASSUME queue \in Table, NEW t \in Task, NEW row \in Row,
           Lawful(queue[t], row), queue' = [queue EXCEPT ![t] = row]
    PROVE  queue' \in Table /\ Orderly
BY DEF Table, Orderly, Lawful

LEMMA SameOrderly ==
    ASSUME queue \in Table, queue' = queue
    PROVE  queue' \in Table /\ Orderly
BY DEF Orderly, Lawful

(* A claim request keeps its type when one of its fields is overwritten.    *)
LEMMA ClaimFields ==
    ASSUME NEW k \in ClaimRequest
    PROVE  /\ \A pc \in {"idle", "reclaiming", "listing", "claiming"} :
                [k EXCEPT !.pc = pc] \in ClaimRequest
           /\ \A d \in Daemon : [k EXCEPT !.daemon = d] \in ClaimRequest
           /\ \A b \in BOOLEAN : [k EXCEPT !.listening = b] \in ClaimRequest
           /\ \A as \in SUBSET Agent : [k EXCEPT !.agents = as] \in ClaimRequest
           /\ \A a \in Agent \cup {None} : [k EXCEPT !.holds = a] \in ClaimRequest
           /\ \A cs \in SUBSET Claimed : [k EXCEPT !.claimed = cs] \in ClaimRequest
           /\ \A cs \in SUBSET Claimed : [k EXCEPT !.ready = cs] \in ClaimRequest
BY DEF ClaimRequest

LEMMA IdleClaimType == IdleClaim \in ClaimRequest /\ IdleClaim.holds = None
BY DEF IdleClaim, ClaimRequest

(* TypeOK for a step that changes the table alone.                          *)
LEMMA TableType ==
    ASSUME TypeOK, queue' \in Table, UNCHANGED <<runtime, claim, serverVars, daemonVars>>
    PROVE  TypeOK' /\ Quiet
BY DEF TypeOK, Table, Quiet, serverVars, daemonVars

-----------------------------------------------------------------------------
(* Rows enter the queue; users cancel and rerun.                            *)

LEMMA EnqueueStep ==
    ASSUME TypeOK, NEW a \in Agent, NEW l \in Lane, NEW r \in Runtime, Enqueue(a, l, r)
    PROVE  TypeOK' /\ Orderly /\ Quiet
<1>1. queue' \in Table /\ Orderly
  BY NewRow, InsertOrderly DEF Enqueue, RoomForRoot, TypeOK, Table
<1>. QED  BY <1>1, TableType DEF Enqueue

LEMMA EnqueueFallbackStep ==
    ASSUME TypeOK, NEW t \in Task, NEW a \in FallbackAgent, NEW r \in Runtime,
           EnqueueFallback(t, a, r)
    PROVE  TypeOK' /\ Orderly /\ Quiet
<1>1. a \in Agent /\ queue[t].lane \in Lane
  BY QueueAssumption DEF EnqueueFallback, Lane
<1>2. queue' \in Table /\ Orderly
  <2>. DEFINE row == FallbackRow(a, queue[t].lane, r, t)
  <2>1. /\ row \in Row /\ row.status \in {"deferred", "queued"}
        /\ row.agent \in Agent /\ row.lane \in Lane /\ row.runtime \in Runtime
    BY <1>1, NewFallback
  <2>2. queue \in Table /\ Absent(queue) # {} /\ queue' = Insert(queue, row)
    BY DEF EnqueueFallback, RoomForRoot, TypeOK, Table
  <2>. HIDE DEF row
  <2>. QED  BY <2>1, <2>2, InsertOrderly
<1>. QED  BY <1>2, TableType DEF EnqueueFallback

LEMMA AgentCommentsStep ==
    ASSUME TypeOK, NEW a \in Agent, NEW i \in Issue, AgentComments(a, i)
    PROVE  TypeOK' /\ Orderly /\ Quiet
<1>1. queue' \in Table /\ Orderly
  BY EndOrderly DEF AgentComments, FallbacksFor, Standing, Live, Active, Reason, TypeOK, Table
<1>. QED  BY <1>1, TableType DEF AgentComments

LEMMA CancelStep ==
    ASSUME TypeOK, Cancel
    PROVE  TypeOK' /\ Orderly /\ Quiet
<1>1. ASSUME NEW rows \in SUBSET {t \in Task : queue[t].status \in Live}, CancelRows(rows)
      PROVE  queue' \in Table /\ Orderly
  BY <1>1, EndOrderly DEF CancelRows, Reason, TypeOK, Table
<1>2. queue' \in Table /\ Orderly
  <2>1. \E rows \in SUBSET {t \in Task : queue[t].status \in Live} : CancelRows(rows)
    BY DEF Cancel
  <2>. QED  BY <2>1, <1>1
<1>. QED  BY <1>2, TableType DEF Cancel

LEMMA RerunStep ==
    ASSUME TypeOK, NEW a \in Agent, NEW i \in Issue, Rerun(a, i)
    PROVE  TypeOK' /\ Orderly /\ Quiet
<1>1. queue' \in Table /\ Orderly
  BY EndOrderly DEF Rerun, Reason, TypeOK, Table
<1>2. rerunning' \subseteq Agent \X Issue
  BY DEF Rerun, TypeOK
<1>. QED  BY <1>1, <1>2 DEF Rerun, TypeOK, Table, Quiet, daemonVars

LEMMA RerunEnqueueStep ==
    ASSUME TypeOK, NEW a \in Agent, NEW i \in Issue, NEW r \in Runtime, RerunEnqueue(a, i, r)
    PROVE  TypeOK' /\ Orderly /\ Quiet
<1>1. queue' \in Table /\ Orderly
  <2>1. i \in Lane
    BY DEF Lane
  <2>2. CASE queue' = queue
    BY <2>2, SameOrderly DEF TypeOK, Table
  <2>3. CASE queue' # queue
    BY <2>1, <2>3, NewRow, InsertOrderly DEF RerunEnqueue, RoomForRoot, TypeOK, Table
  <2>. QED  BY <2>2, <2>3
<1>. QED  BY <1>1 DEF RerunEnqueue, TypeOK, Table, Quiet, daemonVars

-----------------------------------------------------------------------------
(* A claim request.                                                         *)

(* The claim of handler h changes and the locks of the others stay.         *)
LEMMA ClaimType ==
    ASSUME TypeOK, NEW h \in Handler, NEW k \in ClaimRequest,
           k.holds \in {None, claim[h].holds}, claim' = [claim EXCEPT ![h] = k]
    PROVE  claim' \in [Handler -> ClaimRequest] /\ Quiet
BY DEF TypeOK, Quiet

LEMMA PollStep ==
    ASSUME TypeOK, NEW h \in Handler, NEW d \in Daemon, Poll(h, d)
    PROVE  TypeOK' /\ Orderly /\ Quiet
<1>. DEFINE k == [IdleClaim EXCEPT !.pc = "reclaiming", !.daemon = d, !.listening = TRUE]
<1>1. k \in ClaimRequest /\ k.holds = None
  BY DEF IdleClaim, ClaimRequest
<1>2. claim' = [claim EXCEPT ![h] = k]
  BY DEF Poll
<1>3. claim' \in [Handler -> ClaimRequest] /\ Quiet
  BY <1>1, <1>2, ClaimType
<1>4. ASSUME NEW t \in Task
      PROVE  queue'[t] \in Row /\ Lawful(queue[t], queue'[t])
  <2>1. CASE t \in Promotable(d)
    <3>1. queue'[t] = [queue[t] EXCEPT !.status = "queued", !.age = 0]
      BY <2>1 DEF Poll
    <3>2. queue[t] \in Row /\ "queued" \in Status /\ "none" \in Reason /\ TRUE \in BOOLEAN
      BY DEF TypeOK, Status, Live, Reason
    <3>3. [queue[t] EXCEPT !.status = "queued", !.age = 0] \in Row
      BY <3>2, MovedRow
    <3>4. queue[t].status = "deferred"
      BY <2>1 DEF Promotable
    <3>. QED  BY <3>1, <3>2, <3>3, <3>4 DEF Lawful, Lifecycle!Moves, Row
  <2>2. CASE t \notin Promotable(d)
    BY <2>2 DEF Poll, TypeOK, Lawful
  <2>. QED  BY <2>1, <2>2
<1>5. queue' \in [Task -> Row]
  BY <1>4 DEF Poll
<1>. QED  BY <1>3, <1>4, <1>5 DEF Poll, TypeOK, Orderly, serverVars, daemonVars

LEMMA ReclaimStaleStep ==
    ASSUME TypeOK, NEW h \in Handler, ReclaimStale(h)
    PROVE  TypeOK' /\ Orderly /\ Quiet
<1>. DEFINE c == claim[h]
<1>1. PICK rows \in SUBSET Reclaimable(c.daemon) :
        /\ queue' = Dispatched(queue, rows)
        /\ claim' = [claim EXCEPT
             ![h].pc = IF Cardinality(rows) = MaxTasks THEN "claiming" ELSE "listing",
             ![h].claimed = {[task |-> t, stamp |-> queue'[t].stamp] : t \in rows}]
  BY DEF ReclaimStale
<1>2. rows \in SUBSET Task /\ \A t \in rows : queue[t].status = "dispatched"
  BY DEF Reclaimable
<1>3. queue' \in Table /\ Orderly
  <2>1. queue \in Table
    BY DEF TypeOK, Table
  <2>2. /\ queue' \in Table
        /\ \A t \in Task \ rows : queue'[t] = queue[t]
        /\ \A t \in rows : /\ queue'[t].status = "dispatched"
                           /\ queue'[t].agent = queue[t].agent
                           /\ queue'[t].lane = queue[t].lane
                           /\ queue'[t].runtime = queue[t].runtime
    BY <1>1, <1>2, <2>1, DispatchRows
  <2>. QED  BY <1>2, <2>2 DEF Orderly, Lawful
<1>. DEFINE pc == IF Cardinality(rows) = MaxTasks THEN "claiming" ELSE "listing"
            cs == {[task |-> t, stamp |-> queue'[t].stamp] : t \in rows}
            k  == [[c EXCEPT !.pc = pc] EXCEPT !.claimed = cs]
<1>4. claim' = [claim EXCEPT ![h] = k]
  BY <1>1 DEF TypeOK
<1>5. cs \in SUBSET Claimed /\ pc \in {"listing", "claiming"}
  BY <1>2, <1>3 DEF Claimed, Table, Row
<1>6. c \in ClaimRequest
  BY DEF TypeOK
<1>. HIDE DEF pc, cs, c
<1>7. [c EXCEPT !.pc = pc] \in ClaimRequest
  BY <1>5, <1>6, ClaimFields
<1>8. k \in ClaimRequest /\ k.holds = c.holds
  BY <1>5, <1>6, <1>7, ClaimFields DEF ClaimRequest
<1>9. claim' \in [Handler -> ClaimRequest] /\ Quiet
  BY <1>4, <1>8, ClaimType DEF c
<1>. QED  BY <1>3, <1>9 DEF ReclaimStale, TypeOK, Table, serverVars, daemonVars

LEMMA ListCandidatesStep ==
    ASSUME TypeOK, Placed, NEW h \in Handler, ListCandidates(h)
    PROVE  TypeOK' /\ Orderly /\ Quiet
<1>. DEFINE c  == claim[h]
            as == {queue[t].agent : t \in
                     {u \in Task : /\ queue[u].status = "queued"
                                   /\ queue[u].runtime \in RuntimesOf[c.daemon]}}
            k  == [[c EXCEPT !.pc = "claiming"] EXCEPT !.agents = as]
<1>1. as \in SUBSET Agent
  BY DEF Placed
<1>2. claim' = [claim EXCEPT ![h] = k]
  BY DEF ListCandidates, TypeOK
<1>3. c \in ClaimRequest
  BY DEF TypeOK
<1>. HIDE DEF as, c
<1>4. [c EXCEPT !.pc = "claiming"] \in ClaimRequest
  BY <1>3, ClaimFields
<1>5. k \in ClaimRequest /\ k.holds = c.holds
  BY <1>1, <1>3, <1>4, ClaimFields DEF ClaimRequest
<1>6. claim' \in [Handler -> ClaimRequest] /\ Quiet
  BY <1>2, <1>5, ClaimType DEF c
<1>. QED
  BY <1>6, SameOrderly DEF ListCandidates, TypeOK, Table, serverVars, daemonVars

LEMMA LockAgentStep ==
    ASSUME TypeOK, NEW h \in Handler, NEW a \in Agent, LockAgent(h, a)
    PROVE  TypeOK' /\ Orderly
<1>. DEFINE c == claim[h]
            x == IF Cardinality(ActiveRows(queue, a)) < MaxConcurrent[a] THEN a ELSE None
            k == [[c EXCEPT !.agents = c.agents \ {a}] EXCEPT !.holds = x]
<1>1. claim' = [claim EXCEPT ![h] = k]
  BY DEF LockAgent, TypeOK
<1>2. c \in ClaimRequest /\ c.agents \ {a} \in SUBSET Agent
  BY DEF TypeOK, ClaimRequest
<1>3. x \in Agent \cup {None}
  OBVIOUS
<1>. HIDE DEF c, x
<1>4. [c EXCEPT !.agents = c.agents \ {a}] \in ClaimRequest
  BY <1>2, ClaimFields
<1>5. k \in ClaimRequest
  BY <1>3, <1>4, ClaimFields
<1>6. claim' \in [Handler -> ClaimRequest]
  BY <1>1, <1>5 DEF TypeOK
<1>. QED
  BY <1>6, SameOrderly DEF LockAgent, TypeOK, Table, serverVars, daemonVars

LEMMA ClaimRowStep ==
    ASSUME TypeOK, NEW h \in Handler, ClaimRow(h)
    PROVE  /\ TypeOK'
           /\ claim'[h].holds = None
           /\ \A g \in Handler \ {h} : claim'[g] = claim[g]
           /\ \/ queue' = queue
              \/ \E t \in Task : /\ Claimable(queue, t) /\ queue[t].agent = claim[h].holds
                                 /\ queue' = Dispatched(queue, {t})
<1>. DEFINE c == claim[h]
<1>1. queue \in Table /\ c \in ClaimRequest
  BY DEF TypeOK, Table
<1>2. CASE queue' = queue /\ claim' = [claim EXCEPT ![h].holds = None]
  <2>1. claim' = [claim EXCEPT ![h] = [c EXCEPT !.holds = None]]
    BY <1>2 DEF TypeOK
  <2>2. [c EXCEPT !.holds = None] \in ClaimRequest
    BY <1>1, ClaimFields
  <2>3. [c EXCEPT !.holds = None].holds = None
    BY <1>1 DEF ClaimRequest
  <2>. QED  BY <1>2, <2>1, <2>2, <2>3 DEF ClaimRow, TypeOK, serverVars, daemonVars
<1>3. CASE \E t \in Task :
             /\ Claimable(queue, t) /\ queue[t].agent = c.holds
             /\ queue' = Dispatched(queue, {t})
             /\ claim' = [claim EXCEPT
                    ![h].holds = None,
                    ![h].claimed = IF queue[t].runtime \in RuntimesOf[c.daemon]
                                   THEN @ \cup {[task |-> t, stamp |-> queue'[t].stamp]}
                                   ELSE @]
  <2>1. PICK t \in Task :
             /\ Claimable(queue, t) /\ queue[t].agent = c.holds
             /\ queue' = Dispatched(queue, {t})
             /\ claim' = [claim EXCEPT
                    ![h].holds = None,
                    ![h].claimed = IF queue[t].runtime \in RuntimesOf[c.daemon]
                                   THEN @ \cup {[task |-> t, stamp |-> queue'[t].stamp]}
                                   ELSE @]
    BY <1>3
  <2>2. queue' \in Table
    BY <1>1, <2>1, DispatchRows
  <2>. DEFINE cs == IF queue[t].runtime \in RuntimesOf[c.daemon]
                    THEN c.claimed \cup {[task |-> t, stamp |-> queue'[t].stamp]}
                    ELSE c.claimed
              k  == [[c EXCEPT !.holds = None] EXCEPT !.claimed = cs]
  <2>3. cs \in SUBSET Claimed
    BY <1>1, <2>2 DEF ClaimRequest, Claimed, Table, Row
  <2>4. claim' = [claim EXCEPT ![h] = k]
    BY <1>1, <2>1 DEF TypeOK, ClaimRequest
  <2>. HIDE DEF cs
  <2>5. [c EXCEPT !.holds = None] \in ClaimRequest
    BY <1>1, ClaimFields
  <2>6. k \in ClaimRequest /\ k.holds = None
    <3>1. k \in ClaimRequest
      BY <2>3, <2>5, ClaimFields
    <3>2. k.holds = None
      BY <1>1 DEF ClaimRequest
    <3>. QED  BY <3>1, <3>2
  <2>7. /\ claim' \in [Handler -> ClaimRequest] /\ claim'[h].holds = None
        /\ \A g \in Handler \ {h} : claim'[g] = claim[g]
    BY <2>4, <2>6 DEF TypeOK
  <2>. QED
    BY <2>1, <2>2, <2>7 DEF ClaimRow, TypeOK, Table, serverVars, daemonVars
<1>. QED  BY <1>2, <1>3, Zenon DEF ClaimRow

LEMMA ClaimErrorStep ==
    ASSUME TypeOK, NEW h \in Handler, ClaimError(h)
    PROVE  TypeOK' /\ Orderly /\ Quiet
<1>. DEFINE c == claim[h]
            n == [[[c EXCEPT !.pc = "claiming"] EXCEPT !.agents = {}] EXCEPT !.holds = None]
            k == IF c.claimed = {} THEN IdleClaim ELSE n
<1>1. c \in ClaimRequest
  BY DEF TypeOK
<1>2. claim' = [claim EXCEPT ![h] = k]
  BY DEF ClaimError
<1>. HIDE DEF c
<1>3. [c EXCEPT !.pc = "claiming"] \in ClaimRequest
  BY <1>1, ClaimFields
<1>4. [[c EXCEPT !.pc = "claiming"] EXCEPT !.agents = {}] \in ClaimRequest
  BY <1>3, ClaimFields
<1>5. n \in ClaimRequest /\ n.holds = None
  BY <1>4, ClaimFields DEF ClaimRequest
<1>. HIDE DEF n
<1>6. k \in ClaimRequest /\ k.holds = None
  BY <1>5, IdleClaimType
<1>. HIDE DEF k
<1>7. claim' \in [Handler -> ClaimRequest] /\ Quiet
  BY <1>2, <1>6, ClaimType
<1>. QED
  BY <1>7, SameOrderly DEF ClaimError, TypeOK, Table, serverVars, daemonVars

(* A claim leaves the claimed set of its request, whatever becomes of it.   *)
LEMMA ClaimedLess ==
    ASSUME TypeOK, NEW h \in Handler, NEW c \in claim[h].claimed,
           \/ claim' = [claim EXCEPT ![h].claimed = @ \ {c}]
           \/ claim' = [claim EXCEPT ![h].claimed = @ \ {c}, ![h].ready = @ \cup {c}]
    PROVE  c \in Claimed /\ claim' \in [Handler -> ClaimRequest] /\ Quiet
<1>. DEFINE m == [claim[h] EXCEPT !.claimed = claim[h].claimed \ {c}]
            n == [m EXCEPT !.ready = claim[h].ready \cup {c}]
<1>1. claim[h] \in ClaimRequest
  BY DEF TypeOK
<1>2. c \in Claimed /\ claim[h].claimed \in SUBSET Claimed /\ claim[h].ready \in SUBSET Claimed
  BY <1>1 DEF ClaimRequest
<1>3. claim' = [claim EXCEPT ![h] = m] \/ claim' = [claim EXCEPT ![h] = n]
  BY <1>1 DEF TypeOK, ClaimRequest
<1>4. claim[h].claimed \ {c} \in SUBSET Claimed /\ claim[h].ready \cup {c} \in SUBSET Claimed
  BY <1>2
<1>5. m \in ClaimRequest /\ m.holds = claim[h].holds
  BY <1>1, <1>4, ClaimFields DEF ClaimRequest
<1>. HIDE DEF m
<1>6. n \in ClaimRequest /\ n.holds = claim[h].holds
  BY <1>4, <1>5, ClaimFields DEF ClaimRequest
<1>. HIDE DEF n
<1>. QED  BY <1>2, <1>3, <1>5, <1>6, ClaimType

LEMMA DeliverStep ==
    ASSUME TypeOK, NEW h \in Handler, NEW c \in claim[h].claimed,
           Deliver(h, c) \/ Withhold(h, c)
    PROVE  TypeOK' /\ Orderly /\ Quiet
<1>1. claim' \in [Handler -> ClaimRequest] /\ Quiet
  BY ClaimedLess DEF Deliver, Withhold
<1>. QED
  BY <1>1, SameOrderly DEF Deliver, Withhold, TypeOK, Table, serverVars, daemonVars

LEMMA RequeueStep ==
    ASSUME TypeOK, NEW h \in Handler, NEW c \in claim[h].claimed, Requeue(h, c)
    PROVE  TypeOK' /\ Orderly /\ Quiet
<1>. DEFINE row == [queue[c.task] EXCEPT !.status = "queued", !.age = 0, !.leased = FALSE]
<1>1. c \in Claimed /\ claim' \in [Handler -> ClaimRequest] /\ Quiet
  BY ClaimedLess DEF Requeue
<1>2. c.task \in Task /\ queue[c.task] \in Row /\ queue \in Table
  BY <1>1 DEF TypeOK, Table, Claimed
<1>3. queue' = [queue EXCEPT ![c.task] = row]
  BY DEF Requeue
<1>4. row \in Row
  <2>1. "queued" \in Status /\ "none" \in Reason /\ FALSE \in BOOLEAN
    BY DEF Status, Live, Reason
  <2>. QED  BY <1>2, <2>1, MovedRow
<1>5. Lawful(queue[c.task], row)
  BY <1>2 DEF Requeue, OwnsRow, Lawful, Lifecycle!Moves, Row
<1>. HIDE DEF row
<1>6. queue' \in Table /\ Orderly
  BY <1>2, <1>3, <1>4, <1>5, SetOrderly
<1>. QED  BY <1>1, <1>6 DEF Requeue, TypeOK, Table, serverVars, daemonVars

LEMMA CancelClaimedStep ==
    ASSUME TypeOK, NEW h \in Handler, NEW c \in claim[h].claimed, CancelClaimed(h, c)
    PROVE  TypeOK' /\ Orderly /\ Quiet
<1>1. claim' \in [Handler -> ClaimRequest] /\ Quiet
  BY ClaimedLess DEF CancelClaimed
<1>2. queue' \in Table /\ Orderly
  BY EndOrderly DEF CancelClaimed, Reason, TypeOK, Table
<1>. QED  BY <1>1, <1>2 DEF CancelClaimed, TypeOK, Table, serverVars, daemonVars

LEMMA RespondStep ==
    ASSUME TypeOK, NEW h \in Handler, Respond(h)
    PROVE  TypeOK' /\ Orderly /\ Quiet
<1>1. claim' \in [Handler -> ClaimRequest] /\ Quiet
  BY IdleClaimType, ClaimType DEF Respond
<1>2. workers' \subseteq Worker
  BY DEF Respond, TypeOK, ClaimRequest, Claimed, Worker
<1>. QED
  BY <1>1, <1>2, SameOrderly DEF Respond, TypeOK, Table, serverVars

LEMMA AbortClaimStep ==
    ASSUME TypeOK, NEW h \in Handler, AbortClaim(h)
    PROVE  TypeOK' /\ Orderly /\ Quiet
<1>1. claim' \in [Handler -> ClaimRequest] /\ Quiet
  BY IdleClaimType, ClaimType DEF AbortClaim
<1>. QED
  BY <1>1, SameOrderly DEF AbortClaim, TypeOK, Table, serverVars, daemonVars

-----------------------------------------------------------------------------
(* Workers of the daemons.                                                  *)

(* A worker moves its row along the lifecycle.                              *)
LEMMA WorkerRow ==
    ASSUME TypeOK, NEW t \in Task, NEW s \in {"waiting", "running"},
           queue[t].status \in {"dispatched", "waiting"},
           s = "waiting" => queue[t].status = "dispatched",
           queue' = [queue EXCEPT ![t] = [@ EXCEPT !.status = s, !.age = 0, !.leased = FALSE]]
    PROVE  queue' \in Table /\ Orderly
<1>. DEFINE row == [queue[t] EXCEPT !.status = s, !.age = 0, !.leased = FALSE]
<1>1. queue[t] \in Row /\ queue \in Table
  BY DEF TypeOK, Table
<1>2. row \in Row
  <2>1. s \in Status /\ "none" \in Reason /\ FALSE \in BOOLEAN
    BY DEF Status, Live, Active, Reason
  <2>. QED  BY <1>1, <2>1, MovedRow
<1>3. Lawful(queue[t], row)
  BY <1>1 DEF Lawful, Lifecycle!Moves, Row
<1>. HIDE DEF row
<1>. QED  BY <1>1, <1>2, <1>3, SetOrderly DEF row

LEMMA WorkerTask ==
    ASSUME TypeOK, NEW w \in workers, NEW phase \in {"preparing", "running", "failing"}
    PROVE  /\ w \in Worker /\ w.task \in Task
           /\ [w EXCEPT !.phase = phase] \in Worker
BY DEF TypeOK, Worker

(* The lease and the age of a row are not part of its place in the          *)
(* lifecycle.                                                               *)
LEMMA ClockRow ==
    ASSUME TypeOK, NEW t \in Task, NEW row \in Row,
           row.status = queue[t].status, row.agent = queue[t].agent,
           row.lane = queue[t].lane, row.runtime = queue[t].runtime,
           queue' = [queue EXCEPT ![t] = row]
    PROVE  queue' \in Table /\ Orderly
BY SetOrderly DEF TypeOK, Table, Lawful

LEMMA LeaseStep ==
    ASSUME TypeOK, NEW t \in Task, NEW b \in BOOLEAN,
           queue' = [queue EXCEPT ![t].leased = b]
    PROVE  queue' \in Table /\ Orderly
<1>. DEFINE row == [queue[t] EXCEPT !.leased = b]
<1>1. queue[t] \in Row /\ queue' = [queue EXCEPT ![t] = row]
  BY DEF TypeOK
<1>2. /\ row \in Row /\ row.status = queue[t].status /\ row.agent = queue[t].agent
      /\ row.lane = queue[t].lane /\ row.runtime = queue[t].runtime
  BY <1>1, RowFields DEF Row
<1>. HIDE DEF row
<1>. QED  BY <1>1, <1>2, ClockRow

LEMMA ExtendLeaseStep ==
    ASSUME TypeOK, NEW w \in workers, ExtendLease(w)
    PROVE  TypeOK' /\ Orderly /\ Quiet
<1>1. queue' \in Table /\ Orderly
  BY LeaseStep, WorkerTask DEF ExtendLease
<1>. QED  BY <1>1, TableType DEF ExtendLease

LEMMA MarkWaitingStep ==
    ASSUME TypeOK, NEW w \in workers, MarkWaiting(w)
    PROVE  TypeOK' /\ Orderly /\ Quiet
<1>1. queue' \in Table /\ Orderly
  BY WorkerRow, WorkerTask DEF MarkWaiting
<1>. QED  BY <1>1, TableType DEF MarkWaiting

LEMMA StartStep ==
    ASSUME TypeOK, NEW w \in workers, Start(w)
    PROVE  TypeOK' /\ Orderly /\ Quiet
<1>1. workers' \subseteq Worker /\ acknowledging' \subseteq Task
  BY WorkerTask DEF Start, Advance, TypeOK
<1>2. queue' \in Table /\ Orderly
  <2>1. CASE queue[w.task].status \in {"dispatched", "waiting"}
    BY <2>1, WorkerRow, WorkerTask DEF Start
  <2>2. CASE queue[w.task].status \notin {"dispatched", "waiting"}
    BY <2>2, SameOrderly DEF Start, TypeOK, Table
  <2>. QED  BY <2>1, <2>2
<1>. QED  BY <1>1, <1>2 DEF Start, TypeOK, Table, Quiet

LEMMA CompleteStep ==
    ASSUME TypeOK, NEW w \in workers, Complete(w)
    PROVE  TypeOK' /\ Orderly /\ Quiet
<1>1. queue' \in Table /\ Orderly
  <2>1. CASE queue[w.task].status = "running"
    <3>. DEFINE rows == {w.task}
    <3>1. queue' = End(queue, rows, "completed", "none") /\ rows \in SUBSET Task
      BY <2>1, WorkerTask DEF Complete
    <3>2. queue \in Table /\ "completed" \in Terminal /\ "none" \in Reason
      BY DEF TypeOK, Table, Terminal, Reason
    <3>3. \A t \in rows : queue[t].status \in Live /\ queue[t].status = "running"
      BY <2>1 DEF Live, Active
    <3>. HIDE DEF rows
    <3>. QED  BY <3>1, <3>2, <3>3, EndLawful
  <2>2. CASE queue[w.task].status # "running"
    BY <2>2, SameOrderly DEF Complete, TypeOK, Table
  <2>. QED  BY <2>1, <2>2
<1>2. linking' \subseteq linking \cup {w.task} /\ w.task \in Task
  <2>1. linking' \subseteq linking \cup {w.task}
    BY DEF Complete
  <2>. QED  BY <2>1, WorkerTask
<1>. QED  BY <1>1, <1>2 DEF Complete, TypeOK, Table, Quiet

(* A failed row and its retry.                                              *)
LEMMA FailedRows ==
    ASSUME TypeOK, Placed, NEW t \in Task, queue[t].status \in Active,
           NEW reason \in Reason, queue' = Failed(t, reason)
    PROVE  queue' \in Table /\ Orderly
<1>. DEFINE ended == End(queue, {t}, "failed", reason)
            added == Insert(ended, RetryRow(reason, queue[t], t))
<1>1. queue \in Table /\ queue[t] \in Row /\ "failed" \in Status
  BY DEF TypeOK, Table, Status, Terminal
<1>2. /\ ended \in Table
      /\ \A u \in Task \ {t} : ended[u] = queue[u]
      /\ \A u \in {t} : /\ ended[u].status = "failed"
                        /\ ended[u].agent = queue[u].agent
                        /\ ended[u].lane = queue[u].lane
                        /\ ended[u].runtime = queue[u].runtime
  BY <1>1, EndRows
<1>. HIDE DEF ended
<1>3. \A u \in Task : Lawful(queue[u], ended[u])
  BY <1>2 DEF Lawful, Lifecycle!Moves, Active
<1>4. CASE queue' = ended
  BY <1>2, <1>3, <1>4 DEF Orderly
<1>5. CASE queue' = added /\ Absent(queue) # {}
  <2>1. queue[t].agent \in Agent /\ queue[t].lane \in Lane /\ queue[t].runtime \in Runtime
    BY DEF Placed, Active
  <2>. DEFINE row == RetryRow(reason, queue[t], t)
  <2>2. /\ row \in Row /\ row.status \in {"deferred", "queued"}
        /\ row.agent \in Agent /\ row.lane \in Lane /\ row.runtime \in Runtime
    BY <1>1, <2>1, NewRetry
  <2>. HIDE DEF row
  <2>3. Absent(ended) = Absent(queue)
    BY <1>2 DEF Absent, Active
  <2>4. /\ FreshRow(ended) \in Absent(ended)
        /\ added \in Table /\ added[FreshRow(ended)] = row
        /\ \A u \in Task \ {FreshRow(ended)} : added[u] = ended[u]
    BY <1>2, <1>5, <2>2, <2>3, InsertRow DEF row
  <2>. QED  BY <1>3, <1>5, <2>2, <2>3, <2>4 DEF Orderly, Lawful, Absent
<1>. QED  BY <1>4, <1>5 DEF Failed, ended

LEMMA ReportFailureStep ==
    ASSUME TypeOK, Placed, NEW w \in workers, NEW reason \in ReportedReason,
           ReportFailure(w, reason)
    PROVE  TypeOK' /\ Orderly /\ Quiet
<1>1. queue' \in Table /\ Orderly
  <2>1. CASE queue[w.task].status \in Active
    BY <2>1, FailedRows, WorkerTask, QueueAssumption DEF ReportFailure
  <2>2. CASE queue[w.task].status \notin Active
    BY <2>2, SameOrderly DEF ReportFailure, TypeOK, Table
  <2>. QED  BY <2>1, <2>2
<1>. QED  BY <1>1 DEF ReportFailure, TypeOK, Table, Quiet, serverVars

LEMMA FailUnreadStep ==
    ASSUME TypeOK, NEW w \in workers, NEW reason \in ReportedReason, FailUnread(w, reason)
    PROVE  TypeOK' /\ Orderly /\ Quiet
<1>1. w.task \in Task /\ reason \in Reason
  BY WorkerTask, QueueAssumption
<1>2. queue' \in Table /\ Orderly
  <2>. DEFINE rows == {w.task}
  <2>1. queue' = End(queue, rows, "failed", reason) /\ rows \in SUBSET Task
    BY <1>1 DEF FailUnread
  <2>2. queue \in Table /\ \A t \in rows : queue[t].status \in Live
    BY DEF FailUnread, Live, TypeOK, Table
  <2>. HIDE DEF rows
  <2>. QED  BY <1>1, <2>1, <2>2, EndOrderly
<1>. QED  BY <1>1, <1>2 DEF FailUnread, TypeOK, Table, Quiet

LEMMA GiveUpStep ==
    ASSUME TypeOK, NEW w \in workers, GiveUp(w)
    PROVE  TypeOK' /\ Orderly /\ Quiet
BY SameOrderly DEF GiveUp, TypeOK, Table, Quiet, serverVars

LEMMA DaemonCrashStep ==
    ASSUME TypeOK, NEW d \in Daemon, DaemonCrash(d)
    PROVE  TypeOK' /\ Orderly /\ Quiet
<1>1. ASSUME NEW h \in Handler
      PROVE  claim'[h] \in ClaimRequest /\ claim'[h].holds = claim[h].holds
  <2>1. claim[h] \in ClaimRequest
    BY DEF TypeOK
  <2>2. /\ [claim[h] EXCEPT !.listening = FALSE] \in ClaimRequest
        /\ [claim[h] EXCEPT !.listening = FALSE].holds = claim[h].holds
    BY <2>1, ClaimFields DEF ClaimRequest
  <2>. QED  BY <2>1, <2>2 DEF DaemonCrash
<1>2. claim' \in [Handler -> ClaimRequest] /\ Quiet
  BY <1>1 DEF DaemonCrash, Quiet
<1>3. workers' \subseteq Worker /\ rebooted' \subseteq Runtime
  BY QueueAssumption DEF DaemonCrash, TypeOK
<1>. QED
  BY <1>2, <1>3, SameOrderly DEF DaemonCrash, TypeOK, Table, serverVars

-----------------------------------------------------------------------------
(* Bulk failures, retries, second statements, clocks and crashes.           *)

LEMMA FailRowsStep ==
    ASSUME TypeOK, NEW rows \in SUBSET Task, \A t \in rows : queue[t].status \in Live,
           NEW reason \in Reason, FailRows(rows, reason)
    PROVE  queue' \in Table /\ Orderly /\ recovering' \subseteq Task
BY EndOrderly DEF FailRows, TypeOK, Table

LEMMA RecoverOrphansStep ==
    ASSUME TypeOK, NEW r \in Runtime, RecoverOrphans(r)
    PROVE  TypeOK' /\ Orderly /\ Quiet
<1>. DEFINE rows == {t \in Task : queue[t].status \in Active /\ queue[t].runtime = r}
<1>1. rows \in SUBSET Task /\ \A t \in rows : queue[t].status \in Live
  BY DEF Live
<1>2. FailRows(rows, "runtime_recovery") \/ UNCHANGED <<queue, recovering>>
  BY DEF RecoverOrphans
<1>. HIDE DEF rows
<1>3. queue' \in Table /\ Orderly /\ recovering' \subseteq Task
  <2>1. CASE FailRows(rows, "runtime_recovery")
    BY <1>1, <2>1, FailRowsStep DEF Reason
  <2>2. CASE UNCHANGED <<queue, recovering>>
    BY <2>2, SameOrderly DEF TypeOK, Table
  <2>. QED  BY <1>2, <2>1, <2>2
<1>. QED  BY <1>3 DEF RecoverOrphans, TypeOK, Table, Quiet

LEMMA SweepStep ==
    ASSUME TypeOK, SweepOffline \/ SweepReconnect \/ SweepStale \/ SweepQueued
    PROVE  TypeOK' /\ Orderly /\ Quiet
<1>1. ASSUME NEW rows \in SUBSET Task, \A t \in rows : queue[t].status \in Live,
             NEW reason \in Reason, SweepRows(rows, reason)
      PROVE  TypeOK' /\ Orderly /\ Quiet
  <2>1. queue' \in Table /\ Orderly /\ recovering' \subseteq Task
    BY <1>1, FailRowsStep DEF SweepRows
  <2>. QED  BY <1>1, <2>1 DEF SweepRows, TypeOK, Table, Quiet, daemonVars
<1>2. /\ OfflineVictims \in SUBSET Task /\ ReconnectVictims \in SUBSET Task
      /\ StaleVictims \in SUBSET Task /\ QueuedVictims \in SUBSET Task
  BY DEF OfflineVictims, ReconnectVictims, StaleVictims, QueuedVictims, RecoveryRetries
<1>3. \A t \in OfflineVictims \cup ReconnectVictims \cup StaleVictims \cup QueuedVictims :
         queue[t].status \in Live
  BY DEF OfflineVictims, ReconnectVictims, StaleVictims, QueuedVictims, Live, Active
<1>4. {"runtime_offline", "runtime_reconnect_timeout", "timeout", "queued_expired"} \subseteq Reason
  BY DEF Reason
<1>5. CASE SweepOffline
  BY <1>1, <1>2, <1>3, <1>4, <1>5 DEF SweepOffline
<1>6. CASE SweepReconnect
  BY <1>1, <1>2, <1>3, <1>4, <1>6 DEF SweepReconnect
<1>7. CASE SweepStale
  BY <1>1, <1>2, <1>3, <1>4, <1>7 DEF SweepStale
<1>8. CASE SweepQueued
  BY <1>1, <1>2, <1>3, <1>4, <1>8 DEF SweepQueued
<1>. QED  BY <1>5, <1>6, <1>7, <1>8

LEMMA RetryFailedStep ==
    ASSUME TypeOK, Placed, NEW t \in Task, RetryFailed(t)
    PROVE  TypeOK' /\ Orderly /\ Quiet
<1>. DEFINE row == RetryRow(queue[t].reason, queue[t], t)
<1>1. queue \in Table /\ queue[t] \in Row /\ queue[t].reason \in Reason
  BY DEF TypeOK, Table, Row
<1>2. queue' \in Table /\ Orderly
  <2>1. CASE queue' = queue
    BY <1>1, <2>1, SameOrderly
  <2>2. CASE /\ queue' = Insert(queue, row) /\ Absent(queue) # {}
             /\ RetryEligible(queue[t].reason, queue[t])
    <3>1. queue[t].agent \in Agent /\ queue[t].lane \in Lane /\ queue[t].runtime \in Runtime
      BY <2>2, TaskAssumption DEF Placed, RetryEligible, Lane
    <3>2. /\ row \in Row /\ row.status \in {"deferred", "queued"}
          /\ row.agent \in Agent /\ row.lane \in Lane /\ row.runtime \in Runtime
      BY <1>1, <3>1, NewRetry
    <3>. HIDE DEF row
    <3>. QED  BY <1>1, <2>2, <3>2, InsertOrderly
  <2>. QED  BY <2>1, <2>2 DEF RetryFailed
<1>. QED  BY <1>2 DEF RetryFailed, TypeOK, Table, Quiet, daemonVars

LEMMA AcknowledgeStep ==
    ASSUME TypeOK, NEW t \in Task, Acknowledge(t)
    PROVE  TypeOK' /\ Orderly /\ Quiet
<1>1. queue' \in Table /\ Orderly
  BY EndOrderly DEF Acknowledge, Standing, Live, Active, Reason, TypeOK, Table
<1>. QED  BY <1>1 DEF Acknowledge, TypeOK, Table, Quiet, daemonVars

LEMMA NothingDoneStep ==
    ASSUME TypeOK, NEW t \in Task, AcknowledgeFails(t) \/ LinkNothing(t)
    PROVE  TypeOK' /\ Orderly /\ Quiet
BY SameOrderly DEF AcknowledgeFails, LinkNothing, TypeOK, Table, Quiet, daemonVars

(* A completed quick create is filed under its issue.                       *)
LEMMA LinkStep ==
    ASSUME TypeOK, Placed, LinkingEnded, NEW t \in Task, NEW i \in Issue, LinkTaskToIssue(t, i)
    PROVE  TypeOK' /\ Orderly /\ Quiet
<1>. DEFINE row == [queue[t] EXCEPT !.lane = i]
<1>1. queue[t] \in Row /\ queue \in Table /\ queue' = [queue EXCEPT ![t] = row] /\ i \in Lane
  BY DEF TypeOK, Table, LinkTaskToIssue, Lane
<1>2. /\ row \in Row /\ row.status = queue[t].status /\ row.agent = queue[t].agent
      /\ row.lane = i /\ row.runtime = queue[t].runtime
  BY <1>1, RowFields DEF Row
<1>3. queue[t].status = "completed" /\ queue[t].lane = Bare
  BY DEF LinkTaskToIssue, LinkingEnded
<1>4. Lawful(queue[t], row)
  BY <1>2, <1>3 DEF Lawful, Placed
<1>. HIDE DEF row
<1>5. queue' \in Table /\ Orderly
  BY <1>1, <1>2, <1>4, SetOrderly
<1>. QED  BY <1>5 DEF LinkTaskToIssue, TypeOK, Table, Quiet, daemonVars

(* A runtime takes over the rows of another one.                            *)
LEMMA ReassignStep ==
    ASSUME TypeOK, Placed, NEW old \in Runtime, NEW r \in Runtime, ReassignTasksToRuntime(old, r)
    PROVE  TypeOK' /\ Orderly /\ Quiet
<1>1. ASSUME NEW t \in Task
      PROVE  queue'[t] \in Row /\ Lawful(queue[t], queue'[t])
  <2>1. queue[t] \in Row
    BY DEF TypeOK
  <2>2. CASE queue[t].runtime = old
    <3>. DEFINE row == [queue[t] EXCEPT !.runtime = r]
    <3>1. queue'[t] = row
      BY <2>2 DEF ReassignTasksToRuntime
    <3>2. /\ row \in Row /\ row.status = queue[t].status /\ row.agent = queue[t].agent
          /\ row.lane = queue[t].lane /\ row.runtime = r
      BY <2>1, RowFields DEF Row
    <3>. HIDE DEF row
    <3>3. CASE queue[t].status # "absent"
      BY <3>1, <3>2, <3>3 DEF Lawful
    <3>4. CASE queue[t].status = "absent"
      BY <2>2, <3>4, TaskAssumption DEF Placed
    <3>. QED  BY <3>1, <3>2, <3>3, <3>4
  <2>3. CASE queue[t].runtime # old
    BY <2>1, <2>3 DEF ReassignTasksToRuntime, Lawful
  <2>. QED  BY <2>2, <2>3
<1>2. queue' \in Table
  BY <1>1 DEF ReassignTasksToRuntime, Table
<1>. QED  BY <1>1, <1>2, TableType DEF ReassignTasksToRuntime, Orderly

LEMMA DeadlinePassesStep ==
    ASSUME TypeOK, NEW t \in Task, DeadlinePasses(t)
    PROVE  TypeOK' /\ Orderly /\ Quiet
<1>. DEFINE row == [queue[t] EXCEPT !.age = queue[t].age + 1]
<1>1. queue[t] \in Row /\ queue' = [queue EXCEPT ![t] = row]
  BY DEF TypeOK, DeadlinePasses
<1>2. queue[t].age + 1 \in 0..2
  BY <1>1 DEF DeadlinePasses, LastDeadline, Row
<1>3. /\ row \in Row /\ row.status = queue[t].status /\ row.agent = queue[t].agent
      /\ row.lane = queue[t].lane /\ row.runtime = queue[t].runtime
  BY <1>1, <1>2, RowFields DEF Row
<1>. HIDE DEF row
<1>4. queue' \in Table /\ Orderly
  BY <1>1, <1>3, ClockRow
<1>. QED  BY <1>4, TableType DEF DeadlinePasses

LEMMA LeaseExpiresStep ==
    ASSUME TypeOK, NEW t \in Task, LeaseExpires(t)
    PROVE  TypeOK' /\ Orderly /\ Quiet
<1>1. queue' \in Table /\ Orderly
  BY LeaseStep DEF LeaseExpires
<1>. QED  BY <1>1, TableType DEF LeaseExpires

LEMMA RuntimeChange ==
    ASSUME TypeOK, NEW r \in Runtime,
           MarkOffline(r) \/ RuntimeSilent(r) \/ Deregister(r) \/ Heartbeat(r)
    PROVE  TypeOK' /\ Orderly /\ Quiet
<1>1. runtime[r].silence \in 0..2 /\ runtime[r].online \in BOOLEAN
  BY DEF TypeOK
<1>. DEFINE RT == [online: BOOLEAN, silence: 0..2]
<1>2. \E x \in RT : runtime' = [runtime EXCEPT ![r] = x]
  <2>1. CASE MarkOffline(r) \/ Deregister(r)
    <3>1. [runtime[r] EXCEPT !.online = FALSE] \in RT
      BY DEF TypeOK
    <3>2. runtime' = [runtime EXCEPT ![r] = [runtime[r] EXCEPT !.online = FALSE]]
      BY <2>1 DEF MarkOffline, Deregister, TypeOK
    <3>. QED  BY <3>1, <3>2
  <2>2. CASE RuntimeSilent(r)
    <3>1. runtime[r].silence + 1 \in 0..2
      BY <1>1, <2>2 DEF RuntimeSilent
    <3>2. [runtime[r] EXCEPT !.silence = runtime[r].silence + 1] \in RT
      BY <3>1 DEF TypeOK
    <3>3. runtime' = [runtime EXCEPT ![r] = [runtime[r] EXCEPT !.silence = runtime[r].silence + 1]]
      BY <2>2 DEF RuntimeSilent, TypeOK
    <3>. QED  BY <3>2, <3>3
  <2>3. CASE Heartbeat(r)
    <3>1. [online |-> TRUE, silence |-> 0] \in RT
      OBVIOUS
    <3>. QED  BY <2>3, <3>1 DEF Heartbeat
  <2>. QED  BY <2>1, <2>2, <2>3
<1>3. runtime' \in [Runtime -> RT]
  BY <1>2 DEF TypeOK
<1>. QED
  BY <1>3, SameOrderly DEF MarkOffline, RuntimeSilent, Deregister, Heartbeat,
     TypeOK, Table, Quiet, serverVars, daemonVars

LEMMA ServerCrashStep ==
    ASSUME TypeOK, ServerCrash
    PROVE  TypeOK' /\ Orderly /\ Quiet
BY IdleClaimType, SameOrderly DEF ServerCrash, TypeOK, Table, Quiet, daemonVars

-----------------------------------------------------------------------------
(* Every step that neither locks an agent nor claims a row.                 *)

LEMMA OtherSteps ==
    ASSUME TypeOK, Placed, LinkingEnded, Next,
           ~(\E h \in Handler, a \in Agent : LockAgent(h, a)),
           ~(\E h \in Handler : ClaimRow(h))
    PROVE  TypeOK' /\ Orderly /\ Quiet
<1>1. CASE UserStep
  BY <1>1, EnqueueStep, EnqueueFallbackStep, AgentCommentsStep, CancelStep,
     RerunStep, RerunEnqueueStep DEF UserStep
<1>2. ASSUME NEW h \in Handler, ClaimStep(h)
      PROVE  TypeOK' /\ Orderly /\ Quiet
  BY <1>2, PollStep, ReclaimStaleStep, ListCandidatesStep, ClaimErrorStep, DeliverStep,
     RequeueStep, CancelClaimedStep, RespondStep, AbortClaimStep DEF ClaimStep
<1>3. ASSUME NEW w \in workers, WorkerStep(w)
      PROVE  TypeOK' /\ Orderly /\ Quiet
  BY <1>3, ExtendLeaseStep, MarkWaitingStep, StartStep, CompleteStep,
     ReportFailureStep, FailUnreadStep, GiveUpStep DEF WorkerStep
<1>4. ASSUME NEW t \in Task, RowStep(t)
      PROVE  TypeOK' /\ Orderly /\ Quiet
  BY <1>4, AcknowledgeStep, NothingDoneStep, LinkStep, RetryFailedStep, DeadlinePassesStep,
     LeaseExpiresStep DEF RowStep
<1>5. ASSUME NEW r \in Runtime, RuntimeStep(r)
      PROVE  TypeOK' /\ Orderly /\ Quiet
  BY <1>5, RecoverOrphansStep, RuntimeChange, ReassignStep DEF RuntimeStep
<1>6. ASSUME NEW d \in Daemon, DaemonCrash(d)
      PROVE  TypeOK' /\ Orderly /\ Quiet
  BY <1>6, DaemonCrashStep
<1>. QED  BY <1>1, <1>2, <1>3, <1>4, <1>5, <1>6, SweepStep, ServerCrashStep DEF Next

-----------------------------------------------------------------------------
(* The inductive invariant.  LaneExclusive is inductive next to TypeOK, but *)
(* CapacityRespected is not: a handler counts the active rows in one step   *)
(* and claims in another.  What bridges the two is the agent row lock:      *)
(* while a handler holds an agent, nobody else does, so the room it counted *)
(* is still there.                                                          *)

LockKeepsRoom ==
    \A h \in Handler : claim[h].holds # None =>
        /\ Cardinality(ActiveRows(queue, claim[h].holds)) < MaxConcurrent[claim[h].holds]
        /\ \A g \in Handler : claim[g].holds = claim[h].holds => g = h

IInv == /\ TypeOK /\ Placed /\ LinkingEnded
        /\ LaneExclusive /\ CapacityRespected /\ LockKeepsRoom

LEMMA ActiveFinite ==
    ASSUME NEW q, NEW a
    PROVE  /\ IsFiniteSet(ActiveRows(q, a)) /\ Cardinality(ActiveRows(q, a)) \in Nat
BY TaskAssumption, FS_Subset, FS_CardinalityType DEF ActiveRows

(* An orderly step adds nothing to what is active.                          *)
LEMMA OrderlyShrinks ==
    ASSUME Orderly
    PROVE  \A t \in Task : queue'[t].status \in Active =>
             /\ queue[t].status \in Active
             /\ queue'[t].agent = queue[t].agent /\ queue'[t].lane = queue[t].lane
BY DEF Orderly, Lawful, Lifecycle!Moves, Active

LEMMA OrderlyKeepsPlaced ==
    ASSUME Placed, Orderly
    PROVE  Placed'
<1>1. ASSUME NEW t \in Task
      PROVE  IF queue'[t].status = "absent"
             THEN queue'[t].lane = None /\ queue'[t].runtime = None
             ELSE /\ queue'[t].agent \in Agent /\ queue'[t].lane \in Lane
                  /\ queue'[t].runtime \in Runtime
  <2>1. Lawful(queue[t], queue'[t])
    BY DEF Orderly
  <2>2. CASE queue[t].status = "absent"
    BY <2>1, <2>2 DEF Lawful, Placed
  <2>3. CASE queue[t].status # "absent"
    BY <2>1, <2>3 DEF Lawful, Lifecycle!Moves, Placed, Lane
  <2>. QED  BY <2>2, <2>3
<1>. QED  BY <1>1 DEF Placed

LEMMA ShrinkingCount ==
    ASSUME Orderly, NEW a
    PROVE  Cardinality(ActiveRows(queue', a)) <= Cardinality(ActiveRows(queue, a))
<1>1. ActiveRows(queue', a) \subseteq ActiveRows(queue, a)
  BY OrderlyShrinks DEF ActiveRows
<1>. QED  BY <1>1, ActiveFinite, FS_Subset

(* No step but the completion of a row adds a row to link.                  *)
LinksCompleted == \A t \in linking' : t \in linking \/ queue'[t].status = "completed"

LEMMA StepLinks ==
    ASSUME TypeOK, Next
    PROVE  LinksCompleted
<1>1. CASE UserStep
  BY <1>1 DEF UserStep, Enqueue, EnqueueFallback, AgentComments, Rerun, RerunEnqueue, Cancel,
     serverVars, LinksCompleted
<1>2. ASSUME NEW h \in Handler, ClaimStep(h)
      PROVE  LinksCompleted
  BY <1>2 DEF ClaimStep, Poll, ReclaimStale, ListCandidates, LockAgent, ClaimRow, ClaimError,
     Deliver, Withhold, Requeue, CancelClaimed, Respond, AbortClaim, serverVars, LinksCompleted
<1>3. ASSUME NEW w \in workers, WorkerStep(w)
      PROVE  LinksCompleted
  <2>1. CASE Complete(w) /\ queue[w.task].status = "running"
    <3>1. queue'[w.task].status = "completed"
      BY <2>1, WorkerTask DEF Complete, End, TypeOK, Row
    <3>. QED  BY <2>1, <3>1 DEF Complete, LinksCompleted
  <2>2. CASE linking' = linking
    BY <2>2 DEF LinksCompleted
  <2>. QED
    BY <1>3, <2>1, <2>2 DEF WorkerStep, ExtendLease, MarkWaiting, Start, Complete, GiveUp,
       ReportFailure, FailUnread, serverVars
<1>4. ASSUME NEW t \in Task, RowStep(t)
      PROVE  LinksCompleted
  BY <1>4 DEF RowStep, Acknowledge, AcknowledgeFails, LinkTaskToIssue, LinkNothing, RetryFailed,
     DeadlinePasses, LeaseExpires, serverVars, LinksCompleted
<1>5. ASSUME NEW r \in Runtime, RuntimeStep(r)
      PROVE  LinksCompleted
  BY <1>5 DEF RuntimeStep, RecoverOrphans, MarkOffline, RuntimeSilent, Deregister, Heartbeat,
     ReassignTasksToRuntime, serverVars, LinksCompleted
<1>6. CASE \/ \E d \in Daemon : DaemonCrash(d)
           \/ SweepOffline \/ SweepReconnect \/ SweepStale \/ SweepQueued \/ ServerCrash
  BY <1>6 DEF DaemonCrash, SweepOffline, SweepReconnect, SweepStale, SweepQueued, SweepRows,
     ServerCrash, serverVars, LinksCompleted
<1>. QED  BY <1>1, <1>2, <1>3, <1>4, <1>5, <1>6 DEF Next

LEMMA OrderlyKeepsLinking ==
    ASSUME TypeOK, LinkingEnded, Orderly, LinksCompleted
    PROVE  LinkingEnded'
BY DEF LinkingEnded, LinksCompleted, Orderly, Lawful, Lifecycle!Moves, TypeOK

LEMMA OrderlyKeepsIInv ==
    ASSUME IInv, TypeOK', Orderly, Quiet, LinksCompleted
    PROVE  IInv'
<1>1. Placed'
  BY OrderlyKeepsPlaced DEF IInv
<1>2. LaneExclusive'
  BY OrderlyShrinks DEF IInv, LaneExclusive, Serialized
<1>3. CapacityRespected'
  <2>1. ASSUME NEW a \in Agent
        PROVE  Cardinality(ActiveRows(queue', a)) <= MaxConcurrent[a]
    <3>1. Cardinality(ActiveRows(queue, a)) <= MaxConcurrent[a] /\ MaxConcurrent[a] \in Nat
      BY TaskAssumption DEF IInv, CapacityRespected
    <3>. QED  BY <3>1, ShrinkingCount, ActiveFinite
  <2>. QED  BY <2>1 DEF CapacityRespected
<1>4. LockKeepsRoom'
  <2>1. ASSUME NEW h \in Handler, claim'[h].holds # None
        PROVE  /\ Cardinality(ActiveRows(queue', claim'[h].holds)) < MaxConcurrent[claim'[h].holds]
               /\ \A g \in Handler : claim'[g].holds = claim'[h].holds => g = h
    <3>1. claim'[h].holds = claim[h].holds
      BY <2>1 DEF Quiet
    <3>. DEFINE a == claim[h].holds
    <3>2. /\ a \in Agent /\ MaxConcurrent[a] \in Nat
          /\ Cardinality(ActiveRows(queue, a)) < MaxConcurrent[a]
      BY <2>1, <3>1, TaskAssumption DEF IInv, TypeOK, ClaimRequest, LockKeepsRoom
    <3>3. Cardinality(ActiveRows(queue', a)) < MaxConcurrent[a]
      BY <3>2, ShrinkingCount, ActiveFinite
    <3>4. \A g \in Handler : claim'[g].holds = a => g = h
      BY <2>1, <3>1 DEF Quiet, IInv, LockKeepsRoom
    <3>. QED  BY <3>1, <3>3, <3>4
  <2>. QED  BY <2>1 DEF LockKeepsRoom
<1>5. LinkingEnded'
  BY OrderlyKeepsLinking DEF IInv
<1>. QED  BY <1>1, <1>2, <1>3, <1>4, <1>5 DEF IInv

LEMMA LockKeepsIInv ==
    ASSUME IInv, NEW h \in Handler, NEW a \in Agent, LockAgent(h, a)
    PROVE  IInv'
<1>1. TypeOK' /\ Orderly
  BY LockAgentStep DEF IInv
<1>2. Placed' /\ LinkingEnded' /\ LaneExclusive' /\ CapacityRespected'
  BY DEF IInv, LockAgent, Placed, LinkingEnded, LaneExclusive, CapacityRespected, serverVars
<1>3. LockKeepsRoom'
  <2>1. /\ claim'[h].holds \in {None, a}
        /\ claim'[h].holds # None => Cardinality(ActiveRows(queue, a)) < MaxConcurrent[a]
        /\ \A g \in Handler \ {h} : claim'[g] = claim[g]
        /\ \A g \in Handler : claim[g].holds # a
    BY DEF IInv, TypeOK, LockAgent, ClaimRequest
  <2>2. queue' = queue
    BY DEF LockAgent
  <2>. QED  BY <2>1, <2>2 DEF IInv, LockKeepsRoom
<1>. QED  BY <1>1, <1>2, <1>3 DEF IInv

(* A claim makes one claimable row active, while its agent is locked.       *)
LEMMA ClaimKeepsIInv ==
    ASSUME IInv, NEW h \in Handler, ClaimRow(h)
    PROVE  IInv'
<1>1. /\ TypeOK'
      /\ claim'[h].holds = None
      /\ \A g \in Handler \ {h} : claim'[g] = claim[g]
  BY ClaimRowStep DEF IInv
<1>2. linking' = linking
  BY DEF ClaimRow, serverVars
<1>3. CASE queue' = queue
  <2>1. Placed' /\ LinkingEnded' /\ LaneExclusive' /\ CapacityRespected'
    BY <1>2, <1>3 DEF IInv, Placed, LinkingEnded, LaneExclusive, CapacityRespected
  <2>2. LockKeepsRoom'
    BY <1>1, <1>3 DEF IInv, LockKeepsRoom
  <2>. QED  BY <1>1, <2>1, <2>2 DEF IInv
<1>4. CASE \E t \in Task : /\ Claimable(queue, t) /\ queue[t].agent = claim[h].holds
                           /\ queue' = Dispatched(queue, {t})
  <2>. DEFINE a == claim[h].holds
  <2>1. PICK t \in Task : /\ Claimable(queue, t) /\ queue[t].agent = a
                          /\ queue' = Dispatched(queue, {t})
    BY <1>4
  <2>2. /\ a \in Agent /\ a # None
        /\ MaxConcurrent[a] \in Nat
        /\ Cardinality(ActiveRows(queue, a)) < MaxConcurrent[a]
        /\ \A g \in Handler \ {h} : claim[g].holds # a
    BY TaskAssumption DEF IInv, TypeOK, ClaimRequest, ClaimRow, LockKeepsRoom
  <2>3. /\ \A u \in Task \ {t} : queue'[u] = queue[u]
        /\ queue'[t].status = "dispatched"
        /\ queue'[t].agent = queue[t].agent /\ queue'[t].lane = queue[t].lane
        /\ queue'[t].runtime = queue[t].runtime
    BY <2>1, DispatchRows DEF IInv, TypeOK, Table
  <2>4. queue[t].status = "queued"
    BY <2>1 DEF Claimable
  <2>5. Placed'
    BY <2>3, <2>4 DEF IInv, Placed
  <2>6. LaneExclusive'
    <3>1. \A u \in Task : queue[u].status \in Active =>
             ~Serialized(queue[t], queue[u]) /\ ~Serialized(queue[u], queue[t])
      BY <2>1 DEF Claimable, Serialized
    <3>. QED  BY <2>3, <3>1 DEF IInv, LaneExclusive, Serialized
  <2>7. ActiveRows(queue', a) = ActiveRows(queue, a) \cup {t}
    BY <2>1, <2>3 DEF ActiveRows, Active
  <2>8. \A b \in Agent \ {a} : ActiveRows(queue', b) = ActiveRows(queue, b)
    BY <2>1, <2>3 DEF ActiveRows
  <2>9. CapacityRespected'
    <3>1. t \notin ActiveRows(queue, a)
      BY <2>4 DEF ActiveRows, Active
    <3>2. Cardinality(ActiveRows(queue', a)) = Cardinality(ActiveRows(queue, a)) + 1
      BY <2>7, <3>1, ActiveFinite, FS_AddElement
    <3>3. Cardinality(ActiveRows(queue', a)) <= MaxConcurrent[a]
      BY <2>2, <3>2, ActiveFinite
    <3>. QED  BY <2>8, <3>3 DEF IInv, CapacityRespected
  <2>10. LockKeepsRoom'
    <3>1. ASSUME NEW g \in Handler, claim'[g].holds # None
          PROVE  /\ Cardinality(ActiveRows(queue', claim'[g].holds))
                      < MaxConcurrent[claim'[g].holds]
                 /\ \A f \in Handler : claim'[f].holds = claim'[g].holds => f = g
      <4>1. g # h /\ claim'[g] = claim[g]
        BY <1>1, <3>1
      <4>2. claim[g].holds \in Agent \ {a}
        BY <2>2, <3>1, <4>1 DEF IInv, TypeOK, ClaimRequest
      <4>3. Cardinality(ActiveRows(queue', claim[g].holds)) < MaxConcurrent[claim[g].holds]
        BY <2>8, <3>1, <4>1, <4>2 DEF IInv, LockKeepsRoom
      <4>4. \A f \in Handler : claim'[f].holds = claim[g].holds => f = g
        BY <1>1, <3>1, <4>1 DEF IInv, LockKeepsRoom
      <4>. QED  BY <4>1, <4>3, <4>4
    <3>. QED  BY <3>1 DEF LockKeepsRoom
  <2>11. LinkingEnded'
    BY <1>2, <2>3, <2>4 DEF IInv, LinkingEnded, TypeOK
  <2>. QED  BY <1>1, <2>5, <2>6, <2>9, <2>10, <2>11 DEF IInv
<1>. QED  BY <1>3, <1>4, ClaimRowStep DEF IInv

LEMMA InitIInv == Init => IInv
<1>. SUFFICES ASSUME Init PROVE IInv
  OBVIOUS
<1>1. AbsentRow \in Row
  BY DEF AbsentRow, Row, Status, Reason
<1>2. \A t \in Task : /\ queue[t] = AbsentRow
                      /\ queue[t].status = "absent"
                      /\ queue[t].lane = None /\ queue[t].runtime = None
  BY DEF Init, AbsentRow
<1>3. TypeOK
  <2>1. [online |-> TRUE, silence |-> 0] \in [online: BOOLEAN, silence: 0..2]
    OBVIOUS
  <2>. QED  BY <1>1, <2>1, IdleClaimType DEF Init, TypeOK
<1>4. Placed /\ LinkingEnded /\ LaneExclusive
  BY <1>2 DEF Init, Placed, LinkingEnded, LaneExclusive, Active
<1>5. CapacityRespected
  <2>1. ASSUME NEW a \in Agent
        PROVE  Cardinality(ActiveRows(queue, a)) <= MaxConcurrent[a]
    <3>1. ActiveRows(queue, a) = {}
      BY <1>2 DEF ActiveRows, Active
    <3>. QED  BY <3>1, FS_EmptySet, TaskAssumption
  <2>. QED  BY <2>1 DEF CapacityRespected
<1>6. LockKeepsRoom
  BY IdleClaimType DEF Init, LockKeepsRoom
<1>. QED  BY <1>3, <1>4, <1>5, <1>6 DEF IInv

LEMMA NextIInv == IInv /\ [Next]_vars => IInv'
<1>. SUFFICES ASSUME IInv, [Next]_vars PROVE IInv'
  OBVIOUS
<1>1. CASE \E h \in Handler, a \in Agent : LockAgent(h, a)
  BY <1>1, LockKeepsIInv
<1>2. CASE \E h \in Handler : ClaimRow(h)
  BY <1>2, ClaimKeepsIInv
<1>3. CASE /\ Next
           /\ ~(\E h \in Handler, a \in Agent : LockAgent(h, a))
           /\ ~(\E h \in Handler : ClaimRow(h))
  <2>1. TypeOK' /\ Orderly /\ Quiet /\ LinksCompleted
    BY <1>3, OtherSteps, StepLinks DEF IInv
  <2>. QED  BY <2>1, OrderlyKeepsIInv
<1>4. CASE UNCHANGED vars
  BY <1>4 DEF vars, serverVars, daemonVars, IInv, TypeOK, Placed, LinkingEnded, LaneExclusive,
     CapacityRespected, LockKeepsRoom
<1>. QED  BY <1>1, <1>2, <1>3, <1>4

(* The inductive invariant holds of every reachable state.                  *)
THEOREM Inductive == Spec => []IInv
BY InitIInv, NextIInv, PTL DEF Spec

(* Every variable keeps its type: in particular a retry is always a row of  *)
(* an agent on a lane, because only rows that have a place are retried.     *)
THEOREM TypeCorrect == Spec => []TypeOK
<1>1. IInv => TypeOK
  BY DEF IInv
<1>. QED  BY <1>1, Inductive, PTL

(* For any number of handlers, daemons, agents and rows, an agent never     *)
(* works twice on one lane (service/task.go ClaimTask, ClaimAgentTask).     *)
THEOREM LanesExclusive == Spec => []LaneExclusive
<1>1. IInv => LaneExclusive
  BY DEF IInv
<1>. QED  BY <1>1, Inductive, PTL

(* For any number of overlapping claim requests, and whatever requeues,     *)
(* reclaims, reports and sweeps come in between, no agent exceeds its       *)
(* max_concurrent_tasks: the count is taken under the agent row lock.       *)
THEOREM CapacityHolds == Spec => []CapacityRespected
<1>1. IInv => CapacityRespected
  BY DEF IInv
<1>. QED  BY <1>1, Inductive, PTL

-----------------------------------------------------------------------------
(* The refinement of TaskLifecycle.                                         *)

LEMMA InitLifecycle == Init => Lifecycle!Init
BY DEF Init, Lifecycle!Init, AbsentRow

LEMMA OrderlyLifecycle ==
    ASSUME Orderly
    PROVE  Lifecycle!Next
<1>1. ASSUME NEW t \in Task
      PROVE  /\ queue'[t].status # queue[t].status
                  => <<queue[t].status, queue'[t].status>> \in Lifecycle!Moves
             /\ IF queue'[t].status # queue[t].status /\ queue[t].status = "absent"
                THEN queue'[t].agent \in Agent /\ queue'[t].lane \in Lane
                ELSE /\ queue'[t].agent = queue[t].agent
                     /\ \/ queue'[t].lane = queue[t].lane
                        \/ /\ queue[t].status = "completed" /\ queue[t].lane = Bare
                           /\ queue'[t].lane \in Issue
             /\ ~(queue[t].status = "queued" /\ queue'[t].status = "dispatched")
  <2>1. Lawful(queue[t], queue'[t])
    BY DEF Orderly
  <2>. QED  BY <2>1 DEF Lawful, Lifecycle!Moves
<1>2. Lifecycle!Starting = {}
  BY <1>1 DEF Lifecycle!Starting
<1>3. ASSUME NEW t \in Task, ~(queue'[t].status # queue[t].status /\ queue[t].status = "absent"),
             queue'[t].lane # queue[t].lane
      PROVE  Lifecycle!Filed(t)
  <2>1. /\ queue[t].status = "completed" /\ queue[t].lane = Bare
        /\ queue'[t].lane \in Issue /\ queue'[t].agent = queue[t].agent
    BY <1>1, <1>3
  <2>. QED  BY <2>1 DEF Lifecycle!Filed
<1>. QED  BY <1>1, <1>2, <1>3 DEF Lifecycle!Next

LEMMA ClaimLifecycle ==
    ASSUME IInv, NEW h \in Handler, ClaimRow(h)
    PROVE  [Lifecycle!Next]_(Lifecycle!abstractVars)
<1>1. CASE queue' = queue
  BY <1>1 DEF Lifecycle!abstractVars
<1>2. CASE \E t \in Task : /\ Claimable(queue, t) /\ queue[t].agent = claim[h].holds
                           /\ queue' = Dispatched(queue, {t})
  <2>. DEFINE a == claim[h].holds
  <2>1. PICK t \in Task : /\ Claimable(queue, t) /\ queue[t].agent = a
                          /\ queue' = Dispatched(queue, {t})
    BY <1>2
  <2>2. Cardinality(ActiveRows(queue, a)) < MaxConcurrent[a]
    BY DEF IInv, ClaimRow, LockKeepsRoom
  <2>3. /\ \A u \in Task \ {t} : queue'[u] = queue[u]
        /\ queue'[t].status = "dispatched"
        /\ queue'[t].agent = queue[t].agent /\ queue'[t].lane = queue[t].lane
    BY <2>1, DispatchRows DEF IInv, TypeOK, Table
  <2>4. queue[t].status = "queued"
    BY <2>1 DEF Claimable
  <2>5. Lifecycle!Starting = {t}
    BY <2>3, <2>4 DEF Lifecycle!Starting
  <2>6. Lifecycle!Working(a) = ActiveRows(queue, a)
    BY DEF Lifecycle!Working, Lifecycle!Active, ActiveRows, Active
  <2>7. Lifecycle!MayStart(t)
    <3>1. \A u \in Lifecycle!Working(a) : queue[u].lane = queue[t].lane => queue[t].lane = Free
      BY <2>1, <2>6 DEF ActiveRows, Claimable, Serialized
    <3>2. \A u \in Lifecycle!Working(a) : u \in Task
      BY <2>6 DEF ActiveRows
    <3>3. Lifecycle!Cardinality(Lifecycle!Working(a)) = Cardinality(Lifecycle!Working(a))
      BY DEF Lifecycle!Cardinality, Cardinality
    <3>. HIDE DEF a
    <3>. QED  BY <2>1, <2>2, <2>6, <3>1, <3>2, <3>3 DEF Lifecycle!MayStart
  <2>8. <<"queued", "dispatched">> \in Lifecycle!Moves
    BY DEF Lifecycle!Moves
  <2>. QED  BY <2>3, <2>4, <2>5, <2>7, <2>8 DEF Lifecycle!Next
<1>. QED  BY <1>1, <1>2, ClaimRowStep DEF IInv

LEMMA StepLifecycle == IInv /\ [Next]_vars => [Lifecycle!Next]_(Lifecycle!abstractVars)
<1>. SUFFICES ASSUME IInv, [Next]_vars PROVE [Lifecycle!Next]_(Lifecycle!abstractVars)
  OBVIOUS
<1>1. CASE \E h \in Handler, a \in Agent : LockAgent(h, a)
  BY <1>1 DEF LockAgent, Lifecycle!abstractVars
<1>2. CASE \E h \in Handler : ClaimRow(h)
  BY <1>2, ClaimLifecycle
<1>3. CASE /\ Next
           /\ ~(\E h \in Handler, a \in Agent : LockAgent(h, a))
           /\ ~(\E h \in Handler : ClaimRow(h))
  <2>1. Orderly
    BY <1>3, OtherSteps DEF IInv
  <2>. QED  BY <2>1, OrderlyLifecycle
<1>4. CASE UNCHANGED vars
  BY <1>4 DEF vars, Lifecycle!abstractVars
<1>. QED  BY <1>1, <1>2, <1>3, <1>4

(* The queue, with all its handlers, daemons, sweeps, retries and crashes,  *)
(* implements the abstract lifecycle.                                       *)
THEOREM Refinement == Spec => ImplementsLifecycle
<1>1. Spec => Lifecycle!Spec
  BY InitLifecycle, StepLifecycle, Inductive, PTL DEF Spec, Lifecycle!Spec
<1>. QED  BY <1>1 DEF ImplementsLifecycle

-----------------------------------------------------------------------------
(* Who was handed a row: for any number of claim requests, daemons and      *)
(* reclaims, a claim has one holder, and a queued row has none.             *)

(* The claims a request and a worker hold.                                  *)

Held(h) == claim[h].claimed \cup claim[h].ready

Ticket(w) == [task |-> w.task, stamp |-> w.stamp]

(* Statuses in which a row has not been claimed.                            *)
Untaken == {"absent", "deferred", "queued"}

(* A claim was stamped when its row was dispatched, and stamps only grow.   *)
Stamped(c) == queue[c.task].status # "absent" /\ c.stamp <= queue[c.task].stamp

AllStamped == /\ \A h \in Handler : \A c \in Held(h) : Stamped(c)
              /\ \A w \in workers : Stamped(w)

(* No claim is held twice.                                                  *)
HeldOnce ==
    /\ \A h \in Handler : claim[h].claimed \cap claim[h].ready = {}
    /\ \A g, h \in Handler : Held(g) \cap Held(h) # {} => g = h
    /\ \A h \in Handler, w \in workers : Ticket(w) \notin Held(h)
    /\ \A v, w \in workers : Ticket(v) = Ticket(w) => v = w

(* The present claim of a row that is not taken is held by nobody.          *)
UntakenUnheld ==
    /\ \A h \in Handler : \A c \in Held(h) :
         queue[c.task].status \in Untaken => c.stamp # queue[c.task].stamp
    /\ \A w \in workers :
         queue[w.task].status \in Untaken => w.stamp # queue[w.task].stamp

HandInv == AllStamped /\ HeldOnce /\ UntakenUnheld

-----------------------------------------------------------------------------
(* Steps that claim nothing and give nothing back.                          *)

Kept(p, n) ==
    IF p.status = "absent" THEN n.status \in Untaken
    ELSE /\ n.stamp = p.stamp /\ n.status # "absent"
         /\ n.status \in Untaken => p.status \in Untaken

TableKept == \A t \in Task : Kept(queue[t], queue'[t])

(* Claims are dropped, but nobody obtains one.                              *)
HoldersShrink ==
    /\ \A h \in Handler : Held(h)' \subseteq Held(h)
    /\ \A h \in Handler : (claim[h].claimed \cap claim[h].ready = {})'
    /\ \A w \in workers' : \E v \in workers : Ticket(v) = Ticket(w)
    /\ \A v, w \in workers' : Ticket(v) = Ticket(w) => v = w

LEMMA Types ==
    ASSUME TypeOK
    PROVE  /\ \A h \in Handler : \A c \in Held(h) : c \in Claimed /\ c.task \in Task /\ c.stamp \in Nat
           /\ \A w \in workers : /\ w \in Worker /\ w.task \in Task /\ w.stamp \in Nat
                                 /\ Ticket(w) \in Claimed
           /\ \A t \in Task : queue[t] \in Row /\ queue[t].stamp \in Nat
<1>1. \A h \in Handler : \A c \in Held(h) : c \in Claimed
  BY DEF TypeOK, ClaimRequest, Held
<1>2. \A c \in Claimed : c.task \in Task /\ c.stamp \in Nat
  BY DEF Claimed
<1>3. \A w \in workers : w \in Worker /\ w.task \in Task /\ w.stamp \in Nat /\ Ticket(w) \in Claimed
  BY DEF TypeOK, Worker, Ticket, Claimed
<1>4. \A t \in Task : queue[t] \in Row /\ queue[t].stamp \in Nat
  BY DEF TypeOK, Row
<1>. QED  BY <1>1, <1>2, <1>3, <1>4

LEMMA TicketFields ==
    ASSUME NEW v, NEW w
    PROVE  /\ Ticket(v).task = v.task /\ Ticket(v).stamp = v.stamp
           /\ Ticket(v) = Ticket(w) => v.task = w.task /\ v.stamp = w.stamp
BY DEF Ticket

LEMMA KeptKeepsHandInv ==
    ASSUME TypeOK, TypeOK', HandInv, TableKept, HoldersShrink
    PROVE  HandInv'
<1>1. ASSUME NEW h \in Handler, NEW c \in Held(h)'
      PROVE  c \in Held(h) /\ c.task \in Task
  BY <1>1, Types DEF HoldersShrink
<1>2. ASSUME NEW w \in workers'
      PROVE  \E v \in workers : Ticket(v) = Ticket(w) /\ v.task = w.task /\ v.stamp = w.stamp
                                /\ v.task \in Task
  BY <1>2, Types, TicketFields DEF HoldersShrink
<1>3. AllStamped'
  BY <1>1, <1>2 DEF HandInv, AllStamped, Stamped, TableKept, Kept
<1>4. UntakenUnheld'
  BY <1>1, <1>2 DEF HandInv, AllStamped, Stamped, UntakenUnheld, TableKept, Kept
<1>5. HeldOnce'
  <2>1. \A g, h \in Handler : Held(g)' \cap Held(h)' # {} => g = h
    BY <1>1 DEF HandInv, HeldOnce
  <2>2. \A h \in Handler, w \in workers' : Ticket(w) \notin Held(h)'
    BY <1>1, <1>2 DEF HandInv, HeldOnce
  <2>3. /\ \A h \in Handler : (claim[h].claimed \cap claim[h].ready = {})'
        /\ \A v, w \in workers' : Ticket(v) = Ticket(w) => v = w
    BY DEF HoldersShrink
  <2>. QED  BY <2>1, <2>2, <2>3 DEF HeldOnce
<1>. QED  BY <1>3, <1>4, <1>5 DEF HandInv

LEMMA SameHolders ==
    ASSUME HandInv, UNCHANGED <<claim, workers>>
    PROVE  HoldersShrink
BY DEF HoldersShrink, HandInv, HeldOnce, Held

LEMMA SameTable ==
    ASSUME TypeOK, queue' = queue
    PROVE  TableKept
BY DEF TableKept, Kept, TypeOK, Row, Untaken

LEMMA EndKept ==
    ASSUME queue \in Table, NEW rows \in SUBSET Task, NEW status \in Terminal, NEW reason \in Reason,
           \A t \in rows : queue[t].status \in Live,
           queue' = End(queue, rows, status, reason)
    PROVE  TableKept
<1>1. ASSUME NEW t \in rows
      PROVE  Kept(queue[t], queue'[t])
  <2>1. queue'[t] = [queue[t] EXCEPT !.status = status, !.reason = reason,
                                     !.age = 0, !.leased = FALSE]
    BY <1>1 DEF End
  <2>2. queue[t] \in Row /\ queue[t].status \in Live
    BY <1>1 DEF Table
  <2>3. queue[t].status # "absent" /\ status \notin Untaken
    BY <2>2 DEF Live, Active, Terminal, Untaken
  <2>. QED  BY <2>1, <2>2, <2>3 DEF Row, Kept, Untaken
<1>2. \A t \in Task \ rows : queue'[t] = queue[t]
  BY DEF End
<1>. QED  BY <1>1, <1>2 DEF TableKept, Kept, Untaken

LEMMA InsertKept ==
    ASSUME queue \in Table, Absent(queue) # {}, NEW row \in Row,
           row.status \in {"deferred", "queued"},
           queue' = Insert(queue, row)
    PROVE  TableKept
BY InsertRow DEF TableKept, Kept, Absent, Untaken

LEMMA SetKept ==
    ASSUME queue \in Table, NEW t \in Task, NEW row, Kept(queue[t], row),
           queue' = [queue EXCEPT ![t] = row]
    PROVE  TableKept
BY DEF Table, TableKept, Kept, Untaken

(* A taken row moves to another status of a taken row.                      *)
LEMMA MoveKept ==
    ASSUME queue \in Table, NEW t \in Task, NEW s \in Active, queue[t].status \in Active,
           queue' = [queue EXCEPT ![t] = [@ EXCEPT !.status = s, !.age = 0, !.leased = FALSE]]
    PROVE  TableKept
<1>. DEFINE row == [queue[t] EXCEPT !.status = s, !.age = 0, !.leased = FALSE]
<1>1. queue[t] \in Row /\ queue' = [queue EXCEPT ![t] = row]
  BY DEF Table
<1>2. Kept(queue[t], row)
  BY <1>1 DEF Row, Kept, Untaken, Active
<1>. HIDE DEF row
<1>. QED  BY <1>1, <1>2, SetKept

LEMMA LeaseKept ==
    ASSUME queue \in Table, NEW t \in Task, NEW b \in BOOLEAN,
           queue' = [queue EXCEPT ![t].leased = b]
    PROVE  TableKept
<1>. DEFINE row == [queue[t] EXCEPT !.leased = b]
<1>1. queue[t] \in Row /\ queue' = [queue EXCEPT ![t] = row]
  BY DEF Table
<1>2. Kept(queue[t], row)
  BY <1>1 DEF Row, Kept, Untaken
<1>. HIDE DEF row
<1>. QED  BY <1>1, <1>2, SetKept

(* Rows are inserted by users and by retries.                               *)
LEMMA UserKept ==
    ASSUME TypeOK, UserStep
    PROVE  TableKept
<1>1. queue \in Table /\ "none" \in Reason /\ "cancelled" \in Terminal
  BY DEF TypeOK, Table, Reason, Terminal
<1>2. ASSUME NEW a \in Agent, NEW l \in Lane, NEW r \in Runtime, Absent(queue) # {},
             queue' = Insert(queue, QueuedRow(a, l, r))
      PROVE  TableKept
  <2>. DEFINE row == QueuedRow(a, l, r)
  <2>1. row \in Row /\ row.status \in {"deferred", "queued"} /\ queue' = Insert(queue, row)
    BY <1>2, NewRow
  <2>. HIDE DEF row
  <2>. QED  BY <1>1, <1>2, <2>1, InsertKept
<1>3. ASSUME NEW a \in Agent, NEW l \in Lane, NEW r \in Runtime, Enqueue(a, l, r)
      PROVE  TableKept
  BY <1>2, <1>3 DEF Enqueue, RoomForRoot
<1>4. ASSUME NEW t \in Task, NEW a \in FallbackAgent, NEW r \in Runtime, EnqueueFallback(t, a, r)
      PROVE  TableKept
  <2>. DEFINE row == FallbackRow(a, queue[t].lane, r, t)
  <2>1. a \in Agent /\ queue[t].lane \in Lane
    BY <1>4, QueueAssumption DEF EnqueueFallback, Lane
  <2>2. row \in Row /\ row.status \in {"deferred", "queued"}
    BY <2>1, NewFallback
  <2>3. queue' = Insert(queue, row) /\ Absent(queue) # {}
    BY <1>4 DEF EnqueueFallback, RoomForRoot
  <2>. HIDE DEF row
  <2>. QED  BY <1>1, <2>2, <2>3, InsertKept
<1>5. ASSUME NEW rows \in SUBSET {t \in Task : queue[t].status \in Live},
             queue' = End(queue, rows, "cancelled", "none")
      PROVE  TableKept
  <2>1. rows \in SUBSET Task /\ \A t \in rows : queue[t].status \in Live
    OBVIOUS
  <2>. QED  BY <1>1, <1>5, <2>1, EndKept
<1>6. ASSUME NEW a \in Agent, NEW i \in Issue, AgentComments(a, i) \/ Rerun(a, i)
      PROVE  TableKept
  <2>1. FallbacksFor(a, i) \in SUBSET {t \in Task : queue[t].status \in Live}
    BY DEF FallbacksFor, Standing, Live, Active
  <2>. QED  BY <1>5, <1>6, <2>1 DEF AgentComments, Rerun
<1>7. ASSUME NEW a \in Agent, NEW i \in Issue, NEW r \in Runtime, RerunEnqueue(a, i, r)
      PROVE  TableKept
  <2>1. i \in Lane
    BY DEF Lane
  <2>. QED  BY <1>2, <1>7, <2>1, SameTable DEF RerunEnqueue, RoomForRoot
<1>8. ASSUME Cancel
      PROVE  TableKept
  BY <1>5, <1>8 DEF Cancel, CancelRows
<1>. QED  BY <1>3, <1>4, <1>6, <1>7, <1>8 DEF UserStep

LEMMA FailedKept ==
    ASSUME TypeOK, Placed, NEW t \in Task, queue[t].status \in Active,
           NEW reason \in Reason, queue' = Failed(t, reason)
    PROVE  TableKept
<1>. DEFINE ended == End(queue, {t}, "failed", reason)
            row == RetryRow(reason, queue[t], t)
<1>1. queue \in Table /\ queue[t] \in Row /\ "failed" \in Status
  BY DEF TypeOK, Table, Status, Terminal
<1>2. /\ ended \in Table
      /\ \A u \in Task \ {t} : ended[u] = queue[u]
      /\ \A u \in {t} : /\ ended[u].status = "failed"
                        /\ ended[u].agent = queue[u].agent
                        /\ ended[u].lane = queue[u].lane
                        /\ ended[u].runtime = queue[u].runtime
  BY <1>1, EndRows
<1>3. ended[t].stamp = queue[t].stamp
  <2>1. ended[t] = [queue[t] EXCEPT !.status = "failed", !.reason = reason,
                                    !.age = 0, !.leased = FALSE]
    BY DEF End
  <2>. QED  BY <1>1, <2>1 DEF Row
<1>4. \A u \in Task : Kept(queue[u], ended[u])
  BY <1>2, <1>3 DEF Kept, Untaken, Active
<1>5. CASE queue' = ended
  BY <1>4, <1>5 DEF TableKept
<1>6. CASE queue' = Insert(ended, row) /\ Absent(queue) # {}
  <2>1. queue[t].agent \in Agent /\ queue[t].lane \in Lane /\ queue[t].runtime \in Runtime
    BY DEF Placed, Active
  <2>2. row \in Row /\ row.status \in {"deferred", "queued"}
    BY <1>1, <2>1, NewRetry
  <2>. HIDE DEF ended, row
  <2>3. Absent(ended) = Absent(queue)
    BY <1>2 DEF Absent, Active
  <2>4. /\ FreshRow(ended) \in Absent(ended) /\ Insert(ended, row)[FreshRow(ended)] = row
        /\ \A u \in Task \ {FreshRow(ended)} : Insert(ended, row)[u] = ended[u]
    BY <1>2, <1>6, <2>2, <2>3, InsertRow
  <2>. QED  BY <1>4, <1>6, <2>2, <2>3, <2>4 DEF TableKept, Kept, Untaken, Absent
<1>. QED  BY <1>5, <1>6 DEF Failed

LEMMA WorkerKept ==
    ASSUME TypeOK, Placed, NEW w \in workers, WorkerStep(w)
    PROVE  TableKept
<1>1. queue \in Table /\ w.task \in Task
  BY WorkerTask DEF TypeOK, Table
<1>2. {"dispatched", "waiting", "running"} \subseteq Active
  BY DEF Active
<1>3. CASE ExtendLease(w)
  BY <1>1, <1>3, LeaseKept DEF ExtendLease
<1>4. CASE MarkWaiting(w)
  BY <1>1, <1>2, <1>4, MoveKept DEF MarkWaiting
<1>5. CASE Start(w) /\ queue[w.task].status \in {"dispatched", "waiting"}
  BY <1>1, <1>2, <1>5, MoveKept DEF Start
<1>6. CASE Complete(w) /\ queue[w.task].status = "running"
  <2>. DEFINE rows == {w.task}
  <2>1. /\ queue' = End(queue, rows, "completed", "none") /\ rows \in SUBSET Task
        /\ \A t \in rows : queue[t].status \in Live
    BY <1>1, <1>2, <1>6 DEF Complete, Live
  <2>2. "completed" \in Terminal /\ "none" \in Reason
    BY DEF Terminal, Reason
  <2>. HIDE DEF rows
  <2>. QED  BY <1>1, <2>1, <2>2, EndKept
<1>7. ASSUME NEW reason \in ReportedReason, ReportFailure(w, reason),
             queue[w.task].status \in Active
      PROVE  TableKept
  BY <1>1, <1>7, FailedKept, QueueAssumption DEF ReportFailure
<1>8. ASSUME NEW reason \in ReportedReason, FailUnread(w, reason)
      PROVE  TableKept
  <2>. DEFINE rows == {w.task}
  <2>1. /\ queue' = End(queue, rows, "failed", reason) /\ rows \in SUBSET Task
        /\ \A t \in rows : queue[t].status \in Live
    BY <1>1, <1>8 DEF FailUnread, Live
  <2>2. "failed" \in Terminal /\ reason \in Reason
    BY QueueAssumption DEF Terminal
  <2>. HIDE DEF rows
  <2>. QED  BY <1>1, <2>1, <2>2, EndKept
<1>. QED
  BY <1>3, <1>4, <1>5, <1>6, <1>7, <1>8, SameTable
  DEF WorkerStep, Start, Complete, GiveUp, ReportFailure

LEMMA FailRowsKept ==
    ASSUME TypeOK, NEW rows \in SUBSET Task, \A t \in rows : queue[t].status \in Live,
           NEW reason \in Reason, FailRows(rows, reason)
    PROVE  TableKept
<1>1. queue \in Table /\ "failed" \in Terminal
  BY DEF TypeOK, Table, Terminal
<1>. QED  BY <1>1, EndKept DEF FailRows

LEMMA SweepKept ==
    ASSUME TypeOK, SweepOffline \/ SweepReconnect \/ SweepStale \/ SweepQueued
    PROVE  TableKept
<1>1. /\ OfflineVictims \in SUBSET Task /\ ReconnectVictims \in SUBSET Task
      /\ StaleVictims \in SUBSET Task /\ QueuedVictims \in SUBSET Task
  BY DEF OfflineVictims, ReconnectVictims, StaleVictims, QueuedVictims, RecoveryRetries
<1>2. \A t \in OfflineVictims \cup ReconnectVictims \cup StaleVictims \cup QueuedVictims :
         queue[t].status \in Live
  BY DEF OfflineVictims, ReconnectVictims, StaleVictims, QueuedVictims, Live, Active
<1>3. {"runtime_offline", "runtime_reconnect_timeout", "timeout", "queued_expired"} \subseteq Reason
  BY DEF Reason
<1>4. ASSUME NEW rows \in SUBSET Task, \A t \in rows : queue[t].status \in Live,
             NEW reason \in Reason, SweepRows(rows, reason)
      PROVE  TableKept
  BY <1>4, FailRowsKept DEF SweepRows
<1>5. CASE SweepOffline
  BY <1>1, <1>2, <1>3, <1>4, <1>5 DEF SweepOffline
<1>6. CASE SweepReconnect
  BY <1>1, <1>2, <1>3, <1>4, <1>6 DEF SweepReconnect
<1>7. CASE SweepStale
  BY <1>1, <1>2, <1>3, <1>4, <1>7 DEF SweepStale
<1>8. CASE SweepQueued
  BY <1>1, <1>2, <1>3, <1>4, <1>8 DEF SweepQueued
<1>. QED  BY <1>5, <1>6, <1>7, <1>8

LEMMA RowKept ==
    ASSUME TypeOK, Placed, NEW t \in Task, RowStep(t)
    PROVE  TableKept
<1>1. queue \in Table /\ queue[t] \in Row /\ queue[t].reason \in Reason
      /\ "none" \in Reason /\ "cancelled" \in Terminal
  BY DEF TypeOK, Table, Reason, Terminal, Row
<1>2. CASE Acknowledge(t)
  <2>. DEFINE rows == {f \in Task : queue[f].escalates = t /\ Standing(f)}
  <2>1. rows \in SUBSET Task /\ \A u \in rows : queue[u].status \in Live
    BY DEF Standing, Live, Active
  <2>2. queue' = End(queue, rows, "cancelled", "none")
    BY <1>2 DEF Acknowledge
  <2>. HIDE DEF rows
  <2>. QED  BY <1>1, <2>1, <2>2, EndKept
<1>3. CASE DeadlinePasses(t)
  <2>. DEFINE row == [queue[t] EXCEPT !.age = queue[t].age + 1]
  <2>1. queue' = [queue EXCEPT ![t] = row]
    BY <1>1, <1>3 DEF DeadlinePasses, Table
  <2>2. Kept(queue[t], row)
    BY <1>1 DEF Row, Kept, Untaken
  <2>. HIDE DEF row
  <2>. QED  BY <1>1, <2>1, <2>2, SetKept
<1>4. CASE LeaseExpires(t)
  BY <1>1, <1>4, LeaseKept DEF LeaseExpires
<1>5. CASE /\ queue' = Insert(queue, RetryRow(queue[t].reason, queue[t], t))
           /\ Absent(queue) # {} /\ RetryEligible(queue[t].reason, queue[t])
  <2>. DEFINE row == RetryRow(queue[t].reason, queue[t], t)
  <2>1. queue[t].agent \in Agent /\ queue[t].lane \in Lane /\ queue[t].runtime \in Runtime
    BY <1>5, TaskAssumption DEF Placed, RetryEligible, Lane
  <2>2. row \in Row /\ row.status \in {"deferred", "queued"}
    BY <1>1, <2>1, NewRetry
  <2>3. queue' = Insert(queue, row)
    BY <1>5
  <2>. HIDE DEF row
  <2>. QED  BY <1>1, <1>5, <2>2, <2>3, InsertKept
<1>6. ASSUME NEW i \in Issue, LinkTaskToIssue(t, i)
      PROVE  TableKept
  <2>. DEFINE row == [queue[t] EXCEPT !.lane = i]
  <2>1. queue' = [queue EXCEPT ![t] = row]
    BY <1>1, <1>6 DEF LinkTaskToIssue, Table
  <2>2. Kept(queue[t], row)
    BY <1>1 DEF Row, Kept, Untaken
  <2>. HIDE DEF row
  <2>. QED  BY <1>1, <2>1, <2>2, SetKept
<1>. QED
  BY <1>2, <1>3, <1>4, <1>5, <1>6, SameTable DEF RowStep, RetryFailed, AcknowledgeFails, LinkNothing

LEMMA RuntimeKept ==
    ASSUME TypeOK, NEW r \in Runtime, RuntimeStep(r)
    PROVE  TableKept
<1>1. CASE RecoverOrphans(r)
  <2>. DEFINE rows == {t \in Task : queue[t].status \in Active /\ queue[t].runtime = r}
  <2>1. rows \in SUBSET Task /\ \A t \in rows : queue[t].status \in Live
    BY DEF Live
  <2>2. FailRows(rows, "runtime_recovery") \/ queue' = queue
    BY <1>1 DEF RecoverOrphans
  <2>. HIDE DEF rows
  <2>3. "runtime_recovery" \in Reason
    BY DEF Reason
  <2>. QED  BY <2>1, <2>2, <2>3, FailRowsKept, SameTable
<1>2. CASE MarkOffline(r) \/ RuntimeSilent(r) \/ Deregister(r) \/ Heartbeat(r)
  <2>1. queue' = queue
    BY <1>2 DEF MarkOffline, RuntimeSilent, Deregister, Heartbeat
  <2>. QED  BY <2>1, SameTable
<1>3. ASSUME NEW old \in Runtime, ReassignTasksToRuntime(old, r)
      PROVE  TableKept
  <2>1. ASSUME NEW t \in Task
        PROVE  Kept(queue[t], queue'[t])
    <3>1. queue[t] \in Row
      BY DEF TypeOK
    <3>2. queue'[t] = queue[t] \/ queue'[t] = [queue[t] EXCEPT !.runtime = r]
      BY <1>3 DEF ReassignTasksToRuntime
    <3>3. queue'[t].status = queue[t].status /\ queue'[t].stamp = queue[t].stamp
      BY <3>1, <3>2 DEF Row
    <3>. QED  BY <3>3 DEF Kept, Untaken
  <2>. QED  BY <2>1 DEF TableKept
<1>. QED  BY <1>1, <1>2, <1>3 DEF RuntimeStep

(* Workers end, advance or disappear with their daemon; what they hold does *)
(* not change.                                                              *)
LEMMA WorkerHolders ==
    ASSUME TypeOK, HandInv, NEW w \in workers, WorkerStep(w)
    PROVE  HoldersShrink
<1>1. claim' = claim
  BY DEF WorkerStep, ExtendLease, MarkWaiting, Start, Complete, GiveUp, ReportFailure, FailUnread
<1>2. /\ \A h \in Handler : Held(h)' \subseteq Held(h)
      /\ \A h \in Handler : (claim[h].claimed \cap claim[h].ready = {})'
  BY <1>1 DEF Held, HandInv, HeldOnce
<1>3. CASE workers' \subseteq workers
  BY <1>2, <1>3 DEF HoldersShrink, HandInv, HeldOnce
<1>4. ASSUME NEW phase, Advance(w, phase)
      PROVE  HoldersShrink
  <2>. DEFINE n == [w EXCEPT !.phase = phase]
  <2>1. Ticket(n) = Ticket(w)
    BY DEF Ticket, TypeOK, Worker
  <2>. HIDE DEF n
  <2>2. workers' = (workers \ {w}) \cup {n}
    BY <1>4 DEF Advance, n
  <2>. QED  BY <1>2, <2>1, <2>2 DEF HoldersShrink, HandInv, HeldOnce
<1>. QED
  BY <1>3, <1>4 DEF WorkerStep, ExtendLease, MarkWaiting, Start, Complete, GiveUp,
     ReportFailure, FailUnread, daemonVars

-----------------------------------------------------------------------------
(* Claim requests.                                                          *)

LEMMA RequestHolders ==
    ASSUME TypeOK, HandInv, NEW h \in Handler, NEW k, claim' = [claim EXCEPT ![h] = k],
           k.claimed \cup k.ready \subseteq Held(h), k.claimed \cap k.ready = {},
           workers' = workers
    PROVE  HoldersShrink
<1>1. claim'[h] = k /\ \A g \in Handler \ {h} : claim'[g] = claim[g]
  BY DEF TypeOK
<1>. QED  BY <1>1 DEF HoldersShrink, HandInv, HeldOnce, Held

(* Requests that ask, look around, deliver, drop or end.                    *)
LEMMA QuietClaims ==
    ASSUME TypeOK, HandInv, NEW h \in Handler,
           \/ \E d \in Daemon : Poll(h, d)
           \/ ListCandidates(h) \/ ClaimError(h) \/ AbortClaim(h)
           \/ \E a \in Agent : LockAgent(h, a)
           \/ \E c \in claim[h].claimed : Deliver(h, c) \/ Withhold(h, c) \/ CancelClaimed(h, c)
    PROVE  TableKept /\ HoldersShrink
<1>1. queue \in Table /\ claim[h] \in ClaimRequest /\ "none" \in Reason /\ "cancelled" \in Terminal
  BY DEF TypeOK, Table, Reason, Terminal
<1>2. claim[h].claimed \cap claim[h].ready = {}
  BY DEF HandInv, HeldOnce
<1>3. IdleClaim.claimed = {} /\ IdleClaim.ready = {}
  BY DEF IdleClaim
<1>4. ASSUME NEW d \in Daemon, Poll(h, d)
      PROVE  TableKept /\ HoldersShrink
  <2>. DEFINE k == [IdleClaim EXCEPT !.pc = "reclaiming", !.daemon = d, !.listening = TRUE]
  <2>1. k.claimed = {} /\ k.ready = {}
    BY DEF IdleClaim
  <2>2. claim' = [claim EXCEPT ![h] = k] /\ workers' = workers
    BY <1>4 DEF Poll, daemonVars
  <2>. HIDE DEF k
  <2>3. HoldersShrink
    BY <2>1, <2>2, RequestHolders
  <2>4. ASSUME NEW t \in Promotable(d)
        PROVE  Kept(queue[t], queue'[t])
    <3>1. /\ t \in Task /\ queue[t].status = "deferred"
          /\ queue'[t] = [queue[t] EXCEPT !.status = "queued", !.age = 0]
      BY <1>4, <2>4 DEF Poll, Promotable
    <3>2. queue[t] \in Row
      BY <1>1, <3>1 DEF Table
    <3>. QED  BY <3>1, <3>2 DEF Row, Kept, Untaken
  <2>5. \A t \in Task \ Promotable(d) : queue'[t] = queue[t]
    BY <1>4 DEF Poll
  <2>6. TableKept
    BY <2>4, <2>5 DEF TableKept, Kept, Untaken
  <2>. QED  BY <2>3, <2>6
<1>5. CASE ListCandidates(h) \/ \E a \in Agent : LockAgent(h, a)
  <2>1. /\ queue' = queue /\ workers' = workers
        /\ \A g \in Handler : /\ claim'[g].claimed = claim[g].claimed
                              /\ claim'[g].ready = claim[g].ready
    <3>1. CASE ListCandidates(h)
      BY <3>1 DEF ListCandidates, daemonVars, TypeOK, ClaimRequest
    <3>2. ASSUME NEW a \in Agent, LockAgent(h, a)
          PROVE  /\ queue' = queue /\ workers' = workers
                 /\ \A g \in Handler : /\ claim'[g].claimed = claim[g].claimed
                                       /\ claim'[g].ready = claim[g].ready
      <4>. DEFINE x == IF Cardinality(ActiveRows(queue, a)) < MaxConcurrent[a] THEN a ELSE None
                  k == [claim[h] EXCEPT !.agents = claim[h].agents \ {a}, !.holds = x]
      <4>1. queue' = queue /\ workers' = workers /\ claim' = [claim EXCEPT ![h] = k]
        BY <3>2 DEF LockAgent, daemonVars, TypeOK, ClaimRequest
      <4>. HIDE DEF x
      <4>2. k.claimed = claim[h].claimed /\ k.ready = claim[h].ready
        BY <1>1 DEF ClaimRequest
      <4>. HIDE DEF k
      <4>. QED  BY <4>1, <4>2 DEF TypeOK
    <3>. QED  BY <1>5, <3>1, <3>2
  <2>2. HoldersShrink
    BY <2>1 DEF HoldersShrink, Held, HandInv, HeldOnce
  <2>. QED  BY <2>1, <2>2, SameTable
<1>6. CASE ClaimError(h)
  <2>. DEFINE n == [claim[h] EXCEPT !.pc = "claiming", !.agents = {}, !.holds = None]
              k == IF claim[h].claimed = {} THEN IdleClaim ELSE n
  <2>1. n.claimed = claim[h].claimed /\ n.ready = claim[h].ready
    BY <1>1 DEF ClaimRequest
  <2>2. claim' = [claim EXCEPT ![h] = k] /\ workers' = workers /\ queue' = queue
    BY <1>6 DEF ClaimError, daemonVars
  <2>. HIDE DEF n
  <2>3. k.claimed \cup k.ready \subseteq Held(h) /\ k.claimed \cap k.ready = {}
    BY <1>2, <1>3, <2>1 DEF Held
  <2>. HIDE DEF k
  <2>. QED  BY <2>2, <2>3, RequestHolders, SameTable
<1>7. CASE AbortClaim(h)
  <2>1. claim' = [claim EXCEPT ![h] = IdleClaim] /\ workers' = workers /\ queue' = queue
    BY <1>7 DEF AbortClaim, daemonVars
  <2>. QED  BY <1>3, <2>1, RequestHolders, SameTable
<1>8. ASSUME NEW c \in claim[h].claimed, Deliver(h, c) \/ Withhold(h, c) \/ CancelClaimed(h, c)
      PROVE  TableKept /\ HoldersShrink
  <2>. DEFINE m == [claim[h] EXCEPT !.claimed = claim[h].claimed \ {c}]
              n == [m EXCEPT !.ready = claim[h].ready \cup {c}]
  <2>1. workers' = workers
    BY <1>8 DEF Deliver, Withhold, CancelClaimed, daemonVars
  <2>2. claim' = [claim EXCEPT ![h] = m] \/ claim' = [claim EXCEPT ![h] = n]
    BY <1>1, <1>8 DEF Deliver, Withhold, CancelClaimed, TypeOK, ClaimRequest
  <2>3. m.claimed = claim[h].claimed \ {c} /\ m.ready = claim[h].ready
    BY <1>1 DEF ClaimRequest
  <2>4. n.claimed = claim[h].claimed \ {c} /\ n.ready = claim[h].ready \cup {c}
    BY <1>1 DEF ClaimRequest
  <2>. HIDE DEF m, n
  <2>5. HoldersShrink
    <3>1. CASE claim' = [claim EXCEPT ![h] = m]
      <4>1. m.claimed \cup m.ready \subseteq Held(h) /\ m.claimed \cap m.ready = {}
        BY <1>2, <2>3 DEF Held
      <4>. QED  BY <2>1, <3>1, <4>1, RequestHolders
    <3>2. CASE claim' = [claim EXCEPT ![h] = n]
      <4>1. n.claimed \cup n.ready \subseteq Held(h) /\ n.claimed \cap n.ready = {}
        BY <1>2, <1>8, <2>4 DEF Held
      <4>. QED  BY <2>1, <3>2, <4>1, RequestHolders
    <3>. QED  BY <2>2, <3>1, <3>2
  <2>6. TableKept
    <3>1. CASE CancelClaimed(h, c)
      <4>. DEFINE rows == {c.task} \cap {t \in Task : queue[t].status \in Live}
      <4>1. /\ rows \in SUBSET Task /\ \A t \in rows : queue[t].status \in Live
            /\ queue' = End(queue, rows, "cancelled", "none")
        BY <3>1 DEF CancelClaimed
      <4>. HIDE DEF rows
      <4>. QED  BY <1>1, <4>1, EndKept
    <3>2. CASE Deliver(h, c) \/ Withhold(h, c)
      BY <3>2, SameTable DEF Deliver, Withhold
    <3>. QED  BY <1>8, <3>1, <3>2
  <2>. QED  BY <2>5, <2>6
<1>. QED  BY <1>4, <1>5, <1>6, <1>7, <1>8

(* The response passes the claims on to workers of the daemon.              *)
LEMMA RespondKeepsHandInv ==
    ASSUME TypeOK, HandInv, NEW h \in Handler, Respond(h)
    PROVE  HandInv'
<1>1. queue' = queue /\ claim' = [claim EXCEPT ![h] = IdleClaim]
  BY DEF Respond
<1>2. Held(h)' = {} /\ \A g \in Handler \ {h} : claim'[g] = claim[g] /\ Held(g)' = Held(g)
  BY <1>1 DEF Held, IdleClaim, TypeOK
<1>3. claim'[h].claimed = {}
  BY <1>1 DEF IdleClaim, TypeOK
<1>4. ASSUME NEW w \in workers'
      PROVE  \/ w \in workers
             \/ /\ Ticket(w) \in Held(h) /\ w.phase = "preparing"
                /\ w = [daemon |-> claim[h].daemon, task |-> w.task, stamp |-> w.stamp,
                        phase |-> "preparing"]
  <2>1. CASE w \notin workers
    <3>1. PICK c \in claim[h].ready : w = [daemon |-> claim[h].daemon, task |-> c.task,
                                           stamp |-> c.stamp, phase |-> "preparing"]
      BY <1>4, <2>1 DEF Respond
    <3>2. c \in Claimed /\ c \in Held(h)
      BY <3>1, Types DEF Held
    <3>3. Ticket(w) = c /\ w.task = c.task /\ w.stamp = c.stamp
      BY <3>1, <3>2 DEF Ticket, Claimed
    <3>. QED  BY <3>1, <3>2, <3>3
  <2>. QED  BY <2>1
<1>5. AllStamped' /\ UntakenUnheld'
  <2>1. \A w \in workers' : w \in workers \/ \E c \in Held(h) : c.task = w.task /\ c.stamp = w.stamp
    BY <1>4 DEF Ticket
  <2>. QED
    BY <1>1, <1>2, <2>1 DEF HandInv, AllStamped, Stamped, UntakenUnheld
<1>6. HeldOnce'
  <2>1. \A g \in Handler : (claim[g].claimed \cap claim[g].ready = {})'
    BY <1>2, <1>3 DEF HandInv, HeldOnce
  <2>2. \A g, f \in Handler : Held(g)' \cap Held(f)' # {} => g = f
    BY <1>2 DEF HandInv, HeldOnce
  <2>3. \A g \in Handler, w \in workers' : Ticket(w) \notin Held(g)'
    BY <1>2, <1>4 DEF HandInv, HeldOnce
  <2>4. ASSUME NEW v \in workers', NEW w \in workers', Ticket(v) = Ticket(w)
        PROVE  v = w
    <3>1. CASE v \in workers /\ w \in workers
      BY <2>4, <3>1 DEF HandInv, HeldOnce
    <3>2. CASE v \notin workers /\ w \notin workers
      BY <1>4, <2>4, <3>2, TicketFields
    <3>3. CASE v \in workers /\ w \notin workers
      BY <1>4, <2>4, <3>3 DEF HandInv, HeldOnce
    <3>4. CASE v \notin workers /\ w \in workers
      BY <1>4, <2>4, <3>4 DEF HandInv, HeldOnce
    <3>. QED  BY <3>1, <3>2, <3>3, <3>4
  <2>. QED  BY <2>1, <2>2, <2>3, <2>4 DEF HeldOnce
<1>. QED  BY <1>5, <1>6 DEF HandInv

(* A failed delivery gives the row back: the claim was held here alone.     *)
LEMMA RequeueKeepsHandInv ==
    ASSUME TypeOK, TypeOK', HandInv, NEW h \in Handler, NEW c \in claim[h].claimed, Requeue(h, c)
    PROVE  HandInv'
<1>1. /\ c \in Held(h) /\ c \in Claimed /\ c.task \in Task /\ c.stamp \in Nat
      /\ c \notin claim[h].ready
  BY Types DEF Held, HandInv, HeldOnce
<1>2. workers' = workers
  BY DEF Requeue, daemonVars
<1>3. Held(h)' = Held(h) \ {c} /\ \A g \in Handler \ {h} : claim'[g] = claim[g] /\ Held(g)' = Held(g)
  BY <1>1 DEF Requeue, Held, TypeOK, ClaimRequest
<1>4. claim'[h].claimed \cap claim'[h].ready = {}
  BY DEF Requeue, TypeOK, ClaimRequest, HandInv, HeldOnce
<1>5. /\ queue'[c.task].status = "queued" /\ queue'[c.task].stamp = c.stamp
      /\ queue[c.task].stamp = c.stamp /\ queue[c.task].status # "absent"
      /\ \A t \in Task \ {c.task} : queue'[t] = queue[t]
  BY <1>1 DEF Requeue, OwnsRow, TypeOK, Row
<1>6. AllStamped'
  BY <1>2, <1>3, <1>5, Types DEF HandInv, AllStamped, Stamped
<1>7. HeldOnce'
  BY <1>2, <1>3, <1>4 DEF HandInv, HeldOnce
<1>8. UntakenUnheld'
  <2>1. ASSUME NEW g \in Handler, NEW d \in Held(g)', d.task = c.task
        PROVE  d.stamp # c.stamp
    <3>1. d \in Held(g) /\ d # c /\ d \in Claimed
      BY <1>1, <1>3, <2>1, Types DEF HandInv, HeldOnce
    <3>. QED  BY <1>1, <2>1, <3>1 DEF Claimed
  <2>2. ASSUME NEW w \in workers, w.task = c.task
        PROVE  w.stamp # c.stamp
    <3>1. Ticket(w) # c
      BY <1>1 DEF HandInv, HeldOnce
    <3>. QED  BY <1>1, <2>2, <3>1 DEF Ticket, Claimed
  <2>3. ASSUME NEW g \in Handler, NEW d \in Held(g)'
        PROVE  queue'[d.task].status \in Untaken => d.stamp # queue'[d.task].stamp
    <3>1. d \in Held(g) /\ d.task \in Task
      BY <1>3, <2>3, Types
    <3>. QED  BY <1>5, <2>1, <2>3, <3>1 DEF HandInv, UntakenUnheld
  <2>4. ASSUME NEW w \in workers
        PROVE  queue'[w.task].status \in Untaken => w.stamp # queue'[w.task].stamp
    BY <1>5, <2>2, <2>4, Types DEF HandInv, UntakenUnheld
  <2>. QED  BY <1>2, <2>3, <2>4 DEF UntakenUnheld
<1>. QED  BY <1>6, <1>7, <1>8 DEF HandInv

(* A claim or a reclaim gives rows a stamp nobody has seen.                 *)
LEMMA DispatchKeepsHandInv ==
    ASSUME TypeOK, TypeOK', HandInv, NEW h \in Handler, NEW rows \in SUBSET Task,
           \A t \in rows : queue[t].status # "absent",
           queue' = Dispatched(queue, rows), workers' = workers,
           \A g \in Handler \ {h} : claim'[g] = claim[g],
           claim'[h].ready = claim[h].ready,
           \A c \in claim'[h].claimed : \/ c \in claim[h].claimed
                                        \/ c.task \in rows /\ c.stamp = queue'[c.task].stamp
    PROVE  HandInv'
<1>1. \A t \in Task \ rows : queue'[t] = queue[t]
  BY DispatchRows DEF TypeOK, Table
<1>2. ASSUME NEW t \in rows
      PROVE  queue'[t].status = "dispatched" /\ queue'[t].stamp = queue[t].stamp + 1
  <2>1. queue'[t] = [queue[t] EXCEPT !.status = "dispatched", !.stamp = @ + 1,
                                     !.age = 0, !.leased = TRUE]
    BY <1>2 DEF Dispatched
  <2>2. queue[t] \in Row
    BY <1>2, Types
  <2>. QED  BY <2>1, <2>2 DEF Row
<1>. DEFINE New(c) == c \in Claimed /\ c.task \in rows /\ c.stamp = queue'[c.task].stamp
<1>3. ASSUME NEW g \in Handler, NEW c \in Held(g)'
      PROVE  c \in Claimed /\ (c \in Held(g) \/ (g = h /\ New(c)))
  <2>1. c \in Claimed
    BY <1>3 DEF TypeOK, ClaimRequest, Held
  <2>2. CASE g # h
    BY <1>3, <2>1, <2>2 DEF Held
  <2>3. CASE g = h /\ c \in claim'[h].ready
    BY <2>1, <2>3 DEF Held
  <2>4. CASE g = h /\ c \in claim'[h].claimed
    <3>1. c \in claim[h].claimed \/ (c.task \in rows /\ c.stamp = queue'[c.task].stamp)
      BY <2>4
    <3>. QED  BY <2>1, <2>4, <3>1 DEF Held
  <2>. QED  BY <1>3, <2>2, <2>3, <2>4 DEF Held
<1>4. ASSUME NEW c, New(c), NEW d, d.task \in Task, d.stamp \in Nat, Stamped(d)
      PROVE  ~(d.task = c.task /\ d.stamp = c.stamp)
  BY <1>2, <1>4, Types DEF Stamped
<1>5. ASSUME NEW c, New(c)
      PROVE  /\ \A g \in Handler : c \notin Held(g)
             /\ \A w \in workers : Ticket(w) # c
  <2>1. \A g \in Handler : c \notin Held(g)
    BY <1>4, <1>5, Types DEF HandInv, AllStamped
  <2>2. ASSUME NEW w \in workers, Ticket(w) = c
        PROVE  FALSE
    <3>1. w.task = c.task /\ w.stamp = c.stamp
      BY <2>2 DEF Ticket
    <3>. QED  BY <1>4, <1>5, <3>1, Types DEF HandInv, AllStamped
  <2>. QED  BY <2>1, <2>2
<1>6. AllStamped'
  <2>1. ASSUME NEW c, c.task \in Task, c.stamp \in Nat, Stamped(c)
        PROVE  Stamped(c)'
    BY <1>1, <1>2, <2>1, Types DEF Stamped
  <2>2. ASSUME NEW c, New(c)
        PROVE  Stamped(c)'
    <3>1. queue'[c.task].stamp \in Nat
      BY <2>2 DEF TypeOK, Row
    <3>. QED  BY <1>2, <2>2, <3>1 DEF Stamped
  <2>3. \A g \in Handler : \A c \in Held(g) : c.task \in Task /\ c.stamp \in Nat /\ Stamped(c)
    BY Types DEF HandInv, AllStamped
  <2>4. \A w \in workers : w.task \in Task /\ w.stamp \in Nat /\ Stamped(w)
    BY Types DEF HandInv, AllStamped
  <2>. HIDE DEF New
  <2>. QED  BY <1>3, <2>1, <2>2, <2>3, <2>4 DEF AllStamped
<1>7. UntakenUnheld'
  <2>1. ASSUME NEW t \in Task, queue'[t].status \in Untaken
        PROVE  t \notin rows /\ queue'[t] = queue[t]
    BY <1>1, <1>2, <2>1 DEF Untaken
  <2>2. ASSUME NEW g \in Handler, NEW c \in Held(g)', queue'[c.task].status \in Untaken
        PROVE  c.stamp # queue'[c.task].stamp
    <3>1. c.task \in Task
      BY <1>3, <2>2 DEF Claimed
    <3>2. c \in Held(g)
      BY <1>3, <2>1, <2>2, <3>1
    <3>. QED  BY <2>1, <2>2, <3>1, <3>2 DEF HandInv, UntakenUnheld
  <2>3. ASSUME NEW w \in workers, queue'[w.task].status \in Untaken
        PROVE  w.stamp # queue'[w.task].stamp
    BY <2>1, <2>3, Types DEF HandInv, UntakenUnheld
  <2>. QED  BY <2>2, <2>3 DEF UntakenUnheld
<1>8. HeldOnce'
  <2>. HIDE DEF New
  <2>1. \A g \in Handler : (claim[g].claimed \cap claim[g].ready = {})'
    <3>1. \A c \in claim'[h].claimed : c \notin claim[h].ready
      <4>1. \A c \in claim'[h].claimed : c \in claim[h].claimed \/ New(c)
        BY DEF TypeOK, ClaimRequest, New
      <4>. QED  BY <1>5, <4>1 DEF Held, HandInv, HeldOnce
    <3>. QED  BY <3>1 DEF HandInv, HeldOnce
  <2>2. \A f, g \in Handler : Held(f)' \cap Held(g)' # {} => f = g
    BY <1>3, <1>5 DEF HandInv, HeldOnce
  <2>3. \A g \in Handler, w \in workers : Ticket(w) \notin Held(g)'
    BY <1>3, <1>5 DEF HandInv, HeldOnce
  <2>4. \A v, w \in workers' : Ticket(v) = Ticket(w) => v = w
    BY DEF HandInv, HeldOnce
  <2>. QED  BY <2>1, <2>2, <2>3, <2>4 DEF HeldOnce
<1>. QED  BY <1>6, <1>7, <1>8 DEF HandInv

LEMMA ReclaimKeepsHandInv ==
    ASSUME TypeOK, TypeOK', HandInv, NEW h \in Handler, ReclaimStale(h)
    PROVE  HandInv'
<1>1. PICK rows \in SUBSET Reclaimable(claim[h].daemon) :
        /\ queue' = Dispatched(queue, rows)
        /\ claim' = [claim EXCEPT
             ![h].pc = IF Cardinality(rows) = MaxTasks THEN "claiming" ELSE "listing",
             ![h].claimed = {[task |-> t, stamp |-> queue'[t].stamp] : t \in rows}]
  BY DEF ReclaimStale
<1>. DEFINE pc == IF Cardinality(rows) = MaxTasks THEN "claiming" ELSE "listing"
            cs == {[task |-> t, stamp |-> queue'[t].stamp] : t \in rows}
            k  == [[claim[h] EXCEPT !.pc = pc] EXCEPT !.claimed = cs]
<1>2. claim' = [claim EXCEPT ![h] = k]
  BY <1>1 DEF TypeOK
<1>3. rows \in SUBSET Task /\ \A t \in rows : queue[t].status # "absent"
  BY DEF Reclaimable
<1>4. \A c \in cs : c.task \in rows /\ c.stamp = queue'[c.task].stamp
  OBVIOUS
<1>. HIDE DEF pc, cs
<1>5. k.claimed = cs /\ k.ready = claim[h].ready
  BY DEF TypeOK, ClaimRequest
<1>. HIDE DEF k
<1>6. claim'[h] = k /\ (\A g \in Handler \ {h} : claim'[g] = claim[g]) /\ workers' = workers
  BY <1>2 DEF TypeOK, ReclaimStale, daemonVars
<1>7. /\ claim'[h].ready = claim[h].ready
      /\ \A c \in claim'[h].claimed : \/ c \in claim[h].claimed
                                      \/ c.task \in rows /\ c.stamp = queue'[c.task].stamp
  BY <1>4, <1>5, <1>6
<1>. QED  BY <1>1, <1>3, <1>6, <1>7, DispatchKeepsHandInv

LEMMA ClaimKeepsHandInv ==
    ASSUME TypeOK, TypeOK', HandInv, NEW h \in Handler, ClaimRow(h)
    PROVE  HandInv'
<1>1. workers' = workers
  BY DEF ClaimRow, daemonVars
<1>2. CASE queue' = queue /\ claim' = [claim EXCEPT ![h].holds = None]
  <2>1. \A g \in Handler : /\ claim'[g].claimed = claim[g].claimed
                           /\ claim'[g].ready = claim[g].ready
    BY <1>2 DEF TypeOK, ClaimRequest
  <2>2. HoldersShrink
    BY <1>1, <2>1 DEF HoldersShrink, Held, HandInv, HeldOnce
  <2>. QED  BY <1>2, <2>2, SameTable, KeptKeepsHandInv
<1>3. ASSUME NEW t \in Task, Claimable(queue, t), queue' = Dispatched(queue, {t}),
             claim' = [claim EXCEPT
                    ![h].holds = None,
                    ![h].claimed = IF queue[t].runtime \in RuntimesOf[claim[h].daemon]
                                   THEN @ \cup {[task |-> t, stamp |-> queue'[t].stamp]}
                                   ELSE @]
      PROVE  HandInv'
  <2>. DEFINE new == [task |-> t, stamp |-> queue'[t].stamp]
              cs == IF queue[t].runtime \in RuntimesOf[claim[h].daemon]
                    THEN claim[h].claimed \cup {new} ELSE claim[h].claimed
              k  == [[claim[h] EXCEPT !.holds = None] EXCEPT !.claimed = cs]
              rows == {t}
  <2>1. claim' = [claim EXCEPT ![h] = k]
    BY <1>3 DEF TypeOK, ClaimRequest
  <2>2. ASSUME NEW c \in cs
        PROVE  c \in claim[h].claimed \/ (c.task \in rows /\ c.stamp = queue'[c.task].stamp)
    <3>1. new.task = t /\ new.stamp = queue'[t].stamp
      OBVIOUS
    <3>. HIDE DEF new
    <3>2. c \in claim[h].claimed \/ c = new
      BY <2>2
    <3>. QED  BY <3>1, <3>2
  <2>3. /\ rows \in SUBSET Task /\ \A u \in rows : queue[u].status # "absent"
        /\ queue' = Dispatched(queue, rows)
    BY <1>3 DEF Claimable
  <2>. HIDE DEF cs, rows
  <2>4. k.claimed = cs /\ k.ready = claim[h].ready
    BY DEF TypeOK, ClaimRequest
  <2>. HIDE DEF k
  <2>5. claim'[h] = k /\ \A g \in Handler \ {h} : claim'[g] = claim[g]
    BY <2>1 DEF TypeOK
  <2>. QED  BY <1>1, <2>2, <2>3, <2>4, <2>5, DispatchKeepsHandInv
<1>. QED  BY <1>2, <1>3, Zenon DEF ClaimRow

-----------------------------------------------------------------------------
(* The inductive invariant, next to IInv.                                   *)

LEMMA NextHandInv == IInv /\ IInv' /\ HandInv /\ [Next]_vars => HandInv'
<1>. SUFFICES ASSUME IInv, IInv', HandInv, [Next]_vars PROVE HandInv'
  OBVIOUS
<1>1. TypeOK /\ TypeOK' /\ Placed
  BY DEF IInv
<1>2. CASE TableKept /\ UNCHANGED <<claim, workers>>
  BY <1>1, <1>2, SameHolders, KeptKeepsHandInv
<1>3. CASE UserStep
  <2>1. UNCHANGED <<claim, workers>>
    BY <1>3 DEF UserStep, Enqueue, EnqueueFallback, AgentComments, Rerun, RerunEnqueue, Cancel,
       daemonVars
  <2>. QED  BY <1>1, <1>2, <1>3, <2>1, UserKept
<1>4. ASSUME NEW h \in Handler, ClaimStep(h)
      PROVE  HandInv'
  <2>1. CASE ReclaimStale(h)
    BY <1>1, <2>1, ReclaimKeepsHandInv
  <2>2. CASE ClaimRow(h)
    BY <1>1, <2>2, ClaimKeepsHandInv
  <2>3. CASE Respond(h)
    BY <1>1, <2>3, RespondKeepsHandInv
  <2>4. CASE \E c \in claim[h].claimed : Requeue(h, c)
    BY <1>1, <2>4, RequeueKeepsHandInv
  <2>5. CASE \/ \E d \in Daemon : Poll(h, d)
             \/ ListCandidates(h) \/ ClaimError(h) \/ AbortClaim(h)
             \/ \E a \in Agent : LockAgent(h, a)
             \/ \E c \in claim[h].claimed : Deliver(h, c) \/ Withhold(h, c) \/ CancelClaimed(h, c)
    <3>1. TableKept /\ HoldersShrink
      BY <1>1, <2>5, QuietClaims
    <3>. QED  BY <1>1, <3>1, KeptKeepsHandInv
  <2>. QED  BY <1>4, <2>1, <2>2, <2>3, <2>4, <2>5 DEF ClaimStep
<1>5. ASSUME NEW w \in workers, WorkerStep(w)
      PROVE  HandInv'
  BY <1>1, <1>5, WorkerKept, WorkerHolders, KeptKeepsHandInv
<1>6. ASSUME NEW t \in Task, RowStep(t)
      PROVE  HandInv'
  <2>1. UNCHANGED <<claim, workers>>
    BY <1>6 DEF RowStep, Acknowledge, AcknowledgeFails, LinkTaskToIssue, LinkNothing, RetryFailed,
       DeadlinePasses, LeaseExpires, daemonVars
  <2>. QED  BY <1>1, <1>2, <1>6, <2>1, RowKept
<1>7. ASSUME NEW r \in Runtime, RuntimeStep(r)
      PROVE  HandInv'
  <2>1. UNCHANGED <<claim, workers>>
    BY <1>7 DEF RuntimeStep, RecoverOrphans, MarkOffline, RuntimeSilent, Deregister, Heartbeat,
       ReassignTasksToRuntime, daemonVars
  <2>. QED  BY <1>1, <1>2, <1>7, <2>1, RuntimeKept
<1>8. CASE SweepOffline \/ SweepReconnect \/ SweepStale \/ SweepQueued
  <2>1. UNCHANGED <<claim, workers>>
    BY <1>8 DEF SweepOffline, SweepReconnect, SweepStale, SweepQueued, SweepRows, daemonVars
  <2>. QED  BY <1>1, <1>2, <1>8, <2>1, SweepKept
<1>9. ASSUME NEW d \in Daemon, DaemonCrash(d)
      PROVE  HandInv'
  <2>1. workers' \subseteq workers /\ queue' = queue
    BY <1>9 DEF DaemonCrash
  <2>2. ASSUME NEW h \in Handler
        PROVE  claim'[h].claimed = claim[h].claimed /\ claim'[h].ready = claim[h].ready
    BY <1>1, <1>9 DEF DaemonCrash, TypeOK, ClaimRequest
  <2>3. HoldersShrink
    BY <2>1, <2>2 DEF HoldersShrink, Held, HandInv, HeldOnce
  <2>. QED  BY <1>1, <2>1, <2>3, SameTable, KeptKeepsHandInv
<1>10. CASE ServerCrash
  <2>1. workers' = workers /\ queue' = queue
    BY <1>10 DEF ServerCrash, daemonVars
  <2>2. \A h \in Handler : claim'[h].claimed = {} /\ claim'[h].ready = {}
    BY <1>10 DEF ServerCrash, IdleClaim
  <2>3. HoldersShrink
    BY <2>1, <2>2 DEF HoldersShrink, Held, HandInv, HeldOnce
  <2>. QED  BY <1>1, <2>1, <2>3, SameTable, KeptKeepsHandInv
<1>11. CASE UNCHANGED vars
  BY <1>1, <1>2, <1>11, SameTable DEF vars, daemonVars
<1>. QED  BY <1>3, <1>4, <1>5, <1>6, <1>7, <1>8, <1>9, <1>10, <1>11 DEF Next

LEMMA InitHandInv == Init => HandInv
<1>. SUFFICES ASSUME Init PROVE HandInv
  OBVIOUS
<1>1. workers = {} /\ \A h \in Handler : claim[h].claimed = {} /\ claim[h].ready = {}
  BY DEF Init, IdleClaim
<1>. QED  BY <1>1 DEF HandInv, AllStamped, HeldOnce, UntakenUnheld, Held

LEMMA HandInductive == Spec => [](IInv /\ HandInv)
BY InitHandInv, NextHandInv, Inductive, PTL DEF Spec

(* What the properties call a holder is what the invariant counts.          *)
LEMMA HolderForms ==
    ASSUME TypeOK, NEW t \in Task, NEW x \in Holders(t)
    PROVE  \/ x \in Handler /\ [task |-> t, stamp |-> queue[t].stamp] \in Held(x)
           \/ x \in workers /\ Ticket(x) = [task |-> t, stamp |-> queue[t].stamp]
              /\ x.task = t /\ x.stamp = queue[t].stamp
BY DEF Holders, Held, Ticket

(* However claims, reclaims, failed deliveries, lost responses and crashes  *)
(* interleave, a row that is back in the queue is in nobody's hands: the    *)
(* requeue compares dispatched_at (service/task.go                          *)
(* RequeueTaskAfterClaimFailure, RequeueAgentTaskAfterClaimFailure).        *)
THEOREM QueuedRowsUnheld == Spec => []QueuedIsUnheld
<1>1. IInv /\ HandInv => QueuedIsUnheld
  <2>. SUFFICES ASSUME IInv, HandInv, NEW t \in Task, queue[t].status = "queued",
                       NEW x \in Holders(t)
                PROVE  FALSE
    BY DEF QueuedIsUnheld
  <2>. DEFINE c == [task |-> t, stamp |-> queue[t].stamp]
  <2>1. c.task = t /\ c.stamp = queue[t].stamp
    OBVIOUS
  <2>. HIDE DEF c
  <2>2. \/ x \in Handler /\ c \in Held(x)
        \/ x \in workers /\ x.task = t /\ x.stamp = queue[t].stamp
    BY HolderForms DEF IInv, c
  <2>. QED  BY <2>1, <2>2 DEF HandInv, UntakenUnheld, Untaken
<1>. QED  BY <1>1, HandInductive, PTL

(* No two requests or workers ever hold the same claim of a row, whichever  *)
(* of them reclaimed it (ReclaimStaleDispatchedTasksForRuntimes,            *)
(* ClaimAgentTask in pkg/db/queries/agent.sql).                             *)
THEOREM ClaimsHandedOnce == Spec => []ClaimHandedOnce
<1>1. IInv /\ HandInv => ClaimHandedOnce
  <2>. SUFFICES ASSUME IInv, HandInv, NEW t \in Task
                PROVE  Cardinality(Holders(t)) <= 1
    BY DEF ClaimHandedOnce
  <2>. DEFINE c == [task |-> t, stamp |-> queue[t].stamp]
  <2>1. ASSUME NEW x \in Holders(t), NEW y \in Holders(t)
        PROVE  x = y
    <3>1. /\ \/ x \in Handler /\ c \in Held(x)
             \/ x \in workers /\ Ticket(x) = c
          /\ \/ y \in Handler /\ c \in Held(y)
             \/ y \in workers /\ Ticket(y) = c
      BY HolderForms DEF IInv
    <3>. HIDE DEF c
    <3>. QED  BY <3>1 DEF HandInv, HeldOnce
  <2>2. CASE Holders(t) = {}
    BY <2>2, FS_EmptySet
  <2>3. CASE Holders(t) # {}
    <3>1. PICK x : x \in Holders(t)
      BY <2>3
    <3>2. Holders(t) = {x}
      BY <2>1, <3>1
    <3>. QED  BY <3>2, FS_Singleton
  <2>. QED  BY <2>2, <2>3
<1>. QED  BY <1>1, HandInductive, PTL
=============================================================================
