---------------------------- MODULE RetryProofs ----------------------------
(***************************************************************************)
(* Ended rows, their retries and fallbacks, for every table, every attempt  *)
(* ceiling and every mix of reports, sweeps, reruns and crashes: a row that *)
(* ended stays as it ended, the retries of a row form one chain, a failure  *)
(* that a daemon reports has its retry, and fallbacks stand down.           *)
(***************************************************************************)
EXTENDS TaskQueueProofs

-----------------------------------------------------------------------------
(* What a step does to one row.                                             *)

(* The columns a row is inserted with and keeps.                            *)
Keeps(p, n) == /\ n.agent = p.agent /\ n.lane = p.lane /\ n.parent = p.parent
               /\ n.attempt = p.attempt /\ n.max = p.max
               /\ n.escalates = p.escalates

(* A reported failure may go without a retry: the row is not eligible, or   *)
(* it could not be read.                                                    *)
Excused(n) ==
    /\ n.status = "failed" /\ "provider_network" \in ReportedReason
    /\ \/ ~RetryEligible("provider_network", n) \/ Absent(queue) = {}
       \/ \E w \in workers : FailUnread(w, "provider_network")

(* A running row only ends, only a running row completes, and a row runs    *)
(* because a worker started it.                                             *)
Onward(p, n) ==
    /\ p.status = "running" => n.status \in {"running"} \cup Terminal
    /\ n.status = "completed" => p.status = "running"
    /\ n.status = "running" => p.status = "running" \/ \E w \in workers : Start(w)

(* A row changes its runtime, or a completed one its lane, and nothing else. *)
Moved(p, n) ==
    /\ Refiled(p, n)
    /\ n.status = p.status /\ n.reason = p.reason /\ n.leased = p.leased
    /\ n.agent = p.agent /\ n.parent = p.parent /\ n.escalates = p.escalates
    /\ n.attempt = p.attempt /\ n.max = p.max
    /\ n.lane = p.lane \/ p.status = "completed"

(* A row stays as it is, is filed elsewhere, or was live and moves on.      *)
Steady(p, n) ==
    \/ n = p
    \/ Moved(p, n)
    \/ /\ p.status \in Live /\ n.status \in Live \cup Terminal
       /\ n.status \in Terminal => ~n.leased
       /\ Keeps(p, n)
       /\ n.reason = p.reason \/ n.reason # "provider_network" \/ Excused(n)
       /\ Onward(p, n)

Calm == \A t \in Task : Steady(queue[t], queue'[t])

(* A row as it is inserted when it continues no other.                      *)
Root(n) ==
    /\ n.status \in {"deferred", "queued"} /\ n.parent = None /\ ~n.leased
    /\ n.attempt = 1 /\ n.max = MaxAttempts /\ n.reason = "none"

(* One row is inserted and nothing else changes.                            *)
Entered ==
    /\ RoomForRoot
    /\ \E b \in Task : /\ queue[b].status = "absent" /\ Root(queue'[b])
                       /\ \A t \in Task \ {b} : queue'[t] = queue[t]

(* Rows wait for a bulk retry only from the step that failed them.          *)
Collected == \A t \in recovering' : \/ t \in recovering
                                    \/ queue[t].status \in Live /\ queue'[t].status = "failed"

(* Row t has failed, now or before, and f is inserted to continue it.       *)
Continued(t, f) ==
    /\ t # f /\ queue[f].status = "absent"
    /\ \A u \in Task \ {t, f} : queue'[u] = queue[u]
    /\ queue'[t].status = "failed" /\ ~queue'[t].leased
    /\ RetryEligible(queue'[t].reason, queue'[t])
    /\ \/ /\ queue[t].status \in Live /\ Keeps(queue[t], queue'[t])
          /\ queue'[t].reason \in ReportedReason
       \/ queue'[t] = queue[t] /\ t \in recovering
    /\ queue'[f].status \in {"deferred", "queued"} /\ ~queue'[f].leased
    /\ queue'[f].parent = t /\ queue'[f].reason = "none"
    /\ queue'[f].agent = queue'[t].agent /\ queue'[f].lane = queue'[t].lane
    /\ queue'[f].attempt = queue'[t].attempt + 1
    /\ queue'[f].max = RetryCeiling(queue'[t].reason, queue'[t].max)
    /\ recovering' \subseteq recovering /\ (t \in recovering => t \notin recovering')

Plain == (Calm \/ Entered) /\ Collected

Retried == \E t, f \in Task : Continued(t, f)

-----------------------------------------------------------------------------
(* The operators on tables.                                                 *)

LEMMA EndSteady ==
    ASSUME queue \in Table, NEW rows \in SUBSET Task, NEW status \in Terminal, NEW reason \in Reason,
           \A t \in rows : queue[t].status \in Live,
           status = "completed" => \A t \in rows : queue[t].status = "running",
           \/ reason # "provider_network"
           \/ /\ status = "failed" /\ reason \in ReportedReason
              /\ \/ \A t \in rows : ~RetryEligible(reason, queue[t]) \/ Absent(queue) = {}
                 \/ \E w \in workers : FailUnread(w, reason),
           queue' = End(queue, rows, status, reason)
    PROVE  Calm /\ \A t \in rows : queue'[t].status = status
<1>1. ASSUME NEW t \in rows
      PROVE  Steady(queue[t], queue'[t]) /\ queue'[t].status = status
  <2>1. queue'[t] = [queue[t] EXCEPT !.status = status, !.reason = reason,
                                     !.age = 0, !.leased = FALSE]
    BY <1>1 DEF End
  <2>2. queue[t] \in Row /\ queue[t].status \in Live
    BY <1>1 DEF Table
  <2>3. /\ Keeps(queue[t], queue'[t]) /\ ~queue'[t].leased
        /\ queue'[t].status = status /\ queue'[t].reason = reason
    BY <2>1, <2>2 DEF Row, Keeps
  <2>4. reason # "provider_network" \/ Excused(queue'[t])
    BY <1>1, <2>3 DEF Excused, RetryEligible, Keeps
  <2>5. Onward(queue[t], queue'[t])
    BY <1>1, <2>3 DEF Onward, Terminal
  <2>. QED  BY <2>2, <2>3, <2>4, <2>5 DEF Steady
<1>2. \A t \in Task \ rows : queue'[t] = queue[t]
  BY DEF End
<1>. QED  BY <1>1, <1>2 DEF Calm, Steady

LEMMA InsertEntered ==
    ASSUME queue \in Table, RoomForRoot, NEW row \in Row, Root(row),
           queue' = Insert(queue, row)
    PROVE  Entered
BY InsertRow DEF Entered, RoomForRoot, Absent

LEMMA DispatchSteady ==
    ASSUME queue \in Table, NEW rows \in SUBSET Task,
           \A t \in rows : queue[t].status \in Live \ {"running"},
           queue' = Dispatched(queue, rows)
    PROVE  Calm
<1>1. ASSUME NEW t \in rows
      PROVE  Steady(queue[t], queue'[t])
  <2>1. queue'[t] = [queue[t] EXCEPT !.status = "dispatched", !.stamp = @ + 1,
                                     !.age = 0, !.leased = TRUE]
    BY <1>1 DEF Dispatched
  <2>2. queue[t] \in Row /\ queue[t].status \in Live
    BY <1>1 DEF Table
  <2>3. "dispatched" \in Live /\ "dispatched" \notin Terminal
    BY DEF Live, Active, Terminal
  <2>. QED  BY <1>1, <2>1, <2>2, <2>3 DEF Row, Steady, Keeps, Onward
<1>2. \A t \in Task \ rows : queue'[t] = queue[t]
  BY DEF Dispatched
<1>. QED  BY <1>1, <1>2 DEF Calm, Steady

LEMMA SetSteady ==
    ASSUME queue \in Table, NEW t \in Task, NEW row, Steady(queue[t], row),
           queue' = [queue EXCEPT ![t] = row]
    PROVE  Calm
BY DEF Table, Calm, Steady

(* Two columns of an ended row may still change.                            *)
LEMMA MovedFields ==
    ASSUME NEW p \in Row
    PROVE  /\ Refiled(p, p)
           /\ \A r : Moved(p, [p EXCEPT !.runtime = r])
           /\ p.status = "completed" /\ p.lane = Bare
                => \A i \in Issue : Moved(p, [p EXCEPT !.lane = i])
<1>1. Refiled(p, p)
  BY DEF Refiled, Row
<1>2. ASSUME NEW r
      PROVE  Moved(p, [p EXCEPT !.runtime = r])
  <2>. DEFINE n == [p EXCEPT !.runtime = r]
  <2>1. n = [p EXCEPT !.runtime = n.runtime, !.lane = n.lane] /\ n.lane = p.lane
    BY DEF Row
  <2>2. /\ n.status = p.status /\ n.reason = p.reason /\ n.leased = p.leased
        /\ n.agent = p.agent /\ n.parent = p.parent /\ n.escalates = p.escalates
        /\ n.attempt = p.attempt /\ n.max = p.max
    BY DEF Row
  <2>. HIDE DEF n
  <2>3. Moved(p, n)
    BY <2>1, <2>2 DEF Moved, Refiled
  <2>. QED  BY <2>3 DEF n
<1>3. ASSUME p.status = "completed", p.lane = Bare, NEW i \in Issue
      PROVE  Moved(p, [p EXCEPT !.lane = i])
  <2>. DEFINE n == [p EXCEPT !.lane = i]
  <2>1. n = [p EXCEPT !.runtime = n.runtime, !.lane = n.lane] /\ n.lane = i
    BY DEF Row
  <2>2. /\ n.status = p.status /\ n.reason = p.reason /\ n.leased = p.leased
        /\ n.agent = p.agent /\ n.parent = p.parent /\ n.escalates = p.escalates
        /\ n.attempt = p.attempt /\ n.max = p.max
    BY DEF Row
  <2>. HIDE DEF n
  <2>3. Moved(p, n)
    BY <1>3, <2>1, <2>2 DEF Moved, Refiled
  <2>. QED  BY <2>3 DEF n
<1>. QED  BY <1>1, <1>2, <1>3

LEMMA SameCalm ==
    ASSUME queue' = queue
    PROVE  Calm
BY DEF Calm, Steady

(* A live row moves to another live status.                                 *)
LEMMA MoveSteady ==
    ASSUME queue \in Table, NEW t \in Task, queue[t].status \in Live \ {"running"}, NEW s \in Live,
           s # "running" \/ \E w \in workers : Start(w),
           queue' = [queue EXCEPT ![t] = [@ EXCEPT !.status = s, !.age = 0, !.leased = FALSE]]
    PROVE  Calm
<1>. DEFINE row == [queue[t] EXCEPT !.status = s, !.age = 0, !.leased = FALSE]
<1>1. queue[t] \in Row /\ queue' = [queue EXCEPT ![t] = row]
  BY DEF Table
<1>2. Steady(queue[t], row)
  BY <1>1 DEF Row, Steady, Keeps, Onward, Live, Active, Terminal
<1>. HIDE DEF row
<1>. QED  BY <1>1, <1>2, SetSteady

(* The lease of a live row changes.                                         *)
LEMMA LeaseSteady ==
    ASSUME queue \in Table, NEW t \in Task, queue[t].status \in Live, NEW b \in BOOLEAN,
           queue' = [queue EXCEPT ![t].leased = b]
    PROVE  Calm
<1>. DEFINE row == [queue[t] EXCEPT !.leased = b]
<1>1. queue[t] \in Row /\ queue' = [queue EXCEPT ![t] = row]
  BY DEF Table
<1>2. Steady(queue[t], row)
  BY <1>1 DEF Row, Steady, Keeps, Onward, Live, Active, Terminal
<1>. HIDE DEF row
<1>. QED  BY <1>1, <1>2, SetSteady

(* Rows that are not retries continue nothing and have no lease.            *)
LEMMA QueuedEntered ==
    ASSUME queue \in Table, RoomForRoot,
           NEW a \in Agent, NEW l \in Lane, NEW r \in Runtime,
           queue' = Insert(queue, QueuedRow(a, l, r))
    PROVE  Entered
<1>. DEFINE row == QueuedRow(a, l, r)
<1>1. row \in Row /\ row.status \in {"deferred", "queued"}
  BY NewRow
<1>2. row.parent = None /\ row.leased = FALSE
      /\ row.attempt = 1 /\ row.max = MaxAttempts /\ row.reason = "none"
  BY DEF QueuedRow, AbsentRow
<1>3. queue' = Insert(queue, row)
  OBVIOUS
<1>. HIDE DEF row
<1>. QED  BY <1>1, <1>2, <1>3, InsertEntered DEF Root

LEMMA FallbackEntered ==
    ASSUME queue \in Table, RoomForRoot,
           NEW a \in Agent, NEW l \in Lane, NEW r \in Runtime, NEW t \in Task,
           queue' = Insert(queue, FallbackRow(a, l, r, t))
    PROVE  Entered
<1>. DEFINE row == FallbackRow(a, l, r, t)
<1>1. row \in Row /\ row.status \in {"deferred", "queued"}
  BY NewFallback
<1>2. row.parent = None /\ row.leased = FALSE
      /\ row.attempt = 1 /\ row.max = MaxAttempts /\ row.reason = "none"
  BY DEF FallbackRow, QueuedRow, AbsentRow
<1>3. queue' = Insert(queue, row)
  OBVIOUS
<1>. HIDE DEF row
<1>. QED  BY <1>1, <1>2, <1>3, InsertEntered DEF Root

-----------------------------------------------------------------------------
(* Every step is plain or inserts one retry.                                *)

(* What the steps rely on: only live rows have a lease.                     *)
LeasedIsLive == \A t \in Task : queue[t].leased => queue[t].status \in Live

LEMMA SameCollected ==
    ASSUME recovering' \subseteq recovering
    PROVE  Collected
BY DEF Collected

LEMMA UserPlain ==
    ASSUME TypeOK, UserStep
    PROVE  Plain
<1>1. queue \in Table /\ "none" \in Reason /\ "cancelled" \in Terminal
  BY DEF TypeOK, Table, Reason, Terminal
<1>2. recovering' = recovering
  BY DEF UserStep, Enqueue, EnqueueFallback, AgentComments, Rerun, RerunEnqueue, Cancel, serverVars
<1>3. ASSUME NEW a \in Agent, NEW l \in Lane, NEW r \in Runtime, Enqueue(a, l, r)
      PROVE  Calm \/ Entered
  BY <1>1, <1>3, QueuedEntered DEF Enqueue
<1>4. ASSUME NEW t \in Task, NEW a \in FallbackAgent, NEW r \in Runtime, EnqueueFallback(t, a, r)
      PROVE  Calm \/ Entered
  <2>1. a \in Agent /\ queue[t].lane \in Lane
    BY <1>4, QueueAssumption DEF EnqueueFallback, Lane
  <2>. QED
    BY <1>1, <1>4, <2>1, FallbackEntered DEF EnqueueFallback
<1>5. ASSUME NEW rows \in SUBSET {t \in Task : queue[t].status \in Live},
             queue' = End(queue, rows, "cancelled", "none")
      PROVE  Calm \/ Entered
  <2>1. rows \in SUBSET Task /\ \A t \in rows : queue[t].status \in Live
    OBVIOUS
  <2>. QED  BY <1>1, <1>5, <2>1, EndSteady
<1>6. ASSUME NEW a \in Agent, NEW i \in Issue, AgentComments(a, i) \/ Rerun(a, i)
      PROVE  Calm \/ Entered
  <2>1. FallbacksFor(a, i) \in SUBSET {t \in Task : queue[t].status \in Live}
    BY DEF FallbacksFor, Standing, Live, Active
  <2>. QED  BY <1>5, <1>6, <2>1 DEF AgentComments, Rerun
<1>7. ASSUME NEW a \in Agent, NEW i \in Issue, NEW r \in Runtime, RerunEnqueue(a, i, r)
      PROVE  Calm \/ Entered
  <2>1. i \in Lane
    BY DEF Lane
  <2>2. CASE queue' = queue
    BY <2>2, SameCalm
  <2>3. CASE queue' # queue
    BY <1>1, <1>7, <2>1, <2>3, QueuedEntered DEF RerunEnqueue
  <2>. QED  BY <2>2, <2>3
<1>8. ASSUME Cancel
      PROVE  Calm \/ Entered
  BY <1>5, <1>8 DEF Cancel, CancelRows
<1>. QED
  BY <1>2, <1>3, <1>4, <1>6, <1>7, <1>8, SameCollected DEF UserStep, Plain

LEMMA ClaimPlain ==
    ASSUME TypeOK, NEW h \in Handler, ClaimStep(h)
    PROVE  Plain
<1>1. queue \in Table /\ "none" \in Reason /\ "cancelled" \in Terminal
  BY DEF TypeOK, Table, Reason, Terminal
<1>2. recovering' = recovering
  BY DEF ClaimStep, Poll, ReclaimStale, ListCandidates, LockAgent, ClaimRow, ClaimError,
     Deliver, Withhold, Requeue, CancelClaimed, Respond, AbortClaim, serverVars
<1>3. ASSUME NEW d \in Daemon, Poll(h, d)
      PROVE  Calm
  <2>1. ASSUME NEW t \in Promotable(d)
        PROVE  Steady(queue[t], queue'[t])
    <3>1. /\ t \in Task /\ queue[t].status = "deferred"
          /\ queue'[t] = [queue[t] EXCEPT !.status = "queued", !.age = 0]
      BY <1>3, <2>1 DEF Poll, Promotable
    <3>2. queue[t] \in Row
      BY <1>1, <3>1 DEF Table
    <3>. QED  BY <3>1, <3>2 DEF Row, Steady, Keeps, Onward, Live, Active, Terminal
  <2>2. \A t \in Task \ Promotable(d) : queue'[t] = queue[t]
    BY <1>3 DEF Poll
  <2>. QED  BY <2>1, <2>2 DEF Calm, Steady
<1>4. ASSUME ReclaimStale(h)
      PROVE  Calm
  <2>1. PICK rows \in SUBSET Reclaimable(claim[h].daemon) : queue' = Dispatched(queue, rows)
    BY <1>4 DEF ReclaimStale
  <2>2. rows \in SUBSET Task /\ \A t \in rows : queue[t].status \in Live \ {"running"}
    BY DEF Reclaimable, Live, Active
  <2>. QED  BY <1>1, <2>1, <2>2, DispatchSteady
<1>5. ASSUME ClaimRow(h)
      PROVE  Calm
  <2>1. \/ queue' = queue
        \/ \E t \in Task : Claimable(queue, t) /\ queue' = Dispatched(queue, {t})
    BY <1>5, ClaimRowStep
  <2>2. ASSUME NEW t \in Task, Claimable(queue, t), queue' = Dispatched(queue, {t})
        PROVE  Calm
    <3>1. \A u \in {t} : queue[u].status \in Live \ {"running"}
      BY <2>2 DEF Claimable, Live
    <3>. QED  BY <1>1, <2>2, <3>1, DispatchSteady
  <2>. QED  BY <2>1, <2>2, SameCalm
<1>6. ASSUME NEW c \in claim[h].claimed, Requeue(h, c)
      PROVE  Calm
  <2>1. c.task \in Task
    BY ClaimedLess, <1>6 DEF Requeue, Claimed
  <2>2. queue[c.task].status \in Live \ {"running"} /\ "queued" \in Live
    BY <1>6 DEF Requeue, OwnsRow, Live, Active
  <2>. QED  BY <1>1, <1>6, <2>1, <2>2, MoveSteady DEF Requeue
<1>7. ASSUME NEW c \in claim[h].claimed, CancelClaimed(h, c)
      PROVE  Calm
  BY <1>1, <1>7, EndSteady DEF CancelClaimed
<1>8. CASE UNCHANGED queue
  BY <1>8, <1>2, SameCalm, SameCollected DEF Plain
<1>9. CASE \/ ListCandidates(h) \/ ClaimError(h) \/ Respond(h) \/ AbortClaim(h)
           \/ \E a \in Agent : LockAgent(h, a)
           \/ \E c \in claim[h].claimed : Deliver(h, c) \/ Withhold(h, c)
  BY <1>8, <1>9 DEF ListCandidates, ClaimError, Respond, AbortClaim, LockAgent, Deliver, Withhold
<1>. QED
  BY <1>2, <1>3, <1>4, <1>5, <1>6, <1>7, <1>9, SameCollected DEF ClaimStep, Plain

(* A failed row and, if it is eligible, its retry.                          *)
LEMMA FailedContinued ==
    ASSUME TypeOK, Placed, NEW t \in Task, queue[t].status \in Active, t \notin recovering,
           NEW reason \in ReportedReason, queue' = Failed(t, reason), recovering' = recovering
    PROVE  Plain \/ Retried
<1>. DEFINE ended == End(queue, {t}, "failed", reason)
            row == RetryRow(reason, queue[t], t)
            f == FreshRow(ended)
<1>1. queue \in Table /\ queue[t] \in Row /\ "failed" \in Status /\ "failed" \in Terminal
      /\ reason \in Reason
  BY QueueAssumption DEF TypeOK, Table, Status, Terminal
<1>2. \A u \in {t} : queue[u].status \in Live
  BY DEF Live
<1>3. CASE queue' = ended /\ (~RetryEligible(reason, queue[t]) \/ Absent(queue) = {})
  <2>1. Calm
    BY <1>1, <1>2, <1>3, EndSteady
  <2>. QED  BY <2>1, SameCollected DEF Plain
<1>4. CASE queue' = Insert(ended, row) /\ Absent(queue) # {} /\ RetryEligible(reason, queue[t])
  <2>1. /\ ended \in Table
        /\ \A u \in Task \ {t} : ended[u] = queue[u]
        /\ \A u \in {t} : /\ ended[u].status = "failed"
                          /\ ended[u].agent = queue[u].agent
                          /\ ended[u].lane = queue[u].lane
                          /\ ended[u].runtime = queue[u].runtime
    BY <1>1, EndRows
  <2>2. ended[t] = [queue[t] EXCEPT !.status = "failed", !.reason = reason,
                                    !.age = 0, !.leased = FALSE]
    BY DEF End
  <2>3. /\ Keeps(queue[t], ended[t]) /\ ended[t].status = "failed" /\ ~ended[t].leased
        /\ ended[t].reason = reason
    BY <1>1, <2>2 DEF Row, Keeps
  <2>4. queue[t].agent \in Agent /\ queue[t].lane \in Lane /\ queue[t].runtime \in Runtime
    BY DEF Placed, Active
  <2>5. /\ row \in Row /\ row.status \in {"deferred", "queued"}
        /\ row.agent = queue[t].agent /\ row.lane = queue[t].lane
        /\ row.parent = t /\ row.leased = FALSE /\ row.attempt = queue[t].attempt + 1
        /\ row.max = RetryCeiling(reason, queue[t].max) /\ row.reason = "none"
    <3>1. /\ row \in Row /\ row.status \in {"deferred", "queued"}
          /\ row.agent = queue[t].agent /\ row.lane = queue[t].lane
      BY <1>1, <2>4, NewRetry
    <3>2. /\ row.parent = t /\ row.leased = FALSE /\ row.attempt = queue[t].attempt + 1
          /\ row.max = RetryCeiling(reason, queue[t].max) /\ row.reason = "none"
      BY DEF RetryRow, QueuedRow, AbsentRow
    <3>. QED  BY <3>1, <3>2
  <2>6. Absent(ended) = Absent(queue)
    BY <2>1, <2>3 DEF Absent, Active
  <2>. HIDE DEF ended, row
  <2>7. /\ f \in Absent(ended) /\ Insert(ended, row)[f] = row
        /\ \A u \in Task \ {f} : Insert(ended, row)[u] = ended[u]
    BY <1>4, <2>1, <2>5, <2>6, InsertRow
  <2>8. f \in Task /\ queue[f].status = "absent" /\ f # t
    BY <2>6, <2>7 DEF Absent, Active
  <2>. HIDE DEF f
  <2>9. queue'[t] = ended[t] /\ queue'[f] = row
    BY <1>4, <2>7, <2>8
  <2>10. \A u \in Task \ {t, f} : queue'[u] = queue[u]
    BY <1>4, <2>1, <2>7
  <2>11. RetryEligible(reason, ended[t])
    BY <1>4, <2>3 DEF RetryEligible, Keeps
  <2>12. Continued(t, f)
    BY <1>2, <2>3, <2>5, <2>8, <2>9, <2>10, <2>11 DEF Continued, Keeps
  <2>. QED  BY <2>8, <2>12 DEF Retried
<1>. QED  BY <1>3, <1>4 DEF Failed

(* Rows waiting for their bulk retry have failed and have none yet.         *)
RecoveringAlone ==
    \A t \in recovering : /\ queue[t].status = "failed"
                          /\ \A u \in Task : queue[u].parent # t

LEMMA WorkerPlain ==
    ASSUME TypeOK, Placed, RecoveringAlone, NEW w \in workers, WorkerStep(w)
    PROVE  Plain \/ Retried
<1>1. queue \in Table /\ w.task \in Task
  BY WorkerTask DEF TypeOK, Table
<1>2. recovering' = recovering
  BY DEF WorkerStep, ExtendLease, MarkWaiting, Start, Complete, GiveUp, ReportFailure, FailUnread,
     serverVars
<1>3. {"dispatched", "waiting", "running"} \subseteq Live
  BY DEF Live, Active
<1>4. CASE UNCHANGED queue
  BY <1>2, <1>4, SameCalm, SameCollected DEF Plain
<1>5. CASE ExtendLease(w)
  <2>1. Calm
    BY <1>1, <1>3, <1>5, LeaseSteady DEF ExtendLease
  <2>. QED  BY <1>2, <2>1, SameCollected DEF Plain
<1>6. CASE MarkWaiting(w)
  <2>1. Calm
    BY <1>1, <1>3, <1>6, MoveSteady DEF MarkWaiting
  <2>. QED  BY <1>2, <2>1, SameCollected DEF Plain
<1>7. CASE Start(w) /\ queue[w.task].status \in {"dispatched", "waiting"}
  <2>1. Calm
    BY <1>1, <1>3, <1>7, MoveSteady DEF Start
  <2>. QED  BY <1>2, <2>1, SameCollected DEF Plain
<1>8. CASE Complete(w) /\ queue[w.task].status = "running"
  <2>. DEFINE rows == {w.task}
  <2>1. /\ queue' = End(queue, rows, "completed", "none") /\ rows \in SUBSET Task
        /\ \A t \in rows : queue[t].status \in Live /\ queue[t].status = "running"
    BY <1>1, <1>3, <1>8 DEF Complete
  <2>2. "completed" \in Terminal /\ "none" \in Reason
    BY DEF Terminal, Reason
  <2>. HIDE DEF rows
  <2>3. Calm
    BY <1>1, <2>1, <2>2, EndSteady
  <2>. QED  BY <1>2, <2>3, SameCollected DEF Plain
<1>9. ASSUME NEW reason \in ReportedReason, ReportFailure(w, reason),
             queue[w.task].status \in Active
      PROVE  Plain \/ Retried
  <2>1. queue' = Failed(w.task, reason)
    BY <1>9 DEF ReportFailure
  <2>2. w.task \notin recovering
    BY <1>9 DEF RecoveringAlone, Active
  <2>. QED  BY <1>1, <1>2, <1>9, <2>1, <2>2, FailedContinued
<1>10. ASSUME NEW reason \in ReportedReason, FailUnread(w, reason)
       PROVE  Plain
  <2>. DEFINE rows == {w.task}
  <2>1. /\ queue' = End(queue, rows, "failed", reason) /\ rows \in SUBSET Task
        /\ \A t \in rows : queue[t].status \in Live
    BY <1>1, <1>10 DEF FailUnread, Live
  <2>2. "failed" \in Terminal /\ reason \in Reason
    BY QueueAssumption DEF Terminal
  <2>. HIDE DEF rows
  <2>3. Calm
    BY <1>1, <1>10, <2>1, <2>2, EndSteady
  <2>. QED  BY <1>2, <2>3, SameCollected DEF Plain
<1>. QED
  BY <1>4, <1>5, <1>6, <1>7, <1>8, <1>9, <1>10
  DEF WorkerStep, Start, Complete, GiveUp, ReportFailure

(* A bulk failure hands exactly the rows it failed to the retries.          *)
LEMMA FailRowsPlain ==
    ASSUME TypeOK, NEW rows \in SUBSET Task, \A t \in rows : queue[t].status \in Live,
           NEW reason \in Reason \ {"provider_network"}, FailRows(rows, reason)
    PROVE  Plain
<1>1. queue \in Table /\ "failed" \in Terminal
  BY DEF TypeOK, Table, Terminal
<1>2. Calm /\ \A t \in rows : queue'[t].status = "failed"
  BY <1>1, EndSteady DEF FailRows
<1>. QED  BY <1>2 DEF FailRows, Plain, Collected

LEMMA SweepPlain ==
    ASSUME TypeOK, SweepOffline \/ SweepReconnect \/ SweepStale \/ SweepQueued
    PROVE  Plain
<1>1. /\ OfflineVictims \in SUBSET Task /\ ReconnectVictims \in SUBSET Task
      /\ StaleVictims \in SUBSET Task /\ QueuedVictims \in SUBSET Task
  BY DEF OfflineVictims, ReconnectVictims, StaleVictims, QueuedVictims, RecoveryRetries
<1>2. \A t \in OfflineVictims \cup ReconnectVictims \cup StaleVictims \cup QueuedVictims :
         queue[t].status \in Live
  BY DEF OfflineVictims, ReconnectVictims, StaleVictims, QueuedVictims, Live, Active
<1>3. {"runtime_offline", "runtime_reconnect_timeout", "timeout", "queued_expired"}
        \subseteq Reason \ {"provider_network"}
  BY DEF Reason
<1>4. ASSUME NEW rows \in SUBSET Task, \A t \in rows : queue[t].status \in Live,
             NEW reason \in Reason \ {"provider_network"}, SweepRows(rows, reason)
      PROVE  Plain
  BY <1>4, FailRowsPlain DEF SweepRows
<1>5. CASE SweepOffline
  BY <1>1, <1>2, <1>3, <1>4, <1>5 DEF SweepOffline
<1>6. CASE SweepReconnect
  BY <1>1, <1>2, <1>3, <1>4, <1>6 DEF SweepReconnect
<1>7. CASE SweepStale
  BY <1>1, <1>2, <1>3, <1>4, <1>7 DEF SweepStale
<1>8. CASE SweepQueued
  BY <1>1, <1>2, <1>3, <1>4, <1>8 DEF SweepQueued
<1>. QED  BY <1>5, <1>6, <1>7, <1>8

LEMMA RuntimePlain ==
    ASSUME TypeOK, NEW r \in Runtime, RuntimeStep(r)
    PROVE  Plain
<1>1. CASE RecoverOrphans(r)
  <2>. DEFINE rows == {t \in Task : queue[t].status \in Active /\ queue[t].runtime = r}
  <2>1. rows \in SUBSET Task /\ \A t \in rows : queue[t].status \in Live
    BY DEF Live
  <2>2. FailRows(rows, "runtime_recovery") \/ UNCHANGED <<queue, recovering>>
    BY <1>1 DEF RecoverOrphans
  <2>. HIDE DEF rows
  <2>3. "runtime_recovery" \in Reason
    BY DEF Reason
  <2>. QED  BY <2>1, <2>2, <2>3, FailRowsPlain, SameCalm, SameCollected DEF Plain
<1>2. CASE MarkOffline(r) \/ RuntimeSilent(r) \/ Deregister(r) \/ Heartbeat(r)
  <2>1. queue' = queue /\ recovering' = recovering
    BY <1>2 DEF MarkOffline, RuntimeSilent, Deregister, Heartbeat, serverVars
  <2>. QED  BY <2>1, SameCalm, SameCollected DEF Plain
<1>3. ASSUME NEW old \in Runtime, ReassignTasksToRuntime(old, r)
      PROVE  Plain
  <2>1. ASSUME NEW t \in Task
        PROVE  Steady(queue[t], queue'[t])
    <3>1. queue[t] \in Row
      BY DEF TypeOK
    <3>2. queue'[t] = queue[t] \/ queue'[t] = [queue[t] EXCEPT !.runtime = r]
      BY <1>3 DEF ReassignTasksToRuntime
    <3>. QED  BY <3>1, <3>2, MovedFields DEF Steady
  <2>2. recovering' = recovering
    BY <1>3 DEF ReassignTasksToRuntime, serverVars
  <2>. QED  BY <2>1, <2>2, SameCollected DEF Calm, Plain
<1>. QED  BY <1>1, <1>2, <1>3 DEF RuntimeStep

LEMMA RetryFailedPlain ==
    ASSUME TypeOK, Placed, LeasedIsLive, RecoveringAlone, NEW t \in Task, RetryFailed(t)
    PROVE  Plain \/ Retried
<1>. DEFINE row == RetryRow(queue[t].reason, queue[t], t)
            f == FreshRow(queue)
<1>1. queue \in Table /\ queue[t] \in Row /\ queue[t].reason \in Reason
  BY DEF TypeOK, Table, Row
<1>2. /\ t \in recovering /\ recovering' = recovering \ {t} /\ queue[t].status = "failed"
      /\ ~queue[t].leased
  BY DEF RetryFailed, RecoveringAlone, LeasedIsLive, Live, Active
<1>3. CASE queue' = queue
  BY <1>2, <1>3, SameCalm, SameCollected DEF Plain
<1>4. CASE /\ queue' = Insert(queue, row) /\ Absent(queue) # {}
           /\ RetryEligible(queue[t].reason, queue[t])
  <2>1. queue[t].agent \in Agent /\ queue[t].lane \in Lane /\ queue[t].runtime \in Runtime
    BY <1>2 DEF Placed
  <2>2. /\ row \in Row /\ row.status \in {"deferred", "queued"}
        /\ row.agent = queue[t].agent /\ row.lane = queue[t].lane
    BY <1>1, <2>1, NewRetry
  <2>3. /\ row.parent = t /\ row.leased = FALSE /\ row.attempt = queue[t].attempt + 1
        /\ row.max = RetryCeiling(queue[t].reason, queue[t].max) /\ row.reason = "none"
    BY DEF RetryRow, QueuedRow, AbsentRow
  <2>. HIDE DEF row
  <2>4. /\ f \in Absent(queue) /\ queue'[f] = row
        /\ \A u \in Task \ {f} : queue'[u] = queue[u]
    BY <1>1, <1>4, <2>2, InsertRow
  <2>5. f \in Task /\ queue[f].status = "absent" /\ f # t
    BY <1>2, <2>4 DEF Absent
  <2>. HIDE DEF f
  <2>6. Continued(t, f)
    BY <1>2, <1>4, <2>2, <2>3, <2>4, <2>5 DEF Continued
  <2>. QED  BY <2>5, <2>6 DEF Retried
<1>. QED  BY <1>3, <1>4 DEF RetryFailed

LEMMA RowPlain ==
    ASSUME TypeOK, Placed, LinkingEnded, LeasedIsLive, RecoveringAlone, NEW t \in Task, RowStep(t)
    PROVE  Plain \/ Retried
<1>1. queue \in Table /\ "none" \in Reason /\ "cancelled" \in Terminal
  BY DEF TypeOK, Table, Reason, Terminal
<1>2. CASE Acknowledge(t)
  <2>. DEFINE rows == {f \in Task : queue[f].escalates = t /\ Standing(f)}
  <2>1. rows \in SUBSET Task /\ \A u \in rows : queue[u].status \in Live
    BY DEF Standing, Live, Active
  <2>2. queue' = End(queue, rows, "cancelled", "none") /\ recovering' = recovering
    BY <1>2 DEF Acknowledge
  <2>. HIDE DEF rows
  <2>3. Calm
    BY <1>1, <2>1, <2>2, EndSteady
  <2>. QED  BY <2>2, <2>3, SameCollected DEF Plain
<1>3. CASE DeadlinePasses(t)
  <2>. DEFINE row == [queue[t] EXCEPT !.age = queue[t].age + 1]
  <2>1. queue[t] \in Row /\ queue' = [queue EXCEPT ![t] = row] /\ recovering' = recovering
    BY <1>1, <1>3 DEF DeadlinePasses, Table, serverVars
  <2>2. queue[t].status \in Live
    BY <1>3, <2>1 DEF DeadlinePasses, LastDeadline, Row, Live, Active, Status
  <2>3. Steady(queue[t], row)
    BY <2>1, <2>2 DEF Row, Steady, Keeps, Onward, Live, Active, Terminal
  <2>. HIDE DEF row
  <2>4. Calm
    BY <1>1, <2>1, <2>3, SetSteady
  <2>. QED  BY <2>1, <2>4, SameCollected DEF Plain
<1>4. CASE LeaseExpires(t)
  <2>1. Calm
    BY <1>1, <1>4, LeaseSteady DEF LeaseExpires, LeasedIsLive
  <2>. QED  BY <1>4, <2>1, SameCollected DEF LeaseExpires, serverVars, Plain
<1>5. ASSUME NEW i \in Issue, LinkTaskToIssue(t, i)
      PROVE  Plain
  <2>. DEFINE row == [queue[t] EXCEPT !.lane = i]
  <2>1. /\ queue[t] \in Row /\ queue' = [queue EXCEPT ![t] = row] /\ recovering' = recovering
        /\ queue[t].status = "completed" /\ queue[t].lane = Bare
    BY <1>1, <1>5 DEF LinkTaskToIssue, LinkingEnded, Table
  <2>2. Steady(queue[t], row)
    BY <2>1, MovedFields DEF Steady
  <2>. HIDE DEF row
  <2>3. Calm
    BY <1>1, <2>1, <2>2, SetSteady
  <2>. QED  BY <2>1, <2>3, SameCollected DEF Plain
<1>6. CASE AcknowledgeFails(t) \/ LinkNothing(t)
  <2>1. queue' = queue /\ recovering' = recovering
    BY <1>6 DEF AcknowledgeFails, LinkNothing
  <2>. QED  BY <2>1, SameCalm, SameCollected DEF Plain
<1>. QED  BY <1>2, <1>3, <1>4, <1>5, <1>6, RetryFailedPlain DEF RowStep

LEMMA StepPlain ==
    ASSUME TypeOK, Placed, LinkingEnded, LeasedIsLive, RecoveringAlone, [Next]_vars
    PROVE  Plain \/ Retried
<1>1. CASE \E d \in Daemon : DaemonCrash(d)
  <2>1. queue' = queue /\ recovering' = recovering
    BY <1>1 DEF DaemonCrash, serverVars
  <2>. QED  BY <2>1, SameCalm, SameCollected DEF Plain
<1>2. CASE ServerCrash
  <2>1. queue' = queue /\ recovering' \subseteq recovering
    BY <1>2 DEF ServerCrash
  <2>. QED  BY <2>1, SameCalm, SameCollected DEF Plain
<1>3. CASE UNCHANGED vars
  <2>1. queue' = queue /\ recovering' = recovering
    BY <1>3 DEF vars, serverVars
  <2>. QED  BY <2>1, SameCalm, SameCollected DEF Plain
<1>. QED
  BY <1>1, <1>2, <1>3, UserPlain, ClaimPlain, WorkerPlain, RowPlain, RuntimePlain, SweepPlain
  DEF Next

-----------------------------------------------------------------------------
(* The inductive invariant.  RetryChain alone is not inductive: it must be  *)
(* known that a row waiting for its bulk retry has none yet, and that an    *)
(* ended row no longer changes, for which its lease must be gone.           *)

ChainInv == RetryChain /\ RecoveringAlone /\ LeasedIsLive

LEMMA PlainLeases ==
    ASSUME TypeOK', LeasedIsLive, Plain \/ Retried
    PROVE  LeasedIsLive'
<1>1. ASSUME NEW t \in Task, queue'[t].leased
      PROVE  queue'[t].status \in Live
  <2>1. CASE Plain
    BY <1>1, <2>1 DEF Plain, Calm, Steady, Moved, Entered, Root, LeasedIsLive, Live
  <2>2. CASE Retried
    BY <1>1, <2>2 DEF Retried, Continued, LeasedIsLive
  <2>. QED  BY <2>1, <2>2
<1>. QED  BY <1>1 DEF LeasedIsLive

LEMMA PlainKeepsChain ==
    ASSUME TypeOK, TypeOK', ChainInv, Plain
    PROVE  RetryChain' /\ RecoveringAlone'
<1>1. ASSUME NEW u \in Task, queue'[u].parent # None
      PROVE  /\ queue[u].parent = queue'[u].parent
             /\ queue'[u].agent = queue[u].agent /\ queue'[u].lane = queue[u].lane
             /\ queue'[u].attempt = queue[u].attempt
  <2>1. /\ queue[u].parent = queue'[u].parent
        /\ queue'[u].agent = queue[u].agent /\ queue'[u].attempt = queue[u].attempt
        /\ queue'[u].lane = queue[u].lane \/ Refiled(queue[u], queue'[u])
    BY <1>1 DEF Plain, Calm, Steady, Moved, Entered, Root, Keeps
  <2>2. queue[u].parent \in Task
    BY <1>1, <2>1 DEF TypeOK, Row
  <2>3. queue[u].lane \in Issue \cup Chat
    BY <1>1, <2>1, <2>2 DEF ChainInv, RetryChain, RetryEligible
  <2>. QED  BY <2>1, <2>3, TaskAssumption DEF Refiled
<1>2. ASSUME NEW t \in Task, queue[t].status = "failed"
      PROVE  /\ queue'[t].status = "failed" /\ queue'[t].reason = queue[t].reason
             /\ queue'[t].agent = queue[t].agent /\ queue'[t].lane = queue[t].lane
             /\ queue'[t].attempt = queue[t].attempt /\ queue'[t].max = queue[t].max
  BY <1>2 DEF Plain, Calm, Steady, Moved, Entered, Root, Live, Active
<1>3. ASSUME NEW u \in Task
      PROVE  queue[u].parent \in Task \cup {None}
  BY DEF TypeOK, Row
<1>4. RetryChain'
  <2>1. ASSUME NEW u \in Task, queue'[u].parent # None
        PROVE  LET p == queue'[queue'[u].parent]
               IN /\ p.status = "failed" /\ RetryEligible(p.reason, p)
                  /\ queue'[u].agent = p.agent /\ queue'[u].lane = p.lane
                  /\ queue'[u].attempt = p.attempt + 1
                  /\ \A v \in Task : queue'[v].parent = queue'[u].parent => v = u
    <3>. DEFINE q == queue[u].parent
    <3>1. q = queue'[u].parent /\ q \in Task /\ queue[q].status = "failed"
      BY <1>1, <1>3, <2>1 DEF ChainInv, RetryChain
    <3>2. /\ queue'[q].status = "failed" /\ queue'[q].reason = queue[q].reason
          /\ queue'[q].agent = queue[q].agent /\ queue'[q].lane = queue[q].lane
          /\ queue'[q].attempt = queue[q].attempt /\ queue'[q].max = queue[q].max
      BY <1>2, <3>1
    <3>3. \A v \in Task : queue'[v].parent = q => v = u
      BY <1>1, <2>1, <3>1 DEF ChainInv, RetryChain
    <3>4. /\ RetryEligible(queue[q].reason, queue[q])
          /\ queue[u].agent = queue[q].agent /\ queue[u].lane = queue[q].lane
          /\ queue[u].attempt = queue[q].attempt + 1
      BY <2>1, <3>1 DEF ChainInv, RetryChain
    <3>5. RetryEligible(queue'[q].reason, queue'[q])
      BY <3>2, <3>4 DEF RetryEligible
    <3>. QED  BY <1>1, <2>1, <3>1, <3>2, <3>3, <3>4, <3>5
  <2>. QED  BY <2>1 DEF RetryChain
<1>5. RecoveringAlone'
  <2>1. ASSUME NEW t \in recovering'
        PROVE  /\ queue'[t].status = "failed"
               /\ \A u \in Task : queue'[u].parent # t
    <3>1. t \in recovering \/ (queue[t].status \in Live /\ queue'[t].status = "failed")
      BY <2>1 DEF Plain, Collected
    <3>2. t \in Task /\ t # None
      BY <2>1, TaskAssumption DEF TypeOK
    <3>3. CASE t \in recovering
      BY <1>1, <1>2, <3>2, <3>3 DEF ChainInv, RecoveringAlone
    <3>4. CASE queue[t].status \in Live /\ queue'[t].status = "failed"
      <4>1. \A u \in Task : queue[u].parent # t
        BY <3>2, <3>4 DEF ChainInv, RetryChain, Live, Active
      <4>. QED  BY <1>1, <3>2, <3>4, <4>1
    <3>. QED  BY <3>1, <3>3, <3>4
  <2>. QED  BY <2>1 DEF RecoveringAlone
<1>. QED  BY <1>4, <1>5

(* A retry extends the chain at its end: the row it continues had none.     *)
LEMMA RetriedKeepsChain ==
    ASSUME TypeOK, TypeOK', ChainInv, NEW t \in Task, NEW f \in Task, Continued(t, f)
    PROVE  RetryChain' /\ RecoveringAlone'
<1>1. /\ t # None /\ f # None /\ t # f
      /\ \A u \in Task : queue[u].parent \in Task \cup {None}
  BY TaskAssumption DEF TypeOK, Row, Continued
<1>2. \A u \in Task : queue[u].parent # t
  BY <1>1 DEF Continued, ChainInv, RecoveringAlone, RetryChain, Live, Active
<1>3. \A u \in Task : queue[u].parent # f
  BY <1>1 DEF Continued, ChainInv, RetryChain
<1>4. \A u \in Task \ {f} : /\ queue'[u].parent = queue[u].parent
                             /\ queue'[u].agent = queue[u].agent
                             /\ queue'[u].lane = queue[u].lane
                             /\ queue'[u].attempt = queue[u].attempt
  BY DEF Continued, Keeps
<1>5. RetryChain'
  <2>1. ASSUME NEW u \in Task, queue'[u].parent # None
        PROVE  LET p == queue'[queue'[u].parent]
               IN /\ p.status = "failed" /\ RetryEligible(p.reason, p)
                  /\ queue'[u].agent = p.agent /\ queue'[u].lane = p.lane
                  /\ queue'[u].attempt = p.attempt + 1
                  /\ \A v \in Task : queue'[v].parent = queue'[u].parent => v = u
    <3>1. CASE u = f
      <4>1. queue'[f].parent = t /\ \A v \in Task \ {f} : queue'[v].parent # t
        BY <1>2, <1>4 DEF Continued
      <4>. QED  BY <3>1, <4>1 DEF Continued
    <3>2. CASE u # f
      <4>. DEFINE q == queue[u].parent
      <4>1. q = queue'[u].parent /\ q \in Task \ {t, f} /\ q # None
        BY <1>1, <1>2, <1>3, <1>4, <2>1, <3>2
      <4>2. queue'[q] = queue[q]
        BY <4>1 DEF Continued
      <4>3. /\ queue[q].status = "failed" /\ RetryEligible(queue[q].reason, queue[q])
            /\ queue[u].agent = queue[q].agent /\ queue[u].lane = queue[q].lane
            /\ queue[u].attempt = queue[q].attempt + 1
            /\ \A v \in Task : queue[v].parent = q => v = u
        BY <4>1 DEF ChainInv, RetryChain
      <4>4. queue'[f].parent # q
        BY <4>1 DEF Continued
      <4>5. \A v \in Task : queue'[v].parent = q => v = u
        BY <1>4, <4>3, <4>4
      <4>. QED  BY <1>4, <3>2, <4>1, <4>2, <4>3, <4>5
    <3>. QED  BY <3>1, <3>2
  <2>. QED  BY <2>1 DEF RetryChain
<1>6. RecoveringAlone'
  <2>1. ASSUME NEW v \in recovering'
        PROVE  /\ queue'[v].status = "failed"
               /\ \A u \in Task : queue'[u].parent # v
    <3>1. v \in recovering /\ v # t /\ v \in Task
      BY <2>1 DEF Continued, TypeOK
    <3>2. queue[v].status = "failed" /\ \A u \in Task : queue[u].parent # v
      BY <3>1 DEF ChainInv, RecoveringAlone
    <3>3. queue'[v] = queue[v]
      BY <3>1, <3>2 DEF Continued
    <3>4. queue'[f].parent # v
      BY <3>1 DEF Continued
    <3>. QED  BY <1>4, <3>2, <3>3, <3>4
  <2>. QED  BY <2>1 DEF RecoveringAlone
<1>. QED  BY <1>5, <1>6

LEMMA NextChainInv == IInv /\ IInv' /\ ChainInv /\ [Next]_vars => ChainInv'
<1>. SUFFICES ASSUME IInv, IInv', ChainInv, [Next]_vars PROVE ChainInv'
  OBVIOUS
<1>1. TypeOK /\ TypeOK' /\ Placed /\ LinkingEnded
  BY DEF IInv
<1>2. Plain \/ Retried
  BY <1>1, StepPlain DEF ChainInv
<1>3. LeasedIsLive'
  BY <1>1, <1>2, PlainLeases DEF ChainInv
<1>4. RetryChain' /\ RecoveringAlone'
  BY <1>1, <1>2, PlainKeepsChain, RetriedKeepsChain DEF Retried
<1>. QED  BY <1>3, <1>4 DEF ChainInv

LEMMA InitChainInv == Init => ChainInv
<1>. SUFFICES ASSUME Init PROVE ChainInv
  OBVIOUS
<1>1. \A t \in Task : queue[t].parent = None /\ queue[t].leased = FALSE
  BY DEF Init, AbsentRow
<1>2. recovering = {}
  BY DEF Init
<1>. QED  BY <1>1, <1>2 DEF ChainInv, RetryChain, RecoveringAlone, LeasedIsLive

LEMMA ChainInductive == Spec => [](IInv /\ ChainInv)
BY InitChainInv, NextChainInv, Inductive, PTL DEF Spec

(* However reports of daemons, bulk failures, late retries and crashes of   *)
(* servers and daemons interleave, a failed row is retried at most once, by *)
(* a row of the same agent and lane with the next attempt number, and only  *)
(* within the ceiling of the reason it failed for (service/task.go          *)
(* MaybeRetryFailedTask and FailTask, CreateRetryTask).                     *)
THEOREM RetriesFormChain == Spec => []RetryChain
<1>1. ChainInv => RetryChain
  BY DEF ChainInv
<1>. QED  BY <1>1, ChainInductive, PTL

LEMMA EndedStays ==
    ASSUME TypeOK, Plain \/ Retried
    PROVE  \A t \in Task : queue[t].status \in Terminal => Refiled(queue[t], queue'[t])
<1>1. ASSUME NEW t \in Task, queue[t].status \in Terminal
      PROVE  Refiled(queue[t], queue'[t])
  <2>1. queue[t].status \notin Live /\ queue[t].status # "absent"
    BY <1>1 DEF Terminal, Live, Active
  <2>2. Refiled(queue[t], queue[t])
    BY MovedFields DEF TypeOK
  <2>3. CASE Plain
    BY <2>1, <2>2, <2>3 DEF Plain, Calm, Steady, Moved, Entered, Root
  <2>4. CASE Retried
    BY <2>1, <2>2, <2>4 DEF Retried, Continued
  <2>. QED  BY <2>3, <2>4
<1>. QED  BY <1>1

(* Whichever late start, report, requeue, sweep, cancellation or lease      *)
(* extension still reaches a completed, failed or cancelled row, nothing of *)
(* it changes but its runtime, when another one takes over, and, for a      *)
(* completed quick create, its issue: the other statements of               *)
(* pkg/db/queries/agent.sql name the statuses they take.                    *)
THEOREM EndedRowsStay == Spec => TerminalIsFinal
<1>1. IInv /\ ChainInv /\ [Next]_vars
        => [\A t \in Task : queue[t].status \in Terminal => Refiled(queue[t], queue'[t])]_vars
  BY StepPlain, EndedStays DEF IInv, ChainInv
<1>. QED  BY <1>1, ChainInductive, PTL DEF Spec, TerminalIsFinal

-----------------------------------------------------------------------------
(* Fallbacks.  What a step does to any row, inserted, ended or moved.       *)

LEMMA RowMoves ==
    ASSUME Plain \/ Retried, NEW u \in Task
    PROVE  \/ queue'[u].status = queue[u].status /\ queue'[u].escalates = queue[u].escalates
           \/ queue[u].status = "absent" /\ queue'[u].status \in {"deferred", "queued"}
           \/ /\ queue[u].status # "absent"
              /\ queue'[u].escalates = queue[u].escalates /\ Onward(queue[u], queue'[u])
              /\ queue[u].status \in Live
<1>1. ASSUME Steady(queue[u], queue'[u])
      PROVE  \/ queue'[u].status = queue[u].status /\ queue'[u].escalates = queue[u].escalates
             \/ /\ queue'[u].escalates = queue[u].escalates /\ Onward(queue[u], queue'[u])
                /\ queue[u].status \in Live
  BY <1>1 DEF Steady, Moved, Keeps
<1>2. "absent" \notin Live
  BY DEF Live, Active
<1>3. CASE Calm
  BY <1>1, <1>2, <1>3 DEF Calm
<1>4. CASE Entered
  BY <1>4 DEF Entered, Root
<1>5. CASE Retried
  <2>1. PICK t, f \in Task : Continued(t, f)
    BY <1>5 DEF Retried
  <2>2. CASE u = t
    BY <1>2, <2>1, <2>2 DEF Continued, Keeps, Onward, Terminal
  <2>3. CASE u # t
    BY <2>1, <2>3 DEF Continued
  <2>. QED  BY <2>2, <2>3
<1>. QED  BY <1>3, <1>4, <1>5 DEF Plain

(* A row comes to run or to be complete only by the start of a worker, which *)
(* marks it for the second statement.                                       *)
LEMMA BeginsAcknowledged ==
    ASSUME TypeOK, Plain \/ Retried, NEW t \in Task,
           queue[t].status \notin {"running", "completed"},
           queue'[t].status \in {"running", "completed"}
    PROVE  t \in acknowledging'
<1>1. PICK w \in workers : Start(w)
  BY RowMoves DEF Onward
<1>2. w.task \in Task /\ DOMAIN queue = Task
  BY WorkerTask DEF TypeOK
<1>3. t = w.task
  BY <1>1, <1>2 DEF Start
<1>. QED  BY <1>1, <1>3 DEF Start

(* A fallback that stands after a step stood before it, or is new.          *)
LEMMA StandingBefore ==
    ASSUME Plain \/ Retried, NEW f \in Task, Standing(f)'
    PROVE  \/ queue[f].status = "absent"
           \/ Standing(f) /\ queue'[f].escalates = queue[f].escalates
BY RowMoves DEF Standing, Onward, Live, Active, Terminal

(* The second statement of StartTask leaves no fallback standing.           *)
LEMMA AcknowledgeEnds ==
    ASSUME TypeOK, NEW t \in Task, Acknowledge(t), NEW f \in Task, Standing(f)'
    PROVE  Standing(f) /\ queue[f].escalates # t
<1>1. queue[f] \in Row
  BY DEF TypeOK
<1>2. CASE queue[f].escalates = t /\ Standing(f)
  <2>1. queue'[f] = [queue[f] EXCEPT !.status = "cancelled", !.reason = "none",
                                     !.age = 0, !.leased = FALSE]
    BY <1>2 DEF Acknowledge, End
  <2>2. queue'[f].status = "cancelled"
    BY <1>1, <2>1 DEF Row
  <2>. QED  BY <2>2 DEF Standing
<1>3. CASE ~(queue[f].escalates = t /\ Standing(f))
  <2>1. queue'[f] = queue[f]
    BY <1>3 DEF Acknowledge, End
  <2>. QED  BY <1>3, <2>1 DEF Standing
<1>. QED  BY <1>2, <1>3

LEMMA StepKeepsFallbacks ==
    ASSUME TypeOK, TypeOK', Plain \/ Retried, FallbackInTime, StartFinishes, FallbackStandsDown
    PROVE  FallbackStandsDown'
<1>. SUFFICES ASSUME NEW f \in Task, queue'[f].escalates # None, Standing(f)',
                     queue'[queue'[f].escalates].status \in {"running", "completed"},
                     queue'[f].escalates \notin acknowledging'
              PROVE  FALSE
  BY DEF FallbackStandsDown
<1>. DEFINE t == queue'[f].escalates
<1>1. t \in Task
  BY DEF TypeOK, Row
<1>2. \/ queue[f].status = "absent"
      \/ Standing(f) /\ queue[f].escalates = t
  BY StandingBefore
<1>3. queue[t].status \notin {"running", "completed"} \/ t \in acknowledging
  BY <1>2 DEF FallbackInTime, FallbackStandsDown
<1>. HIDE DEF t
<1>4. t \in acknowledging
  BY <1>1, <1>3, BeginsAcknowledged DEF t
<1>5. Acknowledge(t)
  BY <1>4 DEF StartFinishes, t
<1>6. Standing(f) /\ queue[f].escalates # t
  BY <1>1, <1>5, AcknowledgeEnds
<1>. QED  BY <1>2, <1>6 DEF Standing

(* Once StartTask has returned for a row, none of its fallbacks waits, is   *)
(* queued or is being handed over, whatever comments, promotions, claims,   *)
(* requeues and retries come in between, in every execution in which the    *)
(* fallback was inserted in time and the second statement ran: no server    *)
(* died before it, and it did not fail (service/task.go StartTask,          *)
(* cancelDeferredEscalationsForTask, whose error is only logged).           *)
(* The second conjunct is the first in the form TLC checks.                  *)
THEOREM FallbacksStandDown == TimelySpec => []FallbackStandsDown /\ FallbackStaysDown
<1>. DEFINE Inv == IInv /\ ChainInv /\ FallbackStandsDown
            Step == Next /\ FallbackInTime /\ StartFinishes
<1>1. Init => Inv
  <2>1. Init => FallbackStandsDown
    BY DEF Init, AbsentRow, FallbackStandsDown
  <2>. QED  BY <2>1, InitIInv, InitChainInv
<1>2. Inv /\ [Step]_vars => Inv'
  <2>. SUFFICES ASSUME Inv, [Step]_vars PROVE Inv'
    OBVIOUS
  <2>1. IInv' /\ ChainInv' /\ (Plain \/ Retried)
    BY NextIInv, NextChainInv, StepPlain DEF IInv, ChainInv
  <2>2. CASE Step
    BY <2>1, <2>2, StepKeepsFallbacks DEF IInv
  <2>3. CASE UNCHANGED vars
    BY <2>1, <2>3 DEF vars, serverVars, FallbackStandsDown, Standing
  <2>. QED  BY <2>2, <2>3
<1>3. Inv /\ [Step]_vars => [FallbackInTime /\ StartFinishes => FallbackStandsDown']_vars
  BY <1>2
<1>. QED  BY <1>1, <1>2, <1>3, PTL DEF TimelySpec, FallbackStaysDown

-----------------------------------------------------------------------------
(* A reported failure has its retry.  The transaction inserts it while there *)
(* is a free row, and there always is one: every row is reached from one    *)
(* root, rows of one root differ in their attempt, and attempts are bounded *)
(* by MaxChain.  So the rows number at most MaxRoots * MaxChain, and a row  *)
(* that may still be retried leaves one of these places open.               *)

Present == {u \in Task : queue[u].status # "absent"}

(* f maps each row to the root of its chain.                                *)
Rooted(f) ==
    /\ f \in [Task -> Task]
    /\ \A u \in Present :
         /\ f[u] \in Roots
         /\ queue[u].attempt \in 1..MaxChain /\ queue[u].max \in {MaxAttempts, MaxChain}
         /\ queue[u].parent = None => f[u] = u /\ queue[u].attempt = 1
         /\ queue[u].parent # None => f[u] = f[queue[u].parent]
    /\ \A u, v \in Present : f[u] = f[v] /\ queue[u].attempt = queue[v].attempt => u = v

RootsBounded == Cardinality(Roots) <= MaxRoots

(* Only a daemon's report blames the provider's network.                    *)
BlameReported ==
    \A t \in Task : queue[t].reason = "provider_network" =>
        queue[t].status = "failed" /\ "provider_network" \in ReportedReason

RoomInv == RootsBounded /\ (\E f : Rooted(f)) /\ BlameReported /\ ReportedFailureRetried

LEMMA Ceilings ==
    ASSUME NEW reason, reason = "provider_network" => reason \in ReportedReason,
           NEW max \in {MaxAttempts, MaxChain}
    PROVE  /\ MaxChain \in Nat \ {0} /\ MaxAttempts \in Nat \ {0}
           /\ RetryCeiling(reason, max) \in {MaxAttempts, MaxChain}
           /\ RetryCeiling(reason, max) <= MaxChain
BY TaskAssumption DEF MaxChain, RetryCeiling, ProviderNetworkMaxAttempts

(* The place after a row in its chain is taken by its retry alone.          *)
LEMMA NextIsRetry ==
    ASSUME TypeOK, ChainInv, NEW f, Rooted(f), NEW t \in Present, NEW v \in Present,
           f[v] = f[t], queue[v].attempt = queue[t].attempt + 1
    PROVE  queue[v].parent = t
<1>1. queue[t].attempt \in Nat /\ queue[t].attempt >= 1
  BY TaskAssumption DEF Rooted
<1>2. queue[v].parent # None
  BY <1>1 DEF Rooted
<1>. DEFINE q == queue[v].parent
<1>3. q \in Task /\ v \in Task
  BY <1>2 DEF TypeOK, Row, Present
<1>4. queue[q].status = "failed" /\ queue[v].attempt = queue[q].attempt + 1
  BY <1>2, <1>3 DEF ChainInv, RetryChain
<1>5. q \in Present /\ queue[q].attempt \in Nat
  BY <1>3, <1>4 DEF Present, TypeOK, Row
<1>6. f[q] = f[t] /\ queue[q].attempt = queue[t].attempt
  BY <1>1, <1>2, <1>4, <1>5 DEF Rooted
<1>. QED  BY <1>5, <1>6 DEF Rooted

(* As long as a row may be retried, a row is free for the retry.            *)
LEMMA RoomForRetry ==
    ASSUME TypeOK, ChainInv, RoomInv, NEW t \in Present, NEW reason,
           RetryEligible(reason, queue[t]),
           reason = "provider_network" => reason \in ReportedReason,
           \A u \in Task : queue[u].parent # t
    PROVE  Absent(queue) # {}
<1>. SUFFICES ASSUME Absent(queue) = {} PROVE FALSE
  OBVIOUS
<1>1. Present = Task
  BY DEF Absent, Present
<1>2. PICK f : Rooted(f)
  BY DEF RoomInv
<1>3. queue[t].attempt \in 1..MaxChain /\ queue[t].max \in {MaxAttempts, MaxChain} /\ f[t] \in Roots
  BY <1>2 DEF Rooted
<1>4. MaxChain \in Nat \ {0} /\ queue[t].attempt + 1 \in 1..MaxChain
  <2>1. /\ MaxChain \in Nat \ {0} /\ RetryCeiling(reason, queue[t].max) \in {MaxAttempts, MaxChain}
        /\ RetryCeiling(reason, queue[t].max) <= MaxChain /\ MaxAttempts \in Nat
    BY <1>3, Ceilings
  <2>2. queue[t].attempt < RetryCeiling(reason, queue[t].max)
    BY DEF RetryEligible
  <2>. QED  BY <1>3, <2>1, <2>2
<1>. DEFINE free == <<f[t], queue[t].attempt + 1>>
            places == Roots \X (1..MaxChain)
            g == [u \in Task |-> <<f[u], queue[u].attempt>>]
<1>5. IsFiniteSet(Roots) /\ Cardinality(Roots) \in Nat
  BY TaskAssumption, FS_Subset, FS_CardinalityType DEF Roots
<1>6. IsFiniteSet(1..MaxChain) /\ Cardinality(1..MaxChain) = MaxChain
  BY <1>4, FS_Interval
<1>7. IsFiniteSet(places) /\ Cardinality(places) = Cardinality(Roots) * MaxChain
  BY <1>5, <1>6, FS_Product
<1>8. free \in places
  BY <1>3, <1>4
<1>9. IsFiniteSet(places \ {free}) /\ Cardinality(places \ {free}) = Cardinality(Roots) * MaxChain - 1
  BY <1>7, <1>8, FS_RemoveElement
<1>10. Cardinality(places \ {free}) < Cardinality(Task)
  <2>1. MaxRoots \in Nat /\ Cardinality(Roots) <= MaxRoots
    BY QueueAssumption DEF RoomInv, RootsBounded
  <2>2. (MaxRoots - Cardinality(Roots)) * MaxChain \in Nat
    BY <1>4, <1>5, <2>1
  <2>3. MaxRoots * MaxChain = Cardinality(Roots) * MaxChain + (MaxRoots - Cardinality(Roots)) * MaxChain
    BY <1>4, <1>5, <2>1
  <2>. DEFINE mc == MaxRoots * MaxChain
              rc == Cardinality(Roots) * MaxChain
              dc == (MaxRoots - Cardinality(Roots)) * MaxChain
  <2>4. mc \in Nat /\ rc \in Nat /\ dc \in Nat /\ mc = rc + dc
    BY <1>4, <1>5, <2>1, <2>2, <2>3
  <2>5. Cardinality(Task) \in Nat /\ Cardinality(Task) >= mc
    BY RoomAssumption, TaskAssumption, FS_CardinalityType
  <2>6. Cardinality(places \ {free}) = rc - 1
    BY <1>9
  <2>. HIDE DEF mc, rc, dc
  <2>. QED  BY <2>4, <2>5, <2>6
<1>11. g \in [Task -> places \ {free}]
  <2>1. ASSUME NEW u \in Task
        PROVE  g[u] \in places \ {free}
    <3>1. f[u] \in Roots /\ queue[u].attempt \in 1..MaxChain
      BY <1>1, <1>2 DEF Rooted
    <3>2. ~(f[u] = f[t] /\ queue[u].attempt = queue[t].attempt + 1)
      BY <1>1, <1>2, NextIsRetry
    <3>. QED  BY <3>1, <3>2
  <2>. HIDE DEF places, free
  <2>. QED  BY <2>1
<1>12. \A u, v \in Task : g[u] = g[v] => u = v
  BY <1>1, <1>2 DEF Rooted
<1>. HIDE DEF places, free, g
<1>. QED  BY <1>9, <1>10, <1>11, <1>12, TaskAssumption, FS_PigeonHole

(* Steps that insert nothing leave every chain as it is.                    *)
LEMMA CalmKeepsRoots ==
    ASSUME TypeOK, RoomInv, Calm
    PROVE  RootsBounded' /\ (\E f : Rooted(f)')
<1>1. Present' = Present
  BY DEF Present, Calm, Steady, Moved, Live, Active, Terminal
<1>2. \A u \in Task : /\ queue'[u].parent = queue[u].parent
                      /\ queue'[u].attempt = queue[u].attempt
                      /\ queue'[u].max = queue[u].max
  BY DEF Calm, Steady, Moved, Keeps
<1>3. Roots' = Roots
  BY <1>1, <1>2 DEF Roots, Present
<1>4. RootsBounded'
  BY <1>3 DEF RoomInv, RootsBounded
<1>5. PICK f : Rooted(f)
  BY DEF RoomInv
<1>6. Rooted(f)'
  BY <1>1, <1>2, <1>3, <1>5 DEF Rooted, Present
<1>. QED  BY <1>4, <1>6

LEMMA EnteredKeepsRoots ==
    ASSUME TypeOK, ChainInv, RoomInv, Entered
    PROVE  RootsBounded' /\ (\E f : Rooted(f)')
<1>1. PICK b \in Task : /\ queue[b].status = "absent" /\ Root(queue'[b])
                        /\ \A t \in Task \ {b} : queue'[t] = queue[t]
  BY DEF Entered
<1>2. PICK f : Rooted(f)
  BY DEF RoomInv
<1>3. Present' = Present \cup {b} /\ b \notin Present
  BY <1>1 DEF Present, Root
<1>4. Roots' = Roots \cup {b} /\ b \notin Roots
  BY <1>1 DEF Roots, Root
<1>5. RootsBounded'
  <2>1. IsFiniteSet(Roots) /\ Cardinality(Roots) \in Nat
    BY TaskAssumption, FS_Subset, FS_CardinalityType DEF Roots
  <2>2. Cardinality(Roots') = Cardinality(Roots) + 1
    BY <1>4, <2>1, FS_AddElement
  <2>. QED  BY <2>1, <2>2, QueueAssumption DEF Entered, RoomForRoot, RootsBounded
<1>. DEFINE e == [f EXCEPT ![b] = b]
<1>6. e \in [Task -> Task] /\ e[b] = b /\ \A u \in Task \ {b} : e[u] = f[u]
  BY <1>2 DEF Rooted
<1>. HIDE DEF e
<1>7. MaxChain \in Nat \ {0}
  BY Ceilings
<1>8. ASSUME NEW u \in Present
      PROVE  /\ u \in Task \ {b} /\ e[u] = f[u] /\ queue'[u] = queue[u] /\ f[u] # b
             /\ queue[u].parent # None => /\ queue[u].parent \in Task \ {b}
                                         /\ e[queue[u].parent] = f[queue[u].parent]
  <2>1. u \in Task \ {b} /\ f[u] # b
    BY <1>2, <1>3, <1>4, <1>8 DEF Rooted, Present
  <2>2. ASSUME queue[u].parent # None
        PROVE  queue[u].parent \in Task \ {b}
    <3>1. queue[u].parent \in Task
      BY <2>1, <2>2 DEF TypeOK, Row
    <3>2. queue[queue[u].parent].status = "failed"
      BY <2>1, <2>2 DEF ChainInv, RetryChain
    <3>. QED  BY <1>1, <3>1, <3>2
  <2>. QED  BY <1>1, <1>6, <2>1, <2>2
<1>9. Rooted(e)'
  <2>1. ASSUME NEW u \in Present'
        PROVE  /\ e[u] \in Roots'
               /\ queue'[u].attempt \in 1..MaxChain /\ queue'[u].max \in {MaxAttempts, MaxChain}
               /\ queue'[u].parent = None => e[u] = u /\ queue'[u].attempt = 1
               /\ queue'[u].parent # None => e[u] = e[queue'[u].parent]
    <3>1. CASE u = b
      BY <1>1, <1>4, <1>6, <1>7, <3>1 DEF Root
    <3>2. CASE u \in Present
      BY <1>2, <1>4, <1>8, <3>2 DEF Rooted
    <3>. QED  BY <1>3, <3>1, <3>2
  <2>2. ASSUME NEW u \in Present', NEW v \in Present',
               e[u] = e[v], queue'[u].attempt = queue'[v].attempt
        PROVE  u = v
    BY <1>2, <1>3, <1>6, <1>8, <2>2 DEF Rooted
  <2>. QED  BY <1>6, <2>1, <2>2 DEF Rooted
<1>. QED  BY <1>5, <1>9

LEMMA ContinuedKeepsRoots ==
    ASSUME TypeOK, ChainInv, RoomInv, NEW t \in Task, NEW c \in Task, Continued(t, c)
    PROVE  RootsBounded' /\ (\E f : Rooted(f)')
<1>1. PICK f : Rooted(f)
  BY DEF RoomInv
<1>2. t \in Present /\ c \notin Present /\ t # c
  BY DEF Present, Continued, Live, Active
<1>3. Present' = Present \cup {c}
  BY <1>2 DEF Present, Continued
<1>4. \A u \in Present : /\ queue'[u].parent = queue[u].parent
                         /\ queue'[u].attempt = queue[u].attempt
                         /\ queue'[u].max = queue[u].max
  BY <1>2 DEF Present, Continued, Keeps
<1>5. \A u \in Task : queue[u].parent # t
  BY TaskAssumption DEF Continued, ChainInv, RecoveringAlone, RetryChain, Live, Active
<1>6. queue'[c].parent = t /\ t # None
  BY TaskAssumption DEF Continued
<1>7. Roots' = Roots
  <2>1. Roots = {u \in Present : queue[u].parent = None}
    BY DEF Roots, Present
  <2>2. Roots' = {u \in Present' : queue'[u].parent = None}
    BY DEF Roots, Present
  <2>. QED  BY <1>3, <1>4, <1>6, <2>1, <2>2
<1>8. RootsBounded'
  BY <1>7 DEF RoomInv, RootsBounded
<1>9. queue'[c].attempt = queue[t].attempt + 1
  BY <1>2, <1>4 DEF Continued
<1>10. queue'[c].attempt \in 1..MaxChain /\ queue'[c].max \in {MaxAttempts, MaxChain}
  <2>. DEFINE reason == queue'[t].reason
  <2>1. reason = "provider_network" => reason \in ReportedReason
    BY DEF Continued, RoomInv, BlameReported
  <2>2. /\ queue[t].attempt \in 1..MaxChain /\ queue[t].max \in {MaxAttempts, MaxChain}
        /\ queue'[t].max = queue[t].max /\ queue'[t].attempt = queue[t].attempt
    BY <1>1, <1>2, <1>4 DEF Rooted
  <2>3. /\ queue'[c].max = RetryCeiling(reason, queue[t].max)
        /\ queue[t].attempt < RetryCeiling(reason, queue[t].max)
    BY <2>2 DEF Continued, RetryEligible
  <2>. HIDE DEF reason
  <2>4. /\ MaxChain \in Nat \ {0} /\ MaxAttempts \in Nat \ {0}
        /\ RetryCeiling(reason, queue[t].max) \in {MaxAttempts, MaxChain}
        /\ RetryCeiling(reason, queue[t].max) <= MaxChain
    BY <2>1, <2>2, Ceilings
  <2>. QED  BY <1>9, <2>2, <2>3, <2>4
<1>. DEFINE e == [f EXCEPT ![c] = f[t]]
<1>11. e \in [Task -> Task] /\ e[c] = f[t] /\ \A u \in Task \ {c} : e[u] = f[u]
  BY <1>1 DEF Rooted
<1>. HIDE DEF e
<1>12. ASSUME NEW u \in Present
       PROVE  /\ u \in Task \ {c} /\ e[u] = f[u]
              /\ queue[u].parent # None => /\ queue[u].parent \in Task \ {c}
                                          /\ e[queue[u].parent] = f[queue[u].parent]
  <2>1. u \in Task \ {c}
    BY <1>2, <1>12 DEF Present
  <2>2. ASSUME queue[u].parent # None
        PROVE  queue[u].parent \in Task \ {c}
    <3>1. queue[u].parent \in Task
      BY <2>1, <2>2 DEF TypeOK, Row
    <3>2. queue[queue[u].parent].status = "failed"
      BY <2>1, <2>2 DEF ChainInv, RetryChain
    <3>. QED  BY <3>1, <3>2 DEF Continued
  <2>. QED  BY <1>11, <2>1, <2>2
<1>13. Rooted(e)'
  <2>1. ASSUME NEW u \in Present'
        PROVE  /\ e[u] \in Roots'
               /\ queue'[u].attempt \in 1..MaxChain /\ queue'[u].max \in {MaxAttempts, MaxChain}
               /\ queue'[u].parent = None => e[u] = u /\ queue'[u].attempt = 1
               /\ queue'[u].parent # None => e[u] = e[queue'[u].parent]
    <3>1. CASE u = c
      BY <1>1, <1>2, <1>6, <1>7, <1>10, <1>11, <1>12, <3>1 DEF Rooted
    <3>2. CASE u \in Present
      BY <1>1, <1>4, <1>7, <1>12, <3>2 DEF Rooted
    <3>. QED  BY <1>3, <3>1, <3>2
  <2>2. ASSUME NEW u \in Present, e[u] = f[t]
        PROVE  queue'[u].attempt # queue'[c].attempt
    <3>1. f[u] = f[t] /\ queue'[u].attempt = queue[u].attempt
      BY <1>4, <1>12, <2>2
    <3>2. queue[u].attempt # queue[t].attempt + 1
      BY <1>1, <1>2, <1>5, <3>1, NextIsRetry DEF Present
    <3>. QED  BY <1>9, <3>1, <3>2
  <2>3. ASSUME NEW u \in Present', NEW v \in Present',
               e[u] = e[v], queue'[u].attempt = queue'[v].attempt
        PROVE  u = v
    <3>1. CASE u \in Present /\ v \in Present
      BY <1>1, <1>4, <1>12, <2>3, <3>1 DEF Rooted
    <3>2. CASE u = c \/ v = c
      BY <1>3, <1>11, <2>2, <2>3, <3>2
    <3>. QED  BY <1>3, <3>1, <3>2
  <2>. QED  BY <1>11, <2>1, <2>3 DEF Rooted
<1>. QED  BY <1>8, <1>13

LEMMA BlameKept ==
    ASSUME TypeOK, RoomInv, Plain \/ Retried
    PROVE  BlameReported'
<1>1. ASSUME NEW u \in Task, queue'[u].reason = "provider_network"
      PROVE  queue'[u].status = "failed" /\ "provider_network" \in ReportedReason
  <2>1. queue[u].reason = "provider_network" =>
           queue[u].status = "failed" /\ "provider_network" \in ReportedReason
    BY DEF RoomInv, BlameReported
  <2>2. CASE Calm
    BY <1>1, <2>1, <2>2 DEF Calm, Steady, Moved, Excused, Live, Active
  <2>3. CASE Entered
    BY <1>1, <2>1, <2>3 DEF Entered, Root
  <2>4. CASE Retried
    BY <1>1, <2>1, <2>4 DEF Retried, Continued
  <2>. QED  BY <2>2, <2>3, <2>4 DEF Plain
<1>. QED  BY <1>1 DEF BlameReported

(* A row stays in the record of those that could not be read.               *)
LEMMA UnreadGrows ==
    ASSUME [Next]_vars
    PROVE  unread \subseteq unread'
<1>1. CASE UserStep
  BY <1>1 DEF UserStep, Enqueue, EnqueueFallback, AgentComments, Rerun, RerunEnqueue, Cancel,
     serverVars
<1>2. ASSUME NEW h \in Handler, ClaimStep(h)
      PROVE  unread \subseteq unread'
  BY <1>2 DEF ClaimStep, Poll, ReclaimStale, ListCandidates, LockAgent, ClaimRow, ClaimError,
     Deliver, Withhold, Requeue, CancelClaimed, Respond, AbortClaim, serverVars
<1>3. ASSUME NEW w \in workers, WorkerStep(w)
      PROVE  unread \subseteq unread'
  BY <1>3 DEF WorkerStep, ExtendLease, MarkWaiting, Start, Complete, GiveUp, ReportFailure,
     FailUnread, serverVars
<1>4. ASSUME NEW t \in Task, RowStep(t)
      PROVE  unread \subseteq unread'
  BY <1>4 DEF RowStep, Acknowledge, AcknowledgeFails, LinkTaskToIssue, LinkNothing, RetryFailed,
     DeadlinePasses, LeaseExpires, serverVars
<1>5. ASSUME NEW r \in Runtime, RuntimeStep(r)
      PROVE  unread \subseteq unread'
  BY <1>5 DEF RuntimeStep, RecoverOrphans, MarkOffline, RuntimeSilent, Deregister, Heartbeat,
     ReassignTasksToRuntime, serverVars
<1>6. CASE \/ \E d \in Daemon : DaemonCrash(d)
           \/ SweepOffline \/ SweepReconnect \/ SweepStale \/ SweepQueued \/ ServerCrash
  BY <1>6 DEF DaemonCrash, SweepOffline, SweepReconnect, SweepStale, SweepQueued, SweepRows,
     ServerCrash, serverVars
<1>7. CASE UNCHANGED vars
  BY <1>7 DEF vars, serverVars
<1>. QED  BY <1>1, <1>2, <1>3, <1>4, <1>5, <1>6, <1>7 DEF Next

(* FailTask records the one row it fails without having read it.            *)
LEMMA UnreadRecorded ==
    ASSUME TypeOK, NEW t \in Task, queue'[t] # queue[t], NEW w \in workers, NEW reason,
           FailUnread(w, reason)
    PROVE  t \in unread'
<1>1. \A u \in Task \ {w.task} : queue'[u] = queue[u]
  BY DEF FailUnread, End
<1>. QED  BY <1>1 DEF FailUnread

LEMMA ReportedKept ==
    ASSUME TypeOK, Placed, ChainInv, RoomInv, Plain \/ Retried, unread \subseteq unread'
    PROVE  ReportedFailureRetried'
<1>1. ASSUME NEW t \in Task \ unread', queue'[t].status = "failed",
             queue'[t].reason = "provider_network",
             RetryEligible("provider_network", queue'[t])
      PROVE  \E u \in Task : queue'[u].parent = t
  <2>1. CASE queue'[t] = queue[t] \/ Moved(queue[t], queue'[t])
    <3>. /\ t \in Task \ unread /\ queue[t].status = "failed"
         /\ queue[t].reason = "provider_network" /\ RetryEligible("provider_network", queue[t])
      BY <1>1, <2>1 DEF Moved, RetryEligible
    <3>1. PICK u \in Task : queue[u].parent = t
      BY DEF RoomInv, ReportedFailureRetried
    <3>2. queue[u].status # "absent"
      <4>1. queue[t].status = "failed" /\ queue[u].lane = queue[t].lane
        BY <3>1, TaskAssumption DEF ChainInv, RetryChain
      <4>2. queue[u].lane # None
        BY <4>1, TaskAssumption DEF Placed
      <4>. QED  BY <4>2 DEF Placed
    <3>3. queue'[u].parent = t
      <4>1. CASE Calm
        BY <3>1, <4>1 DEF Calm, Steady, Moved, Keeps
      <4>2. CASE Entered
        BY <3>1, <3>2, <4>2 DEF Entered
      <4>3. CASE Retried
        BY <3>1, <3>2, <4>3 DEF Retried, Continued, Keeps
      <4>. QED  BY <4>1, <4>2, <4>3 DEF Plain
    <3>. QED  BY <3>3
  <2>2. CASE queue'[t] # queue[t] /\ ~Moved(queue[t], queue'[t]) /\ Calm
    <3>1. queue[t].status \in Live /\ Keeps(queue[t], queue'[t])
      BY <2>2 DEF Calm, Steady
    <3>2. queue[t].reason # "provider_network"
      BY <3>1 DEF RoomInv, BlameReported, Live, Active
    <3>3. Excused(queue'[t])
      BY <1>1, <2>2, <3>2 DEF Calm, Steady
    <3>4. Absent(queue) = {}
      BY <1>1, <2>2, <3>3, UnreadRecorded DEF Excused
    <3>5. t \in Present /\ RetryEligible("provider_network", queue[t])
      BY <1>1, <3>1 DEF Present, Live, Active, RetryEligible, Keeps
    <3>6. \A u \in Task : queue[u].parent # t
      BY <3>1, TaskAssumption DEF ChainInv, RetryChain, Live, Active
    <3>. QED  BY <3>3, <3>4, <3>5, <3>6, RoomForRetry DEF Excused
  <2>3. CASE queue'[t] # queue[t] /\ Entered
    BY <1>1, <2>3 DEF Entered, Root
  <2>4. CASE queue'[t] # queue[t] /\ Retried
    BY <1>1, <2>4 DEF Retried, Continued
  <2>. QED  BY <2>1, <2>2, <2>3, <2>4 DEF Plain
<1>. QED  BY <1>1 DEF ReportedFailureRetried

LEMMA NextRoomInv == IInv /\ IInv' /\ ChainInv /\ RoomInv /\ [Next]_vars => RoomInv'
<1>. SUFFICES ASSUME IInv, IInv', ChainInv, RoomInv, [Next]_vars PROVE RoomInv'
  OBVIOUS
<1>1. TypeOK /\ Placed /\ LinkingEnded
  BY DEF IInv
<1>2. Plain \/ Retried
  BY <1>1, StepPlain DEF ChainInv
<1>3. RootsBounded' /\ (\E f : Rooted(f)')
  BY <1>1, <1>2, CalmKeepsRoots, EnteredKeepsRoots, ContinuedKeepsRoots DEF Plain, Retried
<1>4. BlameReported' /\ ReportedFailureRetried'
  BY <1>1, <1>2, BlameKept, ReportedKept, UnreadGrows
<1>. QED  BY <1>3, <1>4 DEF RoomInv

LEMMA InitRoomInv == Init => RoomInv
<1>. SUFFICES ASSUME Init PROVE RoomInv
  OBVIOUS
<1>1. \A t \in Task : queue[t].status = "absent" /\ queue[t].reason = "none"
  BY DEF Init, AbsentRow
<1>2. Roots = {} /\ Present = {}
  BY <1>1 DEF Roots, Present
<1>3. RootsBounded
  BY <1>2, FS_EmptySet, QueueAssumption DEF RootsBounded
<1>4. Rooted([t \in Task |-> t])
  BY <1>2 DEF Rooted
<1>5. BlameReported /\ ReportedFailureRetried
  BY <1>1 DEF BlameReported, ReportedFailureRetried
<1>. QED  BY <1>3, <1>4, <1>5 DEF RoomInv

LEMMA RoomInductive == Spec => []RoomInv
BY InitRoomInv, NextRoomInv, ChainInductive, PTL DEF Spec

(* A failure that a daemon reports and that may be retried has its retry,   *)
(* whatever crashes and whenever, unless FailTask could not read the row:   *)
(* it inserts the retry in the transaction that fails the row               *)
(* (service/task.go FailTask).                                              *)
THEOREM ReportedFailuresRetried == Spec => []ReportedFailureRetried
<1>1. RoomInv => ReportedFailureRetried
  BY DEF RoomInv
<1>. QED  BY <1>1, RoomInductive, PTL
=============================================================================
