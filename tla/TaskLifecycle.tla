---------------------------- MODULE TaskLifecycle ----------------------------
(***************************************************************************)
(* What the task queue promises, without handlers, daemons, clocks or       *)
(* retries: a row has a status, an agent and a lane; statuses move along    *)
(* fixed transitions; an agent starts one row at a time, only while it is   *)
(* below its capacity and only on a lane on which it has nothing active.    *)
(* A completed quick create may still be filed under the issue it made.     *)
(* One step may move many rows, because the service updates in bulk.        *)
(***************************************************************************)
EXTENDS Naturals, FiniteSets

CONSTANTS Task, Agent, Lane, Issue, Bare, Free, None, MaxConcurrent

VARIABLES status, place

abstractVars == <<status, place>>

Active == {"dispatched", "running", "waiting"}

Moves ==
    ({"absent"} \X {"deferred", "queued"})
    \cup ({"deferred"} \X {"queued", "failed", "cancelled"})
    \cup ({"queued"} \X {"dispatched", "failed", "cancelled"})
    \cup ({"dispatched"} \X {"queued", "waiting", "running", "failed", "cancelled"})
    \cup ({"waiting"} \X {"running", "failed", "cancelled"})
    \cup ({"running"} \X {"completed", "failed", "cancelled"})

Working(a) == {t \in Task : place[t].agent = a /\ status[t] \in Active}

MayStart(t) ==
    /\ Cardinality(Working(place[t].agent)) < MaxConcurrent[place[t].agent]
    /\ \A u \in Working(place[t].agent) : place[u].lane = place[t].lane => place[t].lane = Free

Starting == {t \in Task : status[t] = "queued" /\ status'[t] = "dispatched"}

Filed(t) ==
    /\ status[t] = "completed" /\ place[t].lane = Bare
    /\ \E i \in Issue : place'[t] = [place[t] EXCEPT !.lane = i]

Init ==
    /\ status = [t \in Task |-> "absent"]
    /\ place = [t \in Task |-> [agent |-> None, lane |-> None]]

Next ==
    /\ \A t \in Task : status'[t] # status[t] => <<status[t], status'[t]>> \in Moves
    /\ \A t \in Task : IF status'[t] # status[t] /\ status[t] = "absent"
                       THEN place'[t].agent \in Agent /\ place'[t].lane \in Lane
                       ELSE place'[t] = place[t] \/ Filed(t)
    /\ \A t \in Starting : MayStart(t) /\ Starting = {t}

Spec == Init /\ [][Next]_abstractVars
=============================================================================
