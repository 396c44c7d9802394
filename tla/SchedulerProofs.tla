--------------------------- MODULE SchedulerProofs ---------------------------
(***************************************************************************)
(* Proofs about Scheduler, for any number of runners, scopes and plans and  *)
(* any timeouts the job's validation accepts.                               *)
(***************************************************************************)
EXTENDS Scheduler, TLAPS

Runs == Scope \X Plan

(* A manager record that may follow in the state of the given clock.        *)
Sane(q, t) ==
    /\ q \in Manager /\ q.now <= t
    /\ q.pc \in {"claiming", "running", "reporting"} => q.scope \in Scope
    /\ q.pc \in {"running", "reporting"} => q.plan \in Plan

(* n's record becomes q and nobody else's changes.                          *)
Moves(n, q) == runner' = [runner EXCEPT ![n] = q] /\ Sane(q, clock) /\ clock' = clock

Engaged(n) == runner[n].pc \in {"running", "reporting"}

-----------------------------------------------------------------------------
LEMMA InitType == Init => SchedulerTypeOK
<1> SUFFICES ASSUME Init PROVE SchedulerTypeOK
  OBVIOUS
<1>1. NoExecution \in Execution /\ IdleManager \in Manager
  BY SchedulerAssumption DEF NoExecution, Execution, IdleManager, Manager
<1>2. IdleManager.pc = "idle" /\ IdleManager.now = 0
  BY DEF IdleManager
<1> QED
  BY <1>1, <1>2 DEF Init, SchedulerTypeOK

LEMMA SaneRunners ==
    ASSUME SchedulerTypeOK, NEW n \in Runner PROVE Sane(runner[n], clock)
BY DEF SchedulerTypeOK, Sane

LEMMA IdleIsSane == ASSUME clock \in Nat PROVE Sane(IdleManager, clock) /\ IdleManager.pc = "idle"
BY SchedulerAssumption DEF Sane, IdleManager, Manager

LEMMA PlansArePlans ==
    ASSUME NEW s, NEW now PROVE PlansForTick(s, now) \subseteq Plan
<1>1. Latest(Due(now)) \subseteq Plan
  BY DEF Latest, Due
<1>2. EveryPlan(s, now) \subseteq Plan
  <2>1. \A plans : First(plans) \subseteq plans
    BY DEF First
  <2> DEFINE recent == IF CatchUpWindow = 0 THEN Latest(Due(now))
                       ELSE {p \in Due(now) : p + CatchUpWindow >= now}
             start  == IF Known(s) = {} THEN Latest(Due(now))
                       ELSE {p \in Latest(Known(s)) : RetryEligible(s, p, now)} \cup After(s)
  <2>2. recent \subseteq Plan
    BY DEF Latest, Due
  <2>3. EveryPlan(s, now) = First(start \cap recent)
    BY Zenon DEF EveryPlan
  <2> QED
    BY <2>1, <2>2, <2>3
<1>3. AutopilotPlans(s, now) \subseteq Plan
  BY DEF AutopilotPlans, Latest, Known, After
<1> QED
  BY <1>1, <1>2, <1>3, SchedulerAssumption DEF PlansForTick

LEMMA MovesKeepsType ==
    ASSUME SchedulerTypeOK, NEW n \in Runner, NEW q, Moves(n, q),
           execution' \in [Scope \X Plan -> Execution]
    PROVE  /\ SchedulerTypeOK'
           /\ \A m \in Runner : runner'[m] = IF m = n THEN q ELSE runner[m]
<1>1. \A m \in Runner : runner'[m] = IF m = n THEN q ELSE runner[m]
  BY DEF SchedulerTypeOK, Moves
<1>2. runner' \in [Runner -> Manager]
  BY DEF SchedulerTypeOK, Moves, Sane
<1> QED
  BY <1>1, <1>2 DEF SchedulerTypeOK, Moves, Sane

-----------------------------------------------------------------------------
(* What a step may do to a row of the ledger and to a runner.               *)

(* The row was claimed at a time that has come.                             *)
Taken(e) ==
    \E now \in Nat :
        /\ now <= clock /\ Claimable(execution[e], now)
        /\ execution'[e] = Claimed(execution[e], now)

Swept(e) ==
    /\ execution[e].status = "RUNNING" /\ execution[e].staleAfter < clock
    /\ execution'[e] = [execution[e] EXCEPT !.status = "FAILED"]

(* Its runner sent a heartbeat.                                             *)
Beaten(e) ==
    \E n \in Runner :
        /\ runner[n].pc = "running" /\ Holds(n) /\ Run(n) = e
        /\ execution'[e] = [execution[e] EXCEPT !.staleAfter = clock + StaleTimeout]
        /\ runner'[n] = [runner[n] EXCEPT !.beat = clock]

(* Its runner wrote a result.                                               *)
Ended(e) ==
    \E n \in Runner :
        /\ Holds(n) /\ Run(n) = e /\ runner'[n].pc = "claiming"
        /\ execution'[e].lease = execution[e].lease
        /\ execution'[e].status \in {"SUCCESS", "FAILED"}

RowFollows(e) ==
    \/ execution'[e] = execution[e]
    \/ Taken(e) \/ Swept(e) \/ Beaten(e) \/ Ended(e)

(* The runner works on with the lease it has.                               *)
GoesOn(n) ==
    /\ Engaged(n) /\ Run(n)' = Run(n) /\ runner'[n].lease = runner[n].lease
    /\ runner'[n].pc = "running" =>
         /\ runner[n].pc = "running"
         /\ \/ runner'[n].beat = runner[n].beat
            \/ /\ runner'[n].beat = clock
               /\ execution'[Run(n)].staleAfter = clock + StaleTimeout

(* The runner, and no other, claimed a row.                                 *)
Wins(n) ==
    /\ runner[n].pc = "claiming" /\ runner'[n].pc = "running"
    /\ Run(n)' \in Runs
    /\ Claimable(execution[Run(n)'], runner[n].now)
    /\ execution'[Run(n)'] = Claimed(execution[Run(n)'], runner[n].now)
    /\ runner'[n].lease = execution'[Run(n)'].lease /\ runner'[n].beat = clock
    /\ \A m \in Runner \ {n} : runner'[m] = runner[m]

RunnerFollows(n) == ~Engaged(n)' \/ GoesOn(n) \/ Wins(n)

Shape ==
    /\ SchedulerTypeOK'
    /\ \A e \in Runs : RowFollows(e)
    /\ \A n \in Runner : RunnerFollows(n)

(* A runner that keeps its record follows.                                  *)
LEMMA RestFollows ==
    ASSUME NEW n \in Runner, runner'[n] = runner[n] PROVE RunnerFollows(n)
BY DEF RunnerFollows, GoesOn, Engaged, Run

(* A step of n that claims nothing, and its share of the shape.             *)
LEMMA QuietShape ==
    ASSUME SchedulerTypeOK, NEW n \in Runner, NEW q, Moves(n, q),
           execution' \in [Scope \X Plan -> Execution],
           \A e \in Runs : RowFollows(e),
           q.pc \in {"running", "reporting"} =>
             /\ Engaged(n) /\ q.scope = runner[n].scope /\ q.plan = runner[n].plan
             /\ q.lease = runner[n].lease /\ q.beat = runner[n].beat
             /\ q.pc = "running" => runner[n].pc = "running"
    PROVE  Shape
<1>1. /\ SchedulerTypeOK'
      /\ \A m \in Runner : runner'[m] = IF m = n THEN q ELSE runner[m]
  BY MovesKeepsType
<1>2. RunnerFollows(n)
  BY <1>1 DEF RunnerFollows, GoesOn, Engaged, Run
<1>3. \A m \in Runner : m # n => RunnerFollows(m)
  BY <1>1, RestFollows
<1> QED
  BY <1>1, <1>2, <1>3 DEF Shape

LEMMA SameRows ==
    ASSUME SchedulerTypeOK, execution' = execution
    PROVE  execution' \in [Scope \X Plan -> Execution] /\ \A e \in Runs : RowFollows(e)
BY DEF SchedulerTypeOK, RowFollows

-----------------------------------------------------------------------------
(* One lemma for each action.                                               *)

LEMMA IdleShape ==
    ASSUME SchedulerTypeOK, NEW n \in Runner, execution' = execution, clock' = clock,
           runner' = [runner EXCEPT ![n] = IdleManager]
    PROVE  Shape
<1>1. Moves(n, IdleManager) /\ IdleManager.pc = "idle"
  BY IdleIsSane DEF SchedulerTypeOK, Moves
<1>2. execution' \in [Scope \X Plan -> Execution] /\ \A e \in Runs : RowFollows(e)
  BY SameRows
<1> QED
  BY <1>1, <1>2, QuietShape

LEMMA RunOnceStep == ASSUME SchedulerTypeOK, NEW n \in Runner, RunOnce(n) PROVE Shape
<1> DEFINE q == [IdleManager EXCEPT !.pc = "sweeping", !.now = clock, !.scopes = Scope]
<1>1. /\ q \in Manager /\ q.now = clock /\ q.pc = "sweeping"
      /\ clock \in Nat
  BY DEF IdleManager, Manager, SchedulerTypeOK
<1>2. runner' = [runner EXCEPT ![n] = q] /\ clock' = clock /\ execution' = execution
  BY DEF RunOnce
<1> HIDE DEF q
<1>3. Moves(n, q)
  BY <1>1, <1>2 DEF Moves, Sane
<1>4. execution' \in [Scope \X Plan -> Execution] /\ \A e \in Runs : RowFollows(e)
  BY <1>2, SameRows
<1> QED
  BY <1>1, <1>3, <1>4, QuietShape

LEMMA PlanScopeStep ==
    ASSUME SchedulerTypeOK, NEW n \in Runner, NEW s \in Scope, PlanScope(n, s) PROVE Shape
<1>1. PICK plans \in SUBSET Plan :
         runner' = [runner EXCEPT ![n] =
            [runner[n] EXCEPT !.pc = "claiming", !.scopes = @ \ {s}, !.scope = s, !.plans = plans]]
  BY PlansArePlans DEF PlanScope
<1> DEFINE q == [runner[n] EXCEPT !.pc = "claiming", !.scopes = @ \ {s},
                                  !.scope = s, !.plans = plans]
<1>2. runner[n] \in Manager /\ runner[n].now <= clock
  BY DEF SchedulerTypeOK
<1>3. /\ q \in Manager /\ q.now = runner[n].now /\ q.pc = "claiming" /\ q.scope = s
  BY <1>2 DEF Manager
<1>4. runner' = [runner EXCEPT ![n] = q] /\ clock' = clock /\ execution' = execution
  BY <1>1 DEF PlanScope, SchedulerTypeOK
<1> HIDE DEF q
<1>5. Moves(n, q)
  BY <1>2, <1>3, <1>4 DEF Moves, Sane
<1>6. execution' \in [Scope \X Plan -> Execution] /\ \A e \in Runs : RowFollows(e)
  BY <1>4, SameRows
<1> QED
  BY <1>3, <1>5, <1>6, QuietShape

(* The record of n when nothing but its pc changes.                         *)
LEMMA PcShape ==
    ASSUME SchedulerTypeOK, NEW n \in Runner, NEW pc \in {"planning", "claiming"},
           runner' = [runner EXCEPT ![n].pc = pc], clock' = clock,
           execution' \in [Scope \X Plan -> Execution],
           \A e \in Runs : RowFollows(e),
           pc = "claiming" => runner[n].scope \in Scope
    PROVE  Shape
<1> DEFINE q == [runner[n] EXCEPT !.pc = pc]
<1>1. runner[n] \in Manager /\ runner[n].now <= clock
  BY DEF SchedulerTypeOK
<1>2. q \in Manager /\ q.now = runner[n].now /\ q.pc = pc /\ q.scope = runner[n].scope
  BY <1>1 DEF Manager
<1>3. runner' = [runner EXCEPT ![n] = q]
  BY DEF SchedulerTypeOK
<1> HIDE DEF q
<1>4. Moves(n, q)
  BY <1>1, <1>2, <1>3 DEF Moves, Sane
<1> QED
  BY <1>2, <1>4, QuietShape

LEMMA MarkStaleStep == ASSUME SchedulerTypeOK, NEW n \in Runner, MarkStale(n) PROVE Shape
<1>1. /\ runner[n].now \in Nat /\ clock \in Nat /\ runner[n].now <= clock
  BY DEF SchedulerTypeOK, Manager
<1>2. CASE UNCHANGED execution
  BY <1>2, SameRows, PcShape DEF MarkStale
<1>3. CASE execution' = [e \in Scope \X Plan |->
                          IF Stale(execution[e], runner[n].now)
                          THEN [execution[e] EXCEPT !.status = "FAILED"]
                          ELSE execution[e]]
  <2>1. execution' \in [Scope \X Plan -> Execution]
    BY <1>3 DEF SchedulerTypeOK, Execution
  <2>2. \A e \in Runs : RowFollows(e)
    <3> TAKE e \in Runs
    <3>1. execution[e] \in Execution
      BY DEF SchedulerTypeOK, Runs
    <3> QED
      BY <1>1, <1>3, <3>1 DEF RowFollows, Swept, Stale, Runs, Execution
  <2> QED
    BY <2>1, <2>2, PcShape DEF MarkStale
<1> QED
  BY <1>2, <1>3 DEF MarkStale

LEMMA ScopeDoneStep == ASSUME SchedulerTypeOK, NEW n \in Runner, ScopeDone(n) PROVE Shape
BY SameRows, PcShape DEF ScopeDone

LEMMA ReportIgnoredStep ==
    ASSUME SchedulerTypeOK, NEW n \in Runner, ReportIgnored(n) PROVE Shape
BY SameRows, PcShape DEF ReportIgnored, Reported, SchedulerTypeOK

LEMMA HandlerEndsStep ==
    ASSUME SchedulerTypeOK, NEW n \in Runner, NEW ok \in BOOLEAN, HandlerEnds(n, ok) PROVE Shape
<1> DEFINE q == [runner[n] EXCEPT !.pc = "reporting", !.ok = ok, !.beating = FALSE, !.mark = clock]
<1>1. /\ runner[n] \in Manager /\ runner[n].now <= clock /\ runner[n].pc = "running"
      /\ runner[n].scope \in Scope /\ runner[n].plan \in Plan /\ clock \in Nat
  BY DEF SchedulerTypeOK, HandlerEnds
<1>2. /\ q \in Manager /\ q.now = runner[n].now /\ q.pc = "reporting"
      /\ q.scope = runner[n].scope /\ q.plan = runner[n].plan
      /\ q.lease = runner[n].lease /\ q.beat = runner[n].beat
  BY <1>1 DEF Manager
<1>3. runner' = [runner EXCEPT ![n] = q] /\ clock' = clock /\ execution' = execution
  BY DEF HandlerEnds, SchedulerTypeOK
<1> HIDE DEF q
<1>4. Moves(n, q) /\ Engaged(n)
  BY <1>1, <1>2, <1>3 DEF Moves, Sane, Engaged
<1>5. execution' \in [Scope \X Plan -> Execution] /\ \A e \in Runs : RowFollows(e)
  BY <1>3, SameRows
<1> QED
  BY <1>2, <1>4, <1>5, QuietShape

(* The row a claim leaves behind.                                           *)
LEMMA ClaimedRow ==
    ASSUME NEW x \in Execution, NEW now \in Nat
    PROVE  /\ Claimed(x, now) \in Execution
           /\ Claimed(x, now).status = "RUNNING" /\ Claimed(x, now).attempt = x.attempt + 1
           /\ Claimed(x, now).lease = x.lease + 1
           /\ Claimed(x, now).staleAfter = now + StaleTimeout
<1> DEFINE later == now + StaleTimeout
           q == [x EXCEPT !.status = "RUNNING", !.attempt = x.attempt + 1,
                          !.lease = x.lease + 1, !.staleAfter = later, !.retryAt = 0]
<1>1. Claimed(x, now) = q
  BY DEF Claimed
<1>2. later \in Nat
  BY SchedulerAssumption
<1> HIDE DEF later
<1>3. x.attempt + 1 \in Nat /\ x.lease + 1 \in Nat
  BY DEF Execution
<1>4. q \in Execution
  BY <1>2, <1>3 DEF Execution
<1>5. /\ q.status = "RUNNING" /\ q.attempt = x.attempt + 1
      /\ q.lease = x.lease + 1 /\ q.staleAfter = later
  BY DEF Execution
<1> HIDE DEF q
<1>6. q.staleAfter = now + StaleTimeout
  BY <1>5 DEF later
<1> QED
  BY <1>1, <1>4, <1>5, <1>6

LEMMA TakenRows ==
    ASSUME SchedulerTypeOK, NEW e \in Runs, NEW now \in Nat, now <= clock,
           Claimable(execution[e], now),
           execution' = [execution EXCEPT ![e] = Claimed(@, now)]
    PROVE  /\ execution' \in [Scope \X Plan -> Execution]
           /\ execution'[e] = Claimed(execution[e], now)
           /\ \A f \in Runs : RowFollows(f)
<1>1. execution[e] \in Execution /\ Claimed(execution[e], now) \in Execution
  BY ClaimedRow DEF SchedulerTypeOK, Runs
<1>2. \A f \in Runs : execution'[f] = IF f = e THEN Claimed(execution[e], now) ELSE execution[f]
  BY DEF SchedulerTypeOK, Runs
<1> QED
  BY <1>1, <1>2 DEF SchedulerTypeOK, RowFollows, Taken, Runs

LEMMA ClaimStep ==
    ASSUME SchedulerTypeOK, NEW n \in Runner, NEW p \in Plan, Claim(n, p) PROVE Shape
<1> DEFINE e == <<runner[n].scope, p>>
           q == [runner[n] EXCEPT !.pc = "running", !.plans = @ \ {p}, !.plan = p,
                                  !.lease = execution'[e].lease,
                                  !.attempt = execution'[e].attempt,
                                  !.beating = TRUE, !.beat = clock, !.mark = clock]
<1>1. /\ runner[n] \in Manager /\ runner[n].now \in Nat /\ runner[n].now <= clock
      /\ runner[n].pc = "claiming" /\ runner[n].scope \in Scope /\ e \in Runs
      /\ clock \in Nat /\ Plan \subseteq Nat
  BY SchedulerAssumption DEF SchedulerTypeOK, Claim, Manager, Runs
<1>2. /\ Claimable(execution[e], runner[n].now)
      /\ execution' = [execution EXCEPT ![e] = Claimed(@, runner[n].now)]
      /\ runner' = [runner EXCEPT ![n] = q] /\ clock' = clock
  BY DEF Claim
<1>3. /\ execution' \in [Scope \X Plan -> Execution]
      /\ execution'[e] = Claimed(execution[e], runner[n].now)
      /\ \A f \in Runs : RowFollows(f)
  BY <1>1, <1>2, TakenRows
<1>4. execution'[e].lease \in Nat /\ execution'[e].attempt \in Nat
  BY <1>1, <1>3 DEF Execution, Runs
<1>5. /\ q \in Manager /\ q.now = runner[n].now /\ q.pc = "running" /\ q.plan = p
      /\ q.scope = runner[n].scope /\ q.lease = execution'[e].lease /\ q.beat = clock
  BY <1>1, <1>4 DEF Manager
<1> HIDE DEF q
<1>6. Moves(n, q)
  BY <1>1, <1>2, <1>5 DEF Moves, Sane
<1>7. /\ SchedulerTypeOK'
      /\ \A m \in Runner : runner'[m] = IF m = n THEN q ELSE runner[m]
  BY <1>3, <1>6, MovesKeepsType
<1>8. Run(n)' = e
  BY <1>5, <1>7 DEF Run
<1>9. RunnerFollows(n)
  BY <1>1, <1>2, <1>3, <1>5, <1>7, <1>8 DEF RunnerFollows, Wins
<1>10. \A m \in Runner : m # n => RunnerFollows(m)
  BY <1>7, RestFollows
<1> QED
  BY <1>3, <1>7, <1>9, <1>10 DEF Shape

LEMMA SkipPlanStep ==
    ASSUME SchedulerTypeOK, NEW n \in Runner, NEW p \in Plan, SkipPlan(n, p) PROVE Shape
<1> DEFINE e == <<runner[n].scope, p>>
           q == [runner[n] EXCEPT !.plans = @ \ {p}]
<1>1. /\ runner[n] \in Manager /\ runner[n].now \in Nat /\ runner[n].now <= clock
      /\ runner[n].pc = "claiming" /\ runner[n].scope \in Scope /\ e \in Runs
  BY DEF SchedulerTypeOK, SkipPlan, Manager, Runs
<1>2. /\ q \in Manager /\ q.now = runner[n].now /\ q.pc = "claiming"
      /\ q.scope = runner[n].scope
  BY <1>1 DEF Manager
<1>3. runner' = [runner EXCEPT ![n] = q] /\ clock' = clock
  BY DEF SkipPlan, SchedulerTypeOK
<1>4. execution' \in [Scope \X Plan -> Execution] /\ \A f \in Runs : RowFollows(f)
  <2>1. CASE UNCHANGED execution
    BY <2>1, SameRows
  <2>2. CASE /\ Claimable(execution[e], runner[n].now)
             /\ execution' = [execution EXCEPT ![e] = Claimed(@, runner[n].now)]
    BY <1>1, <2>2, TakenRows
  <2> QED
    BY <2>1, <2>2 DEF SkipPlan
<1> HIDE DEF q
<1>5. Moves(n, q)
  BY <1>1, <1>2, <1>3 DEF Moves, Sane
<1> QED
  BY <1>2, <1>4, <1>5, QuietShape

LEMMA HeartbeatStep == ASSUME SchedulerTypeOK, NEW n \in Runner, Heartbeat(n) PROVE Shape
<1>1. /\ runner[n] \in Manager /\ runner[n].now <= clock /\ runner[n].pc = "running"
      /\ runner[n].scope \in Scope /\ runner[n].plan \in Plan /\ Run(n) \in Runs
      /\ clock \in Nat /\ Engaged(n) /\ clock' = clock
  BY DEF SchedulerTypeOK, Heartbeat, Run, Runs, Engaged
<1>2. CASE Holds(n)
  <2> DEFINE q == [runner[n] EXCEPT !.beat = clock]
             x == [execution[Run(n)] EXCEPT !.staleAfter = clock + StaleTimeout]
  <2>1. /\ q \in Manager /\ q.now = runner[n].now /\ q.pc = "running"
        /\ q.scope = runner[n].scope /\ q.plan = runner[n].plan
        /\ q.lease = runner[n].lease /\ q.beat = clock
    BY <1>1 DEF Manager
  <2>2. execution[Run(n)] \in Execution /\ x \in Execution /\ x.staleAfter = clock + StaleTimeout
    BY <1>1, SchedulerAssumption DEF SchedulerTypeOK, Execution, Runs
  <2>3. /\ runner' = [runner EXCEPT ![n] = q]
        /\ execution' = [execution EXCEPT ![Run(n)] = x]
    BY <1>2 DEF Heartbeat, SchedulerTypeOK
  <2>4. /\ execution' \in [Scope \X Plan -> Execution]
        /\ \A f \in Runs : execution'[f] = IF f = Run(n) THEN x ELSE execution[f]
    BY <1>1, <2>2, <2>3 DEF SchedulerTypeOK, Runs
  <2>5. Moves(n, q)
    BY <1>1, <2>1, <2>3 DEF Moves, Sane
  <2>6. /\ SchedulerTypeOK'
        /\ \A m \in Runner : runner'[m] = IF m = n THEN q ELSE runner[m]
    BY <2>4, <2>5, MovesKeepsType
  <2>7. \A f \in Runs : RowFollows(f)
    <3>1. Beaten(Run(n))
      BY <1>1, <1>2, <2>4, <2>6 DEF Beaten
    <3> QED
      BY <2>4, <3>1 DEF RowFollows
  <2> HIDE DEF q
  <2>8. RunnerFollows(n)
    <3>1. Run(n)' = Run(n)
      BY <2>1, <2>6 DEF Run
    <3> QED
      BY <1>1, <2>1, <2>2, <2>4, <2>6, <3>1 DEF RunnerFollows, GoesOn
  <2>9. \A m \in Runner : m # n => RunnerFollows(m)
    BY <2>6, RestFollows
  <2> QED
    BY <2>6, <2>7, <2>8, <2>9 DEF Shape
<1>3. CASE ~Holds(n)
  <2> DEFINE q == [runner[n] EXCEPT !.beating = FALSE]
  <2>1. /\ q \in Manager /\ q.now = runner[n].now /\ q.pc = "running"
        /\ q.scope = runner[n].scope /\ q.plan = runner[n].plan
        /\ q.lease = runner[n].lease /\ q.beat = runner[n].beat
    BY <1>1 DEF Manager
  <2>2. runner' = [runner EXCEPT ![n] = q] /\ execution' = execution
    BY <1>3 DEF Heartbeat, SchedulerTypeOK
  <2> HIDE DEF q
  <2>3. Moves(n, q)
    BY <1>1, <2>1, <2>2 DEF Moves, Sane
  <2>4. execution' \in [Scope \X Plan -> Execution] /\ \A e \in Runs : RowFollows(e)
    BY <2>2, SameRows
  <2> QED
    BY <1>1, <2>1, <2>3, <2>4, QuietShape
<1> QED
  BY <1>2, <1>3

(* A result written by the runner that holds the row.                       *)
LEMMA EndedRows ==
    ASSUME SchedulerTypeOK, NEW n \in Runner, Holds(n), runner[n].pc = "reporting",
           Reported(n), clock' = clock, NEW x \in Execution,
           x.lease = execution[Run(n)].lease, x.status \in {"SUCCESS", "FAILED"},
           execution' = [execution EXCEPT ![Run(n)] = x]
    PROVE  Shape
<1>1. Run(n) \in Runs /\ runner[n].scope \in Scope
  BY DEF SchedulerTypeOK, Run, Runs
<1>2. /\ execution' \in [Scope \X Plan -> Execution]
      /\ \A f \in Runs : execution'[f] = IF f = Run(n) THEN x ELSE execution[f]
  BY <1>1 DEF SchedulerTypeOK, Runs
<1>3. runner'[n].pc = "claiming"
  BY DEF Reported, SchedulerTypeOK, Manager
<1>4. Ended(Run(n))
  BY <1>1, <1>2, <1>3 DEF Ended
<1>5. \A f \in Runs : RowFollows(f)
  BY <1>2, <1>4 DEF RowFollows
<1> QED
  BY <1>1, <1>2, <1>5, PcShape DEF Reported

LEMMA FinishSuccessStep ==
    ASSUME SchedulerTypeOK, NEW n \in Runner, FinishSuccess(n) PROVE Shape
<1> DEFINE x == [execution[Run(n)] EXCEPT !.status = "SUCCESS"]
<1>1. execution[Run(n)] \in Execution
  BY DEF SchedulerTypeOK, FinishSuccess, Run
<1>2. x \in Execution /\ x.lease = execution[Run(n)].lease /\ x.status = "SUCCESS"
  BY <1>1 DEF Execution
<1>3. execution' = [execution EXCEPT ![Run(n)] = x]
  BY DEF FinishSuccess, SchedulerTypeOK
<1> QED
  BY <1>2, <1>3, EndedRows DEF FinishSuccess

LEMMA FinishFailureStep ==
    ASSUME SchedulerTypeOK, NEW n \in Runner, FinishFailure(n) PROVE Shape
<1> DEFINE r == IF runner[n].attempt < MaxAttempts THEN runner[n].mark + RetryDelay ELSE 0
           x == [execution[Run(n)] EXCEPT !.status = "FAILED", !.retryAt = r]
<1>1. execution[Run(n)] \in Execution
  BY DEF SchedulerTypeOK, FinishFailure, Run
<1>2. r \in Nat
  BY SchedulerAssumption DEF SchedulerTypeOK, Manager
<1>3. execution' = [execution EXCEPT ![Run(n)] = x]
  BY DEF FinishFailure, SchedulerTypeOK
<1> HIDE DEF r
<1>4. x \in Execution /\ x.lease = execution[Run(n)].lease /\ x.status = "FAILED"
  BY <1>1, <1>2 DEF Execution
<1> QED
  BY <1>3, <1>4, EndedRows DEF FinishFailure

LEMMA PassTimeStep == ASSUME SchedulerTypeOK, PassTime PROVE Shape
<1>1. /\ clock \in Nat /\ clock' = clock + 1 /\ execution' = execution /\ runner' = runner
      /\ \A n \in Runner : runner[n] \in Manager
  BY DEF PassTime, SchedulerTypeOK
<1>2. SchedulerTypeOK'
  BY <1>1 DEF SchedulerTypeOK, Manager
<1> QED
  BY <1>1, <1>2, SameRows, RestFollows DEF Shape

LEMMA StepShape == ASSUME SchedulerTypeOK, [Next]_vars PROVE Shape
<1>1. CASE UNCHANGED vars
  <2>1. SchedulerTypeOK'
    BY <1>1 DEF SchedulerTypeOK, vars
  <2> QED
    BY <1>1, <2>1, SameRows, RestFollows DEF Shape, vars
<1>2. CASE PassTime
  BY <1>2, PassTimeStep
<1>3. ASSUME NEW n \in Runner, RunnerStep(n) PROVE Shape
  <2>1. CASE TickDone(n) \/ Crash(n)
    BY <2>1, IdleShape DEF TickDone, Crash
  <2> QED
    BY <1>3, <2>1, RunOnceStep, MarkStaleStep, ScopeDoneStep, PlanScopeStep, ClaimStep,
       SkipPlanStep, HeartbeatStep, HandlerEndsStep, FinishSuccessStep, FinishFailureStep,
       ReportIgnoredStep DEF RunnerStep
<1> QED
  BY <1>1, <1>2, <1>3 DEF Next

-----------------------------------------------------------------------------
(* No runner holds a lease its row has not come to, no lease is held twice. *)
LeasesGiven ==
    \A n \in Runner : Engaged(n) => runner[n].lease <= execution[Run(n)].lease

LeaseInv == SchedulerTypeOK /\ LeasesGiven /\ LeaseUnique

LEMMA RowTypes ==
    ASSUME SchedulerTypeOK
    PROVE  /\ \A e \in Runs : execution[e] \in Execution /\ execution[e].lease \in Nat
           /\ \A n \in Runner : Engaged(n) => Run(n) \in Runs /\ runner[n].lease \in Nat
BY DEF SchedulerTypeOK, Execution, Manager, Runs, Engaged, Run

(* The lease of a row only grows, and grows when it is claimed.             *)
LEMMA LeasesGrow ==
    ASSUME SchedulerTypeOK, NEW e \in Runs, RowFollows(e)
    PROVE  execution[e].lease <= execution'[e].lease
<1>1. execution[e] \in Execution /\ execution[e].lease \in Nat
  BY RowTypes
<1>2. CASE Taken(e)
  <2>1. PICK now \in Nat : execution'[e] = Claimed(execution[e], now)
    BY <1>2 DEF Taken
  <2>2. Claimed(execution[e], now).lease = execution[e].lease + 1
    BY <1>1, ClaimedRow
  <2> QED
    BY <1>1, <2>1, <2>2
<1>3. CASE Swept(e) \/ Beaten(e)
  <2>1. CASE Swept(e)
    BY <1>1, <2>1 DEF Swept, Execution
  <2>2. CASE Beaten(e)
    <3>1. execution'[e] = [execution[e] EXCEPT !.staleAfter = clock + StaleTimeout]
      BY <2>2 DEF Beaten
    <3> QED
      BY <1>1, <3>1 DEF Execution
  <2> QED
    BY <1>3, <2>1, <2>2
<1>4. CASE Ended(e) \/ execution'[e] = execution[e]
  BY <1>1, <1>4 DEF Ended
<1> QED
  BY <1>2, <1>3, <1>4 DEF RowFollows

LEMMA LeaseStep == ASSUME LeaseInv, [Next]_vars PROVE LeaseInv'
<1>1. SchedulerTypeOK /\ LeasesGiven /\ LeaseUnique /\ Shape
  BY StepShape DEF LeaseInv
<1>2. SchedulerTypeOK'
  BY <1>1 DEF Shape
<1>3. \A n \in Runner : Wins(n) =>
         /\ runner'[n].lease = execution'[Run(n)'].lease
         /\ execution'[Run(n)'].lease = execution[Run(n)'].lease + 1
         /\ Run(n)' \in Runs
  <2> SUFFICES ASSUME NEW n \in Runner, Wins(n)
               PROVE  execution'[Run(n)'].lease = execution[Run(n)'].lease + 1
    BY DEF Wins
  <2>1. Run(n)' \in Runs /\ execution'[Run(n)'] = Claimed(execution[Run(n)'], runner[n].now)
    BY DEF Wins
  <2>2. runner[n].now \in Nat
    BY <1>1 DEF SchedulerTypeOK, Manager
  <2>3. execution[Run(n)'] \in Execution
    BY <1>1, <2>1, RowTypes
  <2> QED
    BY <2>1, <2>2, <2>3, ClaimedRow
<1>4. LeasesGiven'
  <2> SUFFICES ASSUME NEW n \in Runner, Engaged(n)'
               PROVE  runner'[n].lease <= execution'[Run(n)'].lease
    BY DEF LeasesGiven
  <2>1. CASE GoesOn(n)
    <3>1. /\ Engaged(n) /\ Run(n)' = Run(n) /\ runner'[n].lease = runner[n].lease
      BY <2>1 DEF GoesOn
    <3>2. /\ Run(n) \in Runs /\ runner[n].lease \in Nat
          /\ runner[n].lease <= execution[Run(n)].lease
      BY <1>1, <3>1, RowTypes DEF LeasesGiven
    <3>3. execution[Run(n)].lease <= execution'[Run(n)].lease
      BY <1>1, <3>2, LeasesGrow DEF Shape
    <3>4. execution[Run(n)].lease \in Nat /\ execution'[Run(n)].lease \in Nat
      BY <1>1, <1>2, <3>2 DEF SchedulerTypeOK, Execution, Runs
    <3> QED
      BY <3>1, <3>2, <3>3, <3>4
  <2>2. CASE Wins(n)
    <3>1. execution'[Run(n)'].lease \in Nat
      BY <1>2, <1>3, <2>2 DEF SchedulerTypeOK, Execution, Runs
    <3> QED
      BY <1>3, <2>2, <3>1
  <2> QED
    BY <1>1, <2>1, <2>2 DEF Shape, RunnerFollows
<1>5. LeaseUnique'
  <2> SUFFICES ASSUME NEW n \in Runner, NEW m \in Runner, Engaged(n)', Engaged(m)',
                      Run(n)' = Run(m)', runner'[n].lease = runner'[m].lease, n # m
               PROVE  FALSE
    BY DEF LeaseUnique, Engaged
  <2>1. ASSUME NEW w \in Runner, NEW o \in Runner, w # o, Wins(w), Engaged(o)',
               Run(w)' = Run(o)', runner'[w].lease = runner'[o].lease
        PROVE  FALSE
    <3>1. runner'[o] = runner[o]
      BY <2>1 DEF Wins
    <3>2. Engaged(o) /\ Run(o)' = Run(o)
      BY <2>1, <3>1 DEF Engaged, Run
    <3>3. runner[o].lease <= execution[Run(o)].lease /\ runner[o].lease \in Nat
      BY <1>1, <3>2, RowTypes DEF LeasesGiven
    <3>4. execution[Run(o)].lease \in Nat
      BY <1>1, <3>2, RowTypes
    <3>5. runner'[w].lease = execution[Run(o)].lease + 1
      BY <1>3, <2>1, <3>2
    <3> QED
      BY <2>1, <3>1, <3>3, <3>4, <3>5
  <2>2. ~Wins(n) /\ ~Wins(m)
    BY <2>1
  <2>3. GoesOn(n) /\ GoesOn(m)
    BY <1>1, <2>2 DEF Shape, RunnerFollows
  <2> QED
    BY <1>1, <2>3 DEF GoesOn, LeaseUnique, Engaged
<1> QED
  BY <1>2, <1>4, <1>5 DEF LeaseInv

LEMMA InitLeases == Init => LeaseInv
<1> SUFFICES ASSUME Init PROVE LeaseInv
  OBVIOUS
<1>1. \A n \in Runner : runner[n].pc = "idle"
  BY DEF Init, IdleManager
<1> QED
  BY <1>1, InitType DEF LeaseInv, LeasesGiven, LeaseUnique, Engaged

LEMMA LeaseInvariant == Spec => []LeaseInv
BY InitLeases, LeaseStep, PTL DEF Spec

(* Every variable of the scheduler keeps its type.                          *)
THEOREM SchedulerTypeCorrect == Spec => []SchedulerTypeOK
<1>1. LeaseInv => SchedulerTypeOK
  BY DEF LeaseInv
<1> QED
  BY <1>1, LeaseInvariant, PTL

(* However many replicas steal from each other, no two of them hold the     *)
(* same lease, so that a late result is told from the one that counts.      *)
THEOREM LeaseSafe == Spec => []LeaseUnique
<1>1. LeaseInv => LeaseUnique
  BY DEF LeaseInv
<1> QED
  BY <1>1, LeaseInvariant, PTL

-----------------------------------------------------------------------------
(* A row that succeeded is never written again.                             *)
LEMMA SuccessStep ==
    ASSUME SchedulerTypeOK, [Next]_vars, NEW e \in Runs, execution[e].status = "SUCCESS"
    PROVE  execution'[e] = execution[e]
<1>1. RowFollows(e)
  BY StepShape DEF Shape
<1> QED
  BY <1>1 DEF RowFollows, Taken, Claimable, Stale, Swept, Beaten, Ended, Holds

THEOREM SuccessStands == Spec => SuccessIsFinal
<1>1. SchedulerTypeOK /\ [Next]_vars
      => [\A e \in Scope \X Plan :
            execution[e].status = "SUCCESS" => execution'[e] = execution[e]]_vars
  BY SuccessStep DEF Runs
<1> QED
  BY <1>1, SchedulerTypeCorrect, PTL DEF Spec, SuccessIsFinal

(* A row is taken from its runner only when its lease ran out.              *)
LEMMA LossStep ==
    ASSUME LeaseInv, [Next]_vars, NEW n \in Runner,
           runner[n].pc = "running", Holds(n), runner'[n].pc = "running", ~Holds(n)'
    PROVE  execution[Run(n)].staleAfter < clock
<1>1. SchedulerTypeOK /\ LeaseUnique /\ Shape
  BY StepShape DEF LeaseInv
<1>2. GoesOn(n)
  BY <1>1 DEF Shape, RunnerFollows, Wins, Engaged
<1>3. Run(n)' = Run(n) /\ runner'[n].lease = runner[n].lease
  BY <1>2 DEF GoesOn
<1>4. Run(n) \in Runs /\ execution[Run(n)] \in Execution
  BY <1>1, RowTypes DEF Engaged
<1>5. RowFollows(Run(n))
  BY <1>1, <1>4 DEF Shape
<1>6. CASE execution'[Run(n)] = execution[Run(n)]
  BY <1>3, <1>6 DEF Holds
<1>7. CASE Swept(Run(n))
  BY <1>7 DEF Swept
<1>8. CASE Beaten(Run(n))
  BY <1>3, <1>4, <1>8 DEF Holds, Beaten, Execution
<1>9. CASE Ended(Run(n))
  BY <1>1, <1>9 DEF Ended, Holds, LeaseUnique
<1>10. CASE Taken(Run(n))
  <2>1. PICK now \in Nat : now <= clock /\ Claimable(execution[Run(n)], now)
    BY <1>10 DEF Taken
  <2>2. execution[Run(n)].staleAfter < now
    BY <2>1 DEF Claimable, Stale, Holds
  <2> QED
    BY <1>1, <1>4, <2>1, <2>2 DEF SchedulerTypeOK, Execution
<1> QED
  BY <1>5, <1>6, <1>7, <1>8, <1>9, <1>10 DEF RowFollows

(* Ticks that work with an old time take no lease that still runs.          *)
THEOREM LossIsLate == Spec => LostOnlyWhenStale
<1>1. LeaseInv /\ [Next]_vars
      => [\A n \in Runner :
            /\ runner[n].pc = "running" /\ Holds(n)
            /\ runner'[n].pc = "running" /\ ~Holds(n)'
            => execution[Run(n)].staleAfter < clock]_vars
  BY LossStep
<1> QED
  BY <1>1, LeaseInvariant, PTL DEF Spec, LostOnlyWhenStale

-----------------------------------------------------------------------------
(* With timely heartbeats and prompt claims a runner holds its lease, and   *)
(* the lease outlives its next heartbeat.                                   *)
TimelyInv ==
    /\ LeaseInv
    /\ \A n \in Runner : runner[n].pc = "running" =>
         /\ Holds(n)
         /\ clock <= runner[n].beat + HeartbeatInterval
         /\ runner[n].beat + HeartbeatInterval <= execution[Run(n)].staleAfter

TimelyNext == Next /\ HeartbeatsTimely /\ ClaimsPrompt

LEMMA ClockStep ==
    ASSUME [Next]_vars, SchedulerTypeOK
    PROVE  clock' = clock \/ (PassTime /\ clock' = clock + 1 /\ runner' = runner)
BY DEF Next, RunnerStep, PassTime, RunOnce, MarkStale, TickDone, ScopeDone, PlanScope, Claim,
       SkipPlan, Heartbeat, HandlerEnds, FinishSuccess, FinishFailure, ReportIgnored, Crash, vars

(* A runner that goes on keeps its row, and only its own heartbeat moves    *)
(* the end of its lease.                                                    *)
LEMMA KeptRow ==
    ASSUME TimelyInv, [Next]_vars, NEW n \in Runner, GoesOn(n), runner'[n].pc = "running"
    PROVE  /\ Holds(n)'
           /\ \/ execution'[Run(n)].staleAfter = execution[Run(n)].staleAfter
              \/ /\ runner'[n].beat = clock
                 /\ execution'[Run(n)].staleAfter = clock + StaleTimeout
<1>1. LeaseInv /\ SchedulerTypeOK /\ LeaseUnique /\ Shape
  BY StepShape DEF TimelyInv, LeaseInv
<1>2. /\ runner[n].pc = "running" /\ Holds(n) /\ Run(n) \in Runs
      /\ clock <= runner[n].beat + HeartbeatInterval
      /\ runner[n].beat + HeartbeatInterval <= execution[Run(n)].staleAfter
  BY <1>1, RowTypes DEF GoesOn, TimelyInv
<1>3. /\ execution[Run(n)] \in Execution /\ execution[Run(n)].staleAfter \in Nat
      /\ clock \in Nat /\ runner[n].beat \in Nat
  BY <1>1, <1>2 DEF SchedulerTypeOK, Execution, Manager, Runs
<1>4. clock <= execution[Run(n)].staleAfter
  BY <1>2, <1>3, SchedulerAssumption
<1>5. Holds(n)'
  BY <1>1, <1>2, <1>3, <1>4, LossStep
<1>6. RowFollows(Run(n))
  BY <1>1, <1>2 DEF Shape
<1>7. ~Taken(Run(n)) /\ ~Swept(Run(n))
  BY <1>2, <1>3, <1>4 DEF Taken, Claimable, Stale, Swept, Holds
<1>8. CASE Beaten(Run(n))
  <2>1. PICK m \in Runner :
          /\ runner[m].pc = "running" /\ Holds(m) /\ Run(m) = Run(n)
          /\ execution'[Run(n)] = [execution[Run(n)] EXCEPT !.staleAfter = clock + StaleTimeout]
          /\ runner'[m] = [runner[m] EXCEPT !.beat = clock]
    BY <1>8 DEF Beaten
  <2>2. m = n
    BY <1>1, <1>2, <2>1 DEF LeaseUnique, Holds
  <2>3. runner'[n].beat = clock
    BY <1>1, <2>1, <2>2 DEF SchedulerTypeOK, Manager
  <2>4. execution'[Run(n)].staleAfter = clock + StaleTimeout
    BY <1>3, <2>1 DEF Execution
  <2> QED
    BY <1>5, <2>3, <2>4
<1>9. ~Ended(Run(n))
  <2>1. SUFFICES ASSUME NEW m \in Runner, Holds(m), Run(m) = Run(n), runner'[m].pc = "claiming"
                 PROVE  FALSE
    BY DEF Ended
  <2>2. m = n
    BY <1>1, <1>2, <2>1 DEF LeaseUnique, Holds
  <2> QED
    BY <2>1, <2>2
<1> QED
  BY <1>5, <1>6, <1>7, <1>8, <1>9 DEF RowFollows

LEMMA TimelyStep == ASSUME TimelyInv, [TimelyNext]_vars PROVE TimelyInv'
<1>1. [Next]_vars /\ LeaseInv /\ SchedulerTypeOK /\ Shape
  BY StepShape DEF TimelyInv, LeaseInv, TimelyNext
<1>2. LeaseInv'
  BY <1>1, LeaseStep
<1>3. clock \in Nat /\ (clock' = clock \/ (clock' = clock + 1 /\ runner' = runner))
  BY <1>1, ClockStep DEF SchedulerTypeOK
<1> SUFFICES ASSUME NEW n \in Runner, runner'[n].pc = "running"
             PROVE  /\ Holds(n)'
                    /\ clock' <= runner'[n].beat + HeartbeatInterval
                    /\ runner'[n].beat + HeartbeatInterval <= execution'[Run(n)'].staleAfter
  BY <1>2 DEF TimelyInv
<1>4. CASE GoesOn(n)
  <2>1. /\ runner[n].pc = "running" /\ Run(n)' = Run(n)
        /\ clock <= runner[n].beat + HeartbeatInterval
        /\ runner[n].beat + HeartbeatInterval <= execution[Run(n)].staleAfter
        /\ runner[n].beat \in Nat
    BY <1>1, <1>4 DEF GoesOn, TimelyInv, SchedulerTypeOK, Manager
  <2>2. clock' # clock => clock < runner[n].beat + HeartbeatInterval
    BY <1>1, <2>1 DEF TimelyNext, HeartbeatsTimely, vars
  <2>3. /\ Holds(n)'
        /\ \/ execution'[Run(n)].staleAfter = execution[Run(n)].staleAfter
           \/ /\ runner'[n].beat = clock
              /\ execution'[Run(n)].staleAfter = clock + StaleTimeout
    BY <1>1, <1>4, KeptRow
  <2>4. \/ runner'[n].beat = runner[n].beat
        \/ /\ runner'[n].beat = clock
           /\ execution'[Run(n)].staleAfter = clock + StaleTimeout
    BY <1>4 DEF GoesOn
  <2>5. CASE runner'[n].beat = clock /\ execution'[Run(n)].staleAfter = clock + StaleTimeout
    BY <1>3, <2>1, <2>3, <2>5, SchedulerAssumption
  <2>6. CASE /\ runner'[n].beat = runner[n].beat
             /\ execution'[Run(n)].staleAfter = execution[Run(n)].staleAfter
    BY <1>3, <2>1, <2>2, <2>3, <2>6, SchedulerAssumption
  <2> QED
    BY <2>3, <2>4, <2>5, <2>6
<1>5. CASE Wins(n)
  <2>1. /\ runner[n].pc = "claiming" /\ Run(n)' \in Runs
        /\ execution'[Run(n)'] = Claimed(execution[Run(n)'], runner[n].now)
        /\ runner'[n].lease = execution'[Run(n)'].lease /\ runner'[n].beat = clock
    BY <1>5 DEF Wins
  <2>2. runner[n].now \in Nat /\ execution[Run(n)'] \in Execution
    BY <1>1, <2>1 DEF SchedulerTypeOK, Manager, Runs
  <2>3. /\ execution'[Run(n)'].status = "RUNNING"
        /\ execution'[Run(n)'].staleAfter = runner[n].now + StaleTimeout
    <3>1. /\ Claimed(execution[Run(n)'], runner[n].now).status = "RUNNING"
          /\ Claimed(execution[Run(n)'], runner[n].now).staleAfter = runner[n].now + StaleTimeout
      BY <2>2, ClaimedRow
    <3> QED
      BY <2>1, <3>1
  <2>4. runner' # runner /\ clock' = clock
    <3>1. runner'[n].pc # runner[n].pc
      BY <1>5 DEF Wins
    <3>2. runner' # runner
      BY <3>1
    <3> QED
      BY <1>3, <3>2
  <2>5. clock + HeartbeatInterval <= runner[n].now + StaleTimeout
    BY <2>1, <2>4 DEF TimelyNext, ClaimsPrompt, vars
  <2> QED
    BY <1>3, <2>1, <2>3, <2>4, <2>5, SchedulerAssumption DEF Holds
<1> QED
  BY <1>1, <1>4, <1>5 DEF Shape, RunnerFollows, Engaged

(* While heartbeats are timely and claims prompt, one instance runs a plan. *)
THEOREM OneInstanceRuns == TimelySpec => []OneInstance
<1>1. Init => TimelyInv
  <2> SUFFICES ASSUME Init PROVE TimelyInv
    OBVIOUS
  <2>1. \A n \in Runner : runner[n].pc = "idle"
    BY DEF Init, IdleManager
  <2> QED
    BY <2>1, InitLeases DEF TimelyInv
<1>2. TimelyInv /\ [Next /\ HeartbeatsTimely /\ ClaimsPrompt]_vars => TimelyInv'
  BY TimelyStep DEF TimelyNext
<1>3. TimelyInv => OneInstance
  BY DEF TimelyInv, LeaseInv, LeaseUnique, OneInstance, Holds
<1> QED
  BY <1>1, <1>2, <1>3, PTL DEF TimelySpec

-----------------------------------------------------------------------------
(* The rows implement the abstract ledger.                                  *)
FirstAttempts == \A e \in Runs : execution[e].status = "absent" => execution[e].attempt = 0

Statuses == [e \in Scope \X Plan |-> execution[e].status]
Attempts == [e \in Scope \X Plan |-> execution[e].attempt]

LEMMA LedgerStart ==
    ASSUME SchedulerTypeOK, FirstAttempts, NEW e \in Runs, NEW now \in Nat,
           Claimable(execution[e], now),
           execution' = [execution EXCEPT ![e] = Claimed(@, now)]
    PROVE  Ledger!Start(e)
<1>1. execution[e] \in Execution /\ execution[e].attempt \in Nat
  BY DEF SchedulerTypeOK, Runs, Execution
<1>2. \A f \in Runs : execution'[f] = IF f = e THEN Claimed(execution[e], now) ELSE execution[f]
  BY DEF SchedulerTypeOK, Runs
<1>3. /\ Claimed(execution[e], now).status = "RUNNING"
      /\ Claimed(execution[e], now).attempt = execution[e].attempt + 1
  BY <1>1, ClaimedRow
<1>4. /\ execution[e].status \in {"absent", "FAILED", "RUNNING"}
      /\ execution[e].attempt < MaxAttempts
  BY <1>1, SchedulerAssumption DEF Claimable, Stale, FirstAttempts
<1>5. \A f \in Runs :
        /\ execution'[f].status = IF f = e THEN "RUNNING" ELSE execution[f].status
        /\ execution'[f].attempt = IF f = e THEN execution[f].attempt + 1 ELSE execution[f].attempt
  BY <1>2, <1>3
<1>6. Statuses' = [Statuses EXCEPT ![e] = "RUNNING"]
  BY <1>5 DEF Statuses, Runs
<1>7. Attempts' = [Attempts EXCEPT ![e] = @ + 1]
  BY <1>5 DEF Attempts, Runs
<1> QED
  BY <1>4, <1>6, <1>7 DEF Ledger!Start, Statuses, Attempts, Runs

LEMMA LedgerSame == ASSUME execution' = execution PROVE UNCHANGED Ledger!ledgerVars
BY DEF Ledger!ledgerVars

LEMMA LedgerNext ==
    ASSUME SchedulerTypeOK, FirstAttempts, [Next]_vars PROVE [Ledger!Next]_(Ledger!ledgerVars)
<1> USE DEF Runs
<1>1. CASE execution' = execution
  BY <1>1, LedgerSame
<1>2. ASSUME NEW n \in Runner, NEW p \in Plan, Claim(n, p) \/ SkipPlan(n, p)
      PROVE  [Ledger!Next]_(Ledger!ledgerVars)
  <2>1. PICK e \in Runs : e = <<runner[n].scope, p>>
    BY <1>2 DEF Claim, SkipPlan, SchedulerTypeOK
  <2>3. PICK now \in Nat : now = runner[n].now
    BY DEF SchedulerTypeOK, Manager
  <2>2. CASE /\ Claimable(execution[e], now)
             /\ execution' = [execution EXCEPT ![e] = Claimed(@, now)]
    <3>1. Ledger!Start(e)
      BY <2>2, LedgerStart
    <3> QED
      BY <3>1 DEF Ledger!Next
  <2> QED
    BY <1>1, <1>2, <2>1, <2>2, <2>3 DEF Claim, SkipPlan
<1>3. ASSUME NEW n \in Runner, MarkStale(n), execution' # execution
      PROVE  Ledger!Next
  <2>0. PICK stale \in SUBSET Runs : stale = {e \in Runs : Stale(execution[e], runner[n].now)}
    OBVIOUS
  <2>1. \A e \in Runs : execution[e] \in Execution
    BY DEF SchedulerTypeOK
  <2>2. \A e \in Runs :
          /\ execution'[e].status = IF e \in stale THEN "FAILED" ELSE execution[e].status
          /\ execution'[e].attempt = execution[e].attempt
    BY <1>3, <2>0, <2>1 DEF MarkStale, Execution
  <2>3. \A e \in stale : e \in Runs /\ execution[e].status = "RUNNING"
    BY <2>0 DEF Stale
  <2>4. Ledger!Fail(stale)
    BY <2>2, <2>3 DEF Ledger!Fail
  <2> QED
    BY <2>4 DEF Ledger!Next
<1>4. ASSUME NEW n \in Runner, FinishSuccess(n) PROVE Ledger!Next
  <2>1. PICK run \in Runs :
          run = Run(n) /\ execution[run] \in Execution /\ execution[run].status = "RUNNING"
    BY <1>4 DEF FinishSuccess, Holds, SchedulerTypeOK, Run
  <2>2. \A e \in Runs :
          /\ execution'[e].status = IF e = run THEN "SUCCESS" ELSE execution[e].status
          /\ execution'[e].attempt = execution[e].attempt
    BY <1>4, <2>1 DEF FinishSuccess, SchedulerTypeOK, Execution
  <2>3. Ledger!Succeed(run)
    BY <2>1, <2>2 DEF Ledger!Succeed
  <2> QED
    BY <2>1, <2>3 DEF Ledger!Next
<1>5. ASSUME NEW n \in Runner, FinishFailure(n) PROVE Ledger!Next
  <2>1. PICK run \in Runs :
          run = Run(n) /\ execution[run] \in Execution /\ execution[run].status = "RUNNING"
    BY <1>5 DEF FinishFailure, Holds, SchedulerTypeOK, Run
  <2>2. \A e \in Runs :
          /\ execution'[e].status = IF e \in {run} THEN "FAILED" ELSE execution[e].status
          /\ execution'[e].attempt = execution[e].attempt
    BY <1>5, <2>1 DEF FinishFailure, SchedulerTypeOK, Execution
  <2>3. Ledger!Fail({run})
    BY <2>1, <2>2 DEF Ledger!Fail
  <2> QED
    BY <2>1, <2>3 DEF Ledger!Next
<1>6. ASSUME NEW n \in Runner, Heartbeat(n), execution' # execution
      PROVE  UNCHANGED Ledger!ledgerVars
  <2>1. Run(n) \in Runs
    BY <1>6 DEF Heartbeat, SchedulerTypeOK, Run
  <2>2. \A e \in Runs : execution[e] \in Execution
    BY DEF SchedulerTypeOK
  <2>3. \A e \in Runs :
          /\ execution'[e].status = execution[e].status
          /\ execution'[e].attempt = execution[e].attempt
    BY <1>6, <2>1, <2>2 DEF Heartbeat, SchedulerTypeOK, Execution
  <2> QED
    BY <2>3 DEF Ledger!ledgerVars
<1>7. ASSUME NEW n \in Runner, RunnerStep(n), execution' # execution
      PROVE  [Ledger!Next]_(Ledger!ledgerVars)
  <2>1. \/ \E p \in Plan : Claim(n, p) \/ SkipPlan(n, p)
        \/ MarkStale(n) \/ FinishSuccess(n) \/ FinishFailure(n) \/ Heartbeat(n)
    BY <1>7 DEF RunnerStep, RunOnce, TickDone, ScopeDone, PlanScope, HandlerEnds,
                ReportIgnored, Crash
  <2> QED
    BY <1>2, <1>3, <1>4, <1>5, <1>6, <1>7, <2>1
<1> QED
  BY <1>1, <1>7 DEF Next, PassTime, vars

LEMMA FirstAttemptsStep ==
    ASSUME SchedulerTypeOK, FirstAttempts, [Next]_vars PROVE FirstAttempts'
<1> SUFFICES ASSUME NEW e \in Runs, execution'[e].status = "absent"
             PROVE  execution'[e].attempt = 0
  BY DEF FirstAttempts
<1>1. execution[e] \in Execution /\ RowFollows(e)
  BY RowTypes, StepShape DEF Shape
<1>2. CASE execution'[e] = execution[e]
  BY <1>2 DEF FirstAttempts
<1>3. CASE Taken(e)
  BY <1>1, <1>3, ClaimedRow DEF Taken
<1>4. CASE Swept(e)
  BY <1>1, <1>4 DEF Swept, Execution
<1>5. CASE Beaten(e)
  BY <1>1, <1>5 DEF Beaten, Holds, Execution
<1>6. CASE Ended(e)
  BY <1>1, <1>6 DEF Ended
<1> QED
  BY <1>1, <1>2, <1>3, <1>4, <1>5, <1>6 DEF RowFollows

(* Every run of a plan is a counted attempt, attempts are bounded, and only *)
(* what runs can end.                                                       *)
THEOREM LedgerRefinement == Spec => ImplementsLedger
<1>1. Init => FirstAttempts /\ Ledger!Init
  BY DEF Init, NoExecution, FirstAttempts, Runs, Ledger!Init
<1>2. SchedulerTypeOK /\ FirstAttempts /\ [Next]_vars => FirstAttempts'
  BY FirstAttemptsStep
<1>3. SchedulerTypeOK /\ FirstAttempts /\ [Next]_vars => [Ledger!Next]_(Ledger!ledgerVars)
  BY LedgerNext
<1> QED
  BY <1>1, <1>2, <1>3, SchedulerTypeCorrect, PTL DEF Spec, ImplementsLedger, Ledger!Spec
=============================================================================
