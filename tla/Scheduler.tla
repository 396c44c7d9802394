------------------------------ MODULE Scheduler ------------------------------
(***************************************************************************)
(* The scheduler of recurring jobs: every server replica runs a Manager that *)
(* reads the database's time once per tick, closes abandoned executions,    *)
(* and works through its scopes one after the other, claiming each plan in  *)
(* sys_cron_executions under a lease, running the handler and writing its   *)
(* result.  Runners die, statements fail or commit without an answer, and   *)
(* handlers take as long as they like.                                      *)
(*                                                                         *)
(* One job with several scopes is modelled; a second job in the same tick   *)
(* is one more scope that keeps the runner busy.  Times are whole units of  *)
(* the database's clock.                                                    *)
(***************************************************************************)
EXTENDS Naturals, FiniteSets

CONSTANTS
    Runner,
    Scope,
    Plan,              \* plan times: multiples of the cadence, or cron hits
    None,
    Planner,           \* CatchUpLatestOnly, CatchUpEveryPlan or the hook of
                       \* the autopilot job (PlansForScope)
    ScheduleDelay, CatchUpWindow, Lateness, MaxPlansPerTick,
    RunTimeout, StaleTimeout, HeartbeatInterval, AllowStaleReentry,
    MaxAttempts, RetryDelay,
    MaxTime            \* bound: how far the clock runs

ASSUME SchedulerAssumption ==
    /\ None \notin Scope
    /\ Plan \subseteq Nat \ {0}
    /\ Planner \in {"latest_only", "every_plan", "autopilot"}
    /\ ScheduleDelay \in Nat /\ CatchUpWindow \in Nat /\ Lateness \in Nat
    /\ MaxPlansPerTick \in Nat \ {0}
    /\ HeartbeatInterval \in Nat \ {0} /\ StaleTimeout \in Nat
    /\ HeartbeatInterval < StaleTimeout
    /\ RunTimeout \in Nat \ {0} /\ RunTimeout < StaleTimeout
    /\ AllowStaleReentry \in BOOLEAN
    /\ MaxAttempts \in Nat \ {0} /\ RetryDelay \in Nat
    /\ MaxTime \in Nat

VARIABLES
    clock,      \* the database's now()
    execution,  \* sys_cron_executions, one row per scope and plan
    runner      \* what each Manager is doing

vars == <<clock, execution, runner>>

(* lease counts the claims of a row and stands for lease_token, a new uuid  *)
(* at every claim; retryAt 0 is a next_retry_at of NULL.                    *)
Execution == [status: {"absent", "RUNNING", "SUCCESS", "FAILED"},
              attempt: Nat, lease: Nat, staleAfter: Nat, retryAt: Nat]

NoExecution == [status |-> "absent", attempt |-> 0, lease |-> 0,
                staleAfter |-> 0, retryAt |-> 0]

(* now is the time of the tick, beat that of the last heartbeat, mark the   *)
(* time at which the handler was started and, once it ended, that of its end. *)
Manager == [pc: {"idle", "sweeping", "planning", "claiming", "running", "reporting"},
            now: Nat, scopes: SUBSET Scope, scope: Scope \cup {None},
            plans: SUBSET Plan, plan: Nat, lease: Nat, attempt: Nat,
            beating: BOOLEAN, beat: Nat, mark: Nat, ok: BOOLEAN]

IdleManager == [pc |-> "idle", now |-> 0, scopes |-> {}, scope |-> None,
                plans |-> {}, plan |-> 0, lease |-> 0, attempt |-> 0,
                beating |-> FALSE, beat |-> 0, mark |-> 0, ok |-> FALSE]

(* Every variable keeps its type, no runner's now is ahead of the clock, and *)
(* a runner that claims or runs knows for what.                              *)
SchedulerTypeOK ==
    /\ clock \in Nat
    /\ execution \in [Scope \X Plan -> Execution]
    /\ runner \in [Runner -> Manager]
    /\ \A n \in Runner :
         /\ runner[n].now <= clock
         /\ runner[n].pc \in {"claiming", "running", "reporting"} => runner[n].scope \in Scope
         /\ runner[n].pc \in {"running", "reporting"} => runner[n].plan \in Plan

Init ==
    /\ clock = 0
    /\ execution = [e \in Scope \X Plan |-> NoExecution]
    /\ runner = [n \in Runner |-> IdleManager]

-----------------------------------------------------------------------------
(* Which plans a tick works on.                                             *)

Latest(plans) == {p \in plans : \A q \in plans : q <= p}

Earliest(plans) == {p \in plans : \A q \in plans : p <= q}

(* latestPlan: the newest plan with a row, retryable or not.                *)
Known(s) == {p \in Plan : execution[s, p].status # "absent"}

RetryEligible(s, p, now) ==
    /\ execution[s, p].status = "FAILED"
    /\ execution[s, p].attempt < MaxAttempts
    /\ execution[s, p].retryAt <= now

Due(now) == {p \in Plan : p + ScheduleDelay <= now}

After(s) == {p \in Plan : \A q \in Known(s) : q < p}

(* The first MaxPlansPerTick plans of a set.                                *)
First(plans) == {p \in plans : Cardinality({q \in plans : q < p}) < MaxPlansPerTick}

EveryPlan(s, now) ==
    LET due    == Due(now)
        retry  == {p \in Latest(Known(s)) : RetryEligible(s, p, now)}
        start  == IF Known(s) = {} THEN Latest(due) ELSE retry \cup After(s)
        recent == IF CatchUpWindow = 0 THEN Latest(due)
                  ELSE {p \in due : p + CatchUpWindow >= now}
    IN First(start \cap recent)

AutopilotPlans(s, now) ==
    LET retry == {p \in Latest(Known(s)) : RetryEligible(s, p, now)}
        fired == Latest({p \in After(s) : p <= now})
    IN IF retry # {} THEN retry ELSE {p \in fired : now - p <= Lateness}

PlansForTick(s, now) ==
    CASE Planner = "latest_only" -> Latest(Due(now))
      [] Planner = "every_plan"  -> EveryPlan(s, now)
      [] Planner = "autopilot"   -> AutopilotPlans(s, now)

-----------------------------------------------------------------------------
(* A tick.                                                                  *)

(* MUTANT: the tick reads the clock of its replica, which may be ahead.      *)
RunOnceLocalClock(n) ==
    /\ runner[n].pc = "idle"
    /\ runner' = [runner EXCEPT ![n] =
                    [IdleManager EXCEPT !.pc = "sweeping", !.now = clock + 1, !.scopes = Scope]]
    /\ UNCHANGED <<clock, execution>>

RunOnce(n) ==
    /\ runner[n].pc = "idle"
    /\ runner' = [runner EXCEPT ![n] =
                    [IdleManager EXCEPT !.pc = "sweeping", !.now = clock, !.scopes = Scope]]
    /\ UNCHANGED <<clock, execution>>

(* MUTANT: a lease is stale in the instant it runs out.                      *)
StaleAtOnce(x, now) == x.status = "RUNNING" /\ x.staleAfter <= now

Stale(x, now) == x.status = "RUNNING" /\ x.staleAfter < now

(* markStaleAsFailed, whose error is only logged.                           *)
MarkStale(n) ==
    /\ runner[n].pc = "sweeping"
    /\ \/ execution' = [e \in Scope \X Plan |->
                          IF Stale(execution[e], runner[n].now)
                          THEN [execution[e] EXCEPT !.status = "FAILED"]
                          ELSE execution[e]]
       \/ UNCHANGED execution
    /\ runner' = [runner EXCEPT ![n].pc = "planning"]
    /\ UNCHANGED clock

(* An error of plansForTick skips the scope.                                *)
PlanScope(n, s) ==
    /\ runner[n].pc = "planning" /\ s \in runner[n].scopes
    /\ \E plans \in {PlansForTick(s, runner[n].now), {}} :
         runner' = [runner EXCEPT ![n] =
            [runner[n] EXCEPT !.pc = "claiming", !.scopes = @ \ {s}, !.scope = s, !.plans = plans]]
    /\ UNCHANGED <<clock, execution>>

TickDone(n) ==
    /\ runner[n].pc = "planning" /\ runner[n].scopes = {}
    /\ runner' = [runner EXCEPT ![n] = IdleManager]
    /\ UNCHANGED <<clock, execution>>

ScopeDone(n) ==
    /\ runner[n].pc = "claiming" /\ runner[n].plans = {}
    /\ runner' = [runner EXCEPT ![n].pc = "planning"]
    /\ UNCHANGED <<clock, execution>>

-----------------------------------------------------------------------------
(* Claiming.                                                                *)

(* MUTANT: the attempts are not bounded.                                     *)
ClaimableForever(x, now) ==
    \/ x.status = "absent"
    \/ x.status = "FAILED" /\ x.retryAt <= now
    \/ Stale(x, now) /\ AllowStaleReentry

(* MUTANT: a plan that succeeded is claimed like one that failed.            *)
ClaimableEnded(x, now) ==
    \/ x.status = "absent"
    \/ /\ x.attempt < MaxAttempts
       /\ \/ x.status \in {"FAILED", "SUCCESS"} /\ x.retryAt <= now
          \/ Stale(x, now) /\ AllowStaleReentry

(* The INSERT wins a new row, the UPDATE takes a failed or stale one.  They  *)
(* are two statements, but a row stays for a month: what the UPDATE finds    *)
(* decides.                                                                  *)
Claimable(x, now) ==
    \/ x.status = "absent"
    \/ /\ x.attempt < MaxAttempts
       /\ \/ x.status = "FAILED" /\ x.retryAt <= now
          \/ Stale(x, now) /\ AllowStaleReentry

(* MUTANT: taking over a row keeps its lease_token.                          *)
ClaimedKeepingLease(x, now) ==
    [x EXCEPT !.status = "RUNNING", !.attempt = @ + 1,
              !.lease = IF x.status = "absent" THEN 1 ELSE @,
              !.staleAfter = now + StaleTimeout, !.retryAt = 0]

Claimed(x, now) ==
    [x EXCEPT !.status = "RUNNING", !.attempt = @ + 1, !.lease = @ + 1,
              !.staleAfter = now + StaleTimeout, !.retryAt = 0]

Claim(n, p) ==
    LET e == <<runner[n].scope, p>>
    IN /\ runner[n].pc = "claiming" /\ p \in Earliest(runner[n].plans)
       /\ Claimable(execution[e], runner[n].now)
       /\ execution' = [execution EXCEPT ![e] = Claimed(@, runner[n].now)]
       /\ runner' = [runner EXCEPT ![n] =
            [runner[n] EXCEPT !.pc = "running", !.plans = @ \ {p}, !.plan = p,
                      !.lease = execution'[e].lease, !.attempt = execution'[e].attempt,
                      !.beating = TRUE, !.beat = clock, !.mark = clock]]
       /\ UNCHANGED clock

(* Another runner has the plan, or the statement failed; if it committed    *)
(* all the same, the row is claimed and nobody runs it.                     *)
SkipPlan(n, p) ==
    LET e == <<runner[n].scope, p>>
    IN /\ runner[n].pc = "claiming" /\ p \in Earliest(runner[n].plans)
       /\ \/ UNCHANGED execution
          \/ /\ Claimable(execution[e], runner[n].now)
             /\ execution' = [execution EXCEPT ![e] = Claimed(@, runner[n].now)]
       /\ runner' = [runner EXCEPT ![n].plans = @ \ {p}]
       /\ UNCHANGED clock

-----------------------------------------------------------------------------
(* Running.                                                                 *)

Run(n) == <<runner[n].scope, runner[n].plan>>

(* Every later statement of a run is fenced by its lease and by RUNNING.    *)
Holds(n) ==
    /\ runner[n].pc \in {"running", "reporting"}
    /\ execution[Run(n)].lease = runner[n].lease
    /\ execution[Run(n)].status = "RUNNING"

(* MUTANT: the heartbeat does not extend the lease.                          *)
HeartbeatOnly(n) ==
    /\ runner[n].pc = "running" /\ runner[n].beating
    /\ runner' = [runner EXCEPT ![n] =
         IF Holds(n) THEN [@ EXCEPT !.beat = clock] ELSE [@ EXCEPT !.beating = FALSE]]
    /\ UNCHANGED <<clock, execution>>

(* The heartbeat goroutine stops when it finds the lease lost; the handler  *)
(* goes on.                                                                 *)
Heartbeat(n) ==
    /\ runner[n].pc = "running" /\ runner[n].beating
    /\ IF Holds(n)
       THEN /\ execution' = [execution EXCEPT ![Run(n)].staleAfter = clock + StaleTimeout]
            /\ runner' = [runner EXCEPT ![n].beat = clock]
       ELSE /\ runner' = [runner EXCEPT ![n].beating = FALSE]
            /\ UNCHANGED execution
    /\ UNCHANGED clock

(* The handler returned, failed, panicked or ran into its timeout, and the  *)
(* heartbeats were stopped; dbNow is read for the result.                   *)
HandlerEnds(n, ok) ==
    /\ runner[n].pc = "running"
    /\ runner' = [runner EXCEPT ![n] =
         [@ EXCEPT !.pc = "reporting", !.ok = ok, !.beating = FALSE, !.mark = clock]]
    /\ UNCHANGED <<clock, execution>>

Reported(n) == runner' = [runner EXCEPT ![n].pc = "claiming"]

FinishSuccess(n) ==
    /\ runner[n].pc = "reporting" /\ runner[n].ok /\ Holds(n)
    /\ execution' = [execution EXCEPT ![Run(n)].status = "SUCCESS"]
    /\ Reported(n)
    /\ UNCHANGED clock

FinishFailure(n) ==
    /\ runner[n].pc = "reporting" /\ ~runner[n].ok /\ Holds(n)
    /\ execution' = [execution EXCEPT ![Run(n)] =
         [@ EXCEPT !.status = "FAILED",
                   !.retryAt = IF runner[n].attempt < MaxAttempts THEN runner[n].mark + RetryDelay ELSE 0]]
    /\ Reported(n)
    /\ UNCHANGED clock

(* The lease was lost, or the result could not be written.                  *)
ReportIgnored(n) ==
    /\ runner[n].pc = "reporting"
    /\ Reported(n)
    /\ UNCHANGED <<clock, execution>>

(* The replica dies, or an error ends its tick.                             *)
Crash(n) ==
    /\ runner[n].pc # "idle"
    /\ runner' = [runner EXCEPT ![n] = IdleManager]
    /\ UNCHANGED <<clock, execution>>

PassTime ==
    /\ clock < MaxTime
    /\ clock' = clock + 1
    /\ UNCHANGED <<execution, runner>>

-----------------------------------------------------------------------------
RunnerStep(n) ==
    \/ RunOnce(n) \/ MarkStale(n) \/ TickDone(n) \/ ScopeDone(n)
    \/ \E s \in Scope : PlanScope(n, s)
    \/ \E p \in Plan : Claim(n, p) \/ SkipPlan(n, p)
    \/ Heartbeat(n)
    \/ \E ok \in BOOLEAN : HandlerEnds(n, ok)
    \/ FinishSuccess(n) \/ FinishFailure(n) \/ ReportIgnored(n)
    \/ Crash(n)

Next == PassTime \/ \E n \in Runner : RunnerStep(n)

Spec == Init /\ [][Next]_vars

(***************************************************************************)
(* What the timeouts are chosen for.  A runner beats every                  *)
(* HeartbeatInterval (HeartbeatsTimely) and claims nothing with a time      *)
(* older than the slack StaleTimeout leaves (ClaimsPrompt).                 *)
(***************************************************************************)
HeartbeatsTimely ==
    clock' # clock => \A n \in Runner :
        runner[n].pc = "running" => clock < runner[n].beat + HeartbeatInterval

ClaimsPrompt ==
    \A n \in Runner :
        runner[n].pc = "claiming" /\ runner'[n].pc = "running"
        => clock + HeartbeatInterval <= runner[n].now + StaleTimeout

TimelySpec == Init /\ [][Next /\ HeartbeatsTimely /\ ClaimsPrompt]_vars

(* The best that can be hoped for: statements take no time, and the         *)
(* handlers heed their timeout.                                             *)
OnlyHandlersTakeTime ==
    clock' # clock => \A n \in Runner :
        \/ runner[n].pc = "idle"
        \/ runner[n].pc = "running" /\ clock < runner[n].mark + RunTimeout

OverrunSpec == Init /\ [][Next /\ HeartbeatsTimely /\ OnlyHandlersTakeTime]_vars

-----------------------------------------------------------------------------
(* Two runners never hold the same lease: whatever was stolen meanwhile, at *)
(* most one of them can write a result.                                     *)
LeaseUnique ==
    \A n, m \in Runner :
        /\ runner[n].pc \in {"running", "reporting"}
        /\ runner[m].pc \in {"running", "reporting"}
        /\ Run(n) = Run(m) /\ runner[n].lease = runner[m].lease
        => n = m

(* A success stands: no late report, sweep or claim changes the row again.  *)
SuccessIsFinal ==
    [][\A e \in Scope \X Plan :
         execution[e].status = "SUCCESS" => execution'[e] = execution[e]]_vars

(* A handler that still runs loses its lease only after the lease ran out:  *)
(* a tick that works with an old time takes nothing too early.              *)
LostOnlyWhenStale ==
    [][\A n \in Runner :
         /\ runner[n].pc = "running" /\ Holds(n)
         /\ runner'[n].pc = "running" /\ ~Holds(n)'
         => execution[Run(n)].staleAfter < clock]_vars

(* What the package comment says: one run of a plan is executed by one      *)
(* instance.                                                                *)
OneInstance ==
    \A n, m \in Runner :
        runner[n].pc = "running" /\ runner[m].pc = "running" /\ Run(n) = Run(m) => n = m

(* The abstract ledger this module implements.                              *)
Ledger == INSTANCE ExecutionLedger WITH
    Key     <- Scope \X Plan,
    status  <- [e \in Scope \X Plan |-> execution[e].status],
    attempt <- [e \in Scope \X Plan |-> execution[e].attempt]

(* Attempts are counted and bounded whoever claims, and only a running      *)
(* execution ends.                                                          *)
ImplementsLedger == Ledger!Spec
=============================================================================
