--------------------------- MODULE ExecutionLedger ---------------------------
(***************************************************************************)
(* What sys_cron_executions promises, without runners, leases or clocks:    *)
(* every run of a plan is one attempt, the attempts of a plan are counted   *)
(* and bounded, and a plan that succeeded is never run or changed again.    *)
(***************************************************************************)
EXTENDS Naturals

CONSTANTS Key, MaxAttempts

VARIABLES status, attempt

ledgerVars == <<status, attempt>>

Init ==
    /\ status = [e \in Key |-> "absent"]
    /\ attempt = [e \in Key |-> 0]

(* A first attempt, the retry of a failed one or the takeover of one that   *)
(* was abandoned.                                                           *)
Start(e) ==
    /\ status[e] \in {"absent", "FAILED", "RUNNING"}
    /\ attempt[e] < MaxAttempts
    /\ status' = [status EXCEPT ![e] = "RUNNING"]
    /\ attempt' = [attempt EXCEPT ![e] = @ + 1]

Succeed(e) ==
    /\ status[e] = "RUNNING"
    /\ status' = [status EXCEPT ![e] = "SUCCESS"]
    /\ UNCHANGED attempt

Fail(runs) ==
    /\ \A e \in runs : status[e] = "RUNNING"
    /\ status' = [e \in Key |-> IF e \in runs THEN "FAILED" ELSE status[e]]
    /\ UNCHANGED attempt

Next ==
    \/ \E e \in Key : Start(e) \/ Succeed(e)
    \/ \E runs \in SUBSET Key : Fail(runs)

Spec == Init /\ [][Next]_ledgerVars
=============================================================================
