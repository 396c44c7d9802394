----------------------------- MODULE MCTaskQueue -----------------------------
(***************************************************************************)
(* TaskQueue on small instances.  The action constraints switch off parts   *)
(* of the environment, so that each run can afford a larger instance of the *)
(* part it asks about.                                                      *)
(***************************************************************************)
EXTENDS TaskQueue, TLC

CONSTANTS a1, a2, i1, c1, r1, r2, d1, d2, h1, h2

OneEach == [a \in Agent |-> 1]
TwoEach == [a \in Agent |-> 2]

OneDaemon == [d \in Daemon |-> Runtime]
DaemonPerRuntime == [d \in Daemon |-> IF d = d1 THEN {r1} ELSE {r2}]

-----------------------------------------------------------------------------
(* Parts of the environment a run leaves out.                               *)

RuntimesStayFresh == runtime' = runtime
DaemonsStayUp     == rebooted' = rebooted
NoUserCommands    == \A t \in Task : queue'[t].status = "cancelled" => queue[t].status = "cancelled"

IssueRowsOnly  == \A t \in Task : queue'[t].lane \in Issue \cup {None}
NoFreeRows     == \A t \in Task : queue'[t].lane \in Issue \cup {Bare, None}
OneQuickCreate == /\ queue'[1].lane \in Issue \cup {None}
                  /\ queue'[2].status # "completed" => queue'[2].lane \in {Bare, None}

(* Without fallback rows Acknowledge, and without attempts left RetryFailed, *)
(* change nothing that another step sees: they may as well come first.      *)
AcknowledgeAtOnce ==
    acknowledging # {} => acknowledging' # acknowledging /\ UNCHANGED queue
RetryAtOnce ==
    recovering # {} => recovering' # recovering /\ UNCHANGED queue

HandlerSymmetry == Permutations(Handler)
=============================================================================
