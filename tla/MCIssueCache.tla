---------------------------- MODULE MCIssueCache ----------------------------
(* The query cache of one client: the page and the table of one issue.       *)
EXTENDS IssueCache, TLC

CONSTANTS i1, detail, table, m1, o1

EveryKey == [k \in Key |-> Issue]
AllOnOne == [e \in Edit |-> i1]
=============================================================================
