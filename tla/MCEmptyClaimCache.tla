-------------------------- MODULE MCEmptyClaimCache --------------------------
(* EmptyClaimCache on small instances.                                       *)
EXTENDS EmptyClaimCache, TLC

CONSTANTS r1, r2, h1, h2

OneRuntime == [t \in Task |-> r1]
=============================================================================
