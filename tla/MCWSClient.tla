----------------------------- MODULE MCWSClient -----------------------------
(* The connection of one client on small instances.                          *)
EXTENDS WSClient, TLC

CONSTANTS s1, s2, s3, t1, t2
=============================================================================
