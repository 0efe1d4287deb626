--------------------------- MODULE MCPSQueueBucket ---------------------------
(* A small instance of PSQueueBucket for TLC. *)
EXTENDS PSQueueBucket

CONSTANTS t1, t2, t3, m1, m2

MCThread == {t1, t2, t3}
MCMsg == {m1, m2}
=============================================================================
