----------------------------- MODULE MCPSQueueLL -----------------------------
(* A small instance of PSQueueLL for TLC. *)
EXTENDS PSQueueLL

CONSTANTS t1, t2, t3, m1, m2

MCThread == {t1, t2, t3}
MCMsg == {m1, m2}
=============================================================================
