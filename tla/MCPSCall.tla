------------------------------- MODULE MCPSCall -------------------------------
(* A small instance of PSCall for TLC: two callers. *)
EXTENDS PSCall

CONSTANTS c1, c2

MCCaller == {c1, c2}
=============================================================================
