------------------------------- MODULE MCNotify -------------------------------
(* A small instance of Notify for TLC: one reader besides the event loops.     *)
EXTENDS Notify

CONSTANTS r1, p1, p2

MCReader == {r1}

MCPoller == {p1, p2}
=============================================================================
