------------------------------ MODULE MCReading ------------------------------
(* How a reader comes to its message: told by a callback (Notify) in one half  *)
(* of the behaviours, by a wait with a timeout (TimedWait) in the other, with  *)
(* the instances of MCNotify and MCTimedWait.  The halves have nothing in      *)
(* common and are checked side by side.                                        *)
EXTENDS MCNotify, MCTimedWait

VARIABLE half

MCInit ==
    /\ Init /\ WaitInit
    /\ \/ half = "callback" /\ port = "linux"
       \/ half = "wait"

MCNext ==
    \/ half = "callback" /\ Next /\ UNCHANGED <<half, waitVars>>
    \/ half = "wait" /\ WaitNext /\ UNCHANGED <<half, vars>>

\* Only in the half of the waits does time go on; all the other fair actions of
\* the other half are impossible in a half's states.
MCSpec ==
    /\ MCInit
    /\ [][MCNext]_<<half, vars, waitVars>>
    /\ Fairness
    /\ WF_waitVars(half = "wait" /\ (Tick \/ TimerRuns))
    /\ WF_waitVars(Waits) /\ WF_waitVars(Rejects \/ Acquires) /\ WF_waitVars(TimesOut)
=============================================================================
