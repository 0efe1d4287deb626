------------------------------ MODULE MCTimedWait ------------------------------
(* Small instances of TimedWait for TLC: a second of 3 ms, a ms of 2 ns, a    *)
(* tick of 3 ns.                                                              *)
EXTENDS TimedWait

MCPorts == {"linux", "freertos"}

MCLinux == {"linux"}

MCTimeout == {-1, 0, 1, 4}
=============================================================================
