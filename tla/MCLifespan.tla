----------------------------- MODULE MCLifespan -----------------------------
(* Two processes on one state directory, started four times in all.        *)
EXTENDS Lifespan, TLC
CONSTANTS p1, p2
TwoProcesses == {p1, p2}
=============================================================================
