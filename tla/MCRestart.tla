------------------------------ MODULE MCRestart ------------------------------
(* Restart for TLC: two users and two group slots over any number of runs.    *)
EXTENDS Restart
=============================================================================
