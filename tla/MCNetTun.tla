------------------------------- MODULE MCNetTun -------------------------------
(* NetTun for TLC: two goroutines that send beside the one that writes.    *)
EXTENDS NetTun

CONSTANTS s1, s2
=============================================================================
