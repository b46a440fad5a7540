------------------------------ MODULE MCWinTun ------------------------------
(* The Windows device for TLC: two calls of Close, and a channel and rings *)
(* so short that they fill up.                                             *)
EXTENDS WinTun

CONSTANTS c1, c2
=============================================================================
