------------------------------ MODULE MCGMetrics ------------------------------
(***************************************************************************)
(* GMetrics for TLC: measurements below, at and above the bounds 0 and 1.0 *)
(* (One = 1), and two values that are not finite.                          *)
(***************************************************************************)
EXTENDS GMetrics

MCSamples == {-1, 0, 1, 2}
=============================================================================
