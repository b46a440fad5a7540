--------------------------------- MODULE MCRtt ---------------------------------
(***************************************************************************)
(* Rtt for TLC.  At most four samples are taken, so in a unit of 1/4096 ms *)
(* every division by 8 is exact.  The times are negative, zero, below and  *)
(* far above maxPing.                                                      *)
(***************************************************************************)
EXTENDS Rtt

Unit == 4096

MCSamples == {-1, 0, Unit, 64 * Unit}
MCMaxPing == 4 * Unit
=============================================================================
