--------------------------- MODULE MCTunListeners ---------------------------
(* Model checking of the TUN device's listeners and of Close: two calls of *)
(* Close, channels shorter than the code's so that both fill up.           *)
EXTENDS TunListeners

CONSTANTS c1, c2

=============================================================================
