----------------------------- MODULE MCRouteTun -----------------------------
(* Model checking of the three route-socket devices: two calls of Close,   *)
(* channels and a socket buffer short enough to fill up.                   *)
EXTENDS RouteTun
=============================================================================
