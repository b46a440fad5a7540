------------------------------ MODULE RttFilter ------------------------------
(***************************************************************************)
(* What the round-trip-time filter of package astar promises: samples and  *)
(* seeds are taken one after another, each against the estimate the one    *)
(* before it left.  Rtt implements this with compare-and-swap loops.       *)
(*                                                                         *)
(* Times are integers; the coefficient is kept as its product with         *)
(* MaxPing, so that 1.0 is MaxPing.                                        *)
(***************************************************************************)
EXTENDS Integers

CONSTANTS Procs,    \* the goroutines that report
          Times,    \* the round-trip times they report
          MaxPing,  \* the time whose coefficient is 1.0
          None      \* no report in progress

VARIABLES m,        \* the metrics: RttOld, RttNew, RttSmoothed, RttCoefficient
          pending   \* pending[p]: the report p has announced, or None

Report == [kind : {"seed", "sample"}, val : Times]

Init == /\ m = [old |-> 0, new |-> 0, smoothed |-> 0, coefficient |-> 0]
        /\ pending = [p \in Procs |-> None]

Announce(p, r) == /\ pending[p] = None
                  /\ pending' = [pending EXCEPT ![p] = r]
                  /\ UNCHANGED m

\* The weighted mean of the formula: (1 - a) * old + a * new, a = 0.125.
Mean(old, new) == (7 * old + new) \div 8

\* The estimate a sample is averaged with: before there is one, the seed.
Estimate == IF m.smoothed = 0 THEN m.old ELSE m.smoothed

Apply(p) ==
    /\ pending[p] # None
    /\ pending' = [pending EXCEPT ![p] = None]
    /\ LET v == pending[p].val
           mean == Mean(Estimate, v)
       IN m' = IF pending[p].kind = "seed"
                 THEN [m EXCEPT !.old = v]
                 ELSE [old |-> Estimate, new |-> v, smoothed |-> mean,
                       coefficient |-> IF mean > MaxPing THEN MaxPing ELSE mean]

Next == \E p \in Procs : \/ \E r \in Report : Announce(p, r)
                         \/ Apply(p)

Spec == Init /\ [][Next]_<<m, pending>>
=============================================================================
