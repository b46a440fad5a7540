---------------------------------- MODULE Rtt ----------------------------------
(***************************************************************************)
(* Rtt of common/a_star/rtt.go: the smoothed round-trip time of a link, an *)
(* atomic pointer to an immutable Metrics that goroutines replace with a   *)
(* load / compute / compare-and-swap loop.                                 *)
(*                                                                         *)
(* Times are integers in a unit small enough for the divisions by 8 the    *)
(* bounded number of calls makes to be exact; the rounding of float64 is   *)
(* not modelled.  The coefficient is kept as its product with maxPing.     *)
(* NaN and the infinities are members of NonFinite.                        *)
(***************************************************************************)
EXTENDS Integers

CONSTANTS Procs,      \* the goroutines calling Update and UpdateRttOld
          MaxCalls,   \* bound: calls each goroutine makes
          Samples,    \* finite arguments of the calls
          NonFinite,  \* NaN, +Inf, -Inf
          MaxPing,    \* maxPing
          None        \* "no call in progress"

ASSUME RttAssumption ==
    /\ MaxCalls \in Nat
    /\ Samples \subseteq Int
    /\ NonFinite \cap Int = {}
    /\ MaxPing \in Nat \ {0}

Times == {v \in Samples : v >= 0}

ASSUME NoneAssumption == None \notin [kind : {"seed", "sample"}, val : Times]

VARIABLES
    data,   \* the atomic pointer: [ptr, val], an address and the Metrics there
    pc,     \* pc[p]: "idle", "load" or "cas"
    op,     \* op[p]: the call in progress, [kind, val], or None
    cur,    \* cur[p]: the pointer p loaded last
    calls,  \* calls[p]: calls p has made
    peak    \* history: the longest time any accepted call reported

vars == <<data, pc, op, cur, calls, peak>>

Metrics == [old : Nat, new : Nat, smoothed : Nat, coefficient : 0..MaxPing]

Calls == [kind : {"seed", "sample"}, val : Times]

\* NewRtt stores zero Metrics.
Init == /\ data = [ptr |-> 0,
                   val |-> [old |-> 0, new |-> 0, smoothed |-> 0, coefficient |-> 0]]
        /\ pc = [p \in Procs |-> "idle"]
        /\ op = [p \in Procs |-> None]
        /\ cur = [p \in Procs |-> data]
        /\ calls = [p \in Procs |-> 0]
        /\ peak = 0

isValidRtt(val) == val \notin NonFinite /\ val >= 0

\* Both methods begin with the check of their argument.
Call(p, kind, val) ==
    /\ pc[p] = "idle"
    /\ calls[p] < MaxCalls
    /\ calls' = [calls EXCEPT ![p] = @ + 1]
    /\ IF isValidRtt(val)
         THEN /\ pc' = [pc EXCEPT ![p] = "load"]
              /\ op' = [op EXCEPT ![p] = [kind |-> kind, val |-> val]]
              /\ peak' = IF val > peak THEN val ELSE peak
         ELSE UNCHANGED <<pc, op, peak>>
    /\ UNCHANGED <<data, cur>>

UpdateRttOld(p, val) == Call(p, "seed", val)
Update(p, val)       == Call(p, "sample", val)

\* current := rtt.data.Load()
Load(p) ==
    /\ pc[p] = "load"
    /\ cur' = [cur EXCEPT ![p] = data]
    /\ pc' = [pc EXCEPT ![p] = "cas"]
    /\ UNCHANGED <<data, op, calls, peak>>

\* The Metrics UpdateRttOld computes from the loaded ones.
nextSeed(current, val) == [current EXCEPT !.old = val]

\* Mutant of nextSample: the weights add up to more than one.
nextSampleHeavy(current, val) ==
    LET rttOld == IF current.smoothed = 0 THEN current.old ELSE current.smoothed
        rttSmoothed == rttOld + (val \div 8)
    IN [old |-> rttOld, new |-> val, smoothed |-> rttSmoothed,
        coefficient |-> IF rttSmoothed > MaxPing THEN MaxPing ELSE rttSmoothed]

\* The Metrics Update computes from the loaded ones.
nextSample(current, val) ==
    LET rttOld == IF current.smoothed = 0 THEN current.old ELSE current.smoothed
        rttSmoothed == (7 * rttOld + val) \div 8
    IN [old |-> rttOld, new |-> val, smoothed |-> rttSmoothed,
        coefficient |-> IF rttSmoothed > MaxPing THEN MaxPing
                        ELSE IF rttSmoothed < 0 THEN 0 ELSE rttSmoothed]

next(p) == IF op[p].kind = "seed" THEN nextSeed(cur[p].val, op[p].val)
                                  ELSE nextSample(cur[p].val, op[p].val)

\* Mutant of CompareAndSwap: next is stored even if the pointer moved on.
StoreAlways(p) ==
    /\ pc[p] = "cas"
    /\ data' = [ptr |-> data.ptr + 1, val |-> next(p)]
    /\ pc' = [pc EXCEPT ![p] = "idle"]
    /\ op' = [op EXCEPT ![p] = None]
    /\ UNCHANGED <<cur, calls, peak>>

\* rtt.data.CompareAndSwap(current, next): next is freshly allocated, so
\* every installed Metrics has an address of its own.
CompareAndSwap(p) ==
    /\ pc[p] = "cas"
    /\ IF data.ptr = cur[p].ptr
         THEN /\ data' = [ptr |-> data.ptr + 1, val |-> next(p)]
              /\ pc' = [pc EXCEPT ![p] = "idle"]
              /\ op' = [op EXCEPT ![p] = None]
         ELSE /\ pc' = [pc EXCEPT ![p] = "load"]
              /\ UNCHANGED <<data, op>>
    /\ UNCHANGED <<cur, calls, peak>>

Next == \E p \in Procs :
            \/ \E val \in Samples \cup NonFinite : UpdateRttOld(p, val) \/ Update(p, val)
            \/ Load(p)
            \/ CompareAndSwap(p)

Spec == Init /\ [][Next]_vars

-----------------------------------------------------------------------------
(* TypeOK: the variables hold values of their types; in particular every   *)
(* Metrics GetRtt can return has times of zero or more and a coefficient   *)
(* between 0.0 and 1.0.                                                    *)
TypeOK ==
    /\ data \in [ptr : Nat, val : Metrics]
    /\ pc \in [Procs -> {"idle", "load", "cas"}]
    /\ op \in [Procs -> Calls \cup {None}]
    /\ cur \in [Procs -> [ptr : Nat, val : Metrics]]
    /\ calls \in [Procs -> 0..MaxCalls]
    /\ peak \in Nat

Abs == INSTANCE RttFilter WITH m <- data.val, pending <- op

(* Linearizable: the loops of UpdateRttOld and Update implement RttFilter: *)
(* no sample is averaged with an estimate that another sample has already  *)
(* replaced, and none is lost.                                             *)
Linearizable == Abs!Spec

Bounded(m) == /\ m.old <= peak /\ m.new <= peak /\ m.smoothed <= peak
              /\ m.coefficient = IF m.smoothed > MaxPing THEN MaxPing ELSE m.smoothed

(* NeverAmplified: after any number of seeds and samples, in any           *)
(* interleaving, the estimate is no longer than the longest time reported, *)
(* and the coefficient a reader sees belongs to the smoothed time it sees. *)
NeverAmplified == Bounded(data.val)

(* The inductive invariant: a loaded Metrics at the current address is the *)
(* current one, and what is loaded or in progress is bounded too.          *)
CopyIsCurrent ==
    \A p \in Procs :
        pc[p] = "cas" => /\ cur[p].ptr <= data.ptr
                         /\ cur[p].ptr = data.ptr => cur[p].val = data.val

InLoop == \A p \in Procs : op[p] = None <=> pc[p] = "idle"

LocalsBounded == \A p \in Procs : /\ Bounded(cur[p].val)
                                  /\ pc[p] # "idle" => op[p].val <= peak

IInv == TypeOK /\ NeverAmplified /\ CopyIsCurrent /\ InLoop /\ LocalsBounded
=============================================================================
