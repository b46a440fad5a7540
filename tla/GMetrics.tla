------------------------------- MODULE GMetrics -------------------------------
(***************************************************************************)
(* GMetrics of common/a_star/weight.go: the telemetry of a link, an atomic *)
(* pointer to an immutable TelemetrySnapshot that goroutines replace with  *)
(* a load / copy-with-one-field-changed / compare-and-swap loop.           *)
(*                                                                         *)
(* Measurements are integers in a unit in which 1.0 is the constant One;   *)
(* NaN and the infinities are members of NonFinite.                        *)
(***************************************************************************)
EXTENDS Integers

CONSTANTS Procs,      \* the goroutines calling the Update methods
          MaxCalls,   \* bound: calls each goroutine makes
          Samples,    \* finite arguments of the calls
          NonFinite,  \* NaN, +Inf, -Inf
          One,        \* 1.0 (maxLoss too)
          None        \* "no call in progress"

ASSUME ConstAssumption ==
    /\ MaxCalls \in Nat
    /\ Samples \subseteq Int
    /\ NonFinite \cap Int = {}
    /\ One \in Nat
    /\ 0 \in Samples

Fields == {"Loss", "Rtt", "Load", "Energy"}

ASSUME NoneAssumption == None \notin [field : Fields, val : Samples]

VARIABLES
    data,   \* the atomic pointer: [ptr, val], an address and the snapshot there
    pc,     \* pc[p]: "idle", "load" or "cas"
    op,     \* op[p]: the call in progress, [field, val], or None
    cur,    \* cur[p]: the pointer p loaded last
    calls   \* calls[p]: calls p has made

vars == <<data, pc, op, cur, calls>>

(* The measurements an Update method lets into a field: every measurement  *)
(* but the round-trip time is a fraction of 1.0.                           *)
InRange(f) == {v \in Samples : v >= 0 /\ (f # "Rtt" => v <= One)}

Snapshots == {s \in [Fields -> Samples] : \A f \in Fields : s[f] \in InRange(f)}

Calls == {u \in [field : Fields, val : Samples] : u.val \in InRange(u.field)}

\* NewGMetrics stores a zero snapshot.
Init == /\ data = [ptr |-> 0, val |-> [f \in Fields |-> 0]]
        /\ pc = [p \in Procs |-> "idle"]
        /\ op = [p \in Procs |-> None]
        /\ cur = [p \in Procs |-> data]
        /\ calls = [p \in Procs |-> 0]

isValidTelemetry(val) == val \notin NonFinite

(***************************************************************************)
(* A call of an Update method: an argument that is not accepted returns at *)
(* once, an accepted one enters the loop.                                  *)
(***************************************************************************)
Call(p, field, val, accepted) ==
    /\ pc[p] = "idle"
    /\ calls[p] < MaxCalls
    /\ calls' = [calls EXCEPT ![p] = @ + 1]
    /\ IF accepted
         THEN /\ pc' = [pc EXCEPT ![p] = "load"]
              /\ op' = [op EXCEPT ![p] = [field |-> field, val |-> val]]
         ELSE UNCHANGED <<pc, op>>
    /\ UNCHANGED <<data, cur>>

UpdateLoss(p, val) ==
    Call(p, "Loss", val, isValidTelemetry(val) /\ ~(val < 0) /\ ~(val > One))

UpdateRtt(p, val) ==
    Call(p, "Rtt", val, isValidTelemetry(val) /\ ~(val < 0))

UpdateLoad(p, val) ==
    Call(p, "Load", val, isValidTelemetry(val) /\ ~(val < 0) /\ ~(val > One))

UpdateEnergy(p, val) ==
    Call(p, "Energy", val, isValidTelemetry(val) /\ ~(val < 0) /\ ~(val > One))

\* current := gm.data.Load()
Load(p) ==
    /\ pc[p] = "load"
    /\ cur' = [cur EXCEPT ![p] = data]
    /\ pc' = [pc EXCEPT ![p] = "cas"]
    /\ UNCHANGED <<data, op, calls>>

\* Mutant of CompareAndSwap: next is stored even if the pointer moved on.
StoreAlways(p) ==
    /\ pc[p] = "cas"
    /\ data' = [ptr |-> data.ptr + 1,
                val |-> [cur[p].val EXCEPT ![op[p].field] = op[p].val]]
    /\ pc' = [pc EXCEPT ![p] = "idle"]
    /\ op' = [op EXCEPT ![p] = None]
    /\ UNCHANGED <<cur, calls>>

(***************************************************************************)
(* gm.data.CompareAndSwap(current, next).  next is freshly allocated, and  *)
(* current keeps the object it points to alive, so no address is reused:   *)
(* every installed snapshot has an address of its own.                     *)
(***************************************************************************)
CompareAndSwap(p) ==
    /\ pc[p] = "cas"
    /\ IF data.ptr = cur[p].ptr
         THEN /\ data' = [ptr |-> data.ptr + 1,
                          val |-> [cur[p].val EXCEPT ![op[p].field] = op[p].val]]
              /\ pc' = [pc EXCEPT ![p] = "idle"]
              /\ op' = [op EXCEPT ![p] = None]
         ELSE /\ pc' = [pc EXCEPT ![p] = "load"]
              /\ UNCHANGED <<data, op>>
    /\ UNCHANGED <<cur, calls>>

Update(p) == \E val \in Samples \cup NonFinite :
                 \/ UpdateLoss(p, val)
                 \/ UpdateRtt(p, val)
                 \/ UpdateLoad(p, val)
                 \/ UpdateEnergy(p, val)

Next == \E p \in Procs : Update(p) \/ Load(p) \/ CompareAndSwap(p)

Spec == Init /\ [][Next]_vars

-----------------------------------------------------------------------------
(* TypeOK: the variables hold values of their types; in particular, no     *)
(* snapshot GetSnapshot can return has a field outside the range its       *)
(* Update method accepts.                                                  *)
TypeOK ==
    /\ data \in [ptr : Nat, val : Snapshots]
    /\ pc \in [Procs -> {"idle", "load", "cas"}]
    /\ op \in [Procs -> Calls \cup {None}]
    /\ cur \in [Procs -> [ptr : Nat, val : Snapshots]]
    /\ calls \in [Procs -> 0..MaxCalls]

(* Refinement: the loops implement Telemetry.  A concurrent update of one  *)
(* field is never undone by an update of another field (the loop's copy of *)
(* the other fields is never stale when it is installed), and a rejected   *)
(* measurement changes nothing.                                            *)
Abs == INSTANCE Telemetry
         WITH Values <- {v \in Samples : v >= 0}, Zero <- 0,
              tel <- data.val, pending <- op

Linearizable == Abs!Spec

(* Why the copy is never stale: a goroutine about to swap that still holds *)
(* the current address holds the current snapshot, because every snapshot  *)
(* has an address of its own.                                              *)
CopyIsCurrent ==
    \A p \in Procs :
        pc[p] = "cas" => /\ cur[p].ptr <= data.ptr
                         /\ cur[p].ptr = data.ptr => cur[p].val = data.val

\* A goroutine has a call in progress exactly while it is in the loop.
InLoop == \A p \in Procs : op[p] = None <=> pc[p] = "idle"

IInv == TypeOK /\ CopyIsCurrent /\ InLoop
=============================================================================
