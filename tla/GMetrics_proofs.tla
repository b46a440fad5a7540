--------------------------- MODULE GMetrics_proofs ---------------------------
(***************************************************************************)
(* Proofs about GMetrics, for any set of goroutines, any samples and any   *)
(* number of calls: the inductive invariant IInv, type correctness, and    *)
(* that the compare-and-swap loops implement Telemetry.                    *)
(***************************************************************************)
EXTENDS GMetrics, TLAPS

\* A call of an Update method either returns at once or starts a loop with
\* an argument in the field's range.
LEMMA UpdateIsCall ==
    ASSUME TypeOK, NEW p \in Procs, Update(p)
    PROVE  \E field \in Fields, val \in Samples \cup NonFinite, accepted \in BOOLEAN :
               /\ Call(p, field, val, accepted)
               /\ accepted => val \in InRange(field)
<1>1. PICK val \in Samples \cup NonFinite :
          \/ UpdateLoss(p, val)
          \/ UpdateRtt(p, val)
          \/ UpdateLoad(p, val)
          \/ UpdateEnergy(p, val)
  BY DEF Update
<1>2. CASE UpdateLoss(p, val)
  <2> DEFINE a == isValidTelemetry(val) /\ ~(val < 0) /\ ~(val > One)
  <2>1. a \in BOOLEAN
    OBVIOUS
  <2>2. a => val \in InRange("Loss")
    BY ConstAssumption DEF InRange, isValidTelemetry
  <2>3. Call(p, "Loss", val, a)
    BY <1>2 DEF UpdateLoss
  <2> QED
    BY <2>1, <2>2, <2>3 DEF Fields
<1>3. CASE UpdateRtt(p, val)
  <2> DEFINE a == isValidTelemetry(val) /\ ~(val < 0)
  <2>1. a \in BOOLEAN
    OBVIOUS
  <2>2. a => val \in InRange("Rtt")
    BY ConstAssumption DEF InRange, isValidTelemetry
  <2>3. Call(p, "Rtt", val, a)
    BY <1>3 DEF UpdateRtt
  <2> QED
    BY <2>1, <2>2, <2>3 DEF Fields
<1>4. CASE UpdateLoad(p, val)
  <2> DEFINE a == isValidTelemetry(val) /\ ~(val < 0) /\ ~(val > One)
  <2>1. a \in BOOLEAN
    OBVIOUS
  <2>2. a => val \in InRange("Load")
    BY ConstAssumption DEF InRange, isValidTelemetry
  <2>3. Call(p, "Load", val, a)
    BY <1>4 DEF UpdateLoad
  <2> QED
    BY <2>1, <2>2, <2>3 DEF Fields
<1>5. CASE UpdateEnergy(p, val)
  <2> DEFINE a == isValidTelemetry(val) /\ ~(val < 0) /\ ~(val > One)
  <2>1. a \in BOOLEAN
    OBVIOUS
  <2>2. a => val \in InRange("Energy")
    BY ConstAssumption DEF InRange, isValidTelemetry
  <2>3. Call(p, "Energy", val, a)
    BY <1>5 DEF UpdateEnergy
  <2> QED
    BY <2>1, <2>2, <2>3 DEF Fields
<1> QED
  BY <1>1, <1>2, <1>3, <1>4, <1>5

\* NewGMetrics establishes the invariant.
LEMMA InitIInv == Init => IInv
<1> SUFFICES ASSUME Init PROVE IInv
  OBVIOUS
<1>1. data.val \in Snapshots
  BY ConstAssumption DEF Init, Snapshots, InRange
<1>2. TypeOK
  BY <1>1, ConstAssumption DEF Init, TypeOK
<1> QED
  BY <1>2 DEF Init, IInv, CopyIsCurrent, InLoop

\* The snapshot a successful swap installs: one field of the loaded one is
\* changed, to a measurement in that field's range.
LEMMA NextSnapshot ==
    ASSUME NEW s \in Snapshots, NEW u \in Calls
    PROVE  [s EXCEPT ![u.field] = u.val] \in Snapshots
BY DEF Snapshots, Calls

\* Every step preserves the invariant.
LEMMA NextIInv == IInv /\ [Next]_vars => IInv'
<1> SUFFICES ASSUME IInv, [Next]_vars PROVE IInv'
  OBVIOUS
<1> USE DEF IInv
<1>1. ASSUME NEW p \in Procs, Update(p) PROVE IInv'
  <2>1. PICK field \in Fields, val \in Samples \cup NonFinite, accepted \in BOOLEAN :
            /\ Call(p, field, val, accepted)
            /\ accepted => val \in InRange(field)
    BY <1>1, UpdateIsCall
  <2>2. accepted => [field |-> field, val |-> val] \in Calls
    BY <2>1 DEF Calls, InRange
  <2>3. TypeOK'
    BY <2>1, <2>2, ConstAssumption DEF TypeOK, Call
  <2>4. CopyIsCurrent'
    BY <2>1 DEF TypeOK, Call, CopyIsCurrent
  <2>5. accepted => [field |-> field, val |-> val] # None
    BY <2>2, NoneAssumption DEF Calls
  <2>6. InLoop'
    BY <2>1, <2>5 DEF TypeOK, Call, InLoop
  <2> QED
    BY <2>3, <2>4, <2>6
<1>2. ASSUME NEW p \in Procs, Load(p) PROVE IInv'
  <2>1. TypeOK'
    BY <1>2 DEF TypeOK, Load
  <2>2. CopyIsCurrent'
    BY <1>2 DEF TypeOK, Load, CopyIsCurrent
  <2>3. InLoop'
    BY <1>2 DEF TypeOK, Load, InLoop
  <2> QED
    BY <2>1, <2>2, <2>3
<1>3. ASSUME NEW p \in Procs, CompareAndSwap(p) PROVE IInv'
  <2>1. op[p] \in Calls
    BY <1>3 DEF TypeOK, InLoop, CompareAndSwap
  <2>2. [cur[p].val EXCEPT ![op[p].field] = op[p].val] \in Snapshots
    BY <2>1, NextSnapshot DEF TypeOK
  <2>3. TypeOK'
    <3>1. data' \in [ptr : Nat, val : Snapshots]
      BY <1>3, <2>2 DEF TypeOK, CompareAndSwap
    <3>2. op' \in [Procs -> Calls \cup {None}]
      BY <1>3 DEF TypeOK, CompareAndSwap
    <3>3. pc' \in [Procs -> {"idle", "load", "cas"}]
      BY <1>3 DEF TypeOK, CompareAndSwap
    <3> QED
      BY <1>3, <3>1, <3>2, <3>3 DEF TypeOK, CompareAndSwap
  <2>4. CopyIsCurrent'
    BY <1>3 DEF TypeOK, CompareAndSwap, CopyIsCurrent
  <2>5. InLoop'
    BY <1>3, <2>1, NoneAssumption DEF TypeOK, CompareAndSwap, InLoop, Calls
  <2> QED
    BY <2>3, <2>4, <2>5
<1>4. CASE UNCHANGED vars
  BY <1>4 DEF vars, TypeOK, CopyIsCurrent, InLoop
<1> QED
  BY <1>1, <1>2, <1>3, <1>4 DEF Next

\* The invariant holds in every reachable state.
LEMMA Invariance == Spec => []IInv
BY InitIInv, NextIInv, PTL DEF Spec

\* Type correctness: every snapshot a reader of GMetrics can load has each
\* field inside the range its Update method accepts.
THEOREM TypeCorrect == Spec => []TypeOK
<1>1. IInv => TypeOK
  BY DEF IInv
<1> QED
  BY <1>1, Invariance, PTL

\* The loops of GMetrics implement Telemetry: no update of one field undoes
\* an update of another, whatever the interleaving.
THEOREM Refinement == Spec => Linearizable
<1>1. Init => Abs!Init
  BY DEF Init, Abs!Init
<1>2. IInv /\ [Next]_vars => [Abs!Next]_<<data.val, op>>
  <2> SUFFICES ASSUME IInv, [Next]_vars
               PROVE  Abs!Next \/ UNCHANGED <<data.val, op>>
    OBVIOUS
  <2> USE DEF IInv
  <2>1. ASSUME NEW p \in Procs, Update(p)
        PROVE  Abs!Next \/ UNCHANGED <<data.val, op>>
    <3>1. PICK field \in Fields, val \in Samples \cup NonFinite, accepted \in BOOLEAN :
              /\ Call(p, field, val, accepted)
              /\ accepted => val \in InRange(field)
      BY <2>1, UpdateIsCall
    <3> DEFINE u == [field |-> field, val |-> val]
    <3>2. CASE accepted
      <4>1. u \in Abs!Update
        BY <3>1, <3>2 DEF Abs!Update, InRange
      <4>2. Abs!Announce(p, u)
        BY <3>1, <3>2 DEF Call, Abs!Announce, InLoop
      <4> QED
        BY <4>1, <4>2 DEF Abs!Next
    <3>3. CASE ~accepted
      BY <3>1, <3>3 DEF Call
    <3> QED
      BY <3>2, <3>3
  <2>2. ASSUME NEW p \in Procs, Load(p)
        PROVE  UNCHANGED <<data.val, op>>
    BY <2>2 DEF Load
  <2>3. ASSUME NEW p \in Procs, CompareAndSwap(p)
        PROVE  Abs!Next \/ UNCHANGED <<data.val, op>>
    <3>1. CASE data.ptr = cur[p].ptr
      <4>1. cur[p].val = data.val
        BY <2>3, <3>1 DEF CompareAndSwap, CopyIsCurrent
      <4>2. Abs!Apply(p)
        BY <2>3, <3>1, <4>1 DEF CompareAndSwap, Abs!Apply, InLoop
      <4> QED
        BY <4>2 DEF Abs!Next
    <3>2. CASE data.ptr # cur[p].ptr
      BY <2>3, <3>2 DEF CompareAndSwap
    <3> QED
      BY <3>1, <3>2
  <2>4. CASE UNCHANGED vars
    BY <2>4 DEF vars
  <2> QED
    BY <2>1, <2>2, <2>3, <2>4 DEF Next
<1> QED
  BY <1>1, <1>2, Invariance, PTL DEF Spec, Linearizable, Abs!Spec
=============================================================================
