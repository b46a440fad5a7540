----------------------------- MODULE Rtt_proofs -----------------------------
(***************************************************************************)
(* Proofs about Rtt, for any set of goroutines, any times and any number   *)
(* of calls.  Times are integers and the mean is rounded down.             *)
(***************************************************************************)
EXTENDS Rtt, TLAPS

\* The times an accepted call reports are natural numbers.
LEMMA TimesNat == Times \subseteq Nat
<1> SUFFICES ASSUME NEW v \in Times PROVE v \in Nat OBVIOUS
<1>1. v \in Samples /\ v >= 0 BY DEF Times
<1>2. v \in Int BY <1>1, RttAssumption
<1> QED BY <1>1, <1>2

\* A weighted mean lies between zero and any bound of both its arguments.
LEMMA MeanBounded ==
    ASSUME NEW a \in Nat, NEW b \in Nat, NEW top \in Nat, a <= top, b <= top
    PROVE  /\ (7 * a + b) \div 8 \in Nat
           /\ (7 * a + b) \div 8 <= top
OBVIOUS

\* What Update installs is well-formed and bounded by what was reported.
LEMMA SampleBounded ==
    ASSUME NEW m \in Metrics, NEW v \in Nat, peak \in Nat, Bounded(m), v <= peak
    PROVE  nextSample(m, v) \in Metrics /\ Bounded(nextSample(m, v))
<1> DEFINE o == IF m.smoothed = 0 THEN m.old ELSE m.smoothed
           s == (7 * o + v) \div 8
           c == IF s > MaxPing THEN MaxPing ELSE IF s < 0 THEN 0 ELSE s
<1>1. o \in Nat /\ o <= peak BY DEF Metrics, Bounded
<1>2. s \in Nat /\ s <= peak
  <2> HIDE DEF o
  <2> QED BY <1>1, MeanBounded
<1>3. nextSample(m, v) = [old |-> o, new |-> v, smoothed |-> s, coefficient |-> c]
  BY DEF nextSample
<1> HIDE DEF o, s
<1>4. c \in 0..MaxPing /\ c = IF s > MaxPing THEN MaxPing ELSE s
  BY <1>2, RttAssumption
<1> HIDE DEF c
<1> QED BY <1>1, <1>2, <1>3, <1>4 DEF Metrics, Bounded

\* What UpdateRttOld installs is.
LEMMA SeedBounded ==
    ASSUME NEW m \in Metrics, NEW v \in Nat, peak \in Nat, Bounded(m), v <= peak
    PROVE  nextSeed(m, v) \in Metrics /\ Bounded(nextSeed(m, v))
BY DEF nextSeed, Metrics, Bounded

\* What is about to be installed is.
LEMMA NextBounded ==
    ASSUME IInv, NEW p \in Procs, pc[p] = "cas"
    PROVE  next(p) \in Metrics /\ Bounded(next(p))
<1>1. op[p] \in Calls /\ op[p].val <= peak BY DEF IInv, TypeOK, InLoop, LocalsBounded
<1>2. op[p].val \in Nat
  <2>1. op[p].val \in Times BY <1>1 DEF Calls
  <2> QED BY <2>1, TimesNat
<1>3. cur[p].val \in Metrics /\ Bounded(cur[p].val) /\ peak \in Nat
  BY DEF IInv, TypeOK, LocalsBounded
<1> QED BY <1>1, <1>2, <1>3, SampleBounded, SeedBounded DEF next

\* A longer peak bounds what the shorter one did.
LEMMA BoundedMonotone ==
    ASSUME NEW m \in Metrics, peak \in Nat, peak' \in Nat, peak <= peak', Bounded(m)
    PROVE  /\ m.old <= peak' /\ m.new <= peak' /\ m.smoothed <= peak'
           /\ m.coefficient = IF m.smoothed > MaxPing THEN MaxPing ELSE m.smoothed
BY DEF Metrics, Bounded

\* NewRtt establishes the invariant.
LEMMA InitIInv == Init => IInv
<1> SUFFICES ASSUME Init PROVE IInv OBVIOUS
<1>1. data \in [ptr : Nat, val : Metrics] BY RttAssumption DEF Init, Metrics
<1>2. TypeOK BY <1>1, RttAssumption DEF Init, TypeOK
<1>3. Bounded(data.val) BY RttAssumption DEF Init, Bounded
<1> QED BY <1>2, <1>3 DEF Init, IInv, NeverAmplified, CopyIsCurrent, InLoop, LocalsBounded

\* Every step preserves the invariant.
LEMMA NextIInv == IInv /\ [Next]_vars => IInv'
<1> SUFFICES ASSUME IInv, [Next]_vars PROVE IInv' OBVIOUS
<1> USE DEF IInv
<1>1. ASSUME NEW p \in Procs, NEW val \in Samples \cup NonFinite,
             NEW kind \in {"seed", "sample"}, Call(p, kind, val)
      PROVE  IInv'
  <2> DEFINE r == [kind |-> kind, val |-> val]
  <2>1. isValidRtt(val) => val \in Times /\ val \in Nat
    BY RttAssumption DEF isValidRtt, Times
  <2>2. isValidRtt(val) => r \in Calls /\ r # None
    BY <2>1, NoneAssumption DEF Calls
  <2>3. peak' \in Nat /\ peak <= peak' /\ (isValidRtt(val) => val <= peak')
    BY <1>1, <2>1 DEF Call, TypeOK
  <2>4. TypeOK'
    <3>1. calls' \in [Procs -> 0..MaxCalls] BY <1>1, RttAssumption DEF TypeOK, Call
    <3>2. pc' \in [Procs -> {"idle", "load", "cas"}] BY <1>1 DEF TypeOK, Call
    <3>3. op' \in [Procs -> Calls \cup {None}] BY <1>1, <2>2 DEF TypeOK, Call
    <3> QED BY <1>1, <2>3, <3>1, <3>2, <3>3 DEF TypeOK, Call
  <2>5. CopyIsCurrent' BY <1>1 DEF TypeOK, Call, CopyIsCurrent
  <2>6. InLoop' BY <1>1, <2>2 DEF TypeOK, Call, InLoop
  <2>7. NeverAmplified'
    BY <1>1, <2>3, BoundedMonotone DEF TypeOK, Call, NeverAmplified, Bounded
  <2>8. LocalsBounded'
    <3> SUFFICES ASSUME NEW q \in Procs
                 PROVE  Bounded(cur[q].val)' /\ (pc'[q] # "idle" => op'[q].val <= peak')
      BY DEF LocalsBounded
    <3>1. Bounded(cur[q].val)'
      <4>1. cur[q].val \in Metrics /\ Bounded(cur[q].val) /\ peak \in Nat
        BY DEF TypeOK, LocalsBounded
      <4>2. cur' = cur BY <1>1 DEF Call
      <4> QED BY <2>3, <4>1, <4>2, BoundedMonotone DEF Bounded
    <3>2. pc'[q] # "idle" => op'[q].val <= peak'
      <4>1. CASE q = p BY <1>1, <2>2, <2>3, <4>1 DEF Call, TypeOK
      <4>2. CASE q # p
        <5>1. pc'[q] = pc[q] /\ op'[q] = op[q] BY <1>1, <4>2 DEF Call, TypeOK
        <5>2. pc[q] # "idle" => op[q].val <= peak /\ op[q].val \in Int
          BY RttAssumption DEF TypeOK, InLoop, LocalsBounded, Calls, Times
        <5> QED BY <2>3, <5>1, <5>2 DEF TypeOK
      <4> QED BY <4>1, <4>2
    <3> QED BY <3>1, <3>2
  <2> QED BY <2>4, <2>5, <2>6, <2>7, <2>8
<1>2. ASSUME NEW p \in Procs, Load(p) PROVE IInv'
  <2>1. TypeOK' BY <1>2 DEF TypeOK, Load
  <2>2. CopyIsCurrent' BY <1>2 DEF TypeOK, Load, CopyIsCurrent
  <2>3. InLoop' BY <1>2 DEF TypeOK, Load, InLoop
  <2>4. NeverAmplified' BY <1>2 DEF Load, NeverAmplified, Bounded
  <2>5. LocalsBounded'
    <3>1. \A q \in Procs : cur'[q] \in {cur[q], data} BY <1>2 DEF Load, TypeOK
    <3>2. \A q \in Procs : Bounded(cur[q].val)'
      BY <1>2, <3>1 DEF Load, LocalsBounded, NeverAmplified, Bounded
    <3>3. \A q \in Procs : pc'[q] # "idle" => pc[q] # "idle" BY <1>2 DEF Load, TypeOK
    <3> QED BY <1>2, <3>2, <3>3 DEF Load, LocalsBounded
  <2> QED BY <2>1, <2>2, <2>3, <2>4, <2>5
<1>3. ASSUME NEW p \in Procs, CompareAndSwap(p) PROVE IInv'
  <2>1. next(p) \in Metrics /\ Bounded(next(p)) BY <1>3, NextBounded DEF CompareAndSwap
  <2>2. TypeOK'
    <3>1. data' \in [ptr : Nat, val : Metrics] BY <1>3, <2>1 DEF TypeOK, CompareAndSwap
    <3>2. op' \in [Procs -> Calls \cup {None}] BY <1>3 DEF TypeOK, CompareAndSwap
    <3>3. pc' \in [Procs -> {"idle", "load", "cas"}] BY <1>3 DEF TypeOK, CompareAndSwap
    <3> QED BY <1>3, <3>1, <3>2, <3>3 DEF TypeOK, CompareAndSwap
  <2>3. CopyIsCurrent' BY <1>3 DEF TypeOK, CompareAndSwap, CopyIsCurrent
  <2>4. InLoop' BY <1>3 DEF TypeOK, CompareAndSwap, InLoop
  <2>5. NeverAmplified'
    <3>1. data'.val = next(p) \/ data' = data BY <1>3 DEF CompareAndSwap
    <3>2. peak' = peak BY <1>3 DEF CompareAndSwap
    <3>3. Bounded(data'.val) BY <2>1, <3>1 DEF NeverAmplified
    <3> QED BY <3>2, <3>3 DEF NeverAmplified, Bounded
  <2>6. LocalsBounded'
    BY <1>3 DEF TypeOK, CompareAndSwap, LocalsBounded, Bounded
  <2> QED BY <2>2, <2>3, <2>4, <2>5, <2>6
<1>4. CASE UNCHANGED vars
  BY <1>4 DEF vars, TypeOK, NeverAmplified, CopyIsCurrent, InLoop, LocalsBounded, Bounded
<1> QED BY <1>1, <1>2, <1>3, <1>4 DEF Next, UpdateRttOld, Update

\* The invariant holds in every reachable state.
LEMMA Invariance == Spec => []IInv
BY InitIInv, NextIInv, PTL DEF Spec

\* Type correctness: every Metrics GetRtt can return has times of zero or
\* more and a coefficient between 0.0 and 1.0, as rtt.go's comment says.
THEOREM TypeCorrect == Spec => []TypeOK
<1>1. IInv => TypeOK BY DEF IInv
<1> QED BY <1>1, Invariance, PTL

\* The estimate never exceeds the longest time reported, and the coefficient
\* is that of the smoothed time stored with it.
THEOREM Stable == Spec => []NeverAmplified
<1>1. IInv => NeverAmplified BY DEF IInv
<1> QED BY <1>1, Invariance, PTL

\* The loops of Rtt implement RttFilter: every accepted sample is averaged,
\* once, with the estimate the sample before it left.
THEOREM Refinement == Spec => Linearizable
<1>1. Init => Abs!Init BY DEF Init, Abs!Init
<1>2. IInv /\ [Next]_vars => [Abs!Next]_<<data.val, op>>
  <2> SUFFICES ASSUME IInv, [Next]_vars
               PROVE  Abs!Next \/ UNCHANGED <<data.val, op>>
    OBVIOUS
  <2> USE DEF IInv
  <2>1. ASSUME NEW p \in Procs, NEW val \in Samples \cup NonFinite,
               NEW kind \in {"seed", "sample"}, Call(p, kind, val)
        PROVE  Abs!Next \/ UNCHANGED <<data.val, op>>
    <3> DEFINE r == [kind |-> kind, val |-> val]
    <3>1. CASE isValidRtt(val)
      <4>1. r \in Abs!Report
        BY <3>1, RttAssumption DEF Abs!Report, isValidRtt, Times
      <4>2. Abs!Announce(p, r) BY <2>1, <3>1 DEF Call, Abs!Announce, InLoop
      <4> QED BY <4>1, <4>2 DEF Abs!Next
    <3>2. CASE ~isValidRtt(val) BY <2>1, <3>2 DEF Call
    <3> QED BY <3>1, <3>2
  <2>2. ASSUME NEW p \in Procs, Load(p) PROVE UNCHANGED <<data.val, op>>
    BY <2>2 DEF Load
  <2>3. ASSUME NEW p \in Procs, CompareAndSwap(p)
        PROVE  Abs!Next \/ UNCHANGED <<data.val, op>>
    <3>1. CASE data.ptr = cur[p].ptr
      <4> DEFINE v == op[p].val
                 mean == Abs!Mean(Abs!Estimate, v)
      <4>1. cur[p].val = data.val BY <2>3, <3>1 DEF CompareAndSwap, CopyIsCurrent
      <4>2. op[p] \in Calls /\ op[p] # None BY <2>3 DEF CompareAndSwap, TypeOK, InLoop
      <4>3. data'.val = next(p) /\ op' = [op EXCEPT ![p] = None]
        BY <2>3, <3>1 DEF CompareAndSwap
      <4>4. CASE op[p].kind = "seed"
        <5>1. data'.val = [data.val EXCEPT !.old = v] BY <4>1, <4>3, <4>4 DEF next, nextSeed
        <5> QED BY <4>2, <4>3, <4>4, <5>1 DEF Abs!Next, Abs!Apply
      <4>5. CASE op[p].kind # "seed"
        <5>1. data'.val = nextSample(data.val, v) BY <4>1, <4>3, <4>5 DEF next
        <5>2. mean \in Nat
          <6>1. v \in Times BY <4>2 DEF Calls
          <6>2. v \in Nat BY <6>1, TimesNat
          <6>3. Abs!Estimate \in Nat BY DEF Abs!Estimate, TypeOK, Metrics
          <6> QED BY <6>2, <6>3 DEF Abs!Mean
        <5>3. nextSample(data.val, v) =
                [old |-> Abs!Estimate, new |-> v, smoothed |-> mean,
                 coefficient |-> IF mean > MaxPing THEN MaxPing
                                 ELSE IF mean < 0 THEN 0 ELSE mean]
          BY DEF nextSample, Abs!Mean, Abs!Estimate
        <5> HIDE DEF mean
        <5>4. data'.val = [old |-> Abs!Estimate, new |-> v, smoothed |-> mean,
                           coefficient |-> IF mean > MaxPing THEN MaxPing ELSE mean]
          BY <5>1, <5>2, <5>3, RttAssumption
        <5>5. Abs!Apply(p) BY <4>2, <4>3, <4>5, <5>4 DEF Abs!Apply, mean
        <5> QED BY <5>5 DEF Abs!Next
      <4> QED BY <4>4, <4>5
    <3>2. CASE data.ptr # cur[p].ptr BY <2>3, <3>2 DEF CompareAndSwap
    <3> QED BY <3>1, <3>2
  <2>4. CASE UNCHANGED vars BY <2>4 DEF vars
  <2> QED BY <2>1, <2>2, <2>3, <2>4 DEF Next, UpdateRttOld, Update
<1> QED BY <1>1, <1>2, Invariance, PTL DEF Spec, Linearizable, Abs!Spec
=============================================================================
