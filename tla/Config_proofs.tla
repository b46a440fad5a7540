---------------------------- MODULE Config_proofs ----------------------------
(***************************************************************************)
(* Proofs about Config, for any goroutines, files and bounds: the          *)
(* inductive invariant IInv, type correctness (every published snapshot is *)
(* valid), the refinement of ConfigStore, that LastReloadTime never goes   *)
(* back, and that the metrics count every reload once.                     *)
(***************************************************************************)
EXTENDS Config, FiniteSetTheorems, TLAPS

\* What Reload builds from a usable file is a valid configuration.
LEMMA UsableIsValid ==
    ASSUME NEW f \in Files, Usable(f)
    PROVE  [active |-> f.active, profiles |-> f.profiles] \in ValidConfigs
<1> DEFINE c == [active |-> f.active, profiles |-> f.profiles]
<1>1. c \in Configs
  BY ConfigAssumption DEF Configs
<1>2. c.active = f.active /\ c.profiles = f.profiles
  OBVIOUS
<1>3. ASSUME NEW n \in DOMAIN f.profiles
      PROVE  /\ \A w \in WeightFields : f.profiles[n][w] \in 0..maxWeight
             /\ Sum(f.profiles[n]) >= epsilon
  <2> DEFINE w == f.profiles[n]
  <2>1. w \in [WeightFields -> Weights]
    BY ConfigAssumption DEF ProfileWeights
  <2>2. ValidWeights(w)
    BY DEF Usable, validateRawConfig
  <2>0. Weights \subseteq Int /\ maxWeight \in Nat /\ epsilon \in Nat
    BY ConfigAssumption
  <2> HIDE DEF w
  <2>3. \A x \in WeightFields : w[x] \in 0..maxWeight
    <3> TAKE x \in WeightFields
    <3>1. w[x] \in Int
      BY <2>0, <2>1
    <3>2. ~(w[x] < 0) /\ ~(w[x] > maxWeight)
      BY <2>2 DEF ValidWeights
    <3> QED
      BY <2>0, <3>1, <3>2
  <2>4. Sum(w) >= epsilon
    BY <2>0, <2>2, <2>3 DEF ValidWeights, Sum, Abs, WeightFields
  <2> QED
    BY <2>3, <2>4 DEF w
<1>4. f.active \in DOMAIN f.profiles /\ Blank \notin DOMAIN f.profiles
  BY DEF Usable, validateRawConfig
<1> HIDE DEF c
<1> QED
  BY <1>1, <1>2, <1>3, <1>4 DEF ValidConfigs, c

\* Switching a valid configuration to a profile it defines gives a valid one.
LEMMA SwitchIsValid ==
    ASSUME NEW c \in ValidConfigs, NEW n \in Names \cup {Blank}, n \in DOMAIN c.profiles
    PROVE  [active |-> n, profiles |-> c.profiles] \in ValidConfigs
<1>1. PICK f \in Files : c.profiles = f.profiles
  BY DEF ValidConfigs, Configs
<1>2. [active |-> n, profiles |-> c.profiles] \in Configs
  BY <1>1 DEF Configs
<1> QED
  BY <1>2 DEF ValidConfigs

LEMMA ValidIsNotNil == Nil \notin ValidConfigs
BY ConfigAssumption DEF ValidConfigs

\* NewConfigManager's first state satisfies the invariant.
LEMMA InitIInv == Init => IInv
<1> SUFFICES ASSUME Init PROVE IInv
  OBVIOUS
<1>1. TypeOK
  BY ConfigAssumption DEF Init, TypeOK, Labels
<1> QED
  BY <1>1 DEF Init, IInv, StoresUsable, SnapCopyIsCurrent, MetrCopyIsCurrent,
              TimesOrdered, SnapshotExists

\* Every step of a goroutine, of the clock or of the file preserves IInv.
LEMMA NextIInv == IInv /\ [Next]_vars => IInv'
<1> SUFFICES ASSUME IInv, [Next]_vars PROVE IInv'
  OBVIOUS
<1> USE DEF IInv, Goto, env, local, hist
<1>0. MaxTime \in Nat /\ MaxWrites \in Nat
  BY ConfigAssumption
<1>1. ASSUME NEW p \in Procs, Reload(p) PROVE IInv'
  <2> USE <1>1 DEF Reload, Begin
  <2>1. TypeOK'
    BY DEF TypeOK, Labels
  <2>2. StoresUsable' /\ SnapCopyIsCurrent' /\ MetrCopyIsCurrent'
    BY DEF TypeOK, StoresUsable, SnapCopyIsCurrent, MetrCopyIsCurrent
  <2>3. TimesOrdered' /\ SnapshotExists'
    BY DEF TypeOK, TimesOrdered, SnapshotExists
  <2> QED
    BY <2>1, <2>2, <2>3
<1>2. ASSUME NEW p \in Procs, NEW n \in Names, SwitchProfile(p, n) PROVE IInv'
  <2> USE <1>2 DEF SwitchProfile, Begin
  <2>1. TypeOK'
    BY DEF TypeOK, Labels
  <2>2. StoresUsable' /\ SnapCopyIsCurrent' /\ MetrCopyIsCurrent'
    BY DEF TypeOK, StoresUsable, SnapCopyIsCurrent, MetrCopyIsCurrent
  <2>3. TimesOrdered' /\ SnapshotExists'
    BY DEF TypeOK, TimesOrdered, SnapshotExists
  <2> QED
    BY <2>1, <2>2, <2>3
<1>3. ASSUME NEW p \in Procs, ReadFile(p) PROVE IInv'
  <2> USE <1>3 DEF ReadFile
  <2>1. TypeOK'
    <3>1. pc' \in [Procs -> Labels]
      BY SMTT(30) DEF TypeOK, Labels
    <3>2. rejects' \in Nat
      BY DEF TypeOK
    <3> QED
      BY <3>1, <3>2 DEF TypeOK
  <2>2. StoresUsable' /\ SnapCopyIsCurrent' /\ MetrCopyIsCurrent'
    BY DEF TypeOK, StoresUsable, SnapCopyIsCurrent, MetrCopyIsCurrent
  <2>3. TimesOrdered' /\ SnapshotExists'
    BY DEF TypeOK, TimesOrdered, SnapshotExists
  <2> QED
    BY <2>1, <2>2, <2>3
<1>4. ASSUME NEW p \in Procs, StoreSnapshot(p) PROVE IInv'
  <2> USE <1>4 DEF StoreSnapshot
  <2>0. snapshot'.conf \in ValidConfigs /\ snapshot'.conf # Nil
    BY UsableIsValid, ValidIsNotNil DEF TypeOK, StoresUsable
  <2>1. TypeOK'
    BY <2>0 DEF TypeOK, Labels
  <2>2. StoresUsable' /\ SnapCopyIsCurrent' /\ MetrCopyIsCurrent'
    BY DEF TypeOK, StoresUsable, SnapCopyIsCurrent, MetrCopyIsCurrent
  <2>3. TimesOrdered' /\ SnapshotExists'
    BY <2>0 DEF TypeOK, TimesOrdered, SnapshotExists
  <2> QED
    BY <2>1, <2>2, <2>3
<1>5. ASSUME NEW p \in Procs, LoadMetrics(p) PROVE IInv'
  <2> USE <1>5 DEF LoadMetrics
  <2>1. TypeOK'
    BY DEF TypeOK, Labels
  <2>2. StoresUsable' /\ SnapCopyIsCurrent' /\ MetrCopyIsCurrent'
    BY DEF TypeOK, StoresUsable, SnapCopyIsCurrent, MetrCopyIsCurrent
  <2>3. TimesOrdered' /\ SnapshotExists'
    BY DEF TypeOK, TimesOrdered, SnapshotExists
  <2> QED
    BY <2>1, <2>2, <2>3
<1>6. ASSUME NEW p \in Procs, TakeTime(p) PROVE IInv'
  <2> USE <1>6 DEF TakeTime
  <2>1. TypeOK'
    BY DEF TypeOK, Labels
  <2>2. StoresUsable' /\ SnapCopyIsCurrent' /\ MetrCopyIsCurrent'
    BY DEF TypeOK, StoresUsable, SnapCopyIsCurrent, MetrCopyIsCurrent
  <2>3. TimesOrdered' /\ SnapshotExists'
    BY <1>0 DEF TypeOK, TimesOrdered, SnapshotExists
  <2> QED
    BY <2>1, <2>2, <2>3
<1>7. ASSUME NEW p \in Procs, CasSuccess(p) PROVE IInv'
  <2> USE <1>7 DEF CasSuccess, Return
  <2>0. snapshot.conf # Nil
    BY DEF SnapshotExists
  <2>1. TypeOK'
    <3>1. pc' \in [Procs -> Labels]
      BY DEF TypeOK, Labels
    <3>2. metrics' \in [ptr : Nat, time : 0..MaxTime, success : Nat, failure : Nat]
      BY DEF TypeOK
    <3>3. manager' \in {"creating", "ready", "failed"}
      BY DEF TypeOK
    <3> QED
      BY <2>0, <3>1, <3>2, <3>3 DEF TypeOK
  <2>2. StoresUsable' /\ SnapCopyIsCurrent' /\ MetrCopyIsCurrent'
    BY SMTT(30) DEF TypeOK, StoresUsable, SnapCopyIsCurrent, MetrCopyIsCurrent
  <2>3. TimesOrdered' /\ SnapshotExists'
    BY DEF TypeOK, TimesOrdered, SnapshotExists
  <2> QED
    BY <2>1, <2>2, <2>3
<1>8. ASSUME NEW p \in Procs, incrementFailureMetric(p) PROVE IInv'
  <2> USE <1>8 DEF incrementFailureMetric, Return
  <2>1. TypeOK'
    <3>1. pc' \in [Procs -> Labels]
      BY DEF TypeOK, Labels
    <3>2. metrics' \in [ptr : Nat, time : 0..MaxTime, success : Nat, failure : Nat]
      BY DEF TypeOK
    <3>3. manager' \in {"creating", "ready", "failed"}
      BY DEF TypeOK
    <3>4. manager' = "ready" => snapshot.conf # Nil
      BY DEF TypeOK
    <3> QED
      BY <3>1, <3>2, <3>3, <3>4 DEF TypeOK
  <2>2. StoresUsable' /\ SnapCopyIsCurrent' /\ MetrCopyIsCurrent'
    BY SMTT(30) DEF TypeOK, StoresUsable, SnapCopyIsCurrent, MetrCopyIsCurrent
  <2>3. TimesOrdered' /\ SnapshotExists'
    BY DEF TypeOK, TimesOrdered, SnapshotExists, MetrCopyIsCurrent
  <2> QED
    BY <2>1, <2>2, <2>3
<1>9. ASSUME NEW p \in Procs, LoadSnapshot(p) PROVE IInv'
  <2> USE <1>9 DEF LoadSnapshot
  <2>1. TypeOK'
    BY DEF TypeOK, Labels
  <2>2. StoresUsable' /\ SnapCopyIsCurrent' /\ MetrCopyIsCurrent'
    BY DEF TypeOK, StoresUsable, SnapCopyIsCurrent, MetrCopyIsCurrent, SnapshotExists
  <2>3. TimesOrdered' /\ SnapshotExists'
    BY DEF TypeOK, TimesOrdered, SnapshotExists
  <2> QED
    BY <2>1, <2>2, <2>3
<1>10. ASSUME NEW p \in Procs, CasSnapshot(p) PROVE IInv'
  <2> USE <1>10 DEF CasSnapshot
  <2>0. /\ [active |-> arg[p], profiles |-> curSnap[p].conf.profiles] \in ValidConfigs
        /\ [active |-> arg[p], profiles |-> curSnap[p].conf.profiles] # Nil
    BY SwitchIsValid, ValidIsNotNil DEF TypeOK, SnapCopyIsCurrent
  <2>1. TypeOK'
    <3>1. pc' \in [Procs -> Labels]
      BY DEF TypeOK, Labels
    <3>2. snapshot' \in [ptr : Nat, conf : ValidConfigs \cup {Nil}]
      BY <2>0 DEF TypeOK
    <3>3. manager' = "ready" => snapshot'.conf # Nil
      BY <2>0 DEF TypeOK
    <3> QED
      BY <3>1, <3>2, <3>3 DEF TypeOK
  <2>2. StoresUsable' /\ SnapCopyIsCurrent' /\ MetrCopyIsCurrent'
    BY DEF TypeOK, StoresUsable, SnapCopyIsCurrent, MetrCopyIsCurrent
  <2>3. TimesOrdered' /\ SnapshotExists'
    BY <2>0 DEF TypeOK, TimesOrdered, SnapshotExists
  <2> QED
    BY <2>1, <2>2, <2>3
<1>11. ASSUME NEW f \in Files, WriteFile(f) PROVE IInv'
  BY <1>0, <1>11 DEF WriteFile, TypeOK, StoresUsable, SnapCopyIsCurrent, MetrCopyIsCurrent,
                TimesOrdered, SnapshotExists
<1>12. ASSUME Tick PROVE IInv'
  BY <1>0, <1>12 DEF Tick, TypeOK, StoresUsable, SnapCopyIsCurrent, MetrCopyIsCurrent,
                TimesOrdered, SnapshotExists
<1>13. CASE UNCHANGED vars
  BY <1>13 DEF vars, TypeOK, StoresUsable, SnapCopyIsCurrent, MetrCopyIsCurrent,
               TimesOrdered, SnapshotExists
<1> QED
  BY <1>1, <1>2, <1>3, <1>4, <1>5, <1>6, <1>7, <1>8, <1>9, <1>10, <1>11, <1>12, <1>13
     DEF Next, Step

LEMMA Invariance == Spec => []IInv
BY InitIInv, NextIInv, PTL DEF Spec

\* Type correctness, and with it: every published snapshot is a valid
\* configuration whose active profile is defined.
THEOREM TypeCorrect == Spec => []TypeOK
<1>1. IInv => TypeOK
  BY DEF IInv
<1> QED
  BY <1>1, Invariance, PTL

\* ConfigManager implements ConfigStore: a switch of profile never undoes a
\* reload and never activates a profile that is not defined.
THEOREM Refinement == Spec => Implements
<1>1. Init => Abstract!Init
  BY DEF Init, Abstract!Init
<1>2. IInv /\ [Next]_vars => [Abstract!Next]_(<<snapshot.conf, installs>>)
  <2> SUFFICES ASSUME IInv, [Next]_vars, ~ UNCHANGED <<snapshot.conf, installs>>
               PROVE  Abstract!Next
    OBVIOUS
  <2> USE DEF IInv, Goto, env, local, hist
  <2>1. ASSUME NEW p \in Procs, StoreSnapshot(p) PROVE Abstract!Next
    <3>1. snapshot'.conf \in ValidConfigs
      BY <2>1, UsableIsValid DEF TypeOK, StoresUsable, StoreSnapshot
    <3>2. installs' = installs + 1
      BY <2>1 DEF StoreSnapshot
    <3> QED
      BY <3>1, <3>2 DEF Abstract!Next, Abstract!Install
  <2>2. ASSUME NEW p \in Procs, CasSnapshot(p) PROVE Abstract!Next
    <3>1. /\ pc[p] = "swCas"
          /\ snapshot.ptr = curSnap[p].ptr
          /\ UNCHANGED installs
          /\ snapshot'.conf = [active |-> arg[p], profiles |-> curSnap[p].conf.profiles]
      BY <2>2 DEF CasSnapshot
    <3>2. curSnap[p] = snapshot /\ snapshot.conf # Nil /\ arg[p] \in DOMAIN snapshot.conf.profiles
      BY <3>1 DEF SnapCopyIsCurrent
    <3>3. snapshot.conf \in ValidConfigs
      BY <3>2 DEF TypeOK
    <3>4. arg[p] # Blank
      BY <3>2, <3>3 DEF ValidConfigs
    <3>5. arg[p] \in Names
      BY <3>4 DEF TypeOK
    <3>6. PICK n \in Names \cup {Blank}, f \in Files :
              snapshot.conf = [active |-> n, profiles |-> f.profiles]
      BY <3>3 DEF ValidConfigs, Configs
    <3>7. snapshot'.conf = [snapshot.conf EXCEPT !.active = arg[p]]
      BY <3>1, <3>2, <3>6
    <3> QED
      BY <3>1, <3>2, <3>5, <3>7 DEF Abstract!Next, Abstract!Switch
  <2>3. ASSUME NEW p \in Procs,
               \/ Reload(p) \/ ReadFile(p) \/ LoadMetrics(p) \/ TakeTime(p)
               \/ CasSuccess(p) \/ incrementFailureMetric(p) \/ LoadSnapshot(p)
               \/ \E n \in Names : SwitchProfile(p, n)
        PROVE  UNCHANGED <<snapshot.conf, installs>>
    BY <2>3 DEF Reload, ReadFile, LoadMetrics, TakeTime, CasSuccess,
                incrementFailureMetric, LoadSnapshot, SwitchProfile
  <2>4. ASSUME Tick \/ (\E f \in Files : WriteFile(f)) PROVE UNCHANGED <<snapshot.conf, installs>>
    BY <2>4 DEF Tick, WriteFile
  <2>5. CASE UNCHANGED vars
    BY <2>5 DEF vars
  <2> QED
    BY <2>1, <2>2, <2>3, <2>4, <2>5 DEF Next, Step
<1> QED
  BY <1>1, <1>2, Invariance, PTL DEF Spec, Implements, Abstract!Spec, Abstract!vars

\* LastReloadTime never goes back: the swap succeeds only if the metrics are
\* still the loaded ones, and the clock was read after the load.
THEOREM TimeMonotone == Spec => ReloadTimeMonotone
<1>1. IInv /\ [Next]_vars => [metrics'.time >= metrics.time]_vars
  <2> SUFFICES ASSUME IInv, Next PROVE metrics'.time >= metrics.time
    OBVIOUS
  <2> USE DEF IInv
  <2>0. metrics.time \in Nat
    BY ConfigAssumption DEF TypeOK
  <2>1. ASSUME NEW p \in Procs, CasSuccess(p) PROVE metrics'.time >= metrics.time
    <3>1. CASE metrics.ptr = curMetr[p].ptr
      <4>1. curMetr[p].time <= stamp[p] /\ metrics'.time = stamp[p]
        BY <2>1, <3>1 DEF CasSuccess, TimesOrdered
      <4>2. curMetr[p] = metrics
        BY <2>1, <3>1 DEF CasSuccess, MetrCopyIsCurrent
      <4>3. stamp[p] \in Nat
        BY ConfigAssumption DEF TypeOK
      <4> QED
        BY <2>0, <4>1, <4>2, <4>3
    <3>2. CASE metrics.ptr # curMetr[p].ptr
      BY <2>0, <2>1, <3>2 DEF CasSuccess
    <3> QED
      BY <3>1, <3>2
  <2>2. ASSUME NEW p \in Procs, incrementFailureMetric(p)
        PROVE  metrics'.time >= metrics.time
    <3>1. CASE metrics.ptr = curMetr[p].ptr
      BY <2>0, <2>2, <3>1 DEF incrementFailureMetric, MetrCopyIsCurrent
    <3>2. CASE metrics.ptr # curMetr[p].ptr
      BY <2>0, <2>2, <3>2 DEF incrementFailureMetric
    <3> QED
      BY <3>1, <3>2
  <2>3. ASSUME NEW p \in Procs,
               \/ Reload(p) \/ ReadFile(p) \/ StoreSnapshot(p) \/ LoadMetrics(p)
               \/ TakeTime(p) \/ LoadSnapshot(p) \/ CasSnapshot(p)
               \/ \E n \in Names : SwitchProfile(p, n)
        PROVE  metrics' = metrics
    BY <2>3 DEF Reload, ReadFile, StoreSnapshot, LoadMetrics, TakeTime,
                LoadSnapshot, CasSnapshot, SwitchProfile
  <2>4. ASSUME Tick \/ (\E f \in Files : WriteFile(f)) PROVE metrics' = metrics
    BY <2>4 DEF Tick, WriteFile
  <2> QED
    BY <2>0, <2>1, <2>2, <2>3, <2>4 DEF Next, Step
<1> QED
  BY <1>1, Invariance, PTL DEF Spec, ReloadTimeMonotone

Counting == {"okLoad", "okTime", "okCas"}
Failing  == {"failLoad", "failCas"}

\* The number of goroutines at some labels, when one goroutine moves.
LEMMA Moves ==
    ASSUME TypeOK, NEW p \in Procs, NEW label \in Labels, Goto(p, label), NEW L
    PROVE  /\ Cardinality(InPc(L)) \in Nat /\ Cardinality(InPc(L)') \in Nat
           /\ pc[p] \in L /\ label \in L => Cardinality(InPc(L)') = Cardinality(InPc(L))
           /\ pc[p] \notin L /\ label \notin L => Cardinality(InPc(L)') = Cardinality(InPc(L))
           /\ pc[p] \notin L /\ label \in L => Cardinality(InPc(L)') = Cardinality(InPc(L)) + 1
           /\ pc[p] \in L /\ label \notin L => Cardinality(InPc(L)') = Cardinality(InPc(L)) - 1
<1>1. InPc(L) \in SUBSET Procs /\ InPc(L)' \in SUBSET Procs BY DEF InPc
<1>2. IsFiniteSet(InPc(L)) /\ IsFiniteSet(InPc(L)') BY <1>1, ConfigAssumption, FS_Subset
<1>3. Cardinality(InPc(L)) \in Nat /\ Cardinality(InPc(L)') \in Nat BY <1>2, FS_CardinalityType
<1>4. pc[p] \in L <=> p \in InPc(L) BY DEF InPc
<1>5. label \in L => InPc(L)' = InPc(L) \cup {p} BY DEF InPc, Goto, TypeOK
<1>6. label \notin L => InPc(L)' = InPc(L) \ {p} BY DEF InPc, Goto, TypeOK
<1>7. Cardinality(InPc(L) \cup {p}) = IF p \in InPc(L) THEN Cardinality(InPc(L)) ELSE Cardinality(InPc(L)) + 1
  BY <1>2, FS_AddElement
<1>8. Cardinality(InPc(L) \ {p}) = IF p \in InPc(L) THEN Cardinality(InPc(L)) - 1 ELSE Cardinality(InPc(L))
  BY <1>2, FS_RemoveElement
<1> QED BY <1>3, <1>4, <1>5, <1>6, <1>7, <1>8

\* Every step keeps the metrics exact.
LEMMA NextCounts == IInv /\ CountsExact /\ [Next]_vars => CountsExact'
<1> SUFFICES ASSUME IInv, CountsExact, [Next]_vars PROVE CountsExact' OBVIOUS
<1> DEFINE c(L) == Cardinality(InPc(L))
<1>0. TypeOK /\ metrics.success \in Nat /\ metrics.failure \in Nat /\ installs \in Nat /\ rejects \in Nat
  BY DEF IInv, TypeOK
<1>1. metrics.success + c(Counting) = installs /\ metrics.failure + c(Failing) = rejects
  BY DEF CountsExact, Counting, Failing
<1>2. SUFFICES metrics'.success + c(Counting)' = installs' /\ metrics'.failure + c(Failing)' = rejects'
  BY DEF CountsExact, Counting, Failing
<1>3. ASSUME NEW p \in Procs, NEW label \in Labels, Goto(p, label), UNCHANGED <<metrics, hist>>,
             pc[p] \in Counting <=> label \in Counting, pc[p] \in Failing <=> label \in Failing
      PROVE  metrics'.success + c(Counting)' = installs' /\ metrics'.failure + c(Failing)' = rejects'
  <2>1. c(Counting)' = c(Counting) /\ c(Failing)' = c(Failing) BY <1>0, <1>3, Moves
  <2> QED BY <1>1, <1>3, <2>1 DEF hist
<1> USE DEF Counting, Failing, Labels
<1>4. ASSUME NEW p \in Procs, \/ Reload(p) \/ \E n \in Names : SwitchProfile(p, n)
                              \/ LoadSnapshot(p) \/ CasSnapshot(p) \/ LoadMetrics(p) \/ TakeTime(p)
      PROVE  metrics'.success + c(Counting)' = installs' /\ metrics'.failure + c(Failing)' = rejects'
  <2>1. UNCHANGED <<metrics, hist>>
    BY <1>4 DEF Reload, Begin, SwitchProfile, LoadSnapshot, CasSnapshot, LoadMetrics, TakeTime
  <2>2. \/ pc[p] = "idle" /\ (Goto(p, "read") \/ Goto(p, "swLoad"))
        \/ pc[p] = "swLoad" /\ (Goto(p, "swCas") \/ Goto(p, "idle"))
        \/ pc[p] = "swCas" /\ (Goto(p, "swLoad") \/ Goto(p, "idle"))
        \/ pc[p] = "okLoad" /\ Goto(p, "okTime")
        \/ pc[p] = "failLoad" /\ Goto(p, "failCas")
        \/ pc[p] = "okTime" /\ Goto(p, "okCas")
    BY <1>4 DEF Reload, Begin, SwitchProfile, LoadSnapshot, CasSnapshot, LoadMetrics, TakeTime
  <2>3. \E label \in Labels : /\ Goto(p, label) /\ (pc[p] \in Counting <=> label \in Counting)
                              /\ pc[p] \in Failing <=> label \in Failing
    BY <2>2
  <2> QED BY <1>3, <2>1, <2>3
<1>5. ASSUME NEW p \in Procs, ReadFile(p)
      PROVE  metrics'.success + c(Counting)' = installs' /\ metrics'.failure + c(Failing)' = rejects'
  <2>1. pc[p] = "read" /\ UNCHANGED <<metrics, installs>> BY <1>5 DEF ReadFile
  <2>2. CASE Goto(p, "store") /\ UNCHANGED rejects
    BY <1>3, <2>1, <2>2 DEF hist
  <2>3. CASE Goto(p, "failLoad") /\ rejects' = rejects + 1
    <3>1. c(Counting)' = c(Counting) /\ c(Failing)' = c(Failing) + 1 /\ c(Failing) \in Nat
      BY <1>0, <2>1, <2>3, Moves
    <3> QED BY <1>0, <1>1, <2>1, <2>3, <3>1
  <2> QED BY <1>5, <2>2, <2>3 DEF ReadFile
<1>6. ASSUME NEW p \in Procs, StoreSnapshot(p)
      PROVE  metrics'.success + c(Counting)' = installs' /\ metrics'.failure + c(Failing)' = rejects'
  <2>1. /\ pc[p] = "store" /\ Goto(p, "okLoad") /\ installs' = installs + 1
        /\ UNCHANGED <<metrics, rejects>>
    BY <1>6 DEF StoreSnapshot
  <2>2. c(Counting)' = c(Counting) + 1 /\ c(Failing)' = c(Failing) /\ c(Counting) \in Nat
    BY <1>0, <2>1, Moves
  <2> QED BY <1>0, <1>1, <2>1, <2>2
<1>7. ASSUME NEW p \in Procs, CasSuccess(p)
      PROVE  metrics'.success + c(Counting)' = installs' /\ metrics'.failure + c(Failing)' = rejects'
  <2>1. pc[p] = "okCas" /\ UNCHANGED hist BY <1>7 DEF CasSuccess
  <2>2. CASE metrics.ptr = curMetr[p].ptr
    <3>1. curMetr[p] = metrics BY <2>1, <2>2 DEF IInv, MetrCopyIsCurrent
    <3>2. metrics'.success = metrics.success + 1 /\ metrics'.failure = metrics.failure /\ Goto(p, "idle")
      BY <1>7, <2>2, <3>1 DEF CasSuccess, Return
    <3>3. c(Counting)' = c(Counting) - 1 /\ c(Failing)' = c(Failing) /\ c(Counting) \in Nat
      BY <1>0, <2>1, <3>2, Moves
    <3> QED BY <1>0, <1>1, <2>1, <3>2, <3>3 DEF hist
  <2>3. CASE metrics.ptr # curMetr[p].ptr
    <3>1. Goto(p, "okLoad") /\ UNCHANGED metrics BY <1>7, <2>3 DEF CasSuccess
    <3> QED BY <1>3, <2>1, <3>1
  <2> QED BY <2>2, <2>3
<1>8. ASSUME NEW p \in Procs, incrementFailureMetric(p)
      PROVE  metrics'.success + c(Counting)' = installs' /\ metrics'.failure + c(Failing)' = rejects'
  <2>1. pc[p] = "failCas" /\ UNCHANGED hist BY <1>8 DEF incrementFailureMetric
  <2>2. CASE metrics.ptr = curMetr[p].ptr
    <3>1. curMetr[p] = metrics BY <2>1, <2>2 DEF IInv, MetrCopyIsCurrent
    <3>2. metrics'.success = metrics.success /\ metrics'.failure = metrics.failure + 1 /\ Goto(p, "idle")
      BY <1>8, <2>2, <3>1 DEF incrementFailureMetric, Return
    <3>3. c(Counting)' = c(Counting) /\ c(Failing)' = c(Failing) - 1 /\ c(Failing) \in Nat
      BY <1>0, <2>1, <3>2, Moves
    <3> QED BY <1>0, <1>1, <2>1, <3>2, <3>3 DEF hist
  <2>3. CASE metrics.ptr # curMetr[p].ptr
    <3>1. Goto(p, "failLoad") /\ UNCHANGED metrics BY <1>8, <2>3 DEF incrementFailureMetric
    <3> QED BY <1>3, <2>1, <3>1
  <2> QED BY <2>2, <2>3
<1>9. ASSUME Tick \/ (\E f \in Files : WriteFile(f)) \/ UNCHANGED vars
      PROVE  metrics'.success + c(Counting)' = installs' /\ metrics'.failure + c(Failing)' = rejects'
  <2>1. UNCHANGED <<metrics, pc, hist>> BY <1>9 DEF Tick, WriteFile, vars
  <2> QED BY <1>1, <2>1 DEF InPc, hist
<1> QED BY <1>4, <1>5, <1>6, <1>7, <1>8, <1>9 DEF Next, Step

\* CountsExact: the metrics count every reload once, however many goroutines
\* reload at the same time.
THEOREM MetricsExact == Spec => []CountsExact
<1>1. Init => CountsExact
  <2> SUFFICES ASSUME Init PROVE CountsExact OBVIOUS
  <2>1. InPc({"okLoad", "okTime", "okCas"}) = {} /\ InPc({"failLoad", "failCas"}) = {}
    BY DEF Init, InPc
  <2>2. Cardinality({}) = 0 BY FS_EmptySet
  <2>3. metrics.success = 0 /\ metrics.failure = 0 /\ installs = 0 /\ rejects = 0 BY DEF Init
  <2> HIDE DEF Init
  <2> QED BY <2>1, <2>2, <2>3 DEF CountsExact
<1> QED BY <1>1, NextCounts, Invariance, PTL DEF Spec

=============================================================================
