-------------------------------- MODULE Config --------------------------------
(***************************************************************************)
(* ConfigManager of common/a_star/config.go: the weights of the routing    *)
(* profiles, read from a JSON file that may be rewritten at any time.      *)
(* Goroutines call Reload and SwitchProfile concurrently; the snapshot and *)
(* the reload metrics are two independent atomic pointers.                 *)
(*                                                                         *)
(* A file is a record [readable, json, active, profiles]: whether os.      *)
(* ReadFile succeeds, what the strict decoder makes of its bytes           *)
(* ("strict", "malformed", or "trailing" for data after the first value),  *)
(* and the decoded value.  Weights are integers in a unit of the           *)
(* instance's choice; JSON has no NaN and no infinity.                     *)
(***************************************************************************)
EXTENDS Integers, FiniteSets

CONSTANTS Procs,      \* goroutines
          Creator,    \* the goroutine that calls NewConfigManager
          Names,      \* profile names that are not blank
          Blank,      \* a name that is empty or all white space
          Weights,    \* weights that occur in files
          Files,      \* contents the configuration file may have
          MaxCalls,   \* bound: calls each goroutine makes once the manager exists
          MaxWrites,  \* bound: times the file is rewritten
          MaxTime,    \* bound: last reading of the clock
          maxWeight, epsilon,
          Nil         \* the nil pointer

WeightFields == {"weight_loss", "weight_ping", "weight_load", "weight_power"}
ProfileWeights == [WeightFields -> Weights]

\* The configSnapshots that can be built from the files.
Configs == {[active |-> n, profiles |-> f.profiles] : n \in Names \cup {Blank}, f \in Files}

ASSUME ConfigAssumption ==
    /\ Creator \in Procs /\ IsFiniteSet(Procs)
    /\ Blank \notin Names
    /\ Weights \subseteq Int
    /\ maxWeight \in Nat /\ epsilon \in Nat
    /\ MaxCalls \in Nat /\ MaxWrites \in Nat /\ MaxTime \in Nat
    /\ \A f \in Files : /\ f.readable \in BOOLEAN
                        /\ f.json \in {"strict", "malformed", "trailing"}
                        /\ f.active \in Names \cup {Blank}
                        /\ DOMAIN f.profiles \subseteq Names \cup {Blank}
                        /\ f.profiles \in [DOMAIN f.profiles -> ProfileWeights]
    /\ Nil \notin Configs

VARIABLES
    file,      \* the configuration file
    writes,    \* times the file was rewritten
    now,       \* the clock
    manager,   \* "creating", "ready" or "failed": NewConfigManager's outcome
    snapshot,  \* atomic pointer: [ptr, conf], conf a configSnapshot or Nil
    metrics,   \* atomic pointer: [ptr, time, success, failure]
    pc,        \* pc[p]: where goroutine p is
    raw,       \* raw[p]: the file as p read it
    curSnap,   \* curSnap[p]: the snapshot pointer p loaded
    curMetr,   \* curMetr[p]: the metrics pointer p loaded
    stamp,     \* stamp[p]: time.Now() as p read it
    arg,       \* arg[p]: profileName of p's SwitchProfile
    calls,     \* calls[p]: calls p has made
    installs,  \* history: snapshots stored by Reload
    rejects    \* history: Reloads that found the file unusable

env   == <<file, writes, now>>
local == <<raw, curSnap, curMetr, stamp, arg>>
hist  == <<installs, rejects>>
vars  == <<env, manager, snapshot, metrics, pc, local, calls, hist>>

-----------------------------------------------------------------------------
(* Validation of a decoded file.                                           *)

Sum(w) == w["weight_loss"] + w["weight_ping"] + w["weight_load"] + w["weight_power"]
Abs(n) == IF n < 0 THEN -n ELSE n

ValidWeights(w) ==
    /\ \A f \in WeightFields : ~(w[f] < 0) /\ ~(w[f] > maxWeight)
    /\ ~(Abs(Sum(w)) < epsilon)

validateRawConfig(f) ==
    /\ f.active # Blank
    /\ f.active \in DOMAIN f.profiles
    /\ \A name \in DOMAIN f.profiles : name # Blank /\ ValidWeights(f.profiles[name])

\* The file passes every check Reload makes before it touches shared state.
Usable(f) == f.readable /\ f.json = "strict" /\ validateRawConfig(f)

-----------------------------------------------------------------------------
(* NewConfigManager stores zero metrics and calls Reload; nobody else has  *)
(* the manager before it returns.                                          *)
Init ==
    /\ file \in Files /\ writes = 0 /\ now = 0
    /\ manager = "creating"
    /\ snapshot = [ptr |-> 0, conf |-> Nil]
    /\ metrics = [ptr |-> 0, time |-> 0, success |-> 0, failure |-> 0]
    /\ pc = [p \in Procs |-> IF p = Creator THEN "read" ELSE "idle"]
    /\ raw = [p \in Procs |-> file]
    /\ curSnap = [p \in Procs |-> snapshot]
    /\ curMetr = [p \in Procs |-> metrics]
    /\ stamp = [p \in Procs |-> 0]
    /\ arg = [p \in Procs |-> Blank]
    /\ calls = [p \in Procs |-> 0]
    /\ installs = 0 /\ rejects = 0

Goto(p, label) == pc' = [pc EXCEPT ![p] = label]

\* p calls a method of the manager.
Begin(p, label) ==
    /\ manager = "ready"
    /\ pc[p] = "idle"
    /\ calls[p] < MaxCalls
    /\ calls' = [calls EXCEPT ![p] = @ + 1]
    /\ Goto(p, label)

\* p's Reload returns; for the first one NewConfigManager returns with it.
Return(p, outcome) ==
    /\ Goto(p, "idle")
    /\ manager' = IF manager = "creating" THEN outcome ELSE manager

Reload(p) ==
    /\ Begin(p, "read")
    /\ UNCHANGED <<env, manager, snapshot, metrics, local, hist>>

\* os.ReadFile, decoding and validation: the rest works on p's own copy.
ReadFile(p) ==
    /\ pc[p] = "read"
    /\ raw' = [raw EXCEPT ![p] = file]
    /\ IF Usable(file)
         THEN Goto(p, "store") /\ UNCHANGED rejects
         ELSE Goto(p, "failLoad") /\ rejects' = rejects + 1
    /\ UNCHANGED <<env, manager, snapshot, metrics, curSnap, curMetr, stamp, arg,
                   calls, installs>>

\* cm.snapshot.Store(nextSnapshot)
StoreSnapshot(p) ==
    /\ pc[p] = "store"
    /\ snapshot' = [ptr |-> snapshot.ptr + 1,
                    conf |-> [active |-> raw[p].active, profiles |-> raw[p].profiles]]
    /\ installs' = installs + 1
    /\ Goto(p, "okLoad")
    /\ UNCHANGED <<env, manager, metrics, local, calls, rejects>>

LoadMetrics(p) ==
    /\ \/ pc[p] = "okLoad" /\ Goto(p, "okTime")
       \/ pc[p] = "failLoad" /\ Goto(p, "failCas")
    /\ curMetr' = [curMetr EXCEPT ![p] = metrics]
    /\ UNCHANGED <<env, manager, snapshot, metrics, raw, curSnap, stamp, arg, calls, hist>>

\* Mutant of TakeTime: the time is taken once, before the first attempt.
TakeTimeOnce(p) ==
    /\ pc[p] = "okTime"
    /\ stamp' = [stamp EXCEPT ![p] = IF @ = 0 THEN now ELSE @]
    /\ Goto(p, "okCas")
    /\ UNCHANGED <<env, manager, snapshot, metrics, raw, curSnap, curMetr, arg, calls, hist>>

\* LastReloadTime: time.Now(), read again on every attempt.
TakeTime(p) ==
    /\ pc[p] = "okTime"
    /\ stamp' = [stamp EXCEPT ![p] = now]
    /\ Goto(p, "okCas")
    /\ UNCHANGED <<env, manager, snapshot, metrics, raw, curSnap, curMetr, arg, calls, hist>>

\* Mutant of CasSuccess: the new metrics are stored unconditionally.
StoreSuccess(p) ==
    /\ pc[p] = "okCas"
    /\ metrics' = [ptr |-> metrics.ptr + 1, time |-> stamp[p],
                   success |-> curMetr[p].success + 1,
                   failure |-> curMetr[p].failure]
    /\ Return(p, "ready")
    /\ UNCHANGED <<env, snapshot, local, calls, hist>>

CasSuccess(p) ==
    /\ pc[p] = "okCas"
    /\ IF metrics.ptr = curMetr[p].ptr
         THEN /\ metrics' = [ptr |-> metrics.ptr + 1, time |-> stamp[p],
                             success |-> curMetr[p].success + 1,
                             failure |-> curMetr[p].failure]
              /\ Return(p, "ready")
         ELSE Goto(p, "okLoad") /\ UNCHANGED <<metrics, manager>>
    /\ UNCHANGED <<env, snapshot, local, calls, hist>>

incrementFailureMetric(p) ==
    /\ pc[p] = "failCas"
    /\ IF metrics.ptr = curMetr[p].ptr
         THEN /\ metrics' = [ptr |-> metrics.ptr + 1, time |-> curMetr[p].time,
                             success |-> curMetr[p].success,
                             failure |-> curMetr[p].failure + 1]
              /\ Return(p, "failed")
         ELSE Goto(p, "failLoad") /\ UNCHANGED <<metrics, manager>>
    /\ UNCHANGED <<env, snapshot, local, calls, hist>>

SwitchProfile(p, profileName) ==
    /\ Begin(p, "swLoad")
    /\ arg' = [arg EXCEPT ![p] = profileName]
    /\ UNCHANGED <<env, manager, snapshot, metrics, raw, curSnap, curMetr, stamp, hist>>

\* The load, and the early return if the profile is not in the snapshot.
LoadSnapshot(p) ==
    /\ pc[p] = "swLoad"
    /\ curSnap' = [curSnap EXCEPT ![p] = snapshot]
    /\ Goto(p, IF arg[p] \in DOMAIN snapshot.conf.profiles THEN "swCas" ELSE "idle")
    /\ UNCHANGED <<env, manager, snapshot, metrics, raw, curMetr, stamp, arg, calls, hist>>

\* Mutant of CasSnapshot: a plain Store.
StoreSwitched(p) ==
    /\ pc[p] = "swCas"
    /\ snapshot' = [ptr |-> snapshot.ptr + 1,
                    conf |-> [active |-> arg[p], profiles |-> curSnap[p].conf.profiles]]
    /\ Goto(p, "idle")
    /\ UNCHANGED <<env, manager, metrics, local, calls, hist>>

\* Mutant of CasSnapshot: a failed swap is retried with the old pointer.
RetrySameSnapshot(p) ==
    /\ pc[p] = "swCas"
    /\ IF snapshot.ptr = curSnap[p].ptr THEN StoreSwitched(p) ELSE UNCHANGED vars

CasSnapshot(p) ==
    /\ pc[p] = "swCas"
    /\ IF snapshot.ptr = curSnap[p].ptr
         THEN /\ snapshot' = [ptr |-> snapshot.ptr + 1,
                              conf |-> [active |-> arg[p],
                                        profiles |-> curSnap[p].conf.profiles]]
              /\ Goto(p, "idle")
         ELSE Goto(p, "swLoad") /\ UNCHANGED snapshot
    /\ UNCHANGED <<env, manager, metrics, local, calls, hist>>

\* Somebody rewrites the file.
WriteFile(f) ==
    /\ writes < MaxWrites /\ f # file
    /\ file' = f /\ writes' = writes + 1
    /\ UNCHANGED <<now, manager, snapshot, metrics, pc, local, calls, hist>>

Tick ==
    /\ now < MaxTime
    /\ now' = now + 1
    /\ UNCHANGED <<file, writes, manager, snapshot, metrics, pc, local, calls, hist>>

\* A step of a call in progress.
Step(p) == \/ ReadFile(p) \/ StoreSnapshot(p) \/ LoadMetrics(p) \/ TakeTime(p)
           \/ CasSuccess(p) \/ incrementFailureMetric(p)
           \/ LoadSnapshot(p) \/ CasSnapshot(p)

Next == \/ \E p \in Procs : \/ Reload(p)
                            \/ \E n \in Names : SwitchProfile(p, n)
                            \/ Step(p)
        \/ \E f \in Files : WriteFile(f)
        \/ Tick

Spec == Init /\ [][Next]_vars

\* The Go scheduler runs every goroutine that has a call in progress.
LiveSpec == Spec /\ \A p \in Procs : WF_vars(Step(p))

-----------------------------------------------------------------------------
ValidConfigs ==
    {c \in Configs :
        /\ c.active \in DOMAIN c.profiles
        /\ Blank \notin DOMAIN c.profiles
        /\ \A n \in DOMAIN c.profiles :
              /\ \A f \in WeightFields : c.profiles[n][f] \in 0..maxWeight
              /\ Sum(c.profiles[n]) >= epsilon}

Labels == {"idle", "read", "store", "okLoad", "okTime", "okCas",
           "failLoad", "failCas", "swLoad", "swCas"}

(* TypeOK: the variables hold values of their types.  In particular a      *)
(* published snapshot is a valid configuration: its active profile is      *)
(* defined, so GetCurrentWeights never returns the zero ProfileWeights of  *)
(* a missing map key, and it exists as soon as NewConfigManager returned.  *)
TypeOK ==
    /\ file \in Files /\ writes \in 0..MaxWrites /\ now \in 0..MaxTime
    /\ manager \in {"creating", "ready", "failed"}
    /\ snapshot \in [ptr : Nat, conf : ValidConfigs \cup {Nil}]
    /\ manager = "ready" => snapshot.conf # Nil
    /\ metrics \in [ptr : Nat, time : 0..MaxTime, success : Nat, failure : Nat]
    /\ pc \in [Procs -> Labels]
    /\ raw \in [Procs -> Files]
    /\ curSnap \in [Procs -> [ptr : Nat, conf : ValidConfigs \cup {Nil}]]
    /\ curMetr \in [Procs -> [ptr : Nat, time : 0..MaxTime, success : Nat, failure : Nat]]
    /\ stamp \in [Procs -> 0..MaxTime]
    /\ arg \in [Procs -> Names \cup {Blank}]
    /\ calls \in [Procs -> Nat]
    /\ installs \in Nat /\ rejects \in Nat

(* Implements: readers see a ConfigStore, whose loads are the snapshots    *)
(* Reload has stored (installs).  Whatever the interleaving with           *)
(* reloads, a switch never brings back the profiles of an older file, and  *)
(* never activates a profile the snapshot in force does not define.        *)
Abstract == INSTANCE ConfigStore WITH Valid <- ValidConfigs, conf <- snapshot.conf,
                                      loads <- installs
Implements == Abstract!Spec

InPc(labels) == {p \in Procs : pc[p] \in labels}

(* CountsExact: no concurrent Reload is lost from, or counted twice in,    *)
(* the metrics: the successes are the stored snapshots less the calls      *)
(* still to be counted, the failures likewise.                             *)
CountsExact ==
    /\ metrics.success + Cardinality(InPc({"okLoad", "okTime", "okCas"})) = installs
    /\ metrics.failure + Cardinality(InPc({"failLoad", "failCas"})) = rejects

(* ReloadTimeMonotone: LastReloadTime never goes back, although each       *)
(* Reload reads the clock some time before its swap succeeds.              *)
ReloadTimeMonotone == [][metrics'.time >= metrics.time]_vars

(* EveryCallReturns: finitely many calls of Reload and SwitchProfile all   *)
(* return; no loop starves for ever.                                       *)
EveryCallReturns == \A p \in Procs : pc[p] # "idle" ~> pc[p] = "idle"

-----------------------------------------------------------------------------
(* The inductive invariant behind TypeOK, Implements and                   *)
(* ReloadTimeMonotone.                                                     *)

\* Reload stores only what passed every check.
StoresUsable == \A p \in Procs : pc[p] = "store" => Usable(raw[p])

\* A goroutine about to swap the snapshot that holds the current address
\* holds the current snapshot, and its profile is defined in what it holds.
SnapCopyIsCurrent ==
    \A p \in Procs :
        pc[p] = "swCas" =>
            /\ curSnap[p].ptr <= snapshot.ptr
            /\ curSnap[p].ptr = snapshot.ptr => curSnap[p] = snapshot
            /\ curSnap[p].conf # Nil
            /\ arg[p] \in DOMAIN curSnap[p].conf.profiles

\* The same for the metrics.
MetrCopyIsCurrent ==
    \A p \in Procs :
        pc[p] \in {"okTime", "okCas", "failCas"} =>
            /\ curMetr[p].ptr <= metrics.ptr
            /\ curMetr[p].ptr = metrics.ptr => curMetr[p] = metrics

\* A time taken after the metrics were loaded is not before theirs.
TimesOrdered ==
    /\ metrics.time <= now
    /\ \A p \in Procs : pc[p] \in {"okTime", "okCas"} => curMetr[p].time <= now
    /\ \A p \in Procs : pc[p] = "okCas" => curMetr[p].time <= stamp[p] /\ stamp[p] <= now

\* Whoever works with the snapshot works with one.
SnapshotExists ==
    \A p \in Procs :
        pc[p] \in {"okLoad", "okTime", "okCas", "swLoad", "swCas"} => snapshot.conf # Nil

IInv == /\ TypeOK
        /\ StoresUsable
        /\ SnapCopyIsCurrent
        /\ MetrCopyIsCurrent
        /\ TimesOrdered
        /\ SnapshotExists
=============================================================================
