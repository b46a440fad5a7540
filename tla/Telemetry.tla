------------------------------ MODULE Telemetry ------------------------------
(***************************************************************************)
(* What the telemetry cell of package astar promises: a record of link     *)
(* measurements whose fields are set one at a time and independently.  A   *)
(* caller announces an update, and the update takes effect in one step     *)
(* that sets the announced field and leaves the others as they were.       *)
(* GMetrics implements this with compare-and-swap loops.                   *)
(***************************************************************************)
CONSTANTS Procs,     \* the goroutines that report measurements
          Fields,    \* the names of the measurements
          Values,    \* the measurements a field may hold
          Zero,      \* the measurement every field starts with
          None       \* no update announced

VARIABLES tel,       \* tel[f]: the current measurement of field f
          pending    \* pending[p]: the update p has announced, or None

Update == [field : Fields, val : Values]

Init == /\ tel = [f \in Fields |-> Zero]
        /\ pending = [p \in Procs |-> None]

Announce(p, u) == /\ pending[p] = None
                  /\ pending' = [pending EXCEPT ![p] = u]
                  /\ UNCHANGED tel

Apply(p) == /\ pending[p] # None
            /\ tel' = [tel EXCEPT ![pending[p].field] = pending[p].val]
            /\ pending' = [pending EXCEPT ![p] = None]

Next == \E p \in Procs : \/ \E u \in Update : Announce(p, u)
                         \/ Apply(p)

Spec == Init /\ [][Next]_<<tel, pending>>

LiveSpec == Spec /\ \A p \in Procs : WF_<<tel, pending>>(Apply(p))
=============================================================================
