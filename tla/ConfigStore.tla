----------------------------- MODULE ConfigStore -----------------------------
(***************************************************************************)
(* What ConfigManager promises its readers: there is one configuration,    *)
(* always a valid one; it is replaced as a whole by a reload, and a switch *)
(* of profile changes the active profile to one that the configuration in  *)
(* force defines, and nothing else.                                        *)
(***************************************************************************)
EXTENDS Naturals

CONSTANTS Valid,   \* the valid configurations, records [active, profiles]
          Names,   \* the names of profiles
          Nil      \* no configuration yet

VARIABLES conf,    \* the configuration in force
          loads    \* configurations installed so far

vars == <<conf, loads>>

Init == conf = Nil /\ loads = 0

Install(c) == conf' = c /\ loads' = loads + 1

Switch(name) == /\ conf # Nil
                /\ name \in DOMAIN conf.profiles
                /\ conf' = [conf EXCEPT !.active = name]
                /\ UNCHANGED loads

Next == \/ \E c \in Valid : Install(c)
        \/ \E name \in Names : Switch(name)

Spec == Init /\ [][Next]_vars
=============================================================================
