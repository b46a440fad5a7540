------------------------------- MODULE MCConfig -------------------------------
(***************************************************************************)
(* Config for TLC.  AllFiles has one file for each way a Reload can fail   *)
(* (and each condition of validateRawConfig) beside usable ones whose      *)
(* profiles differ.                                                        *)
(***************************************************************************)
EXTENDS Config, TLC

CONSTANTS a, b

W(l, p, o, e) == ("weight_loss" :> l) @@ ("weight_ping" :> p)
                 @@ ("weight_load" :> o) @@ ("weight_power" :> e)

File(active, profiles) == [readable |-> TRUE, json |-> "strict",
                           active |-> active, profiles |-> profiles]

MCWeights == -1..4   \* epsilon = 2, maxWeight = 3

OnlyA == File(a, a :> W(1, 1, 0, 0))
Both  == File(b, (a :> W(3, 3, 3, 3)) @@ (b :> W(0, 0, 0, 2)))
OnlyB == File(b, b :> W(0, 2, 0, 0))

Unusable ==
    { [OnlyA EXCEPT !.readable = FALSE],
      [OnlyA EXCEPT !.json = "malformed"],
      [OnlyA EXCEPT !.json = "trailing"],
      File(Blank, a :> W(1, 1, 0, 0)),
      File(b, a :> W(1, 1, 0, 0)),
      File(a, (a :> W(1, 1, 0, 0)) @@ (Blank :> W(1, 1, 0, 0))),
      File(a, (a :> W(1, 1, 0, 0)) @@ (b :> W(3, 0, -1, 0))),
      File(a, (a :> W(1, 1, 0, 0)) @@ (b :> W(0, 0, 0, 4))),
      File(a, (a :> W(1, 1, 0, 0)) @@ (b :> W(0, 1, 0, 0))) }

AllFiles == {OnlyA, Both, OnlyB} \cup Unusable

MCNames == {a, b}
=============================================================================
