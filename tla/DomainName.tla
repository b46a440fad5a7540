------------------------------ MODULE DomainName ------------------------------
(***************************************************************************)
(* isDomainName of the netstack resolver (netstack/tun.go), and what it    *)
(* decides.  A name is a sequence of characters of five classes.           *)
(***************************************************************************)
EXTENDS Integers, Sequences

CONSTANTS MaxName,  \* 254
          MaxLabel  \* 63

ASSUME DomainNameAssumption == MaxName \in Nat /\ MaxLabel \in Nat

Classes == {"letter", "digit", "hyphen", "dot", "bad"}

-----------------------------------------------------------------------------
(* The scan: last, nonNumeric and partlen after i characters; ok is FALSE  *)
(* once the loop has returned false.                                       *)

\* Mutant of After: a label may begin with a hyphen.
AfterAnyHyphen(r, c) ==
    [ok  |-> /\ r.ok /\ c # "bad"
             /\ c = "dot" => r.last \notin {"dot", "hyphen"} /\ r.partlen \in 1..MaxLabel,
     last |-> c,
     nonNumeric |-> r.nonNumeric \/ c \in {"letter", "hyphen"},
     partlen |-> IF c = "dot" THEN 0 ELSE r.partlen + 1]

After(r, c) ==
    [ok  |-> /\ r.ok /\ c # "bad"
             /\ c = "hyphen" => r.last # "dot"
             /\ c = "dot" => r.last \notin {"dot", "hyphen"} /\ r.partlen \in 1..MaxLabel,
     last |-> c,
     nonNumeric |-> r.nonNumeric \/ c \in {"letter", "hyphen"},
     partlen |-> IF c = "dot" THEN 0 ELSE r.partlen + 1]

Scan(s) ==
    LET scan[i \in 0..Len(s)] ==
            IF i = 0 THEN [ok |-> TRUE, last |-> "dot", nonNumeric |-> FALSE, partlen |-> 0]
                     ELSE After(scan[i - 1], s[i])
    IN scan[Len(s)]

isDomainName(s) ==
    LET l == Len(s) IN
    /\ l # 0 /\ l <= MaxName /\ (l = MaxName => s[l] = "dot")
    /\ Scan(s).ok /\ Scan(s).last # "hyphen" /\ Scan(s).partlen <= MaxLabel /\ Scan(s).nonNumeric

-----------------------------------------------------------------------------
(* The reference: labels separated by dots.                                *)

\* The positions of the characters of each label; the last label is empty if
\* the name ends with a dot.
Labels(s) ==
    LET dots == {0, Len(s) + 1} \union {i \in DOMAIN s : s[i] = "dot"} IN
    {(ab[1] + 1)..(ab[2] - 1) :
        ab \in {ab \in dots \X dots : ab[1] < ab[2] /\ \A d \in dots : ~(ab[1] < d /\ d < ab[2])}}

Rooted(s) == s # <<>> /\ s[Len(s)] = "dot"

\* At most 253 characters without the dot at the end; labels of 1 to 63 letters,
\* digits and hyphens with no hyphen at either end; and not a number.
IsName(s) ==
    LET t == IF Rooted(s) THEN SubSeq(s, 1, Len(s) - 1) ELSE s IN
    /\ Len(t) \in 1..(MaxName - 1)
    /\ \A i \in DOMAIN t : t[i] # "bad"
    /\ \A label \in Labels(t) :
         /\ label # {} /\ \A i \in label : i + MaxLabel \notin label
         /\ \A i \in label : t[i] = "hyphen" => i - 1 \in label /\ i + 1 \in label
    /\ \E i \in DOMAIN t : t[i] \in {"letter", "hyphen"}

=============================================================================
