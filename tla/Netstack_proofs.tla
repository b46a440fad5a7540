---------------------------- MODULE Netstack_proofs ----------------------------
(***************************************************************************)
(* Proofs about netstack/tun.go, in two parts: DialContext and             *)
(* LookupContextHost, for every set of calls and of answers, any number of *)
(* servers, all time limits and names of any length; and the device, for   *)
(* any number of goroutines, packets and calls and any queue.              *)
(***************************************************************************)
EXTENDS NetDial, NetTun, FiniteSetTheorems, WellFoundedInduction, NaturalsInduction, TLAPS

-----------------------------------------------------------------------------
(* The inductive invariant.                                                *)

IsSent(q) == IF lanes[q].pc = "sent" THEN 1 ELSE 0

Idle(q) == lanes[q].pc \in {"off", "sent"}

\* What the lanes sent is received or in the channel; the lanes run between
\* the beginning and the end of a lookup.
LanesInv ==
    /\ got + Len(results) = IsSent("A") + IsSent("AAAA")
    /\ \A q \in Types : q \notin net.lanes => lanes[q].pc = "off"
    /\ pc \in {"call", "lookup"} =>
         got = 0 /\ results = <<>> /\ \A q \in Types : lanes[q] = Off /\ found[q] = 0
    /\ pc = "lanes" => net.lanes # {} /\ \A q \in net.lanes : lanes[q].pc # "off"
    /\ pc \in {"dial", "connect", "returned"} => results = <<>> /\ \A q \in Types : Idle(q)

\* A bound for the end of the exchange of a lane.
Limit(l) == 1 + (2 * l.n + (IF l.pc = "udp" THEN 1 ELSE 2)) * Timeout

\* No timer runs past the deadline or past its share of the lookup.
TimeInv ==
    /\ DeadlineKept /\ LookupTime
    /\ pc \in {"call", "lookup"} => now = 1
    /\ \A q \in Types : lanes[q].pc = "begin" => now = 1
    /\ \A q \in Types : Waiting(q) =>
         /\ now <= lanes[q].until /\ (deadline # 0 => lanes[q].until <= deadline)
         /\ lanes[q].n < 2 * net.servers /\ lanes[q].until <= Limit(lanes[q])

\* The result of a lane that succeeds holds an address or cannot be read.
Useful(r) ==
    r.err = "nil" => \/ Good(r.recs) # DOMAIN r.recs
                     \/ Counts(r.recs)["A"] > 0 \/ Counts(r.recs)["AAAA"] > 0

FindInv ==
    /\ \A k \in DOMAIN results : Useful(results[k])
    /\ got > 0 /\ found["A"] = 0 /\ found["AAAA"] = 0 => lastErr # "nil"

\* There is time enough for the addresses to come if there was enough for all.
Ample == deadline - began >= SaneMinimum * Len(addrs)

DialInv ==
    /\ result = "none" <=> pc # "returned"
    /\ pc \in {"call", "lookup", "lanes"} => i = 1 /\ firstErr = FALSE /\ tried = 0
    /\ pc = "dial" => /\ i <= Len(addrs) + 1 /\ tried = i - 1
                      /\ i = 1 => Len(addrs) > 0
                      /\ i > 1 => firstErr = TRUE
                      /\ deadline # 0 /\ Ample => deadline - now >= SaneMinimum * (Len(addrs) - i + 1)
    /\ pc = "connect" => /\ i <= Len(addrs) /\ tried = i
                         /\ i > 1 => firstErr = TRUE
                         /\ deadline # 0 =>
                              /\ now <= until /\ until <= deadline
                              /\ Ample => deadline - until >= SaneMinimum * (Len(addrs) - i)

Outcome == LookupFinds /\ OneLaneIsEnough /\ EveryAddressTried

IInv == TypeOK /\ LanesInv /\ TimeInv /\ FindInv /\ DialInv /\ Outcome

-----------------------------------------------------------------------------
(* Arithmetic, sequences and records.                                      *)

\* Multiplication by a natural number is monotonic.
LEMMA TimesMonotone ==
    ASSUME NEW a \in Int, NEW b \in Int, NEW c \in Nat, a <= b
    PROVE  a * c <= b * c
<1>1. (b - a) * c >= 0 OBVIOUS
<1>2. (b - a) * c = b * c - a * c OBVIOUS
<1> QED BY <1>1, <1>2

\* A set of natural numbers that is not empty has a first one.
LEMMA Least == ASSUME NEW S \in SUBSET Nat, S # {} PROVE \E k \in S : \A l \in S : k <= l
<1>1. \E k \in S : \A l \in S : ~(<<l, k>> \in OpToRel(<, Nat))
  BY NatLessThanWellFounded, WFMin
<1>2. PICK k \in S : \A l \in S : ~(<<l, k>> \in OpToRel(<, Nat)) BY <1>1
<1>3. ASSUME NEW l \in S PROVE k <= l
  <2>1. l \in Nat /\ k \in Nat OBVIOUS
  <2>2. ~(l < k) BY <1>2, <1>3, <2>1 DEF OpToRel
  <2> QED BY <2>1, <2>2
<1> QED BY <1>3

\* First is that number.
LEMMA FirstType == ASSUME NEW S \in SUBSET Nat, S # {} PROVE First(S) \in S
BY Least DEF First

\* The addresses of a lookup, and whether there are any.
LEMMA OrderedType ==
    ASSUME NEW n \in [Types -> Nat]
    PROVE  /\ Ordered(n) \in Seq(Types) /\ Len(Ordered(n)) = n["A"] + n["AAAA"]
           /\ Ordered(n) = <<>> <=> n["A"] = 0 /\ n["AAAA"] = 0
<1> DEFINE first == IF "AAAA" \in net.lanes THEN "AAAA" ELSE "A"
           other == IF first = "A" THEN "AAAA" ELSE "A"
           N == n["A"] + n["AAAA"]
           s == [k \in 1..N |-> IF k <= n[first] THEN first ELSE other]
<1>1. n["A"] \in Nat /\ n["AAAA"] \in Nat /\ N \in Nat BY DEF Types
<1>2. first \in Types /\ other \in Types BY DEF Types
<1>3. Ordered(n) = s BY DEF Ordered
<1>4. s \in [1..N -> Types] BY <1>2
<1> HIDE DEF s, N
<1>5. s \in Seq(Types) /\ Len(s) = N BY <1>1, <1>4
<1>6. s = <<>> <=> N = 0 BY <1>1, <1>5
<1> QED BY <1>1, <1>3, <1>5, <1>6 DEF N

\* The records that count are counted.
LEMMA CountsType ==
    ASSUME NEW recs \in Seq(Record)
    PROVE  /\ Counts(recs) \in [Types -> Nat]
           /\ \A q \in Types : (\E k \in Good(recs) : recs[k] = q) => Counts(recs)[q] > 0
<1>1. IsFiniteSet(1..Len(recs)) BY FS_Interval
<1>2. ASSUME NEW q \in Types
      PROVE  LET T == {k \in Good(recs) : recs[k] = q} IN
             Cardinality(T) \in Nat /\ (T # {} => Cardinality(T) > 0)
  <2> DEFINE T == {k \in Good(recs) : recs[k] = q}
  <2>1. T \in SUBSET (1..Len(recs)) BY DEF Good
  <2> HIDE DEF T
  <2>2. IsFiniteSet(T) BY <1>1, <2>1, FS_Subset
  <2>3. Cardinality(T) \in Nat BY <2>2, FS_CardinalityType
  <2>4. Cardinality(T) = 0 <=> T = {} BY <2>2, FS_EmptySet
  <2> QED BY <2>3, <2>4 DEF T
<1>3. Counts(recs) \in [Types -> Nat] BY <1>2 DEF Counts
<1>4. ASSUME NEW q \in Types, \E k \in Good(recs) : recs[k] = q PROVE Counts(recs)[q] > 0
  <2> DEFINE T == {k \in Good(recs) : recs[k] = q}
  <2>1. T # {} BY <1>4
  <2>2. Counts(recs)[q] = Cardinality(T) BY DEF Counts
  <2> QED BY <1>2, <2>1, <2>2
<1> QED BY <1>3, <1>4

\* What tryOneName returns with an answer: the first record has the type
\* that was asked for.
LEMMA RestUseful ==
    ASSUME NEW m \in Messages, NEW q \in Types, Verdict(m, q) = "nil"
    PROVE  Rest(m, q) \in Seq(Record) /\ Useful([err |-> "nil", recs |-> Rest(m, q)])
<1> DEFINE a == m.answers
           f == First(Stops(m, q))
           r == Rest(m, q)
<1>1. a \in Seq(Record) BY NetDialAssumption
<1>2. skipToAnswer(m, q) = "nil" BY DEF Verdict
<1>3. Stops(m, q) # {} /\ a[f] # "broken" BY <1>2 DEF skipToAnswer
<1>4. f \in Stops(m, q)
  <2>1. Stops(m, q) \in SUBSET Nat BY <1>1 DEF Stops
  <2> QED BY <1>3, <2>1, FirstType
<1>5. f \in 1..Len(a) /\ TypeOf(a[f]) = q
  <2>1. f \in 1..Len(a) BY <1>1, <1>4 DEF Stops
  <2>2. TypeOf(a[f]) \in {q, "broken"} BY <1>4 DEF Stops
  <2>3. a[f] \in Record BY <1>1, <2>1
  <2>4. TypeOf(a[f]) # "broken" BY <1>3, <2>3 DEF TypeOf, Record
  <2> QED BY <2>1, <2>2, <2>4
<1>6. a[f] \in {q, "badA", "badAAAA"} BY <1>3, <1>5 DEF TypeOf, Record
<1>7. r = SubSeq(a, f, Len(a)) BY DEF Rest
<1> HIDE DEF a, f, r
<1>8. r \in Seq(Record) /\ 1 \in DOMAIN r /\ r[1] = a[f]
  <2>1. Len(a) \in Nat /\ f \in Nat BY <1>1, <1>5
  <2>2. r \in Seq(Record) BY <1>1, <1>5, <1>7, <2>1
  <2>3. Len(r) = Len(a) - f + 1 BY <1>1, <1>5, <1>7, <2>1
  <2>4. r[1] = a[f] BY <1>1, <1>5, <1>7, <2>1
  <2> QED BY <1>5, <2>1, <2>2, <2>3, <2>4
<1>9. CASE a[f] = q
  <2>1. \A k \in DOMAIN r : k >= 1 BY <1>8
  <2>2. r[1] \notin {"badA", "badAAAA", "broken"} BY <1>8, <1>9 DEF Types
  <2>3. \A b \in DOMAIN r : r[b] \in {"badA", "badAAAA", "broken"} => 1 < b
    BY <1>8, <2>1, <2>2
  <2>4. 1 \in Good(r) BY <1>8, <2>3 DEF Good
  <2>5. Counts(r)[q] > 0 BY <1>8, <1>9, <2>4, CountsType
  <2>6. Useful([err |-> "nil", recs |-> r]) BY <2>5 DEF Useful, Types
  <2> QED BY <1>8, <2>6 DEF r
<1>10. CASE a[f] \in {"badA", "badAAAA"}
  <2>1. 1 \notin Good(r) BY <1>8, <1>10 DEF Good
  <2>2. Useful([err |-> "nil", recs |-> r]) BY <1>8, <2>1 DEF Useful
  <2> QED BY <1>8, <2>2 DEF r
<1> QED BY <1>6, <1>9, <1>10

-----------------------------------------------------------------------------
(* What a step of a lane does.                                             *)

LaneStep(q) == \/ Lane(q) \/ TCPConnected(q) \/ ExchangeFails(q)
               \/ \E m \in Messages : UDPAnswer(q, m) \/ TCPAnswer(q, m)

Sends(q) ==
    \E err \in {"nil", "notfound", "failed"}, recs \in Seq(Record) :
        Sent(q, err, recs) /\ Useful([err |-> err, recs |-> recs])

Asks(q) ==
    /\ results' = results
    /\ \E n \in Nat :
         /\ n < 2 * net.servers
         /\ (lanes[q].pc = "begin" /\ n = 0) \/ (Waiting(q) /\ n = lanes[q].n + 1)
         /\ lanes' = [lanes EXCEPT ![q] = [pc |-> "udp", n |-> n, until |-> ExchangeDeadline]]

Redials(q) ==
    /\ results' = results /\ lanes[q].pc = "udp"
    /\ lanes' = [lanes EXCEPT ![q] = [@ EXCEPT !.pc = "dial", !.until = ExchangeDeadline]]

Connects(q) ==
    /\ results' = results /\ lanes[q].pc = "dial"
    /\ lanes' = [lanes EXCEPT ![q].pc = "tcp"]

\* The parser nobody started is no success.
LEMMA ZeroUseful ==
    ZeroParser \in Seq(Record) /\ \A err : Useful([err |-> err, recs |-> ZeroParser])
<1>1. ZeroParser \in Seq(Record) /\ DOMAIN ZeroParser = {1} /\ ZeroParser[1] = "broken"
  BY DEF ZeroParser, Record
<1>2. Good(ZeroParser) = {} BY <1>1 DEF Good
<1> QED BY <1>1, <1>2 DEF Useful

\* tryOneName goes on to the next exchange or ends.
LEMMA ExchangeEffect ==
    ASSUME TypeOK, NEW q \in Types, NEW n \in Nat, Exchange(q, n),
           (lanes[q].pc = "begin" /\ n = 0) \/ (Waiting(q) /\ n = lanes[q].n + 1)
    PROVE  Sends(q) \/ Asks(q)
<1>0. net.servers \in Nat BY DEF TypeOK
<1>1. CASE n >= 2 * net.servers \/ Rooted(call.host.name)
  <2>1. Sent(q, IF net.servers = 0 THEN "nil" ELSE "failed", ZeroParser) BY <1>1 DEF Exchange
  <2>2. (IF net.servers = 0 THEN "nil" ELSE "failed") \in {"nil", "notfound", "failed"} OBVIOUS
  <2> QED BY <2>1, <2>2, ZeroUseful DEF Sends
<1>2. CASE ~(n >= 2 * net.servers \/ Rooted(call.host.name))
  <2>1. n < 2 * net.servers BY <1>0, <1>2
  <2>2. lanes' = [lanes EXCEPT ![q] = [pc |-> "udp", n |-> n, until |-> ExchangeDeadline]]
        /\ results' = results
    BY <1>2 DEF Exchange
  <2> QED BY <2>1, <2>2 DEF Asks
<1> QED BY <1>1, <1>2

\* An answer ends the lane or is an error of this exchange.
LEMMA AnswerEffect ==
    ASSUME NEW q \in Types, NEW m \in Messages, Answer(q, m)
    PROVE  Sends(q) \/ Exchange(q, lanes[q].n + 1)
<1>1. CASE m.extra \/ Verdict(m, q) = "failed" BY <1>1 DEF Answer
<1>2. CASE ~m.extra /\ Verdict(m, q) = "notfound"
  <2>1. Sent(q, "notfound", ZeroParser) BY <1>2 DEF Answer
  <2> QED BY <2>1, ZeroUseful DEF Sends
<1>3. CASE ~m.extra /\ Verdict(m, q) \notin {"failed", "notfound"}
  <2>1. Sent(q, "nil", Rest(m, q)) BY <1>3 DEF Answer
  <2>2. Verdict(m, q) = "nil" BY <1>3 DEF Verdict, checkHeader, skipToAnswer
  <2> QED BY <2>1, <2>2, RestUseful DEF Sends
<1> QED BY <1>1, <1>2, <1>3

\* The effects of a step of a lane.
LEMMA LaneEffect ==
    ASSUME TypeOK, NEW q \in Types, LaneStep(q)
    PROVE  /\ UNCHANGED laneSame
           /\ lanes[q].pc = "begin" \/ Waiting(q)
           /\ Sends(q) \/ Asks(q) \/ Redials(q) \/ Connects(q)
<1>1. lanes[q].n \in Nat /\ lanes[q].n + 1 \in Nat BY DEF TypeOK
<1>2. ASSUME Waiting(q), Exchange(q, lanes[q].n + 1) PROVE Sends(q) \/ Asks(q)
  BY <1>1, <1>2, ExchangeEffect
<1>3. CASE LaneBegins(q)
  <2>1. Exchange(q, 0) /\ lanes[q].pc = "begin" /\ UNCHANGED laneSame BY <1>3 DEF LaneBegins
  <2>2. Sends(q) \/ Asks(q)
    <3>1. PICK n \in Nat : n = 0 OBVIOUS
    <3>2. Exchange(q, n) /\ lanes[q].pc = "begin" BY <2>1, <3>1
    <3> QED BY <3>1, <3>2, ExchangeEffect
  <2> QED BY <2>1, <2>2
<1>4. CASE ExchangeTimesOut(q) \/ ExchangeFails(q)
  BY <1>2, <1>4 DEF ExchangeTimesOut, ExchangeFails, Waiting
<1>5. CASE TCPConnected(q)
  BY <1>5 DEF TCPConnected, Connects, Waiting
<1>6. ASSUME NEW m \in Messages, UDPAnswer(q, m)
      PROVE  /\ UNCHANGED laneSame /\ Waiting(q)
             /\ Sends(q) \/ Asks(q) \/ Redials(q)
  <2>1. UNCHANGED laneSame /\ lanes[q].pc = "udp" /\ Waiting(q) BY <1>6 DEF UDPAnswer, Waiting
  <2>2. CASE m.truncated /\ ~m.extra BY <1>6, <2>1, <2>2 DEF UDPAnswer, Redials
  <2>3. CASE ~(m.truncated /\ ~m.extra)
    <3>1. Answer(q, m) BY <1>6, <2>3 DEF UDPAnswer
    <3> QED BY <1>2, <2>1, <3>1, AnswerEffect
  <2> QED BY <2>1, <2>2, <2>3
<1>7. ASSUME NEW m \in Messages, TCPAnswer(q, m)
      PROVE  UNCHANGED laneSame /\ Waiting(q) /\ (Sends(q) \/ Asks(q))
  <2>1. UNCHANGED laneSame /\ Waiting(q) BY <1>7 DEF TCPAnswer, Waiting
  <2>2. Exchange(q, lanes[q].n + 1) \/ Answer(q, m) BY <1>7 DEF TCPAnswer
  <2> QED BY <1>2, <2>1, <2>2, AnswerEffect
<1> QED BY <1>3, <1>4, <1>5, <1>6, <1>7 DEF LaneStep, Lane

-----------------------------------------------------------------------------
(* The steps of the lanes preserve the invariant.                          *)

\* There are as many results as lanes that have ended, and no more than lanes.
LEMMA LaneCounts ==
    ASSUME lanes \in [Types -> [pc : LanePc, n : Nat, until : Nat]], net.lanes \subseteq Types,
           \A q \in Types : q \notin net.lanes => lanes[q].pc = "off"
    PROVE  /\ LaneCount \in Nat /\ IsSent("A") + IsSent("AAAA") \in Nat
           /\ IsSent("A") + IsSent("AAAA") <= LaneCount
           /\ IsSent("A") + IsSent("AAAA") = LaneCount => \A q \in net.lanes : lanes[q].pc = "sent"
           /\ net.lanes # {} => LaneCount > 0
BY DEF IsSent, LaneCount, Types

\* An exchange ends neither before it begins nor after the deadline.
LEMMA ExchangeDeadlineType ==
    ASSUME TypeOK, deadline # 0 => now <= deadline
    PROVE  /\ ExchangeDeadline \in Nat /\ now <= ExchangeDeadline
           /\ ExchangeDeadline <= now + Timeout /\ (deadline # 0 => ExchangeDeadline <= deadline)
BY NetDialAssumption DEF TypeOK, ExchangeDeadline

\* Only a running lookup has lanes that run.
LEMMA LaneRuns ==
    ASSUME IInv, NEW q \in Types, lanes[q].pc = "begin" \/ Waiting(q)
    PROVE  pc = "lanes" /\ result = "none" /\ q \in net.lanes /\ ~Idle(q)
<1>1. ~Idle(q) /\ lanes[q].pc # "off" BY DEF Idle, Waiting
<1>2. pc \notin {"dial", "connect", "returned"} BY <1>1 DEF IInv, LanesInv
<1>3. pc \notin {"call", "lookup"} BY <1>1 DEF IInv, LanesInv, Off
<1>4. pc = "lanes" BY <1>2, <1>3 DEF IInv, TypeOK
<1>5. q \in net.lanes BY <1>1 DEF IInv, LanesInv
<1> QED BY <1>1, <1>4, <1>5 DEF IInv, DialInv

\* What a lane becomes, and what stays.
LEMMA LaneBecomes ==
    ASSUME IInv, NEW q \in Types, LaneStep(q)
    PROVE  /\ lanes' \in [Types -> [pc : LanePc, n : Nat, until : Nat]]
           /\ \A p \in Types \ {q} : lanes'[p] = lanes[p]
           /\ \/ lanes'[q].pc = "sent" /\ Sends(q)
              \/ /\ lanes'[q].pc \in {"udp", "dial", "tcp"} /\ results' = results
                 /\ lanes'[q].until >= now /\ lanes'[q].n < 2 * net.servers
                 /\ deadline # 0 => lanes'[q].until <= deadline
                 /\ lanes'[q].until <= Limit(lanes'[q])
<1> DEFINE E == ExchangeDeadline
<1>0. TypeOK /\ lanes \in [Types -> [pc : LanePc, n : Nat, until : Nat]] /\ lanes[q].n \in Nat
      /\ lanes[q].until \in Nat /\ now \in Nat /\ deadline \in Nat /\ net.servers \in Nat /\ Timeout \in Nat
  BY NetDialAssumption DEF IInv, TypeOK
<1>1. lanes[q].pc = "begin" \/ Waiting(q) BY <1>0, LaneEffect
<1>2. pc = "lanes" BY <1>1, LaneRuns
<1>3. deadline # 0 => now <= deadline BY <1>2 DEF IInv, TimeInv, DeadlineKept
<1>4. E \in Nat /\ now <= E /\ E <= now + Timeout /\ (deadline # 0 => E <= deadline)
  BY <1>0, <1>3, ExchangeDeadlineType
<1>5. lanes[q].pc = "begin" => now = 1 BY DEF IInv, TimeInv
<1>6. Waiting(q) => /\ now <= lanes[q].until /\ (deadline # 0 => lanes[q].until <= deadline)
                    /\ lanes[q].n < 2 * net.servers /\ lanes[q].until <= Limit(lanes[q])
  BY DEF IInv, TimeInv
<1> HIDE DEF E
<1>7. CASE Sends(q)
  <2>1. lanes' = [lanes EXCEPT ![q] = [@ EXCEPT !.pc = "sent"]] BY <1>7 DEF Sends, Sent
  <2> QED BY <1>0, <1>7, <2>1 DEF LanePc
<1>8. CASE Asks(q)
  <2>1. PICK n \in Nat :
          /\ n < 2 * net.servers
          /\ (lanes[q].pc = "begin" /\ n = 0) \/ (Waiting(q) /\ n = lanes[q].n + 1)
          /\ lanes' = [lanes EXCEPT ![q] = [pc |-> "udp", n |-> n, until |-> E]]
    BY <1>8 DEF Asks, E
  <2>2. lanes'[q] = [pc |-> "udp", n |-> n, until |-> E] BY <1>0, <2>1
  <2>3. Limit(lanes'[q]) = 1 + (2 * n + 1) * Timeout BY <2>2 DEF Limit
  <2>4. now <= 1 + (2 * n) * Timeout
    <3>1. CASE lanes[q].pc = "begin" /\ n = 0 BY <1>0, <1>5, <3>1
    <3>2. CASE Waiting(q) /\ n = lanes[q].n + 1
      <4>1. now <= 1 + (2 * lanes[q].n + (IF lanes[q].pc = "udp" THEN 1 ELSE 2)) * Timeout
        <5>1. Limit(lanes[q]) = 1 + (2 * lanes[q].n + (IF lanes[q].pc = "udp" THEN 1 ELSE 2)) * Timeout
          BY DEF Limit
        <5>2. Limit(lanes[q]) \in Nat BY <1>0, <5>1
        <5> QED BY <1>0, <1>6, <3>2, <5>1, <5>2
      <4>2. (2 * lanes[q].n + (IF lanes[q].pc = "udp" THEN 1 ELSE 2)) * Timeout <= (2 * n) * Timeout
        BY <1>0, <3>2, TimesMonotone
      <4> QED BY <1>0, <4>1, <4>2
    <3> QED BY <2>1, <3>1, <3>2
  <2>5. (2 * n + 1) * Timeout = (2 * n) * Timeout + Timeout BY <1>0
  <2>6. E <= 1 + (2 * n + 1) * Timeout BY <1>0, <1>4, <2>4, <2>5
  <2>7. results' = results BY <1>8 DEF Asks
  <2>8. lanes' \in [Types -> [pc : LanePc, n : Nat, until : Nat]] /\ \A p \in Types \ {q} : lanes'[p] = lanes[p]
    BY <1>0, <1>4, <2>1 DEF LanePc
  <2> QED BY <1>4, <2>1, <2>2, <2>3, <2>6, <2>7, <2>8
<1>9. CASE Redials(q)
  <2>1. lanes' = [lanes EXCEPT ![q] = [@ EXCEPT !.pc = "dial", !.until = E]] /\ lanes[q].pc = "udp"
        /\ results' = results
    BY <1>9 DEF Redials, E
  <2>2. lanes'[q].pc = "dial" /\ lanes'[q].n = lanes[q].n /\ lanes'[q].until = E
    BY <1>0, <2>1
  <2>3. Limit(lanes'[q]) = 1 + (2 * lanes[q].n + 2) * Timeout BY <2>2 DEF Limit
  <2>4. Limit(lanes[q]) = 1 + (2 * lanes[q].n + 1) * Timeout BY <2>1 DEF Limit
  <2>5. (2 * lanes[q].n + 2) * Timeout = (2 * lanes[q].n + 1) * Timeout + Timeout BY <1>0
  <2>6. Waiting(q) BY <2>1 DEF Waiting
  <2>7. E <= Limit(lanes'[q])
    <3>1. (2 * lanes[q].n + 1) * Timeout \in Nat BY <1>0
    <3> QED BY <1>0, <1>4, <1>6, <2>3, <2>4, <2>5, <2>6, <3>1
  <2>8. lanes' \in [Types -> [pc : LanePc, n : Nat, until : Nat]] /\ \A p \in Types \ {q} : lanes'[p] = lanes[p]
    BY <1>0, <1>4, <2>1 DEF LanePc
  <2> QED BY <1>4, <1>6, <2>1, <2>2, <2>6, <2>7, <2>8
<1>10. CASE Connects(q)
  <2>1. lanes' = [lanes EXCEPT ![q].pc = "tcp"] /\ lanes[q].pc = "dial" /\ results' = results
    BY <1>10 DEF Connects
  <2>2. lanes'[q].pc = "tcp" /\ lanes'[q].n = lanes[q].n /\ lanes'[q].until = lanes[q].until
    BY <1>0, <2>1
  <2>3. Limit(lanes'[q]) = Limit(lanes[q]) BY <2>1, <2>2 DEF Limit
  <2>4. Waiting(q) BY <2>1 DEF Waiting
  <2>5. lanes' \in [Types -> [pc : LanePc, n : Nat, until : Nat]] /\ \A p \in Types \ {q} : lanes'[p] = lanes[p]
    BY <1>0, <2>1 DEF LanePc
  <2> QED BY <1>0, <1>6, <2>1, <2>2, <2>3, <2>4, <2>5
<1> QED BY <1>0, <1>7, <1>8, <1>9, <1>10, LaneEffect

\* What DialContext does with the addresses does not depend on the lanes.
LEMMA DialSame ==
    ASSUME DialInv, UNCHANGED <<now, ctx, cancelled, pc, dial, result>>
    PROVE  DialInv'
BY DEF DialInv, Ample, ctx, dial

\* Steps of a lane preserve the invariant.
LEMMA LanePreserves == ASSUME IInv, NEW q \in Types, LaneStep(q) PROVE IInv'
<1>0. TypeOK /\ LanesInv /\ TimeInv /\ FindInv /\ DialInv /\ Outcome BY DEF IInv
<1>1. lanes[q].pc = "begin" \/ Waiting(q) BY <1>0, LaneEffect
<1>2. UNCHANGED <<now, ctx, cancelled, got, found, lastErr, pc, dial, result>>
  BY <1>0, LaneEffect DEF laneSame
<1>3. pc = "lanes" /\ result = "none" /\ q \in net.lanes /\ ~Idle(q) BY <1>1, LaneRuns
<1>4. /\ lanes' \in [Types -> [pc : LanePc, n : Nat, until : Nat]]
      /\ \A p \in Types \ {q} : lanes'[p] = lanes[p]
      /\ lanes'[q].pc \notin {"off", "begin"}
  BY LaneBecomes
<1>5. (IsSent("A") + IsSent("AAAA"))' =
        IsSent("A") + IsSent("AAAA") + (IF lanes'[q].pc = "sent" THEN 1 ELSE 0)
  <2>1. lanes[q].pc # "sent" BY <1>3 DEF Idle
  <2>2. CASE q = "A"
    <3>1. lanes'["AAAA"] = lanes["AAAA"] BY <1>4, <2>2 DEF Types
    <3> QED BY <2>1, <2>2, <3>1 DEF IsSent
  <2>3. CASE q = "AAAA"
    <3>1. lanes'["A"] = lanes["A"] BY <1>4, <2>3 DEF Types
    <3> QED BY <2>1, <2>3, <3>1 DEF IsSent
  <2> QED BY <2>2, <2>3 DEF Types
<1>6. /\ results' \in Seq([err : {"nil", "notfound", "failed"}, recs : Seq(Record)])
      /\ Len(results') = Len(results) + (IF lanes'[q].pc = "sent" THEN 1 ELSE 0)
      /\ \A k \in DOMAIN results' : Useful(results'[k])
  <2> DEFINE R == [err : {"nil", "notfound", "failed"}, recs : Seq(Record)]
  <2>0. results \in Seq(R) /\ \A k \in DOMAIN results : Useful(results[k])
    BY <1>0 DEF TypeOK, FindInv
  <2>1. CASE lanes'[q].pc = "sent" /\ Sends(q)
    <3>1. PICK err \in {"nil", "notfound", "failed"}, recs \in Seq(Record) :
             Sent(q, err, recs) /\ Useful([err |-> err, recs |-> recs])
      BY <2>1 DEF Sends
    <3> DEFINE r == [err |-> err, recs |-> recs]
    <3>2. r \in R /\ Useful(r) /\ results' = Append(results, r) BY <3>1 DEF Sent
    <3> HIDE DEF r, R
    <3>3. results' \in Seq(R) /\ Len(results') = Len(results) + 1 BY <2>0, <3>2
    <3>4. ASSUME NEW k \in DOMAIN results' PROVE Useful(results'[k])
      <4>1. k \in 1..(Len(results) + 1) BY <3>3, <3>4
      <4>2. CASE k = Len(results) + 1
        <5>1. results'[k] = r BY <2>0, <3>2, <4>2
        <5> QED BY <3>2, <5>1
      <4>3. CASE k \in 1..Len(results)
        <5>1. results'[k] = results[k] /\ k \in DOMAIN results BY <2>0, <3>2, <4>3
        <5> QED BY <2>0, <5>1
      <4> QED BY <2>0, <4>1, <4>2, <4>3
    <3> QED BY <2>1, <3>3, <3>4 DEF R
  <2>2. CASE lanes'[q].pc \in {"udp", "dial", "tcp"} /\ results' = results BY <2>0, <2>2
  <2> QED BY <2>1, <2>2, LaneBecomes
<1>7. LanesInv'
  <2>1. got' + Len(results') = (IsSent("A") + IsSent("AAAA"))'
    <3>1. got' = got /\ got \in Nat /\ Len(results) \in Nat BY <1>0, <1>2 DEF TypeOK
    <3>2. got + Len(results) = IsSent("A") + IsSent("AAAA") BY <1>0 DEF LanesInv
    <3> QED BY <1>5, <1>6, <3>1, <3>2 DEF IsSent
  <2>2. \A p \in Types : p \notin net'.lanes => lanes'[p].pc = "off"
    BY <1>0, <1>2, <1>3, <1>4 DEF LanesInv, ctx
  <2>3. net'.lanes # {} /\ \A p \in net'.lanes : lanes'[p].pc # "off"
    BY <1>0, <1>2, <1>3, <1>4 DEF LanesInv, ctx, TypeOK
  <2> QED BY <1>2, <1>3, <2>1, <2>2, <2>3 DEF LanesInv, IsSent
<1>8. TypeOK'
  <2>1. net'.lanes \subseteq Types /\ net' = net BY <1>0, <1>2 DEF TypeOK, ctx
  <2>2. \A p \in Types : p \notin net'.lanes => lanes'[p].pc = "off" BY <1>7 DEF LanesInv
  <2>3. (IsSent("A") + IsSent("AAAA"))' <= LaneCount'
    BY <1>4, <2>1, <2>2 DEF IsSent, LaneCount, Types
  <2>4. (got + Len(results) <= LaneCount)' BY <1>7, <2>3 DEF LanesInv
  <2> QED BY ZenonT(40), <1>0, <1>2, <1>4, <1>6, <2>4 DEF TypeOK, ctx, dial
<1>9. TimeInv'
  <2>1. (DeadlineKept /\ LookupTime)' BY <1>0, <1>2 DEF TimeInv, DeadlineKept, LookupTime, ctx
  <2>2. ASSUME NEW p \in Types, (lanes'[p]).pc = "begin" PROVE now' = 1
    BY <1>0, <1>2, <1>4, <2>2 DEF TimeInv
  <2>3. ASSUME NEW p \in Types, Waiting(p)'
        PROVE  /\ now' <= lanes'[p].until /\ (deadline' # 0 => lanes'[p].until <= deadline')
               /\ lanes'[p].n < 2 * net'.servers /\ lanes'[p].until <= Limit(lanes'[p])
    <3>0. now' = now /\ deadline' = deadline /\ net' = net BY <1>2 DEF ctx
    <3>1. CASE p = q
      <4>1. lanes'[q].pc # "sent" BY <2>3, <3>1 DEF Waiting
      <4>2. now \in Nat /\ lanes'[q].until \in Nat BY <1>0, <1>4 DEF TypeOK
      <4> QED BY <3>0, <3>1, <4>1, <4>2, LaneBecomes
    <3>2. CASE p # q
      <4>1. lanes'[p] = lanes[p] BY <1>4, <3>2
      <4>2. Waiting(p) BY <2>3, <4>1 DEF Waiting
      <4> QED BY <1>0, <3>0, <4>1, <4>2 DEF TimeInv
    <3> QED BY <3>1, <3>2
  <2>4. pc' \notin {"call", "lookup"} BY <1>2, <1>3
  <2> QED BY <2>1, <2>2, <2>3, <2>4 DEF TimeInv, Limit
<1>10. FindInv' BY <1>0, <1>2, <1>6 DEF FindInv, Useful
<1>11. DialInv' BY <1>0, <1>2, DialSame
<1>12. Outcome' BY <1>2, <1>3 DEF Outcome, LookupFinds, OneLaneIsEnough, EveryAddressTried
<1> QED BY <1>7, <1>8, <1>9, <1>10, <1>11, <1>12 DEF IInv

-----------------------------------------------------------------------------
(* The steps of DialContext preserve the invariant.                        *)

Results == {"invalid", "lookup", "unsuitable", "timeout", "cancelled", "failed", "conn"}

Quiet == results = <<>> /\ \A q \in Types : Idle(q)

\* A call that returns when no lane runs leaves the invariant as it is, if its
\* result is right.
LEMMA ReturnPreserves ==
    ASSUME IInv, Quiet, NEW r \in Results, Return(r), Outcome',
           UNCHANGED <<now, ctx, cancelled, lanes, look, i, until, firstErr, tried>>,
           addrs' \in Seq(Types), began' \in Nat
    PROVE  IInv'
<1>0. TypeOK /\ LanesInv /\ TimeInv /\ FindInv /\ DialInv BY DEF IInv
<1>1. pc' = "returned" /\ result' = r /\ r # "none" BY DEF Return, Results
<1>2. TypeOK' BY <1>0, <1>1 DEF TypeOK, Results, ctx, look, LaneCount
<1>3. LanesInv' BY <1>0, <1>1 DEF LanesInv, Quiet, Idle, IsSent, ctx, look
<1>4. TimeInv'
  <2>1. \A q \in Types : ~Waiting(q)' /\ (lanes[q].pc # "begin")' BY DEF Quiet, Idle, Waiting
  <2> QED BY <1>1, <2>1 DEF TimeInv, DeadlineKept, LookupTime
<1>5. FindInv' BY <1>0 DEF FindInv, look, Useful
<1>6. DialInv' BY <1>1 DEF DialInv
<1> QED BY <1>2, <1>3, <1>4, <1>5, <1>6 DEF IInv

\* The same for a call that returns without looking at the addresses.
LEMMA PlainReturnPreserves ==
    ASSUME IInv, Quiet, NEW r \in {"invalid", "cancelled", "conn"}, Return(r),
           UNCHANGED <<now, ctx, cancelled, lanes, look, dial>>
    PROVE  IInv'
<1>1. Outcome'
  BY DEF Return, Outcome, LookupFinds, OneLaneIsEnough, EveryAddressTried
<1>2. addrs' \in Seq(Types) /\ began' \in Nat BY DEF IInv, TypeOK, dial
<1>3. UNCHANGED <<i, until, firstErr, tried>> BY DEF dial
<1>4. r \in Results BY DEF Results
<1> QED BY <1>1, <1>2, <1>3, <1>4, ReturnPreserves

\* A lookup that found an address leads to the loop over the addresses.
LEMMA AddressesPreserve ==
    ASSUME IInv, Quiet, pc \in {"lookup", "lanes"}, NEW n \in [Types -> Nat], Addresses(n),
           n["A"] > 0 \/ n["AAAA"] > 0,
           UNCHANGED <<now, ctx, cancelled, lanes, look>>
    PROVE  IInv'
<1> DEFINE m == [q \in Types |-> IF q \in call.accept THEN n[q] ELSE 0]
           ok == Ordered(m)
<1>0. TypeOK /\ LanesInv /\ TimeInv /\ FindInv /\ DialInv BY DEF IInv
<1>1. m \in [Types -> Nat] OBVIOUS
<1> HIDE DEF m
<1>2. ok \in Seq(Types) BY <1>1, OrderedType
<1>3. Ordered(n) # <<>>
  <2>1. n["A"] \in Nat /\ n["AAAA"] \in Nat BY DEF Types
  <2> QED BY <2>1, OrderedType
<1>4. addrs' = ok /\ began' = now /\ UNCHANGED <<i, until, firstErr, tried>>
  BY DEF Addresses, m
<1>5. began' \in Nat /\ addrs' \in Seq(Types) BY <1>0, <1>2, <1>4 DEF TypeOK
<1>6. CASE ok = <<>>
  <2>1. Return("unsuitable") BY <1>3, <1>6 DEF Addresses, m
  <2>2. Outcome' BY <2>1 DEF Return, Outcome, LookupFinds, OneLaneIsEnough, EveryAddressTried
  <2>3. "unsuitable" \in Results BY DEF Results
  <2> QED BY <1>4, <1>5, <2>1, <2>2, <2>3, ReturnPreserves
<1>7. CASE ok # <<>>
  <2>1. pc' = "dial" /\ result' = result BY <1>7 DEF Addresses, m
  <2>2. result = "none" /\ i = 1 /\ firstErr = FALSE /\ tried = 0 BY <1>0 DEF DialInv
  <2>3. TypeOK' BY <1>0, <1>4, <1>5, <2>1 DEF TypeOK, ctx, look, LaneCount
  <2>4. LanesInv' BY <1>0, <2>1 DEF LanesInv, Quiet, Idle, IsSent, ctx, look
  <2>5. TimeInv'
    <3>1. \A q \in Types : ~Waiting(q)' /\ (lanes[q].pc # "begin")' BY DEF Quiet, Idle, Waiting
    <3>2. DeadlineKept' BY <1>0, <2>1 DEF TimeInv, DeadlineKept, ctx
    <3> QED BY <2>1, <3>1, <3>2 DEF TimeInv, LookupTime
  <2>6. FindInv' BY <1>0 DEF FindInv, look, Useful
  <2>7. DialInv'
    <3>1. Len(ok) > 0 /\ Len(ok) \in Nat BY <1>2, <1>7
    <3>2. Ample' => deadline' - now' >= SaneMinimum * Len(ok) BY <1>4 DEF Ample
    <3>3. Len(ok) - 1 + 1 = Len(ok) BY <3>1
    <3> QED BY <1>4, <2>1, <2>2, <3>1, <3>2, <3>3 DEF DialInv
  <2>8. Outcome' BY <2>1, <2>2 DEF Outcome, LookupFinds, OneLaneIsEnough, EveryAddressTried
  <2> QED BY <2>3, <2>4, <2>5, <2>6, <2>7, <2>8 DEF IInv
<1> QED BY <1>6, <1>7

\* The lookup fails when no address was found.
LEMMA LookupFails ==
    ASSUME IInv, Quiet, Return("lookup"), \A q \in Types : found[q] = 0,
           UNCHANGED <<now, ctx, cancelled, lanes, look, dial>>
    PROVE  IInv'
<1>1. Outcome'
  BY DEF Return, Outcome, LookupFinds, OneLaneIsEnough, EveryAddressTried, Quiet, Idle, look
<1>2. addrs' \in Seq(Types) /\ began' \in Nat BY DEF IInv, TypeOK, dial
<1>3. UNCHANGED <<i, until, firstErr, tried>> BY DEF dial
<1>4. "lookup" \in Results BY DEF Results
<1> QED BY <1>1, <1>2, <1>3, <1>4, ReturnPreserves

\* The beginning of DialContext.
LEMMA BeginPreserves == ASSUME IInv, DialBegin \/ LookupAtOnce PROVE IInv'
<1>0. TypeOK /\ LanesInv /\ TimeInv /\ FindInv /\ DialInv BY DEF IInv
<1>1. pc \in {"call", "lookup"} BY DEF DialBegin, LookupAtOnce
<1>2. Quiet /\ \A q \in Types : found[q] = 0 BY <1>0, <1>1 DEF LanesInv, Quiet, Idle, Off
<1>3. CASE DialBegin /\ Return("invalid")
  <2>1. UNCHANGED <<now, ctx, cancelled, lanes, look, dial>> BY <1>3 DEF DialBegin
  <2> QED BY <1>2, <1>3, <2>1, PlainReturnPreserves
<1>4. CASE DialBegin /\ ~Return("invalid")
  <2>1. pc' = "lookup" /\ result' = result /\ pc = "call"
        /\ UNCHANGED <<now, ctx, cancelled, lanes, look, dial>>
    BY <1>4 DEF DialBegin
  <2>2. TypeOK' BY <1>0, <2>1 DEF TypeOK, ctx, look, dial, LaneCount
  <2>3. LanesInv' BY <1>0, <2>1 DEF LanesInv, IsSent, Off, ctx, look
  <2>4. TimeInv' BY <1>0, <2>1 DEF TimeInv, DeadlineKept, LookupTime, Waiting, Limit, ctx
  <2>5. FindInv' BY <1>0, <2>1 DEF FindInv, look, Useful
  <2>6. DialInv' BY <1>0, <2>1 DEF DialInv, dial
  <2>7. Outcome'
    BY <1>0, <2>1 DEF DialInv, Outcome, LookupFinds, OneLaneIsEnough, EveryAddressTried
  <2> QED BY <2>2, <2>3, <2>4, <2>5, <2>6, <2>7 DEF IInv
<1>5. CASE LookupAtOnce
  <2> DEFINE n == [q \in Types |-> IF q = call.host.addr THEN 1 ELSE 0]
  <2>1. UNCHANGED <<now, ctx, cancelled, lanes, look>> /\ pc = "lookup" BY <1>5 DEF LookupAtOnce
  <2>2. \/ Return("lookup") /\ UNCHANGED dial
        \/ call.host.addr # "none" /\ Addresses(n)
    BY <1>5 DEF LookupAtOnce
  <2>3. CASE Return("lookup") /\ UNCHANGED dial BY <1>2, <2>1, <2>3, LookupFails
  <2>4. CASE call.host.addr # "none" /\ Addresses(n)
    <3>1. call.host.addr \in Types BY <1>0, <2>4 DEF TypeOK
    <3>2. n \in [Types -> Nat] /\ (n["A"] > 0 \/ n["AAAA"] > 0) BY <3>1 DEF Types
    <3> HIDE DEF n
    <3> QED BY <1>2, <2>1, <2>4, <3>2, AddressesPreserve
  <2> QED BY <2>2, <2>3, <2>4
<1> QED BY <1>3, <1>4, <1>5

\* The lanes start.
LEMMA StartPreserves == ASSUME IInv, StartLanes PROVE IInv'
<1>0. TypeOK /\ LanesInv /\ TimeInv /\ FindInv /\ DialInv BY DEF IInv
<1>1. /\ pc = "lookup" /\ pc' = "lanes" /\ net.lanes # {}
      /\ lanes' = [q \in Types |-> IF q \in net.lanes THEN [Off EXCEPT !.pc = "begin"] ELSE Off]
      /\ UNCHANGED <<now, ctx, cancelled, look, dial, result>>
  BY DEF StartLanes
<1>2. \A q \in Types : /\ lanes'[q].pc \in {"begin", "off"}
                       /\ lanes'[q].pc = "off" <=> q \notin net.lanes
  BY <1>1 DEF Off
<1>3. got = 0 /\ results = <<>> /\ now = 1 BY <1>0, <1>1 DEF LanesInv, TimeInv
<1>4. TypeOK' BY <1>0, <1>1 DEF TypeOK, ctx, look, dial, LaneCount, LanePc, Off
<1>5. LanesInv'
  <2>1. (IsSent("A") + IsSent("AAAA"))' = 0 BY <1>2 DEF IsSent, Types
  <2>2. (got + Len(results))' = 0 BY <1>1, <1>3 DEF look
  <2>3. net' = net /\ net.lanes \subseteq Types BY <1>0, <1>1 DEF ctx, TypeOK
  <2> QED BY <1>1, <1>2, <2>1, <2>2, <2>3 DEF LanesInv
<1>6. TimeInv'
  <2>1. now' = 1 /\ net' = net /\ net.servers \in Nat BY <1>0, <1>1, <1>3 DEF ctx, TypeOK
  <2>2. 4 * net.servers * Timeout \in Nat BY <2>1, NetDialAssumption
  <2>3. LookupTime' BY <2>1, <2>2 DEF LookupTime
  <2>4. DeadlineKept' BY <1>0, <1>1 DEF TimeInv, DeadlineKept, ctx
  <2>5. \A q \in Types : ~Waiting(q)' BY <1>2 DEF Waiting
  <2> QED BY <1>1, <2>1, <2>3, <2>4, <2>5 DEF TimeInv
<1>7. FindInv' BY <1>0, <1>1 DEF FindInv, look, Useful
<1>8. DialInv' BY <1>0, <1>1 DEF DialInv, dial
<1>9. Outcome'
  BY <1>0, <1>1 DEF DialInv, Outcome, LookupFinds, OneLaneIsEnough, EveryAddressTried
<1> QED BY <1>4, <1>5, <1>6, <1>7, <1>8, <1>9 DEF IInv

\* A result is received.
LEMMA ReceivePreserves == ASSUME IInv, ReceiveLane PROVE IInv'
<1> DEFINE R == [err : {"nil", "notfound", "failed"}, recs : Seq(Record)]
           r == Head(results)
<1>0. TypeOK /\ LanesInv /\ TimeInv /\ FindInv /\ DialInv BY DEF IInv
<1>1. /\ pc = "lanes" /\ results # <<>> /\ results' = Tail(results) /\ got' = got + 1
      /\ UNCHANGED <<now, ctx, cancelled, lanes, pc, dial, result>>
  BY DEF ReceiveLane
<1>2. IF r.err # "nil"
        THEN lastErr' = (IF lastErr = "nil" THEN r.err ELSE lastErr) /\ found' = found
        ELSE /\ found' = [q \in Types |-> found[q] + Counts(r.recs)[q]]
             /\ lastErr' = IF Good(r.recs) # DOMAIN r.recs THEN "failed" ELSE lastErr
  BY DEF ReceiveLane
<1>3. results \in Seq(R) /\ found \in [Types -> Nat] /\ lastErr \in {"nil", "notfound", "failed"}
      /\ got \in Nat
  BY <1>0 DEF TypeOK
<1>4. r \in R /\ r = results[1] /\ 1 \in DOMAIN results
  <2> HIDE DEF R
  <2>1. Len(results) > 0 /\ Len(results) \in Nat BY <1>1, <1>3
  <2>2. results[1] \in R BY <1>3, <2>1
  <2> QED BY <1>3, <2>1, <2>2
<1>5. Useful(r) BY <1>0, <1>4 DEF FindInv
<1>6. r.recs \in Seq(Record) /\ r.err \in {"nil", "notfound", "failed"} BY <1>4
<1>7. Counts(r.recs) \in [Types -> Nat] BY <1>6, CountsType
<1> HIDE DEF r
<1>8. results' \in Seq(R) /\ Len(results') = Len(results) - 1 /\ Len(results) \in Nat
      /\ \A k \in DOMAIN results' : k + 1 \in DOMAIN results /\ results'[k] = results[k + 1]
  <2> HIDE DEF R
  <2> QED BY <1>1, <1>3
<1>9. found' \in [Types -> Nat] /\ lastErr' \in {"nil", "notfound", "failed"}
  BY <1>2, <1>3, <1>6, <1>7
<1>10. got' + Len(results') = got + Len(results) /\ got' \in Nat BY <1>1, <1>3, <1>8
<1>11. TypeOK' BY <1>0, <1>1, <1>8, <1>9, <1>10 DEF TypeOK, ctx, dial, LaneCount
<1>12. LanesInv' BY <1>0, <1>1, <1>10 DEF LanesInv, IsSent, ctx
<1>13. TimeInv' BY <1>0, <1>1 DEF TimeInv, DeadlineKept, LookupTime, Waiting, Limit, ctx
<1>14. FindInv'
  <2>1. \A k \in DOMAIN results' : Useful(results'[k]) BY <1>0, <1>8 DEF FindInv
  <2>2. ASSUME found'["A"] = 0, found'["AAAA"] = 0 PROVE lastErr' # "nil"
    <3>1. CASE r.err # "nil" BY <1>2, <3>1
    <3>2. CASE r.err = "nil"
      <4>1. /\ found'["A"] = found["A"] + Counts(r.recs)["A"]
            /\ found'["AAAA"] = found["AAAA"] + Counts(r.recs)["AAAA"]
        BY <1>2, <3>2 DEF Types
      <4>2. /\ found["A"] \in Nat /\ Counts(r.recs)["A"] \in Nat
            /\ found["AAAA"] \in Nat /\ Counts(r.recs)["AAAA"] \in Nat
        BY <1>3, <1>7 DEF Types
      <4>3. ~(Counts(r.recs)["A"] > 0) /\ ~(Counts(r.recs)["AAAA"] > 0) BY <2>2, <4>1, <4>2
      <4>4. Good(r.recs) # DOMAIN r.recs BY <1>5, <3>2, <4>3 DEF Useful
      <4> QED BY <1>2, <3>2, <4>4
    <3> QED BY <3>1, <3>2
  <2> QED BY <2>1, <2>2 DEF FindInv, Useful
<1>15. DialInv' BY <1>0, <1>1, DialSame
<1>16. Outcome'
  BY <1>0, <1>1 DEF DialInv, Outcome, LookupFinds, OneLaneIsEnough, EveryAddressTried
<1> QED BY <1>11, <1>12, <1>13, <1>14, <1>15, <1>16 DEF IInv

\* The lookup ends when every lane has.
LEMMA LookupReturnsPreserves == ASSUME IInv, LookupReturns PROVE IInv'
<1>0. TypeOK /\ LanesInv /\ TimeInv /\ FindInv /\ DialInv BY DEF IInv
<1>1. pc = "lanes" /\ got = LaneCount /\ UNCHANGED <<now, ctx, cancelled, lanes, look>>
  BY DEF LookupReturns
<1>2. IF Ordered(found) = <<>> /\ lastErr # "nil" THEN Return("lookup") /\ UNCHANGED dial
                                                  ELSE Addresses(found)
  BY DEF LookupReturns
<1>3. /\ LaneCount \in Nat /\ IsSent("A") + IsSent("AAAA") <= LaneCount
      /\ IsSent("A") + IsSent("AAAA") = LaneCount => \A q \in net.lanes : lanes[q].pc = "sent"
      /\ LaneCount > 0 /\ IsSent("A") + IsSent("AAAA") \in Nat
  BY <1>0, <1>1, LaneCounts DEF TypeOK, LanesInv
<1>4. results = <<>> /\ \A q \in net.lanes : lanes[q].pc = "sent"
  <2>1. got + Len(results) = IsSent("A") + IsSent("AAAA") BY <1>0 DEF LanesInv
  <2>2. Len(results) \in Nat /\ got \in Nat BY <1>0 DEF TypeOK
  <2>3. Len(results) = 0 BY <1>1, <1>3, <2>1, <2>2
  <2>4. results = <<>> BY <1>0, <2>3 DEF TypeOK
  <2> QED BY <1>1, <1>3, <2>1, <2>2, <2>3, <2>4
<1>5. Quiet BY <1>0, <1>4 DEF Quiet, Idle, LanesInv
<1>6. found \in [Types -> Nat] /\ found["A"] \in Nat /\ found["AAAA"] \in Nat
  BY <1>0 DEF TypeOK, Types
<1>7. Ordered(found) = <<>> <=> found["A"] = 0 /\ found["AAAA"] = 0 BY <1>6, OrderedType
<1>8. CASE Ordered(found) = <<>>
  <2>1. lastErr # "nil" BY <1>0, <1>1, <1>3, <1>7, <1>8 DEF FindInv
  <2>2. \A q \in Types : found[q] = 0 BY <1>7, <1>8 DEF Types
  <2> QED BY <1>1, <1>2, <1>5, <1>8, <2>1, <2>2, LookupFails
<1>9. CASE Ordered(found) # <<>>
  <2>1. Addresses(found) BY <1>2, <1>9
  <2>2. found["A"] > 0 \/ found["AAAA"] > 0 BY <1>6, <1>7, <1>9
  <2> QED BY <1>1, <1>5, <1>6, <2>1, <2>2, AddressesPreserve
<1> QED BY <1>8, <1>9

\* A share of the time left ends in time, and leaves enough for the other
\* addresses if there was enough for all of them.
LEMMA ShareType ==
    ASSUME TypeOK, deadline # 0, now < deadline, NEW left \in Nat \ {0}
    PROVE  LET u == partialDeadline(left) IN
           /\ u \in Nat /\ now <= u /\ u <= deadline
           /\ deadline - now >= SaneMinimum * left => deadline - u >= SaneMinimum * (left - 1)
<1> DEFINE rem == deadline - now
           share == rem \div left
<1>0. rem \in Nat /\ rem > 0 /\ now \in Nat /\ deadline \in Nat /\ SaneMinimum \in Nat \ {0}
  BY NetDialAssumption DEF TypeOK
<1>1. partialDeadline(left) = now + (IF share >= SaneMinimum THEN share
                                     ELSE IF rem < SaneMinimum THEN rem ELSE SaneMinimum)
      /\ share \in Nat /\ left * share <= rem /\ rem < left * (share + 1) /\ share <= rem
  <2>1. share \in Nat /\ left * share <= rem /\ rem < left * (share + 1)
    <3> HIDE DEF rem
    <3> QED BY <1>0
  <2>2. share <= rem
    <3>1. share * 1 <= share * left BY <2>1, TimesMonotone
    <3> HIDE DEF share, rem
    <3> QED BY <1>0, <2>1, <3>1
  <2> HIDE DEF share
  <2>3. partialDeadline(left) = now + CASE share >= SaneMinimum -> share
                                        [] rem < SaneMinimum -> rem
                                        [] OTHER -> SaneMinimum
    BY DEF partialDeadline, share
  <2>4. ~(share >= SaneMinimum /\ rem < SaneMinimum) BY <1>0, <2>1, <2>2
  <2> QED BY <2>1, <2>2, <2>3, <2>4
<1> HIDE DEF share
<1>3. partialDeadline(left) \in Nat /\ now <= partialDeadline(left) /\ partialDeadline(left) <= deadline
  BY <1>0, <1>1
<1>4. ASSUME rem >= SaneMinimum * left PROVE rem - share >= SaneMinimum * (left - 1) /\ share >= SaneMinimum
  <2> HIDE DEF rem
  <2>1. share >= SaneMinimum
    <3>1. SUFFICES ASSUME share < SaneMinimum PROVE FALSE BY <1>0, <1>1
    <3>2. (share + 1) * left <= SaneMinimum * left BY <1>0, <1>1, <3>1, TimesMonotone
    <3>3. (share + 1) * left = left * (share + 1) BY <1>1
    <3>4. left * (share + 1) \in Nat /\ SaneMinimum * left \in Nat BY <1>0, <1>1
    <3> QED BY <1>0, <1>1, <1>4, <3>2, <3>3, <3>4
  <2>2. SaneMinimum * (left - 1) <= share * (left - 1) BY <1>0, <1>1, <2>1, TimesMonotone
  <2>3. share * (left - 1) = left * share - share BY <1>1
  <2>4. left * share \in Nat /\ SaneMinimum * (left - 1) \in Int BY <1>0, <1>1
  <2> QED BY <1>0, <1>1, <2>1, <2>2, <2>3, <2>4
<1>5. ASSUME rem >= SaneMinimum * left PROVE deadline - partialDeadline(left) >= SaneMinimum * (left - 1)
  <2>1. partialDeadline(left) = now + share BY <1>1, <1>4, <1>5
  <2>2. deadline - (now + share) = rem - share BY <1>0, <1>1
  <2> QED BY <1>4, <1>5, <2>1, <2>2
<1> QED BY <1>3, <1>5

\* The loop over the addresses ends.
LEMMA EndPreserves == ASSUME IInv, DialTimeUp \/ DialCancelled \/ DialNone \/ Connected PROVE IInv'
<1>0. TypeOK /\ LanesInv /\ DialInv BY DEF IInv
<1>1. pc \in {"dial", "connect"} /\ UNCHANGED <<now, ctx, cancelled, lanes, look, dial>>
  BY DEF DialTimeUp, DialCancelled, DialNone, Connected
<1>2. Quiet BY <1>0, <1>1 DEF LanesInv, Quiet
<1>3. CASE DialCancelled \/ Connected
  <2>1. Return("cancelled") \/ Return("conn") BY <1>3 DEF DialCancelled, Connected
  <2> QED BY <1>1, <1>2, <2>1, PlainReturnPreserves
<1>4. ASSUME NEW r \in {"timeout", "failed"}, Return(r), deadline # 0 /\ Ample => tried = Len(addrs)
      PROVE  IInv'
  <2>1. Outcome'
    BY <1>1, <1>4 DEF Return, Outcome, LookupFinds, OneLaneIsEnough, EveryAddressTried, Ample, ctx, dial
  <2>2. addrs' \in Seq(Types) /\ began' \in Nat /\ UNCHANGED <<i, until, firstErr, tried>>
    BY <1>0, <1>1 DEF TypeOK, dial
  <2>3. r \in Results BY DEF Results
  <2> QED BY <1>1, <1>2, <1>4, <2>1, <2>2, <2>3, ReturnPreserves
<1>5. CASE DialTimeUp
  <2>1. pc = "dial" /\ i <= Len(addrs) /\ deadline # 0 /\ now >= deadline
        /\ (Return("timeout") \/ Return("failed"))
    BY <1>5 DEF DialTimeUp
  <2>2. i \in Nat /\ Len(addrs) \in Nat /\ now \in Nat /\ deadline \in Nat /\ SaneMinimum \in Nat \ {0}
    BY <1>0, NetDialAssumption DEF TypeOK
  <2>3. 1 * SaneMinimum <= (Len(addrs) - i + 1) * SaneMinimum BY <2>1, <2>2, TimesMonotone
  <2>4. (Len(addrs) - i + 1) * SaneMinimum = SaneMinimum * (Len(addrs) - i + 1) BY <2>2
  <2>5. Ample => deadline - now >= SaneMinimum * (Len(addrs) - i + 1) BY <1>0, <2>1 DEF DialInv
  <2>6. ~Ample BY <2>1, <2>2, <2>3, <2>4, <2>5
  <2> QED BY <1>4, <2>1, <2>6
<1>6. CASE DialNone
  <2>1. pc = "dial" /\ i > Len(addrs) /\ Return(IF firstErr THEN "failed" ELSE "missing")
    BY <1>6 DEF DialNone
  <2>2. i \in Nat \ {0} /\ Len(addrs) \in Nat BY <1>0 DEF TypeOK
  <2>3. i <= Len(addrs) + 1 /\ tried = i - 1 /\ (i = 1 => Len(addrs) > 0) /\ (i > 1 => firstErr = TRUE)
    BY <1>0, <2>1 DEF DialInv
  <2>4. firstErr = TRUE /\ tried = Len(addrs) BY <2>1, <2>2, <2>3
  <2>5. Return("failed") BY <2>1, <2>4
  <2> QED BY <1>4, <2>4, <2>5
<1> QED BY <1>3, <1>5, <1>6

\* An address is dialled, or fails.
LEMMA AddressPreserves == ASSUME IInv, DialAddress \/ ConnectFails \/ ConnectEnds PROVE IInv'
<1>0. TypeOK /\ LanesInv /\ TimeInv /\ FindInv /\ DialInv BY DEF IInv
<1>1. /\ pc \in {"dial", "connect"} /\ pc' \in {"dial", "connect"}
      /\ UNCHANGED <<now, ctx, cancelled, lanes, look, addrs, began, result>>
  BY DEF DialAddress, ConnectFails, ConnectEnds, Failed
<1>2. LanesInv' BY <1>0, <1>1 DEF LanesInv, Idle, IsSent, ctx, look
<1>3. TimeInv'
  BY <1>0, <1>1 DEF TimeInv, LanesInv, Idle, DeadlineKept, LookupTime, Waiting, ctx
<1>4. FindInv' BY <1>0, <1>1 DEF FindInv, look, Useful
<1>5. Outcome'
  BY <1>0, <1>1 DEF DialInv, Outcome, LookupFinds, OneLaneIsEnough, EveryAddressTried
<1>6. i \in Nat \ {0} /\ Len(addrs) \in Nat /\ tried \in Nat /\ now \in Nat /\ deadline \in Nat
      /\ until \in Nat /\ SaneMinimum \in Nat
  BY <1>0, NetDialAssumption DEF TypeOK
<1>7. CASE DialAddress
  <2> DEFINE left == Len(addrs) - i + 1
  <2>1. /\ pc = "dial" /\ i <= Len(addrs) /\ pc' = "connect" /\ tried' = tried + 1
        /\ until' = IF deadline = 0 THEN 0 ELSE partialDeadline(left)
        /\ i' = i /\ firstErr' = firstErr /\ (deadline # 0 => now < deadline)
    BY <1>7 DEF DialAddress
  <2>2. left \in Nat \ {0} /\ left - 1 = Len(addrs) - i BY <1>6, <2>1
  <2>3. /\ tried = i - 1 /\ (i > 1 => firstErr = TRUE)
        /\ deadline # 0 /\ Ample => deadline - now >= SaneMinimum * left
    BY <1>0, <2>1 DEF DialInv
  <2> HIDE DEF left
  <2>4. deadline # 0 => /\ until' \in Nat /\ now <= until' /\ until' <= deadline
                        /\ Ample => deadline - until' >= SaneMinimum * (left - 1)
    BY <1>0, <2>1, <2>2, <2>3, ShareType
  <2>5. until' \in Nat /\ tried' = i /\ tried' \in Nat BY <1>6, <2>1, <2>3, <2>4
  <2>6. TypeOK' BY <1>0, <1>1, <2>1, <2>5 DEF TypeOK, ctx, look, LaneCount
  <2>7. Ample' <=> Ample BY <1>1 DEF Ample, ctx
  <2>8. DialInv'
    <3>1. deadline' # 0 => /\ now' <= until' /\ until' <= deadline'
                           /\ Ample' => deadline' - until' >= SaneMinimum * (Len(addrs') - i')
      BY <1>1, <2>1, <2>2, <2>4, <2>7 DEF ctx
    <3>2. result' # "none" <=> pc' = "returned" BY <1>0, <1>1, <2>1 DEF DialInv
    <3>3. i' <= Len(addrs') /\ tried' = i' /\ (i' > 1 => firstErr' = TRUE)
      BY <1>1, <2>1, <2>3, <2>5
    <3> QED BY <2>1, <3>1, <3>2, <3>3 DEF DialInv
  <2> QED BY <1>2, <1>3, <1>4, <1>5, <2>6, <2>8 DEF IInv
<1>8. CASE ConnectFails \/ ConnectEnds
  <2>1. /\ pc = "connect" /\ pc' = "dial" /\ i' = i + 1 /\ firstErr' = TRUE
        /\ UNCHANGED <<until, tried>>
    BY <1>8 DEF ConnectFails, ConnectEnds, Failed
  <2>2. /\ i <= Len(addrs) /\ tried = i
        /\ deadline # 0 => now <= until /\ (Ample => deadline - until >= SaneMinimum * (Len(addrs) - i))
    BY <1>0, <2>1 DEF DialInv
  <2>3. TypeOK' BY SMTT(30), <1>0, <1>1, <1>6, <2>1 DEF TypeOK, ctx, look, LaneCount
  <2>4. Ample' <=> Ample BY <1>1 DEF Ample, ctx
  <2>5. DialInv'
    <3>1. Len(addrs) - i = Len(addrs) - i' + 1 BY <1>6, <2>1
    <3>2. SaneMinimum * (Len(addrs) - i) \in Int BY <1>6
    <3>3. deadline # 0 /\ Ample => deadline - now >= SaneMinimum * (Len(addrs) - i)
      BY <1>6, <2>2, <3>2
    <3>4. deadline' # 0 /\ Ample' => deadline' - now' >= SaneMinimum * (Len(addrs') - i' + 1)
      BY <1>1, <2>4, <3>1, <3>3 DEF ctx
    <3>5. i' <= Len(addrs') + 1 /\ tried' = i' - 1 /\ i' # 1 BY <1>1, <1>6, <2>1, <2>2
    <3>6. result' # "none" <=> pc' = "returned" BY <1>0, <1>1, <2>1 DEF DialInv
    <3> QED BY <2>1, <3>4, <3>5, <3>6 DEF DialInv
  <2> QED BY <1>2, <1>3, <1>4, <1>5, <2>3, <2>5 DEF IInv
<1> QED BY <1>7, <1>8

-----------------------------------------------------------------------------
(* The clock and the caller, and the theorems.                             *)

\* A cancelled context changes nothing by itself.
LEMMA CancelPreserves == ASSUME IInv, Cancel PROVE IInv'
<1>0. TypeOK /\ LanesInv /\ TimeInv /\ FindInv /\ DialInv BY DEF IInv
<1>1. pc # "returned" /\ cancelled' = TRUE /\ UNCHANGED <<now, ctx, lanes, look, pc, dial, result>>
  BY DEF Cancel
<1>2. TypeOK' BY <1>0, <1>1 DEF TypeOK, ctx, look, dial, LaneCount
<1>3. LanesInv' BY <1>0, <1>1 DEF LanesInv, Idle, IsSent, ctx, look
<1>4. TimeInv' BY <1>0, <1>1 DEF TimeInv, DeadlineKept, LookupTime, Waiting, Limit, ctx
<1>5. FindInv' BY <1>0, <1>1 DEF FindInv, look, Useful
<1>6. DialInv' BY <1>0, <1>1 DEF DialInv, Ample, ctx, dial
<1>7. Outcome'
  BY <1>0, <1>1 DEF DialInv, Outcome, LookupFinds, OneLaneIsEnough, EveryAddressTried
<1> QED BY <1>2, <1>3, <1>4, <1>5, <1>6, <1>7 DEF IInv

\* The clock passes neither the deadline nor the time of a lookup.
LEMMA TickPreserves == ASSUME IInv, Tick PROVE IInv'
<1>0. TypeOK /\ LanesInv /\ TimeInv /\ FindInv /\ DialInv BY DEF IInv
<1>1. now' = now + 1 /\ UNCHANGED <<ctx, cancelled, lanes, look, pc, dial, result>>
  BY DEF Tick
<1>2. now \in Nat \ {0} /\ now' \in Nat \ {0} /\ deadline \in Nat /\ net.servers \in Nat /\ Timeout \in Nat
      /\ until \in Nat /\ \A q \in Types : lanes[q].until \in Nat /\ lanes[q].n \in Nat
  BY <1>0, <1>1, NetDialAssumption DEF TypeOK
<1>3. TypeOK' BY SMTT(30), <1>0, <1>1, <1>2 DEF TypeOK, ctx, look, dial, LaneCount
<1>4. LanesInv' BY <1>0, <1>1 DEF LanesInv, Idle, IsSent, ctx, look
<1>5. FindInv' BY <1>0, <1>1 DEF FindInv, look, Useful
<1>6. pc \in {"lanes", "connect"} BY DEF Tick
<1>7. Outcome'
  BY <1>0, <1>1, <1>6 DEF DialInv, Outcome, LookupFinds, OneLaneIsEnough, EveryAddressTried
<1>8. CASE pc = "lanes"
  <2>1. /\ \E q \in Types : Waiting(q)
        /\ \A q \in Types : lanes[q].pc # "begin" /\ (Waiting(q) => now < lanes[q].until)
    BY <1>8 DEF Tick
  <2>2. PICK q \in Types : Waiting(q) BY <2>1
  <2>3. /\ now < lanes[q].until /\ lanes[q].n < 2 * net.servers
        /\ lanes[q].until <= Limit(lanes[q]) /\ (deadline # 0 => lanes[q].until <= deadline)
    BY <1>0, <2>1, <2>2 DEF TimeInv
  <2>4. DeadlineKept' BY <1>1, <1>2, <2>3 DEF DeadlineKept, ctx
  <2>5. LookupTime'
    <3> DEFINE k == 2 * lanes[q].n + (IF lanes[q].pc = "udp" THEN 1 ELSE 2)
    <3>1. lanes[q].n \in Nat /\ lanes[q].until \in Nat BY <1>2
    <3>2. k \in Nat /\ k <= 4 * net.servers BY <1>2, <2>3, <3>1
    <3>3. Limit(lanes[q]) = 1 + k * Timeout BY DEF Limit
    <3> HIDE DEF k
    <3>4. k * Timeout <= (4 * net.servers) * Timeout BY <1>2, <3>2, TimesMonotone
    <3>5. k * Timeout \in Nat /\ (4 * net.servers) * Timeout \in Nat BY <1>2, <3>2
    <3>6. now + 1 <= 1 + (4 * net.servers) * Timeout BY <1>2, <2>3, <3>1, <3>3, <3>4, <3>5
    <3> QED BY <1>1, <3>6 DEF LookupTime, ctx
  <2>6. ASSUME NEW p \in Types, Waiting(p)'
        PROVE  /\ now' <= lanes'[p].until /\ (deadline' # 0 => lanes'[p].until <= deadline')
               /\ lanes'[p].n < 2 * net'.servers /\ lanes'[p].until <= Limit(lanes'[p])
    <3>1. Waiting(p) BY <1>1, <2>6 DEF Waiting
    <3> QED BY <1>0, <1>1, <1>2, <2>1, <3>1 DEF TimeInv, ctx
  <2>7. TimeInv' BY <1>1, <1>8, <2>1, <2>4, <2>5, <2>6 DEF TimeInv, Limit
  <2>8. DialInv' BY <1>0, <1>1, <1>8 DEF DialInv, dial
  <2> QED BY <1>3, <1>4, <1>5, <1>7, <2>7, <2>8 DEF IInv
<1>9. CASE pc = "connect"
  <2>1. until # 0 /\ now < until BY <1>9 DEF Tick
  <2>2. \A q \in Types : Idle(q) BY <1>0, <1>9 DEF LanesInv
  <2>3. deadline # 0 => until <= deadline BY <1>0, <1>9 DEF DialInv
  <2>4. DeadlineKept' BY <1>1, <1>2, <2>1, <2>3 DEF DeadlineKept, ctx
  <2>5. TimeInv' BY <1>1, <1>9, <2>2, <2>4 DEF TimeInv, LookupTime, Waiting, Idle
  <2>6. DialInv' BY <1>0, <1>1, <1>2, <1>9, <2>1 DEF DialInv, Ample, ctx, dial
  <2> QED BY <1>3, <1>4, <1>5, <1>7, <2>5, <2>6 DEF IInv
<1> QED BY <1>6, <1>8, <1>9

\* Every state of the program satisfies the inductive invariant.
LEMMA Invariance == Spec => []IInv
<1>1. Init => IInv
  <2> SUFFICES ASSUME Init PROVE IInv OBVIOUS
  <2>1. PICK s \in Scenarios : net = s.net /\ call = s.call /\ deadline = s.deadline BY DEF Init
  <2>2. /\ now = 1 /\ cancelled = FALSE /\ lanes = [q \in Types |-> Off] /\ results = <<>> /\ got = 0
        /\ found = [q \in Types |-> 0] /\ lastErr = "nil" /\ pc = "call" /\ addrs = <<>> /\ i = 1
        /\ until = 0 /\ firstErr = FALSE /\ result = "none" /\ began = 0 /\ tried = 0
    BY DEF Init
  <2>3. TypeOK
    <3>1. net.lanes \subseteq Types /\ net.servers \in Nat /\ deadline \in Nat
          /\ call.host.addr \in Types \union {"none"}
      BY <2>1, NetDialAssumption
    <3>2. lanes \in [Types -> [pc : LanePc, n : Nat, until : Nat]] BY <2>2 DEF Off, LanePc
    <3>3. got + Len(results) <= LaneCount BY <2>2 DEF LaneCount
    <3>4. found \in [Types -> Nat] BY <2>2
    <3>5. results \in Seq([err : {"nil", "notfound", "failed"}, recs : Seq(Record)]) BY <2>2
    <3>6. cancelled \in BOOLEAN /\ firstErr \in BOOLEAN BY <2>2
    <3>7. addrs \in Seq(Types) BY <2>2
    <3>8. now \in Nat \ {0} /\ i \in Nat \ {0} /\ {until, began, tried, got} \subseteq Nat BY <2>2
    <3> QED BY <2>2, <3>1, <3>2, <3>3, <3>4, <3>5, <3>6, <3>7, <3>8 DEF TypeOK
  <2>4. LanesInv BY <2>2 DEF LanesInv, IsSent, Off, Types
  <2>5. TimeInv BY <2>2, <2>3 DEF TimeInv, DeadlineKept, LookupTime, Waiting, Off, TypeOK
  <2>6. FindInv /\ DialInv BY <2>2 DEF FindInv, DialInv
  <2>7. Outcome BY <2>2 DEF Outcome, LookupFinds, OneLaneIsEnough, EveryAddressTried
  <2> QED BY <2>3, <2>4, <2>5, <2>6, <2>7 DEF IInv
<1>2. IInv /\ [Next]_vars => IInv'
  <2> SUFFICES ASSUME IInv, [Next]_vars PROVE IInv' OBVIOUS
  <2>1. CASE UNCHANGED vars
    <3>1. UNCHANGED <<now, ctx, cancelled, lanes, look, pc, dial, result>> BY <2>1 DEF vars
    <3>2. TypeOK' BY SMTT(30), <3>1 DEF IInv, TypeOK, ctx, look, dial, LaneCount
    <3>3. LanesInv' BY <3>1 DEF IInv, LanesInv, Idle, IsSent, ctx, look
    <3>4. TimeInv' BY <3>1 DEF IInv, TimeInv, DeadlineKept, LookupTime, Waiting, Limit, ctx
    <3>5. FindInv' BY <3>1 DEF IInv, FindInv, look, Useful
    <3>6. DialInv' BY <3>1, DialSame DEF IInv
    <3>7. Outcome'
      BY <3>1 DEF IInv, Outcome, LookupFinds, OneLaneIsEnough, EveryAddressTried, ctx, look, dial
    <3> QED BY <3>2, <3>3, <3>4, <3>5, <3>6, <3>7 DEF IInv
  <2>2. ASSUME NEW q \in Types, LaneStep(q) PROVE IInv' BY <2>2, LanePreserves
  <2>3. CASE Next
    <3>1. \/ Dialer \/ Connected \/ ConnectFails \/ Cancel \/ Tick
          \/ \E q \in Types : LaneStep(q)
      BY <2>3 DEF Next, LaneStep
    <3> QED BY <2>2, <3>1, BeginPreserves, StartPreserves, ReceivePreserves, LookupReturnsPreserves,
               EndPreserves, AddressPreserves, CancelPreserves, TickPreserves DEF Dialer
  <2> QED BY <2>1, <2>3
<1> QED BY <1>1, <1>2, PTL DEF Spec

\* TypeOK: the variables keep their types and the channel its capacity, so that no
\* lane blocks when it sends.
THEOREM TypeCorrect == Spec => []TypeOK
BY Invariance, PTL DEF IInv

\* DeadlineKept: DialContext does not run past the deadline of its context,
\* whatever the number of addresses and of servers.
THEOREM InTime == Spec => []DeadlineKept
BY Invariance, PTL DEF IInv, TimeInv

\* LookupTime: a lookup is bounded by two rounds of exchanges.
THEOREM LookupBounded == Spec => []LookupTime
BY Invariance, PTL DEF IInv, TimeInv

\* LookupFinds: a lookup without an error has found an address.
THEOREM NeverMissing == Spec => []LookupFinds
BY Invariance, PTL DEF IInv, Outcome

\* OneLaneIsEnough: the error of one lane never hides the addresses of the other.
THEOREM LanesIndependent == Spec => []OneLaneIsEnough
BY Invariance, PTL DEF IInv, Outcome

\* EveryAddressTried: the shares of partialDeadline leave the minimum for every
\* address if there was enough for all.
THEOREM SharesSuffice == Spec => []EveryAddressTried
BY Invariance, PTL DEF IInv, Outcome

-----------------------------------------------------------------------------
(* What the scan has computed after p characters, without the recursion.   *)

\* The characters after the last dot.
Run(s, p) == {k \in 1..p : \A m \in k..p : s[m] # "dot"}

Before(s, j) == IF j = 1 THEN "dot" ELSE s[j - 1]

\* What the loop demands of the j-th character.
Passes(s, j) ==
    /\ s[j] # "bad"
    /\ s[j] = "hyphen" => Before(s, j) # "dot"
    /\ s[j] = "dot" => Before(s, j) \notin {"dot", "hyphen"} /\ Cardinality(Run(s, j - 1)) \in 1..MaxLabel

Closed(s, p) ==
    [ok |-> \A j \in 1..p : Passes(s, j),
     last |-> Before(s, p + 1),
     nonNumeric |-> \E j \in 1..p : s[j] \in {"letter", "hyphen"},
     partlen |-> Cardinality(Run(s, p))]

\* A run grows by a character or ends with a dot.
LEMMA RunStep ==
    ASSUME NEW s \in Seq(Classes), NEW p \in 1..Len(s)
    PROVE  /\ Cardinality(Run(s, p - 1)) \in Nat
           /\ Cardinality(Run(s, p)) = IF s[p] = "dot" THEN 0 ELSE Cardinality(Run(s, p - 1)) + 1
<1>1. IsFiniteSet(1..(p - 1)) /\ Run(s, p - 1) \in SUBSET (1..(p - 1)) BY FS_Interval DEF Run
<1>2. IsFiniteSet(Run(s, p - 1)) BY <1>1, FS_Subset
<1>3. Cardinality(Run(s, p - 1)) \in Nat BY <1>2, FS_CardinalityType
<1>4. CASE s[p] = "dot"
  <2>1. Run(s, p) = {} BY <1>4 DEF Run
  <2> QED BY <1>3, <1>4, <2>1, FS_EmptySet
<1>5. CASE s[p] # "dot"
  <2>1. Run(s, p) = Run(s, p - 1) \union {p}
    <3>1. ASSUME NEW k \in Run(s, p) PROVE k \in Run(s, p - 1) \union {p} BY DEF Run
    <3>2. ASSUME NEW k \in Run(s, p - 1) PROVE k \in Run(s, p) BY <1>5 DEF Run
    <3>3. p \in Run(s, p) BY <1>5 DEF Run
    <3> QED BY <3>1, <3>2, <3>3
  <2>2. p \notin Run(s, p - 1) BY DEF Run
  <2> QED BY <1>2, <1>3, <1>5, <2>1, <2>2, FS_AddElement
<1> QED BY <1>3, <1>4, <1>5

\* The closed form obeys the recursion.
LEMMA ClosedStep ==
    ASSUME NEW s \in Seq(Classes), NEW p \in 1..Len(s)
    PROVE  Closed(s, p) = After(Closed(s, p - 1), s[p])
<1> DEFINE r == Closed(s, p - 1)
<1>1. r.last = Before(s, p) BY DEF Closed
<1>2. r.partlen = Cardinality(Run(s, p - 1)) BY DEF Closed
<1>3. r.ok = (\A j \in 1..(p - 1) : Passes(s, j)) BY DEF Closed
<1>4. r.nonNumeric = (\E j \in 1..(p - 1) : s[j] \in {"letter", "hyphen"}) BY DEF Closed
<1> HIDE DEF r
<1>5. (\A j \in 1..p : Passes(s, j)) = (r.ok /\ Passes(s, p))
  <2>1. \A j : j \in 1..p <=> (j \in 1..(p - 1) \/ j = p) OBVIOUS
  <2>2. (\A j \in 1..p : Passes(s, j)) <=> (\A j \in 1..(p - 1) : Passes(s, j)) /\ Passes(s, p)
    BY ONLY <2>1
  <2> QED BY <1>3, <2>2
<1>6. (\E j \in 1..p : s[j] \in {"letter", "hyphen"}) = (r.nonNumeric \/ s[p] \in {"letter", "hyphen"})
  <2>1. \A j : j \in 1..p <=> (j \in 1..(p - 1) \/ j = p) OBVIOUS
  <2>2. (\E j \in 1..p : s[j] \in {"letter", "hyphen"})
        <=> (\E j \in 1..(p - 1) : s[j] \in {"letter", "hyphen"}) \/ s[p] \in {"letter", "hyphen"}
    BY ONLY <2>1
  <2> QED BY <1>4, <2>2
<1>7. (r.ok /\ Passes(s, p)) =
        (/\ r.ok /\ s[p] # "bad"
         /\ s[p] = "hyphen" => r.last # "dot"
         /\ s[p] = "dot" => r.last \notin {"dot", "hyphen"} /\ r.partlen \in 1..MaxLabel)
  BY <1>1, <1>2 DEF Passes
<1>8. Before(s, p + 1) = s[p] BY DEF Before
<1>9. Cardinality(Run(s, p)) = IF s[p] = "dot" THEN 0 ELSE r.partlen + 1 BY <1>2, RunStep
<1> QED BY <1>5, <1>6, <1>7, <1>8, <1>9 DEF Closed, After, r

\* Before the first character last is a dot, and nothing has been seen.
LEMMA ClosedInit ==
    ASSUME NEW s
    PROVE  Closed(s, 0) = [ok |-> TRUE, last |-> "dot", nonNumeric |-> FALSE, partlen |-> 0]
<1>1. Run(s, 0) = {} BY DEF Run
<1>2. Cardinality(Run(s, 0)) = 0 BY <1>1, FS_EmptySet
<1>3. (\A j \in 1..0 : Passes(s, j)) = TRUE OBVIOUS
<1>4. (\E j \in 1..0 : s[j] \in {"letter", "hyphen"}) = FALSE OBVIOUS
<1>5. Before(s, 0 + 1) = "dot" BY DEF Before
<1> QED BY <1>2, <1>3, <1>4, <1>5 DEF Closed

\* The scan computes the closed form.
LEMMA ScanClosed == ASSUME NEW s \in Seq(Classes) PROVE Scan(s) = Closed(s, Len(s))
<1> DEFINE zero == [ok |-> TRUE, last |-> "dot", nonNumeric |-> FALSE, partlen |-> 0]
           Rec(f) == f = [p \in 0..Len(s) |-> IF p = 0 THEN zero ELSE After(f[p - 1], s[p])]
           g == [p \in 0..Len(s) |-> Closed(s, p)]
           f == CHOOSE f : Rec(f)
<1>1. Scan(s) = f[Len(s)] BY DEF Scan
<1>2. Rec(g)
  <2>1. ASSUME NEW p \in 0..Len(s) PROVE g[p] = IF p = 0 THEN zero ELSE After(g[p - 1], s[p])
    <3>1. CASE p = 0 BY <3>1, ClosedInit
    <3>2. CASE p # 0
      <4>1. p \in 1..Len(s) /\ p - 1 \in 0..Len(s) BY <3>2
      <4> QED BY <3>2, <4>1, ClosedStep
    <3> QED BY <3>1, <3>2
  <2> QED BY <2>1
<1>3. Rec(f)
  <2> HIDE DEF Rec, g
  <2> QED BY <1>2
<1> HIDE DEF f
<1>4. ASSUME NEW p \in 0..Len(s) PROVE f[p] = IF p = 0 THEN zero ELSE After(f[p - 1], s[p])
  <2> DEFINE h == [j \in 0..Len(s) |-> IF j = 0 THEN zero ELSE After(f[j - 1], s[j])]
  <2>1. f = h BY <1>3
  <2>2. h[p] = IF p = 0 THEN zero ELSE After(f[p - 1], s[p]) OBVIOUS
  <2> HIDE DEF h
  <2> QED BY <2>1, <2>2
<1> DEFINE Bad == {p \in 0..Len(s) : f[p] # Closed(s, p)}
<1>5. Bad = {}
  <2> SUFFICES ASSUME Bad # {} PROVE FALSE OBVIOUS
  <2>1. Bad \in SUBSET Nat OBVIOUS
  <2>2. PICK p \in Bad : \A l \in Bad : p <= l
    <3> HIDE DEF Bad
    <3> QED BY <2>1, Least
  <2>3. p \in 0..Len(s) /\ f[p] # Closed(s, p) OBVIOUS
  <2>4. CASE p = 0 BY <1>4, <2>3, <2>4, ClosedInit
  <2>5. CASE p # 0
    <3>1. p \in 1..Len(s) /\ p - 1 \in 0..Len(s) /\ ~(p <= p - 1) BY <2>3, <2>5
    <3>2. p - 1 \notin Bad BY <2>2, <3>1
    <3>3. f[p - 1] = Closed(s, p - 1) BY <3>1, <3>2
    <3> QED BY <1>4, <2>3, <2>5, <3>1, <3>3, ClosedStep
  <2> QED BY <2>4, <2>5
<1>6. Len(s) \in 0..Len(s) OBVIOUS
<1> QED BY <1>1, <1>5, <1>6
-----------------------------------------------------------------------------
(* The labels, by the dots that bound them.                                *)

Dots(t) == {0, Len(t) + 1} \union {p \in DOMAIN t : t[p] = "dot"}

\* No label is empty, is too long or has a hyphen at an end.
Proper(t) ==
    /\ \A j \in Dots(t) : j - 1 \notin Dots(t)
    /\ \A j \in Dots(t) \ {0} : \E k \in Dots(t) : k < j /\ j <= k + MaxLabel + 1
    /\ \A p \in DOMAIN t : t[p] = "hyphen" => p - 1 \notin Dots(t) /\ p + 1 \notin Dots(t)

Gap(t, a, b) == a \in Dots(t) /\ b \in Dots(t) /\ a < b /\ \A d \in Dots(t) : ~(a < d /\ d < b)

\* A label is what lies between two dots that follow each other.
LEMMA LabelsAreGaps ==
    ASSUME NEW t \in Seq(Classes)
    PROVE  \A label : label \in Labels(t) <=> \E a, b \in Nat : Gap(t, a, b) /\ label = (a + 1)..(b - 1)
<1>0. Dots(t) \in SUBSET Nat BY DEF Dots
<1> DEFINE D == Dots(t)
<1>1. Labels(t) = {(ab[1] + 1)..(ab[2] - 1) :
        ab \in {ab \in D \X D : ab[1] < ab[2] /\ \A d \in D : ~(ab[1] < d /\ d < ab[2])}}
  BY DEF Labels, Dots
<1> HIDE DEF D
<1>2. ASSUME NEW label \in Labels(t)
      PROVE  \E a, b \in Nat : Gap(t, a, b) /\ label = (a + 1)..(b - 1)
  <2>1. PICK ab \in D \X D : /\ ab[1] < ab[2] /\ \A d \in D : ~(ab[1] < d /\ d < ab[2])
                             /\ label = (ab[1] + 1)..(ab[2] - 1)
    BY <1>1
  <2>2. ab[1] \in D /\ ab[2] \in D OBVIOUS
  <2>3. Gap(t, ab[1], ab[2]) BY <2>1, <2>2 DEF Gap, D
  <2> QED BY <1>0, <2>1, <2>2, <2>3 DEF D
<1>3. ASSUME NEW a \in Nat, NEW b \in Nat, Gap(t, a, b) PROVE (a + 1)..(b - 1) \in Labels(t)
  <2>1. <<a, b>> \in D \X D BY <1>3 DEF Gap, D
  <2>2. a < b /\ \A d \in D : ~(a < d /\ d < b) BY <1>3 DEF Gap, D
  <2> QED BY <1>1, <2>1, <2>2
<1> QED BY <1>2, <1>3

\* Every position has a nearest dot before it.
LEMMA DotBefore ==
    ASSUME NEW t \in Seq(Classes), NEW m \in 1..(Len(t) + 1)
    PROVE  \E a \in Dots(t) : a < m /\ \A d \in Dots(t) : ~(a < d /\ d < m)
<1> DEFINE S == {k \in Nat : m - k \in Dots(t) /\ m - k < m}
<1>1. Dots(t) \in SUBSET Nat /\ 0 \in Dots(t) BY DEF Dots
<1>2. m \in S BY <1>1
<1>3. PICK k \in S : \A l \in S : k <= l
  <2> HIDE DEF S
  <2>1. S \in SUBSET Nat BY DEF S
  <2> QED BY <1>2, <2>1, Least
<1>4. k \in Nat /\ m - k \in Dots(t) /\ m - k < m OBVIOUS
<1>5. ASSUME NEW d \in Dots(t), m - k < d, d < m PROVE FALSE
  <2>1. d \in Nat /\ m - d \in Nat /\ m - (m - d) = d BY <1>1, <1>5
  <2>2. m - d \in S BY <1>5, <2>1
  <2> QED BY <1>3, <1>4, <1>5, <2>1, <2>2
<1> QED BY <1>4, <1>5

\* The same on the other side.
LEMMA DotAfter ==
    ASSUME NEW t \in Seq(Classes), NEW m \in 0..Len(t)
    PROVE  \E b \in Dots(t) : m < b /\ \A d \in Dots(t) : ~(m < d /\ d < b)
<1> DEFINE S == {b \in Dots(t) : m < b}
<1>1. Dots(t) \in SUBSET Nat /\ Len(t) + 1 \in Dots(t) BY DEF Dots
<1>2. Len(t) + 1 \in S /\ S \in SUBSET Nat BY <1>1
<1>3. PICK b \in S : \A l \in S : b <= l
  <2> HIDE DEF S
  <2> QED BY <1>2, Least
<1>4. ASSUME NEW d \in Dots(t), m < d, d < b PROVE FALSE
  <2>1. d \in S /\ d \in Nat /\ b \in Nat BY <1>1, <1>4
  <2> QED BY <1>3, <1>4, <2>1
<1> QED BY <1>4

LabelOK(t, label) ==
    /\ label # {} /\ \A p \in label : p + MaxLabel \notin label
    /\ \A p \in label : t[p] = "hyphen" => p - 1 \in label /\ p + 1 \in label

\* The labels are what they should be if the dots are where they should be.
LEMMA LabelsProper ==
    ASSUME NEW t \in Seq(Classes)
    PROVE  (\A label \in Labels(t) : LabelOK(t, label)) <=> Proper(t)
<1>0. Dots(t) \in SUBSET Nat /\ Dots(t) \subseteq 0..(Len(t) + 1) /\ MaxLabel \in Nat
  BY DomainNameAssumption DEF Dots
<1>1. ASSUME Proper(t), NEW label \in Labels(t) PROVE LabelOK(t, label)
  <2>1. PICK a, b \in Nat : Gap(t, a, b) /\ label = (a + 1)..(b - 1) BY LabelsAreGaps
  <2>2. a \in Dots(t) /\ b \in Dots(t) /\ a < b /\ \A d \in Dots(t) : ~(a < d /\ d < b) BY <2>1 DEF Gap
  <2>3. label # {}
    <3>1. b - 1 # a BY <1>1, <2>2 DEF Proper
    <3>2. a + 1 \in label BY <2>1, <2>2, <3>1
    <3> QED BY <3>2
  <2>4. ASSUME NEW p \in label PROVE p + MaxLabel \notin label
    <3>1. PICK k \in Dots(t) : k < b /\ b <= k + MaxLabel + 1 BY <1>1, <2>2 DEF Proper
    <3>2. k <= a BY <1>0, <2>2, <3>1
    <3> QED BY <1>0, <2>1, <3>1, <3>2
  <2>5. ASSUME NEW p \in label, t[p] = "hyphen" PROVE p - 1 \in label /\ p + 1 \in label
    <3>1. p \in DOMAIN t BY <1>0, <2>1, <2>2
    <3>2. p - 1 # a /\ p + 1 # b BY <1>1, <2>2, <2>5, <3>1 DEF Proper
    <3> QED BY <2>1, <2>2, <3>2
  <2> QED BY <2>3, <2>4, <2>5 DEF LabelOK
<1>2. ASSUME \A label \in Labels(t) : LabelOK(t, label) PROVE Proper(t)
  <2>0. ASSUME NEW a \in Nat, NEW b \in Nat, Gap(t, a, b) PROVE LabelOK(t, (a + 1)..(b - 1))
    BY <1>2, <2>0, LabelsAreGaps
  <2>1. ASSUME NEW j \in Dots(t), j - 1 \in Dots(t) PROVE FALSE
    <3>1. Gap(t, j - 1, j) BY <1>0, <2>1 DEF Gap
    <3>2. LabelOK(t, (j - 1 + 1)..(j - 1)) BY <1>0, <2>0, <2>1, <3>1
    <3>3. (j - 1 + 1)..(j - 1) = {} BY <1>0
    <3> QED BY <3>2, <3>3 DEF LabelOK
  <2>2. ASSUME NEW j \in Dots(t) \ {0} PROVE \E k \in Dots(t) : k < j /\ j <= k + MaxLabel + 1
    <3>1. j \in 1..(Len(t) + 1) BY <1>0
    <3>2. PICK a \in Dots(t) : a < j /\ \A d \in Dots(t) : ~(a < d /\ d < j) BY <3>1, DotBefore
    <3>3. Gap(t, a, j) /\ a \in Nat /\ j \in Nat BY <1>0, <3>2 DEF Gap
    <3>4. LabelOK(t, (a + 1)..(j - 1)) BY <2>0, <3>3
    <3>5. a + 1 \in (a + 1)..(j - 1)
      <4>1. (a + 1)..(j - 1) # {} BY <3>4 DEF LabelOK
      <4> QED BY <3>3, <4>1
    <3>6. a + 1 + MaxLabel \notin (a + 1)..(j - 1) BY <3>4, <3>5 DEF LabelOK
    <3>7. j <= a + MaxLabel + 1 BY <1>0, <3>3, <3>6
    <3> QED BY <3>2, <3>7
  <2>3. ASSUME NEW p \in DOMAIN t, t[p] = "hyphen" PROVE p - 1 \notin Dots(t) /\ p + 1 \notin Dots(t)
    <3>1. p \in 1..(Len(t) + 1) /\ p \in 0..Len(t) /\ p \in Nat OBVIOUS
    <3>2. PICK a \in Dots(t) : a < p /\ \A d \in Dots(t) : ~(a < d /\ d < p) BY <3>1, DotBefore
    <3>3. PICK b \in Dots(t) : p < b /\ \A d \in Dots(t) : ~(p < d /\ d < b) BY <3>1, DotAfter
    <3>4. a \in Nat /\ b \in Nat BY <1>0
    <3>5. p \notin Dots(t) BY <2>3, <3>1 DEF Dots
    <3>6. Gap(t, a, b) BY <1>0, <3>1, <3>2, <3>3, <3>4, <3>5 DEF Gap
    <3>7. LabelOK(t, (a + 1)..(b - 1)) BY <2>0, <3>4, <3>6
    <3>8. p \in (a + 1)..(b - 1) BY <3>1, <3>2, <3>3, <3>4
    <3>9. p - 1 \in (a + 1)..(b - 1) /\ p + 1 \in (a + 1)..(b - 1) BY <2>3, <3>7, <3>8 DEF LabelOK
    <3>10. a < p - 1 /\ p - 1 < b /\ a < p + 1 /\ p + 1 < b BY <3>1, <3>4, <3>9
    <3> QED BY <3>6, <3>10 DEF Gap
  <2> QED BY <2>1, <2>2, <2>3 DEF Proper
<1> QED BY <1>1, <1>2

-----------------------------------------------------------------------------
(* isDomainName decides what a name is.                                    *)

\* The name without the dot at its end.
Stem(s) == IF Rooted(s) THEN SubSeq(s, 1, Len(s) - 1) ELSE s

\* The stem has the characters of the name, and the dot that was cut off bounds it.
LEMMA StemType ==
    ASSUME NEW s \in Seq(Classes)
    PROVE  /\ Stem(s) \in Seq(Classes)
           /\ Len(Stem(s)) = IF Rooted(s) THEN Len(s) - 1 ELSE Len(s)
           /\ \A p \in 1..Len(Stem(s)) : Stem(s)[p] = s[p]
           /\ \A j \in 1..(Len(Stem(s)) + 1) : j \in Dots(Stem(s)) <=> j = Len(s) + 1 \/ s[j] = "dot"
<1> DEFINE t == Stem(s)
<1>1. CASE Rooted(s)
  <2>1. s # <<>> /\ s[Len(s)] = "dot" /\ Len(s) \in Nat /\ Len(s) > 0 BY <1>1 DEF Rooted
  <2>2. t = SubSeq(s, 1, Len(s) - 1) BY <1>1 DEF Stem
  <2> HIDE DEF t
  <2>3. t \in Seq(Classes) /\ Len(t) = Len(s) - 1 /\ \A p \in 1..Len(t) : t[p] = s[p]
    <3>1. \A p \in 1..(Len(s) - 1) : s[p] \in Classes BY <2>1
    <3>2. t = [p \in 1..(Len(s) - 1) |-> s[p]] BY <2>1, <2>2
    <3>3. t \in Seq(Classes) /\ Len(t) = Len(s) - 1 BY <2>1, <3>1, <3>2
    <3> QED BY <3>2, <3>3
  <2>4. ASSUME NEW j \in 1..(Len(t) + 1) PROVE j \in Dots(t) <=> j = Len(s) + 1 \/ s[j] = "dot"
    <3>1. j \in Dots(t) <=> j = Len(t) + 1 \/ (j \in 1..Len(t) /\ t[j] = "dot") BY <2>3 DEF Dots
    <3>2. CASE j = Len(t) + 1 BY <2>1, <2>3, <3>1, <3>2
    <3>3. CASE j # Len(t) + 1
      <4>1. j \in 1..Len(t) /\ j # Len(s) + 1 BY <2>1, <2>3, <3>3
      <4>2. t[j] = s[j] BY <2>3, <4>1
      <4> QED BY <3>1, <3>3, <4>1, <4>2
    <3> QED BY <3>2, <3>3
  <2> QED BY <1>1, <2>3, <2>4 DEF t
<1>2. CASE ~Rooted(s)
  <2>1. t = s BY <1>2 DEF Stem
  <2>2. \A j \in 1..(Len(s) + 1) : j \in Dots(s) <=> j = Len(s) + 1 \/ s[j] = "dot" BY DEF Dots
  <2> QED BY <1>2, <2>1, <2>2
<1> QED BY <1>1, <1>2

\* How long a run is depends on the dot before it.
LEMMA RunLength ==
    ASSUME NEW s \in Seq(Classes), NEW j \in 1..(Len(Stem(s)) + 1)
    PROVE  /\ Cardinality(Run(s, j - 1)) \in Nat
           /\ Cardinality(Run(s, j - 1)) = 0 <=> j - 1 \in Dots(Stem(s))
           /\ Cardinality(Run(s, j - 1)) <= MaxLabel
                <=> \E k \in Dots(Stem(s)) : k < j /\ j <= k + MaxLabel + 1
<1> DEFINE t == Stem(s)
<1>0. t \in Seq(Classes) /\ Dots(t) \in SUBSET Nat /\ 0 \in Dots(t) /\ MaxLabel \in Nat
  BY StemType, DomainNameAssumption DEF Dots
<1>1. Len(t) \in Nat /\ Len(t) <= Len(s) BY <1>0, StemType
<1>2. \A k \in 1..(j - 1) : k \in Dots(t) <=> s[k] = "dot" BY <1>1, StemType
<1> HIDE DEF t
<1>3. PICK a \in Dots(t) : a < j /\ \A d \in Dots(t) : ~(a < d /\ d < j) BY <1>0, DotBefore DEF t
<1>4. a \in Nat /\ j \in Nat /\ j - 1 \in Nat BY <1>0
<1>5. Run(s, j - 1) = (a + 1)..(j - 1)
  <2>1. ASSUME NEW k \in Run(s, j - 1) PROVE k \in (a + 1)..(j - 1)
    <3>1. k \in 1..(j - 1) /\ \A m \in k..(j - 1) : s[m] # "dot" BY DEF Run
    <3>2. ASSUME k <= a PROVE FALSE
      <4>1. a \in 1..(j - 1) /\ a \in k..(j - 1) BY <1>3, <1>4, <3>1, <3>2
      <4> QED BY <1>2, <3>1, <4>1
    <3> QED BY <1>4, <3>1, <3>2
  <2>2. ASSUME NEW k \in (a + 1)..(j - 1) PROVE k \in Run(s, j - 1)
    <3>1. ASSUME NEW m \in k..(j - 1) PROVE s[m] # "dot"
      <4>1. m \in 1..(j - 1) /\ a < m /\ m < j BY <1>4
      <4> QED BY <1>2, <1>3, <4>1
    <3> QED BY <1>4, <3>1 DEF Run
  <2> QED BY <2>1, <2>2
<1>6. Cardinality(Run(s, j - 1)) = j - 1 - a
  <2>1. Cardinality((a + 1)..(j - 1)) = IF a + 1 > j - 1 THEN 0 ELSE j - 1 - (a + 1) + 1
    BY <1>4, FS_Interval
  <2> QED BY <1>3, <1>4, <1>5, <2>1
<1>7. \A k \in Dots(t) : k < j => k <= a BY <1>0, <1>3, <1>4
<1>8. j - 1 \in Dots(t) <=> a = j - 1 BY <1>3, <1>4, <1>7
<1>9. j - 1 - a <= MaxLabel <=> \E k \in Dots(t) : k < j /\ j <= k + MaxLabel + 1
  <2>1. ASSUME j - 1 - a <= MaxLabel PROVE a < j /\ j <= a + MaxLabel + 1 BY <1>0, <1>3, <1>4, <2>1
  <2>2. ASSUME NEW k \in Dots(t), k < j, j <= k + MaxLabel + 1 PROVE j - 1 - a <= MaxLabel
    <3>1. k <= a /\ k \in Nat BY <1>0, <1>7, <2>2
    <3> QED BY <1>0, <1>4, <2>2, <3>1
  <2> QED BY <2>1, <2>2
<1> QED BY <1>3, <1>4, <1>6, <1>8, <1>9 DEF t

\* isDomainName decides whether a sequence of characters is a name by the
\* reference definition.
LEMMA DomainNames == ASSUME NEW s \in Seq(Classes) PROVE isDomainName(s) <=> IsName(s)
<1> DEFINE l == Len(s)
           t == Stem(s)
           n == Len(t)
           LastOK == Before(s, l + 1) # "hyphen" /\ Cardinality(Run(s, l)) <= MaxLabel
           Wordy(u) == \E p \in 1..Len(u) : u[p] \in {"letter", "hyphen"}
<1>0. /\ t \in Seq(Classes) /\ n = (IF Rooted(s) THEN l - 1 ELSE l) /\ l \in Nat /\ n \in Nat
      /\ \A p \in 1..n : t[p] = s[p]
      /\ \A j \in 1..(n + 1) : j \in Dots(t) <=> j = l + 1 \/ s[j] = "dot"
      /\ Rooted(s) <=> l > 0 /\ s[l] = "dot"
      /\ Rooted(s) => l > 0
  BY StemType DEF Rooted
<1>1. Dots(t) \in SUBSET Nat /\ 0 \in Dots(t) /\ Dots(t) \subseteq 0..(n + 1) /\ n + 1 \in Dots(t)
      /\ MaxLabel \in Nat /\ MaxName \in Nat
  BY <1>0, DomainNameAssumption DEF Dots
<1>2. isDomainName(s) <=>
        /\ l # 0 /\ l <= MaxName /\ (l = MaxName => s[l] = "dot")
        /\ (\A j \in 1..l : Passes(s, j)) /\ LastOK /\ Wordy(s)
  BY ScanClosed DEF isDomainName, Closed
<1>3. IsName(s) <=>
        /\ n \in 1..(MaxName - 1) /\ (\A p \in 1..n : t[p] # "bad")
        /\ Proper(t) /\ Wordy(t)
  <2>1. DOMAIN t = 1..n BY <1>0
  <2>2. (\A label \in Labels(t) : LabelOK(t, label)) <=> Proper(t) BY <1>0, LabelsProper
  <2>3. IsName(s) <=> /\ n \in 1..(MaxName - 1) /\ (\A p \in DOMAIN t : t[p] # "bad")
                      /\ (\A label \in Labels(t) : LabelOK(t, label))
                      /\ \E p \in DOMAIN t : t[p] \in {"letter", "hyphen"}
    BY DEF IsName, Stem, LabelOK
  <2> QED BY <2>1, <2>2, <2>3
<1> HIDE DEF t
<1>4. Wordy(s) <=> Wordy(t)
  <2>1. ASSUME Wordy(t) PROVE Wordy(s)
    <3>1. PICK p \in 1..n : t[p] \in {"letter", "hyphen"} BY <2>1
    <3>2. p \in 1..l /\ s[p] = t[p] BY <1>0
    <3> QED BY <3>1, <3>2
  <2>2. ASSUME Wordy(s) PROVE Wordy(t)
    <3>1. PICK p \in 1..l : s[p] \in {"letter", "hyphen"} BY <2>2
    <3>2. p \in 1..n BY <1>0, <3>1
    <3>3. t[p] = s[p] BY <1>0, <3>2
    <3> QED BY <3>1, <3>2, <3>3
  <2> QED BY <2>1, <2>2
<1>5. (l # 0 /\ l <= MaxName /\ (l = MaxName => s[l] = "dot")) /\ n # 0 <=> n \in 1..(MaxName - 1)
  <2>1. CASE Rooted(s) BY <1>0, <1>1, <2>1
  <2>2. CASE ~Rooted(s) BY <1>0, <1>1, <2>2
  <2> QED BY <2>1, <2>2
<1> HIDE DEF n, l, Wordy
<1>6. ASSUME NEW j \in 1..(n + 1)
      PROVE  Before(s, j) = "dot" <=> j - 1 \in Dots(t)
  <2>1. j - 1 \in 0..n /\ n \in Nat BY <1>0
  <2>2. CASE j = 1 BY <1>1, <2>2 DEF Before
  <2>3. CASE j # 1
    <3>1. j - 1 \in 1..(n + 1) /\ j - 1 # l + 1 BY <1>0, <2>1, <2>3
    <3> QED BY <1>0, <2>3, <3>1 DEF Before
  <2> QED BY <2>2, <2>3
<1>7. ASSUME NEW j \in 1..(n + 1)
      PROVE  Cardinality(Run(s, j - 1)) \in 1..MaxLabel
               <=> j - 1 \notin Dots(t) /\ \E k \in Dots(t) : k < j /\ j <= k + MaxLabel + 1
  <2>1. /\ Cardinality(Run(s, j - 1)) \in Nat
        /\ Cardinality(Run(s, j - 1)) = 0 <=> j - 1 \in Dots(t)
        /\ Cardinality(Run(s, j - 1)) <= MaxLabel
             <=> \E k \in Dots(t) : k < j /\ j <= k + MaxLabel + 1
    BY <1>7, RunLength DEF t, n
  <2> QED BY <1>1, <2>1
\* What a dot demands, the end of the name included.
<1> DEFINE Ends(j) == /\ Before(s, j) \notin {"dot", "hyphen"}
                      /\ Cardinality(Run(s, j - 1)) \in 1..MaxLabel
           Sound == /\ \A j \in 1..n : s[j] # "bad" /\ (s[j] = "hyphen" => Before(s, j) # "dot")
                   /\ \A j \in 1..(n + 1) : j \in Dots(t) => Ends(j)
<1>8. (\A p \in 1..n : t[p] # "bad") /\ Proper(t) <=> Sound
  <2>1. ASSUME \A p \in 1..n : t[p] # "bad", Proper(t) PROVE Sound
    <3>1. ASSUME NEW j \in 1..n PROVE s[j] # "bad" /\ (s[j] = "hyphen" => Before(s, j) # "dot")
      <4>1. t[j] = s[j] /\ j \in DOMAIN t /\ j \in 1..(n + 1) BY <1>0 DEF n
      <4> QED BY <1>6, <2>1, <4>1 DEF Proper
    <3>2. ASSUME NEW j \in 1..(n + 1), j \in Dots(t) PROVE Ends(j)
      <4>1. j - 1 \notin Dots(t) /\ j # 0 BY <2>1, <3>2 DEF Proper
      <4>2. \E k \in Dots(t) : k < j /\ j <= k + MaxLabel + 1 BY <2>1, <3>2, <4>1 DEF Proper
      <4>3. Before(s, j) # "dot" BY <1>6, <4>1
      <4>4. Before(s, j) # "hyphen"
        <5>1. SUFFICES ASSUME Before(s, j) = "hyphen" PROVE FALSE OBVIOUS
        <5>2. j # 1 /\ s[j - 1] = "hyphen" BY <5>1 DEF Before
        <5>3. j - 1 \in 1..n BY <1>0, <5>2
        <5>4. t[j - 1] = "hyphen" /\ j - 1 \in DOMAIN t /\ j - 1 + 1 = j BY <1>0, <5>2, <5>3 DEF n
        <5> QED BY <2>1, <3>2, <5>4 DEF Proper
      <4> QED BY <1>7, <4>1, <4>2, <4>3, <4>4
    <3> QED BY <3>1, <3>2
  <2>2. ASSUME Sound PROVE (\A p \in 1..n : t[p] # "bad") /\ Proper(t)
    <3>1. \A p \in 1..n : t[p] # "bad" BY <1>0, <2>2
    <3>2. ASSUME NEW j \in Dots(t) PROVE j - 1 \notin Dots(t)
      <4>1. CASE j = 0 BY <1>1, <4>1
      <4>2. CASE j # 0
        <5>1. j \in 1..(n + 1) BY <1>0, <1>1, <4>2
        <5> QED BY <1>7, <2>2, <3>2, <5>1
      <4> QED BY <4>1, <4>2
    <3>3. ASSUME NEW j \in Dots(t) \ {0} PROVE \E k \in Dots(t) : k < j /\ j <= k + MaxLabel + 1
      <4>1. j \in 1..(n + 1) BY <1>0, <1>1
      <4> QED BY <1>7, <2>2, <4>1
    <3>4. ASSUME NEW p \in DOMAIN t, t[p] = "hyphen" PROVE p - 1 \notin Dots(t) /\ p + 1 \notin Dots(t)
      <4>1. p \in 1..n /\ p \in 1..(n + 1) /\ p + 1 \in 1..(n + 1) /\ p + 1 # 1 /\ p + 1 - 1 = p BY <1>0 DEF n
      <4>2. s[p] = "hyphen" BY <1>0, <3>4, <4>1
      <4>3. p - 1 \notin Dots(t) BY <1>6, <2>2, <4>1, <4>2
      <4>4. Before(s, p + 1) = "hyphen" BY <4>1, <4>2 DEF Before
      <4>5. p + 1 \notin Dots(t) BY <2>2, <4>1, <4>4
      <4> QED BY <4>3, <4>5
    <3> QED BY <3>1, <3>2, <3>3, <3>4 DEF Proper
  <2> QED BY <2>1, <2>2
<1>9. n # 0 /\ Sound <=> l # 0 /\ (\A j \in 1..l : Passes(s, j)) /\ LastOK
  <2>1. ASSUME NEW j \in 1..l
        PROVE  Passes(s, j) <=> /\ s[j] # "bad" /\ (s[j] = "hyphen" => Before(s, j) # "dot")
                                /\ s[j] = "dot" => Ends(j)
    BY DEF Passes
  <2>2. CASE Rooted(s)
    <3>1. n = l - 1 /\ l > 0 /\ s[l] = "dot" /\ l \in Nat BY <1>0, <2>2
    <3>2. \A j \in 1..l : j \in Dots(t) <=> s[j] = "dot" BY <1>0, <3>1
    <3>3. LastOK
      <4>1. l \in 1..Len(s) /\ s[l] = "dot" BY <3>1 DEF l
      <4>2. Cardinality(Run(s, l)) = 0 BY <4>1, RunStep
      <4>3. Before(s, l + 1) = "dot" BY <3>1 DEF Before
      <4> QED BY <1>1, <4>2, <4>3
    <3>4. Sound <=> \A j \in 1..l : Passes(s, j)
      <4> HIDE DEF Ends
      <4>1. Sound <=> \A j \in 1..l : /\ s[j] # "bad" /\ (s[j] = "hyphen" => Before(s, j) # "dot")
                                      /\ s[j] = "dot" => Ends(j)
        BY <3>1, <3>2
      <4> QED BY <2>1, <4>1
    <3>5. ASSUME Sound PROVE n # 0
      <4>1. SUFFICES ASSUME n = 0 PROVE FALSE OBVIOUS
      <4>2. l = 1 /\ 1 \in 1..(n + 1) /\ 1 \in Dots(t) BY <1>0, <3>1, <4>1
      <4>3. Before(s, 1) = "dot" BY DEF Before
      <4> QED BY <3>5, <4>2, <4>3
    <3> HIDE DEF Sound, LastOK
    <3> QED BY <3>1, <3>3, <3>4, <3>5
  <2>3. CASE ~Rooted(s)
    <3>1. n = l /\ l \in Nat /\ (l > 0 => s[l] # "dot") BY <1>0, <2>3
    <3>2. \A j \in 1..l : j \in Dots(t) <=> s[j] = "dot" BY <1>0, <3>1
    <3>3. ASSUME l # 0 PROVE LastOK <=> Ends(l + 1)
      <4>1. l + 1 - 1 = l /\ l \in 1..Len(s) /\ l \in 1..l BY <3>1, <3>3 DEF l
      <4>2. Before(s, l + 1) = s[l] /\ s[l] # "dot" BY <3>1, <3>3 DEF Before
      <4>3. Cardinality(Run(s, l)) > 0 /\ Cardinality(Run(s, l)) \in Nat
        <5>1. Cardinality(Run(s, l)) = Cardinality(Run(s, l - 1)) + 1 /\ Cardinality(Run(s, l - 1)) \in Nat
          BY <4>1, <4>2, RunStep
        <5> QED BY <5>1
      <4> QED BY <1>1, <4>1, <4>2, <4>3
    <3>4. l + 1 \in Dots(t) /\ \A j : j \in 1..(n + 1) <=> j \in 1..l \/ j = l + 1 BY <1>1, <3>1
    <3> HIDE DEF Ends, LastOK
    <3>5. (\A j \in 1..(n + 1) : j \in Dots(t) => Ends(j))
          <=> Ends(l + 1) /\ \A j \in 1..l : s[j] = "dot" => Ends(j)
      BY <3>2, <3>4
    <3>6. (\A j \in 1..l : Passes(s, j))
          <=> /\ \A j \in 1..n : s[j] # "bad" /\ (s[j] = "hyphen" => Before(s, j) # "dot")
              /\ \A j \in 1..l : s[j] = "dot" => Ends(j)
      BY <2>1, <3>1
    <3>7. Sound <=> Ends(l + 1) /\ \A j \in 1..l : Passes(s, j) BY <3>5, <3>6
    <3> HIDE DEF Sound
    <3> QED BY <3>1, <3>3, <3>7
  <2> QED BY <2>2, <2>3
<1> HIDE DEF Sound, LastOK
<1>10. n \in 1..(MaxName - 1) => n # 0 BY <1>0, <1>1
<1> QED BY <1>2, <1>3, <1>4, <1>5, <1>8, <1>9, <1>10

-----------------------------------------------------------------------------
(* Questions and names.                                                    *)

NamesInv == call.host.name \in Seq(Classes) /\ QuestionsAreNames

\* A lookup begins with a name and ends without a question only if there is none.
LEMMA NamesPreserved == ASSUME IInv, NamesInv, [Next]_vars PROVE NamesInv'
<1> DEFINE name == call.host.name
<1>0. LanesInv /\ name \in Seq(Classes) /\ QuestionsAreNames BY DEF IInv, NamesInv
<1>1. isDomainName(name) <=> IsName(name) BY <1>0, DomainNames
<1>2. ASSUME UNCHANGED ctx, pc' = "lanes" => pc = "lanes", result' = "lookup" => result = "lookup",
             UNCHANGED lanes
      PROVE  NamesInv'
  BY <1>0, <1>2 DEF NamesInv, QuestionsAreNames, ctx
<1>3. CASE StartLanes
  <2>1. UNCHANGED <<ctx, result>> /\ pc = "lookup" /\ isDomainName(name) BY <1>3 DEF StartLanes
  <2>2. result = "none" BY <2>1 DEF IInv, DialInv
  <2> QED BY <1>0, <1>1, <2>1, <2>2 DEF NamesInv, QuestionsAreNames, ctx
<1>4. CASE LookupAtOnce
  <2>1. UNCHANGED <<ctx, lanes>> /\ pc = "lookup" BY <1>4 DEF LookupAtOnce
  <2>2. pc' # "lanes" BY <1>4 DEF LookupAtOnce, Return, Addresses
  <2>3. ASSUME result' = "lookup", net.lanes # {}, IsName(name) PROVE FALSE
    <3>1. name # <<>> BY <1>1, <2>3 DEF isDomainName
    <3>2. result # "lookup" BY <2>1 DEF IInv, DialInv
    <3>3. CASE call.host.addr # "none"
      <4>1. Addresses([q \in Types |-> IF q = call.host.addr THEN 1 ELSE 0])
        BY <1>4, <2>3, <3>3 DEF LookupAtOnce
      <4> QED BY <2>3, <3>2, <4>1 DEF Addresses, Return
    <3>4. CASE call.host.addr = "none"
      <4>1. ~isDomainName(name) BY <1>4, <2>3, <3>1, <3>4 DEF LookupAtOnce
      <4> QED BY <1>1, <2>3, <4>1
    <3> QED BY <3>3, <3>4
  <2> QED BY <1>0, <2>1, <2>2, <2>3 DEF NamesInv, QuestionsAreNames, ctx
<1>5. CASE LookupReturns
  <2>1. UNCHANGED <<ctx, lanes>> /\ pc = "lanes" BY <1>5 DEF LookupReturns
  <2>2. pc' # "lanes" BY <1>5 DEF LookupReturns, Return, Addresses
  <2>3. PICK q \in net.lanes : lanes[q].pc # "off" BY <1>0, <2>1 DEF LanesInv
  <2>4. q \in Types /\ lanes[q] # Off BY <2>3 DEF IInv, TypeOK, Off
  <2> QED BY <1>0, <2>1, <2>2, <2>4 DEF NamesInv, QuestionsAreNames, ctx
<1>6. ASSUME NEW q \in Types, LaneStep(q) PROVE NamesInv'
  <2>1. UNCHANGED <<ctx, pc, result>> /\ (lanes[q].pc = "begin" \/ Waiting(q))
    BY <1>6, LaneEffect DEF IInv, laneSame
  <2>2. result = "none" BY <2>1, LaneRuns
  <2> QED BY <1>0, <2>1, <2>2 DEF NamesInv, QuestionsAreNames, ctx
<1>7. CASE UNCHANGED vars BY <1>2, <1>7 DEF vars
<1>8. CASE DialBegin \/ DialTimeUp \/ DialCancelled \/ DialNone \/ Connected
  BY <1>2, <1>8 DEF DialBegin, DialTimeUp, DialCancelled, DialNone, Connected, Return
<1>9. CASE ReceiveLane \/ DialAddress \/ ConnectEnds \/ ConnectFails \/ Cancel \/ Tick
  BY <1>2, <1>9 DEF ReceiveLane, DialAddress, ConnectEnds, ConnectFails, Failed, Cancel, Tick
<1>10. CASE Next
  <2>1. \/ Dialer \/ Connected \/ ConnectFails \/ Cancel \/ Tick
        \/ \E q \in Types : LaneStep(q)
    BY <1>10 DEF Next, LaneStep
  <2> QED BY <1>3, <1>4, <1>5, <1>6, <1>8, <1>9, <2>1 DEF Dialer
<1> QED BY <1>7, <1>10

\* QuestionsAreNames: for names of any length, a lookup asks the servers exactly
\* for what the reference definition calls a domain name (isDomainName), whose
\* one pass over the characters replaces the labels of the definition.
THEOREM AsksForNames == Spec => []QuestionsAreNames
<1>1. Init => NamesInv
  <2> SUFFICES ASSUME Init PROVE NamesInv OBVIOUS
  <2>1. PICK s \in Scenarios : call = s.call BY DEF Init
  <2>2. call.host.name \in Seq(Classes) BY <2>1, NetDialAssumption
  <2>3. pc # "lanes" /\ result # "lookup" BY DEF Init
  <2> QED BY <2>2, <2>3 DEF NamesInv, QuestionsAreNames
<1>2. IInv /\ NamesInv /\ [Next]_vars => NamesInv' BY NamesPreserved
<1>3. NamesInv => QuestionsAreNames BY DEF NamesInv
<1> QED BY <1>1, <1>2, <1>3, Invariance, PTL DEF Spec

-----------------------------------------------------------------------------
(* The netstack device.                                                    *)

Notifying == {g \in Goroutines : loc[g] = "notify"}

\* A packet is in one place, and a goroutine has one exactly while it hands it over.
PlacesInv ==
    /\ IsInjective(queue)
    /\ ToSet(queue) \subseteq 1..accepted /\ delivered \subseteq 1..accepted
    /\ \A d \in delivered : d \notin ToSet(queue)
    /\ \A g \in Goroutines : pkt[g] # 0 <=> loc[g] \in {"hold", "send"}
    /\ \A g, h \in Held : pkt[g] = pkt[h] => g = h
    /\ \A g \in Held : pkt[g] \in 1..accepted /\ pkt[g] \notin delivered /\ pkt[g] \notin ToSet(queue)

\* What Close has done so far follows from the statement it is at; whoever is still
\* in WriteNotify after the notification was removed was in it then.
CloseInv ==
    /\ registered <=> step <= 2
    /\ epClosed <=> step > 3
    /\ chanClosed <=> step > 5
    /\ ~registered /\ ~inside => \A g \in Goroutines : loc[g] = "idle"

FiniteInv == IsFiniteSet(Held) /\ IsFiniteSet(Notifying) /\ IsFiniteSet(delivered)

\* What the packets and the goroutines that carry them can do to each other.
CarryInv ==
    /\ QueueTypeOK /\ SendTypeOK
    /\ PlacesInv /\ CloseInv /\ FiniteInv /\ ExactlyOnce /\ QuietCloseIsSafe

TunIInv == UserTypeOK /\ CloseTypeOK /\ CarryInv

carry == <<netv, sendv, chanClosed, step, panicked, hist>>

\* A sequence after an element is appended.
LEMMA AppendSet ==
    ASSUME NEW S, NEW s \in Seq(S), NEW e \in S
    PROVE  /\ Append(s, e) \in Seq(S) /\ Len(Append(s, e)) = Len(s) + 1
           /\ ToSet(Append(s, e)) = ToSet(s) \union {e}
           /\ IsInjective(s) /\ e \notin ToSet(s) => IsInjective(Append(s, e))
<1> DEFINE t == Append(s, e)
<1>1. /\ t \in Seq(S) /\ Len(t) = Len(s) + 1
      /\ \A n \in 1..Len(s) : t[n] = s[n]
      /\ t[Len(s) + 1] = e
  OBVIOUS
<1>2. DOMAIN t = 1..(Len(s) + 1) /\ DOMAIN s = 1..Len(s) /\ Len(s) \in Nat BY <1>1
<1> HIDE DEF t
<1>3. ToSet(t) = ToSet(s) \union {e} BY <1>1, <1>2 DEF ToSet
<1>4. IsInjective(s) /\ e \notin ToSet(s) => IsInjective(t) BY <1>1, <1>2 DEF ToSet, IsInjective
<1> QED BY <1>1, <1>3, <1>4 DEF t

\* A sequence without repetition after its first element is removed.
LEMMA TailSet ==
    ASSUME NEW S, NEW s \in Seq(S), s # <<>>, IsInjective(s)
    PROVE  /\ Head(s) \in S /\ Head(s) \in ToSet(s)
           /\ Tail(s) \in Seq(S) /\ Len(Tail(s)) = Len(s) - 1
           /\ ToSet(Tail(s)) = ToSet(s) \ {Head(s)}
           /\ IsInjective(Tail(s))
<1> DEFINE t == Tail(s)
<1>1. /\ t \in Seq(S) /\ Len(t) = Len(s) - 1
      /\ \A n \in 1..Len(t) : t[n] = s[n + 1]
      /\ Head(s) = s[1] /\ Len(s) \in Nat \ {0}
  OBVIOUS
<1>2. DOMAIN t = 1..(Len(s) - 1) /\ DOMAIN s = 1..Len(s) /\ 1 \in DOMAIN s /\ s[1] \in S BY <1>1
<1> HIDE DEF t
<1>3. ToSet(t) = ToSet(s) \ {Head(s)}
  <2>1. ASSUME NEW n \in DOMAIN s, s[n] # s[1] PROVE \E m \in DOMAIN t : t[m] = s[n]
    <3>1. n - 1 \in DOMAIN t /\ t[n - 1] = s[n] BY <1>1, <1>2, <2>1
    <3> QED BY <3>1
  <2>2. ASSUME NEW n \in DOMAIN t PROVE t[n] # s[1] /\ \E m \in DOMAIN s : s[m] = t[n]
    <3>1. n + 1 \in DOMAIN s /\ t[n] = s[n + 1] /\ n + 1 # 1 BY <1>1, <1>2, <2>2
    <3> QED BY <1>2, <3>1 DEF IsInjective
  <2> QED BY <1>1, <2>1, <2>2 DEF ToSet
<1>4. IsInjective(t)
  <2>1. ASSUME NEW m \in DOMAIN t, NEW n \in DOMAIN t, t[m] = t[n] PROVE m = n
    <3>1. m + 1 \in DOMAIN s /\ n + 1 \in DOMAIN s /\ s[m + 1] = s[n + 1] BY <1>1, <1>2, <2>1
    <3>2. m + 1 = n + 1 BY <3>1 DEF IsInjective
    <3> QED BY <1>2, <3>2
  <2> QED BY <2>1 DEF IsInjective
<1>5. Head(s) \in ToSet(s) BY <1>1, <1>2 DEF ToSet
<1> QED BY <1>1, <1>2, <1>3, <1>4, <1>5 DEF t

\* The bounds are natural numbers.
LEMMA Bounds ==
    /\ MaxPackets \in Nat /\ MaxBatch \in Nat /\ MaxWrites \in Nat /\ MaxSets \in Nat
    /\ QueueCap \in Nat \ {0}
BY NetTunAssumption

\* The statements of Close, by number.
LEMMA CloseStep ==
    ASSUME CloseTypeOK
    PROVE  /\ Len(closeSteps) = 5 /\ step \in 0..6
           /\ At("stack") => step = 1 /\ step' = 2
           /\ At("notify") => step = 2 /\ step' = 3
           /\ At("endpoint") => step = 3 /\ step' = 4
           /\ At("events") => step = 4 /\ step' = 5
           /\ At("chan") => step = 5 /\ step' = 6
BY DEF At, closeSteps, CloseTypeOK

\* CreateNetTUN establishes the invariant.
LEMMA TunInitInv == TunInit => TunIInv
<1> SUFFICES ASSUME TunInit PROVE TunIInv OBVIOUS
<1>1. Held = {} /\ Notifying = {} /\ delivered = {} /\ ToSet(queue) = {}
  BY DEF TunInit, Held, Notifying, ToSet
<1>2. FiniteInv /\ Cardinality({}) = 0 BY <1>1, FS_EmptySet DEF FiniteInv
<1>3. QueueTypeOK
  <2>1. queue \in Seq(1..MaxPackets) /\ Len(queue) <= QueueCap BY Bounds DEF TunInit
  <2> QED BY <1>1, <2>1, Bounds DEF TunInit, QueueTypeOK
<1>4. SendTypeOK
  <2>1. IsInjective(sendq) /\ ToSet(sendq) = {g \in Goroutines : loc[g] = "send"}
    BY DEF TunInit, IsInjective, ToSet
  <2>2. sendq \in Seq(Goroutines) BY DEF TunInit
  <2> QED BY <2>1, <2>2, Bounds DEF TunInit, SendTypeOK
<1>5. UserTypeOK
  <2>1. batch \in 0..MaxBatch /\ writes \in 0..MaxWrites /\ sets \in 0..MaxSets BY Bounds DEF TunInit
  <2> QED BY <2>1 DEF TunInit, UserTypeOK
<1>6. CloseTypeOK
  <2>1. Len(closeSteps) = 5 BY DEF closeSteps
  <2>2. step \in 0..(Len(closeSteps) + 1) BY <2>1 DEF TunInit
  <2> QED BY <2>2 DEF TunInit, CloseTypeOK
<1>7. PlacesInv BY <1>1 DEF TunInit, PlacesInv, IsInjective, Held
<1>8. CloseInv BY DEF TunInit, CloseInv
<1>9. ExactlyOnce
  <2>1. {pkt[g] : g \in Held} = {} BY <1>1
  <2>2. Len(queue) = 0 /\ 1..accepted = {} /\ accepted = 0 BY DEF TunInit
  <2>3. Cardinality(Held) = 0 /\ Cardinality(delivered) = 0 /\ Cardinality(Notifying) = 0 BY <1>1, <1>2
  <2>4. Len(queue) + Cardinality(Held) + Cardinality(delivered) = accepted BY <2>2, <2>3
  <2>5. ToSet(queue) \union {pkt[g] : g \in Held} \union delivered = 1..accepted BY <1>1, <2>1, <2>2
  <2> QED BY <2>2, <2>3, <2>4, <2>5 DEF ExactlyOnce, Notifying
<1>10. QuietCloseIsSafe BY DEF TunInit, QuietCloseIsSafe
<1> QED BY <1>2, <1>3, <1>4, <1>5, <1>6, <1>7, <1>8, <1>9, <1>10 DEF TunIInv, CarryInv

\* The endpoint takes a packet and the goroutine that sent it is about to take one.
LEMMA PutInv ==
    ASSUME TunIInv, NEW g \in Goroutines, Put(g), UNCHANGED <<chanClosed, step, panicked>>
    PROVE  CarryInv'
<1> USE DEF TunIInv, CarryInv
<1>1. CASE UNCHANGED <<accepted, queue, loc>>
  BY <1>1 DEF Put, QueueTypeOK, SendTypeOK, PlacesInv, CloseInv, FiniteInv, ExactlyOnce,
              QuietCloseIsSafe, Held, Notifying
<1>2. CASE ~UNCHANGED <<accepted, queue, loc>>
  <2> DEFINE n == accepted + 1
  <2>1. /\ ~epClosed /\ Len(queue) < QueueCap /\ loc[g] = "idle" /\ accepted < MaxPackets
        /\ accepted' = n /\ queue' = Append(queue, n)
        /\ loc' = [loc EXCEPT ![g] = IF registered THEN "notify" ELSE "idle"]
        /\ UNCHANGED <<registered, epClosed, pkt, sendq, delivered, inside>>
    BY <1>2 DEF Put
  <2>2. accepted \in Nat /\ MaxPackets \in Nat /\ n \in 1..MaxPackets /\ 1..n = (1..accepted) \union {n}
    BY <2>1, Bounds DEF QueueTypeOK
  <2>3. n \notin ToSet(queue) /\ n \notin delivered BY <2>2 DEF PlacesInv
  <2>4. /\ queue' \in Seq(1..MaxPackets) /\ Len(queue') = Len(queue) + 1
        /\ ToSet(queue') = ToSet(queue) \union {n} /\ IsInjective(queue')
    BY <2>1, <2>2, <2>3, AppendSet DEF QueueTypeOK, PlacesInv
  <2>5. QueueTypeOK' BY <2>1, <2>2, <2>4, Bounds DEF QueueTypeOK
  <2>6. SendTypeOK'
    <3>1. ToSet(sendq') = {h \in Goroutines : loc'[h] = "send"} BY <2>1 DEF SendTypeOK
    <3> QED BY <2>1, <3>1 DEF SendTypeOK
  <2>7. Held' = Held /\ \A h \in Held : pkt'[h] = pkt[h] BY <2>1 DEF Held
  <2>8. \A h \in Held : pkt[h] # n BY <2>2 DEF PlacesInv
  <2>9. PlacesInv'
    <3>1. ToSet(queue') \subseteq 1..n /\ delivered \subseteq 1..n BY <2>2, <2>4 DEF PlacesInv
    <3>2. \A h \in Goroutines : pkt'[h] # 0 <=> loc'[h] \in {"hold", "send"}
      BY <2>1 DEF PlacesInv, SendTypeOK
    <3>3. \A h \in Held : pkt[h] \in 1..n /\ pkt[h] \notin delivered /\ pkt[h] \notin ToSet(queue')
      BY <2>2, <2>4, <2>8 DEF PlacesInv
    <3>4. \A d \in delivered : d \notin ToSet(queue') BY <2>3, <2>4 DEF PlacesInv
    <3> QED BY <2>1, <2>4, <2>7, <3>1, <3>2, <3>3, <3>4 DEF PlacesInv
  <2>10. CloseInv' BY <2>1 DEF CloseInv, SendTypeOK
  <2>11. Notifying' = IF registered THEN Notifying \union {g} ELSE Notifying
    BY <2>1 DEF Notifying, SendTypeOK
  <2>12. g \notin Notifying BY <2>1 DEF Notifying
  <2>13. /\ IsFiniteSet(Notifying')
         /\ registered => Cardinality(Notifying') = Cardinality(Notifying) + 1
    BY <2>11, <2>12, FS_AddElement DEF FiniteInv
  <2>14. FiniteInv' BY <2>1, <2>7, <2>13 DEF FiniteInv
  <2>15. ExactlyOnce'
    <3> SUFFICES ASSUME registered
                 PROVE  /\ Len(queue') + Cardinality(Held') + Cardinality(delivered') = accepted'
                        /\ ToSet(queue') \union {pkt'[h] : h \in Held'} \union delivered' = 1..accepted'
                        /\ Len(queue') = Cardinality(Notifying')
      BY <2>1 DEF ExactlyOnce, Notifying
    <3>1. Cardinality(Held) \in Nat /\ Cardinality(delivered) \in Nat /\ Len(queue) \in Nat
      BY FS_CardinalityType DEF FiniteInv, QueueTypeOK
    <3>2. {pkt'[h] : h \in Held'} = {pkt[h] : h \in Held} BY <2>1, <2>7
    <3>3. Len(queue') + Cardinality(Held') + Cardinality(delivered') = accepted'
      BY <2>1, <2>4, <2>7, <3>1 DEF ExactlyOnce
    <3>4. ToSet(queue') \union {pkt'[h] : h \in Held'} \union delivered' = 1..accepted'
      BY <2>1, <2>2, <2>4, <3>2 DEF ExactlyOnce
    <3>5. Len(queue') = Cardinality(Notifying') BY <2>4, <2>13 DEF ExactlyOnce, Notifying
    <3> QED BY <3>3, <3>4, <3>5
  <2>16. QuietCloseIsSafe' BY <2>1 DEF QuietCloseIsSafe
  <2> QED BY <2>5, <2>6, <2>9, <2>10, <2>14, <2>15, <2>16
<1> QED BY <1>1, <1>2

\* A goroutine takes the first packet of the queue, whoever sent it.
LEMMA TakeInv ==
    ASSUME TunIInv, NEW g \in Goroutines, Take(g)
    PROVE  CarryInv'
<1> USE DEF TunIInv, CarryInv
<1>0. /\ loc[g] = "notify" /\ g \notin Held /\ g \in Notifying
      /\ UNCHANGED <<registered, epClosed, chanClosed, step, panicked, accepted, delivered, inside, sendq>>
  BY DEF Take, sendSame, hist, PlacesInv, Held, Notifying
<1>1. /\ IsFiniteSet(Notifying \ {g})
      /\ Cardinality(Notifying \ {g}) = Cardinality(Notifying) - 1
      /\ Cardinality(Notifying) \in Nat \ {0}
  <2>1. Cardinality(Notifying) # 0 BY <1>0, FS_EmptySet DEF FiniteInv
  <2> QED BY <1>0, <2>1, FS_RemoveElement, FS_CardinalityType DEF FiniteInv
<1>2. QuietCloseIsSafe' BY <1>0 DEF QuietCloseIsSafe
<1>3. CASE queue = <<>>
  <2>1. loc' = [loc EXCEPT ![g] = "idle"] /\ UNCHANGED <<pkt, queue>> BY <1>3 DEF Take
  <2>2. QueueTypeOK' BY <1>0, <2>1 DEF QueueTypeOK
  <2>3. SendTypeOK'
    <3>1. ToSet(sendq') = {h \in Goroutines : loc'[h] = "send"} BY <1>0, <2>1 DEF SendTypeOK
    <3> QED BY <1>0, <2>1, <3>1 DEF SendTypeOK
  <2>4. Held' = Held BY <2>1 DEF Held
  <2>5. PlacesInv' BY <1>0, <2>1, <2>4 DEF PlacesInv, SendTypeOK
  <2>6. CloseInv' BY <1>0, <2>1 DEF CloseInv, SendTypeOK
  <2>7. Notifying' = Notifying \ {g} BY <1>0, <2>1 DEF Notifying, SendTypeOK
  <2>8. FiniteInv' BY <1>0, <1>1, <2>4, <2>7 DEF FiniteInv
  <2>9. Len(queue) = 0 BY <1>3
  <2>10. ~registered BY <1>1, <2>9 DEF ExactlyOnce, Notifying
  <2>11. ExactlyOnce' BY <1>0, <2>10 DEF ExactlyOnce
  <2> QED BY <1>2, <2>2, <2>3, <2>5, <2>6, <2>8, <2>11
<1>4. CASE queue # <<>>
  <2> DEFINE h == Head(queue)
  <2>1. /\ loc' = [loc EXCEPT ![g] = "hold"] /\ pkt' = [pkt EXCEPT ![g] = h] /\ queue' = Tail(queue)
    BY <1>4 DEF Take
  <2>2. /\ h \in 1..MaxPackets /\ h \in ToSet(queue)
        /\ queue' \in Seq(1..MaxPackets) /\ Len(queue') = Len(queue) - 1
        /\ ToSet(queue') = ToSet(queue) \ {h} /\ IsInjective(queue')
    BY <1>4, <2>1, TailSet DEF QueueTypeOK, PlacesInv
  <2> HIDE DEF h
  <2>3. /\ h \in 1..accepted /\ h # 0 /\ h \notin delivered /\ Len(queue) \in Nat
        /\ \A k \in Held : pkt[k] # h
    BY <2>2 DEF PlacesInv, QueueTypeOK
  <2>4. QueueTypeOK' BY <1>0, <2>2, <2>3, Bounds DEF QueueTypeOK
  <2>5. SendTypeOK'
    <3>1. ToSet(sendq') = {k \in Goroutines : loc'[k] = "send"} BY <1>0, <2>1 DEF SendTypeOK
    <3>2. h \in 0..MaxPackets BY <2>2, Bounds
    <3> QED BY <1>0, <2>1, <3>1, <3>2 DEF SendTypeOK
  <2>6. /\ Held' = Held \union {g} /\ pkt'[g] = h
        /\ \A k \in Goroutines : k # g => pkt'[k] = pkt[k]
    BY <2>1, <2>3 DEF Held, SendTypeOK
  <2>7. PlacesInv'
    <3>1. \A k \in Goroutines : pkt'[k] # 0 <=> loc'[k] \in {"hold", "send"}
      BY <2>1, <2>3, <2>6 DEF PlacesInv, SendTypeOK
    <3>2. \A k, l \in Held' : pkt'[k] = pkt'[l] => k = l
      BY <1>0, <2>3, <2>6 DEF PlacesInv, Held
    <3>3. \A k \in Held' : pkt'[k] \in 1..accepted /\ pkt'[k] \notin delivered /\ pkt'[k] \notin ToSet(queue')
      BY <1>0, <2>2, <2>3, <2>6 DEF PlacesInv, Held
    <3>4. /\ ToSet(queue') \subseteq 1..accepted
          /\ \A d \in delivered : d \notin ToSet(queue')
      BY <2>2 DEF PlacesInv
    <3> QED BY <1>0, <2>2, <3>1, <3>2, <3>3, <3>4 DEF PlacesInv
  <2>8. CloseInv' BY <1>0, <2>1 DEF CloseInv, SendTypeOK
  <2>9. Notifying' = Notifying \ {g} BY <1>0, <2>1 DEF Notifying, SendTypeOK
  <2>10. /\ IsFiniteSet(Held') /\ Cardinality(Held') = Cardinality(Held) + 1
         /\ Cardinality(Held) \in Nat /\ Cardinality(delivered) \in Nat
    BY <1>0, <2>6, FS_AddElement, FS_CardinalityType DEF FiniteInv
  <2>11. FiniteInv' BY <1>0, <1>1, <2>9, <2>10 DEF FiniteInv
  <2>12. ExactlyOnce'
    <3> SUFFICES ASSUME registered
                 PROVE  /\ Len(queue') + Cardinality(Held') + Cardinality(delivered) = accepted
                        /\ ToSet(queue') \union {pkt'[k] : k \in Held'} \union delivered = 1..accepted
                        /\ Len(queue') = Cardinality(Notifying')
      BY <1>0 DEF ExactlyOnce, Notifying
    <3>1. {pkt'[k] : k \in Held'} = {pkt[k] : k \in Held} \union {h}
      BY <1>0, <2>6 DEF Held
    <3>2. Len(queue') + Cardinality(Held') + Cardinality(delivered) = accepted
      BY <2>2, <2>3, <2>10 DEF ExactlyOnce
    <3>3. ToSet(queue') \union {pkt'[k] : k \in Held'} \union delivered = 1..accepted
      BY <2>2, <3>1 DEF ExactlyOnce
    <3>4. Len(queue') = Cardinality(Notifying') BY <1>1, <2>2, <2>9 DEF ExactlyOnce, Notifying
    <3> QED BY <3>2, <3>3, <3>4
  <2> QED BY <1>2, <2>4, <2>5, <2>7, <2>8, <2>11, <2>12
<1> QED BY <1>3, <1>4

\* It waits in the channel; the channel is closed only if it was inside in time.
LEMMA OfferInv ==
    ASSUME TunIInv, NEW g \in Goroutines, Offer(g)
    PROVE  CarryInv'
<1> USE DEF TunIInv, CarryInv
<1>0. /\ loc[g] = "hold"
      /\ UNCHANGED <<queue, pkt, registered, epClosed, chanClosed, step, accepted, delivered, inside>>
  BY DEF Offer, sendSame, hist
<1>1. Held' = Held BY <1>0 DEF Held
<1>2. CASE chanClosed
  <2>1. panicked' = TRUE /\ UNCHANGED <<loc, sendq>> BY <1>2 DEF Offer
  <2>2. inside BY <1>0, <1>2, CloseStep DEF CloseInv
  <2>3. Notifying' = Notifying BY <2>1 DEF Notifying
  <2> QED BY <1>0, <1>1, <2>1, <2>2, <2>3 DEF QueueTypeOK, SendTypeOK, PlacesInv, CloseInv,
            FiniteInv, ExactlyOnce, QuietCloseIsSafe, Notifying
<1>3. CASE ~chanClosed
  <2>1. loc' = [loc EXCEPT ![g] = "send"] /\ sendq' = Append(sendq, g) /\ UNCHANGED panicked
    BY <1>3 DEF Offer
  <2>2. g \notin ToSet(sendq) BY <1>0 DEF SendTypeOK
  <2>3. /\ sendq' \in Seq(Goroutines) /\ IsInjective(sendq')
        /\ ToSet(sendq') = ToSet(sendq) \union {g}
    BY <2>1, <2>2, AppendSet DEF SendTypeOK
  <2>4. ToSet(sendq') = {h \in Goroutines : loc'[h] = "send"} BY <2>1, <2>3 DEF SendTypeOK
  <2>5. SendTypeOK' BY <1>0, <2>1, <2>3, <2>4 DEF SendTypeOK
  <2>6. Notifying' = Notifying BY <1>0, <2>1 DEF Notifying, SendTypeOK
  <2>7. PlacesInv' BY <1>0, <1>1, <2>1 DEF PlacesInv, SendTypeOK
  <2>8. CloseInv' BY <1>0, <2>1 DEF CloseInv, SendTypeOK
  <2>9. QueueTypeOK' /\ FiniteInv' /\ ExactlyOnce' /\ QuietCloseIsSafe'
    BY <1>0, <1>1, <2>1, <2>6 DEF QueueTypeOK, FiniteInv, ExactlyOnce, QuietCloseIsSafe, Notifying
  <2> QED BY <2>5, <2>7, <2>8, <2>9
<1> QED BY <1>2, <1>3

\* Read takes the packet of the goroutine that has waited longest.
LEMMA ReadPacketInv ==
    ASSUME TunIInv, ReadPacket
    PROVE  CarryInv'
<1> USE DEF TunIInv, CarryInv
<1> DEFINE g == Head(sendq)
           x == pkt[g]
<1>0. /\ sendq # <<>> /\ delivered' = delivered \union {x}
      /\ loc' = [loc EXCEPT ![g] = "idle"] /\ pkt' = [pkt EXCEPT ![g] = 0] /\ sendq' = Tail(sendq)
      /\ UNCHANGED <<queue, registered, epClosed, chanClosed, step, panicked, accepted, inside>>
  BY DEF ReadPacket, netv
<1>1. /\ g \in Goroutines /\ g \in ToSet(sendq)
      /\ sendq' \in Seq(Goroutines) /\ ToSet(sendq') = ToSet(sendq) \ {g} /\ IsInjective(sendq')
  BY <1>0, TailSet DEF SendTypeOK
<1> HIDE DEF g
<1>2. loc[g] = "send" /\ g \in Held BY <1>1 DEF SendTypeOK, PlacesInv, Held
<1>3. x \in 1..accepted /\ x \notin delivered /\ x \notin ToSet(queue) /\ \A k \in Held : k # g => pkt[k] # x
  BY <1>2 DEF PlacesInv
<1> HIDE DEF x
<1>4. QueueTypeOK' BY <1>0, <1>3, Bounds DEF QueueTypeOK
<1>5. SendTypeOK'
  <2>1. ToSet(sendq') = {k \in Goroutines : loc'[k] = "send"} BY <1>0, <1>1 DEF SendTypeOK
  <2>2. 0 \in 0..MaxPackets BY Bounds
  <2> QED BY <1>0, <1>1, <2>1, <2>2 DEF SendTypeOK
<1>6. /\ Held' = Held \ {g} /\ \A k \in Goroutines : k # g => pkt'[k] = pkt[k]
  BY <1>0, <1>1 DEF Held, SendTypeOK
<1>7. PlacesInv'
  <2>1. \A k \in Goroutines : pkt'[k] # 0 <=> loc'[k] \in {"hold", "send"}
    BY <1>0, <1>1, <1>6 DEF PlacesInv, SendTypeOK
  <2>2. \A k, l \in Held' : pkt'[k] = pkt'[l] => k = l BY <1>6 DEF PlacesInv, Held
  <2>3. \A k \in Held' : pkt'[k] \in 1..accepted /\ pkt'[k] \notin delivered' /\ pkt'[k] \notin ToSet(queue)
    BY <1>0, <1>3, <1>6 DEF PlacesInv, Held
  <2>4. delivered' \subseteq 1..accepted /\ \A d \in delivered' : d \notin ToSet(queue)
    BY <1>0, <1>3 DEF PlacesInv
  <2> QED BY <1>0, <2>1, <2>2, <2>3, <2>4 DEF PlacesInv
<1>8. CloseInv' BY <1>0 DEF CloseInv, SendTypeOK
<1>9. Notifying' = Notifying BY <1>0, <1>1, <1>2 DEF Notifying, SendTypeOK
<1>10. /\ IsFiniteSet(Held') /\ Cardinality(Held') = Cardinality(Held) - 1 /\ Cardinality(Held) \in Nat
  BY <1>2, <1>6, FS_RemoveElement, FS_CardinalityType DEF FiniteInv
<1>11. /\ IsFiniteSet(delivered') /\ Cardinality(delivered') = Cardinality(delivered) + 1
       /\ Cardinality(delivered) \in Nat
  BY <1>0, <1>3, FS_AddElement, FS_CardinalityType DEF FiniteInv
<1>12. FiniteInv' BY <1>9, <1>10, <1>11 DEF FiniteInv
<1>13. ExactlyOnce'
  <2> SUFFICES ASSUME registered
               PROVE  /\ Len(queue) + Cardinality(Held') + Cardinality(delivered') = accepted
                      /\ ToSet(queue) \union {pkt'[k] : k \in Held'} \union delivered' = 1..accepted
                      /\ Len(queue) = Cardinality(Notifying')
    BY <1>0 DEF ExactlyOnce, Notifying
  <2>1. {pkt[k] : k \in Held} = {pkt'[k] : k \in Held'} \union {x} BY <1>2, <1>6 DEF Held, x
  <2>2. Len(queue) \in Nat BY DEF QueueTypeOK
  <2>3. Len(queue) + Cardinality(Held') + Cardinality(delivered') = accepted
    BY <1>10, <1>11, <2>2 DEF ExactlyOnce
  <2>4. ToSet(queue) \union {pkt'[k] : k \in Held'} \union delivered' = 1..accepted
    BY <1>0, <2>1 DEF ExactlyOnce
  <2>5. Len(queue) = Cardinality(Notifying') BY <1>9 DEF ExactlyOnce, Notifying
  <2> QED BY <2>3, <2>4, <2>5
<1>14. QuietCloseIsSafe' BY <1>0 DEF QuietCloseIsSafe
<1> QED BY <1>4, <1>5, <1>7, <1>8, <1>12, <1>13, <1>14

\* What touches neither packets nor Close changes nothing of this.
LEMMA CarrySame == ASSUME CarryInv, UNCHANGED carry PROVE CarryInv'
<1>1. UNCHANGED <<queue, registered, epClosed, loc, pkt, sendq, chanClosed, step, panicked,
                  accepted, delivered, inside>>
  BY DEF carry, netv, sendv, hist
<1>2. Held' = Held /\ Notifying' = Notifying BY <1>1 DEF Held, Notifying
<1> QED BY <1>1, <1>2 DEF CarryInv, QueueTypeOK, SendTypeOK, PlacesInv, CloseInv, FiniteInv,
                          ExactlyOnce, QuietCloseIsSafe, Notifying

\* Close, statement by statement.
LEMMA CloseKeepsInv ==
    ASSUME TunIInv, ~panicked, CloseBegin \/ Close
    PROVE  CarryInv' /\ CloseTypeOK'
<1> USE DEF TunIInv, CarryInv
<1>1. ASSUME UNCHANGED <<loc, pkt, sendq, accepted, delivered>>
      PROVE  Held' = Held /\ Notifying' = Notifying /\ SendTypeOK' /\ FiniteInv'
  <2>1. Held' = Held /\ Notifying' = Notifying BY <1>1 DEF Held, Notifying
  <2> QED BY <1>1, <2>1 DEF SendTypeOK, FiniteInv
<1>2. ASSUME CloseBegin \/ CloseStack \/ CloseEvents PROVE CarryInv' /\ CloseTypeOK'
  <2>1. /\ UNCHANGED <<queue, registered, epClosed, loc, pkt, sendq, chanClosed, panicked,
                       accepted, delivered, inside>>
        /\ \/ step = 0 /\ step' = 1 /\ UNCHANGED eventsClosed
           \/ step = 1 /\ step' = 2 /\ UNCHANGED eventsClosed
           \/ step = 4 /\ step' = 5 /\ eventsClosed' = TRUE
    BY <1>2, CloseStep DEF CloseBegin, CloseStack, CloseEvents, netv, sendv, hist
  <2>2. CloseTypeOK'
    <3>1. step' \in 0..(Len(closeSteps) + 1) BY <2>1, CloseStep
    <3> QED BY <2>1, <3>1 DEF CloseTypeOK
  <2>3. CloseInv' BY <2>1 DEF CloseInv
  <2>4. QueueTypeOK' /\ PlacesInv' /\ ExactlyOnce' /\ QuietCloseIsSafe'
    BY <1>1, <2>1 DEF QueueTypeOK, PlacesInv, ExactlyOnce, QuietCloseIsSafe, Notifying
  <2> QED BY <1>1, <2>1, <2>2, <2>3, <2>4
<1>3. ASSUME CloseNotify PROVE CarryInv' /\ CloseTypeOK'
  <2>1. /\ UNCHANGED <<queue, epClosed, loc, pkt, sendq, chanClosed, eventsClosed, panicked,
                       accepted, delivered>>
        /\ step = 2 /\ step' = 3 /\ registered' = FALSE
        /\ inside' = (\E g \in Goroutines : loc[g] # "idle")
    BY <1>3, CloseStep DEF CloseNotify, sendv
  <2>2. inside' \in BOOLEAN BY <2>1
  <2>3. CloseTypeOK'
    <3>1. step' \in 0..(Len(closeSteps) + 1) BY <2>1, CloseStep
    <3> QED BY <2>1, <2>2, <3>1 DEF CloseTypeOK
  <2>4. CloseInv' BY <2>1 DEF CloseInv
  <2>5. QueueTypeOK' /\ PlacesInv' /\ ExactlyOnce' /\ QuietCloseIsSafe'
    BY <1>1, <2>1 DEF QueueTypeOK, PlacesInv, ExactlyOnce, QuietCloseIsSafe
  <2> QED BY <1>1, <2>1, <2>3, <2>4, <2>5
<1>4. ASSUME CloseEndpoint PROVE CarryInv' /\ CloseTypeOK'
  <2>1. /\ UNCHANGED <<registered, loc, pkt, sendq, chanClosed, eventsClosed, panicked,
                       accepted, delivered, inside>>
        /\ step = 3 /\ step' = 4 /\ epClosed' = TRUE /\ queue' = <<>>
    BY <1>4, CloseStep DEF CloseEndpoint, sendv, hist
  <2>2. CloseTypeOK'
    <3>1. step' \in 0..(Len(closeSteps) + 1) BY <2>1, CloseStep
    <3> QED BY <2>1, <3>1 DEF CloseTypeOK
  <2>3. CloseInv' BY <2>1 DEF CloseInv
  <2>4. queue' \in Seq(1..MaxPackets) /\ Len(queue') = 0 /\ ToSet(queue') = {} /\ IsInjective(queue')
    BY <2>1 DEF ToSet, IsInjective
  <2>5. QueueTypeOK' BY <2>1, <2>4, Bounds DEF QueueTypeOK
  <2>6. PlacesInv' BY <1>1, <2>1, <2>4 DEF PlacesInv
  <2>7. ExactlyOnce' /\ QuietCloseIsSafe' BY <2>1 DEF CloseInv, ExactlyOnce, QuietCloseIsSafe
  <2> QED BY <1>1, <2>1, <2>2, <2>3, <2>5, <2>6, <2>7
<1>5. ASSUME CloseChan PROVE CarryInv' /\ CloseTypeOK'
  <2>1. /\ UNCHANGED <<queue, registered, epClosed, loc, pkt, sendq, eventsClosed,
                       accepted, delivered, inside>>
        /\ step = 5 /\ step' = 6 /\ chanClosed' = TRUE /\ panicked' = (sendq # <<>>)
    BY <1>5, CloseStep DEF CloseChan, netv, sendv, hist
  <2>2. CloseTypeOK'
    <3>0. step' = 6 BY <2>1
    <3>1. step' \in 0..(Len(closeSteps) + 1)
      <4>1. Len(closeSteps) = 5 BY CloseStep
      <4> QED BY ONLY <3>0, <4>1
    <3>2. panicked' \in BOOLEAN BY <2>1
    <3> QED BY <2>1, <3>1, <3>2 DEF CloseTypeOK
  <2>3. CloseInv' BY <2>1 DEF CloseInv
  <2>4. ASSUME sendq # <<>> PROVE inside
    <3>1. Head(sendq) \in Goroutines /\ Head(sendq) \in ToSet(sendq) BY <2>4, TailSet DEF SendTypeOK
    <3>2. loc[Head(sendq)] = "send" BY <3>1 DEF SendTypeOK
    <3> QED BY <2>1, <3>1, <3>2 DEF CloseInv
  <2>5. QuietCloseIsSafe' BY <2>1, <2>4 DEF QuietCloseIsSafe
  <2>6. QueueTypeOK' /\ PlacesInv' /\ ExactlyOnce'
    BY <1>1, <2>1 DEF QueueTypeOK, PlacesInv, ExactlyOnce, Notifying
  <2> QED BY <1>1, <2>1, <2>2, <2>3, <2>5, <2>6
<1> QED BY <1>2, <1>3, <1>4, <1>5 DEF Close

\* Every step preserves the invariant.
LEMMA TunNextInv == TunIInv /\ [TunNext]_tunVars => TunIInv'
<1> SUFFICES ASSUME TunIInv, [TunNext]_tunVars PROVE TunIInv' OBVIOUS
<1> USE DEF TunIInv
<1>1. ASSUME ~panicked, Read PROVE TunIInv'
  <2>1. UserTypeOK' /\ CloseTypeOK'
    BY <1>1 DEF Read, ReadBegin, ReadPacket, ReadClosed, UserTypeOK, CloseTypeOK, wrv, pingv, netv, hist
  <2>2. ASSUME ReadBegin \/ ReadClosed PROVE CarryInv'
    BY <2>2, CarrySame DEF ReadBegin, ReadClosed, carry
  <2> QED BY <1>1, <2>1, <2>2, ReadPacketInv DEF Read
<1>2. ASSUME ~panicked, WriteBegin \/ Write PROVE TunIInv'
  <2>1. CloseTypeOK'
    BY <1>2 DEF WriteBegin, Write, WriteReturns, WriteNext, Put, CloseTypeOK, netv, hist
  <2>2. UserTypeOK'
    <3>1. /\ batch' \in 0..MaxBatch /\ writes' \in 0..MaxWrites
      <4>1. batch \in 0..MaxBatch /\ writes \in 0..MaxWrites BY DEF UserTypeOK
      <4>2. /\ batch' \in 0..MaxBatch \/ batch' = 0 \/ (batch > 0 /\ batch' = batch - 1)
            /\ writes' = writes \/ (writes < MaxWrites /\ writes' = writes + 1)
        BY <1>2 DEF WriteBegin, Write, WriteReturns, WriteNext
      <4> QED BY <4>1, <4>2, Bounds
    <3>4. writing' \in BOOLEAN BY <1>2 DEF WriteBegin, Write, WriteReturns, WriteNext, UserTypeOK
    <3>2. notified' \in BOOLEAN
      BY <1>2 DEF WriteBegin, Write, WriteReturns, WriteNext, UserTypeOK, pingv
    <3>3. UNCHANGED <<reader, ping, timer, sets, pingClosed>>
      BY <1>2 DEF WriteBegin, Write, WriteReturns, WriteNext, pingv
    <3> QED BY <3>1, <3>2, <3>3, <3>4 DEF UserTypeOK
  <2>3. "writer" \in Goroutines BY DEF Goroutines
  <2>4. CarryInv'
    <3>1. CASE UNCHANGED carry BY <3>1, CarrySame
    <3>2. CASE Put("writer") /\ UNCHANGED <<chanClosed, step, panicked>> BY <2>3, <3>2, PutInv
    <3> QED BY <1>2, <3>1, <3>2 DEF WriteBegin, Write, WriteReturns, WriteNext, carry
  <2> QED BY <2>1, <2>2, <2>4
<1>3. ASSUME ~panicked, CloseBegin \/ Close PROVE TunIInv'
  <2>1. notified' \in BOOLEAN
    BY <1>3 DEF CloseBegin, Close, CloseStack, CloseNotify, CloseEndpoint, CloseEvents, CloseChan,
                SocketCloses, UserTypeOK, pingv
  <2>2. UNCHANGED <<reader, batch, writing, writes, ping, timer, sets, pingClosed>>
    BY <1>3 DEF CloseBegin, Close, CloseStack, CloseNotify, CloseEndpoint, CloseEvents, CloseChan,
                pingv, wrv
  <2>3. UserTypeOK' BY <2>1, <2>2 DEF UserTypeOK
  <2> QED BY <1>3, <2>3, CloseKeepsInv
<1>4. ASSUME NEW s \in Senders, WriteTo(s) PROVE TunIInv'
  <2>1. s \in Goroutines BY DEF Goroutines
  <2>2. UserTypeOK' /\ CloseTypeOK' BY <1>4 DEF WriteTo, Put, UserTypeOK, CloseTypeOK, wrv, pingv
  <2> QED BY <1>4, <2>1, <2>2, PutInv DEF WriteTo
<1>5. ASSUME NEW g \in Goroutines, WriteNotify(g) PROVE TunIInv'
  <2>1. UserTypeOK' BY <1>5 DEF WriteNotify, Take, Offer, sendSame, UserTypeOK, wrv, pingv
  <2>2. CloseTypeOK' BY <1>5 DEF WriteNotify, Take, Offer, sendSame, CloseTypeOK, hist
  <2> QED BY <1>5, <2>1, <2>2, TakeInv, OfferInv DEF WriteNotify
<1>6. ASSUME PingRead \/ PingDeadline \/ PingPacket \/ SetReadDeadline \/ TimerFires \/ PingClose
      PROVE TunIInv'
  <2>1. UNCHANGED pingSame
    BY <1>6 DEF PingRead, PingDeadline, PingPacket, SetReadDeadline, TimerFires, PingClose
  <2>2. CarryInv' BY <2>1, CarrySame DEF pingSame, carry
  <2>3. CloseTypeOK' BY <2>1 DEF pingSame, CloseTypeOK, netv, hist
  <2>4. notified' \in BOOLEAN
    BY <1>6 DEF PingRead, PingDeadline, PingPacket, SetReadDeadline, TimerFires, PingClose,
                SocketCloses, UserTypeOK
  <2>7. sets' \in 0..MaxSets
    <3>1. sets' = sets \/ (sets < MaxSets /\ sets' = sets + 1)
      BY <1>6 DEF PingRead, PingDeadline, PingPacket, SetReadDeadline, TimerFires, PingClose
    <3> QED BY <3>1, Bounds DEF UserTypeOK
  <2>5. ping' \in {"idle", "wait"} /\ timer' \in {"off", "armed", "fired"} /\ pingClosed' \in BOOLEAN
    BY <1>6 DEF PingRead, PingDeadline, PingPacket, SetReadDeadline, TimerFires, PingClose, UserTypeOK
  <2>6. UserTypeOK' BY <2>1, <2>4, <2>5, <2>7 DEF pingSame, UserTypeOK, wrv
  <2> QED BY <2>2, <2>3, <2>6
<1>7. CASE UNCHANGED tunVars
  <2>1. CarryInv' BY <1>7, CarrySame DEF tunVars, carry
  <2> QED BY <1>7, <2>1 DEF tunVars, UserTypeOK, CloseTypeOK, netv, hist, wrv, pingv
<1> QED BY <1>1, <1>2, <1>3, <1>4, <1>5, <1>6, <1>7 DEF TunNext, Step

\* Every state of the device satisfies the inductive invariant.
LEMMA TunInvariance == TunSpec => []TunIInv
BY TunInitInv, TunNextInv, PTL DEF TunSpec

\* TunTypeOK: the queue of the endpoint never holds more than its capacity, and a
\* goroutine is in the queue of incomingPacket exactly while it blocks in the send.
THEOREM TunTypeCorrect == TunSpec => []TunTypeOK
<1>1. TunIInv => TunTypeOK BY DEF TunIInv, CarryInv, TunTypeOK
<1> QED BY <1>1, TunInvariance, PTL

\* ExactlyOnce: for any number of goroutines, whoever takes a packet in WriteNotify,
\* every packet the endpoint took is in one place and none is left behind.
THEOREM PacketsConserved == TunSpec => []ExactlyOnce
<1>1. TunIInv => ExactlyOnce BY DEF TunIInv, CarryInv
<1> QED BY <1>1, TunInvariance, PTL

\* QuietCloseIsSafe: Close, with sends in progress in any number, panics only if a
\* goroutine was inside WriteNotify when the notification was removed.
THEOREM CloseSafe == TunSpec => []QuietCloseIsSafe
<1>1. TunIInv => QuietCloseIsSafe BY DEF TunIInv, CarryInv
<1> QED BY <1>1, TunInvariance, PTL

================================================================================
