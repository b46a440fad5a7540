------------------------------- MODULE NetDial -------------------------------
(***************************************************************************)
(* DialContext of the netstack (netstack/tun.go): LookupContextHost asks   *)
(* the DNS servers in two goroutines, its lanes, one for A and one for     *)
(* AAAA records, and the addresses found are dialled one after the other,  *)
(* each with a share of the time left.                                     *)
(*                                                                         *)
(* Time is a clock; code takes no time, so that the clock moves only while *)
(* every goroutine waits and not past what one of them waits for.  0 is    *)
(* the zero time: no deadline.  The network is external: an exchange or a  *)
(* connection is answered, fails, or is silent until its deadline.         *)
(***************************************************************************)
EXTENDS DomainName, FiniteSets

CONSTANTS Scenarios,   \* records [net, call, deadline], where net is the netTun: [lanes, servers],
                       \* call the arguments: [proto, accept, address, host]
          Timeout,     \* of one exchange (5 s)
          SaneMinimum, \* of partialDeadline (2 s)
          Messages     \* what a DNS server answers

Types == {"A", "AAAA"}
Record == {"A", "AAAA", "CNAME", "badA", "badAAAA", "broken"}

ASSUME NetDialAssumption ==
    /\ \A s \in Scenarios : /\ s.net.lanes \subseteq Types /\ s.net.servers \in Nat
                            /\ s.call.proto \in {"tcp", "udp", "ping", "unknown"}
                            /\ s.call.accept \subseteq Types /\ s.call.address \in BOOLEAN
                            /\ s.call.host.addr \in Types \union {"none"}
                            /\ s.call.host.name \in Seq(Classes)
                            /\ s.deadline \in Nat
    /\ Timeout \in Nat \ {0} /\ SaneMinimum \in Nat \ {0}
    /\ \A m \in Messages : m.answers \in Seq(Record)

VARIABLES
    now,
    net, call, deadline, cancelled, \* ctx: its deadline, and whether it was cancelled
    lanes,     \* lanes[q]: where tryOneName is: [pc, n, until]
    results,   \* the channel lane
    got,       \* results received
    found,     \* addrsV4 and addrsV6: how many
    lastErr,   \* of LookupContextHost: "nil", "notfound" or "failed"
    pc,        \* where DialContext is
    addrs,     \* the addresses to dial, by type
    i,         \* number of the address
    until,     \* the deadline of dialCtx
    firstErr,  \* did an address fail?
    result,    \* what DialContext returned
    began,     \* history: when the first address was dialled
    tried      \* history: addresses dialled

ctx    == <<net, call, deadline>>
look   == <<results, got, found, lastErr>>
dial   == <<addrs, i, until, firstErr, began, tried>>
vars   == <<now, ctx, cancelled, lanes, look, pc, dial, result>>

Off == [pc |-> "off", n |-> 0, until |-> 0]

Init ==
    /\ now = 1
    /\ \E s \in Scenarios : net = s.net /\ call = s.call /\ deadline = s.deadline
    /\ cancelled = FALSE
    /\ lanes = [q \in Types |-> Off] /\ results = <<>> /\ got = 0
    /\ found = [q \in Types |-> 0] /\ lastErr = "nil"
    /\ pc = "call" /\ addrs = <<>> /\ i = 1 /\ until = 0 /\ firstErr = FALSE
    /\ result = "none" /\ began = 0 /\ tried = 0

-----------------------------------------------------------------------------
(* DNS messages: [rcode, recursive, truncated, extra, answers], where       *)
(* recursive stands for Authoritative or RecursionAvailable and extra for  *)
(* more than one question.  A record is "badA" or "badAAAA" if its header  *)
(* can be read and its body cannot, "broken" if nothing can.               *)

First(S) == CHOOSE k \in S : \A l \in S : k <= l

checkHeader(m) ==
    IF m.rcode = "nxdomain" THEN "notfound"
    ELSE IF \/ m.answers # <<>> /\ m.answers[1] = "broken"
            \/ m.rcode = "success" /\ ~m.recursive /\ m.answers = <<>>
            \/ m.rcode # "success"
           THEN "failed" ELSE "nil"

TypeOf(r) == CASE r = "badA" -> "A" [] r = "badAAAA" -> "AAAA" [] OTHER -> r

\* Where the parser stops, and with which error.
Stops(m, q) == {k \in DOMAIN m.answers : TypeOf(m.answers[k]) \in {q, "broken"}}

skipToAnswer(m, q) ==
    IF Stops(m, q) = {} THEN "notfound"
    ELSE IF m.answers[First(Stops(m, q))] = "broken" THEN "failed" ELSE "nil"

Verdict(m, q) == IF checkHeader(m) # "nil" THEN checkHeader(m) ELSE skipToAnswer(m, q)

\* The records after those that were skipped.
Rest(m, q) == SubSeq(m.answers, First(Stops(m, q)), Len(m.answers))

\* A parser that was never started: its first record cannot be read.
ZeroParser == <<"broken">>

-----------------------------------------------------------------------------
(* A lane: tryOneName asks every server, twice, and exchange asks one over *)
(* UDP and, if the answer is truncated, over TCP.                          *)

\* Mutant of ExchangeDeadline: the deadline of ctx is forgotten.
ExchangeDeadlineFresh == now + Timeout

\* context.WithDeadline(ctx, time.Now().Add(timeout))
ExchangeDeadline == IF deadline # 0 /\ deadline < now + Timeout THEN deadline ELSE now + Timeout

Sent(q, err, recs) ==
    /\ lanes' = [lanes EXCEPT ![q] = [@ EXCEPT !.pc = "sent"]]
    /\ results' = Append(results, [err |-> err, recs |-> recs])

\* Mutant of Exchange: a third round.
ExchangeThrice(q, n) ==
    IF n >= 3 * net.servers \/ Rooted(call.host.name)
      THEN Sent(q, IF net.servers = 0 THEN "nil" ELSE "failed", ZeroParser)
      ELSE /\ lanes' = [lanes EXCEPT ![q] = [pc |-> "udp", n |-> n, until |-> ExchangeDeadline]]
           /\ UNCHANGED results

\* The n-th exchange.  The name with its own dot at the end cannot be packed:
\* every exchange fails before it sends anything.
Exchange(q, n) ==
    IF n >= 2 * net.servers \/ Rooted(call.host.name)
      THEN Sent(q, IF net.servers = 0 THEN "nil" ELSE "failed", ZeroParser)
      ELSE /\ lanes' = [lanes EXCEPT ![q] = [pc |-> "udp", n |-> n, until |-> ExchangeDeadline]]
           /\ UNCHANGED results

laneSame == <<now, ctx, cancelled, got, found, lastErr, pc, dial, result>>

\* Another server is asked after an error, but not after "no such host".
Answer(q, m) ==
    IF m.extra \/ Verdict(m, q) = "failed" THEN Exchange(q, lanes[q].n + 1)
    ELSE IF Verdict(m, q) = "notfound" THEN Sent(q, "notfound", ZeroParser)
    ELSE Sent(q, "nil", Rest(m, q))

\* dnsPacketRoundTrip: datagrams that are not the answer are skipped.
UDPAnswer(q, m) ==
    /\ lanes[q].pc = "udp" /\ now < lanes[q].until
    /\ IF m.truncated /\ ~m.extra
         THEN /\ lanes' = [lanes EXCEPT ![q] = [@ EXCEPT !.pc = "dial", !.until = ExchangeDeadline]]
              /\ UNCHANGED results
         ELSE Answer(q, m)
    /\ UNCHANGED laneSame

TCPConnected(q) ==
    /\ lanes[q].pc = "dial" /\ now < lanes[q].until /\ ~cancelled
    /\ lanes' = [lanes EXCEPT ![q].pc = "tcp"]
    /\ UNCHANGED <<laneSame, results>>

TCPAnswer(q, m) ==
    /\ lanes[q].pc = "tcp" /\ now < lanes[q].until
    /\ IF m.truncated THEN Exchange(q, lanes[q].n + 1) ELSE Answer(q, m)
    /\ UNCHANGED laneSame

\* Mutant of ExchangeTimesOut: the stream is read without a deadline.
ExchangeTimesOutNotTCP(q) ==
    /\ \/ lanes[q].pc \in {"udp", "dial"} /\ now >= lanes[q].until
       \/ lanes[q].pc = "dial" /\ cancelled
    /\ Exchange(q, lanes[q].n + 1)
    /\ UNCHANGED laneSame

\* Only DialContextTCPAddrPort notices that ctx is cancelled.
ExchangeTimesOut(q) ==
    /\ \/ lanes[q].pc \in {"udp", "dial", "tcp"} /\ now >= lanes[q].until
       \/ lanes[q].pc = "dial" /\ cancelled
    /\ Exchange(q, lanes[q].n + 1)
    /\ UNCHANGED laneSame

\* Unreachable, refused, closed, or a stream that is no answer.
ExchangeFails(q) ==
    /\ lanes[q].pc \in {"udp", "dial", "tcp"}
    /\ Exchange(q, lanes[q].n + 1)
    /\ UNCHANGED laneSame

-----------------------------------------------------------------------------
(* DialContext begins.                                                     *)

Return(r) == pc' = "returned" /\ result' = r

DialBegin ==
    /\ pc = "call"
    /\ IF call.proto = "unknown" \/ ~call.address THEN Return("invalid")
                                                  ELSE pc' = "lookup" /\ UNCHANGED result
    /\ UNCHANGED <<now, ctx, cancelled, lanes, look, dial>>

\* n[q] addresses of each type; IPv6 comes first if there is a local IPv6 address.
Ordered(n) ==
    LET first == IF "AAAA" \in net.lanes THEN "AAAA" ELSE "A"
        other == IF first = "A" THEN "AAAA" ELSE "A"
    IN [k \in 1..(n["A"] + n["AAAA"]) |-> IF k <= n[first] THEN first ELSE other]

\* The addresses to dial: those the network accepts.
Addresses(n) ==
    LET ok == Ordered([q \in Types |-> IF q \in call.accept THEN n[q] ELSE 0]) IN
    /\ IF ok = <<>> /\ Ordered(n) # <<>> THEN Return("unsuitable") ELSE pc' = "dial" /\ UNCHANGED result
    /\ addrs' = ok /\ began' = now
    /\ UNCHANGED <<i, until, firstErr, tried>>

\* LookupContextHost without a question to ask: no host, no family, an address
\* that is its own name, or what is not a domain name.
LookupAtOnce ==
    /\ pc = "lookup"
    /\ CASE (call.host.addr = "none" /\ call.host.name = <<>>) \/ net.lanes = {} ->
                Return("lookup") /\ UNCHANGED dial
         [] call.host.addr # "none" /\ net.lanes # {} -> Addresses([q \in Types |-> IF q = call.host.addr THEN 1 ELSE 0])
         [] OTHER -> ~isDomainName(call.host.name) /\ Return("lookup") /\ UNCHANGED dial
    /\ UNCHANGED <<now, ctx, cancelled, lanes, look>>

StartLanes ==
    /\ pc = "lookup" /\ net.lanes # {} /\ call.host.addr = "none" /\ isDomainName(call.host.name)
    /\ pc' = "lanes"
    /\ lanes' = [q \in Types |-> IF q \in net.lanes THEN [Off EXCEPT !.pc = "begin"] ELSE Off]
    /\ UNCHANGED <<now, ctx, cancelled, look, dial, result>>

LaneBegins(q) ==
    /\ lanes[q].pc = "begin"
    /\ Exchange(q, 0)
    /\ UNCHANGED laneSame

\* How many results there will be.
LaneCount == (IF "A" \in net.lanes THEN 1 ELSE 0) + (IF "AAAA" \in net.lanes THEN 1 ELSE 0)

\* The records up to the first one that cannot be read.
Good(recs) ==
    LET bad == {k \in DOMAIN recs : recs[k] \in {"badA", "badAAAA", "broken"}} IN
    {k \in DOMAIN recs : \A b \in bad : k < b}

Counts(recs) == [q \in Types |-> Cardinality({k \in Good(recs) : recs[k] = q})]

\* Mutant of ReceiveLane: an error ends the lookup although another lane may succeed.
ReceiveLaneGivesUp ==
    /\ pc = "lanes" /\ results # <<>>
    /\ results' = Tail(results)
    /\ LET r == Head(results) IN
         IF r.err # "nil"
           THEN /\ lastErr' = IF lastErr = "nil" THEN r.err ELSE lastErr
                /\ got' = LaneCount /\ UNCHANGED found
           ELSE /\ found' = [q \in Types |-> found[q] + Counts(r.recs)[q]]
                /\ lastErr' = IF Good(r.recs) # DOMAIN r.recs THEN "failed" ELSE lastErr
                /\ got' = got + 1
    /\ UNCHANGED <<now, ctx, cancelled, lanes, pc, dial, result>>

\* Mutant of ReceiveLane: a record that cannot be read is not an error.
ReceiveLaneLenient ==
    /\ pc = "lanes" /\ results # <<>>
    /\ results' = Tail(results) /\ got' = got + 1
    /\ LET r == Head(results) IN
         IF r.err # "nil"
           THEN lastErr' = (IF lastErr = "nil" THEN r.err ELSE lastErr) /\ UNCHANGED found
           ELSE /\ found' = [q \in Types |-> found[q] + Counts(r.recs)[q]]
                /\ UNCHANGED lastErr
    /\ UNCHANGED <<now, ctx, cancelled, lanes, pc, dial, result>>

ReceiveLane ==
    /\ pc = "lanes" /\ results # <<>>
    /\ results' = Tail(results) /\ got' = got + 1
    /\ LET r == Head(results) IN
         IF r.err # "nil"
           THEN lastErr' = (IF lastErr = "nil" THEN r.err ELSE lastErr) /\ UNCHANGED found
           ELSE /\ found' = [q \in Types |-> found[q] + Counts(r.recs)[q]]
                /\ lastErr' = IF Good(r.recs) # DOMAIN r.recs THEN "failed" ELSE lastErr
    /\ UNCHANGED <<now, ctx, cancelled, lanes, pc, dial, result>>

LookupReturns ==
    /\ pc = "lanes" /\ got = LaneCount
    /\ IF Ordered(found) = <<>> /\ lastErr # "nil" THEN Return("lookup") /\ UNCHANGED dial
                                                 ELSE Addresses(found)
    /\ UNCHANGED <<now, ctx, cancelled, lanes, look>>

-----------------------------------------------------------------------------
(* The loop over the addresses.                                            *)

\* Mutant of partialDeadline: every address may use what is left.
partialDeadlineAll(left) == deadline

\* The share of one of the addresses that are left.
partialDeadline(left) ==
    LET remaining == deadline - now
        share     == remaining \div left
    IN now + CASE share >= SaneMinimum -> share
               [] remaining < SaneMinimum -> remaining
               [] OTHER -> SaneMinimum

\* The select and partialDeadline both see that the time is up; either may be first.
DialTimeUp ==
    /\ pc = "dial" /\ i <= Len(addrs) /\ deadline # 0 /\ now >= deadline
    /\ Return("timeout") \/ (firstErr /\ Return("failed"))
    /\ UNCHANGED <<now, ctx, cancelled, lanes, look, dial>>

DialCancelled ==
    /\ pc = "dial" /\ i <= Len(addrs) /\ cancelled
    /\ Return("cancelled")
    /\ UNCHANGED <<now, ctx, cancelled, lanes, look, dial>>

DialNone ==
    /\ pc = "dial" /\ i > Len(addrs)
    /\ Return(IF firstErr THEN "failed" ELSE "missing")
    /\ UNCHANGED <<now, ctx, cancelled, lanes, look, dial>>

DialAddress ==
    /\ pc = "dial" /\ i <= Len(addrs) /\ ~cancelled /\ (deadline # 0 => now < deadline)
    /\ pc' = "connect" /\ tried' = tried + 1
    /\ until' = IF deadline = 0 THEN 0 ELSE partialDeadline(Len(addrs) - i + 1)
    /\ UNCHANGED <<now, ctx, cancelled, lanes, look, addrs, i, firstErr, began, result>>

Connected ==
    /\ pc = "connect" /\ (until = 0 \/ now < until) /\ (call.proto = "tcp" => ~cancelled)
    /\ Return("conn")
    /\ UNCHANGED <<now, ctx, cancelled, lanes, look, dial>>

Failed ==
    /\ pc' = "dial" /\ i' = i + 1 /\ firstErr' = TRUE
    /\ UNCHANGED <<now, ctx, cancelled, lanes, look, addrs, until, began, tried, result>>

ConnectFails == pc = "connect" /\ Failed

\* DialContextTCPAddrPort returns when dialCtx ends; without a deadline the
\* stack gives up in the end; the other protocols do not wait.
ConnectEnds ==
    /\ pc = "connect"
    /\ until = 0 \/ now >= until \/ cancelled \/ call.proto # "tcp"
    /\ Failed

-----------------------------------------------------------------------------
Cancel ==
    /\ pc # "returned" /\ ~cancelled /\ cancelled' = TRUE
    /\ UNCHANGED <<now, ctx, lanes, look, pc, dial, result>>

Waiting(q) == lanes[q].pc \in {"udp", "dial", "tcp"}

\* Nobody can go on without the clock, and it does not pass a deadline.
Tick ==
    /\ \/ /\ pc = "lanes" /\ results = <<>> /\ \E q \in Types : Waiting(q)
          /\ \A q \in Types : lanes[q].pc # "begin" /\ ~(lanes[q].pc = "dial" /\ cancelled)
          /\ \A q \in Types : Waiting(q) => now < lanes[q].until
       \/ pc = "connect" /\ until # 0 /\ now < until /\ call.proto = "tcp" /\ ~cancelled
    /\ now' = now + 1
    /\ UNCHANGED <<ctx, cancelled, lanes, look, pc, dial, result>>

Lane(q) == LaneBegins(q) \/ ExchangeTimesOut(q)

Dialer == \/ DialBegin \/ LookupAtOnce \/ StartLanes \/ ReceiveLane \/ LookupReturns
          \/ DialTimeUp \/ DialCancelled \/ DialNone \/ DialAddress \/ ConnectEnds

Next ==
    \/ Dialer \/ Connected \/ ConnectFails \/ Cancel \/ Tick
    \/ \E q \in Types : \/ Lane(q) \/ TCPConnected(q) \/ ExchangeFails(q)
                        \/ \E m \in Messages : UDPAnswer(q, m) \/ TCPAnswer(q, m)

Spec == Init /\ [][Next]_vars

\* Goroutines go on and timers fire; the network owes no answer.
LiveSpec == Spec /\ WF_vars(Dialer) /\ WF_vars(Tick) /\ \A q \in Types : WF_vars(Lane(q))

-----------------------------------------------------------------------------
LanePc == {"off", "begin", "udp", "dial", "tcp", "sent"}

\* The values of the variables; the channel never holds more than its capacity,
\* so that no lane blocks on it.
TypeOK ==
    /\ now \in Nat \ {0} /\ net.lanes \subseteq Types /\ net.servers \in Nat
    /\ call.host.addr \in Types \union {"none"} /\ deadline \in Nat /\ cancelled \in BOOLEAN
    /\ lanes \in [Types -> [pc : LanePc, n : Nat, until : Nat]]
    /\ results \in Seq([err : {"nil", "notfound", "failed"}, recs : Seq(Record)])
    /\ got + Len(results) <= LaneCount /\ got \in Nat
    /\ found \in [Types -> Nat] /\ lastErr \in {"nil", "notfound", "failed"}
    /\ pc \in {"call", "lookup", "lanes", "dial", "connect", "returned"}
    /\ addrs \in Seq(Types) /\ i \in Nat \ {0} /\ until \in Nat /\ firstErr \in BOOLEAN
    /\ result \in {"none", "invalid", "lookup", "unsuitable", "timeout", "cancelled",
                   "failed", "missing", "conn"}
    /\ began \in Nat /\ tried \in Nat

\* A lookup asks for what is a domain name by the reference definition, the two
\* length limits and the dot at the end included, and refuses the rest (isDomainName).
QuestionsAreNames ==
    /\ pc = "lanes" => IsName(call.host.name)
    /\ result = "lookup" /\ net.lanes # {} /\ IsName(call.host.name) => \E q \in Types : lanes[q] # Off

\* DialContext never runs past the deadline of its context: neither an exchange
\* nor the share of an address outlasts it (exchange, partialDeadline).
DeadlineKept == deadline # 0 /\ pc # "returned" => now <= deadline

\* A lookup takes two rounds of one UDP and one TCP exchange with every server
\* at most, also when it is cancelled (which only a TCP dial would notice) and when
\* its context has no deadline.
LookupTime == pc = "lanes" => now <= 1 + 4 * net.servers * Timeout

\* A lookup that succeeds has found an address: a lane that succeeds has, the
\* parser nobody started is an error, and so is an answer that cannot be read;
\* errMissingAddress is never returned.
LookupFinds == result # "missing"

\* If one lane finds an address the lookup succeeds, whichever of the two comes
\* first and however the other one fails.
OneLaneIsEnough ==
    result = "lookup" => \A q \in Types : found[q] = 0 /\ lanes[q].pc \in {"off", "sent"} /\ results = <<>>

\* If the time left when the first address is dialled is enough to give every
\* address the minimum, every address is dialled before DialContext gives up.
EveryAddressTried ==
    /\ deadline # 0 /\ ~cancelled /\ result \in {"timeout", "failed"}
    /\ deadline - began >= SaneMinimum * Len(addrs)
    => tried = Len(addrs)

\* Every call returns, whatever the servers and the hosts do or do not do.
CallReturns == <>(pc = "returned")

=============================================================================
