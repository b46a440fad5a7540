------------------------------ MODULE MCNetDial ------------------------------
(* NetDial for TLC: one message for each way an answer is handled, one     *)
(* call for each way through DialContext.                                  *)
EXTENDS NetDial

M(answers) == [rcode |-> "success", recursive |-> TRUE, truncated |-> FALSE,
               extra |-> FALSE, answers |-> answers]

MCMessages ==
    { M(<<"A">>), M(<<"CNAME", "A", "A">>), M(<<"A", "AAAA">>), M(<<"AAAA", "A">>),
      M(<<"A", "broken">>), M(<<"badA">>), M(<<"CNAME", "broken">>), M(<<"broken">>), M(<<>>),
      [M(<<>>) EXCEPT !.recursive = FALSE], [M(<<>>) EXCEPT !.rcode = "nxdomain"],
      [M(<<"A">>) EXCEPT !.rcode = "servfail"], [M(<<"A">>) EXCEPT !.truncated = TRUE],
      [M(<<"A">>) EXCEPT !.extra = TRUE] }

MCNets == {[lanes |-> {"A"}, servers |-> 2], [lanes |-> {"A", "AAAA"}, servers |-> 1],
           [lanes |-> {"A", "AAAA"}, servers |-> 0], [lanes |-> {}, servers |-> 1]}

Named(s) == [addr |-> "none", name |-> s]

Tcp == [proto |-> "tcp", accept |-> {"A", "AAAA"}, address |-> TRUE, host |-> Named(<<"letter">>)]

MCCalls ==
    { Tcp, [Tcp EXCEPT !.proto = "udp"], [Tcp EXCEPT !.proto = "ping", !.accept = {"AAAA"}],
      [Tcp EXCEPT !.proto = "unknown"], [Tcp EXCEPT !.address = FALSE],
      [Tcp EXCEPT !.host = Named(<<>>)], [Tcp EXCEPT !.host = Named(<<"hyphen">>)],
      [Tcp EXCEPT !.host = Named(<<"letter", "dot">>)],
      [Tcp EXCEPT !.host = [addr |-> "A", name |-> <<>>]] }

MCScenarios ==
    {[net |-> n, call |-> c, deadline |-> d] : n \in MCNets, c \in MCCalls, d \in {0, 1, 4, 8}}
    \union
    {[net |-> [lanes |-> {"A"}, servers |-> 0], call |-> [Tcp EXCEPT !.host = Named(s)], deadline |-> 0] :
        s \in UNION {[1..n -> Classes] : n \in 0..(MaxName + 1)}}
=============================================================================
