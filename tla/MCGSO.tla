-------------------------------- MODULE MCGSO --------------------------------
(***************************************************************************)
(* GSO for TLC: every payload length and segment size around the number of *)
(* buffers, a sequence number and an IPv4 ID close to their wraparound,    *)
(* one read for each way a header is refused, and segments of 52 bytes,    *)
(* which do not fit.  16-bit arithmetic is done modulo U16 = 64, so that   *)
(* lengths up to the largest one fit.                                      *)
(***************************************************************************)
EXTENDS GSO

Read(gso, ver, len, gsoSize, fin, psh) ==
    [vnet |-> TRUE, gso |-> gso, ver |-> ver, len |-> len, csumStart |-> 20,
     csumOffset |-> IF gso = "udp" THEN 6 ELSE 16, tcpHLen |-> 20, gsoSize |-> gsoSize,
     seq |-> U32 - 2, id |-> U16 - 2, fin |-> fin, psh |-> psh]

Hdr(gso) == IF gso = "udp" THEN 28 ELSE 40

Splits == {Read(g.gso, g.ver, Hdr(g.gso) + payload, size, fin, psh) :
              g \in {[gso |-> "tcp4", ver |-> 4], [gso |-> "tcp6", ver |-> 6],
                     [gso |-> "udp", ver |-> 4], [gso |-> "udp", ver |-> 6]},
              payload \in 1..10 \cup {23}, size \in 0..8 \cup {12}, fin \in BOOLEAN, psh \in BOOLEAN}

Base == Read("tcp4", 4, 44, 2, FALSE, FALSE)

Others ==
    { Read("none", 4, 10, 0, FALSE, TRUE), Read("none", 4, 60, 0, FALSE, FALSE),
      [Read("none", 4, 10, 0, TRUE, FALSE) EXCEPT !.vnet = FALSE],
      [Read("none", 4, 60, 0, FALSE, FALSE) EXCEPT !.vnet = FALSE],
      Read("other", 4, 44, 2, FALSE, FALSE),
      Read("tcp6", 4, 44, 2, FALSE, FALSE), Read("tcp4", 6, 44, 2, FALSE, FALSE),
      Read("udp", 0, 44, 2, FALSE, FALSE),
      [Base EXCEPT !.len = 32], [Base EXCEPT !.tcpHLen = 16], [Base EXCEPT !.tcpHLen = 28],
      [Base EXCEPT !.tcpHLen = 60],
      [Base EXCEPT !.csumStart = 56], [Base EXCEPT !.csumOffset = 24] }

MCReads == Splits \cup Others
=============================================================================
