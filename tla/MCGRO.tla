-------------------------------- MODULE MCGRO --------------------------------
(***************************************************************************)
(* GRO for TLC.  Each set of packets has the combinations that interact    *)
(* and one packet for each way out of the evaluation.                      *)
(***************************************************************************)
EXTENDS GRO

CONSTANTS f1, f2,  \* flows
          h1, h2   \* headers

Packet(proto, seq, len, flags) ==
    [proto |-> proto, flow |-> f1, hdr |-> h1, seq |-> seq, len |-> len,
     flags |-> flags, valid |-> TRUE, csum |-> TRUE, room |-> 8, offsetOK |-> TRUE]

T(seq, len) == Packet("tcp", seq, len, "ack")
U(len)      == Packet("udp", 0, len, "ack")

\* Segments around the wraparound of the sequence space (64), of two sizes.
Segs == {T(seq, len) : seq \in {61, 63, 0, 1}, len \in {1, 2}}
        \cup {Packet("tcp", 63, 1, "psh")}

TCPPackets ==
    Segs \cup
    { [T(63, 1) EXCEPT !.csum = FALSE],
      [T(63, 1) EXCEPT !.hdr = h2], [T(63, 1) EXCEPT !.room = 1],
      [T(63, 1) EXCEPT !.flow = f2], T(63, 0),
      [T(63, 1) EXCEPT !.flags = "other"], [T(0, 1) EXCEPT !.valid = FALSE],
      U(1) }

\* Datagrams, and packets of the other kinds in the same calls.
MixedPackets ==
    { U(0), U(1), U(2),
      [U(1) EXCEPT !.csum = FALSE], [U(2) EXCEPT !.csum = FALSE],
      [U(1) EXCEPT !.hdr = h2], [U(2) EXCEPT !.room = 3],
      [U(1) EXCEPT !.flow = f2],
      [U(1) EXCEPT !.offsetOK = FALSE],
      T(62, 1), T(63, 1), Packet("other", 0, 1, "ack") }

PacketsOf ==
    [m \in {"none", "tcp", "tcp+udp"} |->
        CASE m = "none" -> {U(1), [U(1) EXCEPT !.offsetOK = FALSE]}
          [] m = "tcp" -> TCPPackets
          [] OTHER -> MixedPackets]
=============================================================================
