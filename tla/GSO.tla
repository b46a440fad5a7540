--------------------------------- MODULE GSO ---------------------------------
(***************************************************************************)
(* The read path of the Linux TUN device: NativeTun.Read and               *)
(* handleVirtioRead (tun_linux.go), gsoSplit and gsoNoneChecksum           *)
(* (offload_linux.go).  The kernel hands over one packet, or one oversized *)
(* packet with a virtio header asking for segmentation; gsoSplit cuts it   *)
(* into the caller's buffers in a loop, one step of this model each.       *)
(*                                                                         *)
(* What is read is a record: vnet (the device has virtio headers), gso     *)
(* ("none", "tcp4", "tcp6", "udp", "other"), ver (the IP version nibble),  *)
(* len (bytes after the virtio header),                                    *)
(* csumStart, csumOffset, tcpHLen, gsoSize, and the header fields that     *)
(* segmentation touches: seq, id, fin, psh.  A segment's payload is the    *)
(* range [from, to) of the bytes read.  Checksums over the bytes are not   *)
(* modelled.                                                               *)
(***************************************************************************)
EXTENDS Integers, Sequences

CONSTANTS Reads,     \* what the kernel can hand over
          NumBufs,   \* len(bufs)
          BufLen,    \* len(bufs[i][offset:]), and its capacity: bufs[i] is a whole buffer
          U16, U32   \* 2^16 and 2^32

ASSUME GSOAssumption ==
    /\ NumBufs \in Nat \ {0} /\ BufLen \in Nat
    /\ U16 \in Nat \ {0} /\ U32 \in Nat \ {0}
    /\ \A r \in Reads :
          /\ r.vnet \in BOOLEAN
          /\ r.gso \in {"none", "tcp4", "tcp6", "udp", "other"}
          /\ ~r.vnet => r.gso = "none"
          /\ r.fin \in BOOLEAN /\ r.psh \in BOOLEAN
          /\ r.len \in 0..(U16 - 1)        \* it fits in readBuff
          /\ r.gsoSize \in 0..(U16 - 1) /\ r.id \in 0..(U16 - 1)
          /\ r.csumStart \in 0..(U16 - 1) /\ r.csumOffset \in 0..(U16 - 1)
          /\ r.tcpHLen \in 0..60
          /\ r.seq \in 0..(U32 - 1)

VARIABLES
    phase,    \* "read", "split", "done" or "panicked"
    packet,   \* what was read: in
    hdrLen,   \* hdr.hdrLen: IP and transport header
    written,  \* i: segments written
    at,       \* nextSegmentDataAt
    out,      \* the populated buffers
    sizes,    \* sizes[k]
    ret       \* what Read returned: [n, err]

readVars == <<phase, packet, hdrLen, written, at, out, sizes, ret>>

ReadInit ==
    /\ phase = "read"
    /\ packet \in Reads
    /\ hdrLen = 0 /\ written = 0 /\ at = 0
    /\ out = <<>> /\ sizes = <<>>
    /\ ret = [n |-> 0, err |-> "nil"]

ReadReturns(n, err) == phase' = "done" /\ ret' = [n |-> n, err |-> err]

Fail(err) == ReadReturns(0, err) /\ UNCHANGED <<packet, hdrLen, written, at, out, sizes>>

-----------------------------------------------------------------------------
(* handleVirtioRead.                                                       *)

\* The transport header ends where the header the segments share ends.
headerLen(r) == IF r.gso = "udp" THEN (r.csumStart + 8) % U16
                                 ELSE (r.csumStart + r.tcpHLen) % U16

\* The version nibble must fit the segmentation type.
versionFits(r) == \/ r.ver = 4 /\ r.gso \in {"tcp4", "udp"}
                  \/ r.ver = 6 /\ r.gso \in {"tcp6", "udp"}

headerFits(r) ==
    /\ r.gso # "udp" => /\ r.len > (r.csumStart + 12) % U16
                        /\ r.tcpHLen \in 20..60
    /\ r.len >= headerLen(r)
    /\ headerLen(r) >= r.csumStart
    /\ ((r.csumStart + r.csumOffset) % U16) + 1 < r.len

\* The netlink listener left an error, the file is closed (EBADFD) or fails
\* otherwise, or the virtio header is short.
ReadFails ==
    /\ phase = "read"
    /\ \E err \in {"listener error", "closed", "read error", "short buffer"} : Fail(err)

\* Without virtio headers the kernel fills the first buffer and drops the rest.
ReadPlain ==
    /\ phase = "read" /\ ~packet.vnet
    /\ LET n == IF packet.len > BufLen THEN BufLen ELSE packet.len IN
       /\ out' = <<[from |-> 0, to |-> n, seq |-> packet.seq, id |-> packet.id,
                    fin |-> packet.fin, psh |-> packet.psh]>>
       /\ sizes' = <<n>>
    /\ ReadReturns(1, "nil")
    /\ UNCHANGED <<packet, hdrLen, written, at>>

\* One packet, nothing to cut; gsoNoneChecksum completes its checksum in place.
ReadOne ==
    /\ phase = "read" /\ packet.vnet /\ packet.gso = "none"
    /\ IF packet.len > BufLen
         THEN Fail("overflows bufs element")
         ELSE /\ out' = <<[from |-> 0, to |-> packet.len, seq |-> packet.seq, id |-> packet.id,
                           fin |-> packet.fin, psh |-> packet.psh]>>
              /\ sizes' = <<packet.len>>
              /\ ReadReturns(1, "nil")
              /\ UNCHANGED <<packet, hdrLen, written, at>>

ReadRejected ==
    /\ phase = "read" /\ packet.gso # "none"
    /\ packet.gso = "other" \/ ~versionFits(packet) \/ ~headerFits(packet)
    /\ Fail("bad header")

\* gsoSplit is entered: the cursor is behind the headers.
SplitStart ==
    /\ phase = "read" /\ packet.gso \in {"tcp4", "tcp6", "udp"}
    /\ versionFits(packet) /\ headerFits(packet)
    /\ phase' = "split"
    /\ hdrLen' = headerLen(packet)
    /\ at' = headerLen(packet)
    /\ UNCHANGED <<packet, written, out, sizes, ret>>

-----------------------------------------------------------------------------
(* gsoSplit.                                                               *)

isTCP == packet.gso \in {"tcp4", "tcp6"}

segmentEnd == IF at + packet.gsoSize > packet.len THEN packet.len ELSE at + packet.gsoSize

\* Mutant of segment: the offset is the number of segments times their length.
segmentByLength ==
    [from |-> at, to |-> segmentEnd,
     seq |-> IF isTCP THEN (packet.seq + (((segmentEnd - at) * written) % U16)) % U32
                     ELSE packet.seq,
     id  |-> IF packet.ver = 4 THEN (packet.id + written) % U16 ELSE packet.id,
     fin |-> isTCP /\ packet.fin /\ segmentEnd = packet.len,
     psh |-> isTCP /\ packet.psh /\ segmentEnd = packet.len]

\* The buffer the loop populates: the product gsoSize * i is a uint16.
segment ==
    [from |-> at, to |-> segmentEnd,
     seq |-> IF isTCP THEN (packet.seq + ((packet.gsoSize * written) % U16)) % U32
                     ELSE packet.seq,
     id  |-> IF packet.ver = 4 THEN (packet.id + written) % U16 ELSE packet.id,
     fin |-> isTCP /\ packet.fin /\ segmentEnd = packet.len,
     psh |-> isTCP /\ packet.psh /\ segmentEnd = packet.len]

\* Mutant of TooManySegments: the check is one segment late.
TooManySegmentsLate ==
    /\ phase = "split" /\ at < packet.len /\ written = NumBufs + 1
    /\ ReadReturns(written - 1, "ErrTooManySegments")
    /\ UNCHANGED <<packet, hdrLen, written, at, out, sizes>>

TooManySegments ==
    /\ phase = "split" /\ at < packet.len /\ written = NumBufs
    /\ ReadReturns(written - 1, "ErrTooManySegments")
    /\ UNCHANGED <<packet, hdrLen, written, at, out, sizes>>

\* The buffer holds the headers and the payload.
segmentFits == hdrLen + (segmentEnd - at) <= BufLen

SplitSegment ==
    /\ phase = "split" /\ at < packet.len /\ written # NumBufs /\ segmentFits
    /\ out' = Append(out, segment)
    /\ sizes' = Append(sizes, hdrLen + (segmentEnd - at))
    /\ at' = at + packet.gsoSize
    /\ written' = written + 1
    /\ UNCHANGED <<phase, packet, hdrLen, ret>>

\* A segment longer than its buffer: slicing out[csumStart:totalLen], or out before
\* that for the headers, is out of range.
SplitPanics ==
    /\ phase = "split" /\ at < packet.len /\ written # NumBufs /\ ~segmentFits
    /\ phase' = "panicked"
    /\ UNCHANGED <<packet, hdrLen, written, at, out, sizes, ret>>

\* Mutant of SplitReturns: the short segment at the end is dropped.
SplitReturnsEarly ==
    /\ phase = "split" /\ at + packet.gsoSize > packet.len
    /\ ReadReturns(written, "nil")
    /\ UNCHANGED <<packet, hdrLen, written, at, out, sizes>>

SplitReturns ==
    /\ phase = "split" /\ at >= packet.len
    /\ ReadReturns(written, "nil")
    /\ UNCHANGED <<packet, hdrLen, written, at, out, sizes>>

ReadNext == \/ ReadFails \/ ReadPlain \/ ReadOne \/ ReadRejected \/ SplitStart
            \/ TooManySegments \/ SplitSegment \/ SplitPanics \/ SplitReturns

ReadSpec == ReadInit /\ [][ReadNext]_readVars

\* The goroutine that called Read is run.
ReadLiveSpec == ReadSpec /\ WF_readVars(ReadNext)

-----------------------------------------------------------------------------
Outs == [from : Nat, to : Nat, seq : 0..(U32 - 1), id : 0..(U16 - 1),
         fin : BOOLEAN, psh : BOOLEAN]

(* ReadTypeOK: the loop's variables hold values of their types; the cursor *)
(* and the counter stay where the packet can be sliced and bufs indexed.   *)
ReadTypeOK ==
    /\ phase \in {"read", "split", "done", "panicked"}
    /\ packet \in Reads
    /\ hdrLen \in 0..packet.len
    /\ written \in 0..NumBufs
    /\ at \in Nat
    /\ out \in Seq(Outs) /\ sizes \in Seq(Nat)
    /\ ret.n \in Int

(* The segment the k-th buffer must hold, counted from 1: a full segment   *)
(* at its place in the stream of bytes, the last one what is left.         *)
Reference(k) ==
    LET from == hdrLen + (k - 1) * packet.gsoSize
        last == hdrLen + k * packet.gsoSize >= packet.len
    IN [from |-> from,
        to   |-> IF last THEN packet.len ELSE from + packet.gsoSize,
        seq  |-> IF isTCP THEN (packet.seq + (from - hdrLen)) % U32 ELSE packet.seq,
        id   |-> IF packet.ver = 4 THEN (packet.id + (k - 1)) % U16 ELSE packet.id,
        fin  |-> isTCP /\ packet.fin /\ last,
        psh  |-> isTCP /\ packet.psh /\ last]

(* SplitExact: in every state of the loop, and so also when it ends with   *)
(* an error, each populated buffer is the segment it must be: the right    *)
(* bytes, a sequence number that counts the bytes before it although the   *)
(* code multiplies in 16 bits, FIN and PSH on the last segment only, and a *)
(* size that covers headers and payload.                                   *)
SplitExact ==
    phase = "split" \/ (phase = "done" /\ packet.gso # "none") =>
        /\ Len(sizes) = Len(out)
        /\ \A k \in 1..Len(out) : /\ out[k] = Reference(k)
                                  /\ sizes[k] = hdrLen + (out[k].to - out[k].from)

(* NothingLost: a Read that reports success has handed over every byte of  *)
(* the packet: the last segment ends where the packet ends, and the count  *)
(* returned is that of the buffers populated.                              *)
NothingLost ==
    phase = "done" /\ ret.err = "nil" =>
        /\ ret.n = Len(out)
        /\ packet.gso # "none" => hdrLen + Len(out) * packet.gsoSize >= packet.len

(* Terminates: the loop ends, also for a gsoSize of zero, which never      *)
(* moves the cursor: Read returns, or a segment does not fit its buffer    *)
(* and the process dies.                                                   *)
Terminates == <>(phase \in {"done", "panicked"})

(* CountsPopulated: "It returns the number of buffers populated, and/or an *)
(* error." (gsoSplit)                                                      *)
CountsPopulated ==
    phase = "done" /\ ret.err = "ErrTooManySegments" => ret.n = Len(out)

-----------------------------------------------------------------------------
\* The loop's invariant: the cursor is written segments behind the headers.
Cursor ==
    /\ phase = "read" => written = 0 /\ out = <<>> /\ sizes = <<>>
    /\ phase = "split" => /\ at = hdrLen + written * packet.gsoSize
                          /\ Len(out) = written /\ packet.gso # "none"

ReadIInv == ReadTypeOK /\ Cursor /\ SplitExact /\ NothingLost
=============================================================================
