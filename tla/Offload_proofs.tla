--------------------------- MODULE Offload_proofs ---------------------------
(***************************************************************************)
(* Proofs about the Linux offloads, GSO and GRO, for every packet and any  *)
(* number of buffers, calls and packets in a call.                         *)
(*                                                                         *)
(* GSO (the read path): the loop of gsoSplit populates exactly the         *)
(* segments the packet stands for, and loses no byte when it succeeds.     *)
(*                                                                         *)
(* GRO (the write path): what the kernel cuts out of the buffers that      *)
(* Write wrote is, packet for packet, what was passed to Write. The        *)
(* inductive invariant names what no variable of the code records: for     *)
(* each buffer that will be written, the list of the packets in it. While  *)
(* handleGRO's loop runs (Groups), these lists divide the packets of the   *)
(* call; each buffer holds the packets of its list one behind the other,   *)
(* all but the last of the same size, each where the sequence number says; *)
(* an item of a table describes one buffer, and a buffer without an item   *)
(* holds one packet and a zeroed virtio header. The parts: what one merge  *)
(* makes of a list (HoldsAppend, HoldsPrepend), what one step of a list    *)
(* makes of the division (OwnStep, JoinStep, PruneStep), what tcpGRO and   *)
(* udpGRO do (TcpOutcome, UdpOutcome), the loop's step (EvaluateGroups),   *)
(* what the kernel cuts (AllCut, FlatPackets) and the actions (GroStep).   *)
(*                                                                         *)
(* The order within a flow is a property of the same lists (FlowsOrdered). *)
(* A datagram joins the flow's last item, and no buffer behind that one    *)
(* holds a datagram of the flow (UdpLast). A segment that continues its    *)
(* stream fits behind the segment before it and nowhere else, because the  *)
(* bytes of a call are fewer than the sequence numbers (StreamAssumption). *)
(***************************************************************************)
EXTENDS GSO, GRO, FiniteSetTheorems, WellFoundedInduction, NaturalsInduction, TLAPS

-----------------------------------------------------------------------------
(* GSO: the read path.                                                     *)

\* The cursor's arithmetic: the next segment starts one segment size on.
LEMMA NextOffset ==
    ASSUME NEW g \in Nat, NEW n \in Nat
    PROVE  (n + 1) * g = n * g + g /\ n * g \in Nat
OBVIOUS

\* A number below the modulus is its own remainder: the 16-bit product of
\* gsoSplit is exact while the cursor is inside the packet.
LEMMA NoWrap ==
    ASSUME NEW m \in Nat, NEW n \in 0..(m - 1)
    PROVE  n % m = n
OBVIOUS

\* A remainder is smaller than the modulus.
LEMMA ModRange ==
    ASSUME NEW m \in Nat \ {0}, NEW n \in Int
    PROVE  n % m \in 0..(m - 1)
OBVIOUS

\* The fields of what is read, from the assumption on Reads.
LEMMA PacketTypes ==
    ASSUME packet \in Reads
    PROVE  /\ packet.len \in 0..(U16 - 1) /\ packet.gsoSize \in Nat /\ packet.seq \in Nat /\ packet.id \in Nat
           /\ packet.seq \in 0..(U32 - 1) /\ packet.id \in 0..(U16 - 1)
           /\ packet.csumStart \in Nat /\ packet.tcpHLen \in Nat
           /\ packet.fin \in BOOLEAN /\ packet.psh \in BOOLEAN
           /\ U16 \in Nat \ {0} /\ U32 \in Nat \ {0} /\ NumBufs \in Nat \ {0}
<1>1. U16 \in Nat \ {0} /\ U32 \in Nat \ {0} /\ NumBufs \in Nat \ {0}
  BY GSOAssumption
<1>2. /\ packet.len \in 0..(U16 - 1) /\ packet.gsoSize \in 0..(U16 - 1) /\ packet.id \in 0..(U16 - 1)
      /\ packet.seq \in 0..(U32 - 1) /\ packet.csumStart \in 0..(U16 - 1) /\ packet.tcpHLen \in 0..60
      /\ packet.fin \in BOOLEAN /\ packet.psh \in BOOLEAN
  BY GSOAssumption
<1> QED
  BY <1>1, <1>2

\* The arithmetic of one round of the loop: a is the cursor after n segments
\* of g bytes behind h header bytes, in a packet of len bytes.
LEMMA RoundArithmetic ==
    ASSUME NEW g \in Nat, NEW n \in Nat, NEW h \in Nat, NEW len \in Nat, NEW a \in Nat,
           a = h + n * g, a < len
    PROVE  /\ h + ((n + 1) - 1) * g = a
           /\ h + (n + 1) * g >= len <=> a + g >= len
           /\ g * n = a - h
           /\ a - h \in 0..(len - 1)
<1> DEFINE x == n * g
<1>1. x \in Nat /\ (n + 1) * g = x + g /\ g * n = x
  OBVIOUS
<1>2. (n + 1) - 1 = n
  OBVIOUS
<1>3. h + ((n + 1) - 1) * g = h + x
  BY <1>2
<1>4. a = h + x
  OBVIOUS
<1> HIDE DEF x
<1> QED
  BY <1>1, <1>3, <1>4

\* Inside the loop, what is written is the segment the reference asks for.
LEMMA SegmentIsReference ==
    ASSUME ReadTypeOK, Cursor, phase = "split", at < packet.len
    PROVE  segment = Reference(written + 1) /\ segment \in Outs
<1>1. /\ packet \in Reads /\ written \in 0..NumBufs /\ hdrLen \in 0..packet.len /\ at \in Nat
      /\ at = hdrLen + written * packet.gsoSize
  BY DEF ReadTypeOK, Cursor
<1>2. /\ packet.len \in 0..(U16 - 1) /\ packet.gsoSize \in Nat
      /\ packet.seq \in 0..(U32 - 1) /\ packet.id \in 0..(U16 - 1)
      /\ packet.fin \in BOOLEAN /\ packet.psh \in BOOLEAN
      /\ U16 \in Nat \ {0} /\ U32 \in Nat \ {0} /\ NumBufs \in Nat \ {0}
  BY <1>1, PacketTypes
<1>3. written \in Nat /\ hdrLen \in Nat /\ packet.len \in Nat
  BY <1>1, <1>2
<1> DEFINE g == packet.gsoSize
           len == packet.len
           seq == packet.seq
           ident == packet.id
<1>4. /\ hdrLen + ((written + 1) - 1) * g = at
      /\ hdrLen + (written + 1) * g >= len <=> at + g >= len
      /\ g * written = at - hdrLen
      /\ at - hdrLen \in 0..(len - 1)
  BY <1>1, <1>2, <1>3, RoundArithmetic
<1>5. g \in Nat /\ len \in 0..(U16 - 1) /\ seq \in 0..(U32 - 1) /\ ident \in 0..(U16 - 1) /\ at < len
  BY <1>2
<1>6. segmentEnd = IF at + g > len THEN len ELSE at + g
  BY DEF segmentEnd
<1> HIDE DEF g, len, seq, ident
<1>7. (g * written) % U16 = at - hdrLen
  <2>1. at - hdrLen \in 0..(U16 - 1)
    BY <1>2, <1>4, <1>5
  <2> QED
    BY <1>2, <1>4, <2>1, NoWrap
<1>8. /\ hdrLen + (written + 1) * g >= len <=> segmentEnd = len
      /\ segmentEnd = IF hdrLen + (written + 1) * g >= len THEN len ELSE at + g
      /\ segmentEnd \in Nat
  <2>1. hdrLen + (written + 1) * g >= len <=> at + g >= len
    BY <1>4
  <2> HIDE <1>4
  <2> QED
    BY <1>1, <1>5, <1>6, <2>1
<1>9. segment = Reference(written + 1)
  <2>1. (written + 1) - 1 = written
    BY <1>3
  <2> QED
    BY <1>4, <1>7, <1>8, <2>1 DEF segment, Reference, g, len
<1>10. segment \in Outs
  <2>1. (seq + (at - hdrLen)) % U32 \in 0..(U32 - 1)
    <3>1. seq + (at - hdrLen) \in Int
      BY <1>1, <1>3, <1>5
    <3> QED
      BY <1>2, <3>1, ModRange
  <2>2. (ident + written) % U16 \in 0..(U16 - 1)
    <3>1. ident + written \in Int
      BY <1>3, <1>5
    <3> QED
      BY <1>2, <3>1, ModRange
  <2>3. (packet.seq + ((packet.gsoSize * written) % U16)) % U32 \in 0..(U32 - 1)
    BY <1>7, <2>1 DEF g, seq
  <2>4. (packet.id + written) % U16 \in 0..(U16 - 1)
    BY <2>2 DEF ident
  <2> QED
    BY <1>1, <1>2, <1>8, <2>3, <2>4 DEF segment, Outs, isTCP
<1> QED
  BY <1>9, <1>10

\* Nothing is written before the packet was read.
LEMMA ReadInitIInv == ReadInit => ReadIInv
<1> SUFFICES ASSUME ReadInit PROVE ReadIInv
  OBVIOUS
<1> USE DEF ReadInit
<1>1. ReadTypeOK
  BY PacketTypes DEF ReadTypeOK
<1> QED
  BY <1>1 DEF ReadIInv, Cursor, SplitExact, NothingLost

\* Every step of Read and of the loop preserves the invariant.
LEMMA ReadNextIInv == ReadIInv /\ [ReadNext]_readVars => ReadIInv'
<1> SUFFICES ASSUME ReadIInv, [ReadNext]_readVars PROVE ReadIInv'
  OBVIOUS
<1> USE DEF ReadIInv
<1>1. ASSUME NEW e, e # "nil", phase = "read", Fail(e) PROVE ReadIInv'
  <2>1. ReadTypeOK' /\ Cursor'
    BY <1>1 DEF ReadTypeOK, Cursor, Fail, ReadReturns
  <2>2. SplitExact' /\ NothingLost'
    BY <1>1 DEF Cursor, Fail, ReadReturns, SplitExact, NothingLost
  <2> QED
    BY <2>1, <2>2
<1>2. CASE ReadFails
  BY <1>1, <1>2 DEF ReadFails
<1>3. CASE ReadOne
  <2>1. CASE packet.len > BufLen
    BY <1>1, <1>3, <2>1 DEF ReadOne
  <2>2. CASE ~(packet.len > BufLen)
    <3> DEFINE o == [from |-> 0, to |-> packet.len, seq |-> packet.seq, id |-> packet.id,
                     fin |-> packet.fin, psh |-> packet.psh]
    <3>1. out' = <<o>> /\ sizes' = <<packet.len>> /\ phase' = "done" /\ ret' = [n |-> 1, err |-> "nil"]
          /\ UNCHANGED <<packet, hdrLen, written, at>> /\ packet.gso = "none"
      BY <1>3, <2>2 DEF ReadOne, ReadReturns
    <3>2. o \in Outs /\ packet.len \in Nat
      BY PacketTypes DEF ReadTypeOK, Outs
    <3> HIDE DEF o
    <3>3. ReadTypeOK' /\ Cursor'
      BY <3>1, <3>2 DEF ReadTypeOK, Cursor
    <3>4. SplitExact' /\ NothingLost'
      BY <3>1 DEF SplitExact, NothingLost
    <3> QED
      BY <3>3, <3>4
  <2> QED
    BY <2>1, <2>2
<1>10. CASE ReadPlain
  <2> DEFINE n == IF packet.len > BufLen THEN BufLen ELSE packet.len
             o == [from |-> 0, to |-> n, seq |-> packet.seq, id |-> packet.id,
                   fin |-> packet.fin, psh |-> packet.psh]
  <2>1. out' = <<o>> /\ sizes' = <<n>> /\ phase' = "done" /\ ret' = [n |-> 1, err |-> "nil"]
        /\ UNCHANGED <<packet, hdrLen, written, at>> /\ packet.gso = "none"
    BY <1>10, GSOAssumption DEF ReadPlain, ReadReturns, ReadTypeOK
  <2>2. o \in Outs /\ n \in Nat
    BY PacketTypes, GSOAssumption DEF ReadTypeOK, Outs
  <2> HIDE DEF o, n
  <2>3. ReadTypeOK' /\ Cursor'
    BY <2>1, <2>2 DEF ReadTypeOK, Cursor
  <2>4. SplitExact' /\ NothingLost'
    BY <2>1 DEF SplitExact, NothingLost
  <2> QED
    BY <2>3, <2>4
<1>4. CASE ReadRejected
  BY <1>1, <1>4 DEF ReadRejected
<1>5. CASE SplitStart
  <2>1. headerLen(packet) \in 0..packet.len
    <3>0. packet \in Reads
      BY DEF ReadTypeOK
    <3>1. headerLen(packet) \in Nat
      <4>1. packet.csumStart + 8 \in Int /\ packet.csumStart + packet.tcpHLen \in Int /\ U16 \in Nat \ {0}
        BY <3>0, PacketTypes
      <4>2. /\ (packet.csumStart + 8) % U16 \in 0..(U16 - 1)
            /\ (packet.csumStart + packet.tcpHLen) % U16 \in 0..(U16 - 1)
        BY <4>1, ModRange
      <4> QED
        BY <4>1, <4>2 DEF headerLen
    <3> QED
      BY <1>5, <3>1, PacketTypes DEF ReadTypeOK, SplitStart, headerFits
  <2>2. ReadTypeOK'
    BY <1>5, <2>1, PacketTypes DEF ReadTypeOK, SplitStart
  <2>3. Cursor'
    BY SMTT(30), <1>5, <2>1, PacketTypes DEF ReadTypeOK, Cursor, SplitStart
  <2>4. SplitExact' /\ NothingLost'
    BY <1>5 DEF Cursor, SplitStart, SplitExact, NothingLost
  <2> QED
    BY <2>2, <2>3, <2>4
<1>6. CASE TooManySegments
  <2>1. ReadTypeOK' /\ Cursor'
    BY <1>6, PacketTypes DEF ReadTypeOK, Cursor, TooManySegments, ReadReturns
  <2>2. SplitExact' /\ NothingLost'
    BY <1>6 DEF ReadTypeOK, TooManySegments, ReadReturns, SplitExact, NothingLost, Reference, isTCP
  <2> QED
    BY <2>1, <2>2
<1>7. CASE SplitSegment
  <2>1. segment = Reference(written + 1) /\ segment \in Outs
    BY <1>7, SegmentIsReference DEF SplitSegment
  <2>2. /\ packet.gsoSize \in Nat /\ written \in Nat /\ hdrLen \in Nat /\ packet.len \in Nat
        /\ NumBufs \in Nat /\ at \in Nat
    BY PacketTypes DEF ReadTypeOK
  <2>3. segmentEnd \in Nat /\ segmentEnd >= at
    BY SMTT(30), <1>7, <2>2 DEF SplitSegment, segmentEnd
  <2>4. ReadTypeOK'
    BY SMTT(30), <1>7, <2>1, <2>2, <2>3 DEF ReadTypeOK, SplitSegment
  <2>5. Cursor'
    <3>1. (written + 1) * packet.gsoSize = written * packet.gsoSize + packet.gsoSize /\ written * packet.gsoSize \in Nat
      BY <2>2, NextOffset
    <3>2. at' = hdrLen' + written' * packet'.gsoSize
      BY SMTT(30), <1>7, <2>2, <3>1 DEF Cursor, SplitSegment
    <3> QED
      BY SMTT(30), <1>7, <3>2 DEF ReadTypeOK, Cursor, SplitSegment
  <2>6. SplitExact'
    <3>1. /\ out' = Append(out, segment) /\ Len(out) = written /\ Len(sizes) = written
          /\ sizes' = Append(sizes, hdrLen + (segmentEnd - at))
          /\ UNCHANGED <<packet, hdrLen>>
      BY <1>7 DEF SplitSegment, Cursor, SplitExact
    <3>2. segment.to = segmentEnd /\ segment.from = at
      BY DEF segment
    <3>3. Len(out') = written + 1 /\ Len(sizes') = written + 1
      BY <3>1 DEF ReadTypeOK
    <3>4. ASSUME NEW k \in 1..(written + 1)
          PROVE  out'[k] = Reference(k) /\ sizes'[k] = hdrLen + (out'[k].to - out'[k].from)
      <4>1. CASE k = written + 1
        BY <2>1, <3>1, <3>2, <4>1 DEF ReadTypeOK
      <4>2. CASE k # written + 1
        <5>1. k \in 1..Len(out)
          BY <2>2, <3>1, <4>2
        <5>2. out'[k] = out[k] /\ sizes'[k] = sizes[k]
          BY <3>1, <5>1 DEF ReadTypeOK
        <5> QED
          BY <1>7, <5>1, <5>2 DEF SplitExact, SplitSegment
      <4> QED
        BY <4>1, <4>2
    <3>5. \A k : Reference(k)' = Reference(k)
      BY <3>1 DEF Reference, isTCP
    <3> QED
      BY <3>1, <3>3, <3>4, <3>5 DEF SplitExact
  <2>7. NothingLost'
    BY <1>7 DEF SplitSegment, NothingLost
  <2> QED
    BY <2>4, <2>5, <2>6, <2>7
<1>8. CASE SplitReturns
  <2>1. ReadTypeOK' /\ Cursor'
    BY <1>8 DEF ReadTypeOK, Cursor, SplitReturns, ReadReturns
  <2>2. SplitExact'
    BY <1>8 DEF SplitReturns, SplitExact, Reference, isTCP
  <2>3. /\ at >= packet.len /\ at = hdrLen + written * packet.gsoSize /\ Len(out) = written
        /\ ret' = [n |-> written, err |-> "nil"] /\ UNCHANGED <<packet, hdrLen, out>>
    BY <1>8 DEF SplitReturns, ReadReturns, Cursor
  <2>4. NothingLost'
    BY <2>3 DEF NothingLost
  <2> QED
    BY <2>1, <2>2, <2>4
<1>11. CASE SplitPanics
  <2>1. ReadTypeOK' /\ Cursor' /\ NothingLost'
    BY <1>11 DEF ReadTypeOK, SplitPanics, Cursor, NothingLost
  <2>2. SplitExact'
    BY <1>11 DEF SplitPanics, SplitExact
  <2> QED
    BY <2>1, <2>2
<1>9. CASE UNCHANGED readVars
  <2>1. UNCHANGED <<phase, packet, hdrLen, written, at, out, sizes, ret>>
    BY <1>9 DEF readVars
  <2>2. ReadTypeOK' /\ Cursor' /\ NothingLost'
    BY <2>1 DEF ReadTypeOK, Cursor, NothingLost
  <2>3. SplitExact'
    BY <2>1 DEF SplitExact, Reference, isTCP
  <2> QED
    BY <2>2, <2>3
<1> QED
  BY <1>2, <1>3, <1>4, <1>5, <1>6, <1>7, <1>8, <1>9, <1>10, <1>11 DEF ReadNext

\* The invariant holds in every state of a Read.
LEMMA ReadInvariance == ReadSpec => []ReadIInv
BY ReadInitIInv, ReadNextIInv, PTL DEF ReadSpec

\* Type correctness: the cursor and the counter of segments stay where the packet
\* can be sliced and bufs be indexed.
THEOREM ReadTypeCorrect == ReadSpec => []ReadTypeOK
<1>1. ReadIInv => ReadTypeOK
  BY DEF ReadIInv
<1> QED
  BY <1>1, ReadInvariance, PTL

\* gsoSplit populates exactly the segments the packet stands for.
THEOREM SplitCorrect == ReadSpec => []SplitExact
<1>1. ReadIInv => SplitExact
  BY DEF ReadIInv
<1> QED
  BY <1>1, ReadInvariance, PTL

\* A successful Read hands over every byte and counts its buffers.
THEOREM ReadComplete == ReadSpec => []NothingLost
<1>1. ReadIInv => NothingLost
  BY DEF ReadIInv
<1> QED
  BY <1>1, ReadInvariance, PTL

-----------------------------------------------------------------------------
(* GRO: the parts of the invariant of handleGRO's loop.  pk are the packets *)
(* of the call, bs its buffers, ts the items of the tables.                *)

AllPackets == UNION {Packets[m] : m \in Modes}

Buffers == [proto : {"tcp", "udp", "other"}, flow : {p.flow : p \in AllPackets},
            hdr : {p.hdr : p \in AllPackets}, seq : Nat, flags : {"ack", "psh", "other"},
            csum : BOOLEAN, room : Nat, len : Nat, payload : Seq(Nat \X Nat), vnet : Int]

ItemsOf(proto) ==
    IF proto = "tcp"
      THEN [bufsIndex : Nat, numMerged : Nat, gsoSize : Nat, sentSeq : Nat, pshSet : BOOLEAN]
      ELSE [bufsIndex : Nat, numMerged : Nat, gsoSize : Nat, cSumKnownInvalid : BOOLEAN]

\* The m-th packet of l is in buffer b, behind m - 1 packets of size g.
Piece(pk, b, g, l, m) ==
    /\ pk[l[m]].len \in 1..g /\ (m < Len(l) => pk[l[m]].len = g)
    /\ pk[l[m]].proto = b.proto /\ pk[l[m]].flow = b.flow /\ pk[l[m]].hdr = b.hdr
    /\ pk[l[m]].seq = IF b.proto = "tcp" THEN (b.seq + (m - 1) * g) % SeqSpace ELSE b.seq
    /\ Len(l) > 1 => pk[l[m]].csum = TRUE
    /\ \A k \in 1..pk[l[m]].len : b.payload[(m - 1) * g + k] = <<l[m], k>>

\* Buffer b holds the packets l of pk.
Holds(pk, b, g, l) ==
    /\ l # <<>> /\ Len(b.payload) = (Len(l) - 1) * g + pk[l[Len(l)]].len
    /\ b.flags = "psh" => pk[l[Len(l)]].flags = "psh"
    /\ \A m \in 1..Len(l) : Piece(pk, b, g, l, m)

Protos == {"tcp", "udp"}

\* What an item says about the buffer b, which holds the packets l.
Describes(item, key, q, pk, b, l) ==
    /\ Len(l) = item.numMerged + 1 /\ item.gsoSize < LenSpace
    /\ b.proto = q /\ b.flow = key /\ Len(b.payload) <= b.room
    /\ Holds(pk, b, item.gsoSize, l)
    /\ q = "tcp" => item.sentSeq = b.seq /\ (b.flags = "psh" => item.pshSet = TRUE)

\* Buffer b as packet w came in.
Plain(pk, b, w) ==
    /\ b.proto = pk[w].proto /\ b.flow = pk[w].flow /\ b.hdr = pk[w].hdr /\ b.seq = pk[w].seq
    /\ b.flags = pk[w].flags /\ b.csum = pk[w].csum /\ b.payload = Buffer(pk[w], w).payload

\* The items of a flow describe different buffers.
ItemsOK(items, key, q, lists, pk, bs) ==
    /\ items \in Seq(ItemsOf(q))
    /\ \A j \in DOMAIN items :
          /\ items[j].bufsIndex \in DOMAIN lists
          /\ Describes(items[j], key, q, pk, bs[items[j].bufsIndex], lists[items[j].bufsIndex])
    /\ \A j, k \in DOMAIN items : items[j].bufsIndex = items[k].bufsIndex => j = k

TablesOK(lists, pk, bs, ts) ==
    \A q \in Protos : \A key \in DOMAIN ts[q] : ItemsOK(ts[q][key], key, q, lists, pk, bs)

Indexed(ts, w) ==
    \E q \in Protos : \E key \in DOMAIN ts[q] : \E j \in DOMAIN ts[q][key] :
        ts[q][key][j].bufsIndex = w

\* lists[w]: the packets in buffer w.  Every packet is in one buffer, once.
ListsOK(lists, pk) ==
    /\ DOMAIN lists \subseteq 1..Len(pk)
    /\ lists \in [DOMAIN lists -> Seq(1..Len(pk))]
    /\ \A j \in 1..Len(pk) : \E w \in DOMAIN lists : \E m \in DOMAIN lists[w] : lists[w][m] = j
    /\ \A w, v \in DOMAIN lists : \A m \in DOMAIN lists[w], n \in DOMAIN lists[v] :
          lists[w][m] = lists[v][n] => w = v /\ m = n

BuffersOK(lists, pk, bs) ==
    /\ bs \in Seq(Buffers) /\ Len(bs) = Len(pk)
    /\ \A b \in DOMAIN bs : /\ bs[b].vnet \in {Stale, NoGSO} /\ bs[b].room < LenSpace
                            /\ bs[b].len <= bs[b].room
    /\ \A w \in DOMAIN lists : Len(lists[w]) = 1 => lists[w] = <<w>> /\ Plain(pk, bs[w], w)

Groups(lists, pk, bs, ts) ==
    /\ ListsOK(lists, pk) /\ BuffersOK(lists, pk, bs) /\ TablesOK(lists, pk, bs, ts)
    /\ \A w \in DOMAIN lists : Indexed(ts, w) \/ (bs[w].vnet = NoGSO /\ Len(lists[w]) = 1)

\* The items of both tables.
Tables == [q \in Protos |-> IF q = "tcp" THEN tcp.items ELSE udp.items]

-----------------------------------------------------------------------------
(* Arithmetic.                                                             *)

\* Multiples of a natural number.
LEMMA Multiples ==
    ASSUME NEW m \in Nat, NEW n \in Nat, NEW g \in Nat
    PROVE  /\ m * g \in Nat /\ (m + 1) * g = m * g + g /\ 0 * g = 0 /\ 1 * g = g
           /\ m <= n => m * g <= n * g
           /\ m < n => m * g + g <= n * g
<1>1. m * g \in Nat /\ (m + 1) * g = m * g + g OBVIOUS
<1>2. 0 * g = 0 /\ 1 * g = g OBVIOUS
<1>3. ASSUME m <= n PROVE m * g <= n * g
  <2>1. (n - m) * g >= 0 BY <1>3
  <2>2. (n - m) * g = n * g - m * g OBVIOUS
  <2>3. m * g \in Int /\ n * g \in Int OBVIOUS
  <2> QED BY <2>1, <2>2, <2>3
<1>4. ASSUME m < n PROVE m * g + g <= n * g
  <2>1. (n - (m + 1)) * g >= 0 BY <1>4
  <2>2. (n - (m + 1)) * g = n * g - m * g - g OBVIOUS
  <2>3. m * g \in Int /\ n * g \in Int OBVIOUS
  <2> QED BY <2>1, <2>2, <2>3
<1> QED BY <1>1, <1>2, <1>3, <1>4

\* What division computes.
LEMMA Division ==
    ASSUME NEW x \in Nat, NEW s \in Nat \ {0}
    PROVE  x \div s \in Nat /\ x % s \in 0..(s - 1) /\ x = s * (x \div s) + (x % s)
<1> DEFINE d == x \div s
           e == x % s
<1>1. d \in Nat /\ e \in 0..(s - 1) /\ x = s * d + e OBVIOUS
<1> QED BY <1>1

\* The quotient and the remainder are the only ones.
LEMMA DivMod ==
    ASSUME NEW s \in Nat \ {0}, NEW q \in Nat, NEW r \in 0..(s - 1)
    PROVE  (q * s + r) % s = r /\ (q * s + r) \div s = q
<1> DEFINE a == q * s + r
           d == a \div s
           e == a % s
<1>1. a \in Nat /\ q * s \in Nat BY Multiples
<1>2. d \in Nat /\ e \in 0..(s - 1) /\ a = d * s + e
  <2> HIDE DEF a
  <2>1. d \in Nat /\ e \in 0..(s - 1) /\ a = s * d + e BY <1>1, Division
  <2>2. s * d = d * s BY <2>1
  <2> QED BY <2>1, <2>2
<1>3. a = q * s + r OBVIOUS
<1> HIDE DEF a, d, e
<1>4. ~(d < q)
  <2>1. d * s \in Nat BY <1>2, Multiples
  <2>2. d < q => d * s + s <= q * s BY <1>2, Multiples
  <2> QED BY <1>1, <1>2, <1>3, <2>1, <2>2
<1>5. ~(q < d)
  <2>1. d * s \in Nat BY <1>2, Multiples
  <2>2. q < d => q * s + s <= d * s BY <1>2, Multiples
  <2> QED BY <1>1, <1>2, <1>3, <2>1, <2>2
<1>6. d = q BY <1>2, <1>4, <1>5
<1>7. e = r BY <1>1, <1>2, <1>3, <1>6
<1> QED BY <1>6, <1>7 DEF a, d, e

\* A number below the modulus stays.
LEMMA SmallMod ==
    ASSUME NEW s \in Nat \ {0}, NEW a \in Nat, a < s
    PROVE  a % s = a /\ (a + 0) % s = a
OBVIOUS

\* A sequence number is advanced in two steps or in one.
LEMMA ModAdd ==
    ASSUME NEW s \in Nat \ {0}, NEW a \in Nat, NEW b \in Nat
    PROVE  ((a % s) + b) % s = (a + b) % s
<1> DEFINE k == a \div s
           r == a % s
           q == (r + b) \div s
           e == (r + b) % s
<1>1. k \in Nat /\ r \in 0..(s - 1) /\ a = s * k + r OBVIOUS
<1>2. r + b \in Nat BY <1>1
<1>3. q \in Nat /\ e \in 0..(s - 1) /\ r + b = s * q + e BY <1>2, Division
<1> HIDE DEF k, r, q, e
<1>4. a + b = (k + q) * s + e
  <2>1. s * k \in Nat /\ s * q \in Nat /\ s * k = k * s /\ s * q = q * s BY <1>1, <1>3
  <2>2. (k + q) * s = k * s + q * s BY <1>1, <1>3
  <2> QED BY <1>1, <1>3, <2>1, <2>2
<1>5. k + q \in Nat BY <1>1, <1>3
<1>6. (a + b) % s = e BY <1>3, <1>4, <1>5, DivMod
<1> QED BY <1>6 DEF e, r

\* The last packet is full if the length is a multiple of the size.
LEMMA TailFull ==
    ASSUME NEW g \in Nat \ {0}, NEW q \in Nat, NEW r \in 1..g, (q * g + r) % g = 0
    PROVE  r = g
<1> SUFFICES ASSUME r # g PROVE FALSE OBVIOUS
<1>1. r \in 0..(g - 1) OBVIOUS
<1>2. (q * g + r) % g = r BY <1>1, DivMod
<1> QED BY <1>2

\* How many pieces the kernel cuts.
LEMMA Pieces ==
    ASSUME NEW g \in Nat \ {0}, NEW q \in Nat, NEW r \in 1..g
    PROVE  (q * g + r + g - 1) \div g = q + 1
<1>1. q + 1 \in Nat /\ r - 1 \in 0..(g - 1) OBVIOUS
<1>2. q * g \in Nat /\ (q + 1) * g = q * g + g BY Multiples
<1>3. q * g + r + g - 1 = (q + 1) * g + (r - 1) BY <1>2
<1>4. ((q + 1) * g + (r - 1)) \div g = q + 1 BY <1>1, DivMod
<1> QED BY <1>3, <1>4

-----------------------------------------------------------------------------
(* What one buffer holds, and how one packet is added to it.               *)

Tok(p, w) == [k \in 1..p.len |-> <<w, k>>]

\* The packets and what the assumption says of them.
LEMMA PacketType ==
    ASSUME NEW p \in AllPackets
    PROVE  /\ p.proto \in {"tcp", "udp", "other"} /\ p.flags \in {"ack", "psh", "other"}
           /\ p.csum \in BOOLEAN /\ p.seq \in Nat /\ p.seq < SeqSpace
           /\ p.proto # "tcp" => p.flags = "ack" /\ p.seq = 0
           /\ p.room \in Nat /\ p.room < LenSpace /\ p.len \in Nat /\ p.len <= p.room
           /\ SeqSpace \in Nat \ {0} /\ LenSpace \in Nat \ {0}
<1>0. SeqSpace \in Nat \ {0} /\ LenSpace \in Nat \ {0} BY GROAssumption
<1>1. PICK m \in Modes : p \in Packets[m] BY DEF AllPackets
<1>2. /\ p.proto \in {"tcp", "udp", "other"}
      /\ p.flags \in {"ack", "psh", "other"} /\ p.csum \in BOOLEAN
      /\ p.seq \in 0..(SeqSpace - 1)
      /\ p.proto # "tcp" => p.flags = "ack" /\ p.seq = 0
      /\ p.room \in Nat /\ p.room < LenSpace /\ p.len \in 0..p.room
  BY <1>1, GROAssumption
<1> QED BY <1>0, <1>2

\* The payload of a packet.
LEMMA TokType ==
    ASSUME NEW p \in AllPackets, NEW w \in Nat
    PROVE  /\ Tok(p, w) \in Seq(Nat \X Nat) /\ Len(Tok(p, w)) = p.len
           /\ \A k \in 1..p.len : Tok(p, w)[k] = <<w, k>>
<1>1. p.len \in Nat BY PacketType
<1>2. Tok(p, w) \in [1..p.len -> Nat \X Nat] BY <1>1 DEF Tok
<1> QED BY <1>1, <1>2 DEF Tok

\* A buffer that was not touched holds its own packet.
LEMMA HoldsSingle ==
    ASSUME NEW pk \in Seq(AllPackets), NEW w \in 1..Len(pk), pk[w].len > 0,
           NEW b, b.payload = Tok(pk[w], w), b.proto = pk[w].proto, b.flow = pk[w].flow,
           b.hdr = pk[w].hdr, b.seq = pk[w].seq, b.flags = pk[w].flags
    PROVE  Holds(pk, b, pk[w].len, <<w>>)
<1> DEFINE g == pk[w].len
           l == <<w>>
           p == pk[w]
<1>0. p \in AllPackets /\ w \in Nat OBVIOUS
<1>1. p.len \in Nat /\ g \in Nat /\ g > 0 /\ p.seq \in Nat /\ p.seq < SeqSpace /\ SeqSpace \in Nat \ {0}
  BY <1>0, PacketType
<1>2. Len(l) = 1 /\ l[1] = w /\ l # <<>> OBVIOUS
<1>3. Len(b.payload) = g /\ \A k \in 1..g : b.payload[k] = <<w, k>> BY <1>0, TokType
<1>4. (Len(l) - 1) * g = 0 /\ (1 - 1) * g = 0 BY <1>1, <1>2
<1>5. p.seq = (p.seq + 0) % SeqSpace BY <1>1
<1> HIDE DEF g, l
<1>6. Len(b.payload) = (Len(l) - 1) * g + pk[l[Len(l)]].len BY <1>1, <1>2, <1>3, <1>4 DEF g
<1>7. Piece(pk, b, g, l, 1)
  <2>1. pk[l[1]].seq = IF b.proto = "tcp" THEN (b.seq + (1 - 1) * g) % SeqSpace ELSE b.seq
    BY <1>2, <1>4, <1>5
  <2>2. \A k \in 1..pk[l[1]].len : b.payload[(1 - 1) * g + k] = <<l[1], k>>
    BY <1>1, <1>2, <1>3, <1>4 DEF g
  <2>3. pk[l[1]].len \in 1..g /\ ~(1 < Len(l)) /\ ~(Len(l) > 1) BY <1>1, <1>2 DEF g
  <2> QED BY <1>2, <2>1, <2>2, <2>3 DEF Piece
<1>8. \A m \in 1..Len(l) : Piece(pk, b, g, l, m) BY <1>2, <1>7
<1> QED BY <1>2, <1>6, <1>8 DEF Holds, g, l

\* Where the packets of a buffer are.
LEMMA PieceOffset ==
    ASSUME NEW n \in Nat, NEW g \in Nat, NEW r \in 1..g, NEW m \in 1..n, NEW x \in Nat \ {0},
           x <= g, m = n => x <= r
    PROVE  (m - 1) * g \in Nat /\ (m - 1) * g + x \in 1..((n - 1) * g + r)
<1> DEFINE y == (m - 1) * g
           z == (n - 1) * g
<1>1. m - 1 \in Nat /\ n - 1 \in Nat OBVIOUS
<1>2. y \in Nat /\ z \in Nat BY <1>1, Multiples
<1>3. m < n => y + g <= z
  <2>1. m < n => m - 1 < n - 1 OBVIOUS
  <2> QED BY <1>1, <2>1, Multiples
<1>4. m = n => y = z OBVIOUS
<1> HIDE DEF y, z
<1>5. y + x \in 1..(z + r) BY <1>2, <1>3, <1>4
<1> QED BY <1>2, <1>5 DEF y, z

\* The bytes of two payloads.
LEMMA Concat ==
    ASSUME NEW s \in Seq(Nat \X Nat), NEW t \in Seq(Nat \X Nat)
    PROVE  /\ s \o t \in Seq(Nat \X Nat) /\ Len(s \o t) = Len(s) + Len(t)
           /\ \A x \in 1..Len(s) : (s \o t)[x] = s[x]
           /\ \A x \in 1..Len(t) : (s \o t)[Len(s) + x] = t[x]
<1>1. s \o t \in Seq(Nat \X Nat) /\ Len(s \o t) = Len(s) + Len(t) OBVIOUS
<1>2. \A x \in 1..Len(s) : (s \o t)[x] = s[x] OBVIOUS
<1>3. ASSUME NEW x \in 1..Len(t) PROVE (s \o t)[Len(s) + x] = t[x]
  <2>1. Len(s) + x \in 1..(Len(s) + Len(t)) /\ ~(Len(s) + x <= Len(s)) /\ (Len(s) + x) - Len(s) = x OBVIOUS
  <2>2. (s \o t)[Len(s) + x] = t[(Len(s) + x) - Len(s)] BY <2>1
  <2> QED BY <2>1, <2>2
<1> QED BY <1>1, <1>2, <1>3

\* A list after an element is added at its end or in front.
LEMMA AppendFacts ==
    ASSUME NEW S, NEW s \in Seq(S), NEW e \in S
    PROVE  /\ Append(s, e) \in Seq(S) /\ Len(Append(s, e)) = Len(s) + 1 /\ Append(s, e) # <<>>
           /\ Append(s, e)[Len(s) + 1] = e /\ \A m \in 1..Len(s) : Append(s, e)[m] = s[m]
<1>1. Append(s, e) \in Seq(S) /\ Len(Append(s, e)) = Len(s) + 1 OBVIOUS
<1>2. Append(s, e)[Len(s) + 1] = e /\ \A m \in 1..Len(s) : Append(s, e)[m] = s[m] OBVIOUS
<1>3. Append(s, e) # <<>>
  <2>1. Len(s) \in Nat /\ Len(<<>>) = 0 OBVIOUS
  <2> QED BY ONLY <1>1, <2>1
<1> QED BY <1>1, <1>2, <1>3

\* The same in front.
LEMMA PrependFacts ==
    ASSUME NEW S, NEW s \in Seq(S), NEW e \in S
    PROVE  /\ <<e>> \o s \in Seq(S) /\ Len(<<e>> \o s) = Len(s) + 1 /\ <<e>> \o s # <<>>
           /\ (<<e>> \o s)[1] = e /\ \A m \in 1..Len(s) : (<<e>> \o s)[m + 1] = s[m]
<1>0. <<e>> \in Seq(S) /\ Len(<<e>>) = 1 OBVIOUS
<1>1. <<e>> \o s \in Seq(S) /\ Len(<<e>> \o s) = Len(s) + 1 BY <1>0
<1>2. (<<e>> \o s)[1] = e OBVIOUS
<1>3. <<e>> \o s # <<>> BY <1>1
<1>4. ASSUME NEW m \in 1..Len(s) PROVE (<<e>> \o s)[m + 1] = s[m]
  <2>1. m + 1 \in 1..(Len(s) + 1) /\ ~(m + 1 <= 1) /\ (m + 1) - 1 = m OBVIOUS
  <2>2. (<<e>> \o s)[m + 1] = s[(m + 1) - 1] BY <1>0, <2>1
  <2> QED BY <2>1, <2>2
<1> QED BY <1>1, <1>2, <1>3, <1>4

\* Packets that all have the full size.
Full(pk, b, g, l) ==
    /\ pk \in Seq(AllPackets) /\ g \in Nat \ {0} /\ l \in Seq(1..Len(pk))
    /\ Holds(pk, b, g, l) /\ Len(b.payload) % g = 0

\* Every packet of such a buffer has the segment size.
Filled(pk, b, g, l) ==
    /\ Len(l) \in Nat \ {0} /\ Len(b.payload) = Len(l) * g /\ Len(l) * g \in Nat
    /\ pk[l[Len(l)]].len = g

\* The short packet of a group is its last one, and there is none.
LEMMA HoldsFull ==
    ASSUME NEW pk, NEW b, NEW g, NEW l, Full(pk, b, g, l)
    PROVE  Filled(pk, b, g, l)
<1> SUFFICES ASSUME pk \in Seq(AllPackets), g \in Nat \ {0}, l \in Seq(1..Len(pk)),
                    Holds(pk, b, g, l), Len(b.payload) % g = 0
             PROVE  Filled(pk, b, g, l)
  BY DEF Full
<1> DEFINE n == Len(l)
           r == pk[l[n]].len
<1>1. n \in Nat \ {0} /\ n - 1 \in Nat
  <2>1. l # <<>> BY DEF Holds
  <2> QED BY <2>1
<1>2. Len(b.payload) = (n - 1) * g + r /\ \A m \in 1..n : Piece(pk, b, g, l, m)
  BY DEF Holds
<1>3. r = g
  <2>1. n \in 1..n BY <1>1
  <2>2. Piece(pk, b, g, l, n) BY <1>2, <2>1
  <2>3. r \in 1..g BY <2>2 DEF Piece
  <2>4. ((n - 1) * g + r) % g = 0 BY <1>2
  <2> QED BY ONLY <1>1, <2>3, <2>4, g \in Nat \ {0}, TailFull
<1>4. Len(b.payload) = n * g /\ n * g \in Nat
  <2>1. (n - 1) + 1 = n BY <1>1
  <2>2. ((n - 1) + 1) * g = (n - 1) * g + g BY <1>1, Multiples
  <2>3. n * g \in Nat BY <1>1, Multiples
  <2> QED BY <1>2, <1>3, <2>1, <2>2, <2>3
<1> QED BY <1>1, <1>3, <1>4 DEF Filled

\* A packet is copied behind the others.
CanAppend(pk, b, c, g, l, i) ==
    /\ Full(pk, b, g, l) /\ i \in 1..Len(pk)
    /\ b.payload \in Seq(Nat \X Nat) /\ b.seq \in Nat
    /\ pk[i].len \in 1..g /\ pk[i].csum = TRUE
    /\ Len(l) = 1 => pk[l[1]].csum = TRUE
    /\ pk[i].proto = b.proto /\ pk[i].flow = b.flow /\ pk[i].hdr = b.hdr
    /\ pk[i].seq = IF b.proto = "tcp" THEN (b.seq + Len(l) * g) % SeqSpace ELSE b.seq
    /\ c.payload = b.payload \o Tok(pk[i], i) /\ c.proto = b.proto /\ c.flow = b.flow
    /\ c.hdr = b.hdr /\ c.seq = b.seq /\ (c.flags = "psh" => pk[i].flags = "psh")

\* Behind a filled buffer, a packet that follows extends what the buffer holds.
LEMMA HoldsAppend ==
    ASSUME NEW pk, NEW b, NEW c, NEW g, NEW l, NEW i, CanAppend(pk, b, c, g, l, i)
    PROVE  Holds(pk, c, g, Append(l, i))
<1> SUFFICES
      ASSUME pk \in Seq(AllPackets), g \in Nat \ {0}, l \in Seq(1..Len(pk)),
             i \in 1..Len(pk), Holds(pk, b, g, l), b.payload \in Seq(Nat \X Nat), b.seq \in Nat,
             Len(b.payload) % g = 0, pk[i].len \in 1..g, pk[i].csum = TRUE,
             Len(l) = 1 => pk[l[1]].csum = TRUE,
             pk[i].proto = b.proto, pk[i].flow = b.flow, pk[i].hdr = b.hdr,
             pk[i].seq = IF b.proto = "tcp" THEN (b.seq + Len(l) * g) % SeqSpace ELSE b.seq,
             c.payload = b.payload \o Tok(pk[i], i), c.proto = b.proto, c.flow = b.flow,
             c.hdr = b.hdr, c.seq = b.seq, c.flags = "psh" => pk[i].flags = "psh"
      PROVE  Holds(pk, c, g, Append(l, i))
  BY DEF CanAppend, Full
<1> DEFINE n == Len(l)
           k == Append(l, i)
           p == pk[i]
           t == Tok(p, i)
<1>0. p \in AllPackets /\ i \in Nat OBVIOUS
<1>1. g \in Nat \ {0} /\ n \in Nat \ {0} /\ n - 1 \in Nat /\ p.len \in Nat
  <2>1. l # <<>> BY DEF Holds
  <2>2. n \in Nat \ {0} /\ n - 1 \in Nat BY <2>1
  <2>3. g \in Nat \ {0} OBVIOUS
  <2>4. p.len \in Nat BY <1>0, PacketType
  <2> QED BY <2>2, <2>3, <2>4
<1>2. Len(b.payload) = (n - 1) * g + pk[l[n]].len /\ \A m \in 1..n : Piece(pk, b, g, l, m)
  BY DEF Holds
<1>3. pk[l[n]].len = g /\ Len(b.payload) = n * g /\ n * g \in Nat
  <2>1. Full(pk, b, g, l) BY DEF Full
  <2>2. Filled(pk, b, g, l) BY ONLY <2>1, HoldsFull
  <2> QED BY ONLY <2>2 DEF Filled, n
<1>4. Len(b.payload) = n * g /\ n * g \in Nat BY <1>3
<1>5. Len(k) = n + 1 /\ k[n + 1] = i /\ k # <<>> /\ \A m \in 1..n : k[m] = l[m]
  <2> DEFINE S == 1..Len(pk)
  <2>1. l \in Seq(S) /\ i \in S OBVIOUS
  <2> HIDE DEF S
  <2> QED BY ONLY <2>1, AppendFacts DEF k, n
<1>6. t \in Seq(Nat \X Nat) /\ Len(t) = p.len /\ \A x \in 1..p.len : t[x] = <<i, x>> BY <1>0, TokType
<1> HIDE DEF k, t, n
<1>7. /\ Len(c.payload) = n * g + p.len
      /\ \A x \in 1..(n * g) : c.payload[x] = b.payload[x]
      /\ \A x \in 1..p.len : c.payload[n * g + x] = <<i, x>>
  <2> DEFINE N == n * g
  <2>1. c.payload = b.payload \o t /\ Len(b.payload) = N BY <1>4 DEF t
  <2> HIDE DEF N
  <2>2. /\ Len(c.payload) = N + Len(t)
        /\ \A x \in 1..N : c.payload[x] = b.payload[x]
        /\ \A x \in 1..Len(t) : c.payload[N + x] = t[x]
    <3>1. b.payload \in Seq(Nat \X Nat) OBVIOUS
    <3> DEFINE q == b.payload
    <3>2. q \in Seq(Nat \X Nat) /\ t \in Seq(Nat \X Nat) BY <1>6
    <3> HIDE DEF q
    <3>3. /\ Len(q \o t) = Len(q) + Len(t)
          /\ \A x \in 1..Len(q) : (q \o t)[x] = q[x]
          /\ \A x \in 1..Len(t) : (q \o t)[Len(q) + x] = t[x]
      BY ONLY <3>2, Concat
    <3>4. c.payload = q \o t /\ Len(q) = N /\ b.payload = q BY <2>1 DEF q
    <3> QED BY ONLY <3>3, <3>4
  <2> QED BY <1>6, <2>2 DEF N
<1>8. (Len(k) - 1) * g = n * g /\ Len(k) - 1 = n BY <1>1, <1>5
<1>9. Piece(pk, c, g, k, n + 1)
  <2>1. (n + 1) - 1 = n /\ ~(n + 1 < Len(k)) BY <1>1, <1>5
  <2>2. k[n + 1] = i BY <1>5
  <2>3. pk[i].len \in 1..g /\ pk[i].proto = c.proto /\ pk[i].flow = c.flow /\ pk[i].hdr = c.hdr /\ pk[i].csum = TRUE
    OBVIOUS
  <2>4. pk[i].seq = IF c.proto = "tcp" THEN (c.seq + n * g) % SeqSpace ELSE c.seq BY DEF n
  <2>5. \A x \in 1..pk[i].len : c.payload[n * g + x] = <<i, x>> BY <1>7
  <2> QED BY ONLY <2>1, <2>2, <2>3, <2>4, <2>5 DEF Piece
<1>10. ASSUME NEW m \in 1..n PROVE Piece(pk, c, g, k, m)
  <2>1. Piece(pk, b, g, l, m) /\ k[m] = l[m] BY <1>2, <1>5
  <2>2. pk[l[m]].len = g
    <3>1. m < n => pk[l[m]].len = g BY <2>1 DEF Piece, n
    <3>2. m = n => pk[l[m]].len = g BY <1>3
    <3>3. m < n \/ m = n BY <1>1
    <3> QED BY ONLY <3>1, <3>2, <3>3
  <2>3. pk[l[m]].csum = TRUE
    <3>1. n > 1 => pk[l[m]].csum = TRUE BY <2>1 DEF Piece, n
    <3>2. n = 1 => pk[l[m]].csum = TRUE BY DEF n
    <3> QED BY <1>1, <3>1, <3>2
  <2>4. ASSUME NEW x \in 1..pk[k[m]].len PROVE c.payload[(m - 1) * g + x] = <<k[m], x>>
    <3>1. b.payload[(m - 1) * g + x] = <<l[m], x>> BY <2>1 DEF Piece
    <3>2. x \in Nat \ {0} /\ x <= g /\ g \in 1..g
      <4>1. x \in 1..g /\ g \in Nat \ {0} BY <2>1, <2>2
      <4> QED BY ONLY <4>1
    <3>3. (m - 1) * g + x \in 1..((n - 1) * g + g) BY <1>1, <3>2, PieceOffset
    <3>4. (n - 1) * g + g = n * g BY <1>2, <1>3, <1>4
    <3> QED BY <1>7, <2>1, <3>1, <3>3, <3>4
  <2>5. pk[k[m]].seq = IF c.proto = "tcp" THEN (c.seq + (m - 1) * g) % SeqSpace ELSE c.seq
    BY <2>1 DEF Piece
  <2>6. /\ pk[k[m]].proto = c.proto /\ pk[k[m]].flow = c.flow /\ pk[k[m]].hdr = c.hdr
        /\ pk[k[m]].len \in 1..g
    BY <2>1 DEF Piece
  <2> QED BY <2>1, <2>2, <2>3, <2>4, <2>5, <2>6 DEF Piece
<1>11. \A m \in 1..Len(k) : Piece(pk, c, g, k, m) BY <1>1, <1>5, <1>9, <1>10
<1>12. Len(c.payload) = (Len(k) - 1) * g + pk[k[Len(k)]].len
  BY <1>5, <1>7, <1>8
<1>13. Holds(pk, c, g, k) BY <1>5, <1>11, <1>12 DEF Holds
<1> QED BY <1>13 DEF k

\* A packet is copied in front of the others.
CanPrepend(pk, b, c, g, h, l, i) ==
    /\ pk \in Seq(AllPackets) /\ g \in Nat \ {0} /\ l \in Seq(1..Len(pk))
    /\ i \in 1..Len(pk) /\ Holds(pk, b, g, l) /\ b.payload \in Seq(Nat \X Nat) /\ b.seq \in Nat
    /\ h \in Nat /\ pk[i].len = h /\ h >= g /\ (Len(l) > 1 => h = g) /\ pk[i].csum = TRUE
    /\ Len(l) = 1 => pk[l[1]].csum = TRUE
    /\ b.proto = "tcp" /\ pk[i].proto = b.proto /\ pk[i].flow = b.flow /\ pk[i].hdr = b.hdr
    /\ (pk[i].seq + h) % SeqSpace = b.seq
    /\ c.payload = Tok(pk[i], i) \o b.payload /\ c.proto = b.proto /\ c.flow = b.flow
    /\ c.hdr = b.hdr /\ c.seq = pk[i].seq /\ c.flags # "psh"

\* In front of a buffer, a packet of the new segment size extends what the buffer holds.
LEMMA HoldsPrepend ==
    ASSUME NEW pk, NEW b, NEW c, NEW g, NEW h, NEW l, NEW i, CanPrepend(pk, b, c, g, h, l, i)
    PROVE  Holds(pk, c, h, <<i>> \o l)
<1> SUFFICES
      ASSUME pk \in Seq(AllPackets), g \in Nat \ {0}, l \in Seq(1..Len(pk)),
             i \in 1..Len(pk), Holds(pk, b, g, l), b.payload \in Seq(Nat \X Nat), b.seq \in Nat,
             h \in Nat, pk[i].len = h, h >= g, Len(l) > 1 => h = g, pk[i].csum = TRUE,
             Len(l) = 1 => pk[l[1]].csum = TRUE, b.proto = "tcp",
             pk[i].proto = b.proto, pk[i].flow = b.flow, pk[i].hdr = b.hdr,
             (pk[i].seq + h) % SeqSpace = b.seq,
             c.payload = Tok(pk[i], i) \o b.payload, c.proto = b.proto, c.flow = b.flow,
             c.hdr = b.hdr, c.seq = pk[i].seq, c.flags # "psh"
      PROVE  Holds(pk, c, h, <<i>> \o l)
  BY DEF CanPrepend
<1> DEFINE n == Len(l)
           k == <<i>> \o l
           p == pk[i]
           t == Tok(p, i)
           r == pk[l[n]].len
<1>0. p \in AllPackets /\ i \in Nat OBVIOUS
<1>1. /\ n \in Nat \ {0} /\ n - 1 \in Nat /\ p.len \in Nat /\ h \in Nat \ {0}
      /\ p.seq \in Nat /\ p.seq < SeqSpace /\ SeqSpace \in Nat \ {0}
  <2>1. l # <<>> BY DEF Holds
  <2>2. n \in Nat \ {0} /\ n - 1 \in Nat BY <2>1
  <2>3. h \in Nat \ {0} OBVIOUS
  <2>4. p.len \in Nat /\ p.seq \in Nat /\ p.seq < SeqSpace /\ SeqSpace \in Nat \ {0} BY <1>0, PacketType
  <2> QED BY <2>2, <2>3, <2>4
<1>2. Len(b.payload) = (n - 1) * g + r /\ \A m \in 1..n : Piece(pk, b, g, l, m)
  BY DEF Holds
<1>3. Len(k) = n + 1 /\ k[1] = i /\ k # <<>> /\ \A m \in 1..n : k[m + 1] = l[m]
  <2> DEFINE S == 1..Len(pk)
  <2>1. l \in Seq(S) /\ i \in S OBVIOUS
  <2> HIDE DEF S
  <2> QED BY ONLY <2>1, PrependFacts DEF k, n
<1>4. t \in Seq(Nat \X Nat) /\ Len(t) = h /\ \A x \in 1..h : t[x] = <<i, x>> BY <1>0, TokType
<1>5. c.payload = t \o b.payload OBVIOUS
<1> HIDE DEF k, t, n, r
<1>6. /\ Len(c.payload) = h + Len(b.payload) /\ Len(b.payload) \in Nat
      /\ \A x \in 1..h : c.payload[x] = <<i, x>>
      /\ \A x \in 1..Len(b.payload) : c.payload[h + x] = b.payload[x]
  <2> DEFINE q == b.payload
  <2>1. q \in Seq(Nat \X Nat) OBVIOUS
  <2>2. c.payload = t \o q BY <1>5
  <2> HIDE DEF q
  <2>3. /\ Len(t \o q) = Len(t) + Len(q) /\ Len(q) \in Nat
        /\ \A x \in 1..Len(t) : (t \o q)[x] = t[x]
        /\ \A x \in 1..Len(q) : (t \o q)[Len(t) + x] = q[x]
    <3>1. t \in Seq(Nat \X Nat) BY ONLY <1>4
    <3>2. Len(q) \in Nat BY ONLY <2>1
    <3> QED BY ONLY <2>1, <3>1, <3>2, Concat
  <2>4. b.payload = q BY DEF q
  <2> QED BY ONLY <1>4, <2>2, <2>3, <2>4
\* m packets of the old size behind the new one are m packets of the new size
<1>7. ASSUME NEW m \in 1..n PROVE h + (m - 1) * g = m * h /\ (m - 1) * g \in Nat /\ m * h \in Nat
  <2>0. m - 1 \in Nat /\ m \in Nat BY <1>1
  <2>1. (m - 1) * g \in Nat /\ m * h \in Nat BY <1>1, <2>0, Multiples
  <2>2. CASE n = 1
    <3>1. m = 1 BY <2>2
    <3>2. (1 - 1) * g = 0 /\ 1 * h = h OBVIOUS
    <3> QED BY <2>1, <3>1, <3>2
  <2>3. CASE n # 1
    <3>0. n > 1 => h = g BY DEF n
    <3>1. h = g BY ONLY <3>0, <1>1, <2>3
    <3>2. ((m - 1) + 1) * g = (m - 1) * g + g BY <2>0, Multiples
    <3>3. (m - 1) + 1 = m BY <2>0
    <3> QED BY <2>1, <3>1, <3>2, <3>3
  <2> QED BY <2>2, <2>3
<1>8. r \in 1..h /\ r \in Nat
  <2>1. n \in 1..n BY <1>1
  <2>2. Piece(pk, b, g, l, n) BY <1>2, <2>1
  <2>3. r \in 1..g BY <2>2 DEF Piece, r
  <2> QED BY <1>1, <2>3
<1>9. Piece(pk, c, h, k, 1)
  <2>1. 1 < Len(k) /\ (1 - 1) * h = 0 /\ h \in 1..h BY <1>1, <1>3
  <2>2. pk[k[1]].seq = (c.seq + (1 - 1) * h) % SeqSpace
    <3>1. p.seq = (p.seq + 0) % SeqSpace BY ONLY <1>1, SmallMod
    <3>2. c.seq = p.seq OBVIOUS
    <3> QED BY ONLY <1>3, <2>1, <3>1, <3>2
  <2>3. \A x \in 1..pk[k[1]].len : c.payload[(1 - 1) * h + x] = <<k[1], x>>
    <3>1. pk[k[1]].len = h BY <1>3
    <3>2. \A x \in 1..h : 0 + x = x BY ONLY <1>1
    <3> QED BY ONLY SMTT(20), <1>3, <1>6, <2>1, <3>1, <3>2
  <2>4. pk[k[1]].len \in 1..h /\ pk[k[1]].len = h BY <1>3, <2>1
  <2> QED BY <1>3, <2>2, <2>3, <2>4 DEF Piece
<1>10. ASSUME NEW m \in 1..n PROVE Piece(pk, c, h, k, m + 1)
  <2>0. m + 1 \in Nat /\ (m + 1) - 1 = m
    <3>1. m \in Nat BY <1>1
    <3> QED BY ONLY <3>1
  <2>1. Piece(pk, b, g, l, m) /\ k[m + 1] = l[m] BY <1>2, <1>3
  <2>2. pk[k[m + 1]].len \in 1..h
    <3>1. pk[l[m]].len \in 1..g BY <2>1 DEF Piece
    <3>2. g \in Nat /\ h >= g OBVIOUS
    <3> QED BY ONLY <1>1, <2>1, <3>1, <3>2
  <2>3. m + 1 < Len(k) => pk[k[m + 1]].len = h
    <3>1. m < n => pk[l[m]].len = g BY <2>1 DEF Piece, n
    <3>2. m < n => h = g BY <1>1 DEF n
    <3>3. Len(k) = n + 1 /\ n \in Nat BY <1>1, <1>3
    <3> QED BY ONLY <2>0, <2>1, <3>1, <3>2, <3>3
  <2>4. pk[l[m]].csum = TRUE
    <3>1. n > 1 => pk[l[m]].csum = TRUE BY <2>1 DEF Piece, n
    <3>2. n = 1 => pk[l[m]].csum = TRUE BY DEF n
    <3> QED BY <1>1, <3>1, <3>2
  <2>5. pk[k[m + 1]].seq = (c.seq + ((m + 1) - 1) * h) % SeqSpace
    <3> DEFINE y == (m - 1) * g
               z == m * h
               u == p.seq
    <3>1. y \in Nat /\ z \in Nat /\ h + y = z /\ u \in Nat BY <1>1, <1>7
    <3>2. pk[l[m]].seq = (b.seq + y) % SeqSpace BY <2>1 DEF Piece
    <3>3. b.seq = (u + h) % SeqSpace OBVIOUS
    <3>7. c.seq = u OBVIOUS
    <3> HIDE DEF y, z, u
    <3>4. u + h \in Nat /\ (u + h) + y = u + z BY <3>1
    <3>5. (((u + h) % SeqSpace) + y) % SeqSpace = ((u + h) + y) % SeqSpace
      BY ONLY <1>1, <3>1, <3>4, ModAdd
    <3>6. pk[l[m]].seq = (u + z) % SeqSpace BY ONLY <3>2, <3>3, <3>4, <3>5
    <3> QED BY ONLY <2>0, <2>1, <3>6, <3>7 DEF z
  <2>6. ASSUME NEW x \in 1..pk[k[m + 1]].len PROVE c.payload[((m + 1) - 1) * h + x] = <<k[m + 1], x>>
    <3>1. b.payload[(m - 1) * g + x] = <<l[m], x>> BY <2>1 DEF Piece
    <3>2. pk[l[m]].len \in 1..g BY <2>1 DEF Piece
    <3>3. x \in Nat \ {0} /\ x <= g /\ r \in 1..g /\ (m = n => x <= r)
      <4>1. n \in 1..n BY <1>1
      <4>2. Piece(pk, b, g, l, n) BY <1>2, <4>1
      <4>3. r \in 1..g BY <4>2 DEF Piece, r
      <4>4. x \in 1..pk[l[m]].len BY <2>1
      <4>5. m = n => pk[l[m]].len = r BY DEF r
      <4>6. g \in Nat OBVIOUS
      <4> QED BY ONLY <3>2, <4>3, <4>4, <4>5, <4>6
    <3>4. (m - 1) * g + x \in 1..((n - 1) * g + r) BY <1>1, <3>3, PieceOffset
    <3>5. c.payload[h + ((m - 1) * g + x)] = b.payload[(m - 1) * g + x] BY <1>2, <1>6, <3>4
    <3>6. h + ((m - 1) * g + x) = m * h + x BY <1>1, <1>7, <3>3
    <3> QED BY <2>0, <2>1, <3>1, <3>5, <3>6
  <2>7. pk[k[m + 1]].proto = c.proto /\ pk[k[m + 1]].flow = c.flow /\ pk[k[m + 1]].hdr = c.hdr
    BY <2>1 DEF Piece
  <2> QED BY <2>1, <2>2, <2>3, <2>4, <2>5, <2>6, <2>7 DEF Piece
<1>11. ASSUME NEW m \in 1..Len(k) PROVE Piece(pk, c, h, k, m)
  <2>1. CASE m = 1 BY <2>1, <1>9
  <2>2. CASE m # 1
    <3>1. m - 1 \in 1..n /\ (m - 1) + 1 = m BY <1>1, <1>3, <2>2
    <3>2. Piece(pk, c, h, k, (m - 1) + 1) BY <1>10, <3>1
    <3> QED BY <3>1, <3>2
  <2> QED BY <2>1, <2>2
<1>12. Len(c.payload) = (Len(k) - 1) * h + pk[k[Len(k)]].len
  <2>1. n \in 1..n /\ Len(k) - 1 = n BY <1>1, <1>3
  <2>2. pk[k[Len(k)]].len = r BY <1>3, <2>1 DEF r
  <2>3. h + (n - 1) * g = n * h /\ (n - 1) * g \in Nat /\ n * h \in Nat BY <1>7, <2>1
  <2>4. Len(c.payload) = h + ((n - 1) * g + r) BY <1>2, <1>6
  <2> DEFINE y == (n - 1) * g
             z == n * h
  <2>5. y \in Nat /\ z \in Nat /\ h + y = z /\ Len(c.payload) = h + (y + r) BY ONLY <2>3, <2>4
  <2> HIDE DEF y, z
  <2>6. Len(c.payload) = z + r BY ONLY <1>1, <1>8, <2>5
  <2> QED BY ONLY <2>1, <2>2, <2>6 DEF z
<1> QED BY <1>3, <1>11, <1>12 DEF Holds, k

-----------------------------------------------------------------------------
(* Sets of numbers and Sorted.                                             *)

\* A set of natural numbers that is not empty has a first one.
LEMMA Least == ASSUME NEW S \in SUBSET Nat, S # {} PROVE \E k \in S : \A l \in S : k <= l
<1>1. \E k \in S : \A l \in S : ~(<<l, k>> \in OpToRel(<, Nat))
  BY NatLessThanWellFounded, WFMin
<1>2. PICK k \in S : \A l \in S : ~(<<l, k>> \in OpToRel(<, Nat)) BY <1>1
<1>3. ASSUME NEW l \in S PROVE k <= l
  <2>1. l \in Nat /\ k \in Nat OBVIOUS
  <2>2. ~(l < k) BY <1>2, <1>3, <2>1 DEF OpToRel
  <2> QED BY <2>1, <2>2
<1> QED BY <1>3

Increasing(k) == \A m, n \in DOMAIN k : m < n => k[m] < k[n]

\* Every finite set of numbers can be put in order.
LEMMA Enumerable ==
    \A n \in Nat : \A S \in SUBSET (1..n) : \E k \in [1..Cardinality(S) -> S] : Increasing(k)
<1> DEFINE P(n) == \A S \in SUBSET (1..n) : \E k \in [1..Cardinality(S) -> S] : Increasing(k)
           Bad == {n \in Nat : ~P(n)}
<1>1. P(0)
  <2>1. ASSUME NEW S \in SUBSET (1..0) PROVE \E k \in [1..Cardinality(S) -> S] : Increasing(k)
    <3>1. S = {} OBVIOUS
    <3>2. Cardinality(S) = 0 BY <3>1, FS_EmptySet
    <3>3. 1..Cardinality(S) = {} BY <3>2
    <3> DEFINE k == [m \in 1..Cardinality(S) |-> m]
    <3>4. k \in [1..Cardinality(S) -> S] BY <3>3
    <3>5. Increasing(k) BY <3>3 DEF Increasing
    <3> QED BY <3>4, <3>5
  <2> QED BY <2>1
<1>2. ASSUME NEW n \in Nat, P(n) PROVE P(n + 1)
  <2>1. ASSUME NEW S \in SUBSET (1..(n + 1)) PROVE \E k \in [1..Cardinality(S) -> S] : Increasing(k)
    <3>0. CASE n + 1 \notin S
      <4>1. S \in SUBSET (1..n) BY <3>0
      <4> QED BY <1>2, <4>1
    <3>1. CASE n + 1 \in S
      <4> DEFINE T == S \ {n + 1}
                 c == Cardinality(T)
      <4>1. T \in SUBSET (1..n) OBVIOUS
      <4>2. IsFiniteSet(1..n) BY FS_Interval
      <4>3. IsFiniteSet(T) /\ c \in Nat BY <4>1, <4>2, FS_Subset, FS_CardinalityType
      <4>4. S = T \cup {n + 1} /\ n + 1 \notin T BY <3>1
      <4>5. Cardinality(S) = c + 1 BY <4>3, <4>4, FS_AddElement
      <4>6. \E k \in [1..c -> T] : Increasing(k) BY <1>2, <4>1
      <4> HIDE DEF T, c
      <4>7. PICK k \in [1..c -> T] : Increasing(k) BY <4>6
      <4> DEFINE q == [m \in 1..(c + 1) |-> IF m = c + 1 THEN n + 1 ELSE k[m]]
      <4>8. q \in [1..(c + 1) -> S]
        <5>1. ASSUME NEW m \in 1..(c + 1), m # c + 1 PROVE k[m] \in S
          <6>1. m \in 1..c BY <4>3, <5>1
          <6> QED BY <4>4, <6>1
        <5> QED BY <3>1, <5>1
      <4>9. ASSUME NEW m \in 1..(c + 1), NEW x \in 1..(c + 1), m < x PROVE q[m] < q[x]
        <5>1. m \in 1..c BY <4>3, <4>9
        <5>2. q[m] = k[m] /\ k[m] \in 1..n
          <6>1. m # c + 1 BY <4>3, <5>1
          <6>2. k[m] \in T BY <5>1
          <6> QED BY <4>1, <6>1, <6>2
        <5>3. CASE x = c + 1
          <6>1. q[x] = n + 1 BY <5>3
          <6> QED BY <5>2, <6>1
        <5>4. CASE x # c + 1
          <6>1. x \in 1..c BY <4>3, <5>4
          <6>2. k[m] < k[x] BY <4>7, <4>9, <5>1, <6>1 DEF Increasing
          <6>3. q[x] = k[x] BY <5>4
          <6> QED BY <5>2, <6>2, <6>3
        <5> QED BY <5>3, <5>4
      <4>10. Increasing(q) BY <4>9 DEF Increasing
      <4> QED BY <4>5, <4>8, <4>10
    <3> QED BY <3>0, <3>1
  <2> QED BY <2>1
<1> HIDE DEF P
<1>3. Bad = {}
  <2> SUFFICES ASSUME Bad # {} PROVE FALSE OBVIOUS
  <2>1. PICK k \in Bad : \A l \in Bad : k <= l BY Least
  <2>2. k \in Nat /\ ~P(k) /\ k # 0 BY <1>1
  <2>3. k - 1 \in Nat /\ k - 1 \notin Bad BY <2>1, <2>2
  <2>4. P(k - 1) BY <2>3
  <2>5. P((k - 1) + 1) BY <1>2, <2>3, <2>4
  <2>6. (k - 1) + 1 = k BY <2>2
  <2> QED BY <2>2, <2>5, <2>6
<1> QED BY <1>3 DEF P

\* Sorted enumerates a set of numbers, each one once.
LEMMA SortedFacts ==
    ASSUME NEW n \in Nat, NEW S \in SUBSET (1..n)
    PROVE  /\ Cardinality(S) \in Nat /\ Sorted(S) \in [1..Cardinality(S) -> S]
           /\ \A j \in S : \E m \in 1..Cardinality(S) : Sorted(S)[m] = j
           /\ \A m, l \in 1..Cardinality(S) : Sorted(S)[m] = Sorted(S)[l] => m = l
<1> DEFINE k == Sorted(S)
           c == Cardinality(S)
<1>0. IsFiniteSet(1..n) BY FS_Interval
<1>1. IsFiniteSet(S) /\ c \in Nat BY <1>0, FS_Subset, FS_CardinalityType
<1>2. \E q \in [1..c -> S] : \A m, l \in DOMAIN q : m < l => q[m] < q[l]
  BY Enumerable DEF Increasing
<1>3. k \in [1..c -> S] /\ \A m, l \in 1..c : m < l => k[m] < k[l]
  BY <1>2 DEF Sorted
<1> HIDE DEF k, c
<1>4. ASSUME NEW m \in 1..c, NEW l \in 1..c, k[m] = k[l] PROVE m = l
  <2>1. k[m] \in Int /\ k[l] \in Int
    <3>1. k[m] \in S /\ k[l] \in S BY <1>3
    <3>2. S \subseteq Int OBVIOUS
    <3> QED BY ONLY <3>1, <3>2
  <2>2. ~(m < l) /\ ~(l < m) BY <1>3, <1>4, <2>1
  <2> QED BY <2>2
<1>5. k \in Injection(1..c, S) BY <1>3, <1>4 DEF Injection, IsInjective
<1>6. Cardinality(1..c) = c /\ IsFiniteSet(1..c) BY <1>1, FS_Interval
<1>7. k \in Surjection(1..c, S) BY <1>1, <1>5, <1>6, FS_Injection DEF c
<1>8. \A j \in S : \E m \in 1..c : k[m] = j BY <1>7 DEF Surjection
<1> QED BY <1>1, <1>3, <1>4, <1>8 DEF k, c

-----------------------------------------------------------------------------
(* The division of the packets: a packet of its own, a packet that joins a *)
(* buffer, items that are dropped.                                         *)

\* The same bytes; the virtio header may differ.
Same(b, c) ==
    /\ c.proto = b.proto /\ c.flow = b.flow /\ c.hdr = b.hdr /\ c.seq = b.seq
    /\ c.flags = b.flags /\ c.csum = b.csum /\ c.room = b.room /\ c.payload = b.payload

\* An item describes its buffer also when more packets come and its virtio header is written.
LEMMA DescribesExtend ==
    ASSUME NEW pk \in Seq(AllPackets), NEW p \in AllPackets, NEW item, NEW key, NEW q, NEW b, NEW c,
           NEW l \in Seq(1..Len(pk)), Describes(item, key, q, pk, b, l), Same(b, c)
    PROVE  Describes(item, key, q, Append(pk, p), c, l)
<1> DEFINE pp == Append(pk, p)
           g == item.gsoSize
<1>1. \A j \in 1..Len(pk) : pp[j] = pk[j]
  BY AppendFacts
<1>2. \A m \in 1..Len(l) : l[m] \in 1..Len(pk) OBVIOUS
<1>3. \A m \in 1..Len(l) : pp[l[m]] = pk[l[m]] BY ONLY <1>1, <1>2
<1>4. Holds(pk, b, g, l) BY DEF Describes
<1> HIDE DEF pp, g
<1>5. l # <<>> /\ Len(l) \in 1..Len(l)
  <2>1. l # <<>> BY <1>4 DEF Holds
  <2>2. Len(l) \in Nat /\ Len(l) # 0 BY <2>1
  <2> QED BY ONLY <2>1, <2>2
<1>6. c.payload = b.payload /\ c.flags = b.flags /\ c.proto = b.proto /\ c.flow = b.flow /\ c.hdr = b.hdr /\ c.seq = b.seq
  BY DEF Same
<1>7. ASSUME NEW m \in 1..Len(l) PROVE Piece(pp, c, g, l, m)
  <2>1. Piece(pk, b, g, l, m) BY <1>4 DEF Holds
  <2>2. pp[l[m]] = pk[l[m]] BY <1>3
  <2> QED BY ONLY <1>6, <2>1, <2>2 DEF Piece
<1>8. /\ Len(c.payload) = (Len(l) - 1) * g + pp[l[Len(l)]].len
      /\ c.flags = "psh" => pp[l[Len(l)]].flags = "psh"
  <2>1. pp[l[Len(l)]] = pk[l[Len(l)]] BY ONLY <1>3, <1>5
  <2> QED BY ONLY <1>4, <1>6, <2>1 DEF Holds
<1>9. Holds(pp, c, g, l) BY ONLY <1>5, <1>7, <1>8 DEF Holds
<1>10. Describes(item, key, q, pk, b, l) /\ Same(b, c) OBVIOUS
<1> QED BY ONLY <1>9, <1>10 DEF Describes, Same, g, pp

\* A buffer that keeps its packets.
LEMMA PlainExtend ==
    ASSUME NEW pk \in Seq(AllPackets), NEW p \in AllPackets, NEW w \in 1..Len(pk), NEW b, NEW c,
           Plain(pk, b, w), Same(b, c)
    PROVE  Plain(Append(pk, p), c, w)
<1>1. Append(pk, p)[w] = pk[w] BY AppendFacts
<1> QED BY ONLY <1>1, Plain(pk, b, w), Same(b, c) DEF Plain, Same

\* The items of a flow are replaced.
Put(ts, q, key, items) ==
    [r \in Protos |-> IF r = q
        THEN [k \in DOMAIN ts[r] \cup {key} |-> IF k = key THEN items ELSE ts[r][k]]
        ELSE ts[r]]

\* What one more packet leaves alone: the buffers of the other flows.
Others(lists, bs, ts, q, key, lists2, bs2) ==
    \A v \in DOMAIN lists :
       ~(bs[v].proto = q /\ bs[v].flow = key) =>
          v \in DOMAIN lists2 /\ lists2[v] = lists[v] /\ Same(bs[v], bs2[v])

Covered(lists, bs, ts, q, key, lists2, bs2, items) ==
    \A v \in DOMAIN lists2 :
       \/ \E j \in DOMAIN items : items[j].bufsIndex = v
       \/ bs2[v].vnet = NoGSO /\ Len(lists2[v]) = 1
       \/ /\ v \in DOMAIN lists /\ bs2[v].vnet \in {bs[v].vnet, NoGSO} /\ lists2[v] = lists[v]
          /\ key \in DOMAIN ts[q] => \A j \in DOMAIN ts[q][key] : ts[q][key][j].bufsIndex # v

\* One more packet of the flow key, for which the table q gets these items.
LEMMA PutStep ==
    ASSUME NEW pk \in Seq(AllPackets), NEW p \in AllPackets, NEW lists, NEW bs, NEW ts,
           NEW q \in Protos, NEW key, NEW lists2, NEW bs2, NEW items,
           Groups(lists, pk, bs, ts),
           ListsOK(lists2, Append(pk, p)), BuffersOK(lists2, Append(pk, p), bs2),
           Others(lists, bs, ts, q, key, lists2, bs2),
           ItemsOK(items, key, q, lists2, Append(pk, p), bs2),
           Covered(lists, bs, ts, q, key, lists2, bs2, items)
    PROVE  Groups(lists2, Append(pk, p), bs2, Put(ts, q, key, items))
<1> DEFINE pp == Append(pk, p)
           t2 == Put(ts, q, key, items)
<1>1. ASSUME NEW r \in Protos, NEW k \in DOMAIN t2[r] PROVE ItemsOK(t2[r][k], k, r, lists2, pp, bs2)
  <2>1. CASE r = q /\ k = key
    <3>1. t2[r][k] = items BY <2>1, <1>1 DEF Put
    <3> QED BY <2>1, <3>1
  <2>2. CASE ~(r = q /\ k = key)
    <3> DEFINE its == ts[r][k]
    <3>1. k \in DOMAIN ts[r] /\ t2[r][k] = its BY <2>2, <1>1 DEF Put
    <3>2. ItemsOK(its, k, r, lists, pk, bs) BY <3>1 DEF Groups, TablesOK
    <3> HIDE DEF its
    <3>3. ASSUME NEW j \in DOMAIN its
          PROVE  /\ its[j].bufsIndex \in DOMAIN lists2
                 /\ Describes(its[j], k, r, pp, bs2[its[j].bufsIndex], lists2[its[j].bufsIndex])
      <4> DEFINE v == its[j].bufsIndex
      <4>1. v \in DOMAIN lists /\ Describes(its[j], k, r, pk, bs[v], lists[v]) BY <3>2, <3>3 DEF ItemsOK
      <4>2. bs[v].proto = r /\ bs[v].flow = k BY <4>1 DEF Describes
      <4>3. v \in DOMAIN lists2 /\ lists2[v] = lists[v] /\ Same(bs[v], bs2[v])
        BY <2>2, <4>1, <4>2 DEF Others
      <4>4. lists[v] \in Seq(1..Len(pk)) BY <4>1 DEF Groups, ListsOK
      <4>5. Describes(its[j], k, r, pp, bs2[v], lists[v]) BY <4>1, <4>3, <4>4, DescribesExtend
      <4> QED BY <4>3, <4>5
    <3> QED BY <3>1, <3>2, <3>3 DEF ItemsOK
  <2> QED BY <2>1, <2>2
<1>2. TablesOK(lists2, pp, bs2, t2) BY <1>1 DEF TablesOK
<1>3. ASSUME NEW v \in DOMAIN lists2
      PROVE  Indexed(t2, v) \/ (bs2[v].vnet = NoGSO /\ Len(lists2[v]) = 1)
  <2>0. t2[q][key] = items /\ key \in DOMAIN t2[q] BY DEF Put
  <2>1. CASE \E j \in DOMAIN items : items[j].bufsIndex = v
    BY <2>0, <2>1 DEF Indexed
  <2>2. CASE /\ v \in DOMAIN lists /\ bs2[v].vnet \in {bs[v].vnet, NoGSO} /\ lists2[v] = lists[v]
             /\ key \in DOMAIN ts[q] => \A j \in DOMAIN ts[q][key] : ts[q][key][j].bufsIndex # v
    <3>1. Indexed(ts, v) \/ (bs[v].vnet = NoGSO /\ Len(lists[v]) = 1) BY <2>2 DEF Groups
    <3>2. CASE bs[v].vnet = NoGSO /\ Len(lists[v]) = 1 BY <2>2, <3>2
    <3>3. CASE Indexed(ts, v)
      <4>a. PICK r \in Protos : \E k \in DOMAIN ts[r] : \E j \in DOMAIN ts[r][k] : ts[r][k][j].bufsIndex = v
        BY <3>3 DEF Indexed
      <4>b. PICK k \in DOMAIN ts[r] : \E j \in DOMAIN ts[r][k] : ts[r][k][j].bufsIndex = v BY <4>a
      <4>1. PICK j \in DOMAIN ts[r][k] : ts[r][k][j].bufsIndex = v BY <4>b
      <4>2. ~(r = q /\ k = key) BY <2>2, <4>1
      <4>3. k \in DOMAIN t2[r] /\ t2[r][k] = ts[r][k] BY <4>2 DEF Put
      <4> QED BY <4>1, <4>3 DEF Indexed
    <3> QED BY <3>1, <3>2, <3>3
  <2> QED BY <1>3, <2>1, <2>2 DEF Covered
<1> QED BY <1>2, <1>3 DEF Groups

\* One more packet that does not enter a table.
LEMMA KeepStep ==
    ASSUME NEW pk \in Seq(AllPackets), NEW p \in AllPackets, NEW lists, NEW bs, NEW ts,
           NEW lists2, NEW bs2, Groups(lists, pk, bs, ts),
           ListsOK(lists2, Append(pk, p)), BuffersOK(lists2, Append(pk, p), bs2),
           \A v \in DOMAIN lists : v \in DOMAIN lists2 /\ lists2[v] = lists[v] /\ bs2[v] = bs[v],
           \A v \in DOMAIN lists2 \ DOMAIN lists : bs2[v].vnet = NoGSO /\ Len(lists2[v]) = 1
    PROVE  Groups(lists2, Append(pk, p), bs2, ts)
<1> DEFINE pp == Append(pk, p)
<1>1. ASSUME NEW r \in Protos, NEW k \in DOMAIN ts[r] PROVE ItemsOK(ts[r][k], k, r, lists2, pp, bs2)
  <2> DEFINE its == ts[r][k]
  <2>1. ItemsOK(its, k, r, lists, pk, bs) BY DEF Groups, TablesOK
  <2> HIDE DEF its
  <2>2. ASSUME NEW j \in DOMAIN its
        PROVE  /\ its[j].bufsIndex \in DOMAIN lists2
               /\ Describes(its[j], k, r, pp, bs2[its[j].bufsIndex], lists2[its[j].bufsIndex])
    <3> DEFINE v == its[j].bufsIndex
    <3>1. v \in DOMAIN lists /\ Describes(its[j], k, r, pk, bs[v], lists[v]) BY <2>1, <2>2 DEF ItemsOK
    <3>2. v \in DOMAIN lists2 /\ lists2[v] = lists[v] /\ Same(bs[v], bs2[v]) BY <3>1 DEF Same
    <3>3. lists[v] \in Seq(1..Len(pk)) BY <3>1 DEF Groups, ListsOK
    <3>4. Describes(its[j], k, r, pp, bs2[v], lists[v]) BY <3>1, <3>2, <3>3, DescribesExtend
    <3> QED BY <3>2, <3>4
  <2>3. ItemsOK(its, k, r, lists2, pp, bs2) BY <2>1, <2>2 DEF ItemsOK
  <2> QED BY <2>3 DEF its
<1>2. TablesOK(lists2, pp, bs2, ts) BY <1>1 DEF TablesOK
<1>3. ASSUME NEW v \in DOMAIN lists2
      PROVE  Indexed(ts, v) \/ (bs2[v].vnet = NoGSO /\ Len(lists2[v]) = 1)
  <2>1. v \in DOMAIN lists => Indexed(ts, v) \/ (bs[v].vnet = NoGSO /\ Len(lists[v]) = 1) BY DEF Groups
  <2> QED BY <2>1
<1> QED BY <1>2, <1>3 DEF Groups

\* A new packet's buffer.
LEMMA BufferType ==
    ASSUME NEW p \in AllPackets, NEW i \in Nat
    PROVE  /\ Buffer(p, i) \in Buffers /\ Buffer(p, i).vnet = Stale
           /\ Buffer(p, i).payload = Tok(p, i) /\ Buffer(p, i).len = p.len
           /\ Buffer(p, i).room = p.room
           /\ Buffer(p, i).room < LenSpace /\ Buffer(p, i).len <= Buffer(p, i).room
<1>1. /\ p.proto \in {"tcp", "udp", "other"} /\ p.flags \in {"ack", "psh", "other"}
      /\ p.csum \in BOOLEAN /\ p.seq \in Nat /\ p.room \in Nat /\ p.len \in Nat
      /\ p.room < LenSpace /\ p.len <= p.room
  BY PacketType
<1>2. p.flow \in {x.flow : x \in AllPackets} /\ p.hdr \in {x.hdr : x \in AllPackets} OBVIOUS
<1>3. Tok(p, i) \in Seq(Nat \X Nat) BY TokType
<1>4. Buffer(p, i).payload = Tok(p, i) BY DEF Buffer, Tok
<1>5. /\ Buffer(p, i).vnet = Stale /\ Buffer(p, i).len = p.len /\ Buffer(p, i).room = p.room BY DEF Buffer
<1>6. Stale \in Int BY DEF Stale
<1>7. Buffer(p, i) = [proto |-> p.proto, flow |-> p.flow, hdr |-> p.hdr, seq |-> p.seq,
     flags |-> p.flags, csum |-> p.csum, room |-> p.room, len |-> p.len,
     payload |-> Tok(p, i), vnet |-> Stale] BY DEF Buffer, Tok
<1>8. Buffer(p, i) \in Buffers BY ONLY <1>1, <1>2, <1>3, <1>6, <1>7 DEF Buffers
<1> QED BY <1>1, <1>4, <1>5, <1>8

\* A packet's own buffer shows it as it came in.
LEMMA BufferPlain ==
    ASSUME NEW pk \in Seq(AllPackets), NEW w \in 1..Len(pk), NEW b, Same(Buffer(pk[w], w), b)
    PROVE  Plain(pk, b, w)
BY DEF Same, Plain, Buffer

Own(lists, i) == [w \in DOMAIN lists \cup {i} |-> IF w = i THEN <<i>> ELSE lists[w]]

\* The new packet stays in its own buffer.
LEMMA OwnLists ==
    ASSUME NEW pk \in Seq(AllPackets), NEW p \in AllPackets, NEW lists, ListsOK(lists, pk)
    PROVE  /\ ListsOK(Own(lists, Len(pk) + 1), Append(pk, p)) /\ Len(pk) + 1 \notin DOMAIN lists
           /\ DOMAIN Own(lists, Len(pk) + 1) = DOMAIN lists \cup {Len(pk) + 1}
           /\ Own(lists, Len(pk) + 1)[Len(pk) + 1] = <<Len(pk) + 1>>
           /\ \A w \in DOMAIN lists : Own(lists, Len(pk) + 1)[w] = lists[w]
<1> DEFINE n == Len(pk)
           i == n + 1
           l2 == Own(lists, i)
           S == 1..n
           T == 1..i
<1>1. n \in Nat /\ Len(Append(pk, p)) = i OBVIOUS
<1>2. DOMAIN lists \subseteq S /\ lists \in [DOMAIN lists -> Seq(S)] BY DEF ListsOK
<1>3. S \subseteq T /\ i \in T /\ i \notin S /\ T = S \cup {i} BY <1>1
<1>4. \A j \in S : \E w \in DOMAIN lists : \E m \in DOMAIN lists[w] : lists[w][m] = j BY DEF ListsOK
<1>5. \A w, v \in DOMAIN lists : \A m \in DOMAIN lists[w], x \in DOMAIN lists[v] :
          lists[w][m] = lists[v][x] => w = v /\ m = x BY DEF ListsOK
<1> HIDE DEF n, i, S, T
<1>6. i \notin DOMAIN lists BY <1>2, <1>3
<1>7. DOMAIN l2 = DOMAIN lists \cup {i} /\ l2[i] = <<i>> /\ \A w \in DOMAIN lists : l2[w] = lists[w]
  BY <1>6 DEF Own
<1> HIDE DEF l2
<1>8. ASSUME NEW w \in DOMAIN lists PROVE /\ lists[w] \in Seq(T)
                                          /\ \A m \in DOMAIN lists[w] : lists[w][m] \in S
  <2>1. lists[w] \in Seq(S) BY <1>2
  <2>2. \A m \in DOMAIN lists[w] : lists[w][m] \in S BY <2>1
  <2>3. lists[w] \in Seq(T) BY <1>3, <2>1
  <2> QED BY <2>2, <2>3
<1>9. DOMAIN <<i>> = {1} /\ <<i>>[1] = i /\ <<i>> \in Seq(T) BY <1>3
<1>10. l2 \in [DOMAIN l2 -> Seq(T)]
  <2>1. \A w \in DOMAIN l2 : l2[w] \in Seq(T) BY <1>7, <1>8, <1>9
  <2>2. l2 = [w \in DOMAIN l2 |-> l2[w]] BY DEF l2, Own
  <2> QED BY <2>1, <2>2
<1>11. ASSUME NEW j \in T PROVE \E w \in DOMAIN l2 : \E m \in DOMAIN l2[w] : l2[w][m] = j
  <2>1. CASE j = i BY <1>7, <1>9, <2>1
  <2>2. CASE j # i
    <3>1. j \in S BY <1>3, <2>2
    <3>2. PICK w \in DOMAIN lists : \E m \in DOMAIN lists[w] : lists[w][m] = j BY <1>4, <3>1
    <3> QED BY <1>7, <3>2
  <2> QED BY <2>1, <2>2
<1>12. ASSUME NEW w \in DOMAIN l2, NEW v \in DOMAIN l2, NEW m \in DOMAIN l2[w], NEW x \in DOMAIN l2[v],
              l2[w][m] = l2[v][x]
       PROVE  w = v /\ m = x
  <2>1. CASE w \in DOMAIN lists /\ v \in DOMAIN lists
    <3>1. l2[w] = lists[w] /\ l2[v] = lists[v] BY <1>7, <2>1
    <3> QED BY <1>5, <1>12, <2>1, <3>1
  <2>2. CASE w = i /\ v = i BY <1>7, <1>9, <1>12, <2>2
  <2>3. CASE w = i /\ v \in DOMAIN lists
    <3>1. l2[w][m] = i /\ l2[v][x] \in S BY <1>7, <1>8, <1>9, <1>12, <2>3
    <3> QED BY <1>3, <1>12, <3>1
  <2>4. CASE v = i /\ w \in DOMAIN lists
    <3>1. l2[v][x] = i /\ l2[w][m] \in S BY <1>7, <1>8, <1>9, <1>12, <2>4
    <3> QED BY <1>3, <1>12, <3>1
  <2> QED BY <1>7, <2>1, <2>2, <2>3, <2>4
<1>13. ListsOK(l2, Append(pk, p))
  <2>1. 1..Len(Append(pk, p)) = T BY <1>1 DEF T
  <2>2. DOMAIN l2 \subseteq T BY <1>2, <1>3, <1>7
  <2> QED BY <1>10, <1>11, <1>12, <2>1, <2>2 DEF ListsOK
<1> QED BY <1>6, <1>7, <1>13 DEF l2, i, n

Joined(lists, w, l) == [v \in DOMAIN lists |-> IF v = w THEN l ELSE lists[v]]

\* l holds the packets of k and the packet i.
Joins(l, k, i) ==
    /\ \A m \in DOMAIN l : l[m] = i \/ \E x \in DOMAIN k : l[m] = k[x]
    /\ \E m \in DOMAIN l : l[m] = i
    /\ \A x \in DOMAIN k : \E m \in DOMAIN l : l[m] = k[x]
    /\ \A m, x \in DOMAIN l : l[m] = l[x] => m = x

\* The new packet is merged into buffer w.
LEMMA JoinedLists ==
    ASSUME NEW pk \in Seq(AllPackets), NEW p \in AllPackets, NEW lists, ListsOK(lists, pk),
           NEW w \in DOMAIN lists, NEW l \in Seq(1..(Len(pk) + 1)), Joins(l, lists[w], Len(pk) + 1)
    PROVE  /\ ListsOK(Joined(lists, w, l), Append(pk, p))
           /\ DOMAIN Joined(lists, w, l) = DOMAIN lists /\ Joined(lists, w, l)[w] = l
           /\ \A v \in DOMAIN lists \ {w} : Joined(lists, w, l)[v] = lists[v]
<1> DEFINE n == Len(pk)
           i == n + 1
           l2 == Joined(lists, w, l)
           S == 1..n
           T == 1..i
<1>1. n \in Nat /\ Len(Append(pk, p)) = i OBVIOUS
<1>2. DOMAIN lists \subseteq S /\ lists \in [DOMAIN lists -> Seq(S)] BY DEF ListsOK
<1>3. S \subseteq T /\ i \in T /\ i \notin S /\ T = S \cup {i} BY <1>1
<1>4. \A j \in S : \E v \in DOMAIN lists : \E m \in DOMAIN lists[v] : lists[v][m] = j BY DEF ListsOK
<1>5. \A u, v \in DOMAIN lists : \A m \in DOMAIN lists[u], x \in DOMAIN lists[v] :
          lists[u][m] = lists[v][x] => u = v /\ m = x BY DEF ListsOK
<1>6. l \in Seq(T) /\ Joins(l, lists[w], i) OBVIOUS
<1> HIDE DEF n, i, S, T
<1>7. DOMAIN l2 = DOMAIN lists /\ l2[w] = l /\ \A v \in DOMAIN lists \ {w} : l2[v] = lists[v]
  BY DEF Joined
<1>8. ASSUME NEW v \in DOMAIN lists PROVE /\ lists[v] \in Seq(T)
                                          /\ \A m \in DOMAIN lists[v] : lists[v][m] \in S
  <2>1. lists[v] \in Seq(S) BY <1>2
  <2>2. \A m \in DOMAIN lists[v] : lists[v][m] \in S BY <2>1
  <2>3. lists[v] \in Seq(T) BY <1>3, <2>1
  <2> QED BY <2>2, <2>3
<1>9. l2 \in [DOMAIN l2 -> Seq(T)]
  <2>1. \A v \in DOMAIN l2 : l2[v] \in Seq(T) BY <1>6, <1>7, <1>8
  <2>2. l2 = [v \in DOMAIN l2 |-> l2[v]] BY DEF Joined
  <2> HIDE DEF l2
  <2> QED BY <2>1, <2>2
<1> HIDE DEF l2
<1>10. ASSUME NEW j \in T PROVE \E v \in DOMAIN l2 : \E m \in DOMAIN l2[v] : l2[v][m] = j
  <2>1. CASE j = i
    <3>1. \E m \in DOMAIN l : l[m] = i BY <1>6 DEF Joins
    <3> QED BY <1>7, <2>1, <3>1
  <2>2. CASE j # i
    <3>1. j \in S BY <1>3, <2>2
    <3>2. PICK v \in DOMAIN lists : \E m \in DOMAIN lists[v] : lists[v][m] = j BY <1>4, <3>1
    <3>3. CASE v = w
      <4>1. \E m \in DOMAIN l : l[m] = j BY <1>6, <3>2, <3>3 DEF Joins
      <4> QED BY <1>7, <4>1
    <3>4. CASE v # w BY <1>7, <3>2, <3>4
    <3> QED BY <3>3, <3>4
  <2> QED BY <2>1, <2>2
<1>11. ASSUME NEW v \in DOMAIN lists \ {w}, NEW m \in DOMAIN l, NEW x \in DOMAIN lists[v], l[m] = lists[v][x]
       PROVE  FALSE
  <2>1. lists[v][x] \in S BY <1>8, <1>11
  <2>2. l[m] # i BY <1>3, <1>11, <2>1
  <2>3. PICK y \in DOMAIN lists[w] : l[m] = lists[w][y] BY <1>6, <2>2 DEF Joins
  <2>4. w = v BY <1>5, <1>11, <2>3
  <2> QED BY <2>4
<1>12. ASSUME NEW u \in DOMAIN l2, NEW v \in DOMAIN l2, NEW m \in DOMAIN l2[u], NEW x \in DOMAIN l2[v],
              l2[u][m] = l2[v][x]
       PROVE  u = v /\ m = x
  <2>1. CASE u # w /\ v # w
    <3>1. l2[u] = lists[u] /\ l2[v] = lists[v] /\ u \in DOMAIN lists /\ v \in DOMAIN lists BY <1>7, <2>1
    <3> QED BY <1>5, <1>12, <3>1
  <2>2. CASE u = w /\ v = w
    <3>1. m \in DOMAIN l /\ x \in DOMAIN l /\ l[m] = l[x] BY <1>7, <1>12, <2>2
    <3> QED BY <1>6, <2>2, <3>1 DEF Joins
  <2>3. CASE u = w /\ v # w
    <3>1. m \in DOMAIN l /\ v \in DOMAIN lists \ {w} /\ x \in DOMAIN lists[v] /\ l[m] = lists[v][x] BY <1>7, <1>12, <2>3
    <3> QED BY <1>11, <3>1
  <2>4. CASE v = w /\ u # w
    <3>1. x \in DOMAIN l /\ u \in DOMAIN lists \ {w} /\ m \in DOMAIN lists[u] /\ l[x] = lists[u][m] BY <1>7, <1>12, <2>4
    <3> QED BY <1>11, <3>1
  <2> QED BY <2>1, <2>2, <2>3, <2>4
<1>13. ListsOK(l2, Append(pk, p))
  <2>1. 1..Len(Append(pk, p)) = T BY <1>1 DEF T
  <2>2. DOMAIN l2 \subseteq T BY <1>2, <1>3, <1>7
  <2> QED BY <1>9, <1>10, <1>12, <2>1, <2>2 DEF ListsOK
<1> QED BY <1>7, <1>13 DEF l2

\* A packet behind a list, or in front of it.
LEMMA AppendJoins ==
    ASSUME NEW S, NEW l \in Seq(S), NEW i, i \notin S,
           \A m, x \in DOMAIN l : l[m] = l[x] => m = x
    PROVE  Joins(Append(l, i), l, i)
<1> DEFINE k == Append(l, i)
           n == Len(l)
           T == S \cup {i}
<1>0. l \in Seq(T) /\ i \in T OBVIOUS
<1> HIDE DEF T
<1>1. Len(k) = n + 1 /\ k[n + 1] = i /\ \A m \in 1..n : k[m] = l[m] BY ONLY <1>0, AppendFacts
<1>2. n \in Nat /\ DOMAIN l = 1..n /\ DOMAIN k = 1..(n + 1) BY <1>0, <1>1
<1>3. \A m \in 1..n : l[m] \in S OBVIOUS
<1> HIDE DEF k, n
<1>4. \A m \in 1..(n + 1) : m = n + 1 \/ m \in 1..n BY <1>2
<1>5. \A m \in 1..n : m \in 1..(n + 1) /\ m # n + 1 BY <1>2
<1>6. n + 1 \in 1..(n + 1) BY <1>2
<1>7. \A m, x \in DOMAIN k : k[m] = k[x] => m = x BY ONLY <1>1, <1>2, <1>3, <1>4, i \notin S,
           \A m, x \in DOMAIN l : l[m] = l[x] => m = x
<1>8. Joins(k, l, i) BY ONLY <1>1, <1>2, <1>4, <1>5, <1>6, <1>7 DEF Joins
<1> QED BY <1>8 DEF k

\* The same in front.
LEMMA PrependJoins ==
    ASSUME NEW S, NEW l \in Seq(S), NEW i, i \notin S,
           \A m, x \in DOMAIN l : l[m] = l[x] => m = x
    PROVE  Joins(<<i>> \o l, l, i)
<1> DEFINE k == <<i>> \o l
           n == Len(l)
           T == S \cup {i}
<1>0. l \in Seq(T) /\ i \in T OBVIOUS
<1> HIDE DEF T
<1>1. Len(k) = n + 1 /\ k \in Seq(T) /\ k[1] = i /\ \A m \in 1..n : k[m + 1] = l[m] BY ONLY <1>0, PrependFacts
<1>2. n \in Nat /\ DOMAIN l = 1..n /\ DOMAIN k = 1..(n + 1) BY <1>0, <1>1
<1>3. \A m \in 1..n : l[m] \in S OBVIOUS
<1> HIDE DEF k, n
<1>4. \A m \in 1..(n + 1) : m = 1 \/ (m - 1 \in 1..n /\ (m - 1) + 1 = m) BY <1>2
<1>5. \A m \in 1..n : m + 1 \in 1..(n + 1) /\ m + 1 # 1 BY <1>2
<1>6. 1 \in 1..(n + 1) BY <1>2
<1>7. \A m \in 1..(n + 1) : m # 1 => k[m] = l[m - 1] /\ k[m] \in S /\ m - 1 \in 1..n BY ONLY <1>1, <1>3, <1>4
<1>8. ASSUME NEW m \in 1..(n + 1), NEW x \in 1..(n + 1), k[m] = k[x] PROVE m = x
  <2>1. CASE m = 1 BY ONLY <1>1, <1>7, <1>8, <2>1, i \notin S, x \in 1..(n + 1)
  <2>2. CASE x = 1 BY ONLY <1>1, <1>7, <1>8, <2>2, i \notin S, m \in 1..(n + 1)
  <2>3. CASE m # 1 /\ x # 1
    <3>1. m - 1 \in 1..n /\ x - 1 \in 1..n /\ l[m - 1] = l[x - 1] BY <1>7, <1>8, <2>3
    <3>2. m - 1 = x - 1 BY <1>2, <3>1
    <3> QED BY <1>2, <3>2
  <2> QED BY <2>1, <2>2, <2>3
<1>9. \A m \in DOMAIN k : k[m] = i \/ \E x \in DOMAIN l : k[m] = l[x] BY ONLY <1>1, <1>2, <1>7
<1>10. \A x \in DOMAIN l : \E m \in DOMAIN k : k[m] = l[x] BY ONLY <1>1, <1>2, <1>5
<1>11. Joins(k, l, i) BY ONLY <1>1, <1>2, <1>6, <1>8, <1>9, <1>10 DEF Joins
<1> QED BY <1>11 DEF k

\* Only virtio headers change.
Kept(bs, bs2) ==
    \A b \in DOMAIN bs : /\ Same(bs[b], bs2[b]) /\ bs2[b].len = bs[b].len
                         /\ bs2[b].vnet \in {bs[b].vnet, NoGSO}

\* The new packet stays in its own buffer.
LEMMA OwnBuffers ==
    ASSUME NEW pk \in Seq(AllPackets), NEW p \in AllPackets, NEW lists, NEW bs, NEW bs2 \in Seq(Buffers),
           ListsOK(lists, pk), BuffersOK(lists, pk, bs), Len(bs2) = Len(pk) + 1, Kept(bs, bs2),
           Same(Buffer(p, Len(pk) + 1), bs2[Len(pk) + 1]), bs2[Len(pk) + 1].len = p.len,
           bs2[Len(pk) + 1].vnet \in {Stale, NoGSO}
    PROVE  BuffersOK(Own(lists, Len(pk) + 1), Append(pk, p), bs2)
<1> DEFINE i == Len(pk) + 1
           pp == Append(pk, p)
           l2 == Own(lists, i)
<1>1. pp \in Seq(AllPackets) /\ Len(pp) = i /\ i \in 1..i /\ pp[i] = p BY AppendFacts
<1>2. DOMAIN l2 = DOMAIN lists \cup {i} /\ l2[i] = <<i>> /\ \A w \in DOMAIN lists : l2[w] = lists[w]
  BY OwnLists
<1>3. DOMAIN bs = 1..Len(pk) /\ DOMAIN bs2 = 1..i /\ DOMAIN lists \subseteq 1..Len(pk)
  BY DEF BuffersOK, ListsOK
<1>4. \A b \in 1..i : b = i \/ b \in 1..Len(pk) OBVIOUS
<1>5. ASSUME NEW b \in DOMAIN bs2
      PROVE  bs2[b].vnet \in {Stale, NoGSO} /\ bs2[b].room < LenSpace /\ bs2[b].len <= bs2[b].room
  <2>1. CASE b = i
    <3>1. /\ Buffer(p, i).room = p.room /\ Buffer(p, i).room < LenSpace
          /\ Buffer(p, i).len = p.len /\ Buffer(p, i).len <= Buffer(p, i).room
      BY <1>1, BufferType
    <3>2. bs2[b].room = Buffer(p, i).room BY <2>1 DEF Same
    <3> QED BY <2>1, <3>1, <3>2
  <2>2. CASE b \in DOMAIN bs
    <3>1. bs[b].vnet \in {Stale, NoGSO} /\ bs[b].room < LenSpace /\ bs[b].len <= bs[b].room
      BY <2>2 DEF BuffersOK
    <3>2. bs2[b].room = bs[b].room /\ bs2[b].len = bs[b].len /\ bs2[b].vnet \in {bs[b].vnet, NoGSO}
      BY <2>2 DEF Kept, Same
    <3> QED BY <3>1, <3>2
  <2> QED BY <1>3, <1>4, <2>1, <2>2
<1>6. ASSUME NEW w \in DOMAIN l2, Len(l2[w]) = 1 PROVE l2[w] = <<w>> /\ Plain(pp, bs2[w], w)
  <2>1. CASE w = i
    <3>1. Plain(pp, bs2[i], i) BY <1>1, BufferPlain
    <3> QED BY <1>2, <2>1, <3>1
  <2>2. CASE w \in DOMAIN lists
    <3>1. lists[w] = <<w>> /\ Plain(pk, bs[w], w) BY <1>2, <1>6, <2>2 DEF BuffersOK
    <3>2. Same(bs[w], bs2[w]) /\ w \in 1..Len(pk) BY <1>3, <2>2 DEF Kept
    <3>3. Plain(pp, bs2[w], w) BY <3>1, <3>2, PlainExtend
    <3> QED BY <1>2, <2>2, <3>1, <3>3
  <2> QED BY <1>2, <2>1, <2>2
<1> QED BY <1>1, <1>5, <1>6 DEF BuffersOK

\* The new packet is merged into buffer w.
LEMMA JoinedBuffers ==
    ASSUME NEW pk \in Seq(AllPackets), NEW p \in AllPackets, NEW lists, NEW bs, NEW bs2 \in Seq(Buffers),
           ListsOK(lists, pk), BuffersOK(lists, pk, bs), Len(bs2) = Len(pk) + 1,
           NEW w \in DOMAIN lists, NEW l, Len(l) # 1,
           \A v \in DOMAIN lists \ {w} : Same(bs[v], bs2[v]),
           \A b \in DOMAIN bs2 : /\ bs2[b].vnet \in {Stale, NoGSO}
                                 /\ bs2[b].room < LenSpace /\ bs2[b].len <= bs2[b].room
    PROVE  BuffersOK(Joined(lists, w, l), Append(pk, p), bs2)
<1> DEFINE pp == Append(pk, p)
           l2 == Joined(lists, w, l)
<1>1. Len(pp) = Len(pk) + 1 BY AppendFacts
<1>2. DOMAIN l2 = DOMAIN lists /\ l2[w] = l /\ \A v \in DOMAIN lists \ {w} : l2[v] = lists[v] BY DEF Joined
<1>3. ASSUME NEW v \in DOMAIN l2, Len(l2[v]) = 1 PROVE l2[v] = <<v>> /\ Plain(pp, bs2[v], v)
  <2>1. v \in DOMAIN lists \ {w} /\ v \in 1..Len(pk) BY <1>2, <1>3 DEF ListsOK
  <2>2. lists[v] = <<v>> /\ Plain(pk, bs[v], v) BY <1>2, <1>3, <2>1 DEF BuffersOK
  <2>3. Plain(pp, bs2[v], v) BY <2>1, <2>2, PlainExtend
  <2> QED BY <1>2, <2>1, <2>2, <2>3
<1> QED BY <1>1, <1>3 DEF BuffersOK

\* The surviving items of a flow.
Selected(its, ts, q, key) ==
    /\ its \in Seq(ItemsOf(q))
    /\ \A n \in DOMAIN its : key \in DOMAIN ts[q] /\ \E j \in DOMAIN ts[q][key] : its[n] = ts[q][key][j]
    /\ \A m, n \in DOMAIN its : its[m].bufsIndex = its[n].bufsIndex => m = n

\* The other items described one packet each, and their virtio headers are zeroed.
Dropped(its, ts, q, key, bs2) ==
    key \in DOMAIN ts[q] =>
      \A j \in DOMAIN ts[q][key] :
         \/ \E n \in DOMAIN its : its[n] = ts[q][key][j]
         \/ ts[q][key][j].numMerged = 0 /\ bs2[ts[q][key][j].bufsIndex].vnet = NoGSO

\* bs2: the buffers with the one of the new packet, up to virtio headers.
Grown(pk, p, bs, bs2) ==
    /\ bs2 \in Seq(Buffers) /\ Len(bs2) = Len(pk) + 1 /\ Kept(bs, bs2)
    /\ Same(Buffer(p, Len(pk) + 1), bs2[Len(pk) + 1]) /\ bs2[Len(pk) + 1].len = p.len
    /\ bs2[Len(pk) + 1].vnet \in {Stale, NoGSO}

\* The buffers with the new one.
LEMMA Appended ==
    ASSUME NEW pk \in Seq(AllPackets), NEW p \in AllPackets, NEW bs \in Seq(Buffers), Len(bs) = Len(pk)
    PROVE  LET a == Append(bs, Buffer(p, Len(pk) + 1)) IN
           /\ a \in Seq(Buffers) /\ Len(a) = Len(pk) + 1 /\ a[Len(pk) + 1] = Buffer(p, Len(pk) + 1)
           /\ \A b \in 1..Len(pk) : a[b] = bs[b]
<1>1. Buffer(p, Len(pk) + 1) \in Buffers BY BufferType
<1> HIDE DEF Buffers
<1> QED BY <1>1, AppendFacts

\* The surviving items still describe their buffers.
LEMMA SelectedOK ==
    ASSUME NEW pk \in Seq(AllPackets), NEW p \in AllPackets, NEW lists, NEW bs, NEW bs2, NEW ts,
           NEW q \in Protos, NEW key, NEW its, Groups(lists, pk, bs, ts),
           Selected(its, ts, q, key), Grown(pk, p, bs, bs2)
    PROVE  /\ ItemsOK(its, key, q, Own(lists, Len(pk) + 1), Append(pk, p), bs2)
           /\ \A n \in DOMAIN its : its[n].bufsIndex # Len(pk) + 1
<1> DEFINE i == Len(pk) + 1
           pp == Append(pk, p)
           l2 == Own(lists, i)
<1>1. /\ DOMAIN l2 = DOMAIN lists \cup {i} /\ i \notin DOMAIN lists
      /\ \A w \in DOMAIN lists : l2[w] = lists[w]
  BY OwnLists DEF Groups
<1>2. DOMAIN lists \subseteq DOMAIN bs BY DEF Groups, ListsOK, BuffersOK
<1> HIDE DEF i, l2, pp
<1>3. ASSUME NEW n \in DOMAIN its
      PROVE  /\ its[n].bufsIndex \in DOMAIN l2 /\ its[n].bufsIndex # i
             /\ Describes(its[n], key, q, pp, bs2[its[n].bufsIndex], l2[its[n].bufsIndex])
  <2>1. PICK j \in DOMAIN ts[q][key] : its[n] = ts[q][key][j] BY DEF Selected
  <2>2. key \in DOMAIN ts[q] BY DEF Selected
  <2>3. ItemsOK(ts[q][key], key, q, lists, pk, bs) BY <2>2 DEF Groups, TablesOK
  <2> DEFINE v == its[n].bufsIndex
  <2>4. v \in DOMAIN lists /\ Describes(its[n], key, q, pk, bs[v], lists[v]) BY <2>1, <2>3 DEF ItemsOK
  <2>5. Same(bs[v], bs2[v]) BY <1>2, <2>4 DEF Grown, Kept
  <2>6. lists[v] \in Seq(1..Len(pk)) BY <2>4 DEF Groups, ListsOK
  <2>7. Describes(its[n], key, q, pp, bs2[v], lists[v]) BY <2>4, <2>5, <2>6, DescribesExtend DEF pp
  <2> QED BY <1>1, <2>4, <2>7
<1>4. ItemsOK(its, key, q, l2, pp, bs2) BY <1>3 DEF ItemsOK, Selected
<1> QED BY <1>3, <1>4 DEF i, l2, pp

\* The new packet gets a buffer; its flow keeps some items.
LEMMA OwnPutStep ==
    ASSUME NEW pk \in Seq(AllPackets), NEW p \in AllPackets, NEW lists, NEW bs, NEW bs2, NEW ts,
           NEW q \in Protos, NEW key, NEW its, NEW items, Groups(lists, pk, bs, ts), Grown(pk, p, bs, bs2),
           Dropped(its, ts, q, key, bs2),
           \A n \in DOMAIN its : \E m \in DOMAIN items : items[m] = its[n],
           ItemsOK(items, key, q, Own(lists, Len(pk) + 1), Append(pk, p), bs2),
           bs2[Len(pk) + 1].vnet = NoGSO \/ \E m \in DOMAIN items : items[m].bufsIndex = Len(pk) + 1
    PROVE  Groups(Own(lists, Len(pk) + 1), Append(pk, p), bs2, Put(ts, q, key, items))
<1> DEFINE i == Len(pk) + 1
           pp == Append(pk, p)
           l2 == Own(lists, i)
<1>1. /\ ListsOK(l2, pp) /\ DOMAIN l2 = DOMAIN lists \cup {i} /\ i \notin DOMAIN lists /\ l2[i] = <<i>>
      /\ \A w \in DOMAIN lists : l2[w] = lists[w]
  <2>1. pk \in Seq(AllPackets) /\ p \in AllPackets /\ ListsOK(lists, pk) BY DEF Groups
  <2> QED BY ONLY <2>1, OwnLists
<1>2. BuffersOK(l2, pp, bs2) BY OwnBuffers DEF Groups, Grown
<1>3. DOMAIN lists \subseteq DOMAIN bs BY DEF Groups, ListsOK, BuffersOK
<1> HIDE DEF i, l2, pp
<1>4. Others(lists, bs, ts, q, key, l2, bs2) BY <1>1, <1>3 DEF Others, Grown, Kept
<1>5. ASSUME NEW v \in DOMAIN l2
      PROVE  \/ \E j \in DOMAIN items : items[j].bufsIndex = v
             \/ bs2[v].vnet = NoGSO /\ Len(l2[v]) = 1
             \/ /\ v \in DOMAIN lists /\ bs2[v].vnet \in {bs[v].vnet, NoGSO} /\ l2[v] = lists[v]
                /\ key \in DOMAIN ts[q] => \A j \in DOMAIN ts[q][key] : ts[q][key][j].bufsIndex # v
  <2>1. CASE v = i
    <3>1. Len(l2[i]) = 1 BY <1>1
    <3> QED BY <2>1, <3>1 DEF i
  <2>2. CASE v \in DOMAIN lists
    <3>1. bs2[v].vnet \in {bs[v].vnet, NoGSO} /\ l2[v] = lists[v] BY <1>1, <1>3, <2>2 DEF Grown, Kept
    <3>2. CASE ~(key \in DOMAIN ts[q] /\ \E j \in DOMAIN ts[q][key] : ts[q][key][j].bufsIndex = v)
      BY <2>2, <3>1, <3>2
    <3>3. CASE key \in DOMAIN ts[q] /\ \E j \in DOMAIN ts[q][key] : ts[q][key][j].bufsIndex = v
      <4>1. PICK j \in DOMAIN ts[q][key] : ts[q][key][j].bufsIndex = v BY <3>3
      <4>2. CASE \E n \in DOMAIN its : its[n] = ts[q][key][j] BY <4>1, <4>2
      <4>3. CASE ts[q][key][j].numMerged = 0 /\ bs2[ts[q][key][j].bufsIndex].vnet = NoGSO
        <5>1. ItemsOK(ts[q][key], key, q, lists, pk, bs) BY <3>3 DEF Groups, TablesOK
        <5>2. Describes(ts[q][key][j], key, q, pk, bs[v], lists[v]) BY <4>1, <5>1 DEF ItemsOK
        <5>3. Len(lists[v]) = 0 + 1 BY <4>3, <5>2 DEF Describes
        <5> QED BY <3>1, <4>1, <4>3, <5>3
      <4> QED BY <3>3, <4>1, <4>2, <4>3 DEF Dropped
    <3> QED BY <3>2, <3>3
  <2> QED BY <1>1, <2>1, <2>2
<1>6. Covered(lists, bs, ts, q, key, l2, bs2, items) BY <1>5 DEF Covered
<1> QED BY <1>1, <1>2, <1>4, <1>6, PutStep DEF i, l2, pp

\* The new packet has a bad checksum: it is written alone and gets no item.
LEMMA PruneStep ==
    ASSUME NEW pk \in Seq(AllPackets), NEW p \in AllPackets, NEW lists, NEW bs, NEW bs2, NEW ts,
           NEW q \in Protos, NEW key, NEW its, Groups(lists, pk, bs, ts),
           Selected(its, ts, q, key), Dropped(its, ts, q, key, bs2), Grown(pk, p, bs, bs2),
           bs2[Len(pk) + 1].vnet = NoGSO
    PROVE  Groups(Own(lists, Len(pk) + 1), Append(pk, p), bs2, Put(ts, q, key, its))
<1>1. ItemsOK(its, key, q, Own(lists, Len(pk) + 1), Append(pk, p), bs2) BY SelectedOK
<1> QED BY <1>1, OwnPutStep

\* A new item.
NewItem(item, p, i, q, key) ==
    /\ item \in ItemsOf(q) /\ item.bufsIndex = i /\ item.numMerged = 0 /\ item.gsoSize = p.len
    /\ p.len >= 1 /\ p.proto = q /\ p.flow = key
    /\ q = "tcp" => item.sentSeq = p.seq /\ (p.flags = "psh" => item.pshSet = TRUE)

\* A new item describes its buffer.
LEMMA NewItemDescribes ==
    ASSUME NEW pk \in Seq(AllPackets), NEW w \in 1..Len(pk), NEW item, NEW q, NEW key, NEW b,
           NewItem(item, pk[w], w, q, key), Same(Buffer(pk[w], w), b)
    PROVE  Describes(item, key, q, pk, b, <<w>>)
<1> DEFINE p == pk[w]
<1>0. p \in AllPackets /\ w \in Nat OBVIOUS
<1>1. /\ b.payload = Tok(p, w) /\ b.room = p.room /\ b.proto = p.proto /\ b.flow = p.flow
      /\ b.hdr = p.hdr /\ b.seq = p.seq /\ b.flags = p.flags
  BY <1>0, BufferType DEF Same, Buffer
<1>2. p.len \in Nat /\ p.len <= p.room /\ p.room < LenSpace /\ p.room \in Nat /\ LenSpace \in Nat
  BY <1>0, PacketType
<1>3. p.len > 0 BY <1>2 DEF NewItem
<1>4. Holds(pk, b, p.len, <<w>>) BY <1>1, <1>3, HoldsSingle
<1>5. Len(b.payload) = p.len BY <1>0, <1>1, TokType
<1>6. Len(<<w>>) = 0 + 1 OBVIOUS
<1>7. p.len < LenSpace /\ Len(b.payload) <= b.room BY ONLY <1>1, <1>2, <1>5
<1>8. NewItem(item, p, w, q, key) OBVIOUS
<1> HIDE DEF p
<1> QED BY ONLY <1>1, <1>4, <1>6, <1>7, <1>8 DEF Describes, NewItem

\* The new packet gets an item.
LEMMA InsertStep ==
    ASSUME NEW pk \in Seq(AllPackets), NEW p \in AllPackets, NEW lists, NEW bs, NEW bs2, NEW ts,
           NEW q \in Protos, NEW key, NEW its, NEW item, Groups(lists, pk, bs, ts),
           Selected(its, ts, q, key), Dropped(its, ts, q, key, bs2), Grown(pk, p, bs, bs2),
           NewItem(item, p, Len(pk) + 1, q, key)
    PROVE  Groups(Own(lists, Len(pk) + 1), Append(pk, p), bs2, Put(ts, q, key, Append(its, item)))
<1> DEFINE i == Len(pk) + 1
           pp == Append(pk, p)
           l2 == Own(lists, i)
           items == Append(its, item)
           n == Len(its)
<1>1. ItemsOK(its, key, q, l2, pp, bs2) /\ \A m \in DOMAIN its : its[m].bufsIndex # i BY SelectedOK
<1>2. i \in DOMAIN l2 /\ l2[i] = <<i>>
  <2>1. DOMAIN l2 = DOMAIN lists \cup {i} /\ l2[i] = <<i>> BY OwnLists DEF Groups
  <2> QED BY ONLY <2>1
<1>3. pp \in Seq(AllPackets) /\ Len(pp) = i /\ i \in 1..i /\ pp[i] = p BY AppendFacts
<1>4. NewItem(item, pp[i], i, q, key) /\ Same(Buffer(pp[i], i), bs2[i]) BY <1>3 DEF Grown
<1>5. Describes(item, key, q, pp, bs2[i], l2[i]) BY <1>2, <1>3, <1>4, NewItemDescribes
<1>6. its \in Seq(ItemsOf(q)) /\ item \in ItemsOf(q) BY DEF Selected, NewItem
<1> HIDE DEF i, pp, l2, n
<1>7. /\ items \in Seq(ItemsOf(q)) /\ Len(items) = Len(its) + 1
      /\ items[Len(its) + 1] = item /\ \A m \in 1..Len(its) : items[m] = its[m]
  BY ONLY <1>6, AppendFacts
<1>8. DOMAIN items = 1..(n + 1) /\ DOMAIN its = 1..n /\ n \in Nat /\ n = Len(its) BY <1>6, <1>7 DEF n
<1> HIDE DEF items
<1>9. \A m \in 1..(n + 1) : m = n + 1 \/ m \in 1..n BY <1>8
<1>10. n + 1 \in 1..(n + 1) /\ \A m \in 1..n : m \in 1..(n + 1) BY <1>8
<1>11. item.bufsIndex = i BY DEF NewItem, i
<1>12. \A m \in DOMAIN items :
          /\ items[m].bufsIndex \in DOMAIN l2
          /\ Describes(items[m], key, q, pp, bs2[items[m].bufsIndex], l2[items[m].bufsIndex])
  BY ONLY <1>1, <1>2, <1>5, <1>7, <1>8, <1>9, <1>11 DEF ItemsOK
<1>13. \A j, k \in DOMAIN items : items[j].bufsIndex = items[k].bufsIndex => j = k
  BY ONLY <1>1, <1>7, <1>8, <1>9, <1>11 DEF ItemsOK
<1>14. ItemsOK(items, key, q, l2, pp, bs2) BY ONLY <1>7, <1>12, <1>13 DEF ItemsOK
<1>15. \A m \in DOMAIN its : \E k \in DOMAIN items : items[k] = its[m] BY ONLY <1>7, <1>8, <1>10
<1>16. \E m \in DOMAIN items : items[m].bufsIndex = i BY ONLY <1>7, <1>8, <1>10, <1>11
<1>17. Groups(l2, pp, bs2, Put(ts, q, key, items)) BY <1>14, <1>15, <1>16, OwnPutStep DEF i, l2, pp
<1> QED BY <1>17 DEF i, l2, pp, items

\* The new packet is left alone.
LEMMA OwnStep ==
    ASSUME NEW pk \in Seq(AllPackets), NEW p \in AllPackets, NEW lists, NEW bs, NEW bs2, NEW ts,
           Groups(lists, pk, bs, ts), Grown(pk, p, bs, bs2), bs2[Len(pk) + 1].vnet = NoGSO,
           \A b \in 1..Len(pk) : bs2[b] = bs[b]
    PROVE  Groups(Own(lists, Len(pk) + 1), Append(pk, p), bs2, ts)
<1> DEFINE i == Len(pk) + 1
           pp == Append(pk, p)
           l2 == Own(lists, i)
<1>1. /\ ListsOK(l2, pp) /\ DOMAIN l2 = DOMAIN lists \cup {i} /\ i \notin DOMAIN lists /\ l2[i] = <<i>>
      /\ \A w \in DOMAIN lists : l2[w] = lists[w]
  BY OwnLists DEF Groups
<1>2. BuffersOK(l2, pp, bs2) BY OwnBuffers DEF Groups, Grown
<1>3. DOMAIN lists \subseteq 1..Len(pk) BY DEF Groups, ListsOK
<1>4. bs2[i].vnet = NoGSO /\ Len(<<i>>) = 1 OBVIOUS
<1> HIDE DEF i, l2, pp
<1>5. \A v \in DOMAIN lists : v \in DOMAIN l2 /\ l2[v] = lists[v] /\ bs2[v] = bs[v] BY <1>1, <1>3
<1>6. \A v \in DOMAIN l2 \ DOMAIN lists : bs2[v].vnet = NoGSO /\ Len(l2[v]) = 1 BY <1>1, <1>4
<1> QED BY <1>1, <1>2, <1>5, <1>6, KeepStep DEF i, l2, pp

\* The buffers after a merge into buffer w.
MergedInto(pk, bs, bs2, w) ==
    /\ bs2 \in Seq(Buffers) /\ Len(bs2) = Len(pk) + 1
    /\ \A b \in 1..Len(pk) : b # w => Same(bs[b], bs2[b]) /\ bs2[b].vnet \in {bs[b].vnet, NoGSO}
    /\ \A b \in DOMAIN bs2 : /\ bs2[b].vnet \in {Stale, NoGSO} /\ bs2[b].room < LenSpace
                             /\ bs2[b].len <= bs2[b].room

\* The items after a merge: the x-th one becomes item.
Updated(its, items, x, item) ==
    /\ DOMAIN items = DOMAIN its /\ x \in DOMAIN its /\ items[x] = item
    /\ \A n \in DOMAIN its : n # x => items[n] = its[n]

\* The packet p is merged into buffer w, which gives it the packets l and the item item.
CanJoin(pk, p, lists, bs, bs2, ts, q, key, its, items, x, item, w, l) ==
    /\ pk \in Seq(AllPackets) /\ p \in AllPackets /\ q \in Protos /\ key \in DOMAIN ts[q]
    /\ items \in Seq(ItemsOf(q)) /\ l \in Seq(1..(Len(pk) + 1)) /\ Groups(lists, pk, bs, ts)
    /\ Selected(its, ts, q, key) /\ Dropped(its, ts, q, key, bs2) /\ MergedInto(pk, bs, bs2, w)
    /\ Updated(its, items, x, item) /\ its[x].bufsIndex = w /\ item.bufsIndex = w
    /\ Joins(l, lists[w], Len(pk) + 1) /\ Len(l) # 1
    /\ Describes(item, key, q, Append(pk, p), bs2[w], l)

\* The new packet is merged into the buffer of an item.
LEMMA JoinStep ==
    ASSUME NEW pk, NEW p, NEW lists, NEW bs, NEW bs2, NEW ts, NEW q, NEW key, NEW its, NEW items,
           NEW x, NEW item, NEW w, NEW l,
           CanJoin(pk, p, lists, bs, bs2, ts, q, key, its, items, x, item, w, l)
    PROVE  /\ Groups(Joined(lists, w, l), Append(pk, p), bs2, Put(ts, q, key, items))
           /\ DOMAIN Joined(lists, w, l) = DOMAIN lists
<1> SUFFICES
      ASSUME pk \in Seq(AllPackets), p \in AllPackets, q \in Protos, key \in DOMAIN ts[q],
             items \in Seq(ItemsOf(q)), l \in Seq(1..(Len(pk) + 1)), Groups(lists, pk, bs, ts),
             Selected(its, ts, q, key), Dropped(its, ts, q, key, bs2), MergedInto(pk, bs, bs2, w),
             Updated(its, items, x, item), its[x].bufsIndex = w, item.bufsIndex = w,
             Joins(l, lists[w], Len(pk) + 1), Len(l) # 1,
             Describes(item, key, q, Append(pk, p), bs2[w], l)
      PROVE  /\ Groups(Joined(lists, w, l), Append(pk, p), bs2, Put(ts, q, key, items))
             /\ DOMAIN Joined(lists, w, l) = DOMAIN lists
  BY DEF CanJoin
<1> DEFINE i == Len(pk) + 1
           pp == Append(pk, p)
           l2 == Joined(lists, w, l)
<1>0. x \in DOMAIN its /\ items[x] = item /\ DOMAIN items = DOMAIN its BY DEF Updated
<1>1. ItemsOK(ts[q][key], key, q, lists, pk, bs) BY DEF Groups, TablesOK
<1>2. ASSUME NEW n \in DOMAIN its
      PROVE  /\ its[n].bufsIndex \in DOMAIN lists
             /\ Describes(its[n], key, q, pk, bs[its[n].bufsIndex], lists[its[n].bufsIndex])
  <2>1. PICK j \in DOMAIN ts[q][key] : its[n] = ts[q][key][j] BY DEF Selected
  <2> QED BY <1>1, <2>1 DEF ItemsOK
<1>3. w \in DOMAIN lists /\ bs[w].proto = q /\ bs[w].flow = key BY <1>0, <1>2 DEF Describes
<1>4. DOMAIN lists \subseteq 1..Len(pk) BY DEF Groups, ListsOK
<1>5. /\ ListsOK(l2, pp) /\ DOMAIN l2 = DOMAIN lists /\ l2[w] = l
      /\ \A v \in DOMAIN lists \ {w} : l2[v] = lists[v]
  BY <1>3, JoinedLists DEF Groups
<1>6. \A v \in DOMAIN lists \ {w} : Same(bs[v], bs2[v]) /\ bs2[v].vnet \in {bs[v].vnet, NoGSO}
  BY <1>4 DEF MergedInto
<1>7. BuffersOK(l2, pp, bs2)
  <2>1. ListsOK(lists, pk) /\ BuffersOK(lists, pk, bs) BY DEF Groups
  <2> QED BY <1>3, <1>6, <2>1, JoinedBuffers DEF MergedInto
<1> HIDE DEF i, pp, l2
<1>8. Others(lists, bs, ts, q, key, l2, bs2) BY <1>3, <1>5, <1>6 DEF Others
<1>9. ASSUME NEW n \in DOMAIN items
      PROVE  /\ items[n].bufsIndex \in DOMAIN l2 /\ items[n].bufsIndex = its[n].bufsIndex
             /\ Describes(items[n], key, q, pp, bs2[items[n].bufsIndex], l2[items[n].bufsIndex])
  <2>1. CASE n = x BY <1>0, <1>3, <1>5, <2>1 DEF pp
  <2>2. CASE n # x
    <3> DEFINE v == its[n].bufsIndex
    <3>1. items[n] = its[n] BY <1>0, <1>9, <2>2 DEF Updated
    <3>2. v # w BY <1>0, <1>9, <2>2 DEF Selected
    <3>3. v \in DOMAIN lists /\ Describes(its[n], key, q, pk, bs[v], lists[v]) BY <1>0, <1>2, <1>9
    <3>4. Same(bs[v], bs2[v]) /\ l2[v] = lists[v] BY <1>5, <1>6, <3>2, <3>3
    <3>5. lists[v] \in Seq(1..Len(pk)) BY <3>3 DEF Groups, ListsOK
    <3>6. Describes(its[n], key, q, pp, bs2[v], lists[v]) BY <3>3, <3>4, <3>5, DescribesExtend DEF pp
    <3> QED BY <1>5, <3>1, <3>3, <3>4, <3>6
  <2> QED BY <2>1, <2>2
<1>10. ItemsOK(items, key, q, l2, pp, bs2)
  <2>1. \A j, k \in DOMAIN items : items[j].bufsIndex = items[k].bufsIndex => j = k
    BY <1>0, <1>9 DEF Selected
  <2> QED BY <1>9, <2>1 DEF ItemsOK
<1>11. ASSUME NEW v \in DOMAIN l2
      PROVE  \/ \E j \in DOMAIN items : items[j].bufsIndex = v
             \/ bs2[v].vnet = NoGSO /\ Len(l2[v]) = 1
             \/ /\ v \in DOMAIN lists /\ bs2[v].vnet \in {bs[v].vnet, NoGSO} /\ l2[v] = lists[v]
                /\ key \in DOMAIN ts[q] => \A j \in DOMAIN ts[q][key] : ts[q][key][j].bufsIndex # v
  <2>1. CASE v = w BY <1>0, <2>1
  <2>2. CASE v # w
    <3>1. v \in DOMAIN lists /\ bs2[v].vnet \in {bs[v].vnet, NoGSO} /\ l2[v] = lists[v] BY <1>5, <1>6, <1>11, <2>2
    <3>2. CASE ~\E j \in DOMAIN ts[q][key] : ts[q][key][j].bufsIndex = v BY <3>1, <3>2
    <3>3. CASE \E j \in DOMAIN ts[q][key] : ts[q][key][j].bufsIndex = v
      <4>1. PICK j \in DOMAIN ts[q][key] : ts[q][key][j].bufsIndex = v BY <3>3
      <4>2. CASE \E n \in DOMAIN its : its[n] = ts[q][key][j] BY <1>0, <1>9, <4>1, <4>2
      <4>3. CASE ts[q][key][j].numMerged = 0 /\ bs2[ts[q][key][j].bufsIndex].vnet = NoGSO
        <5>2. Describes(ts[q][key][j], key, q, pk, bs[v], lists[v]) BY <1>1, <4>1 DEF ItemsOK
        <5>3. Len(lists[v]) = 0 + 1 BY <4>3, <5>2 DEF Describes
        <5> QED BY <3>1, <4>1, <4>3, <5>3
      <4> QED BY <4>1, <4>2, <4>3 DEF Dropped
    <3> QED BY <3>2, <3>3
  <2> QED BY <2>1, <2>2
<1>12. Covered(lists, bs, ts, q, key, l2, bs2, items) BY <1>11 DEF Covered
<1>13. Groups(l2, pp, bs2, Put(ts, q, key, items)) BY <1>5, <1>7, <1>8, <1>10, <1>12, PutStep DEF pp
<1> QED BY <1>5, <1>13 DEF l2, pp

\* What every packet that is merged into buffer b has in common with it.
Fits(pk, p, b, c, item, item2, key, q, l) ==
    /\ q \in Protos /\ b \in Buffers /\ item \in ItemsOf(q) /\ l \in Seq(1..Len(pk))
    /\ Describes(item, key, q, pk, b, l)
    /\ p.proto = q /\ p.flow = key /\ p.hdr = b.hdr /\ p.len >= 1 /\ p.csum = TRUE
    /\ item.numMerged = 0 => pk[l[1]].csum = TRUE
    /\ c.proto = b.proto /\ c.flow = b.flow /\ c.hdr = b.hdr
    /\ Len(b.payload) + p.len <= c.room /\ b.room < LenSpace
    /\ item2.numMerged = item.numMerged + 1

\* p is copied behind the packets of b, which gives c.
AppendOK(pk, p, b, c, item, item2, key, q, l) ==
    /\ Fits(pk, p, b, c, item, item2, key, q, l)
    /\ p.len <= item.gsoSize /\ Len(b.payload) % item.gsoSize = 0
    /\ q = "tcp" => /\ p.seq = (item.sentSeq + ((item.gsoSize + item.numMerged * item.gsoSize) % LenSpace)) % SeqSpace
                    /\ c.flags = "psh" => p.flags = "psh" /\ item2.pshSet = TRUE
                    /\ item2.sentSeq = item.sentSeq
    /\ q = "udp" => c.flags = b.flags
    /\ c.payload = b.payload \o Buffer(p, Len(pk) + 1).payload /\ c.seq = b.seq
    /\ item2.gsoSize = item.gsoSize

SizesOK(pk, p, b, item, l) ==
    /\ item.gsoSize \in Nat \ {0} /\ item.numMerged \in Nat /\ Len(l) = item.numMerged + 1
    /\ l \in Seq(1..(Len(pk) + 1)) /\ Len(l) \in Nat /\ Len(pk) + 1 \in Nat
    /\ Holds(Append(pk, p), b, item.gsoSize, l)
    /\ Len(l) = 1 => Append(pk, p)[l[1]].csum = TRUE
    /\ Piece(Append(pk, p), b, item.gsoSize, l, 1)
    /\ 1 \in 1..Len(l) /\ l[1] \in 1..Len(pk) /\ l[Len(l)] \in 1..Len(pk)
    /\ Append(pk, p)[l[1]] \in AllPackets /\ Append(pk, p)[l[Len(l)]] \in AllPackets
    /\ Append(pk, p)[l[Len(l)]].proto = b.proto

\* The size of the pieces of a buffer.
LEMMA Sizes ==
    ASSUME NEW pk, NEW p \in AllPackets, pk \in Seq(AllPackets), NEW b, NEW c, NEW item, NEW item2, NEW key, NEW q, NEW l,
           Fits(pk, p, b, c, item, item2, key, q, l)
    PROVE  SizesOK(pk, p, b, item, l)
<1> DEFINE i == Len(pk) + 1
           pp == Append(pk, p)
           g == item.gsoSize
<1>1. g \in Nat /\ item.numMerged \in Nat
  <2>1. q \in {"tcp", "udp"} /\ item \in ItemsOf(q) BY DEF Fits, Protos
  <2> QED BY ONLY <2>1 DEF ItemsOf
<1>2. l \in Seq(1..Len(pk)) /\ Len(l) = item.numMerged + 1 BY DEF Fits, Describes
<1>3. Describes(item, key, q, pk, b, l) /\ Same(b, b) BY DEF Fits, Same
<1>4. Describes(item, key, q, pp, b, l) BY ONLY <1>2, <1>3, pk \in Seq(AllPackets), p \in AllPackets, DescribesExtend
<1>5. Holds(pp, b, g, l) BY <1>4 DEF Describes
<1>6. Len(l) \in Nat /\ 1 \in 1..Len(l) /\ Len(l) \in 1..Len(l) BY ONLY <1>1, <1>2
<1>7. Piece(pp, b, g, l, 1) /\ Piece(pp, b, g, l, Len(l)) BY ONLY <1>5, <1>6 DEF Holds
<1>8. pp[l[1]].len \in 1..g BY ONLY <1>7 DEF Piece
<1>9. g \in Nat \ {0} BY ONLY <1>1, <1>8
<1>10. l[1] \in 1..Len(pk) /\ l[Len(l)] \in 1..Len(pk) BY ONLY <1>2, <1>6
<1>11. pp[l[1]] = pk[l[1]] /\ pp[l[Len(l)]] = pk[l[Len(l)]]
  <2>1. \A j \in 1..Len(pk) : pp[j] = pk[j] BY AppendFacts
  <2> QED BY ONLY <1>10, <2>1
<1>12. pk[l[1]] \in AllPackets /\ pk[l[Len(l)]] \in AllPackets BY <1>10
<1>13. Len(l) = 1 => pp[l[1]].csum = TRUE
  <2>1. Len(l) = 1 => item.numMerged = 0 BY ONLY <1>1, <1>2
  <2>2. item.numMerged = 0 => pk[l[1]].csum = TRUE BY DEF Fits
  <2> QED BY ONLY <1>11, <2>1, <2>2
<1>14. l \in Seq(1..i)
  <2>1. 1..Len(pk) \subseteq 1..i /\ Len(pk) \in Nat OBVIOUS
  <2> QED BY ONLY <1>2, <2>1
<1>15. pp[l[Len(l)]].proto = b.proto BY ONLY <1>7 DEF Piece
<1>16. i \in Nat OBVIOUS
<1> QED BY ONLY <1>1, <1>2, <1>5, <1>6, <1>7, <1>9, <1>10, <1>11, <1>12, <1>13, <1>14, <1>15, <1>16 DEF SizesOK

\* An append leaves an item that describes the buffer.
LEMMA AppendDescribes ==
    ASSUME NEW pk \in Seq(AllPackets), NEW p \in AllPackets, NEW b, NEW c, NEW item, NEW item2, NEW key, NEW q, NEW l,
           AppendOK(pk, p, b, c, item, item2, key, q, l)
    PROVE  Describes(item2, key, q, Append(pk, p), c, Append(l, Len(pk) + 1))
<1> DEFINE i == Len(pk) + 1
           pp == Append(pk, p)
           g == item.gsoSize
           n == item.numMerged
           pay == b.payload
<1>0. Fits(pk, p, b, c, item, item2, key, q, l) BY DEF AppendOK
<1>1. /\ g \in Nat \ {0} /\ n \in Nat /\ Len(l) = n + 1 /\ l \in Seq(1..i) /\ i \in Nat
      /\ Holds(pp, b, g, l) /\ (Len(l) = 1 => pp[l[1]].csum = TRUE) /\ Piece(pp, b, g, l, 1)
      /\ pp[l[1]] \in AllPackets /\ pp[l[Len(l)]] \in AllPackets /\ pp[l[Len(l)]].proto = b.proto
  <2>1. SizesOK(pk, p, b, item, l) BY <1>0, Sizes
  <2> QED BY ONLY <2>1 DEF SizesOK
<1>2. pp \in Seq(AllPackets) /\ Len(pp) = i /\ i \in 1..i /\ pp[i] = p BY AppendFacts
<1>3. pay \in Seq(Nat \X Nat) /\ b.seq \in Nat /\ Len(pay) \in Nat /\ b.room \in Nat /\ b.room < LenSpace
  <2>1. b \in Buffers BY <1>0 DEF Fits
  <2>2. pay \in Seq(Nat \X Nat) /\ b.seq \in Nat /\ b.room \in Nat BY ONLY <2>1 DEF Buffers
  <2>3. b.room < LenSpace BY <1>0 DEF Fits
  <2> QED BY ONLY <2>2, <2>3
<1>4. Full(pp, b, g, l)
  <2>1. Len(b.payload) % g = 0 BY DEF AppendOK
  <2> QED BY ONLY <1>1, <1>2, <2>1 DEF Full
<1>5. Filled(pp, b, g, l) BY ONLY <1>4, HoldsFull
<1>6. p.seq = IF b.proto = "tcp" THEN (b.seq + Len(l) * g) % SeqSpace ELSE b.seq
  <2>0. b.proto = q /\ q \in {"tcp", "udp"} /\ (q = "tcp" => item.sentSeq = b.seq) BY <1>0 DEF Fits, Describes, Protos
  <2>1. CASE q = "tcp"
    <3> DEFINE z == Len(l) * g
               y == n * g
    <3>1. Len(pay) <= b.room BY <1>0 DEF Fits, Describes
    <3>2. Len(pay) = z /\ z \in Nat BY ONLY <1>5 DEF Filled
    <3>3. y \in Nat /\ z = y + g
      <4>1. n * g \in Nat /\ (n + 1) * g = n * g + g BY ONLY <1>1, Multiples
      <4> QED BY ONLY <1>1, <4>1
    <3>4. p.seq = (item.sentSeq + ((g + y) % LenSpace)) % SeqSpace BY <2>1 DEF AppendOK
    <3> HIDE DEF y, z
    <3>5. LenSpace \in Nat \ {0} BY GROAssumption
    <3>6. g + y = z /\ z < LenSpace
      <4>1. g \in Nat BY ONLY <1>1
      <4>2. b.room \in Nat /\ b.room < LenSpace /\ z <= b.room BY ONLY <1>3, <3>1, <3>2
      <4> QED BY ONLY <3>2, <3>3, <3>5, <4>1, <4>2
    <3>7. (g + y) % LenSpace = z BY ONLY <3>2, <3>5, <3>6, SmallMod
    <3>8. p.seq = (b.seq + z) % SeqSpace BY ONLY <2>0, <2>1, <3>4, <3>7
    <3> QED BY ONLY <2>0, <2>1, <3>8 DEF z
  <2>2. CASE q = "udp"
    <3>1. p.proto = "udp" BY <1>0, <2>2 DEF Fits
    <3>2. pp[l[1]].proto = "udp" /\ pp[l[1]].seq = b.seq
      <4>1. b.proto = "udp" /\ "udp" # "tcp" BY ONLY <2>0, <2>2
      <4> QED BY ONLY <1>1, <4>1 DEF Piece
    <3>3. pp[l[1]].seq = 0 BY <1>1, <3>2, PacketType
    <3>4. p.seq = 0 BY <3>1, PacketType
    <3> QED BY ONLY <2>0, <2>2, <3>2, <3>3, <3>4
  <2> QED BY ONLY <2>0, <2>1, <2>2
<1>7. c.flags = "psh" => p.flags = "psh"
  <2>1. q \in {"tcp", "udp"} /\ b.proto = q BY <1>0 DEF Fits, Protos, Describes
  <2>2. CASE q = "tcp" BY <2>2 DEF AppendOK
  <2>3. CASE q = "udp"
    <3>1. c.flags = b.flags BY <2>3 DEF AppendOK
    <3>2. b.flags = "psh" => pp[l[Len(l)]].flags = "psh" BY ONLY <1>1 DEF Holds
    <3>3. pp[l[Len(l)]].proto # "tcp" BY ONLY <1>1, <2>1, <2>3
    <3>4. pp[l[Len(l)]].flags = "ack" BY <1>1, <3>3, PacketType
    <3> QED BY ONLY <3>1, <3>2, <3>4
  <2> QED BY <2>1, <2>2, <2>3
<1>8. p.len \in 1..g
  <2>1. p.len \in Nat BY PacketType
  <2>2. p.len <= g /\ p.len >= 1 BY <1>0 DEF AppendOK, Fits
  <2> QED BY ONLY <1>1, <2>1, <2>2
<1>9. /\ p.csum = TRUE /\ p.proto = b.proto /\ p.flow = b.flow /\ p.hdr = b.hdr
      /\ c.proto = b.proto /\ c.flow = b.flow /\ c.hdr = b.hdr
  BY <1>0 DEF Fits, Describes
<1>10. c.payload = pay \o Tok(p, i) /\ c.seq = b.seq
  <2>1. c.payload = pay \o Buffer(p, i).payload /\ c.seq = b.seq BY DEF AppendOK
  <2>2. Buffer(p, i).payload = Tok(p, i) BY <1>1, BufferType
  <2> QED BY ONLY <2>1, <2>2
<1>11. CanAppend(pp, b, c, g, l, i)
  BY ONLY <1>1, <1>2, <1>3, <1>4, <1>6, <1>7, <1>8, <1>9, <1>10 DEF CanAppend
<1>12. Holds(pp, c, g, Append(l, i)) BY ONLY <1>11, HoldsAppend
<1>13. Len(c.payload) <= c.room
  <2>1. Tok(p, i) \in Seq(Nat \X Nat) /\ Len(Tok(p, i)) = p.len BY <1>1, TokType
  <2>2. Len(pay) + p.len <= c.room BY <1>0 DEF Fits
  <2> DEFINE t == Tok(p, i)
  <2> HIDE DEF t, pay
  <2>3. Len(pay \o t) = Len(pay) + Len(t) BY <1>3, <2>1 DEF t
  <2> QED BY ONLY <1>10, <2>1, <2>2, <2>3 DEF t
<1>14. Len(Append(l, i)) = item2.numMerged + 1
  <2>1. Len(Append(l, i)) = Len(l) + 1 BY <1>1
  <2>2. item2.numMerged = n + 1 BY <1>0 DEF Fits
  <2> QED BY ONLY <1>1, <2>1, <2>2
<1>15. item2.gsoSize = g /\ g < LenSpace BY <1>0 DEF AppendOK, Fits, Describes
<1>16. q = "tcp" => item2.sentSeq = c.seq /\ (c.flags = "psh" => item2.pshSet = TRUE)
  <2>1. q = "tcp" => item.sentSeq = b.seq BY <1>0 DEF Fits, Describes
  <2>2. q = "tcp" => item2.sentSeq = item.sentSeq /\ (c.flags = "psh" => item2.pshSet = TRUE) BY DEF AppendOK
  <2> QED BY ONLY <1>10, <2>1, <2>2
<1>17. c.proto = q /\ c.flow = key BY <1>0 DEF Fits, Describes
<1> QED BY ONLY <1>12, <1>13, <1>14, <1>15, <1>16, <1>17 DEF Describes

\* p is copied in front of the packets of b, which gives c.
PrependOK(pk, p, b, c, item, item2, key, l) ==
    /\ Fits(pk, p, b, c, item, item2, key, "tcp", l)
    /\ p.len >= item.gsoSize /\ (p.len > item.gsoSize => item.numMerged = 0) /\ p.flags # "psh"
    /\ (p.seq + p.len) % SeqSpace = item.sentSeq
    /\ c.payload = Buffer(p, Len(pk) + 1).payload \o b.payload
    /\ c.seq = p.seq /\ c.flags = p.flags
    /\ item2.gsoSize = p.len /\ item2.sentSeq = p.seq

\* A prepend leaves an item that describes the buffer.
LEMMA PrependDescribes ==
    ASSUME NEW pk \in Seq(AllPackets), NEW p \in AllPackets, NEW b, NEW c, NEW item, NEW item2, NEW key, NEW l,
           PrependOK(pk, p, b, c, item, item2, key, l)
    PROVE  Describes(item2, key, "tcp", Append(pk, p), c, <<Len(pk) + 1>> \o l)
<1> DEFINE i == Len(pk) + 1
           pp == Append(pk, p)
           g == item.gsoSize
           h == p.len
           n == item.numMerged
           pay == b.payload
<1>0. Fits(pk, p, b, c, item, item2, key, "tcp", l) BY DEF PrependOK
<1>1. /\ g \in Nat \ {0} /\ n \in Nat /\ Len(l) = n + 1 /\ l \in Seq(1..i) /\ i \in Nat
      /\ Holds(pp, b, g, l) /\ (Len(l) = 1 => pp[l[1]].csum = TRUE)
  <2>1. SizesOK(pk, p, b, item, l) BY <1>0, Sizes
  <2> QED BY ONLY <2>1 DEF SizesOK
<1>2. pp \in Seq(AllPackets) /\ Len(pp) = i /\ i \in 1..i /\ pp[i] = p BY AppendFacts
<1>3. pay \in Seq(Nat \X Nat) /\ b.seq \in Nat /\ Len(pay) \in Nat
  <2>1. b \in Buffers BY <1>0 DEF Fits
  <2>2. pay \in Seq(Nat \X Nat) /\ b.seq \in Nat BY ONLY <2>1 DEF Buffers
  <2> QED BY ONLY <2>2
<1>4. h \in Nat /\ h < LenSpace
  <2>1. h \in Nat /\ h <= p.room /\ p.room < LenSpace /\ p.room \in Nat /\ LenSpace \in Nat BY PacketType
  <2> QED BY ONLY <2>1
<1>5. h >= g /\ (Len(l) > 1 => h = g)
  <2>1. h >= g /\ (h > g => n = 0) BY DEF PrependOK
  <2> QED BY ONLY <1>1, <1>4, <2>1
<1>6. (p.seq + h) % SeqSpace = b.seq
  <2>1. item.sentSeq = b.seq BY <1>0 DEF Fits, Describes
  <2>2. (p.seq + h) % SeqSpace = item.sentSeq BY DEF PrependOK
  <2> QED BY ONLY <2>1, <2>2
<1>9. /\ p.csum = TRUE /\ p.proto = b.proto /\ p.flow = b.flow /\ p.hdr = b.hdr /\ b.proto = "tcp"
      /\ c.proto = b.proto /\ c.flow = b.flow /\ c.hdr = b.hdr
  BY <1>0 DEF Fits, Describes
<1>10. c.payload = Tok(p, i) \o pay /\ c.seq = p.seq /\ c.flags # "psh"
  <2>1. c.payload = Buffer(p, i).payload \o pay /\ c.seq = p.seq /\ c.flags # "psh" BY DEF PrependOK
  <2>2. Buffer(p, i).payload = Tok(p, i) BY <1>1, BufferType
  <2> QED BY ONLY <2>1, <2>2
<1>11. CanPrepend(pp, b, c, g, h, l, i)
  BY ONLY <1>1, <1>2, <1>3, <1>4, <1>5, <1>6, <1>9, <1>10 DEF CanPrepend
<1>12. Holds(pp, c, h, <<i>> \o l) BY ONLY <1>11, HoldsPrepend
<1>13. Len(c.payload) <= c.room
  <2>1. Tok(p, i) \in Seq(Nat \X Nat) /\ Len(Tok(p, i)) = p.len BY <1>1, TokType
  <2>2. Len(pay) + p.len <= c.room BY <1>0 DEF Fits
  <2> DEFINE t == Tok(p, i)
  <2> HIDE DEF t, pay
  <2>3. Len(t \o pay) = Len(t) + Len(pay) BY <1>3, <2>1 DEF t
  <2>4. Len(t) = p.len /\ p.len \in Nat /\ Len(pay) \in Nat BY ONLY <1>3, <1>4, <2>1 DEF t
  <2>5. Len(t \o pay) = Len(pay) + p.len BY ONLY <2>3, <2>4
  <2> QED BY ONLY <1>10, <2>2, <2>5 DEF t
<1>14. Len(<<i>> \o l) = item2.numMerged + 1
  <2>1. Len(<<i>> \o l) = Len(l) + 1 BY <1>1
  <2>2. item2.numMerged = n + 1 BY <1>0 DEF Fits
  <2> QED BY ONLY <1>1, <2>1, <2>2
<1>15. item2.gsoSize = h /\ item2.sentSeq = c.seq BY DEF PrependOK
<1>17. c.proto = "tcp" /\ c.flow = key BY <1>0 DEF Fits, Describes
<1> QED BY ONLY <1>4, <1>10, <1>12, <1>13, <1>14, <1>15, <1>17 DEF Describes

-----------------------------------------------------------------------------
(* The merges: what the checks of the coalesce functions establish.        *)

\* The greatest number of a bounded set.
LEMMA MaxFacts ==
    ASSUME NEW n \in Nat, NEW S \in SUBSET (0..n), S # {}
    PROVE  Max(S) \in S /\ \A y \in S : y <= Max(S)
<1> DEFINE T == {n - y : y \in S}
<1>1. T \in SUBSET Nat /\ T # {}
  <2>1. \A y \in S : n - y \in Nat OBVIOUS
  <2>2. PICK y \in S : TRUE OBVIOUS
  <2>3. n - y \in T OBVIOUS
  <2> QED BY <2>1, <2>3
<1>2. PICK k \in T : \A l \in T : k <= l BY <1>1, Least
<1>3. PICK x \in S : k = n - x BY <1>2
<1>4. ASSUME NEW y \in S PROVE x >= y
  <2>1. n - y \in T OBVIOUS
  <2>2. n - x <= n - y BY <1>2, <1>3, <2>1
  <2>3. x \in 0..n /\ y \in 0..n OBVIOUS
  <2> QED BY ONLY <2>2, <2>3, n \in Nat
<1>5. \E z \in S : \A y \in S : z >= y BY <1>4
<1>6. Max(S) \in S /\ \A y \in S : Max(S) >= y BY <1>5 DEF Max
<1>7. \A y \in S : y \in 0..n /\ Max(S) \in 0..n BY <1>6
<1> QED BY <1>6, <1>7

\* The chosen elements of a sequence.
Pick(s, D) == [n \in DOMAIN Sorted(D) |-> s[Sorted(D)[n]]]

\* They are the elements at the chosen places, each one once.
LEMMA PickFacts ==
    ASSUME NEW X, NEW s \in Seq(X), NEW D \in SUBSET (DOMAIN s)
    PROVE  /\ Pick(s, D) \in Seq(X) /\ DOMAIN Pick(s, D) = DOMAIN Sorted(D)
           /\ \A n \in DOMAIN Pick(s, D) : Sorted(D)[n] \in D /\ Pick(s, D)[n] = s[Sorted(D)[n]]
           /\ \A j \in D : \E n \in DOMAIN Pick(s, D) : Sorted(D)[n] = j
           /\ \A m, n \in DOMAIN Pick(s, D) : Sorted(D)[m] = Sorted(D)[n] => m = n
<1> DEFINE k == Sorted(D)
           c == Cardinality(D)
<1>0. Len(s) \in Nat /\ DOMAIN s = 1..Len(s) OBVIOUS
<1>1. /\ c \in Nat /\ k \in [1..c -> D] /\ (\A j \in D : \E m \in 1..c : k[m] = j)
      /\ \A m, l \in 1..c : k[m] = k[l] => m = l
  BY <1>0, SortedFacts
<1> HIDE DEF k, c
<1>2. DOMAIN k = 1..c /\ Pick(s, D) = [n \in 1..c |-> s[k[n]]] BY <1>1 DEF Pick, k
<1>3. \A n \in 1..c : s[k[n]] \in X BY <1>0, <1>1
<1>4. Pick(s, D) \in Seq(X) BY <1>1, <1>2, <1>3
<1> QED BY <1>1, <1>2, <1>4 DEF k

\* Virtio headers are zeroed.
Zero(bs, Z) == [b \in DOMAIN bs |-> IF b \in Z THEN [bs[b] EXCEPT !.vnet = NoGSO] ELSE bs[b]]

\* A zeroed virtio header changes nothing else.
LEMMA ZeroOne ==
    ASSUME NEW b \in Buffers
    PROVE  /\ [b EXCEPT !.vnet = NoGSO] \in Buffers /\ Same(b, [b EXCEPT !.vnet = NoGSO])
           /\ [b EXCEPT !.vnet = NoGSO].len = b.len /\ [b EXCEPT !.vnet = NoGSO].vnet = NoGSO
           /\ Same(b, b)
<1>1. NoGSO \in Int BY DEF NoGSO
<1> QED BY <1>1 DEF Buffers, Same

\* The buffers of a call with the new one, some virtio headers zeroed.
LEMMA ZeroGrown ==
    ASSUME NEW pk \in Seq(AllPackets), NEW p \in AllPackets, NEW bs \in Seq(Buffers), Len(bs) = Len(pk), NEW Z
    PROVE  LET a == Zero(Append(bs, Buffer(p, Len(pk) + 1)), Z) IN
           /\ Grown(pk, p, bs, a)
           /\ \A b \in Z : b \in 1..Len(pk) => a[b].vnet = NoGSO
           /\ \A b \in 1..Len(pk) : b \notin Z => a[b] = bs[b]
<1> DEFINE i == Len(pk) + 1
           c == Append(bs, Buffer(p, i))
           a == Zero(c, Z)
<1>0. i \in Nat /\ i \in 1..i /\ Len(pk) \in Nat /\ \A b \in 1..Len(pk) : b \in 1..i OBVIOUS
<1>1. c \in Seq(Buffers) /\ Len(c) = i /\ c[i] = Buffer(p, i) /\ \A b \in 1..Len(pk) : c[b] = bs[b]
  BY Appended
<1>2. Buffer(p, i) \in Buffers /\ Buffer(p, i).vnet = Stale /\ Buffer(p, i).len = p.len BY <1>0, BufferType
<1>3. DOMAIN bs = 1..Len(pk) /\ DOMAIN c = 1..i BY <1>1
<1> HIDE DEF c, i
<1>4. \A b \in 1..i : c[b] \in Buffers BY <1>1, <1>3
<1>5. a = [b \in 1..i |-> IF b \in Z THEN [c[b] EXCEPT !.vnet = NoGSO] ELSE c[b]] BY <1>3 DEF Zero
<1>6. \A b \in 1..i : /\ a[b] \in Buffers /\ Same(c[b], a[b]) /\ a[b].len = c[b].len
                      /\ a[b].vnet \in {c[b].vnet, NoGSO} /\ (b \in Z => a[b].vnet = NoGSO)
                      /\ (b \notin Z => a[b] = c[b])
  <2> TAKE b \in 1..i
  <2>1. CASE b \in Z
    <3>1. a[b] = [c[b] EXCEPT !.vnet = NoGSO] BY <1>5, <2>1
    <3> QED BY <1>4, <2>1, <3>1, ZeroOne
  <2>2. CASE b \notin Z
    <3>1. a[b] = c[b] BY <1>5, <2>2
    <3> QED BY <1>4, <2>2, <3>1, ZeroOne
  <2> QED BY <2>1, <2>2
<1>7. a \in Seq(Buffers) /\ Len(a) = i
  <2>1. a \in [1..i -> Buffers] BY <1>5, <1>6
  <2> HIDE DEF a
  <2> QED BY <1>0, <2>1
<1> HIDE DEF a
<1>8. Kept(bs, a) BY ONLY <1>0, <1>1, <1>3, <1>6 DEF Kept
<1>9. Same(Buffer(p, i), a[i]) /\ a[i].len = p.len /\ a[i].vnet \in {Stale, NoGSO}
  BY ONLY <1>0, <1>1, <1>2, <1>6
<1>10. Grown(pk, p, bs, a) BY ONLY <1>7, <1>8, <1>9 DEF Grown, i
<1> QED BY <1>0, <1>1, <1>6, <1>10 DEF a, c, i

\* The new packet's virtio header is zeroed.
LEMMA OwnZeroed ==
    ASSUME NEW pk \in Seq(AllPackets), NEW p \in AllPackets, NEW bs \in Seq(Buffers), Len(bs) = Len(pk),
           NEW a, Grown(pk, p, bs, a)
    PROVE  LET b2 == [a EXCEPT ![Len(pk) + 1].vnet = NoGSO] IN
           /\ Grown(pk, p, bs, b2) /\ b2[Len(pk) + 1].vnet = NoGSO
           /\ \A b \in 1..Len(pk) : b2[b] = a[b]
<1> DEFINE i == Len(pk) + 1
           b2 == [a EXCEPT ![i].vnet = NoGSO]
<1>0. i \in Nat /\ i \in 1..i /\ Len(pk) \in Nat /\ \A b \in 1..Len(pk) : b \in 1..i /\ b # i OBVIOUS
<1>1. /\ a \in Seq(Buffers) /\ Len(a) = i /\ Kept(bs, a)
      /\ Same(Buffer(p, i), a[i]) /\ a[i].len = p.len
  BY DEF Grown
<1>2. DOMAIN a = 1..i /\ DOMAIN bs = 1..Len(pk) BY <1>1
<1> HIDE DEF i
<1>3. b2[i] = [a[i] EXCEPT !.vnet = NoGSO] /\ \A b \in 1..i : b # i => b2[b] = a[b] BY <1>0, <1>2
<1>4. a[i] \in Buffers BY <1>0, <1>1, <1>2
<1>5. b2[i] \in Buffers /\ Same(a[i], b2[i]) /\ b2[i].len = a[i].len /\ b2[i].vnet = NoGSO BY <1>3, <1>4, ZeroOne
<1>6. b2 \in Seq(Buffers) /\ Len(b2) = i
  <2>1. b2 = [b \in 1..i |-> b2[b]] BY <1>2
  <2>2. \A b \in 1..i : a[b] \in Buffers BY <1>1, <1>2
  <2> HIDE DEF b2
  <2>3. \A b \in 1..i : b2[b] \in Buffers BY ONLY <1>3, <1>5, <2>2
  <2>4. b2 \in [1..i -> Buffers] BY ONLY <2>1, <2>3
  <2> QED BY <1>0, <2>4
<1> HIDE DEF b2
<1>7. Kept(bs, b2) BY ONLY <1>0, <1>1, <1>2, <1>3 DEF Kept
<1>8. Same(Buffer(p, i), b2[i]) /\ b2[i].len = p.len BY ONLY <1>1, <1>5 DEF Same
<1>9. Grown(pk, p, bs, b2) BY ONLY <1>5, <1>6, <1>7, <1>8 DEF Grown, i
<1> QED BY <1>0, <1>3, <1>5, <1>9 DEF b2, i

\* A flow's items are written once.
LEMMA WithFacts ==
    ASSUME NEW t, NEW key, NEW its, NEW items
    PROVE  /\ With(t, key, its).items = [k \in DOMAIN t.items \cup {key} |-> IF k = key THEN its ELSE t.items[k]]
           /\ With(t, key, its).items[key] = its /\ key \in DOMAIN With(t, key, its).items
           /\ With(With(t, key, its), key, items) = With(t, key, items)
<1> DEFINE u == With(t, key, its)
           D == DOMAIN t.items \cup {key}
<1>1. u.items = [k \in D |-> IF k = key THEN its ELSE t.items[k]] BY DEF With
<1>2. u.pool = IF key \in DOMAIN t.items THEN t.pool ELSE t.pool - 1 BY DEF With
<1>3. DOMAIN u.items = D /\ key \in D /\ u.items[key] = its BY <1>1
<1> HIDE DEF u
<1>4. [k \in DOMAIN u.items \cup {key} |-> IF k = key THEN items ELSE u.items[k]] =
      [k \in D |-> IF k = key THEN items ELSE t.items[k]]
  <2>1. DOMAIN u.items \cup {key} = D BY <1>3
  <2>2. \A k \in D : k # key => u.items[k] = t.items[k] BY <1>1
  <2> HIDE DEF D
  <2> QED BY <2>1, <2>2
<1>5. With(u, key, items) = With(t, key, items) BY <1>2, <1>3, <1>4 DEF With
<1> QED BY <1>1, <1>3, <1>5 DEF u

\* What the checks before a copy have found.
LEMMA Checked ==
    ASSUME NEW p, NEW item, NEW front, NEW known
    PROVE  /\ CoalesceResult(p, item, front, known) \in
                 {"insufficientCap", "itemInvalidCSum", "pktInvalidCSum", "success"}
           /\ CoalesceResult(p, item, front, known) = "itemInvalidCSum" => item.numMerged = 0
           /\ CoalesceResult(p, item, front, known) = "success" =>
                 /\ ~(front.room < Len(bufs[item.bufsIndex].payload) + p.len)
                 /\ item.numMerged = 0 => bufs[item.bufsIndex].csum
                 /\ p.csum
<1> DEFINE A == front.room < Len(bufs[item.bufsIndex].payload) + p.len
           B == item.numMerged = 0
           C == bufs[item.bufsIndex].csum
           D == p.csum
           r == CoalesceResult(p, item, front, known)
<1>1. r = IF A THEN "insufficientCap" ELSE IF B /\ (known \/ ~C) THEN "itemInvalidCSum"
          ELSE IF ~D THEN "pktInvalidCSum" ELSE "success"
  BY DEF CoalesceResult
<1> HIDE DEF A, B, C, D, r
<1>2. /\ r \in {"insufficientCap", "itemInvalidCSum", "pktInvalidCSum", "success"}
      /\ r = "itemInvalidCSum" => B
      /\ r = "success" => ~A /\ (B => C) /\ D
  BY <1>1
<1> QED BY <1>2 DEF A, B, C, D, r

\* What tcpPacketsCanCoalesce has found.
LEMMA CanCoalesce ==
    ASSUME NEW p, NEW item
    PROVE  LET b == bufs[item.bufsIndex]  can == tcpPacketsCanCoalesce(p, item) IN
           /\ can \in {"unavailable", "append", "prepend"}
           /\ can # "unavailable" => p.hdr = b.hdr
           /\ can = "append" =>
                 /\ p.seq = (item.sentSeq + ((item.gsoSize + item.numMerged * item.gsoSize) % LenSpace)) % SeqSpace
                 /\ ~item.pshSet /\ Len(b.payload) % item.gsoSize = 0 /\ ~(p.len > item.gsoSize)
           /\ can = "prepend" =>
                 /\ (p.seq + p.len) % SeqSpace = item.sentSeq /\ p.flags # "psh"
                 /\ ~(p.len < item.gsoSize) /\ ~(p.len > item.gsoSize /\ item.numMerged > 0)
<1> DEFINE b == bufs[item.bufsIndex]
           can == tcpPacketsCanCoalesce(p, item)
           H == p.hdr = b.hdr
           F == p.seq = (item.sentSeq + ((item.gsoSize + item.numMerged * item.gsoSize) % LenSpace)) % SeqSpace
           P == item.pshSet
           M == Len(b.payload) % item.gsoSize = 0
           G == p.len > item.gsoSize
           R == (p.seq + p.len) % SeqSpace = item.sentSeq
           Q == p.flags = "psh"
           L0 == p.len < item.gsoSize
           N == item.numMerged > 0
<1>1. can = IF ~H THEN "unavailable" ELSE IF F THEN IF P \/ ~M \/ G THEN "unavailable" ELSE "append"
            ELSE IF R THEN IF Q \/ L0 \/ (G /\ N) THEN "unavailable" ELSE "prepend" ELSE "unavailable"
  BY DEF tcpPacketsCanCoalesce, ipHeadersCanCoalesce
<1> HIDE DEF b, can, H, F, P, M, G, R, Q, L0, N
<1>2. /\ can \in {"unavailable", "append", "prepend"} /\ (can # "unavailable" => H)
      /\ can = "append" => F /\ ~P /\ M /\ ~G
      /\ can = "prepend" => R /\ ~Q /\ ~L0 /\ ~(G /\ N)
  BY <1>1
<1> QED BY <1>2 DEF b, can, H, F, P, M, G, R, Q, L0, N

\* What a successful attempt has found.
LEMMA TriedSuccess ==
    ASSUME NEW p, NEW item
    PROVE  LET b == bufs[item.bufsIndex]  can == tcpPacketsCanCoalesce(p, item)  r == tryCoalesceTCP(p, item) IN
           /\ r = "itemInvalidCSum" => item.numMerged = 0
           /\ r = "success" =>
                 /\ can \in {"append", "prepend"} /\ (item.numMerged = 0 => b.csum) /\ p.csum
                 /\ can = "append" => ~(b.room < Len(b.payload) + p.len)
                 /\ can = "prepend" => ~(p.room < Len(b.payload) + p.len)
<1> DEFINE b == bufs[item.bufsIndex]
           can == tcpPacketsCanCoalesce(p, item)
           r == tryCoalesceTCP(p, item)
           front == IF can = "prepend" THEN p ELSE b
           c == CoalesceResult(p, item, front, FALSE)
<1>1. r = IF can = "unavailable" THEN can ELSE c BY DEF tryCoalesceTCP
<1>2. can \in {"unavailable", "append", "prepend"} BY CanCoalesce
<1>3. /\ c = "itemInvalidCSum" => item.numMerged = 0
      /\ c = "success" => /\ ~(front.room < Len(b.payload) + p.len)
                          /\ item.numMerged = 0 => b.csum
                          /\ p.csum
  BY Checked
<1>4. can = "append" => front = b BY <1>2
<1>5. can = "prepend" => front = p OBVIOUS
<1> HIDE DEF b, can, r, front, c
<1>6. r = "itemInvalidCSum" => item.numMerged = 0 BY ONLY <1>1, <1>2, <1>3
<1>7. r = "success" => can \in {"append", "prepend"} /\ c = "success" BY ONLY <1>1, <1>2
<1>8. r = "success" /\ can = "append" => ~(b.room < Len(b.payload) + p.len) BY ONLY <1>3, <1>4, <1>7, Zenon
<1>9. r = "success" /\ can = "prepend" => ~(p.room < Len(b.payload) + p.len) BY ONLY <1>3, <1>5, <1>7, Zenon
<1>10. r = "success" => (item.numMerged = 0 => b.csum) /\ p.csum BY ONLY <1>3, <1>7
<1> QED BY <1>6, <1>7, <1>8, <1>9, <1>10 DEF b, can, r

\* A buffer's header fields are in order.
Legal(b) == /\ b \in Buffers /\ b.vnet \in {Stale, NoGSO} /\ b.room < LenSpace /\ b.len <= b.room

Swap(a, w, c, i, d) == [a EXCEPT ![w] = c, ![i] = d]

\* A merge writes the buffer of the item, and perhaps the one of the packet.
LEMMA MergeBuffers ==
    ASSUME NEW pk \in Seq(AllPackets), NEW p \in AllPackets, NEW lists, NEW bs, NEW a, NEW w \in 1..Len(pk),
           NEW c, NEW d, BuffersOK(lists, pk, bs), Grown(pk, p, bs, a), Legal(c), Legal(d)
    PROVE  MergedInto(pk, bs, Swap(a, w, c, Len(pk) + 1, d), w) /\ Swap(a, w, c, Len(pk) + 1, d)[w] = c
<1> DEFINE i == Len(pk) + 1
           a2 == Swap(a, w, c, i, d)
<1>0. i \in Nat /\ i \in 1..i /\ w \in 1..i /\ w # i /\ \A b \in 1..Len(pk) : b \in 1..i /\ b # i OBVIOUS
<1>1. a \in Seq(Buffers) /\ Len(a) = i /\ Kept(bs, a) BY DEF Grown
<1>2. DOMAIN a = 1..i /\ DOMAIN bs = 1..Len(pk) BY <1>1 DEF BuffersOK
<1>3. \A b \in 1..Len(pk) : bs[b].vnet \in {Stale, NoGSO} /\ bs[b].room < LenSpace /\ bs[b].len <= bs[b].room
  BY <1>2 DEF BuffersOK
<1>4. \A b \in 1..i : a[b] \in Buffers BY <1>1, <1>2
<1> HIDE DEF i
<1>5. a2 = [b \in 1..i |-> IF b = i THEN d ELSE IF b = w THEN c ELSE a[b]] BY <1>0, <1>2 DEF Swap
<1>6. a2[w] = c /\ a2[i] = d /\ \A b \in 1..i : b # i /\ b # w => a2[b] = a[b] BY ONLY <1>0, <1>5
<1>7. a2 \in Seq(Buffers) /\ Len(a2) = i
  <2>1. c \in Buffers /\ d \in Buffers BY DEF Legal
  <2>2. a2 \in [1..i -> Buffers] BY ONLY <1>4, <1>5, <2>1
  <2> HIDE DEF a2
  <2> QED BY <1>0, <2>2
<1> HIDE DEF a2
<1>8. \A b \in 1..Len(pk) : b # w => Same(bs[b], a2[b]) /\ a2[b].len = bs[b].len /\ a2[b].vnet \in {bs[b].vnet, NoGSO}
  BY ONLY <1>0, <1>1, <1>2, <1>6 DEF Kept
<1>9. ASSUME NEW b \in 1..i PROVE a2[b].vnet \in {Stale, NoGSO} /\ a2[b].room < LenSpace /\ a2[b].len <= a2[b].room
  <2>1. CASE b = i BY <1>6, <2>1 DEF Legal
  <2>2. CASE b = w BY <1>6, <2>2 DEF Legal
  <2>3. CASE b # i /\ b # w
    <3>1. b \in 1..Len(pk) BY <1>9, <2>3 DEF i
    <3>2. a2[b].room = bs[b].room BY <1>8, <2>3, <3>1 DEF Same
    <3>3. a2[b].len = bs[b].len /\ a2[b].vnet \in {bs[b].vnet, NoGSO} BY <1>8, <2>3, <3>1
    <3> QED BY <1>3, <3>1, <3>2, <3>3
  <2> QED BY <2>1, <2>2, <2>3
<1>10. DOMAIN a2 = 1..i BY <1>7
<1>11. MergedInto(pk, bs, a2, w) BY <1>7, <1>8, <1>9, <1>10 DEF MergedInto, i
<1> QED BY <1>6, <1>11 DEF a2, i

\* c is b with s behind its payload.
ExtendedBy(b, c, s, f) ==
    /\ Legal(c) /\ c.proto = b.proto /\ c.flow = b.flow /\ c.hdr = b.hdr /\ c.seq = b.seq
    /\ c.room = b.room /\ c.payload = b.payload \o s /\ c.flags = f

\* A payload is copied behind the one of a buffer.
LEMMA Extended ==
    ASSUME NEW b, NEW s \in Seq(Nat \X Nat), NEW f \in {"ack", "psh", "other"}, Legal(b)
    PROVE  ExtendedBy(b, [b EXCEPT !.payload = b.payload \o s, !.flags = f], s, f) /\
           ExtendedBy(b, [b EXCEPT !.payload = b.payload \o s], s, b.flags)
<1>1. b \in Buffers /\ b.payload \in Seq(Nat \X Nat) BY DEF Legal, Buffers
<1>2. b.payload \o s \in Seq(Nat \X Nat) BY <1>1, Concat
<1> DEFINE t == b.payload \o s
           c == [b EXCEPT !.payload = t, !.flags = f]
           e == [b EXCEPT !.payload = t]
<1> HIDE DEF t
<1>3. t \in Seq(Nat \X Nat) BY <1>2 DEF t
<1>4. /\ c \in Buffers /\ c.proto = b.proto /\ c.flow = b.flow /\ c.hdr = b.hdr /\ c.seq = b.seq
      /\ c.room = b.room /\ c.payload = t /\ c.flags = f /\ c.vnet = b.vnet /\ c.len = b.len
  BY ONLY <1>1, <1>3, f \in {"ack", "psh", "other"} DEF Buffers
<1>5. /\ e \in Buffers /\ e.proto = b.proto /\ e.flow = b.flow /\ e.hdr = b.hdr /\ e.seq = b.seq
      /\ e.room = b.room /\ e.payload = t /\ e.flags = b.flags /\ e.vnet = b.vnet /\ e.len = b.len
  BY ONLY <1>1, <1>3 DEF Buffers
<1>6. Legal(c) /\ Legal(e)
  <2> HIDE DEF c, e
  <2> QED BY <1>4, <1>5 DEF Legal
<1>7. ExtendedBy(b, c, s, f) /\ ExtendedBy(b, e, s, b.flags)
  <2> HIDE DEF c, e
  <2> QED BY <1>4, <1>5, <1>6 DEF ExtendedBy, t
<1> QED BY ONLY <1>7 DEF c, e, t

-----------------------------------------------------------------------------
(* The order of a flow's packets, in the lists.                            *)

\* Packet x of lists[w] is written before packet y of lists[v].
Before(w, x, v, y) == w < v \/ (w = v /\ x < y)

\* The packets ids are written in their order.
Ordered(lists, ids) ==
    \A w, v \in DOMAIN lists : \A x \in DOMAIN lists[w], y \in DOMAIN lists[v] :
        lists[w][x] \in ids /\ lists[v][y] \in ids /\ Before(w, x, v, y) => lists[w][x] < lists[v][y]

\* The packet comes behind the packets k of a buffer or, if it is TCP, in front of them.
Beside(l, k, i, q) == l = Append(k, i) \/ (q = "tcp" /\ l = <<i>> \o k)

\* The numbers in the lists.
LEMMA ListsType ==
    ASSUME NEW pk \in Seq(AllPackets), NEW lists, ListsOK(lists, pk)
    PROVE  LET n == Len(pk) IN
           /\ n \in Nat /\ n + 1 \notin 1..n
           /\ \A w \in DOMAIN lists :
                /\ w \in 1..n /\ lists[w] \in Seq(1..n) /\ DOMAIN lists[w] = 1..Len(lists[w])
                /\ \A x \in DOMAIN lists[w] : lists[w][x] \in 1..n
<1> DEFINE n == Len(pk)
<1>1. n \in Nat OBVIOUS
<1>2. DOMAIN lists \subseteq 1..n /\ lists \in [DOMAIN lists -> Seq(1..n)] BY DEF ListsOK
<1> HIDE DEF n
<1>3. ASSUME NEW w \in DOMAIN lists
      PROVE  /\ w \in 1..n /\ lists[w] \in Seq(1..n) /\ DOMAIN lists[w] = 1..Len(lists[w])
             /\ \A x \in DOMAIN lists[w] : lists[w][x] \in 1..n
  <2> DEFINE l == lists[w]
             S == 1..n
  <2>1. w \in S /\ l \in Seq(S) BY <1>2
  <2> HIDE DEF l, S
  <2>2. DOMAIN l = 1..Len(l) /\ \A x \in DOMAIN l : l[x] \in S BY ONLY <2>1
  <2> QED BY <2>1, <2>2 DEF l, S
<1>4. n + 1 \notin 1..n BY <1>1
<1> QED BY <1>1, <1>3, <1>4 DEF n

\* The new packet stays in its own buffer, which is written last.
LEMMA OwnOrder ==
    ASSUME NEW pk \in Seq(AllPackets), NEW lists, ListsOK(lists, pk), NEW ids, Ordered(lists, ids \ {Len(pk) + 1})
    PROVE  Ordered(Own(lists, Len(pk) + 1), ids)
<1> DEFINE n == Len(pk)
           i == n + 1
           l2 == Own(lists, i)
<1>1. /\ n \in Nat /\ i \notin 1..n
      /\ \A w \in DOMAIN lists : w \in 1..n /\ \A x \in DOMAIN lists[w] : lists[w][x] \in 1..n
  BY ListsType
<1>2. Ordered(lists, ids \ {i}) OBVIOUS
<1> HIDE DEF n
<1>3. DOMAIN l2 = DOMAIN lists \cup {i} /\ l2[i] = <<i>> /\ \A w \in DOMAIN lists : l2[w] = lists[w] BY <1>1 DEF Own
<1> HIDE DEF l2
<1>4. DOMAIN <<i>> = {1} /\ <<i>>[1] = i OBVIOUS
<1>5. \A j \in 1..n : j < i BY <1>1
<1>6. ASSUME NEW w \in DOMAIN l2, NEW v \in DOMAIN l2, NEW x \in DOMAIN l2[w], NEW y \in DOMAIN l2[v],
             l2[w][x] \in ids, l2[v][y] \in ids, Before(w, x, v, y)
      PROVE  l2[w][x] < l2[v][y]
  <2> HIDE DEF i
  <2>1. CASE w \in DOMAIN lists /\ v \in DOMAIN lists
    <3>1. l2[w] = lists[w] /\ l2[v] = lists[v] BY <1>3, <2>1
    <3>2. lists[w][x] \in 1..n /\ lists[v][y] \in 1..n BY <1>1, <2>1, <3>1
    <3>3. lists[w][x] \in ids \ {i} /\ lists[v][y] \in ids \ {i} BY <1>1, <1>6, <3>1, <3>2
    <3> QED BY <1>2, <1>6, <2>1, <3>1, <3>3 DEF Ordered
  <2>2. CASE w \in DOMAIN lists /\ v = i
    <3>1. l2[w][x] \in 1..n /\ l2[v][y] = i BY <1>1, <1>3, <1>4, <2>2
    <3> QED BY <1>5, <3>1
  <2>3. CASE w = i
    <3>1. v \in 1..n \/ v = i BY <1>1, <1>3
    <3>2. v = i /\ x < y BY <1>1, <1>6, <2>3, <3>1 DEF Before, i
    <3>3. x = 1 /\ y = 1 BY <1>3, <1>4, <2>3, <3>2
    <3> QED BY <3>2, <3>3
  <2> QED BY <1>3, <2>1, <2>2, <2>3
<1>7. Ordered(l2, ids) BY <1>6 DEF Ordered
<1> QED BY <1>7 DEF l2, n

\* Where the packets of a buffer are after a merge.
LEMMA BesidePlaces ==
    ASSUME NEW n \in Nat, NEW k \in Seq(1..n), NEW l, NEW q, Beside(l, k, n + 1, q)
    PROVE  /\ \E d \in {0, 1} :
                /\ DOMAIN l = 1..(Len(k) + 1)
                /\ \A x \in DOMAIN l : l[x] # n + 1 => x - d \in DOMAIN k /\ l[x] = k[x - d]
           /\ \A x \in DOMAIN l : l[x] \in 1..(n + 1)
<1> DEFINE i == n + 1
           c == Len(k)
<1>0. c \in Nat /\ DOMAIN k = 1..c /\ \A m \in 1..c : k[m] \in 1..n OBVIOUS
<1>1. \A m \in 1..c : k[m] \in 1..i BY <1>0
<1>2. CASE l = Append(k, i)
  <2>1. DOMAIN l = 1..(c + 1) /\ l[c + 1] = i /\ \A m \in 1..c : l[m] = k[m] BY <1>0, <1>2
  <2>2. \A x \in 1..(c + 1) : x = c + 1 \/ x \in 1..c BY <1>0
  <2> HIDE DEF c
  <2>3. \A x \in DOMAIN l : l[x] # i => x - 0 \in DOMAIN k /\ l[x] = k[x - 0] BY <1>0, <2>1, <2>2
  <2>4. \A x \in DOMAIN l : l[x] \in 1..i BY <1>0, <1>1, <2>1, <2>2
  <2> QED BY <2>1, <2>3, <2>4 DEF c
<1>3. CASE l = <<i>> \o k
  <2>1. DOMAIN l = 1..(c + 1) /\ l[1] = i /\ \A m \in 1..c : l[m + 1] = k[m]
    <3>1. k \in Seq(1..i) /\ i \in 1..i
      <4>1. 1..n \subseteq 1..i OBVIOUS
      <4> QED BY <4>1
    <3>2. /\ <<i>> \o k \in Seq(1..i) /\ Len(<<i>> \o k) = c + 1
          /\ (<<i>> \o k)[1] = i /\ \A m \in 1..c : (<<i>> \o k)[m + 1] = k[m]
      BY <3>1, PrependFacts
    <3>3. l \in Seq(1..i) /\ Len(l) = c + 1 BY <1>3, <3>2
    <3> QED BY <1>3, <3>2, <3>3
  <2>2. \A x \in 1..(c + 1) : x = 1 \/ (x - 1 \in 1..c /\ (x - 1) + 1 = x) BY <1>0
  <2> HIDE DEF c
  <2>3. \A x \in DOMAIN l : l[x] # i => x - 1 \in DOMAIN k /\ l[x] = k[x - 1]
    <3> TAKE x \in DOMAIN l
    <3> HAVE l[x] # i
    <3>1. x - 1 \in 1..c /\ (x - 1) + 1 = x BY <2>1, <2>2
    <3>2. l[(x - 1) + 1] = k[x - 1] BY <2>1, <3>1
    <3> QED BY <1>0, <3>1, <3>2
  <2>4. \A x \in DOMAIN l : l[x] \in 1..i
    <3> TAKE x \in DOMAIN l
    <3>1. CASE x = 1 BY <1>0, <2>1, <3>1
    <3>2. CASE l[x] # i BY <1>0, <1>1, <2>3, <3>2
    <3> QED BY <3>1, <3>2
  <2> QED BY <2>1, <2>3, <2>4 DEF c
<1> QED BY <1>2, <1>3 DEF Beside

\* A merge leaves the order of the other packets.
LEMMA BesideOrder ==
    ASSUME NEW pk \in Seq(AllPackets), NEW lists, ListsOK(lists, pk), NEW w \in DOMAIN lists, NEW l, NEW q,
           Beside(l, lists[w], Len(pk) + 1, q), NEW ids, Ordered(lists, ids), Len(pk) + 1 \notin ids
    PROVE  Ordered(Joined(lists, w, l), ids)
<1> DEFINE n == Len(pk)
           l2 == Joined(lists, w, l)
<1>0. Ordered(lists, ids) /\ n + 1 \notin ids OBVIOUS
<1>1. n \in Nat /\ lists[w] \in Seq(1..n) /\ Beside(l, lists[w], n + 1, q) BY ListsType
<1> HIDE DEF n
<1>2. DOMAIN l2 = DOMAIN lists /\ l2[w] = l /\ \A v \in DOMAIN lists \ {w} : l2[v] = lists[v] BY DEF Joined
<1>3. PICK d \in {0, 1} : \A x \in DOMAIN l : l[x] # n + 1 => x - d \in DOMAIN lists[w] /\ l[x] = lists[w][x - d]
  BY <1>1, BesidePlaces
<1>4. DOMAIN l \subseteq Nat
  <2>1. DOMAIN l = 1..(Len(lists[w]) + 1) BY <1>1, BesidePlaces
  <2> QED BY <2>1
<1> HIDE DEF l2
<1> DEFINE At(v, x) == IF v = w THEN x - d ELSE x
<1>5. ASSUME NEW v \in DOMAIN lists, NEW x \in DOMAIN l2[v], l2[v][x] \in ids
      PROVE  At(v, x) \in DOMAIN lists[v] /\ l2[v][x] = lists[v][At(v, x)]
  <2>1. CASE v = w BY <1>0, <1>2, <1>3, <1>5, <2>1
  <2>2. CASE v # w BY <1>2, <2>2
  <2> QED BY <2>1, <2>2
<1> SUFFICES ASSUME NEW u \in DOMAIN lists, NEW v \in DOMAIN lists, NEW x \in DOMAIN l2[u], NEW y \in DOMAIN l2[v],
                    l2[u][x] \in ids, l2[v][y] \in ids, Before(u, x, v, y)
             PROVE  l2[u][x] < l2[v][y]
  BY <1>2 DEF Ordered, l2
<1>6. Before(u, At(u, x), v, At(v, y))
  <2>1. CASE u < v BY <2>1 DEF Before
  <2>2. CASE u = v /\ x < y
    <3>1. CASE u = w
      <4>1. x \in Nat /\ y \in Nat BY <1>2, <1>4, <2>2, <3>1
      <4> QED BY <2>2, <3>1, <4>1 DEF Before
    <3>2. CASE u # w BY <2>2, <3>2 DEF Before
    <3> QED BY <3>1, <3>2
  <2> QED BY <2>1, <2>2 DEF Before
<1>7. /\ At(u, x) \in DOMAIN lists[u] /\ l2[u][x] = lists[u][At(u, x)]
      /\ At(v, y) \in DOMAIN lists[v] /\ l2[v][y] = lists[v][At(v, y)]
  BY <1>5
<1> HIDE DEF At
<1> QED BY <1>6, <1>7 DEF Ordered

\* The new packet comes behind the last one of its flow.
LEMMA BehindOrder ==
    ASSUME NEW pk \in Seq(AllPackets), NEW lists, ListsOK(lists, pk), NEW w \in DOMAIN lists,
           NEW ids, Ordered(lists, ids \ {Len(pk) + 1}),
           \A v \in DOMAIN lists : \A y \in DOMAIN lists[v] : lists[v][y] \in ids => v <= w
    PROVE  Ordered(Joined(lists, w, Append(lists[w], Len(pk) + 1)), ids)
<1> DEFINE n == Len(pk)
           i == n + 1
           k == lists[w]
           l == Append(k, i)
           c == Len(k)
           l2 == Joined(lists, w, l)
<1>0. Ordered(lists, ids \ {i}) OBVIOUS
<1>1. /\ n \in Nat /\ i \notin 1..n /\ k \in Seq(1..n)
      /\ \A v \in DOMAIN lists : v \in 1..n /\ \A x \in DOMAIN lists[v] : lists[v][x] \in 1..n
  BY ListsType
<1>2. DOMAIN l2 = DOMAIN lists /\ l2[w] = l /\ \A v \in DOMAIN lists \ {w} : l2[v] = lists[v] BY DEF Joined
<1>3. \A j \in 1..n : j < i BY <1>1
<1> HIDE DEF n, i, k
<1>4. c \in Nat /\ DOMAIN k = 1..c /\ DOMAIN l = 1..(c + 1) /\ l[c + 1] = i /\ \A m \in 1..c : l[m] = k[m] BY <1>1
<1> HIDE DEF l2, l, c
<1>5. \A x \in DOMAIN l : x = c + 1 \/ x \in DOMAIN k BY <1>4
<1>6. ASSUME NEW v \in DOMAIN lists, NEW x \in DOMAIN l2[v]
      PROVE  (v = w /\ x = c + 1 /\ l2[v][x] = i) \/ (x \in DOMAIN lists[v] /\ l2[v][x] = lists[v][x])
  <2>1. CASE v = w
    <3>1. x \in DOMAIN l /\ l2[v][x] = l[x] BY <1>2, <2>1
    <3> QED BY <1>4, <1>5, <2>1, <3>1 DEF k
  <2>2. CASE v # w BY <1>2, <2>2
  <2> QED BY <2>1, <2>2
<1>7. ASSUME NEW u \in DOMAIN lists, NEW v \in DOMAIN lists, NEW x \in DOMAIN l2[u], NEW y \in DOMAIN l2[v],
             l2[u][x] \in ids, l2[v][y] \in ids, Before(u, x, v, y)
      PROVE  l2[u][x] < l2[v][y]
  <2>1. CASE /\ x \in DOMAIN lists[u] /\ l2[u][x] = lists[u][x]
             /\ y \in DOMAIN lists[v] /\ l2[v][y] = lists[v][y]
    <3>1. lists[u][x] \in 1..n /\ lists[v][y] \in 1..n BY <1>1, <2>1
    <3>2. lists[u][x] \in ids \ {i} /\ lists[v][y] \in ids \ {i} BY <1>1, <1>7, <2>1, <3>1
    <3> QED BY <1>0, <1>7, <2>1, <3>2 DEF Ordered
  <2>2. CASE /\ x \in DOMAIN lists[u] /\ l2[u][x] = lists[u][x] /\ l2[v][y] = i
    <3>1. lists[u][x] \in 1..n BY <1>1, <2>2
    <3> QED BY <1>3, <2>2, <3>1
  <2>3. CASE u = w /\ x = c + 1 /\ y \in DOMAIN lists[v] /\ l2[v][y] = lists[v][y]
    <3>1. v <= w /\ v \in 1..n /\ w \in 1..n BY <1>1, <1>7, <2>3
    <3>2. v = w /\ x < y BY <1>1, <1>7, <2>3, <3>1 DEF Before
    <3>3. y \in 1..c BY <1>4, <2>3, <3>2 DEF k
    <3> QED BY <1>4, <2>3, <3>2, <3>3
  <2>4. CASE u = w /\ x = c + 1 /\ v = w /\ y = c + 1
    <3>1. w \in 1..n BY <1>1
    <3> QED BY <1>1, <1>4, <1>7, <2>4, <3>1 DEF Before
  <2> QED BY <1>6, <2>1, <2>2, <2>3, <2>4
<1>8. Ordered(l2, ids) BY <1>2, <1>7 DEF Ordered
<1> QED BY <1>8 DEF l2, l, k, i, n

-----------------------------------------------------------------------------
(* A contiguous TCP stream: which of its packets can follow each other in  *)
(* a buffer.                                                               *)

\* Each of the packets ids starts where the one before it ends.
Contiguous(pk, ids) ==
    \A i, j \in ids :
        i < j /\ (\A k \in ids : ~(i < k /\ k < j)) => pk[j].seq = (pk[i].seq + pk[i].len) % SeqSpace

\* off[i]: where packet i starts in the stream, which begins at the sequence number base.
Offsets(off, base, pk, ids) ==
    /\ off \in [ids -> Nat] /\ base \in Nat
    /\ \A i \in ids : pk[i].seq = (base + off[i]) % SeqSpace /\ off[i] + pk[i].len < i * LenSpace
    /\ \A i, j \in ids : i < j => off[i] + pk[i].len <= off[j]

\* A stream that has offsets has them with one more packet.
LEMMA OffsetsStep ==
    ASSUME NEW pk \in Seq(AllPackets), NEW ids \in SUBSET (1..Len(pk)), Contiguous(pk, ids),
           NEW n \in ids, NEW off, NEW base, Offsets(off, base, pk, ids \cap 1..(n - 1))
    PROVE  \E off2, base2 : Offsets(off2, base2, pk, ids \cap 1..n)
<1> DEFINE P == ids \cap 1..(n - 1)
           Q == ids \cap 1..n
           L == pk[n].len
<1>1. n \in Nat \ {0} /\ n - 1 \in Nat OBVIOUS
<1>2. Q = P \cup {n} /\ n \notin P
  <2>1. \A x \in 1..n : x = n \/ x \in 1..(n - 1) BY <1>1
  <2>2. n \in 1..n /\ n \notin 1..(n - 1) /\ 1..(n - 1) \subseteq 1..n BY <1>1
  <2> QED BY <2>1, <2>2
<1>3. \A x \in P : x \in Nat /\ x < n /\ x \in ids BY <1>1
<1>4. \A x \in ids : /\ pk[x].seq \in Nat /\ pk[x].seq < SeqSpace /\ pk[x].len \in Nat /\ pk[x].len < LenSpace
                     /\ SeqSpace \in Nat \ {0} /\ LenSpace \in Nat \ {0}
  <2> TAKE x \in ids
  <2>1. pk[x] \in AllPackets OBVIOUS
  <2> DEFINE p == pk[x]
  <2> HIDE DEF p
  <2>2. p \in AllPackets BY <2>1 DEF p
  <2>3. /\ p.seq \in Nat /\ p.seq < SeqSpace /\ p.len \in Nat /\ p.len < LenSpace
        /\ SeqSpace \in Nat \ {0} /\ LenSpace \in Nat \ {0}
    <3>1. /\ p.seq \in Nat /\ p.seq < SeqSpace /\ p.len \in Nat /\ p.len <= p.room /\ p.room \in Nat /\ p.room < LenSpace
          /\ SeqSpace \in Nat \ {0} /\ LenSpace \in Nat \ {0}
      BY <2>2, PacketType
    <3> QED BY ONLY <3>1
  <2> QED BY <2>3 DEF p
<1>5. L \in Nat /\ L < LenSpace /\ LenSpace \in Nat \ {0} /\ SeqSpace \in Nat \ {0} BY <1>4
<1>6. /\ off \in [P -> Nat] /\ base \in Nat
      /\ \A i \in P : pk[i].seq = (base + off[i]) % SeqSpace /\ off[i] + pk[i].len < i * LenSpace
      /\ \A i, j \in P : i < j => off[i] + pk[i].len <= off[j]
  BY DEF Offsets
<1>7. CASE P = {}
  <2> DEFINE f == [x \in {n} |-> 0]
             b == pk[n].seq
  <2>1. Q = {n} BY <1>2, <1>7
  <2>2. b \in Nat /\ b = (b + 0) % SeqSpace BY <1>4, SmallMod
  <2>3. 0 + L < n * LenSpace
    <3>1. 1 * LenSpace = LenSpace /\ 1 * LenSpace <= n * LenSpace /\ n * LenSpace \in Nat BY <1>1, <1>5, Multiples
    <3> QED BY <1>5, <3>1
  <2>4. f \in [{n} -> Nat] /\ f[n] = 0 OBVIOUS
  <2>5. ~(n < n) BY <1>1
  <2> HIDE DEF f, b
  <2>6. Offsets(f, b, pk, {n}) BY <2>2, <2>3, <2>4, <2>5 DEF Offsets, b
  <2> QED BY <2>1, <2>6
<1>8. CASE P # {}
  <2> DEFINE z == Max(P)
             e == off[z] + pk[z].len
             f == [x \in Q |-> IF x = n THEN e ELSE off[x]]
  <2>1. z \in P /\ \A y \in P : y <= z
    <3>1. P \in SUBSET (0..(n - 1)) BY <1>1
    <3> HIDE DEF P
    <3> QED BY <1>1, <1>8, <3>1, MaxFacts
  <2> HIDE DEF P, z
  <2>2. z \in ids /\ z \in Nat /\ z < n /\ pk[z].len \in Nat /\ off[z] \in Nat /\ e \in Nat BY <1>3, <1>4, <1>6, <2>1
  <2>3. pk[n].seq = (pk[z].seq + pk[z].len) % SeqSpace
    <3>1. \A k \in ids : ~(z < k /\ k < n)
      <4> SUFFICES ASSUME NEW k \in ids, z < k, k < n PROVE FALSE OBVIOUS
      <4>1. k \in Nat /\ k \in 1..(n - 1)
        <5>1. k \in 1..Len(pk) OBVIOUS
        <5> QED BY <1>1, <5>1
      <4>2. k <= z BY <2>1, <4>1 DEF P
      <4> QED BY <2>2, <4>1, <4>2
    <3> QED BY <2>2, <3>1 DEF Contiguous
  <2>4. pk[n].seq = (base + e) % SeqSpace
    <3>1. pk[z].seq = (base + off[z]) % SeqSpace BY <1>6, <2>1
    <3> DEFINE a == base + off[z]
    <3>2. a \in Nat BY <1>6, <2>2
    <3> HIDE DEF a
    <3>3. ((a % SeqSpace) + pk[z].len) % SeqSpace = (a + pk[z].len) % SeqSpace BY <1>5, <2>2, <3>2, ModAdd
    <3>4. a + pk[z].len = base + e BY <1>6, <2>2 DEF a
    <3> QED BY <2>3, <3>1, <3>3, <3>4 DEF a
  <2>5. e + L < n * LenSpace
    <3>1. e < z * LenSpace BY <1>6, <2>1
    <3>2. z * LenSpace \in Nat /\ n * LenSpace \in Nat /\ z * LenSpace + LenSpace <= n * LenSpace BY <1>1, <1>5, <2>2, Multiples
    <3> DEFINE A == z * LenSpace
               B == n * LenSpace
    <3> HIDE DEF A, B, e, L
    <3>3. e < A /\ A \in Nat /\ B \in Nat /\ A + LenSpace <= B BY <3>1, <3>2 DEF A, B
    <3>4. e + L < B BY <1>5, <2>2, <3>3
    <3> QED BY <3>4 DEF B
  <2>6. f \in [Q -> Nat] /\ f[n] = e /\ \A x \in P : f[x] = off[x]
    <3>1. \A x \in Q : f[x] \in Nat BY <1>2, <1>6, <2>2
    <3>2. n \in Q /\ P \subseteq Q BY <1>2
    <3> HIDE DEF Q
    <3>3. \A x \in P : x # n BY <1>2
    <3> QED BY <3>1, <3>2, <3>3
  <2> HIDE DEF Q, f
  <2>7. ASSUME NEW i \in Q PROVE pk[i].seq = (base + f[i]) % SeqSpace /\ f[i] + pk[i].len < i * LenSpace
    <3>1. CASE i = n BY <2>4, <2>5, <2>6, <3>1
    <3>2. CASE i \in P BY <1>6, <2>6, <3>2
    <3> QED BY <1>2, <3>1, <3>2
  <2>8. ASSUME NEW i \in Q, NEW j \in Q, i < j PROVE f[i] + pk[i].len <= f[j]
    <3>1. CASE i \in P /\ j \in P BY <1>6, <2>6, <2>8, <3>1
    <3>2. CASE i \in P /\ j = n
      <4>1. CASE i = z BY <2>2, <2>6, <3>2, <4>1
      <4>2. CASE i # z
        <5>1. i < z
          <6>1. i \in Nat /\ i <= z /\ z \in Nat BY <1>3, <2>1, <2>2, <3>2
          <6> QED BY ONLY <4>2, <6>1
        <5>2. off[i] + pk[i].len <= off[z] BY <1>6, <2>1, <3>2, <5>1
        <5>3. off[i] \in Nat /\ pk[i].len \in Nat BY <1>3, <1>4, <1>6, <3>2
        <5>4. off[i] + pk[i].len <= e
          <6> DEFINE A == off[i]  B == pk[i].len  C == off[z]  D == pk[z].len
          <6>1. A \in Nat /\ B \in Nat /\ C \in Nat /\ D \in Nat /\ A + B <= C BY <2>2, <5>2, <5>3
          <6> HIDE DEF A, B, C, D
          <6>2. A + B <= C + D BY ONLY <6>1
          <6> QED BY <6>2 DEF A, B, C, D
        <5> QED BY <2>6, <3>2, <5>4
      <4> QED BY <4>1, <4>2
    <3>3. CASE i = n
      <4>1. j \in Nat /\ j <= n BY <1>1, <1>2, <1>3
      <4> QED BY <1>1, <2>8, <3>3, <4>1
    <3> QED BY <1>2, <3>1, <3>2, <3>3
  <2>9. Offsets(f, base, pk, Q) BY <1>6, <2>6, <2>7, <2>8 DEF Offsets
  <2> QED BY <2>9 DEF Q
<1> QED BY <1>7, <1>8

\* Every packet of a stream has its offset.
LEMMA OffsetsExist ==
    ASSUME NEW pk \in Seq(AllPackets), NEW ids \in SUBSET (1..Len(pk)), Contiguous(pk, ids)
    PROVE  \E off, base : Offsets(off, base, pk, ids)
<1> DEFINE Bad == {n \in Nat : ~\E off, base : Offsets(off, base, pk, ids \cap 1..n)}
<1>1. Bad = {}
  <2> SUFFICES ASSUME Bad # {} PROVE FALSE OBVIOUS
  <2>1. PICK n \in Bad : \A m \in Bad : n <= m
    <3>1. Bad \in SUBSET Nat OBVIOUS
    <3> HIDE DEF Bad
    <3> QED BY <3>1, Least
  <2>2. n \in Nat /\ ~\E off, base : Offsets(off, base, pk, ids \cap 1..n) OBVIOUS
  <2>3. n # 0
    <3> DEFINE f == [x \in {} |-> 0]
               b == 0
    <3>1. f \in [{} -> Nat] /\ b \in Nat OBVIOUS
    <3> HIDE DEF f, b
    <3>2. Offsets(f, b, pk, {}) BY <3>1 DEF Offsets
    <3>3. 1..0 = {} OBVIOUS
    <3>4. ids \cap 1..0 = {} BY <3>3
    <3>5. \E off, base : Offsets(off, base, pk, ids \cap 1..0) BY <3>2, <3>4
    <3> QED BY <2>2, <3>5
  <2>4. n - 1 \in Nat /\ ~(n <= n - 1) BY <2>2, <2>3
  <2>5. n - 1 \notin Bad BY <2>1, <2>4
  <2>6. PICK off, base : Offsets(off, base, pk, ids \cap 1..(n - 1)) BY <2>4, <2>5
  <2>7. CASE n \in ids
    <3> HIDE DEF Bad
    <3> QED BY <2>2, <2>6, <2>7, OffsetsStep
  <2>8. CASE n \notin ids
    <3>1. \A x \in 1..n : x = n \/ x \in 1..(n - 1) BY <2>2
    <3>2. 1..(n - 1) \subseteq 1..n BY <2>2
    <3>3. ids \cap 1..n = ids \cap 1..(n - 1) BY <2>8, <3>1, <3>2
    <3> QED BY <2>2, <2>6, <3>3
  <2> QED BY <2>7, <2>8
<1>2. Len(pk) \in Nat OBVIOUS
<1>3. ids \cap 1..Len(pk) = ids OBVIOUS
<1>4. Len(pk) \notin Bad BY <1>1
<1>5. \E off, base : Offsets(off, base, pk, ids \cap 1..Len(pk)) BY <1>2, <1>4
<1> QED BY <1>3, <1>5

\* Two numbers less than the modulus apart have different remainders.
LEMMA SameRemainder ==
    ASSUME NEW s \in Nat \ {0}, NEW a \in Nat, NEW d \in Nat, d < s, (a + d) % s = a % s
    PROVE  d = 0
<1> DEFINE q == a \div s
           r == a % s
<1>1. q \in Nat /\ r \in 0..(s - 1) /\ a = s * q + r BY Division
<1>2. (a + d) % s = r OBVIOUS
<1> HIDE DEF q, r
<1>3. s * q = q * s /\ q * s \in Nat /\ (q + 1) * s = q * s + s BY <1>1, Multiples
<1>4. CASE r + d < s
  <2>1. r + d \in 0..(s - 1) BY <1>1, <1>4
  <2>2. a + d = q * s + (r + d) BY <1>1, <1>3
  <2>3. (q * s + (r + d)) % s = r + d BY <1>1, <2>1, DivMod
  <2> QED BY <1>1, <1>2, <2>2, <2>3
<1>5. CASE ~(r + d < s)
  <2>1. r + d - s \in 0..(s - 1) /\ q + 1 \in Nat BY <1>1, <1>5
  <2>2. a + d = (q + 1) * s + (r + d - s) BY <1>1, <1>3
  <2>3. ((q + 1) * s + (r + d - s)) % s = r + d - s BY <2>1, DivMod
  <2>4. r + d - s = r BY <1>2, <2>2, <2>3
  <2> QED BY <1>1, <2>4
<1> QED BY <1>4, <1>5

\* The numbers of two packets of a stream.
LEMMA StreamNumbers ==
    ASSUME NEW pk \in Seq(AllPackets), Len(pk) <= MaxBatch, NEW ids \in SUBSET (1..Len(pk)), Contiguous(pk, ids),
           \A i \in ids : pk[i].len > 0, NEW x \in ids, NEW y \in ids, x < y
    PROVE  /\ pk[y].seq = (pk[x].seq + pk[x].len) % SeqSpace => \A k \in ids : ~(x < k /\ k < y)
           /\ pk[x].seq # (pk[y].seq + pk[y].len) % SeqSpace
<1>1. PICK off, base : Offsets(off, base, pk, ids) BY OffsetsExist
<1>2. /\ off \in [ids -> Nat] /\ base \in Nat
      /\ \A i \in ids : pk[i].seq = (base + off[i]) % SeqSpace /\ off[i] + pk[i].len < i * LenSpace
      /\ \A i, j \in ids : i < j => off[i] + pk[i].len <= off[j]
  BY <1>1 DEF Offsets
<1>3. ASSUME NEW i \in ids PROVE pk[i].len \in Nat /\ off[i] \in Nat /\ i \in Nat /\ i <= MaxBatch
  <2>1. i \in 1..Len(pk) /\ Len(pk) \in Nat OBVIOUS
  <2>2. pk[i] \in AllPackets BY <2>1
  <2>3. MaxBatch \in Nat BY GROAssumption
  <2>4. pk[i].len \in Nat BY <2>2, PacketType
  <2> QED BY <1>2, <2>1, <2>3, <2>4
<1>4. SeqSpace \in Nat \ {0} /\ LenSpace \in Nat \ {0} /\ MaxBatch \in Nat /\ MaxBatch * LenSpace <= SeqSpace
  BY GROAssumption, StreamAssumption
<1> DEFINE a == off[x]
           c == off[y]
           m == pk[x].len
           n == pk[y].len
<1>5. a \in Nat /\ c \in Nat /\ m \in Nat \ {0} /\ n \in Nat \ {0} /\ a + m <= c BY <1>2, <1>3
<1>6. c + n < SeqSpace
  <2>1. c + n < y * LenSpace BY <1>2
  <2>2. y * LenSpace <= MaxBatch * LenSpace /\ y * LenSpace \in Nat /\ MaxBatch * LenSpace \in Nat BY <1>3, <1>4, Multiples
  <2> DEFINE A == y * LenSpace
             B == MaxBatch * LenSpace
  <2> HIDE DEF A, B, c, n
  <2>3. c + n < A /\ A <= B /\ A \in Nat /\ B \in Nat /\ B <= SeqSpace BY <1>4, <2>1, <2>2 DEF A, B
  <2> QED BY <1>4, <1>5, <2>3
<1>7. pk[x].seq = (base + a) % SeqSpace /\ pk[y].seq = (base + c) % SeqSpace BY <1>2
<1> HIDE DEF a, c, m, n
<1>8. ASSUME pk[y].seq = (pk[x].seq + m) % SeqSpace, NEW k \in ids, x < k, k < y PROVE FALSE
  <2> DEFINE b == base + a + m
             d == c - (a + m)
  <2>1. b \in Nat /\ d \in Nat /\ d < SeqSpace /\ base + c = b + d /\ base + a \in Nat BY <1>2, <1>4, <1>5, <1>6
  <2>2. (pk[x].seq + m) % SeqSpace = b % SeqSpace
    <3>1. (((base + a) % SeqSpace) + m) % SeqSpace = ((base + a) + m) % SeqSpace BY <1>4, <1>5, <2>1, ModAdd
    <3> QED BY <1>7, <3>1
  <2>3. (b + d) % SeqSpace = b % SeqSpace BY <1>7, <1>8, <2>1, <2>2
  <2> HIDE DEF b
  <2>4. d = 0
    <3> HIDE DEF d
    <3> QED BY <1>4, <2>1, <2>3, SameRemainder
  <2>5. a + m <= off[k] /\ off[k] + pk[k].len <= c BY <1>2, <1>8 DEF a, m, c
  <2>6. pk[k].len \in Nat \ {0} /\ off[k] \in Nat BY <1>3
  <2> QED BY <1>5, <2>4, <2>5, <2>6
<1>9. ASSUME pk[x].seq = (pk[y].seq + n) % SeqSpace PROVE FALSE
  <2> DEFINE b == base + a
             d == c + n - a
  <2>1. b \in Nat /\ d \in Nat \ {0} /\ d < SeqSpace /\ (base + c) + n = b + d /\ base + c \in Nat BY <1>2, <1>4, <1>5, <1>6
  <2>2. (pk[y].seq + n) % SeqSpace = (b + d) % SeqSpace
    <3>1. (((base + c) % SeqSpace) + n) % SeqSpace = ((base + c) + n) % SeqSpace BY <1>4, <1>5, <2>1, ModAdd
    <3> QED BY <1>7, <2>1, <3>1
  <2>3. (b + d) % SeqSpace = b % SeqSpace BY <1>7, <1>9, <2>2
  <2> HIDE DEF b, d
  <2> QED BY <1>4, <2>1, <2>3, SameRemainder
<1> QED BY <1>8, <1>9 DEF m, n

\* Packets of one buffer that follow each other follow each other in the stream.
LEMMA Adjacent ==
    ASSUME NEW pk \in Seq(AllPackets), NEW lists, NEW bs, NEW ts, Groups(lists, pk, bs, ts), NEW w \in DOMAIN lists,
           NEW m \in Nat \ {0}, m + 1 <= Len(lists[w])
    PROVE  LET a == pk[lists[w][m]]  c == pk[lists[w][m + 1]] IN
           /\ a.proto = c.proto /\ a.flow = c.flow /\ a.len \in Nat \ {0} /\ c.len \in Nat \ {0}
           /\ a.proto = "tcp" => c.seq = (a.seq + a.len) % SeqSpace
<1> DEFINE l == lists[w]
           a == pk[l[m]]
           c == pk[l[m + 1]]
           b == bs[w]
<1>1. ListsOK(lists, pk) /\ BuffersOK(lists, pk, bs) /\ TablesOK(lists, pk, bs, ts) BY DEF Groups
<1>2. w \in 1..Len(pk) /\ l \in Seq(1..Len(pk)) BY <1>1, ListsType
<1>3. Len(l) \in Nat /\ Len(l) > 1 /\ Len(l) # 1
  <2> DEFINE c1 == Len(l)
  <2>1. c1 \in Nat
    <3> DEFINE S == 1..Len(pk)
    <3> HIDE DEF l, S
    <3>1. l \in Seq(S) BY <1>2 DEF S
    <3> QED BY ONLY <3>1
  <2>2. m + 1 <= c1 OBVIOUS
  <2> HIDE DEF c1
  <2>3. c1 > 1 /\ c1 # 1 BY ONLY <2>1, <2>2, m \in Nat \ {0}
  <2> QED BY <2>1, <2>3 DEF c1
<1>4. PICK q \in Protos : \E key \in DOMAIN ts[q] : \E j \in DOMAIN ts[q][key] : ts[q][key][j].bufsIndex = w
  BY <1>3 DEF Groups, Indexed
<1>5. PICK key \in DOMAIN ts[q] : \E j \in DOMAIN ts[q][key] : ts[q][key][j].bufsIndex = w BY <1>4
<1>6. PICK j \in DOMAIN ts[q][key] : ts[q][key][j].bufsIndex = w BY <1>5
<1> DEFINE item == ts[q][key][j]
           g == item.gsoSize
<1>7. ItemsOK(ts[q][key], key, q, lists, pk, bs) BY <1>1 DEF TablesOK
<1>8. Describes(item, key, q, pk, b, l) BY <1>6, <1>7 DEF ItemsOK
<1>9. Holds(pk, b, g, l) BY <1>8 DEF Describes
<1>10. g \in Nat
  <2>1. item \in ItemsOf(q)
    <3>1. ts[q][key] \in Seq(ItemsOf(q)) BY <1>7 DEF ItemsOK
    <3> QED BY ONLY <3>1, j \in DOMAIN ts[q][key]
  <2>2. q \in {"tcp", "udp"} BY DEF Protos
  <2> HIDE DEF item
  <2> QED BY ONLY <2>1, <2>2 DEF ItemsOf
<1> HIDE DEF g
<1>11. Piece(pk, b, g, l, m) /\ Piece(pk, b, g, l, m + 1) /\ m < Len(l)
  <2>1. m \in 1..Len(l) /\ m + 1 \in 1..Len(l) /\ m < Len(l) BY <1>3
  <2> QED BY <1>9, <2>1 DEF Holds
<1>12. /\ a.len = g /\ a.len \in 1..g /\ c.len \in 1..g
       /\ a.proto = b.proto /\ c.proto = b.proto /\ a.flow = b.flow /\ c.flow = b.flow
       /\ b.proto = "tcp" => /\ a.seq = (b.seq + (m - 1) * g) % SeqSpace
                             /\ c.seq = (b.seq + ((m + 1) - 1) * g) % SeqSpace
  BY <1>11 DEF Piece
<1>13. b.seq \in Nat
  <2>1. bs \in Seq(Buffers) /\ Len(bs) = Len(pk) BY <1>1 DEF BuffersOK
  <2>2. w \in DOMAIN bs BY <1>2, <2>1
  <2>3. bs[w] \in Buffers BY <2>1, <2>2
  <2> QED BY <2>3 DEF Buffers
<1>14. a.len \in Nat \ {0} /\ c.len \in Nat \ {0} BY <1>10, <1>12
<1>15. ASSUME a.proto = "tcp" PROVE c.seq = (a.seq + a.len) % SeqSpace
  <2> DEFINE s == b.seq
             e == (m - 1) * g
  <2>1. m - 1 \in Nat /\ (m - 1) + 1 = m OBVIOUS
  <2>2. e \in Nat /\ ((m - 1) + 1) * g = e + g BY <1>10, <2>1, Multiples
  <2>3. ((m + 1) - 1) * g = e + g BY <2>1, <2>2
  <2> HIDE DEF s, e
  <2>4. s + e \in Nat /\ (s + e) + g = s + (e + g)
    <3>1. s \in Nat BY <1>13 DEF s
    <3> QED BY ONLY <1>10, <2>2, <3>1
  <2>5. SeqSpace \in Nat \ {0} BY GROAssumption
  <2>6. (((s + e) % SeqSpace) + g) % SeqSpace = ((s + e) + g) % SeqSpace BY <1>10, <2>4, <2>5, ModAdd
  <2>7. a.seq = (s + e) % SeqSpace /\ c.seq = (s + (e + g)) % SeqSpace BY <1>12, <1>15, <2>3 DEF s, e
  <2> HIDE DEF a, c
  <2> QED BY <1>12, <2>4, <2>6, <2>7
<1> QED BY <1>12, <1>14, <1>15

-----------------------------------------------------------------------------
(* The order of every flow, when one more packet is looked at.             *)

\* The datagrams of a flow that enter the table, and the segments of a TCP flow.
Datagrams(pk, f) ==
    {i \in 1..Len(pk) : pk[i].proto = "udp" /\ pk[i].flow = f /\ pk[i].valid /\ pk[i].len > 0}
Stream(pk, f) == {i \in 1..Len(pk) : pk[i].proto = "tcp" /\ pk[i].flow = f /\ pk[i].len > 0}

\* What FlowOrder says, of the lists.
FlowsOrdered(lists, pk) ==
    \A f : /\ Ordered(lists, Datagrams(pk, f))
           /\ Contiguous(pk, Stream(pk, f)) => Ordered(lists, Stream(pk, f))

\* The packet n joins the packets of buffer w.
Merged(lists, lists2, n, p, q, w) ==
    /\ p.proto = q /\ w \in DOMAIN lists
    /\ \E l : Beside(l, lists[w], n, q) /\ lists2 = Joined(lists, w, l)

\* The flows with one more packet.
LEMMA FlowGrows ==
    ASSUME NEW pk \in Seq(AllPackets), NEW p, NEW f
    PROVE  LET pk2 == Append(pk, p)  i == Len(pk) + 1 IN
           /\ Datagrams(pk2, f) \ {i} = Datagrams(pk, f) /\ Stream(pk2, f) \ {i} = Stream(pk, f)
           /\ i \in Datagrams(pk2, f) => p.proto = "udp" /\ p.flow = f
           /\ i \in Stream(pk2, f) => p.proto = "tcp" /\ p.flow = f
           /\ Contiguous(pk2, Stream(pk2, f)) => Contiguous(pk, Stream(pk, f))
<1> DEFINE pk2 == Append(pk, p)
           n == Len(pk)
           i == n + 1
<1>1. n \in Nat /\ Len(pk2) = i /\ pk2[i] = p /\ \A j \in 1..n : pk2[j] = pk[j] OBVIOUS
<1> HIDE DEF pk2, n
<1>2. (\A j \in 1..i : j = i \/ j \in 1..n) /\ (\A j \in 1..n : j \in 1..i /\ j < i /\ j # i) /\ i \in 1..i BY <1>1
<1>3. Datagrams(pk2, f) \ {i} = Datagrams(pk, f) BY <1>1, <1>2 DEF Datagrams, n
<1>4. Stream(pk2, f) \ {i} = Stream(pk, f) BY <1>1, <1>2 DEF Stream, n
<1>5. i \in Datagrams(pk2, f) => p.proto = "udp" /\ p.flow = f BY <1>1 DEF Datagrams
<1>6. i \in Stream(pk2, f) => p.proto = "tcp" /\ p.flow = f BY <1>1 DEF Stream
<1>7. ASSUME Contiguous(pk2, Stream(pk2, f)) PROVE Contiguous(pk, Stream(pk, f))
  <2> SUFFICES ASSUME NEW x \in Stream(pk, f), NEW y \in Stream(pk, f), x < y,
                      \A k \in Stream(pk, f) : ~(x < k /\ k < y)
               PROVE  pk[y].seq = (pk[x].seq + pk[x].len) % SeqSpace
    BY DEF Contiguous
  <2>1. x \in 1..n /\ y \in 1..n BY DEF Stream, n
  <2>2. ~(i < y)
    <3>1. i \in Nat /\ y \in Nat /\ y < i BY <1>1, <1>2, <2>1
    <3> HIDE DEF i
    <3> QED BY ONLY <3>1
  <2>3. \A k \in Stream(pk2, f) : ~(x < k /\ k < y) BY <1>4, <2>2
  <2>4. x \in Stream(pk2, f) /\ y \in Stream(pk2, f) BY <1>4
  <2>5. pk2[y].seq = (pk2[x].seq + pk2[x].len) % SeqSpace BY <1>7, <2>3, <2>4 DEF Contiguous
  <2> QED BY <1>1, <2>1, <2>5
<1> QED BY <1>3, <1>4, <1>5, <1>6, <1>7 DEF pk2, n

\* A datagram is merged into the last buffer of its flow.
LEMMA DatagramOrder ==
    ASSUME NEW pk \in Seq(AllPackets), NEW p, NEW lists, ListsOK(lists, pk), NEW w,
           NEW lists2, Merged(lists, lists2, Len(pk) + 1, p, "udp", w), NEW f, Ordered(lists, Datagrams(pk, f)),
           \A v \in DOMAIN lists : \A y \in DOMAIN lists[v] : lists[v][y] \in Datagrams(pk, p.flow) => v <= w
    PROVE  Ordered(lists2, Datagrams(Append(pk, p), f))
<1> DEFINE i == Len(pk) + 1
           ids == Datagrams(Append(pk, p), f)
<1>1. ids \ {i} = Datagrams(pk, f) /\ (i \in ids => p.flow = f) BY FlowGrows
<1>2. PICK l : Beside(l, lists[w], i, "udp") /\ lists2 = Joined(lists, w, l) BY DEF Merged
<1>3. w \in DOMAIN lists BY DEF Merged
<1>4. Ordered(lists, ids \ {i}) BY <1>1
<1> HIDE DEF ids
<1>5. CASE i \notin ids
  <2>1. ids \ {i} = ids BY <1>5
  <2> QED BY <1>2, <1>3, <1>4, <1>5, <2>1, BesideOrder DEF ids
<1>6. CASE i \in ids
  <2>1. l = Append(lists[w], i)
    <3>1. "udp" # "tcp" OBVIOUS
    <3> QED BY <1>2, <3>1 DEF Beside
  <2>2. ASSUME NEW v \in DOMAIN lists, NEW y \in DOMAIN lists[v], lists[v][y] \in ids PROVE v <= w
    <3>1. lists[v][y] # i
      <4>1. i \notin 1..Len(pk) /\ lists[v][y] \in 1..Len(pk) BY ListsType
      <4> QED BY <4>1
    <3>2. lists[v][y] \in Datagrams(pk, p.flow) BY <1>1, <1>6, <2>2, <3>1
    <3> QED BY <3>2
  <2>3. Ordered(Joined(lists, w, Append(lists[w], i)), ids) BY <1>3, <1>4, <2>2, BehindOrder
  <2> QED BY <1>2, <2>1, <2>3 DEF ids
<1> QED BY <1>5, <1>6

\* A merged segment follows, in a contiguous stream, the last packet of the flow.
LEMMA SegmentOrder ==
    ASSUME NEW pk \in Seq(AllPackets), NEW p \in AllPackets, Len(pk) + 1 <= MaxBatch, NEW lists, ListsOK(lists, pk),
           NEW lists2, NEW bs, NEW ts, Groups(lists2, Append(pk, p), bs, ts), NEW w,
           Merged(lists, lists2, Len(pk) + 1, p, "tcp", w), \A v \in DOMAIN lists : lists[v] # <<>>,
           NEW f, Ordered(lists, Stream(pk, f)), Contiguous(Append(pk, p), Stream(Append(pk, p), f))
    PROVE  Ordered(lists2, Stream(Append(pk, p), f))
<1> DEFINE n == Len(pk)
           i == n + 1
           pk2 == Append(pk, p)
           ids == Stream(pk2, f)
           k == lists[w]
           c == Len(k)
<1>1. ids \ {i} = Stream(pk, f) /\ (i \in ids => p.flow = f) BY FlowGrows
<1>2. PICK l : Beside(l, lists[w], i, "tcp") /\ lists2 = Joined(lists, w, l) BY DEF Merged
<1>3. w \in DOMAIN lists BY DEF Merged
<1>4. Ordered(lists, ids \ {i}) BY <1>1
<1>5. /\ n \in Nat /\ i \notin 1..n /\ k \in Seq(1..n) /\ DOMAIN k = 1..c
      /\ \A v \in DOMAIN lists : v \in 1..n /\ \A x \in DOMAIN lists[v] : lists[v][x] \in 1..n
  BY <1>3, ListsType
<1>6. pk2 \in Seq(AllPackets) /\ Len(pk2) = i /\ i \in Nat /\ i <= MaxBatch
  <2>1. pk2 \in Seq(AllPackets) /\ Len(pk2) = i BY AppendFacts
  <2> QED BY <1>5, <2>1
<1>7. ids \in SUBSET (1..Len(pk2)) /\ Contiguous(pk2, ids) /\ \A j \in ids : pk2[j].len > 0 BY DEF Stream
<1>8. c \in Nat \ {0}
  <2>1. k # <<>> BY <1>3
  <2> DEFINE S == 1..n
  <2>2. k \in Seq(S) BY <1>5
  <2> HIDE DEF k, S
  <2> QED BY ONLY <2>1, <2>2
<1>9. lists2[w] = l /\ w \in DOMAIN lists2 BY <1>2, <1>3 DEF Joined
<1>10. ASSUME NEW m \in Nat \ {0}, m + 1 <= Len(l)
       PROVE  LET a == pk2[l[m]]  b == pk2[l[m + 1]] IN
              /\ a.proto = b.proto /\ a.flow = b.flow /\ a.len \in Nat \ {0} /\ b.len \in Nat \ {0}
              /\ a.proto = "tcp" => b.seq = (a.seq + a.len) % SeqSpace
  <2> HIDE DEF pk2
  <2>1. Groups(lists2, pk2, bs, ts) BY DEF pk2
  <2>2. m \in Nat \ {0} /\ m + 1 <= Len(lists2[w]) /\ w \in DOMAIN lists2 /\ pk2 \in Seq(AllPackets) BY <1>6, <1>9, <1>10
  <2> HIDE DEF i, n, k, c, ids
  <2> DEFINE a == pk2[lists2[w][m]]
             b == pk2[lists2[w][m + 1]]
  <2>3. /\ a.proto = b.proto /\ a.flow = b.flow /\ a.len \in Nat \ {0} /\ b.len \in Nat \ {0}
        /\ a.proto = "tcp" => b.seq = (a.seq + a.len) % SeqSpace
    BY ONLY <2>1, <2>2, Adjacent
  <2> QED BY <1>9, <2>3
<1>11. \A x \in 1..n : x < i /\ x \in 1..i BY <1>5
<1>12. Stream(pk2, f) = {j \in 1..i : pk2[j].proto = "tcp" /\ pk2[j].flow = f /\ pk2[j].len > 0} BY <1>6 DEF Stream
<1>13. CASE i \notin ids
  <2>1. ids \ {i} = ids BY <1>13
  <2> HIDE DEF ids
  <2> QED BY <1>2, <1>3, <1>4, <1>13, <2>1, BesideOrder DEF ids
<1>14. CASE i \in ids /\ l = Append(k, i)
  <2> DEFINE z == k[c]
  <2>1. c \in 1..c /\ z \in 1..n BY <1>5, <1>8
  <2>2. Len(l) = c + 1 /\ l[c] = z /\ l[c + 1] = i
    <3> DEFINE S == 1..n
    <3>1. k \in Seq(S) BY <1>5
    <3> HIDE DEF k, S, i
    <3> QED BY ONLY <1>8, <1>14, <3>1
  <2> HIDE DEF pk2, ids, k, c, z
  <2>3. /\ pk2[z].proto = pk2[i].proto /\ pk2[z].flow = pk2[i].flow /\ pk2[z].len \in Nat \ {0}
        /\ pk2[z].proto = "tcp" => pk2[i].seq = (pk2[z].seq + pk2[z].len) % SeqSpace
    <3>1. c \in Nat \ {0} /\ c + 1 <= Len(l) BY <1>8, <2>2
    <3> QED BY <1>10, <2>2, <3>1
  <2>4. pk2[i].proto = "tcp" /\ pk2[i].flow = f BY <1>12, <1>14 DEF ids
  <2>5. z \in ids /\ z < i
    <3>1. pk2[z].len > 0 BY ONLY <2>3
    <3> QED BY <1>11, <1>12, <2>1, <2>3, <2>4, <3>1 DEF ids
  <2>6. \A x \in ids : ~(z < x /\ x < i) BY <1>6, <1>7, <1>14, <2>3, <2>4, <2>5, StreamNumbers
  <2>7. ASSUME NEW v \in DOMAIN lists, NEW y \in DOMAIN lists[v], lists[v][y] \in ids PROVE v <= w
    <3>1. lists[v][y] \in 1..n /\ v \in 1..n /\ w \in 1..n BY <1>3, <1>5
    <3> DEFINE x == lists[v][y]
    <3>2. x \in Nat /\ z \in Nat /\ x < i /\ ~(z < x) BY <1>11, <2>1, <2>6, <2>7, <3>1
    <3> SUFFICES ASSUME ~(v <= w) PROVE FALSE OBVIOUS
    <3>3. w < v BY <3>1
    <3>4. lists[w][c] = z /\ c \in DOMAIN lists[w] BY <1>5, <2>1 DEF z, k, c
    <3>5. z \in ids \ {i} /\ x \in ids \ {i}
      <4>1. z # i /\ x # i BY <1>5, <2>1, <3>1
      <4> QED BY <2>5, <2>7, <4>1
    <3>6. z < x BY <1>3, <1>4, <3>3, <3>4, <3>5 DEF Ordered, Before
    <3> QED BY <3>2, <3>6
  <2>8. Ordered(Joined(lists, w, Append(lists[w], i)), ids) BY <1>3, <1>4, <2>7, BehindOrder
  <2> QED BY <1>2, <1>14, <2>8 DEF ids, k, pk2
<1>15. CASE i \in ids /\ l = <<i>> \o k
  <2> DEFINE z == k[1]
  <2>1. 1 \in 1..c /\ z \in 1..n BY <1>5, <1>8
  <2>2. Len(l) = c + 1 /\ l[1] = i /\ l[2] = z
    <3>1. k \in Seq(1..i) /\ i \in 1..i
      <4>1. 1..n \subseteq 1..i /\ i \in 1..i BY <1>6, <1>11
      <4> QED BY <1>5, <4>1
    <3>2. Len(<<i>> \o k) = Len(k) + 1 /\ (<<i>> \o k)[1] = i /\ \A m \in 1..Len(k) : (<<i>> \o k)[m + 1] = k[m]
      BY <3>1, PrependFacts
    <3>3. (<<i>> \o k)[1 + 1] = k[1] BY <2>1, <3>2
    <3>4. 1 + 1 = 2 OBVIOUS
    <3> DEFINE t == <<i>> \o k
    <3>5. Len(t) = c + 1 /\ t[1] = i /\ t[1 + 1] = z /\ l = t BY <1>15, <3>2, <3>3
    <3> HIDE DEF t, z, c, i, k
    <3> QED BY ONLY <3>4, <3>5
  <2> HIDE DEF pk2, ids, k, c, z
  <2>3. /\ pk2[z].proto = pk2[i].proto /\ pk2[z].flow = pk2[i].flow /\ pk2[z].len \in Nat \ {0}
        /\ pk2[i].proto = "tcp" => pk2[z].seq = (pk2[i].seq + pk2[i].len) % SeqSpace
    <3>1. 1 \in Nat \ {0} /\ 1 + 1 <= Len(l) /\ 1 + 1 = 2 BY <1>8, <2>2
    <3> QED BY <1>10, <2>2, <3>1
  <2>4. pk2[i].proto = "tcp" /\ pk2[i].flow = f BY <1>12, <1>15 DEF ids
  <2>5. z \in ids /\ z < i
    <3>1. pk2[z].len > 0 BY ONLY <2>3
    <3> QED BY <1>11, <1>12, <2>1, <2>3, <2>4, <3>1 DEF ids
  <2>6. pk2[z].seq # (pk2[i].seq + pk2[i].len) % SeqSpace BY <1>6, <1>7, <1>15, <2>5, StreamNumbers
  <2> QED BY <2>3, <2>4, <2>6
<1> QED BY <1>2, <1>13, <1>14, <1>15 DEF Beside

\* A list of a grouping is not empty.
LEMMA NonemptyLists ==
    ASSUME NEW lists, NEW pk, NEW bs, NEW ts, Groups(lists, pk, bs, ts), NEW w \in DOMAIN lists
    PROVE  lists[w] # <<>>
<1>1. CASE Len(lists[w]) = 1 BY <1>1
<1>2. CASE Len(lists[w]) # 1
  <2>1. PICK q \in Protos : \E key \in DOMAIN ts[q] : \E j \in DOMAIN ts[q][key] : ts[q][key][j].bufsIndex = w
    BY <1>2 DEF Groups, Indexed
  <2>2. PICK key \in DOMAIN ts[q] : \E j \in DOMAIN ts[q][key] : ts[q][key][j].bufsIndex = w BY <2>1
  <2>3. PICK j \in DOMAIN ts[q][key] : ts[q][key][j].bufsIndex = w BY <2>2
  <2>4. ItemsOK(ts[q][key], key, q, lists, pk, bs) BY DEF Groups, TablesOK
  <2> QED BY <2>3, <2>4 DEF ItemsOK, Describes, Holds
<1> QED BY <1>1, <1>2

\* One packet more, and every flow is still in order.
LEMMA FlowStep ==
    ASSUME NEW pk \in Seq(AllPackets), NEW p \in AllPackets, Len(pk) + 1 <= MaxBatch, NEW lists, NEW bs, NEW ts,
           Groups(lists, pk, bs, ts), FlowsOrdered(lists, pk),
           NEW lists2, NEW bs2, NEW ts2, Groups(lists2, Append(pk, p), bs2, ts2), NEW q \in Protos, NEW w,
           \/ lists2 = Own(lists, Len(pk) + 1)
           \/ /\ Merged(lists, lists2, Len(pk) + 1, p, q, w)
              /\ q = "udp" => \A v \in DOMAIN lists : \A y \in DOMAIN lists[v] :
                                 lists[v][y] \in Datagrams(pk, p.flow) => v <= w
    PROVE  FlowsOrdered(lists2, Append(pk, p))
<1> DEFINE i == Len(pk) + 1
           pk2 == Append(pk, p)
<1>0. ListsOK(lists, pk) /\ \A v \in DOMAIN lists : lists[v] # <<>> BY NonemptyLists DEF Groups
<1> SUFFICES ASSUME NEW f
             PROVE  /\ Ordered(lists2, Datagrams(pk2, f))
                    /\ Contiguous(pk2, Stream(pk2, f)) => Ordered(lists2, Stream(pk2, f))
  BY DEF FlowsOrdered
<1> DEFINE D == Datagrams(pk2, f)
           S == Stream(pk2, f)
<1>1. /\ D \ {i} = Datagrams(pk, f) /\ S \ {i} = Stream(pk, f)
      /\ (i \in D => p.proto = "udp") /\ (i \in S => p.proto = "tcp")
      /\ Contiguous(pk2, S) => Contiguous(pk, Stream(pk, f))
  BY FlowGrows
<1>2. Ordered(lists, Datagrams(pk, f)) /\ (Contiguous(pk2, S) => Ordered(lists, Stream(pk, f))) BY <1>1 DEF FlowsOrdered
<1>3. CASE lists2 = Own(lists, i)
  <2> HIDE DEF D, S, pk2
  <2>1. Ordered(lists2, D) BY <1>0, <1>1, <1>2, <1>3, OwnOrder
  <2>2. Contiguous(pk2, S) => Ordered(lists2, S) BY <1>0, <1>1, <1>2, <1>3, OwnOrder
  <2> QED BY <2>1, <2>2 DEF D, S, pk2
<1>4. CASE /\ Merged(lists, lists2, i, p, q, w) /\ q = "udp"
           /\ \A v \in DOMAIN lists : \A y \in DOMAIN lists[v] : lists[v][y] \in Datagrams(pk, p.flow) => v <= w
  <2>1. Ordered(lists2, D) BY <1>0, <1>2, <1>4, DatagramOrder
  <2>2. i \notin S /\ w \in DOMAIN lists BY <1>1, <1>4 DEF Merged
  <2>3. PICK l : Beside(l, lists[w], i, q) /\ lists2 = Joined(lists, w, l) BY <1>4 DEF Merged
  <2> HIDE DEF S, D, pk2
  <2>4. S \ {i} = S BY <2>2
  <2>5. Contiguous(pk2, S) => Ordered(lists2, S) BY <1>0, <1>1, <1>2, <2>2, <2>3, <2>4, BesideOrder
  <2> QED BY <2>1, <2>5 DEF D, S, pk2
<1>5. CASE Merged(lists, lists2, i, p, q, w) /\ q = "tcp"
  <2>1. Contiguous(pk2, S) => Ordered(lists2, S) BY <1>0, <1>2, <1>5, SegmentOrder
  <2>2. i \notin D /\ w \in DOMAIN lists BY <1>1, <1>5 DEF Merged
  <2>3. PICK l : Beside(l, lists[w], i, q) /\ lists2 = Joined(lists, w, l) BY <1>5 DEF Merged
  <2> HIDE DEF S, D, pk2
  <2>4. D \ {i} = D BY <2>2
  <2>5. Ordered(lists2, D) BY <1>0, <1>1, <1>2, <2>2, <2>3, <2>4, BesideOrder
  <2> QED BY <2>1, <2>5 DEF D, S, pk2
<1> QED BY <1>3, <1>4, <1>5 DEF Protos

-----------------------------------------------------------------------------
(* A merge into the buffer of an item.                                     *)

\* The state in which packet p is looked at.
Setup(lists, p) == in \in Seq(AllPackets) /\ p \in AllPackets /\ Groups(lists, in, bufs, Tables)

\* What an item says of the buffers of this call.
ItemOK(item, key, q, lists) ==
    LET w == item.bufsIndex  l == lists[w]  b == bufs[w] IN
    /\ item \in ItemsOf(q) /\ w \in DOMAIN lists /\ w \in 1..Len(in) /\ l \in Seq(1..Len(in))
    /\ Describes(item, key, q, in, b, l) /\ Legal(b)
    /\ item.numMerged \in Nat /\ item.gsoSize \in Nat
    /\ item.numMerged = 0 => b.csum = in[l[1]].csum
    /\ \A m, x \in DOMAIN l : l[m] = l[x] => m = x

\* What a state in which a packet is looked at says of an item's buffer.
LEMMA ItemBuffer ==
    ASSUME NEW lists, NEW p, Setup(lists, p), NEW q \in Protos, NEW key \in DOMAIN Tables[q],
           NEW j \in DOMAIN Tables[q][key]
    PROVE  ItemOK(Tables[q][key][j], key, q, lists)
<1> DEFINE item == Tables[q][key][j]
           w == item.bufsIndex
<1>1. ItemsOK(Tables[q][key], key, q, lists, in, bufs) BY DEF Setup, Groups, TablesOK
<1>2. w \in DOMAIN lists /\ Describes(item, key, q, in, bufs[w], lists[w]) BY <1>1 DEF ItemsOK
<1>3. item \in ItemsOf(q)
  <2>1. Tables[q][key] \in Seq(ItemsOf(q)) BY <1>1 DEF ItemsOK
  <2> QED BY ONLY <2>1, j \in DOMAIN Tables[q][key]
<1>4. ListsOK(lists, in) /\ BuffersOK(lists, in, bufs) BY DEF Setup, Groups
<1>5. w \in 1..Len(in) /\ lists[w] \in Seq(1..Len(in)) BY ONLY <1>2, <1>4 DEF ListsOK
<1>6. Legal(bufs[w])
  <2>1. bufs \in Seq(Buffers) /\ Len(bufs) = Len(in) BY ONLY <1>4 DEF BuffersOK
  <2>2. w \in DOMAIN bufs BY ONLY <1>5, <2>1
  <2>3. bufs[w] \in Buffers BY ONLY <2>1, <2>2
  <2> QED BY ONLY <1>4, <2>2, <2>3 DEF BuffersOK, Legal
<1>7. item.numMerged \in Nat /\ item.gsoSize \in Nat
  <2>1. q \in {"tcp", "udp"} BY DEF Protos
  <2> QED BY ONLY <1>3, <2>1 DEF ItemsOf
<1>8. item.numMerged = 0 => bufs[w].csum = in[lists[w][1]].csum
  <2> HAVE item.numMerged = 0
  <2>1. Len(lists[w]) = 0 + 1 BY <1>2 DEF Describes
  <2>2. lists[w] = <<w>> /\ Plain(in, bufs[w], w) BY <1>2, <1>4, <2>1 DEF BuffersOK
  <2>3. lists[w][1] = w BY ONLY <2>2
  <2> QED BY ONLY <2>2, <2>3 DEF Plain
<1>9. \A m, x \in DOMAIN lists[w] : lists[w][m] = lists[w][x] => m = x
  <2>1. \A u, v \in DOMAIN lists : \A m \in DOMAIN lists[u], x \in DOMAIN lists[v] :
           lists[u][m] = lists[v][x] => u = v /\ m = x
    BY ONLY <1>4 DEF ListsOK
  <2> HIDE DEF w
  <2> QED BY ONLY <1>2, <2>1
<1> HIDE DEF item
<1>10. ItemOK(item, key, q, lists) BY ONLY <1>2, <1>3, <1>5, <1>6, <1>7, <1>8, <1>9 DEF ItemOK
<1> QED BY ONLY <1>10 DEF item

\* The buffers c2 and the item after a merge into buffer w.
MergeDone(lists, p, q, w, item, c2) ==
    /\ item \in ItemsOf(q) /\ item.bufsIndex = w /\ w \in DOMAIN lists /\ MergedInto(in, bufs, c2, w)
    /\ \E l \in Seq(1..(Len(in) + 1)) :
          /\ Joins(l, lists[w], Len(in) + 1) /\ Beside(l, lists[w], Len(in) + 1, q) /\ Len(l) # 1
          /\ Describes(item, p.flow, q, Append(in, p), c2[w], l)

\* A TCP packet is merged.
LEMMA TcpJoin ==
    ASSUME NEW lists, NEW p, Setup(lists, p), p.proto = "tcp", p.len >= 1,
           p.flow \in DOMAIN tcp.items, NEW j \in DOMAIN tcp.items[p.flow],
           NEW item, item = tcp.items[p.flow][j], tryCoalesceTCP(p, item) = "success",
           NEW a, Grown(in, p, bufs, a), a[item.bufsIndex] = bufs[item.bufsIndex],
           a[Len(in) + 1] = Buffer(p, Len(in) + 1)
    PROVE  MergeDone(lists, p, "tcp", item.bufsIndex, coalescedTCPItem(p, item),
                     coalesceTCPPackets(a, p, Len(in) + 1, item))
<1> DEFINE w == item.bufsIndex
           b == bufs[w]
           i == Len(in) + 1
           can == tcpPacketsCanCoalesce(p, item)
           item2 == coalescedTCPItem(p, item)
           c2 == coalesceTCPPackets(a, p, i, item)
           g == item.gsoSize
           key == p.flow
           l == lists[w]
<1>0. "tcp" \in Protos /\ Tables["tcp"] = tcp.items BY DEF Protos, Tables
<1>1. /\ item \in ItemsOf("tcp") /\ w \in DOMAIN lists /\ w \in 1..Len(in) /\ l \in Seq(1..Len(in))
      /\ Describes(item, key, "tcp", in, b, l) /\ Legal(b)
      /\ item.numMerged \in Nat /\ g \in Nat
      /\ (item.numMerged = 0 => b.csum = in[l[1]].csum)
      /\ \A m, x \in DOMAIN l : l[m] = l[x] => m = x
  <2>1. key \in DOMAIN Tables["tcp"] /\ j \in DOMAIN Tables["tcp"][key] /\ item = Tables["tcp"][key][j] BY <1>0
  <2>2. Setup(lists, p) OBVIOUS
  <2>3. ItemOK(item, key, "tcp", lists) BY ONLY <1>0, <2>1, <2>2, ItemBuffer
  <2> QED BY ONLY <2>3 DEF ItemOK
<1>2. in \in Seq(AllPackets) /\ p \in AllPackets /\ BuffersOK(lists, in, bufs) BY DEF Setup, Groups
<1>3. /\ can \in {"append", "prepend"} /\ (item.numMerged = 0 => b.csum) /\ p.csum
      /\ (can = "append" => ~(b.room < Len(b.payload) + p.len))
      /\ (can = "prepend" => ~(p.room < Len(b.payload) + p.len))
  BY TriedSuccess
<1>4. /\ p.hdr = b.hdr
      /\ can = "append" =>
            /\ p.seq = (item.sentSeq + ((g + item.numMerged * g) % LenSpace)) % SeqSpace
            /\ ~item.pshSet /\ Len(b.payload) % g = 0 /\ ~(p.len > g)
      /\ can = "prepend" =>
            /\ (p.seq + p.len) % SeqSpace = item.sentSeq /\ p.flags # "psh"
            /\ ~(p.len < g) /\ ~(p.len > g /\ item.numMerged > 0)
  <2>1. can # "unavailable" BY ONLY <1>3
  <2> QED BY <2>1, CanCoalesce
<1>5. /\ p.len \in Nat /\ p.room \in Nat /\ p.seq \in Nat /\ p.flags \in {"ack", "psh", "other"}
      /\ p.csum \in BOOLEAN /\ LenSpace \in Nat /\ Len(in) \in Nat /\ i \in Nat /\ i \in 1..i
  BY <1>2, PacketType
<1>6. /\ b \in Buffers /\ b.payload \in Seq(Nat \X Nat) /\ Len(b.payload) \in Nat /\ b.room \in Nat
      /\ b.room < LenSpace /\ b.csum \in BOOLEAN /\ b.seq \in Nat /\ b.flags \in {"ack", "psh", "other"}
  <2>1. b \in Buffers /\ b.room < LenSpace BY ONLY <1>1 DEF Legal
  <2>2. b.payload \in Seq(Nat \X Nat) BY ONLY <2>1 DEF Buffers
  <2>3. b.room \in Nat /\ b.csum \in BOOLEAN /\ b.seq \in Nat /\ b.flags \in {"ack", "psh", "other"} BY ONLY <2>1 DEF Buffers
  <2>4. Len(b.payload) \in Nat BY ONLY <2>2
  <2> QED BY ONLY <2>1, <2>2, <2>3, <2>4
<1>7. p.csum = TRUE /\ (item.numMerged = 0 => in[l[1]].csum = TRUE)
  <2>1. p.csum = TRUE BY ONLY <1>3, <1>5
  <2>2. item.numMerged = 0 => b.csum = TRUE BY ONLY <1>3, <1>6
  <2> QED BY ONLY <1>1, <2>1, <2>2
<1>8. item.pshSet \in BOOLEAN /\ item.sentSeq \in Nat BY ONLY <1>1 DEF ItemsOf
<1>9. /\ item2.bufsIndex = w /\ item2.numMerged = item.numMerged + 1
      /\ item2.gsoSize = (IF p.len > g THEN p.len ELSE g)
      /\ item2.sentSeq = (IF can = "prepend" THEN p.seq ELSE item.sentSeq)
      /\ item2.pshSet = (item.pshSet \/ p.flags = "psh")
  BY DEF coalescedTCPItem
<1>10. item2 \in ItemsOf("tcp")
  <2>1. item2 = [bufsIndex |-> item2.bufsIndex, numMerged |-> item2.numMerged, gsoSize |-> item2.gsoSize,
                 sentSeq |-> item2.sentSeq, pshSet |-> item2.pshSet]
    BY DEF coalescedTCPItem
  <2>2. item2.numMerged \in Nat BY ONLY <1>1, <1>9
  <2>3. item2.gsoSize \in Nat BY ONLY <1>1, <1>5, <1>9
  <2>4. item2.sentSeq \in Nat BY ONLY <1>5, <1>8, <1>9
  <2>5. item2.pshSet \in BOOLEAN BY ONLY <1>9
  <2>6. item2.bufsIndex \in Nat BY ONLY <1>1, <1>5, <1>9
  <2> HIDE DEF item2
  <2> QED BY ONLY <2>1, <2>2, <2>3, <2>4, <2>5, <2>6 DEF ItemsOf
<1>11. /\ Buffer(p, i) \in Buffers /\ Legal(Buffer(p, i)) /\ Buffer(p, i).payload \in Seq(Nat \X Nat)
       /\ Buffer(p, i).room = p.room
  <2>1. /\ Buffer(p, i) \in Buffers /\ Buffer(p, i).vnet = Stale /\ Buffer(p, i).room = p.room
        /\ Buffer(p, i).room < LenSpace /\ Buffer(p, i).len <= Buffer(p, i).room
        /\ Buffer(p, i).payload = Tok(p, i)
    BY <1>2, <1>5, BufferType
  <2>2. Tok(p, i) \in Seq(Nat \X Nat) BY <1>2, <1>5, TokType
  <2> QED BY ONLY <2>1, <2>2 DEF Legal
<1>12. a[w] = b /\ a[i] = Buffer(p, i) /\ a \in Seq(Buffers) /\ Len(a) = i BY DEF Grown
<1>13. DOMAIN a = 1..i /\ w \in 1..i /\ w # i /\ i \in 1..i BY ONLY <1>1, <1>5, <1>12
<1>14. CASE can = "append"
  <2> DEFINE t == Buffer(p, i).payload
             f == IF p.flags = "psh" THEN "psh" ELSE b.flags
             c == [b EXCEPT !.payload = b.payload \o t, !.flags = f]
  <2>1. f \in {"ack", "psh", "other"} BY ONLY <1>6
  <2>2. /\ Legal(c) /\ c.proto = b.proto /\ c.flow = b.flow /\ c.hdr = b.hdr /\ c.seq = b.seq
        /\ c.room = b.room /\ c.payload = b.payload \o t /\ c.flags = f
    <3>1. ExtendedBy(b, c, t, f) BY ONLY <1>1, <1>11, <2>1, Extended
    <3> QED BY ONLY <3>1 DEF ExtendedBy
  <2>3. c2 = [a EXCEPT ![w] = c, ![i] = Buffer(p, i)]
    <3>1. c2 = [a EXCEPT ![w].payload = @ \o a[i].payload, ![w].flags = IF p.flags = "psh" THEN "psh" ELSE @]
      <4>1. can # "prepend" BY ONLY <1>14
      <4> QED BY ONLY <4>1 DEF coalesceTCPPackets
    <3>2. c2 = [a EXCEPT ![w] = [a[w] EXCEPT !.payload = a[w].payload \o a[i].payload,
                                             !.flags = IF p.flags = "psh" THEN "psh" ELSE a[w].flags]]
      <4>1. a[w] \in Buffers BY ONLY <1>6, <1>12
      <4> QED BY ONLY <1>13, <3>1, <4>1 DEF Buffers
    <3>3. c2 = [a EXCEPT ![w] = c] BY ONLY <1>12, <3>2
    <3> HIDE DEF c, c2
    <3>4. [a EXCEPT ![w] = c] = [a EXCEPT ![w] = c, ![i] = Buffer(p, i)] BY ONLY <1>12, <1>13
    <3> QED BY ONLY <3>3, <3>4
  <2> HIDE DEF c, c2, f, t
  <2>4. MergedInto(in, bufs, c2, w) /\ c2[w] = c
    <3>0. Grown(in, p, bufs, a) OBVIOUS
    <3>1. MergedInto(in, bufs, Swap(a, w, c, i, Buffer(p, i)), w) /\ Swap(a, w, c, i, Buffer(p, i))[w] = c
      BY ONLY <1>1, <1>2, <1>11, <2>2, <3>0, MergeBuffers
    <3> QED BY ONLY <2>3, <3>1 DEF Swap
  <2>5. Fits(in, p, b, c, item, item2, key, "tcp", l)
    <3>1. Len(b.payload) + p.len <= c.room
      <4>1. ~(b.room < Len(b.payload) + p.len) BY ONLY <1>3, <1>14
      <4> QED BY ONLY SMTT(20), <1>5, <1>6, <2>2, <4>1
    <3>2. p.proto = "tcp" /\ p.len >= 1 /\ key = p.flow OBVIOUS
    <3> QED BY ONLY <1>0, <1>1, <1>4, <1>6, <1>7, <1>9, <2>2, <3>1, <3>2 DEF Fits
  <2>6. c.flags = "psh" => p.flags = "psh" /\ item2.pshSet = TRUE
    <3>1. item.pshSet = FALSE BY ONLY <1>4, <1>8, <1>14
    <3>2. b.flags = "psh" => item.pshSet = TRUE BY ONLY <1>1 DEF Describes
    <3>3. c.flags = "psh" => p.flags = "psh" BY ONLY <2>2, <3>1, <3>2 DEF f
    <3>4. p.flags = "psh" => item2.pshSet = TRUE BY ONLY <1>9
    <3> QED BY ONLY <3>3, <3>4
  <2>7. item2.gsoSize = g /\ p.len <= g
    <3>1. ~(p.len > g) BY ONLY <1>4, <1>14
    <3> QED BY ONLY <1>1, <1>5, <1>9, <3>1
  <2>8. AppendOK(in, p, b, c, item, item2, key, "tcp", l)
    <3>1. item2.sentSeq = item.sentSeq /\ "tcp" # "udp" BY ONLY <1>9, <1>14
    <3>2. Len(b.payload) % g = 0 BY ONLY <1>4, <1>14
    <3>3. p.seq = (item.sentSeq + ((g + item.numMerged * g) % LenSpace)) % SeqSpace BY ONLY <1>4, <1>14
    <3>4. c.payload = b.payload \o Buffer(p, Len(in) + 1).payload /\ c.seq = b.seq BY ONLY <2>2 DEF t
    <3> QED BY ONLY <2>5, <2>6, <2>7, <3>1, <3>2, <3>3, <3>4 DEF AppendOK
  <2>9. Describes(item2, key, "tcp", Append(in, p), c2[w], Append(l, i))
    BY ONLY <1>2, <2>4, <2>8, AppendDescribes
  <2>10. Joins(Append(l, i), l, i)
    <3>1. i \notin 1..Len(in) BY ONLY <1>5
    <3> QED BY ONLY <1>1, <3>1, AppendJoins
  <2>11. Append(l, i) \in Seq(1..i) /\ Len(Append(l, i)) # 1
    <3>1. Len(l) = item.numMerged + 1 BY ONLY <1>1 DEF Describes
    <3>2. l \in Seq(1..i)
      <4>1. 1..Len(in) \subseteq 1..i BY ONLY <1>5
      <4> QED BY ONLY <1>1, <4>1
    <3>3. Append(l, i) \in Seq(1..i) /\ Len(Append(l, i)) = Len(l) + 1 BY ONLY <1>13, <3>2, AppendFacts
    <3> QED BY ONLY <1>1, <3>1, <3>3
  <2>12. Beside(Append(l, i), l, i, "tcp") BY DEF Beside
  <2>13. MergeDone(lists, p, "tcp", w, item2, c2) BY ONLY <1>1, <1>9, <1>10, <2>4, <2>9, <2>10, <2>11, <2>12 DEF MergeDone
  <2> QED BY ONLY <2>13 DEF c2
<1>15. CASE can = "prepend"
  <2> DEFINE u == Buffer(p, i)
             c == [u EXCEPT !.payload = u.payload \o b.payload]
  <2>1. /\ Legal(c) /\ c.proto = u.proto /\ c.flow = u.flow /\ c.hdr = u.hdr /\ c.seq = u.seq
        /\ c.room = u.room /\ c.payload = u.payload \o b.payload /\ c.flags = u.flags
    <3>1. ExtendedBy(u, c, b.payload, u.flags) BY ONLY <1>6, <1>11, Extended
    <3> QED BY ONLY <3>1 DEF ExtendedBy
  <2>2. u.proto = p.proto /\ u.flow = p.flow /\ u.hdr = p.hdr /\ u.seq = p.seq /\ u.flags = p.flags BY DEF Buffer
  <2>3. c2 = [a EXCEPT ![w] = c, ![i] = b]
    <3>1. c2 = [a EXCEPT ![w] = [a[i] EXCEPT !.payload = @ \o a[w].payload], ![i] = a[w]]
      BY ONLY <1>15 DEF coalesceTCPPackets
    <3>2. [a[i] EXCEPT !.payload = @ \o a[w].payload] = c BY ONLY <1>12
    <3> QED BY ONLY <1>12, <3>1, <3>2
  <2> HIDE DEF c, c2, u
  <2>4. MergedInto(in, bufs, c2, w) /\ c2[w] = c
    <3>0. Grown(in, p, bufs, a) OBVIOUS
    <3>1. MergedInto(in, bufs, Swap(a, w, c, i, b), w) /\ Swap(a, w, c, i, b)[w] = c
      BY ONLY <1>1, <1>2, <2>1, <3>0, MergeBuffers
    <3> QED BY ONLY <2>3, <3>1 DEF Swap
  <2>5. Fits(in, p, b, c, item, item2, key, "tcp", l)
    <3>1. Len(b.payload) + p.len <= c.room
      <4>1. ~(p.room < Len(b.payload) + p.len) BY ONLY <1>3, <1>15
      <4>2. c.room = p.room BY ONLY <1>11, <2>1 DEF u
      <4> QED BY ONLY <1>5, <1>6, <4>1, <4>2
    <3>2. p.proto = "tcp" /\ p.len >= 1 /\ key = p.flow OBVIOUS
    <3>3. b.proto = "tcp" /\ b.flow = key BY ONLY <1>1 DEF Describes
    <3>4. c.proto = b.proto /\ c.flow = b.flow /\ c.hdr = b.hdr BY ONLY <1>4, <2>1, <2>2, <3>2, <3>3
    <3> QED BY ONLY <1>0, <1>1, <1>4, <1>6, <1>7, <1>9, <3>1, <3>2, <3>4 DEF Fits
  <2>6. PrependOK(in, p, b, c, item, item2, key, l)
    <3>1. p.flags # "psh" /\ (p.seq + p.len) % SeqSpace = item.sentSeq BY ONLY <1>4, <1>15
    <3>2. p.len >= g /\ (p.len > g => item.numMerged = 0)
      <4>1. ~(p.len < g) /\ ~(p.len > g /\ item.numMerged > 0) BY ONLY <1>4, <1>15
      <4> QED BY ONLY <1>1, <1>5, <4>1
    <3>3. item2.gsoSize = p.len BY ONLY <1>1, <1>5, <1>9, <3>2
    <3>4. item2.sentSeq = p.seq BY ONLY <1>9, <1>15
    <3>5. c.payload = Buffer(p, Len(in) + 1).payload \o b.payload /\ c.seq = p.seq /\ c.flags = p.flags
      BY ONLY <2>1, <2>2 DEF u
    <3> QED BY ONLY <2>5, <3>1, <3>2, <3>3, <3>4, <3>5 DEF PrependOK
  <2>7. Describes(item2, key, "tcp", Append(in, p), c2[w], <<i>> \o l)
    BY ONLY <1>2, <2>4, <2>6, PrependDescribes
  <2>8. Joins(<<i>> \o l, l, i)
    <3>1. i \notin 1..Len(in) BY ONLY <1>5
    <3> QED BY ONLY <1>1, <3>1, PrependJoins
  <2>9. <<i>> \o l \in Seq(1..i) /\ Len(<<i>> \o l) # 1
    <3>1. Len(l) = item.numMerged + 1 BY ONLY <1>1 DEF Describes
    <3>2. l \in Seq(1..i)
      <4>1. 1..Len(in) \subseteq 1..i BY ONLY <1>5
      <4> QED BY ONLY <1>1, <4>1
    <3>3. <<i>> \o l \in Seq(1..i) /\ Len(<<i>> \o l) = Len(l) + 1 BY ONLY <1>13, <3>2, PrependFacts
    <3> QED BY ONLY <1>1, <3>1, <3>3
  <2>10. Beside(<<i>> \o l, l, i, "tcp") BY DEF Beside
  <2>11. MergeDone(lists, p, "tcp", w, item2, c2) BY ONLY <1>1, <1>9, <1>10, <2>4, <2>7, <2>8, <2>9, <2>10 DEF MergeDone
  <2> QED BY ONLY <2>11 DEF c2
<1> QED BY <1>3, <1>14, <1>15

-----------------------------------------------------------------------------
(* tcpGRO: the walk over a flow's items and its outcomes.                  *)

TableOf(q) == IF q = "tcp" THEN tcp ELSE udp

\* The tables when the one of q is t.
TablesWith(q, t) == [r \in Protos |-> IF r = q THEN t.items ELSE Tables[r]]

\* Where the packet is put: a datagram joins the last item of its flow only.
Placed(res, lists, lists2, p, q) ==
    IF res = "coalesced"
      THEN \E w : /\ Merged(lists, lists2, Len(in) + 1, p, q, w)
                  /\ q = "udp" => w = Last(udp.items[p.flow]).bufsIndex
      ELSE lists2 = Own(lists, Len(in) + 1)

\* One packet's evaluation leaves every packet in one buffer.
Outcome(e, lists, p, q) ==
    /\ e.res \in {"noop", "insert", "coalesced"}
    /\ e.table = TableOf(q) \/ \E items : e.table = With(TableOf(q), p.flow, items)
    /\ \E lists2 :
         /\ Placed(e.res, lists, lists2, p, q)
         /\ DOMAIN lists2 = IF e.res = "coalesced" THEN DOMAIN lists ELSE DOMAIN lists \cup {Len(in) + 1}
         /\ Groups(lists2, Append(in, p),
                   IF e.res = "noop" THEN [e.bufs EXCEPT ![Len(in) + 1].vnet = NoGSO] ELSE e.bufs,
                   TablesWith(q, e.table))

\* The new table, as a function of protocol and flow.
LEMMA TablesWithFacts ==
    ASSUME NEW q \in Protos
    PROVE  /\ TablesWith(q, TableOf(q)) = Tables
           /\ \A key, items : TablesWith(q, With(TableOf(q), key, items)) = Put(Tables, q, key, items)
<1>0. q = "tcp" \/ q = "udp" BY DEF Protos
<1>1. Tables[q] = TableOf(q).items BY <1>0 DEF Tables, TableOf
<1>2. TablesWith(q, TableOf(q)) = Tables
  <2>1. \A r \in Protos : TablesWith(q, TableOf(q))[r] = Tables[r] BY <1>1 DEF TablesWith
  <2> QED BY <2>1 DEF TablesWith, Tables
<1>3. ASSUME NEW key, NEW items PROVE TablesWith(q, With(TableOf(q), key, items)) = Put(Tables, q, key, items)
  <2> DEFINE t == TableOf(q)
  <2>1. With(t, key, items).items = [k \in DOMAIN t.items \cup {key} |-> IF k = key THEN items ELSE t.items[k]]
    BY WithFacts
  <2> HIDE DEF t
  <2>2. Tables[q] = t.items BY <1>1 DEF t
  <2>3. TablesWith(q, With(t, key, items)) = Put(Tables, q, key, items) BY ONLY <2>1, <2>2 DEF TablesWith, Put
  <2> QED BY <2>3 DEF t
<1> QED BY <1>2, <1>3

\* The new packet's buffer is added.
LEMMA AddedBuffer ==
    ASSUME NEW lists, NEW p, Setup(lists, p)
    PROVE  LET i == Len(in) + 1  a == Append(bufs, Buffer(p, i)) IN
           Grown(in, p, bufs, a) /\ \A b \in 1..Len(in) : a[b] = bufs[b]
<1> DEFINE i == Len(in) + 1
           a == Append(bufs, Buffer(p, i))
<1>1. in \in Seq(AllPackets) /\ p \in AllPackets /\ bufs \in Seq(Buffers) /\ Len(bufs) = Len(in)
  BY DEF Setup, Groups, BuffersOK
<1>2. a \in Seq(Buffers) /\ \A b \in 1..Len(in) : a[b] = bufs[b] BY <1>1, Appended
<1>3. Grown(in, p, bufs, Zero(a, {})) BY <1>1, ZeroGrown
<1> HIDE DEF a
<1>4. Zero(a, {}) = a BY <1>2 DEF Zero
<1> QED BY <1>2, <1>3, <1>4 DEF a

\* Nothing is merged and no table changes.
LEMMA NoopOutcome ==
    ASSUME NEW lists, NEW p, Setup(lists, p), NEW q \in Protos
    PROVE  Outcome(Noop(Append(bufs, Buffer(p, Len(in) + 1)), TableOf(q)), lists, p, q)
<1> DEFINE i == Len(in) + 1
           a == Append(bufs, Buffer(p, i))
           e == Noop(a, TableOf(q))
           b2 == [a EXCEPT ![i].vnet = NoGSO]
<1>1. /\ in \in Seq(AllPackets) /\ p \in AllPackets /\ bufs \in Seq(Buffers) /\ Len(bufs) = Len(in)
      /\ Groups(lists, in, bufs, Tables)
  BY DEF Setup, Groups, BuffersOK
<1>2. Grown(in, p, bufs, a) /\ \A b \in 1..Len(in) : a[b] = bufs[b] BY AddedBuffer
<1> HIDE DEF a
<1>3. Grown(in, p, bufs, b2) /\ b2[i].vnet = NoGSO /\ \A b \in 1..Len(in) : b2[b] = a[b] BY <1>1, <1>2, OwnZeroed
<1> HIDE DEF b2
<1>4. \A b \in 1..Len(in) : b2[b] = bufs[b] BY <1>2, <1>3
<1>5. Groups(Own(lists, i), Append(in, p), b2, Tables) BY <1>1, <1>3, <1>4, OwnStep
<1>6. DOMAIN Own(lists, i) = DOMAIN lists \cup {i} BY DEF Own
<1>7. e.res = "noop" /\ e.table = TableOf(q) /\ e.bufs = a BY DEF Noop
<1>8. TablesWith(q, e.table) = Tables BY <1>7, TablesWithFacts
<1> HIDE DEF e
<1>9. Outcome(e, lists, p, q) BY <1>5, <1>6, <1>7, <1>8 DEF Outcome, Placed, b2
<1> QED BY <1>9 DEF e, a

\* The packet stays in its buffer, and its flow gets these items.
LEMMA OwnOutcome ==
    ASSUME NEW lists, NEW p, Setup(lists, p), NEW q \in Protos, NEW e, NEW its,
           \/ e.res = "insert" /\ Groups(Own(lists, Len(in) + 1), Append(in, p), e.bufs, Put(Tables, q, p.flow, its))
           \/ e.res = "noop" /\ Groups(Own(lists, Len(in) + 1), Append(in, p),
                                       [e.bufs EXCEPT ![Len(in) + 1].vnet = NoGSO], Put(Tables, q, p.flow, its)),
           e.table = With(TableOf(q), p.flow, its)
    PROVE  Outcome(e, lists, p, q)
<1>1. TablesWith(q, e.table) = Put(Tables, q, p.flow, its) BY TablesWithFacts
<1>2. DOMAIN Own(lists, Len(in) + 1) = DOMAIN lists \cup {Len(in) + 1} BY DEF Own
<1> QED BY <1>1, <1>2 DEF Outcome, Placed

\* The packet is merged into buffer w.
LEMMA JoinOutcome ==
    ASSUME NEW lists, NEW p, Setup(lists, p), NEW q \in Protos, p.flow \in DOMAIN Tables[q], NEW e, NEW its,
           NEW items \in Seq(ItemsOf(q)), NEW x, NEW item, NEW w,
           e.res = "coalesced", e.table = With(TableOf(q), p.flow, items),
           Selected(its, Tables, q, p.flow), Dropped(its, Tables, q, p.flow, e.bufs),
           Updated(its, items, x, item), its[x].bufsIndex = w, MergeDone(lists, p, q, w, item, e.bufs),
           p.proto = q, q = "udp" => w = Last(udp.items[p.flow]).bufsIndex
    PROVE  Outcome(e, lists, p, q)
<1>1. in \in Seq(AllPackets) /\ p \in AllPackets /\ Groups(lists, in, bufs, Tables) BY DEF Setup
<1>2. PICK l \in Seq(1..(Len(in) + 1)) :
          /\ Joins(l, lists[w], Len(in) + 1) /\ Beside(l, lists[w], Len(in) + 1, q) /\ Len(l) # 1
          /\ Describes(item, p.flow, q, Append(in, p), e.bufs[w], l)
  BY DEF MergeDone
<1>3. MergedInto(in, bufs, e.bufs, w) /\ item.bufsIndex = w BY DEF MergeDone
<1>4. /\ Groups(Joined(lists, w, l), Append(in, p), e.bufs, Put(Tables, q, p.flow, items))
      /\ DOMAIN Joined(lists, w, l) = DOMAIN lists
  <2> DEFINE key == p.flow
             b2 == e.bufs
             n == Len(in) + 1
             ts == Tables
  <2>1. /\ key \in DOMAIN ts[q] /\ items \in Seq(ItemsOf(q)) /\ q \in Protos
        /\ Selected(its, ts, q, key) /\ Dropped(its, ts, q, key, b2)
        /\ Updated(its, items, x, item) /\ its[x].bufsIndex = w
    OBVIOUS
  <2>2. /\ Joins(l, lists[w], n) /\ Len(l) # 1 /\ l \in Seq(1..n)
        /\ Describes(item, key, q, Append(in, p), b2[w], l)
    BY <1>2
  <2>3. MergedInto(in, bufs, b2, w) /\ Groups(lists, in, bufs, ts) BY <1>1, <1>3
  <2> HIDE DEF key, b2, ts
  <2>4. /\ Groups(Joined(lists, w, l), Append(in, p), b2, Put(ts, q, key, items))
        /\ DOMAIN Joined(lists, w, l) = DOMAIN lists
    <3>1. CanJoin(in, p, lists, bufs, b2, ts, q, key, its, items, x, item, w, l)
      BY ONLY <1>1, <1>3, <2>1, <2>2, <2>3 DEF CanJoin
    <3> QED BY ONLY <3>1, JoinStep
  <2> QED BY ONLY <2>4 DEF key, b2, ts
<1>5. TablesWith(q, e.table) = Put(Tables, q, p.flow, items) BY TablesWithFacts
<1>6. Merged(lists, Joined(lists, w, l), Len(in) + 1, p, q, w) BY <1>2 DEF Merged, MergeDone
<1>7. Placed(e.res, lists, Joined(lists, w, l), p, q) BY <1>6 DEF Placed
<1> QED BY <1>4, <1>5, <1>7 DEF Outcome

\* A new TCP item.
LEMMA TcpNewItem ==
    ASSUME NEW p \in AllPackets, NEW i \in Nat, p.proto = "tcp", p.len >= 1
    PROVE  NewItem(newTCPItem(p, i), p, i, "tcp", p.flow)
<1> DEFINE item == newTCPItem(p, i)
<1>1. p.seq \in Nat /\ p.len \in Nat BY PacketType
<1>2. /\ item.bufsIndex = i /\ item.numMerged = 0 /\ item.gsoSize = p.len /\ item.sentSeq = p.seq
      /\ item.pshSet = (p.flags = "psh")
  BY DEF newTCPItem
<1>3. (p.flags = "psh") \in BOOLEAN OBVIOUS
<1>4. item \in ItemsOf("tcp")
  <2> DEFINE f == p.flags = "psh"
  <2>1. item = [bufsIndex |-> i, numMerged |-> 0, gsoSize |-> p.len, sentSeq |-> p.seq, pshSet |-> f]
    BY DEF newTCPItem
  <2> HIDE DEF f, item
  <2>2. f \in BOOLEAN BY DEF f
  <2> QED BY <1>1, <2>1, <2>2 DEF ItemsOf
<1>5. p.flags = "psh" => item.pshSet = TRUE BY ONLY <1>2
<1> HIDE DEF item
<1>6. NewItem(item, p, i, "tcp", p.flow) BY <1>2, <1>4, <1>5 DEF NewItem
<1> QED BY ONLY <1>6 DEF item

\* No item of the flow is known.
LEMMA FirstOutcome ==
    ASSUME NEW lists, NEW p, Setup(lists, p), NEW q \in Protos, p.flow \notin DOMAIN TableOf(q).items,
           NEW item, NewItem(item, p, Len(in) + 1, q, p.flow), NEW e, e.res = "insert",
           e.bufs = Append(bufs, Buffer(p, Len(in) + 1)), e.table = insert(TableOf(q), p.flow, item)
    PROVE  Outcome(e, lists, p, q)
<1> DEFINE none == <<>>
           key == p.flow
<1>0. in \in Seq(AllPackets) /\ p \in AllPackets /\ Groups(lists, in, bufs, Tables) BY DEF Setup
<1>1. DOMAIN none = {} /\ none \in Seq(ItemsOf(q)) /\ Append(none, item) = <<item>> OBVIOUS
<1>2. key \notin DOMAIN Tables[q]
  <2>1. q = "tcp" \/ q = "udp" BY DEF Protos
  <2> QED BY <2>1 DEF Tables, TableOf
<1>3. Selected(none, Tables, q, key) BY <1>1 DEF Selected
<1>4. Dropped(none, Tables, q, key, e.bufs) BY <1>2 DEF Dropped
<1>5. Grown(in, p, bufs, e.bufs) BY AddedBuffer
<1>6. NewItem(item, p, Len(in) + 1, q, key) OBVIOUS
<1> DEFINE b2 == e.bufs
           ts == Tables
<1>7. e.table = With(TableOf(q), key, <<item>>) BY <1>2 DEF insert
<1> HIDE DEF none, b2, ts, key
<1>8. Groups(Own(lists, Len(in) + 1), Append(in, p), b2, Put(ts, q, key, Append(none, item)))
  BY ONLY <1>0, <1>3, <1>4, <1>5, <1>6, q \in Protos, InsertStep DEF b2, ts
<1>9. Groups(Own(lists, Len(in) + 1), Append(in, p), b2, Put(ts, q, key, <<item>>)) BY ONLY <1>1, <1>8
<1> QED BY <1>7, <1>9, OwnOutcome DEF key, b2, ts

\* tcpGRO, when the packet's flow has items.
TcpTried(p) == [j \in DOMAIN tcp.items[p.flow] |-> tryCoalesceTCP(p, tcp.items[p.flow][j])]
TcpStop(p) == Max({0} \cup {j \in DOMAIN tcp.items[p.flow] : TcpTried(p)[j] \in {"success", "pktInvalidCSum"}})
TcpBad(p) == {j \in DOMAIN tcp.items[p.flow] : j > TcpStop(p) /\ TcpTried(p)[j] = "itemInvalidCSum"}
TcpZeroed(bs, p) == Zero(bs, {tcp.items[p.flow][j].bufsIndex : j \in TcpBad(p)})
TcpPruned(p, is) == With(tcp, p.flow, Pick(is, DOMAIN tcp.items[p.flow] \ TcpBad(p)))

\* The walk over the items has one of three ends.
LEMMA TcpWalk ==
    ASSUME NEW bs, NEW p, NEW i, ~(~p.valid \/ p.flags = "other" \/ p.len < 1), p.flow \in DOMAIN tcp.items
    PROVE  LET items == tcp.items[p.flow]  stop == TcpStop(p)  z == TcpZeroed(bs, p) IN
           tcpGRO(bs, p, i) =
             IF stop = 0
               THEN [bufs |-> z, table |-> insert(TcpPruned(p, items), p.flow, newTCPItem(p, i)), res |-> "insert"]
             ELSE IF TcpTried(p)[stop] = "pktInvalidCSum" THEN Noop(z, TcpPruned(p, items))
             ELSE [bufs |-> coalesceTCPPackets(z, p, i, items[stop]),
                   table |-> TcpPruned(p, [items EXCEPT ![stop] = coalescedTCPItem(p, items[stop])]),
                   res |-> "coalesced"]
<1> DEFINE items == tcp.items[p.flow]
           bad == TcpBad(p)
           Z == {items[j].bufsIndex : j \in bad}
           z == [b \in DOMAIN bs |-> IF \E j \in bad : items[j].bufsIndex = b
                                       THEN [bs[b] EXCEPT !.vnet = NoGSO] ELSE bs[b]]
<1>1. z = TcpZeroed(bs, p)
  <2>1. \A b : b \in Z <=> \E j \in bad : items[j].bufsIndex = b OBVIOUS
  <2>2. TcpZeroed(bs, p) = Zero(bs, Z) BY DEF TcpZeroed
  <2> HIDE DEF Z, bad, items
  <2> QED BY <2>1, <2>2 DEF Zero
<1>2. tcpGRO(bs, p, i) =
        IF TcpStop(p) = 0
          THEN [bufs |-> z, table |-> insert(TcpPruned(p, items), p.flow, newTCPItem(p, i)), res |-> "insert"]
        ELSE IF TcpTried(p)[TcpStop(p)] = "pktInvalidCSum" THEN Noop(z, TcpPruned(p, items))
        ELSE [bufs |-> coalesceTCPPackets(z, p, i, items[TcpStop(p)]),
              table |-> TcpPruned(p, [items EXCEPT ![TcpStop(p)] = coalescedTCPItem(p, items[TcpStop(p)])]),
              res |-> "coalesced"]
  BY DEF tcpGRO, TcpPruned, TcpBad, TcpStop, TcpTried, Pick
<1> QED BY <1>1, <1>2

\* A merge leaves the other buffers alone.
LEMMA CoalesceOthers ==
    ASSUME NEW a, NEW p, NEW i, NEW item, NEW b \in DOMAIN a, b # i, b # item.bufsIndex
    PROVE  coalesceTCPPackets(a, p, i, item)[b] = a[b]
<1>1. CASE tcpPacketsCanCoalesce(p, item) = "prepend" BY <1>1 DEF coalesceTCPPackets
<1>2. CASE tcpPacketsCanCoalesce(p, item) # "prepend" BY <1>2 DEF coalesceTCPPackets
<1> QED BY <1>1, <1>2

\* Where the walk over a flow's items stops.
LEMMA StopFacts ==
    ASSUME NEW p, NEW X, tcp.items[p.flow] \in Seq(X)
    PROVE  /\ TcpStop(p) = 0 \/ (TcpStop(p) \in DOMAIN tcp.items[p.flow] /\
                                 TcpTried(p)[TcpStop(p)] \in {"success", "pktInvalidCSum"})
           /\ TcpStop(p) \notin TcpBad(p) /\ TcpBad(p) \subseteq DOMAIN tcp.items[p.flow]
           /\ \A j \in TcpBad(p) : tcp.items[p.flow][j].numMerged = 0
<1> DEFINE items == tcp.items[p.flow]
           n == Len(items)
           S == {0} \cup {j \in DOMAIN items : TcpTried(p)[j] \in {"success", "pktInvalidCSum"}}
<1>1. n \in Nat /\ DOMAIN items = 1..n OBVIOUS
<1>2. S \in SUBSET (0..n) /\ S # {} BY <1>1
<1>3. TcpStop(p) = Max(S) BY DEF TcpStop
<1>4. Max(S) \in S BY <1>1, <1>2, MaxFacts
<1>5. TcpStop(p) \in Nat BY <1>2, <1>3, <1>4
<1>6. TcpStop(p) \notin TcpBad(p)
  <2>1. ~(TcpStop(p) > TcpStop(p)) BY <1>5
  <2> QED BY <2>1 DEF TcpBad
<1>7. ASSUME NEW j \in TcpBad(p) PROVE items[j].numMerged = 0
  <2>1. j \in DOMAIN items /\ TcpTried(p)[j] = "itemInvalidCSum" BY DEF TcpBad
  <2>2. tryCoalesceTCP(p, items[j]) = "itemInvalidCSum" BY <2>1 DEF TcpTried
  <2> QED BY <2>2, TriedSuccess
<1>8. TcpBad(p) \subseteq DOMAIN items BY DEF TcpBad
<1> QED BY <1>3, <1>4, <1>6, <1>7, <1>8

\* The items that survive a walk over a flow's items, and the buffers of the others.
LEMMA Survivors ==
    ASSUME NEW lists, NEW p, Setup(lists, p), p.flow \in DOMAIN tcp.items
    PROVE  LET items == tcp.items[p.flow]
               its == Pick(items, DOMAIN items \ TcpBad(p))
               z == TcpZeroed(Append(bufs, Buffer(p, Len(in) + 1)), p) IN
           /\ items \in Seq(ItemsOf("tcp")) /\ its \in Seq(ItemsOf("tcp"))
           /\ Selected(its, Tables, "tcp", p.flow) /\ Dropped(its, Tables, "tcp", p.flow, z)
           /\ Grown(in, p, bufs, z)
           /\ \A j \in DOMAIN items \ TcpBad(p) : z[items[j].bufsIndex] = bufs[items[j].bufsIndex]
           /\ z[Len(in) + 1] = Buffer(p, Len(in) + 1)
           /\ \A j \in DOMAIN items : items[j].bufsIndex \in 1..Len(in)
           /\ \A j \in TcpBad(p) : \A k \in DOMAIN items \ TcpBad(p) : items[j].bufsIndex # items[k].bufsIndex
<1> DEFINE items == tcp.items[p.flow]
           key == p.flow
           i == Len(in) + 1
           D == DOMAIN items \ TcpBad(p)
           its == Pick(items, D)
           Z == {items[j].bufsIndex : j \in TcpBad(p)}
           a == Append(bufs, Buffer(p, i))
           z == TcpZeroed(a, p)
<1>0. "tcp" \in Protos /\ Tables["tcp"] = tcp.items BY DEF Protos, Tables
<1>1. /\ in \in Seq(AllPackets) /\ p \in AllPackets /\ bufs \in Seq(Buffers) /\ Len(bufs) = Len(in)
      /\ DOMAIN lists \subseteq 1..Len(in) /\ i \in Nat /\ i \in 1..i /\ i \notin 1..Len(in)
  <2>1. in \in Seq(AllPackets) BY DEF Setup
  <2>2. i \in Nat /\ i \in 1..i /\ i \notin 1..Len(in) BY <2>1
  <2> QED BY <2>2 DEF Setup, Groups, BuffersOK, ListsOK
<1>2. ItemsOK(items, key, "tcp", lists, in, bufs) BY <1>0 DEF Setup, Groups, TablesOK
<1>3. items \in Seq(ItemsOf("tcp")) BY <1>2 DEF ItemsOK
<1>4. /\ TcpBad(p) \subseteq DOMAIN items /\ \A j \in TcpBad(p) : items[j].numMerged = 0
  BY <1>3, StopFacts
<1>5. \A j \in DOMAIN items : items[j].bufsIndex \in DOMAIN lists BY <1>2 DEF ItemsOK
<1>6. \A j, k \in DOMAIN items : items[j].bufsIndex = items[k].bufsIndex => j = k BY <1>2 DEF ItemsOK
<1>7. /\ its \in Seq(ItemsOf("tcp"))
      /\ \A n \in DOMAIN its : Sorted(D)[n] \in D /\ its[n] = items[Sorted(D)[n]]
      /\ \A j \in D : \E n \in DOMAIN its : Sorted(D)[n] = j
      /\ \A m, n \in DOMAIN its : Sorted(D)[m] = Sorted(D)[n] => m = n
  <2>1. D \in SUBSET (DOMAIN items) OBVIOUS
  <2> HIDE DEF D, items
  <2> QED BY <1>3, <2>1, PickFacts
<1>8. /\ Grown(in, p, bufs, z)
      /\ \A b \in Z : b \in 1..Len(in) => z[b].vnet = NoGSO
      /\ \A b \in 1..Len(in) : b \notin Z => z[b] = bufs[b]
  <2>1. z = Zero(a, Z) BY DEF TcpZeroed
  <2> HIDE DEF Z, z
  <2>2. \A Y : LET c == Zero(a, Y) IN
          /\ Grown(in, p, bufs, c)
          /\ \A b \in Y : b \in 1..Len(in) => c[b].vnet = NoGSO
          /\ \A b \in 1..Len(in) : b \notin Y => c[b] = bufs[b]
    BY ONLY <1>1, ZeroGrown
  <2> HIDE DEF a
  <2> QED BY ONLY <2>1, <2>2
<1>9. z[i] = Buffer(p, i)
  <2>1. a \in Seq(Buffers) /\ Len(a) = i /\ a[i] = Buffer(p, i) BY <1>1, Appended
  <2>2. i \notin Z BY <1>1, <1>4, <1>5
  <2>3. z = Zero(a, Z) BY DEF TcpZeroed
  <2> HIDE DEF a, Z, z
  <2>4. DOMAIN a = 1..i BY <1>1, <2>1
  <2> QED BY <1>1, <2>1, <2>2, <2>3, <2>4 DEF Zero
<1> HIDE DEF items, D, its, z, a, Z
<1>10. Selected(its, Tables, "tcp", key)
  <2>1. \A n \in DOMAIN its : \E j \in DOMAIN items : its[n] = items[j] BY <1>7 DEF D
  <2>2. ASSUME NEW m \in DOMAIN its, NEW n \in DOMAIN its, its[m].bufsIndex = its[n].bufsIndex PROVE m = n
    <3>1. Sorted(D)[m] \in DOMAIN items /\ Sorted(D)[n] \in DOMAIN items BY <1>7 DEF D
    <3>2. Sorted(D)[m] = Sorted(D)[n] BY <1>6, <1>7, <2>2, <3>1
    <3> QED BY <1>7, <3>2
  <2>3. key \in DOMAIN Tables["tcp"] /\ Tables["tcp"][key] = items BY <1>0 DEF items
  <2> QED BY <1>7, <2>1, <2>2, <2>3 DEF Selected
<1>11. Dropped(its, Tables, "tcp", key, z)
  <2>1. ASSUME NEW j \in DOMAIN items
        PROVE  (\E n \in DOMAIN its : its[n] = items[j]) \/ (items[j].numMerged = 0 /\ z[items[j].bufsIndex].vnet = NoGSO)
    <3>1. CASE j \in D BY <1>7, <3>1
    <3>2. CASE j \in TcpBad(p)
      <4>1. items[j].bufsIndex \in Z BY <3>2 DEF Z
      <4>2. items[j].bufsIndex \in 1..Len(in) BY <1>1, <1>5
      <4> QED BY <1>4, <1>8, <3>2, <4>1, <4>2
    <3> QED BY <3>1, <3>2 DEF D
  <2>2. Tables["tcp"][key] = items BY <1>0 DEF items
  <2> QED BY <2>1, <2>2 DEF Dropped
<1>12. ASSUME NEW j \in TcpBad(p), NEW k \in D PROVE items[j].bufsIndex # items[k].bufsIndex
  <2>1. j \in DOMAIN items /\ k \in DOMAIN items /\ j # k BY <1>4 DEF D
  <2> QED BY <1>6, <2>1
<1>13. ASSUME NEW k \in D PROVE z[items[k].bufsIndex] = bufs[items[k].bufsIndex]
  <2>1. items[k].bufsIndex \notin Z BY <1>12 DEF Z
  <2>2. items[k].bufsIndex \in 1..Len(in) BY <1>1, <1>5 DEF D
  <2> QED BY <1>8, <2>1, <2>2
<1>14. \A j \in DOMAIN items : items[j].bufsIndex \in 1..Len(in) BY <1>1, <1>5
<1> QED BY <1>3, <1>7, <1>8, <1>9, <1>10, <1>11, <1>12, <1>13, <1>14 DEF items, D, its, z, a

\* insert appends to the items a table was just given.
LEMMA InsertWith ==
    ASSUME NEW t, NEW key, NEW its, NEW item
    PROVE  insert(With(t, key, its), key, item) = With(t, key, Append(its, item))
<1> DEFINE u == With(t, key, its)
           new == Append(its, item)
           D == DOMAIN t.items \cup {key}
<1>1. u.items = [k \in D |-> IF k = key THEN its ELSE t.items[k]] BY DEF With
<1>2. u.pool = IF key \in DOMAIN t.items THEN t.pool ELSE t.pool - 1 BY DEF With
<1>3. DOMAIN u.items = D /\ key \in D /\ u.items[key] = its BY <1>1
<1> HIDE DEF u
<1>4. insert(u, key, item) = With(u, key, new) BY <1>3 DEF insert
<1> HIDE DEF new
<1>5. [k \in DOMAIN u.items \cup {key} |-> IF k = key THEN new ELSE u.items[k]] =
      [k \in D |-> IF k = key THEN new ELSE t.items[k]]
  <2>1. DOMAIN u.items \cup {key} = D BY <1>3
  <2>2. \A k \in D : k # key => u.items[k] = t.items[k] BY <1>1
  <2> HIDE DEF D
  <2> QED BY <2>1, <2>2
<1>6. With(u, key, new) = With(t, key, new) BY <1>2, <1>3, <1>5 DEF With
<1> QED BY <1>4, <1>6 DEF u, new

\* tcpGRO, when no item takes the packet.
LEMMA TcpInsertOutcome ==
    ASSUME NEW lists, NEW p, Setup(lists, p), p.proto = "tcp", p.len >= 1, p.flow \in DOMAIN tcp.items,
           NEW e, e.res = "insert", e.bufs = TcpZeroed(Append(bufs, Buffer(p, Len(in) + 1)), p),
           e.table = insert(TcpPruned(p, tcp.items[p.flow]), p.flow, newTCPItem(p, Len(in) + 1))
    PROVE  Outcome(e, lists, p, "tcp")
<1> DEFINE items == tcp.items[p.flow]
           its == Pick(items, DOMAIN items \ TcpBad(p))
           item == newTCPItem(p, Len(in) + 1)
           key == p.flow
           b2 == e.bufs
           ts == Tables
           q == "tcp"
<1>0. q \in Protos /\ TableOf(q) = tcp BY DEF Protos, TableOf
<1>1. in \in Seq(AllPackets) /\ p \in AllPackets /\ Groups(lists, in, bufs, ts) BY DEF Setup
<1>2. Selected(its, ts, q, key) /\ Dropped(its, ts, q, key, b2) /\ Grown(in, p, bufs, b2) BY Survivors
<1>3. NewItem(item, p, Len(in) + 1, q, key) BY <1>1, TcpNewItem
<1>4. e.table = With(TableOf(q), key, Append(its, item))
  <2>1. TcpPruned(p, items) = With(tcp, key, its) BY DEF TcpPruned
  <2>2. e.table = insert(With(tcp, key, its), key, item) BY <2>1
  <2> HIDE DEF its, item, key
  <2> QED BY <1>0, <2>2, InsertWith
<1> HIDE DEF its, item, key, b2, ts, q
<1>5. Groups(Own(lists, Len(in) + 1), Append(in, p), b2, Put(ts, q, key, Append(its, item)))
  BY ONLY <1>0, <1>1, <1>2, <1>3, InsertStep
<1> DEFINE new == Append(its, item)
<1>6. Groups(Own(lists, Len(in) + 1), Append(in, p), e.bufs, Put(Tables, q, p.flow, new)) BY ONLY <1>5 DEF b2, ts, key
<1>7. e.table = With(TableOf(q), p.flow, new) BY ONLY <1>4 DEF key
<1> HIDE DEF new
<1>8. Outcome(e, lists, p, q) BY <1>0, <1>6, <1>7, OwnOutcome
<1> QED BY ONLY <1>8 DEF q

\* tcpGRO, when the packet has a bad checksum.
LEMMA TcpNoopOutcome ==
    ASSUME NEW lists, NEW p, Setup(lists, p), p.flow \in DOMAIN tcp.items,
           NEW e, e.res = "noop", e.bufs = TcpZeroed(Append(bufs, Buffer(p, Len(in) + 1)), p),
           e.table = TcpPruned(p, tcp.items[p.flow])
    PROVE  Outcome(e, lists, p, "tcp")
<1> DEFINE items == tcp.items[p.flow]
           its == Pick(items, DOMAIN items \ TcpBad(p))
           key == p.flow
           z == e.bufs
           b2 == [z EXCEPT ![Len(in) + 1].vnet = NoGSO]
           ts == Tables
           q == "tcp"
<1>0. q \in Protos /\ TableOf(q) = tcp BY DEF Protos, TableOf
<1>1. /\ in \in Seq(AllPackets) /\ p \in AllPackets /\ Groups(lists, in, bufs, ts)
      /\ bufs \in Seq(Buffers) /\ Len(bufs) = Len(in)
  BY DEF Setup, Groups, BuffersOK
<1>2. Selected(its, ts, q, key) /\ Dropped(its, ts, q, key, z) /\ Grown(in, p, bufs, z) BY Survivors
<1>3. \A j \in DOMAIN items : items[j].bufsIndex \in 1..Len(in) BY Survivors
<1>4. e.table = With(TableOf(q), key, its) BY <1>0 DEF TcpPruned
<1>5. Tables[q][key] = items BY <1>0 DEF Tables
<1> HIDE DEF its, items, key, ts, z, q
<1>6. Grown(in, p, bufs, b2) /\ b2[Len(in) + 1].vnet = NoGSO /\ \A b \in 1..Len(in) : b2[b] = z[b]
  BY ONLY <1>1, <1>2, OwnZeroed
<1> HIDE DEF b2
<1>7. Dropped(its, ts, q, key, b2)
  <2>1. \A j \in DOMAIN ts[q][key] : b2[ts[q][key][j].bufsIndex] = z[ts[q][key][j].bufsIndex] BY <1>3, <1>5, <1>6 DEF ts
  <2> QED BY ONLY <1>2, <2>1 DEF Dropped
<1>8. Groups(Own(lists, Len(in) + 1), Append(in, p), b2, Put(ts, q, key, its))
  BY ONLY <1>0, <1>1, <1>2, <1>6, <1>7, PruneStep
<1>9. Groups(Own(lists, Len(in) + 1), Append(in, p), [e.bufs EXCEPT ![Len(in) + 1].vnet = NoGSO], Put(Tables, q, p.flow, its))
  BY ONLY <1>8 DEF b2, z, ts, key
<1>10. e.table = With(TableOf(q), p.flow, its) BY ONLY <1>4 DEF key
<1>11. Outcome(e, lists, p, q) BY <1>0, <1>9, <1>10, OwnOutcome
<1> QED BY ONLY <1>11 DEF q

\* The items of a flow, one of which was replaced before some are picked.
LEMMA PickUpdated ==
    ASSUME NEW X, NEW items \in Seq(X), NEW D \in SUBSET (DOMAIN items), NEW s \in D, NEW item \in X
    PROVE  LET new == Pick([items EXCEPT ![s] = item], D) IN
           /\ new \in Seq(X)
           /\ \E x : Updated(Pick(items, D), new, x, item) /\ Pick(items, D)[x] = items[s]
<1> DEFINE items2 == [items EXCEPT ![s] = item]
           its == Pick(items, D)
           new == Pick(items2, D)
           k == Sorted(D)
<1>1. items2 \in Seq(X) /\ DOMAIN items2 = DOMAIN items
  <2>1. DOMAIN items = 1..Len(items) /\ Len(items) \in Nat OBVIOUS
  <2>2. items2 \in [1..Len(items) -> X] BY <2>1
  <2> QED BY <2>1, <2>2
<1>2. items2[s] = item /\ \A j \in DOMAIN items : j # s => items2[j] = items[j] OBVIOUS
<1> HIDE DEF items2
<1>3. D \in SUBSET (DOMAIN items2) BY <1>1
<1>4. /\ DOMAIN its = DOMAIN k
      /\ \A n \in DOMAIN its : k[n] \in D /\ its[n] = items[k[n]]
      /\ \A j \in D : \E n \in DOMAIN its : k[n] = j
      /\ \A m, n \in DOMAIN its : k[m] = k[n] => m = n
  BY ONLY items \in Seq(X), D \in SUBSET (DOMAIN items), PickFacts
<1>5. /\ new \in Seq(X) /\ DOMAIN new = DOMAIN k
      /\ \A n \in DOMAIN new : new[n] = items2[k[n]]
  BY ONLY <1>1, <1>3, PickFacts
<1> HIDE DEF its, new, k
<1>6. PICK x \in DOMAIN its : k[x] = s BY <1>4
<1>7. Updated(its, new, x, item) /\ its[x] = items[s] BY <1>2, <1>4, <1>5, <1>6 DEF Updated
<1> QED BY <1>5, <1>7 DEF its, new, items2

\* tcpGRO, when an item takes the packet.
LEMMA TcpJoinOutcome ==
    ASSUME NEW lists, NEW p, Setup(lists, p), p.proto = "tcp", p.len >= 1, p.flow \in DOMAIN tcp.items,
           TcpStop(p) # 0, TcpTried(p)[TcpStop(p)] # "pktInvalidCSum", NEW item, item = tcp.items[p.flow][TcpStop(p)],
           NEW e, e.res = "coalesced",
           e.bufs = coalesceTCPPackets(TcpZeroed(Append(bufs, Buffer(p, Len(in) + 1)), p), p, Len(in) + 1, item),
           e.table = TcpPruned(p, [tcp.items[p.flow] EXCEPT ![TcpStop(p)] = coalescedTCPItem(p, item)])
    PROVE  Outcome(e, lists, p, "tcp")
<1> DEFINE items == tcp.items[p.flow]
           s == TcpStop(p)
           D == DOMAIN items \ TcpBad(p)
           its == Pick(items, D)
           item2 == coalescedTCPItem(p, item)
           new == Pick([items EXCEPT ![s] = item2], D)
           i == Len(in) + 1
           z == TcpZeroed(Append(bufs, Buffer(p, i)), p)
           w == item.bufsIndex
           q == "tcp"
<1>0. q \in Protos /\ TableOf(q) = tcp /\ Tables[q] = tcp.items BY DEF Protos, TableOf, Tables
<1>1. /\ items \in Seq(ItemsOf(q))
      /\ Selected(its, Tables, q, p.flow) /\ Dropped(its, Tables, q, p.flow, z)
      /\ Grown(in, p, bufs, z)
      /\ z[i] = Buffer(p, i)
  BY Survivors
<1>2. /\ \A j \in D : z[items[j].bufsIndex] = bufs[items[j].bufsIndex]
      /\ \A j \in DOMAIN items : items[j].bufsIndex \in 1..Len(in)
      /\ \A j \in TcpBad(p) : \A k \in D : items[j].bufsIndex # items[k].bufsIndex
  BY Survivors
<1>3. /\ s \in DOMAIN items /\ TcpTried(p)[s] = "success" /\ s \notin TcpBad(p)
      /\ TcpBad(p) \subseteq DOMAIN items /\ \A j \in TcpBad(p) : items[j].numMerged = 0
  BY <1>1, StopFacts
<1>4. s \in D BY <1>3
<1>5. tryCoalesceTCP(p, item) = "success" BY <1>3 DEF TcpTried
<1>6. z[w] = bufs[w] BY <1>2, <1>4
<1>7. MergeDone(lists, p, q, w, item2, e.bufs) BY <1>1, <1>3, <1>5, <1>6, TcpJoin
<1>8. item2 \in ItemsOf(q) BY <1>7 DEF MergeDone
<1>9. e.table = With(TableOf(q), p.flow, new) BY <1>0 DEF TcpPruned
<1>10. new \in Seq(ItemsOf(q)) /\ \E x : Updated(its, new, x, item2) /\ its[x] = items[s]
  <2>1. D \in SUBSET (DOMAIN items) OBVIOUS
  <2> HIDE DEF D, items, s, item2, q
  <2> QED BY ONLY ZenonT(30), <1>1, <1>4, <1>8, <2>1, PickUpdated
<1>11. Dropped(its, Tables, q, p.flow, e.bufs)
  <2>1. i \notin 1..Len(in) /\ DOMAIN z = 1..i /\ 1..Len(in) \subseteq 1..i
    <3>1. in \in Seq(AllPackets) BY DEF Setup
    <3>2. Len(in) \in Nat BY <3>1
    <3>3. z \in Seq(Buffers) /\ Len(z) = i BY <1>1 DEF Grown
    <3> HIDE DEF z
    <3> QED BY <3>2, <3>3
  <2>2. ASSUME NEW j \in TcpBad(p) PROVE e.bufs[items[j].bufsIndex] = z[items[j].bufsIndex]
    <3>1. items[j].bufsIndex \in 1..Len(in) BY <1>2, <1>3
    <3>2. items[j].bufsIndex # w BY <1>2, <1>4
    <3>3. items[j].bufsIndex \in DOMAIN z /\ items[j].bufsIndex # i BY <2>1, <3>1
    <3> DEFINE b == items[j].bufsIndex
    <3>4. e.bufs = coalesceTCPPackets(z, p, i, item) OBVIOUS
    <3> HIDE DEF b, z, i
    <3> QED BY ONLY <3>2, <3>3, <3>4, CoalesceOthers DEF b, w
  <2>3. ASSUME NEW j \in D PROVE \E n \in DOMAIN its : its[n] = items[j]
    <3>1. D \in SUBSET (DOMAIN items) OBVIOUS
    <3> HIDE DEF D, items
    <3> QED BY <1>1, <2>3, <3>1, PickFacts
  <2>4. Tables[q][p.flow] = items BY <1>0
  <2>5. \A j \in DOMAIN items : j \in D \/ j \in TcpBad(p) OBVIOUS
  <2>6. \A j \in TcpBad(p) : (\E n \in DOMAIN its : its[n] = items[j]) \/ z[items[j].bufsIndex].vnet = NoGSO
    <3>1. p.flow \in DOMAIN Tables[q] /\ Dropped(its, Tables, q, p.flow, z) BY <1>0, <1>1
    <3>2. TcpBad(p) \subseteq DOMAIN items BY <1>3
    <3> HIDE DEF items, its, z, q
    <3> QED BY ONLY <2>4, <3>1, <3>2 DEF Dropped
  <2> HIDE DEF items, its, D, z
  <2> QED BY <1>3, <2>2, <2>3, <2>4, <2>5, <2>6 DEF Dropped
<1>12. PICK x : Updated(its, new, x, item2) /\ its[x] = items[s] BY <1>10
<1>13. its[x].bufsIndex = w BY <1>12
<1>14. p.flow \in DOMAIN Tables[q] /\ p.proto = q /\ q # "udp" BY <1>0
<1> HIDE DEF items, s, D, its, item2, new, i, z, w, q
<1>15. Outcome(e, lists, p, q)
  BY <1>0, <1>1, <1>7, <1>9, <1>10, <1>11, <1>12, <1>13, <1>14, JoinOutcome
<1> QED BY ONLY <1>15 DEF q

\* One packet's evaluation by tcpGRO.
LEMMA TcpOutcome ==
    ASSUME NEW lists, NEW p, Setup(lists, p), p.proto = "tcp"
    PROVE  Outcome(tcpGRO(Append(bufs, Buffer(p, Len(in) + 1)), p, Len(in) + 1), lists, p, "tcp")
<1> DEFINE i == Len(in) + 1
           a == Append(bufs, Buffer(p, i))
           e == tcpGRO(a, p, i)
           items == tcp.items[p.flow]
           z == TcpZeroed(a, p)
<1>0. "tcp" \in Protos /\ TableOf("tcp") = tcp BY DEF Protos, TableOf
<1>1. p \in AllPackets /\ in \in Seq(AllPackets) BY DEF Setup
<1>2. CASE ~p.valid \/ p.flags = "other" \/ p.len < 1
  <2>1. e = Noop(a, tcp) BY <1>2 DEF tcpGRO
  <2> QED BY <1>0, <2>1, NoopOutcome
<1>3. CASE ~(~p.valid \/ p.flags = "other" \/ p.len < 1)
  <2>1. p.len >= 1
    <3>1. p.len \in Nat BY <1>1, PacketType
    <3>2. ~(p.len < 1) BY <1>3
    <3> QED BY ONLY <3>1, <3>2
  <2>2. CASE p.flow \notin DOMAIN tcp.items
    <3>1. e = [bufs |-> a, table |-> insert(tcp, p.flow, newTCPItem(p, i)), res |-> "insert"]
      BY <1>3, <2>2 DEF tcpGRO
    <3>2. i \in Nat BY <1>1
    <3>3. NewItem(newTCPItem(p, i), p, i, "tcp", p.flow) BY <1>1, <2>1, <3>2, TcpNewItem
    <3>4. e.res = "insert" /\ e.bufs = a /\ e.table = insert(tcp, p.flow, newTCPItem(p, i)) BY <3>1
    <3> DEFINE item == newTCPItem(p, i)
    <3> HIDE DEF e, item
    <3>5. Outcome(e, lists, p, "tcp") BY <1>0, <2>2, <3>3, <3>4, FirstOutcome DEF item
    <3> QED BY <3>5 DEF e
  <2>3. CASE p.flow \in DOMAIN tcp.items
    <3>1. e = IF TcpStop(p) = 0
               THEN [bufs |-> z, table |-> insert(TcpPruned(p, items), p.flow, newTCPItem(p, i)), res |-> "insert"]
             ELSE IF TcpTried(p)[TcpStop(p)] = "pktInvalidCSum" THEN Noop(z, TcpPruned(p, items))
             ELSE [bufs |-> coalesceTCPPackets(z, p, i, items[TcpStop(p)]),
                   table |-> TcpPruned(p, [items EXCEPT ![TcpStop(p)] = coalescedTCPItem(p, items[TcpStop(p)])]),
                   res |-> "coalesced"]
      BY <1>3, <2>3, TcpWalk
    <3> HIDE DEF e
    <3>2. CASE TcpStop(p) = 0
      <4>1. e.res = "insert" /\ e.bufs = z /\ e.table = insert(TcpPruned(p, items), p.flow, newTCPItem(p, i))
        BY <3>1, <3>2
      <4>2. Outcome(e, lists, p, "tcp") BY <2>1, <2>3, <4>1, TcpInsertOutcome
      <4> QED BY <4>2 DEF e
    <3>3. CASE TcpStop(p) # 0 /\ TcpTried(p)[TcpStop(p)] = "pktInvalidCSum"
      <4>1. e.res = "noop" /\ e.bufs = z /\ e.table = TcpPruned(p, items) BY <3>1, <3>3 DEF Noop
      <4>2. Outcome(e, lists, p, "tcp") BY <2>3, <4>1, TcpNoopOutcome
      <4> QED BY <4>2 DEF e
    <3>4. CASE TcpStop(p) # 0 /\ TcpTried(p)[TcpStop(p)] # "pktInvalidCSum"
      <4> DEFINE item == items[TcpStop(p)]
      <4>1. /\ e.res = "coalesced" /\ e.bufs = coalesceTCPPackets(z, p, i, item)
            /\ e.table = TcpPruned(p, [items EXCEPT ![TcpStop(p)] = coalescedTCPItem(p, item)])
        BY <3>1, <3>4
      <4>2. item = tcp.items[p.flow][TcpStop(p)] OBVIOUS
      <4> HIDE DEF item
      <4>3. Outcome(e, lists, p, "tcp") BY <2>1, <2>3, <3>4, <4>1, <4>2, TcpJoinOutcome
      <4> QED BY <4>3 DEF e
    <3> QED BY <3>2, <3>3, <3>4
  <2> QED BY <2>2, <2>3
<1> QED BY <1>2, <1>3

-----------------------------------------------------------------------------
(* udpGRO.                                                                 *)

\* A new UDP item.
LEMMA UdpNewItem ==
    ASSUME NEW p \in AllPackets, NEW i \in Nat, p.proto = "udp", p.len >= 1, NEW f \in BOOLEAN
    PROVE  NewItem(newUDPItem(p, i, f), p, i, "udp", p.flow)
<1> DEFINE item == newUDPItem(p, i, f)
<1>1. p.len \in Nat BY PacketType
<1>2. item.bufsIndex = i /\ item.numMerged = 0 /\ item.gsoSize = p.len BY DEF newUDPItem
<1>3. item \in ItemsOf("udp") BY <1>1 DEF newUDPItem, ItemsOf
<1> HIDE DEF item
<1>4. NewItem(item, p, i, "udp", p.flow) BY <1>2, <1>3 DEF NewItem
<1> QED BY ONLY <1>4 DEF item

\* What udpPacketsCanCoalesce has found.
LEMMA UdpCanCoalesce ==
    ASSUME NEW p, NEW item, udpPacketsCanCoalesce(p, item) = "append"
    PROVE  LET b == bufs[item.bufsIndex] IN
           p.hdr = b.hdr /\ Len(b.payload) % item.gsoSize = 0 /\ p.len <= item.gsoSize
BY DEF udpPacketsCanCoalesce, ipHeadersCanCoalesce

\* A datagram is merged.
LEMMA UdpJoin ==
    ASSUME NEW lists, NEW p, Setup(lists, p), p.proto = "udp", p.len >= 1,
           p.flow \in DOMAIN udp.items, NEW j \in DOMAIN udp.items[p.flow],
           NEW item, item = udp.items[p.flow][j], udpPacketsCanCoalesce(p, item) = "append",
           NEW a, Grown(in, p, bufs, a), a[item.bufsIndex] = bufs[item.bufsIndex],
           a[Len(in) + 1] = Buffer(p, Len(in) + 1),
           CoalesceResult(p, item, a[item.bufsIndex], item.cSumKnownInvalid) = "success"
    PROVE  MergeDone(lists, p, "udp", item.bufsIndex, [item EXCEPT !.numMerged = item.numMerged + 1],
                     [a EXCEPT ![item.bufsIndex].payload = @ \o a[Len(in) + 1].payload])
<1> DEFINE w == item.bufsIndex
           b == bufs[w]
           i == Len(in) + 1
           item2 == [item EXCEPT !.numMerged = item.numMerged + 1]
           c2 == [a EXCEPT ![w].payload = @ \o a[i].payload]
           g == item.gsoSize
           key == p.flow
           l == lists[w]
           t == Buffer(p, i).payload
           c == [b EXCEPT !.payload = b.payload \o t]
<1>0. "udp" \in Protos /\ Tables["udp"] = udp.items BY DEF Protos, Tables
<1>1. /\ item \in ItemsOf("udp") /\ w \in DOMAIN lists /\ w \in 1..Len(in) /\ l \in Seq(1..Len(in))
      /\ Describes(item, key, "udp", in, b, l) /\ Legal(b)
      /\ item.numMerged \in Nat /\ g \in Nat
      /\ (item.numMerged = 0 => b.csum = in[l[1]].csum)
      /\ \A m, x \in DOMAIN l : l[m] = l[x] => m = x
  <2>1. key \in DOMAIN Tables["udp"] /\ j \in DOMAIN Tables["udp"][key] /\ item = Tables["udp"][key][j] BY <1>0
  <2>2. Setup(lists, p) OBVIOUS
  <2>3. ItemOK(item, key, "udp", lists) BY ONLY <1>0, <2>1, <2>2, ItemBuffer
  <2> QED BY ONLY <2>3 DEF ItemOK
<1>2. in \in Seq(AllPackets) /\ p \in AllPackets /\ BuffersOK(lists, in, bufs) BY DEF Setup, Groups
<1>3. (item.numMerged = 0 => b.csum) /\ p.csum /\ ~(b.room < Len(b.payload) + p.len) BY Checked
<1>4. p.hdr = b.hdr /\ Len(b.payload) % g = 0 /\ p.len <= g BY UdpCanCoalesce
<1>5. /\ p.len \in Nat /\ p.room \in Nat /\ p.csum \in BOOLEAN /\ LenSpace \in Nat
      /\ Len(in) \in Nat /\ i \in Nat /\ i \in 1..i
  BY <1>2, PacketType
<1>6. /\ b \in Buffers /\ b.payload \in Seq(Nat \X Nat) /\ Len(b.payload) \in Nat /\ b.room \in Nat
      /\ b.room < LenSpace /\ b.csum \in BOOLEAN /\ b.flags \in {"ack", "psh", "other"}
  <2>1. b \in Buffers /\ b.room < LenSpace BY ONLY <1>1 DEF Legal
  <2>2. b.payload \in Seq(Nat \X Nat) BY ONLY <2>1 DEF Buffers
  <2>3. b.room \in Nat /\ b.csum \in BOOLEAN /\ b.flags \in {"ack", "psh", "other"} BY ONLY <2>1 DEF Buffers
  <2>4. Len(b.payload) \in Nat BY ONLY <2>2
  <2> QED BY ONLY <2>1, <2>2, <2>3, <2>4
<1>7. p.csum = TRUE /\ (item.numMerged = 0 => in[l[1]].csum = TRUE)
  <2>1. p.csum = TRUE BY ONLY <1>3, <1>5
  <2>2. item.numMerged = 0 => b.csum = TRUE BY ONLY <1>3, <1>6
  <2> QED BY ONLY <1>1, <2>1, <2>2
<1>8. item2 \in ItemsOf("udp") /\ item2.bufsIndex = w /\ item2.numMerged = item.numMerged + 1 /\ item2.gsoSize = g
  <2>1. ItemsOf("udp") = [bufsIndex : Nat, numMerged : Nat, gsoSize : Nat, cSumKnownInvalid : BOOLEAN] BY DEF ItemsOf
  <2>2. item.numMerged + 1 \in Nat BY ONLY <1>1
  <2> DEFINE m == item.numMerged + 1
  <2> HIDE DEF m
  <2>3. [item EXCEPT !.numMerged = m] \in ItemsOf("udp") BY ONLY <1>1, <2>1, <2>2 DEF m
  <2>4. LET u == [item EXCEPT !.numMerged = m] IN u.bufsIndex = w /\ u.numMerged = m /\ u.gsoSize = g
    BY ONLY <1>1, <2>1
  <2> QED BY ONLY <2>3, <2>4 DEF m
<1>9. /\ Legal(Buffer(p, i)) /\ t \in Seq(Nat \X Nat)
  <2>1. /\ Buffer(p, i) \in Buffers /\ Buffer(p, i).vnet = Stale /\ Buffer(p, i).room = p.room
        /\ Buffer(p, i).room < LenSpace /\ Buffer(p, i).len <= Buffer(p, i).room
        /\ Buffer(p, i).payload = Tok(p, i)
    BY <1>2, <1>5, BufferType
  <2>2. Tok(p, i) \in Seq(Nat \X Nat) BY <1>2, <1>5, TokType
  <2> QED BY ONLY <2>1, <2>2 DEF Legal
<1>10. a[w] = b /\ a[i] = Buffer(p, i) /\ a \in Seq(Buffers) /\ Len(a) = i BY DEF Grown
<1>11. DOMAIN a = 1..i /\ w \in 1..i /\ w # i /\ i \in 1..i BY ONLY <1>1, <1>5, <1>10
<1>12. /\ Legal(c) /\ c.proto = b.proto /\ c.flow = b.flow /\ c.hdr = b.hdr /\ c.seq = b.seq
       /\ c.room = b.room /\ c.payload = b.payload \o t /\ c.flags = b.flags
  <2>1. ExtendedBy(b, c, t, b.flags) BY ONLY <1>1, <1>6, <1>9, Extended
  <2> QED BY ONLY <2>1 DEF ExtendedBy
<1>13. c2 = [a EXCEPT ![w] = c, ![i] = Buffer(p, i)]
  <2>1. c2 = [a EXCEPT ![w] = [a[w] EXCEPT !.payload = a[w].payload \o a[i].payload]] OBVIOUS
  <2>2. c2 = [a EXCEPT ![w] = c] BY ONLY <1>10, <2>1
  <2> HIDE DEF c, c2
  <2>3. [a EXCEPT ![w] = c] = [a EXCEPT ![w] = c, ![i] = Buffer(p, i)] BY ONLY <1>10, <1>11
  <2> QED BY ONLY <2>2, <2>3
<1>14. Setup(lists, p) /\ Grown(in, p, bufs, a) /\ p.proto = "udp" /\ p.len >= 1 /\ key = p.flow OBVIOUS
<1> HIDE DEF c, c2, t, item2, key
<1>15. MergedInto(in, bufs, c2, w) /\ c2[w] = c
  <2>1. MergedInto(in, bufs, Swap(a, w, c, i, Buffer(p, i)), w) /\ Swap(a, w, c, i, Buffer(p, i))[w] = c
    BY ONLY <1>1, <1>2, <1>9, <1>12, <1>14, MergeBuffers
  <2> QED BY ONLY <1>13, <2>1 DEF Swap
<1>16. Fits(in, p, b, c, item, item2, key, "udp", l)
  <2>1. Len(b.payload) + p.len <= c.room BY ONLY SMTT(20), <1>3, <1>5, <1>6, <1>12
  <2> QED BY ONLY <1>0, <1>1, <1>4, <1>6, <1>7, <1>8, <1>12, <1>14, <2>1 DEF Fits
<1>17. AppendOK(in, p, b, c, item, item2, key, "udp", l)
  <2>1. "udp" # "tcp" OBVIOUS
  <2>2. c.payload = b.payload \o Buffer(p, Len(in) + 1).payload BY ONLY <1>12 DEF t
  <2> QED BY ONLY <1>4, <1>8, <1>12, <1>16, <2>1, <2>2 DEF AppendOK
<1>18. Describes(item2, key, "udp", Append(in, p), c2[w], Append(l, i))
  BY ONLY <1>2, <1>15, <1>17, AppendDescribes
<1>19. Joins(Append(l, i), l, i)
  <2>1. i \notin 1..Len(in) BY ONLY <1>5
  <2> QED BY ONLY <1>1, <2>1, AppendJoins
<1>20. Append(l, i) \in Seq(1..i) /\ Len(Append(l, i)) # 1
  <2>1. Len(l) = item.numMerged + 1 BY ONLY <1>1 DEF Describes
  <2>2. l \in Seq(1..i)
    <3>1. 1..Len(in) \subseteq 1..i BY ONLY <1>5
    <3> QED BY ONLY <1>1, <3>1
  <2>3. Append(l, i) \in Seq(1..i) /\ Len(Append(l, i)) = Len(l) + 1 BY ONLY <1>11, <2>2, AppendFacts
  <2> QED BY ONLY <1>1, <2>1, <2>3
<1>21. Beside(Append(l, i), l, i, "udp") BY DEF Beside
<1>22. MergeDone(lists, p, "udp", w, item2, c2)
  BY ONLY <1>1, <1>8, <1>14, <1>15, <1>18, <1>19, <1>20, <1>21 DEF MergeDone
<1> QED BY ONLY <1>22 DEF c2, item2

\* One element of a sequence is replaced.
LEMMA Replaced ==
    ASSUME NEW X, NEW s \in Seq(X), NEW n \in DOMAIN s, NEW x \in X
    PROVE  /\ [s EXCEPT ![n] = x] \in Seq(X) /\ DOMAIN [s EXCEPT ![n] = x] = DOMAIN s
           /\ [s EXCEPT ![n] = x][n] = x /\ \A m \in DOMAIN s : m # n => [s EXCEPT ![n] = x][m] = s[m]
<1>1. DOMAIN s = 1..Len(s) /\ Len(s) \in Nat OBVIOUS
<1>2. [s EXCEPT ![n] = x] \in [1..Len(s) -> X] BY <1>1
<1> QED BY <1>1, <1>2

\* A flow's items as they are: each is selected, none is dropped.
LEMMA AllSelected ==
    ASSUME NEW lists, NEW p, Setup(lists, p), NEW q \in Protos, p.flow \in DOMAIN Tables[q], NEW bs2
    PROVE  /\ Selected(Tables[q][p.flow], Tables, q, p.flow)
           /\ Dropped(Tables[q][p.flow], Tables, q, p.flow, bs2)
<1>1. ItemsOK(Tables[q][p.flow], p.flow, q, lists, in, bufs) BY DEF Setup, Groups, TablesOK
<1> QED BY <1>1 DEF ItemsOK, Selected, Dropped

\* What udpGRO makes of the flow's last item.
UdpTried(bs, p, item) ==
    IF udpPacketsCanCoalesce(p, item) = "append"
      THEN CoalesceResult(p, item, bs[item.bufsIndex], item.cSumKnownInvalid) ELSE "unavailable"

\* One packet's evaluation by udpGRO.
LEMMA UdpOutcome ==
    ASSUME NEW lists, NEW p, Setup(lists, p), p.proto = "udp",
           p.flow \in DOMAIN udp.items => udp.items[p.flow] # <<>>
    PROVE  Outcome(udpGRO(Append(bufs, Buffer(p, Len(in) + 1)), p, Len(in) + 1), lists, p, "udp")
<1> DEFINE i == Len(in) + 1
           a == Append(bufs, Buffer(p, i))
           e == udpGRO(a, p, i)
           items == udp.items[p.flow]
           q == "udp"
<1>0. q \in Protos /\ TableOf(q) = udp /\ Tables[q] = udp.items BY DEF Protos, TableOf, Tables
<1>1. p \in AllPackets /\ in \in Seq(AllPackets) /\ Groups(lists, in, bufs, Tables) BY DEF Setup
<1>2. CASE ~p.valid \/ p.len < 1
  <2>1. e = Noop(a, udp) BY <1>2 DEF udpGRO
  <2> QED BY <1>0, <2>1, NoopOutcome
<1>3. CASE ~(~p.valid \/ p.len < 1)
  <2>1. p.len >= 1
    <3>1. p.len \in Nat BY <1>1, PacketType
    <3>2. ~(p.len < 1) BY <1>3
    <3> QED BY ONLY <3>1, <3>2
  <2>2. i \in Nat /\ Len(in) \in Nat BY <1>1
  <2>3. CASE p.flow \notin DOMAIN udp.items
    <3> DEFINE item == newUDPItem(p, i, FALSE)
    <3>1. e = [bufs |-> a, table |-> insert(udp, p.flow, item), res |-> "insert"]
      BY <1>3, <2>3 DEF udpGRO
    <3>2. NewItem(item, p, i, q, p.flow) BY <1>1, <2>1, <2>2, UdpNewItem
    <3>3. e.res = "insert" /\ e.bufs = a /\ e.table = insert(udp, p.flow, item)
      <4> HIDE DEF e
      <4> QED BY <3>1
    <3> HIDE DEF e, item, q
    <3>4. Outcome(e, lists, p, q) BY <1>0, <2>3, <3>2, <3>3, FirstOutcome
    <3> QED BY <3>4 DEF e, q
  <2>4. CASE p.flow \in DOMAIN udp.items
    <3> DEFINE n == Len(items)
               item == items[n]
               w == item.bufsIndex
               tried == UdpTried(a, p, item)
    <3>1. Selected(items, Tables, q, p.flow) /\ \A bs2 : Dropped(items, Tables, q, p.flow, bs2)
      BY <1>0, <2>4, AllSelected
    <3>2. items \in Seq(ItemsOf(q)) BY <3>1 DEF Selected
    <3>3. n \in DOMAIN items /\ Last(items) = item BY <2>4, <3>2 DEF Last
    <3>4. e = IF tried = "success"
              THEN [bufs |-> [a EXCEPT ![w].payload = @ \o a[i].payload],
                    table |-> With(udp, p.flow, [items EXCEPT ![n].numMerged = @ + 1]),
                    res |-> "coalesced"]
              ELSE [bufs |-> a,
                    table |-> insert(udp, p.flow, newUDPItem(p, i, tried = "pktInvalidCSum")),
                    res |-> "insert"]
      BY <1>3, <2>4, <3>3 DEF udpGRO, UdpTried
    <3>5. Grown(in, p, bufs, a) /\ \A b \in 1..Len(in) : a[b] = bufs[b] BY AddedBuffer
    <3>6. CASE tried = "success"
      <4> DEFINE item2 == [item EXCEPT !.numMerged = item.numMerged + 1]
                 new == [items EXCEPT ![n] = item2]
      <4>1. /\ e.res = "coalesced" /\ e.bufs = [a EXCEPT ![w].payload = @ \o a[i].payload]
            /\ e.table = With(udp, p.flow, [items EXCEPT ![n].numMerged = @ + 1])
        <5> HIDE DEF e
        <5> QED BY <3>4, <3>6
      <4>2. [items EXCEPT ![n].numMerged = @ + 1] = new OBVIOUS
      <4>3. udpPacketsCanCoalesce(p, item) = "append" /\ CoalesceResult(p, item, a[w], item.cSumKnownInvalid) = "success"
        BY <3>6 DEF UdpTried
      <4>4. w \in 1..Len(in)
        <5>1. ItemsOK(items, p.flow, q, lists, in, bufs) BY <1>0, <1>1, <2>4 DEF Groups, TablesOK
        <5>2. w \in DOMAIN lists BY <3>3, <5>1 DEF ItemsOK
        <5> QED BY <1>1, <5>2 DEF Groups, ListsOK
      <4>5. a[w] = bufs[w] BY <3>5, <4>4
      <4>6. a[i] = Buffer(p, i)
        <5>1. bufs \in Seq(Buffers) /\ Len(bufs) = Len(in) BY <1>1 DEF Groups, BuffersOK
        <5> QED BY <1>1, <5>1, Appended
      <4> HIDE DEF e, a
      <4>7. MergeDone(lists, p, q, w, item2, e.bufs)
        <5>1. Setup(lists, p) /\ p.proto = "udp" /\ n \in DOMAIN udp.items[p.flow] /\ item = udp.items[p.flow][n] BY <3>3
        <5> HIDE DEF item, n
        <5>2. MergeDone(lists, p, "udp", item.bufsIndex, [item EXCEPT !.numMerged = item.numMerged + 1],
                     [a EXCEPT ![item.bufsIndex].payload = @ \o a[Len(in) + 1].payload])
          BY ONLY <2>1, <2>4, <3>5, <4>3, <4>5, <4>6, <5>1, UdpJoin
        <5> QED BY ONLY <4>1, <5>2
      <4>8. item2 \in ItemsOf(q) BY <4>7 DEF MergeDone
      <4> HIDE DEF item2, item
      <4>9. new \in Seq(ItemsOf(q)) /\ Updated(items, new, n, item2)
        <5>1. new \in Seq(ItemsOf(q)) /\ DOMAIN new = DOMAIN items /\ new[n] = item2 /\ \A m \in DOMAIN items : m # n => new[m] = items[m]
          <6> HIDE DEF q, items, n
          <6> QED BY ONLY <3>2, <3>3, <4>8, Replaced
        <5> HIDE DEF new
        <5> QED BY <3>3, <5>1 DEF Updated
      <4>10. p.proto = q /\ w = Last(udp.items[p.flow]).bufsIndex BY <3>3 DEF item
      <4> HIDE DEF new, q, w, items, n
      <4>11. Outcome(e, lists, p, q)
        <5>1. e.table = With(TableOf(q), p.flow, new) BY <1>0, <4>1, <4>2 DEF items
        <5>2. p.flow \in DOMAIN Tables[q] BY <1>0, <2>4
        <5>3. items[n].bufsIndex = w BY DEF w, item
        <5>4. Dropped(items, Tables, q, p.flow, e.bufs) BY <3>1
        <5> QED BY <1>0, <3>1, <4>1, <4>7, <4>9, <4>10, <5>1, <5>2, <5>3, <5>4, JoinOutcome
      <4> QED BY <4>11 DEF e, q, a
    <3>7. CASE tried # "success"
      <4> DEFINE f == tried = "pktInvalidCSum"
                 new == newUDPItem(p, i, f)
                 key == p.flow
                 ts == Tables
                 all == Append(items, new)
      <4>1. e.res = "insert" /\ e.bufs = a /\ e.table = insert(udp, key, new)
        <5> HIDE DEF e
        <5> QED BY <3>4, <3>7
      <4>2. f \in BOOLEAN OBVIOUS
      <4> HIDE DEF f
      <4>3. NewItem(new, p, i, q, key) BY <1>1, <2>1, <2>2, <4>2, UdpNewItem
      <4>4. insert(udp, key, new) = With(udp, key, all) BY <2>4 DEF insert
      <4>5. Dropped(items, ts, q, key, a) BY <3>1
      <4> HIDE DEF e, a, new, key, ts, q, items
      <4>6. Groups(Own(lists, i), Append(in, p), a, Put(ts, q, key, all))
        BY ONLY <1>0, <1>1, <3>1, <3>5, <4>3, <4>5, InsertStep DEF key, ts
      <4>7. e.table = With(TableOf(q), p.flow, all) BY <1>0, <4>1, <4>4 DEF key
      <4>8. Groups(Own(lists, i), Append(in, p), e.bufs, Put(Tables, q, p.flow, all)) BY <4>1, <4>6 DEF ts, key
      <4> HIDE DEF all
      <4>9. Outcome(e, lists, p, q) BY <1>0, <4>1, <4>7, <4>8, OwnOutcome
      <4> QED BY <4>9 DEF e, q, a
    <3> QED BY <3>6, <3>7
  <2> QED BY <2>3, <2>4
<1> QED BY <1>2, <1>3

-----------------------------------------------------------------------------
(* One iteration of handleGRO's loop.                                      *)

\* The datagrams of a flow are in no buffer behind the one of the flow's last item.
UdpLast(lists, pk, t) ==
    \A w \in DOMAIN lists : \A x \in DOMAIN lists[w] : \A key \in DOMAIN t.items :
        lists[w][x] \in Datagrams(pk, key) => w <= Last(t.items[key]).bufsIndex

\* The grouping of the packets looked at so far.
Arranged(lists) ==
    /\ DOMAIN lists = ToSet(toWrite) /\ Groups(lists, in, bufs, Tables) /\ FlowsOrdered(lists, in)
    /\ mode = "tcp+udp" => UdpLast(lists, in, udp)

Grouped == \E lists : Arranged(lists)

\* A flow in the UDP table has an item.
UdpFull == \A key \in DOMAIN udp.items : udp.items[key] # <<>>

\* What udpGRO makes of the items of the packet's flow.
UdpItems(e, p, i) ==
    \/ e.res = "noop" /\ e.table = udp /\ (~p.valid \/ p.len < 1)
    \/ \E items :
          /\ items # <<>> /\ e.table = With(udp, p.flow, items)
          /\ \/ e.res = "insert" /\ Last(items).bufsIndex = i
             \/ /\ e.res = "coalesced" /\ p.flow \in DOMAIN udp.items
                /\ Last(items).bufsIndex = Last(udp.items[p.flow]).bufsIndex

\* An evaluation of p changes at most the flow of p in the table of q.
TableStep(p) ==
    /\ tcp' = tcp \/ \E items : tcp' = With(tcp, p.flow, items)
    /\ udp' = udp \/ \E items : udp' = With(udp, p.flow, items)

\* What an evaluation returns becomes the next state.
Applied(e, q) ==
    /\ bufs' = IF e.res = "noop" THEN [e.bufs EXCEPT ![Len(in) + 1].vnet = NoGSO] ELSE e.bufs
    /\ toWrite' = IF e.res = "coalesced" THEN toWrite ELSE Append(toWrite, Len(in) + 1)
    /\ IF q = "tcp" THEN tcp' = e.table /\ udp' = udp ELSE tcp' = tcp /\ udp' = e.table

\* The elements of a longer sequence.
LEMMA AppendSet ==
    ASSUME NEW X, NEW s \in Seq(X), NEW x
    PROVE  ToSet(Append(s, x)) = ToSet(s) \cup {x}
<1>1. Len(s) \in Nat /\ DOMAIN s = 1..Len(s) /\ DOMAIN Append(s, x) = 1..(Len(s) + 1) OBVIOUS
<1>2. Append(s, x)[Len(s) + 1] = x /\ \A k \in 1..Len(s) : Append(s, x)[k] = s[k] OBVIOUS
<1>3. \A k \in 1..(Len(s) + 1) : k = Len(s) + 1 \/ k \in 1..Len(s) BY <1>1
<1>4. Len(s) + 1 \in 1..(Len(s) + 1) /\ \A k \in 1..Len(s) : k \in 1..(Len(s) + 1) BY <1>1
<1> DEFINE t == Append(s, x)
<1> HIDE DEF t
<1>5. ToSet(t) \subseteq ToSet(s) \cup {x} BY <1>1, <1>2, <1>3 DEF ToSet, t
<1>6. ToSet(s) \subseteq ToSet(t)
  <2> SUFFICES ASSUME NEW y \in ToSet(s) PROVE y \in ToSet(t) OBVIOUS
  <2>1. PICK k \in DOMAIN s : y = s[k] BY DEF ToSet
  <2>2. k \in DOMAIN t /\ t[k] = y BY <1>1, <1>2, <1>4, <2>1 DEF t
  <2> QED BY <2>2 DEF ToSet
<1>7. x \in ToSet(t)
  <2>1. Len(s) + 1 \in DOMAIN t /\ t[Len(s) + 1] = x BY <1>1, <1>2, <1>4 DEF t
  <2> QED BY <2>1 DEF ToSet
<1> QED BY <1>5, <1>6, <1>7 DEF t

\* The flow's last item is the one the packet is in.
LEMMA UdpTail ==
    ASSUME NEW lists, NEW p, Setup(lists, p), UdpFull
    PROVE  UdpItems(udpGRO(Append(bufs, Buffer(p, Len(in) + 1)), p, Len(in) + 1), p, Len(in) + 1)
<1> DEFINE i == Len(in) + 1
           a == Append(bufs, Buffer(p, i))
           e == udpGRO(a, p, i)
           items == udp.items[p.flow]
<1>1. CASE ~p.valid \/ p.len < 1 BY <1>1 DEF udpGRO, Noop, UdpItems
<1>2. CASE ~(~p.valid \/ p.len < 1) /\ p.flow \notin DOMAIN udp.items
  <2> DEFINE new == newUDPItem(p, i, FALSE)
  <2>1. e = [bufs |-> a, table |-> insert(udp, p.flow, new), res |-> "insert"] BY <1>2 DEF udpGRO
  <2>2. new.bufsIndex = i BY DEF newUDPItem
  <2> HIDE DEF e, new
  <2>3. e.res = "insert" /\ e.table = insert(udp, p.flow, new) BY <2>1
  <2>4. insert(udp, p.flow, new) = With(udp, p.flow, <<new>>) BY <1>2 DEF insert
  <2>5. <<new>> # <<>> /\ Last(<<new>>) = new BY DEF Last
  <2>6. UdpItems(e, p, i) BY <2>2, <2>3, <2>4, <2>5 DEF UdpItems
  <2> QED BY <2>6 DEF e
<1>3. CASE ~(~p.valid \/ p.len < 1) /\ p.flow \in DOMAIN udp.items
  <2>1. items \in Seq(ItemsOf("udp"))
    <3>1. "udp" \in Protos /\ Tables["udp"] = udp.items BY DEF Protos, Tables
    <3> QED BY <1>3, <3>1 DEF Setup, Groups, TablesOK, ItemsOK
  <2>2. items # <<>> BY <1>3 DEF UdpFull
  <2> DEFINE item == Last(items)
             n == Len(items)
             tried == UdpTried(a, p, item)
             new == newUDPItem(p, i, tried = "pktInvalidCSum")
             up == [items EXCEPT ![n].numMerged = @ + 1]
             more == Append(items, new)
  <2>3. e = IF tried = "success"
            THEN [bufs |-> [a EXCEPT ![item.bufsIndex].payload = @ \o a[i].payload],
                  table |-> With(udp, p.flow, up), res |-> "coalesced"]
            ELSE [bufs |-> a, table |-> insert(udp, p.flow, new), res |-> "insert"]
    BY <1>3 DEF udpGRO, UdpTried
  <2>4. \/ e.res = "coalesced" /\ e.table = With(udp, p.flow, up)
        \/ e.res = "insert" /\ e.table = insert(udp, p.flow, new)
    <3> HIDE DEF e, tried, new, up, items, item
    <3> QED BY <2>3
  <2>5. insert(udp, p.flow, new) = With(udp, p.flow, more)
    <3> HIDE DEF new
    <3> QED BY <1>3 DEF insert
  <2>6. new.bufsIndex = i BY DEF newUDPItem
  <2>7. n \in Nat \ {0} /\ DOMAIN items = 1..n /\ item = items[n] /\ item \in ItemsOf("udp")
    <3> HIDE DEF items
    <3> QED BY <2>1, <2>2 DEF Last
  <2>8. more # <<>> /\ Last(more) = new
    <3> HIDE DEF new, items
    <3>1. Len(more) = n + 1 /\ more[n + 1] = new /\ n \in Nat BY <2>1
    <3> HIDE DEF more, n
    <3> QED BY <3>1 DEF Last
  <2>9. up # <<>> /\ Last(up).bufsIndex = item.bufsIndex
    <3> DEFINE item2 == [item EXCEPT !.numMerged = @ + 1]
    <3>1. up = [items EXCEPT ![n] = item2] BY <2>7
    <3>2. item2.bufsIndex = item.bufsIndex
      <4> HIDE DEF item
      <4> QED BY <2>7 DEF ItemsOf
    <3> HIDE DEF item2, up, items, item
    <3>3. DOMAIN up = 1..n /\ up[n] = item2
      <4>1. n \in DOMAIN items BY <2>7
      <4> HIDE DEF n
      <4> QED BY <2>7, <3>1, <4>1
    <3>4. Len(up) = n
      <4>1. up = [k \in 1..n |-> up[k]]
        <5> HIDE DEF n
        <5> QED BY <2>7, <3>1
      <4> HIDE DEF n
      <4> QED BY <2>7, <4>1
    <3> HIDE DEF n
    <3>5. up # <<>> BY <2>7, <3>4
    <3> QED BY <3>2, <3>3, <3>4, <3>5 DEF Last
  <2> HIDE DEF e, up, more, new
  <2>10. UdpItems(e, p, i) BY <1>3, <2>4, <2>5, <2>6, <2>8, <2>9 DEF UdpItems
  <2> QED BY <2>10 DEF e
<1> QED BY <1>1, <1>2, <1>3

\* Packet i is where its evaluation put it, alone or in w's list; the others are where they were.
Places(lists, lists2, i, w) ==
    \A v \in DOMAIN lists2 : \A y \in DOMAIN lists2[v] :
       \/ /\ lists2[v][y] # i /\ v \in DOMAIN lists
          /\ \E x \in DOMAIN lists[v] : lists[v][x] = lists2[v][y]
       \/ lists2[v][y] = i /\ v = IF lists2 = Own(lists, i) THEN i ELSE w

\* Where the packets are after one more.
LEMMA Placement ==
    ASSUME NEW pk \in Seq(AllPackets), NEW p, NEW lists, ListsOK(lists, pk), NEW lists2, NEW q, NEW w,
           lists2 = Own(lists, Len(pk) + 1) \/ Merged(lists, lists2, Len(pk) + 1, p, q, w)
    PROVE  Places(lists, lists2, Len(pk) + 1, w)
<1> SUFFICES ASSUME NEW v \in DOMAIN lists2, NEW y \in DOMAIN lists2[v]
             PROVE  \/ /\ lists2[v][y] # Len(pk) + 1 /\ v \in DOMAIN lists
                       /\ \E x \in DOMAIN lists[v] : lists[v][x] = lists2[v][y]
                    \/ /\ lists2[v][y] = Len(pk) + 1
                       /\ v = IF lists2 = Own(lists, Len(pk) + 1) THEN Len(pk) + 1 ELSE w
  BY DEF Places
<1> DEFINE n == Len(pk)
           i == n + 1
           j == lists2[v][y]
<1>1. /\ n \in Nat /\ i \notin 1..n
      /\ \A u \in DOMAIN lists : /\ u \in 1..n /\ lists[u] \in Seq(1..n)
                                 /\ \A x \in DOMAIN lists[u] : lists[u][x] \in 1..n
  BY ListsType
<1> HIDE DEF n
<1>2. CASE lists2 = Own(lists, i)
  <2>1. DOMAIN lists2 = DOMAIN lists \cup {i} /\ lists2[i] = <<i>> /\ \A u \in DOMAIN lists : lists2[u] = lists[u]
    BY <1>1, <1>2 DEF Own
  <2>2. CASE v = i
    <3>1. j = i
      <4>1. DOMAIN <<i>> = {1} /\ <<i>>[1] = i OBVIOUS
      <4> QED BY <2>1, <2>2, <4>1
    <3> QED BY <1>2, <2>2, <3>1 DEF n
  <2>3. CASE v \in DOMAIN lists
    <3>1. j = lists[v][y] /\ y \in DOMAIN lists[v] /\ j # i BY <1>1, <2>1, <2>3
    <3> QED BY <2>3, <3>1 DEF n
  <2> QED BY <2>1, <2>2, <2>3
<1>3. CASE lists2 # Own(lists, i)
  <2>1. Merged(lists, lists2, i, p, q, w) BY <1>3 DEF n
  <2>2. PICK l : Beside(l, lists[w], i, q) /\ lists2 = Joined(lists, w, l) BY <2>1 DEF Merged
  <2>3. w \in DOMAIN lists BY <2>1 DEF Merged
  <2>4. DOMAIN lists2 = DOMAIN lists /\ lists2[w] = l /\ \A u \in DOMAIN lists \ {w} : lists2[u] = lists[u]
    BY <2>2, <2>3 DEF Joined
  <2>5. CASE v = w
    <3>1. j # i => \E x \in DOMAIN lists[w] : lists[w][x] = j
      <4>1. y \in DOMAIN l /\ j = l[y] BY <2>4, <2>5
      <4>2. \E d \in {0, 1} : \A x \in DOMAIN l : l[x] # n + 1 => x - d \in DOMAIN lists[w] /\ l[x] = lists[w][x - d]
        BY <1>1, <2>2, <2>3, BesidePlaces
      <4> QED BY <4>1, <4>2
    <3>2. CASE j = i BY <1>3, <2>5, <3>2 DEF n
    <3>3. CASE j # i BY <2>3, <2>5, <3>1, <3>3 DEF n
    <3> QED BY <3>2, <3>3
  <2>6. CASE v # w
    <3>1. v \in DOMAIN lists /\ j = lists[v][y] /\ y \in DOMAIN lists[v] BY <2>4, <2>6
    <3>2. j # i BY <1>1, <3>1
    <3> QED BY <3>1, <3>2 DEF n
  <2> QED BY <2>5, <2>6
<1> QED BY <1>2, <1>3

\* The last items stay last.
LEMMA LastStep ==
    ASSUME NEW pk \in Seq(AllPackets), NEW p, NEW lists, ListsOK(lists, pk), NEW lists2, NEW q, NEW w,
           lists2 = Own(lists, Len(pk) + 1) \/ Merged(lists, lists2, Len(pk) + 1, p, q, w),
           NEW t, UdpLast(lists, pk, t), NEW t2,
           \/ t2 = t /\ \A key : Len(pk) + 1 \notin Datagrams(Append(pk, p), key)
           \/ \E items :
                 /\ t2 = With(t, p.flow, items)
                 /\ \/ lists2 = Own(lists, Len(pk) + 1) /\ Last(items).bufsIndex = Len(pk) + 1
                    \/ /\ lists2 # Own(lists, Len(pk) + 1) /\ p.flow \in DOMAIN t.items
                       /\ Last(items).bufsIndex = w /\ w = Last(t.items[p.flow]).bufsIndex
    PROVE  UdpLast(lists2, Append(pk, p), t2)
<1> DEFINE n == Len(pk)
           i == n + 1
           pk2 == Append(pk, p)
<1>1. n \in Nat /\ \A u \in DOMAIN lists : u \in 1..n BY ListsType
<1> SUFFICES ASSUME NEW v \in DOMAIN lists2, NEW y \in DOMAIN lists2[v], NEW key \in DOMAIN t2.items,
                    lists2[v][y] \in Datagrams(pk2, key)
             PROVE  v <= Last(t2.items[key]).bufsIndex
  BY DEF UdpLast
<1> DEFINE j == lists2[v][y]
<1>2. \/ j # i /\ v \in DOMAIN lists /\ \E x \in DOMAIN lists[v] : lists[v][x] = j
      \/ j = i /\ v = IF lists2 = Own(lists, i) THEN i ELSE w
  <2>1. Places(lists, lists2, Len(pk) + 1, w) BY Placement
  <2> QED BY <2>1 DEF Places
<1>3. Datagrams(pk2, key) \ {i} = Datagrams(pk, key) /\ (i \in Datagrams(pk2, key) => p.flow = key) BY FlowGrows
<1>4. j # i => j \in Datagrams(pk, key) BY <1>3
<1>5. ASSUME j # i, key \in DOMAIN t.items PROVE v <= Last(t.items[key]).bufsIndex BY <1>2, <1>4, <1>5 DEF UdpLast
<1>6. CASE t2 = t /\ \A k : i \notin Datagrams(pk2, k) BY <1>5, <1>6
<1>7. ASSUME NEW items, t2 = With(t, p.flow, items),
             \/ lists2 = Own(lists, i) /\ Last(items).bufsIndex = i
             \/ /\ lists2 # Own(lists, i) /\ p.flow \in DOMAIN t.items
                /\ Last(items).bufsIndex = w /\ w = Last(t.items[p.flow]).bufsIndex
      PROVE  v <= Last(t2.items[key]).bufsIndex
  <2>1. t2.items = [k \in DOMAIN t.items \cup {p.flow} |-> IF k = p.flow THEN items ELSE t.items[k]]
    BY <1>7 DEF With
  <2>2. CASE key # p.flow
    <3>1. j # i BY <1>3, <2>2
    <3>2. key \in DOMAIN t.items /\ t2.items[key] = t.items[key] BY <2>1, <2>2
    <3> QED BY <1>5, <3>1, <3>2
  <2>3. CASE key = p.flow
    <3>1. t2.items[key] = items BY <2>1, <2>3
    <3>2. CASE lists2 = Own(lists, i) /\ Last(items).bufsIndex = i
      <4>1. v \in 1..n \/ v = i BY <1>1, <1>2, <3>2
      <4>2. v <= i BY <1>1, <4>1
      <4> QED BY <3>1, <3>2, <4>2
    <3>3. CASE /\ lists2 # Own(lists, i) /\ p.flow \in DOMAIN t.items
               /\ Last(items).bufsIndex = w /\ w = Last(t.items[p.flow]).bufsIndex
      <4>1. CASE j = i
        <5>1. v = w BY <1>2, <3>3, <4>1
        <5>2. w \in 1..n BY <1>1, <3>3 DEF Merged
        <5>3. v <= w BY <1>1, <5>1, <5>2
        <5> QED BY <3>1, <3>3, <5>3
      <4>2. CASE j # i BY <1>5, <2>3, <3>1, <3>3, <4>2
      <4> QED BY <4>1, <4>2
    <3> QED BY <1>7, <3>2, <3>3
  <2> QED BY <2>2, <2>3
<1> QED BY <1>6, <1>7

\* An evaluation's outcome is the next state's grouping.
LEMMA AppliedGroups ==
    ASSUME NEW lists, NEW p \in AllPackets, in \in Seq(AllPackets), Len(in) + 1 <= MaxBatch, Arranged(lists),
           NEW X, toWrite \in Seq(X), NEW q \in Protos, NEW e, Outcome(e, lists, p, q), Applied(e, q),
           in' = Append(in, p), mode' = mode,
           IF q = "udp" THEN mode = "tcp+udp" /\ UdpItems(e, p, Len(in) + 1) ELSE mode = "tcp+udp" => p.proto # "udp"
    PROVE  Grouped' /\ TableStep(p)
<1> DEFINE i == Len(in) + 1
           b2 == IF e.res = "noop" THEN [e.bufs EXCEPT ![i].vnet = NoGSO] ELSE e.bufs
<1>0. q = "tcp" \/ q = "udp" BY DEF Protos
<1>1. PICK lists2 :
         /\ Placed(e.res, lists, lists2, p, q)
         /\ DOMAIN lists2 = IF e.res = "coalesced" THEN DOMAIN lists ELSE DOMAIN lists \cup {i}
         /\ Groups(lists2, Append(in, p), b2, TablesWith(q, e.table))
  BY DEF Outcome
<1>2. bufs' = b2 BY DEF Applied
<1> HIDE DEF b2
<1>3. Tables' = TablesWith(q, e.table) BY <1>0 DEF Tables, TablesWith, Applied, Protos
<1>4. ToSet(toWrite)' = DOMAIN lists2
  <2>1. ToSet(Append(toWrite, i)) = ToSet(toWrite) \cup {i} BY AppendSet
  <2>2. toWrite' = IF e.res = "coalesced" THEN toWrite ELSE Append(toWrite, i) BY DEF Applied
  <2>3. DOMAIN lists = ToSet(toWrite) BY DEF Arranged
  <2> QED BY <1>1, <2>1, <2>2, <2>3
<1>5. Groups(lists2, in', bufs', Tables') BY <1>1, <1>2, <1>3
<1>6. Groups(lists, in, bufs, Tables) /\ ListsOK(lists, in) /\ FlowsOrdered(lists, in) BY DEF Arranged, Groups
<1>7. mode = "tcp+udp" => UdpLast(lists, in, udp) BY DEF Arranged
<1>8. PICK w : /\ e.res # "coalesced" => lists2 = Own(lists, i)
               /\ e.res = "coalesced" => /\ Merged(lists, lists2, i, p, q, w)
                                         /\ q = "udp" => w = Last(udp.items[p.flow]).bufsIndex
  BY <1>1 DEF Placed
<1>9. e.res = "coalesced" => lists2 # Own(lists, i)
  <2>1. DOMAIN Own(lists, i) = DOMAIN lists \cup {i} BY DEF Own
  <2>2. i \notin DOMAIN lists
    <3>1. i \notin 1..Len(in) /\ DOMAIN lists \subseteq 1..Len(in) BY <1>6, ListsType
    <3> QED BY <3>1
  <2> QED BY <1>1, <2>1, <2>2
<1>10. FlowsOrdered(lists2, Append(in, p))
  <2>1. ASSUME e.res = "coalesced", q = "udp", NEW v \in DOMAIN lists, NEW y \in DOMAIN lists[v],
               lists[v][y] \in Datagrams(in, p.flow)
        PROVE  v <= w
    <3>1. UdpLast(lists, in, udp) BY <1>7, <2>1
    <3>2. p.flow \in DOMAIN udp.items BY <2>1 DEF UdpItems
    <3>3. w = Last(udp.items[p.flow]).bufsIndex BY <1>8, <2>1
    <3> QED BY <2>1, <3>1, <3>2, <3>3 DEF UdpLast
  <2>2. \/ lists2 = Own(lists, i)
        \/ /\ Merged(lists, lists2, i, p, q, w)
           /\ q = "udp" => \A v \in DOMAIN lists : \A y \in DOMAIN lists[v] :
                             lists[v][y] \in Datagrams(in, p.flow) => v <= w
    BY <1>8, <2>1
  <2> DEFINE ts == Tables
             ts2 == TablesWith(q, e.table)
  <2> HIDE DEF ts, ts2
  <2>3. Groups(lists, in, bufs, ts) /\ Groups(lists2, Append(in, p), b2, ts2) BY <1>1, <1>6 DEF ts, ts2
  <2> QED BY <1>6, <2>2, <2>3, FlowStep
<1>11. ASSUME mode = "tcp+udp" PROVE UdpLast(lists2, Append(in, p), udp')
  <2>1. UdpLast(lists, in, udp) BY <1>7, <1>11
  <2>2. lists2 = Own(lists, i) \/ Merged(lists, lists2, i, p, q, w) BY <1>8
  <2>3. CASE q = "tcp"
    <3>1. udp' = udp BY <2>3 DEF Applied
    <3>2. p.proto # "udp" BY <1>11, <2>3
    <3>3. \A key : i \notin Datagrams(Append(in, p), key) BY <3>2, FlowGrows
    <3> QED BY <1>6, <2>1, <2>2, <3>1, <3>3, LastStep
  <2>4. CASE q = "udp"
    <3>1. udp' = e.table /\ UdpItems(e, p, i) BY <2>4 DEF Applied
    <3>2. CASE e.table = udp /\ (~p.valid \/ p.len < 1)
      <4>1. ASSUME NEW key PROVE i \notin Datagrams(Append(in, p), key)
        <5>1. Append(in, p)[i] = p BY AppendFacts
        <5>2. p.len \in Nat BY PacketType
        <5>3. ~(p.valid /\ p.len > 0) BY <3>2, <5>2
        <5> QED BY <5>1, <5>3 DEF Datagrams
      <4> QED BY <1>6, <2>1, <2>2, <3>1, <3>2, <4>1, LastStep
    <3>3. ASSUME NEW items, e.table = With(udp, p.flow, items),
                 \/ e.res = "insert" /\ Last(items).bufsIndex = i
                 \/ /\ e.res = "coalesced" /\ p.flow \in DOMAIN udp.items
                    /\ Last(items).bufsIndex = Last(udp.items[p.flow]).bufsIndex
          PROVE  UdpLast(lists2, Append(in, p), udp')
      <4>1. \/ lists2 = Own(lists, i) /\ Last(items).bufsIndex = i
            \/ /\ lists2 # Own(lists, i) /\ p.flow \in DOMAIN udp.items
               /\ Last(items).bufsIndex = w /\ w = Last(udp.items[p.flow]).bufsIndex
        BY <1>8, <1>9, <2>4, <3>3
      <4> DEFINE t == udp
                 t2 == udp'
      <4>2. t2 = With(t, p.flow, items) BY <3>1, <3>3
      <4>3. UdpLast(lists, in, t) BY <2>1
      <4>4. \/ lists2 = Own(lists, i) /\ Last(items).bufsIndex = i
            \/ /\ lists2 # Own(lists, i) /\ p.flow \in DOMAIN t.items
               /\ Last(items).bufsIndex = w /\ w = Last(t.items[p.flow]).bufsIndex
        BY <4>1
      <4> HIDE DEF t, t2
      <4>5. UdpLast(lists2, Append(in, p), t2) BY <1>6, <2>2, <4>2, <4>3, <4>4, LastStep
      <4> QED BY <4>5 DEF t2
    <3> QED BY <3>1, <3>2, <3>3 DEF UdpItems
  <2> QED BY <1>0, <2>3, <2>4
<1>12. Arranged(lists2)' BY <1>4, <1>5, <1>10, <1>11 DEF Arranged
<1>13. Grouped' BY <1>12 DEF Grouped
<1>14. TableStep(p) BY <1>0 DEF TableStep, Applied, Outcome, TableOf
<1> QED BY <1>13, <1>14

\* An iteration of handleGRO's loop keeps every packet in one buffer.
LEMMA EvaluateGroups ==
    ASSUME mode \in Modes, in \in Seq(AllPackets), NEW X, toWrite \in Seq(X), Grouped, UdpFull,
           NEW p \in Packets[mode], Evaluate(p)
    PROVE  Grouped' /\ TableStep(p) /\ UdpFull'
<1>1. PICK lists : Arranged(lists) BY DEF Grouped
<1>2. p \in AllPackets BY DEF AllPackets
<1>3. Setup(lists, p) BY <1>1, <1>2 DEF Setup, Arranged
<1>4. Len(bufs) = Len(in) BY <1>1 DEF Arranged, Groups, BuffersOK
<1> DEFINE i == Len(in) + 1
           a == Append(bufs, Buffer(p, i))
           e == Evaluated(a, p, i)
<1>5. "tcp" \in Protos /\ "udp" \in Protos /\ TableOf("tcp") = tcp BY DEF Protos, TableOf
<1>6. in' = Append(in, p) /\ mode' = mode /\ Len(in) + 1 <= MaxBatch
  <2>1. Len(in) \in Nat /\ MaxBatch \in Nat BY GROAssumption
  <2> QED BY <2>1 DEF Evaluate
<1>7. /\ mode = "none" => /\ bufs' = [a EXCEPT ![i].vnet = NoGSO]
                          /\ toWrite' = Append(toWrite, i) /\ tcp' = tcp /\ udp' = udp
      /\ mode # "none" =>
           /\ bufs' = IF e.res = "noop" THEN [e.bufs EXCEPT ![i].vnet = NoGSO] ELSE e.bufs
           /\ toWrite' = IF e.res = "coalesced" THEN toWrite ELSE Append(toWrite, i)
           /\ tcp' = IF p.proto = "tcp" THEN e.table ELSE tcp
           /\ udp' = IF p.proto = "udp" /\ packetIsGROCandidate(p) THEN e.table ELSE udp
  BY <1>4 DEF Evaluate, table
<1> DEFINE f == Noop(a, tcp)
<1>8. f.res = "noop" /\ f.bufs = a /\ f.table = tcp BY DEF Noop
<1>9. Outcome(f, lists, p, "tcp") BY <1>3, <1>5, NoopOutcome
<1>10. CASE mode = "none" \/ ~packetIsGROCandidate(p)
  <2>1. mode # "none" => e = f /\ p.proto # "tcp" BY <1>10 DEF Evaluated, packetIsGROCandidate
  <2> HIDE DEF e, f
  <2>2. Applied(f, "tcp") BY <1>7, <1>8, <1>10, <2>1 DEF Applied
  <2>3. mode = "tcp+udp" => p.proto # "udp" BY <1>10 DEF packetIsGROCandidate
  <2>4. Grouped' /\ TableStep(p) BY <1>1, <1>2, <1>5, <1>6, <1>9, <2>2, <2>3, AppliedGroups
  <2>5. UdpFull' BY <2>2 DEF Applied, UdpFull
  <2> QED BY <2>4, <2>5
<1>11. CASE mode # "none" /\ packetIsGROCandidate(p) /\ p.proto = "tcp"
  <2>1. e = tcpGRO(a, p, i) BY <1>11 DEF Evaluated
  <2>2. Outcome(e, lists, p, "tcp") BY <1>3, <1>11, <2>1, TcpOutcome
  <2> HIDE DEF e
  <2>3. Applied(e, "tcp") BY <1>7, <1>11 DEF Applied
  <2>4. Grouped' /\ TableStep(p) BY <1>1, <1>2, <1>5, <1>6, <1>11, <2>2, <2>3, AppliedGroups
  <2>5. UdpFull' BY <2>3 DEF Applied, UdpFull
  <2> QED BY <2>4, <2>5
<1>12. CASE mode # "none" /\ packetIsGROCandidate(p) /\ p.proto # "tcp"
  <2>0. p.proto = "udp" BY <1>12 DEF packetIsGROCandidate
  <2>1. e = udpGRO(a, p, i) BY <1>12 DEF Evaluated
  <2>2. Outcome(e, lists, p, "udp") BY <1>3, <2>0, <2>1, UdpOutcome DEF UdpFull
  <2>3. UdpItems(e, p, i) BY <1>3, <2>1, UdpTail
  <2>4. mode = "tcp+udp" BY <1>12 DEF packetIsGROCandidate
  <2> HIDE DEF e
  <2>5. Applied(e, "udp") BY <1>7, <1>12, <2>0 DEF Applied
  <2>6. Grouped' /\ TableStep(p) BY <1>1, <1>2, <1>5, <1>6, <2>2, <2>3, <2>4, <2>5, AppliedGroups
  <2>7. UdpFull'
    <3>1. udp' = e.table BY <2>5 DEF Applied
    <3>2. udp' = udp \/ \E new : new # <<>> /\ udp' = With(udp, p.flow, new) BY <2>3, <3>1 DEF UdpItems
    <3>3. ASSUME NEW new, new # <<>>, udp' = With(udp, p.flow, new) PROVE UdpFull'
      <4>1. udp'.items = [k \in DOMAIN udp.items \cup {p.flow} |-> IF k = p.flow THEN new ELSE udp.items[k]]
        BY <3>3 DEF With
      <4> QED BY <3>3, <4>1 DEF UdpFull
    <3> QED BY <3>2, <3>3 DEF UdpFull
  <2> QED BY <2>6, <2>7
<1> QED BY <1>10, <1>11, <1>12

-----------------------------------------------------------------------------
(* FlattenSeq: the concatenation of sequences.                             *)

\* f[k] is the concatenation of the first k sequences of s.
Concats(f, s, n) == f = [k \in 1..n |-> IF k = 1 THEN s[k] ELSE f[k - 1] \o s[k]]

\* There is such a function.
LEMMA ConcatsExist ==
    ASSUME NEW s
    PROVE  \A n \in Nat : \E f : Concats(f, s, n)
<1> DEFINE Bad == {n \in Nat : ~\E f : Concats(f, s, n)}
<1> SUFFICES ASSUME Bad # {} PROVE FALSE OBVIOUS
<1>1. PICK n \in Bad : \A m \in Bad : n <= m
  <2>1. Bad \in SUBSET Nat OBVIOUS
  <2> HIDE DEF Bad
  <2> QED BY <2>1, Least
<1>2. n # 0
  <2>1. Concats(<<>>, s, 0) BY DEF Concats
  <2> QED BY <2>1
<1>3. n \in Nat /\ n - 1 \in Nat /\ n - 1 < n BY <1>2
<1>4. PICK f : Concats(f, s, n - 1) BY <1>1, <1>3
<1> DEFINE g == [k \in 1..n |-> IF k \in 1..(n - 1) THEN f[k] ELSE IF k = 1 THEN s[k] ELSE f[k - 1] \o s[k]]
<1>5. \A k \in 1..n : g[k] = IF k = 1 THEN s[k] ELSE g[k - 1] \o s[k]
  <2> TAKE k \in 1..n
  <2>1. CASE k = 1
    <3>1. CASE 1 \in 1..(n - 1) BY <1>4, <2>1, <3>1 DEF Concats
    <3>2. CASE 1 \notin 1..(n - 1) BY <2>1, <3>2
    <3> QED BY <3>1, <3>2
  <2>2. CASE k # 1
    <3>1. k - 1 \in 1..(n - 1) /\ k - 1 \in 1..n BY <1>3, <2>2
    <3>2. g[k - 1] = f[k - 1] BY <3>1
    <3>3. CASE k \in 1..(n - 1)
      <4>1. f[k] = f[k - 1] \o s[k] BY <1>4, <2>2, <3>3 DEF Concats
      <4> QED BY <2>2, <3>2, <3>3, <4>1
    <3>4. CASE k \notin 1..(n - 1) BY <2>2, <3>2, <3>4
    <3> QED BY <3>3, <3>4
  <2> QED BY <2>1, <2>2
<1>6. g = [k \in 1..n |-> g[k]] OBVIOUS
<1> HIDE DEF g
<1>7. Concats(g, s, n) BY <1>5, <1>6 DEF Concats
<1> QED BY <1>7

\* FlattenSeq by its concatenations.
LEMMA FlattenFacts ==
    ASSUME NEW X, NEW s \in Seq(X), Len(s) # 0
    PROVE  \E f : Concats(f, s, Len(s)) /\ FlattenSeq(s) = f[Len(s)]
<1> DEFINE f == CHOOSE h : Concats(h, s, Len(s))
<1>0. \E h : Concats(h, s, Len(s))
  <2>1. Len(s) \in Nat OBVIOUS
  <2> QED BY <2>1, ConcatsExist
<1>1. Concats(f, s, Len(s)) BY <1>0
<1>2. FlattenSeq(s) = f[Len(s)] BY DEF FlattenSeq, Concats
<1> QED BY <1>1, <1>2

\* The elements of the sequences of s are all different.
Distinct(s) ==
    \A k, l \in DOMAIN s : \A x \in DOMAIN s[k], y \in DOMAIN s[l] : s[k][x] = s[l][y] => k = l /\ x = y

\* t has the elements of the first n sequences of s in their order.
InTurn(t, s, n) ==
    \A m, l \in DOMAIN t : m < l =>
        \E k, h \in 1..n : \E x \in DOMAIN s[k], y \in DOMAIN s[h] :
           t[m] = s[k][x] /\ t[l] = s[h][y] /\ Before(k, x, h, y)

\* t has the elements of the first n sequences of s, each one once, in their order.
FlatOf(t, s, n) ==
    /\ \A m \in DOMAIN t : \E k \in 1..n : \E x \in DOMAIN s[k] : t[m] = s[k][x]
    /\ \A k \in 1..n : \A x \in DOMAIN s[k] : \E m \in DOMAIN t : t[m] = s[k][x]
    /\ \A m, l \in DOMAIN t : t[m] = t[l] => m = l
    /\ InTurn(t, s, n)

\* One more sequence is concatenated.
LEMMA FlatStep ==
    ASSUME NEW S, NEW s \in Seq(Seq(S)), Distinct(s), NEW n \in Nat, n + 1 <= Len(s), NEW t \in Seq(S), FlatOf(t, s, n)
    PROVE  t \o s[n + 1] \in Seq(S) /\ FlatOf(t \o s[n + 1], s, n + 1)
<1> DEFINE u == s[n + 1]
           c == t \o u
           a == Len(t)
           b == Len(u)
<1>1. n + 1 \in DOMAIN s /\ DOMAIN s = 1..Len(s) /\ Len(s) \in Nat OBVIOUS
<1>2. u \in Seq(S) BY <1>1
<1>3. \A k \in 1..n : k \in DOMAIN s /\ k # n + 1 /\ k \in 1..(n + 1) BY <1>1
<1>4. n + 1 \in 1..(n + 1) /\ \A k \in 1..(n + 1) : k = n + 1 \/ k \in 1..n OBVIOUS
<1>5. a \in Nat /\ b \in Nat /\ DOMAIN t = 1..a /\ DOMAIN u = 1..b BY <1>2
<1>6. /\ c \in Seq(S) /\ DOMAIN c = 1..(a + b) /\ (\A m \in 1..a : c[m] = t[m])
      /\ \A x \in 1..b : c[a + x] = u[x]
  <2> HIDE DEF u
  <2>1. c \in Seq(S) /\ Len(c) = a + b BY <1>2
  <2>2. \A m \in 1..a : c[m] = t[m] BY <1>2
  <2>3. \A x \in 1..b : c[a + x] = u[x] BY <1>2
  <2> QED BY <1>5, <2>1, <2>2, <2>3
<1> HIDE DEF u, c, a, b
<1>7. \A m \in 1..(a + b) : m \in 1..a \/ (m - a \in 1..b /\ m = a + (m - a)) BY ONLY <1>5
<1>8. (\A m \in 1..a : m \in 1..(a + b)) /\ \A x \in 1..b : a + x \in 1..(a + b) BY ONLY <1>5
<1>9. \A m \in 1..(a + b) : m \in 1..a \/ \E x \in 1..b : m = a + x BY <1>7
<1>10. \A m \in DOMAIN c : \E k \in 1..(n + 1) : \E x \in DOMAIN s[k] : c[m] = s[k][x]
  <2> TAKE m \in DOMAIN c
  <2>1. CASE m \in 1..a
    <3>1. PICK k \in 1..n : \E x \in DOMAIN s[k] : t[m] = s[k][x] BY <1>5, <2>1 DEF FlatOf
    <3> QED BY <1>3, <1>6, <2>1, <3>1
  <2>2. CASE \E x \in 1..b : m = a + x BY <1>4, <1>5, <1>6, <2>2 DEF u
  <2> QED BY <1>6, <1>9, <2>1, <2>2
<1>11. ASSUME NEW k \in 1..(n + 1), NEW x \in DOMAIN s[k] PROVE \E m \in DOMAIN c : c[m] = s[k][x]
  <2>1. CASE k \in 1..n
    <3>1. PICK m \in DOMAIN t : t[m] = s[k][x] BY <2>1 DEF FlatOf
    <3> QED BY <1>5, <1>6, <1>8, <3>1
  <2>2. CASE k = n + 1
    <3>1. x \in 1..b /\ s[k][x] = u[x] BY <1>5, <2>2 DEF u
    <3> QED BY <1>6, <1>8, <3>1
  <2> QED BY <1>4, <2>1, <2>2
<1>12. \A m \in 1..a : \A x \in 1..b : t[m] # u[x]
  <2> TAKE m \in 1..a
  <2> TAKE x \in 1..b
  <2>1. PICK k \in 1..n : \E y \in DOMAIN s[k] : t[m] = s[k][y] BY <1>5 DEF FlatOf
  <2>2. PICK y \in DOMAIN s[k] : t[m] = s[k][y] BY <2>1
  <2>3. x \in DOMAIN s[n + 1] /\ u[x] = s[n + 1][x] BY <1>5 DEF u
  <2>4. k \in DOMAIN s /\ k # n + 1 /\ n + 1 \in DOMAIN s BY ONLY <1>1, <1>3, k \in 1..n
  <2> QED BY ONLY Distinct(s), <2>2, <2>3, <2>4, y \in DOMAIN s[k] DEF Distinct
<1>13. ASSUME NEW x \in 1..b, NEW y \in 1..b, u[x] = u[y] PROVE x = y
  <2>1. x \in DOMAIN u /\ y \in DOMAIN u BY <1>5
  <2>2. \A k \in DOMAIN s : \A x1, y1 \in DOMAIN s[k] : s[k][x1] = s[k][y1] => x1 = y1
    BY ONLY Zenon, Distinct(s) DEF Distinct
  <2>3. \A x1, y1 \in DOMAIN u : u[x1] = u[y1] => x1 = y1 BY ONLY <1>1, <2>2 DEF u
  <2> QED BY ONLY <1>13, <2>1, <2>3
<1>14. ASSUME NEW m \in DOMAIN c, NEW l \in DOMAIN c, c[m] = c[l] PROVE m = l
  <2>1. CASE m \in 1..a /\ l \in 1..a BY <1>5, <1>6, <1>14, <2>1 DEF FlatOf
  <2>2. CASE m \in 1..a /\ \E x \in 1..b : l = a + x
    <3>1. PICK x \in 1..b : l = a + x BY <2>2
    <3>2. c[m] = t[m] /\ c[l] = u[x] BY <1>6, <2>2, <3>1
    <3> QED BY <1>12, <1>14, <2>2, <3>2
  <2>3. CASE l \in 1..a /\ \E x \in 1..b : m = a + x
    <3>1. PICK x \in 1..b : m = a + x BY <2>3
    <3>2. c[l] = t[l] /\ c[m] = u[x] BY <1>6, <2>3, <3>1
    <3> QED BY <1>12, <1>14, <2>3, <3>2
  <2>4. CASE (\E x \in 1..b : m = a + x) /\ (\E x \in 1..b : l = a + x)
    <3>1. PICK x \in 1..b : m = a + x BY <2>4
    <3>2. PICK y \in 1..b : l = a + y BY <2>4
    <3>3. c[m] = u[x] /\ c[l] = u[y] BY <1>6, <3>1, <3>2
    <3> QED BY <1>13, <1>14, <3>1, <3>2, <3>3
  <2> QED BY <1>6, <1>9, <2>1, <2>2, <2>3, <2>4
<1>15. ASSUME NEW m \in DOMAIN c, NEW l \in DOMAIN c, m < l
       PROVE  \E k, h \in 1..(n + 1) : \E x \in DOMAIN s[k], y \in DOMAIN s[h] :
                 c[m] = s[k][x] /\ c[l] = s[h][y] /\ Before(k, x, h, y)
  <2>1. CASE m \in 1..a /\ l \in 1..a
    <3>1. PICK k \in 1..n, h \in 1..n : \E x \in DOMAIN s[k], y \in DOMAIN s[h] :
             t[m] = s[k][x] /\ t[l] = s[h][y] /\ Before(k, x, h, y)
      <4>1. InTurn(t, s, n) BY DEF FlatOf
      <4>2. m \in DOMAIN t /\ l \in DOMAIN t BY <1>5, <2>1
      <4> QED BY ONLY Zenon, <1>15, <4>1, <4>2 DEF InTurn
    <3>2. k \in 1..(n + 1) /\ h \in 1..(n + 1) /\ c[m] = t[m] /\ c[l] = t[l] BY <1>3, <1>6, <2>1
    <3> QED BY <3>1, <3>2
  <2>2. CASE m \in 1..a /\ \E y \in 1..b : l = a + y
    <3>1. PICK k \in 1..n : \E x \in DOMAIN s[k] : t[m] = s[k][x] BY <1>5, <2>2 DEF FlatOf
    <3>2. PICK y \in 1..b : l = a + y BY <2>2
    <3>3. y \in DOMAIN s[n + 1] /\ c[l] = s[n + 1][y] /\ c[m] = t[m] BY <1>5, <1>6, <2>2, <3>2 DEF u
    <3>4. k \in 1..(n + 1) /\ n + 1 \in 1..(n + 1) /\ k < n + 1 BY <1>3, <1>4
    <3> QED BY <3>1, <3>3, <3>4 DEF Before
  <2>3. CASE l \in 1..a /\ \E x \in 1..b : m = a + x BY <1>5, <1>15, <2>3
  <2>4. CASE (\E x \in 1..b : m = a + x) /\ (\E y \in 1..b : l = a + y)
    <3>1. PICK x \in 1..b : m = a + x BY <2>4
    <3>2. PICK y \in 1..b : l = a + y BY <2>4
    <3>3. x < y BY <1>5, <1>15, <3>1, <3>2
    <3>4. x \in DOMAIN s[n + 1] /\ c[m] = s[n + 1][x] /\ y \in DOMAIN s[n + 1] /\ c[l] = s[n + 1][y]
      BY <1>5, <1>6, <3>1, <3>2 DEF u
    <3> QED BY <1>4, <3>3, <3>4 DEF Before
  <2> QED BY <1>6, <1>9, <2>1, <2>2, <2>3, <2>4
<1>16. FlatOf(c, s, n + 1) BY <1>10, <1>11, <1>14, <1>15 DEF FlatOf, InTurn
<1> QED BY <1>6, <1>16 DEF c, u

\* FlattenSeq keeps every element of the sequences, once.
LEMMA Flat ==
    ASSUME NEW S, NEW s \in Seq(Seq(S)), Distinct(s)
    PROVE  FlattenSeq(s) \in Seq(S) /\ FlatOf(FlattenSeq(s), s, Len(s))
<1>0. Len(s) \in Nat /\ DOMAIN s = 1..Len(s) OBVIOUS
<1>1. CASE Len(s) = 0
  <2>1. FlattenSeq(s) = <<>>
    <3>1. s = <<>> BY <1>1
    <3> QED BY <1>1, <3>1 DEF FlattenSeq
  <2>2. FlatOf(<<>>, s, 0) BY DEF FlatOf, InTurn
  <2> QED BY <1>1, <2>1, <2>2
<1>2. CASE Len(s) # 0
  <2>1. PICK f : Concats(f, s, Len(s)) /\ FlattenSeq(s) = f[Len(s)] BY <1>2, FlattenFacts
  <2> DEFINE Bad == {n \in Nat : n \in 1..Len(s) /\ ~(f[n] \in Seq(S) /\ FlatOf(f[n], s, n))}
  <2>2. Bad = {}
    <3> SUFFICES ASSUME Bad # {} PROVE FALSE OBVIOUS
    <3>1. PICK n \in Bad : \A m \in Bad : n <= m
      <4>1. Bad \in SUBSET Nat OBVIOUS
      <4> HIDE DEF Bad
      <4> QED BY <4>1, Least
    <3>2. n \in 1..Len(s) /\ n \in Nat /\ ~(f[n] \in Seq(S) /\ FlatOf(f[n], s, n)) OBVIOUS
    <3>3. CASE n = 1
      <4>1. f[1] = s[1] /\ 1 \in DOMAIN s BY <1>0, <2>1, <3>2, <3>3 DEF Concats
      <4>2. s[1] \in Seq(S) BY <4>1
      <4>3. FlatOf(s[1], s, 1)
        <5>1. 1 \in 1..1 /\ \A k \in 1..1 : k = 1 OBVIOUS
        <5>2. \A m, l \in DOMAIN s[1] : m < l =>
                 \E k, h \in 1..1 : \E x \in DOMAIN s[k], y \in DOMAIN s[h] :
                    s[1][m] = s[k][x] /\ s[1][l] = s[h][y] /\ Before(k, x, h, y)
          BY <5>1 DEF Before
        <5>3. InTurn(s[1], s, 1) BY <5>2 DEF InTurn
        <5> QED BY <4>1, <5>1, <5>3 DEF FlatOf, Distinct
      <4> QED BY <3>2, <3>3, <4>1, <4>2, <4>3
    <3>4. CASE n # 1
      <4>1. n - 1 \in Nat /\ n - 1 \in 1..Len(s) /\ n - 1 < n /\ (n - 1) + 1 = n /\ n <= Len(s) BY <1>0, <3>2, <3>4
      <4>2. f[n - 1] \in Seq(S) /\ FlatOf(f[n - 1], s, n - 1) BY <3>1, <4>1
      <4>3. f[n] = f[n - 1] \o s[n] BY <2>1, <3>2, <3>4 DEF Concats
      <4> DEFINE m == n - 1
      <4>4. f[m] \o s[m + 1] \in Seq(S) /\ FlatOf(f[m] \o s[m + 1], s, m + 1)
        <5>1. m \in Nat /\ m + 1 <= Len(s) /\ f[m] \in Seq(S) /\ FlatOf(f[m], s, m) BY <4>1, <4>2
        <5> HIDE DEF m
        <5> QED BY <5>1, FlatStep
      <4> QED BY <3>2, <4>1, <4>3, <4>4
    <3> QED BY <3>3, <3>4
  <2>3. Len(s) \in 1..Len(s) BY <1>0, <1>2
  <2> QED BY <1>0, <2>1, <2>2, <2>3
<1> QED BY <1>1, <1>2

-----------------------------------------------------------------------------
(* The accounting, and what the kernel cuts out of the buffers.            *)

\* The virtio header of buffer b, filled in from its item.
Headed(b, item) ==
    IF item.numMerged > 0
      THEN [b EXCEPT !.vnet = item.gsoSize, !.csum = TRUE, !.len = Len(b.payload) % LenSpace]
      ELSE [b EXCEPT !.vnet = NoGSO]

\* The accounting of one table.
LEMMA Accounted ==
    ASSUME NEW bs, NEW t, NEW b \in DOMAIN bs
    PROVE  /\ (\A it \in Items(t) : it.bufsIndex # b) => CoalesceAccounting(bs, t)[b] = bs[b]
           /\ \A x \in Items(t) :
                x.bufsIndex = b /\ (\A it \in Items(t) : it.bufsIndex = b => it = x)
                => CoalesceAccounting(bs, t)[b] = Headed(bs[b], x)
<1> DEFINE S == Items(t)
           item == CHOOSE it \in S : it.bufsIndex = b
<1>1. CoalesceAccounting(bs, t)[b] = IF \E it \in S : it.bufsIndex = b THEN Headed(bs[b], item) ELSE bs[b]
  BY DEF CoalesceAccounting, Headed
<1> HIDE DEF S
<1>2. ASSUME NEW x \in S, x.bufsIndex = b, \A it \in S : it.bufsIndex = b => it = x
      PROVE  item = x
  <2>1. item \in S /\ item.bufsIndex = b BY <1>2
  <2> QED BY <1>2, <2>1
<1> HIDE DEF item
<1> QED BY <1>1, <1>2 DEF S

\* The items of a table.
LEMMA ItemSet ==
    ASSUME NEW t, NEW it
    PROVE  it \in Items(t) <=> \E key \in DOMAIN t.items : \E j \in DOMAIN t.items[key] : it = t.items[key][j]
BY DEF Items, ToSet

\* A buffer has one item.
LEMMA OneItem ==
    ASSUME NEW lists, NEW pk, NEW bs, NEW ts, TablesOK(lists, pk, bs, ts),
           NEW q1 \in Protos, NEW q2 \in Protos, NEW k1 \in DOMAIN ts[q1], NEW k2 \in DOMAIN ts[q2],
           NEW j1 \in DOMAIN ts[q1][k1], NEW j2 \in DOMAIN ts[q2][k2],
           ts[q1][k1][j1].bufsIndex = ts[q2][k2][j2].bufsIndex
    PROVE  q1 = q2 /\ k1 = k2 /\ j1 = j2
<1> DEFINE w == ts[q1][k1][j1].bufsIndex
<1>1. ItemsOK(ts[q1][k1], k1, q1, lists, pk, bs) /\ ItemsOK(ts[q2][k2], k2, q2, lists, pk, bs) BY DEF TablesOK
<1>2. bs[w].proto = q1 /\ bs[w].flow = k1 BY <1>1 DEF ItemsOK, Describes
<1>3. bs[w].proto = q2 /\ bs[w].flow = k2
  <2> DEFINE v == ts[q2][k2][j2].bufsIndex
  <2>1. bs[v].proto = q2 /\ bs[v].flow = k2 BY <1>1 DEF ItemsOK, Describes
  <2>2. w = v OBVIOUS
  <2> HIDE DEF w, v
  <2> QED BY ONLY <2>1, <2>2
<1>4. q1 = q2 /\ k1 = k2 BY <1>2, <1>3
<1> QED BY <1>1, <1>4 DEF ItemsOK

\* Buffer w as the accounting leaves it.
AccountedAs(w, c) ==
    \/ ~Indexed(Tables, w) /\ c = bufs[w]
    \/ \E q \in Protos : \E key \in DOMAIN Tables[q] : \E j \in DOMAIN Tables[q][key] :
          Tables[q][key][j].bufsIndex = w /\ c = Headed(bufs[w], Tables[q][key][j])

\* The accounting of both tables.
LEMMA AccountBuffers ==
    ASSUME NEW lists, Groups(lists, in, bufs, Tables), NEW w \in DOMAIN bufs
    PROVE  AccountedAs(w, CoalesceAccounting(CoalesceAccounting(bufs, tcp), udp)[w])
<1> DEFINE b1 == CoalesceAccounting(bufs, tcp)
           b2 == CoalesceAccounting(b1, udp)
<1>0. TablesOK(lists, in, bufs, Tables) BY DEF Groups
<1>1. /\ "tcp" \in Protos /\ "udp" \in Protos /\ Tables["tcp"] = tcp.items /\ Tables["udp"] = udp.items
      /\ \A q \in Protos : q = "tcp" \/ q = "udp"
  BY DEF Protos, Tables
<1>2. w \in DOMAIN b1 BY DEF CoalesceAccounting
<1> HIDE DEF b1
<1>3. /\ (\A it \in Items(tcp) : it.bufsIndex # w) => b1[w] = bufs[w]
      /\ \A x \in Items(tcp) : x.bufsIndex = w /\ (\A it \in Items(tcp) : it.bufsIndex = w => it = x)
                               => b1[w] = Headed(bufs[w], x)
  BY Accounted DEF b1
<1>4. /\ (\A it \in Items(udp) : it.bufsIndex # w) => b2[w] = b1[w]
      /\ \A x \in Items(udp) : x.bufsIndex = w /\ (\A it \in Items(udp) : it.bufsIndex = w => it = x)
                               => b2[w] = Headed(b1[w], x)
  BY <1>2, Accounted
<1> HIDE DEF b2
<1>5. CASE ~Indexed(Tables, w)
  <2>1. \A it \in Items(tcp) : it.bufsIndex # w BY <1>1, <1>5, ItemSet DEF Indexed
  <2>2. \A it \in Items(udp) : it.bufsIndex # w BY <1>1, <1>5, ItemSet DEF Indexed
  <2>3. b2[w] = bufs[w] BY ONLY <1>3, <1>4, <2>1, <2>2
  <2> QED BY <1>5, <2>3 DEF AccountedAs, b1, b2
<1>6. ASSUME NEW key \in DOMAIN tcp.items, NEW j \in DOMAIN tcp.items[key], tcp.items[key][j].bufsIndex = w
      PROVE  AccountedAs(w, b2[w])
  <2> DEFINE x == tcp.items[key][j]
  <2>1. x \in Items(tcp) BY ItemSet
  <2>2. \A it \in Items(tcp) : it.bufsIndex = w => it = x
    <3> SUFFICES ASSUME NEW it \in Items(tcp), it.bufsIndex = w PROVE it = x OBVIOUS
    <3>1. PICK k2 \in DOMAIN tcp.items : \E j2 \in DOMAIN tcp.items[k2] : it = tcp.items[k2][j2] BY ItemSet
    <3>2. PICK j2 \in DOMAIN tcp.items[k2] : it = tcp.items[k2][j2] BY <3>1
    <3>3. k2 = key /\ j2 = j BY <1>0, <1>1, <1>6, <3>2, OneItem
    <3> QED BY <3>2, <3>3
  <2>3. \A it \in Items(udp) : it.bufsIndex # w
    <3> SUFFICES ASSUME NEW it \in Items(udp), it.bufsIndex = w PROVE FALSE OBVIOUS
    <3>1. PICK k2 \in DOMAIN udp.items : \E j2 \in DOMAIN udp.items[k2] : it = udp.items[k2][j2] BY ItemSet
    <3>2. PICK j2 \in DOMAIN udp.items[k2] : it = udp.items[k2][j2] BY <3>1
    <3>3. "tcp" = "udp" BY <1>0, <1>1, <1>6, <3>2, OneItem
    <3> QED BY <3>3
  <2>4. x.bufsIndex = w BY <1>6
  <2> HIDE DEF x
  <2>5. b2[w] = Headed(bufs[w], x) BY ONLY <1>3, <1>4, <2>1, <2>2, <2>3, <2>4
  <2> QED BY <1>1, <2>4, <2>5 DEF AccountedAs, x
<1>7. ASSUME NEW key \in DOMAIN udp.items, NEW j \in DOMAIN udp.items[key], udp.items[key][j].bufsIndex = w
      PROVE  AccountedAs(w, b2[w])
  <2> DEFINE x == udp.items[key][j]
  <2>1. x \in Items(udp) BY ItemSet
  <2>2. \A it \in Items(udp) : it.bufsIndex = w => it = x
    <3> SUFFICES ASSUME NEW it \in Items(udp), it.bufsIndex = w PROVE it = x OBVIOUS
    <3>1. PICK k2 \in DOMAIN udp.items : \E j2 \in DOMAIN udp.items[k2] : it = udp.items[k2][j2] BY ItemSet
    <3>2. PICK j2 \in DOMAIN udp.items[k2] : it = udp.items[k2][j2] BY <3>1
    <3>3. k2 = key /\ j2 = j BY <1>0, <1>1, <1>7, <3>2, OneItem
    <3> QED BY <3>2, <3>3
  <2>3. \A it \in Items(tcp) : it.bufsIndex # w
    <3> SUFFICES ASSUME NEW it \in Items(tcp), it.bufsIndex = w PROVE FALSE OBVIOUS
    <3>1. PICK k2 \in DOMAIN tcp.items : \E j2 \in DOMAIN tcp.items[k2] : it = tcp.items[k2][j2] BY ItemSet
    <3>2. PICK j2 \in DOMAIN tcp.items[k2] : it = tcp.items[k2][j2] BY <3>1
    <3>3. "tcp" = "udp" BY <1>0, <1>1, <1>7, <3>2, OneItem
    <3> QED BY <3>3
  <2>4. x.bufsIndex = w BY <1>7
  <2> HIDE DEF x
  <2>5. b2[w] = Headed(bufs[w], x) BY ONLY <1>3, <1>4, <2>1, <2>2, <2>3, <2>4
  <2> QED BY <1>1, <2>4, <2>5 DEF AccountedAs, x
<1>8. AccountedAs(w, b2[w])
  <2>1. CASE Indexed(Tables, w)
    <3>1. PICK q \in Protos : \E key \in DOMAIN Tables[q] : \E j \in DOMAIN Tables[q][key] : Tables[q][key][j].bufsIndex = w
      BY <2>1 DEF Indexed
    <3> QED BY <1>1, <1>6, <1>7, <3>1
  <2> QED BY <1>5, <2>1 DEF b1, b2
<1> QED BY <1>8 DEF b1, b2

\* The kernel's cut of one buffer.
Count(b) == IF b.vnet <= 0 THEN 1 ELSE (b.len + b.vnet - 1) \div b.vnet
CutAt(b, k) ==
    Segment(b.payload[(k - 1) * b.vnet + 1][1], b,
            IF b.proto = "tcp" THEN (b.seq + (k - 1) * b.vnet) % SeqSpace ELSE b.seq,
            b.flags = "psh" /\ k = Count(b),
            SubSeq(b.payload, (k - 1) * b.vnet + 1, IF k = Count(b) THEN b.len ELSE k * b.vnet))
Cut(w, b) ==
    CASE b.vnet = Stale -> <<>>
      [] b.vnet = NoGSO -> <<Segment(w, b, b.seq, b.flags = "psh", b.payload)>>
      [] OTHER -> [k \in 1..Count(b) |-> CutAt(b, k)]

\* A segment without its PSH.
LEMMA SegmentNoPSH ==
    ASSUME NEW id, NEW b, NEW seq, NEW psh, NEW payload
    PROVE  NoPSH(Segment(id, b, seq, psh, payload)) = Segment(id, b, seq, FALSE, payload)
<1> DEFINE f == FALSE
<1>1. NoPSH(Segment(id, b, seq, psh, payload)) = [Segment(id, b, seq, psh, payload) EXCEPT !.psh = f] BY DEF NoPSH
<1> HIDE DEF f
<1>2. [Segment(id, b, seq, psh, payload) EXCEPT !.psh = f] = Segment(id, b, seq, f, payload) BY DEF Segment
<1> QED BY <1>1, <1>2 DEF f

\* Segment s is packet j of the call, up to PSH.
IsPacket(s, j) == s.id = j /\ NoPSH(s) = NoPSH(Sent[j]) /\ (s.psh = TRUE => in[j].flags = "psh")

\* The segments s are the packets l.
ArePackets(s, l) == /\ DOMAIN s = 1..Len(l) /\ s \in Seq({s[m] : m \in DOMAIN s})
                    /\ \A m \in 1..Len(l) : IsPacket(s[m], l[m])

\* A segment with the fields of packet j.
LEMMA SamePacket ==
    ASSUME in \in Seq(AllPackets), NEW j \in 1..Len(in), NEW b, NEW seq, NEW psh, NEW payload,
           b.proto = in[j].proto, b.flow = in[j].flow, b.hdr = in[j].hdr, b.csum = in[j].csum,
           seq = in[j].seq, payload = Tok(in[j], j), psh = TRUE => in[j].flags = "psh"
    PROVE  IsPacket(Segment(j, b, seq, psh, payload), j)
<1> DEFINE p == in[j]
<1>1. p \in AllPackets /\ j \in Nat /\ j \in DOMAIN in OBVIOUS
<1>2. Buffer(p, j).payload = Tok(p, j) BY <1>1, BufferType
<1> DEFINE f == p.flags = "psh"
<1>3. Sent[j] = Segment(j, p, p.seq, f, Tok(p, j)) BY <1>1, <1>2 DEF Sent
<1> HIDE DEF f
<1>4. NoPSH(Sent[j]) = Segment(j, p, p.seq, FALSE, Tok(p, j))
  <2> HIDE DEF p
  <2>1. NoPSH(Segment(j, p, p.seq, f, Tok(p, j))) = Segment(j, p, p.seq, FALSE, Tok(p, j)) BY ONLY SegmentNoPSH
  <2> QED BY ONLY <1>3, <2>1
<1>5. NoPSH(Segment(j, b, seq, psh, payload)) = Segment(j, b, seq, FALSE, payload) BY ONLY SegmentNoPSH
<1>6. Segment(j, b, seq, FALSE, payload) = Segment(j, p, p.seq, FALSE, Tok(p, j)) BY DEF Segment
<1>7. Segment(j, b, seq, psh, payload).id = j /\ Segment(j, b, seq, psh, payload).psh = psh BY DEF Segment
<1> DEFINE s == Segment(j, b, seq, psh, payload)
<1> HIDE DEF s
<1>8. s.psh = TRUE => p.flags = "psh" BY <1>7 DEF s
<1>9. NoPSH(s) = NoPSH(Sent[j]) BY <1>4, <1>5, <1>6 DEF s
<1>10. s.id = j BY <1>7 DEF s
<1> QED BY <1>8, <1>9, <1>10 DEF IsPacket, s

\* t is x bytes of packet w.
Bytes(t, w, x) == t = [k \in 1..x |-> <<w, k>>]

\* A cut out of a payload.
LEMMA SubBytes ==
    ASSUME NEW s \in Seq(Nat \X Nat), NEW y \in Nat, NEW x \in Nat, y + x <= Len(s), NEW w,
           \A k \in 1..x : s[y + k] = <<w, k>>
    PROVE  Bytes(SubSeq(s, y + 1, y + x), w, x)
<1>1. SubSeq(s, y + 1, y + x) = [k \in 1..((y + x) - (y + 1) + 1) |-> s[(y + 1) + k - 1]] OBVIOUS
<1>2. (y + x) - (y + 1) + 1 = x OBVIOUS
<1>3. \A k \in 1..x : (y + 1) + k - 1 = y + k OBVIOUS
<1>4. \A k \in 1..x : s[(y + 1) + k - 1] = <<w, k>> BY <1>3
<1>5. SubSeq(s, y + 1, y + x) = [k \in 1..x |-> s[(y + 1) + k - 1]] BY ONLY <1>1, <1>2
<1> QED BY ONLY <1>4, <1>5 DEF Bytes

\* A buffer that is one packet is not cut.
LEMMA CutSingle ==
    ASSUME in \in Seq(AllPackets), NEW w \in 1..Len(in), NEW c, Plain(in, c, w), c.vnet = NoGSO
    PROVE  ArePackets(Cut(w, c), <<w>>)
<1> DEFINE p == in[w]
           f == c.flags = "psh"
           s == Segment(w, c, c.seq, f, c.payload)
<1>1. Cut(w, c) = <<s>>
  <2>1. c.vnet # Stale BY DEF NoGSO, Stale
  <2> QED BY <2>1 DEF Cut
<1>2. p \in AllPackets /\ w \in Nat OBVIOUS
<1>3. Buffer(p, w).payload = Tok(p, w) BY <1>2, BufferType
<1>4. /\ c.proto = p.proto /\ c.flow = p.flow /\ c.hdr = p.hdr /\ c.csum = p.csum /\ c.seq = p.seq
      /\ c.payload = Tok(p, w) /\ c.flags = p.flags
  BY <1>3 DEF Plain
<1>5. f = TRUE => p.flags = "psh" BY <1>4
<1>6. in \in Seq(AllPackets) /\ w \in 1..Len(in) OBVIOUS
<1> HIDE DEF f
<1>7. IsPacket(s, w) BY ONLY <1>4, <1>5, <1>6, SamePacket
<1> HIDE DEF s
<1>8. DOMAIN <<s>> = 1..1 /\ <<s>>[1] = s /\ Len(<<w>>) = 1 /\ <<w>>[1] = w /\ <<s>> \in Seq({s}) OBVIOUS
<1>9. {<<s>>[m] : m \in DOMAIN <<s>>} = {s} BY <1>8
<1>10. \A m \in 1..1 : m = 1 OBVIOUS
<1>11. ArePackets(<<s>>, <<w>>)
  <2> DEFINE t == <<s>>
             l == <<w>>
  <2>1. DOMAIN t = 1..1 /\ t[1] = s /\ Len(l) = 1 /\ l[1] = w /\ t \in Seq({t[m] : m \in DOMAIN t}) BY <1>8, <1>9
  <2> HIDE DEF t, l
  <2>2. ArePackets(t, l) BY ONLY <1>7, <1>10, <2>1 DEF ArePackets
  <2> QED BY <2>2 DEF t, l
<1> QED BY <1>1, <1>11

\* The m-th segment of a merged buffer.
LEMMA CutPiece ==
    ASSUME in \in Seq(AllPackets), NEW l \in Seq(1..Len(in)), Len(l) > 1, NEW g \in Nat \ {0},
           NEW b \in Buffers, Holds(in, b, g, l), NEW c,
           c.proto = b.proto, c.flow = b.flow, c.hdr = b.hdr, c.seq = b.seq, c.flags = b.flags,
           c.payload = b.payload, c.vnet = g, c.csum = TRUE, c.len = Len(b.payload), Count(c) = Len(l),
           NEW m \in 1..Len(l)
    PROVE  IsPacket(CutAt(c, m), l[m])
<1> DEFINE n == Len(l)
           j == l[m]
           p == in[j]
           y == (m - 1) * g
           s == b.payload
           seq == IF c.proto = "tcp" THEN (c.seq + y) % SeqSpace ELSE c.seq
           f == c.flags = "psh" /\ m = Count(c)
           to == IF m = Count(c) THEN c.len ELSE m * g
<1>1. n \in Nat /\ m \in Nat /\ m - 1 \in Nat /\ g \in Nat /\ n \in 1..n /\ l \in [1..n -> 1..Len(in)] /\ m <= n OBVIOUS
<1>2. j \in 1..Len(in) /\ p \in AllPackets /\ j \in Nat BY <1>1
<1>3. s \in Seq(Nat \X Nat) BY DEF Buffers
<1>4. Piece(in, b, g, l, m) /\ Piece(in, b, g, l, n) BY <1>1 DEF Holds
<1>5. Len(s) = (n - 1) * g + in[l[n]].len BY DEF Holds
<1>6. /\ p.len \in 1..g /\ (m < n => p.len = g) /\ p.proto = b.proto /\ p.flow = b.flow /\ p.hdr = b.hdr
      /\ p.seq = IF b.proto = "tcp" THEN (b.seq + y) % SeqSpace ELSE b.seq
      /\ p.csum = TRUE /\ \A k \in 1..p.len : s[y + k] = <<j, k>>
  BY <1>4 DEF Piece
<1>7. y \in Nat /\ (m - 1 + 1) * g = y + g
  <2>1. m - 1 \in Nat BY <1>1
  <2> QED BY <1>1, <2>1, Multiples
<1>8. m * g = y + g BY <1>1, <1>7
<1> HIDE DEF y, n, j, p
<1>9. to = y + p.len
  <2>1. CASE m = n
    <3>1. Len(s) = y + p.len BY ONLY <1>5, <2>1 DEF y, p, j
    <3> QED BY <2>1, <3>1 DEF n
  <2>2. CASE m # n
    <3>1. m < n BY <1>1, <2>2
    <3> QED BY <1>6, <1>8, <2>2, <3>1 DEF n
  <2> QED BY <2>1, <2>2
<1>10. y + p.len <= Len(s)
  <2> DEFINE z == (n - 1) * g
             r == in[l[n]].len
  <2>1. r \in 1..g BY <1>4 DEF Piece
  <2>2. n - 1 \in Nat BY <1>1
  <2>3. CASE m = n BY <1>5, <1>7, <2>1, <2>3, <1>6 DEF y, p, j
  <2>4. CASE m # n
    <3>1. m - 1 < n - 1 BY <1>1, <2>4
    <3>2. y + g <= z BY <1>1, <2>2, <3>1, Multiples DEF y
    <3>3. z \in Nat BY <1>1, <2>2, Multiples
    <3>4. Len(s) = z + r BY <1>5
    <3>5. p.len \in 1..g BY <1>6
    <3> HIDE DEF z, r, s
    <3> QED BY ONLY <1>1, <1>7, <2>1, <3>2, <3>3, <3>4, <3>5
  <2> QED BY <2>3, <2>4
<1>11. SubSeq(s, y + 1, to) = Tok(p, j)
  <2>1. p.len \in Nat BY <1>2, PacketType
  <2>2. SubSeq(s, y + 1, y + p.len) = [k \in 1..p.len |-> <<j, k>>]
    <3> DEFINE x == p.len
    <3>1. x \in Nat /\ y \in Nat /\ y + x <= Len(s) /\ \A k \in 1..x : s[y + k] = <<j, k>> BY <1>6, <1>7, <1>10, <2>1
    <3> HIDE DEF s, x
    <3>2. Bytes(SubSeq(s, y + 1, y + x), j, x) BY ONLY <1>3, <3>1, SubBytes
    <3> QED BY <3>2 DEF x, Bytes
  <2> QED BY ONLY <1>9, <2>2 DEF Tok
<1>12. s[y + 1][1] = j
  <2>1. 1 \in 1..p.len BY <1>1, <1>6
  <2>2. s[y + 1] = <<j, 1>> BY <1>6, <2>1
  <2> QED BY ONLY <2>2
<1>13. CutAt(c, m) = Segment(j, c, seq, f, Tok(p, j))
  <2>1. CutAt(c, m) = Segment(s[y + 1][1], c, seq, f, SubSeq(s, y + 1, to)) BY DEF CutAt, y
  <2> QED BY ONLY <1>11, <1>12, <2>1
<1>14. f = TRUE => p.flags = "psh"
  <2>1. b.flags = "psh" => in[l[n]].flags = "psh" BY DEF Holds, n
  <2>2. f => c.flags = "psh" /\ m = n BY DEF n
  <2> HIDE DEF f
  <2> QED BY <2>1, <2>2 DEF p, j
<1>15. seq = p.seq BY <1>6
<1>16. c.proto = p.proto /\ c.flow = p.flow /\ c.hdr = p.hdr /\ c.csum = p.csum BY <1>6
<1>17. in \in Seq(AllPackets) OBVIOUS
<1> HIDE DEF f, seq
<1>18. IsPacket(Segment(j, c, seq, f, Tok(p, j)), j) BY ONLY <1>2, <1>14, <1>15, <1>16, <1>17, SamePacket DEF p
<1> QED BY <1>13, <1>18 DEF j

\* A merged buffer is cut into its packets.
LEMMA CutMerged ==
    ASSUME in \in Seq(AllPackets), NEW l \in Seq(1..Len(in)), NEW item, item.numMerged > 0, item.gsoSize \in Nat,
           NEW b \in Buffers, Holds(in, b, item.gsoSize, l), Len(l) > 1, Len(b.payload) <= b.room, b.room < LenSpace, NEW w
    PROVE  ArePackets(Cut(w, Headed(b, item)), l)
<1> DEFINE c == Headed(b, item)
           g == item.gsoSize
           n == Len(l)
           N == Len(b.payload)
           r == in[l[n]].len
<1>1. n \in Nat /\ n - 1 \in Nat /\ n \in 1..n /\ (n - 1) + 1 = n OBVIOUS
<1>2. Piece(in, b, g, l, n) /\ N = (n - 1) * g + r BY <1>1 DEF Holds
<1>3. r \in 1..g BY <1>2 DEF Piece
<1>4. g \in Nat \ {0}
  <2>1. g \in Nat OBVIOUS
  <2> HIDE DEF g, r
  <2> QED BY <1>3, <2>1
<1>5. /\ b.payload \in Seq(Nat \X Nat) /\ b.room \in Nat /\ LenSpace \in Nat /\ N \in Nat
  <2>1. b.payload \in Seq(Nat \X Nat) /\ b.room \in Nat BY DEF Buffers
  <2> QED BY <2>1, GROAssumption
<1>6. N % LenSpace = N
  <2>1. N < LenSpace BY <1>5
  <2>2. LenSpace \in Nat \ {0} BY GROAssumption
  <2> HIDE DEF N
  <2> QED BY ONLY <1>5, <2>1, <2>2, SmallMod
<1>7. /\ c.proto = b.proto /\ c.flow = b.flow /\ c.hdr = b.hdr /\ c.seq = b.seq /\ c.flags = b.flags
      /\ c.payload = b.payload /\ c.vnet = g /\ c.csum = TRUE /\ c.len = N
  <2>1. c = [b EXCEPT !.vnet = item.gsoSize, !.csum = TRUE, !.len = N] BY <1>6 DEF Headed
  <2> HIDE DEF c, N
  <2> QED BY <2>1 DEF Buffers
<1> HIDE DEF c
<1>8. Count(c) = n
  <2>1. (N + g - 1) \div g = n
    <3>1. ((n - 1) * g + r + g - 1) \div g = (n - 1) + 1
      <4> DEFINE q == n - 1
      <4>1. q \in Nat BY <1>1
      <4> HIDE DEF q, r, g
      <4>2. (q * g + r + g - 1) \div g = q + 1 BY ONLY <1>3, <1>4, <4>1, Pieces
      <4> QED BY <4>2 DEF q
    <3> QED BY ONLY <1>1, <1>2, <3>1
  <2>2. ~(g <= 0) BY <1>4
  <2> HIDE DEF g, N
  <2> QED BY ONLY <1>7, <2>1, <2>2 DEF Count
<1>9. Cut(w, c) = [k \in 1..n |-> CutAt(c, k)]
  <2>1. c.vnet # Stale /\ c.vnet # NoGSO
    <3> HIDE DEF g
    <3> QED BY ONLY <1>4, <1>7 DEF Stale, NoGSO
  <2> QED BY ONLY <1>8, <2>1 DEF Cut
<1>10. ASSUME NEW m \in 1..n PROVE IsPacket(CutAt(c, m), l[m]) BY <1>4, <1>7, <1>8, CutPiece
<1> DEFINE s == Cut(w, c)
<1>11. DOMAIN s = 1..n /\ \A m \in 1..n : s[m] = CutAt(c, m) BY <1>9
<1>12. s = [k \in 1..n |-> s[k]] BY <1>9
<1> HIDE DEF s
<1>13. s \in Seq({s[m] : m \in DOMAIN s})
  <2> DEFINE R == {s[m] : m \in DOMAIN s}
  <2>1. \A k \in 1..n : s[k] \in R BY <1>11
  <2> HIDE DEF R
  <2>2. s \in [1..n -> R] BY <1>12, <2>1
  <2>3. s \in Seq(R) BY <1>1, <2>2
  <2> QED BY <2>3 DEF R
<1>14. ArePackets(s, l) BY <1>10, <1>11, <1>13 DEF ArePackets
<1> QED BY <1>14 DEF s, c

\* A buffer as the accounting leaves it is cut into its packets.
LEMMA AllCut ==
    ASSUME NEW lists, Groups(lists, in, bufs, Tables), in \in Seq(AllPackets), NEW w \in DOMAIN lists,
           NEW c, AccountedAs(w, c)
    PROVE  ArePackets(Cut(w, c), lists[w])
<1> DEFINE b == bufs[w]
           l == lists[w]
<1>1. ListsOK(lists, in) /\ BuffersOK(lists, in, bufs) /\ TablesOK(lists, in, bufs, Tables) BY DEF Groups
<1>2. w \in 1..Len(in) /\ l \in Seq(1..Len(in)) BY <1>1 DEF ListsOK
<1>3. Len(l) = 1 => l = <<w>> /\ Plain(in, b, w) BY <1>1 DEF BuffersOK
<1>4. b \in Buffers /\ b.room < LenSpace
  <2>1. bufs \in Seq(Buffers) /\ Len(bufs) = Len(in) BY <1>1 DEF BuffersOK
  <2>2. w \in DOMAIN bufs BY <1>2, <2>1
  <2>3. bufs[w].room < LenSpace BY <1>1, <2>2 DEF BuffersOK
  <2> QED BY <2>1, <2>2, <2>3
<1>5. CASE ~Indexed(Tables, w) /\ c = b
  <2>1. b.vnet = NoGSO /\ Len(l) = 1 BY <1>5 DEF Groups
  <2> QED BY <1>2, <1>3, <1>5, <2>1, CutSingle
<1>6. ASSUME NEW q \in Protos, NEW key \in DOMAIN Tables[q], NEW j \in DOMAIN Tables[q][key],
             Tables[q][key][j].bufsIndex = w, c = Headed(b, Tables[q][key][j])
      PROVE  ArePackets(Cut(w, c), l)
  <2> DEFINE item == Tables[q][key][j]
  <2>1. ItemsOK(Tables[q][key], key, q, lists, in, bufs) BY <1>1 DEF TablesOK
  <2>2. Describes(item, key, q, in, b, l) BY <1>6, <2>1 DEF ItemsOK
  <2>3. item.numMerged \in Nat /\ item.gsoSize \in Nat
    <3>1. item \in ItemsOf(q)
      <4>1. Tables[q][key] \in Seq(ItemsOf(q)) BY <2>1 DEF ItemsOK
      <4> QED BY ONLY <4>1, j \in DOMAIN Tables[q][key]
    <3>2. q \in {"tcp", "udp"} BY DEF Protos
    <3> HIDE DEF item
    <3> QED BY ONLY <3>1, <3>2 DEF ItemsOf
  <2>4. c = Headed(b, item) BY <1>6
  <2> HIDE DEF item
  <2>5. /\ Len(l) = item.numMerged + 1 /\ Holds(in, b, item.gsoSize, l) /\ Len(b.payload) <= b.room
    BY <2>2 DEF Describes
  <2>6. CASE item.numMerged > 0
    <3>1. Len(l) > 1 BY <2>3, <2>5, <2>6
    <3>2. ArePackets(Cut(w, Headed(b, item)), l) BY <1>2, <1>4, <2>3, <2>5, <2>6, <3>1, CutMerged
    <3> QED BY <2>4, <3>2
  <2>7. CASE ~(item.numMerged > 0)
    <3>1. Len(l) = 1 BY <2>3, <2>5, <2>7
    <3>2. c = [b EXCEPT !.vnet = NoGSO] BY <2>4, <2>7 DEF Headed
    <3>3. l = <<w>> /\ Plain(in, b, w) BY <1>3, <3>1
    <3>4. Same(b, c) /\ c.vnet = NoGSO BY <1>4, <3>2, ZeroOne
    <3>5. Plain(in, c, w) BY ONLY <3>3, <3>4 DEF Same, Plain
    <3> QED BY <1>2, <3>3, <3>4, <3>5, CutSingle
  <2> QED BY <2>6, <2>7
<1> QED BY <1>5, <1>6 DEF AccountedAs

\* What is flattened: the segments of every buffer to write.
AllSegments(segs, lists) ==
    /\ DOMAIN segs = DOMAIN toWrite
    /\ \A k \in DOMAIN toWrite : ArePackets(segs[k], lists[toWrite[k]])

\* Two segments with one id are one segment of one buffer.
LEMMA SegmentIds ==
    ASSUME NEW lists, ListsOK(lists, in), DOMAIN lists = ToSet(toWrite), IsInjective(toWrite),
           NEW segs, AllSegments(segs, lists),
           NEW k \in DOMAIN segs, NEW l \in DOMAIN segs, NEW x \in DOMAIN segs[k], NEW y \in DOMAIN segs[l],
           segs[k][x].id = segs[l][y].id
    PROVE  k = l /\ x = y
<1> DEFINE w == toWrite[k]
           v == toWrite[l]
<1>1. w \in DOMAIN lists /\ v \in DOMAIN lists BY DEF AllSegments, ToSet
<1>2. /\ x \in 1..Len(lists[w]) /\ y \in 1..Len(lists[v])
      /\ segs[k][x].id = lists[w][x] /\ segs[l][y].id = lists[v][y]
  BY DEF AllSegments, ArePackets, IsPacket
<1>3. x \in DOMAIN lists[w] /\ y \in DOMAIN lists[v]
  <2>1. lists[w] \in Seq(1..Len(in)) /\ lists[v] \in Seq(1..Len(in)) BY <1>1 DEF ListsOK
  <2>2. x \in 1..Len(lists[w]) /\ y \in 1..Len(lists[v]) BY <1>2
  <2> HIDE DEF w, v
  <2> QED BY ONLY <2>1, <2>2
<1>4. w = v /\ x = y
  <2>1. lists[w][x] = lists[v][y] BY <1>2
  <2> HIDE DEF w, v
  <2> QED BY <1>1, <1>3, <2>1 DEF ListsOK
<1>5. k \in DOMAIN toWrite /\ l \in DOMAIN toWrite BY DEF AllSegments
<1> QED BY <1>4, <1>5 DEF IsInjective

\* f pairs off two initial segments of the numbers.
PairsOff(f, a, b) ==
    /\ a \in Nat /\ b \in Nat /\ f \in [1..a -> 1..b] /\ (\A x, y \in 1..a : f[x] = f[y] => x = y)
    /\ \A y \in 1..b : \E x \in 1..a : f[x] = y

\* They are one.
LEMMA SameLength ==
    ASSUME NEW a, NEW b, NEW f, PairsOff(f, a, b)
    PROVE  a = b
<1>0. /\ a \in Nat /\ b \in Nat /\ f \in [1..a -> 1..b] /\ (\A x, y \in 1..a : f[x] = f[y] => x = y)
      /\ \A y \in 1..b : \E x \in 1..a : f[x] = y
  BY DEF PairsOff
<1>1. f \in Bijection(1..a, 1..b) BY <1>0 DEF Bijection, Injection, Surjection, IsInjective
<1>2. ExistsBijection(1..a, 1..b) BY <1>1 DEF ExistsBijection
<1>3. IsFiniteSet(1..a) /\ Cardinality(1..a) = a BY <1>0, FS_Interval
<1>4. Cardinality(1..b) = b BY <1>0, FS_Interval
<1>5. Cardinality(1..b) = Cardinality(1..a) BY <1>2, <1>3, FS_Bijection
<1> QED BY <1>3, <1>4, <1>5

\* The kernel receives the packets in the order of the buffers and of their lists.
Sequenced(R, lists) ==
    \A m, l \in DOMAIN R : m < l =>
        \E w, v \in DOMAIN lists : \E x \in DOMAIN lists[w], y \in DOMAIN lists[v] :
           R[m].id = lists[w][x] /\ R[l].id = lists[v][y] /\ Before(w, x, v, y)

\* The kernel receives every packet once.
LEMMA FlatPackets ==
    ASSUME NEW lists, ListsOK(lists, in), in \in Seq(AllPackets), NEW X, toWrite \in Seq(X), Increasing(toWrite),
           DOMAIN lists = ToSet(toWrite), IsInjective(toWrite), NEW segs, segs = [k \in DOMAIN toWrite |-> segs[k]],
           AllSegments(segs, lists), NEW R, R = FlattenSeq(segs)
    PROVE  /\ Len(R) = Len(in)
           /\ \A m \in DOMAIN R : \E j \in 1..Len(in) : IsPacket(R[m], j)
           /\ \A j \in 1..Len(in) : \E m \in DOMAIN R : IsPacket(R[m], j)
           /\ Sequenced(R, lists)
<1> DEFINE n == Len(toWrite)
           S == {s \in UNION {{segs[k][m] : m \in DOMAIN segs[k]} : k \in DOMAIN segs} : TRUE}
<1>1. n \in Nat /\ DOMAIN toWrite = 1..n /\ DOMAIN segs = 1..n BY DEF AllSegments
<1>2. segs \in Seq(Seq(S)) /\ Len(segs) = n
  <2>1. ASSUME NEW k \in 1..n PROVE segs[k] \in Seq(S)
    <3>1. segs[k] \in Seq({segs[k][m] : m \in DOMAIN segs[k]}) BY <1>1 DEF AllSegments, ArePackets
    <3>2. {segs[k][m] : m \in DOMAIN segs[k]} \subseteq S BY <1>1
    <3> DEFINE Y == {segs[k][m] : m \in DOMAIN segs[k]}
               s == segs[k]
    <3>3. s \in Seq(Y) /\ Y \subseteq S BY <3>1, <3>2
    <3> HIDE DEF s, Y, S
    <3>4. s \in Seq(S) BY ONLY <3>3
    <3> QED BY <3>4 DEF s
  <2> HIDE DEF S, n
  <2>2. segs = [k \in 1..n |-> segs[k]] BY <1>1
  <2>3. segs \in [1..n -> Seq(S)] BY <2>1, <2>2
  <2> QED BY <1>1, <2>3
<1> HIDE DEF S
<1>3. Distinct(segs)
  <2> SUFFICES ASSUME NEW k \in DOMAIN segs, NEW l \in DOMAIN segs, NEW x \in DOMAIN segs[k], NEW y \in DOMAIN segs[l],
                      segs[k][x] = segs[l][y]
               PROVE  k = l /\ x = y
    BY DEF Distinct
  <2>1. segs[k][x].id = segs[l][y].id OBVIOUS
  <2> QED BY <2>1, SegmentIds
<1>4. R \in Seq(S) /\ FlatOf(R, segs, n) BY <1>2, <1>3, Flat
<1>5. ASSUME NEW k \in DOMAIN segs, NEW x \in DOMAIN segs[k]
      PROVE  /\ toWrite[k] \in DOMAIN lists /\ lists[toWrite[k]][x] \in 1..Len(in) /\ IsPacket(segs[k][x], lists[toWrite[k]][x])
             /\ segs[k][x].id \in 1..Len(in)
  <2>1. toWrite[k] \in DOMAIN lists BY <1>1 DEF ToSet
  <2>2. x \in 1..Len(lists[toWrite[k]]) /\ IsPacket(segs[k][x], lists[toWrite[k]][x]) BY <1>1 DEF AllSegments, ArePackets
  <2>3. lists[toWrite[k]] \in Seq(1..Len(in)) BY <2>1 DEF ListsOK
  <2>4. lists[toWrite[k]][x] \in 1..Len(in)
    <3> DEFINE l == lists[toWrite[k]]
    <3>1. l \in Seq(1..Len(in)) /\ x \in 1..Len(l) BY <2>2, <2>3
    <3> HIDE DEF l
    <3>2. l[x] \in 1..Len(in) BY ONLY <3>1
    <3> QED BY <3>2 DEF l
  <2> QED BY <2>1, <2>2, <2>4 DEF IsPacket
<1>6. ASSUME NEW m \in DOMAIN R PROVE \E k \in DOMAIN segs : \E x \in DOMAIN segs[k] : R[m] = segs[k][x]
  BY <1>1, <1>4 DEF FlatOf
<1>7. ASSUME NEW m \in DOMAIN R PROVE \E j \in 1..Len(in) : IsPacket(R[m], j)
  <2>1. PICK k \in DOMAIN segs : \E x \in DOMAIN segs[k] : R[m] = segs[k][x] BY <1>6
  <2>2. PICK x \in DOMAIN segs[k] : R[m] = segs[k][x] BY <2>1
  <2>3. lists[toWrite[k]][x] \in 1..Len(in) /\ IsPacket(segs[k][x], lists[toWrite[k]][x]) BY <1>5
  <2> QED BY <2>2, <2>3
<1>8. ASSUME NEW j \in 1..Len(in) PROVE \E m \in DOMAIN R : IsPacket(R[m], j)
  <2>1. PICK w \in DOMAIN lists : \E x \in DOMAIN lists[w] : lists[w][x] = j BY DEF ListsOK
  <2>2. PICK x \in DOMAIN lists[w] : lists[w][x] = j BY <2>1
  <2>3. PICK k \in DOMAIN toWrite : toWrite[k] = w BY DEF ToSet
  <2>4. x \in DOMAIN segs[k]
    <3>1. lists[w] \in Seq(1..Len(in)) BY DEF ListsOK
    <3>2. DOMAIN lists[w] = 1..Len(lists[w]) BY <3>1
    <3> QED BY <2>2, <2>3, <3>2 DEF AllSegments, ArePackets
  <2>5. k \in DOMAIN segs /\ IsPacket(segs[k][x], j) BY <1>1, <1>5, <2>2, <2>3, <2>4
  <2>6. PICK m \in DOMAIN R : R[m] = segs[k][x] BY <1>1, <1>4, <2>4, <2>5 DEF FlatOf
  <2> QED BY <2>5, <2>6
<1>9. Len(R) = Len(in)
  <2> DEFINE a == Len(R)
             f == [m \in 1..a |-> R[m].id]
  <2>1. a \in Nat /\ DOMAIN R = 1..a /\ Len(in) \in Nat BY <1>4
  <2>2. ASSUME NEW m \in 1..a PROVE f[m] \in 1..Len(in) BY <1>7, <2>1 DEF IsPacket
  <2>3. f \in [1..a -> 1..Len(in)] BY <2>2
  <2>4. ASSUME NEW x \in 1..a, NEW y \in 1..a, f[x] = f[y] PROVE x = y
    <3>1. PICK k \in DOMAIN segs : \E u \in DOMAIN segs[k] : R[x] = segs[k][u] BY <1>6, <2>1
    <3>2. PICK u \in DOMAIN segs[k] : R[x] = segs[k][u] BY <3>1
    <3>3. PICK l \in DOMAIN segs : \E v \in DOMAIN segs[l] : R[y] = segs[l][v] BY <1>6, <2>1
    <3>4. PICK v \in DOMAIN segs[l] : R[y] = segs[l][v] BY <3>3
    <3>5. segs[k][u].id = segs[l][v].id BY <2>4, <3>2, <3>4
    <3>6. k = l /\ u = v BY <3>5, SegmentIds
    <3>7. R[x] = R[y] BY <3>2, <3>4, <3>6
    <3> QED BY <1>4, <2>1, <3>7 DEF FlatOf
  <2>5. ASSUME NEW j \in 1..Len(in) PROVE \E m \in 1..a : f[m] = j
    <3>1. PICK m \in DOMAIN R : IsPacket(R[m], j) BY <1>8
    <3> QED BY <2>1, <3>1 DEF IsPacket
  <2> DEFINE b == Len(in)
  <2>6. PairsOff(f, a, b)
    <3> HIDE DEF f, a
    <3> QED BY <2>1, <2>3, <2>4, <2>5 DEF PairsOff
  <2> HIDE DEF f, a, b
  <2>7. a = b BY ONLY <2>6, SameLength
  <2> QED BY ONLY <2>7 DEF a, b
<1>10. Sequenced(R, lists)
  <2> SUFFICES ASSUME NEW m \in DOMAIN R, NEW l \in DOMAIN R, m < l
               PROVE  \E w, v \in DOMAIN lists : \E x \in DOMAIN lists[w], y \in DOMAIN lists[v] :
                         R[m].id = lists[w][x] /\ R[l].id = lists[v][y] /\ Before(w, x, v, y)
    BY DEF Sequenced
  <2>1. PICK k \in 1..n, h \in 1..n : \E x \in DOMAIN segs[k], y \in DOMAIN segs[h] :
           R[m] = segs[k][x] /\ R[l] = segs[h][y] /\ Before(k, x, h, y)
    <3>1. InTurn(R, segs, n) BY <1>4 DEF FlatOf
    <3> HIDE DEF n
    <3> QED BY ONLY Zenon, <3>1, m \in DOMAIN R, l \in DOMAIN R, m < l DEF InTurn
  <2>2. PICK x \in DOMAIN segs[k], y \in DOMAIN segs[h] : R[m] = segs[k][x] /\ R[l] = segs[h][y] /\ Before(k, x, h, y)
    BY <2>1
  <2> DEFINE w == toWrite[k]
             v == toWrite[h]
  <2>3. ASSUME NEW z \in 1..n, NEW r \in DOMAIN segs[z]
        PROVE  /\ toWrite[z] \in DOMAIN lists /\ r \in DOMAIN lists[toWrite[z]]
               /\ segs[z][r].id = lists[toWrite[z]][r]
    <3>1. toWrite[z] \in DOMAIN lists BY <1>1 DEF ToSet
    <3>2. r \in 1..Len(lists[toWrite[z]]) /\ IsPacket(segs[z][r], lists[toWrite[z]][r])
      BY <1>1 DEF AllSegments, ArePackets
    <3>3. DOMAIN lists[toWrite[z]] = 1..Len(lists[toWrite[z]]) BY <3>1, ListsType
    <3> QED BY <3>1, <3>2, <3>3 DEF IsPacket
  <2>4. /\ w \in DOMAIN lists /\ x \in DOMAIN lists[w] /\ R[m].id = lists[w][x]
        /\ v \in DOMAIN lists /\ y \in DOMAIN lists[v] /\ R[l].id = lists[v][y]
    BY <2>2, <2>3
  <2>5. Before(w, x, v, y)
    <3>1. CASE k < h
      <4>1. w < v BY <1>1, <3>1 DEF Increasing
      <4> QED BY <4>1 DEF Before
    <3>2. CASE k = h /\ x < y BY <3>2 DEF Before
    <3> QED BY <2>2, <3>1, <3>2 DEF Before
  <2> HIDE DEF w, v
  <2> QED BY <2>4, <2>5
<1> QED BY <1>7, <1>8, <1>9, <1>10

-----------------------------------------------------------------------------
(* The invariant and the actions.                                          *)

\* What a grouping says of the types.
LEMMA GroupsType ==
    ASSUME NEW pk \in Seq(AllPackets), NEW lists, NEW bs, NEW ts, Groups(lists, pk, bs, ts)
    PROVE  /\ Len(bs) = Len(pk) /\ DOMAIN bs = 1..Len(pk) /\ DOMAIN lists \subseteq DOMAIN bs
           /\ \A b \in DOMAIN bs : bs[b] \in Buffers /\ bs[b].vnet \in -1..(LenSpace - 1) /\ bs[b].len < LenSpace
           /\ \A q \in Protos : \A key \in DOMAIN ts[q] : \A j \in DOMAIN ts[q][key] :
                 ts[q][key][j].bufsIndex \in DOMAIN lists /\ ts[q][key][j].gsoSize \in 1..(LenSpace - 1)
<1>1. bs \in Seq(Buffers) /\ Len(bs) = Len(pk) BY DEF Groups, BuffersOK
<1>2. DOMAIN bs = 1..Len(pk) /\ DOMAIN lists \subseteq DOMAIN bs BY <1>1 DEF Groups, ListsOK
<1>3. LenSpace \in Nat \ {0} BY GROAssumption
<1>4. ASSUME NEW b \in DOMAIN bs
      PROVE  bs[b] \in Buffers /\ bs[b].vnet \in -1..(LenSpace - 1) /\ bs[b].len < LenSpace
  <2>1. bs[b].vnet \in {Stale, NoGSO} /\ bs[b].room < LenSpace /\ bs[b].len <= bs[b].room BY DEF Groups, BuffersOK
  <2>2. bs[b] \in Buffers BY <1>1
  <2>3. bs[b].room \in Nat /\ bs[b].len \in Nat BY <2>2 DEF Buffers
  <2> QED BY <1>3, <2>1, <2>2, <2>3 DEF Stale, NoGSO
<1>5. ASSUME NEW q \in Protos, NEW key \in DOMAIN ts[q], NEW j \in DOMAIN ts[q][key]
      PROVE  ts[q][key][j].bufsIndex \in DOMAIN lists /\ ts[q][key][j].gsoSize \in 1..(LenSpace - 1)
  <2> DEFINE item == ts[q][key][j]
             w == item.bufsIndex
             l == lists[w]
             g == item.gsoSize
  <2>1. ItemsOK(ts[q][key], key, q, lists, pk, bs) BY DEF Groups, TablesOK
  <2>2. w \in DOMAIN lists /\ Describes(item, key, q, pk, bs[w], l) BY <2>1 DEF ItemsOK
  <2>3. item.numMerged \in Nat /\ g \in Nat
    <3>1. item \in ItemsOf(q)
      <4>1. ts[q][key] \in Seq(ItemsOf(q)) BY <2>1 DEF ItemsOK
      <4> QED BY ONLY <4>1, j \in DOMAIN ts[q][key]
    <3>2. q \in {"tcp", "udp"} BY DEF Protos
    <3> HIDE DEF item
    <3> QED BY ONLY <3>1, <3>2 DEF ItemsOf
  <2>4. Len(l) = item.numMerged + 1 /\ g < LenSpace /\ Holds(pk, bs[w], g, l) BY <2>2 DEF Describes
  <2>5. 1 \in 1..Len(l) BY <2>3, <2>4
  <2>6. pk[l[1]].len \in 1..g BY <2>4, <2>5 DEF Holds, Piece
  <2>7. g >= 1
    <3> HIDE DEF g, l
    <3> QED BY ONLY <2>3, <2>6
  <2> QED BY <1>3, <2>2, <2>3, <2>4, <2>7
<1> QED BY <1>1, <1>2, <1>4, <1>5

\* A table from which slices were taken for its flows, and no more than one per packet.
PoolOK(t, n) ==
    /\ IsFiniteSet(DOMAIN t.items) /\ t.pool \in Int /\ t.pool + Cardinality(DOMAIN t.items) = PoolSize
    /\ Cardinality(DOMAIN t.items) <= n

\* A flow's items change, or a flow is added.
LEMMA PoolWith ==
    ASSUME NEW t, NEW n \in Nat, PoolOK(t, n), NEW key, NEW items
    PROVE  PoolOK(With(t, key, items), n + 1)
<1> DEFINE u == With(t, key, items)
           D == DOMAIN t.items
           c == Cardinality(D)
<1>1. DOMAIN u.items = D \cup {key} BY DEF With
<1>2. u.pool = IF key \in D THEN t.pool ELSE t.pool - 1 BY DEF With
<1> HIDE DEF u
<1>3. IsFiniteSet(D) /\ t.pool \in Int /\ t.pool + c = PoolSize /\ c <= n BY DEF PoolOK
<1>4. c \in Nat BY <1>3, FS_CardinalityType
<1>5. IsFiniteSet(D \cup {key}) /\ Cardinality(D \cup {key}) = IF key \in D THEN c ELSE c + 1 BY <1>3, FS_AddElement
<1> HIDE DEF D, c
<1>8. PoolOK(u, n + 1)
  <2>1. CASE key \in D BY <1>1, <1>2, <1>3, <1>4, <1>5, <2>1 DEF PoolOK
  <2>2. CASE key \notin D BY <1>1, <1>2, <1>3, <1>4, <1>5, <2>2 DEF PoolOK
  <2> QED BY <2>1, <2>2
<1> QED BY <1>8 DEF u

\* Nothing changes.
LEMMA PoolSame ==
    ASSUME NEW t, NEW n \in Nat, PoolOK(t, n)
    PROVE  PoolOK(t, n + 1)
<1>1. Cardinality(DOMAIN t.items) \in Nat BY FS_CardinalityType DEF PoolOK
<1> QED BY <1>1 DEF PoolOK

\* The deferred reset returns every slice.
LEMMA PoolReset ==
    ASSUME NEW t, NEW n \in Nat, PoolOK(t, n)
    PROVE  PoolOK(reset(t), 0) /\ DOMAIN reset(t).items = {} /\ Items(reset(t)) = {}
<1>1. reset(t).items = <<>> /\ reset(t).pool = t.pool + Cardinality(DOMAIN t.items) BY DEF reset
<1>2. DOMAIN reset(t).items = {} BY <1>1
<1>3. IsFiniteSet({}) /\ Cardinality({}) = 0 BY FS_EmptySet
<1>4. PoolSize \in Nat BY GROAssumption
<1>5. PoolOK(reset(t), 0) BY <1>1, <1>2, <1>3, <1>4 DEF PoolOK
<1>6. Items(reset(t)) = {} BY <1>2 DEF Items
<1> QED BY <1>2, <1>5, <1>6

\* What a table's pool holds.
LEMMA PoolRange ==
    ASSUME NEW t, NEW n \in Nat, n <= MaxBatch, PoolOK(t, n)
    PROVE  t.pool \in 0..PoolSize
<1>1. Cardinality(DOMAIN t.items) \in Nat BY FS_CardinalityType DEF PoolOK
<1>2. MaxBatch \in Nat /\ PoolSize \in Nat /\ MaxBatch <= PoolSize BY GROAssumption
<1> QED BY <1>1, <1>2 DEF PoolOK

\* The packets ids are received in their order.
Delivered(R, ids) ==
    \A m, n \in DOMAIN R : m < n /\ {R[m].id, R[n].id} \subseteq ids => R[m].id < R[n].id

\* What FlowOrder says of the received packets R.
FlowOrderOf(R, pk) ==
    \A f : /\ Delivered(R, Datagrams(pk, f))
           /\ Contiguous(pk, Stream(pk, f)) => Delivered(R, Stream(pk, f))

\* The order of the lists is the order in which the kernel receives the packets.
LEMMA ReceivedOrder ==
    ASSUME NEW pk, NEW lists, FlowsOrdered(lists, pk), NEW R, Sequenced(R, lists)
    PROVE  FlowOrderOf(R, pk)
<1>1. ASSUME NEW ids, Ordered(lists, ids) PROVE Delivered(R, ids)
  <2> SUFFICES ASSUME NEW m \in DOMAIN R, NEW n \in DOMAIN R, m < n, {R[m].id, R[n].id} \subseteq ids
               PROVE  R[m].id < R[n].id
    BY DEF Delivered
  <2>1. PICK w \in DOMAIN lists, v \in DOMAIN lists : \E x \in DOMAIN lists[w], y \in DOMAIN lists[v] :
           R[m].id = lists[w][x] /\ R[n].id = lists[v][y] /\ Before(w, x, v, y)
    BY DEF Sequenced
  <2>2. R[m].id \in ids /\ R[n].id \in ids OBVIOUS
  <2> QED BY <1>1, <2>1, <2>2 DEF Ordered
<1> QED BY <1>1 DEF FlowsOrdered, FlowOrderOf

\* The property in terms of the packets and what was received.
LEMMA FlowOrderFrom ==
    ASSUME in \in Seq(AllPackets), Ready => FlowOrderOf(Received, in)
    PROVE  FlowOrder
<1>1. DOMAIN in = 1..Len(in) OBVIOUS
<1> SUFFICES ASSUME FlowOrderOf(Received, in), NEW f
             PROVE  /\ InOrder({i \in FlowOf("udp", f) : in[i].valid /\ in[i].len > 0})
                    /\ LET ids == {i \in FlowOf("tcp", f) : in[i].len > 0} IN
                       (\A i, j \in ids :
                           i < j /\ (\A k \in ids : ~(i < k /\ k < j))
                           => in[j].seq = (in[i].seq + in[i].len) % SeqSpace)
                       => InOrder(ids)
  BY DEF FlowOrder
<1>2. {i \in FlowOf("udp", f) : in[i].valid /\ in[i].len > 0} = Datagrams(in, f) BY <1>1 DEF FlowOf, Datagrams
<1>3. {i \in FlowOf("tcp", f) : in[i].len > 0} = Stream(in, f) BY <1>1 DEF FlowOf, Stream
<1>4. \A ids : Delivered(Received, ids) => InOrder(ids) BY DEF Delivered, InOrder
<1>5. Delivered(Received, Datagrams(in, f)) BY DEF FlowOrderOf
<1>6. Contiguous(in, Stream(in, f)) => Delivered(Received, Stream(in, f)) BY DEF FlowOrderOf
<1>7. InOrder({i \in FlowOf("udp", f) : in[i].valid /\ in[i].len > 0}) BY <1>2, <1>4, <1>5
<1> DEFINE ids == {i \in FlowOf("tcp", f) : in[i].len > 0}
<1>8. Contiguous(in, ids) => InOrder(ids) BY <1>3, <1>4, <1>6
<1> HIDE DEF ids
<1>9. (\A i, j \in ids :
         i < j /\ (\A k \in ids : ~(i < k /\ k < j)) => in[j].seq = (in[i].seq + in[i].len) % SeqSpace)
      => InOrder(ids)
  BY <1>8 DEF Contiguous
<1> QED BY <1>7, <1>9 DEF ids

\* The inductive invariant of the write path.
GroInv ==
    /\ TypeOK /\ PoolConserved /\ RoundTrip /\ NoSpuriousPSH /\ (Ready => FlowOrderOf(Received, in))
    /\ toWrite \in Seq(Nat) /\ Increasing(toWrite) /\ DOMAIN bufs = 1..Len(in)
    /\ PoolOK(tcp, IF pc = "idle" THEN 0 ELSE Len(in)) /\ PoolOK(udp, IF pc = "idle" THEN 0 ELSE Len(in))
    /\ pc = "evaluate" => Grouped /\ UdpFull

\* No buffer is written twice.
LEMMA IncreasingInjective ==
    ASSUME NEW s \in Seq(Nat), Increasing(s)
    PROVE  IsInjective(s)
<1> SUFFICES ASSUME NEW k \in DOMAIN s, NEW l \in DOMAIN s, s[k] = s[l] PROVE k = l BY DEF IsInjective
<1>1. k \in Nat /\ l \in Nat /\ s[k] \in Nat OBVIOUS
<1>2. ~(k < l) /\ ~(l < k)
  <2>1. ~(s[k] < s[k]) BY <1>1
  <2> QED BY <2>1 DEF Increasing
<1> QED BY <1>1, <1>2

\* No packet was looked at.
LEMMA NoGroups ==
    ASSUME NEW ts, \A q \in Protos : DOMAIN ts[q] = {}
    PROVE  Groups(<<>>, <<>>, <<>>, ts)
<1> DEFINE e == <<>>
<1>1. DOMAIN e = {} /\ e \in Seq(Buffers) /\ Len(e) = 0 /\ 1..0 = {} OBVIOUS
<1>2. e \in [DOMAIN e -> Seq(1..Len(e))] BY <1>1
<1> HIDE DEF e
<1>3. ListsOK(e, e) BY ONLY <1>1, <1>2 DEF ListsOK
<1>4. BuffersOK(e, e, e) BY ONLY <1>1 DEF BuffersOK
<1>5. TablesOK(e, e, e, ts) BY DEF TablesOK
<1>6. Groups(e, e, e, ts) BY ONLY <1>1, <1>3, <1>4, <1>5 DEF Groups
<1> QED BY <1>6 DEF e

\* The packets of one mode are packets.
LEMMA InPackets ==
    ASSUME mode \in Modes, in \in Seq(Packets[mode])
    PROVE  in \in Seq(AllPackets)
<1> DEFINE P == Packets[mode]
<1>1. P \subseteq AllPackets BY DEF AllPackets
<1>2. in \in Seq(P) OBVIOUS
<1> HIDE DEF P
<1> QED BY <1>1, <1>2

\* Before the first call.
LEMMA GroInit == Init => GroInv
<1> SUFFICES ASSUME Init PROVE GroInv OBVIOUS
<1>1. /\ tcp.items = <<>> /\ tcp.pool = PoolSize /\ udp.items = <<>> /\ udp.pool = PoolSize
      /\ pc = "idle" /\ in = <<>> /\ bufs = <<>> /\ toWrite = <<>> /\ mode \in Modes
      /\ next = 1 /\ failed = FALSE /\ err = "nil" /\ calls = 0
  BY DEF Init, EmptyTable
<1>2. DOMAIN tcp.items = {} /\ DOMAIN udp.items = {} BY <1>1
<1>3. IsFiniteSet({}) /\ Cardinality({}) = 0 BY FS_EmptySet
<1>4. PoolSize \in Nat /\ MaxBatch \in Nat /\ MaxCalls \in Nat BY GROAssumption
<1>5. PoolOK(tcp, 0) /\ PoolOK(udp, 0) BY <1>1, <1>2, <1>3, <1>4 DEF PoolOK
<1>6. Items(tcp) = {} /\ Items(udp) = {} BY <1>2 DEF Items
<1>7. PoolConserved BY <1>1, <1>2, <1>3, <1>4 DEF PoolConserved
<1>8. TypeOK
  <2>1. ToSet(bufs) = {} /\ ToSet(toWrite) = {} BY <1>1 DEF ToSet
  <2>2. in \in Seq(Packets[mode]) /\ Len(in) <= MaxBatch /\ Len(bufs) = Len(in) BY <1>1, <1>4
  <2>3. next \in 1..(Len(toWrite) + 1) /\ calls \in 0..MaxCalls BY <1>1, <1>4
  <2>4. tcp.pool \in 0..PoolSize /\ udp.pool \in 0..PoolSize BY <1>1, <1>4
  <2> QED BY <1>1, <1>6, <2>1, <2>2, <2>3, <2>4 DEF TypeOK
<1>9. RoundTrip /\ NoSpuriousPSH /\ ~Ready BY <1>1 DEF RoundTrip, NoSpuriousPSH, Ready
<1>10. toWrite \in Seq(Nat) /\ Increasing(toWrite) /\ DOMAIN bufs = 1..Len(in) BY <1>1 DEF Increasing
<1> QED BY <1>1, <1>5, <1>7, <1>8, <1>9, <1>10 DEF GroInv

\* Write is entered with empty tables.
LEMMA GroWrite == GroInv /\ Write => GroInv'
<1> SUFFICES ASSUME GroInv, Write PROVE GroInv' OBVIOUS
<1>1. /\ pc = "idle" /\ pc' = "evaluate" /\ calls < MaxCalls /\ calls' = calls + 1
      /\ in' = <<>> /\ bufs' = <<>> /\ toWrite' = <<>> /\ next' = 1 /\ failed' = FALSE /\ err' = "nil"
      /\ mode' = mode /\ tcp' = tcp /\ udp' = udp
  BY DEF Write, table
<1>2. mode \in Modes /\ calls \in 0..MaxCalls /\ tcp.pool \in 0..PoolSize /\ udp.pool \in 0..PoolSize
  BY DEF GroInv, TypeOK
<1>3. DOMAIN tcp.items = {} /\ DOMAIN udp.items = {} BY <1>1 DEF GroInv, PoolConserved
<1>4. PoolOK(tcp, 0) /\ PoolOK(udp, 0) BY <1>1 DEF GroInv
<1>5. PoolConserved' BY <1>1 DEF GroInv, PoolConserved
<1>6. MaxBatch \in Nat /\ MaxCalls \in Nat BY GROAssumption
<1>7. Items(tcp)' = {} /\ Items(udp)' = {} BY <1>1, <1>3 DEF Items
<1>8. TypeOK'
  <2>1. ToSet(bufs)' = {} /\ ToSet(toWrite)' = {} BY <1>1 DEF ToSet
  <2>2. in' \in Seq(Packets[mode']) /\ Len(in') <= MaxBatch /\ Len(bufs') = Len(in') BY <1>1, <1>6
  <2>3. next' \in 1..(Len(toWrite') + 1) /\ calls' \in 0..MaxCalls BY <1>1, <1>2, <1>6
  <2> QED BY <1>1, <1>2, <1>7, <2>1, <2>2, <2>3 DEF TypeOK
<1>9. (RoundTrip /\ NoSpuriousPSH /\ ~Ready)' BY <1>1 DEF RoundTrip, NoSpuriousPSH, Ready
<1>10. toWrite' \in Seq(Nat) /\ Increasing(toWrite)' /\ DOMAIN bufs' = 1..Len(in') BY <1>1 DEF Increasing
<1>11. PoolOK(tcp', Len(in')) /\ PoolOK(udp', Len(in'))
  <2>1. Len(in') = 0 BY <1>1
  <2> QED BY <1>1, <1>4, <2>1
<1>12. Grouped'
  <2>1. \A q \in Protos : DOMAIN Tables'[q] = {} BY <1>1, <1>3 DEF Tables
  <2>2. Groups(<<>>, <<>>, <<>>, Tables') BY <2>1, NoGroups
  <2> DEFINE none == <<>>
  <2>3. Groups(none, in', bufs', Tables') BY <1>1, <2>2
  <2>4. DOMAIN none = ToSet(toWrite)' /\ DOMAIN none = {} BY <1>1 DEF ToSet
  <2> HIDE DEF none
  <2>5. FlowsOrdered(none, in') /\ UdpLast(none, in', udp') BY <2>4 DEF FlowsOrdered, Ordered, UdpLast
  <2>6. Arranged(none)' BY <2>3, <2>4, <2>5 DEF Arranged
  <2> QED BY <2>6 DEF Grouped
<1>13. UdpFull' BY <1>1, <1>3 DEF UdpFull
<1> QED BY <1>1, <1>5, <1>8, <1>9, <1>10, <1>11, <1>12, <1>13 DEF GroInv

\* The packets of a call.
LEMMA InLength ==
    ASSUME NEW M, NEW s \in Seq(M)
    PROVE  Len(s) \in Nat /\ DOMAIN s = 1..Len(s) /\ \A x \in M : Append(s, x) \in Seq(M) /\ Len(Append(s, x)) = Len(s) + 1
OBVIOUS

\* A table without items has all its slices.
LEMMA PoolEmpty ==
    ASSUME NEW t, PoolOK(t, 0), DOMAIN t.items = {}
    PROVE  t.pool + Cardinality(DOMAIN t.items) = PoolSize /\ t.pool \in 0..PoolSize
<1>1. Cardinality({}) = 0 BY FS_EmptySet
<1>2. t.pool \in Int /\ t.pool + Cardinality(DOMAIN t.items) = PoolSize BY DEF PoolOK
<1>3. Cardinality(DOMAIN t.items) = 0 BY <1>1
<1>4. PoolSize \in Nat BY GROAssumption
<1> DEFINE c == Cardinality(DOMAIN t.items)
<1> HIDE DEF c
<1> QED BY <1>2, <1>3, <1>4 DEF c

\* Write returns.
LEMMA GroReturn ==
    ASSUME GroInv, NEW e \in {"nil", "invalid offset", "closed", "joined"}, Return(e)
    PROVE  GroInv'
<1>1. /\ pc' = "idle" /\ err' = e /\ tcp' = reset(tcp) /\ udp' = reset(udp)
      /\ mode' = mode /\ in' = in /\ bufs' = bufs /\ toWrite' = toWrite /\ next' = next
      /\ failed' = failed /\ calls' = calls
  BY DEF Return
<1>2. /\ mode \in Modes /\ in \in Seq(Packets[mode]) /\ Len(in) <= MaxBatch /\ Len(bufs) = Len(in)
      /\ (\A b \in ToSet(bufs) : b.vnet \in -1..(LenSpace - 1) /\ b.len < LenSpace)
      /\ ToSet(toWrite) \subseteq DOMAIN bufs /\ next \in 1..(Len(toWrite) + 1) /\ failed \in BOOLEAN
      /\ calls \in 0..MaxCalls
  BY DEF GroInv, TypeOK
<1>3. Len(in) \in Nat
  <2>1. in \in Seq(Packets[mode]) BY DEF GroInv, TypeOK
  <2> QED BY ONLY <2>1, InLength
<1> DEFINE n == IF pc = "idle" THEN 0 ELSE Len(in)
<1>4. n \in Nat BY <1>3
<1>5. PoolOK(tcp, n) /\ PoolOK(udp, n) BY DEF GroInv
<1> HIDE DEF n
<1>6. /\ PoolOK(tcp', 0) /\ DOMAIN tcp'.items = {} /\ Items(tcp)' = {}
      /\ PoolOK(udp', 0) /\ DOMAIN udp'.items = {} /\ Items(udp)' = {}
  BY <1>1, <1>4, <1>5, PoolReset
<1>7. /\ tcp'.pool + Cardinality(DOMAIN tcp'.items) = PoolSize /\ tcp'.pool \in 0..PoolSize
      /\ udp'.pool + Cardinality(DOMAIN udp'.items) = PoolSize /\ udp'.pool \in 0..PoolSize
  <2> DEFINE t == tcp'
             u == udp'
  <2>1. PoolOK(t, 0) /\ DOMAIN t.items = {} /\ PoolOK(u, 0) /\ DOMAIN u.items = {} BY <1>6
  <2> HIDE DEF t, u
  <2>2. t.pool + Cardinality(DOMAIN t.items) = PoolSize /\ t.pool \in 0..PoolSize BY ONLY <2>1, PoolEmpty
  <2>3. u.pool + Cardinality(DOMAIN u.items) = PoolSize /\ u.pool \in 0..PoolSize BY ONLY <2>1, PoolEmpty
  <2> QED BY ONLY <2>2, <2>3 DEF t, u
<1>9. PoolConserved' BY ONLY <1>6, <1>7 DEF PoolConserved
<1>10. TypeOK'
  <2>1. ToSet(bufs)' = ToSet(bufs) /\ ToSet(toWrite)' = ToSet(toWrite) BY <1>1
  <2> QED BY <1>1, <1>2, <1>6, <1>7, <2>1 DEF TypeOK
<1>11. (RoundTrip /\ NoSpuriousPSH /\ ~Ready)' BY <1>1 DEF RoundTrip, NoSpuriousPSH, Ready
<1>12. toWrite' \in Seq(Nat) /\ Increasing(toWrite)' /\ DOMAIN bufs' = 1..Len(in') BY <1>1 DEF GroInv
<1> QED BY <1>1, <1>6, <1>9, <1>10, <1>11, <1>12 DEF GroInv

\* An iteration of handleGRO's loop.
LEMMA GroEvaluate ==
    ASSUME GroInv, NEW p \in Packets[mode], Evaluate(p)
    PROVE  GroInv'
<1> DEFINE i == Len(in) + 1
<1>1. /\ mode \in Modes /\ in \in Seq(Packets[mode]) /\ Len(in) <= MaxBatch /\ Len(bufs) = Len(in)
      /\ ToSet(toWrite) \subseteq DOMAIN bufs /\ next \in 1..(Len(toWrite) + 1) /\ failed \in BOOLEAN
      /\ calls \in 0..MaxCalls /\ err \in {"nil", "invalid offset", "closed", "joined"}
  BY DEF GroInv, TypeOK
<1>2. /\ pc = "evaluate" /\ Len(in) < MaxBatch /\ in' = Append(in, p) /\ mode' = mode /\ pc' = pc /\ next' = next
      /\ failed' = failed /\ err' = err /\ calls' = calls
  BY DEF Evaluate
<1>3. in \in Seq(AllPackets) /\ Len(in) \in Nat
  <2>1. in \in Seq(Packets[mode]) BY DEF GroInv, TypeOK
  <2> QED BY ONLY <1>1, <2>1, InPackets, InLength
<1>4. toWrite \in Seq(Nat) /\ Increasing(toWrite) /\ DOMAIN bufs = 1..Len(in) BY DEF GroInv
<1>5. Grouped /\ UdpFull BY <1>2 DEF GroInv
<1>6. Grouped' /\ TableStep(p) BY <1>1, <1>3, <1>4, <1>5, EvaluateGroups
<1>7. UdpFull' BY <1>1, <1>3, <1>4, <1>5, EvaluateGroups
<1>8. in' \in Seq(Packets[mode']) /\ Len(in') = i /\ i <= MaxBatch /\ i \in Nat
  <2>1. Append(in, p) \in Seq(Packets[mode]) /\ Len(Append(in, p)) = i
    <3>1. in \in Seq(Packets[mode]) BY DEF GroInv, TypeOK
    <3> QED BY ONLY <3>1, p \in Packets[mode], InLength
  <2>2. MaxBatch \in Nat BY GROAssumption
  <2> QED BY <1>2, <1>3, <2>1, <2>2
<1>9. in' \in Seq(AllPackets)
  <2>1. p \in AllPackets BY <1>1 DEF AllPackets
  <2> QED BY <1>2, <1>3, <2>1, AppendFacts
<1>10. PoolOK(tcp', i) /\ PoolOK(udp', i)
  <2>1. PoolOK(tcp, Len(in)) /\ PoolOK(udp, Len(in)) BY <1>2 DEF GroInv
  <2>2. PoolOK(tcp', i)
    <3>1. CASE tcp' = tcp BY <1>3, <2>1, <3>1, PoolSame
    <3>2. CASE \E items : tcp' = With(tcp, p.flow, items) BY <1>3, <2>1, <3>2, PoolWith
    <3> QED BY <1>6, <3>1, <3>2 DEF TableStep
  <2>3. PoolOK(udp', i)
    <3>1. CASE udp' = udp BY <1>3, <2>1, <3>1, PoolSame
    <3>2. CASE \E items : udp' = With(udp, p.flow, items) BY <1>3, <2>1, <3>2, PoolWith
    <3> QED BY <1>6, <3>1, <3>2 DEF TableStep
  <2> QED BY <2>2, <2>3
<1>11. PoolConserved' BY <1>2, <1>10 DEF PoolConserved, PoolOK
<1>12. PICK lists : DOMAIN lists = ToSet(toWrite)' /\ Groups(lists, in', bufs', Tables') BY <1>6 DEF Grouped, Arranged
<1>13. /\ Len(bufs') = Len(in') /\ DOMAIN bufs' = 1..Len(in') /\ DOMAIN lists \subseteq DOMAIN bufs'
       /\ \A b \in DOMAIN bufs' : bufs'[b].vnet \in -1..(LenSpace - 1) /\ bufs'[b].len < LenSpace
       /\ \A q \in Protos : \A key \in DOMAIN Tables'[q] : \A j \in DOMAIN Tables'[q][key] :
             /\ Tables'[q][key][j].bufsIndex \in DOMAIN lists
             /\ Tables'[q][key][j].gsoSize \in 1..(LenSpace - 1)
  <2> DEFINE pk == in'
             bs == bufs'
             ts == Tables'
  <2>1. pk \in Seq(AllPackets) /\ Groups(lists, pk, bs, ts) BY <1>9, <1>12
  <2> HIDE DEF pk, bs, ts
  <2>2. /\ Len(bs) = Len(pk) /\ DOMAIN bs = 1..Len(pk) /\ DOMAIN lists \subseteq DOMAIN bs
        /\ \A b \in DOMAIN bs : bs[b].vnet \in -1..(LenSpace - 1) /\ bs[b].len < LenSpace
        /\ \A q \in Protos : \A key \in DOMAIN ts[q] : \A j \in DOMAIN ts[q][key] :
              ts[q][key][j].bufsIndex \in DOMAIN lists /\ ts[q][key][j].gsoSize \in 1..(LenSpace - 1)
    BY ONLY <2>1, GroupsType
  <2> QED BY <2>2 DEF pk, bs, ts
<1>14. \A item \in (Items(tcp) \cup Items(udp))' : item.bufsIndex \in ToSet(toWrite)' /\ item.gsoSize \in 1..(LenSpace - 1)
  <2>1. "tcp" \in Protos /\ "udp" \in Protos /\ Tables'["tcp"] = tcp'.items /\ Tables'["udp"] = udp'.items
    BY DEF Protos, Tables
  <2>2. ASSUME NEW item \in Items(tcp') PROVE item.bufsIndex \in ToSet(toWrite)' /\ item.gsoSize \in 1..(LenSpace - 1)
    <3>1. \E key \in DOMAIN tcp'.items : \E j \in DOMAIN tcp'.items[key] : item = tcp'.items[key][j] BY ItemSet
    <3> QED BY <1>12, <1>13, <2>1, <3>1
  <2>3. ASSUME NEW item \in Items(udp') PROVE item.bufsIndex \in ToSet(toWrite)' /\ item.gsoSize \in 1..(LenSpace - 1)
    <3>1. \E key \in DOMAIN udp'.items : \E j \in DOMAIN udp'.items[key] : item = udp'.items[key][j] BY ItemSet
    <3> QED BY <1>12, <1>13, <2>1, <3>1
  <2> QED BY <2>2, <2>3
<1>15. toWrite' = toWrite \/ toWrite' = Append(toWrite, i) BY <1>1 DEF Evaluate
<1>16. toWrite' \in Seq(Nat) /\ next' \in 1..(Len(toWrite') + 1)
  <2>1. i \in Nat BY <1>3
  <2>2. Append(toWrite, i) \in Seq(Nat) /\ Len(Append(toWrite, i)) = Len(toWrite) + 1 /\ Len(toWrite) \in Nat BY <1>4, <2>1
  <2>3. next' = next /\ next \in 1..(Len(toWrite) + 1) /\ toWrite \in Seq(Nat) BY <1>1, <1>2, <1>4
  <2> HIDE DEF i
  <2>4. CASE toWrite' = toWrite BY ONLY <2>2, <2>3, <2>4
  <2>5. CASE toWrite' = Append(toWrite, i)
    <3> DEFINE t == Append(toWrite, i)
    <3>1. t \in Seq(Nat) /\ Len(t) = Len(toWrite) + 1 /\ Len(toWrite) \in Nat /\ toWrite' = t BY ONLY <2>2, <2>5
    <3> HIDE DEF t
    <3> QED BY ONLY <2>3, <3>1
  <2> QED BY ONLY <1>15, <2>4, <2>5
<1>17. Increasing(toWrite)'
  <2>1. CASE toWrite' = toWrite BY <1>4, <2>1 DEF Increasing
  <2>2. CASE toWrite' = Append(toWrite, i)
    <3> DEFINE t == Append(toWrite, i)
               n == Len(toWrite)
    <3>1. n \in Nat /\ DOMAIN toWrite = 1..n /\ DOMAIN t = 1..(n + 1) /\ t[n + 1] = i /\ \A k \in 1..n : t[k] = toWrite[k]
      BY <1>4
    <3>2. \A k \in 1..n : toWrite[k] < i
      <4>1. \A k \in 1..n : toWrite[k] \in ToSet(toWrite) BY <3>1 DEF ToSet
      <4>2. \A x \in 1..Len(in) : x < i BY <1>3
      <4> QED BY <1>1, <1>4, <4>1, <4>2
    <3>3. \A k \in 1..(n + 1) : k \in 1..n \/ k = n + 1 BY <3>1
    <3>4. \A k \in 1..(n + 1) : ~(n + 1 < k) BY <3>1
    <3> HIDE DEF t, i, n
    <3>5. \A k, l \in DOMAIN t : k < l => t[k] < t[l] BY <1>4, <3>1, <3>2, <3>3, <3>4 DEF Increasing
    <3>6. Increasing(t) BY <3>5 DEF Increasing
    <3> QED BY <2>2, <3>6 DEF t, i
  <2> QED BY <1>15, <2>1, <2>2
<1>18. TypeOK'
  <2>1. tcp'.pool \in 0..PoolSize /\ udp'.pool \in 0..PoolSize BY <1>8, <1>10, PoolRange
  <2>2. \A b \in ToSet(bufs)' : b.vnet \in -1..(LenSpace - 1) /\ b.len < LenSpace BY <1>13 DEF ToSet
  <2>3. ToSet(toWrite)' \subseteq DOMAIN bufs' BY <1>12, <1>13
  <2> QED BY <1>1, <1>2, <1>8, <1>13, <1>14, <1>16, <2>1, <2>2, <2>3 DEF TypeOK
<1>19. (RoundTrip /\ NoSpuriousPSH /\ ~Ready)' BY <1>2 DEF RoundTrip, NoSpuriousPSH, Ready
<1>20. PoolOK(tcp', Len(in')) /\ PoolOK(udp', Len(in')) BY <1>8, <1>10
<1> QED BY <1>2, <1>6, <1>7, <1>11, <1>13, <1>16, <1>17, <1>18, <1>19, <1>20 DEF GroInv

\* The header of an item fits in its fields.
LEMMA HeadedType ==
    ASSUME NEW b \in Buffers, b.vnet \in -1..(LenSpace - 1), b.len < LenSpace, NEW item, item.gsoSize \in 1..(LenSpace - 1)
    PROVE  Headed(b, item).vnet \in -1..(LenSpace - 1) /\ Headed(b, item).len < LenSpace
<1>1. LenSpace \in Nat \ {0} BY GROAssumption
<1>2. Len(b.payload) \in Nat /\ b.len \in Nat BY DEF Buffers
<1>3. CASE item.numMerged > 0
  <2> DEFINE h == [b EXCEPT !.vnet = item.gsoSize, !.csum = TRUE, !.len = Len(b.payload) % LenSpace]
  <2>1. Headed(b, item) = h BY <1>3 DEF Headed
  <2>2. h.vnet = item.gsoSize /\ h.len = Len(b.payload) % LenSpace BY DEF Buffers
  <2> DEFINE n == Len(b.payload)
  <2>3. n \in Nat /\ LenSpace \in Nat \ {0} BY <1>1, <1>2
  <2>4. h.len = n % LenSpace BY <2>2
  <2> HIDE DEF h, n
  <2>5. n % LenSpace < LenSpace BY ONLY <2>3
  <2>6. h.len < LenSpace BY ONLY <2>4, <2>5
  <2>7. h.vnet \in -1..(LenSpace - 1) BY ONLY <1>1, <2>2, item.gsoSize \in 1..(LenSpace - 1)
  <2> QED BY <2>1, <2>6, <2>7
<1>4. CASE ~(item.numMerged > 0)
  <2> DEFINE h == [b EXCEPT !.vnet = NoGSO]
  <2>1. Headed(b, item) = h BY <1>4 DEF Headed
  <2>2. h.vnet = NoGSO /\ h.len = b.len BY DEF Buffers
  <2> HIDE DEF h
  <2> QED BY <1>1, <2>1, <2>2 DEF NoGSO
<1> QED BY <1>3, <1>4

\* Every accounted buffer has a legal header.
LEMMA AccountedType ==
    ASSUME NEW lists, Groups(lists, in, bufs, Tables), in \in Seq(AllPackets), NEW w \in DOMAIN bufs, NEW c, AccountedAs(w, c)
    PROVE  c.vnet \in -1..(LenSpace - 1) /\ c.len < LenSpace
<1>1. /\ bufs[w] \in Buffers /\ bufs[w].vnet \in -1..(LenSpace - 1) /\ bufs[w].len < LenSpace
      /\ \A q \in Protos : \A key \in DOMAIN Tables[q] : \A j \in DOMAIN Tables[q][key] :
            Tables[q][key][j].gsoSize \in 1..(LenSpace - 1)
  BY GroupsType
<1>2. CASE c = bufs[w] BY <1>1, <1>2
<1>3. ASSUME NEW q \in Protos, NEW key \in DOMAIN Tables[q], NEW j \in DOMAIN Tables[q][key],
             c = Headed(bufs[w], Tables[q][key][j])
      PROVE  c.vnet \in -1..(LenSpace - 1) /\ c.len < LenSpace
  BY <1>1, <1>3, HeadedType
<1> QED BY <1>2, <1>3 DEF AccountedAs

\* What was received is what was sent.
SameAsSent(R) ==
    /\ Len(R) = Len(Sent)
    /\ {NoPSH(s) : s \in ToSet(R)} = {NoPSH(s) : s \in ToSet(Sent)}
    /\ \A s \in ToSet(R) : s.psh => Sent[s.id].psh

\* Every packet was received once, up to PSH.
LEMMA OnceEach ==
    ASSUME in \in Seq(AllPackets), NEW R, Len(R) = Len(in),
           \A m \in DOMAIN R : \E j \in 1..Len(in) : IsPacket(R[m], j),
           \A j \in 1..Len(in) : \E m \in DOMAIN R : IsPacket(R[m], j)
    PROVE  SameAsSent(R)
<1> DEFINE n == Len(in)
<1>1. n \in Nat /\ DOMAIN in = 1..n OBVIOUS
<1>2. DOMAIN Sent = 1..n BY <1>1 DEF Sent
<1>3. Len(Sent) = n
  <2>1. Sent = [k \in 1..n |-> Sent[k]] BY <1>1 DEF Sent
  <2> DEFINE S == Sent
  <2>2. S = [k \in 1..n |-> S[k]] BY <2>1
  <2> HIDE DEF S, n
  <2>3. Len(S) = n BY ONLY <1>1, <2>2
  <2> QED BY <2>3 DEF S
<1>4. \A s : s \in ToSet(R) <=> \E m \in DOMAIN R : s = R[m] BY DEF ToSet
<1>5. \A s : s \in ToSet(Sent) <=> \E j \in 1..n : s = Sent[j] BY <1>2 DEF ToSet
<1>6. ASSUME NEW j \in 1..n PROVE Sent[j].psh = (in[j].flags = "psh")
  BY <1>1 DEF Sent, Segment
<1>7. ASSUME NEW s \in ToSet(R), s.psh PROVE Sent[s.id].psh
  <2>1. PICK m \in DOMAIN R : s = R[m] BY <1>4
  <2>2. PICK j \in 1..n : IsPacket(s, j) BY <2>1
  <2>3. s.id = j /\ (s.psh = TRUE => in[j].flags = "psh") BY <2>2 DEF IsPacket
  <2>4. in[j].flags = "psh" BY <1>7, <2>3
  <2> QED BY <1>6, <2>3, <2>4
<1>8. \A m \in DOMAIN R : \E j \in 1..n : NoPSH(R[m]) = NoPSH(Sent[j]) BY DEF IsPacket
<1>9. \A j \in 1..n : \E m \in DOMAIN R : NoPSH(R[m]) = NoPSH(Sent[j]) BY DEF IsPacket
<1>10. {NoPSH(s) : s \in ToSet(R)} = {NoPSH(s) : s \in ToSet(Sent)}
  <2> HIDE DEF n
  <2>1. ASSUME NEW s \in ToSet(R) PROVE \E t \in ToSet(Sent) : NoPSH(s) = NoPSH(t) BY ONLY <1>4, <1>5, <1>8, s \in ToSet(R)
  <2>2. ASSUME NEW t \in ToSet(Sent) PROVE \E s \in ToSet(R) : NoPSH(t) = NoPSH(s) BY ONLY <1>4, <1>5, <1>9, t \in ToSet(Sent)
  <2> QED BY ONLY <2>1, <2>2
<1> QED BY <1>3, <1>7, <1>10 DEF SameAsSent

\* The end of the vector.
LEMMA GroAccount == GroInv /\ Account => GroInv'
<1> SUFFICES ASSUME GroInv, Account PROVE GroInv' OBVIOUS
<1> DEFINE nb == CoalesceAccounting(CoalesceAccounting(bufs, tcp), udp)
<1>1. /\ pc = "evaluate" /\ pc' = "write" /\ bufs' = nb /\ mode' = mode /\ in' = in /\ tcp' = tcp /\ udp' = udp
      /\ toWrite' = toWrite /\ next' = next /\ failed' = failed /\ err' = err /\ calls' = calls
  BY DEF Account, table
<1>2. in \in Seq(AllPackets) /\ Len(in) \in Nat
  <2>1. mode \in Modes /\ in \in Seq(Packets[mode]) BY DEF GroInv, TypeOK
  <2> QED BY ONLY <2>1, InPackets, InLength
<1>3. DOMAIN bufs = 1..Len(in) /\ toWrite \in Seq(Nat) /\ Increasing(toWrite) BY DEF GroInv
<1>4. PICK lists : DOMAIN lists = ToSet(toWrite) /\ Groups(lists, in, bufs, Tables) /\ FlowsOrdered(lists, in)
  BY <1>1 DEF GroInv, Grouped, Arranged
<1>5. DOMAIN nb = 1..Len(in) /\ Len(nb) = Len(in)
  <2>1. DOMAIN nb = 1..Len(in) BY <1>3 DEF CoalesceAccounting
  <2>2. nb = [b \in 1..Len(in) |-> nb[b]] BY <1>3 DEF CoalesceAccounting
  <2> DEFINE n == Len(in)
  <2> HIDE DEF nb, n
  <2>3. Len(nb) = n
    <3>1. nb = [b \in 1..n |-> nb[b]] /\ n \in Nat BY <1>2, <2>2 DEF n
    <3> QED BY ONLY <3>1
  <2> QED BY <2>1, <2>3 DEF n
<1>6. \A w \in DOMAIN bufs : AccountedAs(w, nb[w]) BY <1>4, AccountBuffers
<1> HIDE DEF nb
<1>7. \A w \in DOMAIN nb : nb[w].vnet \in -1..(LenSpace - 1) /\ nb[w].len < LenSpace
  BY <1>2, <1>3, <1>4, <1>5, <1>6, AccountedType
<1> DEFINE segs == [k \in DOMAIN toWrite |-> Cut(toWrite[k], nb[toWrite[k]])]
<1>8. Received' = FlattenSeq(segs)
  <2>1. \A k \in DOMAIN toWrite : Segments(toWrite[k])' = Cut(toWrite[k], nb[toWrite[k]])
    BY <1>1 DEF Segments, Cut, Count, CutAt
  <2>2. [k \in DOMAIN toWrite |-> Segments(toWrite[k])]' = segs BY <1>1, <2>1
  <2> QED BY <2>2 DEF Received
<1>9. DOMAIN lists \subseteq DOMAIN bufs BY <1>3, <1>4 DEF Groups, ListsOK
<1>10. AllSegments(segs, lists)
  <2>1. ASSUME NEW k \in DOMAIN toWrite PROVE ArePackets(segs[k], lists[toWrite[k]])
    <3>1. toWrite[k] \in DOMAIN lists BY <1>4 DEF ToSet
    <3>2. AccountedAs(toWrite[k], nb[toWrite[k]]) BY <1>6, <1>9, <3>1
    <3>3. ArePackets(Cut(toWrite[k], nb[toWrite[k]]), lists[toWrite[k]]) BY <1>2, <1>4, <3>1, <3>2, AllCut
    <3> QED BY <3>3
  <2> QED BY <2>1 DEF AllSegments
<1>11. SameAsSent(FlattenSeq(segs)) /\ FlowOrderOf(FlattenSeq(segs), in)
  <2>1. segs = [k \in DOMAIN toWrite |-> segs[k]] OBVIOUS
  <2>2. ListsOK(lists, in) BY <1>4 DEF Groups
  <2> DEFINE R == FlattenSeq(segs)
  <2>3. R = FlattenSeq(segs) OBVIOUS
  <2> HIDE DEF segs, R
  <2>4. /\ Len(R) = Len(in)
        /\ \A m \in DOMAIN R : \E j \in 1..Len(in) : IsPacket(R[m], j)
        /\ \A j \in 1..Len(in) : \E m \in DOMAIN R : IsPacket(R[m], j)
        /\ Sequenced(R, lists)
    <3>1. IsInjective(toWrite) BY <1>3, IncreasingInjective
    <3> QED BY ONLY <1>2, <1>3, <1>4, <1>10, <2>1, <2>2, <2>3, <3>1, FlatPackets
  <2>5. SameAsSent(R) BY ONLY <1>2, <2>4, OnceEach
  <2>6. FlowOrderOf(R, in) BY ONLY <1>4, <2>4, ReceivedOrder
  <2> QED BY ONLY <2>5, <2>6 DEF R
<1> HIDE DEF segs
<1>12. (RoundTrip /\ NoSpuriousPSH)'
  <2>1. Sent' = Sent BY <1>1 DEF Sent
  <2> DEFINE R == Received'
             S == Sent'
  <2>2. SameAsSent(R) BY <1>8, <1>11
  <2>3. S = Sent BY <2>1
  <2> HIDE DEF R, S
  <2>4. /\ Len(R) = Len(S)
        /\ {NoPSH(s) : s \in ToSet(R)} = {NoPSH(s) : s \in ToSet(S)}
        /\ \A s \in ToSet(R) : s.psh => S[s.id].psh
    BY ONLY <2>2, <2>3 DEF SameAsSent
  <2>5. /\ Len(R) = Len(S)
        /\ {NoPSH(s)' : s \in ToSet(R)} = {NoPSH(s)' : s \in ToSet(S)}
    BY ONLY <2>4 DEF NoPSH
  <2> QED BY ONLY <2>4, <2>5 DEF R, S, RoundTrip, NoSpuriousPSH, Ready
<1>13. FlowOrderOf(Received, in)' BY <1>1, <1>8, <1>11
<1>14. TypeOK'
  <2>1. /\ mode \in Modes /\ in \in Seq(Packets[mode]) /\ Len(in) <= MaxBatch
        /\ tcp.pool \in 0..PoolSize /\ udp.pool \in 0..PoolSize
        /\ (\A item \in Items(tcp) \cup Items(udp) : item.bufsIndex \in ToSet(toWrite) /\ item.gsoSize \in 1..(LenSpace - 1))
        /\ ToSet(toWrite) \subseteq DOMAIN bufs /\ next \in 1..(Len(toWrite) + 1) /\ failed \in BOOLEAN
        /\ err \in {"nil", "invalid offset", "closed", "joined"} /\ calls \in 0..MaxCalls
    BY DEF GroInv, TypeOK
  <2>2. Items(tcp)' = Items(tcp) /\ Items(udp)' = Items(udp) /\ ToSet(toWrite)' = ToSet(toWrite) BY <1>1
  <2>3. \A b \in ToSet(bufs)' : b.vnet \in -1..(LenSpace - 1) /\ b.len < LenSpace BY <1>1, <1>7 DEF ToSet
  <2> QED BY <1>1, <1>3, <1>5, <2>1, <2>2, <2>3 DEF TypeOK
<1>15. PoolConserved' BY <1>1 DEF GroInv, PoolConserved
<1>16. PoolOK(tcp', Len(in')) /\ PoolOK(udp', Len(in')) BY <1>1 DEF GroInv
<1>17. toWrite' \in Seq(Nat) /\ Increasing(toWrite)' /\ DOMAIN bufs' = 1..Len(in') BY <1>1, <1>3, <1>5 DEF Increasing
<1> QED BY <1>1, <1>12, <1>13, <1>14, <1>15, <1>16, <1>17 DEF GroInv

\* One buffer is written.
LEMMA GroWriteBuffer == GroInv /\ WriteBuffer => GroInv'
<1> SUFFICES ASSUME GroInv, WriteBuffer PROVE GroInv' OBVIOUS
<1>1. /\ pc = "write" /\ pc' = "write" /\ next <= Len(toWrite) /\ next' = next + 1 /\ failed' \in {failed, TRUE}
      /\ mode' = mode /\ in' = in /\ bufs' = bufs /\ tcp' = tcp /\ udp' = udp /\ toWrite' = toWrite
      /\ err' = err /\ calls' = calls
  BY DEF WriteBuffer, table
<1>2. next \in 1..(Len(toWrite) + 1) /\ toWrite \in Seq(Nat) BY DEF GroInv, TypeOK
<1>3. next' \in 1..(Len(toWrite) + 1) /\ next' # 1 BY <1>1, <1>2
<1>4. (RoundTrip /\ NoSpuriousPSH /\ ~Ready)' BY <1>3 DEF RoundTrip, NoSpuriousPSH, Ready
<1>5. TypeOK'
  <2>1. failed' \in BOOLEAN BY <1>1 DEF GroInv, TypeOK
  <2>2. Items(tcp)' = Items(tcp) /\ Items(udp)' = Items(udp) /\ ToSet(toWrite)' = ToSet(toWrite) /\ ToSet(bufs)' = ToSet(bufs)
    BY <1>1
  <2> QED BY <1>1, <1>3, <2>1, <2>2 DEF GroInv, TypeOK
<1>6. PoolConserved' BY <1>1 DEF GroInv, PoolConserved
<1>7. Increasing(toWrite)' BY <1>1 DEF GroInv
<1> QED BY <1>1, <1>4, <1>5, <1>6, <1>7 DEF GroInv

\* Every step of the write path keeps the invariant.
LEMMA GroStep == GroInv /\ [Next]_vars => GroInv'
<1> SUFFICES ASSUME GroInv, [Next]_vars PROVE GroInv' OBVIOUS
<1>1. CASE Write BY <1>1, GroWrite
<1>2. ASSUME NEW p \in Packets[mode], Evaluate(p) PROVE GroInv' BY <1>2, GroEvaluate
<1>3. ASSUME NEW p \in Packets[mode], InvalidOffset(p) PROVE GroInv'
  <2>1. Return("invalid offset") BY <1>3 DEF InvalidOffset
  <2> QED BY <2>1, GroReturn
<1>4. CASE Account BY <1>4, GroAccount
<1>5. CASE WriteBuffer BY <1>5, GroWriteBuffer
<1>6. CASE FileClosed
  <2>1. Return("closed") BY <1>6 DEF FileClosed
  <2> QED BY <2>1, GroReturn
<1>7. CASE WriteReturns
  <2>1. Return("joined") \/ Return("nil") BY <1>7 DEF WriteReturns
  <2> QED BY <2>1, GroReturn
<1>8. CASE UNCHANGED vars
  <2>1. /\ mode' = mode /\ pc' = pc /\ in' = in /\ bufs' = bufs /\ tcp' = tcp /\ udp' = udp /\ toWrite' = toWrite
        /\ next' = next /\ failed' = failed /\ err' = err /\ calls' = calls
    BY <1>8 DEF vars, table
  <2>2. Received' = Received /\ Sent' = Sent BY <2>1 DEF Received, Sent, Segments
  <2>3. (RoundTrip /\ NoSpuriousPSH)' BY <2>1, <2>2 DEF GroInv, RoundTrip, NoSpuriousPSH, Ready, NoPSH
  <2>4. (TypeOK /\ PoolConserved)' BY <2>1 DEF GroInv, TypeOK, PoolConserved, Items
  <2>5. (pc = "evaluate" => Grouped /\ UdpFull)'
    <3>1. Tables' = Tables BY <2>1 DEF Tables
    <3>2. ASSUME NEW lists, Arranged(lists) PROVE Arranged(lists)' BY <2>1, <3>1, <3>2 DEF Arranged
    <3> QED BY <2>1, <3>2 DEF GroInv, Grouped, UdpFull
  <2>6. (Ready => FlowOrderOf(Received, in))' BY <2>1, <2>2 DEF GroInv, Ready
  <2>7. Increasing(toWrite)' BY <2>1 DEF GroInv
  <2> QED BY <2>1, <2>3, <2>4, <2>5, <2>6, <2>7 DEF GroInv
<1> QED BY <1>1, <1>2, <1>3, <1>4, <1>5, <1>6, <1>7, <1>8 DEF Next

\* In every state.
LEMMA GroInvariant == Spec => []GroInv
<1>1. Init => GroInv BY GroInit
<1>2. GroInv /\ [Next]_vars => GroInv' BY GroStep
<1> QED BY <1>1, <1>2, PTL DEF Spec

\* Type correctness: an item of a table describes a buffer of this call that is
\* written, with a segment size that fits its header, and the pools never run out.
THEOREM GroTypeCorrect == Spec => []TypeOK
<1>1. GroInv => TypeOK BY DEF GroInv
<1> QED BY <1>1, GroInvariant, PTL

\* No slice of the item pools is lost or used twice, on any return path of Write.
THEOREM SlicesConserved == Spec => []PoolConserved
<1>1. GroInv => PoolConserved BY DEF GroInv
<1> QED BY <1>1, GroInvariant, PTL

\* However handleGRO merges, the kernel receives exactly the packets passed to Write.
THEOREM PacketsRoundTrip == Spec => []RoundTrip
<1>1. GroInv => RoundTrip BY DEF GroInv
<1> QED BY <1>1, GroInvariant, PTL

\* Merging never puts PSH on a segment that came without it.
THEOREM NoPSHAdded == Spec => []NoSpuriousPSH
<1>1. GroInv => NoSpuriousPSH BY DEF GroInv
<1> QED BY <1>1, GroInvariant, PTL

\* However handleGRO merges, refuses or deletes items, the datagrams of a flow that
\* enter the table keep their order, and a TCP flow passed in sequence is delivered
\* in sequence.
THEOREM FlowsInOrder == Spec => []FlowOrder
<1>1. GroInv => FlowOrder
  <2> SUFFICES ASSUME GroInv PROVE FlowOrder OBVIOUS
  <2>1. mode \in Modes /\ in \in Seq(Packets[mode]) BY DEF GroInv, TypeOK
  <2>2. in \in Seq(AllPackets) BY ONLY <2>1, InPackets
  <2>3. Ready => FlowOrderOf(Received, in) BY DEF GroInv
  <2> QED BY ONLY <2>2, <2>3, FlowOrderFrom
<1> QED BY <1>1, GroInvariant, PTL
=============================================================================
