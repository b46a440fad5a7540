--------------------------------- MODULE GRO ---------------------------------
(***************************************************************************)
(* The write path of the Linux TUN device: NativeTun.Write (tun_linux.go)  *)
(* and the generic receive offload it runs over a vector of packets        *)
(* (offload_linux.go).  Packets of one flow that are adjacent are merged   *)
(* into one buffer, which is written with a virtio header that lets the    *)
(* kernel cut it into segments again.                                      *)
(*                                                                         *)
(* One goroutine at a time is in Write (writeOpMu), so the state is that   *)
(* of one call.  Packets are chosen one by one, as handleGRO comes to      *)
(* them: it looks at no packet before its turn.  Abstractions of a packet: *)
(*   flow   the flow key: addresses, ports, IP version and, for TCP, the   *)
(*          acknowledgement number;                                        *)
(*   hdr    every other header byte that is compared before a merge: TOS / *)
(*          traffic class, TTL / hop limit, DF, TCP header length, options;*)
(*   flags  "ack", "psh" (PSH and ACK) or "other";                         *)
(*   valid  the checks of lines 533-565 / 784-812: length fields agree with*)
(*          the buffer, header lengths are legal, no fragment;             *)
(*   csum   the transport checksum is correct;                             *)
(*   room   payload bytes that fit in the buffer's capacity.               *)
(* A payload is a sequence of byte tokens <<packet, position>>.            *)
(***************************************************************************)
EXTENDS Integers, Sequences, FiniteSets, SequencesExt

CONSTANTS Packets,     \* Packets[m]: packets that can be written in mode m
          MaxBatch,    \* bound: packets in one call of Write
          MaxCalls,    \* bound: calls of Write
          PoolSize,    \* conn.IdealBatchSize: slices in an item pool
          SeqSpace,    \* 2^32: TCP sequence numbers wrap
          LenSpace     \* 2^16: lengths are uint16

\* The outcomes of initFromFlags: "none", "tcp" or "tcp+udp".
Modes == DOMAIN Packets

ASSUME GROAssumption ==
    /\ MaxBatch \in Nat /\ PoolSize \in Nat /\ MaxBatch <= PoolSize
    /\ MaxCalls \in Nat
    /\ SeqSpace \in Nat \ {0} /\ LenSpace \in Nat \ {0}
    /\ Modes \subseteq {"none", "tcp", "tcp+udp"}
    /\ \A m \in Modes : \A p \in Packets[m] :
          /\ p.proto \in {"tcp", "udp", "other"}
          /\ p.flags \in {"ack", "psh", "other"} /\ p.csum \in BOOLEAN
          /\ p.seq \in 0..(SeqSpace - 1)
          /\ p.proto # "tcp" => p.flags = "ack" /\ p.seq = 0   \* it has neither
          /\ p.room \in Nat /\ p.room < LenSpace
          /\ p.len \in 0..p.room

\* The bytes of one call have different sequence numbers (128 * 2^16 < 2^32).
ASSUME StreamAssumption == MaxBatch * LenSpace <= SeqSpace

VARIABLES
    mode,     \* what the kernel supports: no virtio header, TCP, TCP and UDP
    pc,       \* "idle", "evaluate" (handleGRO's loop) or "write"
    in,       \* the packets of this call, as they were passed in
    bufs,     \* bufs: the buffers of this call
    tcp,      \* tcpGROTable: [items, pool]
    udp,      \* udpGROTable: [items, pool]
    toWrite,  \* indices of the buffers to write
    next,     \* position in toWrite
    failed,   \* errs # nil
    err,      \* the error the last call returned
    calls     \* calls of Write

table == <<tcp, udp>>
vars == <<mode, pc, in, bufs, table, toWrite, next, failed, err, calls>>

Stale == -1     \* bytes left in front of the packet by its former user
NoGSO == 0      \* the zero virtioNetHdr: "one packet, nothing to do"

-----------------------------------------------------------------------------
(* The flow tables.                                                        *)

EmptyTable == [items |-> <<>>, pool |-> PoolSize]

\* The table with these items for a flow, for which a slice is taken if it is new.
With(t, key, items) ==
    [items |-> [k \in DOMAIN t.items \cup {key} |-> IF k = key THEN items ELSE t.items[k]],
     pool  |-> IF key \in DOMAIN t.items THEN t.pool ELSE t.pool - 1]

\* Mutant of insert: the flow's newest item comes first.
insertFront(t, key, item) ==
    With(t, key, IF key \in DOMAIN t.items THEN <<item>> \o t.items[key] ELSE <<item>>)

\* Mutant of insert: every item takes a slice, also one of a known flow.
insertAlwaysTakes(t, key, item) ==
    [With(t, key, IF key \in DOMAIN t.items THEN Append(t.items[key], item) ELSE <<item>>)
        EXCEPT !.pool = t.pool - 1]

\* insert appends an item.
insert(t, key, item) ==
    With(t, key, IF key \in DOMAIN t.items THEN Append(t.items[key], item) ELSE <<item>>)

reset(t) == [items |-> <<>>, pool |-> t.pool + Cardinality(DOMAIN t.items)]

newTCPItem(p, i) == [bufsIndex |-> i, numMerged |-> 0, gsoSize |-> p.len,
                     sentSeq |-> p.seq, pshSet |-> p.flags = "psh"]

newUDPItem(p, i, invalid) == [bufsIndex |-> i, numMerged |-> 0, gsoSize |-> p.len,
                              cSumKnownInvalid |-> invalid]

-----------------------------------------------------------------------------
(* May packet p be merged with the packet an item describes?               *)

ipHeadersCanCoalesce(p, target) == p.hdr = target.hdr

udpPacketsCanCoalesce(p, item) ==
    LET target == bufs[item.bufsIndex] IN
    IF /\ ipHeadersCanCoalesce(p, target)
       /\ Len(target.payload) % item.gsoSize = 0
       /\ p.len <= item.gsoSize
      THEN "append" ELSE "unavailable"

\* Mutant of tcpPacketsCanCoalesce: a short tail does not prevent an append.
tcpAppendAfterShort(p, item) ==
    LET target == bufs[item.bufsIndex]
        lhsLen == (item.gsoSize + item.numMerged * item.gsoSize) % LenSpace
    IN IF ~ipHeadersCanCoalesce(p, target)
         THEN "unavailable"
       ELSE IF p.seq = (item.sentSeq + lhsLen) % SeqSpace
         THEN IF item.pshSet THEN "unavailable" ELSE "append"
       ELSE "unavailable"

\* Mutant of tcpPacketsCanCoalesce: PSH does not end a group.
tcpAppendAfterPSH(p, item) ==
    LET target == bufs[item.bufsIndex]
        lhsLen == (item.gsoSize + item.numMerged * item.gsoSize) % LenSpace
    IN IF /\ ipHeadersCanCoalesce(p, target)
          /\ p.seq = (item.sentSeq + lhsLen) % SeqSpace
          /\ Len(target.payload) % item.gsoSize = 0
          /\ p.len <= item.gsoSize
         THEN "append" ELSE "unavailable"

tcpPacketsCanCoalesce(p, item) ==
    LET target == bufs[item.bufsIndex]
        lhsLen == (item.gsoSize + item.numMerged * item.gsoSize) % LenSpace
    IN IF ~ipHeadersCanCoalesce(p, target)
         THEN "unavailable"
       ELSE IF p.seq = (item.sentSeq + lhsLen) % SeqSpace  \* p follows item
         THEN IF \/ item.pshSet
                 \/ Len(target.payload) % item.gsoSize # 0
                 \/ p.len > item.gsoSize
                THEN "unavailable" ELSE "append"
       ELSE IF (p.seq + p.len) % SeqSpace = item.sentSeq   \* p precedes item
         THEN IF \/ p.flags = "psh"
                 \/ p.len < item.gsoSize
                 \/ p.len > item.gsoSize /\ item.numMerged > 0
                THEN "unavailable" ELSE "prepend"
       ELSE "unavailable"

(* The checks the coalesce functions make before they copy: front is the   *)
(* buffer that will hold both payloads.                                    *)
CoalesceResult(p, item, front, knownInvalid) ==
    LET target == bufs[item.bufsIndex] IN
    IF front.room < Len(target.payload) + p.len
      THEN "insufficientCap"
    ELSE IF item.numMerged = 0 /\ (knownInvalid \/ ~target.csum)
      THEN "itemInvalidCSum"
    ELSE IF ~p.csum THEN "pktInvalidCSum"
    ELSE "success"

tryCoalesceTCP(p, item) ==
    LET can == tcpPacketsCanCoalesce(p, item) IN
    IF can = "unavailable" THEN can
      ELSE CoalesceResult(p, item,
               IF can = "prepend" THEN p ELSE bufs[item.bufsIndex], FALSE)

-----------------------------------------------------------------------------
(* One packet's evaluation.  Each operator returns the new buffers, the    *)
(* new table and what became of the packet: "noop" (left alone), "insert"  *)
(* (an item of its own) or "coalesced".  b is the packet's buffer and i    *)
(* its index.                                                              *)

Buffer(p, i) ==
    [proto |-> p.proto, flow |-> p.flow, hdr |-> p.hdr, seq |-> p.seq,
     flags |-> p.flags, csum |-> p.csum, room |-> p.room, len |-> p.len,
     payload |-> [k \in 1..p.len |-> <<i, k>>], vnet |-> Stale]

Noop(bs, t)  == [bufs |-> bs, table |-> t, res |-> "noop"]

packetIsGROCandidate(p) == \/ p.proto = "tcp"
                           \/ p.proto = "udp" /\ mode = "tcp+udp"

\* bufs after p was copied behind (append) or in front of (prepend) an item.
\* A prepend swaps the buffers: the item's index is the one being written.
coalesceTCPPackets(bs, p, i, item) ==
    LET k == item.bufsIndex
        target == bs[k]
    IN IF tcpPacketsCanCoalesce(p, item) = "prepend"
         THEN [bs EXCEPT ![k] = [bs[i] EXCEPT !.payload = @ \o target.payload],
                         ![i] = target]
         ELSE [bs EXCEPT ![k].payload = @ \o bs[i].payload,
                         ![k].flags = IF p.flags = "psh" THEN "psh" ELSE @]

coalescedTCPItem(p, item) ==
    [bufsIndex |-> item.bufsIndex, numMerged |-> item.numMerged + 1,
     gsoSize |-> IF p.len > item.gsoSize THEN p.len ELSE item.gsoSize,
     sentSeq |-> IF tcpPacketsCanCoalesce(p, item) = "prepend" THEN p.seq ELSE item.sentSeq,
     pshSet |-> item.pshSet \/ p.flags = "psh"]

\* The numbers of a set in their order.
Sorted(S) ==
    CHOOSE k \in [1..Cardinality(S) -> S] : \A m, n \in DOMAIN k : m < n => k[m] < k[n]

(* tcpGRO walks the flow's items from the last to the first.  It stops at  *)
(* the first item that takes the packet, or at a bad checksum of the       *)
(* packet; the items with a bad checksum it met before are deleted and     *)
(* their virtio headers zeroed.                                            *)
tcpGRO(bs, p, i) ==
    IF ~p.valid \/ p.flags = "other" \/ p.len < 1
      THEN Noop(bs, tcp)
    ELSE IF p.flow \notin DOMAIN tcp.items
      THEN [bufs |-> bs, table |-> insert(tcp, p.flow, newTCPItem(p, i)), res |-> "insert"]
    ELSE
      LET items  == tcp.items[p.flow]
          tried  == [j \in DOMAIN items |-> tryCoalesceTCP(p, items[j])]
          stop   == Max({0} \cup {j \in DOMAIN items :
                                     tried[j] \in {"success", "pktInvalidCSum"}})
          bad    == {j \in DOMAIN items : j > stop /\ tried[j] = "itemInvalidCSum"}
          kept   == Sorted(DOMAIN items \ bad)
          Pruned(is) == With(tcp, p.flow, [n \in DOMAIN kept |-> is[kept[n]]])
          zeroed == [b \in DOMAIN bs |->
                        IF \E j \in bad : items[j].bufsIndex = b
                          THEN [bs[b] EXCEPT !.vnet = NoGSO] ELSE bs[b]]
      IN IF stop = 0
           THEN [bufs |-> zeroed,
                 table |-> insert(Pruned(items), p.flow, newTCPItem(p, i)),
                 res |-> "insert"]
         ELSE IF tried[stop] = "pktInvalidCSum"
           THEN Noop(zeroed, Pruned(items))
         ELSE [bufs |-> coalesceTCPPackets(zeroed, p, i, items[stop]),
               table |-> Pruned([items EXCEPT ![stop] = coalescedTCPItem(p, @)]),
               res |-> "coalesced"]

(* udpGRO tries the flow's last item only, and always inserts an item when *)
(* the packet was not merged.                                              *)
udpGRO(bs, p, i) ==
    IF ~p.valid \/ p.len < 1
      THEN Noop(bs, udp)
    ELSE IF p.flow \notin DOMAIN udp.items
      THEN [bufs |-> bs, table |-> insert(udp, p.flow, newUDPItem(p, i, FALSE)), res |-> "insert"]
    ELSE
      LET items == udp.items[p.flow]
          item  == Last(items)
          k     == item.bufsIndex
          tried == IF udpPacketsCanCoalesce(p, item) = "append"
                     THEN CoalesceResult(p, item, bs[k], item.cSumKnownInvalid)
                     ELSE "unavailable"
      IN IF tried = "success"
           THEN [bufs |-> [bs EXCEPT ![k].payload = @ \o bs[i].payload],
                 table |-> With(udp, p.flow, [items EXCEPT ![Len(items)].numMerged = @ + 1]),
                 res |-> "coalesced"]
           ELSE [bufs |-> bs,
                 table |-> insert(udp, p.flow, newUDPItem(p, i, tried = "pktInvalidCSum")),
                 res |-> "insert"]

Evaluated(bs, p, i) == IF ~packetIsGROCandidate(p) THEN Noop(bs, tcp)
                       ELSE IF p.proto = "tcp" THEN tcpGRO(bs, p, i)
                       ELSE udpGRO(bs, p, i)

(* applyTCPCoalesceAccounting and applyUDPCoalesceAccounting: every buffer *)
(* of an item gets its virtio header; a merged one gets its new length and *)
(* a checksum the kernel completes.                                        *)
Items(t) == UNION {ToSet(t.items[key]) : key \in DOMAIN t.items}

CoalesceAccounting(bs, t) ==
    [b \in DOMAIN bs |->
        IF \E item \in Items(t) : item.bufsIndex = b
          THEN LET item == CHOOSE it \in Items(t) : it.bufsIndex = b IN
               IF item.numMerged > 0
                 THEN [bs[b] EXCEPT !.vnet = item.gsoSize, !.csum = TRUE,
                                    !.len = Len(bs[b].payload) % LenSpace]
                 ELSE [bs[b] EXCEPT !.vnet = NoGSO]
          ELSE bs[b]]

-----------------------------------------------------------------------------
Init ==
    /\ mode \in Modes
    /\ pc = "idle"
    /\ in = <<>> /\ bufs = <<>>
    /\ tcp = EmptyTable /\ udp = EmptyTable
    /\ toWrite = <<>> /\ next = 1
    /\ failed = FALSE /\ err = "nil"
    /\ calls = 0

\* Write is entered: toWrite is truncated, the tables are as the last call left them.
Write ==
    /\ pc = "idle" /\ calls < MaxCalls
    /\ pc' = "evaluate"
    /\ in' = <<>> /\ bufs' = <<>> /\ toWrite' = <<>> /\ next' = 1
    /\ failed' = FALSE /\ err' = "nil"
    /\ calls' = calls + 1
    /\ UNCHANGED <<mode, table>>

\* Write returns; its deferred function resets the tables.
Return(e) ==
    /\ pc' = "idle"
    /\ err' = e
    /\ tcp' = reset(tcp) /\ udp' = reset(udp)
    /\ UNCHANGED <<mode, in, bufs, toWrite, next, failed, calls>>

\* One iteration of handleGRO's loop; without virtio headers every buffer is
\* written as it is.
Evaluate(p) ==
    /\ pc = "evaluate" /\ Len(in) < MaxBatch
    /\ p.offsetOK \/ mode = "none"
    /\ in' = Append(in, p)
    /\ LET i  == Len(bufs) + 1
           bs == Append(bufs, Buffer(p, i))
           e  == Evaluated(bs, p, i)
       IN IF mode = "none"
            THEN /\ bufs' = [bs EXCEPT ![i].vnet = NoGSO]
                 /\ toWrite' = Append(toWrite, i)
                 /\ UNCHANGED table
            ELSE /\ bufs' = IF e.res = "noop" THEN [e.bufs EXCEPT ![i].vnet = NoGSO]
                                              ELSE e.bufs
                 /\ toWrite' = IF e.res = "coalesced" THEN toWrite ELSE Append(toWrite, i)
                 /\ tcp' = IF p.proto = "tcp" THEN e.table ELSE tcp
                 /\ udp' = IF p.proto = "udp" /\ packetIsGROCandidate(p) THEN e.table ELSE udp
    /\ UNCHANGED <<mode, pc, next, failed, err, calls>>

\* Mutant of InvalidOffset: the early return leaves the tables as they are.
InvalidOffsetNoReset(p) ==
    /\ pc = "evaluate" /\ Len(in) < MaxBatch
    /\ mode # "none" /\ ~p.offsetOK
    /\ pc' = "idle"
    /\ err' = "invalid offset"
    /\ UNCHANGED <<mode, in, bufs, table, toWrite, next, failed, calls>>

\* A buffer shorter than the offset ends the call; nothing is written.
InvalidOffset(p) ==
    /\ pc = "evaluate" /\ Len(in) < MaxBatch
    /\ mode # "none" /\ ~p.offsetOK
    /\ Return("invalid offset")

\* The end of the vector: the virtio headers of the items are filled in.
Account ==
    /\ pc = "evaluate"
    /\ pc' = "write"
    /\ bufs' = CoalesceAccounting(CoalesceAccounting(bufs, tcp), udp)
    /\ UNCHANGED <<mode, in, table, toWrite, next, failed, err, calls>>

\* tunFile.Write of one buffer: it is taken whole, it fails, or the file is closed.
WriteBuffer ==
    /\ pc = "write" /\ next <= Len(toWrite)
    /\ next' = next + 1
    /\ failed' \in {failed, TRUE}
    /\ UNCHANGED <<mode, pc, in, bufs, table, toWrite, err, calls>>

FileClosed ==
    /\ pc = "write" /\ next <= Len(toWrite)
    /\ Return("closed")

WriteReturns ==
    /\ pc = "write" /\ next > Len(toWrite)
    /\ Return(IF failed THEN "joined" ELSE "nil")

Next == \/ Write
        \/ \E p \in Packets[mode] : Evaluate(p) \/ InvalidOffset(p)
        \/ Account \/ WriteBuffer \/ FileClosed \/ WriteReturns

Spec == Init /\ [][Next]_vars

-----------------------------------------------------------------------------
(* What the kernel makes of the written buffers.                           *)

Segment(id, b, seq, psh, payload) ==
    [id |-> id, proto |-> b.proto, flow |-> b.flow, hdr |-> b.hdr, csum |-> b.csum,
     seq |-> seq, psh |-> psh, payload |-> payload]

\* The kernel cuts a buffer every gsoSize bytes; PSH stays on the last segment.
Segments(i) ==
    LET b   == bufs[i]
        n   == IF b.vnet <= 0 THEN 1 ELSE (b.len + b.vnet - 1) \div b.vnet
        From(k) == (k - 1) * b.vnet + 1
        To(k)   == IF k = n THEN b.len ELSE k * b.vnet
    IN CASE b.vnet = Stale -> <<>>
         [] b.vnet = NoGSO -> <<Segment(i, b, b.seq, b.flags = "psh", b.payload)>>
         [] OTHER -> [k \in 1..n |->
                Segment(b.payload[From(k)][1], b,
                        IF b.proto = "tcp" THEN (b.seq + (k - 1) * b.vnet) % SeqSpace ELSE b.seq,
                        b.flags = "psh" /\ k = n,
                        SubSeq(b.payload, From(k), To(k)))]

Received == FlattenSeq([k \in DOMAIN toWrite |-> Segments(toWrite[k])])

Sent == [i \in DOMAIN in |->
            Segment(i, in[i], in[i].seq, in[i].flags = "psh", Buffer(in[i], i).payload)]

NoPSH(s) == [s EXCEPT !.psh = FALSE]

(* TypeOK: the tables hold items of this call's buffers, the pools never   *)
(* run out and what is to be written exists.                               *)
TypeOK ==
    /\ mode \in Modes
    /\ pc \in {"idle", "evaluate", "write"}
    /\ in \in Seq(Packets[mode]) /\ Len(in) <= MaxBatch
    /\ Len(bufs) = Len(in)
    /\ \A b \in ToSet(bufs) : b.vnet \in -1..(LenSpace - 1) /\ b.len < LenSpace
    /\ tcp.pool \in 0..PoolSize /\ udp.pool \in 0..PoolSize
    /\ \A item \in Items(tcp) \cup Items(udp) :
          /\ item.bufsIndex \in ToSet(toWrite)
          /\ item.gsoSize \in 1..(LenSpace - 1)
    /\ ToSet(toWrite) \subseteq DOMAIN bufs
    /\ next \in 1..(Len(toWrite) + 1)
    /\ failed \in BOOLEAN
    /\ err \in {"nil", "invalid offset", "closed", "joined"}
    /\ calls \in 0..MaxCalls

\* The moment handleGRO has returned; the write loop changes no buffer.
Ready == pc = "write" /\ next = 1

(* RoundTrip: whatever was merged, in whatever order it came, the kernel   *)
(* receives exactly the packets that were passed to Write: each one once,  *)
(* with its flow, its header, its sequence number (across wraparound) and  *)
(* its bytes, no packet with a bad checksum hidden in a merged one, and no *)
(* buffer with a stale virtio header.  PSH is apart (NoSpuriousPSH).       *)
RoundTrip ==
    Ready =>
        /\ Len(Received) = Len(Sent)
        /\ {NoPSH(s) : s \in ToSet(Received)} = {NoPSH(s) : s \in ToSet(Sent)}

(* NoSpuriousPSH: merging never puts PSH on a segment that came without.   *)
NoSpuriousPSH ==
    Ready => \A s \in ToSet(Received) : s.psh => Sent[s.id].psh

InOrder(ids) ==
    \A m, n \in DOMAIN Received :
        /\ m < n
        /\ {Received[m].id, Received[n].id} \subseteq ids
        => Received[m].id < Received[n].id

FlowOf(proto, flow) == {i \in DOMAIN in : in[i].proto = proto /\ in[i].flow = flow}
Flows == {p.flow : p \in ToSet(in)}

(* FlowOrder: the datagrams of a flow that enter the table keep their     *)
(* order, also when one has a bad checksum or different headers; and a TCP *)
(* flow whose segments are passed in sequence is delivered in sequence,    *)
(* whatever is merged, refused or deleted on the way.                      *)
FlowOrder ==
    Ready => \A f \in Flows :
        /\ InOrder({i \in FlowOf("udp", f) : in[i].valid /\ in[i].len > 0})
        /\ LET ids == {i \in FlowOf("tcp", f) : in[i].len > 0} IN
           (\A i, j \in ids :
               i < j /\ (\A k \in ids : ~(i < k /\ k < j))
               => in[j].seq = (in[i].seq + in[i].len) % SeqSpace)
           => InOrder(ids)

(* PoolConserved: no slice of the item pools is lost or used twice, on any *)
(* return path, and no item survives the call it belongs to.               *)
PoolConserved ==
    /\ tcp.pool + Cardinality(DOMAIN tcp.items) = PoolSize
    /\ udp.pool + Cardinality(DOMAIN udp.items) = PoolSize
    /\ pc = "idle" => DOMAIN tcp.items = {} /\ DOMAIN udp.items = {}

=============================================================================
