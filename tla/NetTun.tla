-------------------------------- MODULE NetTun --------------------------------
(***************************************************************************)
(* The netstack device and its ping sockets (netstack/tun.go).  A          *)
(* goroutine that sends puts a packet in the queue of the link endpoint    *)
(* and then runs WriteNotify itself, which takes a packet from the queue,  *)
(* perhaps another one, and blocks until somebody calls Read.  Write hands *)
(* packets to the stack, which may answer on the spot, in the goroutine    *)
(* that called Write.                                                      *)
(*                                                                         *)
(* gVisor's stack, endpoint queue and waiter queue are external.  A panic  *)
(* ends the program.                                                       *)
(***************************************************************************)
EXTENDS Integers, Sequences, FiniteSets, SequencesExt

CONSTANTS Senders,    \* goroutines that send, e.g. in PingConn.WriteTo
          QueueCap,   \* capacity of the endpoint's queue (1024)
          MaxPackets, \* bound: packets sent
          MaxBatch,   \* bound: packets in one Write
          MaxWrites,  \* bound: calls of Write
          MaxSets     \* bound: calls of SetReadDeadline

ASSUME NetTunAssumption ==
    /\ "writer" \notin Senders
    /\ QueueCap \in Nat \ {0}
    /\ {MaxPackets, MaxBatch, MaxWrites, MaxSets} \subseteq Nat

VARIABLES
    queue,       \* the endpoint's queue
    registered,  \* the device is registered with AddNotify
    epClosed,    \* the endpoint is closed
    loc,         \* loc[g]: where a goroutine is in WriteNotify
    pkt,         \* pkt[g]: the packet it has taken
    sendq,       \* goroutines that block in tun.incomingPacket <- view
    chanClosed,  \* incomingPacket is closed
    eventsClosed,
    reader,      \* "idle", "wait" in Read, or "closed" once it got ErrClosed
    batch,       \* how many packets Write has still to do; writing: a call is in progress
    writing, writes,
    step,        \* the next statement of Close; 0 before it is called
    ping,        \* "idle" or "wait" in PingConn.ReadFrom
    notified,    \* its notifyCh
    timer,       \* pc.deadline: "off", "armed" or "fired", its channel then holds a tick
    sets, pingClosed,
    panicked,
    accepted,    \* history: packets put in the queue
    delivered,   \* history: packets Read has returned
    inside       \* history: was a goroutine in WriteNotify when Close removed the notification?

netv  == <<queue, registered, epClosed>>
sendv == <<loc, pkt, sendq>>
wrv   == <<batch, writing, writes>>
pingv == <<ping, notified, timer, sets, pingClosed>>
hist  == <<accepted, delivered, inside>>
tunVars == <<netv, sendv, chanClosed, eventsClosed, reader, wrv, step, pingv, panicked, hist>>

Goroutines == Senders \union {"writer"}

TunInit ==
    /\ queue = <<>> /\ registered = TRUE /\ epClosed = FALSE
    /\ loc = [g \in Goroutines |-> "idle"] /\ pkt = [g \in Goroutines |-> 0] /\ sendq = <<>>
    /\ chanClosed = FALSE /\ eventsClosed = FALSE /\ reader = "idle"
    /\ batch = 0 /\ writing = FALSE /\ writes = 0 /\ step = 0
    /\ ping = "idle" /\ notified = FALSE /\ timer = "off" /\ sets = 0
    /\ pingClosed = FALSE /\ panicked = FALSE
    /\ accepted = 0 /\ delivered = {} /\ inside = FALSE

-----------------------------------------------------------------------------
(* Sending.                                                                *)

\* Mutant of Put: the queue holds one packet too many.
PutOverfull(g) ==
    /\ loc[g] = "idle" /\ accepted < MaxPackets
    /\ IF ~epClosed /\ Len(queue) <= QueueCap
         THEN /\ accepted' = accepted + 1 /\ queue' = Append(queue, accepted')
              /\ loc' = [loc EXCEPT ![g] = IF registered THEN "notify" ELSE "idle"]
         ELSE UNCHANGED <<accepted, queue, loc>>
    /\ UNCHANGED <<registered, epClosed, pkt, sendq, delivered, inside>>

\* The stack writes a packet to the endpoint, which drops it if the queue is full
\* or closed, and calls WriteNotify in the same goroutine.
Put(g) ==
    /\ loc[g] = "idle" /\ accepted < MaxPackets
    /\ IF ~epClosed /\ Len(queue) < QueueCap
         THEN /\ accepted' = accepted + 1 /\ queue' = Append(queue, accepted')
              /\ loc' = [loc EXCEPT ![g] = IF registered THEN "notify" ELSE "idle"]
         ELSE UNCHANGED <<accepted, queue, loc>>
    /\ UNCHANGED <<registered, epClosed, pkt, sendq, delivered, inside>>

\* PingConn.WriteTo or Write, or any other connection; the addresses are of
\* the socket's family.
WriteTo(s) ==
    /\ Put(s)
    /\ UNCHANGED <<chanClosed, eventsClosed, reader, wrv, step, pingv, panicked>>

sendSame == <<registered, epClosed, chanClosed, eventsClosed, reader, wrv, step, pingv, hist>>

\* Mutant of Take: a notification is ignored while another one is handled.
TakeUnlessBusy(g) ==
    /\ loc[g] = "notify"
    /\ IF queue = <<>> \/ \E h \in Goroutines : loc[h] = "send"
         THEN loc' = [loc EXCEPT ![g] = "idle"] /\ UNCHANGED <<pkt, queue>>
         ELSE /\ loc' = [loc EXCEPT ![g] = "hold"] /\ pkt' = [pkt EXCEPT ![g] = Head(queue)]
              /\ queue' = Tail(queue)
    /\ UNCHANGED <<sendSame, sendq, panicked>>

\* Mutant of Take: the packet stays in the queue.
TakeTwice(g) ==
    /\ loc[g] = "notify"
    /\ IF queue = <<>>
         THEN loc' = [loc EXCEPT ![g] = "idle"] /\ UNCHANGED <<pkt, queue>>
         ELSE /\ loc' = [loc EXCEPT ![g] = "hold"] /\ pkt' = [pkt EXCEPT ![g] = Head(queue)]
              /\ UNCHANGED queue
    /\ UNCHANGED <<sendSame, sendq, panicked>>

\* WriteNotify: tun.ep.Read(), ...
Take(g) ==
    /\ loc[g] = "notify"
    /\ IF queue = <<>>
         THEN loc' = [loc EXCEPT ![g] = "idle"] /\ UNCHANGED <<pkt, queue>>
         ELSE /\ loc' = [loc EXCEPT ![g] = "hold"] /\ pkt' = [pkt EXCEPT ![g] = Head(queue)]
              /\ queue' = Tail(queue)
    /\ UNCHANGED <<sendSame, sendq, panicked>>

\* ... and tun.incomingPacket <- view, which waits its turn.
Offer(g) ==
    /\ loc[g] = "hold"
    /\ IF chanClosed THEN panicked' = TRUE /\ UNCHANGED <<loc, sendq>>
                     ELSE /\ loc' = [loc EXCEPT ![g] = "send"] /\ sendq' = Append(sendq, g)
                          /\ UNCHANGED panicked
    /\ UNCHANGED <<sendSame, queue, pkt>>

WriteNotify(g) == Take(g) \/ Offer(g)

-----------------------------------------------------------------------------
(* Read and Write.                                                         *)

ReadBegin ==
    /\ reader = "idle" /\ reader' = "wait"
    /\ UNCHANGED <<netv, sendv, chanClosed, eventsClosed, wrv, step, pingv, panicked, hist>>

ReadPacket ==
    /\ reader = "wait" /\ sendq # <<>> /\ reader' = "idle"
    /\ LET g == Head(sendq) IN
         /\ delivered' = delivered \union {pkt[g]}
         /\ loc' = [loc EXCEPT ![g] = "idle"] /\ pkt' = [pkt EXCEPT ![g] = 0]
    /\ sendq' = Tail(sendq)
    /\ UNCHANGED <<netv, chanClosed, eventsClosed, wrv, step, pingv, panicked, accepted, inside>>

ReadClosed ==
    /\ reader = "wait" /\ chanClosed /\ reader' = "closed"
    /\ UNCHANGED <<netv, sendv, chanClosed, eventsClosed, wrv, step, pingv, panicked, hist>>

Read == ReadBegin \/ ReadPacket \/ ReadClosed

WriteBegin ==
    /\ ~writing /\ writes < MaxWrites
    /\ writing' = TRUE /\ writes' = writes + 1 /\ batch' \in 0..MaxBatch
    /\ UNCHANGED <<netv, sendv, chanClosed, eventsClosed, reader, step, pingv, panicked, hist>>

\* The end of the batch, or a packet of another version and EAFNOSUPPORT, with
\* the packets before it in the stack.
WriteReturns ==
    /\ writing /\ loc["writer"] = "idle"
    /\ writing' = FALSE /\ batch' = 0
    /\ UNCHANGED <<netv, sendv, chanClosed, eventsClosed, reader, writes, step, pingv, panicked, hist>>

\* An empty packet is skipped.  InjectInbound: the stack keeps a packet to itself,
\* gives it to the ping socket, unless the NIC is removed, or answers it.
WriteNext ==
    /\ writing /\ loc["writer"] = "idle" /\ batch > 0 /\ batch' = batch - 1
    /\ \/ UNCHANGED <<netv, sendv, hist, notified>>
       \/ /\ step <= 1 /\ ~pingClosed /\ notified' = (ping = "wait")
          /\ UNCHANGED <<netv, sendv, hist>>
       \/ Put("writer") /\ UNCHANGED notified
    /\ UNCHANGED <<chanClosed, eventsClosed, reader, writing, writes, step, ping, timer, sets,
                   pingClosed, panicked>>

Write == WriteReturns \/ WriteNext

-----------------------------------------------------------------------------
(* Close, a statement at a time.                                           *)

\* Mutant of closeSteps: incomingPacket stays open.
closeStepsOpen == <<"stack", "notify", "endpoint", "events">>

closeSteps == <<"stack", "notify", "endpoint", "events", "chan">>

CloseBegin ==
    /\ step = 0 /\ step' = 1
    /\ UNCHANGED <<netv, sendv, chanClosed, eventsClosed, reader, wrv, pingv, panicked, hist>>

At(s) == step \in DOMAIN closeSteps /\ closeSteps[step] = s /\ step' = step + 1

\* Closing a socket may wake who waits for it.
SocketCloses == notified' \in {notified, ping = "wait"}

\* RemoveNIC and stack.Close; the stack closes the sockets it knows.
CloseStack ==
    /\ At("stack")
    /\ SocketCloses
    /\ UNCHANGED <<netv, sendv, chanClosed, eventsClosed, reader, wrv, ping, timer, sets,
                   pingClosed, panicked, hist>>

\* Mutant of CloseNotify: the device stays registered.
CloseNotifyKept ==
    /\ At("notify")
    /\ inside' = (\E g \in Goroutines : loc[g] # "idle")
    /\ UNCHANGED <<netv, sendv, chanClosed, eventsClosed, reader, wrv, pingv,
                   panicked, accepted, delivered>>

CloseNotify ==
    /\ At("notify") /\ registered' = FALSE
    /\ inside' = (\E g \in Goroutines : loc[g] # "idle")
    /\ UNCHANGED <<queue, epClosed, sendv, chanClosed, eventsClosed, reader, wrv, pingv,
                   panicked, accepted, delivered>>

\* What is in the queue is thrown away.
CloseEndpoint ==
    /\ At("endpoint") /\ epClosed' = TRUE /\ queue' = <<>>
    /\ UNCHANGED <<registered, sendv, chanClosed, eventsClosed, reader, wrv, pingv, panicked, hist>>

CloseEvents ==
    /\ At("events") /\ eventsClosed' = TRUE
    /\ UNCHANGED <<netv, sendv, chanClosed, reader, wrv, pingv, panicked, hist>>

\* A goroutine that blocks in the send panics.
CloseChan ==
    /\ At("chan") /\ chanClosed' = TRUE /\ panicked' = (sendq # <<>>)
    /\ UNCHANGED <<netv, sendv, eventsClosed, reader, wrv, pingv, hist>>

Close == CloseStack \/ CloseNotify \/ CloseEndpoint \/ CloseEvents \/ CloseChan

-----------------------------------------------------------------------------
(* PingConn.                                                               *)

pingSame == <<netv, sendv, chanClosed, eventsClosed, reader, wrv, step, panicked, hist>>

\* ReadFrom registers for packets to come; those that are there do not count.
PingRead ==
    /\ ping = "idle" /\ ping' = "wait" /\ notified' = FALSE
    /\ UNCHANGED <<pingSame, timer, sets, pingClosed>>

\* Mutant of PingDeadline: the deadline is looked at before the wait only.
PingDeadlineBefore ==
    /\ ping = "idle" /\ timer = "fired"
    /\ timer' = "off"
    /\ UNCHANGED <<pingSame, ping, notified, sets, pingClosed>>

PingDeadline ==
    /\ ping = "wait" /\ timer = "fired"
    /\ ping' = "idle" /\ timer' = "off" /\ notified' = FALSE
    /\ UNCHANGED <<pingSame, sets, pingClosed>>

\* A packet is taken, or there is none, an error.
PingPacket ==
    /\ ping = "wait" /\ notified
    /\ ping' = "idle" /\ notified' = FALSE
    /\ UNCHANGED <<pingSame, timer, sets, pingClosed>>

\* SetDeadline, SetReadDeadline: a tick that was not received is withdrawn.
SetReadDeadline ==
    /\ sets < MaxSets /\ sets' = sets + 1 /\ timer' = "armed"
    /\ UNCHANGED <<pingSame, ping, notified, pingClosed>>

TimerFires ==
    /\ timer = "armed" /\ timer' = "fired"
    /\ UNCHANGED <<pingSame, ping, notified, sets, pingClosed>>

\* pc.deadline.Reset(0) wakes ReadFrom, if pc.ep.Close does not.
PingClose ==
    /\ ~pingClosed /\ pingClosed' = TRUE /\ timer' = "armed" /\ SocketCloses
    /\ UNCHANGED <<pingSame, ping, sets>>

-----------------------------------------------------------------------------
Step ==
    \/ Read \/ WriteBegin \/ Write \/ CloseBegin \/ Close
    \/ \E s \in Senders : WriteTo(s)
    \/ \E g \in Goroutines : WriteNotify(g)
    \/ PingRead \/ PingDeadline \/ PingPacket \/ SetReadDeadline \/ TimerFires \/ PingClose

TunNext == ~panicked /\ Step

TunSpec == TunInit /\ [][TunNext]_tunVars

\* The device's user reads until it is told that the device is closed, running
\* goroutines go on and timers fire; nobody has to send, write or close.
TunLiveSpec ==
    /\ TunSpec
    /\ WF_tunVars(~panicked /\ Read) /\ WF_tunVars(~panicked /\ Write) /\ WF_tunVars(~panicked /\ Close)
    /\ \A g \in Goroutines : WF_tunVars(~panicked /\ WriteNotify(g))
    /\ WF_tunVars(~panicked /\ (PingDeadline \/ PingPacket)) /\ WF_tunVars(~panicked /\ TimerFires)

-----------------------------------------------------------------------------
QueueTypeOK ==
    /\ queue \in Seq(1..MaxPackets) /\ Len(queue) <= QueueCap
    /\ accepted \in 0..MaxPackets /\ delivered \subseteq 1..MaxPackets

SendTypeOK ==
    /\ loc \in [Goroutines -> {"idle", "notify", "hold", "send"}]
    /\ pkt \in [Goroutines -> 0..MaxPackets]
    /\ sendq \in Seq(Goroutines) /\ IsInjective(sendq)
    /\ ToSet(sendq) = {g \in Goroutines : loc[g] = "send"}

UserTypeOK ==
    /\ reader \in {"idle", "wait", "closed"}
    /\ batch \in 0..MaxBatch /\ writing \in BOOLEAN /\ writes \in 0..MaxWrites
    /\ ping \in {"idle", "wait"} /\ notified \in BOOLEAN
    /\ timer \in {"off", "armed", "fired"} /\ sets \in 0..MaxSets /\ pingClosed \in BOOLEAN

CloseTypeOK ==
    /\ step \in 0..(Len(closeSteps) + 1)
    /\ registered \in BOOLEAN /\ epClosed \in BOOLEAN /\ eventsClosed \in BOOLEAN
    /\ chanClosed \in BOOLEAN /\ panicked \in BOOLEAN /\ inside \in BOOLEAN

\* The values of the variables and the bounds of the queues; a goroutine waits in the
\* channel's queue, once, exactly while it is in the send.
TunTypeOK == QueueTypeOK /\ SendTypeOK /\ UserTypeOK /\ CloseTypeOK

Held == {g \in Goroutines : pkt[g] # 0}

\* Until Close, every packet the endpoint took is in the queue, in the hands of one
\* goroutine or delivered, in one place only, although goroutines take and
\* deliver each other's packets (WriteNotify); and for every packet in the queue
\* there is a goroutine about to take one, so that none is left behind.
ExactlyOnce ==
    registered =>
        /\ Len(queue) + Cardinality(Held) + Cardinality(delivered) = accepted
        /\ ToSet(queue) \union {pkt[g] : g \in Held} \union delivered = 1..accepted
        /\ Len(queue) = Cardinality({g \in Goroutines : loc[g] = "notify"})

\* Close panics, or makes a sender panic, only if a goroutine was inside WriteNotify
\* when the notification was removed: nobody enters it later and sends on the
\* closed channel.
QuietCloseIsSafe == panicked => inside

\* Every packet is read in the end, as long as the device is not closed.
PacketsAreRead == <>[](delivered = 1..accepted \/ step # 0)

\* A Read that waits, and the next one, returns os.ErrClosed once Close has ended.
ReadEndsWithClose == step > Len(closeSteps) ~> reader = "closed" \/ panicked

\* A call of ReadFrom returns when a packet arrives while it waits, when its
\* deadline passes and when the socket is closed, however these race.
PingReadReturns ==
    ping = "wait" /\ (notified \/ timer # "off") ~> ping = "idle" \/ panicked

=============================================================================
