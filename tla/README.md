# A TLA+ model of kernelMesh

kernelMesh is the beginning of a mesh-network core in Go: a packet interface to the
operating system (`tun/`, adapted from wireguard-go), the inputs of a routing metric
(`common/a_star/`), and cryptographic helpers (`crypto/`). This directory holds TLA+
modules for the parts that keep state, TLC configurations that check them on small
instances, and TLAPS proofs for every size.

## Inventory

| Component | State | Operations | What is hard |
|---|---|---|---|
| `ConfigManager` (`config.go`) | atomic pointers to an immutable configuration snapshot and to reload metrics | `NewConfigManager`, `Reload`, `SwitchProfile`, getters | a switch racing a reload, metrics counted concurrently, the time of a reload |
| `GMetrics` (`weight.go`) | atomic pointer to a telemetry snapshot | `UpdateLoss/Rtt/Load/Energy`, `GetSnapshot` | lost updates between fields |
| `Rtt` (`rtt.go`) | atomic pointer to the smoothed round-trip time | `UpdateRttOld`, `Update`, `GetRtt` | samples averaged with a stale estimate, clamping |
| Linux write path (`offload_linux.go`, `Write`) | two flow tables with item pools, `toWrite`, the caller's buffers | `handleGRO`, `tcpGRO`, `udpGRO`, accounting, write loop | wraparound, order, checksums, stale virtio headers, early returns |
| Linux read path (`Read`, `handleVirtioRead`, `gsoSplit`) | read buffer, the caller's buffers | segmentation loop | 16-bit arithmetic, zero segment size, too many segments |
| Linux device (`tun_linux.go`) | events and errors channels, netlink socket, cancel pipe, file | create, hack listener, netlink listener, `Close` | channel closed under a sender, shutdown of two goroutines, two reporters of one link |
| BSD / macOS devices (`tun_freebsd.go`, `tun_openbsd.go`, `tun_darwin.go`) | route socket, events, errors | create, route listener, `Close` | a descriptor closed under a reader, dropped messages, the state before the first message |
| Windows device | Wintun session, rate counters, wait group | `Read` spin, `Write`, MTU events, `Close` | `Close` against readers, spinning |
| netstack device (`netstack/tun.go`) | gVisor endpoint, packet channel; deadline of a ping socket | `Read`, `Write`, `WriteNotify`, `Close`; `WriteTo`, `ReadFrom` | senders that deliver each other's packets, a channel closed under them, deadline against packet |
| netstack resolver and dialer (`netstack/tun.go`) | a call's lanes, results, addresses, deadlines | `DialContext`, `LookupContextHost`, `exchange`, `partialDeadline` | deadlines of retries and shares, two lanes in any order, partly readable answers |
| `ChannelTUN` (test device) | three channels | `Read`, `Write`, `Close` | `Close` against both |
| checksums | none | unrolled one's-complement sum | carries |
| `crypto/` | none | wrappers of library primitives | none that a model reaches |
| A* search, distance | none yet | the files are empty | |
| packets | generated | | |

The routing parts do not call the packet interface yet: the routing metric of
`common/a_star/readme.md` is the future consumer of `GMetrics`, `Rtt` and
`ConfigManager`. The Linux read path, write path and listeners share one `NativeTun`;
they meet in the `errors` channel (filled by the netlink listener, returned by `Read`)
and in the file that `Close` closes under both paths. Both meetings are modelled
where they change state: `ReadError` in `TunListeners`, the "closed" outcomes of
`Read` and `Write`.

What makes each part correct, and what could go wrong in it, line by line, is the
list of hazards in `PROJECT.json`.

## Modules

| Module | Models | Kind |
|---|---|---|
| `Telemetry` | what `GMetrics` promises: fields set one at a time, atomically | abstract |
| `GMetrics` | `weight.go`: check of the argument, `Load`, `CompareAndSwap`, one step each | detailed, implements `Telemetry` |
| `RttFilter` | what `Rtt` promises: seeds and samples applied one after another | abstract |
| `Rtt` | `rtt.go`, the same granularity | detailed, implements `RttFilter` |
| `ConfigStore` | what readers of `ConfigManager` see: configurations replaced as a whole and counted, switches that change the active profile only | abstract |
| `Config` | `config.go`: every atomic access of `Reload`, `SwitchProfile` and the metrics loops is a step; the file and the clock are external | detailed, implements `ConfigStore` |
| `GRO` | `NativeTun.Write` and `handleGRO`: one step per packet, one per written buffer | detailed, with the kernel's segmentation as the reference |
| `GSO` | `NativeTun.Read` to `gsoSplit`: one step per segment | detailed, with a closed-form reference |
| `TunListeners` | creation, the two listeners and `Close` of the Linux device | detailed |
| `WinTun` | `tun_windows.go`: creation, `Read`, `Write`, `LUID`, `ForceMTU` and `Close` around the Wintun session | detailed |
| `RouteTun` | the FreeBSD, OpenBSD and macOS devices: creation, `routineRouteListener`, `Close`; what they share is defined once | detailed |
| `NetTun` | the netstack device: `WriteNotify` in the goroutines that send, `Read`, `Write`, `Close`; a ping socket | detailed |
| `DomainName` | `isDomainName`: the scan, with labels as the reference | pure, with a reference |
| `NetDial` | `DialContext` and `LookupContextHost`: lanes, exchanges, answers, shares of the time | detailed, timed; extends `DomainName` |
| `MC...` | constants for TLC | |
| `..._proofs` | theorems; `Offload_proofs` is about `GRO` and `GSO`, `Netstack_proofs` about `NetDial`, `DomainName` and `NetTun` | |

### How state and actions correspond

*Pointers.* An `atomic.Pointer` is a record of an address and the value there. Every
compare-and-swap installs a freshly allocated object while the old one is still
referenced, so addresses never repeat and are counted up.

*History.* `installs` and `rejects` in `Config` count the snapshots `Reload` has stored and
the files it has refused; nothing reads them but the properties. Mapped to the count of
`ConfigStore` they tell a reload from a switch, so that a switch which brings back an older
file is no step of `ConfigStore`.

*Numbers.* `float64` measurements are integers, with NaN and the infinities apart;
rounding is not modelled. In `Rtt` the unit is chosen so that all divisions by 8 a run
can make are exact, and the coefficient is kept multiplied by `maxPing`. The 16- and
32-bit integers of the offload code are reduced modulo `LenSpace`/`U16` and
`SeqSpace`/`U32`, which TLC sets small so that they wrap.

*Packets.* In `GRO` a packet is a flow, a header (everything that is compared before a
merge), a sequence number, flags, and bytes that are tokens naming the packet they came
from; it is what the checks at the beginning of `tcpGRO` and `udpGRO` leave of it. `in`
holds the packets as they were passed to `Write`, `bufs` what became of the buffers.
`Received` applies the kernel's segmentation to the buffers in the order written. In
`GSO` a segment is a range of the bytes read with the header fields that segmentation
changes. Its buffers are whole ones, of length and capacity `BufLen`: a segment that is longer
makes the code slice past the capacity, which is the panic of `SplitPanics`.

*Channels.* A Go channel is a sequence with a capacity and a closed flag; sending on or
closing a closed one sets `panicked`. `hackListenerClosed` is held by the hack listener
from its start to its end, so waiting for the lock is waiting for `hack = "done"`.
`closeOnce` lets one caller run the body and makes the others wait for its end. A
netlink datagram is a sequence of messages; the kernel may put a message into the last
datagram that waits or into a new one. The channel's user receives once the device exists, and
asks for the MTU at every `EventMTUUpdate`; `stale` remembers that the kernel's MTU has changed
since.

*Windows.* `running` is the set of the goroutines counted in the wait group; `Wait` parks its
caller, `Done` wakes it at zero, and a caller that wakes up to a raised counter panics, as
`sync.WaitGroup` does. The read-wait event of Wintun resets itself when a wait succeeds. The
rate that `rateJuggler` measures only decides whether `Read` takes another turn before it
waits; both are possible in every turn, up to `MaxSpins`, which stands for `spinloopDuration`.

*Route sockets.* The descriptor is a number and what the number refers to (`sock`): the
routing socket, nothing after `Close`, or another file once the number was given away again.
`unix.Read(tun.routeSocket, ...)` is two steps, because `Close` may come between the load of
the field and the call. The socket's buffer is bounded and drops what does not fit; `missed`
remembers that nothing left in it would make the listener look at the interface. The FreeBSD
and OpenBSD listeners use a message as a reason to ask for the interface's state; the macOS
listener takes the state from the message. `Close` is a sequence of statements for each system.

*netstack.* gVisor calls `WriteNotify` in the goroutine that put a packet in the queue; that
may be a sender or `Write` itself, when the stack answers a packet on the spot. The unbuffered
channel is the queue of the goroutines that block in the send. One call of `Close` is modelled.
The packets a ping socket holds are left out, since `ReadFrom` does not look at them before it
waits.

*Time.* In `NetDial` the clock moves only while every goroutine waits, and never past what one
of them waits for; code takes no time, so that bounds on time are bounds on the timeouts the
code chooses. An exchange or a connection is answered, fails, or is silent until its
deadline. A DNS message is the fields `checkHeader` and `skipToAnswer` look at and its
records; a record may be unreadable as a whole or in its body only. Servers are asked in rounds
by a counter, two rounds of `servers` exchanges each.

## Runs

| Run | Bounds | Shows |
|---|---|---|
| `gmetrics` | 2 goroutines, 2 calls each, values below, at and above the limits, NaN, Inf | refinement of `Telemetry` |
| `rtt` | 2 goroutines, 2 calls each, times negative, 0, below and above `maxPing` | refinement of `RttFilter`, whose coefficient is clamped; estimate bounded by the inputs |
| `config` | 2 goroutines, 1 call each after the constructor, 12 files, 9 of them unusable, each for a reason of its own, 1 rewrite, clock of 3 values | refinement of `ConfigStore` (only valid configurations are published), exact counts, monotone reload time, every call returns |
| `gro` | 2 calls of up to 4 packets: of 16 TCP packets around the wraparound of a sequence space of 64 and a datagram, of 12 packets that are mostly datagrams, or of 2 where the kernel has no offloads; write errors, a closed file | the kernel receives what was written, in order within a flow, with no PSH added; pools complete after every return path |
| `gso` | 4 buffers, payloads 1-10 and 23, segment sizes 0-8 and one too long for the buffers, all types; 14 other reads | exact segments, nothing lost, the loop ends |
| `tun` | 2 callers of `Close`, event channel of 1, 2 kernel messages, faults | no panic; `Close` ends everything; a stable link is reported up; a changed MTU becomes known |
| `wintun` | 2 callers of `Close`, event channel of 1, ring of 2, 2 calls of `ForceMTU`, calls of the others without bound, a failing driver | the session outlives the calls that use it; `Close` returns; `Read` does not sleep on a ring that holds packets; the MTU becomes known |
| `route_tun` | three systems, 2 calls of `Close`, event channel and socket buffer of 1, 2 kernel messages besides those of `setMTU`, 2 reads of a foreign file, faults | no panic; at most one foreign read after `Close` (not macOS); the listener ends; what was reported is right in the end |
| `net_dial` | no, one or two families, 0 to 2 servers, 14 answers, 9 kinds of call, deadlines 0, 1, 4 and 8 with a timeout of 2; all names of up to 5 characters with limits 4 and 2 | deadline kept, lookup bounded, no family hides the other, every address tried, names as the reference has them, every call returns |
| `net_tun` | 2 senders and the writer, queue of 2, 3 packets, 1 `Write`, 1 deadline | each packet once, none stranded, `Close` safe when nobody is inside `WriteNotify`, `Read` and `ReadFrom` return |

The bounds are enough for what they are for: two compare-and-swap loops interfere with
one another in every way that any number can (a failed swap, a swap between load and
swap); in `config` a switch, a reload that succeeds and one that fails overlap in pairs;
four packets are needed for a short tail in the middle of a group
followed by a packet that fits behind it; small channels fill up, so that senders
block. In `wintun` two packets of the ring can arrive behind one signal of the event. In `route_tun` a buffer of one message drops the second; in `net_dial` a deadline of 8
is longer than an exchange over UDP and TCP and shorter than two rounds, with room for the
minimum of two addresses; in `net_tun` three goroutines can each hold a packet, and the queue
of two is full when the third one comes.

Deadlock is not checked: calls and kernel messages are bounded, so every model stops
(`WinTun` with a failed creation or a panic).
That nothing stops too early is what the liveness properties say. The type invariants of
`GRO` and `NetTun` are checked by their runs and proved; those of the other modules are proved, and
the runs leave them out.

*Fairness.* Each goroutine that has a step to take takes one in the end (the Go
scheduler is preemptive); nobody is obliged to start another call, to call `Close`, to
rewrite the file or to change the link. In `tun` and `route_tun` the user of the device keeps
receiving events, which the code needs: a listener that is blocked on a full events
channel is not woken by `Close`. The compare-and-swap loops end because the number of
competing calls is finite. In `wintun` the users keep reading until the device is closed,
and stop calling it some time after that; without the second, overlapping calls could keep
the wait group above zero for ever. Faults (an overrun netlink socket, a routing socket with
an error, a vanishing interface, the data of a foreign file) are never fair. In `net_dial` the
goroutines and the clock are fair and the network is not: it owes no answer. In `net_tun` the
user reads until it is told that the device is closed, and timers fire.

### Where the code and its comments disagree

Each of these is a run that TLC must refute:

- `gso_count`: on `ErrTooManySegments` `gsoSplit` returns one less than the number of
  buffers it populated.
- `tun_down`: the netlink listener forgets with every datagram that it has reported Up,
  and so never reports a Down that comes in a datagram of its own. This is why there is no
  counterpart of `StableUp` for a link that stays down.

Others were met and have no run:

- After a prepend in `coalesceTCPPackets` the item says that PSH is set (`pshSet`) while the
  header that is kept does not have it, so the flag of a later segment is lost; the round trip
  is therefore checked apart from PSH, with `NoSpuriousPSH` for the other direction.
- `udpGRO` makes no item for a datagram without payload or with inconsistent lengths, so a
  later datagram of the flow is still merged into the item before it and overtakes it; the
  comment at `offload_linux.go:828` says that an item is always inserted. `FlowOrder` is about
  the datagrams that make items.
- `Write` on Linux returns a number of bytes where the `Device` interface says packets; what it
  counts is not modelled.
- `PingConn.WriteTo` says "won't block" (`netstack/tun.go:423`) and blocks until the device is
  read, because the notification runs in its goroutine.
- `isDomainName` accepts a name with a dot at the end, to which `LookupContextHost` adds
  another one; such a name is never asked for.
- When `setMTU` fails on Linux, `CreateTUNFromFile` closes the netlink socket under the running
  listener, which closes it a second time; the hack listener is never told to end.
- A segment longer than the caller's buffer makes `gsoSplit` panic, where `handleVirtioRead`
  returns an error for a packet that needs no segmentation.
- The macOS `Close` does not reset `routeSocket` as the other two do, so that nothing
  bounds its listener's reads of a descriptor that was given away.
- The netstack `Close` does not wait for goroutines inside `WriteNotify` and makes them panic;
  `QuietCloseIsSafe` says that nobody else can.

## Proofs

All theorems hold for every value of the constants that satisfies the named
assumptions; the assumptions state ranges of the constants and are evaluated by TLC in
every run.

- `GMetrics_proofs`: `TypeCorrect`, `Refinement`. The inductive invariant adds to the
  types that a goroutine about to swap which still holds the current address holds the
  current value (`CopyIsCurrent`), and that a call is in progress exactly inside the loop
  (`InLoop`). Without the first, a successful swap could install a stale copy.
- `Rtt_proofs`: `TypeCorrect`, `Stable`, `Refinement`. The same, and the bound by the
  longest time reported must hold of the loaded copies and of the calls in progress as well
  (`LocalsBounded`). The arithmetic core is that a mean rounded down is below every bound
  of its arguments (`MeanBounded`).
- `Config_proofs`: `TypeCorrect`, `Refinement`, `TimeMonotone`, `MetricsExact`. The invariant says that
  what is about to be stored passed every check (`StoresUsable`), that both kinds of copies
  are current when their address is, that a switch's profile is defined in the copy it
  holds, and that a time read is not before the one in the metrics loaded earlier. The counts
  are exact because every step that makes a goroutine about to count adds it to the finite set of
  those, and a successful swap removes it while it raises the count; a failed swap does neither.
- `Offload_proofs`, the read path (`GSO`): `ReadTypeCorrect`, `SplitCorrect`, `ReadComplete`. The
  loop invariant is that the cursor is `written` segments behind the headers and as many buffers
  are exact. The 16-bit product `gsoSize * i` does not wrap because a segment starts inside a
  packet shorter than 2^16.
- `Offload_proofs`, the write path (`GRO`): `GroTypeCorrect`, `SlicesConserved`,
  `PacketsRoundTrip`, `NoPSHAdded`, `FlowsInOrder`, for any vector of packets and any number of
  calls. `RoundTrip` speaks of the state after the accounting only, and follows from
  something the code records nowhere: which packets each buffer holds. The inductive
  invariant says that there is a list of packets for every buffer that will be written
  (`Groups`), such that
    - every packet of the call is in one list, once (`ListsOK`);
    - a buffer with an item holds the packets of its list one behind the other, all but the last
      of the item's segment size, with one header, the sequence numbers that follow from their
      places, good checksums if there is more than one, and no PSH but the last packet's
      (`Holds`, `Describes`);
    - a buffer whose list is one packet is as it came in (`Plain`), and one without an item has
      a zeroed virtio header;
    - two items never describe one buffer (`ItemsOK`, `OneItem`).

  A step of the loop adds a list of one packet (`OwnStep`), extends one at its end or at its
  front (`HoldsAppend`, `HoldsPrepend`, `JoinStep`) or drops items and zeroes their headers
  (`PruneStep`); `TcpOutcome` and `UdpOutcome` show that the walk of `tcpGRO` over a flow's items
  and `udpGRO` do one of these. The swap of the buffers in a prepend keeps the index that
  will be written. After the accounting (`AccountBuffers`) the kernel's cut of a buffer is its
  list (`AllCut`: a packet starts at each multiple of the segment size, and the number of
  segments is rounded up), and the concatenation of the cuts has every packet once
  (`FlatPackets`). The length of a merged buffer does not wrap because it fits in the buffer's
  room, which is below 2^16.

  `FlowsInOrder` is about the same lists: the packets of a flow are ordered in them, by the index
  of the buffer and then by the place in its list (`FlowsOrdered`). A packet that gets a list of
  its own is behind all others (`OwnOrder`), so what has to be shown is that a merge
  does not move a packet in front of an earlier one of its flow.
    - A datagram joins the last item of its flow, at the end. No buffer after that item's holds
      a datagram of the flow (`UdpLast`), since `udpGRO` puts an item for every datagram it lets
      into the table, a refused one included, behind those the flow has (`UdpItems`, `UdpTail`).
    - A TCP flow that is passed in sequence gives every segment an offset in its stream
      (`OffsetsExist`). The offsets are smaller than the sequence space, so a sequence number that
      follows on from an earlier segment's follows on from the one just before it in the
      stream, and no segment can be put in front of an earlier one (`StreamNumbers`); the first
      rules out appending to an item that is not the flow's last, the second prepending.

  `handleGRO` adds to `toWrite` in increasing order (`Increasing`, part of `GroInv`), so the kernel
  receives the packets in the order of the lists (`Sequenced`, `ReceivedOrder`).
- `TunListeners_proofs`: `TypeCorrect`, `PanicFree`, with failures of the
  socket and of `setMTU`. The invariant says that whoever closed the events channel has
  outlived its senders (`ClosedEventsHaveNoSender`), that the listeners exist exactly when
  the socket was opened, and that one goroutine runs the body of `closeOnce`.
- `WinTun_proofs`: `TypeCorrect`, `SessionSafe`, `ClosedOnce`. The invariant says that a call
  inside the device is counted, that the flag is up before `Close` waits, and that from the
  moment the wait is over no call is past its check (`WaitDrains`); since the flag stays up,
  none gets past it later. The order of `Add` before the check is what makes it inductive.
- `RouteTun_proofs`: `TypeCorrect`, `PanicFree`, `ForeignBounded`, for any of the three systems.
  The channel is closed exactly when the listener has taken its last step, and the field is
  reset only by the last statement of `Close`, so `Close` never takes the branch that closes the
  channel (`ListenerOwnsEvents`); the listener starts once and nobody can close a device that is
  not ready (`CreatedOnce`). After `Close` a listener that still has the old number loaded it
  before, and every read makes it load the field again (`OldNumberOnce`).
- `Netstack_proofs`, the resolver and dialer (`NetDial`): `TypeCorrect`, `InTime`,
  `LookupBounded`, `NeverMissing`, `LanesIndependent`, `SharesSuffice`,
  `AsksForNames`, for all scenarios, messages and timeouts. The lanes that have sent
  are those whose results were received or wait in the channel (`LanesInv`). The
  n-th exchange began no later than after 2n timeouts, so its deadline bounds the clock
  (`TimeInv`). A result without an error that gave no address left an error behind
  (`FindInv`), which is where the parser nobody started matters. For the shares: if there was
  the minimum for every address in the beginning, the share of an address, rounded down or
  raised to the minimum, leaves the minimum for each of those after it (`DialInv`). `Outcome`
  holds the three properties of the result. For the names:
  what the scan of `isDomainName` has computed after p characters has a closed form (`Closed`), which
  holds of every prefix because there is no first one for which it fails (`ScanClosed`); a name
  passes it exactly if every label between two dots is one the reference allows
  (`LabelsProper`, `DomainNames`).
- `Netstack_proofs`, the device (`NetTun`): `TunTypeCorrect`, `PacketsConserved`, `CloseSafe`, for
  any number of goroutines, packets and calls. Every packet is in one place: the queue, the
  hands of one goroutine, or delivered (`PlacesInv`, `CarryInv`); until `Close` the queue is as
  long as there are goroutines about to take a packet, so whoever delivers someone else's packet
  leaves nobody's behind; and from the removal of the notification on only those that were inside
  can reach the closed channel (`CloseInv`).

The assumptions the proofs add to the ranges: a packet of `GRO` that is not TCP has no sequence
number and no flags, and payloads are shorter than 2^16 (`GROAssumption`); the names of
`NetDial` are sequences of the character classes (`NetDialAssumption`). They say how the
model represents a packet and a name. `StreamAssumption`, which only `FlowsInOrder` uses, says
that the packets of one call cannot hold more bytes than there are sequence numbers: packets
are shorter than 2^16 bytes and a call has at most `conn.IdealBatchSize`, 128, of them, against
2^32 sequence numbers. Without it a segment could follow on from one that is a whole
sequence space behind it.

Every invariant the runs check is proved. Only model-checked is liveness, which is out of
the prover's reach: `EveryCallReturns`, `Terminates`, `CloseClosesEvents`, `StableUp`,
`CloseReturns`, `PacketsAreRead`, `UserLearnsMTU`, `Converges`, `CallReturns`,
`ReadEndsWithClose` and `PingReadReturns`.

## Not modelled

- `crypto/`: stateless wrappers of library primitives.
- Generated packets, and the A* files, which hold no code yet.
- `checksum.go`: a pure function over bytes whose point is the carry of 64-bit words; a packet
  in `GRO` knows whether its checksum is right.
- ioctls without state of the program (`MTU`, `Name`, `initFromFlags` except its outcome), and
  the four bytes the BSD and macOS devices put before a packet.
- `operateOnFd`: it sends an error on a channel that is nil during `CreateTUN` and may be full
  later; its callers hold an open file at that time.
- `ChannelTUN`: a test helper; `Read` and `Write` are one `select` each. Its comment says that
  `Inbound` is closed with the device, which no line does.
- `float64` rounding, and the rate `rateJuggler` measures.
- The constructors of TCP and UDP connections in `netstack/tun.go`, which convert addresses and
  hand over to gVisor's `gonet`.
- A second call of the netstack device's `Close`, which would close closed channels.

The code leaves the following open, and no property is stated about it: the order of two
concurrent `Reload`s that read different files; buffers longer than 65535 bytes in `GRO`; the
error `Close` returns on Linux when the netlink listener ends at the same time; an interface
that a failed creation leaves behind on FreeBSD; an MTU that changes and changes back between two
looks; an interface that is up already, on macOS with `mtu` 0; packets that leave the netstack
device in another order than they were sent in, because a goroutine is overtaken between
`ep.Read` and its send; `ReadFrom` of a ping socket that waits although a packet is there, or
after an earlier call consumed the tick of the deadline; the zero time as a read deadline, which
fires at once; the count the netstack `Write` returns when it fails in the middle of a batch.

What a continuation would take first: a composition of `TunListeners` with both data paths
(`Close` while `Read` and `Write` are in progress, today two separate models with "closed"
outcomes).
