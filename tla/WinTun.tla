-------------------------------- MODULE WinTun --------------------------------
(***************************************************************************)
(* The Windows device (tun_windows.go): Read, Write, LUID and ForceMTU     *)
(* against Close.  One goroutine reads and one writes, as the comment      *)
(* before Read demands; LUID and ForceMTU have one caller each; Close has  *)
(* any number.  The Wintun session, its ring and its auto-reset event are  *)
(* external.  The measured rate only decides whether Read spins before it  *)
(* waits, which is left open here.                                         *)
(***************************************************************************)
EXTENDS Naturals, FiniteSets

CONSTANTS Closers,     \* goroutines that call Close
          EventCap,    \* capacity of the events channel
          MTUs,        \* arguments of ForceMTU
          InitialMTU,  \* the MTU the device is created with
          MaxForces,   \* bound: calls of ForceMTU
          MaxPackets,  \* bound: packets that wait in the receive ring
          MaxBatch,    \* bound: packets in one Write
          MaxSpins     \* turns that fit into spinloopDuration

ASSUME WinTunAssumption ==
    /\ EventCap \in Nat \ {0} /\ InitialMTU \in MTUs
    /\ MaxForces \in Nat /\ MaxPackets \in Nat /\ MaxBatch \in Nat /\ MaxSpins \in Nat

VARIABLES
    device,     \* "new", "ready" or "failed": CreateTUNWithRequestedGUID
    close,      \* tun.close
    running,    \* tun.running: the goroutines between Add(1) and Done
    session,    \* "open" or "ended"
    adapter,    \* "open" or "closed"
    broken,     \* the driver answers with errors from now on
    ring,       \* packets in the receive ring
    readWait,   \* the read-wait event is signalled
    events,     \* EventMTUUpdates in the channel
    eventsOpen,
    panicked,   \* the process has died
    once,       \* closeOnce: "new", "running" or "done"
    cpc,        \* each caller of Close
    pc,         \* the goroutines that read, write and ask for the LUID
    spins,      \* turns of Read's loop since retry, 0 outside it
    left,       \* packets that Write still has to hand over, 0 outside it
    fpc,        \* the caller of ForceMTU
    arg,        \* its argument
    forces,     \* calls of ForceMTU
    forcedMTU,
    seen        \* the MTU that the receiver of events has seen last

driver == <<broken, ring>>
force  == <<fpc, arg, forces, forcedMTU>>
chan   == <<events, eventsOpen, panicked>>
closing == <<close, session, adapter, once>>
wg     == <<running, cpc>>
calls  == <<pc, spins, left>>
vars   == <<device, driver, force, seen, chan, closing, wg, calls, readWait>>

Users == {"read", "write", "luid"}

Init ==
    /\ device = "new"
    /\ close = FALSE /\ running = {}
    /\ session = "ended" /\ adapter = "open" /\ broken = FALSE
    /\ ring = 0 /\ readWait = FALSE
    /\ events = 0 /\ eventsOpen = TRUE /\ panicked = FALSE
    /\ once = "new" /\ cpc = [c \in Closers |-> "idle"]
    /\ pc = [u \in Users |-> "idle"]
    /\ spins = 0 /\ left = 0
    /\ fpc = "idle" /\ forces = 0 /\ forcedMTU = InitialMTU /\ arg = InitialMTU
    /\ seen = InitialMTU

\* StartSession succeeds, or the adapter and the channel are closed again.
Create ==
    /\ device = "new"
    /\ \/ device' = "ready" /\ session' = "open" /\ UNCHANGED <<adapter, eventsOpen>>
       \/ device' = "failed" /\ adapter' = "closed" /\ eventsOpen' = FALSE
          /\ UNCHANGED session
    /\ UNCHANGED <<driver, force, seen, events, panicked, close, once, wg, calls, readWait>>

-----------------------------------------------------------------------------
(* Read, Write and LUID.                                                   *)

Goto(u, label) == pc' = [pc EXCEPT ![u] = label]

\* tun.running.Done(): at zero it releases whoever is in tun.running.Wait().
Done(u) ==
    /\ Goto(u, "idle")
    /\ running' = running \ {u}
    /\ cpc' = [c \in Closers |-> IF cpc[c] = "parked" /\ running \ {u} = {}
                                 THEN "woken" ELSE cpc[c]]

\* Mutant of Add: Read waits for the event before it looks at the ring.
AddWaits(u) ==
    /\ pc[u] = "idle"
    /\ Goto(u, IF u = "read" THEN "wait" ELSE "check") /\ running' = running \cup {u}
    /\ IF u = "write" THEN left' \in 1..MaxBatch ELSE UNCHANGED left
    /\ UNCHANGED <<device, driver, force, seen, chan, closing, cpc, spins, readWait>>

\* tun.running.Add(1)
Add(u) ==
    /\ pc[u] = "idle"
    /\ Goto(u, "check") /\ running' = running \cup {u}
    /\ IF u = "write" THEN left' \in 1..MaxBatch ELSE UNCHANGED left
    /\ UNCHANGED <<device, driver, force, seen, chan, closing, cpc, spins, readWait>>

\* The first use of the driver after the check for a closed device.
FirstUse(u) == CASE u = "read" -> "loop" [] u = "write" -> "alloc" [] u = "luid" -> "ask"

\* Mutant of Check: the flag is not looked at.
CheckNothing(u) ==
    /\ pc[u] = "check"
    /\ Goto(u, FirstUse(u))
    /\ UNCHANGED <<device, driver, force, seen, chan, closing, wg, spins, left, readWait>>

\* if tun.close.Load() { return }
Check(u) ==
    /\ pc[u] = "check"
    /\ IF close THEN Done(u) ELSE Goto(u, FirstUse(u)) /\ UNCHANGED wg
    /\ left' = IF close /\ u = "write" THEN 0 ELSE left
    /\ UNCHANGED <<device, driver, force, seen, chan, closing, spins, readWait>>

\* The same check, at the top of Read's inner loop.
ReadLoop ==
    /\ pc["read"] = "loop"
    /\ IF close THEN Done("read") /\ spins' = 0
                ELSE Goto("read", "receive") /\ UNCHANGED <<wg, spins>>
    /\ UNCHANGED <<device, driver, force, seen, chan, closing, left, readWait>>

\* session.ReceivePacket: an error, a packet, or ERROR_NO_MORE_ITEMS, after
\* which Read takes another turn or waits.
ReadReceive ==
    /\ pc["read"] = "receive"
    /\ \/ /\ broken
          /\ Done("read") /\ spins' = 0 /\ UNCHANGED ring
       \/ /\ ~broken /\ ring > 0
          /\ ring' = ring - 1
          /\ Goto("read", "release") /\ spins' = 0 /\ UNCHANGED wg
       \/ /\ ~broken /\ ring = 0
          /\ \/ Goto("read", "wait") /\ spins' = 0
             \/ spins < MaxSpins /\ spins' = spins + 1 /\ Goto("read", "loop")
          /\ UNCHANGED <<ring, wg>>
    /\ UNCHANGED <<device, broken, force, seen, chan, closing, left, readWait>>

\* The packet is copied and given back, and Read returns.
ReadRelease ==
    /\ pc["read"] = "release"
    /\ Done("read")
    /\ UNCHANGED <<device, driver, force, seen, chan, closing, spins, left, readWait>>

\* WaitForSingleObject; the event resets itself.  goto retry
ReadWait ==
    /\ pc["read"] = "wait" /\ readWait
    /\ readWait' = FALSE
    /\ Goto("read", "check")
    /\ UNCHANGED <<device, driver, force, seen, chan, closing, wg, spins, left>>

\* session.AllocateSendPacket: a slot, no room (the packet is dropped), or an error.
WriteAlloc ==
    /\ pc["write"] = "alloc"
    /\ \/ broken /\ Done("write") /\ left' = 0
       \/ ~broken /\ Goto("write", "send") /\ UNCHANGED <<wg, left>>
       \/ /\ ~broken /\ left' = left - 1
          /\ IF left = 1 THEN Done("write") ELSE UNCHANGED <<pc, wg>>
    /\ UNCHANGED <<device, driver, force, seen, chan, closing, spins, readWait>>

\* The packet is copied into its slot; session.SendPacket.
WriteSend ==
    /\ pc["write"] = "send"
    /\ left' = left - 1
    /\ IF left = 1 THEN Done("write") ELSE Goto("write", "alloc") /\ UNCHANGED wg
    /\ UNCHANGED <<device, driver, force, seen, chan, closing, spins, readWait>>

\* tun.wt.LUID()
LUID ==
    /\ pc["luid"] = "ask"
    /\ Done("luid")
    /\ UNCHANGED <<device, driver, force, seen, chan, closing, spins, left, readWait>>

Read  == Check("read") \/ ReadLoop \/ ReadReceive \/ ReadRelease \/ ReadWait
Write == Check("write") \/ WriteAlloc \/ WriteSend
AskLUID == Check("luid") \/ LUID

-----------------------------------------------------------------------------
(* Close: closeOnce.Do, whose body one caller runs while the others wait.  *)

CGoto(c, label) == cpc' = [cpc EXCEPT ![c] = label]

CloseBegin(c) ==
    /\ cpc[c] = "idle"
    /\ \/ once = "new" /\ once' = "running" /\ CGoto(c, "store")
       \/ once = "done" /\ CGoto(c, "returned") /\ UNCHANGED once
    /\ UNCHANGED <<device, driver, force, seen, chan, close, session, adapter, running, calls, readWait>>

\* Mutant of CloseSignal: the waiting Read is left to notice the flag by itself.
CloseNoSignal(c) ==
    /\ cpc[c] = "signal"
    /\ CGoto(c, "wait")
    /\ UNCHANGED <<device, driver, force, seen, chan, close, session, adapter, once, running, calls, readWait>>

\* tun.close.Store(true)
CloseStore(c) ==
    /\ cpc[c] = "store"
    /\ close' = TRUE
    /\ CGoto(c, "signal")
    /\ UNCHANGED <<device, driver, force, seen, chan, session, adapter, once, running, calls, readWait>>

\* windows.SetEvent(tun.readWait)
CloseSignal(c) ==
    /\ cpc[c] = "signal"
    /\ readWait' = TRUE
    /\ CGoto(c, "wait")
    /\ UNCHANGED <<device, driver, force, seen, chan, close, session, adapter, once, running, calls>>

\* tun.running.Wait() passes at zero and parks its caller otherwise.
CloseWait(c) ==
    /\ cpc[c] = "wait"
    /\ CGoto(c, IF running = {} THEN "end" ELSE "parked")
    /\ UNCHANGED <<device, driver, force, seen, chan, close, session, adapter, once, running, calls, readWait>>

\* The parked caller runs again.  sync.WaitGroup panics if it finds the counter
\* raised by then ("WaitGroup is reused before previous Wait has returned").
CloseWoken(c) ==
    /\ cpc[c] = "woken"
    /\ panicked' = (running # {})
    /\ CGoto(c, "end")
    /\ UNCHANGED <<device, driver, force, seen, events, eventsOpen, closing, running, calls, readWait>>

\* tun.session.End()
CloseSession(c) ==
    /\ cpc[c] = "end"
    /\ session' = "ended"
    /\ CGoto(c, "adapter")
    /\ UNCHANGED <<device, driver, force, seen, chan, close, adapter, once, running, calls, readWait>>

\* tun.wt.Close()
CloseAdapter(c) ==
    /\ cpc[c] = "adapter"
    /\ adapter' = "closed"
    /\ CGoto(c, "events")
    /\ UNCHANGED <<device, driver, force, seen, chan, close, session, once, running, calls, readWait>>

\* close(tun.events), and the once is done.
CloseEvents(c) ==
    /\ cpc[c] = "events"
    /\ eventsOpen' = FALSE /\ panicked' = ~eventsOpen
    /\ once' = "done" /\ CGoto(c, "returned")
    /\ UNCHANGED <<device, driver, force, seen, events, close, session, adapter, running, calls, readWait>>

Close(c) == \/ CloseBegin(c) \/ CloseStore(c) \/ CloseSignal(c) \/ CloseWait(c)
            \/ CloseWoken(c) \/ CloseSession(c) \/ CloseAdapter(c) \/ CloseEvents(c)

-----------------------------------------------------------------------------
(* ForceMTU, and the user of the device who asks for the MTU again after   *)
(* every event.                                                            *)

\* if tun.close.Load() { return }
ForceMTU(mtu) ==
    /\ fpc = "idle" /\ forces < MaxForces
    /\ forces' = forces + 1
    /\ IF close THEN UNCHANGED <<fpc, arg>> ELSE fpc' = "set" /\ arg' = mtu
    /\ UNCHANGED <<device, driver, forcedMTU, seen, chan, closing, wg, calls, readWait>>

\* Mutant of ForceSet: the event goes out only for a larger MTU.
ForceSetLarger ==
    /\ fpc = "set"
    /\ forcedMTU' = arg
    /\ fpc' = IF forcedMTU < arg THEN "send" ELSE "idle"
    /\ UNCHANGED <<device, driver, arg, forces, seen, chan, closing, wg, calls, readWait>>

\* update := tun.forcedMTU != mtu; tun.forcedMTU = mtu
ForceSet ==
    /\ fpc = "set"
    /\ forcedMTU' = arg
    /\ fpc' = IF forcedMTU # arg THEN "send" ELSE "idle"
    /\ UNCHANGED <<device, driver, arg, forces, seen, chan, closing, wg, calls, readWait>>

\* tun.events <- EventMTUUpdate; a send on the closed channel kills the process.
ForceSend ==
    /\ fpc = "send"
    /\ \/ eventsOpen /\ events < EventCap /\ events' = events + 1 /\ UNCHANGED panicked
       \/ ~eventsOpen /\ panicked' = TRUE /\ UNCHANGED events
    /\ fpc' = "idle"
    /\ UNCHANGED <<device, driver, arg, forces, forcedMTU, seen, eventsOpen, closing, wg, calls, readWait>>

\* The user receives an event and calls tun.MTU().
ReceiveEvent ==
    /\ events > 0
    /\ events' = events - 1 /\ seen' = forcedMTU
    /\ UNCHANGED <<device, driver, force, eventsOpen, panicked, closing, wg, calls, readWait>>

-----------------------------------------------------------------------------
(* The driver.                                                             *)

PacketArrives ==
    /\ session = "open" /\ ring < MaxPackets
    /\ ring' = ring + 1 /\ readWait' = TRUE
    /\ UNCHANGED <<device, broken, force, seen, chan, closing, wg, calls>>

DriverFails ==
    /\ ~broken
    /\ broken' = TRUE
    /\ UNCHANGED <<device, ring, force, seen, chan, closing, wg, calls, readWait>>

Next ==
    /\ ~panicked
    /\ \/ Create
       \/ /\ device = "ready"
          /\ \/ \E u \in Users : Add(u)
             \/ Read \/ Write \/ AskLUID
             \/ \E c \in Closers : Close(c)
             \/ \E mtu \in MTUs : ForceMTU(mtu)
             \/ ForceSet \/ ForceSend \/ ReceiveEvent
             \/ PacketArrives \/ DriverFails

Spec == Init /\ [][Next]_vars

Alive(A) == device = "ready" /\ ~panicked /\ A

\* Goroutines inside a call run; the device's users keep reading and keep
\* receiving events, and stop calling once they were told that the device is
\* closed.  Nobody has to call Write, LUID, ForceMTU or Close.
LiveSpec ==
    /\ Spec
    /\ WF_vars(Alive(Read)) /\ WF_vars(Alive(~close /\ Add("read")))
    /\ WF_vars(Alive(Write)) /\ WF_vars(Alive(AskLUID))
    /\ \A c \in Closers : WF_vars(Alive(cpc[c] # "idle" /\ Close(c)))
    /\ WF_vars(Alive(ForceSet \/ ForceSend))
    /\ WF_vars(Alive(ReceiveEvent))
    /\ <>[][close => \A u \in Users : ~Add(u)]_vars

-----------------------------------------------------------------------------
TypeOK ==
    /\ device \in {"new", "ready", "failed"}
    /\ close \in BOOLEAN /\ running \subseteq Users
    /\ session \in {"open", "ended"} /\ adapter \in {"open", "closed"}
    /\ broken \in BOOLEAN /\ ring \in 0..MaxPackets /\ readWait \in BOOLEAN
    /\ events \in 0..EventCap /\ eventsOpen \in BOOLEAN /\ panicked \in BOOLEAN
    /\ once \in {"new", "running", "done"}
    /\ cpc \in [Closers -> {"idle", "store", "signal", "wait", "parked", "woken",
                            "end", "adapter", "events", "returned"}]
    /\ pc \in [Users -> {"idle", "check", "loop", "receive", "release", "wait",
                         "alloc", "send", "ask"}]
    /\ spins \in 0..MaxSpins /\ left \in Nat
    /\ fpc \in {"idle", "set", "send"} /\ arg \in MTUs
    /\ forces \in 0..MaxForces /\ forcedMTU \in MTUs
    /\ seen \in MTUs

\* Past its check a goroutine is about to use the session, the adapter, or a
\* slot of the ring.
InUse(u) == pc[u] \in {"loop", "receive", "release", "wait", "alloc", "send", "ask"}

(* SessionAlive: Close never ends the session or the adapter under a Read, *)
(* Write or LUID that has found the device open, wherever Close overtakes  *)
(* it between Add, its check of the flag and its last use of the driver.   *)
SessionAlive ==
    \A u \in Users : InUse(u) => session = "open" /\ adapter = "open"

(* EventsClosedOnce: however many goroutines call Close, the channel is    *)
(* still open when one of them closes it.                                  *)
EventsClosedOnce ==
    \A c \in Closers : cpc[c] = "events" => eventsOpen

(* CloseReturns: Close returns, although a Read may be waiting for the     *)
(* event and consumes the signals of arriving packets: no wakeup is lost.  *)
(* (The process may die first, of a ForceMTU or a call that raises the     *)
(* counter while Close is waking up.)                                      *)
CloseReturns ==
    \A c \in Closers : cpc[c] # "idle" ~> cpc[c] = "returned" \/ panicked

(* PacketsAreRead: while packets stay in the ring, Read takes one again    *)
(* and again, unless the device is closed or its driver fails; it does not *)
(* stay in its wait on a ring that is not empty, although the signals of   *)
(* packets that arrive together, or between a call and the next, are one.  *)
PacketsAreRead ==
    []<>(ring = 0 \/ close \/ broken \/ panicked) \/ []<><<ring' < ring>>_vars

(* UserLearnsMTU: a user who asks for the MTU after every event knows the  *)
(* MTU that ForceMTU has set last, unless the device is closed.            *)
UserLearnsMTU ==
    forcedMTU # seen ~> forcedMTU = seen \/ close \/ panicked

-----------------------------------------------------------------------------
(* The inductive invariant behind SessionAlive and EventsClosedOnce.       *)

\* Calls are counted in running, and nobody calls a device that is not there.
CallsAreRunning == \A u \in Users : pc[u] # "idle" => u \in running /\ device = "ready"
ClosersHaveDevice == \A c \in Closers : cpc[c] # "idle" => device = "ready"

NewIsOpen == device = "new" => adapter = "open" /\ eventsOpen

\* Write has packets left for as long as it runs.
WriteHasPackets == pc["write"] # "idle" => left > 0

\* No call is past its check, and none will be.
Drained == close /\ \A u \in Users : ~InUse(u)

FlagBeforeWait ==
    \A c \in Closers : cpc[c] \in {"signal", "wait", "parked", "woken"} => close
WaitDrains ==
    \A c \in Closers : cpc[c] \in {"woken", "end", "adapter", "events"} => Drained
EndedIsDrained ==
    device = "ready" /\ (session = "ended" \/ adapter = "closed") => Drained

\* One caller is inside closeOnce.Do, and the channel is closed at its end.
InBody(c) == cpc[c] \notin {"idle", "returned"}
OneBody ==
    /\ \A c \in Closers : InBody(c) => once = "running"
    /\ \A c, d \in Closers : InBody(c) /\ InBody(d) => c = d
ClosedAtEnd == device = "ready" /\ ~eventsOpen => once = "done"

IInv == /\ TypeOK /\ WriteHasPackets /\ CallsAreRunning /\ ClosersHaveDevice
        /\ NewIsOpen /\ FlagBeforeWait /\ WaitDrains /\ EndedIsDrained
        /\ OneBody /\ ClosedAtEnd
=============================================================================
