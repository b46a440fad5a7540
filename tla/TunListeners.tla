----------------------------- MODULE TunListeners -----------------------------
(***************************************************************************)
(* The life of the Linux TUN device (tun_linux.go): CreateTUNFromFile or   *)
(* CreateUnmonitoredTUNFromFD, the two goroutines that report the state of *)
(* the link on the events channel (routineHackListener polls the file,     *)
(* routineNetlinkListener receives from a netlink socket), and Close.      *)
(*                                                                         *)
(* The kernel is external: a link that goes up and down, a queue of        *)
(* netlink datagrams, each a sequence of messages: "up" and "down"         *)
(* (RTM_NEWLINK of this interface with and without IFF_RUNNING), "end"     *)
(* (NLMSG_DONE) or "other" (another type, another interface).              *)
(* A Go channel is a sequence and a closed flag; sending on, or closing, a *)
(* closed channel panics.                                                  *)
(***************************************************************************)
EXTENDS Integers, Sequences

CONSTANTS EventCap,   \* capacity of the events channel (5)
          ErrorCap,   \* capacity of the errors channel (5)
          MaxChanges, \* bound: messages the kernel sends
          Closers,    \* goroutines that call Close
          Faults      \* may the netlink socket fail?  may setMTU?

ASSUME TunAssumption ==
    /\ EventCap \in Nat \ {0} /\ ErrorCap \in Nat \ {0}
    /\ MaxChanges \in Nat /\ Faults \in BOOLEAN
    /\ "free" \notin Closers /\ "done" \notin Closers

VARIABLES
    running,    \* kernel: is the link up?
    changes,    \* kernel: messages sent
    queue,      \* kernel: datagrams waiting in the netlink socket
    stale,      \* history: the MTU changed since the device's user asked for it last
    socket,     \* "none", "open" or "closed": tun.netlinkSock
    device,     \* "creating", "ready", "failed" or "unmonitored"
    fileOpen,   \* tun.tunFile
    shutdown,   \* statusListenersShutdown is closed
    cancelled,  \* netlinkCancel was cancelled
    cancelPipe, \* netlinkCancel's pipe is open
    events,     \* the events channel
    eventsClosed,
    errors,     \* number of errors in the errors channel
    hack,       \* where routineHackListener is
    last,       \* its variable last: "none", "up" or "down"
    nl,         \* where routineNetlinkListener is
    msgs,       \* the rest of the datagram it works on
    wasEverUp,  \* its variable wasEverUp
    closer,     \* closer[c]: where a goroutine is in Close
    once,       \* who runs the body of closeOnce.Do: a closer, "free" or "done"
    panicked,   \* a goroutine sent on or closed a closed channel
    everUp,     \* history: routineNetlinkListener emitted EventUp
    reported    \* history: the last status emitted, "none", "up" or "down"

kernel == <<running, changes, queue, stale>>
chan   == <<events, eventsClosed, panicked, reported>>
hackv  == <<hack, last>>
nlv    == <<nl, msgs, wasEverUp, everUp>>
closev == <<fileOpen, shutdown, cancelled, closer, once>>
vars   == <<kernel, socket, device, cancelPipe, chan, errors, hackv, nlv, closev>>

Init ==
    /\ running \in BOOLEAN /\ changes = 0 /\ queue = <<>> /\ stale = FALSE
    /\ device \in {"creating", "unmonitored"}
    /\ socket = "none"
    /\ fileOpen = TRUE /\ shutdown = FALSE /\ cancelled = FALSE /\ cancelPipe = FALSE
    /\ events = <<>> /\ eventsClosed = FALSE /\ errors = 0
    /\ hack = "none" /\ last = "none"
    /\ nl = "none" /\ msgs = <<>> /\ wasEverUp = FALSE
    /\ closer = [c \in Closers |-> "idle"] /\ once = "free"
    /\ panicked = FALSE /\ everUp = FALSE /\ reported = "none"

-----------------------------------------------------------------------------
(* The events channel.                                                     *)

\* tun.events <- e: blocks while the channel is full, panics if it is closed.
Send(e) ==
    IF eventsClosed
      THEN panicked' = TRUE /\ UNCHANGED <<events, eventsClosed, reported>>
      ELSE /\ Len(events) < EventCap
           /\ events' = Append(events, e)
           /\ reported' = IF e = "mtu" THEN reported ELSE e
           /\ UNCHANGED <<eventsClosed, panicked>>

\* close(tun.events)
CloseEvents ==
    /\ eventsClosed' = TRUE
    /\ panicked' = (panicked \/ eventsClosed)
    /\ UNCHANGED <<events, reported>>

\* The device's user receives from Events() and asks for the MTU after an
\* EventMTUUpdate.
Receive ==
    /\ device = "ready" /\ events # <<>>
    /\ events' = Tail(events)
    /\ stale' = (stale /\ Head(events) # "mtu")
    /\ UNCHANGED <<eventsClosed, panicked, reported, running, changes, queue, socket,
                   device, cancelPipe, errors, hackv, nlv, closev>>

\* Read returns an error from the errors channel before it reads the file.
ReadError ==
    /\ device = "ready" /\ errors > 0
    /\ errors' = errors - 1
    /\ UNCHANGED <<kernel, socket, device, cancelPipe, chan, hackv, nlv, closev>>

-----------------------------------------------------------------------------
(* The kernel.  A message is a datagram of its own or is added to the last *)
(* one waiting, which NLMSG_DONE ends.                                     *)

Notify(m) ==
    \/ queue' = Append(queue, <<m>>)
    \/ /\ queue # <<>>
       /\ LET d == queue[Len(queue)] IN d[Len(d)] # "end"
       /\ queue' = [queue EXCEPT ![Len(queue)] = Append(@, m)]

Status == IF running THEN "up" ELSE "down"

LinkChanges ==
    /\ changes < MaxChanges
    /\ changes' = changes + 1
    /\ running' = ~running
    /\ IF socket = "open" THEN Notify(IF running' THEN "up" ELSE "down") ELSE UNCHANGED queue
    /\ UNCHANGED <<stale, socket, device, cancelPipe, chan, errors, hackv, nlv, closev>>

\* The MTU changes: a message with the status of the link.
MTUChanges ==
    /\ changes < MaxChanges /\ socket = "open"
    /\ changes' = changes + 1
    /\ Notify(Status) /\ stale' = TRUE
    /\ UNCHANGED <<running, socket, device, cancelPipe, chan, errors, hackv, nlv, closev>>

\* Something happens to another interface.
OtherNotice ==
    /\ changes < MaxChanges /\ socket = "open"
    /\ changes' = changes + 1
    /\ \E m \in {"other", "end"} : Notify(m)
    /\ UNCHANGED <<running, stale, socket, device, cancelPipe, chan, errors, hackv, nlv, closev>>

-----------------------------------------------------------------------------
(* CreateTUNFromFile.                                                      *)

\* Name, initFromFlags, getIFIndex, createNetlinkSocket or NewRWCancel fails
\* (the last one after the socket was opened: it is closed again).
CreateFailsEarly ==
    /\ Faults /\ device = "creating" /\ socket = "none"
    /\ device' = "failed"
    /\ UNCHANGED <<kernel, socket, cancelPipe, chan, errors, hackv, nlv, closev>>

\* The socket and its RWCancel exist; the lock is taken for the hack listener
\* and both goroutines start.
StartListeners ==
    /\ device = "creating" /\ socket = "none"
    /\ socket' = "open" /\ cancelPipe' = TRUE
    /\ hack' = "probe" /\ nl' = "recv"
    /\ UNCHANGED <<kernel, device, chan, errors, last, msgs, wasEverUp, everUp, closev>>

SetMTU ==
    /\ device = "creating" /\ socket # "none"
    /\ \/ device' = "ready" /\ UNCHANGED socket
       \/ /\ Faults  \* the socket is closed under the running listener
          /\ device' = "failed" /\ socket' = "closed"
    /\ UNCHANGED <<kernel, cancelPipe, chan, errors, hackv, nlv, closev>>

-----------------------------------------------------------------------------
(* routineHackListener.                                                    *)

\* Mutant of HackProbe: only the first status is reported.
HackProbeOnce ==
    /\ hack = "probe"
    /\ hack' = IF ~fileOpen THEN "done"
               ELSE IF last # "none" THEN "sleep"
               ELSE IF running THEN "sendUp" ELSE "sendDown"
    /\ UNCHANGED <<kernel, socket, device, cancelPipe, chan, errors, last, nlv, closev>>

\* A null write tells whether the link is up; a closed file ends the routine.
HackProbe ==
    /\ hack = "probe"
    /\ hack' = IF ~fileOpen THEN "done"
               ELSE IF running THEN (IF last # "up" THEN "sendUp" ELSE "sleep")
               ELSE (IF last # "down" THEN "sendDown" ELSE "sleep")
    /\ UNCHANGED <<kernel, socket, device, cancelPipe, chan, errors, last, nlv, closev>>

\* The null write fails in another way.
HackProbeFails ==
    /\ Faults /\ hack = "probe" /\ fileOpen
    /\ hack' = "done"
    /\ UNCHANGED <<kernel, socket, device, cancelPipe, chan, errors, last, nlv, closev>>

HackSend ==
    /\ \/ hack = "sendUp" /\ Send("up") /\ last' = "up"
       \/ hack = "sendDown" /\ Send("down") /\ last' = "down"
    /\ hack' = "sleep"
    /\ UNCHANGED <<kernel, socket, device, cancelPipe, errors, nlv, closev>>

\* The select: a second passes, or the listeners are shut down.
HackWake ==
    /\ hack = "sleep"
    /\ hack' = "probe" \/ (shutdown /\ hack' = "done")
    /\ UNCHANGED <<kernel, socket, device, cancelPipe, chan, errors, last, nlv, closev>>

Hack == HackProbe \/ HackSend \/ HackWake

-----------------------------------------------------------------------------
(* routineNetlinkListener.                                                 *)

\* Recvmsg succeeds; the select that follows sees a shutdown.
NetlinkRecv ==
    /\ nl = "recv" /\ socket = "open" /\ queue # <<>>
    /\ queue' = Tail(queue)
    /\ IF shutdown
         THEN nl' = "closeSock" /\ UNCHANGED <<msgs, wasEverUp>>
         ELSE nl' = "msg" /\ msgs' = Head(queue) /\ wasEverUp' = FALSE
    /\ UNCHANGED <<running, changes, stale, socket, device, cancelPipe, chan, errors, hackv,
                   everUp, closev>>

\* Recvmsg would block: ReadyRead waits for a datagram or for the cancellation.
NetlinkCancelled ==
    /\ nl = "recv" /\ socket = "open" /\ queue = <<>> /\ cancelled
    /\ errors < ErrorCap /\ errors' = errors + 1
    /\ nl' = "closeSock"
    /\ UNCHANGED <<kernel, socket, device, cancelPipe, chan, hackv, msgs, wasEverUp, everUp, closev>>

\* Recvmsg fails: creation failed after the listener started, and closed the socket.
NetlinkFails ==
    /\ nl = "recv" /\ socket = "closed"
    /\ errors < ErrorCap /\ errors' = errors + 1
    /\ nl' = "closeSock"
    /\ UNCHANGED <<kernel, socket, device, cancelPipe, chan, hackv, msgs, wasEverUp, everUp, closev>>

\* Recvmsg fails in another way: the buffer of the socket overran.
NetlinkOverruns ==
    /\ Faults /\ nl = "recv" /\ socket = "open"
    /\ errors < ErrorCap /\ errors' = errors + 1
    /\ nl' = "closeSock"
    /\ UNCHANGED <<kernel, socket, device, cancelPipe, chan, hackv, msgs, wasEverUp, everUp, closev>>

\* Mutant of NetlinkMessage: a message whose Down is held back is skipped.
NetlinkMessageSkips ==
    /\ nl = "msg"
    /\ IF msgs = <<>>
         THEN nl' = "recv" /\ UNCHANGED msgs
         ELSE /\ msgs' = IF Head(msgs) = "end" THEN <<>> ELSE Tail(msgs)
              /\ nl' = CASE Head(msgs) = "up" -> "sendUp"
                         [] Head(msgs) = "down" /\ wasEverUp -> "sendDown"
                         [] OTHER -> "msg"
    /\ UNCHANGED <<kernel, socket, device, cancelPipe, chan, errors, hackv, wasEverUp, everUp, closev>>

\* The next message of the datagram.
NetlinkMessage ==
    /\ nl = "msg"
    /\ IF msgs = <<>>
         THEN nl' = "recv" /\ UNCHANGED msgs
         ELSE /\ msgs' = IF Head(msgs) = "end" THEN <<>> ELSE Tail(msgs)
              /\ nl' = CASE Head(msgs) = "up" -> "sendUp"
                         [] Head(msgs) = "down" -> (IF wasEverUp THEN "sendDown" ELSE "sendMTU")
                         [] OTHER -> "msg"
    /\ UNCHANGED <<kernel, socket, device, cancelPipe, chan, errors, hackv, wasEverUp, everUp, closev>>

NetlinkSend ==
    /\ \/ /\ nl = "sendUp" /\ Send("up") /\ nl' = "sendMTU"
          /\ wasEverUp' = TRUE /\ everUp' = TRUE
       \/ nl = "sendDown" /\ Send("down") /\ nl' = "sendMTU" /\ UNCHANGED <<wasEverUp, everUp>>
       \/ nl = "sendMTU" /\ Send("mtu") /\ nl' = "msg" /\ UNCHANGED <<wasEverUp, everUp>>
    /\ UNCHANGED <<kernel, socket, device, cancelPipe, errors, hackv, msgs, closev>>

\* The deferred function: close the socket, ...
NetlinkCloseSock ==
    /\ nl = "closeSock"
    /\ socket' = "closed"
    /\ nl' = "lock"
    /\ UNCHANGED <<kernel, device, cancelPipe, chan, errors, hackv, msgs, wasEverUp, everUp, closev>>

\* Mutant of NetlinkLock: the hack listener is not waited for.
NetlinkNoLock ==
    /\ nl = "lock"
    /\ nl' = "closeEvents"
    /\ UNCHANGED <<kernel, socket, device, cancelPipe, chan, errors, hackv, msgs, wasEverUp, everUp, closev>>

\* ... wait until the hack listener has released hackListenerClosed, ...
NetlinkLock ==
    /\ nl = "lock" /\ hack = "done"
    /\ nl' = "closeEvents"
    /\ UNCHANGED <<kernel, socket, device, cancelPipe, chan, errors, hackv, msgs, wasEverUp, everUp, closev>>

\* ... close the events channel ...
NetlinkCloseEvents ==
    /\ nl = "closeEvents"
    /\ CloseEvents
    /\ nl' = "closeCancel"
    /\ UNCHANGED <<kernel, socket, device, cancelPipe, errors, hackv, msgs, wasEverUp, everUp, closev>>

\* ... and the pipe of netlinkCancel.
NetlinkCloseCancel ==
    /\ nl = "closeCancel"
    /\ cancelPipe' = FALSE
    /\ nl' = "done"
    /\ UNCHANGED <<kernel, socket, device, chan, errors, hackv, msgs, wasEverUp, everUp, closev>>

Netlink == \/ NetlinkRecv \/ NetlinkCancelled \/ NetlinkFails \/ NetlinkMessage \/ NetlinkSend
           \/ NetlinkCloseSock \/ NetlinkLock \/ NetlinkCloseEvents \/ NetlinkCloseCancel

-----------------------------------------------------------------------------
(* Close.                                                                  *)

Monitored == device = "ready"

\* closeOnce.Do: the first caller runs the body, one that comes later waits
\* until the body has ended and returns.
CloseBegin(c) ==
    /\ device \in {"ready", "unmonitored"} /\ closer[c] = "idle"
    /\ IF once = "free"
         THEN once' = c /\ closer' = [closer EXCEPT ![c] = "signal"]
         ELSE UNCHANGED once /\ closer' = [closer EXCEPT ![c] = "wait"]
    /\ UNCHANGED <<kernel, socket, device, cancelPipe, chan, errors, hackv, nlv,
                   fileOpen, shutdown, cancelled>>

CloseWait(c) ==
    /\ closer[c] = "wait" /\ once = "done"
    /\ closer' = [closer EXCEPT ![c] = "returned"]
    /\ UNCHANGED <<kernel, socket, device, cancelPipe, chan, errors, hackv, nlv,
                   fileOpen, shutdown, cancelled, once>>

\* close(statusListenersShutdown); with no listeners, close(events).
CloseSignal(c) ==
    /\ closer[c] = "signal"
    /\ closer' = [closer EXCEPT ![c] = IF Monitored THEN "cancel" ELSE "file"]
    /\ IF Monitored THEN shutdown' = TRUE /\ UNCHANGED chan
                    ELSE CloseEvents /\ UNCHANGED shutdown
    /\ UNCHANGED <<kernel, socket, device, cancelPipe, errors, hackv, nlv,
                   fileOpen, cancelled, once>>

\* Mutant of CloseCancel: the netlink listener is not woken.
CloseNoCancel(c) ==
    /\ closer[c] = "cancel"
    /\ closer' = [closer EXCEPT ![c] = "file"]
    /\ UNCHANGED <<kernel, socket, device, cancelPipe, chan, errors, hackv, nlv,
                   fileOpen, shutdown, cancelled, once>>

\* netlinkCancel.Cancel writes to the pipe; if the listener has ended and
\* closed it, Cancel fails, and Close goes on.
CloseCancel(c) ==
    /\ closer[c] = "cancel"
    /\ cancelled' = cancelPipe
    /\ closer' = [closer EXCEPT ![c] = "file"]
    /\ UNCHANGED <<kernel, socket, device, cancelPipe, chan, errors, hackv, nlv,
                   fileOpen, shutdown, once>>

CloseFile(c) ==
    /\ closer[c] = "file"
    /\ fileOpen' = FALSE /\ once' = "done"
    /\ closer' = [closer EXCEPT ![c] = "returned"]
    /\ UNCHANGED <<kernel, socket, device, cancelPipe, chan, errors, hackv, nlv,
                   shutdown, cancelled>>

Close(c) == CloseWait(c) \/ CloseSignal(c) \/ CloseCancel(c) \/ CloseFile(c)

-----------------------------------------------------------------------------
Create == CreateFailsEarly \/ StartListeners \/ SetMTU

Next ==
    \/ Create \/ Hack \/ HackProbeFails \/ Netlink \/ NetlinkOverruns \/ Receive \/ ReadError
    \/ LinkChanges \/ MTUChanges \/ OtherNotice
    \/ \E c \in Closers : CloseBegin(c) \/ Close(c)

Spec == Init /\ [][Next]_vars

\* Every goroutine that can go on does; the device's user receives events.
\* The link and its MTU, failures of system calls and the decision to call Close are not fair.
LiveSpec ==
    /\ Spec
    /\ WF_vars(Create) /\ WF_vars(Hack) /\ WF_vars(Netlink) /\ WF_vars(Receive)
    /\ \A c \in Closers : WF_vars(Close(c))

-----------------------------------------------------------------------------
Ended == {"lock", "closeEvents", "closeCancel", "done"}

\* The values of the variables, the bounds of the two channels included:
\* the netlink listener never blocks on the errors channel for good.
TypeOK ==
    /\ running \in BOOLEAN /\ changes \in 0..MaxChanges /\ stale \in BOOLEAN
    /\ queue \in Seq(Seq({"up", "down", "other", "end"}))
    /\ socket \in {"none", "open", "closed"}
    /\ device \in {"creating", "ready", "failed", "unmonitored"}
    /\ fileOpen \in BOOLEAN /\ shutdown \in BOOLEAN
    /\ cancelled \in BOOLEAN /\ cancelPipe \in BOOLEAN
    /\ events \in Seq({"up", "down", "mtu"}) /\ Len(events) <= EventCap
    /\ eventsClosed \in BOOLEAN /\ errors \in 0..ErrorCap
    /\ hack \in {"none", "probe", "sendUp", "sendDown", "sleep", "done"}
    /\ last \in {"none", "up", "down"}
    /\ nl \in {"none", "recv", "msg", "sendUp", "sendDown", "sendMTU", "closeSock"} \union Ended
    /\ msgs \in Seq({"up", "down", "other", "end"}) /\ wasEverUp \in BOOLEAN
    /\ closer \in [Closers -> {"idle", "wait", "signal", "cancel", "file", "returned"}]
    /\ once \in Closers \union {"free", "done"}
    /\ panicked \in BOOLEAN /\ everUp \in BOOLEAN /\ reported \in {"none", "up", "down"}

\* No goroutine sends on the closed events channel or closes it twice, however
\* Close, the two listeners and the failures of either interleave: the events
\* channel is closed by the netlink listener once the hack listener has ended,
\* or by Close when there are no listeners (the panics of lines 88-95, 130, 180-193, 491).
NoPanic == ~panicked

(* The inductive invariant behind it.                                      *)

\* Whoever closes the events channel has outlived everyone who sends on it.
ClosedEventsHaveNoSender ==
    /\ eventsClosed => \/ device = "unmonitored" /\ once # "free"
                       \/ nl \in {"closeCancel", "done"}
    /\ nl \in {"closeEvents", "closeCancel", "done"} => hack = "done"

\* The listeners exist exactly when the socket was opened; unmonitored
\* devices have neither.
ListenersHaveSocket ==
    /\ (socket = "none") = (nl = "none") /\ (nl = "none") = (hack = "none")
    /\ device = "unmonitored" => nl = "none"

\* One goroutine runs the body of closeOnce.Do, on a device whose creation ended.
OneCloseBody ==
    \A c \in Closers :
        /\ closer[c] \in {"signal", "cancel", "file"} => once = c
        /\ closer[c] # "idle" => device \in {"ready", "unmonitored"}
        /\ closer[c] = "signal" /\ device = "unmonitored" => ~eventsClosed

IInv == /\ TypeOK /\ NoPanic
        /\ ClosedEventsHaveNoSender /\ ListenersHaveSocket /\ OneCloseBody

\* Once Close has run its body, the events channel is closed and both
\* listeners end, whatever they were doing (lines 482-493, tun.go:46).
CloseClosesEvents == once = "done" ~> eventsClosed /\ hack \in {"none", "done"} /\ nl \in {"none", "done"}

\* If from some time on the link is up, the device is not closed and both listeners
\* run, then the last status its user is told is, in the end, up: the two may report
\* the same changes in different orders but their last word is right.  It can be
\* stale after one of them has failed.
StableUp ==
    <>[](device = "ready" /\ running /\ once = "free" /\ hack # "done" /\ nl \notin {"closeSock"} \union Ended)
      => <>[](reported = "up")

\* A user who asks for the MTU at every EventMTUUpdate learns the one the kernel has
\* set last (lines 176-195), also when it arrives with a Down that is held back, behind
\* other messages of a datagram or while the channel is full of the other listener's
\* events, unless the device is closed or the netlink listener fails.
UserLearnsMTU ==
    stale ~> ~stale \/ shutdown \/ device = "failed" \/ nl \in {"closeSock"} \union Ended

\* The comment on lines 186-188: only a Down before the first Up is kept
\* back, so a down message handled after the listener emitted EventUp is
\* reported.
DownAfterUpIsReported ==
    [][nl = "msg" /\ msgs # <<>> /\ msgs' # msgs /\ Head(msgs) = "down" /\ everUp
         => nl' = "sendDown"]_vars

=============================================================================
