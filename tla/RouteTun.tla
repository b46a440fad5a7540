------------------------------- MODULE RouteTun -------------------------------
(***************************************************************************)
(* The TUN devices of FreeBSD, OpenBSD and macOS (tun_freebsd.go,          *)
(* tun_openbsd.go, tun_darwin.go): creation, routineRouteListener, which   *)
(* reads a routing socket and reports the interface on the events channel, *)
(* and Close.  os says which of the three files is at work; where they     *)
(* agree the definitions are shared.                                       *)
(*                                                                         *)
(* The kernel is external: an interface, a routing socket with a bounded   *)
(* buffer that drops what does not fit, and descriptor numbers that are    *)
(* given away again once they are closed.                                  *)
(***************************************************************************)
EXTENDS Integers, Sequences

CONSTANTS Systems,    \* the systems to consider
          EventCap,   \* capacity of the events channel (10)
          QueueCap,   \* messages the routing socket holds
          MaxChanges, \* bound: messages the kernel sends on its own
          MaxStolen,  \* bound: reads of somebody else's descriptor
          MTUs,       \* possible MTUs
          MTUArgs,    \* arguments mtu of CreateTUN
          MaxCalls,   \* bound: calls of Close
          Faults      \* may system calls fail, may the interface be destroyed by others?

ASSUME RouteTunAssumption ==
    /\ Systems \subseteq {"freebsd", "openbsd", "darwin"}
    /\ EventCap \in Nat \ {0} /\ QueueCap \in Nat \ {0}
    /\ MaxChanges \in Nat /\ MaxStolen \in Nat
    /\ MTUs \subseteq Nat \ {0} /\ MTUArgs \subseteq MTUs \union {0}
    /\ MaxCalls \in Nat /\ Faults \in BOOLEAN

VARIABLES
    os,
    link,      \* kernel: the interface, [exists, up, mtu]
    changes,   \* kernel: messages sent on its own
    queue,     \* kernel: messages in the routing socket
    sock,      \* the descriptor: "none", "open", "shutdown", "closed" or "reused"
    device,    \* "none", "opened", "started", "ready" or "failed"
    mtuArg,    \* the argument mtu
    fileOpen,  \* tun.tunFile
    route,     \* tun.routeSocket: "num", or "none" for -1
    events,    \* the events channel
    eventsClosed,
    errors,    \* number of errors in the errors channel
    pc,        \* where routineRouteListener is
    fd,        \* the descriptor it is about to read
    seen,      \* flags and MTU it works on
    status,    \* statusUp and statusMTU
    calls,     \* calls of Close that began
    waiting,   \* calls that wait for the one that runs the body of closeOnce.Do
    once,      \* closeOnce: "free", "body" or "done"
    step,      \* the next statement of that body
    panicked,  \* a goroutine sent on or closed a closed channel
    reported,  \* history: the last status sent on events
    missed,    \* history: nothing in the socket's buffer tells of the interface's last change
    stolen     \* history: reads of somebody else's descriptor after Close

kernel == <<link, changes, queue, missed>>
chan   == <<events, eventsClosed, panicked, reported>>
lstnr  == <<pc, fd, seen, status>>
clos   == <<calls, waiting, once, step>>
vars   == <<os, kernel, sock, device, mtuArg, fileOpen, route, chan, errors, lstnr,
            clos, stolen>>

Message == [own : BOOLEAN, up : BOOLEAN, mtu : MTUs \union {0}]
Status == [up : BOOLEAN, mtu : MTUs \union {0}]
Other  == [own |-> FALSE, up |-> FALSE, mtu |-> 0]
Info(l) == [own |-> TRUE, up |-> l.up, mtu |-> l.mtu]

ErrorCap == IF os = "darwin" THEN 5 ELSE 1

Init ==
    /\ os \in Systems
    /\ link = [exists |-> FALSE, up |-> FALSE, mtu |-> 0]
    /\ changes = 0 /\ queue = <<>> /\ missed = FALSE
    /\ sock = "none" /\ route = "num" /\ device = "none" /\ fileOpen = FALSE
    /\ mtuArg \in MTUArgs /\ (mtuArg = 0 => os = "darwin")
    /\ events = <<>> /\ eventsClosed = FALSE /\ errors = 0
    /\ pc = "none" /\ fd = "none" /\ seen = [up |-> FALSE, mtu |-> 0] /\ status = seen
    /\ calls = 0 /\ waiting = 0 /\ once = "free" /\ step = 1
    /\ panicked = FALSE /\ reported = "down" /\ stolen = 0

-----------------------------------------------------------------------------
(* The kernel.                                                             *)

\* A message for the routing socket.  One that does not fit is dropped; it is
\* missed unless a waiting message makes the listener look at the interface.
Notify(m) ==
    IF sock # "open"
      THEN UNCHANGED <<queue, missed>>
      ELSE IF Len(queue) < QueueCap
        THEN queue' = Append(queue, m) /\ missed' = (missed /\ ~m.own)
        ELSE /\ missed' = (missed \/ (m.own /\ (os = "darwin" \/ \A i \in DOMAIN queue : ~queue[i].own)))
             /\ UNCHANGED queue

LinkChanges ==
    /\ changes < MaxChanges /\ changes' = changes + 1 /\ link.exists
    /\ \/ \E up \in BOOLEAN \ {link.up} : link' = [link EXCEPT !.up = up]
       \/ \E m \in MTUs \ {link.mtu} : link' = [link EXCEPT !.mtu = m]
    /\ Notify(Info(link'))
    /\ UNCHANGED <<os, sock, device, mtuArg, fileOpen, route, chan, errors, lstnr, clos, stolen>>

OtherMessage ==
    /\ changes < MaxChanges /\ changes' = changes + 1 /\ sock = "open"
    /\ Notify(Other)
    /\ UNCHANGED <<os, link, sock, device, mtuArg, fileOpen, route, chan, errors, lstnr, clos, stolen>>

\* The interface goes with its last descriptor (not on FreeBSD) or is destroyed by others.
LinkVanishes ==
    /\ link.exists /\ (Faults \/ (os # "freebsd" /\ ~fileOpen))
    /\ link' = [link EXCEPT !.exists = FALSE, !.up = FALSE]
    /\ Notify(Info(link'))
    /\ UNCHANGED <<os, changes, sock, device, mtuArg, fileOpen, route, chan, errors, lstnr, clos, stolen>>

\* Another part of the process opens a file and is given the number.
Reuse ==
    /\ sock = "closed" /\ sock' = "reused"
    /\ UNCHANGED <<os, kernel, device, mtuArg, fileOpen, route, chan, errors, lstnr, clos, stolen>>

-----------------------------------------------------------------------------
(* Channels.                                                               *)

Send(e) ==
    IF eventsClosed
      THEN panicked' = TRUE /\ UNCHANGED <<events, eventsClosed, reported>>
      ELSE /\ Len(events) < EventCap
           /\ events' = Append(events, e)
           /\ reported' = IF e = "mtu" THEN reported ELSE e
           /\ UNCHANGED <<eventsClosed, panicked>>

CloseEvents ==
    /\ eventsClosed' = TRUE
    /\ panicked' = (panicked \/ eventsClosed)
    /\ UNCHANGED <<events, reported>>

\* The user of the device receives an event.
Receive ==
    /\ events # <<>>
    /\ events' = Tail(events)
    /\ UNCHANGED <<os, kernel, sock, device, mtuArg, fileOpen, route, eventsClosed, panicked,
                   reported, errors, lstnr, clos, stolen>>

\* Read returns what the listener failed with before it reads the file.
ReadError ==
    /\ device = "ready" /\ errors > 0
    /\ errors' = errors - 1
    /\ UNCHANGED <<os, kernel, sock, device, mtuArg, fileOpen, route, chan, lstnr, clos, stolen>>

-----------------------------------------------------------------------------
(* CreateTUN opens the interface, CreateTUNFromFile starts the listener.   *)

Opens ==
    /\ device' = "opened" /\ fileOpen' = TRUE
    /\ \E up \in BOOLEAN, m \in MTUs : link' = [exists |-> TRUE, up |-> up, mtu |-> m]

Fails(left) ==
    /\ Faults /\ device' = "failed" /\ fileOpen' = FALSE
    /\ link' = [link EXCEPT !.exists = left]

\* Failures after the name is known destroy the interface again; if the name
\* cannot be learnt, it is left behind.
CreateFreeBSD ==
    /\ os = "freebsd" /\ device = "none"
    /\ Opens \/ Fails(FALSE) \/ Fails(TRUE)
    /\ UNCHANGED <<os, changes, queue, missed, sock, mtuArg, route, chan, errors, lstnr, clos, stolen>>

\* The first of 256 units that is not busy, or the one that is named.
CreateOpenBSD ==
    /\ os = "openbsd" /\ device = "none"
    /\ Opens \/ Fails(FALSE)
    /\ UNCHANGED <<os, changes, queue, missed, sock, mtuArg, route, chan, errors, lstnr, clos, stolen>>

\* A control socket; connecting it makes the interface, closing it removes it.
CreateDarwin ==
    /\ os = "darwin" /\ device = "none"
    /\ Opens \/ Fails(FALSE)
    /\ UNCHANGED <<os, changes, queue, missed, sock, mtuArg, route, chan, errors, lstnr, clos, stolen>>

\* Name, InterfaceByName or the routing socket fails: the file is closed.
FromFileFails ==
    /\ device = "opened" /\ Fails(link.exists)
    /\ UNCHANGED <<os, changes, queue, missed, sock, mtuArg, route, chan, errors, lstnr, clos, stolen>>

StartListener(first) ==
    /\ device = "opened" /\ link.exists
    /\ device' = "started" /\ sock' = "open" /\ pc' = first
    /\ UNCHANGED <<os, kernel, mtuArg, fileOpen, route, chan, errors, fd, seen, status, clos, stolen>>

KeepMTU ==
    /\ device = "started" /\ device' = "ready"
    /\ UNCHANGED <<os, kernel, sock, mtuArg, fileOpen, route, chan, errors, lstnr, clos, stolen>>

\* The kernel tells of the new MTU; if setMTU fails, Close is called.
SetMTU ==
    /\ device = "started"
    /\ \/ /\ link.exists /\ device' = "ready"
          /\ link' = [link EXCEPT !.mtu = mtuArg] /\ Notify(Info(link'))
          /\ UNCHANGED clos
       \/ /\ (Faults \/ ~link.exists) /\ device' = "failed"
          /\ once' = "body"
          /\ UNCHANGED <<link, queue, missed, calls, waiting, step>>
    /\ UNCHANGED <<os, changes, sock, mtuArg, fileOpen, route, chan, errors, lstnr, stolen>>

FromFileFreeBSD == os = "freebsd" /\ (FromFileFails \/ StartListener("load") \/ SetMTU)

\* An MTU that is right already is not set again, so no message need come; the
\* listener looks at the interface before it reads the first one.  If MTU() fails,
\* as it does without an interface, the MTU is set.
FromFileOpenBSD ==
    /\ os = "openbsd"
    /\ \/ FromFileFails
       \/ StartListener("lookup")
       \/ link.exists /\ link.mtu = mtuArg /\ KeepMTU
       \/ (Faults \/ ~link.exists \/ link.mtu # mtuArg) /\ SetMTU

FromFileDarwin ==
    os = "darwin" /\ (FromFileFails \/ StartListener("load")
                      \/ (IF mtuArg = 0 THEN KeepMTU ELSE SetMTU))

Create == \/ CreateFreeBSD \/ CreateOpenBSD \/ CreateDarwin
          \/ FromFileFreeBSD \/ FromFileOpenBSD \/ FromFileDarwin

-----------------------------------------------------------------------------
(* routineRouteListener.                                                   *)

lsame == <<os, sock, device, mtuArg, fileOpen, route, clos>>

\* unix.Read(tun.routeSocket, data): the field is read, then the call is made.
LoadSocket ==
    /\ pc = "load" /\ pc' = "read" /\ fd' = route
    /\ UNCHANGED <<lsame, kernel, chan, errors, seen, status, stolen>>

\* Mutant of ReadMessage: the FreeBSD and OpenBSD listeners trust the message.
ReadMessageOnly(next) ==
    /\ pc = "read" /\ fd = "num" /\ sock = "open" /\ queue # <<>>
    /\ queue' = Tail(queue)
    /\ LET m == Head(queue) IN
         /\ pc' = IF m.own THEN "status" ELSE "load"
         /\ seen' = IF m.own THEN [up |-> m.up, mtu |-> m.mtu] ELSE seen
    /\ UNCHANGED <<lsame, link, changes, missed, chan, errors, fd, status, stolen>>

\* A message: a short one, one of another type or of another interface is skipped.
ReadMessage(next) ==
    /\ pc = "read" /\ fd = "num" /\ sock = "open" /\ queue # <<>>
    /\ queue' = Tail(queue)
    /\ LET m == Head(queue) IN
         /\ pc' = IF m.own THEN next ELSE "load"
         /\ seen' = IF m.own /\ next = "status" THEN [up |-> m.up, mtu |-> m.mtu] ELSE seen
    /\ UNCHANGED <<lsame, link, changes, missed, chan, errors, fd, status, stolen>>

\* After the shutdown a read returns no bytes, which is a short message.
ReadNothing ==
    /\ pc = "read" /\ fd = "num" /\ sock = "shutdown"
    /\ pc' = "load" /\ queue' = <<>>
    /\ UNCHANGED <<lsame, link, changes, missed, chan, errors, fd, seen, status, stolen>>

\* Mutant of ReadFails: every error is taken for an interrupted call.
ReadFailsRetry ==
    /\ pc = "read" /\ (fd = "none" \/ sock = "closed")
    /\ pc' = "load"
    /\ UNCHANGED <<lsame, kernel, chan, errors, fd, seen, status, stolen>>

\* Read fails: the descriptor is -1 or not open.
ReadFails ==
    /\ pc = "read" /\ (fd = "none" \/ sock = "closed")
    /\ pc' = "fail"
    /\ UNCHANGED <<lsame, kernel, chan, errors, fd, seen, status, stolen>>

\* The socket has an error.
ReadFault ==
    /\ Faults /\ pc = "read" /\ sock = "open"
    /\ pc' = "fail"
    /\ UNCHANGED <<lsame, kernel, chan, errors, fd, seen, status, stolen>>

\* The number belongs to another file by now: the read takes its data, which
\* is no message of the interface.  It lasts as long as that file has none.
ReadForeign ==
    /\ pc = "read" /\ fd = "num" /\ sock = "reused" /\ stolen < MaxStolen
    /\ pc' = "load"
    /\ stolen' = IF once = "done" THEN stolen + 1 ELSE stolen
    /\ UNCHANGED <<lsame, kernel, chan, errors, fd, seen, status>>

\* net.InterfaceByIndex, some time after the message was sent.
Lookup ==
    /\ pc = "lookup"
    /\ IF link.exists
         THEN seen' = [up |-> link.up, mtu |-> link.mtu] /\ pc' = "status"
         ELSE pc' = "fail" /\ UNCHANGED seen
    /\ UNCHANGED <<lsame, kernel, chan, errors, fd, status, stolen>>

ReportStatus ==
    /\ pc = "status" /\ pc' = "mtu"
    /\ IF seen.up # status.up THEN Send(IF seen.up THEN "up" ELSE "down") ELSE UNCHANGED chan
    /\ status' = [status EXCEPT !.up = seen.up]
    /\ UNCHANGED <<lsame, kernel, errors, fd, seen, stolen>>

ReportMTU ==
    /\ pc = "mtu" /\ pc' = "load"
    /\ IF seen.mtu # status.mtu THEN Send("mtu") ELSE UNCHANGED chan
    /\ status' = [status EXCEPT !.mtu = seen.mtu]
    /\ UNCHANGED <<lsame, kernel, errors, fd, seen, stolen>>

\* tun.errors <- err, and return.
ReportError ==
    /\ pc = "fail" /\ errors < ErrorCap
    /\ errors' = errors + 1 /\ pc' = "end"
    /\ UNCHANGED <<lsame, kernel, chan, fd, seen, status, stolen>>

\* defer close(tun.events)
ListenerEnds ==
    /\ pc = "end" /\ pc' = "done"
    /\ CloseEvents
    /\ UNCHANGED <<lsame, kernel, errors, fd, seen, status, stolen>>

Common == \/ LoadSocket \/ ReadNothing \/ ReadFails
          \/ ReportStatus \/ ReportMTU \/ ReportError \/ ListenerEnds

ListenFreeBSD == os = "freebsd" /\ (Common \/ ReadMessage("lookup") \/ Lookup)

ListenOpenBSD == os = "openbsd" /\ (Common \/ ReadMessage("lookup") \/ Lookup)

\* The flags and the MTU come with the message.
ListenDarwin == os = "darwin" /\ (Common \/ ReadMessage("status"))

Listen == ListenFreeBSD \/ ListenOpenBSD \/ ListenDarwin

-----------------------------------------------------------------------------
(* Close.                                                                  *)

\* Mutant of stepsFreeBSD: the field keeps the number of the closed socket.
stepsNoReset == <<"file", "destroy", "shutdown", "close">>

stepsFreeBSD == <<"file", "destroy", "shutdown", "close", "reset">>
stepsOpenBSD == <<"file", "shutdown", "close", "reset">>
stepsDarwin  == <<"file", "shutdown", "close">>

steps == CASE os = "freebsd" -> stepsFreeBSD [] os = "openbsd" -> stepsOpenBSD
           [] OTHER -> stepsDarwin

\* closeOnce.Do: the first caller runs the body, later ones wait for its end.
CloseBegin ==
    /\ device = "ready" /\ calls < MaxCalls /\ calls' = calls + 1
    /\ IF once = "free" THEN once' = "body" /\ UNCHANGED waiting
                        ELSE waiting' = waiting + 1 /\ UNCHANGED once
    /\ UNCHANGED <<os, kernel, sock, device, mtuArg, fileOpen, route, chan, errors, lstnr, step, stolen>>

CloseWait ==
    /\ waiting > 0 /\ once = "done" /\ waiting' = waiting - 1
    /\ UNCHANGED <<os, kernel, sock, device, mtuArg, fileOpen, route, chan, errors, lstnr,
                   calls, once, step, stolen>>

\* The body executes statement s and goes on to the next one, or ends.
At(s) ==
    /\ once = "body" /\ step \in DOMAIN steps /\ steps[step] = s
    /\ step' = step + 1
    /\ once' = IF step = Len(steps) THEN "done" ELSE "body"
    /\ UNCHANGED <<os, changes, device, mtuArg, errors, lstnr, calls, waiting, stolen>>

CloseFile ==
    /\ At("file") /\ fileOpen' = FALSE
    /\ UNCHANGED <<link, queue, missed, sock, route, chan>>

\* tunDestroy; a failure is returned and nothing else.
CloseDestroy ==
    /\ At("destroy")
    /\ \/ link' = [link EXCEPT !.exists = FALSE, !.up = FALSE] /\ Notify(Info(link'))
       \/ (Faults \/ ~link.exists) /\ UNCHANGED <<link, queue, missed>>
    /\ UNCHANGED <<sock, route, fileOpen, chan>>

\* Mutant of CloseShutdown: the events channel is closed as well.
CloseShutdownEvents ==
    /\ At("shutdown") /\ sock' = "shutdown" /\ CloseEvents
    /\ UNCHANGED <<link, queue, missed, route, fileOpen>>

\* Without a routing socket there is no listener, and Close closes the channel.
CloseShutdown ==
    /\ At("shutdown")
    /\ IF route = "num" THEN sock' = "shutdown" /\ UNCHANGED chan
                        ELSE CloseEvents /\ UNCHANGED sock
    /\ UNCHANGED <<link, queue, missed, route, fileOpen>>

CloseSocket ==
    /\ At("close") /\ sock' = "closed"
    /\ UNCHANGED <<link, queue, missed, route, fileOpen, chan>>

CloseReset ==
    /\ At("reset") /\ route' = "none"
    /\ UNCHANGED <<link, queue, missed, sock, fileOpen, chan>>

Close == CloseWait \/ CloseFile \/ CloseDestroy \/ CloseShutdown \/ CloseSocket \/ CloseReset

-----------------------------------------------------------------------------
Next ==
    \/ Create \/ Listen \/ ReadFault \/ ReadForeign \/ Receive \/ ReadError
    \/ LinkChanges \/ OtherMessage \/ LinkVanishes \/ Reuse
    \/ CloseBegin \/ Close

Spec == Init /\ [][Next]_vars

\* Every goroutine that can go on does, and the user of the device receives
\* events.  The kernel's messages and failures, the data of a foreign file and the decision
\* to call Close are not fair.
LiveSpec ==
    /\ Spec
    /\ WF_vars(Create) /\ WF_vars(Listen) /\ WF_vars(Receive) /\ WF_vars(Close)

-----------------------------------------------------------------------------
Ended == {"end", "done"}

\* The values of the variables and the capacities of both channels.
TypeOK ==
    /\ os \in Systems
    /\ link \in [exists : BOOLEAN, up : BOOLEAN, mtu : MTUs \union {0}]
    /\ changes \in 0..MaxChanges /\ missed \in BOOLEAN
    /\ queue \in Seq(Message)
    /\ sock \in {"none", "open", "shutdown", "closed", "reused"}
    /\ device \in {"none", "opened", "started", "ready", "failed"}
    /\ mtuArg \in MTUs \union {0} /\ fileOpen \in BOOLEAN /\ route \in {"num", "none"}
    /\ events \in Seq({"up", "down", "mtu"}) /\ Len(events) <= EventCap
    /\ eventsClosed \in BOOLEAN /\ errors \in 0..ErrorCap
    /\ pc \in {"none", "load", "read", "lookup", "status", "mtu", "fail"} \union Ended
    /\ fd \in {"num", "none"} /\ seen \in Status /\ status \in Status
    /\ calls \in 0..MaxCalls /\ waiting \in 0..calls
    /\ once \in {"free", "body", "done"} /\ step \in Nat \ {0}
    /\ panicked \in BOOLEAN /\ reported \in {"up", "down"}
    /\ stolen \in Nat

\* The listener sends and closes the events channel and nobody else does: no
\* Close, however it overlaps with another one, with the listener or with a
\* failing creation, closes the channel under a send or a second time (the
\* deferred close and the else branch of Close).
NoPanic == ~panicked

\* A listener that Close finds between two reads holds, or loads, the number of
\* a descriptor that may belong to another file by then.  On FreeBSD and OpenBSD
\* the field is reset, so that after Close it reads such a file once at most; the
\* macOS device leaves the number in place (tun_darwin.go:252) and is not covered.
ForeignReadOnce == os # "darwin" => stolen <= 1

(* The inductive invariant behind the two.                                 *)

\* The events channel is closed by the listener's last step, and the field is
\* reset by the last statement of Close.
ListenerOwnsEvents == eventsClosed = (pc = "done") /\ (route = "none" => once = "done")

\* The listener starts once, and nobody has the device to close it before it is ready.
CreatedOnce ==
    /\ device \in {"none", "opened"} => pc = "none"
    /\ device \in {"none", "opened", "started"} => once = "free"

\* Once Close has ended, a read of the old number is one that was begun, or done, before.
OldNumberOnce ==
    /\ once # "done" => stolen = 0
    /\ once = "done" /\ os # "darwin" =>
         /\ route = "none" /\ stolen <= 1
         /\ pc = "read" /\ fd = "num" => stolen = 0

IInv == TypeOK /\ NoPanic /\ ListenerOwnsEvents /\ CreatedOnce /\ OldNumberOnce

\* After Close has run its body the listener ends and closes the events
\* channel, whatever it was doing, unless it waits in a read of a descriptor
\* that meanwhile belongs to another file.
CloseClosesEvents ==
    once = "done" ~> (pc = "done" /\ eventsClosed) \/ (pc = "read" /\ sock = "reused")

\* On an open device whose listener runs and whose interface comes to rest, the
\* last status sent and the MTU last told of are those of the interface in the end.
\* What was the case before the socket was opened becomes known by the message
\* setMTU causes, or by the first look at the interface on OpenBSD.
\* Not covered: messages that were dropped with nothing left in the buffer to
\* make up for them, and macOS with no MTU to set.
Converges ==
    <>[](/\ device = "ready" /\ once = "free" /\ link.exists /\ ~missed
         /\ pc \notin {"fail"} \union Ended /\ (os = "darwin" => mtuArg # 0))
      => <>[](reported = (IF link.up THEN "up" ELSE "down") /\ status.mtu = link.mtu)

=============================================================================
