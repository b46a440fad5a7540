--------------------------- MODULE RouteTun_proofs ---------------------------
(***************************************************************************)
(* Proofs about the route-socket devices of FreeBSD, OpenBSD and macOS,    *)
(* for all capacities, any number of messages, of calls of Close and of    *)
(* reads of foreign descriptors, with failing system calls.                *)
(***************************************************************************)
EXTENDS RouteTun, TLAPS

Links == [exists : BOOLEAN, up : BOOLEAN, mtu : MTUs \union {0}]

\* A notification leaves a queue of messages.
LEMMA NotifyType ==
    ASSUME TypeOK, NEW m \in Message, Notify(m)
    PROVE  queue' \in Seq(Message) /\ missed' \in BOOLEAN
<1>1. Append(queue, m) \in Seq(Message) BY DEF TypeOK
<1>2. queue' \in {queue, Append(queue, m)} BY DEF Notify
<1>3. missed' \in BOOLEAN BY DEF Notify, TypeOK
<1> QED BY <1>1, <1>2, <1>3 DEF TypeOK

\* What the kernel tells of an interface is a message.
LEMMA InfoType == ASSUME NEW l \in Links PROVE Info(l) \in Message
BY DEF Links, Info, Message

\* A send keeps the channel within its capacity and panics if it is closed.
LEMMA SendType ==
    ASSUME TypeOK, NEW e \in {"up", "down", "mtu"}, Send(e)
    PROVE  /\ events' \in Seq({"up", "down", "mtu"}) /\ Len(events') <= EventCap
           /\ eventsClosed' = eventsClosed /\ reported' \in {"up", "down"}
           /\ panicked' \in BOOLEAN /\ panicked' = (panicked \/ eventsClosed)
<1>1. CASE eventsClosed BY <1>1 DEF TypeOK, Send
<1>2. CASE ~eventsClosed
  <2>1. Len(Append(events, e)) = Len(events) + 1 BY DEF TypeOK
  <2>2. Append(events, e) \in Seq({"up", "down", "mtu"}) BY DEF TypeOK
  <2>3. events' = Append(events, e) /\ Len(events) < EventCap /\ eventsClosed' = eventsClosed
        /\ panicked' = panicked /\ reported' \in {"up", "down"}
    BY <1>2 DEF TypeOK, Send
  <2>4. Len(events') <= EventCap BY <2>1, <2>3, RouteTunAssumption DEF TypeOK
  <2> QED BY <1>2, <2>2, <2>3, <2>4 DEF TypeOK
<1> QED BY <1>1, <1>2

\* The steps of CreateTUN and CreateTUNFromFile preserve the types.
LEMMA CreateType == ASSUME TypeOK, Create PROVE TypeOK'
<1> USE RouteTunAssumption
<1> USE DEF kernel, chan, lstnr, clos
<1>1. ASSUME CreateFreeBSD \/ CreateOpenBSD \/ CreateDarwin \/ FromFileFails PROVE TypeOK'
  <2>1. link' \in Links /\ device' \in {"opened", "failed"} /\ fileOpen' \in BOOLEAN
    <3>1. ASSUME Opens PROVE link' \in Links /\ device' = "opened" /\ fileOpen' = TRUE
      BY <3>1 DEF Opens, Links
    <3>2. ASSUME NEW left \in BOOLEAN, Fails(left)
          PROVE  link' \in Links /\ device' = "failed" /\ fileOpen' = FALSE
      BY <3>2 DEF Fails, TypeOK, Links
    <3>3. link.exists \in BOOLEAN BY DEF TypeOK
    <3>4. Opens \/ \E left \in BOOLEAN : Fails(left)
      BY <1>1, <3>3 DEF CreateFreeBSD, CreateOpenBSD, CreateDarwin, FromFileFails
    <3> QED BY <3>1, <3>2, <3>4
  <2>2. UNCHANGED <<os, changes, queue, missed, sock, mtuArg, route, chan, errors, lstnr, clos, stolen>>
    BY <1>1 DEF CreateFreeBSD, CreateOpenBSD, CreateDarwin, FromFileFails
  <2> QED BY <2>1, <2>2 DEF TypeOK, Links, ErrorCap
<1>2. ASSUME StartListener("load") \/ StartListener("lookup") PROVE TypeOK'
  BY SMTT(30), <1>2 DEF StartListener, TypeOK, ErrorCap
<1>3. ASSUME KeepMTU PROVE TypeOK' BY <1>3 DEF KeepMTU, TypeOK, ErrorCap
<1>4. ASSUME SetMTU PROVE TypeOK'
  <2>1. link' \in Links BY <1>4 DEF SetMTU, TypeOK, Links
  <2>2. queue' \in Seq(Message) /\ missed' \in BOOLEAN
    BY <1>4, <2>1, NotifyType, InfoType DEF SetMTU, TypeOK
  <2>3. device' \in {"ready", "failed"} /\ once' \in {"free", "body", "done"}
    BY <1>4 DEF SetMTU, TypeOK
  <2>4. UNCHANGED <<os, changes, sock, mtuArg, fileOpen, route, chan, errors, lstnr, stolen,
                    calls, waiting, step>>
    BY <1>4 DEF SetMTU
  <2> QED BY <2>1, <2>2, <2>3, <2>4 DEF TypeOK, Links, ErrorCap
<1> QED BY <1>1, <1>2, <1>3, <1>4 DEF Create, FromFileFreeBSD, FromFileOpenBSD, FromFileDarwin

\* The steps of the listener preserve the types.
LEMMA ListenType == ASSUME TypeOK, Listen \/ ReadFault \/ ReadForeign PROVE TypeOK'
<1> USE RouteTunAssumption
<1> USE DEF kernel, chan, lstnr, clos, lsame, Ended, ErrorCap
<1>1. ASSUME LoadSocket \/ ReadFails \/ ReadFault PROVE TypeOK'
  <2>1. pc' \in {"read", "fail"} /\ fd' \in {"num", "none"}
    BY <1>1 DEF LoadSocket, ReadFails, ReadFault, TypeOK
  <2>2. UNCHANGED <<lsame, kernel, chan, errors, seen, status, stolen>>
    BY <1>1 DEF LoadSocket, ReadFails, ReadFault
  <2> QED BY <2>1, <2>2 DEF TypeOK
<1>2. ASSUME NEW n \in {"lookup", "status"}, ReadMessage(n) PROVE TypeOK'
  <2>1. Head(queue) \in Message /\ Tail(queue) \in Seq(Message)
    BY <1>2 DEF ReadMessage, TypeOK
  <2>2. queue' \in Seq(Message) BY <1>2, <2>1 DEF ReadMessage
  <2>3. seen' \in Status /\ pc' \in {"load", "lookup", "status"}
    BY <1>2, <2>1 DEF ReadMessage, TypeOK, Message, Status
  <2>4. UNCHANGED <<lsame, link, changes, missed, chan, errors, fd, status, stolen>>
    BY <1>2 DEF ReadMessage
  <2> QED BY <2>2, <2>3, <2>4 DEF TypeOK
<1>3. ASSUME ReadNothing PROVE TypeOK'
  <2>1. queue' \in Seq(Message) /\ pc' = "load" BY <1>3 DEF ReadNothing
  <2>2. UNCHANGED <<lsame, link, changes, missed, chan, errors, fd, seen, status, stolen>>
    BY <1>3 DEF ReadNothing
  <2> QED BY <2>1, <2>2 DEF TypeOK
<1>4. ASSUME ReadForeign PROVE TypeOK'
  <2>1. stolen' \in Nat /\ pc' = "load" BY <1>4 DEF ReadForeign, TypeOK
  <2>2. UNCHANGED <<lsame, kernel, chan, errors, fd, seen, status>> BY <1>4 DEF ReadForeign
  <2> QED BY <2>1, <2>2 DEF TypeOK
<1>5. ASSUME Lookup PROVE TypeOK'
  <2>1. seen' \in Status /\ pc' \in {"status", "fail"} BY <1>5 DEF Lookup, TypeOK, Status
  <2>2. UNCHANGED <<lsame, kernel, chan, errors, fd, status, stolen>> BY <1>5 DEF Lookup
  <2> QED BY <2>1, <2>2 DEF TypeOK
<1>6. ASSUME ReportStatus \/ ReportMTU PROVE TypeOK'
  <2>1. status' \in Status /\ pc' \in {"mtu", "load"}
    BY <1>6 DEF ReportStatus, ReportMTU, TypeOK, Status
  <2>2. UNCHANGED chan \/ \E e \in {"up", "down", "mtu"} : Send(e)
    BY <1>6 DEF ReportStatus, ReportMTU
  <2>3. UNCHANGED <<lsame, kernel, errors, fd, seen, stolen>>
    BY <1>6 DEF ReportStatus, ReportMTU
  <2>4. /\ events' \in Seq({"up", "down", "mtu"}) /\ Len(events') <= EventCap
        /\ eventsClosed' \in BOOLEAN /\ reported' \in {"up", "down"} /\ panicked' \in BOOLEAN
    <3>1. CASE UNCHANGED chan BY <3>1 DEF TypeOK
    <3>2. CASE \E e \in {"up", "down", "mtu"} : Send(e)
      <4>1. eventsClosed' = eventsClosed BY <3>2, SendType
      <4>2. eventsClosed' \in BOOLEAN BY <4>1 DEF TypeOK
      <4> QED BY <3>2, <4>2, SendType
    <3> QED BY <2>2, <3>1, <3>2
  <2> QED BY <2>1, <2>3, <2>4 DEF TypeOK
<1>7. ASSUME ReportError PROVE TypeOK' BY <1>7 DEF ReportError, TypeOK
<1>8. ASSUME ListenerEnds PROVE TypeOK'
  <2>1. eventsClosed' \in BOOLEAN /\ panicked' \in BOOLEAN /\ pc' = "done"
    BY <1>8 DEF ListenerEnds, CloseEvents, TypeOK
  <2>2. UNCHANGED <<lsame, kernel, errors, fd, seen, status, stolen, events, reported>>
    BY <1>8 DEF ListenerEnds, CloseEvents
  <2> QED BY <2>1, <2>2 DEF TypeOK
<1> QED BY <1>1, <1>2, <1>3, <1>4, <1>5, <1>6, <1>7, <1>8
        DEF Listen, ListenFreeBSD, ListenOpenBSD, ListenDarwin, Common

\* The steps of Close preserve the types.
LEMMA CloseType == ASSUME TypeOK, CloseBegin \/ Close PROVE TypeOK'
<1> USE RouteTunAssumption
<1> USE DEF kernel, chan, lstnr, clos, ErrorCap
<1>1. ASSUME CloseBegin PROVE TypeOK'
  <2>1. waiting' \in 0..calls' BY <1>1 DEF CloseBegin, TypeOK
  <2> QED BY <1>1, <2>1 DEF CloseBegin, TypeOK
<1>2. ASSUME CloseWait PROVE TypeOK'
  <2>1. waiting' \in 0..calls BY <1>2 DEF CloseWait, TypeOK
  <2>2. UNCHANGED <<os, kernel, sock, device, mtuArg, fileOpen, route, chan, errors, lstnr,
                    calls, once, step, stolen>>
    BY <1>2 DEF CloseWait
  <2> QED BY <2>1, <2>2 DEF TypeOK
<1>3. ASSUME NEW s, At(s),
             link' \in Links, queue' \in Seq(Message), missed' \in BOOLEAN,
             sock' \in {sock, "shutdown", "closed"}, route' \in {route, "none"},
             fileOpen' \in {fileOpen, FALSE},
             eventsClosed' \in BOOLEAN, panicked' \in BOOLEAN, UNCHANGED <<events, reported>>
      PROVE  TypeOK'
  <2>1. step' \in Nat \ {0} /\ once' \in {"free", "body", "done"} BY <1>3 DEF At, TypeOK
  <2>2. UNCHANGED <<os, changes, device, mtuArg, errors, lstnr, calls, waiting, stolen>>
    BY <1>3 DEF At
  <2>3. fileOpen' \in BOOLEAN BY <1>3 DEF TypeOK
  <2>4. sock' \in {"none", "open", "shutdown", "closed", "reused"} /\ route' \in {"num", "none"}
    BY <1>3 DEF TypeOK
  <2> QED BY <1>3, <2>1, <2>2, <2>3, <2>4 DEF TypeOK, Links
<1>4. link \in Links /\ queue \in Seq(Message) /\ missed \in BOOLEAN
      /\ eventsClosed \in BOOLEAN /\ panicked \in BOOLEAN
  BY DEF TypeOK, Links
<1>5. ASSUME CloseFile PROVE TypeOK'
  <2>1. At("file") /\ fileOpen' = FALSE /\ UNCHANGED <<link, queue, missed, sock, route, chan>>
    BY <1>5 DEF CloseFile
  <2>2. fileOpen' \in {fileOpen, FALSE} BY <2>1
  <2>3. eventsClosed' \in BOOLEAN /\ panicked' \in BOOLEAN /\ missed' \in BOOLEAN BY <1>4, <2>1
  <2> QED BY <1>3, <1>4, <2>1, <2>2, <2>3
<1>6. ASSUME CloseDestroy PROVE TypeOK'
  <2>1. link' \in Links BY <1>4, <1>6 DEF CloseDestroy, Links
  <2>2. queue' \in Seq(Message) /\ missed' \in BOOLEAN
    BY <1>4, <1>6, <2>1, NotifyType, InfoType DEF CloseDestroy
  <2> QED BY <1>3, <1>4, <1>6, <2>1, <2>2 DEF CloseDestroy
<1>7. ASSUME CloseShutdown PROVE TypeOK'
  <2>1. eventsClosed' \in BOOLEAN /\ panicked' \in BOOLEAN
    BY <1>4, <1>7 DEF CloseShutdown, CloseEvents
  <2>2. /\ UNCHANGED <<events, reported, link, queue, missed, route, fileOpen>>
        /\ sock' \in {sock, "shutdown", "closed"} /\ At("shutdown")
    BY <1>7 DEF CloseShutdown, CloseEvents
  <2> QED BY <1>3, <1>4, <2>1, <2>2
<1>8. ASSUME CloseSocket \/ CloseReset PROVE TypeOK'
  BY <1>3, <1>4, <1>8 DEF CloseSocket, CloseReset
<1> QED BY <1>1, <1>2, <1>5, <1>6, <1>7, <1>8 DEF Close

\* Every step preserves the types.
LEMMA TypeStep == ASSUME TypeOK, [Next]_vars PROVE TypeOK'
<1> USE RouteTunAssumption
<1> USE DEF kernel, chan, lstnr, clos, ErrorCap
<1>1. CASE UNCHANGED vars BY <1>1 DEF vars, TypeOK
<1>2. CASE Create BY <1>2, CreateType
<1>3. CASE Listen \/ ReadFault \/ ReadForeign BY <1>3, ListenType
<1>4. CASE CloseBegin \/ Close BY <1>4, CloseType
<1>5. CASE Receive
  <2>1. events' \in Seq({"up", "down", "mtu"}) BY <1>5 DEF TypeOK, Receive
  <2>2. Len(events') = Len(events) - 1 /\ Len(events) \in Nat BY <1>5 DEF TypeOK, Receive
  <2>3. Len(events') <= EventCap BY <2>2 DEF TypeOK
  <2> QED BY <1>5, <2>1, <2>3 DEF TypeOK, Receive
<1>6. CASE ReadError BY <1>6 DEF TypeOK, ReadError
<1>7. CASE LinkChanges \/ OtherMessage \/ LinkVanishes
  <2>1. link' \in Links /\ changes' \in 0..MaxChanges
    <3>1. CASE LinkChanges
      <4>1. (\E up \in BOOLEAN : link' = [link EXCEPT !.up = up])
            \/ \E m \in MTUs : link' = [link EXCEPT !.mtu = m]
        BY <3>1 DEF LinkChanges
      <4>2. link' \in Links BY <4>1 DEF TypeOK, Links
      <4>3. changes < MaxChanges /\ changes' = changes + 1 BY <3>1 DEF LinkChanges
      <4>4. changes \in 0..MaxChanges BY DEF TypeOK
      <4>5. changes' \in 0..MaxChanges
        BY <4>3, <4>4
      <4> QED BY <4>2, <4>5
    <3>2. CASE OtherMessage BY <3>2 DEF OtherMessage, TypeOK, Links
    <3>3. CASE LinkVanishes BY <3>3 DEF LinkVanishes, TypeOK, Links
    <3> QED BY <1>7, <3>1, <3>2, <3>3
  <2>2. queue' \in Seq(Message) /\ missed' \in BOOLEAN
    <3>1. Other \in Message BY DEF Other, Message
    <3> QED BY <1>7, <2>1, <3>1, NotifyType, InfoType DEF LinkChanges, OtherMessage, LinkVanishes
  <2>3. UNCHANGED <<os, sock, device, mtuArg, fileOpen, route, chan, errors, lstnr, clos, stolen>>
    BY <1>7 DEF LinkChanges, OtherMessage, LinkVanishes
  <2> QED BY <2>1, <2>2, <2>3 DEF TypeOK, Links
<1>8. CASE Reuse BY <1>8 DEF TypeOK, Reuse
<1> QED BY <1>1, <1>2, <1>3, <1>4, <1>5, <1>6, <1>7, <1>8 DEF Next

\* The field is reset by the last statement of Close, except on macOS.
LEMMA LastIsReset ==
    ASSUME TypeOK
    PROVE  /\ os # "darwin" => steps[Len(steps)] = "reset"
           /\ \A i \in DOMAIN steps : steps[i] = "reset" => i = Len(steps)
<1>1. CASE os = "freebsd"
  <2>1. steps = <<"file", "destroy", "shutdown", "close", "reset">> BY <1>1 DEF steps, stepsFreeBSD
  <2> QED BY <2>1
<1>2. CASE os = "openbsd"
  <2>1. steps = <<"file", "shutdown", "close", "reset">> BY <1>2 DEF steps, stepsOpenBSD
  <2> QED BY <2>1
<1>3. CASE os \notin {"freebsd", "openbsd"}
  <2>1. steps = <<"file", "shutdown", "close">> BY <1>3 DEF steps, stepsDarwin
  <2>2. os = "darwin" BY <1>3, RouteTunAssumption DEF TypeOK
  <2> QED BY <2>1, <2>2
<1> QED BY <1>1, <1>2, <1>3

\* Every step preserves the invariant: the listener alone touches the events
\* channel, and the number of the socket is forgotten with the last statement
\* of Close.
LEMMA IndStep == ASSUME IInv, [Next]_vars PROVE IInv'
<1> USE DEF kernel, chan, lstnr, clos
<1>0. TypeOK' BY TypeStep DEF IInv
<1>1. CASE UNCHANGED vars
  BY <1>0, <1>1 DEF vars, IInv, TypeOK, NoPanic, ListenerOwnsEvents, CreatedOnce, OldNumberOnce
<1>2. CASE Create
  <2>1. /\ UNCHANGED <<os, chan, route, stolen, fd>>
        /\ device' # "none" /\ (device' = "opened" => device = "none" /\ UNCHANGED <<pc, once>>)
        /\ \/ device \in {"none", "opened"} /\ once' = once /\ (pc' = pc \/ pc' \in {"load", "lookup"})
           \/ device = "started" /\ device' = "ready" /\ UNCHANGED <<pc, once>>
           \/ device = "started" /\ device' = "failed" /\ UNCHANGED pc /\ once' = "body"
    BY <1>2 DEF Create, CreateFreeBSD, CreateOpenBSD, CreateDarwin, FromFileFreeBSD, FromFileOpenBSD,
                FromFileDarwin, FromFileFails, StartListener, KeepMTU, SetMTU, Opens, Fails
  <2> QED BY <1>0, <2>1 DEF IInv, NoPanic, ListenerOwnsEvents, CreatedOnce, OldNumberOnce
<1>3. CASE Listen \/ ReadFault \/ ReadForeign
  <2>0. pc # "none" /\ UNCHANGED <<os, device, route, once>>
    BY <1>3 DEF Listen, ListenFreeBSD, ListenOpenBSD, ListenDarwin, Common, LoadSocket, ReadMessage,
                ReadNothing, ReadFails, ReadFault, ReadForeign, Lookup, ReportStatus, ReportMTU,
                ReportError, ListenerEnds, lsame
  <2>1. CASE pc' = "read"
    <3>1. UNCHANGED <<chan, stolen>> /\ fd' = route /\ pc # "done"
      BY <1>3, <2>1 DEF Listen, ListenFreeBSD, ListenOpenBSD, ListenDarwin, Common, LoadSocket,
                 ReadMessage, ReadNothing, ReadFails, ReadFault, ReadForeign, Lookup, ReportStatus,
                 ReportMTU, ReportError, ListenerEnds
    <3> QED BY <1>0, <2>0, <2>1, <3>1 DEF IInv, NoPanic, ListenerOwnsEvents, CreatedOnce, OldNumberOnce
  <2>2. CASE ReadForeign
    <3>1. /\ UNCHANGED chan /\ pc = "read" /\ fd = "num" /\ pc' = "load"
          /\ stolen' = IF once = "done" THEN stolen + 1 ELSE stolen
      BY <2>2 DEF ReadForeign
    <3> QED BY <1>0, <2>0, <3>1 DEF IInv, TypeOK, NoPanic, ListenerOwnsEvents, CreatedOnce, OldNumberOnce
  <2>3. CASE ReportStatus \/ ReportMTU
    <3>1. pc \in {"status", "mtu"} /\ pc' \in {"mtu", "load"} /\ UNCHANGED stolen
      BY <2>3 DEF ReportStatus, ReportMTU
    <3>2. UNCHANGED chan \/ \E e \in {"up", "down", "mtu"} : Send(e)
      BY <2>3 DEF ReportStatus, ReportMTU
    <3>0. eventsClosed = FALSE /\ panicked = FALSE
      BY <3>1 DEF IInv, TypeOK, NoPanic, ListenerOwnsEvents
    <3>3. panicked' = FALSE /\ eventsClosed' = FALSE
      <4>1. CASE UNCHANGED chan BY <3>0, <4>1
      <4>2. ASSUME NEW e \in {"up", "down", "mtu"}, Send(e)
            PROVE  panicked' = FALSE /\ eventsClosed' = FALSE
        BY <3>0, <4>2 DEF Send
      <4> QED BY <3>2, <4>1, <4>2
    <3> QED BY <1>0, <2>0, <3>1, <3>3 DEF IInv, NoPanic, ListenerOwnsEvents, CreatedOnce, OldNumberOnce
  <2>4. CASE ListenerEnds
    <3>0. eventsClosed = FALSE /\ panicked = FALSE
      BY <2>4 DEF ListenerEnds, IInv, TypeOK, NoPanic, ListenerOwnsEvents
    <3>1. panicked' = FALSE /\ eventsClosed' = TRUE /\ pc' = "done" /\ UNCHANGED stolen
      BY <2>4, <3>0 DEF ListenerEnds, CloseEvents
    <3> QED BY <1>0, <2>0, <3>1 DEF IInv, TypeOK, NoPanic, ListenerOwnsEvents, CreatedOnce, OldNumberOnce
  <2>5. CASE (\E n \in {"lookup", "status"} : ReadMessage(n)) \/ ReadNothing \/ ReadFails
             \/ ReadFault \/ Lookup \/ ReportError
    <3>1. UNCHANGED <<chan, stolen>> /\ pc # "done" /\ pc' \notin {"read", "done"}
      BY <2>5 DEF ReadMessage, ReadNothing, ReadFails, ReadFault, Lookup, ReportError
    <3> QED BY <1>0, <2>0, <3>1 DEF IInv, NoPanic, ListenerOwnsEvents, CreatedOnce, OldNumberOnce
  <2>6. LoadSocket => pc' = "read" BY DEF LoadSocket
  <2> QED BY <1>3, <2>1, <2>2, <2>3, <2>4, <2>5, <2>6
          DEF Listen, ListenFreeBSD, ListenOpenBSD, ListenDarwin, Common
<1>4. CASE CloseBegin \/ CloseWait
  <2>1. /\ UNCHANGED <<os, device, route, chan, pc, fd, stolen>>
        /\ UNCHANGED once \/ (device = "ready" /\ once = "free" /\ once' = "body")
    BY <1>4 DEF CloseBegin, CloseWait
  <2> QED BY <1>0, <2>1 DEF IInv, NoPanic, ListenerOwnsEvents, CreatedOnce, OldNumberOnce
<1>5. CASE CloseFile \/ CloseDestroy \/ CloseShutdown \/ CloseSocket \/ CloseReset
  <2>0. /\ os # "darwin" => steps[Len(steps)] = "reset"
        /\ \A i \in DOMAIN steps : steps[i] = "reset" => i = Len(steps)
    BY LastIsReset DEF IInv
  <2>1. /\ UNCHANGED <<os, device, pc, fd, stolen>> /\ once = "body" /\ once' \in {"body", "done"}
    BY <1>5 DEF CloseFile, CloseDestroy, CloseShutdown, CloseSocket, CloseReset, At
  <2>2. UNCHANGED chan
    BY <1>5, <2>1 DEF CloseFile, CloseDestroy, CloseShutdown, CloseSocket, CloseReset, IInv,
                      ListenerOwnsEvents, TypeOK
  <2>3. stolen = 0 BY <2>1 DEF IInv, OldNumberOnce
  <2>4. CASE CloseReset
    <3>1. route' = "none" /\ step \in DOMAIN steps /\ steps[step] = "reset" /\ once' = IF step = Len(steps) THEN "done" ELSE "body"
      BY <2>4 DEF CloseReset, At
    <3>2. step = Len(steps) BY <2>0, <2>4, <3>1
    <3> QED BY <1>0, <2>1, <2>2, <2>3, <3>1, <3>2
            DEF IInv, NoPanic, ListenerOwnsEvents, CreatedOnce, OldNumberOnce
  <2>5. CASE ~CloseReset
    <3>1. UNCHANGED route /\ steps[step] # "reset"
          /\ once' = IF step = Len(steps) THEN "done" ELSE "body"
      BY <1>5, <2>5 DEF CloseFile, CloseDestroy, CloseShutdown, CloseSocket, At
    <3>2. os # "darwin" => once' = "body"
      BY <2>0, <3>1
    <3> QED BY <1>0, <2>1, <2>2, <2>3, <3>1, <3>2
            DEF IInv, NoPanic, ListenerOwnsEvents, CreatedOnce, OldNumberOnce
  <2> QED BY <2>4, <2>5
<1>6. CASE Receive \/ ReadError \/ LinkChanges \/ OtherMessage \/ LinkVanishes \/ Reuse
  <2>1. UNCHANGED <<os, device, route, eventsClosed, panicked, pc, fd, once, stolen>>
    BY <1>6 DEF Receive, ReadError, LinkChanges, OtherMessage, LinkVanishes, Reuse
  <2> QED BY <1>0, <2>1 DEF IInv, NoPanic, ListenerOwnsEvents, CreatedOnce, OldNumberOnce
<1> QED BY <1>1, <1>2, <1>3, <1>4, <1>5, <1>6 DEF Next, Close

\* The invariant holds in every reachable state.
LEMMA Invariance == Spec => []IInv
<1>1. Init => IInv
  <2> SUFFICES ASSUME Init PROVE IInv OBVIOUS
  <2>1. TypeOK
    <3>1. queue \in Seq(Message) /\ events \in Seq({"up", "down", "mtu"}) /\ Len(events) = 0
      BY DEF Init
    <3>2. mtuArg \in MTUs \union {0} BY RouteTunAssumption DEF Init
    <3>3. seen \in Status /\ status \in Status BY DEF Init, Status
    <3>4. link \in [exists : BOOLEAN, up : BOOLEAN, mtu : MTUs \union {0}] BY DEF Init
    <3>5. errors \in 0..ErrorCap BY DEF Init, ErrorCap
    <3>6. Len(events) <= EventCap /\ changes \in 0..MaxChanges /\ calls \in 0..MaxCalls
          /\ waiting \in 0..calls
      BY <3>1, RouteTunAssumption DEF Init
    <3>7. /\ os \in Systems /\ missed \in BOOLEAN /\ fileOpen \in BOOLEAN
          /\ eventsClosed \in BOOLEAN /\ panicked \in BOOLEAN
      BY DEF Init
    <3>8. /\ sock = "none" /\ device = "none" /\ route = "num" /\ pc = "none" /\ fd = "none"
          /\ once = "free" /\ step = 1 /\ reported = "down" /\ stolen = 0
      BY DEF Init
    <3> QED BY <3>1, <3>2, <3>3, <3>4, <3>5, <3>6, <3>7, <3>8 DEF TypeOK
  <2> QED BY <2>1 DEF Init, IInv, NoPanic, ListenerOwnsEvents, CreatedOnce, OldNumberOnce
<1> QED BY <1>1, IndStep, PTL DEF Spec

\* The state of the devices keeps its type, and neither channel ever holds more
\* than its capacity.
THEOREM TypeCorrect == Spec => []TypeOK
BY Invariance, PTL DEF IInv

\* No interleaving of the listener, of calls of Close and of a failing creation
\* sends on, or closes again, the closed events channel.
THEOREM PanicFree == Spec => []NoPanic
BY Invariance, PTL DEF IInv

\* After Close the listeners of FreeBSD and OpenBSD read a descriptor that is not
\* theirs any more once at most, for any number of foreign files and messages.
THEOREM ForeignBounded == Spec => []ForeignReadOnce
<1>1. IInv => ForeignReadOnce BY DEF IInv, TypeOK, OldNumberOnce, ForeignReadOnce
<1> QED BY <1>1, Invariance, PTL
=============================================================================
