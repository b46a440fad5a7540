------------------------ MODULE TunListeners_proofs ------------------------
(***************************************************************************)
(* Proofs about the TUN device's listeners, for every capacity of the      *)
(* channels, every number of link changes and every set of goroutines that *)
(* call Close, failures of the netlink socket and of setMTU included.      *)
(***************************************************************************)
EXTENDS TunListeners, TLAPS

\* Appending a message to the last datagram that waits, or a datagram to the
\* queue, gives a queue of datagrams.
LEMMA NotifyType ==
    ASSUME NEW m \in {"up", "down", "other", "end"},
           queue \in Seq(Seq({"up", "down", "other", "end"})), Notify(m)
    PROVE  queue' \in Seq(Seq({"up", "down", "other", "end"}))
<1> DEFINE M == {"up", "down", "other", "end"}
<1>1. CASE queue' = Append(queue, <<m>>)
  <2>1. <<m>> \in Seq(M) OBVIOUS
  <2> HIDE DEF M
  <2> QED BY <1>1, <2>1 DEF M
<1>2. CASE queue # <<>> /\ queue' = [queue EXCEPT ![Len(queue)] = Append(@, m)]
  <2> SUFFICES ASSUME queue \in Seq(Seq(M)), m \in M PROVE queue' \in Seq(Seq(M))
    OBVIOUS
  <2> HIDE DEF M
  <2>1. Len(queue) \in 1..Len(queue) BY <1>2
  <2>2. Append(queue[Len(queue)], m) \in Seq(M) BY <2>1
  <2> QED BY <1>2, <2>1, <2>2
<1> QED BY <1>1, <1>2 DEF Notify

\* A send keeps the channel within its capacity.
LEMMA SendType ==
    ASSUME TypeOK, NEW e \in {"up", "down", "mtu"}, Send(e)
    PROVE  /\ events' \in Seq({"up", "down", "mtu"}) /\ Len(events') <= EventCap
           /\ eventsClosed' = eventsClosed
           /\ panicked' \in BOOLEAN /\ reported' \in {"none", "up", "down"}
           /\ panicked' = (panicked \/ eventsClosed)
<1>1. CASE eventsClosed BY <1>1 DEF TypeOK, Send
<1>2. CASE ~eventsClosed
  <2>1. Len(Append(events, e)) = Len(events) + 1 BY DEF TypeOK
  <2>2. Append(events, e) \in Seq({"up", "down", "mtu"}) BY DEF TypeOK
  <2>3. events' = Append(events, e) /\ Len(events) < EventCap /\ eventsClosed' = eventsClosed
        /\ panicked' = panicked /\ reported' \in {"none", "up", "down"}
    BY <1>2 DEF TypeOK, Send
  <2>4. Len(events') <= EventCap BY <2>1, <2>3, TunAssumption DEF TypeOK
  <2> QED BY <1>2, <2>2, <2>3, <2>4 DEF TypeOK
<1> QED BY <1>1, <1>2

\* Every step preserves the types.
LEMMA TypeStep == ASSUME TypeOK, [Next]_vars PROVE TypeOK'
<1> USE TunAssumption
<1> USE DEF kernel, chan, hackv, nlv, closev, Ended
<1>1. CASE UNCHANGED vars BY <1>1 DEF vars, TypeOK
<1>2. CASE Create
  <2>1. CASE CreateFailsEarly BY <2>1 DEF TypeOK, CreateFailsEarly
  <2>2. CASE StartListeners BY <2>2 DEF TypeOK, StartListeners
  <2>3. CASE SetMTU BY <2>3 DEF TypeOK, SetMTU
  <2> QED BY <1>2, <2>1, <2>2, <2>3 DEF Create
<1>3. CASE HackProbe \/ HackProbeFails \/ HackWake
  BY <1>3 DEF TypeOK, HackProbe, HackProbeFails, HackWake
<1>4. CASE HackSend
  <2>1. \E e \in {"up", "down", "mtu"} : Send(e) BY <1>4 DEF HackSend
  <2> QED BY <1>4, <2>1, SendType DEF TypeOK, HackSend
<1>5. CASE NetlinkRecv \/ NetlinkCancelled \/ NetlinkFails \/ NetlinkOverruns
  <2>1. CASE NetlinkRecv
    <3> DEFINE D == Seq({"up", "down", "other", "end"})
    <3>1. queue \in Seq(D) /\ queue # <<>> BY <2>1 DEF NetlinkRecv, TypeOK
    <3> HIDE DEF D
    <3>2. Head(queue) \in D /\ Tail(queue) \in Seq(D) BY <3>1
    <3>3. queue' \in Seq(D) BY <2>1, <3>2 DEF NetlinkRecv
    <3>4. msgs' \in D BY <2>1, <3>2 DEF NetlinkRecv, TypeOK, D
    <3>5. nl' \in {"closeSock", "msg"} /\ wasEverUp' \in BOOLEAN BY <2>1 DEF NetlinkRecv, TypeOK
    <3>6. UNCHANGED <<running, changes, stale, socket, device, cancelPipe, chan, errors, hackv,
                           everUp, closev>>
      BY <2>1 DEF NetlinkRecv
    <3> QED BY <3>3, <3>4, <3>5, <3>6 DEF TypeOK, D
  <2>2. CASE NetlinkCancelled BY <2>2 DEF TypeOK, NetlinkCancelled
  <2>3. CASE NetlinkFails BY <2>3 DEF TypeOK, NetlinkFails
  <2>4. CASE NetlinkOverruns BY <2>4 DEF TypeOK, NetlinkOverruns
  <2> QED BY <1>5, <2>1, <2>2, <2>3, <2>4
<1>6. CASE NetlinkMessage
  <2> DEFINE M == {"up", "down", "other", "end"}
  <2>0. msgs \in Seq(M) BY DEF TypeOK
  <2>1. msgs' \in Seq({"up", "down", "other", "end"})
    <3> HIDE DEF M
    <3>1. msgs # <<>> => Tail(msgs) \in Seq(M) BY <2>0
    <3>2. <<>> \in Seq(M) OBVIOUS
    <3>3. CASE msgs = <<>> BY <1>6, <2>0, <3>3 DEF NetlinkMessage, M
    <3>4. CASE msgs # <<>>
      <4>1. msgs' = IF Head(msgs) = "end" THEN <<>> ELSE Tail(msgs) BY <1>6, <3>4 DEF NetlinkMessage
      <4> QED BY <3>1, <3>2, <3>4, <4>1 DEF M
    <3> QED BY <3>3, <3>4
  <2>2. nl' \in {"recv", "msg", "sendUp", "sendDown", "sendMTU"} BY <1>6 DEF TypeOK, NetlinkMessage
  <2> QED BY <1>6, <2>1, <2>2 DEF TypeOK, NetlinkMessage
<1>7. CASE NetlinkSend
  <2>1. \E e \in {"up", "down", "mtu"} : Send(e) BY <1>7 DEF NetlinkSend
  <2>2. nl' \in {"msg", "sendMTU"} /\ wasEverUp' \in BOOLEAN /\ everUp' \in BOOLEAN
    BY <1>7 DEF TypeOK, NetlinkSend
  <2>3. UNCHANGED <<kernel, socket, device, cancelPipe, errors, hackv, msgs, closev>>
    BY <1>7 DEF NetlinkSend
  <2> QED BY <2>1, <2>2, <2>3, SendType DEF TypeOK
<1>8. CASE NetlinkCloseSock \/ NetlinkLock \/ NetlinkCloseEvents \/ NetlinkCloseCancel
  <2>1. CASE NetlinkCloseSock BY <2>1 DEF TypeOK, NetlinkCloseSock
  <2>2. CASE NetlinkLock BY <2>2 DEF TypeOK, NetlinkLock
  <2>3. CASE NetlinkCloseEvents
    <3>1. eventsClosed' \in BOOLEAN /\ panicked' \in BOOLEAN /\ nl' = "closeCancel"
      BY <2>3 DEF NetlinkCloseEvents, CloseEvents, TypeOK
    <3>2. UNCHANGED <<kernel, socket, device, cancelPipe, events, reported, errors, hackv,
                      msgs, wasEverUp, everUp, closev>>
      BY <2>3 DEF NetlinkCloseEvents, CloseEvents
    <3> QED BY <3>1, <3>2 DEF TypeOK
  <2>4. CASE NetlinkCloseCancel
    <3>1. cancelPipe' \in BOOLEAN /\ nl' = "done" BY <2>4 DEF NetlinkCloseCancel
    <3>2. UNCHANGED <<kernel, socket, device, chan, errors, hackv, msgs, wasEverUp, everUp, closev>>
      BY <2>4 DEF NetlinkCloseCancel
    <3> QED BY <3>1, <3>2 DEF TypeOK
  <2> QED BY <1>8, <2>1, <2>2, <2>3, <2>4
<1>9. CASE Receive \/ ReadError
  <2>1. CASE Receive
    <3>1. events' \in Seq({"up", "down", "mtu"}) BY <2>1 DEF TypeOK, Receive
    <3>2. Len(events') = Len(events) - 1 /\ Len(events) \in Nat BY <2>1 DEF TypeOK, Receive
    <3>3. Len(events') <= EventCap BY <3>2 DEF TypeOK
    <3> QED BY <2>1, <3>1, <3>3 DEF TypeOK, Receive
  <2>2. CASE ReadError BY <2>2 DEF TypeOK, ReadError
  <2> QED BY <1>9, <2>1, <2>2
<1>10. CASE LinkChanges
  <2>1. queue' \in Seq(Seq({"up", "down", "other", "end"}))
    <3>1. CASE socket = "open"
      <4>1. Notify(IF running' THEN "up" ELSE "down") BY <1>10, <3>1 DEF LinkChanges
      <4> QED BY <4>1, NotifyType DEF TypeOK
    <3>2. CASE socket # "open" BY <1>10, <3>2 DEF LinkChanges, TypeOK
    <3> QED BY <3>1, <3>2
  <2> QED BY <1>10, <2>1 DEF TypeOK, LinkChanges
<1>11. CASE MTUChanges \/ OtherNotice
  <2>1. \E m \in {"up", "down", "other", "end"} : Notify(m) BY <1>11 DEF MTUChanges, OtherNotice, Status
  <2>2. queue' \in Seq(Seq({"up", "down", "other", "end"})) BY <2>1, NotifyType DEF TypeOK
  <2>3. changes' \in 0..MaxChanges
    <3>1. changes < MaxChanges /\ changes' = changes + 1 BY <1>11 DEF MTUChanges, OtherNotice
    <3> QED BY <3>1 DEF TypeOK
  <2>4. stale' \in BOOLEAN
    <3>1. stale' = TRUE \/ stale' = stale BY <1>11 DEF MTUChanges, OtherNotice
    <3> QED BY <3>1, Zenon DEF TypeOK
  <2>5. UNCHANGED <<running, socket, device, cancelPipe, chan, errors, hackv, nlv, closev>>
    BY <1>11 DEF MTUChanges, OtherNotice
  <2> QED BY <2>2, <2>3, <2>4, <2>5 DEF TypeOK
<1>12. ASSUME NEW c \in Closers, CloseBegin(c) \/ Close(c) PROVE TypeOK'
  <2> USE DEF CloseBegin, Close, CloseWait, CloseSignal, CloseCancel, CloseFile, CloseEvents
  <2>1. closer' \in [Closers -> {"idle", "wait", "signal", "cancel", "file", "returned"}]
    BY <1>12 DEF TypeOK
  <2>2. once' \in Closers \union {"free", "done"} BY <1>12 DEF TypeOK
  <2>3. fileOpen' \in BOOLEAN /\ shutdown' \in BOOLEAN /\ cancelled' \in BOOLEAN
    BY <1>12 DEF TypeOK
  <2>4. eventsClosed' \in BOOLEAN /\ panicked' \in BOOLEAN BY <1>12 DEF TypeOK
  <2>5. UNCHANGED <<kernel, socket, device, cancelPipe, events, reported, errors, hackv, nlv>>
    BY <1>12
  <2> QED BY <2>1, <2>2, <2>3, <2>4, <2>5 DEF TypeOK
<1> QED BY <1>1, <1>2, <1>3, <1>4, <1>5, <1>6, <1>7, <1>8, <1>9, <1>10, <1>11, <1>12
        DEF Next, Hack, Netlink

\* Every step preserves the invariant: a sender is never behind a closed channel.
LEMMA IndStep == ASSUME IInv, [Next]_vars PROVE IInv'
<1> USE TunAssumption
<1>t. TypeOK' BY TypeStep DEF IInv
<1> DEFINE Rest == /\ NoPanic
                   /\ ClosedEventsHaveNoSender /\ ListenersHaveSocket /\ OneCloseBody
<1> SUFFICES Rest' BY <1>t DEF IInv
<1> USE DEF kernel, chan, hackv, nlv, closev, Ended, NoPanic,
            ClosedEventsHaveNoSender, ListenersHaveSocket, OneCloseBody
<1>1. CASE UNCHANGED vars BY <1>1 DEF vars, IInv
<1>2. CASE CreateFailsEarly \/ StartListeners BY <1>2 DEF IInv, TypeOK, CreateFailsEarly, StartListeners
<1>13. CASE SetMTU BY <1>13 DEF IInv, TypeOK, SetMTU
<1>3. CASE HackProbe \/ HackProbeFails \/ HackWake
  BY <1>3 DEF IInv, TypeOK, HackProbe, HackProbeFails, HackWake
<1>4. CASE HackSend
  <2>1. \E e \in {"up", "down", "mtu"} : Send(e) BY <1>4 DEF HackSend
  <2>2. ~eventsClosed BY <1>4 DEF HackSend, IInv
  <2>3. ~panicked' /\ eventsClosed' = eventsClosed BY <2>1, <2>2, SendType DEF IInv
  <2> QED BY <1>4, <2>3 DEF IInv, HackSend
<1>5. CASE NetlinkRecv \/ NetlinkCancelled \/ NetlinkFails \/ NetlinkOverruns
  BY <1>5 DEF IInv, NetlinkRecv, NetlinkCancelled, NetlinkFails, NetlinkOverruns
<1>6. CASE NetlinkMessage BY <1>6 DEF IInv, NetlinkMessage
<1>7. CASE NetlinkSend
  <2>1. \E e \in {"up", "down", "mtu"} : Send(e) BY <1>7 DEF NetlinkSend
  <2>2. ~eventsClosed BY <1>7 DEF NetlinkSend, IInv
  <2>3. ~panicked' /\ eventsClosed' = eventsClosed BY <2>1, <2>2, SendType DEF IInv
  <2> QED BY <1>7, <2>3 DEF IInv, NetlinkSend
<1>8. CASE NetlinkCloseSock \/ NetlinkLock BY <1>8 DEF IInv, TypeOK, NetlinkCloseSock, NetlinkLock
<1>14. CASE NetlinkCloseEvents
  <2>1. ~eventsClosed /\ device # "unmonitored" BY <1>14 DEF IInv, NetlinkCloseEvents
  <2> QED BY <1>14, <2>1 DEF IInv, NetlinkCloseEvents, CloseEvents
<1>15. CASE NetlinkCloseCancel BY <1>15 DEF IInv, NetlinkCloseCancel
<1>9. CASE Receive \/ ReadError BY <1>9 DEF IInv, Receive, ReadError
<1>10. CASE LinkChanges \/ MTUChanges \/ OtherNotice BY <1>10 DEF IInv, LinkChanges, MTUChanges, OtherNotice
<1>12. ASSUME NEW c \in Closers, CloseBegin(c) \/ Close(c) PROVE Rest'
  <2>1. CASE CloseBegin(c) BY <2>1 DEF IInv, TypeOK, CloseBegin
  <2>2. CASE CloseWait(c) BY <2>2 DEF IInv, TypeOK, CloseWait
  <2>3. CASE CloseSignal(c)
    BY <2>3 DEF IInv, TypeOK, CloseSignal, CloseEvents, Monitored
  <2>4. CASE CloseCancel(c) BY <2>4 DEF IInv, TypeOK, CloseCancel
  <2>5. CASE CloseFile(c) BY <2>5 DEF IInv, TypeOK, CloseFile
  <2> QED BY <1>12, <2>1, <2>2, <2>3, <2>4, <2>5 DEF Close
<1> QED BY <1>1, <1>2, <1>3, <1>4, <1>5, <1>6, <1>7, <1>8, <1>9, <1>10, <1>12, <1>13, <1>14, <1>15
        DEF Next, Hack, Netlink, Create

\* The initial states satisfy the invariant.
LEMMA IndInit == Init => IInv
<1> SUFFICES ASSUME Init PROVE IInv OBVIOUS
<1>1. TypeOK
  <2>1. events \in Seq({"up", "down", "mtu"}) /\ Len(events) <= EventCap BY TunAssumption DEF Init
  <2>2. queue \in Seq(Seq({"up", "down", "other", "end"})) /\ msgs \in Seq({"up", "down", "other", "end"})
    BY DEF Init
  <2>3. closer \in [Closers -> {"idle", "wait", "signal", "cancel", "file", "returned"}] BY DEF Init
  <2>4. changes \in 0..MaxChanges /\ errors \in 0..ErrorCap BY TunAssumption DEF Init
  <2> QED BY <2>1, <2>2, <2>3, <2>4 DEF Init, TypeOK, Ended
<1>2. NoPanic BY DEF Init, NoPanic
<1>3. ClosedEventsHaveNoSender /\ ListenersHaveSocket
  BY DEF Init, ClosedEventsHaveNoSender, ListenersHaveSocket
<1>4. OneCloseBody BY DEF Init, OneCloseBody
<1> QED BY <1>1, <1>2, <1>3, <1>4 DEF IInv

\* The variables keep their types, and the channels their capacities.
THEOREM TypeCorrect == Spec => []TypeOK
<1>1. IInv => TypeOK BY DEF IInv
<1> QED BY IndInit, IndStep, <1>1, PTL DEF Spec

\* No goroutine of tun_linux.go ever sends on the closed events channel or
\* closes it a second time.
THEOREM PanicFree == Spec => []NoPanic
<1>1. IInv => NoPanic BY DEF IInv
<1> QED BY IndInit, IndStep, <1>1, PTL DEF Spec

=============================================================================
