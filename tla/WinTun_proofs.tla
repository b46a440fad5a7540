---------------------------- MODULE WinTun_proofs ----------------------------
(***************************************************************************)
(* Proofs about the Windows device, for any number of goroutines that call *)
(* Close and every capacity of the channel and the ring.                   *)
(***************************************************************************)
EXTENDS WinTun, TLAPS

\* What the end of a call changes, and that its types are right.
LEMMA DoneEffect ==
    ASSUME TypeOK, NEW u \in Users, Done(u)
    PROVE  /\ pc' = [pc EXCEPT ![u] = "idle"] /\ running' = running \ {u}
           /\ pc' \in [Users -> {"idle", "check", "loop", "receive", "release", "wait",
                                 "alloc", "send", "ask"}]
           /\ running' \subseteq Users
           /\ cpc' \in [Closers -> {"idle", "store", "signal", "wait", "parked", "woken",
                                    "end", "adapter", "events", "returned"}]
           /\ \A c \in Closers : \/ cpc'[c] = cpc[c]
                                 \/ cpc[c] = "parked" /\ cpc'[c] = "woken" /\ running' = {}
  BY DEF Done, Goto, TypeOK

\* A step of the calls keeps the types; Write keeps a packet for as long as it runs.
LEMMA TypeCalls ==
    ASSUME TypeOK, WriteHasPackets,
           (\E u \in Users : Add(u) \/ Check(u)) \/ Read \/ Write \/ AskLUID
    PROVE  TypeOK' /\ WriteHasPackets'
<1> USE WinTunAssumption
<1> USE DEF driver, force, chan, closing, wg, calls, Goto, WriteHasPackets
<1>0. "read" \in Users /\ "write" \in Users /\ "luid" \in Users BY DEF Users
<1>1. ASSUME NEW u \in Users, Add(u) PROVE TypeOK' /\ WriteHasPackets'
  BY <1>0, <1>1 DEF TypeOK, Add
<1>2. ASSUME NEW u \in Users, Check(u) PROVE TypeOK' /\ WriteHasPackets'
  <2>1. CASE close
    <3>1. Done(u) /\ left' = IF u = "write" THEN 0 ELSE left BY <1>2, <2>1 DEF Check
    <3>2. UNCHANGED <<device, driver, force, seen, chan, closing, spins, readWait>>
      BY <1>2 DEF Check
    <3> QED BY <1>0, <3>1, <3>2, DoneEffect DEF TypeOK
  <2>2. CASE ~close
    <3>1. FirstUse(u) \in {"loop", "alloc", "ask"} BY DEF FirstUse, Users
    <3> QED BY <1>0, <1>2, <2>2, <3>1 DEF TypeOK, Check
  <2> QED BY <2>1, <2>2 DEF TypeOK
<1>3. CASE ReadLoop
  <2>1. CASE close
    <3>1. Done("read") /\ spins' = 0 BY <1>3, <2>1 DEF ReadLoop
    <3> QED BY <1>0, <1>3, <3>1, DoneEffect DEF TypeOK, ReadLoop
  <2>2. CASE ~close BY <1>0, <1>3, <2>2 DEF TypeOK, ReadLoop
  <2> QED BY <2>1, <2>2 DEF TypeOK
<1>4. CASE ReadReceive
  <2>1. CASE broken
    <3>1. Done("read") /\ spins' = 0 /\ ring' = ring BY <1>4, <2>1 DEF ReadReceive
    <3> QED BY <1>0, <1>4, <3>1, DoneEffect DEF TypeOK, ReadReceive
  <2>2. CASE ~broken BY <1>0, <1>4, <2>2 DEF TypeOK, ReadReceive
  <2> QED BY <2>1, <2>2 DEF TypeOK
<1>5. CASE ReadRelease
  <2>1. Done("read") BY <1>5 DEF ReadRelease
  <2> QED BY <1>0, <1>5, <2>1, DoneEffect DEF TypeOK, ReadRelease
<1>6. CASE ReadWait
  <2>1. readWait' \in BOOLEAN BY <1>6 DEF ReadWait
  <2>2. pc' = [pc EXCEPT !["read"] = "check"]
        /\ UNCHANGED <<device, driver, force, seen, chan, closing, wg, spins, left>>
    BY <1>6 DEF ReadWait
  <2> QED BY <1>0, <2>1, <2>2 DEF TypeOK
<1>7. CASE WriteAlloc
  <2>1. CASE broken
    <3>1. Done("write") /\ left' = 0 BY <1>7, <2>1 DEF WriteAlloc
    <3> QED BY <1>0, <1>7, <3>1, DoneEffect DEF TypeOK, WriteAlloc
  <2>2. CASE ~broken /\ left' = left - 1 /\ Done("write") /\ left = 1
    BY <1>0, <1>7, <2>2, DoneEffect DEF TypeOK, WriteAlloc
  <2>3. CASE ~broken /\ ~(left' = left - 1 /\ Done("write") /\ left = 1)
    BY <1>0, <1>7, <2>3 DEF TypeOK, WriteAlloc
  <2> QED BY <2>1, <2>2, <2>3 DEF TypeOK
<1>8. CASE WriteSend
  <2>1. CASE left = 1
    <3>1. Done("write") /\ left' = 0 BY <1>8, <2>1 DEF WriteSend
    <3> QED BY <1>0, <1>8, <3>1, DoneEffect DEF TypeOK, WriteSend
  <2>2. CASE left # 1 BY <1>0, <1>8, <2>2 DEF TypeOK, WriteSend
  <2> QED BY <2>1, <2>2
<1>9. CASE LUID
  <2>1. Done("luid") BY <1>9 DEF LUID
  <2> QED BY <1>0, <1>9, <2>1, DoneEffect DEF TypeOK, LUID
<1> QED
  BY <1>0, <1>1, <1>2, <1>3, <1>4, <1>5, <1>6, <1>7, <1>8, <1>9 DEF Read, Write, AskLUID

\* So does every other step.
LEMMA TypeStep ==
    ASSUME TypeOK, WriteHasPackets, [Next]_vars PROVE TypeOK' /\ WriteHasPackets'
<1> USE WinTunAssumption
<1> USE DEF driver, force, chan, closing, wg, calls, CGoto, WriteHasPackets
<1>1. CASE UNCHANGED vars BY <1>1 DEF vars, TypeOK
<1>2. CASE Create
  <2>1. eventsOpen' \in BOOLEAN BY <1>2 DEF Create, TypeOK
  <2>2. device' \in {"ready", "failed"} /\ session' \in {"open", "ended"}
        /\ adapter' \in {"open", "closed"}
    BY <1>2 DEF Create, TypeOK
  <2>3. UNCHANGED <<driver, force, seen, events, panicked, close, once, wg, calls, readWait>>
    BY <1>2 DEF Create
  <2> QED BY <2>1, <2>2, <2>3 DEF TypeOK
<1>3. CASE (\E u \in Users : Add(u)) \/ Read \/ Write \/ AskLUID
  BY <1>3, TypeCalls
<1>4. ASSUME NEW c \in Closers, Close(c) PROVE TypeOK' /\ WriteHasPackets'
  <2>1. CASE CloseBegin(c) BY <2>1 DEF TypeOK, CloseBegin
  <2>2. CASE CloseStore(c) BY <2>2 DEF TypeOK, CloseStore
  <2>3. CASE CloseSignal(c) BY <2>3 DEF TypeOK, CloseSignal
  <2>4. CASE CloseWait(c) BY <2>4 DEF TypeOK, CloseWait
  <2>5. CASE CloseWoken(c)
    <3>1. panicked' \in BOOLEAN BY <2>5 DEF CloseWoken
    <3> QED BY <2>5, <3>1 DEF TypeOK, CloseWoken
  <2>6. CASE CloseSession(c) BY <2>6 DEF TypeOK, CloseSession
  <2>7. CASE CloseAdapter(c) BY <2>7 DEF TypeOK, CloseAdapter
  <2>8. CASE CloseEvents(c)
    <3>1. panicked' \in BOOLEAN BY <2>8 DEF CloseEvents
    <3> QED BY <2>8, <3>1 DEF TypeOK, CloseEvents
  <2> QED BY <1>4, <2>1, <2>2, <2>3, <2>4, <2>5, <2>6, <2>7, <2>8 DEF Close
<1>5. CASE (\E mtu \in MTUs : ForceMTU(mtu)) \/ ForceSet \/ ForceSend
  <2>1. CASE \E mtu \in MTUs : ForceMTU(mtu) BY <2>1 DEF TypeOK, ForceMTU
  <2>2. CASE ForceSet BY <2>2 DEF TypeOK, ForceSet
  <2>3. CASE ForceSend
    <3>1. panicked' \in BOOLEAN BY <2>3 DEF ForceSend, TypeOK
    <3>2. events' \in 0..EventCap BY <2>3 DEF ForceSend, TypeOK
    <3>3. fpc' = "idle"
          /\ UNCHANGED <<device, driver, arg, forces, forcedMTU, seen, eventsOpen, closing,
                         wg, calls, readWait>>
      BY <2>3 DEF ForceSend
    <3> QED BY <3>1, <3>2, <3>3 DEF TypeOK
  <2> QED BY <1>5, <2>1, <2>2, <2>3
<1>6. CASE ReceiveEvent \/ PacketArrives \/ DriverFails
  <2>1. CASE ReceiveEvent BY <2>1 DEF TypeOK, ReceiveEvent
  <2>2. CASE PacketArrives
    <3>1. readWait' \in BOOLEAN BY <2>2 DEF PacketArrives
    <3>2. ring' \in 0..MaxPackets BY <2>2 DEF PacketArrives, TypeOK
    <3>3. UNCHANGED <<device, broken, force, seen, chan, closing, wg, calls>>
      BY <2>2 DEF PacketArrives
    <3> QED BY <3>1, <3>2, <3>3 DEF TypeOK
  <2>3. CASE DriverFails
    <3>1. broken' \in BOOLEAN BY <2>3 DEF DriverFails
    <3>2. UNCHANGED <<device, ring, force, seen, chan, closing, wg, calls, readWait>>
      BY <2>3 DEF DriverFails
    <3> QED BY <3>1, <3>2 DEF TypeOK
  <2> QED BY <1>6, <2>1, <2>2, <2>3
<1> QED
  BY <1>1, <1>2, <1>3, <1>4, <1>5, <1>6 DEF Next

-----------------------------------------------------------------------------
\* A step of the calls stays counted, passes its check only while the flag is
\* down, and releases Close only when nobody is counted any more.
LEMMA CallsEffect ==
    ASSUME TypeOK, CallsAreRunning, device = "ready",
           (\E u \in Users : Add(u)) \/ Read \/ Write \/ AskLUID
    PROVE  /\ UNCHANGED <<device, close, session, adapter, once, eventsOpen>>
           /\ CallsAreRunning'
           /\ close => \A u \in Users : InUse(u)' => InUse(u)
           /\ \A c \in Closers : \/ cpc'[c] = cpc[c]
                                 \/ cpc[c] = "parked" /\ cpc'[c] = "woken" /\ running' = {}
<1> DEFINE Effect(u) ==
      /\ UNCHANGED <<device, close, session, adapter, once, eventsOpen>>
      /\ running' = running \cup {u} \/ running' = running \/ running' = running \ {u}
      /\ \E l : pc' = [pc EXCEPT ![u] = l]
      /\ pc'[u] # "idle" => u \in running'
      /\ close => (InUse(u)' => InUse(u))
      /\ \A c \in Closers : \/ cpc'[c] = cpc[c]
                            \/ cpc[c] = "parked" /\ cpc'[c] = "woken" /\ running' = {}
<1> USE DEF closing, chan, wg, calls, Goto, InUse
<1>0. "read" \in Users /\ "write" \in Users /\ "luid" \in Users BY DEF Users
<1>1. ASSUME NEW u \in Users, Done(u),
             UNCHANGED <<device, close, session, adapter, once, eventsOpen>>
      PROVE  Effect(u)
  BY <1>1, DoneEffect DEF TypeOK
<1>2. ASSUME NEW u \in Users, pc[u] # "idle", NEW l, pc' = [pc EXCEPT ![u] = l],
             l = "check" \/ InUse(u) \/ ~close,
             UNCHANGED <<device, close, session, adapter, once, eventsOpen, wg>>
      PROVE  Effect(u)
  BY <1>2 DEF TypeOK, CallsAreRunning
<1>3. ASSUME NEW u \in Users, Add(u) PROVE Effect(u)
  BY <1>3 DEF TypeOK, Add
<1>4. ASSUME NEW u \in Users, Check(u) PROVE Effect(u)
  BY <1>1, <1>2, <1>4 DEF Check
<1>5. ASSUME ReadLoop PROVE Effect("read") BY <1>0, <1>1, <1>2, <1>5 DEF ReadLoop
<1>6. ASSUME ReadReceive PROVE Effect("read")
  <2>1. Done("read") \/ \E l : pc' = [pc EXCEPT !["read"] = l] /\ UNCHANGED wg
    BY <1>6 DEF ReadReceive
  <2>2. pc["read"] = "receive" /\ UNCHANGED <<device, close, session, adapter, once, eventsOpen>>
    BY <1>6 DEF ReadReceive
  <2> QED BY <1>0, <1>1, <1>2, <2>1, <2>2
<1>7. ASSUME ReadRelease PROVE Effect("read") BY <1>0, <1>1, <1>7 DEF ReadRelease
<1>8. ASSUME ReadWait PROVE Effect("read") BY <1>0, <1>2, <1>8 DEF ReadWait
<1>9. ASSUME WriteAlloc PROVE Effect("write")
  <2>1. Done("write") \/ \E l : pc' = [pc EXCEPT !["write"] = l] /\ UNCHANGED wg
    <3>1. CASE UNCHANGED <<pc, wg>>
      <4>1. pc' = [pc EXCEPT !["write"] = pc["write"]] BY <3>1 DEF TypeOK
      <4> QED BY <3>1, <4>1
    <3> QED BY <1>9, <3>1 DEF WriteAlloc
  <2>2. pc["write"] = "alloc" /\ UNCHANGED <<device, close, session, adapter, once, eventsOpen>>
    BY <1>9 DEF WriteAlloc
  <2> QED BY <1>0, <1>1, <1>2, <2>1, <2>2
<1>10. ASSUME WriteSend PROVE Effect("write") BY <1>0, <1>1, <1>2, <1>10 DEF WriteSend
<1>11. ASSUME LUID PROVE Effect("luid") BY <1>0, <1>1, <1>11 DEF LUID
<1>12. PICK u \in Users : Effect(u)
  BY <1>0, <1>3, <1>4, <1>5, <1>6, <1>7, <1>8, <1>9, <1>10, <1>11 DEF Read, Write, AskLUID
<1>13. \A v \in Users \ {u} : pc'[v] = pc[v] /\ (v \in running => v \in running')
  BY <1>12 DEF TypeOK
<1>14. CallsAreRunning'
  BY <1>12, <1>13 DEF CallsAreRunning
<1> QED
  BY <1>12, <1>13, <1>14

\* Every step preserves the inductive invariant.
LEMMA InvStep == ASSUME IInv, [Next]_vars PROVE IInv'
<1>1. TypeOK' /\ WriteHasPackets'
  BY TypeStep DEF IInv
<1> SUFFICES /\ CallsAreRunning' /\ ClosersHaveDevice' /\ NewIsOpen'
             /\ FlagBeforeWait' /\ WaitDrains' /\ EndedIsDrained'
             /\ OneBody' /\ ClosedAtEnd'
  BY <1>1 DEF IInv
<1> USE DEF CallsAreRunning, ClosersHaveDevice, NewIsOpen, FlagBeforeWait, WaitDrains,
            EndedIsDrained, Drained, InUse, OneBody, InBody, ClosedAtEnd
<1>2. CASE device = "ready" /\ ((\E u \in Users : Add(u)) \/ Read \/ Write \/ AskLUID)
  <2> HIDE DEF CallsAreRunning, InUse
  <2>1. /\ UNCHANGED <<device, close, session, adapter, once, eventsOpen>>
        /\ CallsAreRunning'
        /\ close => \A u \in Users : InUse(u)' => InUse(u)
        /\ \A c \in Closers : \/ cpc'[c] = cpc[c]
                              \/ cpc[c] = "parked" /\ cpc'[c] = "woken" /\ running' = {}
    BY <1>2, CallsEffect DEF IInv
  <2>2. running' = {} => \A u \in Users : ~InUse(u)'
    BY <2>1 DEF CallsAreRunning, InUse
  <2>3. ClosersHaveDevice' /\ NewIsOpen' /\ FlagBeforeWait'
    BY <1>2, <2>1 DEF IInv
  <2>4. WaitDrains' /\ EndedIsDrained'
    BY <2>1, <2>2 DEF IInv
  <2>5. OneBody' /\ ClosedAtEnd'
    BY <2>1 DEF IInv
  <2> QED BY <2>1, <2>3, <2>4, <2>5
<1> USE DEF IInv, driver, force, chan, closing, wg, calls, CGoto
<1>3. CASE UNCHANGED vars
  BY <1>3 DEF vars
<1>4. CASE Create
  <2>1. /\ \A u \in Users : pc'[u] = "idle"
        /\ \A c \in Closers : cpc'[c] = "idle"
        /\ device' \in {"ready", "failed"}
    BY <1>4 DEF Create
  <2>2. device' = "ready" => session' = "open" /\ adapter' = "open" /\ eventsOpen'
    BY <1>4 DEF Create
  <2>3. CallsAreRunning'
    BY <2>1
  <2> QED BY <2>1, <2>2, <2>3
<1>5. ASSUME NEW c \in Closers, Close(c), device = "ready"
      PROVE  /\ CallsAreRunning' /\ ClosersHaveDevice' /\ NewIsOpen'
             /\ FlagBeforeWait' /\ WaitDrains' /\ EndedIsDrained'
             /\ OneBody' /\ ClosedAtEnd'
  <2> USE <1>5 DEF TypeOK
  <2>1. CASE CloseBegin(c) BY <2>1 DEF CloseBegin
  <2>2. CASE CloseStore(c) BY <2>2 DEF CloseStore
  <2>3. CASE CloseSignal(c) BY <2>3 DEF CloseSignal
  <2>4. CASE CloseWait(c) BY <2>4 DEF CloseWait
  <2>5. CASE CloseWoken(c) BY <2>5 DEF CloseWoken
  <2>6. CASE CloseSession(c) BY <2>6 DEF CloseSession
  <2>7. CASE CloseAdapter(c) BY <2>7 DEF CloseAdapter
  <2>8. CASE CloseEvents(c) BY <2>8 DEF CloseEvents
  <2> QED BY <2>1, <2>2, <2>3, <2>4, <2>5, <2>6, <2>7, <2>8 DEF Close
<1>6. CASE (\E mtu \in MTUs : ForceMTU(mtu)) \/ ForceSet \/ ForceSend
  BY <1>6 DEF ForceMTU, ForceSet, ForceSend
<1>7. CASE ReceiveEvent \/ PacketArrives \/ DriverFails
  BY <1>7 DEF ReceiveEvent, PacketArrives, DriverFails
<1> QED
  BY <1>2, <1>3, <1>4, <1>5, <1>6, <1>7 DEF Next

LEMMA Invariance == Spec => []IInv
<1>1. Init => IInv
  <2> SUFFICES ASSUME Init PROVE IInv
    OBVIOUS
  <2>1. TypeOK
    <3>1. /\ close \in BOOLEAN /\ broken \in BOOLEAN /\ readWait \in BOOLEAN
          /\ eventsOpen \in BOOLEAN /\ panicked \in BOOLEAN
      BY DEF Init
    <3>2. /\ ring \in 0..MaxPackets /\ events \in 0..EventCap
          /\ spins \in 0..MaxSpins /\ left \in Nat /\ forces \in 0..MaxForces
      BY WinTunAssumption DEF Init
    <3>3. /\ running \subseteq Users
          /\ cpc = [c \in Closers |-> "idle"] /\ pc = [u \in Users |-> "idle"]
          /\ device = "new" /\ session = "ended" /\ adapter = "open" /\ once = "new"
          /\ fpc = "idle"
      BY DEF Init
    <3>4. arg \in MTUs /\ forcedMTU \in MTUs /\ seen \in MTUs
      BY WinTunAssumption DEF Init
    <3> QED BY <3>1, <3>2, <3>3, <3>4 DEF TypeOK
  <2>2. WriteHasPackets
    BY DEF Init, WriteHasPackets, Users
  <2>3. CallsAreRunning /\ ClosersHaveDevice /\ NewIsOpen
    BY DEF Init, CallsAreRunning, ClosersHaveDevice, NewIsOpen
  <2>4. FlagBeforeWait /\ WaitDrains /\ EndedIsDrained /\ OneBody /\ ClosedAtEnd
    BY DEF Init, FlagBeforeWait, WaitDrains, EndedIsDrained, OneBody, InBody, ClosedAtEnd
  <2> QED BY <2>1, <2>2, <2>3, <2>4 DEF IInv
<1>2. IInv /\ [Next]_vars => IInv'
  BY InvStep
<1> QED BY <1>1, <1>2, PTL DEF Spec

\* The state of the device keeps its types; the channel and the ring their
\* capacities.
THEOREM TypeCorrect == Spec => []TypeOK
<1>1. IInv => TypeOK BY DEF IInv
<1> QED BY <1>1, Invariance, PTL

\* Close never ends the session or closes the adapter under a Read, Write or
\* LUID that has found the device open: such a call was counted before it
\* looked at the flag, so that Close waits for it.
THEOREM SessionSafe == Spec => []SessionAlive
<1>1. IInv => SessionAlive
  BY DEF IInv, TypeOK, CallsAreRunning, EndedIsDrained, Drained, SessionAlive, InUse
<1> QED BY <1>1, Invariance, PTL

\* Close closes the events channel once, for any number of callers.
THEOREM ClosedOnce == Spec => []EventsClosedOnce
<1>1. IInv => EventsClosedOnce
  BY DEF IInv, TypeOK, ClosersHaveDevice, OneBody, InBody, ClosedAtEnd, EventsClosedOnce
<1> QED BY <1>1, Invariance, PTL
=============================================================================
