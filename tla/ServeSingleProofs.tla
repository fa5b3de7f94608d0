------------------------- MODULE ServeSingleProofs -------------------------
(***************************************************************************)
(* Proofs about ServeSingle for every bound on signals and commands.       *)
(***************************************************************************)
EXTENDS ServeSingle, TLAPS

\* The main thread is past read_async.
ReadOver == {"try_send", "join_cancel", "join_ctl", "ok"}

\* A cancellation is queued, under way or done.
Cancelling == chan = 1 \/ cancel \in {"cancel", "store", "done"}

\* A cancellation has a signal or a failed write behind it, or it is the wake-up
\* call of the main thread, and a handler that runs has received a signal.
CauseInv ==
    /\ Cancelling => signals > 0 \/ writeFailed \/ main \in ReadOver
    /\ handler # "idle" => signals > 0

\* Once read_async has returned the device does not run again.
DeviceInv == main \in ReadOver => dev \in {"cancelled", "ended"}

\* The cancel thread does not exist before it is spawned.
SpawnInv == main \in {"accept", "open", "spawn_ctl", "spawn_cancel"} => cancel = "none"

\* What the joins of the main thread have established.
JoinInv ==
    /\ cancel = "done" => should_exit
    /\ main \in {"join_ctl", "ok"} => cancel = "done"
    /\ main = "ok" => ctl = "done"

\* The magic packet is on the wire before the device is read.
MagicInv ==
    main \in {"start", "stream"} => \E j \in 1..Len(wire) : wire[j] = "magic"

\* The inductive invariant of run_serve_single.
SingleInv ==
    /\ TypeOK
    /\ ExitMeansCancelling
    /\ CauseInv
    /\ CancelledForCause
    /\ DeviceInv
    /\ SpawnInv
    /\ JoinInv
    /\ MagicInv
    /\ IqAfterMagic

Items == {"magic", "ack", "iq"}

\* What Put does to the wire: the old items stay where they are, and at most
\* the new one is added at the end.
LEMMA PutExtends ==
    ASSUME wire \in Seq(Items), NEW item \in Items
    PROVE  /\ Put(item) \in Seq(Items)
           /\ Put(item) = wire \/ Put(item) = Append(wire, item)
BY DEF Put

\* Appending anything but IQ data, or IQ data after the magic packet, keeps the
\* order of the wire.
LEMMA PutKeepsOrder ==
    ASSUME wire \in Seq(Items), NEW item \in Items, IqAfterMagic,
           item = "iq" => \E j \in 1..Len(wire) : wire[j] = "magic",
           wire' = Put(item)
    PROVE  /\ IqAfterMagic'
           /\ (\E j \in 1..Len(wire) : wire[j] = "magic")
                => (\E j \in 1..Len(wire') : wire'[j] = "magic")
           /\ item = "magic" => (\E j \in 1..Len(wire') : wire'[j] = "magic")
<1>1. CASE wire' = wire /\ item # "magic"
  BY <1>1 DEF IqAfterMagic
<1>2. CASE wire' = Append(wire, item)
  <2>1. Len(wire') = Len(wire) + 1 /\ wire'[Len(wire) + 1] = item
        /\ \A i \in 1..Len(wire) : wire'[i] = wire[i]
    BY <1>2
  <2>2. Len(wire) \in Nat
    OBVIOUS
  <2>3. IqAfterMagic'
    <3> SUFFICES ASSUME NEW i \in 1..Len(wire'), wire'[i] = "iq"
                 PROVE  \E j \in 1..(i - 1) : wire'[j] = "magic"
      BY DEF IqAfterMagic
    <3>1. CASE i \in 1..Len(wire)
      <4>1. PICK j \in 1..(i - 1) : wire[j] = "magic"
        BY <3>1, <2>1 DEF IqAfterMagic
      <4> QED
        BY <4>1, <3>1, <2>1, <2>2
    <3>2. CASE i = Len(wire) + 1
      <4>1. PICK j \in 1..Len(wire) : wire[j] = "magic"
        BY <3>2, <2>1
      <4> QED
        BY <4>1, <3>2, <2>1, <2>2
    <3> QED
      BY <3>1, <3>2, <2>1, <2>2
  <2> QED
    BY <2>1, <2>2, <2>3
<1> QED
  BY <1>1, <1>2 DEF Put

\* The initial states satisfy the inductive invariant.
LEMMA InitInv == Init => SingleInv
<1> SUFFICES ASSUME Init PROVE SingleInv
  OBVIOUS
<1>1. wire = << >> /\ wire \in Seq(Items) /\ Len(wire) = 0
  BY DEF Init
<1>2. TypeOK
  <2>1. wire \in Seq({"magic", "ack", "iq"})
    BY <1>1 DEF Items
  <2>2. signals \in 0..MaxSignals /\ cmds \in 0..MaxCmds /\ chan \in {0, 1}
    BY BoundsAssumption DEF Init
  <2> QED
    BY <2>1, <2>2 DEF Init, TypeOK
<1> QED
  BY <1>1, <1>2 DEF Init, SingleInv, ExitMeansCancelling, CauseInv, Cancelling,
     CancelledForCause, DeviceInv, SpawnInv, JoinInv, MagicInv, IqAfterMagic, ReadOver

USE DEF TrySend, CanSend, Ended, HandlerSet, shared, world, history

\* Every step keeps the inductive invariant.
LEMMA NextInv == SingleInv /\ [Next]_vars => SingleInv'
<1> SUFFICES ASSUME SingleInv, [Next]_vars PROVE SingleInv'
  OBVIOUS
<1> USE BoundsAssumption DEF SingleInv
<1>w. wire \in Seq(Items)
  BY DEF TypeOK, Items
<1>t. TypeOK'
  <2> USE DEF TypeOK
  <2>1. CASE MainStep
    BY <2>1, <1>w, PutExtends DEF MainStep, Accept, AcceptFails, OpenDevice,
       OpenDeviceFails, SpawnCtl, SpawnCtlFails, SpawnCancel, SendMagic, SendMagicFails, StartRead,
       StartReadFails, ReadReturns, WakeCancel, JoinCancel, JoinCtl, MainGoes,
       OnlyMain, Items
  <2>2. CASE Callback
    BY <2>2, <1>w, PutExtends DEF Callback, CallbackOk, CallbackErr, Streaming, Items
  <2>3. CASE CtlRead \/ CtlOwnStep
    BY <2>3, <1>w, PutExtends DEF CtlRead, CtlOwnStep, CtlEof, CtlCheck,
       CtlChainDetect, CtlCommand, CtlGoes, OnlyCtl, Items
  <2>4. CASE CancelStep
    <3>1. missed' \in BOOLEAN /\ should_exit' \in BOOLEAN
      BY <2>4, Zenon DEF CancelStep, CancelRecv, CancelRead, CancelStore
    <3>2. dev' \in {"closed", "ready", "running", "cancelled", "ended"}
      BY <2>4 DEF CancelStep, CancelRecv, CancelRead, CancelStore
    <3>3. CancelRecv \/ CancelRead \/ CancelStore
      BY <2>4 DEF CancelStep
    <3> QED
      BY <3>1, <3>2, <3>3 DEF CancelRecv, CancelRead, CancelStore, CancelGoes
  <2>5. CASE Signal \/ HandlerStep
    <3>1. should_exit' \in BOOLEAN /\ shut' \in BOOLEAN
      BY <2>5, Zenon DEF Signal, HandlerStep, HandlerSend, HandlerShut
    <3>2. Signal \/ HandlerSend \/ HandlerShut
      BY <2>5 DEF HandlerStep
    <3>3. chan' \in {0, 1} /\ signals' \in 0..MaxSignals
      BY <3>2 DEF Signal, HandlerSend, HandlerShut
    <3> QED
      BY <3>1, <3>2, <3>3 DEF Signal, HandlerSend, HandlerShut, HandlerGoes
  <2>6. CASE Connect \/ PeerHalfCloses \/ PeerGone \/ DeviceEnds
    BY <2>6 DEF Connect, PeerHalfCloses, PeerGone, DeviceEnds, PeerGoes
  <2>7. CASE UNCHANGED vars
    BY <2>7 DEF vars
  <2> QED
    BY <2>1, <2>2, <2>3, <2>4, <2>5, <2>6, <2>7 DEF Next, Stopped
<1>c. /\ ExitMeansCancelling' /\ CauseInv' /\ CancelledForCause'
      /\ DeviceInv' /\ SpawnInv' /\ JoinInv'
  <2> USE DEF TypeOK, ExitMeansCancelling, CauseInv, Cancelling, CancelledForCause,
              DeviceInv, SpawnInv, JoinInv, ReadOver
  <2>1. CASE MainStep
    <3>1. CASE Accept \/ AcceptFails \/ OpenDevice \/ OpenDeviceFails
      BY <3>1 DEF Accept, AcceptFails, OpenDevice, OpenDeviceFails, MainGoes, OnlyMain
    <3>2. CASE SpawnCtl \/ SpawnCtlFails \/ SpawnCancel \/ SendMagic \/ SendMagicFails
      BY <3>2 DEF SpawnCtl, SpawnCtlFails, SpawnCancel, SendMagic, SendMagicFails, MainGoes,
         OnlyMain
    <3>3. CASE StartRead \/ StartReadFails \/ ReadReturns
      BY <3>3 DEF StartRead, StartReadFails, ReadReturns, MainGoes, OnlyMain
    <3>4. CASE WakeCancel
      BY <3>4 DEF WakeCancel, MainGoes
    <3>5. CASE JoinCancel \/ JoinCtl
      BY <3>5 DEF JoinCancel, JoinCtl, MainGoes, OnlyMain
    <3> QED
      BY <2>1, <3>1, <3>2, <3>3, <3>4, <3>5 DEF MainStep
  <2>2. CASE Callback
    BY <2>2 DEF Callback, CallbackOk, CallbackErr, Streaming
  <2>3. CASE CtlRead \/ CtlOwnStep
    BY <2>3 DEF CtlRead, CtlOwnStep, CtlEof, CtlCheck,
       CtlChainDetect, CtlCommand, CtlGoes, OnlyCtl
  <2>4. CASE CancelStep
    BY <2>4 DEF CancelStep, CancelRecv, CancelRead, CancelStore, CancelGoes
  <2>5. CASE Signal \/ HandlerStep
    BY <2>5 DEF Signal, HandlerStep, HandlerSend, HandlerShut, HandlerGoes
  <2>6. CASE Connect \/ PeerHalfCloses \/ PeerGone \/ DeviceEnds
    BY <2>6 DEF Connect, PeerHalfCloses, PeerGone, DeviceEnds, PeerGoes
  <2>7. CASE UNCHANGED vars
    BY <2>7 DEF vars
  <2> QED
    BY <2>1, <2>2, <2>3, <2>4, <2>5, <2>6, <2>7 DEF Next, Stopped
<1>m. MagicInv' /\ IqAfterMagic'
  <2>1. CASE SendMagic
    <3>1. wire' = Put("magic") /\ "magic" \in Items
      BY <2>1 DEF SendMagic, Items
    <3> QED
      BY <3>1, <1>w, PutKeepsOrder DEF MagicInv
  <2>2. CASE CallbackOk
    <3>1. wire' = Put("iq") /\ "iq" \in Items /\ main' = main /\ main = "stream"
      BY <2>2 DEF CallbackOk, Streaming, Items
    <3> QED
      BY <3>1, <1>w, PutKeepsOrder DEF MagicInv
  <2>3. CASE CtlChainDetect
    <3>1. CASE wire' = Put("ack")
      <4>1. "ack" \in Items /\ main' = main
        BY <2>3 DEF CtlChainDetect, Items
      <4> QED
        BY <4>1, <3>1, <1>w, PutKeepsOrder DEF MagicInv
    <3>2. CASE wire' = wire
      BY <2>3, <3>2 DEF CtlChainDetect, MagicInv, IqAfterMagic
    <3> QED
      BY <2>3, <3>1, <3>2 DEF CtlChainDetect
  <2>4. CASE /\ wire' = wire
             /\ main' \in {"start", "stream"} => main \in {"start", "stream"}
    BY <2>4 DEF MagicInv, IqAfterMagic
  <2>5. \/ SendMagic \/ CallbackOk \/ CtlChainDetect
        \/ /\ wire' = wire
           /\ main' \in {"start", "stream"} => main \in {"start", "stream"}
    BY DEF Next, Stopped, vars, MainStep, Accept, AcceptFails, OpenDevice,
       OpenDeviceFails, SpawnCtl, SpawnCtlFails, SpawnCancel, SendMagicFails, StartRead,
       StartReadFails, ReadReturns, WakeCancel, JoinCancel, JoinCtl, MainGoes,
       OnlyMain, Callback, CallbackErr, CtlRead, CtlOwnStep, CtlEof, CtlCheck,
       CtlCommand, CtlGoes, OnlyCtl, CancelStep, CancelRecv, CancelRead, CancelStore,
       CancelGoes, Signal, HandlerStep, HandlerSend, HandlerShut, HandlerGoes,
       Connect, PeerHalfCloses, PeerGone, DeviceEnds, PeerGoes
  <2> QED
    BY <2>1, <2>2, <2>3, <2>4, <2>5
<1> QED
  BY <1>t, <1>c, <1>m

\* SingleInv is an invariant of run_serve_single.
THEOREM Invariance == Spec => []SingleInv
BY InitInv, NextInv, PTL DEF Spec

\* Type correctness of run_serve_single, and in particular a channel that never
\* holds more than its one message.
THEOREM TypeCorrect == Spec => []TypeOK
BY Invariance, PTL DEF SingleInv

\* However many signals are received, the exit flag is set only when the
\* cancellation of the device read is queued, under way or done.
THEOREM ExitCancels == Spec => []ExitMeansCancelling
BY Invariance, PTL DEF SingleInv

\* The device is cancelled only because of a signal or of a failed write.
THEOREM CancelHasCause == Spec => []CancelledForCause
BY Invariance, PTL DEF SingleInv

\* A return of run_serve_single leaves no thread and no running device behind.
THEOREM ReturnIsClean == Spec => []CleanReturn
<1>1. SingleInv => CleanReturn
  BY DEF SingleInv, CleanReturn, DeviceInv, JoinInv, ReadOver
<1> QED
  BY <1>1, Invariance, PTL

\* No IQ data precedes the magic packet.
THEOREM MagicComesFirst == Spec => []IqAfterMagic
BY Invariance, PTL DEF SingleInv
=============================================================================
