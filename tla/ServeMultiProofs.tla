-------------------------- MODULE ServeMultiProofs --------------------------
(***************************************************************************)
(* Proofs about ServeMulti for any set of masters, any finite set of       *)
(* slaves, every limit on slaves, with and without a key, and any number   *)
(* of signals and commands.                                                *)
(***************************************************************************)
EXTENDS ServeMulti, FiniteSetTheorems, TLAPS

\* A control thread that has not ended is the one the main thread waits for.
JoinInv == \A m \in Masters : ctl[m] \notin {"none", "done"} => m = cur /\ main = "join_ctl"

\* Who has a writer thread was accepted and registered; who is about to get one
\* has none yet.
StreamsInv ==
    /\ IsFiniteSet(taken)
    /\ \A c \in Clients : writer[c] # "none" => c \in taken \cap all_streams
    /\ main = "subscribe" => cur \in taken \cap all_streams /\ writer[cur] = "none"
    /\ slave # NoOne => slave \in taken \cap all_streams /\ writer[slave] = "none"

\* Whatever is on the way to stop the device has a signal behind it.
Stopping == {"try_send", "join_cancel", "join_reader", "shutdown", "return", "ok"}
CauseInv ==
    chan = 1 \/ cancel # "recv" \/ handler # "idle" \/ should_exit
        \/ main \in Stopping \/ dev = "cancelled" => signals > 0

\* What each join of the main thread has established.
ReturnInv ==
    /\ main \in {"join_reader", "shutdown", "return", "ok"} => cancel = "done"
    /\ main \in {"shutdown", "return", "ok"} => dev \in {"cancelled", "ended"}
    /\ cancel = "done" => should_exit

\* Who is taken has connected, and only registered streams are shut down.
ShutInv ==
    /\ \A c \in taken : peer[c] # "none"
    /\ shut \subseteq all_streams

\* Who was sent IQ data has, or had, a writer thread.
IqInv == \A c \in Clients : "iq" \in Carried(c) => writer[c] # "none"

\* After the shutdown of the registered streams: the acceptor registers at most one
\* more, and its writer thread finds the exit flag set.
Late == all_streams \ shut
LateInv ==
    main \in {"return", "ok"} =>
        /\ acceptor = "accept" => Late = {}
        /\ \A s \in Late :
            /\ s \in Slaves
            /\ writer[s] \in {"none", "loop", "done"}
            /\ "iq" \notin Carried(s)
            /\ \A t \in Late : s = t

\* A slave that is to be fed without having got the magic packet is beyond reach.
Dead(c) == peer[c] = "gone" \/ c \in shut
SlaveInv ==
    \A s \in Slaves :
        /\ wire[s] # << >> => wire[s][1] = "magic"
        /\ wire[s] = << >> /\ (writer[s] # "none" \/ (acceptor = "subscribe" /\ slave = s))
               => Dead(s)

\* Slaves that have been given a writer thread, whether or not it still runs.
Fed == {s \in Slaves : writer[s] # "none"}
LimitInv ==
    /\ count = Cardinality(Fed)
    /\ count <= MaxSlaves
    /\ acceptor \in {"accept", "magic", "subscribe"} => count < MaxSlaves

\* With a key: a cipher is made when the writer thread leaves its wait, and a
\* master's own nonces exist only after its magic packet.
NonceInv ==
    /\ main = "spawn_ctl" => wire[cur] # << >>
    /\ \A m \in Masters :
        /\ writer[m] \in {"none", "nonce"} <=> cipher[m] = NoOne
        /\ ctl[m] # "none" => wire[m] # << >>
        /\ nonces = m => ctl[m] # "none"
        /\ cipher[m] = m => wire[m] # << >>

\* The inductive invariant of the multi-client server.
MultiInv ==
    /\ TypeOK /\ JoinInv /\ StreamsInv /\ CauseInv /\ ReturnInv /\ LimitInv
    /\ ShutInv /\ IqInv /\ LateInv /\ SlaveInv
    /\ Key => NonceInv /\ EarlyOnlyUnderStaleNonce

-----------------------------------------------------------------------------
(* What each thread leaves alone *)

\* The main thread changes no other thread's place, and neither the exit flag nor
\* the device.
LEMMA MainFrame ==
    MainStep => UNCHANGED <<acceptor, slave, count, cancel, handler, should_exit, dev,
                            peer, pending, nonces, nlock, cipher, signals, cmds, missed>>
  BY DEF MainStep, OnlyMain, MainCheckExit, MainAcceptNothing, MainAcceptFails, MainAccept,
     MainRefuse, MainSubscribe, MainMagic, MainMagicFails, MainSpawnCtl, MainJoinCtl,
     MainTrySend, MainJoinCancel, MainJoinReader, MainShutdown, MainReturn, Put,
     conns, crypto, history, acceptorVars, stopVars, feedVars

\* The acceptor touches connections and writer threads only.
LEMMA AcceptorFrame ==
    AcceptorStep => UNCHANGED <<main, cur, cancel, handler, chan, should_exit, dev, peer,
                                shut, pending, ctl, nonces, nlock, cipher, signals, cmds,
                                missed>>
  BY DEF AcceptorStep, OnlyAcceptor, AcceptorCheck, AcceptorNothing, AcceptorRefuse,
     AcceptorAccept, AcceptorMagic, AcceptorSubscribe, Put,
     conns, crypto, history, mainVars, stopVars, feedVars

\* The device and its callback touch the channels only.
LEMMA DeviceFrame ==
    StartRead \/ DeviceBuffer \/ DeviceEnds =>
        UNCHANGED <<main, cur, acceptor, slave, count, cancel, handler, should_exit, peer,
                    taken, all_streams, shut, writer, ctl, nonces, nlock, cipher, wire,
                    signals, cmds, missed>>
  BY DEF StartRead, DeviceBuffer, DeviceEnds, DeviceGoes,
     conns, crypto, history, mainVars, acceptorVars, stopVars, feedVars

\* A writer thread stops nothing and stores no nonces.
LEMMA WriterFrame ==
    ASSUME NEW c, WriterStep(c)
    PROVE  UNCHANGED <<main, cur, acceptor, slave, count, cancel, handler, chan,
                       should_exit, dev, peer, taken, all_streams, shut, ctl, nonces,
                       signals, cmds, missed>>
  BY DEF WriterStep, WriterNonce, WriterPasses, WriterExits, WriterEmpty, WriterOk,
     WriterErr, NotWriter, Put, conns, history, mainVars, acceptorVars, stopVars

\* A control thread touches its own place, its socket and the nonces.
LEMMA CtlFrame ==
    ASSUME NEW m, CtlRead(m) \/ CtlStep(m)
    PROVE  /\ UNCHANGED <<main, cur, acceptor, slave, count, cancel, handler, chan,
                          should_exit, dev, peer, taken, all_streams, shut, writer,
                          pending, nlock, cipher, signals, missed>>
           /\ ctl[m] \notin {"none", "done"}
           /\ \E to \in CtlPoints \ {"none"} : ctl' = [ctl EXCEPT ![m] = to]
  BY DEF CtlRead, CtlStep, CtlEof, CtlCheckExit, CtlCommand, CtlChainDetect, CtlExchange,
     CtlExchangeFails, CtlStore, CtlGoes, NotCtl, Put, CtlPoints,
     conns, crypto, history, mainVars, acceptorVars, stopVars, feedVars

\* Stopping touches no connection and no other thread.
LEMMA StopFrame ==
    CancelStep \/ Signal \/ HandlerStep =>
        UNCHANGED <<main, cur, acceptor, slave, count, peer, taken, all_streams, shut,
                    writer, pending, ctl, nonces, nlock, cipher, wire, cmds>>
  BY DEF CancelStep, CancelRecv, CancelRead, CancelStore, Signal, HandlerStep, HandlerSend,
     HandlerStore, NotStopping, conns, crypto, mainVars, acceptorVars, feedVars

\* Clients change only their side of a connection.
LEMMA ClientFrame ==
    ClientStep =>
        UNCHANGED <<main, cur, acceptor, slave, count, cancel, handler, chan, should_exit,
                    dev, taken, all_streams, shut, writer, pending, ctl, nonces, nlock,
                    cipher, wire, signals, cmds, missed>>
  BY DEF ClientStep, Connect, PeerHalfCloses, PeerGone, PeerGoes,
     conns, crypto, history, mainVars, acceptorVars, stopVars, feedVars

\* What Put does to the wires: one grows at most, and keeps its first item if it
\* had one.
LEMMA PutWire ==
    ASSUME TypeOK, NEW c \in Clients, NEW kind \in {"magic", "iq", "ack", "nonce"},
           Put(c, kind)
    PROVE  /\ wire' \in [Clients -> Seq({"magic", "iq", "ack", "nonce"})]
           /\ \A d \in Clients \ {c} : wire'[d] = wire[d]
           /\ wire[c] # << >> => wire'[c] # << >> /\ wire'[c][1] = wire[c][1]
           /\ wire[c] = << >> /\ wire'[c] # << >> => wire'[c][1] = kind
           /\ Writable(c) => wire'[c] # << >>
           /\ \A d \in Clients : "iq" \in Carried(d)' => "iq" \in Carried(d) \/ (d = c /\ kind = "iq")
<1> DEFINE Kinds == {"magic", "iq", "ack", "nonce"}
<1>1. wire \in [Clients -> Seq(Kinds)] /\ wire[c] \in Seq(Kinds)
  BY DEF TypeOK
<1>2. CASE Writable(c) /\ kind \notin Carried(c)
  <2>1. wire' = [wire EXCEPT ![c] = Append(wire[c], kind)]
    BY <1>2 DEF Put
  <2>2. Append(wire[c], kind) \in Seq(Kinds) /\ Append(wire[c], kind) # << >>
    BY <1>1
  <2>3. Append(wire[c], kind)[1] = IF wire[c] = << >> THEN kind ELSE wire[c][1]
    BY <1>1
  <2>4. ASSUME NEW d \in Clients, "iq" \in Carried(d)'
        PROVE  "iq" \in Carried(d) \/ (d = c /\ kind = "iq")
    <3>1. CASE d = c
      <4>1. PICK i \in 1..Len(Append(wire[c], kind)) : Append(wire[c], kind)[i] = "iq"
        BY <1>1, <2>1, <2>4, <3>1 DEF Carried
      <4>2. (i \in 1..Len(wire[c]) /\ wire[c][i] = "iq") \/ kind = "iq"
        BY <1>1, <4>1
      <4> QED
        BY <3>1, <4>2 DEF Carried
    <3>2. CASE d # c
      BY <1>1, <2>1, <2>4, <3>2 DEF Carried
    <3> QED
      BY <3>1, <3>2
  <2> QED
    BY <1>1, <2>1, <2>2, <2>3, <2>4
<1>3. CASE ~(Writable(c) /\ kind \notin Carried(c))
  <2>1. wire' = wire
    BY <1>1, <1>3 DEF Put
  <2>2. Writable(c) => wire[c] # << >>
    BY <1>1, <1>3 DEF Carried
  <2>3. \A d \in Clients : Carried(d)' = Carried(d)
    BY <2>1 DEF Carried
  <2> QED
    BY <1>1, <2>1, <2>2, <2>3
<1> QED
  BY <1>2, <1>3

-----------------------------------------------------------------------------
(* The initial states *)

\* The initial states satisfy the inductive invariant.
LEMMA InitInv == Init => MultiInv
<1> SUFFICES ASSUME Init PROVE MultiInv
  OBVIOUS
<1>1. TypeOK
  <2>1. should_exit \in BOOLEAN /\ missed \in BOOLEAN
    BY Zenon DEF Init
  <2>2. << >> \in Seq({"magic", "iq", "ack", "nonce"})
    OBVIOUS
  <2> QED
    BY <2>1, <2>2, LimitsAssumption DEF Init, TypeOK, Peers, CtlPoints
<1>2. JoinInv /\ CauseInv /\ ReturnInv /\ ShutInv /\ LateInv
  BY DEF Init, JoinInv, CauseInv, Stopping, ReturnInv, ShutInv, LateInv
<1>3. StreamsInv
  BY FS_EmptySet DEF Init, StreamsInv
<1>4. LimitInv
  <2>1. Fed = {}
    BY DEF Init, Fed, Clients
  <2> QED
    BY <2>1, FS_EmptySet, LimitsAssumption DEF Init, LimitInv
<1>5. NonceInv /\ EarlyOnlyUnderStaleNonce
  BY PortsAssumption DEF Init, NonceInv, EarlyOnlyUnderStaleNonce, Clients
<1>6. IqInv /\ SlaveInv
  BY DEF Init, IqInv, Carried, SlaveInv, Clients
<1> QED
  BY <1>1, <1>2, <1>3, <1>4, <1>5, <1>6 DEF MultiInv

-----------------------------------------------------------------------------
(* Every step preserves each part of the invariant *)

\* Type correctness: the main thread.
LEMMA MainType == TypeOK /\ MainStep => TypeOK'
<1> SUFFICES ASSUME TypeOK, MainStep PROVE TypeOK'
  OBVIOUS
<1> USE DEF MainGoes, OnlyMain, conns, crypto, history, acceptorVars, stopVars, feedVars
<1>1. CASE MainCheckExit \/ MainAcceptNothing \/ MainAcceptFails \/ MainMagicFails
           \/ MainJoinCtl \/ MainJoinCancel \/ MainJoinReader \/ MainReturn
  BY <1>1 DEF TypeOK, Errors, MainCheckExit, MainAcceptNothing, MainAcceptFails,
     MainMagicFails, MainJoinCtl, MainJoinCancel, MainJoinReader, MainReturn
<1>2. ASSUME NEW m \in Masters, MainAccept(m) \/ MainRefuse(m) PROVE TypeOK'
  BY <1>2, PortsAssumption DEF TypeOK, Errors, MainAccept, MainRefuse, Clients
<1>3. CASE MainSubscribe
  <2>1. writer' \in [Clients -> {"none", "nonce", "loop", "write", "done"}]
    BY <1>3 DEF TypeOK, MainSubscribe
  <2> QED
    BY <1>3, <2>1 DEF TypeOK, MainSubscribe
<1>4. CASE MainMagic
  <2>1. cur \in Clients
    BY <1>4 DEF TypeOK, MainMagic, Clients
  <2>2. wire' \in [Clients -> Seq({"magic", "iq", "ack", "nonce"})]
    BY <1>4, <2>1, PutWire DEF MainMagic
  <2> QED
    BY <1>4, <2>2 DEF TypeOK, MainMagic, Put
<1>5. CASE MainSpawnCtl
  BY <1>5 DEF TypeOK, CtlPoints, MainSpawnCtl
<1>6. CASE MainTrySend
  BY <1>6 DEF TypeOK, MainTrySend, TrySend
<1>7. CASE MainShutdown
  BY <1>7 DEF TypeOK, MainShutdown
<1> QED
  BY <1>1, <1>2, <1>3, <1>4, <1>5, <1>6, <1>7 DEF MainStep

\* Type correctness: the slave acceptor.
LEMMA AcceptorType == TypeOK /\ AcceptorStep => TypeOK'
<1> SUFFICES ASSUME TypeOK, AcceptorStep PROVE TypeOK'
  OBVIOUS
<1> USE DEF AcceptorGoes, OnlyAcceptor, conns, crypto, history, mainVars, stopVars, feedVars
<1>1. CASE AcceptorCheck \/ AcceptorNothing
  BY <1>1 DEF TypeOK, AcceptorCheck, AcceptorNothing
<1>2. ASSUME NEW s \in Slaves, AcceptorRefuse(s) \/ AcceptorAccept(s) PROVE TypeOK'
  BY <1>2, PortsAssumption DEF TypeOK, AcceptorRefuse, AcceptorAccept, Clients
<1>3. CASE AcceptorMagic
  <2>1. slave \in Clients
    BY <1>3 DEF TypeOK, AcceptorMagic, Clients
  <2>2. wire' \in [Clients -> Seq({"magic", "iq", "ack", "nonce"})]
    BY <1>3, <2>1, PutWire DEF AcceptorMagic
  <2> QED
    BY <1>3, <2>2 DEF TypeOK, AcceptorMagic, Put
<1>4. CASE AcceptorSubscribe
  <2>1. writer' \in [Clients -> {"none", "nonce", "loop", "write", "done"}]
    BY <1>4 DEF TypeOK, AcceptorSubscribe
  <2> QED
    BY <1>4, <2>1 DEF TypeOK, AcceptorSubscribe
<1> QED
  BY <1>1, <1>2, <1>3, <1>4 DEF AcceptorStep

\* Type correctness: the writer threads.
LEMMA WriterType ==
    ASSUME TypeOK, NEW c \in Clients, WriterStep(c)
    PROVE  TypeOK'
<1> USE DEF AtWriter, WriterGoes, NotWriter, conns, crypto, history, mainVars,
            acceptorVars, stopVars, feedVars
<1>0. writer' \in [Clients -> {"none", "nonce", "loop", "write", "done"}]
  <2>1. PICK to \in {"loop", "write", "done"} : writer' = [writer EXCEPT ![c] = to]
    BY DEF WriterStep, WriterNonce, WriterPasses, WriterExits, WriterEmpty, WriterOk,
       WriterErr, WriterEnds
  <2> QED
    BY <2>1 DEF TypeOK
<1>1. CASE c \in Masters /\ WriterNonce(c)
  BY <1>0, <1>1 DEF TypeOK, WriterNonce
<1>2. CASE WriterPasses(c) \/ WriterEmpty(c)
  BY <1>0, <1>2 DEF TypeOK, WriterPasses, WriterEmpty
<1>3. CASE WriterExits(c) \/ WriterErr(c)
  BY <1>0, <1>3 DEF TypeOK, WriterExits, WriterErr, WriterEnds
<1>4. CASE WriterOk(c)
  <2>1. wire' \in [Clients -> Seq({"magic", "iq", "ack", "nonce"})]
    BY <1>4, PutWire DEF WriterOk
  <2> QED
    BY <1>0, <1>4, <2>1 DEF TypeOK, WriterOk, Put
<1> QED
  BY <1>1, <1>2, <1>3, <1>4 DEF WriterStep

\* Type correctness: the control threads.
LEMMA CtlType ==
    ASSUME TypeOK, NEW m \in Masters, CtlRead(m) \/ CtlStep(m)
    PROVE  TypeOK'
<1>1. ctl' \in [Masters -> CtlPoints]
  BY CtlFrame DEF TypeOK
<1>2. cmds' \in 0..MaxCmds
  BY LimitsAssumption DEF TypeOK, CtlRead, CtlStep, CtlEof, CtlCheckExit, CtlCommand,
     CtlChainDetect, CtlExchange, CtlExchangeFails, CtlStore, history
<1>3. nonces' \in Masters \cup {NoOne}
  BY DEF TypeOK, CtlRead, CtlStep, CtlEof, CtlCheckExit, CtlCommand,
     CtlChainDetect, CtlExchange, CtlExchangeFails, CtlStore, crypto
<1>4. wire' \in [Clients -> Seq({"magic", "iq", "ack", "nonce"})]
  <2>1. wire' = wire \/ Put(m, "ack") \/ Put(m, "nonce")
    BY DEF CtlRead, CtlStep, CtlEof, CtlCheckExit, CtlCommand,
       CtlChainDetect, CtlExchange, CtlExchangeFails, CtlStore, conns
  <2>2. m \in Clients
    BY DEF Clients
  <2>3. CASE wire' = wire
    BY <2>3 DEF TypeOK
  <2> QED
    BY <2>1, <2>2, <2>3, PutWire
<1> QED
  BY <1>1, <1>2, <1>3, <1>4, CtlFrame DEF TypeOK

\* Type correctness: the device, the signal handler and the cancel thread, and
\* clients.
LEMMA OtherType ==
    ASSUME TypeOK,
           \/ StartRead \/ DeviceBuffer \/ DeviceEnds
           \/ CancelStep \/ Signal \/ HandlerStep \/ ClientStep
    PROVE  TypeOK'
<1>1. CASE StartRead \/ DeviceBuffer \/ DeviceEnds
  <2>1. chan' \in {0, 1} /\ pending' \subseteq Clients
        /\ dev' \in {"ready", "running", "cancelled", "ended"}
    BY <1>1 DEF TypeOK, StartRead, DeviceBuffer, DeviceEnds, DeviceGoes, TrySend, Live,
       stopVars, feedVars
  <2> QED
    BY <1>1, <2>1, DeviceFrame DEF TypeOK
<1>2. CASE CancelStep \/ Signal \/ HandlerStep
  <2>1. /\ cancel' \in {"recv", "cancel", "store", "done"}
        /\ handler' \in {"idle", "send", "store"}
        /\ chan' \in {0, 1}
        /\ dev' \in {"ready", "running", "cancelled", "ended"}
        /\ signals' \in 0..MaxSignals
    BY <1>2, LimitsAssumption DEF TypeOK, CancelStep, CancelRecv, CancelRead, CancelStore,
       CancelGoes, Signal, HandlerStep, HandlerSend, HandlerStore, HandlerGoes, TrySend
  <2>2. should_exit' \in BOOLEAN
    <3>1. should_exit' = TRUE \/ should_exit' = should_exit
      BY <1>2 DEF CancelStep, CancelRecv, CancelRead, CancelStore,
         Signal, HandlerStep, HandlerSend, HandlerStore
    <3> QED
      BY <3>1, Zenon DEF TypeOK
  <2>3. missed' \in BOOLEAN
    <3>1. missed' = missed \/ missed' = (missed \/ dev = "ready")
      BY <1>2 DEF CancelStep, CancelRecv, CancelRead, CancelStore,
         Signal, HandlerStep, HandlerSend, HandlerStore
    <3> QED
      BY <3>1, Zenon DEF TypeOK
  <2> QED
    BY <1>2, <2>1, <2>2, <2>3, StopFrame DEF TypeOK
<1>3. CASE ClientStep
  <2>1. peer' \in [Clients -> Peers]
    BY <1>3 DEF TypeOK, Peers, Clients, ClientStep, Connect, PeerHalfCloses, PeerGone,
       PeerGoes
  <2> QED
    BY <1>3, <2>1, ClientFrame DEF TypeOK
<1> QED
  BY <1>1, <1>2, <1>3

\* Type correctness is preserved.
LEMMA TypeNext == TypeOK /\ [Next]_vars => TypeOK'
<1> SUFFICES ASSUME TypeOK, [Next]_vars PROVE TypeOK'
  OBVIOUS
<1>1. CASE UNCHANGED vars
  BY <1>1 DEF TypeOK, vars
<1> QED
  BY <1>1, MainType, AcceptorType, WriterType, CtlType, OtherType DEF Next, Stopped

\* Only the main thread starts a control thread, and it then waits for it.
LEMMA JoinNext == TypeOK /\ JoinInv /\ [Next]_vars => JoinInv'
<1> SUFFICES ASSUME TypeOK, JoinInv, [Next]_vars PROVE JoinInv'
  OBVIOUS
<1>1. CASE MainStep
  <2>1. CASE MainJoinCtl
    BY <2>1 DEF TypeOK, JoinInv, MainJoinCtl, MainGoes, OnlyMain
  <2>2. CASE MainSpawnCtl
    BY <2>2 DEF TypeOK, JoinInv, MainSpawnCtl, MainGoes
  <2>3. CASE ~MainJoinCtl /\ ~MainSpawnCtl
    <3>1. main # "join_ctl" /\ ctl' = ctl
      BY <1>1, <2>3 DEF MainStep, MainGoes, OnlyMain, MainCheckExit, MainAcceptNothing,
         MainAcceptFails, MainAccept, MainRefuse, MainSubscribe, MainMagic, MainMagicFails,
         MainTrySend, MainJoinCancel, MainJoinReader, MainShutdown, MainReturn
    <3> QED
      BY <3>1 DEF JoinInv
  <2> QED
    BY <2>1, <2>2, <2>3
<1>2. ASSUME NEW m \in Masters, CtlRead(m) \/ CtlStep(m) PROVE JoinInv'
  <2>1. /\ ctl[m] \notin {"none", "done"}
        /\ \E to : ctl' = [ctl EXCEPT ![m] = to]
        /\ UNCHANGED <<main, cur>>
    BY <1>2, CtlFrame
  <2> QED
    BY <2>1 DEF TypeOK, JoinInv
<1>3. CASE UNCHANGED <<main, cur, ctl>>
  BY <1>3 DEF JoinInv
<1>4. ASSUME NEW c \in Clients, WriterStep(c) PROVE UNCHANGED <<main, cur, ctl>>
  BY <1>4, WriterFrame
<1>5. UNCHANGED vars => UNCHANGED <<main, cur, ctl>>
  BY DEF vars
<1> QED
  BY <1>1, <1>2, <1>3, <1>4, <1>5, AcceptorFrame, DeviceFrame, StopFrame, ClientFrame
  DEF Next, Stopped

\* Writer threads go to connections that were accepted, registered and have none.
LEMMA StreamsNext == TypeOK /\ StreamsInv /\ [Next]_vars => StreamsInv'
<1> SUFFICES ASSUME TypeOK, StreamsInv, [Next]_vars PROVE StreamsInv'
  OBVIOUS
<1>1. CASE MainStep
  <2>1. slave' = slave
    BY <1>1, MainFrame
  <2>2. ASSUME NEW m \in Masters, MainAccept(m) PROVE StreamsInv'
    <3>1. /\ taken' = taken \cup {m} /\ all_streams' = all_streams \cup {m}
          /\ main' = "subscribe" /\ cur' = m /\ writer' = writer /\ m \notin taken
      BY <2>2 DEF MainAccept, MainGoes, Backlog, feedVars
    <3>2. IsFiniteSet(taken')
      BY <3>1, FS_AddElement DEF StreamsInv
    <3>3. writer[m] = "none" /\ m \in Clients
      BY <3>1 DEF StreamsInv, Clients
    <3> QED
      BY <2>1, <3>1, <3>2, <3>3 DEF StreamsInv
  <2>3. CASE MainSubscribe
    <3>1. /\ cur \in Masters /\ main = "subscribe" /\ main' = "magic"
          /\ UNCHANGED <<taken, all_streams>>
          /\ \E to : writer' = [writer EXCEPT ![cur] = to]
      BY <2>3 DEF TypeOK, MainSubscribe, MainGoes, conns
    <3>2. cur # slave /\ slave \in Clients \cup {NoOne} /\ cur \in Clients
      BY <3>1, PortsAssumption DEF TypeOK, Clients
    <3> QED
      BY <2>1, <3>1, <3>2 DEF TypeOK, StreamsInv
  <2>4. CASE UNCHANGED <<taken, all_streams, writer>> /\ main' # "subscribe"
    BY <2>1, <2>4 DEF StreamsInv
  <2>5. MainSubscribe \/ (\E m \in Masters : MainAccept(m))
        \/ (UNCHANGED <<taken, all_streams, writer>> /\ main' # "subscribe")
    BY <1>1 DEF MainStep, MainGoes, OnlyMain, MainCheckExit, MainAcceptNothing,
       MainAcceptFails, MainRefuse, MainMagic, MainMagicFails, MainSpawnCtl, MainJoinCtl,
       MainTrySend, MainJoinCancel, MainJoinReader, MainShutdown, MainReturn, Put, conns, feedVars
  <2> QED
    BY <2>2, <2>3, <2>4, <2>5
<1>2. CASE AcceptorStep
  <2>1. UNCHANGED <<main, cur>>
    BY <1>2, AcceptorFrame
  <2>2. ASSUME NEW s \in Slaves, AcceptorAccept(s) PROVE StreamsInv'
    <3>1. /\ taken' = taken \cup {s} /\ all_streams' = all_streams \cup {s}
          /\ slave' = s /\ writer' = writer /\ s \notin taken
      BY <2>2 DEF AcceptorAccept, AcceptorGoes, Backlog, feedVars
    <3>2. IsFiniteSet(taken')
      BY <3>1, FS_AddElement DEF StreamsInv
    <3>3. writer[s] = "none" /\ s \in Clients
      BY <3>1 DEF StreamsInv, Clients
    <3> QED
      BY <2>1, <3>1, <3>2, <3>3 DEF StreamsInv
  <2>3. ASSUME NEW s \in Slaves, AcceptorRefuse(s) PROVE StreamsInv'
    <3>1. taken' = taken \cup {s} /\ UNCHANGED <<all_streams, slave, writer>>
      BY <2>3 DEF AcceptorRefuse, feedVars
    <3>2. IsFiniteSet(taken')
      BY <3>1, FS_AddElement DEF StreamsInv
    <3> QED
      BY <2>1, <3>1, <3>2 DEF StreamsInv
  <2>4. CASE AcceptorSubscribe
    <3>1. /\ slave \in Slaves /\ slave' = NoOne
          /\ writer' = [writer EXCEPT ![slave] = "loop"]
          /\ UNCHANGED <<taken, all_streams>>
      BY <2>4 DEF TypeOK, AcceptorSubscribe, AcceptorGoes, conns
    <3>2. cur # slave /\ slave # NoOne
      BY <3>1, PortsAssumption DEF TypeOK, Clients
    <3>3. main = "subscribe" => cur \in Clients
      BY DEF TypeOK, Clients
    <3> QED
      BY <2>1, <3>1, <3>2, <3>3 DEF TypeOK, StreamsInv
  <2>5. CASE AcceptorCheck \/ AcceptorNothing \/ AcceptorMagic
    <3>1. UNCHANGED <<taken, all_streams, slave, writer>>
      BY <2>5 DEF AcceptorCheck, AcceptorNothing, AcceptorMagic, OnlyAcceptor, Put, conns,
         feedVars
    <3> QED
      BY <2>1, <3>1 DEF StreamsInv
  <2> QED
    BY <1>2, <2>2, <2>3, <2>4, <2>5 DEF AcceptorStep
<1>3. ASSUME NEW c \in Clients, WriterStep(c) PROVE StreamsInv'
  <2>1. UNCHANGED <<main, cur, slave, taken, all_streams>>
    BY <1>3, WriterFrame
  <2>2. writer[c] # "none" /\ \E to : writer' = [writer EXCEPT ![c] = to]
    BY <1>3 DEF WriterStep, WriterNonce, WriterPasses, WriterExits, WriterEmpty, WriterOk,
       WriterErr, WriterEnds, WriterGoes, AtWriter
  <2> QED
    BY <2>1, <2>2 DEF TypeOK, StreamsInv
<1>4. ASSUME NEW m \in Masters, CtlRead(m) \/ CtlStep(m)
      PROVE  UNCHANGED <<main, cur, slave, taken, all_streams, writer>>
  BY <1>4, CtlFrame
<1>5. UNCHANGED vars => UNCHANGED <<main, cur, slave, taken, all_streams, writer>>
  BY DEF vars
<1>6. CASE UNCHANGED <<main, cur, slave, taken, all_streams, writer>>
  BY <1>6 DEF StreamsInv
<1> QED
  BY <1>1, <1>2, <1>3, <1>4, <1>5, <1>6, DeviceFrame, StopFrame, ClientFrame
  DEF Next, Stopped

\* The callback never finds the channel without a receiver.
LEMMA ReceiverHeld == TypeOK /\ StreamsInv => Receivers # 0
<1> SUFFICES ASSUME TypeOK, StreamsInv PROVE Receivers # 0
  OBVIOUS
<1>1. Live \in SUBSET taken
  BY DEF Live, StreamsInv
<1>2. Cardinality(Live) \in Nat
  BY <1>1, FS_Subset, FS_CardinalityType DEF StreamsInv
<1> QED
  BY <1>2 DEF Receivers

\* Nothing but a signal starts the way to a cancellation.
LEMMA CauseNext == TypeOK /\ StreamsInv /\ CauseInv /\ [Next]_vars => CauseInv'
<1> SUFFICES ASSUME TypeOK, StreamsInv, CauseInv, [Next]_vars PROVE CauseInv'
  OBVIOUS
<1>1. CASE MainStep
  <2>1. UNCHANGED <<cancel, handler, should_exit, dev, signals>>
    BY <1>1, MainFrame
  <2>2. chan' = chan \/ main \in Stopping
    BY <1>1 DEF MainStep, MainGoes, OnlyMain, MainCheckExit, MainAcceptNothing,
       MainAcceptFails, MainAccept, MainRefuse, MainSubscribe, MainMagic, MainMagicFails,
       MainSpawnCtl, MainJoinCtl, MainTrySend, MainJoinCancel, MainJoinReader,
       MainShutdown, MainReturn, stopVars, Stopping
  <2>3. main' \in Stopping => main \in Stopping \/ should_exit
    BY <1>1 DEF MainStep, MainGoes, MainCheckExit, MainAcceptNothing,
       MainAcceptFails, MainAccept, MainRefuse, MainSubscribe, MainMagic, MainMagicFails,
       MainSpawnCtl, MainJoinCtl, MainTrySend, MainJoinCancel, MainJoinReader,
       MainShutdown, MainReturn, Stopping
  <2> QED
    BY <2>1, <2>2, <2>3 DEF CauseInv
<1>2. CASE StartRead \/ DeviceBuffer \/ DeviceEnds
  <2>1. UNCHANGED <<main, cancel, handler, should_exit, signals>>
    BY <1>2, DeviceFrame
  <2>2. chan' = chan
    BY <1>2, ReceiverHeld DEF StartRead, DeviceBuffer, DeviceEnds, DeviceGoes, stopVars
  <2>3. dev' = "cancelled" => dev = "cancelled"
    BY <1>2 DEF StartRead, DeviceBuffer, DeviceEnds, DeviceGoes
  <2> QED
    BY <2>1, <2>2, <2>3 DEF CauseInv
<1>3. CASE CancelStep \/ HandlerStep
  <2>1. main' = main /\ signals' = signals
    BY <1>3, StopFrame DEF CancelStep, CancelRecv, CancelRead, CancelStore, HandlerStep,
       HandlerSend, HandlerStore
  <2>2. signals > 0
    BY <1>3 DEF CauseInv, CancelStep, CancelRecv, CancelRead, CancelStore, CancelGoes,
       HandlerStep, HandlerSend, HandlerStore, HandlerGoes
  <2> QED
    BY <2>1, <2>2 DEF CauseInv
<1>4. CASE Signal
  BY <1>4 DEF TypeOK, CauseInv, Signal
<1>5. CASE UNCHANGED <<main, cancel, handler, chan, should_exit, dev, signals>>
  BY <1>5 DEF CauseInv
<1>6. ASSUME NEW c \in Clients, WriterStep(c)
      PROVE  UNCHANGED <<main, cancel, handler, chan, should_exit, dev, signals>>
  BY <1>6, WriterFrame
<1>7. ASSUME NEW m \in Masters, CtlRead(m) \/ CtlStep(m)
      PROVE  UNCHANGED <<main, cancel, handler, chan, should_exit, dev, signals>>
  BY <1>7, CtlFrame
<1>8. UNCHANGED vars => UNCHANGED <<main, cancel, handler, chan, should_exit, dev, signals>>
  BY DEF vars
<1> QED
  BY <1>1, <1>2, <1>3, <1>4, <1>5, <1>6, <1>7, <1>8, AcceptorFrame, ClientFrame
  DEF Next, Stopped

\* What the joins of the main thread have established stays so.
LEMMA ReturnNext == TypeOK /\ ReturnInv /\ [Next]_vars => ReturnInv'
<1> SUFFICES ASSUME TypeOK, ReturnInv, [Next]_vars PROVE ReturnInv'
  OBVIOUS
<1>1. CASE MainStep
  <2>1. UNCHANGED <<cancel, dev, should_exit>>
    BY <1>1, MainFrame
  <2>2. main' \in {"join_reader", "shutdown", "return", "ok"} =>
            cancel = "done" \/ main \in {"join_reader", "shutdown", "return", "ok"}
    BY <1>1 DEF MainStep, MainGoes, MainCheckExit, MainAcceptNothing,
       MainAcceptFails, MainAccept, MainRefuse, MainSubscribe, MainMagic, MainMagicFails,
       MainSpawnCtl, MainJoinCtl, MainTrySend, MainJoinCancel, MainJoinReader, MainShutdown, MainReturn
  <2>3. main' \in {"shutdown", "return", "ok"} =>
            dev \in {"cancelled", "ended"} \/ main \in {"shutdown", "return", "ok"}
    BY <1>1 DEF MainStep, MainGoes, MainCheckExit, MainAcceptNothing,
       MainAcceptFails, MainAccept, MainRefuse, MainSubscribe, MainMagic, MainMagicFails,
       MainSpawnCtl, MainJoinCtl, MainTrySend, MainJoinCancel, MainJoinReader, MainShutdown, MainReturn
  <2> QED
    BY <2>1, <2>2, <2>3 DEF ReturnInv
<1>2. CASE StartRead \/ DeviceBuffer \/ DeviceEnds
  <2>1. UNCHANGED <<main, cancel, should_exit>>
    BY <1>2, DeviceFrame
  <2>2. dev \in {"cancelled", "ended"} => dev' = dev
    BY <1>2 DEF StartRead, DeviceBuffer, DeviceEnds, DeviceGoes
  <2> QED
    BY <2>1, <2>2 DEF ReturnInv
<1>3. CASE CancelStep \/ Signal \/ HandlerStep
  <2>1. main' = main
    BY <1>3, StopFrame
  <2>2. /\ dev \in {"cancelled", "ended"} => dev' = dev
        /\ cancel = "done" => cancel' = cancel
        /\ should_exit => should_exit'
        /\ cancel' = "done" => cancel = "done" \/ should_exit'
    BY <1>3 DEF CancelStep, CancelRecv, CancelRead, CancelStore, CancelGoes, Signal,
       HandlerStep, HandlerSend, HandlerStore
  <2> QED
    BY <2>1, <2>2 DEF ReturnInv
<1>4. CASE UNCHANGED <<main, cancel, dev, should_exit>>
  BY <1>4 DEF ReturnInv
<1>5. ASSUME NEW c \in Clients, WriterStep(c)
      PROVE  UNCHANGED <<main, cancel, dev, should_exit>>
  BY <1>5, WriterFrame
<1>6. ASSUME NEW m \in Masters, CtlRead(m) \/ CtlStep(m)
      PROVE  UNCHANGED <<main, cancel, dev, should_exit>>
  BY <1>6, CtlFrame
<1>7. UNCHANGED vars => UNCHANGED <<main, cancel, dev, should_exit>>
  BY DEF vars
<1> QED
  BY <1>1, <1>2, <1>3, <1>4, <1>5, <1>6, <1>7, AcceptorFrame, ClientFrame
  DEF Next, Stopped

\* Connections stay connected or gone, and streams registered.
LEMMA ShutNext == TypeOK /\ StreamsInv /\ ShutInv /\ [Next]_vars => ShutInv'
<1> SUFFICES ASSUME TypeOK, StreamsInv, ShutInv, [Next]_vars PROVE ShutInv'
  OBVIOUS
<1>1. CASE MainStep
  <2>1. peer' = peer
    BY <1>1, MainFrame
  <2>2. ASSUME NEW m \in Masters, MainAccept(m) PROVE ShutInv'
    BY <2>1, <2>2 DEF ShutInv, MainAccept, Backlog
  <2>3. CASE MainShutdown
    BY <2>1, <2>3 DEF ShutInv, MainShutdown
  <2>4. CASE UNCHANGED <<taken, all_streams, shut>>
    BY <2>1, <2>4 DEF ShutInv
  <2>5. MainShutdown \/ (\E m \in Masters : MainAccept(m))
        \/ UNCHANGED <<taken, all_streams, shut>>
    BY <1>1 DEF MainStep, OnlyMain, MainCheckExit, MainAcceptNothing, MainAcceptFails,
       MainRefuse, MainSubscribe, MainMagic, MainMagicFails, MainSpawnCtl, MainJoinCtl,
       MainTrySend, MainJoinCancel, MainJoinReader, MainReturn, Put, conns
  <2> QED
    BY <2>2, <2>3, <2>4, <2>5
<1>2. CASE AcceptorStep
  <2>1. peer' = peer /\ shut' = shut
    BY <1>2, AcceptorFrame
  <2>2. ASSUME NEW s \in Slaves, AcceptorAccept(s) \/ AcceptorRefuse(s) PROVE ShutInv'
    BY <2>1, <2>2 DEF ShutInv, AcceptorAccept, AcceptorRefuse, Backlog
  <2>3. CASE UNCHANGED <<taken, all_streams>>
    BY <2>1, <2>3 DEF ShutInv
  <2> QED
    BY <1>2, <2>2, <2>3 DEF AcceptorStep, OnlyAcceptor, AcceptorCheck, AcceptorNothing,
       AcceptorMagic, AcceptorSubscribe, Put, conns
<1>3. CASE ClientStep
  <2>1. UNCHANGED <<taken, all_streams, shut>>
    BY <1>3, ClientFrame
  <2>2. \A c \in Clients : peer[c] # "none" => peer'[c] # "none"
    BY <1>3 DEF TypeOK, Clients, ClientStep, Connect, PeerHalfCloses, PeerGone, PeerGoes
  <2> QED
    BY <2>1, <2>2 DEF TypeOK, ShutInv
<1>4. CASE UNCHANGED <<peer, taken, all_streams, shut>>
  BY <1>4 DEF ShutInv
<1>5. ASSUME NEW c \in Clients, WriterStep(c) PROVE UNCHANGED <<peer, taken, all_streams, shut>>
  BY <1>5, WriterFrame
<1>6. ASSUME NEW m \in Masters, CtlRead(m) \/ CtlStep(m)
      PROVE  UNCHANGED <<peer, taken, all_streams, shut>>
  BY <1>6, CtlFrame
<1>7. UNCHANGED vars => UNCHANGED <<peer, taken, all_streams, shut>>
  BY DEF vars
<1> QED
  BY <1>1, <1>2, <1>3, <1>4, <1>5, <1>6, <1>7, DeviceFrame, StopFrame DEF Next, Stopped

\* What a step does to the wires: it leaves them alone, or one client is sent an
\* item, IQ data only by its writer thread.
LEMMA WireStep ==
    ASSUME TypeOK, [Next]_vars
    PROVE  \/ wire' = wire
           \/ \E m \in Masters : Put(m, "magic") \/ Put(m, "ack") \/ Put(m, "nonce")
           \/ slave \in Slaves /\ acceptor = "magic" /\ AcceptorMagic /\ Put(slave, "magic")
           \/ \E c \in Clients : WriterOk(c) /\ Put(c, "iq")
<1>1. CASE MainStep
  <2>1. MainMagic => cur \in Masters /\ Put(cur, "magic")
    BY DEF TypeOK, MainMagic, MainGoes
  <2> QED
    BY <1>1, <2>1 DEF MainStep, OnlyMain, MainCheckExit, MainAcceptNothing, MainAcceptFails,
       MainAccept, MainRefuse, MainSubscribe, MainMagicFails, MainSpawnCtl, MainJoinCtl,
       MainTrySend, MainJoinCancel, MainJoinReader, MainShutdown, MainReturn, conns
<1>2. CASE AcceptorStep
  BY <1>2 DEF TypeOK, AcceptorStep, AcceptorGoes, OnlyAcceptor, AcceptorCheck,
     AcceptorNothing, AcceptorRefuse, AcceptorAccept, AcceptorMagic, AcceptorSubscribe, conns
<1>3. ASSUME NEW c \in Clients, WriterStep(c)
      PROVE  wire' = wire \/ (WriterOk(c) /\ Put(c, "iq"))
  BY <1>3 DEF WriterStep, WriterNonce, WriterPasses, WriterExits, WriterEmpty, WriterOk,
     WriterErr, conns
<1>4. ASSUME NEW m \in Masters, CtlRead(m) \/ CtlStep(m)
      PROVE  wire' = wire \/ Put(m, "ack") \/ Put(m, "nonce")
  BY <1>4 DEF CtlRead, CtlStep, CtlEof, CtlCheckExit, CtlCommand,
     CtlChainDetect, CtlExchange, CtlExchangeFails, CtlStore, conns
<1>5. UNCHANGED vars => wire' = wire
  BY DEF vars
<1> QED
  BY <1>1, <1>2, <1>3, <1>4, <1>5, DeviceFrame, StopFrame, ClientFrame DEF Next, Stopped

\* IQ data is put on a wire by the writer thread of that client only.
LEMMA IqByWriter ==
    ASSUME TypeOK, [Next]_vars, NEW d \in Clients, "iq" \in Carried(d)'
    PROVE  "iq" \in Carried(d) \/ WriterOk(d)
<1>1. CASE wire' = wire
  BY <1>1 DEF Carried
<1>2. ASSUME NEW m \in Masters, Put(m, "magic") \/ Put(m, "ack") \/ Put(m, "nonce")
      PROVE  "iq" \in Carried(d)
  <2>1. m \in Clients
    BY DEF Clients
  <2>2. PICK kind \in {"magic", "ack", "nonce"} : Put(m, kind)
    BY <1>2
  <2> QED
    BY <2>1, <2>2, PutWire
<1>3. CASE slave \in Slaves /\ Put(slave, "magic")
  <2>1. slave \in Clients
    BY <1>3 DEF Clients
  <2> QED
    BY <1>3, <2>1, PutWire
<1>4. ASSUME NEW c \in Clients, WriterOk(c) /\ Put(c, "iq")
      PROVE  "iq" \in Carried(d) \/ WriterOk(d)
  <2>1. "iq" \in Carried(d) \/ d = c
    BY <1>4, PutWire
  <2> QED
    BY <1>4, <2>1
<1> QED
  BY <1>1, <1>2, <1>3, <1>4, WireStep

\* Who has a writer thread keeps it, if only as one that has ended.
LEMMA WriterKept ==
    ASSUME TypeOK, StreamsInv, [Next]_vars, NEW c \in Clients, writer[c] # "none"
    PROVE  writer'[c] # "none"
<1>1. CASE MainStep
  BY <1>1 DEF TypeOK, MainStep, OnlyMain, MainCheckExit, MainAcceptNothing, MainAcceptFails,
     MainAccept, MainRefuse, MainSubscribe, MainMagic, MainMagicFails, MainSpawnCtl,
     MainJoinCtl, MainTrySend, MainJoinCancel, MainJoinReader, MainShutdown, MainReturn,
     feedVars
<1>2. CASE AcceptorStep
  BY <1>2 DEF TypeOK, AcceptorStep, OnlyAcceptor, AcceptorCheck, AcceptorNothing,
     AcceptorRefuse, AcceptorAccept, AcceptorMagic, AcceptorSubscribe, feedVars
<1>3. ASSUME NEW d \in Clients, WriterStep(d) PROVE writer'[c] # "none"
  <2>1. PICK to \in {"loop", "write", "done"} : writer' = [writer EXCEPT ![d] = to]
    BY <1>3 DEF WriterStep, WriterNonce, WriterPasses, WriterExits, WriterEmpty, WriterOk,
       WriterErr, WriterEnds, WriterGoes
  <2> QED
    BY <2>1 DEF TypeOK
<1>4. ASSUME NEW m \in Masters, CtlRead(m) \/ CtlStep(m) PROVE writer' = writer
  BY <1>4, CtlFrame
<1>5. UNCHANGED vars => writer' = writer
  BY DEF vars
<1> QED
  BY <1>1, <1>2, <1>3, <1>4, <1>5, DeviceFrame, StopFrame, ClientFrame DEF Next, Stopped

\* Only clients with a writer thread are sent IQ data.
LEMMA IqNext ==
    ASSUME TypeOK, StreamsInv, IqInv, [Next]_vars
    PROVE  IqInv'
<1> SUFFICES ASSUME NEW c \in Clients, "iq" \in Carried(c)' PROVE writer'[c] # "none"
  BY DEF IqInv
<1>1. "iq" \in Carried(c) \/ WriterOk(c)
  BY IqByWriter
<1>2. writer[c] # "none"
  BY <1>1 DEF IqInv, WriterOk, AtWriter
<1> QED
  BY <1>2, WriterKept

\* After the shutdown of the registered streams at most one slave comes late, and
\* it is sent no IQ data.
LEMMA LateNext ==
    ASSUME TypeOK, StreamsInv, ReturnInv, ShutInv, IqInv, LateInv, [Next]_vars
    PROVE  LateInv'
<1> SUFFICES ASSUME main' \in {"return", "ok"} PROVE LateInv'
  BY DEF LateInv
<1>1. CASE MainShutdown
  <2>1. Late' = {}
    BY <1>1 DEF MainShutdown, Late
  <2> QED
    BY <2>1 DEF LateInv
<1>2. CASE ~MainShutdown
  <2>1. main \in {"return", "ok"} /\ shut' = shut
    <3>1. CASE MainStep
      BY <1>2, <3>1 DEF MainStep, MainGoes, OnlyMain, Errors, MainCheckExit, MainAcceptNothing,
         MainAcceptFails, MainAccept, MainRefuse, MainSubscribe, MainMagic, MainMagicFails,
         MainSpawnCtl, MainJoinCtl, MainTrySend, MainJoinCancel, MainJoinReader, MainReturn,
         Put, conns
    <3>2. CASE UNCHANGED <<main, shut>>
      BY <3>2
    <3>3. ASSUME NEW c \in Clients, WriterStep(c) PROVE UNCHANGED <<main, shut>>
      BY <3>3, WriterFrame
    <3>4. ASSUME NEW m \in Masters, CtlRead(m) \/ CtlStep(m) PROVE UNCHANGED <<main, shut>>
      BY <3>4, CtlFrame
    <3>5. UNCHANGED vars => UNCHANGED <<main, shut>>
      BY DEF vars
    <3> QED
      BY <3>1, <3>2, <3>3, <3>4, <3>5, AcceptorFrame, DeviceFrame, StopFrame, ClientFrame
      DEF Next, Stopped
  <2>2. should_exit
    BY <2>1 DEF ReturnInv
  <2>3. /\ acceptor = "accept" => Late = {}
        /\ \A s \in Late : /\ s \in Slaves
                           /\ writer[s] \in {"none", "loop", "done"}
                           /\ "iq" \notin Carried(s)
                           /\ \A t \in Late : s = t
    BY <2>1 DEF LateInv
  <2>4. ASSUME NEW s \in Late
        PROVE  /\ "iq" \notin Carried(s)'
               /\ writer'[s] \in {"none", "loop", "done"}
    <3>1. s \in Clients /\ s \notin Masters
      BY <2>3, PortsAssumption DEF Clients
    <3>2. ~WriterOk(s)
      BY <2>3 DEF WriterOk, AtWriter
    <3>3. "iq" \notin Carried(s)'
      BY <2>3, <3>1, <3>2, IqByWriter
    <3>4. writer'[s] \in {"none", "loop", "done"}
      <4>1. CASE MainStep
        BY <2>1, <2>3, <4>1 DEF MainStep, MainGoes, OnlyMain, MainCheckExit,
           MainAcceptNothing, MainAcceptFails, MainAccept, MainRefuse, MainSubscribe,
           MainMagic, MainMagicFails, MainSpawnCtl, MainJoinCtl, MainTrySend, MainJoinCancel,
           MainJoinReader, MainShutdown, MainReturn, feedVars
      <4>2. CASE AcceptorStep
        BY <2>3, <3>1, <4>2 DEF TypeOK, AcceptorStep, OnlyAcceptor, AcceptorCheck,
           AcceptorNothing, AcceptorRefuse, AcceptorAccept, AcceptorMagic,
           AcceptorSubscribe, feedVars
      <4>3. ASSUME NEW d \in Clients, WriterStep(d)
            PROVE  writer'[s] \in {"none", "loop", "done"}
        <5>1. CASE d = s
          BY <2>2, <2>3, <3>1, <4>3, <5>1 DEF TypeOK, WriterStep, WriterPasses, WriterExits,
             WriterEmpty, WriterOk, WriterErr, WriterEnds, WriterGoes, AtWriter
        <5>2. CASE d # s
          <6>1. PICK to : writer' = [writer EXCEPT ![d] = to]
            BY <4>3 DEF WriterStep, WriterNonce, WriterPasses, WriterExits, WriterEmpty,
               WriterOk, WriterErr, WriterEnds, WriterGoes
          <6> QED
            BY <2>3, <3>1, <5>2, <6>1 DEF TypeOK
        <5> QED
          BY <5>1, <5>2
      <4>4. ASSUME NEW m \in Masters, CtlRead(m) \/ CtlStep(m) PROVE writer' = writer
        BY <4>4, CtlFrame
      <4>5. UNCHANGED vars => writer' = writer
        BY DEF vars
      <4>6. writer' = writer => writer'[s] \in {"none", "loop", "done"}
        BY <2>3
      <4> QED
        BY <4>1, <4>2, <4>3, <4>4, <4>5, <4>6, DeviceFrame, StopFrame, ClientFrame
        DEF Next, Stopped
    <3> QED
      BY <3>3, <3>4
  <2>5. CASE \E s \in Slaves : AcceptorAccept(s)
    <3>1. PICK s \in Slaves : AcceptorAccept(s)
      BY <2>5
    <3>2. /\ acceptor = "accept" /\ acceptor' = "magic" /\ s \notin taken
          /\ all_streams' = all_streams \cup {s} /\ writer' = writer /\ wire' = wire
      BY <3>1 DEF AcceptorAccept, AcceptorGoes, Backlog, feedVars
    <3>3. Late' \subseteq {s}
      BY <2>1, <2>3, <3>2 DEF Late
    <3>4. s \in Clients /\ writer[s] = "none"
      BY <3>2 DEF StreamsInv, Clients
    <3>5. "iq" \notin Carried(s)
      BY <3>4 DEF IqInv
    <3>6. "iq" \notin Carried(s)'
      BY <3>2, <3>5 DEF Carried
    <3> QED
      BY <3>2, <3>3, <3>4, <3>6 DEF LateInv
  <2>6. CASE ~\E s \in Slaves : AcceptorAccept(s)
    <3>1. all_streams' = all_streams /\ (acceptor' = "accept" => acceptor = "accept")
      <4>1. CASE MainStep
        <5>1. acceptor' = acceptor
          BY <4>1, MainFrame
        <5>2. all_streams' = all_streams
          BY <2>1, <4>1 DEF MainStep, MainGoes, OnlyMain, MainCheckExit, MainAcceptNothing,
             MainAcceptFails, MainAccept, MainRefuse, MainSubscribe, MainMagic, MainMagicFails,
             MainSpawnCtl, MainJoinCtl, MainTrySend, MainJoinCancel, MainJoinReader,
             MainShutdown, MainReturn, conns
        <5> QED
          BY <5>1, <5>2
      <4>2. CASE AcceptorStep
        BY <2>2, <2>6, <4>2 DEF AcceptorStep, AcceptorGoes, OnlyAcceptor, AcceptorCheck,
           AcceptorNothing, AcceptorRefuse, AcceptorMagic, AcceptorSubscribe, Put, conns
      <4>3. CASE UNCHANGED <<acceptor, all_streams>>
        BY <4>3
      <4>4. ASSUME NEW c \in Clients, WriterStep(c) PROVE UNCHANGED <<acceptor, all_streams>>
        BY <4>4, WriterFrame
      <4>5. ASSUME NEW m \in Masters, CtlRead(m) \/ CtlStep(m)
            PROVE  UNCHANGED <<acceptor, all_streams>>
        BY <4>5, CtlFrame
      <4>6. UNCHANGED vars => UNCHANGED <<acceptor, all_streams>>
        BY DEF vars
      <4> QED
        BY <4>1, <4>2, <4>3, <4>4, <4>5, <4>6, DeviceFrame, StopFrame, ClientFrame
        DEF Next, Stopped
    <3>2. Late' = Late
      BY <2>1, <3>1 DEF Late
    <3> QED
      BY <2>3, <2>4, <3>1, <3>2 DEF LateInv
  <2> QED
    BY <2>5, <2>6
<1> QED
  BY <1>1, <1>2

\* A slave that is fed got the magic packet first, or gets nothing at all.
LEMMA SlaveNext ==
    ASSUME TypeOK, StreamsInv, ShutInv, SlaveInv, [Next]_vars
    PROVE  SlaveInv'
<1> SUFFICES ASSUME NEW s \in Slaves
             PROVE  /\ wire'[s] # << >> => wire'[s][1] = "magic"
                    /\ wire'[s] = << >>
                       /\ (writer'[s] # "none" \/ (acceptor' = "subscribe" /\ slave' = s))
                       => Dead(s)'
  BY DEF SlaveInv
<1>0. s \in Clients /\ s \notin Masters /\ s # NoOne
  BY PortsAssumption DEF Clients
<1>1. /\ wire[s] # << >> => wire[s][1] = "magic"
      /\ wire[s] = << >> /\ (writer[s] # "none" \/ (acceptor = "subscribe" /\ slave = s))
             => Dead(s)
  BY DEF SlaveInv
<1>2. Dead(s) => Dead(s)'
  <2>1. peer[s] = "gone" => peer'[s] = "gone"
    <3>1. CASE ClientStep
      BY <1>0, <3>1 DEF TypeOK, ClientStep, Connect, PeerHalfCloses, PeerGone, PeerGoes
    <3>2. ASSUME NEW c \in Clients, WriterStep(c) PROVE peer' = peer
      BY <3>2, WriterFrame
    <3>3. ASSUME NEW m \in Masters, CtlRead(m) \/ CtlStep(m) PROVE peer' = peer
      BY <3>3, CtlFrame
    <3>4. UNCHANGED vars => peer' = peer
      BY DEF vars
    <3> QED
      BY <3>1, <3>2, <3>3, <3>4, MainFrame, AcceptorFrame, DeviceFrame, StopFrame
      DEF Next, Stopped
  <2>2. shut \subseteq shut'
    <3>1. CASE MainStep
      <4>1. shut' = shut \/ shut' = all_streams
        BY <3>1 DEF MainStep, OnlyMain, MainCheckExit, MainAcceptNothing, MainAcceptFails,
           MainAccept, MainRefuse, MainSubscribe, MainMagic, MainMagicFails, MainSpawnCtl,
           MainJoinCtl, MainTrySend, MainJoinCancel, MainJoinReader, MainShutdown,
           MainReturn, Put, conns
      <4> QED
        BY <4>1 DEF ShutInv
    <3>2. ASSUME NEW c \in Clients, WriterStep(c) PROVE shut' = shut
      BY <3>2, WriterFrame
    <3>3. ASSUME NEW m \in Masters, CtlRead(m) \/ CtlStep(m) PROVE shut' = shut
      BY <3>3, CtlFrame
    <3>4. UNCHANGED vars => shut' = shut
      BY DEF vars
    <3> QED
      BY <3>1, <3>2, <3>3, <3>4, AcceptorFrame, DeviceFrame, StopFrame, ClientFrame
      DEF Next, Stopped
  <2> QED
    BY <2>1, <2>2 DEF Dead
<1>3. \/ wire'[s] = wire[s]
      \/ slave = s /\ acceptor = "magic" /\ AcceptorMagic /\ Put(s, "magic")
      \/ WriterOk(s) /\ Put(s, "iq")
  <2>1. CASE wire' = wire
    BY <2>1
  <2>2. ASSUME NEW m \in Masters, Put(m, "magic") \/ Put(m, "ack") \/ Put(m, "nonce")
        PROVE  wire'[s] = wire[s]
    <3>1. m \in Clients /\ m # s
      BY <1>0 DEF Clients
    <3>2. PICK kind \in {"magic", "ack", "nonce"} : Put(m, kind)
      BY <2>2
    <3> QED
      BY <1>0, <3>1, <3>2, PutWire
  <2>3. CASE slave \in Slaves /\ acceptor = "magic" /\ AcceptorMagic /\ Put(slave, "magic")
    <3>1. CASE slave = s
      BY <2>3, <3>1
    <3>2. CASE slave # s
      <4>1. slave \in Clients
        BY <2>3 DEF Clients
      <4> QED
        BY <1>0, <2>3, <3>2, <4>1, PutWire
    <3> QED
      BY <3>1, <3>2
  <2>4. ASSUME NEW c \in Clients, WriterOk(c) /\ Put(c, "iq")
        PROVE  wire'[s] = wire[s] \/ (WriterOk(s) /\ Put(s, "iq"))
    <3>1. CASE c = s
      BY <2>4, <3>1
    <3>2. CASE c # s
      BY <1>0, <2>4, <3>2, PutWire
    <3> QED
      BY <3>1, <3>2
  <2> QED
    BY <2>1, <2>2, <2>3, <2>4, WireStep
<1>4. /\ wire'[s] # << >> => wire'[s][1] = "magic"
      /\ wire[s] # << >> => wire'[s] # << >>
  <2>1. CASE wire'[s] = wire[s]
    BY <1>1, <2>1
  <2>2. CASE Put(s, "magic")
    BY <1>0, <1>1, <2>2, PutWire
  <2>3. CASE WriterOk(s) /\ Put(s, "iq")
    <3>1. writer[s] # "none" /\ Writable(s)
      BY <2>3 DEF WriterOk, AtWriter
    <3>2. wire[s] # << >>
      BY <1>1, <3>1 DEF Dead, Writable
    <3> QED
      BY <1>0, <1>1, <2>3, <3>2, PutWire
  <2> QED
    BY <1>3, <2>1, <2>2, <2>3
<1>5. ASSUME wire'[s] = << >>, writer'[s] # "none" \/ (acceptor' = "subscribe" /\ slave' = s)
      PROVE  Dead(s)'
  <2>1. wire[s] = << >>
    BY <1>4, <1>5
  <2>2. CASE AcceptorMagic /\ slave = s
    <3>1. Put(s, "magic") /\ ~Writable(s)
      BY <1>0, <1>5, <2>2, PutWire DEF AcceptorMagic
    <3>2. peer[s] # "none"
      BY <1>0, <2>2 DEF StreamsInv, ShutInv
    <3>3. Dead(s)
      BY <1>0, <3>1, <3>2 DEF Writable, Dead, TypeOK, Peers
    <3> QED
      BY <1>2, <3>3
  <2>3. CASE ~(AcceptorMagic /\ slave = s)
    <3>1. writer[s] # "none" \/ (acceptor = "subscribe" /\ slave = s)
      <4>1. CASE MainStep
        <5>1. UNCHANGED <<acceptor, slave>>
          BY <4>1, MainFrame
        <5>2. writer'[s] = writer[s]
          <6>1. writer' = writer \/ MainSubscribe
            BY <4>1 DEF MainStep, OnlyMain, MainCheckExit, MainAcceptNothing,
               MainAcceptFails, MainAccept, MainRefuse, MainMagic, MainMagicFails,
               MainSpawnCtl, MainJoinCtl, MainTrySend, MainJoinCancel, MainJoinReader,
               MainShutdown, MainReturn, feedVars
          <6>2. MainSubscribe => cur # s /\ \E to : writer' = [writer EXCEPT ![cur] = to]
            BY <1>0 DEF TypeOK, MainSubscribe, MainGoes
          <6> QED
            BY <1>0, <6>1, <6>2 DEF TypeOK
        <5> QED
          BY <1>5, <5>1, <5>2
      <4>2. CASE AcceptorStep
        <5>1. CASE AcceptorSubscribe
          BY <1>0, <1>5, <5>1 DEF TypeOK, AcceptorSubscribe, AcceptorGoes
        <5>2. CASE AcceptorMagic
          BY <1>5, <2>3, <5>2 DEF AcceptorMagic, feedVars
        <5>3. CASE ~AcceptorSubscribe /\ ~AcceptorMagic
          <6>1. writer' = writer /\ acceptor' # "subscribe"
            BY <4>2, <5>3 DEF AcceptorStep, AcceptorGoes, OnlyAcceptor, AcceptorCheck,
               AcceptorNothing, AcceptorRefuse, AcceptorAccept, feedVars
          <6> QED
            BY <1>5, <6>1
        <5> QED
          BY <5>1, <5>2, <5>3
      <4>3. ASSUME NEW c \in Clients, WriterStep(c)
            PROVE  writer[s] # "none" \/ (acceptor = "subscribe" /\ slave = s)
        <5>1. UNCHANGED <<acceptor, slave>>
          BY <4>3, WriterFrame
        <5>2. writer[c] # "none" /\ \E to : writer' = [writer EXCEPT ![c] = to]
          BY <4>3 DEF WriterStep, WriterNonce, WriterPasses, WriterExits, WriterEmpty,
             WriterOk, WriterErr, WriterEnds, WriterGoes, AtWriter
        <5> QED
          BY <1>0, <1>5, <5>1, <5>2 DEF TypeOK
      <4>4. CASE UNCHANGED <<acceptor, slave, writer>>
        BY <1>5, <4>4
      <4>5. ASSUME NEW m \in Masters, CtlRead(m) \/ CtlStep(m)
            PROVE  UNCHANGED <<acceptor, slave, writer>>
        BY <4>5, CtlFrame
      <4>6. UNCHANGED vars => UNCHANGED <<acceptor, slave, writer>>
        BY DEF vars
      <4> QED
        BY <4>1, <4>2, <4>3, <4>4, <4>5, <4>6, DeviceFrame, StopFrame, ClientFrame
        DEF Next, Stopped
    <3> QED
      BY <1>1, <1>2, <2>1, <3>1
  <2> QED
    BY <2>2, <2>3
<1> QED
  BY <1>4, <1>5

\* Every slave that is given a writer thread is counted, and none is accepted at
\* the limit.
LEMMA LimitNext == TypeOK /\ StreamsInv /\ LimitInv /\ [Next]_vars => LimitInv'
<1> SUFFICES ASSUME TypeOK, StreamsInv, LimitInv, [Next]_vars PROVE LimitInv'
  OBVIOUS
<1>1. CASE MainStep
  <2>1. UNCHANGED <<acceptor, count>>
    BY <1>1, MainFrame
  <2>2. writer' = writer \/ MainSubscribe
    BY <1>1 DEF MainStep, OnlyMain, MainCheckExit, MainAcceptNothing,
       MainAcceptFails, MainAccept, MainRefuse, MainMagic, MainMagicFails,
       MainSpawnCtl, MainJoinCtl, MainTrySend, MainJoinCancel, MainJoinReader,
       MainShutdown, MainReturn, feedVars
  <2>3. MainSubscribe => cur \notin Slaves /\ \E to : writer' = [writer EXCEPT ![cur] = to]
    BY PortsAssumption DEF TypeOK, MainSubscribe, Clients
  <2>4. Fed' = Fed
    BY <2>2, <2>3 DEF TypeOK, Fed, Clients
  <2> QED
    BY <2>1, <2>4 DEF LimitInv
<1>2. CASE AcceptorStep
  <2>1. CASE AcceptorSubscribe
    <3>1. /\ acceptor = "subscribe" /\ acceptor' = "check" /\ count' = count + 1
          /\ slave \in Slaves /\ slave # NoOne
          /\ writer' = [writer EXCEPT ![slave] = "loop"]
      BY <2>1 DEF TypeOK, AcceptorSubscribe, AcceptorGoes
    <3>2. Fed' = Fed \cup {slave} /\ slave \notin Fed
      BY <3>1 DEF TypeOK, StreamsInv, Fed, Clients
    <3>3. IsFiniteSet(Fed)
      BY FS_Subset, PortsAssumption DEF Fed
    <3>4. Cardinality(Fed') = Cardinality(Fed) + 1
      BY <3>2, <3>3, FS_AddElement
    <3>5. count \in Nat /\ MaxSlaves \in Nat
      BY LimitsAssumption DEF TypeOK
    <3> QED
      BY <3>1, <3>4, <3>5 DEF LimitInv
  <2>2. CASE ~AcceptorSubscribe
    <3>1. UNCHANGED <<writer, count>>
      BY <1>2, <2>2 DEF AcceptorStep, OnlyAcceptor, AcceptorCheck, AcceptorNothing,
         AcceptorRefuse, AcceptorAccept, AcceptorMagic, feedVars
    <3>2. acceptor' \in {"accept", "magic", "subscribe"} => count < MaxSlaves
      BY <1>2, <2>2, LimitsAssumption DEF LimitInv, TypeOK, AtLimit, AcceptorStep,
         AcceptorGoes, AcceptorCheck, AcceptorNothing, AcceptorRefuse, AcceptorAccept,
         AcceptorMagic
    <3> QED
      BY <3>1, <3>2 DEF LimitInv, Fed
  <2> QED
    BY <2>1, <2>2
<1>3. ASSUME NEW c \in Clients, WriterStep(c) PROVE LimitInv'
  <2>1. UNCHANGED <<acceptor, count>>
    BY <1>3, WriterFrame
  <2>2. writer[c] # "none" /\ \E to : to # "none" /\ writer' = [writer EXCEPT ![c] = to]
    BY <1>3 DEF WriterStep, WriterNonce, WriterPasses, WriterExits, WriterEmpty, WriterOk,
       WriterErr, WriterEnds, WriterGoes, AtWriter
  <2>3. Fed' = Fed
    BY <2>2 DEF TypeOK, Fed, Clients
  <2> QED
    BY <2>1, <2>3 DEF LimitInv
<1>4. CASE UNCHANGED <<acceptor, count, writer>>
  BY <1>4 DEF LimitInv, Fed
<1>5. ASSUME NEW m \in Masters, CtlRead(m) \/ CtlStep(m)
      PROVE  UNCHANGED <<acceptor, count, writer>>
  BY <1>5, CtlFrame
<1>6. UNCHANGED vars => UNCHANGED <<acceptor, count, writer>>
  BY DEF vars
<1> QED
  BY <1>1, <1>2, <1>3, <1>4, <1>5, <1>6, DeviceFrame, StopFrame, ClientFrame
  DEF Next, Stopped

\* With a key, what a master is sent first is preserved.
LEMMA NonceNext ==
    ASSUME TypeOK, StreamsInv, Key, NonceInv, EarlyOnlyUnderStaleNonce, [Next]_vars
    PROVE  NonceInv' /\ EarlyOnlyUnderStaleNonce'
<1>0. NoOne \notin Masters /\ \A s \in Slaves : s \notin Masters
  BY PortsAssumption DEF Clients
<1>m. \A m \in Masters : m \in Clients
  BY DEF Clients
<1>1. CASE MainStep
  <2>1. UNCHANGED <<nonces, cipher>>
    BY <1>1, MainFrame
  <2>2. CASE MainSubscribe
    <3>1. /\ cur \in Masters /\ writer[cur] = "none" /\ main' = "magic"
          /\ writer' = [writer EXCEPT ![cur] = "nonce"]
          /\ UNCHANGED <<cur, ctl, wire>>
      BY <2>2 DEF TypeOK, StreamsInv, MainSubscribe, MainGoes, conns
    <3> QED
      BY <1>m, <2>1, <3>1 DEF TypeOK, NonceInv, EarlyOnlyUnderStaleNonce
  <2>3. CASE MainMagic
    <3>1. /\ cur \in Masters /\ main' = "spawn_ctl" /\ Writable(cur) /\ Put(cur, "magic")
          /\ UNCHANGED <<cur, ctl, writer>>
      BY <2>3 DEF TypeOK, MainMagic, MainGoes, feedVars
    <3>2. /\ \A d \in Clients \ {cur} : wire'[d] = wire[d]
          /\ wire[cur] # << >> => wire'[cur] # << >> /\ wire'[cur][1] = wire[cur][1]
          /\ wire[cur] = << >> /\ wire'[cur] # << >> => wire'[cur][1] = "magic"
          /\ wire'[cur] # << >>
      BY <1>m, <3>1, PutWire
    <3> QED
      BY <1>m, <2>1, <3>1, <3>2 DEF NonceInv, EarlyOnlyUnderStaleNonce
  <2>4. CASE MainSpawnCtl
    <3>1. /\ cur \in Masters /\ main = "spawn_ctl" /\ main' = "join_ctl"
          /\ ctl' = [ctl EXCEPT ![cur] = "read"]
          /\ UNCHANGED <<cur, writer, wire>>
      BY <2>4 DEF TypeOK, MainSpawnCtl, MainGoes, feedVars, conns
    <3> QED
      BY <2>1, <3>1 DEF TypeOK, NonceInv, EarlyOnlyUnderStaleNonce
  <2>5. CASE UNCHANGED <<wire, writer, ctl>> /\ main' # "spawn_ctl"
    BY <2>1, <2>5 DEF NonceInv, EarlyOnlyUnderStaleNonce
  <2>6. MainSubscribe \/ MainMagic \/ MainSpawnCtl
        \/ (UNCHANGED <<wire, writer, ctl>> /\ main' # "spawn_ctl")
    BY <1>1 DEF MainStep, MainGoes, OnlyMain, MainCheckExit, MainAcceptNothing,
       MainAcceptFails, MainAccept, MainRefuse, MainMagicFails, MainJoinCtl, MainTrySend,
       MainJoinCancel, MainJoinReader, MainShutdown, MainReturn, conns, feedVars
  <2> QED
    BY <2>2, <2>3, <2>4, <2>5, <2>6
<1>2. CASE AcceptorStep
  <2>1. UNCHANGED <<main, cur, ctl, nonces, cipher>>
    BY <1>2, AcceptorFrame
  <2>2. \A m \in Masters : writer'[m] = writer[m]
    <3>1. writer' = writer \/ (slave \in Slaves /\ writer' = [writer EXCEPT ![slave] = "loop"])
      BY <1>2 DEF TypeOK, AcceptorStep, AcceptorGoes, OnlyAcceptor, AcceptorCheck,
         AcceptorNothing, AcceptorRefuse, AcceptorAccept, AcceptorMagic, AcceptorSubscribe,
         feedVars
    <3> QED
      BY <1>0, <1>m, <3>1 DEF TypeOK
  <2>3. \A m \in Masters : wire'[m] = wire[m]
    <3>1. wire' = wire \/ (slave \in Slaves /\ Put(slave, "magic"))
      BY <1>2 DEF TypeOK, AcceptorStep, AcceptorGoes, OnlyAcceptor, AcceptorCheck,
         AcceptorNothing, AcceptorRefuse, AcceptorAccept, AcceptorMagic, AcceptorSubscribe,
         conns
    <3>2. CASE slave \in Slaves /\ Put(slave, "magic")
      <4>1. \A d \in Clients \ {slave} : wire'[d] = wire[d]
        BY <3>2, PutWire DEF Clients
      <4> QED
        BY <1>0, <1>m, <3>2, <4>1
    <3> QED
      BY <3>1, <3>2
  <2>4. main = "spawn_ctl" => cur \in Masters
    BY DEF TypeOK
  <2> QED
    BY <2>1, <2>2, <2>3, <2>4 DEF NonceInv, EarlyOnlyUnderStaleNonce
<1>3. ASSUME NEW c \in Clients, WriterStep(c) PROVE NonceInv' /\ EarlyOnlyUnderStaleNonce'
  <2>1. UNCHANGED <<main, cur, ctl, nonces>>
    BY <1>3, WriterFrame
  <2>2. CASE c \in Masters /\ WriterNonce(c)
    <3>1. /\ writer[c] = "nonce" /\ nonces # NoOne /\ wire' = wire
          /\ cipher' = [cipher EXCEPT ![c] = nonces]
          /\ writer' = [writer EXCEPT ![c] = "loop"]
      BY <2>2 DEF WriterNonce, AtWriter, WriterGoes, conns
    <3>2. nonces \in Masters /\ cipher[c] = NoOne
      BY <2>2, <3>1 DEF TypeOK, NonceInv
    <3>3. nonces = c => wire[c] # << >>
      BY <2>2 DEF NonceInv
    <3>4. wire[c] # << >> => wire[c][1] = "magic"
      BY <2>2, <3>2 DEF EarlyOnlyUnderStaleNonce
    <3> QED
      BY <1>0, <2>1, <2>2, <3>1, <3>2, <3>3, <3>4
      DEF TypeOK, NonceInv, EarlyOnlyUnderStaleNonce
  <2>3. CASE WriterPasses(c) \/ WriterExits(c) \/ WriterEmpty(c) \/ WriterErr(c)
    <3>1. /\ writer[c] \in {"loop", "write"} /\ UNCHANGED <<wire, cipher>>
          /\ \E to \in {"loop", "write", "done"} : writer' = [writer EXCEPT ![c] = to]
      BY <2>3 DEF WriterPasses, WriterExits, WriterEmpty, WriterErr, WriterEnds, AtWriter,
         WriterGoes, conns
    <3>2. \A m \in Masters : writer'[m] \in {"none", "nonce"} <=> writer[m] \in {"none", "nonce"}
      BY <1>m, <3>1 DEF TypeOK
    <3> QED
      BY <2>1, <3>1, <3>2 DEF NonceInv, EarlyOnlyUnderStaleNonce
  <2>4. CASE WriterOk(c)
    <3>1. /\ writer[c] = "write" /\ writer' = [writer EXCEPT ![c] = "loop"]
          /\ cipher' = cipher /\ Put(c, "iq")
      BY <2>4 DEF WriterOk, AtWriter, WriterGoes
    <3>2. \A m \in Masters : writer'[m] \in {"none", "nonce"} <=> writer[m] \in {"none", "nonce"}
      BY <1>m, <3>1 DEF TypeOK
    <3>3. /\ \A d \in Clients \ {c} : wire'[d] = wire[d]
          /\ wire[c] # << >> => wire'[c] # << >> /\ wire'[c][1] = wire[c][1]
      BY <3>1, PutWire
    <3>4. \A m \in Masters : wire[m] # << >> => wire'[m] # << >> /\ wire'[m][1] = wire[m][1]
      BY <1>m, <3>3
    <3>5. c \in Masters /\ wire[c] = << >> => cipher[c] \notin {c, NoOne}
      BY <3>1 DEF NonceInv
    <3>6. main = "spawn_ctl" => cur \in Masters
      BY DEF TypeOK
    <3>7. NonceInv'
      BY <2>1, <3>1, <3>2, <3>4, <3>6 DEF NonceInv
    <3>8. EarlyOnlyUnderStaleNonce'
      BY <1>m, <3>1, <3>3, <3>4, <3>5 DEF EarlyOnlyUnderStaleNonce
    <3> QED
      BY <3>7, <3>8
  <2> QED
    BY <1>3, <2>2, <2>3, <2>4 DEF WriterStep
<1>4. ASSUME NEW m \in Masters, CtlRead(m) \/ CtlStep(m)
      PROVE  NonceInv' /\ EarlyOnlyUnderStaleNonce'
  <2>1. /\ UNCHANGED <<main, cur, writer, cipher>>
        /\ ctl[m] \notin {"none", "done"}
        /\ \E to \in CtlPoints \ {"none"} : ctl' = [ctl EXCEPT ![m] = to]
    BY <1>4, CtlFrame
  <2>2. nonces' \in {nonces, m}
    BY <1>4 DEF CtlRead, CtlStep, CtlEof, CtlCheckExit, CtlCommand,
       CtlChainDetect, CtlExchange, CtlExchangeFails, CtlStore, crypto
  <2>3. \A n \in Masters : wire[n] # << >> => wire'[n] # << >> /\ wire'[n][1] = wire[n][1]
    <3>1. wire' = wire \/ Put(m, "ack") \/ Put(m, "nonce")
      BY <1>4 DEF CtlRead, CtlStep, CtlEof, CtlCheckExit, CtlCommand,
         CtlChainDetect, CtlExchange, CtlExchangeFails, CtlStore, conns
    <3>2. CASE Put(m, "ack") \/ Put(m, "nonce")
      BY <1>m, <3>2, PutWire
    <3> QED
      BY <3>1, <3>2
  <2>4. wire[m] # << >> /\ \A n \in Masters \ {m} : wire'[n] = wire[n]
    <3>1. wire' = wire \/ Put(m, "ack") \/ Put(m, "nonce")
      BY <1>4 DEF CtlRead, CtlStep, CtlEof, CtlCheckExit, CtlCommand,
         CtlChainDetect, CtlExchange, CtlExchangeFails, CtlStore, conns
    <3>2. CASE Put(m, "ack") \/ Put(m, "nonce")
      BY <1>m, <2>1, <3>2, PutWire DEF NonceInv
    <3> QED
      BY <2>1, <3>1, <3>2 DEF NonceInv
  <2>5. \A n \in Masters : ctl'[n] # "none" <=> ctl[n] # "none"
    BY <2>1 DEF TypeOK
  <2>6. main = "spawn_ctl" => cur \in Masters
    BY DEF TypeOK
  <2>7. NonceInv'
    BY <2>1, <2>2, <2>3, <2>5, <2>6 DEF NonceInv
  <2>8. EarlyOnlyUnderStaleNonce'
    BY <2>1, <2>3, <2>4 DEF EarlyOnlyUnderStaleNonce
  <2> QED
    BY <2>7, <2>8
<1>5. CASE UNCHANGED <<main, cur, writer, ctl, nonces, cipher, wire>>
  BY <1>5 DEF NonceInv, EarlyOnlyUnderStaleNonce
<1>6. UNCHANGED vars => UNCHANGED <<main, cur, writer, ctl, nonces, cipher, wire>>
  BY DEF vars
<1> QED
  BY <1>1, <1>2, <1>3, <1>4, <1>5, <1>6, DeviceFrame, StopFrame, ClientFrame
  DEF Next, Stopped

-----------------------------------------------------------------------------
(* The theorems *)

\* The invariant holds throughout a run of the server.
THEOREM Invariance == Spec => []MultiInv
<1>1. MultiInv /\ [Next]_vars => MultiInv'
  <2> SUFFICES ASSUME MultiInv, [Next]_vars PROVE MultiInv'
    OBVIOUS
  <2>1. TypeOK' /\ JoinInv' /\ StreamsInv' /\ CauseInv' /\ ReturnInv' /\ LimitInv'
    BY TypeNext, JoinNext, StreamsNext, CauseNext, ReturnNext, LimitNext DEF MultiInv
  <2>3. ShutInv' /\ IqInv' /\ LateInv' /\ SlaveInv'
    BY ShutNext, IqNext, LateNext, SlaveNext DEF MultiInv
  <2>2. Key => NonceInv' /\ EarlyOnlyUnderStaleNonce'
    BY NonceNext DEF MultiInv
  <2> QED
    BY <2>1, <2>2, <2>3 DEF MultiInv
<1> QED
  BY InitInv, <1>1, PTL DEF Spec

\* run_serve_multi and its threads keep their state within its types.
THEOREM TypeCorrect == Spec => []TypeOK
<1>1. MultiInv => TypeOK
  BY DEF MultiInv
<1> QED
  BY Invariance, <1>1, PTL

\* At most one master commands the device, the one the main thread serves.
THEOREM OnlyOneCommands == Spec => []OneCommander
<1>1. MultiInv => OneCommander
  BY DEF MultiInv, JoinInv, OneCommander, Commanding
<1> QED
  BY Invariance, <1>1, PTL

\* The server cancels the device read only after a signal.
THEOREM CancelHasCause == Spec => []CancelledForCause
<1>1. MultiInv => CancelledForCause
  BY DEF MultiInv, CauseInv, CancelledForCause
<1> QED
  BY Invariance, <1>1, PTL

\* A return without an error leaves no device read, no cancel thread and no
\* control thread behind, shuts down every client that was sent IQ data, and
\* leaves at most one registered stream open, that of a slave.
THEOREM ReturnIsClean == Spec => []CleanReturn
<1>1. MultiInv => CleanReturn
  BY DEF MultiInv, JoinInv, StreamsInv, ReturnInv, IqInv, LateInv, Late, CleanReturn,
     Commanding
<1> QED
  BY Invariance, <1>1, PTL

\* No more than --max-slaves slaves are fed at a time.
THEOREM LimitHolds == Spec => []SlaveLimit
<1>1. MultiInv => SlaveLimit
  <2> SUFFICES ASSUME MultiInv PROVE SlaveLimit
    OBVIOUS
  <2>1. {s \in Slaves : s \in Live} \in SUBSET Fed
    BY DEF Live, Fed
  <2>2. IsFiniteSet(Fed)
    BY FS_Subset, PortsAssumption DEF Fed
  <2>3. /\ Cardinality({s \in Slaves : s \in Live}) \in Nat
        /\ Cardinality({s \in Slaves : s \in Live}) <= Cardinality(Fed)
    BY <2>1, <2>2, FS_Subset, FS_CardinalityType
  <2> QED
    BY <2>3, LimitsAssumption DEF MultiInv, TypeOK, LimitInv, SlaveLimit
<1> QED
  BY Invariance, <1>1, PTL

\* A slave's stream begins with the magic packet.
THEOREM SlaveGetsMagic == Spec => []SlaveMagicFirst
<1>1. MultiInv => SlaveMagicFirst
  BY DEF MultiInv, SlaveInv, SlaveMagicFirst
<1> QED
  BY Invariance, <1>1, PTL

\* With a key, IQ data overtakes a master's magic packet only under the nonces of
\* another master.
THEOREM EarlyIqIsStale == Spec => []EarlyOnlyUnderStaleNonce
<1>1. MultiInv => EarlyOnlyUnderStaleNonce
  BY DEF MultiInv, EarlyOnlyUnderStaleNonce
<1> QED
  BY Invariance, <1>1, PTL
=============================================================================
