----------------------------- MODULE ServeMulti -----------------------------
(***************************************************************************)
(* Multi-client serving (run_serve_multi and the threads it spawns, in     *)
(* src/src/main.rs): the main thread takes one master at a time, joins its *)
(* control thread and goes back to accept; an acceptor thread takes        *)
(* slaves; a reader thread runs the device; every client has a writer      *)
(* thread; a cancel thread and the signal handler end it all.              *)
(*                                                                         *)
(* What a writer thread does with the broadcast channel is module          *)
(* Broadcast; here the channel is seen through pending, the clients whose  *)
(* receiver has something to return.  What a command does to the device is *)
(* module Control.  A read timeout takes a control thread round its loop   *)
(* and changes nothing, so it is not a step; nor are the sleeps.  The      *)
(* whitelist may admit or refuse any connection.                           *)
(***************************************************************************)
EXTENDS Integers, Sequences, FiniteSets

CONSTANTS
    Masters, Slaves,  \* connections made to the master and the slave port
    MaxSlaves,        \* --max-slaves
    Key,              \* TRUE when --key or --key-file was given
    MaxSignals,       \* bound on the signals received
    MaxCmds,          \* bound on the commands read by control threads
    NoOne             \* stands for no connection

Clients == Masters \cup Slaves

ASSUME PortsAssumption ==
    /\ Masters \cap Slaves = {}
    /\ NoOne \notin Clients
    /\ IsFiniteSet(Slaves)
ASSUME LimitsAssumption ==
    /\ MaxSlaves \in Nat
    /\ Key \in BOOLEAN
    /\ MaxSignals \in Nat
    /\ MaxCmds \in Nat

VARIABLES
    main,         \* where the main thread is
    cur,          \* the master the main thread is serving, or NoOne
    acceptor,     \* where the slave acceptor is
    slave,        \* the slave the acceptor is serving, or NoOne
    count,        \* slaves accepted
    cancel,       \* where the cancel thread is
    handler,      \* where the signal handler is
    chan,         \* messages in the sync_channel(1)
    should_exit,  \* the exit flag
    dev,          \* state of the device's asynchronous read
    peer,         \* peer[c]: the client's side of its connection
    taken,        \* connections returned by accept
    all_streams,  \* connections registered for the final shutdown
    shut,         \* connections shut down by the server
    writer,       \* writer[c]: where c's writer thread is
    pending,      \* clients whose receiver has a buffer to return
    ctl,          \* ctl[m]: where m's control thread is
    nonces,       \* the master whose nonce exchange was stored last, or NoOne
    nlock,        \* the writer that holds the lock of the nonces, or NoOne
    cipher,       \* cipher[m]: the master on whose nonce m's cipher is built
    wire,         \* wire[c]: the kinds of item c was sent, by first occurrence
    signals,      \* signals received
    cmds,         \* commands read
    missed        \* cancel_async_read was called before the read had begun

conns == <<peer, taken, all_streams, shut, wire>>
crypto == <<nonces, nlock, cipher>>
history == <<signals, cmds, missed>>
mainVars == <<main, cur>>
acceptorVars == <<acceptor, slave, count>>
stopVars == <<cancel, handler, chan, should_exit>>
feedVars == <<writer, pending>>
vars == <<main, cur, acceptor, slave, count, cancel, handler, chan, should_exit,
          dev, peer, taken, all_streams, shut, writer, pending, ctl, nonces,
          nlock, cipher, wire, signals, cmds, missed>>

\* run_serve_multi has returned, which ends the process and all its threads.
Errors == {"err_accept", "err_refused", "err_magic"}
Ended == main \in {"ok"} \cup Errors

\* The state in which the main thread enters its accept loop: the handler is
\* set, both ports are bound and the three threads are spawned, of which the
\* reader thread may not have begun its read.
Init ==
    /\ main = "check" /\ cur = NoOne
    /\ acceptor = "check" /\ slave = NoOne /\ count = 0
    /\ cancel = "recv" /\ handler = "idle" /\ chan = 0 /\ should_exit = FALSE
    /\ dev = "ready"
    /\ peer = [c \in Clients |-> "none"]
    /\ taken = {} /\ all_streams = {} /\ shut = {}
    /\ writer = [c \in Clients |-> "none"] /\ pending = {}
    /\ ctl = [m \in Masters |-> "none"]
    /\ nonces = NoOne /\ nlock = NoOne /\ cipher = [m \in Masters |-> NoOne]
    /\ wire = [c \in Clients |-> << >>]
    /\ signals = 0 /\ cmds = 0 /\ missed = FALSE

Backlog(port) == {c \in port : peer[c] # "none" /\ c \notin taken}

Writable(c) == peer[c] \in {"open", "half"} /\ c \notin shut

Carried(c) == {wire[c][i] : i \in 1..Len(wire[c])}

\* c is sent an item of this kind, if its connection takes it.
Put(c, kind) ==
    /\ wire' = [wire EXCEPT ![c] =
                    IF Writable(c) /\ kind \notin Carried(c)
                    THEN Append(@, kind) ELSE @]
    /\ UNCHANGED <<peer, taken, all_streams, shut>>

CanSend == chan = 0 /\ cancel # "done"

TrySend_Unbounded == chan' = chan + 1

\* sender.try_send(()) with the result ignored.
TrySend == chan' = IF CanSend THEN 1 ELSE chan

-----------------------------------------------------------------------------
(* The main thread: master reconnection loop and shutdown *)

MainGoes(from, to) == main = from /\ main' = to
OnlyMain ==
    UNCHANGED <<acceptorVars, stopVars, dev, conns, feedVars, ctl, crypto, history>>

MainCheckExit ==
    /\ MainGoes("check", IF should_exit THEN "try_send" ELSE "accept")
    /\ UNCHANGED cur /\ OnlyMain

\* WouldBlock: sleep and look at the flag again.
MainAcceptNothing ==
    /\ MainGoes("accept", "check")
    /\ Backlog(Masters) = {}
    /\ UNCHANGED cur /\ OnlyMain

\* accept returns m, the whitelist admits it, and a clone of its stream is
\* registered.
MainAccept(m) ==
    /\ MainGoes("accept", "subscribe")
    /\ m \in Backlog(Masters)
    /\ taken' = taken \cup {m}
    /\ all_streams' = all_streams \cup {m}
    /\ cur' = m
    /\ UNCHANGED <<acceptorVars, stopVars, dev, peer, shut, wire, feedVars, ctl,
                   crypto, history>>

\* The whitelist refuses m: `?` returns from run_serve_multi.
MainRefuse(m) ==
    /\ MainGoes("accept", "err_refused")
    /\ m \in Backlog(Masters)
    /\ UNCHANGED cur /\ OnlyMain

\* accept fails with anything but WouldBlock, or a socket option or the
\* duplication of a stream does.
MainAcceptFails == MainGoes("accept", "err_accept") /\ UNCHANGED cur /\ OnlyMain

\* tx.subscribe() and the spawn of the master's writer thread, which with a key
\* first waits for nonces.
MainSubscribe ==
    /\ MainGoes("subscribe", "magic")
    /\ writer' = [writer EXCEPT ![cur] = IF Key THEN "nonce" ELSE "loop"]
    /\ UNCHANGED <<cur, acceptorVars, stopVars, dev, conns, pending, ctl, crypto,
                   history>>

MainMagic_Omitted ==
    /\ MainGoes("magic", "spawn_ctl")
    /\ UNCHANGED cur /\ OnlyMain

MainMagic ==
    /\ MainGoes("magic", "spawn_ctl")
    /\ Writable(cur)
    /\ Put(cur, "magic")
    /\ UNCHANGED <<cur, acceptorVars, stopVars, dev, feedVars, ctl, crypto, history>>

\* The write of the magic packet fails, because the peer is gone or, behind IQ
\* data it does not read, by a timeout: `?` returns from run_serve_multi.
MainMagicFails == MainGoes("magic", "err_magic") /\ UNCHANGED cur /\ OnlyMain

MainSpawnCtl_NoJoin ==
    /\ MainGoes("spawn_ctl", "check")
    /\ ctl' = [ctl EXCEPT ![cur] = "read"]
    /\ cur' = NoOne
    /\ UNCHANGED <<acceptorVars, stopVars, dev, conns, feedVars, crypto, history>>

MainSpawnCtl ==
    /\ MainGoes("spawn_ctl", "join_ctl")
    /\ ctl' = [ctl EXCEPT ![cur] = "read"]
    /\ UNCHANGED <<cur, acceptorVars, stopVars, dev, conns, feedVars, crypto, history>>

MainJoinCtl_Stops ==
    /\ MainGoes("join_ctl", "try_send")
    /\ ctl[cur] = "done"
    /\ cur' = NoOne
    /\ OnlyMain

\* The control thread has ended; the flag is looked at, and again at the top
\* of the loop.
MainJoinCtl ==
    /\ MainGoes("join_ctl", "check")
    /\ ctl[cur] = "done"
    /\ cur' = NoOne
    /\ OnlyMain

MainTrySend ==
    /\ MainGoes("try_send", "join_cancel")
    /\ TrySend
    /\ UNCHANGED <<cur, acceptorVars, cancel, handler, should_exit, dev, conns,
                   feedVars, ctl, crypto, history>>

MainJoinCancel ==
    /\ MainGoes("join_cancel", "join_reader")
    /\ cancel = "done"
    /\ UNCHANGED cur /\ OnlyMain

\* The reader thread ends when read_async returns.
MainJoinReader ==
    /\ MainGoes("join_reader", "shutdown")
    /\ dev \in {"cancelled", "ended"}
    /\ UNCHANGED cur /\ OnlyMain

\* Every registered stream is shut down, under the lock the acceptor needs to
\* register one.
MainShutdown ==
    /\ MainGoes("shutdown", "return")
    /\ shut' = all_streams
    /\ UNCHANGED <<cur, acceptorVars, stopVars, dev, peer, taken, all_streams,
                   wire, feedVars, ctl, crypto, history>>

MainReturn == MainGoes("return", "ok") /\ UNCHANGED cur /\ OnlyMain

MainStep ==
    \/ MainCheckExit \/ MainAcceptNothing \/ MainAcceptFails
    \/ \E m \in Masters : MainAccept(m) \/ MainRefuse(m)
    \/ MainSubscribe \/ MainMagic \/ MainMagicFails
    \/ MainSpawnCtl \/ MainJoinCtl
    \/ MainTrySend \/ MainJoinCancel \/ MainJoinReader \/ MainShutdown
    \/ MainReturn

-----------------------------------------------------------------------------
(* The slave acceptor *)

AcceptorGoes(from, to) == ~Ended /\ acceptor = from /\ acceptor' = to
OnlyAcceptor ==
    UNCHANGED <<mainVars, stopVars, dev, conns, feedVars, ctl, crypto, history>>

AtLimit_OffByOne == count > MaxSlaves

AtLimit == count >= MaxSlaves

\* The exit flag, then the limit on slaves: at the limit, sleep and start over.
AcceptorCheck ==
    /\ AcceptorGoes("check", IF should_exit THEN "done"
                             ELSE IF AtLimit THEN "check" ELSE "accept")
    /\ UNCHANGED <<slave, count>> /\ OnlyAcceptor

\* WouldBlock with an empty backlog, or an accept error, which is only logged.
AcceptorNothing ==
    AcceptorGoes("accept", "check") /\ UNCHANGED <<slave, count>> /\ OnlyAcceptor

\* The whitelist refuses s: its stream is dropped and the loop goes on.
AcceptorRefuse(s) ==
    /\ AcceptorGoes("accept", "check")
    /\ s \in Backlog(Slaves)
    /\ taken' = taken \cup {s}
    /\ UNCHANGED <<slave, count, mainVars, stopVars, dev, peer, all_streams, shut,
                   wire, feedVars, ctl, crypto, history>>

AcceptorAccept_Unregistered(s) ==
    /\ AcceptorGoes("accept", "magic")
    /\ s \in Backlog(Slaves)
    /\ taken' = taken \cup {s}
    /\ slave' = s
    /\ UNCHANGED <<count, mainVars, stopVars, dev, peer, all_streams, shut, wire,
                   feedVars, ctl, crypto, history>>

\* accept returns s, the whitelist admits it, and a clone of its stream is
\* registered.
AcceptorAccept(s) ==
    /\ AcceptorGoes("accept", "magic")
    /\ s \in Backlog(Slaves)
    /\ taken' = taken \cup {s}
    /\ all_streams' = all_streams \cup {s}
    /\ slave' = s
    /\ UNCHANGED <<count, mainVars, stopVars, dev, peer, shut, wire, feedVars, ctl,
                   crypto, history>>

AcceptorMagic_SubscribesFirst ==
    /\ ~Ended /\ acceptor = "magic"
    /\ IF writer[slave] = "none"
       THEN /\ writer' = [writer EXCEPT ![slave] = "loop"]
            /\ UNCHANGED <<acceptor, conns>>
       ELSE acceptor' = "subscribe" /\ Put(slave, "magic") /\ UNCHANGED writer
    /\ UNCHANGED <<slave, count, mainVars, stopVars, dev, pending, ctl, crypto,
                   history>>

\* The magic packet is written and flushed; errors are ignored.
AcceptorMagic ==
    /\ AcceptorGoes("magic", "subscribe")
    /\ Put(slave, "magic")
    /\ UNCHANGED <<slave, count, mainVars, stopVars, dev, feedVars, ctl, crypto,
                   history>>

\* tx.subscribe(), the spawn of the slave's writer thread, count += 1.
AcceptorSubscribe ==
    /\ AcceptorGoes("subscribe", "check")
    /\ writer' = [writer EXCEPT ![slave] = "loop"]
    /\ count' = count + 1
    /\ slave' = NoOne
    /\ UNCHANGED <<mainVars, stopVars, dev, conns, pending, ctl, crypto, history>>

AcceptorStep ==
    \/ AcceptorCheck \/ AcceptorNothing
    \/ \E s \in Slaves : AcceptorRefuse(s) \/ AcceptorAccept(s)
    \/ AcceptorMagic \/ AcceptorSubscribe

-----------------------------------------------------------------------------
(* The device and the reader thread *)

DeviceGoes(from, to) ==
    /\ ~Ended
    /\ dev \in from /\ dev' = to
    /\ UNCHANGED <<mainVars, acceptorVars, stopVars, conns, feedVars, ctl, crypto,
                   history>>

StartRead == DeviceGoes({"ready"}, "running")

\* read_async returns, with or without an error, which is ignored.
DeviceEnds == DeviceGoes({"ready", "running"}, "ended")

Live == {c \in Clients : writer[c] \in {"nonce", "loop", "write"}}

\* The receivers of the channel: those of the writer threads, and _rx, which
\* run_serve_multi holds until it returns.
Receivers == Cardinality(Live) + 1

\* The callback broadcasts a buffer; send fails only without any receiver.
DeviceBuffer ==
    /\ ~Ended
    /\ dev = "running"
    /\ IF Receivers = 0
       THEN TrySend /\ UNCHANGED pending
       ELSE pending' = pending \cup Live /\ UNCHANGED chan
    /\ UNCHANGED <<mainVars, acceptorVars, cancel, handler, should_exit, dev, conns,
                   writer, ctl, crypto, history>>

-----------------------------------------------------------------------------
(* The writer threads (the loop itself is module Broadcast) *)

AtWriter(c, point) == ~Ended /\ writer[c] = point
WriterGoes(c, point) == writer' = [writer EXCEPT ![c] = point]
NotWriter ==
    UNCHANGED <<mainVars, acceptorVars, stopVars, dev, ctl, nonces, history>>

\* With a key: the first nonces seen make the cipher, and the guard of the lock
\* lives as long as write_client_loop runs.
WriterNonce(m) ==
    /\ AtWriter(m, "nonce")
    /\ nlock = NoOne
    /\ nonces # NoOne
    /\ nlock' = m
    /\ cipher' = [cipher EXCEPT ![m] = nonces]
    /\ WriterGoes(m, "loop")
    /\ UNCHANGED <<conns, pending>> /\ NotWriter

\* The thread of c ends: its receiver and its guard, if it has one, are gone.
WriterEnds(c) ==
    /\ WriterGoes(c, "done")
    /\ pending' = pending \ {c}
    /\ nlock' = IF nlock = c THEN NoOne ELSE nlock

\* The exit flag is clear.
WriterPasses(c) ==
    /\ AtWriter(c, "loop")
    /\ ~should_exit
    /\ WriterGoes(c, "write")
    /\ UNCHANGED <<conns, pending, nlock, cipher>> /\ NotWriter

WriterExits(c) ==
    /\ AtWriter(c, "loop")
    /\ should_exit
    /\ WriterEnds(c)
    /\ UNCHANGED <<conns, cipher>> /\ NotWriter

WriterEmpty(c) ==
    /\ AtWriter(c, "write")
    /\ c \notin pending
    /\ WriterGoes(c, "loop")
    /\ UNCHANGED <<conns, pending, nlock, cipher>> /\ NotWriter

WriterOk(c) ==
    /\ AtWriter(c, "write")
    /\ c \in pending /\ pending' = pending \ {c}
    /\ Writable(c)
    /\ Put(c, "iq")
    /\ WriterGoes(c, "loop")
    /\ UNCHANGED <<nlock, cipher>> /\ NotWriter

\* The peer is gone, or it stalled for longer than the write timeout.
WriterErr(c) ==
    /\ AtWriter(c, "write")
    /\ c \in pending
    /\ WriterEnds(c)
    /\ UNCHANGED <<conns, cipher>> /\ NotWriter

WriterStep(c) ==
    \/ c \in Masters /\ WriterNonce(c)
    \/ WriterPasses(c) \/ WriterExits(c) \/ WriterEmpty(c)
    \/ WriterOk(c) \/ WriterErr(c)

-----------------------------------------------------------------------------
(* A master's control thread *)

CtlGoes(m, from, to) == ~Ended /\ ctl[m] = from /\ ctl' = [ctl EXCEPT ![m] = to]
NotCtl == UNCHANGED <<mainVars, acceptorVars, stopVars, dev, feedVars>>

\* read_exact returns a command.
CtlRead(m) ==
    /\ CtlGoes(m, "read", "check")
    /\ peer[m] \in {"open", "half"}
    /\ cmds < MaxCmds
    /\ cmds' = cmds + 1
    /\ UNCHANGED <<conns, crypto, signals, missed>> /\ NotCtl

CtlEof_Retries(m) ==
    /\ CtlGoes(m, "read", "read")
    /\ peer[m] \in {"half", "gone"}
    /\ UNCHANGED <<conns, crypto, history>> /\ NotCtl

\* read_exact fails because the peer closed.
CtlEof(m) ==
    /\ CtlGoes(m, "read", "done")
    /\ peer[m] \in {"half", "gone"}
    /\ UNCHANGED <<conns, crypto, history>> /\ NotCtl

\* The exit flag, looked at only after a whole command has been read.
CtlCheckExit(m) ==
    /\ CtlGoes(m, "check", IF should_exit THEN "done" ELSE "dispatch")
    /\ UNCHANGED <<conns, crypto, history>> /\ NotCtl

\* Any command but a chain probe, or one that is dropped.
CtlCommand(m) ==
    CtlGoes(m, "dispatch", "read") /\ UNCHANGED <<conns, crypto, history>> /\ NotCtl

\* CMD_CHAIN_DETECT: the acknowledgement, then with a key the nonce exchange.
CtlChainDetect(m) ==
    /\ CtlGoes(m, "dispatch", IF Key THEN "exchange" ELSE "read")
    /\ Put(m, "ack")
    /\ UNCHANGED <<crypto, history>> /\ NotCtl

\* server_nonce_exchange: the peer's nonce is read, ours is written.
CtlExchange(m) ==
    /\ CtlGoes(m, "exchange", "store")
    /\ Writable(m)
    /\ Put(m, "nonce")
    /\ UNCHANGED <<crypto, history>> /\ NotCtl

\* The exchange fails, by a timeout at the latest, and is only logged.
CtlExchangeFails(m) ==
    CtlGoes(m, "exchange", "read") /\ UNCHANGED <<conns, crypto, history>> /\ NotCtl

\* The nonces are stored once their lock is free.
CtlStore(m) ==
    /\ CtlGoes(m, "store", "read")
    /\ nlock = NoOne
    /\ nonces' = m
    /\ UNCHANGED <<conns, nlock, cipher, history>> /\ NotCtl

CtlStep(m) ==
    \/ CtlEof(m) \/ CtlCheckExit(m) \/ CtlCommand(m) \/ CtlChainDetect(m)
    \/ CtlExchange(m) \/ CtlExchangeFails(m) \/ CtlStore(m)

-----------------------------------------------------------------------------
(* The cancel thread and the signal handler *)

CancelGoes(from, to) == ~Ended /\ cancel = from /\ cancel' = to
NotStopping ==
    UNCHANGED <<mainVars, acceptorVars, conns, feedVars, ctl, crypto, cmds>>

CancelRecv ==
    /\ CancelGoes("recv", "cancel")
    /\ chan = 1 /\ chan' = 0
    /\ UNCHANGED <<handler, should_exit, dev, signals, missed>> /\ NotStopping

CancelRead_Missing ==
    /\ CancelGoes("cancel", "store")
    /\ UNCHANGED <<handler, chan, should_exit, dev, signals, missed>> /\ NotStopping

\* cancel_async_read has an effect only while the read is running.
CancelRead ==
    /\ CancelGoes("cancel", "store")
    /\ dev' = IF dev = "running" THEN "cancelled" ELSE dev
    /\ missed' = (missed \/ dev = "ready")
    /\ UNCHANGED <<handler, chan, should_exit, signals>> /\ NotStopping

CancelStore ==
    /\ CancelGoes("store", "done")
    /\ should_exit' = TRUE
    /\ UNCHANGED <<handler, chan, dev, signals, missed>> /\ NotStopping

CancelStep == CancelRecv \/ CancelRead \/ CancelStore

HandlerGoes(from, to) == ~Ended /\ handler = from /\ handler' = to

Signal ==
    /\ HandlerGoes("idle", "send")
    /\ signals < MaxSignals
    /\ signals' = signals + 1
    /\ UNCHANGED <<cancel, chan, should_exit, dev, missed>> /\ NotStopping

HandlerSend ==
    /\ HandlerGoes("send", "store")
    /\ TrySend
    /\ UNCHANGED <<cancel, should_exit, dev, signals, missed>> /\ NotStopping

HandlerStore ==
    /\ HandlerGoes("store", "idle")
    /\ should_exit' = TRUE
    /\ UNCHANGED <<cancel, chan, dev, signals, missed>> /\ NotStopping

HandlerStep == HandlerSend \/ HandlerStore

-----------------------------------------------------------------------------
(* The clients *)

PeerGoes(c, from, to) ==
    /\ ~Ended
    /\ peer[c] \in from
    /\ peer' = [peer EXCEPT ![c] = to]
    /\ UNCHANGED <<mainVars, acceptorVars, stopVars, dev, taken, all_streams, shut,
                   wire, feedVars, ctl, crypto, history>>

Connect(c) == PeerGoes(c, {"none"}, "open")

\* A master closes its sending side and may still be reading.
PeerHalfCloses(m) == PeerGoes(m, {"open"}, "half")

\* The connection is reset: writes fail from now on.
PeerGone(c) == PeerGoes(c, {"open", "half"}, "gone")

ClientStep ==
    \/ \E c \in Clients : Connect(c) \/ PeerGone(c)
    \/ \E m \in Masters : PeerHalfCloses(m)

-----------------------------------------------------------------------------
Stopped == Ended /\ UNCHANGED vars

Next ==
    \/ MainStep
    \/ AcceptorStep
    \/ StartRead \/ DeviceBuffer \/ DeviceEnds
    \/ \E c \in Clients : WriterStep(c)
    \/ \E m \in Masters : CtlRead(m) \/ CtlStep(m)
    \/ CancelStep
    \/ Signal \/ HandlerStep
    \/ ClientStep
    \/ Stopped

Spec == Init /\ [][Next]_vars

\* Every thread that can go on does, and a running device keeps producing
\* buffers.  Accept errors on the slave port do not go on forever while a
\* connection waits.  Nothing is assumed of signals, of the device's end or of clients:
\* they need not connect, send commands, read or disconnect.
FairSpec ==
    /\ Spec
    /\ WF_vars(MainStep)
    /\ WF_vars(AcceptorStep)
    /\ \A s \in Slaves : SF_vars(AcceptorAccept(s))
    /\ WF_vars(StartRead)
    /\ WF_vars(DeviceBuffer)
    /\ \A c \in Clients : WF_vars(WriterStep(c))
    /\ \A m \in Masters : WF_vars(CtlStep(m))
    /\ WF_vars(CancelStep)
    /\ WF_vars(HandlerStep)

-----------------------------------------------------------------------------
(* Properties *)

Peers == {"none", "open", "half", "gone"}
CtlPoints == {"none", "read", "check", "dispatch", "exchange", "store", "done"}

\* Type invariant of run_serve_multi and its threads.
TypeOK ==
    /\ main \in {"check", "accept", "subscribe", "magic", "spawn_ctl",
                 "join_ctl", "try_send", "join_cancel", "join_reader",
                 "shutdown", "return", "ok"} \cup Errors
    /\ cur \in Masters \cup {NoOne}
    /\ main \in {"subscribe", "magic", "spawn_ctl", "join_ctl"} => cur # NoOne
    /\ acceptor \in {"check", "accept", "magic", "subscribe", "done"}
    /\ slave \in Slaves \cup {NoOne}
    /\ acceptor \in {"magic", "subscribe"} <=> slave # NoOne
    /\ count \in Nat
    /\ cancel \in {"recv", "cancel", "store", "done"}
    /\ handler \in {"idle", "send", "store"}
    /\ chan \in {0, 1}
    /\ should_exit \in BOOLEAN
    /\ dev \in {"ready", "running", "cancelled", "ended"}
    /\ peer \in [Clients -> Peers]
    /\ taken \subseteq Clients
    /\ all_streams \subseteq Clients
    /\ shut \subseteq Clients
    /\ writer \in [Clients -> {"none", "nonce", "loop", "write", "done"}]
    /\ pending \subseteq Clients
    /\ ctl \in [Masters -> CtlPoints]
    /\ nonces \in Masters \cup {NoOne}
    /\ nlock \in Masters \cup {NoOne}
    /\ cipher \in [Masters -> Masters \cup {NoOne}]
    /\ wire \in [Clients -> Seq({"magic", "iq", "ack", "nonce"})]
    /\ signals \in 0..MaxSignals
    /\ cmds \in 0..MaxCmds
    /\ missed \in BOOLEAN

Commanding == {m \in Masters : ctl[m] \notin {"none", "done"}}

\* At most one master commands the device, and it is the one the main thread
\* is serving, although earlier masters may still be written to.
OneCommander == \A m \in Commanding : m = cur

\* No more than MaxSlaves slaves are ever fed at a time.
SlaveLimit == Cardinality({s \in Slaves : s \in Live}) <= MaxSlaves

\* Only a signal makes the server stop the device: masters that leave, failed
\* writes and the loss of every client do not, because run_serve_multi goes back
\* to accept and keeps a receiver of its own.  (The design document has the
\* device stopped when the last client is gone.)
CancelledForCause == dev = "cancelled" => signals > 0

\* When run_serve_multi returns Ok, the device has stopped, no control thread
\* is left and every client that was sent IQ data is shut down.  The one stream
\* that may be left open is that of a slave the acceptor was taking when the
\* exit flag was set and registered after the others had been shut down.
CleanReturn ==
    main = "ok" =>
        /\ dev \notin {"ready", "running"}
        /\ cancel = "done"
        /\ Commanding = {}
        /\ \A c \in Clients : "iq" \in Carried(c) => c \in shut
        /\ \A s, t \in all_streams \ shut : s = t /\ s \in Slaves

\* The first thing a slave is sent is the magic packet: its writer thread is
\* spawned after the acceptor has written it, unlike a master's, and a magic
\* packet whose write failed leaves a connection that takes nothing else.
SlaveMagicFirst ==
    \A s \in Slaves : wire[s] # << >> => wire[s][1] = "magic"

\* With a key, a master is sent the magic packet before anything else, unless
\* its writer thread found the nonces of an earlier master: then IQ data may
\* come first, under a nonce this master has never seen.
EarlyOnlyUnderStaleNonce ==
    Key => \A m \in Masters :
               wire[m] # << >> /\ wire[m][1] # "magic" =>
                   cipher[m] \notin {m, NoOne}

\* A signal ends the server, unless it was handled before the device read
\* began, or the server is left waiting for the connected master's next
\* command.
SignalStopsOrWaits ==
    (signals > 0) ~> \/ Ended
                     \/ missed
                     \/ main = "join_ctl" /\ ctl[cur] = "read" /\ peer[cur] = "open"

\* A master that disconnects makes room for the next one while the device is
\* streaming.
MasterReleased ==
    \A m \in Masters :
        (main = "join_ctl" /\ cur = m /\ peer[m] = "gone")
            ~> (cur # m \/ dev # "running")

-----------------------------------------------------------------------------
(* What the repository's documents say and the code does not do *)

\* --max-slaves limits concurrent slaves: with no slave being fed, one that
\* waits is taken.
SlaveSlotReused ==
    \A s \in Slaves :
        (peer[s] # "none" /\ \A t \in Slaves : writer[t] = "done" \/ t = s)
            ~> (s \in taken \/ should_exit \/ Ended)
=============================================================================
