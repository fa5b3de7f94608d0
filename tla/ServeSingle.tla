---------------------------- MODULE ServeSingle ----------------------------
(***************************************************************************)
(* Single-client serving (run_serve_single in src/src/main.rs): the main   *)
(* thread, which accepts one client and then runs the device's callback    *)
(* inside read_async; the control thread, which reads the client's         *)
(* commands; the cancel thread, which waits on a sync_channel(1); and the  *)
(* signal handler.  What a command does to the device is the subject of    *)
(* module Control; here a command is either a chain probe, which writes to *)
(* the socket, or something else.                                          *)
(*                                                                         *)
(* A read timeout of the control thread only takes it round its loop, so   *)
(* it is not a step: the thread is still at "read".                        *)
(***************************************************************************)
EXTENDS Integers, Sequences

CONSTANTS
    MaxSignals,  \* bound on the signals received
    MaxCmds      \* bound on the commands the client sends

ASSUME BoundsAssumption == MaxSignals \in Nat /\ MaxCmds \in Nat

VARIABLES
    main,         \* where the main thread is
    ctl,          \* where the control thread is
    cancel,       \* where the cancel thread is
    handler,      \* where the signal handler is
    chan,         \* messages in the sync_channel(1)
    should_exit,  \* the exit flag
    shut,         \* the handler has shut the client's socket down
    dev,          \* state of the device's asynchronous read
    peer,         \* the client's side of the connection
    wire,         \* what the client is sent; a run of buffers is one "iq"
    signals,      \* signals received
    cmds,         \* commands read
    writeFailed,  \* a write of IQ data has failed
    missed        \* cancel_async_read was called before the read had begun

shared == <<chan, should_exit, shut>>
world == <<dev, peer, wire>>
history == <<signals, cmds, writeFailed, missed>>
vars == <<main, ctl, cancel, handler, chan, should_exit, shut, dev, peer, wire,
          signals, cmds, writeFailed, missed>>

\* The main function has returned, which ends the process and all its threads.
Ended == main \in {"ok", "err"}
HandlerSet == main \notin {"accept", "open", "ok", "err"}

Init ==
    /\ main = "accept" /\ ctl = "none" /\ cancel = "none" /\ handler = "idle"
    /\ chan = 0 /\ should_exit = FALSE /\ shut = FALSE
    /\ dev = "closed" /\ peer = "none" /\ wire = << >>
    /\ signals = 0 /\ cmds = 0 /\ writeFailed = FALSE /\ missed = FALSE

\* A write to the socket can succeed: the peer has not reset the connection
\* and our side is not shut down.
Writable == peer \in {"open", "half"} /\ ~shut

\* What the client has been sent, with a run of IQ buffers recorded once.
Put(item) ==
    IF item = "iq" /\ wire # << >> /\ wire[Len(wire)] = item
    THEN wire ELSE Append(wire, item)

\* The channel accepts a message: it is empty and its receiver, owned by the
\* cancel thread, has not been dropped.
CanSend == chan = 0 /\ cancel # "done"

\* sender.try_send(()) with the result ignored.
TrySend == chan' = IF CanSend THEN 1 ELSE chan

-----------------------------------------------------------------------------
(* The main thread *)

MainGoes(from, to) == main = from /\ main' = to
OnlyMain == UNCHANGED <<ctl, cancel, handler, shared, world, history>>

\* accept returns and the whitelist admits the client.
Accept ==
    /\ MainGoes("accept", "open")
    /\ peer = "waiting" /\ peer' = "open"
    /\ UNCHANGED <<ctl, cancel, handler, shared, dev, wire, history>>

\* accept or a socket option fails, or the whitelist refuses the client.
AcceptFails == MainGoes("accept", "err") /\ OnlyMain

\* rtlsdr_mt::open succeeds and the signal handler is installed.
OpenDevice ==
    /\ MainGoes("open", "spawn_ctl")
    /\ dev' = "ready"
    /\ UNCHANGED <<ctl, cancel, handler, shared, peer, wire, history>>

OpenDeviceFails == MainGoes("open", "err") /\ OnlyMain

SpawnCtl ==
    /\ MainGoes("spawn_ctl", "spawn_cancel")
    /\ ctl' = "read"
    /\ UNCHANGED <<cancel, handler, shared, world, history>>

\* The control thread's handle of the connection cannot be made: `?`.
SpawnCtlFails == MainGoes("spawn_ctl", "err") /\ OnlyMain

SpawnCancel ==
    /\ MainGoes("spawn_cancel", "magic")
    /\ cancel' = "recv"
    /\ UNCHANGED <<ctl, handler, shared, world, history>>

SendMagic ==
    /\ MainGoes("magic", "start")
    /\ Writable
    /\ wire' = Put("magic")
    /\ UNCHANGED <<ctl, cancel, handler, shared, dev, peer, history>>

\* The client is gone, the socket is shut down, or the write timed out: `?`.
SendMagicFails == MainGoes("magic", "err") /\ OnlyMain

\* read_async begins and the device is streaming.
StartRead ==
    /\ MainGoes("start", "stream")
    /\ dev' = "running"
    /\ UNCHANGED <<ctl, cancel, handler, shared, peer, wire, history>>

\* read_async returns an error at once.
StartReadFails ==
    /\ MainGoes("start", "try_send")
    /\ dev' = "ended"
    /\ UNCHANGED <<ctl, cancel, handler, shared, peer, wire, history>>

\* read_async is running: its callback may be called.
Streaming == main = "stream" /\ dev = "running"

\* The callback writes and flushes a buffer.
CallbackOk ==
    /\ Streaming
    /\ Writable
    /\ wire' = Put("iq")
    /\ UNCHANGED <<main, ctl, cancel, handler, shared, dev, peer, history>>

CallbackErr_Silent ==
    /\ Streaming
    /\ writeFailed' = TRUE
    /\ UNCHANGED <<main, ctl, cancel, handler, shared, world, signals, cmds, missed>>

\* The write or the flush fails (the peer is gone, the socket is shut down, or
\* the client stalled for longer than the write timeout).
CallbackErr ==
    /\ Streaming
    /\ TrySend
    /\ writeFailed' = TRUE
    /\ UNCHANGED <<main, ctl, cancel, handler, should_exit, shut, world,
                   signals, cmds, missed>>

ReadReturns ==
    /\ MainGoes("stream", "try_send")
    /\ dev \in {"cancelled", "ended"}
    /\ OnlyMain

WakeCancel_Dropped == MainGoes("try_send", "join_cancel") /\ OnlyMain

\* The try_send after read_async, so that the cancel thread is not left in
\* recv.
WakeCancel ==
    /\ MainGoes("try_send", "join_cancel")
    /\ TrySend
    /\ UNCHANGED <<ctl, cancel, handler, should_exit, shut, world, history>>

JoinCancel_NoWait == MainGoes("join_cancel", "join_ctl") /\ OnlyMain

JoinCancel ==
    MainGoes("join_cancel", "join_ctl") /\ cancel = "done" /\ OnlyMain

JoinCtl == MainGoes("join_ctl", "ok") /\ ctl = "done" /\ OnlyMain

MainStep ==
    \/ Accept \/ AcceptFails \/ OpenDevice \/ OpenDeviceFails
    \/ SpawnCtl \/ SpawnCtlFails \/ SpawnCancel \/ SendMagic \/ SendMagicFails
    \/ StartRead \/ StartReadFails \/ ReadReturns
    \/ WakeCancel \/ JoinCancel \/ JoinCtl

Callback == CallbackOk \/ CallbackErr

-----------------------------------------------------------------------------
(* The control thread *)

CtlGoes(from, to) == ~Ended /\ ctl = from /\ ctl' = to
OnlyCtl == UNCHANGED <<main, cancel, handler, shared, world, history>>

\* read_exact returns a command; what arrived before the peer's FIN or before
\* our shutdown can still be read.
CtlRead ==
    /\ CtlGoes("read", "check")
    /\ peer \in {"open", "half"}
    /\ cmds < MaxCmds
    /\ cmds' = cmds + 1
    /\ UNCHANGED <<main, cancel, handler, shared, world, signals, writeFailed, missed>>

CtlEof_Cancels ==
    /\ CtlGoes("read", "done") /\ (shut \/ peer \in {"half", "gone"})
    /\ TrySend
    /\ UNCHANGED <<main, cancel, handler, should_exit, shut, world, history>>

\* read_exact fails because the peer closed or the handler shut the socket
\* down.
CtlEof ==
    CtlGoes("read", "done") /\ (shut \/ peer \in {"half", "gone"}) /\ OnlyCtl

\* The exit flag, looked at only after a whole command has been read.
CtlCheck == CtlGoes("check", IF should_exit THEN "done" ELSE "dispatch") /\ OnlyCtl

\* CMD_CHAIN_DETECT: the acknowledgement is written from this thread; a
\* failure to write it is only logged.
CtlChainDetect ==
    /\ CtlGoes("dispatch", "read")
    /\ wire' = IF Writable THEN Put("ack") ELSE wire
    /\ UNCHANGED <<main, cancel, handler, shared, dev, peer, history>>

\* Any other command, or one the rate limiter or validation drops.
CtlCommand == CtlGoes("dispatch", "read") /\ OnlyCtl

CtlOwnStep == CtlEof \/ CtlCheck \/ CtlChainDetect \/ CtlCommand

-----------------------------------------------------------------------------
(* The cancel thread *)

CancelGoes(from, to) == ~Ended /\ cancel = from /\ cancel' = to

CancelRecv ==
    /\ CancelGoes("recv", "cancel")
    /\ chan = 1 /\ chan' = 0
    /\ UNCHANGED <<main, ctl, handler, should_exit, shut, world, history>>

\* cancel_async_read has an effect only while the read is running.
CancelRead ==
    /\ CancelGoes("cancel", "store")
    /\ dev' = IF dev = "running" THEN "cancelled" ELSE dev
    /\ missed' = (missed \/ dev = "ready")
    /\ UNCHANGED <<main, ctl, handler, shared, peer, wire, signals, cmds, writeFailed>>

CancelStore ==
    /\ CancelGoes("store", "done")
    /\ should_exit' = TRUE
    /\ UNCHANGED <<main, ctl, handler, chan, shut, world, history>>

CancelStep == CancelRecv \/ CancelRead \/ CancelStore

-----------------------------------------------------------------------------
(* The signal handler *)

HandlerGoes(from, to) == ~Ended /\ handler = from /\ handler' = to

Signal ==
    /\ HandlerGoes("idle", "send")
    /\ HandlerSet
    /\ signals < MaxSignals
    /\ signals' = signals + 1
    /\ UNCHANGED <<main, ctl, cancel, shared, world, cmds, writeFailed, missed>>

\* try_send; when the channel is full or its receiver is gone, the flag is set
\* instead.
HandlerSend ==
    /\ HandlerGoes("send", "shut")
    /\ TrySend
    /\ should_exit' = (should_exit \/ ~CanSend)
    /\ UNCHANGED <<main, ctl, cancel, shut, world, history>>

HandlerShut_Missing ==
    /\ HandlerGoes("shut", "idle")
    /\ UNCHANGED <<main, ctl, cancel, shared, world, history>>

\* stream.shutdown(Both) unblocks the control thread's read.
HandlerShut ==
    /\ HandlerGoes("shut", "idle")
    /\ shut' = TRUE
    /\ UNCHANGED <<main, ctl, cancel, chan, should_exit, world, history>>

HandlerStep == HandlerSend \/ HandlerShut

-----------------------------------------------------------------------------
(* The client and the device *)

PeerGoes(from, to) ==
    /\ ~Ended
    /\ peer \in from
    /\ peer' = to
    /\ UNCHANGED <<main, ctl, cancel, handler, shared, dev, wire, history>>

Connect == PeerGoes({"none"}, "waiting")

\* The client closes its sending side; it may still be reading.
PeerHalfCloses == PeerGoes({"open"}, "half")

\* The connection is reset: writes fail from now on.
PeerGone == PeerGoes({"open", "half"}, "gone")

\* The device is unplugged or read_async ends by itself.
DeviceEnds ==
    /\ ~Ended
    /\ dev = "running" /\ dev' = "ended"
    /\ UNCHANGED <<main, ctl, cancel, handler, shared, peer, wire, history>>

\* The process has ended.
Stopped == Ended /\ UNCHANGED vars

Next ==
    \/ MainStep \/ Callback
    \/ CtlRead \/ CtlOwnStep
    \/ CancelStep
    \/ Signal \/ HandlerStep
    \/ Connect \/ PeerHalfCloses \/ PeerGone \/ DeviceEnds
    \/ Stopped

Spec == Init /\ [][Next]_vars

\* Every thread that can go on does, and a running device keeps calling the
\* callback, whose write fails if the connection takes no data.  Nothing is assumed of signals, of the device's end or of the
\* client: it need not send commands, read or ever disconnect.
FairSpec ==
    /\ Spec
    /\ WF_vars(MainStep)
    /\ WF_vars(~Writable /\ CallbackErr)
    /\ WF_vars(CtlOwnStep)
    /\ WF_vars(CancelStep)
    /\ WF_vars(HandlerStep)

-----------------------------------------------------------------------------
(* Properties *)

\* Type invariant of run_serve_single.
TypeOK ==
    /\ main \in {"accept", "open", "spawn_ctl", "spawn_cancel", "magic",
                 "start", "stream", "try_send", "join_cancel", "join_ctl",
                 "ok", "err"}
    /\ ctl \in {"none", "read", "check", "dispatch", "done"}
    /\ cancel \in {"none", "recv", "cancel", "store", "done"}
    /\ handler \in {"idle", "send", "shut"}
    /\ chan \in {0, 1}
    /\ should_exit \in BOOLEAN
    /\ shut \in BOOLEAN
    /\ dev \in {"closed", "ready", "running", "cancelled", "ended"}
    /\ peer \in {"none", "waiting", "open", "half", "gone"}
    /\ wire \in Seq({"magic", "ack", "iq"})
    /\ signals \in 0..MaxSignals
    /\ cmds \in 0..MaxCmds
    /\ writeFailed \in BOOLEAN
    /\ missed \in BOOLEAN

\* The exit flag never stands alone: when it is set, by the cancel thread or by
\* a second signal ("exiting immediately"), the cancellation of the device read
\* is queued, under way or done.
ExitMeansCancelling == should_exit => chan = 1 \/ cancel \in {"cancel", "store", "done"}

\* When run_serve_single returns Ok, the device is not streaming any more, both
\* threads have ended and nobody is left waiting on the channel.
CleanReturn ==
    main = "ok" => dev # "running" /\ ctl = "done" /\ cancel = "done"
                   /\ should_exit

\* The device is cancelled only because of a signal or of a failed write: a
\* client that stops sending commands, or half-closes, is still served.
CancelledForCause == dev = "cancelled" => signals > 0 \/ writeFailed

\* No IQ data precedes the magic packet on the client's connection.
IqAfterMagic ==
    \A i \in 1..Len(wire) : wire[i] = "iq" =>
        \E j \in 1..(i - 1) : wire[j] = "magic"

\* A signal ends the program whatever the client does, unless it was handled
\* before the device read began, when there is nothing to cancel yet.
SignalStopsServer == (signals > 0) ~> (Ended \/ missed)

\* A client whose connection is reset while it is being streamed to ends the
\* program, although its control thread may be waiting for a command.
ResetStopsServer == (peer = "gone" /\ main = "stream") ~> (Ended \/ missed)

\* When the device ends, the program ends or is left waiting for nothing but
\* the client's next command.
DeviceEndLeavesOnlyCtl ==
    (dev = "ended") ~> (Ended \/ (main = "join_ctl" /\ ctl = "read"
                                  /\ peer = "open" /\ ~shut))
=============================================================================
