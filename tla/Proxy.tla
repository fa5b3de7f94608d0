------------------------------- MODULE Proxy -------------------------------
(***************************************************************************)
(* Proxy mode (run_proxy_multi in src/src/main.rs) after connect_upstream  *)
(* has returned (module Handshake): the upstream reader thread broadcasts  *)
(* what the upstream sends; the main thread takes one master at a time,    *)
(* whose control thread forwards commands to the upstream, under a cipher  *)
(* and a socket that outlive the master.                                   *)
(*                                                                         *)
(* Slaves are taken by the acceptor thread of module ServeMulti            *)
(* (spawn_slave_acceptor), and writer threads run the loop of module       *)
(* Broadcast, which says when they write and when they end; here one that  *)
(* was spawned may write or not, and one that ends writes no more.  The    *)
(* messages the signal handler, the reader and the main thread put into    *)
(* the sync_channel(1) are left out: its receiver is held and never read,  *)
(* and a full channel is ignored, so they have no effect.                  *)
(***************************************************************************)
EXTENDS Integers, Sequences

CONSTANTS
    Masters,     \* connections made to the master port
    MaxCmds,     \* bound on the commands read from masters
    MaxSignals,  \* bound on the signals received
    NoOne        \* stands for no connection

ASSUME MastersAssumption == NoOne \notin Masters
ASSUME BoundsAssumption == MaxCmds \in Nat /\ MaxSignals \in Nat

VARIABLES
    main,         \* where the main thread is
    cur,          \* the master being served, or NoOne
    reader,       \* where the upstream reader thread is
    should_exit,  \* the exit flag
    upstream,     \* open, closed by the upstream, or reset
    peer,         \* peer[m]: the master's side of its connection
    taken,        \* connections returned by accept
    wire,         \* wire[m]: the kinds of item m was sent, by first occurrence
    fed,          \* masters subscribed, with a writer thread
    ctl,          \* ctl[m]: where m's control thread is
    keystream,    \* commands the write cipher has been applied to
    received,     \* what the upstream got: the command and its keystream position
    cmds,         \* commands read from masters
    signals       \* signals received

mainVars == <<main, cur>>
clientVars == <<peer, taken, wire>>
forwardVars == <<keystream, received, cmds>>
stopVars == <<should_exit, signals>>
vars == <<main, cur, reader, should_exit, upstream, peer, taken, wire, fed,
          ctl, keystream, received, cmds, signals>>

Errors == {"err_accept", "err_refused", "err_magic"}
Ended == main \in {"ok"} \cup Errors

\* The state in which the main thread enters its accept loop.
Init ==
    /\ main = "check" /\ cur = NoOne
    /\ reader = "check" /\ should_exit = FALSE
    /\ upstream = "open"
    /\ peer = [m \in Masters |-> "none"] /\ taken = {}
    /\ wire = [m \in Masters |-> << >>]
    /\ fed = {}
    /\ ctl = [m \in Masters |-> "none"]
    /\ keystream = 0 /\ received = << >>
    /\ cmds = 0 /\ signals = 0

Backlog == {m \in Masters : peer[m] # "none" /\ m \notin taken}
Writable(m) == peer[m] \in {"open", "half"}
Carried(m) == {wire[m][i] : i \in 1..Len(wire[m])}

Put(m, kind) ==
    wire' = [wire EXCEPT ![m] = IF kind \in Carried(m) THEN @ ELSE Append(@, kind)]

-----------------------------------------------------------------------------
(* The main thread *)

MainGoes(from, to) ==
    /\ main = from /\ main' = to
    /\ UNCHANGED <<reader, upstream, forwardVars, signals>>
OnlyMain == UNCHANGED <<should_exit, clientVars, fed, ctl>>

MainCheckExit ==
    /\ MainGoes("check", IF should_exit THEN "store" ELSE "accept")
    /\ UNCHANGED cur /\ OnlyMain

MainAcceptNothing ==
    MainGoes("accept", "check") /\ Backlog = {} /\ UNCHANGED cur /\ OnlyMain

MainAcceptFails == MainGoes("accept", "err_accept") /\ UNCHANGED cur /\ OnlyMain

MainAccept(m) ==
    /\ MainGoes("accept", "magic")
    /\ m \in Backlog
    /\ taken' = taken \cup {m}
    /\ cur' = m
    /\ UNCHANGED <<should_exit, peer, wire, fed, ctl>>

\* The whitelist refuses m: `?` returns from run_proxy_multi.
MainRefuse(m) ==
    /\ MainGoes("accept", "err_refused")
    /\ m \in Backlog
    /\ UNCHANGED cur /\ OnlyMain

\* The upstream's magic packet, before the master is subscribed.
MainMagic ==
    /\ MainGoes("magic", "subscribe")
    /\ Writable(cur)
    /\ Put(cur, "magic")
    /\ UNCHANGED <<cur, should_exit, peer, taken, fed, ctl>>

\* The write fails or times out: `?` returns from run_proxy_multi.
MainMagicFails == MainGoes("magic", "err_magic") /\ UNCHANGED cur /\ OnlyMain

\* tx.subscribe(), and the spawn of the writer thread.
MainSubscribe ==
    /\ MainGoes("subscribe", "spawn_ctl")
    /\ fed' = fed \cup {cur}
    /\ UNCHANGED <<cur, should_exit, clientVars, ctl>>

MainSpawnCtl_NoJoin ==
    /\ MainGoes("spawn_ctl", "check")
    /\ ctl' = [ctl EXCEPT ![cur] = "read"]
    /\ cur' = NoOne
    /\ UNCHANGED <<should_exit, clientVars, fed>>

MainSpawnCtl ==
    /\ MainGoes("spawn_ctl", "join_ctl")
    /\ ctl' = [ctl EXCEPT ![cur] = "read"]
    /\ UNCHANGED <<cur, should_exit, clientVars, fed>>

MainJoinCtl ==
    /\ MainGoes("join_ctl", "check")
    /\ ctl[cur] = "done"
    /\ cur' = NoOne
    /\ OnlyMain

\* Full shutdown: the flag, then the join of the upstream reader.
MainStore ==
    /\ MainGoes("store", "join_reader")
    /\ should_exit' = TRUE
    /\ UNCHANGED <<cur, clientVars, fed, ctl>>

MainJoinReader ==
    MainGoes("join_reader", "ok") /\ reader = "done" /\ UNCHANGED cur /\ OnlyMain

MainStep ==
    \/ MainCheckExit \/ MainAcceptNothing \/ MainAcceptFails
    \/ \E m \in Masters : MainAccept(m) \/ MainRefuse(m)
    \/ MainMagic \/ MainMagicFails \/ MainSubscribe
    \/ MainSpawnCtl \/ MainJoinCtl \/ MainStore \/ MainJoinReader

-----------------------------------------------------------------------------
(* The upstream reader thread *)

ReaderGoes(from, to) ==
    /\ ~Ended
    /\ reader = from /\ reader' = to
    /\ UNCHANGED <<mainVars, signals, upstream, clientVars, fed, ctl, forwardVars>>

ReaderCheck_Skipped == ReaderGoes("check", "read") /\ UNCHANGED should_exit

ReaderCheck ==
    /\ ReaderGoes("check", IF should_exit THEN "done" ELSE "read")
    /\ UNCHANGED should_exit

\* read returns IQ data, which is broadcast, or times out after 30 seconds.
ReaderLoops ==
    ReaderGoes("read", "check") /\ upstream # "reset" /\ UNCHANGED should_exit

ReaderEnds_Exits ==
    /\ ReaderGoes("read", "done")
    /\ upstream \in {"closed", "reset"}
    /\ should_exit' = TRUE

\* Ok(0) or a read error: the thread ends and nobody is told.
ReaderEnds ==
    /\ ReaderGoes("read", "done")
    /\ upstream \in {"closed", "reset"}
    /\ UNCHANGED should_exit

ReaderStep == ReaderCheck \/ ReaderLoops \/ ReaderEnds

-----------------------------------------------------------------------------
(* The writer threads (the loop itself is module Broadcast) *)

WriterOk(m) ==
    /\ ~Ended
    /\ m \in fed /\ Writable(m)
    /\ Put(m, "iq")
    /\ UNCHANGED <<mainVars, reader, stopVars, upstream, peer, taken, fed, ctl,
                   forwardVars>>

-----------------------------------------------------------------------------
(* A master's control thread *)

CtlGoes(m, from, to) ==
    /\ ~Ended
    /\ ctl[m] = from /\ ctl' = [ctl EXCEPT ![m] = to]
    /\ UNCHANGED <<mainVars, reader, stopVars, clientVars, fed>>

\* read_exact returns a command.
CtlRead(m) ==
    /\ CtlGoes(m, "read", "check")
    /\ Writable(m)
    /\ cmds < MaxCmds /\ cmds' = cmds + 1
    /\ UNCHANGED <<upstream, keystream, received>>

\* read_exact fails because the master closed.
CtlEof(m) ==
    /\ CtlGoes(m, "read", "done")
    /\ peer[m] \in {"half", "gone"}
    /\ UNCHANGED <<upstream, forwardVars>>

CtlExits(m) ==
    /\ CtlGoes(m, "check", "done")
    /\ should_exit
    /\ UNCHANGED <<upstream, forwardVars>>

CtlRateLimited_AfterCipher(m) ==
    /\ CtlGoes(m, "check", "read")
    /\ ~should_exit
    /\ keystream' = keystream + 1
    /\ UNCHANGED <<upstream, received, cmds>>

\* The exit flag is clear and rl.check() is false (module Control says when).
CtlRateLimited(m) ==
    /\ CtlGoes(m, "check", "read")
    /\ ~should_exit
    /\ UNCHANGED <<upstream, forwardVars>>

\* The command passes and is encrypted; the cipher's lock is held until it is
\* written, and only this thread wants it.
CtlEncrypt(m) ==
    /\ CtlGoes(m, "check", "write")
    /\ ~should_exit
    /\ keystream' = keystream + 1
    /\ UNCHANGED <<upstream, received, cmds>>

\* write_all under the upstream's lock.  An upstream that has closed gets
\* nothing, although the first write to it returns Ok.
CtlWriteOk(m) ==
    /\ CtlGoes(m, "write", "read")
    /\ upstream \in {"open", "closed"}
    /\ received' = IF upstream = "open"
                   THEN Append(received, [from |-> m, cmd |-> cmds, at |-> keystream])
                   ELSE received
    /\ upstream' = IF upstream = "closed" THEN "reset" ELSE upstream
    /\ UNCHANGED <<keystream, cmds>>

CtlWriteErr_Continues(m) ==
    /\ CtlGoes(m, "write", "write")
    /\ upstream \in {"closed", "reset"}
    /\ UNCHANGED <<upstream, forwardVars>>

\* write_all fails: the thread ends, the master stays connected.
CtlWriteErr(m) ==
    /\ CtlGoes(m, "write", "done")
    /\ upstream \in {"closed", "reset"}
    /\ UNCHANGED <<upstream, forwardVars>>

CtlStep(m) ==
    \/ CtlEof(m) \/ CtlExits(m) \/ CtlRateLimited(m) \/ CtlEncrypt(m)
    \/ CtlWriteErr(m)

-----------------------------------------------------------------------------
(* Signals, the masters and the upstream *)

Elsewhere(unchanged) ==
    /\ ~Ended
    /\ UNCHANGED <<mainVars, reader, wire, taken, fed, ctl, forwardVars>>
    /\ UNCHANGED unchanged

\* The handler's store of the exit flag.
Signal ==
    /\ signals < MaxSignals /\ signals' = signals + 1
    /\ should_exit' = TRUE
    /\ Elsewhere(<<peer, upstream>>)

PeerGoes(m, from, to) ==
    /\ peer[m] \in from
    /\ peer' = [peer EXCEPT ![m] = to]
    /\ Elsewhere(<<stopVars, upstream>>)

Connect(m) == PeerGoes(m, {"none"}, "open")
PeerHalfCloses(m) == PeerGoes(m, {"open"}, "half")
PeerGone(m) == PeerGoes(m, {"open", "half"}, "gone")

\* The upstream closes its end, or is lost.
UpstreamGoes(from, to) ==
    /\ upstream \in from /\ upstream' = to
    /\ Elsewhere(<<stopVars, peer>>)

UpstreamChanges ==
    \/ UpstreamGoes({"open"}, "closed")
    \/ UpstreamGoes({"open", "closed"}, "reset")

Stopped == Ended /\ UNCHANGED vars

Next ==
    \/ MainStep \/ ReaderStep
    \/ \E m \in Masters :
        \/ WriterOk(m) \/ CtlRead(m) \/ CtlStep(m) \/ CtlWriteOk(m)
        \/ Connect(m) \/ PeerHalfCloses(m) \/ PeerGone(m)
    \/ Signal \/ UpstreamChanges
    \/ Stopped

Spec == Init /\ [][Next]_vars

\* Every thread runs, and its timed reads and writes return.  The write to the
\* upstream has no timeout: an open upstream that does not read may block it for
\* good, so CtlWriteOk is not fair.  Nothing is assumed of masters, signals and
\* the upstream.
FairSpec ==
    /\ Spec
    /\ WF_vars(MainStep) /\ WF_vars(ReaderStep)
    /\ \A m \in Masters : WF_vars(CtlStep(m))

-----------------------------------------------------------------------------
(* Properties *)

\* Type invariant of run_proxy_multi and its threads.
TypeOK ==
    /\ main \in {"check", "accept", "magic", "subscribe", "spawn_ctl", "join_ctl",
                 "store", "join_reader", "ok"} \cup Errors
    /\ cur \in Masters \cup {NoOne}
    /\ (main \in {"magic", "subscribe", "spawn_ctl", "join_ctl"}) => cur # NoOne
    /\ reader \in {"check", "read", "done"}
    /\ should_exit \in BOOLEAN
    /\ upstream \in {"open", "closed", "reset"}
    /\ peer \in [Masters -> {"none", "open", "half", "gone"}]
    /\ taken \subseteq Masters
    /\ wire \in [Masters -> Seq({"magic", "iq"})]
    /\ fed \subseteq Masters
    /\ ctl \in [Masters -> {"none", "read", "check", "write", "done"}]
    /\ keystream \in Nat
    /\ received \in Seq([from : Masters, cmd : Nat, at : Nat])
    /\ cmds \in Nat
    /\ signals \in Nat

Commanding == {m \in Masters : ctl[m] \notin {"none", "done"}}

\* The upstream decrypts the i-th command it gets at position i of the
\* keystream: the proxy encrypted it there, although commands are dropped by rate
\* limits, writes fail, and masters change while the cipher lives on.
KeystreamInSync == \A i \in 1..Len(received) : received[i].at = i

\* The upstream gets commands once and in the order they were read; one master
\* at a time forwards them.
ForwardedInOrder ==
    /\ \A m \in Commanding : m = cur
    /\ \A i, j \in 1..Len(received) : i < j => received[i].cmd < received[j].cmd

\* A master is sent the magic packet before any IQ data: it is subscribed after.
MagicFirst == \A m \in Masters : wire[m] # << >> => wire[m][1] = "magic"

\* A return without an error has a signal behind it, even if the upstream is
\* lost, and leaves no thread that reads the upstream or writes to it.
CleanReturn ==
    main = "ok" => signals > 0 /\ reader = "done" /\ Commanding = {}

\* A signal ends the proxy, unless it is left waiting for the connected master's
\* next command, or for an upstream that does not take a command.
SignalStopsOrWaits ==
    (signals > 0) ~>
        \/ Ended
        \/ /\ main = "join_ctl"
           /\ \/ ctl[cur] = "read" /\ peer[cur] = "open"
              \/ ctl[cur] = "write" /\ upstream = "open"

\* With the upstream lost, a master that sends a command is let go and the next
\* one is taken.
MasterReleased ==
    \A m \in Masters :
        (cur = m /\ ctl[m] = "write" /\ upstream = "reset") ~> (cur # m \/ Ended)
=============================================================================
