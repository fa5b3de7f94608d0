----------------------------- MODULE Handshake -----------------------------
(***************************************************************************)
(* A proxy's connection to its upstream: connect_upstream (src/proxy.rs)   *)
(* with nonce_exchange (src/encryption.rs), against the threads of the     *)
(* upstream that share the socket: the main thread writes the magic        *)
(* packet, a writer thread IQ data, the control thread acknowledgements    *)
(* and its nonce.  Then the proxy relays IQ data down and commands up.     *)
(*                                                                         *)
(* Each direction is a sequence of bytes, of which only the kind matters.  *)
(* The kinds: down, "m" magic packet, "q" IQ data, "x" encrypted IQ data,  *)
(* "A" and "a" the first and the other bytes of an acknowledgement, "n"    *)
(* nonce; up, "P" and "p" a probe, "C" and "c" another command, "S" and    *)
(* "s", "E" and "e" the two encrypted, "n" nonce.  A connection that breaks *)
(* while a read waits is not distinguished from one that stays silent.     *)
(***************************************************************************)
EXTENDS Integers, Sequences, FiniteSets

CONSTANTS
    MagicLen, CmdLen, NonceLen,  \* 12, 5 and 12 in the program
    MaxIq,                       \* bound on the bytes of IQ data sent
    MaxCmds,                     \* bound on the commands forwarded
    Setups                       \* the upstreams and keys considered

\* What the upstream is: an rtl_tcp that knows no probe, rtltcp with one client, or
\* rtltcp with a slave port; which ends have the key; and whether the upstream
\* still stores the nonces of a master it had before.
ASSUME SetupsAssumption ==
    Setups \subseteq [kind : {"plain", "single", "multi"}, proxyKey : BOOLEAN,
                      serverKey : BOOLEAN, stale : BOOLEAN]
\* A nonce is longer than a command: after an exchange that went wrong, one
\* acknowledgement cannot be taken for a nonce.
ASSUME LengthsAssumption ==
    /\ MagicLen \in Nat \ {0} /\ CmdLen \in Nat \ {0} /\ NonceLen \in Nat \ {0}
    /\ CmdLen < NonceLen
    /\ MaxIq \in Nat /\ MaxCmds \in Nat

VARIABLES
    setup,       \* the setup of this connection
    proxy,       \* where connect_upstream is; "up" when it has returned Ok
    is_chain,    \* the upstream has acknowledged the probe
    peer_nonce,  \* the bytes the proxy took for the upstream's nonce
    down, up,    \* bytes under way to the proxy and to the upstream
    relayed,     \* IQ bytes the upstream reader broadcast to the proxy's clients
    cmds,        \* commands forwarded
    lost,        \* IQ bytes connect_upstream took for something else
    server,      \* where the upstream's main thread is
    writer,      \* where the upstream's writer thread is
    ctl,         \* where the upstream's control thread is
    nonces,      \* the nonces stored at the upstream: none, stale or own
    got_nonce,   \* the bytes the upstream took for the proxy's nonce
    iq,          \* IQ bytes sent
    in_step,     \* the upstream's control thread has dropped no byte since it
                 \* made its cipher
    garbled,     \* the upstream has handled a frame the proxy did not send
    again        \* an encrypted probe has made the upstream repeat the exchange

proxyVars == <<proxy, is_chain, peer_nonce, relayed, cmds, lost>>
serverVars == <<server, writer, ctl, nonces, got_nonce, iq, in_step, garbled, again>>
vars == <<setup, proxy, is_chain, peer_nonce, down, up, relayed, cmds, lost,
          server, writer, ctl, nonces, got_nonce, iq, in_step, garbled, again>>

Bytes(n, first, rest) == [i \in 1..n |-> IF i = 1 THEN first ELSE rest]
Magic == Bytes(MagicLen, "m", "m")
Probe == Bytes(CmdLen, "P", "p")
ClearFrame == Bytes(CmdLen, "C", "c")
SealedProbe == Bytes(CmdLen, "S", "s")
SealedFrame == Bytes(CmdLen, "E", "e")
Ack == Bytes(CmdLen, "A", "a")
NonceBytes == Bytes(NonceLen, "n", "n")

Taken(s, n) == SubSeq(s, 1, n)
Left(s, n) == SubSeq(s, n + 1, Len(s))
IqIn(s) == Cardinality({i \in 1..Len(s) : s[i] \in {"q", "x"}})

Init ==
    /\ setup \in Setups
    /\ proxy = "connect" /\ is_chain = FALSE /\ peer_nonce = << >>
    /\ down = << >> /\ up = << >> /\ relayed = << >> /\ cmds = 0 /\ lost = 0
    /\ server = "accept" /\ writer = "none" /\ ctl = "none"
    /\ nonces = IF setup.stale THEN "stale" ELSE "none"
    /\ got_nonce = << >> /\ iq = 0
    /\ in_step = TRUE /\ garbled = FALSE /\ again = FALSE

-----------------------------------------------------------------------------
(* connect_upstream *)

ProxyGoes(from, to) ==
    /\ proxy = from /\ proxy' = to
    /\ UNCHANGED <<setup, relayed, cmds, serverVars>>

\* read_exact of n bytes returns.
Reads(n) ==
    /\ Len(down) >= n
    /\ down' = Left(down, n)
    /\ lost' = lost + IqIn(Taken(down, n))

\* read_exact of n bytes ends with an error; what has arrived is taken.
ReadTimesOut(n) ==
    /\ Len(down) < n
    /\ down' = << >>
    /\ lost' = lost + IqIn(down)

ConnectFails ==
    /\ ProxyGoes("connect", "error")
    /\ server = "accept"
    /\ UNCHANGED <<is_chain, peer_nonce, down, up, lost>>

ReadMagic ==
    /\ ProxyGoes("magic", "probe") /\ Reads(MagicLen)
    /\ UNCHANGED <<is_chain, peer_nonce, up>>

ReadMagicFails ==
    /\ ProxyGoes("magic", "error") /\ ReadTimesOut(MagicLen)
    /\ UNCHANGED <<is_chain, peer_nonce, up>>

WriteProbe ==
    /\ ProxyGoes("probe", "ack")
    /\ up' = up \o Probe
    /\ UNCHANGED <<is_chain, peer_nonce, down, lost>>

\* ack[0] == CMD_CHAIN_DETECT: a byte of IQ data or of a nonce may have any value.
LooksLikeAck(byte) == IF byte \in {"q", "x", "n"} THEN BOOLEAN ELSE {byte = "A"}

AfterAck(chain) == IF chain /\ setup.proxyKey THEN "send_nonce" ELSE "up"

ReadAck_Resyncs ==
    \E n \in CmdLen..Len(down) :
        /\ down[n - CmdLen + 1] = "A"
        /\ ProxyGoes("ack", AfterAck(TRUE)) /\ Reads(n)
        /\ is_chain' = TRUE
        /\ UNCHANGED <<peer_nonce, up>>

ReadAck ==
    \E chain \in LooksLikeAck(down[1]) :
        /\ ProxyGoes("ack", AfterAck(chain)) /\ Reads(CmdLen)
        /\ is_chain' = chain
        /\ UNCHANGED <<peer_nonce, up>>

\* No acknowledgement within 500 ms: plain TCP.
ReadAckTimesOut ==
    /\ ProxyGoes("ack", "up") /\ ReadTimesOut(CmdLen)
    /\ UNCHANGED <<is_chain, peer_nonce, up>>

\* nonce_exchange sends first.
SendNonce ==
    /\ ProxyGoes("send_nonce", "read_nonce")
    /\ up' = up \o NonceBytes
    /\ UNCHANGED <<is_chain, peer_nonce, down, lost>>

ReadNonce ==
    /\ ProxyGoes("read_nonce", "up") /\ Reads(NonceLen)
    /\ peer_nonce' = Taken(down, NonceLen)
    /\ UNCHANGED <<is_chain, up>>

ReadNonceFails ==
    /\ ProxyGoes("read_nonce", "error") /\ ReadTimesOut(NonceLen)
    /\ UNCHANGED <<is_chain, peer_nonce, up>>

\* write_all of the probe or of the nonce fails.
WriteFails ==
    /\ \E point \in {"probe", "send_nonce"} : ProxyGoes(point, "error")
    /\ UNCHANGED <<is_chain, peer_nonce, down, up, lost>>

Connecting ==
    \/ ReadMagic \/ ReadMagicFails \/ WriteProbe
    \/ down # << >> /\ ReadAck
    \/ ReadAckTimesOut \/ SendNonce \/ ReadNonce \/ ReadNonceFails

-----------------------------------------------------------------------------
(* The proxy once it is connected *)

write_cipher == is_chain /\ setup.proxyKey

\* The upstream reader broadcasts what it reads, as it is; relayed records the IQ
\* data in it.
Relay ==
    /\ proxy = "up" /\ down # << >>
    /\ relayed' = IF Head(down) \in {"q", "x"} THEN Append(relayed, Head(down)) ELSE relayed
    /\ down' = Tail(down)
    /\ UNCHANGED <<setup, proxy, is_chain, peer_nonce, up, cmds, lost, serverVars>>

Forwarded_InClear == {ClearFrame, Probe}

\* What is forwarded of a command is not looked at: it may be the probe of a proxy
\* further down the chain.
Forwarded ==
    IF write_cipher THEN {SealedFrame, SealedProbe} ELSE {ClearFrame, Probe}

\* The control thread of a master of the proxy forwards a command.
Forward ==
    /\ proxy = "up" /\ cmds < MaxCmds
    /\ cmds' = cmds + 1
    /\ \E frame \in Forwarded : up' = up \o frame
    /\ UNCHANGED <<setup, proxy, is_chain, peer_nonce, down, relayed, lost, serverVars>>

-----------------------------------------------------------------------------
(* The upstream *)

Multi == setup.kind = "multi"
Keyed == Multi /\ setup.serverKey

\* The proxy connects and is accepted; in multi-client mode the writer thread
\* is spawned before the magic packet is written.
Accept ==
    /\ proxy = "connect" /\ proxy' = "magic"
    /\ server = "accept" /\ server' = "magic"
    /\ writer' = IF Keyed THEN "wait" ELSE IF Multi THEN "run" ELSE "none"
    /\ UNCHANGED <<setup, is_chain, peer_nonce, down, up, relayed, cmds, lost, ctl,
                   nonces, got_nonce, iq, in_step, garbled, again>>

\* What the upstream's threads leave alone but where they say otherwise.
ServerGoes == UNCHANGED <<setup, proxyVars, in_step, garbled, again>>

\* The magic packet; in the other modes IQ data is sent only after it.
SendMagic ==
    /\ server = "magic" /\ server' = "served"
    /\ down' = down \o Magic
    /\ ctl' = "read"
    /\ writer' = IF Multi THEN writer ELSE "run"
    /\ UNCHANGED <<up, nonces, got_nonce, iq>> /\ ServerGoes

WriterNonce_NoWait ==
    /\ writer = "wait" /\ writer' = "run"
    /\ UNCHANGED <<down, up, server, ctl, nonces, got_nonce, iq>> /\ ServerGoes

\* The writer thread finds nonces, makes its cipher and keeps their lock.
WriterNonce ==
    /\ writer = "wait" /\ writer' = "run"
    /\ nonces # "none"
    /\ UNCHANGED <<down, up, server, ctl, nonces, got_nonce, iq>> /\ ServerGoes

SendIq ==
    /\ writer = "run" /\ iq < MaxIq
    /\ iq' = iq + 1
    /\ down' = Append(down, IF Keyed THEN "x" ELSE "q")
    /\ UNCHANGED <<up, server, writer, ctl, nonces, got_nonce>> /\ ServerGoes

read_cipher == nonces = "own"

\* A frame the control thread understands as what the proxy meant: the probe or a
\* command, in clear before its cipher is made, else under the proxy's nonce and
\* at the proxy's place in the keystream.
Understood(frame) ==
    IF read_cipher
    THEN frame \in {SealedFrame, SealedProbe} /\ got_nonce = NonceBytes /\ in_step
    ELSE frame \in {ClearFrame, Probe}

\* What a frame makes the control thread do next.  A probe is acknowledged unless
\* the rate limiter drops it; one that is not understood may be anything, a probe
\* too.
AfterFrame(frame) ==
    IF setup.kind = "plain" \/ (Understood(frame) /\ frame \notin {Probe, SealedProbe})
    THEN {"read"}
    ELSE {"read", "ack"}

\* read_exact returns a frame, which is decrypted if there is a cipher.
CtlRead ==
    LET frame == Taken(up, CmdLen) IN
    /\ ctl = "read" /\ Len(up) >= CmdLen
    /\ ctl' \in AfterFrame(frame)
    /\ garbled' = (garbled \/ ~Understood(frame))
    /\ again' = (again \/ (ctl' = "ack" /\ frame = SealedProbe /\ Understood(frame)))
    /\ up' = Left(up, CmdLen)
    /\ UNCHANGED <<setup, proxyVars, down, server, writer, nonces, got_nonce, iq, in_step>>

\* read_exact gives up on a part of a frame.
CtlReadTimesOut ==
    /\ ctl = "read" /\ Len(up) \in 1..(CmdLen - 1)
    /\ up' = << >> /\ in_step' = FALSE
    /\ UNCHANGED <<setup, proxyVars, down, server, writer, ctl, nonces, got_nonce, iq,
                   garbled, again>>

\* The acknowledgement; with a key, the nonce exchange follows.
CtlAck ==
    /\ ctl = "ack" /\ ctl' = IF Keyed THEN "nonce" ELSE "read"
    /\ down' = down \o Ack
    /\ UNCHANGED <<up, server, writer, nonces, got_nonce, iq>> /\ ServerGoes

CtlNonce_Reflects ==
    /\ ctl = "nonce" /\ ctl' = "store"
    /\ Len(up) >= NonceLen
    /\ got_nonce' = Taken(up, NonceLen) /\ up' = Left(up, NonceLen)
    /\ down' = down \o Taken(up, NonceLen)
    /\ UNCHANGED <<server, writer, nonces, iq>> /\ ServerGoes

\* server_nonce_exchange: reads the peer's nonce, then writes its own.
CtlNonce ==
    /\ ctl = "nonce" /\ ctl' = "store"
    /\ Len(up) >= NonceLen
    /\ got_nonce' = Taken(up, NonceLen) /\ up' = Left(up, NonceLen)
    /\ down' = down \o NonceBytes
    /\ UNCHANGED <<server, writer, nonces, iq>> /\ ServerGoes

CtlNonceFails_Waits ==
    /\ ctl = "nonce" /\ Len(up) < NonceLen
    /\ UNCHANGED <<down, up, server, writer, ctl, nonces, got_nonce, iq>> /\ ServerGoes

\* The exchange fails by the read timeout; what has arrived is dropped, and the
\* control thread goes on with the cipher it had.
CtlNonceFails ==
    /\ ctl = "nonce" /\ ctl' = "read"
    /\ Len(up) < NonceLen
    /\ up' = << >> /\ in_step' = (in_step /\ up = << >>)
    /\ UNCHANGED <<setup, proxyVars, down, server, writer, nonces, got_nonce, iq,
                   garbled, again>>

\* The nonces are stored under the lock that a running writer thread keeps, and
\* make a new cipher.
CtlStore ==
    /\ ctl = "store" /\ ctl' = "read"
    /\ writer = "wait"
    /\ nonces' = "own" /\ in_step' = TRUE
    /\ UNCHANGED <<setup, proxyVars, down, up, server, writer, got_nonce, iq,
                   garbled, again>>

CtlStep ==
    CtlRead \/ CtlReadTimesOut \/ CtlAck \/ CtlNonce \/ CtlNonceFails \/ CtlStore

Next ==
    \/ ConnectFails \/ Accept \/ Connecting \/ WriteFails
    \/ Relay \/ Forward
    \/ SendMagic \/ WriterNonce \/ SendIq \/ CtlStep

Spec == Init /\ [][Next]_vars

\* Every thread runs, and timeouts end the reads of connect_upstream and of the
\* nonce exchange.  IQ data need not come.
FairSpec ==
    /\ Spec
    /\ WF_vars(Connecting)
    /\ WF_vars(SendMagic) /\ WF_vars(WriterNonce) /\ WF_vars(CtlStep)

-----------------------------------------------------------------------------
(* Properties *)

DownBytes == {"m", "q", "x", "A", "a", "n"}
UpBytes == {"P", "p", "C", "c", "S", "s", "E", "e", "n"}

\* Type invariant of both ends of the connection.
TypeOK ==
    /\ setup \in Setups
    /\ proxy \in {"connect", "magic", "probe", "ack", "send_nonce", "read_nonce",
                  "up", "error"}
    /\ is_chain \in BOOLEAN
    /\ peer_nonce \in Seq(DownBytes)
    /\ down \in Seq(DownBytes) /\ up \in Seq(UpBytes)
    /\ relayed \in Seq(DownBytes)
    /\ cmds \in 0..MaxCmds /\ lost \in 0..iq
    /\ server \in {"accept", "magic", "served"}
    /\ writer \in {"none", "wait", "run"}
    /\ ctl \in {"none", "read", "ack", "nonce", "store"}
    /\ nonces \in {"none", "stale", "own"}
    /\ got_nonce \in Seq(UpBytes)
    /\ iq \in 0..MaxIq
    /\ in_step \in BOOLEAN /\ garbled \in BOOLEAN /\ again \in BOOLEAN

\* Both ends have the key and nothing is left of an earlier master.
FreshChain == Keyed /\ setup.proxyKey /\ ~setup.stale

\* In a keyed chain, once the proxy has taken a nonce, each end holds the nonce
\* the other one sent, whatever the timing of acknowledgement, nonces and IQ
\* data, until a probe from further down the chain makes the upstream take
\* commands for another nonce.
NoncesAgree ==
    FreshChain /\ peer_nonce # << >> =>
        /\ peer_nonce = NonceBytes
        /\ again \/ got_nonce = NonceBytes

\* A connected proxy's upstream has executed no frame but the ones the proxy
\* sent, if neither end uses a key, or if both do, the acknowledgement came in
\* time and no probe of another proxy was forwarded: a proxy that takes IQ data
\* for an acknowledgement does no harm then.
CommandsUnderstood ==
    garbled /\ proxy = "up" =>
        \/ setup.proxyKey # Keyed
        \/ setup.stale
        \/ Keyed /\ (again \/ ~is_chain)

\* All IQ data is relayed or under way, but for what connect_upstream reads:
\* without a key, and from an upstream that sends the magic packet first, it
\* takes no more than the length of one acknowledgement.
LossBounded ==
    /\ iq = lost + IqIn(down) + IqIn(relayed)
    /\ ~setup.proxyKey /\ ~Multi => lost <= CmdLen

\* The upstream reads all that a connected proxy sends it, unless it has to store
\* nonces while its writer thread, which runs on those of an earlier exchange,
\* keeps their lock.  That takes the nonces of an earlier master, a frame that
\* was not understood, or the forwarded probe of another proxy.
CommandsConsumed ==
    proxy = "up" ~>
        \/ up = << >>
        \/ /\ ctl = "store" /\ writer = "run"
           /\ setup.stale \/ garbled \/ again

-----------------------------------------------------------------------------
(* What the repository's documents say and the code does not do *)

\* The IQ data of an encrypted chain is decrypted before it is relayed.
RelayedInClear ==
    FreshChain => \A i \in 1..Len(relayed) : relayed[i] # "x"
=============================================================================
