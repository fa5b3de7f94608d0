-------------------------- MODULE HandshakeProofs --------------------------
(***************************************************************************)
(* Proofs about Handshake for all lengths of magic packet, command and     *)
(* nonce (a nonce being longer than a command), any amount of IQ data, any *)
(* number of commands and every set of upstreams and keys.                 *)
(***************************************************************************)
EXTENDS Handshake, Framing, FiniteSetTheorems, FunctionTheorems, TLAPS

\* All IQ data is accounted for.
SumInv == iq = lost + IqIn(down) + IqIn(relayed)

\* An upstream that sends the magic packet first, and no key at the proxy: nothing
\* comes before the magic packet, and only the acknowledgement is read after it.
MagicFirst ==
    /\ proxy \notin {"send_nonce", "read_nonce"}
    /\ proxy = "connect" => server = "accept"
    /\ server # "served" => writer = "none" /\ ctl = "none" /\ down = << >>
    /\ proxy = "magic" /\ server = "served" =>
           Len(down) >= MagicLen /\ \A i \in 1..MagicLen : down[i] = "m"
    /\ proxy # "up" => lost = 0
    /\ lost <= CmdLen

MagicInv == ~setup.proxyKey /\ ~Multi => MagicFirst

\* The upstream is sent whole frames in clear, and understands them.
InClear ==
    /\ proxy \notin {"send_nonce", "read_nonce"}
    /\ ctl \in {"none", "read", "ack"}
    /\ nonces = "none" /\ ~garbled
    /\ Framed(up, CmdLen, {Probe, ClearFrame})

\* Neither end uses a key.
ClearInv == ~setup.proxyKey /\ ~Keyed /\ ~setup.stale => InClear

\* A fresh chain until the proxy has sent its nonce: what is under way at each
\* place of connect_upstream and of the control thread.
BeforeNonce ==
    /\ nonces = "none" /\ ~garbled /\ ~again /\ peer_nonce = << >>
    /\ is_chain => proxy = "send_nonce"
    /\ \/ proxy = "connect" /\ server = "accept" /\ ctl = "none"
          /\ up = << >> /\ down = << >>
       \/ proxy = "magic" /\ server = "magic" /\ ctl = "none"
          /\ up = << >> /\ down = << >>
       \/ proxy = "magic" /\ server = "served" /\ ctl = "read"
          /\ up = << >> /\ down = Magic
       \/ proxy = "probe" /\ server = "served" /\ ctl = "read"
          /\ up = << >> /\ down = << >>
       \/ proxy = "ack" /\ server = "served" /\ ctl = "read"
          /\ up = Probe /\ down = << >>
       \/ proxy = "ack" /\ server = "served" /\ ctl \in {"ack", "read"}
          /\ up = << >> /\ down = << >>
       \/ proxy = "ack" /\ server = "served" /\ ctl \in {"nonce", "read"}
          /\ up = << >> /\ down = Ack
       \/ proxy = "send_nonce" /\ server = "served" /\ ctl \in {"nonce", "read"}
          /\ up = << >> /\ down = << >> /\ is_chain

\* The exchange of nonces as it should be.
Exchanging ==
    /\ proxy = "read_nonce" /\ server = "served" /\ is_chain
    /\ ~garbled /\ ~again /\ peer_nonce = << >>
    /\ \/ ctl = "nonce" /\ nonces = "none" /\ up = NonceBytes /\ down = << >>
       \/ ctl = "store" /\ nonces = "none" /\ up = << >> /\ down = NonceBytes
          /\ got_nonce = NonceBytes
       \/ ctl = "read" /\ nonces = "own" /\ in_step /\ up = << >>
          /\ got_nonce = NonceBytes
          /\ Len(down) >= NonceLen /\ Taken(down, NonceLen) = NonceBytes

\* The upstream has given up on the exchange before the proxy sent its nonce, and
\* takes it for commands; one may look like a probe and is acknowledged.
Astray ==
    /\ proxy = "read_nonce" /\ server = "served" /\ nonces = "none"
    /\ peer_nonce = << >>
    /\ \/ ctl = "read" /\ Len(up) <= NonceLen /\ down = << >>
       \/ ctl = "ack" /\ Len(up) < NonceLen /\ down = << >>
       \/ ctl = "nonce" /\ Len(up) < NonceLen /\ down = Ack
       \/ ctl = "read" /\ up = << >> /\ down = Ack

\* Each end has the other's nonce, and the proxy sends encrypted frames.
Paired ==
    /\ proxy = "up" /\ server = "served" /\ is_chain /\ ~garbled /\ ~again
    /\ peer_nonce = NonceBytes /\ got_nonce = NonceBytes
    /\ \/ ctl = "store" /\ nonces = "none"
       \/ ctl = "read" /\ nonces = "own" /\ in_step
    /\ Framed(up, CmdLen, {SealedFrame, SealedProbe})

\* A forwarded probe has made the upstream repeat the exchange.
Reopened == proxy = "up" /\ is_chain /\ peer_nonce = NonceBytes /\ again

\* connect_upstream has failed, or found no chain.
Unpaired ==
    /\ proxy = "error" \/ (proxy = "up" /\ ~is_chain)
    /\ peer_nonce = << >>

\* A keyed writer thread sends nothing before it has found nonces.
WriterInv == Keyed /\ writer = "run" => nonces # "none"

\* A fresh chain is in one of those phases.
ChainInv ==
    FreshChain =>
        BeforeNonce \/ Exchanging \/ Astray \/ Paired \/ Reopened \/ Unpaired

\* Only a keyed upstream exchanges nonces; one that has made a cipher does so
\* again for a frame it did not understand or for a forwarded probe.
StoreInv ==
    /\ ctl \in {"nonce", "store"} => Keyed
    /\ nonces = "stale" => setup.stale
    /\ ctl \in {"ack", "nonce", "store"} /\ nonces = "own" => garbled \/ again

\* The inductive invariant of the connection.
HandshakeInv ==
    TypeOK /\ SumInv /\ MagicInv /\ ClearInv /\ WriterInv /\ StoreInv /\ ChainInv

-----------------------------------------------------------------------------
(* Counting IQ bytes *)

\* Where the IQ bytes of s are.
IqAt(s) == {i \in 1..Len(s) : s[i] \in {"q", "x"}}

\* There are no more IQ bytes than bytes.
LEMMA IqType ==
    ASSUME NEW S, NEW s \in Seq(S)
    PROVE  /\ IsFiniteSet(IqAt(s)) /\ IqIn(s) = Cardinality(IqAt(s))
           /\ IqIn(s) \in Nat /\ IqIn(s) <= Len(s)
<1>1. Len(s) \in Nat
  OBVIOUS
<1>2. IsFiniteSet(1..Len(s)) /\ Cardinality(1..Len(s)) = Len(s)
  BY <1>1, FS_Interval
<1>3. IqAt(s) \in SUBSET (1..Len(s))
  BY DEF IqAt
<1>4. IsFiniteSet(IqAt(s)) /\ Cardinality(IqAt(s)) <= Len(s)
  BY <1>2, <1>3, FS_Subset
<1>5. Cardinality(IqAt(s)) \in Nat
  BY <1>4, FS_CardinalityType
<1> QED
  BY <1>4, <1>5 DEF IqIn, IqAt

\* A sequence without IQ bytes has none.
LEMMA IqNone ==
    ASSUME NEW S, NEW s \in Seq(S), \A i \in 1..Len(s) : s[i] \notin {"q", "x"}
    PROVE  IqIn(s) = 0
<1>1. IqAt(s) = {}
  BY DEF IqAt
<1> QED
  BY <1>1, IqType, FS_EmptySet

\* The IQ bytes of two parts are those of the whole.
LEMMA IqConcat ==
    ASSUME NEW S, NEW s \in Seq(S), NEW t \in Seq(S)
    PROVE  IqIn(s \o t) = IqIn(s) + IqIn(t)
<1> DEFINE L == Len(s)
           u == s \o t
           T == {L + j : j \in IqAt(t)}
           f == [j \in IqAt(t) |-> L + j]
<1>1. L \in Nat /\ Len(t) \in Nat /\ u \in Seq(S) /\ Len(u) = L + Len(t)
  OBVIOUS
<1>2. /\ \A i \in 1..L : u[i] = s[i]
      /\ \A i \in 1..Len(t) : u[L + i] = t[i]
  OBVIOUS
<1> HIDE DEF u
<1>3. IqAt(s) \subseteq 1..L /\ IqAt(t) \subseteq 1..Len(t)
  BY DEF IqAt
<1>4. IqAt(u) = IqAt(s) \cup T
  <2>1. ASSUME NEW i \in IqAt(u) PROVE i \in IqAt(s) \cup T
    <3>1. i \in 1..(L + Len(t)) /\ u[i] \in {"q", "x"}
      BY <1>1 DEF IqAt
    <3>2. CASE i <= L
      BY <3>1, <3>2, <1>1, <1>2 DEF IqAt
    <3>3. CASE i > L
      <4>1. i - L \in 1..Len(t) /\ L + (i - L) = i
        BY <3>1, <3>3, <1>1
      <4>2. t[i - L] \in {"q", "x"}
        BY <4>1, <3>1, <1>2
      <4>3. i - L \in IqAt(t)
        BY <4>1, <4>2 DEF IqAt
      <4> QED
        BY <4>1, <4>3
    <3>4. i <= L \/ i > L
      BY <3>1, <1>1
    <3> QED
      BY <3>2, <3>3, <3>4
  <2>2. ASSUME NEW i \in IqAt(s) PROVE i \in IqAt(u)
    <3>1. i \in 1..L /\ s[i] \in {"q", "x"}
      BY DEF IqAt
    <3>2. i \in 1..Len(u) /\ u[i] = s[i]
      BY <3>1, <1>1, <1>2
    <3> QED
      BY <3>1, <3>2 DEF IqAt
  <2>3. ASSUME NEW j \in IqAt(t) PROVE L + j \in IqAt(u)
    <3>1. j \in 1..Len(t) /\ t[j] \in {"q", "x"}
      BY DEF IqAt
    <3>2. L + j \in 1..Len(u) /\ u[L + j] = t[j]
      BY <3>1, <1>1, <1>2
    <3> QED
      BY <3>1, <3>2 DEF IqAt
  <2> QED
    BY <2>1, <2>2, <2>3
<1>5. IsFiniteSet(T) /\ Cardinality(T) = Cardinality(IqAt(t))
  <2>1. f \in [IqAt(t) -> T]
    OBVIOUS
  <2>2. \A a, b \in IqAt(t) : f[a] = f[b] => a = b
    BY <1>1, <1>3
  <2>3. \A y \in T : \E a \in IqAt(t) : f[a] = y
    OBVIOUS
  <2>4. f \in Bijection(IqAt(t), T)
    BY <2>1, <2>2, <2>3, Fun_IsBij
  <2>5. ExistsBijection(IqAt(t), T)
    BY <2>4 DEF ExistsBijection
  <2> QED
    BY <2>5, IqType, FS_Bijection
<1>6. IqAt(s) \cap T = {}
  BY <1>1, <1>3
<1>7. Cardinality(IqAt(u)) = Cardinality(IqAt(s)) + Cardinality(T) - 0
  BY <1>4, <1>5, <1>6, IqType, FS_Union, FS_EmptySet
<1>8. IqIn(u) = Cardinality(IqAt(u)) /\ IqIn(s) = Cardinality(IqAt(s))
      /\ IqIn(t) = Cardinality(IqAt(t)) /\ IqIn(s) \in Nat /\ IqIn(t) \in Nat
  BY <1>1, IqType
<1> QED
  BY <1>5, <1>7, <1>8 DEF u

\* Reading n bytes takes their IQ bytes away.
LEMMA IqCut ==
    ASSUME NEW S, NEW s \in Seq(S), NEW n \in 0..Len(s)
    PROVE  /\ Taken(s, n) \in Seq(S) /\ Len(Taken(s, n)) = n
           /\ Left(s, n) \in Seq(S) /\ Len(Left(s, n)) = Len(s) - n
           /\ IqIn(s) = IqIn(Taken(s, n)) + IqIn(Left(s, n))
<1>1. n \in Nat /\ Len(s) \in Nat /\ n <= Len(s)
  OBVIOUS
<1>2. Taken(s, n) \in Seq(S) /\ Len(Taken(s, n)) = n
  BY <1>1 DEF Taken
<1>3. Left(s, n) \in Seq(S) /\ Len(Left(s, n)) = Len(s) - n
  BY <1>1, PartElements DEF Left
<1>4. Taken(s, n) \o Left(s, n) = s
  BY CutAndJoin DEF Taken, Left
<1>5. IqIn(Taken(s, n) \o Left(s, n)) = IqIn(Taken(s, n)) + IqIn(Left(s, n))
  BY <1>2, <1>3, IqConcat
<1> QED
  BY <1>2, <1>3, <1>4, <1>5

\* One byte of IQ data counts one.
LEMMA IqOne ==
    ASSUME NEW e \in {"q", "x"}
    PROVE  IqIn(<<e>>) = 1
<1>1. <<e>> \in Seq({"q", "x"}) /\ IqAt(<<e>>) = {1}
  BY DEF IqAt
<1> QED
  BY <1>1, IqType, FS_Singleton

\* Relaying a byte moves what it counts.
LEMMA IqMove ==
    ASSUME NEW S, NEW s \in Seq(S), NEW t \in Seq(S), s # << >>
    PROVE  /\ Append(t, Head(s)) \in Seq(S) /\ Tail(s) \in Seq(S)
           /\ IqIn(Tail(s)) + IqIn(Append(t, Head(s))) = IqIn(s) + IqIn(t)
<1> DEFINE h == <<Head(s)>>
<1>1. h \in Seq(S) /\ Tail(s) \in Seq(S) /\ s = h \o Tail(s)
  OBVIOUS
<1>2. Append(t, Head(s)) = t \o h /\ t \o h \in Seq(S)
  BY <1>1
<1> HIDE DEF h
<1>3. IqIn(h \o Tail(s)) = IqIn(h) + IqIn(Tail(s))
  BY <1>1, IqConcat
<1>4. IqIn(t \o h) = IqIn(t) + IqIn(h)
  BY <1>1, IqConcat
<1>5. IqIn(h) \in Nat /\ IqIn(Tail(s)) \in Nat /\ IqIn(t) \in Nat
  BY <1>1, IqType
<1>6. IqIn(s) = IqIn(h) + IqIn(Tail(s))
  BY <1>1, <1>3, Zenon
<1>7. IqIn(Append(t, Head(s))) = IqIn(t) + IqIn(h)
  BY <1>2, <1>4, Zenon
<1> QED
  BY <1>1, <1>2, <1>5, <1>6, <1>7

\* Dropping a byte that is no IQ data takes none away.
LEMMA IqSkip ==
    ASSUME NEW S, NEW s \in Seq(S), s # << >>, Head(s) \notin {"q", "x"}
    PROVE  Tail(s) \in Seq(S) /\ IqIn(Tail(s)) = IqIn(s)
<1> DEFINE h == <<Head(s)>>
<1>1. /\ h \in Seq(S) /\ Tail(s) \in Seq(S) /\ s = h \o Tail(s)
      /\ \A i \in 1..Len(h) : h[i] \notin {"q", "x"}
  OBVIOUS
<1> HIDE DEF h
<1>2. IqIn(h \o Tail(s)) = IqIn(h) + IqIn(Tail(s)) /\ IqIn(h) = 0
  BY <1>1, IqConcat, IqNone
<1>3. IqIn(s) = IqIn(h) + IqIn(Tail(s))
  BY <1>1, <1>2, Zenon
<1>4. IqIn(Tail(s)) \in Nat
  BY <1>1, IqType
<1> QED
  BY <1>1, <1>2, <1>3, <1>4

\* A message of n bytes, of which the first may differ from the others.
LEMMA BytesSeq ==
    ASSUME NEW S, NEW n \in Nat \ {0}, NEW first \in S, NEW rest \in S
    PROVE  /\ Bytes(n, first, rest) \in Seq(S) /\ Len(Bytes(n, first, rest)) = n
           /\ Bytes(n, first, rest)[1] = first
           /\ \A i \in 1..n : Bytes(n, first, rest)[i] \in {first, rest}
BY DEF Bytes

-----------------------------------------------------------------------------
(* Types and the sum of IQ data *)

\* What the messages consist of.
LEMMA Messages ==
    /\ CmdLen \in Nat \ {0} /\ MagicLen \in Nat \ {0} /\ NonceLen \in Nat \ {0}
    /\ Magic \in Seq(DownBytes) /\ Len(Magic) = MagicLen /\ IqIn(Magic) = 0
    /\ \A i \in 1..MagicLen : Magic[i] = "m"
    /\ Ack \in Seq(DownBytes) /\ Len(Ack) = CmdLen /\ IqIn(Ack) = 0 /\ Ack[1] = "A"
    /\ NonceBytes \in Seq(DownBytes) /\ Len(NonceBytes) = NonceLen /\ IqIn(NonceBytes) = 0
    /\ NonceBytes \in Seq(UpBytes)
    /\ Probe \in Seq(UpBytes) /\ Len(Probe) = CmdLen /\ Probe[1] = "P"
    /\ ClearFrame \in Seq(UpBytes) /\ Len(ClearFrame) = CmdLen /\ ClearFrame[1] = "C"
    /\ SealedFrame \in Seq(UpBytes) /\ Len(SealedFrame) = CmdLen /\ SealedFrame[1] = "E"
    /\ SealedProbe \in Seq(UpBytes) /\ Len(SealedProbe) = CmdLen /\ SealedProbe[1] = "S"
<1>1. CmdLen \in Nat \ {0} /\ MagicLen \in Nat \ {0} /\ NonceLen \in Nat \ {0}
  BY LengthsAssumption
<1>2. /\ "m" \in DownBytes /\ "A" \in DownBytes /\ "a" \in DownBytes /\ "n" \in DownBytes
      /\ "n" \in UpBytes /\ "P" \in UpBytes /\ "p" \in UpBytes /\ "C" \in UpBytes
      /\ "c" \in UpBytes /\ "E" \in UpBytes /\ "e" \in UpBytes
      /\ "S" \in UpBytes /\ "s" \in UpBytes
  BY DEF DownBytes, UpBytes
<1>3. /\ Magic \in Seq(DownBytes) /\ Len(Magic) = MagicLen
      /\ \A i \in 1..MagicLen : Magic[i] = "m"
  BY <1>1, <1>2 DEF Magic, Bytes
<1>4. IqIn(Magic) = 0
  BY <1>3, IqNone
<1>5. /\ Ack \in Seq(DownBytes) /\ Len(Ack) = CmdLen /\ Ack[1] = "A"
      /\ \A i \in 1..CmdLen : Ack[i] \in {"A", "a"}
  BY <1>1, <1>2, BytesSeq DEF Ack
<1>6. IqIn(Ack) = 0
  BY <1>5, IqNone
<1>7. /\ NonceBytes \in Seq(DownBytes) /\ NonceBytes \in Seq(UpBytes)
      /\ Len(NonceBytes) = NonceLen
      /\ \A i \in 1..NonceLen : NonceBytes[i] = "n"
  BY <1>1, <1>2 DEF NonceBytes, Bytes
<1>8. IqIn(NonceBytes) = 0
  BY <1>7, IqNone
<1>9. /\ Probe \in Seq(UpBytes) /\ Len(Probe) = CmdLen /\ Probe[1] = "P"
      /\ ClearFrame \in Seq(UpBytes) /\ Len(ClearFrame) = CmdLen /\ ClearFrame[1] = "C"
      /\ SealedFrame \in Seq(UpBytes) /\ Len(SealedFrame) = CmdLen /\ SealedFrame[1] = "E"
      /\ SealedProbe \in Seq(UpBytes) /\ Len(SealedProbe) = CmdLen /\ SealedProbe[1] = "S"
  BY <1>1, <1>2, BytesSeq DEF Probe, ClearFrame, SealedFrame, SealedProbe
<1> QED
  BY <1>1, <1>3, <1>4, <1>5, <1>6, <1>7, <1>8, <1>9

\* What a read that returns leaves.
LEMMA ReadsSum ==
    ASSUME TypeOK, SumInv, NEW n \in Nat, Reads(n), iq' = iq, relayed' = relayed
    PROVE  /\ down' \in Seq(DownBytes) /\ Len(down) >= n /\ Len(down') = Len(down) - n
           /\ Taken(down, n) \in Seq(DownBytes) /\ Len(Taken(down, n)) = n
           /\ IqIn(Taken(down, n)) \in 0..n /\ lost' = lost + IqIn(Taken(down, n))
           /\ lost' \in 0..iq' /\ SumInv'
<1>1. down \in Seq(DownBytes) /\ Len(down) >= n /\ down' = Left(down, n)
  BY DEF TypeOK, Reads
<1>2. n \in 0..Len(down)
  BY <1>1
<1>3. /\ Taken(down, n) \in Seq(DownBytes) /\ Len(Taken(down, n)) = n
      /\ down' \in Seq(DownBytes) /\ Len(down') = Len(down) - n
      /\ IqIn(down) = IqIn(Taken(down, n)) + IqIn(down')
  BY <1>1, <1>2, IqCut, Zenon
<1>4. /\ IqIn(Taken(down, n)) \in Nat /\ IqIn(Taken(down, n)) <= n
      /\ IqIn(down') \in Nat
  BY <1>3, IqType
<1>5. relayed \in Seq(DownBytes) /\ lost \in Nat /\ iq \in Nat
  BY LengthsAssumption DEF TypeOK
<1>6. IqIn(relayed) \in Nat
  BY <1>5, IqType
<1>7. lost' = lost + IqIn(Taken(down, n))
  BY DEF Reads
<1>8. iq = lost + IqIn(down) + IqIn(relayed)
  BY DEF SumInv
<1>9. iq' = lost' + IqIn(down') + IqIn(relayed')
  BY <1>3, <1>4, <1>5, <1>6, <1>7, <1>8
<1>10. lost' \in 0..iq'
  BY <1>4, <1>5, <1>6, <1>7, <1>9
<1> QED
  BY <1>1, <1>3, <1>4, <1>7, <1>9, <1>10 DEF SumInv

\* What a read that gives up leaves.
LEMMA TimeoutSum ==
    ASSUME TypeOK, SumInv, NEW n \in Nat, ReadTimesOut(n), iq' = iq, relayed' = relayed
    PROVE  /\ down' \in Seq(DownBytes) /\ Len(down) < n
           /\ IqIn(down) \in 0..n /\ lost' = lost + IqIn(down)
           /\ lost' \in 0..iq' /\ SumInv'
<1>1. /\ down \in Seq(DownBytes) /\ Len(down) < n /\ down' = << >>
      /\ lost' = lost + IqIn(down)
  BY DEF TypeOK, ReadTimesOut
<1>2. IqIn(down) \in Nat /\ IqIn(down) <= Len(down) /\ Len(down) \in Nat
  BY <1>1, IqType
<1>3. down' \in Seq(DownBytes) /\ IqIn(down') = 0
  <2>1. << >> \in Seq(DownBytes) /\ Len(<< >>) = 0
    OBVIOUS
  <2>2. IqIn(<< >>) \in Nat /\ IqIn(<< >>) <= Len(<< >>)
    BY <2>1, IqType
  <2> QED
    BY <1>1, <2>1, <2>2
<1>4. relayed \in Seq(DownBytes) /\ lost \in Nat /\ iq \in Nat
  BY LengthsAssumption DEF TypeOK
<1>5. IqIn(relayed) \in Nat
  BY <1>4, IqType
<1>6. iq = lost + IqIn(down) + IqIn(relayed)
  BY DEF SumInv
<1>7. iq' = lost' + IqIn(down') + IqIn(relayed')
  BY <1>1, <1>2, <1>3, <1>4, <1>5, <1>6
<1>8. lost' \in 0..iq'
  BY <1>1, <1>2, <1>3, <1>4, <1>5, <1>7
<1> QED
  BY <1>1, <1>2, <1>3, <1>7, <1>8 DEF SumInv

\* A message to the proxy that is not IQ data leaves the sum as it is.
LEMMA SendsSum ==
    ASSUME TypeOK, SumInv, NEW t \in Seq(DownBytes), IqIn(t) = 0, down' = down \o t,
           iq' = iq, relayed' = relayed, lost' = lost
    PROVE  down' \in Seq(DownBytes) /\ lost' \in 0..iq' /\ SumInv'
<1>1. down \in Seq(DownBytes) /\ lost \in 0..iq
  BY DEF TypeOK
<1>2. down' \in Seq(DownBytes) /\ IqIn(down') = IqIn(down) + 0
  <2>1. IqIn(down \o t) = IqIn(down) + IqIn(t)
    BY <1>1, IqConcat
  <2> QED
    BY <1>1, <2>1
<1>3. IqIn(down) \in Nat
  BY <1>1, IqType
<1>4. IqIn(down') = IqIn(down)
  BY <1>2, <1>3
<1> QED
  BY <1>1, <1>2, <1>4 DEF SumInv

\* The upstream takes bytes off what the proxy sent.
LEMMA UpCut ==
    ASSUME TypeOK, NEW n \in Nat, Len(up) >= n
    PROVE  /\ Taken(up, n) \in Seq(UpBytes) /\ Len(Taken(up, n)) = n
           /\ Left(up, n) \in Seq(UpBytes) /\ Len(Left(up, n)) = Len(up) - n
<1>1. up \in Seq(UpBytes) /\ n \in 0..Len(up)
  BY DEF TypeOK
<1> QED
  BY <1>1, IqCut

\* The setup does not change.
LEMMA SetupStays == [Next]_vars => setup' = setup
BY DEF Next, vars, ConnectFails, Accept, Connecting, ReadMagic, ReadMagicFails, WriteProbe,
   ReadAck, ReadAckTimesOut, SendNonce, ReadNonce, ReadNonceFails, WriteFails, ProxyGoes,
   Relay, Forward, SendMagic, WriterNonce, SendIq, CtlStep, CtlRead, CtlReadTimesOut, CtlAck, CtlNonce,
   CtlNonceFails, CtlStore, ServerGoes

\* A step of connect_upstream leaves the upstream's state and what is relayed and
\* forwarded alone.
LEMMA ProxyFrame ==
    ASSUME NEW from, NEW to, ProxyGoes(from, to)
    PROVE  /\ proxy = from /\ proxy' = to
           /\ setup' = setup /\ relayed' = relayed /\ cmds' = cmds
           /\ server' = server /\ writer' = writer /\ ctl' = ctl /\ nonces' = nonces
           /\ got_nonce' = got_nonce /\ iq' = iq
           /\ in_step' = in_step /\ garbled' = garbled /\ again' = again
BY DEF ProxyGoes, serverVars

\* A step of the upstream leaves the proxy's state alone.
LEMMA ServerFrame ==
    ASSUME ServerGoes \/ CtlReadTimesOut \/ CtlNonceFails \/ CtlStore
    PROVE  /\ setup' = setup /\ proxy' = proxy /\ is_chain' = is_chain
           /\ peer_nonce' = peer_nonce /\ relayed' = relayed /\ cmds' = cmds
           /\ lost' = lost /\ garbled' = garbled /\ again' = again
           /\ ServerGoes => in_step' = in_step
BY DEF ServerGoes, CtlReadTimesOut, CtlNonceFails, CtlStore, proxyVars

\* The types and the sum after a step of connect_upstream.
LEMMA ConnectingTypes ==
    ASSUME TypeOK, SumInv, Connecting
    PROVE  TypeOK' /\ SumInv'
<1> DEFINE Places == {"connect", "magic", "probe", "ack", "send_nonce", "read_nonce",
                      "up", "error"}
           Rest == /\ peer_nonce' \in Seq(DownBytes) /\ is_chain' \in BOOLEAN
                   /\ up' \in Seq(UpBytes)
<1>0. ASSUME NEW from, NEW to \in Places, ProxyGoes(from, to), Rest,
             down' \in Seq(DownBytes), lost' \in 0..iq'
      PROVE  TypeOK'
  BY <1>0, ProxyFrame DEF TypeOK
<1>1. MagicLen \in Nat /\ CmdLen \in Nat /\ NonceLen \in Nat
  BY Messages
<1>2. CASE ReadMagic
  <2>1. ProxyGoes("magic", "probe") /\ Reads(MagicLen) /\ Rest
    BY <1>2 DEF ReadMagic, TypeOK
  <2>2. down' \in Seq(DownBytes) /\ lost' \in 0..iq' /\ SumInv'
    BY <2>1, <1>1, ProxyFrame, ReadsSum
  <2> QED
    BY <2>1, <2>2, <1>0
<1>3. CASE ReadMagicFails
  <2>1. ProxyGoes("magic", "error") /\ ReadTimesOut(MagicLen) /\ Rest
    BY <1>3 DEF ReadMagicFails, TypeOK
  <2>2. down' \in Seq(DownBytes) /\ lost' \in 0..iq' /\ SumInv'
    BY <2>1, <1>1, ProxyFrame, TimeoutSum
  <2> QED
    BY <2>1, <2>2, <1>0
<1>4. CASE WriteProbe
  <2>1. /\ ProxyGoes("probe", "ack") /\ Rest
        /\ down' = down /\ lost' = lost
    BY <1>4, Messages DEF WriteProbe, TypeOK
  <2>2. down' \in Seq(DownBytes) /\ lost' \in 0..iq' /\ SumInv'
    BY <2>1, ProxyFrame DEF TypeOK, SumInv
  <2> QED
    BY <2>1, <2>2, <1>0
<1>5. CASE ReadAck
  <2>1. PICK chain \in LooksLikeAck(down[1]) :
          /\ ProxyGoes("ack", AfterAck(chain)) /\ Reads(CmdLen)
          /\ is_chain' = chain /\ peer_nonce' = peer_nonce /\ up' = up
    BY <1>5 DEF ReadAck
  <2>2. chain \in BOOLEAN
    BY Zenon DEF LooksLikeAck
  <2>3. Rest /\ AfterAck(chain) \in Places
    BY <2>1, <2>2 DEF TypeOK, AfterAck
  <2>4. down' \in Seq(DownBytes) /\ lost' \in 0..iq' /\ SumInv'
    BY <2>1, <1>1, ProxyFrame, ReadsSum
  <2> QED
    BY <2>1, <2>3, <2>4, <1>0
<1>6. CASE ReadAckTimesOut
  <2>1. ProxyGoes("ack", "up") /\ ReadTimesOut(CmdLen) /\ Rest
    BY <1>6 DEF ReadAckTimesOut, TypeOK
  <2>2. down' \in Seq(DownBytes) /\ lost' \in 0..iq' /\ SumInv'
    BY <2>1, <1>1, ProxyFrame, TimeoutSum
  <2> QED
    BY <2>1, <2>2, <1>0
<1>7. CASE SendNonce
  <2>1. /\ ProxyGoes("send_nonce", "read_nonce") /\ Rest
        /\ down' = down /\ lost' = lost
    BY <1>7, Messages DEF SendNonce, TypeOK
  <2>2. down' \in Seq(DownBytes) /\ lost' \in 0..iq' /\ SumInv'
    BY <2>1, ProxyFrame DEF TypeOK, SumInv
  <2> QED
    BY <2>1, <2>2, <1>0
<1>8. CASE ReadNonce
  <2>1. /\ ProxyGoes("read_nonce", "up") /\ Reads(NonceLen)
        /\ peer_nonce' = Taken(down, NonceLen) /\ is_chain' = is_chain /\ up' = up
    BY <1>8 DEF ReadNonce
  <2>2. /\ down' \in Seq(DownBytes) /\ lost' \in 0..iq' /\ SumInv'
        /\ Taken(down, NonceLen) \in Seq(DownBytes)
    BY <2>1, <1>1, ProxyFrame, ReadsSum
  <2>3. Rest
    BY <2>1, <2>2 DEF TypeOK
  <2> QED
    BY <2>1, <2>2, <2>3, <1>0
<1>9. CASE ReadNonceFails
  <2>1. ProxyGoes("read_nonce", "error") /\ ReadTimesOut(NonceLen) /\ Rest
    BY <1>9 DEF ReadNonceFails, TypeOK
  <2>2. down' \in Seq(DownBytes) /\ lost' \in 0..iq' /\ SumInv'
    BY <2>1, <1>1, ProxyFrame, TimeoutSum
  <2> QED
    BY <2>1, <2>2, <1>0
<1> QED
  BY <1>2, <1>3, <1>4, <1>5, <1>6, <1>7, <1>8, <1>9 DEF Connecting

\* The types and the sum after a step of the upstream's control thread.
LEMMA CtlTypes ==
    ASSUME TypeOK, SumInv, CtlStep
    PROVE  TypeOK' /\ SumInv'
<1> DEFINE Places == {"none", "read", "ack", "nonce", "store"}
<1>0. ASSUME /\ setup' = setup /\ proxy' = proxy /\ is_chain' = is_chain
             /\ peer_nonce' = peer_nonce /\ relayed' = relayed /\ cmds' = cmds
             /\ server' = server /\ writer' = writer /\ iq' = iq,
             up' \in Seq(UpBytes), down' \in Seq(DownBytes), lost' \in 0..iq',
             ctl' \in Places, nonces' \in {"none", "stale", "own"},
             got_nonce' \in Seq(UpBytes),
             in_step' \in BOOLEAN, garbled' \in BOOLEAN, again' \in BOOLEAN
      PROVE  TypeOK'
  BY <1>0 DEF TypeOK
<1>1. ASSUME down' = down, relayed' = relayed, lost' = lost, iq' = iq
      PROVE  down' \in Seq(DownBytes) /\ lost' \in 0..iq' /\ SumInv'
  BY <1>1 DEF TypeOK, SumInv
<1>2. CmdLen \in Nat /\ NonceLen \in Nat /\ << >> \in Seq(UpBytes)
  BY Messages
<1>3. CASE CtlRead
  <2>1. up' \in Seq(UpBytes)
    BY <1>2, <1>3, UpCut DEF CtlRead
  <2>2. garbled' \in BOOLEAN /\ again' \in BOOLEAN
    BY <1>3, Zenon DEF CtlRead
  <2>3. ctl' \in Places
    BY <1>3 DEF CtlRead, AfterFrame
  <2>4. /\ setup' = setup /\ proxy' = proxy /\ is_chain' = is_chain
        /\ peer_nonce' = peer_nonce /\ relayed' = relayed /\ cmds' = cmds
        /\ server' = server /\ writer' = writer /\ iq' = iq
        /\ down' = down /\ lost' = lost /\ nonces' = nonces /\ got_nonce' = got_nonce
        /\ in_step' = in_step
    BY <1>3 DEF CtlRead, proxyVars
  <2> QED
    BY <2>1, <2>2, <2>3, <2>4, <1>0, <1>1 DEF TypeOK
<1>4. CASE CtlReadTimesOut
  <2>1. /\ UNCHANGED <<down, server, writer, ctl, nonces, got_nonce, iq>>
        /\ up' = << >>
    BY <1>4 DEF CtlReadTimesOut
  <2>2. in_step' \in BOOLEAN
    BY <1>4, Zenon DEF CtlReadTimesOut
  <2> QED
    BY <2>1, <2>2, <1>0, <1>1, <1>2, <1>4, ServerFrame DEF TypeOK
<1>5. CASE CtlAck
  <2>1. /\ UNCHANGED <<up, server, writer, nonces, got_nonce, iq>>
        /\ ServerGoes /\ down' = down \o Ack /\ ctl' \in Places
    BY <1>5 DEF CtlAck
  <2>2. down' \in Seq(DownBytes) /\ lost' \in 0..iq' /\ SumInv'
    BY <2>1, Messages, SendsSum, ServerFrame
  <2> QED
    BY <2>1, <2>2, <1>0, ServerFrame DEF TypeOK
<1>6. CASE CtlNonce
  <2>1. /\ UNCHANGED <<server, writer, nonces, iq>>
        /\ ServerGoes /\ down' = down \o NonceBytes /\ ctl' \in Places
        /\ Len(up) >= NonceLen /\ got_nonce' = Taken(up, NonceLen) /\ up' = Left(up, NonceLen)
    BY <1>6 DEF CtlNonce
  <2>2. down' \in Seq(DownBytes) /\ lost' \in 0..iq' /\ SumInv'
    BY <2>1, Messages, SendsSum, ServerFrame
  <2>3. got_nonce' \in Seq(UpBytes) /\ up' \in Seq(UpBytes)
    BY <2>1, <1>2, UpCut
  <2> QED
    BY <2>1, <2>2, <2>3, <1>0, ServerFrame DEF TypeOK
<1>7. CASE CtlNonceFails
  <2>1. /\ UNCHANGED <<down, server, writer, nonces, got_nonce, iq>>
        /\ up' = << >> /\ ctl' \in Places
    BY <1>7 DEF CtlNonceFails
  <2>2. in_step' \in BOOLEAN
    BY <1>7, Zenon DEF CtlNonceFails
  <2> QED
    BY <2>1, <2>2, <1>0, <1>1, <1>2, <1>7, ServerFrame DEF TypeOK
<1>8. CASE CtlStore
  <2>1. /\ UNCHANGED <<down, up, server, writer, got_nonce, iq>>
        /\ nonces' = "own" /\ ctl' \in Places
    BY <1>8 DEF CtlStore
  <2>2. in_step' \in BOOLEAN
    BY <1>8, Zenon DEF CtlStore
  <2> QED
    BY <2>1, <2>2, <1>0, <1>1, <1>8, ServerFrame DEF TypeOK
<1> QED
  BY <1>3, <1>4, <1>5, <1>6, <1>7, <1>8 DEF CtlStep

\* The types and the sum after any step.
LEMMA NextTypes ==
    ASSUME TypeOK, SumInv, [Next]_vars
    PROVE  TypeOK' /\ SumInv'
<1>1. CASE ConnectFails \/ WriteFails
  <2>1. PICK from : ProxyGoes(from, "error")
    BY <1>1 DEF ConnectFails, WriteFails
  <2>2. UNCHANGED <<is_chain, peer_nonce, down, up, lost>>
    BY <1>1 DEF ConnectFails, WriteFails
  <2> QED
    BY <2>1, <2>2, ProxyFrame DEF TypeOK, SumInv
<1>2. CASE Accept
  BY <1>2 DEF Accept, TypeOK, SumInv
<1>3. CASE Connecting
  BY <1>3, ConnectingTypes
<1>4. CASE Relay
  <2>1. /\ down # << >> /\ down' = Tail(down)
        /\ relayed' = IF Head(down) \in {"q", "x"} THEN Append(relayed, Head(down))
                      ELSE relayed
        /\ UNCHANGED <<setup, proxy, is_chain, peer_nonce, up, cmds, lost,
                       server, writer, ctl, nonces, got_nonce, iq, in_step, garbled, again>>
    BY <1>4 DEF Relay, serverVars
  <2>2. down \in Seq(DownBytes) /\ relayed \in Seq(DownBytes) /\ lost \in Nat
    BY LengthsAssumption DEF TypeOK
  <2>3. /\ relayed' \in Seq(DownBytes) /\ down' \in Seq(DownBytes)
        /\ IqIn(down') + IqIn(relayed') = IqIn(down) + IqIn(relayed)
    <3>1. CASE relayed' = Append(relayed, Head(down))
      BY <2>1, <2>2, <3>1, IqMove, Zenon
    <3>2. CASE Head(down) \notin {"q", "x"} /\ relayed' = relayed
      BY <2>1, <2>2, <3>2, IqSkip
    <3> QED
      BY <2>1, <3>1, <3>2
  <2>4. /\ IqIn(down') \in Nat /\ IqIn(relayed') \in Nat
        /\ IqIn(down) \in Nat /\ IqIn(relayed) \in Nat
    BY <2>2, <2>3, IqType
  <2>5. SumInv'
    BY <2>1, <2>2, <2>3, <2>4 DEF SumInv
  <2> QED
    BY <2>1, <2>3, <2>5 DEF TypeOK
<1>5. CASE Forward
  <2>1. PICK frame \in Forwarded : up' = up \o frame
    BY <1>5 DEF Forward
  <2>2. /\ cmds < MaxCmds /\ cmds' = cmds + 1
        /\ UNCHANGED <<setup, proxy, is_chain, peer_nonce, down, relayed, lost,
                       server, writer, ctl, nonces, got_nonce, iq, in_step, garbled, again>>
    BY <1>5 DEF Forward, serverVars
  <2>3. frame \in Seq(UpBytes)
    BY Messages DEF Forwarded
  <2>4. up' \in Seq(UpBytes) /\ cmds' \in 0..MaxCmds
    BY <2>1, <2>2, <2>3, LengthsAssumption DEF TypeOK
  <2> QED
    BY <2>2, <2>4 DEF TypeOK, SumInv
<1>6. CASE SendMagic
  <2>1. /\ server' = "served" /\ ctl' = "read" /\ writer' \in {writer, "run"}
        /\ down' = down \o Magic
        /\ UNCHANGED <<up, nonces, got_nonce, iq>> /\ ServerGoes
    BY <1>6 DEF SendMagic
  <2>2. down' \in Seq(DownBytes) /\ lost' \in 0..iq' /\ SumInv'
    BY <2>1, Messages, SendsSum, ServerFrame
  <2> QED
    BY <2>1, <2>2, ServerFrame DEF TypeOK
<1>7. CASE WriterNonce
  <2>1. /\ writer' = "run"
        /\ UNCHANGED <<down, up, server, ctl, nonces, got_nonce, iq>> /\ ServerGoes
    BY <1>7 DEF WriterNonce
  <2> QED
    BY <2>1, ServerFrame DEF TypeOK, SumInv
<1>8. CASE SendIq
  <2> DEFINE e == IF Keyed THEN "x" ELSE "q"
  <2>0. e \in {"q", "x"} /\ down' = Append(down, e)
    BY <1>8 DEF SendIq
  <2> HIDE DEF e
  <2>1. /\ iq < MaxIq /\ iq' = iq + 1 /\ down' = down \o <<e>>
        /\ UNCHANGED <<up, server, writer, ctl, nonces, got_nonce>> /\ ServerGoes
    <3>1. down \in Seq(DownBytes) /\ e \in DownBytes
      BY <2>0 DEF TypeOK, DownBytes
    <3>2. Append(down, e) = down \o <<e>>
      BY <3>1
    <3> QED
      BY <1>8, <2>0, <3>2 DEF SendIq
  <2>2. down \in Seq(DownBytes) /\ <<e>> \in Seq(DownBytes) /\ relayed \in Seq(DownBytes)
    BY <2>0 DEF TypeOK, DownBytes
  <2>3. IqIn(down \o <<e>>) = IqIn(down) + IqIn(<<e>>) /\ IqIn(<<e>>) = 1
    BY <2>0, <2>2, IqConcat, IqOne
  <2>4. down' \in Seq(DownBytes) /\ IqIn(down') = IqIn(down) + 1
    BY <2>1, <2>2, <2>3
  <2>5. IqIn(down) \in Nat /\ IqIn(relayed) \in Nat /\ iq \in 0..MaxIq /\ lost \in 0..iq
    BY <2>2, IqType DEF TypeOK
  <2>6. relayed' = relayed /\ lost' = lost
    BY <2>1, ServerFrame
  <2>7. SumInv' /\ iq' \in 0..MaxIq /\ lost' \in 0..iq'
    BY <2>1, <2>4, <2>5, <2>6, LengthsAssumption DEF SumInv
  <2> QED
    BY <2>1, <2>4, <2>7, ServerFrame DEF TypeOK
<1>9. CASE CtlStep
  BY <1>9, CtlTypes
<1>10. CASE UNCHANGED vars
  BY <1>10 DEF vars, TypeOK, SumInv
<1> QED
  BY <1>1, <1>2, <1>3, <1>4, <1>5, <1>6, <1>7, <1>8, <1>9, <1>10 DEF Next

-----------------------------------------------------------------------------
(* The magic packet first *)

\* Reading all there is.
LEMMA ExactRead ==
    ASSUME NEW S, NEW s \in Seq(S), NEW n, n = Len(s)
    PROVE  Taken(s, n) = s /\ Left(s, n) = << >>
BY DEF Taken, Left

\* What is added at the end does not change the beginning.
LEMMA TakenStays ==
    ASSUME NEW S, NEW s \in Seq(S), NEW t \in Seq(S), NEW n \in 0..Len(s)
    PROVE  /\ Len(s \o t) >= Len(s)
           /\ Taken(s \o t, n) = Taken(s, n)
           /\ \A i \in 1..Len(s) : (s \o t)[i] = s[i]
BY DEF Taken

\* Nothing before a message is the message.
LEMMA FirstMessage ==
    ASSUME NEW S, NEW t \in Seq(S)
    PROVE  << >> \o t = t
OBVIOUS

\* A step of the upstream that adds to what is under way, after the magic packet.
LEMMA MagicGrows ==
    ASSUME TypeOK, MagicFirst, server = "served", NEW t \in Seq(DownBytes), down' = down \o t,
           server' = server, proxy' = proxy, lost' = lost
    PROVE  MagicFirst'
<1>1. down \in Seq(DownBytes) /\ Len(down) \in 0..Len(down) /\ Len(down) \in Nat
  BY DEF TypeOK
<1>2. Len(down') >= Len(down) /\ \A i \in 1..Len(down) : down'[i] = down[i]
  BY <1>1, TakenStays
<1>3. ASSUME proxy = "magic"
      PROVE  Len(down') >= MagicLen /\ \A i \in 1..MagicLen : down'[i] = "m"
  <2>1. Len(down) >= MagicLen /\ \A i \in 1..MagicLen : down[i] = "m"
    BY <1>3 DEF MagicFirst
  <2>2. MagicLen \in Nat /\ Len(down') \in Nat
    BY <1>1, Messages
  <2> QED
    BY <2>1, <2>2, <1>1, <1>2
<1> QED
  BY <1>3 DEF MagicFirst

\* A step that leaves the beginning of what is under way alone.
LEMMA MagicSame ==
    ASSUME MagicFirst, down' = down, server' = server, lost' = lost,
           writer' = writer \/ server = "served", ctl' = ctl \/ server = "served",
           proxy' = proxy \/ (proxy # "up" /\ proxy' \in {"error", "ack"})
    PROVE  MagicFirst'
BY DEF MagicFirst

\* connect_upstream keeps to the magic packet first.
LEMMA MagicConnecting ==
    ASSUME TypeOK, SumInv, MagicFirst, Connecting, ~setup.proxyKey
    PROVE  MagicFirst'
<1>1. /\ MagicLen \in Nat \ {0} /\ CmdLen \in Nat \ {0} /\ Len(<< >>) = 0
      /\ down \in Seq(DownBytes) /\ Len(down) \in Nat /\ lost \in Nat
  BY Messages, LengthsAssumption DEF TypeOK
<1>2. CASE ReadMagic
  <2>1. ProxyGoes("magic", "probe") /\ Reads(MagicLen)
    BY <1>2 DEF ReadMagic
  <2>2. /\ proxy = "magic" /\ proxy' = "probe" /\ server' = server /\ writer' = writer
        /\ ctl' = ctl /\ iq' = iq /\ relayed' = relayed
    BY <2>1, ProxyFrame
  <2>3. Len(down) >= MagicLen /\ lost' = lost + IqIn(Taken(down, MagicLen))
    BY <2>1 DEF Reads
  <2>4. server = "served"
    BY <1>1, <2>3 DEF MagicFirst
  <2>5. \A i \in 1..MagicLen : down[i] = "m"
    BY <2>2, <2>4 DEF MagicFirst
  <2>6. IqIn(Taken(down, MagicLen)) = 0
    <3>1. /\ Taken(down, MagicLen) \in Seq(DownBytes) /\ Len(Taken(down, MagicLen)) = MagicLen
          /\ \A i \in 1..MagicLen : Taken(down, MagicLen)[i] = down[i]
      BY <1>1, <2>3 DEF Taken
    <3>2. \A i \in 1..Len(Taken(down, MagicLen)) :
              Taken(down, MagicLen)[i] \notin {"q", "x"}
      BY <3>1, <2>5
    <3> QED
      BY <3>1, <3>2, IqNone
  <2>7. lost' = 0
    BY <1>1, <2>2, <2>3, <2>6 DEF MagicFirst
  <2> QED
    BY <1>1, <2>2, <2>4, <2>7 DEF MagicFirst
<1>3. CASE ReadMagicFails
  <2>1. ProxyGoes("magic", "error") /\ ReadTimesOut(MagicLen)
    BY <1>3 DEF ReadMagicFails
  <2>2. /\ proxy = "magic" /\ proxy' = "error" /\ server' = server /\ writer' = writer
        /\ ctl' = ctl
    BY <2>1, ProxyFrame
  <2>3. Len(down) < MagicLen /\ lost' = lost + IqIn(down) /\ down' = << >>
    BY <2>1 DEF ReadTimesOut
  <2>4. server # "served" /\ down = << >> /\ lost = 0
    BY <1>1, <2>2, <2>3 DEF MagicFirst
  <2>5. IqIn(down) \in Nat /\ IqIn(down) <= Len(down)
    BY <1>1, IqType
  <2>6. lost' = 0
    BY <1>1, <2>3, <2>4, <2>5
  <2> QED
    BY <1>1, <2>2, <2>3, <2>4, <2>6 DEF MagicFirst
<1>4. CASE WriteProbe
  <2>1. ProxyGoes("probe", "ack") /\ down' = down /\ lost' = lost
    BY <1>4 DEF WriteProbe
  <2> QED
    BY <2>1, ProxyFrame, MagicSame
<1>5. CASE ReadAck
  <2>1. PICK chain \in LooksLikeAck(down[1]) :
          ProxyGoes("ack", AfterAck(chain)) /\ Reads(CmdLen)
    BY <1>5 DEF ReadAck
  <2>2. /\ proxy = "ack" /\ proxy' = "up" /\ server' = server /\ iq' = iq
        /\ relayed' = relayed
    BY <2>1, ProxyFrame DEF AfterAck
  <2>3. Len(down) >= CmdLen
    BY <2>1 DEF Reads
  <2>4. server = "served" /\ lost = 0
    BY <1>1, <2>2, <2>3 DEF MagicFirst
  <2>5. lost' = lost + IqIn(Taken(down, CmdLen)) /\ IqIn(Taken(down, CmdLen)) \in 0..CmdLen
    BY <1>1, <2>1, <2>2, ReadsSum
  <2>6. lost' <= CmdLen
    BY <1>1, <2>4, <2>5
  <2> QED
    BY <2>2, <2>4, <2>6 DEF MagicFirst
<1>6. CASE ReadAckTimesOut
  <2>1. ProxyGoes("ack", "up") /\ ReadTimesOut(CmdLen)
    BY <1>6 DEF ReadAckTimesOut
  <2>2. /\ proxy = "ack" /\ proxy' = "up" /\ server' = server /\ iq' = iq
        /\ relayed' = relayed /\ writer' = writer /\ ctl' = ctl
    BY <2>1, ProxyFrame
  <2>3. /\ lost' = lost + IqIn(down) /\ IqIn(down) \in 0..CmdLen /\ down' = << >>
        /\ lost = 0
    BY <1>1, <2>1, <2>2, TimeoutSum DEF ReadTimesOut, MagicFirst
  <2>4. lost' <= CmdLen
    BY <1>1, <2>3
  <2> QED
    BY <2>2, <2>3, <2>4 DEF MagicFirst
<1>7. ~(SendNonce \/ ReadNonce \/ ReadNonceFails)
  BY DEF SendNonce, ReadNonce, ReadNonceFails, ProxyGoes, MagicFirst
<1> QED
  BY <1>2, <1>3, <1>4, <1>5, <1>6, <1>7 DEF Connecting

\* Every step keeps to the magic packet first.
LEMMA NextMagic ==
    ASSUME TypeOK, SumInv, MagicInv, [Next]_vars
    PROVE  MagicInv'
<1> SUFFICES ASSUME ~setup.proxyKey, ~Multi PROVE MagicFirst'
  BY SetupStays DEF MagicInv, Multi
<1>0. MagicFirst /\ ~Keyed
  BY DEF MagicInv, Keyed
<1>1. CASE ConnectFails \/ WriteFails
  <2>1. PICK from \in {"connect", "probe", "send_nonce"} : ProxyGoes(from, "error")
    BY <1>1 DEF ConnectFails, WriteFails
  <2>2. down' = down /\ lost' = lost
    BY <1>1 DEF ConnectFails, WriteFails
  <2> QED
    BY <2>1, <2>2, <1>0, ProxyFrame, MagicSame
<1>2. CASE Accept
  BY <1>0, <1>2 DEF Accept, MagicFirst
<1>3. CASE Connecting
  BY <1>0, <1>3, MagicConnecting
<1>4. CASE Relay
  <2>1. down # << >> /\ proxy = "up" /\ UNCHANGED <<proxy, lost, server>>
    BY <1>4 DEF Relay, serverVars
  <2>2. server = "served"
    BY <2>1, <1>0 DEF MagicFirst
  <2> QED
    BY <2>1, <2>2, <1>0 DEF MagicFirst
<1>5. CASE Forward
  BY <1>0, <1>5, MagicSame DEF Forward, serverVars
<1>6. CASE SendMagic
  <2>1. /\ server = "magic" /\ server' = "served" /\ down' = down \o Magic
        /\ ServerGoes
    BY <1>6 DEF SendMagic
  <2>2. down = << >>
    BY <2>1, <1>0 DEF MagicFirst
  <2>3. down' = Magic
    BY <2>1, <2>2, Messages, FirstMessage
  <2>4. /\ Len(down') >= MagicLen
        /\ \A i \in 1..MagicLen : down'[i] = "m"
    BY <2>3, Messages
  <2> QED
    BY <2>1, <2>4, <1>0, ServerFrame DEF MagicFirst
<1>7. CASE WriterNonce
  <2>1. server = "served"
    BY <1>7, <1>0 DEF WriterNonce, MagicFirst
  <2> QED
    BY <2>1, <1>7, <1>0, ServerFrame, MagicSame DEF WriterNonce
<1>8. CASE SendIq
  <2>1. server = "served"
    BY <1>8, <1>0 DEF SendIq, MagicFirst
  <2>2. "q" \in DownBytes /\ down \in Seq(DownBytes)
    BY DEF DownBytes, TypeOK
  <2>3. <<"q">> \in Seq(DownBytes) /\ Append(down, "q") = down \o <<"q">>
    BY <2>2
  <2>4. down' = down \o <<"q">> /\ server' = server
    BY <2>3, <1>8, <1>0 DEF SendIq
  <2> QED
    BY <2>1, <2>3, <2>4, <1>8, <1>0, ServerFrame, MagicGrows DEF SendIq
<1>9. CASE CtlStep
  <2>1. server = "served" /\ server' = server /\ proxy' = proxy /\ lost' = lost
    BY <1>9, <1>0, ServerFrame DEF CtlStep, CtlRead, CtlReadTimesOut, CtlAck, CtlNonce,
       CtlNonceFails, CtlStore, MagicFirst, proxyVars
  <2>2. CASE CtlAck
    <3>1. down' = down \o Ack
      BY <2>2 DEF CtlAck
    <3> QED
      BY <3>1, <2>1, <1>0, Messages, MagicGrows
  <2>3. CASE CtlNonce
    <3>1. down' = down \o NonceBytes
      BY <2>3 DEF CtlNonce
    <3> QED
      BY <3>1, <2>1, <1>0, Messages, MagicGrows
  <2>4. CASE CtlRead \/ CtlReadTimesOut \/ CtlNonceFails \/ CtlStore
    <3>1. down' = down
      BY <2>4 DEF CtlRead, CtlReadTimesOut, CtlNonceFails, CtlStore
    <3> QED
      BY <3>1, <2>1, <1>0, MagicSame
  <2> QED
    BY <2>2, <2>3, <2>4, <1>9 DEF CtlStep
<1>10. CASE UNCHANGED vars
  BY <1>0, <1>10, MagicSame DEF vars
<1> QED
  BY <1>1, <1>2, <1>3, <1>4, <1>5, <1>6, <1>7, <1>8, <1>9, <1>10 DEF Next

-----------------------------------------------------------------------------
(* No key at either end *)

\* Every step keeps what goes up framed and understood when no end uses a key.
LEMMA NextClear ==
    ASSUME TypeOK, ClearInv, [Next]_vars
    PROVE  ClearInv'
<1> SUFFICES ASSUME ~setup.proxyKey, ~Keyed, ~setup.stale PROVE InClear'
  BY SetupStays DEF ClearInv, Keyed, Multi
<1> DEFINE F == {Probe, ClearFrame}
<1>0. InClear /\ CmdLen \in Nat \ {0} /\ up \in Seq(UpBytes)
  BY Messages DEF ClearInv, TypeOK
<1>f. \A f \in F : f \in Seq(UpBytes) /\ Len(f) = CmdLen
  BY Messages
<1>s. ASSUME up' = up, nonces' = nonces, garbled' = garbled,
             ctl' \in {"none", "read", "ack"}, proxy' \notin {"send_nonce", "read_nonce"}
      PROVE  InClear'
  BY <1>0, <1>s DEF InClear
<1>1. CASE ConnectFails \/ WriteFails \/ Accept
  BY <1>0, <1>1, <1>s DEF ConnectFails, WriteFails, ProxyGoes, serverVars, Accept, InClear
<1>2. CASE ReadMagic \/ ReadMagicFails \/ ReadAckTimesOut
  BY <1>0, <1>2, <1>s DEF ReadMagic, ReadMagicFails, ReadAckTimesOut, ProxyGoes, serverVars,
     InClear
<1>3. CASE WriteProbe
  <2>1. /\ proxy' = "ack" /\ up' = up \o Probe /\ ctl' = ctl /\ nonces' = nonces
        /\ garbled' = garbled
    BY <1>3, ProxyFrame DEF WriteProbe
  <2>2. Framed(up', CmdLen, F)
    BY <2>1, <1>0, <1>f, FramedAppend DEF InClear
  <2> QED
    BY <2>1, <2>2, <1>0 DEF InClear
<1>4. CASE ReadAck
  <2>1. PICK chain \in LooksLikeAck(down[1]) : ProxyGoes("ack", AfterAck(chain)) /\ up' = up
    BY <1>4 DEF ReadAck
  <2>2. AfterAck(chain) = "up"
    BY DEF AfterAck
  <2> QED
    BY <2>1, <2>2, <1>0, <1>s, ProxyFrame DEF InClear
<1>5. ~(SendNonce \/ ReadNonce \/ ReadNonceFails)
  BY <1>0 DEF SendNonce, ReadNonce, ReadNonceFails, ProxyGoes, InClear
<1>6. CASE Relay
  BY <1>0, <1>6, <1>s DEF Relay, serverVars, InClear
<1>7. CASE Forward
  <2>1. PICK frame \in F : up' = up \o frame
    BY <1>7 DEF Forward, Forwarded, write_cipher
  <2>2. proxy' = proxy /\ ctl' = ctl /\ nonces' = nonces /\ garbled' = garbled
    BY <1>7 DEF Forward, serverVars
  <2>3. Framed(up', CmdLen, F)
    BY <2>1, <1>0, <1>f, FramedAppend DEF InClear
  <2> QED
    BY <2>2, <2>3, <1>0 DEF InClear
<1>8. CASE SendMagic \/ WriterNonce \/ SendIq
  <2>1. /\ up' = up /\ nonces' = nonces /\ ctl' \in {ctl, "read"} /\ ServerGoes
    BY <1>8 DEF SendMagic, WriterNonce, SendIq
  <2> QED
    BY <2>1, <1>0, <1>s, ServerFrame DEF InClear
<1>9. CASE CtlRead
  <2>1. /\ ctl' \in AfterFrame(Taken(up, CmdLen)) /\ Len(up) >= CmdLen
        /\ garbled' = (garbled \/ ~Understood(Taken(up, CmdLen)))
        /\ up' = Left(up, CmdLen) /\ nonces' = nonces /\ proxy' = proxy
    BY <1>9 DEF CtlRead, proxyVars
  <2>2. up # << >>
    BY <2>1, <1>0
  <2>3. Taken(up, CmdLen) \in F /\ Framed(up', CmdLen, F)
    BY <2>1, <2>2, <1>0, <1>f, FramedRead DEF InClear, Taken, Left
  <2>4. Understood(Taken(up, CmdLen))
    BY <2>3, <1>0 DEF Understood, read_cipher, InClear
  <2>5. ctl' \in {"read", "ack"}
    BY <2>1 DEF AfterFrame
  <2>6. ~garbled'
    BY <2>1, <2>4, <1>0 DEF InClear
  <2> QED
    BY <2>1, <2>3, <2>5, <2>6, <1>0 DEF InClear
<1>10. CASE CtlReadTimesOut
  <2>1. Len(up) \in 1..(CmdLen - 1) /\ up # << >>
    BY <1>10, <1>0 DEF CtlReadTimesOut
  <2>2. Len(up) >= CmdLen
    BY <2>1, <1>0, <1>f, FramedRead DEF InClear
  <2> QED
    BY <2>1, <2>2, <1>0
<1>11. CASE CtlAck
  BY <1>0, <1>11, <1>s, ServerFrame DEF CtlAck, InClear
<1>12. ~(CtlNonce \/ CtlNonceFails \/ CtlStore)
  BY <1>0 DEF CtlNonce, CtlNonceFails, CtlStore, InClear
<1>13. CASE UNCHANGED vars
  BY <1>0, <1>13, <1>s DEF vars, InClear
<1> QED
  BY <1>1, <1>2, <1>3, <1>4, <1>5, <1>6, <1>7, <1>8, <1>9, <1>10, <1>11, <1>12, <1>13
  DEF Next, Connecting, CtlStep

-----------------------------------------------------------------------------
(* The phases of a fresh chain *)

\* The writer thread of a keyed upstream runs only once there are nonces.
LEMMA NextWriter ==
    ASSUME WriterInv, [Next]_vars
    PROVE  WriterInv'
<1>1. Keyed' = Keyed /\ Multi' = Multi
  BY SetupStays DEF Keyed, Multi
<1> SUFFICES ASSUME Keyed, Multi PROVE writer' = "run" => nonces' # "none"
  BY <1>1 DEF WriterInv, Keyed
<1>2. writer = "run" => nonces # "none"
  BY DEF WriterInv
<1>3. CASE ConnectFails \/ WriteFails \/ Connecting
  BY <1>2, <1>3 DEF ConnectFails, WriteFails, Connecting, ReadMagic, ReadMagicFails, WriteProbe,
     ReadAck, ReadAckTimesOut, SendNonce, ReadNonce, ReadNonceFails, ProxyGoes, serverVars
<1>4. CASE Accept \/ Relay \/ Forward
  BY <1>2, <1>4 DEF Accept, Relay, Forward, serverVars
<1>5. CASE SendMagic \/ WriterNonce \/ SendIq
  BY <1>2, <1>5 DEF SendMagic, WriterNonce, SendIq
<1>6. CASE CtlStep
  BY <1>2, <1>6 DEF CtlStep, CtlRead, CtlReadTimesOut, CtlAck, CtlNonce, CtlNonceFails, CtlStore
<1>7. CASE UNCHANGED vars
  BY <1>2, <1>7 DEF vars
<1> QED
  BY <1>3, <1>4, <1>5, <1>6, <1>7 DEF Next

\* A chain that did not come about stays so.
LEMMA UnpairedStays ==
    ASSUME Unpaired, [Next]_vars
    PROVE  Unpaired'
<1>1. ~(ConnectFails \/ WriteFails \/ Accept \/ Connecting)
  BY DEF Unpaired, ConnectFails, WriteFails, Accept, Connecting, ReadMagic, ReadMagicFails,
     WriteProbe, ReadAck, ReadAckTimesOut, SendNonce, ReadNonce, ReadNonceFails, ProxyGoes
<1>2. proxy' = proxy /\ is_chain' = is_chain /\ peer_nonce' = peer_nonce
  BY <1>1 DEF Next, vars, Relay, Forward, SendMagic, WriterNonce, SendIq, CtlStep, CtlRead,
     CtlReadTimesOut, CtlAck, CtlNonce, CtlNonceFails, CtlStore, ServerGoes, proxyVars
<1> QED
  BY <1>2 DEF Unpaired

\* A chain whose exchange was repeated stays so.
LEMMA ReopenedStays ==
    ASSUME Reopened, [Next]_vars
    PROVE  Reopened'
<1>1. ~(ConnectFails \/ WriteFails \/ Accept \/ Connecting)
  BY DEF Reopened, ConnectFails, WriteFails, Accept, Connecting, ReadMagic, ReadMagicFails,
     WriteProbe, ReadAck, ReadAckTimesOut, SendNonce, ReadNonce, ReadNonceFails, ProxyGoes
<1>2. proxy' = proxy /\ is_chain' = is_chain /\ peer_nonce' = peer_nonce
  BY <1>1 DEF Next, vars, Relay, Forward, SendMagic, WriterNonce, SendIq, CtlStep, CtlRead,
     CtlReadTimesOut, CtlAck, CtlNonce, CtlNonceFails, CtlStore, ServerGoes, proxyVars
<1>3. again'
  BY <1>1 DEF Reopened, Next, vars, Relay, Forward, serverVars, SendMagic, WriterNonce,
     SendIq, CtlStep, CtlRead, CtlReadTimesOut, CtlAck, CtlNonce, CtlNonceFails, CtlStore,
     ServerGoes
<1> QED
  BY <1>2, <1>3 DEF Reopened

\* Once each end has the other's nonce, encrypted frames are read as what they
\* are, until one is a probe that makes the upstream repeat the exchange.
LEMMA PairedGoes ==
    ASSUME TypeOK, FreshChain, Paired, [Next]_vars
    PROVE  (Paired \/ Reopened)'
<1> DEFINE F == {SealedFrame, SealedProbe}
<1>0. /\ CmdLen \in Nat \ {0} /\ up \in Seq(UpBytes)
      /\ \A f \in F : f \in Seq(UpBytes) /\ Len(f) = CmdLen
      /\ Framed(up, CmdLen, F)
  BY Messages DEF Paired, TypeOK
<1>s. ASSUME up' = up,
             UNCHANGED <<proxy, server, is_chain, garbled, again, in_step, peer_nonce,
                         got_nonce, ctl, nonces>>
      PROVE  Paired'
  BY <1>s DEF Paired
<1>1. ~(ConnectFails \/ WriteFails \/ Accept \/ Connecting)
  BY DEF Paired, ConnectFails, WriteFails, Accept, Connecting, ReadMagic, ReadMagicFails,
     WriteProbe, ReadAck, ReadAckTimesOut, SendNonce, ReadNonce, ReadNonceFails, ProxyGoes
<1>2. CASE Relay
  BY <1>2, <1>s DEF Relay, serverVars
<1>3. CASE Forward
  <2>1. PICK frame \in F : up' = up \o frame
    BY <1>3 DEF Forward, Forwarded, write_cipher, FreshChain, Paired
  <2>2. UNCHANGED <<proxy, server, is_chain, garbled, again, in_step, peer_nonce,
                    got_nonce, ctl, nonces>>
    BY <1>3 DEF Forward, serverVars
  <2>3. Framed(up', CmdLen, F)
    BY <2>1, <1>0, FramedAppend
  <2> QED
    BY <2>2, <2>3 DEF Paired
<1>4. ~SendMagic
  BY DEF SendMagic, Paired
<1>5. CASE WriterNonce \/ SendIq
  BY <1>5, <1>s, ServerFrame DEF WriterNonce, SendIq
<1>6. CASE CtlRead
  <2> DEFINE f == Taken(up, CmdLen)
  <2>1. /\ ctl' \in AfterFrame(f) /\ Len(up) >= CmdLen /\ ctl = "read"
        /\ garbled' = (garbled \/ ~Understood(f))
        /\ again' = (again \/ (ctl' = "ack" /\ f = SealedProbe /\ Understood(f)))
        /\ up' = Left(up, CmdLen)
        /\ UNCHANGED <<proxy, server, is_chain, in_step, peer_nonce, got_nonce, nonces>>
    BY <1>6 DEF CtlRead, proxyVars
  <2>2. up # << >>
    BY <2>1, <1>0
  <2>3. f \in F /\ Framed(up', CmdLen, F)
    BY <2>1, <2>2, <1>0, FramedRead DEF Taken, Left
  <2> HIDE DEF f
  <2>4. Understood(f)
    BY <2>1, <2>3 DEF Paired, Understood, read_cipher
  <2>5. ~garbled'
    BY <2>1, <2>4 DEF Paired
  <2>6. SealedFrame \notin {Probe, SealedProbe}
    BY Messages
  <2>7. ctl' \in {"read", "ack"}
    BY <2>1 DEF AfterFrame
  <2>8. CASE ctl' = "read"
    <3>1. ~again'
      BY <2>1, <2>8 DEF Paired
    <3> QED
      BY <2>1, <2>3, <2>5, <2>8, <3>1 DEF Paired
  <2>9. CASE ctl' = "ack"
    <3>1. f = SealedProbe
      BY <2>1, <2>3, <2>4, <2>6, <2>9 DEF AfterFrame
    <3>2. again'
      BY <2>1, <2>4, <2>9, <3>1
    <3> QED
      BY <2>1, <3>2 DEF Paired, Reopened
  <2> QED
    BY <2>7, <2>8, <2>9
<1>7. CASE CtlReadTimesOut
  <2>1. Len(up) \in 1..(CmdLen - 1) /\ up # << >>
    BY <1>7, <1>0 DEF CtlReadTimesOut
  <2>2. Len(up) >= CmdLen
    BY <2>1, <1>0, FramedRead
  <2> QED
    BY <2>1, <2>2, <1>0
<1>8. ~(CtlAck \/ CtlNonce \/ CtlNonceFails)
  BY DEF CtlAck, CtlNonce, CtlNonceFails, Paired
<1>9. CASE CtlStore
  <2>1. /\ ctl' = "read" /\ nonces' = "own" /\ up' = up /\ in_step'
        /\ UNCHANGED <<proxy, server, is_chain, garbled, again, peer_nonce, got_nonce>>
    BY <1>9, ServerFrame DEF CtlStore
  <2> QED
    BY <2>1 DEF Paired
<1>10. CASE UNCHANGED vars
  BY <1>10, <1>s DEF vars
<1> QED
  BY <1>1, <1>2, <1>3, <1>4, <1>5, <1>6, <1>7, <1>8, <1>9, <1>10 DEF Next, CtlStep

\* The exchange is repeated for a cause.
LEMMA NextStore ==
    ASSUME StoreInv, [Next]_vars
    PROVE  StoreInv'
<1>1. setup' = setup /\ Keyed' = Keyed
  BY SetupStays DEF Keyed, Multi
<1>2. CASE UNCHANGED <<ctl, nonces, garbled, again>>
  BY <1>1, <1>2 DEF StoreInv
<1>3. CASE CtlRead
  <2> DEFINE f == Taken(up, CmdLen)
  <2>1. /\ ctl' \in AfterFrame(f)
        /\ garbled' = (garbled \/ ~Understood(f))
        /\ again' = (again \/ (ctl' = "ack" /\ f = SealedProbe /\ Understood(f)))
        /\ nonces' = nonces
    BY <1>3 DEF CtlRead
  <2> HIDE DEF f
  <2>2. ctl' \in {"read", "ack"}
    BY <2>1 DEF AfterFrame
  <2>3. ASSUME ctl' = "ack", nonces = "own" PROVE garbled' \/ again'
    <3>1. CASE Understood(f)
      <4>1. f \in {SealedFrame, SealedProbe} /\ f \in {Probe, SealedProbe}
        BY <2>1, <2>3, <3>1 DEF AfterFrame, Understood, read_cipher
      <4>2. f = SealedProbe
        BY <4>1, Messages
      <4> QED
        BY <4>2, <2>1, <2>3, <3>1
    <3>2. CASE ~Understood(f)
      BY <2>1, <3>2
    <3> QED
      BY <3>1, <3>2
  <2> QED
    BY <1>1, <2>1, <2>2, <2>3 DEF StoreInv
<1>4. CASE CtlAck \/ CtlNonce
  <2>1. UNCHANGED <<nonces, garbled, again>>
    BY <1>4, ServerFrame DEF CtlAck, CtlNonce
  <2>2. /\ ctl \in {"ack", "nonce"}
        /\ ctl' \in {"nonce", "store"} => Keyed
    BY <1>4 DEF CtlAck, CtlNonce, StoreInv
  <2> QED
    BY <1>1, <2>1, <2>2 DEF StoreInv
<1>5. CASE CtlNonceFails \/ CtlStore
  <2>1. ctl' = "read" /\ nonces' \in {nonces, "own"}
    BY <1>5 DEF CtlNonceFails, CtlStore
  <2> QED
    BY <1>1, <2>1 DEF StoreInv
<1>6. CASE SendMagic
  <2>1. ctl' = "read" /\ nonces' = nonces
    BY <1>6 DEF SendMagic
  <2> QED
    BY <1>1, <2>1 DEF StoreInv
<1>7. ConnectFails \/ WriteFails \/ Connecting => UNCHANGED <<ctl, nonces, garbled, again>>
  BY DEF ConnectFails, WriteFails, Connecting, ReadMagic, ReadMagicFails, WriteProbe, ReadAck,
     ReadAckTimesOut, SendNonce, ReadNonce, ReadNonceFails, ProxyGoes, serverVars
<1>8. Accept \/ Relay \/ Forward \/ UNCHANGED vars => UNCHANGED <<ctl, nonces, garbled, again>>
  BY DEF Accept, Relay, Forward, serverVars, vars
<1>9. WriterNonce \/ SendIq \/ CtlReadTimesOut => UNCHANGED <<ctl, nonces, garbled, again>>
  BY ServerFrame DEF WriterNonce, SendIq, CtlReadTimesOut
<1> QED
  BY <1>2, <1>3, <1>4, <1>5, <1>6, <1>7, <1>8, <1>9 DEF Next, CtlStep

\* While the upstream has no nonces, its writer thread is silent.
LEMMA WriterSilent ==
    ASSUME Keyed, WriterInv, nonces = "none"
    PROVE  ~WriterNonce /\ ~SendIq
BY DEF WriterInv, WriterNonce, SendIq

\* Until the proxy sends its nonce: each step leads to the next place, or to a
\* connection that is no chain.
LEMMA BeforeNonceGoes ==
    ASSUME TypeOK, FreshChain, WriterInv, BeforeNonce, [Next]_vars
    PROVE  (BeforeNonce \/ Exchanging \/ Astray \/ Unpaired)'
<1>0. /\ CmdLen \in Nat \ {0} /\ MagicLen \in Nat \ {0} /\ NonceLen \in Nat \ {0}
      /\ Len(<< >>) = 0
      /\ Taken(Magic, MagicLen) = Magic /\ Left(Magic, MagicLen) = << >>
      /\ Taken(Ack, CmdLen) = Ack /\ Left(Ack, CmdLen) = << >>
      /\ Taken(Probe, CmdLen) = Probe /\ Left(Probe, CmdLen) = << >>
      /\ Len(Magic) = MagicLen /\ Len(Ack) = CmdLen /\ Len(Probe) = CmdLen
      /\ Len(NonceBytes) = NonceLen /\ Ack[1] = "A"
  BY Messages, ExactRead
<1>j. /\ << >> \o Magic = Magic /\ << >> \o Probe = Probe /\ << >> \o Ack = Ack
      /\ << >> \o NonceBytes = NonceBytes
  BY Messages, FirstMessage
<1>k. /\ nonces = "none" /\ ~garbled /\ ~again /\ peer_nonce = << >>
      /\ is_chain => proxy = "send_nonce"
      /\ Keyed /\ setup.proxyKey /\ Multi
  BY DEF BeforeNonce, FreshChain, Keyed
<1>1. CASE ConnectFails \/ WriteFails
  <2>1. PICK from : ProxyGoes(from, "error")
    BY <1>1 DEF ConnectFails, WriteFails
  <2>2. peer_nonce' = peer_nonce
    BY <1>1 DEF ConnectFails, WriteFails
  <2> QED
    BY <2>1, <2>2, <1>k, ProxyFrame DEF Unpaired
<1>2. CASE Accept
  <2>1. /\ proxy = "connect" /\ proxy' = "magic" /\ server' = "magic"
        /\ UNCHANGED <<is_chain, ctl, up, down, nonces, garbled, again, peer_nonce>>
    BY <1>2 DEF Accept
  <2>2. ctl = "none" /\ up = << >> /\ down = << >>
    BY <2>1 DEF BeforeNonce
  <2> QED
    BY <2>1, <2>2, <1>k DEF BeforeNonce
<1>3. CASE ReadMagic
  <2>1. /\ ProxyGoes("magic", "probe") /\ Len(down) >= MagicLen /\ down' = Left(down, MagicLen)
        /\ UNCHANGED <<is_chain, peer_nonce, up>>
    BY <1>3 DEF ReadMagic, Reads
  <2>2. proxy = "magic" /\ down # << >>
    BY <2>1, <1>0, ProxyFrame
  <2>3. server = "served" /\ ctl = "read" /\ up = << >> /\ down = Magic
    BY <2>2 DEF BeforeNonce
  <2> QED
    BY <2>1, <2>3, <1>0, <1>k, ProxyFrame DEF BeforeNonce
<1>4. CASE ReadMagicFails
  <2>1. ProxyGoes("magic", "error") /\ peer_nonce' = peer_nonce
    BY <1>4 DEF ReadMagicFails
  <2> QED
    BY <2>1, <1>k, ProxyFrame DEF Unpaired
<1>5. CASE WriteProbe
  <2>1. /\ ProxyGoes("probe", "ack") /\ up' = up \o Probe
        /\ UNCHANGED <<is_chain, peer_nonce, down>>
    BY <1>5 DEF WriteProbe
  <2>2. proxy = "probe"
    BY <2>1, ProxyFrame
  <2>3. server = "served" /\ ctl = "read" /\ up = << >> /\ down = << >>
    BY <2>2 DEF BeforeNonce
  <2> QED
    BY <2>1, <2>3, <1>j, <1>k, ProxyFrame DEF BeforeNonce
<1>6. CASE ReadAck
  <2>1. PICK chain \in LooksLikeAck(down[1]) :
          /\ ProxyGoes("ack", AfterAck(chain)) /\ Len(down) >= CmdLen
          /\ down' = Left(down, CmdLen) /\ is_chain' = chain
          /\ peer_nonce' = peer_nonce /\ up' = up
    BY <1>6 DEF ReadAck, Reads
  <2>2. proxy = "ack" /\ down # << >>
    BY <2>1, <1>0, ProxyFrame
  <2>3. server = "served" /\ ctl \in {"nonce", "read"} /\ up = << >> /\ down = Ack
    BY <2>2 DEF BeforeNonce
  <2>4. chain = TRUE
    BY <2>1, <2>3, <1>0 DEF LooksLikeAck
  <2>5. AfterAck(chain) = "send_nonce"
    BY <2>4, <1>k DEF AfterAck
  <2>6. is_chain'
    BY <2>1, <2>4
  <2> QED
    BY <2>1, <2>3, <2>5, <2>6, <1>0, <1>k, ProxyFrame DEF BeforeNonce
<1>7. CASE ReadAckTimesOut
  <2>1. /\ ProxyGoes("ack", "up") /\ UNCHANGED <<is_chain, peer_nonce>>
    BY <1>7 DEF ReadAckTimesOut
  <2>2. ~is_chain
    BY <2>1, <1>k, ProxyFrame
  <2> QED
    BY <2>1, <2>2, <1>k, ProxyFrame DEF Unpaired
<1>8. CASE SendNonce
  <2>1. /\ ProxyGoes("send_nonce", "read_nonce") /\ up' = up \o NonceBytes
        /\ UNCHANGED <<is_chain, peer_nonce, down>>
    BY <1>8 DEF SendNonce
  <2>2. proxy = "send_nonce"
    BY <2>1, ProxyFrame
  <2>3. /\ server = "served" /\ ctl \in {"nonce", "read"} /\ up = << >> /\ down = << >>
        /\ is_chain
    BY <2>2 DEF BeforeNonce
  <2>4. up' = NonceBytes /\ Len(up') <= NonceLen
    BY <2>1, <2>3, <1>0, <1>j
  <2>5. CASE ctl = "nonce"
    BY <2>1, <2>3, <2>4, <2>5, <1>k, ProxyFrame DEF Exchanging
  <2>6. CASE ctl = "read"
    BY <2>1, <2>3, <2>4, <2>6, <1>k, ProxyFrame DEF Astray
  <2> QED
    BY <2>3, <2>5, <2>6
<1>9. ~(ReadNonce \/ ReadNonceFails \/ Relay \/ Forward)
  BY DEF BeforeNonce, ReadNonce, ReadNonceFails, ProxyGoes, Relay, Forward
<1>10. CASE SendMagic
  <2>1. /\ server = "magic" /\ server' = "served" /\ down' = down \o Magic /\ ctl' = "read"
        /\ UNCHANGED <<up, nonces>> /\ ServerGoes
    BY <1>10 DEF SendMagic
  <2>2. proxy = "magic" /\ up = << >> /\ down = << >>
    BY <2>1 DEF BeforeNonce
  <2> QED
    BY <2>1, <2>2, <1>j, <1>k, ServerFrame DEF BeforeNonce
<1>11. ~(WriterNonce \/ SendIq)
  BY <1>k, WriterSilent
<1>12. CASE CtlRead
  <2>1. /\ ctl = "read" /\ Len(up) >= CmdLen /\ ctl' \in AfterFrame(Taken(up, CmdLen))
        /\ garbled' = (garbled \/ ~Understood(Taken(up, CmdLen)))
        /\ again' = (again \/ (/\ ctl' = "ack" /\ Taken(up, CmdLen) = SealedProbe
                               /\ Understood(Taken(up, CmdLen))))
        /\ up' = Left(up, CmdLen)
        /\ UNCHANGED <<proxy, is_chain, peer_nonce, down, server, nonces>>
    BY <1>12 DEF CtlRead, proxyVars
  <2>2. up # << >>
    BY <2>1, <1>0
  <2>3. proxy = "ack" /\ server = "served" /\ up = Probe /\ down = << >>
    BY <2>1, <2>2 DEF BeforeNonce
  <2>4. Understood(Probe)
    BY <1>k DEF Understood, read_cipher
  <2>5. ctl' \in {"read", "ack"}
    BY <2>1 DEF AfterFrame
  <2>6. ~garbled' /\ ~again'
    BY <2>1, <2>3, <2>4, <1>0, <1>k, Messages
  <2> QED
    BY <2>1, <2>3, <2>5, <2>6, <1>0, <1>k DEF BeforeNonce
<1>13. ~CtlReadTimesOut
  BY <1>0 DEF CtlReadTimesOut, BeforeNonce
<1>14. CASE CtlAck
  <2>1. /\ ctl = "ack" /\ ctl' = "nonce" /\ down' = down \o Ack
        /\ UNCHANGED <<up, server, nonces>> /\ ServerGoes
    BY <1>14, <1>k DEF CtlAck
  <2>2. proxy = "ack" /\ server = "served" /\ up = << >> /\ down = << >>
    BY <2>1 DEF BeforeNonce
  <2> QED
    BY <2>1, <2>2, <1>j, <1>k, ServerFrame DEF BeforeNonce
<1>15. ~(CtlNonce \/ CtlStore)
  BY <1>0 DEF CtlNonce, CtlStore, BeforeNonce
<1>16. CASE CtlNonceFails
  <2>1. /\ ctl = "nonce" /\ ctl' = "read" /\ up' = << >>
        /\ UNCHANGED <<down, server, nonces>>
    BY <1>16 DEF CtlNonceFails
  <2> QED
    BY <2>1, <1>k, <1>16, ServerFrame DEF BeforeNonce
<1>17. CASE UNCHANGED vars
  BY <1>17 DEF vars, BeforeNonce
<1> QED
  BY <1>1, <1>2, <1>3, <1>4, <1>5, <1>6, <1>7, <1>8, <1>9, <1>10, <1>11, <1>12, <1>13, <1>14,
     <1>15, <1>16, <1>17
  DEF Next, Connecting, CtlStep

\* The exchange goes on until the proxy has the nonce, or the connection fails.
LEMMA ExchangingGoes ==
    ASSUME TypeOK, FreshChain, WriterInv, Exchanging, [Next]_vars
    PROVE  (Exchanging \/ Paired \/ Unpaired)'
<1>0. /\ CmdLen \in Nat \ {0} /\ NonceLen \in Nat \ {0} /\ Len(<< >>) = 0
      /\ Taken(NonceBytes, NonceLen) = NonceBytes /\ Left(NonceBytes, NonceLen) = << >>
      /\ Len(NonceBytes) = NonceLen /\ << >> \o NonceBytes = NonceBytes
  BY Messages, ExactRead, FirstMessage
<1>k. /\ proxy = "read_nonce" /\ server = "served" /\ is_chain
      /\ ~garbled /\ ~again /\ peer_nonce = << >> /\ Keyed
  BY DEF Exchanging, FreshChain
<1>1. ~(ConnectFails \/ Accept \/ Relay \/ Forward \/ SendMagic \/ ReadMagic \/ ReadMagicFails
        \/ WriteProbe \/ ReadAck \/ ReadAckTimesOut \/ SendNonce \/ WriteFails)
  BY <1>k DEF WriteFails, ConnectFails, Accept, Relay, Forward, SendMagic, ReadMagic,
     ReadMagicFails, WriteProbe, ReadAck, ReadAckTimesOut, SendNonce, ProxyGoes
<1>2. CASE ReadNonce
  <2>1. /\ ProxyGoes("read_nonce", "up") /\ Len(down) >= NonceLen
        /\ peer_nonce' = Taken(down, NonceLen) /\ UNCHANGED <<is_chain, up>>
    BY <1>2 DEF ReadNonce, Reads
  <2>2. down # << >>
    BY <2>1, <1>0
  <2>3. /\ Taken(down, NonceLen) = NonceBytes /\ got_nonce = NonceBytes /\ up = << >>
        /\ \/ ctl = "store" /\ nonces = "none"
           \/ ctl = "read" /\ nonces = "own" /\ in_step
    BY <2>2, <1>0 DEF Exchanging
  <2>4. Framed(up, CmdLen, {SealedFrame, SealedProbe})
    BY <2>3, FramedEmpty
  <2>5. Framed(up', CmdLen, {SealedFrame, SealedProbe})
    BY <2>1, <2>4
  <2> QED
    BY <2>1, <2>3, <2>5, <1>k, ProxyFrame DEF Paired
<1>3. CASE ReadNonceFails
  <2>1. ProxyGoes("read_nonce", "error") /\ peer_nonce' = peer_nonce
    BY <1>3 DEF ReadNonceFails
  <2> QED
    BY <2>1, <1>k, ProxyFrame DEF Unpaired
<1>4. CASE WriterNonce
  <2>1. UNCHANGED <<down, up, server, ctl, nonces, got_nonce>> /\ ServerGoes
    BY <1>4 DEF WriterNonce
  <2> QED
    BY <2>1, ServerFrame DEF Exchanging
<1>5. CASE SendIq
  <2>1. UNCHANGED <<up, server, ctl, nonces, got_nonce>> /\ ServerGoes
    BY <1>5 DEF SendIq
  <2>2. nonces # "none"
    BY <1>5, <1>k, WriterSilent
  <2>3. /\ ctl = "read" /\ nonces = "own" /\ in_step /\ up = << >>
        /\ got_nonce = NonceBytes
        /\ Len(down) >= NonceLen /\ Taken(down, NonceLen) = NonceBytes
    BY <2>2 DEF Exchanging
  <2>4. PICK e \in DownBytes : down' = Append(down, e)
    BY <1>5, <1>k DEF SendIq, DownBytes
  <2>5. down \in Seq(DownBytes) /\ <<e>> \in Seq(DownBytes) /\ down' = down \o <<e>>
    <3>1. down \in Seq(DownBytes) /\ <<e>> \in Seq(DownBytes)
      BY DEF TypeOK
    <3>2. Append(down, e) = down \o <<e>>
      BY <3>1
    <3> QED
      BY <3>1, <3>2, <2>4
  <2>6. NonceLen \in 0..Len(down) /\ Len(down) \in Nat
    BY <2>3, <2>5, <1>0
  <2>7. /\ Len(down \o <<e>>) >= Len(down)
        /\ Taken(down \o <<e>>, NonceLen) = Taken(down, NonceLen)
    BY <2>5, <2>6, TakenStays
  <2>8. Len(down') >= NonceLen /\ Taken(down', NonceLen) = NonceBytes
    BY <2>3, <2>5, <2>6, <2>7, <1>0
  <2> QED
    BY <2>1, <2>3, <2>8, <1>k, ServerFrame DEF Exchanging
<1>6. ~(CtlRead \/ CtlReadTimesOut \/ CtlAck)
  BY <1>0 DEF Exchanging, CtlRead, CtlReadTimesOut, CtlAck
<1>7. CASE CtlNonce
  <2>1. /\ ctl = "nonce" /\ ctl' = "store" /\ got_nonce' = Taken(up, NonceLen)
        /\ up' = Left(up, NonceLen) /\ down' = down \o NonceBytes
        /\ UNCHANGED <<server, nonces>> /\ ServerGoes
    BY <1>7 DEF CtlNonce
  <2>2. nonces = "none" /\ up = NonceBytes /\ down = << >>
    BY <2>1 DEF Exchanging
  <2> QED
    BY <2>1, <2>2, <1>0, <1>k, ServerFrame DEF Exchanging
<1>8. ~CtlNonceFails
  BY <1>0 DEF Exchanging, CtlNonceFails
<1>9. CASE CtlStore
  <2>1. /\ ctl = "store" /\ ctl' = "read" /\ nonces' = "own" /\ in_step'
        /\ UNCHANGED <<down, up, server, got_nonce>>
    BY <1>9 DEF CtlStore
  <2>2. up = << >> /\ down = NonceBytes /\ got_nonce = NonceBytes
    BY <2>1 DEF Exchanging
  <2> QED
    BY <2>1, <2>2, <1>0, <1>9, <1>k, ServerFrame DEF Exchanging
<1>10. CASE UNCHANGED vars
  BY <1>10 DEF vars, Exchanging
<1> QED
  BY <1>1, <1>2, <1>3, <1>4, <1>5, <1>6, <1>7, <1>8, <1>9, <1>10 DEF Next, Connecting, CtlStep

\* An exchange that went wrong gives the proxy at most an acknowledgement, which
\* is shorter than a nonce: it never takes one.
LEMMA AstrayGoes ==
    ASSUME TypeOK, FreshChain, WriterInv, Astray, [Next]_vars
    PROVE  (Astray \/ Unpaired)'
<1>0. /\ CmdLen \in Nat \ {0} /\ NonceLen \in Nat \ {0} /\ CmdLen < NonceLen
      /\ Len(<< >>) = 0 /\ Len(Ack) = CmdLen /\ << >> \o Ack = Ack
      /\ up \in Seq(UpBytes) /\ Len(up) \in Nat
  BY Messages, FirstMessage, LengthsAssumption DEF TypeOK
<1>k. /\ proxy = "read_nonce" /\ server = "served" /\ nonces = "none"
      /\ peer_nonce = << >> /\ Keyed
  BY DEF Astray, FreshChain
<1>1. ~(ConnectFails \/ Accept \/ Relay \/ Forward \/ SendMagic \/ ReadMagic \/ ReadMagicFails
        \/ WriteProbe \/ ReadAck \/ ReadAckTimesOut \/ SendNonce \/ WriteFails)
  BY <1>k DEF WriteFails, ConnectFails, Accept, Relay, Forward, SendMagic, ReadMagic,
     ReadMagicFails, WriteProbe, ReadAck, ReadAckTimesOut, SendNonce, ProxyGoes
<1>2. ~ReadNonce
  BY <1>0 DEF Astray, ReadNonce, Reads
<1>3. CASE ReadNonceFails
  <2>1. ProxyGoes("read_nonce", "error") /\ peer_nonce' = peer_nonce
    BY <1>3 DEF ReadNonceFails
  <2> QED
    BY <2>1, <1>k, ProxyFrame DEF Unpaired
<1>4. ~(WriterNonce \/ SendIq)
  BY <1>k, WriterSilent
<1>5. CASE CtlRead
  <2>1. /\ ctl = "read" /\ Len(up) >= CmdLen /\ ctl' \in AfterFrame(Taken(up, CmdLen))
        /\ up' = Left(up, CmdLen)
        /\ UNCHANGED <<proxy, peer_nonce, down, server, nonces>>
    BY <1>5 DEF CtlRead, proxyVars
  <2>2. up # << >> /\ Len(up') = Len(up) - CmdLen
    BY <2>1, <1>0, UpCut
  <2>3. Len(up) <= NonceLen /\ down = << >>
    BY <2>1, <2>2 DEF Astray
  <2>4. ctl' \in {"read", "ack"} /\ Len(up') < NonceLen /\ Len(up') <= NonceLen
    BY <2>1, <2>2, <2>3, <1>0 DEF AfterFrame
  <2> QED
    BY <2>1, <2>3, <2>4, <1>k DEF Astray
<1>6. CASE CtlReadTimesOut
  <2>1. /\ ctl = "read" /\ up' = << >> /\ UNCHANGED <<down, server, ctl, nonces>>
    BY <1>6 DEF CtlReadTimesOut
  <2>2. Len(up') <= NonceLen
    BY <2>1, <1>0
  <2> QED
    BY <2>1, <2>2, <1>k, <1>6, ServerFrame DEF Astray
<1>7. CASE CtlAck
  <2>1. /\ ctl = "ack" /\ ctl' = "nonce" /\ down' = down \o Ack
        /\ UNCHANGED <<up, server, nonces>> /\ ServerGoes
    BY <1>7, <1>k DEF CtlAck
  <2>2. Len(up) < NonceLen /\ down = << >>
    BY <2>1 DEF Astray
  <2> QED
    BY <2>1, <2>2, <1>0, <1>k, ServerFrame DEF Astray
<1>8. ~(CtlNonce \/ CtlStore)
  BY <1>0 DEF Astray, CtlNonce, CtlStore
<1>9. CASE CtlNonceFails
  <2>1. /\ ctl = "nonce" /\ ctl' = "read" /\ up' = << >>
        /\ UNCHANGED <<down, server, nonces>>
    BY <1>9 DEF CtlNonceFails
  <2>2. down = Ack
    BY <2>1 DEF Astray
  <2> QED
    BY <2>1, <2>2, <1>9, <1>k, ServerFrame DEF Astray
<1>10. CASE UNCHANGED vars
  BY <1>10 DEF vars, Astray
<1> QED
  BY <1>1, <1>2, <1>3, <1>4, <1>5, <1>6, <1>7, <1>8, <1>9, <1>10 DEF Next, Connecting, CtlStep

\* Every step takes a fresh chain from one of its phases to one of them.
LEMMA NextChain ==
    ASSUME TypeOK, WriterInv, ChainInv, [Next]_vars
    PROVE  ChainInv'
<1>1. FreshChain' = FreshChain
  BY SetupStays DEF FreshChain, Keyed, Multi
<1>2. ASSUME FreshChain
      PROVE  (BeforeNonce \/ Exchanging \/ Astray \/ Paired \/ Reopened \/ Unpaired)'
  <2>1. CASE BeforeNonce
    BY <2>1, <1>2, BeforeNonceGoes
  <2>2. CASE Exchanging
    BY <2>2, <1>2, ExchangingGoes
  <2>3. CASE Astray
    BY <2>3, <1>2, AstrayGoes
  <2>4. CASE Paired
    BY <2>4, <1>2, PairedGoes
  <2>5. CASE Reopened
    BY <2>5, ReopenedStays
  <2>6. CASE Unpaired
    BY <2>6, UnpairedStays
  <2> QED
    BY <2>1, <2>2, <2>3, <2>4, <2>5, <2>6, <1>2 DEF ChainInv
<1> QED
  BY <1>1, <1>2 DEF ChainInv

-----------------------------------------------------------------------------
(* The theorems *)

\* The initial states satisfy the inductive invariant.
LEMMA InitInv == Init => HandshakeInv
<1> SUFFICES ASSUME Init PROVE HandshakeInv
  OBVIOUS
<1>1. /\ setup \in Setups /\ proxy = "connect" /\ peer_nonce = << >>
      /\ down = << >> /\ up = << >> /\ relayed = << >> /\ cmds = 0 /\ lost = 0
      /\ server = "accept" /\ writer = "none" /\ ctl = "none"
      /\ nonces = IF setup.stale THEN "stale" ELSE "none"
      /\ got_nonce = << >> /\ iq = 0 /\ ~garbled /\ ~again /\ ~is_chain
  BY DEF Init
<1>2. is_chain \in BOOLEAN /\ in_step \in BOOLEAN /\ garbled \in BOOLEAN /\ again \in BOOLEAN
  BY Zenon DEF Init
<1>3. << >> \in Seq(DownBytes) /\ << >> \in Seq(UpBytes) /\ Len(<< >>) = 0
  OBVIOUS
<1>4. TypeOK
  BY <1>1, <1>2, <1>3, LengthsAssumption DEF TypeOK
<1>5. SumInv
  <2>1. IqIn(<< >>) \in Nat /\ IqIn(<< >>) <= Len(<< >>)
    BY <1>3, IqType
  <2>2. IqIn(<< >>) = 0
    BY <2>1, <1>3
  <2> QED
    BY <2>2, <1>1 DEF SumInv
<1>6. MagicInv
  BY <1>1, Messages DEF MagicInv, MagicFirst
<1>7. ClearInv
  BY <1>1, FramedEmpty DEF ClearInv, InClear
<1>8. WriterInv
  BY <1>1 DEF WriterInv
<1>9. StoreInv
  BY <1>1 DEF StoreInv
<1>10. ChainInv
  BY <1>1 DEF ChainInv, FreshChain, BeforeNonce
<1> QED
  BY <1>4, <1>5, <1>6, <1>7, <1>8, <1>9, <1>10 DEF HandshakeInv

\* HandshakeInv is an invariant of the connection.
THEOREM Invariance == Spec => []HandshakeInv
<1>1. HandshakeInv /\ [Next]_vars => HandshakeInv'
  BY NextTypes, NextMagic, NextClear, NextWriter, NextStore, NextChain DEF HandshakeInv
<1> QED
  BY <1>1, InitInv, PTL DEF Spec

\* Type correctness of both ends, for all lengths.
THEOREM TypeCorrect == Spec => []TypeOK
<1>1. HandshakeInv => TypeOK
  BY DEF HandshakeInv
<1> QED
  BY <1>1, Invariance, PTL

\* In a keyed chain without a past, for all lengths of messages, however the
\* threads of both ends and their timeouts interleave: once the proxy has taken
\* a nonce, it is the upstream's and the upstream has the proxy's, until a probe
\* that the proxy forwards makes the upstream repeat the exchange.
THEOREM EndsAgree == Spec => []NoncesAgree
<1>1. HandshakeInv => NoncesAgree
  BY DEF HandshakeInv, ChainInv, NoncesAgree, BeforeNonce, Exchanging, Astray, Paired,
     Reopened, Unpaired
<1> QED
  BY <1>1, Invariance, PTL

\* The upstream of a connected proxy executes only frames that the proxy sent, if
\* neither end uses a key, or both do, nothing is left of an earlier master, the
\* acknowledgement came in time and no probe of another proxy was forwarded.
THEOREM NothingGarbled == Spec => []CommandsUnderstood
<1>1. ASSUME HandshakeInv PROVE CommandsUnderstood
  <2> SUFFICES ASSUME garbled, proxy = "up", setup.proxyKey = Keyed, ~setup.stale,
                      ~(Keyed /\ (again \/ ~is_chain))
               PROVE  FALSE
    BY DEF CommandsUnderstood
  <2>0. setup.proxyKey <=> Keyed
    BY Zenon
  <2>1. CASE Keyed
    <3>1. FreshChain /\ is_chain /\ ~again
      BY <2>0, <2>1 DEF FreshChain
    <3>2. BeforeNonce \/ Exchanging \/ Astray \/ Paired \/ Reopened \/ Unpaired
      BY <1>1, <3>1 DEF HandshakeInv, ChainInv
    <3> QED
      BY <3>1, <3>2 DEF BeforeNonce, Exchanging, Astray, Paired, Reopened, Unpaired
  <2>2. CASE ~Keyed
    BY <1>1, <2>0, <2>2 DEF HandshakeInv, ClearInv, InClear
  <2> QED
    BY <2>1, <2>2
<1> QED
  BY <1>1, Invariance, PTL

\* The upstream has to store nonces while its writer thread keeps their lock, and
\* so reads no more commands, only after the nonces of an earlier master, a frame
\* it did not understand, or a forwarded probe.
THEOREM BlockedForCause ==
    Spec => [](ctl = "store" /\ writer = "run" => setup.stale \/ garbled \/ again)
<1>1. HandshakeInv => (ctl = "store" /\ writer = "run" => setup.stale \/ garbled \/ again)
  BY DEF HandshakeInv, StoreInv, WriterInv, TypeOK
<1> QED
  BY <1>1, Invariance, PTL

\* Every byte of IQ data the upstream sent is under way, relayed, or was taken by
\* connect_upstream; without a key, and from an upstream that sends the magic
\* packet first, it takes at most the length of one acknowledgement.
THEOREM LossIsBounded == Spec => []LossBounded
<1>1. HandshakeInv => LossBounded
  BY DEF HandshakeInv, SumInv, MagicInv, MagicFirst, LossBounded
<1> QED
  BY <1>1, Invariance, PTL
=============================================================================
