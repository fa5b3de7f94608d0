---------------------------- MODULE ProxyProofs ----------------------------
(***************************************************************************)
(* Proofs about Proxy for any set of masters and any number of commands    *)
(* and signals.                                                            *)
(***************************************************************************)
EXTENDS Proxy, TLAPS

\* A control thread that has not ended is the one the main thread waits for.
JoinInv == \A m \in Masters : ctl[m] \notin {"none", "done"} => m = cur /\ main = "join_ctl"

\* The command in hand, if there is one, is the last one read, and the upstream
\* has not got it.
InHand == \E m \in Masters : ctl[m] \in {"check", "write"}
OrderInv ==
    /\ \A i \in 1..Len(received) : received[i].cmd <= cmds
    /\ InHand => \A i \in 1..Len(received) : received[i].cmd < cmds
    /\ \A i, j \in 1..Len(received) : i < j => received[i].cmd < received[j].cmd

\* While the upstream is there it has got every command that was encrypted, but
\* for the one that is being written.
Writing == \E m \in Masters : ctl[m] = "write"
SyncInv ==
    /\ \A i \in 1..Len(received) : received[i].at = i
    /\ upstream = "open" =>
           keystream = Len(received) + (IF Writing THEN 1 ELSE 0)

\* Who is subscribed has been sent the magic packet.
MagicInv ==
    /\ \A m \in Masters : wire[m] # << >> => wire[m][1] = "magic"
    /\ \A m \in fed : wire[m] # << >>
    /\ main = "subscribe" => wire[cur] # << >>

\* The exit flag and the end of the main loop have a signal behind them.
StopInv ==
    /\ should_exit => signals > 0
    /\ main \in {"store", "join_reader", "ok"} => signals > 0
    /\ main = "ok" => reader = "done"

\* The inductive invariant of the proxy.
ProxyInv == TypeOK /\ JoinInv /\ OrderInv /\ SyncInv /\ MagicInv /\ StopInv

-----------------------------------------------------------------------------

\* The initial states satisfy the inductive invariant.
LEMMA InitInv == Init => ProxyInv
<1> SUFFICES ASSUME Init PROVE ProxyInv
  OBVIOUS
<1>1. TypeOK
  <2>1. should_exit \in BOOLEAN
    BY Zenon DEF Init
  <2> QED
    BY <2>1 DEF Init, TypeOK
<1>2. JoinInv /\ ~InHand /\ ~Writing
  BY DEF Init, JoinInv, InHand, Writing
<1>3. OrderInv /\ SyncInv
  BY <1>2 DEF Init, OrderInv, SyncInv
<1>4. MagicInv /\ StopInv
  BY DEF Init, MagicInv, StopInv
<1> QED
  BY <1>1, <1>2, <1>3, <1>4 DEF ProxyInv

\* What put does to a wire: it stays a sequence of kinds, is not empty, and keeps
\* its first item if it had one.
LEMMA PutKinds ==
    ASSUME TypeOK, NEW m \in Masters, NEW kind \in {"magic", "iq"}, Put(m, kind)
    PROVE  /\ wire' \in [Masters -> Seq({"magic", "iq"})]
           /\ \A n \in Masters \ {m} : wire'[n] = wire[n]
           /\ wire'[m] # << >>
           /\ wire'[m][1] = IF wire[m] = << >> THEN kind ELSE wire[m][1]
<1>1. wire \in [Masters -> Seq({"magic", "iq"})] /\ wire[m] \in Seq({"magic", "iq"})
  BY DEF TypeOK
<1>2. CASE kind \in Carried(m)
  <2>1. wire' = wire
    BY <1>1, <1>2 DEF Put
  <2>2. wire[m] # << >>
    BY <1>1, <1>2 DEF Carried
  <2> QED
    BY <1>1, <2>1, <2>2
<1>3. CASE kind \notin Carried(m)
  <2>1. wire' = [wire EXCEPT ![m] = Append(wire[m], kind)]
    BY <1>1, <1>3 DEF Put
  <2>2. Append(wire[m], kind) \in Seq({"magic", "iq"}) /\ Append(wire[m], kind) # << >>
    BY <1>1
  <2>3. Append(wire[m], kind)[1] = IF wire[m] = << >> THEN kind ELSE wire[m][1]
    BY <1>1
  <2> QED
    BY <1>1, <2>1, <2>2, <2>3
<1> QED
  BY <1>2, <1>3

\* Type correctness is preserved.
LEMMA TypeNext == TypeOK /\ [Next]_vars => TypeOK'
<1> SUFFICES ASSUME TypeOK, [Next]_vars PROVE TypeOK'
  OBVIOUS
<1> USE DEF mainVars, clientVars, forwardVars, stopVars, Errors
<1>1. CASE MainCheckExit \/ MainAcceptNothing \/ MainAcceptFails \/ MainMagicFails
           \/ MainStore \/ MainJoinReader
  BY <1>1 DEF TypeOK, MainGoes, OnlyMain, MainCheckExit, MainAcceptNothing, MainAcceptFails,
     MainMagicFails, MainStore, MainJoinReader
<1>2. ASSUME NEW m \in Masters, MainAccept(m) \/ MainRefuse(m) PROVE TypeOK'
  BY <1>2, MastersAssumption DEF TypeOK, MainGoes, OnlyMain, MainAccept, MainRefuse
<1>3. CASE MainMagic
  <2>1. cur \in Masters
    BY <1>3 DEF TypeOK, MainMagic, MainGoes
  <2>2. wire' \in [Masters -> Seq({"magic", "iq"})]
    BY <1>3, <2>1, PutKinds DEF MainMagic
  <2> QED
    BY <1>3, <2>2 DEF TypeOK, MainGoes, MainMagic
<1>4. CASE MainSubscribe \/ MainSpawnCtl \/ MainJoinCtl
  BY <1>4 DEF TypeOK, MainGoes, OnlyMain, MainSubscribe, MainSpawnCtl, MainJoinCtl
<1>5. CASE ReaderStep
  BY <1>5 DEF TypeOK, ReaderGoes, ReaderStep, ReaderCheck, ReaderLoops, ReaderEnds
<1>6. ASSUME NEW m \in Masters, WriterOk(m) PROVE TypeOK'
  <2>1. wire' \in [Masters -> Seq({"magic", "iq"})]
    BY <1>6, PutKinds DEF WriterOk
  <2> QED
    BY <1>6, <2>1 DEF TypeOK, WriterOk
<1>7. ASSUME NEW m \in Masters, CtlRead(m) \/ CtlStep(m) PROVE TypeOK'
  <2>1. PICK to \in {"read", "check", "write", "done"} : ctl' = [ctl EXCEPT ![m] = to]
    BY <1>7 DEF CtlGoes, CtlRead, CtlStep, CtlEof, CtlExits, CtlRateLimited,
       CtlEncrypt, CtlWriteErr
  <2>2. UNCHANGED <<mainVars, reader, stopVars, clientVars, fed, upstream, received>>
    BY <1>7 DEF CtlGoes, CtlRead, CtlStep, CtlEof, CtlExits, CtlRateLimited,
       CtlEncrypt, CtlWriteErr
  <2>3. cmds' \in Nat /\ keystream' \in Nat
    BY <1>7 DEF TypeOK, CtlRead, CtlStep, CtlEof, CtlExits, CtlRateLimited,
       CtlEncrypt, CtlWriteErr
  <2> QED
    BY <2>1, <2>2, <2>3 DEF TypeOK
<1>8. ASSUME NEW m \in Masters, CtlWriteOk(m) PROVE TypeOK'
  <2>1. [from |-> m, cmd |-> cmds, at |-> keystream] \in [from : Masters, cmd : Nat, at : Nat]
    BY DEF TypeOK
  <2>2. received' \in Seq([from : Masters, cmd : Nat, at : Nat])
    <3>1. received \in Seq([from : Masters, cmd : Nat, at : Nat])
      BY DEF TypeOK
    <3>2. \/ received' = received
          \/ received' = Append(received, [from |-> m, cmd |-> cmds, at |-> keystream])
      BY <1>8 DEF CtlWriteOk
    <3>3. \A S, s, e : s \in Seq(S) /\ e \in S => Append(s, e) \in Seq(S)
      OBVIOUS
    <3> QED
      BY <2>1, <3>1, <3>2, <3>3, Zenon
  <2>3. upstream' \in {"open", "closed", "reset"}
    BY <1>8 DEF TypeOK, CtlWriteOk
  <2>4. ctl' \in [Masters -> {"none", "read", "check", "write", "done"}]
    BY <1>8 DEF TypeOK, CtlGoes, CtlWriteOk
  <2> QED
    BY <1>8, <2>2, <2>3, <2>4 DEF TypeOK, CtlGoes, CtlWriteOk
<1>9. ASSUME NEW m \in Masters, Connect(m) \/ PeerHalfCloses(m) \/ PeerGone(m) PROVE TypeOK'
  BY <1>9 DEF TypeOK, Elsewhere, PeerGoes, Connect, PeerHalfCloses, PeerGone
<1>10. CASE Signal \/ UpstreamChanges
  <2>1. should_exit' \in BOOLEAN
    <3>1. should_exit' = TRUE \/ should_exit' = should_exit
      BY <1>10 DEF Elsewhere, Signal, UpstreamGoes, UpstreamChanges
    <3> QED
      BY <3>1, Zenon DEF TypeOK
  <2> QED
    BY <1>10, <2>1 DEF TypeOK, Elsewhere, Signal, UpstreamGoes, UpstreamChanges
<1>11. CASE UNCHANGED vars
  BY <1>11 DEF TypeOK, vars
<1> QED
  BY <1>1, <1>2, <1>3, <1>4, <1>5, <1>6, <1>7, <1>8, <1>9, <1>10, <1>11
  DEF Next, MainStep, Stopped

\* Only the main thread starts a control thread, and it then waits for it.
LEMMA JoinNext == TypeOK /\ JoinInv /\ [Next]_vars => JoinInv'
<1> SUFFICES ASSUME TypeOK, JoinInv, [Next]_vars PROVE JoinInv'
  OBVIOUS
<1> USE DEF mainVars, clientVars, forwardVars, stopVars
<1>1. CASE MainStep /\ UNCHANGED ctl
  <2>1. CASE MainJoinCtl
    BY <2>1, <1>1 DEF TypeOK, JoinInv, MainJoinCtl, MainGoes
  <2>2. CASE ~MainJoinCtl
    <3>1. main # "join_ctl"
      BY <1>1, <2>2 DEF MainStep, MainGoes, MainCheckExit, MainAcceptNothing, MainAcceptFails,
         MainAccept, MainRefuse, MainMagic, MainMagicFails, MainSubscribe, MainSpawnCtl,
         MainStore, MainJoinReader
    <3> QED
      BY <3>1, <1>1 DEF JoinInv
  <2> QED
    BY <2>1, <2>2
<1>2. CASE MainSpawnCtl
  BY <1>2 DEF TypeOK, JoinInv, MainSpawnCtl, MainGoes
<1>3. ASSUME NEW m \in Masters, CtlRead(m) \/ CtlStep(m) \/ CtlWriteOk(m) PROVE JoinInv'
  <2>1. /\ ctl[m] \notin {"none", "done"}
        /\ \E to : ctl' = [ctl EXCEPT ![m] = to]
        /\ UNCHANGED mainVars
    BY <1>3 DEF CtlGoes, CtlRead, CtlStep, CtlEof, CtlExits, CtlRateLimited,
       CtlEncrypt, CtlWriteErr, CtlWriteOk
  <2> QED
    BY <2>1 DEF TypeOK, JoinInv
<1>4. CASE UNCHANGED <<mainVars, ctl>>
  BY <1>4 DEF JoinInv
<1>5. MainStep => MainSpawnCtl \/ UNCHANGED ctl
  BY DEF MainStep, OnlyMain, MainCheckExit, MainAcceptNothing, MainAcceptFails,
     MainAccept, MainRefuse, MainMagic, MainMagicFails, MainSubscribe, MainJoinCtl,
     MainStore, MainJoinReader
<1>6. ReaderStep => UNCHANGED <<mainVars, ctl>>
  BY DEF ReaderStep, ReaderCheck, ReaderLoops, ReaderEnds, ReaderGoes
<1>7. \A m \in Masters : WriterOk(m) \/ Connect(m) \/ PeerHalfCloses(m) \/ PeerGone(m)
          => UNCHANGED <<mainVars, ctl>>
  BY DEF WriterOk, Connect, PeerHalfCloses, PeerGone, PeerGoes, Elsewhere
<1>8. Signal \/ UpstreamChanges \/ UNCHANGED vars => UNCHANGED <<mainVars, ctl>>
  BY DEF Signal, UpstreamChanges, UpstreamGoes, Elsewhere, vars
<1> QED
  BY <1>1, <1>2, <1>3, <1>4, <1>5, <1>6, <1>7, <1>8 DEF Next, Stopped

\* The steps that touch the control threads, the cipher or the commands; no other
\* step opens the upstream.
LEMMA QuietNext ==
    [Next]_vars =>
        \/ MainSpawnCtl
        \/ \E m \in Masters : CtlRead(m) \/ CtlStep(m) \/ CtlWriteOk(m)
        \/ UNCHANGED <<ctl, forwardVars>> /\ (upstream' = "open" => upstream = "open")
<1> SUFFICES ASSUME [Next]_vars, ~MainSpawnCtl,
                    ~ \E m \in Masters : CtlRead(m) \/ CtlStep(m) \/ CtlWriteOk(m)
             PROVE  UNCHANGED <<ctl, forwardVars>> /\ (upstream' = "open" => upstream = "open")
  OBVIOUS
<1> USE DEF mainVars, clientVars, forwardVars, stopVars
<1>1. CASE MainStep
  BY <1>1 DEF MainStep, MainGoes, OnlyMain, MainCheckExit, MainAcceptNothing, MainAcceptFails,
     MainAccept, MainRefuse, MainMagic, MainMagicFails, MainSubscribe, MainJoinCtl,
     MainStore, MainJoinReader
<1>2. CASE ReaderStep
  BY <1>2 DEF ReaderStep, ReaderCheck, ReaderLoops, ReaderEnds, ReaderGoes
<1>3. ASSUME NEW m \in Masters, WriterOk(m) \/ Connect(m) \/ PeerHalfCloses(m) \/ PeerGone(m)
      PROVE  UNCHANGED <<ctl, forwardVars, upstream>>
  BY <1>3 DEF WriterOk, Connect, PeerHalfCloses, PeerGone, PeerGoes, Elsewhere
<1>4. CASE Signal \/ UpstreamChanges \/ UNCHANGED vars
  BY <1>4 DEF Signal, UpstreamChanges, UpstreamGoes, Elsewhere, vars
<1> QED
  BY <1>1, <1>2, <1>3, <1>4 DEF Next, Stopped

\* A control thread that has not ended is the only one.
LEMMA OneThread ==
    ASSUME TypeOK, JoinInv, NEW m \in Masters, ctl[m] \notin {"none", "done"}
    PROVE  \A n \in Masters \ {m} : ctl[n] \in {"none", "done"}
  BY DEF JoinInv

\* The order of the forwarded commands is preserved.
LEMMA OrderNext == TypeOK /\ JoinInv /\ OrderInv /\ [Next]_vars => OrderInv'
<1> SUFFICES ASSUME TypeOK, JoinInv, OrderInv, [Next]_vars PROVE OrderInv'
  OBVIOUS
<1> USE DEF forwardVars
<1>t. /\ cmds \in Nat
      /\ received \in Seq([from : Masters, cmd : Nat, at : Nat])
      /\ \A i \in 1..Len(received) : received[i].cmd \in Nat
  <2>1. cmds \in Nat /\ received \in Seq([from : Masters, cmd : Nat, at : Nat])
    BY DEF TypeOK
  <2>2. \A i \in 1..Len(received) : received[i] \in [from : Masters, cmd : Nat, at : Nat]
    <3>1. \A S, s : s \in Seq(S) => \A i \in 1..Len(s) : s[i] \in S
      OBVIOUS
    <3> QED
      BY <2>1, <3>1, Zenon
  <2>3. \A r \in [from : Masters, cmd : Nat, at : Nat] : r.cmd \in Nat
    OBVIOUS
  <2> QED
    BY <2>1, <2>2, <2>3, Zenon
<1>0. ASSUME UNCHANGED <<received, cmds>>, InHand' => InHand PROVE OrderInv'
  BY <1>0 DEF OrderInv
<1>1. CASE MainSpawnCtl
  <2>1. InHand' => InHand
    BY <1>1 DEF TypeOK, MainSpawnCtl, MainGoes, InHand
  <2> QED
    BY <1>0, <1>1, <2>1 DEF MainSpawnCtl, MainGoes
<1>2. ASSUME NEW m \in Masters, CtlRead(m) PROVE OrderInv'
  <2>1. cmds' = cmds + 1 /\ received' = received
    BY <1>2 DEF CtlRead
  <2>2. \A i \in 1..Len(received) : received[i].cmd < cmds'
    BY <1>t, <2>1 DEF OrderInv
  <2> QED
    BY <1>t, <2>1, <2>2 DEF OrderInv
<1>3. ASSUME NEW m \in Masters, CtlStep(m) PROVE OrderInv'
  <2>1. InHand' => InHand
    BY <1>3 DEF TypeOK, InHand, CtlGoes, CtlStep, CtlEof, CtlExits, CtlRateLimited,
       CtlEncrypt, CtlWriteErr
  <2>2. UNCHANGED <<received, cmds>>
    BY <1>3 DEF CtlStep, CtlEof, CtlExits, CtlRateLimited, CtlEncrypt, CtlWriteErr
  <2> QED
    BY <1>0, <2>1, <2>2
<1>4. ASSUME NEW m \in Masters, CtlWriteOk(m) PROVE OrderInv'
  <2>1. ctl[m] = "write" /\ ctl' = [ctl EXCEPT ![m] = "read"] /\ cmds' = cmds
    BY <1>4 DEF CtlWriteOk, CtlGoes
  <2>2. ~InHand'
    BY <2>1, OneThread DEF TypeOK, InHand
  <2>3. \A i \in 1..Len(received) : received[i].cmd < cmds
    BY <2>1 DEF InHand, OrderInv
  <2>4. CASE received' = received
    BY <2>1, <2>2, <2>4 DEF OrderInv
  <2>5. CASE received' = Append(received, [from |-> m, cmd |-> cmds, at |-> keystream])
    <3>1. /\ Len(received') = Len(received) + 1
          /\ \A i \in 1..Len(received) : received'[i] = received[i]
          /\ received'[Len(received) + 1].cmd = cmds
      BY <1>t, <2>5
    <3>2. Len(received) \in Nat
      BY <1>t
    <3>3. ASSUME NEW i \in 1..Len(received') PROVE received'[i].cmd <= cmds'
      <4>1. CASE i \in 1..Len(received)
        <5>1. received'[i] = received[i] /\ received[i].cmd < cmds /\ received[i].cmd \in Nat
          BY <1>t, <2>3, <3>1, <4>1
        <5> QED
          BY <1>t, <2>1, <5>1
      <4>2. CASE i = Len(received) + 1
        <5>1. received'[i].cmd = cmds
          BY <3>1, <4>2
        <5> QED
          BY <1>t, <2>1, <5>1
      <4> QED
        BY <3>1, <3>2, <4>1, <4>2
    <3>4. ASSUME NEW i \in 1..Len(received'), NEW j \in 1..Len(received'), i < j
          PROVE  received'[i].cmd < received'[j].cmd
      <4>1. i \in 1..Len(received) /\ received'[i] = received[i]
        BY <3>1, <3>2, <3>4
      <4>2. CASE j \in 1..Len(received)
        BY <3>1, <3>4, <4>1, <4>2 DEF OrderInv
      <4>3. CASE j = Len(received) + 1
        BY <2>3, <3>1, <4>1, <4>3
      <4> QED
        BY <3>1, <3>2, <4>2, <4>3
    <3> QED
      BY <2>2, <3>3, <3>4 DEF OrderInv
  <2> QED
    BY <1>4, <2>4, <2>5 DEF CtlWriteOk
<1>5. CASE UNCHANGED <<ctl, forwardVars>>
  BY <1>0, <1>5 DEF InHand
<1> QED
  BY <1>1, <1>2, <1>3, <1>4, <1>5, QuietNext

\* The two ends of the keystream stay together.
LEMMA SyncNext == TypeOK /\ JoinInv /\ SyncInv /\ [Next]_vars => SyncInv'
<1> SUFFICES ASSUME TypeOK, JoinInv, SyncInv, [Next]_vars PROVE SyncInv'
  OBVIOUS
<1> USE DEF forwardVars
<1>t. /\ keystream \in Nat
      /\ received \in Seq([from : Masters, cmd : Nat, at : Nat])
      /\ Len(received) \in Nat
  BY DEF TypeOK
<1>0. ASSUME UNCHANGED <<received, keystream>>, Writing' <=> Writing,
             upstream' = "open" => upstream = "open"
      PROVE  SyncInv'
  BY <1>0 DEF SyncInv
<1>1. CASE MainSpawnCtl
  <2>1. Writing' <=> Writing
    BY <1>1 DEF TypeOK, JoinInv, MainSpawnCtl, MainGoes, Writing
  <2> QED
    BY <1>0, <1>1, <2>1 DEF MainSpawnCtl, MainGoes
<1>2. ASSUME NEW m \in Masters, CtlRead(m) \/ CtlEof(m) \/ CtlExits(m) \/ CtlRateLimited(m)
      PROVE  SyncInv'
  <2>1. Writing' <=> Writing
    BY <1>2 DEF TypeOK, Writing, CtlGoes, CtlRead, CtlEof, CtlExits, CtlRateLimited
  <2>2. UNCHANGED <<received, keystream, upstream>>
    BY <1>2 DEF CtlRead, CtlEof, CtlExits, CtlRateLimited
  <2> QED
    BY <1>0, <2>1, <2>2
<1>3. ASSUME NEW m \in Masters, CtlEncrypt(m) PROVE SyncInv'
  <2>1. /\ ctl[m] = "check" /\ ctl' = [ctl EXCEPT ![m] = "write"]
        /\ keystream' = keystream + 1 /\ UNCHANGED <<received, upstream>>
    BY <1>3 DEF CtlEncrypt, CtlGoes
  <2>2. ~Writing /\ Writing'
    BY <2>1, OneThread DEF TypeOK, Writing
  <2> QED
    BY <1>t, <2>1, <2>2 DEF SyncInv
<1>4. ASSUME NEW m \in Masters, CtlWriteErr(m) PROVE SyncInv'
  BY <1>4 DEF SyncInv, CtlWriteErr
<1>5. ASSUME NEW m \in Masters, CtlWriteOk(m) PROVE SyncInv'
  <2>1. ctl[m] = "write" /\ ctl' = [ctl EXCEPT ![m] = "read"] /\ keystream' = keystream
    BY <1>5 DEF CtlWriteOk, CtlGoes
  <2>2. Writing /\ ~Writing'
    BY <2>1, OneThread DEF TypeOK, Writing
  <2>3. CASE upstream = "open"
    <3>1. keystream = Len(received) + 1
      BY <2>2, <2>3 DEF SyncInv
    <3>2. received' = Append(received, [from |-> m, cmd |-> cmds, at |-> keystream])
      BY <1>5, <2>3 DEF CtlWriteOk
    <3>3. /\ Len(received') = Len(received) + 1
          /\ \A i \in 1..Len(received) : received'[i] = received[i]
          /\ received'[Len(received) + 1].at = keystream
      BY <1>t, <3>2
    <3>4. \A i \in 1..Len(received') : received'[i].at = i
      BY <1>t, <3>1, <3>3 DEF SyncInv
    <3> QED
      BY <1>t, <2>1, <2>2, <3>1, <3>3, <3>4 DEF SyncInv
  <2>4. CASE upstream # "open"
    BY <1>5, <2>4 DEF SyncInv, CtlWriteOk
  <2> QED
    BY <2>3, <2>4
<1>6. CASE UNCHANGED <<ctl, forwardVars>> /\ (upstream' = "open" => upstream = "open")
  BY <1>0, <1>6 DEF Writing
<1> QED
  BY <1>1, <1>2, <1>3, <1>4, <1>5, <1>6, QuietNext DEF CtlStep

\* Nobody is subscribed without the magic packet.
LEMMA MagicNext == TypeOK /\ MagicInv /\ [Next]_vars => MagicInv'
<1> SUFFICES ASSUME TypeOK, MagicInv, [Next]_vars PROVE MagicInv'
  OBVIOUS
<1> USE DEF mainVars, clientVars, forwardVars, stopVars
<1>1. CASE MainMagic
  <2>1. cur \in Masters /\ cur' = cur /\ fed' = fed
    BY <1>1 DEF TypeOK, MainMagic, MainGoes
  <2>2. Put(cur, "magic")
    BY <1>1 DEF MainMagic
  <2>3. /\ \A n \in Masters \ {cur} : wire'[n] = wire[n]
        /\ wire'[cur] # << >>
        /\ wire'[cur][1] = IF wire[cur] = << >> THEN "magic" ELSE wire[cur][1]
    BY <2>1, <2>2, PutKinds
  <2> QED
    BY <2>1, <2>3 DEF TypeOK, MagicInv
<1>2. ASSUME NEW m \in Masters, WriterOk(m) PROVE MagicInv'
  <2>1. m \in fed /\ fed' = fed /\ UNCHANGED mainVars /\ Put(m, "iq")
    BY <1>2 DEF WriterOk
  <2>2. /\ \A n \in Masters \ {m} : wire'[n] = wire[n]
        /\ wire'[m] # << >>
        /\ wire'[m][1] = IF wire[m] = << >> THEN "iq" ELSE wire[m][1]
    BY <2>1, PutKinds
  <2>3. \A n \in Masters : wire[n] # << >> => wire'[n] # << >> /\ wire'[n][1] = wire[n][1]
    BY <2>2
  <2>4. wire[m] # << >>
    BY <2>1 DEF MagicInv
  <2>5. \A n \in Masters : wire'[n] # << >> => wire'[n][1] = "magic"
    BY <2>2, <2>3, <2>4 DEF MagicInv
  <2>6. main = "subscribe" => cur \in Masters
    BY DEF TypeOK
  <2> QED
    BY <2>1, <2>3, <2>5, <2>6 DEF TypeOK, MagicInv
<1>3. CASE MainSubscribe
  BY <1>3 DEF MagicInv, MainSubscribe, MainGoes
<1>4. CASE UNCHANGED <<wire, fed>> /\ (main' = "subscribe" => UNCHANGED mainVars)
  BY <1>4 DEF MagicInv
<1>5. ASSUME MainStep, ~MainMagic, ~MainSubscribe
      PROVE  UNCHANGED <<wire, fed>> /\ main' # "subscribe"
  BY <1>5 DEF MainStep, MainGoes, OnlyMain, MainCheckExit, MainAcceptNothing, MainAcceptFails,
     MainAccept, MainRefuse, MainMagicFails, MainSpawnCtl, MainJoinCtl,
     MainStore, MainJoinReader
<1>6. ReaderStep => UNCHANGED <<wire, fed, mainVars>>
  BY DEF ReaderStep, ReaderCheck, ReaderLoops, ReaderEnds, ReaderGoes
<1>7. \A m \in Masters : CtlRead(m) \/ CtlStep(m) \/ CtlWriteOk(m)
          => UNCHANGED <<wire, fed, mainVars>>
  BY DEF CtlGoes, CtlRead, CtlStep, CtlEof, CtlExits, CtlRateLimited, CtlEncrypt,
     CtlWriteErr, CtlWriteOk
<1>8. \A m \in Masters : Connect(m) \/ PeerHalfCloses(m) \/ PeerGone(m)
          => UNCHANGED <<wire, fed, mainVars>>
  BY DEF Connect, PeerHalfCloses, PeerGone, PeerGoes, Elsewhere
<1>9. Signal \/ UpstreamChanges \/ UNCHANGED vars => UNCHANGED <<wire, fed, mainVars>>
  BY DEF Signal, UpstreamChanges, UpstreamGoes, Elsewhere, vars
<1> QED
  BY <1>1, <1>2, <1>3, <1>4, <1>5, <1>6, <1>7, <1>8, <1>9 DEF Next, Stopped

\* The way to a return keeps the signal and the joined reader behind it.
LEMMA StopNext == TypeOK /\ StopInv /\ [Next]_vars => StopInv'
<1> SUFFICES ASSUME TypeOK, StopInv, [Next]_vars PROVE StopInv'
  OBVIOUS
<1> USE DEF mainVars, clientVars, forwardVars, stopVars
<1>1. CASE MainStep
  BY <1>1 DEF TypeOK, Errors, StopInv, MainStep, MainGoes, OnlyMain, MainCheckExit,
     MainAcceptNothing, MainAcceptFails, MainAccept, MainRefuse, MainMagic, MainMagicFails,
     MainSubscribe, MainSpawnCtl, MainJoinCtl, MainStore, MainJoinReader
<1>2. CASE ReaderStep
  BY <1>2 DEF StopInv, Ended, ReaderStep, ReaderCheck, ReaderLoops, ReaderEnds, ReaderGoes
<1>3. CASE UNCHANGED <<mainVars, reader, stopVars>>
  BY <1>3 DEF StopInv
<1>4. CASE Signal
  BY <1>4 DEF TypeOK, StopInv, Signal, Elsewhere
<1>5. \A m \in Masters : CtlRead(m) \/ CtlStep(m) \/ CtlWriteOk(m) \/ WriterOk(m)
          => UNCHANGED <<mainVars, reader, stopVars>>
  BY DEF CtlGoes, CtlRead, CtlStep, CtlEof, CtlExits, CtlRateLimited, CtlEncrypt,
     CtlWriteErr, CtlWriteOk, WriterOk
<1>6. \A m \in Masters : Connect(m) \/ PeerHalfCloses(m) \/ PeerGone(m)
          => UNCHANGED <<mainVars, reader, stopVars>>
  BY DEF Connect, PeerHalfCloses, PeerGone, PeerGoes, Elsewhere
<1>7. UpstreamChanges \/ UNCHANGED vars => UNCHANGED <<mainVars, reader, stopVars>>
  BY DEF UpstreamChanges, UpstreamGoes, Elsewhere, vars
<1> QED
  BY <1>1, <1>2, <1>3, <1>4, <1>5, <1>6, <1>7 DEF Next, Stopped

-----------------------------------------------------------------------------

\* The invariant holds throughout a run of the proxy.
THEOREM Invariance == Spec => []ProxyInv
<1>1. ProxyInv /\ [Next]_vars => ProxyInv'
  BY TypeNext, JoinNext, OrderNext, SyncNext, MagicNext, StopNext DEF ProxyInv
<1> QED
  BY InitInv, <1>1, PTL DEF Spec

\* run_proxy_multi and its threads keep their state within its types.
THEOREM TypeCorrect == Spec => []TypeOK
<1>1. ProxyInv => TypeOK
  BY DEF ProxyInv
<1> QED
  BY Invariance, <1>1, PTL

\* The upstream decrypts every command it gets with the keystream bytes the
\* proxy encrypted it with, whatever masters come and go.
THEOREM KeystreamStaysInSync == Spec => []KeystreamInSync
<1>1. ProxyInv => KeystreamInSync
  BY DEF ProxyInv, SyncInv, KeystreamInSync
<1> QED
  BY Invariance, <1>1, PTL

\* Commands reach the upstream once, in the order they were read, from one
\* master at a time.
THEOREM CommandsInOrder == Spec => []ForwardedInOrder
<1>1. ProxyInv => ForwardedInOrder
  BY DEF ProxyInv, JoinInv, OrderInv, Commanding, ForwardedInOrder
<1> QED
  BY Invariance, <1>1, PTL

\* No master is sent IQ data before the magic packet.
THEOREM MagicComesFirst == Spec => []MagicFirst
<1>1. ProxyInv => MagicFirst
  BY DEF ProxyInv, MagicInv, MagicFirst
<1> QED
  BY Invariance, <1>1, PTL

\* The proxy returns without an error only after a signal, with its reader
\* joined and no control thread left.
THEOREM ReturnIsClean == Spec => []CleanReturn
<1>1. ProxyInv => CleanReturn
  BY DEF ProxyInv, JoinInv, StopInv, Commanding, CleanReturn
<1> QED
  BY Invariance, <1>1, PTL
=============================================================================
