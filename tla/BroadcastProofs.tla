-------------------------- MODULE BroadcastProofs --------------------------
(***************************************************************************)
(* Proofs about Broadcast for every set of clients, every capacity and     *)
(* every bound on the number of sends.                                     *)
(***************************************************************************)
EXTENDS Broadcast, TLAPS

\* A writer thread that has not been spawned has no history.
IdleInv(c) ==
    pc[c] = "idle" =>
        out[c] = << >> /\ lost[c] = 0 /\ cur[c] = None /\ next[c] = start[c]

\* The cursor lies between the subscription and the tail.
CursorInv(c) == start[c] <= next[c] /\ next[c] <= tail

\* A buffer in hand is the one the cursor has just passed, and there is one
\* exactly while write_all runs or after it failed.
HandInv(c) ==
    /\ cur[c] # None => cur[c] = next[c] - 1 /\ start[c] <= cur[c]
    /\ cur[c] # None => pc[c] \in {"write", "done"}
    /\ pc[c] = "write" => cur[c] # None

\* What was written lies before the buffer in hand, or else before the cursor.
WrittenInv(c) ==
    \A i \in 1..Len(out[c]) :
        /\ start[c] <= out[c][i]
        /\ out[c][i] < next[c]
        /\ cur[c] # None => out[c][i] < cur[c]

\* The parts of the safety properties that concern one client.
OrderInv(c) ==
    \A i, j \in 1..Len(out[c]) : i < j => out[c][i] < out[c][j]
LossInv(c) == Len(out[c]) + lost[c] + InHand(c) = next[c] - start[c]
SkipInv(c) ==
    \A b \in start[c]..(next[c] - 1) :
        Written(c, b) \/ cur[c] = b \/ b + Capacity <= tail

ClientInv(c) ==
    /\ IdleInv(c)
    /\ CursorInv(c)
    /\ HandInv(c)
    /\ WrittenInv(c)
    /\ OrderInv(c)
    /\ LossInv(c)
    /\ SkipInv(c)

\* The inductive invariant of the fan-out.
BroadcastInv ==
    /\ TypeOK
    /\ tail <= MaxSent
    /\ \A c \in Clients : ClientInv(c)

\* The initial states satisfy the inductive invariant.
LEMMA InitInv == Init => BroadcastInv
<1> SUFFICES ASSUME Init PROVE BroadcastInv
  OBVIOUS
<1> USE DEF Init
<1>1. TypeOK /\ tail <= MaxSent
  <2>1. out \in [Clients -> Seq(Nat)]
    <3>1. << >> \in Seq(Nat)
      OBVIOUS
    <3> QED
      BY <3>1
  <2>2. cur \in [Clients -> Nat \cup {None}] /\ pc \in [Clients -> Points]
    BY DEF Points
  <2>3. tail <= MaxSent /\ tail \in Nat
    BY MaxSentAssumption
  <2> QED
    BY <2>1, <2>2, <2>3 DEF TypeOK
<1>2. ASSUME NEW c \in Clients PROVE ClientInv(c)
  <2>1. Len(out[c]) = 0 /\ cur[c] = None /\ next[c] = 0 /\ start[c] = 0
    OBVIOUS
  <2>2. SkipInv(c) /\ OrderInv(c) /\ WrittenInv(c)
    BY <2>1 DEF SkipInv, OrderInv, WrittenInv
  <2>3. LossInv(c)
    BY <2>1 DEF LossInv, InHand
  <2>4. IdleInv(c) /\ CursorInv(c) /\ HandInv(c)
    BY DEF IdleInv, CursorInv, HandInv
  <2> QED
    BY <2>2, <2>3, <2>4 DEF ClientInv
<1> QED
  BY <1>1, <1>2 DEF BroadcastInv

\* Every step keeps the types.
LEMMA TypeStep == BroadcastInv /\ [Next]_vars => TypeOK'
<1> SUFFICES ASSUME BroadcastInv, [Next]_vars PROVE TypeOK'
  OBVIOUS
<1>0. TypeOK
  BY DEF BroadcastInv
<1> USE <1>0 DEF TypeOK, Points
<1>1. CASE Send
  BY <1>1 DEF Send
<1>2. CASE DropSenders
  BY <1>2 DEF DropSenders
<1>3. CASE SetExit
  BY <1>3 DEF SetExit
<1>4. ASSUME NEW c \in Clients, Subscribe(c) PROVE TypeOK'
  BY <1>4 DEF Subscribe
<1>5. ASSUME NEW c \in Clients, CheckExit(c) PROVE TypeOK'
  BY <1>5 DEF CheckExit
<1>6. ASSUME NEW c \in Clients, TryRecvOk(c) PROVE TypeOK'
  BY <1>6 DEF TryRecvOk
<1>7. ASSUME NEW c \in Clients, TryRecvEmpty(c) PROVE TypeOK'
  BY <1>7 DEF TryRecvEmpty
<1>8. ASSUME NEW c \in Clients, TryRecvClosed(c) PROVE TypeOK'
  BY <1>8 DEF TryRecvClosed
<1>9. ASSUME NEW c \in Clients, TryRecvLagged(c) PROVE TypeOK'
  <2>1. Oldest \in Nat /\ Oldest - next[c] \in Nat
    BY <1>9, CapacityAssumption DEF TryRecvLagged, Oldest
  <2> QED
    BY <1>9, <2>1 DEF TryRecvLagged
<1>10. ASSUME NEW c \in Clients, WriteOk(c) PROVE TypeOK'
  <2>1. cur[c] \in Nat
    BY <1>10 DEF BroadcastInv, ClientInv, HandInv, WriteOk
  <2>2. Append(out[c], cur[c]) \in Seq(Nat)
    BY <2>1
  <2> QED
    BY <1>10, <2>2 DEF WriteOk, None
<1>11. ASSUME NEW c \in Clients, WriteErr(c) PROVE TypeOK'
  BY <1>11 DEF WriteErr
<1>12. CASE UNCHANGED vars
  BY <1>12 DEF vars
<1> QED
  BY <1>1, <1>2, <1>3, <1>4, <1>5, <1>6, <1>7, <1>8, <1>9, <1>10, <1>11, <1>12
  DEF Next, Writer

\* A client whose thread does not step keeps its invariant: its state is left
\* alone and the tail only grows.
LEMMA OthersKeepInv ==
    ASSUME NEW d \in Clients, BroadcastInv,
           tail' \in Nat, tail <= tail',
           pc'[d] = pc[d], next'[d] = next[d], start'[d] = start[d],
           cur'[d] = cur[d], out'[d] = out[d], lost'[d] = lost[d]
    PROVE ClientInv(d)'
<1>1. ClientInv(d) /\ TypeOK
  BY DEF BroadcastInv
<1>2. IdleInv(d)' /\ CursorInv(d)' /\ HandInv(d)'
  BY <1>1 DEF ClientInv, TypeOK, IdleInv, CursorInv, HandInv
<1>3. WrittenInv(d)' /\ OrderInv(d)'
  BY <1>1 DEF ClientInv, WrittenInv, OrderInv
<1>4. LossInv(d)'
  BY <1>1 DEF ClientInv, LossInv, InHand
<1>5. SkipInv(d)'
  <2> SUFFICES ASSUME NEW b \in start[d]..(next[d] - 1)
               PROVE Written(d, b)' \/ cur'[d] = b \/ b + Capacity <= tail'
    BY DEF SkipInv
  <2>1. Written(d, b) \/ cur[d] = b \/ b + Capacity <= tail
    BY <1>1 DEF ClientInv, SkipInv
  <2>2. Written(d, b) => Written(d, b)'
    BY DEF Written
  <2>3. b + Capacity <= tail => b + Capacity <= tail'
    BY <1>1, CapacityAssumption DEF TypeOK
  <2> QED
    BY <2>1, <2>2, <2>3
<1> QED
  BY <1>2, <1>3, <1>4, <1>5 DEF ClientInv

\* A step of one client's thread, or its subscription, is a step during which
\* every other client's state and the tail stay as they are.
LEMMA ClientStep ==
    ASSUME NEW c \in Clients, BroadcastInv, TypeOK', tail' = tail,
           \A d \in Clients \ {c} :
               /\ pc'[d] = pc[d] /\ next'[d] = next[d] /\ start'[d] = start[d]
               /\ cur'[d] = cur[d] /\ out'[d] = out[d] /\ lost'[d] = lost[d],
           ClientInv(c)'
    PROVE BroadcastInv'
<1>1. TypeOK /\ tail \in Nat /\ tail <= MaxSent
  BY DEF BroadcastInv, TypeOK
<1>2. ASSUME NEW d \in Clients PROVE ClientInv(d)'
  <2>1. CASE d = c
    BY <2>1
  <2>2. CASE d # c
    BY <1>1, <2>2, OthersKeepInv
  <2> QED
    BY <2>1, <2>2
<1> QED
  BY <1>1, <1>2 DEF BroadcastInv

\* The actions that change only the point a client's thread is at.
LEMMA PcStep ==
    ASSUME NEW c \in Clients, BroadcastInv, TypeOK',
           UNCHANGED <<tail, next, start, cur, out, lost>>,
           \A d \in Clients \ {c} : pc'[d] = pc[d],
           pc[c] # "idle", pc'[c] # "idle",
           pc'[c] = "write" => cur[c] # None,
           cur[c] # None => pc'[c] \in {"write", "done"}
    PROVE BroadcastInv'
<1>1. ClientInv(c) /\ TypeOK
  BY DEF BroadcastInv
<1>2. IdleInv(c)' /\ CursorInv(c)' /\ HandInv(c)'
  BY <1>1 DEF ClientInv, IdleInv, CursorInv, HandInv
<1>3. WrittenInv(c)' /\ OrderInv(c)' /\ LossInv(c)' /\ SkipInv(c)'
  BY <1>1 DEF ClientInv, WrittenInv, OrderInv, LossInv, SkipInv, InHand, Written
<1>4. ClientInv(c)'
  BY <1>2, <1>3 DEF ClientInv
<1> QED
  BY <1>4, ClientStep

\* Every step keeps the inductive invariant.
LEMMA StepInv == BroadcastInv /\ [Next]_vars => BroadcastInv'
<1> SUFFICES ASSUME BroadcastInv, [Next]_vars PROVE BroadcastInv'
  OBVIOUS
<1>t. TypeOK /\ TypeOK'
  BY TypeStep DEF BroadcastInv
<1>1. CASE Send
  <2>1. tail' \in Nat /\ tail <= tail' /\ tail' <= MaxSent
    BY <1>1, <1>t, MaxSentAssumption DEF Send, TypeOK
  <2>2. ASSUME NEW d \in Clients PROVE ClientInv(d)'
    BY <1>1, <2>1, OthersKeepInv DEF Send
  <2> QED
    BY <1>t, <2>1, <2>2 DEF BroadcastInv
<1>2. CASE UNCHANGED <<tail, pc, next, start, cur, out, lost>>
  <2>1. tail' \in Nat /\ tail <= tail' /\ tail' <= MaxSent
    BY <1>2, <1>t DEF BroadcastInv, TypeOK
  <2>2. ASSUME NEW d \in Clients PROVE ClientInv(d)'
    BY <1>2, <2>1, OthersKeepInv
  <2> QED
    BY <1>t, <2>1, <2>2 DEF BroadcastInv
<1>3. ASSUME NEW c \in Clients, Subscribe(c) PROVE BroadcastInv'
  <2>1. /\ out'[c] = << >> /\ lost'[c] = 0 /\ cur'[c] = None
        /\ next'[c] = tail /\ start'[c] = tail /\ pc'[c] = "check"
    BY <1>3, <1>t DEF Subscribe, BroadcastInv, ClientInv, IdleInv, TypeOK
  <2>2. IdleInv(c)' /\ CursorInv(c)' /\ HandInv(c)'
    BY <1>3, <1>t, <2>1 DEF Subscribe, IdleInv, CursorInv, HandInv, TypeOK
  <2>3. WrittenInv(c)' /\ OrderInv(c)' /\ LossInv(c)' /\ SkipInv(c)'
    BY <1>t, <2>1
    DEF WrittenInv, OrderInv, LossInv, SkipInv, InHand, TypeOK
  <2>4. ClientInv(c)'
    BY <2>2, <2>3 DEF ClientInv
  <2> QED
    BY <1>3, <1>t, <2>4, ClientStep DEF Subscribe, TypeOK
<1>4. ASSUME NEW c \in Clients, CheckExit(c) PROVE BroadcastInv'
  <2>1. cur[c] = None
    BY <1>4 DEF CheckExit, BroadcastInv, ClientInv, HandInv
  <2> QED
    BY <1>4, <1>t, <2>1, PcStep DEF CheckExit, TypeOK
<1>5. ASSUME NEW c \in Clients, TryRecvOk(c) PROVE BroadcastInv'
  <2>1. ClientInv(c) /\ cur[c] = None /\ next[c] \in Nat
    BY <1>5, <1>t DEF TryRecvOk, BroadcastInv, ClientInv, HandInv, TypeOK
  <2>2. /\ cur'[c] = next[c] /\ next'[c] = next[c] + 1 /\ pc'[c] = "write"
        /\ start'[c] = start[c] /\ out'[c] = out[c] /\ lost'[c] = lost[c]
        /\ tail' = tail
    BY <1>5, <1>t DEF TryRecvOk, TypeOK
  <2>3. IdleInv(c)' /\ CursorInv(c)' /\ HandInv(c)'
    BY <1>5, <1>t, <2>1, <2>2
    DEF TryRecvOk, ClientInv, IdleInv, CursorInv, HandInv, TypeOK, None
  <2>4. WrittenInv(c)' /\ OrderInv(c)'
    BY <1>t, <2>1, <2>2 DEF ClientInv, WrittenInv, OrderInv, TypeOK
  <2>5. LossInv(c)'
    BY <1>t, <2>1, <2>2 DEF ClientInv, LossInv, InHand, TypeOK, None
  <2>6. SkipInv(c)'
    <3> SUFFICES ASSUME NEW b \in start[c]..next[c]
                 PROVE Written(c, b)' \/ cur'[c] = b \/ b + Capacity <= tail'
      BY <1>t, <2>1, <2>2 DEF SkipInv, TypeOK
    <3>1. CASE b = next[c]
      BY <2>2, <3>1
    <3>2. CASE b # next[c]
      <4>1. b \in start[c]..(next[c] - 1) /\ b # None
        BY <1>t, <3>2 DEF TypeOK, None
      <4>2. Written(c, b) \/ b + Capacity <= tail
        BY <2>1, <4>1 DEF ClientInv, SkipInv
      <4> QED
        BY <2>2, <4>2 DEF Written
    <3> QED
      BY <3>1, <3>2
  <2>7. ClientInv(c)'
    BY <2>3, <2>4, <2>5, <2>6 DEF ClientInv
  <2> QED
    BY <1>5, <1>t, <2>7, ClientStep DEF TryRecvOk, TypeOK
<1>6. ASSUME NEW c \in Clients, TryRecvEmpty(c) PROVE BroadcastInv'
  <2>1. cur[c] = None
    BY <1>6 DEF TryRecvEmpty, BroadcastInv, ClientInv, HandInv
  <2> QED
    BY <1>6, <1>t, <2>1, PcStep DEF TryRecvEmpty, TypeOK
<1>7. ASSUME NEW c \in Clients, TryRecvClosed(c) PROVE BroadcastInv'
  BY <1>7, <1>t, PcStep DEF TryRecvClosed, TypeOK
<1>8. ASSUME NEW c \in Clients, TryRecvLagged(c) PROVE BroadcastInv'
  <2>1. ClientInv(c) /\ cur[c] = None
    BY <1>8 DEF TryRecvLagged, BroadcastInv, ClientInv, HandInv
  <2>2. /\ Oldest \in Nat /\ next[c] < Oldest
        /\ Oldest <= tail /\ Oldest - 1 + Capacity < tail
    BY <1>8, <1>t, CapacityAssumption DEF TryRecvLagged, Oldest, TypeOK
  <2>3. /\ next'[c] = Oldest /\ lost'[c] = lost[c] + (Oldest - next[c])
        /\ pc'[c] = "check" /\ cur'[c] = cur[c]
        /\ start'[c] = start[c] /\ out'[c] = out[c] /\ tail' = tail
    BY <1>8, <1>t DEF TryRecvLagged, TypeOK
  <2>4. IdleInv(c)' /\ CursorInv(c)' /\ HandInv(c)'
    BY <1>t, <2>1, <2>2, <2>3
    DEF ClientInv, IdleInv, CursorInv, HandInv, TypeOK
  <2>5. WrittenInv(c)' /\ OrderInv(c)'
    BY <1>t, <2>1, <2>2, <2>3 DEF ClientInv, WrittenInv, OrderInv, TypeOK
  <2>6. LossInv(c)'
    <3>1. /\ Len(out[c]) \in Nat /\ lost[c] \in Nat /\ InHand(c) = 0
          /\ next[c] \in Nat /\ start[c] \in Nat /\ InHand(c)' = 0
      BY <1>t, <2>1, <2>3 DEF TypeOK, InHand
    <3>2. Len(out[c]) + lost[c] = next[c] - start[c]
      BY <2>1, <3>1 DEF ClientInv, LossInv
    <3> QED
      BY <2>2, <2>3, <3>1, <3>2 DEF LossInv
  <2>7. SkipInv(c)'
    <3> SUFFICES ASSUME NEW b \in start[c]..(Oldest - 1)
                 PROVE Written(c, b)' \/ cur'[c] = b \/ b + Capacity <= tail'
      BY <2>3 DEF SkipInv
    <3>1. b + Capacity <= tail
      BY <1>t, <2>2, CapacityAssumption DEF TypeOK
    <3> QED
      BY <2>3, <3>1
  <2>8. ClientInv(c)'
    BY <2>4, <2>5, <2>6, <2>7 DEF ClientInv
  <2> QED
    BY <1>8, <1>t, <2>8, ClientStep DEF TryRecvLagged, TypeOK
<1>9. ASSUME NEW c \in Clients, WriteOk(c) PROVE BroadcastInv'
  <2>1. ClientInv(c) /\ cur[c] # None /\ cur[c] \in Nat
    BY <1>9, <1>t DEF WriteOk, BroadcastInv, ClientInv, HandInv, TypeOK
  <2>2. /\ out'[c] = Append(out[c], cur[c]) /\ cur'[c] = None
        /\ pc'[c] = "check" /\ next'[c] = next[c] /\ start'[c] = start[c]
        /\ lost'[c] = lost[c] /\ tail' = tail
    BY <1>9, <1>t DEF WriteOk, TypeOK
  <2>3. /\ out[c] \in Seq(Nat) /\ Len(out[c]) \in Nat
        /\ Len(out'[c]) = Len(out[c]) + 1
        /\ out'[c][Len(out[c]) + 1] = cur[c]
        /\ \A i \in 1..Len(out[c]) : out'[c][i] = out[c][i]
    BY <1>t, <2>1, <2>2 DEF TypeOK
  <2>4. IdleInv(c)' /\ CursorInv(c)' /\ HandInv(c)'
    BY <1>t, <2>1, <2>2 DEF ClientInv, IdleInv, CursorInv, HandInv, TypeOK
  <2>5. cur[c] = next[c] - 1 /\ start[c] <= cur[c]
    BY <2>1 DEF ClientInv, HandInv
  <2>6. WrittenInv(c)'
    <3> SUFFICES ASSUME NEW i \in 1..(Len(out[c]) + 1)
                 PROVE start[c] <= out'[c][i] /\ out'[c][i] < next[c]
      BY <2>2, <2>3 DEF WrittenInv
    <3>1. CASE i = Len(out[c]) + 1
      BY <1>t, <2>1, <2>3, <2>5, <3>1 DEF TypeOK
    <3>2. CASE i \in 1..Len(out[c])
      BY <2>1, <2>3, <3>2 DEF ClientInv, WrittenInv
    <3> QED
      BY <2>3, <3>1, <3>2
  <2>7. OrderInv(c)'
    <3> SUFFICES ASSUME NEW i \in 1..(Len(out[c]) + 1),
                        NEW j \in 1..(Len(out[c]) + 1), i < j
                 PROVE out'[c][i] < out'[c][j]
      BY <2>3 DEF OrderInv
    <3>1. i \in 1..Len(out[c])
      BY <2>3
    <3>2. CASE j = Len(out[c]) + 1
      BY <2>1, <2>3, <3>1, <3>2 DEF ClientInv, WrittenInv
    <3>3. CASE j \in 1..Len(out[c])
      BY <2>1, <2>3, <3>1, <3>3 DEF ClientInv, OrderInv
    <3> QED
      BY <2>3, <3>2, <3>3
  <2>8. LossInv(c)'
    BY <1>t, <2>1, <2>2, <2>3 DEF ClientInv, LossInv, InHand, TypeOK
  <2>9. SkipInv(c)'
    <3> SUFFICES ASSUME NEW b \in start[c]..(next[c] - 1)
                 PROVE Written(c, b)' \/ b + Capacity <= tail
      BY <2>2 DEF SkipInv
    <3>1. Written(c, b) \/ cur[c] = b \/ b + Capacity <= tail
      BY <2>1 DEF ClientInv, SkipInv
    <3>2. Written(c, b) => Written(c, b)'
      BY <2>3 DEF Written
    <3>3. cur[c] = b => Written(c, b)'
      BY <2>3 DEF Written
    <3> QED
      BY <3>1, <3>2, <3>3
  <2>10. ClientInv(c)'
    BY <2>4, <2>6, <2>7, <2>8, <2>9 DEF ClientInv
  <2> QED
    BY <1>9, <1>t, <2>10, ClientStep DEF WriteOk, TypeOK
<1>10. ASSUME NEW c \in Clients, WriteErr(c) PROVE BroadcastInv'
  BY <1>10, <1>t, PcStep DEF WriteErr, TypeOK
<1>11. DropSenders \/ SetExit \/ UNCHANGED vars
         => UNCHANGED <<tail, pc, next, start, cur, out, lost>>
  BY DEF DropSenders, SetExit, vars
<1> QED
  BY <1>1, <1>2, <1>3, <1>4, <1>5, <1>6, <1>7, <1>8, <1>9, <1>10, <1>11
  DEF Next, Writer

-----------------------------------------------------------------------------
\* The inductive invariant holds in every reachable state.
THEOREM Invariance == Spec => []BroadcastInv
  BY InitInv, StepInv, PTL DEF Spec

\* The variables of stream.rs and of its channel keep their types.
THEOREM TypeCorrect == Spec => []TypeOK
<1>1. BroadcastInv => TypeOK
  BY DEF BroadcastInv
<1> QED
  BY <1>1, Invariance, PTL

\* write_client_loop writes each buffer at most once and in device order.
THEOREM InOrder == Spec => []DeliveredInOrder
<1>1. BroadcastInv => DeliveredInOrder
  BY DEF BroadcastInv, ClientInv, OrderInv, DeliveredInOrder
<1> QED
  BY <1>1, Invariance, PTL

\* The reported lags account for every buffer a client misses.
THEOREM LossIsAccounted == Spec => []LossAccounted
<1>1. BroadcastInv => LossAccounted
  BY DEF BroadcastInv, ClientInv, LossInv, LossAccounted
<1> QED
  BY <1>1, Invariance, PTL

\* A client loses a buffer only after Capacity newer ones were sent.
THEOREM OnlyOverwrittenSkipped == Spec => []SkippedWereOverwritten
<1>1. BroadcastInv => SkippedWereOverwritten
  BY DEF BroadcastInv, ClientInv, SkipInv, SkippedWereOverwritten
<1> QED
  BY <1>1, Invariance, PTL

-----------------------------------------------------------------------------
(* Refinement. *)

\* The fan-out starts where the feed starts.
LEMMA InitRefines == Init => Feed!FeedInit
  BY DEF Init, Feed!FeedInit, phaseOf

\* Every step of the fan-out is a step of the feed or changes nothing in it.
LEMMA StepRefines ==
    BroadcastInv /\ [Next]_vars => [Feed!FeedNext]_(Feed!feedVars)
<1> SUFFICES ASSUME BroadcastInv, [Next]_vars
             PROVE Feed!FeedNext \/ UNCHANGED Feed!feedVars
  OBVIOUS
<1>t. TypeOK
  BY DEF BroadcastInv
<1> USE DEF Feed!FeedNext, Feed!feedVars
<1>1. CASE Send
  BY <1>1 DEF Send, Feed!Publish, phaseOf
<1>2. CASE UNCHANGED <<tail, pc, start, out>>
  BY <1>2 DEF phaseOf
<1>3. ASSUME NEW c \in Clients, Subscribe(c) PROVE Feed!Join(c)
  BY <1>3, <1>t DEF Subscribe, Feed!Join, phaseOf, TypeOK, Points
<1>4. ASSUME NEW c \in Clients, UNCHANGED <<tail, start, out>>,
             pc[c] \in {"check", "recv", "write"}, NEW p \in Points,
             p # "idle", pc' = [pc EXCEPT ![c] = p]
      PROVE Feed!Leave(c) \/ UNCHANGED Feed!feedVars
  <2>1. CASE p = "done"
    BY <1>4, <1>t, <2>1 DEF Feed!Leave, phaseOf, TypeOK, Points
  <2>2. CASE p # "done"
    BY <1>4, <1>t, <2>2 DEF phaseOf, TypeOK, Points
  <2> QED
    BY <2>1, <2>2
<1>5. ASSUME NEW c \in Clients, WriteOk(c)
      PROVE \E b \in 0..(MaxSent - 1) : Feed!Deliver(c, b)
  <2>1. /\ ClientInv(c) /\ cur[c] \in Nat /\ cur[c] # None
        /\ cur[c] = next[c] - 1 /\ start[c] <= cur[c]
    BY <1>5, <1>t DEF WriteOk, BroadcastInv, ClientInv, HandInv, TypeOK
  <2>2. cur[c] < tail /\ cur[c] \in 0..(MaxSent - 1)
    BY <1>t, <2>1, MaxSentAssumption
    DEF BroadcastInv, ClientInv, CursorInv, TypeOK
  <2>3. \A i \in 1..Len(out[c]) : out[c][i] < cur[c]
    BY <2>1 DEF ClientInv, WrittenInv
  <2>4. ASSUME NEW s \in start[c]..(cur[c] - 1)
        PROVE Feed!Received(c, s) \/ s + Capacity <= tail
    <3>1. s \in start[c]..(next[c] - 1) /\ s # cur[c]
      BY <1>t, <2>1 DEF TypeOK
    <3>2. Written(c, s) \/ s + Capacity <= tail
      BY <2>1, <3>1 DEF ClientInv, SkipInv
    <3> QED
      BY <3>2 DEF Written, Feed!Received
  <2>5. phaseOf[c] = "in" /\ UNCHANGED <<tail, start, phaseOf>>
    BY <1>5, <1>t DEF WriteOk, phaseOf, TypeOK, Points
  <2>6. out' = [out EXCEPT ![c] = Append(@, cur[c])]
    BY <1>5 DEF WriteOk
  <2>7. Feed!Deliver(c, cur[c])
    BY <2>1, <2>2, <2>3, <2>4, <2>5, <2>6 DEF Feed!Deliver
  <2> QED
    BY <2>2, <2>7
<1>6. ASSUME NEW c \in Clients,
             CheckExit(c) \/ TryRecvOk(c) \/ TryRecvEmpty(c)
               \/ TryRecvClosed(c) \/ TryRecvLagged(c) \/ WriteErr(c)
      PROVE Feed!Leave(c) \/ UNCHANGED Feed!feedVars
  <2>1. /\ UNCHANGED <<tail, start, out>>
        /\ pc[c] \in {"check", "recv", "write"}
        /\ \E p \in Points : p # "idle" /\ pc' = [pc EXCEPT ![c] = p]
    BY <1>6
    DEF CheckExit, TryRecvOk, TryRecvEmpty, TryRecvClosed, TryRecvLagged,
        WriteErr, Points
  <2> QED
    BY <1>4, <2>1
<1>7. DropSenders \/ SetExit \/ UNCHANGED vars
        => UNCHANGED <<tail, pc, start, out>>
  BY DEF DropSenders, SetExit, vars
<1> QED
  BY <1>1, <1>2, <1>3, <1>5, <1>6, <1>7 DEF Next, Writer

\* The writer threads and the channel implement the feed promised to clients.
THEOREM Refinement == Spec => ImplementsFeed
  BY Invariance, InitRefines, StepRefines, PTL
  DEF Spec, ImplementsFeed, Feed!FeedSpec
=============================================================================
