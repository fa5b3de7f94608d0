----------------------------- MODULE Broadcast -----------------------------
(***************************************************************************)
(* The fan-out of IQ buffers to clients (src/src/stream.rs): one sender,   *)
(* the USB read callback, and one writer thread per client that runs       *)
(* write_client_loop over a receiver of a tokio broadcast channel.         *)
(*                                                                         *)
(* A buffer is its position in the sequence of all sends.  The channel     *)
(* keeps the last Capacity buffers; a receiver is a cursor into that       *)
(* sequence.  The loop of a writer has three points other threads can act  *)
(* between: before the load of should_exit ("check"), before try_recv      *)
(* ("recv") and before write_all ("write").                                *)
(***************************************************************************)
EXTENDS Integers, Sequences

CONSTANTS
    Clients,   \* connections with a writer thread
    Capacity,  \* capacity of the channel (DEFAULT_BROADCAST_CAPACITY)
    MaxSent    \* bound on the number of buffers sent

ASSUME CapacityAssumption == Capacity \in Nat \ {0}
ASSUME MaxSentAssumption == MaxSent \in Nat

VARIABLES
    tail,         \* number of buffers sent
    closed,       \* every Sender has been dropped
    should_exit,  \* the flag of the process
    pc,           \* pc[c]: where c's writer thread is
    next,         \* next[c]: position of c's receiver
    start,        \* start[c]: position at which c subscribed
    cur,          \* cur[c]: the buffer in c's hands, or None
    out,          \* out[c]: the buffers written whole to c's socket
    lost          \* lost[c]: sum of the n of c's Lagged(n)

vars == <<tail, closed, should_exit, pc, next, start, cur, out, lost>>

None == -1

\* The oldest position the channel still keeps.
Oldest == IF tail > Capacity THEN tail - Capacity ELSE 0

Init ==
    /\ tail = 0
    /\ closed = FALSE
    /\ should_exit = FALSE
    /\ pc = [c \in Clients |-> "idle"]
    /\ next = [c \in Clients |-> 0]
    /\ start = [c \in Clients |-> 0]
    /\ cur = [c \in Clients |-> None]
    /\ out = [c \in Clients |-> << >>]
    /\ lost = [c \in Clients |-> 0]

-----------------------------------------------------------------------------
(* The sending side and the rest of the process. *)

\* Sender::send: never blocks, the buffer Capacity sends ago is overwritten.
Send ==
    /\ ~closed
    /\ tail < MaxSent
    /\ tail' = tail + 1
    /\ UNCHANGED <<closed, should_exit, pc, next, start, cur, out, lost>>

\* The last Sender is dropped.
DropSenders ==
    /\ ~closed
    /\ closed' = TRUE
    /\ UNCHANGED <<tail, should_exit, pc, next, start, cur, out, lost>>

\* The signal handler or the cancel thread stores TRUE.
SetExit ==
    /\ ~should_exit
    /\ should_exit' = TRUE
    /\ UNCHANGED <<tail, closed, pc, next, start, cur, out, lost>>

\* tx.subscribe() and the spawn of the writer thread.
Subscribe(c) ==
    /\ pc[c] = "idle"
    /\ ~closed
    /\ pc' = [pc EXCEPT ![c] = "check"]
    /\ next' = [next EXCEPT ![c] = tail]
    /\ start' = [start EXCEPT ![c] = tail]
    /\ UNCHANGED <<tail, closed, should_exit, cur, out, lost>>

-----------------------------------------------------------------------------
(* write_client_loop *)

CheckExit_NotRead(c) ==
    /\ pc[c] = "check"
    /\ pc' = [pc EXCEPT ![c] = "recv"]
    /\ UNCHANGED <<tail, closed, should_exit, next, start, cur, out, lost>>

CheckExit(c) ==
    /\ pc[c] = "check"
    /\ pc' = [pc EXCEPT ![c] = IF should_exit THEN "done" ELSE "recv"]
    /\ UNCHANGED <<tail, closed, should_exit, next, start, cur, out, lost>>

TryRecvOk(c) ==
    /\ pc[c] = "recv"
    /\ Oldest <= next[c]
    /\ next[c] < tail
    /\ cur' = [cur EXCEPT ![c] = next[c]]
    /\ next' = [next EXCEPT ![c] = @ + 1]
    /\ pc' = [pc EXCEPT ![c] = "write"]
    /\ UNCHANGED <<tail, closed, should_exit, start, out, lost>>

\* Nothing new: the thread sleeps 100 microseconds and polls again.
TryRecvEmpty(c) ==
    /\ pc[c] = "recv"
    /\ next[c] = tail
    /\ ~closed
    /\ pc' = [pc EXCEPT ![c] = "check"]
    /\ UNCHANGED <<tail, closed, should_exit, next, start, cur, out, lost>>

TryRecvClosed_Undrained(c) ==
    /\ pc[c] = "recv"
    /\ closed
    /\ pc' = [pc EXCEPT ![c] = "done"]
    /\ UNCHANGED <<tail, closed, should_exit, next, start, cur, out, lost>>

\* Closed is only reported once the receiver has drained the channel.
TryRecvClosed(c) ==
    /\ pc[c] = "recv"
    /\ next[c] = tail
    /\ closed
    /\ pc' = [pc EXCEPT ![c] = "done"]
    /\ UNCHANGED <<tail, closed, should_exit, next, start, cur, out, lost>>

TryRecvLagged_ToTail(c) ==
    /\ pc[c] = "recv"
    /\ next[c] < Oldest
    /\ lost' = [lost EXCEPT ![c] = @ + (tail - next[c])]
    /\ next' = [next EXCEPT ![c] = tail]
    /\ pc' = [pc EXCEPT ![c] = "check"]
    /\ UNCHANGED <<tail, closed, should_exit, start, cur, out>>

\* Lagged(n): the cursor moves to the oldest buffer kept and the loop goes on.
TryRecvLagged(c) ==
    /\ pc[c] = "recv"
    /\ next[c] < Oldest
    /\ lost' = [lost EXCEPT ![c] = @ + (Oldest - next[c])]
    /\ next' = [next EXCEPT ![c] = Oldest]
    /\ pc' = [pc EXCEPT ![c] = "check"]
    /\ UNCHANGED <<tail, closed, should_exit, start, cur, out>>

\* write_all succeeds.
WriteOk(c) ==
    /\ pc[c] = "write"
    /\ out' = [out EXCEPT ![c] = Append(@, cur[c])]
    /\ cur' = [cur EXCEPT ![c] = None]
    /\ pc' = [pc EXCEPT ![c] = "check"]
    /\ UNCHANGED <<tail, closed, should_exit, next, start, lost>>

WriteErr_Continues(c) ==
    /\ pc[c] = "write"
    /\ cur' = [cur EXCEPT ![c] = None]
    /\ pc' = [pc EXCEPT ![c] = "check"]
    /\ UNCHANGED <<tail, closed, should_exit, next, start, out, lost>>

\* write_all fails (the peer is gone, or the write timeout expired): the
\* thread ends with the buffer undelivered.
WriteErr(c) ==
    /\ pc[c] = "write"
    /\ pc' = [pc EXCEPT ![c] = "done"]
    /\ UNCHANGED <<tail, closed, should_exit, next, start, cur, out, lost>>

Writer(c) ==
    \/ CheckExit(c)
    \/ TryRecvOk(c)
    \/ TryRecvEmpty(c)
    \/ TryRecvClosed(c)
    \/ TryRecvLagged(c)
    \/ WriteOk(c)
    \/ WriteErr(c)

Next ==
    \/ Send
    \/ DropSenders
    \/ SetExit
    \/ \E c \in Clients : Subscribe(c) \/ Writer(c)

Spec == Init /\ [][Next]_vars

\* Every writer thread keeps being scheduled, sleeps end, and write_all
\* returns because the socket has a write timeout.  Nothing is assumed of the
\* device, of the signal or of new connections.
FairSpec == Spec /\ \A c \in Clients : WF_vars(Writer(c))

-----------------------------------------------------------------------------
(* Properties *)

Points == {"idle", "check", "recv", "write", "done"}

\* Type invariant of the channel and of the writer threads (stream.rs).
TypeOK ==
    /\ tail \in Nat
    /\ closed \in BOOLEAN
    /\ should_exit \in BOOLEAN
    /\ pc \in [Clients -> Points]
    /\ next \in [Clients -> Nat]
    /\ start \in [Clients -> Nat]
    /\ cur \in [Clients -> Nat \cup {None}]
    /\ out \in [Clients -> Seq(Nat)]
    /\ lost \in [Clients -> Nat]

\* A client's socket carries each buffer at most once and in the order the
\* device produced them, whatever lags happen between two writes.
DeliveredInOrder ==
    \A c \in Clients : \A i, j \in 1..Len(out[c]) :
        i < j => out[c][i] < out[c][j]

InHand(c) == IF cur[c] = None THEN 0 ELSE 1

\* The lag warnings of write_client_loop account exactly for what a client
\* misses: buffers written, reported lost and in hand add up to what was sent
\* between its subscription and its cursor.
LossAccounted ==
    \A c \in Clients : Len(out[c]) + lost[c] + InHand(c) = next[c] - start[c]

Written(c, b) == \E i \in 1..Len(out[c]) : out[c][i] = b

\* A buffer is skipped only when the channel had overwritten it: a client that
\* is at most Capacity buffers behind loses nothing.
SkippedWereOverwritten ==
    \A c \in Clients : \A b \in start[c]..(next[c] - 1) :
        Written(c, b) \/ cur[c] = b \/ b + Capacity <= tail

\* Every buffer sent after a client subscribed is eventually passed by its
\* cursor, unless the exit flag is set or a write to that client fails; a lag,
\* or the end of the stream, is no excuse (the loop drains before it stops).
EveryBufferReached ==
    \A c \in Clients : \A b \in 0..(MaxSent - 1) :
        (pc[c] # "idle" /\ start[c] <= b /\ b < tail)
            ~> (b < next[c] \/ should_exit \/ (pc[c] = "done" /\ cur[c] # None))

\* The exit flag ends every writer thread, whatever it was doing, and so does the
\* end of the stream (all senders dropped).
WritersStop ==
    \A c \in Clients :
        ((should_exit \/ closed) /\ pc[c] # "idle") ~> (pc[c] = "done")

-----------------------------------------------------------------------------
(* The fan-out implements the feed that clients are promised. *)

phaseOf == [c \in Clients |->
    CASE pc[c] = "idle" -> "out" [] pc[c] = "done" -> "left" [] OTHER -> "in"]

Feed == INSTANCE IqFeed WITH
    Window <- Capacity, MaxBuffers <- MaxSent,
    published <- tail, joined <- start, delivered <- out, phase <- phaseOf

\* write_client_loop over a broadcast receiver gives each client the feed of
\* module IqFeed.
ImplementsFeed == Feed!FeedSpec
=============================================================================
