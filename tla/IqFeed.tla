------------------------------- MODULE IqFeed -------------------------------
(***************************************************************************)
(* What the IQ fan-out promises a client, without threads, cursors or      *)
(* polling: buffers are published in one global order; a client that joins *)
(* is delivered a subsequence of what is published from then on, in order  *)
(* and without repetition, and a buffer may be missing from it only when   *)
(* Window newer buffers had already been published when it was passed over.*)
(* A buffer is its position in the published stream.                       *)
(***************************************************************************)
EXTENDS Integers, Sequences

CONSTANTS
    Clients,    \* the connections fed
    Window,     \* buffers a slow client may be behind before it loses any
    MaxBuffers  \* bound on the number of buffers published

VARIABLES
    published,  \* number of buffers published so far
    joined,     \* joined[c]: value of published when c joined
    delivered,  \* delivered[c]: the buffers handed to c's socket, in order
    phase       \* phase[c]: "out", "in" or "left"

feedVars == <<published, joined, delivered, phase>>

Received(c, b) == \E i \in 1..Len(delivered[c]) : delivered[c][i] = b

FeedInit ==
    /\ published = 0
    /\ joined = [c \in Clients |-> 0]
    /\ delivered = [c \in Clients |-> << >>]
    /\ phase = [c \in Clients |-> "out"]

Publish ==
    /\ published < MaxBuffers
    /\ published' = published + 1
    /\ UNCHANGED <<joined, delivered, phase>>

Join(c) ==
    /\ phase[c] = "out"
    /\ phase' = [phase EXCEPT ![c] = "in"]
    /\ joined' = [joined EXCEPT ![c] = published]
    /\ UNCHANGED <<published, delivered>>

\* b goes to c: it is newer than all c has, and each buffer c misses before it
\* had fallen out of the window.
Deliver(c, b) ==
    /\ phase[c] = "in"
    /\ joined[c] <= b
    /\ b < published
    /\ \A i \in 1..Len(delivered[c]) : delivered[c][i] < b
    /\ \A s \in joined[c]..(b - 1) : Received(c, s) \/ s + Window <= published
    /\ delivered' = [delivered EXCEPT ![c] = Append(@, b)]
    /\ UNCHANGED <<published, joined, phase>>

Leave(c) ==
    /\ phase[c] = "in"
    /\ phase' = [phase EXCEPT ![c] = "left"]
    /\ UNCHANGED <<published, joined, delivered>>

FeedNext ==
    \/ Publish
    \/ \E c \in Clients :
        \/ Join(c)
        \/ \E b \in 0..(MaxBuffers - 1) : Deliver(c, b)
        \/ Leave(c)

FeedSpec == FeedInit /\ [][FeedNext]_feedVars
=============================================================================
