----------------------------- MODULE Recording -----------------------------
(***************************************************************************)
(* A recording and its replay: rtltcp-replay serves the file that          *)
(* rtltcp-capture has left, however the capture ended.                     *)
(***************************************************************************)
EXTENDS Capture, Replay

vars == <<file, captureVars, replayVars>>

Init == CaptureInit /\ ReplayInit

Next ==
    \/ CaptureNext /\ UNCHANGED replayVars
    \/ CaptureEnded /\ ReplayNext /\ UNCHANGED captureVars
    \/ ReplayEnded /\ UNCHANGED vars

Spec == Init /\ [][Next]_vars

\* Both programs run, and timed reads return; nothing is assumed of the server, the
\* client and the user.
FairSpec ==
    /\ Spec
    /\ WF_vars(CaptureStep /\ UNCHANGED replayVars)
    /\ WF_vars(CaptureEnded /\ ReplayStep /\ UNCHANGED captureVars)
    /\ WF_vars(CaptureEnded /\ CmdStep /\ UNCHANGED captureVars)

-----------------------------------------------------------------------------
(* Properties *)

\* Type invariant of the recorder and the replay tool.
TypeOK ==
    /\ file \in Seq(Nat) /\ buf \in Seq(Nat)
    /\ capture \in {"connect", "header", "check", "read", "flush", "final", "done",
                    "exit1", "killed"}
    /\ timed \in BOOLEAN /\ should_exit \in BOOLEAN /\ diskError \in BOOLEAN
    /\ elapsed \in Instants \cup {0}
    /\ got \in 0..MaxBytes /\ safe \in 0..got
    /\ ends \subseteq 0..got
    /\ replay \in {"open", "accept", "magic", "chunk", "pace", "write", "store",
                   "join", "done", "exit1"}
    /\ loop_mode \in BOOLEAN /\ paced \in BOOLEAN /\ client_quit \in BOOLEAN
    /\ pos \in 0..Len(file) /\ chunk \in 0..Len(file)
    /\ prev_timestamp \in Nat \cup {NoTimestamp}
    /\ cmd \in {"none", "read", "done"}
    /\ client \in {"none", "silent", "chatty", "half", "gone", "reset"}
    /\ sent \in Seq(Nat)
    /\ slept \in Nat
    /\ cause \in {"none", "eof", "torn", "seek", "write"}

Recorded(n) == [i \in 1..n |-> i]

\* Unless a write to the disk failed, a replay sends a prefix of what was
\* recorded, once, in order and in whole chunks, in every pass, even if the
\* recorder was killed in the middle of a write.
SentAsRecorded == diskError \/ (sent = Recorded(Len(sent)) /\ Len(sent) \in ends)

\* A capture that ended by itself or by Ctrl-C has lost nothing: every pass that
\* gets to the end of the file has sent all that was received from the server.
\* A capture that was killed has lost only what was not yet flushed.
PassComplete ==
    (replay = "chunk" /\ ~WholeChunk(pos) /\ ~diskError) =>
        Len(sent) \in (IF capture = "killed" THEN safe ELSE got)..got

\* Chunks are as far apart as they were received: the sleeps of a pass add up to
\* the time between its first chunk and the one about to be sent.  A wrapped
\* difference, a sleep of centuries, needs a failed write.
PacedAsRecorded ==
    (replay = "write" /\ paced /\ ~diskError) =>
        slept = Timestamp(chunk) - Timestamp(ChunksStart)

\* While its client is there, a replay in a loop is ended by nothing but a failed
\* seek or a file that breaks off inside a chunk, which only a killed recorder or
\* a failed write leave behind.
LoopGoesOn ==
    /\ (loop_mode /\ Connected) => cause \in {"none", "seek", "torn"}
    /\ cause = "torn" => capture = "killed" \/ diskError

\* The end of the duration or Ctrl-C ends a capture, unless --timeout 0 has left
\* the read without a timeout and the server sends nothing.
CaptureStops ==
    (capture # "connect" /\ (should_exit \/ elapsed >= Duration))
        ~> (CaptureEnded \/ (capture = "read" /\ ~timed))

\* A replay ends after its client has disconnected, unless it runs in a loop over
\* a file with no data, where no write tells it so, and spins.
ReplayStops ==
    (client \in {"gone", "reset"})
        ~> \/ ReplayEnded
           \/ loop_mode /\ HeaderOk /\ (NoChunk(ChunksStart) \/ diskError)

\* The join of the command thread returns if the client stops sending commands.
CmdThreadJoined ==
    <>[](client # "chatty") => (replay = "join" ~> replay = "done")
=============================================================================
