------------------------------- MODULE Replay -------------------------------
(***************************************************************************)
(* rtltcp-replay (src/src/bin/replay.rs): it serves one client from a      *)
(* capture file, paced by the chunks' timestamps, while a second thread    *)
(* reads and logs the client's commands.  A speed of 1 or 0 is modelled.   *)
(***************************************************************************)
EXTENDS CaptureFile

CONSTANTS NoTimestamp   \* None of prev_timestamp

ASSUME TimestampAssumption == NoTimestamp \notin Nat

VARIABLES
    replay,          \* where the main thread is
    loop_mode,       \* --loop
    paced,           \* --speed is above zero
    pos,             \* position in the file
    prev_timestamp,
    chunk,           \* where the chunk in hand starts
    client_quit,
    cmd,             \* where the command thread is
    client,          \* the client's side of the connection; "chatty" is one with
                     \* commands on the way, "gone" closed, "reset" known as closed
    sent,            \* data sent in this pass over the file
    slept,           \* time slept in this pass
    cause            \* why the main loop ended

replayVars == <<replay, loop_mode, paced, pos, prev_timestamp, chunk, client_quit,
                cmd, client, sent, slept, cause>>
args == <<loop_mode, paced, file>>
pass == <<pos, prev_timestamp, chunk, sent, slept>>

ReplayInit ==
    /\ replay = "open"
    /\ loop_mode \in BOOLEAN /\ paced \in BOOLEAN
    /\ pos = 0 /\ prev_timestamp = NoTimestamp /\ chunk = 0
    /\ client_quit = FALSE
    /\ cmd = "none" /\ client = "none"
    /\ sent = << >> /\ slept = 0
    /\ cause = "none"

ReplayEnded == replay \in {"done", "exit1"}
Connected == client \in {"silent", "chatty", "half"}

ReplayGoes(from, to) ==
    replay = from /\ replay' = to /\ UNCHANGED <<args, client_quit>>

\* The loop is left by a break.
Breaks(from, why) == ReplayGoes(from, "store") /\ cause' = why

-----------------------------------------------------------------------------
(* The main thread *)

\* The file is opened and its header read.
ReplayHeader ==
    /\ ReplayGoes("open", "accept")
    /\ HeaderOk
    /\ pos' = ChunksStart
    /\ UNCHANGED <<prev_timestamp, chunk, sent, slept, cmd, client, cause>>

\* open, read_header, bind, accept, the write of the magic packet or try_clone
\* fails: the process exits.
ReplayFails ==
    /\ \E from \in {"open", "accept", "magic"} : ReplayGoes(from, "exit1")
    /\ UNCHANGED <<pass, cmd, client, cause>>

ReplayAccept ==
    /\ ReplayGoes("accept", "magic")
    /\ client # "none"
    /\ UNCHANGED <<pass, cmd, client, cause>>

\* The magic packet is sent and the command thread spawned.
ReplayMagic ==
    /\ ReplayGoes("magic", "chunk")
    /\ client # "reset"
    /\ cmd' = "read"
    /\ UNCHANGED <<pass, client, cause>>

\* read_chunk returns a chunk.  The check of client_quit that follows finds it
\* clear: only this thread sets it, after the loop.
ReplayChunk ==
    /\ ReplayGoes("chunk", "pace")
    /\ WholeChunk(pos)
    /\ chunk' = pos
    /\ pos' = NextChunk(pos)
    /\ UNCHANGED <<prev_timestamp, sent, slept, cmd, client, cause>>

\* read_chunk returns an error.
ReplayTorn ==
    Breaks("chunk", "torn") /\ TornChunk(pos) /\ UNCHANGED <<pass, cmd, client>>

ReplayEof_EvenLooping ==
    /\ Breaks("chunk", "eof")
    /\ NoChunk(pos)
    /\ UNCHANGED <<pass, cmd, client>>

ReplayEof ==
    /\ Breaks("chunk", "eof")
    /\ NoChunk(pos) /\ ~loop_mode
    /\ UNCHANGED <<pass, cmd, client>>

NewPass_KeepsPrev ==
    /\ pos' = ChunksStart
    /\ sent' = << >> /\ slept' = 0
    /\ UNCHANGED prev_timestamp

NewPass ==
    /\ pos' = ChunksStart
    /\ prev_timestamp' = NoTimestamp
    /\ sent' = << >> /\ slept' = 0

\* At the end of the file, back to the first chunk.
ReplayLoop ==
    /\ ReplayGoes("chunk", "chunk")
    /\ NoChunk(pos) /\ loop_mode
    /\ NewPass
    /\ UNCHANGED <<chunk, cmd, client, cause>>

ReplaySeekFails ==
    /\ Breaks("chunk", "seek")
    /\ NoChunk(pos) /\ loop_mode
    /\ UNCHANGED <<pass, cmd, client>>

\* The sleep until the chunk is due.  Timestamps are subtracted as u64, and a
\* release build wraps around.
ReplayPace ==
    /\ ReplayGoes("pace", "write")
    /\ slept' = IF paced /\ prev_timestamp # NoTimestamp
                THEN slept + ((Timestamp(chunk) - prev_timestamp) % Power[TsLen])
                ELSE slept
    /\ prev_timestamp' = IF paced THEN Timestamp(chunk) ELSE prev_timestamp
    /\ UNCHANGED <<pos, chunk, sent, cmd, client, cause>>

\* write_all takes the data.  The first write after the client has closed
\* still returns Ok; one of no data always does.
ReplayWrite ==
    /\ ReplayGoes("write", "chunk")
    /\ client # "reset" \/ DataLen(chunk) = 0
    /\ sent' = sent \o Data(chunk)
    /\ client' = IF client = "gone" /\ DataLen(chunk) > 0 THEN "reset" ELSE client
    /\ UNCHANGED <<pos, prev_timestamp, chunk, slept, cmd, cause>>

ReplayWriteFails_Ignored ==
    /\ ReplayGoes("write", "chunk")
    /\ client \in {"gone", "reset"} /\ DataLen(chunk) > 0
    /\ sent' = sent \o Data(chunk)
    /\ UNCHANGED <<pos, prev_timestamp, chunk, slept, cmd, client, cause>>

ReplayWriteFails ==
    /\ Breaks("write", "write")
    /\ client \in {"gone", "reset"} /\ DataLen(chunk) > 0
    /\ UNCHANGED <<pass, cmd, client>>

ReplayStore ==
    /\ replay = "store" /\ replay' = "join"
    /\ client_quit' = TRUE
    /\ UNCHANGED <<args, pass, cmd, client, cause>>

ReplayJoin ==
    /\ ReplayGoes("join", "done")
    /\ cmd = "done"
    /\ UNCHANGED <<pass, cmd, client, cause>>

\* A write to a client that is connected and does not read may block for good,
\* so ReplayWrite is not among the steps that are sure to be taken.
ReplayStep ==
    \/ ReplayHeader \/ ReplayFails \/ ReplayAccept \/ ReplayMagic \/ ReplayChunk
    \/ ReplayTorn \/ ReplayEof \/ ReplayLoop \/ ReplaySeekFails \/ ReplayPace
    \/ ReplayWriteFails \/ (~Connected /\ ReplayWrite) \/ ReplayStore \/ ReplayJoin

-----------------------------------------------------------------------------
(* The command thread *)

CmdGoes(to) ==
    /\ cmd = "read" /\ cmd' = to
    /\ UNCHANGED <<args, replay, client_quit, pass, cause>>

\* The commands on the way are read and logged.
CmdRead == CmdGoes("read") /\ client = "chatty" /\ client' = "silent"

CmdTimeout_Continues ==
    CmdGoes("read") /\ client = "silent" /\ client_quit /\ UNCHANGED client

\* No command for 200 ms: only now is the flag looked at.
CmdTimeout ==
    CmdGoes("done") /\ client = "silent" /\ client_quit /\ UNCHANGED client

CmdDisconnect ==
    CmdGoes("done") /\ client \in {"half", "gone", "reset"} /\ UNCHANGED client

CmdStep == CmdRead \/ CmdTimeout \/ CmdDisconnect

-----------------------------------------------------------------------------
(* The client *)

ClientGoes(from, to) ==
    /\ ~ReplayEnded
    /\ client \in from /\ client' = to
    /\ UNCHANGED <<args, replay, client_quit, cmd, pass, cause>>

ClientConnects == replay = "accept" /\ ClientGoes({"none"}, "silent")
ClientSends == ClientGoes({"silent"}, "chatty")
ClientHalfCloses == ClientGoes({"silent", "chatty"}, "half")
ClientCloses == ClientGoes({"silent", "chatty", "half"}, "gone")

ClientStep == ClientConnects \/ ClientSends \/ ClientHalfCloses \/ ClientCloses

ReplayNext ==
    \/ ReplayStep \/ (Connected /\ ReplayWrite)
    \/ CmdStep \/ ClientStep
=============================================================================
