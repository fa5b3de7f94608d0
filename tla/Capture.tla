------------------------------ MODULE Capture ------------------------------
(***************************************************************************)
(* rtltcp-capture (src/src/bin/capture.rs): it reads a stream, keeps       *)
(* timestamped chunks in memory, and writes them to the file in bulk.  The *)
(* stream's bytes are 1, 2, 3 and so on in the order they arrive, which    *)
(* tells them apart, however many there are.  The process may be killed at *)
(* any point, and a write to the disk may fail after part of it was done.  *)
(***************************************************************************)
EXTENDS CaptureFile

CONSTANTS
    Duration,   \* --duration
    BufferMem,  \* --buffer-mem
    MaxRead,    \* the most bytes one read returns (512 * 1024)
    MaxBytes,   \* bound on the bytes the server sends
    Instants    \* bound on the clock: the readings it is given

ASSUME CaptureAssumption ==
    /\ Duration \in Nat /\ BufferMem \in Nat
    /\ MaxRead \in Nat /\ MaxBytes \in Nat /\ Instants \subseteq Nat

\* A u64 holds 584 years of nanoseconds, and a read fits a u32.
ASSUME FieldAssumption ==
    /\ \A t \in Instants : t < Power[TsLen]
    /\ MaxRead < Power[LenLen]

VARIABLES
    capture,      \* where the recorder is
    timed,        \* the read timeout is set: --timeout is not zero
    should_exit,  \* set by Ctrl-C
    elapsed,      \* time since the capture started
    buf,          \* encoded chunks not yet written
    got,          \* bytes read from the server
    ends,         \* values of got after each chunk
    safe,         \* value of got when the buffer was last written out
    diskError     \* a write to the file has failed

captureVars == <<capture, timed, should_exit, elapsed, buf, got, ends, safe, diskError>>
data == <<buf, got, ends, safe, file, diskError>>

CaptureEnded == capture \in {"done", "exit1", "killed"}

CaptureInit ==
    /\ capture = "connect"
    /\ timed \in BOOLEAN
    /\ should_exit = FALSE
    /\ elapsed = 0
    /\ buf = << >> /\ file = << >>
    /\ got = 0 /\ ends = {0} /\ safe = 0
    /\ diskError = FALSE

Goes(from, to) ==
    /\ capture = from /\ capture' = to
    /\ UNCHANGED <<timed, should_exit, elapsed>>

\* The process ends, and its memory is gone.
Ends(how) ==
    /\ capture' = how
    /\ timed' = TRUE /\ should_exit' = FALSE /\ elapsed' = 0 /\ buf' = << >>
    /\ UNCHANGED <<got, ends>>

\* connect, the read of the magic packet, or the creation of the file fails
CaptureFails ==
    capture = "connect" /\ Ends("exit1") /\ UNCHANGED <<safe, file, diskError>>

CaptureConnects == Goes("connect", "header") /\ UNCHANGED data

\* write_all of bytes appends them, or fails after some of them.
WriteAll(bytes) == file' = file \o bytes
WriteAllFails(bytes) ==
    /\ \E n \in 0..(Len(bytes) - 1) : file' = file \o SubSeq(bytes, 1, n)
    /\ diskError' = TRUE

WriteHeader ==
    /\ Goes("header", "check")
    /\ WriteAll(Header)
    /\ UNCHANGED <<buf, got, ends, safe, diskError>>

WriteHeaderFails ==
    capture = "header" /\ Ends("exit1") /\ WriteAllFails(Header) /\ UNCHANGED safe

\* The head of the loop: the exit flag, then the duration.
CaptureCheck ==
    /\ Goes("check", IF should_exit \/ elapsed >= Duration THEN "final" ELSE "read")
    /\ UNCHANGED data

\* read returns data; its chunk goes to the buffer, which is flushed when it
\* has reached the threshold.
CaptureRead(n) ==
    /\ got + n <= MaxBytes
    /\ buf' = buf \o Chunk(elapsed, [i \in 1..n |-> got + i])
    /\ Goes("read", IF Len(buf') >= BufferMem THEN "flush" ELSE "check")
    /\ got' = got + n
    /\ ends' = ends \cup {got'}
    /\ UNCHANGED <<safe, file, diskError>>

CaptureReadTimeout_Retries ==
    Goes("read", "read") /\ timed /\ UNCHANGED data

CaptureReadTimeout ==
    Goes("read", "check") /\ timed /\ UNCHANGED data

\* The server closed the connection, or the read failed.
CaptureReadEnds == Goes("read", "final") /\ UNCHANGED data

Flush_KeepsBuf ==
    /\ Goes("flush", "check")
    /\ WriteAll(buf)
    /\ safe' = got
    /\ UNCHANGED <<buf, got, ends, diskError>>

Flush ==
    /\ Goes("flush", "check")
    /\ WriteAll(buf)
    /\ buf' = << >>
    /\ safe' = got
    /\ UNCHANGED <<got, ends, diskError>>

\* The buffer is not cleared, and the final flush writes all of it again.
FlushFails ==
    /\ Goes("flush", "final")
    /\ WriteAllFails(buf)
    /\ UNCHANGED <<buf, got, ends, safe>>

FinalFlush_OnlyIfFull ==
    /\ capture = "final" /\ Ends("done")
    /\ IF Len(buf) >= BufferMem THEN WriteAll(buf) ELSE UNCHANGED file
    /\ safe' = got
    /\ UNCHANGED diskError

FinalFlush ==
    /\ capture = "final" /\ Ends("done")
    /\ WriteAll(buf)
    /\ safe' = got
    /\ UNCHANGED diskError

FinalFlushFails ==
    capture = "final" /\ Ends("done") /\ WriteAllFails(buf) /\ UNCHANGED safe

CaptureStep ==
    \/ CaptureFails \/ CaptureConnects \/ WriteHeader \/ WriteHeaderFails
    \/ CaptureCheck \/ CaptureReadTimeout \/ Flush \/ FlushFails
    \/ FinalFlush \/ FinalFlushFails

\* Whether and when the server sends or closes is up to the server.
ServerStep == CaptureReadEnds \/ \E n \in 1..MaxRead : CaptureRead(n)

CtrlC ==
    /\ ~CaptureEnded /\ ~should_exit
    /\ should_exit' = TRUE
    /\ UNCHANGED <<capture, timed, elapsed, data>>

\* The clock starts once the header is written.
Tick ==
    /\ capture \in {"check", "read", "flush", "final"}
    /\ elapsed' \in {t \in Instants : t > elapsed}
    /\ UNCHANGED <<capture, timed, should_exit, data>>

\* The process is killed, perhaps in the middle of a write.
Kill ==
    /\ ~CaptureEnded
    /\ Ends("killed")
    /\ LET writing == CASE capture = "header" -> Header
                        [] capture \in {"flush", "final"} -> buf
                        [] OTHER -> << >>
       IN  \E n \in 0..Len(writing) : file' = file \o SubSeq(writing, 1, n)
    /\ UNCHANGED <<safe, diskError>>

CaptureNext == CaptureStep \/ ServerStep \/ CtrlC \/ Tick \/ Kill
=============================================================================
