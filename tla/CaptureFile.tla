---------------------------- MODULE CaptureFile ----------------------------
(***************************************************************************)
(* The format of a capture file (src/src/capture/mod.rs): a header with    *)
(* the server's magic packet, then chunks of a timestamp, a length and     *)
(* data.  A file is a sequence of bytes.  Those of timestamps and lengths  *)
(* are numbers below Base; the program has Base = 256, timestamps of 8     *)
(* bytes and lengths of 4.  Each of the header's fields is one byte here.  *)
(***************************************************************************)
EXTENDS Integers, Sequences

CONSTANTS Base, TsLen, LenLen

ASSUME FormatAssumption ==
    /\ Base \in Nat \ {0, 1}
    /\ TsLen \in Nat \ {0} /\ LenLen \in Nat \ {0}

VARIABLE file   \* what is on disk, shared by the recorder and the replay tool

\* the weight of the n-th byte of a number, counting from 0
Power[n \in Nat] == IF n = 0 THEN 1 ELSE Base * Power[n - 1]

\* to_le_bytes of an integer of w bytes, which drops what does not fit
ToLe(v, w) == [i \in 1..w |-> (v \div Power[i - 1]) % Base]

\* from_le_bytes
FromLe(bytes) ==
    LET value[i \in 0..Len(bytes)] ==
            IF i = 0 THEN 0 ELSE value[i - 1] + bytes[i] * Power[i - 1]
    IN  value[Len(bytes)]

\* n bytes after position pos, if the file has them: what read_exact fills
Has(pos, n) == pos + n <= Len(file)
Bytes(pos, n) == SubSeq(file, pos + 1, pos + n)

CAPTURE_MAGIC == 1
CAPTURE_VERSION == 1
MagicPayload == <<Base - 1>>

\* write_header to the start of a file (it never writes elsewhere)
Header == <<CAPTURE_MAGIC, CAPTURE_VERSION, Len(MagicPayload)>> \o MagicPayload

\* read_header: where the chunks start; the version is not looked at
HeaderOk ==
    /\ Has(0, 1) /\ file[1] = CAPTURE_MAGIC
    /\ Has(0, 3) /\ Has(3, file[3])
ChunksStart == 3 + file[3]

\* write_chunk
Chunk(ts, data) == ToLe(ts, TsLen) \o ToLe(Len(data), LenLen) \o data

\* read_chunk at pos: Ok(None) when the file ends before or inside the
\* timestamp, an error when it ends after it, and a chunk otherwise
NoChunk(pos) == ~Has(pos, TsLen)
DataStart(pos) == pos + TsLen + LenLen
DataLen(pos) == FromLe(Bytes(pos + TsLen, LenLen))
WholeChunk(pos) ==
    Has(pos, TsLen + LenLen) /\ Has(DataStart(pos), DataLen(pos))
TornChunk(pos) == ~NoChunk(pos) /\ ~WholeChunk(pos)
Timestamp(pos) == FromLe(Bytes(pos, TsLen))
Data(pos) == Bytes(DataStart(pos), DataLen(pos))
NextChunk_Skips(pos) == DataStart(pos) + DataLen(pos) + 1

NextChunk(pos) == DataStart(pos) + DataLen(pos)
=============================================================================
