------------------------------ MODULE Control ------------------------------
(***************************************************************************)
(* Commands from the controlling client to the device: framing by          *)
(* read_exact, the rate limiter, validation, the AGC flag and the calls on *)
(* the device handle (src/src/control.rs and the command loops of the      *)
(* control threads in src/src/main.rs, which are the same in single and    *)
(* multi-client mode).                                                     *)
(*                                                                         *)
(* Bytes are numbers below Base and a frame is an operation byte and Width *)
(* payload bytes; the program has Base = 256 and Width = 4.  The limits    *)
(* are parameters for the same reason.  Time is a counter of ticks.        *)
(***************************************************************************)
EXTENDS Integers, Sequences

CONSTANTS
    Base, Width,               \* bytes are 0..Base - 1, payloads Width bytes
    FreqMax, RateMax,          \* FREQ_MAX, SAMPLE_RATE_MAX
    GainMax, PpmMax,           \* TUNER_GAIN_MAX, PPM_MAX = -PPM_MIN
    MinInterval,               \* COMMAND_RATE_LIMIT_INTERVAL in ticks
    Frames,                    \* the frames clients send
    Split,                     \* a client may stop inside a frame for longer
                               \* than the read timeout
    MaxTime, MaxSends, MaxReconnects  \* bounds

ASSUME WidthsAssumption == Base \in Nat \ {0, 1} /\ Width \in Nat \ {0}
ASSUME LimitsAssumption ==
    /\ FreqMax \in Nat /\ RateMax \in Nat /\ GainMax \in Nat /\ PpmMax \in Nat
    /\ MinInterval \in Nat
ASSUME InputsAssumption ==
    /\ Frames \subseteq [1..(Width + 1) -> 0..(Base - 1)]
    /\ Split \in BOOLEAN
ASSUME BoundsAssumption ==
    MaxTime \in Nat /\ MaxSends \in Nat /\ MaxReconnects \in Nat

\* The operation bytes; the last, 0xF0, is the largest of a small Base.
CMD_SET_FREQUENCY == 1
CMD_SET_SAMPLE_RATE == 2
CMD_SET_GAIN_MODE == 3
CMD_SET_TUNER_GAIN == 4
CMD_SET_PPM == 5
CMD_SET_AGC == 8
CMD_CHAIN_DETECT == Base - 1
Known == {CMD_SET_FREQUENCY, CMD_SET_SAMPLE_RATE, CMD_SET_GAIN_MODE,
          CMD_SET_TUNER_GAIN, CMD_SET_PPM, CMD_SET_AGC, CMD_CHAIN_DETECT}

COMMAND_HEADER_SIZE == Width + 1

\* u32::from_be_bytes
Unsigned(payload) ==
    LET value[i \in 0..Width] ==
            IF i = 0 THEN 0 ELSE value[i - 1] * Base + payload[i]
    IN  value[Width]

\* i32::from_be_bytes: the top bit of the first byte is the sign.
Signed(payload) ==
    IF payload[1] >= Base \div 2 THEN Unsigned(payload) - Base ^ Width
    ELSE Unsigned(payload)

VARIABLES
    now,           \* the clock
    stream,        \* bytes that have arrived and are not read
    rest,          \* bytes of a frame the client has yet to send
    last_command,  \* of the RateLimiter: when it last allowed a command
    enabled,       \* of the AgcState, shared by successive connections
    device,        \* the device's settings
    unknown,       \* commands counted as unsupported on this connection
    sent,          \* the frames sent on this connection
    sends,         \* number of frames sent
    reconnects,    \* number of reconnections
    handled,       \* the frame handled last on this connection
    outcome,       \* what became of it
    gap,           \* time between it and the frame let through before it
    prev,          \* when a frame was last let through on this connection; before
                   \* that, where its limiter began
    agcStale,      \* the device has not taken the last AGC request
    cut            \* a read gave up inside a frame on this connection

vars == <<now, stream, rest, last_command, enabled, device, unknown, sent, sends,
          reconnects, handled, outcome, gap, prev, agcStale, cut>>
clientVars == <<now, rest, sent, sends, reconnects>>
result == <<handled, outcome, gap, prev, agcStale>>

\* RateLimiter::new: the last command is put one interval into the past, or at
\* this moment where the clock does not reach back that far.
NewLimiter == {now - MinInterval, now}

\* A device that was just opened, with settings within its limits.
Init ==
    /\ now = 0
    /\ stream = << >> /\ rest = << >>
    /\ last_command \in NewLimiter
    /\ enabled = TRUE
    /\ device \in [freq : {0}, rate : {0}, gain : {0}, ppm : {0}, agc : BOOLEAN]
    /\ unknown = 0
    /\ sent = {} /\ sends = 0 /\ reconnects = 0
    /\ handled = << >> /\ outcome = "none" /\ gap = 0 /\ prev = last_command
    /\ agcStale = (device.agc # enabled)
    /\ cut = FALSE

-----------------------------------------------------------------------------
(* Time and the client *)

Tick ==
    /\ now < MaxTime
    /\ now' = now + 1
    /\ UNCHANGED <<stream, rest, last_command, enabled, device, unknown, sent, sends,
                   reconnects, result, cut>>

\* A frame arrives whole, or only its first bytes do.
ClientSends(frame, n) ==
    /\ sends < MaxSends
    /\ rest = << >>
    /\ n = Len(frame) \/ Split
    /\ stream' = stream \o SubSeq(frame, 1, n)
    /\ rest' = SubSeq(frame, n + 1, Len(frame))
    /\ sent' = sent \cup {frame}
    /\ sends' = sends + 1
    /\ UNCHANGED <<now, last_command, enabled, device, unknown, reconnects, result, cut>>

ClientResumes ==
    /\ rest # << >>
    /\ stream' = stream \o rest
    /\ rest' = << >>
    /\ UNCHANGED <<now, last_command, enabled, device, unknown, sent, sends,
                   reconnects, result, cut>>

\* The client goes away and another one connects: a new control thread with a
\* new limiter and a new count, the same device and AGC flag.
Reconnect ==
    /\ reconnects < MaxReconnects
    /\ reconnects' = reconnects + 1
    /\ stream' = << >> /\ rest' = << >> /\ sent' = {}
    /\ last_command' \in NewLimiter
    /\ unknown' = 0
    /\ handled' = << >> /\ outcome' = "none" /\ gap' = 0
    /\ prev' = last_command'
    /\ cut' = FALSE
    /\ UNCHANGED <<now, enabled, device, sends, agcStale>>

-----------------------------------------------------------------------------
(* The control thread *)

\* read_exact gives up on a frame that stays incomplete for the read timeout;
\* the bytes it had taken are lost, and the thread reads on.
ReadTimeout ==
    /\ stream # << >>
    /\ Len(stream) < COMMAND_HEADER_SIZE
    /\ Split
    /\ stream' = << >>
    /\ cut' = TRUE
    /\ UNCHANGED <<clientVars, last_command, enabled, device, unknown, result>>

Frame == SubSeq(stream, 1, COMMAND_HEADER_SIZE)
Cmd == stream[1]
Payload == [i \in 1..Width |-> stream[i + 1]]

ReadFrame_Overlaps ==
    /\ Len(stream) >= COMMAND_HEADER_SIZE
    /\ stream' = SubSeq(stream, COMMAND_HEADER_SIZE, Len(stream))
    /\ handled' = Frame
    /\ gap' = now - prev
    /\ UNCHANGED <<clientVars, cut>>

\* read_exact returns a frame.
ReadFrame ==
    /\ Len(stream) >= COMMAND_HEADER_SIZE
    /\ stream' = SubSeq(stream, COMMAND_HEADER_SIZE + 1, Len(stream))
    /\ handled' = Frame
    /\ gap' = now - prev
    /\ UNCHANGED <<clientVars, cut>>

Allowed == now - last_command >= MinInterval

RateLimited_Restarts ==
    /\ ReadFrame
    /\ ~Allowed
    /\ outcome' = "limited"
    /\ last_command' = now
    /\ UNCHANGED <<enabled, device, unknown, prev, agcStale>>

\* RateLimiter::check returns false: the command is skipped.
RateLimited ==
    /\ ReadFrame
    /\ ~Allowed
    /\ outcome' = "limited"
    /\ UNCHANGED <<last_command, enabled, device, unknown, prev, agcStale>>

\* RateLimiter::check returns true, for a command with this operation byte.
PassRateLimit(op) ==
    /\ ReadFrame
    /\ Allowed
    /\ Cmd = op
    /\ last_command' = now
    /\ prev' = now

\* validate_frequency, validate_sample_rate, validate_tuner_gain, validate_ppm
Validates_UpperOnly(field, value) ==
    CASE field = "freq" -> value <= FreqMax
      [] field = "rate" -> value <= RateMax
      [] field = "gain" -> value <= GainMax
      [] field = "ppm" -> value <= PpmMax

Validates(field, value) ==
    CASE field = "freq" -> value \in 0..FreqMax
      [] field = "rate" -> value \in 0..RateMax
      [] field = "gain" -> value \in 0..GainMax
      [] field = "ppm" -> value \in (-PpmMax)..PpmMax

\* A setting is checked and written to the device, which may fail.
Set(op, field, value) ==
    /\ PassRateLimit(op)
    /\ \/ ~Validates(field, value) /\ outcome' = "invalid" /\ UNCHANGED device
       \/ /\ Validates(field, value)
          /\ \/ outcome' = "applied" /\ device' = [device EXCEPT ![field] = value]
             \/ outcome' = "failed" /\ UNCHANGED device
    /\ UNCHANGED <<enabled, unknown, agcStale>>

SetFrequency == Set(CMD_SET_FREQUENCY, "freq", Unsigned(Payload))
SetSampleRate == Set(CMD_SET_SAMPLE_RATE, "rate", Unsigned(Payload))
SetTunerGain == Set(CMD_SET_TUNER_GAIN, "gain", Signed(Payload))
SetPpm == Set(CMD_SET_PPM, "ppm", Signed(Payload))

SwitchAgc_OnlyIfChanged(op, on) ==
    /\ PassRateLimit(op)
    /\ enabled' = on
    /\ \/ /\ outcome' = "applied"
          /\ device' = IF enabled = on THEN device ELSE [device EXCEPT !.agc = on]
          /\ agcStale' = FALSE
       \/ outcome' = "failed" /\ UNCHANGED device /\ agcStale' = TRUE
    /\ UNCHANGED unknown

\* The flag is swapped, and whatever it was the device is told, which may fail.
SwitchAgc(op, on) ==
    /\ PassRateLimit(op)
    /\ enabled' = on
    /\ \/ /\ outcome' = "applied"
          /\ device' = [device EXCEPT !.agc = on]
          /\ agcStale' = FALSE
       \/ outcome' = "failed" /\ UNCHANGED device /\ agcStale' = TRUE
    /\ UNCHANGED unknown

SetGainMode == SwitchAgc(CMD_SET_GAIN_MODE, ~(Signed(Payload) > 0))
SetAgc == SwitchAgc(CMD_SET_AGC, Unsigned(Payload) = 1)

\* The acknowledgement goes to the socket; nothing else changes here.
ChainDetect ==
    /\ PassRateLimit(CMD_CHAIN_DETECT)
    /\ outcome' = "probe"
    /\ UNCHANGED <<enabled, device, unknown, agcStale>>

Unsupported ==
    /\ \E op \in (0..(Base - 1)) \ Known : PassRateLimit(op)
    /\ unknown' = unknown + 1
    /\ outcome' = "unknown"
    /\ UNCHANGED <<enabled, device, agcStale>>

Handle ==
    \/ RateLimited
    \/ SetFrequency \/ SetSampleRate \/ SetGainMode \/ SetTunerGain \/ SetPpm
    \/ SetAgc \/ ChainDetect \/ Unsupported

Next ==
    \/ Tick
    \/ \E frame \in Frames : \E n \in 1..COMMAND_HEADER_SIZE : ClientSends(frame, n)
    \/ ClientResumes
    \/ Reconnect
    \/ ReadTimeout
    \/ Handle

Spec == Init /\ [][Next]_vars

-----------------------------------------------------------------------------
(* Properties *)

Bytes == 0..(Base - 1)
Outcomes == {"none", "limited", "invalid", "applied", "failed", "probe", "unknown"}

\* Type invariant of the command path.
TypeOK ==
    /\ now \in Nat
    /\ stream \in Seq(Bytes)
    /\ rest \in Seq(Bytes)
    /\ last_command \in (-MinInterval)..now
    /\ enabled \in BOOLEAN
    /\ device \in [freq : Int, rate : Int, gain : Int, ppm : Int, agc : BOOLEAN]
    /\ unknown \in Nat
    /\ sent \subseteq Seq(Bytes)
    /\ sends \in Nat
    /\ reconnects \in Nat
    /\ handled \in Seq(Bytes)
    /\ outcome \in Outcomes
    /\ gap \in Nat
    /\ prev \in (-MinInterval)..now
    /\ agcStale \in BOOLEAN
    /\ cut \in BOOLEAN

\* Whatever bytes arrive, however they are framed, the device is never given a
\* setting outside the limits of control.rs.
DeviceInRange ==
    /\ device.freq \in 0..FreqMax
    /\ device.rate \in 0..RateMax
    /\ device.gain \in 0..GainMax
    /\ device.ppm \in (-PpmMax)..PpmMax

\* A frame is dropped by the rate limiter exactly when less than the interval
\* has passed since the last frame it let through on this connection, or since
\* the limiter was made where it could not be dated back: no two commands come
\* closer, and frames that are dropped do not delay later ones.
RateLimitExact == outcome # "none" => (outcome = "limited" <=> gap < MinInterval)

\* The cached AGC flag, which survives reconnections, differs from the device
\* only while the device has not taken the last request: a request repeated
\* after a device error is not swallowed by the cache.
AgcFlagAgrees == agcStale \/ enabled = device.agc

\* Every command handled is a frame that the client sent, however its bytes were
\* split and delayed, unless a read gave up inside a frame earlier on the
\* connection: from then on nothing puts the reader back in step.
FramesIntact == cut \/ (handled # << >> => handled \in sent)
=============================================================================
