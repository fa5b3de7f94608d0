--------------------------- MODULE ControlProofs ---------------------------
(***************************************************************************)
(* Proofs about Control for every width of bytes and payloads, every set   *)
(* of limits, every rate limit and every set of frames.                    *)
(***************************************************************************)
EXTENDS Control, Framing, TLAPS

\* The limiter remembers exactly the last frame it let through.
LimiterInv == last_command = prev

\* The inductive invariant of the command path.
ControlInv ==
    /\ TypeOK
    /\ DeviceInRange
    /\ LimiterInv
    /\ RateLimitExact
    /\ AgcFlagAgrees

\* What the reader has still to get of the connection's bytes.
Pending == stream \o rest

\* The inductive invariant of the framing: until a read gives up, what is pending
\* consists of whole frames that were sent, so that every read begins with one.
FrameInv ==
    /\ sent \subseteq Frames
    /\ cut \/ Framed(Pending, COMMAND_HEADER_SIZE, sent)
    /\ FramesIntact

\* Part of a sequence of bytes is a sequence of bytes.
LEMMA SubSeqBytes ==
    ASSUME NEW s \in Seq(Bytes), NEW m \in Nat \ {0}, NEW n \in 0..Len(s)
    PROVE  SubSeq(s, m, n) \in Seq(Bytes)
OBVIOUS

\* A frame is a sequence of COMMAND_HEADER_SIZE bytes.
LEMMA FrameBytes ==
    ASSUME NEW frame \in Frames
    PROVE  frame \in Seq(Bytes) /\ Len(frame) = COMMAND_HEADER_SIZE
<1>1. frame \in [1..(Width + 1) -> Bytes] /\ Width + 1 \in Nat
  BY InputsAssumption, WidthsAssumption DEF Bytes
<1> QED
  BY <1>1 DEF COMMAND_HEADER_SIZE

\* The initial states satisfy the inductive invariant.
LEMMA InitInv == Init => ControlInv
<1> SUFFICES ASSUME Init PROVE ControlInv
  OBVIOUS
<1>1. << >> \in Seq(Bytes) /\ last_command \in (-MinInterval)..0
  BY LimitsAssumption DEF Init, NewLimiter
<1>2. PICK a \in BOOLEAN : device = [freq |-> 0, rate |-> 0, gain |-> 0, ppm |-> 0, agc |-> a]
  BY DEF Init
<1>3. /\ agcStale \in BOOLEAN /\ cut \in BOOLEAN
      /\ agcStale \/ enabled = device.agc
  BY <1>2, Zenon DEF Init
<1>4. DeviceInRange
  BY <1>2, LimitsAssumption DEF DeviceInRange
<1>5. TypeOK
  BY <1>1, <1>2, <1>3 DEF Init, TypeOK, Outcomes
<1> QED
  BY <1>3, <1>4, <1>5 DEF Init, ControlInv, LimiterInv, RateLimitExact, AgcFlagAgrees

\* What reading a frame leaves of the types: the state of the socket and of the
\* history variables that ReadFrame sets.
LEMMA ReadFrameTypes ==
    ASSUME TypeOK, ReadFrame
    PROVE  /\ stream' \in Seq(Bytes)
           /\ handled' \in Seq(Bytes)
           /\ gap' \in Nat
           /\ gap' = now - prev
           /\ now' = now /\ now' \in Nat
           /\ rest' \in Seq(Bytes) /\ sent' \subseteq Seq(Bytes)
           /\ sends' \in Nat /\ reconnects' \in Nat
           /\ cut' \in BOOLEAN
<1> USE DEF TypeOK
<1>1. COMMAND_HEADER_SIZE \in Nat \ {0}
  BY WidthsAssumption DEF COMMAND_HEADER_SIZE
<1>2. stream' \in Seq(Bytes) /\ handled' \in Seq(Bytes)
  BY <1>1, SubSeqBytes DEF ReadFrame, Frame
<1>3. gap' \in Nat /\ gap' = now - prev
  BY LimitsAssumption DEF ReadFrame
<1> QED
  BY <1>2, <1>3 DEF ReadFrame, clientVars

\* A frame that is handled keeps the parts of the invariant that concern the
\* limiter, given what its outcome is.
LEMMA PassKeepsLimiter ==
    ASSUME ControlInv, NEW op, PassRateLimit(op),
           outcome' \in Outcomes \ {"none", "limited"}
    PROVE  /\ last_command' \in (-MinInterval)..now'
           /\ prev' \in (-MinInterval)..now'
           /\ outcome' \in Outcomes
           /\ LimiterInv' /\ RateLimitExact'
<1>1. /\ last_command' = now /\ prev' = now /\ now' = now /\ now \in Nat
      /\ gap' = now - prev
  BY ReadFrameTypes DEF ControlInv, PassRateLimit, TypeOK
<1>2. now - prev >= MinInterval
  BY DEF PassRateLimit, Allowed, ControlInv, LimiterInv
<1>3. MinInterval \in Nat /\ prev \in Int
  BY LimitsAssumption DEF ControlInv, TypeOK
<1>4. RateLimitExact'
  BY <1>1, <1>2, <1>3 DEF RateLimitExact
<1> QED
  BY <1>1, <1>3, <1>4 DEF LimiterInv

\* A command that sets a field of the device keeps the inductive invariant.
LEMMA SetInv ==
    ASSUME ControlInv, NEW op, NEW field \in {"freq", "rate", "gain", "ppm"},
           NEW value, Set(op, field, value)
    PROVE  ControlInv'
<1>1. PassRateLimit(op) /\ ReadFrame /\ TypeOK
  BY DEF Set, PassRateLimit, ControlInv
<1>2. outcome' \in Outcomes \ {"none", "limited"}
  BY DEF Set, Outcomes
<1>3. enabled' = enabled /\ unknown' = unknown /\ agcStale' = agcStale
  BY DEF Set
<1>4. /\ device' \in [freq : Int, rate : Int, gain : Int, ppm : Int, agc : BOOLEAN]
      /\ DeviceInRange'
      /\ device'.agc = device.agc
  <2>1. CASE device' = device
    BY <2>1 DEF ControlInv, TypeOK, DeviceInRange
  <2>2. CASE Validates(field, value) /\ device' = [device EXCEPT ![field] = value]
    <3>0. /\ device \in [freq : Int, rate : Int, gain : Int, ppm : Int, agc : BOOLEAN]
          /\ DeviceInRange
      BY DEF ControlInv, TypeOK
    <3>1. CASE field = "freq"
      <4>1. value \in 0..FreqMax
        BY <3>1, <2>2 DEF Validates
      <4>2. device' = [device EXCEPT !.freq = value]
        BY <3>1, <2>2
      <4>3. device' \in [freq : Int, rate : Int, gain : Int, ppm : Int, agc : BOOLEAN]
        BY <3>0, <4>1, <4>2, LimitsAssumption
      <4>4. DeviceInRange'
        BY <3>0, <4>1, <4>2 DEF DeviceInRange
      <4>5. device'.agc = device.agc
        BY <3>0, <4>2
      <4> QED
        BY <4>3, <4>4, <4>5
    <3>2. CASE field = "rate"
      <4>1. value \in 0..RateMax
        BY <3>2, <2>2 DEF Validates
      <4>2. device' = [device EXCEPT !.rate = value]
        BY <3>2, <2>2
      <4>3. device' \in [freq : Int, rate : Int, gain : Int, ppm : Int, agc : BOOLEAN]
        BY <3>0, <4>1, <4>2, LimitsAssumption
      <4>4. DeviceInRange'
        BY <3>0, <4>1, <4>2 DEF DeviceInRange
      <4>5. device'.agc = device.agc
        BY <3>0, <4>2
      <4> QED
        BY <4>3, <4>4, <4>5
    <3>3. CASE field = "gain"
      <4>1. value \in 0..GainMax
        BY <3>3, <2>2 DEF Validates
      <4>2. device' = [device EXCEPT !.gain = value]
        BY <3>3, <2>2
      <4>3. device' \in [freq : Int, rate : Int, gain : Int, ppm : Int, agc : BOOLEAN]
        BY <3>0, <4>1, <4>2, LimitsAssumption
      <4>4. DeviceInRange'
        BY <3>0, <4>1, <4>2 DEF DeviceInRange
      <4>5. device'.agc = device.agc
        BY <3>0, <4>2
      <4> QED
        BY <4>3, <4>4, <4>5
    <3>4. CASE field = "ppm"
      <4>1. value \in (-PpmMax)..PpmMax
        BY <3>4, <2>2 DEF Validates
      <4>2. device' = [device EXCEPT !.ppm = value]
        BY <3>4, <2>2
      <4>3. device' \in [freq : Int, rate : Int, gain : Int, ppm : Int, agc : BOOLEAN]
        BY <3>0, <4>1, <4>2, LimitsAssumption
      <4>4. DeviceInRange'
        BY <3>0, <4>1, <4>2 DEF DeviceInRange
      <4>5. device'.agc = device.agc
        BY <3>0, <4>2
      <4> QED
        BY <4>3, <4>4, <4>5
    <3> QED
      BY <3>1, <3>2, <3>3, <3>4
  <2> QED
    BY <2>1, <2>2 DEF Set
<1>5. AgcFlagAgrees'
  BY <1>3, <1>4 DEF AgcFlagAgrees, ControlInv
<1> QED
  BY <1>1, <1>2, <1>3, <1>4, <1>5, ReadFrameTypes, PassKeepsLimiter
  DEF ControlInv, TypeOK

\* A command that switches AGC keeps the inductive invariant.
LEMMA SwitchAgcInv ==
    ASSUME ControlInv, NEW op, NEW on \in BOOLEAN, SwitchAgc(op, on)
    PROVE  ControlInv'
<1>1. PassRateLimit(op) /\ ReadFrame /\ TypeOK
  BY DEF SwitchAgc, PassRateLimit, ControlInv
<1>2. outcome' \in Outcomes \ {"none", "limited"}
  BY DEF SwitchAgc, Outcomes
<1>3. enabled' = on /\ unknown' = unknown /\ agcStale' \in BOOLEAN
  BY DEF SwitchAgc
<1>4. CASE device' = [device EXCEPT !.agc = on]
  <2>1. /\ device' \in [freq : Int, rate : Int, gain : Int, ppm : Int, agc : BOOLEAN]
        /\ DeviceInRange' /\ device'.agc = on
    BY <1>4 DEF ControlInv, TypeOK, DeviceInRange
  <2>2. AgcFlagAgrees'
    BY <2>1, <1>3 DEF AgcFlagAgrees
  <2> QED
    BY <1>1, <1>2, <1>3, <2>1, <2>2, ReadFrameTypes, PassKeepsLimiter
    DEF ControlInv, TypeOK
<1>5. CASE device' = device /\ agcStale'
  <2>1. /\ device' \in [freq : Int, rate : Int, gain : Int, ppm : Int, agc : BOOLEAN]
        /\ DeviceInRange' /\ AgcFlagAgrees'
    BY <1>5 DEF ControlInv, TypeOK, DeviceInRange, AgcFlagAgrees
  <2> QED
    BY <1>1, <1>2, <1>3, <2>1, ReadFrameTypes, PassKeepsLimiter DEF ControlInv, TypeOK
<1> QED
  BY <1>4, <1>5 DEF SwitchAgc

\* Every step keeps the inductive invariant.
LEMMA NextInv == ControlInv /\ [Next]_vars => ControlInv'
<1> SUFFICES ASSUME ControlInv, [Next]_vars PROVE ControlInv'
  OBVIOUS
<1>0. TypeOK /\ DeviceInRange /\ LimiterInv /\ RateLimitExact /\ AgcFlagAgrees
  BY DEF ControlInv
<1>1. CASE Tick
  <2>1. TypeOK'
    BY <1>0, <1>1, LimitsAssumption DEF Tick, TypeOK, result
  <2> QED
    BY <2>1, <1>0, <1>1 DEF Tick, result, ControlInv, DeviceInRange, LimiterInv,
       RateLimitExact, AgcFlagAgrees
<1>2. ASSUME NEW frame \in Frames, NEW n \in 1..COMMAND_HEADER_SIZE, ClientSends(frame, n)
      PROVE  ControlInv'
  <2>1. frame \in Seq(Bytes) /\ Len(frame) = COMMAND_HEADER_SIZE
    BY FrameBytes
  <2>2. SubSeq(frame, 1, n) \in Seq(Bytes) /\ SubSeq(frame, n + 1, Len(frame)) \in Seq(Bytes)
    BY <2>1, SubSeqBytes, WidthsAssumption DEF COMMAND_HEADER_SIZE
  <2>3. stream' \in Seq(Bytes) /\ rest' \in Seq(Bytes) /\ sent' \subseteq Seq(Bytes)
    <3>1. /\ stream' = stream \o SubSeq(frame, 1, n) /\ stream \in Seq(Bytes)
          /\ rest' = SubSeq(frame, n + 1, Len(frame))
          /\ sent' = sent \cup {frame} /\ sent \subseteq Seq(Bytes)
      BY <1>0, <1>2 DEF ClientSends, TypeOK
    <3>2. sent' \subseteq Seq(Bytes)
      BY <3>1, <2>1
    <3>3. stream' \in Seq(Bytes)
      BY <3>1, <2>2
    <3> QED
      BY <3>1, <3>2, <3>3, <2>2
  <2>4. TypeOK'
    BY <1>0, <1>2, <2>3 DEF ClientSends, TypeOK, result
  <2> QED
    BY <2>4, <1>0, <1>2 DEF ClientSends, result, ControlInv, DeviceInRange,
       LimiterInv, RateLimitExact, AgcFlagAgrees
<1>3. CASE ClientResumes
  <2>1. TypeOK'
    BY <1>0, <1>3 DEF ClientResumes, TypeOK, result
  <2> QED
    BY <2>1, <1>0, <1>3 DEF ClientResumes, result, ControlInv, DeviceInRange,
       LimiterInv, RateLimitExact, AgcFlagAgrees
<1>4. CASE Reconnect
  <2>1. << >> \in Seq(Bytes) /\ last_command' \in (-MinInterval)..now
    BY <1>0, <1>4, LimitsAssumption DEF Reconnect, NewLimiter, TypeOK
  <2>2. cut' \in BOOLEAN
    BY <1>4, Zenon DEF Reconnect
  <2>3. TypeOK'
    BY <1>0, <1>4, <2>1, <2>2 DEF Reconnect, TypeOK, Outcomes
  <2> QED
    BY <2>3, <1>0, <1>4 DEF Reconnect, ControlInv, DeviceInRange,
       LimiterInv, RateLimitExact, AgcFlagAgrees
<1>5. CASE ReadTimeout
  <2>1. TypeOK'
    BY <1>0, <1>5 DEF ReadTimeout, clientVars, TypeOK, result
  <2> QED
    BY <2>1, <1>0, <1>5 DEF ReadTimeout, clientVars, result, ControlInv,
       DeviceInRange, LimiterInv, RateLimitExact, AgcFlagAgrees
<1>6. CASE RateLimited
  <2>1. ReadFrame /\ outcome' = "limited" /\ ~Allowed
    BY <1>6 DEF RateLimited
  <2>2. TypeOK'
    BY <1>0, <1>6, <2>1, ReadFrameTypes DEF RateLimited, TypeOK, Outcomes
  <2>3. gap' < MinInterval
    BY <1>0, <2>1, ReadFrameTypes, LimitsAssumption DEF Allowed, LimiterInv, TypeOK
  <2> QED
    BY <2>1, <2>2, <2>3, <1>0, <1>6 DEF RateLimited, ControlInv, DeviceInRange,
       LimiterInv, RateLimitExact, AgcFlagAgrees
<1>7. CASE SetFrequency \/ SetSampleRate \/ SetTunerGain \/ SetPpm
  BY <1>7, SetInv DEF SetFrequency, SetSampleRate, SetTunerGain, SetPpm
<1>8. CASE SetGainMode \/ SetAgc
  <2>1. (~(Signed(Payload) > 0)) \in BOOLEAN /\ (Unsigned(Payload) = 1) \in BOOLEAN
    OBVIOUS
  <2> QED
    BY <1>8, <2>1, SwitchAgcInv DEF SetGainMode, SetAgc
<1>9. CASE ChainDetect
  <2>1. PassRateLimit(CMD_CHAIN_DETECT) /\ ReadFrame
    BY <1>9 DEF ChainDetect, PassRateLimit
  <2>2. outcome' \in Outcomes \ {"none", "limited"}
    BY <1>9 DEF ChainDetect, Outcomes
  <2> QED
    BY <1>0, <1>9, <2>1, <2>2, ReadFrameTypes, PassKeepsLimiter
    DEF ChainDetect, ControlInv, TypeOK, DeviceInRange, AgcFlagAgrees
<1>10. CASE Unsupported
  <2>1. PICK op \in (0..(Base - 1)) \ Known : PassRateLimit(op)
    BY <1>10 DEF Unsupported
  <2>2. ReadFrame
    BY <2>1 DEF PassRateLimit
  <2>3. outcome' \in Outcomes \ {"none", "limited"}
    BY <1>10 DEF Unsupported, Outcomes
  <2>4. /\ last_command' \in (-MinInterval)..now' /\ prev' \in (-MinInterval)..now'
        /\ LimiterInv' /\ RateLimitExact'
    BY <2>1, <2>3, PassKeepsLimiter
  <2>5. unknown' = unknown + 1 /\ UNCHANGED <<enabled, device, agcStale>>
    BY <1>10 DEF Unsupported
  <2>6. TypeOK'
    BY <1>0, <2>2, <2>3, <2>4, <2>5, ReadFrameTypes DEF TypeOK
  <2> QED
    BY <1>0, <2>4, <2>5, <2>6 DEF ControlInv, DeviceInRange, AgcFlagAgrees
<1>11. CASE UNCHANGED vars
  BY <1>0, <1>11 DEF vars, ControlInv, TypeOK, DeviceInRange, LimiterInv,
     RateLimitExact, AgcFlagAgrees
<1> QED
  BY <1>1, <1>2, <1>3, <1>4, <1>5, <1>6, <1>7, <1>8, <1>9, <1>10, <1>11
  DEF Next, Handle

\* ControlInv is an invariant of the command path.
THEOREM Invariance == Spec => []ControlInv
BY InitInv, NextInv, PTL DEF Spec

\* Type correctness of the command path, for bytes of any base.
THEOREM TypeCorrect == Spec => []TypeOK
BY Invariance, PTL DEF ControlInv

\* For every width and all limits, and however a client's bytes are cut and
\* framed, the device is only given settings within the limits of control.rs.
THEOREM SettingsInRange == Spec => []DeviceInRange
BY Invariance, PTL DEF ControlInv

\* The rate limiter drops a frame exactly when it comes too soon after the last
\* one it let through, for every interval.
THEOREM LimiterIsExact == Spec => []RateLimitExact
BY Invariance, PTL DEF ControlInv

\* The AGC flag differs from the device only while the last request has failed.
THEOREM AgcAgrees == Spec => []AgcFlagAgrees
BY Invariance, PTL DEF ControlInv

-----------------------------------------------------------------------------
(* Framing *)

\* In the initial states nothing is pending.
LEMMA InitFrames == Init => FrameInv
<1> SUFFICES ASSUME Init PROVE FrameInv
  OBVIOUS
<1>1. sent = {} /\ handled = << >> /\ Pending = << >>
  BY DEF Init, Pending
<1> QED
  BY <1>1, FramedEmpty DEF FrameInv, FramesIntact

\* A frame that is sent is added to what is pending, wherever it is cut in two.
LEMMA SendsPending ==
    ASSUME TypeOK, NEW frame \in Frames, NEW n \in 1..COMMAND_HEADER_SIZE,
           ClientSends(frame, n)
    PROVE  Pending \in Seq(Bytes) /\ Pending' = Pending \o frame
<1>1. frame \in Seq(Bytes) /\ Len(frame) = COMMAND_HEADER_SIZE
  BY FrameBytes
<1>2. n \in 0..Len(frame) /\ Len(frame) \in Nat
  BY <1>1, WidthsAssumption DEF COMMAND_HEADER_SIZE
<1> DEFINE a == SubSeq(frame, 1, n)
           c == SubSeq(frame, n + 1, Len(frame))
<1>3. a \in Seq(Bytes) /\ c \in Seq(Bytes) /\ a \o c = frame
  BY <1>1, <1>2, SubSeqBytes, CutAndJoin
<1>4. stream \in Seq(Bytes) /\ Pending = stream
  BY DEF ClientSends, TypeOK, Pending
<1>5. Pending' = (stream \o a) \o c
  BY DEF ClientSends, Pending
<1>6. \A s, t, u \in Seq(Bytes) : (s \o t) \o u = s \o (t \o u)
  BY JoinAssociative
<1> HIDE DEF a, c
<1> QED
  BY <1>3, <1>4, <1>5, <1>6

\* A read takes a frame off what is pending.
LEMMA ReadsPending ==
    ASSUME TypeOK, ReadFrame
    PROVE  /\ Pending \in Seq(Bytes) /\ Pending # << >>
           /\ handled' = SubSeq(Pending, 1, COMMAND_HEADER_SIZE)
           /\ Pending' = SubSeq(Pending, COMMAND_HEADER_SIZE + 1, Len(Pending))
<1> DEFINE H == COMMAND_HEADER_SIZE
           a == SubSeq(stream, 1, H)
           c == SubSeq(stream, H + 1, Len(stream))
<1>1. H \in Nat \ {0} /\ stream \in Seq(Bytes) /\ rest \in Seq(Bytes)
  BY WidthsAssumption DEF COMMAND_HEADER_SIZE, TypeOK
<1>2. Len(stream) >= H /\ handled' = a /\ Pending' = c \o rest
  BY DEF ReadFrame, Frame, clientVars, Pending
<1>3. H \in 0..Len(stream)
  BY <1>1, <1>2
<1>4. a \in Seq(Bytes) /\ Len(a) = H /\ c \in Seq(Bytes) /\ a \o c = stream
  <2>1. a \in Seq(Bytes) /\ Len(a) = H
    BY <1>1, <1>3
  <2>2. c \in Seq(Bytes)
    BY <1>1, <1>3
  <2>3. a \o c = stream
    BY <1>1, <1>3, CutAndJoin
  <2> QED
    BY <2>1, <2>2, <2>3
<1> HIDE DEF a, c
<1>5. Pending = a \o (c \o rest)
  <2>1. Pending = (a \o c) \o rest
    BY <1>4 DEF Pending
  <2>2. \A s, t, u \in Seq(Bytes) : (s \o t) \o u = s \o (t \o u)
    BY JoinAssociative
  <2> QED
    BY <2>1, <2>2, <1>1, <1>4
<1>6. c \o rest \in Seq(Bytes)
  BY <1>1, <1>4
<1>7. /\ Pending \in Seq(Bytes) /\ SubSeq(Pending, 1, H) = a
      /\ SubSeq(Pending, H + 1, Len(Pending)) = c \o rest
  <2>1. \A s, t \in Seq(Bytes) :
            /\ s \o t \in Seq(Bytes)
            /\ SubSeq(s \o t, 1, Len(s)) = s
            /\ SubSeq(s \o t, Len(s) + 1, Len(s \o t)) = t
    BY JoinAndCut
  <2> QED
    BY <2>1, <1>4, <1>5, <1>6
<1>8. Pending # << >>
  <2>1. Len(Pending) >= H
    BY <1>4, <1>5, <1>6, ConcatElements
  <2> QED
    BY <2>1, <1>1
<1> QED
  BY <1>2, <1>7, <1>8

\* Every step keeps the reader in step with the frames, until a read gives up.
LEMMA NextFrames == ControlInv /\ FrameInv /\ [Next]_vars => FrameInv'
<1> SUFFICES ASSUME ControlInv, FrameInv, [Next]_vars PROVE FrameInv'
  OBVIOUS
<1> DEFINE H == COMMAND_HEADER_SIZE
<1>0. /\ TypeOK
      /\ sent \subseteq Frames
      /\ cut \/ Framed(Pending, H, sent)
      /\ cut \/ (handled # << >> => handled \in sent)
  BY DEF ControlInv, FrameInv, FramesIntact
<1>h. H \in Nat \ {0}
  BY WidthsAssumption DEF COMMAND_HEADER_SIZE
<1>1. CASE Tick \/ UNCHANGED vars
  <2>1. stream' = stream /\ rest' = rest /\ sent' = sent /\ cut' = cut /\ handled' = handled
    BY <1>1 DEF Tick, vars, result
  <2>2. Pending' = Pending
    BY <2>1 DEF Pending
  <2> QED
    BY <2>1, <2>2, <1>0 DEF FrameInv, FramesIntact
<1>2. ASSUME NEW frame \in Frames, NEW n \in 1..COMMAND_HEADER_SIZE, ClientSends(frame, n)
      PROVE  FrameInv'
  <2>1. sent' = sent \cup {frame} /\ cut' = cut /\ handled' = handled
    BY <1>2 DEF ClientSends, result
  <2>2. CASE Framed(Pending, H, sent)
    <3>1. Pending \in Seq(Bytes) /\ Pending' = Pending \o frame
      BY <1>0, <1>2, SendsPending
    <3>2. frame \in Seq(Bytes) /\ Len(frame) = H /\ frame \in sent'
      BY <2>1, FrameBytes
    <3>3. Framed(Pending, H, sent')
      BY <2>1, <2>2, FramedMore
    <3>4. Framed(Pending', H, sent')
      BY <3>1, <3>2, <3>3, <1>h, FramedAppend
    <3> QED
      BY <3>4, <2>1, <1>0 DEF FrameInv, FramesIntact
  <2> QED
    BY <2>1, <2>2, <1>0 DEF FrameInv, FramesIntact
<1>3. CASE ClientResumes
  <2>1. sent' = sent /\ cut' = cut /\ handled' = handled
    BY <1>3 DEF ClientResumes, result
  <2>2. Pending' = Pending
    BY <1>0, <1>3 DEF ClientResumes, Pending, TypeOK
  <2> QED
    BY <1>0, <2>1, <2>2 DEF FrameInv, FramesIntact
<1>4. CASE Reconnect
  <2>1. sent' = {} /\ handled' = << >> /\ Pending' = << >>
    BY <1>4 DEF Reconnect, Pending
  <2> QED
    BY <2>1, FramedEmpty DEF FrameInv, FramesIntact
<1>5. CASE ReadTimeout
  BY <1>0, <1>5 DEF ReadTimeout, clientVars, FrameInv, FramesIntact
<1>6. CASE Handle
  <2>1. ReadFrame
    BY <1>6 DEF Handle, RateLimited, SetFrequency, SetSampleRate, SetGainMode, SetTunerGain,
       SetPpm, SetAgc, ChainDetect, Unsupported, Set, SwitchAgc, PassRateLimit
  <2>2. sent' = sent /\ cut' = cut
    BY <2>1 DEF ReadFrame, clientVars
  <2>3. CASE Framed(Pending, H, sent)
    <3>1. \A f \in sent : f \in Seq(Bytes) /\ Len(f) = H
      BY <1>0, FrameBytes
    <3>2. /\ Pending \in Seq(Bytes) /\ Pending # << >>
          /\ handled' = SubSeq(Pending, 1, H)
          /\ Pending' = SubSeq(Pending, H + 1, Len(Pending))
      BY <1>0, <2>1, ReadsPending
    <3>3. handled' \in sent /\ Framed(Pending', H, sent)
      BY <3>1, <3>2, <2>3, <1>h, FramedRead
    <3> QED
      BY <3>3, <2>2, <1>0 DEF FrameInv, FramesIntact
  <2> QED
    BY <2>2, <2>3, <1>0 DEF FrameInv, FramesIntact
<1> QED
  BY <1>1, <1>2, <1>3, <1>4, <1>5, <1>6 DEF Next

\* However a client's bytes are cut and delayed, and whatever the width of a
\* frame, each command handled is one the client sent, as long as no read has
\* given up inside a frame on the connection.
THEOREM FramesStayIntact == Spec => []FramesIntact
<1>1. Spec => [](ControlInv /\ FrameInv)
  BY InitInv, NextInv, InitFrames, NextFrames, PTL DEF Spec
<1>2. FrameInv => FramesIntact
  BY DEF FrameInv
<1> QED
  BY <1>1, <1>2, PTL
=============================================================================
