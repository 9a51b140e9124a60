---------------------------- MODULE PureFunctions ----------------------------
(***************************************************************************)
(* The pure functions of the code, each called with all arguments up to    *)
(* the bounds: a behaviour is one call.                                    *)
(***************************************************************************)
EXTENDS SfuCalls, NodeCalls, RoundTrip

CONSTANTS
    MaxSide,   \* bound on the sides of a frame; its bytes are 0 or 1
    MaxFrames  \* bound on the frames, or packets, of a stream

\* What is counted in a payload fits into four bytes, and there are numbers enough
\* for the fragments of two frames.
ASSUME ParameterAssumption ==
    /\ MaxSide \in Nat /\ MaxSide * MaxSide < ByteSpace * ByteSpace * ByteSpace * ByteSpace
    /\ MaxFrames \in Nat /\ SeqSpace > 5

------------------------------------------------------------------------------
(* verify: frames are encoded, packetized, unpacked and decoded.  What is  *)
(* between sender and receiver is not part of the repository: it loses,    *)
(* reorders, repeats or alters packets.                                    *)

\* Frames with planes as frame.rs describes them: each chroma plane has half
\* the width and half the height, rounded up.
Frames(width, height) ==
    [width : {width}, height : {height}, keyframe : {0, 1},
     data : [1 .. width * height + 2 * CeilDiv(width, 2) * CeilDiv(height, 2) -> {0, 1}]]

RoundTripCalls ==
    [fn : {"round_trip"},
     frame : UNION {Frames(w, h) : w \in 1 .. MaxSide, h \in 1 .. MaxSide}]

AlteredCalls ==
    [fn : {"altered"}, frame : {f \in Frames(MaxSide, MaxSide) : f.keyframe = 1},
     at : 1 .. 16 + 8 * MaxSide * MaxSide, to : 0 .. ByteSpace - 1]

Encoded(frame) == CHOOSE payload \in Encode(frame) : TRUE

MayAlter(c) ==
    LET payload == Encoded(c.frame)
        at == HeaderLen + c.at
    IN  at <= Len(payload) /\ payload[at] # c.to

Decoded(c) ==
    UNION {Decode(IF c.fn = "altered" THEN [payload EXCEPT ![HeaderLen + c.at] = c.to]
                                      ELSE payload) : payload \in Encode(c.frame)}

\* A stream of frames, two of which are different; samples is 1 for video, and a
\* frame's worth for audio.
StreamCalls ==
    [fn : {"receive"}, frames : UNION {[1 .. n -> {0, 1}] : n \in 1 .. MaxFrames},
     arrivals : UNION {[1 .. n -> 1 .. MaxFrames] : n \in 0 .. MaxFrames},
     seq : {0, SeqSpace - 1}, ts : {0, TsSpace - 1}, samples : {1, TsStep}]

FrameOf(b) == [width |-> 2, height |-> 2, keyframe |-> b, data |-> <<0, b, b, 0, 1, b>>]

SentPackets(c) ==
    SendAll([ssrc |-> 1, payload_type |-> 96, next_seq |-> c.seq, next_ts |-> c.ts],
            [i \in DOMAIN c.frames |-> [data |-> Encoded(FrameOf(c.frames[i])),
                                       marker |-> TRUE, samples |-> c.samples]])

Received(c) ==
    LET wire(packet) == CHOOSE w \in Marshal(packet) : TRUE
        arrived == [i \in DOMAIN c.arrivals |-> wire(SentPackets(c)[c.arrivals[i]])]
        unpacked == Unpack([i \in DOMAIN arrived |->
                               CHOOSE packet \in Unmarshal(arrived[i]) : TRUE])
    IN  [i \in DOMAIN unpacked |-> Decode(unpacked[i].data)]

\* unpack for any packets of two streams: the fragments of two frames each, three
\* for a frame, which are numbered as they were sent.
FragmentNumber(first, t, n) == (first + 3 * t + n) % SeqSpace

Fragments(first) ==
    {[ssrc |-> s, timestamp |-> t, sequence_number |-> FragmentNumber(first, t, n),
      marker |-> n = 2, payload |-> <<s, t, n>>] : s \in 1 .. 2, t \in 0 .. 1, n \in 0 .. 2}

UnpackCalls ==
    UNION {[fn : {"unpack"}, first : {first},
            packets : UNION {[1 .. n -> Fragments(first)] : n \in 0 .. MaxFrames}] :
              first \in {0, SeqSpace - 4}}

\* Packets of any header; the program sends version 2 and types below 128 only.
WireCalls ==
    [fn : {"wire"},
     packet : [version : {Version}, marker : BOOLEAN, payload_type : {0, 63, 64, 127, 128, 255},
               sequence_number : {0, SeqSpace - 1}, timestamp : {0, TsSpace - 1},
               ssrc : 0 .. 1, payload : {<<>>, <<1, 2>>}]]

Sounds == [rate : {0, 3}, channels : 0 .. 2,
           data : UNION {[1 .. n -> {0, 1}] : n \in 0 .. 4 * FrameSamples}]

SoundCalls == [fn : {"sound"}, sound : Sounds]

AlteredSoundCalls ==
    [fn : {"altered_sound"}, sound : {s \in Sounds : EncodeAudio(s) # {}},
     at : 1 .. AudioHeaderLen + 2 * FrameSamples, to : 0 .. HashSpace - 1]

\* Up to one frame more than there are time stamps.
VerifyCalls == [fn : {"verify"}, codec : Codecs, frames : 0 .. TsSpace + 1]

EncodedSound(c) == CHOOSE payload \in EncodeAudio(c.sound) : TRUE

Heard(c) ==
    UNION {DecodeAudio(IF c.fn = "sound" THEN payload ELSE [payload EXCEPT ![c.at] = c.to]) :
              payload \in EncodeAudio(c.sound)}

------------------------------------------------------------------------------
MayAlterSound(c) ==
    /\ c.at <= Len(EncodedSound(c)) /\ EncodedSound(c)[c.at] # c.to
    /\ c.at > AudioHeaderLen => c.to < ByteSpace

MediaInit ==
    \/ call \in RoundTripCalls
    \/ call \in AlteredCalls /\ MayAlter(call)
    \/ call \in StreamCalls /\ Range(call.arrivals) \subseteq DOMAIN call.frames
    \/ call \in UnpackCalls /\ IsInjective(call.packets)
    \/ call \in WireCalls
    \/ call \in SoundCalls
    \/ call \in AlteredSoundCalls /\ MayAlterSound(call)
    \/ call \in VerifyCalls

MediaNext ==
    \/ call.fn \in {"round_trip", "altered"} /\ result' = {Decoded(call)}
    \/ call.fn = "receive" /\ result' = {Received(call)}
    \/ call.fn = "unpack" /\ result' = {Unpack(call.packets)}
    \/ call.fn = "wire" /\ result' = {UNION {Unmarshal(w) : w \in Marshal(call.packet)}}
    \/ call.fn \in {"sound", "altered_sound"} /\ result' = {Heard(call)}
    \/ call.fn = "verify" /\ result' = {Verify(call.codec, call.frames)}

Init == (SfuInit \/ NodeInit \/ MediaInit) /\ result = {}

Next == result = {} /\ (SfuNext \/ NodeNext \/ MediaNext) /\ UNCHANGED call

Spec == Init /\ [][Next]_vars

------------------------------------------------------------------------------
(* Properties. *)

\* A sound in whole frames of 20 ms, its unsaid channels filled in.  No other sound
\* is taken, and none without a rate, which Frame::kind takes for a picture.
Taken(sound) ==
    LET frame == FrameSamples * (IF sound.channels = 2 THEN 4 ELSE 2) IN
    IF sound.rate = 0 \/ sound.data = <<>> \/ Len(sound.data) % frame # 0 THEN {}
    ELSE {[rate |-> sound.rate, channels |-> IF sound.channels = 2 THEN 2 ELSE 1,
           data |-> sound.data]}

\* Encoding and decoding a frame or a sound gives it back, byte for byte, and so
\* does putting a packet on the wire; what must not be sent is refused.  The
\* frame's sides must be even: the codecs take a quarter of the luma plane for
\* each chroma plane, so of a frame with an odd side less comes back.
Lossless ==
    \A r \in result :
        /\ (call.fn = "round_trip" /\ call.frame.width % 2 = 0 /\ call.frame.height % 2 = 0)
              => r = {call.frame}
        /\ call.fn = "sound" => r = Taken(call.sound)
        /\ call.fn = "wire" => r = {p \in {call.packet} : p.payload_type < 128 /\ p.ssrc # 0}

\* A payload of which one byte of the body was altered is not decoded.  Of a sound
\* a number of the header may be altered too, unless it is its rate.
AlterationDetected ==
    \A r \in result :
        (call.fn = "altered" \/ (call.fn = "altered_sound" /\ call.at # 2)) => r = {}

\* The program's own check passes for every codec, for any number of frames while
\* no two of them have the same time stamp.
CheckPasses ==
    \A r \in result : call.fn = "verify" =>
        LET step == IF IsVideo(call.codec) THEN 1 ELSE FrameSamples
            sent == 0 .. call.frames - 1
        IN  (\E report \in r : Ok(report)) <=>
                (call.frames # 0 /\ \A i, j \in sent :
                    (i * step) % TsSpace = (j * step) % TsSpace => i = j)

\* A frame, a sound or a packet is taken as it was sent, or not at all, and the
\* check that comes with the program finds nothing else.
IntactOrRefused == Lossless /\ AlterationDetected /\ CheckPasses

\* Whatever was lost, repeated or reordered, the frames of a stream come out in
\* the order in which they were sent, each as it was; one that came twice is
\* dropped.  The time stamp must not have wrapped around on the way: unpack
\* sorts by it.
FramesInOrder ==
    \A r \in result :
        (call.fn = "receive" /\ call.ts + call.samples * (Len(call.frames) - 1) < TsSpace) =>
            LET came == Range(call.arrivals)
                place(i) == Cardinality({j \in came : j <= i})
                Times(i) == Cardinality({k \in DOMAIN call.arrivals : call.arrivals[k] = i})
            IN  /\ Len(r) = Cardinality(came)
                /\ \A i \in came :
                      r[place(i)] = IF Times(i) = 1 THEN {FrameOf(call.frames[i])} ELSE {}

\* The fragments of a frame are put together in the order in which they were sent,
\* as many of them as came, and the frames come out by stream and time, whatever
\* the order of arrival and however the streams mingled.  The numbers must not have
\* wrapped around within the frame: unpack sorts by them as they are.
FragmentsInOrder ==
    \A r \in result : call.fn = "unpack" =>
        LET came == Range(call.packets)
            frames == {<<f.ssrc, f.timestamp>> : f \in came}
            place(s, t) == Cardinality({x \in frames : x[1] < s \/ (x[1] = s /\ x[2] <= t)})
            part(s, t, n) ==
                IF \E f \in came : f.payload = <<s, t, n>> THEN <<s, t, n>> ELSE <<>>
        IN  /\ Len(r) = Cardinality(frames)
            /\ \A s \in 1 .. 2, t \in 0 .. 1 :
                  (<<s, t>> \in frames /\ FragmentNumber(call.first, t, 0) + 2 < SeqSpace) =>
                      r[place(s, t)].data = part(s, t, 0) \o part(s, t, 1) \o part(s, t, 2)

\* What comes out depends on which packets arrived and not on their order, also
\* where the numbers wrap around.
ArrivalOrderIrrelevant ==
    \A r \in result : call.fn = "unpack" =>
        \A other \in SetToSeqs(Range(call.packets)) : r = Unpack(other)

\* The order of frames, and of the fragments in them, is the sender's and not the
\* network's.
SentOrderRestored == FramesInOrder /\ FragmentsInOrder /\ ArrivalOrderIrrelevant
==============================================================================
