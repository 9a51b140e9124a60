------------------------------ MODULE RoundTrip ------------------------------
(***************************************************************************)
(* The program's own check of its media path (crates/qm-media/src/         *)
(* verify.rs, with the registry of codecs): frames of a known content are  *)
(* encoded, packetized, put on the wire, taken off, unpacked, decoded and  *)
(* compared, and a damaged packet must be refused.  Pure operators.        *)
(*                                                                         *)
(* The pictures are two by two.  That the codecs give the same bytes when  *)
(* they run again, which the code checks too, is left out: here they are   *)
(* functions.  A result is {} for an error.                                *)
(***************************************************************************)
EXTENDS AudioCodec, Rtp

Codecs == {"vp8", "h264", "opus"}   \* supported_codecs

IsVideo(codec) == codec # "opus"

PayloadType(codec) == CASE codec = "vp8" -> 96 [] codec = "h264" -> 100 [] codec = "opus" -> 111

PayloadHeaderLen(codec) == IF IsVideo(codec) THEN HeaderLen ELSE AudioHeaderLen

\* Codec::encode with the encoder of the registry: one packet for a frame.  A
\* picture counts for one time unit, a sound for its samples.
EncodeBy(codec, frame) ==
    IF IsVideo(codec)
    THEN {[data |-> d, marker |-> TRUE, samples |-> 1] : d \in Encode(frame)}
    ELSE {[data |-> d, marker |-> TRUE, samples |-> d[4]] : d \in EncodeAudio(frame)}

\* Codec::decode with the decoder of the registry.
DecodeBy(codec, data) == IF IsVideo(codec) THEN Decode(data) ELSE DecodeAudio(data)

\* Every picture differs from the next, every sound is the same.
SyntheticVideo(index) ==
    [width |-> 2, height |-> 2, keyframe |-> IF index = 0 THEN 1 ELSE 0,
     data |-> [i \in 1 .. 6 |-> (i + index) % ByteSpace]]
SyntheticAudio ==
    [rate |-> DefaultRate, channels |-> 1,
     data |-> [i \in 1 .. 2 * FrameSamples |-> i % ByteSpace]]

SourceFrames(codec, frames) ==
    [i \in 1 .. frames |-> IF IsVideo(codec) THEN SyntheticVideo(i - 1) ELSE SyntheticAudio]

\* MediaStream::new
NewStream(codec, ssrc) ==
    [ssrc |-> ssrc, payload_type |-> PayloadType(codec), next_seq |-> 0, next_ts |-> 0]

The(results) == CHOOSE r \in results : TRUE

\* What is sent, as packets and on the wire.
Capture(codec, frames) ==
    LET source == SourceFrames(codec, frames)
        encoded == [i \in DOMAIN source |-> EncodeBy(codec, source[i])]
        rtp == SendAll(NewStream(codec, 1 + PayloadType(codec)),
                       [i \in DOMAIN source |-> The(encoded[i])])
        wire == [i \in DOMAIN source |-> Marshal(rtp[i])]
    IN  IF \E i \in DOMAIN source : encoded[i] = {} \/ wire[i] = {} THEN {}
        ELSE {[source |-> source, rtp |-> rtp, wire |-> [i \in DOMAIN wire |-> The(wire[i])]]}

\* The middle of what follows the payload's header, of the first packet, is
\* inverted: the packet must arrive, and not be decoded.
IntegrityGuarded(codec, wire) ==
    LET header == HeaderItems + PayloadHeaderLen(codec)
        at == header + (Len(wire[1]) - header) \div 2 + 1
        arrived == Unmarshal([wire[1] EXCEPT ![at] = ByteSpace - 1 - @])
    IN  /\ wire # <<>>
        /\ arrived # {}
        /\ LET payloads == Unpack(<<The(arrived)>>)
           IN  \A i \in DOMAIN payloads : DecodeBy(codec, payloads[i].data) = {}

\* verify
Verify(codec, frames) ==
    UNION {LET back == [i \in DOMAIN c.wire |-> Unmarshal(c.wire[i])]
               payloads == Unpack([i \in DOMAIN back |-> The(back[i])])
               received == [i \in DOMAIN payloads |-> DecodeBy(codec, payloads[i].data)]
           IN  IF \/ \E i \in DOMAIN back : back[i] = {}
                  \/ \E i \in DOMAIN received : received[i] = {} THEN {}
               ELSE {[frames_sent |-> frames,
                      frames_received |-> Len(received),
                      rtp_headers_checked |->
                          Cardinality({i \in DOMAIN back : back[i] = {c.rtp[i]}}),
                      lossless |-> c.source = [i \in DOMAIN received |-> The(received[i])],
                      integrity_guarded |-> IntegrityGuarded(codec, c.wire)]} :
           c \in Capture(codec, frames)}

\* RoundTrip::ok
Ok(report) ==
    /\ report.lossless /\ report.integrity_guarded
    /\ report.frames_sent = report.frames_received
    /\ report.rtp_headers_checked = report.frames_sent
==============================================================================
