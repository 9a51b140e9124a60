----------------------------- MODULE AudioCodec -----------------------------
(***************************************************************************)
(* The Opus codec (crates/qm-media/src/impls/opus.rs), a lossless wrapping *)
(* of sound: a header of magic number, rate, channels, samples, length and *)
(* check sum, each of them one item as in VideoCodec, and the samples, two *)
(* bytes for each channel.  Pure operators.                                *)
(*                                                                         *)
(* What a frame is, Frame::kind tells by its rate: one without is a        *)
(* picture, and refused.  That the encoder would put a rate of its own     *)
(* into the header of such a frame is therefore left out.                  *)
(***************************************************************************)
EXTENDS VideoCodec

CONSTANTS
    DefaultRate, \* OPUS_SAMPLE_RATE, of the synthetic sounds
    FrameSamples \* OPUS_FRAME_20MS_SAMPLES

ASSUME SoundAssumption == DefaultRate \in Nat \ {0} /\ FrameSamples \in Nat \ {0}

AudioHeaderLen == 6

OrElse(n, default) == IF n = 0 THEN default ELSE n

\* Bytes of one sample of all channels.
SampleBytes(channels) == channels * 2

\* OpusEncoder::encode, with frame_samples - the payload, {} for an error.
EncodeAudio(sound) ==
    LET channels == OrElse(sound.channels, 1)
        bytes == Len(sound.data)
        samples == bytes \div SampleBytes(channels)
    IN  IF \/ sound.rate = 0 \/ bytes = 0
           \/ bytes % SampleBytes(channels) # 0 \/ samples % FrameSamples # 0 THEN {}
        ELSE {<<Magic, sound.rate, channels, samples, bytes, Checksum(sound.data)>>
                \o sound.data}

\* OpusDecoder::decode - the sound, {} for an error.
DecodeAudio(payload) ==
    LET sound == SubSeq(payload, AudioHeaderLen + 1, Len(payload)) IN
    IF /\ Len(payload) > AudioHeaderLen
       /\ payload[1] = Magic
       /\ Len(sound) = payload[5]
       /\ Checksum(sound) = payload[6]
       /\ 0 \notin {payload[2], payload[3], payload[4]}
       /\ Len(sound) = payload[4] * SampleBytes(payload[3])
    THEN {[rate |-> payload[2], channels |-> payload[3], data |-> sound]} ELSE {}
=============================================================================
