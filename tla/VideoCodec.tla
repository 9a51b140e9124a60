----------------------------- MODULE VideoCodec -----------------------------
(***************************************************************************)
(* The two video codecs (crates/qm-media/src/impls/h264.rs and vp8.rs, the *)
(* same but for header fields that no decoder looks at) and the bit stream *)
(* tools below them (bitstream.rs).  Pure operators.                       *)
(*                                                                         *)
(* The body of a payload is a sequence of bytes, which the check sum is    *)
(* made of: a number takes four of them, the lowest first.  In the header, *)
(* which is not in the check sum, a number is one item: the magic number,  *)
(* the version, the key frame flag, width, height and check sum.           *)
(***************************************************************************)
EXTENDS SequencesExt, StdLib

CONSTANTS
    ByteSpace, \* bytes are 0 .. ByteSpace - 1 (u8)
    HashBits,  \* bits of a check sum (u32)
    HashBasis, HashPrime,
    Magic

HashSpace == OneShifted[HashBits]

ASSUME HashAssumption ==
    /\ HashBits \in Nat \ {0}
    /\ HashBasis \in 0 .. HashSpace - 1
    /\ HashPrime \in Nat /\ HashPrime % 2 = 1
    /\ Magic \in Nat
    /\ ByteSpace \in 2 .. HashSpace /\ ByteSpace % 2 = 0

HeaderLen == 6
PayloadVersion == 1

\* push_u32 - a number of 32 bits as four bytes, and the number at position p.
Number(n) ==
    LET second == n \div ByteSpace
        third == second \div ByteSpace
        fourth == third \div ByteSpace
    IN  <<n % ByteSpace, second % ByteSpace, third % ByteSpace, fourth % ByteSpace>>

NumberAt(s, p) == s[p] + ByteSpace * (s[p + 1] + ByteSpace * (s[p + 2] + ByteSpace * s[p + 3]))

\* rle_encode: the runs, each with its length and its byte, when one more byte has
\* been read; then how many there are, and all of them.
Extended(runs, b) ==
    IF runs # <<>> /\ Last(runs)[2] = b
    THEN Append(Front(runs), <<Last(runs)[1] + 1, b>>) ELSE Append(runs, <<1, b>>)

Runs(plane) ==
    LET upTo[n \in 0 .. Len(plane)] ==
          IF n = 0 THEN <<>> ELSE Extended(upTo[n - 1], plane[n])
    IN  upTo[Len(plane)]

\* Run::write
Written(run) == Number(run[1]) \o <<run[2]>>

RleEncode(plane) ==
    LET runs == Runs(plane)
    IN  Number(Len(runs)) \o FlattenSeq([i \in 1 .. Len(runs) |-> Written(runs[i])])

\* FNV-1a: what a byte makes of each hash, and the hash of the first n bytes.
Hashed(byte) ==
    [hash \in 0 .. HashSpace - 1 |-> (Xor(HashBits, hash, byte) * HashPrime) % HashSpace]

HashOfFirst(data, n) ==
    LET after[k \in 0 .. n] ==
          IF k = 0 THEN HashBasis ELSE Hashed(data[k])[after[k - 1]]
    IN  after[n]

\* Mutated form of Checksum: the last byte is not hashed.
ChecksumOfFront(data) == HashOfFirst(data, Len(data) - 1)

Checksum(data) == HashOfFirst(data, Len(data))

\* How long the planes are: luma, and each of the two chroma planes.
LumaSize(width, height) == width * height

\* Mutated form of ChromaSize: a quarter for the two of them.
ChromaSizeOfBoth(luma) == luma \div 8

ChromaSize(luma) == luma \div 4

\* The three planes of a frame, compressed.
FrameBody(frame) ==
    LET luma == LumaSize(frame.width, frame.height)
        chroma == ChromaSize(luma)
    IN  Number(luma) \o RleEncode(SubSeq(frame.data, 1, luma))
          \o RleEncode(SubSeq(frame.data, luma + 1, luma + chroma))
          \o RleEncode(SubSeq(frame.data, luma + chroma + 1, luma + 2 * chroma))

\* Encoder::encode for a video frame - the payload, {} for an error.
Encode(frame) ==
    LET luma == LumaSize(frame.width, frame.height) IN
    IF Len(frame.data) < luma + 2 * ChromaSize(luma) THEN {}
    ELSE {<<Magic, PayloadVersion, frame.keyframe, frame.width, frame.height,
            Checksum(FrameBody(frame))>> \o FrameBody(frame)}

\* rle_decode for n runs of five bytes from position p on.
RleDecode(body, p, n) ==
    LET run(i) == p + 5 * (i - 1)
    IN  FlattenSeq([i \in 1 .. n |-> [k \in 1 .. NumberAt(body, run(i)) |-> body[run(i) + 4]]])

\* read_plane - the plane at position p and the position after it, {} for an
\* error: the runs go beyond the payload, one is empty, or they are too long or
\* too short.
ReadPlane(body, p, size) ==
    IF p + 4 > Len(body) + 1 THEN {}
    ELSE LET n == NumberAt(body, p)
             next == p + 4 + 5 * n
         IN  IF /\ next <= Len(body) + 1
                /\ \A i \in 1 .. n : NumberAt(body, p + 4 + 5 * (i - 1)) # 0
                /\ Len(RleDecode(body, p + 4, n)) = size
             THEN {[plane |-> RleDecode(body, p + 4, n), next |-> next]} ELSE {}

\* Decoder::decode - the frame, {} for an error.
Decode(payload) ==
    LET body == SubSeq(payload, HeaderLen + 1, Len(payload))
        size == NumberAt(body, 1)
        luma == ReadPlane(body, 5, size)
        first == UNION {ReadPlane(body, y.next, ChromaSize(size)) : y \in luma}
        second == {v \in UNION {ReadPlane(body, u.next, ChromaSize(size)) : u \in first} :
                      v.next = Len(body) + 1}
    IN  IF \/ Len(payload) <= HeaderLen \/ payload[1] # Magic \/ payload[2] # PayloadVersion
           \/ payload[6] # Checksum(body) \/ Len(body) < 4
        THEN {}
        ELSE {[width |-> payload[4], height |-> payload[5], keyframe |-> payload[3],
               data |-> y.plane \o u.plane \o v.plane] :
                 y \in luma, u \in first, v \in second}
=============================================================================
