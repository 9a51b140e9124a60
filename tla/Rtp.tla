-------------------------------- MODULE Rtp ---------------------------------
(***************************************************************************)
(* The RTP layer (crates/qm-media/src/rtp.rs): a sender numbers and times  *)
(* its packets, a receiver puts them in order again.  Pure operators.      *)
(***************************************************************************)
EXTENDS SequencesExt, StdLib

CONSTANTS
    SeqSpace, \* sequence numbers are 0 .. SeqSpace - 1 (u16)
    TsSpace,  \* time stamps are 0 .. TsSpace - 1 (u32)
    TsStep    \* one frame, in time stamp units

ASSUME RtpAssumption == {SeqSpace, TsSpace, TsStep} \subseteq Nat \ {0}

\* take_seq and take_ts: what they leave behind.
NextSeq(seq) == (seq + 1) % SeqSpace
NextTs(ts, samples) == (ts + (IF samples = 0 THEN TsStep ELSE samples)) % TsSpace

Version == 2

\* packetize - a stream is its identifier, its payload type, its next number and
\* its next time.
Packetize(stream, packet) ==
    [sent |-> [version |-> Version, payload_type |-> stream.payload_type,
               ssrc |-> stream.ssrc, sequence_number |-> stream.next_seq,
               timestamp |-> stream.next_ts, marker |-> packet.marker,
               payload |-> packet.data],
     stream |-> [stream EXCEPT !.next_seq = NextSeq(@),
                               !.next_ts = NextTs(@, packet.samples)]]

\* The packets that a stream sends for a sequence of payload packets.
SendAll(stream, packets) ==
    LET after[n \in 0 .. Len(packets)] ==
          IF n = 0 THEN stream ELSE Packetize(after[n - 1], packets[n]).stream
    IN  [i \in DOMAIN packets |-> Packetize(after[i - 1], packets[i]).sent]

------------------------------------------------------------------------------
(* The first two bytes of the wire format; every other field is one item.  *)

HeaderItems == 5

\* marshal - the items, {} for an error.
Marshal(packet) ==
    IF packet.payload_type > 127 \/ packet.ssrc = 0 THEN {}
    ELSE {<<(packet.version * 64) % 256,
            (IF packet.marker THEN 128 ELSE 0) + packet.payload_type,
            packet.sequence_number, packet.timestamp, packet.ssrc>> \o packet.payload}

\* unmarshal - the packet, {} for an error.
Unmarshal(wire) ==
    IF Len(wire) < HeaderItems \/ wire[1] \div 64 # Version THEN {}
    ELSE {[version |-> wire[1] \div 64, marker |-> wire[2] >= 128,
           payload_type |-> wire[2] % 128, sequence_number |-> wire[3],
           timestamp |-> wire[4], ssrc |-> wire[5],
           payload |-> SubSeq(wire, HeaderItems + 1, Len(wire))]}

------------------------------------------------------------------------------
GroupKey(packet) == <<packet.ssrc, packet.timestamp>>

GroupBefore(a, b) == a[1] < b[1] \/ (a[1] = b[1] /\ a[2] < b[2])

\* Mutated form of FragmentBefore: in the order of their arrival.
FragmentBeforeAsArrived(packets, i, j) == i < j

\* Of two fragments of a frame, the one with the lower number; with the same
\* number, the one that came first.
FragmentBefore(packets, i, j) ==
    \/ packets[i].sequence_number < packets[j].sequence_number
    \/ packets[i].sequence_number = packets[j].sequence_number /\ i < j

\* The packets of a frame become one packet.  Its samples are the number of
\* fragments.
Merged(packets, key) ==
    LET group == {i \in DOMAIN packets : GroupKey(packets[i]) = key}
        before == {p \in group \X group : FragmentBefore(packets, p[1], p[2])}
        inOrder == InOrder(group, before)
    IN  [data |-> FlattenSeq([k \in DOMAIN inOrder |-> packets[inOrder[k]].payload]),
         marker |-> \E i \in group : packets[i].marker,
         samples |-> Cardinality(group)]

\* unpack
Unpack(packets) ==
    LET keys == {GroupKey(packets[i]) : i \in DOMAIN packets}
        inOrder == InOrder(keys, {p \in keys \X keys : GroupBefore(p[1], p[2])})
    IN  [k \in DOMAIN inOrder |-> Merged(packets, inOrder[k])]
=============================================================================
