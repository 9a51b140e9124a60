----------------------------- MODULE LossRecovery -----------------------------
(***************************************************************************)
(* Loss recovery of the SFU (crates/qm-sfu/src/recovery.rs).  Forward      *)
(* error correction: a redundant packet is the XOR of a group of media     *)
(* packets, from which one lost packet of the group can be computed.  And  *)
(* simulate_loss_recovery, the measure of how a stream survives a lossy    *)
(* network: some packets are lost, evaluate_recovery says what becomes of  *)
(* each, and the counts go into RecoveryStats.  Pure operators.            *)
(*                                                                         *)
(* A payload is a sequence of bytes and a byte the set of its bits.  The   *)
(* receiver's two parallel lists of sequence numbers and payloads are one  *)
(* sequence of records.  The pseudo-random losses are an argument, as any  *)
(* set of packets.                                                         *)
(***************************************************************************)
EXTENDS Sequences, SequencesExt, StdLib, SequenceNumbers, FiniteSets

CONSTANT GroupSize \* FEC_GROUP_SIZE, 5

ASSUME GroupAssumption == GroupSize \in Nat \ {0}

\* XOR a payload into an accumulator; what it lacks in length counts as zero.
XorInto(acc, payload) ==
    [i \in DOMAIN acc |-> IF i <= Len(payload) THEN SymDiff(acc[i], payload[i]) ELSE acc[i]]

\* The payloads XORed into acc, one after the other.
XorAll(acc, payloads) ==
    LET after[n \in 0 .. Len(payloads)] ==
          IF n = 0 THEN acc ELSE XorInto(after[n - 1], payloads[n])
    IN  after[Len(payloads)]

Zeros(len) == [i \in 1 .. len |-> {}]

Longest(payloads) == Max({Len(p) : p \in Range(payloads)})

\* FecGroup::generate_redundancy, for a group that is not empty.
GenerateRedundancy(group) ==
    LET payloads == [i \in DOMAIN group |-> group[i].payload] IN
    [sequences |-> [i \in DOMAIN group |-> group[i].seq],
     data |-> XorAll(Zeros(Longest(payloads)), payloads)]

\* The received packets that belong to the group of fec.
GroupReceived(fec, received) ==
    Within(received, {packet \in Range(received) : packet.seq \in Range(fec.sequences)})

\* Mutated forms of OneMissing: the last packet of a group is not counted;
\* a group that misses a packet is given up.
AlmostOneMissing(fec, received) ==
    Len(GroupReceived(fec, received)) >= Len(fec.sequences) - 2

NoneMissing(fec, received) ==
    Len(GroupReceived(fec, received)) = Len(fec.sequences)

OneMissing(fec, received) ==
    Len(GroupReceived(fec, received)) = Len(fec.sequences) - 1

\* try_fec_recover - the payload for the lost number, as a set: None is {}.
TryFecRecover(fec, received, lost) ==
    IF lost \in Range(fec.sequences) /\ OneMissing(fec, received)
    THEN LET group == GroupReceived(fec, received)
         IN  {XorAll(fec.data, [i \in DOMAIN group |-> group[i].payload])}
    ELSE {}

\* evaluate_recovery - what is left to the redundant packets and what is asked
\* for again.
Decide(mode, lost, fecs, received) ==
    LET recoverable == {s \in lost : \E fec \in fecs :
                            TryFecRecover(fec, received, s) # {}}
    IN  [fec  |-> IF mode = "nack" THEN {} ELSE recoverable,
         nack |-> CASE mode = "nack" -> lost
                    [] mode = "nack_fec" -> lost \ recoverable
                    [] mode = "fec_only" -> {}]

-------------------------------------------------------------------------------
(* The simulation. *)

CeilDiv(a, b) == (a + b - 1) \div b

\* total_packets as u16: how many packets are really simulated.
Simulated(n) == n % NumberSpace

\* len packets from number first on; of a packet only the number matters here.
Stream(first, len) == [k \in 1 .. len |-> [seq |-> first + k - 1, payload |-> <<>>]]

\* all_seqs.chunks(group_size)
Chunk(n, i) == Stream(i * GroupSize, Min({GroupSize, Simulated(n) - i * GroupSize}))

FecPackets(n) ==
    {GenerateRedundancy(Chunk(n, i)) : i \in 0 .. CeilDiv(Simulated(n), GroupSize) - 1}

\* 98 of 100 packets that are asked for again arrive, but at least one.
NackSuccess(candidates) ==
    Max({(candidates * 98) \div 100, IF candidates > 0 THEN 1 ELSE 0})

\* simulate_loss_recovery for n packets of which those in losses are lost.
Outcome(n, mode, losses) ==
    LET stream == Stream(0, Simulated(n))
        received == Within(stream, {packet \in Range(stream) : packet.seq \notin losses})
        decision == Decide(mode, losses, FecPackets(n), received)
        asked == Cardinality(decision.nack)
    IN  [sent |-> n,
         lost |-> Cardinality(losses),
         fec |-> Cardinality(decision.fec),
         nack |-> NackSuccess(asked),
         unrecoverable |-> Cardinality(losses) - Cardinality(decision.fec)
                              - NackSuccess(asked),
         requests |-> IF asked > 0 THEN 1 ELSE 0,
         redundant |-> Cardinality(FecPackets(n))]

\* RecoveryStats::recovery_rate and effective_loss_rate, as fractions.
RecoveryRate(o) == IF o.lost = 0 THEN <<1, 1>> ELSE <<o.nack + o.fec, o.lost>>
EffectiveLoss(o) == IF o.sent = 0 THEN <<0, 1>> ELSE <<o.unrecoverable, o.sent>>

\* Whether a fraction is below n hundredths.
BelowPercent(fraction, n) == fraction[1] * 100 < n * fraction[2]

\* audio_no_interruption and video_no_long_stall
AudioUninterrupted(o) == BelowPercent(EffectiveLoss(o), 1)
VideoFluent(o) == BelowPercent(EffectiveLoss(o), 5)
==============================================================================
