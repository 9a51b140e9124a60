--------------------------- MODULE SequenceNumbers ---------------------------
(***************************************************************************)
(* Sequence numbers that wrap around, how far they are apart, which of     *)
(* them are too old for the cache, and which are missing                   *)
(* (crates/qm-sfu/src/recovery.rs).  Pure operators.                       *)
(***************************************************************************)
EXTENDS Integers

CONSTANTS
    NumberSpace, \* sequence numbers are 0 .. NumberSpace - 1 (u16: 65536)
    Window       \* NACK_WINDOW, 512

ASSUME SequenceAssumption == NumberSpace \in Nat \ {0} /\ Window \in Nat

Sequence == 0 .. NumberSpace - 1

\* Mutated form of SeqDistance: no wrap-around.
SeqDifference(a, b) == IF a <= b THEN b - a ELSE a - b

\* seq_distance - how far it is from a up to b, with wrap-around.
SeqDistance(a, b) == IF a <= b THEN b - a ELSE (NumberSpace - 1 - a) + b + 1

\* Mutated form of Stale: off by one.
StaleEarly(s, newest) == SeqDistance(s, newest) >= Window

\* NackCache::evict_old - what recording newest throws out.
Stale(s, newest) == SeqDistance(s, newest) > Window

\* Mutated form of DetectLoss: only the first number of each gap.
DetectFirstLoss(seqs) ==
    {s \in Sequence \ seqs : s - 1 \in seqs /\ \E b \in seqs : s < b}

\* detect_loss - the gaps between the numbers in sorted order.
DetectLoss(seqs) ==
    {s \in Sequence \ seqs : \E a, b \in seqs : a < s /\ s < b}
=============================================================================
