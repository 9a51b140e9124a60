------------------------------ MODULE Capacity ------------------------------
(***************************************************************************)
(* The capacity estimate of the SFU (crates/qm-sfu/src/capacity.rs): what  *)
(* a number of streams takes of processor, memory and network, and what    *)
(* gives out first.  Pure operators.                                       *)
(*                                                                         *)
(* The code computes with floating-point numbers and compares the results  *)
(* with limits; here both sides of a comparison are multiplied by the      *)
(* denominators, and rounding is left out.  A division by a frame rate of  *)
(* zero gives infinity, or no number when the bit rate is zero too, and    *)
(* multiplied out it gives the same comparisons.  Times are in tenths of   *)
(* milliseconds.  Size of the picture and the printed report are left out. *)
(***************************************************************************)
EXTENDS LossRecovery

CONSTANTS
    CpuPerPacket,      \* millionths of the processor for a packet each second: 20
    CpuPerRecovery,    \* and as many more with recovery: 10
    CpuLimit,          \* 0.8 of the processor, in millionths
    KbPerStream,       \* memory of a stream without its packets, in KB: 50
    BitsPerKb,         \* 8192
    MemoryLimit,       \* 4096 MB, in KB
    NetworkLimit,      \* 1_000_000_000 bits per second
    BpsSpace,          \* throughputs are 0 .. BpsSpace - 1 (u64)
    PacketSpace,       \* packet counts of a simulation (u32)
    TargetStreams      \* 200

ASSUME CapacityAssumption ==
    /\ {CpuPerPacket, CpuPerRecovery, CpuLimit, KbPerStream, MemoryLimit, NetworkLimit,
        TargetStreams, Window} \subseteq Nat
    /\ {BitsPerKb, BpsSpace, PacketSpace} \subseteq Nat \ {0}

MaxLatency == 2000

\* Mutated form of Throughput: the product is cut to 32 bits on the way.
ThroughputNarrow(c) == (((c.streams * c.bitrate) % PacketSpace) * c.subs) % BpsSpace

\* CapacityConfig::total_throughput_bps; it wraps in a release build.
Throughput(c) == (((c.streams * c.bitrate) % BpsSpace) * c.subs) % BpsSpace

\* total_packets_per_second, with one packet for each frame.
PacketsPerSecond(c) == c.streams * c.fps

CpuBound(c) ==
    PacketsPerSecond(c) * (CpuPerPacket + (IF c.recovery THEN CpuPerRecovery ELSE 0)) > CpuLimit

\* With recovery a stream keeps a window of packets of bitrate / fps bits.
MemoryBound(c) ==
    IF c.recovery
    THEN c.streams * (c.bitrate * Window + KbPerStream * BitsPerKb * c.fps)
           > MemoryLimit * BitsPerKb * c.fps
    ELSE c.streams * KbPerStream > MemoryLimit

Bottleneck(c) ==
    CASE CpuBound(c) -> "cpu"
      [] ~CpuBound(c) /\ MemoryBound(c) -> "memory"
      [] ~CpuBound(c) /\ ~MemoryBound(c) /\ Throughput(c) > NetworkLimit -> "network"
      [] OTHER -> "none"

\* LatencyBreakdown::total_ms of forwarding, network and, with recovery, a
\* retransmission and a decoding.
Latency(c) == 5 + 1000 + (IF c.recovery THEN 50 + 1 ELSE 0)

\* simulate_capacity, when of the sampled packets those in losses are lost.
SimulateCapacity(c, losses) ==
    [throughput |-> Throughput(c),
     packets |-> PacketsPerSecond(c),
     latency |-> Latency(c),
     recovery |-> IF c.recovery
                  THEN Outcome((PacketsPerSecond(c) % PacketSpace) \div 10, "nack_fec", losses)
                  ELSE Outcome(0, "nack", {}),
     bottleneck |-> Bottleneck(c),
     meets_target |-> c.streams >= TargetStreams /\ Latency(c) <= MaxLatency]
=============================================================================
