------------------------------- MODULE HwAccel -------------------------------
(***************************************************************************)
(* Which encoder is used (crates/qm-sfu/src/hwaccel.rs): the first backend *)
(* of the platform that the probe finds, or else the CPU.  Pure operators. *)
(*                                                                         *)
(* The probe is the caller's.  It is asked once to choose, and when it has *)
(* found nothing a second time, for the text of the reason; a probe of     *)
(* real hardware may answer differently.  An answer is the set of the      *)
(* backends that are available.                                            *)
(***************************************************************************)
EXTENDS Integers, Sequences, SequencesExt, FiniteSets, StdLib

Platforms == {"windows", "linux", "macos", "unknown"}
Backends == {"nvenc", "qsv", "amf", "videotoolbox", "vaapi", "cpu"}

\* candidate_backends - in the order of preference.
Candidates(platform) ==
    CASE platform = "windows" -> <<"nvenc", "qsv", "amf", "cpu">>
      [] platform = "linux"   -> <<"vaapi", "cpu">>
      [] platform = "macos"   -> <<"videotoolbox", "cpu">>
      [] platform = "unknown" -> <<"cpu">>

Hardware(platform) == Without(Candidates(platform), {"cpu"})

\* CodecPath::hardware and CodecPath::software; because names the backends that
\* the reason blames.
HardwarePath(backend) == [backend |-> backend, hardware_accelerated |-> TRUE, because |-> {}]
SoftwarePath(because) == [backend |-> "cpu", hardware_accelerated |-> FALSE, because |-> because]

\* Mutated form of SelectPath: the last that is available.
SelectLastPath(platform, first, second) ==
    LET usable == Within(Hardware(platform), first)
    IN  IF usable # <<>> THEN HardwarePath(Last(usable))
        ELSE SoftwarePath(Range(Hardware(platform)) \ second)

\* select_codec_path - first and second are what the probe answers.
SelectPath(platform, first, second) ==
    LET usable == Within(Hardware(platform), first)
    IN  IF usable # <<>> THEN HardwarePath(Head(usable))
        ELSE SoftwarePath(Range(Hardware(platform)) \ second)

\* simulate_hw_accel - the probe knows three backends; of the others it says
\* that they do not apply.
SimulateHwAccel(platform, available) ==
    SelectPath(platform, available \cap {"nvenc", "qsv", "amf"},
                         available \cap {"nvenc", "qsv", "amf"})

\* SfuRouter::hwaccel_info - the probe finds nothing.
HwAccelInfo(platform) ==
    [codec_path |-> SelectPath(platform, {}, {}), candidates |-> Candidates(platform)]
==============================================================================
