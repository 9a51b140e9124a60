------------------------------ MODULE SfuCalls ------------------------------
(***************************************************************************)
(* The pure functions of the SFU (SfuRoutes, Capacity, Ice, HwAccel and    *)
(* LossRecovery), each called with all arguments up to the bounds, and     *)
(* what must be true of the results.                                       *)
(***************************************************************************)
EXTENDS Calls, SfuRoutes

CONSTANTS
    MaxPackets, \* bound on the packets recorded, and on the numbers asked for
    MaxTotal,   \* bound on the packets of a simulation
    MaxStreams, \* bound on the streams of a benchmark
    Word,       \* words of a path
    Bit,        \* bits of a byte
    MaxLen,     \* bound on the length of a payload
    MaxCopies   \* bound on the packets that arrive beyond the size of the group

ASSUME LengthAssumption == MaxLen \in Nat

\* The cache of a request is filled with the numbers in cached; the place of a
\* packet in the list stands for its other fields.
NackCalls ==
    [fn : {"nack"}, kind : {"audio"}, limit : 0 .. 2,
     cached : UNION {[1 .. n -> Sequence] : n \in 0 .. MaxPackets},
     lost : UNION {[1 .. n -> {0, 1, NumberSpace - 1}] : n \in 0 .. MaxPackets}]

NackBody(c) ==
    [kind |-> c.kind, limit |-> c.limit, lost |-> c.lost,
     cached |-> [i \in DOMAIN c.cached |-> [seq |-> c.cached[i], place |-> i]]]

\* evaluate_recovery for one group.  The receiver, which is not part of the
\* repository, lists the packets that came, in their order, and those it found
\* missing when only the first `seen` had come.  A packet may come after that, and
\* more than once.
InGroup == 1 .. GroupSize
Payload == UNION {[1 .. len -> SUBSET Bit] : len \in 0 .. MaxLen}
Arrivals == UNION {[1 .. n -> InGroup] : n \in 0 .. GroupSize + MaxCopies}

RecoveryCalls ==
    [fn : {"evaluate_recovery"}, payload : [InGroup -> Payload],
     arrivals : Arrivals, seen : 0 .. GroupSize + MaxCopies, mode : Modes]

Lost(c) == InGroup \ {c.arrivals[i] : i \in DOMAIN c.arrivals \cap 1 .. c.seen}
Missing(c) == InGroup \ Range(c.arrivals)
Packets(c) == [i \in DOMAIN c.arrivals |->
                  [seq |-> c.arrivals[i], payload |-> c.payload[c.arrivals[i]]]]
Fec(c) ==
    FecRoute([kind |-> "audio",
              packets |-> [s \in InGroup |-> [seq |-> s, payload |-> c.payload[s]]]]).fec

\* Both parts of what a receiver gets: the decision, and the payloads.
Recovery(c) ==
    [decision |-> Decide(c.mode, Lost(c), {Fec(c)}, Packets(c)),
     payloads |-> [s \in Lost(c) |-> TryFecRecover(Fec(c), Packets(c), s)],
     len |-> Len(Fec(c).data)]

SimulationCalls ==
    [fn : {"recover"}, total : 0 .. MaxTotal, mode : Modes, losses : SUBSET Sequence]

RequestCalls ==
    [fn : {"route"}, method : {"GET", "POST"}, body : {{}},
     path : {<<"">> \o tail : tail \in UNION {[1 .. n -> Word] : n \in 0 .. 4}}]

IceCalls ==
    LET servers == [kind : {"stun", "turn"},
                    host : [v4 : {1, 2} \cup Loopback] \cup {[v6 |-> 1], [name |-> "localhost"]}]
    IN  [fn : {"ice"},
         config : [nat_type : NatTypes, servers : UNION {[1 .. n -> servers] : n \in 0 .. 2}],
         network : [host : [v4 : 0 .. OneShifted[Width] - 1] \cup {[v6 |-> 1]}, prefix : 0 .. Width]]

CodecCalls ==
    [fn : {"codec"}, platform : Platforms,
     first : SUBSET (Backends \ {"cpu"}), second : SUBSET (Backends \ {"cpu"})]

CapacityCalls ==
    [fn : {"benchmark"},
     config : [streams : 0 .. MaxStreams, fps : 0 .. 3, bitrate : 0 .. 4, subs : 0 .. 3,
               recovery : BOOLEAN]]

SfuInit ==
    \/ call \in NackCalls
    \/ call \in RecoveryCalls /\ call.seen <= Len(call.arrivals)
    \/ call \in SimulationCalls /\ call.losses \subseteq 0 .. Simulated(call.total) - 1
    \/ call \in RequestCalls
    \/ call \in IceCalls
    \/ call \in CodecCalls
    \/ call \in CapacityCalls

Request(handler, body) ==
    [method |-> "POST", path |-> <<"", "room", "r", handler>>, body |-> {body}]

Answer(request) == Route(request, DefaultIce([v4 |-> 1]), "linux")

SfuNext ==
    \/ call.fn = "nack" /\ result' = {Answer(Request("nack", NackBody(call)))}
    \/ call.fn = "evaluate_recovery" /\ result' = {Recovery(call)}
    \/ call.fn = "recover" /\ result' = {Answer(Request("recover", call))}
    \/ call.fn = "route" /\ result' = {Answer(call)}
    \/ call.fn = "ice" /\ result' = {[valid |-> IceValid(call.config, {call.network}),
                                      given |-> SelectServers(call.config),
                                      info |-> IceInfo(call.config)]}
    \/ call.fn = "codec" /\ result' = {SelectPath(call.platform, call.first, call.second)}
    \/ call.fn = "benchmark"
         /\ result' = {Answer(Request("benchmark", [config |-> call.config, losses |-> {}]))}

------------------------------------------------------------------------------
(* Properties. *)

\* In one request, a number is answered as often as it is asked for, but at most
\* limit times, when no packet was recorded after its own from which it is more
\* than Window numbers behind; and with the last packet recorded under it.
AnswersWithinLimit ==
    \A r \in result : call.fn = "nack" =>
        LET last(s) == {i \in DOMAIN call.cached :
                          /\ call.cached[i] = s
                          /\ \A j \in i + 1 .. Len(call.cached) :
                                (call.cached[j] - s) % NumberSpace \in 1 .. Window}
            Times(s) == Cardinality({i \in DOMAIN call.lost : call.lost[i] = s})
        IN  \A s \in Sequence : \A i \in DOMAIN call.cached :
                Cardinality({k \in DOMAIN r.items : r.items[k] = [seq |-> s, place |-> i]})
                    = IF i \in last(s) THEN Min({Times(s), call.limit}) ELSE 0

\* A payload with zeros up to the length of the longest.
Padded(p, len) == [i \in 1 .. len |-> IF i <= Len(p) THEN p[i] ELSE {}]

NoneTwice(c) == \A i, j \in DOMAIN c.arrivals : c.arrivals[i] = c.arrivals[j] => i = j

\* What is recovered for a packet that is still missing is what was sent with
\* it, but for zeros at its end, unless others of its group have come twice:
\* try_fec_recover counts them twice.
RecoveredIsTrue ==
    \A r \in result : (call.fn = "evaluate_recovery" /\ NoneTwice(call)) =>
        \A s \in Missing(call) :
            /\ r.payloads[s] \subseteq {Padded(call.payload[s], r.len)}
            /\ Len(call.payload[s]) <= r.len

\* Who uses both means asks for nothing again when a single packet is missing,
\* and otherwise for everything that was reported lost.
SingleLossRecovered ==
    \A r \in result :
        (call.fn = "evaluate_recovery" /\ call.mode = "nack_fec" /\ NoneTwice(call)) =>
            r.decision.nack = IF Cardinality(Missing(call)) = 1 THEN {} ELSE Lost(call)

\* What redundant packets give back is what was lost, and what they can give back
\* nobody asks for again, whatever came late while the losses were listed.
GroupRecovered == RecoveredIsTrue /\ SingleLossRecovered

\* The losses that are alone in their group.
SingleLosses(losses) ==
    {s \in losses : \A t \in losses \ {s} : t \div GroupSize # s \div GroupSize}

\* Redundant packets recover exactly the single losses, the last and shorter
\* group included.  What is left when all recovered packets are subtracted, as
\* unsigned numbers, is not below zero, and with one loss less it is not more;
\* where audio is not interrupted, video does not stall.
SimulationSound ==
    \A r \in result : call.fn = "recover" =>
        /\ r.stats.fec = IF call.mode = "nack" THEN 0 ELSE Cardinality(SingleLosses(call.losses))
        /\ r.stats.unrecoverable >= 0
        /\ \A s \in call.losses :
              Outcome(call.total, call.mode, call.losses \ {s}).unrecoverable
                  <= r.stats.unrecoverable
        /\ r.audio => r.video

\* Additional slashes and what comes after the action make no difference, and a
\* room's name is never taken for an action or the other way round: a request is
\* answered, or goes to the room and handler that the first three words say.
RoutedAsAsked ==
    \A r \in result : call.fn = "route" =>
        LET at(n) == CHOOSE i \in DOMAIN call.path :
                        /\ call.path[i] # ""
                        /\ Cardinality({j \in 1 .. i : call.path[j] # ""}) = n
            words == Cardinality({j \in DOMAIN call.path : call.path[j] # ""})
            asks(action) == words >= 3 /\ call.path[at(1)] = "room" /\ call.path[at(3)] = action
        IN  /\ "room" \in DOMAIN r =>
                  \/ call.path = <<"", "healthz">> /\ r.handler = "healthz"
                  \/ asks(r.handler) /\ r.room = call.path[at(2)]
            /\ "ice" \in DOMAIN r <=> (asks("ice") /\ call.method = "GET")
            /\ asks("nack") /\ call.method = "POST" => r = [status |-> 400]

\* With servers that validate has let pass, a peer is given no address outside
\* the networks.  Who is told that it will be relayed is given every relay there
\* is; who is told that STUN reaches it, and who is not behind a NAT, needs none.
GivenServersReach ==
    \A r \in result : call.fn = "ice" =>
        /\ r.valid => \A i \in DOMAIN r.given :
              DOMAIN r.given[i].host = {"v4"} /\ InCidr(call.network, r.given[i].host)
        /\ r.info.turn_used =>
              Range(TurnServers(call.config)) \subseteq Range(r.given)
        /\ r.info.stun_succeeded \/ r.info.turn_used
        /\ r.info.selected = Len(r.given)

\* The encoder is one that the platform has and the probe found, none that is
\* preferred was found, and the CPU is left only when nothing was found.  The
\* reason blames the others, unless the probe has changed its mind.
CodecPathUsable ==
    \A r \in result : call.fn = "codec" =>
        LET order == Candidates(call.platform)
            at(b) == CHOOSE i \in DOMAIN order : order[i] = b
        IN  /\ r.backend \in Range(order) \cap (call.first \cup {"cpu"})
            /\ r.hardware_accelerated = (r.backend # "cpu")
            /\ \A i \in 1 .. at(r.backend) - 1 : order[i] \notin call.first
            /\ (r.backend = "cpu" /\ call.second = call.first) =>
                  r.because = Range(order) \ {"cpu"}

\* One stream, subscriber or bit less, or no recovery.
Smaller(c) ==
    {[c EXCEPT !.streams = n] : n \in {c.streams - 1} \cap Nat} \cup
    {[c EXCEPT !.subs = n] : n \in {c.subs - 1} \cap Nat} \cup
    {[c EXCEPT !.bitrate = n] : n \in {c.bitrate - 1} \cap Nat} \cup
    {[c EXCEPT !.recovery = FALSE]}

\* A bottleneck does not go away by more load, and a target that is met is not
\* missed by more streams, as long as the throughput can be counted.  There must
\* be frames: of streams without frames and bits the memory is not a number, and
\* no number is above the limit.
BottleneckStays ==
    \A r \in result :
        (call.fn = "benchmark" /\ call.config.fps > 0
          /\ call.config.streams * call.config.bitrate * call.config.subs < BpsSpace) =>
            \A c \in Smaller(call.config) :
                LET before == SimulateCapacity(c, {}) IN
                /\ before.bottleneck # "none" => r.report.bottleneck # "none"
                /\ before.meets_target => r.report.meets_target
==============================================================================
