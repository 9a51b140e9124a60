------------------------------ MODULE SfuRoutes ------------------------------
(***************************************************************************)
(* SfuRouter::route (crates/qm-sfu/src/router.rs): where a request goes,   *)
(* and what the handlers answer that keep no state.  What the others do is *)
(* in module Tracks.  Pure operators.                                      *)
(*                                                                         *)
(* A path is the sequence of words between its slashes, of which the first *)
(* is empty in a proper path.  A body is a set: of a record, or empty when *)
(* it does not parse.  An answer with an error has a status only.          *)
(***************************************************************************)
EXTENDS Capacity, Ice, HwAccel

\* The kinds of media; any other word is refused.
Kinds == {"audio", "video"}

Modes == {"nack", "nack_fec", "fec_only"}

Handlers ==
    ({"GET"} \X {"tracks", "ice", "hwaccel"}) \cup
    ({"POST"} \X {"publish", "subscribe", "unsubscribe", "forward", "leave",
                  "nack", "fec", "recover", "benchmark"})

Refused(status) == [status |-> status]

\* Mutated form of PathWords: empty words count.
AllWords(path) == Tail(path)

PathWords(path) == Without(path, {""})

\* route - the handler and the room, or a refusal.  What follows the action in
\* the path is passed over.
Dispatch(method, path) ==
    LET words == PathWords(path) IN
    CASE path = <<"", "healthz">> ->
            IF method = "GET" THEN [handler |-> "healthz", room |-> ""] ELSE Refused(405)
      [] path # <<"", "healthz">> /\ Len(words) >= 3 /\ words[1] = "room"
              /\ <<method, words[3]>> \in Handlers -> [handler |-> words[3], room |-> words[2]]
      [] OTHER -> Refused(404)

\* Mutated form of Recorded: nothing is thrown out.
RecordedAll(packets) ==
    [s \in {p.seq : p \in Range(packets)} |->
        packets[Max({i \in DOMAIN packets : packets[i].seq = s})]]

\* NackCache::record for the packet p.
RecordedIn(cache, p) ==
    [s \in {t \in DOMAIN cache : ~Stale(t, p.seq)} \cup {p.seq} |->
        IF s = p.seq THEN p ELSE cache[s]]

\* A new NackCache, after record for each packet.
Recorded(packets) ==
    LET after[n \in 0 .. Len(packets)] ==
          IF n = 0 THEN <<>> ELSE RecordedIn(after[n - 1], packets[n])
    IN  after[Len(packets)]

\* The places in lost that handle_nack answers.
Answered(cache, lost, limit) ==
    {i \in DOMAIN lost :
        /\ lost[i] \in DOMAIN cache
        /\ Cardinality({j \in 1 .. i - 1 : lost[j] = lost[i]}) < limit}

\* SfuRouter::handle_nack - the cache lives as long as the request.
NackRoute(body) ==
    LET cache == Recorded(body.cached)
        places == Within([i \in DOMAIN body.lost |-> i],
                         Answered(cache, body.lost, body.limit))
    IN  IF body.kind \notin Kinds THEN Refused(400)
        ELSE [status |-> 200, items |-> [k \in DOMAIN places |-> cache[body.lost[places[k]]]]]

\* SfuRouter::generate_fec - groups of any size, whatever target_size says.
FecRoute(body) ==
    IF body.kind \notin Kinds \/ body.packets = <<>> THEN Refused(400)
    ELSE [status |-> 200, fec |-> GenerateRedundancy(body.packets)]

\* SfuRouter::simulate_recovery
RecoverRoute(body) ==
    LET stats == Outcome(body.total, body.mode, body.losses) IN
    IF body.mode \notin Modes THEN Refused(400)
    ELSE [status |-> 200, stats |-> stats,
          audio |-> AudioUninterrupted(stats), video |-> VideoFluent(stats),
          recovery_rate |-> RecoveryRate(stats), loss_rate |-> EffectiveLoss(stats)]

\* SfuRouter::benchmark
BenchmarkRoute(body) ==
    [status |-> 200, report |-> SimulateCapacity(body.config, body.losses)]

\* The handlers that only compute.  A body that is empty or blank stands for the
\* default configuration of a benchmark.
Computed(handler, body) ==
    CASE handler = "nack" -> NackRoute(body)
      [] handler = "fec" -> FecRoute(body)
      [] handler = "recover" -> RecoverRoute(body)
      [] handler = "benchmark" -> BenchmarkRoute(body)

\* What a request is answered, or the handler of TrackRegistry that it goes to.
Route(request, ice, platform) ==
    LET to == Dispatch(request.method, request.path) IN
    IF DOMAIN to = {"status"} THEN to
    ELSE CASE to.handler \in {"nack", "fec", "recover", "benchmark"} ->
                 IF request.body = {} THEN Refused(400)
                 ELSE Computed(to.handler, CHOOSE body \in request.body : TRUE)
           [] to.handler = "ice" -> [status |-> 200, ice |-> IceInfo(ice)]
           [] to.handler = "hwaccel" -> [status |-> 200, hwaccel |-> HwAccelInfo(platform)]
           [] OTHER -> to
==============================================================================
