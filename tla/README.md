# QuickMeet in TLA+

A verification project for QuickMeet, a video-conferencing system in Rust that
is deployed inside a private network: media nodes form a cluster over NATS, an
SFU forwards tracks between the peers of a room, a signaling server introduces
peers to each other, and a media crate carries frames through codecs and RTP.

The project has TLA+ modules that model the system's own logic, TLC
configurations that check them on small instances, and theorems, proved with
TLAPS, that hold for every instance. `PROJECT.json` lists components, runs,
mutants, the lines every definition stands for, hazards, findings and theorems.

    tlc -config tracks.cfg MCTracks     # one run; the module is in PROJECT.json
    tlapm Tracks_proofs.tla             # the proofs of one component

Paths below are relative to `src/crates/`.

## 1. Inventory

| Component | Code | State | Operations | Module |
| --- | --- | --- | --- | --- |
| Room ownership, broadcasts, failover | `qm-cluster/src/cluster.rs`, `state.rs` | each node's registry of all rooms, its table of own rooms, counters of migrations | apply a broadcast or a snapshot, publish, add and remove a listener, close a room, health check, ask for a migration, answer one | `RoomRecords`, `ClusterRooms`, `NodeTasks` |
| Scheduling rules | `qm-cluster/src/state.rs` (`Node`, `Router`) | none | load, capacity, assignment, migration destination, acceptance | `Scheduler` |
| Membership | `state.rs` (`Registry`), `cluster.rs` | each node's entries about the others, two timers | send and receive heartbeats, find the dead | `Membership`, abstractly `HealthViews` |
| NATS transport | `qm-cluster/src/bus.rs` | a client connection | publish, request and reply, subscribe | `Subjects`; the network of the three above |
| Node life cycle, health endpoint | `qm-cluster/src/server.rs`, `cluster.rs` | whether NATS was reached, the tasks, status counters | start, connect, spawn tasks, answer probes | `NodeTasks` |
| Tracks and forwarding | `qm-sfu/src/track.rs`, `forwarding.rs`, `router.rs` | tracks per room with subscribers and counters | publish, subscribe, unsubscribe, forward, leave | `Tracks` |
| Loss recovery | `qm-sfu/src/recovery.rs` | the retransmission cache | record, answer a request, detect losses, XOR code, recovery decision, simulation | `SequenceNumbers`, `NackCache`, `LossRecovery` |
| Routes of the SFU | `qm-sfu/src/router.rs` | as above | find the handler of a request, compute and answer | `SfuRoutes`, `Tracks` |
| ICE selection, hardware selection, capacity estimate | `qm-sfu/src/ice.rs`, `hwaccel.rs`, `capacity.rs` | none | pure functions | `Ice`, `HwAccel`, `Capacity` |
| Media path | `qm-media/src/` | a stream's next number and time | encode, packetize, serialize, unpack, decode, verify | `VideoCodec`, `AudioCodec`, `Rtp`, `RoundTrip` |
| Signaling server | `qm-signaling/src/lib.rs` | rooms with lists of peers, counters | join, leave, exchange descriptions and candidates | `Signaling`, abstractly `Roster` |
| Local storage | `qm-common/src/storage.rs` | files | write a whole file, read it, append records | `AtomicFile`, abstractly `Register`; `EventLog`, abstractly `RecordLog` |
| Configuration, address checks | `qm-common/src/config.rs`, `error.rs` | none that changes | load in layers, validate, test membership in a network | `Settings` |
| Connected peers over webrtc | `qm-media/src/peer_connection.rs` | counters | a self-test of a library | not modelled |
| Logging, command line, deployment | `logging.rs`, `demos/`, scripts | none of their own | | not modelled |

How they interact. The nodes of a cluster share nothing but NATS subjects:
heartbeats feed membership, membership's verdict starts a migration, and every
change of a room is broadcast and repeated in snapshots. The scheduling rules
read one node's own registry only. The router of the SFU calls the registry of
tracks, the forwarding decision and the recovery functions under one mutex per
structure. `verify` in the media crate chains encoder, stream, wire format,
`unpack` and decoder. The signaling server and the cluster both use the
membership test for networks. The SFU's router, the signaling server and the
cluster do not call each other.

What is hard about each, and what makes it correct:

* **Rooms.** Broadcasts are lost, late and reordered, also a node's own; every
  survivor of a crash runs the same health check; requests time out while they
  are being answered; tables vanish in a crash. Correct means: a room has one
  owner who agreed to it, can serve it and is reachable at the address sent
  along; views never go back, and agree in the end.
* **Membership.** Heartbeats carry the sender's clock and are compared with the
  receiver's; timers drift; messages from before a crash arrive after it.
  Correct means: the dead are found in time, and only the dead.
* **Tracks.** Forwarding decides and counts in two critical sections, and peers
  leave in between. Correct means: who left gets nothing, nobody loses what others
  published through a third, nothing piles up, nothing is counted twice.
* **Recovery.** Sequence numbers wrap, requests come late, retries are counted
  per number. Correct means: the cache holds the right packet under each number,
  retries are bounded, recovered bytes are the bytes that were sent.
* **Media.** Packets are lost, repeated, reordered and altered. Correct means:
  frames come out whole, unaltered and in order.
* **Signaling.** Clients retry, give up, and share names. Correct means: nobody
  is listed twice, rooms go with their last peer, an answer can be relied on.
* **Node.** Eight tasks, the callers and the health endpoint share three locks and
  release them between reading and writing. Correct means: nobody waits for
  good, every migration is counted once, and a room that is served is known.
* **Storage.** Writers fail or are killed at any step. Correct means: a reader
  sees one whole value; of a log, whole records that never disappear.
* **Routes and pure functions of the SFU.** Paths are split, encoders probed
  twice, servers filtered, products compared with limits. Correct means: the
  handler that was asked for, a path the platform has, servers that reach, and
  a bottleneck that does not go away under more load.
* **Configuration.** Four layers and a bit mask decide what a node connects to.
  Correct means: the last layer decides, and only private addresses pass.

## 2. Modules

Every module says at its top what it models; `PROJECT.json` maps each definition
to its lines. Names follow the code where TLA+ allows it. A definition whose
comment begins with "Mutated form" is a plausible bug, used to check that a
property can fail; no specification uses it.

* **`Scheduler`** - the pure rules: `Weight`, `HasCapacityForRoom`, `NodeLoad`,
  `Assign`, `MigrationDestination` and so on, as operators on one node's view.
* **`RoomRecords`** - what the handlers do to one record of a room: `Apply` is the
  comparison of revisions by which views converge, `WithOwner`, `WithListeners`,
  `OneFewer`, `Tombstone` the ways it is changed. Used by the next two.
* **`ClusterRooms`** (extends `Scheduler`, `RoomRecords`) - `registry[n]` is
  `Registry::rooms` of node n, `rooms[n]` is `Cluster::rooms`. One action per
  handler. A handler is one step; a migration is the request, the target's
  decision with the publication's success or failure, the reply, and the
  requester's reaction to acceptance, refusal or timeout. A broadcast is one
  message per running node. `phase` is the external creation of a room,
  `accepted` is history.
* **`NodeTasks`** (extends `RoomRecords`) - the same handlers inside one process,
  one step per section under a lock: `status`, `registry` and `rooms` are the
  three mutexes of `Cluster`, `pc[t]` is where a task, caller or probe is, and
  `local[t]` the record it works with after it has released the lock it read it
  under. `Holding` and `Wants` are the two places where a second lock is taken
  under a first. `Connect` and `ConnectFails` are the outcomes of `initialize`;
  `inbox` holds what a subscription has brought, echoes of the node's own
  broadcasts included; the other nodes are one nondeterministic neighbour.
* **`HealthViews`** - what `ClusterRooms` assumes of health: a set of nodes held
  to be Live, which checks shrink and heartbeats extend. Both `ClusterRooms` and
  `Membership` are shown to implement it; that is how the two fit together.
* **`Membership`** - real time, a clock per node, two timers per node, heartbeats
  under way. `Window` is `health_window` as the code computes it.
* **`Subjects`** - the subjects of `bus.rs`, the subscriptions of the background
  tasks with NATS's matching rules, and which task acts on a message. A subject
  is a sequence of words, as its dots make it.
* **`Tracks`** - the handlers of `router.rs` on `TrackRegistry`. `forward` is two
  actions, since the code releases the lock between deciding and counting.
* **`SequenceNumbers`** - distance, staleness and gaps of numbers that wrap, for
  **`NackCache`**: sender's cache and receiver's loss detection, with the packet
  itself as the contents, so that a stale entry can be told from the right one.
* **`LossRecovery`, `Ice`, `HwAccel`, `Capacity`, `SfuRoutes`,
  `VideoCodec`, `AudioCodec`, `Rtp`, `RoundTrip`, `Subjects`, `Settings`** - pure
  operators. `SfuRoutes` composes the recovery and selection functions with
  the router that offers them; `RoundTrip` composes the codecs with RTP into the
  program's own check of them. **`StdLib`** is what these take from Rust and its
  library - filters, sorting by a key, shifts, exclusive or - in definitions that
  proofs can use.
* **`Calls`** says what a call with its result is: a behaviour is one call.
  **`SfuCalls`** (the routes of the SFU, what they compute, and recovery),
  **`NodeCalls`** (`Settings` and `Subjects`) and **`PureFunctions`** (media, with
  the calls of the other two) say which calls are made and what must hold of
  their results.
* **`AtomicFile`** and **`Register`** - a file system with names and files, and
  writers and readers that take one system call at a time; the abstract file is
  a register.
* **`EventLog`** and **`RecordLog`** - `append_jsonl` by several processes on one
  file in append mode: a record goes out in parts, and a process may fail or be
  killed between any two. The abstract log is the sequence of records that a
  reader finds, which only grows. `MCStorage` runs both storage models in one
  behaviour, one after the other.
* **`Signaling`** and **`Roster`** - each request is handled under one lock and is
  one action; clients, requests under way and lost answers are around it.
* **`MC...`** - constants and symmetry for TLC. **`..._proofs`** - the theorems.

Environment that is not in the repository, and is modelled from how the code
uses it: NATS, the operating system's files, the clients, the network between
peers, the random generator behind uuids, the probe for hardware encoders.

## 3. Runs

All of them finish; bounds are in the `.cfg` files. Deadlock is checked in
`signaling` only: elsewhere counters are bounded and a behaviour ends (that no
thread of a node waits for good is the invariant `NoDeadlock`).

| Run | Shows |
| --- | --- |
| `rooms` | Three nodes, under four budgets: a health check that may be wrong, with a crash and a restart, with a closing, or with a listener; and a closing, a crash and a listener without failover. `TypeOK` (counts stay natural), `TablesAgree`, `OwnerReachable`, `ReplyMatchesRequest`, `OwnerAccepted`, `AtMostOneOwner` (unless the check was wrong), `ViewNeverGoesBack`. |
| `rooms_converge` | Liveness: without failover, with a crash and a restart, views of a room agree with its owner's in the end (`ViewsConverge`). |
| `rooms_two_owners` | Violation of `AtMostOneOwner`: two survivors choose each other. |
| `rooms_diverge` | Violation of `ViewsConverge`: the requester's own record outlives everything the owner says. |
| `health_detect` | `DetectedInTime`, with a clock ahead, late and lost heartbeats, a crash and a restart; `ViewsImplemented`. |
| `health_window` | Violation of `DeadOnlyAfterMisses`: seconds are compared with milliseconds. |
| `node_tasks` | `NoDeadlock`, `MigrationsAccountedFor`, `ServesWhatItOwns`, `CountsJoins`, and under fairness `CallsReturn`, with two callers, a probe and all tasks that touch a room, started with NATS and without. |
| `tracks` | `NothingLeftOver`, `NeverOvercounted`, `OthersUntouched`, with three peers, two rooms and two forwarding threads. A request costs the other peers nothing but what the peer that makes it published; `NothingLeftOver` allows ended tracks to stay for those who still subscribe to them. |
| `nack_cache` | `CacheIsRecent`, `RetriesBounded`, `AsksBeforeWrap`, over almost two rounds of the sequence numbers. |
| `functions` | Twelve properties of the pure functions, each for all arguments within the bounds. |
| `storage` | `ReadsWhole`, `FileIsRegister`, with two writers that take turns, failures, kills and a reader; `LossesBounded`, `LogImplemented`, with two processes that append to one log, failures and kills. |
| `signaling` | `CleanLists`, `TellsTheTruth`, `ImplementsRosters`, with late requests, lost answers, several addresses, and a client without a name. |

What the twelve of `functions` say:

* `GroupRecovered`: a packet that is recovered from redundancy has the bytes that
  were sent under its number, also if packets came late; the one packet that a
  group lacks is recovered, and what is recoverable is not asked for again.
* `AnswersWithinLimit`: one request to the route for retransmission is answered
  with the packets it names that are still within the window, each as often as
  it is named but not beyond the limit.
* `SimulationSound`: for any set of losses exactly those that are alone in their
  group are recovered; the subtraction of unsigned numbers stays above zero; a
  loss less never makes the outcome worse; where audio is fine so is video.
* `RoutedAsAsked`: whatever slashes a path has, the room and the handler that its
  first three words name are reached, and no other.
* `GivenServersReach`: of a configuration that passes its check a peer is given no
  server outside the networks, and every relay if it is told it is relayed.
* `CodecPathUsable`: the chosen path is the first of the platform's that the probe
  found, the CPU only if it found none, and the reason given is the truth unless
  the probe has changed its mind in between.
* `BottleneckStays`: more streams, subscribers or bits never make a bottleneck go
  away, as long as there are frames and the throughput fits its width.
* `IntactOrRefused`: a frame comes out as it went in, or is refused, as is a sound
  without a rate; one with a byte altered after its header is refused; and `verify`
  passes exactly while there are frames and no two of them have the same time stamp,
  which wraps around.
* `SentOrderRestored`: however packets are lost, repeated and reordered, frames come
  out in the order of sending until the time stamp wraps, and the fragments of a
  frame that arrived are put together in the order of sending as long as their
  numbers do not wrap within it; with or without a wrap, the order of arrival
  changes nothing.
* `LoadedIsPrivate`: in a configuration that loads, the NATS server and the
  advertised address are loopback or in a declared network, by a definition of
  "in" that does not use masks.
* `LastLayerDecides`: of defaults, file, local file and variables, the last that
  names a setting decides it; with an unknown variable nothing loads.
* `MessagesReachTheirTask`: a message is handled once by whom it is for - all nodes
  of the cluster, its target, or one node - for ids that are single tokens.

Why the bounds are enough. Rooms: the conflicts need one room, a requester, a
target and one more node, and room for a message that overtakes another;
`Budgets` limits deaths, wrong deaths, crashes, closes and listeners, in
combinations, so that a run has those that its question is about. Revisions are
bounded by `MaxRev`, just above what two changes, a migration and the
requester's record need. Node: `Scenarios` pairs every two operations on a room
that can overlap, with both outcomes of the connection, an echo and a record of
another node; a third operation meets the same sections again. Membership:
one of two clocks is ahead by a unit that is as long as the longest delay, and
the time covers a crash, a restart and the detection after it. Tracks: two
rooms and two tracks for effects of one on another, three peers for publisher,
leaver and bystander, two threads for the interleavings of `forward`.
`NackCache`: nine packets over five numbers is almost two rounds, so every number
is reused and a request can outlive its packet. Storage: two pieces of a value
and two parts of a record, so that there is a state between them; three records
so that a torn line has a victim and a survivor after it. Functions: groups of
three and a second, incomplete one; frames up to 2x2 (planes of length 0 and 1);
bytes of two bits, so that a number takes more than one, and check sums of six;
time stamps and sequence numbers that wrap within three frames; fragments numbered
from 0 and, for the wrap within a frame, from just below the end; 3-bit addresses
with prefixes from 0 to 4, the last invalid; platforms, NAT types and subsets of
backends in full; load limits that are crossed one after another within reach.

Fairness. `rooms_converge` and `rooms_diverge`: `SpreadFairness` says that a node's
snapshot loop, which never ends, keeps sending to every node, and that of what
it keeps sending to one node some copy is put on the wire. It is strong because
the bound `MaxInFlight` disables sending from time to time; the code has no such
bound. The property assumes further that the network is empty again and again:
copies arrive, or are lost, well within the seconds between two snapshots.
Nothing is assumed about delivery of any single copy beyond that, nor about
crashes, health checks or listeners. `node_tasks`: `Fairness` says that a thread
that can take its next step does so, which tokio's scheduler gives each task that
is ready, and parking_lot's eventually fair locks each thread that waits; it says
nothing about when a call, a probe, a check or a message begins. A publication,
the flush after a migration (`cluster.rs:602`, which changes nothing and is no step
of its own) and a request to NATS end, the last because of its timeout.

Where the model simplifies. Handlers of `ClusterRooms` are atomic; what happens
between their sections is in `NodeTasks`, which has one node and one room.
Broadcasts of one publisher may overtake each other, which NATS would not do on
one connection: the model allows more. A failed publication is the loss of all
copies, except in `handle_migration_request`, where the code reacts to it. Stream
counts, which no handler changes, roles within room states and the counters of
the status other than those of migrations are left out. In `NodeTasks` whom the
registry holds to be dead, a target and whether this node has room for a
migration are open choices, and the tasks for heartbeats and routing, which
change no room, are left out. `ServesWhatItOwns` and `CountsJoins` are stated of
behaviours in which no two operations on the room have overlapped: with overlap
they do not hold (section 5). The body of a payload is a sequence of bytes, as the check
sum reads it; in the headers of payloads and packets, which it does not cover, a
number of several bytes is one item. Pictures of `verify` are two by two. `Capacity` has
whole numbers, with every comparison multiplied out. In `Signaling` the list of
peers is a set, the two exchange counters are one, and descriptions and
candidates are not on the wire, since nothing is done with them. `Settings` leaves
out letter case and blanks, and lets one setting stand for those that no check
looks at.

## 4. Proofs

Each `*_proofs` module extends its component, `Presence_proofs` two of them;
`PureFunctions_proofs` rests on the lemmas of `Calls_proofs`. The parameters are
arbitrary, under the named assumptions next to their declarations. Every inductive
invariant was an invariant of a TLC run before it was proved.

| Module | Theorems | Argument |
| --- | --- | --- |
| `ClusterRooms_proofs` | `TypeCorrect`, `TablesConsistent`, `OwnersReachable`, `OwnersAccepted`, `RepliesMatch`, `ViewMonotone`, `UsesViews` | `IInv` is the type invariant with `RoomsInv` (where the registry names this node the own table has the room, no newer than the registry and the same if of the same revision; addresses are truthful, owners have accepted), `RequestsGoElsewhere` (nobody asks itself) and `ReplyMatchesRequest`. The parts need each other: that a requester's answer is for the room it asked about is what makes its record's owner an accepted one. |
| | `OneOwner`, `OneOwnerWithin` | `OwnerInv` adds what keeps the owner unique as long as one check at most has found a death, and a right one: a node that is down holds nothing; what would be given away is on one survivor's list of rooms to move or in one request for its migration, once (`OneClaim`); one node holds it, in its registry, its table or a message under way to it, and none while it is being given away (`OneHolder`); and before the first check it was accepted by one node at most (`OneRoute`). Budgets of one check each give the property of the run; a second check breaks it (`rooms_two_owners`). |
| `NodeTasks_proofs` | `TypeCorrect`, `MigrationsCounted`, `DeadlockFree` | `IInv` adds `Places` to the type invariant: which labels each kind of thread can be at, the status is kept over a second lock by the health check alone, the registry by one probe at a time. Deadlock freedom then follows from the order of the locks: status, registry, rooms. The count of migrations is inductive with the fact that no check runs before the node has started. |
| | `RoomsServed`, `JoinsCounted` | Both properties speak of the moments between operations. `Sound` says what holds inside one: while no two have overlapped at most one thread is between its sections (`OneAtATime`, with `Stations` for which sections a thread has), and no record that names this node and can still be heard of, in the registry, an inbox or a thread's hands, is the room's first (`OwnRecords`); and, as far as that thread has not yet written back, the room is served (`Serves`) and the joins are counted (`Counted`). |
| `Presence_proofs` (`Membership`) | `TypeCorrect`, `FoundInTime`, `ImplementsViews` | `DetectedInTime` is not inductive. `IInv` adds that a running node's check is never overdue by more than `Lag` (`TimersInv`), that a message is no older than the longest delivery and no newer than its sender's crash (`MessagesInv`), and that what is noted of a node is no later than its clock allows and the next check comes in time (`NotedInv`); the bound is then arithmetic on the next check. |
| `Presence_proofs` (`Signaling`) | `ServerTypeCorrect`, `ListsStayClean`, `TruthTold`, `RostersImplemented` | `TellsTheTruth` is not inductive while a request is under way. `ServerInv` adds `Waiting` (who does not give up has at most the one request under way that it waits for) and `Truth` (lists differ from what was told by the effect of that request at most). |
| `Tracks_proofs` | `TypeCorrect`, `LeaversLeave`, `PeersIsolated` | `IInv` is the type invariant, with the well-formedness of tracks and the two halves of `NothingLeftOver`; lemmas say what `WithoutEmpty` and `Left` do to a registry. |
| | `CountersBounded` | `NeverOvercounted` compares two sums, over all tracks and over all workers. Lemmas say what adding to one summand, or clearing one, does to such a sum over a finite set. Their induction is on the least size of a set for which they fail, by the theorem that a nonempty set of naturals has a least element. |
| `NackCache_proofs` | `TypeCorrect`, `CacheRecent`, `RetriesLimited`, `OnlyOldEvicted` | `CacheIsRecent` is inductive with its types, by lemmas about `%` and the distance with wrap-around. For the retries, `CountsAgree` ties the count kept per number to the number of times its present packet was sent. |
| | `AsksForMissing` | A property of steps, from the fact that what was received was sent: before the wrap a number is its packet, so that the gaps between neighbours in the sorted list are the packets that lack. |
| `Storage_proofs` | `TypeCorrect`, `ReadersGetWholeValues`, `FileImplementsRegister` | Under one write at a time (`~Concurrent`): `IInv` says that one writer is at work, that the file behind the path is whole and nobody writes to it, what a writer has written is a prefix of its value, and what a reader has got is a prefix of a whole value. |
| | `LogSafe`, `FileIsALog`, `LossesAreBounded` | `LogInv` says that readers find only records that were written to their end, of each process in order; a step that ends a line adds one at most, which is a step of the abstract log. `LossesBounded` is not inductive: `BudgetKept` also charges for the line that is unended at present and for every process that is halfway through a record, since each may cost a record later. |
| `PureFunctions_proofs` | `CallsAnswered` and, from it, a theorem for each of the twelve properties below | `EachAnswered` says that the call is one of those listed and that its answer, once there, is as it is to be. Its proof is one lemma per function, for any arguments of the right kind. The theorems are about the calls of the specification, for every value of its constants (words, widths, limits, costs, spaces). Most of those functions are recursive or fold a sequence; what they return for every input is proved by least exceptions, since a nonempty set of naturals has a least element (`LeastOne`, `UpTo`). |
| | `FramesIntact` | One lemma per tool: the runs of a plane stand for that plane (`RunsOfPlane`), a sequence of sequences is taken apart where it was put together, a plane is read back and says where the next begins. That an altered byte is noticed is a fact about the hash: exclusive or with a byte, and the product with an odd number modulo a power of two, each tell any two hashes apart (`XorOneToOne`, `OddTimes`, `HashedOneToOne`), and every later byte keeps them apart (`HashSteps`), so that two bodies that differ in one byte have different check sums (of bodies that differ in more nothing is claimed); a number is read back from the four bytes it was written as, in whatever base; of a sound's header each field but the rate is compared with another. The program's own check passes because each of its frames is captured, put on the wire, unpacked alone and decoded (`PicturesInTime`, `AllBack`, `Guarded`); with equal time stamps two frames are taken for one. |
| | `OrderRestored` | Sorting a finite set by an order of any two elements puts each behind those before it (`InOrder`), so that what `unpack` gives depends on which packets there are, and so that each fragment is appended behind those with smaller numbers (`NextPart`, `PartsTogether`); of a stream whose time stamps did not wrap, the keys of the groups are in the order of sending (`Transfers`), a group is one frame, and more than one copy makes a payload with something behind its end, which is refused. |
| | `RequestsRouted`, `ServersReach`, `EncoderUsable`, `LoadNeverHelps`, `LayersDecide`, `OnlyPrivateLoads`, `MessagesReach` | From the lemmas of `Calls_proofs`: a filter keeps exactly the elements in its set, in their order (`KeepsWithin`, `KeepsWithout`); any configuration with more load has the bottlenecks of the smaller one (`LoadOnlyAdds`); the name of a variable gives back its setting and no two settings share one (`SettingOfWords`, `WordsOfSetting`); two addresses that a mask leaves the same have the same first bits (`PowersOfTwo`, `MaskedAgree`), so that whatever layers are loaded are private if their addresses are numbers (`LoadIsPrivate`); which subscriptions cover a subject, and a message's receivers, for any finite set of nodes with ids of one token (`JoinedCovers`, `SubjectCovers`, `MessageReaches`). |
| | `GroupsRecovered`, `NacksWithinLimit`, `SimulationsSound` | Also from `Calls_proofs`. After any packets the cache holds under a number the place of the last one recorded with it, if none after it is too far ahead (`RecordedHolds`), and of the places asked for the first `limit` are answered (`FirstHitsCounted`, `KeptCounted`). A bit is set in an exclusive or when an odd number of payloads has it (`XorBits`), and what came and what is missing together are the group, so that what is left over is the missing payload (`LostRestored`). A simulation's groups are the numbers with the same quotient (`ChunkCovers`), of each the packets that came are counted (`GroupCounted`), and a loss is recovered when it is alone in its group (`RecoversSingle`). |

What is assumed of the constants, where it is not only their type: in
`NodeTasks` the node and its neighbour differ, and names of callers and probes
are not those of tasks; tracks and workers are finitely many, since sums over them
are taken; limits and costs of `Capacity` are natural numbers, and what it divides
by is positive; an address has bits, and some are loopback addresses; there are
sequence numbers, and a group has a packet; the bound on the length of a payload
is a natural number; a record of the log has a part. For the media path: a check
sum has bits, and its prime is odd, as FNV's is; a byte has an even number of
values, no more than a check sum has; the size of a plane fits into four bytes; there
are more than five sequence numbers, and time stamps; a frame takes some time, and
a sound's frame has samples and a rate. Values for "nobody" and
"nothing" are outside the sets they complement.

Only model-checked, and why:

* `ViewsConverge`, `CallsReturn`: liveness, which needs `ENABLED` of the actions
  under fairness.

## 5. Where code and documentation disagree

Shown by runs:

* `health_window`: `state.rs:346` multiplies seconds by a count and compares with
  milliseconds; with the defaults a node is dead after 10 ms, not 10 s
  (`docs/CLUSTER_DESIGN.md:120-124`).
* `rooms_two_owners`: two survivors of one crash may both accept the room, from
  each other, which `state.rs:284-286` rules out.
* `rooms_diverge`: after an accepted migration the requester keeps a record that
  nobody sent and nothing replaces (`cluster.rs:556`), against `state.rs:34-36`.

Seen while modelling; the models contain the behaviour, no run is about it:

* Rooms: an own message that comes back takes the own table back whatever its
  revision (`cluster.rs:346`). A former owner goes on admitting listeners
  (`cluster.rs:375`). A migration refused by its target is never tried again
  (`cluster.rs:268`), and a target whose publication fails refuses but keeps the
  room (`cluster.rs:775`).
* Inside a node: `add_listener` reads the table, releases the lock, and writes a
  record built from what it read (`cluster.rs:375-381`): of two joins at once one
  is lost, and so is a join that an echo of the node's earlier broadcast overtakes
  (`cluster.rs:346`). `remove_room` between those two sections leaves a room in the
  table that the registry has closed (`cluster.rs:406-422`). A target goes through
  with a claim that its registry has refused as too old (`cluster.rs:759-774`).
* Membership: the first heartbeat makes a node Live at once (against
  `state.rs:369`); the sequence number decides nothing (against `bus.rs:197`).
* Tracks: of the tracks that were decided on, those that are still in the room when
  the packets are counted get an equal share each, also those that were skipped
  and delivered nothing (`router.rs:393-397`). A track that ended stays after the
  last subscriber of it unsubscribes (`track.rs:43`).
  Whoever subscribed to it stays subscribed when the publisher leaves
  (`track.rs:190-217`), against two comments in the tests, by which carol and bob are
  unsubscribed (`track.rs:343`, `416`; the assertions there allow both).
  `OthersUntouched` is silent about the tracks of the peer that leaves.
* Recovery: after the sequence numbers wrap, `detect_loss` sorts them as plain
  numbers and reports almost everything as lost (`recovery.rs:397`, against the
  comment at `recovery.rs:391`); `NackCache` states what holds before. A record
  that comes out of order evicts newer ones. A redundant packet is used although
  its group has a packet twice. The simulation cuts its packets to 16 bits. The
  route for retransmission builds a new cache for every request
  (`router.rs:454`), so that its retry limit never applies across requests.
* ICE: `validate` has no caller but the tests, so nothing stops a server outside
  the networks; behind a symmetric NAT a relay is reported as used although none
  is configured (`ice.rs:201-235`).
* Hardware: `simulate_hw_accel` asks the platform it runs on, and its tests for
  nvenc and qsv (`hwaccel.rs:339`, `354`) cannot hold where the platform's
  candidates do not include them, which is so on Linux. The probe is called twice.
* Capacity: with no frames and no bits the memory is not a number, and no
  bottleneck is reported for any number of streams (`capacity.rs:156`).
* Media: of a frame with an odd side the last bytes are not encoded
  (`h264.rs:61`, against `frame.rs`). Video time stamps advance by 1 per frame,
  not by 3000. `verify` fails when two of its frames have the same time
  stamp, of Opus with frame 67,108,865, since 960 samples a frame meet an earlier
  stamp modulo 2^32 there, and it fails for no frames at all. The sample rate that the
  Opus encoder would put in for 0 (`opus.rs:80-84`) is never used: a frame without a
  rate is a picture (`frame.rs:75-81`) and refused. `unpack` sorts fragments by the
  plain 16 bit number (`rtp.rs:178`), and groups by the plain time stamp
  (`rtp.rs:174`): a frame whose fragments cross 65535 is put together wrongly, and
  across the wrap of the time stamp the newer frame comes first. Synthetic pictures repeat after 320
  (`frame.rs:88` says each differs).
* Storage: two writers of one path share the temporary file; `storage` and
  the proofs assume one at a time. `append_jsonl` promises no half line and the
  loss of at most the last call (`storage.rs:22-24`): a kill in `write_all` leaves
  a half line, and the next record, of whichever process, is acknowledged and
  appended to it, so that it is lost as well. `LossesBounded` says how much is lost.
* Signaling: descriptions and candidates are acknowledged as forwarded but given
  to nobody (`lib.rs:303-308`); `max_participants` is never read; a client
  without a name is not told the one it was given and cannot leave; joining
  again keeps the old address; `REQUEST_TIMEOUT` (`lib.rs:372`) is used by nothing.
* NATS: a room or node whose id has a dot is missed by the subscriptions to
  `room.*` and `hb.*` (`bus.rs:105-128`), and no check forbids the dot.
* Configuration: `ai.base_url` (`config.rs:131`), `network.bind_host`
  (`config.rs:62`) and the ICE servers are not checked against the networks, which
  their comments demand. A `bind_host` that is no address makes the health
  endpoint listen on every interface (`server.rs:94-103`), and the signaling server
  on loopback. The two ports of the media section may be the same.
  `NodeRole::parse`, which would accept the spellings that `config.rs:162`
  promises, is not what reads a configuration; a misspelled name in a file is
  passed over.
* Life cycle: a node that cannot reach NATS at start never tries again
  (`cluster.rs:144`, against `cluster.rs:131-132` and `server.rs:39-40`), and
  `nats_connected` never returns to false once it is true.

## 6. Plan

Done, in this order, because a meeting's fate depends on them: `Scheduler`
and `ClusterRooms`; `Membership` with `HealthViews`; `Tracks`; `NackCache` and the
recovery functions; the media path; `AtomicFile`; `Signaling`; `Settings`; then
`NodeTasks`, `EventLog`, `Subjects`, the remaining pure functions of the SFU, and
`RoundTrip`.

Left, in this order:

1. Theorems: the safety part of convergence (who has the owner's revision has the
   owner's record); that what a forwarding thread counts was decided; facts about
   the operators of `Scheduler`.
2. A composition of `Membership` and `ClusterRooms`: what the short window does
   to ownership when nothing fails. Its state space is the product of two large
   ones; `HealthViews` is the interface between them meanwhile.
3. `NodeTasks` as an implementation of the atomic handlers of `ClusterRooms`, which
   it is not while operations overlap: it needs a specification of what survives.

Not modelled, and why: the peers over webrtc (a self-test of a library behind a
feature that is off by default; as written, `peer_connection.rs:69-99` uses the
guard of an asynchronous mutex without awaiting it and does not compile), errors
and logging (no state that decides anything), the command line, deployment files
and benchmarks (they call the components above in sequence), and of modelled
components what `PROJECT.json` says with each.
