------------------------------ MODULE NodeTasks ------------------------------
(***************************************************************************)
(* One node's process (crates/qm-cluster): its start, its background       *)
(* tasks, the calls that change a room, and its health endpoint, at the    *)
(* granularity of the three locks they share: status, registry, rooms.     *)
(*                                                                         *)
(* A section of code under one lock is one step, taken when the lock is    *)
(* free.  Two sections take a second lock under the first: the update of   *)
(* the status by a health check (status, then registry) and the answer to  *)
(* GET /healthz (registry, then rooms).  Between two steps of a thread the *)
(* others go on, and what the thread read is what it still works with.     *)
(*                                                                         *)
(* There is one room.  registry is this node's view of it, rooms its       *)
(* record in the table of the rooms this node serves.  The node hears its  *)
(* own broadcasts: inbox[l] is what the task l has been sent and has not   *)
(* taken.  Other stands for every other node, and what this node's         *)
(* registry holds of nodes is left open: who is found dead, whether there  *)
(* is a target, whether this node may take a room.  The three tasks that   *)
(* touch no room (sending and hearing heartbeats, routing) are left out.   *)
(***************************************************************************)
EXTENDS Sequences, RoomRecords

CONSTANTS
    Me, Other,   \* this node; any other node
    Callers,     \* threads of the process that join, leave and close the room
    Probes,      \* connections of the health endpoint
    MaxRev,      \* bound on the revisions of other nodes' records
    Asked,       \* listeners that requests to take the room tell of
    MaxInbox,    \* bound on what a task has been sent and has not taken
    Budgets      \* how many joins, leaves, closes, records of others, requests
                 \* to take the room, health checks, snapshots and probes; and
                 \* which tasks get no subscription: one of these combinations

VARIABLES
    phase,     \* what became of the connection to NATS
    endpoint,  \* what became of the health endpoint
    pc,        \* pc[t]: where thread t is
    local,     \* local[t]: the record that t works with
    registry, rooms, inbox,
    count,     \* the counters of migrations in the status
    past,      \* what a careful observer of the calls knows (history)
    raced,     \* two operations on the room have overlapped (history)
    budget     \* what is left of one of Budgets

vars == <<phase, endpoint, pc, local, registry, rooms, inbox, count, past, raced,
          budget>>

Receivers == {"rooms", "snapshots"}
Loops == Receivers \cup {"health", "migrate", "publish"}
Thread == Loops \cup Callers \cup Probes
Workers == Receivers \cup {"migrate"} \cup Callers   \* who changes the room

Labels == {"off", "ended", "idle", "store", "register", "unregister", "send",
           "weigh", "claim", "bump", "bumping", "list", "choose", "attempt",
           "asking", "completed", "failed", "revise", "forget", "handover",
           "ask", "count", "counting"}

RoomState == [owner : {Me, Other, NoNode}, addr : {Me, Other, NoNode},
              listeners : Nat, revision : Nat]
Counters == [attempted : Nat, completed : Nat, failed : Nat]
Past     == [listeners : Nat, newest : RoomState, stale : BOOLEAN]
Limits   == [joins : Nat, leaves : Nat, closes : Nat, foreign : Nat, requests : Nat,
             checks : Nat, snapshots : Nat, probes : Nat, deaf : SUBSET Loops]

ASSUME NodeAssumption == Me # NoNode /\ Other \notin {Me, NoNode}
ASSUME ThreadAssumption ==
    /\ Callers \cap Probes = {}
    /\ (Callers \cup Probes) \cap Loops = {}
ASSUME BoundsAssumption ==
    /\ MaxRev \in Nat /\ MaxInbox \in Nat
    /\ Asked \subseteq Nat /\ Budgets \subseteq Limits

------------------------------------------------------------------------------
(* Locks. *)

\* Mutated form of Holding: add_listener keeps the table while it registers.
HoldingTable(t) ==
    CASE pc[t] = "bumping"  -> {"status"}
      [] pc[t] = "counting" -> {"registry"}
      [] t \in Callers /\ pc[t] = "register" -> {"rooms"}
      [] OTHER -> {}

Holding(t) ==
    CASE pc[t] = "bumping"  -> {"status"}
      [] pc[t] = "counting" -> {"registry"}
      [] OTHER -> {}

\* The lock without which t cannot take its next step, if there is one.
Wants(t) ==
    CASE pc[t] \in {"bump", "attempt", "completed", "failed", "ask"} -> {"status"}
      [] pc[t] \in {"bumping", "list", "choose", "revise", "handover", "weigh",
                    "claim", "register", "unregister", "count"} -> {"registry"}
      [] pc[t] \in {"store", "forget", "counting"} -> {"rooms"}
      [] OTHER -> {}

Free(lock) == \A t \in Thread : lock \notin Holding(t)

Blocked(t) == \E u \in Thread : Wants(t) \cap Holding(u) # {}

Goto(t, label) == pc' = [pc EXCEPT ![t] = label]
Keep(t, room) == local' = [local EXCEPT ![t] = room]
Finish(t) == Goto(t, "idle") /\ Keep(t, NoRoom)

Spend(item) ==
    budget[item] > 0 /\ budget' = [budget EXCEPT ![item] = @ - 1]

------------------------------------------------------------------------------
Init ==
    /\ phase = "starting" /\ endpoint = "none"
    /\ pc = [t \in Thread |-> IF t \in Loops THEN "off" ELSE "idle"]
    /\ local = [t \in Thread |-> NoRoom]
    /\ registry = NoRoom /\ rooms = NoRoom
    /\ inbox = [l \in Receivers |-> <<>>]
    /\ count = [attempted |-> 0, completed |-> 0, failed |-> 0]
    /\ past = [listeners |-> 0, newest |-> NoRoom, stale |-> FALSE]
    /\ raced = FALSE
    /\ budget \in Budgets

tables == <<registry, rooms>>

\* initialize - nothing else runs in the process yet, and there is no room to
\* announce.  A task that gets no subscription ends at once.
Connect ==
    /\ phase = "starting"
    /\ phase' = "joined"
    /\ pc' = [t \in Thread |-> IF t \notin Loops THEN pc[t]
                               ELSE IF t \in budget.deaf THEN "ended" ELSE "idle"]
    /\ UNCHANGED <<endpoint, local, tables, inbox, count, past, budget>>

\* NATS is not reached in time: initialize returns, and is not called again.
ConnectFails ==
    /\ phase = "starting"
    /\ phase' = "alone"
    /\ UNCHANGED <<endpoint, pc, local, tables, inbox, count, past, budget>>

\* serve_health, which run_cluster calls when initialize has returned.
Bind ==
    /\ phase # "starting" /\ endpoint = "none"
    /\ endpoint' \in {"bound", "failed"}
    /\ UNCHANGED <<phase, pc, local, tables, inbox, count, past, budget>>

------------------------------------------------------------------------------
(* Calls: add_listener, remove_listener, remove_room. *)

\* The record that is stored next is built from the one read here.
ReadRoom(t, listeners) ==
    /\ phase = "joined" /\ pc[t] = "idle"
    /\ Free("rooms") /\ Known(rooms)
    /\ Keep(t, WithListeners(rooms, listeners)) /\ Goto(t, "store")
    /\ UNCHANGED <<phase, endpoint, tables, inbox, count>>

AddListener(t) ==
    /\ Spend("joins")
    /\ ReadRoom(t, rooms.listeners + 1)
    /\ past' = [past EXCEPT !.listeners = @ + 1]

RemoveListener(t) ==
    /\ Spend("leaves")
    /\ ReadRoom(t, OneFewer(rooms.listeners))
    /\ past' = [past EXCEPT !.listeners = IF @ = 0 THEN 0 ELSE @ - 1]

CloseRoom(t) ==
    /\ phase = "joined" /\ pc[t] = "idle" /\ Spend("closes")
    /\ Free("rooms") /\ Known(rooms)
    /\ rooms' = NoRoom
    /\ Keep(t, Tombstone(rooms)) /\ Goto(t, "unregister")
    /\ past' = [past EXCEPT !.newest = Tombstone(rooms)]
    /\ UNCHANGED <<phase, endpoint, registry, inbox, count>>

Unregister(t) ==
    /\ pc[t] = "unregister" /\ Free("registry")
    /\ registry' = NoRoom
    /\ Goto(t, "send")
    /\ UNCHANGED <<phase, endpoint, local, rooms, inbox, count, past, budget>>

\* What an observer learns from a record that t puts into the table of rooms:
\* the record of a room taken over counts anew, that of a message may be old.
Observed(t, room) ==
    [listeners |-> IF t = "migrate" THEN room.listeners ELSE past.listeners,
     newest    |-> IF past.newest.revision <= room.revision THEN room ELSE past.newest,
     stale     |-> \/ past.stale
                   \/ room.revision <= past.newest.revision /\ room # past.newest]

\* Mutated form of Store: a call stores its record in the registry only.
StoreLater(t) ==
    /\ pc[t] = "store" /\ Free("rooms")
    /\ rooms' = IF t \in Callers THEN rooms ELSE local[t]
    /\ past' = Observed(t, local[t])
    /\ IF t \in Receivers THEN Finish(t) ELSE Goto(t, "register") /\ UNCHANGED local
    /\ UNCHANGED <<phase, endpoint, registry, inbox, count, budget>>

Store(t) ==
    /\ pc[t] = "store" /\ Free("rooms")
    /\ rooms' = local[t]
    /\ past' = Observed(t, local[t])
    /\ IF t \in Receivers THEN Finish(t) ELSE Goto(t, "register") /\ UNCHANGED local
    /\ UNCHANGED <<phase, endpoint, registry, inbox, count, budget>>

Register(t) ==
    /\ pc[t] = "register" /\ Free("registry")
    /\ registry' = Apply(registry, local[t])
    /\ Goto(t, "send")
    /\ UNCHANGED <<phase, endpoint, local, rooms, inbox, count, past, budget>>

\* A broadcast fails, is lost, or comes back in the order it was sent.
Deliver(l, room) ==
    \/ UNCHANGED inbox
    \/ /\ pc[l] # "ended" /\ Len(inbox[l]) < MaxInbox
       /\ inbox' = [inbox EXCEPT ![l] = Append(@, room)]

\* publish_room, after which the call or the request is answered.
Send(t) ==
    /\ pc[t] = "send"
    /\ Deliver("rooms", local[t])
    /\ Finish(t)
    /\ UNCHANGED <<phase, endpoint, tables, count, past, budget>>

------------------------------------------------------------------------------
(* Background tasks. *)

\* apply_remote_room and apply_remote_snapshot, up to the own table.
Receive(l) ==
    LET room == Head(inbox[l]) IN
    /\ pc[l] = "idle" /\ inbox[l] # <<>> /\ Free("registry")
    /\ inbox' = [inbox EXCEPT ![l] = Tail(@)]
    /\ registry' = Apply(registry, room)
    /\ IF room.owner = Me
       THEN Keep(l, room) /\ Goto(l, "store")
       ELSE UNCHANGED <<local, pc>>
    /\ UNCHANGED <<phase, endpoint, rooms, count, past, budget>>

\* snapshot_publish_loop - a snapshot without rooms changes nothing anywhere.
Collect ==
    /\ pc["publish"] = "idle" /\ Free("registry") /\ registry.owner = Me
    /\ Spend("snapshots")
    /\ Keep("publish", registry) /\ Goto("publish", "send")
    /\ UNCHANGED <<phase, endpoint, tables, inbox, count, past>>

PublishSnapshot ==
    /\ pc["publish"] = "send"
    /\ Deliver("snapshots", local["publish"])
    /\ Finish("publish")
    /\ UNCHANGED <<phase, endpoint, tables, count, past, budget>>

\* handle_migration_request - healthy?, can_accept?, and what is known of the
\* room.  A request that is refused leaves nothing behind.
RequestArrives ==
    /\ pc["migrate"] = "idle" /\ Spend("requests")
    /\ Goto("migrate", "weigh")
    /\ UNCHANGED <<phase, endpoint, local, tables, inbox, count, past>>

Weigh ==
    /\ pc["migrate"] = "weigh" /\ Free("registry")
    /\ \E label \in {"claim", "idle"} : Goto("migrate", label)
    /\ UNCHANGED <<phase, endpoint, local, tables, inbox, count, past, budget>>

Claim(listeners) ==
    /\ pc["migrate"] = "claim" /\ Free("registry")
    /\ Keep("migrate",
            WithOwner(IF Known(registry) THEN registry ELSE NewRoom(listeners), Me))
    /\ Goto("migrate", "store")
    /\ UNCHANGED <<phase, endpoint, tables, inbox, count, past, budget>>

------------------------------------------------------------------------------
(* The health check, and the migration of the room if its owner is dead:   *)
(* local["health"] has the dead owner, then the record the check goes by.  *)

Reap ==
    /\ pc["health"] = "idle" /\ Free("registry")
    /\ Spend("checks")
    /\ \E dead \in {Me, Other, NoNode} :
          Keep("health", [NoRoom EXCEPT !.owner = dead])
    /\ Goto("health", "bump")
    /\ UNCHANGED <<phase, endpoint, tables, inbox, count, past>>

At(label) == pc["health"] = label
Moves(label, room) == Goto("health", label) /\ Keep("health", room)
Checked == Finish("health")
Work == local["health"]
outside == <<phase, endpoint, inbox, past, budget>>

\* The counts of rooms and nodes are taken under both locks.
Bump ==
    /\ At("bump") /\ Free("status")
    /\ Moves("bumping", Work)
    /\ UNCHANGED <<outside, tables, count>>

Bumped ==
    /\ At("bumping") /\ Free("registry")
    /\ IF Work.owner = NoNode THEN Checked ELSE Moves("list", Work)
    /\ UNCHANGED <<outside, tables, count>>

\* Only a room whose owner has been found dead is moved.
ListRooms ==
    /\ At("list") /\ Free("registry")
    /\ IF registry.owner = Work.owner THEN Moves("choose", registry) ELSE Checked
    /\ UNCHANGED <<outside, tables, count>>

ChooseTarget ==
    /\ At("choose") /\ Free("registry")
    /\ Moves("attempt", Work) \/ Checked
    /\ UNCHANGED <<outside, tables, count>>

Attempt ==
    /\ At("attempt") /\ Free("status")
    /\ count' = [count EXCEPT !.attempted = @ + 1]
    /\ Moves("asking", Work)
    /\ UNCHANGED <<outside, tables>>

\* A connection of its own, the request, and the reply, the refusal or the
\* timeout.
Replied ==
    /\ At("asking")
    /\ \E label \in {"completed", "failed"} : Moves(label, Work)
    /\ UNCHANGED <<outside, tables, count>>

\* Mutated form of CountFailed: a failure to connect is not counted.
CountFailedReply ==
    /\ At("failed") /\ Free("status")
    /\ count' \in {count, [count EXCEPT !.failed = @ + 1]}
    /\ Checked
    /\ UNCHANGED <<outside, tables>>

CountFailed ==
    /\ At("failed") /\ Free("status")
    /\ count' = [count EXCEPT !.failed = @ + 1]
    /\ Checked
    /\ UNCHANGED <<outside, tables>>

CountCompleted ==
    /\ At("completed") /\ Free("status")
    /\ count' = [count EXCEPT !.completed = @ + 1]
    /\ Moves("revise", Work)
    /\ UNCHANGED <<outside, tables>>

\* The record of the room as the target's: one revision above what is held.
Revise ==
    /\ At("revise") /\ Free("registry")
    /\ Moves("forget", [owner |-> Other, addr |-> NoNode, listeners |-> Work.listeners,
                        revision |-> registry.revision + 1])
    /\ UNCHANGED <<outside, tables, count>>

ForgetRoom ==
    /\ At("forget") /\ Free("rooms")
    /\ rooms' = NoRoom
    /\ Moves("handover", Work)
    /\ UNCHANGED <<outside, registry, count>>

HandOver ==
    /\ At("handover") /\ Free("registry")
    /\ registry' = Apply(registry, Work)
    /\ Checked
    /\ UNCHANGED <<outside, rooms, count>>

------------------------------------------------------------------------------
(* The health endpoint, and the world outside. *)

\* Mutated form of Serving: the endpoint waits for the node to be connected.
ServingMembers == endpoint = "bound" /\ phase = "joined"

Serving == endpoint = "bound"

\* A connection is refused when nothing listens at the port.
Probe(t) ==
    /\ pc[t] = "idle" /\ endpoint = "bound" /\ Spend("probes")
    /\ Goto(t, "ask")
    /\ UNCHANGED <<phase, endpoint, local, tables, inbox, count, past>>

\* Every request but GET /healthz is answered without any lock.
ReadStatus(t) ==
    /\ pc[t] = "ask" /\ Serving /\ Free("status")
    /\ Goto(t, "count")
    /\ UNCHANGED <<phase, endpoint, local, tables, inbox, count, past, budget>>

LockRegistry(t) ==
    /\ pc[t] = "count" /\ Free("registry")
    /\ Goto(t, "counting")
    /\ UNCHANGED <<phase, endpoint, local, tables, inbox, count, past, budget>>

CountRooms(t) ==
    /\ pc[t] = "counting" /\ Free("rooms")
    /\ Goto(t, "idle")
    /\ UNCHANGED <<phase, endpoint, local, tables, inbox, count, past, budget>>

\* The room is assigned to this node, or another node says that it has it or
\* has closed it, at any revision.
Foreign(l) ==
    /\ phase = "joined" /\ Spend("foreign")
    /\ pc[l] # "ended" /\ Len(inbox[l]) < MaxInbox
    /\ \E room \in {WithOwner(NewRoom(0), Me), NewRoom(0)}
                     \cup {WithOwner([NewRoom(0) EXCEPT !.revision = k], Other) :
                              k \in 1 .. MaxRev - 1}
                     \cup {[NoRoom EXCEPT !.revision = k] : k \in 2 .. MaxRev} :
          inbox' = [inbox EXCEPT ![l] = Append(@, room)]
    /\ UNCHANGED <<phase, endpoint, pc, local, tables, count, past>>

------------------------------------------------------------------------------
Busy(t) ==
    \/ t \in Callers /\ pc[t] \in {"store", "register", "unregister"}
    \/ t \in Receivers /\ pc[t] = "store"
    \/ t = "migrate" /\ pc[t] \in {"store", "register"}
    \/ t = "health" /\ pc[t] \in {"forget", "handover"}

Race == \E t, u \in Thread : t # u /\ Busy(t) /\ Busy(u)

CallerStep(t) ==
    AddListener(t) \/ RemoveListener(t) \/ CloseRoom(t) \/ Unregister(t)

RoomStep(t) == Store(t) \/ Register(t) \/ Send(t)

MigrateStep == RequestArrives \/ Weigh \/ \E k \in Asked : Claim(k)

HealthCheck ==
    \/ Reap \/ Bump \/ Bumped \/ ListRooms \/ ChooseTarget \/ Attempt \/ Replied
    \/ CountFailed \/ CountCompleted \/ Revise \/ ForgetRoom \/ HandOver

\* handle_health_req, status_snapshot.
Answer(t) == ReadStatus(t) \/ LockRegistry(t) \/ CountRooms(t)

Step ==
    \/ Connect \/ ConnectFails \/ Bind
    \/ \E t \in Callers : CallerStep(t)
    \/ \E t \in Workers : RoomStep(t)
    \/ \E l \in Receivers : Receive(l)
    \/ \E l \in Receivers : Foreign(l)
    \/ Collect \/ PublishSnapshot \/ MigrateStep \/ HealthCheck
    \/ \E t \in Probes : Probe(t) \/ Answer(t)

\* A step, and whether two operations overlap after it.
Recorded(A) == A /\ raced' = (raced \/ Race')

Next == Recorded(Step)

Spec == Init /\ [][Next]_vars

------------------------------------------------------------------------------
(* Properties. *)

TypeOK ==
    /\ phase \in {"starting", "joined", "alone"}
    /\ endpoint \in {"none", "bound", "failed"}
    /\ pc \in [Thread -> Labels]
    /\ local \in [Thread -> RoomState]
    /\ registry \in RoomState /\ rooms \in RoomState
    /\ inbox \in [Receivers -> Seq(RoomState)]
    /\ count \in Counters
    /\ past \in Past /\ raced \in BOOLEAN
    /\ budget \in Limits

\* Whoever waits for a lock waits for a thread that can go on: the three locks
\* are taken in one order, and a lock has one holder.
NoDeadlock ==
    /\ \A t, u \in Thread : Holding(t) \cap Holding(u) # {} => t = u
    /\ \A t \in Thread : Blocked(t) =>
          \E u \in Thread : Holding(u) # {} /\ ~Blocked(u)

\* Each migration that was begun is counted as completed or failed, whichever
\* way it goes, or is the one under way.
MigrationsAccountedFor ==
    count.attempted = count.completed + count.failed
       + (IF pc["health"] \in {"asking", "completed", "failed"} THEN 1 ELSE 0)

Quiet == \A t \in Thread : ~Busy(t)

\* As long as no two operations on the room have overlapped, the room that the
\* registry gives to this node is one it can serve, and the own table is not
\* ahead of the registry, that snapshots are taken from.
ServesWhatItOwns ==
    Quiet /\ ~raced =>
        /\ registry.owner = Me => Known(rooms)
        /\ rooms.revision <= registry.revision

\* Every join and every leave has been counted once, if no two operations have
\* overlapped and no older record has come back.
CountsJoins ==
    Quiet /\ ~raced /\ ~past.stale /\ Known(rooms) =>
        rooms.listeners = past.listeners

------------------------------------------------------------------------------
(* Liveness.  A thread that can go on does so.  (In a longer run a thread  *)
(* that waits for a lock would have to get it even if others take it again *)
(* and again; parking_lot's locks are eventually fair.)                    *)

Fairness ==
    /\ \A t \in Callers : WF_vars(Recorded(Unregister(t)))
    /\ \A t \in Workers : WF_vars(Recorded(RoomStep(t)))
    /\ WF_vars(Recorded(PublishSnapshot))
    /\ WF_vars(Recorded(Weigh)) /\ WF_vars(Recorded(\E k \in Asked : Claim(k)))
    /\ WF_vars(Recorded(HealthCheck))
    /\ \A t \in Probes : WF_vars(Recorded(Answer(t)))

FairSpec == Spec /\ Fairness

\* Whoever calls gets an answer; a task that took up a message, a request or a
\* check gets through with it; and the endpoint answers even if the node never
\* reached NATS.
CallsReturn ==
    /\ \A t \in Callers \cup Probes : pc[t] # "idle" ~> pc[t] = "idle"
    /\ \A l \in Loops : pc[l] \notin {"off", "idle", "ended"} ~> pc[l] = "idle"
==============================================================================
