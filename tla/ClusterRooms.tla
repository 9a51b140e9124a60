----------------------------- MODULE ClusterRooms -----------------------------
(***************************************************************************)
(* Room ownership in a QuickMeet cluster (crates/qm-cluster): how every    *)
(* node keeps a view of all rooms from broadcasts and periodic snapshots,  *)
(* how a node found dead has its rooms migrated by a request and a reply,  *)
(* and how the owner's listener counts travel.                             *)
(*                                                                         *)
(* registry[n] is Registry::rooms of node n (the view of the whole         *)
(* cluster), rooms[n] is Cluster::rooms (the rooms n believes it serves).  *)
(* Each handler is one step: what the code does after its local updates is *)
(* only to send.  A broadcast has one copy per running node, the sender    *)
(* included; each copy is lost or delivered once, in any order (core NATS  *)
(* is at-most-once).  A request or a reply that is lost is one that stays  *)
(* in flight until its requester gives up.                                 *)
(*                                                                         *)
(* Health is abstract here: live[n] is the set of nodes n holds to be      *)
(* Live, a health check may find any of them dead, even one that runs      *)
(* (heartbeats get lost, clocks differ, and the window is short), and a    *)
(* heartbeat brings any node back.  A room's stream count, which no        *)
(* handler changes, is the constant Streams, and the role carried next to  *)
(* the media address is left out.                                          *)
(***************************************************************************)
EXTENDS Scheduler, RoomRecords

CONSTANTS
    Idle,         \* a health task that waits for no reply
    MaxRev,       \* bound on revisions
    MaxInFlight,  \* bound on room messages in flight
    Budgets       \* how many health checks find a death, how many of them
                  \* wrongly, how many crashes, how many closes, and the bound
                  \* on listener counts: one of these combinations

VARIABLES
    up,        \* nodes that are running
    live,      \* live[n]: nodes that n's registry holds to be Live
    registry,  \* registry[n][r]: n's view of room r
    rooms,     \* rooms[n][r]: r's record in n's table of its own rooms
    net,       \* room states in flight, one message per receiver
    todo,      \* todo[n]: rooms n's health check still has to migrate
    waiting,   \* waiting[n]: the migration request n awaits the reply to
    requests,  \* migration requests in flight
    replies,   \* replies in flight
    phase,     \* phase[r]: how far the external creation of r has gone
    accepted,  \* <<n, r>> such that n was assigned r or accepted it (history)
    budget     \* what is left of one of Budgets

netVars == <<net, requests, replies>>
taskVars == <<todo, waiting>>
vars == <<up, live, registry, rooms, net, todo, waiting, requests, replies,
          phase, accepted, budget>>

Streams == 1   \* DEFAULT_NEW_ROOM_STREAMS

MaybeNode == Node \cup {NoNode}

RoomState == [owner : MaybeNode, addr : MaybeNode, listeners : Nat, revision : Nat]

Message == [to : Node, id : Room, room : RoomState]
Item    == [room : Room, source : Node, listeners : Nat]
Request == [room : Room, source : Node, target : Node, listeners : Nat]
Pending == [from : MaybeNode, req : Request]
Reply   == [to : Node, ok : BOOLEAN]
Limits  == [deaths : Nat, wrong : Nat, crashes : Nat, closes : Nat,
            listeners : Nat]

ASSUME NoNodeAssumption == NoNode \notin Node
ASSUME IdleAssumption == Idle \notin Request
ASSUME BoundsAssumption ==
    /\ MaxRev \in Nat /\ MaxInFlight \in Nat
    /\ Budgets \subseteq Limits

------------------------------------------------------------------------------
(* Messages. *)

\* One copy of each record to every running node, the sender included.
Copies(id, room) == {[to |-> m, id |-> id, room |-> room] : m \in up}

\* Of the copies, some are lost: at least those that exceed MaxInFlight.
Send(messages) ==
    \E kept \in SUBSET messages :
        /\ Cardinality(net \cup kept) <= MaxInFlight
        /\ net' = net \cup kept

------------------------------------------------------------------------------
Init ==
    /\ up = Node
    /\ live = [n \in Node |-> Node]
    /\ registry = [n \in Node |-> [r \in Room |-> NoRoom]]
    /\ rooms = [n \in Node |-> [r \in Room |-> NoRoom]]
    /\ net = {}
    /\ todo = [n \in Node |-> {}]
    /\ waiting = [n \in Node |-> Idle]
    /\ requests = {}
    /\ replies = {}
    /\ phase = [r \in Room |-> "none"]
    /\ accepted = {}
    /\ budget \in Budgets

------------------------------------------------------------------------------
(* Rooms come from outside: a client announces one that has no owner yet,  *)
(* asks for a route, and announces the owner it was given.                 *)

CreateRoom(r) ==
    /\ phase[r] = "none"
    /\ phase' = [phase EXCEPT ![r] = "created"]
    /\ Send(Copies(r, NewRoom(0)))
    /\ UNCHANGED <<up, live, registry, rooms, taskVars, requests, replies,
                   accepted, budget>>

\* Node n, the one of the queue group that got the request, answers it.
RouteRoom(r, n) ==
    /\ phase[r] = "created" /\ n \in up
    /\ phase' = [phase EXCEPT ![r] = "routed"]
    /\ \E t \in Assign(live[n], registry[n], Streams, 0) :
          /\ Send(Copies(r, WithOwner(NewRoom(0), t)))
          /\ accepted' = accepted \cup {<<t, r>>}
    /\ UNCHANGED <<up, live, registry, rooms, taskVars, requests, replies, budget>>

\* apply_remote_room, and one room of apply_remote_snapshot.
ApplyRemoteRoom(msg) ==
    LET n == msg.to IN
    /\ n \in up
    /\ net' = net \ {msg}
    /\ registry' = [registry EXCEPT ![n][msg.id] = Apply(@, msg.room)]
    /\ rooms' = IF msg.room.owner = n
                THEN [rooms EXCEPT ![n][msg.id] = msg.room]
                ELSE rooms
    /\ UNCHANGED <<up, live, taskVars, requests, replies, phase, accepted, budget>>

\* snapshot_publish_loop - n sends the rooms its registry attributes to it.
PublishSnapshot(n) ==
    /\ n \in up
    /\ OwnedBy(n, registry[n]) # {}
    /\ Send(UNION {Copies(r, registry[n][r]) : r \in OwnedBy(n, registry[n])})
    /\ UNCHANGED <<up, live, registry, rooms, taskVars, requests, replies, phase,
                   accepted, budget>>

\* add_listener and remove_listener end alike: own table, registry, broadcast.
StoreAndPublish(n, r, next) ==
    /\ rooms' = [rooms EXCEPT ![n][r] = next]
    /\ registry' = [registry EXCEPT ![n][r] = Apply(@, next)]
    /\ Send(Copies(r, next))
    /\ UNCHANGED <<up, live, taskVars, requests, replies, phase, accepted, budget>>

AddListener(n, r) ==
    /\ n \in up /\ Known(rooms[n][r])
    /\ rooms[n][r].listeners < budget.listeners /\ rooms[n][r].revision < MaxRev
    /\ StoreAndPublish(n, r, WithListeners(rooms[n][r], rooms[n][r].listeners + 1))

RemoveListener(n, r) ==
    /\ n \in up /\ Known(rooms[n][r])
    /\ rooms[n][r].revision < MaxRev
    /\ StoreAndPublish(n, r, WithListeners(rooms[n][r], OneFewer(rooms[n][r].listeners)))

\* Mutated form of Unregister: the registry keeps the room.
KeepRegistered(n, r) == registry

\* Registry::remove_room.
Unregister(n, r) == [registry EXCEPT ![n][r] = NoRoom]

\* remove_room - forget the room and broadcast an ownerless last state.
RemoveRoom(n, r) ==
    /\ n \in up /\ Known(rooms[n][r])
    /\ rooms[n][r].revision < MaxRev
    /\ budget.closes > 0
    /\ budget' = [budget EXCEPT !.closes = @ - 1]
    /\ rooms' = [rooms EXCEPT ![n][r] = NoRoom]
    /\ registry' = Unregister(n, r)
    /\ Send(Copies(r, Tombstone(rooms[n][r])))
    /\ UNCHANGED <<up, live, taskVars, requests, replies, phase, accepted>>

------------------------------------------------------------------------------
(* Health check and migration, on the node that runs the check. *)

WithDeath(b, wrong) ==
    [deaths |-> b.deaths - 1, wrong |-> IF wrong THEN b.wrong - 1 ELSE b.wrong,
     crashes |-> b.crashes, closes |-> b.closes, listeners |-> b.listeners]

\* health_check up to the list of rooms to migrate.  dead is what reap_dead
\* returns: each node in it was Live, so each death is reported once.
HealthCheck(n, dead) ==
    /\ n \in up /\ todo[n] = {} /\ waiting[n] = Idle
    /\ dead # {} /\ dead \subseteq live[n]
    /\ budget.deaths > 0
    /\ dead \cap up # {} => budget.wrong > 0
    /\ budget' = WithDeath(budget, dead \cap up # {})
    /\ live' = [live EXCEPT ![n] = @ \ dead]
    /\ todo' = [todo EXCEPT ![n] =
          {[room |-> r, source |-> registry[n][r].owner,
            listeners |-> registry[n][r].listeners] :
             r \in {s \in Room : registry[n][s].owner \in dead}}]
    /\ UNCHANGED <<up, registry, rooms, netVars, waiting, phase, accepted>>

Destination(n, item) ==
    MigrationDestination(n, item.source, live[n], registry[n], Streams,
                         item.listeners)

\* No destination, or no connection for the request: on to the next room.
SkipRoom(n, item) ==
    /\ n \in up /\ waiting[n] = Idle
    /\ todo' = [todo EXCEPT ![n] = @ \ {item}]
    /\ UNCHANGED <<up, live, registry, rooms, netVars, waiting, phase, accepted,
                   budget>>

\* migrate_room, up to the request.
RequestMigration(n, item) ==
    /\ n \in up /\ waiting[n] = Idle
    /\ todo' = [todo EXCEPT ![n] = @ \ {item}]
    /\ \E t \in Destination(n, item) :
         LET req == [room |-> item.room, source |-> item.source, target |-> t,
                     listeners |-> item.listeners]
         IN  /\ waiting' = [waiting EXCEPT ![n] = req]
             /\ requests' = requests \cup {[from |-> n, req |-> req]}
    /\ UNCHANGED <<up, live, registry, rooms, net, replies, phase, accepted, budget>>

\* The reply says yes: the requester moves the room in its own view, one
\* revision above what it holds, without a media address, and tells no one.
MigrationAccepted(p) ==
    LET n == p.to
        req == waiting[n]
    IN
    /\ n \in up /\ p.ok /\ req # Idle
    /\ registry[n][req.room].revision < MaxRev
    /\ replies' = replies \ {p}
    /\ waiting' = [waiting EXCEPT ![n] = Idle]
    /\ rooms' = [rooms EXCEPT ![n][req.room] = NoRoom]
    /\ registry' = [registry EXCEPT ![n][req.room] =
          Apply(@, [owner |-> req.target, addr |-> NoNode,
                    listeners |-> req.listeners, revision |-> @.revision + 1])]
    /\ UNCHANGED <<up, live, net, requests, todo, phase, accepted, budget>>

\* The reply says no: it is counted, and nothing else happens.
MigrationRefused(p) ==
    /\ p.to \in up /\ ~p.ok
    /\ replies' = replies \ {p}
    /\ waiting' = [waiting EXCEPT ![p.to] = Idle]
    /\ UNCHANGED <<up, live, registry, rooms, net, requests, todo, phase, accepted,
                   budget>>

\* Mutated form of Abandoned: a late answer still finds its way to n.
StillListening(q, n) == q

\* n no longer listens for the reply to q; q itself may still be under way.
Abandoned(q, n) == IF q.from = n THEN [q EXCEPT !.from = NoNode] ELSE q

MigrationTimeout(n) ==
    /\ n \in up /\ waiting[n] # Idle
    /\ requests' = {Abandoned(q, n) : q \in requests}
    /\ replies' = {p \in replies : p.to # n}
    /\ waiting' = [waiting EXCEPT ![n] = Idle]
    /\ UNCHANGED <<up, live, registry, rooms, net, todo, phase, accepted, budget>>

------------------------------------------------------------------------------
(* handle_migration_request, on the node that was chosen. *)

\* Mutated form of Answer: the reply always says that the room was taken.
AnswerYes(q, ok) ==
    /\ requests' = requests \ {q}
    /\ replies' = IF q.from = NoNode THEN replies
                  ELSE replies \cup {[to |-> q.from, ok |-> TRUE]}

Answer(q, ok) ==
    /\ requests' = requests \ {q}
    /\ replies' = IF q.from = NoNode THEN replies
                  ELSE replies \cup {[to |-> q.from, ok |-> ok]}

\* The record the target takes the room over with.
Claimed(t, req) ==
    WithOwner(IF Known(registry[t][req.room]) THEN registry[t][req.room]
              ELSE NewRoom(req.listeners), t)

Claim(q) ==
    LET t == q.req.target
        r == q.req.room
    IN
    /\ t \in up /\ t \in live[t]
    /\ CanAccept(t, live[t], registry[t], Streams, q.req.listeners)
    /\ registry[t][r].revision < MaxRev
    /\ rooms' = [rooms EXCEPT ![t][r] = Claimed(t, q.req)]
    /\ registry' = [registry EXCEPT ![t][r] = Apply(@, Claimed(t, q.req))]
    /\ accepted' = accepted \cup {<<t, r>>}
    /\ UNCHANGED <<up, live, taskVars, phase, budget>>

AcceptMigration(q) ==
    /\ Claim(q)
    /\ Send(Copies(q.req.room, Claimed(q.req.target, q.req)))
    /\ Answer(q, TRUE)

\* publish_room fails after the local update: refused, but not undone.
ClaimUnpublished(q) ==
    /\ Claim(q)
    /\ UNCHANGED net
    /\ Answer(q, FALSE)

\* Refused: no capacity, or the target's own last heartbeat is older than the
\* health window, which can be the case at any time.
RefuseMigration(q) ==
    /\ q.req.target \in up
    /\ Answer(q, FALSE)
    /\ UNCHANGED <<up, live, registry, rooms, net, taskVars, phase, accepted, budget>>

------------------------------------------------------------------------------
(* Heartbeats, crashes and restarts. *)

\* mark_heartbeat - m may have crashed since it sent this one.
Heartbeat(n, m) ==
    /\ n \in up /\ m \notin live[n]
    /\ live' = [live EXCEPT ![n] = @ \cup {m}]
    /\ UNCHANGED <<up, registry, rooms, netVars, taskVars, phase, accepted, budget>>

\* Mutated form of Forget: the tables survive the restart.
Remember(table, n) == table

\* Everything a node knows is in memory.
Forget(table, n) == [table EXCEPT ![n] = [r \in Room |-> NoRoom]]

Crash(n) ==
    /\ n \in up /\ budget.crashes > 0
    /\ budget' = [budget EXCEPT !.crashes = @ - 1]
    /\ up' = up \ {n}
    /\ live' = [live EXCEPT ![n] = {}]
    /\ registry' = Forget(registry, n)
    /\ rooms' = Forget(rooms, n)
    /\ todo' = [todo EXCEPT ![n] = {}]
    /\ net' = {msg \in net : msg.to # n}
    /\ waiting' = [waiting EXCEPT ![n] = Idle]
    /\ requests' = {Abandoned(q, n) : q \in {s \in requests : s.req.target # n}}
    /\ replies' = {p \in replies : p.to # n}
    /\ UNCHANGED <<phase, accepted>>

\* Mutated form of Registered: the node waits for its own first heartbeat.
Unregistered(n) == {}

\* register_self - of all nodes, a starting one knows only itself.
Registered(n) == {n}

\* Cluster::new and initialize.
Restart(n) ==
    /\ n \notin up
    /\ up' = up \cup {n}
    /\ live' = [live EXCEPT ![n] = Registered(n)]
    /\ UNCHANGED <<registry, rooms, netVars, taskVars, phase, accepted, budget>>

------------------------------------------------------------------------------
Next ==
    \/ \E r \in Room : CreateRoom(r)
    \/ \E r \in Room, n \in Node : RouteRoom(r, n)
    \/ \E msg \in net : ApplyRemoteRoom(msg)
    \/ \E n \in Node : PublishSnapshot(n)
    \/ \E n \in Node, r \in Room : AddListener(n, r)
    \/ \E n \in Node, r \in Room : RemoveListener(n, r)
    \/ \E n \in Node, r \in Room : RemoveRoom(n, r)
    \/ \E n \in Node, dead \in SUBSET Node : HealthCheck(n, dead)
    \/ \E n \in Node : \E item \in todo[n] : SkipRoom(n, item)
    \/ \E n \in Node : \E item \in todo[n] : RequestMigration(n, item)
    \/ \E p \in replies : MigrationAccepted(p)
    \/ \E p \in replies : MigrationRefused(p)
    \/ \E n \in Node : MigrationTimeout(n)
    \/ \E q \in requests : AcceptMigration(q)
    \/ \E q \in requests : ClaimUnpublished(q)
    \/ \E q \in requests : RefuseMigration(q)
    \/ \E n, m \in Node : Heartbeat(n, m)
    \/ \E n \in Node : Crash(n)
    \/ \E n \in Node : Restart(n)

Spec == Init /\ [][Next]_vars

------------------------------------------------------------------------------
(* Properties. *)

TypeOK ==
    /\ up \subseteq Node
    /\ live \in [Node -> SUBSET Node]
    /\ registry \in [Node -> [Room -> RoomState]]
    /\ rooms \in [Node -> [Room -> RoomState]]
    /\ net \subseteq Message
    /\ todo \in [Node -> SUBSET Item]
    /\ waiting \in [Node -> Request \cup {Idle}]
    /\ requests \subseteq Pending
    /\ replies \subseteq Reply
    /\ phase \in [Room -> {"none", "created", "routed"}]
    /\ accepted \subseteq Node \X Room
    /\ budget \in Limits

\* A room the registry attributes to this node is one it can serve: it is in
\* the node's own table, which add_listener and remove_room go by.
OwnedIsLocal ==
    \A n \in Node, r \in Room : registry[n][r].owner = n => Known(rooms[n][r])

\* The own table, which takes every message naming this node whatever its
\* revision, still never gets ahead of the registry, so a snapshot (taken from
\* the registry) never carries less than the newest listener count; and at the
\* same revision the two agree as long as the room is this node's.
LocalBehindRegistry ==
    \A n \in Node, r \in Room : Known(rooms[n][r]) =>
        /\ rooms[n][r].revision <= registry[n][r].revision
        /\ (/\ registry[n][r].owner = n
            /\ registry[n][r].revision = rooms[n][r].revision)
              => registry[n][r] = rooms[n][r]

\* The own table and the registry agree on the rooms a node is to serve.
TablesAgree == OwnedIsLocal /\ LocalBehindRegistry

\* The record without media address that the requester of a migration keeps is
\* never sent, and no node takes another's address with its own ownership: a
\* listener that trusts a message or the owner's own table reaches the owner.
OwnerReachable ==
    /\ \A msg \in net : msg.room.addr = msg.room.owner
    /\ \A n \in Node, r \in Room :
          /\ Known(rooms[n][r]) => rooms[n][r].owner = n /\ rooms[n][r].addr = n
          /\ registry[n][r].owner = n => registry[n][r].addr = n
          /\ registry[n][r].addr \in {registry[n][r].owner, NoNode}

\* A node is the owner of a room in somebody's view only if the room was
\* routed to it or it accepted a migration, whatever requests time out, are
\* refused, or are answered after their requester crashed and came back.
OwnerAccepted ==
    /\ \A n \in Node, r \in Room :
          registry[n][r].owner # NoNode => <<registry[n][r].owner, r>> \in accepted
    /\ \A msg \in net :
          msg.room.owner # NoNode => <<msg.room.owner, msg.id>> \in accepted

\* A reply is for the request its receiver waits for, and each request is
\* answered at most once.
ReplyMatchesRequest ==
    /\ \A q \in requests : q.from # NoNode => waiting[q.from] = q.req
    /\ \A p \in replies :
          /\ waiting[p.to] # Idle
          /\ p.ok => <<waiting[p.to].target, waiting[p.to].room>> \in accepted
          /\ \A o \in replies : o.to = p.to => o = p
          /\ \A q \in requests : q.from # p.to

\* The views of who is Live, which placement and failover go by, change only as
\* Membership's heartbeats and health checks can change them.
Views == INSTANCE HealthViews
ViewsImplemented == Views!Spec

\* The view of a room never goes back to an older revision, except when this
\* very node closes the room or restarts.
ViewNeverGoesBack ==
    [][\A n \in up \cap up', r \in Room :
          \/ registry'[n][r].revision >= registry[n][r].revision
          \/ /\ budget'.closes < budget.closes
             /\ Known(rooms[n][r]) /\ registry'[n][r] = NoRoom]_vars

\* As long as no running node was found dead, no two running nodes hold the
\* room to be their own.
AtMostOneOwner ==
    (\A b \in Budgets : b.wrong <= budget.wrong) =>
        \A r \in Room : \A n, m \in up :
            registry[n][r].owner = n /\ registry[m][r].owner = m => n = m

------------------------------------------------------------------------------
(* Liveness.  The loops of a node never end: each node keeps sending its   *)
(* snapshot, and of the copies it keeps sending to a node some are not     *)
(* lost.  (SF because the bound MaxInFlight disables the sending from time *)
(* to time.)                                                               *)

PublishTo(n, o, r) ==
    /\ PublishSnapshot(o)
    /\ [to |-> n, id |-> r, room |-> registry[o][r]] \in net' \ net

SpreadFairness == \A n, o \in Node, r \in Room : SF_vars(PublishTo(n, o, r))

SpreadSpec == Spec /\ SpreadFairness

\* In the end every running node sees each room as its owner does, if the
\* network empties again and again: a copy arrives, or is lost, well within the
\* seconds between two snapshots.
ViewsConverge ==
    []<>(net = {}) =>
        <>[](\A o \in up, r \in Room : registry[o][r].owner = o =>
                \A n \in up : registry[n][r] = registry[o][r])
==============================================================================
