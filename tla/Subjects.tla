------------------------------ MODULE Subjects ------------------------------
(***************************************************************************)
(* Which background task of which node a message reaches                   *)
(* (crates/qm-cluster/src/bus.rs, and the subscriptions in cluster.rs).    *)
(* Pure operators.                                                         *)
(*                                                                         *)
(* A subject is the sequence of tokens between its dots.  An id may have   *)
(* dots of its own, so it is a sequence too.  The server's matching is     *)
(* core NATS: "*" stands for one token, and of the subscribers of a queue  *)
(* one gets the message.  A node is its cluster and its id.                *)
(***************************************************************************)
EXTENDS Sequences, FiniteSets

Star == <<"*">>

SubjectPrefix(cluster) == <<"qm">> \o cluster

HeartbeatSubject(cluster, node) == SubjectPrefix(cluster) \o <<"hb">> \o node
RoomSubject(cluster, room) == SubjectPrefix(cluster) \o <<"room">> \o room
SnapshotSubject(cluster) == RoomSubject(cluster, <<"snapshot">>)
RouteSubject(cluster) == SubjectPrefix(cluster) \o <<"route", "new">>

\* Mutated form of MigrateSubject: requests are not directed to a node.
MigrateSubjectShared(cluster, target) == SubjectPrefix(cluster) \o <<"migrate", "req">>

MigrateSubject(cluster, target) == SubjectPrefix(cluster) \o <<"migrate", "req">> \o target

\* What each background task of a node subscribes to.
Subscription(loop, node) ==
    CASE loop = "heartbeat_recv_loop" -> HeartbeatSubject(node.cluster, Star)
      [] loop = "route_loop" -> RouteSubject(node.cluster)
      [] loop = "migrate_loop" -> MigrateSubject(node.cluster, node.id)
      [] loop = "snapshot_loop" -> SnapshotSubject(node.cluster)
      [] loop = "room_state_loop" -> RoomSubject(node.cluster, Star)

Loops == {"heartbeat_recv_loop", "route_loop", "migrate_loop", "snapshot_loop",
          "room_state_loop"}

\* The tasks that share their messages: one of all nodes gets each.
Queued == {"route_loop", "migrate_loop"}

\* What a message is, and where its sender publishes it; about is the id of the
\* room, or of the target of a migration.
Subject(kind, sender, about) ==
    CASE kind = "heartbeat" -> HeartbeatSubject(sender.cluster, sender.id)
      [] kind = "room" -> RoomSubject(sender.cluster, about)
      [] kind = "snapshot" -> SnapshotSubject(sender.cluster)
      [] kind = "route" -> RouteSubject(sender.cluster)
      [] kind = "migrate" -> MigrateSubject(sender.cluster, about)

\* core NATS: whether a subscription covers a subject.
Covers(pattern, subject) ==
    /\ Len(pattern) = Len(subject)
    /\ \A i \in DOMAIN pattern : pattern[i] \in {"*", subject[i]}

\* decode - the message that a task understands.
Understood(loop) ==
    CASE loop = "heartbeat_recv_loop" -> "heartbeat"
      [] loop = "route_loop" -> "route"
      [] loop = "migrate_loop" -> "migrate"
      [] loop = "snapshot_loop" -> "snapshot"
      [] loop = "room_state_loop" -> "room"

\* Whether the task goes on with a message: it must decode it, and a migration
\* must be for its own node.
Handles(loop, node, kind, about) ==
    kind = Understood(loop) /\ (kind = "migrate" => about = node.id)

\* The <<node, loop>> that get a message: every plain subscriber, and one of
\* each queue.  The possible outcomes.
Deliveries(nodes, kind, sender, about) ==
    LET subject == Subject(kind, sender, about)
        covered == {s \in nodes \X Loops : Covers(Subscription(s[2], s[1]), subject)}
        plain == {s \in covered : s[2] \notin Queued}
    IN  {got \in SUBSET covered :
            /\ plain \subseteq got
            /\ \A loop \in Queued :
                  LET members == {s \in covered : s[2] = loop} IN
                  Cardinality(got \cap members) = IF members = {} THEN 0 ELSE 1}

\* And what comes of it.
Handled(nodes, kind, sender, about) ==
    {{s \in got : Handles(s[2], s[1], kind, about)} :
        got \in Deliveries(nodes, kind, sender, about)}
==============================================================================
