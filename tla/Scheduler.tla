------------------------------ MODULE Scheduler ------------------------------
(***************************************************************************)
(* The pure scheduling rules of qm-cluster (crates/qm-cluster/src/         *)
(* state.rs, `Node` and `Router`): which node a new room is assigned to,   *)
(* which node a failed node's room is migrated to, and whether a node can  *)
(* accept one.  Every operator reads one node's own view: the set `live`   *)
(* of nodes it holds to be Live, and `view`, its room table (a function    *)
(* from Room to records with at least the fields owner and listeners).     *)
(*                                                                         *)
(* Node ids are naturals, ordered as the code orders the id strings.       *)
(* Config is what each node declares of itself in its heartbeats.  An      *)
(* operator that returns Option<String> in the code returns here a set     *)
(* with at most one element.                                               *)
(***************************************************************************)
EXTENDS Integers, FiniteSets, FiniteSetsExt

CONSTANTS
    Node,    \* node ids
    Room,    \* room ids
    Config   \* Config[n]: role, max_rooms, listener capacity and fanout of n

NodeConfig == [full : BOOLEAN, maxRooms : Nat, capacity : Nat, fanout : Nat]

ASSUME NodeAssumption == Node \subseteq Nat
ASSUME ConfigAssumption == Config \in [Node -> NodeConfig]

AtLeastOne(x) == IF x < 1 THEN 1 ELSE x

\* Node::weight - how many listener slots a node declares.
Weight(m) == AtLeastOne(Config[m].fanout) * AtLeastOne(Config[m].capacity)

OwnedBy(m, view) == {r \in Room : view[r].owner = m}

\* Registry::rooms_on and Registry::listeners_on.
RoomsOn(m, view) == Cardinality(OwnedBy(m, view))
ListenersOn(m, view) ==
    MapThenSumSet(LAMBDA r : view[r].listeners, OwnedBy(m, view))

\* Node::has_capacity_for_room - max_rooms = 0 admits nothing, as in the code.
HasCapacityForRoom(m, view, streams, listeners) ==
    /\ RoomsOn(m, view) < Config[m].maxRooms
    /\ listeners <= Weight(m) \div AtLeastOne(streams)
    /\ ListenersOn(m, view) <= Weight(m)

\* Node::is_schedulable - Live and of the full role.
Schedulable(m, live) == m \in live /\ Config[m].full

\* Router::node_load - room and listener shares in thousandths, at most 2000.
NodeLoad(m, view) ==
    LET roomShare == IF Config[m].maxRooms > 0
                     THEN (RoomsOn(m, view) * 1000) \div Config[m].maxRooms
                     ELSE 1000
        listenerShare == (ListenersOn(m, view) * 1000) \div Weight(m)
    IN  IF roomShare + listenerShare > 2000 THEN 2000
        ELSE roomShare + listenerShare

\* The comparison of both selection loops: lower load, ties by node id.
Beats(a, b, view) ==
    \/ NodeLoad(a, view) < NodeLoad(b, view)
    \/ NodeLoad(a, view) = NodeLoad(b, view) /\ a < b

LightestOf(candidates, view) ==
    {m \in candidates : \A o \in candidates \ {m} : Beats(m, o, view)}

AssignCandidates(live, view, streams, listeners) ==
    {m \in Node : /\ Schedulable(m, live)
                  /\ HasCapacityForRoom(m, view, streams, listeners)}

\* Router::assign - the lightest schedulable node with room to spare.
Assign(live, view, streams, listeners) ==
    LightestOf(AssignCandidates(live, view, streams, listeners), view)

\* Router::migration_destination, run by node self - never self nor the source.
MigrationDestination(self, source, live, view, streams, listeners) ==
    LightestOf(AssignCandidates(live, view, streams, listeners) \ {self, source},
               view)

\* Router::can_accept, run by node self about itself.
CanAccept(self, live, view, streams, listeners) ==
    /\ HasCapacityForRoom(self, view, streams, listeners)
    /\ Schedulable(self, live)
==============================================================================
