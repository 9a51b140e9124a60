------------------------- MODULE ClusterRooms_proofs -------------------------
(***************************************************************************)
(* Proofs about ClusterRooms, for any sets of nodes and rooms and any      *)
(* values of the bounds.                                                   *)
(***************************************************************************)
EXTENDS ClusterRooms, TLAPS

------------------------------------------------------------------------------
(* What the operations on one record return. *)

\* Assign and MigrationDestination choose among the nodes; a migration never
\* goes back to the node that asks for it.
LEMMA DestinationsAreNodes ==
    /\ \A alive, view, streams, listeners :
          Assign(alive, view, streams, listeners) \subseteq Node
    /\ \A n, source, alive, view, streams, listeners :
          MigrationDestination(n, source, alive, view, streams, listeners)
             \subseteq Node \ {n}
  BY DEF Assign, MigrationDestination, LightestOf, AssignCandidates

\* The operations on one record return records; OneFewer never goes below zero.
LEMMA RecordTypes ==
    /\ NoRoom \in RoomState
    /\ \A k \in Nat : [NoRoom EXCEPT !.revision = k] \in RoomState
    /\ \A k \in Nat : NewRoom(k) \in RoomState
    /\ \A room \in RoomState, n \in Node : WithOwner(room, n) \in RoomState
    /\ \A room \in RoomState, k \in Nat : WithListeners(room, k) \in RoomState
    /\ \A a, b \in RoomState : Apply(a, b) \in RoomState
    /\ \A k \in Nat : OneFewer(k) \in Nat
    /\ \A room \in RoomState : /\ room.owner \in MaybeNode
                               /\ room.addr \in MaybeNode
                               /\ room.listeners \in Nat
                               /\ room.revision \in Nat
  <1>1. NoRoom \in RoomState /\ \A k \in Nat : [NoRoom EXCEPT !.revision = k] \in RoomState
    BY DEF NoRoom, RoomState, MaybeNode
  <1>2. \A k \in Nat : NewRoom(k) \in RoomState
    BY DEF RoomState, MaybeNode, NewRoom
  <1>3. \A room \in RoomState, n \in Node : WithOwner(room, n) \in RoomState
    BY DEF RoomState, MaybeNode, WithOwner
  <1>4. \A room \in RoomState, k \in Nat : WithListeners(room, k) \in RoomState
    BY DEF RoomState, WithListeners
  <1>5. \A a, b \in RoomState : Apply(a, b) \in RoomState
    BY DEF Apply
  <1>6. \A k \in Nat : OneFewer(k) \in Nat
    BY DEF OneFewer
  <1>7. \A room \in RoomState : /\ room.owner \in MaybeNode
                                /\ room.addr \in MaybeNode
                                /\ room.listeners \in Nat
                                /\ room.revision \in Nat
    BY DEF RoomState
  <1> QED
    BY <1>1, <1>2, <1>3, <1>4, <1>5, <1>6, <1>7

\* Copies are messages to nodes that run.
LEMMA CopiesType ==
    ASSUME up \subseteq Node, NEW r \in Room, NEW room \in RoomState
    PROVE  Copies(r, room) \subseteq Message
  BY DEF Copies, Message

\* The record a target claims a room with.
LEMMA ClaimedType ==
    ASSUME TypeOK, NEW q \in Pending
    PROVE  Claimed(q.req.target, q.req) \in RoomState
  <1>1. q.req.target \in Node /\ q.req.room \in Room /\ q.req.listeners \in Nat
    BY DEF Pending, Request
  <1>2. registry[q.req.target][q.req.room] \in RoomState
    BY <1>1 DEF TypeOK
  <1>3. NewRoom(q.req.listeners) \in RoomState
    BY <1>1, RecordTypes
  <1> QED
    BY <1>1, <1>2, <1>3, RecordTypes DEF Claimed

\* Each death, crash or close takes one from its budget.
LEMMA BudgetType ==
    ASSUME NEW b \in Limits
    PROVE  /\ b.deaths > 0 => WithDeath(b, FALSE) \in Limits
           /\ b.deaths > 0 /\ b.wrong > 0 => WithDeath(b, TRUE) \in Limits
           /\ b.crashes > 0 => [b EXCEPT !.crashes = @ - 1] \in Limits
           /\ b.closes > 0 => [b EXCEPT !.closes = @ - 1] \in Limits
  BY DEF Limits, WithDeath

------------------------------------------------------------------------------
(* Type correctness. *)

\* The initial state is type correct.
LEMMA InitType == Init => TypeOK
  BY RecordTypes, BoundsAssumption DEF Init, TypeOK

\* Sending typed messages leaves only typed messages in flight.
LEMMA SendType ==
    ASSUME TypeOK, NEW messages \in SUBSET Message, Send(messages)
    PROVE  net' \subseteq Message
  BY DEF TypeOK, Send

\* Every step keeps the types.
LEMMA StepType == TypeOK /\ [Next]_vars => TypeOK'
  <1> SUFFICES ASSUME TypeOK, [Next]_vars PROVE TypeOK'
    OBVIOUS
  <1> USE RecordTypes DEF TypeOK
  <1>1. ASSUME NEW r \in Room, CreateRoom(r) PROVE TypeOK'
    <2>1. net' \subseteq Message
      BY <1>1, CopiesType, SendType DEF CreateRoom
    <2> QED
      BY <1>1, <2>1 DEF CreateRoom, taskVars
  <1>2. ASSUME NEW r \in Room, NEW n \in Node, RouteRoom(r, n) PROVE TypeOK'
    <2>1. PICK t \in Assign(live[n], registry[n], Streams, 0) :
             /\ Send(Copies(r, WithOwner(NewRoom(0), t)))
             /\ accepted' = accepted \cup {<<t, r>>}
      BY <1>2 DEF RouteRoom
    <2>2. t \in Node
      BY <2>1, DestinationsAreNodes
    <2>3. net' \subseteq Message
      BY <2>1, <2>2, CopiesType, SendType
    <2>4. accepted' \subseteq Node \X Room
      BY <2>1, <2>2
    <2>5. phase' \in [Room -> {"none", "created", "routed"}]
      BY <1>2 DEF RouteRoom
    <2> QED
      BY <1>2, <2>3, <2>4, <2>5 DEF RouteRoom, taskVars
  <1>3. ASSUME NEW msg \in net, ApplyRemoteRoom(msg) PROVE TypeOK'
    BY <1>3 DEF ApplyRemoteRoom, Message, taskVars
  <1>4. ASSUME NEW n \in Node, PublishSnapshot(n) PROVE TypeOK'
    <2>1. UNION {Copies(r, registry[n][r]) : r \in OwnedBy(n, registry[n])}
             \subseteq Message
      <3> SUFFICES ASSUME NEW r \in OwnedBy(n, registry[n])
                   PROVE  Copies(r, registry[n][r]) \subseteq Message
        OBVIOUS
      <3>1. r \in Room /\ registry[n][r] \in RoomState
        BY DEF OwnedBy
      <3> QED
        BY <3>1, CopiesType
    <2>2. net' \subseteq Message
      BY <1>4, <2>1, SendType DEF PublishSnapshot
    <2> QED
      BY <1>4, <2>2 DEF PublishSnapshot, taskVars
  <1>5. ASSUME NEW n \in Node, NEW r \in Room, NEW next \in RoomState,
               StoreAndPublish(n, r, next)
        PROVE  TypeOK'
    <2>1. net' \subseteq Message
      BY <1>5, CopiesType, SendType DEF StoreAndPublish
    <2> QED
      BY <1>5, <2>1 DEF StoreAndPublish, taskVars
  <1>6. ASSUME NEW n \in Node, NEW r \in Room, AddListener(n, r) PROVE TypeOK'
    <2>0. rooms[n][r] \in RoomState
      OBVIOUS
    <2>1. rooms[n][r] \in RoomState /\ rooms[n][r].listeners + 1 \in Nat
      BY <2>0
    <2>2. WithListeners(rooms[n][r], rooms[n][r].listeners + 1) \in RoomState
      BY <2>1
    <2> QED
      BY <1>5, <1>6, <2>2 DEF AddListener
  <1>7. ASSUME NEW n \in Node, NEW r \in Room, RemoveListener(n, r) PROVE TypeOK'
    <2>0. rooms[n][r] \in RoomState
      OBVIOUS
    <2>1. rooms[n][r] \in RoomState /\ OneFewer(rooms[n][r].listeners) \in Nat
      BY <2>0
    <2>2. WithListeners(rooms[n][r], OneFewer(rooms[n][r].listeners)) \in RoomState
      BY <2>1
    <2> QED
      BY <1>5, <1>7, <2>2 DEF RemoveListener
  <1>8. ASSUME NEW n \in Node, NEW r \in Room, RemoveRoom(n, r) PROVE TypeOK'
    <2>0. rooms[n][r] \in RoomState
      OBVIOUS
    <2>1. rooms[n][r].revision + 1 \in Nat
      BY <2>0
    <2>2. net' \subseteq Message
      BY <1>8, <2>1, CopiesType, SendType DEF RemoveRoom, Tombstone
    <2>3. budget' \in Limits
      BY <1>8, BudgetType DEF RemoveRoom
    <2> QED
      BY <1>8, <2>2, <2>3 DEF RemoveRoom, Unregister, taskVars
  <1>9. ASSUME NEW n \in Node, NEW dead \in SUBSET Node, HealthCheck(n, dead)
        PROVE  TypeOK'
    <2>1. {[room |-> r, source |-> registry[n][r].owner,
            listeners |-> registry[n][r].listeners] :
             r \in {s \in Room : registry[n][s].owner \in dead}} \subseteq Item
      BY DEF Item, RoomState
    <2>2. budget' \in Limits
      <3>1. CASE dead \cap up = {}
        <4>1. budget' = WithDeath(budget, FALSE)
          BY <1>9, <3>1 DEF HealthCheck, WithDeath
        <4> QED
          BY <1>9, <4>1, BudgetType DEF HealthCheck
      <3>2. CASE dead \cap up # {}
        <4>1. budget' = WithDeath(budget, TRUE)
          BY <1>9, <3>2 DEF HealthCheck, WithDeath
        <4> QED
          BY <1>9, <3>2, <4>1, BudgetType DEF HealthCheck
      <3> QED
        BY <3>1, <3>2
    <2>3. live' \in [Node -> SUBSET Node] /\ todo' \in [Node -> SUBSET Item]
      BY <1>9, <2>1 DEF HealthCheck
    <2> QED
      BY <1>9, <2>2, <2>3 DEF HealthCheck, netVars
  <1>10. ASSUME NEW n \in Node, NEW item \in todo[n], SkipRoom(n, item) PROVE TypeOK'
    BY <1>10 DEF SkipRoom, netVars
  <1>11. ASSUME NEW n \in Node, NEW item \in todo[n], RequestMigration(n, item)
         PROVE  TypeOK'
    <2>1. PICK t \in Destination(n, item) :
             LET req == [room |-> item.room, source |-> item.source, target |-> t,
                         listeners |-> item.listeners]
             IN  /\ waiting' = [waiting EXCEPT ![n] = req]
                 /\ requests' = requests \cup {[from |-> n, req |-> req]}
      BY <1>11 DEF RequestMigration
    <2>2. t \in Node
      BY <2>1, DestinationsAreNodes DEF Destination
    <2>3. [room |-> item.room, source |-> item.source, target |-> t,
           listeners |-> item.listeners] \in Request
      <3>1. item \in Item
        OBVIOUS
      <3> QED
        BY <2>2, <3>1 DEF Item, Request
    <2>4. waiting' \in [Node -> Request \cup {Idle}] /\ requests' \subseteq Pending
      BY <2>1, <2>3 DEF Pending, MaybeNode
    <2>5. todo' \in [Node -> SUBSET Item]
      BY <1>11 DEF RequestMigration
    <2> QED
      BY <1>11, <2>4, <2>5 DEF RequestMigration
  <1>12. ASSUME NEW p \in replies, MigrationAccepted(p) PROVE TypeOK'
    <2>1. p.to \in Node /\ waiting[p.to] \in Request
      BY <1>12 DEF MigrationAccepted, Reply
    <2>2. \A k \in Nat : [owner |-> waiting[p.to].target, addr |-> NoNode,
              listeners |-> waiting[p.to].listeners, revision |-> k + 1] \in RoomState
      BY <2>1 DEF Request, RoomState, MaybeNode
    <2>3. registry[p.to][waiting[p.to].room].revision \in Nat
      BY <2>1 DEF RoomState, Request
    <2>4. registry' \in [Node -> [Room -> RoomState]]
      <3> DEFINE n == p.to
                 r == waiting[n].room
                 old == registry[n][r]
                 new == Apply(old, [owner |-> waiting[n].target, addr |-> NoNode,
                                    listeners |-> waiting[n].listeners,
                                    revision |-> old.revision + 1])
      <3>1. r \in Room /\ old \in RoomState
        BY <2>1 DEF Request
      <3>2. new \in RoomState
        BY <2>2, <2>3, <3>1
      <3>3. registry' = [registry EXCEPT ![n][r] = new]
        BY <1>12 DEF MigrationAccepted
      <3> QED
        BY <2>1, <3>1, <3>2, <3>3
    <2>5. rooms' \in [Node -> [Room -> RoomState]]
      BY <1>12, <2>1 DEF MigrationAccepted, Request
    <2> QED
      BY <1>12, <2>4, <2>5 DEF MigrationAccepted
  <1>13. ASSUME NEW p \in replies, MigrationRefused(p) PROVE TypeOK'
    BY <1>13 DEF MigrationRefused
  <1>14. ASSUME NEW n \in Node, NEW q \in requests PROVE Abandoned(q, n) \in Pending
    BY DEF Abandoned, Pending, MaybeNode
  <1>15. ASSUME NEW n \in Node, MigrationTimeout(n) PROVE TypeOK'
    BY <1>14, <1>15 DEF MigrationTimeout
  <1>16. ASSUME NEW q \in requests, NEW ok \in BOOLEAN, Answer(q, ok)
         PROVE  requests' \subseteq Pending /\ replies' \subseteq Reply
    BY <1>16 DEF Answer, Pending, Reply, MaybeNode
  <1>17. ASSUME NEW q \in requests, Claim(q), net' \subseteq Message,
                requests' \subseteq Pending, replies' \subseteq Reply
         PROVE  TypeOK'
    <2>1. q \in Pending /\ Claimed(q.req.target, q.req) \in RoomState
      BY ClaimedType
    <2>2. q.req.target \in Node /\ q.req.room \in Room
      BY <2>1 DEF Pending, Request
    <2>3. /\ registry' \in [Node -> [Room -> RoomState]]
          /\ rooms' \in [Node -> [Room -> RoomState]]
      BY <1>17, <2>1, <2>2 DEF Claim
    <2>4. accepted' \subseteq Node \X Room
      BY <1>17, <2>2 DEF Claim
    <2> QED
      BY <1>17, <2>3, <2>4 DEF Claim, taskVars
  <1>18. ASSUME NEW q \in requests, AcceptMigration(q) PROVE TypeOK'
    <2>1. Copies(q.req.room, Claimed(q.req.target, q.req)) \subseteq Message
      BY ClaimedType, CopiesType DEF Pending, Request
    <2>2. net' \subseteq Message
      BY <1>18, <2>1, SendType DEF AcceptMigration
    <2> QED
      BY <1>16, <1>17, <1>18, <2>2 DEF AcceptMigration
  <1>19. ASSUME NEW q \in requests, ClaimUnpublished(q) PROVE TypeOK'
    BY <1>16, <1>17, <1>19 DEF ClaimUnpublished
  <1>20. ASSUME NEW q \in requests, RefuseMigration(q) PROVE TypeOK'
    BY <1>16, <1>20 DEF RefuseMigration, taskVars
  <1>21. ASSUME NEW n \in Node, NEW m \in Node, Heartbeat(n, m) PROVE TypeOK'
    BY <1>21 DEF Heartbeat, netVars, taskVars
  <1>22. ASSUME NEW n \in Node, Crash(n) PROVE TypeOK'
    <2>1. requests' \subseteq Pending
      BY <1>14, <1>22 DEF Crash
    <2>2. budget' \in Limits
      BY <1>22, BudgetType DEF Crash
    <2>3. /\ registry' \in [Node -> [Room -> RoomState]]
          /\ rooms' \in [Node -> [Room -> RoomState]]
      BY <1>22 DEF Crash, Forget
    <2> QED
      BY <1>22, <2>1, <2>2, <2>3 DEF Crash
  <1>23. ASSUME NEW n \in Node, Restart(n) PROVE TypeOK'
    BY <1>23 DEF Restart, Registered, netVars, taskVars
  <1>24. CASE UNCHANGED vars
    BY <1>24 DEF vars
  <1> QED
    BY <1>1, <1>2, <1>3, <1>4, <1>6, <1>7, <1>8, <1>9, <1>10, <1>11, <1>12, <1>13,
       <1>15, <1>18, <1>19, <1>20, <1>21, <1>22, <1>23, <1>24 DEF Next

\* The variables of every node keep their types: in particular no listener
\* count and no revision drops below zero, and only requests for rooms and
\* nodes that exist are sent.
THEOREM TypeCorrect == Spec => []TypeOK
  BY InitType, StepType, PTL DEF Spec

------------------------------------------------------------------------------
(* The inductive invariant.  The safety properties of rooms hold one node, *)
(* one room and one message at a time: what n sees of r and what it has in *)
(* its own table are consistent with each other and with who accepted r.   *)

Consistent(n, r, seen, own, acc) ==
    /\ seen.owner = n => Known(own) /\ seen.addr = n
    /\ seen.addr \in {seen.owner, NoNode}
    /\ seen.owner # NoNode => <<seen.owner, r>> \in acc
    /\ Known(own) => /\ own.owner = n /\ own.addr = n
                     /\ <<n, r>> \in acc
                     /\ own.revision <= seen.revision
                     /\ (seen.owner = n /\ seen.revision = own.revision) => seen = own

Sound(msg, acc) ==
    /\ Known(msg.room)
    /\ msg.room.addr = msg.room.owner
    /\ msg.room.owner # NoNode => <<msg.room.owner, msg.id>> \in acc

RoomsInv ==
    /\ \A n \in Node, r \in Room :
          Consistent(n, r, registry[n][r], rooms[n][r], accepted)
    /\ \A msg \in net : Sound(msg, accepted)

\* A migration is never asked of the node that asks.
RequestsGoElsewhere ==
    \A n \in Node : waiting[n] # Idle => waiting[n].target # n

IInv == TypeOK /\ RoomsInv /\ RequestsGoElsewhere /\ ReplyMatchesRequest

\* The safety properties of rooms follow from RoomsInv.
LEMMA RoomsInvImplies ==
    ASSUME TypeOK, RoomsInv
    PROVE  OwnedIsLocal /\ LocalBehindRegistry /\ OwnerReachable /\ OwnerAccepted
  <1>1. OwnedIsLocal
    BY DEF RoomsInv, Consistent, OwnedIsLocal
  <1>2. LocalBehindRegistry
    BY DEF RoomsInv, Consistent, LocalBehindRegistry
  <1>3. OwnerReachable
    BY DEF RoomsInv, Consistent, Sound, OwnerReachable
  <1>4. OwnerAccepted
    BY DEF RoomsInv, Consistent, Sound, OwnerAccepted
  <1> QED
    BY <1>1, <1>2, <1>3, <1>4

\* What a step has to show that changes one record and adds messages.
LEMMA OneRecordChanges ==
    ASSUME TypeOK, RoomsInv,
           NEW n \in Node, NEW r \in Room, NEW seen, NEW own,
           registry' = [registry EXCEPT ![n][r] = seen],
           rooms' = [rooms EXCEPT ![n][r] = own],
           accepted \subseteq accepted',
           Consistent(n, r, seen, own, accepted'),
           \A msg \in net' : msg \in net \/ Sound(msg, accepted')
    PROVE  RoomsInv'
  <1>1. ASSUME NEW m \in Node, NEW s \in Room
        PROVE  Consistent(m, s, registry'[m][s], rooms'[m][s], accepted')
    <2>1. CASE m = n /\ s = r
      <3>1. registry'[m][s] = seen /\ rooms'[m][s] = own
        BY <2>1 DEF TypeOK
      <3> QED
        BY <2>1, <3>1
    <2>2. CASE m # n \/ s # r
      <3>1. registry'[m][s] = registry[m][s] /\ rooms'[m][s] = rooms[m][s]
        BY <2>2 DEF TypeOK
      <3>2. Consistent(m, s, registry[m][s], rooms[m][s], accepted)
        BY DEF RoomsInv
      <3> QED
        BY <3>1, <3>2 DEF Consistent
    <2> QED
      BY <2>1, <2>2
  <1>2. \A msg \in net' : Sound(msg, accepted')
    BY DEF RoomsInv, Sound
  <1> QED
    BY <1>1, <1>2 DEF RoomsInv

\* What a step has to show that changes no record.
LEMMA NoRecordChanges ==
    ASSUME RoomsInv, UNCHANGED <<registry, rooms>>, accepted \subseteq accepted',
           \A msg \in net' : msg \in net \/ Sound(msg, accepted')
    PROVE  RoomsInv'
  <1>1. ASSUME NEW m \in Node, NEW s \in Room
        PROVE  Consistent(m, s, registry'[m][s], rooms'[m][s], accepted')
    <2>1. Consistent(m, s, registry[m][s], rooms[m][s], accepted)
      BY DEF RoomsInv
    <2> QED
      BY <2>1 DEF Consistent
  <1>2. \A msg \in net' : Sound(msg, accepted')
    BY DEF RoomsInv, Sound
  <1> QED
    BY <1>1, <1>2 DEF RoomsInv

\* Broadcasting one record adds only messages with that record.
LEMMA SentCopies ==
    ASSUME NEW r, NEW room, Send(Copies(r, room))
    PROVE  \A msg \in net' : msg \in net \/ (msg.id = r /\ msg.room = room)
  BY DEF Send, Copies

\* Every step keeps the rooms consistent.
LEMMA RoomsStep == IInv /\ [Next]_vars => RoomsInv'
  <1> SUFFICES ASSUME IInv, [Next]_vars PROVE RoomsInv'
    OBVIOUS
  <1>0. TypeOK /\ RoomsInv
    BY DEF IInv
  <1> USE NoNodeAssumption
  <1>1. ASSUME NEW r \in Room, CreateRoom(r) PROVE RoomsInv'
    <2>1. \A msg \in net' : msg \in net \/ (msg.id = r /\ msg.room = NewRoom(0))
      BY <1>1, SentCopies DEF CreateRoom
    <2>2. \A msg \in net' : msg \in net \/ Sound(msg, accepted')
      BY <2>1 DEF Sound, NewRoom, Known
    <2> QED
      BY <1>0, <1>1, <2>2, NoRecordChanges DEF CreateRoom
  <1>2. ASSUME NEW r \in Room, NEW n \in Node, RouteRoom(r, n) PROVE RoomsInv'
    <2>1. PICK t \in Assign(live[n], registry[n], Streams, 0) :
             /\ Send(Copies(r, WithOwner(NewRoom(0), t)))
             /\ accepted' = accepted \cup {<<t, r>>}
      BY <1>2 DEF RouteRoom
    <2>2. \A msg \in net' : \/ msg \in net
                            \/ msg.id = r /\ msg.room = WithOwner(NewRoom(0), t)
      BY <2>1, SentCopies
    <2>3. \A msg \in net' : msg \in net \/ Sound(msg, accepted')
      BY <2>1, <2>2 DEF Sound, NewRoom, WithOwner, Known
    <2> QED
      BY <1>0, <1>2, <2>1, <2>3, NoRecordChanges DEF RouteRoom
  <1>3. ASSUME NEW msg \in net, ApplyRemoteRoom(msg) PROVE RoomsInv'
    <2> DEFINE n == msg.to
               r == msg.id
               seen == Apply(registry[n][r], msg.room)
               own == IF msg.room.owner = n THEN msg.room ELSE rooms[n][r]
    <2>1. /\ n \in Node /\ r \in Room /\ msg.room \in RoomState
          /\ registry[n][r] \in RoomState /\ rooms[n][r] \in RoomState
      BY <1>0 DEF TypeOK, Message
    <2>2. Consistent(n, r, registry[n][r], rooms[n][r], accepted)
      BY <1>0, <2>1 DEF RoomsInv
    <2>3. Sound(msg, accepted)
      BY <1>0 DEF RoomsInv
    <2>4. Consistent(n, r, seen, own, accepted)
      <3>1. /\ registry[n][r].revision \in Nat /\ rooms[n][r].revision \in Nat
            /\ msg.room.revision \in Nat
        BY <2>1, RecordTypes
      <3>2. CASE msg.room.revision < registry[n][r].revision
        BY <2>1, <2>2, <2>3, <3>1, <3>2 DEF Consistent, Sound, Apply, Known
      <3>3. CASE msg.room.revision >= registry[n][r].revision
        BY <2>1, <2>2, <2>3, <3>1, <3>3 DEF Consistent, Sound, Apply, Known
      <3> QED
        BY <3>1, <3>2, <3>3
    <2>5. registry' = [registry EXCEPT ![n][r] = seen]
      BY <1>3 DEF ApplyRemoteRoom
    <2>6. rooms' = [rooms EXCEPT ![n][r] = own]
      BY <1>0, <1>3, <2>1 DEF ApplyRemoteRoom, TypeOK
    <2>7. accepted' = accepted /\ net' \subseteq net
      BY <1>3 DEF ApplyRemoteRoom
    <2> QED
      BY <1>0, <2>1, <2>4, <2>5, <2>6, <2>7, OneRecordChanges
  <1>4. ASSUME NEW n \in Node, PublishSnapshot(n) PROVE RoomsInv'
    <2>1. ASSUME NEW msg \in net' PROVE msg \in net \/ Sound(msg, accepted')
      <3>1. CASE msg \notin net
        <4>1. PICK r \in OwnedBy(n, registry[n]) : msg \in Copies(r, registry[n][r])
          BY <1>4, <3>1 DEF PublishSnapshot, Send
        <4>2. /\ r \in Room /\ registry[n][r].owner = n
              /\ msg.id = r /\ msg.room = registry[n][r]
          BY <4>1 DEF OwnedBy, Copies
        <4>3. Consistent(n, r, registry[n][r], rooms[n][r], accepted)
          BY <1>0, <4>2 DEF RoomsInv
        <4>4. registry[n][r] \in RoomState /\ rooms[n][r] \in RoomState
          BY <1>0, <4>2 DEF TypeOK
        <4>5. accepted' = accepted
          BY <1>4 DEF PublishSnapshot
        <4>6. registry[n][r].revision \in Nat /\ rooms[n][r].revision \in Nat
          BY <4>4, RecordTypes
        <4> QED
          BY <4>2, <4>3, <4>5, <4>6 DEF Consistent, Sound, Known
      <3> QED
        BY <3>1
    <2> QED
      BY <1>0, <1>4, <2>1, NoRecordChanges DEF PublishSnapshot
  <1>5. ASSUME NEW n \in Node, NEW r \in Room, NEW count \in Nat,
               Known(rooms[n][r]),
               StoreAndPublish(n, r, WithListeners(rooms[n][r], count))
        PROVE  RoomsInv'
    <2> DEFINE next == WithListeners(rooms[n][r], count)
    <2>1. registry[n][r] \in RoomState /\ rooms[n][r] \in RoomState
      BY <1>0 DEF TypeOK
    <2>2. Consistent(n, r, registry[n][r], rooms[n][r], accepted)
      BY <1>0 DEF RoomsInv
    <2>3. Consistent(n, r, Apply(registry[n][r], next), next, accepted)
      <3>1. registry[n][r].revision \in Nat /\ rooms[n][r].revision \in Nat
        BY <2>1, RecordTypes
      <3>2. /\ next.owner = n /\ next.addr = n /\ Known(next) /\ <<n, r>> \in accepted
            /\ next.revision = rooms[n][r].revision + 1
        BY <1>5, <2>2, <3>1 DEF Consistent, Known, WithListeners
      <3>3. CASE next.revision < registry[n][r].revision
        BY <2>2, <3>1, <3>2, <3>3 DEF Consistent, Apply
      <3>4. CASE next.revision >= registry[n][r].revision
        BY <2>2, <3>1, <3>2, <3>4 DEF Consistent, Apply
      <3> QED
        BY <3>1, <3>2, <3>3, <3>4
    <2>4. \A msg \in net' : msg \in net \/ (msg.id = r /\ msg.room = next)
      BY <1>5, SentCopies DEF StoreAndPublish
    <2>5. \A msg \in net' : msg \in net \/ Sound(msg, accepted)
      <3>1. rooms[n][r].revision \in Nat
        BY <2>1, RecordTypes
      <3> QED
        BY <1>5, <2>2, <2>4, <3>1 DEF Consistent, Sound, Known, WithListeners
    <2> QED
      BY <1>0, <1>5, <2>3, <2>5, OneRecordChanges DEF StoreAndPublish
  <1>6. ASSUME NEW n \in Node, NEW r \in Room, AddListener(n, r) PROVE RoomsInv'
    <2>1. rooms[n][r].listeners + 1 \in Nat
      BY <1>0, RecordTypes DEF TypeOK
    <2> QED
      BY <1>5, <1>6, <2>1 DEF AddListener
  <1>7. ASSUME NEW n \in Node, NEW r \in Room, RemoveListener(n, r) PROVE RoomsInv'
    <2>1. OneFewer(rooms[n][r].listeners) \in Nat
      BY <1>0, RecordTypes DEF TypeOK
    <2> QED
      BY <1>5, <1>7, <2>1 DEF RemoveListener
  <1>8. ASSUME NEW n \in Node, NEW r \in Room, RemoveRoom(n, r) PROVE RoomsInv'
    <2> DEFINE last == Tombstone(rooms[n][r])
    <2>1. rooms[n][r] \in RoomState
      BY <1>0 DEF TypeOK
    <2>2. Consistent(n, r, NoRoom, NoRoom, accepted)
      BY DEF Consistent, NoRoom, Known
    <2>3. \A msg \in net' : msg \in net \/ (msg.id = r /\ msg.room = last)
      BY <1>8, SentCopies DEF RemoveRoom, Unregister
    <2>4. \A msg \in net' : msg \in net \/ Sound(msg, accepted)
      <3>1. rooms[n][r].revision \in Nat
        BY <2>1, RecordTypes
      <3> QED
        BY <2>3, <3>1 DEF Tombstone, Sound, NoRoom, Known
    <2> QED
      BY <1>0, <1>8, <2>2, <2>4, OneRecordChanges DEF RemoveRoom, Unregister
  <1>9. ASSUME NEW p \in replies, MigrationAccepted(p) PROVE RoomsInv'
    <2> DEFINE n == p.to
               req == waiting[n]
               r == req.room
               old == registry[n][r]
               moved == [owner |-> req.target, addr |-> NoNode,
                         listeners |-> req.listeners, revision |-> old.revision + 1]
    <2>1. n \in Node /\ req \in Request
      BY <1>0, <1>9 DEF MigrationAccepted, TypeOK, Reply
    <2>2. r \in Room /\ req.target \in Node /\ req.target # n
      BY <1>9, <2>1 DEF Request, IInv, RequestsGoElsewhere, MigrationAccepted
    <2>3. <<req.target, r>> \in accepted
      BY <1>9 DEF IInv, ReplyMatchesRequest, MigrationAccepted
    <2>4. old \in RoomState
      BY <1>0, <2>1, <2>2 DEF TypeOK
    <2>5. Apply(old, moved) = moved
      BY <2>4, RecordTypes DEF Apply
    <2>6. Consistent(n, r, moved, NoRoom, accepted)
      BY <2>2, <2>3 DEF Consistent, NoRoom, Known
    <2>7. /\ registry' = [registry EXCEPT ![n][r] = moved]
          /\ rooms' = [rooms EXCEPT ![n][r] = NoRoom]
          /\ UNCHANGED <<net, accepted>>
      BY <1>9, <2>5 DEF MigrationAccepted
    <2> HIDE DEF n, req, r, old, moved
    <2> QED
      BY <1>0, <2>1, <2>2, <2>6, <2>7, OneRecordChanges
  <1>10. ASSUME NEW q \in requests, Claim(q),
                \A msg \in net' : \/ msg \in net
                                   \/ /\ msg.id = q.req.room
                                      /\ msg.room = Claimed(q.req.target, q.req)
         PROVE  RoomsInv'
    <2> DEFINE t == q.req.target
               r == q.req.room
               mine == Claimed(t, q.req)
    <2>1. q \in Pending /\ t \in Node /\ r \in Room /\ q.req.listeners \in Nat
      BY <1>0 DEF TypeOK, Pending, Request
    <2>2. registry[t][r] \in RoomState /\ mine \in RoomState
      BY <1>0, <2>1, ClaimedType DEF TypeOK
    <2>3. /\ mine.owner = t /\ mine.addr = t /\ Known(mine)
          /\ Apply(registry[t][r], mine) = mine
      <3>1. registry[t][r].revision \in Nat
        BY <2>2, RecordTypes
      <3>2. mine.owner = t /\ mine.addr = t
        BY DEF Claimed, WithOwner
      <3>3. mine.revision = IF Known(registry[t][r]) THEN registry[t][r].revision + 1
                            ELSE 2
        BY DEF Claimed, WithOwner, NewRoom
      <3>4. mine.revision > 0 /\ ~(mine.revision < registry[t][r].revision)
        BY <3>1, <3>3 DEF Known
      <3>5. Apply(registry[t][r], mine) = mine
        BY <3>4 DEF Apply
      <3> HIDE DEF mine
      <3> QED
        BY <3>2, <3>4, <3>5 DEF Known
    <2>4. /\ registry' = [registry EXCEPT ![t][r] = mine]
          /\ rooms' = [rooms EXCEPT ![t][r] = mine]
          /\ accepted' = accepted \cup {<<t, r>>}
      BY <1>10, <2>3 DEF Claim
    <2>5. Consistent(t, r, mine, mine, accepted')
      BY <2>1, <2>2, <2>3, <2>4, RecordTypes DEF Consistent
    <2>6. \A msg \in net' : msg \in net \/ Sound(msg, accepted')
      BY <1>10, <2>3, <2>4 DEF Sound
    <2> HIDE DEF t, r, mine
    <2> QED
      BY <1>0, <2>1, <2>4, <2>5, <2>6, OneRecordChanges
  <1>11. ASSUME NEW q \in requests, AcceptMigration(q) PROVE RoomsInv'
    BY <1>10, <1>11, SentCopies DEF AcceptMigration
  <1>12. ASSUME NEW q \in requests, ClaimUnpublished(q) PROVE RoomsInv'
    BY <1>10, <1>12 DEF ClaimUnpublished
  <1>13. ASSUME NEW n \in Node, Crash(n) PROVE RoomsInv'
    <2>1. ASSUME NEW m \in Node, NEW s \in Room
          PROVE  Consistent(m, s, registry'[m][s], rooms'[m][s], accepted')
      <3>1. CASE m = n
        <4>1. registry'[m][s] = NoRoom /\ rooms'[m][s] = NoRoom
          BY <1>0, <1>13, <3>1 DEF Crash, Forget, TypeOK
        <4> QED
          BY <4>1 DEF Consistent, NoRoom, Known
      <3>2. CASE m # n
        <4>1. /\ registry'[m][s] = registry[m][s] /\ rooms'[m][s] = rooms[m][s]
              /\ accepted' = accepted
          BY <1>0, <1>13, <3>2 DEF Crash, Forget, TypeOK
        <4> QED
          BY <1>0, <4>1 DEF RoomsInv
      <3> QED
        BY <3>1, <3>2
    <2>2. \A msg \in net' : Sound(msg, accepted')
      BY <1>0, <1>13 DEF RoomsInv, Crash
    <2> QED
      BY <2>1, <2>2 DEF RoomsInv
  <1>14. ASSUME UNCHANGED <<registry, rooms, net, accepted>> PROVE RoomsInv'
    BY <1>0, <1>14, NoRecordChanges
  <1>15. ASSUME NEW n \in Node, NEW dead \in SUBSET Node, HealthCheck(n, dead)
         PROVE  RoomsInv'
    BY <1>14, <1>15 DEF HealthCheck, netVars
  <1>16. ASSUME NEW n \in Node, NEW item \in todo[n],
                SkipRoom(n, item) \/ RequestMigration(n, item)
         PROVE  RoomsInv'
    BY <1>14, <1>16 DEF SkipRoom, RequestMigration, netVars
  <1>17. ASSUME NEW p \in replies, MigrationRefused(p) PROVE RoomsInv'
    BY <1>14, <1>17 DEF MigrationRefused
  <1>18. ASSUME NEW n \in Node, MigrationTimeout(n) \/ Restart(n) PROVE RoomsInv'
    BY <1>14, <1>18 DEF MigrationTimeout, Restart, netVars
  <1>19. ASSUME NEW q \in requests, RefuseMigration(q) PROVE RoomsInv'
    BY <1>14, <1>19 DEF RefuseMigration
  <1>20. ASSUME NEW n \in Node, NEW m \in Node, Heartbeat(n, m) PROVE RoomsInv'
    BY <1>14, <1>20 DEF Heartbeat, netVars
  <1>21. CASE UNCHANGED vars
    BY <1>14, <1>21 DEF vars
  <1> QED
    BY <1>1, <1>2, <1>3, <1>4, <1>6, <1>7, <1>8, <1>9, <1>11, <1>12, <1>13, <1>15,
       <1>16, <1>17, <1>18, <1>19, <1>20, <1>21 DEF Next

------------------------------------------------------------------------------
(* Requests and replies. *)

MigrationInv == RequestsGoElsewhere /\ ReplyMatchesRequest

\* A node that waits for nothing has no request and no reply under way.
LEMMA NothingPending ==
    ASSUME IInv, NEW n \in Node, waiting[n] = Idle
    PROVE  /\ \A q \in requests : q.from # n
           /\ \A p \in replies : p.to # n
  <1>1. ASSUME NEW q \in requests PROVE q.from # n
    <2>1. q.req \in Request
      BY DEF IInv, TypeOK, Pending
    <2>2. q.req # Idle
      BY <2>1, IdleAssumption
    <2>3. n # NoNode
      BY NoNodeAssumption
    <2> QED
      BY <2>2, <2>3 DEF IInv, ReplyMatchesRequest
  <1>2. \A p \in replies : p.to # n
    BY DEF IInv, ReplyMatchesRequest
  <1> QED
    BY <1>1, <1>2

\* Answering a request uses it up: no other request of its sender is left.
LEMMA AnswerStep ==
    ASSUME IInv, NEW q \in requests, NEW ok \in BOOLEAN, Answer(q, ok),
           UNCHANGED waiting, accepted \subseteq accepted',
           ok => <<q.req.target, q.req.room>> \in accepted'
    PROVE  MigrationInv'
  <1>1. requests' = requests \ {q}
    BY DEF Answer
  <1>2. ASSUME NEW s \in requests', q.from # NoNode PROVE s.from # q.from
    <2>1. s \in requests /\ s # q /\ s \in Pending /\ q \in Pending
      BY <1>1 DEF IInv, TypeOK
    <2>2. s.from = q.from => s.req = q.req
      BY <1>2, <2>1 DEF IInv, ReplyMatchesRequest
    <2> QED
      BY <2>1, <2>2 DEF Pending
  <1>3. ASSUME NEW s \in requests', s.from # NoNode PROVE waiting'[s.from] = s.req
    BY <1>1, <1>3 DEF IInv, ReplyMatchesRequest
  <1>4. CASE q.from = NoNode
    <2>1. replies' = replies
      BY <1>4 DEF Answer
    <2> QED
      BY <1>1, <1>3, <2>1 DEF IInv, MigrationInv, ReplyMatchesRequest, RequestsGoElsewhere
  <1>5. CASE q.from # NoNode
    <2> DEFINE new == [to |-> q.from, ok |-> ok]
    <2>1. replies' = replies \cup {new}
      BY <1>5 DEF Answer
    <2>2. waiting[q.from] = q.req /\ q.req # Idle
      BY <1>5, IdleAssumption DEF IInv, ReplyMatchesRequest, TypeOK, Pending
    <2>3. \A o \in replies : o.to # q.from
      BY <1>5 DEF IInv, ReplyMatchesRequest
    <2>4. ASSUME NEW p \in replies'
          PROVE  /\ waiting'[p.to] # Idle
                 /\ p.ok => <<waiting'[p.to].target, waiting'[p.to].room>> \in accepted'
                 /\ \A o \in replies' : o.to = p.to => o = p
                 /\ \A s \in requests' : s.from # p.to
      <3>1. CASE p = new
        BY <1>2, <1>5, <2>1, <2>2, <2>3, <3>1
      <3>2. CASE p \in replies
        <4>1. p.to # q.from
          BY <2>3, <3>2
        <4> QED
          BY <1>1, <2>1, <3>2, <4>1 DEF IInv, ReplyMatchesRequest
      <3> QED
        BY <2>1, <3>1, <3>2
    <2>5. ReplyMatchesRequest'
      BY <1>3, <2>4 DEF ReplyMatchesRequest
    <2> QED
      BY <2>5 DEF IInv, MigrationInv, RequestsGoElsewhere
  <1> QED
    BY <1>4, <1>5

\* Giving up: n waits for nothing, and nothing of n is under way.
LEMMA GiveUpStep ==
    ASSUME IInv, NEW n \in Node, waiting' = [waiting EXCEPT ![n] = Idle],
           \A s \in requests' : s.from # n /\ (s.from # NoNode => s \in requests),
           \A p \in replies' : p \in replies /\ p.to # n,
           accepted' = accepted
    PROVE  MigrationInv'
  <1>1. \A m \in Node : m # n => waiting'[m] = waiting[m]
    BY DEF IInv, TypeOK
  <1>2. waiting'[n] = Idle
    BY DEF IInv, TypeOK
  <1>3. RequestsGoElsewhere'
    BY <1>1, <1>2 DEF IInv, RequestsGoElsewhere
  <1>4. ASSUME NEW s \in requests', s.from # NoNode PROVE waiting'[s.from] = s.req
    <2>1. s \in requests /\ s.from # n /\ s.from \in Node
      BY <1>4 DEF IInv, TypeOK, Pending, MaybeNode
    <2> QED
      BY <1>1, <1>4, <2>1 DEF IInv, ReplyMatchesRequest
  <1>5. ASSUME NEW p \in replies'
        PROVE  /\ waiting'[p.to] # Idle
               /\ p.ok => <<waiting'[p.to].target, waiting'[p.to].room>> \in accepted'
               /\ \A o \in replies' : o.to = p.to => o = p
               /\ \A s \in requests' : s.from # p.to
    <2>1. p \in replies /\ p.to # n /\ p.to \in Node
      BY DEF IInv, TypeOK, Reply
    <2>2. waiting'[p.to] = waiting[p.to]
      BY <1>1, <2>1
    <2>3. p.to # NoNode
      BY <2>1, NoNodeAssumption
    <2> QED
      BY <2>1, <2>2, <2>3 DEF IInv, ReplyMatchesRequest
  <1> QED
    BY <1>3, <1>4, <1>5 DEF MigrationInv, ReplyMatchesRequest

\* Every step keeps requests and replies matched to what their nodes wait for.
LEMMA MigrationStep == IInv /\ [Next]_vars => MigrationInv'
  <1> SUFFICES ASSUME IInv, [Next]_vars PROVE MigrationInv'
    OBVIOUS
  <1>0. TypeOK
    BY DEF IInv
  <1>1. ASSUME UNCHANGED <<waiting, requests, replies>>, accepted \subseteq accepted'
        PROVE  MigrationInv'
    BY <1>1 DEF IInv, MigrationInv, RequestsGoElsewhere, ReplyMatchesRequest
  <1>2. ASSUME NEW n \in Node, NEW item \in todo[n], RequestMigration(n, item)
        PROVE  MigrationInv'
    <2>1. PICK t \in Destination(n, item) :
             LET req == [room |-> item.room, source |-> item.source, target |-> t,
                         listeners |-> item.listeners]
             IN  /\ waiting' = [waiting EXCEPT ![n] = req]
                 /\ requests' = requests \cup {[from |-> n, req |-> req]}
      BY <1>2 DEF RequestMigration
    <2> DEFINE req == [room |-> item.room, source |-> item.source, target |-> t,
                       listeners |-> item.listeners]
    <2>2. t # n /\ t \in Node
      BY <2>1, DestinationsAreNodes DEF Destination
    <2>3. item.room \in Room /\ item.source \in Node /\ item.listeners \in Nat
      BY <1>0 DEF TypeOK, Item
    <2>4. req \in Request /\ req # Idle /\ req.target = t
      BY <2>2, <2>3, IdleAssumption DEF Request
    <2>5. /\ \A q \in requests : q.from # n
          /\ \A p \in replies : p.to # n
      BY <1>2, NothingPending DEF RequestMigration
    <2>6. /\ waiting'[n] = req
          /\ \A m \in Node : m # n => waiting'[m] = waiting[m]
      BY <1>0, <2>1 DEF TypeOK
    <2>7. requests' = requests \cup {[from |-> n, req |-> req]}
      BY <2>1
    <2>8. replies' = replies /\ accepted' = accepted
      BY <1>2 DEF RequestMigration
    <2> HIDE DEF req
    <2>9. RequestsGoElsewhere'
      BY <2>2, <2>4, <2>6 DEF IInv, RequestsGoElsewhere
    <2>10. ASSUME NEW s \in requests', s.from # NoNode PROVE waiting'[s.from] = s.req
      <3>1. CASE s \in requests
        <4>1. s.from \in Node /\ s.from # n
          BY <1>0, <2>5, <2>10, <3>1 DEF TypeOK, Pending, MaybeNode
        <4> QED
          BY <2>6, <2>10, <3>1, <4>1 DEF IInv, ReplyMatchesRequest
      <3>2. CASE s = [from |-> n, req |-> req]
        BY <2>6, <3>2
      <3> QED
        BY <2>7, <3>1, <3>2
    <2>11. ASSUME NEW p \in replies'
           PROVE  /\ waiting'[p.to] # Idle
                  /\ p.ok => <<waiting'[p.to].target, waiting'[p.to].room>> \in accepted'
                  /\ \A o \in replies' : o.to = p.to => o = p
                  /\ \A s \in requests' : s.from # p.to
      <3>1. p \in replies /\ p.to \in Node /\ p.to # n
        BY <1>0, <2>5, <2>8 DEF TypeOK, Reply
      <3>2. waiting'[p.to] = waiting[p.to]
        BY <2>6, <3>1
      <3> QED
        BY <2>7, <2>8, <3>1, <3>2 DEF IInv, ReplyMatchesRequest
    <2> QED
      BY <2>9, <2>10, <2>11 DEF MigrationInv, ReplyMatchesRequest
  <1>3. ASSUME NEW p \in replies, NEW n \in Node, n = p.to,
               waiting' = [waiting EXCEPT ![n] = Idle], replies' = replies \ {p},
               UNCHANGED <<requests, accepted>>
        PROVE  MigrationInv'
    <2>1. \A s \in requests' : s.from # n
      BY <1>3 DEF IInv, ReplyMatchesRequest
    <2>2. \A o \in replies' : o \in replies /\ o.to # n
      BY <1>3 DEF IInv, ReplyMatchesRequest
    <2> QED
      BY <1>3, <2>1, <2>2, GiveUpStep
  <1>4. ASSUME NEW p \in replies, MigrationAccepted(p) \/ MigrationRefused(p)
        PROVE  MigrationInv'
    <2>1. p.to \in Node
      BY <1>0 DEF TypeOK, Reply
    <2> QED
      BY <1>3, <1>4, <2>1 DEF MigrationAccepted, MigrationRefused
  <1>5. ASSUME NEW n \in Node, NEW S \in SUBSET requests,
               waiting' = [waiting EXCEPT ![n] = Idle],
               requests' = {Abandoned(q, n) : q \in S},
               replies' = {p \in replies : p.to # n}, accepted' = accepted
        PROVE  MigrationInv'
    <2>1. ASSUME NEW s \in requests'
          PROVE  s.from # n /\ (s.from # NoNode => s \in requests)
      <3>1. PICK q \in S : s = Abandoned(q, n)
        BY <1>5
      <3>2. q \in requests /\ q \in Pending
        BY <1>0, <3>1 DEF TypeOK
      <3>3. CASE q.from = n
        BY <3>1, <3>2, <3>3, NoNodeAssumption DEF Abandoned, Pending
      <3>4. CASE q.from # n
        BY <3>1, <3>2, <3>4 DEF Abandoned
      <3> QED
        BY <3>3, <3>4
    <2> QED
      BY <1>5, <2>1, GiveUpStep
  <1>6. ASSUME NEW n \in Node, MigrationTimeout(n) PROVE MigrationInv'
    BY <1>5, <1>6 DEF MigrationTimeout
  <1>7. ASSUME NEW n \in Node, Crash(n) PROVE MigrationInv'
    BY <1>5, <1>7 DEF Crash
  <1>8. ASSUME NEW q \in requests, AcceptMigration(q) PROVE MigrationInv'
    BY <1>8, AnswerStep DEF AcceptMigration, Claim, taskVars
  <1>9. ASSUME NEW q \in requests, ClaimUnpublished(q) PROVE MigrationInv'
    BY <1>9, AnswerStep DEF ClaimUnpublished, Claim, taskVars
  <1>10. ASSUME NEW q \in requests, RefuseMigration(q) PROVE MigrationInv'
    BY <1>10, AnswerStep DEF RefuseMigration, taskVars
  <1>11. ASSUME NEW r \in Room, CreateRoom(r) PROVE MigrationInv'
    BY <1>1, <1>11 DEF CreateRoom, taskVars
  <1>12. ASSUME NEW r \in Room, NEW n \in Node, RouteRoom(r, n) PROVE MigrationInv'
    <2>1. accepted \subseteq accepted'
      BY <1>12 DEF RouteRoom
    <2> QED
      BY <1>1, <1>12, <2>1 DEF RouteRoom, taskVars
  <1>13. ASSUME NEW msg \in net, ApplyRemoteRoom(msg) PROVE MigrationInv'
    BY <1>1, <1>13 DEF ApplyRemoteRoom, taskVars
  <1>14. ASSUME NEW n \in Node, PublishSnapshot(n) PROVE MigrationInv'
    BY <1>1, <1>14 DEF PublishSnapshot, taskVars
  <1>15. ASSUME NEW n \in Node, NEW r \in Room, AddListener(n, r) PROVE MigrationInv'
    BY <1>1, <1>15 DEF AddListener, StoreAndPublish, taskVars
  <1>16. ASSUME NEW n \in Node, NEW r \in Room, RemoveListener(n, r)
         PROVE  MigrationInv'
    BY <1>1, <1>16 DEF RemoveListener, StoreAndPublish, taskVars
  <1>17. ASSUME NEW n \in Node, NEW r \in Room, RemoveRoom(n, r) PROVE MigrationInv'
    BY <1>1, <1>17 DEF RemoveRoom, Unregister, taskVars
  <1>18. ASSUME NEW n \in Node, NEW dead \in SUBSET Node, HealthCheck(n, dead)
         PROVE  MigrationInv'
    BY <1>1, <1>18 DEF HealthCheck, netVars
  <1>19. ASSUME NEW n \in Node, NEW item \in todo[n], SkipRoom(n, item)
         PROVE  MigrationInv'
    BY <1>1, <1>19 DEF SkipRoom, netVars
  <1>20. ASSUME NEW n \in Node, NEW m \in Node, Heartbeat(n, m) PROVE MigrationInv'
    BY <1>1, <1>20 DEF Heartbeat, netVars, taskVars
  <1>21. ASSUME NEW n \in Node, Restart(n) PROVE MigrationInv'
    BY <1>1, <1>21 DEF Restart, netVars, taskVars
  <1>22. CASE UNCHANGED vars
    BY <1>1, <1>22 DEF vars
  <1> QED
    BY <1>2, <1>4, <1>6, <1>7, <1>8, <1>9, <1>10, <1>11, <1>12, <1>13, <1>14, <1>15,
       <1>16, <1>17, <1>18, <1>19, <1>20, <1>21, <1>22 DEF Next

------------------------------------------------------------------------------
(* The theorems. *)

\* The invariant holds initially.
LEMMA InitInv == Init => IInv
  <1> SUFFICES ASSUME Init PROVE IInv
    OBVIOUS
  <1>1. TypeOK
    BY InitType
  <1>2. RoomsInv
    BY NoNodeAssumption DEF Init, RoomsInv, Consistent, NoRoom, Known
  <1>3. RequestsGoElsewhere /\ ReplyMatchesRequest
    BY DEF Init, RequestsGoElsewhere, ReplyMatchesRequest
  <1> QED
    BY <1>1, <1>2, <1>3 DEF IInv

\* The invariant is inductive.
LEMMA InvStep == IInv /\ [Next]_vars => IInv'
  BY StepType, RoomsStep, MigrationStep DEF IInv, MigrationInv

\* The inductive invariant holds in every reachable state (of all the handlers of
\* cluster.rs taken together).
THEOREM Inductive == Spec => []IInv
  BY InitInv, InvStep, PTL DEF Spec

\* Whatever messages are lost, reordered or answered late, a room that a
\* registry gives to its own node is in that node's table (add_listener and
\* remove_room find it), and no table is ahead of its registry.
THEOREM TablesConsistent == Spec => []TablesAgree
  <1>1. IInv => TablesAgree
    BY RoomsInvImplies DEF IInv, TablesAgree
  <1> QED
    BY <1>1, Inductive, PTL

\* The address a room is announced with is that of the node it is announced for.
THEOREM OwnersReachable == Spec => []OwnerReachable
  <1>1. IInv => OwnerReachable
    BY RoomsInvImplies DEF IInv
  <1> QED
    BY <1>1, Inductive, PTL

\* Nobody is taken for the owner of a room who was not assigned it and did not
\* accept it (handle_migration_request).
THEOREM OwnersAccepted == Spec => []OwnerAccepted
  <1>1. IInv => OwnerAccepted
    BY RoomsInvImplies DEF IInv
  <1> QED
    BY <1>1, Inductive, PTL

\* migrate_room never takes a reply for that of another request, through
\* timeouts, crashes and restarts of either side.
THEOREM RepliesMatch == Spec => []ReplyMatchesRequest
  <1>1. IInv => ReplyMatchesRequest
    BY DEF IInv
  <1> QED
    BY <1>1, Inductive, PTL

\* Apply never returns an older record than the current one.
LEMMA ApplyNotOlder ==
    ASSUME NEW a \in RoomState, NEW b \in RoomState
    PROVE  Apply(a, b).revision >= a.revision
  <1>1. a.revision \in Nat /\ b.revision \in Nat
    BY RecordTypes
  <1> QED
    BY <1>1 DEF Apply

\* apply_room guards every way into the view: no step takes the view of a
\* room back to an older revision, except where this very node closes it.
THEOREM ViewMonotone == Spec => ViewNeverGoesBack
  <1> DEFINE Newer(n, r) ==
               \/ registry'[n][r].revision >= registry[n][r].revision
               \/ /\ budget'.closes < budget.closes
                  /\ Known(rooms[n][r]) /\ registry'[n][r] = NoRoom
             Kept == \A n \in up \cap up', r \in Room : Newer(n, r)
  <1>1. ASSUME TypeOK, [Next]_vars PROVE Kept
    <2>1. ASSUME NEW m \in Node, NEW s \in Room, NEW room \in RoomState,
                 registry' = [registry EXCEPT ![m][s] = Apply(@, room)]
          PROVE  Kept
      <3> SUFFICES ASSUME NEW n \in up \cap up', NEW r \in Room
                   PROVE  registry'[n][r].revision >= registry[n][r].revision
        OBVIOUS
      <3>1. n \in Node /\ registry[n][r] \in RoomState /\ registry[n][r].revision \in Nat
        BY <1>1, RecordTypes DEF TypeOK
      <3>2. CASE n = m /\ r = s
        <4>1. registry'[n][r] = Apply(registry[n][r], room)
          BY <1>1, <2>1, <3>1, <3>2 DEF TypeOK
        <4> QED
          BY <3>1, <4>1, ApplyNotOlder
      <3>3. CASE n # m \/ r # s
        <4>1. registry'[n][r] = registry[n][r]
          BY <1>1, <2>1, <3>1, <3>3 DEF TypeOK
        <4> QED
          BY <3>1, <4>1
      <3> QED
        BY <3>2, <3>3
    <2>2. ASSUME registry' = registry PROVE Kept
      <3> SUFFICES ASSUME NEW n \in up \cap up', NEW r \in Room
                   PROVE  registry'[n][r].revision >= registry[n][r].revision
        OBVIOUS
      <3>1. registry[n][r].revision \in Nat
        BY <1>1, RecordTypes DEF TypeOK
      <3> QED
        BY <2>2, <3>1
    <2>3. ASSUME NEW msg \in net, ApplyRemoteRoom(msg) PROVE Kept
      <3>1. msg.to \in Node /\ msg.id \in Room /\ msg.room \in RoomState
        BY <1>1 DEF TypeOK, Message
      <3> QED
        BY <2>1, <2>3, <3>1 DEF ApplyRemoteRoom
    <2>4. ASSUME NEW n \in Node, NEW r \in Room, AddListener(n, r) PROVE Kept
      <3>1. rooms[n][r] \in RoomState
        BY <1>1 DEF TypeOK
      <3>2. rooms[n][r].listeners + 1 \in Nat
        BY <3>1, RecordTypes
      <3>3. WithListeners(rooms[n][r], rooms[n][r].listeners + 1) \in RoomState
        BY <3>1, <3>2, RecordTypes
      <3> QED
        BY <2>1, <2>4, <3>3 DEF AddListener, StoreAndPublish
    <2>5. ASSUME NEW n \in Node, NEW r \in Room, RemoveListener(n, r) PROVE Kept
      <3>1. rooms[n][r] \in RoomState
        BY <1>1 DEF TypeOK
      <3>2. WithListeners(rooms[n][r], OneFewer(rooms[n][r].listeners)) \in RoomState
        BY <3>1, RecordTypes
      <3> QED
        BY <2>1, <2>5, <3>2 DEF RemoveListener, StoreAndPublish
    <2>6. ASSUME NEW m \in Node, NEW s \in Room, RemoveRoom(m, s) PROVE Kept
      <3> SUFFICES ASSUME NEW n \in up \cap up', NEW r \in Room PROVE Newer(n, r)
        OBVIOUS
      <3>1. n \in Node /\ registry[n][r].revision \in Nat /\ budget.closes \in Nat
        BY <1>1, RecordTypes DEF TypeOK, Limits
      <3>2. CASE n = m /\ r = s
        <4>1. registry'[n][r] = NoRoom /\ Known(rooms[n][r])
          BY <1>1, <2>6, <3>1, <3>2 DEF TypeOK, RemoveRoom, Unregister
        <4>2. budget'.closes < budget.closes
          BY <1>1, <2>6, <3>1 DEF TypeOK, Limits, RemoveRoom, Unregister
        <4> QED
          BY <4>1, <4>2
      <3>3. CASE n # m \/ r # s
        <4>1. registry'[n][r] = registry[n][r]
          BY <1>1, <2>6, <3>1, <3>3 DEF TypeOK, RemoveRoom, Unregister
        <4> QED
          BY <3>1, <4>1
      <3> QED
        BY <3>2, <3>3
    <2>7. ASSUME NEW p \in replies, MigrationAccepted(p) PROVE Kept
      <3>1. p.to \in Node /\ waiting[p.to] \in Request
        BY <1>1, <2>7 DEF TypeOK, Reply, MigrationAccepted
      <3>2. waiting[p.to].room \in Room
        BY <3>1 DEF Request
      <3>3. registry[p.to][waiting[p.to].room].revision + 1 \in Nat
        BY <1>1, <3>1, <3>2, RecordTypes DEF TypeOK
      <3>4. [owner |-> waiting[p.to].target, addr |-> NoNode,
             listeners |-> waiting[p.to].listeners,
             revision |-> registry[p.to][waiting[p.to].room].revision + 1] \in RoomState
        BY <3>1, <3>3 DEF Request, RoomState, MaybeNode
      <3> QED
        BY <2>1, <2>7, <3>1, <3>2, <3>4 DEF MigrationAccepted
    <2>8. ASSUME NEW q \in requests, Claim(q) PROVE Kept
      <3>1. q \in Pending /\ q.req.target \in Node /\ q.req.room \in Room
        BY <1>1 DEF TypeOK, Pending, Request
      <3>2. Claimed(q.req.target, q.req) \in RoomState
        BY <1>1, <3>1, ClaimedType
      <3> QED
        BY <2>1, <2>8, <3>1, <3>2 DEF Claim
    <2>9. ASSUME NEW m \in Node, Crash(m) PROVE Kept
      <3> SUFFICES ASSUME NEW n \in up \cap up', NEW r \in Room
                   PROVE  registry'[n][r].revision >= registry[n][r].revision
        OBVIOUS
      <3>1. n \in Node /\ n # m /\ registry[n][r].revision \in Nat
        BY <1>1, <2>9, RecordTypes DEF TypeOK, Crash
      <3>2. registry'[n][r] = registry[n][r]
        BY <1>1, <2>9, <3>1 DEF TypeOK, Crash, Forget
      <3> QED
        BY <3>1, <3>2
    <2> HIDE DEF Kept
    <2>10. CASE UNCHANGED vars
      BY <2>2, <2>10 DEF vars
    <2>11. CASE \/ \E r \in Room : CreateRoom(r)
                \/ \E r \in Room, n \in Node : RouteRoom(r, n)
                \/ \E n \in Node : PublishSnapshot(n) \/ MigrationTimeout(n) \/ Restart(n)
                \/ \E n \in Node, dead \in SUBSET Node : HealthCheck(n, dead)
                \/ \E n \in Node : \E item \in todo[n] : SkipRoom(n, item)
                \/ \E n \in Node : \E item \in todo[n] : RequestMigration(n, item)
                \/ \E p \in replies : MigrationRefused(p)
                \/ \E q \in requests : RefuseMigration(q)
                \/ \E n, m \in Node : Heartbeat(n, m)
      BY <2>2, <2>11 DEF CreateRoom, RouteRoom, PublishSnapshot, MigrationTimeout,
         Restart, HealthCheck, SkipRoom, RequestMigration, MigrationRefused,
         RefuseMigration, Heartbeat
    <2> QED
      BY <1>1, <2>3, <2>4, <2>5, <2>6, <2>7, <2>8, <2>9, <2>10, <2>11
         DEF Next, AcceptMigration, ClaimUnpublished
  <1>2. IInv => TypeOK
    BY DEF IInv
  <1>3. TypeOK /\ [Next]_vars => [Kept]_vars
    BY <1>1
  <1> QED
    BY <1>2, <1>3, Inductive, PTL DEF Spec, ViewNeverGoesBack

------------------------------------------------------------------------------
(* The views of who is Live are those of HealthViews. *)

\* Every step is one of HealthViews, or changes no view.
LEMMA StepViews == TypeOK /\ [Next]_vars => [Views!Next]_(Views!vars)
  <1> SUFFICES ASSUME TypeOK, [Next]_vars, ~UNCHANGED <<up, live>>
               PROVE  Views!Next
    BY DEF Views!vars
  <1>1. ASSUME NEW n \in Node, NEW dead \in SUBSET Node, HealthCheck(n, dead)
        PROVE  Views!Detect(n)
    BY <1>1 DEF HealthCheck, Views!Detect, TypeOK
  <1>2. ASSUME NEW n \in Node, NEW m \in Node, Heartbeat(n, m)
        PROVE  Views!Hear(n, m)
    BY <1>2 DEF Heartbeat, Views!Hear
  <1>3. ASSUME NEW n \in Node, Crash(n) PROVE Views!Crash(n)
    BY <1>3 DEF Crash, Views!Crash
  <1>4. ASSUME NEW n \in Node, Restart(n) PROVE Views!Restart(n)
    BY <1>4 DEF Restart, Registered, Views!Restart
  <1>5. \/ \E n \in Node, dead \in SUBSET Node : HealthCheck(n, dead)
        \/ \E n, m \in Node : Heartbeat(n, m)
        \/ \E n \in Node : Crash(n)
        \/ \E n \in Node : Restart(n)
    BY DEF Next, vars, CreateRoom, RouteRoom, ApplyRemoteRoom, PublishSnapshot,
       AddListener, RemoveListener, StoreAndPublish, RemoveRoom, Unregister, SkipRoom,
       RequestMigration, MigrationAccepted, MigrationRefused, MigrationTimeout,
       AcceptMigration, ClaimUnpublished, Claim, RefuseMigration
  <1> QED
    BY <1>1, <1>2, <1>3, <1>4, <1>5 DEF Views!Next

\* The room handlers change the views of who is Live only as HealthViews says,
\* which is what heartbeats and health checks implement.
THEOREM UsesViews == Spec => ViewsImplemented
  <1>1. Init => Views!Init
    BY DEF Init, Views!Init
  <1> QED
    BY <1>1, StepViews, TypeCorrect, PTL DEF Spec, ViewsImplemented, Views!Spec

------------------------------------------------------------------------------
(* One owner, until a second health check finds a death.  A node holds a   *)
(* room if its registry or its own table says so, or a message to it does. *)
(* What a check finds dead is down and holds nothing, and the rooms of it  *)
(* are asked to be taken over once each, so that the one node that takes a *)
(* room over is the only one that holds it.                                *)

Innocent(b) == b.wrong <= budget.wrong /\ b.deaths <= budget.deaths + 1
OneCheckSoFar == \A b \in Budgets : Innocent(b)
NoCheckSoFar  == \A b \in Budgets : b.deaths <= budget.deaths

\* Two true health checks are too many for AtMostOneOwner; up to one it holds.
OneOwnerForOneDeath ==
    OneCheckSoFar =>
        \A r \in Room : \A n, m \in up :
            registry[n][r].owner = n /\ registry[m][r].owner = m => n = m

Holds(n, r) ==
    \/ registry[n][r].owner = n
    \/ Known(rooms[n][r])
    \/ \E msg \in net : msg.to = n /\ msg.id = r /\ msg.room.owner = n

Listed(r) == {n \in Node : \E item \in todo[n] : item.room = r}
Asked(r) == {q \in requests : q.req.room = r}
Unclaimed(r) == Listed(r) = {} /\ Asked(r) = {}

OneClaim(r) ==
    /\ \A n, m \in Listed(r) : n = m
    /\ \A n \in Node : \A i, j \in todo[n] : i.room = r /\ j.room = r => i = j
    /\ \A p, q \in Asked(r) : p = q
    /\ Listed(r) = {} \/ Asked(r) = {}

OneHolder(r) ==
    /\ \A n, m \in Node : Holds(n, r) /\ Holds(m, r) => n = m
    /\ \A n \in Node : Holds(n, r) => Unclaimed(r)

\* Before the first check a room has been given to one node at most.
OneRoute(r) ==
    NoCheckSoFar =>
        /\ Unclaimed(r)
        /\ \A n, m \in Node : <<n, r>> \in accepted /\ <<m, r>> \in accepted => n = m

DownHoldsNothing == \A n \in Node, r \in Room : n \notin up => ~Holds(n, r)
RoutedFirst ==
    \A r \in Room : phase[r] # "routed" =>
        Unclaimed(r) /\ \A n \in Node : <<n, r>> \notin accepted
Spent == \E b \in Budgets : budget.wrong <= b.wrong /\ budget.deaths <= b.deaths

OwnerInv ==
    /\ DownHoldsNothing /\ RoutedFirst /\ Spent
    /\ OneCheckSoFar => \A r \in Room : OneClaim(r) /\ OneHolder(r) /\ OneRoute(r)

\* The invariant holds initially.
LEMMA InitOwner == Init => OwnerInv
  <1> SUFFICES ASSUME Init PROVE OwnerInv
    OBVIOUS
  <1>1. \A r \in Room : Unclaimed(r)
    BY DEF Init, Unclaimed, Listed, Asked
  <1>2. \A n \in Node, r \in Room : ~Holds(n, r)
    BY NoNodeAssumption DEF Init, Holds, NoRoom, Known
  <1>3. Spent
    BY BoundsAssumption DEF Init, Spent, Limits
  <1>4. \A r \in Room : OneClaim(r) /\ OneHolder(r)
    BY <1>1, <1>2 DEF Init, OneClaim, OneHolder, Unclaimed
  <1>5. \A r \in Room : OneRoute(r)
    BY <1>1 DEF Init, OneRoute
  <1> QED
    BY <1>1, <1>2, <1>3, <1>4, <1>5 DEF Init, OwnerInv, DownHoldsNothing, RoutedFirst

\* Who holds a room has been given it.
LEMMA HoldersAccepted ==
    ASSUME TypeOK, RoomsInv, NEW n \in Node, NEW r \in Room, Holds(n, r)
    PROVE  <<n, r>> \in accepted
  <1>1. Consistent(n, r, registry[n][r], rooms[n][r], accepted)
    BY DEF RoomsInv
  <1>2. \A msg \in net : msg.room.owner # NoNode => <<msg.room.owner, msg.id>> \in accepted
    BY DEF RoomsInv, Sound
  <1> QED
    BY <1>1, <1>2, NoNodeAssumption DEF Holds, Consistent

\* What a step has to show that changes no record, so that no node begins to
\* hold a room: the messages it sends to an owner are of rooms it holds.
LEMMA SameHolders ==
    ASSUME UNCHANGED <<registry, rooms>>,
           \A msg \in net' : \/ msg \in net
                             \/ msg.room.owner = msg.to => Holds(msg.to, msg.id)
    PROVE  \A n \in Node, r \in Room : Holds(n, r)' => Holds(n, r)
  <1> SUFFICES ASSUME NEW n \in Node, NEW r \in Room, Holds(n, r)' PROVE Holds(n, r)
    OBVIOUS
  <1>1. ASSUME NEW msg \in net', msg.to = n, msg.id = r, msg.room.owner = n
        PROVE  Holds(n, r)
    BY <1>1 DEF Holds
  <1> QED
    BY <1>1 DEF Holds

\* The same of a step that changes one record.
LEMMA OneHolderChanges ==
    ASSUME TypeOK, NEW n \in Node, NEW r \in Room, NEW seen, NEW own,
           registry' = [registry EXCEPT ![n][r] = seen],
           rooms' = [rooms EXCEPT ![n][r] = own],
           seen.owner = n \/ Known(own) => Holds(n, r),
           \A msg \in net' : \/ msg \in net
                             \/ msg.room.owner = msg.to => Holds(msg.to, msg.id)
    PROVE  \A m \in Node, s \in Room : Holds(m, s)' => Holds(m, s)
  <1> SUFFICES ASSUME NEW m \in Node, NEW s \in Room, Holds(m, s)' PROVE Holds(m, s)
    OBVIOUS
  <1>1. ASSUME NEW msg \in net', msg.to = m, msg.id = s, msg.room.owner = m
        PROVE  Holds(m, s)
    BY <1>1 DEF Holds
  <1>2. CASE m = n /\ s = r
    <2>1. registry'[m][s] = seen /\ rooms'[m][s] = own
      BY <1>2 DEF TypeOK
    <2> QED
      BY <1>1, <1>2, <2>1 DEF Holds
  <1>3. CASE m # n \/ s # r
    <2>1. registry'[m][s] = registry[m][s] /\ rooms'[m][s] = rooms[m][s]
      BY <1>3 DEF TypeOK
    <2> QED
      BY <1>1, <2>1 DEF Holds
  <1> QED
    BY <1>2, <1>3

\* What a step has to show that gives no room to anybody.
LEMMA NoNewHolder ==
    ASSUME OwnerInv, accepted' = accepted,
           \A r \in Room : phase'[r] # "routed" => phase[r] # "routed",
           budget'.wrong = budget.wrong, budget'.deaths = budget.deaths,
           \A n \in Node, r \in Room : Holds(n, r)' => Holds(n, r) /\ n \in up',
           \A n \in Node : todo'[n] \subseteq todo[n],
           \A r \in Room :
              /\ Asked(r) = {} => Asked(r)' = {}
              /\ (\A p, q \in Asked(r) : p = q) => (\A p, q \in Asked(r)' : p = q)
    PROVE  OwnerInv'
  <1>1. /\ OneCheckSoFar' => OneCheckSoFar
        /\ NoCheckSoFar' => NoCheckSoFar
        /\ Spent'
    BY DEF OneCheckSoFar, Innocent, NoCheckSoFar, Spent, OwnerInv
  <1>2. \A r \in Room : Listed(r)' \subseteq Listed(r)
    BY DEF Listed
  <1>3. \A r \in Room : Unclaimed(r) => Unclaimed(r)'
    BY <1>2 DEF Unclaimed
  <1>4. DownHoldsNothing'
    BY DEF DownHoldsNothing
  <1>5. RoutedFirst'
    BY <1>3 DEF RoutedFirst, OwnerInv
  <1>6. ASSUME NEW r \in Room, OneCheckSoFar
        PROVE  OneClaim(r)' /\ OneHolder(r)' /\ OneRoute(r)'
    <2>1. OneClaim(r) /\ OneHolder(r) /\ OneRoute(r)
      BY <1>6 DEF OwnerInv
    <2>2. OneClaim(r)'
      BY <1>2, <2>1 DEF OneClaim
    <2>3. OneHolder(r)'
      BY <1>3, <2>1 DEF OneHolder
    <2>4. OneRoute(r)'
      BY <1>1, <1>3, <2>1 DEF OneRoute
    <2> QED
      BY <2>2, <2>3, <2>4
  <1> QED
    BY <1>1, <1>4, <1>5, <1>6 DEF OwnerInv

\* RouteRoom gives a room to a node for the first time.
LEMMA RouteOwner ==
    ASSUME IInv, OwnerInv, NEW r \in Room, NEW n \in Node, RouteRoom(r, n)
    PROVE  OwnerInv'
  <1>0. TypeOK /\ RoomsInv
    BY DEF IInv
  <1>1. PICK t \in Assign(live[n], registry[n], Streams, 0) :
           /\ Send(Copies(r, WithOwner(NewRoom(0), t)))
           /\ accepted' = accepted \cup {<<t, r>>}
    BY DEF RouteRoom
  <1>2. UNCHANGED <<up, live, registry, rooms, todo, waiting, requests, replies, budget>>
    BY DEF RouteRoom, taskVars
  <1>3. \A msg \in net' : \/ msg \in net
                          \/ msg.id = r /\ msg.room.owner = t /\ msg.to \in up
    BY <1>1 DEF Send, Copies, WithOwner
  <1>4. \A m \in Node, s \in Room : Holds(m, s)' =>
           Holds(m, s) \/ (m = t /\ s = r /\ m \in up)
    BY <1>2, <1>3 DEF Holds
  <1>5. Unclaimed(r) /\ \A m \in Node : <<m, r>> \notin accepted
    BY DEF RouteRoom, OwnerInv, RoutedFirst
  <1>6. \A m \in Node : ~Holds(m, r)
    BY <1>0, <1>5, HoldersAccepted
  <1>7. DownHoldsNothing' /\ Spent'
    BY <1>2, <1>4 DEF OwnerInv, DownHoldsNothing, Spent
  <1>8. \A s \in Room : Listed(s)' = Listed(s) /\ Asked(s)' = Asked(s)
    BY <1>2 DEF Listed, Asked
  <1>9. RoutedFirst'
    <2>1. \A s \in Room : phase'[s] # "routed" => s # r /\ phase[s] # "routed"
      BY <1>0 DEF RouteRoom, TypeOK
    <2> QED
      BY <1>1, <1>8, <2>1 DEF OwnerInv, RoutedFirst, Unclaimed
  <1>10. ASSUME OneCheckSoFar, NEW s \in Room
         PROVE  OneClaim(s)' /\ OneHolder(s)' /\ OneRoute(s)'
    <2>1. OneClaim(s) /\ OneHolder(s) /\ OneRoute(s)
      BY <1>10 DEF OwnerInv
    <2>2. OneClaim(s)'
      BY <1>2, <1>8, <2>1 DEF OneClaim
    <2>3. OneHolder(s)'
      BY <1>4, <1>5, <1>6, <1>8, <2>1 DEF OneHolder, Unclaimed
    <2>4. OneRoute(s)'
      BY <1>1, <1>2, <1>5, <1>8, <2>1 DEF OneRoute, Unclaimed, NoCheckSoFar
    <2> QED
      BY <2>2, <2>3, <2>4
  <1> QED
    BY <1>2, <1>7, <1>9, <1>10 DEF OwnerInv, OneCheckSoFar, Innocent

\* The first check that finds a death: the dead hold nothing, and nobody else has
\* been given a room of theirs.
LEMMA CheckOwner ==
    ASSUME IInv, OwnerInv, NEW n \in Node, NEW dead \in SUBSET Node, HealthCheck(n, dead)
    PROVE  OwnerInv'
  <1>0. TypeOK /\ RoomsInv /\ budget \in Limits
    BY DEF IInv, TypeOK
  <1>1. /\ UNCHANGED <<up, registry, rooms, net, waiting, requests, replies, phase, accepted>>
        /\ budget'.deaths = budget.deaths - 1 /\ budget.deaths \in Nat /\ budget.wrong \in Nat
        /\ budget'.wrong = IF dead \cap up # {} THEN budget.wrong - 1 ELSE budget.wrong
    BY <1>0 DEF HealthCheck, WithDeath, netVars, Limits
  <1>2. todo' = [todo EXCEPT ![n] =
           {[room |-> r, source |-> registry[n][r].owner,
             listeners |-> registry[n][r].listeners] :
                r \in {s \in Room : registry[n][s].owner \in dead}}]
    BY DEF HealthCheck
  <1>3. \A m \in Node, r \in Room : Holds(m, r)' <=> Holds(m, r)
    BY <1>1 DEF Holds
  <1>4. DownHoldsNothing'
    BY <1>1, <1>3 DEF OwnerInv, DownHoldsNothing
  <1>5. \A r \in Room : Asked(r)' = Asked(r)
    BY <1>1 DEF Asked
  <1>6. ASSUME NEW r \in Room
        PROVE  /\ Listed(r)' \subseteq Listed(r) \cup {n}
               /\ n \in Listed(r)' => registry[n][r].owner \in dead
               /\ \A i, j \in todo'[n] : i.room = r /\ j.room = r => i = j
               /\ \A m \in Node : m # n => todo'[m] = todo[m]
    <2>1. todo'[n] = {[room |-> s, source |-> registry[n][s].owner,
                       listeners |-> registry[n][s].listeners] :
                        s \in {x \in Room : registry[n][x].owner \in dead}}
          /\ \A m \in Node : m # n => todo'[m] = todo[m]
      BY <1>0, <1>2 DEF TypeOK
    <2>2. \A i \in todo'[n] : i.room = r =>
             /\ registry[n][r].owner \in dead
             /\ i = [room |-> r, source |-> registry[n][r].owner,
                     listeners |-> registry[n][r].listeners]
      BY <2>1
    <2> QED
      BY <2>1, <2>2 DEF Listed
  <1>7. \A r \in Room, d \in Node : registry[n][r].owner = d => <<d, r>> \in accepted
    <2>1. \A r \in Room : Consistent(n, r, registry[n][r], rooms[n][r], accepted)
      BY <1>0 DEF RoomsInv
    <2> QED
      BY <2>1, NoNodeAssumption, ZenonT(60) DEF Consistent
  <1>8. RoutedFirst'
    <2>1. ASSUME NEW r \in Room, phase[r] # "routed" PROVE Unclaimed(r)'
      <3>1. Unclaimed(r) /\ \A d \in Node : <<d, r>> \notin accepted
        BY <2>1 DEF OwnerInv, RoutedFirst
      <3>2. registry[n][r].owner \notin dead
        BY <1>7, <3>1
      <3> QED
        BY <1>5, <1>6, <3>1, <3>2 DEF Unclaimed
    <2> QED
      BY <1>1, <2>1 DEF RoutedFirst, OwnerInv
  <1>9. PICK b \in Budgets : budget.wrong <= b.wrong /\ budget.deaths <= b.deaths
    BY DEF OwnerInv, Spent
  <1>10. b.wrong \in Nat /\ b.deaths \in Nat
    BY <1>9, BoundsAssumption DEF Limits
  <1>11. Spent'
    BY <1>1, <1>9, <1>10 DEF Spent, HealthCheck
  <1>12. ~NoCheckSoFar'
    BY <1>1, <1>9, <1>10 DEF NoCheckSoFar
  <1>13. ASSUME OneCheckSoFar'
         PROVE  OneCheckSoFar /\ NoCheckSoFar /\ dead \cap up = {}
    <2>1. \A c \in Budgets : /\ c.wrong \in Nat /\ c.deaths \in Nat
                             /\ c.wrong <= budget'.wrong
                             /\ c.deaths <= budget'.deaths + 1
      BY <1>13, BoundsAssumption DEF OneCheckSoFar, Innocent, Limits
    <2>2. dead \cap up = {}
      BY <1>1, <1>9, <1>10, <2>1
    <2>3. \A c \in Budgets : c.wrong <= budget.wrong /\ c.deaths <= budget.deaths
      BY <1>1, <2>1, <2>2
    <2> QED
      BY <1>1, <2>1, <2>2, <2>3 DEF OneCheckSoFar, Innocent, NoCheckSoFar
  <1>14. ASSUME OneCheckSoFar', NEW r \in Room
         PROVE  OneClaim(r)' /\ OneHolder(r)' /\ OneRoute(r)'
    <2>1. OneClaim(r) /\ OneHolder(r) /\ OneRoute(r)
      BY <1>13, <1>14 DEF OwnerInv
    <2>2. Unclaimed(r) /\ \A x, y \in Node :
             <<x, r>> \in accepted /\ <<y, r>> \in accepted => x = y
      BY <1>13, <1>14, <2>1 DEF OneRoute
    <2>3. OneClaim(r)'
      BY <1>5, <1>6, <2>1, <2>2 DEF OneClaim, Unclaimed
    <2>4. ASSUME NEW x \in Node, Holds(x, r) PROVE registry[n][r].owner \notin dead
      <3> SUFFICES ASSUME registry[n][r].owner \in dead PROVE FALSE
        OBVIOUS
      <3>1. <<registry[n][r].owner, r>> \in accepted /\ registry[n][r].owner \in Node
        BY <1>7
      <3>2. x = registry[n][r].owner
        BY <1>0, <2>2, <2>4, <3>1, HoldersAccepted
      <3>3. x \notin up
        BY <1>13, <1>14, <3>2
      <3> QED
        BY <2>4, <3>3 DEF OwnerInv, DownHoldsNothing
    <2>5. OneHolder(r)'
      BY <1>3, <1>5, <1>6, <2>1, <2>2, <2>4 DEF OneHolder, Unclaimed
    <2> QED
      BY <1>12, <2>3, <2>5 DEF OneRoute
  <1> QED
    BY <1>4, <1>8, <1>11, <1>14 DEF OwnerInv

\* migrate_room turns an item into a request for the same room.
LEMMA RequestOwner ==
    ASSUME IInv, OwnerInv, NEW n \in Node, NEW item \in todo[n], RequestMigration(n, item)
    PROVE  OwnerInv'
  <1>0. TypeOK
    BY DEF IInv
  <1>1. UNCHANGED <<up, registry, rooms, net, phase, accepted, budget>>
        /\ todo' = [todo EXCEPT ![n] = @ \ {item}]
    BY DEF RequestMigration
  <1>2. PICK q : q.req.room = item.room /\ requests' = requests \cup {q}
    <2>1. PICK t \in Destination(n, item) :
             requests' = requests \cup
                {[from |-> n, req |-> [room |-> item.room, source |-> item.source,
                                       target |-> t, listeners |-> item.listeners]]}
      BY DEF RequestMigration
    <2> QED
      BY <2>1
  <1>3. /\ todo'[n] = todo[n] \ {item}
        /\ \A m \in Node : m # n => todo'[m] = todo[m]
    BY <1>0, <1>1 DEF TypeOK
  <1>4. item.room \in Room
    BY <1>0 DEF TypeOK, Item
  <1>5. \A r \in Room : Listed(r)' \subseteq Listed(r)
                        /\ Asked(r)' = IF r = item.room THEN Asked(r) \cup {q} ELSE Asked(r)
    BY <1>2, <1>3 DEF Listed, Asked
  <1>6. n \in Listed(item.room)
    BY DEF Listed
  <1>7. \A r \in Room : Unclaimed(r) => Unclaimed(r)'
    BY <1>5, <1>6 DEF Unclaimed
  <1>8. \A m \in Node, r \in Room : Holds(m, r)' <=> Holds(m, r)
    BY <1>1 DEF Holds
  <1>9. DownHoldsNothing' /\ RoutedFirst' /\ Spent'
    BY <1>1, <1>7, <1>8 DEF OwnerInv, DownHoldsNothing, RoutedFirst, Spent
  <1>10. ASSUME OneCheckSoFar, NEW r \in Room
         PROVE  OneClaim(r)' /\ OneHolder(r)' /\ OneRoute(r)'
    <2>1. OneClaim(r) /\ OneHolder(r) /\ OneRoute(r)
      BY <1>10 DEF OwnerInv
    <2>2. CASE r = item.room
      <3>1. Asked(r) = {} /\ \A m \in Listed(r) : m = n
        BY <1>6, <2>1, <2>2 DEF OneClaim
      <3>2. \A i \in todo[n] : i.room = r => i = item
        BY <2>1, <2>2 DEF OneClaim
      <3>3. Listed(r)' = {}
        BY <1>3, <1>5, <3>1, <3>2 DEF Listed
      <3>4. OneClaim(r)'
        BY <1>3, <1>5, <2>1, <3>1, <3>3 DEF OneClaim
      <3> QED
        BY <1>1, <1>6, <1>7, <1>8, <2>1, <2>2, <3>4
           DEF OneHolder, OneRoute, Unclaimed, NoCheckSoFar
    <2>3. CASE r # item.room
      <3>1. OneClaim(r)'
        BY <1>3, <1>5, <2>1, <2>3 DEF OneClaim
      <3> QED
        BY <1>1, <1>7, <1>8, <2>1, <3>1 DEF OneHolder, OneRoute, NoCheckSoFar
    <2> QED
      BY <2>2, <2>3
  <1> QED
    BY <1>1, <1>9, <1>10 DEF OwnerInv, OneCheckSoFar, Innocent

\* handle_migration_request: the one request for the room is used up, and nobody
\* else holds the room.
LEMMA ClaimOwner ==
    ASSUME IInv, OwnerInv, NEW q \in requests, AcceptMigration(q) \/ ClaimUnpublished(q)
    PROVE  OwnerInv'
  <1> DEFINE t == q.req.target
             r == q.req.room
             room == Claimed(t, q.req)
  <1>0. TypeOK /\ q \in Pending
    BY DEF IInv, TypeOK
  <1>1. t \in Node /\ r \in Room /\ t \in up
    BY <1>0 DEF Pending, Request, AcceptMigration, ClaimUnpublished, Claim
  <1>2. /\ rooms' = [rooms EXCEPT ![t][r] = room]
        /\ registry' = [registry EXCEPT ![t][r] = Apply(@, room)]
        /\ accepted' = accepted \cup {<<t, r>>}
        /\ requests' = requests \ {q}
        /\ UNCHANGED <<up, live, todo, waiting, phase, budget>>
    BY DEF AcceptMigration, ClaimUnpublished, Claim, Answer, taskVars
  <1>3. \A msg \in net' : msg \in net \/ (msg.id = r /\ msg.room = room)
    <2>1. CASE AcceptMigration(q)
      BY <2>1, SentCopies DEF AcceptMigration
    <2>2. CASE ClaimUnpublished(q)
      BY <2>2 DEF ClaimUnpublished
    <2> QED
      BY <2>1, <2>2
  <1>4. room.owner = t
    BY DEF Claimed, WithOwner
  <1>5. \A m \in Node, s \in Room : Holds(m, s)' => Holds(m, s) \/ (m = t /\ s = r)
    <2>1. \A m \in Node, s \in Room : m # t \/ s # r =>
             registry'[m][s] = registry[m][s] /\ rooms'[m][s] = rooms[m][s]
      BY <1>0, <1>2 DEF TypeOK
    <2> QED
      BY <1>3, <1>4, <2>1 DEF Holds
  <1>6. \A s \in Room : /\ Listed(s)' = Listed(s)
                        /\ Asked(s)' = IF s = r THEN Asked(s) \ {q} ELSE Asked(s)
    BY <1>2 DEF Listed, Asked
  <1>7. q \in Asked(r)
    BY DEF Asked
  <1>8. \A s \in Room : Unclaimed(s) => Unclaimed(s)'
    BY <1>6 DEF Unclaimed
  <1>9. DownHoldsNothing' /\ Spent'
    BY <1>1, <1>2, <1>5 DEF OwnerInv, DownHoldsNothing, Spent
  <1>10. RoutedFirst'
    BY <1>2, <1>7, <1>8 DEF OwnerInv, RoutedFirst, Unclaimed
  <1>11. ASSUME OneCheckSoFar, NEW s \in Room
         PROVE  OneClaim(s)' /\ OneHolder(s)' /\ OneRoute(s)'
    <2>1. OneClaim(s) /\ OneHolder(s) /\ OneRoute(s)
      BY <1>11 DEF OwnerInv
    <2>2. OneClaim(s)'
      BY <1>2, <1>6, <2>1 DEF OneClaim
    <2>3. s = r => Unclaimed(s)' /\ \A m \in Node : ~Holds(m, s)
      BY <1>6, <1>7, <2>1 DEF OneClaim, OneHolder, Unclaimed
    <2>4. OneHolder(s)'
      BY <1>5, <1>8, <2>1, <2>3 DEF OneHolder
    <2>5. OneRoute(s)'
      BY <1>2, <1>7, <1>8, <2>1 DEF OneRoute, Unclaimed, NoCheckSoFar
    <2> QED
      BY <2>2, <2>4, <2>5
  <1> QED
    BY <1>2, <1>9, <1>10, <1>11 DEF OwnerInv, OneCheckSoFar, Innocent

\* No other step makes a node hold a room that it did not hold.
LEMMA HoldersKept ==
    ASSUME IInv,
           \/ \E r \in Room : CreateRoom(r)
           \/ \E msg \in net : ApplyRemoteRoom(msg)
           \/ \E n \in Node : PublishSnapshot(n)
           \/ \E n \in Node, r \in Room :
                 AddListener(n, r) \/ RemoveListener(n, r) \/ RemoveRoom(n, r)
           \/ \E n \in Node : \E item \in todo[n] : SkipRoom(n, item)
           \/ \E p \in replies : MigrationAccepted(p) \/ MigrationRefused(p)
           \/ \E n \in Node : MigrationTimeout(n)
           \/ \E q \in requests : RefuseMigration(q)
           \/ \E n, m \in Node : Heartbeat(n, m)
           \/ \E n \in Node : Crash(n) \/ Restart(n)
           \/ UNCHANGED vars
    PROVE  \A m \in Node, s \in Room : Holds(m, s)' => Holds(m, s)
  <1> DEFINE Kept == \A m \in Node, s \in Room : Holds(m, s)' => Holds(m, s)
  <1> HIDE DEF Kept
  <1> SUFFICES Kept
    BY DEF Kept
  <1>0. TypeOK /\ RoomsInv
    BY DEF IInv
  <1>1. ASSUME NEW r \in Room, CreateRoom(r) PROVE Kept
    <2>1. \A msg \in net' : msg \in net \/ (msg.id = r /\ msg.room = NewRoom(0))
      BY <1>1, SentCopies DEF CreateRoom
    <2>2. ASSUME NEW msg \in net', msg \notin net PROVE msg.room.owner # msg.to
      <3>1. msg.to \in Node
        BY <1>0, <1>1, <2>2 DEF CreateRoom, Send, Copies, TypeOK
      <3> QED
        BY <2>1, <2>2, <3>1, NoNodeAssumption DEF NewRoom
    <2> QED
      BY <1>1, <2>2, SameHolders DEF CreateRoom, Kept
  <1>2. ASSUME NEW msg \in net, ApplyRemoteRoom(msg) PROVE Kept
    <2> DEFINE n == msg.to
               r == msg.id
               seen == Apply(registry[n][r], msg.room)
               own == IF msg.room.owner = n THEN msg.room ELSE rooms[n][r]
    <2>1. n \in Node /\ r \in Room
      BY <1>0 DEF TypeOK, Message
    <2>2. registry' = [registry EXCEPT ![n][r] = seen] /\ net' \subseteq net
      BY <1>2 DEF ApplyRemoteRoom
    <2>3. rooms' = [rooms EXCEPT ![n][r] = own]
      BY <1>0, <1>2, <2>1 DEF ApplyRemoteRoom, TypeOK
    <2>4. seen.owner = n \/ Known(own) => Holds(n, r)
      BY DEF Apply, Holds
    <2> QED
      BY <1>0, <2>1, <2>2, <2>3, <2>4, OneHolderChanges DEF Kept
  <1>3. ASSUME NEW n \in Node, PublishSnapshot(n) PROVE Kept
    <2>1. ASSUME NEW msg \in net', msg \notin net, msg.room.owner = msg.to
          PROVE  Holds(msg.to, msg.id)
      <3>1. PICK r \in OwnedBy(n, registry[n]) : msg \in Copies(r, registry[n][r])
        BY <1>3, <2>1 DEF PublishSnapshot, Send
      <3>2. registry[n][r].owner = n /\ msg.id = r /\ msg.room = registry[n][r]
        BY <3>1 DEF OwnedBy, Copies
      <3> QED
        BY <2>1, <3>2 DEF Holds
    <2> QED
      BY <1>3, <2>1, SameHolders DEF PublishSnapshot, Kept
  <1>4. ASSUME NEW n \in Node, NEW r \in Room, NEW k \in Nat, Known(rooms[n][r]),
               StoreAndPublish(n, r, WithListeners(rooms[n][r], k))
        PROVE  Kept
    <2> DEFINE next == WithListeners(rooms[n][r], k)
    <2>1. Consistent(n, r, registry[n][r], rooms[n][r], accepted)
      BY <1>0 DEF RoomsInv
    <2>2. next.owner = n /\ Holds(n, r)
      BY <1>4, <2>1 DEF WithListeners, Consistent, Holds
    <2>3. \A msg \in net' : msg \in net \/ (msg.id = r /\ msg.room = next)
      BY <1>4, SentCopies DEF StoreAndPublish
    <2>4. registry' = [registry EXCEPT ![n][r] = Apply(registry[n][r], next)]
          /\ rooms' = [rooms EXCEPT ![n][r] = next]
      BY <1>4 DEF StoreAndPublish
    <2>5. \A msg \in net' : \/ msg \in net
                            \/ msg.room.owner = msg.to => Holds(msg.to, msg.id)
      BY <2>2, <2>3
    <2> HIDE DEF next
    <2> QED
      BY <1>0, <2>2, <2>4, <2>5, OneHolderChanges DEF Kept
  <1>5. ASSUME NEW n \in Node, NEW r \in Room, AddListener(n, r) \/ RemoveListener(n, r)
        PROVE  Kept
    <2>1. rooms[n][r].listeners + 1 \in Nat /\ OneFewer(rooms[n][r].listeners) \in Nat
      <3>1. rooms[n][r] \in RoomState
        BY <1>0 DEF TypeOK
      <3>2. rooms[n][r].listeners \in Nat
        BY <3>1, RecordTypes
      <3> QED
        BY <3>2 DEF OneFewer
    <2> QED
      BY <1>4, <1>5, <2>1 DEF AddListener, RemoveListener
  <1>6. ASSUME NEW n \in Node, NEW r \in Room, RemoveRoom(n, r) PROVE Kept
    <2>1. \A msg \in net' : msg \in net \/ (msg.id = r /\ msg.room = Tombstone(rooms[n][r]))
      BY <1>6, SentCopies DEF RemoveRoom
    <2>2. ASSUME NEW msg \in net', msg \notin net PROVE msg.room.owner # msg.to
      <3>1. msg.to \in Node
        BY <1>0, <1>6, <2>2 DEF RemoveRoom, Send, Copies, TypeOK
      <3> QED
        BY <2>1, <2>2, <3>1, NoNodeAssumption DEF Tombstone, NoRoom
    <2>3. NoRoom.owner # n /\ ~Known(NoRoom)
      BY NoNodeAssumption DEF NoRoom, Known
    <2> QED
      BY <1>0, <1>6, <2>2, <2>3, OneHolderChanges DEF RemoveRoom, Unregister, Kept
  <1>7. ASSUME UNCHANGED <<registry, rooms>>, net' \subseteq net PROVE Kept
    BY <1>7, SameHolders DEF Kept
  <1>8. ASSUME NEW p \in replies, MigrationAccepted(p) PROVE Kept
    <2> DEFINE n == p.to
               r == waiting[n].room
               new == [owner |-> waiting[n].target, addr |-> NoNode,
                       listeners |-> waiting[n].listeners,
                       revision |-> registry[n][r].revision + 1]
    <2>1. n \in Node /\ waiting[n] # Idle /\ waiting[n] \in Request
      BY <1>0, <1>8 DEF TypeOK, Reply, MigrationAccepted
    <2>2. r \in Room /\ waiting[n].target # n
      BY <2>1 DEF IInv, RequestsGoElsewhere, Request
    <2>3. /\ registry' = [registry EXCEPT ![n][r] = Apply(registry[n][r], new)]
          /\ rooms' = [rooms EXCEPT ![n][r] = NoRoom] /\ net' = net
      BY <1>0, <1>8, <2>1, <2>2 DEF MigrationAccepted, TypeOK
    <2>4. new.owner # n /\ ~Known(NoRoom)
      BY <2>2 DEF NoRoom, Known
    <2>5. Apply(registry[n][r], new).owner = n => Holds(n, r)
      BY <2>4 DEF Apply, Holds
    <2> HIDE DEF new
    <2> QED
      BY <1>0, <2>1, <2>2, <2>3, <2>4, <2>5, OneHolderChanges DEF Kept
  <1>9. ASSUME NEW n \in Node, Crash(n) PROVE Kept
    <2>1. \A m \in Node, s \in Room :
             \/ registry'[m][s] = registry[m][s] /\ rooms'[m][s] = rooms[m][s]
             \/ registry'[m][s] = NoRoom /\ rooms'[m][s] = NoRoom
      BY <1>0, <1>9 DEF Crash, Forget, TypeOK
    <2>2. net' \subseteq net
      BY <1>9 DEF Crash
    <2>3. \A m \in Node : NoRoom.owner # m /\ ~Known(NoRoom)
      BY NoNodeAssumption DEF NoRoom, Known
    <2> QED
      BY <2>1, <2>2, <2>3 DEF Holds, Kept
  <1>10. CASE \/ \E n \in Node : \E item \in todo[n] : SkipRoom(n, item)
              \/ \E p \in replies : MigrationRefused(p)
              \/ \E n \in Node : MigrationTimeout(n) \/ Restart(n)
              \/ \E q \in requests : RefuseMigration(q)
              \/ \E n, m \in Node : Heartbeat(n, m)
              \/ UNCHANGED vars
    BY <1>7, <1>10 DEF SkipRoom, MigrationRefused, MigrationTimeout, Restart,
       RefuseMigration, Heartbeat, netVars, vars
  <1> QED
    BY <1>1, <1>2, <1>3, <1>5, <1>6, <1>8, <1>9, <1>10

\* Nor does it add a claim: a request that its sender gave up is the same request.
LEMMA ClaimsKept ==
    ASSUME IInv,
           \/ \E r \in Room : CreateRoom(r)
           \/ \E msg \in net : ApplyRemoteRoom(msg)
           \/ \E n \in Node : PublishSnapshot(n)
           \/ \E n \in Node, r \in Room :
                 AddListener(n, r) \/ RemoveListener(n, r) \/ RemoveRoom(n, r)
           \/ \E n \in Node : \E item \in todo[n] : SkipRoom(n, item)
           \/ \E p \in replies : MigrationAccepted(p) \/ MigrationRefused(p)
           \/ \E n \in Node : MigrationTimeout(n)
           \/ \E q \in requests : RefuseMigration(q)
           \/ \E n, m \in Node : Heartbeat(n, m)
           \/ \E n \in Node : Crash(n) \/ Restart(n)
           \/ UNCHANGED vars
    PROVE  /\ accepted' = accepted
           /\ \A r \in Room : phase'[r] # "routed" => phase[r] # "routed"
           /\ budget'.wrong = budget.wrong /\ budget'.deaths = budget.deaths
           /\ \A n \in Node : todo'[n] \subseteq todo[n]
           /\ \A r \in Room :
                 /\ Asked(r) = {} => Asked(r)' = {}
                 /\ (\A p, q \in Asked(r) : p = q) => (\A p, q \in Asked(r)' : p = q)
           /\ \A n \in up : n \in up' \/ Crash(n)
  <1>0. TypeOK
    BY DEF IInv
  <1> DEFINE Fewer == \A r \in Room :
                 /\ Asked(r) = {} => Asked(r)' = {}
                 /\ (\A p, q \in Asked(r) : p = q) => (\A p, q \in Asked(r)' : p = q)
  <1>1. ASSUME requests' \subseteq requests PROVE Fewer
    BY <1>1 DEF Asked
  <1>2. ASSUME NEW n \in Node, NEW S \in SUBSET requests,
               requests' = {Abandoned(q, n) : q \in S}
        PROVE  Fewer
    <2>1. \A q \in requests : Abandoned(q, n).req = q.req
      BY <1>0 DEF Abandoned, TypeOK, Pending
    <2>2. ASSUME NEW r \in Room, NEW p \in Asked(r)'
          PROVE  \E q \in Asked(r) : p = Abandoned(q, n)
      <3>1. PICK q \in S : p = Abandoned(q, n)
        BY <1>2, <2>2 DEF Asked
      <3> QED
        BY <2>1, <2>2, <3>1 DEF Asked
    <2> QED
      BY <2>2
  <1> HIDE DEF Fewer
  <1>3. CASE UNCHANGED <<phase, todo, requests, budget, up, accepted>>
    BY <1>1, <1>3 DEF Fewer
  <1>4. ASSUME NEW r \in Room, CreateRoom(r)
        PROVE  \A s \in Room : phase'[s] # "routed" => phase[s] # "routed"
    BY <1>0, <1>4 DEF CreateRoom, TypeOK
  <1>5. CASE \E r \in Room : CreateRoom(r)
    BY <1>1, <1>4, <1>5 DEF CreateRoom, taskVars, Fewer
  <1>6. CASE \/ \E msg \in net : ApplyRemoteRoom(msg)
             \/ \E n \in Node : PublishSnapshot(n)
             \/ \E n \in Node, r \in Room : AddListener(n, r) \/ RemoveListener(n, r)
             \/ \E p \in replies : MigrationAccepted(p) \/ MigrationRefused(p)
             \/ \E n, m \in Node : Heartbeat(n, m)
             \/ UNCHANGED vars
    <2>1. UNCHANGED <<phase, todo, requests, budget, up, accepted>>
      BY <1>6 DEF ApplyRemoteRoom, PublishSnapshot, AddListener, RemoveListener,
         StoreAndPublish, MigrationAccepted, MigrationRefused, Heartbeat, taskVars,
         netVars, vars
    <2> QED
      BY <1>3, <2>1
  <1>7. ASSUME NEW n \in Node, NEW r \in Room, RemoveRoom(n, r)
        PROVE  /\ budget'.wrong = budget.wrong /\ budget'.deaths = budget.deaths
               /\ UNCHANGED <<phase, todo, requests, up, accepted>>
    BY <1>0, <1>7 DEF RemoveRoom, taskVars, TypeOK, Limits
  <1>8. CASE \E n \in Node, r \in Room : RemoveRoom(n, r)
    BY <1>1, <1>7, <1>8 DEF Fewer
  <1>9. ASSUME NEW n \in Node, NEW item \in todo[n], SkipRoom(n, item)
        PROVE  /\ \A m \in Node : todo'[m] \subseteq todo[m]
               /\ UNCHANGED <<phase, requests, budget, up, accepted>>
    BY <1>0, <1>9 DEF SkipRoom, netVars, TypeOK
  <1>10. CASE \E n \in Node : \E item \in todo[n] : SkipRoom(n, item)
    BY <1>1, <1>9, <1>10 DEF Fewer
  <1>11. ASSUME NEW q \in requests, RefuseMigration(q)
         PROVE  requests' \subseteq requests /\ UNCHANGED <<phase, todo, budget, up, accepted>>
    BY <1>11 DEF RefuseMigration, Answer, taskVars
  <1>12. CASE \E q \in requests : RefuseMigration(q)
    BY <1>1, <1>11, <1>12 DEF Fewer
  <1>13. CASE \E n \in Node : MigrationTimeout(n)
    BY <1>2, <1>13 DEF MigrationTimeout, Fewer
  <1>14. ASSUME NEW n \in Node, Crash(n)
         PROVE  /\ \A m \in Node : todo'[m] \subseteq todo[m]
                /\ budget'.wrong = budget.wrong /\ budget'.deaths = budget.deaths
                /\ UNCHANGED <<phase, accepted>> /\ up' = up \ {n}
                /\ Fewer
    <2>1. Fewer
      BY <1>2, <1>14 DEF Crash
    <2> QED
      BY <1>0, <1>14, <2>1 DEF Crash, TypeOK, Limits
  <1>15. CASE \E n \in Node : Crash(n)
    BY <1>14, <1>15 DEF Fewer
  <1>16. CASE \E n \in Node : Restart(n)
    BY <1>1, <1>16 DEF Restart, netVars, taskVars, Fewer
  <1> QED
    BY <1>5, <1>6, <1>8, <1>10, <1>12, <1>13, <1>15, <1>16

\* Every step keeps the invariant.
LEMMA OwnerStep == IInv /\ OwnerInv /\ [Next]_vars => OwnerInv'
  <1> SUFFICES ASSUME IInv, OwnerInv, [Next]_vars PROVE OwnerInv'
    OBVIOUS
  <1>1. CASE \/ \E r \in Room : CreateRoom(r)
             \/ \E msg \in net : ApplyRemoteRoom(msg)
             \/ \E n \in Node : PublishSnapshot(n)
             \/ \E n \in Node, r \in Room :
                   AddListener(n, r) \/ RemoveListener(n, r) \/ RemoveRoom(n, r)
             \/ \E n \in Node : \E item \in todo[n] : SkipRoom(n, item)
             \/ \E p \in replies : MigrationAccepted(p) \/ MigrationRefused(p)
             \/ \E n \in Node : MigrationTimeout(n)
             \/ \E q \in requests : RefuseMigration(q)
             \/ \E n, m \in Node : Heartbeat(n, m)
             \/ \E n \in Node : Crash(n) \/ Restart(n)
             \/ UNCHANGED vars
    <2>1. \A m \in Node, s \in Room : Holds(m, s)' => Holds(m, s)
      BY <1>1, HoldersKept
    <2>2. ASSUME NEW n \in Node, Crash(n), NEW r \in Room PROVE ~Holds(n, r)'
      <3>1. registry'[n][r] = NoRoom /\ rooms'[n][r] = NoRoom
        BY <2>2 DEF Crash, Forget, IInv, TypeOK
      <3>2. \A msg \in net' : msg.to # n
        BY <2>2 DEF Crash
      <3>3. NoRoom.owner # n /\ ~Known(NoRoom)
        BY NoNodeAssumption DEF NoRoom, Known
      <3> QED
        BY <3>1, <3>2, <3>3 DEF Holds
    <2>3. \A m \in Node, s \in Room : Holds(m, s)' => Holds(m, s) /\ m \in up'
      BY <1>1, <2>1, <2>2, ClaimsKept DEF OwnerInv, DownHoldsNothing
    <2> QED
      BY <1>1, <2>3, ClaimsKept, NoNewHolder
  <1>2. CASE \E r \in Room, n \in Node : RouteRoom(r, n)
    BY <1>2, RouteOwner
  <1>3. CASE \E n \in Node, dead \in SUBSET Node : HealthCheck(n, dead)
    BY <1>3, CheckOwner
  <1>4. CASE \E n \in Node : \E item \in todo[n] : RequestMigration(n, item)
    BY <1>4, RequestOwner
  <1>5. CASE \E q \in requests : AcceptMigration(q) \/ ClaimUnpublished(q)
    BY <1>5, ClaimOwner
  <1> QED
    BY <1>1, <1>2, <1>3, <1>4, <1>5 DEF Next

\* As long as one health check at most has found a death, and it was right, no two
\* running nodes take the room to be their own: through the migration, restarts
\* of the dead node, and any messages that are lost or late.
THEOREM OneOwner == Spec => []OneOwnerForOneDeath
  <1>1. TypeOK /\ OwnerInv => OneOwnerForOneDeath
    BY DEF TypeOK, OwnerInv, OneHolder, Holds, OneOwnerForOneDeath
  <1>2. IInv => TypeOK
    BY DEF IInv
  <1> QED
    BY <1>1, <1>2, InitOwner, OwnerStep, Inductive, PTL DEF Spec

\* With one such check in every budget, this is what health_check and
\* handle_migration_request are taken to promise (two checks are too many: see the
\* run rooms_two_owners).
THEOREM OneOwnerWithin ==
    ASSUME \A b \in Budgets : b.deaths <= 1
    PROVE  Spec => []AtMostOneOwner
  <1>1. TypeOK /\ OneOwnerForOneDeath => AtMostOneOwner
    <2> SUFFICES ASSUME TypeOK, OneOwnerForOneDeath,
                        \A b \in Budgets : b.wrong <= budget.wrong
                 PROVE  \A r \in Room : \A n, m \in up :
                           registry[n][r].owner = n /\ registry[m][r].owner = m => n = m
      BY DEF AtMostOneOwner
    <2>1. budget.deaths \in Nat
      BY DEF TypeOK, Limits
    <2>2. \A b \in Budgets : b.deaths \in Nat
      BY BoundsAssumption DEF Limits
    <2>3. OneCheckSoFar
      BY <2>1, <2>2 DEF OneCheckSoFar, Innocent
    <2> QED
      BY <2>3 DEF OneOwnerForOneDeath
  <1> QED
    BY <1>1, OneOwner, TypeCorrect, PTL
==============================================================================
