-------------------------- MODULE NodeTasks_proofs --------------------------
(***************************************************************************)
(* Proofs about NodeTasks, for any threads and any values of the bounds.   *)
(***************************************************************************)
EXTENDS NodeTasks, TLAPS

\* The operations on records return records.
LEMMA RecordTypes ==
    /\ NoRoom \in RoomState
    /\ \A k \in Nat : NewRoom(k) \in RoomState
    /\ \A room \in RoomState, k \in Nat : WithListeners(room, k) \in RoomState
    /\ \A room \in RoomState, n \in {Me, Other} : WithOwner(room, n) \in RoomState
    /\ \A room \in RoomState : Tombstone(room) \in RoomState
    /\ \A a, b \in RoomState : Apply(a, b) \in RoomState
    /\ \A k \in Nat : OneFewer(k) \in Nat
    /\ \A n \in {Me, Other, NoNode} : [NoRoom EXCEPT !.owner = n] \in RoomState
    /\ \A k \in Nat : [NoRoom EXCEPT !.revision = k] \in RoomState
  <1>1. /\ NoRoom \in RoomState
        /\ \A n \in {Me, Other, NoNode} : [NoRoom EXCEPT !.owner = n] \in RoomState
        /\ \A k \in Nat : [NoRoom EXCEPT !.revision = k] \in RoomState
    BY DEF RoomState, NoRoom
  <1>2. \A k \in Nat : NewRoom(k) \in RoomState
    BY DEF RoomState, NewRoom
  <1>3. \A room \in RoomState, k \in Nat : WithListeners(room, k) \in RoomState
    BY DEF RoomState, WithListeners
  <1>4. \A room \in RoomState, n \in {Me, Other} : WithOwner(room, n) \in RoomState
    BY DEF RoomState, WithOwner
  <1>5. \A room \in RoomState : Tombstone(room) \in RoomState
    <2>1. \A room \in RoomState : room.revision + 1 \in Nat
      BY DEF RoomState
    <2> QED
      BY <1>1, <2>1 DEF Tombstone
  <1>6. \A a, b \in RoomState : Apply(a, b) \in RoomState
    BY DEF Apply
  <1>7. \A k \in Nat : OneFewer(k) \in Nat
    BY DEF OneFewer
  <1> QED
    BY <1>1, <1>2, <1>3, <1>4, <1>5, <1>6, <1>7

\* A step that takes an item from the budget leaves a budget.
LEMMA SpendType ==
    ASSUME budget \in Limits,
           NEW item \in {"joins", "leaves", "closes", "foreign", "requests", "checks",
                         "snapshots", "probes"},
           Spend(item)
    PROVE  budget' \in Limits
  BY DEF Limits, Spend

\* The initial state is type correct.
LEMMA InitType == Init => TypeOK
  <1> SUFFICES ASSUME Init PROVE TypeOK
    OBVIOUS
  <1>1. pc \in [Thread -> Labels] /\ local \in [Thread -> RoomState]
    BY RecordTypes DEF Init, Labels
  <1>2. inbox \in [Receivers -> Seq(RoomState)]
    BY DEF Init
  <1>3. count \in Counters /\ past \in Past
    BY RecordTypes DEF Init, Counters, Past
  <1>4. budget \in Limits /\ registry \in RoomState /\ rooms \in RoomState
    BY RecordTypes, BoundsAssumption DEF Init
  <1> QED
    BY <1>1, <1>2, <1>3, <1>4 DEF Init, TypeOK

\* A delivery leaves sequences of records.
LEMMA DeliverType ==
    ASSUME inbox \in [Receivers -> Seq(RoomState)], NEW l \in Receivers,
           NEW room \in RoomState, Deliver(l, room)
    PROVE  inbox' \in [Receivers -> Seq(RoomState)]
  <1>1. CASE UNCHANGED inbox
    BY <1>1
  <1>2. CASE inbox' = [inbox EXCEPT ![l] = Append(@, room)]
    <2>1. Append(inbox[l], room) \in Seq(RoomState)
      OBVIOUS
    <2> QED
      BY <1>2, <2>1
  <1> QED
    BY <1>1, <1>2 DEF Deliver

\* The steps of calls and of the tasks that change the room keep the types.
LEMMA WorkType ==
    ASSUME TypeOK, NEW t \in Workers, (CallerStep(t) /\ t \in Callers) \/ RoomStep(t)
    PROVE  /\ phase' = phase /\ endpoint' = endpoint /\ count' = count
           /\ pc' \in [Thread -> Labels] /\ local' \in [Thread -> RoomState]
           /\ registry' \in RoomState /\ rooms' \in RoomState
           /\ inbox' \in [Receivers -> Seq(RoomState)]
           /\ past' \in Past /\ budget' \in Limits
  <1> USE DEF TypeOK, tables, Goto, Keep, Finish, Labels
  <1>0. /\ t \in Thread /\ local[t] \in RoomState
        /\ rooms.listeners \in Nat /\ rooms.listeners + 1 \in Nat
        /\ past.listeners \in Nat /\ past.newest \in RoomState /\ past.stale \in BOOLEAN
    BY DEF Thread, Workers, Loops, RoomState, Past
  <1>1. ASSUME NEW k \in Nat, ReadRoom(t, k)
        PROVE  /\ pc' \in [Thread -> Labels] /\ local' \in [Thread -> RoomState]
               /\ UNCHANGED <<phase, endpoint, count, registry, rooms, inbox>>
    BY <1>0, <1>1, RecordTypes DEF ReadRoom
  <1>2. CASE AddListener(t)
    <2>1. past' \in Past
      BY <1>0, <1>2, SMTT(30) DEF AddListener, Past
    <2>2. budget' \in Limits
      BY <1>2, SpendType DEF AddListener
    <2> QED
      BY <1>0, <1>1, <1>2, <2>1, <2>2 DEF AddListener
  <1>3. CASE RemoveListener(t)
    <2>1. past' \in Past
      BY <1>0, <1>3 DEF RemoveListener, Past
    <2>2. budget' \in Limits
      BY <1>3, SpendType DEF RemoveListener
    <2> QED
      BY <1>0, <1>1, <1>3, <2>1, <2>2, RecordTypes DEF RemoveListener
  <1>4. CASE CloseRoom(t)
    <2>1. past' \in Past
      BY <1>0, <1>4, RecordTypes DEF CloseRoom, Past
    <2>2. budget' \in Limits
      BY <1>4, SpendType DEF CloseRoom
    <2> QED
      BY <1>0, <1>4, <2>1, <2>2, RecordTypes DEF CloseRoom
  <1>5. CASE Unregister(t)
    BY <1>0, <1>5, RecordTypes DEF Unregister
  <1>6. CASE Store(t)
    <2>1. past' \in Past
      <3>1. local[t].listeners \in Nat
        BY <1>0 DEF RoomState
      <3> QED
        BY <1>0, <1>6, <3>1 DEF Store, Observed, Past
    <2> QED
      BY <1>0, <1>6, <2>1, RecordTypes DEF Store
  <1>7. CASE Register(t)
    BY <1>0, <1>7, RecordTypes DEF Register
  <1>8. CASE Send(t)
    <2>1. inbox' \in [Receivers -> Seq(RoomState)]
      BY <1>0, <1>8, DeliverType DEF Send, Receivers
    <2> QED
      BY <1>0, <1>8, <2>1, RecordTypes DEF Send
  <1> QED
    BY <1>2, <1>3, <1>4, <1>5, <1>6, <1>7, <1>8 DEF CallerStep, RoomStep

\* The steps of the health check keep the types.
LEMMA CheckType ==
    ASSUME TypeOK, HealthCheck
    PROVE  /\ phase' = phase /\ endpoint' = endpoint /\ inbox' = inbox /\ past' = past
           /\ pc' \in [Thread -> Labels] /\ local' \in [Thread -> RoomState]
           /\ registry' \in RoomState /\ rooms' \in RoomState
           /\ count' \in Counters /\ budget' \in Limits
  <1> USE DEF TypeOK, tables, outside, Goto, Keep, Finish, Labels, Moves, Checked, Work, At
  <1>0. /\ "health" \in Thread /\ local["health"] \in RoomState
        /\ local["health"].listeners \in Nat /\ registry.revision + 1 \in Nat
    BY DEF Thread, Loops, RoomState
  <1>1. CASE Reap
    <2>1. budget' \in Limits
      BY <1>1, SpendType DEF Reap
    <2> QED
      BY <1>0, <1>1, <2>1, RecordTypes DEF Reap
  <1>2. CASE Bump
    BY <1>0, <1>2 DEF Bump
  <1>3. CASE Bumped
    <2>1. Checked \/ Moves("list", Work)
      BY <1>3 DEF Bumped
    <2> QED
      BY <1>0, <1>3, <2>1, RecordTypes DEF Bumped
  <1>4. CASE ListRooms
    <2>1. Checked \/ Moves("choose", registry)
      BY <1>4 DEF ListRooms
    <2>2. ASSUME NEW label \in Labels, NEW room \in RoomState, Goto("health", label),
                 Keep("health", room)
          PROVE  pc' \in [Thread -> Labels] /\ local' \in [Thread -> RoomState]
      BY <1>0, <2>2
    <2>3. /\ registry \in RoomState /\ NoRoom \in RoomState
          /\ "choose" \in Labels /\ "idle" \in Labels
      BY RecordTypes
    <2>4. pc' \in [Thread -> Labels] /\ local' \in [Thread -> RoomState]
      BY <2>1, <2>2, <2>3
    <2> QED
      BY <1>4, <2>4 DEF ListRooms
  <1>5. CASE ChooseTarget
    BY <1>0, <1>5, RecordTypes DEF ChooseTarget
  <1>6. CASE Attempt
    <2>1. count' \in Counters
      BY <1>6 DEF Attempt, Counters
    <2> QED
      BY <1>0, <1>6, <2>1 DEF Attempt
  <1>7. CASE Replied
    BY <1>0, <1>7 DEF Replied
  <1>8. CASE CountFailed
    <2>1. count' \in Counters
      BY <1>8 DEF CountFailed, Counters
    <2> QED
      BY <1>0, <1>8, <2>1, RecordTypes DEF CountFailed
  <1>9. CASE CountCompleted
    <2>1. count' \in Counters
      BY <1>9 DEF CountCompleted, Counters
    <2> QED
      BY <1>0, <1>9, <2>1 DEF CountCompleted
  <1>10. CASE Revise
    <2>1. [owner |-> Other, addr |-> NoNode, listeners |-> local["health"].listeners,
           revision |-> registry.revision + 1] \in RoomState
      BY <1>0 DEF RoomState
    <2> QED
      BY <1>0, <1>10, <2>1 DEF Revise
  <1>11. CASE ForgetRoom
    BY <1>0, <1>11, RecordTypes DEF ForgetRoom
  <1>12. CASE HandOver
    BY <1>0, <1>12, RecordTypes DEF HandOver
  <1> QED
    BY <1>1, <1>2, <1>3, <1>4, <1>5, <1>6, <1>7, <1>8, <1>9, <1>10, <1>11, <1>12
       DEF HealthCheck

\* So do the start of the node, its other tasks, the endpoint, and other nodes.
LEMMA RestType ==
    ASSUME TypeOK,
           \/ Connect \/ ConnectFails \/ Bind \/ Collect \/ PublishSnapshot \/ MigrateStep
           \/ \E l \in Receivers : Receive(l) \/ Foreign(l)
           \/ \E t \in Probes : Probe(t) \/ Answer(t)
    PROVE  /\ phase' \in {"starting", "joined", "alone"}
           /\ endpoint' \in {"none", "bound", "failed"}
           /\ pc' \in [Thread -> Labels] /\ local' \in [Thread -> RoomState]
           /\ registry' \in RoomState /\ rooms' = rooms
           /\ inbox' \in [Receivers -> Seq(RoomState)]
           /\ count' = count /\ past' = past /\ budget' \in Limits
  <1> USE DEF TypeOK, tables, Goto, Keep, Finish, Labels
  <1>0. /\ \A t \in Probes \cup Receivers \cup {"migrate", "publish"} :
              t \in Thread /\ local[t] \in RoomState
        /\ "rooms" \in Receivers /\ "snapshots" \in Receivers
    BY DEF Thread, Loops, Receivers
  <1>1. CASE Connect
    BY <1>1 DEF Connect
  <1>2. CASE ConnectFails \/ Bind
    BY <1>2 DEF ConnectFails, Bind
  <1>3. CASE Collect
    <2>1. budget' \in Limits
      BY <1>3, SpendType DEF Collect
    <2> QED
      BY <1>0, <1>3, <2>1 DEF Collect
  <1>4. CASE PublishSnapshot
    <2>1. inbox' \in [Receivers -> Seq(RoomState)]
      BY <1>0, <1>4, DeliverType DEF PublishSnapshot
    <2> QED
      BY <1>0, <1>4, <2>1, RecordTypes DEF PublishSnapshot
  <1>5. CASE RequestArrives
    <2>1. budget' \in Limits
      BY <1>5, SpendType DEF RequestArrives
    <2> QED
      BY <1>0, <1>5, <2>1 DEF RequestArrives
  <1>6. CASE Weigh
    BY <1>0, <1>6 DEF Weigh
  <1>7. ASSUME NEW k \in Asked, Claim(k) PROVE local' \in [Thread -> RoomState]
    <2>1. k \in Nat
      BY BoundsAssumption
    <2> QED
      BY <1>0, <1>7, <2>1, RecordTypes DEF Claim
  <1>8. CASE \E k \in Asked : Claim(k)
    BY <1>0, <1>7, <1>8, ZenonT(60) DEF Claim
  <1>9. ASSUME NEW l \in Receivers, Receive(l)
        PROVE  /\ registry' \in RoomState /\ local' \in [Thread -> RoomState]
               /\ pc' \in [Thread -> Labels]
               /\ inbox' \in [Receivers -> Seq(RoomState)]
    <2>1. Head(inbox[l]) \in RoomState /\ Tail(inbox[l]) \in Seq(RoomState)
      BY <1>9 DEF Receive
    <2> QED
      BY <1>0, <1>9, <2>1, RecordTypes DEF Receive
  <1>10. ASSUME NEW l \in Receivers, Foreign(l)
         PROVE  inbox' \in [Receivers -> Seq(RoomState)] /\ budget' \in Limits
    <2>1. PICK room \in {WithOwner(NewRoom(0), Me), NewRoom(0)}
                     \cup {WithOwner([NewRoom(0) EXCEPT !.revision = k], Other) :
                              k \in 1 .. MaxRev - 1}
                     \cup {[NoRoom EXCEPT !.revision = k] : k \in 2 .. MaxRev} :
             inbox' = [inbox EXCEPT ![l] = Append(@, room)]
      BY <1>10 DEF Foreign
    <2>2. \A k \in Nat : [NewRoom(0) EXCEPT !.revision = k] \in RoomState
      BY DEF NewRoom, RoomState
    <2>3. room \in RoomState
      <3>1. \A k \in 1 .. MaxRev - 1 :
               WithOwner([NewRoom(0) EXCEPT !.revision = k], Other) \in RoomState
        BY <2>2, RecordTypes, BoundsAssumption
      <3>2. \A k \in 2 .. MaxRev : [NoRoom EXCEPT !.revision = k] \in RoomState
        BY RecordTypes, BoundsAssumption
      <3>3. NewRoom(0) \in RoomState /\ WithOwner(NewRoom(0), Me) \in RoomState
        BY RecordTypes
      <3> QED
        BY <2>1, <3>1, <3>2, <3>3
    <2>4. Append(inbox[l], room) \in Seq(RoomState)
      BY <2>3
    <2>5. budget' \in Limits
      BY <1>10, SpendType DEF Foreign
    <2> QED
      BY <2>1, <2>4, <2>5
  <1>11. CASE \E l \in Receivers : Receive(l) \/ Foreign(l)
    BY <1>9, <1>10, <1>11 DEF Receive, Foreign
  <1>12. ASSUME NEW t \in Probes, Probe(t) PROVE budget' \in Limits
    BY <1>12, SpendType DEF Probe
  <1>13. CASE \E t \in Probes : Probe(t) \/ Answer(t)
    BY <1>0, <1>12, <1>13 DEF Probe, Answer, ReadStatus, LockRegistry, CountRooms
  <1> QED
    BY <1>1, <1>2, <1>3, <1>4, <1>5, <1>6, <1>8, <1>11, <1>13 DEF MigrateStep

\* Every step keeps the types.
LEMMA StepType == TypeOK /\ [Next]_vars => TypeOK'
  <1> SUFFICES ASSUME TypeOK, [Next]_vars PROVE TypeOK'
    OBVIOUS
  <1>1. CASE UNCHANGED vars
    BY <1>1 DEF vars, TypeOK
  <1>2. CASE Next
    <2>1. raced' \in BOOLEAN
      BY <1>2 DEF Next, Recorded, TypeOK
    <2>2. CASE \/ \E t \in Callers : CallerStep(t)
               \/ \E t \in Workers : RoomStep(t)
      BY <2>1, <2>2, WorkType DEF Workers, TypeOK
    <2>3. CASE HealthCheck
      BY <2>1, <2>3, CheckType DEF TypeOK
    <2>4. CASE \/ Connect \/ ConnectFails \/ Bind \/ Collect \/ PublishSnapshot
               \/ MigrateStep \/ \E l \in Receivers : Receive(l) \/ Foreign(l)
               \/ \E t \in Probes : Probe(t) \/ Answer(t)
      BY <2>1, <2>4, RestType DEF TypeOK
    <2> QED
      BY <1>2, <2>2, <2>3, <2>4 DEF Next, Recorded, Step
  <1> QED
    BY <1>1, <1>2

\* The records, counters and messages of cluster.rs keep their types, for any
\* callers and probes: a listener count never drops below zero.
THEOREM TypeCorrect == Spec => []TypeOK
  BY InitType, StepType, PTL DEF Spec

------------------------------------------------------------------------------
(* Locks and counters. *)

\* Where the two nested sections are: only the health check updates the status
\* under two locks, and one probe at a time has the registry.
Places ==
    /\ \A t \in Thread : pc[t] = "bumping" => t = "health"
    /\ \A t \in Thread : pc[t] = "counting" => t \in Probes
    /\ \A t, u \in Thread : pc[t] = "counting" /\ pc[u] = "counting" => t = u

\* A thread that goes on to a section under a single lock leaves Places as it is.
LEMMA PlacesKept ==
    ASSUME TypeOK, Places, NEW t \in Thread, NEW label \in Labels, Goto(t, label),
           label \notin {"bumping", "counting"}
    PROVE  Places'
  BY DEF TypeOK, Places, Goto

\* The steps of threads other than the health check neither count nor move it.
LEMMA WorkPlaces ==
    ASSUME TypeOK, NEW t \in Workers, (CallerStep(t) /\ t \in Callers) \/ RoomStep(t)
    PROVE  \E label \in Labels \ {"bumping", "counting"} : Goto(t, label)
  BY DEF CallerStep, RoomStep, AddListener, RemoveListener, ReadRoom, CloseRoom,
         Unregister, Store, Register, Send, Finish, Labels, Goto

\* A step of the health check goes to a section under one lock, or to the update
\* of the status; and it counts what it begins and what has ended.
LEMMA CheckPlaces ==
    ASSUME TypeOK, MigrationsAccountedFor, HealthCheck
    PROVE  /\ \E label \in Labels \ {"counting"} : Goto("health", label)
           /\ MigrationsAccountedFor'
  <1> USE DEF Goto, Finish, Moves, Checked, At, outside, Labels
  <1>0. "health" \in Thread /\ count.attempted \in Nat /\ count.completed \in Nat
        /\ count.failed \in Nat /\ pc \in [Thread -> Labels] /\ count \in Counters
    BY DEF Thread, Loops, TypeOK, Counters
  <1> USE DEF MigrationsAccountedFor
  <1>1. CASE Reap
    BY <1>0, <1>1 DEF Reap
  <1>2. CASE Bump
    BY <1>0, <1>2 DEF Bump
  <1>3. CASE Bumped
    BY <1>0, <1>3 DEF Bumped
  <1>4. CASE ListRooms
    BY <1>0, <1>4 DEF ListRooms
  <1>5. CASE ChooseTarget
    BY <1>0, <1>5 DEF ChooseTarget
  <1>6. CASE Attempt
    <2>1. /\ count'.attempted = count.attempted + 1
          /\ count'.completed = count.completed /\ count'.failed = count.failed
      BY <1>0, <1>6 DEF Attempt, Counters
    <2>2. pc["health"] = "attempt" /\ pc'["health"] = "asking" /\ Goto("health", "asking")
      BY <1>0, <1>6 DEF Attempt
    <2>3. MigrationsAccountedFor'
      BY <1>0, <2>1, <2>2
    <2> QED
      BY <2>2, <2>3
  <1>7. CASE Replied
    BY <1>0, <1>7 DEF Replied
  <1>8. CASE CountFailed
    <2>1. /\ count'.failed = count.failed + 1
          /\ count'.attempted = count.attempted /\ count'.completed = count.completed
      BY <1>0, <1>8 DEF CountFailed, Counters
    <2>2. pc["health"] = "failed" /\ pc'["health"] = "idle" /\ Goto("health", "idle")
      BY <1>0, <1>8 DEF CountFailed
    <2>3. MigrationsAccountedFor'
      BY <1>0, <2>1, <2>2
    <2> QED
      BY <2>2, <2>3
  <1>9. CASE CountCompleted
    <2>1. /\ count'.completed = count.completed + 1
          /\ count'.attempted = count.attempted /\ count'.failed = count.failed
      BY <1>0, <1>9 DEF CountCompleted, Counters
    <2>2. pc["health"] = "completed" /\ pc'["health"] = "revise" /\ Goto("health", "revise")
      BY <1>0, <1>9 DEF CountCompleted
    <2>3. MigrationsAccountedFor'
      BY <1>0, <2>1, <2>2
    <2> QED
      BY <2>2, <2>3
  <1>10. CASE Revise
    BY <1>0, <1>10 DEF Revise
  <1>11. CASE ForgetRoom
    BY <1>0, <1>11 DEF ForgetRoom
  <1>12. CASE HandOver
    BY <1>0, <1>12 DEF HandOver
  <1> QED
    BY <1>1, <1>2, <1>3, <1>4, <1>5, <1>6, <1>7, <1>8, <1>9, <1>10, <1>11, <1>12
       DEF HealthCheck

\* Every other step leaves the health check and the counters alone, but for the
\* start of the node; and one that locks the registry finds it free.
LEMMA RestPlaces ==
    ASSUME TypeOK, Places, NEW t \in Probes, Probe(t) \/ Answer(t)
    PROVE  Places' /\ pc'["health"] = pc["health"] /\ count' = count
  <1>0. t \in Thread /\ "health" \in Thread /\ t # "health"
    BY ThreadAssumption DEF Thread, Loops
  <1>1. pc' \in [Thread -> Labels]
    BY RestType
  <1>2. CASE Probe(t) \/ ReadStatus(t) \/ CountRooms(t)
    <2>1. \E label \in {"ask", "count", "idle"} : Goto(t, label)
      BY <1>2 DEF Probe, ReadStatus, CountRooms
    <2>2. Places'
      BY <1>0, <2>1, PlacesKept DEF Labels
    <2> QED
      BY <1>0, <1>2, <2>2 DEF Probe, ReadStatus, CountRooms, Goto, TypeOK
  <1>3. CASE LockRegistry(t)
    <2>1. \A u \in Thread : pc[u] # "counting"
      BY <1>3 DEF LockRegistry, Free, Holding
    <2> QED
      BY <1>0, <1>3, <2>1 DEF LockRegistry, Goto, TypeOK, Places
  <1> QED
    BY <1>2, <1>3 DEF Answer

\* The inductive invariant: before the node has joined its tasks do not run.
IInv ==
    /\ TypeOK /\ Places /\ MigrationsAccountedFor
    /\ phase = "starting" => pc["health"] = "off"

\* The invariant holds initially.
LEMMA InitInv == Init => IInv
  <1> SUFFICES ASSUME Init PROVE IInv
    OBVIOUS
  <1>1. TypeOK
    BY InitType
  <1>2. \A t \in Thread : pc[t] \in {"off", "idle"}
    BY DEF Init
  <1>3. "health" \in Thread /\ pc["health"] = "off"
    BY DEF Init, Thread, Loops
  <1> QED
    BY <1>1, <1>2, <1>3 DEF Init, IInv, Places, MigrationsAccountedFor

\* The invariant is inductive.
LEMMA InvStep == IInv /\ [Next]_vars => IInv'
  <1> SUFFICES ASSUME IInv, [Next]_vars PROVE IInv'
    OBVIOUS
  <1>0. TypeOK /\ Places /\ MigrationsAccountedFor /\ TypeOK'
    BY StepType DEF IInv
  <1>1. "health" \in Thread /\ "health" \notin Workers /\ "health" \notin Probes
    BY ThreadAssumption DEF Thread, Loops, Workers, Receivers
  <1>2. ASSUME Places', pc'["health"] = pc["health"], count' = count,
               phase' = phase \/ phase' # "starting"
        PROVE  IInv'
    BY <1>0, <1>2 DEF IInv, MigrationsAccountedFor
  <1>3. CASE UNCHANGED vars
    BY <1>0, <1>2, <1>3 DEF vars, Places
  <1>4. ASSUME NEW t \in Workers, (CallerStep(t) /\ t \in Callers) \/ RoomStep(t)
        PROVE  IInv'
    <2>1. PICK label \in Labels \ {"bumping", "counting"} : Goto(t, label)
      BY <1>0, <1>4, WorkPlaces
    <2>2. t \in Thread /\ t # "health"
      BY <1>1 DEF Workers, Thread, Loops
    <2>3. Places'
      BY <1>0, <2>1, <2>2, PlacesKept
    <2>4. pc'["health"] = pc["health"]
      BY <1>0, <1>1, <2>1, <2>2 DEF Goto, TypeOK
    <2>5. count' = count /\ phase' = phase
      BY <1>0, <1>4, WorkType
    <2> QED
      BY <1>2, <2>3, <2>4, <2>5
  <1>5. CASE HealthCheck
    <2>1. PICK label \in Labels \ {"counting"} : Goto("health", label)
      BY <1>0, <1>5, CheckPlaces
    <2>2. MigrationsAccountedFor'
      BY <1>0, <1>5, CheckPlaces
    <2>3. Places'
      BY <1>0, <1>1, <2>1 DEF Places, Goto, TypeOK
    <2>4. phase' = phase /\ pc["health"] # "off"
      BY <1>5 DEF HealthCheck, Reap, Bump, Bumped, ListRooms, ChooseTarget, Attempt,
         Replied, CountFailed, CountCompleted, Revise, ForgetRoom, HandOver, At, outside
    <2> QED
      BY <1>0, <2>2, <2>3, <2>4 DEF IInv
  <1>6. CASE Connect
    <2>1. \A t \in Thread : pc'[t] = pc[t] \/ pc'[t] \in {"ended", "idle"}
      BY <1>6 DEF Connect
    <2>2. pc["health"] = "off" /\ pc'["health"] \in {"ended", "idle"}
      BY <1>1, <1>6 DEF Connect, IInv, Loops
    <2>3. count' = count /\ phase' # "starting"
      BY <1>6 DEF Connect
    <2> QED
      BY <1>0, <2>1, <2>2, <2>3 DEF IInv, Places, MigrationsAccountedFor
  <1>7. CASE ConnectFails \/ Bind
    BY <1>0, <1>2, <1>7 DEF ConnectFails, Bind, Places
  <1>8. ASSUME NEW t \in {"publish", "migrate"} \cup Receivers,
               NEW label \in Labels \ {"bumping", "counting"},
               Goto(t, label), count' = count, phase' = phase
        PROVE  IInv'
    <2>1. t \in Thread /\ t # "health"
      BY DEF Thread, Loops, Receivers
    <2>2. Places'
      BY <1>0, <1>8, <2>1, PlacesKept
    <2>3. pc'["health"] = pc["health"]
      BY <1>0, <1>1, <1>8, <2>1 DEF Goto, TypeOK
    <2> QED
      BY <1>2, <1>8, <2>2, <2>3
  <1>9. CASE Collect \/ PublishSnapshot \/ MigrateStep
    <2>1. \E t \in {"publish", "migrate"}, label \in Labels \ {"bumping", "counting"} :
             Goto(t, label)
      BY <1>9 DEF Collect, PublishSnapshot, MigrateStep, RequestArrives, Weigh, Claim,
         Finish, Labels
    <2>2. count' = count /\ phase' = phase
      BY <1>9 DEF Collect, PublishSnapshot, MigrateStep, RequestArrives, Weigh, Claim
    <2> QED
      BY <1>8, <2>1, <2>2
  <1>10. ASSUME NEW l \in Receivers, Receive(l) \/ Foreign(l) PROVE IInv'
    <2>1. pc' = pc \/ Goto(l, "store")
      BY <1>10 DEF Receive, Foreign
    <2>2. count' = count /\ phase' = phase
      BY <1>10 DEF Receive, Foreign
    <2>3. CASE pc' = pc
      BY <1>0, <1>2, <2>2, <2>3 DEF Places
    <2> QED
      BY <1>8, <2>1, <2>2, <2>3 DEF Labels
  <1>11. ASSUME NEW t \in Probes, Probe(t) \/ Answer(t) PROVE IInv'
    <2>1. phase' = phase
      BY <1>11 DEF Probe, Answer, ReadStatus, LockRegistry, CountRooms
    <2> QED
      BY <1>0, <1>2, <1>11, <2>1, RestPlaces
  <1> QED
    BY <1>3, <1>4, <1>5, <1>6, <1>7, <1>9, <1>10, <1>11
       DEF Next, Recorded, Step, Workers

\* The inductive invariant holds in every reachable state of the process.
THEOREM Inductive == Spec => []IInv
  BY InitInv, InvStep, PTL DEF Spec

\* health_check counts every migration it begins, as completed or as failed.
THEOREM MigrationsCounted == Spec => []MigrationsAccountedFor
  <1>1. IInv => MigrationsAccountedFor
    BY DEF IInv
  <1> QED
    BY <1>1, Inductive, PTL

\* The locks of cluster.rs have one holder each, and whoever waits for one waits
\* for a thread that can go on: with any number of callers and probes the tasks
\* never wait for each other in a circle.
THEOREM DeadlockFree == Spec => []NoDeadlock
  <1>1. ASSUME TypeOK, Places PROVE NoDeadlock
    <2> USE <1>1
    <2>1. \A t \in Thread : Holding(t) \in {{}, {"status"}, {"registry"}}
      BY DEF Holding
    <2>2. /\ \A t \in Thread : "status" \in Holding(t) <=> pc[t] = "bumping"
          /\ \A t \in Thread : "registry" \in Holding(t) <=> pc[t] = "counting"
      BY DEF Holding
    <2>3. \A t, u \in Thread : Holding(t) \cap Holding(u) # {} => t = u
      BY <2>1, <2>2 DEF Places
    <2>4. \A u \in Thread : pc[u] = "counting" => Holding(u) # {} /\ ~Blocked(u)
      BY <2>1, <2>2 DEF Wants, Blocked
    <2>5. \A u \in Thread : pc[u] = "bumping" => Holding(u) # {} /\ Wants(u) = {"registry"}
      BY DEF Wants, Holding
    <2>6. ASSUME NEW t \in Thread, Blocked(t)
          PROVE  \E u \in Thread : Holding(u) # {} /\ ~Blocked(u)
      <3>1. PICK u \in Thread : Wants(t) \cap Holding(u) # {}
        BY <2>6 DEF Blocked
      <3>2. CASE pc[u] = "counting"
        BY <2>4, <3>2
      <3>3. CASE pc[u] = "bumping" /\ Blocked(u)
        <4>1. PICK v \in Thread : {"registry"} \cap Holding(v) # {}
          BY <2>5, <3>3 DEF Blocked
        <4> QED
          BY <2>2, <2>4, <4>1
      <3>4. pc[u] = "counting" \/ pc[u] = "bumping"
        BY <2>1, <2>2, <3>1
      <3> QED
        BY <2>5, <3>2, <3>3, <3>4
    <2> QED
      BY <2>3, <2>6 DEF NoDeadlock
  <1>2. IInv => NoDeadlock
    BY <1>1 DEF IInv
  <1> QED
    BY <1>2, Inductive, PTL

------------------------------------------------------------------------------
(* The room, as long as no two operations on it have overlapped. *)

\* Where a thread is in the middle of an operation on the room.
Working == {"store", "register", "unregister", "forget", "handover"}

\* Which thread gets to which section of the operations on the room.
Stations ==
    \A t \in Thread :
        /\ pc[t] = "store" => t \in Workers
        /\ pc[t] = "register" => t \in Callers \cup {"migrate"}
        /\ pc[t] = "unregister" => t \in Callers
        /\ pc[t] \in {"forget", "handover"} => t = "health"
        /\ pc[t] = "send" => t \in (Workers \ Receivers) \cup {"publish"}
        /\ phase = "starting" /\ t \in Loops => pc[t] = "off"

OneAtATime ==
    ~raced => \A t, u \in Thread : pc[t] \in Working /\ pc[u] \in Working => t = u

\* The records that this node can still hear of: in its registry, on their way
\* through a broadcast, or taken from one and not stored.
Taken(t) == pc[t] = "send" \/ (t \in Receivers /\ pc[t] = "store")
Waiting == UNION {{inbox[l][i] : i \in DOMAIN inbox[l]} : l \in Receivers}
Pending == {registry} \cup {local[t] : t \in {u \in Thread : Taken(u)}} \cup Waiting

\* A record with this node as the owner is not the first of the room, and this
\* node serves such records only.
OwnRecords ==
    /\ \A room \in Pending : room.owner = Me => room.revision >= 2
    /\ Known(rooms) => rooms.owner = Me /\ rooms.revision >= 2
    /\ \A t \in Thread :
          /\ pc[t] \in {"store", "register"} =>
                local[t].owner = Me /\ local[t].revision >= 2
          /\ pc[t] \in {"unregister", "forget", "handover"} => local[t].owner # Me

\* Operations that have the registry ahead of the own table.
Clears(t) == pc[t] \in {"unregister", "handover"} \/ (t \in Receivers /\ pc[t] = "store")

\* What holds between the registry, the own table and the operation under way.
Serves ==
    /\ (\A t \in Thread : pc[t] # "register") => rooms.revision <= registry.revision
    /\ registry.owner = Me => Known(rooms) \/ \E t \in Thread : Clears(t)
    /\ \A t \in Thread :
          /\ pc[t] = "register" => rooms = local[t]
          /\ pc[t] \in {"unregister", "handover"} => rooms = NoRoom
          /\ t \in Receivers /\ pc[t] = "store" =>
                local[t].revision <= registry.revision
          /\ pc[t] \in {"forget", "handover"} /\ registry.owner = Me =>
                registry.revision < local[t].revision
          /\ t \in Callers /\ pc[t] = "store" =>
                Known(rooms) /\ local[t] = WithListeners(rooms, local[t].listeners)

\* The room as a node that is given it has it first.
Assigned == WithOwner(NewRoom(0), Me)

\* What the observer knows is what the own table has; no record that this node
\* can still hear of is newer, but for the one that gives it the room.
Counted ==
    /\ Known(rooms) => rooms = past.newest
    /\ past.newest.revision = 0 => past.listeners = 0
    /\ past.newest.revision # 1
    /\ \A room \in Pending :
          room.owner = Me => room.revision <= past.newest.revision \/ room = Assigned
    /\ \A t \in Callers : pc[t] = "store" => local[t].listeners = past.listeners
    /\ \/ \E t \in Callers : pc[t] = "store"
       \/ past.newest.owner = Me => past.newest.listeners = past.listeners

Sound ==
    /\ Stations /\ OneAtATime /\ OwnRecords
    /\ ~raced => Serves
    /\ ~raced /\ ~past.stale => Counted

\* The initial state is sound.
LEMMA InitSound == Init => Sound
  <1> SUFFICES ASSUME Init PROVE Sound
    OBVIOUS
  <1>1. \A t \in Thread : pc[t] \in {"off", "idle"}
    BY DEF Init
  <1>2. Pending = {NoRoom}
    BY <1>1 DEF Init, Pending, Waiting, Taken
  <1>3. NoRoom.owner # Me /\ NoRoom.revision = 0
    BY NodeAssumption DEF NoRoom
  <1>4. Stations /\ OneAtATime
    BY <1>1 DEF Stations, OneAtATime, Working, Init
  <1>5. OwnRecords /\ Serves
    BY <1>1, <1>2, <1>3 DEF OwnRecords, Serves, Init, Known
  <1>6. Counted
    BY <1>1, <1>2, <1>3 DEF Counted, Init, Known, Thread
  <1> QED
    BY <1>4, <1>5, <1>6 DEF Sound

\* Whoever is in the middle of an operation is Busy, and nobody else is.
LEMMA BusyWhere == Stations => \A t \in Thread : Busy(t) <=> pc[t] \in Working
  BY ThreadAssumption DEF Busy, Working, Stations, Workers, Receivers, Loops

\* A step after which no two operations have overlapped leaves one at most.
LEMMA AloneKept ==
    ASSUME Stations', raced' = (raced \/ Race')
    PROVE  OneAtATime'
  <1>1. (\A t \in Thread : Busy(t) <=> pc[t] \in Working)'
    BY BusyWhere, PTL
  <1> QED
    BY <1>1 DEF OneAtATime, Race

\* The stations of a thread that may get to a label.
LEMMA StationsKept ==
    ASSUME TypeOK, Stations, NEW t \in Thread, NEW label \in Labels, Goto(t, label),
           phase' = phase, pc[t] # "off",
           label = "store" => t \in Workers,
           label = "register" => t \in Callers \cup {"migrate"},
           label = "unregister" => t \in Callers,
           label \in {"forget", "handover"} => t = "health",
           label = "send" => t \in (Workers \ Receivers) \cup {"publish"}
    PROVE  Stations'
  BY DEF TypeOK, Stations, Goto

\* While a thread begins, goes on with or ends an operation that nobody
\* overlaps, the others are not in the middle of one.
LEMMA OthersRest ==
    ASSUME TypeOK, OneAtATime, OneAtATime', ~raced', ~raced,
           NEW t \in Thread, NEW label \in Labels, Goto(t, label),
           pc[t] \in Working \/ label \in Working
    PROVE  \A u \in Thread : u # t => pc[u] \notin Working /\ pc'[u] = pc[u]
  BY DEF TypeOK, OneAtATime, Goto

\* What a step adds to the records that can still be heard of.
LEMMA PendingGrows ==
    ASSUME NEW S, Pending \subseteq S, registry' \in S, NEW t \in Thread,
           \A u \in Thread : u # t => pc'[u] = pc[u] /\ local'[u] = local[u],
           Taken(t)' => local'[t] \in S,
           \A l \in Receivers : \A i \in DOMAIN inbox'[l] : inbox'[l][i] \in S
    PROVE  Pending' \subseteq S
  <1>1. \A u \in Thread : Taken(u)' => local'[u] \in S
    BY DEF Taken, Pending
  <1> QED
    BY <1>1 DEF Pending, Waiting

LEMMA PendingType == TypeOK => Pending \subseteq RoomState
  <1> SUFFICES ASSUME TypeOK PROVE Pending \subseteq RoomState
    OBVIOUS
  <1>1. ASSUME NEW l \in Receivers, NEW i \in DOMAIN inbox[l]
        PROVE  inbox[l][i] \in RoomState
    <2>1. inbox[l] \in Seq(RoomState)
      BY DEF TypeOK
    <2> QED
      BY <2>1
  <1>2. Waiting \subseteq RoomState
    BY <1>1 DEF Waiting
  <1> QED
    BY <1>2 DEF Pending, TypeOK

LEMMA WaitingPending ==
    /\ registry \in Pending
    /\ \A t \in Thread : Taken(t) => local[t] \in Pending
    /\ \A l \in Receivers : \A i \in DOMAIN inbox[l] : inbox[l][i] \in Pending
  BY DEF Pending, Waiting

\* A step of a thread that is in the middle of no operation, before and after,
\* and leaves the room alone.
LEMMA AsideSound ==
    ASSUME TypeOK, Sound, raced' = (raced \/ Race'),
           NEW t \in Thread, NEW label \in Labels \ Working, Goto(t, label),
           pc[t] \notin Working, pc[t] # "off",
           label = "send" => t \in (Workers \ Receivers) \cup {"publish"},
           \A u \in Thread : u # t => local'[u] = local[u],
           phase' = phase, registry' = registry, rooms' = rooms, past' = past,
           Pending' \subseteq Pending
    PROVE  Sound'
  <1>1. Stations'
    BY StationsKept DEF Sound, Working
  <1>2. OneAtATime'
    BY <1>1, AloneKept
  <1>3. \A u \in Thread : \/ pc'[u] = pc[u] /\ local'[u] = local[u]
                          \/ pc'[u] \notin Working /\ pc[u] \notin Working
    BY DEF TypeOK, Goto
  <1>4. OwnRecords'
    BY <1>3 DEF Sound, OwnRecords, Working
  <1>5. Serves => Serves'
    BY <1>3 DEF Serves, Working, Clears
  <1>6. Counted => Counted'
    <2>1. \A u \in Callers : u \in Thread
      BY DEF Thread
    <2> QED
      BY <1>3, <2>1 DEF Counted, Working
  <1> QED
    BY <1>1, <1>2, <1>4, <1>5, <1>6 DEF Sound

\* add_listener and remove_listener read the room, to store it with one more or
\* one fewer listener: the observer counts in the same way.
LEMMA ReadSound ==
    ASSUME TypeOK, Sound, raced' = (raced \/ Race'), NEW t \in Callers,
           AddListener(t) \/ RemoveListener(t)
    PROVE  Sound'
  <1> DEFINE k == IF AddListener(t) THEN rooms.listeners + 1
                  ELSE OneFewer(rooms.listeners)
  <1>1. /\ ReadRoom(t, k) /\ past'.newest = past.newest /\ past'.stale = past.stale
        /\ rooms.listeners = past.listeners => k = past'.listeners
    BY DEF AddListener, RemoveListener, TypeOK, Past, OneFewer
  <1>2. /\ t \in Thread /\ t \in Workers /\ t \notin Loops
        /\ pc[t] = "idle" /\ Goto(t, "store") /\ Known(rooms)
        /\ pc'[t] = "store" /\ local'[t] = WithListeners(rooms, k)
        /\ \A u \in Thread : u # t => pc'[u] = pc[u] /\ local'[u] = local[u]
        /\ UNCHANGED <<phase, registry, rooms, inbox>>
    BY <1>1, ThreadAssumption
       DEF ReadRoom, Goto, Keep, tables, TypeOK, Thread, Workers
  <1>3. Stations'
    BY <1>2, StationsKept DEF Sound, Labels
  <1>4. OneAtATime'
    BY <1>3, AloneKept
  <1>5. Pending' \subseteq Pending
    <2>1. ~Taken(t)'
      BY <1>2 DEF Taken, Receivers, Loops
    <2> QED
      BY <1>2, <2>1, PendingGrows, WaitingPending
  <1>6. /\ local'[t].owner = rooms.owner /\ local'[t].revision = rooms.revision + 1
        /\ local'[t].listeners = k
    BY <1>2 DEF WithListeners
  <1>7. OwnRecords'
    BY <1>2, <1>5, <1>6 DEF Sound, OwnRecords, TypeOK, RoomState
  <1>8. ASSUME ~raced', ~raced PROVE \A u \in Thread : u # t => pc[u] \notin Working
    BY <1>2, <1>4, <1>8, OthersRest DEF Sound, Working, Labels
  <1>9. Serves /\ ~raced /\ ~raced' => Serves'
    <2>1. local'[t] = WithListeners(rooms', local'[t].listeners)
      BY <1>2, <1>6
    <2> QED
      BY <1>2, <1>8, <2>1 DEF Serves, Working, Clears, Receivers, Loops
  <1>10. Counted /\ OwnRecords /\ ~raced /\ ~raced' => Counted'
    <2> SUFFICES ASSUME Counted, OwnRecords, ~raced, ~raced' PROVE Counted'
      OBVIOUS
    <2>1. rooms = past.newest /\ past.newest.owner = Me /\ past.newest.revision >= 2
      BY <1>2 DEF Counted, OwnRecords
    <2>2. rooms.listeners = past.listeners
      <3>1. \A u \in Callers : pc[u] # "store"
        BY <1>2, <1>8 DEF Thread, Working
      <3> QED
        BY <2>1, <3>1 DEF Counted
    <2>3. \A u \in Callers : pc'[u] = "store" => local'[u].listeners = past'.listeners
      BY <1>1, <1>2, <1>6, <1>8, <2>2 DEF Thread, Working
    <2> QED
      BY <1>1, <1>2, <1>5, <2>1, <2>3 DEF Counted
  <1> QED
    BY <1>1, <1>3, <1>4, <1>7, <1>9, <1>10 DEF Sound

\* remove_room takes the room off the own table, and leaves a tombstone to send.
LEMMA CloseSound ==
    ASSUME TypeOK, Sound, raced' = (raced \/ Race'), NEW t \in Callers, CloseRoom(t)
    PROVE  Sound'
  <1>1. /\ t \in Thread /\ t \notin Loops
        /\ pc[t] = "idle" /\ Goto(t, "unregister") /\ Known(rooms)
        /\ pc'[t] = "unregister" /\ local'[t] = Tombstone(rooms) /\ rooms' = NoRoom
        /\ \A u \in Thread : u # t => pc'[u] = pc[u] /\ local'[u] = local[u]
        /\ past'.listeners = past.listeners /\ past'.newest = Tombstone(rooms)
        /\ past'.stale = past.stale
        /\ UNCHANGED <<phase, registry, inbox>>
    BY ThreadAssumption
       DEF CloseRoom, Goto, Keep, tables, TypeOK, Thread, Past
  <1>2. Stations'
    BY <1>1, StationsKept DEF Sound, Labels
  <1>3. OneAtATime'
    BY <1>2, AloneKept
  <1>4. Pending' \subseteq Pending
    <2>1. ~Taken(t)'
      BY <1>1 DEF Taken, Receivers, Loops
    <2> QED
      BY <1>1, <2>1, PendingGrows, WaitingPending
  <1>5. /\ Tombstone(rooms).owner # Me
        /\ Tombstone(rooms).revision = rooms.revision + 1
        /\ ~Known(NoRoom) /\ NoRoom.revision = 0
    BY NodeAssumption DEF Tombstone, NoRoom, Known
  <1>6. OwnRecords'
    BY <1>1, <1>4, <1>5 DEF Sound, OwnRecords
  <1>7. ASSUME ~raced', ~raced PROVE \A u \in Thread : u # t => pc[u] \notin Working
    BY <1>1, <1>3, <1>7, OthersRest DEF Sound, Working, Labels
  <1>8. Serves /\ ~raced /\ ~raced' => Serves'
    <2>1. registry.revision >= 0
      BY DEF TypeOK, RoomState
    <2>2. Clears(t)'
      BY <1>1 DEF Clears
    <2> QED
      BY <1>1, <1>5, <1>7, <2>1, <2>2 DEF Serves, Working, Receivers, Loops
  <1>9. Counted /\ OwnRecords /\ ~raced /\ ~raced' => Counted'
    <2> SUFFICES ASSUME Counted, OwnRecords, ~raced, ~raced' PROVE Counted'
      OBVIOUS
    <2>1. rooms = past.newest /\ past.newest.revision >= 2
      BY <1>1 DEF Counted, OwnRecords
    <2>2. past'.newest.revision = past.newest.revision + 1
      BY <1>1, <1>5, <2>1
    <2>3. \A room \in Pending : room.revision \in Nat
      BY PendingType DEF RoomState
    <2>4. \A room \in Pending' :
             room.owner = Me => room.revision <= past'.newest.revision \/ room = Assigned
      BY <1>4, <2>1, <2>2, <2>3 DEF Counted, TypeOK, Past, RoomState
    <2>5. \A u \in Callers : pc'[u] = "store" => local'[u].listeners = past'.listeners
      BY <1>1 DEF Counted, Thread
    <2> QED
      BY <1>1, <1>5, <2>1, <2>2, <2>4, <2>5 DEF Counted, TypeOK, Past, RoomState, Known
  <1> QED
    BY <1>1, <1>2, <1>3, <1>6, <1>8, <1>9 DEF Sound

\* remove_room forgets the room in the registry, where another record may have
\* come in.
LEMMA UnregisterSound ==
    ASSUME TypeOK, Sound, raced' = (raced \/ Race'), NEW t \in Callers, Unregister(t)
    PROVE  Sound'
  <1>1. /\ t \in Thread /\ t \in Workers \ Receivers /\ t \notin Loops
        /\ pc[t] = "unregister" /\ Goto(t, "send") /\ pc'[t] = "send"
        /\ registry' = NoRoom
        /\ \A u \in Thread : u # t => pc'[u] = pc[u]
        /\ UNCHANGED <<phase, local, rooms, inbox, past>>
    BY ThreadAssumption
       DEF Unregister, Goto, tables, TypeOK, Thread, Workers, Receivers, Loops
  <1>2. Stations'
    BY <1>1, StationsKept DEF Sound, Labels
  <1>3. OneAtATime'
    BY <1>2, AloneKept
  <1>4. local[t].owner # Me /\ NoRoom.owner # Me /\ NoRoom.revision = 0
    BY <1>1, NodeAssumption DEF Sound, OwnRecords, NoRoom
  <1>5. Pending' \subseteq Pending \cup {NoRoom, local[t]}
    <2> DEFINE S == Pending \cup {NoRoom, local[t]}
    <2>1. Pending \subseteq S /\ registry' \in S /\ local'[t] \in S
      BY <1>1
    <2>2. \A l \in Receivers : \A i \in DOMAIN inbox'[l] : inbox'[l][i] \in S
      BY <1>1, WaitingPending
    <2> HIDE DEF S
    <2>3. Pending' \subseteq S
      BY <1>1, <2>1, <2>2, PendingGrows
    <2> QED
      BY <2>3 DEF S
  <1>6. OwnRecords'
    BY <1>1, <1>4, <1>5 DEF Sound, OwnRecords
  <1>7. ASSUME ~raced', ~raced PROVE \A u \in Thread : u # t => pc[u] \notin Working
    BY <1>1, <1>3, <1>7, OthersRest DEF Sound, Working, Labels
  <1>8. Serves /\ ~raced /\ ~raced' => Serves'
    BY <1>1, <1>4, <1>7 DEF Serves, Working, Clears, Receivers, Loops
  <1>9. Counted => Counted'
    <2> SUFFICES ASSUME Counted PROVE Counted'
      OBVIOUS
    <2>1. \A room \in Pending' :
             room.owner = Me => room.revision <= past'.newest.revision \/ room = Assigned
      BY <1>1, <1>4, <1>5 DEF Counted
    <2>2. \A u \in Callers : pc'[u] = "store" <=> pc[u] = "store"
      BY <1>1 DEF Thread
    <2> QED
      BY <1>1, <2>1, <2>2 DEF Counted
  <1> QED
    BY <1>1, <1>2, <1>3, <1>6, <1>8, <1>9 DEF Sound

\* A call or a task that stores a record in the own table.  A record with which
\* nothing older comes back is newer than every record stored before, or is the
\* newest of them; one that a message brought is no newer, but for the first.
LEMMA StoreSound ==
    ASSUME TypeOK, Sound, raced' = (raced \/ Race'), NEW t \in Workers, Store(t)
    PROVE  Sound'
  <1> DEFINE room == local[t]
             label == IF t \in Receivers THEN "idle" ELSE "register"
  <1>1. /\ t \in Thread /\ pc[t] = "store" /\ Goto(t, label) /\ pc'[t] = label
        /\ rooms' = room /\ past' = Observed(t, room)
        /\ \A u \in Thread : u # t => pc'[u] = pc[u] /\ local'[u] = local[u]
        /\ t \notin Receivers => local' = local
        /\ UNCHANGED <<phase, registry, inbox>>
    BY DEF Store, Finish, Goto, Keep, tables, TypeOK, Thread, Workers, Loops
  <1>2. Stations'
    BY <1>1, StationsKept DEF Sound, Labels, Workers, Receivers
  <1>3. OneAtATime'
    BY <1>2, AloneKept
  <1>4. Pending' \subseteq Pending
    <2>1. ~Taken(t)'
      BY <1>1 DEF Taken
    <2> QED
      BY <1>1, <2>1, PendingGrows, WaitingPending
  <1>5. room.owner = Me /\ room.revision >= 2 /\ Known(room) /\ room \in RoomState
    <2>1. room.owner = Me /\ room.revision >= 2
      BY <1>1 DEF Sound, OwnRecords
    <2>2. room \in RoomState /\ room.revision \in Nat
      BY <1>1 DEF TypeOK, RoomState
    <2> QED
      BY <2>1, <2>2 DEF Known
  <1>6. OwnRecords'
    BY <1>1, <1>4, <1>5 DEF Sound, OwnRecords
  <1>7. ASSUME ~raced', ~raced PROVE \A u \in Thread : u # t => pc[u] \notin Working
    BY <1>1, <1>3, <1>7, OthersRest DEF Sound, Working, Labels
  <1>8. Serves /\ ~raced /\ ~raced' => Serves'
    BY <1>1, <1>5, <1>7 DEF Serves, Working, Clears
  <1>9. past.stale => past'.stale
    BY <1>1 DEF Observed
  <1>10. Counted /\ ~raced /\ ~raced' /\ ~past'.stale => Counted'
    <2> SUFFICES ASSUME Counted, ~raced, ~raced', ~past'.stale PROVE Counted'
      OBVIOUS
    <2>1. room.revision > past.newest.revision \/ room = past.newest
      BY <1>1, <1>5 DEF Observed, TypeOK, Past, RoomState
    <2>2. past'.newest = room /\ past.newest.revision <= room.revision
      BY <1>1, <1>5, <2>1 DEF Observed, TypeOK, Past, RoomState
    <2>3. \A u \in Callers : pc'[u] # "store"
      BY <1>1, <1>7 DEF Thread, Working
    <2>4. room.listeners = past'.listeners
      <3>1. CASE t = "migrate"
        BY <1>1, <3>1 DEF Observed
      <3>2. CASE t \in Callers
        <4>1. t # "migrate"
          BY <3>2, ThreadAssumption DEF Loops
        <4> QED
          BY <1>1, <3>2, <4>1 DEF Observed, Counted
      <3>3. CASE t \in Receivers
        <4>1. room \in Pending /\ t # "migrate"
          BY <1>1, <3>3, WaitingPending DEF Taken, Receivers
        <4>2. past'.listeners = past.listeners
          BY <1>1, <4>1 DEF Observed
        <4>3. CASE room = past.newest
          <5>1. \A u \in Callers : pc[u] # "store"
            BY <1>7, <3>3, ThreadAssumption DEF Thread, Working, Loops
          <5> QED
            BY <1>5, <4>2, <4>3, <5>1 DEF Counted
        <4>4. CASE room # past.newest
          <5>1. room = Assigned /\ room.listeners = 0 /\ room.revision = 2
            BY <1>5, <2>1, <4>1, <4>4
               DEF Counted, Assigned, WithOwner, NewRoom, TypeOK, Past, RoomState
          <5>2. past.newest.revision = 0
            BY <2>1, <4>4, <5>1 DEF Counted, TypeOK, Past, RoomState
          <5> QED
            BY <4>2, <5>1, <5>2 DEF Counted
        <4> QED
          BY <4>3, <4>4
      <3> QED
        BY <3>1, <3>2, <3>3 DEF Workers
    <2>5. \A r \in Pending' :
             r.owner = Me => r.revision <= past'.newest.revision \/ r = Assigned
      <3>1. \A r \in Pending : r.revision \in Nat
        BY PendingType DEF RoomState
      <3> QED
        BY <1>4, <1>5, <2>2, <3>1, SMTT(30) DEF Counted, TypeOK, Past, RoomState
    <2> QED
      BY <1>1, <1>5, <2>2, <2>3, <2>4, <2>5 DEF Counted
  <1> QED
    BY <1>2, <1>3, <1>6, <1>8, <1>9, <1>10 DEF Sound

\* A call or the task that takes over rooms registers what it has stored.
LEMMA RegisterSound ==
    ASSUME TypeOK, Sound, raced' = (raced \/ Race'), NEW t \in Workers, Register(t)
    PROVE  Sound'
  <1>1. /\ t \in Thread /\ pc[t] = "register" /\ Goto(t, "send") /\ pc'[t] = "send"
        /\ registry' = Apply(registry, local[t])
        /\ \A u \in Thread : u # t => pc'[u] = pc[u]
        /\ UNCHANGED <<phase, local, rooms, inbox, past>>
    BY DEF Register, Goto, tables, TypeOK, Thread, Workers, Loops
  <1>2. t \in Callers \cup {"migrate"} /\ t \notin Receivers
    BY <1>1, ThreadAssumption DEF Sound, Stations, Receivers, Loops
  <1>3. Stations'
    BY <1>1, <1>2, StationsKept DEF Sound, Labels, Workers
  <1>4. OneAtATime'
    BY <1>3, AloneKept
  <1>5. registry' \in {registry, local[t]}
    BY <1>1 DEF Apply
  <1>6. Pending' \subseteq Pending \cup {local[t]}
    <2> DEFINE S == Pending \cup {local[t]}
    <2>1. Pending \subseteq S /\ registry' \in S /\ local'[t] \in S
      BY <1>1, <1>5, WaitingPending
    <2>2. \A l \in Receivers : \A i \in DOMAIN inbox'[l] : inbox'[l][i] \in S
      BY <1>1, WaitingPending
    <2> HIDE DEF S
    <2>3. Pending' \subseteq S
      BY <1>1, <2>1, <2>2, PendingGrows
    <2> QED
      BY <2>3 DEF S
  <1>7. OwnRecords'
    BY <1>1, <1>6 DEF Sound, OwnRecords
  <1>8. ASSUME ~raced', ~raced PROVE \A u \in Thread : u # t => pc[u] \notin Working
    BY <1>1, <1>4, <1>8, OthersRest DEF Sound, Working, Labels
  <1>9. Serves /\ OwnRecords /\ ~raced /\ ~raced' => Serves'
    <2> SUFFICES ASSUME Serves, OwnRecords, ~raced, ~raced' PROVE Serves'
      OBVIOUS
    <2>1. rooms = local[t] /\ local[t].revision \in Nat /\ registry.revision \in Nat
      BY <1>1 DEF Serves, TypeOK, RoomState
    <2>2. rooms.revision <= registry'.revision /\ Known(rooms)
      BY <1>1, <2>1 DEF Apply, OwnRecords, Known
    <2> QED
      BY <1>1, <1>8, <2>2 DEF Serves, Working
  <1>10. Serves /\ Counted /\ OwnRecords /\ ~raced => Counted'
    <2> SUFFICES ASSUME Serves, Counted, OwnRecords, ~raced PROVE Counted'
      OBVIOUS
    <2>1. rooms = local[t] /\ local[t].revision \in Nat
      BY <1>1 DEF Serves, TypeOK, RoomState
    <2>2. local[t] = past.newest
      BY <1>1, <2>1 DEF OwnRecords, Known, Counted
    <2>3. \A r \in Pending' :
             r.owner = Me => r.revision <= past'.newest.revision \/ r = Assigned
      BY <1>1, <1>6, <2>1, <2>2 DEF Counted
    <2>4. \A u \in Callers : pc'[u] = "store" <=> pc[u] = "store"
      BY <1>1 DEF Thread
    <2> QED
      BY <1>1, <2>3, <2>4 DEF Counted
  <1> QED
    BY <1>1, <1>3, <1>4, <1>7, <1>9, <1>10 DEF Sound

\* A record that is broadcast can be heard of again.
LEMMA DeliverPending ==
    ASSUME TypeOK, NEW l \in Receivers, NEW room, Deliver(l, room),
           NEW S, Pending \subseteq S, room \in S
    PROVE  \A m \in Receivers : \A i \in DOMAIN inbox'[m] : inbox'[m][i] \in S
  <1>1. CASE inbox' = inbox
    BY <1>1, WaitingPending
  <1>2. CASE inbox' = [inbox EXCEPT ![l] = Append(@, room)]
    <2>1. inbox'[l] = Append(inbox[l], room)
          /\ \A m \in Receivers : m # l => inbox'[m] = inbox[m]
      BY <1>2 DEF TypeOK
    <2>2. \A i \in DOMAIN inbox'[l] :
             inbox'[l][i] = room \/ (i \in DOMAIN inbox[l] /\ inbox'[l][i] = inbox[l][i])
      <3>1. inbox[l] \in Seq(RoomState)
        BY DEF TypeOK
      <3> QED
        BY <2>1, <3>1
    <2> QED
      BY <2>1, <2>2, WaitingPending
  <1> QED
    BY <1>1, <1>2 DEF Deliver

\* publish_room and snapshot_publish_loop.
LEMMA SendSound ==
    ASSUME TypeOK, Sound, raced' = (raced \/ Race'), NEW t \in Thread,
           (Send(t) /\ t \in Workers) \/ (PublishSnapshot /\ t = "publish")
    PROVE  Sound'
  <1>1. PICK l \in Receivers : Deliver(l, local[t])
    BY DEF Send, PublishSnapshot, Receivers
  <1>2. /\ pc[t] = "send" /\ Goto(t, "idle") /\ pc'[t] = "idle"
        /\ \A u \in Thread : u # t => pc'[u] = pc[u] /\ local'[u] = local[u]
        /\ UNCHANGED <<phase, registry, rooms, past>>
    BY DEF Send, PublishSnapshot, Finish, Goto, Keep, tables, TypeOK
  <1>3. Pending' \subseteq Pending
    <2>1. local[t] \in Pending /\ ~Taken(t)'
      BY <1>2, WaitingPending DEF Taken
    <2>2. \A m \in Receivers : \A i \in DOMAIN inbox'[m] : inbox'[m][i] \in Pending
      BY <1>1, <2>1, DeliverPending
    <2> QED
      BY <1>2, <2>1, <2>2, PendingGrows, WaitingPending
  <1> QED
    BY <1>2, <1>3, AsideSound DEF Working, Labels

\* apply_remote_room and apply_remote_snapshot: the registry has the record of a
\* message; if it gives the room to this node, it is stored next.
LEMMA ReceiveSound ==
    ASSUME TypeOK, Sound, raced' = (raced \/ Race'), NEW l \in Receivers, Receive(l)
    PROVE  Sound'
  <1> DEFINE room == Head(inbox[l])
  <1>0. l \in Thread /\ l \in Workers /\ inbox[l] \in Seq(RoomState) /\ inbox[l] # <<>>
    BY DEF Thread, Loops, Workers, TypeOK, Receive
  <1>1. /\ pc[l] = "idle" /\ registry' = Apply(registry, room)
        /\ UNCHANGED <<phase, rooms, past>>
        /\ \A u \in Thread : u # l => pc'[u] = pc[u] /\ local'[u] = local[u]
    BY <1>0 DEF Receive, Goto, Keep, TypeOK
  <1>2. /\ room \in RoomState /\ room \in Pending
        /\ \A m \in Receivers : \A i \in DOMAIN inbox'[m] : inbox'[m][i] \in Pending
    <2>1. room = inbox[l][1] /\ 1 \in DOMAIN inbox[l] /\ room \in RoomState
      BY <1>0
    <2>2. \A m \in Receivers : inbox'[m] = IF m = l THEN Tail(inbox[l]) ELSE inbox[m]
      BY DEF Receive, TypeOK
    <2>3. \A i \in DOMAIN Tail(inbox[l]) :
             i + 1 \in DOMAIN inbox[l] /\ Tail(inbox[l])[i] = inbox[l][i + 1]
      BY <1>0
    <2> QED
      BY <2>1, <2>2, <2>3, WaitingPending
  <1>3. registry' \in {registry, room}
    BY <1>1 DEF Apply
  <1>4. Pending' \subseteq Pending
    <2>1. Taken(l)' => local'[l] = room
      BY <1>0, <1>1 DEF Taken, Receive, Goto, Keep, TypeOK
    <2> QED
      BY <1>0, <1>1, <1>2, <1>3, <2>1, PendingGrows, WaitingPending
  <1>5. /\ registry.revision \in Nat /\ room.revision \in Nat /\ rooms.revision \in Nat
        /\ registry'.revision >= registry.revision /\ registry'.revision >= room.revision
    BY <1>1, <1>2 DEF Apply, TypeOK, RoomState
  <1>6. \A u \in Callers : u \in Thread /\ u # l
    BY ThreadAssumption DEF Thread, Loops
  <1>7. Counted => Counted'
    BY <1>1, <1>4, <1>6 DEF Counted
  <1>8. CASE room.owner # Me
    <2>1. pc' = pc /\ local' = local /\ phase' = phase
      BY <1>8 DEF Receive
    <2>2. Stations'
      BY <2>1 DEF Sound, Stations
    <2>3. OneAtATime'
      BY <2>2, AloneKept
    <2>4. OwnRecords'
      BY <1>1, <1>4, <2>1 DEF Sound, OwnRecords
    <2>5. Serves => Serves'
      <3> SUFFICES ASSUME Serves PROVE Serves'
        OBVIOUS
      <3>1. registry'.owner = Me => registry' = registry
        BY <1>3, <1>8
      <3>2. registry'.revision \in Nat
        BY <1>2, <1>3, <1>5
      <3>3. (\A t \in Thread : pc'[t] # "register") => rooms'.revision <= registry'.revision
        <4>1. (\A t \in Thread : pc[t] # "register") => rooms.revision <= registry.revision
          BY DEF Serves
        <4> QED
          BY <1>1, <1>5, <2>1, <3>2, <4>1
      <3>4. registry'.owner = Me => Known(rooms') \/ \E t \in Thread : Clears(t)'
        <4>1. \A t \in Thread : Clears(t)' <=> Clears(t)
          BY <2>1 DEF Clears
        <4> QED
          BY <1>1, <3>1, <4>1 DEF Serves
      <3>5. \A t \in Receivers : pc'[t] = "store" =>
               local'[t].revision <= registry'.revision
        <4>1. \A t \in Receivers : t \in Thread /\ local[t].revision \in Nat
          BY DEF TypeOK, RoomState, Thread, Loops
        <4>2. \A t \in Receivers : pc[t] = "store" => local[t].revision <= registry.revision
          BY <4>1 DEF Serves
        <4> QED
          BY <1>5, <2>1, <3>2, <4>1, <4>2
      <3> QED
        BY <1>1, <2>1, <3>1, <3>3, <3>4, <3>5 DEF Serves
    <2> QED
      BY <1>1, <1>7, <2>2, <2>3, <2>4, <2>5 DEF Sound
  <1>9. CASE room.owner = Me
    <2>1. pc'[l] = "store" /\ Goto(l, "store") /\ local'[l] = room
      BY <1>0, <1>9 DEF Receive, Goto, Keep, TypeOK
    <2>2. Stations'
      BY <1>0, <1>1, <2>1, StationsKept DEF Sound, Labels
    <2>3. OneAtATime'
      BY <2>2, AloneKept
    <2>4. OwnRecords'
      BY <1>1, <1>2, <1>4, <1>9, <2>1 DEF Sound, OwnRecords
    <2>5. ASSUME ~raced', ~raced PROVE \A u \in Thread : u # l => pc[u] \notin Working
      BY <1>0, <2>1, <2>3, <2>5, OthersRest DEF Sound, Working, Labels
    <2>6. Serves /\ ~raced /\ ~raced' => Serves'
      <3> SUFFICES ASSUME Serves, ~raced, ~raced' PROVE Serves'
        OBVIOUS
      <3>1. rooms'.revision <= registry'.revision
        <4>1. rooms.revision <= registry.revision
          BY <1>0, <1>1, <2>5 DEF Serves, Working
        <4>2. registry'.revision \in Nat
          BY <1>2, <1>3, <1>5
        <4> QED
          BY <1>1, <1>5, <4>1, <4>2
      <3>2. Clears(l)'
        BY <2>1 DEF Clears
      <3>3. \A t \in Thread : pc'[t] \in Working => t = l
        BY <1>1, <2>5
      <3> QED
        BY <1>0, <1>5, <1>6, <2>1, <3>1, <3>2, <3>3 DEF Serves, Working
    <2> QED
      BY <1>1, <1>7, <2>2, <2>3, <2>4, <2>6 DEF Sound
  <1> QED
    BY <1>8, <1>9

\* What other nodes say of the room: it is theirs, it is closed, or it is given to
\* this node for the first time.
LEMMA ForeignSound ==
    ASSUME TypeOK, Sound, raced' = (raced \/ Race'), NEW l \in Receivers, Foreign(l)
    PROVE  Sound'
  <1>1. UNCHANGED <<phase, pc, local, registry, rooms, past>>
    BY DEF Foreign, tables
  <1>2. PICK room : /\ room.owner = Me => room = Assigned
                    /\ inbox' = [inbox EXCEPT ![l] = Append(@, room)]
    <2>1. PICK room \in {WithOwner(NewRoom(0), Me), NewRoom(0)}
                     \cup {WithOwner([NewRoom(0) EXCEPT !.revision = k], Other) :
                              k \in 1 .. MaxRev - 1}
                     \cup {[NoRoom EXCEPT !.revision = k] : k \in 2 .. MaxRev} :
             inbox' = [inbox EXCEPT ![l] = Append(@, room)]
      BY DEF Foreign
    <2>2. \A r : WithOwner(r, Other).owner # Me
      BY NodeAssumption DEF WithOwner
    <2>3. NewRoom(0).owner # Me /\ \A k \in Nat : [NoRoom EXCEPT !.revision = k].owner # Me
      BY NodeAssumption DEF NewRoom, NoRoom
    <2>4. \A k \in 2 .. MaxRev : k \in Nat
      BY BoundsAssumption
    <2>5. room.owner = Me => room = Assigned
      BY <2>1, <2>2, <2>3, <2>4 DEF Assigned
    <2> QED
      BY <2>1, <2>5
  <1>3. Pending' \subseteq Pending \cup {room}
    <2> DEFINE S == Pending \cup {room}
    <2>1. Pending \subseteq S /\ room \in S /\ registry' \in S
      BY <1>1, WaitingPending
    <2>2. Append(inbox[l], room)  = inbox'[l]
          /\ \A m \in Receivers : m # l => inbox'[m] = inbox[m]
      BY <1>2 DEF TypeOK
    <2>3. \A i \in DOMAIN inbox'[l] :
             inbox'[l][i] = room \/ (i \in DOMAIN inbox[l] /\ inbox'[l][i] = inbox[l][i])
      <3>1. inbox[l] \in Seq(RoomState)
        BY DEF TypeOK
      <3> QED
        BY <2>2, <3>1
    <2>4. \A m \in Receivers : \A i \in DOMAIN inbox'[m] : inbox'[m][i] \in S
      BY <2>1, <2>2, <2>3, WaitingPending
    <2>5. l \in Thread /\ (Taken(l)' => local'[l] \in S)
      BY <1>1, <2>1, WaitingPending DEF Taken, Thread, Loops
    <2> HIDE DEF S
    <2>6. Pending' \subseteq S
      BY <1>1, <2>1, <2>4, <2>5, PendingGrows
    <2> QED
      BY <2>6 DEF S
  <1>4. Assigned.revision >= 2
    BY DEF Assigned, WithOwner, NewRoom
  <1>5. Stations'
    BY <1>1 DEF Sound, Stations
  <1>6. OneAtATime'
    BY <1>5, AloneKept
  <1>7. OwnRecords'
    BY <1>1, <1>2, <1>3, <1>4 DEF Sound, OwnRecords
  <1>8. (Serves => Serves') /\ (Counted => Counted')
    BY <1>1, <1>2, <1>3 DEF Serves, Clears, Counted
  <1> QED
    BY <1>1, <1>5, <1>6, <1>7, <1>8 DEF Sound

\* A thread that begins to wait for nothing that can be heard of again.
LEMMA PendingSame ==
    ASSUME TypeOK, NEW t \in Thread, NEW label \in Labels, Goto(t, label),
           label # "send", t \in Receivers => label # "store",
           \A u \in Thread : u # t => local'[u] = local[u],
           UNCHANGED <<registry, inbox>>
    PROVE  Pending' \subseteq Pending
  <1>1. ~Taken(t)' /\ \A u \in Thread : u # t => pc'[u] = pc[u] /\ local'[u] = local[u]
    BY DEF Taken, Goto, TypeOK
  <1> QED
    BY <1>1, PendingGrows, WaitingPending

\* snapshot_publish_loop, what comes before handle_migration_request takes the
\* room, and the health endpoint.
LEMMA IdleSound ==
    ASSUME TypeOK, Sound, raced' = (raced \/ Race'),
           \/ Collect \/ RequestArrives \/ Weigh
           \/ \E t \in Probes : Probe(t) \/ Answer(t)
    PROVE  Sound'
  <1>1. CASE Collect
    <2>1. /\ "publish" \in Thread /\ pc["publish"] = "idle" /\ Goto("publish", "send")
          /\ local'["publish"] = registry
          /\ \A u \in Thread : u # "publish" => pc'[u] = pc[u] /\ local'[u] = local[u]
          /\ UNCHANGED <<phase, registry, rooms, inbox, past>>
      BY <1>1 DEF Collect, Goto, Keep, tables, TypeOK, Thread, Loops
    <2>2. Pending' \subseteq Pending
      BY <2>1, PendingGrows, WaitingPending
    <2> QED
      BY <2>1, <2>2, AsideSound DEF Working, Labels
  <1>2. ASSUME NEW t \in Thread, t \notin Receivers, NEW label \in Labels \ Working,
               Goto(t, label), label # "send",
               pc[t] \notin Working, pc[t] # "off",
               UNCHANGED <<phase, local, registry, rooms, inbox, past>>
        PROVE  Sound'
    <2>1. Pending' \subseteq Pending
      BY <1>2, PendingSame
    <2> QED
      BY <1>2, <2>1, AsideSound
  <1>3. CASE RequestArrives \/ Weigh
    <2>1. "migrate" \in Thread /\ "migrate" \notin Receivers
      BY DEF Thread, Loops, Receivers
    <2>2. \E label \in {"weigh", "claim", "idle"} : Goto("migrate", label)
      BY <1>3 DEF RequestArrives, Weigh
    <2>3. pc["migrate"] \in {"idle", "weigh"}
          /\ UNCHANGED <<phase, local, registry, rooms, inbox, past>>
      BY <1>3 DEF RequestArrives, Weigh, tables
    <2> QED
      BY <1>2, <2>1, <2>2, <2>3 DEF Working, Labels
  <1>4. ASSUME NEW t \in Probes, Probe(t) \/ Answer(t) PROVE Sound'
    <2>1. t \in Thread /\ t \notin Receivers
      BY ThreadAssumption DEF Thread, Loops
    <2>2. \E label \in {"ask", "count", "counting", "idle"} : Goto(t, label)
      BY <1>4 DEF Probe, Answer, ReadStatus, LockRegistry, CountRooms
    <2>3. pc[t] \in {"idle", "ask", "count", "counting"}
          /\ UNCHANGED <<phase, local, registry, rooms, inbox, past>>
      BY <1>4 DEF Probe, Answer, ReadStatus, LockRegistry, CountRooms, tables
    <2> QED
      BY <1>2, <2>1, <2>2, <2>3 DEF Working, Labels
  <1> QED
    BY <1>1, <1>3, <1>4

\* handle_migration_request takes the room over: the record to store next is this
\* node's, and not the first of the room.
LEMMA ClaimSound ==
    ASSUME TypeOK, Sound, raced' = (raced \/ Race'), NEW k \in Asked, Claim(k)
    PROVE  Sound'
  <1> DEFINE base == IF Known(registry) THEN registry ELSE NewRoom(k)
             t == "migrate"
  <1>1. /\ t \in Thread /\ t \in Workers /\ t \notin Receivers /\ t \notin Callers
        /\ pc[t] = "claim" /\ Goto(t, "store") /\ pc'[t] = "store"
        /\ local'[t] = WithOwner(base, Me)
        /\ \A u \in Thread : u # t => pc'[u] = pc[u] /\ local'[u] = local[u]
        /\ UNCHANGED <<phase, registry, rooms, inbox, past>>
    BY ThreadAssumption
       DEF Claim, Goto, Keep, tables, TypeOK, Thread, Workers, Loops, Receivers
  <1>2. local'[t].owner = Me /\ local'[t].revision >= 2
    <2>1. base.revision \in Nat /\ base.revision >= 1
      BY DEF Known, NewRoom, TypeOK, RoomState
    <2> QED
      BY <1>1, <2>1 DEF WithOwner
  <1>3. Stations'
    BY <1>1, StationsKept DEF Sound, Labels
  <1>4. OneAtATime'
    BY <1>3, AloneKept
  <1>5. Pending' \subseteq Pending
    BY <1>1, PendingSame DEF Labels
  <1>6. OwnRecords'
    BY <1>1, <1>2, <1>5 DEF Sound, OwnRecords
  <1>7. Serves => Serves'
    BY <1>1 DEF Serves, Clears
  <1>8. Counted => Counted'
    <2>1. \A u \in Callers : u \in Thread /\ u # t
      BY <1>1 DEF Thread
    <2> QED
      BY <1>1, <1>5, <2>1 DEF Counted
  <1> QED
    BY <1>1, <1>3, <1>4, <1>6, <1>7, <1>8 DEF Sound

\* The part of a health check that changes neither the registry nor the own table.
LEMMA CheckSound ==
    ASSUME TypeOK, Sound, raced' = (raced \/ Race'),
           \/ Reap \/ Bump \/ Bumped \/ ListRooms \/ ChooseTarget \/ Attempt \/ Replied
           \/ CountFailed \/ CountCompleted
    PROVE  Sound'
  <1> USE DEF Finish, Moves, Checked, At, outside, tables
  <1>0. "health" \in Thread /\ "health" \notin Receivers
    BY DEF Thread, Loops, Receivers
  <1>1. PICK label \in Labels \ (Working \cup {"send"}) : Goto("health", label)
    BY DEF Reap, Bump, Bumped, ListRooms, ChooseTarget, Attempt, Replied, CountFailed,
       CountCompleted, Labels, Working
  <1>2. pc["health"] \notin Working /\ pc["health"] # "off"
    BY DEF Reap, Bump, Bumped, ListRooms, ChooseTarget, Attempt, Replied, CountFailed,
       CountCompleted, Working
  <1>3. UNCHANGED <<phase, registry, rooms, inbox, past>>
    BY DEF Reap, Bump, Bumped, ListRooms, ChooseTarget, Attempt, Replied, CountFailed,
       CountCompleted
  <1>4. \A u \in Thread : u # "health" => local'[u] = local[u]
    <2>1. \E room : Keep("health", room)
      BY DEF Reap, Bump, Bumped, ListRooms, ChooseTarget, Attempt, Replied, CountFailed,
         CountCompleted
    <2> QED
      BY <2>1 DEF Keep, TypeOK
  <1>5. Pending' \subseteq Pending
    BY <1>0, <1>1, <1>3, <1>4, PendingSame
  <1> QED
    BY <1>0, <1>1, <1>2, <1>3, <1>4, <1>5, AsideSound

\* The part that hands the room over: first the new record is made up, one revision
\* above the registry's, then the own table loses the room, and then the registry
\* gets the record, if it has not had a newer one from elsewhere.
LEMMA HandOverSound ==
    ASSUME TypeOK, Sound, raced' = (raced \/ Race'),
           Revise \/ ForgetRoom \/ HandOver
    PROVE  Sound'
  <1> USE DEF Finish, Moves, Checked, At, outside, tables, Work
  <1> DEFINE t == "health"
  <1>0. t \in Thread /\ t \notin Receivers /\ t \notin Callers /\ t \notin Workers
    BY ThreadAssumption DEF Thread, Loops, Receivers, Workers
  <1>1. /\ \A u \in Thread : u # t => pc'[u] = pc[u] /\ local'[u] = local[u]
        /\ UNCHANGED <<phase, inbox, past>>
        /\ pc[t] \in {"revise", "forget", "handover"}
        /\ Goto(t, pc'[t]) /\ pc'[t] \in {"forget", "handover", "idle"}
        /\ pc[t] = "revise" => pc'[t] = "forget"
    BY <1>0 DEF Revise, ForgetRoom, HandOver, Goto, Keep, TypeOK
  <1>2. Stations'
    BY <1>0, <1>1, StationsKept DEF Sound, Labels
  <1>3. OneAtATime'
    BY <1>2, AloneKept
  <1>4. ASSUME ~raced', ~raced PROVE \A u \in Thread : u # t => pc[u] \notin Working
    BY <1>0, <1>1, <1>3, <1>4, OthersRest DEF Sound, Working, Labels
  <1>5. \A u \in Callers : u \in Thread /\ u # t
    BY <1>0 DEF Thread
  <1>6. CASE Revise
    <2>1. /\ pc[t] = "revise" /\ pc'[t] = "forget" /\ registry' = registry /\ rooms' = rooms
          /\ local'[t].owner = Other /\ local'[t].revision = registry.revision + 1
      BY <1>0, <1>6 DEF Revise, Goto, Keep, TypeOK
    <2>2. Pending' \subseteq Pending
      BY <1>0, <1>1, <2>1, PendingSame DEF Labels
    <2>3. OwnRecords'
      BY <1>1, <2>1, <2>2, NodeAssumption DEF Sound, OwnRecords
    <2>4. Serves => Serves'
      <3>1. registry.revision \in Nat /\ registry.revision < local'[t].revision
        BY <2>1 DEF TypeOK, RoomState
      <3>2. \A u \in Thread : Clears(u) => Clears(u)'
        BY <1>0, <1>1, <2>1 DEF Clears
      <3> QED
        BY <1>0, <1>1, <2>1, <3>1, <3>2 DEF Serves
    <2>5. Counted => Counted'
      BY <1>1, <1>5, <2>1, <2>2 DEF Counted
    <2> QED
      BY <1>1, <1>2, <1>3, <2>3, <2>4, <2>5 DEF Sound
  <1>7. CASE ForgetRoom
    <2>1. /\ pc[t] = "forget" /\ pc'[t] = "handover" /\ registry' = registry
          /\ rooms' = NoRoom /\ local'[t] = local[t]
      BY <1>0, <1>7 DEF ForgetRoom, Goto, Keep, TypeOK
    <2>2. Pending' \subseteq Pending
      BY <1>0, <1>1, <2>1, PendingSame DEF Labels
    <2>3. ~Known(NoRoom) /\ NoRoom.revision = 0 /\ registry.revision >= 0
      BY DEF Known, NoRoom, TypeOK, RoomState
    <2>4. OwnRecords'
      BY <1>1, <2>1, <2>2, <2>3 DEF Sound, OwnRecords
    <2>5. Serves /\ ~raced /\ ~raced' => Serves'
      BY <1>0, <1>1, <1>4, <2>1, <2>3 DEF Serves, Clears, Working
    <2>6. Counted => Counted'
      BY <1>1, <1>5, <2>1, <2>2, <2>3 DEF Counted
    <2> QED
      BY <1>1, <1>2, <1>3, <2>4, <2>5, <2>6 DEF Sound
  <1>8. CASE HandOver
    <2>1. /\ pc[t] = "handover" /\ pc'[t] = "idle" /\ rooms' = rooms
          /\ registry' = Apply(registry, local[t])
      BY <1>0, <1>8 DEF HandOver, Goto, Keep, TypeOK
    <2>2. registry' \in {registry, local[t]} /\ local[t].owner # Me
      BY <1>0, <2>1 DEF Apply, Sound, OwnRecords
    <2>3. Pending' \subseteq Pending \cup {local[t]}
      <3> DEFINE S == Pending \cup {local[t]}
      <3>1. Pending \subseteq S /\ registry' \in S /\ ~Taken(t)'
        BY <1>0, <2>1, <2>2, WaitingPending DEF Taken
      <3>2. \A l \in Receivers : \A i \in DOMAIN inbox'[l] : inbox'[l][i] \in S
        BY <1>1, WaitingPending
      <3> HIDE DEF S
      <3>3. Pending' \subseteq S
        BY <1>0, <1>1, <3>1, <3>2, PendingGrows
      <3> QED
        BY <3>3 DEF S
    <2>4. OwnRecords'
      BY <1>1, <2>1, <2>2, <2>3 DEF Sound, OwnRecords
    <2>5. Serves /\ ~raced /\ ~raced' => Serves'
      <3> SUFFICES ASSUME Serves, ~raced, ~raced' PROVE Serves'
        OBVIOUS
      <3>1. rooms = NoRoom /\ NoRoom.revision = 0
        BY <1>0, <2>1 DEF Serves, NoRoom
      <3>2. registry'.revision \in Nat
        BY <1>0, <2>2 DEF TypeOK, RoomState
      <3>3. registry'.owner # Me
        <4>1. registry.revision \in Nat /\ local[t].revision \in Nat
          BY <1>0 DEF TypeOK, RoomState
        <4>2. registry.owner = Me => registry.revision < local[t].revision
          BY <1>0, <2>1 DEF Serves
        <4> QED
          BY <2>1, <2>2, <4>1, <4>2 DEF Apply
      <3>4. \A u \in Thread : pc'[u] \notin Working
        BY <1>1, <1>4, <2>1 DEF Working
      <3> QED
        BY <2>1, <3>1, <3>2, <3>3, <3>4 DEF Serves, Working
    <2>6. Counted => Counted'
      BY <1>1, <1>5, <2>1, <2>2, <2>3 DEF Counted
    <2> QED
      BY <1>1, <1>2, <1>3, <2>4, <2>5, <2>6 DEF Sound
  <1> QED
    BY <1>6, <1>7, <1>8

\* initialize, whichever way it ends, and run_cluster that starts the endpoint.
LEMMA StartSound ==
    ASSUME TypeOK, Sound, raced' = (raced \/ Race'), Connect \/ ConnectFails \/ Bind
    PROVE  Sound'
  <1>1. UNCHANGED <<local, registry, rooms, inbox, past>>
    BY DEF Connect, ConnectFails, Bind, tables
  <1>2. \A t \in Thread :
           pc'[t] = pc[t] \/ (pc[t] = "off" /\ pc'[t] \in {"idle", "ended"})
    <2>1. CASE Connect
      BY <2>1 DEF Connect, Sound, Stations
    <2>2. CASE ConnectFails \/ Bind
      BY <2>2 DEF ConnectFails, Bind
    <2> QED
      BY <2>1, <2>2
  <1>3. phase' = phase \/ phase' # "starting"
    BY DEF Connect, ConnectFails, Bind
  <1>4. phase' = "starting" => pc' = pc
    BY DEF Connect, ConnectFails, Bind
  <1>5. Stations'
    BY <1>2, <1>3, <1>4 DEF Sound, Stations
  <1>6. OneAtATime'
    BY <1>5, AloneKept
  <1>7. \A t \in Thread : Taken(t)' <=> Taken(t)
    BY <1>2 DEF Taken
  <1>8. Pending' \subseteq Pending
    BY <1>1, <1>7 DEF Pending, Waiting
  <1>9. OwnRecords'
    BY <1>1, <1>2, <1>8 DEF Sound, OwnRecords
  <1>10. Serves => Serves'
    BY <1>1, <1>2 DEF Serves, Clears
  <1>11. Counted => Counted'
    BY <1>1, <1>2, <1>8 DEF Counted, Thread
  <1> QED
    BY <1>1, <1>5, <1>6, <1>9, <1>10, <1>11 DEF Sound

\* Every step leaves a sound state.
LEMMA SoundStep == TypeOK /\ Sound /\ [Next]_vars => Sound'
  <1> SUFFICES ASSUME TypeOK, Sound, [Next]_vars PROVE Sound'
    OBVIOUS
  <1>1. CASE UNCHANGED vars
    BY <1>1
       DEF vars, Sound, Stations, OneAtATime, OwnRecords, Serves, Counted, Clears,
           Pending, Waiting, Taken
  <1>2. CASE Next
    <2>1. raced' = (raced \/ Race')
      BY <1>2 DEF Next, Recorded
    <2>2. ASSUME NEW t \in Callers, CallerStep(t) PROVE Sound'
      BY <2>1, <2>2, ReadSound, CloseSound, UnregisterSound DEF CallerStep
    <2>3. ASSUME NEW t \in Workers, RoomStep(t) PROVE Sound'
      <3>1. t \in Thread
        BY DEF Workers, Thread, Loops
      <3> QED
        BY <2>1, <2>3, <3>1, StoreSound, RegisterSound, SendSound DEF RoomStep
    <2>4. ASSUME NEW l \in Receivers, Receive(l) \/ Foreign(l) PROVE Sound'
      BY <2>1, <2>4, ReceiveSound, ForeignSound
    <2>5. CASE Collect \/ PublishSnapshot \/ MigrateStep
      <3>1. "publish" \in Thread
        BY DEF Thread, Loops
      <3> QED
        BY <2>1, <2>5, <3>1, IdleSound, SendSound, ClaimSound DEF MigrateStep
    <2>6. CASE HealthCheck
      BY <2>1, <2>6, CheckSound, HandOverSound DEF HealthCheck
    <2>7. CASE \E t \in Probes : Probe(t) \/ Answer(t)
      BY <2>1, <2>7, IdleSound
    <2>8. CASE Connect \/ ConnectFails \/ Bind
      BY <2>1, <2>8, StartSound
    <2> QED
      BY <1>2, <2>2, <2>3, <2>4, <2>5, <2>6, <2>7, <2>8 DEF Next, Recorded, Step
  <1> QED
    BY <1>1, <1>2

\* The registry, the own table and the observer's count fit each other, and the
\* operation under way, in every reachable state.
THEOREM AlwaysSound == Spec => []Sound
  BY InitSound, SoundStep, TypeCorrect, PTL DEF Spec

\* The operations of cluster.rs on a room, one after the other, leave a node with
\* the room that its registry gives it, and the registry no older than its table:
\* for any number of callers, and messages in any order.
THEOREM RoomsServed == Spec => []ServesWhatItOwns
  <1>1. TypeOK /\ Sound => ServesWhatItOwns
    <2> SUFFICES ASSUME TypeOK, Sound, Quiet, ~raced
                 PROVE  /\ registry.owner = Me => Known(rooms)
                        /\ rooms.revision <= registry.revision
      BY DEF ServesWhatItOwns
    <2>1. \A t \in Thread : pc[t] \notin Working
      BY BusyWhere DEF Sound, Quiet
    <2>2. \A t \in Thread : ~Clears(t)
      BY <2>1 DEF Clears, Working
    <2> QED
      BY <2>1, <2>2 DEF Sound, Serves, Working
  <1> QED
    BY <1>1, AlwaysSound, TypeCorrect, PTL

\* add_listener and remove_listener, one after the other, count every join and every
\* leave once, whatever comes back of the node's own broadcasts and snapshots.
THEOREM JoinsCounted == Spec => []CountsJoins
  <1>1. Sound => CountsJoins
    <2> SUFFICES ASSUME Sound, Quiet, ~raced, ~past.stale, Known(rooms)
                 PROVE  rooms.listeners = past.listeners
      BY DEF CountsJoins
    <2>1. \A t \in Callers : t \in Thread /\ pc[t] # "store"
      BY BusyWhere DEF Sound, Quiet, Working, Thread
    <2>2. Counted /\ rooms.owner = Me
      BY DEF Sound, OwnRecords
    <2> QED
      BY <2>1, <2>2 DEF Counted
  <1> QED
    BY <1>1, AlwaysSound, PTL
==============================================================================
