---------------------------- MODULE Presence_proofs ----------------------------
(***************************************************************************)
(* Proofs about who is known to be present: the nodes of a cluster         *)
(* (Membership), and the peers of a room (Signaling).                      *)
(*                                                                         *)
(* Membership: how fast a crash is found, and that the views of who is     *)
(* Live change only as HealthViews says, for any nodes, periods, windows,  *)
(* clock offsets, delays and lags.  Signaling: what the server keeps, for  *)
(* any clients, rooms and networks.                                        *)
(***************************************************************************)
EXTENDS Membership, Signaling, TLAPS

------------------------------------------------------------------------------
(* Nodes of a cluster: type correctness. *)

\* The derived parameters are natural numbers.
LEMMA ParameterTypes ==
    /\ Period \in Nat /\ Window \in Nat
    /\ \A n \in Node : Offset[n] \in Nat /\ Offset[n] > 0
    /\ \A n, m \in Node : /\ Echo(n, m) \in Nat
                          /\ Echo(n, m) >= MaxDelay
                          /\ Echo(n, m) >= Offset[m] - Offset[n]
  <1>1. Period \in Nat /\ Window \in Nat
    BY ParameterAssumption DEF Period, Window, AtLeast
  <1>2. \A n \in Node : Offset[n] \in Nat /\ Offset[n] > 0
    BY ParameterAssumption
  <1>3. ASSUME NEW n \in Node, NEW m \in Node
        PROVE  /\ Echo(n, m) \in Nat
               /\ Echo(n, m) >= MaxDelay
               /\ Echo(n, m) >= Offset[m] - Offset[n]
    BY <1>2, ParameterAssumption DEF Echo, AtLeast
  <1> QED
    BY <1>1, <1>2, <1>3

\* A starting node's registry, and the entry a heartbeat leaves, are typed.
LEMMA EntryTypes ==
    ASSUME now \in Nat
    PROVE  /\ NoEntry \in Entry
           /\ \A n \in Node : Registered(n) \in [Node -> Entry]
           /\ \A msg \in Heartbeat : Heard(msg, Clock(msg.to)) \in Entry
           /\ \A entry \in Entry, clock \in Nat : Reap(entry, clock) \in Entry
  <1>1. \A n \in Node : Clock(n) \in Nat
    BY ParameterTypes DEF Clock
  <1>2. NoEntry \in Entry
    BY DEF NoEntry, Entry
  <1>3. \A n \in Node : Registered(n) \in [Node -> Entry]
    BY <1>1, <1>2 DEF Registered, Entry
  <1>4. \A msg \in Heartbeat : Heard(msg, Clock(msg.to)) \in Entry
    BY <1>1 DEF Heard, Entry, AtLeast, Heartbeat
  <1>5. \A entry \in Entry, clock \in Nat : Reap(entry, clock) \in Entry
    BY DEF Reap, Entry
  <1> QED
    BY <1>2, <1>3, <1>4, <1>5

\* Every step keeps the types.
LEMMA StepType == TypeOK /\ [Next]_vars => TypeOK'
  <1> SUFFICES ASSUME TypeOK, [Next]_vars PROVE TypeOK'
    OBVIOUS
  <1> USE ParameterTypes DEF TypeOK
  <1>1. ASSUME NEW n \in Node, SendHeartbeat(n) PROVE TypeOK'
    <2>1. PICK kept \in SUBSET up :
             net' = net \cup {[to |-> m, from |-> n, ts |-> Clock(n)] : m \in kept}
      BY <1>1 DEF SendHeartbeat
    <2>2. net' \subseteq Heartbeat
      BY <2>1 DEF Heartbeat, Clock
    <2>3. beatDue' \in [Node -> Nat]
      BY <1>1 DEF SendHeartbeat
    <2> QED
      BY <1>1, <2>2, <2>3 DEF SendHeartbeat
  <1>2. ASSUME NEW msg \in net, ReceiveHeartbeat(msg) PROVE TypeOK'
    <2>1. msg.to \in Node /\ msg.from \in Node /\ msg \in Heartbeat
      BY DEF Heartbeat
    <2>2. Heard(msg, Clock(msg.to)) \in Entry
      BY <2>1, EntryTypes
    <2>3. nodes' \in [Node -> [Node -> Entry]]
      BY <1>2, <2>1, <2>2 DEF ReceiveHeartbeat
    <2> QED
      BY <1>2, <2>3 DEF ReceiveHeartbeat
  <1>3. ASSUME NEW n \in Node, HealthCheck(n) PROVE TypeOK'
    <2>1. \A m \in Node : Reap(nodes[n][m], Clock(n)) \in Entry
      <3>1. Clock(n) \in Nat
        BY DEF Clock
      <3>2. \A m \in Node : nodes[n][m] \in Entry
        OBVIOUS
      <3> QED
        BY <3>1, <3>2, EntryTypes
    <2>2. nodes' \in [Node -> [Node -> Entry]]
      BY <1>3, <2>1 DEF HealthCheck
    <2>3. checkDue' \in [Node -> Nat]
      BY <1>3 DEF HealthCheck
    <2> QED
      BY <1>3, <2>2, <2>3 DEF HealthCheck
  <1>4. ASSUME NEW n \in Node, Crash(n) PROVE TypeOK'
    <2>1. nodes' \in [Node -> [Node -> Entry]]
      BY <1>4, EntryTypes DEF Crash
    <2> QED
      BY <1>4, <2>1 DEF Crash
  <1>5. ASSUME NEW n \in Node, Restart(n) PROVE TypeOK'
    <2>1. nodes' \in [Node -> [Node -> Entry]]
      BY <1>5, EntryTypes DEF Restart
    <2> QED
      BY <1>5, <2>1 DEF Restart
  <1>6. ASSUME Tick PROVE TypeOK'
    BY <1>6 DEF Tick
  <1>7. CASE UNCHANGED vars
    BY <1>7 DEF vars
  <1> QED
    BY <1>1, <1>2, <1>3, <1>4, <1>5, <1>6, <1>7 DEF Next

\* The initial state is type correct.
LEMMA InitType == Init => TypeOK
  BY EntryTypes DEF Init, TypeOK

\* The registries, timers and messages keep their types: no time goes negative.
THEOREM TypeCorrect == Spec => []TypeOK
  BY InitType, StepType, PTL DEF Spec

------------------------------------------------------------------------------
(* The inductive invariant behind DetectedInTime. *)

Later(x, y) == AtLeast(x - y, 0)

\* No timer of a running node is forgotten, and none is set too far ahead.
TimersInv ==
    /\ \A n \in up : now <= checkDue[n] + Lag
    /\ \A n \in Node : checkDue[n] <= now + Period

\* A message is no older than MaxDelay, and nobody sends after a crash.
MessagesInv ==
    \A msg \in net :
        /\ SentAt(msg) <= now /\ now <= SentAt(msg) + MaxDelay
        /\ msg.from \notin up => SentAt(msg) <= died[msg.from]

\* What n notes of m is no later than the two clocks allow; of a crashed m it
\* is no later than the echo, and the next check comes in time.
NotedInv ==
    \A n, m \in Node : nodes[n][m].status = "live" =>
        /\ nodes[n][m].seen <= now + Offset[n] + Later(Offset[m], Offset[n])
        /\ m \notin up =>
              /\ nodes[n][m].seen <= died[m] + Offset[n] + Echo(n, m)
              /\ checkDue[n] <= died[m] + Echo(n, m) + Window + Period

IInv == TypeOK /\ TimersInv /\ MessagesInv /\ NotedInv

\* The invariant bounds the time at which a crashed node is still Live.
LEMMA InTime == IInv => DetectedInTime
  <1> SUFFICES ASSUME IInv, NEW n \in up, NEW m \in Node \ up,
                      nodes[n][m].status = "live"
               PROVE  now <= died[m] + Echo(n, m) + Window + Period + Lag
    BY DEF DetectedInTime
  <1>1. n \in Node /\ now \in Nat /\ checkDue[n] \in Nat /\ died[m] \in Nat
    BY DEF IInv, TypeOK
  <1>2. now <= checkDue[n] + Lag
    BY DEF IInv, TimersInv
  <1>3. checkDue[n] <= died[m] + Echo(n, m) + Window + Period
    BY <1>1 DEF IInv, NotedInv
  <1> QED
    BY <1>1, <1>2, <1>3, ParameterTypes, ParameterAssumption

\* It holds at the start.
LEMMA InitInv == Init => IInv
  <1> SUFFICES ASSUME Init PROVE TimersInv /\ MessagesInv /\ NotedInv
    BY InitType DEF IInv
  <1> USE ParameterTypes, ParameterAssumption
  <1>1. TimersInv /\ MessagesInv
    BY DEF Init, TimersInv, MessagesInv
  <1>2. NotedInv
    <2> SUFFICES ASSUME NEW n \in Node, NEW m \in Node, nodes[n][m].status = "live"
                 PROVE  /\ nodes[n][m].seen <= now + Offset[n] + Later(Offset[m], Offset[n])
                        /\ m \in up
      BY DEF NotedInv
    <2>1. nodes[n][m] = Registered(n)[m]
      BY DEF Init
    <2>2. m = n /\ nodes[n][m].seen = Clock(n)
      BY <2>1 DEF Registered, NoEntry
    <2> QED
      BY <2>2 DEF Init, Clock, Later, AtLeast
  <1> QED
    BY <1>1, <1>2

\* Timers: a check is due at most Lag ago, since time waits for it, and at most
\* one period ahead.
LEMMA TimersStep == IInv /\ [Next]_vars => TimersInv'
  <1> SUFFICES ASSUME IInv, [Next]_vars PROVE TimersInv'
    OBVIOUS
  <1>1. /\ now \in Nat /\ checkDue \in [Node -> Nat] /\ up \subseteq Node
        /\ Period \in Nat /\ Lag \in Nat
    BY ParameterTypes, ParameterAssumption DEF IInv, TypeOK
  <1>2. /\ \A n \in up : now <= checkDue[n] + Lag
        /\ \A n \in Node : checkDue[n] <= now + Period
    BY DEF IInv, TimersInv
  <1> USE <1>1, <1>2 DEF TimersInv
  <1> HIDE DEF Period
  <1>3. ASSUME NEW n \in Node, SendHeartbeat(n) PROVE TimersInv'
    BY <1>3 DEF SendHeartbeat
  <1>4. ASSUME NEW msg \in net, ReceiveHeartbeat(msg) PROVE TimersInv'
    BY <1>4 DEF ReceiveHeartbeat
  <1>5. ASSUME NEW n \in Node, HealthCheck(n) PROVE TimersInv'
    BY <1>5 DEF HealthCheck
  <1>6. ASSUME NEW n \in Node, Crash(n) PROVE TimersInv'
    BY <1>6 DEF Crash
  <1>7. ASSUME NEW n \in Node, Restart(n) PROVE TimersInv'
    BY <1>7 DEF Restart
  <1>8. ASSUME Tick PROVE TimersInv'
    BY <1>8 DEF Tick
  <1>9. CASE UNCHANGED vars
    BY <1>9 DEF vars
  <1> QED
    BY <1>3, <1>4, <1>5, <1>6, <1>7, <1>8, <1>9 DEF Next

\* Messages: sent at a running node's present time, and gone before they age.
LEMMA MessagesStep == IInv /\ [Next]_vars => MessagesInv'
  <1> SUFFICES ASSUME IInv, [Next]_vars PROVE MessagesInv'
    OBVIOUS
  <1>1. /\ now \in Nat /\ died \in [Node -> Nat] /\ up \subseteq Node
        /\ MaxDelay \in Nat
        /\ \A n \in Node : Offset[n] \in Nat
        /\ \A msg \in net : msg.from \in Node /\ msg.ts \in Nat
    BY ParameterTypes, ParameterAssumption DEF IInv, TypeOK, Heartbeat
  <1>2. \A msg \in net :
          /\ SentAt(msg) <= now /\ now <= SentAt(msg) + MaxDelay
          /\ msg.from \notin up => SentAt(msg) <= died[msg.from]
    BY DEF IInv, MessagesInv
  <1> USE <1>1, <1>2 DEF MessagesInv, SentAt
  <1>3. ASSUME NEW n \in Node, SendHeartbeat(n) PROVE MessagesInv'
    <2>1. PICK kept \in SUBSET up :
             net' = net \cup {[to |-> m, from |-> n, ts |-> Clock(n)] : m \in kept}
      BY <1>3 DEF SendHeartbeat
    <2>2. UNCHANGED <<now, up, died>> /\ n \in up
      BY <1>3 DEF SendHeartbeat
    <2>3. ASSUME NEW msg \in net', msg \notin net
          PROVE  msg.from = n /\ msg.ts = now + Offset[n]
      BY <2>1, <2>3 DEF Clock
    <2> QED
      BY <2>2, <2>3
  <1>4. ASSUME NEW msg \in net, ReceiveHeartbeat(msg) PROVE MessagesInv'
    BY <1>4 DEF ReceiveHeartbeat
  <1>5. ASSUME NEW n \in Node, HealthCheck(n) PROVE MessagesInv'
    BY <1>5 DEF HealthCheck
  <1>6. ASSUME NEW n \in Node, Crash(n) PROVE MessagesInv'
    BY <1>6 DEF Crash
  <1>7. ASSUME NEW n \in Node, Restart(n) PROVE MessagesInv'
    BY <1>7 DEF Restart
  <1>8. ASSUME Tick PROVE MessagesInv'
    BY <1>8 DEF Tick
  <1>9. CASE UNCHANGED vars
    BY <1>9 DEF vars
  <1> QED
    BY <1>3, <1>4, <1>5, <1>6, <1>7, <1>8, <1>9 DEF Next

\* The part of NotedInv that is about n's entry of m.
Noted(n, m) ==
    nodes[n][m].status = "live" =>
        /\ nodes[n][m].seen <= now + Offset[n] + Later(Offset[m], Offset[n])
        /\ m \notin up =>
              /\ nodes[n][m].seen <= died[m] + Offset[n] + Echo(n, m)
              /\ checkDue[n] <= died[m] + Echo(n, m) + Window + Period

\* The facts about one pair of nodes that the steps of NotedStep calculate with.
LEMMA PairTypes ==
    ASSUME IInv, NEW n \in Node, NEW m \in Node
    PROVE  /\ now \in Nat /\ checkDue[n] \in Nat /\ died[m] \in Nat
           /\ nodes[n][m] \in Entry /\ nodes[n][m].seen \in Nat
           /\ Offset[n] \in Nat /\ Offset[n] > 0 /\ Offset[m] \in Nat
           /\ Period \in Nat /\ Window \in Nat /\ Lag \in Nat /\ MaxDelay \in Nat
           /\ Echo(n, m) \in Nat
           /\ Echo(n, m) >= MaxDelay /\ Echo(n, m) >= Offset[m] - Offset[n]
           /\ Later(Offset[m], Offset[n]) \in Nat
           /\ Later(Offset[m], Offset[n]) >= Offset[m] - Offset[n]
           /\ Echo(n, m) >= Later(Offset[m], Offset[n])
           /\ checkDue[n] <= now + Period
           /\ Noted(n, m)
  <1> USE ParameterTypes, ParameterAssumption
  <1>1. now \in Nat /\ checkDue[n] \in Nat /\ died[m] \in Nat /\ nodes[n][m] \in Entry
    BY DEF IInv, TypeOK
  <1>2. nodes[n][m].seen \in Nat
    BY <1>1 DEF Entry
  <1>3. /\ Offset[n] \in Nat /\ Offset[n] > 0 /\ Offset[m] \in Nat
        /\ Period \in Nat /\ Window \in Nat /\ Lag \in Nat /\ MaxDelay \in Nat
        /\ Echo(n, m) \in Nat
        /\ Echo(n, m) >= MaxDelay /\ Echo(n, m) >= Offset[m] - Offset[n]
    OBVIOUS
  <1>4. /\ Later(Offset[m], Offset[n]) \in Nat
        /\ Later(Offset[m], Offset[n]) >= Offset[m] - Offset[n]
        /\ Echo(n, m) >= Later(Offset[m], Offset[n])
    BY <1>3 DEF Later, AtLeast
  <1>5. checkDue[n] <= now + Period
    BY DEF IInv, TimersInv
  <1>6. Noted(n, m)
    BY DEF IInv, NotedInv, Noted
  <1> QED
    BY <1>1, <1>2, <1>3, <1>4, <1>5, <1>6

\* A step that leaves n's entry of m, n's timer, and whether and when m died,
\* keeps the bounds of the entry: time does not go back.
LEMMA NotedKept ==
    ASSUME IInv, NEW n \in Node, NEW m \in Node,
           nodes'[n][m] = nodes[n][m], checkDue'[n] = checkDue[n],
           m \notin up' => m \notin up /\ died'[m] = died[m],
           now' \in Nat, now <= now'
    PROVE  Noted(n, m)'
  <1>1. Noted(n, m)
    BY PairTypes
  <1> DEFINE later == Later(Offset[m], Offset[n])
             echo == Echo(n, m)
  <1>2. /\ now \in Nat /\ nodes[n][m].seen \in Nat /\ Offset[n] \in Nat
        /\ later \in Nat
    BY PairTypes
  <1>3. now + Offset[n] + later <= now' + Offset[n] + later
    <2> HIDE DEF later
    <2> QED
      BY <1>2
  <1>4. nodes[n][m].seen <= now + Offset[n] + later
            => nodes[n][m].seen <= now' + Offset[n] + later
    <2> HIDE DEF later
    <2> QED
      BY <1>2, <1>3
  <1>5. CASE nodes[n][m].status = "live"
    <2>1. nodes'[n][m].seen <= now' + Offset[n] + later
      BY <1>1, <1>4, <1>5 DEF Noted
    <2>2. m \notin up' =>
            /\ nodes'[n][m].seen <= died'[m] + Offset[n] + echo
            /\ checkDue'[n] <= died'[m] + echo + Window + Period
      BY <1>1, <1>5 DEF Noted
    <2> QED
      BY <2>1, <2>2 DEF Noted, Echo, Later, AtLeast, Window, Period
  <1>6. CASE nodes[n][m].status # "live"
    BY <1>6 DEF Noted
  <1> QED
    BY <1>5, <1>6

\* What is noted: a heartbeat of a crashed node is MaxDelay old at most, and a
\* health check that leaves a node Live has found it within the window.
LEMMA NotedStep == IInv /\ [Next]_vars => NotedInv'
  <1> SUFFICES ASSUME IInv, [Next]_vars, NEW n \in Node, NEW m \in Node
               PROVE  Noted(n, m)'
    BY DEF NotedInv, Noted
  <1>1. /\ now \in Nat /\ checkDue[n] \in Nat /\ died[m] \in Nat
        /\ nodes \in [Node -> [Node -> Entry]] /\ up \subseteq Node
        /\ checkDue \in [Node -> Nat] /\ died \in [Node -> Nat]
        /\ net \subseteq Heartbeat
    BY DEF IInv, TypeOK
  <1> DEFINE later == Later(Offset[m], Offset[n])
             echo == Echo(n, m)
  <1>2. ASSUME NEW k \in Node, SendHeartbeat(k) PROVE Noted(n, m)'
    BY <1>1, <1>2, NotedKept DEF SendHeartbeat
  <1>3. ASSUME NEW msg \in net, ReceiveHeartbeat(msg) PROVE Noted(n, m)'
    <2>1. msg.to \in Node /\ msg.from \in Node /\ msg.ts \in Nat
      BY <1>1 DEF Heartbeat
    <2>2. CASE n = msg.to /\ m = msg.from
      <3>1. nodes'[n][m] = Heard(msg, Clock(n))
        BY <1>1, <1>3, <2>1, <2>2 DEF ReceiveHeartbeat
      <3>2. UNCHANGED <<now, up, checkDue, died>>
        BY <1>3 DEF ReceiveHeartbeat
      <3>3. /\ msg.ts - Offset[m] <= now /\ now <= msg.ts - Offset[m] + MaxDelay
            /\ m \notin up => msg.ts - Offset[m] <= died[m]
        BY <2>2 DEF IInv, MessagesInv, SentAt
      <3>4. nodes'[n][m].seen = msg.ts \/ nodes'[n][m].seen = now + Offset[n]
        BY <3>1, PairTypes DEF Heard, AtLeast, Clock
      <3>5. nodes'[n][m].seen <= now + Offset[n] + later
        <4>1. later \in Nat /\ later >= Offset[m] - Offset[n]
          BY PairTypes
        <4> HIDE DEF later
        <4> QED
          BY <2>1, <3>3, <3>4, <4>1, PairTypes
      <3>6. ASSUME m \notin up
            PROVE  /\ nodes'[n][m].seen <= died[m] + Offset[n] + echo
                   /\ checkDue[n] <= died[m] + echo + Window + Period
        <4>1. /\ echo \in Nat /\ echo >= MaxDelay /\ echo >= Offset[m] - Offset[n]
              /\ Offset[n] \in Nat /\ Offset[m] \in Nat /\ MaxDelay \in Nat
              /\ checkDue[n] <= now + Period /\ Period \in Nat /\ Window \in Nat
          BY PairTypes
        <4> HIDE DEF echo
        <4> QED
          BY <1>1, <2>1, <3>3, <3>4, <3>6, <4>1
      <3> QED
        BY <3>2, <3>5, <3>6 DEF Noted, Later, Echo, AtLeast, Window, Period
    <2>3. CASE ~(n = msg.to /\ m = msg.from)
      <3>1. nodes'[n][m] = nodes[n][m]
        BY <1>1, <1>3, <2>1, <2>3 DEF ReceiveHeartbeat
      <3> QED
        BY <1>1, <1>3, <3>1, NotedKept DEF ReceiveHeartbeat
    <2> QED
      BY <2>2, <2>3
  <1>4. ASSUME NEW k \in Node, HealthCheck(k) PROVE Noted(n, m)'
    <2>1. CASE n = k
      <3>1. /\ nodes'[n][m] = Reap(nodes[n][m], now + Offset[n])
            /\ checkDue[n] <= now /\ checkDue'[n] = checkDue[n] + Period
            /\ UNCHANGED <<now, up, died>>
        BY <1>1, <1>4, <2>1 DEF HealthCheck, Clock
      <3>2. SUFFICES ASSUME nodes'[n][m].status = "live"
                     PROVE  Noted(n, m)'
        BY DEF Noted
      <3>3. nodes'[n][m] = nodes[n][m] /\ ~Overdue(nodes[n][m], now + Offset[n])
        BY <1>1, <3>1, <3>2 DEF Reap, Overdue, Entry
      <3>4. nodes[n][m].status = "live" /\ now + Offset[n] <= nodes[n][m].seen + Window
        <4>1. ~(nodes[n][m].seen + Window < now + Offset[n])
          BY <3>2, <3>3 DEF Overdue
        <4> QED
          BY <3>2, <3>3, <4>1, PairTypes
      <3>5. /\ nodes[n][m].seen <= now + Offset[n] + later
            /\ m \notin up => nodes[n][m].seen <= died[m] + Offset[n] + echo
        BY <3>4, PairTypes DEF Noted
      <3>6. ASSUME m \notin up
            PROVE  checkDue'[n] <= died[m] + echo + Window + Period
        <4>1. /\ echo \in Nat /\ Offset[n] \in Nat /\ nodes[n][m].seen \in Nat
              /\ Period \in Nat /\ Window \in Nat
          BY PairTypes
        <4>2. now <= died[m] + echo + Window
          <5> HIDE DEF echo
          <5> QED
            BY <1>1, <3>4, <3>5, <3>6, <4>1
        <4> HIDE DEF echo
        <4> QED
          BY <1>1, <3>1, <4>1, <4>2
      <3> QED
        BY <3>1, <3>3, <3>5, <3>6 DEF Noted, Later, Echo, AtLeast, Window, Period
    <2>2. CASE n # k
      BY <1>1, <1>4, <2>2, NotedKept DEF HealthCheck
    <2> QED
      BY <2>1, <2>2
  <1>5. ASSUME NEW k \in Node, Crash(k) PROVE Noted(n, m)'
    <2>1. CASE n = k
      <3>1. nodes'[n][m] = NoEntry
        BY <1>1, <1>5, <2>1 DEF Crash
      <3> QED
        BY <3>1 DEF Noted, NoEntry
    <2>2. CASE n # k /\ m = k
      <3>1. /\ nodes'[n][m] = nodes[n][m] /\ died'[m] = now
            /\ UNCHANGED <<now, checkDue>>
        BY <1>1, <1>5, <2>2 DEF Crash
      <3>2. SUFFICES ASSUME nodes[n][m].status = "live"
                     PROVE  Noted(n, m)'
        BY <3>1 DEF Noted
      <3>3. nodes[n][m].seen <= now + Offset[n] + later
        BY <3>2, PairTypes DEF Noted
      <3>4. nodes[n][m].seen <= now + Offset[n] + echo
        <4>1. /\ echo \in Nat /\ later \in Nat /\ echo >= later
              /\ Offset[n] \in Nat /\ nodes[n][m].seen \in Nat
          BY PairTypes
        <4> HIDE DEF echo, later
        <4> QED
          BY <1>1, <3>3, <4>1
      <3>5. checkDue[n] <= now + echo + Window + Period
        <4>1. /\ echo \in Nat /\ checkDue[n] <= now + Period
              /\ Period \in Nat /\ Window \in Nat
          BY PairTypes
        <4> HIDE DEF echo
        <4> QED
          BY <1>1, <4>1
      <3> QED
        BY <3>1, <3>3, <3>4, <3>5 DEF Noted, Later, Echo, AtLeast, Window, Period
    <2>3. CASE n # k /\ m # k
      BY <1>1, <1>5, <2>3, NotedKept DEF Crash
    <2> QED
      BY <2>1, <2>2, <2>3
  <1>6. ASSUME NEW k \in Node, Restart(k) PROVE Noted(n, m)'
    <2>1. CASE n = k
      <3>1. /\ nodes'[n][m] = Registered(n)[m] /\ n \in up' /\ now' = now
        BY <1>1, <1>6, <2>1 DEF Restart
      <3>2. CASE m = n
        <4>1. nodes'[n][m].seen = now' + Offset[n]
          BY <3>1, <3>2 DEF Registered, Clock
        <4>2. nodes'[n][m].seen <= now' + Offset[n] + later
          <5>1. later \in Nat /\ Offset[n] \in Nat
            BY PairTypes
          <5> HIDE DEF later
          <5> QED
            BY <1>1, <3>1, <4>1, <5>1
        <4> QED
          BY <3>1, <3>2, <4>2 DEF Noted, Later, AtLeast
      <3>3. CASE m # n
        BY <3>1, <3>3 DEF Registered, NoEntry, Noted
      <3> QED
        BY <3>2, <3>3
    <2>2. CASE n # k
      <3>1. /\ nodes'[n][m] = nodes[n][m] /\ checkDue'[n] = checkDue[n] /\ now' = now
            /\ m \notin up' => m \notin up /\ died'[m] = died[m]
        BY <1>1, <1>6, <2>2 DEF Restart
      <3> QED
        BY <1>1, <3>1, NotedKept
    <2> QED
      BY <2>1, <2>2
  <1>7. ASSUME Tick PROVE Noted(n, m)'
    BY <1>1, <1>7, NotedKept DEF Tick
  <1>8. CASE UNCHANGED vars
    BY <1>1, <1>8, NotedKept DEF vars
  <1> QED
    BY <1>2, <1>3, <1>4, <1>5, <1>6, <1>7, <1>8 DEF Next

\* IInv is an invariant.
THEOREM Inductive == Spec => []IInv
  <1>1. IInv /\ [Next]_vars => IInv'
    BY StepType, TimersStep, MessagesStep, NotedStep DEF IInv
  <1> QED
    BY <1>1, InitInv, PTL DEF Spec

\* A crashed node is found dead by every running one within the echo, a window,
\* a period and the lag of a timer.
THEOREM FoundInTime == Spec => []DetectedInTime
  BY Inductive, InTime, PTL

------------------------------------------------------------------------------
(* The views of who is Live are those of HealthViews. *)

\* Every initial state is one of HealthViews.
LEMMA InitViews == Init => Views!Init
  BY DEF Init, Views!Init, View, Registered

\* Every step is one of HealthViews, or changes no view.
LEMMA StepViews == TypeOK /\ [Next]_vars => [Views!Next]_(Views!vars)
  <1> SUFFICES ASSUME TypeOK, [Next]_vars PROVE [Views!Next]_(Views!vars)
    OBVIOUS
  <1> DEFINE live == [n \in Node |-> View(n)]
  <1>1. /\ nodes \in [Node -> [Node -> Entry]] /\ net \subseteq Heartbeat
        /\ now \in Nat /\ up \subseteq Node
    BY DEF TypeOK
  <1>2. nodes' \in [Node -> [Node -> Entry]]
    BY StepType DEF TypeOK
  <1>3. ASSUME NEW n \in Node, SendHeartbeat(n) PROVE UNCHANGED <<up, nodes>>
    BY <1>3 DEF SendHeartbeat
  <1>4. ASSUME NEW msg \in net, ReceiveHeartbeat(msg)
        PROVE  Views!Hear(msg.to, msg.from) /\ msg.to \in Node /\ msg.from \in Node
    <2>1. msg.to \in Node /\ msg.from \in Node
      BY <1>1 DEF Heartbeat
    <2>2. /\ \A k \in Node \ {msg.to} : View(k)' = View(k)
          /\ View(msg.to)' = View(msg.to) \cup {msg.from}
      BY <1>1, <1>4, <2>1 DEF ReceiveHeartbeat, View, Heard
    <2> QED
      BY <1>4, <2>1, <2>2 DEF ReceiveHeartbeat, Views!Hear
  <1>5. ASSUME NEW n \in Node, HealthCheck(n)
        PROVE  \/ UNCHANGED <<up, live>>
               \/ Views!Detect(n)
    <2> DEFINE dead == {m \in Node : Overdue(nodes[n][m], Clock(n))}
    <2>1. \A k \in Node \ {n} : View(k)' = View(k)
      BY <1>1, <1>5 DEF HealthCheck, View
    <2>2. View(n)' = View(n) \ dead /\ dead \subseteq View(n) /\ dead \in SUBSET Node
      <3>1. \A m \in Node : nodes'[n][m] = Reap(nodes[n][m], Clock(n))
        BY <1>1, <1>5 DEF HealthCheck
      <3>2. \A m \in Node : /\ nodes'[n][m].status = "live" <=>
                                  /\ nodes[n][m].status = "live"
                                  /\ ~Overdue(nodes[n][m], Clock(n))
                            /\ Overdue(nodes[n][m], Clock(n)) =>
                                  nodes[n][m].status = "live"
        <4> SUFFICES ASSUME NEW m \in Node
                     PROVE  /\ nodes'[n][m].status = "live" <=>
                                  /\ nodes[n][m].status = "live"
                                  /\ ~Overdue(nodes[n][m], Clock(n))
                            /\ Overdue(nodes[n][m], Clock(n)) =>
                                  nodes[n][m].status = "live"
          OBVIOUS
        <4>1. nodes[n][m] \in Entry
          BY <1>1
        <4>2. CASE Overdue(nodes[n][m], Clock(n))
          BY <3>1, <4>1, <4>2 DEF Reap, Overdue, Entry
        <4>3. CASE ~Overdue(nodes[n][m], Clock(n))
          BY <3>1, <4>3 DEF Reap
        <4> QED
          BY <4>2, <4>3 DEF Overdue
      <3> QED
        BY <3>2 DEF View
    <2>3. CASE dead = {}
      BY <1>5, <2>1, <2>2, <2>3 DEF HealthCheck
    <2>4. CASE dead # {}
      BY <1>5, <2>1, <2>2, <2>4 DEF HealthCheck, Views!Detect
    <2> QED
      BY <2>3, <2>4
  <1>6. ASSUME NEW n \in Node, Crash(n) PROVE Views!Crash(n)
    <2>1. /\ \A k \in Node \ {n} : View(k)' = View(k)
          /\ View(n)' = {}
      BY <1>1, <1>6 DEF Crash, View, NoEntry
    <2> QED
      BY <1>6, <2>1 DEF Crash, Views!Crash
  <1>7. ASSUME NEW n \in Node, Restart(n) PROVE Views!Restart(n)
    <2>1. /\ \A k \in Node \ {n} : View(k)' = View(k)
          /\ View(n)' = {n}
      BY <1>1, <1>7 DEF Restart, View, Registered, NoEntry
    <2> QED
      BY <1>7, <2>1 DEF Restart, Views!Restart
  <1>8. ASSUME Tick PROVE UNCHANGED <<up, nodes>>
    BY <1>8 DEF Tick
  <1>9. UNCHANGED vars => UNCHANGED <<up, nodes>>
    BY DEF vars
  <1>10. ASSUME UNCHANGED <<up, nodes>> PROVE UNCHANGED Views!vars
    BY <1>10 DEF Views!vars, View
  <1> QED
    BY <1>3, <1>4, <1>5, <1>6, <1>7, <1>8, <1>9, <1>10 DEF Next, Views!Next, Views!vars

\* Heartbeats, clocks and the window give the room handlers the views that
\* HealthViews promises them.
THEOREM ImplementsViews == Spec => ViewsImplemented
  BY InitViews, StepViews, TypeCorrect, PTL DEF Spec, ViewsImplemented, Views!Spec

------------------------------------------------------------------------------
(* Peers of a room: requests.                                               *)

\* A request is one of its client's, from an address of that client's.
LEMMA RequestFields ==
    ASSUME NEW req \in Request
    PROVE  /\ req.client \in Client /\ req.room \in Room /\ req.address \in Address
           /\ req.kind \in {"join", "leave"} /\ req # None
  BY NoneAssumption DEF Request

\* The name that a joining peer gets.
LEMMA NamingType ==
    ASSUME NEW c \in Client, NEW id \in Id, drawn \subseteq Uuid, Naming(c, id)
    PROVE  /\ drawn' \subseteq Uuid
           /\ NameOf[c] # None => id = NameOf[c]
           /\ NameOf[c] = None => id \in Uuid
  BY DEF Naming

\* What an answer leaves of the clients' state.
LEMMA AnswerType ==
    ASSUME ServerTypeOK, NEW req \in wire, NEW accepted \in BOOLEAN, Answer(req, accepted)
    PROVE  /\ wire' \subseteq Request
           /\ pending' \in [Client -> Request \cup {None}]
           /\ joined' \in [Named -> SUBSET Room]
           /\ hasty' \subseteq Named
  <1>1. req.client \in Client /\ req.room \in Room
    BY RequestFields DEF ServerTypeOK
  <1>2. wire' \subseteq Request /\ hasty' \subseteq Named
    BY DEF ServerTypeOK, Answer
  <1>3. CASE UNCHANGED <<pending, joined>>
    BY <1>2, <1>3 DEF ServerTypeOK
  <1>4. CASE /\ pending' = [pending EXCEPT ![req.client] = None]
             /\ joined' = [c \in Named |->
                   IF c # req.client \/ ~accepted THEN joined[c]
                   ELSE IF req.kind = "join" THEN joined[c] \cup {req.room}
                   ELSE joined[c] \ {req.room}]
    <2>1. pending' \in [Client -> Request \cup {None}]
      BY <1>4 DEF ServerTypeOK
    <2>2. joined' \in [Named -> SUBSET Room]
      BY <1>1, <1>4 DEF ServerTypeOK
    <2> QED BY <1>2, <2>1, <2>2
  <1> QED BY <1>3, <1>4 DEF Answer
------------------------------------------------------------------------------
(* Peers of a room: types. *)

LEMMA ServerInitType == ServerInit => ServerTypeOK
  BY DEF ServerInit, ServerTypeOK, Named

LEMMA ServerNextType == ServerTypeOK /\ [ServerNext]_serverVars => ServerTypeOK'
  <1> SUFFICES ASSUME ServerTypeOK, [ServerNext]_serverVars PROVE ServerTypeOK'
    OBVIOUS
  <1>1. ASSUME NEW c \in Client, NEW req \in Request, Ask(c, req) PROVE ServerTypeOK'
    BY <1>1 DEF Ask, ServerTypeOK, server
  <1>2. ASSUME NEW c \in Client, GiveUp(c) PROVE ServerTypeOK'
    BY <1>2 DEF GiveUp, ServerTypeOK, server
  <1>3. ASSUME NEW address \in Address, Exchange(address) PROVE ServerTypeOK'
    BY <1>3 DEF Exchange, ServerTypeOK, clients
  <1>4. ASSUME NEW req \in wire, NEW id \in Id, Join(req, id) PROVE ServerTypeOK'
    <2>1. /\ req \in Request
          /\ req.client \in Client /\ req.room \in Room /\ req.address \in Address
      BY RequestFields DEF ServerTypeOK
    <2>2. CheckPeer(req.address) /\ Answer(req, TRUE)
      BY <1>4 DEF Join
    <2>3. [id |-> id, address |-> req.address] \in Peer
      BY <2>1 DEF Peer
    <2>4. peers' \in [Room -> SUBSET Peer]
      BY <1>4, <2>1, <2>3 DEF Join, ServerTypeOK, With
    <2>5. \A r \in Room : \A p \in peers'[r] : p.address \in UNION Cidrs
      BY <1>4, <2>1, <2>2 DEF Join, ServerTypeOK, With, CheckPeer
    <2>6. rooms' \subseteq Room /\ exchanged' \in Nat /\ drawn' \subseteq Uuid
      BY <1>4, <2>1, NamingType DEF Join, ServerTypeOK
    <2> QED BY <2>2, <2>4, <2>5, <2>6, AnswerType DEF ServerTypeOK
  <1>5. ASSUME NEW req \in wire, Leave(req) PROVE ServerTypeOK'
    <2>1. req.room \in Room
      BY RequestFields DEF ServerTypeOK
    <2>2. Answer(req, TRUE)
      BY <1>5 DEF Leave
    <2>3. /\ peers' \in [Room -> SUBSET Peer]
          /\ \A r \in Room : \A p \in peers'[r] : p.address \in UNION Cidrs
      BY <1>5, <2>1 DEF Leave, ServerTypeOK, Without
    <2>4. rooms' \subseteq Room /\ exchanged' \in Nat /\ drawn' \subseteq Uuid
      BY <1>5 DEF Leave, ServerTypeOK, Recycled
    <2> QED BY <2>2, <2>3, <2>4, AnswerType DEF ServerTypeOK
  <1>6. ASSUME NEW req \in wire, Refuse(req) PROVE ServerTypeOK'
    <2>1. Answer(req, FALSE) /\ UNCHANGED server
      BY <1>6 DEF Refuse
    <2> QED BY <2>1, AnswerType DEF ServerTypeOK, server
  <1>7. ASSUME NEW req \in wire, Lose(req) PROVE ServerTypeOK'
    BY <1>7 DEF Lose, ServerTypeOK, server
  <1>8. CASE UNCHANGED serverVars
    BY <1>8 DEF ServerTypeOK, serverVars
  <1> QED BY <1>1, <1>2, <1>3, <1>4, <1>5, <1>6, <1>7, <1>8 DEF ServerNext

\* The state keeps its type, and everybody on a list has an address in one of
\* the allowed networks (check_peer comes before every change).
THEOREM ServerTypeCorrect == ServerSpec => []ServerTypeOK
  BY ServerInitType, ServerNextType, PTL DEF ServerSpec
------------------------------------------------------------------------------
(* Rooms and lists. *)

LEMMA InitLists == ServerInit => CleanLists
  BY DEF ServerInit, CleanLists, NoEmptyRoom, OnceEach

LEMMA NextLists == ServerTypeOK /\ CleanLists /\ [ServerNext]_serverVars => CleanLists'
  <1> SUFFICES ASSUME ServerTypeOK, CleanLists, [ServerNext]_serverVars PROVE CleanLists'
    OBVIOUS
  <1>0. ASSUME UNCHANGED <<rooms, peers>> PROVE CleanLists'
    BY <1>0 DEF CleanLists, NoEmptyRoom, OnceEach
  <1>1. ASSUME NEW req \in wire, NEW id \in Id, Join(req, id) PROVE CleanLists'
    <2> DEFINE r == req.room
               peer == [id |-> id, address |-> req.address]
    <2>1. r \in Room
      BY RequestFields DEF ServerTypeOK
    <2>2. /\ rooms' = rooms \cup {r}
          /\ peers' = [peers EXCEPT ![r] = With(@, peer)]
      BY <1>1 DEF Join
    <2>3. /\ With(peers[r], peer) # {}
          /\ \A p, q \in With(peers[r], peer) : p.id = q.id => p = q
      BY <2>1 DEF With, CleanLists, OnceEach
    <2> HIDE DEF peer
    <2>4. NoEmptyRoom'
      BY <2>1, <2>2, <2>3 DEF CleanLists, NoEmptyRoom, ServerTypeOK
    <2>5. OnceEach'
      BY <2>1, <2>2, <2>3 DEF CleanLists, OnceEach, ServerTypeOK
    <2> QED BY <2>4, <2>5 DEF CleanLists
  <1>2. ASSUME NEW req \in wire, Leave(req) PROVE CleanLists'
    <2>1. req.room \in Room
      BY RequestFields DEF ServerTypeOK
    <2> DEFINE remaining == Without(peers[req.room], NameOf[req.client])
    <2>2. /\ peers' = [peers EXCEPT ![req.room] = remaining]
          /\ rooms' = IF remaining = {} THEN rooms \ {req.room} ELSE rooms
      BY <1>2 DEF Leave, Recycled
    <2>3. remaining # {} => peers[req.room] # {}
      BY DEF Without
    <2> HIDE DEF remaining
    <2>4. NoEmptyRoom'
      BY <2>1, <2>2, <2>3 DEF CleanLists, NoEmptyRoom, ServerTypeOK
    <2>5. OnceEach'
      BY <1>2, <2>1 DEF Leave, Without, CleanLists, OnceEach, ServerTypeOK
    <2> QED BY <2>4, <2>5 DEF CleanLists
  <1>3. CASE \/ \E c \in Client, req \in Request : Ask(c, req)
             \/ \E c \in Client : GiveUp(c)
             \/ \E address \in Address : Exchange(address)
             \/ \E req \in wire : Refuse(req) \/ Lose(req)
             \/ UNCHANGED serverVars
    BY <1>0, <1>3 DEF Ask, GiveUp, Exchange, Refuse, Lose, server, serverVars
  <1> QED BY <1>1, <1>2, <1>3 DEF ServerNext

\* The server has an entry for exactly the rooms with somebody in them (join
\* makes it and leave recycles it), and nobody is listed twice in a room, however
\* often a join is sent.
THEOREM ListsStayClean == ServerSpec => []CleanLists
  <1>1. ServerInit => ServerTypeOK /\ CleanLists
    BY ServerInitType, InitLists
  <1>2. ServerTypeOK /\ CleanLists /\ [ServerNext]_serverVars => ServerTypeOK' /\ CleanLists'
    BY ServerNextType, NextLists
  <1> QED BY <1>1, <1>2, PTL DEF ServerSpec
------------------------------------------------------------------------------
(* Clients. *)

ListedIn(c) == {r \in Room : \E p \in peers[r] : p.id = NameOf[c]}
OnlyOne(c) == \A d \in Named \ {c} : NameOf[d] # NameOf[c]

\* A client waits for a request of its own, and who waits for every answer has
\* no other on its way.
Waiting ==
    /\ \A c \in Client : pending[c] # None => pending[c].client = c
    /\ \A req \in wire : req.client \in Named \ hasty => pending[req.client] = req

\* Until its request is handled, what a client was told is true.
Truth ==
    \A c \in Named \ hasty :
        (OnlyOne(c) /\ (pending[c] = None \/ pending[c] \in wire)) =>
            joined[c] = ListedIn(c)

ServerInv == ServerTypeOK /\ Waiting /\ Truth

LEMMA ServerInitInv == ServerInit => ServerInv
  <1> SUFFICES ASSUME ServerInit PROVE ServerInv
    OBVIOUS
  <1>1. Waiting
    BY DEF ServerInit, Waiting
  <1>2. ASSUME NEW c \in Named PROVE joined[c] = ListedIn(c)
    BY DEF ServerInit, ListedIn
  <1> QED BY <1>1, <1>2, ServerInitType DEF ServerInv, Truth

\* An answer keeps Waiting.
LEMMA AnswerWaiting ==
    ASSUME ServerInv, NEW req \in wire, NEW accepted \in BOOLEAN, Answer(req, accepted)
    PROVE  Waiting'
  <1>1. req.client \in Client
    BY RequestFields DEF ServerInv, ServerTypeOK
  <1>2. /\ wire' = wire \ {req} /\ hasty' = hasty
        /\ \/ pending' = pending
           \/ /\ pending[req.client] = req
              /\ pending' = [pending EXCEPT ![req.client] = None]
    BY DEF Answer
  <1>3. CASE pending' = pending
    BY <1>2, <1>3 DEF ServerInv, Waiting
  <1>4. CASE /\ pending[req.client] = req
             /\ pending' = [pending EXCEPT ![req.client] = None]
    <2>1. \A c \in Client : pending'[c] # None => pending'[c].client = c
      BY <1>1, <1>4 DEF ServerInv, Waiting, ServerTypeOK
    <2>2. ASSUME NEW other \in wire', other.client \in Named \ hasty'
          PROVE  pending'[other.client] = other
      <3>1. other \in wire /\ other # req /\ pending[other.client] = other
        BY <1>2, <2>2 DEF ServerInv, Waiting
      <3>2. other.client # req.client
        BY <1>4, <3>1
      <3> QED BY <1>1, <1>4, <2>2, <3>1, <3>2 DEF ServerInv, ServerTypeOK, Named
    <2> QED BY <2>1, <2>2 DEF Waiting
  <1> QED BY <1>2, <1>3, <1>4

\* What an answer changes for a client that is not the sender.
LEMMA AnswerOthers ==
    ASSUME ServerInv, NEW req \in wire, NEW accepted \in BOOLEAN, Answer(req, accepted),
           NEW c \in Named, c # req.client
    PROVE  pending'[c] = pending[c] /\ joined'[c] = joined[c] /\ wire' \subseteq wire
  BY DEF Answer, ServerInv, ServerTypeOK, Named

\* What it changes for a sender that waits for every answer.
LEMMA AnswerSender ==
    ASSUME ServerInv, NEW req \in wire, NEW accepted \in BOOLEAN, Answer(req, accepted),
           req.client \in Named \ hasty
    PROVE  \/ pending'[req.client] = req /\ req \notin wire' /\ req # None
           \/ joined'[req.client] =
                 IF ~accepted THEN joined[req.client]
                 ELSE IF req.kind = "join" THEN joined[req.client] \cup {req.room}
                 ELSE joined[req.client] \ {req.room}
  <1>1. pending[req.client] = req
    BY DEF ServerInv, Waiting
  <1>2. req # None
    BY RequestFields DEF ServerInv, ServerTypeOK
  <1> QED BY <1>1, <1>2 DEF Answer

LEMMA ServerNextInv == ServerInv /\ [ServerNext]_serverVars => ServerInv'
  <1> SUFFICES ASSUME ServerInv, [ServerNext]_serverVars PROVE ServerInv'
    OBVIOUS
  <1> USE DEF ServerInv
  <1>0. ServerTypeOK'
    BY ServerNextType
  <1>1. ASSUME NEW c \in Client, NEW req \in Request, Ask(c, req) PROVE Waiting' /\ Truth'
    <2>1. /\ req.client = c /\ pending[c] = None /\ wire' = wire \cup {req}
          /\ pending' = [pending EXCEPT ![c] = req]
          /\ UNCHANGED <<joined, hasty, peers>>
      BY <1>1 DEF Ask, server
    <2>2. \A r \in wire : r.client = c => c \notin Named \ hasty
      <3>1. \A r \in wire : r # None
        BY RequestFields DEF ServerTypeOK
      <3> QED BY <2>1, <3>1 DEF Waiting
    <2>3. Waiting'
      BY <2>1, <2>2 DEF Waiting, ServerTypeOK, Named
    <2>4. ASSUME NEW d \in Named \ hasty', OnlyOne(d),
                 pending'[d] = None \/ pending'[d] \in wire'
          PROVE  joined'[d] = ListedIn(d)'
      <3>1. pending[d] = None \/ pending[d] \in wire
        BY <2>1, <2>4 DEF Waiting, ServerTypeOK, Named
      <3> QED BY <2>1, <2>4, <3>1 DEF Truth, ListedIn
    <2> QED BY <2>3, <2>4 DEF Truth, OnlyOne
  <1>2. ASSUME NEW c \in Client, GiveUp(c) PROVE Waiting' /\ Truth'
    <2>1. /\ pending' = [pending EXCEPT ![c] = None] /\ hasty' = hasty \cup ({c} \cap Named)
          /\ UNCHANGED <<wire, joined, peers>>
      BY <1>2 DEF GiveUp, server
    <2>2. \A d \in Named \ hasty' : d \in Named \ hasty /\ pending'[d] = pending[d]
      BY <2>1 DEF ServerTypeOK, Named
    <2>3. Waiting'
      BY <2>1, <2>2 DEF Waiting, ServerTypeOK
    <2>4. Truth'
      BY <2>1, <2>2 DEF Truth, ListedIn, OnlyOne
    <2> QED BY <2>3, <2>4
  <1>3. ASSUME NEW address \in Address, Exchange(address) PROVE Waiting' /\ Truth'
    BY <1>3 DEF Exchange, clients, Waiting, Truth, ListedIn, OnlyOne
  <1>4. ASSUME NEW req \in wire, NEW id \in Id, Join(req, id) PROVE Waiting' /\ Truth'
    <2> DEFINE peer == [id |-> id, address |-> req.address]
    <2>1. /\ Answer(req, TRUE) /\ Naming(req.client, id) /\ req.kind = "join"
          /\ peers' = [peers EXCEPT ![req.room] = With(@, peer)]
      BY <1>4 DEF Join
    <2>2. req.room \in Room /\ req.client \in Client /\ hasty' = hasty
      BY <2>1, RequestFields DEF ServerTypeOK, Answer
    <2>3. ASSUME NEW c \in Named
          PROVE  ListedIn(c)' = IF NameOf[c] = id THEN ListedIn(c) \cup {req.room}
                                ELSE ListedIn(c)
      <3>. peer.id = id
        OBVIOUS
      <3> HIDE DEF peer
      <3>1. ASSUME NEW present
            PROVE  (\E p \in With(present, peer) : p.id = NameOf[c])
                     <=> (NameOf[c] = id \/ \E p \in present : p.id = NameOf[c])
        BY DEF With
      <3> QED BY <2>1, <2>2, <3>1 DEF ListedIn, ServerTypeOK
    <2>4. ASSUME NEW c \in Named \ hasty', OnlyOne(c),
                 pending'[c] = None \/ pending'[c] \in wire'
          PROVE  joined'[c] = ListedIn(c)'
      <3>1. CASE c = req.client
        <4>1. /\ joined[c] = ListedIn(c) /\ NameOf[c] = id
          BY <2>1, <2>2, <2>4, <3>1, NamingType DEF Truth, Waiting, ServerTypeOK, Named
        <4>2. joined'[c] = joined[c] \cup {req.room}
          BY <2>1, <2>2, <2>4, <3>1, AnswerSender DEF ServerTypeOK
        <4> QED BY <2>3, <4>1, <4>2
      <3>2. CASE c # req.client
        <4>1. joined'[c] = ListedIn(c)
          BY <2>1, <2>2, <2>4, <3>2, AnswerOthers DEF Truth
        <4>2. NameOf[c] # id
          <5>1. NameOf[c] \in Name
            BY NameAssumption DEF Named
          <5>2. CASE NameOf[req.client] = None
            BY <2>1, <2>2, <5>1, <5>2, NamingType, NameAssumption DEF ServerTypeOK
          <5>3. CASE NameOf[req.client] # None
            BY <2>1, <2>2, <2>4, <3>2, <5>3, NamingType DEF ServerTypeOK, OnlyOne, Named
          <5> QED BY <5>2, <5>3
        <4> QED BY <2>3, <4>1, <4>2
      <3> QED BY <3>1, <3>2
    <2> QED BY <2>1, <2>4, AnswerWaiting DEF Truth, OnlyOne
  <1>5. ASSUME NEW req \in wire, Leave(req) PROVE Waiting' /\ Truth'
    <2>1. /\ Answer(req, TRUE) /\ req.kind = "leave"
          /\ peers' = [peers EXCEPT ![req.room] = Without(@, NameOf[req.client])]
      BY <1>5 DEF Leave
    <2>2. req.room \in Room /\ req.client \in Client /\ hasty' = hasty
      BY <2>1, RequestFields DEF ServerTypeOK, Answer
    <2>3. ASSUME NEW c \in Named
          PROVE  ListedIn(c)' = IF NameOf[c] = NameOf[req.client] THEN ListedIn(c) \ {req.room}
                                ELSE ListedIn(c)
      <3>1. \A present : (\E p \in Without(present, NameOf[req.client]) : p.id = NameOf[c])
                            <=> /\ NameOf[c] # NameOf[req.client]
                                /\ \E p \in present : p.id = NameOf[c]
        BY DEF Without
      <3> QED BY <2>1, <2>2, <3>1 DEF ListedIn, ServerTypeOK
    <2>4. ASSUME NEW c \in Named \ hasty', OnlyOne(c),
                 pending'[c] = None \/ pending'[c] \in wire'
          PROVE  joined'[c] = ListedIn(c)'
      <3>1. CASE c = req.client
        <4>1. joined[c] = ListedIn(c)
          BY <2>2, <2>4, <3>1 DEF Truth, Waiting
        <4>2. joined'[c] = joined[c] \ {req.room}
          BY <2>1, <2>2, <2>4, <3>1, AnswerSender DEF ServerTypeOK
        <4> QED BY <2>3, <3>1, <4>1, <4>2
      <3>2. CASE c # req.client
        <4>1. joined'[c] = ListedIn(c)
          BY <2>1, <2>2, <2>4, <3>2, AnswerOthers DEF Truth
        <4>2. NameOf[c] # NameOf[req.client]
          BY <2>2, <2>4, <3>2 DEF OnlyOne, Named
        <4> QED BY <2>3, <4>1, <4>2
      <3> QED BY <3>1, <3>2
    <2> QED BY <2>1, <2>4, AnswerWaiting DEF Truth, OnlyOne
  <1>6. ASSUME NEW req \in wire, Refuse(req) PROVE Waiting' /\ Truth'
    <2>1. Answer(req, FALSE) /\ peers' = peers
      BY <1>6 DEF Refuse, server
    <2>2. req.client \in Client /\ hasty' = hasty
      BY <2>1, RequestFields DEF ServerTypeOK, Answer
    <2>3. ASSUME NEW c \in Named \ hasty', OnlyOne(c),
                 pending'[c] = None \/ pending'[c] \in wire'
          PROVE  joined'[c] = ListedIn(c)'
      <3>1. ListedIn(c)' = ListedIn(c)
        BY <2>1 DEF ListedIn
      <3>2. CASE c = req.client
        <4>1. joined[c] = ListedIn(c)
          BY <2>2, <2>3, <3>2 DEF Truth, Waiting
        <4>2. joined'[c] = joined[c]
          BY <2>1, <2>2, <2>3, <3>2, AnswerSender DEF ServerTypeOK
        <4> QED BY <3>1, <4>1, <4>2
      <3>3. CASE c # req.client
        BY <2>1, <2>2, <2>3, <3>1, <3>3, AnswerOthers DEF Truth
      <3> QED BY <3>2, <3>3
    <2> QED BY <2>1, <2>3, AnswerWaiting DEF Truth, OnlyOne
  <1>7. ASSUME NEW req \in wire, Lose(req) PROVE Waiting' /\ Truth'
    BY <1>7 DEF Lose, server, Waiting, Truth, ListedIn, OnlyOne
  <1>8. CASE UNCHANGED serverVars
    <2>1. Waiting'
      BY <1>8 DEF serverVars, Waiting
    <2>2. ASSUME NEW c \in Named PROVE ListedIn(c)' = ListedIn(c)
      BY <1>8 DEF serverVars, ListedIn
    <2>3. ASSUME NEW c \in Named \ hasty', OnlyOne(c),
                 pending'[c] = None \/ pending'[c] \in wire'
          PROVE  joined'[c] = ListedIn(c)'
      BY <1>8, <2>2, <2>3 DEF serverVars, Truth
    <2> QED BY <1>0, <2>1, <2>3 DEF Truth, OnlyOne
  <1> QED BY <1>0, <1>1, <1>2, <1>3, <1>4, <1>5, <1>6, <1>7, <1>8 DEF ServerNext

\* Who has a name of its own and waits for its answers can rely on them,
\* whatever the other clients do.
THEOREM TruthTold == ServerSpec => []TellsTheTruth
  <1>1. ServerInv => TellsTheTruth
    BY DEF ServerInv, Truth, TellsTheTruth, OnlyOne, ListedIn
  <1> QED BY ServerInitInv, ServerNextInv, <1>1, PTL DEF ServerSpec
------------------------------------------------------------------------------
(* The rosters. *)

LEMMA InitRosters == ServerInit => Rosters!Init
  BY DEF ServerInit, Rosters!Init, Members

LEMMA NextRosters == ServerTypeOK /\ OnceEach /\ [ServerNext]_serverVars => [Rosters!Next]_Members
  <1> SUFFICES ASSUME ServerTypeOK, OnceEach, [ServerNext]_serverVars PROVE [Rosters!Next]_Members
    OBVIOUS
  <1>0. ASSUME UNCHANGED peers PROVE [Rosters!Next]_Members
    BY <1>0 DEF Members
  <1>1. ASSUME NEW req \in wire, NEW id \in Id, Join(req, id) PROVE [Rosters!Next]_Members
    <2> DEFINE r == req.room
               peer == [id |-> id, address |-> req.address]
    <2>1. r \in Room /\ peers' = [peers EXCEPT ![r] = With(@, peer)]
      BY <1>1, RequestFields DEF ServerTypeOK, Join
    <2>2. CASE \E p \in peers[r] : p.id = id
      <3>1. With(peers[r], peer) = peers[r]
        BY <2>2 DEF With
      <3> HIDE DEF peer
      <3>2. peers' = peers
        BY <2>1, <3>1 DEF ServerTypeOK
      <3> QED BY <1>0, <3>2
    <2>3. CASE ~\E p \in peers[r] : p.id = id
      <3>1. id \notin Members[r]
        BY <2>1, <2>3 DEF Members
      <3>2. With(peers[r], peer) = peers[r] \cup {peer}
        BY <2>3 DEF With
      <3>. peer.id = id
        OBVIOUS
      <3> HIDE DEF peer
      <3>3. {p.id : p \in peers[r] \cup {peer}} = {p.id : p \in peers[r]} \cup {id}
        OBVIOUS
      <3>4. Members' = [Members EXCEPT ![r] = @ \cup {id}]
        BY <2>1, <3>2, <3>3 DEF Members, ServerTypeOK
      <3> QED BY <2>1, <3>1, <3>4 DEF Rosters!Next, Rosters!Enter
    <2> QED BY <2>2, <2>3
  <1>2. ASSUME NEW req \in wire, Leave(req) PROVE [Rosters!Next]_Members
    <2> DEFINE r == req.room
               id == NameOf[req.client]
    <2>1. r \in Room /\ peers' = [peers EXCEPT ![r] = Without(@, id)]
      BY <1>2, RequestFields DEF ServerTypeOK, Leave
    <2>2. CASE \E p \in peers[r] : p.id = id
      <3>1. id \in Members[r] /\ id \in Id
        BY <2>1, <2>2 DEF Members, ServerTypeOK, Peer
      <3>2. {p.id : p \in Without(peers[r], id)} = {p.id : p \in peers[r]} \ {id}
        BY DEF Without
      <3> HIDE DEF id
      <3>3. Members' = [Members EXCEPT ![r] = @ \ {id}]
        BY <2>1, <3>2 DEF Members, ServerTypeOK
      <3> QED BY <2>1, <3>1, <3>3 DEF Rosters!Next, Rosters!Exit
    <2>3. CASE ~\E p \in peers[r] : p.id = id
      <3>1. Without(peers[r], id) = peers[r]
        BY <2>3 DEF Without
      <3> HIDE DEF id
      <3>2. peers' = peers
        BY <2>1, <3>1 DEF ServerTypeOK
      <3> QED BY <1>0, <3>2
    <2> QED BY <2>2, <2>3
  <1>3. CASE \/ \E c \in Client, req \in Request : Ask(c, req)
             \/ \E c \in Client : GiveUp(c)
             \/ \E address \in Address : Exchange(address)
             \/ \E req \in wire : Refuse(req) \/ Lose(req)
             \/ UNCHANGED serverVars
    BY <1>0, <1>3 DEF Ask, GiveUp, Exchange, Refuse, Lose, server, serverVars
  <1> QED BY <1>1, <1>2, <1>3 DEF ServerNext

\* The lists of the server implement the rosters: one peer at a time appears or
\* disappears.
THEOREM RostersImplemented == ServerSpec => ImplementsRosters
  <1>1. ServerInit => ServerTypeOK /\ CleanLists
    BY ServerInitType, InitLists
  <1>2. ServerTypeOK /\ CleanLists /\ [ServerNext]_serverVars => ServerTypeOK' /\ CleanLists'
    BY ServerNextType, NextLists
  <1>3. ServerTypeOK /\ CleanLists /\ [ServerNext]_serverVars => [Rosters!Next]_Members
    BY NextRosters DEF CleanLists
  <1> QED BY <1>1, <1>2, <1>3, InitRosters, PTL DEF ServerSpec, ImplementsRosters, Rosters!Spec
==============================================================================
