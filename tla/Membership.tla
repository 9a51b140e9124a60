------------------------------ MODULE Membership ------------------------------
(***************************************************************************)
(* How the nodes of a cluster find out who is alive (crates/qm-cluster,    *)
(* the heartbeat and health parts of state.rs and cluster.rs): every node  *)
(* broadcasts a heartbeat per period, notes when it last heard of whom,    *)
(* and once per period takes everyone for dead of whom it has not heard    *)
(* within a window.                                                        *)
(*                                                                         *)
(* Time is in milliseconds (now is real time, node n's clock shows         *)
(* now + Offset[n]), with a second of MsPerSec of them.  A heartbeat takes *)
(* at most MaxDelay, or is lost.  Timers fire at most Lag late: tokio is   *)
(* busy, or the health loop is still waiting for a migration's reply.      *)
(***************************************************************************)
EXTENDS Integers, FiniteSets

CONSTANTS
    Node,
    HeartbeatSecs, Misses, \* heartbeat_secs and unhealthy_misses
    MsPerSec,              \* milliseconds in a second: 1000
    Offset,                \* Offset[n]: n's clock at the start
    MaxDelay, Lag,         \* longest delivery, longest delay of a timer
    MaxTime, MaxCrashes    \* bounds

VARIABLES
    now,      \* real time
    up,       \* nodes that are running
    nodes,    \* nodes[n][m]: what n's registry holds of m
    beatDue,  \* beatDue[n]: when n's next heartbeat is due
    checkDue, \* checkDue[n]: when n's next health check is due
    net,      \* heartbeats in flight, one message per receiver
    died,     \* died[n]: when n crashed, if it is down (history)
    crashes   \* how many crashes there were

vars == <<now, up, nodes, beatDue, checkDue, net, died, crashes>>

ASSUME ParameterAssumption ==
    /\ HeartbeatSecs \in Nat /\ Misses \in Nat /\ MsPerSec \in Nat
    /\ Offset \in [Node -> Nat \ {0}]
    /\ MaxDelay \in Nat /\ Lag \in Nat /\ MaxTime \in Nat /\ MaxCrashes \in Nat

AtLeast(x, low) == IF x < low THEN low ELSE x

\* The period of both timers, Duration::from_secs(heartbeat_secs.max(1)).
Period == AtLeast(HeartbeatSecs, 1) * MsPerSec

\* Registry::health_window - seconds times a count, compared with milliseconds.
Window == HeartbeatSecs * AtLeast(Misses, 1)

Entry == [status : {"none", "live", "dead"}, seen : Nat]
Heartbeat == [to : Node, from : Node, ts : Nat]

NoEntry == [status |-> "none", seen |-> 0]

Clock(n) == now + Offset[n]

\* When msg was sent: its time stamp is the sender's clock then.
SentAt(msg) == msg.ts - Offset[msg.from]

\* Mutated form of Registered: the node waits for its own first heartbeat.
Unregistered(n) == [m \in Node |-> NoEntry]

\* register_self - of all nodes, a starting one knows only itself.
Registered(n) ==
    [m \in Node |-> IF m = n THEN [status |-> "live", seen |-> Clock(n)] ELSE NoEntry]

Init ==
    /\ now = 0
    /\ up = Node
    /\ nodes = [n \in Node |-> Registered(n)]
    /\ beatDue = [n \in Node |-> 0]
    /\ checkDue = [n \in Node |-> 0]
    /\ net = {}
    /\ died = [n \in Node |-> 0]
    /\ crashes = 0

\* One turn of heartbeat_loop, whose timer starts a new period when it fires.
SendHeartbeat(n) ==
    /\ n \in up /\ beatDue[n] <= now
    /\ beatDue' = [beatDue EXCEPT ![n] = now + Period]
    /\ \E kept \in SUBSET up :
          net' = net \cup {[to |-> m, from |-> n, ts |-> Clock(n)] : m \in kept}
    /\ UNCHANGED <<now, up, nodes, checkDue, died, crashes>>

\* Mutated form of Heard: the two clock readings are added up.
HeardLater(msg, clock) == [status |-> "live", seen |-> msg.ts + clock]

\* Another: the age of the heartbeat is stored, not its time.
HeardAge(msg, clock) == [status |-> "live", seen |-> clock - msg.ts]

\* Registry::mark_heartbeat - whatever the status was, and whatever the sequence
\* number, which is stored and decides nothing.
Heard(msg, clock) ==
    [status |-> "live", seen |-> AtLeast(msg.ts, AtLeast(clock, 1))]

ReceiveHeartbeat(msg) ==
    /\ msg.to \in up
    /\ net' = net \ {msg}
    /\ nodes' = [nodes EXCEPT ![msg.to][msg.from] = Heard(msg, Clock(msg.to))]
    /\ UNCHANGED <<now, up, beatDue, checkDue, died, crashes>>

\* Registry::reap_dead.
Overdue(entry, clock) == entry.status = "live" /\ entry.seen + Window < clock

Reap(entry, clock) ==
    IF Overdue(entry, clock) THEN [entry EXCEPT !.status = "dead"] ELSE entry

\* health_check - a check that comes late does not shift the later ones.
HealthCheck(n) ==
    /\ n \in up /\ checkDue[n] <= now
    /\ checkDue' = [checkDue EXCEPT ![n] = @ + Period]
    /\ nodes' = [nodes EXCEPT ![n] = [m \in Node |-> Reap(@[m], Clock(n))]]
    /\ UNCHANGED <<now, up, beatDue, net, died, crashes>>

Crash(n) ==
    /\ n \in up /\ crashes < MaxCrashes
    /\ crashes' = crashes + 1
    /\ up' = up \ {n}
    /\ died' = [died EXCEPT ![n] = now]
    /\ nodes' = [nodes EXCEPT ![n] = [m \in Node |-> NoEntry]]
    /\ net' = {msg \in net : msg.to # n}
    /\ UNCHANGED <<now, beatDue, checkDue>>

\* Cluster::new and initialize: the loops start, and their first tick is at once.
Restart(n) ==
    /\ n \notin up
    /\ up' = up \cup {n}
    /\ nodes' = [nodes EXCEPT ![n] = Registered(n)]
    /\ beatDue' = [beatDue EXCEPT ![n] = now]
    /\ checkDue' = [checkDue EXCEPT ![n] = now]
    /\ died' = [died EXCEPT ![n] = 0]
    /\ UNCHANGED <<now, net, crashes>>

\* Time passes, but no timer is more than Lag late and no message MaxDelay.
Tick ==
    /\ now < MaxTime
    /\ \A n \in up : now < beatDue[n] + Lag /\ now < checkDue[n] + Lag
    /\ \A msg \in net : now < SentAt(msg) + MaxDelay
    /\ now' = now + 1
    /\ UNCHANGED <<up, nodes, beatDue, checkDue, net, died, crashes>>

Next ==
    \/ \E n \in Node : SendHeartbeat(n)
    \/ \E msg \in net : ReceiveHeartbeat(msg)
    \/ \E n \in Node : HealthCheck(n)
    \/ \E n \in Node : Crash(n)
    \/ \E n \in Node : Restart(n)
    \/ Tick

Spec == Init /\ [][Next]_vars

------------------------------------------------------------------------------
(* Properties. *)

TypeOK ==
    /\ now \in Nat
    /\ up \subseteq Node
    /\ nodes \in [Node -> [Node -> Entry]]
    /\ beatDue \in [Node -> Nat]
    /\ checkDue \in [Node -> Nat]
    /\ net \subseteq Heartbeat
    /\ died \in [Node -> Nat]
    /\ crashes \in Nat

\* How long after m's crash its last heartbeat can still count for n: it is on
\* its way, or m's clock was ahead of n's.
Echo(n, m) == AtLeast(Offset[m] - Offset[n], MaxDelay)

\* A crashed node is found dead by every running node in time, whatever was
\* lost or late and however often anybody crashed before: it takes the echo,
\* the window and one period of the health check, and the timer's lag.
DetectedInTime ==
    \A n \in up, m \in Node \ up : nodes[n][m].status = "live" =>
        now <= died[m] + Echo(n, m) + Window + Period + Lag

\* The views of who is Live change as the room handlers assume.
View(n) == {m \in Node : nodes[n][m].status = "live"}
Views == INSTANCE HealthViews WITH live <- [n \in Node |-> View(n)]
ViewsImplemented == Views!Spec

\* A node is taken for dead only when Misses heartbeats in a row are missing.
DeadOnlyAfterMisses ==
    [][\A n, m \in Node :
          (/\ nodes[n][m].status = "live"
           /\ nodes'[n][m].status = "dead") =>
              Clock(n) >= nodes[n][m].seen + Misses * Period]_vars
==============================================================================
