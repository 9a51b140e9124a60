----------------------------- MODULE HealthViews -----------------------------
(***************************************************************************)
(* What the room handlers of a cluster rely on about health: every running *)
(* node holds a set of nodes to be Live, a health check takes some of them *)
(* out, a heartbeat puts one back in, and a node that starts knows only    *)
(* itself.  Nothing is promised about the truth of the view.               *)
(*                                                                         *)
(* Membership implements this with heartbeats, clocks and a window, and    *)
(* ClusterRooms uses no more than this.                                    *)
(***************************************************************************)
CONSTANT Node

VARIABLES up, live

vars == <<up, live>>

Init ==
    /\ up = Node
    /\ live \in [Node -> SUBSET Node]
    /\ \A n \in Node : n \in live[n]

\* Any of the nodes n holds to be Live drop out, and nobody comes in.
Detect(n) ==
    /\ n \in up
    /\ live'[n] \subseteq live[n] /\ live'[n] # live[n]
    /\ live' = [live EXCEPT ![n] = live'[n]]
    /\ UNCHANGED up

Hear(n, m) ==
    /\ n \in up
    /\ live' = [live EXCEPT ![n] = @ \cup {m}]
    /\ UNCHANGED up

Crash(n) ==
    /\ n \in up
    /\ up' = up \ {n}
    /\ live' = [live EXCEPT ![n] = {}]

Restart(n) ==
    /\ n \notin up
    /\ up' = up \cup {n}
    /\ live' = [live EXCEPT ![n] = {n}]

Next ==
    \/ \E n \in Node : Detect(n)
    \/ \E n, m \in Node : Hear(n, m)
    \/ \E n \in Node : Crash(n)
    \/ \E n \in Node : Restart(n)

Spec == Init /\ [][Next]_vars
==============================================================================
