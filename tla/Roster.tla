------------------------------- MODULE Roster -------------------------------
(***************************************************************************)
(* What the signaling server promises of its rooms: a roster for each      *)
(* room, in which one peer at a time appears or disappears.                *)
(***************************************************************************)
CONSTANTS Room, Id

VARIABLE roster \* roster[r]: who is in room r

Init == roster = [r \in Room |-> {}]

Enter(r, id) ==
    /\ id \notin roster[r]
    /\ roster' = [roster EXCEPT ![r] = @ \cup {id}]

Exit(r, id) ==
    /\ id \in roster[r]
    /\ roster' = [roster EXCEPT ![r] = @ \ {id}]

Next == \E r \in Room, id \in Id : Enter(r, id) \/ Exit(r, id)

Spec == Init /\ [][Next]_roster
=============================================================================
