----------------------------- MODULE MCSignaling -----------------------------
(***************************************************************************)
(* Two clients, with a name and without, in two rooms; the network that is *)
(* allowed has two addresses.                                              *)
(***************************************************************************)
EXTENDS Signaling, TLC

CONSTANTS named, nameless, alice, inside, moved, outside

Clients == {named, nameless}
Names == (named :> alice) @@ (nameless :> None)
Addresses == {inside, moved, outside}
Sources == (named :> Addresses) @@ (nameless :> {inside})
Networks == {{inside, moved}}

\* No property of the run is a liveness property.
Symmetry == Permutations(Room) \cup Permutations(Uuid)
==============================================================================
