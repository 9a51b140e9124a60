---------------------------- MODULE MCMembership ----------------------------
(***************************************************************************)
(* Constants of the TLC runs of Membership.                                *)
(***************************************************************************)
EXTENDS Membership

\* The clock of node 2 is ahead of the others'.
SecondAhead == [n \in Node |-> IF n = 2 THEN 2 ELSE 1]
InSync == [n \in Node |-> 1]
==============================================================================
