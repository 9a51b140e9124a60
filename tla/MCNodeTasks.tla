----------------------------- MODULE MCNodeTasks -----------------------------
(***************************************************************************)
(* Constants of the TLC run of NodeTasks.                                  *)
(***************************************************************************)
EXTENDS NodeTasks

Nothing == [joins |-> 0, leaves |-> 0, closes |-> 0, foreign |-> 1, requests |-> 0,
            checks |-> 0, snapshots |-> 0, probes |-> 0, deaf |-> {}]

\* With the room assigned to this node, or another node's record of it: two
\* joins and a leave; two joins and a close; a join and a close, with a snapshot;
\* a join while another node takes the room; a join and a migration to this
\* node, or away from it; a node that gets no requests for migration; and the
\* endpoint with a join and a health check.
Scenarios ==
    {[Nothing EXCEPT !.joins = 2, !.leaves = 1],
     [Nothing EXCEPT !.joins = 2, !.closes = 1],
     [Nothing EXCEPT !.joins = 1, !.closes = 1, !.snapshots = 1],
     [Nothing EXCEPT !.joins = 1, !.foreign = 2],
     [Nothing EXCEPT !.joins = 1, !.requests = 1],
     [Nothing EXCEPT !.joins = 1, !.checks = 1],
     [Nothing EXCEPT !.requests = 1, !.checks = 1, !.deaf = {"migrate"}],
     [Nothing EXCEPT !.joins = 1, !.checks = 1, !.probes = 1]}
==============================================================================
