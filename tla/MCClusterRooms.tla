--------------------------- MODULE MCClusterRooms ---------------------------
(***************************************************************************)
(* Constants of the TLC runs of ClusterRooms.                              *)
(***************************************************************************)
EXTENDS ClusterRooms

\* Every node full, room for one room and plenty of listeners.
OneRoomEach == [n \in Node |-> [full |-> TRUE, maxRooms |-> 1, capacity |-> 4,
                                fanout |-> 1]]

\* A health check that finds a death, rightly or wrongly, with a crash, with a
\* room that is closed, or with listeners; or a close, a crash and listeners.
CrashOrClose ==
    {[deaths |-> 1, wrong |-> 1, crashes |-> 1, closes |-> 0, listeners |-> 0],
     [deaths |-> 1, wrong |-> 1, crashes |-> 0, closes |-> 1, listeners |-> 0],
     [deaths |-> 1, wrong |-> 1, crashes |-> 0, closes |-> 0, listeners |-> 1],
     [deaths |-> 0, wrong |-> 0, crashes |-> 1, closes |-> 1, listeners |-> 1]}

\* One crash, and one or two checks that are right.
OneTrueDeath ==
    {[deaths |-> 1, wrong |-> 0, crashes |-> 1, closes |-> 0, listeners |-> 0]}
TwoTrueDeaths ==
    {[deaths |-> 2, wrong |-> 0, crashes |-> 1, closes |-> 0, listeners |-> 0]}

\* No failover.
OneCrash == {[deaths |-> 0, wrong |-> 0, crashes |-> 1, closes |-> 0, listeners |-> 1]}
==============================================================================
