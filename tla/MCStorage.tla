------------------------------ MODULE MCStorage ------------------------------
(***************************************************************************)
(* Instances of AtomicFile and EventLog for TLC.  They are about different *)
(* files and share nothing, so a behaviour is one of either.               *)
(***************************************************************************)
EXTENDS AtomicFile, EventLog

MCInit == Init /\ LogInit

MCNext ==
    \/ LogInit /\ Next /\ UNCHANGED logVars
    \/ Init /\ LogNext /\ UNCHANGED vars

MCSpec == MCInit /\ [][MCNext]_<<vars, logVars>>
==============================================================================
