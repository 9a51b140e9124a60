------------------------------- MODULE MCTracks -------------------------------
(***************************************************************************)
(* Symmetry for the TLC runs of Tracks: peers, track ids and workers are   *)
(* interchangeable, and no property of these runs is a liveness property.  *)
(***************************************************************************)
EXTENDS Tracks, TLC

Symmetry == Permutations(Peer) \cup Permutations(TrackId) \cup Permutations(Worker)
==============================================================================
