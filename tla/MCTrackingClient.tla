-------------------------- MODULE MCTrackingClient --------------------------
(***************************************************************************)
(* A small instance of TrackingClient for TLC.                             *)
(***************************************************************************)
EXTENDS TrackingClient, TLC

Symmetry == Permutations(Task)
=============================================================================
