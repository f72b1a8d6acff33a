----------------------------- MODULE MCRemoteDry -----------------------------
(***************************************************************************)
(* A small instance of RemoteDry for TLC: pages of one key, so that two    *)
(* keys are two pages.                                                     *)
(***************************************************************************)
EXTENDS RemoteDry, TLC

Symmetry == Permutations(Task)
=============================================================================
