--------------------------- MODULE MCLocalBackend ---------------------------
(***************************************************************************)
(* Small instances of LocalBackend for TLC.                                *)
(***************************************************************************)
EXTENDS LocalBackend, TLC

CONSTANTS v, w          \* values

TwoSizes == v :> 1 @@ w :> 2
Symmetry == Permutations(Key) \cup Permutations(Task)
=============================================================================
