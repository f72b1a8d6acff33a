---------------------------- MODULE MCRamBackend ----------------------------
(***************************************************************************)
(* Small instances of RamBackend for TLC.                                  *)
(***************************************************************************)
EXTENDS RamBackend, TLC

CONSTANTS a, b, c       \* keys
CONSTANTS small, big    \* values of size 1 and 2

TwoSizes == small :> 1 @@ big :> 2
KeySymmetry == Permutations(Key)
=============================================================================
