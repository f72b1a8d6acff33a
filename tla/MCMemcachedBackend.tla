------------------------- MODULE MCMemcachedBackend -------------------------
(***************************************************************************)
(* Small instances of MemcachedBackend for TLC: with chunks of length 2, s *)
(* just fits in one, m takes two chunks and l three.                       *)
(***************************************************************************)
EXTENDS MemcachedBackend, TLC

CONSTANTS s, m, l       \* values

Long == m :> 3 @@ l :> 5
AllLengths == s :> 2 @@ m :> 3 @@ l :> 5
ShortAndLong == s :> 2 @@ m :> 3
Symmetry == Permutations(Task)
=============================================================================
