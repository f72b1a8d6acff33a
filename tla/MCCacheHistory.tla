--------------------------- MODULE MCCacheHistory ---------------------------
(***************************************************************************)
(* Small instances of CacheHistory for TLC.                                *)
(***************************************************************************)
EXTENDS CacheHistory, TLC

CONSTANTS v, w          \* values

TwoSizes == v :> 1 @@ w :> 2
UnitSizes == v :> 1 @@ w :> 1

NoRules == <<>>
Plain == [ttl_hours |-> NoTTL, tags |-> {}]
PlainOrForever == {Plain, [ttl_hours |-> 0, tags |-> {}]}

NothingInCold == {Empty}

(* Nothing, or one entry. *)
OneInCold ==
    {Empty} \cup {Stored(Empty, k, u, ttl, {}) : k \in Key, u \in Val, ttl \in TTL \cup {NoTTL}}

KeySymmetry == Permutations(Key)
Symmetry == Permutations(Key) \cup Permutations(Task)
=============================================================================
