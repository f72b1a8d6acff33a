--------------------------- MODULE MCCacheManager ---------------------------
(***************************************************************************)
(* Small instances of CacheManager for TLC.                                *)
(***************************************************************************)
EXTENDS CacheManager, TLC

CONSTANTS v, w,         \* values
          None,         \* what S3 and MongoDB answer for a key they lack
          thumb, page   \* tags

UnitSizes == v :> 1 @@ w :> 1
TwoSizes == v :> 1 @@ w :> 2
WithNone == None :> 1 @@ v :> 1 @@ w :> 2

(* Only the default: no rules, and calls that ask for nothing. *)
NoRules == <<>>
Plain == [ttl_hours |-> NoTTL, tags |-> {}]
PlainRequests == {Plain}

(* A rule that does not name hot, and two that disagree. *)
ThreeRules == <<[tag |-> {thumb}, hot |-> Unnamed],
                [tag |-> {thumb}, hot |-> 0],
                [tag |-> {}, hot |-> 3]>>

(* Half a second, one and a half, and tags that match one or two rules. *)
AllRequests ==
    {Plain} \cup [ttl_hours : {1, 3}, tags : {{}, {thumb}}]
            \cup [ttl_hours : {NoTTL}, tags : {{thumb}, {page}, {thumb, page}}]
PlainOrForever == {Plain, [ttl_hours |-> 0, tags |-> {}]}

NothingInCold == {Empty}

(* Nothing, or one entry. *)
OneInCold ==
    {Empty} \cup {Stored(Empty, k, u, ttl, {}) : k \in Key, u \in Val, ttl \in TTL \cup {NoTTL}}

Symmetry == Permutations(Key) \cup Permutations(Task)
FullSymmetry == Symmetry \cup Permutations(Val)
=============================================================================
