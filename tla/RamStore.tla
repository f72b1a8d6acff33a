------------------------------ MODULE RamStore ------------------------------
(***************************************************************************)
(* The data of one RAM tier (src/tiercache/backends/ram.py) and what its   *)
(* critical sections do to it.  No coroutine is suspended between taking   *)
(* and releasing `_lock`, so each of them is one atomic function here;     *)
(* RamBackend and CacheManager build their actions from these.             *)
(*                                                                         *)
(* `_store` is an OrderedDict.  Its content is the function item, its      *)
(* order the relation older: <<j, k>> \in older when j stands before k, so *)
(* that the least recently used entry is the one with nothing before it.   *)
(* An expiry instant is kept as the time left until it.                    *)
(***************************************************************************)
EXTENDS Integers, FiniteSets

CONSTANTS Key, Val,
          Size,         \* Size[v] is what _measure returns for v
          MaxSize,      \* max_size_bytes
          DefaultTTL,   \* ttl_seconds of the constructor, 0: never expires
          TTL,          \* the ttl_seconds a caller of set gives
          NoTTL,        \* ... and the None it gives instead
          NoEntry       \* the key is not in _store

ASSUME KeyAssumption == IsFiniteSet(Key)
ASSUME SizeAssumption == Size \in [Val -> Nat] /\ MaxSize \in Nat
ASSUME TTLAssumption == TTL \subseteq Nat /\ DefaultTTL \in Nat

Entry == [val : Val, ttl : TTL \cup {DefaultTTL}, left : Int]

ASSUME NoEntryAssumption == NoEntry \notin Entry

Tier == [item : [Key -> Entry \cup {NoEntry}], older : SUBSET (Key \X Key),
         size : Int]

Empty == [item |-> [k \in Key |-> NoEntry], older |-> {}, size |-> 0]

Resident(tier) == {k \in Key : tier.item[k] # NoEntry}

(* now > expiry, for an entry that has one *)
Expired(e) == e.ttl # 0 /\ e.left < 0

ExpiredKeys(tier) == {k \in Resident(tier) : Expired(tier.item[k])}
LiveKeys(tier) == Resident(tier) \ ExpiredKeys(tier)

(* older is a strict total order on exactly the resident keys. *)
Ordered(tier) ==
    /\ tier.older \subseteq Resident(tier) \X Resident(tier)
    /\ \A k \in Resident(tier) : <<k, k>> \notin tier.older
    /\ \A j, k \in Resident(tier) :
          j # k => (<<j, k>> \in tier.older <=> <<k, j>> \notin tier.older)
    /\ \A i, j, k \in Resident(tier) :
          <<i, j>> \in tier.older /\ <<j, k>> \in tier.older
             => <<i, k>> \in tier.older

(* The bytes of the entries of D, counted one by one. *)
Bytes(tier, D) ==
    Cardinality(UNION {{k} \X (1 .. Size[tier.item[k].val]) : k \in D})

(* The keys of D in the order of _store. *)
Listings(tier, D) ==
    {s \in [1 .. Cardinality(D) -> D] :
        \A i, j \in DOMAIN s : i < j => <<s[i], s[j]>> \in tier.older}

WithValues(tier, s) == [i \in DOMAIN s |-> <<s[i], tier.item[s[i]].val>>]

Among(older, D) == {p \in older : p[1] \in D /\ p[2] \in D}

(* Mutant: the entries go and are still counted. *)
WithoutUncounted(tier, D) ==
    [item  |-> [k \in Key |-> IF k \in D THEN NoEntry ELSE tier.item[k]],
     older |-> Among(tier.older, Resident(tier) \ D),
     size  |-> tier.size]

(***************************************************************************)
(* Dropping entries: delete, an expired entry met by get, pop_expired.     *)
(***************************************************************************)
Without(tier, D) ==
    [item  |-> [k \in Key |-> IF k \in D THEN NoEntry ELSE tier.item[k]],
     older |-> Among(tier.older, Resident(tier) \ D),
     size  |-> tier.size - Bytes(tier, D \cap Resident(tier))]

(***************************************************************************)
(* The entry e of k is written and moved to the end; its size is for the   *)
(* caller to settle.                                                       *)
(***************************************************************************)
AtEnd(tier, k, e) ==
    LET others == Resident(tier) \ {k}
    IN  [item  |-> [tier.item EXCEPT ![k] = e],
         older |-> Among(tier.older, others) \cup (others \X {k}),
         size  |-> tier.size]

(* Mutant: a hit that does not move the entry to the end. *)
TouchedInPlace(tier, k) == [tier EXCEPT !.item[k].left = tier.item[k].ttl]

(* Mutant: a hit that lets the ttl run on. *)
TouchedWithoutRenewal(tier, k) == AtEnd(tier, k, tier.item[k])

(* get of a live entry starts its ttl again. *)
Touched(tier, k) ==
    AtEnd(tier, k, [tier.item[k] EXCEPT !.left = tier.item[k].ttl])

(***************************************************************************)
(* set.  The size of the entry it will replace is deducted before the loop *)
(* that evicts, oldest first, until the new value fits or nothing is left. *)
(* The loop may meet the replaced entry itself.                            *)
(***************************************************************************)
(* Mutant: the replaced entry is not deducted. *)
ChargedInFull(tier, k) == tier.size

Charged(tier, k) ==
    tier.size - Bytes(tier, {k} \cap Resident(tier))

OldestFirst(tier) ==
    {D \in SUBSET Resident(tier) :
        \A p \in tier.older : p[2] \in D => p[1] \in D}

(* Mutant: room is made before the new value is thought of. *)
EnoughWithoutIncoming(tier, k, v, D) ==
    Charged(tier, k) - Bytes(tier, D) <= MaxSize \/ D = Resident(tier)

Enough(tier, k, v, D) ==
    \/ Charged(tier, k) - Bytes(tier, D) + Size[v] <= MaxSize
    \/ D = Resident(tier)

Victims(tier, k, v) ==
    {D \in OldestFirst(tier) :
        /\ Enough(tier, k, v, D)
        /\ \A E \in OldestFirst(tier) :
              E \subseteq D /\ E # D => ~ Enough(tier, k, v, E)}

(* Mutant: None is kept instead of the default. *)
LifetimeAsGiven(ttl) == ttl

Lifetime(ttl) == IF ttl = NoTTL THEN DefaultTTL ELSE ttl

Stored(tier, k, v, ttl, D) ==
    LET fresh == [val |-> v, ttl |-> Lifetime(ttl), left |-> Lifetime(ttl)]
    IN  [AtEnd(Without(tier, D), k, fresh)
            EXCEPT !.size = Charged(tier, k) - Bytes(tier, D) + Size[v]]

(***************************************************************************)
(* The clock moves on by d.  How long ago an entry expired is not kept.    *)
(***************************************************************************)
Aged(tier, d) ==
    [tier EXCEPT !.item = [k \in Key |->
        IF tier.item[k] = NoEntry THEN NoEntry
        ELSE [tier.item[k] EXCEPT !.left = IF @ - d < 0 THEN -1 ELSE @ - d]]]
=============================================================================
