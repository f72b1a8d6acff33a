--------------------------- MODULE RamStoreProofs ---------------------------
(***************************************************************************)
(* What the operations of RamStore do to a tier, proved for every set of   *)
(* keys, values, sizes and ttls.  RamBackendProofs and CacheManagerProofs  *)
(* rest on these facts.                                                    *)
(***************************************************************************)
EXTENDS RamStore, Sequences, FiniteSetTheorems, TLAPS

(* The entries a tier holds are entries, and it holds finitely many.       *)
LEMMA ResidentEntries ==
    ASSUME NEW tier \in Tier
    PROVE  /\ Resident(tier) \subseteq Key
           /\ \A D \in SUBSET Resident(tier) : IsFiniteSet(D)
           /\ \A k \in Resident(tier) :
                 /\ tier.item[k] \in Entry
                 /\ tier.item[k].val \in Val
                 /\ Size[tier.item[k].val] \in Nat
<1>1. Resident(tier) \subseteq Key
  BY DEF Resident
<1>2. \A D \in SUBSET Resident(tier) : IsFiniteSet(D)
  BY <1>1, KeyAssumption, FS_Subset
<1>3. \A k \in Resident(tier) : tier.item[k] \in Entry
  BY DEF Resident, Tier
<1>4. \A k \in Resident(tier) : tier.item[k].val \in Val
  BY <1>3 DEF Entry
<1> QED
  BY <1>1, <1>2, <1>3, <1>4, SizeAssumption

(***************************************************************************)
(* A listing of D (keys, pop_expired and the evictions of set) is a        *)
(* sequence with all of D in it and nothing else.                          *)
(***************************************************************************)
LEMMA ListingElements ==
    ASSUME NEW tier, Ordered(tier), NEW D \in SUBSET Resident(tier),
           IsFiniteSet(D), NEW s \in Listings(tier, D)
    PROVE  /\ s \in Seq(D)
           /\ {s[i] : i \in DOMAIN s} = D
<1> DEFINE n == Cardinality(D)
<1>1. n \in Nat
  BY FS_CardinalityType
<1>2. s \in [1 .. n -> D]
  BY DEF Listings
<1>3. s \in Seq(D)
  BY <1>1, <1>2
<1>4. \A i, j \in 1 .. n : i < j => <<s[i], s[j]>> \in tier.older
  BY <1>2 DEF Listings
<1>5. \A i, j \in 1 .. n : i # j => s[i] # s[j]
  <2> SUFFICES ASSUME NEW i \in 1 .. n, NEW j \in 1 .. n, i # j, s[i] = s[j]
               PROVE  FALSE
    OBVIOUS
  <2>1. i < j \/ j < i
    BY <1>1
  <2>2. <<s[i], s[i]>> \in tier.older
    BY <1>4, <2>1
  <2> QED
    BY <1>2, <2>2 DEF Ordered
<1>6. s \in Injection(1 .. n, D)
  BY <1>2, <1>5 DEF Injection, IsInjective
<1>7. IsFiniteSet(1 .. n) /\ Cardinality(1 .. n) = n
  BY <1>1, FS_Interval
<1>8. s \in Surjection(1 .. n, D)
  BY <1>6, <1>7, FS_Injection
<1> QED
  BY <1>2, <1>3, <1>8 DEF Surjection

(* The listed keys with their values: pairs, one for each key of D.        *)
LEMMA ListedValues ==
    ASSUME NEW tier \in Tier, Ordered(tier), NEW D \in SUBSET Resident(tier),
           NEW s \in Listings(tier, D)
    PROVE  LET h == WithValues(tier, s)
           IN  /\ h \in Seq(Key \X Val)
               /\ {h[i] : i \in DOMAIN h} = {<<k, tier.item[k].val>> : k \in D}
<1> DEFINE h == WithValues(tier, s)
<1>1. s \in Seq(D) /\ {s[i] : i \in DOMAIN s} = D
  BY ResidentEntries, ListingElements
<1>2. \A k \in D : k \in Key /\ tier.item[k].val \in Val
  BY ResidentEntries
<1>3. h = [i \in DOMAIN s |-> <<s[i], tier.item[s[i]].val>>]
  BY DEF WithValues
<1>4. h \in Seq(Key \X Val)
  <2>1. Len(s) \in Nat /\ DOMAIN s = 1 .. Len(s) /\ \A i \in 1 .. Len(s) : s[i] \in D
    BY <1>1
  <2>2. h \in [1 .. Len(s) -> Key \X Val]
    BY <1>2, <1>3, <2>1
  <2> QED
    BY <2>1, <2>2
<1>5. {h[i] : i \in DOMAIN h} = {<<k, tier.item[k].val>> : k \in D}
  BY <1>1, <1>3
<1> QED
  BY <1>4, <1>5

(* The bytes of a set of entries are a natural number.                     *)
LEMMA BytesType ==
    ASSUME NEW tier \in Tier, NEW D \in SUBSET Resident(tier)
    PROVE  /\ IsFiniteSet(UNION {{k} \X (1 .. Size[tier.item[k].val]) : k \in D})
           /\ Bytes(tier, D) \in Nat
<1> DEFINE Of(k) == {k} \X (1 .. Size[tier.item[k].val])
           All == {Of(k) : k \in D}
<1>1. IsFiniteSet(D)
  BY ResidentEntries
<1>2. IsFiniteSet(All)
  <2>1. [k \in D |-> Of(k)] \in Surjection(D, All)
    BY DEF Surjection
  <2> QED
    BY <1>1, <2>1, FS_Surjection
<1>3. ASSUME NEW k \in D PROVE IsFiniteSet(Of(k))
  <2>1. Size[tier.item[k].val] \in Nat
    BY ResidentEntries
  <2>2. IsFiniteSet({k})
    BY FS_Singleton
  <2>3. IsFiniteSet(1 .. Size[tier.item[k].val])
    BY <2>1, FS_Interval
  <2> QED
    BY <2>2, <2>3, FS_Product
<1>4. IsFiniteSet(UNION All)
  BY <1>2, <1>3, FS_UNION
<1> QED
  BY <1>4, FS_CardinalityType DEF Bytes

(* Bytes of disjoint sets of entries add up.                               *)
LEMMA BytesAdd ==
    ASSUME NEW tier \in Tier, NEW D \in SUBSET Resident(tier),
           NEW E \in SUBSET Resident(tier), D \cap E = {}
    PROVE  Bytes(tier, D \cup E) = Bytes(tier, D) + Bytes(tier, E)
<1> DEFINE X == UNION {{k} \X (1 .. Size[tier.item[k].val]) : k \in D}
           Y == UNION {{k} \X (1 .. Size[tier.item[k].val]) : k \in E}
<1>1. /\ IsFiniteSet(X) /\ IsFiniteSet(Y)
      /\ Bytes(tier, D) = Cardinality(X) /\ Bytes(tier, E) = Cardinality(Y)
      /\ Bytes(tier, D) \in Nat /\ Bytes(tier, E) \in Nat
  BY BytesType DEF Bytes
<1>2. Bytes(tier, D \cup E) = Cardinality(X \cup Y)
  <2>1. UNION {{k} \X (1 .. Size[tier.item[k].val]) : k \in D \cup E} = X \cup Y
    OBVIOUS
  <2> QED
    BY <2>1 DEF Bytes
<1>3. X \cap Y = {}
  OBVIOUS
<1> HIDE DEF X, Y
<1>4. Cardinality(X \cap Y) = 0
  BY <1>3, FS_EmptySet
<1>5. Cardinality(X \cup Y) = Cardinality(X) + Cardinality(Y) - Cardinality(X \cap Y)
  BY <1>1, FS_Union
<1> QED
  BY <1>1, <1>2, <1>4, <1>5

(* One entry has the bytes of its value.                                   *)
LEMMA BytesOfOne ==
    ASSUME NEW tier \in Tier, NEW k \in Resident(tier)
    PROVE  Bytes(tier, {k}) = Size[tier.item[k].val]
<1> DEFINE n == Size[tier.item[k].val]
<1>1. n \in Nat
  BY ResidentEntries
<1>2. Bytes(tier, {k}) = Cardinality({k} \X (1 .. n))
  <2>1. UNION {{j} \X (1 .. Size[tier.item[j].val]) : j \in {k}} = {k} \X (1 .. n)
    OBVIOUS
  <2> QED
    BY <2>1 DEF Bytes
<1>3. IsFiniteSet({k}) /\ Cardinality({k}) = 1
  BY FS_Singleton
<1> HIDE DEF n
<1>4. IsFiniteSet(1 .. n) /\ Cardinality(1 .. n) = n
  BY <1>1, FS_Interval
<1>5. Cardinality({k} \X (1 .. n)) = 1 * n
  BY <1>3, <1>4, FS_Product
<1> QED
  BY <1>1, <1>2, <1>5 DEF n

(* Bytes depend on the values of the entries only.                         *)
LEMMA BytesAgree ==
    ASSUME NEW one, NEW other, NEW D,
           \A k \in D : one.item[k].val = other.item[k].val
    PROVE  Bytes(one, D) = Bytes(other, D)
<1>1. {{k} \X (1 .. Size[one.item[k].val]) : k \in D}
         = {{k} \X (1 .. Size[other.item[k].val]) : k \in D}
  OBVIOUS
<1> QED
  BY <1>1 DEF Bytes

(* More entries have no fewer bytes.                                       *)
LEMMA BytesMonotonic ==
    ASSUME NEW tier \in Tier, NEW E \in SUBSET Resident(tier), NEW D \in SUBSET E
    PROVE  Bytes(tier, D) <= Bytes(tier, E)
<1>1. Bytes(tier, D \cup (E \ D)) = Bytes(tier, D) + Bytes(tier, E \ D)
  BY BytesAdd
<1>2. D \cup (E \ D) = E
  OBVIOUS
<1>3. Bytes(tier, E) = Bytes(tier, D) + Bytes(tier, E \ D)
  BY <1>1, <1>2, Zenon
<1>4. D \in SUBSET Resident(tier) /\ E \ D \in SUBSET Resident(tier)
  OBVIOUS
<1>5. Bytes(tier, D) \in Nat /\ Bytes(tier, E \ D) \in Nat
  BY <1>4, BytesType
<1> QED
  BY <1>3, <1>5
-----------------------------------------------------------------------------
(***************************************************************************)
(* Every operation leaves a tier that is well formed and in order.         *)
(***************************************************************************)
LEMMA EmptyTier ==
    /\ Empty \in Tier
    /\ Ordered(Empty)
    /\ Resident(Empty) = {}
    /\ Bytes(Empty, {}) = 0
<1>1. Empty \in Tier
  BY DEF Empty, Tier
<1>2. Resident(Empty) = {}
  BY DEF Empty, Resident
<1>3. Ordered(Empty)
  BY <1>2 DEF Empty, Ordered
<1>4. UNION {{k} \X (1 .. Size[Empty.item[k].val]) : k \in {}} = {}
  OBVIOUS
<1> QED
  BY <1>1, <1>2, <1>3, <1>4, FS_EmptySet DEF Bytes

(* Dropping entries drops just these, and deducts their bytes.             *)
LEMMA WithoutTier ==
    ASSUME NEW tier \in Tier, Ordered(tier), NEW D \in SUBSET Key
    PROVE  /\ Without(tier, D) \in Tier
           /\ Ordered(Without(tier, D))
           /\ Resident(Without(tier, D)) = Resident(tier) \ D
           /\ \A k \in Key \ D : Without(tier, D).item[k] = tier.item[k]
           /\ Without(tier, D).older \subseteq tier.older
<1> DEFINE new == Without(tier, D)
<1>1. /\ new.item = [k \in Key |-> IF k \in D THEN NoEntry ELSE tier.item[k]]
      /\ new.older = Among(tier.older, Resident(tier) \ D)
      /\ new.size = tier.size - Bytes(tier, D \cap Resident(tier))
  BY DEF Without
<1>2. new.item \in [Key -> Entry \cup {NoEntry}]
  BY <1>1 DEF Tier
<1>3. new.older \subseteq tier.older
  BY <1>1 DEF Among
<1>4. new.size \in Int
  <2>1. D \cap Resident(tier) \in SUBSET Resident(tier)
    OBVIOUS
  <2>2. Bytes(tier, D \cap Resident(tier)) \in Nat
    BY <2>1, BytesType
  <2>3. tier.size \in Int
    BY DEF Tier
  <2> QED
    BY <1>1, <2>2, <2>3
<1>5. new \in Tier
  BY <1>2, <1>3, <1>4 DEF Tier, Without
<1>6. Resident(new) = Resident(tier) \ D
  BY <1>1 DEF Resident
<1>7. Ordered(new)
  BY <1>1, <1>6 DEF Ordered, Among
<1> QED
  BY <1>1, <1>3, <1>5, <1>6, <1>7

(* Writing an entry at the end changes that key alone.                     *)
LEMMA AtEndTier ==
    ASSUME NEW tier \in Tier, Ordered(tier), NEW k \in Key, NEW e \in Entry
    PROVE  /\ AtEnd(tier, k, e) \in Tier
           /\ Ordered(AtEnd(tier, k, e))
           /\ Resident(AtEnd(tier, k, e)) = Resident(tier) \cup {k}
           /\ AtEnd(tier, k, e).item[k] = e
           /\ \A j \in Key \ {k} : AtEnd(tier, k, e).item[j] = tier.item[j]
           /\ AtEnd(tier, k, e).size = tier.size
<1> DEFINE new == AtEnd(tier, k, e)
           others == Resident(tier) \ {k}
<1>1. /\ tier.item \in [Key -> Entry \cup {NoEntry}]
      /\ tier.older \in SUBSET (Key \X Key)
      /\ tier.size \in Int
      /\ others \subseteq Key
  BY DEF Tier, Resident
<1>2. /\ new = [item |-> [tier.item EXCEPT ![k] = e],
                 older |-> Among(tier.older, others) \cup (others \X {k}),
                 size |-> tier.size]
      /\ new.item = [tier.item EXCEPT ![k] = e]
      /\ new.older = Among(tier.older, others) \cup (others \X {k})
      /\ new.size = tier.size
  BY DEF AtEnd
<1>3. Among(tier.older, others) \subseteq Key \X Key
  BY <1>1 DEF Among
<1>4. new \in Tier
  <2>1. [tier.item EXCEPT ![k] = e] \in [Key -> Entry \cup {NoEntry}]
    BY <1>1
  <2>2. Among(tier.older, others) \cup (others \X {k}) \in SUBSET (Key \X Key)
    BY <1>1, <1>3
  <2> QED
    BY <1>1, <1>2, <2>1, <2>2 DEF Tier
<1>5. Resident(new) = Resident(tier) \cup {k}
  BY <1>1, <1>2, NoEntryAssumption DEF Resident
<1>6. Ordered(new)
  <2> DEFINE R == Resident(tier) \cup {k}
             O == Among(tier.older, others) \cup (others \X {k})
  <2>1. O \subseteq R \X R
    BY <1>1 DEF Among
  <2>2. \A j \in R : <<j, j>> \notin O
    BY DEF Among, Ordered
  <2>3. \A i, j \in R : i # j => (<<i, j>> \in O <=> <<j, i>> \notin O)
    BY DEF Among, Ordered
  <2>4. \A h, i, j \in R : <<h, i>> \in O /\ <<i, j>> \in O => <<h, j>> \in O
    BY DEF Among, Ordered
  <2> QED
    BY <1>2, <1>5, <2>1, <2>2, <2>3, <2>4 DEF Ordered
<1> QED
  BY <1>1, <1>2, <1>4, <1>5, <1>6

(* get: the same values, the same size.                                    *)
LEMMA TouchedTier ==
    ASSUME NEW tier \in Tier, Ordered(tier), NEW k \in Resident(tier)
    PROVE  /\ Touched(tier, k) \in Tier
           /\ Ordered(Touched(tier, k))
           /\ Resident(Touched(tier, k)) = Resident(tier)
           /\ \A j \in Resident(tier) : Touched(tier, k).item[j].val = tier.item[j].val
           /\ Touched(tier, k).size = tier.size
<1> DEFINE e == [tier.item[k] EXCEPT !.left = tier.item[k].ttl]
<1>1. k \in Key /\ Resident(tier) \subseteq Key /\ tier.item[k] \in Entry
  BY ResidentEntries
<1>2. e \in Entry /\ e.val = tier.item[k].val
  BY <1>1, TTLAssumption DEF Entry
<1>3. Touched(tier, k) = AtEnd(tier, k, e)
  BY DEF Touched
<1> HIDE DEF e
<1>4. Resident(tier) \cup {k} = Resident(tier)
  OBVIOUS
<1>5. /\ AtEnd(tier, k, e) \in Tier
      /\ Ordered(AtEnd(tier, k, e))
      /\ Resident(AtEnd(tier, k, e)) = Resident(tier) \cup {k}
      /\ AtEnd(tier, k, e).item[k] = e
      /\ \A j \in Key \ {k} : AtEnd(tier, k, e).item[j] = tier.item[j]
      /\ AtEnd(tier, k, e).size = tier.size
  BY <1>1, <1>2, AtEndTier
<1>6. \A j \in Resident(tier) : AtEnd(tier, k, e).item[j].val = tier.item[j].val
  BY <1>1, <1>2, <1>5
<1> QED
  BY <1>3, <1>4, <1>5, <1>6

(***************************************************************************)
(* set: the victims are gone, k has its new value, the rest is untouched.  *)
(***************************************************************************)
LEMMA StoredTier ==
    ASSUME NEW tier \in Tier, Ordered(tier), NEW k \in Key, NEW v \in Val,
           NEW ttl \in TTL \cup {NoTTL}, NEW D \in SUBSET Resident(tier)
    PROVE  /\ Stored(tier, k, v, ttl, D) \in Tier
           /\ Ordered(Stored(tier, k, v, ttl, D))
           /\ Resident(Stored(tier, k, v, ttl, D)) = (Resident(tier) \ D) \cup {k}
           /\ Stored(tier, k, v, ttl, D).item[k].val = v
           /\ \A j \in Key \ (D \cup {k}) :
                  Stored(tier, k, v, ttl, D).item[j] = tier.item[j]
           /\ Charged(tier, k) \in Int
           /\ Stored(tier, k, v, ttl, D).size
                 = Charged(tier, k) - Bytes(tier, D) + Size[v]
<1> DEFINE e == [val |-> v, ttl |-> Lifetime(ttl), left |-> Lifetime(ttl)]
           mid == AtEnd(Without(tier, D), k, e)
           n == Charged(tier, k) - Bytes(tier, D) + Size[v]
<1>1. Lifetime(ttl) \in TTL \cup {DefaultTTL} /\ Lifetime(ttl) \in Int
  BY TTLAssumption DEF Lifetime
<1>2. e \in Entry /\ e.val = v
  BY <1>1 DEF Entry
<1>3. D \in SUBSET Key
  BY ResidentEntries
<1> HIDE DEF e
<1>4. /\ mid \in Tier
      /\ Ordered(mid)
      /\ Resident(mid) = (Resident(tier) \ D) \cup {k}
      /\ mid.item[k] = e
      /\ \A j \in Key \ (D \cup {k}) : mid.item[j] = tier.item[j]
  BY <1>2, <1>3, WithoutTier, AtEndTier
<1>5. Charged(tier, k) \in Int
  <2>1. {k} \cap Resident(tier) \in SUBSET Resident(tier)
    OBVIOUS
  <2>2. Bytes(tier, {k} \cap Resident(tier)) \in Nat /\ tier.size \in Int
    BY <2>1, BytesType DEF Tier
  <2> QED
    BY <2>2 DEF Charged
<1>6. n \in Int
  <2>1. Bytes(tier, D) \in Nat
    BY BytesType
  <2>2. Size[v] \in Nat
    BY SizeAssumption
  <2> QED
    BY <1>5, <2>1, <2>2
<1> DEFINE new == [mid EXCEPT !.size = n]
<1>7. Stored(tier, k, v, ttl, D) = new
  BY DEF Stored, e
<1> HIDE DEF mid, n
<1>8. new \in Tier /\ new.item = mid.item /\ new.older = mid.older /\ new.size = n
  BY <1>4, <1>6 DEF Tier
<1>9. Resident(new) = Resident(mid)
  BY <1>8 DEF Resident
<1>10. Ordered(new)
  BY <1>4, <1>8, <1>9 DEF Ordered
<1> QED
  BY <1>2, <1>4, <1>5, <1>7, <1>8, <1>9, <1>10 DEF n

(* The clock takes no entry away and changes no value.                     *)
LEMMA AgedTier ==
    ASSUME NEW tier \in Tier, Ordered(tier), NEW d \in Nat
    PROVE  /\ Aged(tier, d) \in Tier
           /\ Ordered(Aged(tier, d))
           /\ Resident(Aged(tier, d)) = Resident(tier)
           /\ \A k \in Resident(tier) :
                 /\ Aged(tier, d).item[k].val = tier.item[k].val
                 /\ Aged(tier, d).item[k].ttl = tier.item[k].ttl
                 /\ Aged(tier, d).item[k].left
                       = IF tier.item[k].left - d < 0 THEN -1 ELSE tier.item[k].left - d
           /\ Aged(tier, d).older = tier.older
           /\ Aged(tier, d).size = tier.size
<1> DEFINE older(e) == [e EXCEPT !.left = IF e.left - d < 0 THEN -1 ELSE e.left - d]
           items == [k \in Key |-> IF tier.item[k] = NoEntry THEN NoEntry
                                   ELSE older(tier.item[k])]
           new == Aged(tier, d)
<1>1. new = [tier EXCEPT !.item = items]
  BY DEF Aged
<1>2. new.item = items /\ new.older = tier.older /\ new.size = tier.size
  BY <1>1 DEF Tier
<1>3. ASSUME NEW e \in Entry
      PROVE  /\ older(e) \in Entry
             /\ older(e).val = e.val
             /\ older(e).ttl = e.ttl
             /\ older(e).left = IF e.left - d < 0 THEN -1 ELSE e.left - d
  BY DEF Entry
<1> HIDE DEF older
<1>4. \A k \in Resident(tier) : tier.item[k] \in Entry /\ k \in Key
  BY ResidentEntries
<1>5. \A k \in Resident(tier) : items[k] = older(tier.item[k])
  BY <1>4 DEF Resident
<1>6. items \in [Key -> Entry \cup {NoEntry}]
  BY <1>3, <1>4 DEF Resident
<1>7. new \in Tier
  BY <1>1, <1>6 DEF Tier
<1>8. Resident(new) = Resident(tier)
  <2>1. \A k \in Key : items[k] # NoEntry <=> tier.item[k] # NoEntry
    BY <1>3, <1>4, NoEntryAssumption DEF Resident
  <2> QED
    BY <1>2, <2>1 DEF Resident
<1>9. Ordered(new)
  BY <1>2, <1>8 DEF Ordered
<1>10. ASSUME NEW k \in Resident(tier)
       PROVE  /\ new.item[k].val = tier.item[k].val
              /\ new.item[k].ttl = tier.item[k].ttl
              /\ new.item[k].left
                    = IF tier.item[k].left - d < 0 THEN -1 ELSE tier.item[k].left - d
  <2>1. new.item[k] = older(tier.item[k]) /\ tier.item[k] \in Entry
    BY <1>2, <1>4, <1>5
  <2> HIDE DEF new, items
  <2> QED
    BY <1>3, <2>1
<1> HIDE DEF new
<1>11. \A k \in Resident(tier) :
          /\ new.item[k].val = tier.item[k].val
          /\ new.item[k].ttl = tier.item[k].ttl
          /\ new.item[k].left
                = IF tier.item[k].left - d < 0 THEN -1 ELSE tier.item[k].left - d
  BY <1>10
<1>12. new.older = tier.older /\ new.size = tier.size
  BY <1>2
<1> QED
  BY <1>7, <1>8, <1>9, <1>11, <1>12 DEF new
-----------------------------------------------------------------------------
(***************************************************************************)
(* Dropping entries changes the size counted by the bytes dropped: the     *)
(* count is as far from the bytes held as before.                          *)
(***************************************************************************)
LEMMA WithoutCounted ==
    ASSUME NEW tier \in Tier, Ordered(tier), NEW D \in SUBSET Key
    PROVE  LET new == Without(tier, D)
           IN  /\ Bytes(new, Resident(new)) - new.size
                     = Bytes(tier, Resident(tier)) - tier.size
               /\ new.size <= tier.size
<1> DEFINE R == Resident(tier)
           G == D \cap R
           new == Without(tier, D)
<1>1. /\ Resident(new) = R \ D
      /\ \A k \in R \ D : new.item[k] = tier.item[k]
  BY WithoutTier, ResidentEntries
<1>2. Bytes(new, R \ D) = Bytes(tier, R \ D)
  BY <1>1, BytesAgree
<1>3. Bytes(tier, (R \ D) \cup G) = Bytes(tier, R \ D) + Bytes(tier, G)
  BY BytesAdd
<1>4. (R \ D) \cup G = R
  OBVIOUS
<1>5. Bytes(tier, R) = Bytes(tier, R \ D) + Bytes(tier, G)
  BY <1>3, <1>4, Zenon
<1>6. G \in SUBSET R /\ R \ D \in SUBSET R
  OBVIOUS
<1>7. Bytes(tier, G) \in Nat /\ Bytes(tier, R \ D) \in Nat /\ tier.size \in Int
  BY <1>6, BytesType DEF Tier
<1>8. new.size = tier.size - Bytes(tier, G)
  BY DEF Without
<1> HIDE DEF new, R, G
<1>9. /\ Bytes(new, Resident(new)) - new.size = Bytes(tier, R) - tier.size
      /\ new.size <= tier.size
  BY <1>1, <1>2, <1>5, <1>7, <1>8
<1> QED
  BY <1>9 DEF new, R

(***************************************************************************)
(* A set puts the count further behind by the size of the entry it         *)
(* replaces when it evicts that entry too, and else leaves it as far from  *)
(* the bytes held as it was.                                               *)
(***************************************************************************)
LEMMA StoredCounted ==
    ASSUME NEW tier \in Tier, Ordered(tier), NEW k \in Key, NEW v \in Val,
           NEW ttl \in TTL \cup {NoTTL}, NEW D \in SUBSET Resident(tier)
    PROVE  LET new == Stored(tier, k, v, ttl, D)
           IN  Bytes(new, Resident(new)) - new.size
                  = Bytes(tier, Resident(tier)) - tier.size
                       + IF k \in D THEN Size[tier.item[k].val] ELSE 0
<1> DEFINE R == Resident(tier)
           old == {k} \cap R            \* the replaced entry, if any
           stay == (R \ D) \ {k}        \* the entries that are left alone
           twice == IF k \in D THEN Size[tier.item[k].val] ELSE 0
           new == Stored(tier, k, v, ttl, D)
<1>1. /\ new \in Tier
      /\ Resident(new) = (R \ D) \cup {k}
      /\ new.item[k].val = v
      /\ \A j \in stay : new.item[j] = tier.item[j]
      /\ new.size = Charged(tier, k) - Bytes(tier, D) + Size[v]
  BY StoredTier, ResidentEntries
<1> HIDE DEF new
<1>2. Bytes(new, Resident(new)) = Bytes(tier, stay) + Size[v]
  <2>1. Resident(new) = stay \cup {k} /\ stay \cap {k} = {}
    BY <1>1
  <2>2. Bytes(new, stay \cup {k}) = Bytes(new, stay) + Bytes(new, {k})
    BY <1>1, <2>1, BytesAdd
  <2>3. Bytes(new, {k}) = Size[v]
    BY <1>1, BytesOfOne
  <2>4. Bytes(new, stay) = Bytes(tier, stay)
    BY <1>1, BytesAgree
  <2> QED
    BY <2>1, <2>2, <2>3, <2>4
<1>3. /\ old \in SUBSET R /\ stay \in SUBSET R /\ old \ D \in SUBSET R
      /\ Bytes(tier, stay) \in Nat /\ Bytes(tier, D) \in Nat
      /\ Bytes(tier, old) \in Nat /\ Bytes(tier, old \ D) \in Nat
  <2>1. old \in SUBSET R /\ stay \in SUBSET R /\ old \ D \in SUBSET R
    OBVIOUS
  <2> QED
    BY <2>1, BytesType
<1>4. Bytes(tier, R) = Bytes(tier, stay) + Bytes(tier, D) + Bytes(tier, old \ D)
  <2>1. Bytes(tier, stay \cup (D \cup (old \ D)))
           = Bytes(tier, stay) + Bytes(tier, D \cup (old \ D))
    BY BytesAdd
  <2>2. stay \cup (D \cup (old \ D)) = R
    OBVIOUS
  <2>3. Bytes(tier, R) = Bytes(tier, stay) + Bytes(tier, D \cup (old \ D))
    BY <2>1, <2>2, Zenon
  <2>4. Bytes(tier, D \cup (old \ D)) = Bytes(tier, D) + Bytes(tier, old \ D)
    BY BytesAdd
  <2> QED
    BY <1>3, <2>3, <2>4
<1>5. Bytes(tier, old) = Bytes(tier, old \ D) + twice /\ twice \in Nat
  <2>1. Bytes(tier, {}) = 0
    BY FS_EmptySet DEF Bytes
  <2>2. CASE k \in D
    <3>1. old = {k} /\ old \ D = {}
      BY <2>2
    <3>2. Bytes(tier, {k}) = Size[tier.item[k].val]
      BY <2>2, BytesOfOne
    <3>3. Size[tier.item[k].val] \in Nat
      BY <2>2, ResidentEntries
    <3>4. Bytes(tier, old) = Bytes(tier, {k}) /\ Bytes(tier, old \ D) = Bytes(tier, {})
      BY <3>1, Zenon
    <3> HIDE DEF old
    <3> QED
      BY <2>1, <2>2, <3>2, <3>3, <3>4
  <2>3. CASE k \notin D
    <3>1. old \ D = old
      BY <2>3
    <3>2. Bytes(tier, old \ D) = Bytes(tier, old)
      BY <3>1, Zenon
    <3> HIDE DEF old
    <3> QED
      BY <1>3, <2>3, <3>2
  <2> QED
    BY <2>2, <2>3
<1>6. Charged(tier, k) = tier.size - Bytes(tier, old)
  BY DEF Charged
<1>7. Size[v] \in Nat /\ tier.size \in Int
  BY SizeAssumption DEF Tier
<1>8. Bytes(new, Resident(new)) - new.size = Bytes(tier, R) - tier.size + twice
  <2> HIDE DEF R, old, stay, twice
  <2> QED
    BY <1>1, <1>2, <1>3, <1>4, <1>5, <1>6, <1>7
<1> QED
  BY <1>8 DEF new, R, twice

(***************************************************************************)
(* The loop of set stops when the value fits, or with the store empty.     *)
(***************************************************************************)
LEMMA StoredFitsOrIsAlone ==
    ASSUME NEW tier \in Tier, Ordered(tier), NEW k \in Key, NEW v \in Val,
           NEW ttl \in TTL \cup {NoTTL}, NEW D \in Victims(tier, k, v)
    PROVE  \/ Stored(tier, k, v, ttl, D).size <= MaxSize
           \/ Resident(Stored(tier, k, v, ttl, D)) = {k}
<1>1. D \in SUBSET Resident(tier) /\ Enough(tier, k, v, D)
  BY DEF Victims, OldestFirst
<1>2. /\ Resident(Stored(tier, k, v, ttl, D)) = (Resident(tier) \ D) \cup {k}
      /\ Stored(tier, k, v, ttl, D).size = Charged(tier, k) - Bytes(tier, D) + Size[v]
  BY <1>1, StoredTier
<1>3. CASE Charged(tier, k) - Bytes(tier, D) + Size[v] <= MaxSize
  BY <1>2, <1>3
<1>4. CASE D = Resident(tier)
  BY <1>2, <1>4
<1> QED
  BY <1>1, <1>3, <1>4 DEF Enough
=============================================================================
