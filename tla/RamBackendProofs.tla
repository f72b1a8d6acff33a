-------------------------- MODULE RamBackendProofs --------------------------
(***************************************************************************)
(* The properties of RamBackend hold for all keys, values, sizes, ttls and *)
(* capacities.  The inductive invariant adds to the invariants how the     *)
(* tier's bookkeeping follows the uses: the order of the entries is the    *)
(* order of their last use, and the time left is the ttl less the time     *)
(* since.                                                                  *)
(***************************************************************************)
EXTENDS RamBackend, RamStoreProofs

OrderIsRecency == ram.older \subseteq recent

TimeLeft ==
    \A k \in Resident(ram) : LET e == ram.item[k] IN
        e.ttl # 0 => e.left = IF idle[k] > e.ttl THEN -1 ELSE e.ttl - idle[k]

Inv ==
    /\ TypeOK
    /\ Ordered(ram)
    /\ SizeNeverOverstated
    /\ OverCapacityOnlyAlone
    /\ OrderIsRecency
    /\ TimeLeft

(* Nothing is held, counted or used to begin with.                         *)
LEMMA InitInv == Init => Inv
<1> SUFFICES ASSUME Init PROVE Inv
  OBVIOUS
<1>1. ram = Empty /\ handed = <<>> /\ recent = {} /\ idle = [k \in Key |-> 0]
  BY DEF Init
<1>2. 0 \in 0 .. MaxIdle
  BY MaxIdleAssumption
<1>3. TypeOK
  BY <1>1, <1>2, EmptyTier DEF TypeOK
<1>4. Empty.size = 0 /\ Empty.older = {}
  BY DEF Empty
<1>5. Ordered(ram) /\ SizeNeverOverstated /\ OverCapacityOnlyAlone
  BY <1>1, <1>4, EmptyTier
     DEF SizeNeverOverstated, OverCapacityOnlyAlone
<1>6. OrderIsRecency /\ TimeLeft
  BY <1>1, <1>4, EmptyTier DEF OrderIsRecency, TimeLeft
<1> QED
  BY <1>3, <1>5, <1>6 DEF Inv

(***************************************************************************)
(* What a set does, from Inv: its victims are oldest first and are handed  *)
(* on, each with its value.                                                *)
(***************************************************************************)
LEMMA SetFacts ==
    ASSUME Inv, NEW k \in Key, NEW v \in Val, NEW ttl \in TTL \cup {NoTTL},
           Set(k, v, ttl)
    PROVE  \E D \in Victims(ram, k, v) :
              /\ D \in SUBSET Resident(ram)
              /\ ram' = Stored(ram, k, v, ttl, D)
              /\ handed' \in Seq(Key \X Val)
              /\ Given' = {<<j, ram.item[j].val>> : j \in D}
<1>1. PICK D \in Victims(ram, k, v) : \E s \in Listings(ram, D) :
         ram' = Stored(ram, k, v, ttl, D) /\ handed' = WithValues(ram, s)
  BY DEF Set
<1>2. PICK s \in Listings(ram, D) : handed' = WithValues(ram, s)
  BY <1>1
<1>3. D \in SUBSET Resident(ram)
  BY DEF Victims, OldestFirst
<1>4. ram \in Tier /\ Ordered(ram)
  BY DEF Inv, TypeOK
<1>5. handed' \in Seq(Key \X Val) /\ Given' = {<<j, ram.item[j].val>> : j \in D}
  BY <1>2, <1>3, <1>4, ListedValues DEF Given
<1> QED
  BY <1>1, <1>3, <1>5

(* A sweep hands on the expired entries, each with its value.              *)
LEMMA PopFacts ==
    ASSUME Inv, PopExpired
    PROVE  /\ ram' = Without(ram, ExpiredKeys(ram))
           /\ ExpiredKeys(ram) \in SUBSET Resident(ram)
           /\ handed' \in Seq(Key \X Val)
           /\ Given' = {<<j, ram.item[j].val>> : j \in ExpiredKeys(ram)}
<1> DEFINE D == ExpiredKeys(ram)
<1>1. PICK s \in Listings(ram, D) :
         ram' = Without(ram, D) /\ handed' = WithValues(ram, s)
  BY DEF PopExpired
<1>2. D \in SUBSET Resident(ram)
  BY DEF ExpiredKeys
<1>3. ram \in Tier /\ Ordered(ram)
  BY DEF Inv, TypeOK
<1>4. handed' \in Seq(Key \X Val) /\ Given' = {<<j, ram.item[j].val>> : j \in D}
  BY <1>1, <1>2, <1>3, ListedValues DEF Given
<1> QED
  BY <1>1, <1>2, <1>4

(* Any step that only drops entries keeps the invariant.                   *)
LEMMA DropInv ==
    ASSUME Inv, NEW D \in SUBSET Key, ram' = Without(ram, D),
           handed' \in Seq(Key \X Val), UNCHANGED <<recent, idle>>
    PROVE  Inv'
<1>1. /\ ram \in Tier /\ Ordered(ram)
      /\ ram.size <= Bytes(ram, Resident(ram))
      /\ recent \in SUBSET (Key \X Key) /\ idle \in [Key -> 0 .. MaxIdle]
  BY DEF Inv, TypeOK, SizeNeverOverstated
<1>2. /\ ram' \in Tier /\ Ordered(ram')
      /\ Resident(ram') = Resident(ram) \ D
      /\ \A k \in Resident(ram') : k \in Key /\ ram'.item[k] = ram.item[k]
      /\ ram'.older \subseteq ram.older
  BY <1>1, WithoutTier, ResidentEntries
<1>3. /\ ram'.size <= Bytes(ram', Resident(ram'))
      /\ ram'.size <= ram.size
      /\ ram'.size \in Int /\ ram.size \in Int /\ MaxSize \in Nat
  <2>1. /\ Bytes(ram', Resident(ram')) - ram'.size = Bytes(ram, Resident(ram)) - ram.size
        /\ ram'.size <= ram.size
    BY <1>1, WithoutCounted
  <2>2. Bytes(ram', Resident(ram')) \in Nat /\ Bytes(ram, Resident(ram)) \in Nat
    BY <1>1, <1>2, BytesType
  <2>3. ram'.size \in Int /\ ram.size \in Int /\ MaxSize \in Nat
    BY <1>1, <1>2, SizeAssumption DEF Tier
  <2> QED
    BY <1>1, <2>1, <2>2, <2>3
<1>4. OverCapacityOnlyAlone'
  <2>1. ram.size > MaxSize => \A j, k \in Resident(ram) : j = k
    BY DEF Inv, OverCapacityOnlyAlone
  <2>2. ram'.size > MaxSize => ram.size > MaxSize
    BY <1>3
  <2> QED
    BY <1>2, <2>1, <2>2 DEF OverCapacityOnlyAlone
<1>5. OrderIsRecency'
  BY <1>2 DEF Inv, OrderIsRecency
<1>6. TimeLeft'
  BY <1>2 DEF Inv, TimeLeft
<1> QED
  BY <1>1, <1>2, <1>3, <1>4, <1>5, <1>6
     DEF Inv, TypeOK, SizeNeverOverstated

(* A use of k puts k last in the order of uses, and idle for no time.      *)
LEMMA UsedFacts ==
    ASSUME Inv, NEW k \in Key, Used(k)
    PROVE  /\ recent' \in SUBSET (Key \X Key)
           /\ idle' \in [Key -> 0 .. MaxIdle]
           /\ idle'[k] = 0
           /\ \A j \in Key \ {k} : idle'[j] = idle[j]
           /\ \A i, j \in Key : <<i, j>> \in recent /\ i # k /\ j # k
                 => <<i, j>> \in recent'
           /\ \A j \in Key \ {k} : <<j, k>> \in recent'
<1>1. recent \in SUBSET (Key \X Key) /\ idle \in [Key -> 0 .. MaxIdle]
  BY DEF Inv, TypeOK
<1>2. 0 \in 0 .. MaxIdle
  BY MaxIdleAssumption
<1> QED
  BY <1>1, <1>2 DEF Used, Among

(* A hit moves its entry to the end.                                       *)
LEMMA HitInv ==
    ASSUME Inv, NEW k \in Key, GetHit(k)
    PROVE  Inv'
<1>1. /\ ram \in Tier /\ Ordered(ram)
      /\ ram.size <= Bytes(ram, Resident(ram))
      /\ k \in Resident(ram) /\ ram' = Touched(ram, k) /\ handed' = <<>> /\ Used(k)
  BY DEF Inv, TypeOK, SizeNeverOverstated, GetHit, LiveKeys
<1>2. /\ ram' \in Tier /\ Ordered(ram')
      /\ Resident(ram') = Resident(ram)
      /\ \A j \in Resident(ram) : ram'.item[j].val = ram.item[j].val
      /\ ram'.size = ram.size
  BY <1>1, TouchedTier
<1>3. TypeOK'
  BY <1>1, <1>2, UsedFacts DEF TypeOK
<1>4. SizeNeverOverstated'
  <2>1. Bytes(ram', Resident(ram)) = Bytes(ram, Resident(ram))
    BY <1>2, BytesAgree
  <2> QED
    BY <1>1, <1>2, <2>1 DEF SizeNeverOverstated
<1>5. OverCapacityOnlyAlone'
  BY <1>2 DEF Inv, OverCapacityOnlyAlone
<1> DEFINE e == [ram.item[k] EXCEPT !.left = ram.item[k].ttl]
<1>6. /\ ram' = AtEnd(ram, k, e)
      /\ e.ttl = ram.item[k].ttl /\ e.left = ram.item[k].ttl
      /\ ram.item[k].ttl \in Nat
  BY <1>1, ResidentEntries, TTLAssumption DEF Touched, Entry
<1>7. OrderIsRecency'
  <2>1. ram'.older = Among(ram.older, Resident(ram) \ {k})
                       \cup ((Resident(ram) \ {k}) \X {k})
    BY <1>6 DEF AtEnd
  <2>2. ram.older \subseteq recent /\ ram.older \subseteq Key \X Key
    BY <1>1 DEF Inv, OrderIsRecency, Tier
  <2>3. Resident(ram) \subseteq Key
    BY <1>1, ResidentEntries
  <2> QED
    BY <1>1, <2>1, <2>2, <2>3, UsedFacts DEF OrderIsRecency, Among
<1>8. TimeLeft'
  <2>1. ASSUME NEW j \in Resident(ram'), ram'.item[j].ttl # 0
        PROVE  ram'.item[j].left = IF idle'[j] > ram'.item[j].ttl THEN -1
                                   ELSE ram'.item[j].ttl - idle'[j]
    <3>1. CASE j = k
      <4>1. ram'.item[k] = e
        BY <1>6, <1>1 DEF AtEnd, Tier
      <4>2. idle'[k] = 0
        BY <1>1, UsedFacts
      <4> HIDE DEF e
      <4> QED
        BY <1>6, <3>1, <4>1, <4>2
    <3>2. CASE j # k
      <4>1. j \in Key /\ ram'.item[j] = ram.item[j]
        BY <1>1, <1>2, <1>6, <3>2, ResidentEntries DEF AtEnd, Tier
      <4>2. idle'[j] = idle[j]
        BY <1>1, <3>2, <4>1, UsedFacts
      <4> QED
        BY <1>2, <2>1, <4>1, <4>2 DEF Inv, TimeLeft
    <3> QED
      BY <3>1, <3>2
  <2> QED
    BY <2>1 DEF TimeLeft
<1> QED
  BY <1>2, <1>3, <1>4, <1>5, <1>7, <1>8 DEF Inv

(* A set that evicts D and stores v.                                       *)
LEMMA SetInv ==
    ASSUME Inv, NEW k \in Key, NEW v \in Val, NEW ttl \in TTL \cup {NoTTL},
           Set(k, v, ttl)
    PROVE  Inv'
<1>1. PICK D \in Victims(ram, k, v) :
         /\ D \in SUBSET Resident(ram)
         /\ ram' = Stored(ram, k, v, ttl, D)
         /\ handed' \in Seq(Key \X Val)
  BY SetFacts
<1>2. /\ ram \in Tier /\ Ordered(ram)
      /\ ram.size <= Bytes(ram, Resident(ram))
      /\ Resident(ram) \subseteq Key
  BY ResidentEntries DEF Inv, TypeOK, SizeNeverOverstated
<1>3. Used(k)
  BY DEF Set
<1>4. /\ ram' \in Tier /\ Ordered(ram')
      /\ Resident(ram') = (Resident(ram) \ D) \cup {k}
      /\ \A j \in Key \ (D \cup {k}) : ram'.item[j] = ram.item[j]
  BY <1>1, <1>2, StoredTier
<1>5. TypeOK'
  BY <1>1, <1>3, <1>4, UsedFacts DEF TypeOK
<1>6. SizeNeverOverstated'
  <2> DEFINE twice == IF k \in D THEN Size[ram.item[k].val] ELSE 0
  <2>1. Bytes(ram', Resident(ram')) - ram'.size = Bytes(ram, Resident(ram)) - ram.size + twice
    <3>1. D \in SUBSET Resident(ram) /\ ram' = Stored(ram, k, v, ttl, D)
      BY <1>1
    <3>2. ram \in Tier /\ Ordered(ram)
      BY <1>2
    <3> QED
      BY <3>1, <3>2, StoredCounted
  <2>2. twice \in Nat
    BY <1>1, <1>2, ResidentEntries
  <2>3. /\ Bytes(ram', Resident(ram')) \in Nat /\ Bytes(ram, Resident(ram)) \in Nat
        /\ ram'.size \in Int /\ ram.size \in Int
    BY <1>2, <1>4, BytesType DEF Tier
  <2> HIDE DEF twice
  <2> QED
    BY <1>2, <2>1, <2>2, <2>3 DEF SizeNeverOverstated
<1>7. OverCapacityOnlyAlone'
  <2>1. \/ Stored(ram, k, v, ttl, D).size <= MaxSize
        \/ Resident(Stored(ram, k, v, ttl, D)) = {k}
    BY <1>2, StoredFitsOrIsAlone
  <2>2. ram'.size \in Int /\ MaxSize \in Int
    BY <1>4, SizeAssumption DEF Tier
  <2> QED
    BY <1>1, <2>1, <2>2 DEF OverCapacityOnlyAlone
<1> DEFINE e == [val |-> v, ttl |-> Lifetime(ttl), left |-> Lifetime(ttl)]
           mid == Without(ram, D)
           others == Resident(mid) \ {k}
<1>8. /\ mid \in Tier /\ Resident(mid) = Resident(ram) \ D
      /\ mid.older \subseteq ram.older
  BY <1>1, <1>2, WithoutTier
<1>9. /\ ram'.item = [mid.item EXCEPT ![k] = e]
      /\ ram'.older = Among(mid.older, others) \cup (others \X {k})
  BY <1>1 DEF Stored, AtEnd
<1>10. OrderIsRecency'
  <2>1. ram.older \subseteq recent /\ ram.older \subseteq Key \X Key
    BY <1>2 DEF Inv, OrderIsRecency, Tier
  <2>2. others \subseteq Key
    BY <1>2, <1>8
  <2> HIDE DEF mid
  <2> QED
    BY <1>3, <1>8, <1>9, <2>1, <2>2, UsedFacts DEF OrderIsRecency, Among
<1>11. TimeLeft'
  <2>1. ASSUME NEW j \in Resident(ram'), ram'.item[j].ttl # 0
        PROVE  ram'.item[j].left = IF idle'[j] > ram'.item[j].ttl THEN -1
                                   ELSE ram'.item[j].ttl - idle'[j]
    <3>1. CASE j = k
      <4>1. ram'.item[k] = e
        BY <1>8, <1>9 DEF Tier
      <4>2. idle'[k] = 0
        BY <1>3, UsedFacts
      <4>3. Lifetime(ttl) \in Nat
        BY TTLAssumption DEF Lifetime
      <4> QED
        BY <3>1, <4>1, <4>2, <4>3
    <3>2. CASE j # k
      <4>1. j \in Key /\ ram'.item[j] = ram.item[j] /\ j \in Resident(ram)
        BY <1>2, <1>4, <3>2
      <4>2. idle'[j] = idle[j]
        BY <1>3, <3>2, <4>1, UsedFacts
      <4> QED
        BY <2>1, <4>1, <4>2 DEF Inv, TimeLeft
    <3> QED
      BY <3>1, <3>2
  <2> QED
    BY <2>1 DEF TimeLeft
<1> QED
  BY <1>4, <1>5, <1>6, <1>7, <1>10, <1>11 DEF Inv

(* The clock: what is idle for longer has less time left.                  *)
LEMMA TickInv ==
    ASSUME Inv, NEW d \in Steps, Tick(d)
    PROVE  Inv'
<1>1. /\ ram \in Tier /\ Ordered(ram)
      /\ ram.size <= Bytes(ram, Resident(ram))
      /\ idle \in [Key -> 0 .. MaxIdle] /\ recent \in SUBSET (Key \X Key)
      /\ d \in Nat /\ MaxIdle \in Nat
      /\ Resident(ram) \subseteq Key
  BY StepsAssumption, MaxIdleAssumption, ResidentEntries
     DEF Inv, TypeOK, SizeNeverOverstated
<1>2. /\ ram' = Aged(ram, d) /\ handed' = <<>> /\ recent' = recent
      /\ idle' = [k \in Key |->
                     IF idle[k] + d > MaxIdle THEN MaxIdle ELSE idle[k] + d]
  BY DEF Tick
<1>3. /\ ram' \in Tier /\ Ordered(ram')
      /\ Resident(ram') = Resident(ram)
      /\ \A k \in Resident(ram) :
            /\ ram'.item[k].val = ram.item[k].val
            /\ ram'.item[k].ttl = ram.item[k].ttl
            /\ ram'.item[k].left
                  = IF ram.item[k].left - d < 0 THEN -1 ELSE ram.item[k].left - d
      /\ ram'.older = ram.older
      /\ ram'.size = ram.size
  BY <1>1, <1>2, AgedTier
<1>4. TypeOK'
  <2>1. idle' \in [Key -> 0 .. MaxIdle]
    BY <1>1, <1>2
  <2> QED
    BY <1>1, <1>2, <1>3, <2>1 DEF TypeOK
<1>5. SizeNeverOverstated'
  <2>1. Bytes(ram', Resident(ram)) = Bytes(ram, Resident(ram))
    BY <1>3, BytesAgree
  <2> QED
    BY <1>1, <1>3, <2>1 DEF SizeNeverOverstated
<1>6. OverCapacityOnlyAlone' /\ OrderIsRecency'
  BY <1>2, <1>3 DEF Inv, OverCapacityOnlyAlone, OrderIsRecency
<1>7. TimeLeft'
  <2>1. ASSUME NEW k \in Resident(ram'), ram'.item[k].ttl # 0
        PROVE  ram'.item[k].left = IF idle'[k] > ram'.item[k].ttl THEN -1
                                   ELSE ram'.item[k].ttl - idle'[k]
    <3>1. k \in Resident(ram) /\ k \in Key /\ ram.item[k] \in Entry
      BY <1>1, <1>3, ResidentEntries
    <3>2. ram.item[k].ttl \in Nat /\ ram.item[k].ttl < MaxIdle
      BY <3>1, TTLAssumption, MaxIdleAssumption DEF Entry
    <3>3. ram.item[k].left = IF idle[k] > ram.item[k].ttl THEN -1
                             ELSE ram.item[k].ttl - idle[k]
      BY <1>3, <2>1, <3>1 DEF Inv, TimeLeft
    <3>4. idle'[k] = IF idle[k] + d > MaxIdle THEN MaxIdle ELSE idle[k] + d
      BY <1>2, <3>1
    <3>5. idle[k] \in Nat
      BY <1>1, <3>1
    <3> QED
      BY <1>1, <1>3, <3>1, <3>2, <3>3, <3>4, <3>5
  <2> QED
    BY <2>1 DEF TimeLeft
<1> QED
  BY <1>3, <1>4, <1>5, <1>6, <1>7 DEF Inv

(* Every step of the backend keeps the invariant.                          *)
LEMMA NextInv == Inv /\ [Next]_vars => Inv'
<1> SUFFICES ASSUME Inv, [Next]_vars PROVE Inv'
  OBVIOUS
<1>1. /\ ram \in Tier /\ Ordered(ram)
      /\ <<>> \in Seq(Key \X Val)
      /\ \A k \in Resident(ram) : k \in Key /\ ram.item[k].val \in Val
  BY ResidentEntries DEF Inv, TypeOK
<1>2. ASSUME UNCHANGED <<ram, recent, idle>>, handed' \in Seq(Key \X Val)
      PROVE  Inv'
  BY <1>2 DEF Inv, TypeOK, SizeNeverOverstated,
              OverCapacityOnlyAlone, OrderIsRecency, TimeLeft
<1>3. ASSUME NEW k \in Key, Get(k) PROVE Inv'
  <2>1. CASE GetHit(k)
    BY <2>1, HitInv
  <2>2. CASE GetExpired(k)
    <3>1. k \in Resident(ram)
      BY <2>2 DEF GetExpired, ExpiredKeys
    <3>2. handed' \in Seq(Key \X Val)
      BY <1>1, <2>2, <3>1 DEF GetExpired
    <3> QED
      BY <2>2, <3>2, DropInv DEF GetExpired
  <2>3. CASE GetAbsent(k)
    BY <1>1, <1>2, <2>3 DEF GetAbsent
  <2> QED
    BY <1>3, <2>1, <2>2, <2>3 DEF Get
<1>4. ASSUME NEW k \in Key, Delete(k) PROVE Inv'
  <2>1. CASE k \in Resident(ram)
    BY <1>1, <1>4, <2>1, DropInv DEF Delete
  <2>2. CASE k \notin Resident(ram)
    BY <1>1, <1>2, <1>4, <2>2 DEF Delete
  <2> QED
    BY <2>1, <2>2
<1>5. ASSUME NEW k \in Key, NEW v \in Val, NEW ttl \in TTL \cup {NoTTL}, Set(k, v, ttl)
      PROVE  Inv'
  BY <1>5, SetInv
<1>6. CASE Flush
  <2>1. Empty.size = 0 /\ Empty.older = {}
    BY DEF Empty
  <2>2. /\ ram' = Empty /\ handed' = <<>> /\ UNCHANGED <<recent, idle>>
        /\ recent \in SUBSET (Key \X Key) /\ idle \in [Key -> 0 .. MaxIdle]
    BY <1>6 DEF Flush, Inv, TypeOK
  <2> QED
    BY <2>1, <2>2, EmptyTier, SizeAssumption
       DEF Inv, TypeOK, SizeNeverOverstated,
           OverCapacityOnlyAlone, OrderIsRecency, TimeLeft
<1>7. CASE PopExpired
  <2>1. ExpiredKeys(ram) \in SUBSET Key
    BY <1>1 DEF ExpiredKeys
  <2>2. UNCHANGED <<recent, idle>>
    BY <1>7 DEF PopExpired
  <2> QED
    BY <1>7, <2>1, <2>2, PopFacts, DropInv
<1>8. ASSUME NEW d \in Steps, Tick(d) PROVE Inv'
  BY <1>8, TickInv
<1>9. CASE UNCHANGED vars
  <2>1. handed' \in Seq(Key \X Val)
    BY <1>9 DEF vars, Inv, TypeOK
  <2> QED
    BY <1>2, <1>9, <2>1 DEF vars
<1> QED
  BY <1>3, <1>4, <1>5, <1>6, <1>7, <1>8, <1>9 DEF Next

(* The inductive invariant holds in every state.                           *)
THEOREM AlwaysInv == Spec => []Inv
BY InitInv, NextInv, PTL DEF Spec

(* The state is well formed: ram.py keeps its dictionary, counter and      *)
(* hand-offs well typed through any sequence of calls.                     *)
THEOREM TypeCorrect == Spec => []TypeOK
<1>1. Inv => TypeOK
  BY DEF Inv
<1> QED
  BY <1>1, AlwaysInv, PTL

(* The counted size never exceeds what is held (_current_size).            *)
THEOREM SizeCorrect == Spec => []SizeNeverOverstated
<1>1. Inv => SizeNeverOverstated
  BY DEF Inv
<1> QED
  BY <1>1, AlwaysInv, PTL

(* Only a tier with a single entry counts more than its capacity.          *)
THEOREM CapacityCorrect == Spec => []OverCapacityOnlyAlone
<1>1. Inv => OverCapacityOnlyAlone
  BY DEF Inv
<1> QED
  BY <1>1, AlwaysInv, PTL
-----------------------------------------------------------------------------
(* Every operation deducts what it removes, once; a set may do so twice.   *)
LEMMA StepKeepsMiscount == Inv /\ [Next]_vars => [MiscountGrows]_vars
<1> SUFFICES ASSUME Inv, Next PROVE MiscountGrows
  OBVIOUS
<1>1. ram \in Tier /\ Ordered(ram) /\ Resident(ram) \subseteq Key
  BY ResidentEntries DEF Inv, TypeOK
<1>2. ASSUME NEW D \in SUBSET Key, ram' = Without(ram, D) PROVE Miscount' = Miscount
  BY <1>1, <1>2, WithoutCounted DEF Miscount
<1>3. ASSUME Resident(ram') = Resident(ram), ram'.size = ram.size,
             \A k \in Resident(ram) : ram'.item[k].val = ram.item[k].val
      PROVE  Miscount' = Miscount
  BY <1>3, BytesAgree DEF Miscount
<1>4. ASSUME NEW k \in Key, Get(k) PROVE Miscount' = Miscount
  <2>1. CASE GetHit(k)
    BY <1>1, <1>3, <2>1, TouchedTier DEF GetHit, LiveKeys
  <2>2. CASE GetExpired(k)
    BY <1>2, <2>2 DEF GetExpired
  <2>3. CASE GetAbsent(k)
    BY <1>3, <2>3 DEF GetAbsent
  <2> QED
    BY <1>4, <2>1, <2>2, <2>3 DEF Get
<1>5. ASSUME NEW k \in Key, Delete(k) PROVE Miscount' = Miscount
  <2>1. ram' = Without(ram, {k}) \/ ram' = ram
    BY <1>5 DEF Delete
  <2> QED
    BY <1>2, <1>3, <2>1
<1>6. ASSUME NEW k \in Key, NEW v \in Val, NEW ttl \in TTL \cup {NoTTL},
             Set(k, v, ttl)
      PROVE  \/ Miscount' = Miscount
             \/ DeductedTwice(k) /\ Miscount' = Miscount + Size[ram.item[k].val]
  <2>1. PICK D \in Victims(ram, k, v) :
           /\ D \in SUBSET Resident(ram)
           /\ ram' = Stored(ram, k, v, ttl, D)
           /\ Given' = {<<j, ram.item[j].val>> : j \in D}
    BY <1>6, SetFacts
  <2>2. Miscount' = Miscount + IF k \in D THEN Size[ram.item[k].val] ELSE 0
    BY <1>1, <2>1, StoredCounted DEF Miscount
  <2>3. CASE k \in D
    <3>1. <<k, ram.item[k].val>> \in Given' /\ k \in Resident(ram)
      BY <2>1, <2>3
    <3>2. Overwrite(k)
      BY <1>6 DEF Overwrite
    <3> QED
      BY <2>2, <2>3, <3>1, <3>2 DEF DeductedTwice
  <2>4. CASE k \notin D
    <3>1. Miscount \in Int
      <4>1. Resident(ram) \in SUBSET Resident(ram) /\ ram.size \in Int
        BY <1>1 DEF Tier
      <4>2. Bytes(ram, Resident(ram)) \in Nat
        BY <1>1, <4>1, BytesType
      <4> QED
        BY <4>1, <4>2 DEF Miscount
    <3> QED
      BY <2>2, <2>4, <3>1
  <2> QED
    BY <2>3, <2>4
<1>7. CASE Flush
  <2>1. ram' = Empty /\ Empty.size = 0
    BY <1>7 DEF Flush, Empty
  <2> QED
    BY <1>7, <2>1, EmptyTier DEF MiscountGrows, Miscount
<1>8. CASE PopExpired
  <2>1. ram' = Without(ram, ExpiredKeys(ram)) /\ ExpiredKeys(ram) \in SUBSET Key
    BY <1>1, <1>8, PopFacts
  <2> QED
    BY <1>2, <2>1 DEF MiscountGrows
<1>9. ASSUME NEW d \in Steps, Tick(d) PROVE Miscount' = Miscount
  BY <1>1, <1>3, <1>9, AgedTier, StepsAssumption DEF Tick
<1> QED
  BY <1>4, <1>5, <1>6, <1>7, <1>8, <1>9 DEF Next, MiscountGrows

(* Only an overwriting that evicts what it overwrites puts the count       *)
(* behind, by that entry (ram.py 66-75).                                   *)
THEOREM MiscountCorrect == Spec => MiscountIsOfOverwrites
BY AlwaysInv, StepKeepsMiscount, PTL DEF Spec, MiscountIsOfOverwrites
-----------------------------------------------------------------------------
(* A value leaves only by delete, flush or overwriting, or handed on.      *)
LEMMA StepHandsLosses == Inv /\ [Next]_vars => [LossHanded]_vars
<1> SUFFICES ASSUME Inv, Next, NEW k \in Key, Lost(k)
             PROVE  \/ <<k, ram.item[k].val>> \in Given'
                    \/ Flush \/ Overwrite(k)
                    \/ Delete(k) /\ ~Get(k)
  BY DEF LossHanded
<1>1. ram \in Tier /\ Ordered(ram) /\ k \in Resident(ram)
  BY DEF Inv, TypeOK, Lost
<1>2. ASSUME NEW j \in Key, Get(j)
      PROVE  <<k, ram.item[k].val>> \in Given'
  <2>1. CASE GetHit(j)
    <3>1. /\ Resident(ram)' = Resident(ram)
          /\ ram'.item[k].val = ram.item[k].val
      BY <1>1, <2>1, TouchedTier DEF GetHit, LiveKeys
    <3> QED
      BY <3>1 DEF Lost
  <2>2. CASE GetExpired(j)
    <3>1. ram' = Without(ram, {j}) /\ handed' = <<<<j, ram.item[j].val>>>>
      BY <2>2 DEF GetExpired
    <3>2. /\ Resident(ram)' = Resident(ram) \ {j}
          /\ \A i \in Key \ {j} : ram'.item[i] = ram.item[i]
      BY <1>1, <3>1, WithoutTier
    <3>3. k = j
      BY <3>2 DEF Lost
    <3> QED
      BY <3>1, <3>3 DEF Given
  <2>3. CASE GetAbsent(j)
    BY <2>3 DEF GetAbsent, Lost
  <2> QED
    BY <1>2, <2>1, <2>2, <2>3 DEF Get
<1>3. ASSUME NEW j \in Key, Delete(j), j # k PROVE FALSE
  <2>1. \/ Resident(ram)' = Resident(ram) /\ ram' = ram
        \/ /\ Resident(ram)' = Resident(ram) \ {j}
           /\ \A i \in Key \ {j} : ram'.item[i] = ram.item[i]
    BY <1>1, <1>3, WithoutTier DEF Delete
  <2> QED
    BY <1>3, <2>1 DEF Lost
<1>4. ASSUME NEW j \in Key, NEW v \in Val, NEW ttl \in TTL \cup {NoTTL},
             Set(j, v, ttl), j # k
      PROVE  <<k, ram.item[k].val>> \in Given'
  <2>1. PICK D \in Victims(ram, j, v) :
           /\ D \in SUBSET Resident(ram)
           /\ ram' = Stored(ram, j, v, ttl, D)
           /\ Given' = {<<i, ram.item[i].val>> : i \in D}
    BY <1>4, SetFacts
  <2>2. /\ Resident(ram') = (Resident(ram) \ D) \cup {j}
        /\ \A i \in Key \ (D \cup {j}) : ram'.item[i] = ram.item[i]
    BY <1>1, <2>1, StoredTier
  <2>3. k \in D
    BY <1>1, <1>4, <2>2 DEF Lost
  <2> QED
    BY <2>1, <2>3
<1>5. ASSUME PopExpired PROVE <<k, ram.item[k].val>> \in Given'
  <2>1. /\ ram' = Without(ram, ExpiredKeys(ram))
        /\ ExpiredKeys(ram) \in SUBSET Key
        /\ Given' = {<<j, ram.item[j].val>> : j \in ExpiredKeys(ram)}
    BY <1>1, <1>5, PopFacts, ResidentEntries
  <2>2. /\ Resident(ram)' = Resident(ram) \ ExpiredKeys(ram)
        /\ \A j \in Key \ ExpiredKeys(ram) : ram'.item[j] = ram.item[j]
    BY <1>1, <2>1, WithoutTier
  <2>3. k \in ExpiredKeys(ram)
    BY <1>1, <2>2 DEF Lost
  <2> QED
    BY <2>1, <2>3
<1>6. ASSUME NEW d \in Steps, Tick(d) PROVE FALSE
  <2>1. d \in Nat /\ ram' = Aged(ram, d)
    BY <1>6, StepsAssumption DEF Tick
  <2>2. Resident(ram)' = Resident(ram) /\ ram'.item[k].val = ram.item[k].val
    BY <1>1, <2>1, AgedTier
  <2> QED
    BY <2>2 DEF Lost
<1> QED
  BY <1>2, <1>3, <1>4, <1>5, <1>6 DEF Next, Overwrite

(* No value leaves the tier silently (ram.py 18-19).                       *)
THEOREM LossCorrect == Spec => LossIsHanded
BY AlwaysInv, StepHandsLosses, PTL DEF Spec, LossIsHanded
-----------------------------------------------------------------------------
(* Between two residents, the one used earlier is the one before it in     *)
(* the tier's order, and a set takes victims from its front.               *)
LEMMA StepEvictsOldest == Inv /\ [Next]_vars => [OldestEvicted]_vars
<1> SUFFICES ASSUME Inv, NEW k \in Key, Overwrite(k),
                    NEW p \in Given', NEW j \in Resident(ram)' \ {k}
             PROVE  <<p[1], j>> \in recent
  BY DEF OldestEvicted
<1>1. PICK v \in Val, ttl \in TTL \cup {NoTTL} : Set(k, v, ttl)
  BY DEF Overwrite
<1>2. PICK D \in Victims(ram, k, v) :
         /\ D \in SUBSET Resident(ram)
         /\ ram' = Stored(ram, k, v, ttl, D)
         /\ Given' = {<<i, ram.item[i].val>> : i \in D}
  BY <1>1, SetFacts
<1>3. ram \in Tier /\ Ordered(ram)
  BY DEF Inv, TypeOK
<1>4. Resident(ram') = (Resident(ram) \ D) \cup {k}
  <2>1. D \in SUBSET Resident(ram)
    BY <1>2
  <2>2. Resident(Stored(ram, k, v, ttl, D)) = (Resident(ram) \ D) \cup {k}
    BY <1>3, <2>1, StoredTier
  <2> QED
    BY <1>2, <2>2
<1>5. PICK i \in D : p[1] = i
  BY <1>2
<1>6. i \in Resident(ram) /\ j \in Resident(ram) /\ j \notin D
  BY <1>2, <1>4, <1>5
<1>7. <<j, i>> \notin ram.older
  <2>1. \A q \in ram.older : q[2] \in D => q[1] \in D
    BY <1>2 DEF Victims, OldestFirst
  <2> QED
    BY <1>5, <1>6, <2>1
<1>8. <<i, j>> \in ram.older
  BY <1>3, <1>5, <1>6, <1>7 DEF Ordered
<1> QED
  BY <1>5, <1>8 DEF Inv, OrderIsRecency

(* A set hands on the keys whose last use was longest ago (ram.py 54, 70). *)
THEOREM RecencyCorrect == Spec => EvictsLeastRecentlyUsed
BY AlwaysInv, StepEvictsOldest, PTL DEF Spec, EvictsLeastRecentlyUsed

(* An entry counts as expired just when it was not used for its ttl.       *)
LEMMA ExpiredMeansOverdue ==
    ASSUME Inv, NEW k \in Resident(ram)
    PROVE  k \in ExpiredKeys(ram) <=> Overdue(k)
<1> DEFINE e == ram.item[k]
<1>1. e \in Entry /\ k \in Key
  BY ResidentEntries DEF Inv, TypeOK
<1>2. e.ttl \in Nat /\ idle[k] \in Nat
  <2>1. e.ttl \in TTL \cup {DefaultTTL}
    BY <1>1 DEF Entry
  <2>2. idle[k] \in 0 .. MaxIdle
    BY <1>1 DEF Inv, TypeOK
  <2>3. e.ttl \in Nat
    BY <2>1, TTLAssumption
  <2>4. idle[k] \in Nat
    BY <2>2, MaxIdleAssumption
  <2> QED
    BY <2>3, <2>4
<1>3. e.ttl # 0 => e.left = IF idle[k] > e.ttl THEN -1 ELSE e.ttl - idle[k]
  BY DEF Inv, TimeLeft
<1>4. Expired(e) <=> e.ttl # 0 /\ idle[k] > e.ttl
  BY <1>2, <1>3 DEF Expired
<1> QED
  BY <1>4 DEF ExpiredKeys, Overdue

LEMMA StepKeepsWindow == Inv /\ [Next]_vars => [ExpiredIffOverdue]_vars
<1> SUFFICES ASSUME Inv, NEW k \in Resident(ram)
             PROVE  /\ GetExpired(k) => Overdue(k)
                    /\ PopExpired => (k \in Resident(ram)' <=> ~Overdue(k))
                    /\ GetHit(k) => ~Overdue(k)
  BY DEF ExpiredIffOverdue
<1>1. k \in ExpiredKeys(ram) <=> Overdue(k)
  BY ExpiredMeansOverdue
<1>2. GetExpired(k) => Overdue(k)
  BY <1>1 DEF GetExpired
<1>3. GetHit(k) => ~Overdue(k)
  BY <1>1 DEF GetHit, LiveKeys
<1>4. ASSUME PopExpired PROVE k \in Resident(ram)' <=> ~Overdue(k)
  <2>1. ram \in Tier /\ Ordered(ram)
    BY DEF Inv, TypeOK
  <2>2. ExpiredKeys(ram) \in SUBSET Key /\ ram' = Without(ram, ExpiredKeys(ram))
    BY <1>4, <2>1, PopFacts, ResidentEntries
  <2>3. Resident(ram') = Resident(ram) \ ExpiredKeys(ram)
    BY <2>1, <2>2, WithoutTier
  <2> QED
    BY <1>1, <2>3
<1> QED
  BY <1>2, <1>3, <1>4

(* The ttl is a sliding window, whatever mix of calls and waiting went     *)
(* before (ram.py 49, 52, 62, 129).                                        *)
THEOREM WindowCorrect == Spec => SlidingWindow
BY AlwaysInv, StepKeepsWindow, PTL DEF Spec, SlidingWindow
=============================================================================
