------------------------- MODULE CacheManagerProofs -------------------------
(***************************************************************************)
(* CacheManager keeps its state well formed, and loses no entry silently,  *)
(* for any number of tasks, any tracking store, and whatever calls, errors *)
(* and restarts come.  The frames carry the argument: a frame that fits    *)
(* its place has what the coroutine will use when it is resumed, and a     *)
(* place that is not one of a demotion holds no evicted pair.  Nor does a  *)
(* value get to a key that it was not set for; and what set writes lives   *)
(* as long as the documentation says, whatever the rules.                  *)
(***************************************************************************)
EXTENDS CacheManager, RamStoreProofs, WellFoundedInduction

Good(f) == f \in Frame /\ Fits(f)

(* Where a coroutine goes on when its evictions are demoted.               *)
Onward == {"idle", "coldGet", "dryRead", "setTrack", "coldSweep"}

Inv ==
    /\ TypeOK
    /\ Ordered(hot) /\ Ordered(cold)
    /\ FrameOK
-----------------------------------------------------------------------------
(***************************************************************************)
(* The frames the actions build.                                           *)
(***************************************************************************)
LEMMA QuietGood ==
    ASSUME NEW f \in Frame, f.todo = <<>>, f.then \in Onward,
           f.then \in {"coldGet", "dryRead", "setTrack"} => f.key # NoKey,
           f.at \notin {"dryWrite", "dryTrack"},
           f.at \in {"idle", "dryFlush", "coldSweep"} \/ f.key # NoKey,
           f.at \in {"hitTrack", "promote"} => f.val # NoVal,
           f.at = "ramDelete" => f.batch # <<>>
    PROVE  Good(f) /\ Undone(f) = {}
<1>1. Undone(f) = {}
  BY DEF Undone
<1>2. Fits(f)
  BY DEF Fits, Onward
<1> QED
  BY <1>1, <1>2 DEF Good

LEMMA IdleGood == Good(Idle) /\ Undone(Idle) = {}
<1>1. /\ <<>> \in Seq(Key \X Val) /\ <<>> \in Seq(Key)
      /\ FALSE \in BOOLEAN /\ "idle" \in Points
  BY DEF Points
<1>2. Idle \in Frame
  BY <1>1 DEF Idle, Frame
<1> QED
  BY <1>2, QuietGood DEF Idle, Onward

(* A call that goes on with a key, and with keys to purge after it.        *)
LEMMA ForFrame ==
    ASSUME NEW k \in Key
    PROVE  /\ For(k) \in Frame /\ For(k).key = k /\ k # NoKey
           /\ For(k).todo = <<>> /\ For(k).then = "idle"
<1>1. Idle \in Frame /\ Idle.todo = <<>> /\ Idle.then = "idle"
  BY IdleGood DEF Good, Idle
<1> QED
  BY <1>1, ValAssumption DEF For, Frame

LEMMA OnFrame ==
    ASSUME NEW k \in Key, NEW point \in Points
    PROVE  /\ On(point, k) \in Frame /\ On(point, k).key = k
           /\ On(point, k).todo = <<>> /\ On(point, k).then = "idle"
           /\ On(point, k).at = point
BY ForFrame DEF On, Frame

LEMMA OnGood ==
    ASSUME NEW k \in Key, NEW b \in Seq(Key),
           NEW point \in {"dryRead", "missTrack", "dryDelete"}
    PROVE  /\ Good(On(point, k)) /\ Undone(On(point, k)) = {}
           /\ Good([On(point, k) EXCEPT !.batch = b])
           /\ Undone([On(point, k) EXCEPT !.batch = b]) = {}
<1> DEFINE f == On(point, k)
           g == [f EXCEPT !.batch = b]
<1>1. point \in Points /\ k # NoKey
  BY ValAssumption DEF Points, Waiting
<1>2. f \in Frame /\ f.key = k /\ f.todo = <<>> /\ f.then = "idle" /\ f.at = point
  BY <1>1, OnFrame
<1> HIDE DEF f
<1>3. g \in Frame /\ g.key = k /\ g.todo = <<>> /\ g.then = "idle" /\ g.at = point
  BY <1>2 DEF Frame
<1> HIDE DEF g
<1>4. Good(f) /\ Undone(f) = {}
  BY <1>1, <1>2, QuietGood DEF Onward
<1>5. Good(g) /\ Undone(g) = {}
  BY <1>1, <1>3, QuietGood DEF Onward
<1> QED
  BY <1>4, <1>5 DEF f, g

LEMMA HitGood ==
    ASSUME NEW k \in Key, NEW v \in Val, NEW tier \in {"hot", "cold", "dry"}
    PROVE  Good(Hit(k, tier, v)) /\ Undone(Hit(k, tier, v)) = {}
<1> DEFINE f == On("hitTrack", k)
           g == [f EXCEPT !.tier = tier, !.val = v]
<1>1. "hitTrack" \in Points /\ k # NoKey /\ v # NoVal
  BY ValAssumption DEF Points, Waiting
<1>2. f \in Frame /\ f.key = k /\ f.todo = <<>> /\ f.then = "idle" /\ f.at = "hitTrack"
  BY <1>1, OnFrame
<1> HIDE DEF f
<1>3. /\ g \in Frame /\ g.key = k /\ g.todo = <<>> /\ g.then = "idle"
      /\ g.at = "hitTrack" /\ g.val = v
  BY <1>2 DEF Frame
<1> HIDE DEF g
<1>4. Good(g) /\ Undone(g) = {}
  BY <1>1, <1>3, QuietGood DEF Onward
<1> QED
  BY <1>4 DEF Hit, f, g

LEMMA FlushGood ==
    LET f == [Idle EXCEPT !.at = "dryFlush"] IN Good(f) /\ Undone(f) = {}
<1> DEFINE f == [Idle EXCEPT !.at = "dryFlush"]
<1>1. Idle \in Frame /\ Idle.todo = <<>> /\ Idle.then = "idle"
  BY IdleGood DEF Good, Idle
<1>2. "dryFlush" \in Points
  BY DEF Points, Waiting
<1>3. f \in Frame /\ f.todo = <<>> /\ f.then = "idle" /\ f.at = "dryFlush"
  BY <1>1, <1>2 DEF Frame
<1> HIDE DEF f
<1>4. Good(f) /\ Undone(f) = {}
  BY <1>3, QuietGood DEF Onward
<1> QED
  BY <1>4 DEF f

(* A frame outside a demotion holds no pair.                               *)
LEMMA NothingUndone ==
    ASSUME NEW f, Good(f), f.at \notin {"dryWrite", "dryTrack"}
    PROVE  f.todo = <<>> /\ Undone(f) = {}
BY DEF Good, Fits, Undone

(* A frame that starts to demote s holds all of s.                         *)
LEMMA DemoteGood ==
    ASSUME NEW f \in Frame, f.todo = <<>>, f.then = "idle",
           NEW s \in Seq(Key \X Val), NEW then \in Onward,
           then \in {"coldGet", "dryRead", "setTrack"} => f.key # NoKey
    PROVE  /\ Good(Demote(f, s, then))
           /\ Undone(Demote(f, s, then)) = {s[i] : i \in DOMAIN s}
<1> DEFINE g == Demote(f, s, then)
<1>1. CASE s = <<>>
  <2>1. g = [f EXCEPT !.at = then]
    BY <1>1 DEF Demote
  <2>2. g \in Frame /\ g.at = then /\ g.todo = <<>> /\ g.then = "idle" /\ g.key = f.key
    BY <2>1 DEF Frame, Points, Waiting, Resumed, Onward
  <2>3. Good(g)
    BY <2>2 DEF Good, Fits, Onward, Points, Waiting, Resumed
  <2> QED
    BY <1>1, <2>2, <2>3 DEF Undone
<1>2. CASE s # <<>>
  <2>1. g = [f EXCEPT !.at = "dryWrite", !.todo = s, !.then = then]
    BY <1>2 DEF Demote
  <2>2. g \in Frame /\ g.at = "dryWrite" /\ g.todo = s /\ g.then = then /\ g.key = f.key
    BY <2>1 DEF Frame, Points, Waiting, Resumed, Onward
  <2>3. Good(g)
    BY <1>2, <2>2 DEF Good, Fits, Onward
  <2> QED
    BY <2>2, <2>3 DEF Undone
<1> QED
  BY <1>1, <1>2

(* ... which is what the lookups do, and the writes to hot.                *)
LEMMA DemoteForGood ==
    ASSUME NEW k \in Key, NEW s \in Seq(Key \X Val), NEW then \in Onward
    PROVE  /\ Good(Demote(For(k), s, then))
           /\ Undone(Demote(For(k), s, then)) = {s[i] : i \in DOMAIN s}
<1>1. For(k) \in Frame /\ For(k).todo = <<>> /\ For(k).then = "idle" /\ For(k).key # NoKey
  BY ForFrame
<1> QED
  BY <1>1, DemoteGood

Written(k, v, r) == [For(k) EXCEPT !.val = v, !.reset = r]

LEMMA DemoteWrittenGood ==
    ASSUME NEW k \in Key, NEW v \in Val, NEW r \in BOOLEAN,
           NEW s \in Seq(Key \X Val), NEW then \in Onward
    PROVE  /\ Good(Demote(Written(k, v, r), s, then))
           /\ Undone(Demote(Written(k, v, r), s, then)) = {s[i] : i \in DOMAIN s}
<1> DEFINE g == Written(k, v, r)
<1>1. g \in Frame /\ g.todo = <<>> /\ g.then = "idle" /\ g.key # NoKey
  <2>1. /\ For(k) \in Frame /\ For(k).todo = <<>> /\ For(k).then = "idle"
        /\ For(k).key # NoKey
    BY ForFrame
  <2> QED
    BY <2>1 DEF Frame, Written
<1> HIDE DEF g
<1>2. /\ Good(Demote(g, s, then))
      /\ Undone(Demote(g, s, then)) = {s[i] : i \in DOMAIN s}
  BY <1>1, DemoteGood
<1> QED
  BY <1>2 DEF g

(* ... and the sweeps.                                                     *)
LEMMA DemoteIdleGood ==
    ASSUME NEW s \in Seq(Key \X Val)
    PROVE  /\ Good(Demote(Idle, s, "idle"))
           /\ Undone(Demote(Idle, s, "idle")) = {s[i] : i \in DOMAIN s}
           /\ Good(Demote(Idle, s, "coldSweep"))
           /\ Undone(Demote(Idle, s, "coldSweep")) = {s[i] : i \in DOMAIN s}
<1>1. Idle \in Frame /\ Idle.todo = <<>> /\ Idle.then = "idle"
  BY IdleGood DEF Good, Idle
<1>2. "idle" \in Onward /\ "coldSweep" \in Onward
  BY DEF Onward
<1>3. /\ Good(Demote(Idle, s, "idle"))
      /\ Undone(Demote(Idle, s, "idle")) = {s[i] : i \in DOMAIN s}
  BY <1>1, <1>2, DemoteGood
<1>4. /\ Good(Demote(Idle, s, "coldSweep"))
      /\ Undone(Demote(Idle, s, "coldSweep")) = {s[i] : i \in DOMAIN s}
  BY <1>1, <1>2, DemoteGood
<1> QED
  BY <1>3, <1>4

(* A demotion written to dry and recorded: the rest is still held.         *)
LEMMA AfterDemotionGood ==
    ASSUME NEW f, Good(f), f.at = "dryTrack"
    PROVE  Good(AfterDemotion(f)) /\ Undone(AfterDemotion(f)) = Undone(f)
<1> DEFINE g == AfterDemotion(f)
<1>1. f \in Frame /\ f.todo \in Seq(Key \X Val) /\ f.todo # <<>>
  BY DEF Good, Fits, Frame
<1>2. /\ Tail(f.todo) \in Seq(Key \X Val)
      /\ Len(f.todo) \in Nat /\ Len(f.todo) >= 1
      /\ DOMAIN f.todo = 1 .. Len(f.todo)
      /\ DOMAIN Tail(f.todo) = 1 .. (Len(f.todo) - 1)
      /\ \A i \in DOMAIN Tail(f.todo) : Tail(f.todo)[i] = f.todo[i + 1]
  BY <1>1
<1>3. Undone(f) = {f.todo[i] : i \in 2 .. Len(f.todo)}
  BY <1>2 DEF Undone
<1>4. CASE Tail(f.todo) # <<>>
  <2>1. g = [f EXCEPT !.at = "dryWrite", !.todo = Tail(f.todo)]
    BY <1>4 DEF AfterDemotion
  <2>2. /\ g \in Frame /\ g.at = "dryWrite" /\ g.todo = Tail(f.todo)
        /\ g.then = f.then /\ g.key = f.key
    BY <1>1, <1>2, <2>1 DEF Frame, Points, Waiting, Resumed
  <2>3. Good(g)
    BY <1>4, <2>2 DEF Good, Fits
  <2>4. Undone(g) = {Tail(f.todo)[i] : i \in DOMAIN Tail(f.todo)}
    BY <2>2 DEF Undone
  <2>5. Undone(g) = Undone(f)
    <3>1. ASSUME NEW p \in Undone(f) PROVE p \in Undone(g)
      <4>1. PICK i \in 2 .. Len(f.todo) : p = f.todo[i]
        BY <1>3
      <4>2. i - 1 \in DOMAIN Tail(f.todo) /\ Tail(f.todo)[i - 1] = p
        BY <1>2, <4>1
      <4> QED
        BY <2>4, <4>2
    <3>2. ASSUME NEW p \in Undone(g) PROVE p \in Undone(f)
      <4>1. PICK i \in DOMAIN Tail(f.todo) : p = Tail(f.todo)[i]
        BY <2>4
      <4>2. i + 1 \in 2 .. Len(f.todo) /\ p = f.todo[i + 1]
        BY <1>2, <4>1
      <4> QED
        BY <1>3, <4>2
    <3> QED
      BY <3>1, <3>2
  <2> QED
    BY <2>3, <2>5
<1>5. CASE Tail(f.todo) = <<>>
  <2>1. Len(f.todo) = 1
    <3>1. DOMAIN Tail(f.todo) = {}
      BY <1>5
    <3>2. /\ Len(f.todo) \in Nat /\ Len(f.todo) >= 1
          /\ DOMAIN Tail(f.todo) = 1 .. (Len(f.todo) - 1)
      BY <1>2
    <3>3. Len(f.todo) # 1 => 1 \in 1 .. (Len(f.todo) - 1)
      BY <3>2
    <3> QED
      BY <3>1, <3>2, <3>3
  <2>2. Undone(f) = {}
    BY <1>3, <2>1
  <2>3. CASE f.then = "idle"
    BY <1>5, <2>2, <2>3, IdleGood DEF AfterDemotion
  <2>4. CASE f.then # "idle"
    <3>1. g = [f EXCEPT !.at = f.then, !.todo = <<>>, !.then = "idle"]
      BY <1>5, <2>4 DEF AfterDemotion
    <3>2. f.then \in Onward /\ (f.then \in {"coldGet", "dryRead", "setTrack"} => f.key # NoKey)
      BY DEF Good, Fits, Onward
    <3>3. /\ g \in Frame /\ g.at = f.then /\ g.todo = <<>>
          /\ g.then = "idle" /\ g.key = f.key
      <4>1. <<>> \in Seq(Key \X Val) /\ f.then \in Points /\ "idle" \in Points
        BY <3>2 DEF Points, Waiting, Resumed, Onward
      <4> HIDE DEF g
      <4> QED
        BY <1>1, <3>1, <4>1 DEF Frame
    <3>4. Good(g)
      BY <3>2, <3>3 DEF Good, Fits, Onward, Points, Waiting, Resumed
    <3>5. Undone(g) = {}
      BY <3>3 DEF Undone
    <3> QED
      BY <2>2, <3>4, <3>5
  <2> QED
    BY <2>3, <2>4
<1> QED
  BY <1>4, <1>5

(* The first pair is written to dry, and no other is let go.               *)
LEMMA DryWriteGood ==
    ASSUME NEW f, Good(f), f.at = "dryWrite"
    PROVE  LET g == [f EXCEPT !.at = "dryTrack"] IN
           /\ Good(g)
           /\ Head(f.todo) \in Key \X Val
           /\ Undone(f) = Undone(g) \cup {Head(f.todo)}
<1> DEFINE g == [f EXCEPT !.at = "dryTrack"]
<1>1. f \in Frame /\ f.todo \in Seq(Key \X Val) /\ f.todo # <<>>
  BY DEF Good, Fits, Frame
<1>2. /\ g \in Frame /\ g.at = "dryTrack" /\ g.todo = f.todo
      /\ g.then = f.then /\ g.key = f.key
  BY <1>1 DEF Frame, Points, Waiting, Resumed
<1>3. Good(g)
  BY <1>1, <1>2 DEF Good, Fits
<1>4. /\ Len(f.todo) \in Nat /\ Len(f.todo) >= 1
      /\ DOMAIN f.todo = 1 .. Len(f.todo)
      /\ Head(f.todo) = f.todo[1] /\ f.todo[1] \in Key \X Val
  BY <1>1
<1>5. Undone(g) = {f.todo[i] : i \in 2 .. Len(f.todo)}
  BY <1>2, <1>4 DEF Undone
<1>6. Undone(f) = {f.todo[i] : i \in 1 .. Len(f.todo)}
  BY <1>4 DEF Undone
<1>7. 1 .. Len(f.todo) = {1} \cup 2 .. Len(f.todo)
  BY <1>4
<1> QED
  BY <1>3, <1>4, <1>5, <1>6, <1>7

(* A frame that holds no pair moves to another place.                      *)
LEMMA MoveGood ==
    ASSUME NEW f, Good(f), NEW point \in {"promote", "delTrack", "ramDelete"},
           f.at \notin {"dryWrite", "dryTrack"}, f.key # NoKey,
           point = "promote" => f.val # NoVal,
           point = "ramDelete" => f.batch # <<>>
    PROVE  LET g == [f EXCEPT !.at = point] IN Good(g) /\ Undone(g) = {}
<1> DEFINE g == [f EXCEPT !.at = point]
<1>1. f \in Frame /\ f.todo = <<>>
  BY NothingUndone DEF Good
<1>2. point \in Points
  BY DEF Points, Waiting, Resumed
<1>3. /\ g \in Frame /\ g.at = point /\ g.key = f.key /\ g.val = f.val
      /\ g.todo = <<>> /\ g.then = f.then /\ g.batch = f.batch
  BY <1>1, <1>2 DEF Frame
<1>4. f.then \in Onward
  BY DEF Good, Fits, Onward
<1> HIDE DEF g
<1>5. Good(g) /\ Undone(g) = {}
  BY <1>3, <1>4, QuietGood
<1> QED
  BY <1>5 DEF g
-----------------------------------------------------------------------------
(***************************************************************************)
(* Every store keeps rows rows.                                            *)
(***************************************************************************)
LEMMA RowsKept ==
    ASSUME NEW row \in Row \cup {NoRow}, NEW tier \in {"hot", "cold", "dry"},
           NEW reset \in BOOLEAN
    PROVE  /\ RecordSet(row, tier, reset) \in Row \cup {NoRow}
           /\ RecordHit(row) \in Row \cup {NoRow}
           /\ RecordDelete(row) \in Row \cup {NoRow}
<1>1. FreshRow(tier) \in Row /\ FreshRow(NoTier) \in Row
  BY DEF FreshRow, Row
<1>2. ASSUME NEW r \in Row PROVE Counted(r) \in Row /\ [r EXCEPT !.tier = tier] \in Row
  BY DEF Counted, Row
<1>3. SQLiteRecordSet(row, tier, reset) \in Row
  BY <1>1, <1>2 DEF SQLiteRecordSet
<1>4. RecordSet(row, tier, reset) \in Row \cup {NoRow}
  BY <1>1, <1>3, StoreAssumption
     DEF RecordSet, Stores, RedisRecordSet, PostgresRecordSet, MongoDBRecordSet
<1>5. /\ SQLiteRecordHit(row) \in Row \cup {NoRow}
      /\ PostgresRecordHit(row) \in Row \cup {NoRow}
      /\ MongoDBRecordHit(row) \in Row \cup {NoRow}
  BY <1>2 DEF SQLiteRecordHit, PostgresRecordHit, MongoDBRecordHit
<1>6. RedisRecordHit(row) \in Row
  BY <1>1, <1>2 DEF RedisRecordHit
<1>7. RecordHit(row) \in Row \cup {NoRow}
  BY <1>5, <1>6, StoreAssumption DEF RecordHit, Stores
<1> QED
  BY <1>4, <1>7 DEF RecordDelete
-----------------------------------------------------------------------------
(***************************************************************************)
(* What the invariant says of one task, and what a step of it must do: its *)
(* next frame is good, and each key it takes from a tier or from what it   *)
(* holds is in another place, or removed.                                  *)
(***************************************************************************)
Has(f, k) == \E p \in Undone(f) : p[1] = k

Kept(t) == \A k \in Key : Held(k) => Held(k)' \/ Removes(t, k)

LEMMA TaskGood ==
    ASSUME Inv, NEW t \in Task
    PROVE  Good(task[t])
BY DEF Inv, TypeOK, FrameOK, Good

LEMMA SoundStep ==
    ASSUME Inv, NEW t \in Task, NEW f, Good(f), Go(t, f),
           hot' \in Tier, Ordered(hot'), cold' \in Tier, Ordered(cold'),
           dry' \in [Key -> Val \cup {NoVal}], rows' \in [Key -> Row \cup {NoRow}],
           \A k \in Resident(hot) : k \in Resident(hot') \/ Has(f, k) \/ Removes(t, k),
           \A k \in Resident(cold) : k \in Resident(cold') \/ Has(f, k) \/ Removes(t, k),
           \A k \in Key : dry[k] # NoVal => dry'[k] # NoVal \/ Removes(t, k),
           \A p \in Undone(task[t]) :
               p \in Undone(f) \/ dry'[p[1]] # NoVal \/ Removes(t, p[1])
    PROVE  Inv' /\ Kept(t)
<1>1. /\ task' \in [Task -> Frame]
      /\ task'[t] = f
      /\ \A u \in Task \ {t} : task'[u] = task[u]
  <2>1. task \in [Task -> Frame] /\ f \in Frame
    BY DEF Inv, TypeOK, Good
  <2> QED
    BY <2>1 DEF Go
<1>2. FrameOK'
  <2>1. \A u \in Task : Fits(task'[u])
    BY <1>1 DEF Inv, FrameOK, Good
  <2> QED
    BY <2>1 DEF FrameOK
<1>3. Inv'
  BY <1>1, <1>2 DEF Inv, TypeOK
<1>4. ASSUME NEW k \in Key, Held(k), ~Removes(t, k) PROVE Held(k)'
  <2>1. CASE k \in Resident(hot)
    BY <1>1, <1>4, <2>1 DEF Held, Has, Pending
  <2>2. CASE k \in Resident(cold)
    BY <1>1, <1>4, <2>2 DEF Held, Has, Pending
  <2>3. CASE dry[k] # NoVal
    BY <1>4, <2>3 DEF Held
  <2>4. CASE \E u \in Task : \E p \in Pending(u) : p[1] = k
    <3>1. PICK u \in Task : \E p \in Undone(task[u]) : p[1] = k
      BY <2>4 DEF Pending
    <3>2. CASE u = t
      BY <1>1, <1>4, <3>1, <3>2 DEF Held, Pending
    <3>3. CASE u # t
      BY <1>1, <3>1, <3>3 DEF Held, Pending
    <3> QED
      BY <3>2, <3>3
  <2> QED
    BY <1>4, <2>1, <2>2, <2>3, <2>4 DEF Held
<1> QED
  BY <1>3, <1>4 DEF Kept

(* The common case: the task held nothing, and dry is left as it is.       *)
LEMMA SoundRamStep ==
    ASSUME Inv, NEW t \in Task, NEW f, Good(f), Go(t, f), Undone(task[t]) = {},
           hot' \in Tier, Ordered(hot'), cold' \in Tier, Ordered(cold'),
           dry' = dry, rows' \in [Key -> Row \cup {NoRow}],
           \A k \in Resident(hot) : k \in Resident(hot') \/ Has(f, k) \/ Removes(t, k),
           \A k \in Resident(cold) : k \in Resident(cold') \/ Has(f, k) \/ Removes(t, k)
    PROVE  Inv' /\ Kept(t)
<1>1. dry' \in [Key -> Val \cup {NoVal}]
  BY DEF Inv, TypeOK
<1> QED
  BY <1>1, SoundStep

(* The simplest: neither a tier nor dry is changed.                        *)
LEMMA SoundMove ==
    ASSUME Inv, NEW t \in Task, NEW f, Good(f), Go(t, f), Undone(task[t]) = {},
           UNCHANGED <<hot, cold, dry>>, rows' \in [Key -> Row \cup {NoRow}]
    PROVE  Inv' /\ Kept(t)
<1>1. /\ hot' \in Tier /\ Ordered(hot') /\ cold' \in Tier /\ Ordered(cold')
      /\ hot' = hot /\ cold' = cold /\ dry' = dry
  BY DEF Inv, TypeOK
<1> QED
  BY <1>1, SoundRamStep
-----------------------------------------------------------------------------
(***************************************************************************)
(* The actions, one by one.                                                *)
(***************************************************************************)
LEMMA DryWriteSound ==
    ASSUME Inv, NEW t \in Task, DryWrite(t)
    PROVE  Inv' /\ Kept(t)
<1> DEFINE f == [task[t] EXCEPT !.at = "dryTrack"]
           p == Head(task[t].todo)
<1>1. Good(task[t]) /\ task[t].at = "dryWrite" /\ Go(t, f)
  BY TaskGood DEF DryWrite
<1>2. Good(f) /\ p \in Key \X Val /\ Undone(task[t]) = Undone(f) \cup {p}
  BY <1>1, DryWriteGood
<1>3. dry' = [dry EXCEPT ![p[1]] = p[2]] /\ UNCHANGED <<hot, cold, rows>>
  BY DEF DryWrite
<1>4. /\ hot \in Tier /\ Ordered(hot) /\ cold \in Tier /\ Ordered(cold)
      /\ dry \in [Key -> Val \cup {NoVal}] /\ rows \in [Key -> Row \cup {NoRow}]
  BY DEF Inv, TypeOK
<1> HIDE DEF f, p
<1>5. p[1] \in Key /\ p[2] \in Val /\ p[2] # NoVal
  BY <1>2, ValAssumption
<1>6. dry' \in [Key -> Val \cup {NoVal}]
  BY <1>3, <1>4, <1>5
<1>7. dry'[p[1]] # NoVal /\ \A k \in Key : dry[k] # NoVal => dry'[k] # NoVal
  BY <1>3, <1>4, <1>5
<1>8. \A q \in Undone(task[t]) : q \in Undone(f) \/ dry'[q[1]] # NoVal
  BY <1>2, <1>7
<1> QED
  BY <1>1, <1>2, <1>3, <1>4, <1>6, <1>7, <1>8, SoundStep

LEMMA DryTrackSound ==
    ASSUME Inv, NEW t \in Task, DryTrack(t)
    PROVE  Inv' /\ Kept(t)
<1> DEFINE f == AfterDemotion(task[t])
           p == Head(task[t].todo)
<1>1. Good(task[t]) /\ task[t].at = "dryTrack" /\ Go(t, f)
  BY TaskGood DEF DryTrack
<1>2. Good(f) /\ Undone(f) = Undone(task[t])
  BY <1>1, AfterDemotionGood
<1>3. /\ rows' = [rows EXCEPT ![p[1]] = RecordSet(@, "dry", FALSE)]
      /\ UNCHANGED <<hot, cold, dry>>
  BY DEF DryTrack
<1>4. /\ hot \in Tier /\ Ordered(hot) /\ cold \in Tier /\ Ordered(cold)
      /\ dry \in [Key -> Val \cup {NoVal}] /\ rows \in [Key -> Row \cup {NoRow}]
  BY DEF Inv, TypeOK
<1>5. p \in Key \X Val
  BY <1>1 DEF Good, Fits, Frame
<1> HIDE DEF f, p
<1>6. rows' \in [Key -> Row \cup {NoRow}]
  BY <1>3, <1>4, <1>5, RowsKept
<1> QED
  BY <1>1, <1>2, <1>3, <1>4, <1>6, SoundStep

(***************************************************************************)
(* Tiers that drop keys: the dropped ones are in the frame.                *)
(***************************************************************************)
LEMMA DropOne ==
    ASSUME NEW tier \in Tier, Ordered(tier), NEW k \in Resident(tier)
    PROVE  /\ Without(tier, {k}) \in Tier /\ Ordered(Without(tier, {k}))
           /\ Resident(Without(tier, {k})) = Resident(tier) \ {k}
           /\ k \in Key /\ tier.item[k].val \in Val
           /\ <<<<k, tier.item[k].val>>>> \in Seq(Key \X Val)
           /\ {<<<<k, tier.item[k].val>>>>[i] : i \in DOMAIN <<<<k, tier.item[k].val>>>>}
                 = {<<k, tier.item[k].val>>}
<1>1. k \in Key /\ tier.item[k].val \in Val
  BY ResidentEntries
<1>2. {k} \in SUBSET Key
  BY <1>1
<1>3. /\ Without(tier, {k}) \in Tier /\ Ordered(Without(tier, {k}))
      /\ Resident(Without(tier, {k})) = Resident(tier) \ {k}
  BY <1>2, WithoutTier
<1> DEFINE p == <<k, tier.item[k].val>>
<1>4. p \in Key \X Val
  BY <1>1
<1> HIDE DEF p
<1>5. <<p>> \in Seq(Key \X Val) /\ {<<p>>[i] : i \in DOMAIN <<p>>} = {p}
  BY <1>4
<1> QED
  BY <1>1, <1>3, <1>5 DEF p

LEMMA DropExpired ==
    ASSUME NEW tier \in Tier, Ordered(tier), NEW s \in Listings(tier, ExpiredKeys(tier))
    PROVE  LET left == Without(tier, ExpiredKeys(tier)) IN
           /\ left \in Tier /\ Ordered(left)
           /\ WithValues(tier, s) \in Seq(Key \X Val)
           /\ \A k \in Resident(tier) : k \in Resident(left) \/
                 \E p \in {WithValues(tier, s)[i] : i \in DOMAIN WithValues(tier, s)} : p[1] = k
<1> DEFINE D == ExpiredKeys(tier)
<1>1. D \in SUBSET Resident(tier) /\ D \in SUBSET Key
  BY ResidentEntries DEF ExpiredKeys
<1> HIDE DEF D
<1>2. /\ Without(tier, D) \in Tier /\ Ordered(Without(tier, D))
      /\ Resident(Without(tier, D)) = Resident(tier) \ D
  BY <1>1, WithoutTier
<1>3. s \in Listings(tier, D)
  BY DEF D
<1>4. /\ WithValues(tier, s) \in Seq(Key \X Val)
      /\ {WithValues(tier, s)[i] : i \in DOMAIN WithValues(tier, s)}
            = {<<k, tier.item[k].val>> : k \in D}
  BY <1>1, <1>3, ListedValues
<1>5. ASSUME NEW k \in D
      PROVE  \E p \in {<<j, tier.item[j].val>> : j \in D} : p[1] = k
  <2>1. <<k, tier.item[k].val>> \in {<<j, tier.item[j].val>> : j \in D}
    OBVIOUS
  <2> QED
    BY <2>1
<1>6. \A k \in Resident(tier) : k \in Resident(Without(tier, D)) \/
         \E p \in {WithValues(tier, s)[i] : i \in DOMAIN WithValues(tier, s)} : p[1] = k
  BY <1>2, <1>4, <1>5
<1> QED
  BY <1>2, <1>4, <1>6 DEF D
-----------------------------------------------------------------------------
(* get: looking in cold.                                                   *)
LEMMA LookInColdFacts ==
    ASSUME Inv, NEW t \in Task, NEW k \in Key, LookInCold(t, k)
    PROVE  \E f : /\ Good(f) /\ Go(t, f)
                  /\ cold' \in Tier /\ Ordered(cold')
                  /\ \A j \in Resident(cold) : j \in Resident(cold') \/ Has(f, j)
<1>1. cold \in Tier /\ Ordered(cold)
  BY DEF Inv, TypeOK
<1>2. CASE k \in LiveKeys(cold) /\ cold' = Touched(cold, k)
             /\ Go(t, Hit(k, "cold", cold.item[k].val))
  <2>1. k \in Resident(cold)
    BY <1>2 DEF LiveKeys
  <2>2. Good(Hit(k, "cold", cold.item[k].val))
    BY <1>1, <2>1, ResidentEntries, HitGood
  <2>3. cold' \in Tier /\ Ordered(cold') /\ Resident(cold') = Resident(cold)
    BY <1>1, <1>2, <2>1, TouchedTier
  <2> QED
    BY <1>2, <2>2, <2>3
<1>3. CASE k \in ExpiredKeys(cold) /\ cold' = Without(cold, {k})
             /\ Go(t, Demote(For(k), <<<<k, cold.item[k].val>>>>, "dryRead"))
  <2> DEFINE s == <<<<k, cold.item[k].val>>>>
             f == Demote(For(k), s, "dryRead")
  <2>1. k \in Resident(cold)
    BY <1>3 DEF ExpiredKeys
  <2>2. /\ cold' \in Tier /\ Ordered(cold')
        /\ Resident(cold') = Resident(cold) \ {k}
        /\ s \in Seq(Key \X Val)
        /\ {s[i] : i \in DOMAIN s} = {<<k, cold.item[k].val>>}
    BY <1>1, <1>3, <2>1, DropOne
  <2>3. "dryRead" \in Onward
    BY DEF Onward
  <2>4. Go(t, f)
    BY <1>3
  <2> HIDE DEF s
  <2>5. Good(f) /\ Undone(f) = {s[i] : i \in DOMAIN s}
    BY <2>2, <2>3, DemoteForGood
  <2> HIDE DEF f
  <2>6. Has(f, k)
    <3>1. Undone(f) = {<<k, cold.item[k].val>>}
      BY <2>2, <2>5
    <3> QED
      BY <3>1 DEF Has
  <2> QED
    BY <2>2, <2>4, <2>5, <2>6
<1>4. CASE /\ k \notin Resident(cold) /\ UNCHANGED cold
           /\ Go(t, IF ColdMiss = NoVal THEN On("dryRead", k)
                                        ELSE Hit(k, "cold", ColdMiss))
  <2>1. Good(On("dryRead", k))
    <3>1. <<>> \in Seq(Key)
      OBVIOUS
    <3> QED
      BY <3>1, OnGood
  <2>2. ColdMiss # NoVal => Good(Hit(k, "cold", ColdMiss))
    BY HitGood, MissAssumption
  <2> QED
    BY <1>1, <1>4, <2>1, <2>2
<1> QED
  BY <1>2, <1>3, <1>4 DEF LookInCold

(* A task that is free, or resumed, or waits for a read, holds no pair.    *)
LEMMA FreeHoldsNothing ==
    ASSUME NEW t, Free(t)
    PROVE  Undone(task[t]) = {}
BY IdleGood DEF Free

LEMMA GetSound ==
    ASSUME Inv, NEW t \in Task, NEW k \in Key, Get(t, k)
    PROVE  Inv' /\ Kept(t)
<1>1. /\ hot \in Tier /\ Ordered(hot) /\ cold \in Tier /\ Ordered(cold)
      /\ dry' = dry /\ rows' = rows /\ rows \in [Key -> Row \cup {NoRow}]
  BY DEF Inv, TypeOK, Get
<1>2. Undone(task[t]) = {}
  BY FreeHoldsNothing DEF Get
<1>3. CASE k \in LiveKeys(hot) /\ hot' = Touched(hot, k)
             /\ Go(t, Hit(k, "hot", hot.item[k].val)) /\ UNCHANGED cold
  <2>1. k \in Resident(hot)
    BY <1>3 DEF LiveKeys
  <2>2. Good(Hit(k, "hot", hot.item[k].val))
    BY <1>1, <2>1, ResidentEntries, HitGood
  <2>3. hot' \in Tier /\ Ordered(hot') /\ Resident(hot') = Resident(hot)
    BY <1>1, <1>3, <2>1, TouchedTier
  <2> QED
    BY <1>1, <1>2, <1>3, <2>2, <2>3, SoundRamStep
<1>4. CASE k \in ExpiredKeys(hot) /\ hot' = Without(hot, {k}) /\ UNCHANGED cold
             /\ Go(t, Demote(For(k), <<<<k, hot.item[k].val>>>>, "coldGet"))
  <2> DEFINE s == <<<<k, hot.item[k].val>>>>
             f == Demote(For(k), s, "coldGet")
  <2>1. k \in Resident(hot)
    BY <1>4 DEF ExpiredKeys
  <2>2. /\ hot' \in Tier /\ Ordered(hot')
        /\ Resident(hot') = Resident(hot) \ {k}
        /\ s \in Seq(Key \X Val)
        /\ {s[i] : i \in DOMAIN s} = {<<k, hot.item[k].val>>}
    BY <1>1, <1>4, <2>1, DropOne
  <2>3. "coldGet" \in Onward
    BY DEF Onward
  <2>4. Go(t, f)
    BY <1>4
  <2> HIDE DEF s
  <2>5. Good(f) /\ Undone(f) = {s[i] : i \in DOMAIN s}
    BY <2>2, <2>3, DemoteForGood
  <2> HIDE DEF f
  <2>6. Has(f, k)
    <3>1. Undone(f) = {<<k, hot.item[k].val>>}
      BY <2>2, <2>5
    <3> QED
      BY <3>1 DEF Has
  <2>7. \A j \in Resident(hot) : j \in Resident(hot') \/ Has(f, j)
    BY <2>2, <2>6
  <2> QED
    BY <1>1, <1>2, <1>4, <2>2, <2>4, <2>5, <2>7, SoundRamStep
<1>5. CASE LookInCold(t, k) /\ UNCHANGED hot
  <2>1. PICK f : /\ Good(f) /\ Go(t, f)
                 /\ cold' \in Tier /\ Ordered(cold')
                 /\ \A j \in Resident(cold) : j \in Resident(cold') \/ Has(f, j)
    BY <1>5, LookInColdFacts
  <2> QED
    BY <1>1, <1>2, <1>5, <2>1, SoundRamStep
<1> QED
  BY <1>3, <1>4, <1>5 DEF Get

LEMMA ColdGetSound ==
    ASSUME Inv, NEW t \in Task, ColdGet(t)
    PROVE  Inv' /\ Kept(t)
<1>1. /\ hot \in Tier /\ Ordered(hot)
      /\ hot' = hot /\ dry' = dry /\ rows' = rows /\ rows \in [Key -> Row \cup {NoRow}]
  BY DEF Inv, TypeOK, ColdGet
<1>2. Good(task[t]) /\ task[t].at = "coldGet" /\ LookInCold(t, task[t].key)
  BY TaskGood DEF ColdGet
<1>3. Undone(task[t]) = {} /\ task[t].key \in Key
  BY <1>2, NothingUndone DEF Good, Fits, Frame, Points, Resumed
<1>4. PICK f : /\ Good(f) /\ Go(t, f)
               /\ cold' \in Tier /\ Ordered(cold')
               /\ \A j \in Resident(cold) : j \in Resident(cold') \/ Has(f, j)
  BY <1>2, <1>3, LookInColdFacts
<1> QED
  BY <1>1, <1>3, <1>4, SoundRamStep

LEMMA DryReadSound ==
    ASSUME Inv, NEW t \in Task, DryRead(t)
    PROVE  Inv' /\ Kept(t)
<1> DEFINE k == task[t].key
           answer == IF dry[k] # NoVal THEN dry[k] ELSE DryMiss
           f == IF answer # NoVal THEN Hit(k, "dry", answer) ELSE On("missTrack", k)
<1>1. Good(task[t]) /\ task[t].at = "dryRead" /\ Go(t, f)
  BY TaskGood DEF DryRead
<1>2. Undone(task[t]) = {} /\ k \in Key
  BY <1>1, NothingUndone DEF Good, Fits, Frame, Points, Waiting
<1>3. /\ UNCHANGED <<hot, cold, dry>> /\ rows' \in [Key -> Row \cup {NoRow}]
      /\ dry \in [Key -> Val \cup {NoVal}]
  BY DEF DryRead, Inv, TypeOK
<1>4. Good(f)
  <2>1. <<>> \in Seq(Key) /\ (answer # NoVal => answer \in Val)
    BY <1>2, <1>3, MissAssumption
  <2> HIDE DEF k, answer
  <2> QED
    BY <1>2, <2>1, HitGood, OnGood
<1> HIDE DEF f
<1> QED
  BY <1>1, <1>2, <1>3, <1>4, SoundMove

LEMMA HitTrackSound ==
    ASSUME Inv, NEW t \in Task, HitTrack(t)
    PROVE  Inv' /\ Kept(t)
<1> DEFINE f == IF task[t].tier = "hot" THEN Idle ELSE [task[t] EXCEPT !.at = "promote"]
<1>1. Good(task[t]) /\ task[t].at = "hitTrack" /\ Go(t, f)
  BY TaskGood DEF HitTrack
<1>2. /\ Undone(task[t]) = {} /\ task[t].key \in Key /\ task[t].key # NoKey
      /\ task[t].val # NoVal
  BY <1>1, NothingUndone DEF Good, Fits, Frame, Points, Waiting
<1>3. UNCHANGED <<hot, cold, dry>>
  BY DEF HitTrack
<1>4. rows' \in [Key -> Row \cup {NoRow}]
  <2>1. /\ rows \in [Key -> Row \cup {NoRow}]
        /\ rows' = [rows EXCEPT ![task[t].key] = RecordHit(@)]
    BY DEF Inv, TypeOK, HitTrack
  <2>2. \A row \in Row \cup {NoRow} : RecordHit(row) \in Row \cup {NoRow}
    BY RowsKept
  <2> QED
    BY <1>2, <2>1, <2>2
<1>5. Good(f)
  BY <1>1, <1>2, IdleGood, MoveGood
<1> HIDE DEF f
<1> QED
  BY <1>1, <1>2, <1>3, <1>4, <1>5, SoundMove

LEMMA MissTrackSound ==
    ASSUME Inv, NEW t \in Task, MissTrack(t)
    PROVE  Inv' /\ Kept(t)
<1>1. Good(task[t]) /\ task[t].at = "missTrack" /\ Go(t, Idle)
  BY TaskGood DEF MissTrack
<1>2. Undone(task[t]) = {}
  BY <1>1, NothingUndone
<1>3. UNCHANGED <<hot, cold, dry>> /\ rows' \in [Key -> Row \cup {NoRow}]
  BY DEF MissTrack, Inv, TypeOK
<1> QED
  BY <1>1, <1>2, <1>3, IdleGood, SoundMove
-----------------------------------------------------------------------------
(***************************************************************************)
(* Writing to hot: the evicted entries are in the frame.                   *)
(***************************************************************************)
LEMMA WriteHotSound ==
    ASSUME Inv, NEW t \in Task, NEW k \in Key, NEW v \in Val,
           NEW ttl \in TTL \cup {NoTTL}, NEW r \in BOOLEAN,
           WriteHot(t, k, v, ttl, r), Undone(task[t]) = {},
           UNCHANGED <<cold, dry, rows>>
    PROVE  Inv' /\ Kept(t)
<1>1. /\ hot \in Tier /\ Ordered(hot) /\ cold' \in Tier /\ Ordered(cold')
      /\ cold' = cold /\ dry' = dry /\ rows' \in [Key -> Row \cup {NoRow}]
  BY DEF Inv, TypeOK
<1>2. PICK D \in Victims(hot, k, v) : \E s \in Listings(hot, D) :
         /\ hot' = Stored(hot, k, v, ttl, D)
         /\ Go(t, Demote(Written(k, v, r), WithValues(hot, s), "setTrack"))
  BY DEF WriteHot, Written
<1>3. PICK s \in Listings(hot, D) :
         /\ hot' = Stored(hot, k, v, ttl, D)
         /\ Go(t, Demote(Written(k, v, r), WithValues(hot, s), "setTrack"))
  BY <1>2
<1>4. D \in SUBSET Resident(hot)
  BY DEF Victims, OldestFirst
<1> DEFINE h == WithValues(hot, s)
           f == Demote(Written(k, v, r), h, "setTrack")
<1>5. h \in Seq(Key \X Val) /\ {h[i] : i \in DOMAIN h} = {<<j, hot.item[j].val>> : j \in D}
  BY <1>1, <1>4, ListedValues
<1>6. Go(t, f)
  BY <1>3
<1> HIDE DEF h
<1>7. Good(f) /\ Undone(f) = {h[i] : i \in DOMAIN h}
  <2>1. "setTrack" \in Onward /\ h \in Seq(Key \X Val)
    BY <1>5 DEF Onward
  <2> QED
    BY <2>1, DemoteWrittenGood
<1> HIDE DEF f
<1>8. /\ hot' \in Tier /\ Ordered(hot')
      /\ Resident(hot') = (Resident(hot) \ D) \cup {k}
  BY <1>1, <1>3, <1>4, StoredTier
<1>9. ASSUME NEW j \in D PROVE Has(f, j)
  <2>1. <<j, hot.item[j].val>> \in Undone(f)
    BY <1>5, <1>7
  <2> QED
    BY <2>1 DEF Has
<1>10. \A j \in Resident(hot) : j \in Resident(hot') \/ Has(f, j)
  BY <1>8, <1>9
<1> QED
  BY <1>1, <1>6, <1>7, <1>8, <1>10, SoundRamStep

LEMMA SetSound ==
    ASSUME Inv, NEW t \in Task, NEW k \in Key, NEW v \in Val,
           NEW ttl \in TTL \cup {NoTTL}, Set(t, k, v, ttl)
    PROVE  Inv' /\ Kept(t)
<1>1. Free(t) /\ WriteHot(t, k, v, ttl, TRUE) /\ UNCHANGED <<cold, dry, rows>>
  BY DEF Set
<1> QED
  BY <1>1, FreeHoldsNothing, WriteHotSound

LEMMA PromoteSound ==
    ASSUME Inv, NEW t \in Task, Promote(t)
    PROVE  Inv' /\ Kept(t)
<1>1. /\ Good(task[t]) /\ task[t].at = "promote"
      /\ WriteHot(t, task[t].key, task[t].val, NoTTL, FALSE)
      /\ UNCHANGED <<cold, dry, rows>>
  BY TaskGood DEF Promote
<1>2. Undone(task[t]) = {} /\ task[t].key \in Key /\ task[t].val \in Val
  BY <1>1, NothingUndone DEF Good, Fits, Frame, Points, Resumed
<1>3. NoTTL \in TTL \cup {NoTTL} /\ FALSE \in BOOLEAN
  OBVIOUS
<1> QED
  BY <1>1, <1>2, <1>3, WriteHotSound

LEMMA SetTrackSound ==
    ASSUME Inv, NEW t \in Task, SetTrack(t)
    PROVE  Inv' /\ Kept(t)
<1>1. Good(task[t]) /\ task[t].at = "setTrack" /\ Go(t, Idle)
  BY TaskGood DEF SetTrack
<1>2. Undone(task[t]) = {} /\ task[t].key \in Key /\ task[t].reset \in BOOLEAN
  BY <1>1, NothingUndone DEF Good, Fits, Frame, Points, Waiting
<1>3. UNCHANGED <<hot, cold, dry>>
  BY DEF SetTrack
<1>4. rows' \in [Key -> Row \cup {NoRow}]
  <2>1. /\ rows \in [Key -> Row \cup {NoRow}]
        /\ rows' = [rows EXCEPT ![task[t].key] = RecordSet(@, "hot", task[t].reset)]
    BY DEF Inv, TypeOK, SetTrack
  <2>2. \A row \in Row \cup {NoRow} :
           RecordSet(row, "hot", task[t].reset) \in Row \cup {NoRow}
    BY <1>2, RowsKept
  <2> QED
    BY <1>2, <2>1, <2>2
<1> QED
  BY <1>1, <1>2, <1>3, <1>4, IdleGood, SoundMove
-----------------------------------------------------------------------------
(***************************************************************************)
(* delete, purge and flush take what they remove.                          *)
(***************************************************************************)
LEMMA DeleteFromRamSound ==
    ASSUME Inv, NEW t \in Task, NEW k \in Key, NEW b \in Seq(Key),
           DeleteFromRam(t, k, b), Undone(task[t]) = {}
    PROVE  Inv' /\ Kept(t)
<1> DEFINE f == [On("dryDelete", k) EXCEPT !.batch = b]
<1>1. /\ hot \in Tier /\ Ordered(hot) /\ cold \in Tier /\ Ordered(cold)
      /\ dry' = dry /\ rows' \in [Key -> Row \cup {NoRow}]
  BY DEF Inv, TypeOK, DeleteFromRam
<1>2. hot' = Without(hot, {k}) /\ cold' = Without(cold, {k}) /\ Go(t, f)
  BY DEF DeleteFromRam
<1>3. {k} \in SUBSET Key
  OBVIOUS
<1>4. /\ hot' \in Tier /\ Ordered(hot') /\ Resident(hot') = Resident(hot) \ {k}
      /\ cold' \in Tier /\ Ordered(cold') /\ Resident(cold') = Resident(cold) \ {k}
  BY <1>1, <1>2, <1>3, WithoutTier
<1>5. Good(f)
  BY OnGood
<1>6. Removes(t, k)
  <2>1. task'[t] = f
    BY <1>2 DEF Go, Inv, TypeOK
  <2>2. f.at = "dryDelete" /\ f.key = k
    <3>1. "dryDelete" \in Points
      BY DEF Points, Waiting
    <3>2. /\ On("dryDelete", k) \in Frame
          /\ On("dryDelete", k).at = "dryDelete" /\ On("dryDelete", k).key = k
      BY <3>1, OnFrame
    <3> QED
      BY <3>2 DEF Frame
  <2> QED
    BY <2>1, <2>2 DEF Removes
<1> HIDE DEF f
<1> QED
  BY <1>1, <1>2, <1>4, <1>5, <1>6, SoundRamStep

LEMMA DeleteSound ==
    ASSUME Inv, NEW t \in Task, NEW k \in Key, Delete(t, k)
    PROVE  Inv' /\ Kept(t)
<1>1. <<>> \in Seq(Key) /\ Undone(task[t]) = {} /\ DeleteFromRam(t, k, <<>>)
  BY FreeHoldsNothing DEF Delete
<1> QED
  BY <1>1, DeleteFromRamSound

LEMMA NothingChanges ==
    ASSUME Inv, NEW t \in Task, UNCHANGED vars
    PROVE  Inv' /\ Kept(t)
BY DEF vars, Inv, TypeOK, FrameOK, Kept, Held, Pending

LEMMA PurgeSound ==
    ASSUME Inv, NEW t \in Task, NEW pattern \in Patterns, Purge(t, pattern)
    PROVE  Inv' /\ Kept(t)
<1> DEFINE D == LiveKeys(hot) \cap pattern
<1>1. PICK s \in Listings(hot, D) :
         IF s = <<>> THEN UNCHANGED vars ELSE DeleteFromRam(t, Head(s), Tail(s))
  BY DEF Purge
<1>2. Undone(task[t]) = {}
  BY FreeHoldsNothing DEF Purge
<1>3. CASE s = <<>>
  BY <1>1, <1>3, NothingChanges
<1>4. CASE s # <<>>
  <2>1. hot \in Tier /\ Ordered(hot)
    BY DEF Inv, TypeOK
  <2>2. D \in SUBSET Resident(hot)
    BY DEF LiveKeys
  <2> HIDE DEF D
  <2>3. s \in Seq(D) /\ D \subseteq Key
    BY <2>1, <2>2, ResidentEntries, ListingElements
  <2>4. Head(s) \in Key /\ Tail(s) \in Seq(Key)
    BY <1>4, <2>3
  <2> QED
    BY <1>1, <1>2, <1>4, <2>4, DeleteFromRamSound
<1> QED
  BY <1>3, <1>4

LEMMA RamDeleteSound ==
    ASSUME Inv, NEW t \in Task, RamDelete(t)
    PROVE  Inv' /\ Kept(t)
<1>1. /\ Good(task[t]) /\ task[t].at = "ramDelete"
      /\ DeleteFromRam(t, Head(task[t].batch), Tail(task[t].batch))
  BY TaskGood DEF RamDelete
<1>2. Undone(task[t]) = {} /\ task[t].batch \in Seq(Key) /\ task[t].batch # <<>>
  BY <1>1, NothingUndone DEF Good, Fits, Frame
<1>3. Head(task[t].batch) \in Key /\ Tail(task[t].batch) \in Seq(Key)
  BY <1>2
<1> QED
  BY <1>1, <1>2, <1>3, DeleteFromRamSound

LEMMA DryDeleteSound ==
    ASSUME Inv, NEW t \in Task, DryDelete(t)
    PROVE  Inv' /\ Kept(t)
<1> DEFINE f == [task[t] EXCEPT !.at = "delTrack"]
           k == task[t].key
<1>1. Good(task[t]) /\ task[t].at = "dryDelete" /\ Go(t, f)
  BY TaskGood DEF DryDelete
<1>2. Undone(task[t]) = {} /\ k \in Key /\ k # NoKey
  BY <1>1, NothingUndone DEF Good, Fits, Frame, Points, Waiting
<1>3. Good(f)
  BY <1>1, <1>2, MoveGood
<1>4. /\ hot' \in Tier /\ Ordered(hot') /\ cold' \in Tier /\ Ordered(cold')
      /\ hot' = hot /\ cold' = cold /\ rows' \in [Key -> Row \cup {NoRow}]
      /\ dry \in [Key -> Val \cup {NoVal}] /\ dry' = [dry EXCEPT ![k] = NoVal]
  BY DEF Inv, TypeOK, DryDelete
<1>5. Removes(t, k)
  BY DEF Removes
<1> HIDE DEF f, k
<1>6. dry' \in [Key -> Val \cup {NoVal}]
  BY <1>4
<1>7. \A j \in Key : dry[j] # NoVal => dry'[j] # NoVal \/ Removes(t, j)
  BY <1>2, <1>4, <1>5
<1> QED
  BY <1>1, <1>2, <1>3, <1>4, <1>6, <1>7, SoundStep

LEMMA DelTrackSound ==
    ASSUME Inv, NEW t \in Task, DelTrack(t)
    PROVE  Inv' /\ Kept(t)
<1> DEFINE f == IF task[t].batch = <<>> THEN Idle ELSE [task[t] EXCEPT !.at = "ramDelete"]
<1>1. Good(task[t]) /\ task[t].at = "delTrack" /\ Go(t, f)
  BY TaskGood DEF DelTrack
<1>2. Undone(task[t]) = {} /\ task[t].key \in Key /\ task[t].key # NoKey
  BY <1>1, NothingUndone DEF Good, Fits, Frame, Points, Waiting
<1>3. UNCHANGED <<hot, cold, dry>>
  BY DEF DelTrack
<1>4. rows' \in [Key -> Row \cup {NoRow}]
  <2>1. /\ rows \in [Key -> Row \cup {NoRow}]
        /\ rows' = [rows EXCEPT ![task[t].key] = RecordDelete(@)]
    BY DEF Inv, TypeOK, DelTrack
  <2>2. \A row \in Row \cup {NoRow} : RecordDelete(row) \in Row \cup {NoRow}
    BY RowsKept
  <2> QED
    BY <1>2, <2>1, <2>2
<1>5. Good(f)
  BY <1>1, <1>2, IdleGood, MoveGood
<1> HIDE DEF f
<1> QED
  BY <1>1, <1>2, <1>3, <1>4, <1>5, SoundMove

LEMMA FlushSound ==
    ASSUME Inv, NEW t \in Task, NEW tier \in FlushTiers, Flush(t, tier)
    PROVE  Inv' /\ Kept(t)
<1> DEFINE f == IF tier \in {"dry", "all"} THEN [Idle EXCEPT !.at = "dryFlush"] ELSE Idle
<1>1. Good(f) /\ Go(t, f) /\ Undone(task[t]) = {}
  BY IdleGood, FlushGood, FreeHoldsNothing DEF Flush
<1>2. /\ hot' \in Tier /\ Ordered(hot') /\ cold' \in Tier /\ Ordered(cold')
      /\ dry' = dry /\ rows' \in [Key -> Row \cup {NoRow}]
  BY EmptyTier DEF Inv, TypeOK, Flush
<1>3. \A k : Removes(t, k)
  BY DEF Removes
<1> HIDE DEF f
<1> QED
  BY <1>1, <1>2, <1>3, SoundRamStep

LEMMA DryFlushSound ==
    ASSUME Inv, NEW t \in Task, DryFlush(t)
    PROVE  Inv' /\ Kept(t)
<1>1. Good(task[t]) /\ task[t].at = "dryFlush" /\ Go(t, Idle)
  BY TaskGood DEF DryFlush
<1>2. Undone(task[t]) = {}
  BY <1>1, NothingUndone
<1>3. /\ hot' \in Tier /\ Ordered(hot') /\ cold' \in Tier /\ Ordered(cold')
      /\ dry' \in [Key -> Val \cup {NoVal}] /\ rows' \in [Key -> Row \cup {NoRow}]
  BY DEF Inv, TypeOK, DryFlush
<1>4. \A k : Removes(t, k)
  BY DEF Removes
<1> QED
  BY <1>1, <1>2, <1>3, <1>4, IdleGood, SoundStep
-----------------------------------------------------------------------------
(***************************************************************************)
(* cleanup_expired: what is popped is in the frame.                        *)
(***************************************************************************)
LEMMA SweepColdFacts ==
    ASSUME Inv, NEW t \in Task, SweepCold(t)
    PROVE  \E f : /\ Good(f) /\ Go(t, f)
                  /\ cold' \in Tier /\ Ordered(cold')
                  /\ \A k \in Resident(cold) : k \in Resident(cold') \/ Has(f, k)
<1>1. cold \in Tier /\ Ordered(cold)
  BY DEF Inv, TypeOK
<1>2. PICK s \in Listings(cold, ExpiredKeys(cold)) :
         /\ cold' = Without(cold, ExpiredKeys(cold))
         /\ Go(t, Demote(Idle, WithValues(cold, s), "idle"))
  BY DEF SweepCold
<1> DEFINE h == WithValues(cold, s)
           f == Demote(Idle, h, "idle")
<1>3. /\ cold' \in Tier /\ Ordered(cold') /\ h \in Seq(Key \X Val)
      /\ \A k \in Resident(cold) : k \in Resident(cold') \/
            \E p \in {h[i] : i \in DOMAIN h} : p[1] = k
  BY <1>1, <1>2, DropExpired
<1>4. Go(t, f)
  BY <1>2
<1> HIDE DEF h
<1>5. Good(f) /\ Undone(f) = {h[i] : i \in DOMAIN h}
  BY <1>3, DemoteIdleGood
<1> HIDE DEF f
<1>6. \A k \in Resident(cold) : k \in Resident(cold') \/ Has(f, k)
  BY <1>3, <1>5 DEF Has
<1> QED
  BY <1>3, <1>4, <1>5, <1>6

LEMMA ColdSweepSound ==
    ASSUME Inv, NEW t \in Task, ColdSweep(t)
    PROVE  Inv' /\ Kept(t)
<1>1. Good(task[t]) /\ task[t].at = "coldSweep"
  BY TaskGood DEF ColdSweep
<1>2. Undone(task[t]) = {}
  BY <1>1, NothingUndone
<1>3. /\ hot' \in Tier /\ Ordered(hot') /\ hot' = hot /\ dry' = dry
      /\ rows' \in [Key -> Row \cup {NoRow}]
  BY DEF Inv, TypeOK, ColdSweep
<1>4. PICK f : /\ Good(f) /\ Go(t, f)
               /\ cold' \in Tier /\ Ordered(cold')
               /\ \A k \in Resident(cold) : k \in Resident(cold') \/ Has(f, k)
  BY SweepColdFacts DEF ColdSweep
<1> QED
  BY <1>2, <1>3, <1>4, SoundRamStep

LEMMA CleanupExpiredSound ==
    ASSUME Inv, NEW t \in Task, CleanupExpired(t)
    PROVE  Inv' /\ Kept(t)
<1>1. /\ hot \in Tier /\ Ordered(hot) /\ cold \in Tier /\ Ordered(cold)
      /\ dry' = dry /\ rows' \in [Key -> Row \cup {NoRow}]
  BY DEF Inv, TypeOK, CleanupExpired
<1>2. Undone(task[t]) = {}
  BY FreeHoldsNothing DEF CleanupExpired
<1>3. PICK s \in Listings(hot, ExpiredKeys(hot)) :
         /\ hot' = Without(hot, ExpiredKeys(hot))
         /\ IF s = <<>> THEN SweepCold(t)
            ELSE /\ Go(t, Demote(Idle, WithValues(hot, s), "coldSweep"))
                 /\ UNCHANGED cold
  BY DEF CleanupExpired
<1> DEFINE h == WithValues(hot, s)
           f == Demote(Idle, h, "coldSweep")
<1>4. /\ hot' \in Tier /\ Ordered(hot') /\ h \in Seq(Key \X Val)
      /\ \A k \in Resident(hot) : k \in Resident(hot') \/
            \E p \in {h[i] : i \in DOMAIN h} : p[1] = k
  BY <1>1, <1>3, DropExpired
<1>5. CASE s = <<>>
  <2>1. PICK g : /\ Good(g) /\ Go(t, g)
                 /\ cold' \in Tier /\ Ordered(cold')
                 /\ \A k \in Resident(cold) : k \in Resident(cold') \/ Has(g, k)
    BY <1>3, <1>5, SweepColdFacts
  <2>2. {h[i] : i \in DOMAIN h} = {}
    <3>1. DOMAIN s = {}
      BY <1>5
    <3>2. DOMAIN h = DOMAIN s
      BY DEF WithValues
    <3> HIDE DEF h
    <3> QED
      BY <3>1, <3>2
  <2>3. \A k \in Resident(hot) : k \in Resident(hot')
    BY <1>4, <2>2
  <2> QED
    BY <1>1, <1>2, <1>4, <2>1, <2>3, SoundRamStep
<1>6. CASE s # <<>>
  <2>1. Go(t, f) /\ UNCHANGED cold
    BY <1>3, <1>6
  <2> HIDE DEF h
  <2>2. Good(f) /\ Undone(f) = {h[i] : i \in DOMAIN h}
    BY <1>4, DemoteIdleGood
  <2> HIDE DEF f
  <2>3. \A k \in Resident(hot) : k \in Resident(hot') \/ Has(f, k)
    BY <1>4, <2>2 DEF Has
  <2> QED
    BY <1>1, <1>2, <1>4, <2>1, <2>2, <2>3, SoundRamStep
<1> QED
  BY <1>5, <1>6
-----------------------------------------------------------------------------
(***************************************************************************)
(* The world.                                                              *)
(***************************************************************************)
LEMMA TickSound ==
    ASSUME Inv, NEW d \in Steps, Tick(d)
    PROVE  Inv' /\ \A k \in Key : Held(k) => Held(k)'
<1>1. hot \in Tier /\ Ordered(hot) /\ cold \in Tier /\ Ordered(cold) /\ d \in Nat
  BY CallAssumption DEF Inv, TypeOK
<1>2. hot' = Aged(hot, d) /\ cold' = Aged(cold, d) /\ UNCHANGED <<dry, rows, task>>
  BY DEF Tick
<1>3. /\ hot' \in Tier /\ Ordered(hot') /\ Resident(hot') = Resident(hot)
      /\ cold' \in Tier /\ Ordered(cold') /\ Resident(cold') = Resident(cold)
  BY <1>1, <1>2, AgedTier
<1>4. Inv'
  BY <1>2, <1>3 DEF Inv, TypeOK, FrameOK
<1> QED
  BY <1>2, <1>3, <1>4 DEF Held, Pending

LEMMA AbortSound ==
    ASSUME Inv, NEW t \in Task, Abort(t)
    PROVE  Inv' /\ Kept(t)
<1>1. Go(t, Idle) /\ UNCHANGED <<hot, cold, dry, rows>>
  BY DEF Abort
<1>2. /\ hot' \in Tier /\ Ordered(hot') /\ cold' \in Tier /\ Ordered(cold')
      /\ hot' = hot /\ cold' = cold /\ dry' = dry
      /\ dry' \in [Key -> Val \cup {NoVal}] /\ rows' \in [Key -> Row \cup {NoRow}]
  BY <1>1 DEF Inv, TypeOK
<1>3. \A p \in Undone(task[t]) : Removes(t, p[1])
  BY DEF Removes, Pending
<1> QED
  BY <1>1, <1>2, <1>3, IdleGood, SoundStep

LEMMA RestartInv ==
    ASSUME Inv, Restart
    PROVE  Inv'
<1>1. /\ hot' = Empty /\ cold' = Empty /\ task' = [t \in Task |-> Idle]
      /\ UNCHANGED <<dry, rows>>
  BY DEF Restart
<1>2. Idle \in Frame /\ Fits(Idle)
  BY IdleGood DEF Good
<1>3. TypeOK'
  BY <1>1, <1>2, EmptyTier DEF Inv, TypeOK
<1>4. FrameOK'
  BY <1>1, <1>2 DEF FrameOK
<1> QED
  BY <1>1, <1>3, <1>4, EmptyTier DEF Inv
-----------------------------------------------------------------------------
(* The ttls of the requests are ttls.                                      *)
LEMMA GivenTTL == Given \subseteq TTL \cup {NoTTL}
BY CallAssumption DEF Given, TTLOf

(* Any step of a task is sound.                                            *)
LEMMA CallSound ==
    ASSUME Inv, NEW t \in Task, Call(t)
    PROVE  Inv' /\ Kept(t)
BY GivenTTL, GetSound, DeleteSound, SetSound, PurgeSound, FlushSound, CleanupExpiredSound
   DEF Call

LEMMA ProceedSound ==
    ASSUME Inv, NEW t \in Task, Proceed(t)
    PROVE  Inv' /\ Kept(t)
<1>1. CASE Demotion(t)
  BY <1>1, DryWriteSound, DryTrackSound DEF Demotion
<1>2. CASE Lookup(t)
  BY <1>2, ColdGetSound, DryReadSound, HitTrackSound, MissTrackSound, PromoteSound
     DEF Lookup
<1>3. CASE Removal(t)
  BY <1>3, RamDeleteSound, DryDeleteSound, DelTrackSound DEF Removal
<1> QED
  BY <1>1, <1>2, <1>3, SetTrackSound, DryFlushSound, ColdSweepSound DEF Proceed

LossSeen ==
    \A k \in Key : Held(k) /\ ~Held(k)' => Restart \/ \E t \in Task : Removes(t, k)

LEMMA NextSound == Inv /\ [Next]_vars => Inv' /\ [LossSeen]_vars
<1> SUFFICES ASSUME Inv, [Next]_vars PROVE Inv' /\ [LossSeen]_vars
  OBVIOUS
<1>1. ASSUME NEW t \in Task, Call(t) \/ Proceed(t) \/ Abort(t)
      PROVE  Inv' /\ LossSeen
  <2>1. Inv' /\ Kept(t)
    BY <1>1, CallSound, ProceedSound, AbortSound
  <2> QED
    BY <2>1 DEF Kept, LossSeen
<1>2. ASSUME NEW d \in Steps, Tick(d) PROVE Inv' /\ LossSeen
  BY <1>2, TickSound DEF LossSeen
<1>3. CASE Restart
  BY <1>3, RestartInv DEF LossSeen
<1>4. CASE UNCHANGED vars
  BY <1>4 DEF vars, Inv, TypeOK, FrameOK
<1>5. CASE Undisturbed
  BY <1>1, <1>2, <1>5 DEF Undisturbed
<1>6. CASE \E t \in Task : Abort(t)
  BY <1>1, <1>6
<1> QED
  BY <1>3, <1>4, <1>5, <1>6 DEF Next

(* All tiers and rows are empty, but for what cold may begin with.         *)
LEMMA InitInv == Init => Inv
<1> SUFFICES ASSUME Init PROVE Inv
  OBVIOUS
<1>1. /\ hot = Empty /\ cold \in Tier /\ Ordered(cold)
      /\ dry = [k \in Key |-> NoVal] /\ rows = [k \in Key |-> NoRow]
      /\ task = [t \in Task |-> Idle]
  BY ColdAssumption DEF Init
<1>2. Idle \in Frame /\ Fits(Idle)
  BY IdleGood DEF Good
<1> QED
  BY <1>1, <1>2, EmptyTier DEF Inv, TypeOK, FrameOK

(* The inductive invariant holds in every state.                           *)
THEOREM AlwaysInv == Spec => []Inv
<1>1. Inv /\ [Next]_vars => Inv'
  BY NextSound
<1> QED
  BY <1>1, InitInv, PTL DEF Spec

(* The tiers, the rows and the frames are well typed, with every tracking  *)
(* store and any number of tasks (manager.py 58-190).                      *)
THEOREM TypeCorrect == Spec => []TypeOK
<1>1. Inv => TypeOK
  BY DEF Inv
<1> QED
  BY <1>1, AlwaysInv, PTL

(* No entry is lost between the tiers, however many tasks move entries at  *)
(* once, unless it is removed, aborted with its demotion, or the process   *)
(* ends (manager.py 54-55, 87-184).                                        *)
THEOREM NothingLost == Spec => NoSilentLoss
<1>1. Inv /\ [Next]_vars => [LossSeen]_vars
  BY NextSound
<1> QED
  BY <1>1, AlwaysInv, PTL DEF Spec, NoSilentLoss, LossSeen
-----------------------------------------------------------------------------
(***************************************************************************)
(* The hit history in the stores that keep it.                             *)
(***************************************************************************)
HitsKept ==
    \A k \in Key : Hits(k)' < Hits(k) =>
        \E t \in Task : task[t].key = k /\
            (DelTrack(t) \/ (SetTrack(t) /\ task[t].reset))

HitsOf(row) == IF row = NoRow THEN 0 ELSE row.hits

LEMMA HitsAreNumbers ==
    ASSUME rows \in [Key -> Row \cup {NoRow}]
    PROVE  \A k \in Key : Hits(k) = HitsOf(rows[k]) /\ Hits(k) \in Nat
BY DEF Hits, HitsOf, Row

LEMMA RowsUnchanged ==
    ASSUME rows \in [Key -> Row \cup {NoRow}], rows' = rows
    PROVE  HitsKept
<1>1. \A k \in Key : Hits(k)' = Hits(k) /\ Hits(k) \in Nat
  BY HitsAreNumbers DEF Hits
<1> QED
  BY <1>1 DEF HitsKept

LEMMA OneRowChanged ==
    ASSUME rows \in [Key -> Row \cup {NoRow}], NEW j \in Key, NEW row \in Row \cup {NoRow},
           rows' = [rows EXCEPT ![j] = row],
           \/ HitsOf(row) >= HitsOf(rows[j])
           \/ \E t \in Task : task[t].key = j /\
                 (DelTrack(t) \/ (SetTrack(t) /\ task[t].reset))
    PROVE  HitsKept
<1> SUFFICES ASSUME NEW k \in Key, Hits(k)' < Hits(k)
             PROVE  \E t \in Task : task[t].key = k /\
                       (DelTrack(t) \/ (SetTrack(t) /\ task[t].reset))
  BY DEF HitsKept
<1>1. Hits(k) = HitsOf(rows[k]) /\ Hits(k) \in Nat /\ Hits(k)' = HitsOf(rows'[k])
  BY HitsAreNumbers DEF Hits, HitsOf
<1>2. k = j
  <2>1. k # j => rows'[k] = rows[k]
    OBVIOUS
  <2>2. rows'[k] = rows[k] => Hits(k)' = Hits(k)
    BY <1>1
  <2> QED
    BY <1>1, <2>1, <2>2
<1>3. HitsOf(rows'[j]) = HitsOf(row)
  OBVIOUS
<1>4. HitsOf(row) \in Nat
  BY DEF HitsOf, Row
<1> QED
  BY <1>1, <1>2, <1>3, <1>4

(* What sqlite writes on a tier change has the hits there were, and a hit  *)
(* has one more; without a store there is nothing to lose.                 *)
LEMMA SQLiteKeepsHits ==
    ASSUME Store \in {"sqlite", "null"}, NEW row \in Row \cup {NoRow},
           NEW tier \in {"hot", "cold", "dry"}
    PROVE  /\ HitsOf(RecordSet(row, tier, FALSE)) >= HitsOf(row)
           /\ HitsOf(RecordHit(row)) >= HitsOf(row)
<1> DEFINE moved == RecordSet(row, tier, FALSE)
           hit == RecordHit(row)
<1>1. HitsOf(row) \in Nat
  BY DEF HitsOf, Row
<1>2. CASE Store = "null"
  <2>1. moved = row /\ hit = row
    BY <1>2 DEF RecordSet, RecordHit
  <2> HIDE DEF moved, hit
  <2>2. HitsOf(moved) >= HitsOf(row) /\ HitsOf(hit) >= HitsOf(row)
    BY <1>1, <2>1
  <2> QED
    BY <2>2 DEF moved, hit
<1>3. CASE Store = "sqlite" /\ row = NoRow
  <2>1. moved = FreshRow(tier) /\ FreshRow(tier) \in Row /\ FreshRow(tier).hits = 0
    BY <1>3 DEF RecordSet, SQLiteRecordSet, FreshRow, Row
  <2>2. hit = NoRow
    BY <1>3 DEF RecordHit, SQLiteRecordHit
  <2> HIDE DEF moved, hit
  <2>3. HitsOf(moved) >= HitsOf(row) /\ HitsOf(hit) >= HitsOf(row)
    BY <1>3, <2>1, <2>2, NoRowAssumption DEF HitsOf
  <2> QED
    BY <2>3 DEF moved, hit
<1>4. CASE Store = "sqlite" /\ row # NoRow
  <2>1. row \in Row
    BY <1>4
  <2>2. moved = [row EXCEPT !.tier = tier]
    BY <1>4 DEF RecordSet, SQLiteRecordSet
  <2>3. hit = Counted(row)
    BY <1>4 DEF RecordHit, SQLiteRecordHit
  <2> HIDE DEF moved, hit
  <2>4. moved \in Row /\ moved.hits = row.hits
    BY <2>1, <2>2 DEF Row
  <2>5. hit \in Row /\ hit.hits = row.hits + 1 /\ row.hits \in Nat
    BY <2>1, <2>3 DEF Row, Counted
  <2>6. HitsOf(moved) >= HitsOf(row) /\ HitsOf(hit) >= HitsOf(row)
    BY <1>4, <2>4, <2>5, NoRowAssumption DEF HitsOf
  <2> QED
    BY <2>6 DEF moved, hit
<1> QED
  BY <1>2, <1>3, <1>4

(* Only the steps that write a row matter; the frame says which one.       *)
LEMMA ProceedKeepsHits ==
    ASSUME Inv, Store \in {"sqlite", "null"}, NEW t \in Task, Proceed(t)
    PROVE  HitsKept
<1>1. rows \in [Key -> Row \cup {NoRow}] /\ Good(task[t])
  BY TaskGood DEF Inv, TypeOK
<1>2. CASE rows' = rows
  BY <1>1, <1>2, RowsUnchanged
<1>3. CASE DryTrack(t)
  <2> DEFINE j == Head(task[t].todo)[1]
             row == RecordSet(rows[j], "dry", FALSE)
  <2>1. task[t].todo # <<>> /\ task[t].todo \in Seq(Key \X Val)
    BY <1>1, <1>3 DEF DryTrack, Good, Fits, Frame
  <2>2. j \in Key
    BY <2>1
  <2>3. rows' = [rows EXCEPT ![j] = row]
    BY <1>3 DEF DryTrack
  <2> HIDE DEF j
  <2>4. row \in Row \cup {NoRow} /\ HitsOf(row) >= HitsOf(rows[j])
    BY <1>1, <2>2, RowsKept, SQLiteKeepsHits
  <2> QED
    BY <1>1, <2>2, <2>3, <2>4, OneRowChanged
<1>4. CASE HitTrack(t)
  <2> DEFINE j == task[t].key
             row == RecordHit(rows[j])
  <2>1. j \in Key
    BY <1>1, <1>4 DEF HitTrack, Good, Fits, Frame, Points, Waiting
  <2>2. rows' = [rows EXCEPT ![j] = row]
    BY <1>4 DEF HitTrack
  <2> HIDE DEF j
  <2>3. row \in Row \cup {NoRow} /\ HitsOf(row) >= HitsOf(rows[j])
    BY <1>1, <2>1, RowsKept, SQLiteKeepsHits
  <2> QED
    BY <1>1, <2>1, <2>2, <2>3, OneRowChanged
<1>5. CASE SetTrack(t)
  <2> DEFINE j == task[t].key
             row == RecordSet(rows[j], "hot", task[t].reset)
  <2>1. j \in Key /\ task[t].reset \in BOOLEAN
    BY <1>1, <1>5 DEF SetTrack, Good, Fits, Frame, Points, Waiting
  <2>2. rows' = [rows EXCEPT ![j] = row]
    BY <1>5 DEF SetTrack
  <2>3. rows[j] \in Row \cup {NoRow}
    BY <1>1, <2>1
  <2>4. row \in Row \cup {NoRow}
    BY <2>1, <2>3, RowsKept
  <2>5. CASE task[t].reset
    BY <1>1, <1>5, <2>1, <2>2, <2>4, <2>5, OneRowChanged
  <2>6. CASE ~task[t].reset
    <3>1. task[t].reset = FALSE
      BY <2>1, <2>6
    <3>2. HitsOf(row) >= HitsOf(rows[j])
      BY <2>3, <3>1, SQLiteKeepsHits
    <3> QED
      BY <1>1, <2>1, <2>2, <2>4, <3>2, OneRowChanged
  <2> QED
    BY <2>5, <2>6
<1>6. CASE DelTrack(t)
  <2> DEFINE j == task[t].key
             row == RecordDelete(rows[j])
  <2>1. j \in Key
    BY <1>1, <1>6 DEF DelTrack, Good, Fits, Frame, Points, Waiting
  <2>2. rows' = [rows EXCEPT ![j] = row]
    BY <1>6 DEF DelTrack
  <2>3. row \in Row \cup {NoRow}
    BY <1>1, <2>1 DEF RecordDelete
  <2> QED
    BY <1>1, <1>6, <2>1, <2>2, <2>3, OneRowChanged
<1> QED
  BY <1>2, <1>3, <1>4, <1>5, <1>6
     DEF Proceed, Demotion, Lookup, Removal, DryWrite, ColdGet, DryRead, MissTrack, Promote,
         RamDelete, DeleteFromRam, DryDelete, DryFlush, ColdSweep

(* With sqlite, and with no store, only a set or a delete of a key lets    *)
(* its hit count fall, however tasks and tier changes interleave           *)
(* (tracking/base.py 17, sqlite.py 78).                                    *)
THEOREM HitHistoryKept ==
    ASSUME Store \in {"sqlite", "null"}
    PROVE  Spec => HitHistorySurvivesTierChange
<1>1. ASSUME Inv, [Next]_vars PROVE [HitsKept]_vars
  <2>1. rows \in [Key -> Row \cup {NoRow}]
    BY <1>1 DEF Inv, TypeOK
  <2>2. ASSUME NEW t \in Task, Call(t) PROVE rows' = rows
    BY <2>2 DEF Call, Get, Delete, DeleteFromRam, Set, Purge, Flush, CleanupExpired, vars
  <2>3. ASSUME NEW t \in Task, Proceed(t) PROVE HitsKept
    BY <1>1, <2>3, ProceedKeepsHits
  <2>4. (\E d \in Steps : Tick(d)) \/ (\E t \in Task : Abort(t)) \/ Restart => rows' = rows
    BY DEF Tick, Abort, Restart
  <2> QED
    BY <1>1, <2>1, <2>2, <2>3, <2>4, RowsUnchanged DEF Next, Undisturbed
<1> QED
  BY <1>1, AlwaysInv, PTL DEF Spec, HitHistorySurvivesTierChange, HitsKept
-----------------------------------------------------------------------------
(***************************************************************************)
(* The frames, field by field.                                             *)
(***************************************************************************)
Quiet(f) == f.todo = <<>> /\ f.then = "idle"

LEMMA IdleShape ==
    /\ Idle \in Frame /\ Quiet(Idle) /\ Idle.at = "idle" /\ Idle.key = NoKey
    /\ Idle.batch = <<>> /\ Idle.val = NoVal
BY IdleGood DEF Good, Idle, Quiet

LEMMA ForShape ==
    ASSUME NEW k \in Key
    PROVE  /\ For(k) \in Frame /\ Quiet(For(k)) /\ For(k).key = k
           /\ For(k).batch = <<>> /\ For(k).val = NoVal
<1>1. For(k) \in Frame /\ For(k).key = k /\ Quiet(For(k))
  BY ForFrame DEF Quiet
<1>2. For(k).batch = <<>> /\ For(k).val = NoVal
  BY IdleShape DEF For, Frame
<1> QED
  BY <1>1, <1>2

LEMMA ResetShape ==
    ASSUME NEW k \in Key, NEW v \in Val, NEW r \in BOOLEAN
    PROVE  LET f == Written(k, v, r) IN
           /\ f \in Frame /\ Quiet(f) /\ f.key = k /\ f.batch = <<>>
           /\ f.val = v /\ f.reset = r
<1>1. For(k) \in Frame /\ Quiet(For(k)) /\ For(k).key = k /\ For(k).batch = <<>>
  BY ForShape
<1> QED
  BY <1>1 DEF Frame, Quiet, Written

LEMMA OnShape ==
    ASSUME NEW k \in Key, NEW point \in Points
    PROVE  LET f == On(point, k) IN
           /\ f \in Frame /\ Quiet(f) /\ f.at = point /\ f.key = k
           /\ f.batch = <<>> /\ f.val = NoVal
<1>1. For(k) \in Frame /\ Quiet(For(k)) /\ For(k).key = k
      /\ For(k).batch = <<>> /\ For(k).val = NoVal
  BY ForShape
<1> QED
  BY <1>1 DEF On, Frame, Quiet

LEMMA DeleteShape ==
    ASSUME NEW k \in Key, NEW b \in Seq(Key)
    PROVE  LET g == [On("dryDelete", k) EXCEPT !.batch = b] IN
           /\ g \in Frame /\ Quiet(g) /\ g.at = "dryDelete" /\ g.key = k /\ g.batch = b
<1>1. "dryDelete" \in Points
  BY DEF Points, Waiting
<1>2. /\ On("dryDelete", k) \in Frame /\ Quiet(On("dryDelete", k))
      /\ On("dryDelete", k).at = "dryDelete" /\ On("dryDelete", k).key = k
  BY <1>1, OnShape
<1> QED
  BY <1>2 DEF Frame, Quiet

LEMMA HitShape ==
    ASSUME NEW k \in Key, NEW v \in Val, NEW tier \in {"hot", "cold", "dry"}
    PROVE  LET f == Hit(k, tier, v)
           IN  /\ f \in Frame /\ Quiet(f) /\ f.at = "hitTrack" /\ f.key = k
               /\ f.batch = <<>> /\ f.val = v /\ f.tier = tier
<1> DEFINE f == [On("hitTrack", k) EXCEPT !.tier = tier, !.val = v]
<1>1. "hitTrack" \in Points
  BY DEF Points, Waiting
<1>2. /\ On("hitTrack", k) \in Frame /\ Quiet(On("hitTrack", k))
      /\ On("hitTrack", k).at = "hitTrack" /\ On("hitTrack", k).key = k
      /\ On("hitTrack", k).batch = <<>>
  BY <1>1, OnShape
<1>3. /\ f \in Frame /\ Quiet(f) /\ f.at = "hitTrack" /\ f.key = k
      /\ f.batch = <<>> /\ f.val = v /\ f.tier = tier
  BY <1>2 DEF Frame, Quiet
<1> QED
  BY <1>3 DEF Hit

(* A frame goes on with the call it is of.                                 *)
KeepsCall(f, g) ==
    g.key = f.key /\ g.batch = f.batch /\ g.val = f.val /\ g.reset = f.reset

LEMMA ResetKept ==
    ASSUME NEW f \in Frame, NEW point \in Points
    PROVE  /\ KeepsCall(f, [f EXCEPT !.at = point])
           /\ \A s, then : KeepsCall(f, [f EXCEPT !.at = point, !.todo = s, !.then = then])
           /\ \A s : KeepsCall(f, [f EXCEPT !.at = point, !.todo = s])
BY DEF Frame, KeepsCall

(* The frames that are not of a set.                                       *)
LEMMA NoReset ==
    /\ ~Idle.reset
    /\ \A k : ~For(k).reset
    /\ \A k, point : ~On(point, k).reset
    /\ \A k, b : ~[On("dryDelete", k) EXCEPT !.batch = b].reset
    /\ \A k, tier, v : ~Hit(k, tier, v).reset
<1>1. ~Idle.reset
  BY DEF Idle
<1>2. ASSUME NEW k PROVE ~For(k).reset
  BY DEF For, Idle
<1>3. ASSUME NEW k, NEW point PROVE ~On(point, k).reset
  BY DEF On, For, Idle
<1>4. ASSUME NEW k, NEW b PROVE ~[On("dryDelete", k) EXCEPT !.batch = b].reset
  BY DEF On, For, Idle
<1>5. ASSUME NEW k, NEW tier, NEW v PROVE ~Hit(k, tier, v).reset
  BY DEF Hit, On, For, Idle
<1> QED
  BY <1>1, <1>2, <1>3, <1>4, <1>5

LEMMA DemoteKeeps ==
    ASSUME NEW f \in Frame, NEW s, NEW then \in Onward
    PROVE  KeepsCall(f, Demote(f, s, then))
<1>1. then \in Points /\ "dryWrite" \in Points
  BY DEF Onward, Points, Waiting, Resumed
<1>2. CASE s = <<>>
  BY <1>1, <1>2, ResetKept DEF Demote
<1>3. CASE s # <<>>
  BY <1>1, <1>3, ResetKept DEF Demote
<1> QED
  BY <1>2, <1>3

LEMMA AfterDemotionKeeps ==
    ASSUME NEW f \in Frame
    PROVE  AfterDemotion(f) = Idle \/ KeepsCall(f, AfterDemotion(f))
<1>1. "dryWrite" \in Points /\ f.then \in Points
  BY DEF Points, Waiting, Frame
<1>2. CASE Tail(f.todo) # <<>>
  BY <1>1, <1>2, ResetKept DEF AfterDemotion
<1>3. CASE Tail(f.todo) = <<>> /\ f.then # "idle"
  BY <1>1, <1>3, ResetKept DEF AfterDemotion
<1> QED
  BY <1>2, <1>3 DEF AfterDemotion

LEMMA DemoteShape ==
    ASSUME NEW f \in Frame, f.todo = <<>>, f.then = "idle",
           NEW s \in Seq(Key \X Val), NEW then \in Onward
    PROVE  LET g == Demote(f, s, then) IN
           /\ g \in Frame /\ g.key = f.key /\ g.val = f.val /\ g.batch = f.batch
           /\ g.tier = f.tier /\ g.todo = s
<1> DEFINE g == Demote(f, s, then)
<1>1. then \in Points /\ "dryWrite" \in Points
  BY DEF Onward, Points, Waiting, Resumed
<1>2. CASE s = <<>>
  <2>1. g = [f EXCEPT !.at = then]
    BY <1>2 DEF Demote
  <2> HIDE DEF g
  <2>2. /\ g \in Frame /\ g.key = f.key /\ g.val = f.val /\ g.batch = f.batch
        /\ g.tier = f.tier /\ g.todo = f.todo
    BY <1>1, <2>1 DEF Frame
  <2> QED
    BY <1>2, <2>2 DEF g
<1>3. CASE s # <<>>
  <2>1. g = [f EXCEPT !.at = "dryWrite", !.todo = s, !.then = then]
    BY <1>3 DEF Demote
  <2> HIDE DEF g
  <2>2. /\ g \in Frame /\ g.key = f.key /\ g.val = f.val /\ g.batch = f.batch
        /\ g.tier = f.tier /\ g.todo = s
    BY <1>1, <2>1 DEF Frame
  <2> QED
    BY <2>2 DEF g
<1> QED
  BY <1>2, <1>3

(* Where it is: at the first pair, or already where it goes on.            *)
LEMMA DemoteNothing ==
    ASSUME NEW f \in Frame, NEW then
    PROVE  Demote(f, <<>>, then).at = then /\ Demote(f, <<>>, then).then = f.then
BY DEF Demote, Frame

LEMMA DemoteSome ==
    ASSUME NEW f \in Frame, NEW s, s # <<>>, NEW then
    PROVE  Demote(f, s, then).at = "dryWrite" /\ Demote(f, s, then).then = then
<1> DEFINE g == Demote(f, s, then)
<1>1. g = [f EXCEPT !.at = "dryWrite", !.todo = s, !.then = then]
  BY DEF Demote
<1> HIDE DEF g
<1>2. g.at = "dryWrite" /\ g.then = then
  BY <1>1 DEF Frame
<1> QED
  BY <1>2 DEF g

(* A frame that the code moves to another place keeps the rest.            *)
LEMMA MovedShape ==
    ASSUME NEW f \in Frame, NEW point \in Points
    PROVE  LET g == [f EXCEPT !.at = point] IN
           /\ g \in Frame /\ g.at = point /\ g.key = f.key /\ g.val = f.val
           /\ g.tier = f.tier /\ g.todo = f.todo
           /\ g.then = f.then /\ g.batch = f.batch
BY DEF Frame

(***************************************************************************)
(* The pairs of a listing: all of the keys listed, each once.              *)
(***************************************************************************)
Once(s) == \A i, j \in DOMAIN s : s[i][1] = s[j][1] => i = j

LEMMA ListedOnce ==
    ASSUME NEW tier \in Tier, Ordered(tier), NEW D \in SUBSET Resident(tier),
           NEW s \in Listings(tier, D)
    PROVE  /\ WithValues(tier, s) \in Seq(Key \X Val)
           /\ {WithValues(tier, s)[i] : i \in DOMAIN WithValues(tier, s)}
                 = {<<k, tier.item[k].val>> : k \in D}
           /\ Once(WithValues(tier, s))
           /\ WithValues(tier, s) = <<>> <=> D = {}
           /\ s = <<>> <=> D = {}
<1> DEFINE n == Cardinality(D)
           h == WithValues(tier, s)
<1>1. /\ h \in Seq(Key \X Val)
      /\ {h[i] : i \in DOMAIN h} = {<<k, tier.item[k].val>> : k \in D}
  BY ListedValues
<1>2. IsFiniteSet(D) /\ n \in Nat
  BY ResidentEntries, FS_CardinalityType
<1>3. s \in [1 .. n -> D] /\ \A i, j \in 1 .. n : i < j => <<s[i], s[j]>> \in tier.older
  BY DEF Listings
<1>4. s \in Seq(D) /\ {s[i] : i \in DOMAIN s} = D
  BY <1>2, ListingElements
<1>5. h = [i \in 1 .. n |-> <<s[i], tier.item[s[i]].val>>]
  BY <1>3 DEF WithValues
<1>6. \A i, j \in 1 .. n : s[i] = s[j] => i = j
  <2>1. ASSUME NEW i \in 1 .. n, NEW j \in 1 .. n, s[i] = s[j], i < j PROVE FALSE
    <3>1. <<s[i], s[i]>> \in tier.older
      BY <1>3, <2>1
    <3>2. s[i] \in Resident(tier)
      BY <1>3
    <3> QED
      BY <3>1, <3>2 DEF Ordered
  <2> QED
    BY <1>2, <2>1
<1>7. Once(h)
  BY <1>5, <1>6 DEF Once
<1>8. s = <<>> <=> D = {}
  BY <1>4
<1>9. h = <<>> <=> D = {}
  <2>1. D = {} => n = 0
    BY FS_EmptySet
  <2>2. D = {} => h = <<>>
    BY <1>5, <2>1
  <2>3. h = <<>> => D = {}
    <3> SUFFICES ASSUME h = <<>> PROVE D = {}
      OBVIOUS
    <3>1. {h[i] : i \in DOMAIN h} = {}
      <4>1. DOMAIN h = {}
        OBVIOUS
      <4> HIDE DEF h
      <4> QED
        BY <4>1
    <3>2. {<<k, tier.item[k].val>> : k \in D} = {}
      BY <1>1, <3>1
    <3> QED
      BY <3>2
  <2> QED
    BY <2>2, <2>3
<1> QED
  BY <1>1, <1>7, <1>8, <1>9

(* The demotion of a pair is over: the next one, or on with the call.      *)
LEMMA AfterDemotionShape ==
    ASSUME NEW f, Good(f), f.at = "dryTrack"
    PROVE  LET g == AfterDemotion(f) IN
           \/ /\ Tail(f.todo) # <<>> /\ g.at = "dryWrite" /\ g.todo = Tail(f.todo)
              /\ g.then = f.then /\ g.key = f.key /\ g.batch = f.batch
           \/ Tail(f.todo) = <<>> /\ f.then = "idle" /\ g = Idle
           \/ /\ Tail(f.todo) = <<>> /\ f.then # "idle" /\ g.at = f.then /\ Quiet(g)
              /\ g.key = f.key /\ g.batch = f.batch
<1> DEFINE g == AfterDemotion(f)
<1>1. f \in Frame
  BY DEF Good
<1>2. CASE Tail(f.todo) # <<>>
  <2>1. g = [f EXCEPT !.at = "dryWrite", !.todo = Tail(f.todo)]
    BY <1>2 DEF AfterDemotion
  <2> HIDE DEF g
  <2>2. /\ g.at = "dryWrite" /\ g.todo = Tail(f.todo)
        /\ g.then = f.then /\ g.key = f.key /\ g.batch = f.batch
    BY <1>1, <2>1 DEF Frame
  <2> QED
    BY <1>2, <2>2 DEF g
<1>3. CASE Tail(f.todo) = <<>> /\ f.then = "idle"
  BY <1>3 DEF AfterDemotion
<1>4. CASE Tail(f.todo) = <<>> /\ f.then # "idle"
  <2>1. g = [f EXCEPT !.at = f.then, !.todo = <<>>, !.then = "idle"]
    BY <1>4 DEF AfterDemotion
  <2> HIDE DEF g
  <2>2. /\ g.at = f.then /\ g.todo = <<>> /\ g.then = "idle"
        /\ g.key = f.key /\ g.batch = f.batch
    BY <1>1, <2>1 DEF Frame
  <2> QED
    BY <1>4, <2>2 DEF g, Quiet
<1> QED
  BY <1>2, <1>3, <1>4

(***************************************************************************)
(* The frame g has the entries D of hot to demote, and then goes on.       *)
(***************************************************************************)
Evicting(g, D, then) ==
    /\ {g.todo[i] : i \in DOMAIN g.todo} = {<<j, hot.item[j].val>> : j \in D}
    /\ Once(g.todo)
    /\ D = {} => Quiet(g) /\ g.at = then
    /\ D # {} => g.todo # <<>> /\ g.at = "dryWrite" /\ g.then = then
    /\ g.batch = <<>>

LEMMA EvictingListed ==
    ASSUME hot \in Tier, Ordered(hot), NEW D \in SUBSET Resident(hot),
           NEW s \in Listings(hot, D), NEW then \in Onward,
           NEW f \in Frame, f.todo = <<>>, f.then = "idle", f.batch = <<>>
    PROVE  LET g == Demote(f, WithValues(hot, s), then) IN
           g \in Frame /\ Evicting(g, D, then) /\ g.key = f.key
<1> DEFINE h == WithValues(hot, s)
           g == Demote(f, h, then)
<1>1. /\ h \in Seq(Key \X Val)
      /\ {h[i] : i \in DOMAIN h} = {<<k, hot.item[k].val>> : k \in D}
      /\ Once(h)
      /\ h = <<>> <=> D = {}
  BY ListedOnce
<1> HIDE DEF h
<1>2. g \in Frame /\ g.key = f.key /\ g.batch = f.batch /\ g.todo = h
  BY <1>1, DemoteShape
<1>3. ASSUME D = {} PROVE g.at = then /\ g.then = "idle"
  BY <1>1, <1>3, DemoteNothing
<1>4. ASSUME D # {} PROVE g.at = "dryWrite" /\ g.then = then
  BY <1>1, <1>4, DemoteSome
<1> HIDE DEF g
<1>5. Evicting(g, D, then)
  BY <1>1, <1>2, <1>3, <1>4 DEF Evicting, Quiet
<1> QED
  BY <1>2, <1>5 DEF g, h

LEMMA EvictingOne ==
    ASSUME hot \in Tier, Ordered(hot), NEW k \in Resident(hot), NEW then \in Onward,
           NEW f \in Frame, f.todo = <<>>, f.then = "idle", f.batch = <<>>
    PROVE  LET g == Demote(f, <<<<k, hot.item[k].val>>>>, then) IN
           g \in Frame /\ Evicting(g, {k}, then) /\ g.key = f.key
<1> DEFINE h == <<<<k, hot.item[k].val>>>>
           g == Demote(f, h, then)
<1>1. h \in Seq(Key \X Val) /\ {h[i] : i \in DOMAIN h} = {<<k, hot.item[k].val>>}
  BY DropOne
<1>2. Once(h) /\ h # <<>>
  BY DEF Once
<1> HIDE DEF h
<1>3. g \in Frame /\ g.key = f.key /\ g.batch = f.batch /\ g.todo = h
  BY <1>1, DemoteShape
<1>4. g.at = "dryWrite" /\ g.then = then
  BY <1>2, DemoteSome
<1> HIDE DEF g
<1>5. {<<j, hot.item[j].val>> : j \in {k}} = {<<k, hot.item[k].val>>}
  OBVIOUS
<1>6. Evicting(g, {k}, then)
  BY <1>1, <1>2, <1>3, <1>4, <1>5 DEF Evicting
<1> QED
  BY <1>3, <1>6 DEF g, h
-----------------------------------------------------------------------------
(***************************************************************************)
(* Where values come from.  W[k] is a set of values; all that a tier, dry  *)
(* or a frame has of k is from it.                                         *)
(***************************************************************************)
TierFrom(tier, W) == \A k \in Resident(tier) : tier.item[k].val \in W[k]

DryFrom(d, W) == \A k \in Key : d[k] # NoVal => d[k] \in W[k]

FrameFrom(f, W) ==
    /\ \A p \in Undone(f) : p[2] \in W[p[1]]
    /\ f.at \in {"hitTrack", "promote"} => f.val \in W[f.key]

From(f, h, c, d, W) ==
    TierFrom(h, W) /\ TierFrom(c, W) /\ DryFrom(d, W) /\ FrameFrom(f, W)

LEMMA WithoutFrom ==
    ASSUME NEW tier \in Tier, Ordered(tier), NEW D \in SUBSET Key, NEW W, TierFrom(tier, W)
    PROVE  TierFrom(Without(tier, D), W)
<1>1. Resident(tier) \subseteq Key
  BY ResidentEntries
<1> QED
  BY <1>1, WithoutTier DEF TierFrom

LEMMA TouchedFrom ==
    ASSUME NEW tier \in Tier, Ordered(tier), NEW k \in Resident(tier), NEW W, TierFrom(tier, W)
    PROVE  TierFrom(Touched(tier, k), W)
BY TouchedTier DEF TierFrom

LEMMA AgedFrom ==
    ASSUME NEW tier \in Tier, Ordered(tier), NEW d \in Nat, NEW W, TierFrom(tier, W)
    PROVE  TierFrom(Aged(tier, d), W)
BY AgedTier DEF TierFrom

LEMMA StoredFrom ==
    ASSUME NEW tier \in Tier, Ordered(tier), NEW k \in Key, NEW v \in Val,
           NEW ttl \in TTL \cup {NoTTL}, NEW D \in SUBSET Resident(tier),
           NEW W, TierFrom(tier, W), v \in W[k]
    PROVE  TierFrom(Stored(tier, k, v, ttl, D), W)
<1> DEFINE new == Stored(tier, k, v, ttl, D)
<1>1. /\ Resident(new) = (Resident(tier) \ D) \cup {k}
      /\ new.item[k].val = v
      /\ \A j \in Key \ (D \cup {k}) : new.item[j] = tier.item[j]
  BY StoredTier
<1>2. Resident(tier) \subseteq Key
  BY ResidentEntries
<1> HIDE DEF new
<1>3. TierFrom(new, W)
  BY <1>1, <1>2 DEF TierFrom
<1> QED
  BY <1>3 DEF new

LEMMA EmptyFrom == \A W : TierFrom(Empty, W)
BY EmptyTier DEF TierFrom

LEMMA IdleFrom == \A W : FrameFrom(Idle, W)
BY IdleGood, IdleShape DEF FrameFrom

LEMMA HitFrom ==
    ASSUME NEW k \in Key, NEW v \in Val, NEW tier \in {"hot", "cold", "dry"},
           NEW W, v \in W[k]
    PROVE  FrameFrom(Hit(k, tier, v), W)
BY HitGood, HitShape DEF FrameFrom

LEMMA OnFrom ==
    ASSUME NEW k \in Key, NEW point \in {"dryRead", "missTrack"}, NEW W
    PROVE  FrameFrom(On(point, k), W)
<1>1. point \in Points /\ <<>> \in Seq(Key)
  BY DEF Points, Waiting
<1>2. Undone(On(point, k)) = {}
  BY <1>1, OnGood
<1>3. On(point, k).at = point
  BY <1>1, OnShape
<1> QED
  BY <1>2, <1>3 DEF FrameFrom

LEMMA DeleteFrom ==
    ASSUME NEW k \in Key, NEW b \in Seq(Key), NEW W
    PROVE  FrameFrom([On("dryDelete", k) EXCEPT !.batch = b], W)
<1> DEFINE g == [On("dryDelete", k) EXCEPT !.batch = b]
<1>1. Undone(g) = {}
  BY OnGood
<1>2. g.at = "dryDelete"
  BY DeleteShape
<1> QED
  BY <1>1, <1>2 DEF FrameFrom

LEMMA DemoteFrom ==
    ASSUME NEW f \in Frame, f.todo = <<>>, f.then = "idle", NEW then \in Onward,
           NEW s \in Seq(Key \X Val), f.key # NoKey \/ then \in {"idle", "coldSweep"},
           NEW W, \A p \in {s[i] : i \in DOMAIN s} : p[2] \in W[p[1]]
    PROVE  FrameFrom(Demote(f, s, then), W)
<1> DEFINE g == Demote(f, s, then)
<1>1. Undone(g) = {s[i] : i \in DOMAIN s}
  BY DemoteGood
<1>2. g.at \notin {"hitTrack", "promote"}
  <2>1. CASE s = <<>>
    BY <2>1, DemoteNothing DEF Onward
  <2>2. CASE s # <<>>
    BY <2>2, DemoteSome
  <2> QED
    BY <2>1, <2>2
<1> HIDE DEF g
<1>3. FrameFrom(g, W)
  BY <1>1, <1>2 DEF FrameFrom
<1> QED
  BY <1>3 DEF g

(* The pairs of a listing are in the tier.                                 *)
LEMMA ListedFrom ==
    ASSUME NEW tier \in Tier, Ordered(tier), NEW D \in SUBSET Resident(tier),
           NEW s \in Listings(tier, D), NEW W, TierFrom(tier, W),
           NEW f \in Frame, f.todo = <<>>, f.then = "idle", NEW then \in Onward,
           f.key # NoKey \/ then \in {"idle", "coldSweep"}
    PROVE  FrameFrom(Demote(f, WithValues(tier, s), then), W)
<1> DEFINE h == WithValues(tier, s)
<1>1. /\ h \in Seq(Key \X Val)
      /\ {h[i] : i \in DOMAIN h} = {<<k, tier.item[k].val>> : k \in D}
  BY ListedValues
<1>2. \A p \in {<<k, tier.item[k].val>> : k \in D} : p[2] \in W[p[1]]
  BY DEF TierFrom
<1> HIDE DEF h
<1>3. FrameFrom(Demote(f, h, then), W)
  BY <1>1, <1>2, DemoteFrom
<1> QED
  BY <1>3 DEF h

LEMMA OneFrom ==
    ASSUME NEW tier \in Tier, Ordered(tier), NEW k \in Resident(tier),
           NEW W, TierFrom(tier, W), NEW then \in Onward
    PROVE  FrameFrom(Demote(For(k), <<<<k, tier.item[k].val>>>>, then), W)
<1> DEFINE h == <<<<k, tier.item[k].val>>>>
<1>1. /\ h \in Seq(Key \X Val) /\ k \in Key
      /\ {h[i] : i \in DOMAIN h} = {<<k, tier.item[k].val>>}
  BY DropOne
<1>2. \A p \in {<<k, tier.item[k].val>>} : p[2] \in W[p[1]]
  BY DEF TierFrom
<1>3. For(k) \in Frame /\ For(k).todo = <<>> /\ For(k).then = "idle" /\ For(k).key # NoKey
  BY <1>1, ForFrame
<1> HIDE DEF h
<1>4. FrameFrom(Demote(For(k), h, then), W)
  BY <1>1, <1>2, <1>3, DemoteFrom
<1> QED
  BY <1>4 DEF h
-----------------------------------------------------------------------------
LEMMA GoesTo ==
    ASSUME Inv, NEW t \in Task, NEW f, Go(t, f)
    PROVE  task'[t] = f
BY DEF Inv, TypeOK, Go

(***************************************************************************)
(* No operation of a task makes up a value: not for any task, among any    *)
(* number of them.                                                         *)
(***************************************************************************)
LEMMA LookInColdFrom ==
    ASSUME Inv, NEW t \in Task, NEW k \in Key, LookInCold(t, k), ColdMiss = NoVal,
           NEW W, TierFrom(cold, W)
    PROVE  TierFrom(cold', W) /\ FrameFrom(task'[t], W)
<1>1. cold \in Tier /\ Ordered(cold)
  BY DEF Inv, TypeOK
<1>2. CASE k \in LiveKeys(cold) /\ cold' = Touched(cold, k)
             /\ Go(t, Hit(k, "cold", cold.item[k].val))
  <2>1. k \in Resident(cold)
    BY <1>2 DEF LiveKeys
  <2>2. cold.item[k].val \in Val /\ cold.item[k].val \in W[k]
    BY <1>1, <2>1, ResidentEntries DEF TierFrom
  <2>3. FrameFrom(Hit(k, "cold", cold.item[k].val), W)
    BY <2>2, HitFrom
  <2>4. TierFrom(cold', W)
    BY <1>1, <1>2, <2>1, TouchedFrom
  <2> QED
    BY <1>2, <2>3, <2>4, GoesTo
<1>3. CASE k \in ExpiredKeys(cold) /\ cold' = Without(cold, {k})
             /\ Go(t, Demote(For(k), <<<<k, cold.item[k].val>>>>, "dryRead"))
  <2>1. k \in Resident(cold) /\ {k} \in SUBSET Key /\ "dryRead" \in Onward
    BY <1>3 DEF ExpiredKeys, Onward
  <2>2. FrameFrom(Demote(For(k), <<<<k, cold.item[k].val>>>>, "dryRead"), W)
    BY <1>1, <2>1, OneFrom
  <2>3. TierFrom(cold', W)
    BY <1>1, <1>3, <2>1, WithoutFrom
  <2> QED
    BY <1>3, <2>2, <2>3, GoesTo
<1>4. CASE k \notin Resident(cold) /\ UNCHANGED cold /\ Go(t, On("dryRead", k))
  <2>1. FrameFrom(On("dryRead", k), W)
    BY OnFrom
  <2> QED
    BY <1>4, <2>1, GoesTo
<1> QED
  BY <1>2, <1>3, <1>4 DEF LookInCold

LEMMA GetFrom ==
    ASSUME Inv, NEW t \in Task, NEW k \in Key, Get(t, k), ColdMiss = NoVal,
           NEW W, From(task[t], hot, cold, dry, W)
    PROVE  From(task'[t], hot', cold', dry', W)
<1>1. /\ hot \in Tier /\ Ordered(hot) /\ dry' = dry
      /\ TierFrom(hot, W) /\ TierFrom(cold, W) /\ DryFrom(dry, W)
  BY DEF Inv, TypeOK, Get, From
<1>2. CASE k \in LiveKeys(hot) /\ hot' = Touched(hot, k)
             /\ Go(t, Hit(k, "hot", hot.item[k].val)) /\ UNCHANGED cold
  <2>1. k \in Resident(hot)
    BY <1>2 DEF LiveKeys
  <2>2. hot.item[k].val \in Val /\ hot.item[k].val \in W[k]
    BY <1>1, <2>1, ResidentEntries DEF TierFrom
  <2>3. FrameFrom(Hit(k, "hot", hot.item[k].val), W)
    BY <2>2, HitFrom
  <2>4. TierFrom(hot', W)
    BY <1>1, <1>2, <2>1, TouchedFrom
  <2> QED
    BY <1>1, <1>2, <2>3, <2>4, GoesTo DEF From
<1>3. CASE k \in ExpiredKeys(hot) /\ hot' = Without(hot, {k}) /\ UNCHANGED cold
             /\ Go(t, Demote(For(k), <<<<k, hot.item[k].val>>>>, "coldGet"))
  <2>1. k \in Resident(hot) /\ {k} \in SUBSET Key /\ "coldGet" \in Onward
    BY <1>3 DEF ExpiredKeys, Onward
  <2>2. FrameFrom(Demote(For(k), <<<<k, hot.item[k].val>>>>, "coldGet"), W)
    BY <1>1, <2>1, OneFrom
  <2>3. TierFrom(hot', W)
    BY <1>1, <1>3, <2>1, WithoutFrom
  <2> QED
    BY <1>1, <1>3, <2>2, <2>3, GoesTo DEF From
<1>4. CASE LookInCold(t, k) /\ UNCHANGED hot
  BY <1>1, <1>4, LookInColdFrom DEF From
<1> QED
  BY <1>2, <1>3, <1>4 DEF Get

LEMMA DemotionFrom ==
    ASSUME Inv, NEW t \in Task, Demotion(t), NEW W, From(task[t], hot, cold, dry, W)
    PROVE  From(task'[t], hot', cold', dry', W)
<1> DEFINE f == task[t]
<1>1. Good(f) /\ f \in Frame /\ dry \in [Key -> Val \cup {NoVal}]
  BY TaskGood DEF Inv, TypeOK, Good
<1>2. CASE DryWrite(t)
  <2> DEFINE g == [f EXCEPT !.at = "dryTrack"]
             p == Head(f.todo)
  <2>1. /\ f.at = "dryWrite" /\ Go(t, g) /\ UNCHANGED <<hot, cold>>
        /\ dry' = [dry EXCEPT ![p[1]] = p[2]]
    BY <1>2 DEF DryWrite
  <2>2. p \in Key \X Val /\ Undone(f) = Undone(g) \cup {p}
    BY <1>1, <2>1, DryWriteGood
  <2>3. g.at = "dryTrack"
    BY <1>1 DEF Frame
  <2> HIDE DEF g, p
  <2>4. FrameFrom(g, W) /\ p[1] \in Key /\ p[2] \in W[p[1]]
    BY <2>2, <2>3 DEF FrameFrom, From
  <2>5. DryFrom(dry', W)
    BY <1>1, <2>1, <2>4 DEF DryFrom, From
  <2> QED
    BY <2>1, <2>4, <2>5, GoesTo DEF From
<1>3. CASE DryTrack(t)
  <2>1. /\ f.at = "dryTrack" /\ Go(t, AfterDemotion(f)) /\ UNCHANGED <<hot, cold, dry>>
    BY <1>3 DEF DryTrack
  <2> DEFINE g == AfterDemotion(f)
  <2>2. Undone(g) = Undone(f)
    BY <1>1, <2>1, AfterDemotionGood
  <2>3. g.at \notin {"hitTrack", "promote"}
    BY <1>1, <2>1, AfterDemotionShape, IdleShape DEF Good, Fits
  <2> HIDE DEF g
  <2>4. FrameFrom(g, W)
    BY <2>2, <2>3 DEF FrameFrom, From
  <2> QED
    BY <2>1, <2>4, GoesTo DEF From, g
<1> QED
  BY <1>2, <1>3 DEF Demotion

LEMMA WriteHotFrom ==
    ASSUME Inv, NEW t \in Task, NEW k \in Key, NEW v \in Val,
           NEW ttl \in TTL \cup {NoTTL}, NEW r \in BOOLEAN, WriteHot(t, k, v, ttl, r),
           NEW W, TierFrom(hot, W), v \in W[k]
    PROVE  TierFrom(hot', W) /\ FrameFrom(task'[t], W)
<1>1. hot \in Tier /\ Ordered(hot)
  BY DEF Inv, TypeOK
<1> DEFINE f == Written(k, v, r)
<1>2. PICK D \in Victims(hot, k, v) : \E s \in Listings(hot, D) :
         /\ hot' = Stored(hot, k, v, ttl, D)
         /\ Go(t, Demote(f, WithValues(hot, s), "setTrack"))
  BY DEF WriteHot, Written
<1>3. PICK s \in Listings(hot, D) :
         /\ hot' = Stored(hot, k, v, ttl, D)
         /\ Go(t, Demote(f, WithValues(hot, s), "setTrack"))
  BY <1>2
<1>4. D \in SUBSET Resident(hot) /\ "setTrack" \in Onward
  BY DEF Victims, OldestFirst, Onward
<1>5. f \in Frame /\ f.todo = <<>> /\ f.then = "idle" /\ f.key # NoKey
  BY ResetShape, ValAssumption DEF Quiet
<1> HIDE DEF f
<1>6. TierFrom(hot', W)
  BY <1>1, <1>3, <1>4, StoredFrom
<1>7. FrameFrom(Demote(f, WithValues(hot, s), "setTrack"), W)
  BY <1>1, <1>4, <1>5, ListedFrom
<1> QED
  BY <1>3, <1>6, <1>7, GoesTo

LEMMA SetFrom ==
    ASSUME Inv, NEW t \in Task, NEW k \in Key, NEW v \in Val, NEW ttl \in Given,
           Set(t, k, v, ttl), NEW W, From(task[t], hot, cold, dry, W), v \in W[k]
    PROVE  From(task'[t], hot', cold', dry', W)
<1>1. ttl \in TTL \cup {NoTTL}
  BY GivenTTL
<1>2. WriteHot(t, k, v, ttl, TRUE) /\ UNCHANGED <<cold, dry>>
  BY DEF Set
<1>3. TierFrom(hot', W) /\ FrameFrom(task'[t], W)
  BY <1>1, <1>2, WriteHotFrom DEF From
<1> QED
  BY <1>2, <1>3 DEF From

LEMMA LookupFrom ==
    ASSUME Inv, NEW t \in Task, Lookup(t), ColdMiss = NoVal, DryMiss = NoVal,
           NEW W, From(task[t], hot, cold, dry, W)
    PROVE  From(task'[t], hot', cold', dry', W)
<1> DEFINE f == task[t]
<1>1. Good(f) /\ f \in Frame
  BY TaskGood DEF Good
<1>2. CASE ColdGet(t)
  <2>1. f.key \in Key
    BY <1>1, <1>2 DEF ColdGet, Good, Fits, Frame, Points, Resumed
  <2> QED
    BY <1>2, <2>1, LookInColdFrom DEF ColdGet, From
<1>3. CASE DryRead(t)
  <2>1. f.at = "dryRead" /\ UNCHANGED <<hot, cold, dry>> /\ f.key \in Key
    BY <1>1, <1>3 DEF DryRead, Good, Fits, Frame, Points, Waiting
  <2>2. dry[f.key] \in Val \cup {NoVal}
    BY <2>1 DEF Inv, TypeOK
  <2>3. CASE dry[f.key] # NoVal
    <3>1. Go(t, Hit(f.key, "dry", dry[f.key]))
      BY <1>3, <2>3 DEF DryRead
    <3>2. dry[f.key] \in W[f.key]
      BY <2>1, <2>3 DEF From, DryFrom
    <3>3. FrameFrom(Hit(f.key, "dry", dry[f.key]), W)
      BY <2>1, <2>2, <2>3, <3>2, HitFrom
    <3> QED
      BY <2>1, <3>1, <3>3, GoesTo DEF From
  <2>4. CASE dry[f.key] = NoVal
    <3>1. Go(t, On("missTrack", f.key))
      BY <1>3, <2>4 DEF DryRead
    <3> QED
      BY <2>1, <3>1, OnFrom, GoesTo DEF From
  <2> QED
    BY <2>3, <2>4
<1>4. CASE HitTrack(t)
  <2>1. f.at = "hitTrack" /\ UNCHANGED <<hot, cold, dry>>
    BY <1>4 DEF HitTrack
  <2>2. CASE Go(t, Idle)
    BY <2>1, <2>2, IdleFrom, GoesTo DEF From
  <2>3. CASE Go(t, [f EXCEPT !.at = "promote"])
    <3> DEFINE g == [f EXCEPT !.at = "promote"]
    <3>1. "promote" \in Points /\ f.todo = <<>>
      BY <1>1, <2>1, NothingUndone DEF Points, Resumed
    <3>2. g.key = f.key /\ g.val = f.val /\ g.todo = <<>>
      BY <1>1, <3>1 DEF Frame
    <3> HIDE DEF g
    <3>3. FrameFrom(g, W)
      BY <2>1, <3>2 DEF From, FrameFrom, Undone
    <3> QED
      BY <2>1, <2>3, <3>3, GoesTo DEF From, g
  <2> QED
    BY <1>4, <2>2, <2>3 DEF HitTrack
<1>5. CASE MissTrack(t)
  BY <1>5, IdleFrom, GoesTo DEF MissTrack, From
<1>6. CASE Promote(t)
  <2>1. /\ f.at = "promote" /\ UNCHANGED <<cold, dry>>
        /\ WriteHot(t, f.key, f.val, NoTTL, FALSE)
    BY <1>6 DEF Promote
  <2>2. f.key \in Key /\ f.val \in Val /\ f.val \in W[f.key]
    BY <1>1, <2>1 DEF Good, Fits, Frame, Points, Resumed, From, FrameFrom
  <2>3. TierFrom(hot', W) /\ FrameFrom(task'[t], W)
    BY <2>1, <2>2, WriteHotFrom DEF From
  <2> QED
    BY <2>1, <2>3 DEF From
<1> QED
  BY <1>2, <1>3, <1>4, <1>5, <1>6 DEF Lookup

LEMMA SweepColdFrom ==
    ASSUME Inv, NEW t \in Task, SweepCold(t), NEW W, TierFrom(cold, W)
    PROVE  TierFrom(cold', W) /\ FrameFrom(task'[t], W)
<1> DEFINE D == ExpiredKeys(cold)
<1>1. cold \in Tier /\ Ordered(cold)
  BY DEF Inv, TypeOK
<1>2. D \in SUBSET Resident(cold) /\ D \in SUBSET Key /\ "idle" \in Onward
  BY <1>1, ResidentEntries DEF ExpiredKeys, Onward
<1>3. PICK s \in Listings(cold, D) :
         cold' = Without(cold, D) /\ Go(t, Demote(Idle, WithValues(cold, s), "idle"))
  BY DEF SweepCold
<1> HIDE DEF D
<1>4. TierFrom(cold', W)
  BY <1>1, <1>2, <1>3, WithoutFrom
<1>5. FrameFrom(Demote(Idle, WithValues(cold, s), "idle"), W)
  BY <1>1, <1>2, IdleShape, ListedFrom DEF Quiet
<1> QED
  BY <1>3, <1>4, <1>5, GoesTo

LEMMA SweepsFrom ==
    ASSUME Inv, NEW t \in Task, CleanupExpired(t) \/ ColdSweep(t),
           NEW W, From(task[t], hot, cold, dry, W)
    PROVE  From(task'[t], hot', cold', dry', W)
<1>1. CASE ColdSweep(t)
  BY <1>1, SweepColdFrom DEF ColdSweep, From
<1>2. CASE CleanupExpired(t)
  <2> DEFINE D == ExpiredKeys(hot)
  <2>1. hot \in Tier /\ Ordered(hot) /\ dry' = dry
    BY <1>2 DEF Inv, TypeOK, CleanupExpired
  <2>2. D \in SUBSET Resident(hot) /\ D \in SUBSET Key /\ "coldSweep" \in Onward
    BY <2>1, ResidentEntries DEF ExpiredKeys, Onward
  <2>3. PICK s \in Listings(hot, D) :
           /\ hot' = Without(hot, D)
           /\ IF s = <<>> THEN SweepCold(t)
              ELSE /\ Go(t, Demote(Idle, WithValues(hot, s), "coldSweep"))
                   /\ UNCHANGED cold
    BY <1>2 DEF CleanupExpired
  <2> HIDE DEF D
  <2>4. TierFrom(hot', W)
    BY <2>1, <2>2, <2>3, WithoutFrom DEF From
  <2>5. FrameFrom(Demote(Idle, WithValues(hot, s), "coldSweep"), W)
    BY <2>1, <2>2, IdleShape, ListedFrom DEF Quiet, From
  <2>6. CASE SweepCold(t)
    BY <2>1, <2>4, <2>6, SweepColdFrom DEF From
  <2>7. CASE Go(t, Demote(Idle, WithValues(hot, s), "coldSweep")) /\ UNCHANGED cold
    BY <2>1, <2>4, <2>5, <2>7, GoesTo DEF From
  <2> QED
    BY <2>3, <2>6, <2>7
<1> QED
  BY <1>1, <1>2
-----------------------------------------------------------------------------
LEMMA DeleteFromRamFrom ==
    ASSUME Inv, NEW t \in Task, NEW k \in Key, NEW b \in Seq(Key), DeleteFromRam(t, k, b),
           NEW W, From(task[t], hot, cold, dry, W)
    PROVE  /\ From(task'[t], hot', cold', dry', W)
           /\ task'[t].at = "dryDelete" /\ task'[t].key = k
           /\ k \notin Resident(hot') /\ k \notin Resident(cold')
<1>1. /\ hot \in Tier /\ Ordered(hot) /\ cold \in Tier /\ Ordered(cold) /\ {k} \in SUBSET Key
      /\ hot' = Without(hot, {k}) /\ cold' = Without(cold, {k}) /\ dry' = dry
      /\ task'[t] = [On("dryDelete", k) EXCEPT !.batch = b]
  BY GoesTo DEF Inv, TypeOK, DeleteFromRam
<1>2. FrameFrom(task'[t], W) /\ task'[t].at = "dryDelete" /\ task'[t].key = k
  BY <1>1, DeleteFrom, DeleteShape
<1>3. k \notin Resident(hot') /\ k \notin Resident(cold')
  BY <1>1, WithoutTier
<1>4. TierFrom(hot', W) /\ TierFrom(cold', W)
  BY <1>1, WithoutFrom DEF From
<1> QED
  BY <1>1, <1>2, <1>3, <1>4 DEF From

LEMMA PurgeFrom ==
    ASSUME Inv, NEW t \in Task, NEW pattern \in Patterns, Purge(t, pattern),
           NEW W, From(task[t], hot, cold, dry, W)
    PROVE  /\ From(task'[t], hot', cold', dry', W)
           /\ \/ task'[t].key = NoKey
              \/ /\ task'[t].at = "dryDelete" /\ task'[t].key \in Key
                 /\ task'[t].key \notin Resident(hot') \cup Resident(cold')
<1> DEFINE D == LiveKeys(hot) \cap pattern
<1>1. PICK s \in Listings(hot, D) :
         IF s = <<>> THEN UNCHANGED vars ELSE DeleteFromRam(t, Head(s), Tail(s))
  BY DEF Purge
<1>2. CASE s = <<>>
  <2>1. task'[t] = Idle
    BY <1>1, <1>2 DEF Purge, Free, vars
  <2> QED
    BY <1>1, <1>2, <2>1, IdleShape DEF vars
<1>3. CASE s # <<>>
  <2>1. hot \in Tier /\ Ordered(hot) /\ D \in SUBSET Resident(hot)
    BY DEF Inv, TypeOK, LiveKeys
  <2> HIDE DEF D
  <2>2. s \in Seq(D) /\ D \subseteq Key
    BY <2>1, ResidentEntries, ListingElements
  <2>3. Head(s) \in Key /\ Tail(s) \in Seq(Key)
    BY <1>3, <2>2
  <2> QED
    BY <1>1, <1>3, <2>3, DeleteFromRamFrom
<1> QED
  BY <1>2, <1>3

LEMMA RamDeleteFrom ==
    ASSUME Inv, NEW t \in Task, RamDelete(t), NEW W, From(task[t], hot, cold, dry, W)
    PROVE  /\ From(task'[t], hot', cold', dry', W)
           /\ task'[t].at = "dryDelete" /\ task'[t].key \in Key
           /\ task'[t].key \notin Resident(hot') \cup Resident(cold')
<1>1. /\ Good(task[t]) /\ task[t].at = "ramDelete"
      /\ DeleteFromRam(t, Head(task[t].batch), Tail(task[t].batch))
  BY TaskGood DEF RamDelete
<1>2. task[t].batch \in Seq(Key) /\ task[t].batch # <<>>
  BY <1>1 DEF Good, Fits, Frame
<1>3. Head(task[t].batch) \in Key /\ Tail(task[t].batch) \in Seq(Key)
  BY <1>2
<1> QED
  BY <1>1, <1>3, DeleteFromRamFrom

LEMMA FlushFrom ==
    ASSUME Inv, NEW t \in Task, NEW tier \in FlushTiers, Flush(t, tier),
           NEW W, From(task[t], hot, cold, dry, W)
    PROVE  /\ From(task'[t], hot', cold', dry', W)
           /\ tier = "all" => task'[t].at = "dryFlush" /\ hot' = Empty /\ cold' = Empty
<1> DEFINE g == [Idle EXCEPT !.at = "dryFlush"]
<1>1. Undone(g) = {} /\ g.at = "dryFlush"
  BY FlushGood, IdleShape DEF Frame
<1>2. FrameFrom(g, W) /\ FrameFrom(Idle, W)
  BY <1>1, IdleFrom DEF FrameFrom
<1>3. /\ task'[t] = IF tier \in {"dry", "all"} THEN g ELSE Idle
      /\ hot' = IF tier \in {"hot", "all"} THEN Empty ELSE hot
      /\ cold' = IF tier \in {"cold", "all"} THEN Empty ELSE cold
      /\ dry' = dry
  BY GoesTo DEF Flush
<1> HIDE DEF g
<1>4. TierFrom(hot', W) /\ TierFrom(cold', W) /\ FrameFrom(task'[t], W)
  BY <1>2, <1>3, EmptyFrom DEF From
<1>5. tier = "all" => task'[t].at = "dryFlush" /\ hot' = Empty /\ cold' = Empty
  BY <1>1, <1>3
<1> QED
  BY <1>3, <1>4, <1>5 DEF From

(* A step that only lets the frame go idle, or past the tracking.          *)
LEMMA TrackFrom ==
    ASSUME Inv, NEW t \in Task, SetTrack(t) \/ DelTrack(t),
           NEW W, From(task[t], hot, cold, dry, W)
    PROVE  From(task'[t], hot', cold', dry', W)
<1>1. UNCHANGED <<hot, cold, dry>>
  BY DEF SetTrack, DelTrack
<1>2. CASE Go(t, Idle)
  BY <1>1, <1>2, IdleFrom, GoesTo DEF From
<1>3. CASE task[t].at = "delTrack" /\ Go(t, [task[t] EXCEPT !.at = "ramDelete"])
  <2> DEFINE g == [task[t] EXCEPT !.at = "ramDelete"]
  <2>1. task[t] \in Frame /\ task[t].todo = <<>>
    BY <1>3, TaskGood, NothingUndone DEF Good
  <2>2. g.at = "ramDelete" /\ g.todo = <<>>
    BY <2>1 DEF Frame
  <2> HIDE DEF g
  <2>3. FrameFrom(g, W)
    BY <2>2 DEF FrameFrom, Undone
  <2> QED
    BY <1>1, <1>3, <2>3, GoesTo DEF From, g
<1> QED
  BY <1>2, <1>3 DEF SetTrack, DelTrack

LEMMA TickFrom ==
    ASSUME Inv, NEW d \in Steps, Tick(d), NEW t, NEW W, From(task[t], hot, cold, dry, W)
    PROVE  /\ From(task'[t], hot', cold', dry', W) /\ task'[t] = task[t]
           /\ Resident(hot') = Resident(hot) /\ Resident(cold') = Resident(cold)
<1>1. hot \in Tier /\ Ordered(hot) /\ cold \in Tier /\ Ordered(cold) /\ d \in Nat
  BY CallAssumption DEF Inv, TypeOK
<1>2. hot' = Aged(hot, d) /\ cold' = Aged(cold, d) /\ dry' = dry /\ task' = task
  BY DEF Tick
<1>3. TierFrom(hot', W) /\ TierFrom(cold', W)
  BY <1>1, <1>2, AgedFrom DEF From
<1>4. Resident(hot') = Resident(hot) /\ Resident(cold') = Resident(cold)
  BY <1>1, <1>2, AgedTier
<1> QED
  BY <1>2, <1>3, <1>4 DEF From
-----------------------------------------------------------------------------
LEMMA DryGoneFrom ==
    ASSUME Inv, NEW t \in Task, DryDelete(t) \/ DryFlush(t),
           NEW W, From(task[t], hot, cold, dry, W)
    PROVE  From(task'[t], hot', cold', dry', W)
<1>1. Good(task[t]) /\ task[t] \in Frame /\ dry \in [Key -> Val \cup {NoVal}]
  BY TaskGood DEF Inv, TypeOK, Good
<1>2. CASE DryFlush(t)
  <2>1. DryFrom(dry', W)
    BY <1>2 DEF DryFlush, DryFrom
  <2> QED
    BY <1>2, <2>1, IdleFrom, GoesTo DEF DryFlush, From
<1>3. CASE DryDelete(t)
  <2> DEFINE g == [task[t] EXCEPT !.at = "delTrack"]
  <2>1. task[t].at = "dryDelete" /\ Go(t, g) /\ UNCHANGED <<hot, cold>>
        /\ dry' = [dry EXCEPT ![task[t].key] = NoVal]
    BY <1>3 DEF DryDelete
  <2>2. g.at = "delTrack" /\ g.todo = <<>>
    BY <1>1, <2>1, NothingUndone DEF Frame
  <2> HIDE DEF g
  <2>3. FrameFrom(g, W)
    BY <2>2 DEF FrameFrom, Undone
  <2>4. DryFrom(dry', W)
    BY <1>1, <2>1 DEF From, DryFrom
  <2> QED
    BY <2>1, <2>3, <2>4, GoesTo DEF From
<1> QED
  BY <1>2, <1>3

SetsFrom(W) ==
    \A t \in Task, k \in Key, v \in Val, ttl \in Given : Set(t, k, v, ttl) => v \in W[k]

AllFrom(W) == \A t \in Task : From(task[t], hot, cold, dry, W)

LEMMA StepFrom ==
    ASSUME Inv, NEW t \in Task, Call(t) \/ Proceed(t) \/ Abort(t),
           DryMiss = NoVal, ColdMiss = NoVal,
           NEW W, SetsFrom(W), From(task[t], hot, cold, dry, W)
    PROVE  From(task'[t], hot', cold', dry', W)
<1>1. CASE Abort(t)
  BY <1>1, IdleFrom, GoesTo DEF Abort, From
<1>2. CASE Call(t)
  <2>1. ASSUME NEW k \in Key, Delete(t, k) PROVE From(task'[t], hot', cold', dry', W)
    <3>1. DeleteFromRam(t, k, <<>>) /\ <<>> \in Seq(Key)
      BY <2>1 DEF Delete
    <3> QED
      BY <3>1, DeleteFromRamFrom
  <2>2. ASSUME NEW k \in Key, NEW v \in Val, NEW ttl \in Given, Set(t, k, v, ttl)
        PROVE  From(task'[t], hot', cold', dry', W)
    BY <2>2, SetFrom DEF SetsFrom
  <2> QED
    BY <1>2, <2>1, <2>2, GetFrom, PurgeFrom, FlushFrom, SweepsFrom DEF Call
<1>3. CASE Proceed(t)
  BY <1>3, DemotionFrom, LookupFrom, TrackFrom, RamDeleteFrom, DryGoneFrom, SweepsFrom
     DEF Proceed, Removal
<1> QED
  BY <1>1, <1>2, <1>3

(* A step of one task leaves the frames of the others alone.               *)
LEMMA OthersStay ==
    ASSUME Inv, NEW t \in Task, Call(t) \/ Proceed(t) \/ Abort(t)
    PROVE  \A u \in Task \ {t} : task'[u] = task[u]
<1>1. ASSUME NEW f, Go(t, f) PROVE \A u \in Task \ {t} : task'[u] = task[u]
  BY <1>1 DEF Inv, TypeOK, Go
<1>2. ASSUME NEW k, LookInCold(t, k) PROVE \E f : Go(t, f)
  BY <1>2 DEF LookInCold
<1>3. ASSUME NEW k, NEW v, NEW ttl, NEW r, WriteHot(t, k, v, ttl, r) PROVE \E f : Go(t, f)
  BY <1>3 DEF WriteHot
<1>4. ASSUME SweepCold(t) PROVE \E f : Go(t, f)
  BY <1>4 DEF SweepCold
<1>5. CASE Abort(t)
  BY <1>1, <1>5 DEF Abort
<1>6. CASE Call(t)
  <2>1. ASSUME NEW k \in Key, Get(t, k) \/ Delete(t, k) PROVE \E f : Go(t, f)
    BY <1>2, <2>1 DEF Get, Delete, DeleteFromRam
  <2>2. ASSUME NEW k \in Key, NEW v \in Val, NEW ttl \in Given, Set(t, k, v, ttl)
        PROVE  \E f : Go(t, f)
    BY <1>3, <2>2 DEF Set
  <2>3. ASSUME NEW pattern \in Patterns, Purge(t, pattern)
        PROVE  (\E f : Go(t, f)) \/ task' = task
    BY <2>3 DEF Purge, DeleteFromRam, vars
  <2>4. ASSUME NEW tier \in FlushTiers, Flush(t, tier) PROVE \E f : Go(t, f)
    BY <2>4 DEF Flush
  <2>5. ASSUME CleanupExpired(t) PROVE \E f : Go(t, f)
    BY <1>4, <2>5 DEF CleanupExpired
  <2> QED
    BY <1>1, <1>6, <2>1, <2>2, <2>3, <2>4, <2>5 DEF Call
<1>7. CASE Proceed(t)
  <2>1. \E f : Go(t, f)
    BY <1>2, <1>3, <1>4, <1>7
       DEF Proceed, Demotion, DryWrite, DryTrack, Lookup, ColdGet, DryRead, HitTrack,
           MissTrack, Promote, SetTrack, Removal, RamDelete, DeleteFromRam, DryDelete,
           DelTrack, DryFlush, ColdSweep
  <2> QED
    BY <1>1, <2>1
<1> QED
  BY <1>5, <1>6, <1>7

(* No value is made up, and none gets from one key to another, among any   *)
(* number of tasks and whatever is aborted: when each set of k writes a    *)
(* value of W[k], all that the tiers, dry and the frames ever have of k is *)
(* from W[k] (manager.py 87-184).                                          *)
THEOREM ValuesKeepToTheirKeys ==
    ASSUME DryMiss = NoVal, ColdMiss = NoVal,
           NEW W, \A tier \in ColdInit : TierFrom(tier, W)
    PROVE  Spec /\ [][SetsFrom(W)]_vars => []AllFrom(W)
<1>1. Init => AllFrom(W)
  <2> SUFFICES ASSUME Init, NEW t \in Task PROVE From(task[t], hot, cold, dry, W)
    BY DEF AllFrom
  <2>1. hot = Empty /\ cold \in ColdInit /\ dry = [k \in Key |-> NoVal] /\ task[t] = Idle
    BY DEF Init
  <2> QED
    BY <2>1, EmptyFrom, IdleFrom DEF From, DryFrom
<1>2. Inv /\ AllFrom(W) /\ [Next]_vars /\ [SetsFrom(W)]_vars => AllFrom(W)'
  <2> SUFFICES ASSUME Inv, AllFrom(W), [Next]_vars, [SetsFrom(W)]_vars PROVE AllFrom(W)'
    OBVIOUS
  <2>1. ASSUME NEW t \in Task, Call(t) \/ Proceed(t) \/ Abort(t), SetsFrom(W)
        PROVE  AllFrom(W)'
    <3>1. From(task'[t], hot', cold', dry', W)
      BY <2>1, StepFrom DEF AllFrom
    <3>2. \A u \in Task \ {t} : task'[u] = task[u]
      BY <2>1, OthersStay
    <3> QED
      BY <3>1, <3>2 DEF AllFrom, From
  <2>2. CASE \E d \in Steps : Tick(d)
    BY <2>2, TickFrom DEF AllFrom
  <2>3. CASE Restart
    <3>1. hot' = Empty /\ cold' = Empty /\ dry' = dry /\ \A u \in Task : task'[u] = Idle
      BY <2>3 DEF Restart
    <3> QED
      BY <3>1, EmptyFrom, IdleFrom DEF AllFrom, From
  <2>4. CASE UNCHANGED vars
    BY <2>4 DEF vars, AllFrom
  <2>5. ASSUME Next PROVE SetsFrom(W) \/ UNCHANGED vars
    OBVIOUS
  <2> QED
    BY <2>1, <2>2, <2>3, <2>4, <2>5 DEF Next, Undisturbed
<1> QED
  BY <1>1, <1>2, AlwaysInv, PTL DEF Spec
-----------------------------------------------------------------------------
(***************************************************************************)
(* The lifetimes.  Resolve goes through the rules by a recursive function. *)
(* That there is one follows from a way through that is written down; what *)
(* it comes to, from the first rule that speaks and from the first place   *)
(* that has the same answer as it.                                         *)
(***************************************************************************)
LEMMA SmallestNumber ==
    ASSUME NEW S \in SUBSET Nat, S # {}
    PROVE  \E n \in S : \A m \in S : n <= m
<1>1. PICK n \in S : \A m \in S : ~(<<m, n>> \in OpToRel(<, Nat))
  BY NatLessThanWellFounded, WFMin
<1>2. \A m \in S : ~(m < n)
  BY <1>1 DEF OpToRel
<1> QED
  BY <1>2

(* f goes through the rules from the i-th on. *)
GoesThrough(f, tags) ==
    f = [i \in 1 .. Len(Rules) + 1 |->
            IF i > Len(Rules) THEN DefaultTTL
            ELSE IF Rules[i].tag \subseteq tags /\ RuleTTL(Rules[i]) # Unnamed
                 THEN RuleTTL(Rules[i])
            ELSE f[i + 1]]

LEMMA ResolveIs ==
    ASSUME NEW tags, tags # {}
    PROVE  Resolve(NoTTL, tags) = (CHOOSE f : GoesThrough(f, tags))[1]
<1>1. Resolve(NoTTL, tags) =
         (CHOOSE f : f =
            [i \in 1 .. Len(Rules) + 1 |->
               IF i > Len(Rules) THEN DefaultTTL
               ELSE IF Rules[i].tag \subseteq tags /\ RuleTTL(Rules[i]) # Unnamed
                    THEN RuleTTL(Rules[i])
               ELSE f[i + 1]])[1]
  BY Zenon DEF Resolve
<1> QED
  BY <1>1, Zenon DEF GoesThrough

LEMMA RulesSpeak ==
    ASSUME NEW tags, tags # {}, NEW i \in 1 .. Len(Rules)
    PROVE  /\ Speaks(Rules[i], tags) <=>
                Rules[i].tag \subseteq tags /\ RuleTTL(Rules[i]) # Unnamed
           /\ Speaks(Rules[i], tags) => RuleTTL(Rules[i]) = Seconds(Rules[i].hot)
<1>1. \A x \in Nat \cup {NoTTL} : Seconds(x) \in Nat \cup {NoTTL}
  BY RulesAssumption DEF Seconds
<1> QED
  BY <1>1, RulesAssumption DEF RuleTTL, Speaks

(* There is a way through the rules: for each place what the first rule    *)
(* that speaks from there on says.                                         *)
LEMMA AWayThrough ==
    ASSUME NEW tags, tags # {}
    PROVE  \E f : GoesThrough(f, tags)
<1> DEFINE n == Len(Rules)
           S(i) == {k \in i .. n : Speaks(Rules[k], tags)}
           least(T) == CHOOSE k \in T : \A m \in T : k <= m
           said(T) == IF T = {} THEN DefaultTTL ELSE RuleTTL(Rules[least(T)])
           g == [i \in 1 .. n + 1 |-> said(S(i))]
<1>1. n \in Nat
  BY RulesAssumption
<1>2. ASSUME NEW i \in 1 .. n + 1
      PROVE  g[i] = IF i > n THEN DefaultTTL
                    ELSE IF Rules[i].tag \subseteq tags /\ RuleTTL(Rules[i]) # Unnamed
                         THEN RuleTTL(Rules[i])
                    ELSE g[i + 1]
  <2>1. g[i] = said(S(i)) /\ (i <= n => g[i + 1] = said(S(i + 1)))
    <3> HIDE DEF said
    <3>1. i <= n => i + 1 \in 1 .. n + 1
      BY <1>1
    <3> HIDE DEF S, n
    <3> QED
      BY <3>1
  <2>2. CASE i > n
    <3>1. S(i) = {}
      BY <1>1, <2>2
    <3> QED
      BY <2>1, <2>2, <3>1
  <2>3. CASE i <= n /\ Speaks(Rules[i], tags)
    <3> DEFINE T == S(i)
    <3>1. i \in T
      BY <1>1, <2>3
    <3>2. T \in SUBSET Nat /\ \A m \in T : i <= m
      BY <1>1
    <3> HIDE DEF T
    <3>3. least(T) \in T /\ \A m \in T : least(T) <= m
      BY <3>1, <3>2, Zenon
    <3>4. said(T) = RuleTTL(Rules[least(T)])
      BY <3>1, Zenon
    <3> HIDE DEF least, said, g
    <3>5. least(T) = i
      <4>1. PICK l : l = least(T)
        OBVIOUS
      <4>2. l \in Nat /\ i \in Nat /\ l <= i /\ i <= l
        BY <1>1, <3>1, <3>2, <3>3, <4>1
      <4> QED
        BY <4>1, <4>2
    <3>6. i \in 1 .. Len(Rules)
      BY <1>1, <2>3
    <3>7. Rules[i].tag \subseteq tags /\ RuleTTL(Rules[i]) # Unnamed
      BY <2>3, <3>6, RulesSpeak
    <3>8. g[i] = RuleTTL(Rules[i])
      BY <2>1, <3>4, <3>5 DEF T
    <3> QED
      BY <1>1, <2>3, <3>7, <3>8
  <2>4. CASE i <= n /\ ~Speaks(Rules[i], tags)
    <3>1. S(i) = S(i + 1)
      <4>1. \A k : k \in i .. n <=> k = i \/ k \in i + 1 .. n
        BY <1>1, <2>4
      <4> QED
        BY <2>4, <4>1
    <3> HIDE DEF said, g
    <3>2. g[i] = g[i + 1]
      BY <2>1, <2>4, <3>1
    <3>3. i \in 1 .. Len(Rules)
      BY <1>1, <2>4
    <3>4. ~(Rules[i].tag \subseteq tags /\ RuleTTL(Rules[i]) # Unnamed)
      BY <2>4, <3>3, RulesSpeak
    <3> QED
      BY <1>1, <2>4, <3>2, <3>4
  <2> QED
    BY <1>1, <2>2, <2>3, <2>4
<1>3. g = [i \in 1 .. n + 1 |-> g[i]]
  OBVIOUS
<1> HIDE DEF g
<1>4. GoesThrough(g, tags)
  BY <1>2, <1>3 DEF GoesThrough
<1> QED
  BY <1>4

(* Going through them ends at the rule that decides.                       *)
LEMMA WhereItEnds ==
    ASSUME NEW tags, tags # {}, NEW f, GoesThrough(f, tags)
    PROVE  \/ Decisive(tags) = {} /\ f[1] = DefaultTTL
           \/ \E m \in Decisive(tags) : f[1] = Seconds(Rules[m].hot)
<1> DEFINE n == Len(Rules)
           Ends == {i \in 1 .. n + 1 : i <= n => Speaks(Rules[i], tags)}
<1>1. n \in Nat /\ DOMAIN Rules = 1 .. n
  BY RulesAssumption
<1>2. \A i \in 1 .. n + 1 :
         f[i] = IF i > n THEN DefaultTTL
                ELSE IF Speaks(Rules[i], tags) THEN Seconds(Rules[i].hot)
                ELSE f[i + 1]
  BY <1>1, RulesSpeak DEF GoesThrough
<1>3. PICK m \in Ends : \A i \in Ends : m <= i
  <2>1. n + 1 \in Ends /\ Ends \in SUBSET Nat
    BY <1>1
  <2> QED
    BY <2>1, SmallestNumber
<1>4. m \in 1 .. n + 1 /\ \A i \in 1 .. m - 1 : ~Speaks(Rules[i], tags) /\ i \in 1 .. n
  BY <1>1, <1>3
<1>5. PICK i \in {j \in 1 .. m : f[j] = f[m]} : \A k \in {j \in 1 .. m : f[j] = f[m]} : i <= k
  <2>1. m \in {j \in 1 .. m : f[j] = f[m]} /\ {j \in 1 .. m : f[j] = f[m]} \in SUBSET Nat
    BY <1>1, <1>4
  <2> QED
    BY <2>1, SmallestNumber
<1>6. i = 1
  <2> SUFFICES ASSUME i # 1 PROVE FALSE
    OBVIOUS
  <2>1. i - 1 \in 1 .. m /\ i - 1 \in 1 .. m - 1 /\ i - 1 \in 1 .. n + 1
    BY <1>1, <1>4
  <2>2. f[i - 1] = f[(i - 1) + 1] /\ (i - 1) + 1 = i
    BY <1>1, <1>2, <1>4, <2>1
  <2> QED
    BY <1>1, <1>4, <1>5, <2>1, <2>2
<1>7. f[1] = f[m]
  BY <1>5, <1>6
<1>8. CASE m = n + 1
  <2>1. \A j \in 1 .. n : ~Speaks(Rules[j], tags)
    BY <1>1, <1>4, <1>8
  <2> QED
    BY <1>1, <1>2, <1>7, <1>8, <2>1 DEF Decisive
<1>9. CASE m <= n
  <2>1. m \in Decisive(tags)
    BY <1>1, <1>3, <1>4, <1>9 DEF Decisive
  <2>2. f[m] = Seconds(Rules[m].hot)
    BY <1>1, <1>2, <1>3, <1>9
  <2> QED
    BY <1>7, <2>1, <2>2
<1> QED
  BY <1>1, <1>4, <1>8, <1>9

(* Hours become seconds, and what is lost is less than one.                *)
LEMMA ToTheSecond ==
    ASSUME NEW time \in Nat \cup {NoTTL}
    PROVE  Lasts(Lifetime(Seconds(time)), time)
<1>1. NoTTL \notin Nat
  BY RulesAssumption
<1>2. CASE time = NoTTL
  BY <1>2 DEF Lasts, Lifetime, Seconds
<1>3. CASE time \in Nat
  <2> DEFINE n == time \div 2
  <2>1. n \in Nat /\ 2 * n <= time /\ time < 2 * n + 2
    BY <1>3
  <2>2. Lifetime(Seconds(time)) = n
    BY <1>1, <1>3, <2>1 DEF Lifetime, Seconds
  <2>3. time = 0 => n = 0
    BY <2>1
  <2> HIDE DEF n
  <2> QED
    BY <1>1, <1>3, <2>1, <2>2, <2>3 DEF Lasts
<1> QED
  BY <1>2, <1>3

LEMMA ResolvedAsDocumented ==
    ASSUME NEW r \in Requests
    PROVE  \E time \in Documented(r) : Lasts(Lifetime(TTLOf[r]), time)
<1>1. TTLOf[r] = Resolve(Seconds(r.ttl_hours), r.tags)
  BY DEF TTLOf
<1>2. r.ttl_hours \in Nat \cup {NoTTL} /\ NoTTL \notin Nat
  BY RulesAssumption
<1>3. Lasts(Lifetime(DefaultTTL), NoTTL)
  BY DEF Lasts, Lifetime
<1>4. CASE r.ttl_hours # NoTTL
  <2>1. Seconds(r.ttl_hours) # NoTTL
    BY <1>2, <1>4 DEF Seconds
  <2>2. TTLOf[r] = Seconds(r.ttl_hours) /\ r.ttl_hours \in Documented(r)
    BY <1>1, <1>4, <2>1 DEF Resolve, Documented
  <2> QED
    BY <1>2, <2>2, ToTheSecond
<1>5. CASE r.ttl_hours = NoTTL /\ r.tags = {}
  <2>1. Decisive(r.tags) = {}
    BY <1>5 DEF Decisive, Speaks
  <2>2. TTLOf[r] = DefaultTTL /\ NoTTL \in Documented(r)
    BY <1>1, <1>5, <2>1 DEF Resolve, Seconds, Documented
  <2> QED
    BY <1>3, <2>2
<1>6. CASE r.ttl_hours = NoTTL /\ r.tags # {}
  <2> DEFINE f == CHOOSE g : GoesThrough(g, r.tags)
  <2>1. GoesThrough(f, r.tags)
    BY <1>6, AWayThrough
  <2>2. TTLOf[r] = f[1]
    BY <1>1, <1>6, ResolveIs DEF Seconds
  <2> HIDE DEF f
  <2>3. CASE Decisive(r.tags) = {} /\ f[1] = DefaultTTL
    BY <1>3, <1>6, <2>2, <2>3 DEF Documented
  <2>4. CASE \E m \in Decisive(r.tags) : f[1] = Seconds(Rules[m].hot)
    <3>1. PICK m \in Decisive(r.tags) : f[1] = Seconds(Rules[m].hot)
      BY <2>4
    <3>2. Rules[m].hot \in Nat \cup {NoTTL}
      BY RulesAssumption DEF Decisive, Speaks
    <3>3. Rules[m].hot \in Documented(r)
      BY <1>6 DEF Documented
    <3> QED
      BY <2>2, <3>1, <3>2, <3>3, ToTheSecond
  <2> QED
    BY <1>6, <2>1, <2>3, <2>4, WhereItEnds
<1> QED
  BY <1>4, <1>5, <1>6

(* What set writes is the entry of the key its frame is for.               *)
LEMMA SetLifetime ==
    ASSUME Inv, Inv', NEW t \in Task, NEW k, k = task'[t].key, NEW v, NEW ttl, Set(t, k, v, ttl)
    PROVE  hot'.item[k].ttl = Lifetime(ttl)
<1> DEFINE f == [For(k) EXCEPT !.val = v, !.reset = TRUE]
<1>1. PICK D \in Victims(hot, k, v) : \E s \in Listings(hot, D) :
         /\ hot' = Stored(hot, k, v, ttl, D)
         /\ Go(t, Demote(f, WithValues(hot, s), "setTrack"))
  BY DEF Set, WriteHot
<1>2. PICK s : Go(t, Demote(f, s, "setTrack"))
  BY <1>1
<1>3. k \in Key
  <2>1. task'[t] \in Frame /\ Fits(task'[t]) /\ task'[t] = Demote(f, s, "setTrack")
    BY <1>2 DEF Go, Inv, TypeOK, FrameOK, Fits, Points
  <2>2. f \in Frame
    <3>1. k \in Key \cup {NoKey} /\ v \in Val \cup {NoVal} /\ Idle \in Frame
      <4>1. task'[t].val = v
        BY <2>1 DEF Demote, For, Idle
      <4> QED
        BY <2>1, <4>1, IdleShape DEF Frame
    <3>2. For(k) \in Frame
      BY <3>1 DEF For, Frame
    <3> QED
      BY <3>1, <3>2 DEF Frame
  <2> HIDE DEF f
  <2>3. task'[t].at = "setTrack" \/ task'[t].then = "setTrack"
    BY <2>1, <2>2, DemoteNothing, DemoteSome
  <2>4. task'[t].key # NoKey
    BY <2>1, <2>3 DEF Fits, Points, Waiting
  <2> QED
    BY <2>1, <2>4 DEF Frame
<1>4. Stored(hot, k, v, ttl, D).item[k].ttl = Lifetime(ttl)
  <2> DEFINE fresh == [val |-> v, ttl |-> Lifetime(ttl), left |-> Lifetime(ttl)]
             w == Without(hot, D)
             e == AtEnd(w, k, fresh)
  <2>1. w.item \in [Key -> Entry \cup {NoEntry}]
    BY DEF Without, Inv, TypeOK, Tier
  <2> HIDE DEF w
  <2>2. e.item = [w.item EXCEPT ![k] = fresh] /\ fresh.ttl = Lifetime(ttl)
    BY DEF AtEnd
  <2>3. e.item[k] = fresh
    BY <1>3, <2>1, <2>2
  <2>4. Stored(hot, k, v, ttl, D).item = e.item
    BY DEF Stored, AtEnd, w
  <2> HIDE DEF fresh, e
  <2> QED
    BY <2>2, <2>3, <2>4
<1> QED
  BY <1>1, <1>4

LifetimesAsDocumented ==
    \A t \in Task : Free(t) /\ task'[t].reset =>
       LET k == task'[t].key
           entry == hot'.item[k]
       IN  \A r \in Requests :
              \/ \E time \in Documented(r) : Lasts(entry.ttl, time)
              \/ ~Set(t, k, entry.val, TTLOf[r])

(* What a set writes to hot lives as long as the documented priority says, *)
(* to the second, whatever rules the configuration has and whatever time   *)
(* and tags the call gives (manager.py 22-45, 129, README.md 229-236).     *)
(* For a time below one second it says nothing.                            *)
THEOREM LifetimesCorrect == Spec => LifetimeByPriority
<1>1. ASSUME Inv, Inv' PROVE LifetimesAsDocumented
  <2> SUFFICES ASSUME NEW t \in Task, NEW k, k = task'[t].key, NEW r \in Requests,
                      NEW v, Set(t, k, v, TTLOf[r])
               PROVE  \E time \in Documented(r) : Lasts(hot'.item[k].ttl, time)
    BY DEF LifetimesAsDocumented
  <2>1. hot'.item[k].ttl = Lifetime(TTLOf[r])
    BY <1>1, SetLifetime
  <2> QED
    BY <2>1, ResolvedAsDocumented
<1>2. Inv /\ Inv' => LifetimesAsDocumented
  BY <1>1
<1> QED
  BY <1>2, AlwaysInv, PTL DEF LifetimeByPriority, LifetimesAsDocumented
=============================================================================
