------------------------- MODULE CacheOneTaskProofs -------------------------
(***************************************************************************)
(* What CacheManager promises a single task: the cache is a map, get       *)
(* answers with what the map holds, the tracking rows say where the        *)
(* entries are, and what was deleted stays deleted.  The one task owns the *)
(* tiers while it waits, so that what it has read of them still holds when *)
(* it is resumed; the invariant says, place by place, what that is.        *)
(* Two tasks get no such promise: CacheStalePromotion shows one.           *)
(***************************************************************************)
EXTENDS CacheHistory, CacheManagerProofs

(***************************************************************************)
(* Where the value of a key is, for the frame f of the one task: in hot,   *)
(* on its way to dry, or in dry.                                           *)
(***************************************************************************)
Goes(f, k) == f.at = "dryFlush" \/ (f.at = "dryDelete" /\ f.key = k)

Onway(f, k) == {p \in Undone(f) : p[1] = k}
Some(S) == CHOOSE p \in S : TRUE

Here(f, tier, d, k) ==
    IF k \in Resident(tier) THEN tier.item[k].val
    ELSE IF Has(f, k) THEN Some(Onway(f, k))[2]
    ELSE IF Goes(f, k) THEN NoVal
    ELSE d[k]

(* The task looks for its key below hot, or has found it there.            *)
Asking(f) ==
    \/ f.at \in {"coldGet", "dryRead", "missTrack", "promote"}
    \/ f.then \in {"coldGet", "dryRead"}
    \/ f.at = "hitTrack" /\ f.tier # "hot"

(***************************************************************************)
(* The invariant of a task that is alone with hot and dry.  A pair it has  *)
(* to demote is not in hot, but for the entry a set has just replaced; a   *)
(* key it looks for below hot is not in hot, and what it found is what dry *)
(* still has; a key it deletes has left hot, and then dry.                 *)
(***************************************************************************)
Alone(f, tier, d) ==
    /\ Once(f.todo)
    /\ \A i \in DOMAIN f.todo : f.todo[i][1] \in Resident(tier) =>
          f.then = "setTrack" /\ f.todo[i][1] = f.key
    /\ Asking(f) => f.key \notin Resident(tier)
    /\ f.at = "hitTrack" /\ f.tier = "hot" =>
          f.key \in Resident(tier) /\ f.val = tier.item[f.key].val
    /\ f.at = "promote" \/ (f.at = "hitTrack" /\ f.tier # "hot") =>
          Seen(f.val) = Seen(d[f.key])
    /\ f.at = "missTrack" => f.val = NoVal /\ Seen(d[f.key]) = NoVal
    /\ f.batch # <<>> => f.at \in {"dryDelete", "delTrack", "ramDelete"}
    /\ f.at \in {"dryDelete", "delTrack"} => f.key \notin Resident(tier)
    /\ f.at = "delTrack" => d[f.key] = NoVal
    /\ "setTrack" \in {f.at, f.then} => f.key \in Resident(tier)
    /\ f.todo = <<>> => f.then = "idle"
    /\ f.reset => "setTrack" \in {f.at, f.then}

LEMMA HereInDry ==
    ASSUME NEW f, NEW tier, NEW d, NEW k, k \notin Resident(tier), ~Has(f, k)
    PROVE  Here(f, tier, d, k) = IF Goes(f, k) THEN NoVal ELSE d[k]
BY DEF Here

LEMMA HereInHot ==
    ASSUME NEW f, NEW tier, NEW d, NEW k \in Resident(tier)
    PROVE  Here(f, tier, d, k) = tier.item[k].val
BY DEF Here

(* A key is listed once, so that its pair is the one that is chosen.       *)
LEMMA HereOnTheWay ==
    ASSUME NEW f \in Frame, Once(f.todo), NEW tier, NEW d, NEW p \in Undone(f),
           p[1] \notin Resident(tier)
    PROVE  Here(f, tier, d, p[1]) = p[2]
<1>1. Has(f, p[1]) /\ p \in Onway(f, p[1])
  BY DEF Has, Onway
<1>2. \A q \in Onway(f, p[1]) : q = p
  BY DEF Onway, Undone, Once
<1>3. Some(Onway(f, p[1])) \in Onway(f, p[1])
  BY <1>1 DEF Some
<1>4. Some(Onway(f, p[1])) = p
  BY <1>2, <1>3, Zenon
<1> QED
  BY <1>1, <1>4 DEF Here

LEMMA GoesNowhere ==
    ASSUME NEW f, f.at \notin {"dryFlush", "dryDelete"}, NEW k
    PROVE  ~Goes(f, k)
BY DEF Goes

LEMMA QuietHas ==
    ASSUME NEW f, f.todo = <<>>, NEW k
    PROVE  ~Has(f, k) /\ Undone(f) = {}
BY DEF Has, Undone

(* A frame that demotes nothing: what is left of the invariant.            *)
LEMMA AloneQuiet ==
    ASSUME NEW f, Quiet(f), f.batch = <<>>, NEW tier, NEW d,
           f.at \in {"idle", "setTrack", "dryFlush", "coldSweep"},
           f.at = "setTrack" => f.key \in Resident(tier),
           f.reset => f.at = "setTrack"
    PROVE  Alone(f, tier, d)
BY DEF Quiet, Alone, Once, Asking

-----------------------------------------------------------------------------
(***************************************************************************)
(* The entries D leave hot for the frame g, and the keys W are written.    *)
(***************************************************************************)
LEMMA EvictionKeepsValues ==
    ASSUME NEW f, f.at \notin {"dryFlush", "dryDelete"}, f.todo = <<>>,
           NEW g \in Frame, NEW D \in SUBSET Resident(hot), NEW then \in Onward,
           Evicting(g, D, then), NEW new, NEW W \in SUBSET Key,
           Resident(new) = (Resident(hot) \ D) \cup W,
           \A j \in Resident(hot) \ (D \cup W) : new.item[j].val = hot.item[j].val,
           NEW d, NEW k \in Key \ W
    PROVE  Here(g, new, d, k) = Here(f, hot, d, k)
<1>1. ~Has(f, k) /\ ~Goes(f, k) /\ ~Goes(g, k)
  BY QuietHas DEF Goes, Evicting, Onward
<1>2. Undone(g) = {<<j, hot.item[j].val>> : j \in D}
  <2>1. CASE D = {}
    BY <2>1 DEF Evicting, Quiet, Undone
  <2>2. CASE D # {}
    BY <2>2 DEF Evicting, Undone
  <2> QED
    BY <2>1, <2>2
<1>3. CASE k \in D
  <2>1. <<k, hot.item[k].val>> \in Undone(g) /\ k \notin Resident(new)
    BY <1>2, <1>3
  <2>2. Here(g, new, d, k) = hot.item[k].val
    BY <2>1, HereOnTheWay DEF Evicting
  <2> QED
    BY <1>3, <2>2, HereInHot
<1>4. CASE k \in Resident(hot) \ D
  BY <1>4, HereInHot
<1>5. CASE k \notin Resident(hot)
  <2>1. ~Has(g, k) /\ k \notin Resident(new)
    BY <1>2, <1>5 DEF Has
  <2> QED
    BY <1>1, <1>5, <2>1, HereInDry
<1> QED
  BY <1>3, <1>4, <1>5

LEMMA EvictionAlone ==
    ASSUME NEW g \in Frame, NEW D \in SUBSET Resident(hot), NEW then \in Onward,
           Evicting(g, D, then), NEW new, NEW W \in SUBSET {g.key},
           Resident(new) = (Resident(hot) \ D) \cup W, W # {} => then = "setTrack",
           then \in {"coldGet", "dryRead"} => g.key \notin Resident(new),
           then = "setTrack" => g.key \in Resident(new),
           g.reset => then = "setTrack", NEW d
    PROVE  Alone(g, new, d)
<1>1. CASE D = {}
  BY <1>1 DEF Evicting, Quiet, Alone, Once, Asking, Onward
<1>2. CASE D # {}
  <2>1. \A i \in DOMAIN g.todo : g.todo[i][1] \in D
    BY DEF Evicting
  <2> QED
    BY <1>2, <2>1 DEF Evicting, Alone, Asking, Onward
<1> QED
  BY <1>1, <1>2

(***************************************************************************)
(* The rows while a call goes on.  The row of a key of hot says hot, but   *)
(* for the key of the set that has not yet been recorded; that of a key of *)
(* dry says dry, unless its demotion goes on, or a removal is about to     *)
(* reach it.                                                               *)
(***************************************************************************)
Recording(f, k) == f.key = k /\ (f.at = "setTrack" \/ f.then = "setTrack")

Listed(f, k) == \E i \in DOMAIN f.todo : f.todo[i][1] = k

Rows(f, tier, d, r) ==
    \A k \in Key :
        /\ k \in Resident(tier) /\ ~Recording(f, k) => r[k] # NoRow /\ r[k].tier = "hot"
        /\ k \notin Resident(tier) /\ d[k] # NoVal /\ ~Listed(f, k) /\ ~Goes(f, k)
              => r[k] # NoRow /\ r[k].tier = "dry"

LEMMA EvictionRows ==
    ASSUME NEW f, f.at \notin {"dryFlush", "dryDelete", "setTrack"},
           f.todo = <<>>, f.then = "idle",
           NEW g \in Frame, NEW D \in SUBSET Resident(hot), NEW then \in Onward,
           Evicting(g, D, then), NEW new, NEW W \in SUBSET {g.key},
           Resident(new) = (Resident(hot) \ D) \cup W, W # {} => then = "setTrack",
           NEW d, NEW r, Rows(f, hot, d, r)
    PROVE  Rows(g, new, d, r)
<1> SUFFICES ASSUME NEW k \in Key
             PROVE  /\ k \in Resident(new) /\ ~Recording(g, k)
                          => r[k] # NoRow /\ r[k].tier = "hot"
                    /\ k \notin Resident(new) /\ d[k] # NoVal /\ ~Listed(g, k)
                          => r[k] # NoRow /\ r[k].tier = "dry"
  BY DEF Rows
<1>1. /\ k \in Resident(hot) => r[k] # NoRow /\ r[k].tier = "hot"
      /\ k \notin Resident(hot) /\ d[k] # NoVal => r[k] # NoRow /\ r[k].tier = "dry"
  BY DEF Rows, Recording, Listed, Goes
<1>2. k \in W => Recording(g, k)
  BY DEF Recording, Evicting
<1>3. k \in D => Listed(g, k)
  <2> SUFFICES ASSUME k \in D PROVE Listed(g, k)
    OBVIOUS
  <2>1. <<k, hot.item[k].val>> \in {g.todo[i] : i \in DOMAIN g.todo}
    BY DEF Evicting
  <2> QED
    BY <2>1 DEF Listed
<1> QED
  BY <1>1, <1>2, <1>3
-----------------------------------------------------------------------------
(***************************************************************************)
(* The steps of the map, from m to n while the call goes from c to e; and  *)
(* those that leave the map alone.                                         *)
(***************************************************************************)
Called(op, k, v, b) == [op |-> op, key |-> k, val |-> v, todo |-> b]
Nothing == Called("none", NoKey, NoVal, <<>>)

Turns(c, e) ==
    \/ e = c
    \/ c = Nothing /\ \E k \in Key : e = Called("get", k, NoVal, <<>>)
    \/ c = Nothing /\ e = Called("cleanup", NoKey, NoVal, <<>>)
    \/ c # Nothing /\ c.todo = <<>> /\ e = Nothing

MapStep(m, c, n, e) ==
    \/ n = m /\ Turns(c, e)
    \/ \E k \in Key, v \in Val \cup {NoVal} :
          n = [m EXCEPT ![k] = v] /\ c = Nothing /\ e = Called("set", k, v, <<>>)
    \/ \E k \in Key, b \in Seq(Key) :
          n = [m EXCEPT ![k] = NoVal] /\ c = Nothing /\ e = Called("delete", k, NoVal, b)
    \/ \E j, b : /\ c = Called("delete", j, NoVal, b) /\ b # <<>>
                 /\ n = [m EXCEPT ![Head(b)] = NoVal]
                 /\ e = Called("delete", Head(b), NoVal, Tail(b))
    \/ n = [k \in Key |-> NoVal] /\ c = Nothing /\ e = Called("flush", NoKey, NoVal, <<>>)

MapOf(f, tier, d) == [k \in Key |-> Seen(Here(f, tier, d, k))]

(* Of which call a frame is.                                               *)
Removing == {"dryDelete", "delTrack", "ramDelete"}
Ordinary(f) == f.at \notin Removing \cup {"idle", "dryFlush"}

LEMMA CallOfIdle == CallOf(Idle) = Nothing
BY IdleShape DEF CallOf, Operation, Called, Nothing

LEMMA CallOfRemoving ==
    ASSUME NEW f, f.at \in Removing
    PROVE  CallOf(f) = Called("delete", f.key, NoVal, f.batch)
BY IdleShape DEF CallOf, Operation, Called, Removing

LEMMA CallOfGet ==
    ASSUME NEW f, Ordinary(f), f.key # NoKey, ~f.reset
    PROVE  CallOf(f) = Called("get", f.key, NoVal, f.batch)
BY IdleShape DEF CallOf, Operation, Called, Removing, Ordinary

LEMMA CallOfSet ==
    ASSUME NEW f, Ordinary(f), f.key # NoKey, f.reset
    PROVE  CallOf(f) = Called("set", f.key, Seen(f.val), f.batch)
BY IdleShape DEF CallOf, Operation, Called, Removing, Ordinary

LEMMA CallOfCleanup ==
    ASSUME NEW f, Ordinary(f), f.key = NoKey
    PROVE  CallOf(f) = Called("cleanup", NoKey, NoVal, f.batch)
BY IdleShape DEF CallOf, Operation, Called, Removing, Ordinary

LEMMA CallOfFlush ==
    ASSUME NEW f, f.at = "dryFlush"
    PROVE  CallOf(f) = Called("flush", f.key, NoVal, f.batch)
BY IdleShape DEF CallOf, Operation, Called, Removing

LEMMA SameCall ==
    ASSUME NEW f, NEW g, Ordinary(f), Ordinary(g), KeepsCall(f, g)
    PROVE  Turns(CallOf(f), CallOf(g))
<1>1. f # Idle /\ g # Idle
  BY IdleShape DEF Ordinary
<1>2. Operation(f) = Operation(g)
  BY <1>1 DEF Operation, Ordinary, Removing, KeepsCall
<1>3. CallOf(f) = CallOf(g)
  BY <1>2 DEF CallOf, KeepsCall
<1> QED
  BY <1>3 DEF Turns

(* A call that has nothing more to do returns.                             *)
LEMMA Returns ==
    ASSUME NEW f, f.at # "idle", f.batch = <<>>
    PROVE  Turns(CallOf(f), CallOf(Idle))
<1>1. Operation(f) # "none"
  BY IdleShape DEF Operation
<1>2. CallOf(f).op = Operation(f) /\ CallOf(f).todo = <<>>
  BY DEF CallOf
<1>3. CallOf(f) # Nothing
  BY <1>1, <1>2 DEF Nothing, Called
<1> QED
  BY <1>2, <1>3, CallOfIdle DEF Turns

(* A frame of a get that has just begun, or goes on.                       *)
LEMMA GetGoesOn ==
    ASSUME NEW f, NEW g, f = Idle \/ (Ordinary(f) /\ f.key = g.key),
           Ordinary(g), g.key \in Key, ~f.reset, ~g.reset, f.batch = <<>>, g.batch = <<>>
    PROVE  Turns(CallOf(f), CallOf(g))
<1>1. CallOf(g) = Called("get", g.key, NoVal, <<>>)
  BY CallOfGet, ValAssumption
<1>2. CallOf(f) = Nothing \/ CallOf(f) = Called("get", g.key, NoVal, <<>>)
  BY CallOfGet, CallOfIdle, ValAssumption
<1> QED
  BY <1>1, <1>2 DEF Turns

(* What is shown of each step of the one task t.                           *)
One(t) == Resident(cold) = {} /\ Alone(task[t], hot, dry)

AloneAfter(t) == Resident(cold') = {} /\ Alone(task'[t], hot', dry')

MapAfter(t) ==
    FlushTiers \subseteq {"cold", "all"} =>
        MapStep(MapOf(task[t], hot, dry), CallOf(task[t]),
                MapOf(task'[t], hot', dry'), CallOf(task'[t]))

RowsAfter(t) ==
    Store # "null" /\ "hot" \notin FlushTiers /\ Rows(task[t], hot, dry, rows)
        => Rows(task'[t], hot', dry', rows')

(* A step that leaves the map alone, and the rows true.                    *)
LEMMA StepSummary ==
    ASSUME Inv, NEW t \in Task, One(t), NEW g, task'[t] = g, Resident(cold') = {},
           Alone(g, hot', dry'),
           \A k \in Key : Here(g, hot', dry', k) = Here(task[t], hot, dry, k),
           Turns(CallOf(task[t]), CallOf(g)),
           Store # "null" /\ Rows(task[t], hot, dry, rows) => Rows(g, hot', dry', rows')
    PROVE  AloneAfter(t) /\ MapAfter(t) /\ RowsAfter(t)
<1>1. MapOf(g, hot', dry') = MapOf(task[t], hot, dry)
  BY DEF MapOf
<1>2. MapStep(MapOf(task[t], hot, dry), CallOf(task[t]), MapOf(g, hot', dry'), CallOf(g))
  BY <1>1 DEF MapStep
<1> QED
  BY <1>2 DEF AloneAfter, MapAfter, RowsAfter

LEMMA FreeShape ==
    ASSUME NEW t, Free(t)
    PROVE  /\ task[t] = Idle /\ task[t].todo = <<>> /\ task[t].then = "idle"
           /\ task[t].at = "idle" /\ task[t].batch = <<>> /\ CallOf(task[t]) = Nothing
BY IdleShape, CallOfIdle DEF Free, Quiet

(* The task goes on, and no tier changes.                                  *)
LEMMA MoveKeepsValues ==
    ASSUME NEW f, NEW g, f.at \notin {"dryFlush", "dryDelete"},
           g.at \notin {"dryFlush", "dryDelete"}, Undone(g) = Undone(f),
           NEW tier, NEW d, NEW k
    PROVE  Here(g, tier, d, k) = Here(f, tier, d, k)
<1>1. ~Goes(f, k) /\ ~Goes(g, k)
  BY GoesNowhere
<1>2. Onway(g, k) = Onway(f, k) /\ (Has(g, k) <=> Has(f, k))
  BY DEF Onway, Has
<1> QED
  BY <1>1, <1>2 DEF Here

(* No row changes, and the task has nothing to demote or to record.        *)
LEMMA MoveKeepsRows ==
    ASSUME NEW f, NEW g, f.at \notin {"dryFlush", "dryDelete", "setTrack"},
           f.todo = <<>>, f.then = "idle", NEW tier, NEW d, NEW r, Rows(f, tier, d, r)
    PROVE  Rows(g, tier, d, r)
BY DEF Rows, Recording, Listed, Goes
-----------------------------------------------------------------------------
(***************************************************************************)
(* The demotion of a pair: on_evict writes it to dry and records it.       *)
(***************************************************************************)
LEMMA DryWriteOne ==
    ASSUME Inv, NEW t \in Task, One(t), DryWrite(t)
    PROVE  AloneAfter(t) /\ MapAfter(t) /\ RowsAfter(t)
<1> DEFINE f == task[t]
           g == [f EXCEPT !.at = "dryTrack"]
           p == Head(f.todo)
<1>1. /\ Good(f) /\ f.at = "dryWrite" /\ Go(t, g) /\ Alone(f, hot, dry)
      /\ dry' = [dry EXCEPT ![p[1]] = p[2]] /\ UNCHANGED <<hot, cold, rows>>
  BY TaskGood DEF DryWrite, One
<1>2. /\ f \in Frame /\ f.todo \in Seq(Key \X Val) /\ f.todo # <<>> /\ Once(f.todo)
      /\ f.batch = <<>> /\ dry \in [Key -> Val \cup {NoVal}]
  BY <1>1 DEF Good, Fits, Frame, Alone, Inv, TypeOK
<1>3. p \in Key \X Val /\ p \in Undone(f) /\ Undone(f) = Undone(g) \cup {p}
  BY <1>1, DryWriteGood
<1>4. task'[t] = g
  BY <1>1, GoesTo
<1>5. /\ g \in Frame /\ g.at = "dryTrack" /\ g.key = f.key /\ g.todo = f.todo
      /\ g.then = f.then /\ g.batch = f.batch
  BY <1>2, MovedShape DEF Points, Waiting
<1>12. KeepsCall(f, g)
  BY <1>2, ResetKept DEF Points, Waiting
<1>6. \A q \in Undone(g) : q[1] # p[1]
  BY <1>2, <1>5 DEF Undone, Once
<1> HIDE DEF g
<1>7. Alone(g, hot, dry')
  BY <1>1, <1>2, <1>5, <1>12 DEF Alone, Asking, KeepsCall
<1>8. ASSUME NEW k \in Key PROVE Here(g, hot, dry', k) = Here(f, hot, dry, k)
  <2>1. CASE k \in Resident(hot)
    BY <2>1, HereInHot
  <2>2. CASE k \notin Resident(hot) /\ k = p[1]
    <3>1. Here(f, hot, dry, p[1]) = p[2]
      <4>1. f \in Frame /\ Once(f.todo) /\ p \in Undone(f) /\ p[1] \notin Resident(hot)
        BY <1>2, <1>3, <2>2
      <4> HIDE DEF f, p
      <4> QED
        BY <4>1, HereOnTheWay
    <3>2. ~Goes(g, k)
      BY <1>5, GoesNowhere
    <3>4. ~Has(g, k)
      BY <1>6, <2>2 DEF Has
    <3>3. dry'[k] = p[2]
      BY <1>1, <1>2, <2>2
    <3> QED
      BY <2>2, <3>1, <3>2, <3>3, <3>4, HereInDry
  <2>3. CASE k \notin Resident(hot) /\ k # p[1]
    <3>1. Onway(g, k) = Onway(f, k)
      BY <1>3, <2>3 DEF Onway
    <3>2. Has(g, k) <=> Has(f, k)
      BY <1>3, <2>3 DEF Has
    <3>3. dry'[k] = dry[k]
      BY <1>1, <1>2, <2>3
    <3>4. ~Goes(g, k) /\ ~Goes(f, k)
      BY <1>1, <1>5, GoesNowhere
    <3> QED
      BY <2>3, <3>1, <3>2, <3>3, <3>4 DEF Here
  <2> QED
    BY <2>1, <2>2, <2>3
<1>9. Turns(CallOf(f), CallOf(g))
  <2>1. Ordinary(f) /\ Ordinary(g)
    BY <1>1, <1>5 DEF Ordinary, Removing
  <2> HIDE DEF f
  <2> QED
    BY <1>12, <2>1, SameCall
<1>10. Rows(f, hot, dry, rows) => Rows(g, hot, dry', rows)
  <2>1. \A k \in Key : k # p[1] => dry'[k] = dry[k]
    BY <1>1, <1>2
  <2>2. Listed(g, p[1])
    BY <1>2, <1>5 DEF Listed
  <2> QED
    BY <1>1, <1>5, <2>1, <2>2 DEF Rows, Recording, Listed, Goes
<1>11. /\ hot' = hot /\ cold' = cold /\ rows' = rows /\ Resident(cold) = {}
  BY <1>1 DEF One
<1> HIDE DEF f
<1> QED
  BY <1>4, <1>7, <1>8, <1>9, <1>10, <1>11, StepSummary DEF f

(* The sort of rows each store keeps.                                      *)
LEMMA TierRecorded ==
    ASSUME Store # "null", NEW row \in Row \cup {NoRow}, NEW tier \in {"hot", "cold", "dry"},
           NEW reset \in BOOLEAN
    PROVE  RecordSet(row, tier, reset) # NoRow /\ RecordSet(row, tier, reset).tier = tier
<1>1. FreshRow(tier) \in Row /\ FreshRow(tier).tier = tier
  BY DEF FreshRow, Row
<1>2. row # NoRow => [row EXCEPT !.tier = tier] \in Row /\ [row EXCEPT !.tier = tier].tier = tier
  BY DEF Row
<1>3. \A r \in Row : r # NoRow
  BY NoRowAssumption
<1>4. SQLiteRecordSet(row, tier, reset) \in Row /\ SQLiteRecordSet(row, tier, reset).tier = tier
  BY <1>1, <1>2 DEF SQLiteRecordSet
<1> QED
  BY <1>1, <1>3, <1>4, StoreAssumption
     DEF RecordSet, Stores, RedisRecordSet, PostgresRecordSet, MongoDBRecordSet

LEMMA TierCounted ==
    ASSUME NEW row \in Row
    PROVE  RecordHit(row) # NoRow /\ RecordHit(row).tier = row.tier
<1>1. Counted(row) \in Row /\ Counted(row).tier = row.tier
  BY DEF Counted, Row
<1>2. row # NoRow /\ Counted(row) # NoRow
  BY <1>1, NoRowAssumption
<1> QED
  BY <1>1, <1>2, StoreAssumption
     DEF RecordHit, Stores, SQLiteRecordHit, RedisRecordHit, PostgresRecordHit, MongoDBRecordHit

LEMMA TailListed ==
    ASSUME NEW s \in Seq(Key \X Val), s # <<>>
    PROVE  /\ Tail(s) \in Seq(Key \X Val)
           /\ \A j \in DOMAIN Tail(s) : j + 1 \in DOMAIN s /\ Tail(s)[j] = s[j + 1]
           /\ \A i \in DOMAIN s : i # 1 => i - 1 \in DOMAIN Tail(s) /\ Tail(s)[i - 1] = s[i]
           /\ 1 \in DOMAIN s /\ Head(s) = s[1] /\ DOMAIN s \subseteq Nat
           /\ DOMAIN Tail(s) \subseteq Nat /\ \A j \in DOMAIN Tail(s) : j >= 1
OBVIOUS

LEMMA DryTrackOne ==
    ASSUME Inv, NEW t \in Task, One(t), DryTrack(t)
    PROVE  AloneAfter(t) /\ MapAfter(t) /\ RowsAfter(t)
<1> DEFINE f == task[t]
           g == AfterDemotion(f)
           p == Head(f.todo)
           T == Tail(f.todo)
<1>1. /\ Good(f) /\ f.at = "dryTrack" /\ Go(t, g) /\ Alone(f, hot, dry)
      /\ rows' = [rows EXCEPT ![p[1]] = RecordSet(@, "dry", FALSE)]
      /\ UNCHANGED <<hot, cold, dry>> /\ Resident(cold) = {}
  BY TaskGood DEF DryTrack, One
<1>2. /\ f \in Frame /\ f.todo \in Seq(Key \X Val) /\ f.todo # <<>> /\ Once(f.todo)
      /\ f.batch = <<>> /\ f.then \in Onward
  BY <1>1 DEF Good, Fits, Frame, Alone, Onward
<1>3. /\ T \in Seq(Key \X Val)
      /\ \A j \in DOMAIN T : j + 1 \in DOMAIN f.todo /\ T[j] = f.todo[j + 1]
      /\ \A i \in DOMAIN f.todo : i # 1 => i - 1 \in DOMAIN T /\ T[i - 1] = f.todo[i]
      /\ 1 \in DOMAIN f.todo /\ p = f.todo[1] /\ DOMAIN f.todo \subseteq Nat
      /\ DOMAIN T \subseteq Nat /\ \A j \in DOMAIN T : j >= 1
  BY <1>2, TailListed
<1>4. Undone(g) = Undone(f) /\ task'[t] = g
  BY <1>1, AfterDemotionGood, GoesTo
<1>5. \/ T # <<>> /\ g.at = "dryWrite" /\ g.todo = T /\ g.then = f.then /\ g.key = f.key
         /\ g.batch = f.batch
      \/ T = <<>> /\ f.then = "idle" /\ g = Idle
      \/ T = <<>> /\ f.then # "idle" /\ g.at = f.then /\ g.todo = <<>> /\ g.then = "idle"
         /\ g.key = f.key /\ g.batch = f.batch
  BY <1>1, AfterDemotionShape DEF Quiet
<1>6. \A j \in DOMAIN T : T[j][1] # p[1]
  BY <1>2, <1>3 DEF Once
<1>7. \A k : Listed(f, k) => Listed(g, k) \/ k = p[1]
  <2> SUFFICES ASSUME NEW k, Listed(f, k), k # p[1] PROVE Listed(g, k)
    OBVIOUS
  <2>1. PICK i \in DOMAIN f.todo : f.todo[i][1] = k
    BY DEF Listed
  <2>2. i - 1 \in DOMAIN T /\ T[i - 1][1] = k
    BY <1>3, <2>1
  <2>3. g.todo = T
    BY <1>5, <2>2
  <2> QED
    BY <2>2, <2>3 DEF Listed
<1>13. g = Idle \/ KeepsCall(f, g)
  BY <1>2, AfterDemotionKeeps
<1> HIDE DEF g, T
<1>8. Alone(g, hot, dry)
  <2>1. CASE T # <<>>
    <3>1. Once(T)
      <4> SUFFICES ASSUME NEW i \in DOMAIN T, NEW j \in DOMAIN T, T[i][1] = T[j][1]
                   PROVE  i = j
        BY DEF Once
      <4>1. f.todo[i + 1][1] = f.todo[j + 1][1] /\ i \in Nat /\ j \in Nat
        BY <1>3
      <4>2. i + 1 = j + 1
        BY <1>2, <1>3, <4>1 DEF Once
      <4> QED
        BY <4>1, <4>2
    <3>2. \A j \in DOMAIN T : T[j][1] \in Resident(hot) => f.then = "setTrack" /\ T[j][1] = f.key
      BY <1>1, <1>3 DEF Alone
    <3> QED
      BY <1>1, <1>2, <1>5, <1>13, <2>1, <3>1, <3>2, IdleShape
         DEF Alone, Asking, KeepsCall
  <2>2. CASE g = Idle
    BY <2>2, IdleShape, NoReset, AloneQuiet
  <2>3. CASE T = <<>> /\ g # Idle
    BY <1>1, <1>2, <1>5, <1>13, <2>3 DEF Alone, Asking, Once, Onward, KeepsCall
  <2> QED
    BY <1>5, <2>1, <2>2, <2>3
<1>9. g.at \notin {"dryFlush", "dryDelete"} /\ Turns(CallOf(f), CallOf(g))
  <2>1. CASE g = Idle
    BY <1>1, <1>2, <2>1, IdleShape, Returns
  <2>2. CASE g # Idle
    <3>1. Ordinary(f) /\ Ordinary(g) /\ KeepsCall(f, g)
      BY <1>1, <1>2, <1>5, <1>13, <2>2 DEF Ordinary, Removing, Onward
    <3>2. g.at \notin {"dryFlush", "dryDelete"}
      BY <3>1 DEF Ordinary, Removing
    <3> HIDE DEF f
    <3> QED
      BY <3>1, <3>2, SameCall
  <2> QED
    BY <2>1, <2>2
<1>10. \A k \in Key : Here(g, hot, dry, k) = Here(f, hot, dry, k)
  BY <1>1, <1>4, <1>9, MoveKeepsValues
<1>11. Store # "null" /\ Rows(f, hot, dry, rows) => Rows(g, hot, dry, rows')
  <2> SUFFICES ASSUME Store # "null", Rows(f, hot, dry, rows), NEW k \in Key
               PROVE  /\ k \in Resident(hot) /\ ~Recording(g, k)
                            => rows'[k] # NoRow /\ rows'[k].tier = "hot"
                      /\ k \notin Resident(hot) /\ dry[k] # NoVal /\ ~Listed(g, k)
                            => rows'[k] # NoRow /\ rows'[k].tier = "dry"
    BY DEF Rows
  <2>1. Recording(f, k) => Recording(g, k)
    BY <1>1, <1>5 DEF Recording
  <2>2. CASE k = p[1]
    <3>1. k \in Resident(hot) => Recording(g, k)
      <4>1. 1 \in DOMAIN f.todo /\ f.todo[1][1] = k
        BY <1>3, <2>2
      <4>2. k \in Resident(hot) => f.then = "setTrack" /\ k = f.key
        BY <1>1, <4>1 DEF Alone
      <4> QED
        BY <2>1, <4>2 DEF Recording
    <3>2. rows[k] \in Row \cup {NoRow} /\ rows'[k] = RecordSet(rows[k], "dry", FALSE)
      BY <1>1, <2>2 DEF Inv, TypeOK
    <3>3. rows'[k] # NoRow /\ rows'[k].tier = "dry"
      <4> DEFINE row == rows[k]
      <4>1. row \in Row \cup {NoRow} /\ FALSE \in BOOLEAN /\ "dry" \in {"hot", "cold", "dry"}
        BY <3>2
      <4> HIDE DEF row
      <4>2. RecordSet(row, "dry", FALSE) # NoRow /\ RecordSet(row, "dry", FALSE).tier = "dry"
        BY <4>1, TierRecorded
      <4> QED
        BY <3>2, <4>2 DEF row
    <3> QED
      BY <3>1, <3>3
  <2>3. CASE k # p[1]
    <3>1. rows'[k] = rows[k]
      BY <1>1, <2>3 DEF Inv, TypeOK
    <3>2. Listed(f, k) => Listed(g, k)
      BY <1>7, <2>3
    <3> QED
      BY <1>1, <2>1, <3>1, <3>2 DEF Rows, Goes
  <2> QED
    BY <2>2, <2>3
<1>12. hot' = hot /\ dry' = dry /\ Resident(cold') = {}
  BY <1>1
<1> HIDE DEF f
<1> QED
  BY <1>4, <1>8, <1>9, <1>10, <1>11, <1>12, StepSummary DEF f
-----------------------------------------------------------------------------
(***************************************************************************)
(* The task goes on and nothing else happens; and: the entries D leave hot.*)
(***************************************************************************)
LEMMA MoveOne ==
    ASSUME Inv, NEW t \in Task, One(t), NEW g, task'[t] = g,
           UNCHANGED <<hot, cold, dry, rows>>,
           task[t].todo = <<>>, task[t].then = "idle",
           task[t].at \notin {"dryFlush", "dryDelete", "setTrack"},
           g.todo = <<>>, g.at \notin {"dryFlush", "dryDelete"}, Alone(g, hot, dry),
           Turns(CallOf(task[t]), CallOf(g))
    PROVE  AloneAfter(t) /\ MapAfter(t) /\ RowsAfter(t)
<1> DEFINE f == task[t]
<1>1. Undone(f) = {} /\ Undone(g) = {}
  BY QuietHas
<1>2. \A k \in Key : Here(g, hot, dry, k) = Here(f, hot, dry, k)
  <2>1. f.at \notin {"dryFlush", "dryDelete"} /\ Undone(g) = Undone(f)
    BY <1>1
  <2> HIDE DEF f
  <2> QED
    BY <2>1, MoveKeepsValues
<1>3. Rows(f, hot, dry, rows) => Rows(g, hot, dry, rows)
  BY MoveKeepsRows
<1>4. hot' = hot /\ dry' = dry /\ rows' = rows /\ Resident(cold') = {}
  BY DEF One
<1> HIDE DEF f
<1> QED
  BY <1>2, <1>3, <1>4, StepSummary DEF f

LEMMA EvictOne ==
    ASSUME Inv, NEW t \in Task, One(t), NEW g \in Frame, task'[t] = g,
           NEW D \in SUBSET Resident(hot), NEW then \in Onward \ {"setTrack"},
           Evicting(g, D, then), then \in {"coldGet", "dryRead"} => g.key \in D, ~g.reset,
           Resident(hot') = Resident(hot) \ D, Resident(cold') = {},
           \A j \in Resident(hot) \ D : hot'.item[j].val = hot.item[j].val,
           UNCHANGED <<dry, rows>>,
           task[t].todo = <<>>, task[t].then = "idle",
           task[t].at \notin {"dryFlush", "dryDelete", "setTrack"},
           Turns(CallOf(task[t]), CallOf(g))
    PROVE  AloneAfter(t) /\ MapAfter(t) /\ RowsAfter(t)
<1> DEFINE f == task[t]
           W == {}
<1>1. /\ W \in SUBSET {g.key} /\ W \in SUBSET Key /\ (W # {} => then = "setTrack")
      /\ Resident(hot') = (Resident(hot) \ D) \cup W
      /\ \A j \in Resident(hot) \ (D \cup W) : hot'.item[j].val = hot.item[j].val
      /\ then \in Onward /\ then # "setTrack"
      /\ then \in {"coldGet", "dryRead"} => g.key \notin Resident(hot')
  OBVIOUS
<1> HIDE DEF W
<1>2. Alone(g, hot', dry)
  BY <1>1, EvictionAlone
<1>3. \A k \in Key : Here(g, hot', dry, k) = Here(f, hot, dry, k)
  <2>1. \A k \in Key \ W : Here(g, hot', dry, k) = Here(f, hot, dry, k)
    BY <1>1, EvictionKeepsValues
  <2> QED
    BY <2>1 DEF W
<1>4. Rows(f, hot, dry, rows) => Rows(g, hot', dry, rows)
  BY <1>1, EvictionRows
<1>5. dry' = dry /\ rows' = rows
  OBVIOUS
<1> HIDE DEF f
<1> QED
  BY <1>2, <1>3, <1>4, <1>5, StepSummary DEF f

-----------------------------------------------------------------------------
(***************************************************************************)
(* get.                                                                    *)
(***************************************************************************)
LEMMA ColdLooked ==
    ASSUME Inv, NEW t \in Task, NEW k, Resident(cold) = {}, ColdMiss = NoVal,
           LookInCold(t, k)
    PROVE  task'[t] = On("dryRead", k) /\ cold' = cold
<1>1. k \notin LiveKeys(cold) /\ k \notin ExpiredKeys(cold)
  BY DEF LiveKeys, ExpiredKeys
<1>2. Go(t, On("dryRead", k)) /\ cold' = cold
  BY <1>1 DEF LookInCold
<1> QED
  BY <1>2, GoesTo

LEMMA ReadShape ==
    ASSUME NEW k \in Key, NEW d, NEW tier, k \notin Resident(tier)
    PROVE  LET g == On("dryRead", k) IN
           /\ g.todo = <<>> /\ g.then = "idle" /\ g.at = "dryRead" /\ g.key = k
           /\ Alone(g, tier, d) /\ Ordinary(g) /\ g.batch = <<>> /\ ~g.reset
<1> DEFINE g == On("dryRead", k)
<1>1. g.todo = <<>> /\ g.then = "idle" /\ g.at = "dryRead" /\ g.key = k /\ g.batch = <<>>
  BY OnShape DEF Quiet, Points, Waiting
<1>3. ~g.reset
  BY NoReset
<1> HIDE DEF g
<1>2. Alone(g, tier, d) /\ Ordinary(g)
  BY <1>1, <1>3 DEF Alone, Once, Asking, Ordinary, Removing
<1> QED
  BY <1>1, <1>2, <1>3 DEF g

LEMMA GetOne ==
    ASSUME Inv, NEW t \in Task, One(t), ColdMiss = NoVal, NEW k \in Key, Get(t, k)
    PROVE  AloneAfter(t) /\ MapAfter(t) /\ RowsAfter(t)
<1>1. /\ Free(t) /\ UNCHANGED <<dry, rows>> /\ hot \in Tier /\ Ordered(hot)
      /\ Resident(cold) = {} /\ Alone(task[t], hot, dry)
  BY DEF Get, Inv, TypeOK, One
<1>2. /\ task[t] = Idle /\ task[t].todo = <<>> /\ task[t].then = "idle"
      /\ task[t].at = "idle" /\ task[t].batch = <<>>
  BY <1>1, FreeShape
<1>6. ~task[t].reset
  BY <1>2, NoReset
<1>3. CASE k \in LiveKeys(hot)
  <2> DEFINE v == hot.item[k].val
             g == Hit(k, "hot", v)
  <2>1. k \in Resident(hot) /\ k \notin ExpiredKeys(hot) /\ v \in Val
    BY <1>1, <1>3, ResidentEntries DEF LiveKeys
  <2>2. hot' = Touched(hot, k) /\ Go(t, g) /\ cold' = cold
    BY <1>3, <2>1 DEF Get
  <2>3. /\ g \in Frame /\ g.todo = <<>> /\ g.then = "idle" /\ g.at = "hitTrack"
        /\ g.key = k /\ g.batch = <<>> /\ g.val = v /\ g.tier = "hot"
    BY <2>1, HitShape DEF Quiet
  <2>4. /\ Resident(hot') = Resident(hot)
        /\ \A j \in Resident(hot) : hot'.item[j].val = hot.item[j].val
    BY <1>1, <2>1, <2>2, TouchedTier
  <2>5. task'[t] = g /\ Resident(cold') = {}
    BY <1>1, <2>2, GoesTo
  <2>10. ~g.reset
    BY NoReset
  <2> HIDE DEF g
  <2>6. Alone(g, hot', dry)
    BY <2>1, <2>3, <2>4, <2>10 DEF Alone, Once, Asking
  <2>7. Turns(CallOf(task[t]), CallOf(g))
    <3>1. Ordinary(g)
      BY <2>3 DEF Ordinary, Removing
    <3> QED
      BY <1>2, <1>6, <2>3, <2>10, <3>1, GetGoesOn
  <2>8. \A j \in Key : Here(g, hot', dry, j) = Here(task[t], hot, dry, j)
    <3> SUFFICES ASSUME NEW j \in Key PROVE Here(g, hot', dry, j) = Here(task[t], hot, dry, j)
      OBVIOUS
    <3>1. ~Has(task[t], j) /\ ~Has(g, j) /\ ~Goes(task[t], j) /\ ~Goes(g, j)
      BY <1>2, <2>3, QuietHas, GoesNowhere
    <3> QED
      BY <2>4, <3>1 DEF Here
  <2>9. Rows(task[t], hot, dry, rows) => Rows(g, hot', dry, rows)
    BY <1>2, <2>3, <2>4 DEF Rows, Recording, Listed, Goes
  <2> QED
    BY <1>1, <1>2, <2>5, <2>6, <2>7, <2>8, <2>9, StepSummary
<1>4. CASE k \in ExpiredKeys(hot)
  <2> DEFINE g == Demote(For(k), <<<<k, hot.item[k].val>>>>, "coldGet")
  <2>1. k \in Resident(hot) /\ k \notin LiveKeys(hot)
    BY <1>4 DEF ExpiredKeys, LiveKeys
  <2>2. hot' = Without(hot, {k}) /\ Go(t, g) /\ cold' = cold
    BY <1>4, <2>1 DEF Get
  <2>3. For(k) \in Frame /\ For(k).todo = <<>> /\ For(k).then = "idle"
        /\ For(k).batch = <<>> /\ For(k).key = k
    BY ForShape DEF Quiet
  <2>4. g \in Frame /\ Evicting(g, {k}, "coldGet") /\ g.key = k
    BY <1>1, <2>1, <2>3, EvictingOne DEF Onward
  <2>5. /\ Resident(hot') = Resident(hot) \ {k}
        /\ \A j \in Resident(hot) \ {k} : hot'.item[j].val = hot.item[j].val
    BY <1>1, <2>2, WithoutTier, ResidentEntries
  <2>6. task'[t] = g /\ Resident(cold') = {}
    BY <1>1, <2>2, GoesTo
  <2>9. ~g.reset
    BY <2>3, NoReset, DemoteKeeps DEF Onward, KeepsCall
  <2> HIDE DEF g
  <2>7. Turns(CallOf(task[t]), CallOf(g))
    <3>1. Ordinary(g) /\ g.batch = <<>>
      BY <2>4 DEF Evicting, Ordinary, Removing
    <3> QED
      BY <1>2, <1>6, <2>4, <2>9, <3>1, GetGoesOn
  <2>8. {k} \in SUBSET Resident(hot) /\ "coldGet" \in Onward \ {"setTrack"} /\ g.key \in {k}
    BY <2>1, <2>4 DEF Onward
  <2> QED
    BY <1>1, <1>2, <2>4, <2>5, <2>6, <2>7, <2>8, <2>9, EvictOne
<1>5. CASE k \notin Resident(hot)
  <2>1. LookInCold(t, k) /\ hot' = hot
    BY <1>5 DEF Get, LiveKeys, ExpiredKeys
  <2>2. task'[t] = On("dryRead", k) /\ cold' = cold
    BY <1>1, <2>1, ColdLooked
  <2>3. Turns(CallOf(task[t]), CallOf(On("dryRead", k)))
    BY <1>2, <1>5, <1>6, ReadShape, GetGoesOn
  <2> QED
    BY <1>1, <1>2, <1>5, <2>1, <2>2, <2>3, ReadShape, MoveOne
<1> QED
  BY <1>3, <1>4, <1>5 DEF LiveKeys

LEMMA ColdGetOne ==
    ASSUME Inv, NEW t \in Task, One(t), ColdMiss = NoVal, ColdGet(t)
    PROVE  AloneAfter(t) /\ MapAfter(t) /\ RowsAfter(t)
<1> DEFINE f == task[t]
<1>1. /\ Good(f) /\ f.at = "coldGet" /\ LookInCold(t, f.key)
      /\ UNCHANGED <<hot, dry, rows>> /\ Resident(cold) = {} /\ Alone(f, hot, dry)
  BY TaskGood DEF ColdGet, One
<1>2. f.key \in Key /\ f.todo = <<>> /\ f.key \notin Resident(hot) /\ f.batch = <<>>
  BY <1>1, NothingUndone DEF Good, Fits, Frame, Points, Resumed, Alone, Asking
<1>3. task'[t] = On("dryRead", f.key) /\ cold' = cold
  BY <1>1, ColdLooked
<1>4. f.then = "idle" /\ ~f.reset /\ Ordinary(f)
  BY <1>1, <1>2 DEF Alone, Ordinary, Removing
<1>5. Turns(CallOf(f), CallOf(On("dryRead", f.key)))
  BY <1>2, <1>4, ReadShape, GetGoesOn
<1> QED
  BY <1>1, <1>2, <1>3, <1>4, <1>5, ReadShape, MoveOne
-----------------------------------------------------------------------------
(* The answer of dry, and what get records.                                *)
LEMMA DryReadOne ==
    ASSUME Inv, NEW t \in Task, One(t), DryRead(t)
    PROVE  AloneAfter(t) /\ MapAfter(t) /\ RowsAfter(t)
<1> DEFINE f == task[t]
           k == f.key
           answer == IF dry[k] # NoVal THEN dry[k] ELSE DryMiss
           g == IF answer # NoVal THEN Hit(k, "dry", answer) ELSE On("missTrack", k)
<1>1. /\ Good(f) /\ f.at = "dryRead" /\ Go(t, g)
      /\ UNCHANGED <<hot, cold, dry, rows>> /\ Alone(f, hot, dry)
  BY TaskGood DEF DryRead, One
<1>2. /\ k \in Key /\ f.todo = <<>> /\ f.then = "idle" /\ f.batch = <<>>
      /\ k \notin Resident(hot)
  BY <1>1, NothingUndone DEF Good, Fits, Frame, Points, Waiting, Alone, Asking
<1>3. /\ answer \in Val \cup {NoVal} /\ Seen(answer) = Seen(dry[k])
      /\ answer = NoVal => Seen(dry[k]) = NoVal
  BY <1>2, MissAssumption DEF Inv, TypeOK, Seen
<1>4. task'[t] = g /\ Ordinary(f) /\ ~f.reset
  BY <1>1, <1>2, GoesTo DEF Ordinary, Removing, Alone
<1>7. ~g.reset
  BY NoReset
<1> HIDE DEF answer
<1>5. CASE answer # NoVal
  <2>1. /\ g.todo = <<>> /\ g.then = "idle" /\ g.at = "hitTrack" /\ g.key = k
        /\ g.batch = <<>> /\ g.val = answer /\ g.tier = "dry"
    BY <1>2, <1>3, <1>5, HitShape DEF Quiet
  <2> HIDE DEF g
  <2>2. Alone(g, hot, dry) /\ Ordinary(g)
    BY <1>2, <1>3, <1>7, <2>1 DEF Alone, Once, Asking, Ordinary, Removing
  <2>3. Turns(CallOf(f), CallOf(g))
    BY <1>2, <1>4, <1>7, <2>1, <2>2, GetGoesOn
  <2> QED
    BY <1>1, <1>2, <1>4, <2>1, <2>2, <2>3, MoveOne
<1>6. CASE answer = NoVal
  <2>1. /\ g.todo = <<>> /\ g.then = "idle" /\ g.at = "missTrack" /\ g.key = k
        /\ g.batch = <<>> /\ g.val = NoVal
    BY <1>2, <1>6, OnShape DEF Quiet, Points, Waiting
  <2> HIDE DEF g
  <2>2. Alone(g, hot, dry) /\ Ordinary(g)
    BY <1>2, <1>3, <1>6, <1>7, <2>1 DEF Alone, Once, Asking, Ordinary, Removing
  <2>3. Turns(CallOf(f), CallOf(g))
    BY <1>2, <1>4, <1>7, <2>1, <2>2, GetGoesOn
  <2> QED
    BY <1>1, <1>2, <1>4, <2>1, <2>2, <2>3, MoveOne
<1> QED
  BY <1>5, <1>6

(* The call is over.                                                       *)
LEMMA IdleAlone ==
    ASSUME NEW tier, NEW d
    PROVE  Alone(Idle, tier, d)
BY IdleShape, NoReset, AloneQuiet DEF Quiet

LEMMA MissTrackOne ==
    ASSUME Inv, NEW t \in Task, One(t), MissTrack(t)
    PROVE  AloneAfter(t) /\ MapAfter(t) /\ RowsAfter(t)
<1>1. /\ Good(task[t]) /\ task[t].at = "missTrack" /\ task'[t] = Idle
      /\ UNCHANGED <<hot, cold, dry, rows>> /\ Alone(task[t], hot, dry)
  BY TaskGood, GoesTo DEF MissTrack, One
<1>2. task[t].todo = <<>> /\ task[t].then = "idle" /\ task[t].batch = <<>>
  BY <1>1, NothingUndone DEF Alone
<1>3. Turns(CallOf(task[t]), CallOf(Idle))
  BY <1>1, <1>2, Returns
<1>4. Idle.todo = <<>> /\ Idle.at = "idle"
  BY IdleShape DEF Quiet
<1> QED
  BY <1>1, <1>2, <1>3, <1>4, IdleAlone, MoveOne

LEMMA HitTrackOne ==
    ASSUME Inv, NEW t \in Task, One(t), HitTrack(t)
    PROVE  AloneAfter(t) /\ MapAfter(t) /\ RowsAfter(t)
<1> DEFINE f == task[t]
           k == f.key
           g == IF f.tier = "hot" THEN Idle ELSE [f EXCEPT !.at = "promote"]
<1>1. /\ Good(f) /\ f.at = "hitTrack" /\ Go(t, g) /\ Alone(f, hot, dry)
      /\ UNCHANGED <<hot, cold, dry>> /\ Resident(cold) = {}
      /\ rows' = [rows EXCEPT ![k] = RecordHit(@)] /\ rows \in [Key -> Row \cup {NoRow}]
  BY TaskGood DEF HitTrack, One, Inv, TypeOK
<1>2. /\ k \in Key /\ f \in Frame /\ f.todo = <<>> /\ f.then = "idle" /\ f.batch = <<>>
  BY <1>1, NothingUndone DEF Good, Fits, Frame, Points, Waiting, Alone
<1>3. task'[t] = g /\ ~f.reset
  BY <1>1, <1>2, GoesTo DEF Alone
<1>4. /\ g.todo = <<>> /\ g.at \in {"idle", "promote"}
      /\ Alone(g, hot, dry) /\ Turns(CallOf(f), CallOf(g))
  <2>1. CASE f.tier = "hot"
    <3>1. Turns(CallOf(f), CallOf(Idle))
      BY <1>1, <1>2, Returns
    <3> QED
      BY <2>1, <3>1, IdleShape, IdleAlone DEF Quiet
  <2>2. CASE f.tier # "hot"
    <3>1. /\ g.at = "promote" /\ g.key = k /\ g.val = f.val /\ g.todo = <<>>
          /\ g.then = "idle" /\ g.batch = <<>>
      BY <1>2, <2>2, MovedShape DEF Points, Resumed
    <3>5. KeepsCall(f, g)
      BY <1>2, <2>2, ResetKept DEF Points, Resumed
    <3> HIDE DEF g
    <3>2. Turns(CallOf(f), CallOf(g))
      <4>1. Ordinary(f) /\ Ordinary(g)
        BY <1>1, <3>1 DEF Ordinary, Removing
      <4> HIDE DEF f
      <4> QED
        BY <3>5, <4>1, SameCall
    <3>3. k \notin Resident(hot) /\ Seen(f.val) = Seen(dry[k])
      BY <1>1, <2>2 DEF Alone, Asking
    <3>4. Alone(g, hot, dry)
      BY <1>3, <3>1, <3>3, <3>5 DEF Alone, Once, Asking, KeepsCall
    <3> QED
      BY <3>1, <3>2, <3>4
  <2> QED
    BY <2>1, <2>2
<1> HIDE DEF g
<1>5. Undone(f) = {} /\ Undone(g) = {}
  BY <1>2, <1>4, QuietHas
<1>6. \A j \in Key : Here(g, hot, dry, j) = Here(f, hot, dry, j)
  <2>1. /\ f.at \notin {"dryFlush", "dryDelete"} /\ g.at \notin {"dryFlush", "dryDelete"}
        /\ Undone(g) = Undone(f)
    BY <1>1, <1>4, <1>5
  <2> HIDE DEF f
  <2> QED
    BY <2>1, MoveKeepsValues
<1>7. Rows(f, hot, dry, rows) => Rows(g, hot, dry, rows')
  <2> SUFFICES ASSUME Rows(f, hot, dry, rows) PROVE Rows(f, hot, dry, rows')
    BY <1>1, <1>2, MoveKeepsRows
  <2>1. \A j \in Key : j # k => rows'[j] = rows[j]
    BY <1>1
  <2>2. rows[k] # NoRow => rows'[k] # NoRow /\ rows'[k].tier = rows[k].tier
    <3> DEFINE row == rows[k]
    <3>1. row \in Row \cup {NoRow} /\ rows'[k] = RecordHit(row)
      BY <1>1, <1>2
    <3> HIDE DEF row
    <3>2. row # NoRow => RecordHit(row) # NoRow /\ RecordHit(row).tier = row.tier
      BY <3>1, TierCounted
    <3> QED
      BY <3>1, <3>2 DEF row
  <2> QED
    BY <1>2, <2>1, <2>2 DEF Rows
<1>8. hot' = hot /\ dry' = dry /\ Resident(cold') = {}
  BY <1>1
<1> HIDE DEF f
<1> QED
  BY <1>3, <1>4, <1>6, <1>7, <1>8, StepSummary DEF f

LEMMA SetTrackOne ==
    ASSUME Inv, NEW t \in Task, One(t), SetTrack(t)
    PROVE  AloneAfter(t) /\ MapAfter(t) /\ RowsAfter(t)
<1> DEFINE f == task[t]
           k == f.key
<1>1. /\ Good(f) /\ f.at = "setTrack" /\ task'[t] = Idle /\ Alone(f, hot, dry)
      /\ UNCHANGED <<hot, cold, dry>> /\ Resident(cold) = {}
      /\ rows' = [rows EXCEPT ![k] = RecordSet(@, "hot", f.reset)]
      /\ rows \in [Key -> Row \cup {NoRow}]
  BY TaskGood, GoesTo DEF SetTrack, One, Inv, TypeOK
<1>2. /\ k \in Key /\ f.todo = <<>> /\ f.then = "idle" /\ f.batch = <<>>
      /\ f.reset \in BOOLEAN /\ k \in Resident(hot)
  BY <1>1, NothingUndone DEF Good, Fits, Frame, Points, Waiting, Alone
<1>3. Turns(CallOf(f), CallOf(Idle))
  BY <1>1, <1>2, Returns
<1>4. Undone(f) = {} /\ Undone(Idle) = {} /\ Idle.at = "idle"
  BY <1>2, QuietHas, IdleShape DEF Quiet
<1>5. \A j \in Key : Here(Idle, hot, dry, j) = Here(f, hot, dry, j)
  BY <1>1, <1>4, MoveKeepsValues
<1>6. Store # "null" /\ Rows(f, hot, dry, rows) => Rows(Idle, hot, dry, rows')
  <2> SUFFICES ASSUME Store # "null", Rows(f, hot, dry, rows) PROVE Rows(Idle, hot, dry, rows')
    OBVIOUS
  <2>1. \A j \in Key : j # k => rows'[j] = rows[j]
    BY <1>1
  <2>2. rows'[k] # NoRow /\ rows'[k].tier = "hot"
    <3> DEFINE row == rows[k]
               r == f.reset
    <3>1. row \in Row \cup {NoRow} /\ rows'[k] = RecordSet(row, "hot", r) /\ r \in BOOLEAN
      BY <1>1, <1>2
    <3> HIDE DEF row, r
    <3>2. RecordSet(row, "hot", r) # NoRow /\ RecordSet(row, "hot", r).tier = "hot"
      BY <3>1, TierRecorded
    <3> QED
      BY <3>1, <3>2
  <2>3. \A j \in Key : ~Listed(f, j) /\ ~Goes(f, j)
    BY <1>1, <1>2 DEF Listed, Goes
  <2>4. \A j \in Key : j # k => ~Recording(f, j)
    BY DEF Recording
  <2> QED
    BY <1>2, <2>1, <2>2, <2>3, <2>4 DEF Rows
<1>7. hot' = hot /\ dry' = dry /\ Resident(cold') = {}
  BY <1>1
<1> HIDE DEF f
<1> QED
  BY <1>1, <1>3, <1>5, <1>6, <1>7, IdleAlone, StepSummary DEF f
-----------------------------------------------------------------------------
(***************************************************************************)
(* Writing to hot: set and the promotion of get.                           *)
(***************************************************************************)
LEMMA WriteHotOne ==
    ASSUME Inv, NEW t \in Task, One(t), NEW k \in Key, NEW v \in Val,
           NEW ttl \in TTL \cup {NoTTL}, NEW r \in BOOLEAN,
           WriteHot(t, k, v, ttl, r), UNCHANGED <<cold, dry, rows>>,
           task[t].todo = <<>>, task[t].then = "idle", task[t].at \in {"idle", "promote"}
    PROVE  /\ AloneAfter(t) /\ RowsAfter(t)
           /\ CallOf(task'[t]) = IF r THEN Called("set", k, Seen(v), <<>>)
                                      ELSE Called("get", k, NoVal, <<>>)
           /\ MapOf(task'[t], hot', dry')
                 = [MapOf(task[t], hot, dry) EXCEPT ![k] = Seen(v)]
<1> DEFINE f == task[t]
<1>1. hot \in Tier /\ Ordered(hot) /\ Resident(cold') = {} /\ dry' = dry /\ rows' = rows
  BY DEF Inv, TypeOK, One
<1>2. PICK D \in Victims(hot, k, v) : \E s \in Listings(hot, D) :
         /\ hot' = Stored(hot, k, v, ttl, D)
         /\ Go(t, Demote(Written(k, v, r), WithValues(hot, s), "setTrack"))
  BY DEF WriteHot, Written
<1>3. PICK s \in Listings(hot, D) :
         /\ hot' = Stored(hot, k, v, ttl, D)
         /\ Go(t, Demote(Written(k, v, r), WithValues(hot, s), "setTrack"))
  BY <1>2
<1>4. D \in SUBSET Resident(hot)
  BY <1>2 DEF Victims, OldestFirst
<1> DEFINE b == Written(k, v, r)
           g == Demote(b, WithValues(hot, s), "setTrack")
<1>5. /\ b \in Frame /\ b.todo = <<>> /\ b.then = "idle" /\ b.batch = <<>> /\ b.key = k
      /\ b.val = v /\ b.reset = r
  BY ResetShape DEF Quiet
<1>6. task'[t] = g
  BY <1>3, GoesTo
<1> HIDE DEF b
<1>16. KeepsCall(b, g)
  BY <1>5, DemoteKeeps DEF Onward
<1>7. g \in Frame /\ Evicting(g, D, "setTrack") /\ g.key = k
  BY <1>1, <1>4, <1>5, EvictingListed DEF Onward
<1>8. /\ Resident(hot') = (Resident(hot) \ D) \cup {k}
      /\ hot'.item[k].val = v
      /\ \A j \in Resident(hot) \ (D \cup {k}) : hot'.item[j].val = hot.item[j].val
  <2> DEFINE new == Stored(hot, k, v, ttl, D)
  <2>1. Resident(new) = (Resident(hot) \ D) \cup {k}
    BY <1>1, <1>4, StoredTier
  <2>4. new.item[k].val = v
    BY <1>1, <1>4, StoredTier
  <2>5. \A j \in Key \ (D \cup {k}) : new.item[j] = hot.item[j]
    BY <1>1, <1>4, StoredTier
  <2>2. Resident(hot) \subseteq Key
    BY <1>1, ResidentEntries
  <2> HIDE DEF new
  <2>3. \A j \in Resident(hot) \ (D \cup {k}) : new.item[j].val = hot.item[j].val
    BY <2>5, <2>2
  <2> QED
    BY <1>3, <2>1, <2>3, <2>4 DEF new
<1> HIDE DEF g
<1>9. CallOf(g) = IF r THEN Called("set", k, Seen(v), <<>>)
                       ELSE Called("get", k, NoVal, <<>>)
  <2>1. Ordinary(g) /\ g.batch = <<>> /\ g.key # NoKey
    BY <1>7, ValAssumption DEF Evicting, Ordinary, Removing
  <2>2. g.val = v /\ g.reset = r
    BY <1>5, <1>16 DEF KeepsCall
  <2>3. CASE r
    BY <1>7, <2>1, <2>2, <2>3, CallOfSet
  <2>4. CASE ~r
    BY <1>7, <2>1, <2>2, <2>4, CallOfGet
  <2> QED
    BY <2>3, <2>4
<1>10. /\ {k} \in SUBSET {g.key} /\ {k} \in SUBSET Key /\ "setTrack" \in Onward
       /\ g.key \in Resident(hot')
  BY <1>7, <1>8 DEF Onward
<1>11. Alone(g, hot', dry)
  BY <1>4, <1>7, <1>8, <1>10, EvictionAlone
<1>12. Rows(f, hot, dry, rows) => Rows(g, hot', dry, rows)
  BY <1>4, <1>7, <1>8, <1>10, EvictionRows
<1>13. \A j \in Key \ {k} : Here(g, hot', dry, j) = Here(f, hot, dry, j)
  <2> DEFINE W == {k}
  <2>1. f.todo = <<>> /\ f.at \notin {"dryFlush", "dryDelete"}
    OBVIOUS
  <2>2. /\ W \in SUBSET Key /\ Resident(hot') = (Resident(hot) \ D) \cup W
        /\ \A j \in Resident(hot) \ (D \cup W) : hot'.item[j].val = hot.item[j].val
    BY <1>8
  <2> HIDE DEF f, W
  <2>3. \A j \in Key \ W : Here(g, hot', dry, j) = Here(f, hot, dry, j)
    BY <1>4, <1>7, <1>10, <2>1, <2>2, EvictionKeepsValues
  <2> QED
    BY <2>3 DEF W
<1>14. Here(g, hot', dry, k) = v
  BY <1>8, HereInHot
<1>15. MapOf(g, hot', dry) = [MapOf(f, hot, dry) EXCEPT ![k] = Seen(v)]
  <2> HIDE DEF f
  <2> QED
    BY <1>13, <1>14 DEF MapOf
<1> HIDE DEF f
<1> QED
  BY <1>1, <1>6, <1>9, <1>11, <1>12, <1>15 DEF AloneAfter, RowsAfter, f

LEMMA SetOne ==
    ASSUME Inv, NEW t \in Task, One(t), NEW k \in Key, NEW v \in Val,
           NEW ttl \in TTL \cup {NoTTL}, Set(t, k, v, ttl)
    PROVE  AloneAfter(t) /\ MapAfter(t) /\ RowsAfter(t)
<1>1. Free(t) /\ WriteHot(t, k, v, ttl, TRUE) /\ UNCHANGED <<cold, dry, rows>>
  BY DEF Set
<1>2. /\ task[t].todo = <<>> /\ task[t].then = "idle" /\ task[t].at = "idle"
      /\ CallOf(task[t]) = Nothing
  BY <1>1, FreeShape
<1> DEFINE m == MapOf(task[t], hot, dry)
           n == MapOf(task'[t], hot', dry')
           e == Called("set", k, Seen(v), <<>>)
<1>3. AloneAfter(t) /\ RowsAfter(t) /\ CallOf(task'[t]) = e /\ n = [m EXCEPT ![k] = Seen(v)]
  BY <1>1, <1>2, WriteHotOne
<1>4. Seen(v) \in Val \cup {NoVal}
  BY DEF Seen
<1> HIDE DEF m, n
<1>5. MapStep(m, Nothing, n, e)
  BY <1>3, <1>4 DEF MapStep
<1>6. MapAfter(t)
  BY <1>2, <1>3, <1>5 DEF MapAfter, m, n
<1> QED
  BY <1>3, <1>6

LEMMA PromoteOne ==
    ASSUME Inv, NEW t \in Task, One(t), Promote(t)
    PROVE  AloneAfter(t) /\ MapAfter(t) /\ RowsAfter(t)
<1> DEFINE f == task[t]
           k == f.key
           v == f.val
           m == MapOf(f, hot, dry)
           n == MapOf(task'[t], hot', dry')
<1>1. /\ Good(f) /\ f.at = "promote" /\ WriteHot(t, k, v, NoTTL, FALSE)
      /\ UNCHANGED <<cold, dry, rows>> /\ Alone(f, hot, dry)
  BY TaskGood DEF Promote, One
<1>2. /\ k \in Key /\ v \in Val /\ f.todo = <<>> /\ f.then = "idle" /\ f.batch = <<>>
      /\ k \notin Resident(hot) /\ Seen(v) = Seen(dry[k])
  BY <1>1, NothingUndone DEF Good, Fits, Frame, Points, Resumed, Alone, Asking
<1>3. NoTTL \in TTL \cup {NoTTL}
  OBVIOUS
<1>4. /\ AloneAfter(t) /\ RowsAfter(t) /\ n = [m EXCEPT ![k] = Seen(v)]
      /\ CallOf(task'[t]) = Called("get", k, NoVal, <<>>)
  <2> DEFINE kk == f.key
             vv == f.val
  <2>1. kk \in Key /\ vv \in Val /\ WriteHot(t, kk, vv, NoTTL, FALSE)
    BY <1>1, <1>2
  <2> HIDE DEF kk, vv
  <2>2. /\ UNCHANGED <<cold, dry, rows>> /\ task[t].todo = <<>> /\ task[t].then = "idle"
        /\ task[t].at \in {"idle", "promote"}
    BY <1>1, <1>2
  <2>3. AloneAfter(t) /\ RowsAfter(t) /\ CallOf(task'[t]) = Called("get", kk, NoVal, <<>>)
    BY <1>3, <2>1, <2>2, WriteHotOne
  <2>4. MapOf(task'[t], hot', dry') = [MapOf(task[t], hot, dry) EXCEPT ![kk] = Seen(vv)]
    BY <1>3, <2>1, <2>2, WriteHotOne
  <2> QED
    BY <2>3, <2>4 DEF kk, vv
<1>5. CallOf(f) = Called("get", k, NoVal, <<>>)
  <2>1. Ordinary(f) /\ f.key # NoKey /\ ~f.reset
    BY <1>1, <1>2, ValAssumption DEF Ordinary, Removing, Alone
  <2> QED
    BY <1>2, <2>1, CallOfGet
<1>6. Here(f, hot, dry, k) = dry[k]
  <2>1. ~Has(f, k) /\ ~Goes(f, k)
    BY <1>1, <1>2, QuietHas, GoesNowhere
  <2> QED
    BY <1>2, <2>1, HereInDry
<1>7. m[k] = Seen(v) /\ m = [j \in Key |-> m[j]]
  BY <1>2, <1>6 DEF MapOf
<1> HIDE DEF m, n
<1>8. n = m
  BY <1>4, <1>7
<1>9. MapAfter(t)
  BY <1>4, <1>5, <1>8 DEF MapAfter, MapStep, Turns, m, n
<1> QED
  BY <1>4, <1>9
-----------------------------------------------------------------------------
(***************************************************************************)
(* delete and purge.                                                       *)
(***************************************************************************)
LEMMA DeleteFromRamOne ==
    ASSUME Inv, NEW t \in Task, One(t), NEW k \in Key, NEW b \in Seq(Key),
           DeleteFromRam(t, k, b), task[t].todo = <<>>, task[t].then = "idle",
           task[t].at \in {"idle", "ramDelete"},
           \/ CallOf(task[t]) = Nothing
           \/ LET s == task[t].batch IN
              /\ \E j : CallOf(task[t]) = Called("delete", j, NoVal, s)
              /\ s # <<>> /\ k = Head(s) /\ b = Tail(s)
    PROVE  AloneAfter(t) /\ MapAfter(t) /\ RowsAfter(t)
<1> DEFINE f == task[t]
           g == [On("dryDelete", k) EXCEPT !.batch = b]
           m == MapOf(f, hot, dry)
           n == MapOf(g, hot', dry')
<1>1. /\ hot \in Tier /\ Ordered(hot) /\ cold \in Tier /\ Ordered(cold)
      /\ dry' = dry /\ rows' = rows /\ Resident(cold) = {}
      /\ hot' = Without(hot, {k}) /\ cold' = Without(cold, {k})
  BY DEF Inv, TypeOK, One, DeleteFromRam
<1>2. task'[t] = g
  BY GoesTo DEF DeleteFromRam
<1>3. /\ g \in Frame /\ g.todo = <<>> /\ g.then = "idle" /\ g.at = "dryDelete"
      /\ g.key = k /\ g.batch = b
  BY DeleteShape DEF Quiet
<1>12. ~g.reset
  BY NoReset
<1> HIDE DEF g
<1>4. /\ Resident(hot') = Resident(hot) \ {k} /\ Resident(cold') = {}
      /\ \A j \in Key \ {k} : hot'.item[j] = hot.item[j]
  BY <1>1, WithoutTier
<1>5. Alone(g, hot', dry)
  BY <1>3, <1>4, <1>12 DEF Alone, Once, Asking
<1>6. CallOf(g) = Called("delete", k, NoVal, b)
  BY <1>3, CallOfRemoving DEF Removing
<1>7. Here(g, hot', dry, k) = NoVal
  BY <1>3, <1>4, QuietHas DEF Here, Goes
<1>8. \A j \in Key \ {k} : Here(g, hot', dry, j) = Here(f, hot, dry, j)
  <2> SUFFICES ASSUME NEW j \in Key \ {k} PROVE Here(g, hot', dry, j) = Here(f, hot, dry, j)
    OBVIOUS
  <2>1. ~Has(g, j) /\ ~Has(f, j)
    BY <1>3, QuietHas
  <2>2. ~Goes(g, j) /\ ~Goes(f, j)
    BY <1>3 DEF Goes
  <2> QED
    BY <1>4, <2>1, <2>2 DEF Here
<1>9. n = [m EXCEPT ![k] = NoVal]
  BY <1>1, <1>7, <1>8 DEF MapOf, Seen
<1>10. Rows(f, hot, dry, rows) => Rows(g, hot', dry, rows)
  <2> SUFFICES ASSUME Rows(f, hot, dry, rows), NEW j \in Key
               PROVE  /\ j \in Resident(hot') => rows[j] # NoRow /\ rows[j].tier = "hot"
                      /\ j \notin Resident(hot') /\ dry[j] # NoVal /\ ~Goes(g, j)
                            => rows[j] # NoRow /\ rows[j].tier = "dry"
    BY DEF Rows
  <2>1. /\ j \in Resident(hot) => rows[j] # NoRow /\ rows[j].tier = "hot"
        /\ j \notin Resident(hot) /\ dry[j] # NoVal => rows[j] # NoRow /\ rows[j].tier = "dry"
    BY DEF Rows, Recording, Listed, Goes
  <2>2. Goes(g, k)
    BY <1>3 DEF Goes
  <2> QED
    BY <1>4, <2>1, <2>2
<1> HIDE DEF m, n
<1>11. MapStep(m, CallOf(f), n, CallOf(g))
  <2>1. CASE CallOf(f) = Nothing
    BY <1>6, <1>9, <2>1 DEF MapStep
  <2>2. CASE CallOf(f) # Nothing
    <3> DEFINE s == f.batch
    <3>1. PICK j : CallOf(f) = Called("delete", j, NoVal, s)
      BY <2>2
    <3>2. s # <<>> /\ k = Head(s) /\ b = Tail(s)
      BY <2>2
    <3> HIDE DEF f, s
    <3> QED
      BY <1>6, <1>9, <3>1, <3>2 DEF MapStep
  <2> QED
    BY <2>1, <2>2
<1> HIDE DEF f
<1> QED
  BY <1>1, <1>2, <1>4, <1>5, <1>10, <1>11 DEF AloneAfter, MapAfter, RowsAfter, f, m, n

LEMMA DeleteOne ==
    ASSUME Inv, NEW t \in Task, One(t), NEW k \in Key, Delete(t, k)
    PROVE  AloneAfter(t) /\ MapAfter(t) /\ RowsAfter(t)
<1>1. Free(t) /\ DeleteFromRam(t, k, <<>>) /\ <<>> \in Seq(Key)
  BY DEF Delete
<1>2. /\ task[t].todo = <<>> /\ task[t].then = "idle" /\ task[t].at = "idle"
      /\ CallOf(task[t]) = Nothing
  BY <1>1, FreeShape
<1> QED
  BY <1>1, <1>2, DeleteFromRamOne

LEMMA StillOne ==
    ASSUME Inv, NEW t \in Task, One(t), UNCHANGED vars
    PROVE  AloneAfter(t) /\ MapAfter(t) /\ RowsAfter(t)
BY DEF vars, One, AloneAfter, MapAfter, RowsAfter, MapStep, Turns

LEMMA PurgeOne ==
    ASSUME Inv, NEW t \in Task, One(t), NEW pattern \in Patterns, Purge(t, pattern)
    PROVE  AloneAfter(t) /\ MapAfter(t) /\ RowsAfter(t)
<1> DEFINE D == LiveKeys(hot) \cap pattern
<1>1. PICK s \in Listings(hot, D) :
         IF s = <<>> THEN UNCHANGED vars ELSE DeleteFromRam(t, Head(s), Tail(s))
  BY DEF Purge
<1>2. /\ task[t].todo = <<>> /\ task[t].then = "idle" /\ task[t].at = "idle"
      /\ CallOf(task[t]) = Nothing
  BY FreeShape DEF Purge
<1>3. CASE s = <<>>
  BY <1>1, <1>3, StillOne
<1>4. CASE s # <<>>
  <2>1. hot \in Tier /\ Ordered(hot) /\ D \in SUBSET Resident(hot)
    BY DEF Inv, TypeOK, LiveKeys
  <2>2. s \in Seq(D) /\ Resident(hot) \subseteq Key
    BY <2>1, ResidentEntries, ListingElements
  <2>3. Head(s) \in Key /\ Tail(s) \in Seq(Key)
    BY <1>4, <2>1, <2>2
  <2> QED
    BY <1>1, <1>2, <1>4, <2>3, DeleteFromRamOne
<1> QED
  BY <1>3, <1>4

LEMMA RamDeleteOne ==
    ASSUME Inv, NEW t \in Task, One(t), RamDelete(t)
    PROVE  AloneAfter(t) /\ MapAfter(t) /\ RowsAfter(t)
<1>1. /\ Good(task[t]) /\ task[t].at = "ramDelete" /\ Alone(task[t], hot, dry)
      /\ DeleteFromRam(t, Head(task[t].batch), Tail(task[t].batch))
  BY TaskGood DEF RamDelete, One
<1>2. /\ task[t].batch \in Seq(Key) /\ task[t].batch # <<>>
      /\ task[t].todo = <<>> /\ task[t].then = "idle"
  BY <1>1, NothingUndone DEF Good, Fits, Frame, Alone
<1>3. Head(task[t].batch) \in Key /\ Tail(task[t].batch) \in Seq(Key)
  BY <1>2
<1>4. CallOf(task[t]) = Called("delete", task[t].key, NoVal, task[t].batch)
  BY <1>1, CallOfRemoving DEF Removing
<1> QED
  BY <1>1, <1>2, <1>3, <1>4, DeleteFromRamOne

LEMMA DryDeleteOne ==
    ASSUME Inv, NEW t \in Task, One(t), DryDelete(t)
    PROVE  AloneAfter(t) /\ MapAfter(t) /\ RowsAfter(t)
<1> DEFINE f == task[t]
           k == f.key
           g == [f EXCEPT !.at = "delTrack"]
<1>1. /\ Good(f) /\ f.at = "dryDelete" /\ Go(t, g) /\ Alone(f, hot, dry)
      /\ UNCHANGED <<hot, cold, rows>> /\ Resident(cold) = {}
      /\ dry' = [dry EXCEPT ![k] = NoVal] /\ dry \in [Key -> Val \cup {NoVal}]
  BY TaskGood DEF DryDelete, One, Inv, TypeOK
<1>2. /\ k \in Key /\ f \in Frame /\ f.todo = <<>> /\ f.then = "idle"
      /\ k \notin Resident(hot)
  BY <1>1, NothingUndone DEF Good, Fits, Frame, Points, Waiting, Alone
<1>3. task'[t] = g
  BY <1>1, GoesTo
<1>4. /\ g.at = "delTrack" /\ g.key = k /\ g.todo = <<>> /\ g.then = "idle"
      /\ g.batch = f.batch
  BY <1>2, MovedShape DEF Points, Waiting
<1>11. ~g.reset
  BY <1>1, <1>2, ResetKept DEF Points, Waiting, KeepsCall, Alone
<1> HIDE DEF g
<1>5. dry'[k] = NoVal /\ \A j \in Key : j # k => dry'[j] = dry[j]
  BY <1>1, <1>2
<1>6. Alone(g, hot, dry')
  BY <1>2, <1>4, <1>5, <1>11 DEF Alone, Once, Asking
<1>7. Turns(CallOf(f), CallOf(g))
  <2>1. CallOf(f) = Called("delete", k, NoVal, f.batch)
    BY <1>1, CallOfRemoving DEF Removing
  <2>2. CallOf(g) = Called("delete", k, NoVal, f.batch)
    BY <1>4, CallOfRemoving DEF Removing
  <2> QED
    BY <2>1, <2>2 DEF Turns
<1>8. \A j \in Key : Here(g, hot, dry', j) = Here(f, hot, dry, j)
  <2> SUFFICES ASSUME NEW j \in Key PROVE Here(g, hot, dry', j) = Here(f, hot, dry, j)
    OBVIOUS
  <2>1. ~Has(g, j) /\ ~Has(f, j) /\ ~Goes(g, j)
    BY <1>2, <1>4, QuietHas, GoesNowhere
  <2>2. Goes(f, j) <=> j = k
    BY <1>1 DEF Goes
  <2> QED
    BY <1>5, <2>1, <2>2 DEF Here
<1>9. Rows(f, hot, dry, rows) => Rows(g, hot, dry', rows)
  BY <1>1, <1>2, <1>5 DEF Rows, Recording, Listed, Goes
<1>10. hot' = hot /\ rows' = rows /\ Resident(cold') = {}
  BY <1>1
<1> HIDE DEF f
<1> QED
  BY <1>3, <1>6, <1>7, <1>8, <1>9, <1>10, StepSummary DEF f

LEMMA DelTrackOne ==
    ASSUME Inv, NEW t \in Task, One(t), DelTrack(t)
    PROVE  AloneAfter(t) /\ MapAfter(t) /\ RowsAfter(t)
<1> DEFINE f == task[t]
           k == f.key
           g == IF f.batch = <<>> THEN Idle ELSE [f EXCEPT !.at = "ramDelete"]
<1>1. /\ Good(f) /\ f.at = "delTrack" /\ Go(t, g) /\ Alone(f, hot, dry)
      /\ UNCHANGED <<hot, cold, dry>> /\ Resident(cold) = {}
      /\ rows' = [rows EXCEPT ![k] = RecordDelete(@)] /\ rows \in [Key -> Row \cup {NoRow}]
  BY TaskGood DEF DelTrack, One, Inv, TypeOK
<1>2. /\ k \in Key /\ f \in Frame /\ f.todo = <<>> /\ f.then = "idle"
      /\ k \notin Resident(hot) /\ dry[k] = NoVal
  BY <1>1, NothingUndone DEF Good, Fits, Frame, Points, Waiting, Alone
<1>3. task'[t] = g
  BY <1>1, GoesTo
<1>4. /\ g.todo = <<>> /\ g.at \in {"idle", "ramDelete"} /\ Alone(g, hot, dry)
      /\ Turns(CallOf(f), CallOf(g))
  <2>1. CASE f.batch = <<>>
    <3>1. Turns(CallOf(f), CallOf(Idle))
      BY <1>1, <2>1, Returns
    <3> QED
      BY <2>1, <3>1, IdleShape, IdleAlone DEF Quiet
  <2>2. CASE f.batch # <<>>
    <3>1. /\ g.at = "ramDelete" /\ g.key = k /\ g.todo = <<>> /\ g.then = "idle"
          /\ g.batch = f.batch
      BY <1>2, <2>2, MovedShape DEF Points, Resumed
    <3>4. ~g.reset
      BY <1>1, <1>2, <2>2, ResetKept DEF Points, Resumed, KeepsCall, Alone
    <3> HIDE DEF g
    <3>2. Alone(g, hot, dry)
      BY <3>1, <3>4 DEF Alone, Once, Asking
    <3>3. Turns(CallOf(f), CallOf(g))
      <4>1. CallOf(f) = Called("delete", k, NoVal, f.batch)
        BY <1>1, CallOfRemoving DEF Removing
      <4>2. CallOf(g) = Called("delete", k, NoVal, f.batch)
        BY <3>1, CallOfRemoving DEF Removing
      <4> QED
        BY <4>1, <4>2 DEF Turns
    <3> QED
      BY <3>1, <3>2, <3>3
  <2> QED
    BY <2>1, <2>2
<1> HIDE DEF g
<1>6. \A j \in Key : Here(g, hot, dry, j) = Here(f, hot, dry, j)
  <2>1. /\ f.at \notin {"dryFlush", "dryDelete"} /\ g.at \notin {"dryFlush", "dryDelete"}
        /\ Undone(g) = Undone(f)
    BY <1>1, <1>2, <1>4, QuietHas
  <2> HIDE DEF f
  <2> QED
    BY <2>1, MoveKeepsValues
<1>7. Rows(f, hot, dry, rows) => Rows(g, hot, dry, rows')
  <2> SUFFICES ASSUME Rows(f, hot, dry, rows) PROVE Rows(f, hot, dry, rows')
    BY <1>1, <1>2, MoveKeepsRows
  <2>1. \A j \in Key : j # k => rows'[j] = rows[j]
    BY <1>1
  <2> QED
    BY <1>2, <2>1 DEF Rows
<1>8. hot' = hot /\ dry' = dry /\ Resident(cold') = {}
  BY <1>1
<1> HIDE DEF f
<1> QED
  BY <1>3, <1>4, <1>6, <1>7, <1>8, StepSummary DEF f
-----------------------------------------------------------------------------
(***************************************************************************)
(* flush, cleanup_expired and the clock.                                   *)
(***************************************************************************)
LEMMA GoingShape ==
    LET g == [Idle EXCEPT !.at = "dryFlush"] IN
    /\ g.at = "dryFlush" /\ g.todo = <<>> /\ g.then = "idle" /\ g.batch = <<>>
    /\ ~g.reset /\ CallOf(g) = Called("flush", NoKey, NoVal, <<>>)
<1> DEFINE g == [Idle EXCEPT !.at = "dryFlush"]
<1>1. /\ g.at = "dryFlush" /\ g.todo = <<>> /\ g.then = "idle" /\ g.batch = <<>>
      /\ g.key = NoKey
  BY IdleShape DEF Frame, Quiet
<1>2. ~g.reset
  BY IdleShape, NoReset, ResetKept DEF Points, Waiting, KeepsCall
<1> HIDE DEF g
<1>3. CallOf(g) = Called("flush", NoKey, NoVal, <<>>)
  BY <1>1, CallOfFlush
<1> QED
  BY <1>1, <1>2, <1>3 DEF g

LEMMA FlushOne ==
    ASSUME Inv, NEW t \in Task, One(t), NEW tier \in FlushTiers, Flush(t, tier)
    PROVE  AloneAfter(t) /\ MapAfter(t) /\ RowsAfter(t)
<1> DEFINE f == task[t]
           going == [Idle EXCEPT !.at = "dryFlush"]
           g == IF tier \in {"dry", "all"} THEN going ELSE Idle
<1>1. /\ Free(t) /\ dry' = dry /\ rows' = rows /\ Resident(cold) = {}
      /\ hot' = IF tier \in {"hot", "all"} THEN Empty ELSE hot
      /\ cold' = IF tier \in {"cold", "all"} THEN Empty ELSE cold
      /\ task'[t] = g
  BY GoesTo DEF Flush, One
<1>2. /\ f.todo = <<>> /\ f.then = "idle" /\ f.at = "idle" /\ f.batch = <<>>
      /\ CallOf(f) = Nothing
  BY <1>1, FreeShape
<1>3. Resident(cold') = {} /\ Resident(Empty) = {}
  BY <1>1, EmptyTier
<1>4. /\ going.at = "dryFlush" /\ going.todo = <<>> /\ going.then = "idle"
      /\ going.batch = <<>> /\ ~going.reset
      /\ CallOf(going) = Called("flush", NoKey, NoVal, <<>>)
  BY GoingShape
<1> HIDE DEF going
<1>5. /\ g.at \in {"idle", "dryFlush"} /\ g.todo = <<>> /\ g.then = "idle"
      /\ g.batch = <<>> /\ ~g.reset
  BY <1>4, IdleShape, NoReset DEF Quiet
<1>6. Alone(g, hot', dry)
  <2> HIDE DEF g
  <2> QED
    BY <1>5, AloneQuiet DEF Quiet
<1>7. ASSUME FlushTiers \subseteq {"cold", "all"}
      PROVE  MapStep(MapOf(f, hot, dry), CallOf(f), MapOf(g, hot', dry), CallOf(g))
  <2>1. CASE tier = "cold"
    <3>1. g = Idle /\ hot' = hot /\ f = Idle
      BY <1>1, <2>1, FreeShape
    <3> QED
      BY <3>1 DEF MapStep, Turns
  <2>2. CASE tier = "all"
    <3>1. g = going /\ Resident(hot') = {}
      BY <1>1, <1>3, <2>2
    <3>2. \A k \in Key : Here(going, hot', dry, k) = NoVal
      BY <1>4, <3>1, QuietHas DEF Here, Goes
    <3>3. MapOf(going, hot', dry) = [k \in Key |-> NoVal]
      BY <3>2 DEF MapOf, Seen
    <3> QED
      BY <1>2, <1>4, <3>1, <3>3 DEF MapStep
  <2> QED
    BY <1>7, <2>1, <2>2
<1>8. "hot" \notin FlushTiers /\ Rows(f, hot, dry, rows) => Rows(g, hot', dry, rows)
  <2>1. CASE tier = "cold"
    BY <1>1, <2>1, FreeShape
  <2>2. CASE tier \in {"dry", "all"}
    <3>1. Resident(hot') = {} \/ hot' = hot
      BY <1>1, <1>3
    <3>2. \A k : Goes(g, k)
      BY <1>4, <2>2 DEF Goes
    <3>3. \A k : ~Recording(f, k)
      BY <1>2 DEF Recording
    <3> HIDE DEF f, g
    <3> QED
      BY <3>1, <3>2, <3>3 DEF Rows
  <2> QED
    BY <2>1, <2>2, CallAssumption
<1> HIDE DEF f, g
<1> QED
  BY <1>1, <1>3, <1>6, <1>7, <1>8 DEF AloneAfter, MapAfter, RowsAfter, f

LEMMA DryFlushOne ==
    ASSUME Inv, NEW t \in Task, One(t), DryFlush(t)
    PROVE  AloneAfter(t) /\ MapAfter(t) /\ RowsAfter(t)
<1> DEFINE f == task[t]
<1>1. /\ Good(f) /\ f.at = "dryFlush" /\ task'[t] = Idle /\ Alone(f, hot, dry)
      /\ UNCHANGED <<hot, cold, rows>> /\ Resident(cold) = {}
      /\ dry' = [k \in Key |-> NoVal]
  BY TaskGood, GoesTo DEF DryFlush, One
<1>2. f.todo = <<>> /\ f.then = "idle" /\ f.batch = <<>>
  BY <1>1, NothingUndone DEF Alone
<1>3. Turns(CallOf(f), CallOf(Idle))
  BY <1>1, <1>2, Returns
<1>4. Idle.todo = <<>> /\ Idle.at = "idle"
  BY IdleShape DEF Quiet
<1>5. \A j \in Key : Here(Idle, hot, dry', j) = Here(f, hot, dry, j)
  <2> SUFFICES ASSUME NEW j \in Key PROVE Here(Idle, hot, dry', j) = Here(f, hot, dry, j)
    OBVIOUS
  <2>1. ~Has(f, j) /\ ~Has(Idle, j) /\ ~Goes(Idle, j)
    BY <1>2, <1>4, QuietHas, GoesNowhere
  <2>2. Goes(f, j) /\ dry'[j] = NoVal
    BY <1>1 DEF Goes
  <2> QED
    BY <2>1, <2>2 DEF Here
<1>6. Rows(f, hot, dry, rows) => Rows(Idle, hot, dry', rows)
  BY <1>1, <1>2 DEF Rows, Recording
<1>7. hot' = hot /\ rows' = rows /\ Resident(cold') = {}
  BY <1>1
<1> HIDE DEF f
<1> QED
  BY <1>1, <1>3, <1>5, <1>6, <1>7, IdleAlone, StepSummary DEF f

(* There is nothing to sweep in an empty cold tier.                        *)
LEMMA NothingSwept ==
    ASSUME Inv, NEW t \in Task, Resident(cold) = {}, SweepCold(t)
    PROVE  task'[t] = Idle /\ Resident(cold') = {}
<1> DEFINE D == ExpiredKeys(cold)
<1>1. D = {} /\ cold \in Tier /\ Ordered(cold)
  BY DEF ExpiredKeys, Inv, TypeOK
<1>2. PICK s \in Listings(cold, D) :
         /\ cold' = Without(cold, D)
         /\ Go(t, Demote(Idle, WithValues(cold, s), "idle"))
  BY DEF SweepCold
<1>3. Resident(cold') = {}
  <2>1. Resident(Without(cold, D)) = Resident(cold) \ D
    BY <1>1, WithoutTier
  <2> QED
    BY <1>2, <2>1
<1>4. WithValues(cold, s) = <<>>
  BY <1>1, ListedOnce
<1>5. Demote(Idle, <<>>, "idle") = Idle
  BY DEF Demote, Idle
<1> QED
  BY <1>2, <1>3, <1>4, <1>5, GoesTo

LEMMA ColdSweepOne ==
    ASSUME Inv, NEW t \in Task, One(t), ColdSweep(t)
    PROVE  AloneAfter(t) /\ MapAfter(t) /\ RowsAfter(t)
<1> DEFINE f == task[t]
<1>1. /\ Good(f) /\ f.at = "coldSweep" /\ Alone(f, hot, dry) /\ SweepCold(t)
      /\ UNCHANGED <<hot, dry, rows>> /\ Resident(cold) = {}
  BY TaskGood DEF ColdSweep, One
<1>2. f.todo = <<>> /\ f.then = "idle" /\ f.batch = <<>>
  BY <1>1, NothingUndone DEF Alone
<1>3. Turns(CallOf(f), CallOf(Idle))
  BY <1>1, <1>2, Returns
<1>4. Idle.todo = <<>> /\ Idle.at = "idle"
  BY IdleShape DEF Quiet
<1>5. task'[t] = Idle /\ Resident(cold') = {}
  BY <1>1, NothingSwept
<1>6. \A j \in Key : Here(Idle, hot, dry, j) = Here(f, hot, dry, j)
  <2>1. /\ f.at \notin {"dryFlush", "dryDelete"} /\ Idle.at \notin {"dryFlush", "dryDelete"}
        /\ Undone(Idle) = Undone(f)
    BY <1>1, <1>2, <1>4, QuietHas
  <2> HIDE DEF f
  <2> QED
    BY <2>1, MoveKeepsValues
<1>7. Rows(f, hot, dry, rows) => Rows(Idle, hot, dry, rows)
  BY <1>1, <1>2, MoveKeepsRows
<1>8. hot' = hot /\ dry' = dry /\ rows' = rows
  BY <1>1
<1> HIDE DEF f
<1> QED
  BY <1>3, <1>5, <1>6, <1>7, <1>8, IdleAlone, StepSummary DEF f

LEMMA CleanupExpiredOne ==
    ASSUME Inv, NEW t \in Task, One(t), CleanupExpired(t)
    PROVE  AloneAfter(t) /\ MapAfter(t) /\ RowsAfter(t)
<1> DEFINE D == ExpiredKeys(hot)
<1>1. /\ hot \in Tier /\ Ordered(hot) /\ D \in SUBSET Resident(hot)
      /\ Resident(cold) = {} /\ UNCHANGED <<dry, rows>> /\ Free(t)
  BY DEF Inv, TypeOK, One, ExpiredKeys, CleanupExpired
<1>2. /\ task[t].todo = <<>> /\ task[t].then = "idle" /\ task[t].at = "idle"
      /\ CallOf(task[t]) = Nothing
  BY <1>1, FreeShape
<1>3. PICK s \in Listings(hot, D) :
         /\ hot' = Without(hot, D)
         /\ IF s = <<>> THEN SweepCold(t)
            ELSE /\ Go(t, Demote(Idle, WithValues(hot, s), "coldSweep"))
                 /\ UNCHANGED cold
  BY DEF CleanupExpired
<1>4. /\ Resident(hot') = Resident(hot) \ D
      /\ \A j \in Resident(hot) \ D : hot'.item[j].val = hot.item[j].val
  <2>1. /\ Resident(Without(hot, D)) = Resident(hot) \ D
        /\ \A j \in Key \ D : Without(hot, D).item[j] = hot.item[j]
    BY <1>1, WithoutTier, ResidentEntries
  <2> QED
    BY <1>1, <1>3, <2>1, ResidentEntries
<1>5. Idle \in Frame /\ Idle.todo = <<>> /\ Idle.then = "idle" /\ Idle.batch = <<>>
  BY IdleShape DEF Quiet
<1>6. s = <<>> <=> D = {}
  BY <1>1, ListedOnce
<1> HIDE DEF D
<1>7. CASE s = <<>>
  <2>1. task'[t] = Idle /\ Resident(cold') = {}
    BY <1>1, <1>3, <1>7, NothingSwept
  <2>2. Evicting(Idle, D, "idle")
    BY <1>6, <1>7, IdleShape DEF Evicting, Quiet, Once
  <2>3. "idle" \in Onward \ {"setTrack"}
    BY DEF Onward
  <2>4. Turns(CallOf(task[t]), CallOf(Idle)) /\ ~Idle.reset
    BY <1>2, CallOfIdle, NoReset DEF Turns
  <2> QED
    BY <1>1, <1>2, <1>4, <1>5, <2>1, <2>2, <2>3, <2>4, EvictOne
<1>8. CASE s # <<>>
  <2> DEFINE g == Demote(Idle, WithValues(hot, s), "coldSweep")
  <2>1. Go(t, g) /\ Resident(cold') = {}
    BY <1>1, <1>3, <1>8
  <2>2. g \in Frame /\ Evicting(g, D, "coldSweep") /\ g.key = NoKey
    BY <1>1, <1>5, IdleShape, EvictingListed DEF Onward
  <2>6. ~g.reset
    BY <1>5, NoReset, DemoteKeeps DEF Onward, KeepsCall
  <2>3. task'[t] = g
    BY <2>1, GoesTo
  <2> HIDE DEF g
  <2>4. Turns(CallOf(task[t]), CallOf(g))
    <3>1. Ordinary(g) /\ g.batch = <<>>
      BY <2>2 DEF Evicting, Ordinary, Removing
    <3>2. CallOf(g) = Called("cleanup", NoKey, NoVal, <<>>)
      BY <2>2, <3>1, CallOfCleanup
    <3> QED
      BY <1>2, <3>2 DEF Turns
  <2>5. "coldSweep" \in Onward \ {"setTrack"}
    BY DEF Onward
  <2> QED
    BY <1>1, <1>2, <1>4, <2>1, <2>2, <2>3, <2>4, <2>5, <2>6, EvictOne
<1> QED
  BY <1>7, <1>8

LEMMA TickOne ==
    ASSUME Inv, NEW t \in Task, One(t), NEW d \in Steps, Tick(d)
    PROVE  AloneAfter(t) /\ MapAfter(t) /\ RowsAfter(t)
<1> DEFINE f == task[t]
<1>1. /\ hot \in Tier /\ Ordered(hot) /\ cold \in Tier /\ Ordered(cold) /\ d \in Nat
      /\ hot' = Aged(hot, d) /\ cold' = Aged(cold, d) /\ UNCHANGED <<dry, rows, task>>
      /\ Resident(cold) = {} /\ Alone(f, hot, dry)
  BY CallAssumption DEF Inv, TypeOK, Tick, One
<1>2. /\ Resident(hot') = Resident(hot) /\ Resident(cold') = {}
      /\ \A k \in Resident(hot) : hot'.item[k].val = hot.item[k].val
  BY <1>1, AgedTier
<1>3. Alone(f, hot', dry)
  BY <1>1, <1>2 DEF Alone
<1>4. \A k \in Key : Here(f, hot', dry, k) = Here(f, hot, dry, k)
  BY <1>2 DEF Here
<1>5. Rows(f, hot, dry, rows) => Rows(f, hot', dry, rows)
  BY <1>2 DEF Rows
<1>6. task'[t] = f /\ dry' = dry /\ rows' = rows /\ Turns(CallOf(f), CallOf(f))
  BY <1>1 DEF Turns
<1> HIDE DEF f
<1> QED
  BY <1>2, <1>3, <1>4, <1>5, <1>6, StepSummary DEF f
-----------------------------------------------------------------------------
(***************************************************************************)
(* Every step of the one task, and of the clock.                           *)
(***************************************************************************)
LEMMA CallOne ==
    ASSUME Inv, NEW t \in Task, One(t), ColdMiss = NoVal, Call(t)
    PROVE  AloneAfter(t) /\ MapAfter(t) /\ RowsAfter(t)
BY GivenTTL, GetOne, DeleteOne, SetOne, PurgeOne, FlushOne, CleanupExpiredOne DEF Call

LEMMA ProceedOne ==
    ASSUME Inv, NEW t \in Task, One(t), ColdMiss = NoVal, Proceed(t)
    PROVE  AloneAfter(t) /\ MapAfter(t) /\ RowsAfter(t)
<1>1. CASE Demotion(t)
  BY <1>1, DryWriteOne, DryTrackOne DEF Demotion
<1>2. CASE Lookup(t)
  BY <1>2, ColdGetOne, DryReadOne, HitTrackOne, MissTrackOne, PromoteOne DEF Lookup
<1>3. CASE Removal(t)
  BY <1>3, RamDeleteOne, DryDeleteOne, DelTrackOne DEF Removal
<1> QED
  BY <1>1, <1>2, <1>3, SetTrackOne, DryFlushOne, ColdSweepOne DEF Proceed

LEMMA UndisturbedOne ==
    ASSUME Inv, NEW t, Task = {t}, One(t), ColdMiss = NoVal, [Undisturbed]_vars
    PROVE  Inv' /\ One(t)' /\ MapAfter(t) /\ RowsAfter(t)
<1>1. Inv'
  BY NextSound DEF Next
<1>2. t \in Task
  OBVIOUS
<1>3. CASE Call(t) \/ Proceed(t)
  BY <1>1, <1>2, <1>3, CallOne, ProceedOne DEF AloneAfter, One
<1>4. CASE \E d \in Steps : Tick(d)
  BY <1>1, <1>2, <1>4, TickOne DEF AloneAfter, One
<1>5. CASE UNCHANGED vars
  BY <1>1, <1>2, <1>5, StillOne DEF AloneAfter, One
<1> QED
  BY <1>3, <1>4, <1>5 DEF Undisturbed

LEMMA InitOne ==
    ASSUME NEW t, Task = {t}, ColdInit = {Empty}, Init
    PROVE  /\ Inv /\ One(t) /\ Rows(task[t], hot, dry, rows)
           /\ task[t] = Idle /\ \A k \in Key : Here(task[t], hot, dry, k) = NoVal
<1>1. /\ hot = Empty /\ cold = Empty /\ dry = [k \in Key |-> NoVal] /\ task[t] = Idle
  BY DEF Init
<1>2. Resident(hot) = {} /\ Resident(cold) = {}
  BY <1>1, EmptyTier
<1>3. One(t)
  BY <1>1, <1>2, IdleAlone DEF One
<1>4. Rows(Idle, hot, dry, rows)
  BY <1>1, <1>2 DEF Rows
<1>5. \A k \in Key : Here(Idle, hot, dry, k) = NoVal
  BY <1>1, <1>2, IdleShape, QuietHas DEF Quiet, Here
<1> QED
  BY <1>1, <1>3, <1>4, <1>5, InitInv

(***************************************************************************)
(* The map and the call of CacheManager are those of its one task.         *)
(***************************************************************************)
LEMMA CurrentOne ==
    ASSUME NEW t, Task = {t}
    PROVE  \A k : Current(k) = Here(task[t], hot, dry, k)
<1> SUFFICES ASSUME NEW k PROVE Current(k) = Here(task[t], hot, dry, k)
  OBVIOUS
<1>1. UNION {Leaving(u, k) : u \in Task} = Onway(task[t], k)
  BY DEF Leaving, Pending, Onway
<1>2. (\E u \in Task : Leaving(u, k) # {}) <=> Has(task[t], k)
  BY DEF Leaving, Pending, Has
<1>3. (\E u \in Task : Doomed(u, k)) <=> Goes(task[t], k)
  BY DEF Doomed, Goes
<1>4. (CHOOSE p \in UNION {Leaving(u, k) : u \in Task} : TRUE) = Some(Onway(task[t], k))
  BY <1>1, Zenon DEF Some
<1> QED
  BY <1>2, <1>3, <1>4 DEF Current, Here

LEMMA CallingOne ==
    ASSUME NEW t, Task = {t}
    PROVE  Calling = CallOf(task[t])
<1>1. CASE Free(t)
  BY <1>1 DEF Calling, Free
<1>2. CASE ~Free(t)
  <2>1. (CHOOSE u \in Task : ~Free(u)) \in Task
    BY <1>2
  <2> QED
    BY <1>2, <2>1 DEF Calling
<1> QED
  BY <1>1, <1>2

LEMMA MapOne ==
    ASSUME NEW t, Task = {t}
    PROVE  [k \in Key |-> Seen(Current(k))] = MapOf(task[t], hot, dry) /\ Calling = CallOf(task[t])
BY CurrentOne, CallingOne DEF MapOf
-----------------------------------------------------------------------------
(***************************************************************************)
(* The steps of the one task, as steps of KeyValue.                        *)
(***************************************************************************)
MapNow == [k \in Key |-> Seen(Current(k))]

LEMMA CallsAre ==
    /\ KV!NoCall = Nothing
    /\ \A op, k, v, b : KV!Call(op, k, v, b) = Called(op, k, v, b)
BY DEF KV!NoCall, KV!Call, Nothing, Called

LEMMA StepOfMap ==
    ASSUME MapStep(MapNow, Calling, MapNow', Calling')
    PROVE  [KV!Next]_<<MapNow, Calling>>
<1>1. CASE MapNow' = MapNow /\ Turns(Calling, Calling')
  <2>1. CASE Calling' = Calling
    BY <1>1, <2>1
  <2>2. CASE Calling = Nothing /\ \E k \in Key : Calling' = Called("get", k, NoVal, <<>>)
    <3>1. PICK k \in Key : Calling' = Called("get", k, NoVal, <<>>)
      BY <2>2
    <3>2. KV!Get(k)
      BY <1>1, <2>2, <3>1, CallsAre DEF KV!Get, KV!Begin, MapNow
    <3> QED
      BY <3>2 DEF KV!Next
  <2>3. CASE Calling = Nothing /\ Calling' = Called("cleanup", NoKey, NoVal, <<>>)
    <3>1. KV!Cleanup
      BY <1>1, <2>3, CallsAre DEF KV!Cleanup, KV!Begin, MapNow
    <3> QED
      BY <3>1 DEF KV!Next
  <2>4. CASE Calling # Nothing /\ Calling.todo = <<>> /\ Calling' = Nothing
    <3>1. KV!Return
      BY <1>1, <2>4, CallsAre DEF KV!Return, MapNow
    <3> QED
      BY <3>1 DEF KV!Next
  <2> QED
    BY <1>1, <2>1, <2>2, <2>3, <2>4 DEF Turns
<1>2. CASE \E k \in Key, v \in Val \cup {NoVal} :
              /\ MapNow' = [MapNow EXCEPT ![k] = v] /\ Calling = Nothing
              /\ Calling' = Called("set", k, v, <<>>)
  <2>1. PICK k \in Key, v \in Val \cup {NoVal} :
              /\ MapNow' = [MapNow EXCEPT ![k] = v] /\ Calling = Nothing
              /\ Calling' = Called("set", k, v, <<>>)
    BY <1>2
  <2>2. KV!Set(k, v)
    BY <2>1, CallsAre DEF KV!Set, KV!Begin, MapNow
  <2> QED
    BY <2>2 DEF KV!Next
<1>3. CASE \E k \in Key, b \in Seq(Key) :
              /\ MapNow' = [MapNow EXCEPT ![k] = NoVal] /\ Calling = Nothing
              /\ Calling' = Called("delete", k, NoVal, b)
  <2>1. PICK k \in Key, b \in Seq(Key) :
              /\ MapNow' = [MapNow EXCEPT ![k] = NoVal] /\ Calling = Nothing
              /\ Calling' = Called("delete", k, NoVal, b)
    BY <1>3
  <2>2. Calling'.todo = b
    BY <2>1 DEF Called
  <2>3. KV!Delete(k)
    BY <2>1, <2>2, CallsAre DEF KV!Delete, MapNow
  <2> QED
    BY <2>3 DEF KV!Next
<1>4. CASE \E j, b : /\ Calling = Called("delete", j, NoVal, b) /\ b # <<>>
                     /\ MapNow' = [MapNow EXCEPT ![Head(b)] = NoVal]
                     /\ Calling' = Called("delete", Head(b), NoVal, Tail(b))
  <2>1. PICK j, b : /\ Calling = Called("delete", j, NoVal, b) /\ b # <<>>
                    /\ MapNow' = [MapNow EXCEPT ![Head(b)] = NoVal]
                    /\ Calling' = Called("delete", Head(b), NoVal, Tail(b))
    BY <1>4
  <2>2. Calling.op = "delete" /\ Calling.todo = b
    BY <2>1 DEF Called
  <2>3. KV!DeleteNext
    BY <2>1, <2>2, CallsAre DEF KV!DeleteNext, MapNow
  <2> QED
    BY <2>3 DEF KV!Next
<1>5. CASE /\ MapNow' = [k \in Key |-> NoVal] /\ Calling = Nothing
           /\ Calling' = Called("flush", NoKey, NoVal, <<>>)
  <2>1. KV!Flush
    BY <1>5, CallsAre DEF KV!Flush, KV!Begin, MapNow
  <2> QED
    BY <2>1 DEF KV!Next
<1> QED
  BY <1>1, <1>2, <1>3, <1>4, <1>5 DEF MapStep

LEMMA MapNext ==
    ASSUME NEW t, Task = {t}
    PROVE  (MapNow = MapOf(task[t], hot, dry) /\ Calling = CallOf(task[t]))'
<1>1. MapNow = MapOf(task[t], hot, dry) /\ Calling = CallOf(task[t])
  BY MapOne DEF MapNow
<1> QED
  BY <1>1, PTL

LEMMA RefinesOne ==
    ASSUME NEW t, Task = {t}, FlushTiers \subseteq {"cold", "all"}, MapAfter(t)
    PROVE  [KV!Next]_<<[k \in Key |-> Seen(Current(k))], Calling>>
<1>1. MapNow = MapOf(task[t], hot, dry) /\ Calling = CallOf(task[t])
  BY MapOne DEF MapNow
<1>2. (MapNow = MapOf(task[t], hot, dry) /\ Calling = CallOf(task[t]))'
  BY MapNext
<1>3. MapStep(MapNow, Calling, MapNow', Calling')
  BY <1>1, <1>2 DEF MapAfter
<1>4. [KV!Next]_<<MapNow, Calling>>
  BY <1>3, StepOfMap
<1> QED
  BY <1>4 DEF MapNow

(***************************************************************************)
(* The one task, undisturbed.                                              *)
(***************************************************************************)
(* The one task is always alone with hot and dry: cold stays empty, and    *)
(* its frame fits what the two tiers hold (manager.py 87-184).             *)
THEOREM AlwaysOne ==
    ASSUME NEW t, Task = {t}, ColdInit = {Empty}, ColdMiss = NoVal
    PROVE  UndisturbedSpec => [](Inv /\ One(t))
<1>1. Init => Inv /\ One(t)
  BY InitOne
<1>2. (Inv /\ One(t)) /\ [Undisturbed]_vars => (Inv /\ One(t))'
  BY UndisturbedOne
<1> QED
  BY <1>1, <1>2, PTL DEF UndisturbedSpec

(* The cache implements the map: with one task and an empty cold tier,     *)
(* every step of a call is a step of KeyValue for the same operation, or   *)
(* none: only a set, a delete or purge and a full flush change the map, as *)
(* KeyValue says, and nothing a get, a clean-up, a demotion, an eviction   *)
(* or an expiry does (manager.py 87-184).                                  *)
THEOREM CacheImplementsMap ==
    ASSUME NEW t, Task = {t}, ColdInit = {Empty}, ColdMiss = NoVal,
           FlushTiers \subseteq {"cold", "all"}
    PROVE  UndisturbedSpec => IsAMap
<1>1. Init => KV!Init
  <2> SUFFICES ASSUME Init PROVE KV!Init
    OBVIOUS
  <2>1. task[t] = Idle /\ \A k \in Key : Here(task[t], hot, dry, k) = NoVal
    BY InitOne
  <2>2. \A k \in Key : Seen(Current(k)) = NoVal
    BY <2>1, CurrentOne DEF Seen
  <2>3. Calling = KV!NoCall
    BY <2>1, CallingOne, CallOfIdle, CallsAre
  <2> QED
    BY <2>2, <2>3 DEF KV!Init
<1>2. Inv /\ One(t) /\ [Undisturbed]_vars
        => [KV!Next]_<<[k \in Key |-> Seen(Current(k))], Calling>>
  BY UndisturbedOne, RefinesOne
<1>3. UndisturbedSpec => [](Inv /\ One(t))
  BY AlwaysOne
<1> QED
  BY <1>1, <1>2, <1>3, PTL DEF UndisturbedSpec, IsAMap, KV!Spec
-----------------------------------------------------------------------------
(***************************************************************************)
(* What follows for the properties of the one task.                        *)
(***************************************************************************)
AnswerSeen ==
    \A t \in Task : HitTrack(t) \/ MissTrack(t)
        => Seen(task[t].val) = Seen(Current(task[t].key))

(* get answers with what the map holds for its key, also after the         *)
(* promotions, demotions and expiries on its way (manager.py 99-120).      *)
THEOREM AnswersCurrent ==
    ASSUME NEW t, Task = {t}, ColdInit = {Empty}, ColdMiss = NoVal
    PROVE  UndisturbedSpec => GetAnswersCurrent
<1>1. Inv /\ One(t) /\ [Undisturbed]_vars => [AnswerSeen]_vars
  <2> SUFFICES ASSUME Inv, One(t), HitTrack(t) \/ MissTrack(t)
               PROVE  Seen(task[t].val) = Seen(Current(task[t].key))
    BY DEF AnswerSeen
  <2> DEFINE f == task[t]
             k == f.key
  <2>1. f.at \in {"hitTrack", "missTrack"} /\ Good(f) /\ Alone(f, hot, dry)
    BY TaskGood DEF HitTrack, MissTrack, One
  <2>2. f.todo = <<>> /\ ~Has(f, k) /\ ~Goes(f, k)
    BY <2>1, NothingUndone, QuietHas, GoesNowhere
  <2>3. Current(k) = Here(f, hot, dry, k)
    BY CurrentOne
  <2>4. CASE f.at = "hitTrack" /\ f.tier = "hot"
    BY <2>1, <2>3, <2>4, HereInHot DEF Alone
  <2>5. CASE f.at = "hitTrack" /\ f.tier # "hot"
    <3>1. k \notin Resident(hot) /\ Seen(f.val) = Seen(dry[k])
      BY <2>1, <2>5 DEF Alone, Asking
    <3> QED
      BY <2>2, <2>3, <3>1, HereInDry
  <2>6. CASE f.at = "missTrack"
    <3>1. k \notin Resident(hot) /\ Seen(dry[k]) = NoVal /\ Seen(f.val) = NoVal
      BY <2>1, <2>6 DEF Alone, Asking, Seen
    <3> QED
      BY <2>2, <2>3, <3>1, HereInDry
  <2> QED
    BY <2>1, <2>4, <2>5, <2>6
<1>2. UndisturbedSpec => [](Inv /\ One(t))
  BY AlwaysOne
<1> QED
  BY <1>1, <1>2, PTL DEF UndisturbedSpec, GetAnswersCurrent, AnswerSeen

(* Between calls the rows of a store that keeps them say where the entries *)
(* are, as long as hot is not flushed on its own (manager.py 87-190).      *)
THEOREM TrackingAccurate ==
    ASSUME NEW t, Task = {t}, ColdInit = {Empty}, ColdMiss = NoVal,
           Store # "null", "hot" \notin FlushTiers
    PROVE  UndisturbedSpec => []TrackingIsAccurate
<1> DEFINE Whole == Inv /\ One(t) /\ Rows(task[t], hot, dry, rows)
<1>1. Init => Whole
  BY InitOne
<1>2. Whole /\ [Undisturbed]_vars => Whole'
  BY UndisturbedOne DEF RowsAfter
<1>3. Whole => TrackingIsAccurate
  <2> SUFFICES ASSUME Whole, Free(t), NEW k \in Key,
                      k \in Resident(hot) \/ dry[k] # NoVal
               PROVE  rows[k] # NoRow /\ rows[k].tier = ActualTier(k)
    BY DEF TrackingIsAccurate
  <2>1. ~Recording(task[t], k) /\ ~Listed(task[t], k) /\ ~Goes(task[t], k)
    BY FreeShape DEF Recording, Listed, Goes
  <2> QED
    BY <2>1 DEF Rows, ActualTier
<1> QED
  BY <1>1, <1>2, <1>3, PTL DEF UndisturbedSpec
-----------------------------------------------------------------------------
(***************************************************************************)
(* The history of one task.  What it has condemned is out of the RAM tiers *)
(* until dry has let go of it, too.                                        *)
(***************************************************************************)
Remembered(t) ==
    /\ written \in [Key -> SUBSET Val]
    /\ condemned \in [Task -> SUBSET (Key \X Val)]
    /\ From(task[t], hot, cold, dry, written)
    /\ \/ condemned[t] = {}
       \/ /\ task[t].at = "dryDelete"
          /\ task[t].key \notin Resident(hot) \cup Resident(cold)
          /\ condemned[t] \subseteq {task[t].key} \X Val
       \/ /\ task[t].at = "dryFlush"
          /\ Resident(hot) = {} /\ Resident(cold) = {}

LEMMA HInitRemembered ==
    ASSUME NEW t, Task = {t}, HInit
    PROVE  Inv /\ Remembered(t)
<1>1. Inv /\ hot = Empty /\ dry = [k \in Key |-> NoVal] /\ task = [u \in Task |-> Idle]
  BY InitInv DEF HInit, Init
<1>2. cold \in Tier /\ Resident(cold) \subseteq Key
  BY <1>1, ResidentEntries DEF Inv, TypeOK
<1>3. written \in [Key -> SUBSET Val]
  BY <1>2, ResidentEntries DEF HInit
<1>4. TierFrom(cold, written)
  BY <1>2 DEF HInit, TierFrom
<1>5. condemned \in [Task -> SUBSET (Key \X Val)] /\ condemned[t] = {}
  BY DEF HInit
<1>6. From(task[t], hot, cold, dry, written)
  BY <1>1, <1>4, EmptyFrom, IdleFrom DEF From, DryFrom
<1> QED
  BY <1>1, <1>3, <1>5, <1>6 DEF Remembered

(* A task that has not condemned anything writes nothing into the history. *)
LEMMA OtherRemembered ==
    ASSUME NEW t, Task = {t}, DryMiss = NoVal, ColdMiss = NoVal,
           Inv, Remembered(t), Other
    PROVE  Remembered(t)'
<1>1. t \in Task /\ UNCHANGED <<written, condemned>>
  BY DEF Other
<1>2. CASE \E d \in Steps : Tick(d)
  BY <1>1, <1>2, TickFrom DEF Remembered
<1>3. CASE ~ \E d \in Steps : Tick(d)
  <2>1. \/ \E k \in Key : Get(t, k)
        \/ \E tier \in FlushTiers : Flush(t, tier)
        \/ CleanupExpired(t)
        \/ Demotion(t) \/ Lookup(t) \/ SetTrack(t) \/ DelTrack(t) \/ ColdSweep(t)
    BY <1>3 DEF Other
  <2>2. task[t].at \notin {"dryDelete", "dryFlush"}
    BY <2>1, IdleShape
       DEF Get, Flush, CleanupExpired, Free, Demotion, DryWrite, DryTrack, Lookup, ColdGet,
           DryRead, HitTrack, MissTrack, Promote, SetTrack, DelTrack, ColdSweep
  <2>3. From(task[t], hot, cold, dry, written) /\ condemned[t] = {}
    BY <2>2 DEF Remembered
  <2>4. From(task'[t], hot', cold', dry', written)
    BY <1>1, <2>1, <2>3, GetFrom, FlushFrom, DemotionFrom, LookupFrom, TrackFrom, SweepsFrom
  <2> QED
    BY <1>1, <2>3, <2>4 DEF Remembered
<1> QED
  BY <1>2, <1>3

LEMMA WriteRemembered ==
    ASSUME NEW t, Task = {t}, NEW k \in Key, NEW v \in Val, Inv, Remembered(t),
           WriteSet(t, k, v)
    PROVE  Remembered(t)'
<1>1. PICK ttl \in Given : Set(t, k, v, ttl)
  BY DEF WriteSet
<1>2. /\ written' = [written EXCEPT ![k] = @ \cup {v}]
      /\ condemned' = [u \in Task |-> condemned[u] \ {<<k, v>>}]
      /\ written \in [Key -> SUBSET Val] /\ condemned \in [Task -> SUBSET (Key \X Val)]
  BY DEF WriteSet, Remembered
<1>3. /\ written' \in [Key -> SUBSET Val] /\ v \in written'[k]
      /\ \A j \in Key : written[j] \subseteq written'[j]
      /\ condemned' \in [Task -> SUBSET (Key \X Val)]
  BY <1>2
<1>4. condemned[t] = {}
  BY <1>1, IdleShape DEF Remembered, Set, Free
<1>5. condemned'[t] = {}
  BY <1>2, <1>4
<1>6. Resident(hot) \subseteq Key /\ Resident(cold) \subseteq Key
  BY ResidentEntries DEF Inv, TypeOK
<1>7. From(task[t], hot, cold, dry, written')
  <2>1. task[t] = Idle
    BY <1>1 DEF Set, Free
  <2>2. FrameFrom(task[t], written')
    BY <2>1, IdleFrom
  <2> QED
    BY <1>3, <1>6, <2>2 DEF Remembered, From, TierFrom, DryFrom
<1>8. From(task'[t], hot', cold', dry', written')
  BY <1>1, <1>3, <1>7, SetFrom
<1> QED
  BY <1>3, <1>5, <1>8 DEF Remembered

LEMMA BeginRemembered ==
    ASSUME NEW t, Task = {t}, Inv, Remembered(t), BeginRemoval(t)
    PROVE  Remembered(t)'
<1>1. /\ written \in [Key -> SUBSET Val] /\ condemned \in [Task -> SUBSET (Key \X Val)]
      /\ From(task[t], hot, cold, dry, written)
  BY DEF Remembered
<1>2. ASSUME NEW keys \in SUBSET Key, Condemn(t, keys)
      PROVE  /\ written' = written /\ condemned' \in [Task -> SUBSET (Key \X Val)]
             /\ condemned'[t] \subseteq keys \X Val
  BY <1>1, <1>2 DEF Condemn
<1>3. ASSUME NEW k \in Key, Delete(t, k), Condemn(t, {k}) PROVE Remembered(t)'
  <2>1. DeleteFromRam(t, k, <<>>) /\ <<>> \in Seq(Key) /\ {k} \in SUBSET Key
    BY <1>3 DEF Delete
  <2>2. /\ From(task'[t], hot', cold', dry', written)
        /\ task'[t].at = "dryDelete" /\ task'[t].key = k
        /\ k \notin Resident(hot') /\ k \notin Resident(cold')
    BY <1>1, <2>1, DeleteFromRamFrom
  <2> QED
    BY <1>1, <1>2, <1>3, <2>1, <2>2 DEF Remembered
<1>4. ASSUME NEW pattern \in Patterns, Purge(t, pattern), Condemn(t, {task'[t].key} \cap Key)
      PROVE  Remembered(t)'
  <2>1. /\ From(task'[t], hot', cold', dry', written)
        /\ \/ task'[t].key = NoKey
           \/ /\ task'[t].at = "dryDelete" /\ task'[t].key \in Key
              /\ task'[t].key \notin Resident(hot') \cup Resident(cold')
    BY <1>1, <1>4, PurgeFrom
  <2>2. /\ written' = written /\ condemned' \in [Task -> SUBSET (Key \X Val)]
        /\ condemned'[t] \subseteq ({task'[t].key} \cap Key) \X Val
    BY <1>2, <1>4
  <2> QED
    BY <1>1, <2>1, <2>2, ValAssumption DEF Remembered
<1>5. ASSUME RamDelete(t), Condemn(t, {task'[t].key}) PROVE Remembered(t)'
  <2>1. /\ From(task'[t], hot', cold', dry', written)
        /\ task'[t].at = "dryDelete" /\ task'[t].key \in Key
        /\ task'[t].key \notin Resident(hot') \cup Resident(cold')
    BY <1>1, <1>5, RamDeleteFrom
  <2>2. /\ written' = written /\ condemned' \in [Task -> SUBSET (Key \X Val)]
        /\ condemned'[t] \subseteq {task'[t].key} \X Val
    BY <1>2, <1>5, <2>1
  <2> QED
    BY <1>1, <2>1, <2>2 DEF Remembered
<1>6. ASSUME Flush(t, "all"), Condemn(t, Key) PROVE Remembered(t)'
  <2>1. hot' = Empty /\ cold' = Empty /\ dry' = dry /\ Go(t, [Idle EXCEPT !.at = "dryFlush"])
    BY <1>6 DEF Flush
  <2> DEFINE g == [Idle EXCEPT !.at = "dryFlush"]
  <2>2. Undone(g) = {} /\ g.at = "dryFlush"
    BY FlushGood, IdleShape DEF Frame
  <2>3. task'[t] = g
    BY <2>1, GoesTo
  <2> HIDE DEF g
  <2>4. From(task'[t], hot', cold', dry', written)
    BY <1>1, <2>1, <2>2, <2>3, EmptyFrom DEF From, FrameFrom
  <2>5. written' = written /\ condemned' \in [Task -> SUBSET (Key \X Val)]
    BY <1>2, <1>6
  <2> QED
    BY <1>1, <2>1, <2>2, <2>3, <2>4, <2>5, EmptyTier DEF Remembered
<1> QED
  BY <1>3, <1>4, <1>5, <1>6 DEF BeginRemoval

LEMMA EndRemembered ==
    ASSUME NEW t, Task = {t}, Inv, Remembered(t), EndRemoval(t)
    PROVE  Remembered(t)'
<1> DEFINE f == task[t]
<1>1. /\ written \in [Key -> SUBSET Val] /\ condemned \in [Task -> SUBSET (Key \X Val)]
      /\ TierFrom(hot, written) /\ TierFrom(cold, written) /\ DryFrom(dry, written)
  BY DEF Remembered, From
<1>2. /\ written' = [k \in Key |-> {v \in written[k] : <<k, v>> \notin condemned[t]}]
      /\ condemned' = [condemned EXCEPT ![t] = {}]
      /\ UNCHANGED <<hot, cold>>
  BY DEF EndRemoval, DryDelete, DryFlush
<1>3. /\ written' \in [Key -> SUBSET Val] /\ condemned' \in [Task -> SUBSET (Key \X Val)]
      /\ condemned'[t] = {}
  BY <1>1, <1>2
<1>4. Good(f) /\ f \in Frame /\ dry \in [Key -> Val \cup {NoVal}]
      /\ Resident(hot) \subseteq Key /\ Resident(cold) \subseteq Key
  BY TaskGood, ResidentEntries DEF Inv, TypeOK, Good
<1>5. FrameFrom(task'[t], written')
  <2>1. CASE DryFlush(t)
    BY <2>1, IdleFrom, GoesTo DEF DryFlush
  <2>2. CASE DryDelete(t)
    <3> DEFINE g == [f EXCEPT !.at = "delTrack"]
    <3>1. f.at = "dryDelete" /\ Go(t, g)
      BY <2>2 DEF DryDelete
    <3>2. g.at = "delTrack" /\ g.todo = <<>>
      BY <1>4, <3>1, NothingUndone DEF Frame
    <3>3. task'[t] = g
      BY <3>1, GoesTo
    <3> HIDE DEF g
    <3> QED
      BY <3>2, <3>3 DEF FrameFrom, Undone
  <2> QED
    BY <2>1, <2>2 DEF EndRemoval
<1>6. TierFrom(hot, written') /\ TierFrom(cold, written')
  <2>1. \A k \in Resident(hot) \cup Resident(cold) : \A v : <<k, v>> \notin condemned[t]
    BY DEF Remembered
  <2> QED
    BY <1>1, <1>2, <1>4, <2>1 DEF TierFrom
<1>7. DryFrom(dry', written')
  <2>1. CASE DryFlush(t)
    BY <2>1 DEF DryFlush, DryFrom
  <2>2. CASE DryDelete(t)
    <3>1. f.at = "dryDelete" /\ dry' = [dry EXCEPT ![f.key] = NoVal]
      BY <2>2 DEF DryDelete
    <3>2. \A k \in Key \ {f.key} : \A v : <<k, v>> \notin condemned[t]
      BY <3>1 DEF Remembered
    <3> QED
      BY <1>1, <1>2, <1>4, <3>1, <3>2 DEF DryFrom
  <2> QED
    BY <2>1, <2>2 DEF EndRemoval
<1> QED
  BY <1>2, <1>3, <1>5, <1>6, <1>7 DEF Remembered, From

LEMMA EndedRemembered ==
    ASSUME NEW t, Task = {t}, Inv, Remembered(t), Ended, UNCHANGED written
    PROVE  Remembered(t)'
<1>1. condemned' \in [Task -> SUBSET (Key \X Val)] /\ condemned'[t] = {}
  BY DEF Ended, Remembered
<1>2. task'[t] = Idle /\ dry' = dry
  BY GoesTo DEF Ended, Abort, Restart
<1>3. TierFrom(hot', written) /\ TierFrom(cold', written)
  BY EmptyFrom DEF Ended, Abort, Restart, Remembered, From
<1>4. From(task'[t], hot', cold', dry', written)
  BY <1>2, <1>3, IdleFrom DEF Remembered, From
<1> QED
  BY <1>1, <1>4 DEF Remembered

(* The history only watches: its steps are steps of the cache.             *)
LEMMA HNextIsNext ==
    ASSUME HNext
    PROVE  Next
<1>1. ASSUME NEW t \in Task, BeginRemoval(t) PROVE Next
  <2>1. CASE \E k \in Key : Delete(t, k)
    BY <2>1 DEF Next, Undisturbed, Call
  <2>2. CASE \E pattern \in Patterns : Purge(t, pattern)
    BY <2>2 DEF Next, Undisturbed, Call
  <2>3. CASE RamDelete(t)
    BY <2>3 DEF Next, Undisturbed, Proceed, Removal
  <2>4. CASE "all" \in FlushTiers /\ Flush(t, "all")
    BY <2>4 DEF Next, Undisturbed, Call
  <2> QED
    BY <1>1, <2>1, <2>2, <2>3, <2>4 DEF BeginRemoval
<1>2. ASSUME NEW t \in Task, NEW k \in Key, NEW v \in Val, WriteSet(t, k, v) PROVE Next
  BY <1>2 DEF WriteSet, Next, Undisturbed, Call
<1>3. ASSUME NEW t \in Task, EndRemoval(t) PROVE Next
  BY <1>3 DEF EndRemoval, Next, Undisturbed, Proceed, Removal
<1>4. CASE Other
  BY <1>4 DEF Other, Next, Undisturbed, Call, Proceed, Removal
<1>5. CASE Ended
  BY <1>5 DEF Ended, Next
<1> QED
  BY <1>1, <1>2, <1>3, <1>4, <1>5 DEF HNext
-----------------------------------------------------------------------------
(* What one task deleted or flushed does not come back, whatever it was    *)
(* doing when it was aborted or the process ended, and whatever cold held  *)
(* to begin with (manager.py 135-147).                                     *)
THEOREM DeletedStaysDeleted ==
    ASSUME NEW t, Task = {t}, DryMiss = NoVal, ColdMiss = NoVal
    PROVE  HSpec => []NothingComesBack
<1> DEFINE HInv == Inv /\ Remembered(t)
<1>1. HInit => HInv
  BY HInitRemembered
<1>2. HInv /\ [HNext]_hvars => HInv'
  <2> SUFFICES ASSUME HInv, [HNext]_hvars PROVE HInv'
    OBVIOUS
  <2>1. CASE UNCHANGED hvars
    BY <2>1 DEF hvars, Inv, TypeOK, FrameOK, Remembered
  <2>2. CASE HNext
    <3>1. Inv'
      BY <2>2, HNextIsNext, NextSound
    <3>2. Remembered(t)'
      BY <2>2, OtherRemembered, WriteRemembered, BeginRemembered, EndRemembered,
         EndedRemembered DEF HNext
    <3> QED
      BY <3>1, <3>2
  <2> QED
    BY <2>1, <2>2
<1>3. HInv => NothingComesBack
  BY ResidentEntries DEF Inv, TypeOK, Remembered, From, TierFrom, DryFrom, NothingComesBack, Copies
<1> QED
  BY <1>1, <1>2, <1>3, PTL DEF HSpec
=============================================================================
