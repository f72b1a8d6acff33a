----------------------- MODULE MemcachedBackendProofs -----------------------
(***************************************************************************)
(* MemcachedBackend keeps its state well formed for any number of tasks,   *)
(* and one task never reads pieces of different values as one, whatever    *)
(* items the server drops in between and whatever calls are cut off, but   *)
(* for the keys of which a set was.                                        *)
(***************************************************************************)
EXTENDS MemcachedBackend, TLAPS

Counts == {0} \cup {Pieces(v) : v \in Val}

Good(f) ==
    /\ f \in Frame
    /\ f.n \in Counts
    /\ f.at # "idle" => f.key \in Key
    /\ f.at \in {"setSingle", "setChunk", "setCount"} => f.val \in Val
    /\ f.at = "setChunk" => f.i < Pieces(f.val)
    /\ f.at \in {"getChunk", "delChunk"} => f.i < f.n
    /\ f.at \in {"getCount", "askCount"} => f.i = 0 /\ f.got = <<>>

(* The places and the counts in the frames are those of some value.        *)
Inv ==
    /\ TypeOK
    /\ \A k \in Key : count[k] \in Counts
    /\ \A t \in Task : Good(task[t])

(* The first n chunks of k are pieces of v, as far as they are there.      *)
PiecesOf(v, k, n) == \A i \in Places : i < n => chunk[k][i] \in {v, NoVal}

(***************************************************************************)
(* What a task that is alone finds.  The chunks a count counts are pieces  *)
(* of one value of that many, but while the task stores another one, or    *)
(* was cut off at it; what it has stored or read so far is in pieces of    *)
(* one value, too.                                                         *)
(***************************************************************************)
Counted(f) ==
    \A k \in Key \ hurt :
        \/ count[k] = 0
        \/ Halfway(f) /\ f.key = k
        \/ \E v \in Val : Pieces(v) = count[k] /\ PiecesOf(v, k, count[k])

Stored(f) ==
    /\ f.at = "setChunk" => PiecesOf(f.val, f.key, f.i)
    /\ f.at = "setCount" => PiecesOf(f.val, f.key, Pieces(f.val))

Read(f) ==
    /\ f.at = "getChunk" /\ f.key \notin hurt =>
          \E v \in Val : /\ Pieces(v) = f.n /\ PiecesOf(v, f.key, f.n)
                         /\ Len(f.got) = f.i /\ \A j \in DOMAIN f.got : f.got[j] = v
    /\ f.at = "answered" /\ f.key \notin hurt => f.val # Mixed

Whole(f) == Counted(f) /\ Stored(f) /\ Read(f)
-----------------------------------------------------------------------------
(***************************************************************************)
(* How many chunks there are, and where.                                   *)
(***************************************************************************)
LEMMA DivisionFacts ==
    ASSUME NEW a \in Nat, NEW c \in Nat \ {0}, a >= c
    PROVE  a \div c \in Nat /\ a \div c >= 1
OBVIOUS

LEMMA PiecesType ==
    ASSUME NEW v \in Val
    PROVE  /\ Pieces(v) \in Nat /\ Pieces(v) >= 1 /\ Pieces(v) \in Counts
           /\ \A i \in Nat : i < Pieces(v) => i \in Places
<1>1. /\ Length[v] \in Nat /\ Length[v] >= 1
      /\ ChunkSize \in Nat \ {0} /\ ChunkSize >= 1
  BY ChunkAssumption
<1> DEFINE a == Length[v] + ChunkSize - 1
<1>2. a \in Nat /\ a >= ChunkSize
  BY <1>1
<1> HIDE DEF a
<1>3. a \div ChunkSize \in Nat /\ a \div ChunkSize >= 1
  BY <1>1, <1>2, DivisionFacts
<1>4. Pieces(v) \in Nat /\ Pieces(v) >= 1
  BY <1>3 DEF a, Pieces
<1>5. ASSUME NEW i \in Nat, i < Pieces(v) PROVE i \in Places
  <2>1. i \in 0 .. Pieces(v) - 1
    BY <1>4, <1>5
  <2> QED
    BY <2>1 DEF Places
<1> QED
  BY <1>4, <1>5 DEF Counts

LEMMA CountsType ==
    /\ Counts \subseteq Nat /\ 0 \in Counts
    /\ \A n \in Counts, i \in Nat : i < n => i \in Places
BY PiecesType DEF Counts

LEMMA PlacesType == Places \subseteq Nat
<1> SUFFICES ASSUME NEW v \in Val PROVE 0 .. Pieces(v) - 1 \subseteq Nat
  BY DEF Places
<1> QED
  OBVIOUS
-----------------------------------------------------------------------------
(***************************************************************************)
(* The frames the actions build.                                           *)
(***************************************************************************)
LEMMA IdleGood == Good(Idle) /\ Idle.at = "idle"
<1>1. <<>> \in Seq(Val) /\ 0 \in Nat
  OBVIOUS
<1>2. Idle \in Frame
  BY <1>1 DEF Idle, Frame, Points
<1> QED
  BY <1>2, CountsType DEF Good, Idle

LEMMA OnGood ==
    ASSUME NEW k \in Key, NEW point \in Points, NEW v \in Val \cup {NoVal, Mixed},
           point \in {"setSingle", "setChunk", "setCount"} => v \in Val,
           point \notin {"getChunk", "delChunk"}
    PROVE  /\ Good(On(point, k, v)) /\ On(point, k, v).at = point
           /\ On(point, k, v).key = k /\ On(point, k, v).val = v
           /\ On(point, k, v).i = 0
<1> DEFINE f == [Idle EXCEPT !.at = point, !.key = k, !.val = v]
<1>1. Idle \in Frame /\ Idle.n \in Counts /\ Idle.i = 0 /\ Idle.got = <<>>
  BY IdleGood DEF Good, Idle
<1>2. /\ f \in Frame /\ f.at = point /\ f.key = k /\ f.val = v
      /\ f.n \in Counts /\ f.i = 0 /\ f.got = <<>>
  BY <1>1 DEF Frame
<1> HIDE DEF f
<1>3. f.at = "setChunk" => f.i < Pieces(f.val)
  BY <1>2, PiecesType
<1>4. Good(f)
  BY <1>2, <1>3 DEF Good
<1> QED
  BY <1>2, <1>4 DEF On, f

LEMMA TaskGood ==
    ASSUME Inv, NEW t \in Task
    PROVE  Good(task[t]) /\ task[t] \in Frame
BY DEF Inv, Good
-----------------------------------------------------------------------------
(***************************************************************************)
(* What the requests do to the invariant.                                  *)
(***************************************************************************)
LEMMA GoSound ==
    ASSUME Inv, NEW t \in Task, NEW f, Good(f), Go(t, f)
    PROVE  /\ task' \in [Task -> Frame] /\ task'[t] = f
           /\ \A u \in Task : Good(task'[u])
BY DEF Inv, TypeOK, Good, Go

LEMMA StepSound ==
    ASSUME Inv, NEW t \in Task, NEW point, NEW f, Good(f), Step(t, point, f)
    PROVE  Inv' /\ task'[t] = f /\ UNCHANGED <<chunk, count, hurt>>
BY GoSound DEF Step, Inv, TypeOK, server, history

LEMMA PutSingleSound ==
    ASSUME Inv, NEW t \in Task, NEW point, NEW v \in Val \cup {NoVal},
           PutSingle(t, point, v), task[t].key \in Key
    PROVE  Inv' /\ task'[t] = Idle /\ UNCHANGED <<chunk, count, hurt>>
BY GoSound, IdleGood DEF PutSingle, Inv, TypeOK, history

LEMMA PutCountSound ==
    ASSUME Inv, NEW t \in Task, NEW point, NEW n \in Counts,
           PutCount(t, point, n), task[t].key \in Key
    PROVE  /\ Inv' /\ task'[t] = Idle /\ UNCHANGED chunk /\ hurt' = hurt \ {task[t].key}
           /\ \A k \in Key : count'[k] = IF k = task[t].key THEN n ELSE count[k]
<1>1. count' = [count EXCEPT ![task[t].key] = n] /\ UNCHANGED <<single, chunk, last>>
      /\ Go(t, Idle) /\ n \in Nat /\ hurt' = hurt \ {task[t].key}
  BY CountsType DEF PutCount
<1>2. count \in [Key -> Nat] /\ \A k \in Key : count[k] \in Counts
  BY DEF Inv, TypeOK
<1>3. count' \in [Key -> Nat] /\ \A k \in Key : count'[k] = IF k = task[t].key THEN n ELSE count[k]
  BY <1>1, <1>2
<1>4. \A k \in Key : count'[k] \in Counts
  BY <1>2, <1>3
<1> QED
  BY <1>1, <1>3, <1>4, GoSound, IdleGood DEF Inv, TypeOK

LEMMA PutChunkSound ==
    ASSUME Inv, NEW t \in Task, NEW v \in Val \cup {NoVal}, NEW f, Good(f),
           Go(t, f), chunk' = [chunk EXCEPT ![task[t].key][task[t].i] = v],
           UNCHANGED <<single, count, history>>,
           task[t].key \in Key, task[t].i \in Places
    PROVE  /\ Inv' /\ task'[t] = f /\ UNCHANGED <<count, hurt>>
           /\ \A k \in Key, i \in Places :
                 chunk'[k][i] = IF k = task[t].key /\ i = task[t].i THEN v ELSE chunk[k][i]
<1>2. chunk \in [Key -> [Places -> Val \cup {NoVal}]]
  BY DEF Inv, TypeOK
<1>3. /\ chunk' \in [Key -> [Places -> Val \cup {NoVal}]]
      /\ \A k \in Key, i \in Places :
            chunk'[k][i] = IF k = task[t].key /\ i = task[t].i THEN v ELSE chunk[k][i]
  BY <1>2
<1> QED
  BY <1>3, GoSound DEF Inv, TypeOK, history

(* The next chunk of n, or on with the call.                               *)
LEMMA NextOfGood ==
    ASSUME NEW f, Good(f), NEW n \in Nat, f.i < n,
           \/ f.at = "setChunk" /\ n = Pieces(f.val)
           \/ f.at = "delChunk" /\ n = f.n,
           NEW then \in {"setCount", "delCount"}, then = "setCount" => f.at = "setChunk"
    PROVE  LET g == NextOf(f, n, then) IN
           /\ Good(g) /\ g.key = f.key /\ g.val = f.val
           /\ \/ f.i + 1 = n /\ g.at = then
              \/ f.i + 1 # n /\ g.at = f.at /\ g.i = f.i + 1
<1>1. f \in Frame /\ f.i \in Nat /\ f.key \in Key /\ (f.at = "setChunk" => f.val \in Val)
  BY DEF Good, Frame
<1>2. CASE f.i + 1 = n
  <2> DEFINE g == [f EXCEPT !.at = then]
  <2>1. g \in Frame /\ g.at = then /\ g.key = f.key /\ g.val = f.val /\ g.n = f.n
    BY <1>1 DEF Frame, Points
  <2> HIDE DEF g
  <2>2. Good(g)
    BY <1>1, <2>1 DEF Good
  <2> QED
    BY <1>2, <2>1, <2>2 DEF NextOf, g
<1>3. CASE f.i + 1 # n
  <2> DEFINE g == [f EXCEPT !.i = @ + 1]
  <2>1. g \in Frame /\ g.at = f.at /\ g.key = f.key /\ g.val = f.val /\ g.n = f.n
        /\ g.i = f.i + 1
    BY <1>1 DEF Frame
  <2> HIDE DEF g
  <2>2. g.i < n
    BY <1>1, <1>3, <2>1
  <2>3. Good(g)
    BY <1>1, <2>1, <2>2 DEF Good
  <2> QED
    BY <1>3, <2>1, <2>3 DEF NextOf, g
<1> QED
  BY <1>2, <1>3

(* A place that stores and reads no chunks, and is not answered yet.       *)
Aside == Points \ {"setChunk", "setCount", "getChunk", "answered"}

LEMMA AsideWhole ==
    ASSUME Inv, NEW t \in Task, NEW f, task'[t] = f, UNCHANGED <<chunk, count, hurt>>,
           task[t].at \notin {"setChunk", "setCount"},
           f.at \in Aside \/ (f.at = "answered" /\ (f.val # Mixed \/ f.key \in hurt))
                         \/ (f.at = "setChunk" /\ f.i = 0),
           Whole(task[t])
    PROVE  Whole(task[t])'
<1>1. Counted(task[t])'
  BY DEF Whole, Counted, PiecesOf, Halfway
<1>2. Stored(task[t])'
  <2>1. f.at = "setChunk" => \A i \in Places : ~(i < f.i)
    BY PlacesType DEF Aside
  <2> QED
    BY <2>1 DEF Stored, PiecesOf, Aside
<1>3. Read(task[t])'
  BY DEF Read, Aside
<1> QED
  BY <1>1, <1>2, <1>3 DEF Whole

-----------------------------------------------------------------------------
(***************************************************************************)
(* get.                                                                    *)
(***************************************************************************)
Sound(t) == Inv' /\ (Whole(task[t]) => Whole(task[t])')

LEMMA GetSound ==
    ASSUME Inv, NEW t \in Task, NEW k \in Key, Get(t, k)
    PROVE  Sound(t)
<1> DEFINE g == On("getCount", k, NoVal)
<1>1. Good(g) /\ g.at = "getCount"
  BY OnGood DEF Points
<1>2. Step(t, "idle", g) /\ task[t].at = "idle"
  BY DEF Get, Step, At
<1> HIDE DEF g
<1>3. Inv' /\ task'[t] = g /\ UNCHANGED <<chunk, count, hurt>>
  BY <1>1, <1>2, StepSound
<1> QED
  BY <1>1, <1>2, <1>3, AsideWhole DEF Sound, Aside, Points

LEMMA GetCountSound ==
    ASSUME Inv, NEW t \in Task, GetCount(t)
    PROVE  Sound(t)
<1> DEFINE f == task[t]
           k == f.key
           n == count[k]
           g == [f EXCEPT !.at = IF n = 0 THEN "getSingle" ELSE "getChunk", !.n = n]
<1>1. /\ f \in Frame /\ f.at = "getCount" /\ k \in Key /\ n \in Counts /\ n \in Nat
      /\ f.i = 0 /\ f.got = <<>>
  BY TaskGood, CountsType DEF GetCount, Step, At, Good, Inv
<1>2. Step(t, "getCount", g)
  BY DEF GetCount
<1>3. /\ g \in Frame /\ g.at = IF n = 0 THEN "getSingle" ELSE "getChunk"
      /\ g.key = k /\ g.n = n /\ g.i = 0 /\ g.got = <<>>
  BY <1>1 DEF Frame, Points
<1> HIDE DEF g
<1>4. Good(g)
  BY <1>1, <1>3 DEF Good
<1>5. Inv' /\ task'[t] = g /\ UNCHANGED <<chunk, count, hurt>>
  BY <1>2, <1>4, StepSound
<1>6. CASE n = 0
  BY <1>1, <1>3, <1>5, <1>6, AsideWhole DEF Sound, Aside, Points
<1>7. ASSUME n # 0, Whole(f) PROVE Whole(task[t])'
  <2>1. Counted(task[t])'
    BY <1>1, <1>5, <1>7 DEF Whole, Counted, PiecesOf, Halfway
  <2>2. k \in hurt \/ \E v \in Val : Pieces(v) = n /\ PiecesOf(v, k, n)
    BY <1>1, <1>7 DEF Whole, Counted, Halfway
  <2>3. Len(g.got) = g.i /\ DOMAIN g.got = {}
    BY <1>3
  <2>4. Read(task[t])'
    BY <1>3, <1>5, <1>7, <2>2, <2>3 DEF Read, PiecesOf
  <2> QED
    BY <1>3, <1>5, <1>7, <2>1, <2>4 DEF Whole, Stored
<1> QED
  BY <1>5, <1>6, <1>7 DEF Sound

(* Chunks that are all pieces of v, as many as v has, join to v.           *)
LEMMA JoinedType ==
    ASSUME NEW s \in Seq(Val)
    PROVE  Joined(s) \in Val \cup {Mixed}
<1>1. ASSUME NEW v \in Val, Len(s) = Pieces(v), \A i \in DOMAIN s : s[i] = v
      PROVE  s[1] = v
  <2>1. 1 \in DOMAIN s
    BY <1>1, PiecesType
  <2> QED
    BY <1>1, <2>1
<1> QED
  BY <1>1 DEF Joined

LEMMA JoinedWhole ==
    ASSUME NEW s \in Seq(Val), NEW v \in Val, Len(s) = Pieces(v),
           \A i \in DOMAIN s : s[i] = v
    PROVE  Joined(s) = v
<1>1. 1 \in DOMAIN s
  BY PiecesType
<1> QED
  BY <1>1 DEF Joined

(* One more chunk is read, and it is not the last.                         *)
LEMMA MoreGood ==
    ASSUME NEW f, Good(f), f.at = "getChunk", f.i + 1 # f.n, NEW s \in Seq(Val)
    PROVE  LET g == [f EXCEPT !.i = @ + 1, !.got = s] IN
           /\ Good(g) /\ g.at = "getChunk" /\ g.key = f.key /\ g.n = f.n
           /\ g.i = f.i + 1 /\ g.got = s
<1> DEFINE g == [f EXCEPT !.i = @ + 1, !.got = s]
<1>1. f \in Frame /\ f.i \in Nat /\ f.n \in Nat /\ f.i < f.n
  BY DEF Good, Frame
<1> DEFINE j == f.i + 1
<1>2. /\ g \in Frame /\ g.at = "getChunk" /\ g.key = f.key /\ g.n = f.n
      /\ g.i = f.i + 1 /\ g.got = s
  <2>1. j \in Nat /\ g = [f EXCEPT !.i = j, !.got = s]
    BY <1>1
  <2> HIDE DEF g, j
  <2>2. g \in Frame
    BY <1>1, <2>1 DEF Frame
  <2>3. g.at = "getChunk" /\ g.key = f.key /\ g.n = f.n /\ g.i = j /\ g.got = s
    BY <1>1, <2>1 DEF Frame
  <2> QED
    BY <2>2, <2>3 DEF j
<1> HIDE DEF g
<1>3. g.i < g.n
  BY <1>1, <1>2
<1>4. Good(g)
  BY <1>2, <1>3 DEF Good
<1> QED
  BY <1>2, <1>4 DEF g

LEMMA GetChunkSound ==
    ASSUME Inv, NEW t \in Task, GetChunk(t)
    PROVE  Sound(t)
<1> DEFINE f == task[t]
           k == f.key
           piece == chunk[k][f.i]
           got == Append(f.got, piece)
           more == [f EXCEPT !.i = @ + 1, !.got = got]
           g == IF piece = NoVal THEN Answer(t, NoVal)
                ELSE IF f.i + 1 = f.n THEN Answer(t, Joined(got)) ELSE more
<1>1. /\ f \in Frame /\ f.at = "getChunk" /\ k \in Key /\ f.n \in Counts /\ f.n \in Nat
      /\ f.i \in Nat /\ f.i < f.n /\ f.i \in Places /\ f.got \in Seq(Val)
  <2>1. Good(f) /\ f.at = "getChunk"
    BY TaskGood DEF GetChunk, Step, At
  <2> QED
    BY <2>1, CountsType DEF Good, Frame
<1>2. piece \in Val \cup {NoVal}
  BY <1>1 DEF Inv, TypeOK
<1>3. Step(t, "getChunk", g)
  BY DEF GetChunk
<1>4. /\ Good(Answer(t, NoVal)) /\ Answer(t, NoVal).at = "answered"
      /\ Answer(t, NoVal).val = NoVal /\ Answer(t, NoVal).key = k
  BY <1>1, OnGood DEF Answer, Points
<1>5. ASSUME piece # NoVal PROVE got \in Seq(Val)
  BY <1>1, <1>2, <1>5
<1>6. ASSUME piece # NoVal
      PROVE  /\ Good(Answer(t, Joined(got))) /\ Answer(t, Joined(got)).at = "answered"
             /\ Answer(t, Joined(got)).val = Joined(got) /\ Answer(t, Joined(got)).key = k
  <2>1. Joined(got) \in Val \cup {NoVal, Mixed}
    BY <1>5, <1>6, JoinedType
  <2> HIDE DEF got
  <2> QED
    BY <1>1, <2>1, OnGood DEF Answer, Points
<1>7. ASSUME piece # NoVal, f.i + 1 # f.n
      PROVE  /\ Good(more) /\ more.at = "getChunk" /\ more.key = k /\ more.n = f.n
             /\ more.i = f.i + 1 /\ more.got = got
  <2>1. got \in Seq(Val)
    BY <1>5, <1>7
  <2> HIDE DEF got
  <2>2. Good(f)
    BY TaskGood
  <2> HIDE DEF f
  <2> QED
    BY <1>1, <1>7, <2>1, <2>2, MoreGood
<1>8. Good(g)
  BY <1>4, <1>6, <1>7
<1> HIDE DEF g
<1>9. Inv' /\ task'[t] = g /\ UNCHANGED <<chunk, count, hurt>>
  BY <1>3, <1>8, StepSound
<1>10. ASSUME Whole(f), k \in hurt PROVE Whole(task[t])'
  <2>1. g.at \in {"answered", "getChunk"} /\ g.key = k
    BY <1>4, <1>6, <1>7 DEF g
  <2>2. Counted(task[t])'
    BY <1>1, <1>9, <1>10 DEF Whole, Counted, PiecesOf, Halfway
  <2> QED
    BY <1>9, <1>10, <2>1, <2>2 DEF Whole, Stored, Read
<1>11. ASSUME Whole(f), k \notin hurt PROVE Whole(task[t])'
  <2>1. PICK v \in Val : /\ Pieces(v) = f.n /\ PiecesOf(v, k, f.n)
                         /\ Len(f.got) = f.i /\ \A j \in DOMAIN f.got : f.got[j] = v
    BY <1>1, <1>11 DEF Whole, Read
  <2>2. piece \in {v, NoVal}
    BY <1>1, <2>1 DEF PiecesOf
  <2>3. ASSUME piece # NoVal
        PROVE  Len(got) = f.i + 1 /\ \A j \in DOMAIN got : got[j] = v
    BY <1>1, <1>2, <2>1, <2>2, <2>3
  <2>4. ASSUME piece # NoVal, f.i + 1 = f.n PROVE Joined(got) = v
    BY <1>5, <2>1, <2>3, <2>4, JoinedWhole
  <2> HIDE DEF got
  <2>5. CASE piece = NoVal
    <3>1. g.at = "answered" /\ g.val # Mixed
      BY <1>4, <2>5, ChunkAssumption DEF g
    <3> QED
      BY <1>1, <1>9, <1>11, <3>1, AsideWhole
  <2>6. CASE piece # NoVal /\ f.i + 1 = f.n
    <3>1. g.at = "answered" /\ g.val # Mixed
      BY <1>6, <2>4, <2>6, ChunkAssumption DEF g
    <3> QED
      BY <1>1, <1>9, <1>11, <3>1, AsideWhole
  <2>7. CASE piece # NoVal /\ f.i + 1 # f.n
    <3>1. /\ g.at = "getChunk" /\ g.key = k /\ g.n = f.n /\ g.i = f.i + 1
          /\ Len(g.got) = g.i /\ \A j \in DOMAIN g.got : g.got[j] = v
      BY <1>7, <2>3, <2>7 DEF g
    <3>2. Counted(task[t])'
      BY <1>1, <1>9, <1>11 DEF Whole, Counted, PiecesOf, Halfway
    <3>3. Read(task[t])'
      BY <1>9, <2>1, <3>1 DEF Read, PiecesOf
    <3> QED
      BY <1>9, <3>1, <3>2, <3>3 DEF Whole, Stored
  <2> QED
    BY <2>5, <2>6, <2>7
<1> QED
  BY <1>9, <1>10, <1>11 DEF Sound

LEMMA GetSingleSound ==
    ASSUME Inv, NEW t \in Task, GetSingle(t)
    PROVE  Sound(t)
<1> DEFINE v == single[task[t].key]
<1>1. task[t].key \in Key /\ task[t].at = "getSingle" /\ Step(t, "getSingle", Answer(t, v))
  BY TaskGood DEF GetSingle, Step, At, Good
<1>2. v \in Val \cup {NoVal} /\ v # Mixed
  BY <1>1, ChunkAssumption DEF Inv, TypeOK
<1> HIDE DEF v
<1>3. Good(Answer(t, v)) /\ Answer(t, v).at = "answered" /\ Answer(t, v).val = v
  BY <1>1, <1>2, OnGood DEF Answer, Points
<1>4. Inv' /\ task'[t] = Answer(t, v) /\ UNCHANGED <<chunk, count, hurt>>
  BY <1>1, <1>3, StepSound
<1> QED
  BY <1>1, <1>2, <1>3, <1>4, AsideWhole DEF Sound

LEMMA ReturnSound ==
    ASSUME Inv, NEW t \in Task, Return(t)
    PROVE  Sound(t)
<1>1. Inv' /\ task'[t] = Idle /\ UNCHANGED <<chunk, count, hurt>> /\ task[t].at = "answered"
  BY StepSound, IdleGood DEF Return, Step, At
<1> QED
  BY <1>1, IdleGood, AsideWhole DEF Sound, Aside, Points
-----------------------------------------------------------------------------
(***************************************************************************)
(* set.                                                                    *)
(***************************************************************************)
LEMMA SetSound ==
    ASSUME Inv, NEW t \in Task, NEW k \in Key, NEW v \in Val, Set(t, k, v)
    PROVE  Sound(t)
<1> DEFINE point == IF Large(v) THEN "setChunk" ELSE "setSingle"
           g == On(point, k, v)
<1>1. /\ Free(t) /\ Go(t, g) /\ last' = [last EXCEPT ![k] = v]
      /\ UNCHANGED <<single, chunk, count, hurt>>
  BY DEF Set, server
<1>2. point \in {"setChunk", "setSingle"} /\ point \in Points
  BY DEF Points
<1> HIDE DEF point
<1>3. Good(g) /\ g.at = point /\ g.i = 0
  BY <1>2, OnGood
<1> HIDE DEF g
<1>4. task' \in [Task -> Frame] /\ task'[t] = g /\ \A u \in Task : Good(task'[u])
  BY <1>1, <1>3, GoSound
<1>5. Inv'
  BY <1>1, <1>4 DEF Inv, TypeOK
<1>6. task[t].at = "idle"
  BY <1>1, IdleGood DEF Free
<1> QED
  BY <1>1, <1>2, <1>3, <1>4, <1>5, <1>6, AsideWhole DEF Sound, Aside, Points

LEMMA SetSingleSound ==
    ASSUME Inv, NEW t \in Task, SetSingle(t)
    PROVE  Sound(t)
<1>1. task[t].key \in Key /\ task[t].val \in Val /\ task[t].at = "setSingle"
  BY TaskGood DEF SetSingle, PutSingle, At, Good
<1>2. Inv' /\ task'[t] = Idle /\ UNCHANGED <<chunk, count, hurt>>
  BY <1>1, PutSingleSound DEF SetSingle
<1> QED
  BY <1>1, <1>2, IdleGood, AsideWhole DEF Sound, Aside, Points

LEMMA SetChunkSound ==
    ASSUME Inv, NEW t \in Task, SetChunk(t)
    PROVE  Sound(t)
<1> DEFINE f == task[t]
           n == Pieces(f.val)
           g == NextOf(f, n, "setCount")
<1>1. /\ Good(f) /\ f.at = "setChunk" /\ f.key \in Key /\ f.val \in Val
      /\ f.i \in Nat /\ f.i < n
  BY TaskGood DEF SetChunk, PutChunk, At, Good, Frame
<1>2. n \in Nat /\ f.i \in Places
  BY <1>1, PiecesType
<1>3. PutChunk(t, "setChunk", f.val, g)
  BY DEF SetChunk
<1> HIDE DEF n
<1>4. /\ Good(g) /\ g.key = f.key /\ g.val = f.val
      /\ \/ f.i + 1 = n /\ g.at = "setCount"
         \/ f.i + 1 # n /\ g.at = "setChunk" /\ g.i = f.i + 1
  BY <1>1, <1>2, NextOfGood DEF n
<1> HIDE DEF g
<1>5. /\ Inv' /\ task'[t] = g /\ UNCHANGED <<count, hurt>>
      /\ \A k \in Key, i \in Places :
            chunk'[k][i] = IF k = f.key /\ i = f.i THEN f.val ELSE chunk[k][i]
  <2>1. f.key \in Key /\ f.i \in Places /\ f.val \in Val \cup {NoVal} /\ Good(g)
    BY <1>1, <1>2, <1>4
  <2>2. /\ Go(t, g) /\ UNCHANGED <<single, count, history>>
        /\ chunk' = [chunk EXCEPT ![f.key][f.i] = f.val]
    BY <1>3 DEF PutChunk
  <2> QED
    BY <2>1, <2>2, PutChunkSound
<1>6. ASSUME Whole(f) PROVE Whole(task[t])'
  <2>1. Counted(task[t])'
    <3>1. Halfway(g)
      BY <1>1, <1>4 DEF Halfway
    <3> SUFFICES ASSUME NEW k \in Key \ hurt, k # f.key, count[k] # 0
                 PROVE  \E v \in Val : /\ Pieces(v) = count[k]
                                      /\ \A i \in Places : i < count[k] =>
                                            chunk'[k][i] \in {v, NoVal}
      BY <1>4, <1>5, <3>1 DEF Counted, PiecesOf
    <3> QED
      BY <1>5, <1>6 DEF Whole, Counted, PiecesOf
  <2>2. \A i \in Places : i < f.i + 1 => chunk'[f.key][i] \in {f.val, NoVal}
    <3> SUFFICES ASSUME NEW i \in Places, i < f.i + 1
                 PROVE  chunk'[f.key][i] \in {f.val, NoVal}
      OBVIOUS
    <3>1. i = f.i \/ i < f.i
      BY <1>1, PlacesType
    <3> QED
      BY <1>1, <1>5, <1>6, <3>1 DEF Whole, Stored, PiecesOf
  <2>3. Stored(task[t])'
    BY <1>4, <1>5, <2>2 DEF Stored, PiecesOf, n
  <2>4. Read(task[t])'
    BY <1>4, <1>5 DEF Read
  <2> QED
    BY <2>1, <2>3, <2>4 DEF Whole
<1> QED
  BY <1>5, <1>6 DEF Sound

LEMMA SetCountSound ==
    ASSUME Inv, NEW t \in Task, SetCount(t)
    PROVE  Sound(t)
<1> DEFINE f == task[t]
           n == Pieces(f.val)
<1>1. f.key \in Key /\ f.val \in Val /\ f.at = "setCount"
  BY TaskGood DEF SetCount, PutCount, At, Good
<1>2. n \in Counts
  BY <1>1, PiecesType
<1>3. PutCount(t, "setCount", n)
  BY DEF SetCount
<1> HIDE DEF n
<1>4. /\ Inv' /\ task'[t] = Idle /\ UNCHANGED chunk /\ hurt' = hurt \ {f.key}
      /\ \A k \in Key : count'[k] = IF k = f.key THEN n ELSE count[k]
  BY <1>1, <1>2, <1>3, PutCountSound
<1>5. ASSUME Whole(f) PROVE Whole(task[t])'
  <2>1. Pieces(f.val) = n /\ PiecesOf(f.val, f.key, n)
    BY <1>1, <1>5 DEF Whole, Stored, n
  <2>2. Counted(task[t])'
    <3> SUFFICES ASSUME NEW k \in Key \ hurt', count'[k] # 0
                 PROVE  \E v \in Val : Pieces(v) = count'[k] /\ PiecesOf(v, k, count'[k])
      BY <1>4 DEF Counted, PiecesOf
    <3>1. CASE k = f.key
      BY <1>1, <1>4, <2>1, <3>1
    <3>2. CASE k # f.key
      BY <1>4, <1>5, <3>2 DEF Whole, Counted
    <3> QED
      BY <3>1, <3>2
  <2> QED
    BY <1>4, <2>2, IdleGood DEF Whole, Stored, Read
<1> QED
  BY <1>4, <1>5 DEF Sound
-----------------------------------------------------------------------------
(***************************************************************************)
(* delete and flush.                                                       *)
(***************************************************************************)
LEMMA DeleteSound ==
    ASSUME Inv, NEW t \in Task, NEW k \in Key, Delete(t, k)
    PROVE  Sound(t)
<1> DEFINE g == On("askCount", k, NoVal)
<1>1. /\ Free(t) /\ Go(t, g) /\ last' = [last EXCEPT ![k] = NoVal]
      /\ UNCHANGED <<single, chunk, count, hurt>>
  BY DEF Delete, server
<1>2. Good(g) /\ g.at = "askCount"
  BY OnGood DEF Points
<1> HIDE DEF g
<1>3. task' \in [Task -> Frame] /\ task'[t] = g /\ \A u \in Task : Good(task'[u])
  BY <1>1, <1>2, GoSound
<1>4. Inv'
  BY <1>1, <1>3 DEF Inv, TypeOK
<1>5. task[t].at = "idle"
  BY <1>1, IdleGood DEF Free
<1> QED
  BY <1>1, <1>2, <1>3, <1>4, <1>5, AsideWhole DEF Sound, Aside, Points

LEMMA AskCountSound ==
    ASSUME Inv, NEW t \in Task, AskCount(t)
    PROVE  Sound(t)
<1> DEFINE f == task[t]
           n == count[f.key]
           g == [f EXCEPT !.at = IF n = 0 THEN "delSingle" ELSE "delChunk", !.n = n]
<1>1. /\ f \in Frame /\ f.at = "askCount" /\ f.key \in Key /\ n \in Counts /\ n \in Nat
      /\ f.i = 0
  BY TaskGood, CountsType DEF AskCount, Step, At, Good, Inv
<1>2. Step(t, "askCount", g)
  BY DEF AskCount
<1>3. /\ g \in Frame /\ g.at = IF n = 0 THEN "delSingle" ELSE "delChunk"
      /\ g.key = f.key /\ g.n = n /\ g.i = 0
  BY <1>1 DEF Frame, Points
<1> HIDE DEF g
<1>4. Good(g)
  BY <1>1, <1>3 DEF Good
<1>5. Inv' /\ task'[t] = g /\ UNCHANGED <<chunk, count, hurt>>
  BY <1>2, <1>4, StepSound
<1> QED
  BY <1>1, <1>3, <1>5, AsideWhole DEF Sound, Aside, Points

(* The server has less than it had: what is whole stays so.                *)
LEMMA LessIsWhole ==
    ASSUME Inv, NEW f, f.at \notin {"setChunk", "setCount"}, NEW g,
           g.at \in Aside \/ g = f, hurt' \subseteq hurt,
           \A k \in hurt \ hurt' : count'[k] = 0, g = f => hurt' = hurt,
           \A k \in Key, i \in Places : chunk'[k][i] \in {chunk[k][i], NoVal},
           \A k \in Key : count'[k] \in {count[k], 0},
           NEW t, task[t] = f, task'[t] = g, Whole(f), f.key \in Key \/ f.at = "idle"
    PROVE  Whole(task[t])'
<1>1. ASSUME NEW v, NEW k \in Key, NEW n, PiecesOf(v, k, n)
      PROVE  \A i \in Places : i < n => chunk'[k][i] \in {v, NoVal}
  BY <1>1 DEF PiecesOf
<1>2. Counted(task[t])'
  <2> SUFFICES ASSUME NEW k \in Key \ hurt', count'[k] # 0
               PROVE  \E v \in Val : /\ Pieces(v) = count'[k]
                                    /\ \A i \in Places : i < count'[k] =>
                                          chunk'[k][i] \in {v, NoVal}
    BY DEF Counted, PiecesOf
  <2>1. count'[k] = count[k] /\ count[k] # 0 /\ k \notin hurt
    OBVIOUS
  <2> QED
    BY <1>1, <2>1 DEF Whole, Counted, Halfway
<1>3. Stored(task[t])'
  BY DEF Stored, Aside
<1>4. Read(task[t])'
  BY <1>1 DEF Whole, Read, PiecesOf, Aside
<1> QED
  BY <1>2, <1>3, <1>4 DEF Whole

LEMMA DelChunkSound ==
    ASSUME Inv, NEW t \in Task, DelChunk(t)
    PROVE  Sound(t)
<1> DEFINE f == task[t]
           g == NextOf(f, f.n, "delCount")
<1>1. /\ Good(f) /\ f.at = "delChunk" /\ f.key \in Key /\ f.n \in Nat
      /\ f.i \in Nat /\ f.i < f.n /\ f.i \in Places
  <2>1. Good(f) /\ f.at = "delChunk"
    BY TaskGood DEF DelChunk, PutChunk, At
  <2> QED
    BY <2>1, CountsType DEF Good, Frame
<1>2. PutChunk(t, "delChunk", NoVal, g)
  BY DEF DelChunk
<1>3. Good(g) /\ g.at \in {"delChunk", "delCount"}
  BY <1>1, NextOfGood
<1> HIDE DEF g
<1>4. /\ Inv' /\ task'[t] = g /\ UNCHANGED <<count, hurt>>
      /\ \A k \in Key, i \in Places :
            chunk'[k][i] = IF k = f.key /\ i = f.i THEN NoVal ELSE chunk[k][i]
  <2>1. f.key \in Key /\ f.i \in Places /\ Good(g)
    BY <1>1, <1>3
  <2>2. /\ Go(t, g) /\ UNCHANGED <<single, count, history>>
        /\ chunk' = [chunk EXCEPT ![f.key][f.i] = NoVal]
    BY <1>2 DEF PutChunk
  <2>3. task'[t] = g /\ (\A u \in Task : Good(task'[u])) /\ task' \in [Task -> Frame]
    BY <2>1, <2>2, GoSound
  <2>4. chunk \in [Key -> [Places -> Val \cup {NoVal}]]
    BY DEF Inv, TypeOK
  <2>5. /\ chunk' \in [Key -> [Places -> Val \cup {NoVal}]]
        /\ \A k \in Key, i \in Places :
              chunk'[k][i] = IF k = f.key /\ i = f.i THEN NoVal ELSE chunk[k][i]
    BY <2>1, <2>2, <2>4
  <2>6. Inv'
    BY <2>2, <2>3, <2>5 DEF Inv, TypeOK, history
  <2> QED
    BY <2>2, <2>3, <2>5, <2>6 DEF history
<1>5. /\ \A k \in Key, i \in Places : chunk'[k][i] \in {chunk[k][i], NoVal}
      /\ \A k \in Key : count'[k] \in {count[k], 0}
      /\ g.at \in Aside
  BY <1>3, <1>4 DEF Aside, Points
<1> QED
  BY <1>1, <1>4, <1>5, LessIsWhole DEF Sound

LEMMA DelCountSound ==
    ASSUME Inv, NEW t \in Task, DelCount(t)
    PROVE  Sound(t)
<1>1. task[t].key \in Key /\ task[t].at = "delCount"
  BY TaskGood DEF DelCount, PutCount, At, Good
<1>2. /\ Inv' /\ task'[t] = Idle /\ UNCHANGED chunk /\ hurt' = hurt \ {task[t].key}
      /\ \A k \in Key : count'[k] = IF k = task[t].key THEN 0 ELSE count[k]
  BY <1>1, CountsType, PutCountSound DEF DelCount
<1>3. /\ \A k \in Key, i \in Places : chunk'[k][i] \in {chunk[k][i], NoVal}
      /\ \A k \in Key : count'[k] \in {count[k], 0}
      /\ Idle.at \in Aside /\ Idle # task[t]
      /\ hurt' \subseteq hurt /\ \A k \in hurt \ hurt' : count'[k] = 0
  BY <1>1, <1>2, IdleGood DEF Aside, Points
<1> QED
  BY <1>1, <1>2, <1>3, LessIsWhole DEF Sound

LEMMA DelSingleSound ==
    ASSUME Inv, NEW t \in Task, DelSingle(t)
    PROVE  Sound(t)
<1>1. task[t].key \in Key /\ task[t].at = "delSingle"
  BY TaskGood DEF DelSingle, PutSingle, At, Good
<1>2. Inv' /\ task'[t] = Idle /\ UNCHANGED <<chunk, count, hurt>>
  BY <1>1, PutSingleSound DEF DelSingle
<1> QED
  BY <1>1, <1>2, IdleGood, AsideWhole DEF Sound, Aside, Points

LEMMA FlushSound ==
    ASSUME Inv, NEW t \in Task, Flush(t)
    PROVE  Sound(t)
<1>1. /\ task[t] = Idle /\ task' = task
      /\ single' = [k \in Key |-> NoVal] /\ last' = [k \in Key |-> NoVal]
      /\ chunk' = [k \in Key |-> [i \in Places |-> NoVal]]
      /\ count' = [k \in Key |-> 0] /\ hurt' = {}
  BY DEF Flush, Free
<1>2. Inv'
  BY <1>1, CountsType DEF Inv, TypeOK
<1>3. Whole(task[t])'
  BY <1>1, IdleGood DEF Whole, Counted, Stored, Read
<1> QED
  BY <1>2, <1>3 DEF Sound
-----------------------------------------------------------------------------
(***************************************************************************)
(* The server drops an item, whatever the tasks are doing.                 *)
(***************************************************************************)
LEMMA VanishSound ==
    ASSUME Inv, NEW k \in Key, Vanish(k)
    PROVE  /\ Inv' /\ task' = task /\ hurt' = hurt
           /\ \A j \in Key, i \in Places : chunk'[j][i] \in {chunk[j][i], NoVal}
           /\ \A j \in Key : count'[j] \in {count[j], 0}
<1>1. UNCHANGED <<task, last, hurt>>
  BY DEF Vanish, history
<1>2. /\ single \in [Key -> Val \cup {NoVal}] /\ count \in [Key -> Nat]
      /\ chunk \in [Key -> [Places -> Val \cup {NoVal}]]
      /\ \A j \in Key : count[j] \in Counts
  BY DEF Inv, TypeOK
<1>3. CASE single' = [single EXCEPT ![k] = NoVal] /\ UNCHANGED <<chunk, count>>
  BY <1>1, <1>2, <1>3 DEF Inv, TypeOK
<1>4. CASE count' = [count EXCEPT ![k] = 0] /\ UNCHANGED <<single, chunk>>
  <2>1. count' \in [Key -> Nat] /\ \A j \in Key : count'[j] \in {count[j], 0}
    BY <1>2, <1>4
  <2>2. \A j \in Key : count'[j] \in Counts
    BY <1>2, <2>1, CountsType
  <2> QED
    BY <1>1, <1>2, <1>4, <2>1, <2>2 DEF Inv, TypeOK
<1>5. ASSUME NEW i \in Places, chunk' = [chunk EXCEPT ![k][i] = NoVal],
             UNCHANGED <<single, count>>
      PROVE  /\ Inv'
             /\ \A j \in Key, h \in Places : chunk'[j][h] \in {chunk[j][h], NoVal}
             /\ \A j \in Key : count'[j] \in {count[j], 0}
  <2>1. /\ chunk' \in [Key -> [Places -> Val \cup {NoVal}]]
        /\ \A j \in Key, h \in Places : chunk'[j][h] \in {chunk[j][h], NoVal}
    BY <1>2, <1>5
  <2> QED
    BY <1>1, <1>2, <1>5, <2>1 DEF Inv, TypeOK
<1> QED
  BY <1>1, <1>3, <1>4, <1>5 DEF Vanish

(* ... and nothing it drops makes a mixture, also while the task stores.   *)
LEMMA VanishWhole ==
    ASSUME Inv, NEW t \in Task, Whole(task[t]), NEW k \in Key, Vanish(k)
    PROVE  Whole(task[t])'
<1>1. /\ task' = task /\ hurt' = hurt
      /\ \A j \in Key, i \in Places : chunk'[j][i] \in {chunk[j][i], NoVal}
      /\ \A j \in Key : count'[j] \in {count[j], 0}
  BY VanishSound
<1>2. Good(task[t])
  BY TaskGood
<1>3. CASE task[t].at \notin {"setChunk", "setCount"}
  BY <1>1, <1>2, <1>3, LessIsWhole DEF Good
<1>4. CASE task[t].at \in {"setChunk", "setCount"}
  <2> DEFINE f == task[t]
  <2>1. f.key \in Key
    BY <1>2, <1>4 DEF Good
  <2>2. Stored(task[t])'
    BY <1>1, <1>4, <2>1 DEF Whole, Stored, PiecesOf
  <2>3. Counted(task[t])'
    <3> SUFFICES ASSUME NEW j \in Key \ hurt, ~(Halfway(f) /\ f.key = j), count'[j] # 0
                 PROVE  \E v \in Val : /\ Pieces(v) = count'[j]
                                      /\ \A i \in Places : i < count'[j] =>
                                            chunk'[j][i] \in {v, NoVal}
      BY <1>1, <1>4 DEF Counted, PiecesOf
    <3>1. count'[j] = count[j] /\ count[j] # 0
      BY <1>1
    <3> QED
      BY <1>1, <3>1 DEF Whole, Counted, PiecesOf
  <2>4. Read(task[t])'
    BY <1>1, <1>4 DEF Read
  <2> QED
    BY <2>2, <2>3, <2>4 DEF Whole
<1> QED
  BY <1>3, <1>4
-----------------------------------------------------------------------------
(* A call that is cut off leaves a mixture of the key it was storing only. *)
LEMMA AbortSound ==
    ASSUME Inv, NEW t \in Task, Abort(t)
    PROVE  Sound(t)
<1>1. /\ Go(t, Idle) /\ UNCHANGED <<single, chunk, count, last>>
      /\ hurt' = hurt \cup (IF Halfway(task[t]) THEN {task[t].key} ELSE {})
  BY DEF Abort, server
<1>2. Halfway(task[t]) => task[t].key \in Key
  BY TaskGood DEF Halfway, Good
<1>3. task'[t] = Idle /\ task' \in [Task -> Frame] /\ \A u \in Task : Good(task'[u])
  BY <1>1, GoSound, IdleGood
<1>4. Inv'
  BY <1>1, <1>2, <1>3 DEF Inv, TypeOK
<1>5. ASSUME Whole(task[t]) PROVE Whole(task[t])'
  <2>1. Counted(task[t])'
    BY <1>1, <1>5 DEF Whole, Counted, PiecesOf
  <2> QED
    BY <1>3, <2>1, IdleGood DEF Whole, Stored, Read
<1> QED
  BY <1>4, <1>5 DEF Sound

(* Any step of a task is sound.                                            *)
LEMMA TaskSound ==
    ASSUME Inv, NEW t \in Task, Call(t) \/ Proceed(t) \/ Abort(t)
    PROVE  Sound(t)
BY GetSound, SetSound, DeleteSound, FlushSound, GetCountSound, GetChunkSound,
   GetSingleSound, ReturnSound, SetSingleSound, SetChunkSound, SetCountSound,
   AskCountSound, DelChunkSound, DelCountSound, DelSingleSound, AbortSound
   DEF Call, Proceed

LEMMA InitInv == Init => Inv /\ \A t \in Task : Whole(task[t])
<1> SUFFICES ASSUME Init PROVE Inv /\ \A t \in Task : Whole(task[t])
  OBVIOUS
<1>1. Inv
  BY IdleGood, CountsType DEF Init, Inv, TypeOK, Good
<1>2. \A t \in Task : Whole(task[t])
  BY IdleGood DEF Init, Whole, Counted, Stored, Read
<1> QED
  BY <1>1, <1>2

LEMMA NextInv == Inv /\ [Next]_vars => Inv'
<1> SUFFICES ASSUME Inv, [Next]_vars PROVE Inv'
  OBVIOUS
<1>1. CASE UNCHANGED vars
  BY <1>1 DEF vars, Inv, TypeOK
<1>2. CASE Next
  BY <1>2, TaskSound, VanishSound DEF Next, Sound
<1> QED
  BY <1>1, <1>2

(* The inductive invariant holds in every state.                           *)
THEOREM AlwaysInv == Spec => []Inv
BY InitInv, NextInv, PTL DEF Spec

(* The items on the server and the frames are well typed, for any number   *)
(* of tasks and whatever the server drops (memcached.py 48-106).           *)
THEOREM TypeCorrect == Spec => []TypeOK
<1>1. Inv => TypeOK
  BY DEF Inv
<1> QED
  BY <1>1, AlwaysInv, PTL

(* One task never answers a get with pieces of several values, whatever    *)
(* lengths its values have had, whatever items the server drops between    *)
(* two requests, and whatever calls are cut off between them, but for the  *)
(* keys of sets that were (memcached.py 48-102).                           *)
THEOREM NoMixture ==
    ASSUME NEW t, Task = {t}
    PROVE  Spec => []NeverMixed
<1>1. Init => Inv /\ Whole(task[t])
  BY InitInv
<1>2. Inv /\ Whole(task[t]) /\ [Next]_vars => (Inv /\ Whole(task[t]))'
  <2> SUFFICES ASSUME Inv, Whole(task[t]), [Next]_vars PROVE (Inv /\ Whole(task[t]))'
    OBVIOUS
  <2>1. CASE UNCHANGED vars
    BY <2>1, NextInv DEF vars, Whole, Counted, Stored, Read, PiecesOf
  <2>2. CASE Next
    BY <2>2, NextInv, TaskSound, VanishWhole DEF Next, Sound
  <2> QED
    BY <2>1, <2>2
<1>3. Whole(task[t]) => NeverMixed
  BY DEF Whole, Read, NeverMixed, At
<1> QED
  BY <1>1, <1>2, <1>3, PTL DEF Spec
=============================================================================
