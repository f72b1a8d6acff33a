-------------------------- MODULE LocalBackendProofs --------------------------
(***************************************************************************)
(* Proofs about LocalBackend, for any keys, values, sizes and capacity.    *)
(*                                                                         *)
(* For any number of tasks, with crashes: every step of a call brings it   *)
(* closer to its end (AlwaysAdvances), and the variables keep their types  *)
(* (TypeCorrect).  For the calls of one task, with crashes between any two *)
(* file operations: between calls the files are the map of what was set    *)
(* (FilesMatch), they fit (CapacityHolds), and a set evicts the oldest     *)
(* first (OldestFirst).  With two tasks those three are false, as a call   *)
(* may fall between the steps of another.                                  *)
(*                                                                         *)
(* For the first, the invariant says little: a frame has its fields, a     *)
(* removal leads back to where a removal can come from, and only Idle      *)
(* stands at idle.  That is enough, since a step is closer by its own      *)
(* frame alone: what other calls do to the files decides which way a call  *)
(* takes and never how far.                                                *)
(***************************************************************************)
EXTENDS LocalBackend, TLAPS, FiniteSetTheorems

Fine(f) ==
    /\ DOMAIN f = DOMAIN Idle
    /\ f.at \in Points
    /\ f.at \in Removal => f.then \in {"idle", "evict", "sweep"}
    /\ f.at = "idle" => f = Idle

Good ==
    /\ DOMAIN task = Task
    /\ \A t \in Task : Fine(task[t])

Progress ==
    \A t \in Task : ~Free(t) /\ task'[t] # task[t] => Closer(task'[t], task[t])

-----------------------------------------------------------------------------
(* A return is always closer: whatever else was left is given up.          *)
LEMMA IdleCloser ==
    ASSUME NEW g, Fine(g), g # Idle
    PROVE  Closer(Idle, g)
<1>1. Stage(Idle) = "idle" /\ WorkLeft(Idle) = {} /\ RemovalLeft(Idle) = 0
  BY DEF Stage, Idle, Removal, WorkLeft, RemovalLeft
<1>2. CASE g.at \in Removal /\ g.then = "idle"
  <2>1. Stage(g) = "idle" /\ RemovalLeft(g) \in {1, 2}
    BY <1>2 DEF Stage, Removal, RemovalLeft
  <2> QED
    BY <1>1, <2>1 DEF Closer
<1>3. CASE g.at \in Removal /\ g.then # "idle"
  <2>1. Stage(g) \in {"evict", "sweep"}
    BY <1>3 DEF Stage, Fine
  <2> QED
    BY <1>1, <2>1 DEF Closer, StagesLeft
<1>4. CASE g.at \notin Removal
  <2>1. Stage(g) \in Points \ (Removal \cup {"idle"})
    BY <1>4 DEF Stage, Fine
  <2> QED
    BY <1>1, <2>1 DEF Closer, StagesLeft, Points, Removal
<1> QED
  BY <1>2, <1>3, <1>4

LEMMA IdleFine == Fine(Idle)
BY DEF Fine, Idle, Points, Removal

(* One task moves to a frame that is closer, or begins a call.             *)
LEMMA Moved ==
    ASSUME Good, NEW t \in Task, NEW f, Go(t, f), Fine(f),
           Free(t) \/ Closer(f, task[t])
    PROVE  Good' /\ Progress
<1>1. DOMAIN task' = Task /\ task'[t] = f
  BY DEF Good, Go
<1>2. \A u \in Task \ {t} : task'[u] = task[u]
  BY DEF Good, Go
<1>3. Good'
  BY <1>1, <1>2 DEF Good
<1>4. Progress
  BY <1>1, <1>2 DEF Progress
<1> QED
  BY <1>3, <1>4

LEMMA Returned ==
    ASSUME Good, NEW t \in Task, Go(t, Idle)
    PROVE  Good' /\ Progress
<1>1. Free(t) \/ Closer(Idle, task[t])
  BY IdleCloser DEF Good, Free
<1> QED
  BY <1>1, IdleFine, Moved

-----------------------------------------------------------------------------
(* Frames made from a frame.                                               *)
LEMMA RemovingFine ==
    ASSUME NEW f, DOMAIN f = DOMAIN Idle, NEW k, NEW then \in {"idle", "evict", "sweep"}
    PROVE  /\ Fine(Removing(f, k, then))
           /\ Stage(Removing(f, k, then)) = then
           /\ Removing(f, k, then).todo = f.todo
           /\ Removing(f, k, then).found = f.found
<1> DEFINE r == Removing(f, k, then)
<1>1. DOMAIN r = DOMAIN Idle /\ r.at = "removeData" /\ r.then = then
      /\ r.todo = f.todo /\ r.found = f.found
  BY DEF Removing, Idle
<1> HIDE DEF r
<1>2. Fine(r) /\ Stage(r) = then
  BY <1>1 DEF Fine, Points, Removal, Stage
<1> QED
  BY <1>1, <1>2 DEF r

LEMMA RemovedFine ==
    ASSUME NEW f, Fine(f), f.at \in Removal, f.then # "idle"
    PROVE  /\ Fine(Removed(f)) /\ Removed(f).at = f.then
           /\ Removed(f).todo = f.todo /\ Removed(f).found = f.found
<1> DEFINE r == Removed(f)
<1>1. DOMAIN r = DOMAIN Idle /\ r.at = f.then /\ r.todo = f.todo /\ r.found = f.found
  BY DEF Removed, Fine, Idle
<1>2. f.then \in {"evict", "sweep"}
  BY DEF Fine
<1> HIDE DEF r
<1>3. Fine(r)
  BY <1>1, <1>2 DEF Fine, Points, Removal
<1> QED
  BY <1>1, <1>3 DEF r

-----------------------------------------------------------------------------
(* Removals.                                                               *)
LEMMA RemoveDataAdvances ==
    ASSUME Good, NEW t \in Task, RemoveData(t)
    PROVE  Good' /\ Progress
<1> DEFINE g == task[t]
           f == [g EXCEPT !.at = "removeMeta"]
<1>1. Fine(g) /\ g.at = "removeData" /\ Go(t, f)
  BY DEF Good, RemoveData, At
<1> HIDE DEF g
<1>2. /\ DOMAIN f = DOMAIN Idle /\ f.at = "removeMeta" /\ f.then = g.then
      /\ f.todo = g.todo /\ f.found = g.found
  BY <1>1 DEF Fine, Idle
<1> HIDE DEF f
<1>3. Fine(f)
  BY <1>1, <1>2 DEF Fine, Points, Removal
<1>4. Stage(f) = Stage(g) /\ WorkLeft(f) = WorkLeft(g)
  BY <1>1, <1>2 DEF Stage, Removal, WorkLeft
<1>5. Closer(f, g)
  BY <1>1, <1>2, <1>4 DEF Closer, RemovalLeft
<1> QED
  BY <1>1, <1>3, <1>5, Moved DEF g

LEMMA RemoveMetaAdvances ==
    ASSUME Good, NEW t \in Task, RemoveMeta(t)
    PROVE  Good' /\ Progress
<1> DEFINE g == task[t]
           f == Removed(g)
<1>1. Fine(g) /\ g.at = "removeMeta" /\ Go(t, f)
  BY DEF Good, RemoveMeta, At
<1>2. CASE g.then = "idle"
  BY <1>1, <1>2, Returned DEF Removed
<1>3. CASE g.then # "idle"
  <2> HIDE DEF g
  <2>1. /\ Fine(f) /\ f.at = g.then /\ f.todo = g.todo /\ f.found = g.found
    BY <1>1, <1>3, RemovedFine DEF Removal
  <2>2. g.then \in {"evict", "sweep"}
    BY <1>1, <1>3 DEF Fine, Removal
  <2> HIDE DEF f
  <2>3. Stage(f) = Stage(g) /\ WorkLeft(f) = WorkLeft(g)
    BY <1>1, <2>1, <2>2 DEF Stage, Removal, WorkLeft
  <2>4. Closer(f, g)
    BY <1>1, <2>1, <2>2, <2>3 DEF Closer, RemovalLeft
  <2> QED
    BY <1>1, <2>1, <2>4, Moved DEF g
<1> QED
  BY <1>2, <1>3
-----------------------------------------------------------------------------
(* The steps that lead to a later stage.                                   *)
LEMMA LaterStage ==
    ASSUME Good, NEW t \in Task, NEW f, Go(t, f),
           DOMAIN f = DOMAIN Idle, f.at \in Points \ (Removal \cup {"idle"}),
           task[t].at \in Points \ Removal,
           StagesLeft[f.at] < StagesLeft[task[t].at]
    PROVE  Good' /\ Progress
<1>1. Fine(f) /\ Stage(f) = f.at /\ Stage(task[t]) = task[t].at
  BY DEF Fine, Stage
<1>2. Closer(f, task[t])
  BY <1>1 DEF Closer
<1> QED
  BY <1>1, <1>2, Moved

(* The steps that begin a removal which ends the call.                     *)
LEMMA LastRemoval ==
    ASSUME Good, NEW t \in Task, NEW g, DOMAIN g = DOMAIN Idle, NEW k,
           Go(t, Removing(g, k, "idle")),
           task[t].at \in Points \ Removal
    PROVE  Good' /\ Progress
<1> DEFINE f == Removing(g, k, "idle")
<1>1. Fine(f) /\ Stage(f) = "idle"
  BY RemovingFine
<1>2. Stage(task[t]) = task[t].at /\ Fine(task[t])
  BY DEF Stage, Good
<1> HIDE DEF f
<1>3. Free(t) \/ Closer(f, task[t])
  <2>1. CASE task[t].at = "idle"
    BY <1>2, <2>1 DEF Fine, Free
  <2>2. CASE task[t].at # "idle"
    <3>1. StagesLeft["idle"] < StagesLeft[task[t].at]
      BY <2>2 DEF StagesLeft, Points, Removal
    <3> QED
      BY <1>1, <1>2, <3>1 DEF Closer
  <2> QED
    BY <2>1, <2>2
<1> QED
  BY <1>1, <1>3, Moved DEF f

(* A call begins.                                                          *)
LEMMA CallAdvances ==
    ASSUME Good, NEW t \in Task, Call(t)
    PROVE  Good' /\ Progress
<1>1. ASSUME NEW k \in Key, Get(t, k) PROVE Good' /\ Progress
  <2> DEFINE f == [Idle EXCEPT !.at = "readMeta", !.key = k]
  <2>1. DOMAIN f = DOMAIN Idle /\ f.at = "readMeta"
    BY DEF Idle
  <2>2. Go(t, f) /\ Free(t)
    BY <1>1 DEF Get, Step, At, Good, Fine, Free
  <2> HIDE DEF f
  <2>3. Fine(f)
    BY <2>1 DEF Fine, Points, Removal
  <2> QED
    BY <2>2, <2>3, Moved
<1>2. ASSUME NEW k \in Key, Delete(t, k) PROVE Good' /\ Progress
  <2> DEFINE g == [Idle EXCEPT !.key = k]
  <2>1. DOMAIN g = DOMAIN Idle
    BY DEF Idle
  <2>2. Go(t, Removing(g, k, "idle")) /\ task[t].at = "idle"
    BY <1>2 DEF Delete, Forget, At
  <2> HIDE DEF g
  <2> QED
    BY <2>1, <2>2, LastRemoval DEF Points, Removal
<1>3. ASSUME NEW k \in Key, NEW v \in Val, NEW ttl \in TTL, Set(t, k, v, ttl)
      PROVE  Good' /\ Progress
  <2> DEFINE f == [Idle EXCEPT !.at = "listBins", !.key = k, !.val = v, !.ttl = ttl]
  <2>1. DOMAIN f = DOMAIN Idle /\ f.at = "listBins"
    BY DEF Idle
  <2>2. Go(t, f) /\ Free(t)
    BY <1>3 DEF Set
  <2> HIDE DEF f
  <2>3. Fine(f)
    BY <2>1 DEF Fine, Points, Removal
  <2> QED
    BY <2>2, <2>3, Moved
<1>4. CASE Sweep(t)
  <2> DEFINE f == [Idle EXCEPT !.at = "listSweep"]
  <2>1. DOMAIN f = DOMAIN Idle /\ f.at = "listSweep"
    BY DEF Idle
  <2>2. Go(t, f) /\ Free(t)
    BY <1>4 DEF Sweep, Step, At, Good, Fine, Free
  <2> HIDE DEF f
  <2>3. Fine(f)
    BY <2>1 DEF Fine, Points, Removal
  <2> QED
    BY <2>2, <2>3, Moved
<1>5. CASE Flush(t)
  <2> DEFINE f == [Idle EXCEPT !.at = "rmtree", !.todo = dirs]
  <2>1. DOMAIN f = DOMAIN Idle /\ f.at = "rmtree"
    BY DEF Idle
  <2>2. Go(t, f) /\ Free(t)
    BY <1>5 DEF Flush
  <2> HIDE DEF f
  <2>3. Fine(f)
    BY <2>1 DEF Fine, Points, Removal
  <2> QED
    BY <2>2, <2>3, Moved
<1> QED
  BY <1>1, <1>2, <1>3, <1>4, <1>5 DEF Call

(* get reads the sidecar and then the data.                                *)
LEMMA ReadMetaAdvances ==
    ASSUME Good, NEW t \in Task, ReadMeta(t)
    PROVE  Good' /\ Progress
<1> DEFINE g == task[t]
           k == g.key
           f == [g EXCEPT !.at = "readData"]
<1>1. g.at = "readMeta" /\ DOMAIN g = DOMAIN Idle
  BY DEF Good, Fine, ReadMeta, Forget, Step, At
<1>2. Go(t, Removing(g, k, "idle")) \/ Go(t, f) \/ Go(t, Idle)
  BY DEF ReadMeta, Forget, Step
<1>3. CASE Go(t, Removing(g, k, "idle"))
  BY <1>1, <1>3, LastRemoval DEF Points, Removal
<1>4. CASE Go(t, f)
  <2>1. DOMAIN f = DOMAIN Idle /\ f.at = "readData"
    BY <1>1 DEF Idle
  <2> HIDE DEF f
  <2> QED
    BY <1>1, <1>4, <2>1, LaterStage DEF Points, Removal, StagesLeft
<1> QED
  BY <1>2, <1>3, <1>4, Returned
-----------------------------------------------------------------------------
(* set, stage by stage.                                                    *)
LEMMA ListingAdvances ==
    ASSUME Good, NEW t \in Task, ListBins(t) \/ StatBins(t) \/ ListMetas(t)
    PROVE  Good' /\ Progress
<1> DEFINE g == task[t]
<1>1. Fine(g) /\ DOMAIN g = DOMAIN Idle
  BY DEF Good, Fine
<1>2. CASE ListBins(t)
  <2> DEFINE f == [g EXCEPT !.at = "statBins", !.todo = Bins]
  <2>1. DOMAIN f = DOMAIN Idle /\ f.at = "statBins"
    BY <1>1 DEF Idle
  <2>2. Go(t, f) /\ g.at = "listBins"
    BY <1>2 DEF ListBins, Step, At
  <2> HIDE DEF f
  <2> QED
    BY <2>1, <2>2, LaterStage DEF Points, Removal, StagesLeft
<1>3. CASE StatBins(t)
  <2> DEFINE todo == g.todo
             roomy == Fits(g, Bytes[todo])
             f == [g EXCEPT !.at = IF roomy THEN "openData" ELSE "listMetas",
                            !.todo = {}, !.current = Bytes[todo]]
  <2>1. Go(t, Idle) \/ Go(t, f)
    BY <1>3 DEF StatBins, Step
  <2>2. g.at = "statBins"
    BY <1>3 DEF StatBins, Step, At
  <2>3. DOMAIN f = DOMAIN Idle /\ f.at \in {"openData", "listMetas"}
    BY <1>1 DEF Idle
  <2> HIDE DEF f
  <2>4. CASE Go(t, f)
    BY <2>2, <2>3, <2>4, LaterStage DEF Points, Removal, StagesLeft
  <2> QED
    BY <2>1, <2>4, Returned
<1>4. CASE ListMetas(t)
  <2> DEFINE f == [g EXCEPT !.at = IF Metas = {} THEN "evict" ELSE "readEntry",
                            !.todo = Metas]
  <2>1. DOMAIN f = DOMAIN Idle /\ f.at \in {"evict", "readEntry"}
    BY <1>1 DEF Idle
  <2>2. Go(t, f) /\ g.at = "listMetas"
    BY <1>4 DEF ListMetas, Step, At
  <2> HIDE DEF f
  <2> QED
    BY <2>1, <2>2, LaterStage DEF Points, Removal, StagesLeft
<1> QED
  BY <1>2, <1>3, <1>4

LEMMA ReadEntryAdvances ==
    ASSUME Good, NEW t \in Task, ReadEntry(t)
    PROVE  Good' /\ Progress
<1> DEFINE g == task[t]
           f(k) == [g EXCEPT !.at = IF g.todo = {k} THEN "evict" ELSE @,
                             !.todo = @ \ {k},
                             !.found = IF Noted(k) THEN @ \cup {EntryOf(k)} ELSE @]
<1>1. PICK k \in g.todo : Go(t, f(k))
  BY DEF ReadEntry, Step
<1>2. Fine(g) /\ g.at = "readEntry"
  BY DEF Good, ReadEntry, Step, At
<1> DEFINE h == f(k)
<1>3. /\ DOMAIN h = DOMAIN Idle /\ h.todo = g.todo \ {k}
      /\ h.at = IF g.todo = {k} THEN "evict" ELSE "readEntry"
  BY <1>2 DEF Fine, Idle
<1>4. Go(t, h)
  BY <1>1
<1> HIDE DEF h
<1>5. CASE h.at = "evict"
  BY <1>2, <1>3, <1>4, <1>5, LaterStage DEF Points, Removal, StagesLeft
<1>6. CASE h.at = "readEntry"
  <2>1. Fine(h) /\ Stage(h) = "readEntry" /\ Stage(g) = "readEntry"
    BY <1>2, <1>3, <1>6 DEF Fine, Stage, Points, Removal
  <2>2. WorkLeft(h) = g.todo \ {k} /\ WorkLeft(g) = g.todo
    BY <1>3, <2>1 DEF WorkLeft
  <2>3. WorkLeft(h) \subseteq WorkLeft(g) /\ WorkLeft(h) # WorkLeft(g)
    BY <1>1, <2>2
  <2>4. Closer(h, g)
    BY <2>1, <2>3 DEF Closer
  <2> QED
    BY <1>4, <2>1, <2>4, Moved
<1> QED
  BY <1>3, <1>5, <1>6

(* One entry less to evict, whether or not its files are still there.      *)
LEMMA EvictAdvances ==
    ASSUME Good, NEW t \in Task, Evict(t)
    PROVE  Good' /\ Progress
<1> DEFINE g == task[t]
           f == [g EXCEPT !.at = "openData", !.found = {}, !.current = 0]
           less(e) == [g EXCEPT !.found = @ \ {e}, !.current = @ - e.size]
<1>1. Fine(g) /\ g.at = "evict"
  BY DEF Good, Evict, At
<1>2. Go(t, f) \/ \E e \in Oldest(g.found) : Go(t, Removing(less(e), e.key, "evict"))
  BY DEF Evict, Step, Forget
<1>3. CASE Go(t, f)
  <2>1. DOMAIN f = DOMAIN Idle /\ f.at = "openData"
    BY <1>1 DEF Fine, Idle
  <2> HIDE DEF f
  <2> QED
    BY <1>1, <1>3, <2>1, LaterStage DEF Points, Removal, StagesLeft
<1>4. ASSUME NEW e \in Oldest(g.found), Go(t, Removing(less(e), e.key, "evict"))
      PROVE  Good' /\ Progress
  <2> DEFINE l == less(e)
             h == Removing(l, e.key, "evict")
  <2>1. DOMAIN l = DOMAIN Idle /\ l.found = g.found \ {e}
    BY <1>1 DEF Fine, Idle
  <2> HIDE DEF l
  <2>2. Fine(h) /\ Stage(h) = "evict" /\ h.found = g.found \ {e}
    BY <2>1, RemovingFine
  <2>3. Go(t, h)
    BY <1>4 DEF l
  <2> HIDE DEF h
  <2>4. Stage(g) = "evict" /\ e \in g.found
    BY <1>1 DEF Stage, Removal, Oldest
  <2>5. WorkLeft(h) = g.found \ {e} /\ WorkLeft(g) = g.found
    BY <2>2, <2>4 DEF WorkLeft
  <2>6. WorkLeft(h) \subseteq WorkLeft(g) /\ WorkLeft(h) # WorkLeft(g)
    BY <2>4, <2>5
  <2>7. Closer(h, g)
    BY <2>2, <2>4, <2>6 DEF Closer
  <2> QED
    BY <2>2, <2>3, <2>7, Moved
<1> QED
  BY <1>2, <1>3, <1>4

LEMMA WritingAdvances ==
    ASSUME Good, NEW t \in Task,
           OpenData(t) \/ WriteData(t) \/ OpenMeta(t) \/ WriteMeta(t) \/ ReadData(t)
    PROVE  Good' /\ Progress
<1> DEFINE g == task[t]
<1>1. Fine(g) /\ DOMAIN g = DOMAIN Idle
  BY DEF Good, Fine
<1>2. CASE Go(t, Idle)
  BY <1>2, Returned
<1>3. CASE OpenData(t) /\ ~Go(t, Idle)
  <2> DEFINE f == [g EXCEPT !.at = "writeData", !.current = 0]
  <2>1. DOMAIN f = DOMAIN Idle /\ f.at = "writeData"
    BY <1>1 DEF Idle
  <2>2. Go(t, f) /\ g.at = "openData"
    BY <1>3 DEF OpenData, NoDirectory, Step, At
  <2> HIDE DEF f
  <2> QED
    BY <2>1, <2>2, LaterStage DEF Points, Removal, StagesLeft
<1>4. CASE WriteData(t)
  <2> DEFINE f == [g EXCEPT !.at = "openMeta", !.created = now]
  <2>1. DOMAIN f = DOMAIN Idle /\ f.at = "openMeta"
    BY <1>1 DEF Idle
  <2>2. Go(t, f) /\ g.at = "writeData"
    BY <1>4 DEF WriteData, At
  <2> HIDE DEF f
  <2> QED
    BY <2>1, <2>2, LaterStage DEF Points, Removal, StagesLeft
<1>5. CASE OpenMeta(t) /\ ~Go(t, Idle)
  <2> DEFINE f == [g EXCEPT !.at = "writeMeta"]
  <2>1. DOMAIN f = DOMAIN Idle /\ f.at = "writeMeta"
    BY <1>1 DEF Idle
  <2>2. Go(t, f) /\ g.at = "openMeta"
    BY <1>5 DEF OpenMeta, NoDirectory, Step, At
  <2> HIDE DEF f
  <2> QED
    BY <2>1, <2>2, LaterStage DEF Points, Removal, StagesLeft
<1>6. CASE WriteMeta(t) \/ ReadData(t)
  <2>1. Go(t, Idle)
    BY <1>6 DEF WriteMeta, ReadData, Step
  <2> QED
    BY <2>1, <1>2
<1> QED
  BY <1>2, <1>3, <1>4, <1>5, <1>6

-----------------------------------------------------------------------------
(* keys, cleanup_expired and flush.                                        *)
LEMMA SweepAdvances ==
    ASSUME Good, NEW t \in Task, ListSweep(t) \/ SweepEntry(t)
    PROVE  Good' /\ Progress
<1> DEFINE g == task[t]
<1>1. Fine(g) /\ DOMAIN g = DOMAIN Idle
  BY DEF Good, Fine
<1>2. CASE ListSweep(t)
  <2> DEFINE f == [g EXCEPT !.at = "sweep", !.todo = Metas]
  <2>1. DOMAIN f = DOMAIN Idle /\ f.at = "sweep"
    BY <1>1 DEF Idle
  <2>2. (Go(t, Idle) \/ Go(t, f)) /\ g.at = "listSweep"
    BY <1>2 DEF ListSweep, Step, At
  <2> HIDE DEF f
  <2>3. CASE Go(t, f)
    BY <2>1, <2>2, <2>3, LaterStage DEF Points, Removal, StagesLeft
  <2> QED
    BY <2>2, <2>3, Returned
<1>3. CASE SweepEntry(t)
  <2>1. PICK k \in g.todo :
           \/ Go(t, Removing(Left(t, k), k, After(t, k)))
           \/ Go(t, IF After(t, k) = "idle" THEN Idle ELSE Left(t, k))
    BY <1>3 DEF SweepEntry, Forget, Step
  <2>2. g.at = "sweep"
    BY <1>3 DEF SweepEntry, Forget, Step, At
  <2> DEFINE f == Left(t, k)
  <2>3. DOMAIN f = DOMAIN Idle /\ f.at = "sweep" /\ f.todo = g.todo \ {k}
    BY <1>1, <2>2 DEF Left, Idle
  <2> HIDE DEF f
  <2>4. Stage(g) = "sweep" /\ WorkLeft(g) = g.todo
    BY <2>2 DEF Stage, Removal, WorkLeft
  <2>5. CASE After(t, k) = "idle" /\ Go(t, Removing(f, k, "idle"))
    BY <2>2, <2>3, <2>5, LastRemoval DEF Points, Removal
  <2>6. CASE After(t, k) = "sweep" /\ Go(t, Removing(f, k, "sweep"))
    <3> DEFINE h == Removing(f, k, "sweep")
    <3>1. Fine(h) /\ Stage(h) = "sweep" /\ h.todo = g.todo \ {k}
      BY <2>3, RemovingFine
    <3> HIDE DEF h
    <3>2. WorkLeft(h) = g.todo \ {k}
      BY <3>1 DEF WorkLeft
    <3>3. WorkLeft(h) \subseteq WorkLeft(g) /\ WorkLeft(h) # WorkLeft(g)
      BY <2>1, <2>4, <3>2
    <3>4. Closer(h, g)
      BY <2>4, <3>1, <3>3 DEF Closer
    <3> QED
      BY <2>6, <3>1, <3>4, Moved DEF h
  <2>7. CASE After(t, k) = "sweep" /\ Go(t, f)
    <3>1. Fine(f) /\ Stage(f) = "sweep"
      BY <2>3 DEF Fine, Stage, Points, Removal
    <3>2. WorkLeft(f) = g.todo \ {k}
      BY <2>3, <3>1 DEF WorkLeft
    <3>3. WorkLeft(f) \subseteq WorkLeft(g) /\ WorkLeft(f) # WorkLeft(g)
      BY <2>1, <2>4, <3>2
    <3>4. Closer(f, g)
      BY <2>4, <3>1, <3>3 DEF Closer
    <3> QED
      BY <2>7, <3>1, <3>4, Moved
  <2>8. After(t, k) \in {"idle", "sweep"}
    BY DEF After
  <2> QED
    BY <2>1, <2>5, <2>6, <2>7, <2>8, Returned DEF f
<1> QED
  BY <1>2, <1>3

LEMMA RemoveShardAdvances ==
    ASSUME Good, NEW t \in Task, RemoveShard(t)
    PROVE  Good' /\ Progress
<1> DEFINE g == task[t]
<1>1. Fine(g) /\ DOMAIN g = DOMAIN Idle /\ g.at = "rmtree"
  BY DEF Good, Fine, RemoveShard, At
<1>2. PICK k \in g.todo : Go(t, Idle) \/ Go(t, Left(t, k))
  BY DEF RemoveShard
<1> DEFINE f == Left(t, k)
<1>3. DOMAIN f = DOMAIN Idle /\ f.at = "rmtree" /\ f.todo = g.todo \ {k}
  BY <1>1 DEF Left, Idle
<1> HIDE DEF f
<1>4. Fine(f) /\ Stage(f) = "rmtree" /\ Stage(g) = "rmtree"
  BY <1>1, <1>3 DEF Fine, Stage, Points, Removal
<1>5. WorkLeft(f) \subseteq WorkLeft(g) /\ WorkLeft(f) # WorkLeft(g)
  BY <1>2, <1>3, <1>4 DEF WorkLeft
<1>6. Closer(f, g)
  BY <1>4, <1>5 DEF Closer
<1> QED
  BY <1>2, <1>4, <1>6, Moved, Returned DEF f

-----------------------------------------------------------------------------
(* A crash ends every call.                                                *)
LEMMA CrashAdvances ==
    ASSUME Good, Crash
    PROVE  Good' /\ Progress
<1>1. task' = [t \in Task |-> Idle]
  BY DEF Crash
<1>2. Good'
  BY <1>1, IdleFine DEF Good
<1>3. ASSUME NEW t \in Task, ~Free(t) PROVE Closer(task'[t], task[t])
  <2>1. Fine(task[t]) /\ task[t] # Idle /\ task'[t] = Idle
    BY <1>1, <1>3 DEF Good, Free
  <2> QED
    BY <2>1, IdleCloser
<1> QED
  BY <1>2, <1>3 DEF Progress

LEMMA NextAdvances == Good /\ [Next]_vars => Good' /\ [Progress]_vars
<1> SUFFICES ASSUME Good, [Next]_vars PROVE Good' /\ [Progress]_vars
  OBVIOUS
<1>1. ASSUME NEW t \in Task, Proceed(t) PROVE Good' /\ Progress
  <2>1. CASE Storing(t)
    BY <2>1, ListingAdvances, ReadEntryAdvances, EvictAdvances, WritingAdvances
       DEF Storing
  <2> QED
    BY <1>1, <2>1, ReadMetaAdvances, WritingAdvances, RemoveDataAdvances,
       RemoveMetaAdvances, SweepAdvances, RemoveShardAdvances DEF Proceed
<1>2. CASE Tick \/ UNCHANGED vars
  BY <1>2 DEF Tick, vars, Good, Progress
<1> QED
  BY <1>1, <1>2, CallAdvances, CrashAdvances DEF Next

LEMMA InitGood == Init => Good
BY IdleFine DEF Init, Good

(* Whatever other calls and crashes do to the files a call has listed, the *)
(* call never comes back to a stage it is past, nor to an entry it is done *)
(* with, for any number of tasks and keys (local.py 41-138).               *)
THEOREM AlwaysAdvances == Spec => Advances
<1>1. Good /\ [Next]_vars => Good' /\ [Progress]_vars
  BY NextAdvances
<1> QED
  BY <1>1, InitGood, PTL DEF Spec, Advances, Progress

-----------------------------------------------------------------------------
(***************************************************************************)
(* The sum that Bytes is.                                                  *)
(***************************************************************************)
(* Among subsets of a finite set one is smallest.  An induction over the   *)
(* subsets is, in the lemmas below, a look at a smallest counterexample.   *)
LEMMA SmallestOf ==
    ASSUME NEW S, IsFiniteSet(S), NEW B, B \subseteq SUBSET S, B # {}
    PROVE  \E D \in B : \A E \in B : ~(E \subseteq D /\ E # D)
<1>1. IsWellFoundedOn(StrictSubsetOrdering(S), SUBSET S)
  BY FS_StrictSubsetOrderingWellFounded, FS_FiniteSubsetsOfFinite
<1>2. PICK D \in B : \A E \in B : <<E, D>> \notin StrictSubsetOrdering(S)
  BY <1>1, WFMin
<1> QED
  BY <1>2 DEF StrictSubsetOrdering

Some(D) == CHOOSE k \in D : TRUE

(* What Bytes does of d, taking s for the smaller sets. *)
Sum(d, s, D) == IF D = {} THEN 0 ELSE d[Some(D)].size + s[D \ {Some(D)}]

IsSum(d, s) == s = [D \in SUBSET Key |-> Sum(d, s, D)]

LEMMA SomeIn == ASSUME NEW D, D # {} PROVE Some(D) \in D
BY DEF Some

LEMMA SmallerSet ==
    ASSUME NEW D \in SUBSET Key, NEW k \in D
    PROVE  /\ D \ {k} \in SUBSET Key /\ IsFiniteSet(D)
           /\ Cardinality(D) \in Nat /\ Cardinality(D \ {k}) = Cardinality(D) - 1
<1>1. IsFiniteSet(D)
  BY FilesAssumption, FS_Subset
<1> QED
  BY <1>1, FS_CardinalityType, FS_RemoveElement

LEMMA SumExists == ASSUME NEW d PROVE \E s : IsSum(d, s)
<1> DEFINE Upto(s, n) == \A D \in SUBSET Key : Cardinality(D) <= n => s[D] = Sum(d, s, D)
           B == {D \in SUBSET Key : \A s : ~Upto(s, Cardinality(D))}
<1>1. \E s : Upto(s, Cardinality(Key))
  <2> SUFFICES ASSUME B # {} PROVE FALSE
    OBVIOUS
  <2>0. B \subseteq SUBSET Key /\ IsFiniteSet(Key)
    BY FilesAssumption
  <2>1. PICK D \in B : \A E \in B : ~(E \subseteq D /\ E # D)
    <3> HIDE DEF B
    <3> QED
      BY <2>0, SmallestOf
  <2> DEFINE n == Cardinality(D)
  <2>2. D # {}
    <3> DEFINE s == [E \in SUBSET Key |-> 0]
    <3>1. \A E \in SUBSET Key : Cardinality(E) <= 0 => E = {}
      <4> SUFFICES ASSUME NEW E \in SUBSET Key, NEW k \in E, Cardinality(E) <= 0 PROVE FALSE
        OBVIOUS
      <4>1. Cardinality(E) \in Nat /\ Cardinality(E \ {k}) = Cardinality(E) - 1
            /\ Cardinality(E \ {k}) \in Nat
        <5>1. IsFiniteSet(E \ {k})
          BY SmallerSet, FS_RemoveElement
        <5> QED
          BY <5>1, SmallerSet, FS_CardinalityType
      <4> QED
        BY <4>1
    <3>2. Upto(s, 0)
      BY <3>1 DEF Sum
    <3> QED
      BY <3>2, FS_EmptySet
  <2>3. PICK k \in D : TRUE
    BY <2>2
  <2>4. n \in Nat /\ Cardinality(D \ {k}) = n - 1 /\ D \ {k} \in SUBSET Key
    BY SmallerSet
  <2>5. PICK s : Upto(s, n - 1)
    BY <2>1, <2>3, <2>4
  <2> DEFINE r == [E \in SUBSET Key |-> Sum(d, s, E)]
  <2>6. Upto(r, n)
    <3> SUFFICES ASSUME NEW E \in SUBSET Key, Cardinality(E) <= n
                 PROVE  Sum(d, s, E) = Sum(d, r, E)
      OBVIOUS
    <3>1. CASE E = {}
      BY <3>1 DEF Sum
    <3>2. CASE E # {}
      <4> DEFINE c == Some(E)
      <4>1. c \in E
        BY <3>2, SomeIn
      <4>2. E \ {c} \in SUBSET Key /\ Cardinality(E \ {c}) <= n - 1
        BY <4>1, <2>4, SmallerSet
      <4>3. s[E \ {c}] = Sum(d, s, E \ {c})
        BY <2>5, <4>2
      <4>4. r[E \ {c}] = Sum(d, s, E \ {c})
        BY <4>2
      <4> QED
        BY <4>3, <4>4 DEF Sum
    <3> QED
      BY <3>1, <3>2
  <2> QED
    BY <2>1, <2>6
<1>2. PICK s : Upto(s, Cardinality(Key))
  BY <1>1
<1> DEFINE r == [E \in SUBSET Key |-> Sum(d, s, E)]
<1>3. \A D \in SUBSET Key : s[D] = Sum(d, s, D)
  BY <1>2, FilesAssumption, FS_Subset
<1>4. \A E \in SUBSET Key : Sum(d, s, E) = Sum(d, r, E)
  <2> SUFFICES ASSUME NEW E \in SUBSET Key PROVE Sum(d, s, E) = Sum(d, r, E)
    OBVIOUS
  <2>1. r[E \ {Some(E)}] = s[E \ {Some(E)}]
    BY <1>3
  <2> QED
    BY <2>1 DEF Sum
<1>5. IsSum(d, r)
  BY <1>4 DEF IsSum
<1> QED
  BY <1>5

LEMMA BytesSum == IsSum(data, Bytes)
<1>1. \E s : IsSum(data, s)
  BY SumExists
<1>2. Bytes = CHOOSE s : IsSum(data, s)
  BY DEF Bytes, IsSum, Sum, Some
<1> QED
  BY <1>1, <1>2

LEMMA SumOf ==
    ASSUME NEW d, NEW s, IsSum(d, s), NEW D \in SUBSET Key
    PROVE  s[D] = Sum(d, s, D)
BY DEF IsSum

(* Any element may come first. *)
Split(d, s, D) == \A k \in D : s[D] = d[k].size + s[D \ {k}]

LEMMA SumSplits ==
    ASSUME NEW d, NEW s, IsSum(d, s), NEW D \in SUBSET Key,
           \A k \in D : d[k].size \in Nat
    PROVE  s[D] \in Nat /\ Split(d, s, D)
<1> DEFINE B == {E \in SUBSET D : ~(s[E] \in Nat /\ Split(d, s, E))}
<1> SUFFICES ASSUME B # {} PROVE FALSE
  OBVIOUS
<1>1. B \subseteq SUBSET D /\ IsFiniteSet(D)
  BY SmallerSet, FilesAssumption, FS_Subset
<1>2. PICK E \in B : \A F \in B : ~(F \subseteq E /\ F # E)
  <2> HIDE DEF B
  <2> QED
    BY <1>1, SmallestOf
<1>3. E \in SUBSET D /\ E \in SUBSET Key
  OBVIOUS
<1>4. ASSUME NEW k \in E PROVE s[E \ {k}] \in Nat /\ Split(d, s, E \ {k})
  BY <1>2
<1>7. s[E] = Sum(d, s, E) /\ ~(s[E] \in Nat /\ Split(d, s, E))
  BY <1>3, SumOf
<1>5. CASE E = {}
  <2>1. Split(d, s, E)
    BY <1>5 DEF Split
  <2>2. s[E] = 0
    BY <1>5, <1>7 DEF Sum
  <2> QED
    BY <1>7, <2>1, <2>2
<1>6. CASE E # {}
  <2> DEFINE c == Some(E)
  <2>1. c \in E /\ s[E] = d[c].size + s[E \ {c}]
    BY <1>6, <1>7, SomeIn DEF Sum
  <2> HIDE DEF c
  <2>2. s[E] \in Nat
    BY <1>4, <2>1
  <2>3. ASSUME NEW k \in E, k # c PROVE s[E] = d[k].size + s[E \ {k}]
    <3>1. s[E \ {c}] = d[k].size + s[(E \ {c}) \ {k}]
      BY <1>4, <2>1, <2>3 DEF Split
    <3>2. s[E \ {k}] = d[c].size + s[(E \ {k}) \ {c}]
      BY <1>4, <2>1, <2>3 DEF Split
    <3>3. (E \ {c}) \ {k} = (E \ {k}) \ {c}
      OBVIOUS
    <3> DEFINE a == d[k].size
               b == d[c].size
               x == s[(E \ {k}) \ {c}]
    <3>4. a \in Nat /\ b \in Nat /\ s[E \ {k}] \in Nat /\ s[E \ {c}] \in Nat
      BY <1>4, <2>1
    <3>5. x \in Nat
      <4>1. E \ {k} \in SUBSET D /\ c \in E \ {k}
        BY <2>1, <2>3
      <4>2. (E \ {k}) \ {c} \notin B
        BY <1>2, <4>1, <2>1
      <4> QED
        BY <4>1, <4>2
    <3> HIDE DEF a, b, x
    <3>6. s[E] = b + (a + x) /\ s[E \ {k}] = b + x
      BY <2>1, <3>1, <3>2, <3>3 DEF a, b, x
    <3> QED
      BY <3>4, <3>5, <3>6 DEF a
  <2>4. Split(d, s, E)
    BY <2>1, <2>3 DEF Split
  <2> QED
    BY <1>7, <2>2, <2>4
<1> QED
  BY <1>5, <1>6

(* A sum is of the sizes alone. *)
LEMMA SameSum ==
    ASSUME NEW d, NEW s, IsSum(d, s), NEW e, NEW r, IsSum(e, r), NEW D \in SUBSET Key,
           \A k \in D : d[k].size = e[k].size
    PROVE  s[D] = r[D]
<1> DEFINE B == {E \in SUBSET D : s[E] # r[E]}
<1> SUFFICES ASSUME B # {} PROVE FALSE
  OBVIOUS
<1>1. B \subseteq SUBSET D /\ IsFiniteSet(D)
  BY SmallerSet, FilesAssumption, FS_Subset
<1>2. PICK E \in B : \A F \in B : ~(F \subseteq E /\ F # E)
  <2> HIDE DEF B
  <2> QED
    BY <1>1, SmallestOf
<1>3. s[E] = Sum(d, s, E) /\ r[E] = Sum(e, r, E)
  BY SumOf
<1>4. CASE E = {}
  BY <1>3, <1>4 DEF Sum
<1>5. CASE E # {}
  <2> DEFINE c == Some(E)
  <2>1. c \in E
    BY <1>5, SomeIn
  <2>2. s[E \ {c}] = r[E \ {c}]
    BY <1>2, <2>1
  <2> QED
    BY <1>3, <1>5, <2>1, <2>2 DEF Sum
<1> QED
  BY <1>4, <1>5
-----------------------------------------------------------------------------
(***************************************************************************)
(* What every variable holds, for any number of tasks.                     *)
(***************************************************************************)
SetPoints == {"listBins", "statBins", "listMetas", "readEntry", "evict",
              "openData", "writeData", "openMeta", "writeMeta"}

InSet(f) == f.at \in SetPoints \/ (f.at \in Removal /\ f.then = "evict")

(* A call of set has its arguments, and a removal a key. *)
Shape(f) ==
    /\ f \in Frame
    /\ InSet(f) => f.key \in Key /\ f.val \in Val /\ f.ttl \in TTL
    /\ ~InSet(f) => f.val = NoVal
    /\ f.at \in Removal => f.out \in Key /\ f.then \in {"idle", "evict", "sweep"}
    /\ f.at \notin Removal => f.out = NoKey
    /\ f.at \in {"readMeta", "readData"} => f.key \in Key
    /\ f.at = "idle" => f = Idle

Typed == TypeOK /\ \A u \in Task : Shape(task[u])

Params(f, g) == g.key = f.key /\ g.val = f.val /\ g.ttl = f.ttl

(* The variables but the frames and the values meant. *)
Still == UNCHANGED <<files, now, hurt, crashed>>

LEMMA IdleShape ==
    /\ Shape(Idle) /\ Idle.at = "idle" /\ Idle.out = NoKey /\ Idle.todo = {}
    /\ Idle.val = NoVal /\ Idle.key = NoKey /\ ~InSet(Idle)
<1>1. Idle \in Frame
  BY DEF Idle, Frame, Points
<1> QED
  BY <1>1 DEF Shape, Idle, InSet, SetPoints, Removal

LEMMA TaskShape ==
    ASSUME Typed, NEW t \in Task
    PROVE  Shape(task[t]) /\ task[t] \in Frame
BY DEF Typed, Shape

LEMMA IdleTask ==
    ASSUME Typed, NEW t \in Task, task[t].at = "idle"
    PROVE  task[t] = Idle
BY TaskShape DEF Shape

(* One task moves on. *)
LEMMA GoTyped ==
    ASSUME Typed, NEW t \in Task, NEW f, Shape(f), Go(t, f)
    PROVE  /\ task' \in [Task -> Frame] /\ task'[t] = f
           /\ \A u \in Task : Shape(task'[u])
BY DEF Typed, TypeOK, Shape, Go

LEMMA StillTyped ==
    ASSUME Typed, NEW t \in Task, NEW f, Shape(f), Go(t, f), Still,
           meant' \in [Key -> Val \cup {NoVal}]
    PROVE  Typed'
<1>1. /\ task' \in [Task -> Frame]
      /\ \A u \in Task : Shape(task'[u])
  BY GoTyped
<1> QED
  BY <1>1 DEF Typed, TypeOK, Still, files

(* Frames that are made from a frame. *)
LEMMA RemovingShape ==
    ASSUME NEW f \in Frame, NEW k \in Key, NEW then \in {"idle", "evict", "sweep"},
           then = "evict" => f.key \in Key /\ f.val \in Val /\ f.ttl \in TTL,
           then # "evict" => f.val = NoVal
    PROVE  LET g == Removing(f, k, then) IN
           /\ Shape(g) /\ Params(f, g) /\ g.at = "removeData" /\ g.out = k /\ g.then = then
           /\ g.todo = f.todo /\ g.found = f.found /\ g.current = f.current
<1> DEFINE g == Removing(f, k, then)
<1>1. g \in Frame
  BY DEF Removing, Frame, Points
<1>2. /\ Params(f, g) /\ g.at = "removeData" /\ g.out = k /\ g.then = then
      /\ g.todo = f.todo /\ g.found = f.found /\ g.current = f.current
  BY DEF Removing, Frame, Params
<1> HIDE DEF g
<1>3. InSet(g) <=> then = "evict"
  BY <1>2 DEF InSet, SetPoints, Removal
<1>4. Shape(g)
  BY <1>1, <1>2, <1>3 DEF Shape, Params, Removal
<1> QED
  BY <1>2, <1>4 DEF g

(* The frames of the calls that do not set. *)
LEMMA QuietShape ==
    ASSUME NEW g \in Frame, g.at \in {"readMeta", "readData", "listSweep", "sweep", "rmtree"},
           g.val = NoVal, g.out = NoKey, g.at \in {"readMeta", "readData"} => g.key \in Key
    PROVE  Shape(g) /\ ~InSet(g)
BY DEF Shape, InSet, SetPoints, Removal

(* The frames of a set that removes nothing. *)
LEMMA SetShape ==
    ASSUME NEW f, InSet(f), Shape(f), NEW g \in Frame, Params(f, g), g.at \in SetPoints,
           g.out = NoKey
    PROVE  Shape(g) /\ InSet(g)
BY DEF Shape, InSet, Params, SetPoints, Removal
-----------------------------------------------------------------------------
(* The files, in a state of the right types. *)
LEMMA FilesTyped ==
    ASSUME Typed
    PROVE  /\ Bins \subseteq Key /\ Metas \subseteq Key /\ now \in Nat
           /\ \A k \in Bins : data[k] \in DataFile /\ data[k].size \in Nat
           /\ \A k \in Metas : meta[k] \in MetaFile
           /\ \A k \in Key : Noted(k) => /\ meta[k].note \in Note /\ EntryOf(k) \in Entry
                                         /\ k \in Metas /\ EntryOf(k).key = k
                                         /\ EntryOf(k).size = meta[k].note.size
                                         /\ EntryOf(k).created = meta[k].note.created
<1>1. /\ Bins \subseteq Key /\ Metas \subseteq Key /\ now \in Nat
      /\ \A k \in Bins : data[k] \in DataFile
      /\ \A k \in Metas : meta[k] \in MetaFile
  BY FilesAssumption DEF Typed, TypeOK, Bins, Metas
<1>2. \A k \in Bins : data[k].size \in Nat
  BY <1>1 DEF DataFile
<1>3. ASSUME NEW k \in Key, Noted(k)
      PROVE  /\ meta[k].note \in Note /\ EntryOf(k) \in Entry
             /\ k \in Metas /\ EntryOf(k).key = k
             /\ EntryOf(k).size = meta[k].note.size
             /\ EntryOf(k).created = meta[k].note.created
  <2>1. meta[k].note \in Note /\ k \in Metas
    BY <1>1, <1>3 DEF Noted, MetaFile
  <2> QED
    BY <2>1 DEF EntryOf, Entry, Note
<1> QED
  BY <1>1, <1>2, <1>3

LEMMA BytesNat ==
    ASSUME Typed, NEW D \in SUBSET Bins
    PROVE  Bytes[D] \in Nat
<1>1. D \in SUBSET Key /\ \A k \in D : data[k].size \in Nat
  BY FilesTyped
<1> QED
  BY <1>1, BytesSum, SumSplits
-----------------------------------------------------------------------------
(***************************************************************************)
(* What the steps of a call do, but for set.                               *)
(***************************************************************************)
Quiet == {"idle", "readMeta", "readData", "listSweep", "sweep"}

(* Steps that read, in calls that do not set. *)
Reads(t) ==
    /\ task[t].at \in Quiet /\ task'[t].at \in Quiet
    /\ Still /\ UNCHANGED meant

(* The removal of a key begins, of a value that is given up. *)
Gives(t) ==
    /\ task[t].at \in Quiet /\ task'[t].at = "removeData" /\ task'[t].out \in Key
    /\ task'[t].then \in {"idle", "sweep"} /\ Still
    /\ meant' = [meant EXCEPT ![task'[t].out] = NoVal]
    /\ task'[t].key = NoKey /\ Noted(task'[t].out) => Expired(task'[t].out)

LEMMA ReadStep ==
    ASSUME Typed, NEW t \in Task, NEW p, NEW f, Shape(f), Step(t, p, f), p \in Quiet, f.at \in Quiet
    PROVE  Typed' /\ task'[t] = f /\ Reads(t)
<1>1. Go(t, f) /\ Still /\ UNCHANGED meant /\ task[t].at = p
  BY DEF Step, Still, At
<1>2. meant' \in [Key -> Val \cup {NoVal}]
  BY <1>1 DEF Typed, TypeOK
<1>3. Typed'
  BY <1>1, <1>2, StillTyped
<1>4. task'[t] = f
  BY <1>1, GoTyped
<1> QED
  BY <1>1, <1>3, <1>4 DEF Reads

LEMMA GiveStep ==
    ASSUME Typed, NEW t \in Task, NEW p \in Quiet, NEW f \in Frame, f.val = NoVal, NEW k \in Key,
           NEW then \in {"idle", "sweep"}, Forget(t, p, Removing(f, k, then), k),
           f.key = NoKey => Expired(k)
    PROVE  Typed' /\ Gives(t)
<1> DEFINE g == Removing(f, k, then)
<1>1. /\ Go(t, g) /\ Still /\ meant' = [meant EXCEPT ![k] = NoVal] /\ task[t].at = p
  BY DEF Forget, Still, At
<1>2. Shape(g) /\ Params(f, g) /\ g.at = "removeData" /\ g.out = k /\ g.then = then
  BY RemovingShape
<1> HIDE DEF g
<1>3. meant' \in [Key -> Val \cup {NoVal}]
  BY <1>1 DEF Typed, TypeOK
<1>4. Typed'
  BY <1>1, <1>2, <1>3, StillTyped
<1>5. task'[t] = g
  BY <1>1, <1>2, GoTyped
<1> QED
  BY <1>1, <1>2, <1>4, <1>5 DEF Gives, Params

LEMMA GetDoes ==
    ASSUME Typed, NEW t \in Task, NEW k \in Key, Get(t, k)
    PROVE  Typed' /\ Reads(t)
<1> DEFINE g == [Idle EXCEPT !.at = "readMeta", !.key = k]
<1>1. g \in Frame
  BY IdleShape DEF Shape, Frame, Points
<1>2. g.at = "readMeta" /\ g.key = k /\ g.val = NoVal /\ g.out = NoKey
  BY DEF Idle
<1>3. Step(t, "idle", g)
  BY DEF Get
<1> HIDE DEF g
<1>4. Shape(g)
  BY <1>1, <1>2, QuietShape
<1> QED
  BY <1>2, <1>3, <1>4, ReadStep DEF Quiet

LEMMA DeleteDoes ==
    ASSUME Typed, NEW t \in Task, NEW k \in Key, Delete(t, k)
    PROVE  Typed' /\ Gives(t)
<1> DEFINE f == [Idle EXCEPT !.key = k]
<1>1. Forget(t, "idle", Removing(f, k, "idle"), k)
  BY DEF Delete
<1>2. f \in Frame
  BY IdleShape DEF Shape, Frame
<1>3. f.val = NoVal /\ f.key = k /\ k # NoKey
  BY FilesAssumption DEF Idle
<1> HIDE DEF f
<1> QED
  BY <1>1, <1>2, <1>3, GiveStep DEF Quiet

LEMMA ReadMetaDoes ==
    ASSUME Typed, NEW t \in Task, ReadMeta(t)
    PROVE  Typed' /\ (Reads(t) \/ Gives(t))
<1> DEFINE f == task[t]
           k == f.key
           g == [f EXCEPT !.at = "readData"]
<1>1. Shape(f) /\ f \in Frame /\ f.at = "readMeta" /\ k \in Key /\ f.val = NoVal
      /\ k # NoKey /\ f.out = NoKey
  <2>1. Shape(f) /\ f \in Frame /\ f.at = "readMeta"
    BY TaskShape DEF ReadMeta, Forget, Step, At
  <2> QED
    BY <2>1, FilesAssumption DEF Shape, InSet, SetPoints, Removal
<1> HIDE DEF f
<1>2. CASE Forget(t, "readMeta", Removing(f, k, "idle"), k)
  BY <1>1, <1>2, GiveStep DEF Quiet
<1>3. CASE Step(t, "readMeta", Idle)
  BY <1>3, ReadStep, IdleShape DEF Quiet
<1>4. CASE Step(t, "readMeta", g)
  <2>1. g \in Frame
    BY <1>1 DEF Frame, Points
  <2>2. g.at = "readData" /\ g.key = k /\ g.val = NoVal /\ g.out = NoKey
    BY <1>1 DEF Frame
  <2> HIDE DEF g
  <2>3. Shape(g)
    BY <1>1, <2>1, <2>2, QuietShape
  <2> QED
    BY <1>4, <2>2, <2>3, ReadStep DEF Quiet
<1> QED
  BY <1>2, <1>3, <1>4 DEF ReadMeta, f

LEMMA ReadDataDoes ==
    ASSUME Typed, NEW t \in Task, ReadData(t)
    PROVE  Typed' /\ Reads(t)
BY ReadStep, IdleShape DEF ReadData, Quiet

LEMMA SweepDoes ==
    ASSUME Typed, NEW t \in Task, Sweep(t)
    PROVE  Typed' /\ Reads(t)
<1> DEFINE g == [Idle EXCEPT !.at = "listSweep"]
<1>1. g \in Frame
  BY IdleShape DEF Shape, Frame, Points
<1>2. g.at = "listSweep" /\ g.val = NoVal /\ g.out = NoKey
  BY DEF Idle
<1>3. Step(t, "idle", g)
  BY DEF Sweep
<1> HIDE DEF g
<1>4. Shape(g)
  BY <1>1, <1>2, QuietShape
<1> QED
  BY <1>2, <1>3, <1>4, ReadStep DEF Quiet

LEMMA ListSweepDoes ==
    ASSUME Typed, NEW t \in Task, ListSweep(t)
    PROVE  Typed' /\ Reads(t)
<1> DEFINE f == task[t]
           g == [f EXCEPT !.at = "sweep", !.todo = Metas]
<1>1. f \in Frame /\ f.val = NoVal /\ f.out = NoKey
  <2>1. Shape(f) /\ f \in Frame /\ f.at = "listSweep"
    BY TaskShape DEF ListSweep, Step, At
  <2> QED
    BY <2>1 DEF Shape, InSet, SetPoints, Removal
<1>2. Step(t, "listSweep", Idle) \/ Step(t, "listSweep", g)
  BY DEF ListSweep
<1> HIDE DEF f
<1>3. CASE Step(t, "listSweep", Idle)
  BY <1>3, ReadStep, IdleShape DEF Quiet
<1>4. CASE Step(t, "listSweep", g)
  <2>1. Metas \in SUBSET Key
    BY FilesTyped
  <2>2. g \in Frame
    BY <1>1, <2>1 DEF Frame, Points
  <2>3. g.at = "sweep" /\ g.val = NoVal /\ g.out = NoKey
    BY <1>1 DEF Frame
  <2> HIDE DEF g
  <2>4. Shape(g)
    BY <2>2, <2>3, QuietShape
  <2> QED
    BY <1>4, <2>3, <2>4, ReadStep DEF Quiet
<1> QED
  BY <1>2, <1>3, <1>4

LEMMA SweepEntryDoes ==
    ASSUME Typed, NEW t \in Task, SweepEntry(t)
    PROVE  Typed' /\ (Reads(t) \/ Gives(t))
<1> DEFINE f == task[t]
<1>1. f \in Frame /\ f.at = "sweep" /\ f.val = NoVal /\ f.out = NoKey
  <2>1. Shape(f) /\ f \in Frame /\ f.at = "sweep"
    BY TaskShape DEF SweepEntry, Forget, Step, At
  <2> QED
    BY <2>1 DEF Shape, InSet, SetPoints, Removal
<1>2. PICK k \in f.todo :
         IF Expired(k) THEN Forget(t, "sweep", Removing(Left(t, k), k, After(t, k)), k)
         ELSE Step(t, "sweep", IF After(t, k) = "idle" THEN Idle ELSE Left(t, k))
  BY DEF SweepEntry
<1>3. k \in Key
  BY <1>1, <1>2 DEF Frame
<1> DEFINE g == Left(t, k)
           a == After(t, k)
<1>4. g \in Frame
  BY <1>1 DEF Left, Frame
<1>5. g.at = "sweep" /\ g.val = NoVal /\ g.out = NoKey
  BY <1>1 DEF Left, Frame
<1>6. a \in {"idle", "sweep"}
  BY DEF After
<1>7. \/ Expired(k) /\ Forget(t, "sweep", Removing(g, k, a), k)
      \/ Step(t, "sweep", Idle) \/ Step(t, "sweep", g)
  BY <1>2
<1> HIDE DEF g, a, f
<1>8. Shape(g)
  BY <1>4, <1>5, QuietShape
<1>9. CASE Expired(k) /\ Forget(t, "sweep", Removing(g, k, a), k)
  BY <1>3, <1>4, <1>5, <1>6, <1>9, GiveStep DEF Quiet
<1>10. CASE Step(t, "sweep", Idle)
  BY <1>10, ReadStep, IdleShape DEF Quiet
<1>11. CASE Step(t, "sweep", g)
  BY <1>5, <1>8, <1>11, ReadStep DEF Quiet
<1> QED
  BY <1>7, <1>9, <1>10, <1>11
-----------------------------------------------------------------------------
(* Removing files, in a call that sets as in one that does not. *)
LEMMA FrameTyped ==
    ASSUME Typed, NEW t \in Task, NEW f, Shape(f), Go(t, f),
           data' \in [Key -> DataFile \cup {NoFile}],
           meta' \in [Key -> MetaFile \cup {NoFile}],
           dirs' \subseteq Key, hurt' \subseteq Key, UNCHANGED <<now, crashed, meant>>
    PROVE  Typed' /\ task'[t] = f
<1>1. /\ task' \in [Task -> Frame] /\ task'[t] = f
      /\ \A u \in Task : Shape(task'[u])
  BY GoTyped
<1> QED
  BY <1>1 DEF Typed, TypeOK

LEMMA RemoveDataDoes ==
    ASSUME Typed, NEW t \in Task, RemoveData(t)
    PROVE  LET f == task[t]
               g == task'[t]
           IN  /\ Typed' /\ Shape(f) /\ f.at = "removeData" /\ g.at = "removeMeta"
               /\ Params(f, g) /\ g.out = f.out /\ g.then = f.then
               /\ g.todo = f.todo /\ g.found = f.found /\ g.current = f.current
               /\ f.out \in Key /\ data' = [data EXCEPT ![f.out] = NoFile]
               /\ UNCHANGED <<meta, dirs, now, meant, hurt, crashed>>
<1> DEFINE f == task[t]
           g == [f EXCEPT !.at = "removeMeta"]
<1>1. Shape(f) /\ f \in Frame /\ f.at = "removeData" /\ f.out \in Key
  <2>1. Shape(f) /\ f \in Frame /\ f.at = "removeData"
    BY TaskShape DEF RemoveData, At
  <2> QED
    BY <2>1 DEF Shape, Removal
<1>2. /\ Go(t, g) /\ data' = [data EXCEPT ![f.out] = NoFile]
      /\ UNCHANGED <<meta, dirs, now, meant, hurt, crashed>>
  BY DEF RemoveData
<1> HIDE DEF f
<1>3. g \in Frame
  BY <1>1 DEF Frame, Points
<1>4. /\ g.at = "removeMeta" /\ Params(f, g) /\ g.out = f.out /\ g.then = f.then
      /\ g.todo = f.todo /\ g.found = f.found /\ g.current = f.current
  BY <1>1 DEF Frame, Params
<1> HIDE DEF g
<1>5. Shape(g)
  BY <1>1, <1>3, <1>4 DEF Shape, InSet, SetPoints, Removal, Params
<1>6. data' \in [Key -> DataFile \cup {NoFile}] /\ meta' \in [Key -> MetaFile \cup {NoFile}]
      /\ dirs' \subseteq Key /\ hurt' \subseteq Key
  BY <1>1, <1>2 DEF Typed, TypeOK
<1>7. Typed' /\ task'[t] = g
  BY <1>2, <1>5, <1>6, FrameTyped
<1> QED
  BY <1>1, <1>2, <1>4, <1>7 DEF f

LEMMA RemoveMetaDoes ==
    ASSUME Typed, NEW t \in Task, RemoveMeta(t)
    PROVE  LET f == task[t]
               g == task'[t]
           IN  /\ Typed' /\ Shape(f) /\ f.at = "removeMeta" /\ f.out \in Key
               /\ \/ f.then = "idle" /\ g = Idle
                  \/ /\ f.then \in {"evict", "sweep"} /\ g.at = f.then
                     /\ Params(f, g) /\ g.out = NoKey
                     /\ g.todo = f.todo /\ g.found = f.found /\ g.current = f.current
               /\ meta' = [meta EXCEPT ![f.out] = NoFile] /\ hurt' = hurt \ {f.out}
               /\ UNCHANGED <<data, dirs, now, meant, crashed>>
<1> DEFINE f == task[t]
           g == Removed(f)
<1>1. Shape(f) /\ f \in Frame /\ f.at = "removeMeta" /\ f.out \in Key
      /\ f.then \in {"idle", "evict", "sweep"}
  <2>1. Shape(f) /\ f \in Frame /\ f.at = "removeMeta"
    BY TaskShape DEF RemoveMeta, At
  <2> QED
    BY <2>1 DEF Shape, Removal
<1>2. /\ Go(t, g) /\ meta' = [meta EXCEPT ![f.out] = NoFile] /\ hurt' = hurt \ {f.out}
      /\ UNCHANGED <<data, dirs, now, meant, crashed>>
  BY DEF RemoveMeta
<1> HIDE DEF f
<1>3. /\ Shape(g)
      /\ \/ f.then = "idle" /\ g = Idle
         \/ /\ f.then \in {"evict", "sweep"} /\ g.at = f.then
            /\ Params(f, g) /\ g.out = NoKey
            /\ g.todo = f.todo /\ g.found = f.found /\ g.current = f.current
  <2>1. CASE f.then = "idle"
    BY <2>1, IdleShape DEF Removed
  <2>2. CASE f.then \in {"evict", "sweep"}
    <3> DEFINE h == [f EXCEPT !.at = f.then, !.out = NoKey, !.then = "idle"]
    <3>1. h \in Frame
      BY <1>1 DEF Frame, Points
    <3>2. /\ h.at = f.then /\ Params(f, h) /\ h.out = NoKey
          /\ h.todo = f.todo /\ h.found = f.found /\ h.current = f.current
      BY <1>1 DEF Frame, Params
    <3> HIDE DEF h
    <3>3. Shape(h)
      BY <1>1, <2>2, <3>1, <3>2 DEF Shape, InSet, SetPoints, Removal, Params
    <3>4. g = h
      BY <2>2 DEF Removed, h
    <3> QED
      BY <2>2, <3>2, <3>3, <3>4
  <2> QED
    BY <1>1, <2>1, <2>2
<1> HIDE DEF g
<1>4. data' \in [Key -> DataFile \cup {NoFile}] /\ meta' \in [Key -> MetaFile \cup {NoFile}]
      /\ dirs' \subseteq Key /\ hurt' \subseteq Key
  BY <1>1, <1>2 DEF Typed, TypeOK
<1>5. Typed' /\ task'[t] = g
  BY <1>2, <1>3, <1>4, FrameTyped
<1> QED
  BY <1>1, <1>2, <1>3, <1>5 DEF f

LEMMA FlushDoes ==
    ASSUME Typed, NEW t \in Task, Flush(t)
    PROVE  LET g == task'[t] IN
           /\ Typed' /\ task[t] = Idle /\ Still
           /\ g.at = "rmtree" /\ g.todo = dirs /\ g.val = NoVal /\ g.out = NoKey
           /\ meant' = [k \in Key |-> NoVal]
<1> DEFINE g == [Idle EXCEPT !.at = "rmtree", !.todo = dirs]
<1>1. dirs \in SUBSET Key
  BY DEF Typed, TypeOK
<1>2. g \in Frame
  BY <1>1, IdleShape DEF Shape, Frame, Points
<1>3. g.at = "rmtree" /\ g.todo = dirs /\ g.val = NoVal /\ g.out = NoKey
  BY DEF Idle
<1>4. /\ Go(t, g) /\ Still /\ meant' = [k \in Key |-> NoVal] /\ task[t] = Idle
  BY DEF Flush, Still, Free
<1> HIDE DEF g
<1>5. Shape(g)
  BY <1>2, <1>3, QuietShape
<1>6. Typed'
  BY <1>4, <1>5, StillTyped
<1>7. task'[t] = g
  BY <1>4, <1>5, GoTyped
<1> QED
  BY <1>3, <1>4, <1>6, <1>7

LEMMA RemoveShardDoes ==
    ASSUME Typed, NEW t \in Task, RemoveShard(t)
    PROVE  LET f == task[t]
               g == task'[t]
           IN  /\ Typed' /\ Shape(f) /\ f.at = "rmtree" /\ UNCHANGED <<now, meant, crashed>>
               /\ \E k \in f.todo :
                     /\ data' = [data EXCEPT ![k] = NoFile]
                     /\ meta' = [meta EXCEPT ![k] = NoFile]
                     /\ dirs' = dirs \ {k} /\ hurt' = hurt \ {k} /\ k \in Key
                     /\ \/ f.todo = {k} /\ g = Idle
                        \/ /\ g.at = "rmtree" /\ g.todo = f.todo \ {k}
                           /\ g.val = NoVal /\ g.out = NoKey
<1> DEFINE f == task[t]
<1>1. Shape(f) /\ f \in Frame /\ f.at = "rmtree" /\ f.val = NoVal /\ f.out = NoKey
  <2>1. Shape(f) /\ f \in Frame /\ f.at = "rmtree"
    BY TaskShape DEF RemoveShard, At
  <2> QED
    BY <2>1 DEF Shape, InSet, SetPoints, Removal
<1>2. PICK k \in f.todo :
         /\ data' = [data EXCEPT ![k] = NoFile]
         /\ meta' = [meta EXCEPT ![k] = NoFile]
         /\ dirs' = dirs \ {k} /\ hurt' = hurt \ {k}
         /\ Go(t, IF f.todo = {k} THEN Idle ELSE Left(t, k))
  BY DEF RemoveShard
<1>3. UNCHANGED <<now, meant, crashed>>
  BY DEF RemoveShard
<1> DEFINE h == Left(t, k)
           g == IF f.todo = {k} THEN Idle ELSE h
<1>4. h \in Frame /\ k \in Key
  BY <1>1 DEF Left, Frame
<1>5. h.at = "rmtree" /\ h.todo = f.todo \ {k} /\ h.val = NoVal /\ h.out = NoKey
  BY <1>1 DEF Left, Frame
<1>6. Go(t, g)
  BY <1>2
<1> HIDE DEF f, h
<1>7. Shape(h)
  BY <1>4, <1>5, QuietShape
<1>8. Shape(g)
  BY <1>7, IdleShape
<1>9. data' \in [Key -> DataFile \cup {NoFile}] /\ meta' \in [Key -> MetaFile \cup {NoFile}]
      /\ dirs' \subseteq Key /\ hurt' \subseteq Key
  BY <1>2, <1>4 DEF Typed, TypeOK
<1> HIDE DEF g
<1>10. Typed' /\ task'[t] = g
  BY <1>3, <1>6, <1>8, <1>9, FrameTyped
<1>11. (f.todo = {k} /\ g = Idle) \/ g = h
  BY DEF g
<1> QED
  BY <1>1, <1>2, <1>3, <1>4, <1>5, <1>10, <1>11 DEF f

LEMMA TickDoes ==
    ASSUME Typed, Tick
    PROVE  Typed' /\ now' = now + 1 /\ UNCHANGED <<files, task, meant, hurt, crashed>>
<1>1. now \in 0 .. MaxTime /\ now < MaxTime /\ now' = now + 1 /\ MaxTime \in Nat
      /\ UNCHANGED <<files, task, meant, hurt, crashed>>
  BY FilesAssumption DEF Typed, TypeOK, Tick
<1>2. now' \in 0 .. MaxTime
  BY <1>1
<1> QED
  BY <1>1, <1>2 DEF Typed, TypeOK, files

LEMMA CrashDoes ==
    ASSUME Typed, Crash
    PROVE  /\ Typed' /\ UNCHANGED <<dirs, now, meant>> /\ crashed' = TRUE
           /\ \A t \in Task : task'[t] = Idle
           /\ hurt' = hurt \cup UNION {Changing(t) : t \in Task}
           /\ \A k \in Key : /\ data[k] = NoFile => data'[k] = NoFile
                             /\ data[k] # NoFile => /\ data'[k] # NoFile
                                                    /\ data'[k].val = data[k].val
                                                    /\ data'[k].size = data[k].size
                             /\ meta[k] = NoFile => meta'[k] = NoFile
                             /\ meta[k] # NoFile => /\ meta'[k] # NoFile
                                                    /\ meta'[k].note = meta[k].note
<1>1. /\ UNCHANGED <<dirs, now, meant>> /\ crashed' = TRUE
      /\ task' = [t \in Task |-> Idle]
      /\ hurt' = hurt \cup UNION {Changing(t) : t \in Task}
      /\ data' = [k \in Key |-> IF k \in Bins THEN [data[k] EXCEPT !.by = {}] ELSE NoFile]
      /\ meta' = [k \in Key |-> IF k \in Metas THEN [meta[k] EXCEPT !.by = {}] ELSE NoFile]
  BY DEF Crash
<1>2. ASSUME NEW k \in Bins
      PROVE  /\ data'[k] \in DataFile /\ data'[k] # NoFile
             /\ data'[k].val = data[k].val /\ data'[k].size = data[k].size
  <2>1. data[k] \in DataFile /\ k \in Key
    BY FilesTyped
  <2> DEFINE d == [data[k] EXCEPT !.by = {}]
  <2>2. d \in DataFile /\ d.val = data[k].val /\ d.size = data[k].size
    BY <2>1 DEF DataFile
  <2>3. data'[k] = d
    BY <1>1, <2>1
  <2> QED
    BY <2>2, <2>3, FilesAssumption
<1>3. ASSUME NEW k \in Metas
      PROVE  /\ meta'[k] \in MetaFile /\ meta'[k] # NoFile
             /\ meta'[k].note = meta[k].note
  <2>1. meta[k] \in MetaFile /\ k \in Key
    BY FilesTyped
  <2> DEFINE d == [meta[k] EXCEPT !.by = {}]
  <2>2. d \in MetaFile /\ d.note = meta[k].note
    BY <2>1 DEF MetaFile
  <2>3. meta'[k] = d
    BY <1>1, <2>1
  <2> QED
    BY <2>2, <2>3, FilesAssumption
<1>4. \A k \in Key : /\ data[k] = NoFile => data'[k] = NoFile
                     /\ data[k] # NoFile => k \in Bins
                     /\ meta[k] = NoFile => meta'[k] = NoFile
                     /\ meta[k] # NoFile => k \in Metas
  BY <1>1 DEF Bins, Metas
<1>5. data' \in [Key -> DataFile \cup {NoFile}]
  <2>1. DOMAIN data' = Key /\ data' = [k \in Key |-> data'[k]]
    BY <1>1
  <2> QED
    BY <1>2, <1>4, <2>1
<1>6. meta' \in [Key -> MetaFile \cup {NoFile}]
  <2>1. DOMAIN meta' = Key /\ meta' = [k \in Key |-> meta'[k]]
    BY <1>1
  <2> QED
    BY <1>3, <1>4, <2>1
<1>7. hurt' \subseteq Key
  BY <1>1 DEF Changing, Typed, TypeOK
<1>8. task' \in [Task -> Frame] /\ \A u \in Task : Shape(task'[u])
  BY <1>1, IdleShape DEF Shape
<1>9. Typed'
  BY <1>1, <1>5, <1>6, <1>7, <1>8 DEF Typed, TypeOK
<1> QED
  BY <1>1, <1>2, <1>3, <1>4, <1>9
-----------------------------------------------------------------------------
(***************************************************************************)
(* What the steps of set do.                                               *)
(***************************************************************************)
LEMMA SetterShape ==
    ASSUME Typed, NEW t \in Task, task[t].at \in SetPoints
    PROVE  LET f == task[t] IN
           /\ Shape(f) /\ InSet(f) /\ f \in Frame /\ f.key \in Key /\ f.val \in Val
           /\ f.ttl \in TTL /\ f.out = NoKey /\ Size[f.val] \in Nat /\ Size[f.val] >= 1
<1>1. Shape(task[t]) /\ InSet(task[t]) /\ task[t] \in Frame
  BY TaskShape DEF InSet
<1>2. task[t].at \notin Removal /\ task[t].val \in Val
  BY <1>1 DEF SetPoints, Removal, Shape
<1> QED
  BY <1>1, <1>2, FilesAssumption DEF Shape

(* A step of set that reads. *)
LEMMA SetStep ==
    ASSUME Typed, NEW t \in Task, NEW p, NEW g, Shape(g), Step(t, p, g)
    PROVE  Typed' /\ task'[t] = g /\ Still /\ UNCHANGED meant /\ task[t].at = p
<1>1. Go(t, g) /\ Still /\ UNCHANGED meant /\ task[t].at = p
  BY DEF Step, Still, At
<1>2. meant' \in [Key -> Val \cup {NoVal}]
  BY <1>1 DEF Typed, TypeOK
<1> QED
  BY <1>1, <1>2, StillTyped, GoTyped

LEMMA SetDoes ==
    ASSUME Typed, NEW t \in Task, NEW k \in Key, NEW v \in Val, NEW ttl \in TTL, Set(t, k, v, ttl)
    PROVE  LET g == task'[t] IN
           /\ Typed' /\ task[t] = Idle /\ g.at = "listBins" /\ g.key = k /\ g.val = v
           /\ g.found = {} /\ g.out = NoKey /\ dirs' = dirs \cup {k}
           /\ meant' = [meant EXCEPT ![k] = v] /\ UNCHANGED <<data, meta, now, hurt, crashed>>
<1> DEFINE g == [Idle EXCEPT !.at = "listBins", !.key = k, !.val = v, !.ttl = ttl]
<1>1. /\ Go(t, g) /\ task[t] = Idle /\ dirs' = dirs \cup {k}
      /\ meant' = [meant EXCEPT ![k] = v] /\ UNCHANGED <<data, meta, now, hurt, crashed>>
  BY DEF Set, Free
<1>2. g \in Frame
  BY IdleShape DEF Shape, Frame, Points
<1>3. g.at = "listBins" /\ g.key = k /\ g.val = v /\ g.ttl = ttl /\ g.found = {} /\ g.out = NoKey
  BY DEF Idle
<1> HIDE DEF g
<1>4. Shape(g)
  BY <1>2, <1>3 DEF Shape, InSet, SetPoints, Removal
<1>5. task' \in [Task -> Frame] /\ task'[t] = g /\ \A u \in Task : Shape(task'[u])
  BY <1>1, <1>4, GoTyped
<1>6. dirs' \subseteq Key /\ meant' \in [Key -> Val \cup {NoVal}]
  BY <1>1 DEF Typed, TypeOK
<1>7. Typed'
  BY <1>1, <1>5, <1>6 DEF Typed, TypeOK
<1> QED
  BY <1>1, <1>3, <1>5, <1>7

LEMMA ListBinsDoes ==
    ASSUME Typed, NEW t \in Task, ListBins(t)
    PROVE  LET f == task[t]
               g == task'[t]
           IN  /\ Typed' /\ f.at = "listBins" /\ g.at = "statBins" /\ Params(f, g)
               /\ g.todo = Bins /\ g.found = f.found /\ g.out = NoKey
               /\ Still /\ UNCHANGED meant
<1> DEFINE f == task[t]
           g == [f EXCEPT !.at = "statBins", !.todo = Bins]
<1>1. Step(t, "listBins", g) /\ f.at = "listBins"
  BY DEF ListBins, Step, At
<1>2. /\ Shape(f) /\ InSet(f) /\ f \in Frame /\ f.out = NoKey
  BY <1>1, SetterShape DEF SetPoints
<1>3. Bins \in SUBSET Key
  BY FilesTyped
<1> HIDE DEF f
<1>4. g \in Frame
  BY <1>2, <1>3 DEF Frame, Points
<1>5. g.at = "statBins" /\ Params(f, g) /\ g.todo = Bins /\ g.found = f.found /\ g.out = NoKey
  BY <1>2 DEF Frame, Params
<1> HIDE DEF g
<1>6. Shape(g)
  BY <1>2, <1>4, <1>5, SetShape DEF SetPoints
<1> QED
  BY <1>1, <1>5, <1>6, SetStep DEF f

LEMMA StatBinsDoes ==
    ASSUME Typed, NEW t \in Task, StatBins(t)
    PROVE  LET f == task[t]
               g == task'[t]
           IN  /\ Typed' /\ f.at = "statBins" /\ Still /\ UNCHANGED meant
               /\ \/ ~(f.todo \subseteq Bins) /\ g = Idle
                  \/ /\ f.todo \subseteq Bins /\ Params(f, g) /\ g.out = NoKey
                     /\ g.current = Bytes[f.todo] /\ g.found = f.found
                     /\ \/ Fits(f, Bytes[f.todo]) /\ g.at = "openData"
                        \/ ~Fits(f, Bytes[f.todo]) /\ g.at = "listMetas"
<1> DEFINE f == task[t]
           j == Bytes[f.todo]
           p == IF Fits(f, j) THEN "openData" ELSE "listMetas"
           g == [f EXCEPT !.at = p, !.todo = {}, !.current = j]
<1>1. /\ Step(t, "statBins", IF ~(f.todo \subseteq Bins) THEN Idle ELSE g)
      /\ f.at = "statBins"
  BY DEF StatBins, Step, At
<1>2. /\ Shape(f) /\ InSet(f) /\ f \in Frame /\ f.out = NoKey
  BY <1>1, SetterShape DEF SetPoints
<1>3. CASE ~(f.todo \subseteq Bins)
  <2>1. Step(t, "statBins", Idle)
    BY <1>1, <1>3
  <2> QED
    BY <1>1, <1>3, <2>1, IdleShape, SetStep
<1>4. CASE f.todo \subseteq Bins
  <2>1. j \in Int
    <3>1. j \in Nat
      BY <1>4, BytesNat
    <3> QED
      BY <3>1
  <2>2. p \in {"openData", "listMetas"} /\ (p = "openData" <=> Fits(f, j))
    OBVIOUS
  <2>3. Step(t, "statBins", g)
    BY <1>1, <1>4
  <2> HIDE DEF f, j, p
  <2>4. g \in Frame
    <3>1. p \in Points /\ {} \in SUBSET Key
      BY <2>2 DEF Points
    <3> QED
      BY <1>2, <2>1, <3>1 DEF Frame
  <2>5. g.at = p /\ Params(f, g) /\ g.found = f.found /\ g.out = NoKey /\ g.current = j
    BY <1>2 DEF Frame, Params
  <2> HIDE DEF g
  <2>6. Shape(g)
    BY <1>2, <2>2, <2>4, <2>5, SetShape DEF SetPoints
  <2>7. Typed' /\ task'[t] = g /\ Still /\ UNCHANGED meant
    BY <2>3, <2>6, SetStep
  <2> QED
    BY <1>1, <1>4, <2>2, <2>5, <2>7 DEF f, j
<1> QED
  BY <1>3, <1>4

LEMMA ListMetasDoes ==
    ASSUME Typed, NEW t \in Task, ListMetas(t)
    PROVE  LET f == task[t]
               g == task'[t]
           IN  /\ Typed' /\ f.at = "listMetas" /\ Still /\ UNCHANGED meant
               /\ Params(f, g) /\ g.out = NoKey /\ g.todo = Metas
               /\ g.current = f.current /\ g.found = f.found
               /\ \/ Metas = {} /\ g.at = "evict"
                  \/ Metas # {} /\ g.at = "readEntry"
<1> DEFINE f == task[t]
           p == IF Metas = {} THEN "evict" ELSE "readEntry"
           g == [f EXCEPT !.at = p, !.todo = Metas]
<1>1. Step(t, "listMetas", g) /\ f.at = "listMetas"
  BY DEF ListMetas, Step, At
<1>2. /\ Shape(f) /\ InSet(f) /\ f \in Frame /\ f.out = NoKey
  BY <1>1, SetterShape DEF SetPoints
<1>3. Metas \in SUBSET Key
  BY FilesTyped
<1>4. p \in {"evict", "readEntry"} /\ (p = "evict" <=> Metas = {})
  OBVIOUS
<1> HIDE DEF f, p
<1>5. g \in Frame
  BY <1>2, <1>3, <1>4 DEF Frame, Points
<1>6. /\ g.at = p /\ Params(f, g) /\ g.todo = Metas /\ g.found = f.found /\ g.out = NoKey
      /\ g.current = f.current
  BY <1>2 DEF Frame, Params
<1> HIDE DEF g
<1>7. Shape(g)
  BY <1>2, <1>4, <1>5, <1>6, SetShape DEF SetPoints
<1>8. Typed' /\ task'[t] = g /\ Still /\ UNCHANGED meant
  BY <1>1, <1>7, SetStep
<1> QED
  BY <1>1, <1>4, <1>6, <1>8 DEF f

LEMMA ReadEntryDoes ==
    ASSUME Typed, NEW t \in Task, ReadEntry(t)
    PROVE  LET f == task[t]
               g == task'[t]
           IN  /\ Typed' /\ f.at = "readEntry" /\ Still /\ UNCHANGED meant
               /\ Params(f, g) /\ g.out = NoKey /\ g.current = f.current
               /\ \E k \in f.todo :
                     /\ k \in Key /\ g.todo = f.todo \ {k}
                     /\ g.found = IF Noted(k) THEN f.found \cup {EntryOf(k)} ELSE f.found
                     /\ \/ f.todo = {k} /\ g.at = "evict"
                        \/ f.todo # {k} /\ g.at = "readEntry"
<1> DEFINE f == task[t]
<1>1. PICK k \in f.todo :
         Step(t, "readEntry",
              [f EXCEPT !.at = IF f.todo = {k} THEN "evict" ELSE @,
                        !.todo = @ \ {k},
                        !.found = IF Noted(k) THEN @ \cup {EntryOf(k)} ELSE @])
  BY DEF ReadEntry
<1>2. f.at = "readEntry"
  BY <1>1 DEF Step, At
<1>3. /\ Shape(f) /\ InSet(f) /\ f \in Frame /\ f.out = NoKey
  BY <1>2, SetterShape DEF SetPoints
<1> DEFINE p == IF f.todo = {k} THEN "evict" ELSE "readEntry"
           T == f.todo \ {k}
           E == IF Noted(k) THEN f.found \cup {EntryOf(k)} ELSE f.found
           g == [f EXCEPT !.at = p, !.todo = T, !.found = E]
<1>4. k \in Key /\ T \in SUBSET Key
  BY <1>3 DEF Frame
<1>5. E \in SUBSET Entry
  BY <1>3, <1>4, FilesTyped DEF Frame
<1>6. p \in {"evict", "readEntry"} /\ (p = "evict" <=> f.todo = {k})
  OBVIOUS
<1>7. Step(t, "readEntry", g)
  BY <1>1, <1>2, <1>3 DEF Frame
<1> HIDE DEF f, p, T, E
<1>8. g \in Frame
  BY <1>3, <1>4, <1>5, <1>6 DEF Frame, Points
<1>9. /\ g.at = p /\ Params(f, g) /\ g.todo = T /\ g.found = E /\ g.out = NoKey
      /\ g.current = f.current
  BY <1>3 DEF Frame, Params
<1> HIDE DEF g
<1>10. Shape(g)
  BY <1>3, <1>6, <1>8, <1>9, SetShape DEF SetPoints
<1>11. Typed' /\ task'[t] = g /\ Still /\ UNCHANGED meant
  BY <1>7, <1>10, SetStep
<1>12. \E l \in f.todo :
          /\ l \in Key /\ g.todo = f.todo \ {l}
          /\ g.found = IF Noted(l) THEN f.found \cup {EntryOf(l)} ELSE f.found
          /\ \/ f.todo = {l} /\ g.at = "evict"
             \/ f.todo # {l} /\ g.at = "readEntry"
  <2>1. k \in f.todo
    BY <1>1 DEF f
  <2> QED
    BY <2>1, <1>4, <1>6, <1>9 DEF T, E
<1> QED
  BY <1>2, <1>9, <1>11, <1>12 DEF f
-----------------------------------------------------------------------------
LEMMA EvictDoes ==
    ASSUME Typed, NEW t \in Task, Evict(t)
    PROVE  LET f == task[t]
               g == task'[t]
           IN  /\ Typed' /\ f.at = "evict" /\ Still /\ Params(f, g)
               /\ \/ /\ Fits(f, f.current) \/ f.found = {}
                     /\ g.at = "openData" /\ g.out = NoKey /\ UNCHANGED meant
                  \/ /\ ~Fits(f, f.current)
                     /\ \E e \in Oldest(f.found) :
                           /\ e \in Entry /\ g.at = "removeData" /\ g.then = "evict"
                           /\ g.out = e.key /\ g.found = f.found \ {e}
                           /\ g.current = f.current - e.size
                           /\ meant' = IF e.key = f.key THEN meant
                                       ELSE [meant EXCEPT ![e.key] = NoVal]
<1> DEFINE f == task[t]
           stop == Fits(f, f.current) \/ f.found = {}
           g == [f EXCEPT !.at = "openData", !.found = {}, !.current = 0]
           less(e) == [f EXCEPT !.found = @ \ {e}, !.current = @ - e.size]
<1>1. f.at = "evict"
  BY DEF Evict, At
<1>2. /\ Shape(f) /\ InSet(f) /\ f \in Frame /\ f.out = NoKey /\ f.key \in Key
      /\ f.val \in Val /\ f.ttl \in TTL
  BY <1>1, SetterShape DEF SetPoints
<1>3. CASE stop
  <2>1. Step(t, "evict", g)
    BY <1>3 DEF Evict
  <2> HIDE DEF f
  <2>2. g \in Frame
    <3>1. {} \in SUBSET Entry /\ 0 \in Int /\ "openData" \in Points
      BY DEF Points
    <3> QED
      BY <1>2, <3>1 DEF Frame
  <2>3. g.at = "openData" /\ Params(f, g) /\ g.out = NoKey
    BY <1>2 DEF Frame, Params
  <2> HIDE DEF g
  <2>4. Shape(g)
    BY <1>2, <2>2, <2>3, SetShape DEF SetPoints
  <2>5. Typed' /\ task'[t] = g /\ Still /\ UNCHANGED meant
    BY <2>1, <2>4, SetStep
  <2> QED
    BY <1>1, <1>3, <2>3, <2>5 DEF f
<1>4. CASE ~stop
  <2>1. PICK e \in Oldest(f.found) :
           IF e.key = f.key THEN Step(t, "evict", Removing(less(e), e.key, "evict"))
           ELSE Forget(t, "evict", Removing(less(e), e.key, "evict"), e.key)
    BY <1>4 DEF Evict
  <2> DEFINE l == less(e)
             j == f.current - e.size
             F == f.found \ {e}
             h == Removing(l, e.key, "evict")
  <2>2. e \in Entry /\ e.key \in Key /\ j \in Int /\ F \in SUBSET Entry
    <3>1. e \in Entry /\ f.current \in Int /\ F \in SUBSET Entry
      BY <1>2 DEF Oldest, Frame
    <3>2. e.size \in Int /\ e.key \in Key
      BY <3>1 DEF Entry
    <3> QED
      BY <3>1, <3>2
  <2>3. l = [f EXCEPT !.found = F, !.current = j]
    BY <1>2 DEF Frame
  <2>4. /\ Go(t, h) /\ Still
        /\ meant' = IF e.key = f.key THEN meant ELSE [meant EXCEPT ![e.key] = NoVal]
    BY <2>1 DEF Step, Forget, Still
  <2> HIDE DEF f, j, F, l
  <2>5. l \in Frame
    BY <1>2, <2>2, <2>3 DEF Frame
  <2>6. Params(f, l) /\ l.found = F /\ l.current = j
    BY <1>2, <2>3 DEF Frame, Params
  <2>7. /\ Shape(h) /\ Params(l, h) /\ h.at = "removeData" /\ h.out = e.key /\ h.then = "evict"
        /\ h.found = F /\ h.current = j
    BY <1>2, <2>2, <2>5, <2>6, RemovingShape DEF Params
  <2> HIDE DEF h
  <2>8. meant' \in [Key -> Val \cup {NoVal}]
    BY <2>2, <2>4 DEF Typed, TypeOK
  <2>9. Typed' /\ task'[t] = h
    BY <2>4, <2>7, <2>8, StillTyped, GoTyped
  <2>10. e \in Oldest(f.found)
    BY <2>1 DEF f
  <2> QED
    BY <1>1, <1>4, <2>2, <2>4, <2>6, <2>7, <2>9, <2>10 DEF f, F, j, Params
<1> QED
  BY <1>3, <1>4

LEMMA OpenDataDoes ==
    ASSUME Typed, NEW t \in Task, OpenData(t)
    PROVE  LET f == task[t]
               g == task'[t]
           IN  /\ Typed' /\ f.at = "openData"
               /\ UNCHANGED <<meta, dirs, now, meant, hurt, crashed>>
               /\ \/ f.key \notin dirs /\ g = Idle /\ UNCHANGED data
                  \/ /\ f.key \in dirs /\ g.at = "writeData" /\ Params(f, g) /\ g.out = NoKey
                     /\ \A k \in Key \ {f.key} : data'[k] = data[k]
                     /\ data'[f.key] # NoFile /\ data'[f.key].size = 0
                     /\ t \in data'[f.key].by
<1> DEFINE f == task[t]
           g == [f EXCEPT !.at = "writeData", !.current = 0]
           o == Opened(data[f.key], t, [val |-> Torn, size |-> 0, by |-> {}])
<1>1. f.at = "openData"
  BY DEF OpenData, At
<1>2. /\ Shape(f) /\ InSet(f) /\ f \in Frame /\ f.out = NoKey /\ f.key \in Key
      /\ f.val \in Val /\ f.ttl \in TTL
  BY <1>1, SetterShape DEF SetPoints
<1>3. CASE NoDirectory(t)
  <2>1. Step(t, "openData", Idle) /\ f.key \notin dirs
    BY <1>1, <1>3 DEF NoDirectory
  <2>2. Typed' /\ task'[t] = Idle /\ Still /\ UNCHANGED meant
    BY <2>1, IdleShape, SetStep
  <2> QED
    BY <1>1, <2>1, <2>2 DEF Still, files
<1>4. CASE ~NoDirectory(t)
  <2>1. /\ f.key \in dirs /\ data' = [data EXCEPT ![f.key] = o] /\ Go(t, g)
        /\ UNCHANGED <<meta, dirs, now, meant, hurt, crashed>>
    BY <1>4 DEF OpenData
  <2>2. o \in DataFile /\ o.size = 0 /\ t \in o.by
    <3>1. CASE data[f.key] = NoFile
      BY <3>1 DEF Opened, DataFile
    <3>2. CASE data[f.key] # NoFile
      <4>1. data[f.key] \in DataFile
        BY <1>2, <3>2 DEF Typed, TypeOK
      <4>2. data[f.key].by \cup {t} \in SUBSET Task
        BY <4>1 DEF DataFile
      <4> DEFINE b == data[f.key].by \cup {t}
      <4>3. o = [val |-> Torn, size |-> 0, by |-> b]
        BY <3>2 DEF Opened
      <4> HIDE DEF b, o
      <4> QED
        BY <4>2, <4>3 DEF DataFile, b
    <3> QED
      BY <3>1, <3>2
  <2> HIDE DEF f, o
  <2>3. /\ data' \in [Key -> DataFile \cup {NoFile}] /\ data'[f.key] = o
        /\ \A k \in Key \ {f.key} : data'[k] = data[k]
    BY <1>2, <2>1, <2>2 DEF Typed, TypeOK
  <2>4. g \in Frame
    <3>1. 0 \in Int /\ "writeData" \in Points
      BY DEF Points
    <3> QED
      BY <1>2, <3>1 DEF Frame
  <2>5. g.at = "writeData" /\ Params(f, g) /\ g.out = NoKey
    BY <1>2 DEF Frame, Params
  <2> HIDE DEF g
  <2>6. Shape(g)
    BY <1>2, <2>4, <2>5, SetShape DEF SetPoints
  <2>7. meta' \in [Key -> MetaFile \cup {NoFile}] /\ dirs' \subseteq Key /\ hurt' \subseteq Key
    BY <2>1 DEF Typed, TypeOK
  <2>8. Typed' /\ task'[t] = g
    BY <2>1, <2>3, <2>6, <2>7, FrameTyped
  <2>9. o # NoFile
    BY <2>2, FilesAssumption
  <2> QED
    BY <1>1, <2>1, <2>2, <2>3, <2>5, <2>8, <2>9 DEF f
<1> QED
  BY <1>3, <1>4

LEMMA WriteDataDoes ==
    ASSUME Typed, NEW t \in Task, WriteData(t)
    PROVE  LET f == task[t]
               g == task'[t]
           IN  /\ Typed' /\ f.at = "writeData" /\ g.at = "openMeta" /\ Params(f, g)
               /\ g.out = NoKey /\ UNCHANGED <<meta, dirs, now, meant, hurt, crashed>>
               /\ \A k \in Key \ {f.key} : data'[k] = data[k]
               /\ data[f.key] # NoFile /\ data[f.key].size = 0 /\ t \in data[f.key].by
                  => /\ data'[f.key] # NoFile /\ data'[f.key].val = f.val
                     /\ data'[f.key].size = Size[f.val]
<1> DEFINE f == task[t]
           g == [f EXCEPT !.at = "openMeta", !.created = now]
           d == data[f.key]
           o == WrittenData(d, t, f.val)
<1>1. f.at = "writeData"
  BY DEF WriteData, At
<1>2. /\ Shape(f) /\ InSet(f) /\ f \in Frame /\ f.out = NoKey /\ f.key \in Key
      /\ f.val \in Val /\ f.ttl \in TTL /\ Size[f.val] \in Nat /\ Size[f.val] >= 1
  BY <1>1, SetterShape DEF SetPoints
<1>3. /\ data' = [data EXCEPT ![f.key] = o] /\ Go(t, g)
      /\ UNCHANGED <<meta, dirs, now, meant, hurt, crashed>>
  BY DEF WriteData
<1>4. d \in DataFile \cup {NoFile} /\ now \in Nat
  BY <1>2, FilesTyped DEF Typed, TypeOK
<1> HIDE DEF f, d
<1>5. o \in DataFile \cup {NoFile}
  <2>1. CASE d = NoFile \/ t \notin d.by
    BY <1>4, <2>1 DEF WrittenData
  <2>2. CASE ~(d = NoFile \/ t \notin d.by)
    <3>1. d \in DataFile /\ d.by \ {t} \in SUBSET Task
      BY <1>4, <2>2 DEF DataFile
    <3> DEFINE b == d.by \ {t}
               x == [val |-> f.val, size |-> Size[f.val], by |-> b]
               y == [d EXCEPT !.val = Torn, !.by = b]
    <3>2. o = x \/ o = y
      BY <2>2 DEF WrittenData
    <3> HIDE DEF b, o
    <3>3. x \in DataFile
      BY <1>2, <3>1 DEF DataFile, b
    <3>4. y \in DataFile
      BY <3>1 DEF DataFile, b
    <3> QED
      BY <3>2, <3>3, <3>4
  <2> QED
    BY <2>1, <2>2
<1>6. ASSUME d # NoFile, d.size = 0, t \in d.by
      PROVE  o # NoFile /\ o.val = f.val /\ o.size = Size[f.val]
  <2>1. o = [val |-> f.val, size |-> Size[f.val], by |-> d.by \ {t}]
    BY <1>2, <1>6 DEF WrittenData
  <2>2. d.by \ {t} \in SUBSET Task
    BY <1>4, <1>6 DEF DataFile
  <2> DEFINE b == d.by \ {t}
  <2> HIDE DEF b, o
  <2>3. o \in DataFile
    BY <1>2, <2>1, <2>2 DEF DataFile, b
  <2> QED
    BY <2>1, <2>3, FilesAssumption
<1> HIDE DEF o
<1>7. /\ data' \in [Key -> DataFile \cup {NoFile}] /\ data'[f.key] = o
      /\ \A k \in Key \ {f.key} : data'[k] = data[k]
  BY <1>2, <1>3, <1>5 DEF Typed, TypeOK
<1>8. g \in Frame
  BY <1>2, <1>4 DEF Frame, Points
<1>9. g.at = "openMeta" /\ Params(f, g) /\ g.out = NoKey
  BY <1>2 DEF Frame, Params
<1> HIDE DEF g
<1>10. Shape(g)
  BY <1>2, <1>8, <1>9, SetShape DEF SetPoints
<1>11. meta' \in [Key -> MetaFile \cup {NoFile}] /\ dirs' \subseteq Key /\ hurt' \subseteq Key
  BY <1>3 DEF Typed, TypeOK
<1>12. Typed' /\ task'[t] = g
  BY <1>3, <1>7, <1>10, <1>11, FrameTyped
<1> QED
  BY <1>1, <1>3, <1>6, <1>7, <1>9, <1>12 DEF f, d
-----------------------------------------------------------------------------
LEMMA OpenMetaDoes ==
    ASSUME Typed, NEW t \in Task, OpenMeta(t)
    PROVE  LET f == task[t]
               g == task'[t]
           IN  /\ Typed' /\ f.at = "openMeta"
               /\ UNCHANGED <<data, dirs, now, meant, hurt, crashed>>
               /\ \/ f.key \notin dirs /\ g = Idle /\ UNCHANGED meta
                  \/ /\ f.key \in dirs /\ g.at = "writeMeta" /\ Params(f, g) /\ g.out = NoKey
                     /\ \A k \in Key \ {f.key} : meta'[k] = meta[k]
                     /\ meta'[f.key] # NoFile /\ meta'[f.key].note = Blank
                     /\ t \in meta'[f.key].by
<1> DEFINE f == task[t]
           g == [f EXCEPT !.at = "writeMeta"]
           o == Opened(meta[f.key], t, [note |-> Blank, by |-> {}])
<1>1. f.at = "openMeta"
  BY DEF OpenMeta, At
<1>2. /\ Shape(f) /\ InSet(f) /\ f \in Frame /\ f.out = NoKey /\ f.key \in Key
      /\ f.val \in Val /\ f.ttl \in TTL
  BY <1>1, SetterShape DEF SetPoints
<1>3. CASE NoDirectory(t)
  <2>1. Step(t, "openMeta", Idle) /\ f.key \notin dirs
    BY <1>1, <1>3 DEF NoDirectory
  <2>2. Typed' /\ task'[t] = Idle /\ Still /\ UNCHANGED meant
    BY <2>1, IdleShape, SetStep
  <2> QED
    BY <1>1, <2>1, <2>2 DEF Still, files
<1>4. CASE ~NoDirectory(t)
  <2>1. /\ f.key \in dirs /\ meta' = [meta EXCEPT ![f.key] = o] /\ Go(t, g)
        /\ UNCHANGED <<data, dirs, now, meant, hurt, crashed>>
    BY <1>4 DEF OpenMeta
  <2>2. o \in MetaFile /\ o.note = Blank /\ t \in o.by
    <3>1. CASE meta[f.key] = NoFile
      BY <3>1 DEF Opened, MetaFile
    <3>2. CASE meta[f.key] # NoFile
      <4>1. meta[f.key] \in MetaFile
        BY <1>2, <3>2 DEF Typed, TypeOK
      <4> DEFINE b == meta[f.key].by \cup {t}
      <4>2. b \in SUBSET Task
        BY <4>1 DEF MetaFile
      <4>3. o = [note |-> Blank, by |-> b] /\ t \in b
        BY <3>2 DEF Opened
      <4> HIDE DEF b, o
      <4> QED
        BY <4>2, <4>3 DEF MetaFile
    <3> QED
      BY <3>1, <3>2
  <2> HIDE DEF f, o
  <2>3. /\ meta' \in [Key -> MetaFile \cup {NoFile}] /\ meta'[f.key] = o
        /\ \A k \in Key \ {f.key} : meta'[k] = meta[k]
    BY <1>2, <2>1, <2>2 DEF Typed, TypeOK
  <2>4. g \in Frame
    BY <1>2 DEF Frame, Points
  <2>5. g.at = "writeMeta" /\ Params(f, g) /\ g.out = NoKey
    BY <1>2 DEF Frame, Params
  <2> HIDE DEF g
  <2>6. Shape(g)
    BY <1>2, <2>4, <2>5, SetShape DEF SetPoints
  <2>7. data' \in [Key -> DataFile \cup {NoFile}] /\ dirs' \subseteq Key /\ hurt' \subseteq Key
    BY <2>1 DEF Typed, TypeOK
  <2>8. Typed' /\ task'[t] = g
    BY <2>1, <2>3, <2>6, <2>7, FrameTyped
  <2>9. o # NoFile
    BY <2>2, FilesAssumption
  <2> QED
    BY <1>1, <2>1, <2>2, <2>3, <2>5, <2>8, <2>9 DEF f
<1> QED
  BY <1>3, <1>4

LEMMA WriteMetaDoes ==
    ASSUME Typed, NEW t \in Task, WriteMeta(t)
    PROVE  LET f == task[t] IN
           /\ Typed' /\ f.at = "writeMeta" /\ task'[t] = Idle
           /\ hurt' = hurt \ {f.key} /\ UNCHANGED <<data, dirs, now, meant, crashed>>
           /\ \A k \in Key \ {f.key} : meta'[k] = meta[k]
           /\ meta[f.key] # NoFile /\ meta[f.key].note = Blank /\ t \in meta[f.key].by
              => /\ meta'[f.key] # NoFile /\ meta'[f.key].note \in Note
                 /\ meta'[f.key].note.size = Size[f.val]
<1> DEFINE f == task[t]
           m == meta[f.key]
           n == NoteOf(f)
<1>1. f.at = "writeMeta"
  BY DEF WriteMeta, At
<1>2. /\ Shape(f) /\ InSet(f) /\ f \in Frame /\ f.out = NoKey /\ f.key \in Key
      /\ f.val \in Val /\ f.ttl \in TTL /\ Size[f.val] \in Nat
  BY <1>1, SetterShape DEF SetPoints
<1>3. PICK o \in WrittenMeta(m, t, n) : meta' = [meta EXCEPT ![f.key] = o]
  BY DEF WriteMeta
<1>4. Go(t, Idle) /\ hurt' = hurt \ {f.key} /\ UNCHANGED <<data, dirs, now, meant, crashed>>
  BY DEF WriteMeta
<1>5. m \in MetaFile \cup {NoFile}
  BY <1>2 DEF Typed, TypeOK
<1>6. n \in Note /\ n.size = Size[f.val]
  BY <1>2 DEF NoteOf, Note, Frame
<1> HIDE DEF f, m, n
<1>7. o \in MetaFile \cup {NoFile}
  <2>1. CASE m = NoFile \/ t \notin m.by
    BY <1>3, <1>5, <2>1 DEF WrittenMeta
  <2>2. CASE ~(m = NoFile \/ t \notin m.by)
    <3> DEFINE b == m.by \ {t}
    <3>1. b \in SUBSET Task
      BY <1>5, <2>2 DEF MetaFile
    <3>2. PICK x \in {n, Torn} : o = [note |-> x, by |-> b]
      BY <1>3, <2>2 DEF WrittenMeta
    <3> HIDE DEF b
    <3> QED
      BY <1>6, <3>1, <3>2 DEF MetaFile
  <2> QED
    BY <2>1, <2>2
<1>8. ASSUME m # NoFile, m.note = Blank, t \in m.by
      PROVE  o # NoFile /\ o.note = n
  <2>1. o = [note |-> n, by |-> m.by \ {t}]
    BY <1>3, <1>8 DEF WrittenMeta
  <2> DEFINE b == m.by \ {t}
  <2>2. b \in SUBSET Task
    BY <1>5, <1>8 DEF MetaFile
  <2> HIDE DEF b
  <2>3. o \in MetaFile /\ o.note = n
    BY <1>6, <2>1, <2>2 DEF MetaFile, b
  <2> QED
    BY <2>3, FilesAssumption
<1>9. /\ meta' \in [Key -> MetaFile \cup {NoFile}] /\ meta'[f.key] = o
      /\ \A k \in Key \ {f.key} : meta'[k] = meta[k]
  BY <1>2, <1>3, <1>7 DEF Typed, TypeOK
<1>10. data' \in [Key -> DataFile \cup {NoFile}] /\ dirs' \subseteq Key /\ hurt' \subseteq Key
  BY <1>4 DEF Typed, TypeOK
<1>11. Typed' /\ task'[t] = Idle
  BY <1>4, <1>9, <1>10, IdleShape, FrameTyped
<1> QED
  BY <1>1, <1>4, <1>6, <1>8, <1>9, <1>11 DEF f, m

LEMMA NextTyped == Typed /\ [Next]_vars => Typed'
<1> SUFFICES ASSUME Typed, [Next]_vars PROVE Typed'
  OBVIOUS
<1>1. ASSUME NEW t \in Task, Call(t) PROVE Typed'
  BY <1>1, GetDoes, DeleteDoes, SetDoes, SweepDoes, FlushDoes DEF Call
<1>2. ASSUME NEW t \in Task, Storing(t) PROVE Typed'
  <2>1. CASE ListBins(t) \/ StatBins(t) \/ ListMetas(t) \/ ReadEntry(t) \/ Evict(t)
    BY <2>1, ListBinsDoes, StatBinsDoes, ListMetasDoes, ReadEntryDoes, EvictDoes
  <2>2. CASE OpenData(t) \/ WriteData(t) \/ OpenMeta(t) \/ WriteMeta(t)
    BY <2>2, OpenDataDoes, WriteDataDoes, OpenMetaDoes, WriteMetaDoes
  <2> QED
    BY <1>2, <2>1, <2>2 DEF Storing
<1>3. ASSUME NEW t \in Task, Proceed(t) PROVE Typed'
  BY <1>2, <1>3, ReadMetaDoes, ReadDataDoes, RemoveDataDoes, RemoveMetaDoes, ListSweepDoes,
     SweepEntryDoes, RemoveShardDoes DEF Proceed
<1>4. CASE UNCHANGED vars
  BY <1>4 DEF vars, Typed, TypeOK
<1> QED
  BY <1>1, <1>3, <1>4, TickDoes, CrashDoes DEF Next

LEMMA InitTyped == Init => Typed
<1> SUFFICES ASSUME Init PROVE Typed
  OBVIOUS
<1>1. task \in [Task -> Frame] /\ \A u \in Task : Shape(task[u])
  BY IdleShape DEF Init, Shape
<1>2. now \in 0 .. MaxTime
  BY FilesAssumption DEF Init
<1> QED
  BY <1>1, <1>2 DEF Init, Typed, TypeOK

(***************************************************************************)
(* Every variable holds what the code could put there, for any number of   *)
(* tasks that write the same files, and with crashes between any two file  *)
(* operations (local.py 39-166).                                           *)
(***************************************************************************)
THEOREM TypeCorrect == Spec => []TypeOK
<1>1. Init => Typed
  BY InitTyped
<1>2. Typed /\ [Next]_vars => Typed'
  BY NextTyped
<1>3. Typed => TypeOK
  BY DEF Typed
<1> QED
  BY <1>1, <1>2, <1>3, PTL DEF Spec
-----------------------------------------------------------------------------
(***************************************************************************)
(* One task: the files between its steps.                                  *)
(***************************************************************************)
Touched(f) ==
    {k \in Key : \/ k = f.key /\ f.val # NoVal
                 \/ k = f.out
                 \/ k \in f.todo /\ f.at = "rmtree"}

(* What no step is at work on is as it is between calls. *)
Untouched(t) == \A k \in Key \ (hurt \cup Touched(task[t])) : Matching(k)

Written(k, v) == data[k] # NoFile /\ data[k].val = v /\ data[k].size = Size[v]

Underway(t) ==
    LET f == task[t] IN
    /\ InSet(f) => f.key \in dirs /\ meant[f.key] = f.val
    /\ f.at \in Removal /\ ~(InSet(f) /\ f.out = f.key) => meant[f.out] = NoVal
    /\ f.at = "removeMeta" => data[f.out] = NoFile
    /\ f.at = "statBins" => f.todo = Bins
    /\ f.at = "writeData" =>
          data[f.key] # NoFile /\ data[f.key].size = 0 /\ t \in data[f.key].by
    /\ f.at \in {"openMeta", "writeMeta"} => Written(f.key, f.val)
    /\ f.at = "writeMeta" =>
          meta[f.key] # NoFile /\ meta[f.key].note = Blank /\ t \in meta[f.key].by
    /\ f.at = "rmtree" => \A k \in f.todo : meant[k] = NoVal

Files(t) == Typed /\ Untouched(t) /\ Underway(t)

LEMMA TouchedIs ==
    ASSUME NEW f, Shape(f)
    PROVE  /\ f.at \in Quiet => Touched(f) = {}
           /\ f.at \in SetPoints => Touched(f) = {f.key}
           /\ f.at \in Removal => Touched(f) = IF InSet(f) THEN {f.key, f.out} ELSE {f.out}
           /\ f.at = "rmtree" => Touched(f) = f.todo
<1>1. f \in Frame /\ NoKey \notin Key /\ NoVal \notin Val /\ f.todo \subseteq Key
  BY FilesAssumption DEF Shape, Frame
<1>2. CASE f.at \in Quiet
  BY <1>1, <1>2 DEF Touched, Shape, InSet, SetPoints, Removal, Quiet
<1>3. CASE f.at \in SetPoints
  <2>1. f.at \notin Removal /\ f.at # "rmtree" /\ f.at \notin Quiet /\ InSet(f)
    BY <1>3 DEF SetPoints, Removal, Quiet, InSet
  <2>2. f.out = NoKey /\ f.key \in Key /\ f.val # NoVal
    BY <1>1, <2>1 DEF Shape
  <2> QED
    BY <1>1, <1>3, <2>1, <2>2 DEF Touched
<1>4. CASE f.at \in Removal
  <2>1. f.at \notin SetPoints /\ f.at # "rmtree" /\ f.at \notin Quiet /\ f.out \in Key
    BY <1>4 DEF SetPoints, Removal, Quiet, Shape
  <2>2. CASE InSet(f)
    <3>1. f.key \in Key /\ f.val # NoVal
      BY <1>1, <2>2 DEF Shape
    <3> QED
      BY <1>4, <2>1, <2>2, <3>1 DEF Touched
  <2>3. CASE ~InSet(f)
    <3>1. f.val = NoVal
      BY <2>3 DEF Shape
    <3> QED
      BY <1>4, <2>1, <2>3, <3>1 DEF Touched
  <2> QED
    BY <2>2, <2>3
<1>5. CASE f.at = "rmtree"
  <2>1. f.at \notin Removal /\ f.at \notin SetPoints /\ f.at \notin Quiet /\ ~InSet(f)
    BY <1>5 DEF SetPoints, Removal, Quiet, InSet
  <2>2. f.out = NoKey /\ f.val = NoVal
    BY <2>1 DEF Shape
  <2> QED
    BY <1>1, <1>5, <2>1, <2>2 DEF Touched
<1> QED
  BY <1>2, <1>3, <1>4, <1>5

(* The files of k stay, but for who has them open. *)
SameFiles(k) ==
    /\ data[k] = NoFile => data'[k] = NoFile
    /\ data[k] # NoFile => /\ data'[k] # NoFile /\ data'[k].val = data[k].val
                           /\ data'[k].size = data[k].size
    /\ meta[k] = NoFile => meta'[k] = NoFile
    /\ meta[k] # NoFile => meta'[k] # NoFile /\ meta'[k].note = meta[k].note

LEMMA MatchingKept ==
    ASSUME NEW k \in Key, Matching(k), SameFiles(k), k \in dirs => k \in dirs',
           meant'[k] = meant[k]
    PROVE  Matching(k)'
BY DEF Matching, SameFiles, Noted, Bins, Metas

LEMMA TaskAfter ==
    ASSUME NEW t, Task = {t}, Typed'
    PROVE  Shape(task'[t])
BY DEF Typed

LEMMA ReadsKeepFiles ==
    ASSUME NEW t, Task = {t}, Files(t), Typed', Reads(t)
    PROVE  Files(t)'
<1> DEFINE f == task[t]
           g == task'[t]
<1>1. Shape(f) /\ Shape(g) /\ f.at \in Quiet /\ g.at \in Quiet
  BY TaskShape, TaskAfter DEF Reads, Files
<1>2. Touched(f) = {} /\ Touched(g) = {}
  BY <1>1, TouchedIs
<1>3. UNCHANGED <<data, meta, dirs, meant, hurt>>
  BY DEF Reads, Still, files
<1>4. Untouched(t)'
  <2> SUFFICES ASSUME NEW k \in Key, k \notin hurt PROVE Matching(k)'
    BY <1>2, <1>3 DEF Untouched
  <2>1. Matching(k)
    BY <1>2 DEF Files, Untouched
  <2> QED
    BY <1>3, <2>1, MatchingKept DEF SameFiles
<1>5. Underway(t)'
  BY <1>1 DEF Underway, Quiet, InSet, SetPoints, Removal
<1> QED
  BY <1>4, <1>5 DEF Files

LEMMA GivesKeepFiles ==
    ASSUME NEW t, Task = {t}, Files(t), Typed', Gives(t)
    PROVE  Files(t)'
<1> DEFINE f == task[t]
           g == task'[t]
<1>1. Shape(f) /\ Shape(g) /\ f.at \in Quiet /\ g.at = "removeData" /\ g.out \in Key
      /\ g.then \in {"idle", "sweep"} /\ meant' = [meant EXCEPT ![g.out] = NoVal]
  BY TaskShape, TaskAfter DEF Gives, Files
<1>2. ~InSet(g)
  BY <1>1 DEF InSet, SetPoints
<1>3. Touched(f) = {} /\ Touched(g) = {g.out}
  BY <1>1, <1>2, TouchedIs DEF Removal
<1>4. UNCHANGED <<data, meta, dirs, hurt>>
  BY DEF Gives, Still, files
<1>5. meant'[g.out] = NoVal /\ \A k \in Key \ {g.out} : meant'[k] = meant[k]
  BY <1>1 DEF Files, Typed, TypeOK
<1>6. Untouched(t)'
  <2> SUFFICES ASSUME NEW k \in Key \ {g.out}, k \notin hurt PROVE Matching(k)'
    BY <1>3, <1>4 DEF Untouched
  <2>1. Matching(k)
    BY <1>3 DEF Files, Untouched
  <2> QED
    BY <1>4, <1>5, <2>1, MatchingKept DEF SameFiles
<1>7. Underway(t)'
  BY <1>1, <1>2, <1>5 DEF Underway
<1> QED
  BY <1>6, <1>7 DEF Files

LEMMA RemoveDataKeepsFiles ==
    ASSUME NEW t, Task = {t}, Files(t), RemoveData(t)
    PROVE  Files(t)'
<1> DEFINE f == task[t]
           g == task'[t]
<1>1. /\ Typed' /\ Shape(f) /\ f.at = "removeData" /\ g.at = "removeMeta"
      /\ Params(f, g) /\ g.out = f.out /\ g.then = f.then
      /\ f.out \in Key /\ data' = [data EXCEPT ![f.out] = NoFile]
      /\ UNCHANGED <<meta, dirs, now, meant, hurt, crashed>>
  BY RemoveDataDoes DEF Files
<1>2. Shape(g)
  BY <1>1, TaskAfter
<1>3. InSet(g) <=> InSet(f)
  BY <1>1 DEF InSet, SetPoints, Removal
<1>4. Touched(g) = Touched(f) /\ f.out \in Touched(f)
  BY <1>1, <1>2, <1>3, TouchedIs DEF Removal, Params
<1>5. data'[f.out] = NoFile /\ \A k \in Key \ {f.out} : data'[k] = data[k]
  BY <1>1 DEF Files, Typed, TypeOK
<1>6. Untouched(t)'
  <2> SUFFICES ASSUME NEW k \in Key, k \notin hurt, k \notin Touched(f) PROVE Matching(k)'
    BY <1>1, <1>4 DEF Untouched
  <2>1. Matching(k) /\ k # f.out
    BY <1>4 DEF Files, Untouched
  <2> QED
    BY <1>1, <1>5, <2>1, MatchingKept DEF SameFiles
<1>7. Underway(t)'
  BY <1>1, <1>3, <1>5 DEF Files, Underway, Params, Removal
<1> QED
  BY <1>1, <1>6, <1>7 DEF Files

LEMMA RemoveMetaKeepsFiles ==
    ASSUME NEW t, Task = {t}, Files(t), RemoveMeta(t)
    PROVE  Files(t)'
<1> DEFINE f == task[t]
           g == task'[t]
<1>1. /\ Typed' /\ Shape(f) /\ f.at = "removeMeta" /\ f.out \in Key
      /\ \/ f.then = "idle" /\ g = Idle
         \/ /\ f.then \in {"evict", "sweep"} /\ g.at = f.then
            /\ Params(f, g) /\ g.out = NoKey
      /\ meta' = [meta EXCEPT ![f.out] = NoFile] /\ hurt' = hurt \ {f.out}
      /\ UNCHANGED <<data, dirs, now, meant, crashed>>
  BY RemoveMetaDoes DEF Files
<1>2. Shape(g)
  BY <1>1, TaskAfter
<1>3. /\ InSet(f) <=> f.then = "evict"
      /\ InSet(f) => g.at = "evict" /\ InSet(g) /\ g.key = f.key /\ g.val = f.val
      /\ ~InSet(f) => ~InSet(g) /\ g.at \in Quiet
  BY <1>1, IdleShape DEF InSet, SetPoints, Removal, Quiet, Params
<1>4. /\ Touched(f) = IF InSet(f) THEN {f.key, f.out} ELSE {f.out}
      /\ Touched(g) = IF InSet(f) THEN {f.key} ELSE {}
  BY <1>1, <1>2, <1>3, TouchedIs DEF Removal, SetPoints
<1>5. meta'[f.out] = NoFile /\ \A k \in Key \ {f.out} : meta'[k] = meta[k]
  BY <1>1 DEF Files, Typed, TypeOK
<1>6. data[f.out] = NoFile /\ (~(InSet(f) /\ f.out = f.key) => meant[f.out] = NoVal)
  BY <1>1 DEF Files, Underway, Removal
<1>7. Untouched(t)'
  <2> SUFFICES ASSUME NEW k \in Key, k \notin hurt', k \notin Touched(g) PROVE Matching(k)'
    BY DEF Untouched
  <2>1. CASE k = f.out
    <3>1. data'[k] = NoFile /\ meta'[k] = NoFile /\ meant'[k] = NoVal
      BY <1>1, <1>4, <1>5, <1>6, <2>1
    <3> QED
      BY <3>1 DEF Matching, Bins, Metas
  <2>2. CASE k # f.out
    <3>1. Matching(k)
      BY <1>1, <1>4, <2>2 DEF Files, Untouched
    <3> QED
      BY <1>1, <1>5, <2>2, <3>1, MatchingKept DEF SameFiles
  <2> QED
    BY <2>1, <2>2
<1>8. Underway(t)'
  <2>1. InSet(f) => f.key \in dirs /\ meant[f.key] = f.val
    BY DEF Files, Underway
  <2>2. g.at \in {"evict", "idle", "sweep"}
    BY <1>1, IdleShape
  <2> QED
    BY <1>1, <1>3, <2>1, <2>2 DEF Underway, Removal
<1> QED
  BY <1>1, <1>7, <1>8 DEF Files
-----------------------------------------------------------------------------
LEMMA SetKeepsFiles ==
    ASSUME NEW t, Task = {t}, Files(t), NEW k \in Key, NEW v \in Val, NEW ttl \in TTL,
           Set(t, k, v, ttl)
    PROVE  Files(t)'
<1> DEFINE f == task[t]
           g == task'[t]
<1>1. /\ Typed' /\ f = Idle /\ g.at = "listBins" /\ g.key = k /\ g.val = v
      /\ dirs' = dirs \cup {k} /\ meant' = [meant EXCEPT ![k] = v]
      /\ UNCHANGED <<data, meta, hurt>>
  BY SetDoes DEF Files
<1>2. Shape(g) /\ Shape(f)
  BY <1>1, TaskAfter, IdleShape
<1>3. Touched(f) = {} /\ Touched(g) = {k}
  BY <1>1, <1>2, TouchedIs, IdleShape DEF Quiet, SetPoints
<1>4. meant'[k] = v /\ \A l \in Key \ {k} : meant'[l] = meant[l]
  BY <1>1 DEF Files, Typed, TypeOK
<1>5. Untouched(t)'
  <2> SUFFICES ASSUME NEW l \in Key \ {k}, l \notin hurt PROVE Matching(l)'
    BY <1>1, <1>3 DEF Untouched
  <2>1. Matching(l)
    BY <1>3 DEF Files, Untouched
  <2> QED
    BY <1>1, <1>4, <2>1, MatchingKept DEF SameFiles
<1>6. Underway(t)'
  BY <1>1, <1>4 DEF Underway, Removal
<1> QED
  BY <1>1, <1>5, <1>6 DEF Files

(* The steps of set that read. *)
LEMMA SetReadsKeepFiles ==
    ASSUME NEW t, Task = {t}, Files(t), Typed', Still, UNCHANGED meant,
           Params(task[t], task'[t]), task[t].at \in SetPoints,
           task'[t].at \in {"statBins", "listMetas", "readEntry", "evict", "openData"},
           task'[t].at = "statBins" => task'[t].todo = Bins
    PROVE  Files(t)'
<1> DEFINE f == task[t]
           g == task'[t]
<1>1. Shape(f) /\ Shape(g) /\ g.at \in SetPoints
  BY TaskShape, TaskAfter DEF Files, SetPoints
<1>2. Touched(f) = {f.key} /\ Touched(g) = {f.key} /\ InSet(f)
  BY <1>1, TouchedIs DEF Params, InSet
<1>3. UNCHANGED <<data, meta, dirs, hurt>>
  BY DEF Still, files
<1>4. Untouched(t)'
  <2> SUFFICES ASSUME NEW k \in Key, k \notin hurt, k # f.key PROVE Matching(k)'
    BY <1>2, <1>3 DEF Untouched
  <2>1. Matching(k)
    BY <1>2 DEF Files, Untouched
  <2> QED
    BY <1>3, <2>1, MatchingKept DEF SameFiles
<1>5. Bins' = Bins
  BY <1>3 DEF Bins
<1>6. f.key \in dirs /\ meant[f.key] = f.val
  BY <1>2 DEF Files, Underway
<1>7. Underway(t)'
  BY <1>3, <1>5, <1>6 DEF Underway, Removal, Params
<1> QED
  BY <1>4, <1>7 DEF Files

LEMMA ListingKeepsFiles ==
    ASSUME NEW t, Task = {t}, Files(t),
           ListBins(t) \/ StatBins(t) \/ ListMetas(t) \/ ReadEntry(t)
    PROVE  Files(t)'
<1>1. CASE ListBins(t)
  BY <1>1, ListBinsDoes, SetReadsKeepFiles DEF Files, SetPoints
<1>2. CASE StatBins(t)
  <2>1. task[t].todo = Bins
    BY <1>2, StatBinsDoes DEF Files, Underway
  <2> QED
    BY <1>2, <2>1, StatBinsDoes, SetReadsKeepFiles DEF Files, SetPoints
<1>3. CASE ListMetas(t)
  BY <1>3, ListMetasDoes, SetReadsKeepFiles DEF Files, SetPoints
<1>4. CASE ReadEntry(t)
  BY <1>4, ReadEntryDoes, SetReadsKeepFiles DEF Files, SetPoints
<1> QED
  BY <1>1, <1>2, <1>3, <1>4

LEMMA EvictKeepsFiles ==
    ASSUME NEW t, Task = {t}, Files(t), Evict(t)
    PROVE  Files(t)'
<1> DEFINE f == task[t]
           g == task'[t]
<1>1. Typed' /\ f.at = "evict" /\ Still /\ Params(f, g)
  BY EvictDoes DEF Files
<1>2. CASE g.at = "openData" /\ UNCHANGED meant
  BY <1>1, <1>2, SetReadsKeepFiles DEF SetPoints
<1>3. ASSUME NEW e \in Entry, g.at = "removeData", g.then = "evict", g.out = e.key,
             meant' = IF e.key = f.key THEN meant ELSE [meant EXCEPT ![e.key] = NoVal]
      PROVE  Files(t)'
  <2>1. Shape(f) /\ Shape(g) /\ f.at \in SetPoints /\ InSet(f) /\ InSet(g) /\ e.key \in Key
    BY <1>1, <1>3, TaskShape, TaskAfter DEF Files, SetPoints, InSet, Removal, Entry
  <2>2. Touched(f) = {f.key} /\ Touched(g) = {f.key, e.key}
    BY <1>1, <1>3, <2>1, TouchedIs DEF Params, Removal
  <2>3. UNCHANGED <<data, meta, dirs, hurt>>
    BY <1>1 DEF Still, files
  <2>4. /\ \A k \in Key \ {e.key} : meant'[k] = meant[k]
        /\ e.key = f.key => meant' = meant
        /\ e.key # f.key => meant'[e.key] = NoVal
    BY <1>3, <2>1 DEF Files, Typed, TypeOK
  <2>5. Untouched(t)'
    <3> SUFFICES ASSUME NEW k \in Key, k \notin hurt, k # f.key, k # e.key PROVE Matching(k)'
      BY <2>2, <2>3 DEF Untouched
    <3>1. Matching(k)
      BY <2>2 DEF Files, Untouched
    <3> QED
      BY <2>3, <2>4, <3>1, MatchingKept DEF SameFiles
  <2>6. f.key \in dirs /\ meant[f.key] = f.val /\ f.key \in Key
    BY <2>1 DEF Files, Underway, Shape
  <2>7. g.key \in dirs' /\ meant'[g.key] = g.val
    BY <1>1, <2>3, <2>4, <2>6 DEF Params
  <2>8. g.out # g.key => meant'[g.out] = NoVal
    BY <1>1, <1>3, <2>4 DEF Params
  <2>9. Underway(t)'
    BY <1>3, <2>1, <2>7, <2>8 DEF Underway
  <2> QED
    BY <1>1, <2>5, <2>9 DEF Files
<1> QED
  BY <1>2, <1>3, EvictDoes DEF Files

(* The steps of set that change the files of its key. *)
LEMMA WritesKeepUntouched ==
    ASSUME NEW t, Task = {t}, Files(t), Typed', task[t].at \in SetPoints,
           task'[t].at \in SetPoints, Params(task[t], task'[t]),
           \A k \in Key \ {task[t].key} : data'[k] = data[k] /\ meta'[k] = meta[k],
           UNCHANGED <<dirs, meant, hurt>>
    PROVE  /\ Untouched(t)'
           /\ task[t].key \in dirs /\ meant[task[t].key] = task[t].val
<1> DEFINE f == task[t]
           g == task'[t]
<1>1. Shape(f) /\ Shape(g) /\ InSet(f)
  BY TaskShape, TaskAfter DEF Files, InSet
<1>2. Touched(f) = {f.key} /\ Touched(g) = {f.key}
  BY <1>1, TouchedIs DEF Params
<1>3. Untouched(t)'
  <2> SUFFICES ASSUME NEW k \in Key, k \notin hurt, k # f.key PROVE Matching(k)'
    BY <1>2 DEF Untouched
  <2>1. Matching(k)
    BY <1>2 DEF Files, Untouched
  <2> QED
    BY <2>1, MatchingKept DEF SameFiles
<1> QED
  BY <1>1, <1>3 DEF Files, Underway

LEMMA WritingKeepsFiles ==
    ASSUME NEW t, Task = {t}, Files(t), OpenData(t) \/ WriteData(t) \/ OpenMeta(t)
    PROVE  Files(t)'
<1> DEFINE f == task[t]
           g == task'[t]
<1>0. f.at \in SetPoints /\ InSet(f) /\ f.key \in dirs
  BY OpenDataDoes, WriteDataDoes, OpenMetaDoes DEF Files, SetPoints, Underway, InSet
<1>1. CASE OpenData(t)
  <2>1. /\ Typed' /\ UNCHANGED <<meta, dirs, now, meant, hurt, crashed>>
        /\ g.at = "writeData" /\ Params(f, g)
        /\ \A k \in Key \ {f.key} : data'[k] = data[k]
        /\ data'[f.key] # NoFile /\ data'[f.key].size = 0 /\ t \in data'[f.key].by
    BY <1>0, <1>1, OpenDataDoes DEF Files
  <2>2. Untouched(t)' /\ meant[f.key] = f.val
    BY <1>0, <2>1, WritesKeepUntouched DEF SetPoints
  <2>3. Underway(t)'
    BY <1>0, <2>1, <2>2 DEF Underway, Removal, Params
  <2> QED
    BY <2>1, <2>2, <2>3 DEF Files
<1>2. CASE WriteData(t)
  <2>1. /\ Typed' /\ UNCHANGED <<meta, dirs, now, meant, hurt, crashed>>
        /\ f.at = "writeData" /\ g.at = "openMeta" /\ Params(f, g)
        /\ \A k \in Key \ {f.key} : data'[k] = data[k]
    BY <1>2, WriteDataDoes DEF Files
  <2>2. data[f.key] # NoFile /\ data[f.key].size = 0 /\ t \in data[f.key].by
    BY <2>1 DEF Files, Underway
  <2>3. data'[f.key] # NoFile /\ data'[f.key].val = f.val /\ data'[f.key].size = Size[f.val]
    BY <1>2, <2>2, WriteDataDoes DEF Files
  <2>4. Untouched(t)' /\ meant[f.key] = f.val
    BY <1>0, <2>1, WritesKeepUntouched DEF SetPoints
  <2>5. Written(task[t].key, task[t].val)'
    BY <2>1, <2>3 DEF Written, Params
  <2>6. Underway(t)'
    BY <1>0, <2>1, <2>4, <2>5 DEF Underway, Removal, Params
  <2> QED
    BY <2>1, <2>4, <2>6 DEF Files
<1>3. CASE OpenMeta(t)
  <2>1. /\ Typed' /\ UNCHANGED <<data, dirs, now, meant, hurt, crashed>>
        /\ f.at = "openMeta" /\ g.at = "writeMeta" /\ Params(f, g)
        /\ \A k \in Key \ {f.key} : meta'[k] = meta[k]
        /\ meta'[f.key] # NoFile /\ meta'[f.key].note = Blank /\ t \in meta'[f.key].by
    BY <1>0, <1>3, OpenMetaDoes DEF Files
  <2>2. Written(f.key, f.val)
    BY <2>1 DEF Files, Underway
  <2>3. Untouched(t)' /\ meant[f.key] = f.val
    BY <1>0, <2>1, WritesKeepUntouched DEF SetPoints
  <2>4. Written(task[t].key, task[t].val)'
    BY <2>1, <2>2 DEF Written, Params
  <2>5. Underway(t)'
    BY <1>0, <2>1, <2>3, <2>4 DEF Underway, Removal, Params
  <2> QED
    BY <2>1, <2>3, <2>5 DEF Files
<1> QED
  BY <1>1, <1>2, <1>3

(* The last step of a set: the key has both files, and they agree. *)
LEMMA WriteMetaKeepsFiles ==
    ASSUME NEW t, Task = {t}, Files(t), WriteMeta(t)
    PROVE  Files(t)'
<1> DEFINE f == task[t]
           m == meta'[f.key]
<1>1. /\ Typed' /\ f.at = "writeMeta" /\ task'[t] = Idle
      /\ hurt' = hurt \ {f.key} /\ UNCHANGED <<data, dirs, now, meant, crashed>>
      /\ \A k \in Key \ {f.key} : meta'[k] = meta[k]
  BY WriteMetaDoes DEF Files
<1>2. /\ meta[f.key] # NoFile /\ meta[f.key].note = Blank /\ t \in meta[f.key].by
      /\ Written(f.key, f.val)
  BY <1>1 DEF Files, Underway
<1>3. m # NoFile /\ m.note \in Note /\ m.note.size = Size[f.val]
  BY <1>2, WriteMetaDoes DEF Files
<1>4. Shape(f) /\ f.at \in SetPoints /\ InSet(f) /\ f.key \in Key /\ f.val \in Val
  BY <1>1, TaskShape DEF Files, SetPoints, InSet, Shape
<1>5. f.key \in dirs /\ meant[f.key] = f.val
  BY <1>4 DEF Files, Underway
<1>6. Touched(f) = {f.key} /\ Touched(Idle) = {}
  BY <1>4, TouchedIs, IdleShape DEF Quiet
<1>7. Untouched(t)'
  <2> SUFFICES ASSUME NEW k \in Key, k \notin hurt' PROVE Matching(k)'
    BY DEF Untouched
  <2>1. CASE k = f.key
    <3>1. /\ k \in Bins' /\ k \in Metas' /\ k \in dirs' /\ Noted(k)'
      BY <1>1, <1>2, <1>3, <1>5, <2>1, FilesAssumption DEF Bins, Metas, Noted, Written
    <3>2. meta'[k].note.size = data'[k].size /\ meant'[k] = data'[k].val
      BY <1>1, <1>2, <1>3, <1>5, <2>1 DEF Written
    <3> QED
      BY <3>1, <3>2 DEF Matching
  <2>2. CASE k # f.key
    <3>1. Matching(k)
      BY <1>1, <1>6, <2>2 DEF Files, Untouched
    <3> QED
      BY <1>1, <2>2, <3>1, MatchingKept DEF SameFiles
  <2> QED
    BY <2>1, <2>2
<1>8. Underway(t)'
  BY <1>1, IdleShape DEF Underway, Removal
<1> QED
  BY <1>1, <1>7, <1>8 DEF Files

LEMMA FlushKeepsFiles ==
    ASSUME NEW t, Task = {t}, Files(t), Flush(t)
    PROVE  Files(t)'
<1> DEFINE f == task[t]
           g == task'[t]
<1>1. /\ Typed' /\ f = Idle /\ g.at = "rmtree" /\ g.todo = dirs
      /\ meant' = [k \in Key |-> NoVal] /\ UNCHANGED <<data, meta, dirs, hurt>>
  BY FlushDoes DEF Files, Still, files
<1>2. Shape(g) /\ Shape(f) /\ g.todo \subseteq Key
  BY <1>1, TaskAfter, IdleShape DEF Shape, Frame
<1>3. Touched(f) = {} /\ Touched(g) = dirs
  BY <1>1, <1>2, TouchedIs, IdleShape DEF Quiet
<1>4. Untouched(t)'
  <2> SUFFICES ASSUME NEW k \in Key, k \notin hurt, k \notin dirs PROVE Matching(k)'
    BY <1>1, <1>3 DEF Untouched
  <2>1. Matching(k)
    BY <1>3 DEF Files, Untouched
  <2>2. data[k] = NoFile /\ meta[k] = NoFile
    BY <2>1 DEF Matching, Bins, Metas
  <2>3. data'[k] = NoFile /\ meta'[k] = NoFile /\ meant'[k] = NoVal
    BY <1>1, <2>2
  <2> QED
    BY <2>3 DEF Matching, Bins, Metas
<1>5. Underway(t)'
  BY <1>1, <1>2 DEF Underway, InSet, SetPoints, Removal
<1> QED
  BY <1>1, <1>4, <1>5 DEF Files

LEMMA RemoveShardKeepsFiles ==
    ASSUME NEW t, Task = {t}, Files(t), RemoveShard(t)
    PROVE  Files(t)'
<1> DEFINE f == task[t]
           g == task'[t]
<1>1. /\ Typed' /\ Shape(f) /\ f.at = "rmtree" /\ UNCHANGED meant
  BY RemoveShardDoes DEF Files
<1>2. PICK k \in f.todo :
         /\ data' = [data EXCEPT ![k] = NoFile]
         /\ meta' = [meta EXCEPT ![k] = NoFile]
         /\ dirs' = dirs \ {k} /\ hurt' = hurt \ {k} /\ k \in Key
         /\ \/ f.todo = {k} /\ g = Idle
            \/ g.at = "rmtree" /\ g.todo = f.todo \ {k}
  BY RemoveShardDoes DEF Files
<1>3. Shape(g)
  BY <1>1, TaskAfter
<1>4. Touched(f) = f.todo /\ Touched(g) = f.todo \ {k}
  BY <1>1, <1>2, <1>3, TouchedIs, IdleShape DEF Quiet
<1>5. /\ data'[k] = NoFile /\ meta'[k] = NoFile
      /\ \A l \in Key \ {k} : data'[l] = data[l] /\ meta'[l] = meta[l]
  BY <1>2 DEF Files, Typed, TypeOK
<1>6. \A l \in f.todo : meant[l] = NoVal
  BY <1>1 DEF Files, Underway
<1>7. Untouched(t)'
  <2> SUFFICES ASSUME NEW l \in Key, l \notin hurt', l \notin Touched(g) PROVE Matching(l)'
    BY DEF Untouched
  <2>1. CASE l = k
    <3>1. data'[l] = NoFile /\ meta'[l] = NoFile /\ meant'[l] = NoVal
      BY <1>1, <1>2, <1>5, <1>6, <2>1
    <3> QED
      BY <3>1 DEF Matching, Bins, Metas
  <2>2. CASE l # k
    <3>1. Matching(l)
      BY <1>2, <1>4, <2>2 DEF Files, Untouched
    <3> QED
      BY <1>1, <1>2, <1>5, <2>2, <3>1, MatchingKept DEF SameFiles
  <2> QED
    BY <2>1, <2>2
<1>8. Underway(t)'
  <2>1. CASE g = Idle
    BY <2>1, IdleShape DEF Underway, Removal
  <2>2. CASE g.at = "rmtree" /\ g.todo = f.todo \ {k}
    BY <1>1, <1>6, <2>2 DEF Underway, InSet, SetPoints, Removal
  <2> QED
    BY <1>2, <2>1, <2>2
<1> QED
  BY <1>1, <1>7, <1>8 DEF Files

LEMMA OutsideKeepsFiles ==
    ASSUME NEW t, Task = {t}, Files(t), Tick \/ UNCHANGED vars
    PROVE  Files(t)'
<1>1. Typed' /\ UNCHANGED <<data, meta, dirs, task, meant, hurt>>
  <2>1. CASE Tick
    BY <2>1, TickDoes DEF Files, files
  <2>2. CASE UNCHANGED vars
    BY <2>2, NextTyped DEF Files, vars
  <2> QED
    BY <2>1, <2>2
<1>2. Untouched(t)'
  <2> SUFFICES ASSUME NEW k \in Key, k \notin hurt, k \notin Touched(task[t])
               PROVE  Matching(k)'
    BY <1>1 DEF Untouched
  <2>1. Matching(k)
    BY DEF Files, Untouched
  <2> QED
    BY <1>1, <2>1, MatchingKept DEF SameFiles
<1>3. Underway(t)'
  BY <1>1 DEF Files, Underway, Written, Bins
<1> QED
  BY <1>1, <1>2, <1>3 DEF Files

LEMMA CrashKeepsFiles ==
    ASSUME NEW t, Task = {t}, Files(t), Crash
    PROVE  Files(t)'
<1>1. /\ Typed' /\ UNCHANGED <<dirs, now, meant>> /\ task'[t] = Idle
      /\ hurt' = hurt \cup UNION {Changing(u) : u \in Task}
      /\ \A k \in Key : SameFiles(k)
  BY CrashDoes DEF Files, SameFiles
<1>2. Touched(task[t]) = Changing(t)
  BY DEF Touched, Changing, At
<1>3. hurt' = hurt \cup Touched(task[t])
  BY <1>1, <1>2
<1>4. Untouched(t)'
  <2> SUFFICES ASSUME NEW k \in Key, k \notin hurt' PROVE Matching(k)'
    BY DEF Untouched
  <2>1. Matching(k)
    BY <1>3 DEF Files, Untouched
  <2> QED
    BY <1>1, <2>1, MatchingKept
<1>5. Underway(t)'
  BY <1>1, IdleShape DEF Underway, Removal
<1> QED
  BY <1>1, <1>4, <1>5 DEF Files

LEMMA NextKeepsFiles ==
    ASSUME NEW t, Task = {t}, Files(t), [Next]_vars
    PROVE  Files(t)'
<1>1. Typed
  BY DEF Files
<1>2. CASE Call(t)
  BY <1>1, <1>2, GetDoes, DeleteDoes, SweepDoes, ReadsKeepFiles, GivesKeepFiles,
     SetKeepsFiles, FlushKeepsFiles DEF Call
<1>3. CASE Storing(t)
  BY <1>3, ListingKeepsFiles, EvictKeepsFiles, WritingKeepsFiles, WriteMetaKeepsFiles
     DEF Storing
<1>4. CASE ReadMeta(t) \/ ReadData(t) \/ ListSweep(t) \/ SweepEntry(t)
  BY <1>1, <1>4, ReadMetaDoes, ReadDataDoes, ListSweepDoes, SweepEntryDoes,
     ReadsKeepFiles, GivesKeepFiles
<1>5. CASE Proceed(t)
  BY <1>3, <1>4, <1>5, RemoveDataKeepsFiles, RemoveMetaKeepsFiles, RemoveShardKeepsFiles
     DEF Proceed
<1> QED
  BY <1>2, <1>5, OutsideKeepsFiles, CrashKeepsFiles DEF Next

LEMMA InitFiles ==
    ASSUME NEW t, Task = {t}, Init
    PROVE  Files(t)
<1>1. Typed /\ task[t] = Idle
  BY InitTyped DEF Init
<1>2. Untouched(t)
  BY DEF Init, Untouched, Matching, Bins, Metas
<1>3. Underway(t)
  BY <1>1, IdleShape DEF Underway, Removal
<1> QED
  BY <1>1, <1>2, <1>3 DEF Files

LEMMA AlwaysFiles ==
    ASSUME NEW t, Task = {t}
    PROVE  Spec => []Files(t)
<1>1. Init => Files(t)
  BY InitFiles
<1>2. Files(t) /\ [Next]_vars => Files(t)'
  BY NextKeepsFiles
<1> QED
  BY <1>1, <1>2, PTL DEF Spec

(* Between the calls of one task the files are a map with the values last  *)
(* set, but for the keys of a call that a crash cut short, until they are  *)
(* next set or removed (local.py 39-77, 119-138).                          *)
THEOREM FilesMatch ==
    ASSUME NEW t, Task = {t}
    PROVE  Spec => []FilesAreTheMap
<1>1. Files(t) => FilesAreTheMap
  <2> SUFFICES ASSUME Files(t), AllFree, NEW k \in Key \ hurt PROVE Matching(k)
    BY DEF FilesAreTheMap
  <2>1. task[t] = Idle /\ Touched(Idle) = {}
    BY IdleShape, TouchedIs DEF AllFree, Free, Quiet
  <2> QED
    BY <2>1 DEF Files, Untouched
<1> QED
  BY <1>1, AlwaysFiles, PTL
-----------------------------------------------------------------------------
(***************************************************************************)
(* One task: what a set has read of the sidecars is what they say, until   *)
(* it has evicted what it must.                                            *)
(***************************************************************************)
NotedKeys == {k \in Key : Noted(k)}
Entries(D) == {EntryOf(k) : k \in D}

Listed(t) ==
    LET f == task[t] IN
    /\ f.at \in {"listBins", "statBins", "listMetas"} => f.found = {}
    /\ f.at = "readEntry" => f.found = Entries(NotedKeys \ f.todo)
    /\ f.at = "evict" => f.found = Entries(NotedKeys)
    /\ f.at \in Removal /\ f.then = "evict" => f.found = Entries(NotedKeys \ {f.out})

Looked(t) == Typed /\ Listed(t)

(* Where nothing has been listed. *)
Elsewhere == {"idle", "readMeta", "readData", "listSweep", "sweep", "rmtree",
              "openData", "writeData", "openMeta", "writeMeta"}

LEMMA ElsewhereLooked ==
    ASSUME NEW t, Typed', task'[t].at \in Elsewhere
    PROVE  Looked(t)'
BY DEF Looked, Listed, Elsewhere, Removal

LEMMA SameNotes ==
    ASSUME UNCHANGED meta
    PROVE  /\ NotedKeys' = NotedKeys
           /\ \A D : Entries(D)' = Entries(D)
           /\ \A k : Noted(k)' <=> Noted(k)
<1>1. \A k : Noted(k)' <=> Noted(k)
  BY DEF Noted, Metas
<1>2. \A D : Entries(D)' = Entries(D)
  BY DEF Entries, EntryOf
<1> QED
  BY <1>1, <1>2 DEF NotedKeys

LEMMA ReadsLooked ==
    ASSUME NEW t, Typed', Reads(t)
    PROVE  Looked(t)'
BY ElsewhereLooked DEF Reads, Quiet, Elsewhere

LEMMA GivesLooked ==
    ASSUME NEW t, Typed', Gives(t)
    PROVE  Looked(t)'
<1> DEFINE g == task'[t]
<1>1. g.at = "removeData" /\ g.then \in {"idle", "sweep"}
  BY DEF Gives
<1> QED
  BY <1>1 DEF Looked, Listed, Removal

LEMMA RemoveDataLooked ==
    ASSUME NEW t \in Task, Looked(t), RemoveData(t)
    PROVE  Looked(t)'
<1> DEFINE f == task[t]
           g == task'[t]
<1>1. /\ Typed' /\ f.at = "removeData" /\ g.at = "removeMeta"
      /\ g.out = f.out /\ g.then = f.then /\ g.found = f.found /\ UNCHANGED meta
  BY RemoveDataDoes DEF Looked
<1> QED
  BY <1>1, SameNotes DEF Looked, Listed, Removal

LEMMA RemoveMetaLooked ==
    ASSUME NEW t \in Task, Looked(t), RemoveMeta(t)
    PROVE  Looked(t)'
<1> DEFINE f == task[t]
           g == task'[t]
<1>1. /\ Typed' /\ f.at = "removeMeta" /\ f.out \in Key
      /\ \/ f.then = "idle" /\ g = Idle
         \/ /\ f.then \in {"evict", "sweep"} /\ g.at = f.then /\ g.found = f.found
      /\ meta' = [meta EXCEPT ![f.out] = NoFile]
  BY RemoveMetaDoes DEF Looked
<1>2. CASE g.at \in Elsewhere
  BY <1>1, <1>2, ElsewhereLooked
<1>3. CASE f.then = "evict" /\ g.at = "evict" /\ g.found = f.found
  <2>1. f.found = Entries(NotedKeys \ {f.out})
    BY <1>1, <1>3 DEF Looked, Listed, Removal
  <2>2. meta'[f.out] = NoFile /\ \A k \in Key \ {f.out} : meta'[k] = meta[k]
    BY <1>1 DEF Looked, Typed, TypeOK
  <2>3. NotedKeys' = NotedKeys \ {f.out}
    BY <1>1, <2>2 DEF NotedKeys, Noted, Metas
  <2>4. \A k \in NotedKeys \ {f.out} : EntryOf(k)' = EntryOf(k)
    BY <2>2 DEF EntryOf, NotedKeys
  <2>5. Entries(NotedKeys)' = Entries(NotedKeys \ {f.out})
    BY <2>3, <2>4 DEF Entries
  <2> QED
    BY <1>1, <1>3, <2>1, <2>5 DEF Looked, Listed, Removal
<1> QED
  BY <1>1, <1>2, <1>3, IdleShape DEF Elsewhere

LEMMA SetLooked ==
    ASSUME NEW t \in Task, Looked(t), NEW k \in Key, NEW v \in Val, NEW ttl \in TTL,
           Set(t, k, v, ttl)
    PROVE  Looked(t)'
<1>1. Typed' /\ task'[t].at = "listBins" /\ task'[t].found = {}
  BY SetDoes DEF Looked
<1> QED
  BY <1>1 DEF Looked, Listed, Removal

LEMMA ListingLooked ==
    ASSUME NEW t \in Task, Looked(t), ListBins(t) \/ StatBins(t) \/ ListMetas(t)
    PROVE  Looked(t)'
<1> DEFINE f == task[t]
           g == task'[t]
<1>1. CASE ListBins(t)
  <2>1. Typed' /\ f.at = "listBins" /\ g.at = "statBins" /\ g.found = f.found
    BY <1>1, ListBinsDoes DEF Looked
  <2> QED
    BY <2>1 DEF Looked, Listed, Removal
<1>2. CASE StatBins(t)
  <2>1. /\ Typed' /\ f.at = "statBins"
        /\ \/ g = Idle
           \/ g.at = "openData"
           \/ g.at = "listMetas" /\ g.found = f.found
    BY <1>2, StatBinsDoes DEF Looked
  <2>2. CASE g.at \in Elsewhere
    BY <2>1, <2>2, ElsewhereLooked
  <2>3. CASE g.at = "listMetas" /\ g.found = f.found
    BY <2>1, <2>3 DEF Looked, Listed, Removal
  <2> QED
    BY <2>1, <2>2, <2>3, IdleShape DEF Elsewhere
<1>3. CASE ListMetas(t)
  <2>1. /\ Typed' /\ f.at = "listMetas" /\ UNCHANGED meta
        /\ g.todo = Metas /\ g.found = f.found
        /\ \/ Metas = {} /\ g.at = "evict"
           \/ g.at = "readEntry"
    BY <1>3, ListMetasDoes DEF Looked, Still, files
  <2>2. f.found = {} /\ NotedKeys \subseteq Metas
    BY <2>1 DEF Looked, Listed, NotedKeys, Noted
  <2>3. NotedKeys' = NotedKeys /\ \A D : Entries(D)' = Entries(D)
    BY <2>1, SameNotes
  <2>4. Entries({}) = {} /\ NotedKeys \ Metas = {} /\ (Metas = {} => NotedKeys = {})
    BY <2>2 DEF Entries
  <2> QED
    BY <2>1, <2>2, <2>3, <2>4 DEF Looked, Listed, Removal
<1> QED
  BY <1>1, <1>2, <1>3

LEMMA ReadEntryLooked ==
    ASSUME NEW t \in Task, Looked(t), ReadEntry(t)
    PROVE  Looked(t)'
<1> DEFINE f == task[t]
           g == task'[t]
<1>1. Typed' /\ f.at = "readEntry" /\ UNCHANGED meta
  BY ReadEntryDoes DEF Looked, Still, files
<1>2. PICK k \in f.todo :
         /\ k \in Key /\ g.todo = f.todo \ {k}
         /\ g.found = IF Noted(k) THEN f.found \cup {EntryOf(k)} ELSE f.found
         /\ \/ f.todo = {k} /\ g.at = "evict"
            \/ f.todo # {k} /\ g.at = "readEntry"
  BY ReadEntryDoes DEF Looked
<1>3. f.found = Entries(NotedKeys \ f.todo)
  BY <1>1 DEF Looked, Listed
<1>4. g.found = Entries(NotedKeys \ g.todo)
  <2>1. CASE Noted(k)
    <3>1. NotedKeys \ g.todo = (NotedKeys \ f.todo) \cup {k}
      BY <1>2, <2>1 DEF NotedKeys
    <3> QED
      BY <1>2, <1>3, <2>1, <3>1 DEF Entries
  <2>2. CASE ~Noted(k)
    <3>1. NotedKeys \ g.todo = NotedKeys \ f.todo
      BY <1>2, <2>2 DEF NotedKeys
    <3> QED
      BY <1>2, <1>3, <2>2, <3>1
  <2> QED
    BY <2>1, <2>2
<1>5. NotedKeys' = NotedKeys /\ \A D : Entries(D)' = Entries(D)
  BY <1>1, SameNotes
<1>6. f.todo = {k} => NotedKeys \ g.todo = NotedKeys
  BY <1>2
<1> QED
  BY <1>1, <1>2, <1>4, <1>5, <1>6 DEF Looked, Listed, Removal

(* The entry that is evicted is that of a key, as its sidecar has it. *)
LEMMA EvictedIs ==
    ASSUME NEW t \in Task, Looked(t), task[t].at = "evict", NEW e \in Oldest(task[t].found)
    PROVE  /\ e.key \in NotedKeys /\ e = EntryOf(e.key) /\ e.size = meta[e.key].note.size
           /\ \A k \in NotedKeys : e.created <= meta[k].note.created
           /\ e.created = meta[e.key].note.created
           /\ task[t].found \ {e} = Entries(NotedKeys \ {e.key})
<1> DEFINE f == task[t]
<1>1. f.found = Entries(NotedKeys) /\ e \in f.found
  BY DEF Looked, Listed, Oldest
<1>2. PICK k \in NotedKeys : e = EntryOf(k)
  BY <1>1 DEF Entries
<1>3. \A l \in NotedKeys : /\ EntryOf(l).key = l /\ EntryOf(l) \in f.found
                           /\ EntryOf(l).size = meta[l].note.size
                           /\ EntryOf(l).created = meta[l].note.created
  BY <1>1, FilesTyped DEF Looked, NotedKeys, Entries
<1>4. e.key = k
  BY <1>2, <1>3
<1>5. \A l \in NotedKeys : e.created <= EntryOf(l).created
  BY <1>3 DEF Oldest
<1>6. f.found \ {e} = Entries(NotedKeys \ {k})
  BY <1>1, <1>2, <1>3 DEF Entries
<1> QED
  BY <1>2, <1>3, <1>4, <1>5, <1>6

LEMMA EvictLooked ==
    ASSUME NEW t \in Task, Looked(t), Evict(t)
    PROVE  Looked(t)'
<1> DEFINE f == task[t]
           g == task'[t]
<1>1. Typed' /\ f.at = "evict" /\ UNCHANGED meta
  BY EvictDoes DEF Looked, Still, files
<1>2. CASE g.at = "openData"
  BY <1>1, <1>2, ElsewhereLooked DEF Elsewhere
<1>3. ASSUME NEW e \in Oldest(f.found), g.at = "removeData", g.then = "evict",
             g.out = e.key, g.found = f.found \ {e}
      PROVE  Looked(t)'
  <2>1. g.found = Entries(NotedKeys \ {g.out})
    BY <1>1, <1>3, EvictedIs
  <2>2. NotedKeys' = NotedKeys /\ \A D : Entries(D)' = Entries(D)
    BY <1>1, SameNotes
  <2> QED
    BY <1>1, <1>3, <2>1, <2>2 DEF Looked, Listed
<1> QED
  BY <1>2, <1>3, EvictDoes DEF Looked

LEMMA WritingLooked ==
    ASSUME NEW t \in Task, Looked(t),
           \/ OpenData(t) \/ WriteData(t) \/ OpenMeta(t) \/ WriteMeta(t)
           \/ Flush(t) \/ RemoveShard(t)
    PROVE  Looked(t)'
<1>1. Typed' /\ task'[t].at \in Elsewhere
  BY OpenDataDoes, WriteDataDoes, OpenMetaDoes, WriteMetaDoes, FlushDoes, RemoveShardDoes,
     IdleShape DEF Looked, Elsewhere
<1> QED
  BY <1>1, ElsewhereLooked

LEMMA TickLooked ==
    ASSUME NEW t \in Task, Looked(t), Tick
    PROVE  Looked(t)'
<1>1. Typed' /\ UNCHANGED <<meta, task>>
  BY TickDoes DEF Looked, files
<1> QED
  BY <1>1, SameNotes DEF Looked, Listed

LEMMA NextLooked ==
    ASSUME NEW t, Task = {t}, Looked(t), [Next]_vars
    PROVE  Looked(t)'
<1>1. Typed
  BY DEF Looked
<1>2. CASE Call(t)
  BY <1>1, <1>2, GetDoes, DeleteDoes, SweepDoes, ReadsLooked, GivesLooked, SetLooked,
     WritingLooked DEF Call
<1>3. CASE Storing(t)
  BY <1>3, ListingLooked, ReadEntryLooked, EvictLooked, WritingLooked DEF Storing
<1>4. CASE ReadMeta(t) \/ ReadData(t) \/ ListSweep(t) \/ SweepEntry(t)
  BY <1>1, <1>4, ReadMetaDoes, ReadDataDoes, ListSweepDoes, SweepEntryDoes,
     ReadsLooked, GivesLooked
<1>5. CASE Proceed(t)
  BY <1>3, <1>4, <1>5, RemoveDataLooked, RemoveMetaLooked, WritingLooked DEF Proceed
<1>6. CASE Crash
  BY <1>1, <1>6, CrashDoes, ElsewhereLooked, IdleShape DEF Elsewhere
<1>7. CASE UNCHANGED vars
  <2>1. Typed' /\ UNCHANGED <<meta, task>>
    BY <1>1, <1>7, NextTyped DEF vars
  <2> QED
    BY <2>1, SameNotes DEF Looked, Listed
<1> QED
  BY <1>2, <1>5, <1>6, <1>7, TickLooked DEF Next

LEMMA InitLooked ==
    ASSUME NEW t, Task = {t}, Init
    PROVE  Looked(t)
<1>1. Typed /\ task[t] = Idle
  BY InitTyped DEF Init
<1> QED
  BY <1>1, IdleShape DEF Looked, Listed, Removal

LEMMA AlwaysLooked ==
    ASSUME NEW t, Task = {t}
    PROVE  Spec => []Looked(t)
<1>1. Init => Looked(t)
  BY InitLooked
<1>2. Looked(t) /\ [Next]_vars => Looked(t)'
  BY NextLooked
<1> QED
  BY <1>1, <1>2, PTL DEF Spec

(* What EvictsOldest says of a step. *)
OldestGo ==
    \A t \in Task, out \in Key : Evict(t) /\ task'[t].out = out /\ Noted(out) =>
        \A k \in Metas : Noted(k) => meta[out].note.created <= meta[k].note.created

(* Of the keys with a sidecar, a set evicts the oldest: what it has read   *)
(* of them is what they still say (local.py 119-138).                      *)
THEOREM OldestFirst ==
    ASSUME NEW t, Task = {t}
    PROVE  Spec => EvictsOldest
<1>1. Looked(t) => OldestGo
  <2> SUFFICES ASSUME Looked(t), NEW out \in Key, Evict(t), task'[t].out = out,
                      NEW k \in Metas, Noted(k)
               PROVE  meta[out].note.created <= meta[k].note.created
    BY DEF OldestGo
  <2>1. out # NoKey /\ task[t].at = "evict" /\ k \in NotedKeys
    BY FilesAssumption, EvictDoes DEF Looked, NotedKeys, Noted, Metas
  <2>2. PICK e \in Oldest(task[t].found) : out = e.key
    BY <2>1, EvictDoes DEF Looked
  <2> QED
    BY <2>1, <2>2, EvictedIs
<1> QED
  BY <1>1, AlwaysLooked, PTL DEF EvictsOldest, OldestGo
-----------------------------------------------------------------------------
(***************************************************************************)
(* One task that never crashes: a set counts the bytes the data files have,*)
(* and what it evicts frees as many as its sidecar says.                   *)
(***************************************************************************)
Paired(k) ==
    /\ k \in Bins \cup Metas => k \in Bins \cap Metas /\ Noted(k)
    /\ k \in Bins => meta[k].note.size = data[k].size

Fitted(k, v) == Bytes[Bins \ {k}] + Size[v] <= MaxSize \/ Bins \subseteq {k}
Capped == Bytes[Bins] <= MaxSize \/ \E k \in Key : Bins \subseteq {k}

MakingRoom == {"listBins", "statBins", "listMetas", "readEntry", "evict"}
Counting == {"listMetas", "readEntry", "evict"}
Fitting == {"openData", "writeData", "openMeta", "writeMeta"}

Counted(t) ==
    LET f == task[t] IN
    /\ f.at \in MakingRoom => Paired(f.key)
    /\ f.at \in Removal /\ f.then = "evict" /\ f.out # f.key => Paired(f.key)
    /\ f.at \in Counting => f.current = Bytes[Bins]
    /\ f.at \in Removal /\ f.then = "evict" => f.current = Bytes[Bins \ {f.out}]
    /\ f.at \in Fitting => Fitted(f.key, f.val)
    /\ ~InSet(f) => Capped

(* A crash may leave data that is not paired, and from then on it is lost. *)
Room(t) == Files(t) /\ Looked(t) /\ (~crashed => hurt = {} /\ Counted(t))

LEMMA SameBytes ==
    ASSUME NEW D \in SUBSET Key, \A k \in D : data'[k].size = data[k].size
    PROVE  Bytes'[D] = Bytes[D]
<1>1. IsSum(data, Bytes)
  BY BytesSum
<1>2. IsSum(data, Bytes)'
  BY <1>1, BytesSum, PTL
<1>3. IsSum(data', Bytes')
  BY <1>2 DEF IsSum, Sum
<1> QED
  BY <1>1, <1>3, SameSum

LEMMA LessBytes ==
    ASSUME Typed, NEW k \in Key
    PROVE  /\ Bytes[Bins] \in Nat /\ Bytes[Bins \ {k}] \in Nat
           /\ k \in Bins => /\ data[k].size \in Nat
                            /\ Bytes[Bins] = data[k].size + Bytes[Bins \ {k}]
           /\ k \notin Bins => Bytes[Bins] = Bytes[Bins \ {k}]
           /\ Bytes[Bins \ {k}] <= Bytes[Bins]
<1>1. Bytes[Bins] \in Nat /\ Bytes[Bins \ {k}] \in Nat
  BY BytesNat
<1>2. ASSUME k \in Bins
      PROVE  data[k].size \in Nat /\ Bytes[Bins] = data[k].size + Bytes[Bins \ {k}]
  <2>1. Bins \in SUBSET Key /\ \A l \in Bins : data[l].size \in Nat
    BY FilesTyped
  <2>2. Split(data, Bytes, Bins)
    BY <2>1, BytesSum, SumSplits
  <2> QED
    BY <1>2, <2>1, <2>2 DEF Split
<1>3. k \notin Bins => Bytes[Bins] = Bytes[Bins \ {k}]
  <2>1. k \notin Bins => Bins = Bins \ {k}
    OBVIOUS
  <2> QED
    BY <2>1
<1> DEFINE a == Bytes[Bins]
           b == Bytes[Bins \ {k}]
           c == data[k].size
<1>4. b <= a
  <2>1. a \in Nat /\ b \in Nat /\ (k \in Bins => c \in Nat /\ a = c + b)
        /\ (k \notin Bins => a = b)
    BY <1>1, <1>2, <1>3
  <2> HIDE DEF a, b, c
  <2> QED
    BY <2>1
<1> QED
  BY <1>1, <1>2, <1>3, <1>4

LEMMA CappedKept ==
    ASSUME Typed, Capped, UNCHANGED data
    PROVE  Capped'
<1>1. Bins' = Bins /\ Bins \in SUBSET Key
  BY FilesTyped DEF Bins
<1>2. Bytes'[Bins] = Bytes[Bins]
  BY <1>1, SameBytes
<1> QED
  BY <1>1, <1>2 DEF Capped

LEMMA CappedLess ==
    ASSUME Typed, Capped, NEW k \in Key, data' = [data EXCEPT ![k] = NoFile]
    PROVE  Capped'
<1>1. data'[k] = NoFile /\ \A l \in Key \ {k} : data'[l] = data[l]
  BY DEF Typed, TypeOK
<1>2. Bins' = Bins \ {k} /\ Bins \ {k} \in SUBSET Key
  BY <1>1 DEF Bins
<1>3. Bytes'[Bins \ {k}] = Bytes[Bins \ {k}]
  BY <1>1, <1>2, SameBytes
<1>4. Bytes[Bins] \in Nat /\ Bytes[Bins \ {k}] \in Nat /\ Bytes[Bins \ {k}] <= Bytes[Bins]
  BY LessBytes
<1>5. CASE Bytes[Bins] <= MaxSize
  <2>1. Bytes[Bins \ {k}] <= MaxSize
    BY <1>4, <1>5, FilesAssumption
  <2> QED
    BY <1>2, <1>3, <2>1 DEF Capped
<1>6. CASE \E l \in Key : Bins \subseteq {l}
  BY <1>2, <1>6 DEF Capped
<1> QED
  BY <1>5, <1>6 DEF Capped

(* The bytes of the files but one, when nothing but that one changes. *)
LEMMA RestBytes ==
    ASSUME Typed, NEW k \in Key, \A l \in Key \ {k} : data'[l] = data[l]
    PROVE  /\ Bins' \ {k} = Bins \ {k}
           /\ Bytes'[Bins \ {k}] = Bytes[Bins \ {k}]
<1>1. Bins' \ {k} = Bins \ {k} /\ Bins \ {k} \in SUBSET Key
  BY DEF Bins
<1> QED
  BY <1>1, SameBytes

LEMMA FittedKept ==
    ASSUME Typed, NEW k \in Key, NEW v, Fitted(k, v), \A l \in Key \ {k} : data'[l] = data[l]
    PROVE  Fitted(k, v)'
<1>1. Bins' \ {k} = Bins \ {k} /\ Bytes'[Bins \ {k}] = Bytes[Bins \ {k}]
  BY RestBytes
<1>2. Bins \subseteq {k} => Bins' \subseteq {k}
  BY <1>1
<1> QED
  BY <1>1, <1>2 DEF Fitted

LEMMA FitsIsFitted ==
    ASSUME NEW t \in Task, Typed, task[t].at \in SetPoints, Fits(task[t], Bytes[Bins])
    PROVE  Fitted(task[t].key, task[t].val)
<1> DEFINE a == Bytes[Bins]
           b == Bytes[Bins \ {task[t].key}]
           s == Size[task[t].val]
<1>1. task[t].key \in Key /\ s \in Nat
  BY SetterShape
<1>2. a \in Nat /\ b \in Nat /\ b <= a
  BY <1>1, LessBytes
<1>3. a + s <= MaxSize
  BY DEF Fits
<1>4. b + s <= MaxSize
  <2> HIDE DEF a, b, s
  <2> QED
    BY <1>1, <1>2, <1>3, FilesAssumption
<1> QED
  BY <1>4 DEF Fitted

LEMMA PairedKept ==
    ASSUME NEW k, data'[k] = data[k], meta'[k] = meta[k], Paired(k)
    PROVE  Paired(k)'
BY DEF Paired, Bins, Metas, Noted

LEMMA MatchingPaired == ASSUME NEW k, Matching(k) PROVE Paired(k)
BY DEF Matching, Paired
-----------------------------------------------------------------------------
(* Between two steps, and no crash so far. *)
Ready(t) == Files(t) /\ Looked(t) /\ hurt = {} /\ Counted(t)

(* Between the calls of a set, and within it but for the key, all is paired. *)
LEMMA OthersPaired ==
    ASSUME NEW t, Task = {t}, Ready(t), NEW k \in Key, k \notin Touched(task[t])
    PROVE  Paired(k)
BY MatchingPaired DEF Ready, Files, Untouched

LEMMA OutsideCounted ==
    ASSUME NEW t, Capped', task'[t].at \in Quiet \cup {"rmtree"}
    PROVE  Counted(t)'
BY DEF Counted, Quiet, MakingRoom, Counting, Fitting, Removal

LEMMA QuietNoSet ==
    ASSUME NEW f, f.at \in Quiet \cup {"rmtree"} \/ (f.at \in Removal /\ f.then # "evict")
    PROVE  ~InSet(f)
BY DEF Quiet, Removal, InSet, SetPoints

LEMMA ReadsCounted ==
    ASSUME NEW t, Task = {t}, Ready(t), Reads(t) \/ Gives(t)
    PROVE  hurt' = {} /\ Counted(t)'
<1>1. Typed /\ UNCHANGED <<data, hurt>> /\ hurt = {}
  BY DEF Ready, Looked, Reads, Gives, Still, files
<1>2. Capped
  BY QuietNoSet DEF Ready, Counted, Reads, Gives
<1>3. Capped'
  BY <1>1, <1>2, CappedKept
<1>4. CASE Reads(t)
  BY <1>1, <1>3, <1>4, OutsideCounted DEF Reads
<1>5. CASE Gives(t)
  BY <1>1, <1>3, <1>5 DEF Gives, Counted, MakingRoom, Counting, Fitting, Removal
<1> QED
  BY <1>4, <1>5

LEMMA RemoveDataCounted ==
    ASSUME NEW t, Task = {t}, Ready(t), RemoveData(t)
    PROVE  hurt' = {} /\ Counted(t)'
<1> DEFINE f == task[t]
           g == task'[t]
<1>1. /\ Typed /\ Shape(f) /\ f.at = "removeData" /\ g.at = "removeMeta"
      /\ Params(f, g) /\ g.out = f.out /\ g.then = f.then /\ g.current = f.current
      /\ f.out \in Key /\ data' = [data EXCEPT ![f.out] = NoFile]
      /\ UNCHANGED <<meta, hurt>> /\ hurt = {}
  BY RemoveDataDoes DEF Ready, Looked
<1>2. PICK o \in Key : o = f.out
  BY <1>1
<1>3. data'[o] = NoFile /\ \A l \in Key \ {o} : data'[l] = data[l]
  BY <1>1, <1>2 DEF Typed, TypeOK
<1>4. CASE f.then = "evict"
  <2>1. PICK k \in Key : k = f.key
    BY <1>1, <1>4 DEF Shape, InSet, Removal
  <2>2. o # k => Paired(k)'
    <3>1. o # k => Paired(k)
      BY <1>1, <1>2, <1>4, <2>1 DEF Ready, Counted, Removal
    <3> QED
      BY <1>1, <1>3, <3>1, PairedKept
  <2>3. g.current = Bytes[Bins \ {o}]
    BY <1>1, <1>2, <1>4 DEF Ready, Counted, Removal
  <2>4. Bins' \ {o} = Bins \ {o} /\ Bytes'[Bins \ {o}] = Bytes[Bins \ {o}]
    BY <1>1, <1>3, RestBytes
  <2>5. g.current = Bytes'[Bins' \ {o}]
    BY <2>3, <2>4
  <2>6. InSet(g) /\ g.out = o /\ g.key = k
    BY <1>1, <1>2, <1>4, <2>1 DEF InSet, Removal, Params
  <2> QED
    BY <1>1, <2>2, <2>5, <2>6 DEF Counted, MakingRoom, Counting, Fitting, Removal
<1>5. CASE f.then # "evict"
  <2>1. Capped
    BY <1>1, <1>5, QuietNoSet DEF Ready, Counted, Removal
  <2>2. Capped'
    BY <1>1, <1>2, <2>1, CappedLess
  <2> QED
    BY <1>1, <1>5, <2>2 DEF Counted, MakingRoom, Counting, Fitting, Removal
<1> QED
  BY <1>4, <1>5

LEMMA RemoveMetaCounted ==
    ASSUME NEW t, Task = {t}, Ready(t), RemoveMeta(t)
    PROVE  hurt' = {} /\ Counted(t)'
<1> DEFINE f == task[t]
           g == task'[t]
<1>1. /\ Typed /\ Shape(f) /\ f.at = "removeMeta" /\ f.out \in Key
      /\ \/ f.then = "idle" /\ g = Idle
         \/ /\ f.then \in {"evict", "sweep"} /\ g.at = f.then /\ Params(f, g)
            /\ g.current = f.current
      /\ meta' = [meta EXCEPT ![f.out] = NoFile]
      /\ UNCHANGED data /\ hurt = {} /\ hurt' = {}
  BY RemoveMetaDoes DEF Ready, Looked
<1>2. PICK o \in Key : o = f.out
  BY <1>1
<1>3. data[o] = NoFile /\ meta'[o] = NoFile /\ \A l \in Key \ {o} : meta'[l] = meta[l]
  <2>1. data[o] = NoFile
    BY <1>1, <1>2 DEF Ready, Files, Underway
  <2> QED
    BY <1>1, <1>2, <2>1 DEF Typed, TypeOK
<1>4. CASE f.then # "evict"
  <2>1. Capped
    BY <1>1, <1>4, QuietNoSet DEF Ready, Counted, Removal
  <2>2. Capped'
    BY <1>1, <2>1, CappedKept
  <2> QED
    BY <1>1, <1>4, <2>2, OutsideCounted, IdleShape DEF Quiet
<1>5. CASE f.then = "evict"
  <2>1. PICK k \in Key : k = f.key
    BY <1>1, <1>5 DEF Shape, InSet, Removal
  <2>2. Paired(k)'
    <3>1. CASE o = k
      BY <1>1, <1>3, <3>1 DEF Paired, Bins, Metas
    <3>2. CASE o # k
      <4>1. Paired(k)
        BY <1>1, <1>2, <1>5, <2>1, <3>2 DEF Ready, Counted, Removal
      <4> QED
        BY <1>1, <1>3, <3>2, <4>1, PairedKept
    <3> QED
      BY <3>1, <3>2
  <2>3. g.current = Bytes[Bins \ {o}]
    BY <1>1, <1>2, <1>5 DEF Ready, Counted, Removal
  <2>4. Bins' = Bins /\ Bins \ {o} = Bins /\ Bins \in SUBSET Key
    BY <1>1, <1>3 DEF Bins
  <2>5. Bytes'[Bins] = Bytes[Bins]
    BY <1>1, <2>4, SameBytes
  <2>6. g.current = Bytes'[Bins']
    BY <2>3, <2>4, <2>5
  <2>7. g.at = "evict" /\ g.key = k /\ InSet(g)
    BY <1>1, <1>5, <2>1 DEF Params, InSet, SetPoints
  <2> QED
    BY <1>1, <2>2, <2>6, <2>7 DEF Counted, MakingRoom, Counting, Fitting, Removal
<1> QED
  BY <1>4, <1>5
-----------------------------------------------------------------------------
LEMMA SetCounted ==
    ASSUME NEW t, Task = {t}, Ready(t), NEW k \in Key, NEW v \in Val, NEW ttl \in TTL,
           Set(t, k, v, ttl)
    PROVE  hurt' = {} /\ Counted(t)'
<1> DEFINE g == task'[t]
<1>1. /\ task[t] = Idle /\ g.at = "listBins" /\ g.key = k /\ UNCHANGED <<data, meta, hurt>>
  BY SetDoes DEF Ready, Looked
<1>2. Paired(k)
  <2>1. Touched(Idle) = {}
    BY IdleShape, TouchedIs DEF Quiet
  <2> QED
    BY <1>1, <2>1, OthersPaired
<1>3. Paired(k)'
  BY <1>1, <1>2, PairedKept
<1>4. InSet(g) /\ hurt' = {}
  BY <1>1 DEF InSet, SetPoints, Ready
<1> QED
  BY <1>1, <1>3, <1>4 DEF Counted, MakingRoom, Counting, Fitting, Removal

(* The steps of set that read, one of which counts. *)
LEMMA MakingRoomCounted ==
    ASSUME NEW t, Task = {t}, Ready(t), Still, Params(task[t], task'[t]),
           task[t].at \in MakingRoom, task'[t].at \in MakingRoom,
           task'[t].at \in Counting => task'[t].current = Bytes[Bins]
    PROVE  hurt' = {} /\ Counted(t)'
<1> DEFINE f == task[t]
           g == task'[t]
<1>1. Typed /\ UNCHANGED <<data, meta, hurt>> /\ hurt = {}
  BY DEF Ready, Looked, Still, files
<1>2. PICK k \in Key : k = f.key
  BY <1>1, SetterShape DEF MakingRoom, SetPoints
<1>3. Paired(k)
  BY <1>2 DEF Ready, Counted
<1>4. Paired(k)'
  BY <1>1, <1>3, PairedKept
<1>5. Bins' = Bins /\ Bins \in SUBSET Key
  BY <1>1 DEF Bins
<1>6. Bytes'[Bins'] = Bytes[Bins]
  BY <1>1, <1>5, SameBytes
<1>7. g.key = k /\ InSet(g)
  BY <1>2 DEF Params, InSet, MakingRoom, SetPoints
<1> QED
  BY <1>1, <1>4, <1>6, <1>7 DEF Counted, MakingRoom, Counting, Fitting, Removal

LEMMA FittingCounted ==
    ASSUME NEW t, Task = {t}, Ready(t), UNCHANGED hurt, NEW k \in Key, NEW v,
           task'[t].at \in Fitting, task'[t].key = k, task'[t].val = v,
           Fitted(k, v), \A l \in Key \ {k} : data'[l] = data[l]
    PROVE  hurt' = {} /\ Counted(t)'
<1> DEFINE g == task'[t]
<1>1. Typed /\ hurt' = {}
  BY DEF Ready, Looked
<1>2. Fitted(k, v)'
  BY <1>1, FittedKept
<1>3. InSet(g)
  BY DEF InSet, Fitting, SetPoints
<1> QED
  BY <1>1, <1>2, <1>3 DEF Counted, MakingRoom, Counting, Fitting, Removal

LEMMA StatBinsCounted ==
    ASSUME NEW t, Task = {t}, Ready(t), StatBins(t)
    PROVE  hurt' = {} /\ Counted(t)'
<1> DEFINE f == task[t]
           g == task'[t]
<1>1. Typed /\ f.at = "statBins" /\ f.todo = Bins
  BY StatBinsDoes DEF Ready, Looked, Files, Underway
<1>2. /\ Still /\ Params(f, g) /\ g.current = Bytes[Bins]
      /\ \/ Fits(f, Bytes[Bins]) /\ g.at = "openData"
         \/ g.at = "listMetas"
  BY <1>1, StatBinsDoes
<1>3. CASE g.at = "listMetas"
  BY <1>1, <1>2, <1>3, MakingRoomCounted DEF MakingRoom
<1>4. CASE Fits(f, Bytes[Bins]) /\ g.at = "openData"
  <2>1. PICK k \in Key, v \in Val : k = f.key /\ v = f.val
    BY <1>1, SetterShape DEF SetPoints
  <2>2. Fitted(k, v)
    BY <1>1, <1>4, <2>1, FitsIsFitted DEF SetPoints
  <2>3. UNCHANGED <<data, hurt>> /\ g.key = k /\ g.val = v
    BY <1>2, <2>1 DEF Still, files, Params
  <2> QED
    BY <1>4, <2>2, <2>3, FittingCounted DEF Fitting
<1> QED
  BY <1>2, <1>3, <1>4

LEMMA ListingCounted ==
    ASSUME NEW t, Task = {t}, Ready(t), ListBins(t) \/ ListMetas(t) \/ ReadEntry(t)
    PROVE  hurt' = {} /\ Counted(t)'
<1> DEFINE f == task[t]
           g == task'[t]
<1>1. Typed
  BY DEF Ready, Looked
<1>2. CASE ListBins(t)
  <2>1. Still /\ Params(f, g) /\ f.at = "listBins" /\ g.at = "statBins"
    BY <1>1, <1>2, ListBinsDoes
  <2> QED
    BY <2>1, MakingRoomCounted DEF MakingRoom, Counting
<1>3. CASE ListMetas(t) \/ ReadEntry(t)
  <2>1. /\ Still /\ Params(f, g) /\ f.at \in {"listMetas", "readEntry"}
        /\ g.at \in {"evict", "readEntry"} /\ g.current = f.current
    BY <1>1, <1>3, ListMetasDoes, ReadEntryDoes
  <2>2. f.current = Bytes[Bins]
    BY <2>1 DEF Ready, Counted, Counting
  <2> QED
    BY <2>1, <2>2, MakingRoomCounted DEF MakingRoom
<1> QED
  BY <1>2, <1>3
-----------------------------------------------------------------------------
LEMMA SetterPaired ==
    ASSUME NEW t, Task = {t}, Ready(t), task[t].at = "evict", NEW k \in Key
    PROVE  Paired(k)
<1>1. Shape(task[t]) /\ task[t].at \in MakingRoom \cap SetPoints
  BY TaskShape DEF Ready, Looked, MakingRoom, SetPoints
<1>2. CASE k = task[t].key
  BY <1>1, <1>2 DEF Ready, Counted
<1>3. CASE k # task[t].key
  <2>1. k \notin Touched(task[t])
    BY <1>1, <1>3, TouchedIs
  <2> QED
    BY <2>1, OthersPaired
<1> QED
  BY <1>2, <1>3

(* When nothing is left to evict, no data is left. *)
LEMMA NothingLeft ==
    ASSUME NEW t, Task = {t}, Ready(t), task[t].at = "evict", task[t].found = {}
    PROVE  Bins = {}
<1>1. NotedKeys = {}
  BY DEF Ready, Looked, Listed, Entries
<1>2. ASSUME NEW k \in Bins PROVE FALSE
  <2>1. k \in Key
    BY DEF Bins
  <2>2. Noted(k)
    BY <1>2, <2>1, SetterPaired DEF Paired
  <2> QED
    BY <1>1, <2>1, <2>2 DEF NotedKeys
<1> QED
  BY <1>2

LEMMA EvictCounted ==
    ASSUME NEW t, Task = {t}, Ready(t), Evict(t)
    PROVE  hurt' = {} /\ Counted(t)'
<1> DEFINE f == task[t]
           g == task'[t]
<1>1. Typed /\ f.at = "evict" /\ Params(f, g) /\ UNCHANGED <<data, meta, hurt>> /\ hurt = {}
  BY EvictDoes DEF Ready, Looked, Still, files
<1>2. PICK k \in Key, v \in Val : k = f.key /\ v = f.val
  BY <1>1, SetterShape DEF SetPoints
<1>3. f.current = Bytes[Bins]
  BY <1>1 DEF Ready, Counted, Counting
<1>4. CASE (Fits(f, f.current) \/ f.found = {}) /\ g.at = "openData"
  <2>1. Fitted(k, v)
    <3>1. CASE Fits(f, f.current)
      BY <1>1, <1>2, <1>3, <3>1, FitsIsFitted DEF SetPoints
    <3>2. CASE f.found = {}
      BY <1>1, <3>2, NothingLeft DEF Fitted
    <3> QED
      BY <1>4, <3>1, <3>2
  <2> QED
    BY <1>1, <1>2, <1>4, <2>1, FittingCounted DEF Params, Fitting
<1>5. ASSUME NEW e \in Oldest(f.found), g.at = "removeData", g.then = "evict",
             g.out = e.key, g.current = f.current - e.size
      PROVE  Counted(t)'
  <2>1. e.key \in NotedKeys /\ e.size = meta[e.key].note.size
    BY <1>1, <1>5, EvictedIs DEF Ready
  <2>2. PICK o \in Key : o = e.key
    BY <2>1 DEF NotedKeys
  <2>3. o \in Bins /\ e.size = data[o].size
    <3>1. Paired(o) /\ o \in Metas
      BY <1>1, <2>1, <2>2, SetterPaired DEF NotedKeys, Noted
    <3> QED
      BY <2>1, <2>2, <3>1 DEF Paired
  <2>4. g.current = Bytes[Bins \ {o}]
    <3> DEFINE a == Bytes[Bins]
               b == Bytes[Bins \ {o}]
               c == data[o].size
    <3>1. a \in Nat /\ b \in Nat /\ c \in Nat /\ a = c + b
      BY <1>1, <2>3, LessBytes
    <3>2. g.current = a - c
      BY <1>3, <1>5, <2>3
    <3> HIDE DEF a, b, c
    <3>3. g.current = b
      BY <3>1, <3>2
    <3> QED
      BY <3>3 DEF b
  <2>5. Bins' = Bins /\ Bins \ {o} \in SUBSET Key
    BY <1>1 DEF Bins
  <2>6. Bytes'[Bins' \ {o}] = Bytes[Bins \ {o}]
    BY <1>1, <2>5, SameBytes
  <2>7. Paired(k)'
    BY <1>1, SetterPaired, PairedKept
  <2>8. g.key = k /\ g.out = o /\ InSet(g)
    BY <1>1, <1>2, <1>5, <2>2 DEF Params, InSet, Removal
  <2> QED
    BY <1>5, <2>4, <2>6, <2>7, <2>8 DEF Counted, MakingRoom, Counting, Fitting, Removal
<1> QED
  BY <1>1, <1>4, <1>5, EvictDoes

LEMMA WritingCounted ==
    ASSUME NEW t, Task = {t}, Ready(t), OpenData(t) \/ WriteData(t) \/ OpenMeta(t)
    PROVE  hurt' = {} /\ Counted(t)'
<1> DEFINE f == task[t]
           g == task'[t]
<1>1. Typed /\ f.at \in {"openData", "writeData", "openMeta"}
  BY DEF Ready, Looked, OpenData, WriteData, OpenMeta, At
<1>2. PICK k \in Key, v \in Val : k = f.key /\ v = f.val
  BY <1>1, SetterShape DEF SetPoints
<1>3. k \in dirs
  BY <1>1, <1>2 DEF Ready, Files, Underway, InSet, SetPoints
<1>4. Fitted(k, v)
  BY <1>1, <1>2 DEF Ready, Counted, Fitting
<1>5. /\ g.at \in Fitting /\ Params(f, g) /\ UNCHANGED hurt
      /\ \A l \in Key \ {k} : data'[l] = data[l]
  <2>1. CASE OpenData(t)
    BY <1>1, <1>2, <1>3, <2>1, OpenDataDoes DEF Fitting
  <2>2. CASE WriteData(t)
    BY <1>1, <1>2, <1>3, <2>2, WriteDataDoes DEF Fitting
  <2>3. CASE OpenMeta(t)
    BY <1>1, <1>2, <1>3, <2>3, OpenMetaDoes DEF Fitting
  <2> QED
    BY <2>1, <2>2, <2>3
<1> QED
  BY <1>2, <1>4, <1>5, FittingCounted DEF Params

LEMMA WriteMetaCounted ==
    ASSUME NEW t, Task = {t}, Ready(t), WriteMeta(t)
    PROVE  hurt' = {} /\ Counted(t)'
<1> DEFINE f == task[t]
<1>1. /\ Typed /\ f.at = "writeMeta" /\ task'[t] = Idle /\ UNCHANGED data
      /\ hurt' = {}
  BY WriteMetaDoes DEF Ready, Looked
<1>2. PICK k \in Key, v \in Val : k = f.key /\ v = f.val
  BY <1>1, SetterShape DEF SetPoints
<1>3. data[k] # NoFile /\ data[k].size = Size[v] /\ k \in Bins
  BY <1>1, <1>2 DEF Ready, Files, Underway, Written, Bins
<1>4. Fitted(k, v)
  BY <1>1, <1>2 DEF Ready, Counted, Fitting
<1>5. Capped
  <2> DEFINE a == Bytes[Bins]
             b == Bytes[Bins \ {k}]
             c == data[k].size
  <2>1. a \in Nat /\ b \in Nat /\ c \in Nat /\ a = c + b
    BY <1>1, <1>3, LessBytes
  <2>2. b + c <= MaxSize \/ Bins \subseteq {k}
    BY <1>3, <1>4 DEF Fitted
  <2> HIDE DEF a, b, c
  <2>3. a <= MaxSize \/ Bins \subseteq {k}
    BY <2>1, <2>2, FilesAssumption
  <2> QED
    BY <2>3 DEF Capped, a
<1>6. Capped'
  BY <1>1, <1>5, CappedKept
<1> QED
  BY <1>1, <1>6, OutsideCounted, IdleShape DEF Quiet

LEMMA FlushCounted ==
    ASSUME NEW t, Task = {t}, Ready(t), Flush(t) \/ RemoveShard(t)
    PROVE  hurt' = {} /\ Counted(t)'
<1>1. CASE Flush(t)
  <2>1. /\ Typed /\ task[t] = Idle /\ task'[t].at = "rmtree" /\ UNCHANGED <<data, hurt>>
        /\ hurt = {}
    BY <1>1, FlushDoes DEF Ready, Looked, Still, files
  <2>2. Capped
    BY <2>1, IdleShape DEF Ready, Counted
  <2>3. Capped'
    BY <2>1, <2>2, CappedKept
  <2> QED
    BY <2>1, <2>3, OutsideCounted
<1>2. CASE RemoveShard(t)
  <2>1. Typed /\ task[t].at = "rmtree" /\ hurt = {}
    BY <1>2, RemoveShardDoes DEF Ready, Looked
  <2>2. PICK k \in Key : /\ data' = [data EXCEPT ![k] = NoFile] /\ hurt' = hurt \ {k}
                         /\ task'[t] = Idle \/ task'[t].at = "rmtree"
    BY <1>2, <2>1, RemoveShardDoes
  <2>3. Capped
    BY <2>1, QuietNoSet DEF Ready, Counted
  <2>4. Capped'
    BY <2>1, <2>2, <2>3, CappedLess
  <2> QED
    BY <2>1, <2>2, <2>4, OutsideCounted, IdleShape DEF Quiet
<1> QED
  BY <1>1, <1>2

LEMMA TickCounted ==
    ASSUME NEW t, Task = {t}, Ready(t), Tick \/ UNCHANGED vars
    PROVE  hurt' = {} /\ Counted(t)'
<1> DEFINE f == task[t]
<1>1. Typed /\ UNCHANGED <<data, meta, task, hurt>> /\ hurt = {} /\ Shape(f)
  BY TaskShape, TickDoes DEF Ready, Looked, vars, files
<1>2. Bins' = Bins /\ Metas' = Metas /\ Bins \in SUBSET Key
      /\ \A k : Bins \ {k} \in SUBSET Key
  BY <1>1 DEF Bins, Metas
<1>3. \A D \in SUBSET Key : Bytes'[D] = Bytes[D]
  BY <1>1, SameBytes
<1>4. \A k : Paired(k) => Paired(k)'
  BY <1>1, PairedKept
<1>5. f.at \in MakingRoom => Paired(f.key)'
  BY <1>1, <1>4 DEF Ready, Counted
<1>6. f.at \in Removal /\ f.then = "evict" /\ f.out # f.key => Paired(f.key)'
  BY <1>1, <1>4 DEF Ready, Counted
<1>7. f.at \in Fitting => Fitted(f.key, f.val)'
  BY <1>1, <1>2, <1>3 DEF Ready, Counted, Fitted
<1>8. ~InSet(f) => Capped'
  BY <1>1, CappedKept DEF Ready, Counted
<1> QED
  BY <1>1, <1>2, <1>3, <1>5, <1>6, <1>7, <1>8 DEF Ready, Counted

LEMMA EmptyBytes == Bytes[{}] = 0
<1>1. {} \in SUBSET Key
  OBVIOUS
<1> QED
  BY <1>1, BytesSum, SumOf DEF Sum


(* A crash is never forgotten. *)
LEMMA CrashedOnce ==
    ASSUME [Next]_vars
    PROVE  UNCHANGED crashed \/ Crash
BY DEF Next, Call, Proceed, Storing, Get, Delete, Set, Sweep, Flush, ReadMeta, ReadData,
       ListBins, StatBins, ListMetas, ReadEntry, Evict, OpenData, WriteData, OpenMeta,
       WriteMeta, NoDirectory, RemoveData, RemoveMeta, ListSweep, SweepEntry, RemoveShard,
       Tick, Step, Forget, vars

LEMMA NextRoom ==
    ASSUME NEW t, Task = {t}, Room(t), [Next]_vars
    PROVE  Room(t)'
<1>1. Files(t)' /\ Looked(t)'
  BY NextKeepsFiles, NextLooked DEF Room
<1> SUFFICES ASSUME ~crashed' PROVE hurt' = {} /\ Counted(t)'
  BY <1>1 DEF Room
<1>2. Typed /\ (Crash => crashed' = TRUE)
  BY CrashDoes DEF Room, Looked
<1>3. CASE Ready(t)
  <2>1. CASE Call(t)
    BY <1>2, <1>3, <2>1, GetDoes, DeleteDoes, SweepDoes, ReadsCounted, SetCounted,
       FlushCounted DEF Call
  <2>2. CASE Storing(t)
    BY <1>3, <2>2, ListingCounted, StatBinsCounted, EvictCounted, WritingCounted,
       WriteMetaCounted DEF Storing
  <2>3. CASE ReadMeta(t) \/ ReadData(t) \/ ListSweep(t) \/ SweepEntry(t)
    BY <1>2, <1>3, <2>3, ReadMetaDoes, ReadDataDoes, ListSweepDoes, SweepEntryDoes,
       ReadsCounted
  <2>4. CASE Proceed(t)
    BY <1>3, <2>2, <2>3, <2>4, RemoveDataCounted, RemoveMetaCounted, FlushCounted
       DEF Proceed
  <2> QED
    BY <1>2, <1>3, <2>1, <2>4, TickCounted DEF Next
<1>4. CASE crashed
  <2>1. UNCHANGED crashed \/ Crash
    BY CrashedOnce, <1>2
  <2> QED
    BY <1>2, <1>4, <2>1
<1> QED
  BY <1>3, <1>4 DEF Room, Ready

LEMMA AlwaysRoom ==
    ASSUME NEW t, Task = {t}
    PROVE  Spec => []Room(t)
<1>1. Init => Room(t)
  <2> SUFFICES ASSUME Init PROVE Room(t)
    OBVIOUS
  <2>1. Files(t) /\ Looked(t) /\ task[t] = Idle /\ hurt = {} /\ Bins = {}
    BY InitFiles, InitLooked DEF Init, Bins
  <2>2. Capped
    BY <2>1, EmptyBytes, FilesAssumption DEF Capped
  <2> QED
    BY <2>1, <2>2, IdleShape DEF Room, Counted, MakingRoom, Counting, Fitting, Removal
<1>2. Room(t) /\ [Next]_vars => Room(t)'
  BY NextRoom
<1> QED
  BY <1>1, <1>2, PTL DEF Spec

(* max_size_bytes is enforced (class doc, local.py 24): as long as there   *)
(* was no crash, the data files fit between the calls of one task, but for *)
(* a value that does not fit alone.                                        *)
THEOREM CapacityHolds ==
    ASSUME NEW t, Task = {t}
    PROVE  Spec => []CapacityKept
<1>1. Room(t) => CapacityKept
  <2> SUFFICES ASSUME Room(t), AllFree, ~crashed
               PROVE  Bytes[Bins] <= MaxSize \/ Cardinality(Bins) = 1
    BY DEF CapacityKept
  <2>1. Capped
    BY IdleShape DEF AllFree, Free, Room, Counted
  <2>2. CASE Bins = {}
    BY <2>2, EmptyBytes, FilesAssumption
  <2>3. ASSUME NEW k \in Key, Bins \subseteq {k}, Bins # {} PROVE Cardinality(Bins) = 1
    <3>1. Bins = {k}
      BY <2>3
    <3> QED
      BY <3>1, FS_Singleton
  <2> QED
    BY <2>1, <2>2, <2>3 DEF Capped
<1> QED
  BY <1>1, AlwaysRoom, PTL
===============================================================================
