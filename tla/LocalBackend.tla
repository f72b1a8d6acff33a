---------------------------- MODULE LocalBackend ----------------------------
(***************************************************************************)
(* LocalBackend (src/tiercache/backends/dry/local.py): a value per data    *)
(* file with a JSON sidecar, called from the tasks of one event loop.      *)
(*                                                                         *)
(* There is no lock.  The file operations are awaited in threads, so a     *)
(* call is a sequence of steps that the steps of other calls fall between. *)
(* Opening a file for writing, writing it, removing it and listing a       *)
(* directory are steps of their own; opening, reading and closing a file   *)
(* that is read are one, and so are the stats of size_bytes and the        *)
(* removal of a shard by a flush.  A file opened for writing is empty      *)
(* until the write lands; by is who has it open, and a removed file takes  *)
(* what is written to it later with it.  Every key has a shard directory   *)
(* of its own here.                                                        *)
(*                                                                         *)
(* meant, hurt and crashed are history: the value last set for a key and   *)
(* not deleted, evicted or expired since; the keys whose files a call that *)
(* a crash cut short was changing, and nobody has set or removed since;    *)
(* and whether there was a crash at all.                                   *)
(***************************************************************************)
EXTENDS Integers, FiniteSets

CONSTANTS Task, Key, Val,
          Size,         \* Size[v] is the length of the packed v
          MaxSize,      \* max_size_bytes
          TTL,          \* the ttl_seconds set is given; None is 0 here
          NoVal, NoKey, NoFile,
          Blank,        \* a sidecar opened and not yet written
          Torn,         \* content that cannot be unpacked or parsed
          MaxTime,      \* the clock stops here (bound for TLC)
          MayCrash      \* the process may end and start again

Note == [created : Nat, ttl : TTL, size : Nat]
DataFile == [val : Val \cup {Torn}, size : Nat, by : SUBSET Task]
MetaFile == [note : Note \cup {Blank, Torn}, by : SUBSET Task]

ASSUME FilesAssumption ==
    /\ IsFiniteSet(Key) /\ IsFiniteSet(Task)
    /\ Size \in [Val -> Nat \ {0}] /\ MaxSize \in Nat
    /\ TTL \subseteq Nat /\ MaxTime \in Nat /\ MayCrash \in BOOLEAN
    /\ NoVal \notin Val /\ Torn \notin Val /\ NoKey \notin Key
    /\ NoFile \notin DataFile \cup MetaFile
    /\ Blank \notin Note /\ Torn \notin Note

VARIABLES data, meta, dirs, now, task, meant, hurt, crashed

files == <<data, meta, dirs>>
vars == <<data, meta, dirs, now, task, meant, hurt, crashed>>

Entry == [key : Key, created : Nat, size : Nat]

Points == {"idle", "readMeta", "readData", "listBins", "statBins", "listMetas",
           "readEntry", "evict", "openData", "writeData", "openMeta",
           "writeMeta", "removeData", "removeMeta", "listSweep", "sweep", "rmtree"}

(* todo: the keys still to look at; found: the entries read so far; out:   *)
(* the key whose files go, and then: where its removal leads.              *)
Frame == [at : Points, key : Key \cup {NoKey}, val : Val \cup {NoVal},
          ttl : TTL \cup {0}, created : Nat, todo : SUBSET Key,
          found : SUBSET Entry, current : Int,
          out : Key \cup {NoKey}, then : Points]

Idle == [at |-> "idle", key |-> NoKey, val |-> NoVal, ttl |-> 0, created |-> 0,
         todo |-> {}, found |-> {}, current |-> 0, out |-> NoKey, then |-> "idle"]

Free(t) == task[t] = Idle
At(t, point) == task[t].at = point
Go(t, frame) == task' = [task EXCEPT ![t] = frame]
Bins == {k \in Key : data[k] # NoFile}
Metas == {k \in Key : meta[k] # NoFile}

(* What _read_meta makes of the sidecar: None when missing or not JSON. *)
Noted(k) == k \in Metas /\ meta[k].note \notin {Blank, Torn}
Expired(k) == Noted(k) /\ meta[k].note.ttl # 0
                       /\ now > meta[k].note.created + meta[k].note.ttl

EntryOf(k) ==
    [key |-> k, created |-> meta[k].note.created, size |-> meta[k].note.size]

Bytes[D \in SUBSET Key] ==
    IF D = {} THEN 0
    ELSE LET k == CHOOSE k \in D : TRUE IN data[k].size + Bytes[D \ {k}]

Init ==
    /\ data = [k \in Key |-> NoFile]
    /\ meta = [k \in Key |-> NoFile]
    /\ dirs = {}
    /\ now = 0
    /\ task = [t \in Task |-> Idle]
    /\ meant = [k \in Key |-> NoVal]
    /\ hurt = {}
    /\ crashed = FALSE

(* The task at this point goes on: without changing a file ... *)
Step(t, point, frame) ==
    At(t, point) /\ Go(t, frame) /\ UNCHANGED <<files, now, meant, hurt, crashed>>

(* ... or having given up the value of k. *)
Forget(t, point, frame, k) ==
    /\ At(t, point) /\ Go(t, frame)
    /\ meant' = [meant EXCEPT ![k] = NoVal]
    /\ UNCHANGED <<files, now, hurt, crashed>>
-----------------------------------------------------------------------------
(***************************************************************************)
(* _remove_files: the data, then the sidecar, and on with the caller.      *)
(***************************************************************************)
Removing(frame, k, then) ==
    [frame EXCEPT !.at = "removeData", !.out = k, !.then = then]

Removed(frame) ==
    IF frame.then = "idle" THEN Idle
    ELSE [frame EXCEPT !.at = frame.then, !.out = NoKey, !.then = "idle"]

RemoveData(t) ==
    /\ At(t, "removeData")
    /\ data' = [data EXCEPT ![task[t].out] = NoFile]
    /\ Go(t, [task[t] EXCEPT !.at = "removeMeta"])
    /\ UNCHANGED <<meta, dirs, now, meant, hurt, crashed>>

(* Mutant: the sidecar is left behind. *)
RemoveMetaNot(t) == Step(t, "removeMeta", Removed(task[t]))

RemoveMeta(t) ==
    /\ At(t, "removeMeta")
    /\ meta' = [meta EXCEPT ![task[t].out] = NoFile]
    /\ Go(t, Removed(task[t]))
    /\ hurt' = hurt \ {task[t].out}
    /\ UNCHANGED <<data, dirs, now, meant, crashed>>

Delete(t, k) == Forget(t, "idle", Removing([Idle EXCEPT !.key = k], k, "idle"), k)
-----------------------------------------------------------------------------
(***************************************************************************)
(* get.  It reads the sidecar, then the data; missing or torn data raises. *)
(***************************************************************************)
Get(t, k) ==
    k \in Bins /\ Step(t, "idle", [Idle EXCEPT !.at = "readMeta", !.key = k])

ReadMeta(t) ==
    LET k == task[t].key
    IN  IF Expired(k) THEN Forget(t, "readMeta", Removing(task[t], k, "idle"), k)
        ELSE Step(t, "readMeta",
                  IF Noted(k) THEN [task[t] EXCEPT !.at = "readData"] ELSE Idle)

ReadData(t) == Step(t, "readData", Idle)
-----------------------------------------------------------------------------
(***************************************************************************)
(* set: the shard directory, room, the data, the sidecar.                  *)
(***************************************************************************)
Set(t, k, v, ttl) ==
    /\ Free(t)
    /\ dirs' = dirs \cup {k}
    /\ Go(t, [Idle EXCEPT !.at = "listBins", !.key = k, !.val = v, !.ttl = ttl])
    /\ meant' = [meant EXCEPT ![k] = v]
    /\ UNCHANGED <<data, meta, now, hurt, crashed>>

(* size_bytes lists the data files, and asks the size of each. *)
ListBins(t) ==
    Step(t, "listBins", [task[t] EXCEPT !.at = "statBins", !.todo = Bins])

(* Mutant: the size of what comes is left out. *)
FitsAlready(frame, current) == current <= MaxSize

Fits(frame, current) == current + Size[frame.val] <= MaxSize

(* A file that is gone by now makes stat raise, and the set with it. *)
StatBins(t) ==
    LET todo == task[t].todo
        roomy == Fits(task[t], Bytes[todo])
    IN  Step(t, "statBins",
             IF ~(todo \subseteq Bins) THEN Idle
             ELSE [task[t] EXCEPT !.at = IF roomy THEN "openData" ELSE "listMetas",
                                  !.todo = {}, !.current = Bytes[todo]])

ListMetas(t) ==
    Step(t, "listMetas",
         [task[t] EXCEPT !.at = IF Metas = {} THEN "evict" ELSE "readEntry",
                         !.todo = Metas])

ReadEntry(t) ==
    \E k \in task[t].todo :
       Step(t, "readEntry",
            [task[t] EXCEPT !.at = IF task[t].todo = {k} THEN "evict" ELSE @,
                            !.todo = @ \ {k},
                            !.found = IF Noted(k) THEN @ \cup {EntryOf(k)} ELSE @])

(* Mutant: sorted the other way. *)
Newest(found) == {e \in found : \A f \in found : e.created >= f.created}

Oldest(found) == {e \in found : \A f \in found : e.created <= f.created}

(* Mutant: an entry that was evicted is met again. *)
EvictAgain(t) ==
    /\ At(t, "evict")
    /\ IF Fits(task[t], task[t].current) \/ task[t].found = {}
       THEN Step(t, "evict",
                 [task[t] EXCEPT !.at = "openData", !.found = {}, !.current = 0])
       ELSE \E e \in Oldest(task[t].found) :
            LET less == [task[t] EXCEPT !.current = @ - e.size]
                frame == Removing(less, e.key, "evict")
            IN  IF e.key = task[t].key THEN Step(t, "evict", frame)
                                       ELSE Forget(t, "evict", frame, e.key)

(* The entry may be an older one of the very key that is being set. *)
Evict(t) ==
    /\ At(t, "evict")
    /\ IF Fits(task[t], task[t].current) \/ task[t].found = {}
       THEN Step(t, "evict",
                 [task[t] EXCEPT !.at = "openData", !.found = {}, !.current = 0])
       ELSE \E e \in Oldest(task[t].found) :
            LET less == [task[t] EXCEPT !.found = @ \ {e}, !.current = @ - e.size]
                frame == Removing(less, e.key, "evict")
            IN  IF e.key = task[t].key THEN Step(t, "evict", frame)
                                       ELSE Forget(t, "evict", frame, e.key)

Opened(file, t, empty) ==
    IF file = NoFile THEN [empty EXCEPT !.by = {t}]
    ELSE [empty EXCEPT !.by = file.by \cup {t}]

(* Opening raises when a flush took the directory. *)
NoDirectory(t) == task[t].key \notin dirs /\ Step(t, task[t].at, Idle)

OpenData(t) ==
    /\ At(t, "openData")
    /\ \/ NoDirectory(t)
       \/ /\ task[t].key \in dirs
          /\ data' = [data EXCEPT ![task[t].key] =
                         Opened(@, t, [val |-> Torn, size |-> 0, by |-> {}])]
          /\ Go(t, [task[t] EXCEPT !.at = "writeData", !.current = 0])
          /\ UNCHANGED <<meta, dirs, now, meant, hurt, crashed>>

(* Over a longer value that another task has written, the tail stays. *)
WrittenData(file, t, v) ==
    IF file = NoFile \/ t \notin file.by THEN file
    ELSE IF file.size <= Size[v] THEN [val |-> v, size |-> Size[v], by |-> file.by \ {t}]
    ELSE [file EXCEPT !.val = Torn, !.by = @ \ {t}]

WriteData(t) ==
    /\ At(t, "writeData")
    /\ data' = [data EXCEPT ![task[t].key] = WrittenData(@, t, task[t].val)]
    /\ Go(t, [task[t] EXCEPT !.at = "openMeta", !.created = now])
    /\ UNCHANGED <<meta, dirs, now, meant, hurt, crashed>>

OpenMeta(t) ==
    /\ At(t, "openMeta")
    /\ \/ NoDirectory(t)
       \/ /\ task[t].key \in dirs
          /\ meta' = [meta EXCEPT ![task[t].key] =
                         Opened(@, t, [note |-> Blank, by |-> {}])]
          /\ Go(t, [task[t] EXCEPT !.at = "writeMeta"])
          /\ UNCHANGED <<data, dirs, now, meant, hurt, crashed>>

(* Over the sidecar of another task, some of that one may stay. *)
WrittenMeta(file, t, note) ==
    IF file = NoFile \/ t \notin file.by THEN {file}
    ELSE {[note |-> n, by |-> file.by \ {t}] :
             n \in {note} \cup (IF file.note = Blank THEN {} ELSE {Torn})}

(* Mutant: the sidecar has the instant of expiry in place of the ttl. *)
NoteDeadline(f) ==
    [created |-> f.created, ttl |-> f.created + f.ttl + 1, size |-> Size[f.val]]

NoteOf(f) == [created |-> f.created, ttl |-> f.ttl, size |-> Size[f.val]]

WriteMeta(t) ==
    /\ At(t, "writeMeta")
    /\ \E file \in WrittenMeta(meta[task[t].key], t, NoteOf(task[t])) :
          meta' = [meta EXCEPT ![task[t].key] = file]
    /\ Go(t, Idle)
    /\ hurt' = hurt \ {task[t].key}
    /\ UNCHANGED <<data, dirs, now, meant, crashed>>

Storing(t) ==
    \/ ListBins(t) \/ StatBins(t) \/ ListMetas(t) \/ ReadEntry(t) \/ Evict(t)
    \/ OpenData(t) \/ WriteData(t) \/ OpenMeta(t) \/ WriteMeta(t)
-----------------------------------------------------------------------------
(***************************************************************************)
(* keys and cleanup_expired: both remove what they find expired.           *)
(***************************************************************************)
Sweep(t) == Step(t, "idle", [Idle EXCEPT !.at = "listSweep"])

ListSweep(t) ==
    Step(t, "listSweep",
         IF Metas = {} THEN Idle ELSE [task[t] EXCEPT !.at = "sweep", !.todo = Metas])

After(t, k) == IF task[t].todo = {k} THEN "idle" ELSE "sweep"
Left(t, k) == [task[t] EXCEPT !.todo = @ \ {k}]

SweepEntry(t) ==
    \E k \in task[t].todo :
       IF Expired(k) THEN Forget(t, "sweep", Removing(Left(t, k), k, After(t, k)), k)
       ELSE Step(t, "sweep", IF After(t, k) = "idle" THEN Idle ELSE Left(t, k))
-----------------------------------------------------------------------------
(* flush: rmtree takes one shard after the other. *)
Flush(t) ==
    /\ Free(t)
    /\ dirs # {}
    /\ Go(t, [Idle EXCEPT !.at = "rmtree", !.todo = dirs])
    /\ meant' = [k \in Key |-> NoVal]
    /\ UNCHANGED <<files, now, hurt, crashed>>

RemoveShard(t) ==
    /\ At(t, "rmtree")
    /\ \E k \in task[t].todo :
          /\ data' = [data EXCEPT ![k] = NoFile]
          /\ meta' = [meta EXCEPT ![k] = NoFile]
          /\ dirs' = dirs \ {k}
          /\ hurt' = hurt \ {k}
          /\ Go(t, IF task[t].todo = {k} THEN Idle ELSE Left(t, k))
    /\ UNCHANGED <<now, meant, crashed>>
-----------------------------------------------------------------------------
Tick ==
    /\ now < MaxTime
    /\ now' = now + 1
    /\ UNCHANGED <<files, task, meant, hurt, crashed>>

(* The keys whose files a call is changing. *)
Changing(t) ==
    {k \in Key : \/ k = task[t].key /\ task[t].val # NoVal
                 \/ k = task[t].out
                 \/ k \in task[t].todo /\ At(t, "rmtree")}

(* What was not written when the process ends is lost. *)
Crash ==
    /\ MayCrash
    /\ \E t \in Task : ~Free(t)
    /\ data' = [k \in Key |-> IF k \in Bins THEN [data[k] EXCEPT !.by = {}] ELSE NoFile]
    /\ meta' = [k \in Key |-> IF k \in Metas THEN [meta[k] EXCEPT !.by = {}] ELSE NoFile]
    /\ task' = [t \in Task |-> Idle]
    /\ crashed' = TRUE
    /\ hurt' = hurt \cup UNION {Changing(t) : t \in Task}
    /\ UNCHANGED <<dirs, now, meant>>

Call(t) ==
    \/ \E k \in Key : Get(t, k) \/ Delete(t, k)
    \/ \E k \in Key, v \in Val, ttl \in TTL : Set(t, k, v, ttl)
    \/ Sweep(t)
    \/ Flush(t)

Proceed(t) ==
    \/ ReadMeta(t) \/ ReadData(t)
    \/ Storing(t)
    \/ RemoveData(t) \/ RemoveMeta(t)
    \/ ListSweep(t) \/ SweepEntry(t)
    \/ RemoveShard(t)

Next == (\E t \in Task : Call(t) \/ Proceed(t)) \/ Tick \/ Crash

Spec == Init /\ [][Next]_vars
-----------------------------------------------------------------------------
AllFree == \A t \in Task : Free(t)

(* Every variable holds what the code could put there. *)
TypeOK ==
    /\ data \in [Key -> DataFile \cup {NoFile}]
    /\ meta \in [Key -> MetaFile \cup {NoFile}]
    /\ dirs \subseteq Key /\ hurt \subseteq Key /\ crashed \in BOOLEAN
    /\ now \in 0 .. MaxTime
    /\ task \in [Task -> Frame]
    /\ meant \in [Key -> Val \cup {NoVal}]

(***************************************************************************)
(* Between the calls of one task the files are a map with the values last  *)
(* set: a key has both files or none, the data is the value it was set to, *)
(* and the sidecar has its size; and every file is in a directory that a   *)
(* flush will find.  A crash costs the keys of the call it cuts short and  *)
(* no other, and those until they are next set or removed (local.py 39-77, *)
(* 119-138).                                                               *)
(***************************************************************************)
Matching(k) ==
    /\ k \in Bins \cup Metas => k \in Bins \cap Metas \cap dirs /\ Noted(k)
    /\ k \in Bins => meta[k].note.size = data[k].size
    /\ meant[k] = IF k \in Bins THEN data[k].val ELSE NoVal

FilesAreTheMap == AllFree => \A k \in Key \ hurt : Matching(k)

(***************************************************************************)
(* A get that has found the key answers with a value (backends/base.py 13: *)
(* "Return value for key, or MISS"): what it is about to read is there and *)
(* can be unpacked.                                                        *)
(***************************************************************************)
GetAnswers ==
    \A t \in Task : At(t, "readData") =>
        task[t].key \in Bins /\ data[task[t].key].val # Torn

(***************************************************************************)
(* max_size_bytes is enforced (class doc, local.py 24): between calls the  *)
(* data files fit, but for a value that does not fit alone - as long as    *)
(* there was no crash.  After one, data without a sidecar is counted and   *)
(* never evicted, and a sidecar may claim more bytes than its data frees.  *)
(***************************************************************************)
CapacityKept ==
    AllFree /\ ~crashed => Bytes[Bins] <= MaxSize \/ Cardinality(Bins) = 1

(***************************************************************************)
(* Oldest files are evicted first (class doc, local.py 24-25): when a set  *)
(* picks a key to make room, no other key was written before it.           *)
(***************************************************************************)
EvictsOldest ==
    [][\A t \in Task, out \in Key : Evict(t) /\ task'[t].out = out /\ Noted(out) =>
          \A k \in Metas : Noted(k) =>
              meta[out].note.created <= meta[k].note.created]_vars

(***************************************************************************)
(* A call comes closer to its end with each of its steps, whatever other   *)
(* calls and crashes do to the files it has listed: it is past more of its *)
(* stages, or has less left of the list its stage works through, or is     *)
(* further with the removal of one entry of that list (local.py 41-138).   *)
(***************************************************************************)
Removal == {"removeData", "removeMeta"}

(* Removing an entry belongs to the stage it leads back to. *)
Stage(f) == IF f.at \in Removal THEN f.then ELSE f.at

StagesLeft ==
    [idle |-> 0, writeMeta |-> 1, openMeta |-> 2, writeData |-> 3, openData |-> 4,
     evict |-> 5, readEntry |-> 6, listMetas |-> 7, statBins |-> 8, listBins |-> 9,
     readData |-> 1, readMeta |-> 2, sweep |-> 1, listSweep |-> 2, rmtree |-> 1]

WorkLeft(f) == IF Stage(f) = "evict" THEN f.found ELSE f.todo

RemovalLeft(f) ==
    CASE f.at = "removeData" -> 2 [] f.at = "removeMeta" -> 1 [] OTHER -> 0

Closer(f, g) ==
    \/ StagesLeft[Stage(f)] < StagesLeft[Stage(g)]
    \/ /\ Stage(f) = Stage(g)
       /\ \/ WorkLeft(f) \subseteq WorkLeft(g) /\ WorkLeft(f) # WorkLeft(g)
          \/ WorkLeft(f) = WorkLeft(g) /\ RemovalLeft(f) < RemovalLeft(g)

Advances ==
    [][\A t \in Task : ~Free(t) /\ task'[t] # task[t]
          => Closer(task'[t], task[t])]_vars
=============================================================================
