--------------------------- MODULE MongoDBBackend ---------------------------
(***************************************************************************)
(* MongoDBBackend (src/tiercache/backends/dry/mongodb.py): files in GridFS *)
(* with their key as metadata, found by that key and removed by their id.  *)
(* Nothing keeps two files from having one key, and removing a file that   *)
(* is gone raises NoFile.                                                  *)
(***************************************************************************)
EXTENDS DocumentStore

FileCall(t) ==
    \/ \E k \in Key, call \in {"get", "set", "delete"} : Begin(t, call, k, "find")
    \/ \E call \in {"flush", "keys"} : Begin(t, call, NoKey, "find")

(* What comes when the files found are removed. *)
Removed(frame, left) ==
    IF left # {} THEN [frame EXCEPT !.at = "deleteFile", !.todo = left]
    ELSE IF frame.call = "set" THEN [frame EXCEPT !.at = "upload", !.todo = {}]
    ELSE Returned([frame EXCEPT !.todo = {}])

(* Mutant: an expired file is removed by its key, like an S3 object. *)
FindOneOfKey(t) ==
    LET f == task[t]
    IN  /\ f.call = "get"
        /\ \/ Of(f.key) = {} /\ Request(t, "find", Returned(f))
           \/ \E d \in Of(f.key) :
                 Request(t, "find",
                         IF d.past THEN [f EXCEPT !.at = "deleteFile", !.todo = IdsOf(Of(f.key))]
                         ELSE [f EXCEPT !.at = "download", !.todo = {d.id}])

(* get looks at the first file it finds, whichever that is. *)
FindOne(t) ==
    LET f == task[t]
    IN  /\ f.call = "get"
        /\ \/ Of(f.key) = {} /\ Request(t, "find", Returned(f))
           \/ \E d \in Of(f.key) :
                 Request(t, "find",
                         [f EXCEPT !.at = IF d.past THEN "deleteFile" ELSE "download",
                                   !.todo = {d.id}])

(* Mutant: set and delete look at the first file only. *)
FindFirst(t) ==
    LET f == task[t]
    IN  /\ f.call \in {"set", "delete"}
        /\ \/ Of(f.key) = {} /\ Request(t, "find", Removed(f, {}))
           \/ \E d \in Of(f.key) : Request(t, "find", Removed(f, {d.id}))

FindAll(t) ==
    LET f == task[t]
    IN  /\ f.call \in {"set", "delete", "flush"}
        /\ Request(t, "find",
                   Removed(f, IdsOf(IF f.call = "flush" THEN docs ELSE Of(f.key))))

(* keys has read the time before: what has expired since may pass. *)
FindPast(t) ==
    /\ task[t].call = "keys"
    /\ \E D \in SUBSET Past(docs) : Request(t, "find", Removed(task[t], IdsOf(D)))

DeleteFile(t) ==
    \E i \in task[t].todo :
        IF i \in IdsOf(docs)
        THEN Remove(t, "deleteFile", WithIds({i}), Removed(task[t], task[t].todo \ {i}))
        ELSE Request(t, "deleteFile", Raised([task[t] EXCEPT !.todo = {}]))

Download(t) ==
    LET f == [task[t] EXCEPT !.todo = {}]
    IN  Request(t, "download",
                IF task[t].todo \subseteq IdsOf(docs) THEN Returned(f) ELSE Raised(f))

(* Mutant: the metadata leaves the key out. *)
UploadKeyless(t) ==
    /\ At(t, "upload")
    /\ Go(t, Returned(task[t]))
    /\ docs' = docs \cup {[id |-> [key |-> NoKey, by |-> t, n |-> 1], past |-> FALSE]}
    /\ UNCHANGED <<backend, begun>>

Upload(t) == Store(t, "upload", {})

MongoCall(t) == backend = "mongodb" /\ FileCall(t)

MongoProceed(t) ==
    \/ FindOne(t) \/ FindAll(t) \/ FindPast(t)
    \/ DeleteFile(t) \/ Download(t) \/ Upload(t)
=============================================================================
