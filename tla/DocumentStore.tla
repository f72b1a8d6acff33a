--------------------------- MODULE DocumentStore ---------------------------
(***************************************************************************)
(* What the two remote dry backends have in common: a server that keeps    *)
(* documents, and tasks whose calls reach it one request after the other.  *)
(* A document is an S3 object or a GridFS file.  Its value is left out:    *)
(* who stored it, under which key, and whether its ttl is over is what the *)
(* properties tell apart, and a number tells it from the one it replaces.  *)
(*                                                                         *)
(* begun[t] is history: the documents the call of t met when it began, but *)
(* for those that are there no longer and those the server refused to      *)
(* remove for that very call.                                              *)
(***************************************************************************)
EXTENDS Naturals

CONSTANTS Task,
          Key,          \* numbers, S3 lists keys in order
          Number,       \* more than there ever are documents of one name
          NoKey

ASSUME KeyAssumption == Key \subseteq Nat \ {0} /\ NoKey \notin Key

VARIABLES backend, docs, task, begun

vars == <<backend, docs, task, begun>>

(* past: it has a ttl, which is over. *)
Id == [key : Key, by : Task, n : Number]
Doc == [id : Id, past : BOOLEAN]

S3Points == {"getObject", "putObject", "deleteObject", "listPage", "deleteObjects",
             "headObject"}
MongoPoints == {"find", "deleteFile", "download", "upload"}
Points == S3Points \cup MongoPoints \cup {"idle", "returned", "raised"}

(* page, marker, more: the keys of a page still to look at, the last key   *)
(* of that page, and whether pages follow it.  todo: the files found.      *)
Frame == [call : {"none", "get", "set", "delete", "flush", "keys"}, at : Points,
          key : Key \cup {NoKey},
          page : SUBSET Key, marker : Nat, more : BOOLEAN, todo : SUBSET Id]

Idle == [call |-> "none", at |-> "idle", key |-> NoKey,
         page |-> {}, marker |-> 0, more |-> FALSE, todo |-> {}]

Init ==
    /\ backend \in {"s3", "mongodb"}
    /\ docs = {}
    /\ task = [t \in Task |-> Idle]
    /\ begun = [t \in Task |-> {}]

At(t, point) == task[t].at = point
Free(t) == At(t, "idle")
Go(t, frame) == task' = [task EXCEPT ![t] = frame]
Returned(frame) == [frame EXCEPT !.at = "returned"]
Raised(frame) == [frame EXCEPT !.at = "raised"]

IdsOf(D) == {d.id : d \in D}
Of(k) == {d \in docs : d.id.key = k}
Past(D) == {d \in D : d.past}
WithIds(I) == {d \in docs : d.id \in I}

(* A call of key k begins, or one of no key, which is of all documents. *)
Begin(t, call, k, point) ==
    /\ Free(t)
    /\ Go(t, [Idle EXCEPT !.call = call, !.at = point, !.key = k])
    /\ begun' = [begun EXCEPT ![t] = IdsOf(IF k = NoKey THEN docs ELSE Of(k))]
    /\ UNCHANGED <<backend, docs>>

(* A request that changes nothing on the server. *)
Request(t, point, frame) ==
    At(t, point) /\ Go(t, frame) /\ UNCHANGED <<backend, docs, begun>>

(* One that removes the documents D. *)
Remove(t, point, D, frame) ==
    /\ At(t, point)
    /\ Go(t, frame)
    /\ docs' = docs \ D
    /\ begun' = [u \in Task |-> begun[u] \ IdsOf(D)]
    /\ UNCHANGED backend

(* One that is to remove the documents D and that the server refuses. *)
Refuse(t, point, D, frame) ==
    /\ At(t, point)
    /\ Go(t, frame)
    /\ begun' = [begun EXCEPT ![t] = @ \ IdsOf(D)]
    /\ UNCHANGED <<backend, docs>>

(* One that stores a new document in place of the documents D. *)
Used == IdsOf(docs) \cup UNION {task[t].todo : t \in Task}

NewId(t, k) ==
    [key |-> k, by |-> t,
     n |-> CHOOSE n \in Number : [key |-> k, by |-> t, n |-> n] \notin Used]

Store(t, point, D) ==
    /\ At(t, point)
    /\ NewId(t, task[t].key) \in Id \ Used
    /\ Go(t, Returned(task[t]))
    /\ docs' = (docs \ D) \cup {[id |-> NewId(t, task[t].key), past |-> FALSE]}
    /\ begun' = [u \in Task |-> begun[u] \ IdsOf(D)]
    /\ UNCHANGED backend

Return(t) ==
    /\ At(t, "returned") \/ At(t, "raised")
    /\ Go(t, Idle)
    /\ begun' = [begun EXCEPT ![t] = {}]
    /\ UNCHANGED <<backend, docs>>

(* The call is cancelled, or its process ends, between two requests. *)
Abort(t) ==
    /\ ~Free(t)
    /\ Go(t, Idle)
    /\ begun' = [begun EXCEPT ![t] = {}]
    /\ UNCHANGED <<backend, docs>>

(* The ttl of a document is over; which have one is left open. *)
Lapse(d) ==
    /\ ~d.past
    /\ docs' = (docs \ {d}) \cup {[d EXCEPT !.past = TRUE]}
    /\ UNCHANGED <<backend, task, begun>>
=============================================================================
