------------------------------ MODULE RemoteDry ------------------------------
(***************************************************************************)
(* The remote dry backends, S3 and MongoDB, each called by several tasks   *)
(* that may be of one process or of several, and what both promise.        *)
(***************************************************************************)
EXTENDS S3Backend, MongoDBBackend

Proceed(t) == S3Proceed(t) \/ MongoProceed(t) \/ Return(t)

Next ==
    \/ \E t \in Task : S3Call(t) \/ MongoCall(t) \/ Proceed(t) \/ Abort(t)
    \/ \E d \in docs : Lapse(d)

Spec == Init /\ [][Next]_vars
-----------------------------------------------------------------------------
(* Every variable holds what the code could put there. *)
TypeOK ==
    /\ backend \in {"s3", "mongodb"}
    /\ docs \subseteq Doc
    /\ task \in [Task -> Frame]
    /\ begun \in [Task -> SUBSET Id]

(***************************************************************************)
(* However sets of one key overlap, and wherever they are cut off, each    *)
(* task leaves at most one document of the key behind: the number of       *)
(* copies is bounded by the number of callers, and never grows from call   *)
(* to call (mongodb.py 65: "Delete existing entry for this key first").    *)
(***************************************************************************)
OneDocumentPerWriter ==
    \A d, e \in docs : d.id.key = e.id.key /\ d.id.by = e.id.by => d = e

(***************************************************************************)
(* A set, delete or flush that returns has asked for the removal of every  *)
(* document of its keys that was there when it began, whatever other calls *)
(* and its own pages and loops did in between: it is gone, unless S3 has   *)
(* refused to remove that one for a flush, which then returns all the same *)
(* (s3.py 97-106, mongodb.py 62-90).                                       *)
(***************************************************************************)
ReplacesWhatWasThere ==
    \A t \in Task :
        At(t, "returned") /\ task[t].call \in {"set", "delete", "flush"} => begun[t] = {}

(***************************************************************************)
(* get and keys remove what has expired.  MongoDB removes files by id and  *)
(* only those; S3 removes objects by key, and so may remove a live one in  *)
(* place of the expired one it saw, but only one that was put after the    *)
(* call began (s3.py 69-73, 128-135; mongodb.py 54-57, 104-112).           *)
(***************************************************************************)
RemovesOnlyExpired ==
    [][\A t \in Task, d \in docs :
          task[t].call \in {"get", "keys"} /\ task'[t] # task[t] /\ d.id \notin IdsOf(docs')
             => d.past \/ (backend = "s3" /\ d.id \notin begun[t])]_vars

=============================================================================
