----------------------------- MODULE S3Backend -----------------------------
(***************************************************************************)
(* S3Backend (src/tiercache/backends/dry/s3.py): one object per key, which *)
(* a put replaces and a delete removes whatever object it is by then.      *)
(* Listings come in pages, each of them what the bucket holds when it is   *)
(* asked for.                                                              *)
(***************************************************************************)
EXTENDS DocumentStore, FiniteSets

CONSTANT PageSize       \* keys in a page of list_objects_v2

ASSUME PageAssumption == PageSize \in Nat \ {0}

Call(t) ==
    \/ \E k \in Key :
          \/ Begin(t, "get", k, "getObject")
          \/ Begin(t, "set", k, "putObject")
          \/ Begin(t, "delete", k, "deleteObject")
    \/ \E call \in {"flush", "keys"} : Begin(t, call, NoKey, "listPage")

(* An error in the request is answered like a missing object. *)
GetObject(t) ==
    Request(t, "getObject", IF Past(Of(task[t].key)) # {}
                            THEN [task[t] EXCEPT !.at = "deleteObject"]
                            ELSE Returned(task[t]))

PutObject(t) == Store(t, "putObject", Of(task[t].key))

(* Mutant: the first page is all there is. *)
OnwardOnePage(frame, point, page) ==
    IF page # {} THEN [frame EXCEPT !.at = point, !.page = page, !.key = NoKey]
    ELSE Returned([frame EXCEPT !.page = {}, !.key = NoKey])

(* The next object of the page, the next page, or the end. *)
Onward(frame, point, page) ==
    IF page # {} THEN [frame EXCEPT !.at = point, !.page = page, !.key = NoKey]
    ELSE IF frame.more THEN [frame EXCEPT !.at = "listPage", !.page = {}, !.key = NoKey]
    ELSE Returned([frame EXCEPT !.page = {}, !.key = NoKey])

(* delete, also the one get and keys do when they have seen an object that *)
(* has expired.                                                            *)
DeleteObject(t) ==
    LET f == task[t]
    IN  Remove(t, "deleteObject", Of(f.key),
               IF f.call = "keys" THEN Onward(f, "headObject", f.page \ {f.key})
                                  ELSE Returned(f))

After(frame) == {i.key : i \in {j \in IdsOf(docs) : j.key > frame.marker}}

(* The first keys of those left, as many as the server puts into a page. *)
PagesOf(rest) ==
    {page \in SUBSET rest : /\ page # {} /\ Cardinality(page) <= PageSize
                            /\ \A k \in page, j \in rest : j < k => j \in page}

ListPage(t) ==
    LET f == task[t]
        rest == After(f)
    IN  \/ rest = {} /\ Request(t, "listPage", Returned(f))
        \/ \E page \in PagesOf(rest), last \in rest :
              /\ last \in page /\ \A j \in page : j <= last
              /\ Request(t, "listPage",
                         [f EXCEPT !.at = IF f.call = "flush" THEN "deleteObjects" ELSE "headObject",
                                   !.page = page, !.marker = last, !.more = rest # page])

(* The server goes through the objects of a delete_objects one by one.     *)
(* One it does not remove is among the Errors of its answer, which nobody  *)
(* looks at.                                                               *)
DeleteObjects(t) ==
    \E k \in task[t].page :
        LET frame == Onward(task[t], "deleteObjects", task[t].page \ {k})
        IN  \/ Remove(t, "deleteObjects", Of(k), frame)
            \/ Refuse(t, "deleteObjects", Of(k), frame)

(* keys asks for each object listed, in order; one that is gone makes it   *)
(* raise.                                                                  *)
HeadObject(t) ==
    LET f == task[t]
    IN  \E k \in f.page :
          /\ \A j \in f.page : k <= j
          /\ Request(t, "headObject",
                     IF Of(k) = {} THEN Raised(f)
                     ELSE IF Past(Of(k)) # {} THEN [f EXCEPT !.at = "deleteObject", !.key = k]
                     ELSE Onward(f, "headObject", f.page \ {k}))

S3Call(t) == backend = "s3" /\ Call(t)

S3Proceed(t) ==
    \/ GetObject(t) \/ PutObject(t) \/ DeleteObject(t)
    \/ ListPage(t) \/ DeleteObjects(t) \/ HeadObject(t)
=============================================================================
