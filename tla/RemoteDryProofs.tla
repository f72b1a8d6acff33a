-------------------------- MODULE RemoteDryProofs --------------------------
(***************************************************************************)
(* The properties of RemoteDry hold for any number of tasks, any keys and  *)
(* any page size.  The inductive invariant adds to them what the frame of  *)
(* a call knows of the documents while other calls change them: a set      *)
(* never lacks a document of its own in the files it has found, a flush    *)
(* has what it met still before it, and what is about to be removed as     *)
(* expired is, or is newer than the call.                                  *)
(***************************************************************************)
EXTENDS RemoteDry, TLAPS

Replacing == {"set", "delete", "flush"}
OfOneKey == {"get", "set", "delete"}

OneObjectPerKey ==
    backend = "s3" => \A d, e \in docs : d.id.key = e.id.key => d = e

(* What the frame f of task u knows, with b left of the documents D it met *)
(* when it began, on a server of kind s.                                   *)
Placed(s, f) ==
    /\ f.at \in S3Points => s = "s3"
    /\ f.at \in MongoPoints => s = "mongodb"
    /\ f.at \in {"getObject", "putObject", "deleteObject"} => f.key \in Key
    /\ f.at = "getObject" => f.call = "get"
    /\ f.at \in {"putObject", "upload"} => f.call = "set"
    /\ f.at = "deleteObject" => f.call \in {"get", "delete", "keys"}
    /\ f.at = "listPage" => f.call \in {"flush", "keys"}
    /\ f.at = "deleteObjects" => f.call = "flush"
    /\ f.at = "headObject" => f.call = "keys"
    /\ f.at = "download" => f.call = "get"
    /\ f.at = "deleteFile" => f.call # "none"
    /\ f.call \in OfOneKey => f.key \in Key
    /\ f.at = "upload" => f.todo = {}

(* What is left of the documents met is still before a call that is to     *)
(* replace or remove them.                                                 *)
Before(f, b) ==
    /\ f.call \in OfOneKey => \A i \in b : i.key = f.key
    /\ f.at = "listPage" /\ f.call = "flush" => \A i \in b : i.key > f.marker
    /\ f.at = "deleteObjects" =>
          \A i \in b : i.key \in f.page \/ (f.more /\ i.key > f.marker)
    /\ f.at \in {"deleteFile", "upload"} /\ f.call \in Replacing => b \subseteq f.todo
    /\ f.at = "returned" /\ f.call \in Replacing => b = {}

(* What get and keys are about to remove has expired, or is newer.         *)
Expiring(f, b, D) ==
    /\ f.at = "deleteObject" /\ f.call \in {"get", "keys"} =>
          \A d \in D : d.id.key = f.key => d.past \/ d.id \notin b
    /\ f.at = "deleteFile" /\ f.call \in {"get", "keys"} =>
          \A d \in D : d.id \in f.todo => d.past

(* A set has all documents of its own among those it is to remove.         *)
OwnFound(u, f, D) ==
    f.at \in {"deleteFile", "upload"} /\ f.call = "set" =>
        \A d \in D : d.id.key = f.key /\ d.id.by = u => d.id \in f.todo

Knows(s, u, f, b, D) ==
    /\ b \subseteq IdsOf(D)
    /\ Placed(s, f)
    /\ Before(f, b)
    /\ Expiring(f, b, D)
    /\ OwnFound(u, f, D)

Inv ==
    /\ TypeOK
    /\ OneDocumentPerWriter
    /\ OneObjectPerKey
    /\ \A u \in Task : Knows(backend, u, task[u], begun[u], docs)

(* The empty server, and tasks that call nothing.                          *)
LEMMA InitInv == Init => Inv
<1> SUFFICES ASSUME Init PROVE Inv
  OBVIOUS
<1>1. TypeOK
  BY DEF Init, TypeOK, Idle, Frame, Points
<1>2. OneDocumentPerWriter /\ OneObjectPerKey
  BY DEF Init, OneDocumentPerWriter, OneObjectPerKey
<1>3. ASSUME NEW u \in Task PROVE Knows(backend, u, task[u], begun[u], docs)
  BY DEF Init, Knows, Placed, Before, Expiring, OwnFound, Idle, S3Points, MongoPoints,
         OfOneKey, Replacing, IdsOf
<1> QED
  BY <1>1, <1>2, <1>3 DEF Inv

(***************************************************************************)
(* How the documents may change under a call of u: some go, some expire,   *)
(* and others put new ones, whose ids u has never met.                     *)
(***************************************************************************)
Evolves(u, f, D, E) ==
    \A e \in E :
        \/ \E d \in D : d.id = e.id /\ (d.past => e.past)
        \/ e.id \notin IdsOf(D) /\ e.id \notin f.todo /\ e.id.by # u

LEMMA KnowsOn ==
    ASSUME NEW s, NEW u, NEW f, NEW b, NEW c, NEW D, NEW E,
           Knows(s, u, f, b, D), Evolves(u, f, D, E),
           c \subseteq b, c \subseteq IdsOf(E)
    PROVE  Knows(s, u, f, c, E)
<1>1. Before(f, c)
  BY DEF Knows, Before
<1>2. Expiring(f, c, E)
  <2>1. ASSUME f.at = "deleteObject", f.call \in {"get", "keys"},
               NEW e \in E, e.id.key = f.key
        PROVE  e.past \/ e.id \notin c
    <3>1. CASE e.id \notin IdsOf(D)
      BY <3>1 DEF Knows
    <3>2. CASE \E d \in D : d.id = e.id /\ (d.past => e.past)
      BY <2>1, <3>2 DEF Knows, Expiring
    <3> QED
      BY <3>1, <3>2 DEF Evolves
  <2>2. ASSUME f.at = "deleteFile", f.call \in {"get", "keys"},
               NEW e \in E, e.id \in f.todo
        PROVE  e.past
    BY <2>2 DEF Knows, Expiring, Evolves
  <2> QED
    BY <2>1, <2>2 DEF Expiring
<1>3. OwnFound(u, f, E)
  BY DEF Knows, OwnFound, Evolves
<1> QED
  BY <1>1, <1>2, <1>3 DEF Knows

(* A request that changes nothing on the server.                           *)
LEMMA RequestInv ==
    ASSUME Inv, NEW t \in Task, NEW point, NEW frame \in Frame, Request(t, point, frame),
           Knows(backend, t, frame, begun[t], docs)
    PROVE  Inv'
<1>1. /\ task' = [task EXCEPT ![t] = frame]
      /\ UNCHANGED <<backend, docs, begun>>
  BY DEF Request, Go
<1>2. TypeOK'
  BY <1>1 DEF Inv, TypeOK
<1>3. ASSUME NEW u \in Task PROVE Knows(backend', u, task'[u], begun'[u], docs')
  BY <1>1 DEF Inv, TypeOK
<1>4. OneDocumentPerWriter' /\ OneObjectPerKey'
  BY <1>1 DEF Inv, OneDocumentPerWriter, OneObjectPerKey
<1> QED
  BY <1>2, <1>3, <1>4 DEF Inv

(* What is left of what a call met is there, when the documents X are not. *)
LEMMA LeftOver ==
    ASSUME NEW D, NEW X, NEW b, b \subseteq IdsOf(D)
    PROVE  b \ IdsOf(X) \subseteq IdsOf(D \ X)
BY DEF IdsOf

(* A request that removes documents.                                       *)
LEMMA RemoveInv ==
    ASSUME Inv, NEW t \in Task, NEW point, NEW X \in SUBSET docs, NEW frame \in Frame,
           Remove(t, point, X, frame),
           Knows(backend, t, frame, begun[t] \ IdsOf(X), docs \ X)
    PROVE  Inv'
<1>1. /\ task' = [task EXCEPT ![t] = frame]
      /\ docs' = docs \ X
      /\ begun' = [u \in Task |-> begun[u] \ IdsOf(X)]
      /\ backend' = backend
  BY DEF Remove, Go
<1>2. TypeOK'
  BY <1>1 DEF Inv, TypeOK
<1>3. ASSUME NEW u \in Task, u # t PROVE Knows(backend', u, task'[u], begun'[u], docs')
  <2>1. Knows(backend, u, task[u], begun[u], docs) /\ task'[u] = task[u]
    BY <1>1, <1>3 DEF Inv, TypeOK
  <2>2. Evolves(u, task[u], docs, docs')
    BY <1>1 DEF Evolves
  <2>3. begun'[u] \subseteq begun[u] /\ begun'[u] \subseteq IdsOf(docs')
    BY <1>1, <2>1, LeftOver DEF Knows
  <2> QED
    BY <1>1, <2>1, <2>2, <2>3, KnowsOn
<1>4. Knows(backend', t, task'[t], begun'[t], docs')
  BY <1>1 DEF Inv, TypeOK
<1>5. OneDocumentPerWriter' /\ OneObjectPerKey'
  BY <1>1 DEF Inv, OneDocumentPerWriter, OneObjectPerKey
<1> QED
  BY <1>2, <1>3, <1>4, <1>5 DEF Inv

(* A removal the server refuses: the documents stay, and count no longer   *)
(* among those the call has before it.                                     *)
LEMMA RefuseInv ==
    ASSUME Inv, NEW t \in Task, NEW point, NEW X, NEW frame \in Frame,
           Refuse(t, point, X, frame),
           Knows(backend, t, frame, begun[t] \ IdsOf(X), docs)
    PROVE  Inv'
<1>1. /\ task' = [task EXCEPT ![t] = frame]
      /\ begun' = [begun EXCEPT ![t] = begun[t] \ IdsOf(X)]
      /\ UNCHANGED <<backend, docs>>
  BY DEF Refuse, Go
<1>2. TypeOK'
  BY <1>1 DEF Inv, TypeOK
<1>3. ASSUME NEW u \in Task PROVE Knows(backend', u, task'[u], begun'[u], docs')
  BY <1>1 DEF Inv, TypeOK
<1>4. OneDocumentPerWriter' /\ OneObjectPerKey'
  BY <1>1 DEF Inv, OneDocumentPerWriter, OneObjectPerKey
<1> QED
  BY <1>2, <1>3, <1>4 DEF Inv

(* A set that has removed, or is to replace, all that it met.              *)
LEMMA StoreInv ==
    ASSUME Inv, NEW t \in Task, NEW point, NEW X \in SUBSET docs, Store(t, point, X),
           point \in {"putObject", "upload"},
           begun[t] \subseteq IdsOf(X),
           \A d \in docs \ X : d.id.key = task[t].key =>
               d.id.by # t /\ backend # "s3"
    PROVE  Inv'
<1> DEFINE id == NewId(t, task[t].key)
           new == [id |-> id, past |-> FALSE]
           frame == Returned(task[t])
<1>1. /\ task[t] \in Frame /\ task[t].at = point
      /\ Knows(backend, t, task[t], begun[t], docs)
  BY DEF Inv, TypeOK, Store, At
<1>2. /\ task' = [task EXCEPT ![t] = frame]
      /\ docs' = (docs \ X) \cup {new}
      /\ begun' = [u \in Task |-> begun[u] \ IdsOf(X)]
      /\ backend' = backend
      /\ id \in Id /\ id \notin Used
  BY DEF Store, Go
<1>3. id.key = task[t].key /\ id.by = t
  BY DEF NewId
<1>4. new \in Doc /\ new.id = id /\ new.past = FALSE
  BY <1>2 DEF Doc
<1>5. /\ frame \in Frame /\ frame.at = "returned"
      /\ frame.call = "set" /\ frame.key \in Key /\ task[t].call = "set"
  BY <1>1 DEF Frame, Returned, Points, Knows, Placed, OfOneKey
<1>6. TypeOK'
  BY <1>2, <1>4, <1>5 DEF Inv, TypeOK
<1>7. ASSUME NEW u \in Task, u # t PROVE Knows(backend', u, task'[u], begun'[u], docs')
  <2>1. Knows(backend, u, task[u], begun[u], docs) /\ task'[u] = task[u]
    BY <1>2, <1>7 DEF Inv, TypeOK
  <2>2. id \notin IdsOf(docs) /\ id \notin task[u].todo
    BY <1>2 DEF Used
  <2>3. Evolves(u, task[u], docs, docs')
    BY <1>2, <1>3, <1>4, <1>7, <2>2 DEF Evolves
  <2>4. IdsOf(docs \ X) \subseteq IdsOf(docs')
    BY <1>2 DEF IdsOf
  <2>5. begun'[u] \subseteq begun[u] /\ begun'[u] \subseteq IdsOf(docs')
    BY <1>2, <2>1, <2>4, LeftOver DEF Knows
  <2>6. Knows(backend, u, task[u], begun'[u], docs')
    BY <2>1, <2>3, <2>5, KnowsOn
  <2> QED
    BY <1>2, <2>1, <2>6
<1>8. Knows(backend', t, task'[t], begun'[t], docs')
  <2>1. begun'[t] = {} /\ task'[t] = frame
    BY <1>2 DEF Inv, TypeOK
  <2>2. Placed(backend', frame)
    BY <1>5 DEF Placed, OfOneKey, S3Points, MongoPoints
  <2>3. Before(frame, {})
    BY <1>5 DEF Before
  <2>4. Expiring(frame, {}, docs') /\ OwnFound(t, frame, docs')
    BY <1>5 DEF Expiring, OwnFound
  <2> QED
    BY <2>1, <2>2, <2>3, <2>4 DEF Knows
<1>9. OneDocumentPerWriter' /\ OneObjectPerKey'
  <2>1. new.id.key = task[t].key /\ new.id.by = t
    BY <1>3, <1>4
  <2>2. OneDocumentPerWriter /\ OneObjectPerKey
    BY DEF Inv
  <2> HIDE DEF new
  <2>3. OneDocumentPerWriter'
    BY <1>2, <2>1, <2>2 DEF OneDocumentPerWriter
  <2>4. OneObjectPerKey'
    BY <1>2, <2>1, <2>2 DEF OneObjectPerKey
  <2> QED
    BY <2>3, <2>4
<1> QED
  BY <1>6, <1>7, <1>8, <1>9 DEF Inv
-----------------------------------------------------------------------------
(***************************************************************************)
(* The actions, one by one.                                                *)
(***************************************************************************)
LEMMA FrameFacts ==
    ASSUME Inv, NEW t \in Task
    PROVE  task[t] \in Frame /\ Knows(backend, t, task[t], begun[t], docs)
BY DEF Inv, TypeOK

(* A call begins: it has met what is there, and done nothing.              *)
LEMMA BeginInv ==
    ASSUME Inv, NEW t \in Task, NEW k \in Key \cup {NoKey},
           NEW call \in {"get", "set", "delete", "flush", "keys"},
           NEW point \in Points, Begin(t, call, k, point),
           call \in OfOneKey <=> k \in Key,
           point \in {"getObject", "putObject", "deleteObject", "listPage", "find"},
           Placed(backend, [Idle EXCEPT !.call = call, !.at = point, !.key = k]),
           point = "deleteObject" => call = "delete"
    PROVE  Inv'
<1> DEFINE frame == [Idle EXCEPT !.call = call, !.at = point, !.key = k]
           met == IdsOf(IF k = NoKey THEN docs ELSE Of(k))
<1>1. /\ task' = [task EXCEPT ![t] = frame]
      /\ begun' = [begun EXCEPT ![t] = met]
      /\ UNCHANGED <<backend, docs>>
  BY DEF Begin, Go
<1>2. docs \subseteq Doc /\ begun \in [Task -> SUBSET Id] /\ task \in [Task -> Frame]
  BY DEF Inv, TypeOK
<1>3. met \subseteq IdsOf(docs) /\ met \subseteq Id
  BY <1>2 DEF IdsOf, Of, Doc
<1>4. /\ frame.call = call /\ frame.at = point /\ frame.key = k /\ frame.marker = 0
      /\ frame \in Frame
  BY DEF Idle, Frame, OfOneKey
<1>5. TypeOK'
  BY <1>1, <1>2, <1>3, <1>4 DEF Inv, TypeOK
<1>6. Before(frame, met)
  <2>1. k \in Key => \A i \in met : i.key = k
    BY KeyAssumption DEF IdsOf, Of
  <2>2. \A i \in met : i.key \in Nat /\ i.key > 0
    BY <1>3, KeyAssumption DEF Id
  <2> QED
    BY <1>4, <2>1, <2>2 DEF Before
<1>7. Expiring(frame, met, docs) /\ OwnFound(t, frame, docs)
  BY <1>4 DEF Expiring, OwnFound
<1>8. Knows(backend, t, frame, met, docs)
  BY <1>3, <1>6, <1>7 DEF Knows
<1>9. ASSUME NEW u \in Task PROVE Knows(backend', u, task'[u], begun'[u], docs')
  BY <1>1, <1>2, <1>8 DEF Inv
<1>10. OneDocumentPerWriter' /\ OneObjectPerKey'
  BY <1>1 DEF Inv, OneDocumentPerWriter, OneObjectPerKey
<1> QED
  BY <1>5, <1>9, <1>10 DEF Inv

LEMMA CallInv ==
    ASSUME Inv, NEW t \in Task, S3Call(t) \/ MongoCall(t)
    PROVE  Inv'
<1> USE DEF Placed, Idle, S3Points, MongoPoints, OfOneKey, Points
<1>1. NoKey \notin Key
  BY KeyAssumption
<1>2. CASE S3Call(t)
  <2>1. ASSUME NEW k \in Key, Begin(t, "get", k, "getObject") PROVE Inv'
    BY <1>2, <2>1, BeginInv DEF S3Call
  <2>2. ASSUME NEW k \in Key, Begin(t, "set", k, "putObject") PROVE Inv'
    BY <1>2, <2>2, BeginInv DEF S3Call
  <2>3. ASSUME NEW k \in Key, Begin(t, "delete", k, "deleteObject") PROVE Inv'
    BY <1>2, <2>3, BeginInv DEF S3Call
  <2>4. ASSUME NEW call \in {"flush", "keys"}, Begin(t, call, NoKey, "listPage") PROVE Inv'
    BY <1>1, <1>2, <2>4, BeginInv DEF S3Call
  <2> QED
    BY <1>2, <2>1, <2>2, <2>3, <2>4 DEF S3Call, Call
<1>3. CASE MongoCall(t)
  <2>1. ASSUME NEW k \in Key, NEW call \in {"get", "set", "delete"}, Begin(t, call, k, "find")
        PROVE  Inv'
    BY <1>3, <2>1, BeginInv DEF MongoCall
  <2>2. ASSUME NEW call \in {"flush", "keys"}, Begin(t, call, NoKey, "find") PROVE Inv'
    BY <1>1, <1>3, <2>2, BeginInv DEF MongoCall
  <2> QED
    BY <1>3, <2>1, <2>2 DEF MongoCall, FileCall
<1> QED
  BY <1>2, <1>3

(* S3: a get answers, or goes on to delete the object it saw expire.       *)
LEMMA GetObjectInv ==
    ASSUME Inv, NEW t \in Task, GetObject(t) PROVE Inv'
<1> DEFINE f == task[t]
           next == [f EXCEPT !.at = "deleteObject"]
           past == Past(Of(f.key)) # {}
           frame == IF past THEN next ELSE Returned(f)
<1>1. Request(t, "getObject", frame) /\ f.at = "getObject"
  BY DEF GetObject, Request, At
<1>2. f \in Frame /\ Knows(backend, t, f, begun[t], docs)
  BY FrameFacts
<1>3. f.call = "get" /\ f.key \in Key /\ backend = "s3"
  BY <1>1, <1>2 DEF Knows, Placed, S3Points
<1>4. /\ frame \in Frame /\ frame.call = "get" /\ frame.key = f.key
      /\ frame.at \in {"deleteObject", "returned"}
      /\ frame.at = "deleteObject" => past
  BY <1>2, <1>3 DEF Frame, Returned, Points, S3Points
<1>5. Placed(backend, frame) /\ Before(frame, begun[t])
  BY <1>2, <1>3, <1>4 DEF Knows, Placed, Before, S3Points, MongoPoints, OfOneKey, Replacing
<1>6. frame.at = "deleteObject" => \A d \in docs : d.id.key = f.key => d.past
  BY <1>3, <1>4 DEF Inv, OneObjectPerKey, Past, Of
<1>7. Expiring(frame, begun[t], docs) /\ OwnFound(t, frame, docs)
  BY <1>4, <1>6 DEF Expiring, OwnFound
<1> QED
  BY <1>1, <1>2, <1>4, <1>5, <1>7, RequestInv DEF Knows

LEMMA PutObjectInv ==
    ASSUME Inv, NEW t \in Task, PutObject(t) PROVE Inv'
<1> DEFINE X == Of(task[t].key)
<1>1. task[t].at = "putObject" /\ Store(t, "putObject", X)
  BY DEF PutObject, Store, At
<1>2. /\ X \in SUBSET docs
      /\ \A d \in docs \ X : d.id.key # task[t].key
  BY DEF Of
<1>3. begun[t] \subseteq IdsOf(X)
  BY <1>1, FrameFacts DEF Knows, Placed, Before, IdsOf, Of, OfOneKey
<1> QED
  BY <1>1, <1>2, <1>3, StoreInv

(***************************************************************************)
(* Of a listing, a flush still has before it what it met: on the page, or  *)
(* on the pages to come.                                                   *)
(***************************************************************************)
LEMMA OnwardKnows ==
    ASSUME NEW t, NEW f \in Frame, NEW point, NEW page \in SUBSET Key,
           NEW b, NEW D, b \subseteq IdsOf(D),
           \/ f.call = "flush" /\ point = "deleteObjects"
           \/ f.call = "keys" /\ point = "headObject",
           f.call = "flush" => \A i \in b : i.key \in page \/ (f.more /\ i.key > f.marker)
    PROVE  /\ Onward(f, point, page) \in Frame
           /\ Knows("s3", t, Onward(f, point, page), b, D)
<1> DEFINE g == Onward(f, point, page)
<1>1. /\ g \in Frame /\ g.call = f.call /\ g.page = page /\ g.marker = f.marker
      /\ g.more = f.more
      /\ page # {} => g.at = point
      /\ page = {} /\ f.more => g.at = "listPage"
      /\ page = {} /\ ~f.more => g.at = "returned"
  <2>1. CASE page # {}
    BY <2>1 DEF Onward, Frame, Points, S3Points
  <2>2. CASE page = {} /\ f.more
    BY <2>2 DEF Onward, Frame, Points, S3Points
  <2>3. CASE page = {} /\ ~f.more
    BY <2>3 DEF Onward, Frame, Points, S3Points, Returned
  <2> QED
    BY <2>1, <2>2, <2>3
<1> HIDE DEF g
<1>2. Placed("s3", g)
  BY <1>1 DEF Placed, S3Points, MongoPoints, OfOneKey
<1>3. Before(g, b)
  BY <1>1 DEF Before, OfOneKey, Replacing
<1>4. Expiring(g, b, D) /\ OwnFound(t, g, D)
  BY <1>1 DEF Expiring, OwnFound
<1> QED
  BY <1>1, <1>2, <1>3, <1>4 DEF Knows, g

LEMMA DeleteObjectInv ==
    ASSUME Inv, NEW t \in Task, DeleteObject(t) PROVE Inv'
<1> DEFINE f == task[t]
           X == Of(f.key)
           left == begun[t] \ IdsOf(X)
           on == Onward(f, "headObject", f.page \ {f.key})
           frame == IF f.call = "keys" THEN on ELSE Returned(f)
<1>1. Remove(t, "deleteObject", X, frame) /\ f.at = "deleteObject"
  BY DEF DeleteObject, Remove, At
<1>2. f \in Frame /\ Knows(backend, t, f, begun[t], docs)
  BY FrameFacts
<1>3. /\ f.call \in {"get", "delete", "keys"} /\ f.key \in Key /\ backend = "s3"
      /\ f.page \ {f.key} \in SUBSET Key
      /\ X \in SUBSET docs
      /\ left \subseteq IdsOf(docs \ X)
  BY <1>1, <1>2, LeftOver DEF Knows, Placed, S3Points, Frame, Of
<1>4. CASE f.call = "keys"
  <2>1. on \in Frame /\ Knows("s3", t, on, left, docs \ X)
    BY <1>2, <1>3, <1>4, OnwardKnows
  <2> QED
    BY <1>1, <1>3, <1>4, <2>1, RemoveInv
<1>5. CASE f.call # "keys"
  <2>1. frame \in Frame /\ frame = Returned(f)
    BY <1>2, <1>5 DEF Frame, Returned, Points
  <2>2. /\ Returned(f).at = "returned" /\ Returned(f).call = f.call
        /\ Returned(f).key = f.key
    BY <1>2 DEF Frame, Returned
  <2>3. f.call = "delete" => left = {}
    BY <1>1, <1>2 DEF Knows, Before, OfOneKey, IdsOf, Of
  <2>4. left \subseteq begun[t]
    OBVIOUS
  <2>5. Placed(backend, Returned(f)) /\ Before(Returned(f), left)
    BY <1>2, <1>3, <1>5, <2>2, <2>3, <2>4
       DEF Knows, Placed, Before, S3Points, MongoPoints, OfOneKey, Replacing
  <2>6. Expiring(Returned(f), left, docs \ X) /\ OwnFound(t, Returned(f), docs \ X)
    BY <2>2 DEF Expiring, OwnFound
  <2>7. Knows(backend, t, Returned(f), left, docs \ X)
    BY <1>3, <2>5, <2>6 DEF Knows
  <2> QED
    BY <1>1, <1>3, <2>1, <2>7, RemoveInv
<1> QED
  BY <1>4, <1>5

(* A page is the beginning of what is left: the rest comes after it.       *)
LEMMA ListPageInv ==
    ASSUME Inv, NEW t \in Task, ListPage(t) PROVE Inv'
<1> DEFINE f == task[t]
           rest == After(f)
<1>1. f.at = "listPage"
  BY DEF ListPage, Request, At
<1>2. f \in Frame /\ Knows(backend, t, f, begun[t], docs)
  BY FrameFacts
<1>3. f.call \in {"flush", "keys"} /\ backend = "s3"
  BY <1>1, <1>2 DEF Knows, Placed, S3Points
<1>4. rest \in SUBSET Key /\ docs \subseteq Doc /\ Key \subseteq Nat
  BY KeyAssumption DEF Inv, TypeOK, After, IdsOf, Doc, Id
<1>5. f.call = "flush" => \A i \in begun[t] : i.key \in rest
  BY <1>1, <1>2 DEF Knows, Before, After
<1>6. CASE rest = {} /\ Request(t, "listPage", Returned(f))
  <2>1. /\ Returned(f) \in Frame /\ Returned(f).at = "returned"
        /\ Returned(f).call = f.call
    BY <1>2 DEF Frame, Returned, Points
  <2>2. f.call = "flush" => begun[t] = {}
    BY <1>5, <1>6
  <2>3. Placed(backend, Returned(f)) /\ Before(Returned(f), begun[t])
    BY <1>3, <2>1, <2>2 DEF Placed, Before, S3Points, MongoPoints, OfOneKey, Replacing
  <2>4. Expiring(Returned(f), begun[t], docs) /\ OwnFound(t, Returned(f), docs)
    BY <2>1 DEF Expiring, OwnFound
  <2> QED
    BY <1>2, <1>6, <2>1, <2>3, <2>4, RequestInv DEF Knows
<1>7. ASSUME NEW page \in PagesOf(rest), NEW last \in rest,
             last \in page, \A j \in page : j <= last,
             Request(t, "listPage",
                     [f EXCEPT !.at = IF f.call = "flush" THEN "deleteObjects" ELSE "headObject",
                               !.page = page, !.marker = last, !.more = rest # page])
      PROVE  Inv'
  <2> DEFINE frame ==
               [f EXCEPT !.at = IF f.call = "flush" THEN "deleteObjects" ELSE "headObject",
                         !.page = page, !.marker = last, !.more = rest # page]
  <2>1. page \subseteq rest /\ \A k \in page, j \in rest : j < k => j \in page
    BY DEF PagesOf
  <2>2. /\ frame \in Frame /\ frame.call = f.call /\ frame.page = page
        /\ frame.marker = last /\ (frame.more <=> rest # page)
        /\ frame.at = IF f.call = "flush" THEN "deleteObjects" ELSE "headObject"
    BY <1>2, <1>4, <2>1 DEF Frame, Points, S3Points
  <2> HIDE DEF frame
  <2>3. \A j \in rest \ page : j > last
    BY <1>4, <1>7, <2>1
  <2>4. Placed(backend, frame)
    BY <1>3, <2>2 DEF Placed, S3Points, MongoPoints, OfOneKey
  <2>5. f.call = "flush" =>
           \A i \in begun[t] : i.key \in frame.page \/ (frame.more /\ i.key > frame.marker)
    BY <1>5, <2>2, <2>3
  <2>6. Before(frame, begun[t])
    BY <1>3, <2>2, <2>5 DEF Before, OfOneKey, Replacing
  <2>7. Expiring(frame, begun[t], docs) /\ OwnFound(t, frame, docs)
    BY <1>3, <2>2 DEF Expiring, OwnFound
  <2>8. Request(t, "listPage", frame)
    BY <1>7 DEF frame
  <2> QED
    BY <1>2, <2>2, <2>4, <2>6, <2>7, <2>8, RequestInv DEF Knows
<1> QED
  BY <1>6, <1>7 DEF ListPage

LEMMA DeleteObjectsInv ==
    ASSUME Inv, NEW t \in Task, DeleteObjects(t) PROVE Inv'
<1> DEFINE f == task[t]
           frame(k) == Onward(f, "deleteObjects", f.page \ {k})
<1>1. PICK k \in f.page : \/ Remove(t, "deleteObjects", Of(k), frame(k))
                         \/ Refuse(t, "deleteObjects", Of(k), frame(k))
  BY DEF DeleteObjects
<1> DEFINE X == Of(k)
           left == begun[t] \ IdsOf(X)
<1>2. f \in Frame /\ Knows(backend, t, f, begun[t], docs) /\ f.at = "deleteObjects"
  BY <1>1, FrameFacts DEF Remove, Refuse, At
<1>3. /\ f.call = "flush" /\ backend = "s3"
      /\ f.page \ {k} \in SUBSET Key
      /\ X \in SUBSET docs
      /\ left \subseteq IdsOf(docs \ X) /\ left \subseteq IdsOf(docs)
  BY <1>2, LeftOver DEF Knows, Placed, S3Points, Frame, Of
<1>4. \A i \in left : i.key \in f.page \ {k} \/ (f.more /\ i.key > f.marker)
  <2>1. \A i \in left : i.key # k
    BY <1>2 DEF Knows, IdsOf, Of
  <2> QED
    BY <1>2, <2>1 DEF Knows, Before
<1>5. /\ frame(k) \in Frame
      /\ Knows("s3", t, frame(k), left, docs \ X)
      /\ Knows("s3", t, frame(k), left, docs)
  BY <1>2, <1>3, <1>4, OnwardKnows
<1> HIDE DEF frame
<1> QED
  BY <1>1, <1>3, <1>5, RemoveInv, RefuseInv

LEMMA HeadObjectInv ==
    ASSUME Inv, NEW t \in Task, HeadObject(t) PROVE Inv'
<1> DEFINE f == task[t]
<1>1. PICK k \in f.page :
         Request(t, "headObject",
                 IF Of(k) = {} THEN Raised(f)
                 ELSE IF Past(Of(k)) # {} THEN [f EXCEPT !.at = "deleteObject", !.key = k]
                 ELSE Onward(f, "headObject", f.page \ {k}))
  BY DEF HeadObject
<1>2. f \in Frame /\ Knows(backend, t, f, begun[t], docs) /\ f.at = "headObject"
  BY <1>1, FrameFacts DEF Request, At
<1>3. f.call = "keys" /\ backend = "s3" /\ k \in Key /\ begun[t] \subseteq IdsOf(docs)
  BY <1>2 DEF Knows, Placed, S3Points, Frame
<1>4. CASE Of(k) = {}
  <2>1. /\ Raised(f) \in Frame /\ Raised(f).at = "raised" /\ Raised(f).call = "keys"
    BY <1>2, <1>3 DEF Frame, Raised, Points
  <2>2. Knows(backend, t, Raised(f), begun[t], docs)
    BY <1>3, <2>1 DEF Knows, Placed, Before, Expiring, OwnFound, S3Points, MongoPoints,
                      OfOneKey, Replacing
  <2> QED
    BY <1>1, <1>4, <2>1, <2>2, RequestInv
<1>5. CASE Of(k) # {} /\ Past(Of(k)) # {}
  <2> DEFINE frame == [f EXCEPT !.at = "deleteObject", !.key = k]
  <2>1. /\ frame \in Frame /\ frame.at = "deleteObject" /\ frame.call = "keys"
        /\ frame.key = k
    BY <1>2, <1>3 DEF Frame, Points, S3Points
  <2> HIDE DEF frame
  <2>2. \A d \in docs : d.id.key = k => d.past
    BY <1>3, <1>5 DEF Inv, OneObjectPerKey, Past, Of
  <2>3. Knows(backend, t, frame, begun[t], docs)
    BY <1>3, <2>1, <2>2 DEF Knows, Placed, Before, Expiring, OwnFound, S3Points,
                            MongoPoints, OfOneKey, Replacing
  <2>4. Request(t, "headObject", frame)
    BY <1>1, <1>5 DEF frame
  <2> QED
    BY <2>1, <2>3, <2>4, RequestInv
<1>6. CASE Of(k) # {} /\ Past(Of(k)) = {}
  <2>1. f.page \ {k} \in SUBSET Key
    BY <1>2 DEF Frame
  <2>2. /\ Onward(f, "headObject", f.page \ {k}) \in Frame
        /\ Knows("s3", t, Onward(f, "headObject", f.page \ {k}), begun[t], docs)
    BY <1>2, <1>3, <2>1, OnwardKnows
  <2> QED
    BY <1>1, <1>3, <1>6, <2>2, RequestInv
<1> QED
  BY <1>4, <1>5, <1>6

(***************************************************************************)
(* MongoDB: what a call has found, and what is left of it, is what it is   *)
(* to remove.                                                              *)
(***************************************************************************)
LEMMA RemovedKnows ==
    ASSUME NEW t, NEW f \in Frame, NEW left \in SUBSET Id, NEW b, NEW D,
           b \subseteq IdsOf(D), f.call \in {"get", "set", "delete", "flush", "keys"},
           f.call \in OfOneKey => f.key \in Key /\ \A i \in b : i.key = f.key,
           f.call \in Replacing => b \subseteq left,
           f.call \in {"get", "keys"} => \A d \in D : d.id \in left => d.past,
           f.call = "set" => \A d \in D : d.id.key = f.key /\ d.id.by = t => d.id \in left
    PROVE  Removed(f, left) \in Frame /\ Knows("mongodb", t, Removed(f, left), b, D)
<1> DEFINE g == Removed(f, left)
<1>1. /\ g \in Frame /\ g.call = f.call /\ g.key = f.key /\ g.todo = left
      /\ left # {} => g.at = "deleteFile"
      /\ left = {} /\ f.call = "set" => g.at = "upload"
      /\ left = {} /\ f.call # "set" => g.at = "returned"
  <2>1. CASE left # {}
    BY <2>1 DEF Removed, Frame, Points, MongoPoints
  <2>2. CASE left = {} /\ f.call = "set"
    BY <2>2 DEF Removed, Frame, Points, MongoPoints
  <2>3. CASE left = {} /\ f.call # "set"
    BY <2>3 DEF Removed, Frame, Points, MongoPoints, Returned
  <2> QED
    BY <2>1, <2>2, <2>3
<1> HIDE DEF g
<1>2. Placed("mongodb", g)
  BY <1>1 DEF Placed, S3Points, MongoPoints, OfOneKey
<1>3. Before(g, b)
  BY <1>1 DEF Before, OfOneKey, Replacing
<1>4. Expiring(g, b, D) /\ OwnFound(t, g, D)
  BY <1>1 DEF Expiring, OwnFound
<1> QED
  BY <1>1, <1>2, <1>3, <1>4 DEF Knows, g

(* A call that answers or raises, other than one that was to replace.      *)
LEMMA EndKnows ==
    ASSUME NEW s, NEW t, NEW f \in Frame, NEW b, NEW D, b \subseteq IdsOf(D),
           f.call \in OfOneKey => f.key \in Key /\ \A i \in b : i.key = f.key,
           f.at = "raised" \/ (f.at = "returned" /\ f.call \notin Replacing)
    PROVE  Knows(s, t, f, b, D)
BY DEF Knows, Placed, Before, Expiring, OwnFound, S3Points, MongoPoints, OfOneKey, Replacing

LEMMA FindOneInv ==
    ASSUME Inv, NEW t \in Task, FindOne(t) PROVE Inv'
<1> DEFINE f == task[t]
<1>1. f \in Frame /\ Knows(backend, t, f, begun[t], docs) /\ f.at = "find" /\ f.call = "get"
  BY FrameFacts DEF FindOne, Request, At
<1>2. /\ backend = "mongodb" /\ f.key \in Key /\ docs \subseteq Doc
      /\ \A i \in begun[t] : i.key = f.key
  BY <1>1 DEF Knows, Placed, Before, MongoPoints, OfOneKey, Inv, TypeOK
<1>3. CASE Of(f.key) = {} /\ Request(t, "find", Returned(f))
  <2>1. /\ Returned(f) \in Frame /\ Returned(f).at = "returned"
        /\ Returned(f).call = "get" /\ Returned(f).key = f.key
    BY <1>1 DEF Frame, Returned, Points
  <2>2. Knows(backend, t, Returned(f), begun[t], docs)
    BY <1>1, <1>2, <2>1, EndKnows DEF Knows, Replacing
  <2> QED
    BY <1>3, <2>1, <2>2, RequestInv
<1>4. ASSUME NEW d \in Of(f.key),
             Request(t, "find",
                     [f EXCEPT !.at = IF d.past THEN "deleteFile" ELSE "download",
                               !.todo = {d.id}])
      PROVE  Inv'
  <2> DEFINE frame == [f EXCEPT !.at = IF d.past THEN "deleteFile" ELSE "download",
                                !.todo = {d.id}]
  <2>1. d \in docs /\ d.id \in Id
    BY <1>2 DEF Of, Doc
  <2>2. /\ frame \in Frame /\ frame.call = "get" /\ frame.key = f.key /\ frame.todo = {d.id}
        /\ frame.at = IF d.past THEN "deleteFile" ELSE "download"
    BY <1>1, <2>1 DEF Frame, Points, MongoPoints
  <2> HIDE DEF frame
  <2>3. \A e \in docs : e.id = d.id => e = d
    BY <2>1 DEF Inv, OneDocumentPerWriter
  <2>4. Knows(backend, t, frame, begun[t], docs)
    BY <1>1, <1>2, <2>2, <2>3 DEF Knows, Placed, Before, Expiring, OwnFound, S3Points,
                                 MongoPoints, OfOneKey, Replacing
  <2>5. Request(t, "find", frame)
    BY <1>4 DEF frame
  <2> QED
    BY <2>2, <2>4, <2>5, RequestInv
<1> QED
  BY <1>3, <1>4 DEF FindOne

LEMMA FindAllInv ==
    ASSUME Inv, NEW t \in Task, FindAll(t) PROVE Inv'
<1> DEFINE f == task[t]
           found == IdsOf(IF f.call = "flush" THEN docs ELSE Of(f.key))
<1>1. /\ f \in Frame /\ Knows(backend, t, f, begun[t], docs) /\ f.at = "find"
      /\ f.call \in {"set", "delete", "flush"}
      /\ Request(t, "find", Removed(f, found))
  BY FrameFacts DEF FindAll, Request, At
<1>2. /\ backend = "mongodb" /\ docs \subseteq Doc
      /\ begun[t] \subseteq IdsOf(docs)
      /\ f.call \in OfOneKey => f.key \in Key /\ \A i \in begun[t] : i.key = f.key
  BY <1>1 DEF Knows, Placed, Before, MongoPoints, OfOneKey, Inv, TypeOK
<1>3. found \in SUBSET Id
  BY <1>2 DEF IdsOf, Of, Doc
<1>4. begun[t] \subseteq found
  BY <1>1, <1>2 DEF IdsOf, Of, OfOneKey
<1>5. f.call = "set" => \A d \in docs : d.id.key = f.key => d.id \in found
  BY DEF IdsOf, Of
<1>6. Removed(f, found) \in Frame /\ Knows("mongodb", t, Removed(f, found), begun[t], docs)
  <2> HIDE DEF found
  <2> QED
    BY <1>1, <1>2, <1>3, <1>4, <1>5, RemovedKnows
<1> QED
  BY <1>1, <1>2, <1>6, RequestInv

LEMMA FindPastInv ==
    ASSUME Inv, NEW t \in Task, FindPast(t) PROVE Inv'
<1> DEFINE f == task[t]
<1>1. PICK D \in SUBSET Past(docs) : Request(t, "find", Removed(f, IdsOf(D)))
  BY DEF FindPast
<1>2. /\ f \in Frame /\ Knows(backend, t, f, begun[t], docs) /\ f.at = "find"
      /\ f.call = "keys"
  BY <1>1, FrameFacts DEF FindPast, Request, At
<1>3. backend = "mongodb" /\ docs \subseteq Doc /\ begun[t] \subseteq IdsOf(docs)
  BY <1>2 DEF Knows, Placed, MongoPoints, Inv, TypeOK
<1>4. IdsOf(D) \in SUBSET Id /\ \A d \in docs : d.id \in IdsOf(D) => d.past
  BY <1>3 DEF IdsOf, Past, Doc, Inv, OneDocumentPerWriter
<1>5. /\ Removed(f, IdsOf(D)) \in Frame
      /\ Knows("mongodb", t, Removed(f, IdsOf(D)), begun[t], docs)
  BY <1>2, <1>3, <1>4, RemovedKnows DEF OfOneKey, Replacing
<1> QED
  BY <1>1, <1>3, <1>5, RequestInv

LEMMA DeleteFileInv ==
    ASSUME Inv, NEW t \in Task, DeleteFile(t) PROVE Inv'
<1> DEFINE f == task[t]
<1>1. PICK i \in f.todo :
         IF i \in IdsOf(docs)
         THEN Remove(t, "deleteFile", WithIds({i}), Removed(f, f.todo \ {i}))
         ELSE Request(t, "deleteFile", Raised([f EXCEPT !.todo = {}]))
  BY DEF DeleteFile
<1>2. f \in Frame /\ Knows(backend, t, f, begun[t], docs) /\ f.at = "deleteFile"
  BY <1>1, FrameFacts DEF Remove, Request, At
<1>3. /\ backend = "mongodb" /\ begun[t] \subseteq IdsOf(docs)
      /\ f.call \in OfOneKey => f.key \in Key /\ \A j \in begun[t] : j.key = f.key
      /\ f.call \in Replacing => begun[t] \subseteq f.todo
      /\ f.call \in {"get", "keys"} => \A d \in docs : d.id \in f.todo => d.past
      /\ f.call = "set" =>
            \A d \in docs : d.id.key = f.key /\ d.id.by = t => d.id \in f.todo
  BY <1>2 DEF Knows, Placed, Before, Expiring, OwnFound, MongoPoints
<1>4. CASE i \in IdsOf(docs)
  <2> DEFINE X == WithIds({i})
             left == begun[t] \ IdsOf(X)
             todo == f.todo \ {i}
  <2>1. /\ X \in SUBSET docs /\ IdsOf(X) = {i} /\ left \subseteq IdsOf(docs \ X)
        /\ \A d \in docs \ X : d.id # i
    <3>1. X \in SUBSET docs /\ IdsOf(X) = {i} /\ \A d \in docs \ X : d.id # i
      BY <1>4 DEF WithIds, IdsOf
    <3> QED
      BY <1>3, <3>1, LeftOver
  <2>2. todo \in SUBSET Id /\ f.call \in {"none", "get", "set", "delete", "flush", "keys"}
    BY <1>2 DEF Frame
  <2>3. CASE f.call # "none"
    <3> HIDE DEF X
    <3>1. Removed(f, todo) \in Frame /\ Knows("mongodb", t, Removed(f, todo), left, docs \ X)
      BY <1>2, <1>3, <2>1, <2>2, <2>3, RemovedKnows
    <3>2. Remove(t, "deleteFile", X, Removed(f, todo))
      BY <1>1, <1>4 DEF X
    <3> QED
      BY <1>3, <2>1, <3>1, <3>2, RemoveInv
  <2> QED
    BY <1>2, <2>2, <2>3 DEF Knows, Placed
<1>5. CASE i \notin IdsOf(docs)
  <2> DEFINE frame == Raised([f EXCEPT !.todo = {}])
  <2>1. frame \in Frame /\ frame.at = "raised" /\ frame.call = f.call /\ frame.key = f.key
    BY <1>2 DEF Frame, Raised, Points
  <2>2. Knows(backend, t, frame, begun[t], docs)
    BY <1>3, <2>1, EndKnows
  <2> QED
    BY <1>1, <1>5, <2>1, <2>2, RequestInv
<1> QED
  BY <1>4, <1>5

LEMMA DownloadInv ==
    ASSUME Inv, NEW t \in Task, Download(t) PROVE Inv'
<1> DEFINE f == task[t]
           g == [f EXCEPT !.todo = {}]
           frame == IF f.todo \subseteq IdsOf(docs) THEN Returned(g) ELSE Raised(g)
<1>1. Request(t, "download", frame) /\ f.at = "download"
  BY DEF Download, Request, At
<1>2. f \in Frame /\ Knows(backend, t, f, begun[t], docs)
  BY FrameFacts
<1>3. f.call = "get"
  BY <1>1, <1>2 DEF Knows, Placed
<1>4. /\ frame \in Frame /\ frame.call = "get" /\ frame.key = f.key
      /\ frame.at \in {"returned", "raised"}
  BY <1>2, <1>3 DEF Frame, Returned, Raised, Points
<1>5. Knows(backend, t, frame, begun[t], docs)
  <2>1. f.key \in Key /\ \A i \in begun[t] : i.key = f.key
    BY <1>2, <1>3 DEF Knows, Placed, Before, OfOneKey
  <2> QED
    BY <1>2, <1>4, <2>1, EndKnows DEF Knows, Replacing
<1> QED
  BY <1>1, <1>4, <1>5, RequestInv

LEMMA UploadInv ==
    ASSUME Inv, NEW t \in Task, Upload(t) PROVE Inv'
<1>1. task[t].at = "upload" /\ Store(t, "upload", {})
  BY DEF Upload, Store, At
<1>2. /\ task[t].todo = {} /\ task[t].call = "set" /\ backend = "mongodb"
      /\ begun[t] \subseteq task[t].todo
      /\ \A d \in docs : d.id.key = task[t].key => d.id.by # t
  BY <1>1, FrameFacts DEF Knows, Placed, Before, OwnFound, MongoPoints, Replacing
<1> QED
  BY <1>1, <1>2, StoreInv

(* A call is over, answered or cut off.                                    *)
LEMMA EndInv ==
    ASSUME Inv, NEW t \in Task, Return(t) \/ Abort(t) PROVE Inv'
<1>1. /\ task' = [task EXCEPT ![t] = Idle]
      /\ begun' = [begun EXCEPT ![t] = {}]
      /\ UNCHANGED <<backend, docs>>
  BY DEF Return, Abort, Go
<1>2. Idle \in Frame
  BY DEF Idle, Frame, Points
<1>3. TypeOK'
  BY <1>1, <1>2 DEF Inv, TypeOK
<1>4. Knows(backend, t, Idle, {}, docs)
  BY DEF Knows, Placed, Before, Expiring, OwnFound, Idle, S3Points, MongoPoints,
         OfOneKey, Replacing
<1>5. ASSUME NEW u \in Task PROVE Knows(backend', u, task'[u], begun'[u], docs')
  BY <1>1, <1>4 DEF Inv, TypeOK
<1>6. OneDocumentPerWriter' /\ OneObjectPerKey'
  BY <1>1 DEF Inv, OneDocumentPerWriter, OneObjectPerKey
<1> QED
  BY <1>3, <1>5, <1>6 DEF Inv

LEMMA LapseInv ==
    ASSUME Inv, NEW d \in docs, Lapse(d) PROVE Inv'
<1> DEFINE e == [d EXCEPT !.past = TRUE]
<1>1. docs' = (docs \ {d}) \cup {e} /\ UNCHANGED <<backend, task, begun>>
  BY DEF Lapse
<1>2. e \in Doc /\ e.id = d.id /\ e.past = TRUE
  BY DEF Inv, TypeOK, Doc
<1> HIDE DEF e
<1>3. TypeOK'
  BY <1>1, <1>2 DEF Inv, TypeOK
<1>4. OneDocumentPerWriter' /\ OneObjectPerKey'
  BY <1>1, <1>2 DEF Inv, OneDocumentPerWriter, OneObjectPerKey
<1>5. IdsOf(docs) \subseteq IdsOf(docs')
  BY <1>1, <1>2 DEF IdsOf
<1>6. ASSUME NEW u \in Task PROVE Knows(backend', u, task'[u], begun'[u], docs')
  <2>1. Knows(backend, u, task[u], begun[u], docs)
    BY DEF Inv
  <2>2. Evolves(u, task[u], docs, docs')
    BY <1>1, <1>2 DEF Evolves
  <2>3. begun[u] \subseteq IdsOf(docs')
    BY <1>5, <2>1 DEF Knows
  <2>4. Knows(backend, u, task[u], begun[u], docs')
    BY <2>1, <2>2, <2>3, KnowsOn
  <2> QED
    BY <1>1, <2>4
<1> QED
  BY <1>3, <1>4, <1>6 DEF Inv
-----------------------------------------------------------------------------
(* Inv is inductive.                                                       *)
LEMMA StepInv == Inv /\ [Next]_vars => Inv'
<1> SUFFICES ASSUME Inv, [Next]_vars PROVE Inv'
  OBVIOUS
<1>1. ASSUME NEW t \in Task, S3Call(t) \/ MongoCall(t) PROVE Inv'
  BY <1>1, CallInv
<1>2. ASSUME NEW t \in Task, S3Proceed(t) PROVE Inv'
  BY <1>2, GetObjectInv, PutObjectInv, DeleteObjectInv, ListPageInv, DeleteObjectsInv,
     HeadObjectInv DEF S3Proceed
<1>3. ASSUME NEW t \in Task, MongoProceed(t) PROVE Inv'
  BY <1>3, FindOneInv, FindAllInv, FindPastInv, DeleteFileInv, DownloadInv, UploadInv
     DEF MongoProceed
<1>4. ASSUME NEW t \in Task, Return(t) \/ Abort(t) PROVE Inv'
  BY <1>4, EndInv
<1>5. ASSUME NEW d \in docs, Lapse(d) PROVE Inv'
  BY <1>5, LapseInv
<1>6. CASE UNCHANGED vars
  BY <1>6 DEF vars, Inv, TypeOK, OneDocumentPerWriter, OneObjectPerKey
<1> QED
  BY <1>1, <1>2, <1>3, <1>4, <1>5, <1>6 DEF Next, Proceed

LEMMA InvHolds == Spec => []Inv
<1> QED
  BY InitInv, StepInv, PTL DEF Spec

(***************************************************************************)
(* Documents, frames and history are of their types: no call goes on       *)
(* without the key, the page or the files it is about to use.              *)
(***************************************************************************)
THEOREM TypeCorrect == Spec => []TypeOK
<1>1. Inv => TypeOK
  BY DEF Inv
<1> QED
  BY <1>1, InvHolds, PTL

(***************************************************************************)
(* A key has at most one document of each caller, for any number of        *)
(* callers, however their sets overlap and wherever they are cut off       *)
(* (mongodb.py 62-82).                                                     *)
(***************************************************************************)
THEOREM CopiesBounded == Spec => []OneDocumentPerWriter
<1>1. Inv => OneDocumentPerWriter
  BY DEF Inv
<1> QED
  BY <1>1, InvHolds, PTL

(***************************************************************************)
(* What a set, delete or flush met when it began is gone when it returns,  *)
(* but for the objects a delete_objects was refused, for any page size and *)
(* any number of pages (s3.py 97-106, mongodb.py 62-88).                   *)
(***************************************************************************)
THEOREM Replaced == Spec => []ReplacesWhatWasThere
<1>1. Inv => ReplacesWhatWasThere
  BY DEF Inv, Knows, Before, ReplacesWhatWasThere, At, Replacing
<1> QED
  BY <1>1, InvHolds, PTL

(* The one task that has changed is the one that made the request.         *)
LEMMA OneMoves ==
    ASSUME Inv, NEW t \in Task, NEW u \in Task, NEW point, task'[t] # task[t]
    PROVE  /\ \A frame : Request(u, point, frame) => u = t
           /\ \A X, frame : Remove(u, point, X, frame) => u = t
           /\ \A X, frame : Refuse(u, point, X, frame) => u = t
           /\ \A X : Store(u, point, X) => u = t
BY DEF Inv, TypeOK, Request, Remove, Refuse, Store, Go

LEMMA DeleteObjectExpired ==
    ASSUME Inv, NEW t \in Task, DeleteObject(t), NEW d \in docs \ docs',
           task[t].call \in {"get", "keys"}
    PROVE  d.past \/ (backend = "s3" /\ d.id \notin begun[t])
<1>1. task[t].at = "deleteObject" /\ d.id.key = task[t].key
  BY DEF DeleteObject, Remove, At, Of
<1> QED
  BY <1>1, FrameFacts DEF Knows, Placed, Expiring, S3Points

LEMMA DeleteFileExpired ==
    ASSUME Inv, NEW t \in Task, DeleteFile(t), NEW d \in docs \ docs',
           task[t].call \in {"get", "keys"}
    PROVE  d.past
<1>1. task[t].at = "deleteFile" /\ d.id \in task[t].todo
  BY DEF DeleteFile, Remove, Request, At, WithIds
<1> QED
  BY <1>1, FrameFacts DEF Knows, Expiring

(* A step that removes a document, and which task it changes.              *)
LEMMA WhoRemoves ==
    ASSUME Inv, Next, NEW t \in Task, task'[t] # task[t], docs \ docs' # {}
    PROVE  DeleteObject(t) \/ DeleteFile(t) \/ task[t].call \notin {"get", "keys"}
<1>1. ASSUME NEW u \in Task, S3Call(u) \/ MongoCall(u) \/ Return(u) \/ Abort(u)
      PROVE  docs' = docs
  BY <1>1 DEF S3Call, MongoCall, Call, FileCall, Begin, Return, Abort
<1>2. ASSUME NEW u \in Task, NEW point, NEW frame, Request(u, point, frame)
      PROVE  docs' = docs
  BY <1>2 DEF Request
<1>3. ASSUME NEW u \in Task, PutObject(u) PROVE task[t].call \notin {"get", "keys"}
  <2>1. u = t /\ task[u].at = "putObject"
    BY <1>3, OneMoves DEF PutObject, Store, At
  <2> QED
    BY <2>1, FrameFacts DEF Knows, Placed
<1>4. ASSUME NEW u \in Task, DeleteObjects(u) PROVE task[t].call \notin {"get", "keys"}
  <2>1. u = t /\ task[u].at = "deleteObjects"
    BY <1>4, OneMoves DEF DeleteObjects, Remove, Refuse, At
  <2> QED
    BY <2>1, FrameFacts DEF Knows, Placed
<1>5. ASSUME NEW u \in Task, DeleteObject(u) PROVE DeleteObject(t)
  BY <1>5, OneMoves DEF DeleteObject
<1>6. ASSUME NEW u \in Task, DeleteFile(u) PROVE DeleteFile(t)
  BY <1>2, <1>6, OneMoves DEF DeleteFile
<1>7. ASSUME NEW u \in Task, Upload(u) PROVE task[t].call \notin {"get", "keys"}
  <2>1. u = t /\ task[u].at = "upload"
    BY <1>7, OneMoves DEF Upload, Store, At
  <2> QED
    BY <2>1, FrameFacts DEF Knows, Placed
<1>8. ASSUME NEW u \in Task,
             GetObject(u) \/ ListPage(u) \/ HeadObject(u) \/ FindOne(u) \/ FindAll(u)
                \/ FindPast(u) \/ Download(u)
      PROVE  docs' = docs
  BY <1>2, <1>8 DEF GetObject, ListPage, HeadObject, FindOne, FindAll, FindPast, Download
<1>9. ASSUME NEW d \in docs, Lapse(d) PROVE FALSE
  BY <1>9 DEF Lapse
<1> QED
  BY <1>1, <1>3, <1>4, <1>5, <1>6, <1>7, <1>8, <1>9
     DEF Next, Proceed, S3Proceed, MongoProceed

(***************************************************************************)
(* Reads and listings remove nothing but what has expired, or with S3 what *)
(* was put in its place since they began (s3.py 69-73, mongodb.py 54-57).  *)
(***************************************************************************)
THEOREM OnlyExpiredRemoved == Spec => RemovesOnlyExpired
<1> DEFINE Fine(t, d) ==
      task[t].call \in {"get", "keys"} /\ task'[t] # task[t] /\ d.id \notin IdsOf(docs')
         => d.past \/ (backend = "s3" /\ d.id \notin begun[t])
<1>1. ASSUME Inv, Next, NEW t \in Task, NEW d \in docs PROVE Fine(t, d)
  <2>1. d.id \notin IdsOf(docs') => d \in docs \ docs'
    BY DEF IdsOf
  <2> QED
    BY <1>1, <2>1, WhoRemoves, DeleteObjectExpired, DeleteFileExpired
<1>2. Inv /\ [Next]_vars => [\A t \in Task, d \in docs : Fine(t, d)]_vars
  BY <1>1
<1> QED
  BY <1>2, InvHolds, PTL DEF Spec, RemovesOnlyExpired
=============================================================================
