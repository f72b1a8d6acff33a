------------------------ MODULE TrackingClientProofs ------------------------
(***************************************************************************)
(* What TrackingClient counts and what it keeps open, for any number of    *)
(* tasks and calls and on each of the four stores: no transaction without  *)
(* a task that commits it, no connections but those of first calls that    *)
(* overlap, and no call that returns uncounted or counts twice.            *)
(*                                                                         *)
(* The first two come down to what a step does to one frame.  A            *)
(* transaction grows only by the task that is then to commit it, and ends  *)
(* with the commit.  The connections counted are those opened and those    *)
(* being made: a call only turns one into the other, and none is made once *)
(* there is a client.                                                      *)
(*                                                                         *)
(* The counts take a ledger, Tally: on one side the calls that are still   *)
(* to count c, on the other those that have counted it, in the database or *)
(* in the one transaction that is open.  It is kept for every c and every  *)
(* connection, since a disconnect takes the writes of one with it.         *)
(***************************************************************************)
EXTENDS TrackingClient, FiniteSetTheorems, TLAPS

Writing == {"work", "commit"}
Slow == {"sqlite", "postgres"}

(* What a call has at its place, of the n connections opened.              *)
Fits(f, n) ==
    /\ f.at \in {"connecting", "schema", "work"} => f.todo # <<>>
    /\ f.at \in {"connecting", "schema", "work", "commit"} => f.op \in Op
    /\ f.at \in {"work", "commit", "closing"} => f.conn # 0
    /\ f.conn <= n
    /\ f.at = "connecting" => store \in Slow

Connecting == {t \in Task : At(t, "connecting")}

(* Without a client nothing was opened yet, and with one nobody begins to  *)
(* connect any more.                                                       *)
Accounted ==
    ~anew =>
        /\ client = 0 => opened = 0
        /\ store \notin Slow => opened <= 1
        /\ store \in Slow => opened + Cardinality(Connecting) <= Cardinality(Task)

Inv ==
    /\ TypeOK
    /\ client <= opened
    /\ \A t \in Task : Fits(task[t], opened)
    /\ store # "sqlite" => open = [c \in Conn |-> Nothing]
    /\ TransactionsAreClosed
-----------------------------------------------------------------------------
LEMMA NothingCounts == Nothing \in [Counter -> Nat]
BY DEF Nothing

LEMMA PlusCounts ==
    ASSUME NEW n \in [Counter -> Nat], NEW C PROVE Plus(n, C) \in [Counter -> Nat]
<1>1. \A c \in Counter : (IF c \in C THEN n[c] + 1 ELSE n[c]) \in Nat
  OBVIOUS
<1> QED
  BY <1>1 DEF Plus

LEMMA Sum2Counts ==
    ASSUME NEW m \in [Counter -> Nat], NEW n \in [Counter -> Nat]
    PROVE  Sum2(m, n) \in [Counter -> Nat]
<1>1. \A c \in Counter : m[c] + n[c] \in Nat
  OBVIOUS
<1> QED
  BY <1>1 DEF Sum2

LEMMA RequestsOK ==
    ASSUME store \in {"sqlite", "redis", "postgres", "mongodb"}, NEW op \in Op
    PROVE  Requests(op) \in Seq(SUBSET Counter) /\ Requests(op) # <<>>
<1>1. /\ {"row"} \in SUBSET Counter /\ {"hits"} \in SUBSET Counter
      /\ {"misses"} \in SUBSET Counter /\ {"row", "hits"} \in SUBSET Counter
  BY DEF Counter
<1>2. CASE op = "miss"
  BY <1>1, <1>2 DEF Requests
<1>3. CASE op # "miss" /\ store \in Slow
  <2>1. Requests(op) = <<{"row"}, {"hits"}>>
    BY <1>3 DEF Requests, Slow
  <2> QED
    BY <1>1, <2>1
<1>4. CASE op # "miss" /\ store = "mongodb"
  <2>1. Requests(op) = <<{"hits"}, {"row"}>>
    BY <1>4 DEF Requests
  <2> QED
    BY <1>1, <2>1
<1>5. CASE op # "miss" /\ store = "redis"
  <2>1. Requests(op) = <<{"row", "hits"}>>
    BY <1>5 DEF Requests
  <2> QED
    BY <1>1, <2>1
<1> QED
  BY <1>2, <1>3, <1>4, <1>5 DEF Slow

LEMMA IdleOK == Idle \in Frame /\ \A n \in Nat : Fits(Idle, n)
<1>1. <<>> \in Seq(SUBSET Counter)
  OBVIOUS
<1> QED
  BY <1>1 DEF Idle, Frame, Fits

LEMMA InitInv == Init => Inv
<1> SUFFICES ASSUME Init PROVE Inv
  OBVIOUS
<1>1. TypeOK
  BY IdleOK, NothingCounts DEF Init, TypeOK, Op
<1>2. \A t \in Task : Fits(task[t], opened)
  BY IdleOK DEF Init
<1> QED
  BY <1>1, <1>2 DEF Init, Inv, TransactionsAreClosed
-----------------------------------------------------------------------------
(***************************************************************************)
(* What a step of one task must do: its next frame fits, and a transaction *)
(* that is open after it was open before or is of its own connection.      *)
(***************************************************************************)
StaysClosed(t, f) ==
    /\ \A c \in Conn : \/ open'[c] = open[c]
                       \/ open'[c] = Nothing
                       \/ f.conn = c /\ f.at \in Writing
    /\ task[t].at \in Writing =>
          LET c == task[t].conn
          IN  \/ f.conn = c /\ f.at \in Writing
              \/ open'[c] = Nothing
              \/ c \in cutOn'

Typed ==
    /\ store' = store /\ ready' \in BOOLEAN /\ count' \in [Counter -> Nat]
    /\ open' \in [Conn -> [Counter -> Nat]]
    /\ begun' \in [Op -> Nat] /\ due' \in [Op -> Nat]
    /\ cutOn' \subseteq Conn /\ cutOn \subseteq cutOn' /\ anew' \in BOOLEAN

Reached ==
    /\ opened' \in Conn \cup {0} /\ opened <= opened'
    /\ client' \in Conn \cup {0} /\ client' <= opened'
    /\ closed' \subseteq 1 .. opened'

LEMMA StepInv ==
    ASSUME Inv, NEW t \in Task, NEW f \in Frame, Go(t, f), Fits(f, opened'),
           Typed, Reached, StaysClosed(t, f), store # "sqlite" => open' = open
    PROVE  Inv'
<1>1. task' = [task EXCEPT ![t] = f] /\ task \in [Task -> Frame]
  BY DEF Go, Inv, TypeOK
<1>2. TypeOK'
  BY <1>1 DEF Inv, TypeOK, Typed, Reached
<1>3. \A u \in Task : Fits(task[u], opened)'
  <2> SUFFICES ASSUME NEW u \in Task PROVE Fits(task[u], opened)'
    OBVIOUS
  <2>1. CASE u = t
    BY <1>1, <2>1 DEF Fits, Typed
  <2>2. CASE u # t
    <3>1. task'[u] = task[u] /\ task[u].conn \in Nat /\ opened \in Nat /\ opened' \in Nat
      BY <1>1, <2>2 DEF Frame, Inv, TypeOK, Reached, Conn
    <3> QED
      BY <3>1 DEF Inv, Fits, Typed, Reached
  <2> QED
    BY <2>1, <2>2
<1>4. (store # "sqlite" => open = [c \in Conn |-> Nothing])'
  BY DEF Inv, Typed
<1>5. TransactionsAreClosed'
  <2> SUFFICES ASSUME NEW c \in Conn, open'[c] # Nothing, c \notin cutOn'
               PROVE  \E u \in Task : task'[u].conn = c /\ task'[u].at \in Writing
    BY DEF TransactionsAreClosed, Writing
  <2>1. CASE f.conn = c /\ f.at \in Writing
    BY <1>1, <2>1
  <2>2. CASE ~(f.conn = c /\ f.at \in Writing)
    <3>1. open[c] # Nothing /\ c \notin cutOn
      BY <2>2 DEF StaysClosed, Typed
    <3>2. PICK u \in Task : task[u].conn = c /\ task[u].at \in Writing
      BY <3>1 DEF Inv, TransactionsAreClosed, Writing
    <3>3. u # t
      BY <2>2, <3>2 DEF StaysClosed
    <3> QED
      BY <1>1, <3>2, <3>3
  <2> QED
    BY <2>1, <2>2
<1> QED
  BY <1>2, <1>3, <1>4, <1>5 DEF Inv, Reached
-----------------------------------------------------------------------------
(***************************************************************************)
(* The actions.                                                            *)
(***************************************************************************)
LEMMA TaskOK ==
    ASSUME Inv, NEW t \in Task
    PROVE  /\ task[t] \in Frame /\ Fits(task[t], opened)
           /\ opened \in Nat /\ opened \in Conn \cup {0}
           /\ client \in Conn \cup {0} /\ client <= opened /\ closed \subseteq 1 .. opened
BY DEF Inv, TypeOK, Conn

LEMMA SameConnections ==
    ASSUME Inv, UNCHANGED <<client, opened, closed>>
    PROVE  Reached
BY DEF Inv, TypeOK, Reached, Conn

LEMMA FailInv ==
    ASSUME Inv, NEW t \in Task, Fail(t), store' = store, ready' \in BOOLEAN,
           UNCHANGED <<count, open, client, opened, closed>>
    PROVE  Inv'
<1>1. Go(t, Idle) /\ Idle \in Frame /\ Fits(Idle, opened')
  BY IdleOK, TaskOK DEF Fail
<1>2. Typed /\ Reached
  <2>1. Typed
    BY DEF Fail, Inv, TypeOK, Typed
  <2> QED
    BY <2>1, SameConnections
<1>3. StaysClosed(t, Idle)
  <2>1. ASSUME task[t].at \in Writing, open[task[t].conn] # Nothing
        PROVE  task[t].conn \in cutOn'
    <3>1. task[t].conn \in Conn
      BY <2>1, TaskOK DEF Fits, Frame, Writing
    <3> QED
      BY <2>1, <3>1 DEF Fail
  <2> QED
    BY <2>1 DEF StaysClosed
<1> QED
  BY <1>1, <1>2, <1>3, StepInv

LEMMA RecordInv ==
    ASSUME Inv, NEW t \in Task, NEW op \in Op, Record(t, op)
    PROVE  Inv'
<1> DEFINE g == [Idle EXCEPT !.op = op, !.todo = Requests(op), !.due = ready]
<1>1. g \in Frame /\ g.todo # <<>> /\ g.op = op /\ g.conn = 0
  <2>1. Requests(op) \in Seq(SUBSET Counter) /\ Requests(op) # <<>>
    BY RequestsOK DEF Inv, TypeOK
  <2>2. Idle \in Frame /\ Idle.conn = 0 /\ ready \in BOOLEAN
    BY IdleOK DEF Idle, Inv, TypeOK
  <2> QED
    BY <2>1, <2>2 DEF Frame
<1>2. Reach(t, g) /\ task[t].at = "idle"
  BY DEF Record, Free, At
<1>3. Typed /\ open' = open
  BY DEF Record, Typed, Inv, TypeOK, database
<1>4. Reached
  BY <1>2, TaskOK DEF Record, Reach, NewClient, Reached, Conn
<1> HIDE DEF g
<1>5. PICK f \in Frame : Go(t, f) /\ Fits(f, opened')
  <2> DEFINE work(c) == [g EXCEPT !.at = "work", !.conn = c]
             connecting == [g EXCEPT !.at = "connecting"]
             schema == [g EXCEPT !.at = "schema"]
  <2>1. ASSUME NEW c \in Conn, c <= opened'
        PROVE  work(c) \in Frame /\ Fits(work(c), opened')
    <3>1. work(c) \in Frame /\ work(c).at = "work" /\ work(c).conn = c
          /\ work(c).todo = g.todo /\ work(c).op = op
      BY <1>1 DEF Frame
    <3>2. c # 0
      BY DEF Conn
    <3> QED
      BY <1>1, <2>1, <3>1, <3>2 DEF Fits
  <2>2. schema \in Frame /\ Fits(schema, opened')
    BY <1>1, <1>4, TaskOK DEF Frame, Fits, Reached, Conn
  <2>3. store \in Slow => connecting \in Frame /\ Fits(connecting, opened')
    BY <1>1, <1>4, TaskOK DEF Frame, Fits, Reached, Conn
  <2>4. CASE client # 0 /\ Go(t, work(client)) /\ UNCHANGED <<client, opened>>
    BY <2>1, <2>4, TaskOK
  <2>5. CASE store \in Slow /\ Go(t, connecting)
    BY <2>3, <2>5
  <2>6. CASE NewClient /\ Go(t, work(client'))
    <3>1. client' \in Conn /\ client' <= opened'
      BY <2>6, TaskOK DEF NewClient
    <3> QED
      BY <2>1, <2>6, <3>1
  <2>7. CASE Go(t, schema)
    BY <2>2, <2>7
  <2> QED
    BY <1>2, <2>4, <2>5, <2>6, <2>7 DEF Reach, Slow
<1>6. StaysClosed(t, f)
  BY <1>2, <1>3 DEF StaysClosed, Writing
<1> QED
  BY <1>3, <1>4, <1>5, <1>6, StepInv

LEMMA ConnectInv ==
    ASSUME Inv, NEW t \in Task, Connect(t)
    PROVE  Inv'
<1> DEFINE f == [task[t] EXCEPT !.at = "schema"]
<1>1. Go(t, f) /\ task[t].at = "connecting"
  BY DEF Connect, At
<1>2. Typed /\ Reached /\ open' = open
  BY TaskOK DEF Connect, NewClient, Typed, Reached, Inv, TypeOK, Conn, history
<1>3. f \in Frame /\ Fits(f, opened') /\ f.at = "schema"
  BY <1>1, <1>2, TaskOK DEF Frame, Fits, Reached, Conn
<1>4. StaysClosed(t, f)
  BY <1>1, <1>2 DEF StaysClosed, Writing
<1> HIDE DEF f
<1> QED
  BY <1>1, <1>2, <1>3, <1>4, StepInv

LEMMA CommittedOK ==
    ASSUME Inv, NEW c \in Conn, Committed(c)
    PROVE  /\ count' \in [Counter -> Nat] /\ open' \in [Conn -> [Counter -> Nat]]
           /\ open'[c] = Nothing
           /\ \A d \in Conn : open'[d] = open[d] \/ open'[d] = Nothing
<1>1. count \in [Counter -> Nat] /\ open \in [Conn -> [Counter -> Nat]]
  BY DEF Inv, TypeOK
<1>2. Sum2(count, open[c]) \in [Counter -> Nat]
  BY <1>1, Sum2Counts
<1> QED
  BY <1>1, <1>2, NothingCounts DEF Committed

LEMMA SchemaInv ==
    ASSUME Inv, NEW t \in Task, Schema(t)
    PROVE  Inv'
<1>1. /\ UNCHANGED <<store, client, opened, closed>> /\ ready' \in BOOLEAN
      /\ task[t].at = "schema"
  BY DEF Schema, At
<1>2. CASE Fail(t) /\ UNCHANGED <<count, open>>
  BY <1>1, <1>2, FailInv
<1>3. CASE /\ client # 0 /\ Go(t, [task[t] EXCEPT !.at = "work", !.conn = client])
           /\ IF store = "sqlite" THEN Committed(client) ELSE UNCHANGED <<count, open>>
           /\ UNCHANGED history
  <2> DEFINE f == [task[t] EXCEPT !.at = "work", !.conn = client]
  <2>1. f \in Frame /\ Fits(f, opened') /\ f.at = "work" /\ f.conn = client
    BY <1>1, <1>3, TaskOK DEF Frame, Fits
  <2> HIDE DEF f
  <2>2. client \in Conn
    BY <1>3, TaskOK
  <2>3. /\ count' \in [Counter -> Nat] /\ open' \in [Conn -> [Counter -> Nat]]
        /\ \A d \in Conn : open'[d] = open[d] \/ open'[d] = Nothing
    BY <1>3, <2>2, CommittedOK DEF Inv, TypeOK
  <2>4. Typed /\ Reached
    <3>1. Typed
      BY <1>1, <1>3, <2>3 DEF Typed, Inv, TypeOK, history
    <3> QED
      BY <1>1, <3>1, SameConnections
  <2>5. StaysClosed(t, f)
    BY <1>1, <2>3 DEF StaysClosed, Writing
  <2> QED
    BY <1>3, <2>1, <2>4, <2>5, StepInv DEF f
<1> QED
  BY <1>2, <1>3 DEF Schema
-----------------------------------------------------------------------------
(* What a call counts next, and what is left then.                         *)
LEMMA WorkOK ==
    ASSUME Inv, NEW t \in Task, At(t, "work")
    PROVE  /\ task[t].todo \in Seq(SUBSET Counter) /\ task[t].todo # <<>>
           /\ Tail(task[t].todo) \in Seq(SUBSET Counter)
           /\ task[t].conn \in Conn /\ task[t].conn <= opened /\ task[t].op \in Op
BY TaskOK DEF At, Fits, Frame

LEMMA ReturnCounts ==
    ASSUME Inv, NEW t \in Task, Return(t)
    PROVE  due' \in [Op -> Nat]
<1> DEFINE n(op) == IF task[t].due THEN due[op] + 1 ELSE due[op]
<1>1. due \in [Op -> Nat] /\ \A op \in Op : n(op) \in Nat
  BY DEF Inv, TypeOK
<1>2. due' = [due EXCEPT ![task[t].op] = n(task[t].op)]
  BY DEF Return
<1> HIDE DEF n
<1> QED
  BY <1>1, <1>2

(* A call of a store that commits by itself goes on, or returns.           *)
LEMMA OnwardInv ==
    ASSUME Inv, NEW t \in Task, At(t, "work"), Onward(t), store # "sqlite",
           count' \in [Counter -> Nat], UNCHANGED <<store, ready, process>>
    PROVE  Inv'
<1>1. UNCHANGED <<client, opened, closed, open>>
  BY DEF process
<1>2. open' = [c \in Conn |-> Nothing]
  BY <1>1 DEF Inv
<1>3. CASE Tail(task[t].todo) # <<>>
  <2> DEFINE f == [task[t] EXCEPT !.todo = Tail(task[t].todo)]
  <2>1. Go(t, f) /\ UNCHANGED history
    BY <1>3 DEF Onward
  <2>2. f \in Frame /\ Fits(f, opened')
    BY <1>1, <1>3, WorkOK, TaskOK DEF At, Frame, Fits
  <2> HIDE DEF f
  <2>3. Typed /\ Reached
    <3>1. Typed
      BY <1>1, <2>1 DEF Typed, Inv, TypeOK, history
    <3> QED
      BY <1>1, <3>1, SameConnections
  <2>4. StaysClosed(t, f)
    BY <1>2, WorkOK DEF StaysClosed
  <2> QED
    BY <1>1, <2>1, <2>2, <2>3, <2>4, StepInv
<1>4. CASE Tail(task[t].todo) = <<>>
  <2>1. Go(t, Idle) /\ UNCHANGED <<begun, cutOn, anew>>
    BY <1>4 DEF Onward, Return
  <2>2. due' \in [Op -> Nat]
    BY <1>4, ReturnCounts DEF Onward
  <2>3. Idle \in Frame /\ Fits(Idle, opened')
    BY <1>1, IdleOK, TaskOK
  <2>4. Typed /\ Reached
    <3>1. Typed
      BY <1>1, <2>1, <2>2 DEF Typed, Inv, TypeOK
    <3> QED
      BY <1>1, <3>1, SameConnections
  <2>5. StaysClosed(t, Idle)
    BY <1>2, WorkOK DEF StaysClosed
  <2> QED
    BY <1>1, <2>1, <2>3, <2>4, <2>5, StepInv
<1> QED
  BY <1>3, <1>4

LEMMA PostgresUpdateInv ==
    ASSUME Inv, NEW t \in Task, PostgresUpdate(t)
    PROVE  Inv'
<1>1. At(t, "work") /\ store # "sqlite" /\ UNCHANGED <<store, ready, process>>
  BY DEF PostgresUpdate
<1>2. CASE Onward(t) /\ count' = Plus(count, Head(task[t].todo))
  BY <1>1, <1>2, PlusCounts, OnwardInv DEF Inv, TypeOK
<1>3. CASE Fail(t) /\ UNCHANGED count
  BY <1>1, <1>3, FailInv DEF process, Inv, TypeOK
<1> QED
  BY <1>2, <1>3 DEF PostgresUpdate

LEMMA MongoDBUpdateInv ==
    ASSUME Inv, NEW t \in Task, MongoDBUpdate(t)
    PROVE  Inv'
<1>1. At(t, "work") /\ store # "sqlite" /\ UNCHANGED <<store, ready, process>>
  BY DEF MongoDBUpdate
<1>2. CASE Onward(t) /\ \E C : count' = Plus(count, C)
  BY <1>1, <1>2, PlusCounts, OnwardInv DEF Inv, TypeOK
<1>3. CASE Fail(t) /\ UNCHANGED count
  BY <1>1, <1>3, FailInv DEF process, Inv, TypeOK
<1> QED
  BY <1>2, <1>3 DEF MongoDBUpdate

LEMMA RedisUpdateInv ==
    ASSUME Inv, NEW t \in Task, RedisUpdate(t)
    PROVE  Inv'
BY PlusCounts, OnwardInv DEF RedisUpdate, Inv, TypeOK

LEMMA SQLiteUpdateInv ==
    ASSUME Inv, NEW t \in Task, SQLiteUpdate(t)
    PROVE  Inv'
<1>1. /\ At(t, "work") /\ store = "sqlite"
      /\ UNCHANGED <<store, ready, count, client, opened, closed>>
  BY DEF SQLiteUpdate, database
<1>2. CASE Fail(t) /\ UNCHANGED open
  BY <1>1, <1>2, FailInv DEF Inv, TypeOK
<1>3. CASE /\ open' = [open EXCEPT ![task[t].conn] = Plus(@, Head(task[t].todo))]
           /\ OnwardToCommit(t)
  <2> DEFINE rest == Tail(task[t].todo)
             c == task[t].conn
             f == [task[t] EXCEPT !.todo = rest,
                                  !.at = IF rest = <<>> THEN "commit" ELSE "work"]
  <2>1. Go(t, f) /\ UNCHANGED history
    BY <1>3 DEF OnwardToCommit
  <2>2. /\ f \in Frame /\ f.at \in Writing /\ f.conn = c
        /\ f.todo = rest /\ f.op = task[t].op /\ (f.at = "work" => rest # <<>>)
    BY WorkOK, TaskOK, <1>1 DEF Frame, Writing
  <2>3. c \in Conn /\ c <= opened /\ f.op \in Op /\ c # 0
    BY <1>1, <2>2, WorkOK DEF Conn
  <2> HIDE DEF f, c
  <2>4. Fits(f, opened')
    BY <1>1, <2>2, <2>3 DEF Fits, Writing
  <2>5. /\ open \in [Conn -> [Counter -> Nat]]
        /\ open' = [open EXCEPT ![c] = Plus(open[c], Head(task[t].todo))]
    BY <1>3 DEF c, Inv, TypeOK
  <2>6. open' \in [Conn -> [Counter -> Nat]]
    <3>1. Plus(open[c], Head(task[t].todo)) \in [Counter -> Nat]
      BY <2>3, <2>5, PlusCounts
    <3> QED
      BY <2>3, <2>5, <3>1
  <2>7. Typed /\ Reached
    <3>1. Typed
      BY <1>1, <2>1, <2>6 DEF Typed, Inv, TypeOK, history
    <3> QED
      BY <1>1, <3>1, SameConnections
  <2>8. StaysClosed(t, f)
    BY <2>2, <2>5 DEF StaysClosed, c
  <2> QED
    BY <1>1, <2>1, <2>2, <2>4, <2>7, <2>8, StepInv
<1> QED
  BY <1>2, <1>3 DEF SQLiteUpdate

LEMMA SQLiteCommitInv ==
    ASSUME Inv, NEW t \in Task, SQLiteCommit(t)
    PROVE  Inv'
<1>1. task[t].at = "commit" /\ UNCHANGED <<store, ready, client, opened, closed>>
  BY DEF SQLiteCommit, At
<1>2. CASE Fail(t) /\ UNCHANGED <<count, open>>
  BY <1>1, <1>2, FailInv DEF Inv, TypeOK
<1>3. CASE Committed(task[t].conn) /\ Return(t)
  <2>1. task[t].conn \in Conn
    BY <1>1, TaskOK DEF Fits, Frame
  <2>2. /\ count' \in [Counter -> Nat] /\ open' \in [Conn -> [Counter -> Nat]]
        /\ open'[task[t].conn] = Nothing
        /\ \A d \in Conn : open'[d] = open[d] \/ open'[d] = Nothing
    BY <1>3, <2>1, CommittedOK
  <2>3. Go(t, Idle) /\ UNCHANGED <<begun, cutOn, anew>> /\ due' \in [Op -> Nat]
    BY <1>3, ReturnCounts DEF Return
  <2>4. Idle \in Frame /\ Fits(Idle, opened')
    BY <1>1, IdleOK, TaskOK
  <2>5. Typed /\ Reached
    <3>1. Typed
      BY <1>1, <2>2, <2>3 DEF Typed, Inv, TypeOK
    <3> QED
      BY <1>1, <3>1, SameConnections
  <2>6. StaysClosed(t, Idle)
    BY <2>2 DEF StaysClosed
  <2>7. store # "sqlite" => open' = open
    BY <1>3, <2>1 DEF Committed, Inv
  <2> QED
    BY <2>3, <2>4, <2>5, <2>6, <2>7, StepInv
<1> QED
  BY <1>2, <1>3 DEF SQLiteCommit
-----------------------------------------------------------------------------
(* Nothing is committed and nothing begins.                                *)
LEMMA OthersInv ==
    ASSUME Inv, NEW t \in Task, NEW f \in Frame, Go(t, f), Fits(f, opened'), Reached,
           store' = store, UNCHANGED <<ready, count, begun, due, cutOn>>, anew' \in BOOLEAN,
           \/ open' = open
           \/ open' = [open EXCEPT ![task[t].conn] = Nothing],
           task[t].at \notin Writing
    PROVE  Inv'
<1>1. open \in [Conn -> [Counter -> Nat]]
  BY DEF Inv, TypeOK
<1>2. open' \in [Conn -> [Counter -> Nat]]
  BY <1>1, NothingCounts
<1>3. Typed
  BY <1>2 DEF Typed, Inv, TypeOK
<1>4. StaysClosed(t, f)
  BY <1>1 DEF StaysClosed
<1>5. store # "sqlite" => open' = open
  BY <1>1 DEF Inv
<1> QED
  BY <1>3, <1>4, <1>5, StepInv

LEMMA CloseInv ==
    ASSUME Inv, NEW t \in Task, Close(t)
    PROVE  Inv'
<1>1. /\ task[t].at = "idle" /\ client # 0 /\ anew' \in BOOLEAN
      /\ UNCHANGED <<store, ready, count, opened, open, begun, due, cutOn>>
  BY DEF Close, Free, At, database, Inv, TypeOK
<1>2. CASE /\ Go(t, [Idle EXCEPT !.op = "close", !.at = "closing", !.conn = client])
           /\ UNCHANGED <<client, closed, anew>>
  <2> DEFINE f == [Idle EXCEPT !.op = "close", !.at = "closing", !.conn = client]
  <2>1. f \in Frame /\ Fits(f, opened')
    BY <1>1, IdleOK, TaskOK DEF Idle, Frame, Fits
  <2>2. Reached
    BY <1>1, <1>2, SameConnections
  <2> QED
    BY <1>1, <1>2, <2>1, <2>2, OthersInv DEF Writing
<1>3. CASE closed' = closed \cup {client} /\ client' = 0 /\ UNCHANGED task
  <2>1. Go(t, task[t]) /\ task[t] \in Frame /\ Fits(task[t], opened')
    BY <1>1, <1>3, TaskOK DEF Go, Inv, TypeOK
  <2>2. client \in 1 .. opened
    BY <1>1, TaskOK DEF Conn
  <2>3. Reached
    BY <1>1, <1>3, <2>2, TaskOK DEF Reached
  <2> QED
    BY <1>1, <2>1, <2>3, OthersInv DEF Writing
<1> QED
  BY <1>2, <1>3 DEF Close

LEMMA DisconnectInv ==
    ASSUME Inv, NEW t \in Task, Disconnect(t)
    PROVE  Inv'
<1> DEFINE f == [task[t] EXCEPT !.at = "closed"]
<1>1. /\ task[t].at = "closing" /\ anew' \in BOOLEAN /\ Go(t, f)
      /\ UNCHANGED <<store, ready, count, client, opened, begun, due, cutOn>>
      /\ open' = [open EXCEPT ![task[t].conn] = Nothing]
  BY DEF Disconnect, At, database, history, Inv, TypeOK
<1>2. f \in Frame /\ Fits(f, opened')
  BY <1>1, TaskOK DEF Frame, Fits
<1>3. task[t].conn \in 1 .. opened
  BY <1>1, TaskOK DEF Fits, Frame, Conn
<1>4. Reached
  BY <1>1, <1>3, TaskOK DEF Disconnect, Reached
<1> HIDE DEF f
<1> QED
  BY <1>1, <1>2, <1>4, OthersInv DEF Writing

LEMMA GiveUpInv ==
    ASSUME Inv, NEW t \in Task, GiveUp(t)
    PROVE  Inv'
<1>1. /\ task[t].at = "closed" /\ anew' \in BOOLEAN /\ Go(t, Idle)
      /\ UNCHANGED <<store, ready, count, opened, closed, open, begun, due, cutOn>>
      /\ client' = 0
  BY DEF GiveUp, At, database
<1>2. Idle \in Frame /\ Fits(Idle, opened')
  BY <1>1, IdleOK, TaskOK
<1>3. Reached
  BY <1>1, TaskOK DEF Reached
<1> QED
  BY <1>1, <1>2, <1>3, OthersInv DEF Writing

LEMMA AbortInv ==
    ASSUME Inv, NEW t \in Task, Abort(t)
    PROVE  Inv'
BY FailInv DEF Abort, database, process, Inv, TypeOK

LEMMA RestartInv == Inv /\ Restart => Inv'
<1> SUFFICES ASSUME Inv, Restart PROVE Inv'
  OBVIOUS
<1>1. /\ task' = [t \in Task |-> Idle] /\ open' = [c \in Conn |-> Nothing]
      /\ client' = 0 /\ opened' = 0 /\ closed' = {} /\ cutOn' = {} /\ anew' = FALSE
      /\ UNCHANGED <<store, ready, count, begun, due>>
  BY DEF Restart, database
<1>2. TypeOK'
  BY <1>1, IdleOK, NothingCounts DEF Inv, TypeOK
<1>3. \A t \in Task : Fits(task[t], opened)'
  BY <1>1, IdleOK DEF Fits, Idle
<1> QED
  BY <1>1, <1>2, <1>3 DEF Inv, TransactionsAreClosed

LEMMA NextInv == Inv /\ [Next]_vars => Inv'
<1> SUFFICES ASSUME Inv, [Next]_vars PROVE Inv'
  OBVIOUS
<1>1. ASSUME NEW t \in Task, Step(t) PROVE Inv'
  BY <1>1, RecordInv, ConnectInv, SchemaInv, SQLiteUpdateInv, SQLiteCommitInv,
     PostgresUpdateInv, MongoDBUpdateInv, RedisUpdateInv, CloseInv, DisconnectInv,
     GiveUpInv, AbortInv DEF Step
<1>2. CASE UNCHANGED vars
  BY <1>2 DEF vars, database, process, history, Inv, TypeOK, TransactionsAreClosed, Fits
<1> QED
  BY <1>1, <1>2, RestartInv DEF Next

THEOREM AlwaysInv == Spec => []Inv
BY InitInv, NextInv, PTL DEF Spec

(* Clients, transactions and frames are well typed, on every store and for *)
(* any number of tasks (tracking/*.py).                                    *)
THEOREM TypeCorrect == Spec => []TypeOK
<1>1. Inv => TypeOK
  BY DEF Inv
<1> QED
  BY <1>1, AlwaysInv, PTL

(* An open transaction is of a task that is to commit it, or of a call     *)
(* that was cut off, though all tasks write on shared connections          *)
(* (sqlite.py 38-59).                                                      *)
THEOREM TransactionsClosed == Spec => []TransactionsAreClosed
<1>1. Inv => TransactionsAreClosed
  BY DEF Inv
<1> QED
  BY <1>1, AlwaysInv, PTL
-----------------------------------------------------------------------------
(***************************************************************************)
(* The connections.                                                        *)
(***************************************************************************)
LEMMA ConnectingFinite ==
    /\ IsFiniteSet(Connecting) /\ Cardinality(Connecting) \in Nat
    /\ Cardinality(Task) \in Nat /\ Cardinality(Connecting) <= Cardinality(Task)
<1>1. Connecting \subseteq Task
  BY DEF Connecting
<1> QED
  BY <1>1, TaskAssumption, FS_Subset, FS_CardinalityType

(* A step that leaves the connections alone, but may end a call.           *)
LEMMA FewerConnecting ==
    ASSUME Inv, Accounted, Connecting' \subseteq Connecting,
           UNCHANGED <<store, opened>>, client = 0 \/ client' # 0, anew' = anew
    PROVE  Accounted'
<1>1. Cardinality(Connecting') <= Cardinality(Connecting) /\ Cardinality(Connecting') \in Nat
  BY ConnectingFinite, FS_Subset, FS_CardinalityType
<1> QED
  BY <1>1, ConnectingFinite, TaskOK DEF Accounted, Inv, TypeOK, Conn

LEMMA OneStops ==
    ASSUME Inv, NEW t \in Task, NEW f, Go(t, f)
    PROVE  /\ f.at # "connecting" => Connecting' = Connecting \ {t}
           /\ f.at = "connecting" => Connecting' = Connecting \cup {t}
BY DEF Inv, TypeOK, Go, Connecting, At

(* A call that stops, or goes on to a place other than connecting.         *)
LEMMA NotConnecting ==
    ASSUME Inv, Accounted, NEW t \in Task, NEW f, Go(t, f), f.at # "connecting",
           UNCHANGED <<store, opened>>, client = 0 \/ client' # 0, anew' = anew
    PROVE  Accounted'
BY OneStops, FewerConnecting

LEMMA FailAccounted ==
    ASSUME Inv, Accounted, NEW t \in Task, Fail(t), UNCHANGED <<store, client, opened>>
    PROVE  Accounted'
<1>1. CASE At(t, "connecting")
  BY <1>1 DEF Fail, Accounted
<1>2. CASE ~At(t, "connecting")
  <2>1. anew' = anew /\ Go(t, Idle) /\ Idle.at # "connecting"
    BY <1>2 DEF Fail, Idle, Inv, TypeOK
  <2> QED
    BY <2>1, NotConnecting
<1> QED
  BY <1>1, <1>2

LEMMA RecordAccounted ==
    ASSUME Inv, Accounted, NEW t \in Task, NEW op \in Op, Record(t, op)
    PROVE  Accounted'
<1> DEFINE g == [Idle EXCEPT !.op = op, !.todo = Requests(op), !.due = ready]
           work(c) == [g EXCEPT !.at = "work", !.conn = c]
           connecting == [g EXCEPT !.at = "connecting"]
           schema == [g EXCEPT !.at = "schema"]
<1>1. store' = store /\ anew' = anew /\ Reach(t, g)
  BY DEF Record, database
<1>2. /\ \A c : work(c).at # "connecting"
      /\ schema.at # "connecting" /\ connecting.at = "connecting"
  BY DEF Idle
<1>3. CASE client # 0 /\ Go(t, work(client)) /\ UNCHANGED <<client, opened>>
  <2> HIDE DEF work
  <2> QED
    BY <1>1, <1>2, <1>3, NotConnecting
<1>4. CASE client = 0 /\ store \in Slow /\ Go(t, connecting) /\ UNCHANGED <<client, opened>>
  <2>1. Cardinality(Connecting)' <= Cardinality(Task) /\ Cardinality(Connecting)' \in Nat
    <3>1. Connecting' \subseteq Task
      BY DEF Connecting
    <3> QED
      BY <3>1, TaskAssumption, FS_Subset, FS_CardinalityType
  <2> QED
    BY <1>1, <1>4, <2>1, ConnectingFinite DEF Accounted
<1>5. CASE client = 0 /\ store \notin Slow /\ NewClient
  <2>1. opened' = opened + 1 /\ client' = opened + 1 /\ opened \in Nat
    BY <1>5, TaskOK DEF NewClient
  <2> QED
    BY <1>1, <1>5, <2>1 DEF Accounted
<1> HIDE DEF g
<1> QED
  BY <1>1, <1>3, <1>4, <1>5 DEF Reach, Slow

LEMMA ConnectAccounted ==
    ASSUME Inv, Accounted, NEW t \in Task, Connect(t)
    PROVE  Accounted'
<1> DEFINE f == [task[t] EXCEPT !.at = "schema"]
<1>1. /\ t \in Connecting /\ Go(t, f) /\ store' = store /\ anew' = anew
      /\ opened' = opened + 1 /\ client' = opened + 1 /\ opened \in Nat
      /\ store \in Slow
  BY TaskOK DEF Connect, NewClient, Connecting, history, At, Fits
<1>2. f.at = "schema"
  BY TaskOK DEF Frame
<1> HIDE DEF f
<1>3. Connecting' = Connecting \ {t}
  BY <1>1, <1>2, OneStops
<1>4. Cardinality(Connecting') = Cardinality(Connecting) - 1
  BY <1>1, <1>3, ConnectingFinite, FS_RemoveElement
<1> QED
  BY <1>1, <1>4, ConnectingFinite DEF Accounted

LEMMA SchemaAccounted ==
    ASSUME Inv, Accounted, NEW t \in Task, Schema(t)
    PROVE  Accounted'
<1>1. UNCHANGED <<store, client, opened>>
  BY DEF Schema
<1>2. CASE Fail(t)
  BY <1>1, <1>2, FailAccounted
<1>3. CASE Go(t, [task[t] EXCEPT !.at = "work", !.conn = client]) /\ UNCHANGED history
  <2> DEFINE f == [task[t] EXCEPT !.at = "work", !.conn = client]
  <2>1. f.at = "work"
    BY TaskOK DEF Frame
  <2> HIDE DEF f
  <2> QED
    BY <1>1, <1>3, <2>1, NotConnecting DEF f, history
<1> QED
  BY <1>2, <1>3 DEF Schema

LEMMA UpdateAccounted ==
    ASSUME Inv, Accounted, NEW t \in Task,
           \/ SQLiteUpdate(t) \/ SQLiteCommit(t) \/ PostgresUpdate(t)
           \/ MongoDBUpdate(t) \/ RedisUpdate(t)
    PROVE  Accounted'
<1>1. UNCHANGED <<store, client, opened>> /\ task[t].at \in Writing
  BY DEF SQLiteUpdate, SQLiteCommit, PostgresUpdate, MongoDBUpdate, RedisUpdate, database,
         process, At, Writing
<1>2. CASE Fail(t)
  BY <1>1, <1>2, FailAccounted
<1>3. CASE Return(t)
  <2>1. Go(t, Idle) /\ Idle.at # "connecting" /\ anew' = anew
    BY <1>3 DEF Return, Idle
  <2> QED
    BY <1>1, <2>1, NotConnecting
<1>4. CASE OnwardToCommit(t)
  <2> DEFINE rest == Tail(task[t].todo)
             f == [task[t] EXCEPT !.todo = rest,
                                  !.at = IF rest = <<>> THEN "commit" ELSE "work"]
  <2>1. f.at # "connecting" /\ Go(t, f) /\ anew' = anew
    BY <1>4, TaskOK DEF OnwardToCommit, Frame, history
  <2> HIDE DEF f
  <2> QED
    BY <1>1, <2>1, NotConnecting
<1>5. CASE Go(t, [task[t] EXCEPT !.todo = Tail(task[t].todo)]) /\ UNCHANGED history
  <2> DEFINE f == [task[t] EXCEPT !.todo = Tail(task[t].todo)]
  <2>1. f.at # "connecting"
    BY <1>1, TaskOK DEF Frame, Writing
  <2> HIDE DEF f
  <2> QED
    BY <1>1, <1>5, <2>1, NotConnecting DEF f, history
<1> QED
  BY <1>2, <1>3, <1>4, <1>5
     DEF SQLiteUpdate, SQLiteCommit, PostgresUpdate, MongoDBUpdate, RedisUpdate, Onward

LEMMA CloseAccounted ==
    ASSUME Inv, Accounted, NEW t \in Task, Close(t) \/ Disconnect(t) \/ GiveUp(t)
    PROVE  Accounted'
<1>1. CASE anew'
  BY <1>1 DEF Accounted
<1>2. CASE /\ Go(t, [Idle EXCEPT !.op = "close", !.at = "closing", !.conn = client])
           /\ UNCHANGED <<store, client, opened, anew>>
  <2> DEFINE f == [Idle EXCEPT !.op = "close", !.at = "closing", !.conn = client]
  <2>1. f.at # "connecting"
    BY DEF Idle
  <2> HIDE DEF f
  <2> QED
    BY <1>2, <2>1, NotConnecting DEF f
<1>3. CASE Disconnect(t)
  <2> DEFINE f == [task[t] EXCEPT !.at = "closed"]
  <2>1. f.at # "connecting" /\ Go(t, f) /\ UNCHANGED <<store, client, opened, anew>>
    BY <1>3, TaskOK DEF Disconnect, Frame, database, history
  <2> HIDE DEF f
  <2> QED
    BY <2>1, NotConnecting
<1> QED
  BY <1>1, <1>2, <1>3 DEF Close, GiveUp, database

LEMMA RestartAccounted == Restart => Accounted'
<1> SUFFICES ASSUME Restart PROVE Accounted'
  OBVIOUS
<1>1. client' = 0 /\ opened' = 0 /\ store' = store /\ Connecting' = {}
  BY DEF Restart, Connecting, At, Idle, database
<1> QED
  BY <1>1, ConnectingFinite, FS_EmptySet DEF Accounted

LEMMA NextAccounted == Inv /\ Accounted /\ [Next]_vars => Accounted'
<1> SUFFICES ASSUME Inv, Accounted, [Next]_vars PROVE Accounted'
  OBVIOUS
<1>1. ASSUME NEW t \in Task, Step(t) PROVE Accounted'
  <2>1. CASE Abort(t)
    BY <2>1, FailAccounted DEF Abort, database, process
  <2> QED
    BY <1>1, <2>1, RecordAccounted, ConnectAccounted, SchemaAccounted, UpdateAccounted,
       CloseAccounted DEF Step
<1>2. CASE UNCHANGED vars
  BY <1>2 DEF vars, database, process, history, Accounted, Connecting, At
<1> QED
  BY <1>1, <1>2, RestartAccounted DEF Next

LEMMA InitAccounted == Init => Accounted
<1> SUFFICES ASSUME Init PROVE Accounted
  OBVIOUS
<1>1. client = 0 /\ opened = 0 /\ Connecting = {}
  BY DEF Init, Connecting, At, Idle
<1> QED
  BY <1>1, ConnectingFinite, FS_EmptySet DEF Accounted

(* Until a client is given up or a call cut off while it connects, no more *)
(* connections are opened than there are tasks, and one where the client   *)
(* is kept at once (sqlite.py 37-44, postgres.py 28-31).                   *)
THEOREM ConnectionsStayBounded == Spec => []ConnectionsBounded
<1>1. Inv /\ Accounted => ConnectionsBounded
  <2> SUFFICES ASSUME Inv, Accounted, ~anew
               PROVE  opened <= IF store \in {"redis", "mongodb"} THEN 1
                                ELSE Cardinality(Task)
    BY DEF ConnectionsBounded
  <2>1. opened \in Nat /\ Cardinality(Connecting) \in Nat /\ Cardinality(Task) \in Nat
    BY ConnectingFinite DEF Inv, TypeOK, Conn
  <2>2. store \in {"sqlite", "redis", "postgres", "mongodb"}
    BY DEF Inv, TypeOK
  <2> QED
    BY <2>1, <2>2 DEF Accounted, Slow
<1>2. Spec => []Accounted
  BY InitAccounted, NextAccounted, AlwaysInv, PTL DEF Spec
<1> QED
  BY <1>1, <1>2, AlwaysInv, PTL
-----------------------------------------------------------------------------
(***************************************************************************)
(* The counters.  Of the calls that have begun, those that have a counter  *)
(* still to count are ahead of it; those that were due and have counted it *)
(* are past it, unless what they wrote was rolled back.                    *)
(***************************************************************************)
Asked(todo, c) == \E i \in DOMAIN todo : c \in todo[i]

Ahead(f, c) == f.at \in {"connecting", "schema", "work"} /\ Asked(f.todo, c)
Past(f, c) ==
    /\ f.at \in Writing /\ f.due /\ f.op = OpOf(c) /\ ~Asked(f.todo, c)
    /\ store = "sqlite" => f.conn \notin closed

AheadOf(c) == {t \in Task : Ahead(task[t], c)}
PastIt(c) == {t \in Task : Past(task[t], c)}
Off(c, w) == {t \in PastIt(c) : task[t].conn # w}

(* One connection writes at a time. *)
Lone == \A v, w \in Conn : open[v] # Nothing /\ open[w] # Nothing => v = w

(* No call counts twice ... *)
Once(c) ==
    \A w \in Conn : count[c] + open[w][c] + Cardinality(AheadOf(c)) <= begun[OpOf(c)]

(* ... and each that was due does: what it wrote is in the database, or    *)
(* in the one transaction that is open.                                    *)
Kept(c) ==
    LET d == due[OpOf(c)] IN
    /\ \A w \in Conn : open[w] # Nothing =>
          /\ d + Cardinality(Off(c, w)) <= count[c]
          /\ d + Cardinality(PastIt(c)) <= count[c] + open[w][c]
    /\ (\A w \in Conn : open[w] = Nothing) => d + Cardinality(PastIt(c)) <= count[c]

(* What is left of the requests of a call. *)
Todos == {<<{"row"}, {"hits"}>>, <<{"hits"}, {"row"}>>, <<{"row", "hits"}>>,
          <<{"misses"}>>, <<{"row"}>>, <<{"hits"}>>}

Lined(f) ==
    /\ f.at \in {"connecting", "schema", "work"} => f.todo \in Todos
    /\ f.at \in {"connecting", "schema"} =>
          \A c \in Counter : Asked(f.todo, c) <=> OpOf(c) = f.op
    /\ \A c \in Counter : Asked(f.todo, c) => OpOf(c) = f.op
    /\ f.at = "commit" => f.todo = <<>> /\ store = "sqlite"
    /\ f.due => ready

Tally ==
    /\ Inv /\ Lone
    /\ \A t \in Task : Lined(task[t])
    /\ \A c \in Counter : Once(c) /\ Kept(c)
-----------------------------------------------------------------------------
LEMMA NothingAsked == ASSUME NEW c PROVE ~Asked(<<>>, c)
BY DEF Asked

LEMMA HeadAsked ==
    ASSUME NEW todo \in Todos
    PROVE  /\ todo # <<>> /\ Head(todo) \subseteq Counter /\ Head(todo) # {}
           /\ Tail(todo) # <<>> => Tail(todo) \in Todos
           /\ \A c : Asked(todo, c) <=> c \in Head(todo) \/ Asked(Tail(todo), c)
           /\ \A c : c \in Head(todo) => ~Asked(Tail(todo), c)
<1>1. CASE todo = <<{"row"}, {"hits"}>>
  <2>1. Head(todo) = {"row"} /\ Tail(todo) = <<{"hits"}>> /\ todo # <<>>
    BY <1>1
  <2>2. \A c : Asked(todo, c) <=> c = "row" \/ c = "hits"
    BY <1>1 DEF Asked
  <2>3. \A c : Asked(<<{"hits"}>>, c) <=> c = "hits"
    BY DEF Asked
  <2> QED
    BY <2>1, <2>2, <2>3 DEF Todos, Counter
<1>2. CASE todo = <<{"hits"}, {"row"}>>
  <2>1. Head(todo) = {"hits"} /\ Tail(todo) = <<{"row"}>> /\ todo # <<>>
    BY <1>2
  <2>2. \A c : Asked(todo, c) <=> c = "row" \/ c = "hits"
    BY <1>2 DEF Asked
  <2>3. \A c : Asked(<<{"row"}>>, c) <=> c = "row"
    BY DEF Asked
  <2> QED
    BY <2>1, <2>2, <2>3 DEF Todos, Counter
<1>3. ASSUME NEW C \in SUBSET Counter, todo = <<C>>
      PROVE  /\ todo # <<>> /\ Head(todo) = C /\ Tail(todo) = <<>>
             /\ \A c : Asked(todo, c) <=> c \in C
  BY <1>3 DEF Asked
<1>4. CASE todo \in {<<{"row", "hits"}>>, <<{"misses"}>>, <<{"row"}>>, <<{"hits"}>>}
  <2>1. PICK C \in SUBSET Counter : todo = <<C>> /\ C # {}
    BY <1>4 DEF Counter
  <2> QED
    BY <1>3, <2>1, NothingAsked
<1> QED
  BY <1>1, <1>2, <1>4 DEF Todos

LEMMA RequestsAsked ==
    ASSUME store \in {"sqlite", "redis", "postgres", "mongodb"}, NEW op \in Op
    PROVE  /\ Requests(op) \in Todos
           /\ \A c \in Counter : Asked(Requests(op), c) <=> OpOf(c) = op
<1>1. Asked(<<{"misses"}>>, "misses") /\ ~Asked(<<{"misses"}>>, "row")
      /\ ~Asked(<<{"misses"}>>, "hits")
  BY DEF Asked
<1>2. ASSUME NEW todo \in {<<{"row"}, {"hits"}>>, <<{"hits"}, {"row"}>>, <<{"row", "hits"}>>}
      PROVE  Asked(todo, "row") /\ Asked(todo, "hits") /\ ~Asked(todo, "misses")
  BY DEF Asked
<1>3. CASE op = "miss"
  <2>1. Requests(op) = <<{"misses"}>>
    BY <1>3 DEF Requests
  <2> QED
    BY <1>1, <1>3, <2>1 DEF Todos, Counter, OpOf
<1>4. CASE op = "hit"
  <2>1. Requests(op) \in {<<{"row"}, {"hits"}>>, <<{"hits"}, {"row"}>>, <<{"row", "hits"}>>}
    BY <1>4 DEF Requests
  <2> QED
    BY <1>2, <1>4, <2>1 DEF Todos, Counter, OpOf
<1> QED
  BY <1>3, <1>4 DEF Op

(* A set of tasks that changes in one of them. *)
LEMMA OneTaskMoves ==
    ASSUME NEW S \in SUBSET Task, NEW R \in SUBSET Task, NEW t \in Task, S \ {t} = R \ {t}
    PROVE  /\ Cardinality(S) \in Nat /\ Cardinality(R) \in Nat
           /\ (t \in S <=> t \in R) => Cardinality(R) = Cardinality(S)
           /\ t \in S /\ t \notin R => Cardinality(R) = Cardinality(S) - 1
           /\ t \notin S /\ t \in R => Cardinality(R) = Cardinality(S) + 1
<1>1. IsFiniteSet(S) /\ IsFiniteSet(R)
  BY TaskAssumption, FS_Subset
<1>2. CASE t \in S /\ t \notin R
  <2>1. R = S \ {t}
    BY <1>2
  <2> QED
    BY <1>1, <1>2, <2>1, FS_RemoveElement, FS_CardinalityType
<1>3. CASE t \notin S /\ t \in R
  <2>1. S = R \ {t}
    BY <1>3
  <2> QED
    BY <1>1, <1>3, <2>1, FS_RemoveElement, FS_CardinalityType
<1>4. (t \in S <=> t \in R) => Cardinality(R) = Cardinality(S)
  <2>1. (t \in S <=> t \in R) => R = S
    OBVIOUS
  <2> QED
    BY <2>1
<1>5. Cardinality(S) \in Nat /\ Cardinality(R) \in Nat
  BY <1>1, FS_CardinalityType
<1> QED
  BY <1>2, <1>3, <1>4, <1>5

LEMMA FewerTasks ==
    ASSUME NEW S \in SUBSET Task, NEW R \in SUBSET S
    PROVE  /\ Cardinality(S) \in Nat /\ Cardinality(R) \in Nat
           /\ Cardinality(R) <= Cardinality(S)
<1>1. IsFiniteSet(S) /\ IsFiniteSet(R)
  BY TaskAssumption, FS_Subset
<1> QED
  BY <1>1, FS_CardinalityType, FS_Subset

(* Everything is a number. *)
LEMMA Numbers ==
    ASSUME Inv, NEW c \in Counter
    PROVE  /\ OpOf(c) \in Op /\ count[c] \in Nat /\ begun[OpOf(c)] \in Nat
           /\ due[OpOf(c)] \in Nat /\ \A w \in Conn : open[w][c] \in Nat
           /\ Cardinality(AheadOf(c)) \in Nat /\ Cardinality(PastIt(c)) \in Nat
           /\ \A w : Cardinality(Off(c, w)) \in Nat
<1>1. OpOf(c) \in Op
  BY DEF OpOf, Op
<1>2. /\ count[c] \in Nat /\ begun[OpOf(c)] \in Nat /\ due[OpOf(c)] \in Nat
      /\ \A w \in Conn : open[w][c] \in Nat
  BY <1>1 DEF Inv, TypeOK
<1>3. Cardinality(AheadOf(c)) \in Nat
  <2>1. AheadOf(c) \in SUBSET Task
    BY DEF AheadOf
  <2> QED
    BY <2>1, FewerTasks
<1>4. Cardinality(PastIt(c)) \in Nat
  <2>1. PastIt(c) \in SUBSET Task
    BY DEF PastIt
  <2> QED
    BY <2>1, FewerTasks
<1>5. ASSUME NEW w PROVE Cardinality(Off(c, w)) \in Nat
  <2>1. Off(c, w) \in SUBSET Task
    BY DEF Off, PastIt
  <2> QED
    BY <2>1, FewerTasks
<1> QED
  BY <1>1, <1>2, <1>3, <1>4, <1>5

(* n is what a step of t counts, in the database or in a transaction. *)
LEMMA OnceKept ==
    ASSUME Inv, Inv', NEW c \in Counter, Once(c), NEW t \in Task, NEW g, Go(t, g),
           begun' = begun, NEW n \in {0, 1},
           n = 0 => (Ahead(g, c) => Ahead(task[t], c)),
           n = 1 => Ahead(task[t], c) /\ ~Ahead(g, c),
           \A w \in Conn : \E v \in Conn : count'[c] + open'[w][c] <= count[c] + open[v][c] + n
    PROVE  Once(c)'
<1> DEFINE S == AheadOf(c)
           R == {u \in Task : Ahead(task'[u], c)}
           s == Cardinality(S)
           r == Cardinality(R)
           b == begun[OpOf(c)]
<1>1. R = AheadOf(c)' /\ S \in SUBSET Task /\ R \in SUBSET Task
  BY DEF AheadOf
<1>2. task'[t] = g /\ \A u \in Task \ {t} : task'[u] = task[u]
  BY DEF Go, Inv, TypeOK
<1>3. S \ {t} = R \ {t}
  BY <1>2 DEF AheadOf
<1>4. (t \in S <=> Ahead(task[t], c)) /\ (t \in R <=> Ahead(g, c))
  BY <1>2 DEF AheadOf
<1>5. s \in Nat /\ r \in Nat /\ r + n <= s
  <2>1. (n = 0 => (t \in R => t \in S)) /\ (n = 1 => t \in S /\ t \notin R)
    BY <1>4
  <2> HIDE DEF S, R
  <2>2. /\ s \in Nat /\ r \in Nat
        /\ (t \in S <=> t \in R) => r = s
        /\ t \in S /\ t \notin R => r = s - 1
    BY <1>1, <1>3, OneTaskMoves
  <2> QED
    BY <2>1, <2>2
<1>6. ASSUME NEW w \in Conn PROVE count'[c] + open'[w][c] + r <= b
  <2> DEFINE x == count'[c]
             y == open'[w][c]
  <2>1. PICK v \in Conn : x + y <= count[c] + open[v][c] + n
    BY <1>6
  <2> DEFINE p == count[c]
             q == open[v][c]
  <2>2. p \in Nat /\ q \in Nat /\ b \in Nat /\ x \in Nat /\ y \in Nat
    <3>1. p \in Nat /\ q \in Nat /\ b \in Nat
      BY Numbers
    <3>2. (\A d \in Counter : count[d] \in Nat)' /\ (\A d \in Counter, u \in Conn : open[u][d] \in Nat)'
      BY DEF Inv, TypeOK
    <3> QED
      BY <3>1, <3>2
  <2>3. p + q + s <= b /\ x + y <= p + q + n
    BY <2>1 DEF Once
  <2> HIDE DEF p, q, x, y, s, r, b
  <2>4. x + y + r <= b
    BY <1>5, <2>2, <2>3
  <2> QED
    BY <2>4 DEF x, y
<1> QED
  BY <1>1, <1>6 DEF Once

(* The calls past a counter, those that have returned included.            *)
Total(c) == due[OpOf(c)] + Cardinality(PastIt(c))
TotalOff(c, w) == due[OpOf(c)] + Cardinality(Off(c, w))

LEMMA KeptIs ==
    ASSUME NEW c
    PROVE  Kept(c) <=>
             /\ \A w \in Conn : open[w] # Nothing =>
                   TotalOff(c, w) <= count[c] /\ Total(c) <= count[c] + open[w][c]
             /\ (\A w \in Conn : open[w] = Nothing) => Total(c) <= count[c]
BY DEF Kept, Total, TotalOff

(* One task moves, and m of its calls return that were due. *)
LEMMA Totals ==
    ASSUME Inv, NEW c \in Counter, NEW t \in Task, NEW g, Go(t, g),
           store' = store, store = "sqlite" => closed' = closed, NEW m \in {0, 1},
           due'[OpOf(c)] = due[OpOf(c)] + m
    PROVE  /\ Total(c) \in Nat /\ Total(c)' \in Nat
           /\ Total(c)' <= Total(c) + 1 + m
           /\ (Past(g, c) => Past(task[t], c)) => Total(c)' <= Total(c) + m
           /\ Past(task[t], c) /\ ~Past(g, c) => Total(c)' <= Total(c) + m - 1
           /\ \A w : /\ TotalOff(c, w) \in Nat /\ TotalOff(c, w)' \in Nat
                     /\ (Past(g, c) => Past(task[t], c) /\ g.conn = task[t].conn)
                        => TotalOff(c, w)' <= TotalOff(c, w) + m
                     /\ Past(task[t], c) /\ ~Past(g, c) /\ w # task[t].conn
                        => TotalOff(c, w)' <= TotalOff(c, w) + m - 1
                     /\ Past(g, c) /\ w = g.conn
                        => TotalOff(c, w)' <= TotalOff(c, w) + m
<1> DEFINE R == {u \in Task : Past(task'[u], c)}
           S == PastIt(c)
           d == due[OpOf(c)]
<1>1. /\ task'[t] = g /\ \A u \in Task \ {t} : task'[u] = task[u]
  BY DEF Go, Inv, TypeOK
<1>2. R = PastIt(c)' /\ S \in SUBSET Task /\ R \in SUBSET Task
  BY DEF PastIt, Past
<1>3. S \ {t} = R \ {t} /\ (t \in S <=> Past(task[t], c)) /\ (t \in R <=> Past(g, c))
  BY <1>1 DEF PastIt
<1>4. d \in Nat
  BY Numbers
<1>5. /\ Cardinality(S) \in Nat /\ Cardinality(R) \in Nat
      /\ (t \in S <=> t \in R) => Cardinality(R) = Cardinality(S)
      /\ t \in S /\ t \notin R => Cardinality(R) = Cardinality(S) - 1
      /\ t \notin S /\ t \in R => Cardinality(R) = Cardinality(S) + 1
  <2> HIDE DEF S, R
  <2> QED
    BY <1>2, <1>3, OneTaskMoves
<1>6. /\ Total(c) = d + Cardinality(S)
      /\ Total(c)' = d + m + Cardinality(R)
  BY <1>2 DEF Total
<1>7. ASSUME NEW w
      PROVE  /\ TotalOff(c, w) \in Nat /\ TotalOff(c, w)' \in Nat
             /\ (Past(g, c) => Past(task[t], c) /\ g.conn = task[t].conn)
                => TotalOff(c, w)' <= TotalOff(c, w) + m
             /\ Past(task[t], c) /\ ~Past(g, c) /\ w # task[t].conn
                => TotalOff(c, w)' <= TotalOff(c, w) + m - 1
             /\ Past(g, c) /\ w = g.conn
                => TotalOff(c, w)' <= TotalOff(c, w) + m
  <2> DEFINE Sw == Off(c, w)
             Rw == {u \in R : task'[u].conn # w}
  <2>1. Rw = Off(c, w)' /\ Sw \in SUBSET Task /\ Rw \in SUBSET Task
    BY <1>2 DEF Off
  <2>2. /\ Sw \ {t} = Rw \ {t} /\ (t \in Sw <=> Past(task[t], c) /\ task[t].conn # w)
        /\ (t \in Rw <=> Past(g, c) /\ g.conn # w)
    BY <1>1, <1>3 DEF Off
  <2>3. /\ Cardinality(Sw) \in Nat /\ Cardinality(Rw) \in Nat
        /\ (t \in Sw <=> t \in Rw) => Cardinality(Rw) = Cardinality(Sw)
        /\ t \in Sw /\ t \notin Rw => Cardinality(Rw) = Cardinality(Sw) - 1
        /\ t \notin Sw /\ t \in Rw => Cardinality(Rw) = Cardinality(Sw) + 1
    <3> HIDE DEF Sw, Rw
    <3> QED
      BY <2>1, <2>2, OneTaskMoves
  <2>4. TotalOff(c, w) = d + Cardinality(Sw) /\ TotalOff(c, w)' = d + m + Cardinality(Rw)
    BY <2>1 DEF TotalOff
  <2> HIDE DEF Sw, Rw, d, S, R
  <2> QED
    BY <1>4, <2>2, <2>3, <2>4
<1> HIDE DEF S, R, d
<1>8. /\ Total(c) \in Nat /\ Total(c)' \in Nat
      /\ Total(c)' <= Total(c) + 1 + m
      /\ (Past(g, c) => Past(task[t], c)) => Total(c)' <= Total(c) + m
      /\ Past(task[t], c) /\ ~Past(g, c) => Total(c)' <= Total(c) + m - 1
  BY <1>3, <1>4, <1>5, <1>6
<1> QED
  BY <1>7, <1>8
-----------------------------------------------------------------------------
(***************************************************************************)
(* What a step of one task makes of Kept.                                  *)
(***************************************************************************)

LEMMA TotalOffLess ==
    ASSUME Inv, NEW c \in Counter, NEW w
    PROVE  /\ Total(c) \in Nat /\ TotalOff(c, w) \in Nat /\ TotalOff(c, w) <= Total(c)
           /\ due[OpOf(c)] <= Total(c)
<1>1. Off(c, w) \in SUBSET PastIt(c) /\ PastIt(c) \in SUBSET Task
  BY DEF Off, PastIt
<1>2. Cardinality(Off(c, w)) <= Cardinality(PastIt(c))
  BY <1>1, FewerTasks
<1> DEFINE d == due[OpOf(c)]
<1>3. d \in Nat /\ Cardinality(PastIt(c)) \in Nat /\ Cardinality(Off(c, w)) \in Nat
  BY Numbers
<1> HIDE DEF d
<1>4. d + Cardinality(Off(c, w)) <= d + Cardinality(PastIt(c)) /\ d <= d + Cardinality(PastIt(c))
  BY <1>2, <1>3
<1> QED
  BY <1>3, <1>4 DEF Total, TotalOff, d

LEMMA CountsNat ==
    ASSUME Inv
    PROVE  /\ \A c \in Counter : count[c] \in Nat
           /\ \A c \in Counter, w \in Conn : open[w][c] \in Nat
BY DEF Inv, TypeOK

(* Nothing is counted. *)
LEMMA KeptStill ==
    ASSUME Inv, NEW c \in Counter, Kept(c), UNCHANGED <<count, open>>,
           Total(c)' \in Nat, Total(c)' <= Total(c),
           \A w : TotalOff(c, w)' \in Nat /\ TotalOff(c, w)' <= TotalOff(c, w)
    PROVE  Kept(c)'
<1>1. count[c] \in Nat /\ (\A w \in Conn : open[w][c] \in Nat) /\ Total(c) \in Nat
      /\ \A w : TotalOff(c, w) \in Nat
  BY CountsNat, TotalOffLess
<1>2. /\ \A w \in Conn : open[w] # Nothing =>
            TotalOff(c, w) <= count[c] /\ Total(c) <= count[c] + open[w][c]
      /\ (\A w \in Conn : open[w] = Nothing) => Total(c) <= count[c]
  BY KeptIs
<1>3. /\ \A w \in Conn : open'[w] # Nothing =>
            TotalOff(c, w)' <= count'[c] /\ Total(c)' <= count'[c] + open'[w][c]
      /\ (\A w \in Conn : open'[w] = Nothing) => Total(c)' <= count'[c]
  <2>1. ASSUME NEW w \in Conn, open'[w] # Nothing
        PROVE  TotalOff(c, w)' <= count'[c] /\ Total(c)' <= count'[c] + open'[w][c]
    BY <1>1, <1>2, <2>1
  <2>2. ASSUME \A w \in Conn : open'[w] = Nothing PROVE Total(c)' <= count'[c]
    BY <1>1, <1>2, <2>2
  <2> QED
    BY <2>1, <2>2
<1>4. (Kept(c) <=>
         /\ \A w \in Conn : open[w] # Nothing =>
               TotalOff(c, w) <= count[c] /\ Total(c) <= count[c] + open[w][c]
         /\ (\A w \in Conn : open[w] = Nothing) => Total(c) <= count[c])'
  BY KeptIs, PTL
<1> QED
  BY <1>3, <1>4

(* A connection commits, and calls return that have written on it.         *)
LEMMA KeptCommit ==
    ASSUME Inv, Lone, NEW c \in Counter, Kept(c), NEW v \in Conn, Committed(v),
           Total(c)' \in Nat, Total(c)' <= Total(c),
           \A w \in Conn \ {v} : TotalOff(c, w)' \in Nat /\ TotalOff(c, w)' <= TotalOff(c, w)
    PROVE  Kept(c)'
<1>1. count[c] \in Nat /\ (\A w \in Conn : open[w][c] \in Nat) /\ Total(c) \in Nat
      /\ \A w : TotalOff(c, w) \in Nat
  BY CountsNat, TotalOffLess
<1>2. /\ \A w \in Conn : open[w] # Nothing =>
            TotalOff(c, w) <= count[c] /\ Total(c) <= count[c] + open[w][c]
      /\ (\A w \in Conn : open[w] = Nothing) => Total(c) <= count[c]
  BY KeptIs
<1>3. /\ count'[c] = count[c] + open[v][c] /\ open'[v] = Nothing
      /\ \A w \in Conn \ {v} : open'[w] = open[w]
  BY DEF Committed, Sum2, Inv, TypeOK
<1>4. open[v] = Nothing => count'[c] = count[c]
  BY <1>1, <1>3 DEF Nothing
<1>5. open[v] # Nothing => \A w \in Conn : open'[w] = Nothing
  BY <1>3 DEF Lone
<1>6. ASSUME NEW w \in Conn, open'[w] # Nothing
      PROVE  TotalOff(c, w)' <= count'[c] /\ Total(c)' <= count'[c] + open'[w][c]
  <2>1. w # v /\ open[v] = Nothing /\ open'[w] = open[w] /\ open[w] # Nothing
    BY <1>3, <1>5, <1>6
  <2>2. TotalOff(c, w) <= count[c] /\ Total(c) <= count[c] + open[w][c]
    BY <1>2, <2>1
  <2> QED
    BY <1>1, <1>4, <2>1, <2>2
<1>7. ASSUME \A w \in Conn : open'[w] = Nothing PROVE Total(c)' <= count'[c]
  <2>1. CASE open[v] # Nothing
    <3>1. Total(c) <= count[c] + open[v][c]
      BY <1>2, <2>1
    <3> QED
      BY <1>1, <1>3, <3>1
  <2>2. CASE open[v] = Nothing
    <3>1. Total(c) <= count[c]
      BY <1>2, <1>3, <1>7, <2>2
    <3> QED
      BY <1>1, <1>4, <2>2, <3>1
  <2> QED
    BY <2>1, <2>2
<1>8. (Kept(c) <=>
         /\ \A w \in Conn : open[w] # Nothing =>
               TotalOff(c, w) <= count[c] /\ Total(c) <= count[c] + open[w][c]
         /\ (\A w \in Conn : open[w] = Nothing) => Total(c) <= count[c])'
  BY KeptIs, PTL
<1> QED
  BY <1>6, <1>7, <1>8

(* Where no transaction is open, n more calls are past c and are counted.  *)
LEMMA KeptCounted ==
    ASSUME Inv, NEW c \in Counter, Kept(c), \A w \in Conn : open[w] = Nothing, open' = open,
           NEW n \in {0, 1}, Total(c)' \in Nat, Total(c)' <= Total(c) + n,
           count'[c] = count[c] + n
    PROVE  Kept(c)'
<1>1. count[c] \in Nat /\ Total(c) \in Nat
  BY CountsNat, TotalOffLess
<1>2. Total(c) <= count[c]
  BY KeptIs
<1>3. Total(c)' <= count'[c]
  BY <1>1, <1>2
<1>4. (Kept(c) <=>
         /\ \A w \in Conn : open[w] # Nothing =>
               TotalOff(c, w) <= count[c] /\ Total(c) <= count[c] + open[w][c]
         /\ (\A w \in Conn : open[w] = Nothing) => Total(c) <= count[c])'
  BY KeptIs, PTL
<1> QED
  BY <1>3, <1>4

(* The connection v writes, n of it to c, and no other had anything open.  *)
LEMMA KeptWritten ==
    ASSUME Inv, NEW c \in Counter, Kept(c), NEW v \in Conn,
           \A w \in Conn \ {v} : open[w] = Nothing /\ open'[w] = Nothing,
           open'[v] # Nothing, count' = count,
           NEW n \in {0, 1}, open'[v][c] = open[v][c] + n,
           Total(c)' \in Nat, Total(c)' <= Total(c) + n,
           TotalOff(c, v)' \in Nat, TotalOff(c, v)' <= TotalOff(c, v)
    PROVE  Kept(c)'
<1>1. /\ count[c] \in Nat /\ open[v][c] \in Nat /\ Total(c) \in Nat /\ TotalOff(c, v) \in Nat
      /\ TotalOff(c, v) <= Total(c)
  BY CountsNat, TotalOffLess
<1>2. TotalOff(c, v) <= count[c] /\ Total(c) <= count[c] + open[v][c]
  <2>1. CASE open[v] # Nothing
    BY <2>1, KeptIs
  <2>2. CASE open[v] = Nothing
    <3>1. Total(c) <= count[c]
      BY <2>2, KeptIs
    <3> QED
      BY <1>1, <3>1
  <2> QED
    BY <2>1, <2>2
<1>3. TotalOff(c, v)' <= count'[c] /\ Total(c)' <= count'[c] + open'[v][c]
  BY <1>1, <1>2
<1>4. (Kept(c) <=>
         /\ \A w \in Conn : open[w] # Nothing =>
               TotalOff(c, w) <= count[c] /\ Total(c) <= count[c] + open[w][c]
         /\ (\A w \in Conn : open[w] = Nothing) => Total(c) <= count[c])'
  BY KeptIs, PTL
<1>5. \A w \in Conn : open'[w] # Nothing => w = v
  OBVIOUS
<1> QED
  BY <1>3, <1>4, <1>5
-----------------------------------------------------------------------------
(***************************************************************************)
(* The actions once more.                                                  *)
(***************************************************************************)

LEMMA TallyIs ==
    ASSUME Tally
    PROVE  /\ Inv /\ Lone /\ \A t \in Task : Lined(task[t])
           /\ \A c \in Counter : Once(c) /\ Kept(c) /\ OpOf(c) \in Op
BY DEF Tally, OpOf, Op

(* The frame g of t fits in; the others are as they were. *)
LEMMA LinedKept ==
    ASSUME Tally, NEW t \in Task, NEW g, Go(t, g), Lined(g), store' = store, ready => ready'
    PROVE  \A u \in Task : Lined(task[u])'
<1> SUFFICES ASSUME NEW u \in Task PROVE Lined(task[u])'
  OBVIOUS
<1>1. PICK f : f = task'[u]
  OBVIOUS
<1>2. Lined(f)
  BY <1>1 DEF Go, Tally, Inv, TypeOK
<1>3. Lined(f)'
  BY <1>2 DEF Lined, Asked, Todos, OpOf
<1> QED
  BY <1>1, <1>3 DEF Lined, Asked

LEMMA IdleLined == Lined(Idle) /\ \A c : ~Ahead(Idle, c) /\ ~Past(Idle, c)
BY NothingAsked DEF Lined, Idle, Ahead, Past, Writing

(* Nothing is counted: the call goes on as it was, or ends. *)
LEMMA StillTally ==
    ASSUME Tally, Inv', NEW t \in Task, NEW g, Go(t, g), Lined(g),
           UNCHANGED <<store, count, open, begun, due>>, ready => ready',
           store = "sqlite" => closed' = closed,
           \A c \in Counter : /\ Ahead(g, c) => Ahead(task[t], c)
                              /\ Past(g, c) => Past(task[t], c) /\ g.conn = task[t].conn
    PROVE  Tally'
<1>1. Lone'
  BY TallyIs DEF Lone
<1>2. ASSUME NEW c \in Counter PROVE Once(c)'
  <2>1. \A w \in Conn : count'[c] + open'[w][c] <= count[c] + open[w][c] + 0
    BY TallyIs, CountsNat
  <2>2. \A w \in Conn : \E v \in Conn : count'[c] + open'[w][c] <= count[c] + open[v][c] + 0
    BY <2>1
  <2> QED
    BY <2>2, TallyIs, OnceKept
<1>3. ASSUME NEW c \in Counter PROVE Kept(c)'
  <2>1. due'[OpOf(c)] = due[OpOf(c)] + 0
    BY TallyIs DEF Inv, TypeOK
  <2>2. /\ Total(c) \in Nat /\ Total(c)' \in Nat /\ Total(c)' <= Total(c) + 0
        /\ \A w : /\ TotalOff(c, w) \in Nat /\ TotalOff(c, w)' \in Nat
                  /\ TotalOff(c, w)' <= TotalOff(c, w) + 0
    BY <2>1, TallyIs, Totals
  <2>3. Total(c)' <= Total(c) /\ \A w : TotalOff(c, w)' <= TotalOff(c, w)
    BY <2>2
  <2> QED
    BY <2>2, <2>3, TallyIs, KeptStill
<1>4. (\A u \in Task : Lined(task[u]))'
  BY LinedKept
<1> QED
  BY <1>1, <1>2, <1>3, <1>4 DEF Tally

LEMMA FailTally ==
    ASSUME Tally, Inv', NEW t \in Task, Fail(t), UNCHANGED <<store, count, open>>,
           ready => ready', store = "sqlite" => closed' = closed
    PROVE  Tally'
BY IdleLined, StillTally DEF Fail

LEMMA ConnectTally ==
    ASSUME Tally, Inv', NEW t \in Task, Connect(t)
    PROVE  Tally'
<1> DEFINE f == task[t]
           g == [f EXCEPT !.at = "schema"]
<1>1. f \in Frame /\ Lined(f) /\ f.at = "connecting"
  BY TallyIs, TaskOK DEF Connect, At
<1>2. g.at = "schema" /\ g.todo = f.todo /\ g.op = f.op /\ g.due = f.due /\ g.conn = f.conn
  BY <1>1 DEF Frame
<1>3. Go(t, g) /\ UNCHANGED <<store, count, open, begun, due, closed>>
  BY DEF Connect, history
<1>6. ready => ready'
  BY Zenon DEF Connect
<1> HIDE DEF g
<1>4. Lined(g)
  BY <1>1, <1>2 DEF Lined
<1>5. \A c \in Counter : (Ahead(g, c) => Ahead(f, c)) /\ ~Past(g, c)
  BY <1>1, <1>2 DEF Ahead, Past, Writing
<1> QED
  BY <1>3, <1>4, <1>5, <1>6, StillTally

LEMMA CloseTally ==
    ASSUME Tally, Inv', NEW t \in Task, Close(t)
    PROVE  Tally'
<1>1. UNCHANGED <<store, ready, count, open, begun, due>> /\ At(t, "idle")
  BY DEF Close, Free, database
<1>2. CASE /\ Go(t, [Idle EXCEPT !.op = "close", !.at = "closing", !.conn = client])
           /\ closed' = closed
  <2> DEFINE g == [Idle EXCEPT !.op = "close", !.at = "closing", !.conn = client]
  <2>1. g.at = "closing" /\ g.todo = <<>> /\ g.due = FALSE
    BY DEF Idle
  <2> HIDE DEF g
  <2>2. Lined(g) /\ \A c : ~Ahead(g, c) /\ ~Past(g, c)
    BY <2>1, NothingAsked DEF Lined, Ahead, Past, Writing
  <2> QED
    BY <1>1, <1>2, <2>2, StillTally DEF g
<1>3. CASE store = "mongodb" /\ UNCHANGED task
  <2>1. Go(t, task[t])
    BY <1>3, TallyIs DEF Go, Inv, TypeOK
  <2>2. Lined(task[t])
    BY TallyIs
  <2> QED
    BY <1>1, <1>3, <2>1, <2>2, StillTally
<1> QED
  BY <1>2, <1>3 DEF Close

LEMMA GiveUpTally ==
    ASSUME Tally, Inv', NEW t \in Task, GiveUp(t)
    PROVE  Tally'
BY IdleLined, StillTally DEF GiveUp, database

LEMMA AbortTally ==
    ASSUME Tally, Inv', NEW t \in Task, Abort(t)
    PROVE  Tally'
BY FailTally DEF Abort, database, process
-----------------------------------------------------------------------------
LEMMA RecordTally ==
    ASSUME Tally, Inv', NEW t \in Task, NEW op \in Op, Record(t, op)
    PROVE  Tally'
<1> DEFINE f == [Idle EXCEPT !.op = op, !.todo = Requests(op), !.due = ready]
           todo == Requests(op)
<1>1. PICK g : /\ Go(t, g) /\ g.at \in {"connecting", "schema", "work"}
               /\ g.todo = todo /\ g.op = op /\ g.due = ready
  <2> DEFINE work(k) == [f EXCEPT !.at = "work", !.conn = k]
             other(p) == [f EXCEPT !.at = p]
             Begun(h) == /\ h.at \in {"connecting", "schema", "work"}
                         /\ h.todo = todo /\ h.op = op /\ h.due = ready
  <2>1. f \in [op : {op}, at : {"idle"}, conn : {0}, todo : {todo}, due : {ready}]
    BY DEF Idle
  <2>2. \/ Go(t, work(client)) \/ Go(t, work(client'))
        \/ Go(t, other("connecting")) \/ Go(t, other("schema"))
    BY DEF Record, Reach
  <2> HIDE DEF f, todo
  <2>3. \A k : Begun(work(k))
    BY <2>1
  <2>4. Begun(other("connecting")) /\ Begun(other("schema"))
    BY <2>1
  <2> HIDE DEF work, other
  <2> QED
    BY <2>2, <2>3, <2>4
<1>2. /\ todo \in Todos /\ \A c \in Counter : Asked(todo, c) <=> OpOf(c) = op
      /\ ready \in BOOLEAN
  BY TallyIs, RequestsAsked DEF Inv, TypeOK
<1> HIDE DEF todo, f
<1>3. Lined(g)
  BY <1>1, <1>2 DEF Lined
<1>4. ASSUME NEW c \in Counter
      PROVE  ~Past(g, c) /\ ~Ahead(task[t], c) /\ (Ahead(g, c) <=> OpOf(c) = op)
  <2>1. ~Past(g, c) /\ (Ahead(g, c) <=> OpOf(c) = op)
    BY <1>1, <1>2 DEF Past, Ahead
  <2>2. ~Ahead(task[t], c)
    BY DEF Record, Free, At, Ahead
  <2> QED
    BY <2>1, <2>2
<1>5. /\ UNCHANGED <<store, ready, count, open, due, closed>>
      /\ begun' = [begun EXCEPT ![op] = @ + 1]
  BY DEF Record, database
<1>6. Lone'
  BY <1>5, TallyIs DEF Lone
<1>7. (\A u \in Task : Lined(task[u]))'
  BY <1>1, <1>3, <1>5, LinedKept
<1>8. ASSUME NEW c \in Counter PROVE Kept(c)'
  <2>1. due'[OpOf(c)] = due[OpOf(c)] + 0
    BY <1>5, TallyIs DEF Inv, TypeOK
  <2>2. /\ Total(c) \in Nat /\ Total(c)' \in Nat /\ Total(c)' <= Total(c) + 0
        /\ \A w : /\ TotalOff(c, w) \in Nat /\ TotalOff(c, w)' \in Nat
                  /\ TotalOff(c, w)' <= TotalOff(c, w) + 0
    BY <1>1, <1>4, <1>5, <2>1, TallyIs, Totals
  <2>3. Total(c)' <= Total(c) /\ \A w : TotalOff(c, w)' <= TotalOff(c, w)
    BY <2>2
  <2> QED
    BY <1>5, <2>2, <2>3, TallyIs, KeptStill
<1>9. ASSUME NEW c \in Counter PROVE Once(c)'
  <2> DEFINE S == AheadOf(c)
             R == {u \in Task : Ahead(task'[u], c)}
             b == begun[OpOf(c)]
             n == begun'[OpOf(c)]
  <2>1. R = AheadOf(c)' /\ S \in SUBSET Task /\ R \in SUBSET Task
    BY DEF AheadOf
  <2>2. task'[t] = g /\ \A u \in Task \ {t} : task'[u] = task[u]
    BY <1>1, TallyIs DEF Go, Inv, TypeOK
  <2>3. S \ {t} = R \ {t} /\ t \notin S /\ (t \in R <=> OpOf(c) = op)
    BY <1>4, <2>2 DEF AheadOf
  <2>4. b \in Nat /\ n = b + (IF OpOf(c) = op THEN 1 ELSE 0)
    BY <1>5, TallyIs DEF Inv, TypeOK
  <2>5. ASSUME NEW w \in Conn PROVE count[c] + open[w][c] + Cardinality(S) <= b
    BY TallyIs DEF Once
  <2> HIDE DEF S, R, b, n
  <2>6. /\ Cardinality(S) \in Nat /\ Cardinality(R) \in Nat
        /\ Cardinality(R) = Cardinality(S) + (IF OpOf(c) = op THEN 1 ELSE 0)
    BY <2>1, <2>3, OneTaskMoves
  <2>7. ASSUME NEW w \in Conn PROVE count'[c] + open'[w][c] + Cardinality(R) <= n
    <3>1. count[c] \in Nat /\ open[w][c] \in Nat /\ count'[c] = count[c] /\ open' = open
      BY <1>5, TallyIs, CountsNat
    <3> QED
      BY <2>4, <2>5, <2>6, <3>1
  <2> QED
    BY <2>1, <2>7 DEF Once, n
<1> QED
  BY <1>6, <1>7, <1>8, <1>9 DEF Tally
-----------------------------------------------------------------------------
(***************************************************************************)
(* A call goes on to its next request, or returns: it is ahead of what is  *)
(* left, and past what is not, while it lasts or in due.                   *)
(***************************************************************************)
GoesOn(t, g) ==
    /\ Go(t, g) /\ Lined(g) /\ begun' = begun
    /\ \A c \in Counter :
          /\ Ahead(g, c) <=> Asked(Tail(task[t].todo), c)
          /\ \E m \in {0, 1} :
                /\ due'[OpOf(c)] = due[OpOf(c)] + m
                /\ Past(g, c) \/ m = 1 =>
                      /\ task[t].due /\ task[t].op = OpOf(c)
                      /\ ~Asked(Tail(task[t].todo), c)
                /\ ~(Past(g, c) /\ m = 1)

LEMMA OnwardGoesOn ==
    ASSUME Tally, NEW t \in Task, At(t, "work"), Onward(t)
    PROVE  \E g : GoesOn(t, g)
<1> DEFINE f == task[t]
           rest == Tail(f.todo)
           g == [f EXCEPT !.todo = rest]
<1>1. f \in Frame /\ Lined(f) /\ f.at = "work" /\ f.todo \in Todos /\ f.op \in Op
  BY TallyIs, WorkOK, TaskOK DEF At, Lined
<1>2. /\ rest # <<>> => rest \in Todos
      /\ \A c : Asked(rest, c) => Asked(f.todo, c)
  BY <1>1, HeadAsked
<1>3. CASE rest # <<>>
  <2>1. Go(t, g) /\ begun' = begun /\ due' = due
    BY <1>3 DEF Onward, history
  <2>2. g.at = "work" /\ g.todo = rest /\ g.op = f.op /\ g.due = f.due
    BY <1>1 DEF Frame
  <2> HIDE DEF g
  <2>3. Lined(g)
    BY <1>1, <1>2, <1>3, <2>2 DEF Lined
  <2>4. ASSUME NEW c \in Counter
        PROVE  /\ Ahead(g, c) <=> Asked(rest, c)
               /\ Past(g, c) => f.due /\ f.op = OpOf(c) /\ ~Asked(rest, c)
               /\ due'[OpOf(c)] = due[OpOf(c)] + 0
    BY <2>1, <2>2, TallyIs, Numbers DEF Ahead, Past
  <2> QED
    BY <2>1, <2>3, <2>4 DEF GoesOn
<1>4. CASE rest = <<>>
  <2>1. Go(t, Idle) /\ begun' = begun
        /\ due' = [due EXCEPT ![f.op] = IF f.due THEN @ + 1 ELSE @]
    BY <1>4 DEF Onward, Return
  <2>2. ASSUME NEW c \in Counter
        PROVE  /\ ~Ahead(Idle, c) /\ ~Asked(rest, c) /\ ~Past(Idle, c)
               /\ \E m \in {0, 1} : /\ due'[OpOf(c)] = due[OpOf(c)] + m
                                    /\ m = 1 => f.due /\ f.op = OpOf(c)
    <3>1. ~Ahead(Idle, c) /\ ~Past(Idle, c) /\ ~Asked(rest, c)
      BY <1>4, IdleLined, NothingAsked
    <3> DEFINE o == OpOf(c)
    <3>2. o \in Op /\ due[o] \in Nat /\ due \in [Op -> Nat]
      BY TallyIs, Numbers DEF Inv, TypeOK
    <3> HIDE DEF o
    <3>3. CASE f.due /\ f.op = o
      <4>1. due'[o] = due[o] + 1
        BY <1>1, <2>1, <3>2, <3>3
      <4> QED
        BY <3>1, <3>3, <4>1 DEF o
    <3>4. CASE ~(f.due /\ f.op = o)
      <4>1. due'[o] = due[o] + 0
        BY <1>1, <2>1, <3>2, <3>4
      <4> QED
        BY <3>1, <4>1 DEF o
    <3> QED
      BY <3>3, <3>4
  <2> QED
    BY <2>1, <2>2, IdleLined DEF GoesOn
<1> QED
  BY <1>3, <1>4

(* A store that commits by itself counts what it is asked, all of it for a *)
(* call that found the tables there.                                       *)
LEMMA CountedTally ==
    ASSUME Tally, Inv', NEW t \in Task, At(t, "work"), Onward(t), store # "sqlite",
           UNCHANGED <<store, ready, process>>,
           NEW C \in SUBSET Head(task[t].todo), task[t].due => C = Head(task[t].todo),
           count' = Plus(count, C)
    PROVE  Tally'
<1> DEFINE f == task[t]
           rest == Tail(f.todo)
<1>1. f \in Frame /\ Lined(f) /\ f.at = "work" /\ f.todo \in Todos
  BY TallyIs, WorkOK, TaskOK DEF At, Lined
<1>2. /\ \A c : Asked(f.todo, c) <=> c \in Head(f.todo) \/ Asked(rest, c)
      /\ \A c : c \in Head(f.todo) => ~Asked(rest, c)
  BY <1>1, HeadAsked
<1>3. PICK g : GoesOn(t, g)
  BY OnwardGoesOn
<1>4. Go(t, g) /\ Lined(g) /\ begun' = begun
  BY <1>3 DEF GoesOn
<1>5. open' = open /\ \A w \in Conn : open[w] = Nothing
  BY TallyIs DEF process, Inv
<1>6. Lone'
  BY <1>5 DEF Lone
<1>7. ASSUME NEW c \in Counter
      PROVE  Once(c)' /\ Kept(c)'
  <2> DEFINE n == IF c \in C THEN 1 ELSE 0
  <2>1. n \in {0, 1} /\ (n = 1 <=> c \in C)
    OBVIOUS
  <2>2. count'[c] = count[c] + n /\ count[c] \in Nat /\ \A w \in Conn : open[w][c] \in Nat
    BY TallyIs, CountsNat DEF Plus
  <2> HIDE DEF n
  <2>3. /\ Ahead(g, c) <=> Asked(rest, c)
        /\ Ahead(f, c) <=> Asked(f.todo, c)
    BY <1>1, <1>3 DEF GoesOn, Ahead
  <2>4. Past(f, c) <=> f.due /\ f.op = OpOf(c) /\ ~Asked(f.todo, c)
    BY <1>1 DEF Past, Writing
  <2>5. Once(c)'
    <3>1. /\ n = 0 => (Ahead(g, c) => Ahead(f, c))
          /\ n = 1 => Ahead(f, c) /\ ~Ahead(g, c)
      BY <1>2, <2>1, <2>3
    <3>2. \A w \in Conn : count'[c] + open'[w][c] <= count[c] + open[w][c] + n
      BY <1>5, <2>1, <2>2
    <3>3. \A w \in Conn : \E v \in Conn : count'[c] + open'[w][c] <= count[c] + open[v][c] + n
      BY <3>2
    <3> QED
      BY <1>4, <2>1, <3>1, <3>3, TallyIs, OnceKept
  <2>6. PICK m \in {0, 1} :
           /\ due'[OpOf(c)] = due[OpOf(c)] + m
           /\ Past(g, c) \/ m = 1 => f.due /\ f.op = OpOf(c) /\ ~Asked(rest, c)
           /\ ~(Past(g, c) /\ m = 1)
    BY <1>3 DEF GoesOn
  <2>7. /\ Total(c) \in Nat /\ Total(c)' \in Nat
        /\ Total(c)' <= Total(c) + 1 + m
        /\ (Past(g, c) => Past(f, c)) => Total(c)' <= Total(c) + m
        /\ Past(f, c) /\ ~Past(g, c) => Total(c)' <= Total(c) + m - 1
    BY <1>4, <2>6, TallyIs, Totals
  <2>8. Total(c)' <= Total(c) + n
    <3>1. CASE n = 1
      BY <2>6, <2>7, <3>1
    <3>2. CASE n = 0
      <4>1. Past(g, c) => Past(f, c)
        BY <1>2, <2>1, <2>4, <2>6, <3>2
      <4>2. m = 1 => Past(f, c) /\ ~Past(g, c)
        BY <1>2, <2>1, <2>4, <2>6, <3>2
      <4> QED
        BY <2>6, <2>7, <3>2, <4>1, <4>2
    <3> QED
      BY <2>1, <3>1, <3>2
  <2>9. Kept(c)'
    BY <1>5, <2>1, <2>2, <2>7, <2>8, TallyIs, KeptCounted
  <2> QED
    BY <2>5, <2>9
<1>8. (\A u \in Task : Lined(task[u]))'
  BY <1>4, LinedKept
<1> QED
  BY <1>6, <1>7, <1>8 DEF Tally

LEMMA PostgresTally ==
    ASSUME Tally, Inv', NEW t \in Task, PostgresUpdate(t)
    PROVE  Tally'
<1>1. At(t, "work") /\ store = "postgres" /\ UNCHANGED <<store, ready, process>>
  BY DEF PostgresUpdate
<1>2. CASE count' = Plus(count, Head(task[t].todo)) /\ Onward(t)
  BY <1>1, <1>2, CountedTally
<1>3. CASE Fail(t) /\ UNCHANGED count
  BY <1>1, <1>3, FailTally DEF process
<1> QED
  BY <1>2, <1>3 DEF PostgresUpdate

LEMMA MongoDBTally ==
    ASSUME Tally, Inv', NEW t \in Task, MongoDBUpdate(t)
    PROVE  Tally'
<1>1. At(t, "work") /\ store = "mongodb" /\ UNCHANGED <<store, ready, process>>
  BY DEF MongoDBUpdate
<1>2. CASE Fail(t) /\ UNCHANGED count
  BY <1>1, <1>2, FailTally DEF process
<1>3. CASE Onward(t) /\ count' = Plus(count, IF ready THEN Head(task[t].todo)
                                                    ELSE Head(task[t].todo) \cap {"row"})
  <2> DEFINE C == IF ready THEN Head(task[t].todo) ELSE Head(task[t].todo) \cap {"row"}
  <2>1. C \in SUBSET Head(task[t].todo)
    OBVIOUS
  <2>2. task[t].due => C = Head(task[t].todo)
    BY TallyIs DEF Lined
  <2>3. count' = Plus(count, C)
    BY <1>3
  <2> HIDE DEF C
  <2> QED
    BY <1>1, <1>3, <2>1, <2>2, <2>3, CountedTally
<1> QED
  BY <1>2, <1>3 DEF MongoDBUpdate

LEMMA RedisTally ==
    ASSUME Tally, Inv', NEW t \in Task, RedisUpdate(t)
    PROVE  Tally'
BY CountedTally DEF RedisUpdate
-----------------------------------------------------------------------------
(* The connection commits what calls have written on it that go on or end. *)
LEMMA CommitTally ==
    ASSUME Tally, Inv', NEW t \in Task, NEW v \in Conn, Committed(v), NEW g, Go(t, g),
           Lined(g), store' = store, store = "sqlite" => closed' = closed,
           ready => ready', begun' = begun,
           \A c \in Counter :
              /\ Ahead(g, c) => Ahead(task[t], c)
              /\ ~Past(g, c)
              /\ \E m \in {0, 1} : /\ due'[OpOf(c)] = due[OpOf(c)] + m
                                   /\ m = 1 => Past(task[t], c) /\ task[t].conn = v
    PROVE  Tally'
<1>1. open'[v] = Nothing /\ \A w \in Conn \ {v} : open'[w] = open[w]
  BY TallyIs DEF Committed, Inv, TypeOK
<1>2. Lone'
  BY <1>1, TallyIs DEF Lone
<1>3. ASSUME NEW c \in Counter PROVE Once(c)'
  <2>1. /\ count'[c] = count[c] + open[v][c] /\ count[c] \in Nat
        /\ \A w \in Conn : open[w][c] \in Nat
    BY TallyIs, CountsNat DEF Committed, Sum2
  <2>2. ASSUME NEW w \in Conn
        PROVE  \E u \in Conn : count'[c] + open'[w][c] <= count[c] + open[u][c] + 0
    <3>1. CASE open'[w] = Nothing
      <4>1. open'[w][c] = 0
        BY <3>1 DEF Nothing
      <4>2. count'[c] + open'[w][c] <= count[c] + open[v][c] + 0
        BY <2>1, <4>1
      <4> QED
        BY <4>2
    <3>2. CASE open'[w] # Nothing
      <4>1. w # v /\ open'[w] = open[w] /\ open[v] = Nothing
        BY <1>1, <3>2, TallyIs DEF Lone
      <4>2. open[v][c] = 0
        BY <4>1 DEF Nothing
      <4>3. count'[c] + open'[w][c] <= count[c] + open[w][c] + 0
        BY <2>1, <4>1, <4>2
      <4> QED
        BY <4>3
    <3> QED
      BY <3>1, <3>2
  <2> QED
    BY <2>2, TallyIs, OnceKept
<1>4. ASSUME NEW c \in Counter PROVE Kept(c)'
  <2>1. PICK m \in {0, 1} : /\ due'[OpOf(c)] = due[OpOf(c)] + m
                            /\ m = 1 => Past(task[t], c) /\ task[t].conn = v
    OBVIOUS
  <2>2. ~Past(g, c)
    OBVIOUS
  <2>3. /\ Total(c) \in Nat /\ Total(c)' \in Nat
        /\ Total(c)' <= Total(c) + m
        /\ Past(task[t], c) => Total(c)' <= Total(c) + m - 1
        /\ \A w : /\ TotalOff(c, w) \in Nat /\ TotalOff(c, w)' \in Nat
                  /\ TotalOff(c, w)' <= TotalOff(c, w) + m
                  /\ Past(task[t], c) /\ w # task[t].conn
                     => TotalOff(c, w)' <= TotalOff(c, w) + m - 1
    BY <2>1, <2>2, TallyIs, Totals
  <2>4. Total(c)' <= Total(c)
    BY <2>1, <2>3
  <2>5. \A w \in Conn \ {v} : TotalOff(c, w)' <= TotalOff(c, w)
    BY <2>1, <2>3
  <2> QED
    BY <2>3, <2>4, <2>5, TallyIs, KeptCommit
<1>5. (\A u \in Task : Lined(task[u]))'
  BY LinedKept
<1> QED
  BY <1>2, <1>3, <1>4, <1>5 DEF Tally

LEMMA SQLiteCommitTally ==
    ASSUME Tally, Inv', NEW t \in Task, SQLiteCommit(t)
    PROVE  Tally'
<1> DEFINE f == task[t]
           v == f.conn
<1>1. /\ f \in Frame /\ Fits(f, opened) /\ Lined(f) /\ f.at = "commit"
      /\ UNCHANGED <<store, ready, client, opened, closed>>
  BY TallyIs, TaskOK DEF SQLiteCommit, At
<1>2. CASE Fail(t) /\ UNCHANGED <<count, open>>
  BY <1>1, <1>2, FailTally
<1>3. CASE v \notin closed /\ Committed(v) /\ Return(t)
  <2>1. v \in Conn /\ f.op \in Op /\ f.todo = <<>>
    BY <1>1 DEF Fits, Frame, Lined
  <2>2. /\ Go(t, Idle) /\ begun' = begun
        /\ due' = [due EXCEPT ![f.op] = IF f.due THEN @ + 1 ELSE @]
    BY <1>3 DEF Return
  <2>3. ASSUME NEW c \in Counter
        PROVE  \E m \in {0, 1} : /\ due'[OpOf(c)] = due[OpOf(c)] + m
                                 /\ m = 1 => Past(f, c)
    <3> DEFINE o == OpOf(c)
    <3>1. o \in Op /\ due[o] \in Nat /\ due \in [Op -> Nat]
      BY TallyIs, Numbers DEF Inv, TypeOK
    <3>2. f.due /\ f.op = o => Past(f, c)
      BY <1>1, <1>3, <2>1, NothingAsked DEF Past, Writing
    <3> HIDE DEF o
    <3>3. CASE f.due /\ f.op = o
      <4>1. due'[o] = due[o] + 1
        BY <2>1, <2>2, <3>1, <3>3
      <4> QED
        BY <3>2, <3>3, <4>1 DEF o
    <3>4. CASE ~(f.due /\ f.op = o)
      <4>1. due'[o] = due[o] + 0
        BY <2>1, <2>2, <3>1, <3>4
      <4> QED
        BY <4>1 DEF o
    <3> QED
      BY <3>3, <3>4
  <2> QED
    BY <1>1, <1>3, <2>1, <2>2, <2>3, IdleLined, CommitTally
<1> QED
  BY <1>2, <1>3 DEF SQLiteCommit

LEMMA SchemaTally ==
    ASSUME Tally, Inv', NEW t \in Task, Schema(t)
    PROVE  Tally'
<1> DEFINE f == task[t]
           g == [f EXCEPT !.at = "work", !.conn = client]
<1>1. /\ f \in Frame /\ Lined(f) /\ f.at = "schema" /\ ready'
      /\ UNCHANGED <<store, client, opened, closed>>
  BY TallyIs, TaskOK DEF Schema, At
<1>2. CASE Fail(t) /\ UNCHANGED <<count, open>>
  BY <1>1, <1>2, FailTally
<1>3. CASE /\ client # 0 /\ Go(t, g)
           /\ IF store = "sqlite" THEN Committed(client) ELSE UNCHANGED <<count, open>>
           /\ UNCHANGED history
  <2>1. g.at = "work" /\ g.todo = f.todo /\ g.op = f.op /\ g.due = f.due
    BY <1>1 DEF Frame
  <2>2. Go(t, g) /\ UNCHANGED <<begun, due>>
    BY <1>3 DEF history
  <2> HIDE DEF g
  <2>3. Lined(g)
    BY <1>1, <2>1 DEF Lined
  <2>4. ASSUME NEW c \in Counter
        PROVE  /\ Ahead(g, c) => Ahead(f, c)
               /\ ~Past(g, c)
               /\ due'[OpOf(c)] = due[OpOf(c)] + 0
    <3>1. Ahead(g, c) => Ahead(f, c)
      BY <1>1, <2>1 DEF Ahead
    <3>2. ~Past(g, c)
      BY <1>1, <2>1 DEF Past, Lined
    <3> QED
      BY <2>2, <3>1, <3>2, TallyIs, Numbers
  <2>5. CASE store = "sqlite"
    <3>1. client \in Conn /\ Committed(client)
      BY <1>3, <2>5, TallyIs, TaskOK
    <3>2. \A c \in Counter :
             /\ Ahead(g, c) => Ahead(f, c)
             /\ ~Past(g, c)
             /\ \E m \in {0, 1} : /\ due'[OpOf(c)] = due[OpOf(c)] + m
                                  /\ m = 1 => Past(f, c) /\ f.conn = client
      BY <2>4
    <3> QED
      BY <1>1, <2>2, <2>3, <3>1, <3>2, CommitTally
  <2>6. CASE store # "sqlite"
    BY <1>1, <1>3, <2>2, <2>3, <2>4, <2>6, StillTally
  <2> QED
    BY <2>5, <2>6
<1> QED
  BY <1>2, <1>3 DEF Schema

LEMMA SQLiteUpdateTally ==
    ASSUME Tally, Inv', NEW t \in Task, SQLiteUpdate(t)
    PROVE  Tally'
<1> DEFINE f == task[t]
           H == Head(f.todo)
           rest == Tail(f.todo)
           g == [f EXCEPT !.todo = rest, !.at = IF rest = <<>> THEN "commit" ELSE "work"]
<1> PICK v : v = f.conn
  OBVIOUS
<1>1. /\ f \in Frame /\ Lined(f) /\ f.at = "work" /\ f.todo \in Todos /\ v \in Conn
      /\ UNCHANGED <<store, ready, count, closed>> /\ store = "sqlite"
  BY TallyIs, WorkOK, TaskOK DEF SQLiteUpdate, At, Lined, database
<1>2. CASE Fail(t) /\ UNCHANGED open
  BY <1>1, <1>2, FailTally
<1>3. CASE /\ v \notin closed /\ ~Locked(t) /\ OnwardToCommit(t)
           /\ open' = [open EXCEPT ![v] = Plus(@, H)]
  <2>1. Go(t, g) /\ UNCHANGED <<begun, due>>
    BY <1>3 DEF OnwardToCommit, history
  <2>2. /\ g.at = (IF rest = <<>> THEN "commit" ELSE "work") /\ g.todo = rest
        /\ g.op = f.op /\ g.due = f.due /\ g.conn = v
    BY <1>1 DEF Frame
  <2> HIDE DEF g
  <2>3. /\ rest # <<>> => rest \in Todos
        /\ H \subseteq Counter /\ H # {}
        /\ \A c : Asked(f.todo, c) <=> c \in H \/ Asked(rest, c)
        /\ \A c : c \in H => ~Asked(rest, c)
    BY <1>1, HeadAsked
  <2>4. Lined(g)
    BY <1>1, <2>2, <2>3 DEF Lined
  <2>5. \A w \in Conn \ {v} : open[w] = Nothing /\ open'[w] = Nothing
    BY <1>3, TallyIs DEF Locked, Inv, TypeOK
  <2>6. /\ open'[v] \in [Counter -> Nat]
        /\ \A c \in Counter : /\ open[v][c] \in Nat
                              /\ open'[v][c] = open[v][c] + (IF c \in H THEN 1 ELSE 0)
    <3>1. open'[v] = Plus(open[v], H) /\ open[v] \in [Counter -> Nat]
      BY <1>1, <1>3, TallyIs DEF Inv, TypeOK
    <3>2. open'[v] \in [Counter -> Nat]
      BY <3>1, PlusCounts
    <3> QED
      BY <3>1, <3>2 DEF Plus
  <2>7. open'[v] # Nothing
    <3>1. PICK c \in Counter : c \in H
      BY <2>3
    <3>2. open'[v][c] # 0
      BY <2>6, <3>1
    <3> QED
      BY <3>2 DEF Nothing
  <2>8. Lone'
    BY <2>5 DEF Lone
  <2>9. ASSUME NEW c \in Counter PROVE Once(c)' /\ Kept(c)'
    <3> DEFINE n == IF c \in H THEN 1 ELSE 0
    <3>1. n \in {0, 1} /\ (n = 1 <=> c \in H) /\ open'[v][c] = open[v][c] + n
      BY <2>6
    <3> HIDE DEF n
    <3>2. /\ Ahead(g, c) <=> Asked(rest, c)
          /\ Ahead(f, c) <=> Asked(f.todo, c)
      BY <1>1, <2>2, NothingAsked DEF Ahead
    <3>3. /\ Past(f, c) <=> f.due /\ f.op = OpOf(c) /\ ~Asked(f.todo, c)
          /\ Past(g, c) <=> f.due /\ f.op = OpOf(c) /\ ~Asked(rest, c)
      BY <1>1, <1>3, <2>2 DEF Past, Writing
    <3>4. Once(c)'
      <4>1. /\ n = 0 => (Ahead(g, c) => Ahead(f, c))
            /\ n = 1 => Ahead(f, c) /\ ~Ahead(g, c)
        BY <2>3, <3>1, <3>2
      <4>2. \A w \in Conn : count'[c] + open'[w][c] <= count[c] + open[w][c] + n
        <5> SUFFICES ASSUME NEW w \in Conn
                     PROVE  count'[c] + open'[w][c] <= count[c] + open[w][c] + n
          OBVIOUS
        <5>1. count[c] \in Nat /\ open[w][c] \in Nat /\ count'[c] = count[c]
          BY <1>1, TallyIs, CountsNat
        <5>2. open'[w][c] = open[w][c] \/ open'[w][c] = open[w][c] + n
          BY <2>5, <3>1
        <5> QED
          BY <3>1, <5>1, <5>2
      <4>3. \A w \in Conn : \E u \in Conn : count'[c] + open'[w][c] <= count[c] + open[u][c] + n
        BY <4>2
      <4> QED
        BY <2>1, <3>1, <4>1, <4>3, TallyIs, OnceKept
    <3>5. due'[OpOf(c)] = due[OpOf(c)] + 0
      BY <2>1, TallyIs, Numbers
    <3>6. /\ Total(c) \in Nat /\ Total(c)' \in Nat
          /\ Total(c)' <= Total(c) + 1 + 0
          /\ (Past(g, c) => Past(f, c)) => Total(c)' <= Total(c) + 0
          /\ TotalOff(c, v) \in Nat /\ TotalOff(c, v)' \in Nat
          /\ (Past(g, c) => Past(f, c) /\ g.conn = f.conn)
             => TotalOff(c, v)' <= TotalOff(c, v) + 0
          /\ Past(g, c) /\ v = g.conn => TotalOff(c, v)' <= TotalOff(c, v) + 0
      BY <1>1, <2>1, <3>5, TallyIs, Totals
    <3>7. Total(c)' <= Total(c) + n
      <4>1. n = 0 => (Past(g, c) => Past(f, c))
        BY <2>3, <3>1, <3>3
      <4> QED
        BY <3>1, <3>6, <4>1
    <3>8. TotalOff(c, v)' <= TotalOff(c, v)
      BY <2>2, <3>6
    <3>9. Kept(c)'
      BY <1>1, <2>5, <2>7, <3>1, <3>6, <3>7, <3>8, TallyIs, KeptWritten
    <3> QED
      BY <3>4, <3>9
  <2>10. (\A u \in Task : Lined(task[u]))'
    BY <1>1, <2>1, <2>4, LinedKept
  <2> QED
    BY <2>8, <2>9, <2>10 DEF Tally
<1> QED
  BY <1>2, <1>3 DEF SQLiteUpdate
-----------------------------------------------------------------------------
(* Whoever is past a counter after the disconnect had not written on the   *)
(* connection that is gone, if that could take anything with it.           *)
LEMMA DisconnectTally ==
    ASSUME Tally, Inv', NEW t \in Task, Disconnect(t)
    PROVE  Tally'
<1> DEFINE f == task[t]
           g == [f EXCEPT !.at = "closed"]
<1> PICK v : v = f.conn
  OBVIOUS
<1>1. /\ f \in Frame /\ Fits(f, opened) /\ Lined(f) /\ f.at = "closing" /\ v \in Conn
  BY TallyIs, TaskOK DEF Disconnect, At, Fits, Frame
<1>2. /\ Go(t, g) /\ UNCHANGED <<store, ready, count, begun, due>>
      /\ open' = [open EXCEPT ![v] = Nothing] /\ closed' = closed \cup {v}
  BY DEF Disconnect, database, history
<1>3. g.at = "closed" /\ g.todo = f.todo /\ g.op = f.op /\ g.due = f.due
  BY <1>1 DEF Frame
<1> HIDE DEF g
<1>4. Lined(g) /\ \A c : ~Ahead(g, c)
  BY <1>1, <1>3 DEF Lined, Ahead
<1>5. open'[v] = Nothing /\ \A w \in Conn \ {v} : open'[w] = open[w]
  BY <1>1, <1>2, TallyIs DEF Inv, TypeOK
<1>6. Lone'
  BY <1>5, TallyIs DEF Lone
<1>7. ASSUME NEW c \in Counter PROVE Once(c)'
  <2>1. ASSUME NEW w \in Conn PROVE count'[c] + open'[w][c] <= count[c] + open[w][c] + 0
    <3>1. count[c] \in Nat /\ open[w][c] \in Nat /\ count'[c] = count[c]
      BY <1>2, TallyIs, CountsNat
    <3>2. open'[w][c] = 0 \/ open'[w][c] = open[w][c]
      BY <1>5 DEF Nothing
    <3> QED
      BY <3>1, <3>2
  <2>2. \A w \in Conn : \E u \in Conn : count'[c] + open'[w][c] <= count[c] + open[u][c] + 0
    BY <2>1
  <2> QED
    BY <1>2, <1>4, <2>2, TallyIs, OnceKept
<1>8. ASSUME NEW c \in Counter
      PROVE  /\ PastIt(c)' \in SUBSET PastIt(c)
             /\ store = "sqlite" => PastIt(c)' \in SUBSET Off(c, v)
  <2> DEFINE R == {u \in Task : /\ task'[u].at \in Writing /\ task'[u].due
                                /\ task'[u].op = OpOf(c) /\ ~Asked(task'[u].todo, c)
                                /\ store = "sqlite" => task'[u].conn \notin closed'}
  <2>1. R = PastIt(c)'
    BY <1>2 DEF PastIt, Past
  <2>2. task'[t] = g /\ \A u \in Task \ {t} : task'[u] = task[u]
    BY <1>2, TallyIs DEF Go, Inv, TypeOK
  <2>3. ASSUME NEW u \in R
        PROVE  u \in PastIt(c) /\ (store = "sqlite" => u \in Off(c, v))
    <3>1. u # t /\ task'[u] = task[u]
      BY <1>3, <2>2 DEF Writing
    <3> QED
      BY <1>2, <3>1 DEF PastIt, Past, Off
  <2> HIDE DEF R
  <2> QED
    BY <2>1, <2>3
<1>9. ASSUME NEW c \in Counter
      PROVE  /\ Total(c)' \in Nat /\ Total(c)' <= Total(c)
             /\ store = "sqlite" => Total(c)' <= TotalOff(c, v)
             /\ \A w : TotalOff(c, w)' \in Nat /\ TotalOff(c, w)' <= TotalOff(c, w)
  <2> DEFINE d == due[OpOf(c)]
             P == Cardinality(PastIt(c))
  <2>1. d \in Nat /\ PastIt(c) \in SUBSET Task /\ \A w : Off(c, w) \in SUBSET Task
    BY TallyIs, Numbers DEF PastIt, Off
  <2>2. Total(c)' = d + Cardinality(PastIt(c)') /\ \A w : TotalOff(c, w)' = d + Cardinality(Off(c, w)')
    BY <1>2 DEF Total, TotalOff
  <2>3. Total(c) = d + P /\ \A w : TotalOff(c, w) = d + Cardinality(Off(c, w))
    BY DEF Total, TotalOff
  <2> HIDE DEF d, P
  <2>4. /\ P \in Nat /\ Cardinality(PastIt(c)') \in Nat /\ Cardinality(PastIt(c)') <= P
    BY <1>8, <2>1, FewerTasks DEF P
  <2>5. store = "sqlite" => /\ Cardinality(PastIt(c)') <= Cardinality(Off(c, v))
                            /\ Cardinality(Off(c, v)) \in Nat
    BY <1>8, <2>1, FewerTasks
  <2>6. ASSUME NEW w
        PROVE  /\ Cardinality(Off(c, w)) \in Nat /\ Cardinality(Off(c, w)') \in Nat
               /\ Cardinality(Off(c, w)') <= Cardinality(Off(c, w))
    <3> DEFINE R == {u \in PastIt(c)' : task'[u].conn # w}
    <3>1. R = Off(c, w)'
      BY DEF Off
    <3>2. R \in SUBSET Off(c, w)
      <4> SUFFICES ASSUME NEW u \in R PROVE u \in Off(c, w)
        OBVIOUS
      <4>1. u \in PastIt(c) /\ u \in Task /\ task'[u].conn # w /\ u \in PastIt(c)'
        BY <1>8 DEF PastIt
      <4>2. task'[u].at \in Writing
        BY <4>1 DEF PastIt, Past
      <4>3. u # t
        BY <1>2, <1>3, <4>2, TallyIs DEF Go, Inv, TypeOK, Writing
      <4>4. task'[u] = task[u]
        BY <1>2, <4>1, <4>3, TallyIs DEF Go, Inv, TypeOK
      <4> QED
        BY <4>1, <4>4 DEF Off
    <3> HIDE DEF R
    <3> QED
      BY <2>1, <3>1, <3>2, FewerTasks
  <2>7. Total(c)' \in Nat /\ Total(c)' <= Total(c)
    BY <2>1, <2>2, <2>3, <2>4
  <2>8. store = "sqlite" => Total(c)' <= TotalOff(c, v)
    BY <2>1, <2>2, <2>3, <2>4, <2>5
  <2>9. \A w : TotalOff(c, w)' \in Nat /\ TotalOff(c, w)' <= TotalOff(c, w)
    BY <2>1, <2>2, <2>3, <2>6
  <2> QED
    BY <2>7, <2>8, <2>9
<1>10. ASSUME NEW c \in Counter PROVE Kept(c)'
  <2>1. CASE open[v] = Nothing
    <3>1. open' = open
      BY <1>2, <2>1, TallyIs DEF Inv, TypeOK
    <3> QED
      BY <1>2, <1>9, <3>1, TallyIs, KeptStill
  <2>2. CASE open[v] # Nothing
    <3>1. store = "sqlite"
      BY <1>1, <2>2, TallyIs DEF Inv
    <3>2. \A w \in Conn : open'[w] = Nothing
      BY <1>1, <1>5, <2>2, TallyIs DEF Lone
    <3>3. TotalOff(c, v) <= count[c]
      <4>1. Kept(c) /\ v \in Conn
        BY <1>1, TallyIs
      <4>2. \A w \in Conn : open[w] # Nothing => TotalOff(c, w) <= count[c]
        BY <4>1, KeptIs
      <4> QED
        BY <2>2, <4>1, <4>2
    <3>4. Total(c)' <= count'[c]
      BY <1>2, <1>9, <3>1, <3>3, TallyIs, CountsNat, TotalOffLess
    <3>5. (Kept(c) <=>
             /\ \A w \in Conn : open[w] # Nothing =>
                   TotalOff(c, w) <= count[c] /\ Total(c) <= count[c] + open[w][c]
             /\ (\A w \in Conn : open[w] = Nothing) => Total(c) <= count[c])'
      BY KeptIs, PTL
    <3> QED
      BY <3>2, <3>4, <3>5
  <2> QED
    BY <2>1, <2>2
<1>11. (\A u \in Task : Lined(task[u]))'
  BY <1>2, <1>4, LinedKept
<1> QED
  BY <1>6, <1>7, <1>10, <1>11 DEF Tally

(* What has returned is in the database, whatever is open.                 *)
LEMMA DueIsCounted ==
    ASSUME Inv, NEW c \in Counter, Kept(c)
    PROVE  due[OpOf(c)] <= count[c]
<1>1. /\ due[OpOf(c)] \in Nat /\ count[c] \in Nat
      /\ \A w : /\ Cardinality(Off(c, w)) \in Nat
                /\ Total(c) \in Nat /\ due[OpOf(c)] <= Total(c)
  BY Numbers, TotalOffLess
<1>2. CASE \A w \in Conn : open[w] = Nothing
  BY <1>1, <1>2, KeptIs
<1>3. ASSUME NEW w \in Conn, open[w] # Nothing PROVE due[OpOf(c)] <= count[c]
  <2>1. TotalOff(c, w) <= count[c]
    BY <1>3, KeptIs
  <2> QED
    BY <1>1, <2>1 DEF TotalOff
<1> QED
  BY <1>2, <1>3

(* No task is under way, and no transaction is open. *)
LEMMA RestedTally ==
    ASSUME Inv, task = [t \in Task |-> Idle], open = [w \in Conn |-> Nothing],
           \A c \in Counter : due[OpOf(c)] <= count[c] /\ count[c] <= begun[OpOf(c)]
    PROVE  Tally
<1>1. Lone /\ \A t \in Task : Lined(task[t])
  BY IdleLined DEF Lone
<1>2. ASSUME NEW c \in Counter PROVE Once(c) /\ Kept(c)
  <2>1. AheadOf(c) = {} /\ PastIt(c) = {} /\ \A w : Off(c, w) = {}
    BY IdleLined DEF AheadOf, PastIt, Off
  <2>2. Cardinality({}) = 0 /\ count[c] \in Nat /\ begun[OpOf(c)] \in Nat /\ due[OpOf(c)] \in Nat
    BY Numbers, FS_EmptySet
  <2>3. \A w \in Conn : open[w] = Nothing /\ open[w][c] = 0
    BY DEF Nothing
  <2>4. Once(c)
    BY <2>1, <2>2, <2>3 DEF Once
  <2>5. Kept(c)
    BY <2>1, <2>2, <2>3 DEF Kept
  <2> QED
    BY <2>4, <2>5
<1> QED
  BY <1>1, <1>2 DEF Tally

LEMMA TallyCounts == Tally => CountsWhatReturned
<1> SUFFICES ASSUME Tally, NEW c \in Counter
             PROVE  due[OpOf(c)] <= count[c] /\ count[c] <= begun[OpOf(c)]
  BY DEF CountsWhatReturned
<1>1. 1 \in Conn
  BY BoundAssumption DEF Conn
<1>2. count[c] + open[1][c] + Cardinality(AheadOf(c)) <= begun[OpOf(c)]
  BY <1>1, TallyIs DEF Once
<1>3. /\ count[c] \in Nat /\ begun[OpOf(c)] \in Nat /\ open[1][c] \in Nat
      /\ Cardinality(AheadOf(c)) \in Nat
  BY <1>1, TallyIs, Numbers
<1>4. count[c] <= begun[OpOf(c)]
  BY <1>2, <1>3
<1> QED
  BY <1>4, TallyIs, DueIsCounted

LEMMA RestartTally == Tally /\ Inv' /\ Restart => Tally'
<1> SUFFICES ASSUME Tally, Inv', Restart PROVE Tally'
  OBVIOUS
<1>1. /\ (task = [t \in Task |-> Idle] /\ open = [w \in Conn |-> Nothing])'
      /\ UNCHANGED <<count, begun, due>>
  BY DEF Restart, database
<1>2. (\A c \in Counter : due[OpOf(c)] <= count[c] /\ count[c] <= begun[OpOf(c)])'
  BY <1>1, TallyCounts DEF CountsWhatReturned, OpOf
<1> QED
  BY <1>1, <1>2, RestedTally, PTL

LEMMA InitTally == Init => Tally
<1> SUFFICES ASSUME Init PROVE Tally
  OBVIOUS
<1>1. \A c \in Counter : due[OpOf(c)] = 0 /\ count[c] = 0 /\ begun[OpOf(c)] = 0
  BY DEF Init, Nothing, OpOf, Op
<1> QED
  BY <1>1, InitInv, RestedTally DEF Init

LEMMA NextTally == Tally /\ Inv' /\ [Next]_vars => Tally'
<1> SUFFICES ASSUME Tally, Inv', [Next]_vars PROVE Tally'
  OBVIOUS
<1>1. ASSUME NEW t \in Task, Step(t) PROVE Tally'
  BY <1>1, RecordTally, ConnectTally, SchemaTally, SQLiteUpdateTally, SQLiteCommitTally,
     PostgresTally, MongoDBTally, RedisTally, CloseTally, DisconnectTally, GiveUpTally,
     AbortTally DEF Step
<1>2. CASE UNCHANGED vars
  <2>1. UNCHANGED <<store, ready, count, closed, open, task, begun, due>>
    BY <1>2 DEF vars, database, process, history
  <2>2. Lone'
    BY <2>1, TallyIs DEF Lone
  <2>3. (\A t \in Task : Lined(task[t]))'
    BY <2>1, TallyIs DEF Lined, Asked
  <2>4. ASSUME NEW c \in Counter PROVE Once(c)' /\ Kept(c)'
    <3>1. /\ AheadOf(c)' = AheadOf(c) /\ PastIt(c)' = PastIt(c)
          /\ \A w : Off(c, w)' = Off(c, w)
      BY <2>1 DEF AheadOf, PastIt, Off, Ahead, Past, Asked
    <3>2. Once(c) /\ Kept(c)
      BY TallyIs
    <3>3. Once(c)'
      BY <2>1, <3>1, <3>2 DEF Once
    <3>4. Kept(c)'
      BY <2>1, <3>1, <3>2 DEF Kept
    <3> QED
      BY <3>3, <3>4
  <2> QED
    BY <2>2, <2>3, <2>4 DEF Tally
<1> QED
  BY <1>1, <1>2, RestartTally DEF Next

(* A call that returns, and had found the tables there, has its count in   *)
(* the database whatever is cut off, closed or restarted since, and none   *)
(* counts twice: on each of the four stores, for any number of tasks and   *)
(* calls that share its connections (sqlite.py 46-59, postgres.py 51-66,   *)
(* mongodb.py 46-59, redis.py 41-50).                                      *)
THEOREM CountsReturned == Spec => []CountsWhatReturned
<1>1. Tally => Inv
  BY DEF Tally
<1>2. Tally /\ [Next]_vars => Tally'
  BY <1>1, NextInv, NextTally
<1>3. Spec => []Tally
  BY InitTally, <1>2, PTL DEF Spec
<1> QED
  BY <1>3, TallyCounts, PTL
=============================================================================
