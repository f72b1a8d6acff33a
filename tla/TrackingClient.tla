--------------------------- MODULE TrackingClient ---------------------------
(***************************************************************************)
(* How the tracking stores (src/tiercache/tracking) reach their database:  *)
(* a client made at the first call and shared by all tasks, the tables or  *)
(* documents it makes sure of, and the requests of record_hit and          *)
(* record_miss on the global counters and on the hit count of a row that   *)
(* exists.  Tracking has what the calls do to a row; this module has the   *)
(* order in which the requests of several tasks arrive.                    *)
(*                                                                         *)
(* begun and due are history: the calls of each kind that have begun, and  *)
(* those that have returned and had found the tables there when they       *)
(* began.  cutOn has the connections on which a call was cut off after it  *)
(* had begun to write, anew whether the client was given up, or a call cut *)
(* off while it made one, since the process began.                         *)
(***************************************************************************)
EXTENDS Naturals, Sequences, FiniteSets

CONSTANTS Task,
          MaxCalls,     \* calls of record_hit and record_miss (bound for TLC)
          MaxConn       \* connections of a process (bound for TLC)

ASSUME TaskAssumption == IsFiniteSet(Task)
ASSUME BoundAssumption == MaxCalls \in Nat /\ MaxConn \in Nat \ {0}

VARIABLES store, ready, count, client, opened, closed, open, task,
          begun, due, cutOn, anew

database == <<store, ready, count>>
process == <<client, opened, closed, open>>
history == <<begun, due, cutOn, anew>>
vars == <<database, process, task, history>>

Op == {"hit", "miss"}
Counter == {"row", "hits", "misses"}
Conn == 1 .. MaxConn

(* Mutant: the counter is named as the call is. *)
RequestsMisnamed(op) ==
    IF op = "miss" THEN <<{"miss"}>> ELSE <<{"row"}, {"hits"}>>

(* What the requests of a call count, one after the other. *)
Requests(op) ==
    IF op = "miss" THEN <<{"misses"}>>
    ELSE CASE store \in {"sqlite", "postgres"} -> <<{"row"}, {"hits"}>>
           [] store = "mongodb"                -> <<{"hits"}, {"row"}>>
           [] store = "redis"                  -> <<{"row", "hits"}>>

(* No client is 0, and the first connection of a process is 1. *)
Frame == [op : Op \cup {"none", "close"},
          at : {"idle", "connecting", "schema", "work", "commit", "closing", "closed"},
          conn : Conn \cup {0}, todo : Seq(SUBSET Counter), due : BOOLEAN]

Idle == [op |-> "none", at |-> "idle", conn |-> 0, todo |-> <<>>, due |-> FALSE]

Nothing == [c \in Counter |-> 0]
Plus(n, C) == [c \in Counter |-> IF c \in C THEN n[c] + 1 ELSE n[c]]
Sum2(m, n) == [c \in Counter |-> m[c] + n[c]]

Init ==
    /\ store \in {"sqlite", "redis", "postgres", "mongodb"}
    /\ ready = (store = "redis")
    /\ count = Nothing
    /\ client = 0 /\ opened = 0 /\ closed = {}
    /\ open = [c \in Conn |-> Nothing]
    /\ task = [t \in Task |-> Idle]
    /\ begun = [op \in Op |-> 0] /\ due = [op \in Op |-> 0]
    /\ cutOn = {} /\ anew = FALSE

At(t, point) == task[t].at = point
Free(t) == At(t, "idle")
Go(t, frame) == task' = [task EXCEPT ![t] = frame]
-----------------------------------------------------------------------------
(***************************************************************************)
(* _conn, _get_pool, _get_db                                               *)
(***************************************************************************)
NewClient == opened + 1 \in Conn /\ opened' = opened + 1 /\ client' = opened + 1

(* Mutant: whether there is a client is not asked. *)
ReachAnyway(t, frame) ==
    \/ /\ store \in {"sqlite", "postgres"}
       /\ Go(t, [frame EXCEPT !.at = "connecting"])
       /\ UNCHANGED <<client, opened>>
    \/ /\ store \in {"redis", "mongodb"} /\ NewClient
       /\ Go(t, [frame EXCEPT !.at = "schema"])

(* sqlite and postgres await their connection and only then keep it; the   *)
(* other two keep a client that connects later.                            *)
Reach(t, frame) ==
    \/ /\ client # 0
       /\ Go(t, [frame EXCEPT !.at = "work", !.conn = client])
       /\ UNCHANGED <<client, opened>>
    \/ /\ client = 0 /\ store \in {"sqlite", "postgres"}
       /\ Go(t, [frame EXCEPT !.at = "connecting"])
       /\ UNCHANGED <<client, opened>>
    \/ /\ client = 0 /\ store = "redis" /\ NewClient
       /\ Go(t, [frame EXCEPT !.at = "work", !.conn = client'])
    \/ /\ client = 0 /\ store = "mongodb" /\ NewClient
       /\ Go(t, [frame EXCEPT !.at = "schema"])

(* A connection of sqlite does what it is given in order, and is given the *)
(* schema first: the tables are there for whoever finds it.                *)
Connect(t) ==
    /\ At(t, "connecting")
    /\ NewClient
    /\ ready' = (ready \/ store = "sqlite")
    /\ Go(t, [task[t] EXCEPT !.at = "schema"])
    /\ UNCHANGED <<store, count, closed, open, history>>

(* A call ends with an error, or is cut off. *)
Fail(t) ==
    /\ Go(t, Idle)
    /\ cutOn' = cutOn \cup {c \in {task[t].conn} \cap Conn : open[c] # Nothing}
    /\ anew' = (anew \/ At(t, "connecting"))
    /\ UNCHANGED <<begun, due>>

Committed(c) ==
    /\ count' = Sum2(count, open[c])
    /\ open' = [open EXCEPT ![c] = Nothing]

(* The tables are made, and the call goes on with the client there is now: *)
(* that of another task, or none when it has been closed meanwhile.        *)
Schema(t) ==
    /\ At(t, "schema")
    /\ ready' = TRUE
    /\ \/ /\ client = 0
          /\ Fail(t)
          /\ UNCHANGED <<count, open>>
       \/ /\ client # 0 /\ (store = "sqlite" /\ client \in closed)
          /\ Fail(t)
          /\ UNCHANGED <<count, open>>
       \/ /\ client # 0 /\ ~(store = "sqlite" /\ client \in closed)
          /\ Go(t, [task[t] EXCEPT !.at = "work", !.conn = client])
          /\ IF store = "sqlite" THEN Committed(client) ELSE UNCHANGED <<count, open>>
          /\ UNCHANGED history
    /\ UNCHANGED <<store, client, opened, closed>>
-----------------------------------------------------------------------------
(***************************************************************************)
(* record_hit and record_miss                                              *)
(***************************************************************************)
Record(t, op) ==
    /\ Free(t)
    /\ begun["hit"] + begun["miss"] < MaxCalls
    /\ begun' = [begun EXCEPT ![op] = @ + 1]
    /\ Reach(t, [Idle EXCEPT !.op = op, !.todo = Requests(op), !.due = ready])
    /\ UNCHANGED <<database, closed, open, due, cutOn, anew>>

Return(t) ==
    /\ Go(t, Idle)
    /\ due' = [due EXCEPT ![task[t].op] = IF task[t].due THEN @ + 1 ELSE @]
    /\ UNCHANGED <<begun, cutOn, anew>>

(* The next request, or the end of the call. *)
Onward(t) ==
    LET rest == Tail(task[t].todo)
    IN  IF rest # <<>> THEN Go(t, [task[t] EXCEPT !.todo = rest]) /\ UNCHANGED history
        ELSE Return(t)

OnwardToCommit(t) ==
    LET rest == Tail(task[t].todo)
    IN  /\ Go(t, [task[t] EXCEPT !.todo = rest, !.at = IF rest = <<>> THEN "commit" ELSE "work"])
        /\ UNCHANGED history

(* Another connection has written and not committed: it has the lock. *)
Locked(t) == \E c \in Conn \ {task[t].conn} : open[c] # Nothing

(* The update becomes part of the transaction of the connection, whoever   *)
(* else writes on it.  Without the lock the connection waits, and in the   *)
(* end gives up.                                                           *)
SQLiteUpdate(t) ==
    /\ At(t, "work") /\ store = "sqlite"
    /\ IF task[t].conn \in closed \/ Locked(t)
       THEN Fail(t) /\ UNCHANGED open
       ELSE /\ open' = [open EXCEPT ![task[t].conn] = Plus(@, Head(task[t].todo))]
            /\ OnwardToCommit(t)
    /\ UNCHANGED <<database, client, opened, closed>>

(* Mutant: record_miss does not commit. *)
SQLiteCommitHits(t) ==
    /\ At(t, "commit")
    /\ \/ task[t].op = "hit" /\ Committed(task[t].conn)
       \/ task[t].op = "miss" /\ UNCHANGED <<count, open>>
    /\ Return(t)
    /\ UNCHANGED <<store, ready, client, opened, closed>>

(* Mutant: the client there is now commits, not the one that has written. *)
SQLiteCommitClient(t) ==
    /\ At(t, "commit")
    /\ client # 0
    /\ Committed(client)
    /\ Return(t)
    /\ UNCHANGED <<store, ready, client, opened, closed>>

SQLiteCommit(t) ==
    /\ At(t, "commit")
    /\ IF task[t].conn \in closed
       THEN Fail(t) /\ UNCHANGED <<count, open>>
       ELSE Committed(task[t].conn) /\ Return(t)
    /\ UNCHANGED <<store, ready, client, opened, closed>>

(* Each statement commits by itself; without the tables it fails.  A pool  *)
(* that is closed lends no connection, but waits for those it has lent.    *)
PostgresUpdate(t) ==
    /\ At(t, "work") /\ store = "postgres"
    /\ \/ /\ ready
          /\ count' = Plus(count, Head(task[t].todo))
          /\ Onward(t)
       \/ /\ ~ready \/ task[t].conn \in closed
          /\ task[t].todo = Requests(task[t].op)
          /\ Fail(t)
          /\ UNCHANGED count
    /\ UNCHANGED <<store, ready, process>>

(* Without its document an $inc of the counters changes nothing, and does  *)
(* not fail either.                                                        *)
MongoDBUpdate(t) ==
    /\ At(t, "work") /\ store = "mongodb"
    /\ IF task[t].conn \in closed
       THEN Fail(t) /\ UNCHANGED count
       ELSE /\ count' = Plus(count, IF ready THEN Head(task[t].todo)
                                             ELSE Head(task[t].todo) \cap {"row"})
            /\ Onward(t)
    /\ UNCHANGED <<store, ready, process>>

(* One pipeline; a client that was closed connects again. *)
RedisUpdate(t) ==
    /\ At(t, "work") /\ store = "redis"
    /\ count' = Plus(count, Head(task[t].todo))
    /\ Onward(t)
    /\ UNCHANGED <<store, ready, process>>
-----------------------------------------------------------------------------
(***************************************************************************)
(* close, and the ways a call or all of them are cut off.                  *)
(***************************************************************************)
Close(t) ==
    /\ Free(t) /\ client # 0
    /\ \/ /\ store # "mongodb"
          /\ Go(t, [Idle EXCEPT !.op = "close", !.at = "closing", !.conn = client])
          /\ UNCHANGED <<client, closed, anew>>
       \/ /\ store = "mongodb"
          /\ closed' = closed \cup {client} /\ client' = 0 /\ anew' = TRUE
          /\ UNCHANGED task
    /\ UNCHANGED <<database, opened, open, begun, due, cutOn>>

(* What was not committed is rolled back. *)
Disconnect(t) ==
    /\ At(t, "closing")
    /\ closed' = closed \cup {task[t].conn}
    /\ open' = [open EXCEPT ![task[t].conn] = Nothing]
    /\ Go(t, [task[t] EXCEPT !.at = "closed"])
    /\ UNCHANGED <<database, client, opened, history>>

(* Whatever the client is by now, it is given up. *)
GiveUp(t) ==
    /\ At(t, "closed")
    /\ client' = 0
    /\ anew' = TRUE
    /\ Go(t, Idle)
    /\ UNCHANGED <<database, opened, closed, open, begun, due, cutOn>>

Abort(t) ==
    /\ ~Free(t)
    /\ Fail(t)
    /\ UNCHANGED <<database, process>>

Restart ==
    /\ client' = 0 /\ opened' = 0 /\ closed' = {}
    /\ open' = [c \in Conn |-> Nothing]
    /\ task' = [t \in Task |-> Idle]
    /\ cutOn' = {} /\ anew' = FALSE
    /\ UNCHANGED <<database, begun, due>>

Step(t) ==
    \/ \E op \in Op : Record(t, op)
    \/ Connect(t) \/ Schema(t)
    \/ SQLiteUpdate(t) \/ SQLiteCommit(t) \/ PostgresUpdate(t) \/ MongoDBUpdate(t)
    \/ RedisUpdate(t)
    \/ Close(t) \/ Disconnect(t) \/ GiveUp(t)
    \/ Abort(t)

Next == (\E t \in Task : Step(t)) \/ Restart

Spec == Init /\ [][Next]_vars
-----------------------------------------------------------------------------
(* Every variable holds what the code could put there. *)
TypeOK ==
    /\ store \in {"sqlite", "redis", "postgres", "mongodb"}
    /\ ready \in BOOLEAN
    /\ count \in [Counter -> Nat]
    /\ client \in Conn \cup {0} /\ opened \in Conn \cup {0}
    /\ closed \subseteq 1 .. opened
    /\ open \in [Conn -> [Counter -> Nat]]
    /\ task \in [Task -> Frame]
    /\ begun \in [Op -> Nat] /\ due \in [Op -> Nat]
    /\ cutOn \subseteq Conn /\ anew \in BOOLEAN

OpOf(c) == IF c = "misses" THEN "miss" ELSE "hit"

(***************************************************************************)
(* What has been recorded is counted, once: a call that returns, and had   *)
(* found the tables there, has its count in the database whatever is cut   *)
(* off, closed or restarted since, and no call counts twice (sqlite.py     *)
(* 46-59, postgres.py 51-66, mongodb.py 46-59, redis.py 41-50).            *)
(***************************************************************************)
CountsWhatReturned ==
    \A c \in Counter : due[OpOf(c)] <= count[c] /\ count[c] <= begun[OpOf(c)]

(***************************************************************************)
(* An open transaction, which keeps every other connection from writing,   *)
(* has a task that will commit it; the only ones left behind are those of  *)
(* calls that were cut off (sqlite.py 38-59).                              *)
(***************************************************************************)
TransactionsAreClosed ==
    \A c \in Conn : open[c] # Nothing =>
        c \in cutOn \/ \E t \in Task : task[t].conn = c /\ task[t].at \in {"work", "commit"}

(***************************************************************************)
(* Only calls that overlap at the start open more than one connection, and *)
(* so leave one behind: redis and mongodb open one, the others at most one *)
(* for each task - until a close or a call cut off makes them begin anew   *)
(* (sqlite.py 37-44, postgres.py 28-31, redis.py 34-39, mongodb.py 34-38). *)
(***************************************************************************)
ConnectionsBounded ==
    ~anew => opened <= IF store \in {"redis", "mongodb"} THEN 1 ELSE Cardinality(Task)
=============================================================================
