-------------------------- MODULE MemcachedBackend --------------------------
(***************************************************************************)
(* MemcachedBackend (src/tiercache/backends/memcached.py): values longer   *)
(* than a chunk are stored as chunks and a count of them, each an item of  *)
(* its own on the server, read and written one request after the other.    *)
(* A chunk is known here by the value it is a piece of.                    *)
(*                                                                         *)
(* History: last is the value last set for a key, NoVal after a delete;    *)
(* hurt are the keys of which a set was cut off when it had written some   *)
(* of the chunks, until the count is next written or removed.              *)
(***************************************************************************)
EXTENDS Naturals, Sequences

CONSTANTS Task, Key, Val,
          Length,       \* Length[v] is the length of the packed v
          ChunkSize,    \* _CHUNK_SIZE
          NoVal, NoKey,
          Mixed,        \* what chunks of different values join to
          MayVanish,    \* the server evicts and expires items
          MayAbort      \* calls are cancelled or fail

ASSUME ChunkAssumption ==
    /\ Length \in [Val -> Nat \ {0}] /\ ChunkSize \in Nat \ {0}
    /\ NoVal \notin Val /\ Mixed \notin Val \cup {NoVal} /\ NoKey \notin Key
    /\ MayVanish \in BOOLEAN /\ MayAbort \in BOOLEAN

VARIABLES single, chunk, count, task, last, hurt

server == <<single, chunk, count>>
history == <<last, hurt>>
vars == <<single, chunk, count, task, last, hurt>>

Large(v) == Length[v] > ChunkSize
Pieces(v) == (Length[v] + ChunkSize - 1) \div ChunkSize
Places == UNION {0 .. Pieces(v) - 1 : v \in Val}

Points == {"idle", "getCount", "getChunk", "getSingle", "answered", "setSingle",
           "setChunk", "setCount", "askCount", "delChunk", "delCount", "delSingle"}

(* n: the count read; i: the place of the next chunk; got: those joined. *)
Frame == [at : Points, key : Key \cup {NoKey}, val : Val \cup {NoVal, Mixed},
          n : Nat, i : Nat, got : Seq(Val)]

Idle == [at |-> "idle", key |-> NoKey, val |-> NoVal, n |-> 0, i |-> 0, got |-> <<>>]

Free(t) == task[t] = Idle
At(t, point) == task[t].at = point
Go(t, frame) == task' = [task EXCEPT ![t] = frame]
On(point, k, v) == [Idle EXCEPT !.at = point, !.key = k, !.val = v]

(* 0 is no count: the count of a stored value is at least 1. *)
Init ==
    /\ single = [k \in Key |-> NoVal]
    /\ chunk = [k \in Key |-> [i \in Places |-> NoVal]]
    /\ count = [k \in Key |-> 0]
    /\ task = [t \in Task |-> Idle]
    /\ last = [k \in Key |-> NoVal]
    /\ hurt = {}

(* A request that changes nothing on the server. *)
Step(t, point, frame) == At(t, point) /\ Go(t, frame) /\ UNCHANGED <<server, history>>

(* The requests that write the single item, a chunk, and the count. *)
PutSingle(t, point, v) ==
    /\ At(t, point) /\ Go(t, Idle)
    /\ single' = [single EXCEPT ![task[t].key] = v]
    /\ UNCHANGED <<chunk, count, history>>

PutChunk(t, point, v, frame) ==
    /\ At(t, point) /\ Go(t, frame)
    /\ chunk' = [chunk EXCEPT ![task[t].key][task[t].i] = v]
    /\ UNCHANGED <<single, count, history>>

PutCount(t, point, n) ==
    /\ At(t, point) /\ Go(t, Idle)
    /\ count' = [count EXCEPT ![task[t].key] = n]
    /\ hurt' = hurt \ {task[t].key}
    /\ UNCHANGED <<single, chunk, last>>

(* The next chunk, or else what comes after n of them. *)
NextOf(frame, n, then) ==
    IF frame.i + 1 = n THEN [frame EXCEPT !.at = then] ELSE [frame EXCEPT !.i = @ + 1]
-----------------------------------------------------------------------------
(* get *)
Get(t, k) == Step(t, "idle", On("getCount", k, NoVal))

GetCount(t) ==
    LET n == count[task[t].key]
    IN  Step(t, "getCount",
             [task[t] EXCEPT !.at = IF n = 0 THEN "getSingle" ELSE "getChunk", !.n = n])

Joined(s) ==
    IF \E v \in Val : Len(s) = Pieces(v) /\ \A i \in DOMAIN s : s[i] = v
    THEN s[1] ELSE Mixed

Answer(t, v) == On("answered", task[t].key, v)

(* Mutant: a chunk that is not there is joined like any other. *)
GetChunkUnchecked(t) ==
    LET f == task[t]
        got == Append(f.got, chunk[f.key][f.i])
    IN  Step(t, "getChunk", IF f.i + 1 = f.n THEN Answer(t, Joined(got))
                            ELSE [f EXCEPT !.i = @ + 1, !.got = got])

GetChunk(t) ==
    LET f == task[t]
        piece == chunk[f.key][f.i]
        got == Append(f.got, piece)
    IN  Step(t, "getChunk", IF piece = NoVal THEN Answer(t, NoVal)
                            ELSE IF f.i + 1 = f.n THEN Answer(t, Joined(got))
                            ELSE [f EXCEPT !.i = @ + 1, !.got = got])

GetSingle(t) == Step(t, "getSingle", Answer(t, single[task[t].key]))

Return(t) == Step(t, "answered", Idle)
-----------------------------------------------------------------------------
(* set: neither way of storing a value removes what the other has stored. *)
Set(t, k, v) ==
    /\ Free(t)
    /\ Go(t, On(IF Large(v) THEN "setChunk" ELSE "setSingle", k, v))
    /\ last' = [last EXCEPT ![k] = v]
    /\ UNCHANGED <<server, hurt>>

SetSingle(t) == PutSingle(t, "setSingle", task[t].val)

(* Mutant: the last chunk is not written. *)
SetChunkShort(t) ==
    LET f == task[t]
    IN  IF f.val \in Val /\ f.i + 1 = Pieces(f.val)
        THEN Step(t, "setChunk", [f EXCEPT !.at = "setCount"])
        ELSE PutChunk(t, "setChunk", f.val, [f EXCEPT !.i = @ + 1])

SetChunk(t) ==
    LET f == task[t]
    IN  PutChunk(t, "setChunk", f.val, NextOf(f, Pieces(f.val), "setCount"))

SetCount(t) == PutCount(t, "setCount", Pieces(task[t].val))
-----------------------------------------------------------------------------
(* delete: the chunks and the count, or else the single item. *)
Delete(t, k) ==
    /\ Free(t)
    /\ Go(t, On("askCount", k, NoVal))
    /\ last' = [last EXCEPT ![k] = NoVal]
    /\ UNCHANGED <<server, hurt>>

AskCount(t) ==
    LET n == count[task[t].key]
    IN  Step(t, "askCount",
             [task[t] EXCEPT !.at = IF n = 0 THEN "delSingle" ELSE "delChunk", !.n = n])

DelChunk(t) == PutChunk(t, "delChunk", NoVal, NextOf(task[t], task[t].n, "delCount"))

DelCount(t) == PutCount(t, "delCount", 0)

DelSingle(t) == PutSingle(t, "delSingle", NoVal)
-----------------------------------------------------------------------------
Flush(t) ==
    /\ Free(t)
    /\ single' = [k \in Key |-> NoVal]
    /\ chunk' = [k \in Key |-> [i \in Places |-> NoVal]]
    /\ count' = [k \in Key |-> 0]
    /\ last' = [k \in Key |-> NoVal]
    /\ hurt' = {}
    /\ UNCHANGED task

(* The server drops an item: it is short of memory, or the ttl is over. *)
Vanish(k) ==
    /\ MayVanish
    /\ \/ single' = [single EXCEPT ![k] = NoVal] /\ UNCHANGED <<chunk, count>>
       \/ count' = [count EXCEPT ![k] = 0] /\ UNCHANGED <<single, chunk>>
       \/ \E i \in Places : chunk' = [chunk EXCEPT ![k][i] = NoVal]
                               /\ UNCHANGED <<single, count>>
    /\ UNCHANGED <<task, history>>

(* A set that has written some of its chunks, and not the count. *)
Halfway(f) == f.at = "setCount" \/ (f.at = "setChunk" /\ f.i > 0)

(* The call is cancelled, its request fails, or the process ends. *)
Abort(t) ==
    /\ MayAbort /\ ~Free(t) /\ Go(t, Idle)
    /\ hurt' = hurt \cup (IF Halfway(task[t]) THEN {task[t].key} ELSE {})
    /\ UNCHANGED <<server, last>>

Call(t) ==
    \/ \E k \in Key : Get(t, k) \/ Delete(t, k) \/ \E v \in Val : Set(t, k, v)
    \/ Flush(t)

Proceed(t) ==
    \/ GetCount(t) \/ GetChunk(t) \/ GetSingle(t) \/ Return(t)
    \/ SetSingle(t) \/ SetChunk(t) \/ SetCount(t)
    \/ AskCount(t) \/ DelChunk(t) \/ DelCount(t) \/ DelSingle(t)

Next == (\E t \in Task : Call(t) \/ Proceed(t) \/ Abort(t)) \/ \E k \in Key : Vanish(k)

Spec == Init /\ [][Next]_vars
-----------------------------------------------------------------------------
(* Every variable holds what the code could put there. *)
TypeOK ==
    /\ single \in [Key -> Val \cup {NoVal}]
    /\ chunk \in [Key -> [Places -> Val \cup {NoVal}]]
    /\ count \in [Key -> Nat]
    /\ task \in [Task -> Frame]
    /\ last \in [Key -> Val \cup {NoVal}]
    /\ hurt \subseteq Key

Answering(t, k) == At(t, "answered") /\ task[t].key = k

(***************************************************************************)
(* A get answers with the value last set, or finds nothing: chunks left by *)
(* a longer value, and chunks lost one by one, are never taken for it      *)
(* (memcached.py 48-68; backends/base.py 13: "Return value for key").      *)
(***************************************************************************)
AnswersLastSet ==
    \A t \in Task, k \in Key : Answering(t, k) => task[t].val \in {last[k], NoVal}

(***************************************************************************)
(* What is read in chunks is one value (class doc, memcached.py 16-17:     *)
(* "reassembled on get"), and never pieces of several, also after calls    *)
(* that were cut off, but for a set of that key.                           *)
(***************************************************************************)
NeverMixed ==
    \A t \in Task : At(t, "answered") /\ task[t].key \notin hurt => task[t].val # Mixed
=============================================================================
