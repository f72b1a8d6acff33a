------------------------------ MODULE KeyValue ------------------------------
(***************************************************************************)
(* What the cache promises to the one task that uses it: a map.  A set or  *)
(* a flush changes it when it begins; a delete, and a purge which deletes  *)
(* keys one after the other, when it turns to each key; a get or a         *)
(* clean-up does not change it at all, nor does anything between the calls *)
(* or while one goes on, whatever moves between the tiers meanwhile.       *)
(*                                                                         *)
(* call is the operation that is going on, with its key, the value of a    *)
(* set and the keys a purge has still to delete.                           *)
(***************************************************************************)
EXTENDS Sequences

CONSTANTS Key, Val, NoVal, NoKey

VARIABLES map, call

Call(op, k, v, todo) == [op |-> op, key |-> k, val |-> v, todo |-> todo]
NoCall == Call("none", NoKey, NoVal, <<>>)

Init ==
    /\ map = [k \in Key |-> NoVal]
    /\ call = NoCall

Begin(op, k, v) ==
    /\ call = NoCall
    /\ call' = Call(op, k, v, <<>>)

Get(k) == Begin("get", k, NoVal) /\ UNCHANGED map

Cleanup == Begin("cleanup", NoKey, NoVal) /\ UNCHANGED map

Set(k, v) == Begin("set", k, v) /\ map' = [map EXCEPT ![k] = v]

Flush == Begin("flush", NoKey, NoVal) /\ map' = [k \in Key |-> NoVal]

(* A delete of one key, or a purge that begins with it. *)
Delete(k) ==
    /\ call = NoCall
    /\ call'.todo \in Seq(Key)
    /\ call' = Call("delete", k, NoVal, call'.todo)
    /\ map' = [map EXCEPT ![k] = NoVal]

DeleteNext ==
    /\ call.op = "delete" /\ call.todo # <<>>
    /\ call' = Call("delete", Head(call.todo), NoVal, Tail(call.todo))
    /\ map' = [map EXCEPT ![Head(call.todo)] = NoVal]

Return ==
    /\ call # NoCall /\ call.todo = <<>>
    /\ call' = NoCall
    /\ UNCHANGED map

Next ==
    \/ \E k \in Key : Get(k) \/ Delete(k) \/ \E v \in Val \cup {NoVal} : Set(k, v)
    \/ Cleanup \/ Flush
    \/ DeleteNext
    \/ Return

Spec == Init /\ [][Next]_<<map, call>>
=============================================================================
