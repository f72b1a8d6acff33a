----------------------------- MODULE RamBackend -----------------------------
(***************************************************************************)
(* One RamBackend with an on_evict callback, driven by any sequence of     *)
(* calls and by the clock.  handed is what the last call gave away for     *)
(* demotion: to on_evict, or to the caller of pop_expired.                 *)
(*                                                                         *)
(* recent and idle are history, for the properties to compare with what    *)
(* the tier keeps: <<j, k>> \in recent when k was used after the last use  *)
(* of j, and idle[k] is the time since the last use of k.  Only uses       *)
(* change recent: it is not told what is removed.                          *)
(***************************************************************************)
EXTENDS RamStore, Sequences

CONSTANTS Steps,      \* by how much the clock may move on at once
          MaxIdle     \* bound on idle, above every ttl

ASSUME StepsAssumption == Steps \subseteq Nat \ {0}
ASSUME MaxIdleAssumption ==
    MaxIdle \in Nat /\ \A ttl \in TTL \cup {DefaultTTL} : ttl < MaxIdle

VARIABLES ram, handed, recent, idle

vars == <<ram, handed, recent, idle>>

Used(k) ==
    /\ recent' = Among(recent, Key \ {k}) \cup ((Key \ {k}) \X {k})
    /\ idle' = [idle EXCEPT ![k] = 0]

Init ==
    /\ ram = Empty
    /\ handed = <<>>
    /\ recent = {}
    /\ idle = [k \in Key |-> 0]

GetHit(k) ==
    /\ k \in LiveKeys(ram)
    /\ ram' = Touched(ram, k)
    /\ handed' = <<>>
    /\ Used(k)

(* Mutant: an expired entry is dropped without on_evict. *)
GetExpiredSilently(k) ==
    /\ k \in ExpiredKeys(ram)
    /\ ram' = Without(ram, {k})
    /\ handed' = <<>>
    /\ UNCHANGED <<recent, idle>>

GetExpired(k) ==
    /\ k \in ExpiredKeys(ram)
    /\ ram' = Without(ram, {k})
    /\ handed' = <<<<k, ram.item[k].val>>>>
    /\ UNCHANGED <<recent, idle>>

GetAbsent(k) ==
    /\ k \notin Resident(ram)
    /\ handed' = <<>>
    /\ UNCHANGED <<ram, recent, idle>>

Get(k) == GetHit(k) \/ GetExpired(k) \/ GetAbsent(k)

Set(k, v, ttl) ==
    /\ \E D \in Victims(ram, k, v) : \E s \in Listings(ram, D) :
          /\ ram' = Stored(ram, k, v, ttl, D)
          /\ handed' = WithValues(ram, s)
    /\ Used(k)

Delete(k) ==
    /\ ram' = IF k \in Resident(ram) THEN Without(ram, {k}) ELSE ram
    /\ handed' = <<>>
    /\ UNCHANGED <<recent, idle>>

Flush ==
    /\ ram' = Empty
    /\ handed' = <<>>
    /\ UNCHANGED <<recent, idle>>

PopExpired ==
    \E s \in Listings(ram, ExpiredKeys(ram)) :
        /\ ram' = Without(ram, ExpiredKeys(ram))
        /\ handed' = WithValues(ram, s)
        /\ UNCHANGED <<recent, idle>>

Tick(d) ==
    /\ ram' = Aged(ram, d)
    /\ handed' = <<>>
    /\ idle' = [k \in Key |->
                   IF idle[k] + d > MaxIdle THEN MaxIdle ELSE idle[k] + d]
    /\ UNCHANGED recent

Next ==
    \/ \E k \in Key : Get(k) \/ Delete(k)
    \/ \E k \in Key, v \in Val, ttl \in TTL \cup {NoTTL} : Set(k, v, ttl)
    \/ Flush
    \/ PopExpired
    \/ \E d \in Steps : Tick(d)

Spec == Init /\ [][Next]_vars
-----------------------------------------------------------------------------
Given == {handed[i] : i \in DOMAIN handed}

(* Every variable holds what the code could put there. *)
TypeOK ==
    /\ ram \in Tier
    /\ handed \in Seq(Key \X Val)
    /\ recent \in SUBSET (Key \X Key)
    /\ idle \in [Key -> 0 .. MaxIdle]

Overwrite(k) == \E v \in Val, ttl \in TTL \cup {NoTTL} : Set(k, v, ttl)

(***************************************************************************)
(* _current_size may fall behind the bytes really held (an overwritten     *)
(* entry that its own set evicts is deducted twice) but never exceeds      *)
(* them: no entry is ever evicted for bytes that are not there.            *)
(***************************************************************************)
SizeNeverOverstated == ram.size <= Bytes(ram, Resident(ram))

(***************************************************************************)
(* The counted size is above max_size_bytes only when one entry alone is   *)
(* (ram.py 69: the loop ends on an empty store and the value is stored).   *)
(***************************************************************************)
OverCapacityOnlyAlone ==
    ram.size > MaxSize => \A j, k \in Resident(ram) : j = k

(***************************************************************************)
(* The count is wrong by what sets have deducted twice and by nothing      *)
(* else: only a set whose own eviction takes the entry it overwrites adds  *)
(* to the error, and then just the size of that entry; no other operation  *)
(* changes it, but for a flush, which starts the count anew (ram.py 66-75, *)
(* 85-88, 103-104, 119-122).                                               *)
(***************************************************************************)
Miscount == Bytes(ram, Resident(ram)) - ram.size

DeductedTwice(k) ==
    k \in Resident(ram) /\ Overwrite(k) /\ <<k, ram.item[k].val>> \in Given'

MiscountGrows ==
    Miscount' # Miscount =>
        \/ Flush /\ Miscount' = 0
        \/ \E k \in Key : DeductedTwice(k) /\ Miscount' = Miscount + Size[ram.item[k].val]

MiscountIsOfOverwrites == [][MiscountGrows]_vars

(***************************************************************************)
(* No value leaves the tier silently: unless its key is deleted or         *)
(* overwritten or the tier flushed, it is handed on for demotion with its  *)
(* key, also by the get that finds it expired (ram.py 18-19, 50, 70-72,    *)
(* 105).                                                                   *)
(***************************************************************************)
Lost(k) ==
    k \in Resident(ram) /\ (k \notin Resident(ram)' \/ ram'.item[k].val # ram.item[k].val)

LossHanded ==
    \A k \in Key : Lost(k) =>
        \/ <<k, ram.item[k].val>> \in Given'
        \/ Flush \/ Overwrite(k)
        \/ Delete(k) /\ ~Get(k)

LossIsHanded == [][LossHanded]_vars

(***************************************************************************)
(* set evicts the least recently used: a key handed on was last used       *)
(* before every other key that stays, by the order of the uses themselves  *)
(* (ram.py 54, 70, 74: get and set move to the end, victims come from the  *)
(* front).                                                                 *)
(***************************************************************************)
OldestEvicted ==
    \A k \in Key : Overwrite(k) =>
        \A p \in Given', j \in Resident(ram)' \ {k} : <<p[1], j>> \in recent

EvictsLeastRecentlyUsed == [][OldestEvicted]_vars

(***************************************************************************)
(* The ttl is a sliding window: get and pop_expired give up an entry only  *)
(* when it was not used for longer than its ttl, and never one without a   *)
(* ttl; and a hit never serves an entry that was not (ram.py 49, 52, 62,   *)
(* 129).                                                                   *)
(***************************************************************************)
Overdue(k) == ram.item[k].ttl # 0 /\ idle[k] > ram.item[k].ttl

ExpiredIffOverdue ==
    \A k \in Resident(ram) :
        /\ GetExpired(k) => Overdue(k)
        /\ PopExpired => (k \in Resident(ram)' <=> ~Overdue(k))
        /\ GetHit(k) => ~Overdue(k)

SlidingWindow == [][ExpiredIffOverdue]_vars
=============================================================================
