---------------------------- MODULE CacheManager ----------------------------
(***************************************************************************)
(* CacheManager (src/tiercache/manager.py) over two RAM tiers, a dry tier  *)
(* and a tracking store, called from the tasks of one event loop.          *)
(*                                                                         *)
(* The RAM tiers never suspend a coroutine, so everything a call does up   *)
(* to its first dry or tracking operation is one step, and so is all it    *)
(* does when resumed.  Dry and tracking operations are I/O: the operation  *)
(* a task waits for takes effect in a step of its own, at any later time,  *)
(* and the resumed coroutine does more to the RAM tiers later still.       *)
(*                                                                         *)
(* A frame is the state of a task: where its coroutine stands (at), the    *)
(* key and value it works on, the evicted pairs it has still to demote     *)
(* (todo) and where it goes from there (then), and the keys purge has      *)
(* still to delete (batch).                                                *)
(***************************************************************************)
EXTENDS RamStore, Tracking, Sequences

CONSTANTS Task,
          NoVal,        \* no value: MISS in dry, None in a frame
          NoKey,
          DryMiss,      \* what dry answers without the key: MISS, or None
          ColdMiss,     \* ... and cold: MISS, or None if it is memcached
          ColdInit,     \* what the cold tier may hold to begin with
          Rules,        \* ttl_rules
          Unnamed,      \* ... of a tier a rule does not name
          Requests,     \* the ttl_hours and the tags set is called with
          Patterns,     \* the sets of keys a pattern given to purge matches
          FlushTiers,   \* the tiers flush is called with
          Steps,        \* by how much the clock may move on at once
          MaxHits       \* no get of a key hit this often (bound for TLC)

INSTANCE TTLResolver

VARIABLES hot, cold, dry, rows, task

vars == <<hot, cold, dry, rows, task>>

(* Waiting for I/O to take effect. *)
Waiting == {"dryWrite", "dryTrack", "dryRead", "hitTrack", "missTrack",
            "setTrack", "dryDelete", "delTrack", "dryFlush"}

(* Resumed, with more to do to the RAM tiers. *)
Resumed == {"coldGet", "promote", "coldSweep", "ramDelete"}

Points == {"idle"} \cup Waiting \cup Resumed

Frame == [at : Points, key : Key \cup {NoKey}, val : Val \cup {NoVal},
          tier : {"hot", "cold", "dry"}, reset : BOOLEAN,
          todo : Seq(Key \X Val), then : Points, batch : Seq(Key)]

Idle == [at |-> "idle", key |-> NoKey, val |-> NoVal, tier |-> "hot",
         reset |-> FALSE, todo |-> <<>>, then |-> "idle", batch |-> <<>>]

ASSUME ValAssumption == NoVal \notin Val /\ NoKey \notin Key
ASSUME ColdAssumption ==
    Empty \in ColdInit /\ \A tier \in ColdInit : tier \in Tier /\ Ordered(tier)
ASSUME MissAssumption ==
    /\ {DryMiss, ColdMiss} \subseteq Val \cup {NoVal}
    /\ ColdMiss # NoVal => ColdInit = {Empty}
ASSUME CallAssumption ==
    /\ \A r \in Requests :
          Resolve(Seconds(r.ttl_hours), r.tags) \in TTL \cup {NoTTL}
    /\ Patterns \subseteq SUBSET Key
    /\ FlushTiers \subseteq {"hot", "cold", "dry", "all"}
    /\ Steps \subseteq Nat \ {0}
    /\ MaxHits \in Nat

ASSUME RulesAssumption ==
    /\ NoTTL \notin Nat /\ Unnamed \notin Nat \cup {NoTTL}
    /\ Len(Rules) \in Nat /\ DOMAIN Rules = 1 .. Len(Rules)
    /\ \A i \in DOMAIN Rules : Rules[i].hot \in Nat \cup {NoTTL, Unnamed}
    /\ \A r \in Requests : r.ttl_hours \in Nat \cup {NoTTL}

(* The ttl of each request, and what set may be given. *)
TTLOf == [r \in Requests |-> Resolve(Seconds(r.ttl_hours), r.tags)]
Given == {TTLOf[r] : r \in Requests}

Free(t) == task[t] = Idle
Go(t, frame) == task' = [task EXCEPT ![t] = frame]
For(k) == [Idle EXCEPT !.key = k]
On(point, k) == [For(k) EXCEPT !.at = point]

(* on_evict is awaited for each pair of s, and then the frame goes on. *)
Demote(frame, s, then) ==
    IF s = <<>> THEN [frame EXCEPT !.at = then]
    ELSE [frame EXCEPT !.at = "dryWrite", !.todo = s, !.then = then]

Init ==
    /\ hot = Empty
    /\ cold \in ColdInit
    /\ dry = [k \in Key |-> NoVal]
    /\ rows = [k \in Key |-> NoRow]
    /\ task = [t \in Task |-> Idle]
-----------------------------------------------------------------------------
(***************************************************************************)
(* Demotion: _on_hot_evict and _on_cold_evict.                             *)
(***************************************************************************)
(* Mutant: the callback forgets the dry tier. *)
DryWriteNothing(t) ==
    /\ task[t].at = "dryWrite"
    /\ Go(t, [task[t] EXCEPT !.at = "dryTrack"])
    /\ UNCHANGED <<hot, cold, dry, rows>>

DryWrite(t) ==
    /\ task[t].at = "dryWrite"
    /\ dry' = [dry EXCEPT ![Head(task[t].todo)[1]] = Head(task[t].todo)[2]]
    /\ Go(t, [task[t] EXCEPT !.at = "dryTrack"])
    /\ UNCHANGED <<hot, cold, rows>>

(* Mutant: the pair that was demoted is demoted again. *)
AfterDemotionAgain(frame) == [frame EXCEPT !.at = "dryWrite"]

AfterDemotion(frame) ==
    IF Tail(frame.todo) # <<>>
    THEN [frame EXCEPT !.at = "dryWrite", !.todo = Tail(@)]
    ELSE IF frame.then = "idle" THEN Idle
    ELSE [frame EXCEPT !.at = frame.then, !.todo = <<>>, !.then = "idle"]

(* Mutant: the callback forgets the tracking. *)
DryTrackNothing(t) ==
    /\ task[t].at = "dryTrack"
    /\ Go(t, AfterDemotion(task[t]))
    /\ UNCHANGED <<hot, cold, dry, rows>>

DryTrack(t) ==
    /\ task[t].at = "dryTrack"
    /\ rows' = [rows EXCEPT ![Head(task[t].todo)[1]] = RecordSet(@, "dry", FALSE)]
    /\ Go(t, AfterDemotion(task[t]))
    /\ UNCHANGED <<hot, cold, dry>>

Demotion(t) == DryWrite(t) \/ DryTrack(t)
-----------------------------------------------------------------------------
(***************************************************************************)
(* get.  A hit in cold or dry is written to hot.  So is the None that some *)
(* backends answer when they lack the key: it is not MISS.                 *)
(***************************************************************************)
Hit(k, tier, v) == [On("hitTrack", k) EXCEPT !.tier = tier, !.val = v]

(* Mutant: a miss in cold is the answer, dry is not asked. *)
LookInColdOnly(t, k) ==
    \/ /\ k \in LiveKeys(cold)
       /\ cold' = Touched(cold, k)
       /\ Go(t, Hit(k, "cold", cold.item[k].val))
    \/ /\ k \notin LiveKeys(cold)
       /\ Go(t, On("missTrack", k))
       /\ UNCHANGED cold

LookInCold(t, k) ==
    \/ /\ k \in LiveKeys(cold)
       /\ cold' = Touched(cold, k)
       /\ Go(t, Hit(k, "cold", cold.item[k].val))
    \/ /\ k \in ExpiredKeys(cold)
       /\ cold' = Without(cold, {k})
       /\ Go(t, Demote(For(k), <<<<k, cold.item[k].val>>>>, "dryRead"))
    \/ /\ k \notin Resident(cold)
       /\ Go(t, IF ColdMiss = NoVal THEN On("dryRead", k)
                                    ELSE Hit(k, "cold", ColdMiss))
       /\ UNCHANGED cold

(* Mutant: an expired entry is dropped from hot and not demoted. *)
GetDropping(t, k) ==
    /\ Free(t)
    /\ rows[k] # NoRow => rows[k].hits < MaxHits
    /\ \/ /\ k \in LiveKeys(hot)
          /\ hot' = Touched(hot, k)
          /\ Go(t, Hit(k, "hot", hot.item[k].val))
          /\ UNCHANGED cold
       \/ /\ k \notin LiveKeys(hot)
          /\ hot' = Without(hot, {k})
          /\ LookInCold(t, k)
    /\ UNCHANGED <<dry, rows>>

Get(t, k) ==
    /\ Free(t)
    /\ rows[k] # NoRow => rows[k].hits < MaxHits
    /\ \/ /\ k \in LiveKeys(hot)
          /\ hot' = Touched(hot, k)
          /\ Go(t, Hit(k, "hot", hot.item[k].val))
          /\ UNCHANGED cold
       \/ /\ k \in ExpiredKeys(hot)
          /\ hot' = Without(hot, {k})
          /\ Go(t, Demote(For(k), <<<<k, hot.item[k].val>>>>, "coldGet"))
          /\ UNCHANGED cold
       \/ /\ k \notin Resident(hot)
          /\ LookInCold(t, k)
          /\ UNCHANGED hot
    /\ UNCHANGED <<dry, rows>>

ColdGet(t) ==
    /\ task[t].at = "coldGet"
    /\ LookInCold(t, task[t].key)
    /\ UNCHANGED <<hot, dry, rows>>

DryRead(t) ==
    /\ task[t].at = "dryRead"
    /\ LET k == task[t].key
           answer == IF dry[k] # NoVal THEN dry[k] ELSE DryMiss
       IN  Go(t, IF answer # NoVal THEN Hit(k, "dry", answer) ELSE On("missTrack", k))
    /\ UNCHANGED <<hot, cold, dry, rows>>

HitTrack(t) ==
    /\ task[t].at = "hitTrack"
    /\ rows' = [rows EXCEPT ![task[t].key] = RecordHit(@)]
    /\ Go(t, IF task[t].tier = "hot" THEN Idle
             ELSE [task[t] EXCEPT !.at = "promote"])
    /\ UNCHANGED <<hot, cold, dry>>

MissTrack(t) ==
    /\ task[t].at = "missTrack"
    /\ Go(t, Idle)
    /\ UNCHANGED <<hot, cold, dry, rows>>

(* hot.set, its evictions, and then record_set *)
WriteHot(t, k, v, ttl, reset) ==
    \E D \in Victims(hot, k, v) : \E s \in Listings(hot, D) :
        /\ hot' = Stored(hot, k, v, ttl, D)
        /\ Go(t, Demote([For(k) EXCEPT !.val = v, !.reset = reset],
                        WithValues(hot, s), "setTrack"))

Promote(t) ==
    /\ task[t].at = "promote"
    /\ WriteHot(t, task[t].key, task[t].val, NoTTL, FALSE)
    /\ UNCHANGED <<cold, dry, rows>>

SetTrack(t) ==
    /\ task[t].at = "setTrack"
    /\ rows' = [rows EXCEPT ![task[t].key] = RecordSet(@, "hot", task[t].reset)]
    /\ Go(t, Idle)
    /\ UNCHANGED <<hot, cold, dry>>

Lookup(t) ==
    ColdGet(t) \/ DryRead(t) \/ HitTrack(t) \/ MissTrack(t) \/ Promote(t)
-----------------------------------------------------------------------------
(***************************************************************************)
(* set, with the ttl the resolver gives for the call.                      *)
(***************************************************************************)
Set(t, k, v, ttl) ==
    /\ Free(t)
    /\ WriteHot(t, k, v, ttl, TRUE)
    /\ UNCHANGED <<cold, dry, rows>>
-----------------------------------------------------------------------------
(***************************************************************************)
(* delete, and purge which deletes one key after the other.                *)
(***************************************************************************)
DeleteFromRam(t, k, batch) ==
    /\ hot' = Without(hot, {k})
    /\ cold' = Without(cold, {k})
    /\ Go(t, [On("dryDelete", k) EXCEPT !.batch = batch])
    /\ UNCHANGED <<dry, rows>>

Delete(t, k) == Free(t) /\ DeleteFromRam(t, k, <<>>)

Purge(t, pattern) ==
    /\ Free(t)
    /\ \E s \in Listings(hot, LiveKeys(hot) \cap pattern) :
          IF s = <<>> THEN UNCHANGED vars ELSE DeleteFromRam(t, Head(s), Tail(s))

RamDelete(t) ==
    /\ task[t].at = "ramDelete"
    /\ DeleteFromRam(t, Head(task[t].batch), Tail(task[t].batch))

(* Mutant: the dry tier keeps the key. *)
DryDeleteNothing(t) ==
    /\ task[t].at = "dryDelete"
    /\ Go(t, [task[t] EXCEPT !.at = "delTrack"])
    /\ UNCHANGED <<hot, cold, dry, rows>>

DryDelete(t) ==
    /\ task[t].at = "dryDelete"
    /\ dry' = [dry EXCEPT ![task[t].key] = NoVal]
    /\ Go(t, [task[t] EXCEPT !.at = "delTrack"])
    /\ UNCHANGED <<hot, cold, rows>>

DelTrack(t) ==
    /\ task[t].at = "delTrack"
    /\ rows' = [rows EXCEPT ![task[t].key] = RecordDelete(@)]
    /\ Go(t, IF task[t].batch = <<>> THEN Idle
             ELSE [task[t] EXCEPT !.at = "ramDelete"])
    /\ UNCHANGED <<hot, cold, dry>>

Removal(t) == RamDelete(t) \/ DryDelete(t) \/ DelTrack(t)
-----------------------------------------------------------------------------
(***************************************************************************)
(* flush: tracking is not told.                                            *)
(***************************************************************************)
Flush(t, tier) ==
    /\ Free(t)
    /\ hot' = IF tier \in {"hot", "all"} THEN Empty ELSE hot
    /\ cold' = IF tier \in {"cold", "all"} THEN Empty ELSE cold
    /\ Go(t, IF tier \in {"dry", "all"} THEN [Idle EXCEPT !.at = "dryFlush"]
                                        ELSE Idle)
    /\ UNCHANGED <<dry, rows>>

DryFlush(t) ==
    /\ task[t].at = "dryFlush"
    /\ dry' = [k \in Key |-> NoVal]
    /\ Go(t, Idle)
    /\ UNCHANGED <<hot, cold, rows>>
-----------------------------------------------------------------------------
(***************************************************************************)
(* cleanup_expired: hot, and when all of hot is demoted, cold.             *)
(***************************************************************************)
SweepCold(t) ==
    \E s \in Listings(cold, ExpiredKeys(cold)) :
        /\ cold' = Without(cold, ExpiredKeys(cold))
        /\ Go(t, Demote(Idle, WithValues(cold, s), "idle"))

CleanupExpired(t) ==
    /\ Free(t)
    /\ \E s \in Listings(hot, ExpiredKeys(hot)) :
          /\ hot' = Without(hot, ExpiredKeys(hot))
          /\ IF s = <<>> THEN SweepCold(t)
             ELSE /\ Go(t, Demote(Idle, WithValues(hot, s), "coldSweep"))
                  /\ UNCHANGED cold
    /\ UNCHANGED <<dry, rows>>

ColdSweep(t) ==
    /\ task[t].at = "coldSweep"
    /\ SweepCold(t)
    /\ UNCHANGED <<hot, dry, rows>>
-----------------------------------------------------------------------------
(***************************************************************************)
(* The world: the clock, an I/O error or a cancellation that unwinds the   *)
(* coroutine, and the end of the process, close() or not: close() demotes  *)
(* nothing and only dry and tracking outlive it.                           *)
(***************************************************************************)
Tick(d) ==
    /\ hot' = Aged(hot, d)
    /\ cold' = Aged(cold, d)
    /\ UNCHANGED <<dry, rows, task>>

Abort(t) ==
    /\ ~Free(t)
    /\ Go(t, Idle)
    /\ UNCHANGED <<hot, cold, dry, rows>>

Restart ==
    /\ hot' = Empty
    /\ cold' = Empty
    /\ task' = [t \in Task |-> Idle]
    /\ UNCHANGED <<dry, rows>>
-----------------------------------------------------------------------------
(* A call begins. *)
Call(t) ==
    \/ \E k \in Key : Get(t, k) \/ Delete(t, k)
    \/ \E k \in Key, v \in Val, ttl \in Given : Set(t, k, v, ttl)
    \/ \E pattern \in Patterns : Purge(t, pattern)
    \/ \E tier \in FlushTiers : Flush(t, tier)
    \/ CleanupExpired(t)

(* A call that has begun goes on. *)
Proceed(t) ==
    Demotion(t) \/ Lookup(t) \/ SetTrack(t) \/ Removal(t) \/ DryFlush(t) \/ ColdSweep(t)

(* What happens as long as nothing is cut off. *)
Undisturbed ==
    \/ \E t \in Task : Call(t) \/ Proceed(t)
    \/ \E d \in Steps : Tick(d)

Next == Undisturbed \/ (\E t \in Task : Abort(t)) \/ Restart

Spec == Init /\ [][Next]_vars
UndisturbedSpec == Init /\ [][Undisturbed]_vars

(* The event loop runs every ready task, and I/O completes. *)
FairSpec == UndisturbedSpec /\ \A t \in Task : WF_vars(Proceed(t))
-----------------------------------------------------------------------------
(* What a frame holds for demotion; at dryTrack the first pair is in dry. *)
Undone(f) ==
    {f.todo[i] : i \in {n \in DOMAIN f.todo : n > 1 \/ f.at = "dryWrite"}}

Pending(t) == Undone(task[t])

(* Every variable holds what the code could put there. *)
TypeOK ==
    /\ hot \in Tier
    /\ cold \in Tier
    /\ dry \in [Key -> Val \cup {NoVal}]
    /\ rows \in [Key -> Row \cup {NoRow}]
    /\ task \in [Task -> Frame]

(* A coroutine that is about to use its key, its value or its evictions    *)
(* has them: part of the invariant the proofs rest on.                     *)
Fits(f) ==
    /\ f.at \in {"dryWrite", "dryTrack"} <=> f.todo # <<>>
    /\ f.at \in Points \ {"idle", "dryWrite", "dryTrack", "dryFlush", "coldSweep"}
          => f.key # NoKey
    /\ f.then \in {"idle", "coldGet", "dryRead", "setTrack", "coldSweep"}
    /\ f.then \in {"coldGet", "dryRead", "setTrack"} => f.key # NoKey
    /\ f.at \in {"hitTrack", "promote"} => f.val # NoVal
    /\ f.at = "ramDelete" => f.batch # <<>>

FrameOK == \A t \in Task : Fits(task[t])

(***************************************************************************)
(* An entry is never lost between the tiers.  A key that some tier holds,  *)
(* or a suspended task is about to demote, stays held until a delete of    *)
(* that key or a flush reaches it, the process ends, or the very task that *)
(* holds it for demotion is aborted - for any number of tasks              *)
(* (manager.py 54-55: dry is the failsafe).                                *)
(***************************************************************************)
Held(k) ==
    \/ k \in Resident(hot) \cup Resident(cold)
    \/ dry[k] # NoVal
    \/ \E t \in Task : \E p \in Pending(t) : p[1] = k

Removes(t, k) ==
    \/ task'[t].at = "dryDelete" /\ task'[t].key = k
    \/ DryDelete(t) /\ task[t].key = k
    \/ \E tier \in FlushTiers : Flush(t, tier)
    \/ DryFlush(t)
    \/ Abort(t) /\ \E p \in Pending(t) : p[1] = k

NoSilentLoss ==
    [][\A k \in Key : Held(k) /\ ~Held(k)' =>
          Restart \/ \E t \in Task : Removes(t, k)]_vars

(***************************************************************************)
(* Demotion happens: an evicted value some task holds gets to dry, unless  *)
(* the process ends or the call is aborted (manager.py 87-93; ram.py 56,   *)
(* 76: the callback is awaited before the operation returns).              *)
(***************************************************************************)
EvictedReachesDry ==
    \A t \in Task, k \in Key, v \in Val :
        <<k, v>> \in Pending(t) ~> dry[k] = v

(***************************************************************************)
(* Every call returns, however many evictions, promotions and keys to      *)
(* purge it has to work through.                                           *)
(***************************************************************************)
CallsReturn == \A t \in Task : ~Free(t) ~> Free(t)

(***************************************************************************)
(* A promotion puts into hot what hot does not have; it never replaces a   *)
(* live value by another (manager.py 52-53: promote on a hot MISS).        *)
(***************************************************************************)
PromotionKeepsNewerValue ==
    [][\A t \in Task : Promote(t) /\ task[t].key \in LiveKeys(hot)
          => hot.item[task[t].key].val = task[t].val]_vars

(***************************************************************************)
(* A tier change keeps the hit history: only set and delete make the count *)
(* of a key smaller (tracking/base.py 17, sqlite.py 78).                   *)
(***************************************************************************)
Hits(k) == IF rows[k] = NoRow THEN 0 ELSE rows[k].hits

HitHistorySurvivesTierChange ==
    [][\A k \in Key : Hits(k)' < Hits(k) =>
          \E t \in Task : task[t].key = k /\
              (DelTrack(t) \/ (SetTrack(t) /\ task[t].reset))]_vars

(***************************************************************************)
(* Between calls the tracking rows say where the entries are: hot for what *)
(* is in hot, dry for what only dry has (manager.py 170-171).  A key that  *)
(* is also in cold is left out, the rows know nothing of cold; and so is   *)
(* one that is nowhere, whose row a flush leaves behind.                   *)
(***************************************************************************)
ActualTier(k) == IF k \in Resident(hot) THEN "hot" ELSE "dry"

TrackingIsAccurate ==
    (\A t \in Task : Free(t)) =>
        \A k \in Key : k \notin Resident(cold) /\ (k \in Resident(hot) \/ dry[k] # NoVal)
            => rows[k] # NoRow /\ rows[k].tier = ActualTier(k)
-----------------------------------------------------------------------------
(***************************************************************************)
(* For one task and an empty cold tier the cache is a map.  The value of a *)
(* key is in hot, or on its way to dry, or in dry; a delete or flush that  *)
(* has done the RAM tiers is over as far as the map goes, since the only   *)
(* task there is will not look at dry before it is done.                   *)
(***************************************************************************)
Leaving(t, k) == {p \in Pending(t) : p[1] = k}

Doomed(t, k) ==
    task[t].at = "dryFlush" \/ (task[t].at = "dryDelete" /\ task[t].key = k)

Current(k) ==
    IF k \in Resident(hot) THEN hot.item[k].val
    ELSE IF \E t \in Task : Leaving(t, k) # {}
         THEN (CHOOSE p \in UNION {Leaving(t, k) : t \in Task} : TRUE)[2]
    ELSE IF \E t \in Task : Doomed(t, k) THEN NoVal
    ELSE dry[k]

(* Who asks for a key sees no difference between None and nothing. *)
Seen(v) == IF v \in {DryMiss, ColdMiss} THEN NoVal ELSE v

(* The call a frame is of: only a set resets the hits of its key. *)
Operation(f) ==
    IF f = Idle THEN "none"
    ELSE IF f.at \in {"dryDelete", "delTrack", "ramDelete"} THEN "delete"
    ELSE IF f.at = "dryFlush" THEN "flush"
    ELSE IF f.key = NoKey THEN "cleanup"
    ELSE IF f.reset THEN "set" ELSE "get"

CallOf(f) ==
    [op |-> Operation(f), key |-> f.key, todo |-> f.batch,
     val |-> IF Operation(f) = "set" THEN Seen(f.val) ELSE NoVal]

Calling ==
    IF \A t \in Task : Free(t) THEN CallOf(Idle)
    ELSE CallOf(task[CHOOSE t \in Task : ~Free(t)])

KV == INSTANCE KeyValue WITH map <- [k \in Key |-> Seen(Current(k))], call <- Calling

(***************************************************************************)
(* The cache does what the map does, call by call: a set changes its key   *)
(* to its value, a delete or purge its keys, and no get, clean-up,         *)
(* promotion, demotion, eviction or expiry changes what a key stands for   *)
(* (manager.py 87-184).                                                    *)
(***************************************************************************)
IsAMap == KV!Spec

(***************************************************************************)
(* ... and get answers with what the map holds, after any promotions,      *)
(* demotions and expiries on the way (manager.py 99-120).                  *)
(***************************************************************************)
GetAnswersCurrent ==
    [][\A t \in Task : HitTrack(t) \/ MissTrack(t)
          => Seen(task[t].val) = Seen(Current(task[t].key))]_vars

(***************************************************************************)
(* What a set writes lives as long as the documented priority says for the *)
(* call: its own ttl, else the first rule for its tags that names the hot  *)
(* tier, else the default (README.md 229-236), to the second.              *)
(***************************************************************************)
LifetimeByPriority ==
    [][\A t \in Task : Free(t) /\ task'[t].reset =>
          LET k == task'[t].key
              entry == hot'.item[k]
          IN  \A r \in Requests :
                 \/ \E time \in Documented(r) : Lasts(entry.ttl, time)
                 \/ ~Set(t, k, entry.val, TTLOf[r])]_vars
=============================================================================
