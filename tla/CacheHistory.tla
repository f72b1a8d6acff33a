---------------------------- MODULE CacheHistory ----------------------------
(***************************************************************************)
(* CacheManager with two history variables, to say which values the cache  *)
(* may still have of a key.  written[k] is what was set for k and not yet  *)
(* removed by a delete or full flush that is done with all tiers; what a   *)
(* delete or flush of task t found when it began, and nobody has set       *)
(* again since, is in condemned[t].                                        *)
(***************************************************************************)
EXTENDS CacheManager

VARIABLES written, condemned

hvars == <<hot, cold, dry, rows, task, written, condemned>>

HInit ==
    /\ Init
    /\ written = [k \in Key |->
                     IF k \in Resident(cold) THEN {cold.item[k].val} ELSE {}]
    /\ condemned = [t \in Task |-> {}]

WriteSet(t, k, v) ==
    /\ \E ttl \in Given : Set(t, k, v, ttl)
    /\ written' = [written EXCEPT ![k] = @ \cup {v}]
    /\ condemned' = [u \in Task |-> condemned[u] \ {<<k, v>>}]

Condemn(t, keys) ==
    /\ condemned' = [condemned EXCEPT ![t] = {p \in keys \X Val : p[2] \in written[p[1]]}]
    /\ UNCHANGED written

BeginRemoval(t) ==
    \/ \E k \in Key : Delete(t, k) /\ Condemn(t, {k})
    \/ \E pattern \in Patterns : Purge(t, pattern) /\
          Condemn(t, {task'[t].key} \cap Key)
    \/ RamDelete(t) /\ Condemn(t, {task'[t].key})
    \/ "all" \in FlushTiers /\ Flush(t, "all") /\ Condemn(t, Key)

EndRemoval(t) ==
    /\ DryDelete(t) \/ DryFlush(t)
    /\ written' = [k \in Key |-> {v \in written[k] : <<k, v>> \notin condemned[t]}]
    /\ condemned' = [condemned EXCEPT ![t] = {}]

Other ==
    /\ \/ \E t \in Task :
             \/ \E k \in Key : Get(t, k)
             \/ \E tier \in FlushTiers \ {"all"} : Flush(t, tier)
             \/ CleanupExpired(t)
             \/ Demotion(t) \/ Lookup(t) \/ SetTrack(t) \/ DelTrack(t) \/ ColdSweep(t)
       \/ \E d \in Steps : Tick(d)
    /\ UNCHANGED <<written, condemned>>

Ended ==
    \/ \E t \in Task : Abort(t) /\ condemned' = [condemned EXCEPT ![t] = {}]
    \/ Restart /\ condemned' = [t \in Task |-> {}]

HNext ==
    \/ \E t \in Task :
          \/ \E k \in Key, v \in Val : WriteSet(t, k, v)
          \/ BeginRemoval(t)
          \/ EndRemoval(t)
    \/ Other
    \/ Ended /\ UNCHANGED written

HSpec == HInit /\ [][HNext]_hvars
-----------------------------------------------------------------------------
(* The values of k in the tiers. *)
Copies(k) ==
    {hot.item[j].val : j \in {k} \cap Resident(hot)}
    \cup {cold.item[j].val : j \in {k} \cap Resident(cold)}
    \cup ({dry[k]} \ {NoVal})

(***************************************************************************)
(* What was deleted stays deleted: whatever the cache has of a key was set *)
(* for that key, and not removed since by a delete, a purge or a full      *)
(* flush - also when calls are aborted half-way and the process restarts   *)
(* (README.md 206; manager.py 135-147).                                    *)
(***************************************************************************)
NothingComesBack == \A k \in Key : Copies(k) \subseteq written[k]
=============================================================================
