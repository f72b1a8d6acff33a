------------------------------ MODULE Tracking ------------------------------
(***************************************************************************)
(* The tracking stores (src/tiercache/tracking): one row per key with the  *)
(* tier it is in and its hit count, and what the record_ operations of     *)
(* each store do to that row.  The other columns are written, never read.  *)
(***************************************************************************)
EXTENDS Naturals

CONSTANTS Store,        \* which store is configured, one of Stores
          NoRow,        \* the key has no row
          NoTier        \* a row without the tier field

Stores == {"sqlite", "redis", "postgres", "mongodb", "null"}

ASSUME StoreAssumption == Store \in Stores

Row == [tier : {"hot", "cold", "dry", NoTier}, hits : Nat]

ASSUME NoRowAssumption == NoRow \notin Row

FreshRow(tier) == [tier |-> tier, hits |-> 0]

(* Mutant: the hit count is overwritten whatever reset_hits says. *)
SQLiteRecordSetAnew(row, tier, reset) == FreshRow(tier)

(* ON CONFLICT DO UPDATE, with hit_count left out of it on a tier change *)
SQLiteRecordSet(row, tier, reset) ==
    IF row # NoRow /\ ~reset THEN [row EXCEPT !.tier = tier] ELSE FreshRow(tier)

(* These three take reset_hits and do not look at it. *)
RedisRecordSet(row, tier, reset) == FreshRow(tier)
PostgresRecordSet(row, tier, reset) == FreshRow(tier)
MongoDBRecordSet(row, tier, reset) == FreshRow(tier)

RecordSet(row, tier, reset) ==
    CASE Store = "sqlite"   -> SQLiteRecordSet(row, tier, reset)
      [] Store = "redis"    -> RedisRecordSet(row, tier, reset)
      [] Store = "postgres" -> PostgresRecordSet(row, tier, reset)
      [] Store = "mongodb"  -> MongoDBRecordSet(row, tier, reset)
      [] Store = "null"     -> row

Counted(row) == [row EXCEPT !.hits = @ + 1]

(* UPDATE ... WHERE key: no row, no effect *)
SQLiteRecordHit(row) == IF row = NoRow THEN NoRow ELSE Counted(row)
PostgresRecordHit(row) == IF row = NoRow THEN NoRow ELSE Counted(row)
MongoDBRecordHit(row) == IF row = NoRow THEN NoRow ELSE Counted(row)

(* HINCRBY creates the hash it does not find. *)
RedisRecordHit(row) == Counted(IF row = NoRow THEN FreshRow(NoTier) ELSE row)

RecordHit(row) ==
    CASE Store = "sqlite"   -> SQLiteRecordHit(row)
      [] Store = "redis"    -> RedisRecordHit(row)
      [] Store = "postgres" -> PostgresRecordHit(row)
      [] Store = "mongodb"  -> MongoDBRecordHit(row)
      [] Store = "null"     -> row

RecordDelete(row) == IF Store = "null" THEN row ELSE NoRow
=============================================================================
