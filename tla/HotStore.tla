------------------------------ MODULE HotStore ------------------------------
(***************************************************************************)
(* The hot path of the ingestion service: the Redis keys that the Lua      *)
(* script _STORE_SCRIPT of                                                 *)
(* ingestion_service/app/services/redis_service.py writes.                 *)
(*                                                                         *)
(*   sensor:{id}:readings   sorted set, score = timestamp of the reading,  *)
(*                          member = its JSON payload                      *)
(*   sensors                set of every sensor id seen                    *)
(*   throughput:{second}    counter of the readings stamped in a second    *)
(*                                                                         *)
(* A member of a sorted set is the payload alone, so two readings with the *)
(* same sensor, timestamp and body are one member: a reading is a record   *)
(* and a sorted set is a set of them.  Time is counted in ticks.           *)
(*                                                                         *)
(* A definition whose name starts with Wrong is no part of the model: it   *)
(* is a faulty version of the definition after it, and a property is worth *)
(* keeping only if putting the faulty version in its place violates it.    *)
(***************************************************************************)
EXTENDS Integers, FiniteSets

CONSTANTS
    Sensors,         \* sensor ids
    Bodies,          \* values of "readings" and "metadata"
    Readings,        \* the readings that producers send
    Retention,       \* READINGS_RETENTION_SECONDS, in ticks
    TicksPerSecond,  \* ticks in one throughput bucket
    CounterCap       \* bound: a throughput counter saturates here

ASSUME HotStoreAssumption ==
    /\ Readings \subseteq [sensor : Sensors, ts : Nat, body : Bodies]
    /\ Retention \in Nat \ {0}
    /\ TicksPerSecond \in Nat \ {0}
    /\ CounterCap \in Nat \ {0}

VARIABLES
    hot,         \* union of the sorted sets sensor:*:readings
    sensors,     \* the set "sensors"
    throughput,  \* throughput:{second}; a missing key reads as 0
    stored       \* history: every reading the script was ever run with

hotVars == <<hot, sensors, throughput, stored>>

-----------------------------------------------------------------------------
\* _throughput_key: the bucket is the reading's own second, not the clock's.
Bucket(r) == r.ts \div TicksPerSecond

Buckets == {Bucket(r) : r \in Readings}

Bump(n) == IF n < CounterCap THEN n + 1 ELSE n

\* The cutoff taken over every sensor's readings.
WrongExpiredAnySensor(r) == {x \in hot \union {r} : x.ts <= r.ts - Retention}

\* The retention left out of the cutoff.
WrongExpiredNoRetention(r) ==
    {x \in hot \union {r} : x.sensor = r.sensor /\ x.ts <= r.ts}

\* The cutoff one tick too late.
WrongExpiredEarly(r) ==
    {x \in hot \union {r} : x.sensor = r.sensor /\ x.ts <= r.ts - Retention + 1}

\* The members ZREMRANGEBYSCORE -inf cutoff removes: the range includes the
\* cutoff, which is computed from the timestamp of the reading being stored.
Expired(r) ==
    {x \in hot \union {r} : x.sensor = r.sensor /\ x.ts <= r.ts - Retention}

-----------------------------------------------------------------------------
HotInit ==
    /\ hot = {}
    /\ sensors = {}
    /\ throughput = [b \in Buckets |-> 0]
    /\ stored = {}

\* INCR only when ZADD reports a new member.
WrongStoreCountsMembers(r) ==
    /\ hot' = (hot \union {r}) \ Expired(r)
    /\ sensors' = sensors \union {r.sensor}
    /\ throughput' =
          IF r \in hot THEN throughput ELSE [throughput EXCEPT ![Bucket(r)] = Bump(@)]
    /\ stored' = stored \union {r}

\* _STORE_SCRIPT: one run of the script, atomic in Redis.
StoreReading(r) ==
    /\ hot' = (hot \union {r}) \ Expired(r)
    /\ sensors' = sensors \union {r.sensor}
    /\ throughput' = [throughput EXCEPT ![Bucket(r)] = Bump(@)]
    /\ stored' = stored \union {r}

\* A counter decremented where it should expire.
WrongExpireDecrements(B) ==
    /\ throughput' = [b \in Buckets |-> IF b \in B THEN throughput[b] - 1 ELSE throughput[b]]
    /\ UNCHANGED <<hot, sensors, stored>>

\* The TTL of the throughput counters in B runs out.
ExpireBuckets(B) ==
    /\ throughput' = [b \in Buckets |-> IF b \in B THEN 0 ELSE throughput[b]]
    /\ UNCHANGED <<hot, sensors, stored>>

HotNext ==
    \/ \E r \in Readings : StoreReading(r)
    \/ \E B \in SUBSET Buckets : ExpireBuckets(B)

HotSpec == HotInit /\ [][HotNext]_hotVars

-----------------------------------------------------------------------------
HotTypeOK ==
    /\ hot \subseteq stored
    /\ stored \subseteq Readings
    /\ sensors \subseteq Sensors
    /\ throughput \in [Buckets -> 0..CounterCap]

(***************************************************************************)
(* A stored reading leaves the hot store only for age: when it is missing, *)
(* a reading of the same sensor at least Retention newer has been stored.  *)
(* Retries, late readings and the readings of other sensors never evict.   *)
(***************************************************************************)
EvictedOnlyByAge ==
    \A r \in stored \ hot :
        \E x \in stored : x.sensor = r.sensor /\ x.ts >= r.ts + Retention

(***************************************************************************)
(* What GET /sensors lists, GET /sensors/{id}/data answers: a listed       *)
(* sensor always has, in its sorted set, a reading as new as any that was  *)
(* ever stored for it, so the latest-readings query is never a 404 nor     *)
(* answers with something older than what it once had.                     *)
(***************************************************************************)
LatestIsServed ==
    /\ sensors = {r.sensor : r \in stored}
    /\ \A r \in stored : \E x \in hot : x.sensor = r.sensor /\ x.ts >= r.ts
=============================================================================
