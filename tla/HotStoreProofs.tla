---------------------------- MODULE HotStoreProofs ----------------------------
(***************************************************************************)
(* Proofs about HotStore, for every set of readings and every retention.   *)
(***************************************************************************)
EXTENDS HotStore, TLAPS

\* What the assumption says of one reading.
LEMMA ReadingType ==
    ASSUME NEW r \in Readings
    PROVE  /\ r.sensor \in Sensors
           /\ r.ts \in Nat
           /\ Bucket(r) \in Buckets
BY HotStoreAssumption DEF Buckets

LEMMA BumpType ==
    ASSUME NEW n \in 0..CounterCap
    PROVE  Bump(n) \in 0..CounterCap
BY HotStoreAssumption DEF Bump

\* The script keeps the reading it was run with: the cutoff is strictly older.
LEMMA StoredIsKept ==
    ASSUME NEW r \in Readings, StoreReading(r)
    PROVE  r \in hot'
<1>1. ~(r.ts <= r.ts - Retention)
  BY ReadingType, HotStoreAssumption
<1> QED
  BY <1>1 DEF StoreReading, Expired

-----------------------------------------------------------------------------
\* The parts of the invariants that one run of the script preserves.
LEMMA StoreKeepsType ==
    ASSUME HotTypeOK, NEW r \in Readings, StoreReading(r)
    PROVE  HotTypeOK'
<1>1. hot' \subseteq stored' /\ stored' \subseteq Readings
  BY DEF HotTypeOK, StoreReading, Expired
<1>2. sensors' \subseteq Sensors
  BY ReadingType DEF HotTypeOK, StoreReading
<1>3. throughput' \in [Buckets -> 0..CounterCap]
  <2>1. Bump(throughput[Bucket(r)]) \in 0..CounterCap
    BY ReadingType, BumpType DEF HotTypeOK
  <2> QED
    BY <2>1, ReadingType DEF HotTypeOK, StoreReading
<1> QED
  BY <1>1, <1>2, <1>3 DEF HotTypeOK

LEMMA ExpireKeepsType ==
    ASSUME HotTypeOK, NEW B \in SUBSET Buckets, ExpireBuckets(B)
    PROVE  HotTypeOK'
BY HotStoreAssumption DEF HotTypeOK, ExpireBuckets

LEMMA StoreKeepsEvicted ==
    ASSUME HotTypeOK, EvictedOnlyByAge, NEW r \in Readings, StoreReading(r)
    PROVE  EvictedOnlyByAge'
<1> SUFFICES ASSUME NEW x \in stored', x \notin hot'
             PROVE  \E y \in stored' : y.sensor = x.sensor /\ y.ts >= x.ts + Retention
  BY DEF EvictedOnlyByAge
<1>1. x \in stored \/ x = r
  BY DEF StoreReading
<1>2. x # r
  BY StoredIsKept
<1>3. CASE x \in hot
  <2>1. x.sensor = r.sensor /\ x.ts <= r.ts - Retention
    BY <1>3 DEF StoreReading, Expired
  <2>2. x.ts \in Nat /\ r.ts \in Nat
    BY <1>3, ReadingType DEF HotTypeOK
  <2>3. r.ts >= x.ts + Retention
    BY <2>1, <2>2, HotStoreAssumption
  <2> QED
    BY <2>1, <2>3 DEF StoreReading
<1>4. CASE x \notin hot
  <2>1. x \in stored \ hot
    BY <1>1, <1>2, <1>4
  <2> QED
    BY <2>1 DEF EvictedOnlyByAge, StoreReading
<1> QED
  BY <1>3, <1>4

LEMMA StoreKeepsLatest ==
    ASSUME HotTypeOK, LatestIsServed, NEW r \in Readings, StoreReading(r)
    PROVE  LatestIsServed'
<1>1. sensors' = {x.sensor : x \in stored'}
  BY DEF LatestIsServed, StoreReading
<1>2. ASSUME NEW x \in stored'
      PROVE  \E y \in hot' : y.sensor = x.sensor /\ y.ts >= x.ts
  <2>1. CASE x = r
    <3>1. r.ts >= r.ts
      BY ReadingType
    <3> QED
      BY <2>1, <3>1, StoredIsKept
  <2>2. CASE x \in stored
    <3>1. PICK y \in hot : y.sensor = x.sensor /\ y.ts >= x.ts
      BY <2>2 DEF LatestIsServed
    <3>2. CASE y \in hot'
      BY <3>1, <3>2
    <3>3. CASE y \notin hot'
      <4>1. y.sensor = r.sensor /\ y.ts <= r.ts - Retention
        BY <3>3 DEF StoreReading, Expired
      <4>2. x.ts \in Nat /\ y.ts \in Nat /\ r.ts \in Nat
        BY <2>2, ReadingType DEF HotTypeOK
      <4>3. r.ts >= x.ts
        BY <3>1, <4>1, <4>2, HotStoreAssumption
      <4> QED
        BY <3>1, <4>1, <4>3, StoredIsKept
    <3> QED
      BY <3>2, <3>3
  <2> QED
    BY <2>1, <2>2 DEF StoreReading
<1> QED
  BY <1>1, <1>2 DEF LatestIsServed

-----------------------------------------------------------------------------
HotInv == HotTypeOK /\ EvictedOnlyByAge /\ LatestIsServed

LEMMA HotInitInv == HotInit => HotInv
BY HotStoreAssumption DEF HotInit, HotInv, HotTypeOK, EvictedOnlyByAge, LatestIsServed

LEMMA HotNextInv == HotInv /\ [HotNext]_hotVars => HotInv'
<1> SUFFICES ASSUME HotInv, [HotNext]_hotVars
             PROVE  HotInv'
  OBVIOUS
<1>1. ASSUME NEW r \in Readings, StoreReading(r)
      PROVE  HotInv'
  BY <1>1, StoreKeepsType, StoreKeepsEvicted, StoreKeepsLatest DEF HotInv
<1>2. ASSUME NEW B \in SUBSET Buckets, ExpireBuckets(B)
      PROVE  HotInv'
  <2>1. HotTypeOK'
    BY <1>2, ExpireKeepsType DEF HotInv
  <2>2. EvictedOnlyByAge' /\ LatestIsServed'
    BY <1>2 DEF HotInv, EvictedOnlyByAge, LatestIsServed, ExpireBuckets
  <2> QED
    BY <2>1, <2>2 DEF HotInv
<1>3. CASE UNCHANGED hotVars
  BY <1>3 DEF HotInv, HotTypeOK, EvictedOnlyByAge, LatestIsServed, hotVars
<1> QED
  BY <1>1, <1>2, <1>3 DEF HotNext

(***************************************************************************)
(* The script keeps its keys well formed: the sorted sets hold only what   *)
(* was stored, and the counters stay in range.                             *)
(***************************************************************************)
THEOREM HotTypeCorrect == HotSpec => []HotTypeOK
<1>1. HotInv => HotTypeOK
  BY DEF HotInv
<1> QED
  BY HotInitInv, HotNextInv, <1>1, PTL DEF HotSpec

(***************************************************************************)
(* The Lua script removes a reading only when one of the same sensor at    *)
(* least READINGS_RETENTION_SECONDS newer has been stored, in whatever     *)
(* order and however often readings are stored.                            *)
(***************************************************************************)
THEOREM EvictionCorrect == HotSpec => []EvictedOnlyByAge
<1>1. HotInv => EvictedOnlyByAge
  BY DEF HotInv
<1> QED
  BY HotInitInv, HotNextInv, <1>1, PTL DEF HotSpec

(***************************************************************************)
(* Every listed sensor has a latest reading to serve, as new as any stored *)
(* for it: a late reading's trim never takes the newest.                   *)
(***************************************************************************)
THEOREM LatestCorrect == HotSpec => []LatestIsServed
<1>1. HotInv => LatestIsServed
  BY DEF HotInv
<1> QED
  BY HotInitInv, HotNextInv, <1>1, PTL DEF HotSpec
=============================================================================
