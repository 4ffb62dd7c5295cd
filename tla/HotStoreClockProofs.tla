------------------------- MODULE HotStoreClockProofs -------------------------
(***************************************************************************)
(* Proofs about HotStoreClock.                                             *)
(***************************************************************************)
EXTENDS HotStoreClock, HotStoreProofs

LEMMA DivisionBounds ==
    ASSUME NEW n \in Nat, NEW d \in Nat \ {0}
    PROVE  /\ n \div d \in Nat
           /\ (n \div d) * d <= n
           /\ n < (n \div d) * d + d
OBVIOUS

LEMMA ProductMonotone ==
    ASSUME NEW i \in Nat, NEW j \in Nat, NEW d \in Nat, i <= j
    PROVE  i * d <= j * d
OBVIOUS

\* The start of a bucket, in ticks, is not after any reading of the bucket.
LEMMA BucketStart ==
    ASSUME NEW r \in Readings
    PROVE  Bucket(r) \in Nat /\ Bucket(r) * TicksPerSecond <= r.ts
BY ReadingType, DivisionBounds, HotStoreAssumption DEF Bucket

LEMMA BucketsAreNat == Buckets \subseteq Nat
BY BucketStart DEF Buckets

\* A bucket of a window of w seconds started less than w seconds ago.
LEMMA WindowStart ==
    ASSUME now \in Nat, NEW w \in Nat \ {0}, NEW b \in Window(w), b \in Nat
    PROVE  now < b * TicksPerSecond + w * TicksPerSecond
<1> DEFINE T == TicksPerSecond
           s == now \div T
<1>1. T \in Nat \ {0}
  BY HotStoreAssumption
<1>2. s \in Nat /\ now < s * T + T
  BY <1>1, DivisionBounds
<1>3. PICK i \in 0..(w - 1) : b = s - i
  BY DEF Window
<1>4. s + 1 <= b + w
  BY <1>2, <1>3
<1>5. (s + 1) * T <= (b + w) * T
  BY <1>1, <1>2, <1>4, ProductMonotone
<1>6. (s + 1) * T = s * T + T /\ (b + w) * T = b * T + w * T
  BY <1>1, <1>2
<1>7. s * T \in Nat /\ b * T \in Nat /\ w * T \in Nat
  BY <1>1, <1>2
<1> QED
  BY <1>1, <1>2, <1>5, <1>6, <1>7

-----------------------------------------------------------------------------
\* A bucket agrees with the true count until its TTL, counted from the
\* earliest moment a producer can have filled it, has run out.
BucketInv ==
    \A b \in Buckets :
        /\ \/ throughput[b] = counted[b]
           \/ b * TicksPerSecond + ThroughputTTL < now + MaxAhead
        /\ \/ counted[b] = 0
           \/ expiresAt[b] + MaxAhead >= b * TicksPerSecond + ThroughputTTL

\* No stored reading is further ahead of the clock than producers can be.
AheadInv == \A r \in stored : r.ts <= now + MaxAhead

ClockInv == ClockTypeOK /\ EvictedOnlyByAge /\ BucketInv /\ AheadInv

LEMMA ClockInitInv == ClockInit => ClockInv
BY HotInitInv, HotStoreAssumption, HotStoreClockAssumption
   DEF ClockInit, ClockInv, HotInv, ClockTypeOK, BucketInv, AheadInv, HotInit

LEMMA PersistKeepsInv ==
    ASSUME ClockInv, NEW r \in Readings, PersistNow(r)
    PROVE  ClockInv'
<1>1. HotTypeOK' /\ EvictedOnlyByAge'
  BY StoreKeepsType, StoreKeepsEvicted DEF ClockInv, ClockTypeOK, PersistNow
<1>2. r.ts \in Nat /\ Bucket(r) \in Buckets
  BY ReadingType
<1>3. ClockTypeOK'
  <2>1. now + ThroughputTTL \in 0..(MaxTime + ThroughputTTL)
    BY HotStoreClockAssumption DEF ClockInv, ClockTypeOK
  <2>2. Bump(counted[Bucket(r)]) \in 0..CounterCap
    BY <1>2, BumpType DEF ClockInv, ClockTypeOK
  <2> QED
    BY <1>1, <1>2, <2>1, <2>2 DEF ClockInv, ClockTypeOK, PersistNow
<1>4. BucketInv'
  <2> SUFFICES ASSUME NEW b \in Buckets
               PROVE  /\ \/ throughput'[b] = counted'[b]
                         \/ b * TicksPerSecond + ThroughputTTL < now' + MaxAhead
                      /\ \/ counted'[b] = 0
                         \/ expiresAt'[b] + MaxAhead
                              >= b * TicksPerSecond + ThroughputTTL
    BY DEF BucketInv
  <2>1. CASE b = Bucket(r)
    <3>1. \/ throughput'[b] = counted'[b]
          \/ b * TicksPerSecond + ThroughputTTL < now' + MaxAhead
      BY <2>1 DEF ClockInv, BucketInv, PersistNow, StoreReading,
                  ClockTypeOK, HotTypeOK
    <3>2. b * TicksPerSecond <= now + MaxAhead
      BY <1>2, <2>1, BucketStart, HotStoreAssumption, HotStoreClockAssumption
         DEF PersistNow, ClockInv, ClockTypeOK
    <3>3. expiresAt'[b] = now + ThroughputTTL
      BY <2>1 DEF PersistNow, ClockInv, ClockTypeOK
    <3> QED
      BY <3>1, <3>2, <3>3, BucketsAreNat, HotStoreAssumption, HotStoreClockAssumption
         DEF ClockInv, ClockTypeOK
  <2>2. CASE b # Bucket(r)
    BY <2>2 DEF ClockInv, BucketInv, PersistNow, StoreReading,
                ClockTypeOK, HotTypeOK
  <2> QED
    BY <2>1, <2>2
<1>5. AheadInv'
  BY DEF ClockInv, AheadInv, PersistNow, StoreReading
<1> QED
  BY <1>1, <1>3, <1>4, <1>5 DEF ClockInv

LEMMA TickKeepsInv ==
    ASSUME ClockInv, Tick
    PROVE  ClockInv'
<1>1. HotTypeOK'
  BY ExpireKeepsType DEF ClockInv, ClockTypeOK, Tick
<1>2. ClockTypeOK'
  BY <1>1, HotStoreClockAssumption DEF ClockInv, ClockTypeOK, Tick
<1>3. EvictedOnlyByAge'
  BY DEF ClockInv, EvictedOnlyByAge, Tick, ExpireBuckets
<1>4. BucketInv'
  <2> SUFFICES ASSUME NEW b \in Buckets
               PROVE  /\ \/ throughput'[b] = counted[b]
                         \/ b * TicksPerSecond + ThroughputTTL < now' + MaxAhead
                      /\ \/ counted[b] = 0
                         \/ expiresAt[b] + MaxAhead
                              >= b * TicksPerSecond + ThroughputTTL
    BY DEF BucketInv, Tick
  <2>1. b * TicksPerSecond \in Nat /\ expiresAt[b] \in Nat /\ now \in Nat
    BY BucketsAreNat, HotStoreAssumption, HotStoreClockAssumption
       DEF ClockInv, ClockTypeOK
  <2>2. CASE expiresAt[b] < now'
    BY <2>1, <2>2, HotStoreClockAssumption
       DEF ClockInv, BucketInv, Tick, ExpireBuckets
  <2>3. CASE ~(expiresAt[b] < now')
    BY <2>1, <2>3, HotStoreClockAssumption
       DEF ClockInv, BucketInv, Tick, ExpireBuckets
  <2> QED
    BY <2>2, <2>3
<1>5. AheadInv'
  BY ReadingType, HotStoreClockAssumption
     DEF ClockInv, ClockTypeOK, HotTypeOK, AheadInv, Tick, ExpireBuckets
<1> QED
  BY <1>2, <1>3, <1>4, <1>5 DEF ClockInv

LEMMA ClockNextInv == ClockInv /\ [ClockNext]_clockVars => ClockInv'
<1>1. ClockInv /\ UNCHANGED clockVars => ClockInv'
  BY DEF ClockInv, ClockTypeOK, HotTypeOK, EvictedOnlyByAge, BucketInv, AheadInv,
         clockVars, hotVars
<1> QED
  BY <1>1, PersistKeepsInv, TickKeepsInv DEF ClockNext

-----------------------------------------------------------------------------
\* The clock starts and runs with every part of its invariant.
LEMMA ClockInvariant == ClockSpec => []ClockInv
BY ClockInitInv, ClockNextInv, PTL DEF ClockSpec

(***************************************************************************)
(* No deadline is further away than a TTL, and no counter goes below zero  *)
(* when its key expires.                                                   *)
(***************************************************************************)
THEOREM ClockTypeCorrect == ClockSpec => []ClockTypeOK
<1>1. ClockInv => ClockTypeOK
  BY DEF ClockInv
<1> QED
  BY ClockInvariant, <1>1, PTL

(***************************************************************************)
(* The metrics services never sum a window with an expired counter in it   *)
(* when the TTL covers the window and the producers' lead.                 *)
(***************************************************************************)
THEOREM WindowCorrect == ClockSpec => []WindowIsComplete
<1>1. ClockInv => WindowIsComplete
  <2> SUFFICES ASSUME ClockInv,
                      NEW w \in 1..MaxWindow,
                      w * TicksPerSecond + MaxAhead <= ThroughputTTL,
                      NEW b \in Window(w) \intersect Buckets
               PROVE  throughput[b] = counted[b]
    BY DEF WindowIsComplete
  <2>1. now \in Nat /\ b \in Nat /\ w \in Nat \ {0}
    <3>1. now \in Nat
      BY HotStoreClockAssumption DEF ClockInv, ClockTypeOK
    <3>2. b \in Nat
      BY BucketsAreNat
    <3>3. w \in Nat \ {0}
      BY HotStoreClockAssumption
    <3> QED
      BY <3>1, <3>2, <3>3
  <2>2. b * TicksPerSecond \in Nat /\ w * TicksPerSecond \in Nat
    BY <2>1, HotStoreAssumption
  <2>3. now < b * TicksPerSecond + w * TicksPerSecond
    BY <2>1, WindowStart
  <2>4. ~(b * TicksPerSecond + ThroughputTTL < now + MaxAhead)
    BY <2>1, <2>2, <2>3, HotStoreClockAssumption
  <2> QED
    BY <2>4 DEF ClockInv, BucketInv
<1> QED
  BY ClockInvariant, <1>1, PTL

(***************************************************************************)
(* A reading within the hour by the servers' clock, less the producers'    *)
(* lead, stays available to range queries.                                 *)
(***************************************************************************)
THEOREM RecentCorrect == ClockSpec => []RecentIsKept
<1>1. ClockInv => RecentIsKept
  <2> SUFFICES ASSUME ClockInv,
                      NEW r \in stored, r.ts > now + MaxAhead - Retention,
                      r \notin hot
               PROVE  FALSE
    BY DEF RecentIsKept
  <2>1. PICK x \in stored : x.ts >= r.ts + Retention
    BY DEF ClockInv, EvictedOnlyByAge
  <2>2. x.ts <= now + MaxAhead
    BY DEF ClockInv, AheadInv
  <2>3. x.ts \in Nat /\ r.ts \in Nat /\ now \in Nat
    BY ReadingType, HotStoreClockAssumption DEF ClockInv, ClockTypeOK, HotTypeOK
  <2> QED
    BY <2>1, <2>2, <2>3, HotStoreAssumption, HotStoreClockAssumption
<1> QED
  BY ClockInvariant, <1>1, PTL

(***************************************************************************)
(* Against the clock, the hot store still does only what HotSpec allows.   *)
(***************************************************************************)
LEMMA ClockImplementsHotStore == ClockSpec => HotSpec
<1>1. ClockInit => HotInit
  BY DEF ClockInit
<1>2. [ClockNext]_clockVars => [HotNext]_hotVars
  BY DEF ClockNext, PersistNow, Tick, HotNext, clockVars, hotVars
<1> QED
  BY <1>1, <1>2, PTL DEF ClockSpec, HotSpec
=============================================================================
