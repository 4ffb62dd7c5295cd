------------------------- MODULE HotStoreScanProofs -------------------------
(***************************************************************************)
(* Proofs about HotStoreScan, for any readings, any page size and any      *)
(* number of readings stored and evicted between two pages.                *)
(***************************************************************************)
EXTENDS HotStoreScan, HotStoreProofs, FiniteSetTheorems

(***************************************************************************)
(* Paging changes nothing, so the hot store keeps its invariants under it. *)
(***************************************************************************)
LEMMA ScanImplementsHotStore == ScanSpec => HotSpec
<1>1. ScanInit => HotInit
  BY DEF ScanInit
<1>2. [ScanNext]_scanVars => [HotNext]_hotVars
  BY DEF ScanNext, Begin, GetPage, StoreMeanwhile, ListSensors, GetLatest, FindNoReading,
         HotNext, scanVars, hotVars
<1> QED
  BY <1>1, <1>2, PTL DEF ScanSpec, HotSpec

-----------------------------------------------------------------------------
(* The order of a range, and the offsets of its readings.                  *)

Earlier(r) == {x \in InRange : Before(x, r)}

LEMMA RangeReading ==
    ASSUME HotTypeOK, NEW r \in InRange
    PROVE  /\ r \in Readings /\ r.sensor = Sensor
           /\ r.ts \in Nat /\ r.body \in Bodies /\ MemberRank[r.body] \in Nat
BY HotStoreAssumption, HotStoreScanAssumption DEF HotTypeOK, InRange

LEMMA RangeFinite ==
    ASSUME HotTypeOK
    PROVE  /\ IsFiniteSet(InRange) /\ Cardinality(InRange) \in Nat
           /\ Cardinality(InRange) <= Cardinality(Readings)
<1>1. InRange \subseteq Readings
  BY DEF HotTypeOK, InRange
<1> QED
  BY <1>1, HotStoreScanAssumption, FS_Subset, FS_CardinalityType

\* Redis has a total order on the members of a range.
LEMMA BeforeIsOrder ==
    ASSUME HotTypeOK, NEW x \in InRange, NEW y \in InRange
    PROVE  /\ ~Before(x, x)
           /\ x # y => Before(x, y) \/ Before(y, x)
           /\ \A z \in InRange : Before(x, y) /\ Before(y, z) => Before(x, z)
<1>1. ~Before(x, x)
  BY RangeReading DEF Before
<1>2. ASSUME x # y
      PROVE  Before(x, y) \/ Before(y, x)
  <2>1. x.ts # y.ts \/ x.body # y.body
    BY <1>2, RangeReading, HotStoreAssumption
  <2>2. x.body # y.body => MemberRank[x.body] # MemberRank[y.body]
    BY RangeReading, HotStoreScanAssumption
  <2> QED
    BY <2>1, <2>2, RangeReading DEF Before
<1>3. ASSUME NEW z \in InRange, Before(x, y), Before(y, z)
      PROVE  Before(x, z)
  BY <1>3, RangeReading DEF Before
<1> QED
  BY <1>1, <1>2, <1>3

LEMMA RankBounds ==
    ASSUME HotTypeOK, NEW r \in InRange
    PROVE  Rank(r) \in Nat /\ Rank(r) < Cardinality(InRange)
<1>1. Earlier(r) \in SUBSET (InRange \ {r})
  BY BeforeIsOrder DEF Earlier
<1>2. /\ IsFiniteSet(InRange \ {r})
      /\ Cardinality(InRange \ {r}) = Cardinality(InRange) - 1
  BY RangeFinite, FS_RemoveElement
<1>3. /\ Cardinality(Earlier(r)) \in Nat
      /\ Cardinality(Earlier(r)) <= Cardinality(InRange) - 1
  BY <1>1, <1>2, FS_Subset, FS_CardinalityType
<1> QED
  BY <1>3, RangeFinite DEF Rank, Earlier

LEMMA RankDistinct ==
    ASSUME HotTypeOK, NEW x \in InRange, NEW y \in InRange, Before(x, y)
    PROVE  Rank(x) < Rank(y)
<1>1. Earlier(x) \in SUBSET (Earlier(y) \ {x}) /\ x \in Earlier(y)
  BY BeforeIsOrder DEF Earlier
<1>2. Earlier(y) \subseteq InRange
  BY DEF Earlier
<1>3. IsFiniteSet(Earlier(y)) /\ Cardinality(Earlier(y)) \in Nat
  BY <1>2, RangeFinite, FS_Subset, FS_CardinalityType
<1>4. /\ IsFiniteSet(Earlier(y) \ {x})
      /\ Cardinality(Earlier(y) \ {x}) = Cardinality(Earlier(y)) - 1
  BY <1>1, <1>3, FS_RemoveElement
<1>5. /\ Cardinality(Earlier(x)) \in Nat
      /\ Cardinality(Earlier(x)) <= Cardinality(Earlier(y)) - 1
  BY <1>1, <1>4, FS_Subset, FS_CardinalityType
<1> QED
  BY <1>3, <1>5 DEF Rank, Earlier

\* Each offset below the size of the range is that of one reading.
LEMMA RankOnto ==
    ASSUME HotTypeOK, NEW k \in 0..(Cardinality(InRange) - 1)
    PROVE  \E r \in InRange : Rank(r) = k
<1> DEFINE N == Cardinality(InRange)
           f == [r \in InRange |-> Rank(r)]
<1>1. N \in Nat /\ IsFiniteSet(InRange)
  BY RangeFinite
<1>2. f \in [InRange -> 0..(N - 1)]
  BY <1>1, RankBounds
<1>3. \A x, y \in InRange : f[x] = f[y] => x = y
  <2> SUFFICES ASSUME NEW x \in InRange, NEW y \in InRange, x # y
               PROVE  Rank(x) # Rank(y)
    OBVIOUS
  <2>1. Rank(x) \in Nat /\ Rank(y) \in Nat
    BY RankBounds
  <2>2. Rank(x) < Rank(y) \/ Rank(y) < Rank(x)
    BY BeforeIsOrder, RankDistinct
  <2> QED
    BY <2>1, <2>2
<1>4. f \in Injection(InRange, 0..(N - 1))
  BY <1>2, <1>3 DEF Injection, IsInjective
<1>5. IsFiniteSet(0..(N - 1)) /\ Cardinality(0..(N - 1)) = N
  BY <1>1, FS_Interval
<1> HIDE DEF N, f
<1>6. f \in Surjection(InRange, 0..(N - 1))
  BY <1>4, <1>5, FS_Injection DEF N
<1>7. \E r \in InRange : f[r] = k
  BY <1>6 DEF Surjection, N
<1> QED
  BY <1>7 DEF f

\* A page that readings are left behind is full.
LEMMA FullPage ==
    ASSUME HotTypeOK, NEW start \in Nat,
           NEW r \in InRange, Rank(r) >= start + Limit
    PROVE  Cardinality(Page(start)) = Limit
<1> DEFINE T == start..(start + Limit - 1)
           g == [x \in Page(start) |-> Rank(x)]
<1>1. Limit \in Nat \ {0} /\ Cardinality(InRange) \in Nat
  BY HotStoreScanAssumption, RangeFinite
<1>2. start + Limit < Cardinality(InRange) /\ Rank(r) \in Nat
  BY <1>1, RankBounds
<1>3. Page(start) \subseteq InRange
  BY DEF Page
<1>4. g \in [Page(start) -> T]
  BY <1>1, <1>3, RankBounds DEF Page
<1>5. \A x, y \in Page(start) : g[x] = g[y] => x = y
  <2> SUFFICES ASSUME NEW x \in Page(start), NEW y \in Page(start), x # y
               PROVE  Rank(x) # Rank(y)
    OBVIOUS
  <2>1. Rank(x) \in Nat /\ Rank(y) \in Nat
    BY <1>3, RankBounds
  <2>2. Rank(x) < Rank(y) \/ Rank(y) < Rank(x)
    BY <1>3, BeforeIsOrder, RankDistinct
  <2> QED
    BY <2>1, <2>2
<1>6. \A k \in T : \E x \in Page(start) : g[x] = k
  <2> SUFFICES ASSUME NEW k \in T
               PROVE  \E x \in Page(start) : Rank(x) = k
    OBVIOUS
  <2>1. k \in 0..(Cardinality(InRange) - 1)
    BY <1>1, <1>2
  <2>2. PICK x \in InRange : Rank(x) = k
    BY <2>1, RankOnto
  <2>3. x \in Page(start)
    BY <1>1, <2>2 DEF Page
  <2> QED
    BY <2>2, <2>3
<1>7. g \in Injection(Page(start), T) /\ g \in Surjection(Page(start), T)
  BY <1>4, <1>5, <1>6 DEF Injection, Surjection, IsInjective
<1>8. IsFiniteSet(T) /\ Cardinality(T) = Limit
  <2>1. /\ start \in Int /\ start + Limit - 1 \in Int
        /\ ~(start > start + Limit - 1) /\ (start + Limit - 1) - start + 1 = Limit
    BY <1>1
  <2> QED
    BY <2>1, FS_Interval
<1> HIDE DEF T, g
<1> QED
  BY <1>7, <1>8, FS_Injection

-----------------------------------------------------------------------------
(* Between two pages offsets only grow.                                    *)

\* A reading that stays keeps everything before it: what is evicted is older.
LEMMA StoreKeepsRank ==
    ASSUME HotTypeOK, HotTypeOK', NEW x \in Readings, StoreReading(x),
           NEW r \in InRange, r \in hot'
    PROVE  r \in InRange' /\ Rank(r)' >= Rank(r)
<1>1. r \in InRange'
  BY DEF InRange
<1>2. ASSUME NEW y \in InRange, Before(y, r)
      PROVE  y \in InRange'
  <2>1. y.ts >= r.ts /\ y.ts \in Nat /\ r.ts \in Nat /\ y.sensor = r.sensor
    BY <1>2, RangeReading DEF Before
  <2>2. ~(r.sensor = x.sensor /\ r.ts <= x.ts - Retention)
    BY DEF StoreReading, Expired, InRange
  <2>3. y \in hot'
    BY <2>1, <2>2, ReadingType, HotStoreAssumption DEF StoreReading, Expired, InRange
  <2> QED
    BY <2>3 DEF InRange
<1>3. Earlier(r) \in SUBSET (Earlier(r)')
  BY <1>2 DEF Earlier, Before
<1>4. IsFiniteSet(Earlier(r)') /\ Cardinality(Earlier(r)') \in Nat
  <2>1. Earlier(r)' \subseteq Readings
    BY DEF Earlier, InRange, HotTypeOK
  <2> QED
    BY <2>1, HotStoreScanAssumption, FS_Subset, FS_CardinalityType
<1>5. Cardinality(Earlier(r)) \in Nat /\ Cardinality(Earlier(r)) <= Cardinality(Earlier(r)')
  BY <1>3, <1>4, FS_Subset, FS_CardinalityType
<1> QED
  BY <1>1, <1>4, <1>5 DEF Rank, Earlier

\* A reading that was there all along has been seen, or is still ahead.
ScanInv ==
    /\ offset \in Nat
    /\ paging \in BOOLEAN
    /\ IF paging
       THEN \A r \in throughout : r \in InRange /\ (r \in seen \/ Rank(r) >= offset)
       ELSE throughout \subseteq seen

LEMMA ScanStep == HotTypeOK /\ HotTypeOK' /\ ScanInv /\ [ScanNext]_scanVars => ScanInv'
<1> SUFFICES ASSUME HotTypeOK, HotTypeOK', ScanInv, [ScanNext]_scanVars
             PROVE  ScanInv'
  OBVIOUS
<1>1. Limit \in Nat \ {0} /\ offset \in Nat /\ paging \in BOOLEAN
  BY HotStoreScanAssumption DEF ScanInv
<1>2. UNCHANGED hotVars =>
          InRange' = InRange /\ \A r : Rank(r)' = Rank(r)
  BY DEF hotVars, InRange, Rank, Before
<1>3. CASE Begin
  BY <1>2, <1>3, RankBounds DEF Begin, ScanInv
<1>4. CASE GetPage
  <2>1. /\ paging /\ UNCHANGED <<hotVars, throughout>>
        /\ seen' = seen \union Page(offset)
        /\ offset' = offset + Limit
        /\ paging' = (Cardinality(Page(offset)) = Limit)
    BY <1>4 DEF GetPage
  <2>2. ASSUME NEW r \in throughout, r \notin seen'
        PROVE  r \in InRange /\ Rank(r) >= offset + Limit
    <3>1. r \in InRange /\ Rank(r) >= offset /\ r \notin Page(offset)
      BY <2>1, <2>2 DEF ScanInv
    <3>2. Rank(r) \in Nat
      BY <3>1, RankBounds
    <3> QED
      BY <1>1, <3>1, <3>2 DEF Page
  <2>3. ASSUME ~paging'
        PROVE  throughout \subseteq seen'
    BY <1>1, <2>1, <2>2, <2>3, FullPage
  <2>4. \A r \in throughout : r \in InRange
    BY <2>1 DEF ScanInv
  <2> QED
    BY <1>1, <1>2, <2>1, <2>2, <2>3, <2>4 DEF ScanInv
<1>5. ASSUME NEW x \in Readings, StoreReading(x), UNCHANGED <<paging, offset, seen>>,
             throughout' = IF paging THEN throughout \intersect hot' ELSE throughout
      PROVE  ScanInv'
  <2>1. CASE paging
    <3>1. ASSUME NEW r \in throughout'
          PROVE  r \in InRange' /\ (r \in seen' \/ Rank(r)' >= offset')
      <4>1. r \in InRange /\ r \in hot' /\ (r \in seen \/ Rank(r) >= offset)
        BY <1>5, <2>1, <3>1 DEF ScanInv
      <4>2. r \in InRange' /\ Rank(r)' >= Rank(r) /\ Rank(r) \in Nat
        BY <1>5, <4>1, StoreKeepsRank, RankBounds
      <4>3. Rank(r)' \in Nat
        <5>1. Earlier(r)' \subseteq Readings
          BY DEF Earlier, InRange, HotTypeOK
        <5> QED
          BY <5>1, HotStoreScanAssumption, FS_Subset, FS_CardinalityType DEF Rank, Earlier
      <4> QED
        BY <1>1, <1>5, <4>1, <4>2, <4>3
    <3> QED
      BY <1>1, <1>5, <2>1, <3>1 DEF ScanInv
  <2>2. CASE ~paging
    BY <1>1, <1>5, <2>2 DEF ScanInv
  <2> QED
    BY <2>1, <2>2
<1>6. CASE UNCHANGED <<hotVars, pageVars>>
  BY <1>1, <1>2, <1>6 DEF pageVars, ScanInv
<1> QED
  BY <1>3, <1>4, <1>5, <1>6 DEF ScanNext, StoreMeanwhile, ListSensors, GetLatest,
     FindNoReading, scanVars

\* The next page starts where the last one stopped: at most one page past the
\* readings there are, for a page that is not the last is full.
ScanTypeInv ==
    /\ ScanTypeOK
    /\ paging => offset <= Cardinality(Readings)

LEMMA PageBound ==
    ASSUME HotTypeOK, NEW start \in Nat, Cardinality(Page(start)) = Limit
    PROVE  start + Limit <= Cardinality(Readings)
<1> DEFINE N == Cardinality(InRange)
           g == [x \in Page(start) |-> Rank(x)]
           T == start..(N - 1)
<1>1. N \in Nat /\ N <= Cardinality(Readings) /\ Cardinality(Readings) \in Nat
  BY RangeFinite, HotStoreScanAssumption, FS_CardinalityType
<1>2. Limit \in Nat \ {0} /\ Page(start) \subseteq InRange
  BY HotStoreScanAssumption DEF Page
<1>3. g \in [Page(start) -> T]
  BY <1>1, <1>2, RankBounds DEF Page
<1>4. \A x, y \in Page(start) : g[x] = g[y] => x = y
  <2> SUFFICES ASSUME NEW x \in Page(start), NEW y \in Page(start), x # y
               PROVE  Rank(x) # Rank(y)
    OBVIOUS
  <2>1. Rank(x) \in Nat /\ Rank(y) \in Nat
    BY <1>2, RankBounds
  <2>2. Rank(x) < Rank(y) \/ Rank(y) < Rank(x)
    BY <1>2, BeforeIsOrder, RankDistinct
  <2> QED
    BY <2>1, <2>2
<1>5. g \in Injection(Page(start), T)
  BY <1>3, <1>4 DEF Injection, IsInjective
<1>6. IsFiniteSet(T) /\ Cardinality(T) = IF start > N - 1 THEN 0 ELSE (N - 1) - start + 1
  <2>1. start \in Int /\ N - 1 \in Int
    BY <1>1
  <2> QED
    BY <2>1, FS_Interval
<1> HIDE DEF N, T, g
<1>7. Cardinality(Page(start)) <= Cardinality(T)
  BY <1>5, <1>6, FS_Injection
<1> QED
  BY <1>1, <1>2, <1>6, <1>7

NewestTypeOK == newest \in [Sensors -> Nat \union {Unheard}]

LEMMA NewestStep ==
    ASSUME HotTypeOK, NewestTypeOK, [ScanNext]_scanVars
    PROVE  NewestTypeOK'
<1>1. CASE UNCHANGED newest
  BY <1>1 DEF NewestTypeOK
<1>2. CASE ListSensors
  BY <1>2 DEF ListSensors, NewestTypeOK
<1>3. ASSUME NEW s \in Sensors, GetLatest(s)
      PROVE  NewestTypeOK'
  <2>1. PICK r \in Of(s) : newest' = [newest EXCEPT ![s] = r.ts]
    BY <1>3 DEF GetLatest
  <2>2. r.ts \in Nat
    BY ReadingType DEF Of, HotTypeOK
  <2> QED
    BY <2>1, <2>2 DEF NewestTypeOK
<1>4. ASSUME NEW s \in Sensors, FindNoReading(s)
      PROVE  NewestTypeOK'
  BY <1>4 DEF FindNoReading, NewestTypeOK
<1> QED
  BY <1>1, <1>2, <1>3, <1>4 DEF ScanNext, Begin, GetPage, StoreMeanwhile, scanVars

LEMMA ScanTypeStep == HotTypeOK' /\ ScanTypeInv /\ [ScanNext]_scanVars => ScanTypeInv'
<1> SUFFICES ASSUME HotTypeOK', ScanTypeInv, [ScanNext]_scanVars
             PROVE  ScanTypeInv'
  OBVIOUS
<1>1. Limit \in Nat \ {0} /\ Cardinality(Readings) \in Nat
  BY HotStoreScanAssumption, FS_CardinalityType
<1>2. HotTypeOK /\ InRange \subseteq stored
  BY DEF ScanTypeInv, ScanTypeOK, HotTypeOK, InRange
<1>7. NewestTypeOK'
  BY <1>2, NewestStep DEF ScanTypeInv, ScanTypeOK, NewestTypeOK
<1>3. CASE Begin
  BY <1>1, <1>2, <1>3, <1>7 DEF Begin, ScanTypeInv, ScanTypeOK, hotVars, NewestTypeOK
<1>4. CASE GetPage
  <2>1. paging /\ offset \in Nat /\ offset <= Cardinality(Readings)
    BY <1>1, <1>4 DEF GetPage, ScanTypeInv, ScanTypeOK
  <2>2. offset' = offset + Limit /\ offset' \in 0..(Cardinality(Readings) + Limit)
    BY <1>1, <1>4, <2>1 DEF GetPage
  <2>3. paging' \in BOOLEAN /\ (paging' => offset' <= Cardinality(Readings))
    BY <1>2, <1>4, <2>1, <2>2, PageBound DEF GetPage
  <2>4. seen' \subseteq stored' /\ throughout' \subseteq stored'
    BY <1>2, <1>4 DEF GetPage, ScanTypeInv, ScanTypeOK, hotVars, Page
  <2> QED
    BY <1>7, <2>2, <2>3, <2>4 DEF ScanTypeInv, ScanTypeOK, NewestTypeOK
<1>5. CASE StoreMeanwhile
  <2>1. stored \subseteq stored' /\ UNCHANGED <<paging, offset, seen>>
    BY <1>5 DEF StoreMeanwhile, StoreReading
  <2>2. throughout' \subseteq throughout
    BY <1>5 DEF StoreMeanwhile
  <2> QED
    BY <1>7, <2>1, <2>2 DEF ScanTypeInv, ScanTypeOK, NewestTypeOK
<1>6. CASE UNCHANGED <<hotVars, pageVars>> /\ NewestTypeOK'
  BY <1>6 DEF pageVars, hotVars, ScanTypeInv, ScanTypeOK, NewestTypeOK
<1> QED
  BY <1>3, <1>4, <1>5, <1>6, <1>7 DEF ScanNext, ListSensors, GetLatest, FindNoReading, scanVars

(***************************************************************************)
(* A client asks for no page further than one past the readings there are, *)
(* and all that it is answered was stored once.                            *)
(***************************************************************************)
THEOREM ScanTypeCorrect == ScanSpec => []ScanTypeOK
<1>1. ScanInit /\ HotTypeOK => ScanTypeInv
  <2> SUFFICES ASSUME ScanInit, HotTypeOK
               PROVE  ScanTypeInv
    OBVIOUS
  <2>1. /\ paging = FALSE /\ offset = 0 /\ seen = {} /\ throughout = {}
        /\ newest \in [Sensors -> Nat \union {Unheard}]
    BY DEF ScanInit
  <2>2. Cardinality(Readings) \in Nat /\ Limit \in Nat
    BY HotStoreScanAssumption, FS_CardinalityType
  <2>3. paging \in BOOLEAN /\ ~paging
    BY <2>1
  <2>4. offset \in 0..(Cardinality(Readings) + Limit)
    BY <2>1, <2>2
  <2> QED
    BY <2>1, <2>3, <2>4 DEF ScanTypeInv, ScanTypeOK
<1>2. ScanTypeInv => ScanTypeOK
  BY DEF ScanTypeInv
<1> QED
  BY <1>1, <1>2, ScanTypeStep, ScanImplementsHotStore, HotTypeCorrect, PTL DEF ScanSpec

(***************************************************************************)
(* A client that pages by offset sees every reading that is in the range   *)
(* from its first page to its last.                                        *)
(***************************************************************************)
THEOREM ScanCorrect == ScanSpec => []ScanMissesNothing
<1>1. ScanInit => ScanInv
  <2> SUFFICES ASSUME ScanInit
               PROVE  ScanInv
    OBVIOUS
  <2>1. paging = FALSE /\ offset = 0 /\ throughout = {}
    BY DEF ScanInit
  <2> QED
    BY <2>1 DEF ScanInv
<1>2. ScanInv => ScanMissesNothing
  BY DEF ScanInv, ScanMissesNothing
<1> QED
  BY <1>1, <1>2, ScanStep, ScanImplementsHotStore, HotTypeCorrect, PTL DEF ScanSpec

-----------------------------------------------------------------------------
(* What a client was told is backed by a reading that was stored, and so,  *)
(* by LatestIsServed, by one that is still there.                          *)

Backed ==
    \A s \in Sensors :
        newest[s] # Unheard => \E r \in stored : r.sensor = s /\ r.ts >= newest[s]

LEMMA BackedStep ==
    HotTypeOK /\ LatestIsServed /\ NewestTypeOK /\ Backed /\ [ScanNext]_scanVars
        => Backed' /\ \A s \in Sensors : newest'[s] >= newest[s]
<1> SUFFICES ASSUME HotTypeOK, LatestIsServed, NewestTypeOK, Backed, [ScanNext]_scanVars,
                    NEW t \in Sensors
             PROVE  /\ newest'[t] >= newest[t]
                    /\ newest'[t] # Unheard =>
                           \E r \in stored' : r.sensor = t /\ r.ts >= newest'[t]
  BY DEF Backed
<1>1. newest[t] \in Nat \union {Unheard} /\ \A r \in stored : r.ts \in Nat
  BY ReadingType DEF NewestTypeOK, HotTypeOK
<1>2. CASE newest'[t] = newest[t] /\ stored \subseteq stored'
  BY <1>1, <1>2 DEF Backed, Unheard
<1>3. CASE ListSensors
  <2>1. stored' = stored
    BY <1>3 DEF ListSensors, hotVars
  <2>2. CASE newest'[t] = 0 /\ newest[t] = Unheard /\ t \in sensors
    <3>1. PICK r \in stored : r.sensor = t
      BY <2>2 DEF LatestIsServed
    <3> QED
      BY <1>1, <2>1, <2>2, <3>1 DEF Unheard
  <2>3. CASE newest'[t] = newest[t]
    BY <1>2, <2>1, <2>3
  <2> QED
    BY <1>3, <2>2, <2>3 DEF ListSensors
<1>4. ASSUME NEW s \in Sensors, GetLatest(s)
      PROVE  /\ newest'[t] >= newest[t]
             /\ newest'[t] # Unheard =>
                    \E r \in stored' : r.sensor = t /\ r.ts >= newest'[t]
  <2>1. PICK r \in Of(s) :
            /\ \A x \in Of(s) : ~Before(x, r)
            /\ newest' = [newest EXCEPT ![s] = r.ts]
    BY <1>4 DEF GetLatest
  <2>2. stored' = stored /\ r \in hot /\ r \in stored /\ r.sensor = s /\ r.ts \in Nat
    BY <1>1, <1>4, <2>1 DEF GetLatest, hotVars, Of, HotTypeOK
  <2>3. CASE s = t
    <3>1. newest'[t] = r.ts
      BY <2>1, <2>3 DEF NewestTypeOK
    <3>2. CASE newest[t] = Unheard
      BY <2>2, <2>3, <3>1, <3>2 DEF Unheard
    <3>3. CASE newest[t] # Unheard
      <4>1. PICK x \in stored : x.sensor = t /\ x.ts >= newest[t]
        BY <3>3 DEF Backed
      <4>2. PICK y \in hot : y.sensor = t /\ y.ts >= x.ts
        BY <4>1 DEF LatestIsServed
      <4>3. ~(y.ts > r.ts) /\ y.ts \in Nat
        BY <1>1, <2>1, <2>3, <4>2 DEF Of, Before, HotTypeOK
      <4>4. newest[t] \in Nat /\ x.ts \in Nat
        BY <1>1, <3>3, <4>1
      <4>5. r.ts >= newest[t]
        BY <2>2, <4>1, <4>2, <4>3, <4>4
      <4> QED
        BY <2>2, <2>3, <3>1, <4>5
    <3> QED
      BY <3>2, <3>3
  <2>4. CASE s # t
    BY <1>2, <2>1, <2>2, <2>4 DEF NewestTypeOK
  <2> QED
    BY <2>3, <2>4
<1>5. ASSUME NEW s \in Sensors, FindNoReading(s)
      PROVE  newest'[t] = newest[t] /\ stored' = stored
  <2>1. newest[s] = Unheard
    <3>1. ASSUME newest[s] # Unheard
          PROVE  FALSE
      <4>1. PICK x \in stored : x.sensor = s
        BY <3>1 DEF Backed
      <4>2. PICK y \in hot : y.sensor = s
        BY <4>1 DEF LatestIsServed
      <4> QED
        BY <1>5, <4>2 DEF FindNoReading, Of
    <3> QED
      BY <3>1
  <2> QED
    BY <1>5, <2>1 DEF FindNoReading, NewestTypeOK, hotVars
<1>6. CASE Begin \/ GetPage \/ StoreMeanwhile \/ UNCHANGED scanVars
  <2>1. newest' = newest /\ stored \subseteq stored'
    BY <1>6 DEF Begin, GetPage, StoreMeanwhile, StoreReading, scanVars, hotVars
  <2> QED
    BY <1>2, <2>1
<1> QED
  BY <1>2, <1>3, <1>4, <1>5, <1>6 DEF ScanNext

(***************************************************************************)
(* No listed sensor is answered 404, and no client is taken back in time,  *)
(* for any readings, retention and order of arrival.                       *)
(***************************************************************************)
THEOREM LatestCorrectForClients == ScanSpec => LatestNeverRecedes
<1>1. ScanInit => Backed
  BY DEF ScanInit, Backed
<1>2. ScanTypeOK => NewestTypeOK
  BY DEF ScanTypeOK, NewestTypeOK
<1>3. ScanSpec => []HotTypeOK /\ []LatestIsServed
  BY ScanImplementsHotStore, HotTypeCorrect, LatestCorrect, PTL
<1>4. HotTypeOK /\ LatestIsServed /\ NewestTypeOK /\ Backed /\ [ScanNext]_scanVars
          => Backed' /\ [\A s \in Sensors : newest'[s] >= newest[s]]_scanVars
  BY BackedStep
<1> QED
  BY <1>1, <1>2, <1>3, <1>4, ScanTypeCorrect, PTL DEF ScanSpec, LatestNeverRecedes
=============================================================================
