---------------------------- MODULE ScalingProofs ----------------------------
(***************************************************************************)
(* The scaling rule, for every load, every number of workers and every     *)
(* choice of thresholds with ScaleDown <= ScaleUp, and the service that    *)
(* applies it while workers come and go.                                   *)
(***************************************************************************)
EXTENDS Scaling, WorkerRegistryProofs, FiniteSetTheorems, TLAPS

(* Rounding up: the least number of shares of b that holds a.              *)
LEMMA CeilDivBounds ==
    ASSUME NEW a \in Nat, NEW b \in Nat \ {0}
    PROVE  /\ CeilDiv(a, b) \in Nat
           /\ a <= CeilDiv(a, b) * b
           /\ (CeilDiv(a, b) - 1) * b < a
<1> DEFINE c == CeilDiv(a, b)
<1>1. c \in Int /\ b * c <= a + b - 1 /\ a + b - 1 < b * c + b
  BY DEF CeilDiv
<1>2. c \in Nat
  BY DEF CeilDiv
<1>3. b * c = c * b /\ (c - 1) * b = c * b - b
  BY <1>1
<1> QED BY <1>1, <1>2, <1>3

(* A worker's share of a window, and the order of two loads.               *)
LEMMA ShareType ==
    ASSUME NEW rate \in {ScaleUp, ScaleDown}
    PROVE  rate * Window \in Nat \ {0}
BY ScalingPolicyAssumption

LEMMA LoadMonotone ==
    ASSUME NEW m \in Int, NEW n \in Int, m <= n, NEW k \in Nat
    PROVE  m * k <= n * k
OBVIOUS

LEMMA LoadOrder ==
    ASSUME NEW rate \in {ScaleUp, ScaleDown}, NEW m \in Int, NEW n \in Int
    PROVE  /\ Load(m, rate) \in Int /\ Load(n, rate) \in Int
           /\ m <= n => Load(m, rate) <= Load(n, rate)
           /\ m < n => Load(m, rate) < Load(n, rate)
           /\ Load(m, rate) < Load(n, rate) => m < n
<1> DEFINE k == rate * Window
<1>1. k \in Nat \ {0}
  BY ShareType
<1> HIDE DEF k
<1>2. m * k \in Int /\ n * k \in Int
  BY <1>1
<1>3. m <= n => m * k <= n * k
  BY <1>1, LoadMonotone
<1>4. n <= m => n * k <= m * k
  BY <1>1, LoadMonotone
<1>5. m < n => m * k < n * k
  <2>1. m + 1 <= n => (m + 1) * k <= n * k
    BY <1>1, LoadMonotone
  <2>2. (m + 1) * k = m * k + k
    BY <1>1
  <2> QED BY <1>1, <1>2, <2>1, <2>2
<1>6. Load(m, rate) = m * k /\ Load(n, rate) = n * k
  BY DEF Load, k
<1> QED BY <1>2, <1>3, <1>4, <1>5, <1>6

LEMMA RateOrder ==
    ASSUME NEW n \in Nat
    PROVE  Load(n, ScaleDown) <= Load(n, ScaleUp)
<1>1. Window \in Nat /\ ScaleDown \in Nat /\ ScaleUp \in Nat /\ ScaleDown <= ScaleUp
  BY ScalingPolicyAssumption
<1>2. ScaleDown * Window <= ScaleUp * Window
  BY <1>1, LoadMonotone
<1>3. ScaleDown * Window \in Int /\ ScaleUp * Window \in Int
  BY <1>1
<1>4. (ScaleDown * Window) * n <= (ScaleUp * Window) * n
  BY <1>2, <1>3, LoadMonotone
<1> QED BY <1>3, <1>4 DEF Load

(* The workers needed for a load hold it, and one fewer would not.         *)
LEMMA NeededFits ==
    ASSUME NEW t \in Nat, NEW rate \in {ScaleUp, ScaleDown}
    PROVE  /\ Needed(t, rate) \in Nat
           /\ t <= Load(Needed(t, rate), rate)
           /\ Load(Needed(t, rate) - 1, rate) < t
BY ShareType, CeilDivBounds DEF Needed, Load

-----------------------------------------------------------------------------
(* The number of workers before it is clamped.                             *)
Raw(t, a) ==
    CASE ScalesUp(t, a) -> Needed(t, ScaleUp)
      [] ScalesDown(t, a) -> IF t > 0 THEN Needed(t, ScaleDown) ELSE 1
      [] OTHER -> Effective(a)

LEMMA DesiredIsClamped == \A t, a : Desired(t, a) = Clamp(Raw(t, a))
BY DEF Desired, Raw

LEMMA ClampRange ==
    ASSUME NEW n \in Int
    PROVE  Clamp(n) \in MinWorkers..MaxWorkers
BY ScalingPolicyAssumption DEF Clamp

LEMMA RawFits ==
    ASSUME NEW t \in Nat, NEW a \in Nat
    PROVE  /\ Raw(t, a) \in Nat
           /\ t <= Load(Raw(t, a), ScaleUp)
           /\ t > Load(Raw(t, a) - 1, ScaleDown) \/ Raw(t, a) <= 1
<1> DEFINE e == Effective(a)
<1>1. e \in Nat /\ e >= 1
  BY DEF Effective
<1>2. CASE ScalesUp(t, a)
  <2>1. Raw(t, a) = Needed(t, ScaleUp)
    BY <1>2 DEF Raw, ScalesDown
  <2> DEFINE n == Needed(t, ScaleUp)
  <2>2. n \in Nat /\ t <= Load(n, ScaleUp) /\ Load(n - 1, ScaleUp) < t
    BY NeededFits
  <2>3. n >= 1 => Load(n - 1, ScaleDown) <= Load(n - 1, ScaleUp)
    BY <2>2, RateOrder
  <2>4. Load(n - 1, ScaleDown) \in Int /\ Load(n - 1, ScaleUp) \in Int
    BY <2>2, LoadOrder
  <2> HIDE DEF n
  <2>5. n <= 1 \/ Load(n - 1, ScaleDown) < t
    BY <2>2, <2>3, <2>4
  <2> QED BY <2>1, <2>2, <2>5 DEF n
<1>3. CASE ~ScalesUp(t, a) /\ ScalesDown(t, a) /\ t > 0
  <2>1. Raw(t, a) = Needed(t, ScaleDown)
    BY <1>3 DEF Raw
  <2> DEFINE n == Needed(t, ScaleDown)
  <2>2. n \in Nat /\ t <= Load(n, ScaleDown) /\ Load(n - 1, ScaleDown) < t
    BY NeededFits
  <2>3. Load(n, ScaleDown) <= Load(n, ScaleUp)
    BY <2>2, RateOrder
  <2>4. Load(n, ScaleDown) \in Int /\ Load(n, ScaleUp) \in Int
    BY <2>2, LoadOrder
  <2> HIDE DEF n
  <2>5. t <= Load(n, ScaleUp)
    BY <2>2, <2>3, <2>4
  <2> QED BY <2>1, <2>2, <2>5 DEF n
<1>4. CASE ~ScalesUp(t, a) /\ ScalesDown(t, a) /\ t = 0
  <2>1. Raw(t, a) = 1
    BY <1>4 DEF Raw
  <2>2. Load(1, ScaleUp) >= 0
    BY ShareType DEF Load
  <2> QED BY <1>4, <2>1, <2>2
<1>5. CASE ~ScalesUp(t, a) /\ ~ScalesDown(t, a)
  <2>1. Raw(t, a) = e
    BY <1>5 DEF Raw
  <2>2. /\ Load(e, ScaleUp) \in Int /\ Load(e, ScaleDown) \in Int
        /\ Load(e - 1, ScaleDown) \in Int
        /\ Load(e - 1, ScaleDown) < Load(e, ScaleDown)
    BY <1>1, LoadOrder
  <2>3. t <= Load(e, ScaleUp) /\ Load(e, ScaleDown) <= t
    BY <1>5, <2>2 DEF ScalesUp, ScalesDown
  <2> HIDE DEF e
  <2>4. Load(e - 1, ScaleDown) < t
    BY <2>2, <2>3
  <2> QED BY <1>1, <2>1, <2>3, <2>4
<1> QED BY <1>2, <1>3, <1>4, <1>5

LEMMA ClampFits ==
    ASSUME NEW t \in Nat, NEW n \in Nat,
           t <= Load(n, ScaleUp),
           t > Load(n - 1, ScaleDown) \/ n <= 1
    PROVE  Fits(t, Clamp(n))
<1> USE ScalingPolicyAssumption
<1>1. CASE n < MinWorkers
  <2>1. Clamp(n) = MinWorkers
    BY <1>1 DEF Clamp
  <2>2. /\ Load(n, ScaleUp) <= Load(MinWorkers, ScaleUp)
        /\ Load(n, ScaleUp) \in Int /\ Load(MinWorkers, ScaleUp) \in Int
    BY <1>1, LoadOrder
  <2>3. t <= Load(MinWorkers, ScaleUp)
    BY <2>2
  <2> QED BY <2>1, <2>3 DEF Fits
<1>2. CASE n > MaxWorkers
  <2>1. Clamp(n) = MaxWorkers
    BY <1>2 DEF Clamp
  <2>2. /\ Load(MaxWorkers - 1, ScaleDown) <= Load(n - 1, ScaleDown)
        /\ Load(MaxWorkers - 1, ScaleDown) \in Int /\ Load(n - 1, ScaleDown) \in Int
    <3>1. MaxWorkers - 1 \in Int /\ n - 1 \in Int /\ MaxWorkers - 1 <= n - 1
      BY <1>2
    <3> QED BY <3>1, LoadOrder
  <2>3. t > Load(n - 1, ScaleDown)
    BY <1>2
  <2>4. t > Load(MaxWorkers - 1, ScaleDown)
    BY <2>2, <2>3
  <2> QED BY <2>1, <2>4 DEF Fits
<1>3. CASE n \in MinWorkers..MaxWorkers
  BY <1>3 DEF Clamp, Fits
<1> QED BY <1>1, <1>2, <1>3

(***************************************************************************)
(* Whatever the load and the number of active workers, the recommendation  *)
(* lies in its clamp and fits the load.                                    *)
(***************************************************************************)
THEOREM RuleFits ==
    ASSUME NEW t \in Nat, NEW a \in Nat
    PROVE  Desired(t, a) \in MinWorkers..MaxWorkers /\ Fits(t, Desired(t, a))
<1> DEFINE n == Raw(t, a)
<1>1. n \in Nat /\ t <= Load(n, ScaleUp) /\ (t > Load(n - 1, ScaleDown) \/ n <= 1)
  BY RawFits
<1>2. Desired(t, a) = Clamp(n)
  BY DesiredIsClamped
<1> HIDE DEF n
<1>3. Fits(t, Clamp(n)) /\ Clamp(n) \in MinWorkers..MaxWorkers
  BY <1>1, ClampFits, ClampRange
<1> QED BY <1>2, <1>3

(***************************************************************************)
(* A number of workers that fits a load is recommended again for it.       *)
(***************************************************************************)
THEOREM FittingIsStable ==
    ASSUME NEW t \in Nat, NEW n \in MinWorkers..MaxWorkers, Fits(t, n)
    PROVE  Desired(t, n) = n
<1> USE ScalingPolicyAssumption
<1>1. n \in Nat /\ n >= 1 /\ Effective(n) = n
  BY DEF Effective
<1>2. CASE ScalesUp(t, n)
  <2> DEFINE c == Needed(t, ScaleUp)
  <2>1. t > Load(n, ScaleUp) /\ n = MaxWorkers
    <3>1. t > Load(n, ScaleUp)
      BY <1>1, <1>2 DEF ScalesUp
    <3>2. Load(n, ScaleUp) \in Int
      BY <1>1, LoadOrder
    <3> QED BY <3>1, <3>2 DEF Fits
  <2>2. c \in Nat /\ t <= Load(c, ScaleUp)
    BY NeededFits
  <2> HIDE DEF c
  <2>3. n < c
    <3>1. /\ Load(n, ScaleUp) \in Int /\ Load(c, ScaleUp) \in Int
          /\ Load(n, ScaleUp) < Load(c, ScaleUp) => n < c
      BY <1>1, <2>2, LoadOrder
    <3> QED BY <2>1, <2>2, <3>1
  <2>4. Desired(t, n) = Clamp(c)
    BY <1>2 DEF Desired, ScalesDown, c
  <2> QED BY <2>1, <2>2, <2>3, <2>4 DEF Clamp
<1>3. CASE ScalesDown(t, n) /\ t = 0
  <2>1. Load(n - 1, ScaleDown) >= 0
    <3>1. n - 1 \in Nat /\ ScaleDown * Window \in Nat
      BY <1>1, ShareType
    <3> QED BY <3>1 DEF Load
  <2>2. n = MinWorkers
    <3>1. ~(t > Load(n - 1, ScaleDown))
      <4>1. Load(n - 1, ScaleDown) \in Int
        BY <1>1, LoadOrder
      <4> QED BY <1>3, <2>1, <4>1
    <3> QED BY <3>1 DEF Fits
  <2>3. Desired(t, n) = Clamp(1)
    BY <1>3 DEF Desired, ScalesDown
  <2> QED BY <2>2, <2>3 DEF Clamp
<1>4. CASE ScalesDown(t, n) /\ t > 0
  <2> DEFINE c == Needed(t, ScaleDown)
  <2>1. c \in Nat /\ t <= Load(c, ScaleDown) /\ Load(c - 1, ScaleDown) < t
    BY NeededFits
  <2>2. t < Load(n, ScaleDown)
    BY <1>1, <1>4 DEF ScalesDown
  <2>3. Desired(t, n) = Clamp(c)
    BY <1>4 DEF Desired, ScalesDown, c
  <2> HIDE DEF c
  <2>4. c <= n
    <3>1. /\ Load(c - 1, ScaleDown) \in Int /\ Load(n, ScaleDown) \in Int
          /\ Load(c - 1, ScaleDown) < Load(n, ScaleDown) => c - 1 < n
      <4>1. c - 1 \in Int
        BY <2>1
      <4> QED BY <1>1, <4>1, LoadOrder
    <3> QED BY <1>1, <2>1, <2>2, <3>1
  <2>5. CASE t > Load(n - 1, ScaleDown)
    <3>1. /\ Load(n - 1, ScaleDown) \in Int /\ Load(c, ScaleDown) \in Int
          /\ Load(n - 1, ScaleDown) < Load(c, ScaleDown) => n - 1 < c
      <4>1. n - 1 \in Int
        BY <1>1
      <4> QED BY <2>1, <4>1, LoadOrder
    <3>2. n - 1 < c
      BY <2>1, <2>5, <3>1
    <3>3. c = n
      BY <1>1, <2>1, <2>4, <3>2
    <3> QED BY <2>3, <3>3 DEF Clamp
  <2>6. CASE n = MinWorkers
    BY <2>1, <2>3, <2>4, <2>6 DEF Clamp
  <2> QED BY <2>5, <2>6 DEF Fits
<1>5. CASE ~ScalesUp(t, n) /\ ~ScalesDown(t, n)
  <2>1. Desired(t, n) = Clamp(n)
    BY <1>1, <1>5 DEF Desired
  <2> QED BY <1>1, <2>1 DEF Clamp
<1> QED BY <1>2, <1>3, <1>4, <1>5

-----------------------------------------------------------------------------
(***************************************************************************)
(* The service: what is known of a request in progress and of the answer   *)
(* given, whatever the worker manager does in between.                     *)
(***************************************************************************)
AdviceInv ==
    /\ total \in Nat /\ active \in Nat
    /\ stage \in {"list", "horizon"} => active = 0
    /\ \/ advice = NoAdvice
       \/ /\ advice.total \in Nat /\ advice.active \in Nat
          /\ advice.action = Action(advice.total, advice.active)
          /\ advice.workers = Desired(advice.total, advice.active)

LEMMA RecommendKeepsAdvice ==
    ASSUME NEW n \in Nat, total \in Nat, Recommend(n)
    PROVE  /\ advice'.total \in Nat /\ advice'.active \in Nat
           /\ advice'.action = Action(advice'.total, advice'.active)
           /\ advice'.workers = Desired(advice'.total, advice'.active)
           /\ total' = 0 /\ stage' = "idle"
BY DEF Recommend

LEMMA AdviceStep == AdviceInv /\ [ScalingNext]_scalingVars => AdviceInv'
<1> SUFFICES ASSUME AdviceInv, [ScalingNext]_scalingVars PROVE AdviceInv'
  OBVIOUS
<1>1. CASE ReadThroughput
  BY <1>1, ScalingAssumption DEF ReadThroughput, AdviceInv
<1>2. CASE ListMembers
  <2>1. CASE members = {}
    BY <1>2, <2>1, RecommendKeepsAdvice DEF ListMembers, AdviceInv
  <2>2. CASE members # {}
    BY <1>2, <2>2 DEF ListMembers, AdviceInv
  <2> QED BY <2>1, <2>2
<1>3. CASE TakeHorizon
  BY <1>3 DEF TakeHorizon, AdviceInv
<1>4. ASSUME NEW w \in Workers, CountWorker(w)
      PROVE  AdviceInv'
  <2>1. active' \in Nat
    BY <1>4 DEF CountWorker, AdviceInv
  <2>2. CASE uncounted' = {}
    BY <1>4, <2>1, <2>2, RecommendKeepsAdvice DEF CountWorker, AdviceInv
  <2>3. CASE uncounted' # {}
    BY <1>4, <2>1, <2>3 DEF CountWorker, AdviceInv
  <2> QED BY <2>2, <2>3
<1>5. CASE ScalingFails
  BY <1>5 DEF ScalingFails, AdviceInv
<1>6. CASE ManagerStep
  BY <1>6 DEF ManagerStep, readVars, AdviceInv
<1>7. CASE UNCHANGED scalingVars
  BY <1>7 DEF scalingVars, readVars, AdviceInv
<1> QED BY <1>1, <1>2, <1>3, <1>4, <1>5, <1>6, <1>7 DEF ScalingNext

LEMMA AdviceInvariant == ScalingSpec => []AdviceInv
<1>1. ScalingInit => AdviceInv
  BY DEF ScalingInit, AdviceInv
<1> QED BY <1>1, AdviceStep, PTL DEF ScalingSpec

(***************************************************************************)
(* Every recommendation answered fits the load it was computed from.       *)
(***************************************************************************)
THEOREM AdviceCorrect == ScalingSpec => []AdviceFits
<1>1. AdviceInv => AdviceFits
  BY RuleFits DEF AdviceInv, AdviceFits
<1> QED BY <1>1, AdviceInvariant, PTL

(***************************************************************************)
(* Following a recommendation under the same load asks for the same number *)
(* of workers again, and the number agrees with the action.                *)
(***************************************************************************)
THEOREM SettlesCorrect == ScalingSpec => []AdviceSettles
<1>1. AdviceInv => AdviceSettles
  <2> SUFFICES ASSUME NEW t \in Nat, NEW a \in Nat
               PROVE  /\ Desired(t, Desired(t, a)) = Desired(t, a)
                      /\ Action(t, a) = "SCALE_UP" =>
                             Desired(t, a) > Effective(a) \/ Desired(t, a) = MaxWorkers
                      /\ Action(t, a) = "SCALE_DOWN" =>
                             Desired(t, a) <= Effective(a) \/ Desired(t, a) = MinWorkers
    BY DEF AdviceInv, AdviceSettles
  <2> DEFINE e == Effective(a)
  <2>1. e \in Nat /\ e >= 1
    BY DEF Effective
  <2>2. Desired(t, Desired(t, a)) = Desired(t, a)
    BY RuleFits, FittingIsStable
  <2>3. ASSUME Action(t, a) = "SCALE_UP"
        PROVE  Desired(t, a) > e \/ Desired(t, a) = MaxWorkers
    <3> DEFINE c == Needed(t, ScaleUp)
    <3>1. ScalesUp(t, a)
      BY <2>3 DEF Action
    <3>2. c \in Nat /\ t <= Load(c, ScaleUp) /\ Load(e, ScaleUp) < t
      BY <3>1, NeededFits DEF ScalesUp
    <3>3. Desired(t, a) = Clamp(c)
      BY <3>1 DEF Desired, ScalesDown
    <3> HIDE DEF c, e
    <3>4. /\ Load(e, ScaleUp) \in Int /\ Load(c, ScaleUp) \in Int
          /\ Load(e, ScaleUp) < Load(c, ScaleUp) => e < c
      BY <2>1, <3>2, LoadOrder
    <3>5. e < c
      BY <3>2, <3>4
    <3> QED BY <2>1, <3>2, <3>3, <3>5, ScalingPolicyAssumption DEF Clamp
  <2>4. ASSUME Action(t, a) = "SCALE_DOWN"
        PROVE  Desired(t, a) <= e \/ Desired(t, a) = MinWorkers
    <3> DEFINE c == IF t > 0 THEN Needed(t, ScaleDown) ELSE 1
    <3>1. ScalesDown(t, a) /\ ~ScalesUp(t, a)
      BY <2>4 DEF Action, ScalesDown
    <3>2. Desired(t, a) = Clamp(c)
      BY <3>1 DEF Desired
    <3>3. c \in Nat /\ c <= e
      <4>1. CASE t = 0
        BY <2>1, <4>1
      <4>2. CASE t > 0
        <5> DEFINE n == Needed(t, ScaleDown)
        <5>1. n \in Nat /\ Load(n - 1, ScaleDown) < t /\ t < Load(e, ScaleDown)
          BY <3>1, NeededFits DEF ScalesDown
        <5> HIDE DEF n, e
        <5>2. n - 1 \in Int
          BY <5>1
        <5>3. /\ Load(n - 1, ScaleDown) \in Int /\ Load(e, ScaleDown) \in Int
              /\ Load(n - 1, ScaleDown) < Load(e, ScaleDown) => n - 1 < e
          BY <2>1, <5>2, LoadOrder
        <5>4. n <= e
          BY <2>1, <5>1, <5>3
        <5> QED BY <4>2, <5>1, <5>4 DEF n
      <4> QED BY <4>1, <4>2
    <3> HIDE DEF c, e
    <3> QED BY <2>1, <3>2, <3>3, ScalingPolicyAssumption DEF Clamp
  <2> QED BY <2>2, <2>3, <2>4
<1> QED BY <1>1, AdviceInvariant, PTL

-----------------------------------------------------------------------------
(***************************************************************************)
(* Why the count is consistent: while a request counts, a worker heard of  *)
(* all along is heard of now, and one heard of now has been glimpsed; so   *)
(* each read adds one to the count exactly when it may.                    *)
(***************************************************************************)
CountInv ==
    /\ active \in Nat
    /\ uncounted \subseteq Workers /\ steady \subseteq Workers /\ glimpsed \subseteq Workers
    /\ stage \in {"list", "horizon"} => active = 0 /\ steady = {}
    /\ stage = "count" =>
           \A w \in Workers : (w \in steady => Fresh(w)) /\ (Fresh(w) => w \in glimpsed)
    /\ CountIsConsistent

(* Sets of workers are finite, and a larger set has no fewer members.      *)
LEMMA WorkerSets ==
    ASSUME NEW S \in SUBSET Workers, NEW T \in SUBSET S
    PROVE  /\ IsFiniteSet(S) /\ IsFiniteSet(T)
           /\ Cardinality(S) \in Nat /\ Cardinality(T) \in Nat
           /\ Cardinality(T) <= Cardinality(S)
BY ScalingAssumption, FS_Subset, FS_CardinalityType

(* One worker less left out adds one member, or none.                      *)
LEMMA OneMoreCounted ==
    ASSUME NEW S \in SUBSET Workers, NEW U \in SUBSET Workers, NEW w \in U
    PROVE  Cardinality(S \ (U \ {w})) =
               IF w \in S THEN Cardinality(S \ U) + 1 ELSE Cardinality(S \ U)
<1>1. S \ (U \ {w}) = IF w \in S THEN (S \ U) \union {w} ELSE S \ U
  OBVIOUS
<1>2. IsFiniteSet(S \ U) /\ w \notin S \ U
  BY WorkerSets
<1>3. Cardinality((S \ U) \union {w}) = Cardinality(S \ U) + 1
  BY <1>2, FS_AddElement
<1> QED BY <1>1, <1>3

(* Nothing is counted yet: all is within bounds.                           *)
LEMMA NothingCounted ==
    ASSUME active' = 0, steady' \ uncounted' = {}, glimpsed' \subseteq Workers
    PROVE  CountIsConsistent'
<1>1. Cardinality(glimpsed' \ uncounted') \in Nat
  BY WorkerSets
<1>2. Cardinality(steady' \ uncounted') = 0
  BY FS_EmptySet
<1> QED BY <1>1, <1>2 DEF CountIsConsistent

LEMMA CountStep == TypeOK /\ CountInv /\ [ScalingNext]_scalingVars => CountInv'
<1> SUFFICES ASSUME members \subseteq Workers, CountInv, [ScalingNext]_scalingVars
             PROVE  CountInv'
  BY DEF TypeOK
<1>1. CASE ReadThroughput
  <2>1. /\ active' = 0 /\ uncounted' = {} /\ steady' = {} /\ glimpsed' = {}
        /\ stage' = "list"
    BY <1>1 DEF ReadThroughput
  <2>2. CountIsConsistent'
    BY <2>1, NothingCounted
  <2> QED BY <2>1, <2>2 DEF CountInv
<1>2. CASE ListMembers
  <2>1. /\ active = 0 /\ steady = {} /\ UNCHANGED <<active, steady, glimpsed>> /\ uncounted' = members
        /\ stage' \in {"idle", "horizon"}
    BY <1>2 DEF ListMembers, Recommend, CountInv
  <2>2. CountIsConsistent'
    BY <2>1, NothingCounted DEF CountInv
  <2> QED BY <2>1, <2>2 DEF CountInv
<1>3. CASE TakeHorizon
  <2>1. /\ active' = 0 /\ uncounted' = uncounted /\ stage' = "count"
        /\ steady' = {w \in uncounted : Fresh(w)'}
        /\ glimpsed' = {w \in Workers : Fresh(w)'}
    BY <1>3 DEF TakeHorizon, CountInv
  <2>2. steady' \ uncounted' = {} /\ steady' \subseteq Workers /\ glimpsed' \subseteq Workers
    BY <2>1 DEF CountInv
  <2>3. CountIsConsistent'
    BY <2>1, <2>2, NothingCounted
  <2>4. \A w \in Workers : (w \in steady' => Fresh(w)') /\ (Fresh(w)' => w \in glimpsed')
    BY <2>1
  <2> QED BY <2>1, <2>2, <2>3, <2>4 DEF CountInv
<1>4. ASSUME NEW w \in Workers, CountWorker(w)
      PROVE  CountInv'
  <2>1. /\ stage = "count" /\ w \in uncounted /\ uncounted' = uncounted \ {w}
        /\ active' = IF Fresh(w) THEN active + 1 ELSE active
        /\ UNCHANGED <<vars, horizon, steady, glimpsed>>
        /\ stage' \in {"idle", "count"}
    BY <1>4 DEF CountWorker, Recommend
  <2>2. (w \in steady => Fresh(w)) /\ (Fresh(w) => w \in glimpsed)
    BY <2>1 DEF CountInv
  <2>3. /\ Cardinality(steady \ uncounted') =
               IF w \in steady THEN Cardinality(steady \ uncounted) + 1
               ELSE Cardinality(steady \ uncounted)
        /\ Cardinality(glimpsed \ uncounted') =
               IF w \in glimpsed THEN Cardinality(glimpsed \ uncounted) + 1
               ELSE Cardinality(glimpsed \ uncounted)
    BY <2>1, OneMoreCounted DEF CountInv
  <2>4. Cardinality(steady \ uncounted) \in Nat /\ Cardinality(glimpsed \ uncounted) \in Nat
    BY WorkerSets DEF CountInv
  <2>5. /\ Cardinality(steady \ uncounted') <= active'
        /\ active' <= Cardinality(glimpsed \ uncounted')
    BY <2>1, <2>2, <2>3, <2>4 DEF CountInv, CountIsConsistent
  <2>6. CountIsConsistent'
    BY <2>1, <2>5 DEF CountIsConsistent
  <2>7. \A v \in Workers : (v \in steady => Fresh(v)) /\ (Fresh(v) => v \in glimpsed)
    BY <2>1 DEF CountInv
  <2>8. \A v \in Workers : Fresh(v)' <=> Fresh(v)
    BY <2>1 DEF Fresh, vars, hashVars
  <2> QED BY <2>1, <2>6, <2>7, <2>8 DEF CountInv
<1>5. CASE ScalingFails
  <2>1. /\ active' = 0 /\ uncounted' = {} /\ steady' = {} /\ glimpsed' = {}
        /\ stage' = "idle"
    BY <1>5 DEF ScalingFails
  <2>2. CountIsConsistent'
    BY <2>1, NothingCounted
  <2> QED BY <2>1, <2>2 DEF CountInv
<1>6. CASE ManagerStep /\ stage = "count"
  <2>1. /\ UNCHANGED readVars
        /\ steady' = {w \in steady : Fresh(w)'}
        /\ glimpsed' = glimpsed \union {w \in Workers : Fresh(w)'}
    BY <1>6 DEF ManagerStep
  <2>2. /\ steady' \ uncounted \in SUBSET (steady \ uncounted)
        /\ glimpsed \ uncounted \in SUBSET (glimpsed' \ uncounted)
        /\ steady \ uncounted \in SUBSET Workers /\ glimpsed' \ uncounted \in SUBSET Workers
    BY <2>1 DEF CountInv
  <2>3. /\ Cardinality(steady' \ uncounted) <= Cardinality(steady \ uncounted)
        /\ Cardinality(glimpsed \ uncounted) <= Cardinality(glimpsed' \ uncounted)
        /\ Cardinality(steady' \ uncounted) \in Nat /\ Cardinality(steady \ uncounted) \in Nat
        /\ Cardinality(glimpsed \ uncounted) \in Nat /\ Cardinality(glimpsed' \ uncounted) \in Nat
    BY <2>2, WorkerSets
  <2>4. /\ Cardinality(steady' \ uncounted) <= active
        /\ active <= Cardinality(glimpsed' \ uncounted)
    BY <2>3 DEF CountInv, CountIsConsistent
  <2>5. CountIsConsistent'
    BY <2>1, <2>4 DEF CountIsConsistent, readVars
  <2>6. steady' \subseteq Workers /\ glimpsed' \subseteq Workers
    BY <2>1 DEF CountInv
  <2>7. \A w \in Workers : (w \in steady' => Fresh(w)') /\ (Fresh(w)' => w \in glimpsed')
    BY <2>1
  <2> QED BY <2>1, <2>5, <2>6, <2>7 DEF CountInv, readVars
<1>7. CASE UNCHANGED <<readVars, steady, glimpsed>> /\ (stage # "count" \/ UNCHANGED vars)
  <2>1. CountIsConsistent'
    BY <1>7 DEF CountInv, CountIsConsistent, readVars
  <2> QED BY <1>7, <2>1 DEF CountInv, readVars, vars, hashVars, Fresh
<1>8. CASE ManagerStep /\ stage # "count"
  BY <1>7, <1>8 DEF ManagerStep
<1>9. CASE UNCHANGED scalingVars
  BY <1>7, <1>9 DEF scalingVars
<1> QED BY <1>1, <1>2, <1>3, <1>4, <1>5, <1>6, <1>8, <1>9 DEF ScalingNext

(***************************************************************************)
(* The service only reads: seen from the worker manager, each of its steps *)
(* changes nothing, so all that is proved of the registry holds here too.  *)
(***************************************************************************)
THEOREM ScalingImplementsRegistry == ScalingSpec => Spec
<1>1. ScalingInit => Init
  BY DEF ScalingInit
<1>2. [ScalingNext]_scalingVars => [Next]_vars
  BY DEF ScalingNext, scalingVars, ReadThroughput, ListMembers, TakeHorizon, CountWorker,
     ScalingFails, ManagerStep, Next
<1> QED BY <1>1, <1>2, PTL DEF ScalingSpec, Spec

LEMMA CountInvariant == ScalingSpec => []CountInv
<1>1. ScalingInit => CountInv
  <2> SUFFICES ASSUME ScalingInit PROVE CountInv
    OBVIOUS
  <2>1. active = 0 /\ steady = {} /\ glimpsed = {} /\ uncounted = {} /\ stage = "idle"
    BY DEF ScalingInit
  <2>2. Cardinality({}) = 0
    BY FS_EmptySet
  <2> QED BY <2>1, <2>2 DEF CountInv, CountIsConsistent
<1> QED BY <1>1, CountStep, ScalingImplementsRegistry, TypeCorrect, PTL DEF ScalingSpec

(***************************************************************************)
(* The active workers are counted consistently, however they come and go.  *)
(***************************************************************************)
THEOREM CountCorrect == ScalingSpec => []CountIsConsistent
<1>1. CountInv => CountIsConsistent
  BY DEF CountInv
<1> QED BY <1>1, CountInvariant, PTL

-----------------------------------------------------------------------------
(***************************************************************************)
(* What a request has in hand is in range: the count by CountIsConsistent, *)
(* which bounds it by the workers there are, and the answer by the rule.   *)
(***************************************************************************)
ScalingTypeInv ==
    /\ ScalingTypeOK
    /\ stage # "idle" => total \in Totals

LEMMA RecommendType ==
    ASSUME NEW n \in Nat, total \in Totals, Recommend(n)
    PROVE  advice' \in Advice /\ total' = 0 /\ stage' = "idle"
<1>1. Action(total, n) \in {"SCALE_UP", "SCALE_DOWN", "NO_ACTION"}
  BY DEF Action
<1>2. Desired(total, n) \in MinWorkers..MaxWorkers
  <2>1. total \in Nat
    BY ScalingAssumption
  <2> QED BY <2>1, DesiredIsClamped, RawFits, ClampRange
<1> QED BY <1>1, <1>2 DEF Recommend, Advice

\* The answer, the number of readings and the stage after a step.
LEMMA AnswerStep ==
    ASSUME ScalingTypeInv, [ScalingNext]_scalingVars
    PROVE  /\ advice' \in Advice \union {NoAdvice}
           /\ stage' \in {"idle", "list", "horizon", "count"}
           /\ total' \in Totals \union {0}
           /\ stage' # "idle" => total' \in Totals
<1> DEFINE Goal == /\ advice' \in Advice \union {NoAdvice}
                   /\ stage' \in {"idle", "list", "horizon", "count"}
                   /\ total' \in Totals \union {0}
                   /\ stage' # "idle" => total' \in Totals
<1>0. /\ advice \in Advice \union {NoAdvice}
      /\ stage \in {"idle", "list", "horizon", "count"}
      /\ total \in Totals \union {0}
      /\ stage # "idle" => total \in Totals
      /\ active \in Nat
  BY DEF ScalingTypeInv, ScalingTypeOK
<1>1. CASE ReadThroughput
  BY <1>1 DEF ReadThroughput
<1>2. CASE ListMembers
  <2>1. CASE members = {}
    BY <1>0, <1>2, <2>1, RecommendType DEF ListMembers
  <2>2. CASE members # {}
    BY <1>0, <1>2, <2>2 DEF ListMembers
  <2> QED BY <2>1, <2>2
<1>3. CASE TakeHorizon
  BY <1>0, <1>3 DEF TakeHorizon
<1>4. ASSUME NEW w \in Workers, CountWorker(w)
      PROVE  Goal
  <2>1. active' \in Nat
    BY <1>0, <1>4 DEF CountWorker
  <2>2. CASE uncounted' = {}
    BY <1>0, <1>4, <2>1, <2>2, RecommendType DEF CountWorker
  <2>3. CASE uncounted' # {}
    BY <1>0, <1>4, <2>3 DEF CountWorker
  <2> QED BY <2>2, <2>3
<1>5. CASE ScalingFails
  BY <1>0, <1>5 DEF ScalingFails
<1>6. CASE UNCHANGED readVars
  BY <1>0, <1>6 DEF readVars
<1> QED BY <1>1, <1>2, <1>3, <1>4, <1>5, <1>6 DEF ScalingNext, ManagerStep, scalingVars

LEMMA TimeGoesOn ==
    ASSUME TypeOK, ManagerStep
    PROVE  now' = now \/ now' = now + 1
BY DEF ManagerStep, Serve, AskRegister, CheckHealth, CheckRemove, Register, WriteHealth,
       Remove, GiveUp, Tick

LEMMA HorizonStays ==
    ASSUME NEW n \in Nat, NEW m \in Nat, NEW s \in Nat, n <= m, NEW h \in -s..(n - s)
    PROVE  h \in -s..(m - s)
OBVIOUS

\* The sets of workers and the horizon after a step.
LEMMA WorkersSeenStep ==
    ASSUME ScalingTypeInv, TypeOK, TypeOK', [ScalingNext]_scalingVars
    PROVE  /\ uncounted' \subseteq Workers
           /\ steady' \subseteq glimpsed' /\ glimpsed' \subseteq Workers
           /\ horizon' \in -StaleAfter..(now' - StaleAfter)
<1> DEFINE Goal == /\ uncounted' \subseteq Workers
                   /\ steady' \subseteq glimpsed' /\ glimpsed' \subseteq Workers
                   /\ horizon' \in -StaleAfter..(now' - StaleAfter)
<1>0. /\ members \subseteq Workers
      /\ now \in Nat /\ now' \in Nat /\ StaleAfter \in Nat
  BY WorkerRegistryAssumption DEF TypeOK
<1>1. /\ uncounted \subseteq Workers
      /\ steady \subseteq glimpsed /\ glimpsed \subseteq Workers
      /\ horizon \in -StaleAfter..(now - StaleAfter)
  BY DEF ScalingTypeInv, ScalingTypeOK
<1>2. UNCHANGED vars => now' = now
  BY DEF vars
<1>3. CASE ReadThroughput
  BY <1>1, <1>2, <1>3 DEF ReadThroughput
<1>4. CASE ListMembers
  BY <1>0, <1>1, <1>2, <1>4 DEF ListMembers
<1>5. CASE TakeHorizon
  <2>1. horizon' = now - StaleAfter /\ now' = now /\ uncounted' = uncounted
    BY <1>2, <1>5 DEF TakeHorizon
  <2>2. /\ steady' = {w \in uncounted : Fresh(w)'}
        /\ glimpsed' = {w \in Workers : Fresh(w)'}
    BY <1>5 DEF TakeHorizon
  <2> QED BY <1>0, <1>1, <2>1, <2>2
<1>6. ASSUME NEW w \in Workers, CountWorker(w)
      PROVE  Goal
  BY <1>1, <1>2, <1>6 DEF CountWorker
<1>7. CASE ScalingFails
  BY <1>1, <1>2, <1>7 DEF ScalingFails
<1>8. CASE ManagerStep
  <2>1. UNCHANGED <<uncounted, horizon>>
    BY <1>8 DEF ManagerStep, readVars
  <2>2. now <= now'
    <3>1. now' = now \/ now' = now + 1
      BY <1>8, TimeGoesOn
    <3> QED BY <1>0, <3>1
  <2>3. steady' \subseteq glimpsed' /\ glimpsed' \subseteq Workers
    <3>1. CASE stage = "count"
      BY <1>1, <1>8, <3>1 DEF ManagerStep
    <3>2. CASE stage # "count"
      BY <1>1, <1>8, <3>2 DEF ManagerStep
    <3> QED BY <3>1, <3>2
  <2>4. horizon' \in -StaleAfter..(now' - StaleAfter)
    <3>1. horizon' = horizon
      BY <2>1
    <3> QED BY <1>0, <1>1, <2>2, <3>1, HorizonStays
  <2> QED BY <1>1, <2>1, <2>3, <2>4
<1>9. CASE UNCHANGED scalingVars
  BY <1>1, <1>2, <1>9 DEF scalingVars, readVars
<1> QED BY <1>3, <1>4, <1>5, <1>6, <1>7, <1>8, <1>9 DEF ScalingNext

(***************************************************************************)
(* The service counts no more workers than there are and answers a number  *)
(* between MinWorkers and MaxWorkers, whatever happens between its reads.  *)
(***************************************************************************)
THEOREM ScalingTypeCorrect == ScalingSpec => []ScalingTypeOK
<1>1. CountInv' => active' \in 0..Cardinality(Workers)
  <2> SUFFICES ASSUME CountInv' PROVE active' \in 0..Cardinality(Workers)
    OBVIOUS
  <2>1. glimpsed' \ uncounted' \in SUBSET Workers
    BY DEF CountInv
  <2>2. /\ Cardinality(glimpsed' \ uncounted') \in Nat /\ Cardinality(Workers) \in Nat
        /\ Cardinality(glimpsed' \ uncounted') <= Cardinality(Workers)
    BY <2>1, WorkerSets
  <2> QED BY <2>2 DEF CountInv, CountIsConsistent
<1>2. ScalingInit => ScalingTypeInv
  <2> SUFFICES ASSUME ScalingInit PROVE ScalingTypeInv
    OBVIOUS
  <2>1. /\ stage = "idle" /\ total = 0 /\ uncounted = {} /\ active = 0
        /\ advice = NoAdvice /\ steady = {} /\ glimpsed = {}
    BY DEF ScalingInit
  <2>2. horizon = -StaleAfter /\ now = 0 /\ StaleAfter \in Nat
    BY WorkerRegistryAssumption DEF ScalingInit, Init
  <2>3. Cardinality(Workers) \in Nat
    BY WorkerSets
  <2> QED BY <2>1, <2>2, <2>3 DEF ScalingTypeInv, ScalingTypeOK
<1>3. ScalingTypeInv /\ TypeOK /\ TypeOK' /\ CountInv' /\ [ScalingNext]_scalingVars
          => ScalingTypeInv'
  <2> SUFFICES ASSUME ScalingTypeInv, TypeOK, TypeOK', CountInv', [ScalingNext]_scalingVars
               PROVE  ScalingTypeInv'
    OBVIOUS
  <2>1. active' \in 0..Cardinality(Workers)
    BY <1>1
  <2> QED BY <2>1, AnswerStep, WorkersSeenStep DEF ScalingTypeInv, ScalingTypeOK
<1>4. ScalingTypeInv => ScalingTypeOK
  BY DEF ScalingTypeInv
<1> QED BY <1>2, <1>3, <1>4, CountInvariant, ScalingImplementsRegistry, TypeCorrect, PTL DEF ScalingSpec
=============================================================================
