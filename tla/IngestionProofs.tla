--------------------------- MODULE IngestionProofs ---------------------------
(***************************************************************************)
(* Proofs about Ingestion, for any number of instances, request slots and  *)
(* messages, any batch size and stream bound, and any budget of faults:    *)
(* the types, the hot store it implements, what enters the stream and what *)
(* becomes of each entry, how many messages are taken for duplicates and   *)
(* reach no stream, and that it implements ConsumerGroup, each step being  *)
(* a step of that specification or a stutter.                              *)
(***************************************************************************)
EXTENDS Ingestion, HotStoreProofs, FiniteSetTheorems, SequenceTheorems

USE DEF Works, Fails, Goto, hotVars, dedupVars, groupVars, apiVars, streamVars,
        consumerVars

\* A step that leaves the variables of a part alone keeps its type.
LEMMA Frames ==
    /\ HotTypeOK /\ UNCHANGED hotVars => HotTypeOK'
    /\ ApiTypeOK /\ UNCHANGED apiVars => ApiTypeOK'
    /\ StreamTypeOK /\ UNCHANGED <<streamVars, groupVars>> => StreamTypeOK'
    /\ ConsumerTypeOK /\ UNCHANGED <<consumerVars, lastDelivered, rows, faults>>
          => ConsumerTypeOK'
BY DEF HotTypeOK, ApiTypeOK, StreamTypeOK, ConsumerTypeOK

LEMMA EntryReading ==
    ASSUME TypeOK, NEW i \in Entries
    PROVE  ReadingOf(i) \in Readings
BY IngestionAssumption DEF TypeOK, StreamTypeOK, Entries, ReadingOf

LEMMA CurrentEntry ==
    ASSUME TypeOK, NEW c \in Instances, NEW i \in Current(c)
    PROVE  /\ i \in batch[c]
           /\ i \in 1..lastDelivered
           /\ i \in Entries
BY DEF TypeOK, StreamTypeOK, ConsumerTypeOK, Current, Entries

\* XADD adds one entry, after those there are, and trims no further than
\* MaxLen allows.
LEMMA XAddEffect ==
    ASSUME TypeOK, NEW m \in MsgIds, XAdd(m)
    PROVE  /\ log' \in Seq(MsgIds)
           /\ Len(log') = Len(log) + 1
           /\ \A i \in Entries : log'[i] = log[i]
           /\ log'[Len(log')] = m
           /\ trimmed' \in trimmed..Len(log')
           /\ trimmed' = trimmed \/ trimmed' + MaxLen <= Len(log')
<1>1. log \in Seq(MsgIds) /\ Len(log) \in Nat /\ trimmed \in 0..Len(log)
  BY DEF TypeOK, StreamTypeOK
<1>2. /\ log' \in Seq(MsgIds)
      /\ Len(log') = Len(log) + 1
      /\ \A i \in Entries : log'[i] = log[i]
      /\ log'[Len(log')] = m
  BY <1>1, AppendProperties DEF XAdd, Entries
<1>3. /\ trimmed' \in trimmed..Len(log')
      /\ trimmed' = trimmed \/ trimmed' + MaxLen <= Len(log')
  BY <1>1, <1>2, IngestionAssumption DEF XAdd, Max0
<1> QED
  BY <1>2, <1>3

LEMMA CurrentUnique ==
    ASSUME TypeOK, NEW c \in Instances, NEW i \in Current(c), NEW j \in Current(c)
    PROVE  i = j
<1>1. i \in Nat /\ j \in Nat /\ i <= j /\ j <= i
  BY DEF Current, TypeOK, ConsumerTypeOK, StreamTypeOK
<1> QED
  BY <1>1

LEMMA AckedEntry ==
    ASSUME TypeOK, NEW i \in acked
    PROVE  i \in Entries
BY DEF TypeOK, StreamTypeOK, Entries

\* What XREADGROUP hands out.
LEMMA OldestEntries ==
    ASSUME TypeOK, NEW S, S \subseteq Undelivered, Deliver(S)
    PROVE  /\ lastDelivered' \in S
           /\ lastDelivered' \in (lastDelivered + 1)..Len(log)
           /\ S \subseteq 1..lastDelivered'
           /\ pel' = pel \union S
           /\ 1..lastDelivered \subseteq 1..lastDelivered'
BY DEF TypeOK, StreamTypeOK, Deliver, Undelivered, Entries

LEMMA OldestSubset ==
    ASSUME NEW S
    PROVE  Oldest(S) \subseteq S
BY DEF Oldest

\* An entry of the log never changes.
LEMMA LogGrows ==
    ASSUME TypeOK, [Next]_vars
    PROVE  /\ Entries \subseteq Entries'
           /\ \A i \in Entries : log'[i] = log[i]
<1>1. ASSUME NEW q \in Requests, Enqueue(q)
      PROVE  \/ UNCHANGED log
             \/ \E m \in MsgIds : XAdd(m)
  BY <1>1 DEF Enqueue, TypeOK, ApiTypeOK
<1>2. \/ UNCHANGED log
      \/ \E m \in MsgIds : XAdd(m)
  BY <1>1 DEF Next, Publish, Consume, CheckDuplicate, ExpireDedup, Start, EnsureGroup,
              ReadNew, RecoverPending, Persist, Archive, Ack, Crash, vars
<1>3. CASE UNCHANGED log
  BY <1>3 DEF Entries
<1>4. ASSUME NEW m \in MsgIds, XAdd(m)
      PROVE  /\ Entries \subseteq Entries'
             /\ \A i \in Entries : log'[i] = log[i]
  <2>1. Len(log') = Len(log) + 1 /\ \A i \in Entries : log'[i] = log[i]
    BY <1>4, XAddEffect
  <2>2. Len(log) \in Nat
    BY DEF TypeOK, StreamTypeOK
  <2> QED
    BY <2>1, <2>2 DEF Entries
<1> QED
  BY <1>2, <1>3, <1>4

-----------------------------------------------------------------------------
LEMMA InitType == Init => TypeOK
<1> SUFFICES ASSUME Init
             PROVE  TypeOK
  OBVIOUS
<1>1. HotTypeOK
  BY HotInitInv DEF HotInv, Init
<1>2. ApiTypeOK
  BY IngestionAssumption DEF ApiTypeOK, Init
<1>3. StreamTypeOK
  <2>1. log \in Seq(MsgIds) /\ Len(log) = 0
    BY EmptySeq DEF Init
  <2>2. trimmed = 0 /\ lastDelivered = 0 /\ pel = {} /\ acked = {}
    BY DEF Init
  <2>3. group \in BOOLEAN
    BY DEF Init
  <2>4. trimmed \in 0..Len(log) /\ lastDelivered \in 0..Len(log)
    BY <2>1, <2>2
  <2> QED
    BY <2>1, <2>2, <2>3, <2>4 DEF StreamTypeOK
<1>4. ConsumerTypeOK
  BY IngestionAssumption DEF ConsumerTypeOK, PCs, Init
<1> QED
  BY <1>1, <1>2, <1>3, <1>4 DEF TypeOK

LEMMA StepType == TypeOK /\ [Next]_vars => TypeOK'
<1> SUFFICES ASSUME TypeOK, [Next]_vars
             PROVE  TypeOK'
  OBVIOUS
<1> USE IngestionAssumption DEF TypeOK
<1>1. ASSUME NEW q \in Requests, NEW m \in MsgIds, CheckDuplicate(q, m)
      PROVE  TypeOK'
  <2>1. HotTypeOK' /\ StreamTypeOK'
    BY <1>1, Frames DEF CheckDuplicate
  <2>2. ApiTypeOK'
    BY <1>1 DEF ApiTypeOK, CheckDuplicate, Answer, Answers
  <2>3. ConsumerTypeOK'
    BY <1>1 DEF ConsumerTypeOK, CheckDuplicate
  <2> QED
    BY <2>1, <2>2, <2>3
<1>2. ASSUME NEW q \in Requests, Enqueue(q)
      PROVE  TypeOK'
  <2>1. HotTypeOK'
    BY <1>2, Frames DEF Enqueue
  <2>2. posting[q] \in MsgIds
    BY <1>2 DEF Enqueue, ApiTypeOK
  <2>3. ApiTypeOK'
    BY <1>2, <2>2 DEF ApiTypeOK, Enqueue, Answer, Answers
  <2>4. ConsumerTypeOK'
    BY <1>2 DEF ConsumerTypeOK, Enqueue
  <2>5. CASE XAdd(posting[q])
    <3>1. StreamTypeOK'
      BY <1>2, <2>2, <2>5, XAddEffect DEF StreamTypeOK, Enqueue
    <3> QED
      BY <2>1, <2>3, <2>4, <3>1
  <2>6. CASE UNCHANGED streamVars
    BY <1>2, <2>1, <2>3, <2>4, <2>6, Frames DEF Enqueue
  <2> QED
    BY <1>2, <2>5, <2>6 DEF Enqueue
<1>3. ASSUME NEW m \in MsgIds, ExpireDedup(m)
      PROVE  TypeOK'
  <2>1. HotTypeOK' /\ StreamTypeOK' /\ ConsumerTypeOK'
    BY <1>3, Frames DEF ExpireDedup
  <2>2. ApiTypeOK'
    BY <1>3 DEF ApiTypeOK, ExpireDedup
  <2> QED
    BY <2>1, <2>2
<1>4. ASSUME NEW c \in Instances, Start(c) \/ EnsureGroup(c) \/ Crash(c)
      PROVE  TypeOK'
  <2>1. HotTypeOK'
    BY <1>4, Frames DEF Start, EnsureGroup, Crash
  <2>2. ApiTypeOK'
    BY <1>4 DEF ApiTypeOK, Start, EnsureGroup, Crash
  <2>3. StreamTypeOK'
    BY <1>4 DEF StreamTypeOK, Start, EnsureGroup, Crash
  <2>4. ConsumerTypeOK'
    <3>1. lastDelivered' = lastDelivered /\ rows' = rows
      BY <1>4 DEF Start, EnsureGroup, Crash
    <3>2. pc' \in [Instances -> PCs]
      BY <1>4 DEF ConsumerTypeOK, Start, EnsureGroup, Crash, PCs
    <3>3. batch' \in [Instances -> SUBSET (1..lastDelivered)]
      BY <1>4 DEF ConsumerTypeOK, Start, EnsureGroup, Crash
    <3>4. faults' = faults \/ (faults < MaxFaults /\ faults' = faults + 1)
      BY <1>4 DEF Start, EnsureGroup, Crash
    <3>5. faults' \in 0..MaxFaults
      BY <3>4 DEF ConsumerTypeOK
    <3> QED
      BY <3>1, <3>2, <3>3, <3>5 DEF ConsumerTypeOK
  <2> QED
    BY <2>1, <2>2, <2>3, <2>4
<1>5. ASSUME NEW c \in Instances, ReadNew(c)
      PROVE  TypeOK'
  <2>1. HotTypeOK' /\ ApiTypeOK'
    BY <1>5, Frames DEF ReadNew
  <2> DEFINE S == Oldest(Undelivered)
  <2>2. S \subseteq Undelivered
    BY OldestSubset
  <2>3. CASE Deliver(S)
    <3>1. /\ lastDelivered' \in (lastDelivered + 1)..Len(log)
          /\ S \subseteq 1..lastDelivered'
          /\ pel' = pel \union S
          /\ 1..lastDelivered \subseteq 1..lastDelivered'
      BY <2>2, <2>3, OldestEntries
    <3> HIDE DEF S
    <3>2. StreamTypeOK'
      BY <1>5, <3>1 DEF StreamTypeOK, ReadNew
    <3>3. \/ batch' = batch /\ pc' = pc
          \/ batch' = [batch EXCEPT ![c] = S] /\ pc' = [pc EXCEPT ![c] = "persist"]
          \/ batch' = batch /\ pc' = [pc EXCEPT ![c] = "recover"]
      BY <1>5 DEF ReadNew, S
    <3>4. ConsumerTypeOK'
      <4>1. pc' \in [Instances -> PCs]
        BY <3>3 DEF ConsumerTypeOK, PCs
      <4>2. batch' \in [Instances -> SUBSET (1..lastDelivered')]
        BY <3>1, <3>3 DEF ConsumerTypeOK
      <4>3. rows' = rows /\ faults' \in 0..MaxFaults
        BY <1>5 DEF ReadNew, ConsumerTypeOK
      <4> QED
        BY <4>1, <4>2, <4>3 DEF ConsumerTypeOK
    <3> QED
      BY <2>1, <3>2, <3>4
  <2>4. CASE S = {} /\ UNCHANGED <<lastDelivered, pel>>
    <3>1. StreamTypeOK'
      BY <1>5, <2>4, Frames DEF ReadNew
    <3>2. ConsumerTypeOK'
      BY <1>5, <2>4 DEF ConsumerTypeOK, ReadNew, PCs
    <3> QED
      BY <2>1, <3>1, <3>2
  <2> QED
    BY <1>5, <2>3, <2>4 DEF ReadNew
<1>6. ASSUME NEW c \in Instances, RecoverPending(c)
      PROVE  TypeOK'
  <2>1. HotTypeOK' /\ ApiTypeOK' /\ StreamTypeOK'
    BY <1>6, Frames DEF RecoverPending
  <2>2. Oldest(pel) \subseteq 1..lastDelivered
    BY OldestSubset DEF StreamTypeOK
  <2>3. ConsumerTypeOK'
    BY <1>6, <2>2 DEF ConsumerTypeOK, RecoverPending, PCs
  <2> QED
    BY <2>1, <2>3
<1>7. ASSUME NEW c \in Instances, Persist(c)
      PROVE  TypeOK'
  <2>1. PICK i \in Current(c) : StoreReading(ReadingOf(i)) \/ UNCHANGED hotVars
    BY <1>7 DEF Persist
  <2>2. HotTypeOK'
    BY <2>1, Frames, StoreKeepsType, EntryReading, CurrentEntry
  <2>3. ApiTypeOK' /\ StreamTypeOK'
    BY <1>7, Frames DEF Persist
  <2>4. ConsumerTypeOK'
    BY <1>7 DEF ConsumerTypeOK, Persist, NextMessage, PCs
  <2> QED
    BY <2>2, <2>3, <2>4
<1>8. ASSUME NEW c \in Instances, Archive(c)
      PROVE  TypeOK'
  <2>1. HotTypeOK' /\ ApiTypeOK' /\ StreamTypeOK'
    BY <1>8, Frames DEF Archive
  <2>2. rows' \in [Readings -> Nat]
    BY <1>8 DEF ConsumerTypeOK, Archive, InsertRow
  <2>3. ConsumerTypeOK'
    BY <1>8, <2>2 DEF ConsumerTypeOK, Archive, NextMessage, PCs
  <2> QED
    BY <2>1, <2>3
<1>9. ASSUME NEW c \in Instances, Ack(c)
      PROVE  TypeOK'
  <2>1. HotTypeOK' /\ ApiTypeOK'
    BY <1>9, Frames DEF Ack
  <2>2. StreamTypeOK'
    BY <1>9, CurrentEntry DEF StreamTypeOK, Ack
  <2>3. ConsumerTypeOK'
    BY <1>9 DEF ConsumerTypeOK, Ack, NextMessage, PCs
  <2> QED
    BY <2>1, <2>2, <2>3
<1>10. CASE UNCHANGED vars
  BY <1>10, Frames DEF vars
<1> QED
  BY <1>1, <1>2, <1>3, <1>4, <1>5, <1>6, <1>7, <1>8, <1>9, <1>10
     DEF Next, Publish, Consume

(***************************************************************************)
(* Type correctness: delivered, pending and acknowledged entries are       *)
(* entries of the stream up to the group's position, and every history and *)
(* budget stays in range.                                                  *)
(***************************************************************************)
THEOREM TypeCorrect == Spec => []TypeOK
BY InitType, StepType, PTL DEF Spec

(***************************************************************************)
(* The service uses the hot store as HotStore says: nothing but the Lua    *)
(* script writes it, so EvictedOnlyByAge and LatestIsServed hold of the    *)
(* whole service.                                                          *)
(***************************************************************************)
THEOREM IngestionImplementsHotStore == Spec => HotSpec
<1>1. Init => HotInit
  BY DEF Init
<1>2. TypeOK /\ [Next]_vars => [HotNext]_hotVars
  <2> SUFFICES ASSUME TypeOK, [Next]_vars
               PROVE  [HotNext]_hotVars
    OBVIOUS
  <2>1. ASSUME NEW c \in Instances, Persist(c)
        PROVE  [HotNext]_hotVars
    BY <2>1, EntryReading, CurrentEntry DEF Persist, HotNext
  <2> QED
    BY <2>1 DEF Next, Publish, Consume, CheckDuplicate, Enqueue, ExpireDedup, Start,
       EnsureGroup, ReadNew, RecoverPending, Archive, Ack, Crash, vars
<1> QED
  BY <1>1, <1>2, TypeCorrect, PTL DEF Spec, HotSpec

(***************************************************************************)
(* In the whole service too, a reading leaves the hot store only for age,  *)
(* and every listed sensor has its latest reading served.                  *)
(***************************************************************************)
THEOREM ServedCorrect == Spec => [](EvictedOnlyByAge /\ LatestIsServed)
BY IngestionImplementsHotStore, EvictionCorrect, LatestCorrect, PTL

-----------------------------------------------------------------------------
(* Nothing is lost silently.                                               *)

AccountInv ==
    /\ \A m \in MsgIds : "ok" \in answered[m] => EntriesOf(m) # {}
    /\ trimmed = 0 \/ trimmed + MaxLen <= Len(log)
    /\ \A i \in 1..lastDelivered : i \in acked \union pel \/ i <= trimmed

\* XREADGROUP skips no entry that is still in the stream.
LEMMA OldestSkipsNothing ==
    ASSUME TypeOK, Deliver(Oldest(Undelivered)),
           NEW i \in (lastDelivered + 1)..lastDelivered', i > trimmed
    PROVE  i \in Oldest(Undelivered)
<1> DEFINE U == Undelivered
           Before(n) == {j \in U : j < n}
           k == lastDelivered'
<1>1. Len(log) \in Nat /\ lastDelivered \in Nat /\ trimmed \in Nat
  BY DEF TypeOK, StreamTypeOK
<1>2. U \subseteq 1..Len(log)
  BY DEF Undelivered, Entries
<1>3. k \in Oldest(U) /\ k \in 1..Len(log)
  BY <1>1, <1>2, OldestSubset DEF Deliver
<1>4. i \in U
  BY <1>1, <1>3 DEF Undelivered, Entries
<1>5. IsFiniteSet(Before(k))
  <2>1. IsFiniteSet(1..Len(log))
    BY <1>1, FS_Interval
  <2>2. Before(k) \subseteq 1..Len(log)
    BY <1>2
  <2> QED
    BY <2>1, <2>2, FS_Subset
<1>6. Before(i) \in SUBSET Before(k)
  <2>1. i \in Int /\ k \in Int /\ i <= k
    BY <1>1, <1>3
  <2>2. \A j \in U : j \in Int
    BY <1>2
  <2>3. \A j \in U : j < i => j < k
    BY <2>1, <2>2
  <2> QED
    BY <2>3
<1> HIDE DEF Before, U, k
<1>7. Cardinality(Before(i)) <= Cardinality(Before(k))
  BY <1>5, <1>6, FS_Subset
<1>8. Cardinality(Before(i)) \in Nat /\ Cardinality(Before(k)) \in Nat
  BY <1>5, <1>6, FS_Subset, FS_CardinalityType
<1>9. Cardinality(Before(k)) < BatchSize
  BY <1>3 DEF Oldest, Before
<1>10. Cardinality(Before(i)) < BatchSize
  BY <1>7, <1>8, <1>9, IngestionAssumption
<1> QED
  BY <1>4, <1>10 DEF Oldest, Before, U

LEMMA InitAccount == Init => AccountInv
<1> SUFFICES ASSUME Init
             PROVE  AccountInv
  OBVIOUS
<1>1. \A m \in MsgIds : answered[m] = {}
  BY DEF Init
<1>2. trimmed = 0 /\ lastDelivered = 0
  BY DEF Init
<1> QED
  BY <1>1, <1>2 DEF AccountInv

LEMMA StepAccount == TypeOK /\ TypeOK' /\ AccountInv /\ [Next]_vars => AccountInv'
<1> SUFFICES ASSUME TypeOK, TypeOK', AccountInv, [Next]_vars
             PROVE  AccountInv'
  OBVIOUS
<1>0. /\ Len(log) \in Nat /\ trimmed \in 0..Len(log) /\ lastDelivered \in 0..Len(log)
      /\ answered \in [MsgIds -> SUBSET Answers]
  BY DEF TypeOK, StreamTypeOK, ApiTypeOK
<1>1. ASSUME NEW q \in Requests, NEW m \in MsgIds, CheckDuplicate(q, m)
      PROVE  AccountInv'
  <2>1. \A n \in MsgIds : "ok" \in answered'[n] => "ok" \in answered[n]
    BY <1>0, <1>1 DEF CheckDuplicate, Answer
  <2> QED
    BY <1>1, <2>1 DEF AccountInv, CheckDuplicate, EntriesOf, Entries
<1>2. ASSUME NEW q \in Requests, Enqueue(q)
      PROVE  AccountInv'
  <2> DEFINE m == posting[q]
  <2>1. m \in MsgIds
    BY <1>2 DEF Enqueue, TypeOK, ApiTypeOK
  <2>2. UNCHANGED groupVars
    BY <1>2 DEF Enqueue
  <2>3. CASE XAdd(m)
    <3>1. /\ Len(log') = Len(log) + 1
          /\ \A i \in Entries : log'[i] = log[i]
          /\ log'[Len(log')] = m
          /\ trimmed' \in trimmed..Len(log')
          /\ trimmed' = trimmed \/ trimmed' + MaxLen <= Len(log')
      BY <2>1, <2>3, XAddEffect
    <3>2. \A n \in MsgIds : "ok" \in answered'[n] => "ok" \in answered[n] \/ n = m
      BY <1>0, <1>2, <2>1 DEF Enqueue, Answer
    <3>3. ASSUME NEW n \in MsgIds, "ok" \in answered'[n]
          PROVE  EntriesOf(n)' # {}
      <4>1. CASE n = m
        <5>1. Len(log') \in Entries'
          BY <1>0, <3>1 DEF Entries
        <5> QED
          BY <3>1, <4>1, <5>1 DEF EntriesOf
      <4>2. CASE "ok" \in answered[n]
        <5>1. PICK i \in Entries : log[i] = n
          BY <4>2 DEF AccountInv, EntriesOf
        <5>2. i \in Entries' /\ log'[i] = n
          BY <1>0, <3>1, <5>1 DEF Entries
        <5> QED
          BY <5>2 DEF EntriesOf
      <4> QED
        BY <3>2, <3>3, <4>1, <4>2
    <3>4. trimmed' = 0 \/ trimmed' + MaxLen <= Len(log')
      BY <1>0, <3>1, IngestionAssumption DEF AccountInv
    <3>5. \A i \in 1..lastDelivered' : i \in (acked \union pel)' \/ i <= trimmed'
      BY <1>0, <2>2, <3>1 DEF AccountInv
    <3> QED
      BY <3>3, <3>4, <3>5 DEF AccountInv
  <2>4. CASE UNCHANGED streamVars
    <3>1. answered' = answered \/ XAdd(m)
      BY <1>2 DEF Enqueue
    <3>2. CASE answered' = answered
      BY <2>2, <2>4, <3>2 DEF AccountInv, EntriesOf, Entries
    <3> QED
      BY <2>3, <3>1, <3>2
  <2> QED
    BY <1>2, <2>3, <2>4 DEF Enqueue
<1>3. ASSUME NEW c \in Instances, ReadNew(c)
      PROVE  AccountInv'
  <2>1. UNCHANGED <<log, trimmed, acked, answered>>
    BY <1>3 DEF ReadNew
  <2>2. CASE Deliver(Oldest(Undelivered))
    <3>1. /\ lastDelivered' \in (lastDelivered + 1)..Len(log)
          /\ pel' = pel \union Oldest(Undelivered)
      BY <2>2, OldestSubset, OldestEntries
    <3>2. ASSUME NEW i \in 1..lastDelivered'
          PROVE  i \in acked \union pel' \/ i <= trimmed
      <4>1. CASE i \in 1..lastDelivered
        BY <3>1, <4>1 DEF AccountInv
      <4>2. CASE i \in (lastDelivered + 1)..lastDelivered'
        BY <1>0, <2>2, <3>1, <4>2, OldestSkipsNothing
      <4> QED
        BY <1>0, <3>1, <4>1, <4>2
    <3> QED
      BY <2>1, <3>2 DEF AccountInv, EntriesOf, Entries
  <2>3. CASE UNCHANGED <<lastDelivered, pel>>
    BY <2>1, <2>3 DEF AccountInv, EntriesOf, Entries
  <2> QED
    BY <1>3, <2>2, <2>3 DEF ReadNew
<1>4. ASSUME NEW c \in Instances, Ack(c)
      PROVE  AccountInv'
  <2>1. UNCHANGED <<log, trimmed, lastDelivered, answered>>
    BY <1>4 DEF Ack
  <2>2. acked \union pel \subseteq acked' \union pel'
    BY <1>4 DEF Ack
  <2> QED
    BY <2>1, <2>2 DEF AccountInv, EntriesOf, Entries
<1>5. CASE UNCHANGED <<log, trimmed, lastDelivered, pel, acked, answered>>
  BY <1>5 DEF AccountInv, EntriesOf, Entries
<1>6. ASSUME NEW m \in MsgIds, ExpireDedup(m)
      PROVE  AccountInv'
  BY <1>5, <1>6 DEF ExpireDedup
<1>7. ASSUME NEW c \in Instances,
             Start(c) \/ EnsureGroup(c) \/ RecoverPending(c) \/ Persist(c) \/ Archive(c)
                      \/ Crash(c)
      PROVE  AccountInv'
  BY <1>5, <1>7 DEF Start, EnsureGroup, RecoverPending, Persist, Archive, Crash
<1>8. CASE UNCHANGED vars
  BY <1>5, <1>8 DEF vars
<1> QED
  BY <1>1, <1>2, <1>3, <1>4, <1>6, <1>7, <1>8 DEF Next, Publish, Consume

(***************************************************************************)
(* Every reading answered "ok" is in the stream, and every entry of the    *)
(* stream is acknowledged, pending, still to be delivered, or was trimmed  *)
(* with at least STREAM_MAX_LEN newer entries behind it.                   *)
(***************************************************************************)
THEOREM NothingLost == Spec => []NoSilentLoss
<1>1. TypeOK /\ AccountInv => NoSilentLoss
  <2> SUFFICES ASSUME TypeOK, AccountInv, NEW i \in Entries,
                      i \notin acked \union pel \union Undelivered
               PROVE  i + MaxLen <= Len(log)
    BY DEF NoSilentLoss, AccountInv
  <2>1. /\ Len(log) \in Nat /\ trimmed \in 0..Len(log) /\ lastDelivered \in 0..Len(log)
        /\ i \in 1..Len(log)
    BY DEF TypeOK, StreamTypeOK, Entries
  <2>2. i <= trimmed
    BY <2>1 DEF AccountInv, Undelivered
  <2> QED
    BY <2>1, <2>2, IngestionAssumption DEF AccountInv
<1> QED
  BY InitType, StepType, InitAccount, StepAccount, <1>1, PTL DEF Spec

-----------------------------------------------------------------------------
(* Deduplication.                                                          *)

Alive(m) == IF m \in dedup THEN 1 ELSE 0

\* Entries and requests of m: at most one per life of the key that is over,
\* and one more while the key is alive.
DedupInv ==
    \A m \in MsgIds :
        Cardinality(EntriesOf(m)) + Cardinality(InFlight(m)) <= expiries[m] + Alive(m)

LEMMA MessageSets ==
    ASSUME TypeOK, NEW m
    PROVE  /\ IsFiniteSet(EntriesOf(m)) /\ Cardinality(EntriesOf(m)) \in Nat
           /\ IsFiniteSet(InFlight(m)) /\ Cardinality(InFlight(m)) \in Nat
<1>1. IsFiniteSet(1..Len(log))
  BY FS_Interval DEF TypeOK, StreamTypeOK
<1>2. EntriesOf(m) \subseteq 1..Len(log) /\ InFlight(m) \subseteq Requests
  BY DEF EntriesOf, Entries, InFlight
<1> QED
  BY <1>1, <1>2, IngestionAssumption, FS_Subset, FS_CardinalityType

\* XADD of m adds an entry to m and to no other message.
LEMMA XAddCounts ==
    ASSUME TypeOK, TypeOK', NEW m \in MsgIds, XAdd(m), NEW n \in MsgIds
    PROVE  Cardinality(EntriesOf(n)') =
               Cardinality(EntriesOf(n)) + (IF n = m THEN 1 ELSE 0)
<1>1. /\ Len(log) \in Nat /\ Len(log') = Len(log) + 1
      /\ \A i \in Entries : log'[i] = log[i]
      /\ log'[Len(log')] = m
  BY XAddEffect DEF TypeOK, StreamTypeOK
<1>2. CASE n = m
  <2>1. EntriesOf(n)' = EntriesOf(n) \union {Len(log) + 1}
    BY <1>1, <1>2 DEF EntriesOf, Entries
  <2>2. Len(log) + 1 \notin EntriesOf(n)
    BY <1>1 DEF EntriesOf, Entries
  <2> QED
    BY <1>2, <2>1, <2>2, MessageSets, FS_AddElement
<1>3. CASE n # m
  <2>1. EntriesOf(n)' = EntriesOf(n)
    BY <1>1, <1>3 DEF EntriesOf, Entries
  <2> QED
    BY <1>3, <2>1, MessageSets
<1> QED
  BY <1>2, <1>3

\* What a step can do to the slots: one of them takes or leaves a message.
LEMMA SlotCounts ==
    ASSUME TypeOK, NEW q \in Requests, NEW x \in MsgIds \union {Idle},
           posting' = [posting EXCEPT ![q] = x], NEW n \in MsgIds
    PROVE  /\ posting[q] = Idle /\ x = n =>
                  Cardinality(InFlight(n)') = Cardinality(InFlight(n)) + 1
           /\ posting[q] = n /\ x = Idle =>
                  Cardinality(InFlight(n)') = Cardinality(InFlight(n)) - 1
           /\ posting[q] # n /\ x # n => InFlight(n)' = InFlight(n)
<1>1. posting \in [Requests -> MsgIds \union {Idle}] /\ n # Idle
  BY IngestionAssumption DEF TypeOK, ApiTypeOK
<1>2. ASSUME posting[q] = Idle, x = n
      PROVE  Cardinality(InFlight(n)') = Cardinality(InFlight(n)) + 1
  <2>1. InFlight(n)' = InFlight(n) \union {q} /\ q \notin InFlight(n)
    BY <1>1, <1>2 DEF InFlight
  <2> QED
    BY <2>1, MessageSets, FS_AddElement
<1>3. ASSUME posting[q] = n, x = Idle
      PROVE  Cardinality(InFlight(n)') = Cardinality(InFlight(n)) - 1
  <2>1. InFlight(n)' = InFlight(n) \ {q} /\ q \in InFlight(n)
    BY <1>1, <1>3 DEF InFlight
  <2> QED
    BY <2>1, MessageSets, FS_RemoveElement
<1>4. ASSUME posting[q] # n, x # n
      PROVE  InFlight(n)' = InFlight(n)
  BY <1>1, <1>4 DEF InFlight
<1> QED
  BY <1>2, <1>3, <1>4

\* Every command after the POST, and time, leave entries and keys alone and
\* put no message into a slot.
LEMMA SettledKeepsDedup ==
    ASSUME TypeOK, DedupInv, UNCHANGED <<log, dedup, expiries>>,
           \A m \in MsgIds : InFlight(m)' \subseteq InFlight(m)
    PROVE  DedupInv'
<1> SUFFICES ASSUME NEW m \in MsgIds
             PROVE  (Cardinality(EntriesOf(m)) + Cardinality(InFlight(m))
                        <= expiries[m] + Alive(m))'
  BY DEF DedupInv
<1>1. EntriesOf(m)' = EntriesOf(m) /\ Alive(m)' = Alive(m) /\ expiries'[m] = expiries[m]
  BY DEF EntriesOf, Entries, Alive
<1>2. Cardinality(InFlight(m)') \in Nat /\ Cardinality(InFlight(m)') <= Cardinality(InFlight(m))
  BY MessageSets, FS_Subset, FS_CardinalityType
<1>3. Cardinality(EntriesOf(m)) \in Nat /\ Cardinality(InFlight(m)) \in Nat
  BY MessageSets
<1>4. expiries[m] \in Nat /\ Alive(m) \in Nat
  BY IngestionAssumption DEF TypeOK, ApiTypeOK, Alive
<1> QED
  BY <1>1, <1>2, <1>3, <1>4 DEF DedupInv

LEMMA DedupStep == TypeOK /\ TypeOK' /\ DedupInv /\ [Next]_vars => DedupInv'
<1> SUFFICES ASSUME TypeOK, TypeOK', DedupInv, [Next]_vars
             PROVE  DedupInv'
  OBVIOUS
<1>1. ASSUME NEW n \in MsgIds
      PROVE  /\ Cardinality(EntriesOf(n)) \in Nat /\ Cardinality(InFlight(n)) \in Nat
             /\ expiries[n] \in Nat
             /\ Cardinality(EntriesOf(n)) + Cardinality(InFlight(n)) <= expiries[n] + Alive(n)
  BY MessageSets, IngestionAssumption DEF DedupInv, TypeOK, ApiTypeOK
<1>2. ASSUME NEW q \in Requests, NEW m \in MsgIds, CheckDuplicate(q, m)
      PROVE  DedupInv'
  <2>1. UNCHANGED <<log, expiries>> /\ posting[q] = Idle
    BY <1>2 DEF CheckDuplicate
  <2>2. CASE m \notin dedup /\ dedup' = dedup \union {m} /\ posting' = [posting EXCEPT ![q] = m]
    <3> SUFFICES ASSUME NEW n \in MsgIds
                 PROVE  (Cardinality(EntriesOf(n)) + Cardinality(InFlight(n))
                            <= expiries[n] + Alive(n))'
      BY DEF DedupInv
    <3>1. EntriesOf(n)' = EntriesOf(n)
      BY <2>1 DEF EntriesOf, Entries
    <3>2. CASE n = m
      <4>1. Cardinality(InFlight(n)') = Cardinality(InFlight(n)) + 1
        BY <2>1, <2>2, <3>2, SlotCounts
      <4>2. Alive(n) = 0 /\ Alive(n)' = 1
        BY <2>2, <3>2 DEF Alive
      <4> QED
        BY <1>1, <2>1, <3>1, <4>1, <4>2
    <3>3. CASE n # m
      <4>1. InFlight(n)' = InFlight(n)
        BY <2>1, <2>2, <3>3, SlotCounts, IngestionAssumption
      <4>2. Alive(n)' = Alive(n)
        BY <2>2, <3>3 DEF Alive
      <4> QED
        BY <1>1, <2>1, <3>1, <4>1, <4>2
    <3> QED
      BY <3>2, <3>3
  <2>3. CASE dedup' = dedup \union {m} /\ UNCHANGED posting
    <3> SUFFICES ASSUME NEW n \in MsgIds
                 PROVE  (Cardinality(EntriesOf(n)) + Cardinality(InFlight(n))
                            <= expiries[n] + Alive(n))'
      BY DEF DedupInv
    <3>1. EntriesOf(n)' = EntriesOf(n) /\ InFlight(n)' = InFlight(n)
      BY <2>1, <2>3 DEF EntriesOf, Entries, InFlight
    <3>2. Alive(n) \in Nat /\ Alive(n)' \in Nat /\ Alive(n) <= Alive(n)'
      BY <2>3 DEF Alive
    <3> QED
      BY <1>1, <2>1, <3>1, <3>2
  <2>4. CASE UNCHANGED <<dedup, posting>>
    BY <2>1, <2>4, SettledKeepsDedup DEF InFlight
  <2> QED
    BY <1>2, <2>2, <2>3, <2>4 DEF CheckDuplicate
<1>3. ASSUME NEW q \in Requests, Enqueue(q)
      PROVE  DedupInv'
  <2>1. /\ posting[q] \in MsgIds
        /\ posting' = [posting EXCEPT ![q] = Idle]
        /\ UNCHANGED <<dedup, expiries>>
        /\ XAdd(posting[q]) \/ UNCHANGED log
    BY <1>3 DEF Enqueue, TypeOK, ApiTypeOK
  <2> SUFFICES ASSUME NEW n \in MsgIds
               PROVE  (Cardinality(EntriesOf(n)) + Cardinality(InFlight(n))
                          <= expiries[n] + Alive(n))'
    BY DEF DedupInv
  <2>2. /\ Cardinality(EntriesOf(n)') \in Nat
        /\ Cardinality(EntriesOf(n)') <=
               Cardinality(EntriesOf(n)) + (IF n = posting[q] THEN 1 ELSE 0)
    <3>1. CASE XAdd(posting[q])
      BY <1>1, <2>1, <3>1, XAddCounts
    <3>2. CASE UNCHANGED log
      BY <1>1, <3>2 DEF EntriesOf, Entries
    <3> QED
      BY <2>1, <3>1, <3>2
  <2>3. Cardinality(InFlight(n)') =
            Cardinality(InFlight(n)) - (IF n = posting[q] THEN 1 ELSE 0)
    <3>1. n # Idle
      BY IngestionAssumption
    <3>2. CASE n = posting[q]
      BY <2>1, <3>2, SlotCounts
    <3>3. CASE n # posting[q]
      <4>1. InFlight(n)' = InFlight(n)
        BY <2>1, <3>1, <3>3, SlotCounts
      <4> QED
        BY <1>1, <3>3, <4>1
    <3> QED
      BY <3>2, <3>3
  <2>4. Alive(n)' = Alive(n) /\ Alive(n) \in Nat
    BY <2>1 DEF Alive
  <2> QED
    BY <1>1, <2>1, <2>2, <2>3, <2>4
<1>4. ASSUME NEW m \in MsgIds, ExpireDedup(m)
      PROVE  DedupInv'
  <2> SUFFICES ASSUME NEW n \in MsgIds
               PROVE  (Cardinality(EntriesOf(n)) + Cardinality(InFlight(n))
                          <= expiries[n] + Alive(n))'
    BY DEF DedupInv
  <2>1. EntriesOf(n)' = EntriesOf(n) /\ InFlight(n)' = InFlight(n)
    BY <1>4 DEF ExpireDedup, EntriesOf, Entries, InFlight
  <2>2. expiries'[n] + Alive(n)' = expiries[n] + Alive(n)
    <3>1. expiries \in [MsgIds -> Nat]
      BY IngestionAssumption DEF TypeOK, ApiTypeOK
    <3> QED
      BY <1>4, <3>1 DEF ExpireDedup, Alive
  <2> QED
    BY <1>1, <2>1, <2>2
<1>5. ASSUME NEW c \in Instances, Consume(c) \/ Crash(c)
      PROVE  DedupInv'
  <2>1. UNCHANGED <<log, dedup, expiries>>
    BY <1>5 DEF Consume, Start, EnsureGroup, ReadNew, RecoverPending, Persist, Archive, Ack, Crash
  <2>2. \/ UNCHANGED posting
        \/ posting' = [q \in Requests |-> IF Host[q] = c THEN Idle ELSE posting[q]]
    BY <1>5 DEF Consume, Start, EnsureGroup, ReadNew, RecoverPending, Persist, Archive, Ack, Crash
  <2>3. \A m \in MsgIds : InFlight(m)' \subseteq InFlight(m)
    BY <2>2, IngestionAssumption DEF InFlight
  <2> QED
    BY <2>1, <2>3, SettledKeepsDedup
<1>6. UNCHANGED vars => DedupInv'
  BY SettledKeepsDedup DEF vars, InFlight
<1> QED
  BY <1>2, <1>3, <1>4, <1>5, <1>6 DEF Next, Publish

(***************************************************************************)
(* A message id enters the stream at most once per life of its key, for    *)
(* any number of concurrent and retried requests, lost answers and crashes.*)
(***************************************************************************)
THEOREM DeduplicationCorrect == Spec => []OncePerKeyLife
<1>1. Init => DedupInv
  <2> SUFFICES ASSUME Init, NEW m \in MsgIds
               PROVE  Cardinality(EntriesOf(m)) + Cardinality(InFlight(m))
                          <= expiries[m] + Alive(m)
    BY DEF DedupInv
  <2>1. EntriesOf(m) = {} /\ InFlight(m) = {}
    BY IngestionAssumption DEF Init, EntriesOf, Entries, InFlight
  <2>2. expiries[m] = 0 /\ Alive(m) = 0
    BY DEF Init, Alive
  <2> QED
    BY <2>1, <2>2, FS_EmptySet
<1>2. TypeOK /\ DedupInv => OncePerKeyLife
  <2> SUFFICES ASSUME TypeOK, DedupInv, NEW m \in MsgIds
               PROVE  Cardinality(EntriesOf(m)) + Cardinality(InFlight(m)) <= expiries[m] + 1
    BY DEF OncePerKeyLife
  <2>1. Cardinality(EntriesOf(m)) \in Nat /\ Cardinality(InFlight(m)) \in Nat
    BY MessageSets
  <2>2. expiries[m] \in Nat /\ Alive(m) \in 0..1
    BY IngestionAssumption DEF TypeOK, ApiTypeOK, Alive
  <2> QED
    BY <2>1, <2>2 DEF DedupInv
<1> QED
  BY <1>1, <1>2, TypeCorrect, DedupStep, PTL DEF Spec

-----------------------------------------------------------------------------
(* Keys without a message.                                                 *)

\* Messages whose key was set while none was put, or is being put, on the
\* stream: what the next POST of one is answered is a "duplicate".
Unsent ==
    {m \in MsgIds :
        /\ m \in dedup \/ "duplicate" \in answered[m]
        /\ EntriesOf(m) = {} /\ InFlight(m) = {}}

UnsentInv == Cardinality(Unsent) <= Cardinality(Requests) * faults

LEMMA UnsentFinite ==
    /\ IsFiniteSet(Unsent) /\ Cardinality(Unsent) \in Nat
    /\ IsFiniteSet(Unsent') /\ Cardinality(Unsent') \in Nat
<1>1. Unsent \subseteq MsgIds /\ Unsent' \subseteq MsgIds
  BY DEF Unsent
<1> QED
  BY <1>1, IngestionAssumption, FS_Subset, FS_CardinalityType

\* A step without a fault leaves no key without its message.
LEMMA UnsentSame ==
    ASSUME TypeOK, UnsentInv, Unsent' \subseteq Unsent, faults' = faults
    PROVE  UnsentInv'
<1>1. Cardinality(Unsent') <= Cardinality(Unsent)
  BY UnsentFinite, FS_Subset
<1>2. Cardinality(Requests) * faults \in Nat
  <2>1. Cardinality(Requests) \in Nat /\ faults \in Nat
    BY IngestionAssumption, FS_CardinalityType DEF TypeOK, ConsumerTypeOK
  <2> QED
    BY <2>1
<1>3. Cardinality(Unsent') <= Cardinality(Requests) * faults
  BY <1>1, <1>2, UnsentFinite DEF UnsentInv
<1> QED
  BY <1>3 DEF UnsentInv

\* A fault leaves at most one for each request.
LEMMA UnsentMore ==
    ASSUME TypeOK, UnsentInv, faults' = faults + 1,
           NEW f, Unsent' \subseteq Unsent \union {f[q] : q \in Requests}
    PROVE  UnsentInv'
<1> DEFINE S == {f[q] : q \in Requests}
           R == Cardinality(Requests)
<1>1. R \in Nat /\ faults \in Nat
  BY IngestionAssumption, FS_CardinalityType DEF TypeOK, ConsumerTypeOK
<1>2. IsFiniteSet(S) /\ Cardinality(S) <= R /\ Cardinality(S) \in Nat
  <2> DEFINE g == [q \in Requests |-> f[q]]
  <2>1. S = {g[q] : q \in Requests}
    OBVIOUS
  <2>2. g \in Surjection(Requests, S)
    BY DEF Surjection
  <2> HIDE DEF g, S
  <2>3. IsFiniteSet(S) /\ Cardinality(S) <= Cardinality(Requests)
    BY <2>2, IngestionAssumption, FS_Surjection
  <2> QED
    BY <2>3, FS_CardinalityType
<1> HIDE DEF S
<1>3. /\ IsFiniteSet(Unsent \union S) /\ Cardinality(Unsent \union S) \in Nat
      /\ Cardinality(Unsent \union S) <= Cardinality(Unsent) + Cardinality(S)
  <2>1. /\ IsFiniteSet(Unsent \union S) /\ IsFiniteSet(Unsent \intersect S)
        /\ Cardinality(Unsent \union S) =
             Cardinality(Unsent) + Cardinality(S) - Cardinality(Unsent \intersect S)
    BY <1>2, UnsentFinite, FS_Union, FS_Intersection
  <2>2. Cardinality(Unsent \union S) \in Nat /\ Cardinality(Unsent \intersect S) \in Nat
    BY <2>1, FS_CardinalityType
  <2> QED
    BY <1>2, <2>1, <2>2, UnsentFinite
<1>4. Cardinality(Unsent') <= Cardinality(Unsent \union S)
  <2>1. Unsent' \in SUBSET (Unsent \union S)
    BY DEF S
  <2> QED
    BY <1>3, <2>1, FS_Subset
<1>5. Cardinality(Unsent) <= R * faults
  BY DEF UnsentInv
<1> HIDE DEF R
<1>6. R * (faults + 1) = R * faults + R /\ R * faults \in Nat
  BY <1>1
<1>7. Cardinality(Unsent') <= R * (faults + 1)
  BY <1>1, <1>2, <1>3, <1>4, <1>5, <1>6, UnsentFinite
<1> QED
  BY <1>7 DEF UnsentInv, R

LEMMA UnsentStep == TypeOK /\ TypeOK' /\ UnsentInv /\ [Next]_vars => UnsentInv'
<1> SUFFICES ASSUME TypeOK, TypeOK', UnsentInv, [Next]_vars
             PROVE  UnsentInv'
  OBVIOUS
<1>1. /\ posting \in [Requests -> MsgIds \union {Idle}] /\ Idle \notin MsgIds
      /\ answered \in [MsgIds -> SUBSET Answers]
  BY IngestionAssumption DEF TypeOK, ApiTypeOK
<1>2. \A n \in MsgIds : EntriesOf(n)' = {} => EntriesOf(n) = {}
  BY LogGrows DEF EntriesOf
<1>3. ASSUME NEW q \in Requests, NEW m \in MsgIds, CheckDuplicate(q, m)
      PROVE  UnsentInv'
  <2>1. /\ posting[q] = Idle
        /\ \A n \in MsgIds : "duplicate" \in answered'[n] => "duplicate" \in answered[n] \/ m \in dedup
        /\ \A n \in MsgIds \ {m} : answered'[n] = answered[n]
        /\ dedup' \subseteq dedup \union {m}
    BY <1>1, <1>3 DEF CheckDuplicate, Answer
  <2>2. ASSUME NEW n \in MsgIds \ {m}, n \in Unsent'
        PROVE  n \in Unsent
    <3>1. posting' = posting \/ posting' = [posting EXCEPT ![q] = m]
      BY <1>3 DEF CheckDuplicate
    <3>2. InFlight(n)' = InFlight(n)
      BY <1>1, <2>1, <3>1 DEF InFlight
    <3> QED
      BY <1>2, <2>1, <2>2, <3>2 DEF Unsent
  <2>3. CASE m \notin dedup /\ posting' = [posting EXCEPT ![q] = m] /\ faults' = faults
    <3>1. q \in InFlight(m)'
      BY <1>1, <2>3 DEF InFlight
    <3>2. m \notin Unsent'
      BY <3>1 DEF Unsent
    <3>3. Unsent' \subseteq Unsent
      BY <2>2, <3>2 DEF Unsent
    <3> QED
      BY <2>3, <3>3, UnsentSame
  <2>4. CASE faults' = faults + 1
    <3>1. PICK f : f = [p \in Requests |-> m]
      OBVIOUS
    <3>2. m \in {f[p] : p \in Requests}
      <4>1. f[q] = m
        BY <3>1
      <4> QED
        BY <4>1
    <3>3. Unsent' \subseteq Unsent \union {f[p] : p \in Requests}
      BY <2>2, <3>2 DEF Unsent
    <3> QED
      BY <2>4, <3>3, UnsentMore
  <2>5. CASE m \in dedup /\ UNCHANGED <<dedup, posting, faults>>
    <3>1. m \in Unsent' => m \in Unsent
      BY <1>2, <2>5 DEF Unsent, InFlight
    <3>2. Unsent' \subseteq Unsent
      BY <2>2, <3>1 DEF Unsent
    <3> QED
      BY <2>5, <3>2, UnsentSame
  <2> QED
    BY <1>3, <2>3, <2>4, <2>5 DEF CheckDuplicate
<1>4. ASSUME NEW q \in Requests, Enqueue(q)
      PROVE  UnsentInv'
  <2>1. /\ posting[q] \in MsgIds /\ posting' = [posting EXCEPT ![q] = Idle]
        /\ UNCHANGED dedup
        /\ \A n \in MsgIds : "duplicate" \in answered'[n] => "duplicate" \in answered[n]
        /\ \/ XAdd(posting[q]) /\ faults' \in {faults, faults + 1}
           \/ faults' = faults + 1
    BY <1>1, <1>4 DEF Enqueue, Answer
  <2>2. ASSUME NEW n \in MsgIds, n # posting[q], n \in Unsent'
        PROVE  n \in Unsent
    <3>1. InFlight(n)' = InFlight(n)
      BY <1>1, <2>1, <2>2 DEF InFlight
    <3> QED
      BY <1>2, <2>1, <2>2, <3>1 DEF Unsent
  <2>3. CASE XAdd(posting[q]) /\ faults' = faults
    <3>1. PICK m \in MsgIds : m = posting[q]
      BY <2>1
    <3>2. m \notin Unsent'
      <4>1. /\ Len(log') = Len(log) + 1 /\ log'[Len(log')] = m /\ Len(log) \in Nat
        BY <2>1, <2>3, <3>1, XAddEffect DEF TypeOK, StreamTypeOK
      <4>2. Len(log') \in Entries'
        BY <4>1 DEF Entries
      <4>3. Len(log') \in EntriesOf(m)'
        BY <4>1, <4>2 DEF EntriesOf
      <4> QED
        BY <4>3 DEF Unsent
    <3>3. Unsent' \subseteq Unsent
      BY <2>2, <3>1, <3>2 DEF Unsent
    <3> QED
      BY <2>3, <3>3, UnsentSame
  <2>4. CASE faults' = faults + 1
    <3>1. Unsent' \subseteq Unsent \union {posting[p] : p \in Requests}
      BY <2>2 DEF Unsent
    <3> QED
      BY <2>4, <3>1, UnsentMore
  <2> QED
    BY <2>1, <2>3, <2>4
<1>5. ASSUME NEW m \in MsgIds, ExpireDedup(m)
      PROVE  UnsentInv'
  <2>1. Unsent' \subseteq Unsent
    BY <1>2, <1>5 DEF ExpireDedup, Unsent, InFlight
  <2> QED
    BY <1>5, <2>1, UnsentSame DEF ExpireDedup
<1>6. ASSUME NEW c \in Instances, Crash(c)
      PROVE  UnsentInv'
  <2>1. /\ UNCHANGED <<dedup, answered>> /\ faults' = faults + 1
        /\ posting' = [q \in Requests |-> IF Host[q] = c THEN Idle ELSE posting[q]]
    BY <1>6 DEF Crash
  <2>2. ASSUME NEW n \in Unsent', n \notin Unsent
        PROVE  n \in {posting[p] : p \in Requests}
    <3>1. n \in MsgIds /\ EntriesOf(n) = {}
      BY <1>2, <2>2 DEF Unsent
    <3>2. InFlight(n) # {}
      BY <2>1, <2>2, <3>1 DEF Unsent
    <3> QED
      BY <3>2 DEF InFlight
  <2>3. Unsent' \subseteq Unsent \union {posting[p] : p \in Requests}
    BY <2>2
  <2> QED
    BY <2>1, <2>3, UnsentMore
<1>7. CASE UNCHANGED apiVars
  <2>1. Unsent' \subseteq Unsent
    BY <1>2, <1>7 DEF Unsent, InFlight
  <2>2. faults' = faults \/ faults' = faults + 1
    BY DEF Next, Publish, Consume, CheckDuplicate, Enqueue, ExpireDedup, Start, EnsureGroup,
           ReadNew, RecoverPending, Persist, Archive, Ack, Crash, vars
  <2>3. Unsent' \subseteq Unsent \union {posting[p] : p \in Requests}
    BY <2>1
  <2> QED
    BY <2>1, <2>2, <2>3, UnsentSame, UnsentMore
<1>8. \/ UNCHANGED apiVars \/ Publish
      \/ \E m \in MsgIds : ExpireDedup(m)
      \/ \E c \in Instances : Crash(c)
  BY DEF Next, Consume, Start, EnsureGroup, ReadNew, RecoverPending, Persist, Archive, Ack, vars
<1> QED
  BY <1>3, <1>4, <1>5, <1>6, <1>7, <1>8 DEF Publish

(***************************************************************************)
(* A POST is answered "duplicate" for a message that never entered the     *)
(* stream only after a fault, and a fault does that to at most one message *)
(* for each request: no interleaving of POSTs and expiries does it.        *)
(***************************************************************************)
THEOREM DuplicatesCorrect == Spec => []DuplicatesNeedFaults
<1>1. Init => UnsentInv
  <2> SUFFICES ASSUME Init
               PROVE  UnsentInv
    OBVIOUS
  <2>1. Unsent = {} /\ faults = 0
    BY DEF Init, Unsent
  <2>2. Cardinality(Requests) * 0 = 0
    <3>1. Cardinality(Requests) \in Nat
      BY IngestionAssumption, FS_CardinalityType
    <3> QED
      BY <3>1
  <2> QED
    BY <2>1, <2>2, FS_EmptySet DEF UnsentInv
<1>2. TypeOK /\ UnsentInv => DuplicatesNeedFaults
  <2> SUFFICES ASSUME TypeOK, UnsentInv
               PROVE  DuplicatesNeedFaults
    OBVIOUS
  <2>1. Unheard \in SUBSET Unsent
    BY DEF Unheard, Unsent
  <2>2. Cardinality(Unheard) \in Nat /\ Cardinality(Unheard) <= Cardinality(Unsent)
    BY <2>1, UnsentFinite, FS_Subset, FS_CardinalityType
  <2>3. Cardinality(Requests) * faults \in Nat
    <3>1. Cardinality(Requests) \in Nat /\ faults \in Nat
      BY IngestionAssumption, FS_CardinalityType DEF TypeOK, ConsumerTypeOK
    <3> QED
      BY <3>1
  <2> QED
    BY <2>2, <2>3, UnsentFinite DEF UnsentInv, DuplicatesNeedFaults
<1> QED
  BY <1>1, <1>2, UnsentStep, TypeCorrect, PTL DEF Spec

-----------------------------------------------------------------------------
(* The log never outgrows the numbers that the abstract entries have.      *)

Lives == 0..MaxExpiries

MaxEntry == Cardinality(MsgIds) * (MaxExpiries + 1)

\* The entries of a message id before the i-th entry of the log.
Earlier(i) == {j \in EntriesOf(log[i]) : j < i}

LEMMA EarlierCount ==
    ASSUME TypeOK, OncePerKeyLife, NEW i \in Entries
    PROVE  /\ log[i] \in MsgIds
           /\ IsFiniteSet(Earlier(i))
           /\ Cardinality(Earlier(i)) \in Lives
<1>1. log[i] \in MsgIds
  BY DEF TypeOK, StreamTypeOK, Entries
<1> DEFINE S == EntriesOf(log[i])
<1>2. IsFiniteSet(S) /\ Cardinality(S) \in Nat /\ Cardinality(InFlight(log[i])) \in Nat
  BY MessageSets
<1>3. Cardinality(S) <= MaxExpiries + 1
  <2>1. expiries[log[i]] \in 0..MaxExpiries
    BY <1>1 DEF TypeOK, ApiTypeOK
  <2>2. Cardinality(S) + Cardinality(InFlight(log[i])) <= expiries[log[i]] + 1
    BY <1>1 DEF OncePerKeyLife
  <2> QED
    BY <1>2, <2>1, <2>2, IngestionAssumption
<1>4. i \in S /\ i \in Nat /\ Earlier(i) \in SUBSET (S \ {i})
  BY DEF Earlier, EntriesOf, Entries
<1>5. IsFiniteSet(S \ {i}) /\ Cardinality(S \ {i}) = Cardinality(S) - 1
  BY <1>2, <1>4, FS_RemoveElement
<1>6. IsFiniteSet(Earlier(i)) /\ Cardinality(Earlier(i)) <= Cardinality(S \ {i})
  BY <1>4, <1>5, FS_Subset
<1>7. Cardinality(Earlier(i)) \in Nat
  BY <1>6, FS_CardinalityType
<1> QED
  BY <1>1, <1>2, <1>3, <1>5, <1>6, <1>7, IngestionAssumption DEF Lives

\* Of two entries of a message id, the later one has more entries before it.
LEMMA EarlierGrows ==
    ASSUME TypeOK, OncePerKeyLife, NEW i \in Entries, NEW j \in Entries,
           log[i] = log[j], i < j
    PROVE  Cardinality(Earlier(i)) < Cardinality(Earlier(j))
<1>1. i \in Nat /\ j \in Nat
  BY DEF Entries
<1>2. i \in Earlier(j) /\ i \notin Earlier(i)
  BY <1>1 DEF Earlier, EntriesOf
<1>3. Earlier(i) \in SUBSET Earlier(j)
  BY <1>1 DEF Earlier, EntriesOf, Entries
<1>4. /\ IsFiniteSet(Earlier(j)) /\ Cardinality(Earlier(j)) \in Nat
      /\ Cardinality(Earlier(i)) \in Nat
  BY EarlierCount, IngestionAssumption DEF Lives
<1>5. /\ Cardinality(Earlier(i)) <= Cardinality(Earlier(j))
      /\ Cardinality(Earlier(j)) = Cardinality(Earlier(i)) => Earlier(j) = Earlier(i)
  BY <1>3, <1>4, FS_Subset
<1> QED
  BY <1>2, <1>4, <1>5

\* So an entry is known by its message id and the number of those before it.
LEMMA LogBound ==
    ASSUME TypeOK, OncePerKeyLife
    PROVE  Len(log) <= MaxEntry /\ MaxEntry \in Nat
<1> DEFINE f == [i \in Entries |-> <<log[i], Cardinality(Earlier(i))>>]
<1>1. f \in [Entries -> MsgIds \X Lives]
  BY EarlierCount
<1>2. ASSUME NEW i \in Entries, NEW j \in Entries, f[i] = f[j]
      PROVE  i = j
  <2>1. log[i] = log[j] /\ Cardinality(Earlier(i)) = Cardinality(Earlier(j))
    BY <1>2
  <2>2. i \in Nat /\ j \in Nat
    BY DEF Entries
  <2>3. Cardinality(Earlier(i)) \in Nat
    BY EarlierCount, IngestionAssumption DEF Lives
  <2>4. ~ (i < j)
    BY <2>1, <2>3, EarlierGrows
  <2>5. ~ (j < i)
    BY <2>1, <2>3, EarlierGrows
  <2> QED
    BY <2>2, <2>4, <2>5
<1>3. f \in Injection(Entries, MsgIds \X Lives)
  BY <1>1, <1>2 DEF Injection, IsInjective
<1>4. IsFiniteSet(Lives) /\ Cardinality(Lives) = MaxExpiries + 1
  BY FS_Interval, IngestionAssumption DEF Lives
<1>5. IsFiniteSet(MsgIds \X Lives) /\ Cardinality(MsgIds \X Lives) = MaxEntry
  <2>1. IsFiniteSet(MsgIds)
    BY IngestionAssumption
  <2>2. /\ IsFiniteSet(MsgIds \X Lives)
        /\ Cardinality(MsgIds \X Lives) = Cardinality(MsgIds) * Cardinality(Lives)
    BY <1>4, <2>1, FS_Product
  <2> QED
    BY <1>4, <2>2, Zenon DEF MaxEntry
<1>6. Cardinality(Entries) <= MaxEntry
  BY <1>3, <1>5, FS_Injection
<1>7. Len(log) \in Nat
  BY DEF TypeOK, StreamTypeOK
<1>8. Cardinality(1..Len(log)) = Len(log)
  <2> HIDE DEF f
  <2> DEFINE n == Len(log)
  <2>1. n \in Int /\ n >= 0
    BY <1>7
  <2> HIDE DEF n
  <2>2. Cardinality(1..n) = IF 1 > n THEN 0 ELSE n - 1 + 1
    BY <2>1, FS_Interval
  <2>3. Cardinality(1..n) = n
    BY <2>1, <2>2
  <2> QED
    BY <2>3 DEF n
<1>9. Cardinality(Entries) = Len(log)
  BY <1>8, Zenon DEF Entries
<1>10. MaxEntry \in Nat
  BY <1>5, FS_CardinalityType, Zenon
<1> HIDE DEF f
<1> QED
  BY <1>6, <1>9, <1>10

-----------------------------------------------------------------------------
(* Where the consumer task is, what it holds, and whether the group is     *)
(* there.                                                                  *)

Working == {"persist", "archive", "ack"}

TaskInv ==
    \A c \in Instances :
        /\ batch[c] # {} <=> pc[c] \in Working
        /\ pc[c] \in {"read", "recover"} \union Working => group

LEMMA TaskStep == TypeOK /\ TaskInv /\ [Next]_vars => TaskInv'
<1> SUFFICES ASSUME TypeOK, TaskInv, [Next]_vars
             PROVE  TaskInv'
  OBVIOUS
<1> USE DEF TaskInv, Working
<1>1. pc \in [Instances -> PCs] /\ batch \in [Instances -> SUBSET (1..lastDelivered)]
  BY DEF TypeOK, ConsumerTypeOK
<1>2. ASSUME NEW c \in Instances, NEW i \in Current(c), NextMessage(c, i),
             pc[c] \in Working, UNCHANGED group
      PROVE  TaskInv'
  BY <1>1, <1>2 DEF NextMessage
<1>3. CASE UNCHANGED <<pc, batch, group>>
  BY <1>3
<1>4. ASSUME NEW c \in Instances, Start(c) \/ EnsureGroup(c)
      PROVE  TaskInv'
  <2>1. pc[c] \in {"down", "boot"} /\ batch[c] = {} /\ UNCHANGED batch
    BY <1>4 DEF Start, EnsureGroup
  <2>2. CASE UNCHANGED group /\ (Goto(c, "boot") \/ Goto(c, "dead"))
    BY <1>1, <2>1, <2>2
  <2>3. CASE group' = TRUE /\ (Goto(c, "read") \/ Goto(c, "dead"))
    BY <1>1, <2>1, <2>3
  <2> QED
    BY <1>4, <2>2, <2>3 DEF Start, EnsureGroup
<1>5. ASSUME NEW c \in Instances, ReadNew(c)
      PROVE  TaskInv'
  <2>1. PICK S : /\ UNCHANGED group /\ pc[c] = "read"
                 /\ \/ S # {} /\ batch' = [batch EXCEPT ![c] = S] /\ Goto(c, "persist")
                    \/ UNCHANGED <<pc, batch>>
                    \/ Goto(c, "recover") /\ UNCHANGED batch
    BY <1>5 DEF ReadNew
  <2> QED
    BY <1>1, <2>1
<1>6. ASSUME NEW c \in Instances, RecoverPending(c)
      PROVE  TaskInv'
  <2>1. PICK S : /\ UNCHANGED group /\ pc[c] = "recover"
                 /\ \/ S # {} /\ batch' = [batch EXCEPT ![c] = S] /\ Goto(c, "persist")
                    \/ Goto(c, "read") /\ UNCHANGED batch
    BY <1>6 DEF RecoverPending
  <2> QED
    BY <1>1, <2>1
<1>7. ASSUME NEW c \in Instances, Persist(c) \/ Archive(c) \/ Ack(c)
      PROVE  TaskInv'
  <2>1. /\ pc[c] \in Working /\ UNCHANGED group
        /\ \E i \in Current(c) :
              \/ NextMessage(c, i)
              \/ (Goto(c, "archive") \/ Goto(c, "ack")) /\ UNCHANGED batch
    BY <1>7 DEF Persist, Archive, Ack
  <2> QED
    BY <1>1, <1>2, <2>1
<1>8. ASSUME NEW c \in Instances, Crash(c)
      PROVE  TaskInv'
  BY <1>1, <1>8 DEF Crash
<1>9. ASSUME \/ \E q \in Requests, m \in MsgIds : CheckDuplicate(q, m)
             \/ \E q \in Requests : Enqueue(q)
             \/ \E m \in MsgIds : ExpireDedup(m)
             \/ UNCHANGED vars
      PROVE  UNCHANGED <<pc, batch, group>>
  BY <1>9 DEF CheckDuplicate, Enqueue, ExpireDedup, vars
<1> QED
  BY <1>3, <1>4, <1>5, <1>6, <1>7, <1>8, <1>9 DEF Next, Publish, Consume

LEMMA TaskInvariant == Spec => []TaskInv
<1>1. Init => TaskInv
  BY DEF Init, TaskInv, Working
<1> QED
  BY <1>1, TaskStep, TypeCorrect, PTL DEF Spec

-----------------------------------------------------------------------------
(* The steps of the abstract specification.                                *)

At == [c \in Instances |-> PlaceOf[pc[c]]]

Gone == {i \in pel : i <= trimmed}

LEMMA Places ==
    ASSUME TypeOK, NEW c \in Instances
    PROVE  /\ pc[c] \in {"down", "boot"} <=> At[c] = "off"
           /\ pc[c] = "dead" <=> At[c] = "ended"
           /\ pc[c] = "read" <=> At[c] = "read"
           /\ pc[c] = "recover" <=> At[c] = "recover"
           /\ pc[c] \in Working <=> At[c] = "work"
BY DEF TypeOK, ConsumerTypeOK, PCs, PlaceOf, At, Working

LEMMA GotoPlace ==
    ASSUME TypeOK, NEW c \in Instances, NEW l \in PCs, Goto(c, l)
    PROVE  At' = [At EXCEPT ![c] = PlaceOf[l]]
BY DEF TypeOK, ConsumerTypeOK, At

LEMMA SamePlaces ==
    ASSUME UNCHANGED pc
    PROVE  At' = At
BY DEF At

\* The entries that are left once the oldest ones are delivered.
LEMMA DeliverRest ==
    ASSUME TypeOK, Deliver(Oldest(Undelivered)), UNCHANGED <<log, trimmed>>
    PROVE  Undelivered' = Undelivered \ Oldest(Undelivered)
<1>1. Oldest(Undelivered) \subseteq Undelivered
  BY OldestSubset
<1>2. /\ lastDelivered' \in (lastDelivered + 1)..Len(log)
      /\ Oldest(Undelivered) \subseteq 1..lastDelivered'
  BY <1>1, OldestEntries
<1>3. Len(log) \in Nat /\ lastDelivered \in Nat /\ trimmed \in Nat
  BY DEF TypeOK, StreamTypeOK
<1>4. ASSUME NEW i \in Undelivered'
      PROVE  i \in Undelivered \ Oldest(Undelivered)
  BY <1>2, <1>3, <1>4 DEF Undelivered, Entries
<1>5. ASSUME NEW i \in Undelivered \ Oldest(Undelivered)
      PROVE  i \in Undelivered'
  <2>1. i \in 1..Len(log) /\ i > lastDelivered /\ i > trimmed
    BY <1>3, <1>5 DEF Undelivered, Entries
  <2>2. i \notin (lastDelivered + 1)..lastDelivered'
    BY <1>5, <2>1, OldestSkipsNothing
  <2> QED
    BY <1>2, <1>3, <2>1, <2>2 DEF Undelivered, Entries
<1> QED
  BY <1>4, <1>5

\* No entry is the oldest one only if there is none.
LEMMA NoneOldest ==
    ASSUME TypeOK, Oldest(Undelivered) = {}
    PROVE  Undelivered = {}
<1> SUFFICES ASSUME NEW i \in Undelivered
             PROVE  FALSE
  OBVIOUS
<1> DEFINE first == (IF trimmed < lastDelivered THEN lastDelivered ELSE trimmed) + 1
<1>1. Len(log) \in Nat /\ lastDelivered \in Nat /\ trimmed \in Nat
  BY DEF TypeOK, StreamTypeOK
<1>2. first \in Undelivered /\ {j \in Undelivered : j < first} = {}
  BY <1>1 DEF Undelivered, Entries
<1>3. Cardinality({j \in Undelivered : j < first}) = 0
  BY <1>2, FS_EmptySet
<1>4. first \in Oldest(Undelivered)
  <2> HIDE DEF first
  <2> QED
    BY <1>2, <1>3, IngestionAssumption DEF Oldest
<1> QED
  BY <1>4

LEMMA SameOldest ==
    ASSUME NEW T
    PROVE  Oldest(T) = Group!Oldest(T)
<1>1. \A S : Cardinality(S) = Group!Cardinality(S)
  BY Zenon DEF Cardinality, Group!Cardinality
<1>2. \A i : i \in Oldest(T) <=> i \in T /\ Cardinality({j \in T : j < i}) < BatchSize
  BY Zenon DEF Oldest
<1>3. \A i : i \in Group!Oldest(T) <=>
                i \in T /\ Group!Cardinality({j \in T : j < i}) < BatchSize
  BY Zenon DEF Group!Oldest
<1> QED
  BY <1>1, <1>2, <1>3, Zenon

LEMMA StartStep ==
    ASSUME TypeOK, TaskInv, NEW c \in Instances, Start(c)
    PROVE  UNCHANGED Group!groupVars
<1>1. UNCHANGED <<group, Undelivered, pel, Gone, batch>>
  BY DEF Start, Undelivered, Entries, Gone
<1>2. At' = At
  BY GotoPlace DEF Start, TypeOK, ConsumerTypeOK, PCs, PlaceOf, At
<1> QED
  BY <1>1, <1>2 DEF Group!groupVars, Group!streamVars, Gone, At

LEMMA EnterStep ==
    ASSUME TypeOK, TaskInv, NEW c \in Instances, EnsureGroup(c)
    PROVE  Group!Enter(c) \/ Group!EnterFails(c)
<1>1. UNCHANGED <<Undelivered, pel, Gone, batch>>
  BY DEF EnsureGroup, Undelivered, Entries, Gone
<1>2. At[c] = "off"
  BY Places DEF EnsureGroup
<1>3. CASE group' = TRUE /\ Goto(c, "read")
  <2>1. At' = [At EXCEPT ![c] = "read"]
    BY <1>3, GotoPlace DEF PCs, PlaceOf
  <2> QED
    BY <1>1, <1>2, <1>3, <2>1 DEF Group!Enter, Group!Goto, Gone, At
<1>4. CASE group' \in {group, TRUE} /\ Goto(c, "dead")
  <2>1. At' = [At EXCEPT ![c] = "ended"]
    BY <1>4, GotoPlace DEF PCs, PlaceOf
  <2> QED
    BY <1>1, <1>2, <1>4, <2>1 DEF Group!EnterFails, Group!Goto, Gone, At
<1> QED
  BY <1>3, <1>4 DEF EnsureGroup

LEMMA ReadStep ==
    ASSUME TypeOK, TaskInv, NEW c \in Instances, ReadNew(c)
    PROVE  Group!Take(c) \/ Group!TakeLost(c) \/ Group!FindNone(c)
<1> DEFINE S == Oldest(Undelivered)
<1>1. At[c] = "read" /\ group
  BY Places DEF ReadNew, TaskInv
<1>2. UNCHANGED <<group, log, trimmed>>
  BY DEF ReadNew
<1>3. S = Group!Oldest(Undelivered)
  BY SameOldest, Zenon
<1>4. ASSUME S # {}, Deliver(S)
      PROVE  Group!Deliver(S)
  <2>1. Undelivered' = Undelivered \ S
    BY <1>2, <1>4, DeliverRest
  <2>2. pel' = pel \union S
    BY <1>4 DEF Deliver
  <2>3. Gone' = Gone
    <3>1. \A i \in S : i > trimmed /\ i \in Nat /\ trimmed \in Nat
      BY OldestSubset DEF Undelivered, Entries, TypeOK, StreamTypeOK
    <3> QED
      BY <1>2, <2>2, <3>1 DEF Gone
  <2> QED
    BY <1>2, <1>4, <2>1, <2>2, <2>3 DEF Group!Deliver, Gone
<1> HIDE DEF S
<1>5. CASE /\ S # {} /\ Deliver(S)
           /\ batch' = [batch EXCEPT ![c] = S] /\ Goto(c, "persist")
  <2>1. At' = [At EXCEPT ![c] = "work"]
    BY <1>5, GotoPlace DEF PCs, PlaceOf
  <2>2. Group!Deliver(S)
    BY <1>4, <1>5
  <2> QED
    BY <1>1, <1>3, <1>5, <2>1, <2>2 DEF Group!Take, Group!Goto, Group!Hold, At
<1>6. CASE S # {} /\ Deliver(S) /\ UNCHANGED <<pc, batch>>
  <2>1. At' = At
    BY <1>6, SamePlaces
  <2>2. Group!Deliver(S)
    BY <1>4, <1>6
  <2> QED
    BY <1>1, <1>3, <1>6, <2>1, <2>2 DEF Group!TakeLost, At
<1>7. CASE /\ S = {} /\ UNCHANGED <<lastDelivered, pel>>
           /\ Goto(c, "recover") /\ UNCHANGED batch
  <2>1. At' = [At EXCEPT ![c] = "recover"]
    BY <1>7, GotoPlace DEF PCs, PlaceOf
  <2>2. Undelivered = {}
    BY <1>7, NoneOldest DEF S
  <2>3. UNCHANGED <<group, Undelivered, pel, Gone>>
    BY <1>2, <1>7 DEF Undelivered, Entries, Gone
  <2> QED
    BY <1>1, <1>7, <2>1, <2>2, <2>3
       DEF Group!FindNone, Group!Goto, Group!streamVars, Gone, At
<1> QED
  BY <1>5, <1>6, <1>7 DEF ReadNew, S

LEMMA RecoverStep ==
    ASSUME TypeOK, TaskInv, NEW c \in Instances, RecoverPending(c)
    PROVE  Group!Retake(c) \/ Group!LeaveRecovery(c)
<1> DEFINE S == Oldest(pel)
<1>1. At[c] = "recover"
  BY Places DEF RecoverPending
<1>2. UNCHANGED <<group, Undelivered, pel, Gone>>
  BY DEF RecoverPending, Undelivered, Entries, Gone
<1>3. S = Group!Oldest(pel)
  BY SameOldest, Zenon
<1>4. CASE /\ S # {} /\ \A i \in S : i > trimmed
           /\ batch' = [batch EXCEPT ![c] = S] /\ Goto(c, "persist")
  <2>1. At' = [At EXCEPT ![c] = "work"]
    BY <1>4, GotoPlace DEF PCs, PlaceOf
  <2>2. S \intersect Gone = {}
    <3>1. pel \subseteq Nat /\ trimmed \in Nat /\ S \subseteq pel
      BY OldestSubset DEF TypeOK, StreamTypeOK
    <3> HIDE DEF S
    <3>2. \A i \in S : i \in Nat /\ ~ (i <= trimmed)
      BY <1>4, <3>1
    <3>3. \A i \in Gone : i <= trimmed
      BY DEF Gone
    <3> QED
      BY <3>2, <3>3
  <2> HIDE DEF S
  <2> QED
    BY <1>1, <1>2, <1>3, <1>4, <2>1, <2>2
       DEF Group!Retake, Group!Goto, Group!Hold, Group!streamVars, Gone, At
<1>5. CASE Goto(c, "read") /\ UNCHANGED batch
  <2>1. At' = [At EXCEPT ![c] = "read"]
    BY <1>5, GotoPlace DEF PCs, PlaceOf
  <2> QED
    BY <1>1, <1>2, <1>5, <2>1
       DEF Group!LeaveRecovery, Group!Goto, Group!streamVars, Gone, At
<1> QED
  BY <1>4, <1>5 DEF RecoverPending

LEMMA HeadOfBatch ==
    ASSUME TypeOK, TaskInv, NEW c \in Instances, NEW i \in Current(c),
           pc[c] \in Working
    PROVE  At[c] = "work" /\ i \in Group!Head(c)
BY Places DEF Current, Group!Head

LEMMA MoveOnStep ==
    ASSUME TypeOK, NEW c \in Instances, NEW i \in Current(c), NextMessage(c, i)
    PROVE  Group!MoveOn(c, i)
<1>1. i \in batch[c] /\ batch \in [Instances -> SUBSET (1..lastDelivered)]
  BY CurrentEntry DEF TypeOK, ConsumerTypeOK
<1>2. batch' = [batch EXCEPT ![c] = batch[c] \ {i}]
  BY DEF NextMessage
<1>3. batch[c] \ {i} = {} <=> batch[c] = {i}
  BY <1>1
<1>4. CASE batch[c] = {i}
  <2>1. Goto(c, "read")
    BY <1>3, <1>4 DEF NextMessage
  <2>2. At' = [At EXCEPT ![c] = "read"]
    BY <2>1, GotoPlace DEF PCs, PlaceOf
  <2> QED
    BY <1>2, <1>4, <2>2 DEF Group!MoveOn, Group!Hold, Group!Goto, At
<1>5. CASE batch[c] # {i}
  <2>1. Goto(c, "persist")
    BY <1>3, <1>5 DEF NextMessage
  <2>2. At' = [At EXCEPT ![c] = "work"]
    BY <2>1, GotoPlace DEF PCs, PlaceOf
  <2> QED
    BY <1>2, <1>5, <2>2 DEF Group!MoveOn, Group!Hold, Group!Goto, At
<1> QED
  BY <1>4, <1>5

LEMMA ProcessStep ==
    ASSUME TypeOK, TaskInv, NEW c \in Instances, Persist(c) \/ Archive(c) \/ Ack(c)
    PROVE  \/ \E i \in Current(c) : Group!Done(c, i) \/ Group!Skip(c, i)
           \/ UNCHANGED Group!groupVars
<1>1. pc[c] \in Working /\ UNCHANGED <<group, Undelivered, trimmed>>
  BY DEF Persist, Archive, Ack, Working, Undelivered, Entries
<1>2. ASSUME NEW i \in Current(c), NextMessage(c, i), UNCHANGED pel
      PROVE  Group!Skip(c, i)
  <2>1. Gone' = Gone
    BY <1>1, <1>2 DEF Gone
  <2>2. Group!MoveOn(c, i)
    BY <1>2, MoveOnStep
  <2> QED
    BY <1>1, <1>2, <2>1, <2>2, HeadOfBatch
       DEF Group!Skip, Group!streamVars, Gone, At
<1>3. ASSUME NEW i \in Current(c), NextMessage(c, i), pel' = pel \ {i}
      PROVE  Group!Done(c, i)
  <2>1. Gone' = Gone \ {i}
    BY <1>1, <1>3 DEF Gone
  <2>2. Group!MoveOn(c, i)
    BY <1>3, MoveOnStep
  <2> QED
    BY <1>1, <1>3, <2>1, <2>2, HeadOfBatch DEF Group!Done, Gone, At
<1>4. ASSUME UNCHANGED <<batch, pel>>,
             Goto(c, "archive") \/ Goto(c, "ack")
      PROVE  UNCHANGED Group!groupVars
  <2>1. At[c] = "work" /\ At \in [Instances -> {At[d] : d \in Instances}]
    BY <1>1, Places DEF At
  <2>2. At' = [At EXCEPT ![c] = "work"]
    BY <1>4, GotoPlace DEF PCs, PlaceOf
  <2>3. At' = At
    BY <2>1, <2>2
  <2>4. Gone' = Gone
    BY <1>1, <1>4 DEF Gone
  <2> QED
    BY <1>1, <1>4, <2>3, <2>4 DEF Group!groupVars, Group!streamVars, Gone, At
<1> QED
  BY <1>2, <1>3, <1>4 DEF Persist, Archive, Ack

LEMMA CrashStep ==
    ASSUME TypeOK, TaskInv, NEW c \in Instances, Crash(c)
    PROVE  Group!Stop(c) \/ UNCHANGED Group!groupVars
<1>1. UNCHANGED <<group, Undelivered, pel, Gone>>
  BY DEF Crash, Undelivered, Entries, Gone
<1>2. At' = [At EXCEPT ![c] = "off"] /\ batch' = [batch EXCEPT ![c] = {}]
  BY GotoPlace DEF Crash, PCs, PlaceOf
<1>3. CASE At[c] # "off"
  BY <1>1, <1>2, <1>3 DEF Group!Stop, Group!Goto, Group!Hold, Group!streamVars, Gone, At
<1>4. CASE At[c] = "off"
  <2>1. batch[c] = {} /\ batch \in [Instances -> SUBSET (1..lastDelivered)]
    BY <1>4, Places DEF TaskInv, Working, TypeOK, ConsumerTypeOK
  <2>2. batch' = batch
    BY <1>2, <2>1
  <2>3. At' = At
    BY <1>2, <1>4 DEF At
  <2> QED
    BY <1>1, <2>2, <2>3 DEF Group!groupVars, Group!streamVars, Gone, At
<1> QED
  BY <1>3, <1>4

LEMMA EnqueueStep ==
    ASSUME TypeOK, TypeOK', OncePerKeyLife', NEW q \in Requests, Enqueue(q)
    PROVE  \/ \E e \in 1..MaxEntry, k \in 1..MaxEntry \union {0} : Group!Arrive(e, k)
           \/ UNCHANGED Group!groupVars
<1>1. UNCHANGED <<pc, batch, group, lastDelivered, pel>> /\ At' = At
  BY SamePlaces DEF Enqueue
<1>2. ASSUME XAdd(posting[q])
      PROVE  \E e \in 1..MaxEntry, k \in 1..MaxEntry \union {0} : Group!Arrive(e, k)
  <2>1. PICK e, k :
           /\ e = Len(log') /\ k = trimmed'
           /\ Len(log) \in Nat /\ e = Len(log) + 1
           /\ trimmed \in 0..Len(log) /\ k \in trimmed..e /\ k < e
           /\ lastDelivered \in 0..Len(log)
    <3>1. posting[q] \in MsgIds
      BY IngestionAssumption DEF Enqueue, TypeOK, ApiTypeOK
    <3>2. /\ Len(log') = Len(log) + 1
          /\ trimmed' \in trimmed..Len(log')
          /\ trimmed' = trimmed \/ trimmed' + MaxLen <= Len(log')
      BY <1>2, <3>1, XAddEffect
    <3> QED
      BY <3>2, IngestionAssumption DEF TypeOK, StreamTypeOK
  <2>2. e <= MaxEntry /\ MaxEntry \in Nat
    <3>1. (Len(log) <= MaxEntry /\ MaxEntry \in Nat)'
      BY LogBound, PTL
    <3> QED
      BY <2>1, <3>1 DEF MaxEntry
  <2>3. Undelivered' = {f \in Undelivered \union {e} : f > k}
    BY <1>1, <2>1 DEF Undelivered, Entries
  <2>4. Gone' = Gone \union {f \in pel : f <= k}
    <3>1. pel \subseteq Nat
      BY DEF TypeOK, StreamTypeOK
    <3>2. Gone' = {f \in pel : f <= k}
      BY <1>1, <2>1 DEF Gone
    <3>3. \A f \in pel : f <= trimmed => f <= k
      BY <2>1, <3>1
    <3>4. Gone \subseteq {f \in pel : f <= k}
      BY <3>3 DEF Gone
    <3> QED
      BY <3>2, <3>4
  <2>5. e \notin UNION {batch[c] : c \in Instances}
    BY <2>1 DEF TypeOK, ConsumerTypeOK
  <2>6. \A f \in Undelivered \union pel : f < e
    <3>1. \A f \in Undelivered : f < e
      BY <2>1 DEF Undelivered, Entries
    <3>2. \A f \in pel : f < e
      BY <2>1 DEF TypeOK, StreamTypeOK
    <3> QED
      BY <3>1, <3>2
  <2>7. Group!Arrive(e, k)
    BY <1>1, <2>1, <2>3, <2>4, <2>5, <2>6 DEF Group!Arrive, Gone, At
  <2>8. e \in 1..MaxEntry /\ k \in 1..MaxEntry \union {0}
    BY <2>1, <2>2
  <2> QED
    BY <2>7, <2>8, Zenon
<1>3. ASSUME UNCHANGED streamVars
      PROVE  UNCHANGED Group!groupVars
  <2>1. UNCHANGED <<Undelivered, Gone>>
    BY <1>1, <1>3 DEF Undelivered, Entries, Gone
  <2> QED
    BY <1>1, <2>1 DEF Group!groupVars, Group!streamVars, Gone, At
<1> QED
  BY <1>2, <1>3 DEF Enqueue

(***************************************************************************)
(* The service implements ConsumerGroup: whatever fails, expires, is       *)
(* trimmed or crashes, an entry passes from waiting over pending to        *)
(* acknowledged in the ways of the abstract specification only.            *)
(***************************************************************************)
THEOREM IngestionImplementsGroup == Spec => GroupSpec
<1>1. Init => Group!Init
  <2> SUFFICES ASSUME Init
               PROVE  Group!Init
    OBVIOUS
  <2>1. Undelivered = {} /\ At = [c \in Instances |-> "off"]
    BY DEF Init, Undelivered, Entries, At, PlaceOf
  <2> QED
    BY <2>1 DEF Init, Group!Init, At
<1>2. TypeOK /\ TypeOK' /\ TaskInv /\ OncePerKeyLife /\ OncePerKeyLife' /\ [Next]_vars
          => [Group!Next]_(Group!groupVars)
  <2> SUFFICES ASSUME TypeOK, TypeOK', TaskInv, OncePerKeyLife, OncePerKeyLife',
                      [Next]_vars
               PROVE  Group!Next \/ UNCHANGED Group!groupVars
    OBVIOUS
  <2>1. ASSUME NEW c \in Instances, Consume(c) \/ Crash(c)
        PROVE  Group!Next \/ UNCHANGED Group!groupVars
    <3>1. CASE Start(c)
      BY <3>1, StartStep
    <3>2. CASE EnsureGroup(c)
      BY <3>2, EnterStep DEF Group!Next, Group!Loop
    <3>3. CASE ReadNew(c)
      BY <3>3, ReadStep DEF Group!Next, Group!Loop
    <3>4. CASE RecoverPending(c)
      BY <3>4, RecoverStep DEF Group!Next, Group!Loop
    <3>5. CASE Persist(c) \/ Archive(c) \/ Ack(c)
      <4>1. ASSUME NEW i \in Current(c), Group!Done(c, i) \/ Group!Skip(c, i)
            PROVE  Group!Next
        <5>1. i \in 1..MaxEntry
          BY <4>1, LogBound, CurrentEntry DEF Entries, TypeOK, StreamTypeOK
        <5> QED
          BY <4>1, <5>1 DEF Group!Next, Group!Loop, MaxEntry
      <4> QED
        BY <3>5, <4>1, ProcessStep
    <3>6. CASE Crash(c)
      BY <3>6, CrashStep DEF Group!Next
    <3> QED
      BY <2>1, <3>1, <3>2, <3>3, <3>4, <3>5, <3>6 DEF Consume
  <2>2. ASSUME NEW q \in Requests, Enqueue(q)
        PROVE  Group!Next \/ UNCHANGED Group!groupVars
    BY <2>2, EnqueueStep DEF Group!Next, MaxEntry
  <2>3. ASSUME \/ \E q \in Requests, m \in MsgIds : CheckDuplicate(q, m)
               \/ \E m \in MsgIds : ExpireDedup(m)
               \/ UNCHANGED vars
        PROVE  UNCHANGED Group!groupVars
    <3>1. UNCHANGED <<pc, batch, streamVars, groupVars>>
      BY <2>3 DEF CheckDuplicate, ExpireDedup, vars
    <3>2. UNCHANGED <<Undelivered, Gone, At>>
      BY <3>1 DEF Undelivered, Entries, Gone, At
    <3> QED
      BY <3>1, <3>2 DEF Group!groupVars, Group!streamVars, Gone, At
  <2> QED
    BY <2>1, <2>2, <2>3 DEF Next, Publish
<1> QED
  BY <1>1, <1>2, TaskInvariant, TypeCorrect, DeduplicationCorrect, PTL DEF Spec, GroupSpec, Group!Spec
=============================================================================
