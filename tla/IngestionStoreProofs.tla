------------------------ MODULE IngestionStoreProofs ------------------------
(***************************************************************************)
(* Proofs about what the consumers of Ingestion do to the two stores: what *)
(* they acknowledge is in both, how often a reading reaches each, and in   *)
(* which order entries are acknowledged, for any number of instances; at   *)
(* the end, what becomes of a message that was accepted.                   *)
(***************************************************************************)
EXTENDS IngestionProofs

USE DEF Works, Fails, Goto, hotVars, dedupVars, groupVars, apiVars, streamVars,
        consumerVars

-----------------------------------------------------------------------------
(* An acknowledged entry is in both stores.                                *)

\* Entries whose row is already written: acknowledged, or about to be.
Secured(r) ==
    {i \in EntriesWith(r) :
        \/ i \in acked
        \/ \E c \in Instances : pc[c] = "ack" /\ i \in Current(c)}

DurableInv ==
    /\ \A i \in acked : ReadingOf(i) \in stored
    /\ \A c \in Instances : pc[c] \in {"archive", "ack"} =>
           \A i \in Current(c) : ReadingOf(i) \in stored
    /\ \A r \in Readings : Cardinality(Secured(r)) <= rows[r]

\* The log keeps its entries and the script's history only grows.
Growing ==
    /\ \A i \in Entries : i \in Entries' /\ log'[i] = log[i]
    /\ stored \subseteq stored'

\* Nobody advances towards an acknowledgement.
Quiet ==
    /\ acked' = acked
    /\ \A c \in Instances : pc'[c] \in {"archive", "ack"} =>
           pc'[c] = pc[c] /\ batch'[c] = batch[c]

LEMMA SecuredFinite ==
    ASSUME TypeOK, NEW r
    PROVE  IsFiniteSet(Secured(r)) /\ Cardinality(Secured(r)) \in Nat
<1>1. Len(log) \in Nat
  BY DEF TypeOK, StreamTypeOK
<1>2. IsFiniteSet(1..Len(log))
  BY <1>1, FS_Interval
<1>3. Secured(r) \subseteq 1..Len(log)
  BY DEF Secured, EntriesWith, Entries
<1> QED
  BY <1>2, <1>3, FS_Subset, FS_CardinalityType

LEMMA SmallerCount ==
    ASSUME TypeOK, NEW r, NEW S \in SUBSET Secured(r)
    PROVE  Cardinality(S) \in Nat /\ Cardinality(S) <= Cardinality(Secured(r))
BY SecuredFinite, FS_Subset, FS_CardinalityType

\* When no consumer gets to "ack", nothing new is secured.
LEMMA QuietSecures ==
    ASSUME TypeOK, Growing, NEW r,
           acked' \subseteq acked,
           \A c \in Instances : pc'[c] = "ack" => pc[c] = "ack" /\ batch'[c] = batch[c]
    PROVE  Secured(r)' \subseteq Secured(r)
<1> SUFFICES ASSUME NEW i \in Secured(r)'
             PROVE  i \in Secured(r)
  OBVIOUS
<1>1. i \in acked \/ \E c \in Instances : pc[c] = "ack" /\ i \in Current(c)
  BY DEF Secured, Current
<1>2. i \in Entries
  BY <1>1, AckedEntry, CurrentEntry
<1>3. ReadingOf(i)' = ReadingOf(i) /\ ReadingOf(i)' = r
  BY <1>2 DEF Growing, ReadingOf, Secured, EntriesWith
<1> QED
  BY <1>1, <1>2, <1>3 DEF Secured, EntriesWith

LEMMA QuietKeepsStored ==
    ASSUME TypeOK, DurableInv, Growing, Quiet
    PROVE  /\ \A i \in acked' : ReadingOf(i)' \in stored'
           /\ \A c \in Instances : pc'[c] \in {"archive", "ack"} =>
                  \A i \in Current(c)' : ReadingOf(i)' \in stored'
<1>1. ASSUME NEW i \in acked'
      PROVE  ReadingOf(i)' \in stored'
  BY <1>1, AckedEntry DEF DurableInv, Growing, Quiet, ReadingOf
<1>2. ASSUME NEW c \in Instances, pc'[c] \in {"archive", "ack"}, NEW i \in Current(c)'
      PROVE  ReadingOf(i)' \in stored'
  <2>1. pc[c] \in {"archive", "ack"} /\ i \in Current(c)
    BY <1>2 DEF Quiet, Current
  <2>2. i \in Entries
    BY <2>1, CurrentEntry
  <2> QED
    BY <2>1, <2>2 DEF DurableInv, Growing, ReadingOf
<1> QED
  BY <1>1, <1>2

LEMMA QuietKeepsDurable ==
    ASSUME TypeOK, TypeOK', DurableInv, Growing, Quiet,
           \A r \in Readings : rows[r] <= rows'[r]
    PROVE  DurableInv'
<1>1. ASSUME NEW r \in Readings
      PROVE  Cardinality(Secured(r)') <= rows'[r]
  <2>1. Secured(r)' \subseteq Secured(r)
    BY QuietSecures DEF Quiet
  <2>2. /\ Cardinality(Secured(r)') \in Nat
        /\ Cardinality(Secured(r)') <= Cardinality(Secured(r))
    BY <2>1, SmallerCount
  <2>3. Cardinality(Secured(r)) <= rows[r] /\ rows[r] <= rows'[r]
    BY DEF DurableInv
  <2>4. rows[r] \in Nat /\ rows'[r] \in Nat /\ Cardinality(Secured(r)) \in Nat
    BY SecuredFinite DEF TypeOK, ConsumerTypeOK
  <2> QED
    BY <2>2, <2>3, <2>4
<1> QED
  BY <1>1, QuietKeepsStored DEF DurableInv

\* The consumer at c has just stored the reading of the entry it works on.
LEMMA PersistKeepsDurable ==
    ASSUME TypeOK, TypeOK', DurableInv, NEW c \in Instances, Persist(c)
    PROVE  DurableInv'
<1>1. PICK i \in Current(c) :
         \/ StoreReading(ReadingOf(i)) /\ Goto(c, "archive") /\ UNCHANGED batch
         \/ (StoreReading(ReadingOf(i)) \/ UNCHANGED hotVars) /\ NextMessage(c, i)
  BY DEF Persist
<1>2. Growing
  BY <1>1 DEF Persist, Growing, StoreReading, Entries
<1>3. rows' = rows /\ acked' = acked
  BY DEF Persist
<1>4. pc \in [Instances -> PCs] /\ batch \in [Instances -> SUBSET (1..lastDelivered)]
  BY DEF TypeOK, ConsumerTypeOK
<1>5. ASSUME NEW r \in Readings
      PROVE  rows[r] <= rows'[r]
  BY <1>3 DEF TypeOK, ConsumerTypeOK
<1>6. CASE StoreReading(ReadingOf(i)) /\ Goto(c, "archive") /\ UNCHANGED batch
  <2>1. ASSUME NEW j \in acked'
        PROVE  ReadingOf(j)' \in stored'
    BY <1>2, <1>3, <2>1, AckedEntry DEF DurableInv, Growing, ReadingOf
  <2>2. ASSUME NEW d \in Instances, pc'[d] \in {"archive", "ack"}, NEW j \in Current(d)'
        PROVE  ReadingOf(j)' \in stored'
    <3>1. j \in Current(d) /\ j \in Entries
      BY <1>6, <2>2, CurrentEntry DEF Current
    <3>2. ReadingOf(j)' = ReadingOf(j)
      BY <1>2, <3>1 DEF Growing, ReadingOf
    <3>3. CASE d = c
      BY <1>6, <3>1, <3>2, <3>3, CurrentUnique DEF StoreReading
    <3>4. CASE d # c
      BY <1>2, <1>4, <1>6, <2>2, <3>1, <3>2, <3>4 DEF DurableInv, Growing
    <3> QED
      BY <3>3, <3>4
  <2>3. ASSUME NEW r \in Readings
        PROVE  Cardinality(Secured(r)') <= rows'[r]
    <3>1. Secured(r)' \subseteq Secured(r)
      BY <1>2, <1>3, <1>4, <1>6, QuietSecures
    <3>2. Cardinality(Secured(r)') <= Cardinality(Secured(r))
      BY <3>1, SmallerCount
    <3>3. Cardinality(Secured(r)') \in Nat /\ Cardinality(Secured(r)) \in Nat
      BY <3>1, SmallerCount, SecuredFinite
    <3> QED
      BY <1>3, <3>2, <3>3 DEF DurableInv, TypeOK, ConsumerTypeOK
  <2> QED
    BY <2>1, <2>2, <2>3 DEF DurableInv
<1>7. CASE NextMessage(c, i)
  <2>1. Quiet
    BY <1>3, <1>4, <1>7 DEF Quiet, NextMessage
  <2> QED
    BY <1>2, <1>5, <2>1, QuietKeepsDurable
<1> QED
  BY <1>1, <1>6, <1>7

\* A row more, and at most one entry more that counts on it.
LEMMA ArchiveKeepsDurable ==
    ASSUME TypeOK, TypeOK', DurableInv, NEW c \in Instances, Archive(c)
    PROVE  DurableInv'
<1>1. PICK i \in Current(c) :
         \/ InsertRow(ReadingOf(i)) /\ Goto(c, "ack") /\ UNCHANGED batch
         \/ (InsertRow(ReadingOf(i)) \/ UNCHANGED rows) /\ NextMessage(c, i)
  BY DEF Archive
<1>2. Growing
  BY DEF Archive, Growing, Entries
<1>3. acked' = acked /\ log' = log
  BY DEF Archive
<1>4. /\ pc \in [Instances -> PCs]
      /\ batch \in [Instances -> SUBSET (1..lastDelivered)]
      /\ rows \in [Readings -> Nat]
  BY DEF TypeOK, ConsumerTypeOK
<1>5. i \in Entries /\ ReadingOf(i) \in Readings
  BY CurrentEntry, EntryReading
<1>6. ASSUME NEW r \in Readings
      PROVE  rows[r] <= rows'[r]
  BY <1>1, <1>4 DEF InsertRow
<1>7. CASE InsertRow(ReadingOf(i)) /\ Goto(c, "ack") /\ UNCHANGED batch
  <2>1. pc[c] = "archive"
    BY DEF Archive
  <2>2. ASSUME NEW j \in acked'
        PROVE  ReadingOf(j)' \in stored'
    BY <1>2, <1>3, <2>2, AckedEntry DEF DurableInv, Growing, ReadingOf
  <2>3. ASSUME NEW d \in Instances, pc'[d] \in {"archive", "ack"}, NEW j \in Current(d)'
        PROVE  ReadingOf(j)' \in stored'
    <3>1. j \in Current(d) /\ pc[d] \in {"archive", "ack"}
      BY <1>4, <1>7, <2>1, <2>3 DEF Current
    <3>2. j \in Entries
      BY <3>1, CurrentEntry
    <3> QED
      BY <1>2, <3>1, <3>2 DEF DurableInv, Growing, ReadingOf
  <2>4. ASSUME NEW r \in Readings
        PROVE  Cardinality(Secured(r)') <= rows'[r]
    <3>1. Secured(r)' \subseteq Secured(r) \union (IF r = ReadingOf(i) THEN {i} ELSE {})
      <4> SUFFICES ASSUME NEW j \in Secured(r)', j \notin Secured(r)
                   PROVE  j = i /\ r = ReadingOf(i)
        OBVIOUS
      <4>1. j \in Entries /\ ReadingOf(j) = r
        BY <1>3 DEF Secured, EntriesWith, Entries, ReadingOf
      <4>2. PICK d \in Instances : pc'[d] = "ack" /\ j \in Current(d)'
        BY <1>3, <4>1 DEF Secured, EntriesWith
      <4>3. j \in Current(d)
        BY <1>7, <4>2 DEF Current
      <4>4. pc[d] # "ack"
        BY <4>1, <4>3 DEF Secured, EntriesWith
      <4>5. d = c
        BY <1>4, <1>7, <4>2, <4>4
      <4> QED
        BY <4>1, <4>3, <4>5, CurrentUnique
    <3>2. IsFiniteSet(Secured(r)) /\ Cardinality(Secured(r)) \in Nat
      BY SecuredFinite
    <3>3. Cardinality(Secured(r)) <= rows[r] /\ rows[r] \in Nat
      BY <1>4 DEF DurableInv
    <3>4. CASE r = ReadingOf(i)
      <4>1. Secured(r)' \subseteq Secured(r) \union {i}
        BY <3>1, <3>4
      <4>2. /\ IsFiniteSet(Secured(r) \union {i})
            /\ Cardinality(Secured(r) \union {i}) <= Cardinality(Secured(r)) + 1
            /\ Cardinality(Secured(r) \union {i}) \in Nat
        <5> DEFINE S == Secured(r)
        <5> HIDE DEF S
        <5>1. IsFiniteSet(S) /\ Cardinality(S) \in Nat
          BY <3>2 DEF S
        <5>2. /\ IsFiniteSet(S \union {i})
              /\ Cardinality(S \union {i}) =
                   IF i \in S THEN Cardinality(S) ELSE Cardinality(S) + 1
          BY <5>1, FS_AddElement
        <5>3. /\ Cardinality(S \union {i}) <= Cardinality(S) + 1
              /\ Cardinality(S \union {i}) \in Nat
          BY <5>1, <5>2
        <5> QED
          BY <5>2, <5>3 DEF S
      <4>3. /\ Cardinality(Secured(r)') <= Cardinality(Secured(r) \union {i})
            /\ Cardinality(Secured(r)') \in Nat
        BY <4>1, <4>2, FS_Subset, FS_CardinalityType
      <4>4. rows'[r] = rows[r] + 1
        BY <1>4, <1>7, <3>4 DEF InsertRow
      <4> QED
        BY <3>2, <3>3, <4>2, <4>3, <4>4
    <3>5. CASE r # ReadingOf(i)
      <4>1. Secured(r)' \subseteq Secured(r)
        BY <3>1, <3>5
      <4>2. /\ Cardinality(Secured(r)') <= Cardinality(Secured(r))
            /\ Cardinality(Secured(r)') \in Nat
        BY <4>1, SmallerCount
      <4>3. rows'[r] = rows[r]
        BY <1>4, <1>5, <1>7, <3>5 DEF InsertRow
      <4> QED
        BY <3>2, <3>3, <4>2, <4>3
    <3> QED
      BY <3>4, <3>5
  <2> QED
    BY <2>2, <2>3, <2>4 DEF DurableInv
<1>8. CASE NextMessage(c, i)
  <2>1. Quiet
    BY <1>3, <1>4, <1>8 DEF Quiet, NextMessage
  <2> QED
    BY <1>2, <1>6, <2>1, QuietKeepsDurable
<1> QED
  BY <1>1, <1>7, <1>8

\* The entry that is acknowledged was secured already.
LEMMA AckKeepsDurable ==
    ASSUME TypeOK, TypeOK', DurableInv, NEW c \in Instances, Ack(c)
    PROVE  DurableInv'
<1>1. PICK i \in Current(c) :
         /\ acked' = acked \union {i} \/ acked' = acked
         /\ NextMessage(c, i)
  BY DEF Ack
<1>2. Growing /\ log' = log /\ stored' = stored /\ rows' = rows
  BY DEF Ack, Growing, Entries
<1>3. pc \in [Instances -> PCs] /\ batch \in [Instances -> SUBSET (1..lastDelivered)]
  BY DEF TypeOK, ConsumerTypeOK
<1>4. pc[c] = "ack"
  BY DEF Ack
<1>5. \A d \in Instances : pc'[d] \in {"archive", "ack"} =>
         pc'[d] = pc[d] /\ batch'[d] = batch[d]
  BY <1>1, <1>3 DEF NextMessage
<1>6. i \in Entries /\ ReadingOf(i) \in stored
  BY <1>4, CurrentEntry DEF DurableInv
<1>7. ASSUME NEW j \in acked'
      PROVE  ReadingOf(j)' \in stored'
  BY <1>1, <1>2, <1>6, <1>7 DEF DurableInv, ReadingOf
<1>8. ASSUME NEW d \in Instances, pc'[d] \in {"archive", "ack"}, NEW j \in Current(d)'
      PROVE  ReadingOf(j)' \in stored'
  <2>1. pc[d] \in {"archive", "ack"} /\ j \in Current(d)
    BY <1>5, <1>8 DEF Current
  <2> QED
    BY <1>2, <2>1 DEF DurableInv, ReadingOf
<1>9. ASSUME NEW r \in Readings
      PROVE  Cardinality(Secured(r)') <= rows'[r]
  <2>1. Secured(r)' \subseteq Secured(r)
    <3> SUFFICES ASSUME NEW j \in Secured(r)'
                 PROVE  j \in Secured(r)
      OBVIOUS
    <3>1. j \in Entries /\ ReadingOf(j) = r
      BY <1>2 DEF Secured, EntriesWith, Entries, ReadingOf
    <3>2. CASE j \in acked'
      BY <1>1, <1>4, <3>1, <3>2 DEF Secured, EntriesWith
    <3>3. CASE \E d \in Instances : pc'[d] = "ack" /\ j \in Current(d)'
      <4>1. PICK d \in Instances : pc'[d] = "ack" /\ j \in Current(d)'
        BY <3>3
      <4>2. pc[d] = "ack" /\ j \in Current(d)
        BY <1>5, <4>1 DEF Current
      <4> QED
        BY <3>1, <4>2 DEF Secured, EntriesWith
    <3> QED
      BY <3>2, <3>3 DEF Secured
  <2>2. Cardinality(Secured(r)') <= Cardinality(Secured(r)) /\ Cardinality(Secured(r)') \in Nat
    BY <2>1, SmallerCount
  <2>3. Cardinality(Secured(r)) \in Nat /\ rows[r] \in Nat
    BY SecuredFinite DEF TypeOK, ConsumerTypeOK
  <2> QED
    BY <1>2, <2>2, <2>3 DEF DurableInv
<1> QED
  BY <1>7, <1>8, <1>9 DEF DurableInv

\* Every other step leaves the stores and the acknowledgements alone.
LEMMA OthersKeepDurable ==
    ASSUME TypeOK, TypeOK', DurableInv,
           \/ Publish
           \/ \E m \in MsgIds : ExpireDedup(m)
           \/ \E c \in Instances : Start(c) \/ EnsureGroup(c) \/ ReadNew(c)
                                   \/ RecoverPending(c) \/ Crash(c)
           \/ UNCHANGED vars
    PROVE  DurableInv'
<1> DEFINE Frame ==
      /\ UNCHANGED <<hotVars, rows, acked>>
      /\ \/ UNCHANGED log
         \/ \E m \in MsgIds : XAdd(m)
      /\ \/ UNCHANGED consumerVars
         \/ \E c \in Instances, l \in PCs \ {"archive", "ack"}, S \in SUBSET Nat :
              /\ pc' = [pc EXCEPT ![c] = l]
              /\ batch' \in {batch, [batch EXCEPT ![c] = S]}
<1>1. Frame => DurableInv'
  <2> SUFFICES ASSUME Frame
               PROVE  DurableInv'
    OBVIOUS
  <2>1. Growing
    <3>1. CASE UNCHANGED log
      BY <3>1 DEF Growing, Entries
    <3>2. ASSUME NEW m \in MsgIds, XAdd(m)
          PROVE  Growing
      <4>1. Len(log') = Len(log) + 1 /\ \A i \in Entries : log'[i] = log[i]
        BY <3>2, XAddEffect
      <4>2. Len(log) \in Nat
        BY DEF TypeOK, StreamTypeOK
      <4> QED
        BY <4>1, <4>2 DEF Growing, Entries
    <3> QED
      BY <3>1, <3>2
  <2>2. Quiet
    BY DEF Quiet, TypeOK, ConsumerTypeOK
  <2>3. ASSUME NEW r \in Readings
        PROVE  rows[r] <= rows'[r]
    BY DEF TypeOK, ConsumerTypeOK
  <2> QED
    BY <2>1, <2>2, <2>3, QuietKeepsDurable
<1>2. ASSUME NEW q \in Requests, NEW m \in MsgIds, CheckDuplicate(q, m)
      PROVE  Frame
  BY <1>2 DEF CheckDuplicate
<1>3. ASSUME NEW q \in Requests, Enqueue(q)
      PROVE  Frame
  <2>1. posting[q] \in MsgIds
    BY <1>3 DEF Enqueue, TypeOK, ApiTypeOK
  <2> QED
    BY <1>3, <2>1 DEF Enqueue
<1>4. ASSUME NEW m \in MsgIds, ExpireDedup(m)
      PROVE  Frame
  BY <1>4 DEF ExpireDedup
<1>5. ASSUME NEW c \in Instances, Start(c) \/ EnsureGroup(c) \/ Crash(c)
      PROVE  Frame
  BY <1>5 DEF Start, EnsureGroup, Crash, PCs
<1>6. ASSUME NEW c \in Instances, ReadNew(c)
      PROVE  Frame
  <2>1. Oldest(Undelivered) \in SUBSET Nat
    BY OldestSubset DEF Undelivered, Entries
  <2>2. \/ UNCHANGED consumerVars
        \/ batch' = [batch EXCEPT ![c] = Oldest(Undelivered)] /\ Goto(c, "persist")
        \/ batch' = batch /\ Goto(c, "recover")
    BY <1>6 DEF ReadNew
  <2>3. "persist" \in PCs \ {"archive", "ack"} /\ "recover" \in PCs \ {"archive", "ack"}
    BY DEF PCs
  <2>4. UNCHANGED <<hotVars, rows, acked, log>>
    BY <1>6 DEF ReadNew
  <2> QED
    BY <2>1, <2>2, <2>3, <2>4
<1>7. ASSUME NEW c \in Instances, RecoverPending(c)
      PROVE  Frame
  <2>1. Oldest(pel) \in SUBSET Nat
    <3>1. pel \subseteq Nat
      BY DEF TypeOK, StreamTypeOK
    <3> QED
      BY <3>1, OldestSubset
  <2>2. \/ batch' = [batch EXCEPT ![c] = Oldest(pel)] /\ Goto(c, "persist")
        \/ batch' = batch /\ Goto(c, "read")
    BY <1>7 DEF RecoverPending
  <2>3. "persist" \in PCs \ {"archive", "ack"} /\ "read" \in PCs \ {"archive", "ack"}
    BY DEF PCs
  <2>4. UNCHANGED <<hotVars, rows, acked, log>>
    BY <1>7 DEF RecoverPending
  <2> QED
    BY <2>1, <2>2, <2>3, <2>4
<1>8. UNCHANGED vars => Frame
  BY DEF vars
<1> HIDE DEF Frame
<1>9. CASE Publish
  BY <1>1, <1>2, <1>3, <1>9 DEF Publish
<1>10. CASE \E m \in MsgIds : ExpireDedup(m)
  BY <1>1, <1>4, <1>10
<1>11. CASE \E c \in Instances : Start(c) \/ EnsureGroup(c) \/ ReadNew(c)
                                \/ RecoverPending(c) \/ Crash(c)
  BY <1>1, <1>5, <1>6, <1>7, <1>11
<1> QED
  BY <1>1, <1>8, <1>9, <1>10, <1>11

LEMMA InitDurable == Init => DurableInv
<1> SUFFICES ASSUME Init
             PROVE  DurableInv
  OBVIOUS
<1>1. acked = {} /\ \A c \in Instances : pc[c] = "down"
  BY DEF Init
<1>2. \A r \in Readings : Secured(r) = {} /\ rows[r] = 0
  BY <1>1 DEF Secured, Init
<1> QED
  BY <1>1, <1>2, FS_EmptySet DEF DurableInv

LEMMA StepDurable == TypeOK /\ TypeOK' /\ DurableInv /\ [Next]_vars => DurableInv'
BY PersistKeepsDurable, ArchiveKeepsDurable, AckKeepsDurable, OthersKeepDurable
   DEF Next, Consume

(***************************************************************************)
(* An entry the consumer acknowledged has been through the Lua script and  *)
(* has a row of its own in the archive, however commands fail, instances   *)
(* crash and several instances share one consumer name.                    *)
(***************************************************************************)
THEOREM AckedCorrect == Spec => []AckedIsDurable
<1>1. TypeOK /\ DurableInv => AckedIsDurable
  <2> SUFFICES ASSUME TypeOK, DurableInv
               PROVE  AckedIsDurable
    OBVIOUS
  <2>1. ASSUME NEW r \in Readings
        PROVE  Cardinality(acked \intersect EntriesWith(r)) <= rows[r]
    <3>1. acked \intersect EntriesWith(r) \in SUBSET Secured(r)
      BY DEF Secured
    <3>2. /\ Cardinality(acked \intersect EntriesWith(r)) \in Nat
          /\ Cardinality(acked \intersect EntriesWith(r)) <= Cardinality(Secured(r))
      BY <3>1, SmallerCount
    <3>3. Cardinality(Secured(r)) \in Nat /\ rows[r] \in Nat
      BY SecuredFinite DEF TypeOK, ConsumerTypeOK
    <3> QED
      BY <3>2, <3>3 DEF DurableInv
  <2> QED
    BY <2>1 DEF AckedIsDurable, DurableInv
<1> QED
  BY InitType, StepType, InitDurable, StepDurable, <1>1, PTL DEF Spec

-----------------------------------------------------------------------------
(* What is acknowledged, and what the consumers hold.                      *)

\* What is acknowledged is pending no more, so nobody is given it again.
AckedOnce == pel \intersect acked = {}

LEMMA NewIsNotAcked ==
    ASSUME TypeOK
    PROVE  Oldest(Undelivered) \intersect acked = {}
<1>1. \A i \in acked : i \in Int /\ ~ (i > lastDelivered)
  BY DEF TypeOK, StreamTypeOK
<1>2. \A i \in Undelivered : i > lastDelivered
  BY DEF Undelivered
<1>3. Oldest(Undelivered) \subseteq Undelivered
  BY OldestSubset
<1> QED
  BY <1>1, <1>2, <1>3

LEMMA AckedOnceStep == TypeOK /\ AckedOnce /\ [Next]_vars => AckedOnce'
<1> SUFFICES ASSUME TypeOK, AckedOnce, [Next]_vars
             PROVE  AckedOnce'
  OBVIOUS
<1>1. CASE UNCHANGED <<pel, acked>>
  BY <1>1 DEF AckedOnce
<1>2. ASSUME NEW c \in Instances, ReadNew(c)
      PROVE  AckedOnce'
  <2>1. Oldest(Undelivered) \intersect acked = {}
    BY NewIsNotAcked
  <2>2. acked' = acked /\ pel' \in {pel, pel \union Oldest(Undelivered)}
    BY <1>2 DEF ReadNew, Deliver
  <2> QED
    BY <2>1, <2>2 DEF AckedOnce
<1>3. ASSUME NEW c \in Instances, Ack(c)
      PROVE  AckedOnce'
  BY <1>3 DEF Ack, AckedOnce
<1> QED
  BY <1>1, <1>2, <1>3 DEF Next, Publish, Consume, CheckDuplicate, Enqueue, ExpireDedup,
     Start, EnsureGroup, RecoverPending, Persist, Archive, Crash, vars

LEMMA AckedOnceInvariant == Spec => []AckedOnce
<1>1. Init => AckedOnce
  BY DEF Init, AckedOnce
<1> QED
  BY <1>1, AckedOnceStep, TypeCorrect, PTL DEF Spec

\* Acknowledgements stay, and nobody is given what is acknowledged.
LEMMA HandsStep ==
    ASSUME TypeOK, AckedOnce, [Next]_vars
    PROVE  /\ acked \subseteq acked'
           /\ \A c \in Instances : batch'[c] \intersect acked \subseteq batch[c]
<1>1. acked \subseteq acked'
  BY DEF Next, Publish, Consume, CheckDuplicate, Enqueue, ExpireDedup, Start, EnsureGroup,
         ReadNew, RecoverPending, Persist, Archive, Ack, Crash, vars
<1>2. batch \in [Instances -> SUBSET (1..lastDelivered)] /\ acked \subseteq 1..lastDelivered
  BY DEF TypeOK, StreamTypeOK, ConsumerTypeOK
<1>3. /\ Oldest(Undelivered) \intersect acked = {}
      /\ Oldest(pel) \intersect acked = {}
  <2>1. Oldest(pel) \subseteq pel
    BY OldestSubset
  <2> QED
    BY <2>1, NewIsNotAcked DEF AckedOnce
<1>4. ASSUME NEW c \in Instances, Consume(c) \/ Crash(c)
      PROVE  \E S : batch' = [batch EXCEPT ![c] = S] /\ S \intersect acked \subseteq batch[c]
  <2>1. \/ UNCHANGED batch
        \/ batch' = [batch EXCEPT ![c] = Oldest(Undelivered)]
        \/ batch' = [batch EXCEPT ![c] = Oldest(pel)]
        \/ \E i \in Current(c) : batch' = [batch EXCEPT ![c] = batch[c] \ {i}]
        \/ batch' = [batch EXCEPT ![c] = {}]
    BY <1>4 DEF Consume, Start, EnsureGroup, ReadNew, RecoverPending, Persist, Archive, Ack,
                Crash, NextMessage
  <2>2. CASE UNCHANGED batch
    BY <1>2, <2>2
  <2> QED
    BY <1>3, <2>1, <2>2
<1>5. \/ UNCHANGED batch
      \/ \E c \in Instances : Consume(c) \/ Crash(c)
  BY DEF Next, Publish, CheckDuplicate, Enqueue, ExpireDedup, vars
<1> QED
  BY <1>1, <1>2, <1>4, <1>5

Single == Cardinality(Instances) = 1

LEMMA OneInstance ==
    ASSUME Single
    PROVE  \E c : Instances = {c}
BY IngestionAssumption, FS_Singleton DEF Single

\* The one consumer of a service holds only what is pending.
WorkInv == \A c \in Instances : batch[c] \subseteq pel

LEMMA WorkStep == Single /\ TypeOK /\ TaskInv /\ WorkInv /\ [Next]_vars => WorkInv'
<1> SUFFICES ASSUME Single, TypeOK, TaskInv, WorkInv, [Next]_vars
             PROVE  WorkInv'
  OBVIOUS
<1>1. PICK c : Instances = {c}
  BY OneInstance
<1>2. /\ batch \in [{c} -> SUBSET (1..lastDelivered)]
      /\ batch[c] \subseteq pel
      /\ pc[c] \notin Working => batch[c] = {}
  BY <1>1 DEF TypeOK, ConsumerTypeOK, WorkInv, TaskInv
<1> SUFFICES batch'[c] \subseteq pel'
  BY <1>1 DEF WorkInv
<1>3. CASE UNCHANGED <<pel, batch>>
  BY <1>2, <1>3
<1>4. CASE ReadNew(c)
  <2>1. batch[c] = {}
    BY <1>2, <1>4 DEF ReadNew, Working
  <2>2. \/ UNCHANGED batch
        \/ /\ batch' = [batch EXCEPT ![c] = Oldest(Undelivered)]
           /\ pel' = pel \union Oldest(Undelivered)
    BY <1>4 DEF ReadNew, Deliver
  <2> QED
    BY <1>2, <2>1, <2>2
<1>5. CASE RecoverPending(c)
  BY <1>2, <1>5, OldestSubset DEF RecoverPending
<1>6. CASE Persist(c) \/ Archive(c)
  BY <1>2, <1>6 DEF Persist, Archive, NextMessage
<1>7. CASE Ack(c)
  <2>1. PICK i \in Current(c) : pel' \in {pel, pel \ {i}} /\ NextMessage(c, i)
    BY <1>7 DEF Ack
  <2>2. batch'[c] = batch[c] \ {i}
    BY <1>2, <2>1 DEF NextMessage
  <2> QED
    BY <1>2, <2>1, <2>2
<1>8. CASE Crash(c)
  BY <1>2, <1>8 DEF Crash
<1> QED
  BY <1>1, <1>3, <1>4, <1>5, <1>6, <1>7, <1>8
     DEF Next, Publish, Consume, CheckDuplicate, Enqueue, ExpireDedup, Start, EnsureGroup, vars

(***************************************************************************)
(* The one consumer of a service works on pending entries only, whatever   *)
(* fails and however often it is restarted.                                *)
(***************************************************************************)
THEOREM WorkCorrect == Spec => []WorksOnPending
<1>1. Init => WorkInv
  BY DEF Init, WorkInv
<1>2. TypeOK /\ TaskInv /\ (Single => WorkInv) /\ [Next]_vars => (Single => WorkInv)'
  BY WorkStep DEF Single
<1>3. (Single => WorkInv) => WorksOnPending
  BY DEF Single, WorkInv, WorksOnPending
<1> QED
  BY <1>1, <1>2, <1>3, TypeCorrect, TaskInvariant, PTL DEF Spec

-----------------------------------------------------------------------------
(* How far entries have come, and how a step changes that.  L is the       *)
(* states past Archive, {"ack"}, or past Persist, {"archive", "ack"}.      *)

PastArchive == {"ack"}

PastPersist == {"archive", "ack"}

\* Entries acknowledged, or that some instance has brought into L.
Done(L) ==
    {i \in Entries :
        \/ i \in acked
        \/ \E c \in Instances : pc[c] \in L /\ i \in Current(c)}

\* The same for each instance by itself: the entries of K it has brought
\* into L, and those acknowledged that it does not hold.
Passed(L, K) ==
    {p \in Instances \X Entries :
        /\ p[2] \in K
        /\ \/ p[2] \in acked /\ p[2] \notin batch[p[1]]
           \/ pc[p[1]] \in L /\ p[2] \in Current(p[1])}

LEMMA EntriesFinite ==
    ASSUME TypeOK, NEW S \in SUBSET Entries
    PROVE  IsFiniteSet(S) /\ Cardinality(S) \in Nat
<1>1. IsFiniteSet(1..Len(log))
  BY FS_Interval DEF TypeOK, StreamTypeOK
<1> QED
  BY <1>1, FS_Subset, FS_CardinalityType DEF Entries

LEMMA SubsetCount ==
    ASSUME TypeOK, NEW T \in SUBSET Entries, NEW S \in SUBSET T
    PROVE  /\ Cardinality(S) \in Nat /\ Cardinality(T) \in Nat
           /\ Cardinality(S) <= Cardinality(T)
BY EntriesFinite, FS_Subset

LEMMA PassedFinite ==
    ASSUME TypeOK, NEW L, NEW K \in SUBSET Entries
    PROVE  /\ IsFiniteSet(Passed(L, K))
           /\ Cardinality(Passed(L, K)) \in Nat
           /\ Cardinality(Passed(L, K)) <= Cardinality(Instances) * Cardinality(K)
           /\ Cardinality(Instances) * Cardinality(K) \in Nat
<1>1. IsFiniteSet(Instances) /\ IsFiniteSet(K)
  BY EntriesFinite, IngestionAssumption
<1>2. /\ IsFiniteSet(Instances \X K)
      /\ Cardinality(Instances \X K) = Cardinality(Instances) * Cardinality(K)
  BY <1>1, FS_Product
<1>3. Passed(L, K) \in SUBSET (Instances \X K)
  BY DEF Passed
<1>4. /\ IsFiniteSet(Passed(L, K))
      /\ Cardinality(Passed(L, K)) <= Cardinality(Instances \X K)
  BY <1>2, <1>3, FS_Subset
<1>5. Cardinality(Passed(L, K)) \in Nat /\ Cardinality(Instances \X K) \in Nat
  BY <1>2, <1>4, FS_CardinalityType
<1> QED
  BY <1>2, <1>4, <1>5, Zenon

\* The same of the next state.
LEMMA PassedFiniteNext ==
    ASSUME TypeOK', NEW L, NEW K, K \in SUBSET Entries'
    PROVE  IsFiniteSet(Passed(L, K)') /\ Cardinality(Passed(L, K)') \in Nat
<1>1. (TypeOK /\ K \in SUBSET Entries => /\ IsFiniteSet(Passed(L, K))
                                         /\ Cardinality(Passed(L, K)) \in Nat)'
  BY PassedFinite, PTL
<1> QED
  BY <1>1

\* Two facts about counting a set that a step changes.
LEMMA LoseOne ==
    ASSUME NEW S, NEW T, IsFiniteSet(S), IsFiniteSet(T), NEW x, S \ {x} \subseteq T
    PROVE  /\ Cardinality(S) \in Nat /\ Cardinality(T) \in Nat
           /\ Cardinality(S) <= Cardinality(T) + 1
<1>1. /\ IsFiniteSet(T \union {x})
      /\ Cardinality(T \union {x}) = IF x \in T THEN Cardinality(T) ELSE Cardinality(T) + 1
  BY FS_AddElement
<1>2. S \in SUBSET (T \union {x})
  OBVIOUS
<1>3. Cardinality(S) <= Cardinality(T \union {x})
  BY <1>1, <1>2, FS_Subset
<1>4. Cardinality(S) \in Nat /\ Cardinality(T) \in Nat
  BY FS_CardinalityType
<1> QED
  BY <1>1, <1>3, <1>4

LEMMA GainOne ==
    ASSUME NEW S, NEW T, IsFiniteSet(S), IsFiniteSet(T), NEW x, x \notin S,
           S \union {x} \subseteq T
    PROVE  /\ Cardinality(S) \in Nat /\ Cardinality(T) \in Nat
           /\ Cardinality(S) + 1 <= Cardinality(T)
<1>1. Cardinality(S \union {x}) = Cardinality(S) + 1
  BY FS_AddElement
<1>2. Cardinality(S \union {x}) <= Cardinality(T)
  BY FS_Subset
<1>3. Cardinality(S) \in Nat /\ Cardinality(T) \in Nat
  BY FS_CardinalityType
<1> QED
  BY <1>1, <1>2, <1>3

\* Any other step than the one into L brings no entry there.
LEMMA OthersBringNone ==
    ASSUME TypeOK, [Next]_vars,
           NEW L, \/ L = PastArchive /\ \A c \in Instances : ~Archive(c)
                  \/ L = PastPersist /\ \A c \in Instances : ~Persist(c)
    PROVE  Done(L)' \subseteq Done(L)
<1>1. /\ pc \in [Instances -> PCs] /\ batch \in [Instances -> SUBSET (1..lastDelivered)]
      /\ "ack" \in L /\ L \subseteq {"archive", "ack"}
  BY DEF TypeOK, ConsumerTypeOK, PastArchive, PastPersist
<1>2. ASSUME NEW j \in acked'
      PROVE  j \in Done(L)
  <2>1. \/ j \in acked
        \/ \E c \in Instances : pc[c] = "ack" /\ j \in Current(c)
    BY <1>2 DEF Next, Publish, Consume, CheckDuplicate, Enqueue, ExpireDedup, Start, EnsureGroup,
       ReadNew, RecoverPending, Persist, Archive, Ack, Crash, vars
  <2> QED
    BY <1>1, <2>1, AckedEntry, CurrentEntry DEF Done
<1>3. ASSUME NEW c \in Instances, pc'[c] \in L
      PROVE  pc[c] \in L /\ batch'[c] = batch[c]
  <2>1. CASE UNCHANGED consumerVars
    BY <1>3, <2>1
  <2>2. ASSUME NEW d \in Instances, Consume(d) \/ Crash(d)
        PROVE  pc[c] \in L /\ batch'[c] = batch[c]
    <3>1. CASE Start(d) \/ EnsureGroup(d) \/ ReadNew(d) \/ RecoverPending(d) \/ Crash(d)
      BY <1>1, <1>3, <3>1 DEF Start, EnsureGroup, ReadNew, RecoverPending, Crash
    <3>2. CASE Persist(d)
      BY <1>1, <1>3, <3>2 DEF Persist, NextMessage, PastArchive
    <3>3. CASE Archive(d)
      BY <1>1, <1>3, <3>3 DEF Archive, NextMessage, PastPersist
    <3>4. CASE Ack(d)
      BY <1>1, <1>3, <3>4 DEF Ack, NextMessage
    <3> QED
      BY <2>2, <3>1, <3>2, <3>3, <3>4 DEF Consume
  <2> QED
    BY <2>1, <2>2 DEF Next, Publish, CheckDuplicate, Enqueue, ExpireDedup, vars
<1>4. ASSUME NEW c \in Instances, pc'[c] \in L, NEW j \in Current(c)'
      PROVE  j \in Done(L)
  <2>1. pc[c] \in L /\ j \in Current(c)
    BY <1>3, <1>4 DEF Current
  <2> QED
    BY <2>1, CurrentEntry DEF Done
<1> QED
  BY <1>2, <1>4 DEF Done

\* What a step loses is at most one pair, and a fault pays for it.
Keeps(L, K) ==
    \/ Passed(L, K) \subseteq Passed(L, K)' /\ faults' \in {faults, faults + 1}
    \/ faults' = faults + 1 /\ \E x : Passed(L, K) \ {x} \subseteq Passed(L, K)'

LEMMA OthersKeepPassed ==
    ASSUME TypeOK, AckedOnce, [Next]_vars, NEW L, NEW K,
           \/ L = PastArchive /\ \A c \in Instances : ~Archive(c)
           \/ /\ L = PastPersist /\ \A c \in Instances : ~Persist(c)
              /\ \A i \in Entries : i \in K => log[i] \notin Rejected
    PROVE  Keeps(L, K)
<1>1. /\ pc \in [Instances -> PCs] /\ batch \in [Instances -> SUBSET (1..lastDelivered)]
      /\ L \subseteq {"archive", "ack"}
  BY DEF TypeOK, ConsumerTypeOK, PastArchive, PastPersist
<1>2. /\ acked \subseteq acked' /\ Entries \subseteq Entries'
      /\ \A c \in Instances : batch'[c] \intersect acked \subseteq batch[c]
  BY HandsStep, LogGrows
<1>3. faults' \in {faults, faults + 1}
  BY DEF Next, Publish, Consume, CheckDuplicate, Enqueue, ExpireDedup, Start, EnsureGroup,
         ReadNew, RecoverPending, Persist, Archive, Ack, Crash, vars
\* A pair is lost only if its instance gives up what it has in hand.
<1>4. ASSUME NEW p \in Passed(L, K), p \notin Passed(L, K)'
      PROVE  /\ pc[p[1]] \in L /\ p[2] \in Current(p[1])
             /\ ~ (pc'[p[1]] \in L /\ batch'[p[1]] = batch[p[1]])
             /\ ~ (p[2] \in acked' /\ p[2] \notin batch'[p[1]])
  <2>1. /\ p \in Instances \X Entries' /\ p[2] \in K
        /\ p[1] \in Instances /\ p[2] \in Entries
    BY <1>2 DEF Passed
  <2>2. ~ (p[2] \in acked' /\ p[2] \notin batch'[p[1]])
    BY <1>4, <2>1 DEF Passed
  <2>3. ~ (p[2] \in acked /\ p[2] \notin batch[p[1]])
    BY <1>2, <2>1, <2>2
  <2>4. pc[p[1]] \in L /\ p[2] \in Current(p[1])
    BY <2>3 DEF Passed
  <2>5. ~ (pc'[p[1]] \in L /\ p[2] \in Current(p[1])')
    BY <1>4, <2>1 DEF Passed
  <2>6. batch'[p[1]] = batch[p[1]] => Current(p[1])' = Current(p[1])
    BY DEF Current
  <2> QED
    BY <2>2, <2>4, <2>5, <2>6
<1>5. CASE UNCHANGED consumerVars
  BY <1>3, <1>4, <1>5 DEF Keeps, Passed
<1>6. ASSUME NEW c \in Instances, Consume(c) \/ Crash(c)
      PROVE  Keeps(L, K)
  <2>1. \A d \in Instances \ {c} : pc'[d] = pc[d] /\ batch'[d] = batch[d]
    BY <1>1, <1>6 DEF Consume, Start, EnsureGroup, ReadNew, RecoverPending, Persist, Archive,
                      Ack, Crash, NextMessage
  <2>2. ASSUME NEW p \in Passed(L, K), p \notin Passed(L, K)'
        PROVE  /\ p[1] = c /\ pc[c] \in L /\ p[2] \in Current(c) /\ p = <<c, p[2]>>
               /\ p[2] \in Entries /\ p[2] \in K
               /\ ~ (pc'[c] \in L /\ batch'[c] = batch[c])
               /\ ~ (p[2] \in acked' /\ p[2] \notin batch'[c])
    BY <1>4, <2>1, <2>2 DEF Passed
  <2>3. CASE pc[c] \notin L
    BY <1>3, <2>2, <2>3 DEF Keeps
  \* All that can be lost is the one pair of c and the entry in its hand.
  <2>4. CASE faults' = faults + 1
    <3>1. PICK x : \A p \in Passed(L, K) : p \notin Passed(L, K)' => p = x
      <4>1. CASE \E i : i \in Current(c)
        <5>1. PICK i : i \in Current(c)
          BY <4>1
        <5>2. \A p \in Passed(L, K) : p \notin Passed(L, K)' => p = <<c, i>>
          BY <2>2, <5>1, CurrentUnique
        <5> QED
          BY <5>2
      <4>2. CASE ~ \E i : i \in Current(c)
        BY <2>2, <4>2
      <4> QED
        BY <4>1, <4>2
    <3> QED
      BY <2>4, <3>1 DEF Keeps
  <2>5. CASE pc[c] \in L /\ faults' # faults + 1
    <3>1. Archive(c) \/ Ack(c)
      BY <1>1, <1>6, <2>5 DEF Consume, Start, EnsureGroup, ReadNew, RecoverPending, Persist, Crash
    <3>2. CASE Archive(c)
      <4>1. L = PastPersist /\ \A i \in Entries : i \in K => log[i] \notin Rejected
        BY <3>2
      <4>2. \/ Goto(c, "ack") /\ UNCHANGED batch
            \/ \E i \in Current(c) : log[i] \in Rejected
        BY <2>5, <3>2 DEF Archive
      <4>3. CASE Goto(c, "ack") /\ UNCHANGED batch
        <5>1. pc'[c] \in L
          BY <1>1, <4>1, <4>3 DEF PastPersist
        <5> QED
          BY <1>3, <2>2, <4>3, <5>1 DEF Keeps
      <4>4. ASSUME NEW i \in Current(c), log[i] \in Rejected
            PROVE  Keeps(L, K)
        <5>1. \A p \in Passed(L, K) : p \notin Passed(L, K)' => FALSE
          BY <2>2, <4>1, <4>4, CurrentUnique
        <5> QED
          BY <1>3, <5>1 DEF Keeps
      <4> QED
        BY <4>2, <4>3, <4>4
    <3>3. CASE Ack(c)
      <4>1. PICK i \in Current(c) : i \in acked' /\ batch'[c] = batch[c] \ {i}
        BY <1>1, <2>5, <3>3 DEF Ack, NextMessage
      <4>2. \A p \in Passed(L, K) : p \notin Passed(L, K)' => FALSE
        BY <2>2, <4>1, CurrentUnique
      <4> QED
        BY <1>3, <4>2 DEF Keeps
    <3> QED
      BY <3>1, <3>2, <3>3
  <2> QED
    BY <2>3, <2>4, <2>5
<1> QED
  BY <1>5, <1>6 DEF Next, Publish, CheckDuplicate, Enqueue, ExpireDedup, vars

\* How many pairs there are after such a step.
LEMMA KeepsCount ==
    ASSUME TypeOK, TypeOK', NEW L, NEW K \in SUBSET Entries, K \subseteq Entries', Keeps(L, K)
    PROVE  Cardinality(Passed(L, K)) + faults <= Cardinality(Passed(L, K)') + faults'
<1>1. /\ IsFiniteSet(Passed(L, K)) /\ Cardinality(Passed(L, K)) \in Nat
  BY PassedFinite
<1>2. IsFiniteSet(Passed(L, K)') /\ Cardinality(Passed(L, K)') \in Nat
  BY PassedFiniteNext
<1>3. faults \in Nat
  BY IngestionAssumption DEF TypeOK, ConsumerTypeOK
<1>4. CASE Passed(L, K) \subseteq Passed(L, K)' /\ faults' \in {faults, faults + 1}
  <2>1. Cardinality(Passed(L, K)) <= Cardinality(Passed(L, K)')
    BY <1>2, <1>4, FS_Subset
  <2> QED
    BY <1>1, <1>2, <1>3, <1>4, <2>1
<1>5. CASE faults' = faults + 1 /\ \E x : Passed(L, K) \ {x} \subseteq Passed(L, K)'
  <2>1. Cardinality(Passed(L, K)) <= Cardinality(Passed(L, K)') + 1
    BY <1>1, <1>2, <1>5, LoseOne
  <2> QED
    BY <1>1, <1>2, <1>3, <1>5, <2>1
<1> QED
  BY <1>4, <1>5 DEF Keeps

\* The step into L: one entry more, and one pair more.
LEMMA Advance ==
    ASSUME TypeOK, NEW L, NEW K, NEW c \in Instances, NEW i \in Current(c),
           pc[c] \notin L, NEW l \in L, pc' = [pc EXCEPT ![c] = l],
           UNCHANGED <<log, acked, batch>>
    PROVE  /\ Done(L)' \subseteq Done(L) \union {i}
           /\ Passed(L, K) \subseteq Passed(L, K)'
           /\ <<c, i>> \notin Passed(L, K)
           /\ i \in K => <<c, i>> \in Passed(L, K)'
<1>1. /\ pc \in [Instances -> PCs] /\ i \in batch[c] /\ i \in Entries
      /\ Entries' = Entries /\ \A d : Current(d)' = Current(d)
  BY CurrentEntry DEF TypeOK, ConsumerTypeOK, Entries, Current
<1>2. pc'[c] = l /\ \A d \in Instances : d # c => pc'[d] = pc[d]
  BY <1>1
<1>3. ASSUME NEW j \in Done(L)'
      PROVE  j \in Done(L) \union {i}
  BY <1>1, <1>2, <1>3, CurrentUnique DEF Done
<1>4. ASSUME NEW p \in Passed(L, K)
      PROVE  p \in Passed(L, K)'
  BY <1>1, <1>2, <1>4 DEF Passed
<1>5. <<c, i>> \notin Passed(L, K)
  BY <1>1 DEF Passed
<1>6. i \in K => <<c, i>> \in Passed(L, K)'
  BY <1>1, <1>2 DEF Passed
<1> QED
  BY <1>3, <1>4, <1>5, <1>6

\* A consumer that does not get there gives up its entry.
LEMMA Drop ==
    ASSUME TypeOK, NEW L, NEW K, NEW c \in Instances, NEW i \in Current(c),
           pc[c] \notin L, NextMessage(c, i), L \subseteq {"archive", "ack"},
           UNCHANGED <<log, acked>>
    PROVE  /\ Done(L)' \subseteq Done(L)
           /\ Passed(L, K) \subseteq Passed(L, K)'
<1>1. /\ pc \in [Instances -> PCs] /\ batch \in [Instances -> SUBSET (1..lastDelivered)]
      /\ Entries' = Entries
  BY DEF TypeOK, ConsumerTypeOK, Entries
<1>2. /\ pc'[c] \notin L /\ batch'[c] = batch[c] \ {i}
      /\ \A d \in Instances : d # c => pc'[d] = pc[d] /\ batch'[d] = batch[d]
  BY <1>1 DEF NextMessage
<1>3. \A d \in Instances : d # c => Current(d)' = Current(d)
  BY <1>2 DEF Current
<1>4. ASSUME NEW j \in Done(L)'
      PROVE  j \in Done(L)
  BY <1>1, <1>2, <1>3, <1>4 DEF Done
<1>5. ASSUME NEW p \in Passed(L, K)
      PROVE  p \in Passed(L, K)'
  BY <1>1, <1>2, <1>3, <1>5 DEF Passed
<1> QED
  BY <1>4, <1>5

\* How many pairs there are after the step into L, and after one that fails.
LEMMA AdvanceCount ==
    ASSUME TypeOK, TypeOK', NEW L, NEW K \in SUBSET Entries,
           NEW c \in Instances, NEW i \in Current(c),
           pc[c] \notin L, NEW l \in L, pc' = [pc EXCEPT ![c] = l],
           UNCHANGED <<log, acked, batch>>
    PROVE  /\ Cardinality(Passed(L, K)) \in Nat /\ Cardinality(Passed(L, K)') \in Nat
           /\ Cardinality(Passed(L, K)) <= Cardinality(Passed(L, K)')
           /\ i \in K => Cardinality(Passed(L, K)) + 1 <= Cardinality(Passed(L, K)')
<1>1. /\ Passed(L, K) \subseteq Passed(L, K)'
      /\ <<c, i>> \notin Passed(L, K)
      /\ i \in K => <<c, i>> \in Passed(L, K)'
  BY Advance
<1>2. IsFiniteSet(Passed(L, K))
  BY PassedFinite
<1>3. IsFiniteSet(Passed(L, K)')
  BY PassedFiniteNext DEF Entries
<1>4. /\ Cardinality(Passed(L, K)) \in Nat /\ Cardinality(Passed(L, K)') \in Nat
      /\ Cardinality(Passed(L, K)) <= Cardinality(Passed(L, K)')
  BY <1>1, <1>2, <1>3, FS_Subset, FS_CardinalityType
<1>5. ASSUME i \in K
      PROVE  Cardinality(Passed(L, K)) + 1 <= Cardinality(Passed(L, K)')
  <2>1. Passed(L, K) \union {<<c, i>>} \subseteq Passed(L, K)'
    BY <1>1, <1>5
  <2> QED
    BY <1>1, <1>2, <1>3, <2>1, GainOne
<1> QED
  BY <1>4, <1>5

LEMMA DropCount ==
    ASSUME TypeOK, TypeOK', NEW L, NEW K \in SUBSET Entries,
           NEW c \in Instances, NEW i \in Current(c),
           pc[c] \notin L, NextMessage(c, i), L \subseteq {"archive", "ack"},
           UNCHANGED <<log, acked>>
    PROVE  /\ Cardinality(Passed(L, K)) \in Nat /\ Cardinality(Passed(L, K)') \in Nat
           /\ Cardinality(Passed(L, K)) <= Cardinality(Passed(L, K)')
<1>1. Passed(L, K) \in SUBSET Passed(L, K)'
  BY Drop
<1>2. IsFiniteSet(Passed(L, K)')
  BY PassedFiniteNext DEF Entries
<1> QED
  BY <1>1, <1>2, FS_Subset, FS_CardinalityType

-----------------------------------------------------------------------------
(* Rows of the archive.                                                    *)

RowsInv ==
    \A r \in Readings :
        rows[r] <= Cardinality(Passed(PastArchive, EntriesWith(r))) + faults

\* The entries with a reading keep it, so they are a set that does not change.
LEMMA RowsStepFor ==
    ASSUME TypeOK, TypeOK', AckedOnce, [Next]_vars, NEW r \in Readings,
           NEW L, L = PastArchive, NEW K, K = EntriesWith(r),
           rows[r] <= Cardinality(Passed(L, K)) + faults
    PROVE  rows'[r] <= Cardinality(Passed(L, K)') + faults'
<1> DEFINE before == Cardinality(Passed(L, K))
           after == Cardinality(Passed(L, K)')
<1>1. rows \in [Readings -> Nat] /\ faults \in Nat /\ faults' \in Nat
  BY IngestionAssumption DEF TypeOK, ConsumerTypeOK
<1>2. K \in SUBSET Entries /\ Entries \subseteq Entries'
  BY LogGrows DEF EntriesWith
<1>3. before \in Nat /\ after \in Nat
  BY <1>2, PassedFinite, PassedFiniteNext
<1>4. CASE \A c \in Instances : ~Archive(c)
  <2>1. UNCHANGED rows
    BY <1>4 DEF Next, Publish, Consume, CheckDuplicate, Enqueue, ExpireDedup, Start,
                EnsureGroup, ReadNew, RecoverPending, Persist, Ack, Crash, vars
  <2>2. Keeps(L, K)
    BY <1>4, OthersKeepPassed
  <2>3. before + faults <= after + faults'
    BY <1>2, <2>2, KeepsCount
  <2> QED
    BY <1>1, <1>3, <2>1, <2>3
<1>5. ASSUME NEW c \in Instances, Archive(c)
      PROVE  rows'[r] <= after + faults'
  <2>1. PICK i \in Current(c) :
          \/ InsertRow(ReadingOf(i)) /\ Goto(c, "ack") /\ UNCHANGED <<batch, faults>>
          \/ InsertRow(ReadingOf(i)) /\ NextMessage(c, i) /\ faults' = faults + 1
          \/ UNCHANGED rows /\ NextMessage(c, i) /\ faults' \in {faults, faults + 1}
    BY <1>5 DEF Archive
  <2>2. /\ UNCHANGED <<log, acked>> /\ pc[c] = "archive" /\ pc[c] \notin L
        /\ pc \in [Instances -> PCs]
    BY <1>5 DEF Archive, TypeOK, ConsumerTypeOK, PastArchive
  <2>3. i \in Entries /\ ReadingOf(i) \in Readings
    BY CurrentEntry, EntryReading
  <2>4. rows[r] <= before + faults
    OBVIOUS
  <2>5. CASE InsertRow(ReadingOf(i)) /\ Goto(c, "ack") /\ UNCHANGED <<batch, faults>>
    <3>1. "ack" \in L
      BY DEF PastArchive
    <3>2. before <= after /\ (i \in K => before + 1 <= after)
      BY <1>2, <2>2, <2>5, <3>1, AdvanceCount
    <3>3. rows'[r] = rows[r] + (IF i \in K THEN 1 ELSE 0)
      BY <1>1, <2>3, <2>5 DEF InsertRow, EntriesWith
    <3> HIDE DEF before, after
    <3> QED
      BY <1>1, <1>3, <2>4, <2>5, <3>2, <3>3
  <2>6. CASE NextMessage(c, i) /\ ~ Goto(c, "ack")
    <3>1. before <= after
      BY <1>2, <2>2, <2>6, DropCount DEF PastArchive
    <3>2. \/ rows'[r] \in {rows[r], rows[r] + 1} /\ faults' = faults + 1
          \/ rows'[r] = rows[r] /\ faults' \in {faults, faults + 1}
      BY <1>1, <2>1, <2>3, <2>6 DEF InsertRow
    <3> HIDE DEF before, after
    <3> QED
      BY <1>1, <1>3, <2>4, <3>1, <3>2
  <2>7. NextMessage(c, i) => ~ Goto(c, "ack")
    BY <2>2 DEF NextMessage
  <2> QED
    BY <2>1, <2>5, <2>6, <2>7
<1> QED
  BY <1>4, <1>5

LEMMA RowsStep == TypeOK /\ TypeOK' /\ AckedOnce /\ RowsInv /\ [Next]_vars => RowsInv'
<1> SUFFICES ASSUME TypeOK, TypeOK', AckedOnce, RowsInv, [Next]_vars, NEW r \in Readings
             PROVE  rows'[r] <= Cardinality(Passed(PastArchive, EntriesWith(r)))' + faults'
  BY DEF RowsInv
<1>0. PICK L : L = PastArchive
  OBVIOUS
<1>1. PICK K : K = EntriesWith(r)
  OBVIOUS
<1>2. PICK Q : Q = EntriesWith(r)'
  OBVIOUS
<1>3. rows'[r] <= Cardinality(Passed(L, K)') + faults'
  BY <1>0, <1>1, RowsStepFor DEF RowsInv
<1>4. Q \in SUBSET Entries' /\ K \in SUBSET Q
  BY <1>1, <1>2, LogGrows DEF EntriesWith, ReadingOf
<1>5. /\ Cardinality(Passed(L, K)') \in Nat
      /\ Cardinality(Passed(L, Q)') \in Nat
      /\ Cardinality(Passed(L, K)') <= Cardinality(Passed(L, Q)')
  <2>1. IsFiniteSet(Passed(L, Q)')
    BY <1>4, PassedFiniteNext
  <2>2. Passed(L, K)' \in SUBSET Passed(L, Q)'
    BY <1>4 DEF Passed
  <2> QED
    BY <2>1, <2>2, FS_Subset, FS_CardinalityType
<1>6. Passed(L, Q)' = Passed(PastArchive, EntriesWith(r))'
  BY <1>0, <1>2
<1>7. rows'[r] \in Nat /\ faults' \in Nat
  BY IngestionAssumption DEF TypeOK, ConsumerTypeOK
<1>8. rows'[r] <= Cardinality(Passed(L, Q)') + faults'
  BY <1>3, <1>5, <1>7
<1> QED
  BY <1>6, <1>8

(***************************************************************************)
(* Each row beyond one per entry and instance is paid for by a fault of    *)
(* its own, for any number of instances: no sequence of redeliveries and   *)
(* refusals adds one.                                                      *)
(***************************************************************************)
THEOREM RowsCorrect == Spec => []ExtraRowsNeedFaults
<1>1. Init => RowsInv
  <2> SUFFICES ASSUME Init, NEW r \in Readings
               PROVE  rows[r] <= Cardinality(Passed(PastArchive, EntriesWith(r))) + faults
    BY DEF RowsInv
  <2>1. Passed(PastArchive, EntriesWith(r)) = {}
    BY DEF Init, Passed, PastArchive, Entries
  <2>2. rows[r] = 0 /\ faults = 0
    BY DEF Init
  <2>3. Cardinality(Passed(PastArchive, EntriesWith(r))) = 0
    BY <2>1, FS_EmptySet
  <2> QED
    BY <2>2, <2>3
<1>2. TypeOK /\ RowsInv => ExtraRowsNeedFaults
  <2> SUFFICES ASSUME TypeOK, RowsInv, NEW r \in Readings
               PROVE  rows[r] <= Cardinality(Instances) * Cardinality(EntriesWith(r)) + faults
    BY DEF ExtraRowsNeedFaults
  <2> DEFINE n == Cardinality(Passed(PastArchive, EntriesWith(r)))
             most == Cardinality(Instances) * Cardinality(EntriesWith(r))
  <2>1. n \in Nat /\ most \in Nat /\ n <= most
    BY PassedFinite DEF EntriesWith
  <2>2. rows[r] \in Nat /\ faults \in Nat /\ rows[r] <= n + faults
    BY IngestionAssumption DEF TypeOK, ConsumerTypeOK, RowsInv
  <2> HIDE DEF n, most
  <2>3. rows[r] <= most + faults
    BY <2>1, <2>2
  <2> QED
    BY <2>3 DEF most
<1> QED
  BY <1>1, <1>2, RowsStep, TypeCorrect, AckedOnceInvariant, PTL DEF Spec

-----------------------------------------------------------------------------
(* Throughput counters.                                                    *)

InSecond(b) == {i \in Entries : Bucket(ReadingOf(i)) = b}

DoneIn(b) == InSecond(b) \intersect Done(PastPersist)

CounterInv ==
    \A b \in Buckets :
        /\ Cardinality(DoneIn(b)) <= throughput[b] \/ throughput[b] = CounterCap
        /\ NoneRefused(b) =>
              throughput[b] <= Cardinality(Passed(PastPersist, InSecond(b))) + faults

\* What Persist does, one run of the script or none.
LEMMA PersistEffect ==
    ASSUME TypeOK, NEW c \in Instances, Persist(c)
    PROVE  /\ UNCHANGED <<log, acked>> /\ pc[c] \notin PastPersist
           /\ \E i \in Current(c) :
                \/ /\ throughput' = [throughput EXCEPT ![Bucket(ReadingOf(i))] = Bump(@)]
                   /\ pc' = [pc EXCEPT ![c] = "archive"] /\ UNCHANGED <<batch, faults>>
                \/ /\ \/ throughput' = [throughput EXCEPT ![Bucket(ReadingOf(i))] = Bump(@)]
                      \/ UNCHANGED throughput
                   /\ NextMessage(c, i) /\ faults' = faults + 1
BY DEF Persist, StoreReading, PastPersist

LEMMA BumpBounds ==
    ASSUME TypeOK, NEW b \in Buckets, NEW i \in Entries,
           throughput' = [throughput EXCEPT ![Bucket(ReadingOf(i))] = Bump(@)]
    PROVE  /\ i \in InSecond(b) => \/ throughput'[b] = throughput[b] + 1
                                   \/ /\ throughput[b] = CounterCap
                                      /\ throughput'[b] = CounterCap
           /\ i \notin InSecond(b) => throughput'[b] = throughput[b]
           /\ throughput[b] <= throughput'[b] /\ throughput'[b] <= throughput[b] + 1
           /\ throughput[b] = CounterCap => throughput'[b] = CounterCap
<1>1. throughput \in [Buckets -> 0..CounterCap] /\ CounterCap \in Nat
  BY HotStoreAssumption DEF TypeOK, HotTypeOK
<1>2. throughput'[b] = IF Bucket(ReadingOf(i)) = b THEN Bump(throughput[b]) ELSE throughput[b]
  BY <1>1
<1>3. throughput[b] \in 0..CounterCap
  BY <1>1
<1>4. i \in InSecond(b) <=> Bucket(ReadingOf(i)) = b
  BY DEF InSecond
<1> QED
  BY <1>1, <1>2, <1>3, <1>4 DEF Bump

LEMMA OthersKeepThroughput ==
    ASSUME [Next]_vars, \A c \in Instances : ~Persist(c)
    PROVE  UNCHANGED throughput
BY DEF Next, Publish, Consume, CheckDuplicate, Enqueue, ExpireDedup, Start, EnsureGroup,
       ReadNew, RecoverPending, Archive, Ack, Crash, vars

LEMMA CounterCovers ==
    ASSUME TypeOK, TypeOK', [Next]_vars, NEW b \in Buckets,
           Cardinality(DoneIn(b)) <= throughput[b] \/ throughput[b] = CounterCap
    PROVE  Cardinality(DoneIn(b)') <= throughput'[b] \/ throughput'[b] = CounterCap
<1>1. /\ throughput[b] \in 0..CounterCap /\ throughput'[b] \in 0..CounterCap
      /\ CounterCap \in Nat
  BY HotStoreAssumption DEF TypeOK, HotTypeOK, Buckets
<1>2. IsFiniteSet(DoneIn(b)) /\ Cardinality(DoneIn(b)) \in Nat
  BY EntriesFinite DEF DoneIn, InSecond
<1>3. ASSUME NEW S, S = DoneIn(b)', S \subseteq DoneIn(b)
      PROVE  Cardinality(S) \in Nat /\ Cardinality(S) <= Cardinality(DoneIn(b))
  <2>1. S \in SUBSET DoneIn(b)
    BY <1>3
  <2> QED
    BY <1>2, <2>1, FS_Subset, FS_CardinalityType
<1>4. ASSUME NEW j \in DoneIn(b)', j \in Done(PastPersist)
      PROVE  j \in DoneIn(b)
  <2>1. j \in Entries /\ log'[j] = log[j]
    BY <1>4, LogGrows DEF Done
  <2> QED
    BY <1>4, <2>1 DEF DoneIn, InSecond, ReadingOf, Bucket
<1>5. CASE \A c \in Instances : ~Persist(c)
  <2>1. UNCHANGED throughput
    BY <1>5, OthersKeepThroughput
  <2>2. Done(PastPersist)' \subseteq Done(PastPersist)
    BY <1>5, OthersBringNone
  <2>3. DoneIn(b)' \subseteq DoneIn(b)
    BY <1>4, <2>2 DEF DoneIn
  <2>4. Cardinality(DoneIn(b)') \in Nat /\ Cardinality(DoneIn(b)') <= Cardinality(DoneIn(b))
    BY <1>3, <2>3
  <2> QED
    BY <1>1, <1>2, <2>1, <2>4
<1>6. ASSUME NEW c \in Instances, Persist(c)
      PROVE  Cardinality(DoneIn(b)') <= throughput'[b] \/ throughput'[b] = CounterCap
  <2>1. UNCHANGED <<log, acked>> /\ pc[c] \notin PastPersist
    BY <1>6, PersistEffect
  <2>2. PICK i \in Current(c) :
          \/ /\ throughput' = [throughput EXCEPT ![Bucket(ReadingOf(i))] = Bump(@)]
             /\ pc' = [pc EXCEPT ![c] = "archive"] /\ UNCHANGED <<batch, faults>>
          \/ /\ \/ throughput' = [throughput EXCEPT ![Bucket(ReadingOf(i))] = Bump(@)]
                \/ UNCHANGED throughput
             /\ NextMessage(c, i) /\ faults' = faults + 1
    BY <1>6, PersistEffect
  <2>3. i \in Entries
    BY CurrentEntry
  <2>4. CASE /\ throughput' = [throughput EXCEPT ![Bucket(ReadingOf(i))] = Bump(@)]
             /\ pc' = [pc EXCEPT ![c] = "archive"] /\ UNCHANGED batch
    <3>1. Done(PastPersist)' \subseteq Done(PastPersist) \union {i}
      <4>1. "archive" \in PastPersist
        BY DEF PastPersist
      <4> QED
        BY <2>1, <2>4, <4>1, Advance
    <3>2. DoneIn(b)' \ {i} \subseteq DoneIn(b)
      BY <1>4, <3>1 DEF DoneIn
    <3>3. CASE i \in InSecond(b)
      <4>1. IsFiniteSet(DoneIn(b)')
        <5>1. InSecond(b)' = InSecond(b)
          BY <2>1 DEF InSecond, ReadingOf, Entries, Bucket
        <5>2. DoneIn(b)' \in SUBSET Entries
          BY <5>1 DEF DoneIn, InSecond
        <5> QED
          BY <5>2, EntriesFinite
      <4>2. /\ Cardinality(DoneIn(b)') \in Nat
            /\ Cardinality(DoneIn(b)') <= Cardinality(DoneIn(b)) + 1
        BY <1>2, <3>2, <4>1, LoseOne
      <4> QED
        <5>1. \/ throughput'[b] = throughput[b] + 1
              \/ throughput'[b] = CounterCap
          BY <2>3, <2>4, <3>3, BumpBounds
        <5> QED
          BY <1>1, <1>2, <4>2, <5>1
    <3>4. CASE i \notin InSecond(b)
      <4>1. i \notin DoneIn(b)'
        BY <2>1, <3>4 DEF DoneIn, InSecond, ReadingOf, Entries, Bucket
      <4>2. DoneIn(b)' \subseteq DoneIn(b)
        BY <3>2, <4>1
      <4>3. Cardinality(DoneIn(b)') \in Nat /\ Cardinality(DoneIn(b)') <= Cardinality(DoneIn(b))
        BY <1>3, <4>2
      <4> QED
        <5>1. throughput'[b] = throughput[b]
          BY <2>3, <2>4, <3>4, BumpBounds
        <5> QED
          BY <1>1, <1>2, <4>3, <5>1
    <3> QED
      BY <3>3, <3>4
  <2>5. CASE NextMessage(c, i)
    <3>1. Done(PastPersist)' \subseteq Done(PastPersist)
      BY <2>1, <2>5, Drop DEF PastPersist
    <3>2. DoneIn(b)' \subseteq DoneIn(b)
      BY <1>4, <3>1 DEF DoneIn
    <3>3. Cardinality(DoneIn(b)') \in Nat /\ Cardinality(DoneIn(b)') <= Cardinality(DoneIn(b))
      BY <1>3, <3>2
    <3>4. /\ throughput[b] <= throughput'[b]
          /\ throughput[b] = CounterCap => throughput'[b] = CounterCap
      BY <1>1, <2>2, <2>3, BumpBounds
    <3> QED
      BY <1>1, <1>2, <3>3, <3>4
  <2> QED
    BY <2>2, <2>4, <2>5
<1> QED
  BY <1>5, <1>6

\* The entries of a second stay in it, so they are a set that does not change.
LEMMA CounterBounded ==
    ASSUME TypeOK, TypeOK', AckedOnce, [Next]_vars, NEW b \in Buckets, NoneRefused(b),
           NEW L, L = PastPersist, NEW K, K = InSecond(b),
           throughput[b] <= Cardinality(Passed(L, K)) + faults
    PROVE  throughput'[b] <= Cardinality(Passed(L, K)') + faults'
<1> DEFINE before == Cardinality(Passed(L, K))
           after == Cardinality(Passed(L, K)')
<1>1. throughput[b] \in Nat /\ throughput'[b] \in Nat /\ faults \in Nat /\ faults' \in Nat
  BY HotStoreAssumption, IngestionAssumption
     DEF TypeOK, ConsumerTypeOK, HotTypeOK, Buckets
<1>2. K \in SUBSET Entries /\ K \subseteq Entries'
  BY LogGrows DEF InSecond
<1>3. before \in Nat /\ after \in Nat
  BY <1>2, PassedFinite, PassedFiniteNext
<1>4. CASE \A c \in Instances : ~Persist(c)
  <2>1. UNCHANGED throughput
    BY <1>4, OthersKeepThroughput
  <2>2. \A i \in Entries : i \in K => log[i] \notin Rejected
    BY DEF NoneRefused, InSecond
  <2>3. Keeps(L, K)
    BY <1>4, <2>2, OthersKeepPassed
  <2>4. before + faults <= after + faults'
    BY <1>2, <2>3, KeepsCount
  <2> QED
    BY <1>1, <1>3, <2>1, <2>4
<1>5. ASSUME NEW c \in Instances, Persist(c)
      PROVE  throughput'[b] <= after + faults'
  <2>1. UNCHANGED <<log, acked>> /\ pc[c] \notin L
    BY <1>5, PersistEffect
  <2>2. PICK i \in Current(c) :
          \/ /\ throughput' = [throughput EXCEPT ![Bucket(ReadingOf(i))] = Bump(@)]
             /\ pc' = [pc EXCEPT ![c] = "archive"] /\ UNCHANGED <<batch, faults>>
          \/ /\ \/ throughput' = [throughput EXCEPT ![Bucket(ReadingOf(i))] = Bump(@)]
                \/ UNCHANGED throughput
             /\ NextMessage(c, i) /\ faults' = faults + 1
    BY <1>5, PersistEffect
  <2>3. i \in Entries
    BY CurrentEntry
  <2>4. throughput[b] <= before + faults
    OBVIOUS
  <2>5. CASE /\ throughput' = [throughput EXCEPT ![Bucket(ReadingOf(i))] = Bump(@)]
             /\ pc' = [pc EXCEPT ![c] = "archive"] /\ UNCHANGED <<batch, faults>>
    <3>1. "archive" \in L
      BY DEF PastPersist
    <3>2. before <= after /\ (i \in K => before + 1 <= after)
      BY <1>2, <2>1, <2>5, <3>1, AdvanceCount
    <3>3. /\ throughput'[b] <= throughput[b] + 1
          /\ i \notin K => throughput'[b] = throughput[b]
      BY <2>3, <2>5, BumpBounds
    <3> HIDE DEF before, after
    <3> QED
      BY <1>1, <1>3, <2>4, <2>5, <3>2, <3>3
  <2>6. CASE NextMessage(c, i) /\ faults' = faults + 1
    <3>1. before <= after
      BY <1>2, <2>1, <2>6, DropCount DEF PastPersist
    <3>2. throughput'[b] <= throughput[b] + 1
      BY <1>1, <2>2, <2>3, BumpBounds
    <3> HIDE DEF before, after
    <3> QED
      BY <1>1, <1>3, <2>4, <2>6, <3>1, <3>2
  <2> QED
    BY <2>2, <2>5, <2>6
<1> QED
  BY <1>4, <1>5

LEMMA CounterStep == TypeOK /\ TypeOK' /\ AckedOnce /\ CounterInv /\ [Next]_vars => CounterInv'
<1> SUFFICES ASSUME TypeOK, TypeOK', AckedOnce, CounterInv, [Next]_vars, NEW b \in Buckets
             PROVE  /\ \/ Cardinality(DoneIn(b)') <= throughput'[b]
                       \/ throughput'[b] = CounterCap
                    /\ NoneRefused(b)' =>
                          throughput'[b] <= Cardinality(Passed(PastPersist, InSecond(b)))' + faults'
  BY DEF CounterInv, Buckets
<1>1. Cardinality(DoneIn(b)') <= throughput'[b] \/ throughput'[b] = CounterCap
  BY CounterCovers DEF CounterInv
<1>2. ASSUME NoneRefused(b)'
      PROVE  throughput'[b] <= Cardinality(Passed(PastPersist, InSecond(b)))' + faults'
  <2>1. PICK L : L = PastPersist
    OBVIOUS
  <2>2. PICK K : K = InSecond(b)
    OBVIOUS
  <2>3. PICK Q : Q = InSecond(b)'
    OBVIOUS
  <2>4. \A i \in Entries : i \in Entries' /\ log'[i] = log[i]
    BY LogGrows
  <2>5. NoneRefused(b)
    BY <1>2, <2>4 DEF NoneRefused, ReadingOf, Bucket
  <2>6. throughput'[b] <= Cardinality(Passed(L, K)') + faults'
    BY <2>1, <2>2, <2>5, CounterBounded DEF CounterInv
  <2>7. Q \in SUBSET Entries' /\ K \in SUBSET Q
    BY <2>2, <2>3, <2>4 DEF InSecond, ReadingOf, Bucket
  <2>8. /\ Cardinality(Passed(L, K)') \in Nat /\ Cardinality(Passed(L, Q)') \in Nat
        /\ Cardinality(Passed(L, K)') <= Cardinality(Passed(L, Q)')
    <3>1. IsFiniteSet(Passed(L, Q)')
      BY <2>7, PassedFiniteNext
    <3>2. Passed(L, K)' \in SUBSET Passed(L, Q)'
      BY <2>7 DEF Passed
    <3> QED
      BY <3>1, <3>2, FS_Subset, FS_CardinalityType
  <2>9. Passed(L, Q)' = Passed(PastPersist, InSecond(b))'
    BY <2>1, <2>3
  <2>10. throughput'[b] \in Nat /\ faults' \in Nat
    BY HotStoreAssumption, IngestionAssumption
       DEF TypeOK, ConsumerTypeOK, HotTypeOK, Buckets
  <2>11. throughput'[b] <= Cardinality(Passed(L, Q)') + faults'
    BY <2>6, <2>8, <2>10
  <2> QED
    BY <2>9, <2>11
<1> QED
  BY <1>1, <1>2

(***************************************************************************)
(* A throughput counter covers what is acknowledged in its second and,     *)
(* unless the database refuses an entry of that second, is inflated beyond *)
(* one per entry and instance by faults alone, for any number of instances.*)
(***************************************************************************)
THEOREM CounterCorrect == Spec => []CounterTracksEntries
<1>1. Init => CounterInv
  <2> SUFFICES ASSUME Init, NEW b \in Buckets
               PROVE  /\ Cardinality(DoneIn(b)) = 0
                      /\ Cardinality(Passed(PastPersist, InSecond(b))) = 0
                      /\ throughput[b] = 0 /\ faults = 0
    BY DEF CounterInv
  <2>1. DoneIn(b) = {} /\ Passed(PastPersist, InSecond(b)) = {}
    BY DEF Init, DoneIn, InSecond, Passed, Entries
  <2>2. throughput[b] = 0 /\ faults = 0
    BY DEF Init, HotInit
  <2> QED
    BY <2>1, <2>2, FS_EmptySet
<1>2. TypeOK /\ CounterInv => CounterTracksEntries
  <2> SUFFICES ASSUME TypeOK, CounterInv, NEW b \in Buckets
               PROVE  /\ throughput[b] >= InBucket(acked, b) \/ throughput[b] = CounterCap
                      /\ NoneRefused(b) =>
                           throughput[b] <= Cardinality(Instances) * InBucket(Entries, b) + faults
    BY DEF CounterTracksEntries
  <2>1. throughput[b] \in Nat /\ faults \in Nat
    BY HotStoreAssumption, IngestionAssumption DEF TypeOK, ConsumerTypeOK, HotTypeOK
  <2>2. throughput[b] >= InBucket(acked, b) \/ throughput[b] = CounterCap
    <3> DEFINE A == {i \in acked : Bucket(ReadingOf(i)) = b}
    <3>1. A \in SUBSET DoneIn(b)
      BY AckedEntry DEF DoneIn, InSecond, Done
    <3>2. DoneIn(b) \in SUBSET Entries
      BY DEF DoneIn, InSecond
    <3>3. /\ Cardinality(A) \in Nat /\ Cardinality(DoneIn(b)) \in Nat
          /\ Cardinality(A) <= Cardinality(DoneIn(b))
      BY <3>1, <3>2, SubsetCount
    <3>4. InBucket(acked, b) = Cardinality(A)
      BY DEF InBucket
    <3> HIDE DEF A
    <3> QED
      BY <2>1, <3>3, <3>4 DEF CounterInv
  <2>3. ASSUME NoneRefused(b)
        PROVE  throughput[b] <= Cardinality(Instances) * InBucket(Entries, b) + faults
    <3> DEFINE n == Cardinality(Passed(PastPersist, InSecond(b)))
               most == Cardinality(Instances) * Cardinality(InSecond(b))
    <3>1. n \in Nat /\ most \in Nat /\ n <= most
      BY PassedFinite DEF InSecond
    <3>2. throughput[b] <= n + faults
      BY <2>3 DEF CounterInv
    <3>3. InBucket(Entries, b) = Cardinality(InSecond(b))
      BY DEF InBucket, InSecond
    <3> HIDE DEF n, most
    <3>4. throughput[b] <= most + faults
      BY <2>1, <3>1, <3>2
    <3> QED
      BY <3>3, <3>4 DEF most
  <2> QED
    BY <2>2, <2>3
<1> QED
  BY <1>1, <1>2, CounterStep, TypeCorrect, AckedOnceInvariant, PTL DEF Spec

-----------------------------------------------------------------------------
(* The order of acknowledgement.                                           *)

Held(j) == \E c \in Instances : j \in batch[c]

OrderInv ==
    faults = 0 =>
        /\ \A j \in 1..lastDelivered : Settled(j) \/ Held(j)
        /\ Single => \A i \in acked : \A j \in 1..i : Settled(j)

\* Trimming is for good.
LEMMA TrimGrows ==
    ASSUME TypeOK, [Next]_vars
    PROVE  trimmed <= trimmed' /\ trimmed' \in Int
<1>1. trimmed \in Nat
  BY DEF TypeOK, StreamTypeOK
<1>2. ASSUME NEW q \in Requests, Enqueue(q)
      PROVE  UNCHANGED trimmed \/ \E m \in MsgIds : XAdd(m)
  BY <1>2 DEF Enqueue, TypeOK, ApiTypeOK
<1>3. UNCHANGED trimmed \/ \E m \in MsgIds : XAdd(m)
  BY <1>2 DEF Next, Publish, Consume, CheckDuplicate, ExpireDedup, Start, EnsureGroup,
              ReadNew, RecoverPending, Persist, Archive, Ack, Crash, vars
<1>4. ASSUME NEW m \in MsgIds, XAdd(m)
      PROVE  trimmed <= trimmed' /\ trimmed' \in Int
  <2>1. trimmed' \in trimmed..Len(log')
    BY <1>4, XAddEffect
  <2> QED
    BY <1>1, <2>1
<1> QED
  BY <1>1, <1>3, <1>4

\* An entry that is settled stays so.
LEMMA SettledStays ==
    ASSUME TypeOK, [Next]_vars, NEW j \in 1..lastDelivered, Settled(j)
    PROVE  Settled(j)'
<1>1. log'[j] = log[j]
  <2>1. j \in Entries
    BY DEF TypeOK, StreamTypeOK, Entries
  <2> QED
    BY <2>1, LogGrows
<1>2. acked \subseteq acked'
  BY DEF Next, Publish, Consume, CheckDuplicate, Enqueue, ExpireDedup, Start, EnsureGroup,
         ReadNew, RecoverPending, Persist, Archive, Ack, Crash, vars
<1>3. trimmed <= trimmed' /\ trimmed' \in Int
  BY TrimGrows
<1>4. trimmed \in Nat /\ j \in Nat
  BY DEF TypeOK, StreamTypeOK
<1> QED
  BY <1>1, <1>2, <1>3, <1>4 DEF Settled

\* Without a fault an instance gives up only what is settled, and a step
\* acknowledges only the entry an instance works on.
LEMMA HandsWithoutFault ==
    ASSUME TypeOK, TypeOK', TaskInv, [Next]_vars, faults' = 0
    PROVE  /\ faults = 0
           /\ \A j \in 1..lastDelivered : Held(j) => Held(j)' \/ Settled(j)'
           /\ \A i \in acked' : i \in acked \/ \E c \in Instances : i \in Current(c)
           /\ \A j \in 1..lastDelivered' :
                  j \in 1..lastDelivered \/ j <= trimmed \/ Held(j)'
<1>1. faults \in Nat /\ lastDelivered \in Nat /\ trimmed \in Nat
  BY IngestionAssumption DEF TypeOK, StreamTypeOK, ConsumerTypeOK
<1>2. faults' \in {faults, faults + 1}
  BY DEF Next, Publish, Consume, CheckDuplicate, Enqueue, ExpireDedup, Start, EnsureGroup,
         ReadNew, RecoverPending, Persist, Archive, Ack, Crash, vars
<1>3. faults = 0 /\ faults' # faults + 1
  BY <1>1, <1>2
<1>4. batch \in [Instances -> SUBSET (1..lastDelivered)]
  BY DEF TypeOK, ConsumerTypeOK
<1>5. CASE UNCHANGED <<batch, acked, lastDelivered>>
  <2>1. \A j : Held(j)' = Held(j)
    BY <1>5 DEF Held
  <2> QED
    BY <1>3, <1>5, <2>1
<1>6. ASSUME NEW c \in Instances, ReadNew(c) \/ RecoverPending(c)
      PROVE  /\ \A j : Held(j) => Held(j)'
             /\ acked' = acked
  <2>1. batch[c] = {} /\ \A d \in Instances : d # c => batch'[d] = batch[d]
    BY <1>4, <1>6 DEF TaskInv, Working, ReadNew, RecoverPending
  <2>2. acked' = acked
    BY <1>6 DEF ReadNew, RecoverPending
  <2> QED
    BY <2>1, <2>2 DEF Held
<1>7. ASSUME NEW c \in Instances, RecoverPending(c)
      PROVE  lastDelivered' = lastDelivered
  BY <1>7 DEF RecoverPending
<1>8. ASSUME NEW c \in Instances, ReadNew(c), NEW j \in 1..lastDelivered'
      PROVE  j \in 1..lastDelivered \/ j <= trimmed \/ Held(j)'
  <2>1. \/ UNCHANGED lastDelivered
        \/ Deliver(Oldest(Undelivered)) /\ batch'[c] = Oldest(Undelivered)
    BY <1>3, <1>4, <1>8 DEF ReadNew
  <2>2. lastDelivered' \in Nat
    BY DEF TypeOK, StreamTypeOK
  <2>3. CASE UNCHANGED lastDelivered
    BY <2>3
  <2>4. CASE Deliver(Oldest(Undelivered)) /\ batch'[c] = Oldest(Undelivered)
    <3>1. CASE j \in (lastDelivered + 1)..lastDelivered' /\ j > trimmed
      <4>1. j \in Oldest(Undelivered)
        BY <2>4, <3>1, OldestSkipsNothing
      <4> QED
        BY <2>4, <4>1 DEF Held
    <3> QED
      BY <1>1, <2>2, <3>1
  <2> QED
    BY <2>1, <2>3, <2>4
<1>9. ASSUME NEW c \in Instances, Archive(c)
      PROVE  /\ \A j \in 1..lastDelivered : Held(j) => Held(j)' \/ Settled(j)'
             /\ UNCHANGED <<acked, lastDelivered>>
  <2>1. UNCHANGED <<lastDelivered, acked, log>>
    BY <1>9 DEF Archive
  <2>2. PICK i \in Current(c) :
            UNCHANGED batch \/ (log[i] \in Rejected /\ NextMessage(c, i))
    BY <1>3, <1>9 DEF Archive
  <2>3. CASE UNCHANGED batch
    BY <2>1, <2>3 DEF Held
  <2>4. CASE log[i] \in Rejected /\ NextMessage(c, i)
    <3>1. /\ batch'[c] = batch[c] \ {i} /\ Settled(i)'
          /\ \A d \in Instances : d # c => batch'[d] = batch[d]
      BY <1>4, <2>1, <2>4 DEF NextMessage, Settled
    <3> QED
      BY <2>1, <3>1 DEF Held
  <2> QED
    BY <2>2, <2>3, <2>4
<1>10. ASSUME NEW c \in Instances, Ack(c)
       PROVE  /\ \A j \in 1..lastDelivered : Held(j) => Held(j)' \/ Settled(j)'
              /\ \A i \in acked' : i \in acked \/ i \in Current(c)
              /\ UNCHANGED lastDelivered
  <2>1. PICK i \in Current(c) : acked' = acked \union {i} /\ NextMessage(c, i)
    BY <1>3, <1>10 DEF Ack
  <2>2. /\ batch'[c] = batch[c] \ {i} /\ Settled(i)'
        /\ \A d \in Instances : d # c => batch'[d] = batch[d]
    BY <1>4, <2>1 DEF NextMessage, Settled
  <2>3. UNCHANGED lastDelivered
    BY <1>10 DEF Ack
  <2> QED
    BY <2>1, <2>2, <2>3 DEF Held
<1>11. \/ UNCHANGED <<batch, acked, lastDelivered>>
       \/ \E c \in Instances :
             ReadNew(c) \/ RecoverPending(c) \/ Archive(c) \/ Ack(c)
  BY <1>3 DEF Next, Publish, Consume, CheckDuplicate, Enqueue, ExpireDedup, Start,
              EnsureGroup, Persist, Crash, vars
<1> QED
  BY <1>3, <1>5, <1>6, <1>7, <1>8, <1>9, <1>10, <1>11

LEMMA OrderStep == TypeOK /\ TypeOK' /\ TaskInv /\ OrderInv /\ [Next]_vars => OrderInv'
<1> SUFFICES ASSUME TypeOK, TypeOK', TaskInv, OrderInv, [Next]_vars, faults' = 0
             PROVE  OrderInv'
  BY DEF OrderInv
<1>1. /\ faults = 0
      /\ \A j \in 1..lastDelivered : Held(j) => Held(j)' \/ Settled(j)'
      /\ \A i \in acked' : i \in acked \/ \E c \in Instances : i \in Current(c)
      /\ \A j \in 1..lastDelivered' : j \in 1..lastDelivered \/ j <= trimmed \/ Held(j)'
  BY HandsWithoutFault
<1>2. \A j \in 1..lastDelivered : Settled(j) \/ Held(j)
  BY <1>1 DEF OrderInv
<1>3. ASSUME NEW j \in 1..lastDelivered'
      PROVE  Settled(j)' \/ Held(j)'
  <2>1. CASE j \in 1..lastDelivered
    BY <1>1, <1>2, <2>1, SettledStays
  <2>2. CASE j <= trimmed
    <3>1. trimmed <= trimmed' /\ trimmed \in Int /\ trimmed' \in Int /\ j \in Int
      BY TrimGrows DEF TypeOK, StreamTypeOK
    <3>2. j <= trimmed'
      BY <2>2, <3>1
    <3> QED
      BY <3>2 DEF Settled
  <2> QED
    BY <1>1, <2>1, <2>2
<1>4. ASSUME Single, NEW i \in acked', NEW j \in 1..i
      PROVE  Settled(j)'
  <2>1. PICK c : Instances = {c}
    BY <1>4, OneInstance
  <2>2. acked \subseteq 1..lastDelivered /\ lastDelivered \in Nat
    BY DEF TypeOK, StreamTypeOK
  <2>3. CASE i \in acked
    <3>1. Settled(j) /\ j \in 1..lastDelivered
      BY <1>1, <1>4, <2>2, <2>3 DEF OrderInv
    <3> QED
      BY <3>1, SettledStays
  <2>4. CASE i \in Current(c)
    <3>1. i \in batch[c] /\ i \in 1..lastDelivered /\ j \in 1..lastDelivered
      BY <2>1, <2>2, <2>4, CurrentEntry
    <3>2. CASE Settled(j)
      BY <3>1, <3>2, SettledStays
    <3>3. CASE Held(j)
      <4>1. i <= j
        BY <2>1, <2>4, <3>3 DEF Current, Held
      <4>2. i = j
        BY <2>2, <3>1, <4>1
      <4> QED
        BY <1>4, <4>2 DEF Settled
    <3> QED
      BY <1>2, <3>1, <3>2, <3>3
  <2> QED
    BY <1>1, <1>4, <2>1, <2>3, <2>4
<1> QED
  BY <1>3, <1>4 DEF OrderInv, Single

(***************************************************************************)
(* Without a fault nothing delivered is left behind, for any number of     *)
(* instances, and one instance alone acknowledges in the order of the      *)
(* stream, but for the entries that were trimmed or refused.               *)
(***************************************************************************)
THEOREM OrderCorrect == Spec => []OvertakingNeedsFault
<1>1. Init => OrderInv
  BY DEF Init, OrderInv
<1>2. OrderInv => OvertakingNeedsFault
  BY DEF Single, OrderInv, OvertakingNeedsFault, Held
<1> QED
  BY <1>1, <1>2, OrderStep, TypeCorrect, TaskInvariant, PTL DEF Spec

-----------------------------------------------------------------------------
(* What becomes of an accepted message, over the whole pipeline.           *)

\* The archive has the reading, and the hot store does or has had it until
\* it was too old.
InBothStores(r) ==
    /\ rows[r] >= 1
    /\ r \in stored
    /\ r \in hot \/ \E x \in stored : x.sensor = r.sensor /\ x.ts >= r.ts + Retention

\* Where an entry may be.
Accounted(i) ==
    \/ i \in acked /\ InBothStores(ReadingOf(i))
    \/ i \in pel \union Undelivered
    \/ i + MaxLen <= Len(log)

AcceptedIsAccounted ==
    \A m \in MsgIds : "ok" \in answered[m] =>
        /\ \E i \in Entries : log[i] = m
        /\ \A i \in Entries : log[i] = m => Accounted(i)

(***************************************************************************)
(* A message that was answered "ok" has entries in the stream, and each of *)
(* them is acknowledged with its reading in the archive and in the hot     *)
(* store (or evicted there by age alone), or is pending, or waits to be    *)
(* delivered, or has MaxLen newer entries behind it: nothing else can      *)
(* happen to it, for any number of instances, requests, failed commands,   *)
(* lost answers and crashes.                                               *)
(***************************************************************************)
THEOREM AcceptedCorrect == Spec => []AcceptedIsAccounted
<1>1. TypeOK /\ NoSilentLoss /\ AckedIsDurable /\ EvictedOnlyByAge => AcceptedIsAccounted
  <2> SUFFICES ASSUME TypeOK, NoSilentLoss, AckedIsDurable, EvictedOnlyByAge,
                      NEW m \in MsgIds, "ok" \in answered[m]
               PROVE  /\ \E i \in Entries : log[i] = m
                      /\ \A i \in Entries : log[i] = m => Accounted(i)
    BY DEF AcceptedIsAccounted
  <2>1. \E i \in Entries : log[i] = m
    BY DEF NoSilentLoss, EntriesOf
  <2>2. ASSUME NEW i \in acked
        PROVE  InBothStores(ReadingOf(i))
    <3> DEFINE r == ReadingOf(i)
    <3>1. i \in Entries /\ r \in Readings
      BY AckedEntry, EntryReading
    <3>2. r \in stored
      BY DEF AckedIsDurable
    <3>3. r \in hot \/ \E x \in stored : x.sensor = r.sensor /\ x.ts >= r.ts + Retention
      BY <3>2 DEF EvictedOnlyByAge
    <3>4. rows[r] >= 1
      <4> DEFINE A == acked \intersect EntriesWith(r)
      <4>1. A \in SUBSET Entries /\ i \in A
        BY <3>1 DEF EntriesWith
      <4>2. Cardinality(A) <= rows[r]
        BY <3>1 DEF AckedIsDurable
      <4> HIDE DEF A
      <4>3. IsFiniteSet(A) /\ Cardinality(A) \in Nat /\ Cardinality(A) # 0
        BY <4>1, EntriesFinite, FS_EmptySet
      <4>4. rows[r] \in Nat
        BY <3>1 DEF TypeOK, ConsumerTypeOK
      <4> QED
        BY <4>2, <4>3, <4>4
    <3> QED
      BY <3>2, <3>3, <3>4 DEF InBothStores
  <2>3. ASSUME NEW i \in Entries
        PROVE  Accounted(i)
    BY <2>2 DEF NoSilentLoss, Accounted
  <2> QED
    BY <2>1, <2>3
<1> QED
  BY <1>1, TypeCorrect, NothingLost, AckedCorrect, ServedCorrect, PTL
=============================================================================
