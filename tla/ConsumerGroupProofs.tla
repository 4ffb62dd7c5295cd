------------------------- MODULE ConsumerGroupProofs -------------------------
(***************************************************************************)
(* Proofs about ConsumerGroup, for any set of entries, any number of       *)
(* instances and any batch size.                                           *)
(***************************************************************************)
EXTENDS ConsumerGroup, TLAPS

USE DEF Goto, Hold

LEMMA GroupOldestSubset ==
    ASSUME NEW S
    PROVE  Oldest(S) \subseteq S
BY DEF Oldest

\* What the steps of one instance keep, whatever they do to the stream: the
\* task holds entries just when it works on them.
TaskTypeOK ==
    /\ at \in [Instances -> Places]
    /\ held \in [Instances -> SUBSET Entries]
    /\ \A c \in Instances : at[c] = "work" <=> held[c] # {}

StreamOK ==
    /\ group \in BOOLEAN
    /\ waiting \subseteq Entries /\ pending \subseteq Entries
    /\ waiting \intersect pending = {}
    /\ gone \subseteq pending

LEMMA MoveTask ==
    ASSUME TaskTypeOK, NEW c \in Instances, NEW l \in Places, NEW S \in SUBSET Entries,
           l = "work" <=> S # {}, Goto(c, l), Hold(c, S)
    PROVE  TaskTypeOK'
BY DEF TaskTypeOK

LEMMA MoveIdleTask ==
    ASSUME TaskTypeOK, NEW c \in Instances, at[c] # "work",
           NEW l \in Places \ {"work"}, Goto(c, l), UNCHANGED held
    PROVE  TaskTypeOK'
BY DEF TaskTypeOK

LEMMA DeliverStream ==
    ASSUME StreamOK, NEW S \in SUBSET waiting, Deliver(S)
    PROVE  StreamOK' /\ S # {} /\ S \in SUBSET Entries
BY DEF StreamOK, Deliver

LEMMA ProcessTask ==
    ASSUME TaskTypeOK, NEW c \in Instances, NEW e, at[c] = "work", e \in Head(c),
           MoveOn(c, e)
    PROVE  TaskTypeOK'
<1> DEFINE S == held[c] \ {e}
           l == IF held[c] = {e} THEN "read" ELSE "work"
<1>1. S \in SUBSET Entries /\ e \in held[c] /\ l \in Places
  BY DEF TaskTypeOK, Head, Places
<1>2. l = "work" <=> S # {}
  BY <1>1
<1>3. Goto(c, l) /\ Hold(c, S)
  BY DEF MoveOn
<1> HIDE DEF S, l
<1> QED
  BY <1>1, <1>2, <1>3, MoveTask

LEMMA GroupTypeStep == GroupTypeOK /\ [Next]_groupVars => GroupTypeOK'
<1> SUFFICES ASSUME TaskTypeOK, StreamOK, [Next]_groupVars
             PROVE  TaskTypeOK' /\ StreamOK'
  BY DEF GroupTypeOK, TaskTypeOK, StreamOK
<1>1. UNCHANGED <<at, held>> => TaskTypeOK'
  BY DEF TaskTypeOK
<1>2. UNCHANGED streamVars => StreamOK'
  BY DEF StreamOK, streamVars
<1>3. {"off", "ended", "read", "recover", "work"} \subseteq Places
  BY DEF Places
<1>4. ASSUME NEW e \in Entries, NEW k \in Entries \union {0}, Arrive(e, k)
      PROVE  TaskTypeOK' /\ StreamOK'
  <2>1. ~(e < e)
    BY ConsumerGroupAssumption
  <2>2. e \notin pending
    BY <1>4, <2>1 DEF Arrive
  <2> QED
    BY <1>1, <1>4, <2>2 DEF Arrive, StreamOK
<1>5. CASE LoseStream
  BY <1>1, <1>5 DEF LoseStream, StreamOK
<1>6. ASSUME NEW c \in Instances, Enter(c) \/ EnterFails(c)
      PROVE  TaskTypeOK' /\ StreamOK'
  <2>1. StreamOK'
    BY <1>6 DEF Enter, EnterFails, StreamOK
  <2>2. /\ at[c] # "work" /\ UNCHANGED held
        /\ Goto(c, "read") \/ Goto(c, "ended")
    BY <1>6 DEF Enter, EnterFails
  <2> QED
    BY <1>3, <2>1, <2>2, MoveIdleTask
<1>7. ASSUME NEW c \in Instances, Take(c) \/ TakeLost(c)
      PROVE  TaskTypeOK' /\ StreamOK'
  <2>1. Deliver(Oldest(waiting)) /\ Oldest(waiting) \in SUBSET waiting
    BY <1>7, GroupOldestSubset DEF Take, TakeLost
  <2>2. StreamOK' /\ Oldest(waiting) # {} /\ Oldest(waiting) \in SUBSET Entries
    BY <2>1, DeliverStream
  <2>3. CASE Take(c)
    <3>1. Goto(c, "work") /\ Hold(c, Oldest(waiting))
      BY <2>3 DEF Take
    <3> QED
      BY <1>3, <2>2, <3>1, MoveTask
  <2>4. CASE TakeLost(c)
    BY <1>1, <2>2, <2>4 DEF TakeLost
  <2> QED
    BY <1>7, <2>3, <2>4
<1>8. ASSUME NEW c \in Instances, FindNone(c) \/ LeaveRecovery(c)
      PROVE  TaskTypeOK' /\ StreamOK'
  <2>1. /\ at[c] # "work" /\ UNCHANGED <<streamVars, held>>
        /\ Goto(c, "recover") \/ Goto(c, "read")
    BY <1>8 DEF FindNone, LeaveRecovery
  <2> QED
    BY <1>2, <1>3, <2>1, MoveIdleTask
<1>9. ASSUME NEW c \in Instances, Retake(c)
      PROVE  TaskTypeOK' /\ StreamOK'
  <2>1. /\ Oldest(pending) # {} /\ Oldest(pending) \in SUBSET Entries
        /\ Goto(c, "work") /\ Hold(c, Oldest(pending)) /\ UNCHANGED streamVars
    BY <1>9, GroupOldestSubset DEF Retake, StreamOK
  <2> QED
    BY <1>2, <1>3, <2>1, MoveTask
<1>10. ASSUME NEW c \in Instances, NEW e \in Entries, Done(c, e) \/ Skip(c, e)
       PROVE  TaskTypeOK' /\ StreamOK'
  <2>1. TaskTypeOK'
    BY <1>10, ProcessTask DEF Done, Skip
  <2>2. StreamOK'
    BY <1>2, <1>10 DEF Done, Skip, StreamOK
  <2> QED
    BY <2>1, <2>2
<1>11. ASSUME NEW c \in Instances, Stop(c)
       PROVE  TaskTypeOK' /\ StreamOK'
  <2>1. {} \in SUBSET Entries /\ Goto(c, "off") /\ Hold(c, {}) /\ UNCHANGED streamVars
    BY <1>11 DEF Stop
  <2> QED
    BY <1>2, <1>3, <2>1, MoveTask
<1>12. CASE UNCHANGED groupVars
  BY <1>1, <1>2, <1>12 DEF groupVars
<1> QED
  BY <1>4, <1>5, <1>6, <1>7, <1>8, <1>9, <1>10, <1>11, <1>12 DEF Next, Loop

(***************************************************************************)
(* Type correctness of the abstract group: no entry waits and is pending   *)
(* at a time, only pending entries are missed when they are trimmed, and a *)
(* task holds entries exactly while it works on them, however entries      *)
(* arrive, answers are lost, instances stop and the stream is lost.        *)
(***************************************************************************)
THEOREM GroupTypeCorrect == Spec => []GroupTypeOK
<1>1. Init => GroupTypeOK
  BY DEF Init, GroupTypeOK, Places
<1> QED
  BY <1>1, GroupTypeStep, PTL DEF Spec
=============================================================================
