------------------------ MODULE WorkerRegistryProofs ------------------------
(***************************************************************************)
(* The safety of the worker registry, for any workers, any number of       *)
(* concurrent requests and any bounds: type correctness, whole hashes for  *)
(* listed workers, and races as the only cause of ghosts and of stale      *)
(* marks that are not deserved; and that readers of the registry change    *)
(* nothing and miss nobody who is listed all along.                        *)
(***************************************************************************)
EXTENDS WorkerReports, TLAPS

Actions ==
    \/ \E q \in Slots, w \in Workers : AskRegister(q, w) \/ CheckHealth(q, w) \/ CheckRemove(q, w)
    \/ \E q \in Slots : Register(q) \/ WriteHealth(q) \/ Remove(q) \/ GiveUp(q)
    \/ SweepList \/ TakeCutoff
    \/ \E w \in Workers : ReadBeat(w) \/ MarkStale(w)
    \/ SweepFails
    \/ Tick

(* The disjuncts of Next, in one list.                                     *)
LEMMA NextActions == Next => Actions
BY DEF Next, Serve, Sweep, Actions

-----------------------------------------------------------------------------
(* Type correctness, in three parts.                                       *)

HashTypeOK ==
    /\ members \subseteq Workers /\ described \subseteq Workers
    /\ status \in [Workers -> {"none", "active", "stale"}]
    /\ beat \in [Workers -> Never..MaxTime]
    /\ raced \subseteq Workers

RequestTypeOK ==
    /\ now \in 0..MaxTime
    /\ request \in [Slots -> Request]
    /\ \A q \in Slots : request[q].op # "idle" => request[q].since <= now

SweepTypeOK ==
    /\ sweep \in {"sleep", "listed", "read", "mark"}
    /\ wakeAt \in 0..(MaxTime + StaleAfter)
    /\ cutoff \in -StaleAfter..(now - StaleAfter)
    /\ unread \subseteq Workers /\ overdue \subseteq Workers
    /\ failures \in 0..MaxFailures

LEMMA TypeParts == TypeOK <=> HashTypeOK /\ RequestTypeOK /\ SweepTypeOK
BY DEF TypeOK, HashTypeOK, RequestTypeOK, SweepTypeOK

(* A slot with a request in progress holds a worker and a time.            *)
LEMMA RequestFields ==
    ASSUME RequestTypeOK, NEW q \in Slots, request[q].op # "idle"
    PROVE  request[q].worker \in Workers /\ request[q].since \in 0..now
<1>1. request[q] \in Request /\ request[q] # Idle
  BY DEF RequestTypeOK, Idle
<1>2. request[q] \in [op : Ops, worker : Workers, since : 0..MaxTime]
  BY <1>1 DEF Request
<1>3. request[q].since \in 0..MaxTime /\ request[q].since <= now
  BY <1>2 DEF RequestTypeOK
<1> QED BY <1>2, <1>3 DEF RequestTypeOK

(* Beginning and ending a request keep the slots well formed.              *)
LEMMA BeginType ==
    ASSUME RequestTypeOK, NEW q \in Slots, NEW op \in Ops, NEW w \in Workers,
           NEW t \in 0..now, Begin(q, op, w, t), now' = now
    PROVE  RequestTypeOK'
<1> DEFINE r == [op |-> op, worker |-> w, since |-> t]
<1>1. t \in 0..MaxTime /\ t <= now
  BY WorkerRegistryAssumption DEF RequestTypeOK
<1>2. r \in Request /\ r.since <= now
  BY <1>1 DEF Request
<1>3. request' = [request EXCEPT ![q] = r]
  BY DEF Begin
<1> HIDE DEF r
<1> QED BY <1>2, <1>3 DEF RequestTypeOK

LEMMA EndType ==
    ASSUME RequestTypeOK, NEW q \in Slots, End(q), now' = now
    PROVE  RequestTypeOK'
BY DEF RequestTypeOK, Request, End, Idle

LEMMA SetActiveType ==
    ASSUME HashTypeOK, NEW w \in Workers, NEW t \in 0..MaxTime, SetActive(w, t)
    PROVE  /\ status' \in [Workers -> {"none", "active", "stale"}]
           /\ beat' \in [Workers -> Never..MaxTime]
           /\ beat'[w] = t /\ status'[w] = "active"
BY DEF HashTypeOK, SetActive, Never

(***************************************************************************)
(* The state of the registry stays well formed.                            *)
(***************************************************************************)
THEOREM TypeCorrect == Spec => []TypeOK
<1>1. Init => TypeOK
  BY WorkerRegistryAssumption DEF Init, TypeOK, Request, Idle, Never
<1>2. TypeOK /\ [Next]_vars => TypeOK'
  <2> SUFFICES ASSUME HashTypeOK, RequestTypeOK, SweepTypeOK, [Next]_vars
               PROVE  HashTypeOK' /\ RequestTypeOK' /\ SweepTypeOK'
    BY TypeParts DEF TypeOK, HashTypeOK, RequestTypeOK, SweepTypeOK
  <2> USE WorkerRegistryAssumption
  <2>1. ASSUME NEW q \in Slots, NEW w \in Workers,
               AskRegister(q, w) \/ CheckHealth(q, w) \/ CheckRemove(q, w)
        PROVE  HashTypeOK' /\ RequestTypeOK' /\ SweepTypeOK'
    <3>1. \E op \in Ops, t \in 0..now : Begin(q, op, w, t)
      BY <2>1 DEF AskRegister, CheckHealth, CheckRemove, Ops, RequestTypeOK
    <3>2. UNCHANGED <<hashVars, now, sweepVars, raced>>
      BY <2>1 DEF AskRegister, CheckHealth, CheckRemove
    <3>3. RequestTypeOK'
      BY <3>1, <3>2, BeginType
    <3>4. HashTypeOK' /\ SweepTypeOK'
      BY <3>2 DEF HashTypeOK, SweepTypeOK, hashVars, sweepVars
    <3> QED BY <3>3, <3>4
  <2>2. ASSUME NEW q \in Slots, Register(q)
        PROVE  HashTypeOK' /\ RequestTypeOK' /\ SweepTypeOK'
    <3> DEFINE w == request[q].worker
    <3>1. request[q].op # "idle" /\ End(q) /\ UNCHANGED <<now, sweepVars>>
      BY <2>2 DEF Register
    <3>2. w \in Workers /\ request[q].since \in 0..MaxTime
      BY <3>1, RequestFields DEF RequestTypeOK
    <3>3. RequestTypeOK' /\ SweepTypeOK'
      BY <3>1, EndType DEF SweepTypeOK, sweepVars
    <3>4. status' \in [Workers -> {"none", "active", "stale"}] /\ beat' \in [Workers -> Never..MaxTime]
      BY <2>2, <3>2, SetActiveType DEF Register
    <3>5. members' \subseteq Workers /\ described' \subseteq Workers /\ raced' \subseteq Workers
      BY <2>2, <3>2 DEF Register, NoteArrival, HashTypeOK
    <3> QED BY <3>3, <3>4, <3>5 DEF HashTypeOK
  <2>3. ASSUME NEW q \in Slots, WriteHealth(q)
        PROVE  HashTypeOK' /\ RequestTypeOK' /\ SweepTypeOK'
    <3> DEFINE w == request[q].worker
    <3>1. /\ request[q].op # "idle" /\ End(q)
          /\ UNCHANGED <<members, described, now, sweepVars>>
      BY <2>3 DEF WriteHealth
    <3>2. w \in Workers /\ request[q].since..now \subseteq 0..MaxTime
      BY <3>1, RequestFields DEF RequestTypeOK
    <3>3. RequestTypeOK' /\ SweepTypeOK'
      BY <3>1, EndType DEF SweepTypeOK, sweepVars
    <3>4. status' \in [Workers -> {"none", "active", "stale"}] /\ beat' \in [Workers -> Never..MaxTime]
      BY <2>3, <3>2, SetActiveType DEF WriteHealth
    <3>5. raced' \subseteq Workers
      BY <2>3, <3>2 DEF WriteHealth, NoteArrival, HashTypeOK
    <3> QED BY <3>1, <3>3, <3>4, <3>5 DEF HashTypeOK
  <2>4. ASSUME NEW q \in Slots, Remove(q)
        PROVE  HashTypeOK' /\ RequestTypeOK' /\ SweepTypeOK'
    <3>1. request[q].op # "idle" /\ End(q) /\ UNCHANGED <<now, sweepVars>>
      BY <2>4 DEF Remove
    <3>2. request[q].worker \in Workers
      BY <3>1, RequestFields
    <3>3. RequestTypeOK' /\ SweepTypeOK'
      BY <3>1, EndType DEF SweepTypeOK, sweepVars
    <3>4. HashTypeOK'
      BY <2>4, <3>2 DEF Remove, HashTypeOK, Never, RequestTypeOK
    <3> QED BY <3>3, <3>4
  <2>5. ASSUME NEW q \in Slots, GiveUp(q)
        PROVE  HashTypeOK' /\ RequestTypeOK' /\ SweepTypeOK'
    BY <2>5, EndType DEF GiveUp, HashTypeOK, SweepTypeOK, hashVars, sweepVars
  <2>6. CASE SweepList
    BY <2>6 DEF SweepList, Sleep, HashTypeOK, RequestTypeOK, SweepTypeOK, hashVars
  <2>7. CASE TakeCutoff
    BY <2>7 DEF TakeCutoff, HashTypeOK, RequestTypeOK, SweepTypeOK, hashVars
  <2>8. ASSUME NEW w \in Workers, ReadBeat(w)
        PROVE  HashTypeOK' /\ RequestTypeOK' /\ SweepTypeOK'
    <3>1. HashTypeOK' /\ RequestTypeOK'
      BY <2>8 DEF ReadBeat, HashTypeOK, RequestTypeOK, hashVars
    <3>2. SweepTypeOK'
      BY <2>8 DEF ReadBeat, Sleep, RequestTypeOK, SweepTypeOK
    <3> QED BY <3>1, <3>2
  <2>9. ASSUME NEW w \in Workers, MarkStale(w)
        PROVE  HashTypeOK' /\ RequestTypeOK' /\ SweepTypeOK'
    <3>1. HashTypeOK' /\ RequestTypeOK'
      BY <2>9 DEF MarkStale, HashTypeOK, RequestTypeOK
    <3>2. SweepTypeOK'
      BY <2>9 DEF MarkStale, Sleep, RequestTypeOK, SweepTypeOK
    <3> QED BY <3>1, <3>2
  <2>10. CASE SweepFails
    <3>1. HashTypeOK' /\ RequestTypeOK'
      BY <2>10 DEF SweepFails, HashTypeOK, RequestTypeOK, hashVars
    <3>2. SweepTypeOK'
      BY <2>10 DEF SweepFails, Sleep, RequestTypeOK, SweepTypeOK
    <3> QED BY <3>1, <3>2
  <2>11. CASE Tick
    <3>1. HashTypeOK'
      BY <2>11 DEF Tick, HashTypeOK, hashVars
    <3>2. now' \in 0..MaxTime /\ now' = now + 1 /\ UNCHANGED <<request, sweepVars>>
      BY <2>11 DEF Tick, RequestTypeOK
    <3>3. \A q \in Slots : request[q].op # "idle" => request[q].since <= now + 1
      BY RequestFields DEF RequestTypeOK
    <3>4. RequestTypeOK'
      BY <3>2, <3>3 DEF RequestTypeOK
    <3>5. SweepTypeOK'
      BY <3>2 DEF SweepTypeOK, RequestTypeOK, sweepVars
    <3> QED BY <3>1, <3>4, <3>5
  <2>12. CASE UNCHANGED vars
    BY <2>12 DEF vars, hashVars, sweepVars, HashTypeOK, RequestTypeOK, SweepTypeOK
  <2> QED
    BY <2>1, <2>2, <2>3, <2>4, <2>5, <2>6, <2>7, <2>8, <2>9, <2>10, <2>11, <2>12, NextActions
       DEF Actions
<1> QED BY <1>1, <1>2, PTL DEF Spec

-----------------------------------------------------------------------------
(***************************************************************************)
(* A listed worker has a whole hash.  The members and the registration     *)
(* fields change together, in MULTI blocks; a heartbeat or a sweep may     *)
(* write a hash in between, but only fields that a registration overwrites *)
(* and a removal deletes.                                                  *)
(***************************************************************************)
LEMMA ListedStep == TypeOK /\ ListedIsWhole /\ [Next]_vars => ListedIsWhole'
<1> SUFFICES ASSUME HashTypeOK, RequestTypeOK, SweepTypeOK, ListedIsWhole, [Next]_vars
             PROVE  ListedIsWhole'
  BY TypeParts
<1>1. ASSUME UNCHANGED hashVars
      PROVE  ListedIsWhole'
  BY <1>1 DEF ListedIsWhole, hashVars
<1>2. ASSUME NEW q \in Slots, Register(q)
      PROVE  ListedIsWhole'
  <2> DEFINE w == request[q].worker
  <2>1. request[q].op # "idle"
    BY <1>2 DEF Register
  <2>2. w \in Workers /\ request[q].since \in 0..MaxTime
    BY <2>1, RequestFields, WorkerRegistryAssumption DEF RequestTypeOK
  <2>3. /\ members' = members \union {w} /\ described' = described \union {w}
        /\ SetActive(w, request[q].since)
    BY <1>2 DEF Register
  <2> QED BY <2>2, <2>3 DEF ListedIsWhole, SetActive, HashTypeOK, Never
<1>3. ASSUME NEW q \in Slots, WriteHealth(q)
      PROVE  ListedIsWhole'
  <2> DEFINE w == request[q].worker
  <2>1. request[q].op # "idle" /\ UNCHANGED <<members, described>>
    BY <1>3 DEF WriteHealth
  <2>2. w \in Workers /\ request[q].since..now \subseteq 0..MaxTime
    BY <2>1, RequestFields, WorkerRegistryAssumption DEF RequestTypeOK
  <2>3. \E t \in 0..MaxTime : SetActive(w, t)
    BY <1>3, <2>2 DEF WriteHealth
  <2> QED BY <2>1, <2>2, <2>3 DEF ListedIsWhole, SetActive, HashTypeOK, Never
<1>4. ASSUME NEW q \in Slots, Remove(q)
      PROVE  ListedIsWhole'
  <2>1. request[q].op # "idle"
    BY <1>4 DEF Remove
  <2> QED BY <1>4, <2>1, RequestFields DEF Remove, ListedIsWhole, HashTypeOK
<1>5. ASSUME NEW w \in Workers, MarkStale(w)
      PROVE  ListedIsWhole'
  BY <1>5 DEF MarkStale, ListedIsWhole, HashTypeOK
<1>6. \/ UNCHANGED hashVars
      \/ \E q \in Slots : Register(q) \/ WriteHealth(q) \/ Remove(q)
      \/ \E w \in Workers : MarkStale(w)
  <2>1. CASE Next
    BY <2>1, NextActions DEF Actions, AskRegister, CheckHealth, CheckRemove, GiveUp, SweepList,
       TakeCutoff, ReadBeat, SweepFails, Tick
  <2>2. CASE UNCHANGED vars
    BY <2>2 DEF vars
  <2> QED BY <2>1, <2>2
<1> QED BY <1>1, <1>2, <1>3, <1>4, <1>5, <1>6

(***************************************************************************)
(* Listing the workers never meets a half-written hash of a listed worker. *)
(***************************************************************************)
THEOREM ListedCorrect == Spec => []ListedIsWhole
<1>1. Init => ListedIsWhole
  BY DEF Init, ListedIsWhole
<1> QED BY <1>1, ListedStep, TypeCorrect, PTL DEF Spec

-----------------------------------------------------------------------------
(***************************************************************************)
(* Why ghosts need races: a worker that is not listed and has a hash, or   *)
(* may get one from a heartbeat or a sweep that has looked at it before,   *)
(* was removed under that heartbeat or sweep.                              *)
(***************************************************************************)
GhostInv ==
    \A w \in Workers \ members :
        Exists(w) \/ Pending("health", w) # {} \/ w \in overdue => w \in raced

LEMMA GhostStep == TypeOK /\ GhostInv /\ [Next]_vars => GhostInv'
<1> SUFFICES ASSUME HashTypeOK, RequestTypeOK, SweepTypeOK, GhostInv, [Next]_vars,
                    NEW w \in Workers, w \notin members', w \notin raced'
             PROVE  ~Exists(w)' /\ Pending("health", w)' = {} /\ w \notin overdue'
  BY TypeParts DEF GhostInv
<1> DEFINE Quiet == ~Exists(w) /\ Pending("health", w) = {} /\ w \notin overdue
<1>1. w \notin members /\ w \notin raced => Quiet
  BY DEF GhostInv
<1>2. ASSUME NEW q \in Slots, NEW v \in Workers, AskRegister(q, v) \/ CheckRemove(q, v)
      PROVE  Quiet'
  <2>1. Quiet
    BY <1>1, <1>2 DEF AskRegister, CheckRemove, hashVars
  <2>2. \E op \in Ops \ {"health"}, t \in {0, now} : Begin(q, op, v, t)
    BY <1>2 DEF AskRegister, CheckRemove, Ops
  <2>3. Pending("health", w)' \subseteq Pending("health", w)
    BY <2>2 DEF Pending, Begin, RequestTypeOK
  <2> QED BY <1>2, <2>1, <2>3 DEF AskRegister, CheckRemove, hashVars, sweepVars, Exists
<1>3. ASSUME NEW q \in Slots, NEW v \in Workers, CheckHealth(q, v)
      PROVE  Quiet'
  <2>1. Quiet
    BY <1>1, <1>3 DEF CheckHealth, hashVars
  <2>2. v # w
    BY <1>3, <2>1 DEF CheckHealth
  <2>3. Pending("health", w)' \subseteq Pending("health", w)
    BY <1>3, <2>2 DEF CheckHealth, Pending, Begin, RequestTypeOK
  <2> QED BY <1>3, <2>1, <2>3 DEF CheckHealth, hashVars, sweepVars, Exists
<1>4. ASSUME NEW q \in Slots, End(q)
      PROVE  Pending("health", w)' \subseteq Pending("health", w)
  BY <1>4 DEF End, Pending, Idle, RequestTypeOK
<1>5. ASSUME NEW q \in Slots, Register(q)
      PROVE  Quiet'
  <2>1. w # request[q].worker /\ End(q) /\ UNCHANGED overdue
    BY <1>5 DEF Register, sweepVars
  <2>2. w \notin members /\ w \notin raced
    BY <1>5, <2>1 DEF Register, NoteArrival
  <2>3. UNCHANGED <<status[w], beat[w]>> /\ (w \in described' => w \in described)
    BY <1>5, <2>1 DEF Register, SetActive, HashTypeOK
  <2> QED BY <1>1, <1>4, <2>1, <2>2, <2>3 DEF Exists
<1>6. ASSUME NEW q \in Slots, WriteHealth(q)
      PROVE  Quiet'
  <2>1. End(q) /\ UNCHANGED <<members, described, overdue>>
    BY <1>6 DEF WriteHealth, sweepVars
  <2>2. w \notin raced
    BY <1>6, <2>1 DEF WriteHealth, NoteArrival
  <2>3. Quiet
    BY <1>1, <2>1, <2>2
  <2>4. w # request[q].worker
    BY <1>6, <2>3 DEF WriteHealth, Pending
  <2>5. UNCHANGED <<status[w], beat[w]>>
    BY <1>6, <2>4 DEF WriteHealth, SetActive, HashTypeOK
  <2> QED BY <1>4, <2>1, <2>3, <2>5 DEF Exists
<1>7. ASSUME NEW q \in Slots, Remove(q)
      PROVE  Quiet'
  <2>1. End(q) /\ UNCHANGED overdue
    BY <1>7 DEF Remove, sweepVars
  <2>2. CASE w = request[q].worker
    <3>1. Pending("health", w) = {} /\ w \notin overdue
      BY <1>7, <2>2 DEF Remove
    <3>2. ~Exists(w)'
      BY <1>7, <2>2 DEF Remove, Exists, HashTypeOK
    <3> QED BY <1>4, <2>1, <3>1, <3>2
  <2>3. CASE w # request[q].worker
    <3>1. w \notin members /\ w \notin raced
      BY <1>7, <2>3 DEF Remove
    <3>2. UNCHANGED <<status[w], beat[w]>> /\ (w \in described' => w \in described)
      BY <1>7, <2>3 DEF Remove, HashTypeOK
    <3> QED BY <1>1, <1>4, <2>1, <3>1, <3>2 DEF Exists
  <2> QED BY <2>2, <2>3
<1>8. ASSUME NEW q \in Slots, GiveUp(q)
      PROVE  Quiet'
  BY <1>1, <1>4, <1>8 DEF GiveUp, hashVars, sweepVars, Exists
<1>9. ASSUME NEW v \in Workers, ReadBeat(v)
      PROVE  Quiet'
  <2>1. Quiet
    BY <1>1, <1>9 DEF ReadBeat, hashVars
  <2>2. w \notin overdue'
    BY <1>9, <2>1 DEF ReadBeat, MissedDeadline, Exists
  <2> QED BY <1>9, <2>1, <2>2 DEF ReadBeat, hashVars, Exists, Pending
<1>10. ASSUME NEW v \in Workers, MarkStale(v)
       PROVE  Quiet'
  <2>1. Quiet
    BY <1>1, <1>10 DEF MarkStale
  <2>2. w # v
    BY <1>10, <2>1 DEF MarkStale
  <2> QED BY <1>10, <2>1, <2>2 DEF MarkStale, Exists, Pending, HashTypeOK
<1>11. ASSUME UNCHANGED <<hashVars, request, raced>>, overdue' \subseteq overdue
       PROVE  Quiet'
  BY <1>1, <1>11 DEF hashVars, Exists, Pending
<1>12. CASE SweepList \/ TakeCutoff \/ SweepFails \/ Tick \/ UNCHANGED vars
  BY <1>11, <1>12 DEF SweepList, TakeCutoff, SweepFails, Tick, vars, sweepVars
<1> QED
  BY <1>2, <1>3, <1>5, <1>6, <1>7, <1>8, <1>9, <1>10, <1>12, NextActions DEF Actions

(***************************************************************************)
(* Hashes that nobody lists come from races alone.                         *)
(***************************************************************************)
THEOREM GhostsCorrect == Spec => []GhostsNeedRaces
<1>1. Init => GhostInv
  BY DEF Init, GhostInv, Exists, Pending, Idle
<1>2. GhostInv => GhostsNeedRaces
  BY DEF GhostInv, GhostsNeedRaces
<1> QED BY <1>1, <1>2, GhostStep, TypeCorrect, PTL DEF Spec

-----------------------------------------------------------------------------
(***************************************************************************)
(* Why a stale mark is deserved: what the sweep has judged, and what it    *)
(* has marked, missed the cutoff or was heard of after the sweep looked.   *)
(* The cutoff only grows, so an old judgement stays right.                 *)
(***************************************************************************)
StaleInv ==
    \A w \in members :
        status[w] = "stale" \/ w \in overdue => beat[w] < cutoff \/ w \in raced

LEMMA StaleStep == TypeOK /\ StaleInv /\ [Next]_vars => StaleInv'
<1> SUFFICES ASSUME HashTypeOK, RequestTypeOK, SweepTypeOK, StaleInv, [Next]_vars,
                    NEW w \in members', status'[w] = "stale" \/ w \in overdue'
             PROVE  beat'[w] < cutoff' \/ w \in raced'
  BY TypeParts DEF StaleInv
<1> DEFINE Judged == beat'[w] < cutoff' \/ w \in raced'
<1>1. w \in members /\ (status[w] = "stale" \/ w \in overdue) => beat[w] < cutoff \/ w \in raced
  BY DEF StaleInv
<1>2. ASSUME UNCHANGED <<hashVars, overdue, raced>>, cutoff' \in Int, cutoff' >= cutoff
      PROVE  Judged
  <2>1. beat[w] < cutoff \/ w \in raced
    BY <1>1, <1>2 DEF hashVars
  <2>2. beat[w] \in Int /\ cutoff \in Int
    BY <1>2, WorkerRegistryAssumption DEF HashTypeOK, SweepTypeOK, RequestTypeOK, hashVars, Never
  <2> QED BY <1>2, <2>1, <2>2 DEF hashVars
<1>3. ASSUME NEW q \in Slots, Register(q)
      PROVE  Judged
  <2>0. request[q].worker \in Workers
    BY <1>3, RequestFields DEF Register
  <2>1. CASE w = request[q].worker
    <3>1. status'[w] = "active" /\ overdue' = overdue
      BY <1>3, <2>0, <2>1 DEF Register, SetActive, HashTypeOK, sweepVars
    <3> QED BY <1>3, <2>1, <3>1 DEF Register, NoteArrival
  <2>2. CASE w # request[q].worker
    BY <1>1, <1>3, <2>2 DEF Register, NoteArrival, SetActive, HashTypeOK, sweepVars
  <2> QED BY <2>1, <2>2
<1>4. ASSUME NEW q \in Slots, WriteHealth(q)
      PROVE  Judged
  <2>1. CASE w = request[q].worker
    <3>1. w \in members /\ status'[w] = "active" /\ overdue' = overdue
      BY <1>4, <2>1 DEF WriteHealth, SetActive, HashTypeOK, sweepVars
    <3> QED BY <1>4, <2>1, <3>1 DEF WriteHealth, NoteArrival
  <2>2. CASE w # request[q].worker
    BY <1>1, <1>4, <2>2 DEF WriteHealth, NoteArrival, SetActive, HashTypeOK, sweepVars
  <2> QED BY <2>1, <2>2
<1>5. ASSUME NEW q \in Slots, Remove(q)
      PROVE  Judged
  <2>1. w # request[q].worker
    BY <1>5 DEF Remove
  <2> QED BY <1>1, <1>5, <2>1 DEF Remove, HashTypeOK, sweepVars
<1>6. ASSUME NEW v \in Workers, ReadBeat(v)
      PROVE  Judged
  BY <1>1, <1>6 DEF ReadBeat, MissedDeadline, hashVars
<1>7. ASSUME NEW v \in Workers, MarkStale(v)
      PROVE  Judged
  BY <1>1, <1>7 DEF MarkStale, HashTypeOK
<1>8. CASE TakeCutoff
  <2>1. cutoff' \in Int /\ cutoff' >= cutoff
    BY <1>8, WorkerRegistryAssumption DEF TakeCutoff, SweepTypeOK, RequestTypeOK
  <2> QED BY <1>2, <1>8, <2>1 DEF TakeCutoff
<1>9. CASE SweepFails
  BY <1>1, <1>9 DEF SweepFails, hashVars
<1>10. ASSUME UNCHANGED <<hashVars, overdue, raced, cutoff>>
       PROVE  Judged
  BY <1>1, <1>10 DEF hashVars
<1>11. ASSUME NEW q \in Slots, NEW v \in Workers,
              AskRegister(q, v) \/ CheckHealth(q, v) \/ CheckRemove(q, v)
       PROVE  Judged
  BY <1>10, <1>11 DEF AskRegister, CheckHealth, CheckRemove, sweepVars
<1>12. CASE SweepList \/ Tick \/ UNCHANGED vars
  BY <1>10, <1>12 DEF SweepList, Tick, vars, sweepVars
<1>13. ASSUME NEW q \in Slots, GiveUp(q)
       PROVE  Judged
  BY <1>10, <1>13 DEF GiveUp, sweepVars
<1> QED
  BY <1>3, <1>4, <1>5, <1>6, <1>7, <1>8, <1>9, <1>11, <1>12, <1>13, NextActions DEF Actions

(***************************************************************************)
(* A stale mark without a missed cutoff comes from a race alone.           *)
(***************************************************************************)
THEOREM StaleCorrect == Spec => []StaleMissedCutoff
<1>1. Init => StaleInv
  BY DEF Init, StaleInv
<1>2. StaleInv => StaleMissedCutoff
  BY DEF StaleInv, StaleMissedCutoff
<1> QED BY <1>1, <1>2, StaleStep, TypeCorrect, PTL DEF Spec

-----------------------------------------------------------------------------
(***************************************************************************)
(* Reports.  What a report has still to read is listed, or has been off    *)
(* the list while it ran; and a listed worker has a whole hash.            *)
(***************************************************************************)
ReportInv ==
    /\ ReportTypeOK
    /\ unseen \subseteq members \union lost
    /\ ReportsMissNobody

LEMMA ReportSteps == ReportNext => [Next]_vars
BY DEF ReportNext, ListIds, ReadBack, ReadRow, ReadStatus, AnswerReport, Meanwhile,
       Next, Serve

LEMMA ReportStep ==
    TypeOK /\ ListedIsWhole /\ ReportInv /\ [ReportNext]_<<vars, reportVars>> => ReportInv'
<1> SUFFICES ASSUME TypeOK, ListedIsWhole, ReportInv, [ReportNext]_<<vars, reportVars>>
             PROVE  ReportInv'
  OBVIOUS
<1> USE DEF ReportInv, ReportTypeOK, ReportsMissNobody
<1>1. ASSUME NEW kind \in {"list", "counts"}, ListIds(kind)
      PROVE  ReportInv'
  BY <1>1 DEF ListIds, vars, hashVars, TypeOK
<1>2. ASSUME NEW q \in Slots, ReadBack(q)
      PROVE  ReportInv'
  <2>1. request[q].worker \in Workers /\ members' = members
    BY <1>2, TypeParts, RequestFields DEF ReadBack, WriteHealth
  <2> QED BY <1>2, <2>1 DEF ReadBack
<1>3. ASSUME NEW w \in Workers, ReadRow(w)
      PROVE  ReportInv'
  <2>1. w \in members \union lost /\ w \in unseen /\ UNCHANGED <<members, report, lost>>
    BY <1>3 DEF ReadRow, vars, hashVars
  <2>2. w \in members => Whole(w)
    BY DEF ListedIsWhole, Whole
  <2>3. CASE Whole(w) /\ UNCHANGED <<missing, unparsed>>
    BY <1>3, <2>1, <2>3 DEF ReadRow
  <2>4. CASE ~Whole(w) /\ missing' = missing \union {w} /\ UNCHANGED unparsed
    BY <1>3, <2>1, <2>2, <2>4 DEF ReadRow
  <2>5. CASE ~Whole(w) /\ unparsed' = unparsed \union {w} /\ UNCHANGED missing
    BY <1>3, <2>1, <2>2, <2>5 DEF ReadRow
  <2>6. \/ Whole(w) /\ UNCHANGED <<missing, unparsed>>
        \/ ~Whole(w) /\ missing' = missing \union {w} /\ UNCHANGED unparsed
        \/ ~Whole(w) /\ unparsed' = unparsed \union {w} /\ UNCHANGED missing
    <3>1. CASE Whole(w)
      BY <1>3, <3>1 DEF ReadRow, Whole, Exists
    <3>2. CASE ~Whole(w) /\ ~Exists(w) /\ report = "list"
      BY <1>3, <3>2 DEF ReadRow
    <3>3. CASE ~Whole(w) /\ ~(~Exists(w) /\ report = "list")
      BY <1>3, <3>3 DEF ReadRow
    <3> QED BY <3>1, <3>2, <3>3
  <2> QED BY <2>3, <2>4, <2>5, <2>6
<1>4. ASSUME NEW w \in Workers, ReadStatus(w)
      PROVE  ReportInv'
  <2>1. w \in members \union lost /\ w \in unseen /\ UNCHANGED <<members, report, unparsed, lost>>
    BY <1>4 DEF ReadStatus, vars, hashVars
  <2>2. w \in members => status[w] # "none"
    BY DEF ListedIsWhole
  <2>3. unseen' = unseen \ {w} /\ report = "counts"
    BY <1>4 DEF ReadStatus
  <2>4. CASE status[w] = "none"
    <3>1. missing' = missing \union {w} /\ w \in lost
      BY <1>4, <2>1, <2>2, <2>4 DEF ReadStatus
    <3> QED BY <2>1, <2>3, <3>1
  <2>5. CASE status[w] # "none"
    <3>1. missing' = missing
      BY <1>4, <2>5 DEF ReadStatus
    <3> QED BY <2>1, <2>3, <3>1
  <2> QED BY <2>4, <2>5
<1>5. CASE AnswerReport
  BY <1>5 DEF AnswerReport
<1>6. CASE Meanwhile
  <2>1. members \subseteq Workers /\ UNCHANGED <<report, unseen, missing, unparsed>>
    BY <1>6 DEF Meanwhile, TypeOK
  <2>2. CASE report = "none"
    BY <1>6, <2>1, <2>2 DEF Meanwhile
  <2>3. CASE report # "none"
    BY <1>6, <2>1, <2>3 DEF Meanwhile
  <2> QED BY <2>2, <2>3
<1>7. CASE UNCHANGED <<vars, reportVars>>
  BY <1>7 DEF vars, hashVars, reportVars
<1> QED BY <1>1, <1>2, <1>3, <1>4, <1>5, <1>6, <1>7 DEF ReportNext

(***************************************************************************)
(* The registry with its readers implements the registry alone: listing    *)
(* workers, counting them and answering a heartbeat changes nothing that   *)
(* registration, heartbeats, deregistration and the sweep would not.       *)
(***************************************************************************)
THEOREM ReportsImplementRegistry == ReportSpec => Spec
<1>1. ReportInit => Init
  BY DEF ReportInit
<1>2. [ReportNext]_<<vars, reportVars>> => [Next]_vars
  BY ReportSteps
<1> QED BY <1>1, <1>2, PTL DEF ReportSpec, Spec

LEMMA ReportInvariant == ReportSpec => [](TypeOK /\ ListedIsWhole /\ ReportInv)
<1>1. ReportInit => ReportInv
  BY DEF ReportInit, ReportInv, ReportTypeOK, ReportsMissNobody
<1> QED
  BY <1>1, ReportsImplementRegistry, TypeCorrect, ListedCorrect, ReportStep, PTL
  DEF ReportSpec

(***************************************************************************)
(* The state of a report stays well formed, and each worker it has read is *)
(* in one place of it.                                                     *)
(***************************************************************************)
THEOREM ReportTypeCorrect == ReportSpec => []ReportTypeOK
<1>1. ReportInv => ReportTypeOK
  BY DEF ReportInv
<1> QED BY <1>1, ReportInvariant, PTL

(***************************************************************************)
(* The list of workers, the counts and the answer to a heartbeat leave out *)
(* or fail on no worker that is listed all along, for any number of        *)
(* workers, requests and sweeps.                                           *)
(***************************************************************************)
THEOREM ReportsCorrect == ReportSpec => []ReportsMissNobody
<1>1. ReportInv => ReportsMissNobody
  BY DEF ReportInv
<1> QED BY <1>1, ReportInvariant, PTL
=============================================================================
