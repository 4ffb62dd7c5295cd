---------------------------- MODULE ConsumerGroup ----------------------------
(***************************************************************************)
(* What the stream, its consumer group and the loop of stream_consumer do  *)
(* together, whatever the entries carry: an abstract specification that    *)
(* Ingestion implements.  Nothing is bounded here: messages keep arriving, *)
(* commands keep failing, instances keep crashing, and Redis may lose the  *)
(* stream.  An entry is a number, given to a new entry once the old one is *)
(* done with, so behaviours without end have finitely many states.         *)
(***************************************************************************)
EXTENDS Integers, FiniteSets

CONSTANTS
    Entries,    \* numbers of entries
    Instances,  \* processes that run the consumer task
    BatchSize,  \* _BATCH_SIZE
    Refused     \* entries that may fail each time they are processed

ASSUME ConsumerGroupAssumption ==
    /\ Entries \subseteq Nat \ {0}
    /\ BatchSize \in Nat \ {0}
    /\ Refused \subseteq Entries

VARIABLES
    group,    \* whether the consumer group exists
    waiting,  \* entries of the stream not yet delivered
    pending,  \* entries delivered and not acknowledged
    gone,     \* pending entries that were trimmed from the stream
    at,       \* per instance: where its consumer task is
    held      \* per instance: entries fetched and not yet processed

streamVars == <<group, waiting, pending, gone>>
groupVars == <<streamVars, at, held>>

-----------------------------------------------------------------------------
\* What one call returns of the entries in S: COUNT in XREADGROUP.
Oldest(S) == {i \in S : Cardinality({j \in S : j < i}) < BatchSize}

\* The entry an instance is working on.
Head(c) == {e \in held[c] : \A f \in held[c] : e <= f}

Goto(c, l) == at' = [at EXCEPT ![c] = l]

Hold(c, S) == held' = [held EXCEPT ![c] = S]

Init ==
    /\ group = FALSE
    /\ waiting = {} /\ pending = {} /\ gone = {}
    /\ at = [c \in Instances |-> "off"]
    /\ held = [c \in Instances |-> {}]

\* XADD of an entry behind all those of the group; MAXLEN removes the first
\* ones.
Arrive(e, k) ==
    /\ \A f \in waiting \union pending : f < e
    /\ e \notin UNION {held[c] : c \in Instances}
    /\ k < e
    /\ waiting' = {f \in waiting \union {e} : f > k}
    /\ gone' = gone \union {f \in pending : f <= k}
    /\ UNCHANGED <<group, pending, at, held>>

\* Redis comes back without the stream, and so without its group.
LoseStream ==
    /\ group' = FALSE
    /\ waiting' = {} /\ pending' = {} /\ gone' = {}
    /\ UNCHANGED <<at, held>>

\* A group that is not there when the instance starts stays away.
WrongEnter(c) ==
    /\ at[c] = "off"
    /\ Goto(c, "read")
    /\ UNCHANGED <<streamVars, held>>

\* ensure_consumer_group creates the group, from the first entry on.
Enter(c) ==
    /\ at[c] = "off"
    /\ group' = TRUE
    /\ Goto(c, "read")
    /\ UNCHANGED <<waiting, pending, gone, held>>

\* It fails, which ends the task.
EnterFails(c) ==
    /\ at[c] = "off"
    /\ group' \in {group, TRUE}
    /\ Goto(c, "ended")
    /\ UNCHANGED <<waiting, pending, gone, held>>

\* The group's position not moved.
WrongDeliverAgain(S) ==
    /\ S # {}
    /\ pending' = pending \union S
    /\ UNCHANGED <<group, waiting, gone>>

\* The oldest entries go to a consumer, and the group's position behind them.
Deliver(S) ==
    /\ S # {}
    /\ waiting' = waiting \ S
    /\ pending' = pending \union S
    /\ UNCHANGED <<group, gone>>

\* XREADGROUP with ">".  Without the group it fails and is tried again.
Take(c) ==
    /\ at[c] = "read" /\ group
    /\ LET S == Oldest(waiting) IN Deliver(S) /\ Hold(c, S)
    /\ Goto(c, "work")

\* Its answer is lost: the entries are pending and nobody works on them.
TakeLost(c) ==
    /\ at[c] = "read" /\ group
    /\ Deliver(Oldest(waiting))
    /\ UNCHANGED <<at, held>>

\* Nothing new, so the pending entries are due; taken for an empty answer
\* that is then read again.
WrongFindNone(c) ==
    /\ at[c] = "read" /\ group
    /\ waiting = {} /\ pending = {}
    /\ Goto(c, "recover")
    /\ UNCHANGED <<streamVars, held>>

\* Nothing new within _BLOCK_MS, so the pending entries are due.
FindNone(c) ==
    /\ at[c] = "read" /\ group
    /\ waiting = {}
    /\ Goto(c, "recover")
    /\ UNCHANGED <<streamVars, held>>

\* XREADGROUP with "0".
Retake(c) ==
    /\ at[c] = "recover"
    /\ LET S == Oldest(pending) IN S # {} /\ S \intersect gone = {} /\ Hold(c, S)
    /\ Goto(c, "work")
    /\ UNCHANGED streamVars

\* Nothing is pending, the first batch holds a trimmed entry, whose KeyError
\* ends the pass, or the command fails.
LeaveRecovery(c) ==
    /\ at[c] = "recover"
    /\ Goto(c, "read")
    /\ UNCHANGED <<streamVars, held>>

\* After a batch, the pending entries once more.
WrongMoveOn(c, e) ==
    /\ Hold(c, held[c] \ {e})
    /\ Goto(c, IF held[c] = {e} THEN "recover" ELSE "work")

\* On to the next entry of the batch, or back to run.
MoveOn(c, e) ==
    /\ Hold(c, held[c] \ {e})
    /\ Goto(c, IF held[c] = {e} THEN "read" ELSE "work")

\* Both stores have the reading and XACK succeeds.
Done(c, e) ==
    /\ at[c] = "work" /\ e \in Head(c)
    /\ pending' = pending \ {e}
    /\ gone' = gone \ {e}
    /\ MoveOn(c, e)
    /\ UNCHANGED <<group, waiting>>

\* One of the three fails.
Skip(c, e) ==
    /\ at[c] = "work" /\ e \in Head(c)
    /\ MoveOn(c, e)
    /\ UNCHANGED streamVars

\* The process ends, and will be started again.
Stop(c) ==
    /\ at[c] # "off"
    /\ Goto(c, "off")
    /\ Hold(c, {})
    /\ UNCHANGED streamVars

-----------------------------------------------------------------------------
Loop(c) ==
    \/ Enter(c) \/ EnterFails(c)
    \/ Take(c) \/ TakeLost(c) \/ FindNone(c)
    \/ Retake(c) \/ LeaveRecovery(c)
    \/ \E e \in Entries : Done(c, e) \/ Skip(c, e)

Next ==
    \/ \E e \in Entries, k \in Entries \union {0} : Arrive(e, k)
    \/ LoseStream
    \/ \E c \in Instances : Loop(c) \/ Stop(c)

Spec == Init /\ [][Next]_groupVars

(***************************************************************************)
(* The event loop runs the task, docker restarts the process, and nothing  *)
(* fails each time: a command tried again and again succeeds once, except  *)
(* for entries that are refused.                                           *)
(***************************************************************************)
FairSpec ==
    /\ Spec
    /\ \A c \in Instances :
          /\ WF_groupVars(Loop(c))
          /\ SF_groupVars(Enter(c)) /\ SF_groupVars(Take(c))
          /\ SF_groupVars(FindNone(c)) /\ SF_groupVars(Retake(c))
          /\ \A e \in Entries \ Refused : SF_groupVars(Done(c, e))
          /\ \A e \in Refused : SF_groupVars(Skip(c, e))

-----------------------------------------------------------------------------
Places == {"off", "ended", "read", "recover", "work"}

GroupTypeOK ==
    /\ group \in BOOLEAN
    /\ waiting \subseteq Entries /\ pending \subseteq Entries
    /\ waiting \intersect pending = {}
    /\ gone \subseteq pending
    /\ at \in [Instances -> Places]
    /\ held \in [Instances -> SUBSET Entries]
    /\ \A c \in Instances : at[c] = "work" <=> held[c] # {}

Runs == \E c \in Instances : at[c] # "ended"

\* The oldest batch holds a trimmed entry, or nothing that can succeed.
Blocked == Oldest(pending) \intersect gone # {} \/ Oldest(pending) \subseteq Refused

(***************************************************************************)
(* Recovery waits for a moment without new messages.  If these come to an  *)
(* end and the group is there, each pending entry is acknowledged, however *)
(* often commands fail and instances crash, or else the recovery is stuck  *)
(* for good behind a trimmed entry or a whole batch of refused ones.       *)
(***************************************************************************)
PendingIsServed ==
    <>[](waiting = {} /\ group /\ Runs) =>
        \/ <>[]Blocked
        \/ \A e \in Entries \ Refused : e \in pending ~> e \notin pending

(***************************************************************************)
(* While the group exists, new messages are delivered, also when messages  *)
(* keep arriving, and whatever is pending and fails again and again.       *)
(***************************************************************************)
WaitingIsTaken ==
    <>[](group /\ Runs) =>
        \A e \in Entries : e \in waiting ~> e \notin waiting

(***************************************************************************)
(* A running instance does not notice that the group was lost.  An         *)
(* instance that starts creates it again, and what had gathered meanwhile  *)
(* is delivered to it or to another one: one start is enough, unless       *)
(* ensure_consumer_group fails and nothing restarts that instance.         *)
(***************************************************************************)
RestartRepairs ==
    \A c \in Instances, e \in Entries :
        at[c] = "off" /\ e \in waiting ~> e \notin waiting \/ [](at[c] = "ended")
=============================================================================
