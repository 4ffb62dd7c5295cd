------------------------------ MODULE Ingestion ------------------------------
(***************************************************************************)
(* The ingestion service: POST /sensors/data publishes a reading to a      *)
(* Redis stream behind a deduplication key, and a background consumer in   *)
(* every instance reads the stream through one consumer group, writes each *)
(* reading to the hot store, archives it in TimescaleDB and acknowledges   *)
(* it.                                                                     *)
(*                                                                         *)
(* An action is one command to Redis or to the database together with the  *)
(* code up to the next await.  A command may succeed, fail with no effect, *)
(* or take effect and lose its answer; the last two, and the crash of an   *)
(* instance, spend one of MaxFaults.                                       *)
(***************************************************************************)
EXTENDS HotStore, Sequences

CONSTANTS
    MsgIds,       \* message_id values
    Content,      \* the reading each message id carries; a retry repeats it
    Instances,    \* processes of the service
    Requests,     \* slots for POST handlers that are in progress
    Host,         \* the instance each slot belongs to
    Idle,         \* marks a slot with no message to publish
    BatchSize,    \* _BATCH_SIZE
    MaxLen,       \* STREAM_MAX_LEN
    Rejected,     \* messages the database refuses each time; see Archive
    MaxFaults,    \* bound: failed commands, lost answers and crashes
    MaxExpiries   \* bound: expiries of one deduplication key

ASSUME IngestionAssumption ==
    /\ Content \in [MsgIds -> Readings]
    /\ Host \in [Requests -> Instances]
    /\ IsFiniteSet(Requests) /\ IsFiniteSet(Instances) /\ IsFiniteSet(MsgIds)
    /\ Idle \notin MsgIds
    /\ BatchSize \in Nat \ {0}
    /\ MaxLen \in Nat \ {0}
    /\ Rejected \subseteq MsgIds
    /\ MaxFaults \in Nat
    /\ MaxExpiries \in Nat

VARIABLES
    dedup,          \* message ids whose key dedup:{message_id} is alive
    expiries,       \* history: how often the key of a message id expired
    log,            \* message ids in the order of XADD; a position is an entry
    trimmed,        \* the first trimmed entries of the log left the stream
    group,          \* whether the consumer group exists
    lastDelivered,  \* last-delivered-id of the group
    pel,            \* its pending entries, all owned by CONSUMER_NAME
    acked,          \* history: entries acknowledged
    rows,           \* how many rows of the hypertable hold a reading
    posting,        \* per slot: the message being published, or Idle
    answered,       \* history: per message id, which of "ok" and "duplicate"
                    \* some request for it was answered
    pc,             \* per instance: where its consumer task is
    batch,          \* per instance: entries fetched and not yet processed
    faults          \* faults spent

dedupVars == <<dedup, expiries>>
groupVars == <<group, lastDelivered, pel, acked>>
apiVars == <<dedup, expiries, posting, answered>>
streamVars == <<log, trimmed>>
consumerVars == <<pc, batch>>

vars == <<hotVars, dedupVars, streamVars, groupVars, rows,
          posting, answered, consumerVars, faults>>

-----------------------------------------------------------------------------
Entries == 1..Len(log)

ReadingOf(i) == Content[log[i]]

\* Entries of the stream the group has not been given yet.
Undelivered == {i \in Entries : i > lastDelivered /\ i > trimmed}

\* At most BatchSize entries of S, the oldest first: COUNT in XREADGROUP.
Oldest(S) == {i \in S : Cardinality({j \in S : j < i}) < BatchSize}

\* The batch worked through from its newest entry.
WrongCurrentNewest(c) == {i \in batch[c] : \A j \in batch[c] : j <= i}

\* The entry a consumer is working on: the oldest one left in its batch.
Current(c) == {i \in batch[c] : \A j \in batch[c] : i <= j}

Works == UNCHANGED faults

Fails == faults < MaxFaults /\ faults' = faults + 1

Max0(n) == IF n > 0 THEN n ELSE 0

-----------------------------------------------------------------------------
Init ==
    /\ HotInit
    /\ dedup = {} /\ expiries = [m \in MsgIds |-> 0]
    /\ log = <<>> /\ trimmed = 0
    /\ group = FALSE /\ lastDelivered = 0 /\ pel = {} /\ acked = {}
    /\ rows = [r \in Readings |-> 0]
    /\ posting = [q \in Requests |-> Idle]
    /\ answered = [m \in MsgIds |-> {}]
    /\ pc = [c \in Instances |-> "down"]
    /\ batch = [c \in Instances |-> {}]
    /\ faults = 0

-----------------------------------------------------------------------------
(* POST /sensors/data: ingest_sensor_data and publish_reading              *)

Answer(m, status) == answered' = [answered EXCEPT ![m] = @ \union {status}]

\* SET without NX.
WrongCheckWithoutNX(q, m) ==
    /\ posting[q] = Idle
    /\ pc[Host[q]] # "down"
    /\ dedup' = dedup \union {m}
    /\ posting' = [posting EXCEPT ![q] = m]
    /\ UNCHANGED <<hotVars, expiries, answered, streamVars, groupVars, rows,
                   consumerVars, faults>>

\* A request arrives and its SET NX EX takes effect or finds the key.
\* Without an answer from Redis the handler replies 503, which the model
\* does not record.
CheckDuplicate(q, m) ==
    /\ posting[q] = Idle
    /\ pc[Host[q]] # "down"
    /\ \/ /\ m \notin dedup
          /\ dedup' = dedup \union {m}
          /\ \/ posting' = [posting EXCEPT ![q] = m] /\ UNCHANGED answered /\ Works
             \/ UNCHANGED <<posting, answered>> /\ Fails
       \/ /\ m \in dedup
          /\ Answer(m, "duplicate")
          /\ UNCHANGED <<dedup, posting>> /\ Works
       \/ UNCHANGED <<dedup, posting, answered>> /\ Fails
    /\ UNCHANGED <<hotVars, expiries, streamVars, groupVars, rows, consumerVars>>

\* XADD with MAXLEN ~: Redis trims whole nodes, so it may keep more entries
\* than MaxLen and never fewer.
XAdd(m) ==
    /\ log' = Append(log, m)
    /\ trimmed' \in trimmed..Max0(Len(log) + 1 - MaxLen) \union {trimmed}

\* XADD with NOMKSTREAM: nothing is added as long as there is no stream.
WrongEnqueueNoStream(q) ==
    LET m == posting[q] IN
    /\ m # Idle
    /\ posting' = [posting EXCEPT ![q] = Idle]
    /\ Answer(m, "ok")
    /\ IF log = <<>> THEN UNCHANGED streamVars ELSE XAdd(m)
    /\ UNCHANGED <<hotVars, dedupVars, groupVars, rows, consumerVars, faults>>

\* The second command of the handler, and its answer.
Enqueue(q) ==
    LET m == posting[q] IN
    /\ m # Idle
    /\ posting' = [posting EXCEPT ![q] = Idle]
    /\ \/ XAdd(m) /\ Answer(m, "ok") /\ Works
       \/ XAdd(m) /\ UNCHANGED answered /\ Fails
       \/ UNCHANGED <<streamVars, answered>> /\ Fails
    /\ UNCHANGED <<hotVars, dedupVars, groupVars, rows, consumerVars>>

\* The TTL MESSAGE_DEDUP_TTL_SECONDS of a deduplication key runs out.
ExpireDedup(m) ==
    /\ m \in dedup
    /\ expiries[m] < MaxExpiries
    /\ dedup' = dedup \ {m}
    /\ expiries' = [expiries EXCEPT ![m] = @ + 1]
    /\ UNCHANGED <<hotVars, streamVars, groupVars, rows, posting, answered,
                   consumerVars, faults>>

-----------------------------------------------------------------------------
(* stream_consumer: the background task of an instance                     *)

Goto(c, l) == pc' = [pc EXCEPT ![c] = l]

\* lifespan: the pools are open and the consumer task is created.
Start(c) ==
    /\ pc[c] = "down"
    /\ Goto(c, "boot")
    /\ UNCHANGED <<hotVars, apiVars, streamVars, groupVars, rows, batch, faults>>

\* ensure_consumer_group, called outside the try of run: XGROUP CREATE with
\* id 0, where BUSYGROUP is success.  Any other error ends the task for good
\* while the process goes on serving requests.
EnsureGroup(c) ==
    /\ pc[c] = "boot"
    /\ \/ group' = TRUE /\ Goto(c, "read") /\ Works
       \/ group' \in {group, TRUE} /\ Goto(c, "dead") /\ Fails
    /\ UNCHANGED <<hotVars, apiVars, streamVars, lastDelivered, pel, acked,
                   rows, batch>>

\* The group's position not moved.
WrongDeliverAgain(S) ==
    /\ pel' = pel \union S
    /\ UNCHANGED lastDelivered

\* XREADGROUP with NOACK: delivered entries are not pending.
WrongDeliverNoAck(S) ==
    /\ lastDelivered' \in {i \in S : \A j \in S : j <= i}
    /\ UNCHANGED pel

\* XREADGROUP with ">": the group hands out entries it has never delivered
\* and counts them as pending, whether or not the answer arrives.  (A call
\* that fails outright changes nothing, and run tries again.)
Deliver(S) ==
    /\ lastDelivered' \in {i \in S : \A j \in S : j <= i}
    /\ pel' = pel \union S

\* Pending entries never looked at again.
WrongReadNewOnly(c) ==
    /\ pc[c] = "read"
    /\ LET S == Oldest(Undelivered) IN
       /\ S # {} /\ Deliver(S)
       /\ \/ batch' = [batch EXCEPT ![c] = S] /\ Goto(c, "persist") /\ Works
          \/ UNCHANGED consumerVars /\ Fails
    /\ UNCHANGED <<hotVars, apiVars, streamVars, group, acked, rows>>

\* run: one round of its loop.
ReadNew(c) ==
    /\ pc[c] = "read"
    /\ LET S == Oldest(Undelivered) IN
       \/ /\ S # {} /\ Deliver(S)
          /\ batch' = [batch EXCEPT ![c] = S] /\ Goto(c, "persist") /\ Works
       \/ /\ S # {} /\ Deliver(S)
          /\ UNCHANGED consumerVars /\ Fails
       \/ /\ S = {} /\ UNCHANGED <<lastDelivered, pel>>
          /\ Goto(c, "recover") /\ UNCHANGED batch /\ Works
    /\ UNCHANGED <<hotVars, apiVars, streamVars, group, acked, rows>>

\* What was delivered read back, acknowledged or not.
WrongRecoverHistory(c) ==
    /\ pc[c] = "recover"
    /\ LET S == Oldest(1..lastDelivered) IN
       /\ batch' = [batch EXCEPT ![c] = S]
       /\ Goto(c, IF S = {} THEN "read" ELSE "persist")
    /\ UNCHANGED <<hotVars, apiVars, streamVars, groupVars, rows, faults>>

\* _recover_pending: XREADGROUP with "0" returns the oldest pending entries.
\* One that was trimmed comes back without fields; it is the oldest of the
\* batch, and its KeyError ends the whole pass before anything is processed.
RecoverPending(c) ==
    /\ pc[c] = "recover"
    /\ LET S == Oldest(pel) IN
       \/ /\ S # {} /\ \A i \in S : i > trimmed
          /\ batch' = [batch EXCEPT ![c] = S] /\ Goto(c, "persist") /\ Works
       \/ /\ \E i \in S : i <= trimmed
          /\ Goto(c, "read") /\ UNCHANGED batch /\ Works
       \/ S = {} /\ Goto(c, "read") /\ UNCHANGED batch /\ Works
       \/ S # {} /\ Goto(c, "read") /\ UNCHANGED batch /\ Fails
    /\ UNCHANGED <<hotVars, apiVars, streamVars, groupVars, rows>>

\* The end of the loop body of _process_messages, reached with or without
\* an exception: on to the next message of the batch, or back to run.
NextMessage(c, i) ==
    LET rest == batch[c] \ {i} IN
    /\ batch' = [batch EXCEPT ![c] = rest]
    /\ Goto(c, IF rest = {} THEN "read" ELSE "persist")

\* ZADD sent by itself in place of the script.
WrongPersistUnscripted(c) ==
    /\ pc[c] = "persist"
    /\ \E i \in Current(c) :
          /\ hot' = hot \union {ReadingOf(i)}
          /\ stored' = stored \union {ReadingOf(i)}
    /\ UNCHANGED <<sensors, throughput>>
    /\ Goto(c, "archive")
    /\ UNCHANGED <<apiVars, streamVars, groupVars, rows, batch, faults>>

\* persist_reading
Persist(c) ==
    /\ pc[c] = "persist"
    /\ \E i \in Current(c) :
          \/ StoreReading(ReadingOf(i)) /\ Goto(c, "archive") /\ UNCHANGED batch /\ Works
          \/ StoreReading(ReadingOf(i)) /\ NextMessage(c, i) /\ Fails
          \/ UNCHANGED hotVars /\ NextMessage(c, i) /\ Fails
    /\ UNCHANGED <<apiVars, streamVars, groupVars, rows>>

\* _INSERT: the table has no unique key, so ON CONFLICT never applies and
\* each INSERT adds a row.
InsertRow(r) == rows' = [rows EXCEPT ![r] = @ + 1]

\* The error of archive_reading caught before XACK.
WrongArchiveSwallows(c) ==
    /\ pc[c] = "archive"
    /\ \E i \in Current(c) :
          \/ InsertRow(ReadingOf(i)) /\ Works
          \/ UNCHANGED rows /\ Fails
    /\ Goto(c, "ack")
    /\ UNCHANGED <<hotVars, apiVars, streamVars, groupVars, batch>>

\* archive_reading.  The timestamp is passed as a string, which the driver
\* refuses for a TIMESTAMPTZ before it sends anything: with the driver of this
\* code Rejected holds every message.  What lies in the other disjunct is what
\* a driver does that accepts the string, as the comment there expects.
Archive(c) ==
    /\ pc[c] = "archive"
    /\ \E i \in Current(c) :
          \/ /\ log[i] \notin Rejected
             /\ \/ InsertRow(ReadingOf(i)) /\ Goto(c, "ack") /\ UNCHANGED batch /\ Works
                \/ InsertRow(ReadingOf(i)) /\ NextMessage(c, i) /\ Fails
                \/ UNCHANGED rows /\ NextMessage(c, i) /\ Fails
          \/ log[i] \in Rejected /\ UNCHANGED rows /\ NextMessage(c, i) /\ Works
    /\ UNCHANGED <<hotVars, apiVars, streamVars, groupVars>>

\* Acknowledged like an offset: only once nothing older is pending.
WrongAckInOrder(c) ==
    /\ pc[c] = "ack"
    /\ \E i \in Current(c) :
          /\ IF \A j \in pel : i <= j
             THEN pel' = pel \ {i} /\ acked' = acked \union {i}
             ELSE UNCHANGED <<pel, acked>>
          /\ NextMessage(c, i)
    /\ UNCHANGED <<hotVars, apiVars, streamVars, group, lastDelivered, rows, faults>>

\* XACK.  A lost answer only counts an error, so it needs no disjunct.
Ack(c) ==
    /\ pc[c] = "ack"
    /\ \E i \in Current(c) :
          /\ \/ pel' = pel \ {i} /\ acked' = acked \union {i} /\ Works
             \/ UNCHANGED <<pel, acked>> /\ Fails
          /\ NextMessage(c, i)
    /\ UNCHANGED <<hotVars, apiVars, streamVars, group, lastDelivered, rows>>

\* XGROUP DELCONSUMER at shutdown: the pending entries go with the consumer.
WrongCrashForgets(c) ==
    /\ pc[c] # "down"
    /\ Goto(c, "down")
    /\ batch' = [batch EXCEPT ![c] = {}]
    /\ posting' = [q \in Requests |-> IF Host[q] = c THEN Idle ELSE posting[q]]
    /\ pel' = {}
    /\ Fails
    /\ UNCHANGED <<hotVars, dedupVars, streamVars, group, lastDelivered, acked,
                   rows, answered>>

\* The process of an instance ends, in a crash or a shutdown (lifespan
\* cancels the task without waiting for it): its requests get no answer.
Crash(c) ==
    /\ pc[c] # "down"
    /\ Goto(c, "down")
    /\ batch' = [batch EXCEPT ![c] = {}]
    /\ posting' = [q \in Requests |-> IF Host[q] = c THEN Idle ELSE posting[q]]
    /\ Fails
    /\ UNCHANGED <<hotVars, dedupVars, streamVars, groupVars, rows, answered>>

-----------------------------------------------------------------------------
Publish ==
    \/ \E q \in Requests, m \in MsgIds : CheckDuplicate(q, m)
    \/ \E q \in Requests : Enqueue(q)

Consume(c) ==
    \/ Start(c) \/ EnsureGroup(c)
    \/ ReadNew(c) \/ RecoverPending(c)
    \/ Persist(c) \/ Archive(c) \/ Ack(c)

Next ==
    \/ Publish
    \/ \E m \in MsgIds : ExpireDedup(m)
    \/ \E c \in Instances : Consume(c) \/ Crash(c)

Spec == Init /\ [][Next]_vars

(***************************************************************************)
(* An instance is restarted by docker ("restart: unless-stopped") and its  *)
(* event loop keeps running the consumer task.  Nothing makes a client     *)
(* post, a key expire or a command fail.                                   *)
(***************************************************************************)
FairSpec == Spec /\ \A c \in Instances : WF_vars(Consume(c))

-----------------------------------------------------------------------------
PCs == {"down", "boot", "dead", "read", "recover", "persist", "archive", "ack"}

Answers == {"ok", "duplicate"}

ApiTypeOK ==
    /\ dedup \subseteq MsgIds
    /\ expiries \in [MsgIds -> 0..MaxExpiries]
    /\ posting \in [Requests -> MsgIds \union {Idle}]
    /\ answered \in [MsgIds -> SUBSET Answers]

StreamTypeOK ==
    /\ log \in Seq(MsgIds)
    /\ trimmed \in 0..Len(log)
    /\ group \in BOOLEAN
    /\ lastDelivered \in 0..Len(log)
    /\ pel \subseteq 1..lastDelivered
    /\ acked \subseteq 1..lastDelivered

ConsumerTypeOK ==
    /\ pc \in [Instances -> PCs]
    /\ batch \in [Instances -> SUBSET (1..lastDelivered)]
    /\ rows \in [Readings -> Nat]
    /\ faults \in 0..MaxFaults

TypeOK == HotTypeOK /\ ApiTypeOK /\ StreamTypeOK /\ ConsumerTypeOK

EntriesOf(m) == {i \in Entries : log[i] = m}

InFlight(m) == {q \in Requests : posting[q] = m}

EntriesWith(r) == {i \in Entries : ReadingOf(i) = r}

(***************************************************************************)
(* An acknowledged entry is never delivered again, so by then its reading  *)
(* must have reached both stores: the script ran with it, and the table    *)
(* holds a row for each acknowledged entry with that reading.  Failed      *)
(* calls, lost answers, crashes and a second consumer do not change that.  *)
(***************************************************************************)
AckedIsDurable ==
    /\ \A i \in acked : ReadingOf(i) \in stored
    /\ \A r \in Readings : Cardinality(acked \intersect EntriesWith(r)) <= rows[r]

(***************************************************************************)
(* A message answered "ok" is in the stream, and an entry of the stream is *)
(* acknowledged, pending or still to be delivered, unless MAXLEN made room *)
(* for at least MaxLen newer entries: the pipeline loses nothing silently  *)
(* while the backlog fits, whatever commands fail and instances crash.     *)
(***************************************************************************)
NoSilentLoss ==
    /\ \A m \in MsgIds : "ok" \in answered[m] => EntriesOf(m) # {}
    /\ \A i \in Entries :
           \/ i \in acked \union pel \union Undelivered
           \/ i + MaxLen <= Len(log)

(***************************************************************************)
(* Deduplication with concurrent and retried POSTs: counting the requests  *)
(* between SET NX and XADD, a message id enters the stream at most once    *)
(* per life of its deduplication key.                                      *)
(***************************************************************************)
OncePerKeyLife ==
    \A m \in MsgIds :
        Cardinality(EntriesOf(m)) + Cardinality(InFlight(m)) <= expiries[m] + 1

Unheard ==
    {m \in MsgIds :
        "duplicate" \in answered[m] /\ EntriesOf(m) = {} /\ InFlight(m) = {}}

(***************************************************************************)
(* The SET NX and the XADD are two commands, so a key may be left without  *)
(* its message, and each retry is then answered "duplicate".  Only a fault *)
(* does that, to one message for each request it strikes: concurrent POSTs *)
(* and keys that expire while a request is on its way lose none.           *)
(***************************************************************************)
DuplicatesNeedFaults == Cardinality(Unheard) <= Cardinality(Requests) * faults

(***************************************************************************)
(* With one instance the consumer holds only pending entries, so it never  *)
(* processes an entry that is already acknowledged.                        *)
(***************************************************************************)
WorksOnPending ==
    Cardinality(Instances) = 1 => \A c \in Instances : batch[c] \subseteq pel

(***************************************************************************)
(* The pending list is shared, so each instance may process an entry, and  *)
(* several of them at a time.  Each row beyond one per entry and instance  *)
(* is paid for by a fault of its own: redelivery alone, as after a refused *)
(* INSERT or from the hands of another instance, adds none.                *)
(***************************************************************************)
ExtraRowsNeedFaults ==
    \A r \in Readings :
        rows[r] <= Cardinality(Instances) * Cardinality(EntriesWith(r)) + faults

InBucket(S, b) == Cardinality({i \in S : Bucket(ReadingOf(i)) = b})

NoneRefused(b) == \A i \in Entries : Bucket(ReadingOf(i)) = b => log[i] \notin Rejected

(***************************************************************************)
(* A throughput counter is at least the number of entries acknowledged in  *)
(* its second (up to its cap).  It exceeds the entries stamped in that     *)
(* second, once per instance, only by retries after faults, unless one of  *)
(* them is refused by the database and so counted again each time.         *)
(***************************************************************************)
CounterTracksEntries ==
    \A b \in Buckets :
        /\ throughput[b] >= InBucket(acked, b) \/ throughput[b] = CounterCap
        /\ NoneRefused(b) =>
              throughput[b] <= Cardinality(Instances) * InBucket(Entries, b) + faults

Settled(j) == j \in acked \/ j <= trimmed \/ log[j] \in Rejected

(***************************************************************************)
(* Without a fault nothing delivered is left behind: it is acknowledged,   *)
(* trimmed, refused, or in the hands of an instance.  And one instance     *)
(* alone takes what it has in order: an entry is acknowledged before an    *)
(* older one only when the older was trimmed or refused.                   *)
(***************************************************************************)
OvertakingNeedsFault ==
    faults = 0 =>
        /\ \A j \in 1..lastDelivered : Settled(j) \/ \E c \in Instances : j \in batch[c]
        /\ Cardinality(Instances) = 1 => \A i \in acked : \A j \in 1..i : Settled(j)

\* What becomes of an entry at best: one that is refused stays pending, but
\* the script runs with it before it is.
Served(i) ==
    \/ i \in acked \/ i <= trimmed
    \/ log[i] \in Rejected /\ ReadingOf(i) \in stored

\* The recovery does not get to an entry: its first batch holds a trimmed
\* entry, or is full of refused ones.
OutOfReach(i) ==
    /\ i \in pel
    /\ \/ \E j \in Oldest(pel) : j <= trimmed
       \/ i \notin Oldest(pel) /\ \A j \in Oldest(pel) : log[j] \in Rejected

(***************************************************************************)
(* Each message on the stream is acknowledged in the end, after any crash  *)
(* or failure, and one that the database refuses reaches the hot store all *)
(* the same.  There are two ways to miss that, and both are for good: the  *)
(* consumer task of every instance ended at boot, or the first delivery of *)
(* the message met a fault and a full batch of refused ones, or a trimmed  *)
(* one, stands before it in the recovery.                                  *)
(***************************************************************************)
EveryMessageServed ==
    \A m \in MsgIds :
        EntriesOf(m) # {} ~>
            \/ \A i \in EntriesOf(m) : Served(i)
            \/ [](\A c \in Instances : pc[c] = "dead")
            \/ [](faults > 0 /\ \E i \in EntriesOf(m) : OutOfReach(i))

-----------------------------------------------------------------------------
(* The consumer group, whatever its entries carry.                         *)

PlaceOf ==
    [down |-> "off", boot |-> "off", dead |-> "ended", read |-> "read",
     recover |-> "recover", persist |-> "work", archive |-> "work", ack |-> "work"]

Group == INSTANCE ConsumerGroup WITH
    Entries <- 1..(Cardinality(MsgIds) * (MaxExpiries + 1)),
    Refused <- {},
    waiting <- Undelivered,
    pending <- pel,
    gone <- {i \in pel : i <= trimmed},
    at <- [c \in Instances |-> PlaceOf[pc[c]]],
    held <- batch

(***************************************************************************)
(* Seen as entries alone, every step of the service is one of the abstract *)
(* ConsumerGroup or changes nothing there: an entry goes from waiting to   *)
(* pending to acknowledged in no other way, also when calls fail, answers  *)
(* are lost, entries are trimmed or instances crash, and the log never has *)
(* more entries than the lives of the deduplication keys allow.            *)
(***************************************************************************)
GroupSpec == Group!Spec

-----------------------------------------------------------------------------
(* What the comments of the code say and the code does not do.             *)

(***************************************************************************)
(* publish_reading: "Returns True if enqueued, False if the message_id was *)
(* already seen (duplicate)", and the handler answers accordingly: a       *)
(* "duplicate" has been, or is being, put on the stream by another POST.   *)
(***************************************************************************)
DuplicateWasEnqueued ==
    \A m \in MsgIds :
        "duplicate" \in answered[m] => EntriesOf(m) # {} \/ InFlight(m) # {}

(***************************************************************************)
(* archive_reading: "asyncpg parses ISO-8601", and the README: the         *)
(* consumer persists each message in both stores.  So a message on the     *)
(* stream has a row in the end, unless it is trimmed or no consumer runs.  *)
(***************************************************************************)
EveryMessageArchived ==
    \A m \in MsgIds :
        EntriesOf(m) # {} ~>
            \/ rows[Content[m]] > 0
            \/ EntriesOf(m) \subseteq 1..trimmed
            \/ \A c \in Instances : pc[c] = "dead"

(***************************************************************************)
(* run: "if multiple instances of this service run, each message is        *)
(* processed by exactly one consumer": two instances never hold one entry. *)
(***************************************************************************)
ExactlyOneConsumer ==
    \A c, d \in Instances : c # d => batch[c] \intersect batch[d] = {}
=============================================================================
