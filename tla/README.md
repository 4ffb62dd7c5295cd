# Formal model of the IoT ingestion backend

TLA+ modules, TLC configurations and TLAPS proofs for the three services of this
repository: `ingestion_service`, `worker_manager_service` and
`metrics_scaling_service`.  Paths below are relative to `src/`.

Sections: inventory · modules and how they correspond to the code · runs ·
bounds · fairness · proofs · what is left out · divergences · plan.

## 1. Inventory

| Component | State it keeps | Operations | Hard behaviours |
| --- | --- | --- | --- |
| Publishing of readings (`ingestion_service/app/routers/sensors.py`, `services/redis_service.py` `publish_reading`) | `dedup:{message_id}` keys with a TTL; the stream `sensors:stream` with `MAXLEN ~` | `POST /sensors/data`: `SET NX EX`, then `XADD`, then `ok` / `duplicate` / 503 | two commands that can fail or lose their answer one by one; concurrent and retried POSTs; expiry between them |
| Stream consumer (`services/stream_consumer.py`) | consumer group (last delivered id, pending entries), a batch in memory | `ensure_consumer_group`, `XREADGROUP >`, recovery `XREADGROUP 0`, persist, archive, `XACK` | crash between any two steps, redelivery, two instances under one consumer name, trimming under the group, messages that always fail |
| Hot store (`_STORE_SCRIPT`) | `sensor:{id}:readings`, `sensors`, `throughput:{second}` | one Lua script per reading: ZADD, ZREMRANGEBYSCORE, SADD, INCR, EXPIRE of the counter | late, repeated and future timestamps; boundary of the cutoff; TTL against windows |
| Archive (`services/timescale_service.py`) | hypertable `sensor_readings` | `INSERT ... ON CONFLICT DO NOTHING` | an argument the driver refuses; a commit whose answer is lost; no unique key |
| Reading queries | none | latest, range with offset paging, list of sensors | pages over a set that changes; answers that must not go back in time |
| Worker registry (`worker_manager_service`) | hash `worker:{id}`, set `workers:all` | register, heartbeat, deregister, list, periodic stale sweep | each operation but register is several commands; the sweep writes from what it read earlier |
| Throughput metrics (`worker_manager_service/app/routers/metrics.py`) | none | counts by status, total of readings, TPS over a window | several reads, each at another moment |
| Metrics and scaling (`metrics_scaling_service`) | none | recommendation from the TPS and the fresh workers | thresholds, clamping, active count from heartbeats and not from status |
| Logging, tracing, Prometheus, configuration, docker | constants and output | | not modelled |

Interaction.  The services share no memory: they meet in Redis.  DB 0 carries the
stream, the deduplication keys, the hot store and the throughput counters (written
by ingestion, summed by the two others); DB 1 carries the workers (written by the
worker manager, read by metrics and scaling).  Inside a service, coroutines of one
event loop interleave at each `await`, that is, between any two commands; several
instances of a service interleave in the same way.

What makes each part correct:

* publishing: a message id enters the stream at most once per life of its key, an
  `ok` is never lost, a `duplicate` is one unless a fault came between key and stream;
* consumer: acknowledged means durable in both stores; each entry is acknowledged,
  pending or deliverable; each entry is processed, and its reading archived, in the
  end;
* hot store: eviction only by age, the latest reading of a listed sensor always
  there, counters complete over the windows that are summed, a paged range query
  misses nothing that stays;
* recovery: what a crash or a failure leaves pending is taken up again, unless
  something stands before it for good; a lost group comes back with a restart;
* registry: a worker in the set has a whole hash, a silent worker becomes stale,
  a worker is stale only for having been silent; a list or a count misses nobody
  who is there all along;
* scaling: the recommendation stays in its clamp, agrees with its action, fits the
  load, and following it the number of workers settles (`SCALE_DOWN` may go on being
  answered, with the number there is).

## 2. Modules and how they correspond to the code

```
HotStore ------- HotStoreProofs
  |-- HotStoreClock --- HotStoreClockProofs      MCHotStoreClock
  |-- HotStoreScan ---- HotStoreScanProofs       MCHotStoreScan
  `-- Ingestion ------- IngestionProofs --- IngestionStoreProofs
        :                                        MCIngestion
      ConsumerGroup --- ConsumerGroupProofs      MCConsumerGroup
WorkerRegistry
  |-- WorkerReports --- WorkerRegistryProofs     MCWorkerRegistry, MCWorkerReports
  `-- Scaling (with ScalingPolicy) -- ScalingProofs      MCScaling
```

A line means EXTENDS, the colon INSTANCE with a refinement mapping.  In all modules one action is one command to Redis or to
the database (or one script, or one MULTI block), together with the code up to the
next `await`; everything else that runs may come between two actions.  Definitions
whose name starts with `Wrong` are faulty versions of the definition after them,
kept to see which property notices; they are no part of the model.  Variables
marked `history` are read by no guard and exist only to state properties.

**HotStore** is the Lua script `_STORE_SCRIPT` as one atomic step (`StoreReading`)
and the TTL of the throughput counters (`ExpireBuckets`).  A sorted set's member is
the JSON payload, so a reading is a record of sensor, timestamp and body, and all the
sorted sets together are the set `hot`.  `stored` is the history of all arguments
of the script.  HotStore is at the same time the abstract specification that the
next two modules implement: they may change the hot store in these two ways and in
no other.

**HotStoreClock** adds the servers' clock: `PersistNow` is `persist_reading` at a
moment, renewing the counter's TTL; `Tick` expires keys.  `Window` is the set of
seconds that `get_current_throughput` and `get_throughput_metrics` sum.  A
producer's clock may be ahead by at most `MaxAhead`; readings arrive in any order
and as late as one likes.  `counted` is the history of the INCRs.

**HotStoreScan** is a client (external) that pages through
`GET /sensors/{id}/data/range` by offset; `Page` is one `ZREVRANGEBYSCORE` with
`LIMIT`, in the order Redis gives it (score, then bytes of the member).
`throughout` is the history of what was in the range from the first page on.
Another client lists sensors (`ListSensors`, a page of SSCAN) and asks for the latest
readings (`GetLatest`, `FindNoReading` for the 404); `newest` is what it was told last.

**Ingestion** is the whole ingestion service.  A slot of `Requests` is a POST
handler in progress: `CheckDuplicate` is SET NX EX, `Enqueue` is XADD and the
answer, `ExpireDedup` the TTL of the key.  The stream is `log` (all entries ever
added, a position being an entry id) of which the first `trimmed` are gone;
`MAXLEN ~` may trim any number of the entries it is allowed to.  The group is
`lastDelivered` and `pel`.  Each instance runs the consumer task, `pc` being the
await it has reached: `Start` and `EnsureGroup` (lifespan), `ReadNew` (XREADGROUP
`>`), `RecoverPending` (XREADGROUP `0`), `Persist`, `Archive`, `Ack`.  Each
command may succeed, fail, or take effect with its answer lost; `Crash` is a crash
or a shutdown of the process.  `rows` is the hypertable as a bag.  `answered` and
`acked` are histories.  What the code does with an exception is kept: a failed
message stays pending and the next one is tried; an error of `ensure_consumer_group`
ends the task for good while the API goes on (`dead`); a trimmed pending entry comes
back without fields and its `KeyError` ends the recovery pass.  `Rejected` is the set
of messages the INSERT refuses each time.  `archive_reading` passes the timestamp as
a string for a `TIMESTAMPTZ`, which asyncpg refuses, so as the code stands `Rejected`
is every message (run `ingest_archive`).  The other runs take none or one of them:
that is the program with a driver that takes the string, as the comment in the code
expects, and what all invariants and theorems allow beside the program as it stands.
With every message refused nothing is acknowledged, and `AckedIsDurable`, for one,
says nothing.

**ConsumerGroup** is what the stream, the group and the loop of `stream_consumer` do
together, whatever the entries carry: the abstract specification of the consumer.
Entries wait, are pending, or are `gone` (trimmed while pending); an instance is
`off`, at work on what it holds, or in between; `Done` and `Skip` are the two ways
an entry is finished with.  The steps persist, archive and ack of Ingestion are
hidden.  Nothing is bounded: an entry's number is given to a new entry once the
old one is done with and none above it waits or is pending (so numbers keep the order
of the stream), messages arrive without end, and commands fail without end.  It has one fault more than Ingestion, `LoseStream`: Redis comes back without
the stream.  Ingestion implements it (`Ingestion!GroupSpec`) with the mapping

| ConsumerGroup | Ingestion |
| --- | --- |
| `Entries` | `1..` the largest length the log can have |
| `waiting` | entries behind `lastDelivered` and not trimmed |
| `pending`, `gone` | `pel`, and those of it that are trimmed |
| `at` | `PlaceOf[pc]`: down and boot are "off", dead is "ended", persist, archive and ack are "work" |
| `held` | `batch` |

What it adds is liveness without bounds: `PendingIsServed`, `WaitingIsTaken` and
`RestartRepairs` hold or fail by the order in which the loop reads, not by the end of
the messages.  For `RestartRepairs` one start of one instance is enough, whatever
else stops or fails.

**WorkerRegistry** is the worker manager.  A worker's hash is what `described`
(the fields only a registration writes), `status` and `beat` hold; `members` is
`workers:all`.  `AskRegister`/`Register`, `CheckHealth`/`WriteHealth` and
`CheckRemove`/`Remove` are the halves of the three requests; `GiveUp` ends one at
any await (failed command, lost connection, crash).  The sweep is `SweepList`
(SMEMBERS), `TakeCutoff`, `ReadBeat` and `MarkStale` (one command each of the two
non-transactional pipelines) and `SweepFails` (the loop's `except`).  `raced` is
the history of workers touched by somebody between another one's look and write.

**WorkerReports** adds what the worker manager reports: `list_workers`, the worker
counts of `get_throughput_metrics`, and the answer to a heartbeat, which HSETs and
then reads the hash back.  One report at a time is followed from its first command
(`ListIds`, `ReadBack`) through one read per hash (`ReadRow`, `ReadStatus`) to its
answer (`AnswerReport`) while everything of WorkerRegistry goes on (`Meanwhile`).
`missing` and `unparsed` are the workers it leaves out or stumbles over, `lost` the
history of those that were off the list at some moment of it.

**ScalingPolicy** is the rule of `GET /scaling/recommendation` as operators over
integers; **Scaling** is the service that evaluates it, reading the throughput, the
set and each heartbeat one command at a time (`ReadThroughput`, `ListMembers`,
`TakeHorizon`, `CountWorker`) while the actions of WorkerRegistry go on
(`ManagerStep`).  The sweep is left out of that composition, since it writes
`status` and this service reads `last_heartbeat` only; the sweep is covered in the
runs of WorkerRegistry itself.  `steady` and `glimpsed` are the histories of the
workers that were fresh all along and at some moment of a count.

## 3. Runs

| Run | Question | Shows |
| --- | --- | --- |
| `hot_clock` | Does the script keep what it must, in any order of readings and against the clock? | `EvictedOnlyByAge`, `LatestIsServed`, `RecentIsKept`, `WindowIsComplete` |
| `hot_scan` | Do clients that page by offset, or ask for the latest readings, miss anything? | `ScanMissesNothing`: no, since what is evicted is always behind what stays (a reading may be seen twice); `LatestNeverRecedes`: the latest readings never go back in time, and a listed sensor is never a 404 |
| `ingest_core` | Concurrent POSTs, an overflowing stream, an expiring key, two faults: is anything acknowledged too early, lost, enqueued or archived twice, or overtaken? | `AckedIsDurable`, `NoSilentLoss`, `OncePerKeyLife`, `WorksOnPending`, `CounterTracksEntries`; each key without its message, extra row and overtaking is a fault's doing (`DuplicatesNeedFaults`, `ExtraRowsNeedFaults`, `OvertakingNeedsFault`); the service implements `HotSpec` |
| `ingest_shared` | Two instances under one consumer name, and a message the database always refuses, which fills a batch: do the others get through, and what does the sharing cost? | `AckedIsDurable`, `NoSilentLoss`, `DuplicatesNeedFaults`; one row more per instance and entry, no more without a fault (`ExtraRowsNeedFaults`), and nothing delivered is left behind without one (`OvertakingNeedsFault`); `EveryMessageServed`: every message is acknowledged in the end, and the refused one stored, unless all consumer tasks ended or, after a fault, the refused one stands before it for good; the service implements `GroupSpec` |
| `ingest_dup` | Was every "duplicate" enqueued? | No: the answer to `SET NX` is lost, the POST fails with 503 and leaves its key (finding) |
| `ingest_archive` | As the driver refuses the string, is any message archived? | No: the recovery stores, counts and is refused for ever (finding) |
| `ingest_two` | Is each message processed by one consumer? | No: all instances are `consumer-1` (finding) |
| `group` | Messages, failures and crashes without end, and a stream that is lost: what do recovery, delivery and the start of an instance promise? | `PendingIsServed` (recovery needs an idle stream, and a first batch that is not blocked), `WaitingIsTaken`, `RestartRepairs` |
| `workers` | Do requests and the sweep leave the registry well formed, and do silent workers become stale? | `ListedIsWhole`, `GhostsNeedRaces`, `StaleMissedCutoff`, `SilentBecomesStale` |
| `workers_zombie` | Is a removed worker's hash gone? | No: a heartbeat that had passed its EXISTS writes it back (finding) |
| `reports` | Can a list, a count or the answer to a heartbeat miss or stumble over a worker? | `ReportsMissNobody`: only one that was off the list while the report ran |
| `scaling` | Is the recommendation consistent with some state of the workers, within the clamp, and stable? | `CountIsConsistent`, `AdviceFits`, `AdviceSettles` |

Each service's type invariant is checked beside these (`TypeOK`, `ClockTypeOK`,
`ScanTypeOK`, `GroupTypeOK`, `ReportTypeOK`, `ScalingTypeOK`).  The properties whose
names end in `NeedFaults` or `NeedsFault` and the ones about races are the counterpart
of the findings: they say that the bad thing of a finding comes about in the way
shown and in no other, and how much of it at most.  `DuplicatesNeedFaults` is that of
`ingest_dup`: one fault (a crash strikes all the POSTs of an instance) leaves at most
one message per request behind its key.  `ingest_core` shows that none is left without
a fault, and `ingest_shared`, with one slot, two messages and two faults, that one fault
leaves one.  `ExtraRowsNeedFaults` is that of `ingest_two`: as many rows as instances
for each entry, and one more for each fault.

## 4. Bounds

* `MaxFaults` (1 or 2) counts failed commands, lost answers and crashes.  Two are
  enough for a crash during the recovery from a crash, a failing retry, and a lost
  answer followed by a failure.  `MaxExpiries` is 1: one key expires once, between
  any two steps.
* Messages: two or three, the first and third with the same reading, so that
  repeated members and repeated rows occur; the two readings of one sensor are a
  retention apart, so that one evicts the other.  The number of
  entries needs no bound of its own: a message enters the stream once per life of
  its key.
* `BatchSize` (10 in the code) is 1 or 2 and `MaxLen` (100000) is 2 to 5: small
  enough that a batch is a proper part of the backlog and that the stream overflows
  in `ingest_core`.  In `ingest_shared` the stream never overflows, so that
  `EveryMessageServed` is about delivery and not about trimming, and a batch is one
  message, so that the refused one fills the batch of a recovery pass and the other can
  stand behind it.  (Without the last disjunct of `EveryMessageServed` the run fails.)
  Batches of several messages are the matter of `ingest_core`, and trimmed pending
  entries of `ingest_core` and `group`.
* `group`: two instances and two entries, one per batch, the first of which may be
  refused each time.  Two suffice: one entry is followed and the other stands for
  whatever precedes it, trimmed, a full batch of refused ones, or merely first.
* `CounterCap` saturates the throughput counters.  In `ingest_core`, where
  `CounterTracksEntries` compares them, it is 5, and no counter can pass 4 (two entries
  in its second and two faults), so the cap hides nothing.  In the other runs of
  Ingestion no property looks at a count and the cap keeps the recovery of a refused
  message finite; in `hot_clock` and `hot_scan` it only keeps the states finite too, as
  `WindowIsComplete` compares a counter with a history of the same cap.
* `MaxTime` stops the clock: in `hot_clock` at 9 ticks, beyond the last reading plus
  retention, TTL and window; in the worker runs at 2, where with `StaleAfter` 1 a
  heartbeat can be fresh, on the boundary and overdue.  At `MaxTime` the sweep's
  sleep counts as over, so that the bound on the clock does not stop the sweep.
* `MaxFailures` (1): sweeps that fail.  `Slots`: two requests in `workers`, so that
  one removes a worker under the other; one in `scaling` and `reports`, where the
  counting or reporting request is the second party.
* `hot_scan`: six readings of two sensors, two at one instant, pages of two; the
  last reading of the range evicts several others at once.
* `Totals` in `scaling` lie on and on both sides of the thresholds of one to three
  workers, and beyond the clamp.
* Symmetry is declared only in runs with safety properties alone whose module treats
  the set uniformly: `Requests` in `ingest_core`, `Workers` in `scaling` and `reports`.

## 5. Fairness

`Ingestion!FairSpec` is weak fairness of `Consume(c)` for each instance: the event
loop keeps running the consumer task, and a container that ended is started again
(`restart: unless-stopped`, docker-compose.yml:22).  Only the task as a whole is
fair; which outcome a command has is not, but faults are bounded, so that in the
end commands succeed.  `ConsumerGroup!FairSpec` has no bound on
faults, so it says what nothing that fails each time means: strong fairness of the
commands of each instance (`Enter`, `Take`, `FindNone`, `Retake`), of `Done` for an
entry that is not refused and of `Skip` for one that is, beside weak fairness of
the loop.  Crashes, failures and messages may still come without end.  Its
properties are therefore implications: recovery promises nothing while new
messages keep waiting (stream_consumer.py:58), nor behind a first batch that holds
a trimmed entry or only refused ones (`Blocked`), and delivery nothing without the
group.  `WorkerRegistry!FairSpec` is weak fairness of `Tick` (time
passes) and `Sweep` (the event loop runs the background task).  Nothing obliges a
client to send a request, a request to come to its end, a key to expire or a
command to fail.  `EveryMessageServed` makes the exceptions which the code forces, and
demands that they be permanent: a consumer task that ended in `ensure_consumer_group`
is not started again by anything, so the tasks of all instances may have ended so; and
an entry whose first delivery met a fault is left to the recovery, which begins with
the oldest pending entries each time and so never gets past a full batch of refused
ones, or a trimmed one.

## 6. Proofs

The proofs hold for every value of the constants that satisfies the assumptions
stated in the modules: any sets of sensors, messages, instances, requests and
workers (finite where a module says so), any batch size, retention, TTL and number
of faults.  An invariant that is not inductive is strengthened first.

| Theorem | Property | Argument |
| --- | --- | --- |
| `HotTypeCorrect`, `EvictionCorrect`, `LatestCorrect` | types, `EvictedOnlyByAge`, `LatestIsServed` | the three together (`HotInv`) are inductive: what a reading evicts is a retention older than that reading, which stays |
| `ClockTypeCorrect` | `ClockTypeOK` | part of `ClockInv` |
| `WindowCorrect` | `WindowIsComplete` | `BucketInv`: while a counter's second can be in a window its deadline is ahead, as each INCR happened at most `MaxAhead` before its second |
| `RecentCorrect` | `RecentIsKept` | from `EvictedOnlyByAge` and `AheadInv`: the reading that evicted is itself at most `MaxAhead` ahead |
| `IngestionImplementsHotStore` | `HotSpec` | each step is the script, or leaves the hot store alone |
| `ServedCorrect` | `EvictedOnlyByAge`, `LatestIsServed` of the service | from the implementation of `HotSpec` |
| `TypeCorrect` (Ingestion) | `TypeOK` | inductive; pending, acknowledged and fetched entries lie at or below `lastDelivered` |
| `AckedCorrect` | `AckedIsDurable` | `DurableInv`: see below |
| `NothingLost` | `NoSilentLoss` | `AccountInv`: an entry at or below `lastDelivered` is acknowledged, pending or trimmed, and trimming stops `MaxLen` short of the end; `OldestSkipsNothing` says a delivery leaves no gap |
| `DeduplicationCorrect` | `OncePerKeyLife` | `DedupInv` counts entries and requests of a message against the lives of its key that are over, plus one while it is alive |
| `DuplicatesCorrect` | `DuplicatesNeedFaults` | `UnsentInv`: counts also the keys nobody has asked for again; a fault adds at most the message of each request it strikes |
| `WorkCorrect` | `WorksOnPending` | `WorkInv`: with one instance its batch is pending, is empty between two batches, and nothing acknowledged is pending (`AckedOnce`) |
| `RowsCorrect`, `CounterCorrect` | `ExtraRowsNeedFaults`, `CounterTracksEntries` | count pairs of an instance and an entry it has brought past the INSERT, or past the script (`Passed`): see below |
| `OrderCorrect` | `OvertakingNeedsFault` | `OrderInv`: without faults, what was delivered is settled or in some batch; one instance works through its own in order |
| `AcceptedCorrect` | what becomes of an accepted message, end to end | from `NoSilentLoss`, `AckedIsDurable` and the `EvictedOnlyByAge` of the hot store: see below |
| `IngestionImplementsGroup` | `GroupSpec` | see below |
| `GroupTypeCorrect` | `GroupTypeOK` | inductive, as the task of an instance (`TaskTypeOK`) and the stream (`StreamOK`) each by itself |
| `ScanTypeCorrect` | `ScanTypeOK` | `PageBound`: a full page ends within the readings there are |
| `LatestCorrectForClients` | `LatestNeverRecedes` | `Backed`: what a client was told was stored, and `LatestIsServed` has something as new |
| `ScanCorrect` | `ScanMissesNothing` | `ScanInv`: a reading there all along was seen or its offset is still ahead; offsets only grow, as what is evicted is older (`StoreKeepsRank`), and a page that leaves something behind is full (`RankOnto`, `FullPage`) |
| `TypeCorrect`, `ListedCorrect` (WorkerRegistry) | `TypeOK`, `ListedIsWhole` | inductive given the types |
| `GhostsCorrect` | `GhostsNeedRaces` | `GhostInv` adds the requests and the sweep about to write to an unlisted hash |
| `StaleCorrect` | `StaleMissedCutoff` | `StaleInv` adds the workers the sweep has judged and not yet marked |
| `ReportsImplementRegistry` | the registry with its readers implements `WorkerRegistry!Spec` | a report only reads, so all that holds of the registry holds beside its readers |
| `ReportTypeCorrect`, `ReportsCorrect` | `ReportTypeOK`, `ReportsMissNobody` | `ReportInv` adds that what is still to be read is listed or in `lost`; `ListedIsWhole` says that a listed hash has all a read needs |
| `RuleFits`, `FittingIsStable` | the rule alone | division rounded up, and monotonicity of the loads, split along the clamp |
| `AdviceCorrect`, `SettlesCorrect` | `AdviceFits`, `AdviceSettles` | `AdviceInv`: an answer is the rule applied to two naturals |
| `ScalingImplementsRegistry` | the composition implements `WorkerRegistry!Spec` | the service's own steps leave the registry's variables alone |
| `CountCorrect` | `CountIsConsistent` | `CountInv` adds that a worker in `steady` is fresh and a fresh one is in `glimpsed` |
| `ScalingTypeCorrect` | `ScalingTypeOK` | the count is bounded by `CountIsConsistent`, the answer by the clamp |

`AckedIsDurable` is the central one and the least obvious.  Two instances may hold
the same entry and both insert a row for it, several entries may carry the same
reading, and rows are only counted.  `DurableInv` therefore counts, for a reading,
the entries *secured*: acknowledged, or in the state `ack` of some instance, that is
with a row and no acknowledgement yet.  Their number never exceeds the rows: an
INSERT adds one row and secures at most one more entry, an XACK moves an entry from
one kind of secured to the other, and a crash only takes entries away.

`RowsCorrect` and `CounterCorrect` hold for any number of instances, which all read as
one consumer and so may work on one entry at a time.  `Passed(L, K)` is the set of pairs
of an instance and an entry of `K` that it has brought into the states `L`, or that is
acknowledged and no longer in its hands.  An INSERT adds a row and a pair, since an
acknowledged entry is given to nobody anew (`HandsStep`); any other step loses at most one pair,
and only by a fault (`OthersKeepPassed`): a crash, a failed or unanswered command.
A refused message is counted by the script at each attempt without a fault, hence
`NoneRefused` for the counters; it has no row, so rows need no such exception.  There are no
more pairs than instances times entries (`PassedFinite`), which is the property.

`AcceptedCorrect` puts the parts together.  `AcceptedIsAccounted`, stated in
IngestionStoreProofs, follows a message answered `ok` through all of them: it has an entry, and each of
its entries is acknowledged with a row in the archive and the reading in the hot store,
or evicted there by a reading a retention newer, or it is pending, or deliverable, or
was overtaken by `MaxLen` newer entries.

`IngestionImplementsGroup` takes two invariants beside the types.  `LogBound`: the log
never outgrows the abstract entries, since an entry is known by its message id and
the number of earlier entries with that id, which `OncePerKeyLife` bounds.
`TaskInv`: an instance holds a batch exactly while it is at work, and has passed
`ensure_consumer_group` when it reads.  Then each action is matched with one of
ConsumerGroup's: an `XADD` with `Arrive`, a delivery with `Take` or, its answer lost,
`TakeLost`, an XACK with `Done`, or with `Skip` when the entry was no longer pending or
the command failed; what happens within the processing of an entry is a stutter.

HotStoreClock and HotStoreScan are written with the steps of HotStore, so that they
implement `HotSpec` is a lemma there and no result.

Model-checked only: liveness (`EveryMessageServed`, `PendingIsServed`,
`WaitingIsTaken`, `RestartRepairs`, `SilentBecomesStale`), since fairness is out of the
proof system's reach.  Every invariant and every refinement of the passing runs is proved.

## 7. What is left out, and why

* In Ingestion, Redis and TimescaleDB keep their data.  A Redis that loses the stream
  is a step of ConsumerGroup (`LoseStream`), which carries no contents.
* A message id always carries the same reading.  The default timestamp of a POST
  that omits it is taken at each attempt, which matters only to a retry after the
  deduplication key expired.
* Throughput counters do not expire in Ingestion; that is HotStoreClock's subject.
* Which values the database driver refuses: a message is refused always (`Rejected`)
  or fails by a fault.
* Retries inside the Redis client.  redis-py 5, the lowest version the services require,
  sends a command once; a later one that repeats a command by itself can repeat a
  `SET NX` whose answer was lost, which is one more way to the state of `ingest_dup`.
* The cursor of SSCAN is Redis's; a page holds some of the sensors.  `get_worker` is
  called by no route.
* The total of readings in the worker manager's metrics: a sum of ZCARDs at
  different moments over sets that are trimmed meanwhile promises nothing to check.
* Two reports at once: they only read, so they do not influence each other.
* Several instances of the worker manager: one background task is modelled.
  Requests of several instances are what several slots are.
* Floating point: `total / window` is exact in the model; the code compares a
  double.
* Logging, tracing, Prometheus metrics, configuration, docker: output and constants.

## 8. Divergences

With a run that shows them (`PROJECT.json`, findings): `ingest_dup`, `ingest_archive`,
`ingest_two`, `workers_zombie`.

Noticed while modelling, without a run of its own:

* "ON CONFLICT DO NOTHING makes this idempotent" (timescale_service.py:74): the table
  has no unique key, so it never applies and a repeated INSERT adds a row.  It is
  latent as long as the driver refuses every INSERT; with one that does not,
  `ExtraRowsNeedFaults` says how many rows that makes.
* "re-deliver any pending (unacked) messages" (stream_consumer.py:38): the recovery
  pass always begins with the oldest pending entries (line 112), so behind a full
  batch of messages that always fail, or behind a trimmed entry, nothing is
  redelivered; and under steady traffic it does not run (line 58).
  `PendingIsServed` holds because it makes these exceptions.
* XREADGROUP answers NOGROUP for ever once the group is lost, as
  `ensure_consumer_group` runs once per process (stream_consumer.py:41):
  `RestartRepairs` needs a start.
* "trim readings older than 1 hour" (ingestion redis_service.py:33): the cutoff
  follows the reading being stored (line 186), so a late reading is kept however old
  and a sensor that falls silent keeps its readings for ever; and one stamped in the
  future evicts readings within the hour (`RecentIsKept` allows for `MaxAhead`).
* The comment at redis_service.py:18 has the script do the XACK; the script does not
  (the consumer does, after the archive).
* The README names a route `/sensors/{id}/latest`; the code serves
  `/sensors/{sensor_id}/data`.  It calls the range query "cursor paginated"; it is
  paged by offset.
* `get_throughput_metrics` says that both sides take `int(time.time())` (worker
  manager redis_service.py:239); the counter's second is the reading's timestamp.
* `mark_stale_workers` (line 195) sets `stale` on a worker whose heartbeat arrived
  between its two pipelines; the next heartbeat repairs it (`StaleMissedCutoff`).
* The scaling service counts workers by `last_heartbeat` and the worker manager by
  `status`, so the two may differ by those not swept yet.
* `SCALE_DOWN` may recommend as many workers as there are, by rounding up or by the
  clamp.
* The gauge `active_workers_count` (worker manager core/metrics.py:31) is never set.

## 9. Plan

What could follow, in this order:

1. Retries of a POST without a timestamp after its key has expired.
2. Several instances of the worker manager, each with its own sweep.
