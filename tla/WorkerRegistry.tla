--------------------------- MODULE WorkerRegistry ---------------------------
(***************************************************************************)
(* The worker manager: workers register, send heartbeats and deregister,   *)
(* and a background task of the service marks as stale those it has not    *)
(* heard of.  Two keys of Redis hold what it knows of a worker:            *)
(*                                                                         *)
(*   worker:{id}   a hash.  worker_id and registered_at are written by a   *)
(*                 registration only; status and last_heartbeat by others  *)
(*                 too, and HSET creates a hash that does not exist        *)
(*   workers:all   the set of registered ids                               *)
(*                                                                         *)
(* An action is one command, or one MULTI block, to Redis.  A request may  *)
(* end at any of its awaits, by a failed command, a lost answer or a crash *)
(* (GiveUp); what its commands did stays done.                             *)
(*                                                                         *)
(* Definitions that start with Wrong are faulty versions of the definition *)
(* after them and no part of the model.                                    *)
(***************************************************************************)
EXTENDS Integers, FiniteSets

CONSTANTS
    Workers,     \* worker ids
    Slots,       \* requests in progress
    StaleAfter,  \* WORKER_STALE_SECONDS, in ticks
    MaxTime,     \* bound: the clock stops here
    MaxFailures  \* bound: sweeps that fail

ASSUME WorkerRegistryAssumption ==
    /\ StaleAfter \in Nat \ {0}
    /\ MaxTime \in Nat
    /\ MaxFailures \in Nat

VARIABLES
    members,   \* workers:all
    described, \* workers whose hash has the fields of a registration
    status,    \* the field status, or "none"
    beat,      \* the field last_heartbeat, or Never
    now,       \* the clock
    request,   \* per slot: the request in progress
    sweep,     \* where the background task is
    wakeAt,    \* when its sleep ends
    cutoff,    \* stale_cutoff of the latest sweep
    unread,    \* workers whose heartbeat the sweep has still to read
    overdue,   \* stale_ids the sweep has still to write
    failures,  \* sweeps that failed
    raced      \* history: workers touched between a check and its write

hashVars == <<members, described, status, beat>>
sweepVars == <<sweep, wakeAt, cutoff, unread, overdue, failures>>
vars == <<hashVars, now, request, sweepVars, raced>>

-----------------------------------------------------------------------------
Never == -1

Idle == [op |-> "idle"]

\* EXISTS worker:{id}
Exists(w) == w \in described \/ status[w] # "none" \/ beat[w] # Never

\* Slots whose request will touch the hash of w without looking again.
Pending(op, w) ==
    {q \in Slots : request[q].op = op /\ request[q].worker = w}

\* A request that has taken its time, or whose time will lie after t.
Begin(q, op, w, t) ==
    request' = [request EXCEPT ![q] = [op |-> op, worker |-> w, since |-> t]]

End(q) == request' = [request EXCEPT ![q] = Idle]

Init ==
    /\ members = {} /\ described = {}
    /\ status = [w \in Workers |-> "none"]
    /\ beat = [w \in Workers |-> Never]
    /\ now = 0
    /\ request = [q \in Slots |-> Idle]
    /\ sweep = "sleep" /\ wakeAt = StaleAfter
    /\ cutoff = -StaleAfter
    /\ unread = {} /\ overdue = {} /\ failures = 0
    /\ raced = {}

-----------------------------------------------------------------------------
(* Requests                                                                *)

\* HSET of status and last_heartbeat, by a registration or a heartbeat.
SetActive(w, t) ==
    /\ status' = [status EXCEPT ![w] = "active"]
    /\ beat' = [beat EXCEPT ![w] = t]

\* What a heartbeat or a registration means for the history: a worker the
\* sweep has already judged is about to be marked all the same.
NoteArrival(w) == raced' = IF w \in overdue THEN raced \union {w} ELSE raced \ {w}

\* POST: register_worker takes the time and sends its MULTI block.
AskRegister(q, w) ==
    /\ request[q].op = "idle"
    /\ Begin(q, "register", w, now)
    /\ UNCHANGED <<hashVars, now, sweepVars, raced>>

\* SADD forgotten.
WrongRegister(q) ==
    /\ request[q].op = "register"
    /\ LET w == request[q].worker IN
       /\ SetActive(w, request[q].since)
       /\ described' = described \union {w}
       /\ NoteArrival(w)
    /\ End(q)
    /\ UNCHANGED <<members, now, sweepVars>>

\* MULTI: HSET with every field, SADD.
Register(q) ==
    /\ request[q].op = "register"
    /\ LET w == request[q].worker IN
       /\ SetActive(w, request[q].since)
       /\ described' = described \union {w}
       /\ members' = members \union {w}
       /\ NoteArrival(w)
    /\ End(q)
    /\ UNCHANGED <<now, sweepVars>>

\* The existence check left out.
WrongCheckHealth(q, w) ==
    /\ request[q].op = "idle"
    /\ Begin(q, "health", w, now)
    /\ UNCHANGED <<hashVars, now, sweepVars, raced>>

\* PUT health: EXISTS.  A missing hash is answered 404.
CheckHealth(q, w) ==
    /\ request[q].op = "idle"
    /\ Exists(w)
    /\ Begin(q, "health", w, now)
    /\ UNCHANGED <<hashVars, now, sweepVars, raced>>

\* Its HSET, with a time taken after the EXISTS and before the HSET.  The
\* HGETALL that follows changes nothing.
WriteHealth(q) ==
    /\ request[q].op = "health"
    /\ LET w == request[q].worker IN
       /\ \E t \in request[q].since..now : SetActive(w, t)
       /\ IF w \in members THEN NoteArrival(w) ELSE UNCHANGED raced
    /\ End(q)
    /\ UNCHANGED <<members, described, now, sweepVars>>

\* DELETE: EXISTS.  A missing hash is answered 404.  It writes no time.
CheckRemove(q, w) ==
    /\ request[q].op = "idle"
    /\ Exists(w)
    /\ Begin(q, "remove", w, 0)
    /\ UNCHANGED <<hashVars, now, sweepVars, raced>>

\* MULTI: DEL, SREM.  For the history, the worker may come back as a hash
\* that nobody lists when a heartbeat or the sweep is about to write to it.
Remove(q) ==
    /\ request[q].op = "remove"
    /\ LET w == request[q].worker IN
       /\ members' = members \ {w}
       /\ described' = described \ {w}
       /\ status' = [status EXCEPT ![w] = "none"]
       /\ beat' = [beat EXCEPT ![w] = Never]
       /\ raced' = IF Pending("health", w) # {} \/ w \in overdue
                   THEN raced \union {w} ELSE raced \ {w}
    /\ End(q)
    /\ UNCHANGED <<now, sweepVars>>

GiveUp(q) ==
    /\ request[q].op # "idle"
    /\ End(q)
    /\ UNCHANGED <<hashVars, now, sweepVars, raced>>

-----------------------------------------------------------------------------
(* The background task: _stale_worker_cleanup_loop and mark_stale_workers  *)

\* The sweep is over: the loop sleeps WORKER_STALE_SECONDS again.
Sleep ==
    /\ sweep' = "sleep"
    /\ wakeAt' = now + StaleAfter

\* SMEMBERS.  The clock stops at MaxTime, where the sleep counts as over.
SweepList ==
    /\ sweep = "sleep"
    /\ now >= wakeAt \/ now = MaxTime
    /\ IF members = {} THEN Sleep ELSE sweep' = "listed" /\ UNCHANGED wakeAt
    /\ unread' = members
    /\ UNCHANGED <<hashVars, now, request, cutoff, overdue, failures, raced>>

\* WORKER_STALE_SECONDS not subtracted.
WrongTakeCutoff ==
    /\ sweep = "listed"
    /\ sweep' = "read"
    /\ cutoff' = now
    /\ UNCHANGED <<hashVars, now, request, wakeAt, unread, overdue, failures, raced>>

\* stale_cutoff, taken once the answer to SMEMBERS is there.
TakeCutoff ==
    /\ sweep = "listed"
    /\ sweep' = "read"
    /\ cutoff' = now - StaleAfter
    /\ UNCHANGED <<hashVars, now, request, wakeAt, unread, overdue, failures, raced>>

\* The comparison turned around.
WrongMissedDeadline(w) == beat[w] # Never /\ beat[w] > cutoff

\* A missing last_heartbeat is skipped.
MissedDeadline(w) == beat[w] # Never /\ beat[w] < cutoff

\* One HGET of the pipeline, which is no transaction: commands of others
\* may come between.  After the last one the stale ids are known.
ReadBeat(w) ==
    /\ sweep = "read" /\ w \in unread
    /\ unread' = unread \ {w}
    /\ overdue' = IF MissedDeadline(w) THEN overdue \union {w} ELSE overdue
    /\ CASE unread' # {} -> UNCHANGED <<sweep, wakeAt>>
         [] unread' = {} /\ overdue' # {} -> sweep' = "mark" /\ UNCHANGED wakeAt
         [] OTHER -> Sleep
    /\ UNCHANGED <<hashVars, now, request, cutoff, failures, raced>>

\* One HSET of the second pipeline.
MarkStale(w) ==
    /\ sweep = "mark" /\ w \in overdue
    /\ status' = [status EXCEPT ![w] = "stale"]
    /\ overdue' = overdue \ {w}
    /\ IF overdue' = {} THEN Sleep ELSE UNCHANGED <<sweep, wakeAt>>
    /\ UNCHANGED <<members, described, beat, now, request, cutoff, unread, failures, raced>>

\* The exception ends the loop.
WrongSweepFails ==
    /\ failures < MaxFailures
    /\ failures' = failures + 1
    /\ sweep # "sleep" \/ now >= wakeAt \/ now = MaxTime
    /\ sweep' = "ended"
    /\ unread' = {} /\ overdue' = {}
    /\ UNCHANGED <<hashVars, now, request, wakeAt, cutoff, raced>>

\* The loop catches the exception, and drops what the sweep had found out.
SweepFails ==
    /\ failures < MaxFailures
    /\ failures' = failures + 1
    /\ sweep # "sleep" \/ now >= wakeAt \/ now = MaxTime
    /\ Sleep
    /\ unread' = {} /\ overdue' = {}
    /\ UNCHANGED <<hashVars, now, request, cutoff, raced>>

Tick ==
    /\ now < MaxTime
    /\ now' = now + 1
    /\ UNCHANGED <<hashVars, request, sweepVars, raced>>

-----------------------------------------------------------------------------
Serve(q) ==
    \/ \E w \in Workers : AskRegister(q, w) \/ CheckHealth(q, w) \/ CheckRemove(q, w)
    \/ Register(q) \/ WriteHealth(q) \/ Remove(q) \/ GiveUp(q)

Sweep ==
    \/ SweepList \/ TakeCutoff
    \/ \E w \in Workers : ReadBeat(w) \/ MarkStale(w)

Next ==
    \/ \E q \in Slots : Serve(q)
    \/ Sweep \/ SweepFails
    \/ Tick

Spec == Init /\ [][Next]_vars

\* Time passes and the event loop runs the background task; nothing makes a
\* client send a request, or a request in progress come to its end.
FairSpec == Spec /\ WF_vars(Tick) /\ WF_vars(Sweep)

-----------------------------------------------------------------------------
Ops == {"register", "health", "remove"}

Request == {Idle} \union [op : Ops, worker : Workers, since : 0..MaxTime]

TypeOK ==
    /\ members \subseteq Workers /\ described \subseteq Workers
    /\ status \in [Workers -> {"none", "active", "stale"}]
    /\ beat \in [Workers -> Never..MaxTime]
    /\ now \in 0..MaxTime
    /\ request \in [Slots -> Request]
    /\ \A q \in Slots : request[q].op # "idle" => request[q].since <= now
    /\ sweep \in {"sleep", "listed", "read", "mark"}
    /\ wakeAt \in 0..(MaxTime + StaleAfter)
    /\ cutoff \in -StaleAfter..(now - StaleAfter)
    /\ unread \subseteq Workers /\ overdue \subseteq Workers
    /\ failures \in 0..MaxFailures
    /\ raced \subseteq Workers

(***************************************************************************)
(* A worker that is listed has a whole hash and a whole hash is listed,    *)
(* whatever heartbeats and sweeps write to hashes that come and go: listing*)
(* the workers meets a hash it cannot parse only if a registration ended   *)
(* while it ran.                                                           *)
(***************************************************************************)
ListedIsWhole ==
    /\ members = described
    /\ \A w \in members : status[w] # "none" /\ beat[w] # Never

(***************************************************************************)
(* A hash that nobody lists is left only by a race: a heartbeat or the     *)
(* sweep looked at the worker, it was removed, and they wrote to it.       *)
(* Heartbeats of unknown or long removed workers never make one.           *)
(***************************************************************************)
GhostsNeedRaces ==
    \A w \in Workers \ members : Exists(w) => w \in raced

(***************************************************************************)
(* A listed worker that is stale had missed the cutoff of a sweep, unless  *)
(* its heartbeat or registration arrived between the sweep's look at it    *)
(* and the sweep's write.                                                  *)
(***************************************************************************)
StaleMissedCutoff ==
    \A w \in members : status[w] = "stale" => beat[w] < cutoff \/ w \in raced

Overdue(w) == w \in members /\ beat[w] # Never /\ beat[w] < now - StaleAfter

(***************************************************************************)
(* The README: "A background task marks stale workers automatically".  A   *)
(* listed worker whose last heartbeat is too old is marked stale in the    *)
(* end, or is heard of again or removed, however heartbeats of others,     *)
(* removals and failing sweeps interleave.                                 *)
(***************************************************************************)
SilentBecomesStale ==
    \A w \in Workers : Overdue(w) ~> status[w] = "stale" \/ ~Overdue(w)

(***************************************************************************)
(* DELETE: "Remove the worker hash and its membership from the workers     *)
(* set": a worker that is not, or no longer, listed has no hash.           *)
(***************************************************************************)
RemovedIsGone == \A w \in Workers \ members : ~Exists(w)
=============================================================================
