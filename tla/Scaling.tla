------------------------------ MODULE Scaling ------------------------------
(***************************************************************************)
(* The metrics and scaling service answering one request after another     *)
(* while the worker manager changes the keys it reads: the throughput, the *)
(* set of workers, then each worker's last heartbeat, one command at a     *)
(* time.  The throughput a request finds is any member of Totals.  The     *)
(* sweep of the worker manager is left out: it writes the field status,    *)
(* which this service does not read.                                       *)
(***************************************************************************)
EXTENDS WorkerRegistry, ScalingPolicy

CONSTANT Totals   \* readings counted in a window

ASSUME ScalingAssumption ==
    /\ Totals \subseteq Nat
    /\ IsFiniteSet(Workers)

VARIABLES
    stage,     \* where the request is
    total,     \* throughput, once read
    uncounted, \* workers whose heartbeat is still to be read
    horizon,   \* stale_cutoff of get_active_worker_count
    active,    \* workers counted so far
    advice,    \* the recommendation answered, or NoAdvice
    steady,    \* history: workers of the set heard of, by the horizon, all along
    glimpsed   \* history: workers heard of, by the horizon, at some moment

readVars == <<stage, total, uncounted, horizon, active, advice>>
scalingVars == <<vars, readVars, steady, glimpsed>>

-----------------------------------------------------------------------------
NoAdvice == [action |-> "NO_ACTION", workers |-> 0, total |-> 0, active |-> 0]

Fresh(w) == beat[w] # Never /\ beat[w] >= horizon

ScalingInit ==
    /\ Init
    /\ stage = "idle" /\ total = 0
    /\ uncounted = {} /\ horizon = -StaleAfter /\ active = 0
    /\ advice = NoAdvice
    /\ steady = {} /\ glimpsed = {}

\* scaling_recommendation, once both numbers are known.
Recommend(n) ==
    /\ stage' = "idle" /\ total' = 0
    /\ advice' = [action |-> Action(total, n), workers |-> Desired(total, n),
                  total |-> total, active |-> n]

\* get_current_throughput: one MGET.
ReadThroughput ==
    /\ stage = "idle"
    /\ stage' = "list"
    /\ total' \in Totals
    /\ active' = 0 /\ uncounted' = {}
    /\ steady' = {} /\ glimpsed' = {}
    /\ advice' = NoAdvice
    /\ UNCHANGED <<vars, horizon>>

\* get_active_worker_count: SMEMBERS.
ListMembers ==
    /\ stage = "list"
    /\ uncounted' = members
    /\ IF members = {} THEN Recommend(0) ELSE stage' = "horizon" /\ UNCHANGED <<total, advice>>
    /\ UNCHANGED <<vars, horizon, active, steady, glimpsed>>

\* stale_cutoff, taken once the answer to SMEMBERS is there.
TakeHorizon ==
    /\ stage = "horizon"
    /\ UNCHANGED <<vars, total, uncounted, active, advice>>
    /\ stage' = "count"
    /\ horizon' = now - StaleAfter
    /\ steady' = {w \in uncounted : Fresh(w)'}
    /\ glimpsed' = {w \in Workers : Fresh(w)'}

\* A heartbeat exactly on the cutoff not counted.
WrongCountWorker(w) ==
    /\ stage = "count" /\ w \in uncounted
    /\ uncounted' = uncounted \ {w}
    /\ active' = IF beat[w] # Never /\ beat[w] > horizon THEN active + 1 ELSE active
    /\ IF uncounted' = {} THEN Recommend(active') ELSE UNCHANGED <<stage, total, advice>>
    /\ UNCHANGED <<vars, horizon, steady, glimpsed>>

\* One HGET of the pipeline, which is no transaction.
CountWorker(w) ==
    /\ stage = "count" /\ w \in uncounted
    /\ uncounted' = uncounted \ {w}
    /\ active' = IF Fresh(w) THEN active + 1 ELSE active
    /\ IF uncounted' = {} THEN Recommend(active') ELSE UNCHANGED <<stage, total, advice>>
    /\ UNCHANGED <<vars, horizon, steady, glimpsed>>

\* A command fails: the request is answered 503.
ScalingFails ==
    /\ stage # "idle"
    /\ stage' = "idle" /\ total' = 0
    /\ active' = 0 /\ uncounted' = {}
    /\ steady' = {} /\ glimpsed' = {}
    /\ UNCHANGED <<vars, horizon, advice>>

\* A step of the worker manager, seen from a request that is counting.
ManagerStep ==
    /\ (\E q \in Slots : Serve(q)) \/ Tick
    /\ UNCHANGED readVars
    /\ IF stage = "count"
       THEN /\ steady' = {w \in steady : Fresh(w)'}
            /\ glimpsed' = glimpsed \union {w \in Workers : Fresh(w)'}
       ELSE UNCHANGED <<steady, glimpsed>>

ScalingNext ==
    \/ ReadThroughput \/ ListMembers \/ TakeHorizon
    \/ \E w \in Workers : CountWorker(w)
    \/ ScalingFails
    \/ ManagerStep

ScalingSpec == ScalingInit /\ [][ScalingNext]_scalingVars

-----------------------------------------------------------------------------
Advice == [action : {"SCALE_UP", "SCALE_DOWN", "NO_ACTION"},
           workers : MinWorkers..MaxWorkers, total : Totals, active : Nat]

ScalingTypeOK ==
    /\ stage \in {"idle", "list", "horizon", "count"}
    /\ total \in Totals \union {0}
    /\ uncounted \subseteq Workers
    /\ horizon \in -StaleAfter..(now - StaleAfter)
    /\ active \in 0..Cardinality(Workers)
    /\ advice \in Advice \union {NoAdvice}
    /\ steady \subseteq glimpsed /\ glimpsed \subseteq Workers

(***************************************************************************)
(* The active workers are counted from reads at different moments while    *)
(* workers come and go: the number lies between the workers of the set     *)
(* that were heard of all along and those heard of at some moment.         *)
(***************************************************************************)
CountIsConsistent ==
    /\ Cardinality(steady \ uncounted) <= active
    /\ active <= Cardinality(glimpsed \ uncounted)

(***************************************************************************)
(* A recommendation fits the load it was computed from: that many workers  *)
(* stay within the upper threshold, unless there are MaxWorkers of them,   *)
(* and one fewer would be below what the lower threshold asks for, unless  *)
(* there are only MinWorkers.                                              *)
(***************************************************************************)
Fits(t, n) ==
    /\ t <= Load(n, ScaleUp) \/ n = MaxWorkers
    /\ t > Load(n - 1, ScaleDown) \/ n = MinWorkers

AdviceFits == advice # NoAdvice => Fits(advice.total, advice.workers)

(***************************************************************************)
(* Following a recommendation settles: with the recommended workers and    *)
(* the same load the next recommendation is the same number, so the rule   *)
(* has no cycle; and it never goes against its own action.                 *)
(***************************************************************************)
AdviceSettles ==
    advice # NoAdvice =>
        /\ Desired(advice.total, advice.workers) = advice.workers
        /\ advice.action = "SCALE_UP" =>
               advice.workers > Effective(advice.active) \/ advice.workers = MaxWorkers
        /\ advice.action = "SCALE_DOWN" =>
               advice.workers <= Effective(advice.active) \/ advice.workers = MinWorkers
=============================================================================
