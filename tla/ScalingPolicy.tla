---------------------------- MODULE ScalingPolicy ----------------------------
(***************************************************************************)
(* The rule of GET /scaling/recommendation in                              *)
(* metrics_scaling_service/app/routers/scaling.py: from the readings       *)
(* counted in a window and the number of active workers to an action and a *)
(* number of workers.  The code divides the total by the window; here both *)
(* sides of a comparison are multiplied by the window instead, so that all *)
(* numbers are integers.                                                   *)
(*                                                                         *)
(* Definitions that start with Wrong are faulty versions of the definition *)
(* after them and no part of the model.                                    *)
(***************************************************************************)
EXTENDS Integers

CONSTANTS
    Window,    \* THROUGHPUT_WINDOW_SECONDS
    ScaleUp,   \* SCALE_UP_THROUGHPUT_PER_WORKER
    ScaleDown, \* SCALE_DOWN_THROUGHPUT_PER_WORKER
    MinWorkers,
    MaxWorkers

ASSUME ScalingPolicyAssumption ==
    /\ Window \in Nat \ {0}
    /\ ScaleDown \in Nat \ {0}
    /\ ScaleUp \in Nat /\ ScaleDown <= ScaleUp
    /\ MinWorkers \in Nat \ {0}
    /\ MaxWorkers \in Nat /\ MinWorkers <= MaxWorkers

-----------------------------------------------------------------------------
\* Readings in a window that n workers handle at a rate of perWorker each.
Load(n, perWorker) == n * (perWorker * Window)

CeilDiv(a, b) == (a + b - 1) \div b

\* Rounded down.
WrongNeeded(total, perWorker) == total \div (perWorker * Window)

\* The fewest workers that handle a total at a rate of perWorker each.
Needed(total, perWorker) == CeilDiv(total, perWorker * Window)

\* The clamp of the upper end forgotten.
WrongClamp(n) == IF n < MinWorkers THEN MinWorkers ELSE n

Clamp(n) ==
    IF n < MinWorkers THEN MinWorkers
    ELSE IF n > MaxWorkers THEN MaxWorkers ELSE n

\* No active worker counts as one.
Effective(active) == IF active < 1 THEN 1 ELSE active

ScalesUp(total, active) == total > Load(Effective(active), ScaleUp)

\* The elif of the rule.
ScalesDown(total, active) ==
    ~ScalesUp(total, active) /\ total < Load(Effective(active), ScaleDown)

Action(total, active) ==
    CASE ScalesUp(total, active) -> "SCALE_UP"
      [] ScalesDown(total, active) -> "SCALE_DOWN"
      [] OTHER -> "NO_ACTION"

\* The workers to add, in place of the workers to have.
WrongDesired(total, active) ==
    Clamp(CASE ScalesUp(total, active) -> Needed(total, ScaleUp) - Effective(active)
            [] ScalesDown(total, active) -> Needed(total, ScaleDown)
            [] OTHER -> Effective(active))

\* recommended_workers
Desired(total, active) ==
    Clamp(CASE ScalesUp(total, active) -> Needed(total, ScaleUp)
            [] ScalesDown(total, active) -> IF total > 0 THEN Needed(total, ScaleDown) ELSE 1
            [] OTHER -> Effective(active))
=============================================================================
