SPECIFICATION ScalingSpec
CONSTANTS
    Workers = {w1, w2, w3}
    Slots = {q1}
    StaleAfter = 1
    MaxTime = 2
    MaxFailures = 0
    Window = 2
    ScaleUp = 3
    ScaleDown = 2
    MinWorkers = 1
    MaxWorkers = 2
    Totals <- MCTotals
SYMMETRY WorkerSymmetry
INVARIANTS
    ScalingTypeOK
    CountIsConsistent
    AdviceFits
    AdviceSettles
