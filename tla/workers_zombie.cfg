SPECIFICATION Spec
CONSTANTS
    Workers = {w1, w2}
    Slots = {q1, q2}
    StaleAfter = 1
    MaxTime = 2
    MaxFailures = 1
INVARIANT
    RemovedIsGone
