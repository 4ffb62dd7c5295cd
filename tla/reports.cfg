SPECIFICATION ReportSpec
CONSTANTS
    Workers = {w1, w2}
    Slots = {q1}
    StaleAfter = 1
    MaxTime = 2
    MaxFailures = 1
SYMMETRY WorkerSymmetry
INVARIANTS
    ReportTypeOK
    ReportsMissNobody
