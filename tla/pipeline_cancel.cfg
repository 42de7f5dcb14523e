SPECIFICATION Spec
CONSTANTS
    Tx = {t1}
    Mutating = {t1}
    Workers = {w1, w2}
    Cancels = {c1, c2}
    Readers = {r1}
    MaxLen = 1
    MaxFaults = 1
    MaxCrashes = 1
    NoTx = NoTx
    NoOne = NoOne
SYMMETRY Symmetry
INVARIANTS
    AtMostOnce
    RunningIsPending
    NotifiedReadersGetRows
PROPERTIES
    NotRunningAgain
CHECK_DEADLOCK FALSE
