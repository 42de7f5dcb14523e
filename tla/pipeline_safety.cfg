SPECIFICATION FairSpec
CONSTANTS
    Tx = {t1, t2}
    Mutating = {t1}
    Workers = {w1, w2}
    Cancels = {}
    Readers = {}
    MaxLen = 1
    MaxFaults = 1
    MaxCrashes = 0
    NoTx = NoTx
    NoOne = NoOne
INVARIANTS
    OneWorkerPerTx
    NoJobForgotten
PROPERTIES
    ImplementsJobQueue
    EventuallyDelivered
    EventuallySettled
CHECK_DEADLOCK FALSE
