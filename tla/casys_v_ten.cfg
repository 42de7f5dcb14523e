CONSTANTS
    w1 = w1
    w2 = w2
    x1 = x1
    Old = 10
    New = 2
    Size = 1
    Cap = 1
    Writers = {w1}
    Snappers = {x1}
    MaxSeq = 10
    MaxTime = 1
    MaxFaults = 0
    MaxCrashes = 0
    Absent = Absent
    Nobody = Nobody
SPECIFICATION Spec
INVARIANT AckedSurvives
CHECK_DEADLOCK FALSE
