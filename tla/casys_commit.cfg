CONSTANTS
    w1 = w1
    w2 = w2
    x1 = x1
    Old = 1
    New = 3
    Size = 2
    Cap = 1
    Writers = {w1, w2}
    Snappers = {x1}
    MaxSeq = 6
    MaxTime = 2
    MaxFaults = 1
    MaxCrashes = 1
    Absent = Absent
    Nobody = Nobody
SPECIFICATION Spec
INVARIANTS AckedSurvives ListedInOrder AckedIsPublished TailCovers
CHECK_DEADLOCK FALSE
SYMMETRY Sym
