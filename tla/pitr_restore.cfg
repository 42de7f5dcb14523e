CONSTANTS
    q1 = q1
    q2 = q2
    q3 = q3
    w1 = w1
    w2 = w2
    s1 = s1
    r1 = r1
    r2 = r2
    Queries = {q1, q2, q3}
    Detected = {q1, q2, q3}
    Refused = {q3}
    Workers = {w1}
    Snapshotters = {s1}
    Restorers = {r1}
    Res = 2
    Window = 2
    MaxTime = 2
    MaxMishaps = 0
    Nobody = Nobody
    None = None
SPECIFICATION Spec
INVARIANTS NothingAfterTarget CleanRestoreIsExact PreviewForetells PlanIsReplayed
CHECK_DEADLOCK FALSE
SYMMETRY SymQ
