CONSTANTS
    q1 = q1
    q2 = q2
    q3 = q3
    w1 = w1
    w2 = w2
    s1 = s1
    r1 = r1
    r2 = r2
    Queries = {q1}
    Detected = {q1}
    Refused = {}
    Workers = {w1}
    Snapshotters = {s1}
    Restorers = {r1}
    Res = 3
    Window = 3
    MaxTime = 3
    MaxMishaps = 0
    Nobody = Nobody
    None = None
SPECIFICATION Spec
INVARIANTS LoggedIsReplayed
CHECK_DEADLOCK FALSE

