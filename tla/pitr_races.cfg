CONSTANTS
    q1 = q1
    q2 = q2
    q3 = q3
    w1 = w1
    w2 = w2
    s1 = s1
    r1 = r1
    r2 = r2
    Queries = {q1, q2}
    Detected = {q1, q2}
    Refused = {q2}
    Workers = {w1, w2}
    Snapshotters = {}
    Restorers = {r1, r2}
    Res = 2
    Window = 2
    MaxTime = 0
    MaxMishaps = 1
    Nobody = Nobody
    None = None
SPECIFICATION Spec
INVARIANTS AppendsSurvive DeletedIsArchived
CHECK_DEADLOCK FALSE
SYMMETRY SymP
