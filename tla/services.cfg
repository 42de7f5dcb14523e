SPECIFICATION Spec
CONSTANTS
    f1 = f1
    f2 = f2
    f3 = f3
    t1 = t1
    t2 = t2
    t3 = t3
    t4 = t4
    blank = blank
    Requests = {r1, r2, r3}
    Extenders = {r1, r2}
    Timeouts = {1, 2}
    Extensions = {1, 2}
    MaxExtends = 2
    NoOne = NoOne
    Readers = {c1}
    Batch = 2
    MaxLen = 2
    MaxEvents = 5
    MaxBreaks = 2
    Processes = {p1, p2}
    Texts = {t1, t2, t3, t4, blank}
    Forms = {f1, f2, f3}
    FormOf <- Spellings
    NoForm = NoForm
    Limit = 1
    Names = {"release", "before"}
    Instants = {1, 2}
    MaxUses = 1
    Workers = {w1, w2}
    Files = {d1, d2}
    Unlocked = Unlocked
    MaxMishaps = 1
INVARIANTS
    LeaseExclusion
    ResumedWithoutGap
    BlockedReaderHears
    FavoritesBounded
PROPERTIES
    OnlyHolderReleases
    LockIsFreed
    ReaderCatchesUp
    OpensWhole
CHECK_DEADLOCK FALSE
