SPECIFICATION Spec
CONSTANTS
    Requests = {r1, r2}
    Owner = Owner
    Tenants = {"acme", "bolt"}
    Emails = {"ann", "bob"}
    OwnerRow <- OwnersRow
    NoRow = NoRow
    MaxFaults = 1
    Origin = Origin
    Bases = {"main"}
    Labels = {"dev"}
    OriginName = "main"
    Writes = {w1, w2}
    MaxParts = 2
    NoOne = NoOne
    NoSnap = NoSnap
SYMMETRY Sym
INVARIANTS RegisteredIsStored RevocationHolds BranchIsolated BranchIsCut
CHECK_DEADLOCK FALSE
