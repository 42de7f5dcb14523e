SPECIFICATION Spec
CONSTANTS
    Requests = {r1, r2}
    Owner = Owner
    Tenants = {"acme", "bolt"}
    Emails = {"ann", "bob"}
    OwnerRow <- OwnersRow
    NoRow = NoRow
    MaxFaults = 0
    Origin = Origin
    Bases = {"main"}
    Labels = {"dev"}
    OriginName = "main"
    Writes = {w1}
    MaxParts = 2
    NoOne = NoOne
    NoSnap = NoSnap
SYMMETRY Sym
INVARIANT SwapIsAtomic
CHECK_DEADLOCK FALSE
