CONSTANTS
    Branches = {"dev"}
    NodeKinds <- Kinds
    EdgeKinds = {"KNOWS", "LIVES"}
    MaxNodes = 3
    MaxStored = 3
    MaxEdges = 2
    MaxCrashes = 1
    Texts <- SomeTexts
    Builders <- DocBuilders
    Recounted <- DocBuilders
    Relations <- SomeRelations
    Classes = {"Person"}
    Closed = Closed
    Unbounded = 9
    Collation <- SomeCollation
SPECIFICATION Spec
INVARIANT WhereFilters
CHECK_DEADLOCK FALSE
