CONSTANTS
    Branches = {"dev"}
    NodeKinds <- Kinds
    EdgeKinds = {"KNOWS", "LIVES"}
    MaxNodes = 3
    MaxStored = 3
    MaxEdges = 2
    MaxCrashes = 1
    Texts <- SomeTexts
    Builders <- SomeBuilders
    Recounted <- SomeRecounted
    Relations <- SomeRelations
    Classes = {"Person"}
    Closed = Closed
    Unbounded = 9
    Collation <- SomeCollation
SPECIFICATION Spec
INVARIANTS IndexesAgree SegmentsFit FlushLosesNothing MatchesAreFound ReachedAtDistance GroupsPartition BuilderAnswers PairsAreEdges
PROPERTY QueriesOnlyCreate
CHECK_DEADLOCK FALSE
