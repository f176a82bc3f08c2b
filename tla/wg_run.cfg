CONSTANTS
    Features = {"f1", "f2"}
    Texts = {"ship", "shipAgain", "other", "dots"}
    featureIdentity <- MCIdentity
    Paths = {"src", "brain", "env"}
    BrainPaths = {"brain"}
    ImmutablePaths = {"env"}
    Scopes <- MCScopes
    WriteBlocks <- MCWriteBlocks
    Requests <- MCRequests
    Reviewed <- MCReviewed
    Starts = {"fresh", "ship"}
    p1 = p1
    p2 = p2
    Procs = {p1, p2}
    Budgets <- MCBudgets
SPECIFICATION Spec
SYMMETRY Symmetry
CHECK_DEADLOCK FALSE
INVARIANTS
    AllowedWasPermitted
    HistoryTellsState
