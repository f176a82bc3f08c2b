SPECIFICATION Spec
CONSTANTS
    p1 = p1
    p2 = p2
    p3 = p3
    Proc = {p1, p2, p3}
    Works <- MCWorks
    Asks <- MCAsks
    Lineage = {"base", "other"}
    WorkingLineage = "base"
    Missing = Missing
    Garbled = Garbled
    Reducers = {"workflow-v2"}
    MaxCount = 2
    MaxCrash = 1
    MaxEdits = 1
CHECK_DEADLOCK FALSE
INVARIANTS
    TypeOK
    ExactPrefix
    NothingLost
    PairAgrees
