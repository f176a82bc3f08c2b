CONSTANTS
    r1 = r1
    r2 = r2
    c1 = c1
    c2 = c2
    p1 = p1
    p2 = p2
    Runs = {r1, r2}
    Criteria = {c1, c2}
    Keys = {"k"}
    NoRun = NoRun
    Fresh = "fresh"
    Procs = {p1, p2}
    Ceilings = {1, 2}
    Enforced = TRUE
    TaskLists <- MCTaskLists
    MaxRevision = 10
    MaxVersion = 1
    MaxSpare = 1
SYMMETRY Symmetry
SPECIFICATION Spec
INVARIANTS
    TypeOK
    CompletedIsApproved
    DeliveredOnce
PROPERTIES
    HeldUntilResolved
    CriteriaOnlyGrow
CHECK_DEADLOCK FALSE
