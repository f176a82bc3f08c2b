CONSTANTS
    s1 = s1
    s2 = s2
    p1 = p1
    p2 = p2
    Phases <- MCPhases
    Sessions = {s1, s2}
    NoSession = NoSession
    NoUsage = NoUsage
    MaxContributors = 2
    Procs = {p1, p2}
    Gaps = {"g"}
    GapPhases = {"spec"}
    Budget = 2
    Emissions <- MCEmissions
    MaxTime = 2
    MaxSpare = 3
SYMMETRY Symmetry
SPECIFICATION Spec
INVARIANTS
    TypeOK
    UsageIsTrue
    TokensConserved
PROPERTIES
    StopLossStops
CHECK_DEADLOCK FALSE
