\* Memory commands and migrations of two processes beside captures and edits.
CONSTANTS
    Titles = {"t"}
    c1 = c1
    c2 = c2
    Candidates = {c1, c2}
    LegacySource = "notes"
    ConfirmedMax = 2
    ArchiveMax = 2
    p1 = p1
    p2 = p2
    Procs = {p1, p2}
    BrainFiles = {"f"}
    HandTexts = {"hand1"}
    ConfigTexts = {1}
    OldVersion = 0
    CurrentVersion = 5
    Starts = {"stock", "notes", "adopted"}
    MaxCount = 2
    MaxSpare = 4
SPECIFICATION Spec
SYMMETRY Symmetry
CHECK_DEADLOCK FALSE
INVARIANTS
    TypeOK
    ObservationsConserved
PROPERTIES
    MigrationsReverse
    AppliedAsReviewed
