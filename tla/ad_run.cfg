CONSTANTS
  p1 = p1
  p2 = p2
  r1 = r1
  r2 = r2
  Proc = {p1, p2}
  Project = Project
  Run = {r1, r2}
  Works <- MCWorks
  Offset <- MCOffset
  Skew = 1
  AdmissionTTL = 1
  MaxElection = 2
  NoGen = NoGen
  MaxTime = 1
  MaxCrash = 1
SPECIFICATION Spec
INVARIANT TypeOK
INVARIANT HolderIsPublished
INVARIANT AloneSucceeds
PROPERTY EveryAttemptEnds
CHECK_DEADLOCK FALSE
