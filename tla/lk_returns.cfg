CONSTANTS
  s1 = s1
  s2 = s2
  s3 = s3
  r1 = r1
  r2 = r2
  Session = {s1, s2}
  LeaseId <- MCLeaseId
  NoLease = NoLease
  NoBinding = NoBinding
  NoClaim = NoClaim
  NoGuard = NoGuard
  NoPlan = NoPlan
  Skew = 1
  MaxToken = 2
  Project = Project
  Run = {r1, r2}
  TTL = {1}
  ClaimTTL = 9
  Offset <- MCOffset
  Works <- OwnRuns
  MaxTime = 0
  MaxCall = 2
  MaxFailure = 2
SPECIFICATION FairSpec
INVARIANT RunsDoNotConflict
PROPERTY EveryCallReturns
CHECK_DEADLOCK FALSE
