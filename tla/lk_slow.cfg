CONSTANTS
  s1 = s1
  s2 = s2
  s3 = s3
  r1 = r1
  r2 = r2
  Session = {s1, s2}
  LeaseId <- MCLeaseId
  NoLease = NoLease
  NoBinding = NoBinding
  NoClaim = NoClaim
  NoGuard = NoGuard
  NoPlan = NoPlan
  Skew = 1
  MaxToken = 2
  Project = Project
  Run = {}
  TTL = {1}
  ClaimTTL = 1
  Offset <- MCOffset
  Works <- Everything
  MaxTime = 3
  MaxCall = 2
  MaxFailure = 1
SPECIFICATION Spec
INVARIANT OneHolder
INVARIANT FilesAgree
CHECK_DEADLOCK FALSE
