CONSTANTS
  Path = {D, F, G}
  Content = {c1, c2}
  D = D
  F = F
  G = G
  c1 = c1
  c2 = c2
  Missing = Missing
  Directory = Directory
  Above <- MCAbove
  MaxOps = 3
  Worker = {w1}
  TxId = {t1, t2}
  NoTx = NoTx
  Plans <- BuildAndPrune
  InitialDest <- MCDest
  RecoverLive = FALSE
  MaxCrash = 2
  MaxPower = 0
  MaxFault = 1
  MaxEdits = 0
SPECIFICATION FairSpec
INVARIANT TypeOK
INVARIANT PublishedOnlyWhenAuthorized
PROPERTY ImplementsAtomicCommit
PROPERTY EveryTransactionEnds
CHECK_DEADLOCK FALSE
