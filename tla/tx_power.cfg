CONSTANTS
  Path = {D, F, G}
  Content = {c1, c2}
  D = D
  F = F
  G = G
  c1 = c1
  c2 = c2
  Missing = Missing
  Directory = Directory
  Above <- MCAbove
  MaxOps = 3
  Worker = {w1}
  TxId = {t1, t2}
  NoTx = NoTx
  Plans <- BuildAndPrune
  InitialDest <- MCDest
  RecoverLive = FALSE
  MaxCrash = 0
  MaxPower = 3
  MaxFault = 0
  MaxEdits = 0
SYMMETRY Symmetry
SPECIFICATION Spec
INVARIANT AlwaysRecoverable
INVARIANT DurablyAuthorized
INVARIANT CommittedIsDurable
CHECK_DEADLOCK FALSE
