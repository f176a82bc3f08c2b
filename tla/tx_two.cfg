CONSTANTS
  Path = {D, F, G}
  Content = {c1, c2}
  D = D
  F = F
  G = G
  c1 = c1
  c2 = c2
  Missing = Missing
  Directory = Directory
  Above <- MCAbove
  MaxOps = 3
  Worker = {w1, w2}
  TxId = {t1, t2}
  NoTx = NoTx
  Plans <- GuardedAndRewrite
  InitialDest <- MCDest
  RecoverLive = FALSE
  MaxCrash = 1
  MaxPower = 0
  MaxFault = 0
  MaxEdits = 1
SYMMETRY Symmetry
SPECIFICATION Spec
INVARIANT AnswersAreTrue
PROPERTY PhasesMoveForward
CHECK_DEADLOCK FALSE
