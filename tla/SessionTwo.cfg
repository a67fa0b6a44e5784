SPECIFICATION SessionSpec
CONSTANTS
  Threads = {c1, c2}
  Ptr = {p1, p2, p3}
  NoPtr = NoPtr
  MAX_USER_NUM = 2
  PackIdxs <- MCPackIdxs
  RandNums <- Small
  NameTexts <- Word
  IdxTexts <- ZeroOrOne
  MaxCmds <- TwoCmdsEach
  c1 = c1
  c2 = c2
  MaxCoalesce = 1
  MaxBroadcast = 0
  MayDie = FALSE
SYMMETRY SymmetryTwo
CHECK_DEADLOCK FALSE
INVARIANTS
  VerifiedWasIssued
PROPERTIES
  Spec
