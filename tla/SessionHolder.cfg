SPECIFICATION SessionSpec
CONSTANTS
  Threads = {c1}
  Ptr = {p1, p2, p3}
  NoPtr = NoPtr
  MAX_USER_NUM = 2
  PackIdxs <- MCPackIdxs
  RandNums <- SmallAndLarge
  NameTexts <- Word
  IdxTexts <- ZeroOrBad
  MaxCmds <- FourCmds
  c1 = c1
  c2 = c2
  MaxCoalesce = 1
  MaxBroadcast = 0
  MayDie = FALSE
CHECK_DEADLOCK FALSE
PROPERTIES
  HolderVerified
