SPECIFICATION FairSession
CONSTANTS
  Threads = {c1}
  Ptr = {p1, p2, p3}
  NoPtr = NoPtr
  MAX_USER_NUM = 2
  PackIdxs <- MCPackIdxs
  RandNums <- SmallAndLarge
  NameTexts <- Words
  IdxTexts <- ZeroOrBad
  MaxCmds <- FourCmds
  c1 = c1
  c2 = c2
  MaxCoalesce = 3
  MaxBroadcast = 1
  MayDie = TRUE
CHECK_DEADLOCK FALSE
INVARIANTS
  StuckOnlyIfDisturbed
  BlankOnlyIfClosed
  PrintedLeadsToPackage
PROPERTIES
  RefusalExplained
  CommandEnds
