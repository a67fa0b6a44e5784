SPECIFICATION Spec
CONSTANTS
  Threads = {t1, t2}
  Ptr = {p1, p2, p3, p4}
  NoPtr = NoPtr
  MAX_USER_NUM = 2
  PackIdxs <- MCPackIdxs
SYMMETRY Symmetry
CHECK_DEADLOCK FALSE
INVARIANTS
  UniqueUnlessRaced
  RegistrationKept
  TakesWhatItRead
  PartiesFound
PROPERTIES
  CounterBackOnlyIfRaced
  ImplementsParcel
