SPECIFICATION FairSpec
CONSTANTS
  Conns = {n1, n2, n3}
  Sockets = {s1, s2}
  INVALID_SOCKET = INVALID_SOCKET
  NoConn = NoConn
  MaxAtConsole = 2
CHECK_DEADLOCK FALSE
INVARIANTS
  ListExactUnlessRaced
PROPERTIES
  ConsoleReachesPool
  ErasesOwnEntry
  EntryRemoved
