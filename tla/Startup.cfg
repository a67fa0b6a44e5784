SPECIFICATION Spec
CONSTANTS
  Clients = {c1, c2}
  BufferSize = 2
  MaxSent = 3
  Failed = {f1}
  Sockets = {s1, s2}
  INVALID_SOCKET = INVALID_SOCKET
  NoConn = NoConn
INVARIANTS
  CommandsNeedFirstConnect
  EchoExact
PROPERTIES
  StartsOrEnds
CHECK_DEADLOCK FALSE
