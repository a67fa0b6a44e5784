SPECIFICATION Spec
CONSTANTS
  KeyGroups <- MCPairs
  VGroups <- MCPairs
  BGroups <- MCFours
  Eights <- MCEights
  Messages <- MCMessages
  Noises <- MCNoises
  Sums <- MCSums
  Products <- MCProducts
INVARIANTS
  KeyKept
  CiphertextClose
  MessageKept
  ReductionsExact
CHECK_DEADLOCK FALSE
