SPECIFICATION Spec
CONSTANTS
  Polys <- MCPolys
  Factors <- MCFactors
INVARIANTS
  NoWrap
  NttEvaluates
  ProductInRing
CHECK_DEADLOCK FALSE
