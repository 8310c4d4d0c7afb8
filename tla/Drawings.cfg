CONSTANTS
  Drawings <- MCDrawings
  I32MAX = 100001
  U32MAX = 200000
SPECIFICATION Spec
INVARIANT NumbersKept
INVARIANT ShapeKept
PROPERTY DriftsOneWay
CHECK_DEADLOCK FALSE
