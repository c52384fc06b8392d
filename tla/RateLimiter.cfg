\* One key that may be used once a window, one that may be used twice; calls overtake one another.
\* The clock stops.
CONSTANTS
  k1 = k1  k2 = k2  r1 = r1  r2 = r2
  None = None
  Request <- TwoRequests
  Key <- TwoKeys
  Limit <- OnceAndTwice
  Window = 3
  Delay = 1
  MaxTime = 6
SYMMETRY Interchangeable
SPECIFICATION Spec
INVARIANTS TypeOK WindowRespected
PROPERTIES RefusedOnlyIfUsed
CHECK_DEADLOCK FALSE
