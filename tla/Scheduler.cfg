SPECIFICATION Spec
CONSTANTS
  w1 = w1
  g1 = g1
  Workers = {w1, w2}
  Fibers = {f1}
  Funs = {g1}
  None = None
  NoId = NoId
  Target <- MCTarget
  Yielders = {f1, g1}
  MaxYields = 2
  MaxSpurious = 1
INVARIANTS TypeOK IdsPublished FiberInOnePlace CountsExact OnlyTheRaceStrands
PROPERTIES StartAndStopReturn YieldedResumes
CHECK_DEADLOCK FALSE
