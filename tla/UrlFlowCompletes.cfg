SPECIFICATION FairSpec
CONSTANTS
  None = None
  u1 = u1
  u2 = u2
  Steps = {1, 2, 3, 4, 5, 6, 7, 8}
  Programs <- JustLong
  Urls = {u1, u2}
  FlowTimeout = 1
  Faults = {}
  MaxLoads = 4
  MaxTime = 1
CHECK_DEADLOCK FALSE
INVARIANTS OneHopPerStage ShapeKept
PROPERTIES Completes
