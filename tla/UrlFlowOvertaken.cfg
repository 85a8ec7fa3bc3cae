SPECIFICATION Spec
CONSTANTS
  None = None
  u1 = u1
  Steps = {1, 2, 3}
  Programs <- JustOvertaken
  Urls = {u1}
  FlowTimeout = 1
  Faults = {}
  MaxLoads = 2
  MaxTime = 0
CHECK_DEADLOCK FALSE
INVARIANTS CallOrderReplays
