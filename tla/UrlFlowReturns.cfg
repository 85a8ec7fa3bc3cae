SPECIFICATION Spec
CONSTANTS
  None = None
  u1 = u1
  u2 = u2
  Steps = {1, 2, 3, 4}
  Programs <- NonceAndBranches
  Urls = {u1, u2}
  FlowTimeout = 1
  Faults = {"visit","stale","partial","producer"}
  MaxLoads = 4
  MaxTime = 2
CHECK_DEADLOCK FALSE
INVARIANTS TypeOK AnswersMatch NeverDiverges SameSigner
PROPERTIES StableValues RedirectWaits FinishesOnce
