SPECIFICATION FairSpec
CONSTANTS
  Updates = {u}
  Queries = {q}
  Targets = {t1, t2}
  Accounts = {a1, a2}
  Target <- SameTarget
  None = None
  Own = Own
  CalledTarget = t1
  MaxReplacements = 2
CHECK_DEADLOCK FALSE
INVARIANTS TypeOK OneAtATime OwnResult HandedOnce
PROPERTIES HonestAccepted EventuallySettles
