SPECIFICATION Spec
CONSTANTS Creations = {c1, c2}
CHECK_DEADLOCK FALSE
INVARIANTS CreateSucceeds
