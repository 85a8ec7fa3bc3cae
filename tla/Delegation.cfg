SPECIFICATION Spec
CONSTANTS
  Canisters = {c1, c2}
  Keys = {k1, k2}
  Unscoped = Unscoped
  Malformed = Malformed
  None = None
  MaxU64 = 3
  Skew = 1
  MaxHops = 2
  MaxTtl = 1
  MaxTime = 2
SYMMETRY Symmetry
INVARIANTS
  TypeOK
  GrantsNoMore
  HonestAccepted
PROPERTY StaysAccepted
CHECK_DEADLOCK FALSE
