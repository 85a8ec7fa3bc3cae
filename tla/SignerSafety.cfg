SPECIFICATION Spec
CONSTANTS
  None = None
  n1 = n1
  p1 = p1
  q1 = q1
  Plain = {p1}
  Notes = {n1}
  Promised = {q1}
  Openers = {}
  Faults = {"establish","transform","send","notification","shut"}
  MicroEvents = TRUE
  Intervenes = FALSE
CHECK_DEADLOCK FALSE
INVARIANTS TypeOK PendingCountExact NobodyStranded
PROPERTIES ImplementsContract
