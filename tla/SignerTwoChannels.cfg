SPECIFICATION Spec
CONSTANTS
  None = None
  p1 = p1
  p2 = p2
  p3 = p3
  Plain = {p1,p2,p3}
  Notes = {}
  Promised = {}
  Openers = {}
  Faults = {"establish"}
  MicroEvents = FALSE
  Intervenes = FALSE
SYMMETRY Symmetry
CHECK_DEADLOCK FALSE
INVARIANTS SingleChannel
