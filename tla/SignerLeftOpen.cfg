SPECIFICATION FairSpec
CONSTANTS
  None = None
  p1 = p1
  p2 = p2
  Plain = {p1,p2}
  Notes = {}
  Promised = {}
  Openers = {}
  Faults = {"send"}
  MicroEvents = FALSE
  Intervenes = FALSE
CHECK_DEADLOCK FALSE
PROPERTIES AutoCloses
