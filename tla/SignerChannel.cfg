SPECIFICATION FairSpec
CONSTANTS
  None = None
  o1 = o1
  p1 = p1
  q1 = q1
  Plain = {p1}
  Notes = {}
  Promised = {q1}
  Openers = {o1}
  Faults = {"transform","input","send","notification","shut"}
  MicroEvents = FALSE
  Intervenes = TRUE
CHECK_DEADLOCK FALSE
INVARIANTS SingleChannel TimerSafe
PROPERTIES EventuallySettles
