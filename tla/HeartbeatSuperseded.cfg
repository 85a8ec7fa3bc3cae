SPECIFICATION Spec
CONSTANTS
  PollingRate = 1
  EstablishTimeout = 3
  DisconnectTimeout = 7
  PendingTimeout = 7
  ServerTimeout = 4
  Delay = 1
  WakesUp = FALSE
  Faults = {}
  MaxEvents = 0
  MaxIds = 6
CHECK_DEADLOCK FALSE
PROPERTIES KeepsLiveSigner
