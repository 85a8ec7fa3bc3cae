SPECIFICATION FairChannelSpec
CONSTANTS
  PollingRate = 1
  EstablishTimeout = 3
  DisconnectTimeout = 3
  PendingTimeout = 4
  ServerTimeout = 2
  Delay = 0
  WakesUp = TRUE
  Faults = {"reload","close"}
  MaxEvents = 2
  MaxIds = 6
  CloseOnEstablishTimeout = TRUE
  Survives = TRUE
  MaxSends = 2
CHECK_DEADLOCK FALSE
INVARIANTS TypeOK ChannelTypeOK InOrder
PROPERTIES KeepsLiveSigner BothNotice StatusConverges QueueDrains GoneCloses
