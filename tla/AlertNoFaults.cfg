SPECIFICATION FairSpec
CONSTANTS
  None = None
  Devices = {1, 2}
  Alerts = {1, 2}
  Recurrences <- AllRecurrences
  Bodies <- TwoBodies
  MaxTime = 2
  MaxFaults = 0
  DurationLimit = 8
  MaxDefs = 2
  MaxTokens = 1
INVARIANTS
  NoFiringForgotten
  PendingIsInHand
PROPERTIES
  FiringsSettle
