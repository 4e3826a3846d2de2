SPECIFICATION Spec
CONSTANTS
  None = None
  Devices = {1}
  Alerts = {1, 2}
  Recurrences <- AllRecurrences
  Bodies <- FreshBodies
  MaxTime = 2
  MaxFaults = 0
  DurationLimit = 8
  MaxDefs = 2
  MaxTokens = 1
PROPERTIES
  OnlyOneShotsRetire
