SPECIFICATION Spec
CONSTANTS
  None = None
  Devices = {1}
  Alerts = {1, 2}
  Recurrences <- AllRecurrences
  Bodies <- FreshBodies
  MaxTime = 3
  MaxFaults = 1
  DurationLimit = 8
  MaxDefs = 2
  MaxTokens = 1
INVARIANTS
  TypeOK
  IInv
  OneShotAtMostOnce
  CooldownSpacing
  CrossingRearmed
  AuditIsTruthful
PROPERTIES
  StatusSettlesOnce
  ContractHonoured
