SPECIFICATION Spec
CONSTANTS
  btc = btc
  eth = eth
  c1 = c1
  c2 = c2
  Absent = Absent
  Nothing = Nothing
  Clients = {1}
  Token = 4
  Rate = 3
  Burst = 1
  MaxLives = 1
  Coins = {btc, eth}
  Callers = {c1, c2}
  PriceTTL = 2
  FlightTime = 1
  MaxClock = 3
SYMMETRY Symmetry
INVARIANTS
  TypeOK
  AllowanceIsExact
  FreshEnough
PROPERTIES
  QuotaSpared
  RewindBounded
