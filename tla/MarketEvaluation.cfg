SPECIFICATION Spec
CONSTANTS
  btc = btc
  eth = eth
  Coins = {btc, eth}
  Windows = {24}
  Null = Null
  Devices = {1}
  Conditions <- MCConditions
  Quotes <- MCQuotes
  Amounts = {1, 2}
  Costs = {2}
  Callers = {r1}
  r1 = r1
  Idle = Idle
  MaxWrites = 2
  MaxAlerts = 2
INVARIANTS
  TypeOK
  VerdictsMatchMarket
  MissingDataErrsLow
  PutAnswersNoOlder
