SPECIFICATION Spec
CONSTANTS
  btc = btc
  r1 = r1
  r2 = r2
  r3 = r3
  Idle = Idle
  Coins = {btc}
  Epsilon = 1
  Owners = {1}
  Names = {1}
  Requests = {r1, r2}
  PortfolioLimit = 1
  Balances = {3}
  Orders <- SmallOrders
  Prices = {0, 1, 2}
  MaxPortfolios = 1
  MaxTrades = 2
  MaxNow = 1
SYMMETRY Symmetry
INVARIANTS
  AlwaysSolvent
