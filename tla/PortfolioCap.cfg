SPECIFICATION Spec
CONSTANTS
  btc = btc
  r1 = r1
  r2 = r2
  r3 = r3
  Idle = Idle
  Coins = {btc}
  Epsilon = 1
  Owners = {1}
  Names = {1, 2, 3, 4, 5}
  Requests = {r1, r2, r3}
  PortfolioLimit = 2
  Balances = {1}
  Orders = {}
  Prices = {}
  MaxPortfolios = 5
  MaxTrades = 0
  MaxNow = 0
SYMMETRY Symmetry
INVARIANTS
  CapHolds
