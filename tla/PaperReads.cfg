SPECIFICATION ReadSpec
CONSTANTS
  btc = btc
  r1 = r1
  r2 = r2
  Idle = Idle
  Coins = {btc}
  Epsilon = 1
  Owners = {1}
  Names = {1}
  Requests = {r1, r2}
  PortfolioLimit = 1
  Balances = {6}
  Orders <- MCOrders
  Prices = {2}
  MaxPortfolios = 1
  MaxTrades = 3
  MaxNow = 1
  PageLimits = {3}
  MaxPage = 2
INVARIANTS
  ViewIsCurrent
  QuoteIsActionable
  WalkMissesNothing
  WalkShowsOnce
SYMMETRY Symmetry
