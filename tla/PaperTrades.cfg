SPECIFICATION Spec
CONSTANTS
  btc = btc
  r1 = r1
  r2 = r2
  r3 = r3
  Idle = Idle
  Coins = {btc}
  Epsilon = 1
  Owners = {1}
  Names = {1}
  Requests = {r1, r2}
  PortfolioLimit = 1
  Balances = {8}
  Orders <- SmallOrders
  Prices = {0, 3, 4}
  MaxPortfolios = 1
  MaxTrades = 3
  MaxNow = 1
SYMMETRY Symmetry
INVARIANTS
  TypeOK
  SolventUnlessRaced
  OverdraftBounded
  LedgerBalances
  ResponseIsHistory
  HistoryInOrder
