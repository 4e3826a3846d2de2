--------------------------- MODULE AlertConditions --------------------------
(***************************************************************************)
(* What an alert's condition says of the market and of the device's        *)
(* holdings (internal/eval/decide.go, portfolio.go).  Amounts and prices   *)
(* are whole numbers, and a comparison of quotients is made by cross       *)
(* multiplication, so that nothing is rounded.                             *)
(***************************************************************************)
EXTENDS Integers, FiniteSets, Functions

CONSTANTS Coins, Windows,
          Null   \* a nil percentage: CoinGecko has none for the window

\* Any word is taken for a direction; "other" is one that is neither of the two.
Direction == {"above", "below", "other"}

\* The closed set of conditions, by type.
PriceCrossing == [type : {"price"}, coin : Coins, direction : Direction, target : Int]
PercentChange == [type : {"percent"}, coin : Coins, direction : Direction,
                  window : Windows, target : Int]
PortfolioCondition == [type : {"value", "pnl"}, direction : Direction, target : Int]
ConditionType == PriceCrossing \cup PercentChange \cup PortfolioCondition

\* A coin of the markets response; a null price decodes to 0.
Quote == [price : Nat, change : [Windows -> Int \cup {Null}]]

\* A holding, by coin; both numbers are positive.
Holding == [amount : Nat \ {0}, cost : Nat \ {0}]

NeedsPortfolio(c) == c.type \in {"value", "pnl"}
RequiredCoinIDs(c) == IF NeedsPortfolio(c) THEN {} ELSE {c.coin}

-----------------------------------------------------------------------------
Crossed(value, target, direction) ==
  \/ direction = "above" /\ value >= target
  \/ direction = "below" /\ value <= target

\* Faulty: a holding without a quote is taken at what it cost.
PriceOrCost(holdings, quotes, c) ==
  IF c \in DOMAIN quotes THEN quotes[c].price ELSE holdings[c].cost

\* "Missing coins fall back to a current price of 0."
PriceOf(holdings, quotes, c) == IF c \in DOMAIN quotes THEN quotes[c].price ELSE 0

TotalValue(holdings, quotes) ==
  SumFunction([c \in DOMAIN holdings |-> holdings[c].amount * PriceOf(holdings, quotes, c)])

TotalCost(holdings) ==
  SumFunction([c \in DOMAIN holdings |-> holdings[c].amount * holdings[c].cost])

\* percentPnL against the target, both sides multiplied by the total cost.
PnLCrossed(holdings, quotes, target, direction) ==
  LET pnl == TotalValue(holdings, quotes) - TotalCost(holdings)
  IN  IF TotalCost(holdings) > 0
        THEN Crossed(100 * pnl, target * TotalCost(holdings), direction)
        ELSE Crossed(0, target, direction)

\* evaluate: "missing" is its ok = false.  A device without holdings has no
\* summary.
Evaluate(c, quotes, holdings) ==
  LET verdict(b) == IF b THEN "true" ELSE "false"
  IN  IF NeedsPortfolio(c)
        THEN IF DOMAIN holdings = {} THEN "missing"
             ELSE verdict(IF c.type = "value"
                            THEN Crossed(TotalValue(holdings, quotes), c.target, c.direction)
                            ELSE PnLCrossed(holdings, quotes, c.target, c.direction))
      ELSE IF c.coin \notin DOMAIN quotes THEN "missing"
      ELSE IF c.type = "price"
        THEN verdict(Crossed(quotes[c.coin].price, c.target, c.direction))
      ELSE IF quotes[c.coin].change[c.window] = Null THEN "missing"
      ELSE verdict(Crossed(quotes[c.coin].change[c.window], c.target, c.direction))
=============================================================================
