---------------------------- MODULE MCAlertMarket ---------------------------
(***************************************************************************)
(* Instances of AlertMarket for TLC.                                       *)
(***************************************************************************)
EXTENDS AlertMarket

CONSTANTS btc, eth, r1

Price(direction, target) ==
  [type |-> "price", coin |-> btc, direction |-> direction, target |-> target]
Portfolio(type, direction, target) ==
  [type |-> type, direction |-> direction, target |-> target]

\* Targets on a boundary of what the quotes below can make of two holdings.
MCConditions ==
  {Price("below", 1), Portfolio("value", "below", 2), Portfolio("pnl", "above", -25),
   [type |-> "percent", coin |-> btc, direction |-> "above", window |-> 24, target |-> 5]}

\* CoinGecko has no price, or no percentage, or both.
Said(price, change) == [price |-> price, change |-> [w \in {24} |-> change]]
MCQuotes == {Said(0, Null), Said(1, Null), Said(2, 5)}
=============================================================================
