---------------------------- MODULE PaperLedger ----------------------------
(***************************************************************************)
(* virtual.Compute: what a paper-trading portfolio holds is nowhere        *)
(* stored, it is the fold of the portfolio's trades.  Amounts and money    *)
(* are counted in units so small that Epsilon of them are the 1e-9 that    *)
(* the code forgives, prices in whole money per coin.  An average cost is  *)
(* rounded down to a unit.                                                 *)
(***************************************************************************)
EXTENDS Integers, Sequences, FiniteSets, SequencesExt, FiniteSetsExt, Functions

CONSTANTS Coins,    \* coin ids
          Epsilon   \* positionEpsilon and tradeEpsilon, in units

\* CoinGecko lists finitely many coins.
ASSUME LedgerAssumption == IsFiniteSet(Coins) /\ Epsilon \in Nat

\* Compute's running state; an absent position is one of amount and cost 0.
Ledger == [cash : Int, realized : Int, amount : [Coins -> Int], cost : [Coins -> Int]]

Opening(balance) ==
  [cash |-> balance, realized |-> 0,
   amount |-> [c \in Coins |-> 0], cost |-> [c \in Coins |-> 0]]

\* delete(positions, id) once all but a residue is sold, or when no more than
\* that was bought: the residue and its cost go with the position.
Closed(s, c) ==
  IF s.amount[c] <= Epsilon THEN [s EXCEPT !.amount[c] = 0, !.cost[c] = 0] ELSE s

Bought(s, t) ==
  [s EXCEPT !.cash = @ - t.amount * t.price,
            !.amount[t.coin] = @ + t.amount,
            !.cost[t.coin] = @ + t.amount * t.price]

\* The average cost of what is sold leaves the position with it.
CostOfSold(s, t) ==
  IF s.amount[t.coin] > 0 THEN (s.cost[t.coin] * t.amount) \div s.amount[t.coin] ELSE 0

\* Faulty: the position keeps the cost of what was sold.
SoldKeepingCost(s, t) ==
  [s EXCEPT !.cash = @ + t.amount * t.price,
            !.realized = @ + t.amount * t.price - CostOfSold(s, t),
            !.amount[t.coin] = @ - t.amount]

Sold(s, t) ==
  [s EXCEPT !.cash = @ + t.amount * t.price,
            !.realized = @ + t.amount * t.price - CostOfSold(s, t),
            !.amount[t.coin] = @ - t.amount,
            !.cost[t.coin] = @ - CostOfSold(s, t)]

Posted(s, t) ==
  Closed(IF t.side = "buy" THEN Bought(s, t) ELSE Sold(s, t), t.coin)

Compute(balance, ts) == FoldLeft(Posted, Opening(balance), ts)

-----------------------------------------------------------------------------
(* The same amounts without a fold: sums over the trades, in no order.     *)

Value(ts) == SumFunction([t \in ts |-> t.amount * t.price])
Count(ts) == SumFunction([t \in ts |-> t.amount])

Buys(ts) == {t \in ts : t.side = "buy"}
Sells(ts) == {t \in ts : t.side = "sell"}

NetCash(balance, ts) == balance - Value(Buys(ts)) + Value(Sells(ts))
NetAmount(ts, c) == LET of == {t \in ts : t.coin = c} IN Count(Buys(of)) - Count(Sells(of))
TotalCost(s) == SumFunction(s.cost)

\* The trades of ts at which the fold gives up a position in one of coins.
Closings(balance, ts, coins) ==
  {i \in DOMAIN ts :
     ts[i].coin \in coins /\ Compute(balance, SubSeq(ts, 1, i)).amount[ts[i].coin] = 0}
=============================================================================
