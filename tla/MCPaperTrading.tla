--------------------------- MODULE MCPaperTrading ---------------------------
(***************************************************************************)
(* Instances of PaperTrading for TLC.                                      *)
(***************************************************************************)
EXTENDS PaperTrading, TLC

CONSTANTS btc, r1, r2, r3

Symmetry == Permutations(Requests)

Order(side, amount) == [side |-> side, coin |-> btc, amount |-> amount]
\* With Epsilon = 1: a buy so small that it leaves no position, and a sale that
\* may take one unit more than a position of three.
SmallOrders == {Order("buy", 1), Order("buy", 3), Order("sell", 4)}
=============================================================================
