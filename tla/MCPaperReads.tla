---------------------------- MODULE MCPaperReads ----------------------------
(***************************************************************************)
(* An instance of PaperReads for TLC.                                      *)
(***************************************************************************)
EXTENDS PaperReads

CONSTANTS btc, r1, r2

Symmetry == Permutations(Requests)

Order(side, coin, amount) == [side |-> side, coin |-> coin, amount |-> amount]
MCOrders == {Order("buy", btc, 2), Order("sell", btc, 1)}
=============================================================================
