--------------------------- MODULE MCTradeGateway ---------------------------
(***************************************************************************)
(* An instance of TradeGateway for TLC.  A token is of 4 units, a bucket   *)
(* holds one, and 3 units flow in per unit of time.                        *)
(***************************************************************************)
EXTENDS TradeGateway, TLC

CONSTANTS btc, eth, c1, c2

Symmetry == Permutations(Coins) \cup Permutations(Callers)
=============================================================================
