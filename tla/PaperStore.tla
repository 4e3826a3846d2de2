----------------------------- MODULE PaperStore -----------------------------
(***************************************************************************)
(* The tables behind paper trading (migration 0002) with the device rows   *)
(* they hang from, and one operator for each repository statement of       *)
(* VirtualPortfolioRepo and VirtualTradeRepo that the handlers run.        *)
(***************************************************************************)
EXTENDS PaperLedger

CONSTANTS Owners,    \* device ids
          Names      \* portfolio names

VARIABLES registered,     \* the device rows
          portfolios,     \* the rows of virtual_portfolios
          trades,         \* the rows of virtual_trades
          lastPortfolio,  \* portfolio ids are fresh UUIDs: here, a counter
          lastTrade       \* the BIGSERIAL behind virtual_trades.id

store == <<registered, portfolios, trades, lastPortfolio, lastTrade>>

PortfolioRow == [id : Nat \ {0}, device : Owners, name : Names, balance : Nat \ {0},
                 updatedAt : Nat]
TradeRow == [id : Nat \ {0}, portfolio : Nat, side : {"buy", "sell"}, coin : Coins,
             amount : Nat \ {0}, price : Nat \ {0}, executedAt : Nat]

PaperStoreTypeOK ==
  /\ registered \subseteq Owners
  /\ portfolios \subseteq PortfolioRow
  /\ trades \subseteq TradeRow
  /\ lastPortfolio \in Nat
  /\ lastTrade \in Nat

PaperStoreInit ==
  /\ registered = {} /\ portfolios = {} /\ trades = {}
  /\ lastPortfolio = 0 /\ lastTrade = 0

PortfolioExists(p) == \E row \in portfolios : row.id = p
PortfolioOf(p) == CHOOSE row \in portfolios : row.id = p
TradesOf(p) == {t \in trades : t.portfolio = p}
OwnedBy(d) == {row \in portfolios : row.device = d}

\* The schema's keys: each id once, a name once per device, a portfolio of a
\* device that is registered, a trade of a portfolio that exists.
KeysHold ==
  /\ \A row, other \in portfolios :
       row.id = other.id \/ (row.device = other.device /\ row.name = other.name)
         => row = other
  /\ \A t, u \in trades : t.id = u.id => t = u
  /\ \A row \in portfolios : row.device \in registered
  /\ \A t \in trades : PortfolioExists(t.portfolio)

-----------------------------------------------------------------------------

CountByDevice(d) == Cardinality(OwnedBy(d))

\* The foreign key to devices and UNIQUE (device_id, name).
CanCreate(d, name) ==
  d \in registered /\ \A row \in OwnedBy(d) : row.name # name

Create(d, name, balance, now) ==
  /\ lastPortfolio' = lastPortfolio + 1
  /\ portfolios' = portfolios \cup
       {[id |-> lastPortfolio + 1, device |-> d, name |-> name, balance |-> balance,
         updatedAt |-> now]}

\* DELETE with its cascade to the trades of what is deleted.
DeletePortfolios(rows) ==
  /\ portfolios' = portfolios \ rows
  /\ trades' = {t \in trades : \A row \in rows : t.portfolio # row.id}

\* ORDER BY executed_at ASC, id ASC
Earlier(t, u) ==
  t.executedAt < u.executedAt \/ (t.executedAt = u.executedAt /\ t.id < u.id)
InOrder(ts) ==
  CHOOSE rows \in SetToSeqs(ts) :
    \A i, j \in DOMAIN rows : i < j => Earlier(rows[i], rows[j])

ListAllByPortfolio(p) == InOrder(TradesOf(p))

InsertTrade(p, entry, now) ==
  /\ lastTrade' = lastTrade + 1
  /\ trades' = trades \cup
       {[id |-> lastTrade + 1, portfolio |-> p, side |-> entry.side, coin |-> entry.coin,
         amount |-> entry.amount, price |-> entry.price, executedAt |-> now]}

Touch(p, now) ==
  portfolios' = {IF row.id = p THEN [row EXCEPT !.updatedAt = now] ELSE row :
                   row \in portfolios}
=============================================================================
