----------------------------- MODULE PaperViews -----------------------------
(***************************************************************************)
(* The paper-trading endpoints that show portfolios: the list, the detail  *)
(* and the quote.  Each loads the portfolios' rows first, then the trades  *)
(* of one after the other, then prices, and computes what it shows from    *)
(* those lists of trades, while requests beside it insert, delete and      *)
(* revoke.  What it makes of the prices, apart from a quote's limits, is   *)
(* left out.                                                               *)
(***************************************************************************)
EXTENDS PaperTrading

VARIABLE view    \* the view in progress: the rows it shows, the last trade there
                \* was when it began, and the lists it has loaded, by portfolio

-----------------------------------------------------------------------------
(* The steps of list, getDetail and quote                                  *)

ByLowestId(rows) == CHOOSE row \in rows : \A other \in rows : row.id <= other.id

\* The rows are read, no trades are loaded yet.
Begin(rows) ==
  /\ view' = [rows |-> rows, since |-> lastTrade, loaded |-> <<>>]
  /\ UNCHANGED vars

\* ListByDevice: without a portfolio the list is empty.
StartList(d) ==
  /\ view = Idle /\ d \in registered /\ OwnedBy(d) # {}
  /\ Begin(OwnedBy(d))

\* Get, of the detail and of the quote: a missing portfolio is a 404.
StartView(p) ==
  /\ view = Idle /\ PortfolioExists(p)
  /\ Begin({PortfolioOf(p)})

ToLoad == {row \in view.rows : row.id \notin DOMAIN view.loaded}

\* Faulty: only the trades that the row's updated_at accounts for.
LoadTouched ==
  /\ view # Idle /\ ToLoad # {}
  /\ LET row == ByLowestId(ToLoad)
         touched == {t \in TradesOf(row.id) : t.executedAt <= row.updatedAt}
     IN  view' = [view EXCEPT !.loaded =
                    [q \in DOMAIN @ \cup {row.id} |->
                       IF q = row.id THEN InOrder(touched) ELSE @[q]]]
  /\ UNCHANGED vars

\* ListAllByPortfolio, one portfolio after the other.
LoadView ==
  /\ view # Idle /\ ToLoad # {}
  /\ LET p == ByLowestId(ToLoad).id
     IN  view' = [view EXCEPT !.loaded =
                    [q \in DOMAIN @ \cup {p} |->
                       IF q = p THEN ListAllByPortfolio(p) ELSE @[q]]]
  /\ UNCHANGED vars

\* The prices come, and the view is shown.  Without prices the list goes on
\* with none; the detail and the quote answer 502.
ShowView ==
  /\ view # Idle /\ ToLoad = {}
  /\ view' = Idle
  /\ UNCHANGED vars

AbandonView == view # Idle /\ view' = Idle /\ UNCHANGED vars

ViewStep ==
  \/ \E d \in Owners : StartList(d)
  \/ \E p \in 1 .. lastPortfolio : StartView(p)
  \/ LoadView \/ ShowView \/ AbandonView

-----------------------------------------------------------------------------
(* The limits of a quote *)

\* Faulty: the limits are those of the starting balance.
QuoteAtBalance(row, ts, coin, price) ==
  [buy : {row.balance \div price}, sell : {Compute(row.balance, ts).amount[coin]}]

\* quote: what is held, and what the cash buys, a quotient of float64s that may
\* come out on either side of a unit's boundary.
Quote(row, ts, coin, price) ==
  LET state == Compute(row.balance, ts)
      buys == state.cash \div price
  IN  [buy : IF state.cash <= 0 THEN {0} ELSE {buys, buys + 1},
       sell : {state.amount[coin]}]

-----------------------------------------------------------------------------
(* Properties *)

Loaded == view # Idle /\ ToLoad = {}

\* Each list of trades behind a view is the portfolio's at one moment after the
\* request came: whatever is inserted between its queries, by requests that
\* overtake each other too, every trade stored before is in it, no later one
\* without those before it, and each at the place where the fold wants it.
\* (Two lists of one answer may be of different moments, and the rows shown with
\* them are older than both.)
ViewIsCurrent ==
  view # Idle =>
    \A row \in view.rows \ ToLoad :
      PortfolioExists(row.id) =>
        \E k \in view.since .. lastTrade :
          view.loaded[row.id] = InOrder({t \in TradesOf(row.id) : t.id <= k})

\* Below the limit of a buy, up to that of a sale: what a quote says will do.
Promised(order, quoted) ==
  IF order.side = "buy" THEN order.amount < quoted.buy ELSE order.amount <= quoted.sell

\* Not beyond the limits by more than a rounding and what the check forgives.
Tolerated(order, quoted, price) ==
  IF order.side = "buy" THEN order.amount <= quoted.buy + 1 + Epsilon \div price
                        ELSE order.amount <= quoted.sell + Epsilon

\* A quote tells a client what it can trade, although the check of the trade
\* forgives Epsilon, the quote does not, and float64 rounds its quotient: on the
\* ledger and at the price of the quote every order below its limits is taken,
\* and none that is beyond them by more than a rounding and Epsilon.  (A buy of
\* exactly the limit may be refused: rounded up, it costs more than there is.)
QuoteIsActionable ==
  Loaded =>
    \A row \in view.rows, price \in {p \in Prices : Usable(p)}, r \in Requests :
      At(r, "price") /\ req[r].portfolio = row.id /\ req[r].pre = view.loaded[row.id] =>
        \A quoted \in Quote(row, view.loaded[row.id], req[r].order.coin, price) :
          /\ Promised(req[r].order, quoted) => Covers(req[r], price)
          /\ Covers(req[r], price) => Tolerated(req[r].order, quoted, price)
=============================================================================
