---------------------------- MODULE PaperTrading ----------------------------
(***************************************************************************)
(* The paper-trading endpoints that change state                           *)
(* (internal/api/virtual_portfolios.go), as many requests at a time as     *)
(* there are members of Requests.  A request is a chain of calls to        *)
(* Postgres and CoinGecko without a transaction or a lock, so the steps of *)
(* other requests fall between any two of them.                            *)
(***************************************************************************)
EXTENDS PaperStore

CONSTANTS Requests,        \* requests the server handles at a time
          PortfolioLimit,  \* maxVirtualPortfoliosPerDevice
          Balances,        \* starting balances clients ask for
          Orders,          \* the bodies of POST .../trades: side, coin, amount
          Prices,          \* what CoinGecko quotes
          Idle,            \* a slot of Requests without a request
          MaxPortfolios,   \* bound: portfolios ever created
          MaxTrades,       \* bound: trades ever inserted
          MaxNow           \* bound: the last reading of the clock

OrderType == [side : {"buy", "sell"}, coin : Coins, amount : Nat \ {0}]

CreateJob == [step : {"create"}, device : Owners, name : Names, balance : Nat \ {0}]
TradeJob == [step : {"load", "price", "insert", "touch", "respond"},
             portfolio : Nat, balance : Nat \ {0}, order : OrderType, pre : Seq(TradeRow),
             price : Nat, at : Nat, id : Nat]

ASSUME PaperAssumption ==
  /\ IsFiniteSet(Requests) /\ Requests # {}
  /\ PortfolioLimit \in Nat \ {0}
  /\ Balances \subseteq Nat \ {0}
  /\ Orders \subseteq OrderType
  /\ Prices \subseteq Nat
  /\ Idle \notin CreateJob \cup TradeJob
  /\ MaxPortfolios \in Nat /\ MaxTrades \in Nat /\ MaxNow \in Nat

VARIABLES req,   \* what the handler in each slot knows: its local variables
          now,   \* the server's clock
          raced  \* portfolios that took a trade decided on a stale ledger

vars == <<registered, portfolios, trades, lastPortfolio, lastTrade, req, now, raced>>

Init ==
  /\ PaperStoreInit
  /\ req = [r \in Requests |-> Idle] /\ now = 0 /\ raced = {}

At(r, step) == req[r] # Idle /\ req[r].step = step
Goes(r, job) == req' = [req EXCEPT ![r] = job]

-----------------------------------------------------------------------------
(* register: POST /v1/virtual/portfolios                                   *)

HasRoomAtLimit(count) == count <= PortfolioLimit   \* faulty: one too many
HasRoom(count) == count < PortfolioLimit

CountPortfolios(r, d, name, balance) ==
  /\ req[r] = Idle /\ d \in registered
  /\ HasRoom(CountByDevice(d))
  /\ Goes(r, [step |-> "create", device |-> d, name |-> name, balance |-> balance])
  /\ UNCHANGED <<store, now, raced>>

\* A taken name or a device deleted meanwhile is an error to the client.
CreatePortfolio(r) ==
  /\ At(r, "create") /\ lastPortfolio < MaxPortfolios
  /\ IF CanCreate(req[r].device, req[r].name)
       THEN Create(req[r].device, req[r].name, req[r].balance, now)
       ELSE UNCHANGED <<portfolios, lastPortfolio>>
  /\ Goes(r, Idle)
  /\ UNCHANGED <<registered, trades, lastTrade, now, raced>>

\* delete: a portfolio keeps its device, so that the lookup before the
\* statement decides nothing the statement would not.
DeletePortfolio(p) ==
  /\ PortfolioExists(p)
  /\ DeletePortfolios({PortfolioOf(p)})
  /\ UNCHANGED <<registered, lastPortfolio, lastTrade, req, now, raced>>

-----------------------------------------------------------------------------
(* executeTrade: POST /v1/virtual/portfolios/{id}/trades                   *)

ResolvePortfolio(r, p, order) ==
  /\ req[r] = Idle /\ PortfolioExists(p)
  /\ Goes(r, [step |-> "load", portfolio |-> p, balance |-> PortfolioOf(p).balance,
              order |-> order, pre |-> <<>>, price |-> 0, at |-> 0, id |-> 0])
  /\ UNCHANGED <<store, now, raced>>

LoadTrades(r) ==
  /\ At(r, "load")
  /\ Goes(r, [req[r] EXCEPT !.step = "price", !.pre = ListAllByPortfolio(req[r].portfolio)])
  /\ UNCHANGED <<store, now, raced>>

\* The trade an order makes at the price fetched.
Entry(order, price) ==
  [side |-> order.side, coin |-> order.coin, amount |-> order.amount, price |-> price]

\* Faulty: the buyer is held to the starting balance, not to what is left.
CoversAtBalance(job, price) ==
  LET state == Compute(job.balance, job.pre)
  IN  IF job.order.side = "buy"
        THEN job.order.amount * price <= job.balance + Epsilon
        ELSE job.order.amount <= state.amount[job.order.coin] + Epsilon

\* Faulty: the seller's holdings are not looked at.
CoversBuysOnly(job, price) ==
  job.order.side = "buy" =>
    job.order.amount * price <= Compute(job.balance, job.pre).cash + Epsilon

\* The state computed before the trade pays for it, up to tradeEpsilon.
Covers(job, price) ==
  LET state == Compute(job.balance, job.pre)
  IN  IF job.order.side = "buy"
        THEN job.order.amount * price <= state.cash + Epsilon
        ELSE job.order.amount <= state.amount[job.order.coin] + Epsilon

UsableAtZero(price) == price >= 0   \* faulty
Usable(price) == price > 0

\* Faulty: the trade is stamped with the time of its price, which may be cached.
PriceAsFetched(r, price) ==
  /\ At(r, "price")
  /\ IF Usable(price) /\ Covers(req[r], price)
       THEN /\ now' \in {n \in {now, now + 1} : n <= MaxNow}
            /\ \E at \in {n \in {now' - 1, now'} : n >= 0} :
                 Goes(r, [req[r] EXCEPT !.step = "insert", !.price = price, !.at = at])
       ELSE Goes(r, Idle) /\ UNCHANGED now
  /\ UNCHANGED <<store, raced>>

\* FetchOne answers; the order is checked and the clock read at once.
Price(r, price) ==
  /\ At(r, "price")
  /\ IF Usable(price) /\ Covers(req[r], price)
       THEN /\ now' \in {n \in {now, now + 1} : n <= MaxNow}
            /\ Goes(r, [req[r] EXCEPT !.step = "insert", !.price = price, !.at = now'])
       ELSE Goes(r, Idle) /\ UNCHANGED now
  /\ UNCHANGED <<store, raced>>

\* The foreign key fails the insert when the portfolio is gone.
Insert(r) ==
  /\ At(r, "insert") /\ lastTrade < MaxTrades
  /\ LET job == req[r]
     IN  IF PortfolioExists(job.portfolio)
           THEN /\ InsertTrade(job.portfolio, Entry(job.order, job.price), job.at)
                /\ Goes(r, [job EXCEPT !.step = "touch", !.id = lastTrade'])
                /\ raced' = IF ListAllByPortfolio(job.portfolio) = job.pre THEN raced
                            ELSE raced \cup {job.portfolio}
           ELSE Goes(r, Idle) /\ UNCHANGED <<trades, lastTrade, raced>>
  /\ UNCHANGED <<registered, portfolios, lastPortfolio, now>>

\* An error here answers 500 although the trade is stored.
TouchPortfolio(r) ==
  /\ At(r, "touch")
  /\ IF PortfolioExists(req[r].portfolio)
       THEN /\ Touch(req[r].portfolio, req[r].at)
            /\ Goes(r, [req[r] EXCEPT !.step = "respond"])
       ELSE Goes(r, Idle) /\ UNCHANGED portfolios
  /\ UNCHANGED <<registered, trades, lastPortfolio, lastTrade, now, raced>>

\* Faulty: the new trade goes first.
PostTradesSwapped(job) ==
  <<[id |-> job.id, portfolio |-> job.portfolio, side |-> job.order.side,
     coin |-> job.order.coin, amount |-> job.order.amount, price |-> job.price,
     executedAt |-> job.at]>> \o job.pre

\* postTrades: what the 201 shows the client is computed from this list.
PostTrades(job) ==
  Append(job.pre,
    [id |-> job.id, portfolio |-> job.portfolio, side |-> job.order.side,
     coin |-> job.order.coin, amount |-> job.order.amount, price |-> job.price,
     executedAt |-> job.at])

\* FetchMany and the re-read portfolio only decorate the answer.
Respond(r) ==
  /\ At(r, "respond")
  /\ Goes(r, Idle)
  /\ UNCHANGED <<store, now, raced>>

-----------------------------------------------------------------------------
(* Whatever ends a request early (a call that fails or is cancelled, a     *)
(* lost reply, the process going down) leaves the store as it is then.     *)

Abandon(r) ==
  /\ req[r] # Idle
  /\ Goes(r, Idle)
  /\ UNCHANGED <<store, now, raced>>

(* Device rows come and go by the endpoints of AlertService and by the     *)
(* worker's revocation, whose cascade takes the portfolios along.          *)

RegisterDevice(d) ==
  /\ registered' = registered \cup {d}
  /\ UNCHANGED <<portfolios, trades, lastPortfolio, lastTrade, req, now, raced>>

RevokeDevice(d) ==
  /\ registered' = registered \ {d}
  /\ DeletePortfolios(OwnedBy(d))
  /\ UNCHANGED <<lastPortfolio, lastTrade, req, now, raced>>

PortfolioStep(r) ==
  \/ \E d \in Owners, n \in Names, b \in Balances : CountPortfolios(r, d, n, b)
  \/ CreatePortfolio(r)

TradeStep(r) ==
  \/ \E p \in 1 .. lastPortfolio, order \in Orders : ResolvePortfolio(r, p, order)
  \/ LoadTrades(r)
  \/ \E price \in Prices : Price(r, price)
  \/ Insert(r) \/ TouchPortfolio(r) \/ Respond(r)

Next ==
  \/ \E r \in Requests : PortfolioStep(r) \/ TradeStep(r) \/ Abandon(r)
  \/ \E p \in 1 .. lastPortfolio : DeletePortfolio(p)
  \/ \E d \in Owners : RegisterDevice(d) \/ RevokeDevice(d)

Spec == Init /\ [][Next]_vars

-----------------------------------------------------------------------------
(* Safety *)

\* Rows hold what the schema's columns and CHECKs ask for, prices above zero
\* included, its keys hold whatever is deleted beside the requests, and a
\* request's locals are what its step has filled in.
TypeOK ==
  /\ PaperStoreTypeOK /\ KeysHold
  /\ DOMAIN req = Requests
  /\ \A r \in Requests : req[r] = Idle \/ req[r] \in CreateJob \/ req[r] \in TradeJob
  /\ now \in Nat
  /\ raced \subseteq Nat

ClosingsOf(row, coins) ==
  Cardinality(Closings(row.balance, ListAllByPortfolio(row.id), coins))

\* "rejects the trade if cash or holdings don't cover it": summed over its
\* trades, a portfolio has spent no cash and sold no coin it did not have, up to
\* Epsilon of cash and, each time it sold a coin out, Epsilon of the coin.
Solvent(row) ==
  /\ NetCash(row.balance, TradesOf(row.id)) >= -Epsilon
  /\ \A c \in Coins :
       NetAmount(TradesOf(row.id), c) >= -Epsilon * ClosingsOf(row, {c})

\* That promise holds of every portfolio, also after deletions, failures and
\* concurrent requests, as long as no trade went in on a stale ledger.
SolventUnlessRaced == \A row \in portfolios : row.id \notin raced => Solvent(row)

\* The promise as it is documented, with no such condition.
AlwaysSolvent == \A row \in portfolios : Solvent(row)

Costs == {order.amount * price : order \in Orders, price \in Prices} \cup {0}
Amounts == {order.amount : order \in Orders} \cup {0}
Quotes == Prices \cup {0}

\* Amounts and prices are float64 in the code: there is a largest of each, and a
\* dearest order.
ASSUME SizeAssumption ==
  \A sizes \in {Costs, Amounts, Quotes} :
    \E largest \in sizes : \A size \in sizes : size <= largest

\* Even with stale ledgers the overdraft is bounded: a request can be late by
\* what the others spend, so cash falls below zero by at most the dearest
\* order for each request the server handles beside the first, and Epsilon.
OverdraftBounded ==
  \A row \in portfolios :
    NetCash(row.balance, TradesOf(row.id))
      >= -((Cardinality(Requests) - 1) * Max(Costs)) - Epsilon

\* The most by which a portfolio sells more of a coin than it holds: on a stale
\* ledger, a whole order.
Oversold(row) == IF row.id \in raced THEN Max(Amounts) ELSE Epsilon

\* The fold of ListAllByPortfolio keeps books, of overdrawn portfolios too.  Its
\* cash is the sum over the rows.  Its amounts, and its cash and the cost of the
\* open positions against the starting balance and the realized profit, are off
\* by no more than what the closings drop: each drops a residue of Epsilon at
\* most, or forgives what was sold beyond the position, with its cost.
LedgerBalances ==
  \A row \in portfolios :
    LET rows == TradesOf(row.id)
        state == Compute(row.balance, ListAllByPortfolio(row.id))
        least == Epsilon * Max(Quotes)
        most == Oversold(row) * Max(Quotes)
    IN  /\ state.cash = NetCash(row.balance, rows)
        /\ \A c \in Coins :
             state.amount[c] - NetAmount(rows, c)
               \in -Epsilon * ClosingsOf(row, {c}) .. Oversold(row) * ClosingsOf(row, {c})
        /\ state.cash + TotalCost(state) - (row.balance + state.realized)
             \in -least * ClosingsOf(row, Coins) .. most * ClosingsOf(row, Coins)

\* The trades of the portfolio that a request loaded when k was the last trade
\* inserted, and the one it inserted itself.
SeenAt(job, k) == {t \in TradesOf(job.portfolio) : t.id <= k \/ t.id = job.id}

\* The 201 of a trade shows a state that the portfolio could be in: it is
\* computed from the trades there were at one moment before the new one and, if
\* no trade went in on a stale ledger, from all that there were before it.
ResponseIsHistory ==
  \A r \in Requests :
    At(r, "respond") /\ PortfolioExists(req[r].portfolio) =>
      /\ \E k \in 0 .. req[r].id - 1 : PostTrades(req[r]) = InOrder(SeenAt(req[r], k))
      /\ req[r].portfolio \notin raced =>
           IsPrefix(PostTrades(req[r]), ListAllByPortfolio(req[r].portfolio))

\* "id-order matches executed_at-order": the pages of a history, newest first by
\* id, are newest first by time if no trade went in on a stale ledger; two
\* requests that read the clock in one order and insert in the other break it.
HistoryInOrder ==
  \A row \in portfolios : row.id \notin raced =>
    \A t, u \in TradesOf(row.id) : u.id < t.id => u.executedAt <= t.executedAt

\* Two requests that count before either inserts exceed the cap, but by no
\* more than the requests handled beside the first.
CapBounded ==
  \A d \in Owners : CountByDevice(d) <= PortfolioLimit + Cardinality(Requests) - 1

\* "caps the per-device portfolio count"
CapHolds == \A d \in Owners : CountByDevice(d) <= PortfolioLimit
=============================================================================
