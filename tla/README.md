# Verification of the crypto portfolio tracker API

This directory holds TLA+ models of the backend in `src/`, the TLC configurations
that check them on small instances, and proofs of their most important
properties by TLAPS. `PROJECT.json` lists components, runs, hazards, findings,
theorems, and the source lines each definition stands for.

## 1. The system

Two processes share one Postgres database and nothing else. They take no locks
and open no transactions: every repository call is one SQL statement.

| Component | State | Operations | Hard part |
|---|---|---|---|
| tables (`internal/storage`, `migrations`) | devices, alerts, firings, holdings, virtual_portfolios, virtual_trades | one statement each; foreign keys cascade on delete | statements of both processes interleave |
| worker (`cmd/worker`, `internal/worker`, `internal/eval`, `internal/push`) | a tick's snapshot, its firings, a 30 s context | list active alerts, evaluate, persist, deliver | crash, deadline, lost replies, stale snapshot |
| alert and device endpoints (`internal/api`) | none | PUT and DELETE alerts, register device | race with the tick |
| paper-trading endpoints (`internal/api/virtual_portfolios.go`) | a request's local variables | create, delete, trade | check-then-act over several calls |
| paper-trading ledger (`internal/virtual/compute.go`) | none: a fold over the trades | Compute | order of trades, average cost |
| portfolio views and trade history (`virtual_portfolios.go`, `ListPage`) | a request's local variables, a client's cursor | list, detail, quote, page of trades | several queries while trades are inserted |
| pricing cache (`internal/virtual/pricing.go`) | map of prices, requests under way | FetchOne, FetchMany | staleness, shared and overtaking requests |
| trade rate limiter (`internal/api/rate_limit.go`) | map of token buckets | allow | fractions, limits, forgotten at a restart |
| alert conditions (`internal/eval/decide.go`, `portfolio.go`) | none | evaluate, buildSummary | data CoinGecko leaves out |
| holdings endpoints (`internal/api/holdings.go`) | holdings | PUT, DELETE | upsert and re-read are two statements |
| authentication, push payload, configuration, migrations | none | | reads and data, not control |

Cache and buckets are shared by the API's goroutines, each behind a mutex that
no call to CoinGecko is made under.

What makes each correct:

- *Worker and store.* A notification is sent as often as the alert's recurrence
  says: once for a one-shot, at least `seconds` apart for a cooldown, once per
  false-to-true transition for a crossing. The firings table tells the truth
  about deliveries. A tick loses nothing it evaluated, and one failed delivery
  does not hold up the others.
- *Device lifetime.* A 410 removes the registration of the token it was about.
- *Paper trading.* A trade is rejected if cash or holdings do not cover it; the
  books balance; a device has no more portfolios than the cap; a response
  shows a state the portfolio was in.
- *Views and history.* A view shows all that was stored before it was asked for;
  a trade within a quote's limits goes through; a client that follows the
  cursors sees every trade once.
- *Pricing cache.* A price a trade is decided on is no older than its lifetime
  and one request to CoinGecko; upstream requests are shared.
- *Rate limiter.* At most burst plus rate times elapsed trades in any window,
  and no less, and one burst more for each restart.
- *Conditions.* A verdict is what the condition says of market and holdings;
  missing data may make it wrong in a known direction only.
- *Holdings.* The answer to a PUT shows the PUT or what came after it.

## 2. Modules

| Module | Models | Extends |
|---|---|---|
| `AlertStore` | the tables of the alert pipeline and their statements | |
| `AlertWorker` | the worker process, one step per external call | `AlertStore` |
| `AlertService` | composition with the API handlers and the devices; properties | `AlertWorker` |
| `AlertContract` | abstract: what the pipeline promises of a definition | |
| `AlertInvariant` | the inductive invariant; the refinement mapping | `AlertService` |
| `AlertService_proofs` | theorems about alerts, and that they keep the contract | `AlertInvariant` |
| `AlertAudit_proofs` | theorems about the firings table | `AlertService_proofs` |
| `MCAlertService` | instances for TLC | `AlertInvariant` |
| `AlertConditions` | conditions, evaluate, the portfolio summary | |
| `AlertMarket` | holdings endpoints, and a tick up to its verdicts | `AlertConditions` |
| `AlertMarket_proofs` | theorems about the answer to a PUT, the rows and the verdicts | `AlertMarket`, `FoldLemmas` |
| `MCAlertMarket` | an instance for TLC | `AlertMarket` |
| `FoldLemmas` | lemmas: induction over finite sets, what sums compute | |
| `PaperLedger` | `virtual.Compute` as a fold, and sums to compare it with | |
| `PaperStore` | the paper-trading tables and their statements | `PaperLedger` |
| `PaperTrading` | concurrent requests that write; properties | `PaperStore` |
| `PaperStore_proofs` | lemmas: sorted histories, the books the fold keeps | `PaperStore`, `FoldLemmas` |
| `PaperTrading_proofs` | theorems about every property of `PaperTrading` | `PaperTrading`, `PaperStore_proofs` |
| `MCPaperTrading` | instances for TLC | `PaperTrading` |
| `PaperViews` | list, detail and quote: what they load, and a quote's limits | `PaperTrading` |
| `PaperHistory` | pages of the trade history and a client's walk down them | `PaperTrading` |
| `PaperReads` | the composition of both with `PaperTrading` | `PaperViews`, `PaperHistory` |
| `PaperReads_proofs` | theorems about the walk, views and quotes | `PaperReads`, `PaperTrading_proofs` |
| `MCPaperReads` | an instance for TLC | `PaperReads` |
| `RateLimiter` | the token bucket | |
| `PricingCache` | the cache, the singleflight group, requests to CoinGecko | |
| `TradeGateway` | the composition of both, on one clock, with restarts | `RateLimiter`, `PricingCache` |
| `TradeGateway_proofs` | theorems about the cap on trades, prices and shared requests | `TradeGateway` |
| `MCTradeGateway` | an instance for TLC | `TradeGateway` |

### Alerts

State. `devices`, `alerts` and `firings` are the tables. An alert row keeps
what the worker decides on: recurrence, `isActive`, `firedAt` and the last
verdict. Its field `def` is a ghost: it numbers the PUT that wrote the row's
definition, because ids are chosen by clients and reused. `pc`, `todo`, `out`
and `job` are the locals of `Evaluator.Tick` and `Runner.deliverOne`: position,
rest of the snapshot, firings to deliver, delivery under way. `clock` is the
tick's `now`, which strictly grows from tick to tick. `valid` is the token APNs
honours for each device, `apns` the notifications it accepted, `lows` the
crossing verdicts that were false, `snapshotDef` the newest definition a
snapshot can hold; the last two are history variables for the properties.

Actions. Each call of the worker to Postgres, CoinGecko or APNs is a step. It
succeeds, fails without effect, or takes effect while its reply is lost; once
the tick's context is done every call fails before anything is sent. The persist
step is the body of the evaluation loop for one alert (verdict, recurrence
decision, `UpdateState`, append to the firings); an error ends the tick, as
`evaluator.go:150-152` does, without its firings. Handlers are single steps,
because each changes the store by one statement and what it reads before (the
device row of `requireDeviceID`) is enforced again by a foreign key.
`DeadlineExpires` stands for the tick's timeout and for SIGTERM.

Abstractions. Conditions, measured values, locales and APNs environments are
left out. A verdict is true, false or missing, any at any time, which covers
every market. A PUT body is one of `Bodies`. Time is counted in whole units;
a duration wraps at `DurationLimit` instead of 2^63 nanoseconds.

Refinement. `AlertContract` knows no tables, ticks or faults: firings are
decided as their recurrence allows (`Decide`), each is sent at most once
(`Send`) or given up (`SeeOrLose`), and time goes on (`Advance`).
`AlertInvariant` instantiates it: `now` is the tick's clock, `sent` what APNs
accepted, `lows` the history of lows, and `pending` every firing of `out` and
`job` that was not sent. The worker's steps map to steps of the contract, the
API's to stutters. The contract says that a firing may be lost, because the code
may lose it.

### Conditions and holdings

`AlertConditions` translates `evaluate`, `crossed` and `buildSummary`. Amounts,
prices and targets are whole numbers, and the percentage of profit is compared
by cross multiplication, so that the model rounds nothing. A JSON null price
decodes to 0; a null percentage is `Null`. The code takes any word for a
direction and any number for a target, so the model does: a direction that is
neither "above" nor "below" is `"other"` and crosses nothing. The instance for
TLC has the two directions only, to stay small; the theorems cover all three.

`AlertMarket` is where the verdicts come from that `AlertWorker` leaves open. A
tick lists the active alerts, loads the holdings of the devices with portfolio
conditions one after the other, and asks CoinGecko once for all coins; the
answer may leave any of them out. Between these steps clients PUT and DELETE
holdings (upsert and re-read are two steps, and a client may leave between
them), alerts come and go, and devices are revoked with the cascade. A row has a
ghost field `write` that numbers the upserts. What a tick does with its
verdicts is the matter of `AlertWorker`; the two are not composed, because
`AlertWorker` allows every verdict anyway.

### Paper trading

State. `portfolios` and `trades` are the tables, `registered` the device rows.
`req[r]` holds the locals of the request in slot `r`: `step` says which call
comes next. A portfolio is in `raced` once a trade was inserted whose check
had seen other trades than there were at the insert; it is a history variable.

Actions. `CountPortfolios` and `CreatePortfolio` are the two statements of
`register`. `ResolvePortfolio`, `LoadTrades`, `Price`, `Insert`,
`TouchPortfolio` and `Respond` are the calls of `executeTrade`; the check and
the reading of the clock belong to the step in which the price arrives.
`Abandon` ends a request anywhere: a failed or cancelled call, a lost reply
(`Insert` and then `Abandon`), or the API process going down (all requests
abandoned). Requests by a device that does not own the portfolio are answered
403 before any change and are left out.

Abstractions. Amounts, money and prices are whole numbers. A unit of an amount
or of money is so small that `Epsilon` of them are the 1e-9 that the check of a
trade forgives (`virtual_portfolios.go:498`, `:511`) and below which `Compute`
deletes a position with its cost (`compute.go:50-52`): so a sale of what is not
held, up to the tolerance, a residue that drops out of the books and a buy too
small to leave a position are all in the model. The average cost of what is sold
is rounded down to a unit; other roundings of float64 are below a unit and left
out, except that of a quote. Ids of trades come in the order of the inserts, and
the wall clock does not step back. The pricing service answers with any price of
`Prices`, zero included, or with an error (`Abandon`).

### Views and history

`PaperViews` adds the endpoints that show portfolios. A view reads its portfolio
rows, then the trades of one portfolio after the other, then prices; trades are
inserted between. `since` remembers the last trade there was when it began, a
history variable. `Quote` is a set of limits: the largest buy is a quotient of
float64s, which may come out one unit above the last whole one. What a view
makes of current prices (market values, the unrealized profit, percentages) is
left out: it is a sum with no state of its own, and the texts of the repository
contradict each other about positions without a price (section 3).
`PaperHistory` adds `ListPage`, with a page and its cursor as a relation, and a
client that walks down with one limit. `PaperReads` composes them with
`PaperTrading`. Reads change nothing that others see, so one at a time beside
the writers shows all that a read can show.

In Postgres an id is allocated before its row is visible, in the model in one
step. A row that becomes visible late, under an id above the cursor, is missed
by a walk that began before; it was not there when the walk began, and the
properties are about what was. `ViewIsCurrent` and `ResponseIsHistory`, which
number moments by ids, take inserts to become visible in the order of their ids.

### Pricing and rate limit

`RateLimiter` counts tokens in fractions of `1/Token`, so that refills are whole
numbers; `granted`, when a device's trades were let through and in which life of
the process, is a history variable. `PricingCache` cuts a call where it releases
the mutex and where it waits: `Look` (under the mutex), `Join` (joining or
leading the singleflight group), `Answered` or `FlightFails`. That these end the
wait of all callers (`Land`) is what golang.org/x/sync/singleflight does, an
external library, and no property is about it; `FetchMany` has a request of its
own, shared with nobody. A price is represented by the time CoinGecko took it,
some time while the request is under way. What the process does by itself takes
no time; time passes while requests are under way, for `FlightTime`, the HTTP
client's timeout, at most. `TradeGateway` composes the two (a trade takes a
token before it asks for a price) and restarts the process.

## 3. Runs

| Run | Question | Bounds |
|---|---|---|
| `alert_safety` | do the recurrences keep their promise, is the audit truthful, is `AlertContract` implemented, under faults? | 1 device, 2 alerts, 3 recurrences, 2 PUTs, 3 ticks, 1 fault, 1 token rotation |
| `alert_no_faults` | when no call fails by itself, is any firing lost, any row left pending, does every firing get its row although another's alert or device is gone? | 2 devices, 2 alerts, 2 PUTs, 2 ticks |
| `market_evaluation` | are verdicts what conditions mean, how wrong can missing data make them, what does a PUT answer? | 1 device, 2 coins, one condition of each type, 2 writes, 2 alerts at a time, a PUT beside another client's |
| `paper_trades` | is a portfolio solvent, do its books balance, how deep can an overdraft get, in what order is its history? | 1 portfolio of balance 8, tolerance 1, 2 requests at a time, buys of 1 and 3, a sale of 4, prices 0, 3 and 4, 3 trades |
| `portfolio_cap_race` | by how much can the cap be exceeded? | cap 2, 3 requests at a time, 5 creations |
| `paper_reads` | does a view show what was stored, does a quote hold, does a walk see every trade once? | 1 portfolio of balance 6, tolerance 1, 2 requests at a time, a buy of 2 and a sale of 1, price 2, 3 trades, limit 3 under a cap of 2 |
| `trade_gateway` | is the cap on trades exact, also over a restart, are prices fresh although requests are shared? | 1 device, 2 coins, 2 calls at a time, bucket of 1 token refilled by 3/4 per unit, 1 restart, TTL 2, flights of 1 unit, 3 units of time |

Two firings of one definition need two ticks and a fault between them; three
ticks add the low between two crossings, and two PUTs give two alerts in one
snapshot or one alert rewritten under the tick. One fault is enough for each
single failure (the proofs cover any number). Two requests are enough for a
stale ledger, and three trades for two buys on it and a sale of part of them.
With a tolerance of 1, a buy of 1 leaves no position, a buy of 3 at 3 takes one
unit more than the balance, and a sale of 4 one more than a position of 3. A
price of 0 is refused; a price that moves between 3 and 4 gives profits. In `market_evaluation` the targets lie on the
boundary of what two holdings can be worth; two writes give a rewritten holding
or two coins. In `paper_reads` three trades give a full page, a clamped limit
and a last page with a trade inserted between them, two requests can insert in
the order opposite to that of their clocks while a view loads, and a sale of 1
empties a position of 2, whose other unit is within the tolerance. One portfolio
is enough, as the lists of an answer are loaded one by one and no property
compares two. In `trade_gateway` two calls can share a request, or overtake each
other, and in three units an entry expires, and a token comes in with half of
another left over. Symmetry is declared for request slots, callers and coins,
where nothing tells them apart. Deadlock is checked in all runs: clients can
always act.

Runs that end in a violation, each of one documented promise:

| Run | Promise | What happens |
|---|---|---|
| `lost_firing` | a one-shot fires once, then deactivates itself | an error for a later alert of the tick, here a row deleted meanwhile, discards the firing of an alert already deactivated |
| `stale_write` | only a one-shot deactivates itself | the write for the old definition deactivates the new one |
| `stale_revoke` | a 410 revokes, a registration refreshes the token | the delete after the 410 takes the row with the new token |
| `overdraft` | a trade that is not covered is rejected | two trades are checked against the same ledger |
| `portfolio_cap` | the count is capped | two creations count before either inserts |

The passing properties delimit these: the notification promises hold in spite
of stale writes and lost firings (a firing may be lost, never duplicated), a
portfolio stays solvent unless it raced, an overdraft is at most the dearest
order for each request beside the first, and so is the excess over the cap.

Where the code does otherwise than its comments say and no run is spent on it: a
cooldown above 2^63 nanoseconds wraps (`decide.go:94`; `Duration` models it and
`CooldownSpacing` leaves such spans out); a last page that is full has a cursor
although "null when there are no further pages"; the answer to a trade shows a
`current_price` of 0 where its type says null; "concurrent fetches" of
`FetchMany` are not collapsed, only those of `FetchOne`; the list's total
without prices is the cash alone, not "cash + cost basis"
(`virtual_portfolios.go:150-152`); "id-order matches executed_at-order"
(`virtual_trade_repo.go:96`) fails when two requests read the clock in one order
and insert in the other; a buy of exactly a quote's limit may be refused, as the
quote rounds and has no tolerance; and in any one minute a device may get a full
bucket and a minute's refill, twice the rate.

Fairness. Safety needs none. `FiringsSettle` assumes `WF_vars(WorkerStep)`: the
worker is one goroutine whose calls return, at the latest when the tick's
context does, and the platform restarts the process. No fairness of clients or
of particular outcomes is assumed: a step that fails is a step. The property is
checked without faults of the network, where an insert still fails on its foreign
key; a tick that aborted there (the mutant) would leave the firings behind it
without rows for good, as their alerts are persisted as fired already.

## 4. Proofs

### Alerts

`AlertService_proofs` proves, for every value of the constants that satisfies
`StoreAssumption`, `WorkerAssumption` and `ServiceAssumption`, that `TypeOK`,
`OneShotAtMostOnce`, `CooldownSpacing` and `CrossingRearmed` are invariants of
`Spec`. None of the three promises is inductive: what APNs has accepted says
nothing about the next tick. `IInv` (module `AlertInvariant`, itself checked
by TLC in `alert_safety`) adds that

- `Snapshot`, `Definitions`: a snapshot entry is the row, or the row was
  rewritten after the snapshot under a higher number, and a number stands for
  one alert and one recurrence wherever a copy is;
- `OnePerAlert`, `Phases`, `Fired`: a tick fires an alert once, its firings
  are stamped with its time, and nothing of this tick was sent before it
  evaluated;
- `Memory`: rows and snapshot entries of a definition remember each firing
  of it that was or may still be sent (`firedAt` not earlier, and for a
  crossing the last verdict true unless a low came since). This is the heart:
  `UpdateState` precedes delivery, so that a crash loses a firing and never
  repeats it;
- `Spacing`: firings to be sent are as far from sent ones as the recurrence
  asks, which is what the recurrence decision establishes from `Memory`.

The proof has one lemma per action, grouped by what the action disturbs.

It also proves `Refinement`: every behaviour of `Spec` satisfies
`ContractHonoured`, the contract under the refinement mapping. Each action has a
lemma; the decision is `Persist`, where `Memory` and `Spacing` of `IInv` give
that the new firing may follow every one decided, and the sending is `Push`,
where `OnePerAlert` and `Phases` give that what is sent was not sent before.

`AlertAudit_proofs` proves four properties of the firings table.
`AuditIsTruthful` and `StatusSettlesOnce` rest on `Serial` (ids of firings are
fresh, and no notification bears an id not yet given) and `InHand` (until its
status is written the row in hand is pending; nothing was sent for it before the
push, and what the push brought is known after it). `PendingIsInHand` is proved
for `MaxFaults = 0`: then every call goes through (`Smooth`), and a row is
settled before the next is taken up. `NoFiringForgotten` is proved for
`MaxFaults = 0` and `Bodies` without firing times: a body may claim any
`firedAt`, the current tick's included, and such a claim has no firing. Its
invariant `Traced` says that a copy of a definition is of the device its row is
of and that every row's device exists, so that the foreign keys let an insert
through unless the alert was rewritten or deleted, and that only what a tick has
marked bears its time.

### Prices and the rate limit

`TradeGateway_proofs` proves `AllowanceIsExact` for every rate, burst and number
of devices. A bound on every span of time is not inductive: it says nothing of
the tokens left. The invariant (`Account`) says that a bucket holds exactly what
the least generous of the spans from a grant to its last refill still leaves to
the device, so that a grant exceeds no span and a refusal means that some span
is used up. A refill that is cut off at the capacity leaves a full bucket, from
which the next grant starts a span of its own. A restart forgets the bucket and
adds a full one to the allowance of each span over it.

It also proves `TypeOK`, `FreshEnough`, `RewindBounded` and `QuotaSpared` for
every lifetime, timeout, coin and call. A request is at most `FlightTime` old
while it is under way, a cached price at most that much older than its storing,
and a call that is about to join the group looked at the cache at this very
reading of the clock.

### Folds and lists

Ledgers and portfolio values are folds, and what a request loads is a list that
`ORDER BY` sorted: statements about them need induction over data. The induction
theorems of the library take the predicate as a parameter, which the installed
provers cannot instantiate; `FoldLemmas` proves induction for a *set* instead
(`FiniteInduction`: a set that has the empty set, and with a subset of `S` also
each larger by one member, has `S`), from the library's well-founded order on
finite subsets; a proof by induction then names the set of the subsets that have
the property. From it follow that the recursion by which the community modules
define a fold over a set has a solution (`RecursionExists`), what the solution
is for sums (`SumUnfolds`), and the rules that all other proofs cite: a term
added, removed or changed, sums compared, bounded and split. They are proved for
sums of integers and for no other fold over a set, so the models write each of
their totals as one of the community modules' sums.

`PaperStore_proofs` proves of every finite set of trades that it has one and
only one sorted list (`SortedExists`, `SortedUnique`; `InOrder`, a `CHOOSE`, is
it), and that a trade later than all others is appended to it
(`InOrderAppends`). With that `Compute` of the list goes on by one posting
(`ComputeAppends`), its cash is the balance and the sum over the rows
(`ComputeCash`), and its books (`Books`) are off from those sums by a bound for
each position deleted so far: a deletion drops at most `Epsilon` of the coin, at
a price no higher than the dearest, or forgives what was sold beyond the
position (`BooksPost` for a posting, `BooksOfAny` for a list).

### Paper trading

`PaperTrading_proofs` proves every property of `PaperTrading` that the passing
runs check, from `PaperAssumption`, `LedgerAssumption` (coins are finitely many)
and `SizeAssumption` (amounts, prices and their products have a largest one, as
they are float64s).

`CapBounded`: the portfolios of a device and the requests that found room for one
and have not inserted yet are together at most cap plus requests minus one
(`Reserved`), because a request that finds room sees fewer portfolios than the
cap, and an insert turns a pending request into a portfolio.

`TypeOK` follows from `Typed`. Beside it each step is shown to have one of six
effects (`Effect`: no trade goes on, or one request resolves its portfolio,
loads, decides, inserts or touches), and all later proofs are about these
effects and not about the actions. `TradingInv` adds

- `Agreed`: the balance a request trades on is the one of its portfolio;
- `Asked`, `Sized`: orders, and with them trades, have amounts and prices that
  clients asked for and CoinGecko quoted, so that there is a largest;
- `Timed`: nothing stored or loaded is from the future, and an order is decided
  no earlier than what was loaded for it, so that a trade inserted on a fresh
  ledger is the last by id and by time (`HistoryInOrder`);
- `Past`: what a request loaded is the portfolio's list at one moment, and stays
  so, because later trades have higher ids;
- `Prefixed`: what a request answers was the history when its trade went in;
- `Kept`: the books of the tables are kept up to the tolerance, and an order to
  insert is covered by what was loaded.

`Prefixed`, `HistoryInOrder` and the books of `Kept` are about portfolios that
are not in `raced`, which only grows. An insert into one of those finds the very
list its check was made on (`UnracedInsert`), and the check is what `BooksPost`
asks for. `SolventUnlessRaced` and `ResponseIsHistory` are read off.
`LedgerBalances` holds of raced portfolios too: their books follow from `Sized`
alone, with a whole order in the place of the tolerance.

`OverdraftBounded` holds of raced portfolios too and needs an account of its
own. Once it has loaded the ledger, a request claims what it may still take out
of the portfolio's cash (`Claim`): what it saw there, up to the dearest order,
and after its decision the cost of its own buy. `Claimed` says that cash less
all claims is never below zero by more than the dearest order for each request
beside the first, and `Epsilon`. Loading is the one step that adds a claim, and
it claims no more than the cash it sees, while the others claim at most a
dearest order each (`ClaimsBound`); deciding only lowers a claim, an insert pays
it, and a sale adds cash.

### Views, quotes and walks

`PaperReads_proofs` proves `ReadersOnlyRead` (every behaviour with readers is
one of `PaperTrading`), so that `TradingInv` holds beside readers. `Viewed` adds
of a view that the balances it loaded are those of the portfolios, whatever has
been deleted since, and that every list it loaded is the portfolio's at a moment
since the view was asked for: a step of the writers leaves it one, as it gives a
new trade an id above all that are there (`StoredNow`, `CurrentStays`). That is
`ViewIsCurrent`. `QuoteIsActionable` is then about one ledger, and rests on two
divisions and the sum of their remainders (`DivideLimit`, `BuyLimits`).

`WalkMissesNothing` and `WalkShowsOnce` are proved for every limit, cap and
number of trades. The invariant adds that no id is above `lastTrade` (`Serial`),
and that the cursor is at or below every id shown (`Remembers`): the next page
holds only ids below the cursor, and the page with the highest of them leaves
none of those behind that were there at the start.

### Conditions and holdings

`AlertMarket_proofs` proves `PutAnswersNoOlder`. Writes are numbered upwards
(`Numbered`), so that from its upsert to its re-read a PUT finds its own row, a
later one, or none (`Guarded`), also when the row or its device was deleted and
stored anew between the two. `MarketTypes` adds, from `MarketAssumption`, that no
alert or holding outlives the device it refers to.

`VerdictsMatchMarket` and `MissingDataErrsLow` rest on `TickInv`: whatever
changes in the tables meanwhile, a tick that decides has the holdings of every
device with a portfolio condition, finitely many and all positive (`Summable`),
and the answer is the market, cut down to the coins asked for, which are those
of all conditions and of all holdings loaded (`Gathered`). The value of a
portfolio then falls if prices go missing (`ValueFalls`) while its cost stays,
and is the market's if none does (`ValueSame`).

### What is not proved

Only `FiringsSettle` is model-checked alone: liveness is out of this prover's
reach. Every invariant and every safety property of a step that a passing run
checks is proved. Not proved, and not stated, is anything about market values
and percentages, which the models leave out.

## 5. Not modelled

Request parsing and authentication (`requireDeviceID` reads one row, which the
guards of the handlers stand for), the push payload (wording and number
formats), the HTTP of the CoinGecko client, start-up, configuration and
migrations keep no state that interacts; `PROJECT.json` gives the reason for
each. Of the paper-trading views market values, percentages and names are left
out. A row of
firings that stays pending after an expired deadline, and a trade stored
although its request answered 500, are listed as hazards that no property
excludes: the code lets them happen and promises nothing.

## 6. Plan

Done: the alert pipeline, its notification theorems and its contract; paper
trading with its two races, views and history; pricing, rate limit, conditions
and holdings; a theorem for every safety property the passing runs check.

1. An abstract contract of paper trading (accepted trades, balances, a cap that
   may be exceeded), which `PaperTrading` is shown to implement as `AlertService`
   is shown to implement `AlertContract`.
2. An instance of `AlertMarket` with two devices, for the coins of one device's
   holdings priced for another's (the theorems cover it already).
