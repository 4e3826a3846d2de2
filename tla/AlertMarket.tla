----------------------------- MODULE AlertMarket ----------------------------
(***************************************************************************)
(* Where the verdicts of AlertWorker come from: a tick of the evaluator    *)
(* lists the active alerts, loads the holdings of one device after the     *)
(* other, and asks CoinGecko once for all their coins, while clients       *)
(* change holdings and alerts.  What the tick does with a verdict is       *)
(* modelled in AlertWorker.                                                *)
(***************************************************************************)
EXTENDS AlertConditions

CONSTANTS Devices,
          Conditions,  \* the conditions clients use
          Quotes,      \* what CoinGecko may say of a coin
          Amounts, Costs,
          Callers,     \* holdings requests the server handles at a time
          Idle,
          MaxWrites,   \* bound: holdings ever stored
          MaxAlerts    \* bound: active alerts at a time

ASSUME MarketAssumption ==
  /\ Conditions \subseteq ConditionType /\ Quotes \subseteq Quote
  /\ Amounts \subseteq Nat \ {0} /\ Costs \subseteq Nat \ {0}
  /\ MaxWrites \in Nat /\ MaxAlerts \in Nat

\* A row of holdings; "write" is not a column, it numbers the upserts.
HoldingRow == [amount : Amounts, cost : Costs, write : 1 .. MaxWrites]
Put == [step : {"read", "respond"}, device : Devices, coin : Coins, own : 1 .. MaxWrites,
        seen : 0 .. MaxWrites]

VARIABLES devices,     \* the device rows there are
          alerts,      \* active alerts: <<device, condition>>
          holdings,    \* each device's rows, by coin
          lastWrite,
          puts,        \* the PUT each caller waits for
          tick         \* the tick's local variables, Idle between ticks

rows == <<devices, alerts, holdings, lastWrite>>
vars == <<rows, puts, tick>>

NoRows == [c \in {} |-> Null]

Init ==
  /\ devices = Devices /\ alerts = {} /\ holdings = [d \in Devices |-> NoRows]
  /\ lastWrite = 0 /\ puts = [r \in Callers |-> Idle] /\ tick = Idle

\* Faulty: ON CONFLICT DO NOTHING.
WithNewRow(held, c, row) ==
  [k \in DOMAIN held \cup {c} |-> IF k \in DOMAIN held THEN held[k] ELSE row]

\* The table with one device's row for a coin set, and with it removed.
WithRow(held, c, row) == [k \in DOMAIN held \cup {c} |-> IF k = c THEN row ELSE held[k]]
WithoutRow(held, c) == [k \in DOMAIN held \ {c} |-> held[k]]

-----------------------------------------------------------------------------
(* The holdings endpoints (internal/api/holdings.go) *)

\* The upsert fails on its foreign key without a device row.
Upsert(d, c, amount, cost) ==
  /\ d \in devices /\ lastWrite < MaxWrites
  /\ lastWrite' = lastWrite + 1
  /\ holdings' = [holdings EXCEPT ![d] =
                    WithRow(@, c, [amount |-> amount, cost |-> cost, write |-> lastWrite'])]
  /\ UNCHANGED <<devices, alerts, tick>>

\* PUT, up to its upsert.
PutHolding(r, d, c, amount, cost) ==
  /\ puts[r] = Idle
  /\ Upsert(d, c, amount, cost)
  /\ puts' = [puts EXCEPT ![r] = [step |-> "read", device |-> d, coin |-> c,
                                  own |-> lastWrite', seen |-> 0]]

\* The client leaves a PUT once the row is written.
LeavePut(d, c, amount, cost) == Upsert(d, c, amount, cost) /\ UNCHANGED puts

\* "Re-read so the response reflects the stored row": a row that is gone is a
\* 500 although the upsert went through.
ReadHolding(r) ==
  /\ puts[r] # Idle /\ puts[r].step = "read"
  /\ LET p == puts[r] IN
     puts' = [puts EXCEPT ![r] =
                IF p.coin \in DOMAIN holdings[p.device]
                  THEN [p EXCEPT !.step = "respond", !.seen = holdings[p.device][p.coin].write]
                  ELSE Idle]
  /\ UNCHANGED <<rows, tick>>

\* Answered.
EndPut(r) ==
  /\ puts[r] # Idle /\ puts[r].step = "respond"
  /\ puts' = [puts EXCEPT ![r] = Idle]
  /\ UNCHANGED <<rows, tick>>

DeleteHolding(d, c) ==
  /\ holdings' = [holdings EXCEPT ![d] = WithoutRow(@, c)]
  /\ UNCHANGED <<devices, alerts, lastWrite, puts, tick>>

-----------------------------------------------------------------------------
(* The endpoints for alerts and devices, as far as a verdict sees them *)

PutAlert(d, c) ==
  /\ d \in devices /\ Cardinality(alerts) < MaxAlerts
  /\ alerts' = alerts \cup {<<d, c>>}
  /\ UNCHANGED <<devices, holdings, lastWrite, puts, tick>>

\* Deleted by its client, or retired by the worker.
RemoveAlert(alert) ==
  /\ alerts' = alerts \ {alert}
  /\ UNCHANGED <<devices, holdings, lastWrite, puts, tick>>

RegisterDevice(d) ==
  /\ devices' = devices \cup {d}
  /\ UNCHANGED <<alerts, holdings, lastWrite, puts, tick>>

\* Faulty: the holdings stay when their device goes.
RevokeDeviceAlone(d) ==
  /\ devices' = devices \ {d}
  /\ alerts' = {alert \in alerts : alert[1] # d}
  /\ UNCHANGED <<holdings, lastWrite, puts, tick>>

\* The worker deletes the row; ON DELETE CASCADE takes alerts and holdings.
RevokeDevice(d) ==
  /\ devices' = devices \ {d}
  /\ alerts' = {alert \in alerts : alert[1] # d}
  /\ holdings' = [holdings EXCEPT ![d] = NoRows]
  /\ UNCHANGED <<lastWrite, puts, tick>>

-----------------------------------------------------------------------------
(* The tick (Evaluator.Tick up to the verdicts) *)

\* needsPortfolio: the devices of the portfolio conditions.
PortfolioDevices(active) == {alert[1] : alert \in {a \in active : NeedsPortfolio(a[2])}}

StartTick ==
  /\ tick = Idle /\ alerts # {}
  /\ tick' = [step |-> "gather", active |-> alerts,
              held |-> [d \in {} |-> NoRows], market |-> NoRows, answer |-> NoRows]
  /\ UNCHANGED <<rows, puts>>

ToLoad == PortfolioDevices(tick.active) \ DOMAIN tick.held

\* ListByDevice, in the order Go ranges over a map: any.
LoadHoldings(d) ==
  /\ tick # Idle /\ tick.step = "gather" /\ d \in ToLoad
  /\ tick' = [tick EXCEPT !.held = [k \in DOMAIN @ \cup {d} |-> IF k = d THEN holdings[d] ELSE @[k]]]
  /\ UNCHANGED <<rows, puts>>

\* Faulty: the coins of the holdings are not asked for.
AskedByCondition(t) == UNION {RequiredCoinIDs(alert[2]) : alert \in t.active}

\* The ids of the one request for all alerts.
Asked(t) ==
  (UNION {RequiredCoinIDs(alert[2]) : alert \in t.active})
    \cup (UNION {DOMAIN t.held[d] : d \in DOMAIN t.held})

\* FetchMarkets: CoinGecko answers with those of the coins it lists; without
\* a coin to ask for there is no request.
FetchMarkets(market) ==
  /\ tick # Idle /\ tick.step = "gather" /\ ToLoad = {}
  /\ tick' = [tick EXCEPT !.step = "decide", !.market = market,
                          !.answer = [c \in DOMAIN market \cap Asked(tick) |-> market[c]]]
  /\ UNCHANGED <<rows, puts>>

\* Every alert has its verdict, or a query or the request failed before.
EndTick ==
  /\ tick # Idle
  /\ tick' = Idle
  /\ UNCHANGED <<rows, puts>>

Markets == UNION {[listed -> Quotes] : listed \in SUBSET Coins}

HoldingsStep(d, c) ==
  \/ \E amount \in Amounts, cost \in Costs :
       LeavePut(d, c, amount, cost) \/ \E r \in Callers : PutHolding(r, d, c, amount, cost)
  \/ DeleteHolding(d, c)

TableStep(d) ==
  \/ \E c \in Coins : HoldingsStep(d, c)
  \/ \E c \in Conditions : PutAlert(d, c)
  \/ RegisterDevice(d) \/ RevokeDevice(d)

TickStep ==
  \/ StartTick \/ EndTick
  \/ \E d \in Devices : LoadHoldings(d)
  \/ \E market \in Markets : FetchMarkets(market)

Next ==
  \/ \E r \in Callers : ReadHolding(r) \/ EndPut(r)
  \/ \E d \in Devices : TableStep(d)
  \/ \E alert \in alerts : RemoveAlert(alert)
  \/ TickStep

Spec == Init /\ [][Next]_vars

-----------------------------------------------------------------------------
(* Properties *)

HoldingsOf(t, d) == IF d \in DOMAIN t.held THEN t.held[d] ELSE NoRows

Verdict(t, alert) == Evaluate(alert[2], t.answer, HoldingsOf(t, alert[1]))

\* Rows have their types, and no row outlives the device it refers to,
\* whoever deletes a device between two steps of a request.
TypeOK ==
  /\ devices \subseteq Devices
  /\ alerts \subseteq devices \X Conditions
  /\ \A d \in Devices : \A c \in DOMAIN holdings[d] : holdings[d][c] \in HoldingRow
  /\ \A d \in Devices \ devices : DOMAIN holdings[d] = {}
  /\ \A r \in Callers : puts[r] \in Put \cup {Idle}

\* What a condition means, of prices and changes that are all there: said
\* without the evaluator's sums, its fallbacks and its division.
Gain(held, quotes) ==
  SumFunction([c \in DOMAIN held |-> held[c].amount * (quotes[c].price - held[c].cost)])
Reaches(x, y, direction) == (direction = "above" /\ x >= y) \/ (direction = "below" /\ y >= x)
Means(c, held, quotes) ==
  CASE c.type = "price" -> Reaches(quotes[c.coin].price, c.target, c.direction)
    [] c.type = "percent" -> Reaches(quotes[c.coin].change[c.window], c.target, c.direction)
    [] c.type = "value" -> Reaches(Gain(held, quotes) + TotalCost(held), c.target, c.direction)
    [] c.type = "pnl" -> Reaches(100 * Gain(held, quotes), c.target * TotalCost(held), c.direction)

\* The coins that decide an alert, and what is known of them.
Decisive(t, alert) ==
  IF NeedsPortfolio(alert[2]) THEN DOMAIN HoldingsOf(t, alert[1]) ELSE {alert[2].coin}
Tells(quote, c) == IF c.type = "percent" THEN quote.change[c.window] # Null ELSE quote.price > 0
Known(t, alert, quotes) ==
  {c \in Decisive(t, alert) \cap DOMAIN quotes : Tells(quotes[c], alert[2])}

Deciding == tick # Idle /\ tick.step = "decide"

\* One request for the coins of all alerts is enough for each of them: an alert
\* all of whose coins CoinGecko has data for gets the verdict its condition
\* means, with the holdings the tick loaded.
VerdictsMatchMarket ==
  Deciding =>
    \A alert \in tick.active :
      Decisive(tick, alert) # {} /\ Known(tick, alert, tick.market) = Decisive(tick, alert) =>
        Verdict(tick, alert) =
          IF Means(alert[2], HoldingsOf(tick, alert[1]), tick.market) THEN "true" ELSE "false"

\* What the prices CoinGecko leaves out, or has as null, could be.
Completions(t, alert) ==
  {full \in [Decisive(t, alert) -> {q \in Quotes : Tells(q, alert[2])}] :
     \A c \in Known(t, alert, t.answer) : full[c] = t.answer[c]}

\* A missing price counts as 0, so a verdict can be wrong, but only by being
\* low: "above" is true, and "below" false, only if it is so whatever the
\* missing prices are.  Without its percentage an alert has no verdict.
MissingDataErrsLow ==
  Deciding =>
    \A alert \in tick.active :
      LET verdict == Verdict(tick, alert)
          means(full) == Means(alert[2], HoldingsOf(tick, alert[1]), full)
      IN  IF alert[2].type = "percent"
            THEN verdict # "missing" => Known(tick, alert, tick.answer) # {}
            ELSE \A full \in Completions(tick, alert) :
                   /\ verdict = "true" /\ alert[2].direction = "above" => means(full)
                   /\ verdict = "false" /\ alert[2].direction = "below" => ~means(full)

\* "The response reflects the stored row": the answer to a PUT shows its own
\* write or a later one, never what was there before, also when other PUTs,
\* deletions and a new registration fall between the upsert and the re-read.
PutAnswersNoOlder ==
  \A r \in Callers :
    puts[r] # Idle /\ puts[r].step = "respond" => puts[r].seen >= puts[r].own
=============================================================================
