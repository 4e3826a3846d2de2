------------------------- MODULE AlertMarket_proofs -------------------------
(***************************************************************************)
(* Holdings and verdicts, for any number of devices, coins and conditions. *)
(* The answer to a PUT of a holding is never older than the PUT, and no    *)
(* row outlives its device.  A tick decides each alert on what the market  *)
(* says of its coins and the holdings it loaded; where the market says     *)
(* nothing of a coin, the verdict errs on one side only.                   *)
(***************************************************************************)
EXTENDS AlertMarket, FoldLemmas

\* Upserts are numbered in the order they take effect.
Numbered ==
  /\ lastWrite \in Nat
  /\ holdings = [d \in Devices |-> holdings[d]]
  /\ \A d \in Devices : \A c \in DOMAIN holdings[d] :
       holdings[d][c].write \in Nat /\ holdings[d][c].write <= lastWrite

\* Until its re-read a PUT finds its own row, a later one, or none.
Guarded(p, held, last) ==
  /\ p.device \in Devices
  /\ p.own \in Nat /\ p.own <= last
  /\ p.coin \in DOMAIN held[p.device] => held[p.device][p.coin].write >= p.own
  /\ p.step = "respond" => p.seen >= p.own

PutInv ==
  /\ Numbered
  /\ puts = [r \in Callers |-> puts[r]]
  /\ \A r \in Callers : puts[r] # Idle => Guarded(puts[r], holdings, lastWrite)

-----------------------------------------------------------------------------

LEMMA PutInit == Init => PutInv
  BY DEF Init, PutInv, Numbered, NoRows

\* An upsert's row is newer than all there were.
LEMMA UpsertKeeps ==
  ASSUME PutInv, NEW d \in Devices, NEW c, NEW amount, NEW cost, Upsert(d, c, amount, cost)
  PROVE  /\ Numbered' /\ lastWrite' = lastWrite + 1
         /\ c \in DOMAIN holdings'[d] /\ holdings'[d][c].write = lastWrite'
         /\ \A r \in Callers : puts[r] # Idle => Guarded(puts[r], holdings', lastWrite')
<1> DEFINE row == [amount |-> amount, cost |-> cost, write |-> lastWrite']
<1>1. /\ lastWrite \in Nat /\ lastWrite' = lastWrite + 1
      /\ holdings' = [holdings EXCEPT ![d] = WithRow(@, c, row)]
  BY DEF Upsert, PutInv, Numbered
<1>2. row.write = lastWrite'
  OBVIOUS
<1> HIDE DEF row
<1>3. /\ holdings' = [e \in Devices |-> holdings'[e]]
      /\ \A e \in Devices \ {d} : holdings'[e] = holdings[e]
      /\ DOMAIN holdings'[d] = DOMAIN holdings[d] \cup {c}
      /\ \A k \in DOMAIN holdings'[d] :
           holdings'[d][k] = IF k = c THEN row ELSE holdings[d][k]
  BY <1>1 DEF PutInv, Numbered, WithRow
<1>4. Numbered'
  BY <1>1, <1>2, <1>3 DEF PutInv, Numbered
<1>5. ASSUME NEW r \in Callers, puts[r] # Idle
      PROVE  Guarded(puts[r], holdings', lastWrite')
  <2>1. Guarded(puts[r], holdings, lastWrite)
    BY <1>5 DEF PutInv
  <2> QED
    BY <1>1, <1>2, <1>3, <2>1 DEF Guarded
<1> QED
  BY <1>1, <1>2, <1>3, <1>4, <1>5

LEMMA PutHoldingKeeps ==
  ASSUME PutInv, NEW r \in Callers, NEW d \in Devices, NEW c, NEW amount, NEW cost,
         PutHolding(r, d, c, amount, cost)
  PROVE  PutInv'
<1> DEFINE new == [step |-> "read", device |-> d, coin |-> c, own |-> lastWrite', seen |-> 0]
<1>1. /\ Upsert(d, c, amount, cost)
      /\ puts' = [puts EXCEPT ![r] = new]
  BY DEF PutHolding
<1>2. /\ puts' = [s \in Callers |-> puts'[s]] /\ puts'[r] = new
      /\ \A s \in Callers \ {r} : puts'[s] = puts[s]
  BY <1>1 DEF PutInv
<1>3. /\ Numbered' /\ c \in DOMAIN holdings'[d] /\ holdings'[d][c].write = lastWrite'
      /\ \A s \in Callers : puts[s] # Idle => Guarded(puts[s], holdings', lastWrite')
  BY <1>1, UpsertKeeps
<1>4. Guarded(new, holdings', lastWrite')
  BY <1>3 DEF Guarded, Numbered
<1> QED
  BY <1>2, <1>3, <1>4 DEF PutInv

LEMMA LeavePutKeeps ==
  ASSUME PutInv, NEW d \in Devices, NEW c, NEW amount, NEW cost,
         LeavePut(d, c, amount, cost)
  PROVE  PutInv'
<1>1. Upsert(d, c, amount, cost) /\ puts' = puts
  BY DEF LeavePut
<1>2. Numbered' /\ \A s \in Callers : puts[s] # Idle => Guarded(puts[s], holdings', lastWrite')
  BY <1>1, UpsertKeeps
<1> QED
  BY <1>1, <1>2 DEF PutInv

\* Rows that go leave nothing to be told.
LEMMA RowsGo ==
  ASSUME PutInv, NEW d \in Devices, NEW S, UNCHANGED <<lastWrite, puts>>,
         holdings' = [holdings EXCEPT ![d] = [k \in DOMAIN holdings[d] \ S |-> holdings[d][k]]]
  PROVE  PutInv'
<1>1. /\ holdings' = [e \in Devices |-> holdings'[e]]
      /\ \A e \in Devices : /\ DOMAIN holdings'[e] \subseteq DOMAIN holdings[e]
                            /\ \A k \in DOMAIN holdings'[e] : holdings'[e][k] = holdings[e][k]
  BY DEF PutInv, Numbered
<1>2. Numbered'
  BY <1>1 DEF PutInv, Numbered
<1>3. \A r \in Callers : puts[r] # Idle => Guarded(puts[r], holdings', lastWrite')
  BY <1>1 DEF PutInv, Guarded
<1> QED
  BY <1>2, <1>3 DEF PutInv

LEMMA ReadHoldingKeeps ==
  ASSUME PutInv, NEW r \in Callers, ReadHolding(r)
  PROVE  PutInv'
<1> DEFINE p == puts[r]
           seen == holdings[p.device][p.coin].write
           new == IF p.coin \in DOMAIN holdings[p.device]
                    THEN [p EXCEPT !.step = "respond", !.seen = seen] ELSE Idle
<1>1. Guarded(p, holdings, lastWrite) /\ puts' = [puts EXCEPT ![r] = new]
  BY DEF ReadHolding, PutInv
<1>2. UNCHANGED <<holdings, lastWrite>>
  BY DEF ReadHolding, rows
<1>3. /\ puts' = [s \in Callers |-> puts'[s]] /\ puts'[r] = new
      /\ \A s \in Callers \ {r} : puts'[s] = puts[s]
  BY <1>1 DEF PutInv
<1>4. ASSUME new # Idle PROVE Guarded(new, holdings, lastWrite)
  <2>1. /\ p.coin \in DOMAIN holdings[p.device] /\ seen >= p.own
        /\ new = [p EXCEPT !.step = "respond", !.seen = seen]
    BY <1>1, <1>4 DEF Guarded
  <2> HIDE DEF seen, p
  <2>2. /\ new.device = p.device /\ new.own = p.own /\ new.coin = p.coin
        /\ new.seen = seen \/ new.seen = p.seen
    BY <2>1
  <2> QED
    BY <1>1, <2>1, <2>2 DEF Guarded
<1> QED
  BY <1>2, <1>3, <1>4 DEF PutInv, Numbered

LEMMA EndPutKeeps ==
  ASSUME PutInv, NEW r \in Callers, EndPut(r)
  PROVE  PutInv'
  BY DEF EndPut, rows, PutInv, Numbered

\* Steps that leave holdings and requests alone.
LEMMA OthersKeep ==
  ASSUME PutInv, UNCHANGED <<holdings, lastWrite, puts>>
  PROVE  PutInv'
  BY DEF PutInv, Numbered

LEMMA PutStep == PutInv /\ [Next]_vars => PutInv'
<1> SUFFICES ASSUME PutInv, [Next]_vars PROVE PutInv'
  OBVIOUS
<1>1. ASSUME NEW r \in Callers, ReadHolding(r) \/ EndPut(r) PROVE PutInv'
  BY <1>1, ReadHoldingKeeps, EndPutKeeps
<1>2. ASSUME NEW d \in Devices, NEW c \in Coins, HoldingsStep(d, c) PROVE PutInv'
  <2>1. ASSUME NEW amount \in Amounts, NEW cost \in Costs,
               LeavePut(d, c, amount, cost)
                 \/ \E r \in Callers : PutHolding(r, d, c, amount, cost)
        PROVE  PutInv'
    BY <2>1, LeavePutKeeps, PutHoldingKeeps
  <2>2. ASSUME DeleteHolding(d, c) PROVE PutInv'
    <3>1. /\ UNCHANGED <<lastWrite, puts>>
          /\ holdings' = [holdings EXCEPT ![d] =
                            [k \in DOMAIN holdings[d] \ {c} |-> holdings[d][k]]]
      BY <2>2 DEF DeleteHolding, WithoutRow
    <3> QED
      BY <3>1, RowsGo
  <2> QED
    BY <1>2, <2>1, <2>2 DEF HoldingsStep
<1>3. ASSUME NEW d \in Devices, RevokeDevice(d) PROVE PutInv'
  <2>1. /\ UNCHANGED <<lastWrite, puts>>
        /\ holdings' = [holdings EXCEPT ![d] = NoRows]
    BY <1>3 DEF RevokeDevice
  <2>2. NoRows = [k \in DOMAIN holdings[d] \ DOMAIN holdings[d] |-> holdings[d][k]]
    BY DEF NoRows
  <2> QED
    BY <2>1, <2>2, RowsGo
<1>4. ASSUME NEW d \in Devices, RegisterDevice(d) \/ \E c \in Conditions : PutAlert(d, c)
      PROVE  PutInv'
  BY <1>4, OthersKeep DEF RegisterDevice, PutAlert
<1>5. ASSUME NEW alert \in alerts, RemoveAlert(alert) PROVE PutInv'
  BY <1>5, OthersKeep DEF RemoveAlert
<1>6. ASSUME TickStep PROVE PutInv'
  BY <1>6, OthersKeep DEF TickStep, StartTick, LoadHoldings, FetchMarkets, EndTick, rows
<1>7. CASE UNCHANGED vars
  BY <1>7, OthersKeep DEF vars, rows
<1> QED
  BY <1>1, <1>2, <1>3, <1>4, <1>5, <1>6, <1>7 DEF Next, TableStep

\* The upsert and the re-read of a PUT are two statements, between which other
\* requests write, delete and revoke; the response still shows the PUT's own
\* row or one stored after it.
THEOREM PutTheorem == Spec => []PutAnswersNoOlder
<1>1. Init => PutInv
  BY PutInit
<1>2. PutInv /\ [Next]_vars => PutInv'
  BY PutStep
<1>3. PutInv => PutAnswersNoOlder
  BY DEF PutInv, PutAnswersNoOlder, Guarded
<1> QED
  BY <1>1, <1>2, <1>3, PTL DEF Spec

-----------------------------------------------------------------------------
(* Types, and no row without its device *)

LEMMA TypeInit == Init => TypeOK
  BY DEF Init, TypeOK, NoRows

\* What types say of one device's rows.
TypedRows(held) == \A c \in DOMAIN held : held[c] \in HoldingRow

LEMMA UpsertTypes ==
  ASSUME PutInv, TypeOK, NEW d \in Devices, NEW c \in Coins, NEW amount \in Amounts,
         NEW cost \in Costs, Upsert(d, c, amount, cost)
  PROVE  /\ lastWrite' \in 1 .. MaxWrites
         /\ \A e \in Devices : TypedRows(holdings'[e])
         /\ \A e \in Devices \ devices' : DOMAIN holdings'[e] = {}
<1> DEFINE row == [amount |-> amount, cost |-> cost, write |-> lastWrite']
<1>1. /\ lastWrite \in Nat /\ lastWrite < MaxWrites /\ lastWrite' = lastWrite + 1
      /\ holdings' = [holdings EXCEPT ![d] = WithRow(@, c, row)]
      /\ holdings = [e \in Devices |-> holdings[e]] /\ d \in devices /\ devices' = devices
  BY DEF Upsert, PutInv, Numbered
<1>2. lastWrite' \in 1 .. MaxWrites
  BY <1>1, MarketAssumption
<1>3. row \in HoldingRow
  BY <1>2 DEF HoldingRow
<1> HIDE DEF row
<1>4. /\ \A e \in Devices \ {d} : holdings'[e] = holdings[e]
      /\ holdings'[d] = WithRow(holdings[d], c, row)
  BY <1>1
<1>5. TypedRows(holdings'[d])
  BY <1>3, <1>4 DEF TypedRows, WithRow, TypeOK
<1> QED
  BY <1>1, <1>2, <1>4, <1>5 DEF TypedRows, TypeOK

LEMMA HoldingsTypes ==
  ASSUME PutInv, TypeOK, NEW d \in Devices, NEW c \in Coins, HoldingsStep(d, c)
  PROVE  TypeOK'
<1>1. UNCHANGED <<devices, alerts>>
  BY DEF HoldingsStep, LeavePut, PutHolding, Upsert, DeleteHolding
<1>2. CASE DeleteHolding(d, c)
  <2>1. /\ holdings' = [holdings EXCEPT ![d] = WithoutRow(@, c)] /\ puts' = puts
        /\ holdings = [e \in Devices |-> holdings[e]]
    BY <1>2 DEF DeleteHolding, PutInv, Numbered
  <2>2. \A e \in Devices : /\ DOMAIN holdings'[e] \subseteq DOMAIN holdings[e]
                           /\ \A k \in DOMAIN holdings'[e] : holdings'[e][k] = holdings[e][k]
    BY <2>1 DEF WithoutRow
  <2> QED
    BY <1>1, <2>1, <2>2 DEF TypeOK
<1>3. ASSUME NEW amount \in Amounts, NEW cost \in Costs, LeavePut(d, c, amount, cost)
      PROVE  TypeOK'
  <2>1. Upsert(d, c, amount, cost) /\ puts' = puts
    BY <1>3 DEF LeavePut
  <2> QED
    BY <1>1, <2>1, UpsertTypes DEF TypeOK, TypedRows
<1>4. ASSUME NEW amount \in Amounts, NEW cost \in Costs, NEW r \in Callers,
             PutHolding(r, d, c, amount, cost)
      PROVE  TypeOK'
  <2> DEFINE new == [step |-> "read", device |-> d, coin |-> c, own |-> lastWrite', seen |-> 0]
  <2>1. Upsert(d, c, amount, cost) /\ puts' = [puts EXCEPT ![r] = new]
    BY <1>4 DEF PutHolding
  <2>2. new \in Put
    BY <2>1, UpsertTypes, MarketAssumption DEF Put
  <2> HIDE DEF new
  <2>3. \A s \in Callers : puts'[s] \in Put \cup {Idle}
    BY <2>1, <2>2 DEF TypeOK, PutInv
  <2> QED
    BY <1>1, <2>1, <2>3, UpsertTypes DEF TypeOK, TypedRows
<1> QED
  BY <1>2, <1>3, <1>4 DEF HoldingsStep

LEMMA ReadTypes ==
  ASSUME PutInv, TypeOK, NEW r \in Callers, ReadHolding(r) \/ EndPut(r)
  PROVE  TypeOK'
<1>1. UNCHANGED <<devices, alerts, holdings>>
  BY DEF ReadHolding, EndPut, rows
<1>2. CASE EndPut(r)
  BY <1>1, <1>2 DEF EndPut, TypeOK, PutInv
<1>3. CASE ReadHolding(r)
  <2> DEFINE p == puts[r]
             seen == holdings[p.device][p.coin].write
             new == IF p.coin \in DOMAIN holdings[p.device]
                      THEN [p EXCEPT !.step = "respond", !.seen = seen] ELSE Idle
  <2>1. p \in Put /\ puts' = [puts EXCEPT ![r] = new]
    BY <1>3 DEF ReadHolding, TypeOK
  <2>2. p.device \in Devices
    BY <2>1 DEF Put
  <2>3. p.coin \in DOMAIN holdings[p.device] => seen \in 0 .. MaxWrites
    BY <2>2, MarketAssumption DEF TypeOK, HoldingRow
  <2>4. new \in Put \cup {Idle}
    <3> HIDE DEF p, seen
    <3> QED
      BY <2>1, <2>3 DEF Put
  <2> HIDE DEF new
  <2>5. \A s \in Callers : puts'[s] \in Put \cup {Idle}
    BY <2>1, <2>4 DEF TypeOK, PutInv
  <2> QED
    BY <1>1, <2>5 DEF TypeOK
<1> QED
  BY <1>2, <1>3

LEMMA TypeStep == PutInv /\ TypeOK /\ [Next]_vars => TypeOK'
<1> SUFFICES ASSUME PutInv, TypeOK, [Next]_vars PROVE TypeOK'
  OBVIOUS
<1>1. ASSUME NEW r \in Callers, ReadHolding(r) \/ EndPut(r) PROVE TypeOK'
  BY <1>1, ReadTypes
<1>2. ASSUME NEW d \in Devices, NEW c \in Coins, HoldingsStep(d, c) PROVE TypeOK'
  BY <1>2, HoldingsTypes
<1>3. ASSUME NEW d \in Devices, RevokeDevice(d) PROVE TypeOK'
  <2>1. /\ devices' = devices \ {d} /\ puts' = puts
        /\ alerts' = {alert \in alerts : alert[1] # d}
        /\ holdings' = [holdings EXCEPT ![d] = NoRows]
        /\ holdings = [e \in Devices |-> holdings[e]]
    BY <1>3 DEF RevokeDevice, PutInv, Numbered
  <2>2. DOMAIN NoRows = {}
    BY DEF NoRows
  <2>3. \A e \in Devices : holdings'[e] = IF e = d THEN NoRows ELSE holdings[e]
    BY <2>1
  <2>4. alerts' \subseteq devices' \X Conditions
    BY <2>1 DEF TypeOK
  <2> QED
    BY <2>1, <2>2, <2>3, <2>4 DEF TypeOK
<1>4. ASSUME NEW d \in Devices, RegisterDevice(d) \/ \E c \in Conditions : PutAlert(d, c)
      PROVE  TypeOK'
  BY <1>4 DEF RegisterDevice, PutAlert, TypeOK
<1>5. ASSUME NEW alert \in alerts, RemoveAlert(alert) PROVE TypeOK'
  BY <1>5 DEF RemoveAlert, TypeOK
<1>6. ASSUME TickStep PROVE TypeOK'
  BY <1>6 DEF TickStep, StartTick, LoadHoldings, FetchMarkets, EndTick, rows, TypeOK
<1>7. CASE UNCHANGED vars
  BY <1>7 DEF vars, rows, TypeOK
<1> QED
  BY <1>1, <1>2, <1>3, <1>4, <1>5, <1>6, <1>7 DEF Next, TableStep

\* Rows keep their types, and no alert or holding outlives its device, whatever
\* is deleted between two steps of a PUT.
THEOREM MarketTypes == Spec => []TypeOK
<1>1. Init => PutInv /\ TypeOK
  BY PutInit, TypeInit
<1>2. PutInv /\ TypeOK /\ [Next]_vars => (PutInv /\ TypeOK)'
  BY PutStep, TypeStep
<1> QED
  BY <1>1, <1>2, PTL DEF Spec

-----------------------------------------------------------------------------
(* What a tick has gathered *)

\* Rows of holdings that can be summed.
Summable(held) ==
  /\ IsFiniteSet(DOMAIN held)
  /\ \A c \in DOMAIN held : held[c].amount \in Nat \ {0} /\ held[c].cost \in Nat \ {0}

\* A tick decides on the holdings of each device it has a portfolio condition
\* of, and on the answer to one request for the coins of all of them.
Gathered(t) ==
  /\ DOMAIN t = {"step", "active", "held", "market", "answer"}
  /\ t.active \subseteq Devices \X Conditions
  /\ \A d \in DOMAIN t.held : Summable(t.held[d])
  /\ t.step = "decide" =>
       /\ PortfolioDevices(t.active) \subseteq DOMAIN t.held
       /\ t.market \in Markets
       /\ t.answer = [c \in DOMAIN t.market \cap Asked(t) |-> t.market[c]]

TickInv ==
  /\ \A d \in Devices : IsFiniteSet(DOMAIN holdings[d])
  /\ tick # Idle => Gathered(tick)

LEMMA SummableRows ==
  ASSUME TypeOK, TickInv, NEW d \in Devices
  PROVE  Summable(holdings[d])
<1>1. \A c \in DOMAIN holdings[d] : holdings[d][c] \in HoldingRow
  BY DEF TypeOK
<1> QED
  BY <1>1, MarketAssumption DEF TickInv, Summable, HoldingRow

LEMMA TickInit == Init => TickInv
  BY FS_EmptySet DEF Init, TickInv, NoRows

\* Clients add a row at a time.
LEMMA RowsFinite ==
  ASSUME PutInv, TickInv, [Next]_vars
  PROVE  \A d \in Devices : IsFiniteSet(DOMAIN holdings'[d])
<1>1. holdings = [d \in Devices |-> holdings[d]] /\ \A d \in Devices : IsFiniteSet(DOMAIN holdings[d])
  BY DEF PutInv, Numbered, TickInv
<1>2. ASSUME NEW d \in Devices, NEW c, NEW row, holdings' = [holdings EXCEPT ![d] = WithRow(@, c, row)],
             NEW e \in Devices
      PROVE  IsFiniteSet(DOMAIN holdings'[e])
  <2>1. DOMAIN holdings'[e] = IF e = d THEN DOMAIN holdings[d] \cup {c} ELSE DOMAIN holdings[e]
    BY <1>1, <1>2 DEF WithRow
  <2> QED
    BY <1>1, <2>1, FS_AddElement
<1>3. ASSUME NEW d \in Devices, NEW held, holdings' = [holdings EXCEPT ![d] = held],
             DOMAIN held \subseteq DOMAIN holdings[d], NEW e \in Devices
      PROVE  IsFiniteSet(DOMAIN holdings'[e])
  <2>1. DOMAIN holdings'[e] \subseteq DOMAIN holdings[e]
    BY <1>1, <1>3
  <2> QED
    BY <1>1, <2>1, FS_Subset
<1>4. ASSUME NEW d \in Devices, NEW c, NEW amount, NEW cost, Upsert(d, c, amount, cost)
      PROVE  \A e \in Devices : IsFiniteSet(DOMAIN holdings'[e])
  BY <1>2, <1>4 DEF Upsert
<1>5. ASSUME NEW d \in Devices, NEW c, DeleteHolding(d, c) \/ RevokeDevice(d)
      PROVE  \A e \in Devices : IsFiniteSet(DOMAIN holdings'[e])
  BY <1>3, <1>5 DEF DeleteHolding, RevokeDevice, WithoutRow, NoRows
<1>6. CASE UNCHANGED holdings
  BY <1>1, <1>6
<1>7. ASSUME NEW d \in Devices, TableStep(d)
      PROVE  \A e \in Devices : IsFiniteSet(DOMAIN holdings'[e])
  BY <1>4, <1>5, <1>6, <1>7
     DEF TableStep, HoldingsStep, LeavePut, PutHolding, PutAlert, RegisterDevice
<1> QED
  BY <1>6, <1>7 DEF Next, ReadHolding, EndPut, RemoveAlert, TickStep, StartTick, LoadHoldings,
                    FetchMarkets, EndTick, vars, rows

LEMMA LoadKeeps ==
  ASSUME TypeOK, TickInv, NEW d \in Devices, LoadHoldings(d)
  PROVE  Gathered(tick')
<1>1. /\ Gathered(tick) /\ tick.step = "gather" /\ Summable(holdings[d])
      /\ tick' = [tick EXCEPT !.held =
                    [k \in DOMAIN @ \cup {d} |-> IF k = d THEN holdings[d] ELSE @[k]]]
  BY SummableRows DEF LoadHoldings, TickInv
<1>2. /\ DOMAIN tick' = DOMAIN tick /\ tick'.active = tick.active /\ tick'.step = "gather"
      /\ tick'.held = [k \in DOMAIN tick.held \cup {d} |->
                         IF k = d THEN holdings[d] ELSE tick.held[k]]
  BY <1>1 DEF Gathered
<1>3. \A e \in DOMAIN tick'.held : Summable(tick'.held[e])
  BY <1>1, <1>2 DEF Gathered
<1> QED
  BY <1>1, <1>2, <1>3 DEF Gathered

LEMMA FetchKeeps ==
  ASSUME TickInv, NEW market \in Markets, FetchMarkets(market)
  PROVE  Gathered(tick')
<1>1. /\ Gathered(tick) /\ PortfolioDevices(tick.active) \subseteq DOMAIN tick.held
      /\ tick' = [tick EXCEPT !.step = "decide", !.market = market,
                              !.answer = [c \in DOMAIN market \cap Asked(tick) |-> market[c]]]
  BY DEF FetchMarkets, ToLoad, TickInv
<1>2. /\ DOMAIN tick' = DOMAIN tick /\ tick'.active = tick.active /\ tick'.held = tick.held
      /\ tick'.market = market
      /\ tick'.answer = [c \in DOMAIN market \cap Asked(tick) |-> market[c]]
  BY <1>1 DEF Gathered
<1>3. Asked(tick') = Asked(tick)
  BY <1>2 DEF Asked
<1> QED
  BY <1>1, <1>2, <1>3 DEF Gathered

LEMMA TickStepKeeps ==
  ASSUME TypeOK, TickInv, TickStep
  PROVE  tick' # Idle => Gathered(tick')
<1>1. CASE StartTick
  <2>1. /\ tick' = [step |-> "gather", active |-> alerts,
                    held |-> [d \in {} |-> NoRows], market |-> NoRows, answer |-> NoRows]
        /\ alerts \subseteq Devices \X Conditions
    BY <1>1 DEF StartTick, TypeOK
  <2> QED
    BY <2>1 DEF Gathered
<1>2. CASE EndTick
  BY <1>2 DEF EndTick
<1> QED
  BY <1>1, <1>2, LoadKeeps, FetchKeeps DEF TickStep

LEMMA TickKept == PutInv /\ TypeOK /\ TickInv /\ [Next]_vars => TickInv'
<1> SUFFICES ASSUME PutInv, TypeOK, TickInv, [Next]_vars PROVE TickInv'
  OBVIOUS
<1>1. CASE TickStep
  BY <1>1, RowsFinite, TickStepKeeps DEF TickInv
<1>2. CASE UNCHANGED tick
  BY <1>2, RowsFinite DEF TickInv
<1> QED
  BY <1>1, <1>2
     DEF Next, ReadHolding, EndPut, TableStep, HoldingsStep, LeavePut, PutHolding, Upsert,
         DeleteHolding, PutAlert, RegisterDevice, RevokeDevice, RemoveAlert, vars

LEMMA TickSpec == Spec => [](TypeOK /\ TickInv)
<1>1. Init => PutInv /\ TypeOK /\ TickInv
  BY PutInit, TypeInit, TickInit
<1>2. PutInv /\ TypeOK /\ TickInv /\ [Next]_vars => (PutInv /\ TypeOK /\ TickInv)'
  BY PutStep, TypeStep, TickKept
<1> QED
  BY <1>1, <1>2, PTL DEF Spec

-----------------------------------------------------------------------------
(* Values, costs and gains                                                  *)

\* The value of a portfolio at prices that are all there.
Worth(held, quotes) ==
  SumFunction([c \in DOMAIN held |-> held[c].amount * quotes[c].price])

PricesAll(held, quotes) == \A c \in DOMAIN held : quotes[c].price \in Nat

LEMMA Totals ==
  ASSUME NEW held, Summable(held), NEW quotes, PricesAll(held, quotes)
  PROVE  /\ Worth(held, quotes) \in Int /\ TotalCost(held) \in Int
         /\ DOMAIN held # {} => TotalCost(held) > 0
         /\ Worth(held, quotes) = Gain(held, quotes) + TotalCost(held)
         /\ Gain(held, quotes) \in Int
<1> DEFINE S == DOMAIN held
           v == [c \in S |-> held[c].amount * quotes[c].price]
           k == [c \in S |-> held[c].amount * held[c].cost]
           g == [c \in S |-> held[c].amount * (quotes[c].price - held[c].cost)]
           one == [c \in S |-> 1]
<1>1. IsFiniteSet(S) /\ DOMAIN v = S /\ DOMAIN k = S /\ DOMAIN g = S
  BY DEF Summable
<1>2. ASSUME NEW c \in S
      PROVE  /\ v[c] \in Int /\ k[c] \in Int /\ g[c] \in Int /\ k[c] > 0
             /\ v[c] = g[c] + k[c]
  <2> DEFINE a == held[c].amount
             p == quotes[c].price
             q == held[c].cost
  <2>1. a \in Nat \ {0} /\ p \in Nat /\ q \in Nat \ {0}
    BY DEF Summable, PricesAll
  <2>2. v[c] = a * p /\ k[c] = a * q /\ g[c] = a * (p - q)
    OBVIOUS
  <2> HIDE DEF a, p, q, v, k, g
  <2>3. a * p \in Int /\ a * q \in Int /\ a * (p - q) \in Int /\ a * q > 0
    BY <2>1
  <2>4. a * p = a * (p - q) + a * q
    BY <2>1
  <2> QED
    BY <2>2, <2>3, <2>4
<1>3. /\ Worth(held, quotes) = SumFunctionOnSet(v, S)
      /\ TotalCost(held) = SumFunctionOnSet(k, S)
      /\ Gain(held, quotes) = SumFunctionOnSet(g, S)
  BY <1>1 DEF Worth, TotalCost, Gain, SumFunction
<1> HIDE DEF S, v, k, g
<1>4. SumFunctionOnSet(v, S) \in Int /\ SumFunctionOnSet(k, S) \in Int /\ SumFunctionOnSet(g, S) \in Int
  BY <1>1, <1>2, SumType
<1>5. SumFunctionOnSet(v, S) = SumFunctionOnSet(g, S) + SumFunctionOnSet(k, S)
  BY <1>1, <1>2, SumPlus
<1>6. ASSUME NEW c \in S PROVE SumFunctionOnSet(k, S) > 0
  <2> DEFINE zero == [x \in S \ {c} |-> 0]
  <2>1. IsFiniteSet(S \ {c}) /\ IsFiniteSet({})
    BY <1>1, FS_Subset, FS_EmptySet
  <2>2. SumFunctionOnSet(k, S) = k[c] + SumFunctionOnSet(k, S \ {c})
    BY <1>1, <1>2, SumRemove
  <2>3. SumFunctionOnSet(zero, S \ {c}) = SumFunctionOnSet(zero, {})
    BY <2>1, SumSupport
  <2>4. SumFunctionOnSet(zero, {}) = 0
    BY SumOfNone
  <2>5. \A x \in S \ {c} : zero[x] \in Int /\ k[x] \in Int /\ zero[x] <= k[x]
    BY <1>2
  <2> HIDE DEF zero
  <2>6. SumFunctionOnSet(zero, S \ {c}) <= SumFunctionOnSet(k, S \ {c})
    BY <2>1, <2>5, SumLeq
  <2>7. SumFunctionOnSet(k, S \ {c}) \in Int
    BY <1>2, <2>1, SumType
  <2> QED
    BY <1>2, <2>2, <2>3, <2>4, <2>6, <2>7
<1> QED
  BY <1>3, <1>4, <1>5, <1>6 DEF S

\* Prices that are left out count as 0.
LEMMA ValueFalls ==
  ASSUME NEW held, Summable(held), NEW quotes, NEW full, PricesAll(held, full),
         \A c \in DOMAIN held :
           PriceOf(held, quotes, c) \in Nat /\ PriceOf(held, quotes, c) <= full[c].price
  PROVE  /\ TotalValue(held, quotes) \in Int
         /\ TotalValue(held, quotes) <= Worth(held, full)
<1> DEFINE S == DOMAIN held
           v == [c \in S |-> held[c].amount * PriceOf(held, quotes, c)]
           w == [c \in S |-> held[c].amount * full[c].price]
<1>1. IsFiniteSet(S) /\ DOMAIN v = S /\ DOMAIN w = S
  BY DEF Summable
<1>2. ASSUME NEW c \in S PROVE v[c] \in Int /\ w[c] \in Int /\ v[c] <= w[c]
  <2> DEFINE a == held[c].amount
             p == PriceOf(held, quotes, c)
             q == full[c].price
  <2>1. a \in Nat /\ p \in Nat /\ q \in Nat /\ p <= q
    BY DEF Summable, PricesAll
  <2>2. v[c] = a * p /\ w[c] = a * q
    OBVIOUS
  <2> HIDE DEF a, p, q, v, w
  <2>3. a * p \in Int /\ a * q \in Int /\ a * p <= a * q
    BY <2>1
  <2> QED
    BY <2>2, <2>3
<1>3. /\ TotalValue(held, quotes) = SumFunctionOnSet(v, S)
      /\ Worth(held, full) = SumFunctionOnSet(w, S)
  BY <1>1 DEF TotalValue, Worth, SumFunction
<1> HIDE DEF S, v, w
<1> QED
  BY <1>1, <1>2, <1>3, SumType, SumLeq

LEMMA ValueSame ==
  ASSUME NEW held, NEW quotes, NEW full,
         \A c \in DOMAIN held : PriceOf(held, quotes, c) = full[c].price
  PROVE  TotalValue(held, quotes) = Worth(held, full)
BY DEF TotalValue, Worth

-----------------------------------------------------------------------------
(* Verdicts *)

LEMMA CrossedReaches ==
  ASSUME NEW x \in Int, NEW y \in Int, NEW direction
  PROVE  Crossed(x, y, direction) <=> Reaches(x, y, direction)
BY DEF Crossed, Reaches

Said(b) == IF b THEN "true" ELSE "false"

\* What an alert's coins and holdings are to the tick that decides on it.
LEMMA Sees ==
  ASSUME NEW t, Gathered(t), t.step = "decide", NEW alert \in t.active
  PROVE  /\ alert[2] \in ConditionType
         /\ NeedsPortfolio(alert[2]) => Summable(HoldingsOf(t, alert[1]))
         /\ DOMAIN t.answer \subseteq DOMAIN t.market
         /\ \A k \in DOMAIN t.market : t.market[k] \in Quote
         /\ \A k \in DOMAIN t.answer : t.answer[k] = t.market[k]
         /\ Decisive(t, alert) \cap DOMAIN t.market \subseteq DOMAIN t.answer
<1>1. alert \in Devices \X Conditions /\ alert[2] \in ConditionType
  BY MarketAssumption DEF Gathered
<1>2. /\ t.market \in Markets
      /\ t.answer = [c \in DOMAIN t.market \cap Asked(t) |-> t.market[c]]
      /\ PortfolioDevices(t.active) \subseteq DOMAIN t.held
  BY DEF Gathered
<1>3. \A k \in DOMAIN t.market : t.market[k] \in Quote
  BY <1>2, MarketAssumption DEF Markets
<1>4. ASSUME NeedsPortfolio(alert[2])
      PROVE  /\ Summable(HoldingsOf(t, alert[1]))
             /\ DOMAIN HoldingsOf(t, alert[1]) \subseteq Asked(t)
  <2>1. alert[1] \in DOMAIN t.held
    BY <1>2, <1>4 DEF PortfolioDevices
  <2>2. HoldingsOf(t, alert[1]) = t.held[alert[1]]
    BY <2>1 DEF HoldingsOf
  <2>3. DOMAIN t.held[alert[1]] \subseteq Asked(t)
    <3> SUFFICES ASSUME NEW k \in DOMAIN t.held[alert[1]] PROVE k \in Asked(t)
      OBVIOUS
    <3>1. k \in UNION {DOMAIN t.held[d] : d \in DOMAIN t.held}
      BY <2>1
    <3> QED
      BY <3>1 DEF Asked
  <2>4. Summable(t.held[alert[1]])
    BY <2>1 DEF Gathered
  <2> QED
    BY <2>1, <2>2, <2>3, <2>4
<1>5. ASSUME ~NeedsPortfolio(alert[2]) PROVE alert[2].coin \in Asked(t)
  BY <1>5 DEF RequiredCoinIDs, Asked
<1>6. Decisive(t, alert) \subseteq Asked(t)
  BY <1>4, <1>5 DEF Decisive
<1> QED
  BY <1>1, <1>2, <1>3, <1>4, <1>6

\* The alerts on one coin.
LEMMA PriceVerdict ==
  ASSUME NEW c, c.type = "price", NEW quotes, NEW held
  PROVE  /\ c.coin \notin DOMAIN quotes => Evaluate(c, quotes, held) = "missing"
         /\ c.coin \in DOMAIN quotes =>
              Evaluate(c, quotes, held) = Said(Crossed(quotes[c.coin].price, c.target, c.direction))
         /\ Means(c, held, quotes) <=> Reaches(quotes[c.coin].price, c.target, c.direction)
BY DEF Evaluate, NeedsPortfolio, Said, Means

LEMMA PercentVerdict ==
  ASSUME NEW c, c.type = "percent", NEW quotes, NEW held
  PROVE  /\ c.coin \notin DOMAIN quotes \/ quotes[c.coin].change[c.window] = Null
              => Evaluate(c, quotes, held) = "missing"
         /\ c.coin \in DOMAIN quotes /\ quotes[c.coin].change[c.window] # Null =>
              Evaluate(c, quotes, held)
                = Said(Crossed(quotes[c.coin].change[c.window], c.target, c.direction))
         /\ Means(c, held, quotes)
              <=> Reaches(quotes[c.coin].change[c.window], c.target, c.direction)
BY DEF Evaluate, NeedsPortfolio, Said, Means

\* Both sides of a portfolio condition, of a portfolio worth v that cost k.
Left(c, v, k) == IF c.type = "value" THEN v ELSE 100 * (v - k)
Right(c, k) == IF c.type = "value" THEN c.target ELSE c.target * k

LEMMA SidesType ==
  ASSUME NEW c \in PortfolioCondition, NEW v \in Int, NEW k \in Int
  PROVE  Left(c, v, k) \in Int /\ Right(c, k) \in Int
<1>1. c.target \in Int
  BY DEF PortfolioCondition
<1> QED
  BY <1>1 DEF Left, Right

LEMMA PortfolioVerdict ==
  ASSUME NEW c \in PortfolioCondition, NEW quotes, NEW held, Summable(held), DOMAIN held # {},
         TotalCost(held) > 0
  PROVE  Evaluate(c, quotes, held) =
           Said(Crossed(Left(c, TotalValue(held, quotes), TotalCost(held)),
                        Right(c, TotalCost(held)), c.direction))
BY DEF PortfolioCondition, Evaluate, NeedsPortfolio, PnLCrossed, Said, Left, Right

LEMMA PortfolioMeans ==
  ASSUME NEW c \in PortfolioCondition, NEW full, NEW held, Summable(held), PricesAll(held, full)
  PROVE  Means(c, held, full)
           <=> Reaches(Left(c, Worth(held, full), TotalCost(held)),
                       Right(c, TotalCost(held)), c.direction)
<1> DEFINE g == Gain(held, full)
           k == TotalCost(held)
           w == Worth(held, full)
<1>1. w = g + k /\ g \in Int /\ k \in Int /\ w \in Int
  BY Totals
<1>2. Means(c, held, full) <=>
        IF c.type = "value" THEN Reaches(g + k, c.target, c.direction)
                            ELSE Reaches(100 * g, c.target * k, c.direction)
  BY DEF PortfolioCondition, Means
<1> HIDE DEF g, k, w
<1>3. g + k = w /\ 100 * g = 100 * (w - k)
  BY <1>1
<1> QED
  BY <1>2, <1>3 DEF Left, Right, g, k, w

\* Conditions are of one coin or of the portfolio.
LEMMA ConditionCases ==
  ASSUME NEW c \in ConditionType
  PROVE  \/ c.type = "price" /\ ~NeedsPortfolio(c) /\ c.target \in Int
         \/ c.type = "percent" /\ ~NeedsPortfolio(c) /\ c.target \in Int /\ c.window \in Windows
         \/ c \in PortfolioCondition /\ NeedsPortfolio(c) /\ c.type \in {"value", "pnl"}
BY DEF ConditionType, PriceCrossing, PercentChange, PortfolioCondition, NeedsPortfolio

LEMMA TrueVerdict ==
  ASSUME NEW t, Gathered(t), t.step = "decide", NEW alert \in t.active,
         Decisive(t, alert) # {}, Known(t, alert, t.market) = Decisive(t, alert)
  PROVE  Verdict(t, alert) = Said(Means(alert[2], HoldingsOf(t, alert[1]), t.market))
<1> DEFINE c == alert[2]
           held == HoldingsOf(t, alert[1])
<1>1. /\ c \in ConditionType /\ (NeedsPortfolio(c) => Summable(held))
      /\ \A k \in DOMAIN t.market : t.market[k] \in Quote
      /\ \A k \in DOMAIN t.answer : t.answer[k] = t.market[k]
      /\ Decisive(t, alert) \cap DOMAIN t.market \subseteq DOMAIN t.answer
  BY Sees
<1>2. \A k \in Decisive(t, alert) : k \in DOMAIN t.market /\ Tells(t.market[k], c)
  BY DEF Known
<1>3. \A k \in Decisive(t, alert) : /\ k \in DOMAIN t.answer /\ t.answer[k] = t.market[k]
                                    /\ t.market[k] \in Quote /\ Tells(t.market[k], c)
  BY <1>1, <1>2
<1>4. Decisive(t, alert) = IF NeedsPortfolio(c) THEN DOMAIN held ELSE {c.coin}
  BY DEF Decisive
<1>5. Verdict(t, alert) = Evaluate(c, t.answer, held)
  BY DEF Verdict
<1> HIDE DEF c, held
<1>6. CASE c.type = "price" /\ ~NeedsPortfolio(c) /\ c.target \in Int
  <2>1. /\ c.coin \in DOMAIN t.answer /\ t.answer[c.coin] = t.market[c.coin]
        /\ t.market[c.coin].price \in Int
    BY <1>3, <1>4, <1>6 DEF Quote
  <2>2. Evaluate(c, t.answer, held) = Said(Crossed(t.market[c.coin].price, c.target, c.direction))
    BY <1>6, <2>1, PriceVerdict
  <2>3. Means(c, held, t.market) <=> Reaches(t.market[c.coin].price, c.target, c.direction)
    BY <1>6, PriceVerdict
  <2>4. Crossed(t.market[c.coin].price, c.target, c.direction)
          <=> Reaches(t.market[c.coin].price, c.target, c.direction)
    BY <1>6, <2>1, CrossedReaches
  <2> QED
    BY <1>5, <2>2, <2>3, <2>4 DEF Said, c, held
<1>7. CASE c.type = "percent" /\ ~NeedsPortfolio(c) /\ c.target \in Int /\ c.window \in Windows
  <2> DEFINE x == t.market[c.coin].change[c.window]
  <2>1. /\ c.coin \in DOMAIN t.answer /\ t.answer[c.coin] = t.market[c.coin]
        /\ x \in Int /\ x # Null
    BY <1>3, <1>4, <1>7 DEF Quote, Tells
  <2>2. Evaluate(c, t.answer, held) = Said(Crossed(x, c.target, c.direction))
    BY <1>7, <2>1, PercentVerdict
  <2>3. Means(c, held, t.market) <=> Reaches(x, c.target, c.direction)
    BY <1>7, PercentVerdict
  <2>4. Crossed(x, c.target, c.direction) <=> Reaches(x, c.target, c.direction)
    BY <1>7, <2>1, CrossedReaches
  <2> QED
    BY <1>5, <2>2, <2>3, <2>4 DEF Said, c, held
<1>8. CASE c \in PortfolioCondition /\ NeedsPortfolio(c) /\ c.type \in {"value", "pnl"}
  <2> DEFINE v == Worth(held, t.market)
             k == TotalCost(held)
  <2>1. Summable(held) /\ DOMAIN held # {}
    BY <1>1, <1>4, <1>8
  <2>2. \A x \in DOMAIN held : /\ t.market[x].price \in Nat
                               /\ PriceOf(held, t.answer, x) = t.market[x].price
    BY <1>3, <1>4, <1>8 DEF Quote, PriceOf
  <2>3. PricesAll(held, t.market)
    BY <2>2 DEF PricesAll
  <2>4. v \in Int /\ k \in Int /\ k > 0 /\ TotalValue(held, t.answer) = v
    BY <2>1, <2>2, <2>3, Totals, ValueSame
  <2>5. Evaluate(c, t.answer, held) = Said(Crossed(Left(c, v, k), Right(c, k), c.direction))
    BY <1>8, <2>1, <2>4, PortfolioVerdict
  <2>6. Means(c, held, t.market) <=> Reaches(Left(c, v, k), Right(c, k), c.direction)
    BY <1>8, <2>1, <2>3, PortfolioMeans
  <2>7. Crossed(Left(c, v, k), Right(c, k), c.direction)
          <=> Reaches(Left(c, v, k), Right(c, k), c.direction)
    BY <1>8, <2>4, SidesType, CrossedReaches
  <2> QED
    BY <1>5, <2>5, <2>6, <2>7 DEF Said, c, held
<1> QED
  BY <1>1, <1>6, <1>7, <1>8, ConditionCases

\* One request for the coins of all alerts is enough for each: an alert all of
\* whose coins CoinGecko has data for gets the verdict its condition means, for
\* any number of devices, alerts and holdings and whatever clients change
\* between the tick's queries.
THEOREM VerdictTheorem == Spec => []VerdictsMatchMarket
<1>1. TypeOK /\ TickInv => VerdictsMatchMarket
  <2> SUFFICES ASSUME TickInv, Deciding, NEW alert \in tick.active,
                      Decisive(tick, alert) # {},
                      Known(tick, alert, tick.market) = Decisive(tick, alert)
               PROVE  Verdict(tick, alert) =
                        IF Means(alert[2], HoldingsOf(tick, alert[1]), tick.market)
                          THEN "true" ELSE "false"
    BY DEF VerdictsMatchMarket
  <2>1. Gathered(tick) /\ tick.step = "decide"
    BY DEF Deciding, TickInv
  <2> QED
    BY <2>1, TrueVerdict DEF Said
<1> QED
  BY <1>1, TickSpec, PTL

-----------------------------------------------------------------------------
(* Verdicts with data missing *)

\* What is measured too low is wrong on one side only.
LEMMA ErrsLow ==
  ASSUME NEW x \in Int, NEW more \in Int, x <= more, NEW y \in Int, NEW direction
  PROVE  /\ Said(Crossed(x, y, direction)) = "true" /\ direction = "above"
              => Reaches(more, y, direction)
         /\ Said(Crossed(x, y, direction)) = "false" /\ direction = "below"
              => ~Reaches(more, y, direction)
<1>1. ASSUME Said(Crossed(x, y, direction)) = "true", direction = "above"
      PROVE  Reaches(more, y, direction)
  <2>1. x >= y
    BY <1>1 DEF Said, Crossed
  <2>2. more >= y
    BY <2>1
  <2> QED
    BY <1>1, <2>2 DEF Reaches
<1>2. ASSUME Said(Crossed(x, y, direction)) = "false", direction = "below"
      PROVE  ~Reaches(more, y, direction)
  <2>1. ~(x <= y)
    BY <1>2 DEF Said, Crossed
  <2>2. ~(y >= more)
    BY <2>1
  <2> QED
    BY <1>2, <2>2 DEF Reaches
<1> QED
  BY <1>1, <1>2

LEMMA LowPrices ==
  ASSUME NEW t, Gathered(t), t.step = "decide", NEW alert \in t.active,
         alert[2].type # "percent", NEW full \in Completions(t, alert),
         NEW k \in Decisive(t, alert), NEW held
  PROVE  /\ full[k].price \in Nat /\ PriceOf(held, t.answer, k) \in Nat
         /\ PriceOf(held, t.answer, k) <= full[k].price
<1>1. /\ full[k] \in Quotes /\ Tells(full[k], alert[2])
      /\ \A c \in Known(t, alert, t.answer) : full[c] = t.answer[c]
  BY DEF Completions
<1>2. full[k].price \in Nat
  BY <1>1, MarketAssumption DEF Quote
<1>3. CASE k \in DOMAIN t.answer
  <2>1. t.answer[k] \in Quote
    BY <1>3, Sees
  <2>2. t.answer[k].price \in Nat /\ PriceOf(held, t.answer, k) = t.answer[k].price
    BY <1>3, <2>1 DEF Quote, PriceOf
  <2>3. t.answer[k].price > 0 => full[k] = t.answer[k]
    BY <1>1, <1>3 DEF Known, Tells
  <2> QED
    BY <1>2, <2>2, <2>3
<1>4. CASE k \notin DOMAIN t.answer
  BY <1>2, <1>4 DEF PriceOf
<1> QED
  BY <1>3, <1>4

LEMMA LowVerdict ==
  ASSUME NEW t, Gathered(t), t.step = "decide", NEW alert \in t.active,
         alert[2].type # "percent", NEW full \in Completions(t, alert)
  PROVE  LET held == HoldingsOf(t, alert[1])
         IN  /\ Verdict(t, alert) = "true" /\ alert[2].direction = "above"
                  => Means(alert[2], held, full)
             /\ Verdict(t, alert) = "false" /\ alert[2].direction = "below"
                  => ~Means(alert[2], held, full)
<1> DEFINE c == alert[2]
           held == HoldingsOf(t, alert[1])
           verdict == Evaluate(c, t.answer, held)
<1>1. c \in ConditionType /\ (NeedsPortfolio(c) => Summable(held)) /\ c.type # "percent"
  BY Sees
<1>2. Decisive(t, alert) = IF NeedsPortfolio(c) THEN DOMAIN held ELSE {c.coin}
  BY DEF Decisive
<1>3. Verdict(t, alert) = verdict
  BY DEF Verdict
<1>4. \A k \in Decisive(t, alert) : /\ full[k].price \in Nat /\ PriceOf(held, t.answer, k) \in Nat
                                    /\ PriceOf(held, t.answer, k) <= full[k].price
  BY LowPrices
<1> HIDE DEF c, held, verdict
<1>5. ASSUME NEW x \in Int, NEW more \in Int, x <= more, NEW y \in Int,
             verdict = Said(Crossed(x, y, c.direction)),
             Means(c, held, full) <=> Reaches(more, y, c.direction)
      PROVE  /\ verdict = "true" /\ c.direction = "above" => Means(c, held, full)
             /\ verdict = "false" /\ c.direction = "below" => ~Means(c, held, full)
  BY <1>5, ErrsLow
<1>6. CASE verdict = "missing"
  BY <1>3, <1>6 DEF c, held
<1>7. CASE verdict # "missing" /\ c.type = "price" /\ ~NeedsPortfolio(c) /\ c.target \in Int
  <2> DEFINE p == t.answer[c.coin].price
             q == full[c.coin].price
  <2>1. c.coin \in DOMAIN t.answer /\ verdict = Said(Crossed(p, c.target, c.direction))
    BY <1>7, PriceVerdict DEF verdict
  <2>2. p \in Int /\ q \in Int /\ p <= q
    BY <1>2, <1>4, <1>7, <2>1 DEF PriceOf
  <2>3. Means(c, held, full) <=> Reaches(q, c.target, c.direction)
    BY <1>7, PriceVerdict
  <2> HIDE DEF p, q
  <2>4. /\ verdict = "true" /\ c.direction = "above" => Means(c, held, full)
        /\ verdict = "false" /\ c.direction = "below" => ~Means(c, held, full)
    BY <1>5, <1>7, <2>1, <2>2, <2>3
  <2> QED
    BY <1>3, <2>4 DEF c, held
<1>8. CASE /\ verdict # "missing" /\ c \in PortfolioCondition /\ NeedsPortfolio(c)
           /\ c.type \in {"value", "pnl"}
  <2> DEFINE v == TotalValue(held, t.answer)
             w == Worth(held, full)
             k == TotalCost(held)
  <2>1. Summable(held) /\ DOMAIN held # {}
    BY <1>1, <1>8 DEF verdict, Evaluate
  <2>2. PricesAll(held, full)
    BY <1>2, <1>4, <1>8 DEF PricesAll
  <2>3. k \in Int /\ k > 0 /\ w \in Int
    BY <2>1, <2>2, Totals
  <2>4. v \in Int /\ v <= w
    BY <1>2, <1>4, <1>8, <2>1, <2>2, ValueFalls
  <2>5. verdict = Said(Crossed(Left(c, v, k), Right(c, k), c.direction))
    BY <1>8, <2>1, <2>3, PortfolioVerdict DEF verdict
  <2>6. Means(c, held, full) <=> Reaches(Left(c, w, k), Right(c, k), c.direction)
    BY <1>8, <2>1, <2>2, PortfolioMeans
  <2> HIDE DEF v, w, k
  <2>7. /\ Left(c, v, k) \in Int /\ Left(c, w, k) \in Int /\ Right(c, k) \in Int
        /\ Left(c, v, k) <= Left(c, w, k)
    <3>1. Left(c, v, k) <= Left(c, w, k)
      BY <2>3, <2>4 DEF Left
    <3> QED
      BY <1>8, <2>3, <2>4, <3>1, SidesType
  <2>8. /\ verdict = "true" /\ c.direction = "above" => Means(c, held, full)
        /\ verdict = "false" /\ c.direction = "below" => ~Means(c, held, full)
    BY <1>5, <2>5, <2>6, <2>7
  <2> QED
    BY <1>3, <2>8 DEF c, held
<1> QED
  BY <1>1, <1>6, <1>7, <1>8, ConditionCases

LEMMA NoPercentage ==
  ASSUME NEW t, Gathered(t), t.step = "decide", NEW alert \in t.active,
         alert[2].type = "percent", Verdict(t, alert) # "missing"
  PROVE  Known(t, alert, t.answer) # {}
<1> DEFINE c == alert[2]
<1>1. c.coin \in DOMAIN t.answer /\ t.answer[c.coin].change[c.window] # Null
  BY PercentVerdict DEF Verdict
<1>2. c.coin \in Decisive(t, alert)
  BY DEF Decisive, NeedsPortfolio
<1>3. Tells(t.answer[c.coin], c)
  BY <1>1 DEF Tells
<1> QED
  BY <1>1, <1>2, <1>3 DEF Known

\* A price CoinGecko leaves out, or has as null, counts as 0 and can make a
\* verdict wrong only by making it low: "above" is never true, nor "below" false,
\* unless it is so whatever the price is.  Without its percentage an alert has
\* no verdict, for any conditions, quotes and number of holdings.
THEOREM LowTheorem == Spec => []MissingDataErrsLow
<1>1. TypeOK /\ TickInv => MissingDataErrsLow
  <2> SUFFICES ASSUME TickInv, Deciding PROVE MissingDataErrsLow
    BY DEF MissingDataErrsLow
  <2>1. Gathered(tick) /\ tick.step = "decide"
    BY DEF Deciding, TickInv
  <2>2. ASSUME NEW alert \in tick.active, alert[2].type = "percent",
               Verdict(tick, alert) # "missing"
        PROVE  Known(tick, alert, tick.answer) # {}
    BY <2>1, <2>2, NoPercentage
  <2>3. ASSUME NEW alert \in tick.active, alert[2].type # "percent",
               NEW full \in Completions(tick, alert)
        PROVE  /\ Verdict(tick, alert) = "true" /\ alert[2].direction = "above"
                    => Means(alert[2], HoldingsOf(tick, alert[1]), full)
               /\ Verdict(tick, alert) = "false" /\ alert[2].direction = "below"
                    => ~Means(alert[2], HoldingsOf(tick, alert[1]), full)
    BY <2>1, <2>3, LowVerdict
  <2> QED
    BY <2>2, <2>3 DEF MissingDataErrsLow
<1> QED
  BY <1>1, TickSpec, PTL
=============================================================================
