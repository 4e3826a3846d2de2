------------------------ MODULE PaperTrading_proofs ------------------------
(***************************************************************************)
(* Paper trading, however many requests interleave.  The cap on portfolios *)
(* is exceeded by at most the number of requests handled beside the first. *)
(* Every portfolio keeps books, off by no more than what its closings      *)
(* drop.  One that took no trade on a stale ledger never spends cash or    *)
(* sells coins it has not, up to the tolerance, and its history is one     *)
(* list in the order of both the ids and the times.  With stale ledgers,   *)
(* what it is overdrawn by is bounded by what other requests had been      *)
(* promised.                                                               *)
(***************************************************************************)
EXTENDS PaperTrading, PaperStore_proofs

\* The requests that found room for the device and have not inserted yet.
Pending(d) == {r \in Requests : At(r, "create") /\ req[r].device = d}

Shapes ==
  /\ IsFiniteSet(portfolios)
  /\ \A row \in portfolios : "device" \in DOMAIN row
  /\ DOMAIN req = Requests /\ req = [r \in Requests |-> req[r]]
  /\ \A r \in Requests : req[r] # Idle => "step" \in DOMAIN req[r]

\* A pending request has its place reserved: it was the last to find room.
Reserved(d) ==
  CountByDevice(d) + Cardinality(Pending(d)) <= PortfolioLimit + Cardinality(Requests) - 1

CapInv == Shapes /\ \A d \in Owners : Reserved(d)

-----------------------------------------------------------------------------

\* The sets that are counted are finite.
LEMMA Finite ==
  ASSUME Shapes, NEW d
  PROVE  /\ IsFiniteSet(OwnedBy(d)) /\ CountByDevice(d) \in Nat
         /\ IsFiniteSet(Pending(d)) /\ Cardinality(Pending(d)) \in Nat
         /\ Cardinality(Pending(d)) <= Cardinality(Requests)
         /\ Cardinality(Requests) \in Nat
<1>1. OwnedBy(d) \subseteq portfolios /\ Pending(d) \subseteq Requests
  BY DEF OwnedBy, Pending
<1>2. IsFiniteSet(Requests)
  BY PaperAssumption
<1> QED
  BY <1>1, <1>2, FS_Subset, FS_CardinalityType DEF Shapes, CountByDevice

\* A step that adds neither a portfolio nor a pending request keeps the bound.
LEMMA Shrinks ==
  ASSUME Shapes, NEW d \in Owners, Reserved(d),
         OwnedBy(d)' \subseteq OwnedBy(d), Pending(d)' \subseteq Pending(d)
  PROVE  Reserved(d)'
<1>1. IsFiniteSet(OwnedBy(d)) /\ IsFiniteSet(Pending(d))
  BY Finite
<1>2. /\ Cardinality(OwnedBy(d)') <= Cardinality(OwnedBy(d))
      /\ Cardinality(Pending(d)') <= Cardinality(Pending(d))
      /\ Cardinality(OwnedBy(d)') \in Nat /\ Cardinality(Pending(d)') \in Nat
  BY <1>1, FS_Subset, FS_CardinalityType
<1>3. PortfolioLimit \in Nat
  BY PaperAssumption
<1> QED
  BY <1>2, <1>3, Finite DEF Reserved, CountByDevice

\* A request that moves to a step other than "create" is pending no more, and
\* leaves the others as they were.
LEMMA Moves ==
  ASSUME Shapes, NEW r \in Requests, NEW job, Goes(r, job),
         job = Idle \/ ("step" \in DOMAIN job /\ job.step # "create")
  PROVE  /\ DOMAIN req' = Requests /\ req' = [s \in Requests |-> req'[s]]
         /\ \A s \in Requests : req'[s] # Idle => "step" \in DOMAIN req'[s]
         /\ \A d \in Owners : Pending(d)' \subseteq Pending(d) \ {r}
<1>1. /\ req'[r] = job
      /\ \A s \in Requests \ {r} : req'[s] = req[s]
      /\ DOMAIN req' = Requests /\ req' = [s \in Requests |-> req'[s]]
  BY DEF Goes, Shapes
<1>2. \A s \in Requests : req'[s] # Idle => "step" \in DOMAIN req'[s]
  BY <1>1 DEF Shapes
<1>3. \A d \in Owners : Pending(d)' \subseteq Pending(d) \ {r}
  BY <1>1 DEF Pending, At
<1> QED
  BY <1>1, <1>2, <1>3

-----------------------------------------------------------------------------

\* What the operations do to the portfolio table.
LEMMA CreateAddsOne ==
  ASSUME Shapes, NEW d, NEW name, NEW balance, NEW time,
         Create(d, name, balance, time)
  PROVE  /\ IsFiniteSet(portfolios') /\ \A row \in portfolios' : "device" \in DOMAIN row
         /\ CountByDevice(d)' <= CountByDevice(d) + 1 /\ CountByDevice(d)' \in Nat
         /\ \A e \in Owners \ {d} : OwnedBy(e)' \subseteq OwnedBy(e)
<1> DEFINE new == [id |-> lastPortfolio + 1, device |-> d, name |-> name,
                   balance |-> balance, updatedAt |-> time]
<1>1. portfolios' = portfolios \cup {new} /\ new.device = d /\ "device" \in DOMAIN new
  BY DEF Create
<1> HIDE DEF new
<1>2. IsFiniteSet(portfolios') /\ \A row \in portfolios' : "device" \in DOMAIN row
  BY <1>1, FS_AddElement DEF Shapes
<1>3. OwnedBy(d)' = OwnedBy(d) \cup {new}
  BY <1>1 DEF OwnedBy
<1>4. IsFiniteSet(OwnedBy(d)) /\ Cardinality(OwnedBy(d)) \in Nat
  BY Finite DEF CountByDevice
<1>5. Cardinality(OwnedBy(d)') <= Cardinality(OwnedBy(d)) + 1
      /\ Cardinality(OwnedBy(d)') \in Nat
  <2> DEFINE S == OwnedBy(d)
  <2>1. /\ IsFiniteSet(S \cup {new})
        /\ Cardinality(S \cup {new}) = IF new \in S THEN Cardinality(S)
                                                    ELSE Cardinality(S) + 1
    BY <1>4, FS_AddElement
  <2> QED
    BY <1>3, <1>4, <2>1
<1>6. \A e \in Owners \ {d} : OwnedBy(e)' \subseteq OwnedBy(e)
  BY <1>1 DEF OwnedBy
<1> QED
  BY <1>2, <1>5, <1>6 DEF CountByDevice

LEMMA DeleteTakesAway ==
  ASSUME Shapes, NEW rows, DeletePortfolios(rows)
  PROVE  /\ IsFiniteSet(portfolios') /\ \A row \in portfolios' : "device" \in DOMAIN row
         /\ \A d \in Owners : OwnedBy(d)' \subseteq OwnedBy(d)
<1>1. portfolios' \subseteq portfolios
  BY DEF DeletePortfolios
<1>2. IsFiniteSet(portfolios')
  BY <1>1, FS_Subset DEF Shapes
<1> QED
  BY <1>1, <1>2 DEF Shapes, OwnedBy

\* Touch replaces rows: each device's new rows are an image of its old ones.
LEMMA TouchKeepsCount ==
  ASSUME Shapes, NEW p, NEW time, Touch(p, time)
  PROVE  /\ IsFiniteSet(portfolios') /\ \A row \in portfolios' : "device" \in DOMAIN row
         /\ \A d \in Owners : CountByDevice(d)' <= CountByDevice(d)
                              /\ CountByDevice(d)' \in Nat
<1> DEFINE Touched(row) == IF row.id = p THEN [row EXCEPT !.updatedAt = time] ELSE row
<1>1. portfolios' = {Touched(row) : row \in portfolios}
  BY DEF Touch
<1>2. \A row \in portfolios :
        "device" \in DOMAIN Touched(row) /\ Touched(row).device = row.device
  BY DEF Shapes
<1> HIDE DEF Touched
<1>3. \A row \in portfolios' : "device" \in DOMAIN row
  BY <1>1, <1>2
<1>4. ASSUME NEW S, IsFiniteSet(S)
      PROVE  /\ IsFiniteSet({Touched(row) : row \in S})
             /\ Cardinality({Touched(row) : row \in S}) <= Cardinality(S)
  <2> DEFINE T == {Touched(row) : row \in S}
             f == [row \in S |-> Touched(row)]
  <2>1. f \in Surjection(S, T)
    BY DEF Surjection
  <2> QED
    BY <2>1, <1>4, FS_Surjection
<1>5. IsFiniteSet(portfolios')
  BY <1>1, <1>4 DEF Shapes
<1>6. ASSUME NEW d \in Owners
      PROVE  CountByDevice(d)' <= CountByDevice(d) /\ CountByDevice(d)' \in Nat
  <2>1. OwnedBy(d)' = {Touched(row) : row \in OwnedBy(d)}
    BY <1>1, <1>2 DEF OwnedBy
  <2>2. IsFiniteSet(OwnedBy(d))
    BY Finite
  <2> QED
    BY <2>1, <2>2, <1>4, FS_CardinalityType DEF CountByDevice
<1> QED
  BY <1>3, <1>5, <1>6

-----------------------------------------------------------------------------

LEMMA CapInit == Init => CapInv
<1> SUFFICES ASSUME Init PROVE CapInv
  OBVIOUS
<1>1. Shapes
  BY FS_EmptySet DEF Init, PaperStoreInit, Shapes
<1>2. ASSUME NEW d \in Owners PROVE Reserved(d)
  <2>1. OwnedBy(d) = {} /\ Pending(d) = {}
    BY DEF Init, PaperStoreInit, OwnedBy, Pending, At
  <2>2. PortfolioLimit \in Nat \ {0} /\ Cardinality(Requests) \in Nat
    BY PaperAssumption, FS_CardinalityType
  <2> QED
    BY <2>1, <2>2, FS_EmptySet DEF Reserved, CountByDevice
<1> QED
  BY <1>1, <1>2 DEF CapInv

\* Finding room: the count is below the cap, and at most all requests pend.
LEMMA CountPortfoliosKeeps ==
  ASSUME CapInv, NEW r \in Requests, NEW d \in Owners, NEW name, NEW balance,
         CountPortfolios(r, d, name, balance)
  PROVE  CapInv'
<1>1. UNCHANGED portfolios /\ HasRoom(CountByDevice(d))
  BY DEF CountPortfolios, store
<1>2. /\ req' = [req EXCEPT ![r] = [step |-> "create", device |-> d, name |-> name,
                                    balance |-> balance]]
      /\ DOMAIN req = Requests /\ Shapes
  BY DEF CountPortfolios, Goes, CapInv, Shapes
<1>3. Shapes'
  BY <1>1, <1>2 DEF Shapes
<1>4. \A e \in Owners \ {d} : Pending(e)' \subseteq Pending(e)
  BY <1>2 DEF Pending, At
<1>5. ASSUME NEW e \in Owners PROVE Reserved(e)'
  <2>1. OwnedBy(e)' = OwnedBy(e)
    BY <1>1 DEF OwnedBy
  <2>2. CASE e # d
    BY <2>1, <2>2, <1>2, <1>4, Shrinks DEF CapInv
  <2>3. CASE e = d
    <3>1. CountByDevice(d) < PortfolioLimit
      BY <1>1 DEF HasRoom
    <3>2. Cardinality(Pending(d)') <= Cardinality(Requests)
          /\ Cardinality(Pending(d)') \in Nat
      <4>1. Pending(d)' \subseteq Requests
        BY DEF Pending
      <4> QED
        BY <4>1, PaperAssumption, FS_Subset, FS_CardinalityType
    <3>3. CountByDevice(d)' = CountByDevice(d)
      BY <2>1, <2>3 DEF CountByDevice
    <3>4. PortfolioLimit \in Nat /\ CountByDevice(d) \in Nat
          /\ Cardinality(Requests) \in Nat
      BY <1>2, Finite, PaperAssumption
    <3> QED
      BY <3>1, <3>2, <3>3, <3>4, <2>3 DEF Reserved
  <2> QED
    BY <2>2, <2>3
<1> QED
  BY <1>3, <1>5 DEF CapInv

\* An insert takes up the place its request reserved.
LEMMA CreatePortfolioKeeps ==
  ASSUME CapInv, NEW r \in Requests, CreatePortfolio(r)
  PROVE  CapInv'
<1>1. Shapes /\ Goes(r, Idle) /\ At(r, "create")
  BY DEF CapInv, CreatePortfolio
<1>2. \A e \in Owners : Pending(e)' \subseteq Pending(e) \ {r}
  BY <1>1, Moves
<1>3. CASE ~CanCreate(req[r].device, req[r].name)
  <2>1. UNCHANGED portfolios
    BY <1>3 DEF CreatePortfolio
  <2>2. Shapes'
    BY <1>1, <2>1, Moves DEF Shapes
  <2>3. ASSUME NEW e \in Owners PROVE Reserved(e)'
    <3>1. OwnedBy(e)' \subseteq OwnedBy(e) /\ Pending(e)' \subseteq Pending(e)
      BY <1>2, <2>1 DEF OwnedBy
    <3> QED
      BY <1>1, <3>1, Shrinks DEF CapInv
  <2> QED
    BY <2>2, <2>3 DEF CapInv
<1>4. ASSUME NEW d, d = req[r].device, Create(d, req[r].name, req[r].balance, now)
      PROVE  CapInv'
  <2>1. /\ IsFiniteSet(portfolios') /\ \A row \in portfolios' : "device" \in DOMAIN row
        /\ CountByDevice(d)' <= CountByDevice(d) + 1
        /\ CountByDevice(d)' \in Nat
        /\ \A e \in Owners \ {d} : OwnedBy(e)' \subseteq OwnedBy(e)
    BY <1>1, <1>4, CreateAddsOne
  <2>2. Shapes'
    BY <1>1, <2>1, Moves DEF Shapes
  <2>3. ASSUME NEW e \in Owners, e # d PROVE Reserved(e)'
    <3>1. OwnedBy(e)' \subseteq OwnedBy(e) /\ Pending(e)' \subseteq Pending(e)
      BY <1>2, <2>1, <2>3
    <3> QED
      BY <1>1, <3>1, Shrinks DEF CapInv
  <2>4. ASSUME d \in Owners PROVE Reserved(d)'
    <3>1. r \in Pending(d) /\ IsFiniteSet(Pending(d)) /\ Cardinality(Pending(d)) \in Nat
          /\ CountByDevice(d) \in Nat /\ Cardinality(Requests) \in Nat
      BY <1>1, <1>4, Finite DEF Pending
    <3>2. Cardinality(Pending(d) \ {r}) = Cardinality(Pending(d)) - 1
          /\ IsFiniteSet(Pending(d) \ {r})
      BY <3>1, FS_RemoveElement
    <3>3. Cardinality(Pending(d)') <= Cardinality(Pending(d)) - 1
          /\ Cardinality(Pending(d)') \in Nat
      <4>1. Pending(d)' \subseteq Pending(d) \ {r}
        BY <1>2, <2>4
      <4> QED
        BY <4>1, <3>2, FS_Subset, FS_CardinalityType
    <3>4. Reserved(d) /\ PortfolioLimit \in Nat
      BY <2>4, PaperAssumption DEF CapInv
    <3> QED
      BY <2>1, <3>1, <3>3, <3>4 DEF Reserved
  <2> QED
    BY <2>2, <2>3, <2>4 DEF CapInv
<1> QED
  BY <1>3, <1>4 DEF CreatePortfolio

\* A step that adds no portfolio and leaves its request at another step than
\* "create" keeps the invariant.
LEMMA OtherRequestSteps ==
  ASSUME CapInv, NEW r \in Requests, NEW job, Goes(r, job),
         job = Idle \/ ("step" \in DOMAIN job /\ job.step # "create"),
         UNCHANGED portfolios \/ \E p, time : Touch(p, time)
  PROVE  CapInv'
<1>1. Shapes
  BY DEF CapInv
<1>2. /\ DOMAIN req' = Requests /\ req' = [s \in Requests |-> req'[s]]
      /\ \A s \in Requests : req'[s] # Idle => "step" \in DOMAIN req'[s]
      /\ \A d \in Owners : Pending(d)' \subseteq Pending(d)
  BY <1>1, Moves
<1>3. CASE UNCHANGED portfolios
  <2>1. Shapes'
    BY <1>1, <1>2, <1>3 DEF Shapes
  <2>2. \A d \in Owners : OwnedBy(d)' = OwnedBy(d)
    BY <1>3 DEF OwnedBy
  <2> QED
    BY <1>1, <1>2, <2>1, <2>2, Shrinks DEF CapInv
<1>4. CASE \E p, time : Touch(p, time)
  <2>1. /\ IsFiniteSet(portfolios') /\ \A row \in portfolios' : "device" \in DOMAIN row
        /\ \A d \in Owners : CountByDevice(d)' <= CountByDevice(d)
                             /\ CountByDevice(d)' \in Nat
    BY <1>1, <1>4, TouchKeepsCount
  <2>2. Shapes'
    BY <1>2, <2>1 DEF Shapes
  <2>3. ASSUME NEW d \in Owners PROVE Reserved(d)'
    <3>1. IsFiniteSet(Pending(d)) /\ Cardinality(Pending(d)) \in Nat
          /\ CountByDevice(d) \in Nat /\ Cardinality(Requests) \in Nat
      BY <1>1, Finite
    <3>2. Cardinality(Pending(d)') <= Cardinality(Pending(d))
          /\ Cardinality(Pending(d)') \in Nat
      BY <1>2, <3>1, FS_Subset, FS_CardinalityType
    <3>3. Reserved(d) /\ PortfolioLimit \in Nat
      BY PaperAssumption DEF CapInv
    <3> QED
      BY <2>1, <3>1, <3>2, <3>3 DEF Reserved
  <2> QED
    BY <2>2, <2>3 DEF CapInv
<1> QED
  BY <1>3, <1>4

LEMMA TradeKeeps ==
  ASSUME CapInv, NEW r \in Requests, TradeStep(r) \/ Abandon(r)
  PROVE  CapInv'
<1>1. Shapes
  BY DEF CapInv
<1>2. ASSUME NEW p \in 1 .. lastPortfolio, NEW order \in Orders,
             ResolvePortfolio(r, p, order)
      PROVE  CapInv'
  BY <1>2, OtherRequestSteps DEF ResolvePortfolio, store
<1>3. CASE LoadTrades(r)
  <2> DEFINE job == [req[r] EXCEPT !.step = "price",
                                   !.pre = ListAllByPortfolio(req[r].portfolio)]
  <2>1. Goes(r, job) /\ UNCHANGED portfolios
    BY <1>3 DEF LoadTrades, store
  <2>2. "step" \in DOMAIN job /\ job.step # "create"
    BY <1>1, <1>3 DEF LoadTrades, At, Shapes
  <2> QED
    BY <2>1, <2>2, OtherRequestSteps
<1>4. ASSUME NEW price \in Prices, Price(r, price) PROVE CapInv'
  <2>1. UNCHANGED portfolios /\ req[r] # Idle /\ "step" \in DOMAIN req[r]
    BY <1>1, <1>4 DEF Price, At, store, Shapes
  <2>2. ASSUME NEW at, Goes(r, [req[r] EXCEPT !.step = "insert", !.price = price,
                                             !.at = at])
        PROVE  CapInv'
    BY <2>1, <2>2, OtherRequestSteps
  <2>3. CASE Goes(r, Idle)
    BY <2>1, <2>3, OtherRequestSteps
  <2> QED
    BY <1>4, <2>2, <2>3 DEF Price
<1>5. CASE Insert(r)
  <2>1. UNCHANGED portfolios /\ req[r] # Idle /\ "step" \in DOMAIN req[r]
    BY <1>1, <1>5 DEF Insert, At, Shapes
  <2>2. ASSUME NEW id, Goes(r, [req[r] EXCEPT !.step = "touch", !.id = id])
        PROVE  CapInv'
    BY <2>1, <2>2, OtherRequestSteps
  <2>3. CASE Goes(r, Idle)
    BY <2>1, <2>3, OtherRequestSteps
  <2> QED
    BY <1>5, <2>2, <2>3 DEF Insert
<1>6. CASE TouchPortfolio(r)
  <2>1. req[r] # Idle /\ "step" \in DOMAIN req[r]
    BY <1>1, <1>6 DEF TouchPortfolio, At, Shapes
  <2>2. CASE /\ Touch(req[r].portfolio, req[r].at)
             /\ Goes(r, [req[r] EXCEPT !.step = "respond"])
    BY <2>1, <2>2, OtherRequestSteps
  <2>3. CASE Goes(r, Idle) /\ UNCHANGED portfolios
    BY <2>1, <2>3, OtherRequestSteps
  <2> QED
    BY <1>6, <2>2, <2>3 DEF TouchPortfolio
<1>7. CASE Respond(r) \/ Abandon(r)
  BY <1>7, OtherRequestSteps DEF Respond, Abandon, store
<1> QED
  BY <1>2, <1>3, <1>4, <1>5, <1>6, <1>7 DEF TradeStep

\* Steps on the tables that are no request's.
LEMMA TablesShrink ==
  ASSUME CapInv, UNCHANGED req,
         UNCHANGED portfolios \/ \E rows : DeletePortfolios(rows)
  PROVE  CapInv'
<1>1. Shapes
  BY DEF CapInv
<1>2. /\ IsFiniteSet(portfolios') /\ \A row \in portfolios' : "device" \in DOMAIN row
      /\ \A d \in Owners : OwnedBy(d)' \subseteq OwnedBy(d)
  <2>1. CASE UNCHANGED portfolios
    BY <1>1, <2>1 DEF Shapes, OwnedBy
  <2>2. CASE \E rows : DeletePortfolios(rows)
    BY <1>1, <2>2, DeleteTakesAway
  <2> QED
    BY <2>1, <2>2
<1>3. Shapes'
  BY <1>1, <1>2 DEF Shapes
<1>4. \A d \in Owners : Pending(d)' = Pending(d)
  BY DEF Pending, At
<1> QED
  BY <1>1, <1>2, <1>3, <1>4, Shrinks DEF CapInv

LEMMA CapStep == CapInv /\ [Next]_vars => CapInv'
<1> SUFFICES ASSUME CapInv, [Next]_vars PROVE CapInv'
  OBVIOUS
<1>1. ASSUME NEW r \in Requests, PortfolioStep(r) PROVE CapInv'
  BY <1>1, CountPortfoliosKeeps, CreatePortfolioKeeps DEF PortfolioStep
<1>2. ASSUME NEW r \in Requests, TradeStep(r) \/ Abandon(r) PROVE CapInv'
  BY <1>2, TradeKeeps
<1>3. ASSUME NEW p \in 1 .. lastPortfolio, DeletePortfolio(p) PROVE CapInv'
  BY <1>3, TablesShrink DEF DeletePortfolio
<1>4. ASSUME NEW d \in Owners, RegisterDevice(d) PROVE CapInv'
  BY <1>4, TablesShrink DEF RegisterDevice
<1>5. ASSUME NEW d \in Owners, RevokeDevice(d) PROVE CapInv'
  BY <1>5, TablesShrink DEF RevokeDevice
<1>6. CASE UNCHANGED vars
  BY <1>6, TablesShrink DEF vars
<1> QED
  BY <1>1, <1>2, <1>3, <1>4, <1>5, <1>6 DEF Next

\* CountByDevice and Create are two statements, so requests that count at the
\* same time all find room; but each holds at most one place, and the cap is
\* exceeded by no more than the other requests there are.
THEOREM CapTheorem == Spec => []CapBounded
<1>1. Init => CapInv
  BY CapInit
<1>2. CapInv /\ [Next]_vars => CapInv'
  BY CapStep
<1>3. CapInv => CapBounded
  <2> SUFFICES ASSUME CapInv, NEW d \in Owners
               PROVE  CountByDevice(d) <= PortfolioLimit + Cardinality(Requests) - 1
    BY DEF CapBounded
  <2>1. PortfolioLimit \in Nat
    BY PaperAssumption
  <2> QED
    BY <2>1, Finite DEF CapInv, Reserved
<1> QED
  BY <1>1, <1>2, <1>3, PTL DEF Spec

-----------------------------------------------------------------------------
(* What a step does to the tables and to the requests                      *)

JobOK(job) ==
  \/ job = Idle \/ job \in CreateJob
  \/ job \in TradeJob /\ (job.step \in {"insert", "touch", "respond"} => job.price > 0)

\* TypeOK with the keys of the tables and the price check of a trade to insert.
Typed ==
  /\ StoreOK
  /\ DOMAIN req = Requests /\ \A r \in Requests : JobOK(req[r])
  /\ now \in Nat /\ raced \subseteq Nat

\* The trade a request has stored.
TradeOf(job) ==
  [id |-> job.id, portfolio |-> job.portfolio, side |-> job.order.side,
   coin |-> job.order.coin, amount |-> job.order.amount, price |-> job.price,
   executedAt |-> job.at]

Others(r) == \A s \in Requests \ {r} : req'[s] = req[s]

\* A request's trade goes on.
Onward(r, from, to) ==
  /\ Others(r)
  /\ req[r] \in TradeJob /\ req[r].step = from
  /\ req'[r] \in TradeJob /\ req'[r].step = to
  /\ req'[r].portfolio = req[r].portfolio /\ req'[r].balance = req[r].balance
  /\ req'[r].order = req[r].order

\* The trades and the portfolios they belong to stay as they are.
Steady ==
  /\ UNCHANGED <<trades, lastPortfolio, lastTrade, raced>>
  /\ \A row \in portfolios' : Stays(row)

\* No trade goes on; portfolios may come without trades, and go with theirs.
Rests ==
  /\ UNCHANGED <<lastTrade, now, raced>>
  /\ trades' \subseteq trades /\ lastPortfolio <= lastPortfolio'
  /\ \A row \in portfolios' :
       \/ Stays(row)
       \/ row.id = lastPortfolio' /\ lastPortfolio < lastPortfolio' /\ TradesOf(row.id)' = {}
  /\ \A s \in Requests : req'[s] = req[s] \/ req'[s] = Idle \/ req'[s] \in CreateJob

Resolves(r) ==
  /\ Steady /\ Others(r) /\ UNCHANGED now
  /\ req'[r] \in TradeJob /\ req'[r].step = "load" /\ req'[r].order \in Orders
  /\ \E row \in portfolios : req'[r].portfolio = row.id /\ req'[r].balance = row.balance

Loads(r) ==
  /\ Steady /\ Onward(r, "load", "price") /\ UNCHANGED now
  /\ req'[r].pre = ListAllByPortfolio(req[r].portfolio)

Decides(r) ==
  /\ Steady /\ Onward(r, "price", "insert")
  /\ req'[r].pre = req[r].pre
  /\ req'[r].price \in Prices /\ Covers(req'[r], req'[r].price)
  /\ now <= now' /\ req'[r].at = now'

Inserts(r) ==
  /\ Onward(r, "insert", "touch")
  /\ UNCHANGED <<portfolios, lastPortfolio, now>>
  /\ req'[r].pre = req[r].pre /\ req'[r].price = req[r].price /\ req'[r].at = req[r].at
  /\ req'[r].id = lastTrade' /\ lastTrade' = lastTrade + 1
  /\ PortfolioExists(req[r].portfolio)
  /\ LET t == TradeOf(req'[r])
     IN  /\ t \in TradeRow /\ IsPostable(t) /\ t \notin trades
         /\ trades' = trades \cup {t}
         /\ \A p : TradesOf(p)' = IF p = req[r].portfolio THEN TradesOf(p) \cup {t} ELSE TradesOf(p)
  /\ raced' = IF ListAllByPortfolio(req[r].portfolio) = req[r].pre THEN raced
              ELSE raced \cup {req[r].portfolio}

Touches(r) ==
  /\ Steady /\ Onward(r, "touch", "respond") /\ UNCHANGED now
  /\ PostTrades(req'[r]) = PostTrades(req[r]) /\ req'[r].id = req[r].id

Effect ==
  Rests \/ \E r \in Requests :
             Resolves(r) \/ Loads(r) \/ Decides(r) \/ Inserts(r) \/ Touches(r)

-----------------------------------------------------------------------------

LEMMA TypedInit == Init => Typed
<1> SUFFICES ASSUME Init PROVE Typed
  OBVIOUS
<1>1. StoreOK
  BY StoreInit DEF Init
<1> QED
  BY <1>1 DEF Init, Typed, JobOK

LEMMA JobKinds ==
  ASSUME Typed, NEW r \in Requests
  PROVE  /\ At(r, "create") => req[r] \in CreateJob
         /\ \A step \in {"load", "price", "insert", "touch", "respond"} :
              At(r, step) => req[r] \in TradeJob /\ req[r].step = step
         /\ \A step \in {"insert", "touch", "respond"} : At(r, step) => req[r].price > 0
BY DEF Typed, JobOK, At, CreateJob, TradeJob

LEMMA GoesOn ==
  ASSUME Typed, NEW r \in Requests, NEW job, Goes(r, job), JobOK(job)
  PROVE  /\ req'[r] = job /\ Others(r)
         /\ DOMAIN req' = Requests /\ \A s \in Requests : JobOK(req'[s])
<1>1. /\ req'[r] = job /\ Others(r) /\ DOMAIN req' = Requests
  BY DEF Goes, Typed, Others
<1> QED
  BY <1>1 DEF Others, Typed

\* A request ends or is about a new portfolio, with the tables as they were.
LEMMA Ends ==
  ASSUME Typed, NEW r \in Requests, NEW job, Goes(r, job), job = Idle \/ job \in CreateJob,
         UNCHANGED <<store, now, raced>>
  PROVE  Typed' /\ Rests
<1>1. /\ req'[r] = job /\ Others(r)
      /\ DOMAIN req' = Requests /\ \A s \in Requests : JobOK(req'[s])
  BY GoesOn DEF JobOK
<1>2. UNCHANGED <<registered, portfolios, trades, lastPortfolio, lastTrade>>
  BY DEF store
<1>3. StoreOK'
  BY <1>2 DEF Typed, StoreOK, PaperStoreTypeOK, Keyed, KeysHold, PortfolioExists
<1>4. \A row \in portfolios' : Stays(row)
  BY <1>2 DEF Stays, TradesOf
<1>5. lastPortfolio <= lastPortfolio'
  BY <1>2, StoreParts DEF Typed
<1> QED
  BY <1>1, <1>2, <1>3, <1>4, <1>5 DEF Typed, Rests, Others

LEMMA CreateEffect ==
  ASSUME Typed, NEW r \in Requests, CreatePortfolio(r)
  PROVE  Typed' /\ Rests
<1>1. req[r] \in CreateJob /\ Goes(r, Idle)
  BY JobKinds DEF CreatePortfolio
<1>2. CASE CanCreate(req[r].device, req[r].name)
  <2>1. /\ Create(req[r].device, req[r].name, req[r].balance, now)
        /\ UNCHANGED <<registered, trades, lastTrade, now, raced>>
    BY <1>2 DEF CreatePortfolio
  <2>2. /\ req[r].device \in Owners /\ req[r].name \in Names
        /\ req[r].balance \in Nat \ {0} /\ now \in Nat
    BY <1>1 DEF CreateJob, Typed
  <2>3. /\ StoreOK' /\ lastPortfolio' = lastPortfolio + 1
        /\ \A row \in portfolios' :
             Stays(row) \/ (row.id = lastPortfolio' /\ TradesOf(row.id)' = {})
    BY <1>2, <2>1, <2>2, CreateKeeps DEF Typed
  <2>4. lastPortfolio < lastPortfolio' /\ lastPortfolio <= lastPortfolio'
    BY <2>3, StoreParts DEF Typed
  <2>5. /\ req'[r] = Idle /\ Others(r)
        /\ DOMAIN req' = Requests /\ \A s \in Requests : JobOK(req'[s])
    BY <1>1, GoesOn DEF JobOK
  <2> QED
    BY <2>1, <2>3, <2>4, <2>5 DEF Typed, Rests, Others
<1>3. CASE ~CanCreate(req[r].device, req[r].name)
  BY <1>1, <1>3, Ends DEF CreatePortfolio, store
<1> QED
  BY <1>2, <1>3

LEMMA DeleteEffect ==
  ASSUME Typed, NEW rows \in SUBSET portfolios, DeletePortfolios(rows),
         UNCHANGED <<lastPortfolio, lastTrade, req, now, raced>>, registered' \subseteq Owners,
         \A row \in portfolios \ rows : row.device \in registered'
  PROVE  Typed' /\ Rests
<1>1. StoreOK' /\ trades' \subseteq trades /\ \A row \in portfolios' : Stays(row)
  BY DeleteKeeps DEF Typed
<1>2. lastPortfolio <= lastPortfolio'
  BY StoreParts DEF Typed
<1> QED
  BY <1>1, <1>2 DEF Typed, Rests

\* The tables as they were.
LEMMA StoreSteady ==
  ASSUME Typed, UNCHANGED <<store, raced>>
  PROVE  StoreOK' /\ Steady
<1>1. UNCHANGED <<registered, portfolios, trades, lastPortfolio, lastTrade>>
  BY DEF store
<1>2. StoreOK'
  BY <1>1 DEF Typed, StoreOK, PaperStoreTypeOK, Keyed, KeysHold, PortfolioExists
<1>3. \A row \in portfolios' : Stays(row)
  BY <1>1 DEF Stays, TradesOf
<1> QED
  BY <1>1, <1>2, <1>3 DEF Steady

LEMMA ResolveEffect ==
  ASSUME Typed, NEW r \in Requests, NEW p, NEW order \in Orders, ResolvePortfolio(r, p, order)
  PROVE  Typed' /\ Resolves(r)
<1> DEFINE job == [step |-> "load", portfolio |-> p, balance |-> PortfolioOf(p).balance,
                   order |-> order, pre |-> <<>>, price |-> 0, at |-> 0, id |-> 0]
<1>1. Goes(r, job) /\ UNCHANGED <<store, now, raced>> /\ PortfolioExists(p)
  BY DEF ResolvePortfolio
<1>2. PortfolioOf(p) \in portfolios /\ PortfolioOf(p).id = p
  BY <1>1, PortfolioOfRow DEF Typed
<1>3. p \in Nat /\ PortfolioOf(p).balance \in Nat \ {0}
  BY <1>2, StoreParts DEF Typed, PortfolioRow
<1>4. job \in TradeJob
  BY <1>3, PaperAssumption DEF TradeJob
<1>5. /\ job.step = "load" /\ job.portfolio = p /\ job.balance = PortfolioOf(p).balance
      /\ job.order \in Orders
  OBVIOUS
<1> HIDE DEF job
<1>6. /\ req'[r] = job /\ Others(r)
      /\ DOMAIN req' = Requests /\ \A s \in Requests : JobOK(req'[s])
  BY <1>1, <1>4, <1>5, GoesOn DEF JobOK
<1> QED
  BY <1>1, <1>2, <1>4, <1>5, <1>6, StoreSteady DEF Typed, Resolves

LEMMA LoadEffect ==
  ASSUME Typed, NEW r \in Requests, LoadTrades(r)
  PROVE  Typed' /\ Loads(r)
<1> DEFINE job == req[r]
           list == ListAllByPortfolio(job.portfolio)
           next == [job EXCEPT !.step = "price", !.pre = list]
<1>1. job \in TradeJob /\ job.step = "load"
  BY JobKinds DEF LoadTrades
<1>2. list \in Seq(TradeRow)
  BY Histories DEF Typed
<1>3. Goes(r, next) /\ UNCHANGED <<store, now, raced>>
  BY DEF LoadTrades
<1> HIDE DEF job, list
<1>4. /\ next \in TradeJob /\ next.step = "price" /\ next.pre = list
      /\ next.portfolio = job.portfolio /\ next.balance = job.balance /\ next.order = job.order
  BY <1>1, <1>2 DEF TradeJob
<1> HIDE DEF next
<1>5. /\ req'[r] = next /\ Others(r)
      /\ DOMAIN req' = Requests /\ \A s \in Requests : JobOK(req'[s])
  BY <1>3, <1>4, GoesOn DEF JobOK
<1>6. Onward(r, "load", "price")
  BY <1>1, <1>4, <1>5 DEF Onward, job
<1> QED
  BY <1>3, <1>4, <1>5, <1>6, StoreSteady DEF Typed, Loads, list, job

LEMMA PriceEffect ==
  ASSUME Typed, NEW r \in Requests, NEW price \in Prices, Price(r, price)
  PROVE  Typed' /\ (Rests \/ Decides(r))
<1> DEFINE job == req[r]
           next == [job EXCEPT !.step = "insert", !.price = price, !.at = now']
<1>1. job \in TradeJob /\ job.step = "price" /\ UNCHANGED <<store, raced>>
  BY JobKinds DEF Price
<1>2. price \in Nat /\ now \in Nat
  BY PaperAssumption DEF Typed
<1>3. CASE Usable(price) /\ Covers(job, price)
  <2>1. Goes(r, next) /\ now' \in {now, now + 1} /\ price > 0
    BY <1>3 DEF Price, Usable
  <2>2. now' \in Nat /\ now <= now'
    BY <1>2, <2>1
  <2>3. Covers(job, price)
    BY <1>3
  <2> HIDE DEF job
  <2>4. /\ next \in TradeJob /\ next.step = "insert" /\ next.price = price /\ next.at = now'
        /\ next.pre = job.pre /\ next.portfolio = job.portfolio
        /\ next.balance = job.balance /\ next.order = job.order
    BY <1>1, <1>2, <2>2 DEF TradeJob
  <2> HIDE DEF next
  <2>5. Covers(next, next.price)
    BY <2>3, <2>4 DEF Covers
  <2>6. /\ req'[r] = next /\ Others(r)
        /\ DOMAIN req' = Requests /\ \A s \in Requests : JobOK(req'[s])
    BY <2>1, <2>2, <2>4, GoesOn DEF JobOK
  <2>7. Onward(r, "price", "insert")
    BY <1>1, <2>4, <2>6 DEF Onward, job
  <2> QED
    BY <1>1, <2>2, <2>4, <2>5, <2>6, <2>7, StoreSteady DEF Typed, Decides, job
<1>4. CASE ~(Usable(price) /\ Covers(job, price))
  <2>1. Goes(r, Idle) /\ UNCHANGED <<store, now, raced>>
    BY <1>4 DEF Price
  <2> QED
    BY <2>1, Ends
<1> QED
  BY <1>3, <1>4

LEMMA InsertEffect ==
  ASSUME Typed, NEW r \in Requests, Insert(r)
  PROVE  Typed' /\ (Rests \/ Inserts(r))
<1>1. req[r] \in TradeJob /\ req[r].step = "insert" /\ req[r].price > 0
  BY JobKinds DEF Insert
<1>2. CASE ~PortfolioExists(req[r].portfolio)
  <2>1. Goes(r, Idle) /\ UNCHANGED <<store, now, raced>>
    BY <1>2 DEF Insert, store
  <2> QED
    BY <2>1, Ends
<1>3. ASSUME NEW job, job = req[r], PortfolioExists(job.portfolio)
      PROVE  Typed' /\ Inserts(r)
  <2> DEFINE entry == Entry(job.order, job.price)
             next == [job EXCEPT !.step = "touch", !.id = lastTrade']
             t == [id |-> lastTrade + 1, portfolio |-> job.portfolio, side |-> entry.side,
                   coin |-> entry.coin, amount |-> entry.amount, price |-> entry.price,
                   executedAt |-> job.at]
  <2>1. /\ InsertTrade(job.portfolio, entry, job.at)
        /\ Goes(r, next)
        /\ raced' = IF ListAllByPortfolio(job.portfolio) = job.pre THEN raced
                    ELSE raced \cup {job.portfolio}
        /\ UNCHANGED <<registered, portfolios, lastPortfolio, now>>
    BY <1>3 DEF Insert
  <2>2. /\ job \in TradeJob /\ job.step = "insert" /\ job.price \in Nat \ {0}
        /\ job.order \in OrderType /\ job.at \in Nat /\ job.portfolio \in Nat
    BY <1>1, <1>3 DEF TradeJob
  <2>3. IsPostable(entry)
    BY <2>2 DEF IsPostable, Entry, OrderType
  <2>4. /\ StoreOK' /\ lastTrade' = lastTrade + 1
        /\ t \in TradeRow /\ IsPostable(t) /\ t \notin trades
        /\ trades' = trades \cup {t}
    <3> HIDE DEF entry, next
    <3> QED
      BY <1>3, <2>1, <2>2, <2>3, InsertKeeps DEF Typed
  <2>5. lastTrade' \in Nat
    BY <2>4, StoreParts DEF Typed
  <2>6. /\ next \in TradeJob /\ next.step = "touch" /\ next.id = lastTrade'
        /\ next.pre = job.pre /\ next.price = job.price /\ next.at = job.at
        /\ next.portfolio = job.portfolio /\ next.balance = job.balance
        /\ next.order = job.order
    <3> HIDE DEF entry, t
    <3> QED
      BY <2>2, <2>5 DEF TradeJob
  <2>7. t = TradeOf(next) /\ t.portfolio = job.portfolio
    <3> HIDE DEF next
    <3> QED
      BY <2>4, <2>6 DEF TradeOf, Entry
  <2> HIDE DEF next, t, entry
  <2>8. \A p : TradesOf(p)' = IF p = job.portfolio THEN TradesOf(p) \cup {t} ELSE TradesOf(p)
    BY <2>4, <2>7 DEF TradesOf
  <2>9. /\ req'[r] = next /\ Others(r)
        /\ DOMAIN req' = Requests /\ \A s \in Requests : JobOK(req'[s])
    BY <2>1, <2>2, <2>6, GoesOn DEF JobOK
  <2>10. Onward(r, "insert", "touch")
    BY <1>3, <2>2, <2>6, <2>9 DEF Onward
  <2>11. raced' \subseteq Nat
    BY <2>1, <2>2 DEF Typed
  <2>12. Typed'
    BY <2>1, <2>4, <2>9, <2>11 DEF Typed
  <2>13. Inserts(r)
    BY <1>3, <2>1, <2>4, <2>6, <2>7, <2>8, <2>9, <2>10 DEF Inserts
  <2> QED
    BY <2>12, <2>13
<1> QED
  BY <1>2, <1>3

LEMMA TouchEffect ==
  ASSUME Typed, NEW r \in Requests, TouchPortfolio(r)
  PROVE  Typed' /\ (Rests \/ Touches(r))
<1>1. req[r] \in TradeJob /\ req[r].step = "touch" /\ req[r].price > 0
  BY JobKinds DEF TouchPortfolio
<1>2. CASE ~PortfolioExists(req[r].portfolio)
  <2>1. Goes(r, Idle) /\ UNCHANGED <<store, now, raced>>
    BY <1>2 DEF TouchPortfolio, store
  <2> QED
    BY <2>1, Ends
<1>3. CASE PortfolioExists(req[r].portfolio)
  <2> DEFINE job == req[r]
             next == [job EXCEPT !.step = "respond"]
  <2>1. /\ Touch(job.portfolio, job.at) /\ Goes(r, next)
        /\ UNCHANGED <<registered, trades, lastPortfolio, lastTrade, now, raced>>
    BY <1>3 DEF TouchPortfolio
  <2>2. job.at \in Nat /\ job \in TradeJob /\ job.step = "touch" /\ job.price > 0
    BY <1>1 DEF TradeJob
  <2>3. StoreOK' /\ \A row \in portfolios' : Stays(row)
    <3> HIDE DEF next
    <3> QED
      BY <2>1, <2>2, TouchKeeps DEF Typed
  <2> HIDE DEF job
  <2>4. /\ next \in TradeJob /\ next.step = "respond" /\ next.id = job.id
        /\ next.pre = job.pre /\ next.price = job.price /\ next.at = job.at
        /\ next.portfolio = job.portfolio /\ next.balance = job.balance
        /\ next.order = job.order
    BY <2>2 DEF TradeJob
  <2> HIDE DEF next
  <2>5. PostTrades(next) = PostTrades(job)
    BY <2>4 DEF PostTrades
  <2>6. /\ req'[r] = next /\ Others(r)
        /\ DOMAIN req' = Requests /\ \A s \in Requests : JobOK(req'[s])
    BY <2>1, <2>2, <2>4, GoesOn DEF JobOK
  <2>7. Onward(r, "touch", "respond")
    BY <2>2, <2>4, <2>6 DEF Onward, job
  <2>8. Touches(r)
    BY <2>1, <2>3, <2>4, <2>5, <2>6, <2>7 DEF Touches, Steady, job
  <2> QED
    BY <2>1, <2>3, <2>6, <2>8 DEF Typed
<1> QED
  BY <1>2, <1>3

LEMMA TypedStep ==
  ASSUME Typed, [Next]_vars
  PROVE  Typed' /\ Effect
<1>1. ASSUME NEW r \in Requests, NEW d \in Owners, NEW name \in Names,
             NEW balance \in Balances, CountPortfolios(r, d, name, balance)
      PROVE  Typed' /\ Rests
  <2> DEFINE job == [step |-> "create", device |-> d, name |-> name, balance |-> balance]
  <2>1. job \in CreateJob
    BY PaperAssumption DEF CreateJob
  <2>2. Goes(r, job) /\ UNCHANGED <<store, now, raced>>
    BY <1>1 DEF CountPortfolios
  <2> QED
    BY <2>1, <2>2, Ends
<1>2. ASSUME NEW r \in Requests, PortfolioStep(r) PROVE Typed' /\ Effect
  BY <1>1, <1>2, CreateEffect DEF PortfolioStep, Effect
<1>3. ASSUME NEW r \in Requests, TradeStep(r) PROVE Typed' /\ Effect
  <2>1. ASSUME NEW p, NEW order \in Orders, ResolvePortfolio(r, p, order)
        PROVE  Typed' /\ Effect
    BY <2>1, ResolveEffect DEF Effect
  <2>2. ASSUME LoadTrades(r) PROVE Typed' /\ Effect
    BY <2>2, LoadEffect DEF Effect
  <2>3. ASSUME NEW price \in Prices, Price(r, price) PROVE Typed' /\ Effect
    BY <2>3, PriceEffect DEF Effect
  <2>4. ASSUME Insert(r) PROVE Typed' /\ Effect
    BY <2>4, InsertEffect DEF Effect
  <2>5. ASSUME TouchPortfolio(r) PROVE Typed' /\ Effect
    BY <2>5, TouchEffect DEF Effect
  <2>6. ASSUME Respond(r) PROVE Typed' /\ Effect
    BY <2>6, Ends DEF Respond, Effect
  <2> QED
    BY <1>3, <2>1, <2>2, <2>3, <2>4, <2>5, <2>6 DEF TradeStep
<1>4. ASSUME NEW r \in Requests, Abandon(r) PROVE Typed' /\ Effect
  BY <1>4, Ends DEF Abandon, Effect
<1>5. ASSUME NEW p \in 1 .. lastPortfolio, DeletePortfolio(p) PROVE Typed' /\ Effect
  <2>1. {PortfolioOf(p)} \in SUBSET portfolios
    BY <1>5, PortfolioOfRow DEF DeletePortfolio, Typed
  <2>2. \A row \in portfolios : row.device \in registered'
    BY <1>5 DEF DeletePortfolio, Typed, StoreOK, Keyed, KeysHold
  <2> QED
    BY <1>5, <2>1, <2>2, StoreParts, DeleteEffect DEF DeletePortfolio, Typed, Effect
<1>6. ASSUME NEW d \in Owners, RevokeDevice(d) PROVE Typed' /\ Effect
  <2>1. OwnedBy(d) \in SUBSET portfolios /\ registered' \subseteq Owners
    BY <1>6, StoreParts DEF RevokeDevice, OwnedBy, Typed
  <2>2. \A row \in portfolios \ OwnedBy(d) : row.device \in registered'
    BY <1>6 DEF RevokeDevice, OwnedBy, Typed, StoreOK, Keyed, KeysHold
  <2> QED
    BY <1>6, <2>1, <2>2, DeleteEffect DEF RevokeDevice, Effect
<1>7. ASSUME NEW d \in Owners, RegisterDevice(d) PROVE Typed' /\ Effect
  <2>1. /\ UNCHANGED <<portfolios, trades, lastPortfolio, lastTrade, req, now, raced>>
        /\ registered' \subseteq Owners
    BY <1>7, StoreParts DEF RegisterDevice, Typed
  <2>2. StoreOK'
    <3>1. PaperStoreTypeOK' /\ IsFiniteSet(portfolios') /\ IsFiniteSet(trades')
      BY <2>1 DEF Typed, StoreOK, PaperStoreTypeOK
    <3>2. registered \subseteq registered'
      BY <1>7 DEF RegisterDevice
    <3>3. Keyed'
      BY <2>1, <3>2 DEF Typed, StoreOK, Keyed, KeysHold, PortfolioExists
    <3> QED
      BY <3>1, <3>3 DEF StoreOK
  <2>3. \A row \in portfolios' : Stays(row)
    BY <2>1 DEF Stays, TradesOf
  <2>4. lastPortfolio <= lastPortfolio'
    BY <2>1, StoreParts DEF Typed
  <2> QED
    BY <2>1, <2>2, <2>3, <2>4 DEF Typed, Effect, Rests
<1>8. CASE UNCHANGED vars
  <2>1. StoreOK' /\ Steady
    BY <1>8, StoreSteady DEF vars, store
  <2>2. lastPortfolio <= lastPortfolio'
    BY <1>8, StoreParts DEF Typed, vars
  <2> QED
    BY <1>8, <2>1, <2>2 DEF vars, Typed, Effect, Rests, Steady
<1> QED
  BY <1>2, <1>3, <1>4, <1>5, <1>6, <1>7, <1>8 DEF Next

LEMMA TypedSpec == Spec => []Typed
<1>1. Init => Typed
  BY TypedInit
<1>2. Typed /\ [Next]_vars => Typed'
  BY TypedStep
<1> QED
  BY <1>1, <1>2, PTL DEF Spec

\* What the rows and the handlers' variables hold, a trade's price above zero
\* included, however the requests interleave; and the schema's keys hold: ids and
\* the names of a device are not given twice, no portfolio outlives its device
\* and no trade its portfolio.
THEOREM PaperTypes == Spec => []TypeOK
<1>1. Typed => TypeOK
  BY DEF Typed, JobOK, TypeOK, StoreOK, Keyed
<1> QED
  BY <1>1, TypedSpec, PTL

-----------------------------------------------------------------------------
(* The invariants of the requests and the histories                        *)

TradeAt(r, steps) == req[r] \in TradeJob /\ req[r].step \in steps

\* Ids are not given twice, so that what a request knows of its portfolio stays
\* true while there is one of that id.
Agreed ==
  \A r \in Requests : req[r] \in TradeJob =>
    /\ req[r].portfolio <= lastPortfolio
    /\ \A row \in portfolios :
         row.id = req[r].portfolio => row.balance = req[r].balance

\* Neither a stored trade nor a loaded one is from the future, and an order is
\* decided no earlier than what was loaded for it.
Timed ==
  /\ \A t \in trades : t.executedAt <= now
  /\ \A r \in Requests :
       /\ TradeAt(r, {"price", "insert"}) =>
            \A i \in DOMAIN req[r].pre :
              req[r].pre[i].id <= lastTrade /\ req[r].pre[i].executedAt <= now
       /\ TradeAt(r, {"insert"}) =>
            /\ req[r].at <= now
            /\ \A i \in DOMAIN req[r].pre : req[r].pre[i].executedAt <= req[r].at

\* What a request answers was the history when its trade went in.
Prefixed ==
  \A r \in Requests :
    TradeAt(r, {"touch", "respond"}) /\ PortfolioExists(req[r].portfolio)
      /\ req[r].portfolio \notin raced
    => IsPrefix(PostTrades(req[r]), ListAllByPortfolio(req[r].portfolio))

\* An order is one that clients ask for, at a price that was quoted.
Asked ==
  \A r \in Requests : req[r] \in TradeJob =>
    req[r].order \in Orders /\ (req[r].step = "insert" => req[r].price \in Prices)

\* And so is a trade.
Sized == \A t \in trades : t.amount <= Max(Amounts) /\ t.price <= Max(Quotes)

\* Those of a portfolio's trades that there were when k was the last trade
\* inserted, and what a request saw then with its own.
StoredBy(ts, k) == {t \in ts : t.id <= k}
Seen(ts, id, k) == {t \in ts : t.id <= k \/ t.id = id}

\* What a request loaded is the history as it was at one moment, and what it
\* answers is that and its own trade.
Past ==
  \A r \in Requests :
    /\ TradeAt(r, {"price", "insert"}) /\ PortfolioExists(req[r].portfolio) =>
         \E k \in 0 .. lastTrade : req[r].pre = InOrder(StoredBy(TradesOf(req[r].portfolio), k))
    /\ TradeAt(r, {"touch", "respond"}) /\ PortfolioExists(req[r].portfolio) =>
         /\ req[r].id <= lastTrade
         /\ \E k \in 0 .. req[r].id - 1 :
              PostTrades(req[r]) = InOrder(Seen(TradesOf(req[r].portfolio), req[r].id, k))

\* The books of portfolios without a trade on a stale ledger are off by no more
\* than the tolerance, and an order to insert is paid for by what was loaded.
Kept ==
  /\ \A row \in portfolios : row.id \notin raced =>
       /\ Books(row.balance, ListAllByPortfolio(row.id), Epsilon, Max(Quotes))
       /\ Compute(row.balance, ListAllByPortfolio(row.id)).cash >= -Epsilon
  /\ \A r \in Requests : TradeAt(r, {"insert"}) => Covers(req[r], req[r].price)

\* The most a request may still take out of a portfolio's cash: what it saw
\* there and the tolerance, up to the dearest order, and then the cost of its own
\* order.
Spendable(cash) ==
  LET most == cash + Epsilon
  IN  IF most < 0 THEN 0 ELSE IF most < Max(Costs) THEN most ELSE Max(Costs)
Claim(job, p) ==
  IF job \in TradeJob /\ job.portfolio = p /\ job.step = "price"
    THEN Spendable(Compute(job.balance, job.pre).cash)
  ELSE IF job \in TradeJob /\ job.portfolio = p /\ job.step = "insert" /\ job.order.side = "buy"
    THEN job.order.amount * job.price
  ELSE 0
Claims(p) == SumFunctionOnSet([r \in Requests |-> Claim(req[r], p)], Requests)

\* All claims together overdraw by the dearest order for each other request and
\* the tolerance.
Claimed ==
  \A row \in portfolios :
    NetCash(row.balance, TradesOf(row.id)) - Claims(row.id)
      >= -((Cardinality(Requests) - 1) * Max(Costs)) - Epsilon

-----------------------------------------------------------------------------

\* A request that is trading after a step was doing so before it.
LEMMA RestsJobs ==
  ASSUME Rests, NEW r \in Requests, req'[r] \in TradeJob
  PROVE  req'[r] = req[r] /\ req[r] \in TradeJob
<1>1. req'[r] # Idle /\ req'[r] \notin CreateJob
  BY PaperAssumption DEF CreateJob, TradeJob
<1> QED
  BY <1>1 DEF Rests

\* The portfolio of such a request is none that has just come.
LEMMA RestsPortfolios ==
  ASSUME Typed, Agreed, Rests, NEW r \in Requests, req'[r] \in TradeJob,
         NEW row \in portfolios', row.id = req[r].portfolio
  PROVE  Stays(row)
<1>1. req[r] \in TradeJob /\ req[r].portfolio <= lastPortfolio
  BY RestsJobs DEF Agreed
<1>2. req[r].portfolio \in Nat /\ lastPortfolio \in Nat
  BY <1>1, StoreParts DEF Typed, TradeJob
<1>3. Stays(row) \/ (row.id = lastPortfolio' /\ lastPortfolio < lastPortfolio')
  BY DEF Rests
<1> QED
  BY <1>1, <1>2, <1>3

LEMMA AgreedInit == Init => Agreed
BY PaperAssumption DEF Init, Agreed

LEMMA AgreedStep ==
  ASSUME Typed, Typed', Agreed, Effect
  PROVE  Agreed'
<1> SUFFICES ASSUME NEW r \in Requests, req'[r] \in TradeJob
             PROVE  /\ req'[r].portfolio <= lastPortfolio'
                    /\ \A row \in portfolios' :
                         row.id = req'[r].portfolio => row.balance = req'[r].balance
  BY DEF Agreed
<1>1. ASSUME req[r] \in TradeJob, req'[r].portfolio = req[r].portfolio,
             req'[r].balance = req[r].balance, lastPortfolio <= lastPortfolio',
             \A row \in portfolios' : row.id = req[r].portfolio => Stays(row)
      PROVE  /\ req'[r].portfolio <= lastPortfolio'
             /\ \A row \in portfolios' :
                  row.id = req'[r].portfolio => row.balance = req'[r].balance
  <2>1. /\ req[r].portfolio <= lastPortfolio
        /\ \A row \in portfolios : row.id = req[r].portfolio => row.balance = req[r].balance
    BY <1>1 DEF Agreed
  <2>2. req[r].portfolio \in Nat /\ lastPortfolio \in Nat /\ lastPortfolio' \in Nat
    BY <1>1, StoreParts DEF Typed, TradeJob, StoreOK, PaperStoreTypeOK
  <2>3. req'[r].portfolio <= lastPortfolio'
    BY <1>1, <2>1, <2>2
  <2> QED
    BY <1>1, <2>1, <2>3 DEF Stays
<1>2. CASE Rests
  <2>1. req'[r] = req[r] /\ req[r] \in TradeJob /\ lastPortfolio <= lastPortfolio'
    BY <1>2, RestsJobs DEF Rests
  <2>2. \A row \in portfolios' : row.id = req[r].portfolio => Stays(row)
    BY <1>2, RestsPortfolios
  <2> QED
    BY <1>1, <2>1, <2>2
<1>3. ASSUME NEW s \in Requests, Resolves(s) PROVE Agreed'
  <2>1. Steady /\ lastPortfolio' = lastPortfolio /\ \A row \in portfolios' : Stays(row)
    BY <1>3 DEF Resolves, Steady
  <2> SUFFICES ASSUME NEW q \in Requests, req'[q] \in TradeJob
               PROVE  /\ req'[q].portfolio <= lastPortfolio'
                      /\ \A row \in portfolios' :
                           row.id = req'[q].portfolio => row.balance = req'[q].balance
    BY DEF Agreed
  <2>2. CASE q = s
    <3>1. PICK row \in portfolios : req'[q].portfolio = row.id /\ req'[q].balance = row.balance
      BY <1>3, <2>2 DEF Resolves
    <3>2. row.id <= lastPortfolio /\ \A other \in portfolios : other.id = row.id => other = row
      BY DEF Typed, StoreOK, Keyed, KeysHold
    <3> QED
      BY <2>1, <3>1, <3>2 DEF Stays
  <2>3. CASE q # s
    <3>1. req'[q] = req[q]
      BY <1>3, <2>3 DEF Resolves, Others
    <3> QED
      BY <2>1, <3>1 DEF Stays, Agreed
  <2> QED
    BY <2>2, <2>3
<1>4. ASSUME NEW s \in Requests, Loads(s) \/ Decides(s) \/ Inserts(s) \/ Touches(s)
      PROVE  /\ req'[r].portfolio <= lastPortfolio'
             /\ \A row \in portfolios' :
                  row.id = req'[r].portfolio => row.balance = req'[r].balance
  <2>1. /\ req[r] \in TradeJob /\ req'[r].portfolio = req[r].portfolio
        /\ req'[r].balance = req[r].balance
    <3>1. Others(s) /\ \E from, to : Onward(s, from, to)
      BY <1>4 DEF Loads, Decides, Inserts, Touches, Onward
    <3>2. CASE r = s
      BY <3>1, <3>2 DEF Onward
    <3>3. CASE r # s
      BY <3>1, <3>3 DEF Others
    <3> QED
      BY <3>2, <3>3
  <2>2. lastPortfolio' = lastPortfolio
    BY <1>4 DEF Loads, Decides, Inserts, Touches, Steady
  <2>3. \A row \in portfolios' : \E old \in portfolios : old.id = row.id /\ old.balance = row.balance
    BY <1>4 DEF Loads, Decides, Inserts, Touches, Steady, Stays
  <2>4. /\ req[r].portfolio <= lastPortfolio
        /\ \A row \in portfolios : row.id = req[r].portfolio => row.balance = req[r].balance
    BY <2>1 DEF Agreed
  <2> QED
    BY <2>1, <2>2, <2>3, <2>4
<1> QED
  BY <1>2, <1>3, <1>4 DEF Effect, Agreed

-----------------------------------------------------------------------------
(* The orders *)

LEMMA AskedInit == Init => Asked
BY PaperAssumption DEF Init, Asked, TradeJob

LEMMA AskedStep ==
  ASSUME Asked, Effect
  PROVE  Asked'
<1> SUFFICES ASSUME NEW s \in Requests, req'[s] \in TradeJob
             PROVE  /\ req'[s].order \in Orders
                    /\ req'[s].step = "insert" => req'[s].price \in Prices
  BY DEF Asked
<1>1. CASE req'[s] = req[s]
  BY <1>1 DEF Asked
<1>2. CASE Rests
  BY <1>1, <1>2, RestsJobs
<1>3. CASE Resolves(s)
  BY <1>3 DEF Resolves
<1>4. CASE Loads(s) \/ Decides(s) \/ Inserts(s) \/ Touches(s)
  BY <1>4 DEF Loads, Decides, Inserts, Touches, Onward, Asked
<1> QED
  BY <1>1, <1>2, <1>3, <1>4
     DEF Effect, Resolves, Loads, Decides, Inserts, Touches, Onward, Others

LEMMA LargestOf ==
  ASSUME NEW sizes \in SUBSET Nat, \E largest \in sizes : \A size \in sizes : size <= largest
  PROVE  Max(sizes) \in Nat /\ Max(sizes) \in sizes /\ \A size \in sizes : size <= Max(sizes)
BY DEF Max

\* The dearest order, the largest and the highest price.
LEMMA Largest ==
  /\ Max(Costs) \in Nat /\ Max(Amounts) \in Nat /\ Max(Quotes) \in Nat
  /\ \A order \in Orders, price \in Prices :
       order.amount * price \in Nat /\ order.amount * price <= Max(Costs)
  /\ \A order \in Orders : order.amount <= Max(Amounts)
  /\ \A price \in Prices : price <= Max(Quotes)
<1>1. \A order \in Orders : order.amount \in Nat
  BY PaperAssumption DEF OrderType
<1>2. \A order \in Orders, price \in Prices : order.amount * price \in Nat
  BY <1>1, PaperAssumption
<1>3. Costs \subseteq Nat /\ Amounts \subseteq Nat /\ Quotes \subseteq Nat
  BY <1>1, <1>2, PaperAssumption DEF Costs, Amounts, Quotes
<1>4. ASSUME NEW sizes \in {Costs, Amounts, Quotes}
      PROVE  Max(sizes) \in Nat /\ \A size \in sizes : size <= Max(sizes)
  BY <1>3, SizeAssumption, LargestOf
<1>5. \A order \in Orders, price \in Prices : order.amount * price \in Costs
  BY DEF Costs
<1>6. (\A order \in Orders : order.amount \in Amounts) /\ Prices \subseteq Quotes
  BY DEF Amounts, Quotes
<1> QED
  BY <1>2, <1>4, <1>5, <1>6

LEMMA SizedStep ==
  ASSUME Asked, Sized, Effect
  PROVE  Sized'
<1>1. CASE trades' \subseteq trades
  BY <1>1 DEF Sized
<1>2. ASSUME NEW r \in Requests, Inserts(r) PROVE Sized'
  <2>1. /\ trades' = trades \cup {TradeOf(req'[r])}
        /\ req[r] \in TradeJob /\ req[r].step = "insert"
        /\ req'[r].order = req[r].order /\ req'[r].price = req[r].price
    BY <1>2 DEF Inserts, Onward
  <2>2. req[r].order \in Orders /\ req[r].price \in Prices
    BY <2>1 DEF Asked
  <2>3. /\ TradeOf(req'[r]).amount = req[r].order.amount
        /\ TradeOf(req'[r]).price = req[r].price
    BY <2>1 DEF TradeOf
  <2>4. TradeOf(req'[r]).amount <= Max(Amounts) /\ TradeOf(req'[r]).price <= Max(Quotes)
    BY <2>2, <2>3, Largest
  <2> QED
    BY <2>1, <2>4 DEF Sized
<1> QED
  BY <1>1, <1>2 DEF Effect, Rests, Steady, Resolves, Loads, Decides, Touches

-----------------------------------------------------------------------------
(* The clock *)

LEMMA TimedInit == Init => Timed
BY PaperAssumption DEF Init, PaperStoreInit, Timed, TradeAt, TradeJob

LEMMA LoadedRows ==
  ASSUME NEW job \in TradeJob
  PROVE  /\ job.pre \in Seq(TradeRow) /\ DOMAIN job.pre = 1 .. Len(job.pre)
         /\ \A i \in DOMAIN job.pre :
              IsPostable(job.pre[i]) /\ job.pre[i].id \in Nat /\ job.pre[i].executedAt \in Nat
<1>1. job.pre \in Seq(TradeRow)
  BY DEF TradeJob
<1>2. DOMAIN job.pre = 1 .. Len(job.pre) /\ \A i \in DOMAIN job.pre : job.pre[i] \in TradeRow
  BY <1>1
<1>3. \A t \in TradeRow : IsPostable(t) /\ t.id \in Nat /\ t.executedAt \in Nat
  BY DEF TradeRow, IsPostable
<1> QED
  BY <1>1, <1>2, <1>3

\* A request's part of Timed.
TimedJob(job, last, time) ==
  /\ job \in TradeJob /\ job.step \in {"price", "insert"} =>
       \A i \in DOMAIN job.pre : job.pre[i].id <= last /\ job.pre[i].executedAt <= time
  /\ job \in TradeJob /\ job.step = "insert" =>
       job.at <= time /\ \A i \in DOMAIN job.pre : job.pre[i].executedAt <= job.at

\* The clock and the ids only grow.
LEMMA TimedLater ==
  ASSUME NEW job, NEW last \in Nat, NEW next \in Nat, last <= next,
         NEW time \in Nat, NEW later \in Nat, time <= later, TimedJob(job, last, time)
  PROVE  TimedJob(job, next, later)
<1> SUFFICES ASSUME job \in TradeJob, job.step \in {"price", "insert"}
             PROVE  /\ \A i \in DOMAIN job.pre :
                         job.pre[i].id <= next /\ job.pre[i].executedAt <= later
                    /\ job.step = "insert" => job.at <= later
  BY DEF TimedJob
<1>1. job.at \in Nat
  BY DEF TradeJob
<1>2. \A i \in DOMAIN job.pre : job.pre[i].id \in Nat /\ job.pre[i].executedAt \in Nat
  BY LoadedRows
<1> QED
  BY <1>1, <1>2 DEF TimedJob

LEMMA TimedStep ==
  ASSUME Typed, Typed', Timed, Effect
  PROVE  Timed'
<1>1. /\ \A t \in trades : t.executedAt <= now /\ t.executedAt \in Nat
      /\ \A r \in Requests : TimedJob(req[r], lastTrade, now)
  BY StoreParts DEF Timed, TimedJob, TradeAt, Typed
<1>2. now \in Nat /\ now' \in Nat /\ lastTrade \in Nat /\ lastTrade' \in Nat
  BY DEF Typed, StoreOK, PaperStoreTypeOK
<1>3. now <= now' /\ lastTrade <= lastTrade'
  <2>1. now' = now \/ now <= now'
    BY DEF Effect, Rests, Resolves, Loads, Decides, Inserts, Touches
  <2>2. lastTrade' = lastTrade \/ lastTrade' = lastTrade + 1
    BY DEF Effect, Rests, Steady, Resolves, Loads, Decides, Inserts, Touches
  <2> QED
    BY <1>2, <2>1, <2>2
<1>4. \A t \in trades' : t.executedAt <= now'
  <2>1. CASE trades' \subseteq trades
    BY <1>1, <1>2, <1>3, <2>1
  <2>2. ASSUME NEW r \in Requests, Inserts(r) PROVE \A t \in trades' : t.executedAt <= now'
    <3>1. req[r] \in TradeJob /\ req[r].step = "insert" /\ req'[r].at = req[r].at /\ now' = now
      BY <2>2 DEF Inserts, Onward
    <3>2. trades' = trades \cup {TradeOf(req'[r])} /\ TradeOf(req'[r]).executedAt = req'[r].at
      BY <2>2 DEF Inserts, TradeOf
    <3>3. req[r].at <= now
      BY <1>1, <3>1 DEF TimedJob
    <3> QED
      BY <1>1, <3>1, <3>2, <3>3
  <2> QED
    BY <2>1, <2>2 DEF Effect, Rests, Steady, Resolves, Loads, Decides, Touches
<1>5. ASSUME NEW s \in Requests PROVE TimedJob(req'[s], lastTrade', now')
  <2>1. CASE req'[s] = req[s]
    BY <1>1, <1>2, <1>3, <2>1, TimedLater
  <2>2. CASE req'[s] = Idle \/ req'[s] \in CreateJob
    BY <2>2, PaperAssumption DEF TimedJob, CreateJob, TradeJob
  <2>3. CASE Resolves(s) \/ Inserts(s) \/ Touches(s)
    BY <2>3 DEF Resolves, Inserts, Touches, Onward, TimedJob
  <2>4. CASE Loads(s)
    <3>1. req'[s].step = "price" /\ req'[s].pre = ListAllByPortfolio(req[s].portfolio)
          /\ UNCHANGED <<now, lastTrade>>
      BY <2>4 DEF Loads, Onward, Steady
    <3>2. ASSUME NEW p, NEW i \in DOMAIN ListAllByPortfolio(p)
          PROVE  ListAllByPortfolio(p)[i] \in trades
      BY Histories DEF RowsOf, Typed
    <3>3. \A t \in trades : t.id <= lastTrade
      BY DEF Typed, StoreOK, Keyed
    <3> QED
      BY <1>1, <3>1, <3>2, <3>3 DEF TimedJob
  <2>5. CASE Decides(s)
    <3>1. /\ req[s] \in TradeJob /\ req[s].step = "price"
          /\ req'[s].step = "insert" /\ req'[s].pre = req[s].pre /\ req'[s].at = now'
          /\ lastTrade' = lastTrade
      BY <2>5 DEF Decides, Onward, Steady
    <3>2. \A i \in DOMAIN req[s].pre : /\ req[s].pre[i].id <= lastTrade
                                       /\ req[s].pre[i].executedAt <= now
      BY <1>1, <3>1 DEF TimedJob
    <3>3. \A i \in DOMAIN req[s].pre : req[s].pre[i].executedAt \in Nat
      BY <3>1, LoadedRows
    <3>4. \A i \in DOMAIN req[s].pre : req[s].pre[i].executedAt <= now'
      BY <1>2, <1>3, <3>2, <3>3
    <3> QED
      BY <1>2, <3>1, <3>2, <3>4 DEF TimedJob
  <2> QED
    BY <2>1, <2>2, <2>3, <2>4, <2>5
       DEF Effect, Rests, Resolves, Loads, Decides, Inserts, Touches, Onward, Others
<1> QED
  BY <1>4, <1>5 DEF Timed, TimedJob, TradeAt

-----------------------------------------------------------------------------
(* The histories *)

\* What a step makes of a portfolio: new, as before, or with one trade more.
LEMMA Fates ==
  ASSUME Typed, Typed', Effect, NEW row \in portfolios'
  PROVE  /\ row.id \notin raced' => row.id \notin raced
         /\ \/ Stays(row)
            \/ TradesOf(row.id)' = {} /\ Rests
            \/ \E r \in Requests :
                 Inserts(r) /\ row.id = req[r].portfolio /\ row \in portfolios
<1>1. row.id \notin raced' => row.id \notin raced
  BY DEF Effect, Rests, Resolves, Loads, Decides, Inserts, Touches, Steady
<1>2. ASSUME NEW r \in Requests, Inserts(r)
      PROVE  Stays(row) \/ (row.id = req[r].portfolio /\ row \in portfolios)
  BY <1>2 DEF Inserts, Stays
<1> QED
  BY <1>1, <1>2 DEF Effect, Rests, Resolves, Loads, Decides, Touches, Steady

\* A trade decided on the history as it is goes to the end of it.
LEMMA UnracedInsert ==
  ASSUME Typed, Timed, NEW r \in Requests, Inserts(r), NEW p, p = req[r].portfolio,
         p \notin raced'
  PROVE  LET t == TradeOf(req'[r])
         IN  /\ req[r].pre = ListAllByPortfolio(p) /\ t \notin TradesOf(p)
             /\ \A u \in TradesOf(p) : u.executedAt <= t.executedAt /\ u.id < t.id
             /\ ListAllByPortfolio(p)' = Append(ListAllByPortfolio(p), t)
             /\ PostTrades(req'[r]) = Append(ListAllByPortfolio(p), t)
<1> DEFINE t == TradeOf(req'[r])
           ts == TradesOf(p)
<1>1. /\ req[r] \in TradeJob /\ req[r].step = "insert"
      /\ req'[r].pre = req[r].pre /\ req'[r].at = req[r].at /\ req'[r].id = lastTrade + 1
      /\ t \in TradeRow /\ TradesOf(p)' = ts \cup {t}
      /\ raced' = IF ListAllByPortfolio(p) = req[r].pre THEN raced ELSE raced \cup {p}
  BY DEF Inserts, Onward
<1>2. req[r].pre = ListAllByPortfolio(p)
  BY <1>1
<1>3. /\ \A i \in DOMAIN req[r].pre : req[r].pre[i].executedAt <= req[r].at
      /\ t.executedAt = req[r].at /\ t.id = lastTrade + 1
  BY <1>1 DEF Timed, TradeAt, TradeOf
<1>4. /\ Sortable(ts) /\ ts \subseteq trades
      /\ RowsOf(ListAllByPortfolio(p)) = ts
  BY Histories DEF Typed
<1>5. \A u \in ts : u.executedAt <= t.executedAt
  BY <1>2, <1>3, <1>4 DEF RowsOf
<1> HIDE DEF t, ts
<1>6. \A u \in ts : u.id < t.id /\ u.id \in Nat /\ u.executedAt \in Nat
  <2>1. \A u \in ts : u.id \in Nat /\ u.executedAt \in Nat /\ u.id <= lastTrade
    BY <1>4, StoreParts DEF Typed, StoreOK, Keyed
  <2>2. lastTrade \in Nat
    BY StoreParts DEF Typed
  <2> QED
    BY <1>3, <2>1, <2>2
<1>7. t.id \in Nat /\ t.executedAt \in Nat
  BY <1>1 DEF TradeRow
<1>8. \A u \in ts : Earlier(u, t)
  BY <1>5, <1>6, <1>7 DEF Earlier
<1>9. Sortable(ts \cup {t})
  <2>1. IsFiniteSet(ts \cup {t})
    BY <1>4, FS_AddElement DEF Sortable
  <2> QED
    BY <1>4, <1>6, <1>7, <2>1 DEF Sortable
<1>10. t \notin ts /\ InOrder(ts \cup {t}) = Append(InOrder(ts), t)
  BY <1>8, <1>9, InOrderAppends
<1>11. ListAllByPortfolio(p)' = Append(ListAllByPortfolio(p), t)
  BY <1>1, <1>10 DEF ListAllByPortfolio, ts
<1>12. PostTrades(req'[r]) = Append(ListAllByPortfolio(p), t)
  BY <1>1, <1>2 DEF PostTrades, TradeOf, t
<1> QED
  BY <1>2, <1>5, <1>6, <1>10, <1>11, <1>12 DEF t, ts

LEMMA HistoryStep ==
  ASSUME Typed, Typed', Timed, HistoryInOrder, Effect
  PROVE  HistoryInOrder'
<1> SUFFICES ASSUME NEW row \in portfolios', row.id \notin raced',
                    NEW t \in TradesOf(row.id)', NEW u \in TradesOf(row.id)', u.id < t.id
             PROVE  u.executedAt <= t.executedAt
  BY DEF HistoryInOrder
<1>1. row.id \notin raced
  BY Fates
<1>2. ASSUME Stays(row) PROVE u.executedAt <= t.executedAt
  BY <1>1, <1>2 DEF Stays, HistoryInOrder
<1>3. ASSUME NEW r \in Requests, Inserts(r), row.id = req[r].portfolio, row \in portfolios
      PROVE  u.executedAt <= t.executedAt
  <2> DEFINE new == TradeOf(req'[r])
             ts == TradesOf(row.id)
  <2>1. /\ TradesOf(row.id)' = ts \cup {new}
        /\ \A v, w \in ts : w.id < v.id => w.executedAt <= v.executedAt
    BY <1>1, <1>3 DEF Inserts, HistoryInOrder
  <2>2. new \in TradeRow /\ \A v \in ts : v.executedAt <= new.executedAt /\ v.id < new.id
    BY <1>3, UnracedInsert DEF Inserts
  <2>3. ts \subseteq trades /\ \A v \in ts : v.id \in Nat
    BY Histories, StoreParts DEF Typed
  <2>4. new.id \in Nat /\ new.executedAt \in Nat
    BY <2>2 DEF TradeRow
  <2> HIDE DEF new, ts
  <2> QED
    BY <2>1, <2>2, <2>3, <2>4
<1> QED
  BY <1>2, <1>3, Fates

LEMMA PrefixOfLonger ==
  ASSUME NEW S, NEW s \in Seq(S), NEW T, NEW t \in Seq(T), NEW x \in T, IsPrefix(s, t)
  PROVE  IsPrefix(s, Append(t, x))
<1>1. Len(s) <= Len(t) /\ SubSeq(s, 1, Len(s)) = SubSeq(t, 1, Len(s))
  BY DEF IsPrefix
<1>2. /\ Append(t, x) \in Seq(T) /\ Len(Append(t, x)) = Len(t) + 1
      /\ \A i \in 1 .. Len(s) : Append(t, x)[i] = t[i]
  BY <1>1
<1>3. SubSeq(Append(t, x), 1, Len(s)) = SubSeq(t, 1, Len(s))
  BY <1>1, <1>2
<1> QED
  BY <1>1, <1>2, <1>3 DEF IsPrefix

LEMMA PostTradesList ==
  ASSUME NEW job \in TradeJob
  PROVE  /\ PostTrades(job) = Append(job.pre, TradeOf(job))
         /\ PostTrades(job) \in Seq(TradeRow \cup {TradeOf(job)})
<1>1. PostTrades(job) = Append(job.pre, TradeOf(job))
  BY DEF PostTrades, TradeOf
<1>2. job.pre \in Seq(TradeRow)
  BY LoadedRows
<1>3. job.pre \in Seq(TradeRow \cup {TradeOf(job)})
  BY <1>2
<1> QED
  BY <1>1, <1>3

LEMMA PrefixedStep ==
  ASSUME Typed, Typed', Agreed, Timed, Prefixed, Effect
  PROVE  Prefixed'
<1> SUFFICES ASSUME NEW s \in Requests, req'[s] \in TradeJob,
                    req'[s].step \in {"touch", "respond"},
                    NEW row \in portfolios', row.id = req'[s].portfolio, row.id \notin raced'
             PROVE  IsPrefix(PostTrades(req'[s]), ListAllByPortfolio(row.id)')
  <2> SUFFICES ASSUME NEW s \in Requests, TradeAt(s, {"touch", "respond"})',
                      PortfolioExists(req[s].portfolio)', req'[s].portfolio \notin raced'
               PROVE  IsPrefix(PostTrades(req[s]), ListAllByPortfolio(req[s].portfolio))'
    BY DEF Prefixed
  <2>1. PICK row \in portfolios' : row.id = req'[s].portfolio
    BY DEF PortfolioExists
  <2>2. IsPrefix(PostTrades(req'[s]), ListAllByPortfolio(row.id)')
    BY <2>1 DEF TradeAt
  <2>3. PostTrades(req[s])' = PostTrades(req'[s])
    BY DEF PostTrades
  <2>4. ListAllByPortfolio(req[s].portfolio)' = ListAllByPortfolio(row.id)'
    BY <2>1 DEF ListAllByPortfolio, TradesOf
  <2> QED
    BY <2>2, <2>3, <2>4 DEF IsPrefix
<1>1. row.id \notin raced
  BY Fates
\* A request that has stored its trade, and the history as it is or longer.
<1>2. ASSUME req[s] \in TradeJob, req[s].step \in {"touch", "respond"},
             req'[s].portfolio = req[s].portfolio, PostTrades(req'[s]) = PostTrades(req[s]),
             \E old \in portfolios : old.id = row.id
      PROVE  IsPrefix(PostTrades(req'[s]), ListAllByPortfolio(row.id)')
  <2>1. IsPrefix(PostTrades(req[s]), ListAllByPortfolio(row.id))
    BY <1>1, <1>2 DEF Prefixed, TradeAt, PortfolioExists
  <2>2. CASE TradesOf(row.id)' = TradesOf(row.id)
    BY <1>2, <2>1, <2>2 DEF ListAllByPortfolio
  <2>3. ASSUME NEW r \in Requests, Inserts(r), row.id = req[r].portfolio
        PROVE  IsPrefix(PostTrades(req'[s]), ListAllByPortfolio(row.id)')
    <3>1. ListAllByPortfolio(row.id)' = Append(ListAllByPortfolio(row.id), TradeOf(req'[r]))
      BY <2>3, UnracedInsert
    <3>2. TradeOf(req'[r]) \in TradeRow
      BY <2>3 DEF Inserts
    <3>3. ListAllByPortfolio(row.id) \in Seq(TradeRow)
      BY Histories DEF Typed
    <3>4. PostTrades(req[s]) \in Seq(TradeRow \cup {TradeOf(req[s])})
      BY <1>2, PostTradesList
    <3> QED
      BY <1>2, <2>1, <3>1, <3>2, <3>3, <3>4, PrefixOfLonger
  <2>4. TradesOf(row.id)' = TradesOf(row.id)
        \/ \E r \in Requests : Inserts(r) /\ row.id = req[r].portfolio
    <3>1. CASE TradesOf(row.id)' = {} /\ Rests
      <4>1. req'[s] = req[s]
        BY <3>1, RestsJobs
      <4> QED
        BY <3>1, <4>1, RestsPortfolios DEF Stays
    <3> QED
      BY <3>1, Fates DEF Stays
  <2> QED
    BY <2>2, <2>3, <2>4
<1>3. CASE Rests
  <2>1. req'[s] = req[s]
    BY <1>3, RestsJobs
  <2>2. Stays(row)
    BY <1>3, <2>1, RestsPortfolios
  <2> QED
    BY <1>2, <2>1, <2>2 DEF Stays
<1>4. ASSUME NEW r \in Requests,
             Resolves(r) \/ Loads(r) \/ Decides(r) \/ Inserts(r) \/ Touches(r)
      PROVE  IsPrefix(PostTrades(req'[s]), ListAllByPortfolio(row.id)')
  <2>1. \E old \in portfolios : old.id = row.id
    BY <1>4 DEF Resolves, Loads, Decides, Inserts, Touches, Steady, Stays
  <2>2. CASE s # r
    <3>1. req'[s] = req[s]
      BY <1>4, <2>2 DEF Resolves, Loads, Decides, Inserts, Touches, Onward, Others
    <3> QED
      BY <1>2, <2>1, <3>1
  <2>3. CASE s = r /\ Touches(r)
    <3>1. /\ req[s] \in TradeJob /\ req[s].step = "touch"
          /\ req'[s].portfolio = req[s].portfolio /\ PostTrades(req'[s]) = PostTrades(req[s])
      BY <2>3 DEF Touches, Onward
    <3> QED
      BY <1>2, <2>1, <3>1
  <2>4. CASE s = r /\ Inserts(r)
    <3>1. row.id = req[r].portfolio
      BY <2>4 DEF Inserts, Onward
    <3>2. PostTrades(req'[s]) = ListAllByPortfolio(row.id)'
      BY <2>4, <3>1, UnracedInsert
    <3> QED
      BY <3>2 DEF IsPrefix
  <2> QED
    BY <1>4, <2>2, <2>3, <2>4 DEF Resolves, Loads, Decides, Onward
<1> QED
  BY <1>3, <1>4 DEF Effect

-----------------------------------------------------------------------------
(* What a request saw *)

\* While a portfolio lasts, its trades up to now stay what they are: those to
\* come have higher ids.
LEMMA StoredNow ==
  ASSUME Typed, Agreed, Effect, NEW row \in portfolios',
         \A r \in Requests : Rests => Stays(row)
  PROVE  /\ PortfolioExists(row.id)
         /\ \A t \in TradesOf(row.id)' : t \in TradesOf(row.id) \/ t.id = lastTrade + 1
         /\ TradesOf(row.id) \subseteq TradesOf(row.id)'
<1>1. ASSUME Stays(row)
      PROVE  PortfolioExists(row.id) /\ TradesOf(row.id)' = TradesOf(row.id)
  BY <1>1 DEF Stays, PortfolioExists
<1>2. ASSUME NEW r \in Requests, Inserts(r)
      PROVE  /\ PortfolioExists(row.id)
             /\ \A t \in TradesOf(row.id)' : t \in TradesOf(row.id) \/ t.id = lastTrade + 1
             /\ TradesOf(row.id) \subseteq TradesOf(row.id)'
  <2>1. row \in portfolios
    BY <1>2 DEF Inserts
  <2>2. TradeOf(req'[r]).id = lastTrade + 1
    BY <1>2 DEF Inserts, TradeOf
  <2>3. TradesOf(row.id)' = IF row.id = req[r].portfolio
                              THEN TradesOf(row.id) \cup {TradeOf(req'[r])}
                              ELSE TradesOf(row.id)
    BY <1>2 DEF Inserts
  <2> QED
    BY <2>1, <2>2, <2>3 DEF PortfolioExists
<1>3. Stays(row) \/ \E r \in Requests : Inserts(r)
  BY PaperAssumption DEF Effect, Steady, Resolves, Loads, Decides, Touches
<1> QED
  BY <1>1, <1>2, <1>3

\* A request's part of Past, for the trades of its portfolio.
PastJob(job, ts, last) ==
  /\ job.step \in {"price", "insert"} =>
       \E k \in 0 .. last : job.pre = InOrder(StoredBy(ts, k))
  /\ job.step \in {"touch", "respond"} =>
       /\ job.id <= last
       /\ \E k \in 0 .. job.id - 1 : PostTrades(job) = InOrder(Seen(ts, job.id, k))

LEMMA PastLater ==
  ASSUME NEW job \in TradeJob, NEW last \in Nat, NEW next \in Nat, last <= next,
         NEW ts, NEW more, ts \subseteq more, \A t \in more : t \in ts \/ t.id = last + 1,
         \A t \in ts : t.id \in Nat /\ t.id <= last, PastJob(job, ts, last)
  PROVE  PastJob(job, more, next)
<1>1. job.id \in Nat
  BY DEF TradeJob
<1>2. ASSUME NEW k \in 0 .. last PROVE StoredBy(more, k) = StoredBy(ts, k)
  BY <1>2 DEF StoredBy
<1>3. ASSUME NEW k \in 0 .. last, job.id <= last PROVE Seen(more, job.id, k) = Seen(ts, job.id, k)
  BY <1>1, <1>3 DEF Seen
<1>4. ASSUME job.step \in {"price", "insert"}
      PROVE  \E k \in 0 .. next : job.pre = InOrder(StoredBy(more, k))
  <2>1. PICK k \in 0 .. last : job.pre = InOrder(StoredBy(ts, k))
    BY <1>4 DEF PastJob
  <2>2. k \in 0 .. next
    BY <2>1
  <2> QED
    BY <1>2, <2>1, <2>2
<1>5. ASSUME job.step \in {"touch", "respond"}
      PROVE  /\ job.id <= next
             /\ \E k \in 0 .. job.id - 1 : PostTrades(job) = InOrder(Seen(more, job.id, k))
  <2>1. job.id <= last /\ job.id <= next
    BY <1>1, <1>5 DEF PastJob
  <2>2. PICK k \in 0 .. job.id - 1 : PostTrades(job) = InOrder(Seen(ts, job.id, k))
    BY <1>5 DEF PastJob
  <2>3. k \in 0 .. last
    BY <1>1, <2>1, <2>2
  <2> QED
    BY <1>3, <2>1, <2>2, <2>3
<1> QED
  BY <1>4, <1>5 DEF PastJob

LEMMA PastInit == Init => Past
BY PaperAssumption DEF Init, PaperStoreInit, Past, TradeAt, TradeJob

LEMMA PastParts ==
  /\ Past => \A r \in Requests :
       req[r] \in TradeJob /\ PortfolioExists(req[r].portfolio) =>
         PastJob(req[r], TradesOf(req[r].portfolio), lastTrade)
  /\ (\A r \in Requests, row \in portfolios' :
        req'[r] \in TradeJob /\ row.id = req'[r].portfolio =>
          PastJob(req'[r], TradesOf(row.id)', lastTrade')) => Past'
<1>1. Past => \A r \in Requests :
        req[r] \in TradeJob /\ PortfolioExists(req[r].portfolio) =>
          PastJob(req[r], TradesOf(req[r].portfolio), lastTrade)
  BY DEF Past, PastJob, TradeAt
<1>2. ASSUME \A r \in Requests, row \in portfolios' :
               req'[r] \in TradeJob /\ row.id = req'[r].portfolio =>
                 PastJob(req'[r], TradesOf(row.id)', lastTrade')
      PROVE  Past'
  <2>1. ASSUME NEW r \in Requests, req'[r] \in TradeJob, PortfolioExists(req[r].portfolio)'
        PROVE  PastJob(req'[r], TradesOf(req[r].portfolio)', lastTrade')
    <3>1. PICK row \in portfolios' : row.id = req'[r].portfolio
      BY <2>1 DEF PortfolioExists
    <3>2. TradesOf(req[r].portfolio)' = TradesOf(row.id)'
      BY <3>1 DEF TradesOf
    <3> QED
      BY <1>2, <2>1, <3>1, <3>2
  <2>2. \A r \in Requests : PostTrades(req[r])' = PostTrades(req'[r])
    BY DEF PostTrades
  <2> QED
    BY <2>1, <2>2 DEF Past, PastJob, TradeAt
<1> QED
  BY <1>1, <1>2

\* The trade inserted is later than all that its request loaded.
LEMMA PastInsert ==
  ASSUME Typed, Typed', Timed, Past, NEW r \in Requests, Inserts(r),
         NEW p, p = req[r].portfolio
  PROVE  PastJob(req'[r], TradesOf(p)', lastTrade')
<1> DEFINE t == TradeOf(req'[r])
           ts == TradesOf(p)
<1>1. /\ req[r] \in TradeJob /\ req[r].step = "insert" /\ req'[r] \in TradeJob
      /\ req'[r].step = "touch" /\ req'[r].pre = req[r].pre /\ req'[r].at = req[r].at
      /\ req'[r].id = lastTrade + 1 /\ lastTrade' = lastTrade + 1
      /\ t \in TradeRow /\ TradesOf(p)' = ts \cup {t} /\ PortfolioExists(p)
  BY DEF Inserts, Onward
<1>2. lastTrade \in Nat /\ \A u \in ts : u.id \in Nat /\ u.id <= lastTrade /\ u.executedAt \in Nat
  BY StoreParts DEF Typed, StoreOK, Keyed, TradesOf
<1>3. PICK k \in 0 .. lastTrade : req[r].pre = InOrder(StoredBy(ts, k))
  BY <1>1, PastParts DEF PastJob
<1> DEFINE old == StoredBy(ts, k)
<1>4. Sortable(ts) /\ Sortable(old) /\ old \subseteq ts
  BY Histories, SortableSubset DEF StoredBy, Typed
<1>5. /\ t.id = lastTrade + 1 /\ t.executedAt = req[r].at
      /\ t.id \in Nat /\ t.executedAt \in Nat
  BY <1>1, <1>2 DEF TradeOf, TradeRow
<1>6. RowsOf(req[r].pre) = old
  BY <1>3, <1>4, InOrderLists
<1>7. \A u \in old : u.executedAt <= t.executedAt
  BY <1>1, <1>5, <1>6 DEF Timed, TradeAt, RowsOf
<1>8. Seen(ts \cup {t}, lastTrade + 1, k) = old \cup {t}
  <2> HIDE DEF t, ts
  <2>1. \A u \in ts : u.id # lastTrade + 1
    BY <1>2
  <2> QED
    BY <1>2, <1>5, <2>1 DEF Seen, StoredBy
<1>9. PostTrades(req'[r]) = Append(req[r].pre, t)
  BY <1>1, PostTradesList
<1> HIDE DEF t, ts, old
<1>10. \A u \in old : Earlier(u, t) /\ u.id # t.id
  BY <1>2, <1>4, <1>5, <1>7 DEF Earlier
<1>11. Sortable(old \cup {t})
  <2>1. IsFiniteSet(old \cup {t})
    BY <1>4, FS_AddElement DEF Sortable
  <2> QED
    BY <1>4, <1>5, <1>10, <2>1 DEF Sortable
<1>12. InOrder(old \cup {t}) = Append(InOrder(old), t)
  BY <1>10, <1>11, InOrderAppends
<1>13. PostTrades(req'[r]) = InOrder(Seen(ts \cup {t}, req'[r].id, k))
  BY <1>1, <1>3, <1>8, <1>9, <1>12 DEF old
<1>14. k \in 0 .. req'[r].id - 1 /\ req'[r].id <= lastTrade'
  BY <1>1, <1>2
<1> QED
  BY <1>1, <1>13, <1>14 DEF PastJob, ts, t

LEMMA PastStep ==
  ASSUME Typed, Typed', Agreed, Timed, Past, Effect
  PROVE  Past'
<1> SUFFICES ASSUME NEW s \in Requests, NEW row \in portfolios', req'[s] \in TradeJob,
                    row.id = req'[s].portfolio
             PROVE  PastJob(req'[s], TradesOf(row.id)', lastTrade')
  BY PastParts
<1> DEFINE p == row.id
<1>1. lastTrade \in Nat /\ lastTrade' \in Nat /\ lastTrade <= lastTrade'
  <2>1. lastTrade \in Nat /\ lastTrade' \in Nat
    BY DEF Typed, StoreOK, PaperStoreTypeOK
  <2>2. lastTrade' = lastTrade \/ lastTrade' = lastTrade + 1
    BY DEF Effect, Rests, Steady, Resolves, Loads, Decides, Inserts, Touches
  <2> QED
    BY <2>1, <2>2
<1>2. \A t \in TradesOf(p) : t.id \in Nat /\ t.id <= lastTrade
  BY StoreParts DEF Typed, StoreOK, Keyed, TradesOf
\* A request that knows what it knew, and the trades it knew are there.
<1>3. ASSUME req[s] \in TradeJob, req'[s].portfolio = req[s].portfolio,
             PastJob(req[s], TradesOf(p), lastTrade) => PastJob(req'[s], TradesOf(p), lastTrade)
      PROVE  PastJob(req'[s], TradesOf(p)', lastTrade')
  <2>1. Rests => Stays(row)
    BY <1>3, RestsPortfolios
  <2>2. /\ PortfolioExists(p) /\ TradesOf(p) \subseteq TradesOf(p)'
        /\ \A t \in TradesOf(p)' : t \in TradesOf(p) \/ t.id = lastTrade + 1
    BY <2>1, StoredNow
  <2>3. PastJob(req'[s], TradesOf(p), lastTrade)
    BY <1>3, <2>2, PastParts
  <2> HIDE DEF p
  <2> QED
    BY <1>1, <1>2, <2>2, <2>3, PastLater
<1>4. CASE Rests
  BY <1>3, <1>4, RestsJobs
<1>5. CASE req'[s] = req[s]
  BY <1>3, <1>5
<1>6. CASE Resolves(s)
  BY <1>6 DEF Resolves, PastJob
<1>7. CASE Loads(s)
  <2>1. /\ req'[s].step = "price" /\ req'[s].pre = ListAllByPortfolio(p)
        /\ Stays(row) /\ lastTrade' = lastTrade
    BY <1>7 DEF Loads, Onward, Steady
  <2>2. TradesOf(p)' = TradesOf(p)
    BY <2>1 DEF Stays
  <2>3. StoredBy(TradesOf(p), lastTrade) = TradesOf(p)
    BY <1>2 DEF StoredBy
  <2>4. lastTrade \in 0 .. lastTrade
    BY <1>1
  <2> QED
    BY <2>1, <2>2, <2>3, <2>4 DEF PastJob, ListAllByPortfolio
<1>8. CASE Decides(s)
  BY <1>3, <1>8 DEF Decides, Onward, PastJob
<1>9. CASE Inserts(s)
  BY <1>9, PastInsert DEF Inserts, Onward
<1>10. CASE Touches(s)
  BY <1>3, <1>10 DEF Touches, Onward, PastJob
<1> QED
  BY <1>4, <1>5, <1>6, <1>7, <1>8, <1>9, <1>10
     DEF Effect, Resolves, Loads, Decides, Inserts, Touches, Onward, Others

-----------------------------------------------------------------------------
(* The books *)

\* A covered trade on the history as it is keeps the books.
LEMMA InsertBooks ==
  ASSUME Typed, Agreed, Asked, Timed, Kept, NEW r \in Requests, Inserts(r),
         NEW row \in portfolios, row.id = req[r].portfolio, row.id \notin raced'
  PROVE  /\ Books(row.balance, ListAllByPortfolio(row.id)', Epsilon, Max(Quotes))
         /\ Compute(row.balance, ListAllByPortfolio(row.id)').cash >= -Epsilon
<1> DEFINE job == req[r]
           t == TradeOf(req'[r])
           p == row.id
           ts == ListAllByPortfolio(p)
           balance == row.balance
           s == Compute(balance, ts)
<1>1. /\ job \in TradeJob /\ job.step = "insert"
      /\ req'[r].order = job.order /\ req'[r].price = job.price
      /\ t \in TradeRow /\ IsPostable(t) /\ p \notin raced
  BY DEF Inserts, Onward
<1>2. balance = job.balance /\ balance \in Nat
  BY <1>1, StoreParts DEF Agreed, Typed
<1>3. /\ Books(balance, ts, Epsilon, Max(Quotes)) /\ s.cash >= -Epsilon
      /\ Covers(job, job.price)
  BY <1>1, <1>2 DEF Kept, TradeAt
<1>4. job.pre = ts /\ ListAllByPortfolio(p)' = Append(ts, t) /\ t \notin TradesOf(p)
  BY UnracedInsert
<1>5. /\ ts \in Seq(TradeRow) /\ RowsOf(ts) = TradesOf(p) /\ IsFiniteSet(RowsOf(ts))
      /\ \A i \in DOMAIN ts : IsPostable(ts[i])
  BY Histories DEF Typed, Sortable
<1>6. /\ t.side = job.order.side /\ t.coin = job.order.coin
      /\ t.amount = job.order.amount /\ t.price = job.price
  BY <1>1 DEF TradeOf
<1>7. t.price <= Max(Quotes) /\ Max(Quotes) \in Nat /\ Epsilon \in Nat
  BY <1>1, <1>6, Largest, LedgerAssumption DEF Asked
<1>8. IF t.side = "buy" THEN t.amount * t.price <= s.cash + Epsilon
                        ELSE t.amount <= s.amount[t.coin] + Epsilon
  BY <1>2, <1>3, <1>4, <1>6 DEF Covers
<1> HIDE DEF job, t, p, ts, balance, s
<1>9. t.side = "sell" => t.amount <= Compute(balance, ts).amount[t.coin] + Epsilon
  BY <1>8 DEF s
<1>10. Books(balance, Append(ts, t), Epsilon, Max(Quotes))
  BY <1>1, <1>2, <1>3, <1>4, <1>5, <1>7, <1>9, BooksPost
<1>11. Compute(balance, Append(ts, t)) = Posted(s, t) /\ s \in Ledger
  <2>1. balance \in Int
    BY <1>2
  <2> QED
    BY <1>1, <1>5, <2>1, ComputeAppends, ComputeType DEF s
<1>12. Posted(s, t).cash >= -Epsilon
  <2>1. s.cash \in Int /\ t.amount * t.price \in Nat /\ t.side \in {"buy", "sell"}
    BY <1>1, <1>11, LedgerParts DEF IsPostable
  <2>2. Posted(s, t).cash = IF t.side = "buy" THEN s.cash - t.amount * t.price
                                              ELSE s.cash + t.amount * t.price
    BY <1>1, <1>11, <2>1, PostedParts
  <2> DEFINE v == t.amount * t.price
             c == s.cash
  <2>3. v \in Nat /\ c \in Int /\ c >= -Epsilon
    BY <1>3, <2>1 DEF s
  <2>4. Posted(s, t).cash = IF t.side = "buy" THEN c - v ELSE c + v
    BY <2>2
  <2>5. t.side = "buy" => v <= c + Epsilon
    BY <1>8
  <2> HIDE DEF v, c
  <2> QED
    BY <1>7, <2>3, <2>4, <2>5
<1> QED
  BY <1>4, <1>10, <1>11, <1>12 DEF p, balance

LEMMA KeptInit == Init => Kept
BY PaperAssumption DEF Init, PaperStoreInit, Kept, TradeAt, TradeJob

LEMMA KeptStep ==
  ASSUME Typed, Typed', Agreed, Asked, Timed, Kept, Effect
  PROVE  Kept'
<1>1. ASSUME NEW row \in portfolios', row.id \notin raced'
      PROVE  /\ Books(row.balance, ListAllByPortfolio(row.id)', Epsilon, Max(Quotes))
             /\ Compute(row.balance, ListAllByPortfolio(row.id)').cash >= -Epsilon
  <2>1. row.id \notin raced /\ row.balance \in Nat
    BY <1>1, Fates DEF Typed, StoreOK, PaperStoreTypeOK, PortfolioRow
  <2>2. CASE Stays(row)
    BY <2>1, <2>2 DEF Kept, Stays, ListAllByPortfolio
  <2>3. CASE TradesOf(row.id)' = {}
    <3>1. ListAllByPortfolio(row.id)' = <<>>
      BY <2>3, InOrderOfNone DEF ListAllByPortfolio
    <3>2. Epsilon \in Nat /\ Max(Quotes) \in Nat
      BY LedgerAssumption, Largest
    <3>3. Compute(row.balance, <<>>).cash = row.balance
      BY <2>1, ComputeOfNone DEF Opening
    <3> QED
      BY <2>1, <3>1, <3>2, <3>3, BooksOpen
  <2>4. ASSUME NEW r \in Requests, Inserts(r), row.id = req[r].portfolio, row \in portfolios
        PROVE  /\ Books(row.balance, ListAllByPortfolio(row.id)', Epsilon, Max(Quotes))
               /\ Compute(row.balance, ListAllByPortfolio(row.id)').cash >= -Epsilon
    BY <1>1, <2>4, InsertBooks
  <2> QED
    BY <2>2, <2>3, <2>4, Fates
<1>2. ASSUME NEW s \in Requests, req'[s] \in TradeJob, req'[s].step = "insert"
      PROVE  Covers(req'[s], req'[s].price)
  <2>1. CASE req'[s] = req[s]
    BY <1>2, <2>1 DEF Kept, TradeAt
  <2>2. CASE Rests
    BY <1>2, <2>1, <2>2, RestsJobs
  <2>3. CASE Decides(s)
    BY <2>3 DEF Decides
  <2> QED
    BY <1>2, <2>1, <2>2, <2>3
       DEF Effect, Resolves, Loads, Decides, Inserts, Touches, Onward, Others
<1>3. \A s \in Requests : Covers(req[s], req[s].price)' = Covers(req'[s], req'[s].price)
  BY DEF Covers
<1> QED
  BY <1>1, <1>2, <1>3 DEF Kept, TradeAt

-----------------------------------------------------------------------------

TradingInv ==
  Typed /\ Agreed /\ Asked /\ Sized /\ Timed /\ HistoryInOrder /\ Prefixed /\ Past /\ Kept

LEMMA TradingSpec == Spec => []TradingInv
<1>1. Init => TradingInv
  <2>1. Init => HistoryInOrder /\ Prefixed /\ Sized
    BY PaperAssumption
       DEF Init, PaperStoreInit, HistoryInOrder, Prefixed, Sized, TradeAt, TradeJob
  <2> QED
    BY <2>1, TypedInit, AgreedInit, AskedInit, TimedInit, PastInit, KeptInit DEF TradingInv
<1>2. TradingInv /\ [Next]_vars => TradingInv'
  <2> SUFFICES ASSUME TradingInv, [Next]_vars PROVE TradingInv'
    OBVIOUS
  <2>1. /\ Typed /\ Agreed /\ Asked /\ Sized /\ Timed /\ HistoryInOrder /\ Prefixed
        /\ Past /\ Kept
    BY DEF TradingInv
  <2>2. Typed' /\ Effect
    BY <2>1, TypedStep
  <2>3. Agreed' /\ Asked' /\ Sized' /\ Timed' /\ HistoryInOrder' /\ Prefixed'
    BY <2>1, <2>2, AgreedStep, AskedStep, SizedStep, TimedStep, HistoryStep, PrefixedStep
  <2>4. Past' /\ Kept'
    BY <2>1, <2>2, PastStep, KeptStep
  <2> QED
    BY <2>2, <2>3, <2>4 DEF TradingInv
<1> QED
  BY <1>1, <1>2, PTL DEF Spec

\* The books of every portfolio, also of those that sold on a stale ledger.
LEMMA RowBooks ==
  ASSUME Typed, Sized, Kept, NEW row \in portfolios
  PROVE  LET list == ListAllByPortfolio(row.id)
         IN  /\ Compute(row.balance, list) \in Ledger /\ RowsOf(list) = TradesOf(row.id)
             /\ Compute(row.balance, list).cash = NetCash(row.balance, TradesOf(row.id))
             /\ Books(row.balance, list, Oversold(row), Max(Quotes))
<1> DEFINE list == ListAllByPortfolio(row.id)
           balance == row.balance
<1>1. /\ list \in Seq(TradeRow) /\ RowsOf(list) = TradesOf(row.id)
      /\ \A i \in DOMAIN list : IsPostable(list[i])
      /\ \A i, j \in DOMAIN list : i # j => list[i] # list[j]
      /\ TradesOf(row.id) \subseteq trades
  BY Histories DEF Typed
<1>2. balance \in Nat /\ balance \in Int
  BY StoreParts DEF Typed
<1>3. \A i \in DOMAIN list : list[i].amount <= Max(Amounts) /\ list[i].price <= Max(Quotes)
  BY <1>1 DEF Sized, RowsOf
<1>4. Max(Amounts) \in Nat /\ Max(Quotes) \in Nat
  BY Largest
<1>5. row.id \notin raced => Books(balance, list, Oversold(row), Max(Quotes))
  BY DEF Kept, Oversold
<1>6. row.id \in raced => Oversold(row) = Max(Amounts)
  BY DEF Oversold
<1> HIDE DEF list, balance
<1>7. Compute(balance, list) \in Ledger
  BY <1>1, <1>2, ComputeType
<1>8. Compute(balance, list).cash = NetCash(balance, RowsOf(list))
  BY <1>1, <1>2, ComputeCash
<1>9. Books(balance, list, Max(Amounts), Max(Quotes))
  BY <1>1, <1>2, <1>3, <1>4, BooksOfAny
<1> QED
  BY <1>1, <1>5, <1>6, <1>7, <1>8, <1>9 DEF list, balance

\* A portfolio whose trades were all decided on its whole history has spent no
\* cash and sold no coin it did not have, up to the tolerance, whatever failed or
\* ran beside them.
THEOREM SolventTheorem == Spec => []SolventUnlessRaced
<1>1. TradingInv => SolventUnlessRaced
  <2> SUFFICES ASSUME TradingInv, NEW row \in portfolios, row.id \notin raced
               PROVE  Solvent(row)
    BY DEF SolventUnlessRaced
  <2> DEFINE list == ListAllByPortfolio(row.id)
  <2>1. /\ RowsOf(list) = TradesOf(row.id)
        /\ Compute(row.balance, list).cash = NetCash(row.balance, TradesOf(row.id))
    BY RowBooks DEF TradingInv
  <2>2. /\ Books(row.balance, list, Epsilon, Max(Quotes))
        /\ Compute(row.balance, list).cash >= -Epsilon
    BY DEF TradingInv, Kept
  <2>3. ASSUME NEW c \in Coins
        PROVE  NetAmount(TradesOf(row.id), c) >= -Epsilon * ClosingsOf(row, {c})
    <3> DEFINE a == Compute(row.balance, list).amount[c]
               n == NetAmount(TradesOf(row.id), c)
               e == Epsilon * ClosingsOf(row, {c})
    <3>1. a >= 0 /\ a - n \in -e .. e
      BY <2>1, <2>2, <2>3 DEF Books, Drops, ClosingsOf
    <3>2. a \in Int
      BY <2>3, RowBooks, LedgerParts DEF TradingInv
    <3>3. n \in Int
      BY StoreParts, Histories, NetAmountType DEF TradingInv, Typed
    <3>4. e \in Int
      <4>1. list \in Seq(TradeRow)
        BY Histories DEF TradingInv, Typed
      <4>2. Drops(row.balance, list, {c}) \in Nat
        BY <4>1, DropsType
      <4> QED
        BY <4>2, LedgerAssumption DEF Drops, ClosingsOf
    <3> HIDE DEF a, n, e
    <3>5. n >= -e
      BY <3>1, <3>2, <3>3, <3>4
    <3> QED
      BY <3>5 DEF n, e
  <2> QED
    BY <2>1, <2>2, <2>3 DEF Solvent
<1> QED
  BY <1>1, TradingSpec, PTL

\* Compute keeps books, of overdrawn portfolios too: its cash is what the rows add
\* up to, its amounts are off by no more than the residues and the oversold
\* amounts that the closings drop, and its cash and the cost of what is held are
\* off from the starting balance and the profit taken by those at the highest
\* price.
THEOREM LedgerTheorem == Spec => []LedgerBalances
<1>1. TradingInv => LedgerBalances
  <2> SUFFICES ASSUME TradingInv, NEW row \in portfolios
               PROVE  LET rows == TradesOf(row.id)
                          state == Compute(row.balance, ListAllByPortfolio(row.id))
                          least == Epsilon * Max(Quotes)
                          most == Oversold(row) * Max(Quotes)
                      IN  /\ state.cash = NetCash(row.balance, rows)
                          /\ \A c \in Coins :
                               state.amount[c] - NetAmount(rows, c)
                                 \in -Epsilon * ClosingsOf(row, {c})
                                       .. Oversold(row) * ClosingsOf(row, {c})
                          /\ state.cash + TotalCost(state) - (row.balance + state.realized)
                               \in -least * ClosingsOf(row, Coins)
                                     .. most * ClosingsOf(row, Coins)
    BY DEF LedgerBalances
  <2> DEFINE list == ListAllByPortfolio(row.id)
  <2>1. /\ RowsOf(list) = TradesOf(row.id)
        /\ Compute(row.balance, list).cash = NetCash(row.balance, TradesOf(row.id))
        /\ Books(row.balance, list, Oversold(row), Max(Quotes))
    BY RowBooks DEF TradingInv
  <2> QED
    BY <2>1 DEF Books, Drops, ClosingsOf
<1> QED
  BY <1>1, TradingSpec, PTL

\* A 201 is computed from the history as it was at one moment before its trade,
\* and from all of it if no trade went in on a stale ledger.
THEOREM ResponseTheorem == Spec => []ResponseIsHistory
<1>1. TradingInv => ResponseIsHistory
  <2> SUFFICES ASSUME TradingInv, NEW r \in Requests, At(r, "respond"),
                      PortfolioExists(req[r].portfolio)
               PROVE  /\ \E k \in 0 .. req[r].id - 1 :
                           PostTrades(req[r]) = InOrder(SeenAt(req[r], k))
                      /\ req[r].portfolio \notin raced =>
                           IsPrefix(PostTrades(req[r]), ListAllByPortfolio(req[r].portfolio))
    BY DEF ResponseIsHistory
  <2>1. TradeAt(r, {"touch", "respond"})
    BY JobKinds DEF TradingInv, TradeAt
  <2>2. \A k : SeenAt(req[r], k) = Seen(TradesOf(req[r].portfolio), req[r].id, k)
    BY DEF SeenAt, Seen
  <2>3. PICK k \in 0 .. req[r].id - 1 :
          PostTrades(req[r]) = InOrder(Seen(TradesOf(req[r].portfolio), req[r].id, k))
    BY <2>1 DEF TradingInv, Past
  <2> QED
    BY <2>1, <2>2, <2>3 DEF TradingInv, Prefixed
<1> QED
  BY <1>1, TradingSpec, PTL

\* Ids are in the order of the times, as the pages of a history assume.
THEOREM HistoryTheorem == Spec => []HistoryInOrder
<1>1. TradingInv => HistoryInOrder
  BY DEF TradingInv
<1> QED
  BY <1>1, TradingSpec, PTL

-----------------------------------------------------------------------------
(* The overdraft *)

LEMMA ClaimBounds ==
  ASSUME NEW job, NEW p,
         job \in TradeJob =>
           job.order \in Orders /\ (job.step = "insert" => job.price \in Prices)
  PROVE  Claim(job, p) \in Nat /\ Claim(job, p) <= Max(Costs)
<1>1. Max(Costs) \in Nat
  BY Largest
<1>2. ASSUME job \in TradeJob PROVE Compute(job.balance, job.pre).cash \in Int
  <2>1. job.balance \in Int
    BY <1>2 DEF TradeJob
  <2>2. Compute(job.balance, job.pre) \in Ledger
    BY <1>2, <2>1, LoadedRows, ComputeType
  <2> QED
    BY <2>2, LedgerParts
<1>3. ASSUME job \in TradeJob, job.step = "insert"
      PROVE  job.order.amount * job.price \in Nat /\ job.order.amount * job.price <= Max(Costs)
  <2>1. job.order \in Orders /\ job.price \in Prices
    BY <1>3
  <2> QED
    BY <2>1, Largest
<1>4. \A cash \in Int : Spendable(cash) \in Nat /\ Spendable(cash) <= Max(Costs)
  BY <1>1, LedgerAssumption DEF Spendable
<1> QED
  BY <1>1, <1>2, <1>3, <1>4 DEF Claim

LEMMA ClaimsBound ==
  ASSUME Asked, NEW r \in Requests, NEW p
  PROVE  /\ Claim(req[r], p) \in Nat /\ Claim(req[r], p) <= Max(Costs)
         /\ Claims(p) \in Int /\ Claims(p) >= 0
         /\ (Cardinality(Requests) - 1) * Max(Costs) \in Nat
         /\ Claims(p) - Claim(req[r], p) <= (Cardinality(Requests) - 1) * Max(Costs)
<1> DEFINE f == [s \in Requests |-> Claim(req[s], p)]
           zero == [s \in Requests |-> 0]
           others == Requests \ {r}
           m == Max(Costs)
           n == Cardinality(others)
<1>1. \A s \in Requests : f[s] \in Nat /\ f[s] <= m
  BY ClaimBounds DEF Asked
<1>2. f[r] = Claim(req[r], p) /\ Claims(p) = SumFunctionOnSet(f, Requests)
  BY DEF Claims
<1>3. zero[r] = 0 /\ \A s \in Requests : zero[s] = 0
  OBVIOUS
<1>4. IsFiniteSet(Requests) /\ m \in Nat
  BY PaperAssumption, Largest
<1>5. IsFiniteSet(others) /\ n = Cardinality(Requests) - 1 /\ n \in Nat
  BY <1>4, FS_RemoveElement, FS_CardinalityType
<1> HIDE DEF f, zero, m, n
<1>6. SumFunctionOnSet(zero, Requests) = 0
  <2>1. SumFunctionOnSet(zero, Requests) = SumFunctionOnSet(zero, {})
    BY <1>3, <1>4, SumSupport
  <2> QED
    BY <2>1, SumOfNone
<1>7. SumFunctionOnSet(zero, Requests) <= SumFunctionOnSet(f, Requests)
  BY <1>1, <1>3, <1>4, SumLeq
<1>8. SumFunctionOnSet(f, Requests) \in Int
  BY <1>1, <1>4, SumType
<1>9. SumFunctionOnSet(f, others) <= n * m
  <2>1. \A s \in others : f[s] \in Int /\ f[s] <= m
    BY <1>1
  <2> QED
    BY <1>4, <1>5, <2>1, SumBounded DEF n
<1>10. SumFunctionOnSet(f, Requests) = f[r] + SumFunctionOnSet(f, others)
  BY <1>1, <1>4, SumRemove
<1>11. SumFunctionOnSet(f, others) \in Int
  BY <1>1, <1>5, SumType
<1>12. n * m \in Nat
  BY <1>4, <1>5
<1> DEFINE k == n * m
           x == SumFunctionOnSet(f, others)
           y == SumFunctionOnSet(f, Requests)
<1>13. /\ y \in Int /\ y >= 0 /\ y - f[r] <= k
  <2>1. x \in Int /\ y \in Int /\ f[r] \in Nat /\ k \in Nat /\ x <= k /\ y = f[r] + x /\ 0 <= y
    BY <1>1, <1>6, <1>7, <1>8, <1>9, <1>10, <1>11, <1>12
  <2> HIDE DEF k, x, y
  <2> QED
    BY <2>1
<1>14. k = (Cardinality(Requests) - 1) * Max(Costs)
  BY <1>5 DEF m
<1> QED
  BY <1>1, <1>2, <1>12, <1>13, <1>14 DEF m

\* The claims after a step that moves one request, and after one that lowers claims.
LEMMA ClaimsMove ==
  ASSUME Asked, Asked', NEW r \in Requests, NEW p, Others(r)
  PROVE  Claims(p)' = Claims(p) - Claim(req[r], p) + Claim(req'[r], p)
<1> DEFINE f == [s \in Requests |-> Claim(req[s], p)]
           g == [s \in Requests |-> Claim(req'[s], p)]
<1>1. \A s \in Requests : f[s] \in Int /\ g[s] \in Int
  BY ClaimBounds DEF Asked
<1>2. f[r] = Claim(req[r], p) /\ g[r] = Claim(req'[r], p)
  OBVIOUS
<1>3. \A s \in Requests \ {r} : g[s] = f[s]
  BY DEF Others
<1>4. Claims(p) = SumFunctionOnSet(f, Requests) /\ Claims(p)' = SumFunctionOnSet(g, Requests)
  BY DEF Claims
<1> HIDE DEF f, g
<1> QED
  BY <1>1, <1>2, <1>3, <1>4, PaperAssumption, SumUpdate

LEMMA ClaimsFall ==
  ASSUME Asked, Asked', NEW p,
         \A r \in Requests : Claim(req'[r], p) = Claim(req[r], p) \/ Claim(req'[r], p) = 0
  PROVE  Claims(p)' <= Claims(p)
<1> DEFINE f == [s \in Requests |-> Claim(req[s], p)]
           g == [s \in Requests |-> Claim(req'[s], p)]
<1>1. \A s \in Requests : f[s] \in Nat /\ g[s] \in Nat /\ (g[s] = f[s] \/ g[s] = 0)
  BY ClaimBounds DEF Asked
<1>2. Claims(p) = SumFunctionOnSet(f, Requests) /\ Claims(p)' = SumFunctionOnSet(g, Requests)
  BY DEF Claims
<1> HIDE DEF f, g
<1>3. \A s \in Requests : f[s] \in Int /\ g[s] \in Int /\ g[s] <= f[s]
  BY <1>1
<1> QED
  BY <1>2, <1>3, PaperAssumption, SumLeq

LEMMA NoClaims ==
  ASSUME NEW p, \A r \in Requests : Claim(req'[r], p) = 0
  PROVE  Claims(p)' = 0
<1> DEFINE g == [s \in Requests |-> Claim(req'[s], p)]
<1>1. \A s \in Requests : g[s] = 0
  OBVIOUS
<1>2. Claims(p)' = SumFunctionOnSet(g, Requests)
  BY DEF Claims
<1> HIDE DEF g
<1>3. SumFunctionOnSet(g, Requests) = SumFunctionOnSet(g, {})
  BY <1>1, PaperAssumption, SumSupport
<1> QED
  BY <1>2, <1>3, SumOfNone

\* A decided order takes no more than what its request could spend.
LEMMA DecidedClaim ==
  ASSUME Typed, Asked, NEW r \in Requests, Decides(r), req'[r].order \in Orders, NEW p
  PROVE  Claim(req'[r], p) <= Claim(req[r], p)
<1> DEFINE old == req[r]
           new == req'[r]
           cash == Compute(old.balance, old.pre).cash
           cost == new.order.amount * new.price
<1>1. /\ old \in TradeJob /\ old.step = "price" /\ new \in TradeJob /\ new.step = "insert"
      /\ new.portfolio = old.portfolio /\ new.balance = old.balance /\ new.order = old.order
      /\ new.pre = old.pre /\ new.price \in Prices /\ Covers(new, new.price)
  BY DEF Decides, Onward
<1>2. Claim(old, p) = IF old.portfolio = p THEN Spendable(cash) ELSE 0
  BY <1>1 DEF Claim
<1>3. Claim(new, p) = IF old.portfolio = p /\ new.order.side = "buy" THEN cost ELSE 0
  BY <1>1 DEF Claim
<1>4. Claim(old, p) \in Nat
  BY ClaimsBound
<1>5. ASSUME old.portfolio = p, new.order.side = "buy" PROVE cost <= Spendable(cash)
  <2>1. cost <= cash + Epsilon
    BY <1>1, <1>5 DEF Covers
  <2>2. cost \in Nat /\ cost <= Max(Costs) /\ Max(Costs) \in Nat
    BY <1>1, Largest
  <2>3. cash \in Int
    <3>1. old.balance \in Int
      BY <1>1 DEF TradeJob
    <3>2. Compute(old.balance, old.pre) \in Ledger
      BY <1>1, <3>1, LoadedRows, ComputeType
    <3> QED
      BY <3>2, LedgerParts
  <2> HIDE DEF cash, cost
  <2> QED
    BY <2>1, <2>2, <2>3, LedgerAssumption DEF Spendable
<1> HIDE DEF old, new, cash, cost
<1>6. CASE old.portfolio = p /\ new.order.side = "buy"
  BY <1>2, <1>3, <1>5, <1>6 DEF old, new
<1>7. CASE ~(old.portfolio = p /\ new.order.side = "buy")
  BY <1>3, <1>4, <1>7 DEF old, new
<1> QED
  BY <1>6, <1>7

LEMMA ClaimedStep ==
  ASSUME Typed, Typed', Agreed, Asked, Asked', Claimed, Effect
  PROVE  Claimed'
<1> DEFINE k == (Cardinality(Requests) - 1) * Max(Costs)
           e == Epsilon
<1> SUFFICES ASSUME NEW row \in portfolios'
             PROVE  NetCash(row.balance, TradesOf(row.id)') - Claims(row.id)' >= -k - e
  BY DEF Claimed
<1> DEFINE p == row.id
           c == NetCash(row.balance, TradesOf(p))
           d == NetCash(row.balance, TradesOf(p)')
<1>1. k \in Nat /\ e \in Nat
  BY PaperAssumption, LedgerAssumption, ClaimsBound
<1>2. row.balance \in Nat
  BY DEF Typed, StoreOK, PaperStoreTypeOK, PortfolioRow
<1>3. c \in Int /\ Claims(p) \in Int
  BY <1>2, PaperAssumption, Histories, NetCashType, ClaimsBound DEF Typed
<1>4. Claims(p)' \in Int
  <2> DEFINE g == [s \in Requests |-> Claim(req'[s], p)]
  <2>1. \A s \in Requests : g[s] \in Int
    BY ClaimBounds DEF Asked
  <2>2. Claims(p)' = SumFunctionOnSet(g, Requests)
    BY DEF Claims
  <2> HIDE DEF g
  <2> QED
    BY <2>1, <2>2, PaperAssumption, SumType
\* What was there before had its claims covered.
<1>5. ASSUME NEW old \in portfolios, old.id = row.id, old.balance = row.balance
      PROVE  c - Claims(p) >= -k - e
  BY <1>5 DEF Claimed
<1>6. CASE Rests
  <2>1. CASE Stays(row)
    <3>1. d = c /\ c - Claims(p) >= -k - e
      BY <1>5, <2>1 DEF Stays
    <3>2. Claims(p)' <= Claims(p)
      <4>1. \A s \in Requests : Claim(req'[s], p) = Claim(req[s], p) \/ Claim(req'[s], p) = 0
        BY <1>6, RestsJobs DEF Claim
      <4> QED
        BY <4>1, ClaimsFall
    <3> HIDE DEF k, e, c, d
    <3> QED
      BY <1>1, <1>3, <1>4, <3>1, <3>2 DEF c, d
  <2>2. CASE row.id = lastPortfolio' /\ lastPortfolio < lastPortfolio' /\ TradesOf(row.id)' = {}
    <3>1. d = row.balance
      BY <1>2, <2>2, NetsOfNone
    <3>2. \A s \in Requests : Claim(req'[s], p) = 0
      <4> SUFFICES ASSUME NEW s \in Requests, req'[s] \in TradeJob
                   PROVE  req'[s].portfolio # p
        BY DEF Claim
      <4>1. req'[s] = req[s] /\ req[s] \in TradeJob
        BY <1>6, RestsJobs
      <4>2. req[s].portfolio <= lastPortfolio /\ req[s].portfolio \in Nat
        BY <4>1 DEF Agreed, TradeJob
      <4>3. lastPortfolio \in Nat /\ lastPortfolio' \in Nat
        BY DEF Typed, StoreOK, PaperStoreTypeOK
      <4> QED
        BY <2>2, <4>1, <4>2, <4>3
    <3>3. Claims(p)' = 0
      BY <3>2, NoClaims
    <3> HIDE DEF k, e, d
    <3> QED
      BY <1>1, <1>2, <3>1, <3>3 DEF d
  <2> QED
    BY <1>6, <2>1, <2>2 DEF Rests
<1>7. ASSUME NEW r \in Requests,
             Resolves(r) \/ Loads(r) \/ Decides(r) \/ Inserts(r) \/ Touches(r)
      PROVE  d - Claims(p)' >= -k - e
  <2> DEFINE x == Claim(req[r], p)
             y == Claim(req'[r], p)
  <2>1. c - Claims(p) >= -k - e
    <3>1. \E old \in portfolios : old.id = row.id /\ old.balance = row.balance
      BY <1>7 DEF Resolves, Loads, Decides, Inserts, Touches, Steady, Stays
    <3> QED
      BY <1>5, <3>1
  <2>2. Claims(p)' = Claims(p) - x + y
    BY <1>7, ClaimsMove DEF Resolves, Loads, Decides, Inserts, Touches, Onward
  <2>3. x \in Nat /\ Claims(p) - x <= k
    BY ClaimsBound
  <2>4. y \in Nat
    BY ClaimBounds DEF Asked
  <2>5. Inserts(r) \/ d = c
    BY <1>7 DEF Resolves, Loads, Decides, Touches, Steady, Stays
  <2> HIDE DEF k, e, x, y, c, d
  <2>6. CASE Resolves(r) \/ Touches(r)
    <3>1. y = 0
      BY <2>6 DEF Resolves, Touches, Onward, Claim, y
    <3>2. d = c
      BY <2>6 DEF Resolves, Touches, Steady, Stays, c, d
    <3> QED
      BY <1>1, <1>3, <2>1, <2>2, <2>3, <3>1, <3>2
  <2>7. CASE Decides(r)
    <3>1. req'[r].order \in Orders
      BY <2>7 DEF Asked, Decides, Onward
    <3>2. y <= x
      BY <2>7, <3>1, DecidedClaim DEF x, y
    <3>3. d = c
      BY <2>7 DEF Decides, Steady, Stays, c, d
    <3> QED
      BY <1>1, <1>3, <2>1, <2>2, <2>3, <2>4, <3>2, <3>3
  <2>8. CASE Loads(r)
    <3>1. d = c
      BY <2>8 DEF Loads, Steady, Stays, c, d
    <3>2. CASE req[r].portfolio # p
      <4>1. y = 0
        BY <2>8, <3>2 DEF Loads, Onward, Claim, y
      <4> QED
        BY <1>1, <1>3, <2>1, <2>2, <2>3, <3>1, <4>1
    <3>3. CASE req[r].portfolio = p
      <4> DEFINE list == ListAllByPortfolio(p)
      <4>1. /\ req'[r] \in TradeJob /\ req'[r].step = "price" /\ req'[r].portfolio = p
            /\ req'[r].pre = list /\ req'[r].balance = row.balance
        <5>1. req'[r].balance = row.balance
          <6>1. PICK old \in portfolios : old.id = p /\ old.balance = row.balance
            BY <2>8 DEF Loads, Steady, Stays
          <6> QED
            BY <2>8, <3>3, <6>1 DEF Loads, Onward, Agreed
        <5> QED
          BY <2>8, <3>3, <5>1 DEF Loads, Onward
      <4>2. Compute(row.balance, list).cash = c
        <5>1. /\ list \in Seq(TradeRow) /\ RowsOf(list) = TradesOf(p)
              /\ \A i \in DOMAIN list : IsPostable(list[i])
              /\ \A i, j \in DOMAIN list : i # j => list[i] # list[j]
          BY Histories DEF Typed
        <5> HIDE DEF list
        <5> QED
          BY <1>2, <5>1, ComputeCash DEF c
      <4> HIDE DEF list
      <4>3. y = Spendable(c)
        BY <4>1, <4>2 DEF Claim, y
      <4>4. CASE c + e < 0
        <5>1. y = 0
          BY <4>3, <4>4 DEF Spendable, e
        <5> QED
          BY <1>1, <1>3, <2>1, <2>2, <2>3, <3>1, <5>1
      <4>5. CASE ~(c + e < 0)
        <5>1. y <= c + e
          BY <1>1, <1>3, <4>3, <4>5, Largest DEF Spendable, e
        <5> QED
          BY <1>1, <1>3, <2>2, <2>3, <2>4, <3>1, <5>1
      <4> QED
        BY <4>4, <4>5
    <3> QED
      BY <3>2, <3>3
  <2>9. CASE Inserts(r)
    <3> DEFINE t == TradeOf(req'[r])
               v == t.amount * t.price
    <3>1. /\ req[r] \in TradeJob /\ req[r].step = "insert" /\ req'[r].step = "touch"
          /\ req'[r].order = req[r].order /\ req'[r].price = req[r].price
          /\ IsPostable(t) /\ t \notin trades
          /\ \A q : TradesOf(q)' = IF q = req[r].portfolio THEN TradesOf(q) \cup {t}
                                                           ELSE TradesOf(q)
      BY <2>9 DEF Inserts, Onward
    <3>2. y = 0
      BY <3>1 DEF Claim, y
    <3>3. CASE req[r].portfolio # p
      <4>1. d = c
        BY <3>1, <3>3 DEF c, d
      <4> QED
        BY <1>1, <1>3, <2>1, <2>2, <2>3, <3>2, <4>1
    <3>4. CASE req[r].portfolio = p
      <4>1. x = IF t.side = "buy" THEN v ELSE 0
        BY <3>1, <3>4 DEF Claim, TradeOf, x
      <4>2. d = IF t.side = "buy" THEN c - v ELSE c + v
        <5>1. TradesOf(p)' = TradesOf(p) \cup {t}
          BY <3>1, <3>4
        <5>2. Postables(TradesOf(p)) /\ t \notin TradesOf(p)
          BY <3>1, Histories DEF Typed
        <5>3. Postables(TradesOf(p) \cup {t})
          BY <3>1, <5>2, FS_AddElement DEF Postables
        <5> HIDE DEF t
        <5> QED
          BY <1>2, <5>1, <5>2, <5>3, NetCashAdds DEF c, d
      <4>3. v \in Nat
        BY <3>1 DEF IsPostable
      <4> HIDE DEF t, v
      <4> QED
        BY <1>1, <1>3, <2>1, <2>2, <2>3, <3>2, <4>1, <4>2, <4>3
    <3> QED
      BY <3>3, <3>4
  <2> QED
    BY <1>7, <2>6, <2>7, <2>8, <2>9
<1> QED
  BY <1>6, <1>7 DEF Effect

ClaimInv == Typed /\ Agreed /\ Asked /\ Claimed

LEMMA ClaimedInit == Init => ClaimInv
<1>1. Init => Claimed
  BY DEF Init, PaperStoreInit, Claimed
<1> QED
  BY <1>1, TypedInit, AgreedInit, AskedInit DEF ClaimInv

\* Requests that race can overdraw a portfolio, but by no more than the dearest
\* order for each request beside the first and the tolerance: what is spendable
\* is claimed by at most one request that saw all of it, and the others claim an
\* order each.
THEOREM OverdraftTheorem == Spec => []OverdraftBounded
<1>1. Init => ClaimInv
  BY ClaimedInit
<1>2. ClaimInv /\ [Next]_vars => ClaimInv'
  BY TypedStep, AgreedStep, AskedStep, ClaimedStep DEF ClaimInv
<1>3. ClaimInv => OverdraftBounded
  <2> SUFFICES ASSUME ClaimInv, NEW row \in portfolios
               PROVE  NetCash(row.balance, TradesOf(row.id))
                        >= -((Cardinality(Requests) - 1) * Max(Costs)) - Epsilon
    BY DEF OverdraftBounded
  <2> DEFINE k == (Cardinality(Requests) - 1) * Max(Costs)
             c == NetCash(row.balance, TradesOf(row.id))
  <2>1. c - Claims(row.id) >= -k - Epsilon
    BY DEF ClaimInv, Claimed
  <2>2. c \in Int
    BY StoreParts, Histories, NetCashType DEF ClaimInv, Typed
  <2>3. k \in Nat /\ Claims(row.id) \in Int /\ Claims(row.id) >= 0 /\ Epsilon \in Nat
    BY PaperAssumption, LedgerAssumption, ClaimsBound DEF ClaimInv
  <2> HIDE DEF k, c
  <2>4. c >= -k - Epsilon
    BY <2>1, <2>2, <2>3
  <2> QED
    BY <2>4 DEF k, c
<1> QED
  BY <1>1, <1>2, <1>3, PTL DEF Spec
============================================================================
