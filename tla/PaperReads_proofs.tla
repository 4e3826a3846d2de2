-------------------------- MODULE PaperReads_proofs -------------------------
(***************************************************************************)
(* What the readers of paper trading see, whatever is traded, deleted and  *)
(* revoked beside them.  A client that walks down a history sees each      *)
(* trade that was there, and sees it once; a view is computed from all     *)
(* that was stored when it was asked for; a quote says what a trade will   *)
(* be taken for.                                                           *)
(***************************************************************************)
EXTENDS PaperReads, PaperTrading_proofs, SequenceTheorems

-----------------------------------------------------------------------------
(* What a walk remembers *)

\* Ids are given in the order of the inserts.
Serial ==
  /\ lastTrade \in Nat
  /\ \A t \in trades : t.id \in Nat \ {0} /\ t.id <= lastTrade

\* What the walk remembers: the cursor is the lowest id shown so far.
Remembers(w, last) ==
  /\ DOMAIN w = {"portfolio", "limit", "cursor", "pages", "start"}
  /\ w.cursor \in Nat
  /\ \E S : w.pages \in Seq(S)
  /\ \A t \in w.start : t.id \in Nat \ {0} /\ t.id <= last /\ t.portfolio = w.portfolio
  /\ \A i \in DOMAIN w.pages : \A t \in w.pages[i] :
       t.id \in Nat /\ (w.cursor > 0 => w.cursor <= t.id)

\* WalkMissesNothing and WalkShowsOnce, of a walk and a table.
ShownBy(w) == UNION {w.pages[i] : i \in DOMAIN w.pages}
Misses(w, table) ==
  {t \in w.start : ~(t \in ShownBy(w) \/ t \notin table \/ (w.cursor > 0 /\ t.id < w.cursor))}
Descends(pages) ==
  \A i, j \in DOMAIN pages : i < j => \A t \in pages[i], u \in pages[j] : u.id < t.id

WalkInv ==
  /\ Serial
  /\ walk # Idle =>
       /\ Remembers(walk, lastTrade)
       /\ Misses(walk, trades) = {}
       /\ Descends(walk.pages)

-----------------------------------------------------------------------------
(* The handlers that write *)

\* Trades are only inserted with a fresh id, or deleted.
Appends ==
  \/ trades' \subseteq trades /\ lastTrade' = lastTrade
  \/ \E new : /\ new.id = lastTrade + 1 /\ lastTrade' = lastTrade + 1
              /\ trades' = trades \cup {new}

LEMMA NextAppends ==
  ASSUME [Next]_vars
  PROVE  Appends
<1>1. ASSUME NEW r \in Requests, PortfolioStep(r) PROVE Appends
  BY <1>1 DEF PortfolioStep, CountPortfolios, CreatePortfolio, store, Appends
<1>2. ASSUME NEW r \in Requests, Insert(r) PROVE Appends
  <2>1. CASE PortfolioExists(req[r].portfolio)
    <3>1. InsertTrade(req[r].portfolio, Entry(req[r].order, req[r].price), req[r].at)
      BY <1>2, <2>1 DEF Insert
    <3> QED
      BY <3>1 DEF InsertTrade, Appends
  <2>2. CASE ~PortfolioExists(req[r].portfolio)
    BY <1>2, <2>2 DEF Insert, Appends
  <2> QED
    BY <2>1, <2>2
<1>3. ASSUME NEW r \in Requests, TradeStep(r) PROVE Appends
  <2>1. ASSUME NEW p, NEW order, ResolvePortfolio(r, p, order) PROVE Appends
    BY <2>1 DEF ResolvePortfolio, store, Appends
  <2>2. ASSUME NEW price, Price(r, price) PROVE Appends
    BY <2>2 DEF Price, store, Appends
  <2>3. ASSUME LoadTrades(r) \/ TouchPortfolio(r) \/ Respond(r) PROVE Appends
    BY <2>3 DEF LoadTrades, TouchPortfolio, Respond, store, Appends
  <2> QED
    BY <1>2, <1>3, <2>1, <2>2, <2>3 DEF TradeStep
<1>4. ASSUME NEW r \in Requests, Abandon(r) PROVE Appends
  BY <1>4 DEF Abandon, store, Appends
<1>5. ASSUME NEW p, DeletePortfolio(p) PROVE Appends
  BY <1>5 DEF DeletePortfolio, DeletePortfolios, Appends
<1>6. ASSUME NEW d, RegisterDevice(d) \/ RevokeDevice(d) PROVE Appends
  BY <1>6 DEF RegisterDevice, RevokeDevice, DeletePortfolios, Appends
<1>7. CASE UNCHANGED vars
  BY <1>7 DEF vars, Appends
<1> QED
  BY <1>1, <1>3, <1>4, <1>5, <1>6, <1>7 DEF Next

\* A walk in progress survives them: a new trade is none of those it began with.
LEMMA WritersKeep ==
  ASSUME WalkInv, [Next]_vars, UNCHANGED walk
  PROVE  WalkInv'
<1>1. Appends
  BY NextAppends
<1>2. Serial' /\ lastTrade \in Nat /\ lastTrade' \in Nat /\ lastTrade <= lastTrade'
  BY <1>1 DEF Appends, WalkInv, Serial
<1>3. ASSUME walk # Idle
      PROVE  Remembers(walk, lastTrade') /\ Misses(walk, trades') = {}
  <2>1. Remembers(walk, lastTrade) /\ Misses(walk, trades) = {}
    BY <1>3 DEF WalkInv
  <2>2. Remembers(walk, lastTrade')
    BY <1>2, <2>1 DEF Remembers
  <2>3. \A t \in walk.start : t \in trades' => t \in trades
    <3>1. \A t \in walk.start : t.id <= lastTrade /\ t.id \in Nat
      BY <2>1 DEF Remembers
    <3> QED
      BY <1>1, <1>2, <3>1 DEF Appends
  <2> QED
    BY <2>1, <2>2, <2>3 DEF Misses
<1> QED
  BY <1>2, <1>3 DEF WalkInv

-----------------------------------------------------------------------------
(* The pages *)

\* A page and its cursor: the rows left out lie below the cursor, the rows shown
\* do not, and without a cursor nothing is left out.
LEMMA PageAndCursor ==
  ASSUME NEW rows, NEW page \in SUBSET rows, NEW limit, NEW cursor \in Nat,
         \A t \in rows : t.id \in Nat \ {0},
         IsPage(page, rows, Clamped(limit)), CursorOf(cursor, page, limit)
  PROVE  /\ \A t \in rows \ page : cursor > 0 /\ t.id < cursor
         /\ cursor > 0 => \A t \in page : cursor <= t.id
         /\ cursor > 0 => \E t \in page : cursor = t.id
<1>1. CASE Cardinality(page) = Clamped(limit)
  <2>1. PICK last \in page : IsLast(last, page) /\ cursor = last.id
    BY <1>1 DEF CursorOf
  <2> QED
    BY <2>1 DEF IsPage, IsLast
<1>2. CASE Cardinality(page) # Clamped(limit)
  BY <1>2 DEF CursorOf, IsPage
<1> QED
  BY <1>1, <1>2

LEMMA FirstPageKeeps ==
  ASSUME WalkInv, NEW p, NEW limit, FirstPage(p, limit)
  PROVE  WalkInv'
<1>1. PICK page \in SUBSET Older(p, 0), cursor \in 0 .. lastTrade :
        /\ IsPage(page, Older(p, 0), Clamped(limit))
        /\ CursorOf(cursor, page, limit)
        /\ walk' = [portfolio |-> p, limit |-> limit, cursor |-> cursor,
                    pages |-> <<page>>, start |-> TradesOf(p)]
  BY DEF FirstPage
<1>2. UNCHANGED <<trades, lastTrade>> /\ Serial /\ Serial'
  BY DEF FirstPage, vars, WalkInv, Serial
<1>3. Older(p, 0) = TradesOf(p) /\ TradesOf(p) \subseteq trades
  BY DEF Older, TradesOf
<1>4. cursor \in Nat /\ \A t \in trades : t.id \in Nat \ {0} /\ t.id <= lastTrade
  BY <1>2 DEF Serial
<1>5. /\ \A t \in TradesOf(p) \ page : cursor > 0 /\ t.id < cursor
      /\ cursor > 0 => \A t \in page : cursor <= t.id
  BY <1>1, <1>3, <1>4, PageAndCursor
<1>6. /\ walk'.pages = <<page>> /\ walk'.pages \in Seq({page})
      /\ DOMAIN walk'.pages = {1} /\ walk'.pages[1] = page
      /\ walk'.start = TradesOf(p) /\ walk'.cursor = cursor /\ walk'.portfolio = p
  BY <1>1
<1>7. Remembers(walk', lastTrade)
  BY <1>1, <1>3, <1>4, <1>5, <1>6 DEF Remembers, TradesOf
<1>8. Misses(walk', trades) = {}
  BY <1>5, <1>6 DEF Misses, ShownBy
<1>9. Descends(walk'.pages)
  BY <1>6 DEF Descends
<1> QED
  BY <1>2, <1>7, <1>8, <1>9 DEF WalkInv

LEMMA NextPageKeeps ==
  ASSUME WalkInv, NextPage
  PROVE  WalkInv'
<1> DEFINE rows == Older(walk.portfolio, walk.cursor)
<1>1. PICK page \in SUBSET rows, cursor \in 0 .. lastTrade :
        /\ IsPage(page, rows, Clamped(walk.limit))
        /\ CursorOf(cursor, page, walk.limit)
        /\ walk' = [walk EXCEPT !.cursor = cursor, !.pages = Append(@, page)]
  BY DEF NextPage
<1>2. /\ UNCHANGED <<trades, lastTrade>> /\ Serial /\ Serial'
      /\ walk # Idle /\ walk.cursor > 0
      /\ Remembers(walk, lastTrade) /\ Misses(walk, trades) = {} /\ Descends(walk.pages)
  BY DEF NextPage, vars, WalkInv, Serial
<1>3. rows = {t \in trades : t.portfolio = walk.portfolio /\ t.id < walk.cursor}
  BY <1>2 DEF Older, TradesOf
<1> HIDE DEF rows
<1>4. /\ cursor \in Nat /\ lastTrade \in Nat
      /\ \A t \in trades : t.id \in Nat \ {0} /\ t.id <= lastTrade
  BY <1>2 DEF Serial
<1>5. /\ \A t \in rows \ page : cursor > 0 /\ t.id < cursor
      /\ cursor > 0 => \A t \in page : cursor <= t.id
      /\ cursor > 0 => \E t \in page : cursor = t.id
  BY <1>1, <1>3, <1>4, PageAndCursor
<1>6. PICK S : walk.pages \in Seq(S)
  BY <1>2 DEF Remembers
<1> DEFINE n == Len(walk.pages)
<1>7. /\ walk.pages \in Seq(S \cup {page}) /\ n \in Nat /\ DOMAIN walk.pages = 1 .. n
  BY <1>6, SeqDef
<1>8. /\ Append(walk.pages, page) \in Seq(S \cup {page})
      /\ DOMAIN Append(walk.pages, page) = 1 .. n + 1
      /\ \A i \in 1 .. n : Append(walk.pages, page)[i] = walk.pages[i]
      /\ Append(walk.pages, page)[n + 1] = page
  BY <1>7, AppendProperties
<1>9. /\ walk'.pages = Append(walk.pages, page) /\ walk'.cursor = cursor
      /\ walk'.start = walk.start /\ walk'.portfolio = walk.portfolio
  BY <1>1, <1>2 DEF Remembers
<1>10. Remembers(walk', lastTrade)
  <2>1. \A i \in DOMAIN walk'.pages : \A t \in walk'.pages[i] :
          t.id \in Nat /\ (walk'.cursor > 0 => walk'.cursor <= t.id)
    <3>1. ASSUME NEW i \in 1 .. n, NEW t \in walk'.pages[i], cursor > 0
          PROVE  cursor <= t.id
      <4>1. t.id \in Nat /\ walk.cursor <= t.id /\ walk.cursor \in Nat
        BY <1>2, <1>7, <1>8, <1>9, <3>1 DEF Remembers
      <4>2. PICK u \in page : cursor = u.id
        BY <1>5, <3>1
      <4>3. cursor < walk.cursor
        BY <1>3, <4>2
      <4> QED
        BY <1>4, <4>1, <4>3
    <3>2. \A i \in 1 .. n : \A t \in walk'.pages[i] : t.id \in Nat
      BY <1>2, <1>7, <1>8, <1>9 DEF Remembers
    <3>3. \A t \in walk'.pages[n + 1] : t.id \in Nat /\ (cursor > 0 => cursor <= t.id)
      BY <1>3, <1>4, <1>5, <1>8, <1>9
    <3> QED
      BY <1>7, <1>8, <1>9, <3>1, <3>2, <3>3
  <2>2. DOMAIN walk' = DOMAIN walk
    BY <1>1
  <2>3. \E T : walk'.pages \in Seq(T)
    BY <1>8, <1>9
  <2>4. \A t \in walk'.start :
          t.id \in Nat \ {0} /\ t.id <= lastTrade /\ t.portfolio = walk'.portfolio
    BY <1>2, <1>9 DEF Remembers
  <2> QED
    BY <1>2, <1>4, <1>9, <2>1, <2>2, <2>3, <2>4 DEF Remembers
<1>11. Misses(walk', trades) = {}
  <2>1. ShownBy(walk') = ShownBy(walk) \cup page
    BY <1>7, <1>8, <1>9 DEF ShownBy
  <2>2. ASSUME NEW t \in walk.start, t \in trades, t \notin ShownBy(walk), t \notin page
        PROVE  cursor > 0 /\ t.id < cursor
    <3>1. t.id < walk.cursor
      BY <1>2, <2>2 DEF Misses
    <3>2. t \in rows
      BY <1>2, <1>3, <2>2, <3>1 DEF Remembers
    <3> QED
      BY <1>5, <2>2, <3>2
  <2> QED
    BY <1>9, <2>1, <2>2 DEF Misses
<1>12. Descends(walk'.pages)
  <2> SUFFICES ASSUME NEW i \in 1 .. n + 1, NEW j \in 1 .. n + 1, i < j,
                      NEW t \in walk'.pages[i], NEW u \in walk'.pages[j]
               PROVE  u.id < t.id
    BY <1>8, <1>9 DEF Descends
  <2>1. i \in 1 .. n /\ t \in walk.pages[i]
    BY <1>7, <1>8, <1>9
  <2>2. CASE j = n + 1
    <3>1. walk.cursor <= t.id /\ t.id \in Nat
      BY <1>2, <1>7, <2>1 DEF Remembers
    <3>2. u.id < walk.cursor /\ u.id \in Nat /\ walk.cursor \in Nat
      BY <1>2, <1>3, <1>4, <1>8, <1>9, <2>2 DEF Remembers
    <3> QED
      BY <3>1, <3>2
  <2>3. CASE j # n + 1
    <3>1. j \in 1 .. n /\ u \in walk.pages[j]
      BY <1>7, <1>8, <1>9, <2>3
    <3> QED
      BY <1>2, <1>7, <2>1, <3>1 DEF Descends
  <2> QED
    BY <2>2, <2>3
<1> QED
  BY <1>2, <1>10, <1>11, <1>12 DEF WalkInv

-----------------------------------------------------------------------------

LEMMA WalkInit == ReadInit => WalkInv
  BY DEF ReadInit, Init, PaperStoreInit, WalkInv, Serial

LEMMA WalkKept == WalkInv /\ [ReadNext]_allVars => WalkInv'
<1> SUFFICES ASSUME WalkInv, [ReadNext]_allVars PROVE WalkInv'
  OBVIOUS
<1>1. CASE [Next]_vars /\ UNCHANGED walk
  BY <1>1, WritersKeep
<1>2. ASSUME ViewStep PROVE UNCHANGED vars
  BY <1>2 DEF ViewStep, Begin, StartList, StartView, LoadView, ShowView, AbandonView
<1>3. ASSUME NEW p, NEW limit, FirstPage(p, limit) PROVE WalkInv'
  BY <1>3, FirstPageKeeps
<1>4. ASSUME NextPage PROVE WalkInv'
  BY <1>4, NextPageKeeps
<1>5. ASSUME EndWalk PROVE WalkInv'
  BY <1>5 DEF EndWalk, vars, WalkInv, Serial
<1> QED
  BY <1>1, <1>2, <1>3, <1>4, <1>5 DEF ReadNext, WalkStep, allVars

LEMMA WalkSpec == ReadSpec => []WalkInv
<1>1. ReadInit => WalkInv
  BY WalkInit
<1>2. WalkInv /\ [ReadNext]_allVars => WalkInv'
  BY WalkKept
<1> QED
  BY <1>1, <1>2, PTL DEF ReadSpec

\* No trade is skipped, for any page size and any number of requests that
\* insert, delete or revoke between two pages: the cursor is the last id shown,
\* and what was left out lies below it.
THEOREM CompleteWalk == ReadSpec => []WalkMissesNothing
<1>1. WalkInv => WalkMissesNothing
  BY DEF WalkInv, WalkMissesNothing, Misses, ShownBy, Shown
<1> QED
  BY <1>1, WalkSpec, PTL

\* No trade is shown twice: a page is taken from below the lowest id shown.
THEOREM WalkOnce == ReadSpec => []WalkShowsOnce
<1>1. WalkInv => WalkShowsOnce
  BY DEF WalkInv, WalkShowsOnce, Descends
<1> QED
  BY <1>1, WalkSpec, PTL

-----------------------------------------------------------------------------
(* What a view remembers *)

\* The readers leave to the writers what is theirs: with them beside it, paper
\* trading is still that of PaperTrading, with every theorem about it.
THEOREM ReadersOnlyRead == ReadSpec => Spec
<1>1. ReadInit => Init
  BY DEF ReadInit
<1>2. [ReadNext]_allVars => [Next]_vars
  BY DEF ReadNext, ViewStep, Begin, StartList, StartView, LoadView, ShowView, AbandonView,
         WalkStep, FirstPage, NextPage, EndWalk, allVars
<1> QED
  BY <1>1, <1>2, PTL DEF ReadSpec, Spec

\* A row read earlier agrees with the table and with the requests on its balance.
SameBalance(row) ==
  /\ row.id <= lastPortfolio
  /\ \A other \in portfolios : other.id = row.id => other.balance = row.balance
  /\ \A r \in Requests :
       req[r] \in TradeJob /\ req[r].portfolio = row.id => req[r].balance = row.balance

\* A list loaded earlier is the portfolio's at a moment after the request came.
CurrentList(row, ts, since) ==
  PortfolioExists(row.id) =>
    \E k \in since .. lastTrade : ts = InOrder(StoredBy(TradesOf(row.id), k))

ViewShape ==
  /\ DOMAIN view = {"rows", "since", "loaded"}
  /\ view.rows \subseteq PortfolioRow
  /\ view.since \in Nat /\ view.since <= lastTrade
Viewed ==
  view # Idle =>
    /\ ViewShape
    /\ \A row \in view.rows :
         /\ SameBalance(row)
         /\ row.id \in DOMAIN view.loaded =>
              CurrentList(row, view.loaded[row.id], view.since)

\* The writers: a balance is never written again, and an id never given twice.
LEMMA BalanceStays ==
  ASSUME Typed, Typed', Effect, NEW row \in PortfolioRow, SameBalance(row)
  PROVE  SameBalance(row)'
<1>1. /\ lastPortfolio \in Nat /\ lastPortfolio' \in Nat /\ lastPortfolio <= lastPortfolio'
      /\ row.id \in Nat /\ row.id <= lastPortfolio
      /\ \A old \in portfolios : old.id = row.id => old.balance = row.balance
      /\ \A r \in Requests :
           req[r] \in TradeJob /\ req[r].portfolio = row.id => req[r].balance = row.balance
  <2>1. lastPortfolio \in Nat /\ lastPortfolio' \in Nat
    BY DEF Typed, StoreOK, PaperStoreTypeOK
  <2>2. lastPortfolio <= lastPortfolio'
    BY <2>1 DEF Effect, Rests, Steady, Resolves, Loads, Decides, Inserts, Touches
  <2> QED
    BY <2>1, <2>2 DEF SameBalance, PortfolioRow
<1>2. ASSUME NEW other \in portfolios', other.id = row.id
      PROVE  other.balance = row.balance
  <2>1. Stays(other) \/ other \in portfolios \/ (other.id = lastPortfolio' /\ lastPortfolio < lastPortfolio')
    BY <1>2 DEF Effect, Rests, Steady, Resolves, Loads, Decides, Inserts, Touches
  <2>2. \E old \in portfolios : old.id = other.id /\ old.balance = other.balance
    BY <1>1, <1>2, <2>1 DEF Stays
  <2> QED
    BY <1>1, <1>2, <2>2
<1>3. ASSUME NEW s \in Requests, req'[s] \in TradeJob, req'[s].portfolio = row.id
      PROVE  req'[s].balance = row.balance
  <2>1. CASE Rests
    BY <1>1, <1>3, <2>1, RestsJobs
  <2>2. ASSUME NEW r \in Requests, Resolves(r) \/ Loads(r) \/ Decides(r) \/ Inserts(r) \/ Touches(r)
        PROVE  req'[s].balance = row.balance
    <3>1. CASE s # r
      BY <1>1, <1>3, <2>2, <3>1 DEF Resolves, Loads, Decides, Inserts, Touches, Onward, Others
    <3>2. CASE s = r /\ Resolves(r)
      BY <1>1, <1>3, <3>2 DEF Resolves
    <3>3. CASE s = r /\ ~Resolves(r)
      BY <1>1, <1>3, <2>2, <3>3 DEF Loads, Decides, Inserts, Touches, Onward
    <3> QED
      BY <3>1, <3>2, <3>3
  <2> QED
    BY <2>1, <2>2 DEF Effect
<1> QED
  BY <1>1, <1>2, <1>3 DEF SameBalance

\* The ids of the trades count them.
LEMMA Counted ==
  ASSUME Typed, NEW p
  PROVE  lastTrade \in Nat /\ \A t \in TradesOf(p) : t.id \in Nat /\ t.id <= lastTrade
BY StoreParts DEF Typed, StoreOK, Keyed, TradesOf

\* The writers: what is stored later has a higher id, and leaves the list as it was.
LEMMA CurrentStays ==
  ASSUME Typed, Typed', Agreed, Effect, NEW row \in PortfolioRow, SameBalance(row),
         NEW ts, NEW since \in Nat, CurrentList(row, ts, since)
  PROVE  PortfolioExists(row.id)' =>
           \E k \in since .. lastTrade' : ts = InOrder(StoredBy(TradesOf(row.id)', k))
<1> SUFFICES ASSUME NEW other \in portfolios', other.id = row.id
             PROVE  \E k \in since .. lastTrade' : ts = InOrder(StoredBy(TradesOf(row.id)', k))
  BY DEF PortfolioExists
<1>1. lastTrade \in Nat /\ lastTrade' \in Nat /\ lastTrade <= lastTrade'
  <2>1. lastTrade' = lastTrade \/ lastTrade' = lastTrade + 1
    BY DEF Effect, Rests, Steady, Resolves, Loads, Decides, Inserts, Touches
  <2> QED
    BY <2>1, Counted
<1>2. Rests => Stays(other)
  <2>1. row.id <= lastPortfolio /\ row.id \in Nat /\ lastPortfolio \in Nat
    BY DEF SameBalance, PortfolioRow, Typed, StoreOK, PaperStoreTypeOK
  <2>2. ASSUME Rests PROVE Stays(other) \/ (other.id = lastPortfolio' /\ lastPortfolio < lastPortfolio')
    BY <2>2 DEF Rests
  <2> QED
    BY <2>1, <2>2
<1>3. /\ PortfolioExists(row.id)
      /\ \A t \in TradesOf(row.id)' : t \in TradesOf(row.id) \/ t.id = lastTrade + 1
      /\ TradesOf(row.id) \subseteq TradesOf(row.id)'
  <2>1. /\ PortfolioExists(other.id)
        /\ \A t \in TradesOf(other.id)' : t \in TradesOf(other.id) \/ t.id = lastTrade + 1
        /\ TradesOf(other.id) \subseteq TradesOf(other.id)'
    BY <1>2, StoredNow
  <2> QED
    BY <2>1
<1>4. PICK k \in since .. lastTrade : ts = InOrder(StoredBy(TradesOf(row.id), k))
  BY <1>3 DEF CurrentList
<1>5. StoredBy(TradesOf(row.id)', k) = StoredBy(TradesOf(row.id), k)
  BY <1>1, <1>3, <1>4 DEF StoredBy
<1>6. k \in since .. lastTrade'
  BY <1>1, <1>4
<1> QED
  BY <1>4, <1>5, <1>6

LEMMA ViewedByWriters ==
  ASSUME Typed, Typed', Agreed, Effect, Viewed, UNCHANGED view
  PROVE  Viewed'
<1>1. lastTrade \in Nat /\ lastTrade' \in Nat /\ lastTrade <= lastTrade'
  <2>1. lastTrade' = lastTrade \/ lastTrade' = lastTrade + 1
    BY DEF Effect, Rests, Steady, Resolves, Loads, Decides, Inserts, Touches
  <2> QED
    BY <2>1, Counted
<1>2. ASSUME view # Idle, NEW row \in view.rows
      PROVE  /\ SameBalance(row)'
             /\ row.id \in DOMAIN view.loaded =>
                  CurrentList(row, view.loaded[row.id], view.since)'
  <2>1. row \in PortfolioRow /\ SameBalance(row) /\ view.since \in Nat
    BY <1>2 DEF Viewed, ViewShape
  <2>2. ASSUME row.id \in DOMAIN view.loaded
        PROVE  CurrentList(row, view.loaded[row.id], view.since)'
    <3> DEFINE ts == view.loaded[row.id]
               since == view.since
    <3>1. CurrentList(row, ts, since) /\ since \in Nat
      BY <1>2, <2>1, <2>2 DEF Viewed
    <3>2. UNCHANGED <<ts, since>>
      OBVIOUS
    <3> HIDE DEF ts, since
    <3>3. PortfolioExists(row.id)' =>
            \E k \in since .. lastTrade' : ts = InOrder(StoredBy(TradesOf(row.id)', k))
      BY <2>1, <3>1, CurrentStays
    <3> QED
      BY <3>2, <3>3 DEF CurrentList, StoredBy, ts, since
  <2> QED
    BY <2>1, <2>2, BalanceStays
<1>3. view # Idle => ViewShape'
  BY <1>1 DEF Viewed, ViewShape
<1> QED
  BY <1>2, <1>3 DEF Viewed

\* A row of the table that the requests agree with.
LEMMA RowSameBalance ==
  ASSUME Typed, Agreed, NEW row \in portfolios
  PROVE  row \in PortfolioRow /\ SameBalance(row)
<1>1. row \in PortfolioRow /\ row.id <= lastPortfolio
  BY StoreParts DEF Typed, StoreOK, Keyed
<1> QED
  BY <1>1 DEF Typed, StoreOK, Keyed, KeysHold, Agreed, SameBalance

\* What LoadView reads: all that is stored.
LEMMA LoadedCurrent ==
  ASSUME Typed, NEW row, NEW since \in Nat, since <= lastTrade
  PROVE  CurrentList(row, ListAllByPortfolio(row.id), since)
<1>1. StoredBy(TradesOf(row.id), lastTrade) = TradesOf(row.id) /\ lastTrade \in since .. lastTrade
  BY Counted DEF StoredBy
<1> QED
  BY <1>1 DEF CurrentList, ListAllByPortfolio

LEMMA LoadViewKeeps ==
  ASSUME Typed, Viewed, LoadView
  PROVE  Viewed'
<1>1. view # Idle /\ UNCHANGED vars
  BY DEF LoadView
<1>2. PICK p : view' = [view EXCEPT !.loaded =
                          [q \in DOMAIN @ \cup {p} |->
                             IF q = p THEN ListAllByPortfolio(p) ELSE @[q]]]
  BY DEF LoadView
<1>3. ViewShape
  BY <1>1 DEF Viewed
<1>4. /\ DOMAIN view' = {"rows", "since", "loaded"}
      /\ view'.rows = view.rows /\ view'.since = view.since
      /\ view'.loaded = [q \in DOMAIN view.loaded \cup {p} |->
                           IF q = p THEN ListAllByPortfolio(p) ELSE view.loaded[q]]
  BY <1>2, <1>3 DEF ViewShape
<1>5. ASSUME NEW row \in view.rows
      PROVE  /\ SameBalance(row)
             /\ row.id \in DOMAIN view'.loaded =>
                  CurrentList(row, view'.loaded[row.id], view.since)
  <2>1. /\ row \in PortfolioRow /\ SameBalance(row)
        /\ view.since \in Nat /\ view.since <= lastTrade
    BY <1>1, <1>3, <1>5 DEF Viewed, ViewShape
  <2>2. CASE row.id = p
    BY <1>4, <2>1, <2>2, LoadedCurrent
  <2>3. CASE row.id # p
    BY <1>1, <1>4, <1>5, <2>1, <2>3 DEF Viewed
  <2> QED
    BY <2>1, <2>2, <2>3
<1>6. UNCHANGED <<registered, portfolios, trades, lastPortfolio, lastTrade, req, now, raced>>
  BY <1>1 DEF vars
<1>7. ASSUME NEW row \in view'.rows
      PROVE  /\ SameBalance(row)'
             /\ row.id \in DOMAIN view'.loaded =>
                  CurrentList(row, view.loaded[row.id], view.since)'
  <2>1. SameBalance(row)'
    BY <1>4, <1>5, <1>6, <1>7 DEF SameBalance
  <2>2. TradesOf(row.id)' = TradesOf(row.id) /\ PortfolioExists(row.id)' = PortfolioExists(row.id)
    BY <1>6 DEF TradesOf, PortfolioExists
  <2>3. row.id \in DOMAIN view'.loaded => CurrentList(row, view'.loaded[row.id], view.since)
    BY <1>4, <1>5, <1>7
  <2> QED
    BY <1>4, <1>6, <2>1, <2>2, <2>3 DEF CurrentList, StoredBy
<1>8. ViewShape'
  BY <1>1, <1>3, <1>4, <1>6 DEF Viewed, ViewShape
<1> QED
  BY <1>7, <1>8 DEF Viewed

\* A view begins with rows of the table.
LEMMA StartKeeps ==
  ASSUME Typed, Agreed, NEW rows \in SUBSET portfolios, Begin(rows)
  PROVE  Viewed'
<1>1. /\ DOMAIN view' = {"rows", "since", "loaded"} /\ view'.rows = rows
      /\ view'.since = lastTrade /\ lastTrade \in Nat /\ DOMAIN view'.loaded = {}
  BY Counted DEF Begin
<1>2. \A row \in rows : row \in PortfolioRow /\ SameBalance(row)
  BY RowSameBalance
<1> QED
  BY <1>1, <1>2 DEF Begin, Viewed, ViewShape, SameBalance, vars

LEMMA ViewedStep ==
  ASSUME TradingInv, TradingInv', Viewed, [ReadNext]_allVars
  PROVE  Viewed'
<1>1. Typed /\ Typed' /\ Agreed
  BY DEF TradingInv
<1>2. CASE UNCHANGED view /\ [Next]_vars
  BY <1>1, <1>2, TypedStep, ViewedByWriters
<1>3. ASSUME NEW d, StartList(d) PROVE Viewed'
  <2>1. OwnedBy(d) \in SUBSET portfolios
    BY DEF OwnedBy
  <2> QED
    BY <1>1, <1>3, <2>1, StartKeeps DEF StartList
<1>4. ASSUME NEW p, StartView(p) PROVE Viewed'
  <2>1. {PortfolioOf(p)} \in SUBSET portfolios
    BY <1>1, <1>4, PortfolioOfRow DEF Typed, StartView
  <2> QED
    BY <1>1, <1>4, <2>1, StartKeeps DEF StartView
<1>5. CASE LoadView
  BY <1>1, <1>5, LoadViewKeeps
<1>6. CASE ShowView \/ AbandonView
  BY <1>6 DEF ShowView, AbandonView, Viewed
<1>7. CASE WalkStep /\ UNCHANGED view
  BY <1>2, <1>7 DEF WalkStep, FirstPage, NextPage, EndWalk
<1> QED
  BY <1>2, <1>3, <1>4, <1>5, <1>6, <1>7 DEF ReadNext, ViewStep, allVars

LEMMA ViewedSpec == ReadSpec => [](TradingInv /\ Viewed)
<1>1. ReadInit => Viewed
  BY DEF ReadInit, Viewed
<1>2. TradingInv /\ TradingInv' /\ Viewed /\ [ReadNext]_allVars => Viewed'
  BY ViewedStep
<1> QED
  BY <1>1, <1>2, ReadersOnlyRead, TradingSpec, PTL DEF ReadSpec

-----------------------------------------------------------------------------
(* What a view shows *)

\* Whatever is traded, deleted or revoked between the queries of a view, by
\* requests that overtake each other too, each list of trades behind it is the
\* portfolio's at one moment after the view was asked for.
THEOREM CurrentTheorem == ReadSpec => []ViewIsCurrent
<1>1. TradingInv /\ Viewed => ViewIsCurrent
  BY DEF Viewed, ViewIsCurrent, ToLoad, CurrentList, StoredBy
<1> QED
  BY <1>1, ViewedSpec, PTL

-----------------------------------------------------------------------------
(* What a quote promises *)

LEMMA DivideLimit ==
  ASSUME NEW a \in Nat, NEW p \in Nat \ {0}, NEW c \in Nat
  PROVE  a * p <= c <=> a <= c \div p
OBVIOUS

\* What cash can buy at a price, give or take e.
LEMMA BuyLimits ==
  ASSUME NEW a \in Nat \ {0}, NEW p \in Nat \ {0}, NEW c \in Int, NEW e \in Nat,
         NEW buy \in IF c <= 0 THEN {0} ELSE {c \div p, c \div p + 1}
  PROVE  /\ a < buy => a * p <= c + e
         /\ a * p <= c + e => a <= buy + 1 + e \div p
<1>1. a * p \in Nat /\ e \div p \in Nat
  OBVIOUS
<1>2. CASE c <= 0
  <2>1. a * p <= e => a <= e \div p
    BY DivideLimit
  <2> QED
    BY <1>1, <1>2, <2>1
<1>3. CASE c > 0
  <2> DEFINE q == c \div p
             f == e \div p
  <2>1. c \in Nat /\ q \in Nat /\ f \in Nat /\ (buy = q \/ buy = q + 1)
    BY <1>3
  <2>2. a <= q <=> a * p <= c
    BY <2>1, DivideLimit
  <2>3. c < (q + 1) * p /\ e < (f + 1) * p
    BY <2>1
  <2>4. a * p <= c + e => a < q + 1 + f + 1
    <3> DEFINE n == q + 1 + f + 1
    <3>1. n \in Nat /\ n * p = (q + 1) * p + (f + 1) * p
      BY <2>1
    <3>2. n <= a => n * p <= a * p
      BY <3>1
    <3>3. n * p \in Nat /\ c + e < n * p
      BY <2>1, <2>3, <3>1
    <3> HIDE DEF n
    <3>4. a * p <= c + e => a < n
      BY <1>1, <2>1, <3>1, <3>2, <3>3
    <3> QED
      BY <3>4 DEF n
  <2> HIDE DEF q, f
  <2>5. a < buy => a * p <= c + e
    BY <1>1, <2>1, <2>2
  <2>6. a * p <= c + e => a <= buy + 1 + f
    BY <1>1, <2>1, <2>4
  <2> QED
    BY <2>5, <2>6 DEF f
<1> QED
  BY <1>2, <1>3

\* On the ledger and at the price of a quote, an order below its limits is taken,
\* and none goes beyond them by more than a rounding and the tolerance, also when
\* the portfolio is overdrawn.
THEOREM QuoteTheorem == ReadSpec => []QuoteIsActionable
<1>1. TradingInv /\ Viewed => QuoteIsActionable
  <2> SUFFICES ASSUME TradingInv, Viewed, Loaded, NEW row \in view.rows,
                      NEW price \in Prices, Usable(price), NEW r \in Requests,
                      At(r, "price"), req[r].portfolio = row.id,
                      req[r].pre = view.loaded[row.id],
                      NEW quoted \in Quote(row, view.loaded[row.id], req[r].order.coin, price)
               PROVE  /\ Promised(req[r].order, quoted) => Covers(req[r], price)
                      /\ Covers(req[r], price) => Tolerated(req[r].order, quoted, price)
    BY DEF QuoteIsActionable
  <2> DEFINE job == req[r]
             order == job.order
             state == Compute(row.balance, view.loaded[row.id])
  <2>1. job \in TradeJob /\ price \in Nat \ {0}
    BY PaperAssumption, JobKinds DEF TradingInv, Usable
  <2>2. order \in OrderType /\ job.balance \in Nat
    BY <2>1 DEF TradeJob
  <2>3. job.balance = row.balance
    BY <2>1 DEF Loaded, Viewed, SameBalance
  <2>4. state \in Ledger
    BY <2>1, <2>2, <2>3, LoadedRows, ComputeType
  <2>5. Covers(job, price) <=>
          IF order.side = "buy" THEN order.amount * price <= state.cash + Epsilon
                                ELSE order.amount <= state.amount[order.coin] + Epsilon
    BY <2>3 DEF Covers
  <2>6. /\ quoted.buy \in IF state.cash <= 0 THEN {0}
                          ELSE {state.cash \div price, state.cash \div price + 1}
        /\ quoted.sell = state.amount[order.coin]
    BY DEF Quote
  <2> HIDE DEF job, order, state
  <2>7. order.amount \in Nat \ {0} /\ order.coin \in Coins
    BY <2>2 DEF OrderType
  <2>8. state.cash \in Int /\ state.amount[order.coin] \in Int /\ Epsilon \in Nat
    BY <2>4, <2>7, LedgerParts, LedgerAssumption
  <2>9. /\ order.amount < quoted.buy => order.amount * price <= state.cash + Epsilon
        /\ order.amount * price <= state.cash + Epsilon
             => order.amount <= quoted.buy + 1 + Epsilon \div price
    <3> DEFINE a == order.amount
               c == state.cash
               buy == quoted.buy
    <3>1. a \in Nat \ {0} /\ c \in Int /\ buy \in IF c <= 0 THEN {0} ELSE {c \div price, c \div price + 1}
      BY <2>6, <2>7, <2>8
    <3> HIDE DEF a, c, buy
    <3>2. /\ a < buy => a * price <= c + Epsilon
          /\ a * price <= c + Epsilon => a <= buy + 1 + Epsilon \div price
      BY <2>1, <2>8, <3>1, BuyLimits
    <3> QED
      BY <3>2 DEF a, c, buy
  <2>10. /\ Promised(order, quoted) => Covers(job, price)
         /\ Covers(job, price) => Tolerated(order, quoted, price)
    BY <2>5, <2>6, <2>7, <2>8, <2>9 DEF Promised, Tolerated
  <2> QED
    BY <2>10 DEF job, order
<1> QED
  BY <1>1, ViewedSpec, PTL
=============================================================================
