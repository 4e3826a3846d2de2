---------------------------- MODULE PaperHistory ----------------------------
(***************************************************************************)
(* The trade history: GET .../trades answers with a page of trades, newest *)
(* first, and a cursor; a client walks down the pages by sending it back.  *)
(* Trades are inserted and portfolios deleted between two pages.           *)
(***************************************************************************)
EXTENDS PaperTrading

CONSTANTS PageLimits,  \* the limits clients ask for
          MaxPage      \* the most trades a page has, 200 in the code

\* A walk so far: the pages seen, the cursor of the last one, 0 without one,
\* and the trades there were when it began.
Walk == [portfolio : Nat, limit : Nat \ {0}, cursor : Nat,
         pages : Seq(SUBSET TradeRow), start : SUBSET TradeRow]

ASSUME HistoryAssumption ==
  PageLimits \subseteq Nat \ {0} /\ MaxPage \in Nat \ {0} /\ Idle \notin Walk

VARIABLE walk   \* the client's walk

-----------------------------------------------------------------------------
(* VirtualTradeRepo.ListPage *)

Clamped(limit) == IF limit > MaxPage THEN MaxPage ELSE limit

\* Faulty: the cursor is not exclusive.
OlderOrSame(p, before) ==
  {t \in TradesOf(p) : before > 0 => t.id <= before}

\* WHERE id < before; 0 stands for the first page.
Older(p, before) ==
  {t \in TradesOf(p) : before > 0 => t.id < before}

\* ORDER BY id DESC LIMIT n: the n of the highest ids, or all there are.
IsPage(page, rows, n) ==
  /\ \A t \in page, u \in rows \ page : u.id < t.id
  /\ Cardinality(page) <= n
  /\ Cardinality(page) = n \/ page = rows

IsLast(t, page) == t \in page /\ \A u \in page : t.id <= u.id

\* Faulty: the page is held against the limit asked for.
CursorOfAsked(cursor, page, limit) ==
  IF Cardinality(page) = limit THEN \E t \in page : IsLast(t, page) /\ cursor = t.id
                               ELSE cursor = 0

\* A full page has a cursor, the last id on it.
CursorOf(cursor, page, limit) ==
  IF Cardinality(page) = Clamped(limit)
    THEN \E t \in page : IsLast(t, page) /\ cursor = t.id
    ELSE cursor = 0

-----------------------------------------------------------------------------
(* listTrades, as a client follows it *)

FirstPage(p, limit) ==
  /\ walk = Idle /\ PortfolioExists(p)
  /\ \E page \in SUBSET Older(p, 0), cursor \in 0 .. lastTrade :
       /\ IsPage(page, Older(p, 0), Clamped(limit))
       /\ CursorOf(cursor, page, limit)
       /\ walk' = [portfolio |-> p, limit |-> limit, cursor |-> cursor,
                   pages |-> <<page>>, start |-> TradesOf(p)]
  /\ UNCHANGED vars

NextPage ==
  /\ walk # Idle /\ walk.cursor > 0 /\ PortfolioExists(walk.portfolio)
  /\ LET rows == Older(walk.portfolio, walk.cursor)
     IN  \E page \in SUBSET rows, cursor \in 0 .. lastTrade :
           /\ IsPage(page, rows, Clamped(walk.limit))
           /\ CursorOf(cursor, page, walk.limit)
           /\ walk' = [walk EXCEPT !.cursor = cursor, !.pages = Append(@, page)]
  /\ UNCHANGED vars

\* The last page was seen, the portfolio is gone (a 404, or an empty page if it
\* goes between the handler's two queries), or the client stops.
EndWalk == walk # Idle /\ walk' = Idle /\ UNCHANGED vars

WalkStep ==
  \/ \E p \in 1 .. lastPortfolio, limit \in PageLimits : FirstPage(p, limit)
  \/ NextPage \/ EndWalk

-----------------------------------------------------------------------------
(* Properties *)

Shown == UNION {walk.pages[i] : i \in DOMAIN walk.pages}

\* A walk skips no trade: what was there when it began and was not deleted with
\* its portfolio has been shown or lies below the cursor, also when trades are
\* inserted between two pages and when the limit asked for was clamped.
WalkMissesNothing ==
  walk # Idle =>
    \A t \in walk.start :
      t \in Shown \/ t \notin trades \/ (walk.cursor > 0 /\ t.id < walk.cursor)

\* A walk shows a trade once: from page to page the ids go down, whatever is
\* inserted or deleted between two pages.
WalkShowsOnce ==
  walk # Idle =>
    \A i, j \in DOMAIN walk.pages : i < j =>
      \A t \in walk.pages[i], u \in walk.pages[j] : u.id < t.id
=============================================================================
