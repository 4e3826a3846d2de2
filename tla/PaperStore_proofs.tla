------------------------- MODULE PaperStore_proofs -------------------------
(***************************************************************************)
(* What the operators of the paper-trading ledger and tables return, for   *)
(* every number of trades: the history of a portfolio is a list sorted by  *)
(* time and id, and the fold over it keeps books.                          *)
(***************************************************************************)
EXTENDS PaperStore, FoldLemmas

-----------------------------------------------------------------------------
(* Sorted lists of trades                                                  *)

\* Trades that ORDER BY puts in an order: numbers for times, ids of their own.
Sortable(ts) ==
  /\ IsFiniteSet(ts)
  /\ \A t \in ts : t.executedAt \in Nat /\ t.id \in Nat
  /\ \A t, u \in ts : t.id = u.id => t = u

Sorted(rows, ts) ==
  /\ rows \in SetToSeqs(ts)
  /\ \A i, j \in DOMAIN rows : i < j => Earlier(rows[i], rows[j])

RowsOf(rows) == {rows[i] : i \in DOMAIN rows}

LEMMA EarlierOrders ==
  ASSUME NEW ts, Sortable(ts), NEW t \in ts, NEW u \in ts
  PROVE  /\ t # u => Earlier(t, u) \/ Earlier(u, t)
         /\ ~(Earlier(t, u) /\ Earlier(u, t))
         /\ \A v \in ts : Earlier(t, u) /\ Earlier(u, v) => Earlier(t, v)
BY DEF Sortable, Earlier

LEMMA SortableSubset ==
  ASSUME NEW ts, Sortable(ts), NEW us \in SUBSET ts
  PROVE  Sortable(us)
BY FS_Subset DEF Sortable

\* A list of a finite set without repetition has all of its members.
LEMMA Lists ==
  ASSUME NEW S, IsFiniteSet(S), NEW rows \in SetToSeqs(S)
  PROVE  /\ Cardinality(S) \in Nat /\ Len(rows) = Cardinality(S)
         /\ DOMAIN rows = 1 .. Cardinality(S)
         /\ rows \in Seq(S) /\ RowsOf(rows) = S
         /\ \A i, j \in DOMAIN rows : i # j => rows[i] # rows[j]
<1> DEFINE n == Cardinality(S)
<1>1. n \in Nat
  BY FS_CardinalityType
<1>2. /\ rows \in [1 .. n -> S]
      /\ \A i, j \in 1 .. n : i # j => rows[i] # rows[j]
  BY DEF SetToSeqs
<1>3. rows \in Seq(S) /\ Len(rows) = n
  BY <1>1, <1>2
<1>4. rows \in Injection(1 .. n, S)
  BY <1>2 DEF Injection, IsInjective
<1>5. Cardinality(1 .. n) = n
  BY <1>1, FS_Interval
<1>6. rows \in Surjection(1 .. n, S)
  <2> HIDE DEF n
  <2> QED
    BY <1>4, <1>5, FS_Injection DEF n
<1>7. RowsOf(rows) = S
  BY <1>2, <1>6 DEF Surjection, RowsOf
<1> QED
  BY <1>1, <1>2, <1>3, <1>7

\* A trade later than all others goes to the end.
LEMMA SortedAppend ==
  ASSUME NEW ts, Sortable(ts), NEW t \in ts, NEW rows, Sorted(rows, ts \ {t}),
         \A u \in ts \ {t} : Earlier(u, t)
  PROVE  Sorted(Append(rows, t), ts)
<1> DEFINE n == Cardinality(ts \ {t})
           more == Append(rows, t)
<1>1. IsFiniteSet(ts) /\ IsFiniteSet(ts \ {t})
  BY FS_Subset DEF Sortable
<1>2. n \in Nat /\ Cardinality(ts) = n + 1
  <2>1. n = Cardinality(ts) - 1 /\ n \in Nat /\ Cardinality(ts) \in Nat
    BY <1>1, FS_RemoveElement, FS_CardinalityType
  <2> QED
    BY <2>1
<1>3. /\ rows \in Seq(ts \ {t}) /\ Len(rows) = n /\ DOMAIN rows = 1 .. n
      /\ \A i, j \in 1 .. n : i # j => rows[i] # rows[j]
      /\ \A i \in 1 .. n : rows[i] \in ts \ {t}
  <2>1. rows \in SetToSeqs(ts \ {t})
    BY DEF Sorted
  <2>2. /\ rows \in Seq(ts \ {t}) /\ Len(rows) = n /\ DOMAIN rows = 1 .. n
        /\ \A i, j \in DOMAIN rows : i # j => rows[i] # rows[j]
    BY <1>1, <2>1, Lists
  <2> HIDE DEF n
  <2> QED
    BY <1>2, <2>2
<1> HIDE DEF n
<1>4. /\ more \in [1 .. n + 1 -> ts]
      /\ \A i \in 1 .. n : more[i] = rows[i]
      /\ more[n + 1] = t
  <2>1. rows \in Seq(ts)
    BY <1>3
  <2>2. more \in Seq(ts) /\ Len(more) = n + 1
    BY <1>3, <2>1
  <2>3. (\A i \in 1 .. n : more[i] = rows[i]) /\ more[n + 1] = t
    BY <1>2, <1>3, <2>1
  <2> HIDE DEF more
  <2> QED
    BY <1>2, <2>2, <2>3
<1> HIDE DEF more
<1>5. \A i, j \in 1 .. n + 1 : i # j => more[i] # more[j]
  BY <1>2, <1>3, <1>4
<1>6. ASSUME NEW i \in 1 .. n + 1, NEW j \in 1 .. n + 1, i < j
      PROVE  Earlier(more[i], more[j])
  <2>1. i \in 1 .. n
    BY <1>2, <1>6
  <2>2. CASE j \in 1 .. n
    BY <1>3, <1>4, <1>6, <2>1, <2>2 DEF Sorted
  <2>3. CASE j = n + 1
    BY <1>3, <1>4, <2>1, <2>3
  <2> QED
    BY <1>2, <2>2, <2>3
<1>7. DOMAIN more = 1 .. n + 1
  BY <1>4
<1> QED
  BY <1>2, <1>4, <1>5, <1>6, <1>7 DEF Sorted, SetToSeqs, more

LEMMA LatestExists ==
  ASSUME NEW ts, Sortable(ts), ts # {}
  PROVE  \E t \in ts : \A u \in ts \ {t} : Earlier(u, t)
<1> DEFINE Latest(us, t) == t \in us /\ \A u \in us \ {t} : Earlier(u, t)
           F == {us \in SUBSET ts : us = {} \/ \E t \in us : Latest(us, t)}
<1>1. {} \in F
  OBVIOUS
<1>2. ASSUME NEW us \in SUBSET ts, NEW x \in ts, us \in F, x \notin us
      PROVE  us \cup {x} \in F
  <2>1. CASE us = {}
    BY <2>1
  <2>2. ASSUME NEW t \in us, Latest(us, t) PROVE us \cup {x} \in F
    <3>1. CASE Earlier(x, t)
      BY <2>2, <3>1
    <3>2. CASE Earlier(t, x)
      <4>1. \A u \in us : Earlier(u, x)
        BY <2>2, <3>2, EarlierOrders
      <4> QED
        BY <4>1
    <3> QED
      BY <1>2, <3>1, <3>2, EarlierOrders
  <2> QED
    BY <1>2, <2>1, <2>2
<1>3. ts \in F
  <2> HIDE DEF F
  <2> QED
    BY <1>1, <1>2, FiniteInduction DEF Sortable
<1> QED
  BY <1>3

LEMMA SortedExists ==
  ASSUME NEW ts, Sortable(ts)
  PROVE  \E rows : Sorted(rows, ts)
<1> DEFINE F == {us \in SUBSET ts : \E rows : Sorted(rows, us)}
<1>1. ASSUME NEW us \in SUBSET ts, \A vs \in SUBSET us : vs # us => vs \in F
      PROVE  us \in F
  <2>1. CASE us = {}
    <3>1. Cardinality({}) = 0 /\ 1 .. 0 = {}
      BY FS_EmptySet
    <3>2. Sorted(<<>>, {})
      BY <3>1 DEF Sorted, SetToSeqs
    <3> QED
      BY <2>1, <3>2
  <2>2. CASE us # {}
    <3>1. Sortable(us)
      BY SortableSubset
    <3>2. PICK t \in us : \A u \in us \ {t} : Earlier(u, t)
      BY <2>2, <3>1, LatestExists
    <3>3. PICK rows : Sorted(rows, us \ {t})
      BY <1>1
    <3>4. Sorted(Append(rows, t), us)
      BY <3>1, <3>2, <3>3, SortedAppend
    <3> QED
      BY <3>4
  <2> QED
    BY <2>1, <2>2
<1>2. \A us \in SUBSET ts : us \in F
  <2> HIDE DEF F
  <2> QED
    BY <1>1, SubsetInduction DEF Sortable
<1> QED
  BY <1>2

\* Where two sorted lists of the same trades first differ, the one has a trade
\* that the other has only later.
LEMMA FirstDifference ==
  ASSUME NEW n \in Nat, NEW a, NEW b, NEW k \in 1 .. n,
         DOMAIN a = 1 .. n, DOMAIN b = 1 .. n, RowsOf(a) = RowsOf(b),
         \A i, j \in 1 .. n : i # j => a[i] # a[j],
         \A i, j \in 1 .. n : i < j => Earlier(b[i], b[j]),
         \A i \in 1 .. n : i < k => a[i] = b[i],
         a[k] # b[k]
  PROVE  Earlier(b[k], a[k])
<1>1. a[k] \in RowsOf(b)
  BY DEF RowsOf
<1>2. PICK i \in 1 .. n : b[i] = a[k]
  BY <1>1 DEF RowsOf
<1>3. i # k /\ ~(i < k)
  BY <1>2
<1>4. k < i
  BY <1>3
<1> QED
  BY <1>2, <1>4

\* No two sorted lists have the same members: where they first differ, each
\* would be earlier than the other.
LEMMA SortedUnique ==
  ASSUME NEW ts, Sortable(ts), NEW a, Sorted(a, ts), NEW b, Sorted(b, ts)
  PROVE  a = b
<1> DEFINE n == Cardinality(ts)
<1>1. IsFiniteSet(ts) /\ a \in SetToSeqs(ts) /\ b \in SetToSeqs(ts)
  BY DEF Sortable, Sorted
<1>2. /\ n \in Nat /\ DOMAIN a = 1 .. n /\ DOMAIN b = 1 .. n
      /\ a \in Seq(ts) /\ b \in Seq(ts) /\ RowsOf(a) = ts /\ RowsOf(b) = ts
      /\ Len(a) = n /\ Len(b) = n
  BY <1>1, Lists
<1>3. /\ \A i, j \in DOMAIN a : i # j => a[i] # a[j]
      /\ \A i, j \in DOMAIN b : i # j => b[i] # b[j]
  BY <1>1, Lists
<1>4. \A i \in 1 .. n : a[i] \in ts /\ b[i] \in ts
  BY <1>2 DEF RowsOf
<1> HIDE DEF n
<1> DEFINE F == {k \in Nat : \A i \in 1 .. n : i <= k => a[i] = b[i]}
<1>5. 0 \in F
  BY <1>2
<1>6. ASSUME NEW k \in Nat, k \in F PROVE k + 1 \in F
  <2>1. \A i \in 1 .. n : i < k + 1 => a[i] = b[i]
    BY <1>6
  <2> HIDE DEF F
  <2>2. k + 1 \in 1 .. n => a[k + 1] = b[k + 1]
    <3> SUFFICES ASSUME k + 1 \in 1 .. n, a[k + 1] # b[k + 1] PROVE FALSE
      OBVIOUS
    <3>1. Earlier(b[k + 1], a[k + 1])
      BY <1>2, <1>3, <2>1, FirstDifference DEF Sorted
    <3>2. Earlier(a[k + 1], b[k + 1])
      <4>1. \A i \in 1 .. n : i < k + 1 => b[i] = a[i]
        BY <2>1
      <4> QED
        BY <1>2, <1>3, <4>1, FirstDifference DEF Sorted
    <3> QED
      BY <1>4, <3>1, <3>2, EarlierOrders
  <2>3. \A i \in 1 .. n : i <= k + 1 => a[i] = b[i]
    BY <2>1, <2>2, <1>2
  <2> QED
    BY <2>3 DEF F
<1>7. \A i \in 1 .. n : a[i] = b[i]
  <2>1. Nat \subseteq F
    <3> HIDE DEF F
    <3> QED
      BY <1>5, <1>6, NaturalInduction
  <2>2. n \in F
    BY <1>2, <2>1
  <2> QED
    BY <1>2, <2>2
<1> QED
  BY <1>2, <1>7

LEMMA InOrderSorts ==
  ASSUME NEW ts, Sortable(ts)
  PROVE  Sorted(InOrder(ts), ts)
<1>1. PICK rows : Sorted(rows, ts)
  BY SortedExists
<1> QED
  BY <1>1 DEF Sorted, InOrder

\* The history of a portfolio is one list of all its trades.
LEMMA InOrderLists ==
  ASSUME NEW ts, Sortable(ts)
  PROVE  /\ InOrder(ts) \in Seq(ts) /\ RowsOf(InOrder(ts)) = ts
         /\ DOMAIN InOrder(ts) = 1 .. Len(InOrder(ts))
         /\ \A i, j \in DOMAIN InOrder(ts) : i # j => InOrder(ts)[i] # InOrder(ts)[j]
<1>1. IsFiniteSet(ts) /\ InOrder(ts) \in SetToSeqs(ts)
  BY InOrderSorts DEF Sorted, Sortable
<1> HIDE DEF InOrder
<1> QED
  BY <1>1, Lists

LEMMA InOrderAppends ==
  ASSUME NEW ts, NEW t, Sortable(ts \cup {t}), \A u \in ts : Earlier(u, t)
  PROVE  /\ t \notin ts
         /\ InOrder(ts \cup {t}) = Append(InOrder(ts), t)
<1>1. ~Earlier(t, t)
  BY EarlierOrders
<1>2. t \notin ts /\ (ts \cup {t}) \ {t} = ts
  BY <1>1
<1>3. Sortable(ts)
  BY SortableSubset
<1>4. Sorted(InOrder(ts), ts) /\ Sorted(InOrder(ts \cup {t}), ts \cup {t})
  BY <1>3, InOrderSorts
<1>5. Sorted(Append(InOrder(ts), t), ts \cup {t})
  BY <1>2, <1>4, SortedAppend
<1> QED
  BY <1>2, <1>4, <1>5, SortedUnique

LEMMA InOrderOfNone == InOrder({}) = <<>>
<1>1. Sortable({})
  BY FS_EmptySet DEF Sortable
<1>2. InOrder({}) \in Seq({}) /\ RowsOf(InOrder({})) = {}
  BY <1>1, InOrderLists
<1>3. DOMAIN InOrder({}) = 1 .. Len(InOrder({})) /\ DOMAIN InOrder({}) = {}
  BY <1>2 DEF RowsOf
<1> QED
  BY <1>2, <1>3

-----------------------------------------------------------------------------
(* The fold over a list of trades                                          *)

\* What Compute reads of a trade.
IsPostable(t) ==
  /\ t.side \in {"buy", "sell"} /\ t.coin \in Coins
  /\ t.amount \in Nat \ {0} /\ t.price \in Nat \ {0}

LEMMA OpeningType == ASSUME NEW balance \in Int PROVE Opening(balance) \in Ledger
BY DEF Opening, Ledger

LEMMA LedgerParts ==
  ASSUME NEW s \in Ledger
  PROVE  /\ s.cash \in Int /\ s.realized \in Int
         /\ s.amount \in [Coins -> Int] /\ s.cost \in [Coins -> Int]
BY DEF Ledger

LEMMA BoughtParts ==
  ASSUME NEW s \in Ledger, NEW t, IsPostable(t)
  PROVE  /\ Bought(s, t) \in Ledger
         /\ Bought(s, t).cash = s.cash - t.amount * t.price
         /\ Bought(s, t).realized = s.realized
         /\ Bought(s, t).amount = [s.amount EXCEPT ![t.coin] = @ + t.amount]
         /\ Bought(s, t).cost = [s.cost EXCEPT ![t.coin] = @ + t.amount * t.price]
<1>1. t.amount * t.price \in Int /\ t.amount \in Int /\ t.coin \in Coins
  BY DEF IsPostable
<1> DEFINE v == t.amount * t.price
<1> HIDE DEF v
<1>2. /\ [s.amount EXCEPT ![t.coin] = @ + t.amount] \in [Coins -> Int]
      /\ [s.cost EXCEPT ![t.coin] = @ + v] \in [Coins -> Int]
  BY <1>1, LedgerParts DEF v
<1>3. Bought(s, t) =
        [cash |-> s.cash - v, realized |-> s.realized,
         amount |-> [s.amount EXCEPT ![t.coin] = @ + t.amount],
         cost |-> [s.cost EXCEPT ![t.coin] = @ + v]]
  <2> DEFINE x == s.cash - v
             y == s.amount[t.coin] + t.amount
             z == s.cost[t.coin] + v
  <2>1. Bought(s, t) = [s EXCEPT !.cash = x, !.amount[t.coin] = y, !.cost[t.coin] = z]
    BY DEF Bought, v
  <2> HIDE DEF x, y, z
  <2>2. Bought(s, t) = [cash |-> x, realized |-> s.realized,
                        amount |-> [s.amount EXCEPT ![t.coin] = y],
                        cost |-> [s.cost EXCEPT ![t.coin] = z]]
    BY <2>1 DEF Ledger
  <2> QED
    BY <2>2 DEF x, y, z
<1>4. s.cash - v \in Int
  BY <1>1, LedgerParts DEF v
<1> QED
  BY <1>2, <1>3, <1>4, LedgerParts DEF Ledger, v

LEMMA SoldParts ==
  ASSUME NEW s \in Ledger, NEW t, IsPostable(t)
  PROVE  /\ CostOfSold(s, t) \in Int
         /\ Sold(s, t) \in Ledger
         /\ Sold(s, t).cash = s.cash + t.amount * t.price
         /\ Sold(s, t).realized = s.realized + t.amount * t.price - CostOfSold(s, t)
         /\ Sold(s, t).amount = [s.amount EXCEPT ![t.coin] = @ - t.amount]
         /\ Sold(s, t).cost = [s.cost EXCEPT ![t.coin] = @ - CostOfSold(s, t)]
<1>1. t.amount * t.price \in Int /\ t.amount \in Int /\ t.coin \in Coins
  BY DEF IsPostable
<1>2. CostOfSold(s, t) \in Int
  <2>1. s.cost[t.coin] * t.amount \in Int /\ s.amount[t.coin] \in Int
    BY <1>1, LedgerParts
  <2> QED
    BY <2>1 DEF CostOfSold
<1> DEFINE v == t.amount * t.price
           k == CostOfSold(s, t)
<1> HIDE DEF v, k
<1>3. /\ [s.amount EXCEPT ![t.coin] = @ - t.amount] \in [Coins -> Int]
      /\ [s.cost EXCEPT ![t.coin] = @ - k] \in [Coins -> Int]
  BY <1>1, <1>2, LedgerParts DEF k
<1>4. Sold(s, t) =
        [cash |-> s.cash + v, realized |-> s.realized + v - k,
         amount |-> [s.amount EXCEPT ![t.coin] = @ - t.amount],
         cost |-> [s.cost EXCEPT ![t.coin] = @ - k]]
  <2> DEFINE x == s.cash + v
             u == s.realized + v - k
             y == s.amount[t.coin] - t.amount
             z == s.cost[t.coin] - k
  <2>1. Sold(s, t) = [s EXCEPT !.cash = x, !.realized = u, !.amount[t.coin] = y,
                               !.cost[t.coin] = z]
    BY DEF Sold, v, k
  <2> HIDE DEF x, u, y, z
  <2>2. Sold(s, t) = [cash |-> x, realized |-> u,
                      amount |-> [s.amount EXCEPT ![t.coin] = y],
                      cost |-> [s.cost EXCEPT ![t.coin] = z]]
    BY <2>1 DEF Ledger
  <2> QED
    BY <2>2 DEF x, u, y, z
<1>5. s.cash + v \in Int /\ s.realized + v - k \in Int
  BY <1>1, <1>2, LedgerParts DEF v, k
<1> QED
  BY <1>2, <1>3, <1>4, <1>5 DEF Ledger, v, k

LEMMA ClosedParts ==
  ASSUME NEW s \in Ledger, NEW c \in Coins
  PROVE  /\ Closed(s, c) \in Ledger
         /\ Closed(s, c).cash = s.cash /\ Closed(s, c).realized = s.realized
         /\ \A d \in Coins \ {c} : /\ Closed(s, c).amount[d] = s.amount[d]
                                   /\ Closed(s, c).cost[d] = s.cost[d]
         /\ Closed(s, c).amount[c] = IF s.amount[c] <= Epsilon THEN 0 ELSE s.amount[c]
         /\ Closed(s, c).cost[c] = IF s.amount[c] <= Epsilon THEN 0 ELSE s.cost[c]
<1>1. CASE s.amount[c] <= Epsilon
  <2>1. Closed(s, c) = [cash |-> s.cash, realized |-> s.realized,
                        amount |-> [s.amount EXCEPT ![c] = 0],
                        cost |-> [s.cost EXCEPT ![c] = 0]]
    BY <1>1 DEF Closed, Ledger
  <2>2. /\ [s.amount EXCEPT ![c] = 0] \in [Coins -> Int]
        /\ [s.cost EXCEPT ![c] = 0] \in [Coins -> Int]
    BY LedgerParts
  <2> QED
    BY <1>1, <2>1, <2>2, LedgerParts DEF Ledger
<1>2. CASE ~(s.amount[c] <= Epsilon)
  BY <1>2 DEF Closed
<1> QED
  BY <1>1, <1>2

\* The trade's position becomes one of that amount and cost, or is given up.
Closes(s, t, amount, cost) ==
  /\ Posted(s, t).amount[t.coin] = IF amount <= Epsilon THEN 0 ELSE amount
  /\ Posted(s, t).cost[t.coin] = IF amount <= Epsilon THEN 0 ELSE cost

\* What posting a trade makes of the ledger, part by part.
LEMMA PostedParts ==
  ASSUME NEW s \in Ledger, NEW t, IsPostable(t)
  PROVE  /\ Posted(s, t) \in Ledger
         /\ \A c \in Coins \ {t.coin} : /\ Posted(s, t).amount[c] = s.amount[c]
                                        /\ Posted(s, t).cost[c] = s.cost[c]
         /\ t.side = "buy" =>
              /\ Posted(s, t).cash = s.cash - t.amount * t.price
              /\ Posted(s, t).realized = s.realized
              /\ Closes(s, t, s.amount[t.coin] + t.amount,
                             s.cost[t.coin] + t.amount * t.price)
         /\ t.side = "sell" =>
              /\ Posted(s, t).cash = s.cash + t.amount * t.price
              /\ Posted(s, t).realized = s.realized + t.amount * t.price - CostOfSold(s, t)
              /\ Closes(s, t, s.amount[t.coin] - t.amount, s.cost[t.coin] - CostOfSold(s, t))
<1>1. t.coin \in Coins /\ t.amount \in Nat \ {0} /\ s.amount[t.coin] \in Int
  BY LedgerParts DEF IsPostable
<1>2. CASE t.side = "buy"
  <2> DEFINE b == Bought(s, t)
  <2>1. Posted(s, t) = Closed(b, t.coin)
    BY <1>2 DEF Posted
  <2>2. /\ b \in Ledger /\ b.cash = s.cash - t.amount * t.price /\ b.realized = s.realized
        /\ b.amount = [s.amount EXCEPT ![t.coin] = @ + t.amount]
        /\ b.cost = [s.cost EXCEPT ![t.coin] = @ + t.amount * t.price]
    BY BoughtParts
  <2> HIDE DEF b
  <2>3. /\ b.amount[t.coin] = s.amount[t.coin] + t.amount
        /\ \A c \in Coins \ {t.coin} : b.amount[c] = s.amount[c]
    BY <1>1, <2>2, LedgerParts
  <2>4. /\ b.cost[t.coin] = s.cost[t.coin] + t.amount * t.price
        /\ \A c \in Coins \ {t.coin} : b.cost[c] = s.cost[c]
    <3> DEFINE v == t.amount * t.price
    <3> HIDE DEF v
    <3>1. b.cost = [s.cost EXCEPT ![t.coin] = @ + v]
      BY <2>2 DEF v
    <3>2. /\ b.cost[t.coin] = s.cost[t.coin] + v
          /\ \A c \in Coins \ {t.coin} : b.cost[c] = s.cost[c]
      BY <1>1, <3>1, LedgerParts
    <3> QED
      BY <3>2 DEF v
  <2>5. /\ Posted(s, t) \in Ledger
        /\ Posted(s, t).cash = b.cash /\ Posted(s, t).realized = b.realized
        /\ \A d \in Coins \ {t.coin} : /\ Posted(s, t).amount[d] = b.amount[d]
                                       /\ Posted(s, t).cost[d] = b.cost[d]
        /\ Posted(s, t).amount[t.coin] = IF b.amount[t.coin] <= Epsilon THEN 0 ELSE b.amount[t.coin]
        /\ Posted(s, t).cost[t.coin] = IF b.amount[t.coin] <= Epsilon THEN 0 ELSE b.cost[t.coin]
    <3>1. b \in Ledger /\ t.coin \in Coins
      BY <1>1, <2>2
    <3> QED
      BY <2>1, <3>1, ClosedParts
  <2>6. \A c \in Coins \ {t.coin} : /\ Posted(s, t).amount[c] = s.amount[c]
                                    /\ Posted(s, t).cost[c] = s.cost[c]
    BY <2>3, <2>4, <2>5
  <2> QED
    BY <1>2, <2>2, <2>3, <2>4, <2>5, <2>6 DEF Closes
<1>3. CASE t.side = "sell"
  <2> DEFINE b == Sold(s, t)
             k == CostOfSold(s, t)
  <2>1. Posted(s, t) = Closed(b, t.coin)
    BY <1>3 DEF Posted
  <2>2. /\ b \in Ledger /\ b.cash = s.cash + t.amount * t.price
        /\ b.realized = s.realized + t.amount * t.price - k
        /\ b.amount = [s.amount EXCEPT ![t.coin] = @ - t.amount]
        /\ b.cost = [s.cost EXCEPT ![t.coin] = @ - k]
    BY SoldParts
  <2> HIDE DEF b, k
  <2>3. /\ b.amount[t.coin] = s.amount[t.coin] - t.amount
        /\ \A c \in Coins \ {t.coin} : b.amount[c] = s.amount[c]
    BY <1>1, <2>2, LedgerParts
  <2>4. /\ b.cost[t.coin] = s.cost[t.coin] - k
        /\ \A c \in Coins \ {t.coin} : b.cost[c] = s.cost[c]
    BY <1>1, <2>2, LedgerParts
  <2>5. /\ Posted(s, t) \in Ledger
        /\ Posted(s, t).cash = b.cash /\ Posted(s, t).realized = b.realized
        /\ \A d \in Coins \ {t.coin} : /\ Posted(s, t).amount[d] = b.amount[d]
                                       /\ Posted(s, t).cost[d] = b.cost[d]
        /\ Posted(s, t).amount[t.coin] = IF b.amount[t.coin] <= Epsilon THEN 0 ELSE b.amount[t.coin]
        /\ Posted(s, t).cost[t.coin] = IF b.amount[t.coin] <= Epsilon THEN 0 ELSE b.cost[t.coin]
    <3>1. b \in Ledger /\ t.coin \in Coins
      BY <1>1, <2>2
    <3> QED
      BY <2>1, <3>1, ClosedParts
  <2>6. \A c \in Coins \ {t.coin} : /\ Posted(s, t).amount[c] = s.amount[c]
                                    /\ Posted(s, t).cost[c] = s.cost[c]
    BY <2>3, <2>4, <2>5
  <2> QED
    BY <1>3, <2>2, <2>3, <2>4, <2>5, <2>6 DEF k, Closes
<1> QED
  BY <1>2, <1>3 DEF IsPostable

LEMMA MaxOf ==
  ASSUME NEW S, IsFiniteSet(S), S # {}, S \subseteq Int
  PROVE  Max(S) \in S /\ \A x \in S : x <= Max(S)
<1> DEFINE F == {T \in SUBSET S : T = {} \/ \E x \in T : \A y \in T : x >= y}
<1>1. {} \in F
  OBVIOUS
<1>2. ASSUME NEW T \in SUBSET S, NEW x \in S, T \in F, x \notin T
      PROVE  T \cup {x} \in F
  <2>1. CASE T = {}
    BY <2>1
  <2>2. ASSUME NEW z \in T, \A y \in T : z >= y PROVE T \cup {x} \in F
    <3>1. z \in Int /\ x \in Int /\ T \subseteq Int
      OBVIOUS
    <3>2. CASE z >= x
      BY <2>2, <3>2
    <3>3. CASE x >= z
      <4>1. \A y \in T \cup {x} : x >= y
        BY <2>2, <3>1, <3>3
      <4> QED
        BY <4>1
    <3> QED
      BY <3>1, <3>2, <3>3
  <2> QED
    BY <1>2, <2>1, <2>2
<1> HIDE DEF F
<1>3. S \in F
  BY <1>1, <1>2, FiniteInduction
<1>4. \E x \in S : \A y \in S : x >= y
  BY <1>3 DEF F
<1> QED
  BY <1>4 DEF Max

\* The ledgers from the opening one on, one trade of ts after the other.
Runs(run, balance, ts) ==
  /\ DOMAIN run = 0 .. Len(ts)
  /\ \A k \in 0 .. Len(ts) : run[k] \in Ledger
  /\ run[0] = Opening(balance)
  /\ \A k \in 1 .. Len(ts) : run[k] = Posted(run[k - 1], ts[k])

\* Compute posts the trades in the order of the list.
LEMMA ComputeRuns ==
  ASSUME NEW balance \in Int, NEW S, NEW ts \in Seq(S),
         \A i \in DOMAIN ts : IsPostable(ts[i])
  PROVE  \E run : Runs(run, balance, ts) /\ Compute(balance, ts) = run[Len(ts)]
<1> DEFINE n == Len(ts)
           Equation(h) ==
             h = [d \in SUBSET DOMAIN ts |->
                    IF d = {} THEN Opening(balance) ELSE Posted(h[d \ {Max(d)}], ts[Max(d)])]
<1>1. n \in Nat /\ DOMAIN ts = 1 .. n /\ IsFiniteSet(1 .. n)
  BY FS_Interval
<1>2. \A d \in SUBSET (1 .. n) : d # {} => Max(d) \in d
  <2> SUFFICES ASSUME NEW d \in SUBSET (1 .. n), d # {} PROVE Max(d) \in d
    OBVIOUS
  <2>1. IsFiniteSet(d)
    BY <1>1, FS_Subset
  <2>2. d \subseteq Int
    BY <1>1
  <2> QED
    BY <2>1, <2>2, MaxOf
<1>3. \E h : Equation(h)
  <2> DEFINE pick == [d \in SUBSET (1 .. n) |-> Max(d)]
             step == [pair \in (1 .. n) \X Ledger |-> Posted(pair[2], ts[pair[1]])]
  <2>1. \A d \in SUBSET (1 .. n) : d # {} => pick[d] \in d
    BY <1>2
  <2>2. \A x \in 1 .. n, v \in Ledger : step[<<x, v>>] = Posted(v, ts[x])
    OBVIOUS
  <2>3. \A x \in 1 .. n, v \in Ledger : step[<<x, v>>] \in Ledger
    BY <1>1, <2>2, PostedParts
  <2>4. Opening(balance) \in Ledger
    BY OpeningType
  <2>5. PICK g \in [SUBSET (1 .. n) -> Ledger] :
          Unfolds(g, SUBSET (1 .. n), Opening(balance), pick, step)
    <3> DEFINE D == 1 .. n
    <3>1. IsFiniteSet(D)
      BY <1>1
    <3>2. \A d \in SUBSET D : d # {} => pick[d] \in d
      BY <2>1
    <3>3. \A x \in D, v \in Ledger : step[<<x, v>>] \in Ledger
      BY <2>3
    <3> HIDE DEF pick, step, D
    <3>4. \E g \in [SUBSET D -> Ledger] :
            Unfolds(g, SUBSET D, Opening(balance), pick, step)
      BY <2>4, <3>1, <3>2, <3>3, RecursionExists
    <3> QED
      BY <3>4 DEF D
  <2>6. ASSUME NEW d \in SUBSET (1 .. n), d # {}
        PROVE  g[d] = Posted(g[d \ {Max(d)}], ts[Max(d)])
    <3>1. pick[d] = Max(d) /\ Max(d) \in 1 .. n /\ g[d \ {Max(d)}] \in Ledger
      BY <1>2, <2>5, <2>6
    <3>2. g[d] = step[<<pick[d], g[d \ {pick[d]}]>>]
      BY <2>5, <2>6 DEF Unfolds
    <3> QED
      BY <2>2, <3>1, <3>2
  <2>7. g[{}] = Opening(balance)
    BY <2>5 DEF Unfolds
  <2>8. g = [d \in SUBSET (1 .. n) |-> g[d]]
    BY <2>5
  <2> HIDE DEF pick, step
  <2>9. Equation(g)
    BY <1>1, <2>6, <2>7, <2>8
  <2> QED
    BY <2>9
<1> DEFINE h == CHOOSE h : Equation(h)
<1>4. Equation(h)
  <2> HIDE DEF Equation
  <2> QED
    BY <1>3
<1>5. Compute(balance, ts) = h[1 .. n]
  <2>1. Compute(balance, ts) = h[DOMAIN ts]
    BY DEF Compute, FoldLeft, MapThenFoldSet
  <2> QED
    BY <1>1, <2>1
<1> HIDE DEF h
<1> DEFINE run == [k \in 0 .. n |-> h[1 .. k]]
<1>6. run[0] = Opening(balance)
  <2>1. 1 .. 0 = {} /\ 0 \in 0 .. n
    BY <1>1
  <2>2. h[{}] = Opening(balance)
    BY <1>4
  <2> QED
    BY <2>1, <2>2
<1>7. ASSUME NEW k \in 1 .. n PROVE run[k] = Posted(run[k - 1], ts[k])
  <2>1. /\ 1 .. k \in SUBSET DOMAIN ts /\ k \in 1 .. k
        /\ k \in 0 .. n /\ k - 1 \in 0 .. n
    BY <1>1
  <2>2. Max(1 .. k) = k
    <3>1. IsFiniteSet(1 .. k)
      BY <1>1, FS_Subset
    <3>2. 1 .. k \subseteq Int /\ 1 .. k # {}
      BY <1>1, <2>1
    <3>3. Max(1 .. k) \in 1 .. k /\ k <= Max(1 .. k)
      BY <2>1, <3>1, <3>2, MaxOf
    <3> QED
      BY <1>1, <3>3
  <2>3. (1 .. k) \ {k} = 1 .. (k - 1)
    BY <1>1
  <2>4. h[1 .. k] = Posted(h[(1 .. k) \ {Max(1 .. k)}], ts[Max(1 .. k)])
    <3>1. 1 .. k # {}
      BY <2>1
    <3> QED
      BY <1>4, <2>1, <3>1
  <2> QED
    BY <2>1, <2>2, <2>3, <2>4
<1> HIDE DEF run
<1> DEFINE F == {k \in Nat : k <= n => run[k] \in Ledger}
<1>8. \A k \in 0 .. n : run[k] \in Ledger
  <2>1. 0 \in F
    BY <1>6, OpeningType
  <2>2. ASSUME NEW k \in Nat, k \in F PROVE k + 1 \in F
    <3> SUFFICES ASSUME k + 1 <= n PROVE run[k + 1] \in Ledger
      OBVIOUS
    <3>1. k <= n /\ k + 1 \in 1 .. n /\ (k + 1) - 1 = k
      BY <1>1
    <3>2. run[k] \in Ledger
      BY <2>2, <3>1
    <3>3. run[k + 1] = Posted(run[k], ts[k + 1])
      BY <1>7, <3>1
    <3> QED
      BY <1>1, <3>1, <3>2, <3>3, PostedParts
  <2>3. Nat \subseteq F
    <3> HIDE DEF F
    <3> QED
      BY <2>1, <2>2, NaturalInduction
  <2> QED
    BY <1>1, <2>3
<1>9. DOMAIN run = 0 .. n /\ run[n] = h[1 .. n]
  BY <1>1 DEF run
<1>10. Runs(run, balance, ts)
  BY <1>6, <1>7, <1>8, <1>9 DEF Runs
<1> QED
  BY <1>5, <1>9, <1>10

LEMMA ComputeType ==
  ASSUME NEW balance \in Int, NEW S, NEW ts \in Seq(S),
         \A i \in DOMAIN ts : IsPostable(ts[i])
  PROVE  Compute(balance, ts) \in Ledger
<1>1. PICK run : Runs(run, balance, ts) /\ Compute(balance, ts) = run[Len(ts)]
  BY ComputeRuns
<1>2. Len(ts) \in Nat
  OBVIOUS
<1> QED
  BY <1>1, <1>2 DEF Runs

LEMMA ComputeOfNone == ASSUME NEW balance \in Int PROVE Compute(balance, <<>>) = Opening(balance)
<1>1. <<>> \in Seq({}) /\ Len(<<>>) = 0 /\ \A i \in DOMAIN <<>> : IsPostable(<<>>[i])
  OBVIOUS
<1>2. PICK run : Runs(run, balance, <<>>) /\ Compute(balance, <<>>) = run[0]
  BY <1>1, ComputeRuns
<1> QED
  BY <1>2 DEF Runs

\* A trade at the end of the list is posted to what the others leave.
LEMMA ComputeAppends ==
  ASSUME NEW balance \in Int, NEW S, NEW ts \in Seq(S), NEW t \in S,
         \A i \in DOMAIN ts : IsPostable(ts[i]), IsPostable(t)
  PROVE  Compute(balance, Append(ts, t)) = Posted(Compute(balance, ts), t)
<1> DEFINE n == Len(ts)
           more == Append(ts, t)
<1>1. /\ n \in Nat /\ DOMAIN ts = 1 .. n
      /\ more \in Seq(S) /\ Len(more) = n + 1 /\ DOMAIN more = 1 .. n + 1
      /\ \A i \in 1 .. n : more[i] = ts[i]
      /\ more[n + 1] = t
  OBVIOUS
<1> HIDE DEF more, n
<1>2. \A i \in DOMAIN more : IsPostable(more[i])
  BY <1>1
<1>3. PICK run : Runs(run, balance, ts) /\ Compute(balance, ts) = run[n]
  BY ComputeRuns DEF n
<1>4. PICK on : Runs(on, balance, more) /\ Compute(balance, more) = on[n + 1]
  BY <1>1, <1>2, ComputeRuns
<1> DEFINE F == {k \in Nat : k <= n => on[k] = run[k]}
<1>5. 0 \in F
  BY <1>3, <1>4 DEF Runs
<1>6. ASSUME NEW k \in Nat, k \in F PROVE k + 1 \in F
  <2> SUFFICES ASSUME k + 1 <= n PROVE on[k + 1] = run[k + 1]
    OBVIOUS
  <2>1. k <= n /\ k + 1 \in 1 .. n /\ k + 1 \in 1 .. n + 1 /\ (k + 1) - 1 = k
    BY <1>1
  <2>2. on[k] = run[k]
    BY <1>6, <2>1
  <2>3. on[k + 1] = Posted(on[k], more[k + 1])
    BY <1>1, <1>4, <2>1 DEF Runs
  <2>4. run[k + 1] = Posted(run[k], ts[k + 1])
    BY <1>1, <1>3, <2>1 DEF Runs, n
  <2> QED
    BY <1>1, <2>1, <2>2, <2>3, <2>4
<1>7. on[n] = run[n]
  <2>1. Nat \subseteq F
    <3> HIDE DEF F
    <3> QED
      BY <1>5, <1>6, NaturalInduction
  <2> QED
    BY <1>1, <2>1
<1>8. on[n + 1] = Posted(on[n], t)
  BY <1>1, <1>4 DEF Runs
<1> QED
  BY <1>3, <1>4, <1>7, <1>8 DEF more

-----------------------------------------------------------------------------
(* The sums over the trades                                                *)

Postables(ts) == IsFiniteSet(ts) /\ \A t \in ts : IsPostable(t)

LEMMA PostablesSubset ==
  ASSUME NEW ts, Postables(ts), NEW us \in SUBSET ts
  PROVE  Postables(us)
BY FS_Subset DEF Postables

LEMMA ValueOfNone == Value({}) = 0 /\ Count({}) = 0
BY SumOfNone DEF Value, Count, SumFunction

LEMMA ValueType ==
  ASSUME NEW ts, Postables(ts)
  PROVE  Value(ts) \in Int /\ Count(ts) \in Int
<1> DEFINE v == [t \in ts |-> t.amount * t.price]
           a == [t \in ts |-> t.amount]
<1>1. \A t \in ts : v[t] \in Int /\ a[t] \in Int
  BY DEF Postables, IsPostable
<1>2. Value(ts) = SumFunctionOnSet(v, ts) /\ Count(ts) = SumFunctionOnSet(a, ts)
  BY DEF Value, Count, SumFunction
<1> HIDE DEF v, a
<1> QED
  BY <1>1, <1>2, SumType DEF Postables

LEMMA ValueAdds ==
  ASSUME NEW ts, NEW t, Postables(ts \cup {t}), t \notin ts
  PROVE  /\ Value(ts \cup {t}) = t.amount * t.price + Value(ts)
         /\ Count(ts \cup {t}) = t.amount + Count(ts)
<1> DEFINE us == ts \cup {t}
           v == [u \in us |-> u.amount * u.price]
           a == [u \in us |-> u.amount]
           vt == [u \in ts |-> u.amount * u.price]
           at == [u \in ts |-> u.amount]
<1>1. \A u \in us : v[u] \in Int /\ a[u] \in Int
  BY DEF Postables, IsPostable
<1>2. IsFiniteSet(ts)
  BY FS_Subset DEF Postables
<1>3. v[t] = t.amount * t.price /\ a[t] = t.amount
  OBVIOUS
<1>4. /\ Value(us) = SumFunctionOnSet(v, us) /\ Count(us) = SumFunctionOnSet(a, us)
      /\ Value(ts) = SumFunctionOnSet(vt, ts) /\ Count(ts) = SumFunctionOnSet(at, ts)
  BY DEF Value, Count, SumFunction
<1>5. \A u \in ts : v[u] = vt[u] /\ a[u] = at[u]
  OBVIOUS
<1> HIDE DEF v, a, vt, at
<1>6. SumFunctionOnSet(v, us) = v[t] + SumFunctionOnSet(v, ts)
  BY <1>1, <1>2, SumAdd
<1>7. SumFunctionOnSet(a, us) = a[t] + SumFunctionOnSet(a, ts)
  BY <1>1, <1>2, SumAdd
<1>8. SumFunctionOnSet(v, ts) = SumFunctionOnSet(vt, ts)
  BY <1>1, <1>2, <1>5, SumSame
<1>9. SumFunctionOnSet(a, ts) = SumFunctionOnSet(at, ts)
  BY <1>1, <1>2, <1>5, SumSame
<1> QED
  BY <1>3, <1>4, <1>6, <1>7, <1>8, <1>9

LEMMA NetsOfNone ==
  ASSUME NEW balance \in Int
  PROVE  NetCash(balance, {}) = balance /\ \A c \in Coins : NetAmount({}, c) = 0
<1>1. Buys({}) = {} /\ Sells({}) = {} /\ \A c \in Coins : {t \in {} : t.coin = c} = {}
  BY DEF Buys, Sells
<1> QED
  BY <1>1, ValueOfNone DEF NetCash, NetAmount

LEMMA NetCashType ==
  ASSUME NEW balance \in Int, NEW ts, Postables(ts)
  PROVE  NetCash(balance, ts) \in Int
<1>1. Postables(Buys(ts)) /\ Postables(Sells(ts))
  BY PostablesSubset DEF Buys, Sells
<1>2. Value(Buys(ts)) \in Int /\ Value(Sells(ts)) \in Int
  BY <1>1, ValueType
<1> QED
  BY <1>2 DEF NetCash

LEMMA NetAmountType ==
  ASSUME NEW ts, Postables(ts), NEW c
  PROVE  NetAmount(ts, c) \in Int
<1> DEFINE of == {t \in ts : t.coin = c}
<1>1. Postables(Buys(of)) /\ Postables(Sells(of))
  BY PostablesSubset DEF Buys, Sells
<1>2. Count(Buys(of)) \in Int /\ Count(Sells(of)) \in Int
  BY <1>1, ValueType
<1> QED
  BY <1>2 DEF NetAmount

\* What one more trade changes.
LEMMA NetCashAdds ==
  ASSUME NEW balance \in Int, NEW ts, NEW t, Postables(ts \cup {t}), t \notin ts
  PROVE  NetCash(balance, ts \cup {t}) =
           IF t.side = "buy" THEN NetCash(balance, ts) - t.amount * t.price
                             ELSE NetCash(balance, ts) + t.amount * t.price
<1> DEFINE v == t.amount * t.price
<1>1. t.side \in {"buy", "sell"} /\ v \in Int
  BY DEF Postables, IsPostable
<1>2. ASSUME NEW us \in SUBSET ts
      PROVE  Value(us) \in Int /\ Value(us \cup {t}) = v + Value(us)
  <2>1. Postables(us \cup {t}) /\ Postables(us) /\ t \notin us
    BY PostablesSubset
  <2> QED
    BY <2>1, ValueAdds, ValueType
<1>3. /\ Buys(ts \cup {t}) = IF t.side = "buy" THEN Buys(ts) \cup {t} ELSE Buys(ts)
      /\ Sells(ts \cup {t}) = IF t.side = "sell" THEN Sells(ts) \cup {t} ELSE Sells(ts)
      /\ Buys(ts) \in SUBSET ts /\ Sells(ts) \in SUBSET ts
  BY DEF Buys, Sells
<1> HIDE DEF v
<1>4. NetCash(balance, ts \cup {t}) = IF t.side = "buy" THEN NetCash(balance, ts) - v
                                                       ELSE NetCash(balance, ts) + v
  <2>1. /\ Value(Buys(ts)) \in Int /\ Value(Buys(ts) \cup {t}) = v + Value(Buys(ts))
        /\ Value(Sells(ts)) \in Int /\ Value(Sells(ts) \cup {t}) = v + Value(Sells(ts))
    BY <1>2, <1>3
  <2> QED
    BY <1>1, <1>3, <2>1 DEF NetCash
<1> QED
  BY <1>4 DEF v

LEMMA NetAmountAdds ==
  ASSUME NEW ts, NEW t, Postables(ts \cup {t}), t \notin ts, NEW c
  PROVE  /\ NetAmount(ts, c) \in Int
         /\ NetAmount(ts \cup {t}, c) =
              IF t.coin # c THEN NetAmount(ts, c)
              ELSE IF t.side = "buy" THEN NetAmount(ts, c) + t.amount
              ELSE NetAmount(ts, c) - t.amount
<1> DEFINE of == {u \in ts : u.coin = c}
           ofAll == {u \in ts \cup {t} : u.coin = c}
<1>1. t.side \in {"buy", "sell"} /\ t.amount \in Int
  BY DEF Postables, IsPostable
<1>2. ASSUME NEW us \in SUBSET ts
      PROVE  Count(us) \in Int /\ Count(us \cup {t}) = t.amount + Count(us)
  <2>1. Postables(us \cup {t}) /\ Postables(us) /\ t \notin us
    BY PostablesSubset
  <2> QED
    BY <2>1, ValueAdds, ValueType
<1>3. /\ Buys(ofAll) = IF t.side = "buy" /\ t.coin = c THEN Buys(of) \cup {t} ELSE Buys(of)
      /\ Sells(ofAll) = IF t.side = "sell" /\ t.coin = c THEN Sells(of) \cup {t} ELSE Sells(of)
      /\ Buys(of) \in SUBSET ts /\ Sells(of) \in SUBSET ts
  BY DEF Buys, Sells
<1>4. /\ NetAmount(ts, c) = Count(Buys(of)) - Count(Sells(of))
      /\ NetAmount(ts \cup {t}, c) = Count(Buys(ofAll)) - Count(Sells(ofAll))
  BY DEF NetAmount
<1> HIDE DEF of, ofAll
<1>5. /\ Count(Buys(of)) \in Int /\ Count(Buys(of) \cup {t}) = t.amount + Count(Buys(of))
      /\ Count(Sells(of)) \in Int /\ Count(Sells(of) \cup {t}) = t.amount + Count(Sells(of))
  BY <1>2, <1>3
<1> QED
  BY <1>1, <1>3, <1>4, <1>5

\* Whatever the order of the list, its cash is the sum over the trades.
LEMMA ComputeCash ==
  ASSUME NEW balance \in Int, NEW S, NEW ts \in Seq(S),
         \A i \in DOMAIN ts : IsPostable(ts[i]),
         \A i, j \in DOMAIN ts : i # j => ts[i] # ts[j]
  PROVE  Compute(balance, ts).cash = NetCash(balance, RowsOf(ts))
<1> DEFINE n == Len(ts)
           upTo(k) == {ts[i] : i \in 1 .. k}
<1>1. n \in Nat /\ DOMAIN ts = 1 .. n
  OBVIOUS
<1>2. PICK run : Runs(run, balance, ts) /\ Compute(balance, ts) = run[n]
  BY ComputeRuns
<1> HIDE DEF n
<1> DEFINE F == {k \in Nat : k <= n => /\ IsFiniteSet(upTo(k))
                                       /\ run[k].cash = NetCash(balance, upTo(k))}
<1>3. 0 \in F
  <2>1. upTo(0) = {} /\ IsFiniteSet({})
    BY FS_EmptySet
  <2>2. run[0].cash = balance
    BY <1>2 DEF Runs, Opening
  <2>3. NetCash(balance, {}) = balance
    BY NetsOfNone
  <2> QED
    BY <2>1, <2>2, <2>3
<1>4. ASSUME NEW k \in Nat, k \in F PROVE k + 1 \in F
  <2> SUFFICES ASSUME k + 1 <= n
               PROVE  IsFiniteSet(upTo(k + 1)) /\ run[k + 1].cash = NetCash(balance, upTo(k + 1))
    OBVIOUS
  <2>1. /\ k <= n /\ k \in 0 .. n /\ k + 1 \in 1 .. n /\ (k + 1) - 1 = k
        /\ \A i \in 1 .. k : i \in 1 .. n /\ i # k + 1
    BY <1>1
  <2>2. IsFiniteSet(upTo(k)) /\ run[k].cash = NetCash(balance, upTo(k))
    BY <1>4, <2>1
  <2> DEFINE t == ts[k + 1]
             before == upTo(k)
  <2>3. t \notin before /\ IsPostable(t) /\ \A u \in before : IsPostable(u)
    BY <1>1, <2>1
  <2>4. upTo(k + 1) = before \cup {t}
    <3>1. 1 .. k + 1 = (1 .. k) \cup {k + 1}
      OBVIOUS
    <3> QED
      BY <3>1
  <2>5. run[k] \in Ledger /\ run[k + 1] = Posted(run[k], t)
    BY <1>1, <1>2, <2>1 DEF Runs, n
  <2>6. IsFiniteSet(before) /\ run[k].cash = NetCash(balance, before)
    BY <2>2
  <2> HIDE DEF t, before, upTo, F
  <2>7. IsFiniteSet(before \cup {t})
    BY <2>6, FS_AddElement
  <2>8. Postables(before \cup {t})
    BY <2>3, <2>7 DEF Postables
  <2>9. NetCash(balance, before \cup {t}) =
          IF t.side = "buy" THEN NetCash(balance, before) - t.amount * t.price
                            ELSE NetCash(balance, before) + t.amount * t.price
    BY <2>3, <2>8, NetCashAdds
  <2>10. Posted(run[k], t).cash = IF t.side = "buy" THEN run[k].cash - t.amount * t.price
                                                   ELSE run[k].cash + t.amount * t.price
    BY <2>3, <2>5, PostedParts DEF IsPostable
  <2> QED
    BY <2>4, <2>5, <2>6, <2>7, <2>9, <2>10
<1>5. n \in F
  <2>1. Nat \subseteq F
    <3> HIDE DEF F
    <3> QED
      BY <1>3, <1>4, NaturalInduction
  <2> QED
    BY <1>1, <2>1
<1>6. run[n].cash = NetCash(balance, upTo(n))
  <2>1. n <= n
    BY <1>1
  <2> HIDE DEF upTo
  <2> QED
    BY <1>5, <2>1
<1>7. upTo(n) = RowsOf(ts)
  BY <1>1 DEF RowsOf
<1> QED
  BY <1>2, <1>6, <1>7

-----------------------------------------------------------------------------
(* The books a portfolio keeps, up to what its closings drop               *)

\* How often the fold gives up a position in one of coins.
Drops(balance, ts, coins) == Cardinality(Closings(balance, ts, coins))

\* Amounts and cost are in balance; over is the most that a sale takes beyond the
\* position, and dearest the highest price.
Books(balance, ts, over, dearest) ==
  LET s == Compute(balance, ts)
  IN  /\ \A c \in Coins :
           /\ s.amount[c] >= 0
           /\ s.cost[c] \in 0 .. dearest * s.amount[c]
           /\ s.amount[c] - NetAmount(RowsOf(ts), c)
                \in -(Epsilon * Drops(balance, ts, {c})) .. over * Drops(balance, ts, {c})
      /\ s.cash + TotalCost(s) - (balance + s.realized)
           \in -(Epsilon * dearest * Drops(balance, ts, Coins))
               .. over * dearest * Drops(balance, ts, Coins)

LEMMA Scaled ==
  ASSUME NEW p \in Nat, NEW x \in Int, NEW y \in Int, x <= y
  PROVE  p * x <= p * y /\ p * x \in Int /\ p * y \in Int
<1>1. y - x \in Nat
  OBVIOUS
<1>2. p * (y - x) >= 0 /\ p * (y - x) = p * y - p * x
  BY <1>1
<1> QED
  BY <1>2

\* What a sale leaves of the cost lies between nothing and the dearest price of
\* the amount left, below nothing when more is sold than there was.
LEMMA CostLeft ==
  ASSUME NEW p \in Nat, NEW h \in Nat \ {0}, NEW k \in Nat, k <= p * h, NEW a \in Nat
  PROVE  LET left == k - ((k * a) \div h)
         IN  /\ left \in Int
             /\ h - a >= 0 => left >= 0 /\ left <= p * (h - a)
             /\ h - a <= 0 => left <= 0 /\ left >= p * (h - a)
<1> DEFINE q == (k * a) \div h
           l == h - a
<1>1. q \in Int /\ q * h <= k * a /\ k * a < q * h + h
  OBVIOUS
<1>2. l \in Int /\ a = h - l
  OBVIOUS
<1> HIDE DEF q, l
<1>3. k * a = k * h - k * l
  BY <1>2
<1> DEFINE r == k - q
<1>4. r \in Int /\ r * h = k * h - q * h
  BY <1>1
<1> HIDE DEF r
<1> DEFINE kl == k * l
           hr == h * r
           m == p * l
<1>5. kl \in Int /\ hr \in Int /\ m \in Int /\ kl <= hr /\ hr < kl + h
  <2> DEFINE kh == k * h
             qh == q * h
             ka == k * a
  <2>1. kl \in Int /\ kh \in Int /\ qh \in Int /\ hr \in Int /\ ka \in Int /\ m \in Int
    BY <1>1, <1>2, <1>4
  <2>2. qh <= ka /\ ka < qh + h /\ ka = kh - kl /\ hr = kh - qh
    <3>1. hr = r * h
      BY <1>4
    <3> QED
      BY <1>1, <1>3, <1>4, <3>1
  <2> HIDE DEF kl, kh, qh, hr, ka, m
  <2> QED
    BY <2>1, <2>2
<1>6. CASE l >= 0
  <2>1. kl >= 0 /\ kl <= h * m
    <3>1. l \in Nat /\ p * h \in Int /\ k \in Int
      BY <1>2, <1>6
    <3>2. l * 0 <= l * k /\ l * k <= l * (p * h)
      BY <3>1, Scaled
    <3>3. l * (p * h) = h * m
      BY <1>2
    <3> QED
      BY <3>1, <3>2, <3>3
  <2>2. r >= 0
    <3> SUFFICES ASSUME r <= -1 PROVE FALSE
      BY <1>4
    <3>1. h * r <= h * (-1)
      BY <1>4, Scaled
    <3>2. hr <= -h
      BY <3>1
    <3> HIDE DEF hr, kl, m
    <3> QED
      BY <1>5, <2>1, <3>2
  <2>3. r <= m
    <3> HIDE DEF m
    <3> SUFFICES ASSUME m + 1 <= r PROVE FALSE
      BY <1>4, <1>5
    <3>1. h * (m + 1) <= h * r
      BY <1>4, <1>5, Scaled
    <3>2. h * (m + 1) = h * m + h /\ h * m \in Int
      BY <1>5
    <3>3. h * m + h <= hr
      BY <3>1, <3>2
    <3> DEFINE hm == h * m
    <3> HIDE DEF hr, kl, hm
    <3> QED
      BY <1>5, <2>1, <3>2, <3>3 DEF hm
  <2> QED
    BY <1>4, <1>6, <2>2, <2>3 DEF r, q, l
<1>7. CASE l <= 0
  <2>1. kl <= 0 /\ kl >= h * m
    <3>1. -l \in Nat /\ p * h \in Int /\ k \in Int
      BY <1>2, <1>7
    <3>2. (-l) * 0 <= (-l) * k /\ (-l) * k <= (-l) * (p * h)
      BY <3>1, Scaled
    <3>3. (-l) * (p * h) = -(h * m) /\ (-l) * k = -kl
      BY <1>2
    <3>4. h * m \in Int
      BY <1>5
    <3> HIDE DEF m, kl
    <3> QED
      BY <1>5, <3>1, <3>2, <3>3, <3>4
  <2>2. r <= 0
    <3> SUFFICES ASSUME 1 <= r PROVE FALSE
      BY <1>4
    <3>1. h * 1 <= h * r
      BY <1>4, Scaled
    <3>2. h <= hr
      BY <3>1
    <3> HIDE DEF hr, kl, m
    <3> QED
      BY <1>5, <2>1, <3>2
  <2>3. r >= m
    <3> HIDE DEF m
    <3> SUFFICES ASSUME r <= m - 1 PROVE FALSE
      BY <1>4, <1>5
    <3>1. h * r <= h * (m - 1)
      BY <1>4, <1>5, Scaled
    <3>2. h * (m - 1) = h * m - h /\ h * m \in Int
      BY <1>5
    <3>3. hr <= h * m - h
      BY <3>1, <3>2
    <3> DEFINE hm == h * m
    <3> HIDE DEF hr, kl, hm
    <3> QED
      BY <1>5, <2>1, <3>2, <3>3 DEF hm
  <2> QED
    BY <1>4, <1>7, <2>2, <2>3 DEF r, q, l
<1> QED
  BY <1>2, <1>6, <1>7

LEMMA TotalCostType ==
  ASSUME NEW s \in Ledger
  PROVE  TotalCost(s) = SumFunctionOnSet(s.cost, Coins) /\ TotalCost(s) \in Int
<1>1. DOMAIN s.cost = Coins /\ \A c \in Coins : s.cost[c] \in Int
  BY LedgerParts
<1> QED
  BY <1>1, LedgerAssumption, SumType DEF TotalCost, SumFunction

LEMMA TotalCostPosted ==
  ASSUME NEW s \in Ledger, NEW t, IsPostable(t)
  PROVE  TotalCost(Posted(s, t)) = TotalCost(s) - s.cost[t.coin] + Posted(s, t).cost[t.coin]
<1> DEFINE p == Posted(s, t)
<1>1. p \in Ledger /\ t.coin \in Coins /\ \A c \in Coins \ {t.coin} : p.cost[c] = s.cost[c]
  BY PostedParts DEF IsPostable
<1> HIDE DEF p
<1>2. \A c \in Coins : s.cost[c] \in Int /\ p.cost[c] \in Int
  BY <1>1, LedgerParts
<1>3. SumFunctionOnSet(p.cost, Coins) =
        SumFunctionOnSet(s.cost, Coins) - s.cost[t.coin] + p.cost[t.coin]
  BY <1>1, <1>2, LedgerAssumption, SumUpdate
<1> QED
  BY <1>1, <1>3, TotalCostType DEF p

\* What a trade makes of its position: of cash, cost and profit together, and of
\* the amount, the ledger drops no more than belongs to a position given up.
LEMMA PositionPosted ==
  ASSUME NEW s \in Ledger, NEW t, IsPostable(t), NEW over \in Nat, NEW dearest \in Nat,
         t.price <= dearest, s.amount[t.coin] >= 0,
         s.cost[t.coin] \in 0 .. dearest * s.amount[t.coin],
         t.side = "sell" => t.amount <= s.amount[t.coin] + over
  PROVE  LET p == Posted(s, t)
             c == t.coin
             amount == IF t.side = "buy" THEN s.amount[c] + t.amount ELSE s.amount[c] - t.amount
             drift == (p.cash + p.cost[c] - p.realized) - (s.cash + s.cost[c] - s.realized)
         IN  /\ p.amount[c] >= 0 /\ p.cost[c] \in 0 .. dearest * p.amount[c]
             /\ p.amount[c] # 0 => p.amount[c] = amount /\ drift = 0
             /\ p.amount[c] = 0 => /\ p.amount[c] - amount \in -Epsilon .. over
                                   /\ drift \in -(Epsilon * dearest) .. over * dearest
<1> DEFINE p == Posted(s, t)
           c == t.coin
           v == t.amount * t.price
           sold == CostOfSold(s, t)
           amount == IF t.side = "buy" THEN s.amount[c] + t.amount ELSE s.amount[c] - t.amount
           cost == IF t.side = "buy" THEN s.cost[c] + v ELSE s.cost[c] - sold
<1>1. /\ c \in Coins /\ t.amount \in Nat \ {0} /\ t.price \in Nat \ {0}
      /\ t.side \in {"buy", "sell"} /\ v \in Nat /\ Epsilon \in Nat
  BY LedgerAssumption DEF IsPostable
<1>2. /\ s.cash \in Int /\ s.realized \in Int
      /\ s.amount[c] \in Nat /\ s.cost[c] \in Nat /\ s.cost[c] <= dearest * s.amount[c]
  <2>1. s.cash \in Int /\ s.realized \in Int /\ s.amount[c] \in Int /\ s.cost[c] \in Int
    BY <1>1, LedgerParts
  <2>2. dearest * s.amount[c] \in Int
    BY <2>1
  <2> QED
    BY <2>1, <2>2
<1>3. /\ p.cash = IF t.side = "buy" THEN s.cash - v ELSE s.cash + v
      /\ p.realized = IF t.side = "buy" THEN s.realized ELSE s.realized + v - sold
      /\ p.amount[c] = IF amount <= Epsilon THEN 0 ELSE amount
      /\ p.cost[c] = IF amount <= Epsilon THEN 0 ELSE cost
  <2>1. CASE t.side = "buy"
    BY <2>1, PostedParts DEF Closes
  <2>2. CASE t.side = "sell"
    BY <2>2, PostedParts DEF Closes
  <2> QED
    BY <1>1, <2>1, <2>2
<1>4. /\ amount \in Int /\ cost \in Int /\ amount >= -over /\ sold \in Int
      /\ amount >= 0 => cost >= 0 /\ cost <= dearest * amount
      /\ amount <= 0 => cost <= 0 /\ cost >= dearest * amount
  <2>1. CASE t.side = "buy"
    <3>1. t.amount * t.price <= t.amount * dearest
      BY <1>1, Scaled
    <3>2. dearest * (s.amount[c] + t.amount) = dearest * s.amount[c] + t.amount * dearest
      BY <1>1, <1>2
    <3> DEFINE x == dearest * s.amount[c]
               y == t.amount * dearest
               z == dearest * (s.amount[c] + t.amount)
    <3>3. x \in Int /\ y \in Int /\ z \in Int /\ v <= y /\ z = x + y /\ s.cost[c] <= x
      BY <1>1, <1>2, <3>1, <3>2
    <3>4. amount = s.amount[c] + t.amount /\ cost = s.cost[c] + v
      BY <2>1
    <3> HIDE DEF x, y, v, amount, cost, c, sold
    <3>5. amount > 0 /\ amount \in Int /\ cost >= 0 /\ cost <= z /\ cost \in Int
      BY <1>1, <1>2, <3>3, <3>4 DEF z
    <3>6. z = dearest * amount
      BY <3>4
    <3>7. sold \in Int
      BY SoldParts DEF sold
    <3> QED
      BY <3>5, <3>6, <3>7
  <2>2. CASE t.side = "sell" /\ s.amount[c] = 0
    <3>1. s.cost[c] = 0 /\ sold = 0
      BY <1>2, <2>2 DEF CostOfSold
    <3>2. amount = -t.amount /\ cost = 0 /\ t.amount <= over
      BY <1>1, <2>2, <3>1
    <3>3. dearest * (-t.amount) <= dearest * 0
      BY <1>1, Scaled
    <3> HIDE DEF amount, cost, v, c, sold
    <3> QED
      BY <1>1, <3>1, <3>2, <3>3
  <2>3. CASE t.side = "sell" /\ s.amount[c] # 0
    <3>1. sold = (s.cost[c] * t.amount) \div s.amount[c]
      BY <1>2, <2>3 DEF CostOfSold
    <3>2. amount = s.amount[c] - t.amount /\ cost = s.cost[c] - sold
          /\ t.amount <= s.amount[c] + over
      BY <2>3
    <3> HIDE DEF amount, cost, v, c, sold
    <3>3. /\ cost \in Int
          /\ amount >= 0 => cost >= 0 /\ cost <= dearest * amount
          /\ amount <= 0 => cost <= 0 /\ cost >= dearest * amount
      BY <1>1, <1>2, <2>3, <3>1, <3>2, CostLeft
    <3>4. amount \in Int /\ amount >= -over
      BY <1>1, <1>2, <3>2
    <3>5. sold \in Int
      BY SoldParts DEF sold
    <3> QED
      BY <3>3, <3>4, <3>5
  <2> QED
    BY <1>1, <2>1, <2>2, <2>3
<1>5. p.cash + cost - p.realized = s.cash + s.cost[c] - s.realized
  <2>1. \/ p.cash = s.cash - v /\ p.realized = s.realized /\ cost = s.cost[c] + v
        \/ p.cash = s.cash + v /\ p.realized = s.realized + v - sold /\ cost = s.cost[c] - sold
    BY <1>3
  <2> HIDE DEF p, c, v, sold, cost, amount
  <2> QED
    BY <1>1, <1>2, <1>4, <2>1
<1>6. p.cash \in Int /\ p.realized \in Int
  <2>1. p \in Ledger
    BY PostedParts
  <2> QED
    BY <2>1, LedgerParts
<1> DEFINE drift == (p.cash + p.cost[c] - p.realized) - (s.cash + s.cost[c] - s.realized)
<1>7. drift = p.cost[c] - cost
  <2> HIDE DEF p, c, cost, amount
  <2>1. p.cost[c] \in Int
    BY <1>3, <1>4
  <2> QED
    BY <1>2, <1>4, <1>5, <1>6, <2>1
<1> HIDE DEF p, c, v, sold, cost, amount, drift
<1>8. CASE amount <= Epsilon
  <2>1. p.amount[c] = 0 /\ p.cost[c] = 0 /\ drift = -cost
    BY <1>3, <1>4, <1>7, <1>8
  <2>2. dearest * p.amount[c] = 0
    BY <2>1
  <2>3. p.amount[c] - amount \in -Epsilon .. over
    BY <1>1, <1>4, <1>8, <2>1
  <2>4. drift \in -(Epsilon * dearest) .. over * dearest
    <3>1. dearest * amount <= dearest * Epsilon /\ dearest * (-over) <= dearest * amount
      BY <1>1, <1>4, <1>8, Scaled
    <3> DEFINE x == dearest * amount
               y == Epsilon * dearest
               z == over * dearest
    <3>2. x <= y /\ -z <= x /\ x \in Int /\ y \in Int /\ z \in Int /\ y >= 0 /\ z >= 0
      BY <1>1, <1>4, <3>1
    <3>3. amount >= 0 => cost >= 0 /\ cost <= x
      BY <1>4
    <3>4. amount <= 0 => cost <= 0 /\ cost >= x
      BY <1>4
    <3> HIDE DEF x, y, z
    <3>5. -cost >= -y /\ -cost <= z
      BY <1>4, <3>2, <3>3, <3>4
    <3> QED
      BY <1>4, <2>1, <3>2, <3>5 DEF y, z
  <2> QED
    BY <2>1, <2>2, <2>3, <2>4 DEF drift, amount, c, p
<1>9. CASE ~(amount <= Epsilon)
  <2>1. p.amount[c] = amount /\ p.cost[c] = cost /\ drift = 0 /\ amount > 0
    BY <1>1, <1>3, <1>4, <1>7, <1>9
  <2>2. dearest * amount \in Int /\ cost >= 0 /\ cost <= dearest * amount
    BY <1>4, <2>1
  <2>3. p.cost[c] \in 0 .. dearest * p.amount[c]
    BY <1>4, <2>1, <2>2
  <2> QED
    BY <1>4, <2>1, <2>3 DEF drift, amount, c, p
<1> QED
  BY <1>8, <1>9

\* One more trade gives up at most one position, its own.
LEMMA DropsAppend ==
  ASSUME NEW balance, NEW S, NEW ts \in Seq(S), NEW t \in S, NEW coins,
         Drops(balance, ts, coins) \in Nat, IsFiniteSet(Closings(balance, ts, coins))
  PROVE  LET more == Append(ts, t)
             gone == t.coin \in coins /\ Compute(balance, more).amount[t.coin] = 0
         IN  /\ IsFiniteSet(Closings(balance, more, coins))
             /\ Drops(balance, more, coins) =
                  IF gone THEN Drops(balance, ts, coins) + 1 ELSE Drops(balance, ts, coins)
<1> DEFINE n == Len(ts)
           more == Append(ts, t)
           old == Closings(balance, ts, coins)
           gone == t.coin \in coins /\ Compute(balance, more).amount[t.coin] = 0
<1>1. /\ n \in Nat /\ DOMAIN ts = 1 .. n /\ DOMAIN more = 1 .. n + 1
      /\ \A i \in 1 .. n : more[i] = ts[i]
      /\ more[n + 1] = t /\ more \in Seq(S) /\ Len(more) = n + 1
  OBVIOUS
<1>2. ASSUME NEW i \in 1 .. n PROVE SubSeq(more, 1, i) = SubSeq(ts, 1, i)
  <2>1. i \in Int /\ \A j \in 1 .. i : j \in 1 .. n /\ more[j] = ts[j]
    BY <1>1
  <2>2. SubSeq(more, 1, i) = [j \in 1 .. i |-> more[j]] /\ SubSeq(ts, 1, i) = [j \in 1 .. i |-> ts[j]]
    BY <1>1
  <2> HIDE DEF more, n
  <2> QED
    BY <2>1, <2>2
<1>3. SubSeq(more, 1, n + 1) = more
  BY <1>1
<1>4. Closings(balance, more, coins) = old \cup (IF gone THEN {n + 1} ELSE {})
  <2> HIDE DEF more, n
  <2>1. \A i \in 1 .. n + 1 : i \in 1 .. n \/ i = n + 1
    BY <1>1
  <2>2. ASSUME NEW i \in 1 .. n PROVE i \in Closings(balance, more, coins) <=> i \in old
    <3>1. i \in DOMAIN more /\ i \in DOMAIN ts /\ more[i] = ts[i]
      BY <1>1, <2>1
    <3>2. SubSeq(more, 1, i) = SubSeq(ts, 1, i)
      BY <1>2
    <3> QED
      BY <3>1, <3>2, Zenon DEF Closings
  <2>3. n + 1 \in Closings(balance, more, coins) <=> gone
    <3>1. n + 1 \in DOMAIN more /\ more[n + 1] = t
      BY <1>1
    <3> QED
      BY <1>3, <3>1, Zenon DEF Closings
  <2>4. Closings(balance, more, coins) \subseteq 1 .. n + 1 /\ old \subseteq 1 .. n
    BY <1>1 DEF Closings
  <2> QED
    BY <1>1, <2>1, <2>2, <2>3, <2>4
<1>5. n + 1 \notin old
  BY <1>1 DEF Closings
<1> HIDE DEF n, more, old
<1>6. /\ IsFiniteSet(old) /\ Cardinality(old) \in Nat
      /\ IsFiniteSet(old \cup {n + 1}) /\ Cardinality(old \cup {n + 1}) = Cardinality(old) + 1
  BY <1>5, FS_AddElement DEF old, Drops
<1> QED
  BY <1>4, <1>6 DEF Drops, old, more

LEMMA DropsOfNone ==
  ASSUME NEW balance, NEW coins
  PROVE  IsFiniteSet(Closings(balance, <<>>, coins)) /\ Drops(balance, <<>>, coins) = 0
<1>1. Closings(balance, <<>>, coins) = {}
  BY DEF Closings
<1> QED
  BY <1>1, FS_EmptySet DEF Drops

LEMMA DropsType ==
  ASSUME NEW balance, NEW S, NEW ts \in Seq(S), NEW coins
  PROVE  IsFiniteSet(Closings(balance, ts, coins)) /\ Drops(balance, ts, coins) \in Nat
<1>1. Closings(balance, ts, coins) \subseteq 1 .. Len(ts) /\ Len(ts) \in Nat
  BY DEF Closings
<1>2. IsFiniteSet(1 .. Len(ts))
  BY <1>1, FS_Interval
<1> QED
  BY <1>1, <1>2, FS_Subset, FS_CardinalityType DEF Drops

LEMMA BooksOpen ==
  ASSUME NEW balance \in Nat, NEW over \in Nat, NEW dearest \in Nat
  PROVE  Books(balance, <<>>, over, dearest)
<1> DEFINE s == Opening(balance)
<1>1. Compute(balance, <<>>) = s /\ s \in Ledger
  BY ComputeOfNone, OpeningType
<1>2. /\ s.cash = balance /\ s.realized = 0
      /\ \A c \in Coins : s.amount[c] = 0 /\ s.cost[c] = 0
  BY DEF Opening
<1>3. RowsOf(<<>>) = {}
  BY DEF RowsOf
<1> HIDE DEF s
<1>4. TotalCost(s) = 0
  <2>1. SumFunctionOnSet(s.cost, Coins) = SumFunctionOnSet(s.cost, {})
    BY <1>2, LedgerAssumption, SumSupport
  <2> QED
    BY <1>1, <2>1, SumOfNone, TotalCostType
<1>5. /\ \A c \in Coins : NetAmount(RowsOf(<<>>), c) = 0 /\ Drops(balance, <<>>, {c}) = 0
      /\ Drops(balance, <<>>, Coins) = 0
  BY <1>3, NetsOfNone, DropsOfNone
<1>6. Epsilon \in Nat
  BY LedgerAssumption
<1>7. ASSUME NEW c \in Coins
      PROVE  /\ s.amount[c] >= 0
             /\ s.cost[c] \in 0 .. dearest * s.amount[c]
             /\ s.amount[c] - NetAmount(RowsOf(<<>>), c)
                  \in -(Epsilon * Drops(balance, <<>>, {c})) .. over * Drops(balance, <<>>, {c})
  <2>1. -(Epsilon * 0) = 0 /\ over * 0 = 0 /\ dearest * 0 = 0 /\ 0 - 0 = 0 /\ 0 \in 0 .. 0
    BY <1>6
  <2>2. s.amount[c] = 0 /\ s.cost[c] = 0
    BY <1>2
  <2>3. NetAmount(RowsOf(<<>>), c) = 0 /\ Drops(balance, <<>>, {c}) = 0
    BY <1>5
  <2> QED
    BY <2>1, <2>2, <2>3
<1>8. s.cash + TotalCost(s) - (balance + s.realized)
        \in -(Epsilon * dearest * Drops(balance, <<>>, Coins))
            .. over * dearest * Drops(balance, <<>>, Coins)
  <2>1. Epsilon * dearest * 0 = 0 /\ over * dearest * 0 = 0
    BY <1>6
  <2> QED
    BY <1>2, <1>4, <1>5, <2>1
<1> QED
  BY <1>1, <1>7, <1>8 DEF Books

\* A number that drifts by one step more stays within one step more.
LEMMA Drifts ==
  ASSUME NEW low \in Nat, NEW high \in Nat, NEW n \in Nat, NEW x \in Int, NEW y \in Int,
         x \in -(low * n) .. high * n, y \in -low .. high
  PROVE  x + y \in -(low * (n + 1)) .. high * (n + 1)
<1> DEFINE l == low * n
           h == high * n
<1>1. l \in Int /\ h \in Int /\ low * (n + 1) = l + low /\ high * (n + 1) = h + high
  OBVIOUS
<1>2. x >= -l /\ x <= h
  BY <1>1
<1> HIDE DEF l, h
<1>3. x + y >= -(l + low) /\ x + y <= h + high
  BY <1>1, <1>2
<1> QED
  BY <1>1, <1>3

LEMMA SameGap ==
  ASSUME NEW x \in Int, NEW y \in Int, NEW z \in Int
  PROVE  /\ x + z \in Int /\ (x + z) - (y + z) = x - y
         /\ x - z \in Int /\ (x - z) - (y - z) = x - y
OBVIOUS

\* Cash, cost and profit of one position move the sum over all of them.
LEMMA Shift ==
  ASSUME NEW balance \in Int, NEW total \in Int,
         NEW cash \in Int, NEW realized \in Int, NEW cost \in Int,
         NEW cash2 \in Int, NEW realized2 \in Int, NEW cost2 \in Int
  PROVE  LET drift == (cash2 + cost2 - realized2) - (cash + cost - realized)
             x == cash + total - (balance + realized)
         IN  /\ drift \in Int /\ x \in Int
             /\ cash2 + (total - cost + cost2) - (balance + realized2) = x + drift
OBVIOUS

\* The books are kept by one trade more.
LEMMA BooksPost ==
  ASSUME NEW balance \in Nat, NEW over \in Nat, NEW dearest \in Nat,
         NEW S, NEW ts \in Seq(S), NEW t \in S,
         \A i \in DOMAIN ts : IsPostable(ts[i]), IsPostable(t), t \notin RowsOf(ts),
         IsFiniteSet(RowsOf(ts)), Books(balance, ts, over, dearest), t.price <= dearest,
         t.side = "sell" => t.amount <= Compute(balance, ts).amount[t.coin] + over
  PROVE  Books(balance, Append(ts, t), over, dearest)
<1> DEFINE s == Compute(balance, ts)
           all == Append(ts, t)
           p == Posted(s, t)
           c == t.coin
           amount == IF t.side = "buy" THEN s.amount[c] + t.amount ELSE s.amount[c] - t.amount
           drift == (p.cash + p.cost[c] - p.realized) - (s.cash + s.cost[c] - s.realized)
<1>1. s \in Ledger /\ Compute(balance, all) = p /\ p \in Ledger
  BY ComputeType, ComputeAppends, PostedParts
<1>2. c \in Coins /\ t.side \in {"buy", "sell"} /\ t.amount \in Nat /\ Epsilon \in Nat
  BY LedgerAssumption DEF IsPostable
<1>3. /\ \A d \in Coins :
           /\ s.amount[d] >= 0
           /\ s.cost[d] \in 0 .. dearest * s.amount[d]
           /\ s.amount[d] - NetAmount(RowsOf(ts), d)
                \in -(Epsilon * Drops(balance, ts, {d})) .. over * Drops(balance, ts, {d})
      /\ s.cash + TotalCost(s) - (balance + s.realized)
           \in -(Epsilon * dearest * Drops(balance, ts, Coins))
               .. over * dearest * Drops(balance, ts, Coins)
  BY DEF Books
<1>4. /\ p.amount[c] >= 0 /\ p.cost[c] \in 0 .. dearest * p.amount[c]
      /\ p.amount[c] # 0 => p.amount[c] = amount /\ drift = 0
      /\ p.amount[c] = 0 => /\ p.amount[c] - amount \in -Epsilon .. over
                            /\ drift \in -(Epsilon * dearest) .. over * dearest
  BY <1>1, <1>2, <1>3, PositionPosted
<1>5. \A d \in Coins \ {c} : p.amount[d] = s.amount[d] /\ p.cost[d] = s.cost[d]
  BY <1>1, PostedParts
<1>6. \A coins : /\ Drops(balance, ts, coins) \in Nat
                 /\ Drops(balance, all, coins) =
                      IF c \in coins /\ p.amount[c] = 0 THEN Drops(balance, ts, coins) + 1
                                                        ELSE Drops(balance, ts, coins)
  BY <1>1, DropsType, DropsAppend
<1>7. \A d \in Coins :
        /\ NetAmount(RowsOf(ts), d) \in Int
        /\ NetAmount(RowsOf(all), d) =
             IF c # d THEN NetAmount(RowsOf(ts), d)
             ELSE IF t.side = "buy" THEN NetAmount(RowsOf(ts), d) + t.amount
             ELSE NetAmount(RowsOf(ts), d) - t.amount
  <2>1. RowsOf(all) = RowsOf(ts) \cup {t}
    <3>1. /\ DOMAIN all = DOMAIN ts \cup {Len(ts) + 1}
          /\ \A i \in DOMAIN ts : all[i] = ts[i]
          /\ all[Len(ts) + 1] = t
      OBVIOUS
    <3> QED
      BY <3>1 DEF RowsOf
  <2>2. Postables(RowsOf(ts) \cup {t})
    <3>1. IsFiniteSet(RowsOf(ts) \cup {t})
      BY FS_AddElement
    <3>2. \A u \in RowsOf(ts) : IsPostable(u)
      BY DEF RowsOf
    <3> QED
      BY <3>1, <3>2 DEF Postables
  <2> TAKE d \in Coins
  <2>3. /\ NetAmount(RowsOf(ts), d) \in Int
        /\ NetAmount(RowsOf(ts) \cup {t}, d) =
             IF c # d THEN NetAmount(RowsOf(ts), d)
             ELSE IF t.side = "buy" THEN NetAmount(RowsOf(ts), d) + t.amount
             ELSE NetAmount(RowsOf(ts), d) - t.amount
    BY <2>2, NetAmountAdds
  <2> QED
    BY <2>1, <2>3
<1>8. /\ s.amount[c] \in Int /\ p.amount[c] \in Int
      /\ s.cash \in Int /\ s.realized \in Int /\ s.cost[c] \in Int
      /\ p.cash \in Int /\ p.realized \in Int /\ p.cost[c] \in Int
  BY <1>1, <1>2, LedgerParts
<1>9. TotalCost(p) = TotalCost(s) - s.cost[c] + p.cost[c] /\ TotalCost(s) \in Int
  BY <1>1, TotalCostPosted, TotalCostType
<1>10. ASSUME NEW d \in Coins
       PROVE  /\ p.amount[d] >= 0
              /\ p.cost[d] \in 0 .. dearest * p.amount[d]
              /\ p.amount[d] - NetAmount(RowsOf(all), d)
                   \in -(Epsilon * Drops(balance, all, {d})) .. over * Drops(balance, all, {d})
  <2>1. CASE d # c
    <3>1. Drops(balance, all, {d}) = Drops(balance, ts, {d})
      BY <1>6, <2>1
    <3>2. NetAmount(RowsOf(all), d) = NetAmount(RowsOf(ts), d)
      BY <1>7, <2>1
    <3>3. p.amount[d] = s.amount[d] /\ p.cost[d] = s.cost[d]
      BY <1>5, <2>1
    <3> HIDE DEF p, s, all, c
    <3> QED
      BY <1>3, <3>1, <3>2, <3>3
  <2>2. CASE d = c
    <3> DEFINE net == NetAmount(RowsOf(ts), c)
               after == NetAmount(RowsOf(all), c)
               k == Drops(balance, ts, {c})
    <3>1. /\ net \in Int /\ k \in Nat
          /\ after = IF t.side = "buy" THEN net + t.amount ELSE net - t.amount
          /\ Drops(balance, all, {c}) = IF p.amount[c] = 0 THEN k + 1 ELSE k
          /\ s.amount[c] - net \in -(Epsilon * k) .. over * k
      BY <1>2, <1>3, <1>6, <1>7
    <3>2. amount \in Int /\ amount - after = s.amount[c] - net
      <4>1. \/ amount = s.amount[c] + t.amount /\ after = net + t.amount
            \/ amount = s.amount[c] - t.amount /\ after = net - t.amount
        BY <1>2, <3>1
      <4>2. s.amount[c] \in Int
        BY <1>8
      <4>3. net \in Int /\ t.amount \in Int
        BY <1>2, <3>1
      <4> HIDE DEF net, after, s, c, amount, k, p, all
      <4> QED
        BY <4>1, <4>2, <4>3, SameGap
    <3> HIDE DEF net, after, k, amount, s, p, c
    <3>3. CASE p.amount[c] = 0
      <4>1. /\ s.amount[c] - net \in Int /\ p.amount[c] - amount \in Int
            /\ p.amount[c] - amount \in -Epsilon .. over
        BY <1>4, <1>8, <3>1, <3>2, <3>3
      <4>2. (s.amount[c] - net) + (p.amount[c] - amount)
              \in -(Epsilon * (k + 1)) .. over * (k + 1)
        BY <1>2, <3>1, <4>1, Drifts
      <4>3. p.amount[c] - after = (s.amount[c] - net) + (p.amount[c] - amount)
        <5>1. after \in Int
          BY <1>2, <3>1
        <5>2. p.amount[c] \in Int /\ s.amount[c] \in Int /\ net \in Int
          BY <1>8, <3>1
        <5> QED
          BY <3>2, <5>1, <5>2
      <4> QED
        BY <1>4, <2>2, <3>1, <3>3, <4>2, <4>3 DEF after
    <3>4. CASE p.amount[c] # 0
      BY <1>4, <2>2, <3>1, <3>2, <3>4 DEF after
    <3> QED
      BY <3>3, <3>4
  <2> QED
    BY <2>1, <2>2
<1>11. p.cash + TotalCost(p) - (balance + p.realized)
         \in -(Epsilon * dearest * Drops(balance, all, Coins))
             .. over * dearest * Drops(balance, all, Coins)
  <2> DEFINE k == Drops(balance, ts, Coins)
             x == s.cash + TotalCost(s) - (balance + s.realized)
             low == Epsilon * dearest
             high == over * dearest
  <2>1. k \in Nat /\ Drops(balance, all, Coins) = IF p.amount[c] = 0 THEN k + 1 ELSE k
    BY <1>2, <1>6
  <2>2. drift \in Int /\ x \in Int /\ p.cash + TotalCost(p) - (balance + p.realized) = x + drift
    <3>1. /\ s.cash \in Int /\ s.realized \in Int /\ s.cost[c] \in Int
          /\ p.cash \in Int /\ p.realized \in Int /\ p.cost[c] \in Int
      BY <1>8
    <3>2. TotalCost(p) = TotalCost(s) - s.cost[c] + p.cost[c] /\ TotalCost(s) \in Int
      BY <1>9
    <3> DEFINE cash == s.cash
               realized == s.realized
               cost == s.cost[c]
               total == TotalCost(s)
               cash2 == p.cash
               realized2 == p.realized
               cost2 == p.cost[c]
               total2 == TotalCost(p)
    <3>3. /\ cash \in Int /\ realized \in Int /\ cost \in Int /\ total \in Int
          /\ cash2 \in Int /\ realized2 \in Int /\ cost2 \in Int /\ balance \in Int
          /\ total2 = total - cost + cost2
      BY <3>1, <3>2
    <3>4. /\ drift = (cash2 + cost2 - realized2) - (cash + cost - realized)
          /\ x = cash + total - (balance + realized)
      OBVIOUS
    <3> HIDE DEF s, p, c, k, low, high, drift, x, cash, realized, cost, total,
                 cash2, realized2, cost2, total2
    <3>5. drift \in Int /\ x \in Int /\ cash2 + total2 - (balance + realized2) = x + drift
      BY <3>3, <3>4, Shift
    <3> QED
      BY <3>5 DEF cash2, total2, realized2
  <2>3. low \in Nat /\ high \in Nat /\ x \in -(low * k) .. high * k
    BY <1>2, <1>3
  <2>4. p.amount[c] # 0 => drift = 0
    BY <1>4
  <2>5. p.amount[c] = 0 => drift \in -low .. high
    BY <1>4
  <2> HIDE DEF k, x, low, high, drift, p, s, c
  <2>6. x + drift \in -(low * Drops(balance, all, Coins)) .. high * Drops(balance, all, Coins)
    <3>1. CASE p.amount[c] = 0
      BY <2>1, <2>2, <2>3, <2>5, <3>1, Drifts
    <3>2. CASE p.amount[c] # 0
      BY <2>1, <2>2, <2>3, <2>4, <3>2
    <3> QED
      BY <3>1, <3>2
  <2> QED
    BY <2>2, <2>6 DEF low, high
<1> HIDE DEF s, p, c, all
<1> QED
  BY <1>1, <1>10, <1>11 DEF Books, all

\* Every list of trades has books: no sale takes more than its own amount beyond
\* the position.
LEMMA BooksOfAny ==
  ASSUME NEW balance \in Nat, NEW over \in Nat, NEW dearest \in Nat,
         NEW S, NEW ts \in Seq(S), \A i \in DOMAIN ts : IsPostable(ts[i]),
         \A i, j \in DOMAIN ts : i # j => ts[i] # ts[j],
         \A i \in DOMAIN ts : ts[i].amount <= over /\ ts[i].price <= dearest
  PROVE  Books(balance, ts, over, dearest)
<1> DEFINE n == Len(ts)
           upTo(k) == SubSeq(ts, 1, k)
           F == {k \in Nat : k <= n => Books(balance, upTo(k), over, dearest)}
<1>1. n \in Nat /\ DOMAIN ts = 1 .. n /\ \A i \in 1 .. n : ts[i] \in S
  OBVIOUS
<1>2. ASSUME NEW k \in Nat, k <= n
      PROVE  /\ upTo(k) \in Seq(S) /\ Len(upTo(k)) = k /\ DOMAIN upTo(k) = 1 .. k
             /\ \A i \in 1 .. k : i \in 1 .. n /\ upTo(k)[i] = ts[i]
  BY <1>1, <1>2
<1>3. 0 \in F
  <2>1. upTo(0) = <<>>
    BY <1>1, <1>2
  <2> QED
    BY <2>1, BooksOpen
<1>4. ASSUME NEW k \in Nat, k \in F PROVE k + 1 \in F
  <2> SUFFICES ASSUME k + 1 <= n PROVE Books(balance, upTo(k + 1), over, dearest)
    OBVIOUS
  <2> DEFINE list == upTo(k)
             t == ts[k + 1]
  <2>1. k <= n /\ k + 1 \in 1 .. n /\ \A i \in 1 .. k : i # k + 1
    BY <1>1
  <2>2. Books(balance, list, over, dearest)
    BY <1>4, <2>1
  <2>3. /\ list \in Seq(S) /\ Len(list) = k /\ DOMAIN list = 1 .. k
        /\ \A i \in 1 .. k : i \in 1 .. n /\ list[i] = ts[i]
    BY <1>2, <2>1
  <2>4. t \in S /\ IsPostable(t) /\ t.amount <= over /\ t.price <= dearest
    BY <1>1, <2>1
  <2>5. upTo(k + 1) = Append(list, t)
    <3>1. /\ upTo(k + 1) \in Seq(S) /\ Len(upTo(k + 1)) = k + 1
          /\ \A i \in 1 .. k + 1 : upTo(k + 1)[i] = ts[i]
      BY <1>2
    <3>2. /\ Append(list, t) \in Seq(S) /\ Len(Append(list, t)) = k + 1
          /\ \A i \in 1 .. k + 1 : Append(list, t)[i] = ts[i]
      <4> HIDE DEF list, t, F
      <4>1. Append(list, t) \in Seq(S) /\ Len(Append(list, t)) = k + 1
        BY <2>3, <2>4
      <4>2. \A i \in 1 .. k : Append(list, t)[i] = list[i]
        BY <2>3, <2>4
      <4>3. Append(list, t)[k + 1] = t
        BY <2>3, <2>4
      <4> QED
        BY <2>3, <4>1, <4>2, <4>3 DEF t
    <3> HIDE DEF upTo, list, t, F
    <3> QED
      BY <3>1, <3>2
  <2>6. \A i \in DOMAIN list : IsPostable(list[i])
    BY <1>1, <2>3
  <2>7. t \notin RowsOf(list)
    BY <1>1, <2>1, <2>3 DEF RowsOf
  <2>8. IsFiniteSet(RowsOf(list))
    <3> HIDE DEF list
    <3>1. IsFiniteSet(1 .. k)
      BY FS_Interval
    <3>2. RowsOf(list) = {list[i] : i \in 1 .. k}
      BY <2>3 DEF RowsOf
    <3> DEFINE f == [i \in 1 .. k |-> list[i]]
    <3>3. f \in Surjection(1 .. k, RowsOf(list))
      BY <3>2 DEF Surjection
    <3> QED
      BY <3>1, <3>3, FS_Surjection
  <2> HIDE DEF list, t, upTo, F
  <2>9. t.amount <= Compute(balance, list).amount[t.coin] + over
    <3>1. t.coin \in Coins /\ t.amount \in Nat
      BY <2>4 DEF IsPostable
    <3>2. Compute(balance, list) \in Ledger
      <4>1. balance \in Int /\ list \in Seq(S)
        BY <2>3
      <4> QED
        BY <2>6, <4>1, ComputeType
    <3>3. Compute(balance, list).amount[t.coin] \in Int
      BY <3>1, <3>2, LedgerParts
    <3>4. Compute(balance, list).amount[t.coin] >= 0
      BY <2>2, <3>1 DEF Books
    <3> QED
      BY <2>4, <3>1, <3>3, <3>4
  <2>10. list \in Seq(S) /\ t \in S /\ IsPostable(t) /\ t.price <= dearest
    BY <2>3, <2>4
  <2>11. Books(balance, Append(list, t), over, dearest)
    BY <2>2, <2>6, <2>7, <2>8, <2>9, <2>10, BooksPost
  <2> QED
    BY <2>5, <2>11
<1>5. n \in F
  <2>1. Nat \subseteq F
    <3> HIDE DEF F
    <3> QED
      BY <1>3, <1>4, NaturalInduction
  <2> QED
    BY <1>1, <2>1
<1>6. upTo(n) = ts
  BY <1>1
<1>7. Books(balance, upTo(n), over, dearest)
  BY <1>1, <1>5
<1> HIDE DEF upTo, n
<1> QED
  BY <1>6, <1>7

-----------------------------------------------------------------------------
(* The tables                                                              *)

\* Primary keys given in order, and the foreign key of a trade.
Keyed ==
  /\ KeysHold
  /\ \A row \in portfolios : row.id <= lastPortfolio
  /\ \A t \in trades : t.id <= lastTrade

StoreOK ==
  /\ PaperStoreTypeOK
  /\ IsFiniteSet(portfolios) /\ IsFiniteSet(trades)
  /\ Keyed

\* A portfolio that was there before, with the same trades.
Stays(row) ==
  /\ \E old \in portfolios : old.id = row.id /\ old.balance = row.balance
  /\ TradesOf(row.id)' = TradesOf(row.id)

LEMMA StoreParts ==
  ASSUME StoreOK
  PROVE  /\ registered \subseteq Owners /\ portfolios \subseteq PortfolioRow
         /\ trades \subseteq TradeRow /\ lastPortfolio \in Nat /\ lastTrade \in Nat
         /\ \A row \in portfolios : row.id \in Nat /\ row.balance \in Nat
         /\ \A t \in trades : /\ IsPostable(t) /\ t.id \in Nat /\ t.portfolio \in Nat
                              /\ t.executedAt \in Nat
BY DEF StoreOK, PaperStoreTypeOK, PortfolioRow, TradeRow, IsPostable

\* A portfolio is the row with its id.
LEMMA PortfolioOfRow ==
  ASSUME StoreOK
  PROVE  /\ \A row \in portfolios : PortfolioExists(row.id) /\ PortfolioOf(row.id) = row
         /\ \A p : PortfolioExists(p) => PortfolioOf(p) \in portfolios /\ PortfolioOf(p).id = p
<1>1. ASSUME NEW p, PortfolioExists(p)
      PROVE  PortfolioOf(p) \in portfolios /\ PortfolioOf(p).id = p
  BY <1>1 DEF PortfolioExists, PortfolioOf
<1>2. ASSUME NEW row \in portfolios
      PROVE  PortfolioExists(row.id) /\ PortfolioOf(row.id) = row
  <2>1. PortfolioExists(row.id)
    BY DEF PortfolioExists
  <2> QED
    BY <1>1, <2>1 DEF StoreOK, Keyed, KeysHold
<1> QED
  BY <1>1, <1>2

\* The trades of a portfolio have an order, and their list holds them all.
LEMMA Histories ==
  ASSUME StoreOK, NEW p
  PROVE  /\ Sortable(TradesOf(p)) /\ Postables(TradesOf(p)) /\ TradesOf(p) \subseteq trades
         /\ ListAllByPortfolio(p) \in Seq(TradeRow)
         /\ RowsOf(ListAllByPortfolio(p)) = TradesOf(p)
         /\ \A i \in DOMAIN ListAllByPortfolio(p) : IsPostable(ListAllByPortfolio(p)[i])
         /\ \A i, j \in DOMAIN ListAllByPortfolio(p) :
              i # j => ListAllByPortfolio(p)[i] # ListAllByPortfolio(p)[j]
<1> DEFINE ts == TradesOf(p)
<1>1. ts \subseteq trades /\ IsFiniteSet(ts)
  BY FS_Subset DEF TradesOf, StoreOK
<1>2. Sortable(ts) /\ Postables(ts)
  BY <1>1, StoreParts DEF Sortable, Postables, StoreOK, Keyed, KeysHold
<1> HIDE DEF ts
<1>3. /\ InOrder(ts) \in Seq(ts) /\ RowsOf(InOrder(ts)) = ts
      /\ \A i, j \in DOMAIN InOrder(ts) : i # j => InOrder(ts)[i] # InOrder(ts)[j]
  BY <1>2, InOrderLists
<1>4. InOrder(ts) \in Seq(TradeRow) /\ \A i \in DOMAIN InOrder(ts) : InOrder(ts)[i] \in ts
  BY <1>1, <1>3, StoreParts
<1>5. \A i \in DOMAIN InOrder(ts) : IsPostable(InOrder(ts)[i])
  BY <1>1, <1>4, StoreParts
<1> QED
  BY <1>1, <1>2, <1>3, <1>4, <1>5 DEF ts, ListAllByPortfolio

LEMMA StoreInit == ASSUME PaperStoreInit PROVE StoreOK
BY FS_EmptySet DEF PaperStoreInit, StoreOK, PaperStoreTypeOK, Keyed, KeysHold

LEMMA CreateKeeps ==
  ASSUME StoreOK, NEW d \in Owners, NEW name \in Names, NEW balance \in Nat \ {0},
         NEW time \in Nat, CanCreate(d, name), Create(d, name, balance, time),
         UNCHANGED <<registered, trades, lastTrade>>
  PROVE  /\ StoreOK' /\ lastPortfolio' = lastPortfolio + 1
         /\ \A row \in portfolios' :
              Stays(row) \/ (row.id = lastPortfolio' /\ TradesOf(row.id)' = {})
<1> DEFINE new == [id |-> lastPortfolio + 1, device |-> d, name |-> name,
                   balance |-> balance, updatedAt |-> time]
<1>1. /\ portfolios' = portfolios \cup {new} /\ lastPortfolio' = lastPortfolio + 1
      /\ new.id = lastPortfolio + 1 /\ new.id \in Nat /\ new \in PortfolioRow
  BY StoreParts DEF Create, PortfolioRow
<1> HIDE DEF new
<1>2. \A row \in portfolios : row.id \in Nat /\ row.id <= lastPortfolio /\ row.id # new.id
  BY <1>1, StoreParts DEF StoreOK, Keyed, KeysHold
<1>3. IsFiniteSet(portfolios')
  BY <1>1, FS_AddElement DEF StoreOK
<1>4. PaperStoreTypeOK'
  BY <1>1, StoreParts DEF StoreOK, PaperStoreTypeOK
<1>5. Keyed'
  <2>1. d \in registered /\ \A row \in portfolios : row.device = d => row.name # name
    BY DEF CanCreate, OwnedBy
  <2>2. \A row \in portfolios : ~(row.device = new.device /\ row.name = new.name)
    BY <2>1 DEF new
  <2>3. new.device = d
    BY DEF new
  <2>4. /\ \A row, other \in portfolios :
            row.id = other.id \/ (row.device = other.device /\ row.name = other.name)
              => row = other
        /\ \A t, u \in trades : t.id = u.id => t = u
        /\ \A row \in portfolios : row.device \in registered /\ row.id <= lastPortfolio
        /\ \A t \in trades : t.id <= lastTrade /\ PortfolioExists(t.portfolio)
    BY DEF StoreOK, Keyed, KeysHold
  <2>5. \A row, other \in portfolios' :
          row.id = other.id \/ (row.device = other.device /\ row.name = other.name)
            => row = other
    BY <1>1, <1>2, <2>2, <2>4
  <2>6. /\ \A t, u \in trades' : t.id = u.id => t = u
        /\ \A t \in trades' : t.id <= lastTrade' /\ PortfolioExists(t.portfolio)'
    BY <1>1, <2>4 DEF PortfolioExists
  <2>7. \A row \in portfolios' : row.device \in registered' /\ row.id <= lastPortfolio'
    BY <1>1, <1>2, <2>1, <2>3, <2>4, StoreParts
  <2> QED
    BY <2>5, <2>6, <2>7 DEF Keyed, KeysHold
<1>6. \A row \in portfolios : Stays(row)
  BY DEF Stays, TradesOf
<1>7. ASSUME NEW row, row.id = new.id PROVE TradesOf(row.id)' = {}
  <2>1. \A t \in trades : t.portfolio # row.id
    BY <1>2, <1>7 DEF StoreOK, Keyed, KeysHold, PortfolioExists
  <2> QED
    BY <2>1 DEF TradesOf
<1>8. StoreOK'
  BY <1>3, <1>4, <1>5 DEF StoreOK
<1> QED
  BY <1>1, <1>6, <1>7, <1>8

LEMMA DeleteKeeps ==
  ASSUME StoreOK, NEW rows \in SUBSET portfolios, DeletePortfolios(rows),
         UNCHANGED <<lastPortfolio, lastTrade>>, registered' \subseteq Owners,
         \A row \in portfolios \ rows : row.device \in registered'
  PROVE  /\ StoreOK' /\ trades' \subseteq trades
         /\ \A row \in portfolios' : Stays(row)
<1>1. /\ portfolios' = portfolios \ rows /\ trades' \subseteq trades
      /\ trades' = {t \in trades : \A row \in rows : t.portfolio # row.id}
  BY DEF DeletePortfolios
<1>2. PaperStoreTypeOK'
  BY <1>1, StoreParts DEF StoreOK, PaperStoreTypeOK
<1>3. IsFiniteSet(portfolios') /\ IsFiniteSet(trades')
  BY <1>1, FS_Subset DEF StoreOK
<1>4. \A t \in trades' : PortfolioExists(t.portfolio)'
  <2> TAKE t \in trades'
  <2>1. PICK row \in portfolios : row.id = t.portfolio
    BY <1>1 DEF StoreOK, Keyed, KeysHold, PortfolioExists
  <2> QED
    BY <1>1, <2>1 DEF PortfolioExists
<1>5. Keyed'
  BY <1>1, <1>4 DEF StoreOK, Keyed, KeysHold
<1>6. ASSUME NEW row \in portfolios' PROVE Stays(row)
  <2>1. row \in portfolios /\ \A other \in rows : other.id # row.id
    BY <1>1 DEF StoreOK, Keyed, KeysHold
  <2>2. TradesOf(row.id)' = TradesOf(row.id)
    BY <1>1, <2>1 DEF TradesOf
  <2> QED
    BY <2>1, <2>2 DEF Stays
<1> QED
  BY <1>1, <1>2, <1>3, <1>5, <1>6 DEF StoreOK

LEMMA InsertKeeps ==
  ASSUME StoreOK, NEW p, PortfolioExists(p), NEW entry, NEW time \in Nat,
         IsPostable(entry), InsertTrade(p, entry, time),
         UNCHANGED <<registered, portfolios, lastPortfolio>>
  PROVE  LET t == [id |-> lastTrade + 1, portfolio |-> p, side |-> entry.side,
                   coin |-> entry.coin, amount |-> entry.amount, price |-> entry.price,
                   executedAt |-> time]
         IN  /\ StoreOK' /\ lastTrade' = lastTrade + 1
             /\ t \in TradeRow /\ IsPostable(t) /\ t \notin trades
             /\ trades' = trades \cup {t} /\ TradesOf(p)' = TradesOf(p) \cup {t}
             /\ \A row \in portfolios' : row.id # p => Stays(row)
<1> DEFINE t == [id |-> lastTrade + 1, portfolio |-> p, side |-> entry.side,
                 coin |-> entry.coin, amount |-> entry.amount, price |-> entry.price,
                 executedAt |-> time]
<1>1. p \in Nat
  BY StoreParts DEF PortfolioExists
<1>2. t \in TradeRow /\ IsPostable(t) /\ t.id = lastTrade + 1 /\ t.portfolio = p
  BY <1>1, StoreParts DEF TradeRow, IsPostable
<1>3. trades' = trades \cup {t} /\ lastTrade' = lastTrade + 1
  BY DEF InsertTrade
<1> HIDE DEF t
<1>4. \A u \in trades : u.id \in Nat /\ u.id <= lastTrade /\ u.id # t.id
  BY <1>2, StoreParts DEF StoreOK, Keyed, KeysHold
<1>5. PaperStoreTypeOK'
  BY <1>2, <1>3, StoreParts DEF StoreOK, PaperStoreTypeOK
<1>6. IsFiniteSet(trades')
  BY <1>3, FS_AddElement DEF StoreOK
<1>7. Keyed'
  BY <1>2, <1>3, <1>4, StoreParts DEF StoreOK, Keyed, KeysHold, PortfolioExists
<1>8. TradesOf(p)' = TradesOf(p) \cup {t} /\ \A q : q # p => TradesOf(q)' = TradesOf(q)
  BY <1>2, <1>3 DEF TradesOf
<1>9. StoreOK' /\ t \notin trades
  BY <1>4, <1>5, <1>6, <1>7 DEF StoreOK
<1>10. \A row \in portfolios' : row.id # p => Stays(row)
  BY <1>8 DEF Stays
<1> QED
  BY <1>2, <1>3, <1>8, <1>9, <1>10 DEF t

LEMMA TouchKeeps ==
  ASSUME StoreOK, NEW p, NEW time \in Nat, Touch(p, time),
         UNCHANGED <<registered, trades, lastPortfolio, lastTrade>>
  PROVE  /\ StoreOK' /\ \A row \in portfolios' : Stays(row)
         /\ \A row \in portfolios : PortfolioExists(row.id)'
<1> DEFINE Touched(row) == IF row.id = p THEN [row EXCEPT !.updatedAt = time] ELSE row
<1>1. portfolios' = {Touched(row) : row \in portfolios}
  BY DEF Touch
<1>2. \A row \in portfolios : /\ Touched(row) \in PortfolioRow
                              /\ Touched(row).id = row.id
                              /\ Touched(row).balance = row.balance
                              /\ Touched(row).device = row.device
                              /\ Touched(row).name = row.name
  BY StoreParts DEF PortfolioRow
<1> HIDE DEF Touched
<1>3. IsFiniteSet(portfolios')
  <2> DEFINE f == [row \in portfolios |-> Touched(row)]
  <2>1. f \in Surjection(portfolios, portfolios')
    BY <1>1 DEF Surjection
  <2> QED
    BY <2>1, FS_Surjection DEF StoreOK
<1>4. PaperStoreTypeOK'
  BY <1>1, <1>2, StoreParts DEF StoreOK, PaperStoreTypeOK
<1>5. \A row \in portfolios : PortfolioExists(row.id)'
  BY <1>1, <1>2 DEF PortfolioExists
<1>6. Keyed'
  <2>1. \A t \in trades : PortfolioExists(t.portfolio)'
    BY <1>5 DEF StoreOK, Keyed, KeysHold, PortfolioExists
  <2>2. ASSUME NEW row \in portfolios', NEW other \in portfolios',
               row.id = other.id \/ (row.device = other.device /\ row.name = other.name)
        PROVE  row = other
    BY <1>1, <1>2, <2>2 DEF StoreOK, Keyed, KeysHold
  <2>3. \A row \in portfolios' : row.id <= lastPortfolio /\ row.device \in registered
    BY <1>1, <1>2 DEF StoreOK, Keyed, KeysHold
  <2> QED
    BY <2>1, <2>2, <2>3 DEF StoreOK, Keyed, KeysHold
<1>7. \A row \in portfolios' : Stays(row)
  BY <1>1, <1>2 DEF Stays, TradesOf
<1> QED
  BY <1>3, <1>4, <1>5, <1>6, <1>7 DEF StoreOK
=============================================================================
