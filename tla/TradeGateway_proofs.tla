------------------------ MODULE TradeGateway_proofs ------------------------
(***************************************************************************)
(* The rate limiter keeps its account exactly, for any number of devices,  *)
(* any rate and capacity and any sequence of requests, refusals, restarts  *)
(* and readings of the clock: a bucket's tokens are what the least         *)
(* generous span of time still leaves to its device, which makes the bound *)
(* on every span inductive.  The pricing cache keeps its promises for any  *)
(* number of coins and calls, any lifetime of prices and any timeout of    *)
(* requests: requests and entries carry when they were sent, sampled and   *)
(* stored, which bounds how old a price can be wherever it is kept.        *)
(***************************************************************************)
EXTENDS TradeGateway, TLAPS

-----------------------------------------------------------------------------
(* The rate limiter                                                          *)

\* What the span from g[i] to now leaves to a device granted at g.
Left(g, i, now, lives) == Allowance(g[i], now, lives) - Grants(i, Len(g)) * Token

\* A bucket has as many tokens as the span that leaves least leaves; where there
\* is none yet, or none any more, every span leaves a full one.
Account(d) ==
  IF buckets[d] = Absent
    THEN \A i \in DOMAIN granted[d] :
           granted[d][i].at <= clock /\ Capacity <= Left(granted[d], i, clock, life)
    ELSE /\ buckets[d].lastFill <= clock
         /\ \A i \in DOMAIN granted[d] :
              /\ granted[d][i].at <= buckets[d].lastFill
              /\ buckets[d].tokens <= Left(granted[d], i, buckets[d].lastFill, life)
         /\ \E i \in DOMAIN granted[d] :
              buckets[d].tokens = Left(granted[d], i, buckets[d].lastFill, life)

AccountInv ==
  /\ LimiterTypeOK
  /\ clock \in Nat
  /\ \A d \in Clients : Account(d)
  /\ WindowBound

-----------------------------------------------------------------------------

LEMMA CapacityFacts == Capacity \in Nat /\ Token <= Capacity
<1>1. \A x \in Nat \ {0}, y \in Nat \ {0} : x * y \in Nat /\ y <= x * y
  OBVIOUS
<1> QED BY <1>1, LimiterAssumption DEF Capacity

LEMMA RateSplits ==
  ASSUME NEW a \in Int, NEW b \in Int, NEW c \in Int
  PROVE  /\ Rate * (c - a) = Rate * (b - a) + (c - b) * Rate
         /\ Rate * (b - a) \in Int /\ (c - b) * Rate \in Int
<1>1. Rate \in Int
  BY LimiterAssumption
<1> QED BY <1>1

LEMMA GrantsTaken ==
  ASSUME NEW i \in Nat, NEW n \in Nat
  PROVE  /\ Grants(i, n) * Token \in Int
         /\ Grants(i, n + 1) * Token = Grants(i, n) * Token + Token
<1>1. Token \in Int /\ Grants(i, n) \in Int /\ Grants(i, n + 1) = Grants(i, n) + 1
  BY LimiterAssumption DEF Grants
<1>2. \A x, y \in Int : x * y \in Int /\ (x + 1) * y = x * y + y
  OBVIOUS
<1> QED BY <1>1, <1>2

\* What a restart adds is a full bucket.
LEMMA AllowanceParts ==
  ASSUME NEW g \in Grant, NEW now \in Nat, NEW lives \in Nat
  PROVE  /\ Allowance(g, now, lives) \in Int
         /\ Allowance(g, now, lives + 1) = Allowance(g, now, lives) + Capacity
         /\ \A then \in Nat :
              Allowance(g, now, lives) = Allowance(g, then, lives) + (now - then) * Rate
<1> DEFINE x == g.at
           k == 1 + lives - g.life
<1>1. x \in Int /\ k \in Int /\ 1 + (lives + 1) - g.life = k + 1
  BY DEF Grant
<1>2. \A b, c \in Int : b * c \in Int /\ b * (c + 1) = b * c + b
  OBVIOUS
<1>3. Capacity \in Int /\ Capacity * k \in Int /\ Capacity * (k + 1) = Capacity * k + Capacity
  BY <1>1, <1>2, CapacityFacts
<1>4. Rate * (now - x) \in Int
  BY <1>1, <1>2, LimiterAssumption
<1>5. ASSUME NEW then \in Nat
      PROVE  /\ Rate * (now - x) = Rate * (then - x) + (now - then) * Rate
             /\ Rate * (then - x) \in Int /\ (now - then) * Rate \in Int
  <2> HIDE DEF x
  <2>1. then \in Int /\ now \in Int
    OBVIOUS
  <2> QED
    BY <1>1, <2>1, RateSplits, Zenon
<1>6. /\ Allowance(g, now, lives) = Capacity * k + Rate * (now - x)
      /\ Allowance(g, now, lives + 1) = Capacity * (k + 1) + Rate * (now - x)
      /\ \A then \in Nat : Allowance(g, then, lives) = Capacity * k + Rate * (then - x)
  BY <1>1 DEF Allowance
<1> HIDE DEF x, k
<1> QED
  BY <1>3, <1>4, <1>5, <1>6

LEMMA GrantOf ==
  ASSUME NEW g \in Seq(Grant), NEW i \in DOMAIN g
  PROVE  g[i] \in Grant /\ g[i].at \in Nat /\ g[i].life \in Nat
<1>1. g[i] \in Grant
  OBVIOUS
<1> QED BY <1>1 DEF Grant

LEMMA LeftIsInt ==
  ASSUME NEW g \in Seq(Grant), NEW i \in DOMAIN g, NEW now \in Nat, NEW lives \in Nat
  PROVE  /\ Left(g, i, now, lives) \in Int
         /\ Left(g, i, now, lives + 1) = Left(g, i, now, lives) + Capacity
<1>1. i \in Nat /\ g[i] \in Grant /\ Len(g) \in Nat
  OBVIOUS
<1>2. Grants(i, Len(g)) * Token \in Int
  BY <1>1, GrantsTaken
<1>3. /\ Allowance(g[i], now, lives) \in Int
      /\ Allowance(g[i], now, lives + 1) = Allowance(g[i], now, lives) + Capacity
  BY <1>1, AllowanceParts
<1> QED BY <1>2, <1>3, CapacityFacts DEF Left

\* From one reading of the clock to a later one a span gains what flows in.
LEMMA LeftFlows ==
  ASSUME NEW g \in Seq(Grant), NEW i \in DOMAIN g, NEW then \in Nat, NEW now \in Nat,
         NEW lives \in Nat
  PROVE  Left(g, i, now, lives) = Left(g, i, then, lives) + (now - then) * Rate
<1>1. i \in Nat /\ g[i] \in Grant /\ Len(g) \in Nat
  OBVIOUS
<1>2. Grants(i, Len(g)) * Token \in Int
  BY <1>1, GrantsTaken
<1>3. ASSUME NEW x \in Grant
      PROVE  /\ Allowance(x, then, lives) \in Int
             /\ Allowance(x, now, lives) = Allowance(x, then, lives) + (now - then) * Rate
  BY <1>3, AllowanceParts
<1>4. (now - then) * Rate \in Int
  <2>1. \A b, c \in Int : b * c \in Int
    OBVIOUS
  <2> QED BY <2>1, LimiterAssumption
<1> QED BY <1>1, <1>2, <1>3, <1>4 DEF Left

LEMMA RateGrows ==
  ASSUME NEW a \in Int, NEW b \in Int, a <= b
  PROVE  (b - a) * Rate \in Nat
<1>1. \A x \in Nat, y \in Nat : x * y \in Nat
  OBVIOUS
<1>2. b - a \in Nat
  OBVIOUS
<1> QED BY <1>1, <1>2, LimiterAssumption

\* A refill stamps the bucket, keeps it within its capacity, and adds what
\* flowed in unless the capacity cuts it off.
LEMMA RefilledFacts ==
  ASSUME NEW b \in Bucket, NEW now \in Nat, b.lastFill <= now
  PROVE  /\ Refilled(b, now) \in Bucket
         /\ Refilled(b, now).lastFill = now
         /\ Refilled(b, now).tokens <= b.tokens + (now - b.lastFill) * Rate
         /\ \/ Refilled(b, now).tokens = b.tokens + (now - b.lastFill) * Rate
            \/ Refilled(b, now).tokens = Capacity
<1> DEFINE flow == (now - b.lastFill) * Rate
<1>1. b.tokens \in 0 .. Capacity /\ b.lastFill \in Nat /\ Capacity \in Nat
  BY CapacityFacts DEF Bucket
<1>2. flow \in Nat
  BY <1>1, RateGrows
<1>3. CASE now > b.lastFill
  <2> HIDE DEF flow
  <2>1. Refilled(b, now) = [tokens |-> IF b.tokens + flow > Capacity THEN Capacity
                                                                    ELSE b.tokens + flow,
                            lastFill |-> now]
    BY <1>3 DEF Refilled, flow
  <2>2. QED
    BY <1>1, <1>2, <2>1 DEF Bucket, flow
<1>4. CASE now = b.lastFill
  <2>1. Refilled(b, now) = b /\ flow = 0
    BY <1>1, <1>4, LimiterAssumption DEF Refilled
  <2> QED BY <1>1, <1>4, <2>1
<1> QED BY <1>1, <1>3, <1>4

\* The bucket allow works on is stamped now, and accounts for the grants so
\* far at this reading of the clock.
LEMMA BucketAtFacts ==
  ASSUME AccountInv, NEW d \in Clients
  PROVE  LET b == BucketAt(d, clock)
         IN  /\ b \in Bucket /\ b.lastFill = clock
             /\ \A i \in DOMAIN granted[d] :
                  granted[d][i].at <= clock /\ b.tokens <= Left(granted[d], i, clock, life)
             /\ \/ b.tokens = Capacity
                \/ \E i \in DOMAIN granted[d] : b.tokens = Left(granted[d], i, clock, life)
<1> DEFINE b == BucketAt(d, clock)
           g == granted[d]
<1>1. clock \in Nat /\ life \in Nat /\ Account(d) /\ g \in Seq(Grant)
  BY DEF AccountInv, LimiterTypeOK
<1>2. CASE buckets[d] = Absent
  <2>1. b = Refilled([tokens |-> Capacity, lastFill |-> clock], clock)
    BY <1>2 DEF BucketAt
  <2>2. b = [tokens |-> Capacity, lastFill |-> clock]
    BY <1>1, <2>1 DEF Refilled
  <2>3. \A i \in DOMAIN g : g[i].at <= clock /\ Capacity <= Left(g, i, clock, life)
    BY <1>1, <1>2 DEF Account
  <2> QED BY <1>1, <2>2, <2>3, CapacityFacts DEF Bucket
<1>3. CASE buckets[d] # Absent
  <2> DEFINE old == buckets[d]
  <2>1. old \in Bucket /\ b = Refilled(old, clock) /\ old.lastFill <= clock
    BY <1>1, <1>3 DEF AccountInv, LimiterTypeOK, Account, BucketAt
  <2>2. old.tokens \in Nat /\ old.lastFill \in Nat
    BY <2>1 DEF Bucket
  <2> DEFINE flow == (clock - old.lastFill) * Rate
  <2>3. /\ b \in Bucket /\ b.lastFill = clock
        /\ b.tokens <= old.tokens + flow
        /\ b.tokens = old.tokens + flow \/ b.tokens = Capacity
    BY <1>1, <2>1, RefilledFacts
  <2>4. flow \in Nat
    BY <1>1, <2>1, <2>2, RateGrows
  <2> HIDE DEF flow, b
  <2>5. \A i \in DOMAIN g : g[i].at \in Nat
    BY <1>1, GrantOf
  <2>6. \A i \in DOMAIN g : /\ Left(g, i, clock, life) = Left(g, i, old.lastFill, life) + flow
                            /\ Left(g, i, old.lastFill, life) \in Int
    <3> SUFFICES ASSUME NEW i \in DOMAIN g
                 PROVE  /\ Left(g, i, clock, life) = Left(g, i, old.lastFill, life) + flow
                        /\ Left(g, i, old.lastFill, life) \in Int
      OBVIOUS
    <3>1. Left(g, i, clock, life) = Left(g, i, old.lastFill, life) + (clock - old.lastFill) * Rate
      BY <1>1, <2>2, LeftFlows
    <3> QED BY <1>1, <2>2, <3>1, LeftIsInt DEF flow
  <2>7. \A i \in DOMAIN g :
          g[i].at <= old.lastFill /\ old.tokens <= Left(g, i, old.lastFill, life)
    BY <1>1, <1>3 DEF Account
  <2>8. \E i \in DOMAIN g : old.tokens = Left(g, i, old.lastFill, life)
    BY <1>1, <1>3 DEF Account
  <2>9. b.tokens \in Nat
    BY <2>3, CapacityFacts DEF Bucket
  <2>10. \A i \in DOMAIN g : g[i].at <= clock /\ b.tokens <= Left(g, i, clock, life)
    <3> SUFFICES ASSUME NEW i \in DOMAIN g
                 PROVE  g[i].at <= clock /\ b.tokens <= Left(g, i, clock, life)
      OBVIOUS
    <3>1. g[i].at <= clock
      BY <1>1, <2>1, <2>2, <2>5, <2>7
    <3>2. b.tokens <= old.tokens + flow /\ old.tokens <= Left(g, i, old.lastFill, life)
      BY <2>3, <2>7
    <3>3. Left(g, i, clock, life) = Left(g, i, old.lastFill, life) + flow
          /\ Left(g, i, old.lastFill, life) \in Int
      BY <2>6
    <3> QED BY <2>2, <2>4, <2>9, <3>1, <3>2, <3>3
  <2>11. b.tokens = Capacity \/ \E i \in DOMAIN g : b.tokens = Left(g, i, clock, life)
    BY <2>3, <2>6, <2>8
  <2> QED BY <2>3, <2>10, <2>11 DEF b
<1> QED BY <1>2, <1>3

\* A grant appends to the account and takes its token.
LEMMA AllowKeepsAccount ==
  ASSUME AccountInv, NEW d \in Clients, Allow(d, clock), clock' = clock
  PROVE  AccountInv'
<1> DEFINE b == BucketAt(d, clock)
           g == granted[d]
           h == granted'[d]
<1>1. /\ b \in Bucket /\ b.lastFill = clock
      /\ \A i \in DOMAIN g : g[i].at <= clock /\ b.tokens <= Left(g, i, clock, life)
      /\ b.tokens = Capacity \/ \E i \in DOMAIN g : b.tokens = Left(g, i, clock, life)
  BY BucketAtFacts
<1>2. clock \in Nat /\ life \in Nat /\ g \in Seq(Grant) /\ Token \in Nat \ {0} /\ Capacity \in Nat
  BY LimiterAssumption, CapacityFacts DEF AccountInv, LimiterTypeOK
<1>3. b.tokens >= Token /\ b.tokens \in 0 .. Capacity
  BY <1>1 DEF Allow, Bucket
<1>4. /\ buckets'[d] = [b EXCEPT !.tokens = @ - Token] /\ h = Append(g, [at |-> clock, life |-> life])
      /\ life' = life
      /\ \A c \in Clients : c # d => buckets'[c] = buckets[c] /\ granted'[c] = granted[c]
  BY DEF Allow, AccountInv, LimiterTypeOK
<1>5. /\ buckets'[d] \in Bucket /\ buckets'[d].tokens = b.tokens - Token
      /\ buckets'[d].lastFill = clock /\ buckets'[d] # Absent
  <2>1. /\ buckets'[d] \in Bucket /\ buckets'[d].tokens = b.tokens - Token
        /\ buckets'[d].lastFill = clock
    BY <1>1, <1>2, <1>3, <1>4 DEF Bucket
  <2> QED BY <2>1, LimiterAssumption
<1> HIDE DEF b
<1>6. /\ DOMAIN h = DOMAIN g \cup {Len(g) + 1} /\ Len(h) = Len(g) + 1
      /\ h[Len(h)] = [at |-> clock, life |-> life]
      /\ \A i \in DOMAIN g : h[i] = g[i] /\ i \in Nat /\ g[i] \in Grant
      /\ Len(g) \in Nat /\ h \in Seq(Grant)
  <2>1. [at |-> clock, life |-> life] \in Grant
    BY <1>2 DEF Grant
  <2> QED BY <1>2, <1>4, <2>1
<1>7. LimiterTypeOK'
  BY <1>4, <1>5, <1>6 DEF Allow, AccountInv, LimiterTypeOK
<1>8. \A i \in DOMAIN g : Left(h, i, clock, life) = Left(g, i, clock, life) - Token
  <2> SUFFICES ASSUME NEW i \in DOMAIN g
               PROVE  Left(h, i, clock, life) = Left(g, i, clock, life) - Token
    OBVIOUS
  <2>1. /\ Grants(i, Len(g) + 1) * Token = Grants(i, Len(g)) * Token + Token
        /\ Grants(i, Len(g)) * Token \in Int
    BY <1>6, GrantsTaken
  <2>2. Allowance(g[i], clock, life) \in Int
    BY <1>2, <1>6, AllowanceParts
  <2>3. h[i] = g[i] /\ Len(h) = Len(g) + 1
    BY <1>6
  <2> QED BY <1>2, <2>1, <2>2, <2>3 DEF Left
<1>9. Left(h, Len(h), clock, life) = Capacity - Token
  <2>1. Grants(Len(h), Len(h)) = 1
    BY <1>6 DEF Grants
  <2>2. /\ Rate * (clock - clock) = 0 /\ 1 * Token = Token
        /\ Capacity * (1 + life - life) = Capacity
    BY <1>2, LimiterAssumption
  <2>3. Allowance(h[Len(h)], clock, life) = Capacity
    BY <1>2, <1>6, <2>2 DEF Allowance
  <2> QED BY <1>2, <2>1, <2>2, <2>3 DEF Left
<1>10. \A i \in DOMAIN g : Left(g, i, clock, life) \in Int
  BY <1>2, LeftIsInt
<1>11. \A i \in DOMAIN h : h[i].at <= clock /\ buckets'[d].tokens <= Left(h, i, clock, life)
  <2>1. \A i \in DOMAIN g : h[i].at <= clock /\ buckets'[d].tokens <= Left(h, i, clock, life)
    <3> SUFFICES ASSUME NEW i \in DOMAIN g
                 PROVE  h[i].at <= clock /\ buckets'[d].tokens <= Left(h, i, clock, life)
      OBVIOUS
    <3>1. h[i] = g[i] /\ g[i].at <= clock /\ b.tokens <= Left(g, i, clock, life)
      BY <1>1, <1>6
    <3>2. /\ Left(h, i, clock, life) = Left(g, i, clock, life) - Token
          /\ Left(g, i, clock, life) \in Int
      BY <1>8, <1>10
    <3> QED BY <1>2, <1>3, <1>5, <3>1, <3>2
  <2>2. h[Len(h)].at <= clock /\ buckets'[d].tokens <= Left(h, Len(h), clock, life)
    BY <1>2, <1>3, <1>5, <1>6, <1>9
  <2> QED BY <1>6, <2>1, <2>2
<1>12. \E i \in DOMAIN h : buckets'[d].tokens = Left(h, i, clock, life)
  BY <1>1, <1>2, <1>3, <1>5, <1>6, <1>8, <1>9
<1>13. \A c \in Clients : Account(c)'
  <2>1. Account(d)'
    BY <1>2, <1>4, <1>5, <1>11, <1>12 DEF Account
  <2>2. \A c \in Clients : c # d => Account(c)'
    BY <1>4 DEF AccountInv, Account
  <2> QED BY <2>1, <2>2
<1>14. WindowBound'
  <2>1. \A i \in DOMAIN h : 0 <= Left(h, i, clock, life)
    <3>1. \A i \in DOMAIN h : Left(h, i, clock, life) \in Int
      BY <1>2, <1>6, <1>8, <1>9, <1>10
    <3> QED BY <1>2, <1>3, <1>5, <1>11, <3>1
  <2>2. \A i \in DOMAIN h : Grants(i, Len(h)) * Token <= Allowance(h[i], clock, life)
    <3> SUFFICES ASSUME NEW i \in DOMAIN h
                 PROVE  Grants(i, Len(h)) * Token <= Allowance(h[i], clock, life)
      OBVIOUS
    <3>1. i \in Nat /\ h[i] \in Grant /\ Len(h) \in Nat
      BY <1>2, <1>6
    <3>2. Grants(i, Len(h)) * Token \in Int /\ Allowance(h[i], clock, life) \in Int
      BY <1>2, <3>1, GrantsTaken, AllowanceParts
    <3> QED BY <2>1, <3>2 DEF Left
  <2>3. \A i, j \in DOMAIN h :
          i <= j => Grants(i, j) * Token <= Allowance(h[i], h[j].at, h[j].life)
    <3> SUFFICES ASSUME NEW i \in DOMAIN h, NEW j \in DOMAIN h, i <= j
                 PROVE  Grants(i, j) * Token <= Allowance(h[i], h[j].at, h[j].life)
      OBVIOUS
    <3>1. CASE j = Len(h)
      BY <1>6, <2>2, <3>1
    <3>2. CASE j # Len(h)
      <4>1. i \in DOMAIN g /\ j \in DOMAIN g
        BY <1>2, <1>6, <3>2
      <4> QED BY <1>6, <4>1 DEF AccountInv, WindowBound
    <3> QED BY <3>1, <3>2
  <2>4. \A c \in Clients : c # d => granted'[c] = granted[c]
    BY <1>4
  <2> QED BY <2>3, <2>4 DEF AccountInv, WindowBound
<1> QED BY <1>2, <1>7, <1>13, <1>14 DEF AccountInv

\* A refusal refills the bucket and grants nothing.
LEMMA RefuseKeepsAccount ==
  ASSUME AccountInv, NEW d \in Clients, Refuse(d, clock), clock' = clock
  PROVE  AccountInv'
<1> DEFINE b == BucketAt(d, clock)
<1>1. /\ b \in Bucket /\ b.lastFill = clock
      /\ \A i \in DOMAIN granted[d] :
           granted[d][i].at <= clock /\ b.tokens <= Left(granted[d], i, clock, life)
      /\ b.tokens = Capacity \/ \E i \in DOMAIN granted[d] :
                                  b.tokens = Left(granted[d], i, clock, life)
  BY BucketAtFacts
<1>2. b.tokens < Token /\ Token <= Capacity /\ Token \in Nat /\ Capacity \in Nat
  BY LimiterAssumption, CapacityFacts DEF Refuse
<1>3. \E i \in DOMAIN granted[d] : b.tokens = Left(granted[d], i, clock, life)
  <2>1. b.tokens \in Nat
    BY <1>1, CapacityFacts DEF Bucket
  <2> QED BY <1>1, <1>2, <2>1
<1>4. /\ buckets'[d] = b /\ granted' = granted /\ life' = life
      /\ \A c \in Clients : c # d => buckets'[c] = buckets[c]
  BY DEF Refuse, AccountInv, LimiterTypeOK
<1>5. b # Absent
  BY <1>1, LimiterAssumption
<1> HIDE DEF b
<1>6. LimiterTypeOK'
  BY <1>1, <1>4 DEF Refuse, AccountInv, LimiterTypeOK, b
<1>7. Account(d)'
  BY <1>1, <1>3, <1>4, <1>5 DEF Account, AccountInv
<1>8. \A c \in Clients : c # d => Account(c)'
  BY <1>4 DEF AccountInv, Account
<1>9. WindowBound' /\ clock' \in Nat
  BY <1>4 DEF AccountInv, WindowBound
<1> QED BY <1>6, <1>7, <1>8, <1>9 DEF AccountInv

\* From its last refill on, every span leaves at least nothing; a restart adds a
\* full bucket.
LEMMA RestartKeepsAccount ==
  ASSUME AccountInv, ForgetBuckets, clock' = clock
  PROVE  AccountInv'
<1>1. /\ clock \in Nat /\ life \in Nat /\ Capacity \in Nat
      /\ life' = life + 1 /\ granted' = granted
      /\ \A d \in Clients : /\ granted[d] \in Seq(Grant) /\ Account(d)
                            /\ buckets[d] \in Bucket \cup {Absent}
                            /\ buckets'[d] = Absent
  BY CapacityFacts DEF ForgetBuckets, AccountInv, LimiterTypeOK
<1>2. ASSUME NEW d \in Clients, NEW i \in DOMAIN granted[d]
      PROVE  granted[d][i].at <= clock /\ Capacity <= Left(granted[d], i, clock, life + 1)
  <2> DEFINE b == BucketAt(d, clock)
  <2>1. /\ b \in Bucket /\ granted[d][i].at <= clock
        /\ b.tokens <= Left(granted[d], i, clock, life)
    BY BucketAtFacts
  <2> HIDE DEF b
  <2>2. b.tokens \in Nat
    BY <1>1, <2>1 DEF Bucket
  <2>3. /\ Left(granted[d], i, clock, life) \in Int
        /\ Left(granted[d], i, clock, life + 1) = Left(granted[d], i, clock, life) + Capacity
    BY <1>1, LeftIsInt
  <2> QED BY <1>1, <2>1, <2>2, <2>3
<1>3. \A d \in Clients : Account(d)'
  BY <1>1, <1>2 DEF Account
<1>4. LimiterTypeOK' /\ clock' \in Nat
  BY <1>1 DEF ForgetBuckets, LimiterTypeOK, AccountInv
<1> QED BY <1>1, <1>3, <1>4 DEF AccountInv, WindowBound

\* Time only adds to what a span leaves.
LEMMA WaitingKeepsAccount ==
  ASSUME AccountInv, UNCHANGED limiter, clock' \in Nat, clock <= clock'
  PROVE  AccountInv'
<1>1. \A d \in Clients : /\ buckets[d] # Absent => buckets[d].lastFill \in Nat
                         /\ granted[d] \in Seq(Grant) /\ Account(d)
  BY DEF AccountInv, LimiterTypeOK, Bucket
<1>2. /\ clock \in Nat /\ life \in Nat /\ Capacity \in Nat
      /\ buckets' = buckets /\ granted' = granted /\ life' = life
  BY CapacityFacts DEF AccountInv, LimiterTypeOK, limiter
<1>3. ASSUME NEW d \in Clients, buckets[d] = Absent, NEW i \in DOMAIN granted[d]
      PROVE  granted[d][i].at <= clock' /\ Capacity <= Left(granted[d], i, clock', life)
  <2> DEFINE g == granted[d]
  <2>1. g[i].at <= clock /\ Capacity <= Left(g, i, clock, life) /\ g \in Seq(Grant)
    BY <1>1, <1>3 DEF Account
  <2> HIDE DEF g
  <2>2. i \in DOMAIN g /\ g[i].at \in Nat
    BY <2>1, GrantOf DEF g
  <2>3. /\ Left(g, i, clock', life) = Left(g, i, clock, life) + (clock' - clock) * Rate
        /\ Left(g, i, clock, life) \in Int
    <3>1. ASSUME NEW t \in Nat, NEW u \in Nat
          PROVE  /\ Left(g, i, u, life) = Left(g, i, t, life) + (u - t) * Rate
                 /\ Left(g, i, t, life) \in Int
      <4>1. life \in Nat /\ g \in Seq(Grant) /\ i \in DOMAIN g
        BY <1>2, <2>1, <2>2
      <4>2. Left(g, i, u, life) = Left(g, i, t, life) + (u - t) * Rate
        BY <4>1, LeftFlows
      <4>3. Left(g, i, t, life) \in Int
        BY <4>1, LeftIsInt
      <4> QED BY <4>2, <4>3
    <3> QED BY <1>2, <3>1
  <2>4. (clock' - clock) * Rate \in Nat
    BY <1>2, RateGrows
  <2> QED BY <1>2, <2>1, <2>2, <2>3, <2>4 DEF g
<1>4. \A d \in Clients : Account(d)'
  <2> SUFFICES ASSUME NEW d \in Clients PROVE Account(d)'
    OBVIOUS
  <2>1. CASE buckets[d] = Absent
    BY <1>2, <1>3, <2>1 DEF Account
  <2>2. CASE buckets[d] # Absent
    BY <1>1, <1>2, <2>2 DEF Account
  <2> QED BY <2>1, <2>2
<1> QED BY <1>2, <1>4 DEF AccountInv, LimiterTypeOK, WindowBound

LEMMA AccountInit == Init => AccountInv
<1> SUFFICES ASSUME Init PROVE AccountInv
  OBVIOUS
<1>1. \A d \in Clients : buckets[d] = Absent /\ granted[d] = <<>>
  BY DEF Init, LimiterInit
<1>2. LimiterTypeOK /\ clock \in Nat
  BY DEF Init, LimiterInit, CacheInit, LimiterTypeOK
<1> QED BY <1>1, <1>2 DEF AccountInv, Account, WindowBound

LEMMA AccountNext == AccountInv /\ [Next]_vars => AccountInv'
<1> SUFFICES ASSUME AccountInv, [Next]_vars PROVE AccountInv'
  OBVIOUS
<1>0. clock \in Nat
  BY DEF AccountInv
<1>1. ASSUME NEW r \in Callers, NEW d \in Clients, NEW c \in Coins, Trade(r, d, c)
      PROVE  AccountInv'
  BY <1>1, AllowKeepsAccount DEF Trade
<1>2. ASSUME NEW d \in Clients, RejectedTrade(d) PROVE AccountInv'
  BY <1>2, AllowKeepsAccount DEF RejectedTrade
<1>3. ASSUME NEW d \in Clients, RefusedTrade(d) PROVE AccountInv'
  BY <1>3, RefuseKeepsAccount DEF RefusedTrade
<1>4. CASE Restart
  BY <1>4, RestartKeepsAccount DEF Restart
<1>5. CASE Tick /\ UNCHANGED limiter
  BY <1>0, <1>5, WaitingKeepsAccount DEF Tick
<1>6. ASSUME UNCHANGED <<clock, limiter>> PROVE AccountInv'
  BY <1>0, <1>6, WaitingKeepsAccount
<1>7. CASE \/ \E r \in Callers, c \in Coins : Quote(r, c)
           \/ \E r \in Callers, coins \in SUBSET Coins : View(r, coins)
           \/ \E r \in Callers : Proceed(r)
           \/ \E c \in Coins : EndFlight(c)
           \/ Sample /\ UNCHANGED <<clock, limiter>>
           \/ UNCHANGED vars
  BY <1>6, <1>7 DEF Quote, View, Proceed, EndMany, Return, EndFlight, vars
<1> QED BY <1>1, <1>2, <1>3, <1>4, <1>5, <1>7 DEF Next, Arrive

\* For every rate, capacity and history of requests the limiter grants a device
\* no more than it allows in any span of time, and refuses it only when that is
\* used up.
THEOREM AllowanceTheorem == Spec => []AllowanceIsExact
<1>1. AccountInv => AllowanceIsExact
  <2> SUFFICES ASSUME AccountInv PROVE RefusedOnlyWhenSpent(clock)
    BY DEF AllowanceIsExact, AccountInv
  <2> SUFFICES ASSUME NEW d \in Clients, BucketAt(d, clock).tokens < Token
               PROVE  \E i \in DOMAIN granted[d] :
                        (Grants(i, Len(granted[d])) + 1) * Token
                          > Allowance(granted[d][i], clock, life)
    BY DEF RefusedOnlyWhenSpent
  <2> DEFINE b == BucketAt(d, clock)
  <2>1. /\ b \in Bucket
        /\ \/ b.tokens = Capacity
           \/ \E i \in DOMAIN granted[d] : b.tokens = Left(granted[d], i, clock, life)
    BY BucketAtFacts
  <2> HIDE DEF b
  <2>2. b.tokens \in Nat /\ b.tokens < Token /\ Token <= Capacity
    BY <2>1, CapacityFacts DEF Bucket, b
  <2>3. PICK i \in DOMAIN granted[d] : b.tokens = Left(granted[d], i, clock, life)
    BY <2>1, <2>2, CapacityFacts, LimiterAssumption
  <2>4. /\ i \in Nat /\ granted[d][i] \in Grant /\ Len(granted[d]) \in Nat
        /\ clock \in Nat /\ life \in Nat
    BY DEF AccountInv, LimiterTypeOK
  <2>5. /\ Grants(i, Len(granted[d])) \in Int
        /\ (Grants(i, Len(granted[d])) + 1) * Token
             = Grants(i, Len(granted[d])) * Token + Token
        /\ Grants(i, Len(granted[d])) * Token \in Int
    BY <2>4, LimiterAssumption DEF Grants
  <2>6. Allowance(granted[d][i], clock, life) \in Int
    BY <2>4, AllowanceParts
  <2> QED BY <2>2, <2>3, <2>5, <2>6, LimiterAssumption DEF Left
<1> QED BY <1>1, AccountInit, AccountNext, PTL DEF Spec

-----------------------------------------------------------------------------
(* The pricing cache                                                         *)

\* A request under way was sent a request's time ago at most.
Prompt(f) ==
  /\ f.sent <= clock /\ clock - f.sent <= FlightTime
  /\ f.sampled # Nothing => f.sent <= f.sampled /\ f.sampled <= clock

\* An entry was stored a request's time after its price was taken at most.
Recent(e) ==
  /\ e.fetchedAt <= clock
  /\ e.sampled <= e.fetchedAt /\ e.fetchedAt - e.sampled <= FlightTime

\* No price of the coin was stored in the last PriceTTL but just now.
Spent(c) ==
  cache[c] # Nothing =>
    cache[c].fetchedAt = clock \/ clock - cache[c].fetchedAt >= PriceTTL

\* A call that joins looked just now, one that waits has a request, one of
\* FetchMany its own; what a call has found is fresh.
Sound(call) ==
  /\ call.at <= clock
  /\ call.step \in {"join", "wait"} => call.coins # {}
  /\ call.step = "join" => Spent(CoinOf(call))
  /\ call.step = "wait" => flights[CoinOf(call)] # Nothing
  /\ call.step = "many" => call.flight # Nothing /\ Prompt(call.flight)
  /\ \A c \in Coins :
       call.out[c] # Nothing => call.out[c].sampled > call.at - PriceTTL - FlightTime

CacheInv ==
  /\ CacheTypeOK
  /\ \A c \in Coins : cache[c] # Nothing => Recent(cache[c])
  /\ \A c \in Coins : flights[c] # Nothing => Prompt(flights[c])
  /\ \A r \in Callers : calls[r] # Nothing => Sound(calls[r])

-----------------------------------------------------------------------------

LEMMA CacheStart == CacheInit => CacheInv
  BY DEF CacheInit, CacheInv, CacheTypeOK, NoPrices

\* What the types say of the pieces.
LEMMA Pieces ==
  ASSUME CacheInv
  PROVE  /\ clock \in Nat /\ PriceTTL \in Nat \ {0} /\ FlightTime \in Nat
         /\ \A e \in CachedPrice : e # Nothing /\ e.sampled \in Nat /\ e.fetchedAt \in Nat
         /\ \A f \in Flight : f # Nothing /\ f.sent \in Nat /\ f.sampled \in Nat \cup {Nothing}
         /\ \A call \in Call : call # Nothing /\ call.at \in Nat /\ call.coins \subseteq Coins
  BY CacheAssumption DEF CacheInv, CacheTypeOK, CachedPrice, Flight, Call

\* A call in progress, and the coin a call of FetchOne is for.
LEMMA CallFacts ==
  ASSUME CacheInv, NEW r \in Callers, calls[r] # Nothing
  PROVE  /\ calls[r] \in Call /\ Sound(calls[r])
         /\ calls[r].step \in {"join", "wait"} =>
              CoinOf(calls[r]) \in Coins /\ CoinOf(calls[r]) \in calls[r].coins
<1>1. calls[r] \in Call /\ Sound(calls[r])
  BY DEF CacheInv, CacheTypeOK
<1>2. calls[r].coins \subseteq Coins
  BY <1>1, Pieces
<1> QED
  BY <1>1, <1>2 DEF Sound, CoinOf

\* A step that leaves a call alone, clears no request it waits for, and stores
\* prices only now keeps it sound.
StoresNow ==
  \A c \in Coins :
    cache'[c] = cache[c] \/ (cache'[c] # Nothing /\ cache'[c].fetchedAt = clock)

LEMMA SoundKept ==
  ASSUME CacheInv, NEW r \in Callers, calls[r] # Nothing,
         calls'[r] = calls[r], clock' = clock, StoresNow,
         calls[r].step = "wait" => flights'[CoinOf(calls[r])] # Nothing
  PROVE  Sound(calls[r])'
<1>1. /\ Sound(calls[r])
      /\ calls[r].step \in {"join", "wait"} => CoinOf(calls[r]) \in Coins
  BY CallFacts
<1>2. CoinOf(calls[r])' = CoinOf(calls[r])
  BY DEF CoinOf
<1>3. calls[r].step = "join" => Spent(CoinOf(calls[r]))'
  BY <1>1, <1>2 DEF Sound, Spent, StoresNow
<1> QED
  BY <1>1, <1>2, <1>3 DEF Sound, Prompt

\* One call changes, or is over.
LEMMA OneCall ==
  ASSUME CacheInv, NEW r \in Callers, NEW call \in Call \cup {Nothing}, Becomes(r, call)
  PROVE  /\ calls' \in [Callers -> Call \cup {Nothing}]
         /\ calls'[r] = call
         /\ \A s \in Callers \ {r} : calls'[s] = calls[s]
  BY DEF CacheInv, CacheTypeOK, Becomes

LEMMA DropKeeps ==
  ASSUME CacheInv, NEW r \in Callers, Becomes(r, Nothing), UNCHANGED <<clock, cache, flights>>
  PROVE  CacheInv'
<1>1. /\ calls' \in [Callers -> Call \cup {Nothing}] /\ calls'[r] = Nothing
      /\ \A s \in Callers \ {r} : calls'[s] = calls[s]
  BY OneCall
<1>2. \A s \in Callers : calls'[s] # Nothing => Sound(calls[s])'
  BY <1>1, SoundKept, CallFacts DEF StoresNow, Sound
<1> QED
  BY <1>1, <1>2 DEF CacheInv, CacheTypeOK, Recent, Prompt

-----------------------------------------------------------------------------
(* Looking and joining *)

LEMMA LookKeeps ==
  ASSUME CacheInv, NEW r \in Callers, NEW one \in BOOLEAN, NEW coins \in SUBSET Coins,
         coins # {}, one => \E c \in Coins : coins = {c},
         Look(r, one, coins), clock' = clock
  PROVE  CacheInv'
<1> DEFINE out == [c \in Coins |-> IF c \in Hits(coins) THEN cache[c] ELSE Nothing]
           call(step, flight) ==
             [step |-> step, one |-> one, at |-> clock, coins |-> coins, flight |-> flight,
              out |-> out]
           request == [sent |-> clock, sampled |-> Nothing]
           new == IF Hits(coins) = coins THEN call("done", Nothing)
                  ELSE IF one THEN call("join", Nothing)
                  ELSE call("many", request)
<1>1. Becomes(r, new) /\ UNCHANGED <<cache, flights>>
  BY DEF Look
<1>2. /\ clock \in Nat /\ FlightTime \in Nat
      /\ out \in [Coins -> CachedPrice \cup {Nothing}] /\ request \in Flight
  BY Pieces DEF CacheInv, CacheTypeOK, Flight
<1>3. new \in Call
  BY <1>2 DEF Call
<1>4. \A c \in Coins : out[c] # Nothing => out[c].sampled > clock - PriceTTL - FlightTime
  BY Pieces DEF Hits, Fresh, CacheInv, CacheTypeOK, Recent
<1>5. ASSUME one, Hits(coins) # coins PROVE Spent(CoinOf(new))
  <2>1. PICK c \in Coins : coins = {c}
    BY <1>5
  <2>2. CoinOf(new) = c
    BY <1>5, <2>1 DEF CoinOf
  <2>3. c \notin Hits(coins)
    BY <1>5, <2>1 DEF Hits
  <2>4. ~Fresh(cache[c], clock)
    BY <2>1, <2>3 DEF Hits
  <2>5. cache[c] # Nothing => cache[c].fetchedAt \in Nat
    BY <2>1, Pieces DEF CacheInv, CacheTypeOK
  <2> QED
    BY <2>2, <2>4, <2>5, Pieces DEF Spent, Fresh
<1>6. Prompt(request) /\ request # Nothing
  BY <1>2, Pieces DEF Prompt
<1>7. /\ new.at = clock /\ new.coins = coins /\ new.out = out
      /\ new.step = "many" => new.flight = request
      /\ new.step = "join" => one /\ Hits(coins) # coins
      /\ new.step # "wait"
  OBVIOUS
<1> HIDE DEF new, out, request
<1>8. Sound(new)
  BY <1>2, <1>4, <1>5, <1>6, <1>7 DEF Sound
<1>9. /\ calls' \in [Callers -> Call \cup {Nothing}] /\ calls'[r] = new
      /\ \A s \in Callers \ {r} : calls'[s] = calls[s]
  BY <1>1, <1>3, OneCall
<1>10. Sound(calls[r])'
  BY <1>1, <1>8, <1>9 DEF Sound, Prompt, Spent, CoinOf
<1>11. \A s \in Callers : calls'[s] # Nothing => Sound(calls[s])'
  BY <1>1, <1>9, <1>10, SoundKept, CallFacts DEF StoresNow, Sound
<1> QED
  BY <1>1, <1>9, <1>11 DEF CacheInv, CacheTypeOK, Recent, Prompt

LEMMA JoinKeeps ==
  ASSUME CacheInv, NEW r \in Callers, Join(r), clock' = clock
  PROVE  CacheInv'
<1> DEFINE c == CoinOf(calls[r])
           request == [sent |-> clock, sampled |-> Nothing]
           new == [calls[r] EXCEPT !.step = "wait"]
<1>1. /\ Becomes(r, new) /\ cache' = cache /\ calls[r] # Nothing /\ calls[r].step = "join"
      /\ flights' = IF flights[c] = Nothing THEN [flights EXCEPT ![c] = request] ELSE flights
  BY DEF Join, CallAt
<1>2. calls[r] \in Call /\ Sound(calls[r]) /\ c \in Coins
  BY <1>1, CallFacts
<1>3. /\ new \in Call /\ new.step = "wait" /\ new.at = calls[r].at
      /\ new.coins = calls[r].coins /\ new.out = calls[r].out
  BY <1>2 DEF Call
<1>4. /\ request \in Flight /\ request # Nothing /\ Prompt(request)
  BY Pieces DEF Flight, Prompt
<1> HIDE DEF new, request
<1>5. /\ flights' \in [Coins -> Flight \cup {Nothing}] /\ flights'[c] # Nothing
      /\ \A d \in Coins : flights'[d] = flights[d] \/ flights'[d] = request
      /\ \A d \in Coins : flights[d] # Nothing => flights'[d] # Nothing
  BY <1>1, <1>2, <1>4 DEF CacheInv, CacheTypeOK
<1>6. /\ calls' \in [Callers -> Call \cup {Nothing}] /\ calls'[r] = new
      /\ \A s \in Callers \ {r} : calls'[s] = calls[s]
  BY <1>1, <1>3, OneCall
<1>7. CoinOf(calls[r])' = c
  BY <1>3, <1>6 DEF CoinOf
<1>8. Sound(calls[r])'
  BY <1>1, <1>2, <1>3, <1>5, <1>6, <1>7 DEF Sound
<1>9. \A s \in Callers : calls'[s] # Nothing => Sound(calls[s])'
  <2> SUFFICES ASSUME NEW s \in Callers \ {r}, calls'[s] # Nothing PROVE Sound(calls[s])'
    BY <1>8
  <2>1. calls[s] # Nothing /\ calls'[s] = calls[s]
    BY <1>6
  <2>2. calls[s].step = "wait" => flights'[CoinOf(calls[s])] # Nothing
    BY <1>5, <2>1, CallFacts DEF Sound
  <2> QED
    BY <1>1, <2>1, <2>2, SoundKept DEF StoresNow
<1> QED
  BY <1>1, <1>4, <1>5, <1>6, <1>9 DEF CacheInv, CacheTypeOK, Recent, Prompt

\* A request that ends clears itself and every call that waits for it.
LEMMA LandKeeps ==
  ASSUME CacheInv, NEW c \in Coins, NEW entry \in CachedPrice \cup {Nothing},
         Land(c, entry), clock' = clock, StoresNow,
         cache' \in [Coins -> CachedPrice \cup {Nothing}],
         \A d \in Coins : cache'[d] # Nothing => Recent(cache[d])',
         entry # Nothing => clock - entry.sampled <= FlightTime
  PROVE  CacheInv'
<1>1. /\ flights' \in [Coins -> Flight \cup {Nothing}] /\ flights'[c] = Nothing
      /\ \A d \in Coins \ {c} : flights'[d] = flights[d]
  BY DEF Land, CacheInv, CacheTypeOK
<1>2. ASSUME NEW r \in Callers
      PROVE  /\ calls'[r] \in Call \cup {Nothing}
             /\ calls'[r] # Nothing => Sound(calls[r])'
  <2>1. CASE r \in Waiting(c)
    <3>1. calls[r] # Nothing /\ calls'[r] = Told(r, c, entry)
      BY <1>2, <2>1 DEF Land, Waiting, CallAt
    <3>2. calls[r] \in Call /\ Sound(calls[r])
      BY <3>1, CallFacts
    <3>3. CASE entry = Nothing
      BY <3>1, <3>3 DEF Told
    <3>4. CASE entry # Nothing
      <4> DEFINE new == [calls[r] EXCEPT !.step = "done", !.out[c] = entry]
      <4>1. calls'[r] = new
        BY <3>1, <3>4 DEF Told
      <4>2. /\ new \in Call /\ new.step = "done" /\ new.at = calls[r].at
            /\ new.out[c] = entry
            /\ \A d \in Coins \ {c} : new.out[d] = calls[r].out[d]
        BY <3>2 DEF Call
      <4> HIDE DEF new
      <4>3. entry.sampled > new.at - PriceTTL - FlightTime
        BY <3>2, <3>4, <4>2, Pieces DEF Sound
      <4> QED
        BY <3>2, <4>1, <4>2, <4>3 DEF Sound
    <3> QED
      BY <3>3, <3>4
  <2>2. CASE r \notin Waiting(c)
    <3>1. calls'[r] = calls[r]
      BY <1>2, <2>2 DEF Land
    <3>2. ASSUME calls[r] # Nothing, calls[r].step = "wait"
          PROVE  flights'[CoinOf(calls[r])] # Nothing
      <4>1. CoinOf(calls[r]) # c
        BY <2>2, <3>2 DEF Waiting, CallAt
      <4> QED
        BY <1>1, <3>2, <4>1, CallFacts DEF Sound
    <3> QED
      BY <3>1, <3>2, SoundKept DEF CacheInv, CacheTypeOK
  <2> QED
    BY <2>1, <2>2
<1>3. calls' \in [Callers -> Call \cup {Nothing}]
  BY <1>2 DEF Land
<1> QED
  BY <1>1, <1>2, <1>3 DEF CacheInv, CacheTypeOK, Prompt

\* The price a request brings now was taken a request's time ago at most.
LEMMA NewEntry ==
  ASSUME CacheInv, NEW f \in Flight, Prompt(f), f.sampled # Nothing
  PROVE  LET e == Entry(f.sampled)
         IN  /\ e \in CachedPrice /\ e # Nothing /\ e.fetchedAt = clock
             /\ Recent(e) /\ clock - e.sampled <= FlightTime
<1>1. f.sent \in Nat /\ f.sampled \in Nat
  BY Pieces
<1>2. Entry(f.sampled) \in CachedPrice
  BY <1>1, Pieces DEF Entry, CachedPrice
<1> QED
  BY <1>1, <1>2, Pieces DEF Prompt, Recent, Entry

LEMMA EndFlightKeeps ==
  ASSUME CacheInv, NEW c \in Coins, Answered(c) \/ FlightFails(c), clock' = clock
  PROVE  CacheInv'
<1>1. CASE Answered(c)
  <2> DEFINE e == Entry(flights[c].sampled)
  <2>1. /\ flights[c] \in Flight /\ Prompt(flights[c]) /\ flights[c].sampled # Nothing
        /\ cache' = [cache EXCEPT ![c] = e] /\ Land(c, e)
    BY <1>1 DEF Answered, CacheInv, CacheTypeOK
  <2>2. /\ e \in CachedPrice /\ e # Nothing /\ e.fetchedAt = clock
        /\ Recent(e) /\ clock - e.sampled <= FlightTime
    BY <2>1, NewEntry
  <2> HIDE DEF e
  <2>3. /\ cache' \in [Coins -> CachedPrice \cup {Nothing}] /\ StoresNow
        /\ \A d \in Coins : cache'[d] = cache[d] \/ cache'[d] = e
    BY <2>1, <2>2 DEF CacheInv, CacheTypeOK, StoresNow
  <2>4. \A d \in Coins : cache'[d] # Nothing => Recent(cache[d])'
    BY <2>2, <2>3 DEF CacheInv, Recent
  <2> QED
    BY <2>1, <2>2, <2>3, <2>4, LandKeeps
<1>2. CASE FlightFails(c)
  <2>1. cache' = cache /\ Land(c, Nothing)
    BY <1>2 DEF FlightFails
  <2>2. /\ cache' \in [Coins -> CachedPrice \cup {Nothing}] /\ StoresNow
        /\ \A d \in Coins : cache'[d] # Nothing => Recent(cache[d])'
    BY <2>1 DEF CacheInv, CacheTypeOK, StoresNow, Recent
  <2> QED
    BY <2>1, <2>2, LandKeeps
<1> QED
  BY <1>1, <1>2

-----------------------------------------------------------------------------
(* FetchMany, and what CoinGecko and the clock do *)

LEMMA ManyAnsweredKeeps ==
  ASSUME CacheInv, NEW r \in Callers, NEW listed \in SUBSET Coins,
         ManyAnswered(r, listed), clock' = clock
  PROVE  CacheInv'
<1> DEFINE e == Entry(calls[r].flight.sampled)
           out == [c \in Coins |-> IF c \in listed THEN e ELSE calls[r].out[c]]
           new == [calls[r] EXCEPT !.step = "done", !.out = out, !.flight = Nothing]
<1>1. /\ calls[r] # Nothing /\ calls[r].step = "many" /\ calls[r].flight.sampled # Nothing
      /\ cache' = [c \in Coins |-> IF c \in listed THEN out[c] ELSE cache[c]]
      /\ Becomes(r, new) /\ flights' = flights
  BY DEF ManyAnswered, Stored, CallAt
<1>2. calls[r] \in Call /\ Sound(calls[r])
  BY <1>1, CallFacts
<1>3. calls[r].flight \in Flight /\ Prompt(calls[r].flight)
  BY <1>1, <1>2 DEF Call, Sound
<1>4. /\ e \in CachedPrice /\ e # Nothing /\ e.fetchedAt = clock
      /\ Recent(e) /\ clock - e.sampled <= FlightTime
  BY <1>1, <1>3, NewEntry
<1> HIDE DEF e
<1>5. out \in [Coins -> CachedPrice \cup {Nothing}]
  BY <1>2, <1>4 DEF Call
<1>6. /\ new \in Call /\ new.step = "done" /\ new.at = calls[r].at /\ new.out = out
  BY <1>2, <1>5 DEF Call
<1>7. \A c \in Coins : out[c] # Nothing => out[c].sampled > new.at - PriceTTL - FlightTime
  <2>1. new.at <= clock /\ new.at \in Nat
    BY <1>2, <1>6, Pieces DEF Sound
  <2>2. e.sampled > new.at - PriceTTL - FlightTime
    BY <1>4, <2>1, Pieces
  <2> QED
    BY <1>2, <1>6, <2>2 DEF Sound
<1>8. /\ cache' \in [Coins -> CachedPrice \cup {Nothing}] /\ StoresNow
      /\ \A c \in Coins : cache'[c] = cache[c] \/ cache'[c] = e
  BY <1>1, <1>4 DEF CacheInv, CacheTypeOK, StoresNow
<1> HIDE DEF new, out
<1>9. /\ calls' \in [Callers -> Call \cup {Nothing}] /\ calls'[r] = new
      /\ \A s \in Callers \ {r} : calls'[s] = calls[s]
  BY <1>1, <1>6, OneCall
<1>10. Sound(calls[r])'
  BY <1>2, <1>6, <1>7, <1>9 DEF Sound
<1>11. \A s \in Callers : calls'[s] # Nothing => Sound(calls[s])'
  BY <1>1, <1>8, <1>9, <1>10, SoundKept, CallFacts DEF Sound
<1>12. \A c \in Coins : cache'[c] # Nothing => Recent(cache[c])'
  BY <1>4, <1>8 DEF CacheInv, Recent
<1> QED
  BY <1>1, <1>8, <1>9, <1>11, <1>12 DEF CacheInv, CacheTypeOK, Prompt

LEMMA SampleKeeps ==
  ASSUME CacheInv, Sample, clock' = clock
  PROVE  CacheInv'
<1>1. ASSUME NEW f \in Flight, Prompt(f)
      PROVE  [f EXCEPT !.sampled = clock] \in Flight /\ Prompt([f EXCEPT !.sampled = clock])
  BY <1>1, Pieces DEF Flight, Prompt
<1>2. ASSUME NEW c \in Coins, flights[c] # Nothing,
             flights' = [flights EXCEPT ![c].sampled = clock], UNCHANGED <<cache, calls>>
      PROVE  CacheInv'
  <2> DEFINE new == [flights[c] EXCEPT !.sampled = clock]
  <2>1. flights[c] \in Flight /\ Prompt(flights[c])
    BY <1>2 DEF CacheInv, CacheTypeOK
  <2>2. new \in Flight /\ Prompt(new) /\ new # Nothing
    BY <1>1, <2>1, Pieces
  <2>3. flights' = [flights EXCEPT ![c] = new]
    BY <1>2
  <2> HIDE DEF new
  <2>4. /\ flights' \in [Coins -> Flight \cup {Nothing}]
        /\ \A d \in Coins : flights'[d] = flights[d] \/ flights'[d] = new
        /\ \A d \in Coins : flights[d] # Nothing => flights'[d] # Nothing
    BY <2>2, <2>3 DEF CacheInv, CacheTypeOK
  <2>5. \A r \in Callers : calls'[r] # Nothing => Sound(calls[r])'
    <3> SUFFICES ASSUME NEW r \in Callers, calls[r] # Nothing PROVE Sound(calls[r])'
      BY <1>2
    <3>1. calls[r].step = "wait" => flights'[CoinOf(calls[r])] # Nothing
      BY <2>4, CallFacts DEF Sound
    <3> QED
      BY <1>2, <3>1, SoundKept DEF StoresNow
  <2> QED
    BY <1>2, <2>2, <2>4, <2>5 DEF CacheInv, CacheTypeOK, Recent, Prompt
<1>3. ASSUME NEW r \in Callers, CallAt(r, "many"),
             Becomes(r, [calls[r] EXCEPT !.flight.sampled = clock]), UNCHANGED <<cache, flights>>
      PROVE  CacheInv'
  <2> DEFINE f == [calls[r].flight EXCEPT !.sampled = clock]
             new == [calls[r] EXCEPT !.flight = f]
  <2>1. /\ calls[r] \in Call /\ Sound(calls[r]) /\ calls[r].step = "many"
    BY <1>3, CallFacts DEF CallAt
  <2>2. calls[r].flight \in Flight /\ Prompt(calls[r].flight)
    BY <2>1 DEF Call, Sound
  <2>3. f \in Flight /\ Prompt(f) /\ f # Nothing /\ Becomes(r, new)
    BY <1>1, <1>3, <2>2, Pieces
  <2> HIDE DEF f
  <2>4. /\ new \in Call /\ new.step = "many" /\ new.at = calls[r].at
        /\ new.out = calls[r].out /\ new.flight = f
    BY <2>1, <2>3 DEF Call
  <2> HIDE DEF new
  <2>5. /\ calls' \in [Callers -> Call \cup {Nothing}] /\ calls'[r] = new
        /\ \A s \in Callers \ {r} : calls'[s] = calls[s]
    BY <2>3, <2>4, OneCall
  <2>6. Sound(calls[r])'
    BY <2>1, <2>3, <2>4, <2>5 DEF Sound, Prompt
  <2>7. \A s \in Callers : calls'[s] # Nothing => Sound(calls[s])'
    BY <1>3, <2>5, <2>6, SoundKept, CallFacts DEF StoresNow, Sound
  <2> QED
    BY <1>3, <2>5, <2>7 DEF CacheInv, CacheTypeOK, Recent, Prompt
<1> QED
  BY <1>2, <1>3 DEF Sample

\* Nobody is about to join when time passes, and no request is at its timeout.
LEMMA TickKeeps ==
  ASSUME CacheInv, Tick
  PROVE  CacheInv'
<1>1. /\ clock \in Nat /\ clock' = clock + 1 /\ UNCHANGED <<cache, flights, calls>>
      /\ \A r \in Callers : calls[r] # Nothing => calls[r].step \in {"wait", "many"}
      /\ \A f \in Airborne : clock - f.sent < FlightTime
  BY Pieces DEF Tick, MayTick, pricing
<1>2. ASSUME NEW f \in Flight, Prompt(f), f \in Airborne PROVE Prompt(f)'
  BY <1>1, <1>2, Pieces DEF Prompt
<1>3. \A c \in Coins : flights'[c] # Nothing => Prompt(flights[c])'
  <2> SUFFICES ASSUME NEW c \in Coins, flights[c] # Nothing PROVE Prompt(flights[c])'
    BY <1>1
  <2>1. flights[c] \in Flight /\ Prompt(flights[c]) /\ flights[c] \in Airborne
    BY DEF CacheInv, CacheTypeOK, Airborne
  <2> QED
    BY <1>1, <1>2, <2>1 DEF Prompt
<1>4. \A c \in Coins : cache'[c] # Nothing => Recent(cache[c])'
  BY <1>1, Pieces DEF CacheInv, CacheTypeOK, Recent
<1>5. \A r \in Callers : calls'[r] # Nothing => Sound(calls[r])'
  <2> SUFFICES ASSUME NEW r \in Callers, calls[r] # Nothing PROVE Sound(calls[r])'
    BY <1>1
  <2>1. calls[r] \in Call /\ Sound(calls[r]) /\ calls[r].step \in {"wait", "many"}
    BY <1>1, CallFacts
  <2>2. calls[r].step = "many" => Prompt(calls[r].flight)'
    <3> SUFFICES ASSUME calls[r].step = "many" PROVE Prompt(calls[r].flight)'
      OBVIOUS
    <3>1. /\ calls[r].flight \in Flight /\ Prompt(calls[r].flight)
          /\ calls[r].flight \in Airborne
      BY <2>1 DEF Call, Sound, Airborne, CallAt
    <3> QED
      BY <1>1, <1>2, <3>1 DEF Prompt
  <2>3. CoinOf(calls[r])' = CoinOf(calls[r])
    BY <1>1 DEF CoinOf
  <2> QED
    BY <1>1, <2>1, <2>2, <2>3, Pieces DEF Sound
<1> QED
  BY <1>1, <1>3, <1>4, <1>5 DEF CacheInv, CacheTypeOK

LEMMA RestartKeeps ==
  ASSUME CacheInv, Restart
  PROVE  CacheInv'
  BY DEF Restart, NoPrices, CacheInv, CacheTypeOK

LEMMA CacheNext == CacheInv /\ [Next]_vars => CacheInv'
<1> SUFFICES ASSUME CacheInv, [Next]_vars PROVE CacheInv'
  OBVIOUS
<1>1. ASSUME NEW r \in Callers, NEW c \in Coins,
             Quote(r, c) \/ \E d \in Clients : Trade(r, d, c)
      PROVE  CacheInv'
  BY <1>1, LookKeeps DEF Quote, Trade
<1>2. ASSUME NEW r \in Callers, NEW coins \in SUBSET Coins, View(r, coins) PROVE CacheInv'
  BY <1>2, LookKeeps DEF View
<1>3. ASSUME NEW r \in Callers, Proceed(r) PROVE CacheInv'
  BY <1>3, JoinKeeps, ManyAnsweredKeeps, DropKeeps DEF Proceed, EndMany, ManyFails, Return
<1>4. ASSUME NEW c \in Coins, EndFlight(c) PROVE CacheInv'
  BY <1>4, EndFlightKeeps DEF EndFlight
<1>5. CASE Sample /\ UNCHANGED <<clock, limiter>>
  BY <1>5, SampleKeeps
<1>6. CASE Tick
  BY <1>6, TickKeeps
<1>7. CASE Restart
  BY <1>7, RestartKeeps
<1>8. ASSUME UNCHANGED <<clock, pricing>> PROVE CacheInv'
  <2>1. UNCHANGED <<clock, cache, flights, calls>>
    BY <1>8 DEF pricing
  <2>2. \A r \in Callers : calls'[r] # Nothing => Sound(calls[r])'
    BY <2>1 DEF CacheInv, Sound, Prompt, Spent, CoinOf
  <2> QED
    BY <2>1, <2>2 DEF CacheInv, CacheTypeOK, Recent, Prompt
<1> QED
  BY <1>1, <1>2, <1>3, <1>4, <1>5, <1>6, <1>7, <1>8
     DEF Next, Arrive, RejectedTrade, RefusedTrade, vars

LEMMA CacheSpec == Spec => []CacheInv
<1>1. Init => CacheInv
  BY CacheStart DEF Init
<1> QED
  BY <1>1, CacheNext, PTL DEF Spec

-----------------------------------------------------------------------------

\* Every table, bucket and call keeps its type, and no stamp is in the future,
\* whatever is traded, shown and restarted.
THEOREM GatewayTypes == Spec => []TypeOK
<1>1. Spec => []AccountInv
  BY AccountInit, AccountNext, PTL DEF Spec
<1>2. AccountInv /\ CacheInv => TypeOK
  BY DEF AccountInv, Account, CacheInv, Recent, TypeOK
<1> QED
  BY <1>1, <1>2, CacheSpec, PTL

\* A price a caller gets was taken less than PriceTTL and a request's time
\* before the call, from whichever of cache and requests it came.
THEOREM FreshTheorem == Spec => []FreshEnough
<1>1. CacheInv => FreshEnough
  BY DEF CacheInv, Sound, FreshEnough, CallAt
<1> QED
  BY <1>1, CacheSpec, PTL

\* A price is only replaced by one stored now.
LEMMA PricesStoredNow ==
  ASSUME CacheInv, [Next]_vars, NEW c \in Coins, cache'[c] # cache[c]
  PROVE  cache'[c] # Nothing => cache'[c].fetchedAt = clock
<1>1. ASSUME NEW d \in Coins, Answered(d) PROVE cache'[c] = Entry(flights[d].sampled)
  BY <1>1 DEF Answered, CacheInv, CacheTypeOK
<1>2. ASSUME NEW r \in Callers, NEW listed \in SUBSET Coins, ManyAnswered(r, listed)
      PROVE  cache'[c] = Entry(calls[r].flight.sampled)
  BY <1>2 DEF ManyAnswered, Stored
<1>3. \A sampled : Entry(sampled).fetchedAt = clock
  BY DEF Entry
<1>4. CASE Restart
  BY <1>4 DEF Restart, NoPrices
<1> QED
  BY <1>1, <1>2, <1>3, <1>4
     DEF Next, Arrive, Trade, RejectedTrade, RefusedTrade, Quote, View, Look, Proceed, Join,
         EndMany, ManyFails, Return, EndFlight, FlightFails, Sample, Tick, pricing, vars

\* A stored price is replaced by one CoinGecko took a request's time earlier
\* at most, however requests overtake each other.
THEOREM RewindTheorem == Spec => RewindBounded
<1>1. ASSUME CacheInv, [Next]_vars, NEW c \in Coins,
             cache[c] # Nothing, cache'[c] # Nothing
      PROVE  cache'[c].sampled >= cache[c].sampled - FlightTime
  <2>1. CacheInv'
    BY <1>1, CacheNext
  <2>2. /\ cache[c] \in CachedPrice /\ Recent(cache[c])
        /\ cache'[c] \in CachedPrice /\ Recent(cache[c])'
    BY <1>1, <2>1 DEF CacheInv, CacheTypeOK
  <2>3. /\ cache[c].sampled \in Nat /\ cache[c].fetchedAt \in Nat
        /\ cache'[c].sampled \in Nat /\ cache'[c].fetchedAt \in Nat
        /\ clock \in Nat /\ FlightTime \in Nat
    BY <1>1, <2>2, Pieces
  <2>4. cache'[c] = cache[c] \/ cache'[c].fetchedAt = clock
    BY <1>1, PricesStoredNow
  <2> QED
    BY <2>2, <2>3, <2>4 DEF Recent
<1>2. CacheInv /\ [Next]_vars =>
        [\A c \in Coins :
           cache[c] # Nothing /\ cache'[c] # Nothing
           => cache'[c].sampled >= cache[c].sampled - FlightTime]_<<clock, pricing>>
  BY <1>1
<1> QED
  BY <1>2, CacheSpec, PTL DEF Spec, RewindBounded

\* FetchOne asks CoinGecko for a coin only when no price of it was stored in
\* the last PriceTTL, or just now.
THEOREM QuotaTheorem == Spec => QuotaSpared
<1>1. ASSUME CacheInv, [Next]_vars, NEW c \in Coins,
             flights[c] = Nothing, flights'[c] # Nothing
      PROVE  Spent(c)
  <2>1. ASSUME NEW r \in Callers, Join(r) PROVE Spent(c)
    <3>1. calls[r] # Nothing /\ calls[r].step = "join"
      BY <2>1 DEF Join, CallAt
    <3>2. CoinOf(calls[r]) = c
      BY <1>1, <2>1 DEF Join, CacheInv, CacheTypeOK
    <3> QED
      BY <1>1, <3>1, <3>2, CallFacts DEF Sound
  <2>2. ASSUME NEW d \in Coins, EndFlight(d) PROVE flights'[c] = Nothing
    BY <1>1, <2>2 DEF EndFlight, Answered, FlightFails, Land, CacheInv, CacheTypeOK
  <2>3. CASE Sample
    <3>1. flights'[c] = Nothing
      BY <1>1, <2>3 DEF Sample, CacheInv, CacheTypeOK
    <3> QED
      BY <1>1, <3>1
  <2>4. CASE Restart
    BY <1>1, <2>4 DEF Restart, NoPrices
  <2> QED
    BY <1>1, <2>1, <2>2, <2>3, <2>4
       DEF Next, Arrive, Trade, RejectedTrade, RefusedTrade, Quote, View, Look, Proceed,
           EndMany, ManyAnswered, ManyFails, Return, Tick, pricing, vars
<1>2. CacheInv /\ [Next]_vars =>
        [\A c \in Coins :
           flights[c] = Nothing /\ flights'[c] # Nothing /\ cache[c] # Nothing
           => \/ cache[c].fetchedAt = clock
              \/ clock - cache[c].fetchedAt >= PriceTTL]_<<clock, pricing>>
  BY <1>1 DEF Spent
<1> QED
  BY <1>2, CacheSpec, PTL DEF Spec, QuotaSpared
=============================================================================
