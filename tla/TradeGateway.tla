---------------------------- MODULE TradeGateway ----------------------------
(***************************************************************************)
(* What the API server keeps in memory, composed: trades pass the rate     *)
(* limiter and ask FetchOne for their price, quotes ask FetchOne, the      *)
(* portfolio views ask FetchMany, all of one cache and on one clock.       *)
(* What happens in the database meanwhile is the matter of PaperTrading.   *)
(***************************************************************************)
EXTENDS RateLimiter, PricingCache

vars == <<limiter, clock, pricing>>

Init == LimiterInit /\ CacheInit

\* POST .../trades: a request that is let through takes a token whatever
\* becomes of it; one with a valid order for an own portfolio asks for a price.
Trade(r, d, c) == Allow(d, clock) /\ Look(r, TRUE, {c}) /\ UNCHANGED clock

RejectedTrade(d) == Allow(d, clock) /\ UNCHANGED <<clock, pricing>>

RefusedTrade(d) == Refuse(d, clock) /\ UNCHANGED <<clock, pricing>>

\* GET .../quote
Quote(r, c) == Look(r, TRUE, {c}) /\ UNCHANGED <<clock, limiter>>

\* The list, the detail and the answer to a trade; without a coin to price
\* FetchMany does nothing.
View(r, coins) == coins # {} /\ Look(r, FALSE, coins) /\ UNCHANGED <<clock, limiter>>

\* The handler has its prices and goes on with them.
Return(r) ==
  /\ CallAt(r, "done")
  /\ Becomes(r, Nothing)
  /\ UNCHANGED <<clock, limiter, cache, flights>>

EndFlight(c) == (Answered(c) \/ FlightFails(c)) /\ UNCHANGED <<clock, limiter>>

EndMany(r) ==
  /\ (\E listed \in SUBSET Coins : ManyAnswered(r, listed)) \/ ManyFails(r)
  /\ UNCHANGED <<clock, limiter>>

\* The server is started anew: requests, cache and buckets are gone.
Restart ==
  /\ ForgetBuckets
  /\ cache' = NoPrices /\ flights' = NoPrices
  /\ calls' = [r \in Callers |-> Nothing]
  /\ UNCHANGED clock

Arrive ==
  \/ \E r \in Callers, d \in Clients, c \in Coins : Trade(r, d, c)
  \/ \E r \in Callers, c \in Coins : Quote(r, c)
  \/ \E r \in Callers, coins \in SUBSET Coins : View(r, coins)
  \/ \E d \in Clients : RejectedTrade(d) \/ RefusedTrade(d)

Proceed(r) == (Join(r) /\ UNCHANGED <<clock, limiter>>) \/ EndMany(r) \/ Return(r)

Next ==
  \/ Arrive
  \/ \E r \in Callers : Proceed(r)
  \/ \E c \in Coins : EndFlight(c)
  \/ Sample /\ UNCHANGED <<clock, limiter>>
  \/ Tick /\ UNCHANGED limiter
  \/ Restart

Spec == Init /\ [][Next]_vars

-----------------------------------------------------------------------------
(* Properties *)

\* Buckets, cache and calls have their types, and no bucket or entry is from
\* the future.
TypeOK ==
  /\ LimiterTypeOK /\ CacheTypeOK
  /\ \A d \in Clients : buckets[d] # Absent => buckets[d].lastFill <= clock
  /\ \A c \in Coins : cache[c] # Nothing => cache[c].fetchedAt <= clock

\* The cap on trades is neither exceeded nor short: a device gets what the
\* bucket's capacity, its refill and the restarts of the server allow in every
\* span of time, and is refused only when that is used up.
AllowanceIsExact == WindowBound /\ RefusedOnlyWhenSpent(clock)
=============================================================================
