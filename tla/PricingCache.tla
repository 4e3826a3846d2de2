---------------------------- MODULE PricingCache ----------------------------
(***************************************************************************)
(* virtual.PricingService: a cache of prices by coin, read under a mutex,  *)
(* and a singleflight group for the misses of FetchOne.  A call looks into *)
(* the cache, and on a miss joins or leads a request to CoinGecko; other   *)
(* calls run between these steps.  What the program computes by itself     *)
(* takes no time; time passes while requests to CoinGecko are under way,   *)
(* each for FlightTime at most (the http.Client's timeout).  A price is    *)
(* represented by the time at which CoinGecko took it.                     *)
(***************************************************************************)
EXTENDS Integers, FiniteSets

CONSTANTS Coins,       \* coin ids
          Callers,     \* requests of the API in progress at a time
          PriceTTL,    \* PriceTTL: how long a cached price is fresh
          FlightTime,  \* the HTTP client's timeout
          Nothing,     \* no entry, no request, no call
          MaxClock     \* bound: the last reading of the clock

\* CachedPrice, with the age of the price in place of the price.
CachedPrice == [sampled : Nat, fetchedAt : Nat]

\* A request to CoinGecko: when it was sent, and the prices it found so far.
Flight == [sent : Nat, sampled : Nat \cup {Nothing}]

\* A call of FetchOne or FetchMany: the clock it read, the coins it is for,
\* those it found in the cache, and the request it waits for.
Call == [step : {"join", "wait", "many", "done"},
         one : BOOLEAN, at : Nat, coins : SUBSET Coins,
         out : [Coins -> CachedPrice \cup {Nothing}],
         flight : Flight \cup {Nothing}]

ASSUME CacheAssumption ==
  /\ PriceTTL \in Nat \ {0} /\ FlightTime \in Nat /\ MaxClock \in Nat
  /\ Nothing \notin CachedPrice \cup Flight \cup Call

VARIABLES clock,    \* the server's clock
          cache,    \* the cache's map
          flights,  \* the singleflight group: the request under way for a coin
          calls     \* what each call knows

pricing == <<cache, flights, calls>>

NoPrices == [c \in Coins |-> Nothing]

CacheTypeOK ==
  /\ clock \in Nat
  /\ cache \in [Coins -> CachedPrice \cup {Nothing}]
  /\ flights \in [Coins -> Flight \cup {Nothing}]
  /\ calls \in [Callers -> Call \cup {Nothing}]

CacheInit ==
  /\ clock = 0
  /\ cache = NoPrices /\ flights = NoPrices
  /\ calls = [c \in Callers |-> Nothing]

CallAt(r, step) == calls[r] # Nothing /\ calls[r].step = step
Becomes(r, call) == calls' = [calls EXCEPT ![r] = call]
CoinOf(call) == CHOOSE c \in call.coins : TRUE

-----------------------------------------------------------------------------
(* The cache *)

FreshAtTTL(entry, now) == entry # Nothing /\ now - entry.fetchedAt <= PriceTTL  \* faulty
FreshShort(entry, now) == entry # Nothing /\ now - entry.fetchedAt < PriceTTL - 1  \* faulty
Fresh(entry, now) == entry # Nothing /\ now - entry.fetchedAt < PriceTTL

Entry(sampled) == [sampled |-> sampled, fetchedAt |-> clock]

Hits(coins) == {c \in coins : Fresh(cache[c], clock)}

\* A call reads the clock and, under the mutex, takes the fresh entries; what
\* is left is fetched.
Look(r, one, coins) ==
  /\ calls[r] = Nothing
  /\ LET call(step, flight) ==
           [step |-> step, one |-> one, at |-> clock, coins |-> coins, flight |-> flight,
            out |-> [c \in Coins |-> IF c \in Hits(coins) THEN cache[c] ELSE Nothing]]
     IN  Becomes(r, IF Hits(coins) = coins THEN call("done", Nothing)
                    ELSE IF one THEN call("join", Nothing)
                    ELSE call("many", [sent |-> clock, sampled |-> Nothing]))
  /\ UNCHANGED <<cache, flights>>

-----------------------------------------------------------------------------
(* FetchOne: singleflight.Do *)

\* The first call for a coin leads: it sends the request, in the context of its
\* own client.  The others wait for what it brings.
Join(r) ==
  /\ CallAt(r, "join")
  /\ LET c == CoinOf(calls[r])
     IN  flights' = IF flights[c] = Nothing
                      THEN [flights EXCEPT ![c] = [sent |-> clock, sampled |-> Nothing]]
                      ELSE flights
  /\ Becomes(r, [calls[r] EXCEPT !.step = "wait"])
  /\ UNCHANGED cache

Waiting(c) == {r \in Callers : CallAt(r, "wait") /\ CoinOf(calls[r]) = c}

\* What a call that waits for c goes on with.
Told(r, c, entry) ==
  IF entry = Nothing THEN Nothing
  ELSE [calls[r] EXCEPT !.step = "done", !.out[c] = entry]

\* The request is over: golang.org/x/sync/singleflight returns to every call
\* that waits for it, with the entry it brought or with an error.
Land(c, entry) ==
  /\ flights' = [flights EXCEPT ![c] = Nothing]
  /\ calls' = [r \in Callers |-> IF r \in Waiting(c) THEN Told(r, c, entry) ELSE calls[r]]

\* The answer arrives: it is stamped, stored and handed to all that wait.
Answered(c) ==
  /\ flights[c] # Nothing /\ flights[c].sampled # Nothing
  /\ cache' = [cache EXCEPT ![c] = Entry(flights[c].sampled)]
  /\ Land(c, Entry(flights[c].sampled))

\* CoinGecko errs, leaves the coin out or is too late, or the client of the
\* call that leads goes away: all that wait fail.
FlightFails(c) ==
  /\ flights[c] # Nothing
  /\ Land(c, Nothing)
  /\ UNCHANGED cache

-----------------------------------------------------------------------------
(* FetchMany: one request for all misses, shared with nobody *)

Misses(call) == {c \in call.coins : call.out[c] = Nothing}

\* Faulty: the hits are stored again with the coins fetched.
StoredWithHits(r, listed) ==
  LET call == calls[r]
      out == [c \in Coins |-> IF c \in listed THEN Entry(call.flight.sampled)
                                               ELSE call.out[c]]
  IN  /\ cache' = [c \in Coins |-> IF out[c] # Nothing THEN out[c] ELSE cache[c]]
      /\ Becomes(r, [call EXCEPT !.step = "done", !.out = out, !.flight = Nothing])

Stored(r, listed) ==
  LET call == calls[r]
      out == [c \in Coins |-> IF c \in listed THEN Entry(call.flight.sampled)
                                               ELSE call.out[c]]
  IN  /\ cache' = [c \in Coins |-> IF c \in listed THEN out[c] ELSE cache[c]]
      /\ Becomes(r, [call EXCEPT !.step = "done", !.out = out, !.flight = Nothing])

\* The answer lists some of the coins asked for; the others stay absent.
ManyAnswered(r, listed) ==
  /\ CallAt(r, "many") /\ calls[r].flight.sampled # Nothing
  /\ listed \subseteq Misses(calls[r])
  /\ Stored(r, listed)
  /\ UNCHANGED flights

\* An error is one for all the coins, those found in the cache included.
ManyFails(r) ==
  /\ CallAt(r, "many")
  /\ Becomes(r, Nothing)
  /\ UNCHANGED <<cache, flights>>

-----------------------------------------------------------------------------
(* CoinGecko takes the prices of a request at some time while it is under  *)
(* way.                                                                    *)

Sample ==
  \/ \E c \in Coins :
       /\ flights[c] # Nothing /\ flights[c].sampled = Nothing
       /\ flights' = [flights EXCEPT ![c].sampled = clock]
       /\ UNCHANGED <<cache, calls>>
  \/ \E r \in Callers :
       /\ CallAt(r, "many") /\ calls[r].flight.sampled = Nothing
       /\ Becomes(r, [calls[r] EXCEPT !.flight.sampled = clock])
       /\ UNCHANGED <<cache, flights>>

Airborne ==
  {flights[c] : c \in {d \in Coins : flights[d] # Nothing}}
    \cup {calls[r].flight : r \in {s \in Callers : CallAt(s, "many")}}

\* Time passes only while the program waits, and no request outlives its
\* timeout.
MayTick ==
  /\ clock < MaxClock
  /\ \A r \in Callers : calls[r] # Nothing => calls[r].step \in {"wait", "many"}
  /\ \A f \in Airborne : clock - f.sent < FlightTime

Tick == MayTick /\ clock' = clock + 1 /\ UNCHANGED pricing

-----------------------------------------------------------------------------
(* Properties *)

\* The price a trade is decided on is not older than its caller may expect:
\* taken by CoinGecko less than PriceTTL and one request's time before the
\* call, whether it came from the cache, from a request of its own, or from a
\* request another call had sent before.
FreshEnough ==
  \A r \in Callers :
    CallAt(r, "done") =>
      \A c \in Coins :
        calls[r].out[c] # Nothing =>
          calls[r].out[c].sampled > calls[r].at - PriceTTL - FlightTime

\* "Consecutive trades within a couple of seconds shouldn't burn quota": a
\* call of FetchOne sends a request for a coin only if no price of the coin was
\* stored in the last PriceTTL, or just now, after the call looked.
QuotaSpared ==
  [][\A c \in Coins :
       flights[c] = Nothing /\ flights'[c] # Nothing /\ cache[c] # Nothing
       => \/ cache[c].fetchedAt = clock
          \/ clock - cache[c].fetchedAt >= PriceTTL]_<<clock, pricing>>

\* Requests overtake each other, so that a stored price can be replaced by one
\* CoinGecko took earlier, but earlier by a request's time at most.
RewindBounded ==
  [][\A c \in Coins :
       cache[c] # Nothing /\ cache'[c] # Nothing
       => cache'[c].sampled >= cache[c].sampled - FlightTime]_<<clock, pricing>>
=============================================================================
