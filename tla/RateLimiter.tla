----------------------------- MODULE RateLimiter -----------------------------
(***************************************************************************)
(* The token bucket in front of the trade endpoint                         *)
(* (internal/api/rate_limit.go).  allow runs under a mutex, so a request   *)
(* is one step; the reading of the clock is an argument, as the code's     *)
(* clock is injected.  Tokens are counted in units of 1/Token token, so    *)
(* that the refill of one unit of time is a whole number of them.          *)
(***************************************************************************)
EXTENDS Integers, Sequences

CONSTANTS Clients,   \* device ids
          Token,     \* units that make one token
          Rate,      \* units refilled per unit of time
          Burst,     \* tokens a bucket holds
          Absent,    \* no bucket yet
          MaxLives   \* bound: how often the server is started again

Capacity == Burst * Token

Bucket == [tokens : 0 .. Capacity, lastFill : Nat]

ASSUME LimiterAssumption ==
  /\ Token \in Nat \ {0} /\ Rate \in Nat \ {0} /\ Burst \in Nat \ {0}
  /\ Absent \notin Bucket /\ MaxLives \in Nat

\* A request let through: when, and in which life of the server.
Grant == [at : Nat, life : Nat]

VARIABLES buckets,   \* the limiter's map from device to bucket
          granted,   \* each device's requests let through, in order
          life       \* how often the server was started again

limiter == <<buckets, granted, life>>

LimiterTypeOK ==
  /\ buckets \in [Clients -> Bucket \cup {Absent}]
  /\ granted \in [Clients -> Seq(Grant)]
  /\ life \in Nat

LimiterInit ==
  /\ buckets = [d \in Clients |-> Absent]
  /\ granted = [d \in Clients |-> <<>>]
  /\ life = 0

-----------------------------------------------------------------------------

\* Faulty: a bucket left alone fills without end.
RefilledUncapped(b, now) ==
  [tokens |-> b.tokens + (now - b.lastFill) * Rate, lastFill |-> now]

\* Faulty: fractions of a token are dropped.
RefilledWhole(b, now) ==
  LET tokens == b.tokens + (((now - b.lastFill) * Rate) \div Token) * Token
  IN  [tokens |-> IF tokens > Capacity THEN Capacity ELSE tokens, lastFill |-> now]

\* The elapsed time's tokens, up to the capacity.
Refilled(b, now) ==
  IF now > b.lastFill
    THEN LET tokens == b.tokens + (now - b.lastFill) * Rate
         IN  [tokens |-> IF tokens > Capacity THEN Capacity ELSE tokens,
              lastFill |-> now]
    ELSE b

\* The device's bucket as allow finds it: a new one is full.
BucketAt(d, now) ==
  Refilled(IF buckets[d] = Absent THEN [tokens |-> Capacity, lastFill |-> now]
                                  ELSE buckets[d],
           now)

Allow(d, now) ==
  /\ BucketAt(d, now).tokens >= Token
  /\ buckets' = [buckets EXCEPT
                   ![d] = [BucketAt(d, now) EXCEPT !.tokens = @ - Token]]
  /\ granted' = [granted EXCEPT ![d] = Append(@, [at |-> now, life |-> life])]
  /\ UNCHANGED life

\* 429: the refill is kept, no token is taken.
Refuse(d, now) ==
  /\ BucketAt(d, now).tokens < Token
  /\ buckets' = [buckets EXCEPT ![d] = BucketAt(d, now)]
  /\ UNCHANGED <<granted, life>>

\* Buckets live in the server's memory: a restart forgets them.
ForgetBuckets ==
  /\ life < MaxLives /\ life' = life + 1
  /\ buckets' = [d \in Clients |-> Absent]
  /\ UNCHANGED granted

-----------------------------------------------------------------------------
(* What the server grants a device, from one life to the next              *)

\* The requests granted from the i-th to the j-th.
Grants(i, j) == j - i + 1

\* What may be granted from a grant on: a full bucket, one more for each start
\* of the server since, and what flows in.
Allowance(g, now, lives) == Capacity * (1 + lives - g.life) + Rate * (now - g.at)

\* "Refills at Rate tokens per second up to Burst": over any span of time a
\* device gets no more than a full bucket and what flows in meanwhile, however
\* its requests are spread and however often it is refused in between, and no
\* more than another full bucket for each restart of the server.
WindowBound ==
  \A d \in Clients : \A i, j \in DOMAIN granted[d] :
    i <= j => Grants(i, j) * Token
                <= Allowance(granted[d][i], granted[d][j].at, granted[d][j].life)

\* Nor is a device held to less: one that would be refused at this reading of
\* the clock has used up all that it was allowed since some grant.
RefusedOnlyWhenSpent(now) ==
  \A d \in Clients :
    BucketAt(d, now).tokens < Token =>
      \E i \in DOMAIN granted[d] :
        (Grants(i, Len(granted[d])) + 1) * Token > Allowance(granted[d][i], now, life)
=============================================================================
