----------------------------- MODULE RateLimiter ----------------------------
(***************************************************************************)
(* The token buckets of ratelimit.py.  Tokens are counted in Minute-th     *)
(* parts of one, so that what a tick of the clock brings is a whole        *)
(* number; the floats of the code are taken for exact.                     *)
(***************************************************************************)
EXTENDS Integers, Sequences

CONSTANTS
    PerMin,       \* rate_limit_per_min: the rate, and the capacity of a bucket
    Minute,       \* ticks in a minute
    MaxBuckets    \* max_buckets

ASSUME RateLimiterAssumption ==
    PerMin \in Nat \ {0} /\ Minute \in Nat \ {0} /\ MaxBuckets \in Nat \ {0}

Token == Minute
Capacity == PerMin * Token
Full(key, now) == [key |-> key, tokens |-> Capacity, refilled |-> now]

Has(buckets, key) == \E i \in DOMAIN buckets : buckets[i].key = key
PlaceOf(buckets, key) == CHOOSE i \in DOMAIN buckets : buckets[i].key = key

\* When the table is full, the key that came first goes (a dict keeps that order).
Overfull(buckets, key) == ~Has(buckets, key) /\ Len(buckets) >= MaxBuckets

Opened(buckets, key, now) ==
    IF Has(buckets, key) THEN buckets
    ELSE Append(IF Overfull(buckets, key) THEN Tail(buckets) ELSE buckets, Full(key, now))

\* Mutant: the time of the refill is not kept.
RefilledAgain(b, now) ==
    LET tokens == b.tokens + (now - b.refilled) * PerMin
    IN  [b EXCEPT !.tokens = IF tokens > Capacity THEN Capacity ELSE tokens]

Refilled(b, now) ==
    LET tokens == b.tokens + (now - b.refilled) * PerMin
    IN  [b EXCEPT !.tokens = IF tokens > Capacity THEN Capacity ELSE tokens, !.refilled = now]

Allowed(buckets, key, now) ==
    LET open == Opened(buckets, key, now)
    IN  Refilled(open[PlaceOf(open, key)], now).tokens >= Token

\* The table after check(key).
Checked(buckets, key, now) ==
    LET open == Opened(buckets, key, now)
        i == PlaceOf(open, key)
        b == Refilled(open[i], now)
    IN  [open EXCEPT ![i] =
            IF Allowed(buckets, key, now) THEN [b EXCEPT !.tokens = @ - Token] ELSE b]
=============================================================================
