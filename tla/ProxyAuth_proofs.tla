--------------------------- MODULE ProxyAuth_proofs ---------------------------
(***************************************************************************)
(* The verdicts, the lockout and the rate limit of the proxy, for any      *)
(* settings, users and addresses and any number of requests.               *)
(***************************************************************************)
EXTENDS ProxyAuth, FiniteSetTheorems, SequenceTheorems, TLAPS

USE RateLimiterAssumption, ProxyAuthAssumption

-----------------------------------------------------------------------------
(***************************************************************************)
(* The token buckets.                                                      *)
(***************************************************************************)
LEMMA CapacityType == Capacity \in Nat /\ Token \in Nat /\ Token > 0 /\ Capacity >= Token
  BY DEF Capacity, Token

LEMMA Monotone ==
    ASSUME NEW a \in Int, NEW b \in Int, NEW c \in Nat, a <= b
    PROVE  a * c <= b * c /\ c * a <= c * b
  OBVIOUS

Buckets(now0) == [key : Ip, tokens : 0 .. Capacity, refilled : 0 .. now0]

LEMMA LaterIsNearer ==
    ASSUME NEW at \in Int, NEW t \in Int, NEW n \in Int, NEW m \in Int, at > t, t >= n - m
    PROVE  n - at < m
  OBVIOUS

\* A refill keeps the key, counts no minute twice and never overfills.
LEMMA RefilledBucket ==
    ASSUME NEW t \in Nat, NEW b \in Buckets(t)
    PROVE  /\ Refilled(b, t) \in Buckets(t)
           /\ Refilled(b, t).key = b.key
           /\ Refilled(b, t).refilled = t
           /\ Refilled(b, t).tokens >= b.tokens
  <1>1. /\ b.tokens \in 0 .. Capacity /\ b.refilled \in 0 .. t /\ Capacity \in Nat
        /\ b.key \in Ip
    BY CapacityType DEF Buckets
  <1>2. (t - b.refilled) * PerMin \in Nat
    BY <1>1
  <1>3. b = [key |-> b.key, tokens |-> b.tokens, refilled |-> b.refilled]
    BY DEF Buckets
  <1> DEFINE more == b.tokens + (t - b.refilled) * PerMin
             least == IF more > Capacity THEN Capacity ELSE more
  <1>4. least \in 0 .. Capacity /\ least >= b.tokens
    BY <1>1, <1>2
  <1>5. Refilled(b, t) = [b EXCEPT !.tokens = least, !.refilled = t]
    BY DEF Refilled
  <1> HIDE DEF least
  <1>6. /\ Refilled(b, t).key = b.key /\ Refilled(b, t).refilled = t
        /\ Refilled(b, t).tokens = least
    BY <1>5 DEF Buckets
  <1> DEFINE Amounts == 0 .. Capacity
             Times == 0 .. t
  <1>7. [b EXCEPT !.tokens = least, !.refilled = t] \in Buckets(t)
    <2>1. b \in [key : Ip, tokens : Amounts, refilled : Times] /\ least \in Amounts /\ t \in Times
      BY <1>4 DEF Buckets
    <2> HIDE DEF Amounts, Times
    <2>2. [b EXCEPT !.tokens = least, !.refilled = t] \in
             [key : Ip, tokens : Amounts, refilled : Times]
      BY <2>1
    <2> QED
      BY <2>2 DEF Buckets, Amounts, Times
  <1>8. Refilled(b, t) \in Buckets(t)
    BY <1>5, <1>7
  <1> QED
    BY <1>4, <1>6, <1>8

UniqueKeys(bs) == \A i, j \in DOMAIN bs : bs[i].key = bs[j].key => i = j

LEMMA TailElements ==
    ASSUME NEW S, NEW s \in Seq(S), s # <<>>
    PROVE  /\ Tail(s) \in Seq(S) /\ DOMAIN Tail(s) = 1 .. Len(s) - 1
           /\ \A j \in DOMAIN Tail(s) : j + 1 \in DOMAIN s /\ Tail(s)[j] = s[j + 1]
           /\ \A i \in DOMAIN s : \/ \E j \in DOMAIN Tail(s) : Tail(s)[j] = s[i]
                                  \/ s[i] = Head(s)
  <1>1. Len(s) \in Nat /\ Len(s) > 0 /\ DOMAIN s = 1 .. Len(s) /\ Head(s) = s[1]
    BY EmptySeq, LenProperties
  <1>2. /\ Tail(s) \in Seq(S) /\ DOMAIN Tail(s) = 1 .. Len(s) - 1
        /\ \A j \in 1 .. Len(s) - 1 : Tail(s)[j] = s[j + 1]
    BY <1>1, HeadTailProperties, LenProperties
  <1>3. ASSUME NEW i \in DOMAIN s, i # 1
        PROVE  \E j \in DOMAIN Tail(s) : Tail(s)[j] = s[i]
    <2>1. i - 1 \in 1 .. Len(s) - 1 /\ (i - 1) + 1 = i
      BY <1>1, <1>3
    <2> QED
      BY <1>2, <2>1
  <1> QED
    BY <1>1, <1>2, <1>3

\* Opening a bucket drops at most the first one, keeps the others as they are, and leaves
\* one of the key: its own, or a full one.
LEMMA OpenedBuckets ==
    ASSUME NEW t \in Nat, NEW bs \in Seq(Buckets(t)), UniqueKeys(bs), NEW k \in Ip
    PROVE  /\ Opened(bs, k, t) \in Seq(Buckets(t))
           /\ UniqueKeys(Opened(bs, k, t))
           /\ Has(Opened(bs, k, t), k)
           /\ \A j \in DOMAIN Opened(bs, k, t) :
                 \/ \E i \in DOMAIN bs : Opened(bs, k, t)[j] = bs[i]
                 \/ ~Has(bs, k) /\ Opened(bs, k, t)[j] = Full(k, t)
           /\ \A i \in DOMAIN bs : \/ Has(Opened(bs, k, t), bs[i].key)
                                   \/ Overfull(bs, k) /\ bs[i] = Head(bs)
  <1> DEFINE open == Opened(bs, k, t)
  <1>1. CASE Has(bs, k)
    <2>1. open = bs
      BY <1>1 DEF Opened
    <2> QED
      BY <1>1, <2>1 DEF Has
  <1>2. CASE ~Has(bs, k)
    <2> DEFINE rest == IF Overfull(bs, k) THEN Tail(bs) ELSE bs
               full == Full(k, t)
    <2>1. open = Append(rest, full)
      BY <1>2 DEF Opened
    <2>2. full \in Buckets(t) /\ full.key = k
      BY CapacityType DEF Full, Buckets
    <2> HIDE DEF full
    <2>3. Overfull(bs, k) => bs # <<>>
      BY DEF Overfull
    <2> DEFINE shift == IF Overfull(bs, k) THEN 1 ELSE 0
    <2>4. /\ rest \in Seq(Buckets(t))
          /\ \A j \in DOMAIN rest : j + shift \in DOMAIN bs /\ rest[j] = bs[j + shift]
          /\ \A i \in DOMAIN bs :
                \/ \E j \in DOMAIN rest : rest[j] = bs[i]
                \/ Overfull(bs, k) /\ bs[i] = Head(bs)
      <3>1. CASE Overfull(bs, k)
        BY <2>3, <3>1, TailElements
      <3>2. CASE ~Overfull(bs, k)
        BY <3>2
      <3> QED
        BY <3>1, <3>2
    <2>5. DOMAIN rest \subseteq Int /\ shift \in Int /\ Len(rest) \in Nat
      BY <2>4
    <2> HIDE DEF rest, shift
    <2>6. /\ open \in Seq(Buckets(t)) /\ DOMAIN open = DOMAIN rest \cup {Len(rest) + 1}
          /\ Len(rest) + 1 \notin DOMAIN rest /\ open[Len(rest) + 1] = full
          /\ \A j \in DOMAIN rest : open[j] = rest[j]
      BY <2>1, <2>2, <2>4
    <2>7. \A i \in DOMAIN bs : bs[i].key # k
      BY <1>2 DEF Has
    <2> HIDE DEF open
    <2>8. UniqueKeys(open)
      <3>1. ASSUME NEW i \in DOMAIN rest, NEW j \in DOMAIN rest, rest[i].key = rest[j].key
            PROVE  i = j
        <4>1. i + shift = j + shift
          BY <2>4, <3>1 DEF UniqueKeys
        <4>2. i \in Int /\ j \in Int /\ shift \in Int
          BY <2>5
        <4> QED
          BY <4>1, <4>2
      <3>2. \A j \in DOMAIN rest : rest[j].key # k
        BY <2>4, <2>7
      <3> QED
        BY <2>2, <2>6, <3>1, <3>2 DEF UniqueKeys
    <2>9. Has(open, k) /\ \A i \in DOMAIN bs : \/ Has(open, bs[i].key)
                                               \/ Overfull(bs, k) /\ bs[i] = Head(bs)
      BY <2>2, <2>4, <2>6 DEF Has
    <2>10. \A j \in DOMAIN open : (\E i \in DOMAIN bs : open[j] = bs[i]) \/ open[j] = full
      BY <2>4, <2>6
    <2> QED
      BY <1>2, <2>6, <2>8, <2>9, <2>10 DEF open, full
  <1> QED
    BY <1>1, <1>2

\* check(key) takes one token from the key's bucket, refilled, if it can; that bucket was
\* there before or is full, and the others stay.
LEMMA CheckedBuckets ==
    ASSUME NEW t \in Nat, NEW bs \in Seq(Buckets(t)), UniqueKeys(bs), NEW k \in Ip
    PROVE  /\ Checked(bs, k, t) \in Seq(Buckets(t))
           /\ UniqueKeys(Checked(bs, k, t))
           /\ \A i \in DOMAIN bs : \/ Has(Checked(bs, k, t), bs[i].key)
                                   \/ Overfull(bs, k) /\ bs[i] = Head(bs)
           /\ Has(Checked(bs, k, t), k)
           /\ \A j \in DOMAIN Checked(bs, k, t) : Checked(bs, k, t)[j].key # k =>
                 \E i \in DOMAIN bs : Checked(bs, k, t)[j] = bs[i]
           /\ \E b \in Buckets(t) :
                 /\ b.key = k
                 /\ (\E i \in DOMAIN bs : b = bs[i]) \/ (~Has(bs, k) /\ b = Full(k, t))
                 /\ Allowed(bs, k, t) <=> Refilled(b, t).tokens >= Token
                 /\ \A j \in DOMAIN Checked(bs, k, t) : Checked(bs, k, t)[j].key = k =>
                       /\ Checked(bs, k, t)[j].refilled = t
                       /\ Checked(bs, k, t)[j].tokens =
                             Refilled(b, t).tokens - (IF Allowed(bs, k, t) THEN Token ELSE 0)
  <1> DEFINE open == Opened(bs, k, t)
             i == PlaceOf(open, k)
             b == open[i]
             r == Refilled(b, t)
             new == IF Allowed(bs, k, t) THEN [r EXCEPT !.tokens = @ - Token] ELSE r
  <1>1. i \in DOMAIN open /\ b.key = k
    <2>1. Has(open, k)
      BY OpenedBuckets
    <2> HIDE DEF open
    <2> QED
      BY <2>1 DEF Has, PlaceOf
  <1>2. open \in Seq(Buckets(t)) /\ b \in Buckets(t)
    BY <1>1, OpenedBuckets
  <1>3. Allowed(bs, k, t) <=> r.tokens >= Token
    BY DEF Allowed
  <1>4. Checked(bs, k, t) = [open EXCEPT ![i] = new]
    BY DEF Checked
  <1>5. r \in Buckets(t) /\ r.key = k /\ r.refilled = t
    BY <1>1, <1>2, RefilledBucket
  <1>6. /\ new \in Buckets(t) /\ new.key = k /\ new.refilled = t
        /\ new.tokens = r.tokens - (IF Allowed(bs, k, t) THEN Token ELSE 0)
    <2> HIDE DEF r
    <2>1. CASE Allowed(bs, k, t)
      <3> DEFINE Amounts == 0 .. Capacity
                 Times == 0 .. t
                 x == r.tokens - Token
      <3>1. r \in [key : Ip, tokens : Amounts, refilled : Times] /\ x \in Amounts
        BY <1>3, <1>5, <2>1, CapacityType DEF Buckets
      <3> HIDE DEF Amounts, Times, x
      <3>2. [r EXCEPT !.tokens = x] \in [key : Ip, tokens : Amounts, refilled : Times]
        BY <3>1
      <3>3. /\ [r EXCEPT !.tokens = x].key = r.key /\ [r EXCEPT !.tokens = x].refilled = r.refilled
            /\ [r EXCEPT !.tokens = x].tokens = x
        BY <3>1
      <3>4. new = [r EXCEPT !.tokens = x]
        BY <2>1 DEF x
      <3> QED
        BY <1>5, <2>1, <3>2, <3>3, <3>4 DEF Buckets, Amounts, Times, x
    <2>2. CASE ~Allowed(bs, k, t)
      BY <1>5, <2>2 DEF Buckets
    <2> QED
      BY <2>1, <2>2
  <1> DEFINE checked == Checked(bs, k, t)
  <1>7. \A j \in DOMAIN open : open[j].key = k => j = i
    BY <1>1, OpenedBuckets DEF UniqueKeys
  <1>8. /\ \A j \in DOMAIN open : (\E m \in DOMAIN bs : open[j] = bs[m])
                                      \/ (~Has(bs, k) /\ open[j] = Full(k, t))
        /\ \A m \in DOMAIN bs : Has(open, bs[m].key) \/ (Overfull(bs, k) /\ bs[m] = Head(bs))
        /\ UniqueKeys(open) /\ Has(open, k)
    BY OpenedBuckets
  <1> HIDE DEF open, i, r, new
  <1>9. /\ checked \in Seq(Buckets(t)) /\ DOMAIN checked = DOMAIN open
        /\ checked[i] = new /\ \A j \in DOMAIN open : j # i => checked[j] = open[j]
    BY <1>1, <1>2, <1>4, <1>6
  <1> HIDE DEF checked
  <1>10. \A j \in DOMAIN open : checked[j].key = open[j].key
    BY <1>1, <1>6, <1>9
  <1>11. UniqueKeys(checked) /\ \A key : Has(open, key) => Has(checked, key)
    BY <1>8, <1>9, <1>10 DEF UniqueKeys, Has
  <1>12. \A j \in DOMAIN checked : checked[j].key # k => \E m \in DOMAIN bs : checked[j] = bs[m]
    <2> SUFFICES ASSUME NEW j \in DOMAIN checked, checked[j].key # k
                 PROVE  \E m \in DOMAIN bs : checked[j] = bs[m]
      OBVIOUS
    <2>1. checked[j] = open[j] /\ open[j].key # k /\ j \in DOMAIN open
      BY <1>6, <1>9
    <2>2. Full(k, t).key = k
      BY DEF Full
    <2> QED
      BY <1>8, <2>1, <2>2
  <1>13. \A j \in DOMAIN checked : checked[j].key = k => checked[j] = new
    BY <1>7, <1>9, <1>10
  <1>14. (\E m \in DOMAIN bs : b = bs[m]) \/ (~Has(bs, k) /\ b = Full(k, t))
    BY <1>1, <1>8
  <1> QED
    BY <1>1, <1>2, <1>3, <1>6, <1>8, <1>9, <1>11, <1>12, <1>13, <1>14 DEF checked, r

-----------------------------------------------------------------------------
(***************************************************************************)
(* The tokens of a bucket at a later time, if nothing takes one.           *)
(***************************************************************************)
Level(b, t) ==
    LET more == b.tokens + (t - b.refilled) * PerMin
    IN  IF more > Capacity THEN Capacity ELSE more

LEMMA RefilledLevel ==
    ASSUME NEW t \in Nat, NEW b \in Buckets(t)
    PROVE  Refilled(b, t).tokens = Level(b, t) /\ Level(b, t) \in 0 .. Capacity
  <1>1. Refilled(b, t).tokens = Level(b, t)
    <2> DEFINE least == Level(b, t)
    <2>1. Refilled(b, t) = [b EXCEPT !.tokens = least, !.refilled = t]
      BY DEF Refilled, Level
    <2> HIDE DEF least
    <2>2. Refilled(b, t).tokens = least
      BY <2>1 DEF Buckets
    <2> QED
      BY <2>2 DEF least
  <1> QED
    BY <1>1, RefilledBucket DEF Buckets

\* What a tick adds.
LEMMA LevelLater ==
    ASSUME NEW t \in Nat, NEW b \in Buckets(t), NEW d \in Nat
    PROVE  /\ Level(b, t + d) \in 0 .. Capacity
           /\ Level(b, t + d) = IF Level(b, t) + d * PerMin > Capacity THEN Capacity
                                ELSE Level(b, t) + d * PerMin
  <1>1. /\ b.tokens \in 0 .. Capacity /\ b.refilled \in 0 .. t /\ Capacity \in Nat /\ PerMin \in Nat
    BY CapacityType DEF Buckets
  <1> DEFINE x == (t - b.refilled) * PerMin
             y == d * PerMin
  <1>2. (t + d - b.refilled) * PerMin = x + y
    BY <1>1
  <1>3. x \in Nat /\ y \in Nat
    BY <1>1
  <1>4. Level(b, t) = IF b.tokens + x > Capacity THEN Capacity ELSE b.tokens + x
    BY DEF Level
  <1> HIDE DEF x, y
  <1>5. Level(b, t + d) = IF b.tokens + (x + y) > Capacity THEN Capacity ELSE b.tokens + (x + y)
    <2> DEFINE z == (t + d - b.refilled) * PerMin
    <2>1. Level(b, t + d) = IF b.tokens + z > Capacity THEN Capacity ELSE b.tokens + z
      BY <1>1 DEF Level
    <2>2. z = x + y
      BY <1>2
    <2> HIDE DEF z
    <2> QED
      BY <2>1, <2>2
  <1>6. /\ Level(b, t + d) \in 0 .. Capacity
        /\ Level(b, t + d) = IF Level(b, t) + y > Capacity THEN Capacity ELSE Level(b, t) + y
    BY <1>1, <1>3, <1>4, <1>5
  <1> QED
    BY <1>6 DEF y

LEMMA MinuteFills ==
    ASSUME NEW d \in Nat, d >= Minute
    PROVE  d * PerMin >= Capacity
  BY DEF Capacity, Token

\* What check makes of the bucket of its key, seen from later.
LEMMA LevelChecked ==
    ASSUME NEW t \in Nat, NEW b \in Buckets(t), NEW c \in Buckets(t), c.refilled = t, NEW d \in Nat
    PROVE  /\ c.tokens = Level(b, t) => Level(c, t + d) = Level(b, t + d)
           /\ c.tokens = Level(b, t) - Token =>
                 /\ Level(c, t + d) >= Level(b, t + d) - Token
                 /\ d >= Minute => Level(c, t + d) = Capacity
  <1> DEFINE y == d * PerMin
  <1>1. /\ Capacity \in Nat /\ Token \in Nat /\ y \in Nat /\ c.tokens \in 0 .. Capacity
        /\ Level(b, t) \in 0 .. Capacity
    BY CapacityType, RefilledLevel DEF Buckets
  <1>2. Level(c, t) = c.tokens
    <2>1. (t - c.refilled) * PerMin = 0
      OBVIOUS
    <2> QED
      BY <1>1, <2>1 DEF Level
  <1>3. /\ Level(c, t + d) = IF c.tokens + y > Capacity THEN Capacity ELSE c.tokens + y
        /\ Level(b, t + d) = IF Level(b, t) + y > Capacity THEN Capacity ELSE Level(b, t) + y
    BY <1>2, LevelLater
  <1>4. d >= Minute => y >= Capacity
    BY MinuteFills
  <1> HIDE DEF y
  <1> QED
    BY <1>1, <1>3, <1>4

-----------------------------------------------------------------------------
(***************************************************************************)
(* The rate limit.  What an address has passed within a minute and the     *)
(* tokens its bucket will hold make up a capacity at least, now and at any *)
(* later time; and what has passed since some instant, with the tokens     *)
(* there are, is a capacity and what came in since at most, unless the     *)
(* bucket was dropped after that instant.                                  *)
(***************************************************************************)
Since(ip, t) == {q \in passed : q.ip = ip /\ q.at > t}

RateTyped ==
    /\ now \in Nat /\ requests \in Nat
    /\ buckets \in Seq(Buckets(now)) /\ UniqueKeys(buckets)
    /\ passed \subseteq [ip : Ip, at : 0 .. now, n : 1 .. requests] /\ IsFiniteSet(passed)
    /\ dropped \in [Ip -> Int]

EnoughFor(b) ==
    \A t \in Int : t >= now - Minute =>
        Level(b, t + Minute) + Token * Cardinality(Since(b.key, t)) >= Capacity

BoundedFor(b) ==
    \A t \in Int : t < now /\ dropped[b.key] <= t =>
        Token * Cardinality(Since(b.key, t)) + Level(b, now) <= Capacity + (now - t - 1) * PerMin

Held == {buckets[i] : i \in DOMAIN buckets}
Levels == \A b \in Held : EnoughFor(b) /\ BoundedFor(b)

NoBucket ==
    \A ip \in Ip : ~Has(buckets, ip) => \A q \in passed : q.ip = ip => q.at <= dropped[ip]

LimitedAnswer ==
    answer.kind = "limited" => answer.who \in Ip /\ Cardinality(Since(answer.who, now - Minute)) >= PerMin

RateInv == RateTyped /\ Levels /\ NoBucket /\ LimitedAnswer

LEMMA SinceCount ==
    ASSUME IsFiniteSet(passed), NEW ip, NEW t
    PROVE  IsFiniteSet(Since(ip, t)) /\ Cardinality(Since(ip, t)) \in Nat
  <1>1. Since(ip, t) \subseteq passed
    BY DEF Since
  <1>2. IsFiniteSet(Since(ip, t))
    BY <1>1, FS_Subset
  <1> QED
    BY <1>2, FS_CardinalityType

\* A full bucket stays full.
LEMMA FullLevel ==
    ASSUME NEW t \in Nat, NEW k \in Ip, NEW d \in Nat
    PROVE  Full(k, t) \in Buckets(t) /\ Level(Full(k, t), t + d) = Capacity
  <1>1. /\ Full(k, t).key = k /\ Full(k, t).tokens = Capacity /\ Full(k, t).refilled = t
        /\ Full(k, t) \in Buckets(t)
    BY CapacityType DEF Full, Buckets
  <1> DEFINE b == Full(k, t)
             y == (t + d - b.refilled) * PerMin
  <1>2. y \in Nat
    BY <1>1
  <1>3. Level(b, t + d) = IF b.tokens + y > Capacity THEN Capacity ELSE b.tokens + y
    BY <1>1 DEF Level
  <1> HIDE DEF y
  <1> QED
    BY <1>1, <1>2, <1>3, CapacityType

LEMMA RateInit == Init => RateInv
  <1> SUFFICES ASSUME Init PROVE RateInv
    OBVIOUS
  <1>1. now = 0 /\ requests = 0 /\ buckets = <<>> /\ passed = {} /\ answer = NoAnswer
    BY DEF Init
  <1>2. dropped \in [Ip -> Int]
    BY DEF Init, Never
  <1>3. buckets \in Seq(Buckets(now)) /\ DOMAIN buckets = {}
    BY <1>1
  <1>4. IsFiniteSet(passed)
    BY <1>1, FS_EmptySet
  <1>5. RateTyped
    BY <1>1, <1>2, <1>3, <1>4 DEF RateTyped, UniqueKeys
  <1>6. answer.kind # "limited"
    BY <1>1 DEF NoAnswer
  <1> QED
    BY <1>1, <1>3, <1>5, <1>6 DEF RateInv, Levels, Held, NoBucket, LimitedAnswer

LEMMA TokenTimes ==
    ASSUME NEW n \in Nat
    PROVE  Token * n \in Nat /\ Token * (n + 1) = Token * n + Token
  BY CapacityType

LEMMA RateArrive ==
    ASSUME RateInv, NEW s \in Slot, NEW u \in User, NEW p \in Password \cup {NoPassword},
           NEW k \in Ip, Arrive(s, u, p, k)
    PROVE  RateInv'
  <1> DEFINE new == [ip |-> k, at |-> now, n |-> requests']
             allowed == Allowed(buckets, k, now)
  <1>1. RateTyped /\ Levels /\ NoBucket /\ LimitedAnswer
    BY DEF RateInv
  <1>2. /\ now \in Nat /\ requests \in Nat /\ IsFiniteSet(passed) /\ dropped \in [Ip -> Int]
        /\ buckets \in Seq(Buckets(now)) /\ UniqueKeys(buckets)
        /\ passed \subseteq [ip : Ip, at : 0 .. now, n : 1 .. requests]
    BY <1>1 DEF RateTyped
  <1>3. /\ now' = now /\ requests' = requests + 1 /\ buckets' = Checked(buckets, k, now)
        /\ dropped' = IF Overfull(buckets, k) THEN [dropped EXCEPT ![Head(buckets).key] = now]
                      ELSE dropped
        /\ passed' = IF allowed THEN passed \cup {new} ELSE passed
    BY DEF Arrive
  <1> HIDE DEF allowed
  <1>4. dropped' \in [Ip -> Int] /\ \A ip \in Ip : dropped'[ip] = dropped[ip] \/ dropped'[ip] = now
    <2>1. CASE Overfull(buckets, k)
      <3> DEFINE h == Head(buckets).key
      <3>1. dropped' = [dropped EXCEPT ![h] = now] /\ now \in Int
        BY <1>2, <1>3, <2>1
      <3> HIDE DEF h
      <3> QED
        BY <1>2, <3>1
    <2>2. CASE ~Overfull(buckets, k)
      BY <1>2, <1>3, <2>2
    <2> QED
      BY <2>1, <2>2
  <1>5. /\ passed' \subseteq [ip : Ip, at : 0 .. now', n : 1 .. requests'] /\ IsFiniteSet(passed')
        /\ new \notin passed
    <2>1. new \in [ip : Ip, at : 0 .. now', n : 1 .. requests'] /\ new.n = requests + 1
      BY <1>2, <1>3
    <2>2. passed \subseteq [ip : Ip, at : 0 .. now', n : 1 .. requests']
      BY <1>2, <1>3
    <2>3. new \notin passed
      BY <1>2, <2>1
    <2> HIDE DEF new
    <2> QED
      BY <1>2, <1>3, <2>1, <2>2, <2>3, FS_AddElement
  <1>6. /\ buckets' \in Seq(Buckets(now')) /\ UniqueKeys(buckets') /\ Has(buckets', k)
        /\ \A i \in DOMAIN buckets : \/ Has(buckets', buckets[i].key)
                                     \/ Overfull(buckets, k) /\ buckets[i] = Head(buckets)
        /\ \A j \in DOMAIN buckets' : buckets'[j].key # k =>
              \E i \in DOMAIN buckets : buckets'[j] = buckets[i]
    <2> DEFINE checked == Checked(buckets, k, now)
    <2>1. /\ checked \in Seq(Buckets(now)) /\ UniqueKeys(checked) /\ Has(checked, k)
          /\ \A i \in DOMAIN buckets : \/ Has(checked, buckets[i].key)
                                       \/ Overfull(buckets, k) /\ buckets[i] = Head(buckets)
          /\ \A j \in DOMAIN checked : checked[j].key # k =>
                \E i \in DOMAIN buckets : checked[j] = buckets[i]
      BY <1>2, CheckedBuckets
    <2>2. buckets' = checked /\ now' = now
      BY <1>3
    <2> HIDE DEF checked
    <2> QED
      BY <2>1, <2>2
  <1>7. RateTyped'
    BY <1>2, <1>3, <1>4, <1>5, <1>6 DEF RateTyped
  <1>8. ASSUME NEW ip \in Ip, NEW t \in Int
        PROVE  /\ Cardinality(Since(ip, t)) \in Nat
               /\ Cardinality(Since(ip, t)') =
                     Cardinality(Since(ip, t)) + IF allowed /\ ip = k /\ t < now THEN 1 ELSE 0
    <2>1. IsFiniteSet(Since(ip, t)) /\ Cardinality(Since(ip, t)) \in Nat
      BY <1>2, SinceCount
    <2>2. CASE allowed /\ ip = k /\ t < now
      <3>1. Since(ip, t)' = Since(ip, t) \cup {new}
        BY <1>3, <2>2 DEF Since
      <3>2. new \notin Since(ip, t)
        BY <1>5 DEF Since
      <3> HIDE DEF new
      <3> QED
        BY <2>1, <2>2, <3>1, <3>2, FS_AddElement
    <2>3. CASE ~(allowed /\ ip = k /\ t < now)
      <3>1. Since(ip, t)' = Since(ip, t)
        <4>1. CASE ~allowed
          BY <1>3, <4>1 DEF Since
        <4>2. CASE allowed
          <5>1. new.ip = k /\ new.at = now
            OBVIOUS
          <5>2. ~(new.ip = ip /\ new.at > t)
            BY <1>2, <2>3, <4>2, <5>1
          <5>3. passed' = passed \cup {new}
            BY <1>3, <4>2
          <5> HIDE DEF new
          <5> QED
            BY <5>2, <5>3 DEF Since
        <4> QED
          BY <4>1, <4>2
      <3> QED
        BY <2>1, <2>3, <3>1
    <2> QED
      BY <2>1, <2>2, <2>3
  <1>9. NoBucket'
    <2> SUFFICES ASSUME NEW ip \in Ip, ~Has(buckets', ip), NEW q \in passed', q.ip = ip
                 PROVE  q.at <= dropped'[ip]
      BY DEF NoBucket
    <2>1. ip # k /\ q \in passed
      BY <1>3, <1>6
    <2>2. CASE Has(buckets, ip)
      <3>1. Overfull(buckets, k) /\ Head(buckets).key = ip
        BY <1>6, <2>2 DEF Has
      <3>2. dropped'[ip] = now
        BY <1>2, <1>3, <3>1
      <3> QED
        BY <1>2, <2>1, <3>2
    <2>3. CASE ~Has(buckets, ip)
      <3>1. q.at <= dropped[ip]
        BY <1>1, <2>1, <2>3 DEF NoBucket
      <3>2. q.at <= now
        BY <1>2, <2>1
      <3>3. dropped'[ip] = dropped[ip] \/ dropped'[ip] = now
        BY <1>4
      <3> QED
        BY <3>1, <3>2, <3>3
    <2> QED
      BY <2>2, <2>3
  <1>10. PICK b \in Buckets(now) :
            /\ b.key = k
            /\ b \in Held \/ (~Has(buckets, k) /\ b = Full(k, now))
            /\ allowed <=> Level(b, now) >= Token
            /\ \A c \in Held' : c.key = k =>
                  c.refilled = now /\ c.tokens = Level(b, now) - (IF allowed THEN Token ELSE 0)
    <2>1. PICK b \in Buckets(now) :
            /\ b.key = k
            /\ (\E i \in DOMAIN buckets : b = buckets[i]) \/ (~Has(buckets, k) /\ b = Full(k, now))
            /\ Allowed(buckets, k, now) <=> Refilled(b, now).tokens >= Token
            /\ \A j \in DOMAIN Checked(buckets, k, now) : Checked(buckets, k, now)[j].key = k =>
                  /\ Checked(buckets, k, now)[j].refilled = now
                  /\ Checked(buckets, k, now)[j].tokens =
                        Refilled(b, now).tokens - (IF Allowed(buckets, k, now) THEN Token ELSE 0)
      BY <1>2, CheckedBuckets
    <2>2. Refilled(b, now).tokens = Level(b, now)
      BY <1>2, RefilledLevel
    <2> QED
      BY <1>3, <2>1, <2>2 DEF Held, allowed
  <1> HIDE DEF new
  <1>a. b.key = k /\ b \in Buckets(now) /\ now' = now
    BY <1>3, <1>10
  <1>11. EnoughFor(b) /\ BoundedFor(b)
    <2>1. CASE b \in Held
      BY <1>1, <2>1 DEF Levels
    <2>2. CASE ~Has(buckets, k) /\ b = Full(k, now)
      <3>1. \A d \in Nat : Level(b, now + d) = Capacity
        BY <1>2, <2>2, FullLevel
      <3>2. EnoughFor(b)
        <4> SUFFICES ASSUME NEW t \in Int, t >= now - Minute
                     PROVE  Level(b, t + Minute) + Token * Cardinality(Since(k, t)) >= Capacity
          BY <1>a DEF EnoughFor
        <4>1. Token * Cardinality(Since(k, t)) \in Nat
          BY <1>8, TokenTimes
        <4>2. t + Minute - now \in Nat /\ now + (t + Minute - now) = t + Minute
          BY <1>2
        <4>3. Level(b, t + Minute) = Capacity
          BY <3>1, <4>2
        <4> QED
          BY <4>1, <4>3, CapacityType
      <3>3. BoundedFor(b)
        <4> SUFFICES ASSUME NEW t \in Int, t < now, dropped[k] <= t
                     PROVE  Token * Cardinality(Since(k, t)) + Level(b, now)
                               <= Capacity + (now - t - 1) * PerMin
          BY <1>a DEF BoundedFor
        <4>1. Since(k, t) = {}
          BY <1>1, <1>2, <2>2 DEF NoBucket, Since
        <4>2. Token * Cardinality(Since(k, t)) = 0
          BY <4>1, FS_EmptySet, CapacityType
        <4>3. Level(b, now) = Capacity
          <5>1. now + 0 = now
            BY <1>2
          <5>2. Level(b, now + 0) = Capacity
            BY <3>1
          <5> QED
            BY <5>1, <5>2
        <4>4. now - t - 1 \in Nat
          BY <1>2
        <4>5. (now - t - 1) * PerMin \in Nat
          BY <4>4
        <4> QED
          BY <4>2, <4>3, <4>5, CapacityType
      <3> QED
        BY <3>2, <3>3
    <2> QED
      BY <1>10, <2>1, <2>2
  <1>12. ASSUME NEW c \in Held', c.key # k
         PROVE  EnoughFor(c)' /\ BoundedFor(c)'
    <2>1. c \in Held /\ c \in Buckets(now)
      BY <1>2, <1>6, <1>12 DEF Held
    <2>2. EnoughFor(c) /\ BoundedFor(c) /\ c.key \in Ip
      BY <1>1, <2>1 DEF Levels, Buckets
    <2>3. \A t \in Int : Cardinality(Since(c.key, t)') = Cardinality(Since(c.key, t))
      BY <1>8, <1>12, <2>2
    <2>4. EnoughFor(c)'
      <3> SUFFICES ASSUME NEW t \in Int, t >= now - Minute
                   PROVE  Level(c, t + Minute) + Token * Cardinality(Since(c.key, t)') >= Capacity
        BY <1>a DEF EnoughFor
      <3> QED
        BY <2>2, <2>3 DEF EnoughFor
    <2>5. BoundedFor(c)'
      <3>1. ASSUME NEW t \in Int, t < now, dropped'[c.key] <= t
            PROVE  Token * Cardinality(Since(c.key, t)') + Level(c, now)
                      <= Capacity + (now - t - 1) * PerMin
        <4> DEFINE key == c.key
        <4>1. /\ dropped'[key] = dropped[key] \/ dropped'[key] = now
              /\ dropped[key] \in Int /\ dropped'[key] <= t
          BY <1>2, <1>4, <2>2, <3>1
        <4> HIDE DEF key
        <4>2. dropped[key] <= t
          BY <1>2, <3>1, <4>1
        <4> QED
          BY <2>2, <2>3, <3>1, <4>2 DEF BoundedFor, key
      <3> QED
        BY <1>a, <3>1 DEF BoundedFor
    <2> QED
      BY <2>4, <2>5
  <1>13. ASSUME NEW c \in Held', c.key = k
         PROVE  EnoughFor(c)' /\ BoundedFor(c)'
    <2>1. c \in Buckets(now)
      BY <1>3, <1>6 DEF Held
    <2>2. c.refilled = now /\ c.tokens = Level(b, now) - (IF allowed THEN Token ELSE 0)
      BY <1>10, <1>13
    <2>3. ASSUME NEW t \in Int, t >= now - Minute
          PROVE  Level(c, t + Minute) + Token * Cardinality(Since(k, t)') >= Capacity
      <3> DEFINE n == Cardinality(Since(k, t))
                 m == Cardinality(Since(k, t)')
                 x == Level(b, t + Minute)
                 y == Level(c, t + Minute)
                 d == t + Minute - now
      <3>1. n \in Nat /\ m = n + (IF allowed /\ t < now THEN 1 ELSE 0)
        BY <1>8
      <3>2. x + Token * n >= Capacity
        BY <1>a, <1>11, <2>3 DEF EnoughFor
      <3>3. d \in Nat /\ now + d = t + Minute /\ (t >= now => d >= Minute)
        BY <1>2, <2>3
      <3> HIDE DEF d
      <3>4. x \in 0 .. Capacity /\ y \in 0 .. Capacity
        <4>1. Level(b, now + d) \in 0 .. Capacity /\ Level(c, now + d) \in 0 .. Capacity
          BY <1>2, <1>a, <2>1, <3>3, LevelLater
        <4> QED
          BY <3>3, <4>1
      <3>5. /\ ~allowed => y = x
            /\ allowed => y >= x - Token /\ (t >= now => y = Capacity)
        <4>1. Level(b, now) \in Int
          BY <1>2, <1>a, RefilledLevel
        <4>2. CASE allowed
          <5>1. c.tokens = Level(b, now) - Token
            BY <2>2, <4>2
          <5>2. /\ Level(c, now + d) >= Level(b, now + d) - Token
                /\ d >= Minute => Level(c, now + d) = Capacity
            BY <1>2, <1>a, <2>1, <2>2, <3>3, <5>1, LevelChecked
          <5> QED
            BY <3>3, <4>2, <5>2
        <4>3. CASE ~allowed
          <5>1. c.tokens = Level(b, now)
            BY <2>2, <4>1, <4>3
          <5>2. Level(c, now + d) = Level(b, now + d)
            BY <1>2, <1>a, <2>1, <2>2, <3>3, <5>1, LevelChecked
          <5> QED
            BY <3>3, <4>3, <5>2
        <4> QED
          BY <4>2, <4>3
      <3>6. Token * n \in Nat /\ Token * (n + 1) = Token * n + Token
        BY <3>1, TokenTimes
      <3> HIDE DEF n, m, x, y
      <3>7. y + Token * m >= Capacity
        <4>1. CASE allowed /\ t < now
          <5>1. m = n + 1
            BY <3>1, <4>1
          <5>2. Token * m = Token * n + Token
            BY <3>6, <5>1
          <5> QED
            BY <3>2, <3>4, <3>5, <3>6, <4>1, <5>2, CapacityType
        <4>2. CASE ~(allowed /\ t < now)
          <5>1. m = n
            BY <3>1, <4>2
          <5>2. y = x \/ y = Capacity
            BY <1>2, <3>5, <4>2
          <5> QED
            BY <3>2, <3>4, <3>6, <5>1, <5>2, CapacityType
        <4> QED
          BY <4>1, <4>2
      <3> QED
        BY <3>7 DEF m, y
    <2>4. EnoughFor(c)'
      BY <1>a, <1>13, <2>3 DEF EnoughFor
    <2>5. ASSUME NEW t \in Int, t < now, dropped'[k] <= t
          PROVE  Token * Cardinality(Since(k, t)') + Level(c, now) <= Capacity + (now - t - 1) * PerMin
      <3> DEFINE n == Cardinality(Since(k, t))
                 m == Cardinality(Since(k, t)')
                 x == Level(b, now)
                 z == (now - t - 1) * PerMin
      <3>1. dropped[k] <= t
        BY <1>2, <1>4, <2>5
      <3>2. n \in Nat /\ m = n + (IF allowed THEN 1 ELSE 0)
        BY <1>8, <2>5
      <3>3. Token * n + x <= Capacity + z
        BY <1>a, <1>11, <2>5, <3>1 DEF BoundedFor
      <3>4. Level(c, now) = c.tokens /\ x \in 0 .. Capacity
        <4>1. (now - c.refilled) * PerMin = 0
          BY <1>2, <2>2
        <4>2. c.tokens \in 0 .. Capacity
          BY <2>1 DEF Buckets
        <4> QED
          BY <1>2, <4>1, <4>2, RefilledLevel, CapacityType DEF Level
      <3>5. Token * n \in Nat /\ Token * (n + 1) = Token * n + Token
        BY <3>2, TokenTimes
      <3>6. z \in Int
        BY <1>2
      <3> HIDE DEF n, m, x, z
      <3>7. Token * m + (x - (IF allowed THEN Token ELSE 0)) <= Capacity + z
        <4>1. CASE allowed
          BY <3>2, <3>3, <3>4, <3>5, <3>6, <4>1, CapacityType
        <4>2. CASE ~allowed
          BY <3>2, <3>3, <3>4, <3>5, <3>6, <4>2, CapacityType
        <4> QED
          BY <4>1, <4>2
      <3> QED
        BY <2>2, <3>4, <3>7 DEF m, x, z
    <2>6. BoundedFor(c)'
      BY <1>a, <1>13, <2>5 DEF BoundedFor
    <2> QED
      BY <2>4, <2>6
  <1>14. Levels'
    BY <1>12, <1>13 DEF Levels
  <1>15. LimitedAnswer'
    <2>1. CASE allowed
      <3>1. answer'.kind # "limited"
        BY <2>1 DEF Arrive, Admit, Answers, NoAnswer, allowed
      <3> QED
        BY <3>1 DEF LimitedAnswer
    <2>2. CASE ~allowed
      <3>1. answer'.who = k
        BY <2>2 DEF Arrive, Answers, allowed
      <3> DEFINE t == now - Minute
                 n == Cardinality(Since(k, t))
      <3>2. t \in Int /\ t + Minute = now /\ t >= now - Minute
        BY <1>2
      <3> HIDE DEF t
      <3>3. Level(b, now) + Token * n >= Capacity
        BY <1>a, <1>11, <3>2 DEF EnoughFor
      <3>n. n \in Nat
        BY <1>8, <3>2
      <3> HIDE DEF n
      <3>4. Level(b, now) < Token /\ Level(b, now) \in Nat
        BY <1>2, <1>a, <1>10, <2>2, RefilledLevel, CapacityType
      <3>5. n >= PerMin
        <4>1. Token * n > Capacity - Token
          BY <3>3, <3>4, CapacityType, TokenTimes, <3>n
        <4>2. n < PerMin => Token * n <= Token * (PerMin - 1)
          BY <3>n, CapacityType, Monotone
        <4>3. Token * (PerMin - 1) = Capacity - Token
          BY DEF Capacity, Token
        <4>4. Token * n \in Nat /\ Token * (PerMin - 1) \in Int
          BY <3>n, TokenTimes, CapacityType
        <4> QED
          BY <3>n, <4>1, <4>2, <4>3, <4>4
      <3>6. now' - Minute = t /\ passed' = passed
        BY <1>3, <2>2 DEF t
      <3>7. {q \in passed' : q.ip = answer'.who /\ q.at > now' - Minute} = Since(k, t)
        BY <3>1, <3>6 DEF Since
      <3> QED
        BY <3>1, <3>5, <3>7 DEF LimitedAnswer, Since, n
    <2> QED
      BY <2>1, <2>2
  <1> QED
    BY <1>7, <1>9, <1>14, <1>15 DEF RateInv

LEMMA LaterBuckets ==
    ASSUME NEW t \in Nat, NEW bs \in Seq(Buckets(t))
    PROVE  bs \in Seq(Buckets(t + 1)) /\ \A i \in DOMAIN bs : bs[i] \in Buckets(t)
  <1> DEFINE Times == 0 .. t
             LaterTimes == 0 .. t + 1
  <1>1. Times \subseteq LaterTimes
    OBVIOUS
  <1>2. Buckets(t) = [key : Ip, tokens : 0 .. Capacity, refilled : Times]
        /\ Buckets(t + 1) = [key : Ip, tokens : 0 .. Capacity, refilled : LaterTimes]
    BY DEF Buckets
  <1> HIDE DEF Times, LaterTimes
  <1>3. Buckets(t) \subseteq Buckets(t + 1)
    <2> SUFFICES ASSUME NEW b \in [key : Ip, tokens : 0 .. Capacity, refilled : Times]
                 PROVE  b \in [key : Ip, tokens : 0 .. Capacity, refilled : LaterTimes]
      BY <1>2
    <2> QED
      BY <1>1
  <1> QED
    BY <1>3

LEMMA OneMore ==
    ASSUME NEW a \in Int
    PROVE  a * PerMin \in Int /\ (a + 1) * PerMin = a * PerMin + PerMin
  OBVIOUS

LEMMA RateTick ==
    ASSUME RateInv, Tick
    PROVE  RateInv'
  <1>1. RateTyped /\ Levels /\ NoBucket
    BY DEF RateInv
  <1>2. /\ now \in Nat /\ requests \in Nat /\ IsFiniteSet(passed) /\ dropped \in [Ip -> Int]
        /\ buckets \in Seq(Buckets(now)) /\ UniqueKeys(buckets)
        /\ passed \subseteq [ip : Ip, at : 0 .. now, n : 1 .. requests]
    BY <1>1 DEF RateTyped
  <1>3. /\ now' = now + 1 /\ buckets' = buckets /\ dropped' = dropped /\ requests' = requests
        /\ passed' = {q \in passed : now' - q.at < Minute}
        /\ answer' = NoAnswer
    BY DEF Tick, service
  <1>4. RateTyped'
    <2>1. passed' \subseteq passed /\ IsFiniteSet(passed')
      BY <1>2, <1>3, FS_Subset
    <2>2. buckets' \in Seq(Buckets(now'))
      BY <1>2, <1>3, LaterBuckets
    <2>3. passed' \subseteq [ip : Ip, at : 0 .. now', n : 1 .. requests']
      <3> SUFFICES ASSUME NEW q \in passed PROVE q \in [ip : Ip, at : 0 .. now + 1, n : 1 .. requests]
        BY <1>3, <2>1
      <3> DEFINE Times == 0 .. now
                 LaterTimes == 0 .. now + 1
      <3>1. Times \subseteq LaterTimes /\ q \in [ip : Ip, at : Times, n : 1 .. requests]
        BY <1>2
      <3> HIDE DEF Times, LaterTimes
      <3>2. q \in [ip : Ip, at : LaterTimes, n : 1 .. requests]
        BY <3>1
      <3> QED
        BY <3>2 DEF LaterTimes
    <2> QED
      BY <1>2, <1>3, <2>1, <2>2, <2>3 DEF RateTyped
  <1>5. NoBucket'
    BY <1>1, <1>3 DEF NoBucket
  <1>6. ASSUME NEW b \in Held'
        PROVE  EnoughFor(b)' /\ BoundedFor(b)'
    <2>1. b \in Held /\ b \in Buckets(now)
      BY <1>2, <1>3, <1>6, LaterBuckets DEF Held
    <2>2. EnoughFor(b) /\ BoundedFor(b) /\ b.key \in Ip
      BY <1>1, <2>1 DEF Levels, Buckets
    <2> DEFINE k == b.key
    <2>3. ASSUME NEW t \in Int, t >= now' - Minute
          PROVE  Level(b, t + Minute) + Token * Cardinality(Since(k, t)') >= Capacity
      <3>1. Since(k, t)' = Since(k, t)
        <4>1. ASSUME NEW q \in passed, q.at > t
              PROVE  now' - q.at < Minute
          <5>1. q.at \in Int /\ now' \in Int /\ Minute \in Int
            BY <1>2, <1>3, RateLimiterAssumption
          <5> QED
            BY <2>3, <4>1, <5>1, LaterIsNearer
        <4> QED
          BY <1>3, <4>1 DEF Since
      <3>2. t >= now - Minute
        BY <1>2, <1>3, <2>3
      <3> QED
        BY <2>2, <3>1, <3>2 DEF EnoughFor
    <2>4. ASSUME NEW t \in Int, t < now', dropped'[k] <= t
          PROVE  Token * Cardinality(Since(k, t)') + Level(b, now')
                    <= Capacity + (now' - t - 1) * PerMin
      <3> DEFINE n == Cardinality(Since(k, t))
                 m == Cardinality(Since(k, t)')
                 x == Level(b, now)
                 y == Level(b, now')
                 z == (now - t - 1) * PerMin
                 z1 == (now' - t - 1) * PerMin
      <3>1. Since(k, t)' \subseteq Since(k, t)
        BY <1>3 DEF Since
      <3>2. n \in Nat /\ m \in Nat /\ m <= n
        <4>1. IsFiniteSet(Since(k, t)) /\ n \in Nat
          BY <1>2, SinceCount
        <4> QED
          BY <3>1, <4>1, FS_Subset, FS_CardinalityType
      <3>3. x \in 0 .. Capacity /\ y \in 0 .. Capacity /\ y <= x + PerMin
        <4>1. Level(b, now + 1) \in 0 .. Capacity /\ x \in 0 .. Capacity
          BY <1>2, <2>1, LevelLater, RefilledLevel
        <4>2. Level(b, now + 1) = IF x + 1 * PerMin > Capacity THEN Capacity ELSE x + 1 * PerMin
          BY <1>2, <2>1, LevelLater
        <4> QED
          BY <1>3, <4>1, <4>2, CapacityType
      <3>4. z \in Int /\ z1 = z + PerMin
        <4>1. now - t - 1 \in Int /\ now' - t - 1 = (now - t - 1) + 1
          BY <1>2, <1>3
        <4> QED
          BY <4>1, OneMore
      <3>5. Token * m \in Nat /\ Token * n \in Nat /\ Token * m <= Token * n
        BY <3>2, TokenTimes, Monotone, CapacityType
      <3>6. CASE t < now
        <4>1. Token * n + x <= Capacity + z
          BY <1>3, <2>2, <2>4, <3>6 DEF BoundedFor
        <4> HIDE DEF n, m, x, y, z, z1
        <4>2. Token * m + y <= Capacity + z1
          BY <3>3, <3>4, <3>5, <4>1, CapacityType
        <4> QED
          BY <4>2 DEF m, y, z1
      <3>7. CASE t = now
        <4>1. Since(k, t) = {}
          BY <1>2, <3>7 DEF Since
        <4>2. n = 0 /\ m = 0
          BY <3>2, <4>1, FS_EmptySet
        <4>3. Token * m = 0
          BY <4>2, CapacityType
        <4>4. z1 = 0
          BY <1>2, <1>3, <3>7
        <4> HIDE DEF n, m, x, y, z, z1
        <4>5. Token * m + y <= Capacity + z1
          BY <3>3, <4>3, <4>4, CapacityType
        <4> QED
          BY <4>5 DEF m, y, z1
      <3> QED
        BY <1>2, <1>3, <2>4, <3>6, <3>7
    <2> QED
      BY <2>3, <2>4 DEF EnoughFor, BoundedFor
  <1>7. Levels'
    BY <1>6 DEF Levels
  <1>8. LimitedAnswer'
    BY <1>3 DEF LimitedAnswer, NoAnswer
  <1> QED
    BY <1>4, <1>5, <1>7, <1>8 DEF RateInv

LEMMA RateNext == RateInv /\ [Next]_vars => RateInv'
  <1> SUFFICES ASSUME RateInv, [Next]_vars PROVE RateInv'
    OBVIOUS
  <1>1. ASSUME UNCHANGED <<now, buckets, passed, dropped, requests>>,
               answer'.kind = "limited" => answer' = answer
        PROVE  RateInv'
    <2>1. RateTyped'
      BY <1>1 DEF RateInv, RateTyped
    <2>2. \A b, ip, t : /\ Since(ip, t)' = Since(ip, t) /\ EnoughFor(b)' = EnoughFor(b)
                       /\ BoundedFor(b)' = BoundedFor(b)
      BY <1>1 DEF EnoughFor, BoundedFor, Since
    <2>3. Levels'
      BY <1>1, <2>2 DEF RateInv, Levels, Held
    <2>4. NoBucket'
      BY <1>1 DEF RateInv, NoBucket
    <2>5. LimitedAnswer'
      BY <1>1, <2>2 DEF RateInv, LimitedAnswer
    <2> QED
      BY <2>1, <2>3, <2>4, <2>5 DEF RateInv
  <1>2. ASSUME NEW s \in Slot, NEW u \in User, NEW p \in Password \cup {NoPassword},
               NEW ip \in Ip, Arrive(s, u, p, ip)
        PROVE  RateInv'
    BY <1>2, RateArrive
  <1>3. ASSUME NEW s \in Slot, Bind(s) \/ TakeIn(s) \/ Record(s)
        PROVE  RateInv'
    BY <1>1, <1>3 DEF Bind, TakeIn, Record, Ends, Answers, NoAnswer, service, history
  <1>4. ASSUME NEW u \in User, NEW p \in Password, ChangePassword(u, p)
        PROVE  RateInv'
    BY <1>1, <1>4 DEF ChangePassword, NoAnswer, service
  <1>5. CASE Tick
    BY <1>5, RateTick
  <1>6. CASE UNCHANGED vars
    BY <1>1, <1>6 DEF vars, service, history
  <1> QED
    BY <1>2, <1>3, <1>4, <1>5, <1>6 DEF Next

LEMMA RateImplied == RateInv => RateHolds
  <1> SUFFICES ASSUME RateInv PROVE RateHolds
    OBVIOUS
  <1> DEFINE t == now - Minute
  <1>1. RateTyped /\ Levels /\ NoBucket /\ LimitedAnswer
    BY DEF RateInv
  <1>2. /\ now \in Nat /\ IsFiniteSet(passed) /\ dropped \in [Ip -> Int] /\ t \in Int
        /\ buckets \in Seq(Buckets(now))
        /\ passed \subseteq [ip : Ip, at : 0 .. now, n : 1 .. requests]
    BY <1>1 DEF RateTyped
  <1>3. \A ip : LastMinute(ip) = Cardinality(Since(ip, t))
    <2>1. \A q \in passed : now - q.at < Minute <=> q.at > t
      BY <1>2
    <2> QED
      BY <2>1 DEF LastMinute, Since
  <1>4. answer.kind = "limited" => LastMinute(answer.who) >= PerMin
    BY <1>1, <1>3 DEF LimitedAnswer
  <1>5. ASSUME NEW ip \in Ip, now - dropped[ip] >= Minute
        PROVE  LastMinute(ip) < 2 * PerMin
    <2> DEFINE n == Cardinality(Since(ip, t))
    <2>1. n \in Nat
      BY <1>2, SinceCount
    <2>2. dropped[ip] <= t /\ t < now
      BY <1>2, <1>5
    <2>3. CASE Has(buckets, ip)
      <3>1. PICK b \in Held : b.key = ip
        BY <2>3 DEF Has, Held
      <3>2. Token * n + Level(b, now) <= Capacity + (now - t - 1) * PerMin
        BY <1>1, <1>2, <2>2, <3>1 DEF Levels, BoundedFor
      <3>3. Level(b, now) \in Nat
        <4>1. b \in Buckets(now)
          BY <1>2, LaterBuckets DEF Held
        <4> QED
          BY <1>2, <4>1, RefilledLevel, CapacityType
      <3>4. (now - t - 1) * PerMin = Capacity - PerMin
        <4>1. now - t - 1 = Minute - 1
          BY <1>2
        <4> QED
          BY <4>1 DEF Capacity, Token
      <3> HIDE DEF n, t
      <3>5. n >= 2 * PerMin => Token * n >= Capacity + Capacity
        <4>1. n >= 2 * PerMin => Token * n >= Token * (2 * PerMin)
          BY <2>1, CapacityType, Monotone
        <4>2. Token * (2 * PerMin) = Capacity + Capacity
          BY DEF Capacity, Token
        <4> QED
          BY <4>1, <4>2
      <3>6. Token * n \in Nat
        BY <2>1, TokenTimes
      <3>7. n < 2 * PerMin
        BY <2>1, <3>2, <3>3, <3>4, <3>5, <3>6, CapacityType
      <3> QED
        BY <1>3, <3>7 DEF n
    <2>4. CASE ~Has(buckets, ip)
      <3>1. Since(ip, t) = {}
        BY <1>1, <1>2, <2>2, <2>4 DEF NoBucket, Since
      <3> QED
        BY <1>3, <3>1, FS_EmptySet
    <2> QED
      BY <2>3, <2>4
  <1> QED
    BY <1>4, <1>5 DEF RateHolds

\* An address is refused only after its own PerMin requests of the last minute, and less than
\* two minutes' worth pass within a minute unless its bucket was dropped (TokenBucket.check).
THEOREM RateIsHeld == Spec => []RateHolds
  <1>1. Spec => []RateInv
    BY RateInit, RateNext, PTL DEF Spec
  <1> QED
    BY <1>1, RateImplied, PTL

-----------------------------------------------------------------------------
(***************************************************************************)
(* The verdicts.  Whatever is cached was right at most a bind before it    *)
(* was cached, and a bind that Dovecot accepted was right since it began;  *)
(* that stays so when a password is changed, for what was right until now  *)
(* was right at any earlier instant.                                       *)
(***************************************************************************)
RightSince(u, p, t) == dovecot[u] = p \/ left[u][p] >= t

Verdict(e) ==
    /\ e \in [user : User, password : Password, at : 0 .. now, used : {e.used}]
    /\ RightSince(e.user, e.password, e.at - BindTime)

UnderWay(r) ==
    /\ r \in [pc : {"binding", "right", "wrong"}, user : User, password : Password,
              since : 0 .. now, n : Nat]
    /\ now - r.since <= BindTime
    /\ r.pc = "right" => RightSince(r.user, r.password, r.since)

Verdicts ==
    /\ dovecot \in [User -> Password] /\ left \in [User -> [Password -> Int]]
    /\ \A e \in cache : Verdict(e)
    /\ \A s \in Slot : request[s] = Idle \/ UnderWay(request[s])

(***************************************************************************)
(* The lockout.  The failures that a user is held to are failures of that  *)
(* user, and the lock still on is a window from the last of Threshold.     *)
(***************************************************************************)
Earned(u) ==
    \E t \in 0 .. now :
        /\ brute[u].lockedUntil = t + Window
        /\ Cardinality(Unredeemed(u, t - Window, t)) >= Threshold

Lockouts ==
    \A u \in User :
        /\ IsFiniteSet(failed[u]) /\ brute[u].lockedUntil \in Nat
        /\ \A f \in failed[u] \cup brute[u].failures : f.at \in 0 .. now
        /\ \A f \in brute[u].failures : now - f.at <= 2 * Window => f \in failed[u]
        /\ Locked(u) => Earned(u)

VerdictInv ==
    /\ now \in Nat /\ requests \in Nat
    /\ DOMAIN request = Slot /\ DOMAIN brute = User /\ DOMAIN failed = User
    /\ Verdicts /\ Lockouts /\ VerdictsAreRight

LEMMA VerdictInit == Init => VerdictInv
  <1> SUFFICES ASSUME Init PROVE VerdictInv
    OBVIOUS
  <1>1. /\ now = 0 /\ requests = 0 /\ cache = {} /\ answer = NoAnswer
        /\ request = [s \in Slot |-> Idle] /\ brute = [u \in User |-> NoBrute]
        /\ failed = [u \in User |-> {}] /\ dovecot \in [User -> Password]
        /\ left = [u \in User |-> [p \in Password |-> Never]]
    BY DEF Init
  <1>2. Never \in Int
    BY DEF Never
  <1>3. Verdicts
    BY <1>1, <1>2 DEF Verdicts
  <1>4. Lockouts
    <2> SUFFICES ASSUME NEW u \in User
                 PROVE  /\ IsFiniteSet(failed[u]) /\ brute[u].lockedUntil \in Nat
                        /\ failed[u] \cup brute[u].failures = {}
                        /\ ~Locked(u)
      BY DEF Lockouts
    <2>1. failed[u] = {} /\ brute[u].failures = {} /\ brute[u].lockedUntil = 0
      BY <1>1 DEF NoBrute
    <2> QED
      BY <1>1, <2>1, FS_EmptySet DEF Locked
  <1>5. VerdictsAreRight
    BY <1>1 DEF VerdictsAreRight, NoAnswer
  <1> QED
    BY <1>1, <1>3, <1>4, <1>5 DEF VerdictInv

\* What was right since t was right a while ago at most.
LEMMA RightAWhileAgo ==
    ASSUME Verdicts, now \in Nat, NEW u \in User, NEW p \in Password, NEW t \in Int, NEW d \in Nat,
           RightSince(u, p, t), now - t <= d
    PROVE  now - LastRight(u, p) <= d
  <1>1. left[u][p] \in Int
    BY DEF Verdicts
  <1>2. CASE dovecot[u] = p
    BY <1>2 DEF LastRight
  <1>3. CASE dovecot[u] # p
    <2>1. left[u][p] >= t /\ LastRight(u, p) = left[u][p]
      BY <1>3 DEF RightSince, LastRight
    <2> QED
      BY <1>1, <2>1
  <1> QED
    BY <1>2, <1>3

\* A hit changes the order only.
LEMMA Touched ==
    ASSUME NEW e, Verdict(e), NEW x
    PROVE  Verdict([e EXCEPT !.used = x])
  <1> DEFINE f == [e EXCEPT !.used = x]
             Uses == {e.used, x}
             Times == 0 .. now
  <1>1. e \in [user : User, password : Password, at : Times, used : Uses] /\ x \in Uses
    BY DEF Verdict
  <1> HIDE DEF Uses, Times
  <1>2. f \in [user : User, password : Password, at : Times, used : Uses]
    BY <1>1
  <1>3. f.user = e.user /\ f.password = e.password /\ f.at = e.at /\ f.used = x
    BY <1>1
  <1> HIDE DEF f
  <1>4. f \in [user : User, password : Password, at : Times, used : {f.used}]
    BY <1>2
  <1> QED
    BY <1>3, <1>4 DEF Verdict, f, Times

\* While no password changes and no time passes, it is enough to look at what is new.
LEMMA SameInstant ==
    ASSUME VerdictInv, UNCHANGED <<now, dovecot, left>>,
           \A e \in cache' : e \in cache \/ Verdict(e),
           DOMAIN request' = Slot,
           \A s \in Slot : request'[s] \in {request[s], Idle} \/ UnderWay(request'[s])
    PROVE  Verdicts'
  <1>1. \A e : Verdict(e)' <=> Verdict(e)
    BY DEF Verdict, RightSince
  <1>2. \A r : UnderWay(r)' <=> UnderWay(r)
    BY DEF UnderWay, RightSince
  <1>3. Verdicts
    BY DEF VerdictInv
  <1>4. \A s \in Slot : request'[s] = Idle \/ UnderWay(request'[s])
    BY <1>3 DEF Verdicts
  <1>5. \A e \in cache' : Verdict(e)
    BY <1>3 DEF Verdicts
  <1>6. dovecot' \in [User -> Password] /\ left' \in [User -> [Password -> Int]]
    BY <1>3 DEF Verdicts
  <1> QED
    BY <1>1, <1>2, <1>4, <1>5, <1>6 DEF Verdicts

LEMMA SameLockouts ==
    ASSUME Lockouts, UNCHANGED <<now, brute, failed>>
    PROVE  Lockouts'
  <1>1. \A u : (Earned(u)' <=> Earned(u)) /\ (Locked(u)' <=> Locked(u))
    BY DEF Earned, Unredeemed, Locked
  <1> QED
    BY <1>1 DEF Lockouts

LEMMA VerdictArrive ==
    ASSUME VerdictInv, NEW s \in Slot, NEW u \in User, NEW p \in Password \cup {NoPassword},
           NEW ip \in Ip, Arrive(s, u, p, ip)
    PROVE  VerdictInv'
  <1>1. /\ now' = now /\ dovecot' = dovecot /\ left' = left /\ brute' = brute /\ failed' = failed
        /\ requests' = requests + 1
    BY DEF Arrive
  <1>2. now \in Nat /\ requests \in Nat /\ DOMAIN request = Slot /\ Verdicts /\ Lockouts
    BY DEF VerdictInv
  <1>3. \/ Admit(s, u, p)
        \/ Answers("limited", ip, NoPassword) /\ UNCHANGED <<cache, request>>
    BY DEF Arrive
  <1>4. \A e \in cache : Verdict(e)
    BY <1>2 DEF Verdicts
  <1>5. ASSUME UNCHANGED request, \A e \in cache' : e \in cache \/ Verdict(e)
        PROVE  Verdicts'
    BY <1>1, <1>2, <1>5, SameInstant
  <1>6. Lockouts'
    BY <1>1, <1>2, SameLockouts
  <1>7. ASSUME VerdictsAreRight', Verdicts', DOMAIN request' = Slot
        PROVE  VerdictInv'
    BY <1>1, <1>2, <1>6, <1>7 DEF VerdictInv
  <1>8. CASE answer' = NoAnswer /\ UNCHANGED <<cache, request>>
    <2>1. VerdictsAreRight'
      BY <1>8 DEF VerdictsAreRight, NoAnswer
    <2> QED
      BY <1>2, <1>5, <1>7, <1>8, <2>1
  <1>9. CASE Answers("limited", ip, NoPassword) /\ UNCHANGED <<cache, request>>
    <2>1. VerdictsAreRight'
      BY <1>9 DEF VerdictsAreRight, Answers
    <2> QED
      BY <1>2, <1>5, <1>7, <1>9, <2>1
  <1>10. CASE Locked(u) /\ Answers("locked", u, p) /\ UNCHANGED <<cache, request>>
    <2>1. PICK t \in 0 .. now :
              /\ brute[u].lockedUntil = t + Window
              /\ Cardinality(Unredeemed(u, t - Window, t)) >= Threshold
      BY <1>2, <1>10 DEF Lockouts, Earned
    <2>2. now - t < Window
      BY <1>2, <1>10, <2>1 DEF Locked
    <2>3. \A from, to : Unredeemed(u, from, to)' = Unredeemed(u, from, to)
      BY <1>1 DEF Unredeemed
    <2>4. answer'.kind = "locked" /\ answer'.who = u
      BY <1>10 DEF Answers
    <2>5. VerdictsAreRight'
      BY <1>1, <2>1, <2>2, <2>3, <2>4 DEF VerdictsAreRight, Unredeemed
    <2> QED
      BY <1>2, <1>5, <1>7, <1>10, <2>5
  <1>11. CASE /\ p # NoPassword /\ Fresh(u, p) /\ Answers("accepted", u, p)
              /\ cache' = Others(u, p) \cup Entries(u, p) /\ UNCHANGED request
    <2>1. PICK e \in cache : IsKey(e, u, p) /\ now - e.at <= CacheTtl
      BY <1>11 DEF Fresh
    <2>2. p \in Password /\ e.at \in Int /\ RightSince(u, p, e.at - BindTime)
      BY <1>4, <1>11, <2>1 DEF Verdict, IsKey
    <2>3. now - (e.at - BindTime) <= CacheTtl + BindTime
      BY <1>2, <2>1, <2>2
    <2>4. now - LastRight(u, p) <= CacheTtl + BindTime
      <3>1. e.at - BindTime \in Int /\ CacheTtl + BindTime \in Nat
        BY <2>2
      <3> QED
        BY <1>2, <2>2, <2>3, <3>1, RightAWhileAgo
    <2>5. VerdictsAreRight'
      BY <1>1, <1>11, <2>4 DEF VerdictsAreRight, Answers, LastRight
    <2>6. \A f \in cache' : f \in cache \/ Verdict(f)
      <3> SUFFICES ASSUME NEW f \in Entries(u, p) PROVE Verdict(f)
        BY <1>11 DEF Others
      <3> DEFINE x == Newest(Others(u, p)) + 1
      <3>1. PICK g \in cache : f = [g EXCEPT !.used = x]
        BY DEF Entries
      <3> HIDE DEF x
      <3>2. Verdict(g)
        BY <1>4
      <3>3. Verdict([g EXCEPT !.used = x])
        BY <3>2, Touched
      <3> QED
        BY <3>1, <3>3
    <2> QED
      BY <1>2, <1>5, <1>7, <1>11, <2>5, <2>6
  <1>12. CASE /\ p # NoPassword /\ cache' = Others(u, p) /\ answer' = NoAnswer
              /\ request' = [request EXCEPT ![s] = [pc |-> "binding", user |-> u, password |-> p,
                                                   since |-> now, n |-> requests']]
    <2>1. VerdictsAreRight'
      BY <1>12 DEF VerdictsAreRight, NoAnswer
    <2> DEFINE r == [pc |-> "binding", user |-> u, password |-> p, since |-> now, n |-> requests']
    <2>2. UnderWay(r)
      BY <1>1, <1>2, <1>12 DEF UnderWay
    <2> HIDE DEF r
    <2>3. request' = [request EXCEPT ![s] = r]
      BY <1>12 DEF r
    <2>4. /\ DOMAIN request' = Slot
          /\ \A q \in Slot : request'[q] \in {request[q], Idle} \/ UnderWay(request'[q])
      BY <1>2, <2>2, <2>3
    <2>5. \A e \in cache' : e \in cache
      BY <1>12 DEF Others
    <2>6. Verdicts'
      BY <1>1, <2>4, <2>5, SameInstant
    <2> QED
      BY <1>7, <2>1, <2>4, <2>6
  <1> QED
    BY <1>3, <1>8, <1>9, <1>10, <1>11, <1>12 DEF Admit

LEMMA VerdictBind ==
    ASSUME VerdictInv, NEW s \in Slot, Bind(s)
    PROVE  VerdictInv'
  <1> DEFINE r == request[s]
  <1>1. /\ UNCHANGED <<now, dovecot, left, brute, failed, cache, requests>> /\ answer' = NoAnswer
        /\ r.pc = "binding"
    BY DEF Bind, service, history
  <1>2. /\ now \in Nat /\ requests \in Nat /\ DOMAIN request = Slot /\ Verdicts /\ Lockouts
        /\ DOMAIN brute = User /\ DOMAIN failed = User
    BY DEF VerdictInv
  <1>3. UnderWay(r)
    BY <1>1, <1>2 DEF Verdicts, Idle
  <1>4. PICK pc \in {"right", "wrong"} :
            /\ request' = [request EXCEPT ![s].pc = pc]
            /\ pc = "right" => dovecot[r.user] = r.password
    BY DEF Bind
  <1> DEFINE q == [r EXCEPT !.pc = pc]
             Steps == {"binding", "right", "wrong"}
             Times == 0 .. now
  <1>5. UnderWay(q)
    <2>1. r \in [pc : Steps, user : User, password : Password, since : Times, n : Nat] /\ pc \in Steps
      BY <1>3 DEF UnderWay
    <2> HIDE DEF r, Steps, Times
    <2>2. q \in [pc : Steps, user : User, password : Password, since : Times, n : Nat]
      BY <2>1
    <2>3. q.user = r.user /\ q.password = r.password /\ q.since = r.since /\ q.pc = pc
      BY <2>1
    <2> HIDE DEF q
    <2> QED
      BY <1>3, <1>4, <2>2, <2>3 DEF UnderWay, RightSince, Steps, Times
  <1>6. request' = [request EXCEPT ![s] = q]
    BY <1>4
  <1> HIDE DEF q
  <1>7. /\ DOMAIN request' = Slot
        /\ \A i \in Slot : request'[i] \in {request[i], Idle} \/ UnderWay(request'[i])
    BY <1>2, <1>5, <1>6
  <1>8. Verdicts'
    BY <1>1, <1>7, SameInstant
  <1>9. Lockouts'
    BY <1>1, <1>2, SameLockouts
  <1>10. VerdictsAreRight'
    BY <1>1 DEF VerdictsAreRight, NoAnswer
  <1> QED
    BY <1>1, <1>2, <1>7, <1>8, <1>9, <1>10 DEF VerdictInv

LEMMA VerdictEnds ==
    ASSUME VerdictInv, NEW s \in Slot, Ends(s)
    PROVE  /\ UNCHANGED <<now, dovecot, left, requests>> /\ DOMAIN request' = Slot
           /\ \A q \in Slot : request'[q] \in {request[q], Idle} \/ UnderWay(request'[q])
  BY DEF Ends, VerdictInv

LEMMA VerdictTakeIn ==
    ASSUME VerdictInv, NEW s \in Slot, TakeIn(s)
    PROVE  VerdictInv'
  <1> DEFINE u == request[s].user
             p == request[s].password
             t == request[s].since
  <1>1. /\ now \in Nat /\ requests \in Nat /\ DOMAIN request = Slot /\ Verdicts /\ Lockouts
        /\ DOMAIN brute = User /\ DOMAIN failed = User
    BY DEF VerdictInv
  <1>2. /\ request[s].pc = "right" /\ cache' = Put(u, p) /\ Ends(s)
        /\ brute' = [brute EXCEPT ![u] = NoBrute] /\ failed' = [failed EXCEPT ![u] = {}]
        /\ Answers("accepted", u, p)
    BY DEF TakeIn
  <1>3. UnderWay(request[s])
    BY <1>1, <1>2 DEF Verdicts, Idle
  <1>4. u \in User /\ p \in Password /\ t \in 0 .. now /\ now - t <= BindTime /\ RightSince(u, p, t)
    BY <1>2, <1>3 DEF UnderWay
  <1>5. /\ UNCHANGED <<now, dovecot, left, requests>> /\ DOMAIN request' = Slot
        /\ \A q \in Slot : request'[q] \in {request[q], Idle} \/ UnderWay(request'[q])
    BY <1>2, VerdictEnds
  <1> HIDE DEF u, p, t
  <1>6. \A e \in cache' : e \in cache \/ Verdict(e)
    <2> DEFINE rest == {e \in cache : e.user # u}
               stamp == Newest(rest) + 1
               new == [user |-> u, password |-> p, at |-> now, used |-> stamp]
    <2> HIDE DEF stamp
    <2>1. new.user = u /\ new.password = p /\ new.at = now /\ new.used = stamp
      OBVIOUS
    <2>2. new \in [user : User, password : Password, at : 0 .. now, used : {new.used}]
      BY <1>1, <1>4
    <2>3. RightSince(u, p, now - BindTime)
      <3>1. left[u][p] \in Int
        BY <1>1, <1>4 DEF Verdicts
      <3> QED
        BY <1>1, <1>4, <3>1 DEF RightSince
    <2>4. Verdict(new)
      BY <2>1, <2>2, <2>3 DEF Verdict
    <2>5. Put(u, p) \subseteq rest \cup {new}
      BY DEF Put, stamp
    <2> HIDE DEF new
    <2> QED
      BY <1>2, <2>4, <2>5
  <1>7. Verdicts'
    BY <1>5, <1>6, SameInstant
  <1>8. Lockouts'
    <2> SUFFICES ASSUME NEW v \in User
                 PROVE  /\ IsFiniteSet(failed'[v]) /\ brute'[v].lockedUntil \in Nat
                        /\ \A f \in failed'[v] \cup brute'[v].failures : f.at \in 0 .. now
                        /\ \A f \in brute'[v].failures : now - f.at <= 2 * Window => f \in failed'[v]
                        /\ Locked(v)' => Earned(v)'
      BY <1>5 DEF Lockouts
    <2>1. CASE v = u
      <3>1. failed'[v] = {} /\ brute'[v].failures = {} /\ brute'[v].lockedUntil = 0
        BY <1>1, <1>2, <1>4, <2>1 DEF NoBrute
      <3> QED
        BY <1>1, <1>5, <3>1, FS_EmptySet DEF Locked
    <2>2. CASE v # u
      <3>1. failed'[v] = failed[v] /\ brute'[v] = brute[v]
        BY <1>1, <1>2, <2>2
      <3>2. (Earned(v)' <=> Earned(v)) /\ (Locked(v)' <=> Locked(v))
        BY <1>5, <3>1 DEF Earned, Unredeemed, Locked
      <3> QED
        BY <1>1, <3>1, <3>2 DEF Lockouts
    <2> QED
      BY <2>1, <2>2
  <1>9. VerdictsAreRight'
    <2>1. now - LastRight(u, p) <= CacheTtl + BindTime
      <3>1. t \in Int /\ CacheTtl + BindTime \in Nat /\ now - t <= CacheTtl + BindTime
        BY <1>1, <1>4
      <3> QED
        BY <1>1, <1>4, <3>1, RightAWhileAgo
    <2> QED
      BY <1>2, <1>5, <2>1 DEF VerdictsAreRight, Answers, LastRight
  <1>10. DOMAIN brute' = User /\ DOMAIN failed' = User
    BY <1>1, <1>2
  <1> QED
    BY <1>1, <1>5, <1>7, <1>8, <1>9, <1>10 DEF VerdictInv

LEMMA VerdictRecord ==
    ASSUME VerdictInv, NEW s \in Slot, Record(s)
    PROVE  VerdictInv'
  <1>1. /\ now \in Nat /\ requests \in Nat /\ DOMAIN request = Slot /\ Verdicts /\ Lockouts
        /\ DOMAIN brute = User /\ DOMAIN failed = User
    BY DEF VerdictInv
  <1>3. PICK u \in User : u = request[s].user
    BY <1>1 DEF Record, Verdicts, Idle, UnderWay
  <1> DEFINE failure == [at |-> now, n |-> request[s].n]
             recent == {f \in brute[u].failures \cup {failure} : now - f.at <= Window}
             until == IF Cardinality(recent) >= Threshold THEN now + Window
                      ELSE brute[u].lockedUntil
  <1>2. /\ request[s].pc = "wrong" /\ Ends(s) /\ UNCHANGED cache /\ answer' = NoAnswer
        /\ brute' = [brute EXCEPT ![u] = [failures |-> recent, lockedUntil |-> until]]
        /\ failed' = [failed EXCEPT ![u] = @ \cup {failure}]
    BY <1>3 DEF Record, Recorded, Failure
  <1>4. /\ UNCHANGED <<now, dovecot, left, requests>> /\ DOMAIN request' = Slot
        /\ \A q \in Slot : request'[q] \in {request[q], Idle} \/ UnderWay(request'[q])
    BY <1>2, VerdictEnds
  <1>5. Verdicts'
    BY <1>2, <1>4, SameInstant
  <1>6. VerdictsAreRight'
    BY <1>2 DEF VerdictsAreRight, NoAnswer
  <1>7. failure.at = now
    OBVIOUS
  <1>8. /\ IsFiniteSet(failed[u]) /\ brute[u].lockedUntil \in Nat
        /\ \A f \in failed[u] \cup brute[u].failures : f.at \in 0 .. now
        /\ \A f \in brute[u].failures : now - f.at <= 2 * Window => f \in failed[u]
        /\ Locked(u) => Earned(u)
    BY <1>1, <1>3 DEF Lockouts
  <1> HIDE DEF failure
  <1>9. /\ failed'[u] = failed[u] \cup {failure} /\ brute'[u].failures = recent
        /\ brute'[u].lockedUntil = until
    BY <1>1, <1>2, <1>3
  <1>10. recent \subseteq failed[u] \cup {failure} /\ \A f \in recent : f.at \in now - Window .. now
    BY <1>1, <1>7, <1>8
  <1>11. IsFiniteSet(failed'[u]) /\ failed[u] \subseteq failed'[u]
    BY <1>8, <1>9, FS_AddElement
  <1>12. until \in Nat
    BY <1>1, <1>8
  <1>13. ASSUME NEW from \in Int, NEW to \in Int, NEW T, T \subseteq failed'[u],
                \A f \in T : f.at \in from .. to, Cardinality(T) >= Threshold
         PROVE  Cardinality({f \in failed'[u] : f.at \in from .. to}) >= Threshold
    <2> DEFINE S == {f \in failed'[u] : f.at \in from .. to}
    <2>1. T \subseteq S /\ S \subseteq failed'[u]
      BY <1>13
    <2>2. IsFiniteSet(S) /\ IsFiniteSet(T)
      BY <1>11, <2>1, FS_Subset
    <2> HIDE DEF S
    <2>3. Cardinality(T) <= Cardinality(S) /\ Cardinality(S) \in Nat /\ Cardinality(T) \in Nat
      BY <2>1, <2>2, FS_Subset, FS_CardinalityType
    <2>4. Cardinality(S) >= Threshold
      BY <1>13, <2>3
    <2> QED
      BY <2>4 DEF S
  <1>14. Locked(u)' => Earned(u)'
    <2>1. CASE Cardinality(recent) >= Threshold
      <3>1. until = now + Window
        BY <2>1
      <3> HIDE DEF recent, until
      <3>2. PICK t \in 0 .. now : t = now
        BY <1>1
      <3> DEFINE from == t - Window
      <3>3. /\ recent \subseteq failed'[u] /\ (\A f \in recent : f.at \in from .. t)
            /\ from \in Int /\ t \in Int /\ Cardinality(recent) >= Threshold
        BY <1>1, <1>9, <1>10, <2>1, <3>2
      <3> HIDE DEF from
      <3>4. Cardinality({f \in failed'[u] : f.at \in from .. t}) >= Threshold
        BY <1>13, <3>3
      <3> QED
        BY <1>1, <1>4, <1>9, <3>1, <3>2, <3>4 DEF Earned, Unredeemed, from
    <2>2. CASE ~(Cardinality(recent) >= Threshold)
      <3>1. until = brute[u].lockedUntil
        BY <2>2
      <3> HIDE DEF recent, until
      <3>2. SUFFICES ASSUME Locked(u) PROVE Earned(u)'
        BY <1>4, <1>9, <3>1 DEF Locked
      <3>3. PICK t \in 0 .. now :
                /\ brute[u].lockedUntil = t + Window
                /\ Cardinality(Unredeemed(u, t - Window, t)) >= Threshold
        BY <1>8, <3>2 DEF Earned
      <3> DEFINE from == t - Window
                 T == Unredeemed(u, from, t)
      <3>4. /\ T \subseteq failed'[u] /\ (\A f \in T : f.at \in from .. t)
            /\ from \in Int /\ t \in Int /\ Cardinality(T) >= Threshold
        BY <1>1, <1>11, <3>3 DEF Unredeemed
      <3> HIDE DEF T, from
      <3>5. Cardinality({f \in failed'[u] : f.at \in from .. t}) >= Threshold
        BY <1>13, <3>4
      <3> QED
        BY <1>4, <1>9, <3>1, <3>3, <3>5 DEF Earned, Unredeemed, from
    <2> QED
      BY <2>1, <2>2
  <1>15. /\ \A f \in failed'[u] \cup brute'[u].failures : f.at \in 0 .. now
         /\ \A f \in brute'[u].failures : f \in failed'[u]
    BY <1>1, <1>7, <1>8, <1>9, <1>10
  <1> HIDE DEF recent, until
  <1>16. Lockouts'
    <2> SUFFICES ASSUME NEW v \in User
                 PROVE  /\ IsFiniteSet(failed'[v]) /\ brute'[v].lockedUntil \in Nat
                        /\ \A f \in failed'[v] \cup brute'[v].failures : f.at \in 0 .. now
                        /\ \A f \in brute'[v].failures : now - f.at <= 2 * Window => f \in failed'[v]
                        /\ Locked(v)' => Earned(v)'
      BY <1>4 DEF Lockouts
    <2>1. CASE v = u
      BY <1>9, <1>11, <1>12, <1>14, <1>15, <2>1
    <2>2. CASE v # u
      <3>1. failed'[v] = failed[v] /\ brute'[v] = brute[v]
        BY <1>1, <1>2, <2>2
      <3>2. (Earned(v)' <=> Earned(v)) /\ (Locked(v)' <=> Locked(v))
        BY <1>4, <3>1 DEF Earned, Unredeemed, Locked
      <3> QED
        BY <1>1, <3>1, <3>2 DEF Lockouts
    <2> QED
      BY <2>1, <2>2
  <1>17. DOMAIN brute' = User /\ DOMAIN failed' = User
    BY <1>1, <1>2
  <1> QED
    BY <1>1, <1>4, <1>5, <1>6, <1>16, <1>17 DEF VerdictInv

\* The password that is replaced was right until now.
LEMMA VerdictChangePassword ==
    ASSUME VerdictInv, NEW u \in User, NEW p \in Password, ChangePassword(u, p)
    PROVE  VerdictInv'
  <1> DEFINE old == dovecot[u]
  <1>1. /\ now \in Nat /\ requests \in Nat /\ DOMAIN request = Slot /\ Verdicts /\ Lockouts
        /\ DOMAIN brute = User /\ DOMAIN failed = User
    BY DEF VerdictInv
  <1>2. /\ UNCHANGED <<now, cache, brute, request, failed, requests>> /\ answer' = NoAnswer
        /\ dovecot' = [dovecot EXCEPT ![u] = p] /\ left' = [left EXCEPT ![u][old] = now]
    BY DEF ChangePassword, service
  <1>3. dovecot \in [User -> Password] /\ left \in [User -> [Password -> Int]] /\ old \in Password
    BY <1>1 DEF Verdicts
  <1>4. /\ dovecot' \in [User -> Password] /\ left' \in [User -> [Password -> Int]]
        /\ \A v \in User, q \in Password :
              left'[v][q] = IF v = u /\ q = old THEN now ELSE left[v][q]
    BY <1>1, <1>2, <1>3
  <1>5. ASSUME NEW v \in User, NEW q \in Password, NEW t \in Int, t <= now, RightSince(v, q, t)
        PROVE  RightSince(v, q, t)'
    <2>1. CASE dovecot[v] = q
      <3>1. CASE v = u
        <4>1. left'[v][q] = now
          BY <1>4, <2>1, <3>1
        <4> QED
          BY <1>5, <4>1 DEF RightSince
      <3>2. CASE v # u
        <4>1. dovecot'[v] = q
          BY <1>2, <1>3, <2>1, <3>2
        <4> QED
          BY <4>1 DEF RightSince
      <3> QED
        BY <3>1, <3>2
    <2>2. CASE dovecot[v] # q
      <3>1. left[v][q] >= t
        BY <1>5, <2>2 DEF RightSince
      <3>2. left'[v][q] = now \/ left'[v][q] = left[v][q]
        BY <1>4
      <3>3. left'[v][q] >= t
        BY <1>5, <3>1, <3>2
      <3> QED
        BY <3>3 DEF RightSince
    <2> QED
      BY <2>1, <2>2
  <1>6. \A e \in cache' : Verdict(e)'
    <2> SUFFICES ASSUME NEW e \in cache PROVE Verdict(e)'
      BY <1>2
    <2>1. Verdict(e)
      BY <1>1 DEF Verdicts
    <2>2. /\ e.user \in User /\ e.password \in Password /\ e.at - BindTime \in Int
          /\ e.at - BindTime <= now
      BY <1>1, <2>1 DEF Verdict
    <2>3. RightSince(e.user, e.password, e.at - BindTime)
      BY <2>1 DEF Verdict
    <2> DEFINE user == e.user
               password == e.password
               t == e.at - BindTime
    <2> HIDE DEF user, password, t
    <2>4. RightSince(user, password, t)'
      BY <1>5, <2>2, <2>3 DEF user, password, t
    <2> QED
      BY <1>2, <2>1, <2>4 DEF Verdict, user, password, t
  <1>7. \A s \in Slot : request'[s] = Idle \/ UnderWay(request[s])'
    <2> SUFFICES ASSUME NEW s \in Slot, request[s] # Idle PROVE UnderWay(request[s])'
      BY <1>2
    <2> DEFINE r == request[s]
               user == r.user
               password == r.password
               t == r.since
    <2>1. UnderWay(r)
      BY <1>1 DEF Verdicts
    <2>2. /\ user \in User /\ password \in Password /\ t \in Int /\ t <= now
          /\ r.pc = "right" => RightSince(user, password, t)
      BY <1>1, <2>1 DEF UnderWay
    <2>3. /\ request' = request /\ now' = now
          /\ r \in [pc : {"binding", "right", "wrong"}, user : User, password : Password,
                    since : 0 .. now, n : Nat]
          /\ now - t <= BindTime
      BY <1>2, <2>1 DEF UnderWay
    <2> QED
      BY <1>5, <2>2, <2>3 DEF UnderWay, RightSince
  <1>8. Verdicts'
    BY <1>4, <1>6, <1>7 DEF Verdicts
  <1>9. Lockouts'
    BY <1>1, <1>2, SameLockouts
  <1>10. VerdictsAreRight'
    BY <1>2 DEF VerdictsAreRight, NoAnswer
  <1> QED
    BY <1>1, <1>2, <1>8, <1>9, <1>10 DEF VerdictInv

LEMMA VerdictTick ==
    ASSUME VerdictInv, Tick
    PROVE  VerdictInv'
  <1>1. /\ now \in Nat /\ requests \in Nat /\ DOMAIN request = Slot /\ Verdicts /\ Lockouts
        /\ DOMAIN brute = User /\ DOMAIN failed = User
    BY DEF VerdictInv
  <1>2. /\ UNCHANGED <<cache, brute, request, dovecot, left, requests>> /\ answer' = NoAnswer
        /\ now' = now + 1
        /\ failed' = [u \in User |-> {f \in failed[u] : now' - f.at <= 2 * Window}]
        /\ \A s \in Slot : request[s] # Idle => now - request[s].since < BindTime
    BY DEF Tick, service
  <1> DEFINE Times == 0 .. now
             LaterTimes == 0 .. now'
  <1>3. Times \subseteq LaterTimes
    BY <1>1, <1>2
  <1>4. ASSUME NEW e \in cache PROVE Verdict(e)'
    <2>1. Verdict(e)
      BY <1>1 DEF Verdicts
    <2>2. e \in [user : User, password : Password, at : Times, used : {e.used}]
      BY <2>1 DEF Verdict
    <2> HIDE DEF Times, LaterTimes
    <2>3. e \in [user : User, password : Password, at : LaterTimes, used : {e.used}]
      BY <1>3, <2>2
    <2>4. RightSince(e.user, e.password, e.at - BindTime)'
      BY <1>2, <2>1 DEF Verdict, RightSince
    <2> QED
      BY <2>3, <2>4 DEF Verdict, LaterTimes
  <1>5. ASSUME NEW s \in Slot, request[s] # Idle PROVE UnderWay(request[s])'
    <2> DEFINE r == request[s]
    <2>1. UnderWay(r)
      BY <1>1, <1>5 DEF Verdicts
    <2>2. r \in [pc : {"binding", "right", "wrong"}, user : User, password : Password,
                since : Times, n : Nat]
      BY <2>1 DEF UnderWay
    <2>3. now' - r.since <= BindTime
      BY <1>1, <1>2, <1>5, <2>2
    <2>4. r' = r /\ (r.pc = "right" => RightSince(r.user, r.password, r.since))
      BY <1>2, <2>1 DEF UnderWay
    <2> HIDE DEF Times, LaterTimes, r
    <2>5. r \in [pc : {"binding", "right", "wrong"}, user : User, password : Password,
                since : LaterTimes, n : Nat]
      BY <1>3, <2>2
    <2>6. UnderWay(r)'
      BY <1>2, <2>3, <2>4, <2>5 DEF UnderWay, RightSince, LaterTimes
    <2> QED
      BY <2>6 DEF r
  <1>6. Verdicts'
    BY <1>1, <1>2, <1>4, <1>5 DEF Verdicts
  <1>7. Lockouts'
    <2> SUFFICES ASSUME NEW u \in User
                 PROVE  /\ IsFiniteSet(failed'[u]) /\ brute[u].lockedUntil \in Nat
                        /\ \A f \in failed'[u] \cup brute[u].failures : f.at \in 0 .. now'
                        /\ \A f \in brute[u].failures : now' - f.at <= 2 * Window => f \in failed'[u]
                        /\ Locked(u)' => Earned(u)'
      BY <1>2 DEF Lockouts
    <2>1. failed'[u] = {f \in failed[u] : now' - f.at <= 2 * Window}
      BY <1>2
    <2>2. /\ IsFiniteSet(failed[u]) /\ brute[u].lockedUntil \in Nat
          /\ \A f \in failed[u] \cup brute[u].failures : f.at \in 0 .. now
          /\ \A f \in brute[u].failures : now - f.at <= 2 * Window => f \in failed[u]
          /\ Locked(u) => Earned(u)
      BY <1>1 DEF Lockouts
    <2>3. IsFiniteSet(failed'[u])
      BY <2>1, <2>2, FS_Subset
    <2>4. \A f \in failed'[u] \cup brute[u].failures : f.at \in 0 .. now'
      BY <1>1, <1>2, <2>1, <2>2
    <2>5. \A f \in brute[u].failures : now' - f.at <= 2 * Window => f \in failed'[u]
      BY <1>1, <1>2, <2>1, <2>2
    <2>6. ASSUME Locked(u)' PROVE Earned(u)'
      <3>1. Locked(u) /\ brute[u].lockedUntil > now'
        BY <1>1, <1>2, <2>2, <2>6 DEF Locked
      <3>2. PICK t \in 0 .. now : /\ brute[u].lockedUntil = t + Window
                                 /\ Cardinality(Unredeemed(u, t - Window, t)) >= Threshold
        BY <2>2, <3>1 DEF Earned
      <3>3. \A f \in failed[u] : f.at \in t - Window .. t => now' - f.at <= 2 * Window
        BY <1>1, <1>2, <2>2, <3>1, <3>2
      <3>4. Unredeemed(u, t - Window, t)' = Unredeemed(u, t - Window, t)
        BY <2>1, <3>3 DEF Unredeemed
      <3>5. t \in 0 .. now'
        BY <1>1, <1>2
      <3> QED
        BY <1>2, <3>2, <3>4, <3>5 DEF Earned
    <2> QED
      BY <2>2, <2>3, <2>4, <2>5, <2>6
  <1>8. VerdictsAreRight'
    BY <1>2 DEF VerdictsAreRight, NoAnswer
  <1>9. now' \in Nat /\ DOMAIN failed' = User
    BY <1>1, <1>2
  <1> QED
    BY <1>1, <1>2, <1>6, <1>7, <1>8, <1>9 DEF VerdictInv

LEMMA VerdictNext == VerdictInv /\ [Next]_vars => VerdictInv'
  <1> SUFFICES ASSUME VerdictInv, [Next]_vars PROVE VerdictInv'
    OBVIOUS
  <1>1. CASE UNCHANGED vars
    <2>1. /\ UNCHANGED <<now, cache, brute, request, answer, dovecot, left, failed, requests>>
      BY <1>1 DEF vars, service, history
    <2>2. Verdicts'
      BY <2>1, SameInstant DEF VerdictInv
    <2>3. Lockouts'
      BY <2>1, SameLockouts DEF VerdictInv
    <2>4. VerdictsAreRight'
      BY <2>1 DEF VerdictInv, VerdictsAreRight, LastRight, Unredeemed
    <2> QED
      BY <2>1, <2>2, <2>3, <2>4 DEF VerdictInv
  <1> QED
    BY <1>1, VerdictArrive, VerdictBind, VerdictTakeIn, VerdictRecord, VerdictChangePassword,
       VerdictTick DEF Next

\* Who is let in sent a password that was right a cache time and a bind ago at most, and
\* who is locked out has Threshold failed binds to answer for (require_auth, AuthService).
THEOREM VerdictsHold == Spec => []VerdictsAreRight
  <1>1. Spec => []VerdictInv
    BY VerdictInit, VerdictNext, PTL DEF Spec
  <1>2. VerdictInv => VerdictsAreRight
    BY DEF VerdictInv
  <1> QED
    BY <1>1, <1>2, PTL
=============================================================================
