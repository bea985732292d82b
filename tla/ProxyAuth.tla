------------------------------ MODULE ProxyAuth -----------------------------
(***************************************************************************)
(* What a request passes before its route: the rate limit of its address,  *)
(* the lockout of its user, the cache of verdicts, and a bind to Dovecot   *)
(* (require_auth in routes.py, AuthService in auth.py).  The proxy is one  *)
(* event loop; requests meet at the bind, the only await before the        *)
(* verdict.  The clock is time.monotonic, in ticks.                        *)
(***************************************************************************)
EXTENDS RateLimiter, FiniteSets, TLC

CONSTANTS
    Slot,         \* requests under way at a time
    Ip, User,
    Password,
    CacheTtl, CacheMax, Threshold, Window,    \* the settings of config.py
    BindTime,     \* the longest bind: greeting, LOGIN and LOGOUT have their timeouts
    MaxTime, MaxRequests, MaxChanges   \* bounds

ASSUME ProxyAuthAssumption ==
    /\ {CacheTtl, BindTime, MaxTime, MaxRequests, MaxChanges} \subseteq Nat
    /\ {CacheMax, Threshold, Window} \subseteq Nat \ {0}

VARIABLES
    now,        \* time.monotonic
    buckets,    \* limiter._buckets, in the order of the dict
    cache,      \* auth._cache: verdicts [user, password, at], `used' gives their order
    brute,      \* auth._brute: [failures, lockedUntil] of a user
    request,    \* the requests that wait for a bind, each with its number
    answer,     \* what this very step answers, if it accepts, locks out or limits
    dovecot,    \* the password of each mailbox
    left,       \* history: when a password ceased to be its mailbox's
    failed,     \* history: a user's failed binds since one succeeded, for two windows
    passed,     \* history: the requests that the limiter let through, for a minute
    dropped,    \* history: when the bucket of an address was evicted
    requests, changes

service == <<buckets, cache, brute>>
history == <<left, failed, passed, dropped>>
vars == <<now, service, request, answer, dovecot, history, requests, changes>>

NoPassword == ""
NoAnswer == [kind |-> "none"]
Idle == [pc |-> "idle"]
NoBrute == [failures |-> {}, lockedUntil |-> 0]
Never == 0 - (CacheTtl + BindTime + Minute + 1)

Init ==
    /\ now = 0 /\ buckets = <<>> /\ cache = {}
    /\ brute = [u \in User |-> NoBrute]
    /\ request = [s \in Slot |-> Idle] /\ answer = NoAnswer
    /\ dovecot \in [User -> Password]
    /\ left = [u \in User |-> [p \in Password |-> Never]]
    /\ failed = [u \in User |-> {}] /\ passed = {} /\ dropped = [ip \in Ip |-> Never]
    /\ requests = 0 /\ changes = 0

(***************************************************************************)
(* The cache.                                                              *)
(***************************************************************************)
IsKey(e, u, p) == e.user = u /\ e.password = p
Others(u, p) == {e \in cache : ~IsKey(e, u, p)}
Newest(entries) ==
    CHOOSE n \in {0} \cup {e.used : e \in entries} : \A e \in entries : e.used <= n

\* Mutant: a hit makes the verdict new.
EntriesRenewed(u, p) ==
    {[e EXCEPT !.used = Newest(Others(u, p)) + 1, !.at = now] : e \in cache \ Others(u, p)}

\* move_to_end.
Entries(u, p) ==
    {[e EXCEPT !.used = Newest(Others(u, p)) + 1] : e \in cache \ Others(u, p)}

Fresh(u, p) == \E e \in cache : IsKey(e, u, p) /\ now - e.at <= CacheTtl

\* A new verdict evicts the user's other ones, and the least recent if there are too many.
Put(u, p) ==
    LET rest == {e \in cache : e.user # u}
        kept == rest \cup {[user |-> u, password |-> p, at |-> now, used |-> Newest(rest) + 1]}
    IN  IF Cardinality(kept) > CacheMax
        THEN {e \in kept : \E f \in kept : f.used < e.used}
        ELSE kept

(***************************************************************************)
(* The lockout.                                                            *)
(***************************************************************************)
Locked(u) == brute[u].lockedUntil > now

Failure(s) == [at |-> now, n |-> request[s].n]

Recorded(u, failure) ==
    LET recent == {f \in brute[u].failures \cup {failure} : now - f.at <= Window}
    IN  [failures |-> recent,
         lockedUntil |-> IF Cardinality(recent) >= Threshold THEN now + Window
                         ELSE brute[u].lockedUntil]

(***************************************************************************)
(* require_auth up to its first await.                                     *)
(***************************************************************************)
Answers(kind, who, what) == answer' = [kind |-> kind, who |-> who, what |-> what]

\* With a fresh verdict, or without one, or with one that has run out and is dropped.
Admit(s, u, p) ==
    \/ p = NoPassword /\ answer' = NoAnswer /\ UNCHANGED <<cache, request>>
    \/ p # NoPassword /\ Locked(u) /\ Answers("locked", u, p) /\ UNCHANGED <<cache, request>>
    \/ /\ p # NoPassword /\ ~Locked(u) /\ Fresh(u, p)
       /\ Answers("accepted", u, p)
       /\ cache' = Others(u, p) \cup Entries(u, p)
       /\ UNCHANGED request
    \/ /\ p # NoPassword /\ ~Locked(u) /\ ~Fresh(u, p)
       /\ request' = [request EXCEPT
             ![s] = [pc |-> "binding", user |-> u, password |-> p, since |-> now, n |-> requests']]
       /\ cache' = Others(u, p)
       /\ answer' = NoAnswer

Arrive(s, u, p, ip) ==
    /\ request[s] = Idle /\ requests < MaxRequests
    /\ requests' = requests + 1
    /\ buckets' = Checked(buckets, ip, now)
    /\ dropped' = IF Overfull(buckets, ip)
                  THEN [dropped EXCEPT ![Head(buckets).key] = now] ELSE dropped
    /\ \/ /\ Allowed(buckets, ip, now)
          /\ passed' = passed \cup {[ip |-> ip, at |-> now, n |-> requests']}
          /\ Admit(s, u, p)
       \/ /\ ~Allowed(buckets, ip, now)
          /\ Answers("limited", ip, NoPassword)
          /\ UNCHANGED <<cache, passed, request>>
    /\ UNCHANGED <<now, brute, dovecot, left, failed, changes>>

\* The instant at which Dovecot decides; any bind may fail.
Bind(s) ==
    /\ request[s].pc = "binding"
    /\ \/ /\ dovecot[request[s].user] = request[s].password
          /\ request' = [request EXCEPT ![s].pc = "right"]
       \/ request' = [request EXCEPT ![s].pc = "wrong"]
    /\ answer' = NoAnswer
    /\ UNCHANGED <<now, service, dovecot, history, requests, changes>>

Ends(s) ==
    /\ request' = [request EXCEPT ![s] = Idle]
    /\ UNCHANGED <<now, buckets, dovecot, left, passed, dropped, requests, changes>>

TakeIn(s) ==
    LET u == request[s].user
    IN  /\ request[s].pc = "right"
        /\ cache' = Put(u, request[s].password)
        /\ brute' = [brute EXCEPT ![u] = NoBrute]
        /\ failed' = [failed EXCEPT ![u] = {}]
        /\ Answers("accepted", u, request[s].password)
        /\ Ends(s)

\* Fail2Ban is told before the answer, or cannot be told: neither changes anything here.
Record(s) ==
    LET u == request[s].user
    IN  /\ request[s].pc = "wrong"
        /\ brute' = [brute EXCEPT ![u] = Recorded(u, Failure(s))]
        /\ failed' = [failed EXCEPT ![u] = @ \cup {Failure(s)}]
        /\ answer' = NoAnswer
        /\ Ends(s)
        /\ UNCHANGED cache

ChangePassword(u, p) ==
    /\ changes < MaxChanges /\ changes' = changes + 1
    /\ p # dovecot[u]
    /\ dovecot' = [dovecot EXCEPT ![u] = p]
    /\ left' = [left EXCEPT ![u][dovecot[u]] = now]
    /\ answer' = NoAnswer
    /\ UNCHANGED <<now, service, request, failed, passed, dropped, requests>>

\* No bind takes longer than its timeouts.
Tick ==
    /\ now < MaxTime /\ now' = now + 1
    /\ \A s \in Slot :
          request[s] # Idle => now - request[s].since < BindTime
    /\ passed' = {q \in passed : now' - q.at < Minute}
    /\ failed' = [u \in User |-> {f \in failed[u] : now' - f.at <= 2 * Window}]
    /\ answer' = NoAnswer
    /\ UNCHANGED <<service, request, dovecot, left, dropped, requests, changes>>

Next ==
    \/ \E s \in Slot :
        \/ \E u \in User, p \in Password \cup {NoPassword}, ip \in Ip : Arrive(s, u, p, ip)
        \/ Bind(s) \/ TakeIn(s) \/ Record(s)
    \/ \E u \in User, p \in Password : ChangePassword(u, p)
    \/ Tick

Spec == Init /\ [][Next]_vars

Symmetry == Permutations(Slot) \cup Permutations(Ip) \cup Permutations(Password)

-----------------------------------------------------------------------------
(***************************************************************************)
(* Who is let in sent a password that was right a while ago at most: no    *)
(* sequence of binds that end late, of hits and of evictions lets an old   *)
(* one outlive its time.  (config.py:28-33, "a password change takes       *)
(* effect almost at once".)  Who is locked out has earned it: Threshold    *)
(* binds failed within a window that ended less than a window ago, and     *)
(* none succeeded since.                                                   *)
(***************************************************************************)
LastRight(u, p) == IF dovecot[u] = p THEN now ELSE left[u][p]

Unredeemed(u, from, to) == {f \in failed[u] : f.at \in from .. to}

VerdictsAreRight ==
    /\ answer.kind = "accepted" =>
          now - LastRight(answer.who, answer.what) <= CacheTtl + BindTime
    /\ answer.kind = "locked" =>
          \E t \in 0 .. now :
              now - t < Window /\ Cardinality(Unredeemed(answer.who, t - Window, t)) >= Threshold

(***************************************************************************)
(* An address is refused only after PerMin of its requests within the last *)
(* minute, whatever the others send; and less than two minutes' worth pass *)
(* within a minute, unless the full table dropped its bucket.              *)
(***************************************************************************)
LastMinute(ip) ==
    Cardinality({q \in passed : q.ip = ip /\ now - q.at < Minute})

RateHolds ==
    /\ answer.kind = "limited" => LastMinute(answer.who) >= PerMin
    /\ \A ip \in Ip : now - dropped[ip] >= Minute => LastMinute(ip) < 2 * PerMin

(***************************************************************************)
(* auth.py:107-109 says that after a bind with the new password the old    *)
(* one stops working at once.  It does not hold: a bind with the old one   *)
(* that Dovecot accepted before the change, and whose answer is taken in   *)
(* after the new one is cached, puts the old one in its place.             *)
(***************************************************************************)
OldPasswordStaysOut ==
    [][\A u \in User : Fresh(u, dovecot[u]) =>
          \A e \in cache' : e.user = u => e.password = dovecot[u]]_cache
=============================================================================
