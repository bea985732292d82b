----------------------------- MODULE ClientCache -----------------------------
(***************************************************************************)
(* The proxy clients that background.js keeps, one promise per account:    *)
(* getClientFor and what empties the cache.  A promise reads the URL from  *)
(* the settings or, where none is set, derives it of the account's server  *)
(* (loadConfigFor); then the password from Thunderbird's logins and the    *)
(* mailbox from the account, with an await each.  It is cached from its    *)
(* first turn on, so that callers share one that is not settled yet.       *)
(***************************************************************************)
EXTENDS Naturals, Sequences

CONSTANTS
    Account, Url, Password,
    Caller,          \* commands under way
    MaxLookups,      \* bound: promises made
    MaxChanges       \* bound: changes of a setting, a server or a password

NoPassword == "none"    \* not saved, or the master password is locked
NoUrl == "no_url"       \* not set; or Thunderbird names no server
NoPromise == 0

ASSUME ClientCacheAssumption ==
    NoPassword \notin Password /\ NoUrl \notin Url /\ MaxLookups \in Nat /\ MaxChanges \in Nat

VARIABLES
    setting,     \* setting[a]: the URL that is stored: of the account, by policy, global
    derived,     \* derived[a]: what the account's server would give now
    saved,       \* saved[a]: what the Login Manager would give now
    promises,    \* all promises of getClientFor, oldest first
    cache,       \* _clientCache: an index into promises, or NoPromise
    event,       \* a storage.onChanged event waits for its turn
    resets,      \* accounts whose change still has its own resetClient to come
    waiting,     \* waiting[k]: the promise that caller k awaits or uses
    changes

cacheVars == <<setting, derived, saved, promises, cache, event, resets, waiting, changes>>

LookupPhases == {"settings", "server", "password", "mailbox", "client", "failed"}

\* `set' is the setting that was read, `url' the one that the client is made with.
Lookups ==
    [account : Account, phase : LookupPhases, set : Url \cup {NoUrl}, url : Url \cup {NoUrl},
     password : Password \cup {NoPassword}]

CacheInit ==
    /\ setting \in [Account -> Url \cup {NoUrl}] /\ derived \in [Account -> Url \cup {NoUrl}]
    /\ saved \in [Account -> Password \cup {NoPassword}]
    /\ promises = <<>>
    /\ cache = [a \in Account |-> NoPromise]
    /\ event = FALSE /\ resets = {}
    /\ waiting = [k \in Caller |-> NoPromise]
    /\ changes = 0

-----------------------------------------------------------------------------
\* The body runs up to its first await before the promise is cached.
NewLookup(a) ==
    [account |-> a, phase |-> "settings", set |-> NoUrl, url |-> NoUrl, password |-> NoPassword]

Hit(k, a) ==
    /\ waiting[k] = NoPromise
    /\ cache[a] # NoPromise
    /\ waiting' = [waiting EXCEPT ![k] = cache[a]]
    /\ UNCHANGED <<setting, derived, saved, promises, cache, event, resets, changes>>

Miss(k, a) ==
    /\ waiting[k] = NoPromise
    /\ cache[a] = NoPromise
    /\ Len(promises) < MaxLookups
    /\ promises' = Append(promises, NewLookup(a))
    /\ cache' = [cache EXCEPT ![a] = Len(promises')]
    /\ waiting' = [waiting EXCEPT ![k] = Len(promises')]
    /\ UNCHANGED <<setting, derived, saved, event, resets, changes>>

ReadSettings(p) ==
    LET set == setting[promises[p].account]
    IN  /\ promises[p].phase = "settings"
        /\ promises' = [promises EXCEPT ![p] =
              [@ EXCEPT !.phase = IF set = NoUrl THEN "server" ELSE "password",
                        !.set = set, !.url = set]]
        /\ UNCHANGED <<setting, derived, saved, cache, event, resets, waiting, changes>>

\* tryDeriveBaseUrlFromTB: nothing that is derived is stored.
ReadServer(p) ==
    /\ promises[p].phase = "server"
    /\ promises' = [promises EXCEPT ![p] = [@ EXCEPT !.phase = "password",
                                                    !.url = derived[promises[p].account]]]
    /\ UNCHANGED <<setting, derived, saved, cache, event, resets, waiting, changes>>

ReadPassword(p) ==
    /\ promises[p].phase = "password"
    /\ promises' = [promises EXCEPT ![p].phase = "mailbox",
                                  ![p].password = saved[promises[p].account]]
    /\ UNCHANGED <<setting, derived, saved, cache, event, resets, waiting, changes>>

\* Mutant: a rejected promise stays in the cache.
RejectKeeps(p) ==
    /\ promises[p].phase = "mailbox"
    /\ promises' = [promises EXCEPT ![p].phase = "failed"]
    /\ UNCHANGED <<setting, derived, saved, cache, event, resets, waiting, changes>>

\* Without a mailbox, a URL or a password the promise is rejected; its catch handler, the first
\* to run, empties the account's place in the cache, whichever promise is there by then.
Reject(p) ==
    /\ promises[p].phase = "mailbox"
    /\ promises' = [promises EXCEPT ![p].phase = "failed"]
    /\ cache' = [cache EXCEPT ![promises[p].account] = NoPromise]
    /\ UNCHANGED <<setting, derived, saved, event, resets, waiting, changes>>

\* Mutant: a client is put into the cache when it is made.
FulfilCaches(p) ==
    /\ promises[p].phase = "mailbox"
    /\ promises[p].password # NoPassword /\ promises[p].url # NoUrl
    /\ promises' = [promises EXCEPT ![p].phase = "client"]
    /\ cache' = [cache EXCEPT ![promises[p].account] = p]
    /\ UNCHANGED <<setting, derived, saved, event, resets, waiting, changes>>

Fulfil(p) ==
    /\ promises[p].phase = "mailbox"
    /\ promises[p].password # NoPassword /\ promises[p].url # NoUrl
    /\ promises' = [promises EXCEPT ![p].phase = "client"]
    /\ UNCHANGED <<setting, derived, saved, cache, event, resets, waiting, changes>>

\* Mutant: the error of a rejected promise is caught and never told.
AnswerClients(k) ==
    /\ waiting[k] # NoPromise
    /\ promises[waiting[k]].phase = "client"
    /\ waiting' = [waiting EXCEPT ![k] = NoPromise]
    /\ UNCHANGED <<setting, derived, saved, promises, cache, event, resets, changes>>

\* The caller gets its client and makes its calls, or the error.
Answer(k) ==
    /\ waiting[k] # NoPromise
    /\ promises[waiting[k]].phase \in {"client", "failed"}
    /\ waiting' = [waiting EXCEPT ![k] = NoPromise]
    /\ UNCHANGED <<setting, derived, saved, promises, cache, event, resets, changes>>

-----------------------------------------------------------------------------
(***************************************************************************)
(* What empties the cache.                                                 *)
(***************************************************************************)
Change == changes < MaxChanges /\ changes' = changes + 1

\* A write of the settings that the accounts `scope' find their URL in.  The handler's
\* resetClient, of the accounts `told', is its next turn, the storage event another.
StoreSetting(scope, told, u) ==
    /\ Change
    /\ setting' = [a \in Account |-> IF a \in scope THEN u ELSE setting[a]]
    /\ event' = TRUE
    /\ resets' = resets \cup told
    /\ UNCHANGED <<derived, saved, promises, cache, waiting>>

\* saveAccountConfig, resetAccountOverride and the removal of an account are about that
\* account; setBaseUrlGlobal is about those without a URL of their own and resets all;
\* a policy changes, and setSelectedAccountId writes, without any resetClient.
Settings(u) ==
    \/ \E a \in Account : StoreSetting({a}, {a}, u)
    \/ \E scope \in SUBSET Account : StoreSetting(scope, Account, u) \/ StoreSetting(scope, {}, u)

ResetClient(a) ==
    /\ a \in resets
    /\ resets' = resets \ {a}
    /\ cache' = [cache EXCEPT ![a] = NoPromise]
    /\ UNCHANGED <<setting, derived, saved, promises, event, waiting, changes>>

StorageChanged ==
    /\ event
    /\ event' = FALSE
    /\ cache' = [a \in Account |-> NoPromise]
    /\ UNCHANGED <<setting, derived, saved, promises, resets, waiting, changes>>

\* checkPasswordAvailable, the retry button of the pages: it asks and resets.
CheckPassword(a) ==
    /\ cache' = [cache EXCEPT ![a] = NoPromise]
    /\ UNCHANGED <<setting, derived, saved, promises, event, resets, waiting, changes>>

\* The user saves, changes or locks a password in Thunderbird, or gives the account
\* another server: no event says so.
ChangePassword(a) ==
    /\ Change
    /\ \E pw \in Password \cup {NoPassword} : saved' = [saved EXCEPT ![a] = pw]
    /\ UNCHANGED <<setting, derived, promises, cache, event, resets, waiting>>

ChangeServer(a) ==
    /\ Change
    /\ \E u \in Url \cup {NoUrl} : derived' = [derived EXCEPT ![a] = u]
    /\ UNCHANGED <<setting, saved, promises, cache, event, resets, waiting>>

Lookup(p) == ReadSettings(p) \/ ReadServer(p) \/ ReadPassword(p) \/ Reject(p) \/ Fulfil(p)

CacheNext ==
    \/ \E k \in Caller : Answer(k) \/ \E a \in Account : Hit(k, a) \/ Miss(k, a)
    \/ \E p \in DOMAIN promises : Lookup(p)
    \/ \E u \in Url \cup {NoUrl} : Settings(u)
    \/ \E a \in Account :
          ResetClient(a) \/ CheckPassword(a) \/ ChangePassword(a) \/ ChangeServer(a)
    \/ StorageChanged

\* Reads of the store, of the logins and of the accounts all come back.
Fairness ==
    /\ \A p \in 1 .. MaxLookups : WF_cacheVars(p \in DOMAIN promises /\ Lookup(p))
    /\ \A k \in Caller : WF_cacheVars(Answer(k))

CacheSpec == CacheInit /\ [][CacheNext]_cacheVars /\ Fairness

-----------------------------------------------------------------------------
(***************************************************************************)
(* Properties.                                                             *)
(***************************************************************************)

\* A change of `a' is stored and what will empty its place is on its way.
Announced(a) == event \/ a \in resets

\* A cached client was made from the setting that is stored now, and goes where the account's
\* server would have it only if none is stored; or something that will empty its place is on
\* its way.  However the change, its event and the awaits of a lookup interleave, a lookup
\* that began before the change never outlives it in the cache.  (What the setting is when
\* none is stored, the account's server, may have changed since: CachedServerCurrent.)
CachedUrlCurrent ==
    \A a \in Account :
        LET p == promises[cache[a]]
        IN  cache[a] # NoPromise /\ p.phase # "settings" /\ ~Announced(a) =>
              p.set = setting[a] /\ (p.set # NoUrl => p.url = p.set)

\* "So that the next call goes through anew" (background.js:112): nobody is given a
\* promise that was rejected before.
NoRejectedClient ==
    \A a \in Account : cache[a] # NoPromise => promises[cache[a]].phase # "failed"

\* Every command that needs a client gets one or an error.
EveryCallerAnswered == \A k \in Caller : waiting[k] # NoPromise ~> waiting[k] = NoPromise

\* A derived URL is not stored, so that "if the user changes the IMAP host later [...]
\* the derived URL must be worked out anew by itself" (config_loader.js:137-139): a client
\* at hand goes to the server that the account has.  It does not hold: StaleServer.
CachedServerCurrent ==
    \A a \in Account :
        LET p == promises[cache[a]]
        IN  cache[a] # NoPromise /\ p.phase = "client" /\ ~Announced(a) /\ setting[a] = NoUrl =>
              p.url = derived[a]

\* "Each time the password is required it is read from the Login Manager"
\* (config_loader.js:24): a client at hand has the password that Thunderbird has.
CachedPasswordCurrent ==
    \A a \in Account :
        cache[a] # NoPromise /\ promises[cache[a]].phase = "client" =>
            promises[cache[a]].password = saved[a]
=============================================================================
