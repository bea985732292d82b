----------------------------- MODULE AddonConfig -----------------------------
(***************************************************************************)
(* The add-on's settings, lib/config_loader.js: read-modify-writes of      *)
(* browser.storage.local by messages that interleave at every await, and   *)
(* the lazy migration to schema version 3 that the first reader runs.      *)
(*                                                                         *)
(* A URL is a value; NoUrl is undefined, null and the empty string, which  *)
(* the code does not tell apart (`||').  A stored password matters only    *)
(* as present or not.                                                      *)
(***************************************************************************)
EXTENDS Naturals, FiniteSets

CONSTANTS
    Account,          \* ids Thunderbird may give to accounts
    Url,
    Client,           \* messages under way at the same time
    InitialStores,    \* what an older version of the add-on left behind
    MaxOps,           \* bound: messages
    MaxRestarts       \* bound: restarts of the background page

NoUrl == ""
Nobody == "nobody"
Urls == Url \cup {NoUrl}

ASSUME ConfigAssumption ==
    /\ NoUrl \notin Url /\ Nobody \notin Account
    /\ MaxOps \in Nat /\ MaxRestarts \in Nat

VARIABLES
    store,      \* browser.storage.local
    managed,    \* baseUrl of the enterprise policy
    accounts,   \* the accounts Thunderbird has
    done,       \* _migrationDone
    failed,     \* _migrationFailed # null
    op,         \* op[c]: the message c handles
    pc,         \* pc[c]: the await it is at
    patch,      \* patch[c]: what its next storage.local.set writes
    ops, restarts

vars == <<store, managed, accounts, done, failed, op, pc, patch, ops, restarts>>

-----------------------------------------------------------------------------
(***************************************************************************)
(* The store: version 0 stands for the keys of v1 or none at all.          *)
(***************************************************************************)
Entry == [url : Urls, password : BOOLEAN]
NoEntry == [url |-> NoUrl, password |-> FALSE]

\* The three keys of v1, the mailbox given by the account that has its address.
Legacy == [url : Urls, mailbox : Account \cup {Nobody}, password : BOOLEAN]
NoLegacy == [url |-> NoUrl, mailbox |-> Nobody, password |-> FALSE]

IsStore(s) ==
    /\ DOMAIN s = {"version", "accounts", "selected", "global", "legacy"}
    /\ s.version \in {0, 2, 3}
    /\ DOMAIN s.accounts \subseteq Account
    /\ \A a \in DOMAIN s.accounts : s.accounts[a] \in Entry
    /\ s.selected \in Account \cup {Nobody}
    /\ s.global \in Urls
    /\ s.legacy \in Legacy

ASSUME InitialStoresAssumption == \A s \in InitialStores : IsStore(s)

Or(x, y) == IF x # NoUrl THEN x ELSE y

EntryOf(s, a) == IF a \in DOMAIN s.accounts THEN s.accounts[a] ELSE NoEntry

WithEntry(s, a, entry) ==
    [x \in DOMAIN s.accounts \cup {a} |-> IF x = a THEN entry ELSE s.accounts[x]]

\* storage.local.set: the keys given replace the keys there.
Merge(s, p) == [k \in DOMAIN s |-> IF k \in DOMAIN p THEN p[k] ELSE s[k]]

(***************************************************************************)
(* Where an account's base URL comes from.  `derived' is what the          *)
(* experiment API makes of the IMAP host.                                  *)
(***************************************************************************)
GlobalUrl(s) == Or(s.global, managed)

EffectiveUrl(s, a, derived) ==
    Or(EntryOf(s, a).url, Or(managed, Or(GlobalUrl(s), derived)))

\* Mutant: the global default before the policy.
GlobalFirst(s, a, derived) ==
    CASE EntryOf(s, a).url # NoUrl -> [source |-> "override", url |-> EntryOf(s, a).url]
      [] EntryOf(s, a).url = NoUrl /\ GlobalUrl(s) # NoUrl ->
            [source |-> "global", url |-> GlobalUrl(s)]
      [] OTHER -> [source |-> "auto", url |-> derived]

\* effectiveBaseUrlSource, for the options page.
UrlSource(s, a, derived) ==
    LET own == EntryOf(s, a).url
    IN  IF own # NoUrl THEN [source |-> "override", url |-> own]
        ELSE IF managed # NoUrl THEN [source |-> "managed", url |-> managed]
        ELSE IF GlobalUrl(s) # NoUrl THEN [source |-> "global", url |-> GlobalUrl(s)]
        ELSE IF derived # NoUrl THEN [source |-> "auto", url |-> derived]
        ELSE [source |-> "none", url |-> NoUrl]

\* loadConfigFor's own verdict on the same question.
ConfigSource(s, a, derived, hasPassword) ==
    CASE EffectiveUrl(s, a, derived) = NoUrl -> "none"
      [] EffectiveUrl(s, a, derived) # NoUrl /\ ~hasPassword -> "partial"
      [] OTHER -> IF managed # NoUrl /\ EntryOf(s, a).url = NoUrl THEN "managed" ELSE "manual"

-----------------------------------------------------------------------------
Ops ==
    [kind : {"load", "delete"}, account : Account]
      \cup [kind : {"save"}, account : Account, url : Urls]
      \cup [kind : {"select"}, account : Account \cup {Nobody}]
      \cup [kind : {"global"}, url : Urls]

NoOp == [kind |-> "none"]
NoPatch == [k \in {} |-> NoUrl]

Init ==
    /\ store \in InitialStores
    /\ managed \in Urls
    /\ accounts \in SUBSET Account
    /\ done = FALSE /\ failed = FALSE
    /\ op = [c \in Client |-> NoOp]
    /\ pc = [c \in Client |-> "idle"]
    /\ patch = [c \in Client |-> NoPatch]
    /\ ops = 0 /\ restarts = 0

At(c, place) == pc' = [pc EXCEPT ![c] = place]
Plan(c, p) == patch' = [patch EXCEPT ![c] = p]

\* Mutant: what was written stays planned.
FinishKeepsPatch(c) ==
    /\ op' = [op EXCEPT ![c] = NoOp]
    /\ At(c, "idle")
    /\ UNCHANGED patch

Finish(c) ==
    /\ op' = [op EXCEPT ![c] = NoOp]
    /\ Plan(c, NoPatch)
    /\ At(c, "idle")

Handle(c, o) ==
    /\ pc[c] = "idle"
    /\ ops < MaxOps /\ ops' = ops + 1
    /\ op' = [op EXCEPT ![c] = o]

(***************************************************************************)
(* setSelectedAccountId and setBaseUrlGlobal write at once, without the    *)
(* migration; the others go through loadAllConfig.                         *)
(***************************************************************************)
SetDirectly(c) ==
    \E o \in Ops :
        /\ o.kind \in {"select", "global"}
        /\ Handle(c, o)
        /\ Plan(c, IF o.kind = "select"
                   THEN [version |-> 3, selected |-> o.account]
                   ELSE [version |-> 3, global |-> o.url])
        /\ At(c, "writing")
        /\ UNCHANGED <<store, managed, accounts, done, failed, restarts>>

Request(c) ==
    \E o \in Ops :
        /\ o.kind \in {"load", "save"}
        /\ o.account \in accounts
        /\ Handle(c, o)
        /\ At(c, "loading")
        /\ UNCHANGED <<store, managed, accounts, done, failed, patch, restarts>>

\* accounts.onDeleted.
AccountDeleted(c) ==
    \E a \in accounts :
        /\ Handle(c, [kind |-> "delete", account |-> a])
        /\ accounts' = accounts \ {a}
        /\ At(c, "loading")
        /\ UNCHANGED <<store, managed, done, failed, patch, restarts>>

AccountAdded(a) ==
    /\ a \notin accounts
    /\ ops < MaxOps /\ ops' = ops + 1
    /\ accounts' = accounts \cup {a}
    /\ UNCHANGED <<store, managed, done, failed, op, pc, patch, restarts>>

-----------------------------------------------------------------------------
(***************************************************************************)
(* migrateFromV1IfNeeded, run by every reader until one has finished it.   *)
(***************************************************************************)
DefaultGlobal(s) == Or(s.global, managed)

WithoutPasswords(s) == [a \in DOMAIN s.accounts |-> [s.accounts[a] EXCEPT !.password = FALSE]]

\* What the migration of s writes when no v1 keys are there.
Upgrade(s) ==
    [version |-> 3,
     accounts |-> IF s.version = 2 THEN WithoutPasswords(s) ELSE s.accounts,
     global |-> DefaultGlobal(s)]

\* What it writes once the mailbox of the v1 keys has been found.
Adoption(s) ==
    LET a == s.legacy.mailbox
        entry == [url |-> Or(s.legacy.url, EntryOf(s, a).url), password |-> FALSE]
    IN  [version |-> 3,
         accounts |-> WithEntry(s, a, entry),
         selected |-> a,
         global |-> Or(managed, Or(s.global, s.legacy.url))]

Ready == done' = TRUE

MigrateRead(c) ==
    /\ pc[c] = "loading" /\ ~done
    /\ IF store.version = 3
       THEN IF store.global = NoUrl /\ managed # NoUrl
            THEN Plan(c, [global |-> managed]) /\ At(c, "migrating") /\ UNCHANGED done
            ELSE Ready /\ UNCHANGED <<patch, pc>>
       ELSE IF store.version = 0 /\ store.legacy # NoLegacy
            THEN Plan(c, Adoption(store)) /\ At(c, "matching") /\ UNCHANGED done
            ELSE Plan(c, Upgrade(store)) /\ At(c, "migrating") /\ UNCHANGED done
    /\ UNCHANGED <<store, managed, accounts, failed, op, ops, restarts>>

\* The v1 mailbox is looked up in Thunderbird; unknown, the migration gives up for this run.
MigrateMatch(c) ==
    /\ pc[c] = "matching"
    /\ IF patch[c].selected \in accounts
       THEN At(c, "adopting") /\ UNCHANGED <<done, failed, patch>>
       ELSE failed' = TRUE /\ Ready /\ Plan(c, NoPatch) /\ At(c, "loading")
    /\ UNCHANGED <<store, managed, accounts, op, ops, restarts>>

MigrateWrite(c) ==
    /\ pc[c] = "migrating"
    /\ store' = Merge(store, patch[c])
    /\ Ready
    /\ Plan(c, NoPatch)
    /\ At(c, "loading")
    /\ UNCHANGED <<managed, accounts, failed, op, ops, restarts>>

\* Mutant: the v1 keys are removed before what they become is written.
RemoveThenAdopt(c) ==
    /\ pc[c] = "adopting"
    /\ store' = [store EXCEPT !.legacy = NoLegacy]
    /\ At(c, "migrating")
    /\ UNCHANGED <<managed, accounts, done, failed, op, patch, ops, restarts>>

Adopt(c) ==
    /\ pc[c] = "adopting"
    /\ store' = Merge(store, patch[c])
    /\ Plan(c, NoPatch)
    /\ At(c, "removing")
    /\ UNCHANGED <<managed, accounts, done, failed, op, ops, restarts>>

RemoveLegacy(c) ==
    /\ pc[c] = "removing"
    /\ store' = [store EXCEPT !.legacy = NoLegacy]
    /\ failed' = FALSE /\ Ready
    /\ At(c, "loading")
    /\ UNCHANGED <<managed, accounts, op, patch, ops, restarts>>

-----------------------------------------------------------------------------
(***************************************************************************)
(* loadAllConfig's own read, and what the caller makes of it.              *)
(***************************************************************************)

\* Mutant: the entry is written as if it were the only one.
SaveAlone(s, o) ==
    [version |-> 3,
     accounts |-> [a \in {o.account} |-> [url |-> o.url, password |-> FALSE]]]

\* saveAccountConfig: a stored password goes with any save.
SavePatch(s, o) ==
    [version |-> 3,
     accounts |-> WithEntry(s, o.account, [url |-> o.url, password |-> FALSE])]

DeletePatch(s, a) ==
    LET left == [x \in DOMAIN s.accounts \ {a} |-> s.accounts[x]]
    IN  IF s.selected = a
        THEN [accounts |-> left, selected |-> Nobody]
        ELSE [accounts |-> left]

Load(c) ==
    /\ pc[c] = "loading" /\ done
    /\ CASE op[c].kind = "save" ->
              Plan(c, SavePatch(store, op[c])) /\ At(c, "writing") /\ UNCHANGED op
         [] op[c].kind = "delete" /\ op[c].account \in DOMAIN store.accounts ->
              Plan(c, DeletePatch(store, op[c].account)) /\ At(c, "writing") /\ UNCHANGED op
         [] OTHER -> Finish(c)
    /\ UNCHANGED <<store, managed, accounts, done, failed, ops, restarts>>

Write(c) ==
    /\ pc[c] = "writing"
    /\ store' = Merge(store, patch[c])
    /\ Finish(c)
    /\ UNCHANGED <<managed, accounts, done, failed, ops, restarts>>

\* The background page starts again, perhaps under another policy.
Restart ==
    /\ restarts < MaxRestarts /\ restarts' = restarts + 1
    /\ managed' \in Urls
    /\ done' = FALSE /\ failed' = FALSE
    /\ op' = [c \in Client |-> NoOp]
    /\ pc' = [c \in Client |-> "idle"]
    /\ patch' = [c \in Client |-> NoPatch]
    /\ UNCHANGED <<store, accounts, ops>>

Step(c) ==
    \/ SetDirectly(c) \/ Request(c) \/ AccountDeleted(c)
    \/ MigrateRead(c) \/ MigrateMatch(c) \/ MigrateWrite(c) \/ Adopt(c) \/ RemoveLegacy(c)
    \/ Load(c) \/ Write(c)

Next ==
    \/ \E c \in Client : Step(c)
    \/ \E a \in Account : AccountAdded(a)
    \/ Restart

Spec == Init /\ [][Next]_vars

-----------------------------------------------------------------------------
(***************************************************************************)
(* Properties.                                                             *)
(***************************************************************************)
Places == {"idle", "loading", "matching", "migrating", "adopting", "removing", "writing"}

\* The store stays readable by the next version, and only a message under way has a
\* place and something to write.
TypeOK ==
    /\ IsStore(store)
    /\ managed \in Urls /\ accounts \subseteq Account
    /\ done \in BOOLEAN /\ failed \in BOOLEAN
    /\ op \in [Client -> Ops \cup {NoOp}]
    /\ pc \in [Client -> Places]
    /\ \A c \in Client : /\ pc[c] = "idle" <=> op[c] = NoOp
                         /\ pc[c] \in {"matching", "migrating", "adopting", "writing"}
                              <=> patch[c] # NoPatch
    /\ ops \in 0 .. MaxOps /\ restarts \in 0 .. MaxRestarts

\* The options page shows the URL that the proxy client uses, and calls it the policy's
\* exactly when the client does: two functions, each with its own list of sources
\* (getAccountStatus, background.js:600, calls both).
SourcesAgree ==
    \A a \in Account, derived \in Urls :
        LET shown == UrlSource(store, a, derived)
        IN  /\ shown.url = EffectiveUrl(store, a, derived)
            /\ ConfigSource(store, a, derived, TRUE) = "managed" <=> shown.source = "managed"

\* The keys of v1 go only once what they said is stored, also when the background page
\* stops in the middle of the migration (config_loader.js:421-428).
LegacyKeysMoved ==
    [][store.legacy # NoLegacy /\ store'.legacy = NoLegacy =>
          /\ store.version = 3
          /\ store.legacy.url # NoUrl =>
               EntryOf(store, store.legacy.mailbox).url = store.legacy.url]_vars

\* "Saves the config of ONE account" (config_loader.js:197): a save leaves the URLs of the
\* other accounts as they are.
SaveTouchesOneAccount ==
    [][\A c \in Client :
          pc[c] = "writing" /\ op[c].kind = "save" /\ op'[c] = NoOp /\ store' # store =>
              \A a \in Account \ {op[c].account} : EntryOf(store', a) = EntryOf(store, a)]_vars

\* "v2 to v3: existing accounts[id].password are removed" (config_loader.js:33): once a
\* reader is through, a store of version 3 holds no password with an account.
PasswordsGone ==
    done /\ store.version = 3 =>
        \A a \in DOMAIN store.accounts : ~store.accounts[a].password

\* One message at a time: every step is one of the abstract table, or none.
Abstract ==
    INSTANCE ConfigStore WITH
        urls <- [a \in Account |-> EntryOf(store, a).url],
        selected <- store.selected,
        global <- store.global,
        current <- store.version = 3

\* A message changes the one setting it names, and what an older version stored is taken
\* over once and nothing dropped (config_loader.js:197, 421-428).
ImplementsStore == Abstract!Spec
=============================================================================
