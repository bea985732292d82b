# A verification project for expor-sieve

TLA+ models, TLC runs and TLAPS proofs for the add-on `expor-sieve/` and the
service `expor-sieve-proxy/`. Paths are relative to the repository; a bare
`file:line` is in `expor-sieve/`.

- [The system](#the-system): the inventory of components
- [The modules](#the-modules): what models what, and how it corresponds to the code
- [The runs](#the-runs): what TLC checks, on which instances, with which fairness
- [Where the code departs from its documents](#where-the-code-departs-from-its-documents)
- [The proofs](#the-proofs)
- [What is not modelled](#what-is-not-modelled) and [the plan](#the-plan)

## The system

A Thunderbird add-on lets a user edit mail rules. It stores all rules of a
mailbox as ONE Sieve script in ONE mailcow filter, the *combined* or *v2*
filter. Older versions stored one filter per rule (*v1*); they are migrated when
the list is read. Filters without the add-on's marker are *foreign*. The add-on
has no server of its own except a thin proxy that checks the user's IMAP
password, and mailcow offers no versions, locks or transactions: a command reads
all filters, computes a new list, and writes the whole script back.

| component | state | operations | talks to |
|---|---|---|---|
| background page, rule commands (`background.js:418-575`, `728-915`) | none of its own between commands; `ctx` of the running one | listRules, saveRule, deleteRule, setRuleActive, importLocalFilters; v1 to v2 migration inside every read | UI pages by `runtime.onMessage`; proxy client |
| per-account lock (`background.js:134-144`) | `_inflight`: Map of the last promise per account | `withLockFor` | wraps every rule command |
| client cache (`background.js:79-129`) | `_clientCache`: Map of promises | `getClientFor`, `resetClient`, `storage.onChanged` | configuration; Thunderbird's logins |
| windows (`background.js:219-359`) | in-flight promise, window or tab ids | `openManager`, `openWizard` | toolbar, message menu |
| proxy client (`lib/proxy_client.js`) | none | list, add, edit, delete; abort after 10 s; one retry of a read | the proxy over HTTPS |
| Sieve adapter (`lib/sieve_adapter.js`) | none | rules to script, script to rules, version detection | background page, editor |
| configuration (`lib/config_loader.js`) | `storage.local`, `storage.managed`, schema version | load, save, delete, three schema migrations | Thunderbird experiment API |
| manager page (`manager/manager.js`) | its copy of the list, the selection, `busy` | load, switch, move, delete, edit, copy, import, run over a folder | background page |
| editor (`editor/editor.js`) | a draft | change, validate, save | manager, wizard |
| wizard (`wizard/`) | what it knows of a message, the template chosen | make a rule of a message | background page, editor |
| options page (`options/`) | one setting | save | background page |
| local runner (`lib/local_runner.js`) | progress of one run | apply a rule to a folder, page by page | `messages` API |
| import (`manager.js:933-1130`, `lib/local_filter_mapper.js`) | the lists shown, the choice | Thunderbird filters to rules; deletion of what was imported | background page, experiment API |
| experiment API (`experiments/`) | none | password, server, filter list, folder settings | Thunderbird |
| proxy: authentication (`auth.py`) | verdict cache, failures, lockouts | verify, bind to Dovecot | routes; Fail2Ban publisher |
| proxy: rate limiter (`ratelimit.py`) | token buckets | check | routes |
| proxy: routes, ownership, upstream | none | list, add, edit, delete with checks | mailcow API |
| mailcow (external) | the filters of a mailbox | add, edit, delete; a filter stored with `active=1` deactivates the others (`README.md:179-182`) | |

**What is hard.** (1) A command has up to seven awaits, between which other
installations of the same user, older calls of the same installation, and
mailcow itself may step. (2) A writing call may be carried out and its answer
lost, and a call that was aborted after 10 s may still be carried out later.
(3) Thunderbird may stop at any await; nothing about a running command is
stored. (4) A migration writes one filter and then deletes others, one by one,
and may be cut short between any two. (5) Users repeat what failed. (6) In the
UI pages and the proxy, caches and copies outlive what they were copied from.
(7) The handlers of a page await their answers while the user goes on clicking.
(8) What a rule means is decided in four places: the editor, the writer and
reader of scripts, the server, and the local runner.

**What makes the components correct.** Commands: nothing foreign is touched; one
combined filter; an answer tells the truth; a migration loses nothing; every
command ends. Lock: mutual exclusion per account, order of entry, no leaked
entry. Client cache: no client with settings that are no longer the stored ones, nor
with a server or a password that the account no longer has.
Windows: one of each kind, showing what it was opened for. Configuration: a
table of accounts, one entry at a time, and no loss in a migration. Manager: the
page at rest holds and shows what is stored, in its order, of one account. Editor: what
is saved can be read and means the same when it is saved again. Wizard: a rule
takes the message it was made of. Local runner: only matching messages are
touched, and a clean end is a whole run. Import: nothing is deleted that was not
stored, nothing left out without a warning. Proxy: who is let in sent a password
that was right a short while ago; who is refused has earned it.
`PROJECT.json` lists the hazards at their lines.

## The modules

| module | models | from |
|---|---|---|
| `RuleList` | the rule list and what each command makes of it; which commands are refused, which need no write | `background.js:728-915`, `lib/rule_model.js` |
| `MailcowFilters` | external mailcow as the add-on sees it: a table of rows, three writing calls, the deactivation cascade, what the proxy refuses | the callers, `ownership.py`, `models.py`, `routes.py` |
| `Background` | the commands of any number of installations against one mailbox, await by await, with all fates of their calls | `background.js:418-575`, `728-915`, `proxy_client.js` |
| `RuleStore`, `BackgroundRefinement` | abstract: a mailbox has one list, a command takes effect at one instant; `Background` implements it | what `background.js:30-37` promises |
| `AccountLock` | `withLockFor`: entering, starting, settling and releasing of a call as separate turns of the event loop | `background.js:134-144` |
| `FifoLock`, `AccountLockRefinement` | abstract: one line of calls per account; `AccountLock` implements it | |
| `AddonConfig` | `storage.local` with every read-modify-write and the three migrations, the messages that start them, restarts at any await | `lib/config_loader.js`, `background.js` |
| `ConfigStore` | abstract: a table of settings of which a step changes one entry; `Abstract` in `AddonConfig` is the refinement | what `config_loader.js:197` promises |
| `ClientCache` | `getClientFor` with its awaits, the shared promise, its catch handler, all that empties the cache | `background.js:79-129`, `config_loader.js:130-158` |
| `OpenWindow` | both windows, the search of the tabs, `onRemoved`, the idle event page | `background.js:219-359` |
| `ManagerPage` | the page's state, its table and its handlers, in slots that await and overlap | `manager/manager.js` |
| `RuleText` | a rule and its text: validation, writer, reader, and the Sieve tests as the server carries them out | `lib/rule_model.js`, `lib/sieve_adapter.js`, `lib/rule_form.js` |
| `RuleEditor` | the editor of one rule, saving and reloading | `editor/editor.js` |
| `Wizard` | the window that makes a rule of a message, over `RuleEditor` | `wizard/`, `lib/wizard_prefs.js`, `lib/folder_filter.js`, `background.js:1054-1096` |
| `LocalRunner` | a rule applied to a folder, its dialog, the user at the messages meanwhile | `lib/local_runner.js`, `manager.js:367-491` |
| `ImportDialog` | projection, mapping, dialog, batch, clean-up | `experiments/credentials/implementation.js`, `lib/local_filter_mapper.js`, `manager.js`, `background.js` |
| `RateLimiter` | the token buckets | `ratelimit.py` |
| `ProxyAuth` | what a request passes before its route | `auth.py`, `routes.py:83-138` |
| `MC*` | instances for TLC | |
| `*_proofs` | theorems, see below | |

How the pieces fit: `Background` EXTENDS `MailcowFilters`, which EXTENDS
`RuleList`; `ManagerPage` and `ImportDialog` use the same `RuleList` for what
the server makes of their commands. `AccountLock` is checked on its own; what it
guarantees (`FifoLock`) is what `Background.queue` is, hence one queue per
client, and commands of different accounts do not meet. `RuleText` is under the
editor, the wizard, the local runner and the import dialog, so that "takes a
message" means the same in all of them. `ProxyAuth` EXTENDS `RateLimiter`.

**`Background` and the code.** `stage[c]` is the await client `c` is at:

| stage | the code is at | left by |
|---|---|---|
| `idle` | the list call, `background.js:421` (or no command) | `Load`, `StartMigration`, `ReadFails` |
| `migrating` | the migration's write, 502 or 509 | `MigrationWritten`, `WriteFails` |
| `relisting` | the second list call, 516 | `MigrationRelisted`, `ReadFails` |
| `purging` | the deletion of one v1 filter, 527 | `Purge` |
| `ready` | the list is there; synchronous code follows | `Reply`, `StartWrite` |
| `writing` | the write, 553 or 561 | `Written`, `WriteFails` |
| `confirming` | the list call after an addition, 568 | `Confirm`, `ReadFails` |

Other clients and the server step between any two actions. Between `ready` and
the next stage the code does not wait; the model allows a step there, which
adds interleavings and removes none. `Restart` drops the queue and may leave a
call behind; `LandLate` carries such a call out. `Repeat` is the editor or the
import dialog that stayed open after an error and is confirmed again
(`manager/manager.js:857-864`, `1095-1116`): it sends the same rules with the
same ids, because `newRule()` and the filter mapper put ids into them.

Data is kept to what the properties tell apart: a rule is an id, a name, an
`active` flag and a body; a body may be one that the adapter writes and cannot
parse back (`Unreadable`). Scripts have a length in rules (`MaxRules` stands for
`MAX_SCRIPT_BYTES`). `order` numbers are not stored, because every write sets
them to the position (549). The text of answers is left out: `known[c]` keeps
whether the last answer was a success and the list it implies. In `RuleStore` a
migration is an adoption of the v1 rules, a step of its own.

**Assumptions about mailcow**, from the READMEs and the way the code uses it: a
call is atomic; ids increase and are never reused; the list call returns rows in
any order; a stored row with `active=1` switches the mailbox's other rows off;
edit and delete of a missing id are refused. A v1 filter holds one rule, because
older versions stored one filter per rule (`IsTable`). Assumption
`InitialTablesAssumption`: the mailbox starts with at most one combined filter, and
the ids of its rules are below `FirstRule`, the first id that a page gives out.

**The pages and the event loop.** JavaScript runs a handler without interruption
up to its next await. In `AddonConfig`, `ClientCache`, `OpenWindow`,
`ManagerPage`, `LocalRunner`, `ImportDialog` and `ProxyAuth` an action is one
such stretch: what it reads before an await is kept in the record of the
process (a message, a promise, an opening, a slot, a run, a request), and used
after it. In `AccountLock` a reaction to a promise is a microtask of its own,
hence `Start`, `Settle` (fulfilled or rejected) and `Release`.

- `ManagerPage`: `flows[s]` is a handler at an await with its local variables.
  `busy` disables the buttons; Ctrl+D, a double click on a row and the Delete key
  ask neither `busy` nor the password panel, and the search redraws the table over any
  screen: these are the overlaps that exist. The server is a list per account,
  changed by `RuleList`'s operators. What the page holds and what it shows are two variables:
  `page.rules` is `state.rules`, `table.rows` what `renderList` drew last (`Drawn`). Clicks and
  checkboxes are those of the drawn rows (`TableIds`), and a handler then looks for them in
  `state.rules`. A deletion that fails half way ends without drawing (`LeftDrawn`); `table.torn`
  remembers it until the next drawing.
- `ClientCache`: `setting[a]` is the URL stored for an account, `derived[a]` the one that
  its server in Thunderbird would give, which is asked for only if none is stored
  (`ReadServer`). A write of settings is followed by its handler's own `resetClient` and by the
  storage event, in either order; a change of server or password by nothing.
- `OpenWindow`: `UpdateFails` is an update of a window that was closed, or, as a fault, of an open one.
- `RuleText`: a script is the structure of its text, not its characters; a text
  is a sequence of symbols, so that stars, commas, prefixes and angle brackets
  mean what they mean. The writer and the reader are partial where the code
  throws (`Writable`, `Readable`), and `AcceptedBlock` is what the server's check refuses.
- `Wizard`: `wizard` is the window's `state.meta`. `Create` stands for the choice
  of a template and of all ticks, and for `onCreate`; a retry after a missing password is
  `Create` again, with a new draft. Without the editor the draft goes to `saveRule` as it is:
  `validateRule` is the editor's (`Stores`). `Unread` is a message that
  could not be read, where the template set at the start stays set.
- `LocalRunner`: a page of the list is taken over whole when it is asked for; messages
  may be moved, deleted, marked by the user between any two calls.
- `ImportDialog`: the filter list of Thunderbird may change between listing,
  import and clean-up, which find filters by name. `Projected` may lose terms and actions.
- `ProxyAuth`: requests meet at the bind, the only await before the verdict. `Bind`
  is the instant at which Dovecot decides, `TakeIn` and `Record` what the proxy makes of the
  answer later. The clock is `time.monotonic` in ticks; a bind takes at most the
  sum of its timeouts. The verdict cache is a set of entries, and the failures of a user
  a set of attempts: only their ages count, not their order. In `RateLimiter` tokens are counted in parts of a minute, exactly.

## The runs

`tlc -config <run>.cfg <module>`, with the module that `PROJECT.json` names.

| run | instance | shows |
|---|---|---|
| `OneClient` | one installation, nine commands, four mailboxes; 3 commands, 2 faults | `TypeOK`; `OneCombinedFilter`: a lost answer, a restart or an interrupted migration does not make a second filter; `AnswerIsStored`: what a success told the user is what mailcow holds; `SavedRuns`: the filter written is the active one; `MigrationKeepsRules`: no step but a user's own write removes the last copy of a readable rule; `Serialised` (refinement of `RuleStore`): each command takes effect at most once, at one instant, in the order of issue |
| `TwoClients` | two installations, calls that land late; 2 commands, 1 fault, 1 late call | `ForeignUntouched`, `CombinedFilterStays` under stale ids; `CreatedOnce`: a save that is sent again stores its rule once; `EveryCommandEnds`, also when both migrate the same filters |
| `AccountLock` | two accounts, five calls, every assignment | `TypeOK`, `MutualExclusion`, `MapIsTail`, `FirstInFirstOut` (refinement of `FifoLock`), `EveryCallIsReleased` |
| `Settings` | two accounts, four generations of stores, 4 messages, 2 restarts | `TypeOK`; `ImplementsStore` (refinement of `ConfigStore`); `LegacyKeysMoved`: the keys of v1 go only after they were taken over; `SourcesAgree`: the two functions that look for an account's URL |
| `Clients` | one account, two commands, two lookups, two changes of settings, server or password | `CachedUrlCurrent`: a cached client was made from the stored setting, or is about to be removed; `NoRejectedClient`; `EveryCallerAnswered` |
| `Windows` | three windows in all, two messages, one failed search or update | `OneWindow`, `ShowsItsMessage`, `EveryOpeningEnds` |
| `Page` | two accounts, two handlers at a time, 3 acts, 1 fault | `TypeOK`; `PageShowsStored`: the page at rest, its table and the stored list; `NumberedAsStored`: their order; `AccountsApart`; `EveryFlowEnds` |
| `Editor` | drafts of two conditions and two actions, 5 changes; three messages in the wizard | `StoredReads`: a script that is not read shows as an empty list, and the next save would overwrite it; `ResavedIsSame`; `TakesItsMessage` |
| `LocalRun` | three rules, three messages on two pages, 2 faults, 2 acts of the user | `DoneIsDone`, `OnlySuited`, `RunEnds` |
| `Import` | two openings, a filter of any kind or two of two kinds, a fault or an act of the user | `DeletedIsStored`, `WholeOrWarned` |
| `ProxyAuth` | two requests at a time, four in all, two addresses, two passwords, 5 ticks | `VerdictsAreRight`, `RateHolds` |
| `LateWrite` | two saves, the first lands late | a violation of `LastSaveStands`, see the next section |

Deadlock checking is off where the system may rest: when the commands that the
bounds allow have been answered, it stops. `Clients`, `Windows` and `Editor` check for
deadlock too.

**Bounds.** In every module the counters that only grow are bounded by a
constant named `Max...`: what users do, what fails, what a user or the outside changes.
Two acts that overlap, a fault during one of them and a later act that meets
what they left is the pattern that the properties speak of; the bounds allow it
everywhere.

- `OneClient`, `TwoClients`: two names, two readable bodies and an unreadable one,
  scripts of at most four rules: enough for a refused script (an import of two
  after two saves), namesakes, a move in both directions and an order outside
  the list. The mailboxes are: new with a foreign filter that runs; two v1
  filters, one of them unparsable, with a foreign one between them; a migration
  that stopped half way; two rules in a combined filter with an inactive foreign
  one. Three commands allow a first try, its repetition and a later command; two
  faults a failure during the recovery from a failure. `AnswerIsStored`,
  `SavedRuns`, `Serialised` and `MigrationKeepsRules` are checked for one
  installation without late calls only: between installations the code has no
  version check and promises nothing, and `LateWrite` shows what a late call does.
- `Settings`: one message at a time (`Client` has one member); with two the
  refinement fails, see `LostOverride`.
- `Clients`: two changes allow one during a lookup and one after its answer; the second
  lookup is the one after a reset. Accounts do not meet but in the event that empties the whole cache.
- `Page`: `Overlap` names what the user also starts while a handler is at work.
  `PageShowsStored` says nothing of the table while it is `torn` (`HalfDeleted`, below).
  `PageShowsStored` and `NumberedAsStored` are about a user who let the handlers end
  (`rushed` is false), with `Position` "end"; with "top" a copy is shown last and stored
  first. Bodies are two, so that an edit changes something. `NumberedAsStored` asks besides that
  every row of the last load is still there (`page.whole`). `AccountsApart` holds while nothing
  fails (`manager.js:643`, below) and for an `Overlap` without "switch", "edit" and "move".
- `LocalRun`: one run; the third rule moves the message before its other actions. `TwoRuns.cfg`
  checks `RunEnds` for two runs that overlap: the dialog of the first was closed with Esc, its
  buttons are the second one's, and it still ends.
- `Editor`: texts are without stars, since one with stars does not survive
  (`StarredText`); making a rule in the wizard counts as `Making` changes, so that
  one change can follow. The three messages: to the user from a stranger, with a
  chain of prefixes; to the user and another, of a list, with a reply address
  and a subject of nothing but a prefix, in the trash; from the user to
  the user. Their names have no commas and their subjects are short: what happens otherwise is
  below.
- `ProxyAuth`: one user, as the cache and the lockout keep users apart by key; two
  passwords and one change; one bucket for two addresses, so that every change of address
  evicts; four requests suffice for a lockout of two failures and a request against
  it, and for a bucket of two tokens to run dry. The cache is never full with
  one user. Slots, addresses and passwords are symmetric.

**Fairness** is weak and only of what the event loop and the answers guarantee:

- `Background`: `WF_vars(Work(c))`: each fetch ends, because `proxy_client.js:128`
  aborts it after 10 s, and the event loop runs what awaits it.
- `AccountLock`: of the next turn of each call: microtasks run, and the locked
  function ends.
- `ClientCache`: of each lookup, whose awaits are calls to Thunderbird that answer or
  reject, and of the caller that waits for it. `OpenWindow`: of the opening of each kind.
- `ManagerPage`, `LocalRunner`: of each handler and each run: its messages get
  an answer or an error.

Nothing is assumed of users, restarts, late calls, faults or the clock.

**Against a definition.** `RuleList.Removed` is written without recursion so
that it can be proved about; the assumption `RemovedIsFilter` of `MCBackground`
compares it with `SelectSeq` on all lists of up to four rules. `SourcesAgree`
compares two functions of the code that compute one thing, and `ResavedIsSame`
the writer with the reader.

## Where the code departs from its documents

`LateWrite` is a run of the project and a finding in `PROJECT.json`. The others
were met while modelling. Where a `.cfg` is named, TLC shows it with that file; where a
property and a run are named, with the property added to the run's file.

**Stored lists.**

- `LateWrite`: `background.js:35-37` says saves in one mailbox are serialised. A save
  aborted after 10 s can land after a newer, acknowledged one and replaces it.
- `LateAdd.cfg`: the same for the first save: a second combined filter appears.
- `ForeignFilter.cfg`: `README.md:230-231` says foreign filters are never touched.
  Saving the first rule switches a running one off (cascade). `ForeignUntouched`
  is the reading that holds: it is not deleted or rewritten.
- `FirstStart.cfg`: two installations without a combined filter both make one,
  without any fault.
- `FailedPurge.cfg`: `README.md:227-228` says migration is idempotent. A v1 filter whose
  deletion failed is recognised by its name; once the user has deleted or
  renamed the copy, the next read copies it again.
- `FailedImport.cfg`: `background.js:906` says that a failed write saved no rule. It may
  have saved all of them, and the dialog offers to import them again, which
  stores every rule twice under one id.

**Settings and clients** (module `MCAddonConfig`; `ClientCache`; `OpenWindow`).

- `LostOverride.cfg`: `config_loader.js:197` says `saveAccountConfig` saves the settings
  of one account. It writes all of them as read two awaits earlier: of two
  overlapping saves one is lost, and both pages are told ok.
- `PasswordsGone` (INVARIANT of `Settings`): `config_loader.js:23`, `:33` say that no password stays in
  `storage.local`. `setSelectedAccountId` and `setBaseUrlGlobal` write schema version
  3 without the migration; handled first, they leave the passwords there for good.
- `config_loader.js:406-408` says that a migration which found no account is tried
  again in the next session. Any save in between writes the new version, and
  the v1 keys, the password among them, stay.
- `StaleServer.cfg`: `config_loader.js:137-139` says that a derived URL is stored nowhere, so that it
  follows the account's server by itself. `getClientFor` derives it once for the life of the cached
  client, and Thunderbird's account settings send no storage event: the calls go to the old server
  until something else empties the cache. `CachedUrlCurrent` is the claim that holds, about
  settings that are stored.
- `StalePassword.cfg`: `config_loader.js:24-26` says the password is read whenever it is
  needed. `getClientFor` reads it once for the life of the cached client, and
  Thunderbird's logins send no event.
- `WizardShowsLast` (INVARIANT of `Windows`): `background.js:288-291` says that on each click an open wizard is given the new message.
  While it is being given the first one, the second is dropped and reported as opened.

**Manager** (module `MCManagerPage`).

- `HalfDeleted.cfg` (`TableShowsStored`): a deletion of several rows drops each from `state.rules` when
  it is answered, and draws the table at its end. When a later one fails it returns before that
  (`manager.js:779-786`): the deleted rows stay on the screen, can be selected, and their checkboxes
  send rules that are gone, until something draws the table again.
- `PageOrderIsStored` (INVARIANT of `Page`): `background.js:752-757` describes a repaired complaint about rules that
  move. After a deletion the page keeps its old order numbers; the editor sends
  one, and the rule is stored elsewhere than the page shows it. A move afterwards numbers the
  page anew and sends only the rules whose number changes: the page then looks as numbered as the
  stored list and shows another order until it is loaded again (five rules: delete one, edit one,
  move one).
- `manager.js:744`: with "top" a copy is shown last and stored first.
- `manager.js:647`: two loads for different accounts may end in either order: the
  rules of one are shown under the name of the other.
- `manager.js:643`: after a load that failed, the rules of the old account
  stay with the new one selected; moving or editing one stores it in the other
  mailbox as well. "New" shows a table of the new rule alone.
- `manager.js:1226`: the same without a failure. The account selector awaits an answer before it
  loads, and until the list is there the rows are the old account's. With any one of "switch", "edit" and "move" in
  `Overlap`, TLC finds a rule stored for two accounts (`AccountsApart`).

**Editor and wizard** (module `MCRuleEditor`).

- `StarredText.cfg`: `tests/sieve_adapter.test.js:79` says that reading gives back what was
  written. "starts with" and a text with stars comes back as another operator,
  and the next save stores a rule that takes other messages.
- `editor.js:186`: a list that was typed before "contains any of" was chosen is
  stored as one word, while the field shows it separated by commas.
- `OwnAddressUnused` (INVARIANT of `Editor`):
  `_locales/en/messages.json:248` says that the recipient template is not useful
  for a message to one's own addresses, and `wizard_prefs.js:12-13` that it is
  switched off. `supports` lets it pass whenever the author is somebody else
  (`templates.js:125-126`), and `apply` then takes the first recipient, that is the
  user's own address (`:141-142`; its comment says "the author"): the rule takes
  nearly all mail.
- `NothingOfUnread` (INVARIANT of `Editor`): none of the templates can be used without a message
  (`canApplyWithoutMessage`). When the message could not be read, all are
  greyed out, but "sender" stays selected and Create works: the condition is `from
  contains ""`, which every message satisfies, and the account is the default one.
- `templates.js:174`: a subject longer than 50 characters is cut and given "…": the
  condition looks for the "…" and takes no message, its own included. `TakesItsMessage`
  with a smaller `SubjectMax` shows it.
- `templates.js:49`: recipients are split at every comma, also one inside a quoted
  name ("Doe, John"); a message without recipients gets its author's address in
  a test of `to`. Neither rule takes its message.
- `wizard.js:234`: every try builds a new rule with a new id, so a repetition after a lost
  answer, or a second click while the first is under way, stores two; after a
  missing password the changes made in the editor are gone.

**Local runner** (module `MCLocalRunner`).

- `DoneIsDone` (`LocalRun` with `Rule <- TwoTags`): `local_runner.js:327-328` says that new tags are merged with the current
  ones. With two tag actions the second takes the first one's tag away.
- `local_runner.js:482`: a message that could not be fetched is judged as one without
  attachments; `local_runner.js:5-7` says that actions follow a match.
- `local_runner.js:113`: "from is" compares the whole line, the server the address.
- `manager.js:488`: Esc closes the dialog of a run that goes on; the next run takes its
  buttons, and the end of the first writes "Done." over the second.

**Import** (module `MCImportDialog`).

- `DeletedIsStored` (`Import` with `FilterLists <- Twins`): `manager.js:1106-1108` says that only what was imported is deleted. Rows
  find rules by name and filters are deleted by name: of two of one name one
  rule is imported, and both filters go.
- The same with `FilterLists <- TwoKinds`, `FreshName = "a"`, `MaxMishaps = 2`: after the listing the user deletes
  "a" and calls "b" "a"; the import stores the old "a", and the clean-up deletes what was "b".
- `LostTerm.cfg`, and the same with `FilterLists <- TwoActions`: `local_filter_mapper.js:42` says that everything that does not fit
  gives a warning. A term or an action that cannot be read is dropped before the mapper sees it
  (`implementation.js:485-515`).
- `local_filter_mapper.js:195-197` relies on `validateRule` for tags; nothing calls it
  for imported rules (`background.js:879`).
- `manager.js:1100`: the late error of an import whose dialog was closed enables Confirm in
  the reopened, still empty one: a click imports the old selection again.

**Proxy** (module `ProxyAuth`).

- `OldPasswordStaysOut` (PROPERTY of `ProxyAuth`): `auth.py:107-109` says that after a bind with the new password the old
  one stops working at once. A bind with the old one that Dovecot accepted
  before the change, and whose answer is taken in afterwards, evicts the new verdict
  and lives for a cache entry's time. `VerdictsAreRight` is the bound that holds.

## The proofs

`tlapm <module>_proofs.tla`. The theorems hold for any values of the constants that
satisfy the named assumptions of the modules (`NoOrderAssumption`, `MailcowAssumption`,
`BackgroundAssumption`, `InitialTablesAssumption`, `FreshIdsAssumption`,
`AccountLockAssumption`, `ConfigAssumption`, `InitialStoresAssumption`,
`ClientCacheAssumption`, `OpenWindowAssumption`, `RateLimiterAssumption`,
`ProxyAuthAssumption`, `ManagerAssumption`, `StoredAssumption`, `EditorAssumption`,
`WizardAssumption`, `RunnerAssumption`, `ImportAssumption`): any number of installations, commands, filters, messages,
requests and faults. TLC evaluates these assumptions in the runs. What a theorem
supposes beyond them it says in its ASSUME, and the counterexample that makes it
necessary is named here.

- `AccountLock_proofs`: `TypeCorrect`, `LockExcludes`, `MapHoldsThePending`. Mutual
  exclusion is not inductive: that a call may start when its predecessor has
  finished is safe only because all earlier ones have. `IInv` adds: the Map entry
  of an account is one of its unfinished calls (`MapEntryPending`) and the last of
  them (`MapEntryLast`), no unfinished call stands between a call and the one it
  waits for (`ChainHasNoGap`), and a call that was let in has only finished ones
  before it (`InOrder`). `CallsFormALine`: the lock implements `FifoLock`. The line of an
  account is the sequence of its unfinished calls in their order (`Unfinished`);
  entering appends the last one (`LastJoins`), releasing takes the first (`FirstLeaves`),
  and by `IInv` the call that starts is the first.
- `RuleList_proofs`, what the operators on rule lists do; the proofs of `Background` and
  `ManagerPage` use it. `UpdatedType`: each command makes a rule list of any rule list,
  whatever position an edit asks for (`NthExists` carries the deletion), without making an
  id occur twice (`UpdatedUnique`). `SavedElements`, `RemovedElements`,
  `SwitchedElements`: which rules the list holds afterwards.
- `Background_proofs`: `TypeCorrect` (one lemma per action). `Harmless`: a call that is an
  addition, an edit of a combined filter, or a deletion of an id given out before
  that is a v1 filter if it is there. A harmless call keeps all foreign and
  combined filters and leaves every other harmless call harmless. `CallsAreHarmless`: all
  calls on their way, or still able to land late, are harmless; from it
  `ForeignFiltersStay` and `CombinedFiltersStay`. The argument is about
  stale ids: an id read before an await may be used much later, and is still
  what it was because mailcow does not reuse ids and kinds do not change.
  `OneFilterOnceEstablished`: a mailbox that starts with a
  combined filter keeps exactly that one (`Established`: no client and no
  stray call is an addition). `OneFilterForOneClient`: one installation whose
  calls do not land late never makes a second one, from any mailbox
  (`Alone`: while it means to add, there is none). `FirstStart` and `LateAdd`
  show that neither hypothesis can be dropped.
  On the rules themselves, `NextFlow` says once for all
  actions where the rules of a filter, of a running command and of a late call come
  from; the invariants are proved from it.
  - `StoredOnce`: any number of installations, late calls and repetitions. `IdsInUse`: an id
    not yet given out stands nowhere; `OnceEach`: every list anywhere holds an id once.
    Supposed: nobody imports, since a batch imported again after an error is stored twice
    (`FailedImport`).
  - `AnswersAreStored`, `SavesRun`: `InSync`: after its read, what a client works on is what
    is stored, until it writes. Supposed: one installation whose calls do not land late
    (`LateWrite`), and drafts that can be read back (`OnlyReadable`), because a filter that
    cannot be read shows as an empty list; that the editor's drafts can is `StoredReads`.
  - `CommandsAreSerialised`: the same installation implements `RuleStore`. What a client is
    about to write is an outcome of its command on the list still stored (`Underways`), and
    what waits or may be repeated is what was issued (`AskedAsIssued`). The
    writing call is the instant of the command, the first call of a
    migration that of the adoption, and everything else a stutter. Supposed besides: imported rules do
    not carry ids still to be given out (`BatchesBelow`), and `crypto.randomUUID` may answer
    any id (`AnyId`), which `MCBackground` bounds.
  - `ReadingKeepsRules`: `Covered`: while a v1 filter is still there to be purged, its
    readable rules are in the list that the client holds; `Migrating`: that list extends
    the stored one, and once written it is the stored one.
- `AddonConfig_proofs`: `StoreKeepsItsShape`, for messages that overlap in any number:
  `PatchFits`: what was planned before an await still fits the store.
  `UrlSourcesAgree`. `MigrationLosesNothing` and `OneSettingAtATime` suppose
  one message at a time; with two they are false (`LostOverride`). `PlanInv`: the patch that is planned is the one that
  the store, as it is now, calls for; hence a write changes one entry of `ConfigStore`'s table or
  none, and the v1 keys go after their content has come.
- `ClientsAndWindows_proofs`, of the cache: `RejectedIsForgotten`, `CachedUrlIsCurrent`, `CachedClientIsOwn`. `CacheInv`:
  a cached promise was made for that account, so the catch handler, which empties the place of its
  own account, empties the right one. `CachedUrlIsCurrent` is about the setting that the client was made
  from: what it was read as is still stored, unless what empties the place is on its way. Of a URL
  that is derived it says nothing (`StaleServer`).
  Of the windows: `SingleWindow`: whoever is about to make a window has searched the tabs
  and found none, or has lost the only one that the search found; no one else opens one of that kind
  meanwhile. Excepted are the kinds of which a search failed, or the update of the window that a search
  had found: for these the code makes another window. `WizardShowsItsMessage`: the message is stored with the window before the opening is
  over.
- `ManagerPage_proofs`, for every preference, every set of overlaps and faults, any number of
  accounts and handlers.
  - `PageInvHolds`, and from it `PageTypeOK`. That ids are unique is not inductive. `PageInv` adds: who
    stands in a queue awaits an answer for that account, and stands there once (`Queued`); every id
    anywhere was given out before (`KnownIds`); the id of a copy or a draft under way that is not yet
    stored stands nowhere else (`NewIds`). `PageAndTable` is proved with it: `TableInv`: every row that the
    page holds is drawn as it is, and nothing else is drawn, unless a deletion is at work
    or has left the table `torn`. It needs `PageInv`, because a checkbox changes the row of its id in
    both, which is one row only if ids are unique.
  - `PageShows`: `ShowsInv`. While the user waits for handlers to end, either none is at work and
    the page holds what is stored (`AtEase`), or exactly one is (`UnderWay`), and what it holds tells how
    page and store differ: a switch is ahead of the stored rules by that rule, the rows that a
    move has still to send are rows of the page, a list that waits to be shown is the stored one.
    What the table shows follows by `TableInv`. Nothing is supposed of `Position`, `Overlap` or `Faults`. How the page's operators
    act on rows (`SortedRows`, `ShownRows`, `MovedRows`, `KeptRows`) is proved once, as lemmas.
  - `PageOrder`: `NumberInv`, on top of `ShowsInv`. Every row has the number of its place (`InPlace`), and so
    has the command of an edit or a draft (`Placed`), so that the server puts the rule where the page
    shows it. A move has still to send the rows of a window of the list (`Window`): the row of its first
    place is the command's, the others wait in their order, and outside of it page and server agree; an
    answer shortens the window by one (`WindowMoves`), because the stored rule that goes to the first
    place comes from inside. After half a move without a password nothing is said until the next load,
    and nothing but a load begins on that screen (`AuthInv`). Supposed: `Position` is "end", as the
    add-on ships it (with "top" a copy is stored first and shown last), and no copy is made while
    a screen or a handler blocks the button ("duplicate" not in `Overlap`): Ctrl+D on the
    password panel draws the table again in the order of the page (`manager.js:748`). TLC violates
    `NumberedAsStored` without either.
  - `AccountsStayApart`: as long as nothing fails (`Apart`), every handler works for the selected
    account, and no id of another one is in a handler or an editor, nor on the page unless a list is
    on its way. Supposed: the accounts start with different ids (`StoredApart`), and the user does not
    switch, edit or move while a handler is at work (`Patient`); none of the three can be dropped.
- `ProxyAuth_proofs`: `RateIsHeld`: `Levels` accounts for a bucket: what it held a while ago, plus
  what that while fills in, is at least what it holds and what was taken since. `VerdictsHold`:
  `Verdicts`: a verdict, cached or on its way, was right when it was taken,
  at most one bind before it was stored; `Lockouts`: as many failures as
  a lockout needs stand behind it, none of them older than the window.
- `Dialogs_proofs`: the local runner, the editor with the wizard, and the import.
  - `RunnerInvariant`: a run meets every message of the listing once (`InHand`: what it still has to look
    at, on the page in hand and beyond, occurs once and was listed), and as long as nothing failed it has
    done to each message what is due by then (`UpToDate`). From it `WholeRuleIsDone`, for any number of runs at a
    time. `CleanRunIsDone` adds the tags that are to be seen in the end. Supposed: one run (`OneRun`) and
    one tag action in a rule (`OneTagAction`), because the runner writes the tags that the page of the
    list told it of, and so takes away what was put there since. `ActionsAreForSuited` holds also of runs that fail; supposed:
    no condition asks for the absence of an attachment (`CertainRules`), since a message that cannot be
    fetched is judged as one without (`local_runner.js:482`).
  - `EditorStoresWhatReads`, `WizardStoresWhatReads`: `AcceptedBlock` implies `Readable`, test by test: what
    the server's check lets through has only tests that the reader knows. No induction is needed, because
    writer and reader take a list's elements one by one.
  - `CompatibleIsWhole`: `UnwarnedIsWhole`: a mapping without a warning has one condition for each term and
    one action for each action but "stop". It rests on what `FlattenSeq` makes of pieces of at most one element
    (`FlattenIs`). `ImportOK`: every row stands for the filter in its place. Supposed: every term and every action
    can be read (`AllRead`; `LostTerm` shows why), and the names of a list differ (`NamesApart`; `Twins`), also from
    "(no name)", which a nameless filter is given.
  - `DeletedHaveRules`: `StoredOK`: a filter that has the name of a listed one is the listed one
    (`Known`), and an opening that has come to its clean-up has its batch on the server. Supposed besides: names
    differ in more than case (`LowerNamesApart`), and no filter is given the name of another one that an
    opening has listed (`RenamesAreNew`, an action property; see `TwoKinds` above). No supposition is made about when the
    dialog is closed or opened again: a late answer of an old opening may enable the button of a
    third one's dialog, and the theorem covers that.

Only model-checked:

- the liveness properties, which are out of this prover's reach;
- `RuleEditor` and `Wizard` (`ResavedIsSame`, `TakesItsMessage`): what the
  scripts of `RuleText` mean is computed by recursion over texts, and a proof would be an
  induction over data.

## What is not modelled

- Mailcow's web UI as another writer, mailboxes that begin with two combined
  filters, and mailcow refusing a write for reasons of its own.
- The characters of scripts: tokens, quoting, the comments that mark a block; the v1 form
  beyond what a migration takes from it. Folder names in modified UTF-7, paths and URIs.
- The options page: it sends messages that `AddonConfig` models, one field at a
  time; its import dialog is the manager's, written a second time, and its section on
  new mail (`options.js:500-821`) changes folder settings inside Thunderbird.
- In the pages: the search field, which draws some rows only; wording, the keyboard's focus, the confirmation of a
  discarded draft, the loading of tags.
- The classification of HTTP answers into error kinds; the two-step check of an owner in
  the proxy, which is one step in `MailcowFilters`; the Fail2Ban publisher, a
  best-effort call that changes no verdict.
- The experiment API's search for a server and a password (an oracle of `ClientCache`), and its
  folder settings.
- The proxy's start-up, log formatting and the deployment scripts: pure I/O.

## The plan

The components that carry logic are modelled, and every safety property that a run checks is proved
but the two that are left to TLC above.

To model next, if the code grows there: the web UI as another writer of
`MailcowFilters`, and the options page's own import.
