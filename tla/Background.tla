----------------------------- MODULE Background -----------------------------
(***************************************************************************)
(* The rule commands of background.js against the filters of one mailbox.  *)
(*                                                                         *)
(* A client is one Thunderbird with the add-on; a user may have several.   *)
(* In each, the commands for the account run one after another in the      *)
(* order they were issued (withLockFor), and a command is                  *)
(*     read the filters, migrate v1 filters if there are any,              *)
(*     compute the new list, write it as one script, read back its id.     *)
(* Every await is a point where other clients and the server may step; the *)
(* code between two awaits is one action.                                  *)
(*                                                                         *)
(* A writing call has one of four fates: it is carried out and answered,   *)
(* it never takes effect, it takes effect but the answer is lost, or the   *)
(* client gives up (10 s timeout, restart) and it may land later.          *)
(***************************************************************************)
EXTENDS MailcowFilters, FiniteSetsExt

CONSTANTS
    Client,          \* the installations that share the mailbox
    Commands,        \* what the UI pages may ask
    InitialTables,   \* the mailbox's filters when the add-on is first started
    FirstFilter,     \* the first filter id mailcow has not given out yet
    FirstRule,       \* the first rule id not in use yet
    MaxOps,          \* bound: commands issued, over all clients
    MaxFaults,       \* bound: failed reads, lost calls, lost answers, restarts
    MaxLate          \* bound: calls that land after their client gave up

ASSUME BackgroundAssumption ==
    /\ Commands \subseteq CommandType
    /\ FirstFilter \in FilterIds
    /\ FirstRule \in Nat \ {NoId}
    /\ MaxOps \in Nat /\ MaxFaults \in Nat /\ MaxLate \in Nat

ASSUME InitialTablesAssumption ==
    \A t \in InitialTables :
        /\ IsTable(t)
        /\ \A id \in DOMAIN t : id < FirstFilter
        /\ \A id \in DOMAIN t : \A i \in DOMAIN t[id].rules : t[id].rules[i].id < FirstRule
        /\ Cardinality(OfKind(t, "v2")) <= 1

VARIABLES
    table,     \* the mailbox's filters at mailcow
    nextId,    \* the id mailcow gives the next filter
    nextRule,  \* the next unused rule id
    queue,     \* queue[c]: the commands under c's lock, the running one first
    stage,     \* stage[c]: the await the running command is at
    ctx,       \* ctx[c]: { rules, combinedFilterId } of the running command
    legacy,    \* legacy[c]: v1 filters its migration has still to delete
    stray,     \* calls given up by their client that may still land
    known,     \* known[c]: what c's last answer told its user, and what it may repeat
    adopted,   \* history: the v1 filters some completed migration write covered
    issued, faults, late

server == <<table, nextId>>
client == <<nextRule, queue, stage, ctx, legacy, known>>
network == <<stray, faults, late>>
vars == <<server, client, network, adopted, issued>>

Stages == {"idle", "migrating", "relisting", "purging", "ready", "writing", "confirming"}

NoCtx == [id |-> NoFilter, rules |-> <<>>]
Nothing == [ok |-> FALSE, wrote |-> FALSE, rules |-> <<>>, again |-> {}]

Init ==
    /\ table \in InitialTables
    /\ nextId = FirstFilter
    /\ nextRule = FirstRule
    /\ queue = [c \in Client |-> <<>>]
    /\ stage = [c \in Client |-> "idle"]
    /\ ctx = [c \in Client |-> NoCtx]
    /\ legacy = [c \in Client |-> {}]
    /\ stray = {}
    /\ known = [c \in Client |-> Nothing]
    /\ adopted = {}
    /\ issued = 0 /\ faults = 0 /\ late = 0

-----------------------------------------------------------------------------
(***************************************************************************)
(* Reading the table: listRulesAndContext.                                 *)
(***************************************************************************)
V1(t) == OfKind(t, "v1")
V2(t) == OfKind(t, "v2")

\* Mutant: the lowest filter id of the mailbox, whoever owns it.
AnyCanonId(t) == IF V2(t) = {} THEN NoFilter ELSE Min(DOMAIN t)

CanonId(t) == IF V2(t) = {} THEN NoFilter ELSE Min(V2(t))

Readable(rules) == \A i \in DOMAIN rules : rules[i].body \notin Unreadable

\* The canonical combined filter; one that does not parse is read as empty.
CanonRules(t) ==
    IF V2(t) # {} /\ Readable(t[CanonId(t)].rules) THEN t[CanonId(t)].rules ELSE <<>>

Loaded(t) == [id |-> CanonId(t), rules |-> CanonRules(t)]

\* The v1 filters that are copied: those that parse and have no namesake in v2.
ToMigrate(t) ==
    LET taken == {CanonRules(t)[i].name : i \in DOMAIN CanonRules(t)} \ Blank
    IN  {id \in V1(t) : /\ Readable(t[id].rules)
                        /\ t[id].rules[1].name \notin taken}

\* Their rules in the order mailcow listed them: on when the filter was on.
Copies(t, order, fresh) ==
    [i \in DOMAIN order |->
        [t[order[i]].rules[1] EXCEPT !.id = fresh + i - 1, !.active = t[order[i]].active]]

\* Mutant: the re-read looks for another description and finds nothing.
FoundNone(t) == {NoFilter}

\* A filter id a re-read may pick: the first combined one in mailcow's order.
Found(t) == IF V2(t) = {} THEN {NoFilter} ELSE V2(t)

Running(c) == Head(queue[c])

-----------------------------------------------------------------------------
(***************************************************************************)
(* The fates of a writing call m.                                          *)
(***************************************************************************)
CarriedOut(m) ==
    /\ Accepts(table, m)
    /\ table' = After(table, nextId, m)
    /\ nextId' = NextIdAfter(nextId, m)

Fault == faults < MaxFaults /\ faults' = faults + 1

Delivered(m) == CarriedOut(m) /\ UNCHANGED network

Refused(m) == ~Accepts(table, m) /\ UNCHANGED <<server, network>>

LostBefore(m) == Fault /\ UNCHANGED <<server, stray, late>>

LostAfter(m) == Fault /\ CarriedOut(m) /\ UNCHANGED <<stray, late>>

GivenUp(m) ==
    /\ late < MaxLate
    /\ late' = late + 1
    /\ stray' = stray \cup {<<late, m>>}
    /\ UNCHANGED <<server, faults>>

Failed(m) == Refused(m) \/ LostBefore(m) \/ LostAfter(m) \/ GivenUp(m)

-----------------------------------------------------------------------------
(***************************************************************************)
(* The steps of a client.                                                  *)
(***************************************************************************)
GoTo(c, s) == stage' = [stage EXCEPT ![c] = s]

\* Mutant: the v1 filters of a failed migration are left over for the next command.
AnswerKeepsLegacy(c, reply) ==
    /\ known' = [known EXCEPT ![c] = reply]
    /\ queue' = [queue EXCEPT ![c] = Tail(@)]
    /\ ctx' = [ctx EXCEPT ![c] = NoCtx]
    /\ GoTo(c, "idle")
    /\ UNCHANGED legacy

\* The promise settles, the lock passes to the next command.
Answer(c, reply) ==
    /\ known' = [known EXCEPT ![c] = reply]
    /\ queue' = [queue EXCEPT ![c] = Tail(@)]
    /\ ctx' = [ctx EXCEPT ![c] = NoCtx]
    /\ legacy' = [legacy EXCEPT ![c] = {}]
    /\ GoTo(c, "idle")

Success(c, wrote) == [ok |-> TRUE, wrote |-> wrote, rules |-> ctx[c].rules, again |-> {}]

\* After an error the editor and the import dialog stay open with what they sent.
Error(c) ==
    [Nothing EXCEPT !.again =
        IF Running(c).op \in {"saveRule", "importLocalFilters"} THEN {Running(c)} ELSE {}]

Issue(c, cmd) ==
    /\ issued < MaxOps
    /\ Target(cmd) < nextRule
    /\ queue' = [queue EXCEPT ![c] = Append(@, Stamped(cmd, nextRule))]
    /\ nextRule' = nextRule + Minted(cmd)
    /\ issued' = issued + 1
    /\ UNCHANGED <<server, network, stage, ctx, legacy, known, adopted>>

\* The user confirms the dialog again.
Repeat(c) ==
    /\ issued < MaxOps
    /\ \E cmd \in known[c].again : queue' = [queue EXCEPT ![c] = Append(@, cmd)]
    /\ known' = [known EXCEPT ![c] = Nothing]
    /\ issued' = issued + 1
    /\ UNCHANGED <<server, network, nextRule, stage, ctx, legacy, adopted>>

Load(c) ==
    /\ stage[c] = "idle"
    /\ queue[c] # <<>>
    /\ V1(table) = {}
    /\ ctx' = [ctx EXCEPT ![c] = Loaded(table)]
    /\ GoTo(c, "ready")
    /\ UNCHANGED <<server, network, nextRule, queue, legacy, known, adopted, issued>>

\* Mutant: the migration will also delete the combined filter it has just rewritten.
StartMigrationSweeps(c) ==
    /\ stage[c] = "idle" /\ queue[c] # <<>> /\ V1(table) # {}
    /\ \E order \in SetToSeqs(ToMigrate(table)) :
         /\ ctx' = [ctx EXCEPT ![c] =
                      [id |-> CanonId(table),
                       rules |-> CanonRules(table) \o Copies(table, order, nextRule)]]
         /\ nextRule' = nextRule + Len(order)
    /\ legacy' = [legacy EXCEPT ![c] = V1(table) \cup V2(table)]
    /\ GoTo(c, "migrating")
    /\ UNCHANGED <<server, network, queue, known, adopted, issued>>

StartMigration(c) ==
    /\ stage[c] = "idle"
    /\ queue[c] # <<>>
    /\ V1(table) # {}
    /\ \E order \in SetToSeqs(ToMigrate(table)) :
         /\ ctx' = [ctx EXCEPT ![c] =
                      [id |-> CanonId(table),
                       rules |-> CanonRules(table) \o Copies(table, order, nextRule)]]
         /\ nextRule' = nextRule + Len(order)
    /\ legacy' = [legacy EXCEPT ![c] = V1(table)]
    /\ GoTo(c, "migrating")
    /\ UNCHANGED <<server, network, queue, known, adopted, issued>>

\* The list call fails, after its one retry, or there is no password to make it with:
\* the command fails.
ReadFails(c) ==
    /\ \/ stage[c] = "idle" /\ queue[c] # <<>>
       \/ stage[c] \in {"relisting", "confirming"}
    /\ Fault
    /\ Answer(c, Error(c))
    /\ UNCHANGED <<server, stray, late, nextRule, adopted, issued>>

MigrationWritten(c) ==
    /\ stage[c] = "migrating"
    /\ Delivered(WriteOf(ctx[c].id, ctx[c].rules))
    /\ GoTo(c, IF ctx[c].id = NoFilter THEN "relisting" ELSE "purging")
    /\ adopted' = adopted \cup legacy[c]
    /\ UNCHANGED <<nextRule, queue, ctx, legacy, known, issued>>

MigrationRelisted(c) ==
    /\ stage[c] = "relisting"
    /\ \E id \in Found(table) :
         ctx' = [ctx EXCEPT ![c].id = id]
    /\ GoTo(c, "purging")
    /\ UNCHANGED <<server, network, nextRule, queue, legacy, known, adopted, issued>>

\* Mutant: a deletion that failed is tried again until it succeeds.
PurgeRetries(c) ==
    /\ stage[c] = "purging"
    /\ \E id \in legacy[c] :
         \/ /\ Delivered(DeletionOf(id))
            /\ legacy' = [legacy EXCEPT ![c] = @ \ {id}]
            /\ GoTo(c, IF legacy[c] = {id} THEN "ready" ELSE "purging")
         \/ Failed(DeletionOf(id)) /\ UNCHANGED <<legacy, stage>>
    /\ UNCHANGED <<nextRule, queue, ctx, known, adopted, issued>>

\* One deletion after another; a failed one is only logged.
Purge(c) ==
    /\ stage[c] = "purging"
    /\ \E id \in legacy[c] :
         /\ Delivered(DeletionOf(id)) \/ Failed(DeletionOf(id))
         /\ legacy' = [legacy EXCEPT ![c] = @ \ {id}]
         /\ GoTo(c, IF legacy[c] = {id} THEN "ready" ELSE "purging")
    /\ UNCHANGED <<nextRule, queue, ctx, known, adopted, issued>>

Reply(c) ==
    /\ stage[c] = "ready"
    /\ Rejected(Running(c)) \/ ~NeedsWrite(Running(c), ctx[c].rules)
    /\ Answer(c, IF Rejected(Running(c)) THEN Error(c) ELSE Success(c, FALSE))
    /\ UNCHANGED <<server, network, nextRule, adopted, issued>>

\* Mutant: the new list is computed from the last answer instead of the list just read.
StartWriteFromCache(c) ==
    /\ stage[c] = "ready"
    /\ ~Rejected(Running(c)) /\ NeedsWrite(Running(c), known[c].rules)
    /\ ctx' = [ctx EXCEPT ![c].rules = Updated(Running(c), known[c].rules, nextRule)]
    /\ nextRule' = nextRule + Minted(Running(c))
    /\ GoTo(c, "writing")
    /\ UNCHANGED <<server, network, queue, legacy, known, adopted, issued>>

StartWrite(c) ==
    /\ stage[c] = "ready"
    /\ ~Rejected(Running(c))
    /\ NeedsWrite(Running(c), ctx[c].rules)
    /\ ctx' = [ctx EXCEPT ![c].rules = Updated(Running(c), @, nextRule)]
    /\ nextRule' = nextRule + Minted(Running(c))
    /\ GoTo(c, "writing")
    /\ UNCHANGED <<server, network, queue, legacy, known, adopted, issued>>

\* Mutant: writeCombined is not awaited.
WrittenBlindly(c) ==
    /\ stage[c] = "writing"
    /\ \/ Delivered(WriteOf(ctx[c].id, ctx[c].rules))
       \/ Failed(WriteOf(ctx[c].id, ctx[c].rules))
    /\ Answer(c, Success(c, TRUE))
    /\ UNCHANGED <<nextRule, adopted, issued>>

Written(c) ==
    /\ stage[c] = "writing"
    /\ Delivered(WriteOf(ctx[c].id, ctx[c].rules))
    /\ IF ctx[c].id = NoFilter
       THEN GoTo(c, "confirming") /\ UNCHANGED <<queue, ctx, legacy, known>>
       ELSE Answer(c, Success(c, TRUE))
    /\ UNCHANGED <<nextRule, adopted, issued>>

\* writeCombined reads the new filter's id back; no caller uses it.
Confirm(c) ==
    /\ stage[c] = "confirming"
    /\ Answer(c, Success(c, TRUE))
    /\ UNCHANGED <<server, network, nextRule, adopted, issued>>

\* Mutant: an error of writeCombined is caught and the command answers normally.
WriteFailsSilently(c) ==
    /\ stage[c] \in {"migrating", "writing"}
    /\ Failed(WriteOf(ctx[c].id, ctx[c].rules))
    /\ Answer(c, Success(c, TRUE))
    /\ UNCHANGED <<nextRule, adopted, issued>>

\* Mutant: an error of the migration's write is caught like those of its deletions.
WriteFailsContinues(c) ==
    /\ stage[c] = "migrating"
    /\ Failed(WriteOf(ctx[c].id, ctx[c].rules))
    /\ GoTo(c, "purging")
    /\ UNCHANGED <<nextRule, queue, ctx, legacy, known, adopted, issued>>

WriteFails(c) ==
    /\ stage[c] \in {"migrating", "writing"}
    /\ Failed(WriteOf(ctx[c].id, ctx[c].rules))
    /\ Answer(c, Error(c))
    /\ UNCHANGED <<nextRule, adopted, issued>>

-----------------------------------------------------------------------------
(***************************************************************************)
(* What happens around the clients.                                        *)
(***************************************************************************)

\* The calls a client may have underway at its current await.
Underway(c) ==
    CASE stage[c] \in {"migrating", "writing"} -> {WriteOf(ctx[c].id, ctx[c].rules)}
      [] stage[c] = "purging" -> {DeletionOf(id) : id \in legacy[c]}
      [] OTHER -> {}

\* Thunderbird stops and starts again, or only its background page does, and a dialog
\* stays open: nothing of the commands is stored, and a call underway is lost or left
\* to the server.
Restart(c) ==
    /\ queue[c] # <<>>
    /\ Fault
    /\ queue' = [queue EXCEPT ![c] = <<>>]
    /\ ctx' = [ctx EXCEPT ![c] = NoCtx]
    /\ legacy' = [legacy EXCEPT ![c] = {}]
    /\ \E reply \in {Nothing, Error(c)} : known' = [known EXCEPT ![c] = reply]
    /\ GoTo(c, "idle")
    /\ \/ UNCHANGED <<stray, late>>
       \/ \E m \in Underway(c) :
            /\ late < MaxLate
            /\ late' = late + 1
            /\ stray' = stray \cup {<<late, m>>}
    /\ UNCHANGED <<server, nextRule, adopted, issued>>

LandLate ==
    \E s \in stray :
        /\ CarriedOut(s[2])
        /\ stray' = stray \ {s}
        /\ UNCHANGED <<client, faults, late, adopted, issued>>

-----------------------------------------------------------------------------
Work(c) ==
    \/ Load(c) \/ StartMigration(c) \/ ReadFails(c)
    \/ MigrationWritten(c) \/ MigrationRelisted(c) \/ Purge(c)
    \/ Reply(c) \/ StartWrite(c) \/ Written(c) \/ Confirm(c) \/ WriteFails(c)

Next ==
    \/ \E c \in Client : \/ \E cmd \in Commands : Issue(c, cmd)
                         \/ Repeat(c)
                         \/ Work(c)
                         \/ Restart(c)
    \/ LandLate

Spec == Init /\ [][Next]_vars

\* Every await of a client ends (proxy_client.js aborts a fetch after 10 s) and
\* the event loop runs what follows it.
Fairness == \A c \in Client : WF_vars(Work(c))
FairSpec == Spec /\ Fairness

-----------------------------------------------------------------------------
(***************************************************************************)
(* Properties.                                                             *)
(***************************************************************************)

ServerOK ==
    /\ IsTable(table)
    /\ nextId \in FilterIds
    /\ \A id \in DOMAIN table : id < nextId

\* No command runs outside the queue, and only a migration has filters to delete.
ClientOK ==
    /\ nextRule \in Nat \ {NoId}
    /\ queue \in [Client -> Seq(CommandType)]
    /\ stage \in [Client -> Stages]
    /\ ctx \in [Client -> [id : Nat, rules : Seq(Rules)]]
    /\ legacy \in [Client -> SUBSET FilterIds]
    /\ known \in [Client -> [ok : BOOLEAN, wrote : BOOLEAN, rules : Seq(Rules),
                             again : SUBSET CommandType]]
    /\ \A c \in Client : stage[c] # "idle" => queue[c] # <<>>
    /\ \A c \in Client : stage[c] \in {"migrating", "relisting", "purging"} <=> legacy[c] # {}

NetworkOK ==
    /\ stray \subseteq (0 .. late - 1) \X Messages
    /\ faults \in 0 .. MaxFaults
    /\ late \in 0 .. MaxLate

\* Every variable keeps its shape, every filter id in use was given out by mailcow,
\* and what a client keeps between two awaits fits the await it is at.
TypeOK ==
    /\ ServerOK /\ ClientOK /\ NetworkOK
    /\ adopted \subseteq FilterIds
    /\ issued \in 0 .. MaxOps

\* README "Foreign filters are never touched": no step, whatever was lost, late or
\* interleaved before it, deletes or rewrites a filter without our marker.
ForeignUntouched ==
    [][\A id \in OfKind(table, "foreign") :
          id \in DOMAIN table' /\ table'[id].kind = "foreign"]_vars

\* "All rules of one user are kept in ONE mailcow filter" (background.js:30).
OneCombinedFilter == Cardinality(V2(table)) <= 1

\* A migration deletes v1 filters only: a combined filter, once there, stays, so the
\* id a client read before an await still names a combined filter after it.
CombinedFilterStays == [][V2(table) \subseteq V2(table')]_vars

\* README "Foreign filters are never touched", read strictly: a foreign filter that
\* runs goes on running.
ForeignKeepsRunning ==
    [][\A id \in OfKind(table, "foreign") :
          table[id].active => id \in DOMAIN table' /\ table'[id].active]_vars

NamesIn(t) ==
    LET rows == {id \in V1(t) \cup V2(t) : Readable(t[id].rules)}
    IN  UNION {{t[id].rules[i].name : i \in DOMAIN t[id].rules} : id \in rows}

\* Reading the list never loses a rule: unless a user's own write is underway, no
\* step removes the last copy of a rule the add-on can read, however many times a
\* migration is cut short and run again.
MigrationKeepsRules ==
    [][(\A c \in Client : stage[c] # "writing") => NamesIn(table) \subseteq NamesIn(table')]_vars

\* README "Migration is idempotent": a v1 filter that a completed migration write
\* covered is not one the next reading would copy into the list again.
MigratedOnce == ToMigrate(table) \cap adopted = {}

\* What the last answer told the user is what mailcow holds: once the account is
\* quiet, the rules of a successful answer are the combined filter's, in its order.
AnswerIsStored ==
    \A c \in Client :
        known[c].ok /\ stage[c] = "idle" => known[c].rules = CanonRules(table)

\* The same for writes alone: an acknowledged write is not undone by an older one.
LastSaveStands ==
    \A c \in Client :
        known[c].ok /\ known[c].wrote /\ stage[c] = "idle" =>
            known[c].rules = CanonRules(table)

\* A save repeated after an error, whatever became of the first try, stores the rule
\* once: no filter of ours holds an id twice.
CreatedOnce ==
    \A id \in V2(table) :
        \A i, j \in DOMAIN table[id].rules :
            table[id].rules[i].id = table[id].rules[j].id => i = j

\* "If writeCombined failed, none of the accumulated rules is saved" (background.js:906):
\* while the import dialog shows the error, no rule of its batch is stored.
FailedImportSavesNothing ==
    \A c \in Client : \A cmd \in known[c].again :
        cmd.op = "importLocalFilters" =>
            \A id \in V2(table), i \in DOMAIN cmd.batch :
                ~Holds(table[id].rules, cmd.batch[i].id)

\* A saved rule runs: after a successful write the combined filter is the active one.
SavedRuns ==
    \A c \in Client :
        known[c].ok /\ known[c].wrote /\ stage[c] = "idle" =>
            {id \in DOMAIN table : table[id].active} = {CanonId(table)}

\* No client waits for ever: a failed command passes the lock on, so every command
\* issued is answered (or dropped by a restart).
EveryCommandEnds == \A c \in Client : queue[c] # <<>> ~> queue[c] = <<>>
=============================================================================
