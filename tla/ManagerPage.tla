----------------------------- MODULE ManagerPage -----------------------------
(***************************************************************************)
(* The rule list window, manager.js: what the page holds of the selected   *)
(* account, what the user does to it, and the messages that carry it to    *)
(* the background page.  The background carries out the commands of an     *)
(* account one after another (AccountLock) and each of them as a whole     *)
(* (BackgroundRefinement); here it is one step, RuleList's Updated.        *)
(*                                                                         *)
(* A flow is a handler of the page that awaits an answer.                  *)
(***************************************************************************)
EXTENDS RuleList, TLC

CONSTANTS
    Account, Slot,
    Stored0,         \* the rules that each account starts with
    FirstRule,       \* the first id that newRule gives out
    Position,        \* the preference newRulePosition: "top" or "end"
    Overlap,         \* what the user also starts while a handler is at work
    Faults,          \* the ways a message may fail
    MaxOps, MaxFaults   \* bounds: what the user does, and what fails

NoAccount == "none"

ASSUME ManagerAssumption ==
    /\ Slot \subseteq Nat /\ 1 \in Slot /\ NoAccount \notin Account
    /\ Position \in {"top", "end"} /\ Faults \subseteq {"error", "no_password", "lost"}
    /\ MaxOps \in Nat /\ MaxFaults \in Nat

ASSUME StoredAssumption ==
    /\ FirstRule \in Nat \ {NoId}
    /\ Stored0 \in [Account -> Seq(Rules)]
    /\ \A a \in Account :
          /\ \A i, j \in DOMAIN Stored0[a] : Stored0[a][i].id = Stored0[a][j].id => i = j
          /\ \A i \in DOMAIN Stored0[a] : Stored0[a][i].id \in 1 .. FirstRule - 1

VARIABLES
    server,    \* server[a]: the stored list
    queue,     \* queue[a]: slots whose message the background has yet to carry out
    flows,     \* flows[s]: a handler of the page, or NoFlow
    page,      \* `state' of manager.js, the open dialog, the screen shown, and, as history,
               \* the account of the last load if it succeeded, and whether every row of it
               \* is still there
    table,     \* the rows as they were last drawn, and, as history, `torn': a deletion ended
               \* half way and left deleted rows in the table
    fresh, ops, faults,
    lost,      \* history: a change was stored and its answer lost
    rushed     \* history: the user began something while a handler or the editor was at
               \* work, or searched while the list was not on the screen

vars == <<server, queue, flows, page, table, fresh, ops, faults, lost, rushed>>

\* A rule of the page is a rule and the order it was given with.
Row(rule, order) == [rule |-> rule, order |-> order]
Listed(rules) == [i \in DOMAIN rules |-> Row(rules[i], i - 1)]
NoDraft == Row([id |-> NoId], 0)

IdsOf(rules) == {rules[i].id : i \in DOMAIN rules}
PageIds == {page.rules[i].rule.id : i \in DOMAIN page.rules}
TableIds == {table.rows[i].rule.id : i \in DOMAIN table.rows}
TableIndex(id) == CHOOSE i \in DOMAIN table.rows : table.rows[i].rule.id = id
PageIndex(id) == CHOOSE i \in DOMAIN page.rules : page.rules[i].rule.id = id

\* Array.sort is stable.
SortedByOrder(rows) ==
    LET Before(i, j) == \/ rows[i].order < rows[j].order
                        \/ rows[i].order = rows[j].order /\ i < j
        Rank(i) == 1 + Cardinality({j \in DOMAIN rows : Before(j, i)})
    IN  [k \in DOMAIN rows |-> rows[CHOOSE i \in DOMAIN rows : Rank(i) = k]]

\* `rest' holds the rules whose turn is still to come, `tied' the ids of those that are
\* the same object as the page's; `answer' is a list that awaits listFolders, or an error.
NoAnswer == [kind |-> "none", rules |-> <<>>]
NoFlow == [op |-> "none", account |-> NoAccount, cmd |-> [op |-> "none"], rest |-> <<>>,
           tied |-> {}, answer |-> NoAnswer]

\* renderList: all rows anew.
Drawn == table' = [rows |-> page'.rules, torn |-> FALSE]

Screen(rules) == IF rules = <<>> THEN "empty" ELSE "table"
Blocked == page.busy \/ page.auth
Modal == page.draft # NoDraft
Shown == page.screen = "table" /\ ~Modal
OnTable == page.screen \in {"table", "empty"}
Calm == \A s \in Slot : flows[s] = NoFlow
Free(s) == flows[s] = NoFlow /\ \A t \in Slot : flows[t] = NoFlow => s <= t

Single == IF Cardinality(page.selected) = 1 THEN page.selected \cap PageIds ELSE {}

Asked(op) ==
    /\ ops < MaxOps /\ ops' = ops + 1
    /\ op \in Overlap \/ Calm
    /\ rushed' = (rushed \/ ~Calm \/ Modal \/ (op = "search" /\ ~OnTable))

\* Every send reads the selected account anew.
Send(s, flow, account) ==
    /\ flows' = [flows EXCEPT ![s] = [flow EXCEPT !.account = account]]
    /\ queue' = [queue EXCEPT ![account] = Append(@, s)]

SaveCmd(row) ==
    [op |-> "saveRule", id |-> row.rule.id, order |-> row.order,
     draft |-> [name |-> row.rule.name, body |-> row.rule.body, active |-> row.rule.active]]

ListFlow == [NoFlow EXCEPT !.op = "reload", !.cmd = [op |-> "listRules"]]
Loading(p) == [p EXCEPT !.busy = TRUE, !.auth = FALSE, !.screen = "loading"]
LazyAuth(p) == [p EXCEPT !.auth = TRUE, !.screen = "auth"]

Init ==
    /\ server = Stored0
    /\ \E a \in Account :
          /\ page = [rules |-> <<>>, account |-> a, loaded |-> NoAccount, selected |-> {},
                     busy |-> TRUE, auth |-> FALSE, screen |-> "loading", draft |-> NoDraft,
                     whole |-> FALSE]
          /\ queue = [b \in Account |-> IF b = a THEN <<1>> ELSE <<>>]
          /\ flows = [s \in Slot |-> IF s = 1 THEN [ListFlow EXCEPT !.account = a] ELSE NoFlow]
    /\ table = [rows |-> <<>>, torn |-> FALSE]
    /\ fresh = FirstRule
    /\ ops = 0 /\ faults = 0 /\ lost = FALSE /\ rushed = FALSE

-----------------------------------------------------------------------------
(***************************************************************************)
(* What the user does.                                                     *)
(***************************************************************************)
\* Click, control-click and shift-click: whatever set of drawn rows they end with.
Select ==
    /\ Shown
    /\ \E ids \in SUBSET TableIds \ {{}} :
          ids # page.selected /\ page' = [page EXCEPT !.selected = ids]
    /\ UNCHANGED <<server, queue, flows, table, fresh, ops, faults, lost, rushed>>

\* Typing into the search box draws the table again, over any other screen.
Search ==
    /\ "search" \in Overlap /\ ~Modal /\ Asked("search")
    /\ page' = [page EXCEPT !.screen = Screen(page.rules)]
    /\ Drawn
    /\ UNCHANGED <<server, queue, flows, fresh, faults, lost>>

\* The reload button, or F5, which nothing blocks.
Reload(s) ==
    /\ Free(s) /\ Asked("reload")
    /\ Modal => "reload" \in Overlap
    /\ page' = Loading(page)
    /\ Send(s, ListFlow, page.account)
    /\ UNCHANGED <<server, table, fresh, faults, lost>>

\* Mutant: the selector changes, the rules do not.
SwitchOnly(s, a) ==
    /\ Free(s) /\ ~Modal /\ a # page.account
    /\ Asked("switch")
    /\ page' = [page EXCEPT !.account = a]
    /\ UNCHANGED <<server, queue, flows, table, fresh, faults, lost>>

\* The account selector: the page says so to the background first, the rules come later.
SwitchAccount(s, a) ==
    /\ Free(s) /\ ~Modal /\ a # page.account
    /\ Asked("switch")
    /\ page' = [page EXCEPT !.account = a]
    /\ flows' = [flows EXCEPT ![s] = [NoFlow EXCEPT !.op = "switch"]]
    /\ UNCHANGED <<server, table, queue, fresh, faults, lost>>

SwitchTold(s) ==
    /\ flows[s].op = "switch"
    /\ page' = Loading(page)
    /\ Send(s, ListFlow, page.account)
    /\ UNCHANGED <<server, table, fresh, ops, faults, lost, rushed>>

\* The retry buttons of the error screen (bootstrap finds its account again) and of the
\* password screen.
Retry(s) ==
    /\ Free(s) /\ page.screen \in {"error", "auth"} /\ ~Modal
    /\ Asked("retry")
    /\ \E a \in Account :
          /\ page.screen = "auth" => a = page.account
          /\ page' = Loading([page EXCEPT !.account = a])
          /\ Send(s, ListFlow, a)
    /\ UNCHANGED <<server, table, fresh, faults, lost>>

\* The same row object is in the list, in the table and in the turns of a move.
WithActive(rows, ids, id, active) ==
    [i \in DOMAIN rows |->
        IF rows[i].rule.id = id /\ id \in ids THEN [rows[i] EXCEPT !.rule.active = active] ELSE rows[i]]

SetActive(fs, id, active) ==
    [t \in Slot |-> [fs[t] EXCEPT !.rest = WithActive(@, fs[t].tied, id, active)]]

Toggle(s, id) ==
    /\ Free(s) /\ Shown /\ id \in TableIds /\ Asked("toggle")
    /\ \A t \in Slot : ~(flows[t].op = "toggle" /\ flows[t].cmd.id = id)
    /\ LET active == ~table.rows[TableIndex(id)].rule.active
       IN  /\ page' = [page EXCEPT !.rules = WithActive(@, {id}, id, active)]
           /\ table' = [table EXCEPT !.rows = WithActive(@, {id}, id, active)]
           /\ flows' = [SetActive(flows, id, active) EXCEPT ![s] =
                 [NoFlow EXCEPT !.op = "toggle", !.account = page.account, !.tied = {id},
                                !.cmd = [op |-> "setRuleActive", id |-> id, active |-> active]]]
    /\ queue' = [queue EXCEPT ![page.account] = Append(@, s)]
    /\ UNCHANGED <<server, fresh, faults, lost>>

MinOrder == CHOOSE m \in {0} \cup {page.rules[i].order : i \in DOMAIN page.rules} :
                \A i \in DOMAIN page.rules : m <= 0 /\ m <= page.rules[i].order

NextOrderForNew == IF Position = "top" THEN MinOrder - 1 ELSE Len(page.rules)

New ==
    /\ ~Modal /\ (~Blocked \/ page.screen = "empty") /\ Asked("new")
    /\ \E name \in Names, body \in Bodies :
          page' = [page EXCEPT !.draft =
              Row([id |-> fresh, name |-> name, body |-> body, active |-> TRUE], NextOrderForNew)]
    /\ fresh' = fresh + 1
    /\ UNCHANGED <<server, queue, flows, table, faults, lost>>

\* A double click works on a row at any time; the button when nothing is under way.
Edit ==
    /\ ~Modal /\ (Shown \/ ~Blocked) /\ Asked("edit")
    /\ \E id \in Single, body \in Bodies :
          page' = [page EXCEPT !.draft = [page.rules[PageIndex(id)] EXCEPT !.rule.body = body]]
    /\ UNCHANGED <<server, queue, flows, table, fresh, faults, lost>>

CancelDraft ==
    /\ Modal /\ \A t \in Slot : flows[t].op # "save"
    /\ page' = [page EXCEPT !.draft = NoDraft]
    /\ UNCHANGED <<server, queue, flows, table, fresh, ops, faults, lost, rushed>>

\* The editor's save button, once more after an error.
Save(s) ==
    /\ Free(s) /\ Modal /\ \A t \in Slot : flows[t].op # "save"
    /\ ops < MaxOps /\ ops' = ops + 1
    /\ Send(s, [NoFlow EXCEPT !.op = "save", !.cmd = SaveCmd(page.draft)], page.account)
    /\ UNCHANGED <<server, page, table, fresh, faults, lost, rushed>>

\* The button, or Ctrl+D, which nothing blocks.
Duplicate(s) ==
    /\ Free(s) /\ Asked("duplicate")
    /\ Blocked \/ Modal => "duplicate" \in Overlap
    /\ \E id \in Single :
          Send(s, [NoFlow EXCEPT !.op = "duplicate",
                     !.cmd = SaveCmd(Row([page.rules[PageIndex(id)].rule EXCEPT !.id = fresh],
                                         NextOrderForNew))],
               page.account)
    /\ page' = [page EXCEPT !.busy = TRUE]
    /\ fresh' = fresh + 1
    /\ UNCHANGED <<server, table, faults, lost>>

DeleteTurn(flow) ==
    [flow EXCEPT !.rest = Tail(@), !.cmd = [op |-> "deleteRule", id |-> Head(flow.rest).rule.id]]

Delete(s) ==
    /\ Free(s) /\ ~Modal /\ (Shown \/ ~Blocked) /\ Asked("delete")
    /\ LET targets == AtPositions(page.rules,
                          {i \in DOMAIN page.rules : page.rules[i].rule.id \in page.selected})
       IN  /\ targets # <<>>
           /\ Send(s, DeleteTurn([NoFlow EXCEPT !.op = "delete", !.rest = targets]), page.account)
    /\ page' = [page EXCEPT !.busy = TRUE]
    /\ UNCHANGED <<server, table, fresh, faults, lost>>

Numbered(rows) == [i \in DOMAIN rows |-> Row(rows[i].rule, i - 1)]

\* The rows whose order is not their position, in the order of the list.
Touched(rows) == AtPositions(Numbered(rows), {i \in DOMAIN rows : rows[i].order # i - 1})

SaveTurn(flow) == [flow EXCEPT !.rest = Tail(@), !.cmd = SaveCmd(Head(flow.rest))]

\* Up, down, to the top, to the bottom: the page shows the move at once, and sends every
\* rule that got another number, one after the other.
Move(s) ==
    /\ Free(s) /\ ~Modal /\ ~Blocked /\ Asked("move")
    /\ \E id \in Single :
       LET i == PageIndex(id)
           n == Len(page.rules)
       IN  \E to \in ({1, n, i - 1, i + 1} \cap (1 .. n)) \ {i} :
           LET rows == InsertAt(RemoveAt(page.rules, i), to, page.rules[i])
               touched == Touched(rows)
           IN  IF touched = <<>>
               THEN /\ page' = [page EXCEPT !.rules = Numbered(rows), !.screen = "table"]
                    /\ UNCHANGED <<flows, queue>>
               ELSE /\ page' = [page EXCEPT !.rules = Numbered(rows), !.screen = "table",
                                            !.busy = TRUE]
                    /\ Send(s, SaveTurn([NoFlow EXCEPT !.op = "move", !.rest = touched,
                                                       !.tied = PageIds]), page.account)
    /\ Drawn
    /\ UNCHANGED <<server, fresh, faults, lost>>

-----------------------------------------------------------------------------
(***************************************************************************)
(* What the background does, and how the handler goes on with its answer.  *)
(* Answers come in the order of the commands, so that nothing of the page  *)
(* can tell when between the two its own steps fall.                       *)
(***************************************************************************)
AtHead(s, a) == queue[a] # <<>> /\ Head(queue[a]) = s

Carried(a, cmd) ==
    IF NeedsWrite(cmd, server[a]) THEN [server EXCEPT ![a] = Updated(cmd, @, fresh)] ELSE server

Ends(s, a, fs) ==
    /\ flows' = [fs EXCEPT ![s] = NoFlow]
    /\ queue' = [queue EXCEPT ![a] = Tail(@)]

\* The next message of the same handler, to the account that is selected by now.
GoesOn(s, a, flow) ==
    LET served == [queue EXCEPT ![a] = Tail(@)]
    IN  /\ flows' = [flows EXCEPT ![s] = [flow EXCEPT !.account = page.account]]
        /\ queue' = [served EXCEPT ![page.account] = Append(@, s)]

Untied(id) == [t \in Slot |-> [flows[t] EXCEPT !.tied = @ \ {id}]]

Toggled(s, a) ==
    /\ flows[s].op = "toggle"
    /\ Ends(s, a, flows)
    /\ UNCHANGED <<page, table>>

\* The row that saveRule answers with.
SavedRow(cmd) == Row(Stored(cmd.id, cmd.draft), cmd.order)

\* Mutant: a saved rule is put beside its old row.
ShowBeside(row) == SortedByOrder(Append(page.rules, row))

Show(row) ==
    SortedByOrder(IF row.rule.id \in PageIds
                  THEN ReplaceAt(page.rules, PageIndex(row.rule.id), row)
                  ELSE Append(page.rules, row))

DraftSaved(s, a) ==
    /\ flows[s].op = "save"
    /\ LET row == SavedRow(flows[s].cmd)
       IN  /\ page' = [page EXCEPT !.rules = Show(row), !.selected = {row.rule.id},
                                   !.draft = NoDraft, !.screen = "table"]
           /\ Ends(s, a, Untied(row.rule.id))
    /\ Drawn

\* A copy goes to the end of the page's list, whatever its order.
Duplicated(s, a) ==
    /\ flows[s].op = "duplicate"
    /\ LET row == SavedRow(flows[s].cmd)
       IN  page' = [page EXCEPT !.rules = Append(@, row), !.selected = {row.rule.id},
                                !.busy = FALSE, !.screen = "table"]
    /\ Ends(s, a, flows)
    /\ Drawn

\* Mutant: the next message of a deletion is never sent.
DeletedOne(s, a) ==
    /\ flows[s].op = "delete" /\ UNCHANGED table
    /\ IF flows[s].rest # <<>>
       THEN flows' = flows /\ queue' = [queue EXCEPT ![a] = Tail(@)] /\ UNCHANGED page
       ELSE page' = [page EXCEPT !.busy = FALSE] /\ Ends(s, a, flows)

Deleted(s, a) ==
    /\ flows[s].op = "delete"
    /\ LET left == AtPositions(page.rules,
                       {i \in DOMAIN page.rules : page.rules[i].rule.id # flows[s].cmd.id})
       IN  IF flows[s].rest # <<>>
           THEN /\ page' = [page EXCEPT !.rules = left, !.whole = FALSE]
                /\ UNCHANGED table
                /\ GoesOn(s, a, DeleteTurn(flows[s]))
           ELSE /\ page' = [page EXCEPT !.rules = left, !.whole = FALSE, !.busy = FALSE,
                                !.screen = Screen(left),
                                !.selected = IF left = <<>> THEN {} ELSE {left[1].rule.id}]
                /\ Drawn
                /\ Ends(s, a, flows)

Moved(s, a) ==
    /\ flows[s].op = "move" /\ UNCHANGED table
    /\ IF flows[s].rest # <<>>
       THEN GoesOn(s, a, SaveTurn(flows[s])) /\ UNCHANGED page
       ELSE Ends(s, a, flows) /\ page' = [page EXCEPT !.busy = FALSE]

\* The list waits at the page for the answer of listFolders.
ListAnswered(s, a) ==
    /\ flows[s].op = "reload"
    /\ flows' = [flows EXCEPT ![s].answer = [kind |-> "list", rules |-> server[a]]]
    /\ queue' = [queue EXCEPT ![a] = Tail(@)]
    /\ UNCHANGED <<page, table>>

Serve(s, a) ==
    /\ AtHead(s, a)
    /\ server' = Carried(a, flows[s].cmd)
    /\ \/ Toggled(s, a) \/ DraftSaved(s, a) \/ Duplicated(s, a)
       \/ Deleted(s, a) \/ Moved(s, a) \/ ListAnswered(s, a)
    /\ UNCHANGED <<fresh, ops, faults, lost, rushed>>

\* Mutant: a refused toggle stays on the page.
ToggleKept(s, a) ==
    /\ flows[s].op = "toggle"
    /\ Ends(s, a, flows)
    /\ UNCHANGED <<page, table>>

\* A toggle is taken back, where its row still is the page's.
ToggleBack(s, a) ==
    /\ flows[s].op = "toggle"
    /\ LET cmd == flows[s].cmd
       IN  /\ page' = [page EXCEPT !.rules = WithActive(@, flows[s].tied, cmd.id, ~cmd.active)]
           /\ table' = [table EXCEPT !.rows = WithActive(@, flows[s].tied, cmd.id, ~cmd.active)]
           /\ Ends(s, a, IF flows[s].tied = {} THEN flows ELSE SetActive(flows, cmd.id, ~cmd.active))

\* A deletion that ends before its last turn leaves the table as it was drawn.
LeftDrawn(s) ==
    table' = [table EXCEPT !.torn = @ \/ (flows[s].op = "delete" /\ TableIds # PageIds)]

\* The editor stays open with the error; a duplicate or a deletion ends with it.
GivenUp(s, a) ==
    /\ flows[s].op \in {"save", "duplicate", "delete"}
    /\ Ends(s, a, flows)
    /\ LeftDrawn(s)
    /\ page' = [page EXCEPT !.busy = IF flows[s].op = "save" THEN @ ELSE FALSE]

\* Mutant: an interrupted move only says so.
MoveGivenUp(s, a) ==
    /\ flows[s].op = "move"
    /\ Ends(s, a, flows) /\ UNCHANGED table
    /\ page' = [page EXCEPT !.busy = FALSE]

\* A move that failed half way loads the list again.
MoveReloads(s, a) ==
    /\ flows[s].op = "move"
    /\ page' = Loading(page)
    /\ UNCHANGED table
    /\ GoesOn(s, a, ListFlow)

ListFailed(s, a, kind) ==
    /\ flows[s].op = "reload"
    /\ flows' = [flows EXCEPT ![s].answer = [kind |-> kind, rules |-> <<>>]]
    /\ queue' = [queue EXCEPT ![a] = Tail(@)]
    /\ UNCHANGED <<page, table>>

\* Without a password every handler ends at the panel that asks for one.
PasswordWanted(s, a) ==
    /\ flows[s].op # "reload"
    /\ LET cmd == flows[s].cmd
           told == IF flows[s].op = "toggle"
                   THEN [page EXCEPT !.rules = WithActive(@, flows[s].tied, cmd.id, ~cmd.active)]
                   ELSE IF flows[s].op = "save" THEN [page EXCEPT !.draft = NoDraft]
                   ELSE [page EXCEPT !.busy = FALSE]
       IN  /\ page' = LazyAuth(told)
           /\ IF flows[s].op = "toggle"
              THEN table' = [table EXCEPT !.rows = WithActive(@, flows[s].tied, cmd.id, ~cmd.active)]
              ELSE LeftDrawn(s)
    /\ Ends(s, a, flows)

Refuse(s, a, kind) ==
    /\ AtHead(s, a)
    /\ faults < MaxFaults /\ faults' = faults + 1
    /\ server' = IF kind = "lost" THEN Carried(a, flows[s].cmd) ELSE server
    /\ lost' = (lost \/ server' # server)
    /\ IF kind = "no_password"
       THEN PasswordWanted(s, a) \/ ListFailed(s, a, kind)
       ELSE ToggleBack(s, a) \/ GivenUp(s, a) \/ MoveReloads(s, a) \/ ListFailed(s, a, kind)
    /\ UNCHANGED <<fresh, ops, rushed>>

\* listFolders has answered as well.
ShowList(s) ==
    /\ flows[s].op = "reload" /\ flows[s].answer # NoAnswer
    /\ IF flows[s].answer.kind # "list"
       THEN /\ page' = IF flows[s].answer.kind = "no_password"
                       THEN LazyAuth([page EXCEPT !.busy = FALSE, !.loaded = NoAccount])
                       ELSE [page EXCEPT !.busy = FALSE, !.loaded = NoAccount, !.screen = "error"]
            /\ flows' = [flows EXCEPT ![s] = NoFlow]
            /\ UNCHANGED table
       ELSE LET rules == flows[s].answer.rules
            IN  /\ page' = [page EXCEPT !.rules = Listed(rules), !.loaded = flows[s].account,
                              !.whole = TRUE,
                              !.busy = FALSE, !.screen = Screen(rules),
                              !.selected = IF @ = {} /\ rules # <<>> THEN {rules[1].id} ELSE @]
                /\ Drawn
                /\ flows' = [t \in Slot |->
                              IF t = s THEN NoFlow ELSE [flows[t] EXCEPT !.tied = {}]]
    /\ UNCHANGED <<server, queue, fresh, ops, faults, lost, rushed>>

User(s) ==
    \/ Reload(s) \/ Retry(s) \/ Save(s) \/ Duplicate(s) \/ Delete(s) \/ Move(s)
    \/ \E a \in Account : SwitchAccount(s, a)
    \/ \E id \in TableIds : Toggle(s, id)

Progress(s) ==
    \/ SwitchTold(s) \/ ShowList(s)
    \/ \E a \in Account : Serve(s, a) \/ \E kind \in Faults : Refuse(s, a, kind)

Next ==
    \/ Select \/ Search \/ New \/ Edit \/ CancelDraft
    \/ \E s \in Slot : User(s) \/ Progress(s)

\* The background answers every message.
Spec == Init /\ [][Next]_vars /\ \A s \in Slot : WF_vars(Progress(s))

-----------------------------------------------------------------------------
(***************************************************************************)
(* Properties.                                                             *)
(***************************************************************************)
Quiet == Calm /\ ~Modal
AtRest == Quiet /\ OnTable /\ page.loaded = page.account /\ ~lost
Ids(rules) == [i \in DOMAIN rules |-> rules[i].id]
TableRules == [i \in DOMAIN table.rows |-> table.rows[i].rule]
PageRules == [i \in DOMAIN page.rules |-> page.rules[i].rule]

\* No account and no page ever has two rules of one id, rows have an order, and every
\* waiting message belongs to a handler.
TypeOK ==
    /\ \A a \in Account : Cardinality(IdsOf(server[a])) = Len(server[a])
    /\ Cardinality(PageIds) = Len(page.rules)
    /\ \A i \in DOMAIN page.rules : page.rules[i].order \in Int
    /\ \A a \in Account : \A i \in DOMAIN queue[a] :
          flows[queue[a][i]].op \notin {"none", "switch"}
    /\ page.account \in Account

\* A page at rest whose last load succeeded holds what is stored, rule by rule, their names,
\* bodies and switches, after every refusal, half a deletion, half a move; and the table
\* shows the same, unless a deletion failed after its first rule and nothing was drawn since.
PageShowsStored ==
    AtRest /\ ~rushed =>
        /\ ToSet(PageRules) = ToSet(server[page.account])
        /\ ~table.torn => ToSet(TableRules) = ToSet(server[page.account])

\* Its order is the stored one, after every edit, copy and move, as long as no row went
\* since the last load (with a row gone the order numbers have a gap, and an edit, then
\* a move, end elsewhere than shown).
NumberedAsStored ==
    AtRest /\ ~rushed /\ page.whole => Ids(PageRules) = Ids(server[page.account])

\* A rule is stored for one account.
AccountsApart ==
    faults = 0 =>
      \A a, b \in Account : a # b => IdsOf(server[a]) \cap IdsOf(server[b]) = {}

\* The buttons come back: every handler ends.
EveryFlowEnds == \A s \in Slot : flows[s].op # "none" ~> flows[s].op = "none"

\* Moves and edits stay where the user sees them (background.js:752-757).
PageOrderIsStored ==
    AtRest => Ids(PageRules) = Ids(server[page.account])

\* After half a deletion the table shows what is stored, too.
TableShowsStored ==
    AtRest /\ ~rushed => ToSet(TableRules) = ToSet(server[page.account])
=============================================================================
