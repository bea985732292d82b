----------------------------- MODULE ImportDialog ---------------------------
(***************************************************************************)
(* The import of Thunderbird's own filters: the projection of a filter     *)
(* list by the experiment (implementation.js), its mapping to rules        *)
(* (local_filter_mapper.js), the dialog of manager.js, and the clean-up    *)
(* that deletes filters by name afterwards.  importLocalFilters writes the *)
(* batch as a whole (Background.tla): here it is stored, refused, or       *)
(* stored with the answer lost.  The dialog is one element for all its     *)
(* openings; Esc closes it at any time.                                    *)
(***************************************************************************)
EXTENDS RuleText

CONSTANTS
    Account,
    Opening,          \* the openings of the dialog in one page, in their order
    FilterLists,      \* what Thunderbird's list of an account may be at first
    Lower,            \* Lower[n]: the name in lower case
    FreshName,        \* a name that the user gives
    MaxUnread, MaxMishaps   \* bounds: filters read in part; calls that fail and acts of the user

NoName == ""
None == [kind |-> "none"]
This(o) == [kind |-> "opening", opening |-> o]

IsFilter(f) ==
    /\ f = [name |-> f.name, enabled |-> f.enabled, terms |-> f.terms, actions |-> f.actions]
    /\ f.terms \in Seq(Range(f.terms)) /\ f.actions \in Seq(Range(f.actions))

ASSUME ImportAssumption ==
    /\ Opening \subseteq Nat /\ MaxUnread \in Nat /\ MaxMishaps \in Nat
    /\ \A list \in FilterLists :
          list \in Seq(Range(list)) /\ \A i \in DOMAIN list : IsFilter(list[i])

VARIABLES
    filters,    \* filters[a]: Thunderbird's filters of the account, in order
    opening,    \* opening[o]: the state of openImportDialog
    elements,   \* of the page: the dialog, whose rows it lists, whose handler Confirm has, ...
    imported,   \* history: the rules that importLocalFilters stored in the account
    deleted,    \* history: the filters that deleteLocalFilters removed
    unread, mishaps

importVars == <<filters, opening, elements, imported, deleted, unread, mishaps>>

(***************************************************************************)
(* mapTerm and mapAction: what becomes of one term or action, if anything, *)
(* and whether a warning says so.                                          *)
(***************************************************************************)
Mapped(out, warned) == [out |-> out, warned |-> warned]
Skip == Mapped(<<>>, TRUE)

TEXT_OP_MAP == [Contains |-> "contains", DoesntContain |-> "not_contains", Is |-> "is",
                BeginsWith |-> "starts", EndsWith |-> "ends"]
SIZE_OP_MAP == [IsGreaterThan |-> "gt", IsLessThan |-> "lt"]
TEXTY_FIELDS == [Subject |-> "subject", Sender |-> "from", To |-> "to", CC |-> "cc", ToOrCC |-> "to"]

IsSize(value) == \E n \in Number : n >= 0 /\ NumberText(n) = AsText(value)

mapTerm(term) ==
    CASE term.attrib \in DOMAIN TEXTY_FIELDS /\ term.op \in DOMAIN TEXT_OP_MAP ->
            Mapped(<<Condition(TEXTY_FIELDS[term.attrib], NoHeader, TEXT_OP_MAP[term.op],
                               term.value, "K")>>, term.attrib = "ToOrCC")
      [] term.attrib = "OtherHeader" /\ term.op \in DOMAIN TEXT_OP_MAP /\ term.header # NoHeader ->
            Mapped(<<Condition("header", term.header, TEXT_OP_MAP[term.op], term.value, "K")>>, FALSE)
      [] term.attrib = "Size" /\ term.op \in DOMAIN SIZE_OP_MAP /\ IsSize(term.value) ->
            Mapped(<<Condition("size", NoHeader, SIZE_OP_MAP[term.op],
                               Num(AsNumber(term.value)), "K")>>, FALSE)
      [] OTHER -> Skip

PlainActions == [MarkRead |-> "mark_read", MarkFlagged |-> "flag", Delete |-> "discard"]
FolderActions == [MoveToFolder |-> "fileinto", CopyToFolder |-> "copy"]

\* Mutant: what has no counterpart is dropped without a word.
mapActionQuiet(action) ==
    CASE action.type \in DOMAIN PlainActions ->
            Mapped(<<Action(PlainActions[action.type], NoFolder, NoAddress, <<>>)>>, FALSE)
      [] OTHER -> Mapped(<<>>, FALSE)

mapAction(action) ==
    CASE action.type \in DOMAIN PlainActions ->
            Mapped(<<Action(PlainActions[action.type], NoFolder, NoAddress, <<>>)>>, FALSE)
      [] action.type \in DOMAIN FolderActions /\ action.folder # NoFolder ->
            Mapped(<<Action(FolderActions[action.type], action.folder, NoAddress, <<>>)>>, FALSE)
      [] action.type = "Forward" /\ action.str # "" ->
            Mapped(<<Action("redirect", NoFolder, action.str, <<>>)>>, TRUE)
      [] action.type = "AddTag" /\ action.str # "" ->
            Mapped(<<Action("tag", NoFolder, NoAddress, <<action.str>>)>>, FALSE)
      [] action.type = "StopExecution" -> Mapped(<<>>, FALSE)
      [] OTHER -> Skip

Outs(mapped) == FlattenSeq([i \in DOMAIN mapped |-> mapped[i].out])

mapLocalToRule(f) ==
    LET terms == [i \in DOMAIN f.terms |-> mapTerm(f.terms[i])]
        actions == [i \in DOMAIN f.actions |-> mapAction(f.actions[i])]
        skipped == Outs(terms) = <<>> \/ Outs(actions) = <<>>
    IN  [skipped |-> skipped,
         warned |-> skipped \/ \E m \in Range(terms) \cup Range(actions) : m.warned,
         rule |-> [name |-> IF f.name = NoName THEN "(no name)" ELSE f.name,
                   active |-> f.enabled, matchAll |-> f.matchAll,
                   stopAfter |-> \E i \in DOMAIN f.actions : f.actions[i].type = "StopExecution",
                   conditions |-> Outs(terms), actions |-> Outs(actions)]]

(***************************************************************************)
(* projectFilterList: a term or an action that cannot be read is left out, *)
(* and nothing says so.                                                    *)
(***************************************************************************)
deduceMatchAll(terms) == \A i \in 2 .. Len(terms) : terms[i].booleanAnd

Without(s, lost) ==
    [i \in 1 .. Len(s) - Cardinality(lost) |->
       s[CHOOSE k \in DOMAIN s \ lost : Cardinality((DOMAIN s \ lost) \cap 1 .. k) = i]]

\* What of a filter is lost: of its terms, of its actions.
Losses == [terms : SUBSET (1 .. 2), actions : SUBSET (1 .. 2)]
NoLoss == [terms |-> {}, actions |-> {}]

Projected(f, lost) ==
    LET terms == Without(f.terms, lost.terms)
    IN  [name |-> f.name, enabled |-> f.enabled, matchAll |-> deduceMatchAll(terms),
         terms |-> terms, actions |-> Without(f.actions, lost.actions)]

(***************************************************************************)
(* The rows.  They find their rule, and their warnings, by name.           *)
(***************************************************************************)
Row(list, i) ==
    LET Of(j) == mapLocalToRule(list[j])
        named == {j \in DOMAIN list : Of(j).rule.name = list[i].name /\ ~Of(j).skipped}
        refused == \E j \in DOMAIN list : list[j].name = list[i].name /\ Of(j).skipped
    IN  [filter |-> i, name |-> list[i].name, compatible |-> named # {} /\ ~refused,
         rule |-> IF named = {} THEN None
                  ELSE Of(CHOOSE j \in named : \A k \in named : k <= j).rule,
         warned |-> \E j \in DOMAIN list : Of(j).rule.name = list[i].name /\ Of(j).warned,
         checked |-> FALSE]

Closed == [pc |-> "idle", account |-> None, listed |-> <<>>, rows |-> <<>>, batch |-> {},
           cleanup |-> FALSE, settled |-> FALSE]

ImportInit ==
    /\ filters \in [Account -> FilterLists]
    /\ opening = [o \in Opening |-> Closed]
    /\ elements = [open |-> FALSE, listed |-> None, handler |-> None, confirm |-> FALSE,
               cleanup |-> FALSE, cleanable |-> FALSE]
    /\ imported = [a \in Account |-> {}] /\ deleted = [a \in Account |-> {}]
    /\ unread = 0 /\ mishaps = 0

Mishap == mishaps < MaxMishaps /\ mishaps' = mishaps + 1
History == <<imported, deleted>>
Bounds == <<unread, mishaps>>

OpenImport(o, a) ==
    /\ opening[o] = Closed /\ ~elements.open
    /\ \A p \in Opening : p < o => opening[p] # Closed
    /\ opening' = [opening EXCEPT ![o].pc = "listing", ![o].account = a]
    /\ elements' = [elements EXCEPT !.open = TRUE, !.listed = None, !.confirm = FALSE,
                            !.cleanup = FALSE, !.cleanable = FALSE]
    /\ UNCHANGED <<filters, History, Bounds>>

\* An error, and an empty list, leave the dialog with its text.
NothingListed(o) ==
    /\ opening[o].pc = "listing"
    /\ \/ filters[opening[o].account] = <<>> /\ UNCHANGED mishaps
       \/ Mishap
    /\ opening' = [opening EXCEPT ![o].pc = "done"]
    /\ UNCHANGED <<filters, elements, History, unread>>

FiltersListed(o) ==
    LET there == filters[opening[o].account]
    IN  /\ opening[o].pc = "listing" /\ there # <<>>
        /\ \E lost \in {l \in [DOMAIN there -> Losses] :
                          \A i \in DOMAIN there : /\ l[i].terms \subseteq DOMAIN there[i].terms
                                                  /\ l[i].actions \subseteq DOMAIN there[i].actions} :
             LET list == [i \in DOMAIN there |-> Projected(there[i], lost[i])]
                 rows == [i \in DOMAIN list |-> Row(list, i)]
             IN  /\ unread' = unread + Cardinality({i \in DOMAIN lost : lost[i] # NoLoss})
                 /\ unread' <= MaxUnread
                 /\ opening' = [opening EXCEPT ![o].pc = "shown", ![o].listed = there,
                                               ![o].rows = rows]
                 /\ elements' = [elements EXCEPT !.listed = This(o), !.handler = This(o),
                                         !.confirm = FALSE,
                                         !.cleanable = \E r \in Range(rows) : r.compatible]
        /\ UNCHANGED <<filters, History, mishaps>>

Check(o, i) ==
    /\ elements.open /\ elements.listed = This(o)
    /\ opening[o].rows[i].compatible
    /\ opening' = [opening EXCEPT ![o].rows[i].checked = ~@]
    /\ elements' = [elements EXCEPT !.confirm = \E r \in Range(opening'[o].rows) : r.checked]
    /\ UNCHANGED <<filters, History, Bounds>>

CheckCleanup ==
    /\ elements.open /\ elements.cleanable
    /\ elements' = [elements EXCEPT !.cleanup = ~@]
    /\ UNCHANGED <<filters, opening, History, Bounds>>

Confirm(o) ==
    LET batch == {r \in Range(opening[o].rows) : r.checked}
    IN  /\ elements.open /\ elements.handler = This(o) /\ elements.confirm /\ batch # {}
        /\ opening' = [opening EXCEPT ![o].pc = "importing", ![o].batch = batch,
                                      ![o].cleanup = elements.cleanup /\ elements.cleanable]
        /\ elements' = [elements EXCEPT !.confirm = FALSE]
        /\ UNCHANGED <<filters, History, Bounds>>

(***************************************************************************)
(* The import's answers.  finish closes the dialog, unless this opening    *)
(* was closed before.                                                      *)
(***************************************************************************)
Finish(o) ==
    /\ opening' = [opening EXCEPT ![o].pc = "done", ![o].settled = TRUE]
    /\ elements' = IF opening[o].settled THEN elements ELSE [elements EXCEPT !.open = FALSE]

Imported(o) ==
    imported' = [imported EXCEPT ![opening[o].account] =
                 @ \cup {r.rule : r \in opening[o].batch}]

Green(o) ==
    /\ opening[o].pc = "importing"
    /\ Imported(o)
    /\ IF opening[o].cleanup /\ \E r \in opening[o].batch : r.name # NoName
       THEN opening' = [opening EXCEPT ![o].pc = "deleting"] /\ UNCHANGED elements
       ELSE Finish(o)
    /\ UNCHANGED <<filters, deleted, Bounds>>

\* An error: nothing was stored, or it was and the answer is lost.
Refused(o) ==
    /\ opening[o].pc = "importing" /\ Mishap
    /\ Imported(o) \/ UNCHANGED imported
    /\ opening' = [opening EXCEPT ![o].pc = "shown"]
    /\ elements' = [elements EXCEPT !.confirm = TRUE]
    /\ UNCHANGED <<filters, deleted, unread>>

(***************************************************************************)
(* deleteLocalFilters, by names that differ in case at most; a failure of  *)
(* it ends the dialog as well.                                             *)
(***************************************************************************)
Wanted(batch, name) ==
    /\ name # NoName
    /\ \E r \in batch : r.name # NoName /\ Lower[r.name] = Lower[name]

Kept(list, batch) ==
    FlattenSeq([i \in DOMAIN list |-> IF Wanted(batch, list[i].name) THEN <<>> ELSE <<list[i]>>])

\* Mutant: the names are those of the rows checked by now.
CleanedUpNow(o) ==
    LET a == opening[o].account
        batch == {r \in Range(opening[o].rows) : r.checked}
    IN  /\ opening[o].pc = "deleting"
        /\ filters' = [filters EXCEPT ![a] = Kept(@, batch)]
        /\ deleted' = [deleted EXCEPT ![a] = @ \cup {f \in Range(filters[a]) : Wanted(batch, f.name)}]
        /\ Finish(o)
        /\ UNCHANGED <<imported, Bounds>>

CleanedUp(o) ==
    LET a == opening[o].account
        batch == opening[o].batch
    IN  /\ opening[o].pc = "deleting"
        /\ filters' = [filters EXCEPT ![a] = Kept(@, batch)]
        /\ deleted' = [deleted EXCEPT ![a] = @ \cup {f \in Range(filters[a]) : Wanted(batch, f.name)}]
        /\ Finish(o)
        /\ UNCHANGED <<imported, Bounds>>

CleanupFailed(o) ==
    /\ opening[o].pc = "deleting" /\ Mishap
    /\ Finish(o)
    /\ UNCHANGED <<filters, History, unread>>

\* Esc, or the cancel button.
Close ==
    /\ elements.open
    /\ elements' = [elements EXCEPT !.open = FALSE]
    /\ opening' = [o \in Opening |->
                     IF opening[o].pc \in {"shown", "importing", "deleting"}
                     THEN [opening[o] EXCEPT !.settled = TRUE] ELSE opening[o]]
    /\ UNCHANGED <<filters, History, Bounds>>

\* Thunderbird's user, in the filter window.
UserRemoves(a, i) ==
    /\ Mishap
    /\ filters' = [filters EXCEPT ![a] = RemoveAt(@, i)]
    /\ UNCHANGED <<opening, elements, History, unread>>

UserRenames(a, i) ==
    /\ Mishap
    /\ \A f \in Range(filters[a]) : Lower[f.name] # Lower[FreshName]
    /\ filters' = [filters EXCEPT ![a][i].name = FreshName]
    /\ UNCHANGED <<opening, elements, History, unread>>

ImportNext ==
    \/ \E o \in Opening :
        \/ \E a \in Account : OpenImport(o, a)
        \/ NothingListed(o) \/ FiltersListed(o)
        \/ \E i \in DOMAIN opening[o].rows : Check(o, i)
        \/ Confirm(o)
        \/ Green(o) \/ Refused(o)
        \/ CleanedUp(o) \/ CleanupFailed(o)
    \/ CheckCleanup
    \/ Close
    \/ \E a \in Account : \E i \in DOMAIN filters[a] : UserRemoves(a, i) \/ UserRenames(a, i)

ImportSpec == ImportInit /\ [][ImportNext]_importVars
-----------------------------------------------------------------------------
(***************************************************************************)
(* A filter that the clean-up removed from Thunderbird has its rule on the *)
(* server: no answer, lost or late, and no closing of the dialog costs the *)
(* user both.  ("... or the user would lose the Thunderbird copy of a      *)
(* filter that did not get to the server", manager.js:1106-1108.)          *)
(***************************************************************************)
DeletedIsStored ==
    \A a \in Account : \A f \in deleted[a] : mapLocalToRule(Projected(f, NoLoss)).rule \in imported[a]

(***************************************************************************)
(* A row offered as fully compatible stands for the whole filter: every    *)
(* term has its condition and every action its action; what was left out   *)
(* is warned of.  ("What does not fit goes to the warnings",               *)
(* local_filter_mapper.js:42.)                                             *)
(***************************************************************************)
Whole(rule, f) ==
    /\ Len(rule.conditions) = Len(f.terms)
    /\ rule.matchAll = deduceMatchAll(f.terms)
    /\ Len(rule.actions) = Cardinality({i \in DOMAIN f.actions : f.actions[i].type # "StopExecution"})
WholeOrWarned ==
    \A o \in Opening : \A r \in Range(opening[o].rows) :
        r.compatible /\ ~r.warned => Whole(r.rule, opening[o].listed[r.filter])
=============================================================================
