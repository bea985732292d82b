----------------------------- MODULE RuleEditor -----------------------------
(***************************************************************************)
(* The editor of one rule, editor.js: what the user may do to the draft,   *)
(* what saving makes of it (validateRule, the writer of RuleText, the      *)
(* server's own check), and what a later load of the list reads back.      *)
(***************************************************************************)
EXTENDS RuleText

CONSTANTS
    Typed,          \* the texts a user types into the field for a value
    HeaderName,     \* and into the one for a header name
    Fields, Types,  \* the fields and action types the user chooses from
    Folders,        \* the folders on offer, in their order; none: the name is typed
    FolderName, Address, Keywords,
    Message,        \* messages that are delivered
    MaxRows,        \* bound: the conditions, and the actions, of a draft
    MaxEdits        \* bound: what the user changes in all

ASSUME EditorAssumption ==
    /\ Fields \subseteq FIELDS /\ Range(Folders) \subseteq FolderName
    /\ MaxRows \in Nat \ {0} /\ MaxEdits \in Nat

VARIABLES
    draft,     \* the rule in the dialog, or NoRule
    page,      \* the rule as the list of the page holds it, or NoRule
    stored,    \* its block in the script on the server, or NoBlock
    edits

vars == <<draft, page, stored, edits>>

NoBlock == [name |-> "none"]

defaultCondition == Condition("from", NoHeader, "contains", Text(<<>>), "K")
FirstFolder == IF Folders = <<>> THEN NoFolder ELSE Folders[1]
defaultAction == Action("fileinto", FirstFolder, NoAddress, <<>>)

\* newRule, and what openEditor adds to it.
NewDraft == [name |-> "", active |-> TRUE, matchAll |-> TRUE, stopAfter |-> FALSE,
             conditions |-> <<defaultCondition>>, actions |-> <<defaultAction>>]

Init == draft = NoRule /\ page = NoRule /\ stored = NoBlock /\ edits = 0

Open ==
    /\ draft = NoRule
    /\ draft' = IF page = NoRule THEN NewDraft ELSE page
    /\ UNCHANGED <<page, stored, edits>>

Change(new) ==
    /\ draft # NoRule /\ edits < MaxEdits
    /\ draft' = new
    /\ edits' = edits + 1
    /\ UNCHANGED <<page, stored>>

(***************************************************************************)
(* Conditions.  Another field keeps the operator when the new field has    *)
(* it, and the value as it is, unless the field is size or attachment.     *)
(***************************************************************************)
WithField(c, field) ==
    LET ops == opsForField(field)
        value == CASE field = "attachment" -> Nothing
                   [] field = "size" -> Num(AsNumber(c.value))
                   [] OTHER -> c.value
    IN  Condition(field, IF field = "header" THEN c.headerName ELSE NoHeader,
                  IF c.op \in Range(ops) THEN c.op ELSE ops[1], value,
                  IF field = "attachment" THEN "K" ELSE c.unit)

\* What the field shows of a value, and what typing a text there makes of it.
Shown(c) == IF c.value = Num(0) THEN <<>> ELSE AsText(c.value)

Pieces(text) ==
    LET Add(pieces, symbol) ==
          IF symbol = Comma THEN Append(pieces, <<>>)
                            ELSE Front(pieces) \o <<Append(Last(pieces), symbol)>>
    IN  SelectSeq(FoldLeft(Add, <<<<>>>>, text), LAMBDA p : p # <<>>)

ValueFrom(c, text) == IF c.op = "contains_any" THEN Texts(Pieces(text)) ELSE Text(text)

EditCondition(i) ==
    LET c == draft.conditions[i]
        To(new) == Change([draft EXCEPT !.conditions[i] = new])
    IN  \/ \E field \in Fields : To(WithField(c, field))
        \/ \E op \in Range(opsForField(c.field)) : To([c EXCEPT !.op = op])
        \/ /\ c.field \notin {"size", "attachment"}
           /\ \E text \in Typed : To([c EXCEPT !.value = ValueFrom(c, text)])
        \/ c.field = "header" /\ \E name \in HeaderName : To([c EXCEPT !.headerName = name])
        \/ c.field = "size" /\ \E n \in Number : To([c EXCEPT !.value = Num(n)])
        \/ c.field = "size" /\ \E unit \in {"K", "M"} : To([c EXCEPT !.unit = unit])

AddCondition(i) ==
    /\ Len(draft.conditions) < MaxRows
    /\ Change([draft EXCEPT !.conditions = InsertAt(@, i + 1, defaultCondition)])
RemoveCondition(i) ==
    /\ Len(draft.conditions) > 1
    /\ Change([draft EXCEPT !.conditions = RemoveAt(@, i)])

WithType(type) ==
    Action(type, IF type \in {"fileinto", "copy"} THEN FirstFolder ELSE NoFolder, NoAddress, <<>>)

EditAction(i) ==
    LET a == draft.actions[i]
        To(new) == Change([draft EXCEPT !.actions[i] = new])
    IN  \/ \E type \in Types : To(WithType(type))
        \/ /\ a.type \in {"fileinto", "copy"}
           /\ \E folder \in FolderName : To([a EXCEPT !.folder = folder])
        \/ a.type = "redirect" /\ \E address \in Address : To([a EXCEPT !.address = address])
        \/ a.type = "tag" /\ \E words \in Keywords : To([a EXCEPT !.keywords = words])

AddAction(i) ==
    /\ Len(draft.actions) < MaxRows
    /\ Change([draft EXCEPT !.actions = InsertAt(@, i + 1, defaultAction)])
RemoveAction(i) ==
    /\ Len(draft.actions) > 1
    /\ Change([draft EXCEPT !.actions = RemoveAt(@, i)])

EditRule ==
    \/ \E name \in {"", "n"} : Change([draft EXCEPT !.name = name])
    \/ Change([draft EXCEPT !.active = ~@])
    \/ Change([draft EXCEPT !.matchAll = ~@])
    \/ Change([draft EXCEPT !.stopAfter = ~@])

(***************************************************************************)
(* The saveRule message, with the writer in the background page and the    *)
(* check of the server; OK in the editor has validateRule before it.       *)
(* Whatever refuses leaves the dialog open with a message.                 *)
(***************************************************************************)
saveRule(rule) ==
    /\ rule.name # ""
    /\ WritableRule(rule)
    /\ AcceptedBlock(Block(rule))
    /\ stored' = Block(rule)

Stores(rule) == ValidRule(rule) /\ saveRule(rule)

Save ==
    /\ draft # NoRule
    /\ Stores(draft)
    /\ page' = draft
    /\ draft' = NoRule
    /\ UNCHANGED edits

Cancel ==
    /\ draft # NoRule
    /\ draft' = NoRule
    /\ UNCHANGED <<page, stored, edits>>

\* reloadAll: the page reads the stored script; one that does not parse is an empty list.
Reload ==
    /\ draft = NoRule /\ stored # NoBlock
    /\ page' = IF ReadableBlock(stored) THEN RuleOf(stored) ELSE NoRule
    /\ UNCHANGED <<draft, stored, edits>>

EditDraft ==
    \/ EditRule
    \/ draft # NoRule /\ \E i \in DOMAIN draft.conditions :
           EditCondition(i) \/ AddCondition(i) \/ RemoveCondition(i)
    \/ draft # NoRule /\ \E i \in DOMAIN draft.actions :
           EditAction(i) \/ AddAction(i) \/ RemoveAction(i)

Next == Open \/ EditDraft \/ Save \/ Cancel \/ Reload

Spec == Init /\ [][Next]_vars

(***************************************************************************)
(* Whatever the editor saves and the server accepts, the reader reads: a   *)
(* script that it does not read shows as an empty list, and the next save  *)
(* overwrites every rule in it (background.js:443).                        *)
(***************************************************************************)
StoredReads == stored # NoBlock => ReadableBlock(stored)

(***************************************************************************)
(* Reading a rule and saving it again does not change which messages it    *)
(* takes, what it does with them, nor whether it stops.  (buildTest and    *)
(* parseTest, buildAction and parseAction.)                                *)
(***************************************************************************)
Rewritten(block) == Block(RuleOf(block))
ResavedIsSame ==
    stored # NoBlock /\ ReadableBlock(stored) =>
        LET again == Rewritten(stored)
        IN  /\ \A m \in Message : Taken(again, m) = Taken(stored, m)
            /\ again.statements = stored.statements /\ again.stop = stored.stop
=============================================================================
