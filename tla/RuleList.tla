------------------------------ MODULE RuleList ------------------------------
(***************************************************************************)
(* The rule list of one mailbox and what each command of background.js     *)
(* makes of it: the bodies of the saveRule, deleteRule, setRuleActive and  *)
(* importLocalFilters handlers between the read and the write.             *)
(*                                                                         *)
(* A list is kept in display order; writeCombined stamps `order' with the  *)
(* position (background.js:549), so a stored rule needs no order field.    *)
(***************************************************************************)
EXTENDS Integers, Sequences, SequencesExt, FiniteSets

CONSTANTS
    Names,        \* the names a rule may carry, without the empty one
    Bodies,       \* conditions, actions, matchAll and stopAfter as one value
    NoOrder       \* a save that carries no numeric `order'

ASSUME NoOrderAssumption == NoOrder \notin Int

NoName == ""
NoId == 0         \* no id yet

\* A rule as a script holds it.  The one rule of a v1 filter has no id.
Rules == [id : Nat, name : Names, body : Bodies, active : BOOLEAN]

\* What a user fills in.
Drafts == [name : Names \cup {NoName}, body : Bodies, active : BOOLEAN]

(***************************************************************************)
(* The messages of the runtime.onMessage contract that use the rule list.  *)
(***************************************************************************)
CommandType ==
    [op : {"listRules"}]
      \cup [op : {"saveRule"}, id : Nat, draft : Drafts, order : Int \cup {NoOrder}]
      \cup [op : {"deleteRule"}, id : Nat]
      \cup [op : {"setRuleActive"}, id : Nat, active : BOOLEAN]
      \cup [op : {"importLocalFilters"}, batch : Seq(Rules), top : BOOLEAN]

\* The rule a command is about; a list or an import is about none.
Target(cmd) ==
    IF cmd.op \in {"saveRule", "deleteRule", "setRuleActive"} THEN cmd.id ELSE NoId

Holds(rules, id) == \E i \in DOMAIN rules : rules[i].id = id

IndexOf(rules, id) ==
    CHOOSE i \in DOMAIN rules :
        /\ rules[i].id = id
        /\ \A j \in 1 .. i - 1 : rules[j].id # id

Stored(id, draft) ==
    [id |-> id, name |-> draft.name, body |-> draft.body, active |-> draft.active]

Clamp(n, low, high) == IF n < low THEN low ELSE IF n > high THEN high ELSE n

(***************************************************************************)
(* saveRule.  A known id: the incoming fields replace the stored ones, and *)
(* a numeric order moves the rule to that (0-based) position.  Otherwise   *)
(* the rule is new: in front when its order is below every stored one,     *)
(* which start at 0, else at the end.                                      *)
(***************************************************************************)
Edited(rules, rule, order) ==
    LET i == IndexOf(rules, rule.id)
        others == RemoveAt(rules, i)
    IN  IF order = NoOrder
        THEN ReplaceAt(rules, i, rule)
        ELSE InsertAt(others, 1 + Clamp(order, 0, Len(others)), rule)

Added(rules, rule, order) ==
    IF order # NoOrder /\ order < 0 THEN <<rule>> \o rules ELSE rules \o <<rule>>

\* Mutant: every save adds a rule.
SavedAnew(rules, cmd, fresh) ==
    Added(rules, Stored(IF cmd.id = NoId THEN fresh ELSE cmd.id, cmd.draft), cmd.order)

Saved(rules, cmd, fresh) ==
    IF cmd.id # NoId /\ Holds(rules, cmd.id)
    THEN Edited(rules, Stored(cmd.id, cmd.draft), cmd.order)
    ELSE Added(rules, Stored(IF cmd.id = NoId THEN fresh ELSE cmd.id, cmd.draft), cmd.order)

\* The rules at some of the positions, in their order.
AtPositions(rules, positions) ==
    LET Nth(k) == CHOOSE i \in positions : Cardinality({j \in positions : j <= i}) = k
    IN  [k \in 1 .. Cardinality(positions) |-> rules[Nth(k)]]

\* Every rule with the id goes: a batch imported twice holds its ids twice.
Removed(rules, id) == AtPositions(rules, {i \in DOMAIN rules : rules[i].id # id})

Switched(rules, id, active) ==
    [i \in DOMAIN rules |->
        IF rules[i].id = id THEN [rules[i] EXCEPT !.active = active] ELSE rules[i]]

\* newRule() of a page, or randomUUID of a handler: an id for each rule without one.
WithIds(batch, fresh) ==
    [i \in DOMAIN batch |->
        IF batch[i].id = NoId THEN [batch[i] EXCEPT !.id = fresh + i - 1] ELSE batch[i]]

\* The nameless rules of a batch are reported and skipped: a batch here is the rest, and
\* an empty one had no other.  (A message without rules is answered before the lock.)
Imported(rules, cmd, fresh) ==
    LET new == WithIds(cmd.batch, fresh)
    IN  IF cmd.top THEN new \o rules ELSE rules \o new

(***************************************************************************)
(* What a handler does once it has the list: refuse the message, answer    *)
(* without a write, or write Updated.  `fresh' is the next unused rule id  *)
(* (crypto.randomUUID) and Minted says how many of them Updated takes.     *)
(***************************************************************************)
Rejected(cmd) ==
    \/ cmd.op = "saveRule" /\ cmd.draft.name = NoName
    \/ cmd.op \in {"deleteRule", "setRuleActive"} /\ cmd.id = NoId

NeedsWrite(cmd, rules) ==
    \/ cmd.op = "saveRule"
    \/ cmd.op \in {"deleteRule", "setRuleActive"} /\ Holds(rules, cmd.id)
    \/ cmd.op = "importLocalFilters" /\ cmd.batch # <<>>

Updated(cmd, rules, fresh) ==
    CASE cmd.op = "saveRule" -> Saved(rules, cmd, fresh)
      [] cmd.op = "deleteRule" -> Removed(rules, cmd.id)
      [] cmd.op = "setRuleActive" -> Switched(rules, cmd.id, cmd.active)
      [] cmd.op = "importLocalFilters" -> Imported(rules, cmd, fresh)
      [] OTHER -> rules

Minted(cmd) ==
    CASE cmd.op = "saveRule" /\ cmd.id = NoId -> 1
      [] cmd.op = "importLocalFilters" /\ Holds(cmd.batch, NoId) -> Len(cmd.batch)
      [] OTHER -> 0

(***************************************************************************)
(* The command as a page sends it: a page makes a new rule with its id     *)
(* (newRule), so that sending the same dialog again sends the same ids.    *)
(***************************************************************************)
Stamped(cmd, fresh) ==
    CASE cmd.op = "saveRule" /\ cmd.id = NoId -> [cmd EXCEPT !.id = fresh]
      [] cmd.op = "importLocalFilters" -> [cmd EXCEPT !.batch = WithIds(@, fresh)]
      [] OTHER -> cmd
=============================================================================
