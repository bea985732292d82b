--------------------------- MODULE MailcowFilters ---------------------------
(***************************************************************************)
(* The sieve filters mailcow keeps for ONE mailbox, as the add-on reaches  *)
(* them through expor-sieve-proxy: a table from filter id to row.  mailcow *)
(* is not part of the repository; what it does here is what background.js, *)
(* the READMEs and the tests' virtual mailcow rely on.                     *)
(*                                                                         *)
(* A row's script is abstracted to the rules it holds and its kind is what *)
(* detectVersion answers: "v1" holds one rule, named by the description,   *)
(* "v2" holds the whole rule list, "foreign" holds none of ours.           *)
(***************************************************************************)
EXTENDS RuleList, FiniteSets

CONSTANTS
    Unreadable,   \* bodies whose generated script the add-on cannot parse back
    Blank,        \* names that trim to the empty string
    MaxRules      \* the longest rule list whose script fits MAX_SCRIPT_BYTES

ASSUME MailcowAssumption ==
    /\ Unreadable \subseteq Bodies
    /\ Blank \subseteq Names
    /\ MaxRules \in Nat

NoFilter == 0     \* background.js: combinedFilterId === null
FilterIds == Nat \ {NoFilter}

Kinds == {"v1", "v2", "foreign"}
Rows == [kind : Kinds, active : BOOLEAN, rules : Seq(Rules)]

IsTable(t) ==
    /\ t = [id \in DOMAIN t |-> t[id]]
    /\ IsFiniteSet(DOMAIN t)
    /\ DOMAIN t \subseteq FilterIds
    /\ \A id \in DOMAIN t : t[id] \in Rows
    /\ \A id \in DOMAIN t : t[id].kind = "v1" => Len(t[id].rules) = 1

OfKind(t, kind) == {id \in DOMAIN t : t[id].kind = kind}

(***************************************************************************)
(* The three writing calls.  Storing a row with active=1 deactivates every *)
(* other row of the mailbox, whoever created it.                           *)
(***************************************************************************)
Messages ==
    [op : {"add"}, id : {NoFilter}, rules : Seq(Rules)]
      \cup [op : {"edit"}, id : FilterIds, rules : Seq(Rules)]
      \cup [op : {"delete"}, id : FilterIds, rules : {<<>>}]

\* addFilter when there is no combined filter yet, editFilter of it otherwise.
WriteOf(id, rules) ==
    [op |-> IF id = NoFilter THEN "add" ELSE "edit", id |-> id, rules |-> rules]
DeletionOf(id) == [op |-> "delete", id |-> id, rules |-> <<>>]

\* A script over the limit is refused, and so is an id the mailbox does not list.
Accepts(t, m) ==
    /\ m.op # "add" => m.id \in DOMAIN t
    /\ Len(m.rules) <= MaxRules

Put(t, id, rules) ==
    [x \in DOMAIN t \cup {id} |->
        IF x = id
        THEN [kind |-> "v2", active |-> TRUE, rules |-> rules]
        ELSE [t[x] EXCEPT !.active = FALSE]]

Without(t, id) == [x \in DOMAIN t \ {id} |-> t[x]]

\* The table once m is carried out; `next' is the id mailcow gives a new row.
After(t, next, m) ==
    CASE m.op = "add" -> Put(t, next, m.rules)
      [] m.op = "edit" -> Put(t, m.id, m.rules)
      [] m.op = "delete" -> Without(t, m.id)

NextIdAfter(next, m) == IF m.op = "add" THEN next + 1 ELSE next
=============================================================================
