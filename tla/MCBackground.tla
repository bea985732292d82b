---------------------------- MODULE MCBackground ----------------------------
(***************************************************************************)
(* Small instances of Background: names "a" and "b", rule ids 1 and 2 in   *)
(* use at the start, filter ids 1 to 3.                                    *)
(***************************************************************************)
EXTENDS BackgroundRefinement, TLC

Rule(id, name, body) == [id |-> id, name |-> name, body |-> body, active |-> TRUE]
Draft(name, body) == [name |-> name, body |-> body, active |-> TRUE]

ListCmd == [op |-> "listRules"]
SaveCmd(id, draft, order) ==
    [op |-> "saveRule", id |-> id, draft |-> draft, order |-> order]
DeleteCmd(id) == [op |-> "deleteRule", id |-> id]
SwitchCmd(id, active) == [op |-> "setRuleActive", id |-> id, active |-> active]
ImportCmd(batch, top) == [op |-> "importLocalFilters", batch |-> batch, top |-> top]

MCFreshIds == 1 .. 12

MCCommands ==
    { ListCmd,
      SaveCmd(NoId, Draft("a", "x"), -1),
      SaveCmd(NoId, Draft("b", "x"), 1),
      SaveCmd(2, Draft("a", "y"), 0),
      SaveCmd(1, Draft(NoName, "x"), NoOrder),
      DeleteCmd(1),
      DeleteCmd(NoId),
      SwitchCmd(1, FALSE),
      ImportCmd(<<Rule(NoId, "a", "x"), Rule(NoId, "b", "y")>>, TRUE) }

\* The import dialog, and the list it is opened on.
MCImportCommands ==
    {ListCmd, ImportCmd(<<Rule(NoId, "a", "x"), Rule(NoId, "b", "y")>>, FALSE)}

\* Two installations: a list, a new rule in front, an edit that moves, a deletion.
MCSharedCommands ==
    {ListCmd, SaveCmd(NoId, Draft("a", "x"), -1), SaveCmd(1, Draft("b", "y"), 1), DeleteCmd(1)}

\* Reading the list, and deleting the first rule that a migration copied.
MCMigrationCommands == {ListCmd, DeleteCmd(3)}

V1Row(name, body) ==
    [kind |-> "v1", active |-> FALSE, rules |-> <<Rule(NoId, name, body)>>]
V2Row(rules) == [kind |-> "v2", active |-> TRUE, rules |-> rules]
ForeignRow(active) == [kind |-> "foreign", active |-> active, rules |-> <<>>]

\* A new user who runs a filter of their own.
FreshTable == 1 :> ForeignRow(TRUE)

\* A user of the v1 add-on: two filters, one no longer parseable.
LegacyTable == 1 :> V1Row("a", "x") @@ 2 :> ForeignRow(TRUE) @@ 3 :> V1Row("b", "bad")

\* A migration that stopped half way: "a" is copied, "b" is not.
HalfwayTable ==
    1 :> V1Row("a", "x") @@ 2 :> V1Row("b", "y") @@ 3 :> V2Row(<<Rule(1, "a", "x")>>)

\* A user of the present add-on.
CurrentTable ==
    1 :> ForeignRow(FALSE) @@ 2 :> V2Row(<<Rule(1, "a", "x"), Rule(2, "b", "x")>>)

\* Removed is Array.filter: compared with SelectSeq on every list of up to four rules.
ASSUME RemovedIsFilter ==
    \A n \in 0 .. 4 : \A ids \in [1 .. n -> 1 .. 3] :
        LET list == [i \in 1 .. n |-> Rule(ids[i], "a", i)]
            Other(rule) == rule.id # 2
        IN  Removed(list, 2) = SelectSeq(list, Other)

MCInitialTables == {FreshTable, LegacyTable, HalfwayTable, CurrentTable}
MCCurrentTables == {FreshTable, CurrentTable}
=============================================================================
