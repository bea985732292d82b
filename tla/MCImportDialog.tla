--------------------------- MODULE MCImportDialog ---------------------------
\* Filters for ImportDialog.
EXTENDS ImportDialog

TermOf(attrib, op, value, header, and) ==
    [attrib |-> attrib, op |-> op, value |-> value, header |-> header, booleanAnd |-> and]
Subject(and) == TermOf("Subject", "Contains", Text(<<"a">>), NoHeader, and)
Others ==
    {TermOf("ToOrCC", "Is", Text(<<"a">>), NoHeader, TRUE),
     TermOf("Subject", "Isnt", Text(<<"a">>), NoHeader, TRUE),
     TermOf("OtherHeader", "EndsWith", Text(<<"a">>), "list-id", FALSE),
     TermOf("OtherHeader", "Contains", Text(<<"a">>), NoHeader, TRUE),
     TermOf("Size", "IsLessThan", Text(NumberText(1)), NoHeader, FALSE),
     TermOf("Size", "IsGreaterThan", Text(<<"a">>), NoHeader, TRUE),
     TermOf("Body", "Contains", Text(<<"a">>), NoHeader, TRUE)}
Does(type, folder, str) == [type |-> type, folder |-> folder, str |-> str]
Move == Does("MoveToFolder", "X", "")
Doings ==
    {Move, Does("CopyToFolder", NoFolder, ""), Does("Delete", NoFolder, ""),
     Does("StopExecution", NoFolder, ""), Does("MarkUnread", NoFolder, ""),
     Does("Forward", NoFolder, "b"), Does("AddTag", NoFolder, "k"), Does("AddTag", NoFolder, "")}
Filter(name, terms, actions) ==
    [name |-> name, enabled |-> TRUE, terms |-> terms, actions |-> actions]
Plain(name) == Filter(name, <<Subject(TRUE)>>, <<Move>>)

\* The second filter of a list has any term, or any action, alone or beside plain ones.
Read == Does("MarkRead", NoFolder, "")
Varied ==
    {<<<<Subject(TRUE), t>>, <<Move>>>> : t \in Others} \cup {<<<<t>>, <<Move>>>> : t \in Others}
    \cup {<<<<Subject(TRUE)>>, <<d, Read>>>> : d \in Doings} \cup {<<<<Subject(TRUE)>>, <<d>>>> : d \in Doings}
Both == <<Plain("a"), Filter("b", <<TermOf("Sender", "Is", Text(<<"b">>), NoHeader, TRUE)>>, <<Move>>)>>
TwoKinds == {Both}
VariedLists == {<<>>, Both} \cup {<<Filter("a", v[1], v[2])>> : v \in Varied}
Twins ==
    {<<Plain("a"), Filter("a", <<TermOf("Sender", "Is", Text(<<"b">>), NoHeader, TRUE)>>, <<Move>>)>>}
TwoActions == {<<Filter("a", <<Subject(TRUE)>>, <<Move, Read>>)>>}
TwoTerms == {<<Filter("a", <<Subject(TRUE), TermOf("Sender", "Is", Text(<<"b">>), NoHeader, TRUE)>>,
                      <<Does("Delete", NoFolder, "")>>)>>}
LowerCase == "" :> "" @@ "a" :> "a" @@ "A" :> "a" @@ "b" :> "b" @@ "fresh" :> "fresh"
Sizes == {0, 1}
=============================================================================
