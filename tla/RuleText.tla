------------------------------ MODULE RuleText ------------------------------
(***************************************************************************)
(* A rule and the Sieve text it is stored as: the model of rule_model.js,  *)
(* the writer and the reader of sieve_adapter.js, and what the server and  *)
(* local_runner.js do with a rule and a message.                           *)
(*                                                                         *)
(* A script is the structure of its text: a test is a record, a statement  *)
(* is a record, and quoting, which the reader undoes, is left out.  A text *)
(* is a sequence of symbols; header names and symbols are in lower case,   *)
(* a number is one symbol, and a comma stands for ", " as well.            *)
(***************************************************************************)
EXTENDS Integers, Sequences, SequencesExt, FiniteSets, TLC

CONSTANT Number       \* what may stand in the field for a size; -1 for what is no natural number

Star == "*"
Comma == ","
Multipart == "multipart/"
SystemFlags == {"\\Seen", "\\Flagged"}

\* A JavaScript value: undefined, a string, an array of strings or a number.
Nothing == [kind |-> "nothing"]
Text(s) == [kind |-> "text", text |-> s]
Texts(list) == [kind |-> "list", list |-> list]
Num(n) == [kind |-> "number", number |-> n]

NumberText(n) == <<ToString(n)>>
Joined(list) ==
    FlattenSeq([i \in DOMAIN list |-> IF i = 1 THEN list[i] ELSE <<Comma>> \o list[i]])

\* String(value ?? '') and Number(value) || 0.
AsText(value) ==
    CASE value.kind = "nothing" -> <<>>
      [] value.kind = "text" -> value.text
      [] value.kind = "list" -> Joined(value.list)
      [] value.kind = "number" -> NumberText(value.number)
AsNumber(value) ==
    LET Is(n) == NumberText(n) = AsText(value)
    IN  IF \E n \in Number : Is(n) THEN CHOOSE n \in Number : Is(n) ELSE 0

AddressFields == {"from", "to", "cc"}
FIELDS == AddressFields \cup {"subject", "header", "size", "attachment"}

opsForField(field) ==
    CASE field = "size" -> <<"gt", "lt">>
      [] field = "attachment" -> <<"has_attachment", "no_attachment">>
      [] field = "header" -> <<"contains", "not_contains", "is", "starts", "ends">>
      [] OTHER -> <<"contains", "not_contains", "is", "starts", "ends", "contains_any">>

NoHeader == ""
Condition(field, headerName, op, value, unit) ==
    [field |-> field, headerName |-> headerName, op |-> op, value |-> value, unit |-> unit]

NoFolder == ""
NoAddress == ""
Action(type, folder, address, keywords) ==
    [type |-> type, folder |-> folder, address |-> address, keywords |-> keywords]
NoRule == [name |-> "none"]

(***************************************************************************)
(* validateRule: the conditions are only counted; every other word is an   *)
(* atom.                                                                   *)
(***************************************************************************)
ValidAction(action) ==
    /\ action.type \in {"fileinto", "copy"} => action.folder # NoFolder
    /\ action.type = "redirect" => action.address # NoAddress
    /\ action.type = "tag" => /\ action.keywords # <<>>
                              /\ Range(action.keywords) \cap SystemFlags = {}

ValidRule(rule) ==
    /\ rule.name # "" /\ rule.conditions # <<>> /\ rule.actions # <<>>
    /\ \A i \in DOMAIN rule.actions : ValidAction(rule.actions[i])

(***************************************************************************)
(* The writer.                                                             *)
(***************************************************************************)
Test(kind, match, header, values, not) ==
    [kind |-> kind, match |-> match, header |-> header, values |-> values, not |-> not]

MatchType(op) ==
    CASE op = "is" -> "is"
      [] op \in {"starts", "ends"} -> "matches"
      [] OTHER -> "contains"

\* The elements of an array go through String, that is undefined becomes a word.
Values(c) ==
    CASE c.op = "starts" -> <<AsText(c.value) \o <<Star>>>>
      [] c.op = "ends" -> <<<<Star>> \o AsText(c.value)>>
      [] c.op = "contains_any" /\ c.value.kind = "list" -> c.value.list
      [] c.op = "contains_any" /\ c.value = Nothing -> <<<<"undefined">>>>
      [] OTHER -> <<AsText(c.value)>>

\* Of a custom header the name is required: buildTest throws without it.
Writable(c) == c.field = "header" => c.headerName # NoHeader

buildTest(c) ==
    CASE c.field = "size" ->
            Test("size", IF c.op = "lt" THEN "under" ELSE "over", c.unit,
                 <<NumberText(AsNumber(c.value))>>, FALSE)
      [] c.field = "attachment" ->
            Test("header", "contains", "content-type", <<<<Multipart>>>>, c.op = "no_attachment")
      [] OTHER ->
            Test(IF c.field \in AddressFields THEN "address" ELSE "header", MatchType(c.op),
                 IF c.field = "header" THEN c.headerName ELSE c.field, Values(c),
                 c.op = "not_contains")

Statement(verb, copy, args) == [verb |-> verb, copy |-> copy, args |-> args]

buildAction(a) ==
    CASE a.type \in {"fileinto", "copy"} -> Statement("fileinto", a.type = "copy", <<a.folder>>)
      [] a.type = "trash" -> Statement("fileinto", FALSE, <<"Trash">>)
      [] a.type = "mark_read" -> Statement("addflag", FALSE, <<"\\Seen">>)
      [] a.type = "flag" -> Statement("addflag", FALSE, <<"\\Flagged">>)
      [] a.type = "tag" -> Statement("addflag", FALSE, a.keywords)
      [] a.type = "redirect" -> Statement("redirect", TRUE, <<a.address>>)
      [] a.type = "discard" -> Statement("discard", FALSE, <<>>)

\* The block of a rule in the combined script, a rule that is off inside an `if false'.
WritableRule(rule) ==
    /\ \A i \in DOMAIN rule.conditions : Writable(rule.conditions[i])
    /\ \A i \in DOMAIN rule.actions :
          rule.actions[i].type = "tag" => rule.actions[i].keywords # <<>>
Block(rule) ==
    [name |-> rule.name, off |-> ~rule.active, all |-> rule.matchAll, stop |-> rule.stopAfter,
     tests |-> [i \in DOMAIN rule.conditions |-> buildTest(rule.conditions[i])],
     statements |-> [i \in DOMAIN rule.actions |-> buildAction(rule.actions[i])]]

(***************************************************************************)
(* The reader.  What it does not know makes it throw, and the whole list   *)
(* is then read as empty (background.js:443).                              *)
(***************************************************************************)
\* Mutant: `not' of the attachment test has no reading.
ReadableTextOnly(test) ==
    /\ test.values # <<>>
    /\ test.kind = "size" => \E n \in Number : n >= 0 /\ test.values[1] = NumberText(n)
    /\ test.not => test.match = "contains" /\ Len(test.values) = 1 /\ test.header # "content-type"

Readable(test) ==
    /\ test.values # <<>>
    /\ test.kind = "size" => \E n \in Number : n >= 0 /\ test.values[1] = NumberText(n)
    /\ test.not => test.match = "contains" /\ Len(test.values) = 1

Starts(v) == v # <<>> /\ Head(v) = Star
Ends(v) == v # <<>> /\ Last(v) = Star
WithoutStart(v) == IF Starts(v) THEN Tail(v) ELSE v
WithoutEnd(v) == IF Ends(v) THEN Front(v) ELSE v

\* Mutant: `ends' is read as `contains'.
EndsUnread(v) ==
    IF Ends(v) /\ ~Starts(v) THEN <<"starts", Front(v)>>
                             ELSE <<"contains", WithoutEnd(WithoutStart(v))>>

\* The operator and the value of a `:matches'; a star at both ends, or at none, is `contains'.
FromPattern(v) ==
    CASE Ends(v) /\ ~Starts(v) -> <<"starts", Front(v)>>
      [] Starts(v) /\ ~Ends(v) -> <<"ends", Tail(v)>>
      [] OTHER -> <<"contains", WithoutEnd(WithoutStart(v))>>

IsAttachment(test) ==
    test.kind = "header" /\ test.match = "contains" /\ test.header = "content-type"
        /\ test.values = <<<<Multipart>>>>

FieldOf(test) ==
    IF test.kind = "address" \/ test.header = "subject" THEN test.header ELSE "header"

ParsedText(test) ==
    LET field == FieldOf(test)
        header == IF field = "header" THEN test.header ELSE NoHeader
        v == test.values[1]
    IN  CASE test.match = "contains" /\ Len(test.values) > 1 ->
                Condition(field, header, "contains_any", Texts(test.values), "K")
          [] test.match = "contains" /\ Len(test.values) = 1 ->
                Condition(field, header, IF test.not THEN "not_contains" ELSE "contains",
                          Text(v), "K")
          [] test.match = "is" -> Condition(field, header, "is", Text(v), "K")
          [] test.match = "matches" ->
                Condition(field, header, FromPattern(v)[1], Text(FromPattern(v)[2]), "K")

parseTest(test) ==
    CASE test.kind = "size" ->
            Condition("size", NoHeader, IF test.match = "over" THEN "gt" ELSE "lt",
                      Num(AsNumber(Text(test.values[1]))), test.header)
      [] IsAttachment(test) ->
            Condition("attachment", NoHeader,
                      IF test.not THEN "no_attachment" ELSE "has_attachment", Nothing, "K")
      [] OTHER -> ParsedText(test)

parseAction(s) ==
    CASE s.verb = "fileinto" /\ s.copy -> Action("copy", s.args[1], NoAddress, <<>>)
      [] s.verb = "fileinto" /\ ~s.copy /\ s.args = <<"Trash">> ->
            Action("trash", NoFolder, NoAddress, <<>>)
      [] s.verb = "fileinto" /\ ~s.copy /\ s.args # <<"Trash">> ->
            Action("fileinto", s.args[1], NoAddress, <<>>)
      [] s.verb = "addflag" /\ s.args = <<"\\Seen">> ->
            Action("mark_read", NoFolder, NoAddress, <<>>)
      [] s.verb = "addflag" /\ s.args = <<"\\Flagged">> ->
            Action("flag", NoFolder, NoAddress, <<>>)
      [] s.verb = "addflag" /\ s.args \notin {<<f>> : f \in SystemFlags} ->
            Action("tag", NoFolder, NoAddress, s.args)
      [] s.verb = "redirect" -> Action("redirect", NoFolder, s.args[1], <<>>)
      [] s.verb = "discard" -> Action("discard", NoFolder, NoAddress, <<>>)

ReadableBlock(block) == \A i \in DOMAIN block.tests : Readable(block.tests[i])
RuleOf(block) ==
    [name |-> block.name, active |-> ~block.off, matchAll |-> block.all, stopAfter |-> block.stop,
     conditions |-> [i \in DOMAIN block.tests |-> parseTest(block.tests[i])],
     actions |-> [i \in DOMAIN block.statements |-> parseAction(block.statements[i])]]

(***************************************************************************)
(* The server: the Sieve language.  A message is its From, To and Cc (the  *)
(* line as it is shown, and the addresses in it), its other headers,       *)
(* whether a part is an attachment, and its size.                          *)
(***************************************************************************)
Absent == <<"absent">>
HeaderOr(message, name, other) ==
    IF name \in DOMAIN message.headers THEN message.headers[name] ELSE other

\* A script is refused whose text is no Sieve: an empty string list, a size that is no number.
AcceptedBlock(block) ==
    \A i \in DOMAIN block.tests :
        /\ block.tests[i].values # <<>>
        /\ block.tests[i].kind = "size" =>
               \E n \in Number : n >= 0 /\ block.tests[i].values[1] = NumberText(n)

HasPart(s, part) ==
    \E i \in 0 .. Len(s) - Len(part) : SubSeq(s, i + 1, i + Len(part)) = part

Matches(s, pattern) ==
    LET m[i \in 0 .. Len(pattern), j \in 0 .. Len(s)] ==
          CASE i = 0 -> j = 0
            [] i > 0 /\ pattern[i] = Star -> m[i - 1, j] \/ (j > 0 /\ m[i, j - 1])
            [] i > 0 /\ pattern[i] # Star -> j > 0 /\ pattern[i] = s[j] /\ m[i - 1, j - 1]
    IN  m[Len(pattern), Len(s)]

Tested(match, s, v) ==
    CASE match = "contains" -> HasPart(s, v)
      [] match = "is" -> s = v
      [] match = "matches" -> Matches(s, v)

\* The values a test looks at: a header the message does not have gives none.
HeaderValues(test, message) ==
    IF test.kind = "address" THEN message.addresses[test.header]
    ELSE {HeaderOr(message, test.header, Absent)} \ {Absent}

Kilobytes(n, unit) == IF unit = "M" THEN 1024 * n ELSE n
Over(size, n, unit) == size > Kilobytes(n, unit)
Under(size, n, unit) == size < Kilobytes(n, unit)

ServerTest(test, message) ==
    IF test.kind = "size"
    THEN LET n == AsNumber(Text(test.values[1]))
         IN  IF test.match = "over" THEN Over(message.size, n, test.header)
                                    ELSE Under(message.size, n, test.header)
    ELSE test.not # (\E s \in HeaderValues(test, message), i \in DOMAIN test.values :
                        Tested(test.match, s, test.values[i]))

Taken(block, message) ==
    /\ ~block.off
    /\ IF block.all THEN \A i \in DOMAIN block.tests : ServerTest(block.tests[i], message)
                    ELSE \E i \in DOMAIN block.tests : ServerTest(block.tests[i], message)
=============================================================================
