---------------------------- MODULE MCRuleEditor ----------------------------
\* Folders and messages of Wizard and RuleEditor.
EXTENDS Wizard

MCFolders == <<"INBOX", "Trash">>
Sizes == {-1, 0, 1}
MCKeywords == {<<"k">>, <<"k", "l">>}
PlainTexts == {<<"a">>, <<"a", Comma, "b">>, <<Multipart>>}
StarTexts == {<<Star, "a", Star>>}

Lines(from, to) == [field \in AddressFields |-> IF field = "from" THEN from ELSE to]
Mail(author, from, recipients, to, headers, size, folder) ==
    [written |-> Lines(author, recipients), addresses |-> Lines(from, to), headers |-> headers,
     attached |-> FALSE, size |-> size, folder |-> folder]
Headers(subject, list, ctype) ==
    "subject" :> subject @@ "content-type" :> ctype
        @@ IF list = {} THEN <<>> ELSE [name \in {"list-id"} |-> CHOOSE s \in list : TRUE]
Mails ==
    {Mail(<<"n">> \o s, {s}, <<>>, {}, Headers(s, h, t), n, "INBOX") :
        s \in {<<"a">>, <<"a", "b">>, <<"b", "a">>}, h \in {{}, {<<"a">>}},
        t \in {<<"text/">>, <<Multipart, "mixed">>}, n \in {0, 2}}

Bracketed(name, address) == name \o <<"<">> \o address \o <<">">>
Me == <<"me", "@", "d">>
Him == <<"a", "@", "d">>
Her == <<"b", "@", "e">>
MCOwn == {Me}
Letters ==
    {Mail(Bracketed(<<"n">>, Him), {Him}, Bracketed(<<"m">>, Me), {Me},
          "subject" :> <<"re:", "re:", "s">>, 1, "INBOX"),
     Mail(Him, {Him}, Me \o <<Comma>> \o Bracketed(<<"h">>, Her), {Me, Her},
          "subject" :> <<"re:">> @@ "list-id" :> Bracketed(<<"l">>, <<"x">>)
              @@ "reply-to" :> Bracketed(<<"n">>, Her), 1, "Trash"),
     Mail(Me, {Me}, Me, {Me}, "reply-to" :> Me, 1, "INBOX")}
=============================================================================
