---------------------------- MODULE MCLocalRunner ---------------------------
\* Messages and rules of LocalRunner.
EXTENDS LocalRunner

Mail(author, fromList, ctype, attached) ==
    [written |-> [field \in AddressFields |-> author],
     addresses |-> [field \in AddressFields |-> {<<"a">>}],
     headers |-> "subject" :> <<"s">> @@ "content-type" :> ctype
                 @@ IF fromList THEN "list-id" :> <<"h">> ELSE <<>>,
     attached |-> attached, size |-> 1]
Mails == "m1" :> Mail(<<"n", "a">>, TRUE, <<"text/">>, FALSE)
      @@ "m2" :> Mail(<<"a">>, FALSE, <<Multipart, "mixed">>, TRUE)
      @@ "m3" :> Mail(<<"n", "a">>, TRUE, <<Multipart, "mixed">>, FALSE)

Of(conditions, actions) ==
    [name |-> "n", active |-> TRUE, matchAll |-> TRUE, stopAfter |-> FALSE,
     conditions |-> conditions, actions |-> actions]
HasHeader == Condition("header", "list-id", "contains", Text(<<"h">>), "K")
HasAttachment == Condition("attachment", NoHeader, "has_attachment", Nothing, "K")
FromName == Condition("from", NoHeader, "starts", Text(<<"n">>), "K")
FromOne == Condition("from", NoHeader, "contains", Text(<<"a">>), "K")
Do(type) == Action(type, NoFolder, NoAddress, <<>>)
To(type, folder) == Action(type, folder, NoAddress, <<>>)
Tag(word) == Action("tag", NoFolder, NoAddress, <<word>>)

SomeRules ==
    {Of(<<HasHeader>>, <<Do("mark_read"), Tag("k"), To("fileinto", "X")>>),
     Of(<<HasAttachment, FromOne>>, <<To("copy", "X"), Do("redirect"), Do("discard")>>),
     Of(<<FromName>>, <<To("fileinto", "X"), Do("flag"), To("copy", "Y")>>)}
MoveFirst == {Of(<<FromName>>, <<To("fileinto", "X"), Do("flag"), To("copy", "Y")>>)}
TwoTags == {Of(<<FromOne>>, <<Tag("k"), Tag("l")>>)}
NoSizes == {}
=============================================================================
