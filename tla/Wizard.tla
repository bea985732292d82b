------------------------------- MODULE Wizard -------------------------------
(***************************************************************************)
(* The window that makes a rule of a message (wizard.js, templates.js):    *)
(* what it learns of the message, the templates it offers, the rule that   *)
(* template and ticks give, and where the rule goes: to the server, or     *)
(* into the editor of RuleEditor first.                                    *)
(***************************************************************************)
EXTENDS RuleEditor

CONSTANTS
    Letter,         \* the messages that the window is opened from
    SystemFolder,   \* the folders that isSystemFolder knows
    Prefix,         \* prefs.subjectPrefixes, each one symbol with its colon
    Own,            \* the user's addresses
    StripPrefixes, HideSystem, ExcludeOwn,    \* the other preferences
    SubjectMax,     \* how long the text for the subject may be (50 in the code)
    Making          \* bound: making a rule counts as so many edits

ASSUME WizardAssumption ==
    /\ {StripPrefixes, HideSystem, ExcludeOwn} \subseteq BOOLEAN
    /\ SystemFolder \subseteq FolderName /\ {SubjectMax, Making} \subseteq Nat

VARIABLES
    wizard,   \* the window: what it knows of its message; or NoWizard
    made      \* history: what the rule was made of and how, until the user changes it

wizardVars == <<vars, wizard, made>>

NoWizard == [kind |-> "closed"]
Unread == [kind |-> "unread"]    \* the message could not be read
NotMade == [kind |-> "none"]

WizardInit == Init /\ wizard = NoWizard /\ made = NotMade

(***************************************************************************)
(* Of the background page's answer: the author and the recipients as they  *)
(* are shown, the headers only if the whole message could be read.         *)
(***************************************************************************)
Meta(letter, full) ==
    [kind |-> "read", letter |-> letter, folder |-> letter.folder,
     author |-> letter.written["from"], recipients |-> letter.written["to"],
     subject |-> HeaderOr(letter, "subject", <<>>),
     listId |-> IF full THEN HeaderOr(letter, "list-id", <<>>) ELSE <<>>,
     replyTo |-> IF full THEN HeaderOr(letter, "reply-to", <<>>) ELSE <<>>]

(***************************************************************************)
(* templates.js.                                                           *)
(***************************************************************************)
\* Mutant: what stands in the brackets is not taken out.
WholeText(text) == text

\* What stands between the first "<" and the ">" after it; without brackets, all of it.
extractEmail(text) ==
    LET Bracketed(i, j) == /\ i + 1 < j /\ text[i] = "<" /\ text[j] = ">"
                           /\ \A k \in 1 .. j - 1 : text[k] \notin (IF k < i THEN {"<"} ELSE {">"})
        Inside == {SubSeq(text, p[1] + 1, p[2] - 1) :
                     p \in {q \in (DOMAIN text) \X (DOMAIN text) : Bracketed(q[1], q[2])}}
    IN  IF Inside = {} THEN text ELSE CHOOSE s \in Inside : TRUE

extractDomain(email) ==
    LET at == {i \in DOMAIN email : email[i] = "@"}
    IN  IF at = {} THEN <<>> ELSE SubSeq(email, Max(at) + 1, Len(email))

splitAddressList(text) == LET pieces == Pieces(text)
                          IN  [i \in DOMAIN pieces |-> extractEmail(pieces[i])]

NonOwn(meta) == SelectSeq(splitAddressList(meta.recipients), LAMBDA a : a \notin Own)

\* pickNonOwnRecipient, then the first recipient, then the author.
Recipient(meta) ==
    LET all == splitAddressList(meta.recipients)
    IN  CASE ExcludeOwn /\ NonOwn(meta) # <<>> -> NonOwn(meta)[1]
          [] ~(ExcludeOwn /\ NonOwn(meta) # <<>>) /\ all # <<>> -> all[1]
          [] OTHER -> extractEmail(meta.author)

\* cleanSubjectForName: a subject of prefixes only is left as it is.
cleanSubjectForName(subject) ==
    LET led == {n \in 0 .. Len(subject) : \A i \in 1 .. n : subject[i] \in Prefix}
        rest == SubSeq(subject, Max(led) + 1, Len(subject))
    IN  IF rest = <<>> THEN subject ELSE rest

Truncated(text) ==
    IF Len(text) <= SubjectMax THEN text ELSE Append(SubSeq(text, 1, SubjectMax), "...")

Supports(template, meta) ==
    CASE template = "sender" -> extractEmail(meta.author) # <<>>
      [] template = "domain" -> extractDomain(extractEmail(meta.author)) # <<>>
      [] template = "recipient" ->
            /\ Recipient(meta) # <<>>
            /\ ExcludeOwn /\ Own # {} =>
                  NonOwn(meta) # <<>> \/ extractEmail(meta.author) \notin Own \cup {<<>>}
      [] template = "replyTo" -> meta.replyTo # <<>>
      [] template = "subject" -> meta.subject # <<>>
      [] template = "list" -> meta.listId # <<>>

Templates == {"sender", "domain", "recipient", "replyTo", "subject", "list"}

\* Where none can be chosen the one that was set at the start stays set.
Offered(meta) ==
    LET ok == IF meta = Unread THEN {} ELSE {t \in Templates : Supports(t, meta)}
    IN  IF ok = {} THEN {"sender"} ELSE ok

HasText(field, header, text) == Condition(field, header, "contains", Text(text), "K")

ConditionOf(template, meta) ==
    CASE meta = Unread -> HasText("from", NoHeader, <<>>)
      [] template = "sender" -> HasText("from", NoHeader, extractEmail(meta.author))
      [] template = "domain" ->
            HasText("from", NoHeader, <<"@">> \o extractDomain(extractEmail(meta.author)))
      [] template = "recipient" -> HasText("to", NoHeader, Recipient(meta))
      [] template = "replyTo" -> HasText("header", "reply-to", extractEmail(meta.replyTo))
      [] template = "subject" ->
            HasText("subject", NoHeader,
                Truncated(IF StripPrefixes THEN cleanSubjectForName(meta.subject) ELSE meta.subject))
      [] template = "list" -> HasText("header", "list-id", meta.listId)

(***************************************************************************)
(* The folders on offer, the ticks, and the rule.                          *)
(***************************************************************************)
Visible(meta) ==
    LET usable == IF HideSystem THEN SelectSeq(Folders, LAMBDA f : f \notin SystemFolder)
                                ELSE Folders
        hidden == /\ meta # Unread /\ meta.folder \in Range(Folders)
                  /\ meta.folder \notin Range(usable)
    IN  IF hidden THEN <<meta.folder>> \o usable ELSE usable

FirstVisible(meta) == IF Visible(meta) = <<>> THEN NoFolder ELSE Visible(meta)[1]

\* With nothing ticked the rule files into the first folder.
applyActionsToRule(file, folder, star, tags, first) ==
    LET ticked == (IF file THEN <<Action("fileinto", folder, NoAddress, <<>>)>> ELSE <<>>)
               \o (IF star THEN <<Action("flag", NoFolder, NoAddress, <<>>)>> ELSE <<>>)
               \o (IF tags # <<>> THEN <<Action("tag", NoFolder, NoAddress, tags)>> ELSE <<>>)
    IN  IF ticked = <<>> THEN <<Action("fileinto", first, NoAddress, <<>>)>> ELSE ticked

Built(template, actions) ==
    [name |-> template, active |-> TRUE, matchAll |-> TRUE, stopAfter |-> FALSE,
     conditions |-> <<ConditionOf(template, wizard)>>, actions |-> actions]

Drafts ==
    {Built(t, applyActionsToRule(file, folder, star, tags, FirstVisible(wizard))) :
        t \in Offered(wizard), file \in BOOLEAN, star \in BOOLEAN, tags \in Keywords \cup {<<>>},
        folder \in IF Visible(wizard) = <<>> THEN {NoFolder} ELSE Range(Visible(wizard))}

(***************************************************************************)
(* The window's steps.                                                     *)
(***************************************************************************)
OpenWizard ==
    /\ wizard = NoWizard /\ draft = NoRule /\ stored = NoBlock
    /\ wizard' \in {Unread} \cup {Meta(letter, full) : letter \in Letter, full \in BOOLEAN}
    /\ UNCHANGED <<vars, made>>

\* onCreate, also the one of `Retry' after a password was missing: into the editor, or to the
\* server as it is, without validateRule.
Create ==
    /\ wizard # NoWizard /\ draft = NoRule /\ edits + Making <= MaxEdits
    /\ edits' = edits + Making
    /\ \E rule \in Drafts :
        /\ made' = [kind |-> "made", of |-> wizard, template |-> rule.name]
        /\ \/ draft' = rule /\ UNCHANGED <<stored, wizard>>
           \/ saveRule(rule) /\ wizard' = NoWizard /\ UNCHANGED draft
    /\ UNCHANGED page

\* OK in the editor over the wizard: a success closes both, the list is read from the server.
SaveMade ==
    /\ wizard # NoWizard /\ draft # NoRule
    /\ Stores(draft)
    /\ draft' = NoRule /\ wizard' = NoWizard
    /\ UNCHANGED <<page, edits, made>>

CloseWizard ==
    /\ wizard # NoWizard /\ draft = NoRule
    /\ wizard' = NoWizard
    /\ UNCHANGED <<vars, made>>

\* The editor itself; Cancel over the wizard is also what a missing password does.
InEditor ==
    /\ \/ wizard = NoWizard /\ (Open \/ Save \/ Cancel \/ Reload)
       \/ wizard # NoWizard /\ Cancel
       \/ EditDraft
    /\ made' = IF edits' = edits THEN made ELSE NotMade
    /\ UNCHANGED wizard

WizardNext == OpenWizard \/ Create \/ SaveMade \/ CloseWizard \/ InEditor

WizardSpec == WizardInit /\ [][WizardNext]_wizardVars

(***************************************************************************)
(* A rule made of a message takes that message, also after it was read     *)
(* from the server, opened and saved again any number of times.            *)
(***************************************************************************)
TakesItsMessage ==
    made # NotMade /\ made.of # Unread /\ stored # NoBlock => Taken(stored, made.of.letter)

(***************************************************************************)
(* _locales/en/messages.json:248: by recipient "would not be useful" for a *)
(* message that is "addressed only to your own addresses".  It does not    *)
(* hold: the template is offered unless the author is the user as well,    *)
(* and the condition is then the user's own address.                       *)
(***************************************************************************)
OwnAddressUnused ==
    ExcludeOwn /\ made # NotMade /\ made.of # Unread /\ made.template = "recipient" =>
        Recipient(made.of) \notin Own

(***************************************************************************)
(* Where the message could not be read no template can be chosen           *)
(* (templates.js:9, canApplyWithoutMessage: none has it).  The one set at  *)
(* the start is used all the same, and its rule takes every message.       *)
(***************************************************************************)
NothingOfUnread == made # NotMade /\ made.of = Unread => stored = NoBlock
=============================================================================
