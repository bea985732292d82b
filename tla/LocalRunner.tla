----------------------------- MODULE LocalRunner ----------------------------
(***************************************************************************)
(* A rule applied to the messages of a folder by Thunderbird itself:       *)
(* local_runner.js, and the dialog of manager.js that starts a run, stops  *)
(* it and shows its end.  Thunderbird's message store is the environment:  *)
(* a listing has the messages that the folder holds when it is asked for,  *)
(* a page has their tags when it is delivered, a call about a message that *)
(* has left the folder fails, and so may any other.  What the user does to *)
(* the messages in the main window goes on beside a run.                   *)
(***************************************************************************)
EXTENDS RuleText

CONSTANTS
    Run,             \* the runs of one window
    Msg,             \* the messages of the folder
    Content,         \* Content[m]: what the conditions look at (see RuleText)
    Rule,            \* the rules that are run
    Folder,          \* the folders of the account
    PageSize,        \* Thunderbird's page
    UserTags,        \* the tags that the user gives
    MaxUser, MaxFaults   \* bounds: what the user does, and the calls that fail

ASSUME RunnerAssumption ==
    /\ IsFiniteSet(Msg) /\ PageSize \in Nat \ {0} /\ MaxUser \in Nat /\ MaxFaults \in Nat
    /\ \A rule \in Rule : rule.actions \in Seq(Range(rule.actions)) \ {<<>>}   \* validateRule

VARIABLES
    mail,      \* mail[m]: where the message is, and its marks
    runs,      \* runs[r]: the state of runRuleOnFolder
    dialog,    \* the run dialog: open, the run its buttons belong to, and "done" shown
    did,       \* history: did[r] holds <<m, i>> when action i of run r took effect on m
    listed,    \* history: the messages that run r was given
    user, faults

runnerVars == <<mail, runs, dialog, did, listed, user, faults>>

Here == "here"
Deleted == "deleted"
Unmarked == [folder |-> Here, read |-> FALSE, flagged |-> FALSE, tags |-> {}]

NoMessage == [id |-> "none", tags |-> {}]
Idle == [pc |-> "idle", rule |-> NoRule, rest |-> <<>>, page |-> <<>>, msg |-> NoMessage,
         next |-> 1, errors |-> FALSE, aborted |-> FALSE, stop |-> FALSE]

(***************************************************************************)
(* Conditions, as the runner tests them; `full' says whether getFull gave  *)
(* the whole message.                                                      *)
(***************************************************************************)
needFullMessage(rule) ==
    \E i \in DOMAIN rule.conditions : rule.conditions[i].field \in {"header", "attachment"}

extractTextField(c, content, full) ==
    CASE c.field \in AddressFields -> content.written[c.field]
      [] c.field = "subject" -> HeaderOr(content, "subject", <<>>)
      [] c.field = "header" /\ ~full -> Absent
      [] c.field = "header" /\ full -> HeaderOr(content, c.headerName, Absent)

Mixed(content) == "mixed" \in Range(HeaderOr(content, "content-type", <<>>))

\* Mutant: what could not be fetched may well have one.
AttachmentAssumed(content, full) == ~full \/ content.attached \/ Mixed(content)

hasAttachment(content, full) == full /\ (content.attached \/ Mixed(content))

MatchesText(c, text) ==
    LET value == AsText(c.value)
    IN  CASE c.op = "contains" -> HasPart(text, value)
          [] c.op = "not_contains" -> ~HasPart(text, value)
          [] c.op = "is" -> text = value
          [] c.op = "starts" -> IsPrefix(value, text)
          [] c.op = "ends" -> IsSuffix(value, text)
          [] c.op = "contains_any" ->
                \E v \in IF c.value.kind = "list" THEN Range(c.value.list) ELSE {value} :
                    HasPart(text, v)

matchCondition(c, content, full) ==
    CASE c.field = "size" ->
            IF c.op = "gt" THEN Over(content.size, AsNumber(c.value), c.unit)
                           ELSE Under(content.size, AsNumber(c.value), c.unit)
      [] c.field = "attachment" -> hasAttachment(content, full) = (c.op = "has_attachment")
      [] OTHER -> LET text == extractTextField(c, content, full)
                  IN  text # Absent /\ MatchesText(c, text)

matchRule(rule, content, full) ==
    LET Holds(i) == matchCondition(rule.conditions[i], content, full)
    IN  /\ rule.conditions # <<>>
        /\ IF rule.matchAll THEN \A i \in DOMAIN rule.conditions : Holds(i)
                            ELSE \E i \in DOMAIN rule.conditions : Holds(i)

RunnerInit ==
    /\ mail = [m \in Msg |-> Unmarked]
    /\ runs = [r \in Run |-> Idle]
    /\ dialog = [open |-> FALSE, of |-> CHOOSE r \in Run : TRUE, done |-> FALSE]
    /\ did = [r \in Run |-> {}] /\ listed = [r \in Run |-> {}]
    /\ user = 0 /\ faults = 0

Fault == faults < MaxFaults /\ faults' = faults + 1
Ok == UNCHANGED faults

(***************************************************************************)
(* The dialog.  The page is not marked busy while a run is at work: with   *)
(* the dialog closed by Esc another run may be started, and takes over the *)
(* buttons.                                                                *)
(***************************************************************************)
Start(r) ==
    /\ runs[r] = Idle /\ ~dialog.open
    /\ \E rule \in Rule : runs' = [runs EXCEPT ![r] = [Idle EXCEPT !.pc = "info", !.rule = rule]]
    /\ dialog' = [open |-> TRUE, of |-> r, done |-> FALSE]
    /\ UNCHANGED <<mail, did, listed, user, faults>>

CancelClick ==
    /\ dialog.open /\ ~dialog.done
    /\ ~runs[dialog.of].stop
    /\ runs' = [runs EXCEPT ![dialog.of].stop = TRUE]
    /\ UNCHANGED <<mail, dialog, did, listed, user, faults>>

\* The close button of a run that has ended, or Esc at any time.
CloseDialog ==
    /\ dialog.open
    /\ dialog' = [dialog EXCEPT !.open = FALSE]
    /\ UNCHANGED <<mail, runs, did, listed, user, faults>>

(***************************************************************************)
(* runRuleOnFolder.  Every call of the API is one step.                    *)
(***************************************************************************)
GoOn(r, new) == runs' = [runs EXCEPT ![r] = new] /\ UNCHANGED dialog
End(r, new) ==
    /\ runs' = [runs EXCEPT ![r] = [new EXCEPT !.pc = "done", !.page = <<>>, !.rest = <<>>]]
    /\ dialog' = [dialog EXCEPT !.done = TRUE]

\* getFolderInfo; its failure is of no account.
InfoAnswered(r) ==
    /\ runs[r].pc = "info"
    /\ IF runs[r].stop THEN End(r, [runs[r] EXCEPT !.aborted = TRUE])
                       ELSE GoOn(r, [runs[r] EXCEPT !.pc = "list"])
    /\ UNCHANGED <<mail, did, listed, user, faults>>

Header(m) == [id |-> m, tags |-> mail[m].tags]
Paged(ids) == [i \in 1 .. IF Len(ids) < PageSize THEN Len(ids) ELSE PageSize |-> Header(ids[i])]
AfterPage(ids) == IF Len(ids) <= PageSize THEN <<>> ELSE SubSeq(ids, PageSize + 1, Len(ids))
Turned(run, ids) == [run EXCEPT !.pc = "page", !.page = Paged(ids), !.rest = AfterPage(ids)]

Listed(r) ==
    /\ runs[r].pc = "list"
    /\ \/ LET there == {m \in Msg : mail[m].folder = Here}
          IN  /\ Ok
              /\ listed' = [listed EXCEPT ![r] = there]
              /\ GoOn(r, Turned(runs[r], SetToSeq(there)))
       \/ /\ Fault
          /\ End(r, [runs[r] EXCEPT !.errors = TRUE])
          /\ UNCHANGED listed
    /\ UNCHANGED <<mail, did, user>>

\* Mutant: continueList is asked after the last page too.
AskedAgain(r) ==
    /\ runs[r].pc = "page" /\ runs[r].page = <<>>
    /\ Ok /\ GoOn(r, Turned(runs[r], runs[r].rest))
    /\ UNCHANGED <<mail, did, listed, user>>

\* continueList, for a page that has an id; else the run is over.
NextPage(r) ==
    /\ runs[r].pc = "page" /\ runs[r].page = <<>>
    /\ \/ runs[r].rest = <<>> /\ Ok /\ End(r, runs[r])
       \/ runs[r].rest # <<>> /\ Ok /\ GoOn(r, Turned(runs[r], runs[r].rest))
       \/ runs[r].rest # <<>> /\ Fault /\ End(r, [runs[r] EXCEPT !.errors = TRUE])
    /\ UNCHANGED <<mail, did, listed, user>>

Judged(run, full) ==
    IF matchRule(run.rule, Content[run.msg.id], full)
    THEN [run EXCEPT !.pc = "act", !.next = 1]
    ELSE [run EXCEPT !.pc = "page"]

NextMessage(r) ==
    LET run == [runs[r] EXCEPT !.msg = Head(runs[r].page), !.page = Tail(@)]
    IN  /\ runs[r].pc = "page" /\ runs[r].page # <<>>
        /\ CASE runs[r].stop -> End(r, [runs[r] EXCEPT !.aborted = TRUE])
             [] ~runs[r].stop /\ needFullMessage(run.rule) -> GoOn(r, [run EXCEPT !.pc = "full"])
             [] OTHER -> GoOn(r, Judged(run, FALSE))
        /\ UNCHANGED <<mail, did, listed, user, faults>>

FullAnswered(r) ==
    /\ runs[r].pc = "full"
    /\ \/ Ok /\ GoOn(r, Judged(runs[r], TRUE))
       \/ Fault /\ GoOn(r, Judged([runs[r] EXCEPT !.errors = TRUE], FALSE))
    /\ UNCHANGED <<mail, did, listed, user>>

(***************************************************************************)
(* applyActions.  update takes all tags of the message: the new ones are   *)
(* put to those of the page.                                               *)
(***************************************************************************)
Resolved(action) == action.type \in {"fileinto", "copy"} => action.folder \in Folder

Marked(action, msg) ==
    LET old == mail[msg.id]
    IN  CASE action.type = "fileinto" -> [old EXCEPT !.folder = action.folder]
          [] action.type = "trash" ->
                [old EXCEPT !.folder = IF "Trash" \in Folder THEN "Trash" ELSE Deleted]
          [] action.type = "discard" -> [old EXCEPT !.folder = Deleted]
          [] action.type = "mark_read" -> [old EXCEPT !.read = TRUE]
          [] action.type = "flag" -> [old EXCEPT !.flagged = TRUE]
          [] action.type = "tag" -> [old EXCEPT !.tags = msg.tags \cup Range(action.keywords)]
          [] OTHER -> old

\* Mutant: a failed call is not noted.
PassedUnseen(run) ==
    IF run.next < Len(run.rule.actions) THEN [run EXCEPT !.next = @ + 1, !.errors = FALSE]
                                        ELSE [run EXCEPT !.pc = "page", !.next = 1, !.errors = FALSE]

Passed(run) ==
    IF run.next < Len(run.rule.actions) THEN [run EXCEPT !.next = @ + 1]
                                        ELSE [run EXCEPT !.pc = "page", !.next = 1]

Performed(r, action) ==
    /\ Resolved(action)
    /\ mail[runs[r].msg.id].folder = Here
    /\ mail' = [mail EXCEPT ![runs[r].msg.id] = Marked(action, runs[r].msg)]
    /\ did' = [did EXCEPT ![r] = @ \cup {<<runs[r].msg.id, runs[r].next>>}]
    /\ Ok
    /\ GoOn(r, Passed(runs[r]))

Failed(r, action) ==
    /\ IF Resolved(action) /\ mail[runs[r].msg.id].folder = Here THEN Fault ELSE Ok
    /\ GoOn(r, Passed([runs[r] EXCEPT !.errors = TRUE]))
    /\ UNCHANGED <<mail, did>>

\* redirect is left to the server and only reported.
Skipped(r) == GoOn(r, Passed(runs[r])) /\ UNCHANGED <<mail, did, faults>>

Act(r) ==
    /\ runs[r].pc = "act"
    /\ LET action == runs[r].rule.actions[runs[r].next]
       IN  \/ action.type = "redirect" /\ Skipped(r)
           \/ action.type # "redirect" /\ (Performed(r, action) \/ Failed(r, action))
    /\ UNCHANGED <<listed, user>>

(***************************************************************************)
(* The user at the messages themselves.                                    *)
(***************************************************************************)
UserActs(m) ==
    /\ user < MaxUser /\ user' = user + 1
    /\ mail[m].folder = Here
    /\ \/ \E tag \in UserTags : mail' = [mail EXCEPT ![m].tags = @ \cup {tag}]
       \/ mail' = [mail EXCEPT ![m].folder = Deleted]
    /\ UNCHANGED <<runs, dialog, did, listed, faults>>

Step(r) ==
    \/ InfoAnswered(r)
    \/ Listed(r)
    \/ NextPage(r)
    \/ NextMessage(r)
    \/ FullAnswered(r)
    \/ Act(r)

RunnerNext ==
    \/ \E r \in Run : Start(r) \/ Step(r)
    \/ CancelClick
    \/ CloseDialog
    \/ \E m \in Msg : UserActs(m)

\* Thunderbird answers every call, with an error at worst; nobody has to click.
RunnerSpec == RunnerInit /\ [][RunnerNext]_runnerVars /\ \A r \in Run : WF_runnerVars(Step(r))
-----------------------------------------------------------------------------
Suits(rule, m) == matchRule(rule, Content[m], TRUE)
ToDo(rule) == {i \in DOMAIN rule.actions : rule.actions[i].type # "redirect"}
TagsOf(rule) ==
    UNION {Range(rule.actions[i].keywords) : i \in {j \in ToDo(rule) : rule.actions[j].type = "tag"}}

(***************************************************************************)
(* A run that ends with no error and was not stopped has done the whole    *)
(* rule to every message that suits it, and nothing to the others.         *)
(* (runRuleOnFolder's summary, and what the dialog says of it.)            *)
(***************************************************************************)
DoneIsDone ==
    \A r \in Run :
        LET run == runs[r]
        IN  run.pc = "done" /\ ~run.errors /\ ~run.aborted =>
              \A m \in listed[r] :
                  /\ {d[2] : d \in {e \in did[r] : e[1] = m}} =
                        IF Suits(run.rule, m) THEN ToDo(run.rule) ELSE {}
                  /\ Suits(run.rule, m) => TagsOf(run.rule) \subseteq mail[m].tags

(***************************************************************************)
(* Whatever fails, the rule's actions are for the messages that suit it.   *)
(* ("for every message we check the conditions ... and on a match carry    *)
(* out the actions", local_runner.js:4-7.)                                 *)
(***************************************************************************)
OnlySuited == \A r \in Run : \A d \in did[r] : Suits(runs[r].rule, d[1])

(***************************************************************************)
(* Every run that was started ends, whatever is cancelled, closed, moved   *)
(* away or refused meanwhile.                                              *)
(***************************************************************************)
RunEnds == \A r \in Run : runs[r].pc = "info" ~> runs[r].pc = "done"
=============================================================================
