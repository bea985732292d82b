------------------------------ MODULE RuleStore ------------------------------
(***************************************************************************)
(* What the background page promises the UI pages: a mailbox has ONE rule  *)
(* list; a command takes effect on the whole list at one instant between   *)
(* its issue and its answer, at most once, and commands of one client do   *)
(* so in the order they were issued.  A command answered with success has  *)
(* taken effect; one answered with an error may or may not have.  The      *)
(* rules of an older version of the add-on are adopted before a command    *)
(* takes effect: all of them that are still missing, behind the others.    *)
(***************************************************************************)
EXTENDS RuleList

CONSTANTS
    Client,
    Commands,
    InitialLists,
    FreshIds,     \* the ids a new rule may get
    Blank         \* names that say nothing

VARIABLES
    rules,     \* the mailbox's rule list
    queue,     \* queue[c]: issued and unanswered commands of c, oldest first
    done,      \* done[c]: the oldest has taken effect
    ok         \* ok[c]: c's last answer was a success

vars == <<rules, queue, done, ok>>

Init ==
    /\ rules \in InitialLists
    /\ queue = [c \in Client |-> <<>>]
    /\ done = [c \in Client |-> FALSE]
    /\ ok = [c \in Client |-> FALSE]

Issue(c, cmd) ==
    /\ queue' = [queue EXCEPT ![c] = Append(@, cmd)]
    /\ UNCHANGED <<rules, done, ok>>

Due(c) ==
    LET cmd == Head(queue[c]) IN ~Rejected(cmd) /\ NeedsWrite(cmd, rules)

\* The effect of c's oldest command on the list as it is now.
Effect(c) ==
    /\ ~done[c]
    /\ Due(c)
    /\ \E fresh \in FreshIds :
         /\ \A i \in DOMAIN rules : rules[i].id < fresh
         /\ rules' = Updated(Head(queue[c]), rules, fresh)

TakeEffect(c) ==
    /\ queue[c] # <<>>
    /\ Effect(c)
    /\ done' = [done EXCEPT ![c] = TRUE]
    /\ UNCHANGED <<queue, ok>>

Answered(c, success) ==
    /\ queue[c] # <<>>
    /\ queue' = [queue EXCEPT ![c] = Tail(@)]
    /\ done' = [done EXCEPT ![c] = FALSE]
    /\ ok' = [ok EXCEPT ![c] = success]

\* A longer list: behind the others come rules under new ids and names not in use.
Extends(longer, list) ==
    /\ IsStrictPrefix(list, longer)
    /\ \A i \in DOMAIN list, j \in DOMAIN longer \ DOMAIN list :
         /\ list[i].id < longer[j].id
         /\ list[i].name = longer[j].name => list[i].name \in Blank

Adopt == Extends(rules', rules)

TakeOver(c) ==
    /\ queue[c] # <<>>
    /\ ~done[c]
    /\ Adopt
    /\ UNCHANGED <<queue, done, ok>>

\* Success: the effect has come before, comes now, or none is due.
Succeed(c) ==
    /\ Answered(c, TRUE)
    /\ \/ Effect(c)
       \/ done[c] /\ UNCHANGED rules
       \/ ~Rejected(Head(queue[c])) /\ ~Due(c) /\ UNCHANGED rules

\* An error says nothing of the effect.
Fail(c) ==
    /\ Answered(c, FALSE)
    /\ \/ Effect(c)
       \/ ~done[c] /\ Adopt
       \/ UNCHANGED rules

\* The client restarts and forgets what it was asked.
Forget(c) ==
    /\ queue' = [queue EXCEPT ![c] = <<>>]
    /\ done' = [done EXCEPT ![c] = FALSE]
    /\ ok' = [ok EXCEPT ![c] = FALSE]
    /\ UNCHANGED rules

Next ==
    \E c \in Client :
        \/ TakeOver(c) \/ TakeEffect(c) \/ Succeed(c) \/ Fail(c) \/ Forget(c)
        \/ \E cmd \in Commands : Issue(c, cmd)

Spec == Init /\ [][Next]_vars
=============================================================================
