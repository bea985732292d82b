---------------------------- MODULE Dialogs_proofs ----------------------------
(***************************************************************************)
(* What the dialogs over rules promise, for any rules, messages, filters   *)
(* and numbers of steps: the local runner, the import of Thunderbird's     *)
(* filters, and the editor with the wizard.                                *)
(***************************************************************************)
EXTENDS Wizard, LocalRunner, ImportDialog, FiniteSetTheorems, SequenceTheorems,
        WellFoundedInduction, TLAPS

(***************************************************************************)
(* The local runner.                                                       *)
(***************************************************************************)
KnownTags == UserTags \cup UNION {TagsOf(rule) : rule \in Rule}
Marks ==
    [folder : Folder \cup {Here, Deleted}, read : BOOLEAN, flagged : BOOLEAN, tags : SUBSET KnownTags]
Headers == [id : Msg, tags : SUBSET KnownTags]
Early == {"idle", "info", "list"}
AtMessage == {"full", "act"}
RunStates ==
    [pc : Early \cup AtMessage \cup {"page", "done"}, rule : Rule \cup {NoRule}, rest : Seq(Msg),
     page : Seq(Headers), msg : Headers \cup {NoMessage}, next : Nat,
     errors : BOOLEAN, aborted : BOOLEAN, stop : BOOLEAN]

RunnerTypeOK ==
    /\ mail \in [Msg -> Marks]
    /\ runs \in [Run -> RunStates]
    /\ dialog \in [open : BOOLEAN, of : Run \cup {CHOOSE r \in Run : TRUE}, done : BOOLEAN]
    /\ dialog.open => dialog.of \in Run
    /\ listed \in [Run -> SUBSET Msg]
    /\ did \in [Run -> SUBSET (Msg \X Nat)]

\* The messages that a run has still to look at.
Remaining(run) == {run.page[i].id : i \in DOMAIN run.page} \cup Range(run.rest)

\* Each of them comes once; `seen' are the messages it was given.
InHand(run, seen, done) ==
    /\ run.pc \in Early => seen = {} /\ done = {}
    /\ run.pc # "idle" => run.rule \in Rule
    /\ Remaining(run) \subseteq seen
    /\ \A i, j \in DOMAIN run.page : run.page[i].id = run.page[j].id => i = j
    /\ IsInjective(run.rest)
    /\ \A i \in DOMAIN run.page : run.page[i].id \notin Range(run.rest)
    /\ run.pc \in AtMessage => run.msg \in Headers /\ run.msg.id \in seen \ Remaining(run)
    /\ run.pc = "act" => run.next \in DOMAIN run.rule.actions
    /\ run.pc \in Early \cup {"done"} => Remaining(run) = {}

\* What was done to a message, and what should have been done by now.
Done(done, m) == {d[2] : d \in {e \in done : e[1] = m}}
Due(run, m) ==
    IF run.pc \in AtMessage /\ m = run.msg.id
    THEN IF run.pc = "act" THEN ToDo(run.rule) \cap (1 .. run.next - 1) ELSE {}
    ELSE IF m \notin Remaining(run) /\ Suits(run.rule, m) THEN ToDo(run.rule) ELSE {}

Clean(run) == run.pc \notin Early /\ ~run.errors /\ ~run.aborted

\* A step that leaves to each message what is due to it.
SameDue(run, new) == Clean(new) => Clean(run) /\ \A m : Due(new, m) = Due(run, m)

UpToDate(run, seen, done) ==
    Clean(run) =>
        /\ run.pc = "act" => Suits(run.rule, run.msg.id)
        /\ \A m \in seen : Done(done, m) = Due(run, m)

RunnerInv ==
    /\ RunnerTypeOK
    /\ \A r \in Run : InHand(runs[r], listed[r], did[r]) /\ UpToDate(runs[r], listed[r], did[r])

-----------------------------------------------------------------------------
\* Without conditions on headers and attachments the whole message is not needed.
LEMMA HeaderIsEnough ==
    ASSUME NEW rule, NEW content, ~needFullMessage(rule)
    PROVE  matchRule(rule, content, FALSE) = matchRule(rule, content, TRUE)
  <1>1. ASSUME NEW i \in DOMAIN rule.conditions
        PROVE  matchCondition(rule.conditions[i], content, FALSE) =
               matchCondition(rule.conditions[i], content, TRUE)
    BY DEF needFullMessage, matchCondition, extractTextField
  <1> QED
    BY <1>1 DEF matchRule

\* What is judged without the whole message, and taken, is taken with it.
LEMMA LessIsCautious ==
    ASSUME NEW rule, NEW content,
           \A i \in DOMAIN rule.conditions :
               rule.conditions[i].field = "attachment" => rule.conditions[i].op = "has_attachment",
           matchRule(rule, content, FALSE)
    PROVE  matchRule(rule, content, TRUE)
  <1>1. ASSUME NEW i \in DOMAIN rule.conditions,
               matchCondition(rule.conditions[i], content, FALSE)
        PROVE  matchCondition(rule.conditions[i], content, TRUE)
    <2> DEFINE c == rule.conditions[i]
    <2>1. CASE c.field = "attachment"
      <3>1. c.op = "has_attachment"
        BY <2>1
      <3>2. hasAttachment(content, FALSE) = FALSE
        BY DEF hasAttachment
      <3>3. matchCondition(c, content, FALSE) = FALSE
        BY <2>1, <3>1, <3>2 DEF matchCondition
      <3> QED
        BY <1>1, <3>3
    <2>2. CASE c.field = "header"
      <3>1. extractTextField(c, content, FALSE) = Absent
        BY <2>2 DEF extractTextField, AddressFields
      <3>2. matchCondition(c, content, FALSE) = FALSE
        BY <2>2, <3>1 DEF matchCondition
      <3> QED
        BY <1>1, <3>2
    <2>3. CASE c.field \notin {"attachment", "header"}
      BY <1>1, <2>3 DEF matchCondition, extractTextField
    <2> QED
      BY <2>1, <2>2, <2>3
  <1> QED
    BY <1>1 DEF matchRule

\* A list of a finite set has each of its elements once.
LEMMA SetToSeqIs ==
    ASSUME NEW S, IsFiniteSet(S)
    PROVE  SetToSeq(S) \in Seq(S) /\ IsInjective(SetToSeq(S)) /\ Range(SetToSeq(S)) = S
  <1> DEFINE n == Cardinality(S)
  <1>1. n \in Nat /\ ExistsBijection(1 .. n, S)
    BY FS_CardinalityType
  <1>2. \E f \in [1 .. n -> S] : IsInjective(f)
    BY <1>1 DEF ExistsBijection, Bijection, Injection
  <1>3. SetToSeq(S) \in [1 .. n -> S] /\ IsInjective(SetToSeq(S))
    BY <1>2 DEF SetToSeq
  <1>4. SetToSeq(S) \in Injection(1 .. n, S)
    BY <1>3 DEF Injection
  <1>5. SetToSeq(S) \in Surjection(1 .. n, S)
    <2>1. IsFiniteSet(1 .. n) /\ Cardinality(1 .. n) = n
      BY <1>1, FS_Interval
    <2> QED
      BY <1>4, <2>1, FS_Injection
  <1>6. Range(SetToSeq(S)) = S
    BY <1>3, <1>5 DEF Surjection, Range
  <1>7. SetToSeq(S) \in Seq(S)
    BY <1>1, <1>3
  <1> QED
    BY <1>3, <1>6, <1>7

\* A page has its first messages, and the rest has the others.
LEMMA PageIs ==
    ASSUME NEW ids \in Seq(Msg), mail \in [Msg -> Marks]
    PROVE  /\ Paged(ids) \in Seq(Headers) /\ Len(Paged(ids)) <= Len(ids)
           /\ \A i \in DOMAIN Paged(ids) : i \in DOMAIN ids /\ Paged(ids)[i].id = ids[i]
           /\ AfterPage(ids) \in Seq(Msg) /\ Len(AfterPage(ids)) = Len(ids) - Len(Paged(ids))
           /\ \A i \in DOMAIN AfterPage(ids) : /\ i + Len(Paged(ids)) \in DOMAIN ids
                                               /\ AfterPage(ids)[i] = ids[i + Len(Paged(ids))]
  <1> DEFINE n == IF Len(ids) < PageSize THEN Len(ids) ELSE PageSize
             p == [i \in 1 .. n |-> Header(ids[i])]
  <1>0. n \in Nat /\ n <= Len(ids) /\ Len(ids) \in Nat
    BY RunnerAssumption
  <1>1. ASSUME NEW m \in Msg
        PROVE  Header(m) \in Headers /\ Header(m).id = m
    BY DEF Header, Headers, Marks
  <1>2. p \in [1 .. n -> Headers]
    BY <1>0, <1>1
  <1>3. Paged(ids) = p
    BY DEF Paged
  <1>4. p \in Seq(Headers) /\ Len(p) = n /\ DOMAIN p = 1 .. n
    <2> HIDE DEF p, n
    <2> QED
      BY <1>0, <1>2
  <1>5. \A i \in 1 .. n : i \in DOMAIN ids /\ p[i].id = ids[i]
    BY <1>0, <1>1
  <1>6. CASE Len(ids) <= PageSize
    <2>1. AfterPage(ids) = <<>> /\ n = Len(ids)
      BY <1>6, RunnerAssumption DEF AfterPage
    <2>2. AfterPage(ids) \in Seq(Msg) /\ Len(AfterPage(ids)) = 0 /\ DOMAIN AfterPage(ids) = {}
      BY <2>1
    <2> HIDE DEF n, p
    <2> QED
      BY <1>0, <1>3, <1>4, <1>5, <2>1, <2>2
  <1>7. CASE Len(ids) > PageSize
    <2>0. n = PageSize /\ ~(Len(ids) <= PageSize)
      BY <1>7, RunnerAssumption
    <2>1. AfterPage(ids) = SubSeq(ids, n + 1, Len(ids)) /\ n = PageSize
      <3> HIDE DEF n
      <3> QED
        BY <2>0 DEF AfterPage
    <2>2. /\ AfterPage(ids) \in Seq(Msg) /\ Len(AfterPage(ids)) = Len(ids) - n
          /\ DOMAIN AfterPage(ids) = 1 .. Len(ids) - n
          /\ \A i \in 1 .. Len(ids) - n : AfterPage(ids)[i] = ids[i + n]
      <3> HIDE DEF n
      <3> QED
        BY <1>0, <1>7, <2>1, RunnerAssumption
    <2> QED
      <3> HIDE DEF n, p
      <3> QED
        BY <1>0, <1>3, <1>4, <1>5, <2>2
  <1> QED
    BY <1>6, <1>7, <1>0, RunnerAssumption

\* A run that is given a page has the same messages to look at as before.
LEMMA TurnedIs ==
    ASSUME NEW ids \in Seq(Msg), IsInjective(ids), mail \in [Msg -> Marks],
           NEW run \in RunStates
    PROVE  LET new == Turned(run, ids)
           IN  /\ new \in RunStates /\ new.pc = "page" /\ new.rule = run.rule
               /\ new.errors = run.errors /\ new.aborted = run.aborted
               /\ Remaining(new) = Range(ids) /\ IsInjective(new.rest)
               /\ \A i, j \in DOMAIN new.page : new.page[i].id = new.page[j].id => i = j
               /\ \A i \in DOMAIN new.page : new.page[i].id \notin Range(new.rest)
  <1> DEFINE new == Turned(run, ids)
             k == Len(Paged(ids))
  <1>1. /\ new.pc = "page" /\ new.rule = run.rule
        /\ new.errors = run.errors /\ new.aborted = run.aborted
        /\ new.page = Paged(ids) /\ new.rest = AfterPage(ids) /\ new \in RunStates
    BY PageIs DEF Turned, RunStates
  <1>2. /\ DOMAIN ids = 1 .. Len(ids) /\ Len(ids) \in Nat /\ k \in Nat /\ k <= Len(ids)
        /\ DOMAIN Paged(ids) = 1 .. k /\ DOMAIN AfterPage(ids) = 1 .. Len(ids) - k
    BY PageIs
  <1>3. \A i \in DOMAIN Paged(ids) : Paged(ids)[i].id = ids[i]
    BY PageIs
  <1>4. \A i \in DOMAIN AfterPage(ids) : AfterPage(ids)[i] = ids[i + Len(Paged(ids))]
    BY PageIs
  <1> HIDE DEF new
  <1>5. Remaining(new) = Range(ids)
    <2>1. ASSUME NEW x \in Remaining(new)
          PROVE  x \in Range(ids)
      <3>1. CASE \E i \in DOMAIN new.page : x = new.page[i].id
        BY <3>1, <1>1, <1>2, <1>3 DEF Range
      <3>2. CASE \E i \in DOMAIN new.rest : x = new.rest[i]
        BY <3>2, <1>1, <1>2, <1>4 DEF Range
      <3> QED
        BY <3>1, <3>2 DEF Remaining, Range
    <2>2. ASSUME NEW i \in DOMAIN ids
          PROVE  ids[i] \in Remaining(new)
      <3>1. CASE i <= k
        BY <3>1, <1>1, <1>2, <1>3 DEF Remaining
      <3>2. CASE i > k
        <4>1. i - k \in DOMAIN AfterPage(ids) /\ (i - k) + k = i
          BY <3>2, <1>2
        <4>2. new.rest[i - k] = ids[i]
          BY <4>1, <1>1, <1>4
        <4> QED
          BY <4>1, <4>2, <1>1 DEF Remaining, Range
      <3> QED
        BY <3>1, <3>2, <1>2
    <2> QED
      BY <2>1, <2>2 DEF Range
  <1>6. IsInjective(new.rest)
    <2> SUFFICES ASSUME NEW i \in DOMAIN new.rest, NEW j \in DOMAIN new.rest, new.rest[i] = new.rest[j]
                 PROVE  i = j
      BY DEF IsInjective
    <2>1. i \in Int /\ j \in Int /\ i + k \in DOMAIN ids /\ j + k \in DOMAIN ids
      BY <1>1, <1>2
    <2>2. ids[i + k] = ids[j + k]
      BY <1>1, <1>4
    <2>3. i + k = j + k
      BY <2>1, <2>2 DEF IsInjective
    <2> QED
      BY <2>1, <2>3, <1>2
  <1>7. \A i, j \in DOMAIN new.page : new.page[i].id = new.page[j].id => i = j
    BY <1>1, <1>2, <1>3 DEF IsInjective
  <1>8. ASSUME NEW i \in DOMAIN new.page, NEW j \in DOMAIN new.rest
        PROVE  new.page[i].id # new.rest[j]
    <2>1. i \in DOMAIN ids /\ j + k \in DOMAIN ids /\ i # j + k
      BY <1>1, <1>2
    <2>2. new.page[i].id = ids[i] /\ new.rest[j] = ids[j + k]
      BY <1>1, <1>3, <1>4
    <2> HIDE DEF k
    <2> QED
      BY <2>1, <2>2 DEF IsInjective
  <1>9. \A i \in DOMAIN new.page : new.page[i].id \notin Range(new.rest)
    BY <1>8 DEF Range
  <1> QED
    BY <1>1, <1>5, <1>6, <1>7, <1>9 DEF new

\* Ending takes away what was left, with a mark on the run if there was any.
LEMMA EndedRun ==
    ASSUME NEW run, NEW new \in RunStates, NEW seen, NEW done, InHand(run, seen, done),
           run.pc # "idle", new.pc = "done", new.page = <<>>, new.rest = <<>>, new.rule = run.rule,
           \/ new.errors \/ new.aborted
           \/ /\ run.pc = "page" /\ run.page = <<>> /\ run.rest = <<>>
              /\ UpToDate(run, seen, done)
              /\ new.errors = run.errors /\ new.aborted = run.aborted
    PROVE  InHand(new, seen, done) /\ UpToDate(new, seen, done) /\ SameDue(run, new)
  <1>1. Remaining(new) = {} /\ DOMAIN new.page = {} /\ DOMAIN new.rest = {}
    BY DEF Remaining, Range
  <1>2. InHand(new, seen, done)
    BY <1>1 DEF InHand, Early, AtMessage, IsInjective
  <1>3. CASE new.errors \/ new.aborted
    BY <1>2, <1>3 DEF UpToDate, Clean, SameDue
  <1>4. CASE /\ run.pc = "page" /\ run.page = <<>> /\ run.rest = <<>>
             /\ UpToDate(run, seen, done)
             /\ new.errors = run.errors /\ new.aborted = run.aborted
    <2>1. Remaining(run) = {}
      BY <1>4 DEF Remaining, Range
    <2>2. ASSUME NEW m
          PROVE  Due(new, m) = Due(run, m)
      BY <1>1, <1>4, <2>1 DEF Due, AtMessage
    <2>3. Clean(new) => Clean(run)
      BY <1>4 DEF Clean, Early
    <2> QED
      BY <1>2, <2>2, <2>3, <1>4 DEF UpToDate, SameDue
  <1> QED
    BY <1>3, <1>4

\* What a run is given by the listing is all that it has to look at.
LEMMA GivenRun ==
    ASSUME NEW run \in RunStates, NEW seen \in SUBSET Msg, mail \in [Msg -> Marks],
           InHand(run, {}, {}), run.pc = "list"
    PROVE  LET new == Turned(run, SetToSeq(seen))
           IN  new \in RunStates /\ InHand(new, seen, {}) /\ UpToDate(new, seen, {})
  <1> DEFINE new == Turned(run, SetToSeq(seen))
  <1>1. IsFiniteSet(seen)
    BY RunnerAssumption, FS_Subset
  <1>2. SetToSeq(seen) \in Seq(seen) /\ IsInjective(SetToSeq(seen)) /\ Range(SetToSeq(seen)) = seen
    BY <1>1, SetToSeqIs
  <1>3. SetToSeq(seen) \in Seq(Msg)
    BY <1>2
  <1>4. /\ new \in RunStates /\ new.pc = "page" /\ new.rule = run.rule
        /\ new.errors = run.errors /\ new.aborted = run.aborted
        /\ Remaining(new) = seen /\ IsInjective(new.rest)
        /\ \A i, j \in DOMAIN new.page : new.page[i].id = new.page[j].id => i = j
        /\ \A i \in DOMAIN new.page : new.page[i].id \notin Range(new.rest)
    BY <1>2, <1>3, TurnedIs
  <1> HIDE DEF new
  <1>5. InHand(new, seen, {})
    BY <1>4 DEF InHand, Early, AtMessage
  <1>6. UpToDate(new, seen, {})
    BY <1>4 DEF UpToDate, Due, Done, AtMessage
  <1> QED
    BY <1>4, <1>5, <1>6 DEF new

\* A page is turned without a message lost or met twice.
LEMMA TurnedRun ==
    ASSUME NEW run \in RunStates, NEW seen, NEW done, mail \in [Msg -> Marks],
           InHand(run, seen, done), UpToDate(run, seen, done), run.pc = "page", run.page = <<>>
    PROVE  LET new == Turned(run, run.rest)
           IN  /\ new \in RunStates /\ InHand(new, seen, done) /\ UpToDate(new, seen, done)
               /\ SameDue(run, new)
  <1> DEFINE new == Turned(run, run.rest)
  <1>1. run.rest \in Seq(Msg) /\ IsInjective(run.rest)
    BY DEF RunStates, InHand
  <1>2. /\ new \in RunStates /\ new.pc = "page" /\ new.rule = run.rule
        /\ new.errors = run.errors /\ new.aborted = run.aborted
        /\ Remaining(new) = Range(run.rest) /\ IsInjective(new.rest)
        /\ \A i, j \in DOMAIN new.page : new.page[i].id = new.page[j].id => i = j
        /\ \A i \in DOMAIN new.page : new.page[i].id \notin Range(new.rest)
    BY <1>1, TurnedIs
  <1>3. Remaining(run) = Range(run.rest)
    BY DEF Remaining
  <1> HIDE DEF new
  <1>4. InHand(new, seen, done)
    BY <1>2, <1>3 DEF InHand, Early, AtMessage
  <1>5. SameDue(run, new)
    BY <1>2, <1>3 DEF SameDue, Clean, Due, AtMessage, Early
  <1>6. UpToDate(new, seen, done)
    BY <1>2, <1>5 DEF UpToDate, SameDue
  <1> QED
    BY <1>2, <1>4, <1>5, <1>6 DEF new

\* A run at its next message.
AtNext(run) == [run EXCEPT !.pc = "full", !.msg = Head(run.page), !.page = Tail(run.page)]

\* The message is no longer one of those to come, and nothing was done to it yet.
LEMMA TakenRun ==
    ASSUME NEW run \in RunStates, NEW seen, NEW done,
           InHand(run, seen, done), UpToDate(run, seen, done), run.pc = "page", run.page # <<>>
    PROVE  /\ AtNext(run) \in RunStates
           /\ InHand(AtNext(run), seen, done) /\ UpToDate(AtNext(run), seen, done)
           /\ SameDue(run, AtNext(run))
  <1> DEFINE new == AtNext(run)
             p == run.page
  <1>1. /\ p \in Seq(Headers) /\ Len(p) \in Nat /\ Len(p) >= 1
        /\ DOMAIN p = 1 .. Len(p) /\ DOMAIN Tail(p) = 1 .. Len(p) - 1
        /\ Head(p) = p[1] /\ Tail(p) \in Seq(Headers) /\ p[1] \in Headers
        /\ \A i \in 1 .. Len(p) - 1 : Tail(p)[i] = p[i + 1]
    <2>1. p \in Seq(Headers) /\ p # <<>>
      BY DEF RunStates
    <2> HIDE DEF p
    <2> QED
      BY <2>1
  <1>2. /\ new.pc = "full" /\ new.page = Tail(p) /\ new.rest = run.rest /\ new.rule = run.rule
        /\ new.msg = p[1] /\ new.errors = run.errors /\ new.aborted = run.aborted
    BY <1>1 DEF RunStates, AtNext
  <1>3. new \in RunStates
    BY <1>1 DEF RunStates, AtNext, AtMessage
  <1> HIDE DEF new, p
  <1>4. p = run.page
    BY DEF p
  <1>5. Remaining(new) = Remaining(run) \ {p[1].id} /\ p[1].id \in Remaining(run)
    <2>1. \A i \in DOMAIN Tail(p) : Tail(p)[i].id # p[1].id
      <3> SUFFICES ASSUME NEW i \in 1 .. Len(p) - 1
                   PROVE  Tail(p)[i].id # p[1].id
        BY <1>1
      <3>1. i + 1 \in DOMAIN p /\ 1 \in DOMAIN p /\ i + 1 # 1
        BY <1>1
      <3> QED
        BY <3>1, <1>1, <1>4 DEF InHand
    <2>2. p[1].id \notin Range(run.rest) /\ p[1].id \in Remaining(run)
      BY <1>1, <1>4 DEF InHand, Remaining
    <2>3. \A i \in DOMAIN p : i # 1 => i - 1 \in DOMAIN Tail(p) /\ Tail(p)[i - 1] = p[i]
      BY <1>1
    <2>4. \A i \in DOMAIN Tail(p) : i + 1 \in DOMAIN p /\ Tail(p)[i] = p[i + 1]
      BY <1>1
    <2>5. {Tail(p)[i].id : i \in DOMAIN Tail(p)} = {p[i].id : i \in DOMAIN p} \ {p[1].id}
      BY <2>1, <2>3, <2>4
    <2> QED
      BY <1>2, <1>4, <2>2, <2>5 DEF Remaining
  <1>6. \A i, j \in DOMAIN new.page : new.page[i].id = new.page[j].id => i = j
    <2> SUFFICES ASSUME NEW i \in 1 .. Len(p) - 1, NEW j \in 1 .. Len(p) - 1, Tail(p)[i].id = Tail(p)[j].id
                 PROVE  i = j
      BY <1>1, <1>2
    <2>1. i + 1 \in DOMAIN p /\ j + 1 \in DOMAIN p /\ p[i + 1].id = p[j + 1].id
      BY <1>1
    <2>2. i + 1 = j + 1
      BY <2>1, <1>4 DEF InHand
    <2> QED
      BY <2>2
  <1>7. \A i \in DOMAIN new.page : new.page[i].id \notin Range(new.rest)
    <2> SUFFICES ASSUME NEW i \in 1 .. Len(p) - 1
                 PROVE  Tail(p)[i].id \notin Range(run.rest)
      BY <1>1, <1>2
    <2>1. i + 1 \in DOMAIN p /\ Tail(p)[i] = p[i + 1]
      BY <1>1
    <2> QED
      BY <2>1, <1>4 DEF InHand
  <1>8. InHand(new, seen, done)
    BY <1>1, <1>2, <1>5, <1>6, <1>7 DEF InHand, Early, AtMessage
  <1>9. UpToDate(new, seen, done) /\ SameDue(run, new)
    <2>1. \A m : Due(new, m) = Due(run, m)
      BY <1>2, <1>5 DEF Due, AtMessage
    <2> QED
      BY <1>2, <2>1 DEF UpToDate, SameDue, Clean, Early
  <1> QED
    BY <1>3, <1>8, <1>9 DEF new

\* The judgement on a message is the one that the whole message deserves, but
\* where fetching it failed.
LEMMA JudgedRun ==
    ASSUME NEW run \in RunStates, NEW new \in RunStates, NEW seen, NEW done, NEW fits \in BOOLEAN,
           InHand(run, seen, done), UpToDate(run, seen, done), run.pc = "full",
           new.pc = IF fits THEN "act" ELSE "page", fits => new.next = 1,
           new.page = run.page, new.rest = run.rest, new.rule = run.rule, new.msg = run.msg,
           new.aborted = run.aborted,
           new.errors \/ (new.errors = run.errors /\ fits = Suits(run.rule, run.msg.id))
    PROVE  InHand(new, seen, done) /\ UpToDate(new, seen, done) /\ SameDue(run, new)
  <1>1. Remaining(new) = Remaining(run)
    BY DEF Remaining
  <1>2. run.rule \in Rule /\ run.msg.id \in seen \ Remaining(run)
    BY DEF InHand, AtMessage
  <1>3. 1 \in DOMAIN run.rule.actions
    BY <1>2, RunnerAssumption
  <1>4. InHand(new, seen, done)
    BY <1>1, <1>3 DEF InHand, Early, AtMessage
  <1>5. CASE new.errors
    BY <1>4, <1>5 DEF UpToDate, SameDue, Clean
  <1>6. CASE ~new.errors
    <2>0. new.errors = run.errors /\ fits = Suits(run.rule, run.msg.id)
      BY <1>6
    <2>1. ASSUME NEW m, m # run.msg.id
          PROVE  Due(new, m) = Due(run, m)
      BY <1>1, <2>1 DEF Due, AtMessage
    <2>2. Due(run, run.msg.id) = {}
      BY DEF Due, AtMessage
    <2>3. Due(new, run.msg.id) = {}
      <3>1. CASE fits
        <4>1. new.next - 1 = 0 /\ 1 .. 0 = {}
          BY <3>1
        <4> QED
          BY <3>1, <4>1 DEF Due, AtMessage
      <3>2. CASE ~fits
        BY <3>2, <2>0 DEF Due, AtMessage
      <3> QED
        BY <3>1, <3>2
    <2>4. \A m : Due(new, m) = Due(run, m)
      BY <2>1, <2>2, <2>3
    <2>5. Clean(new) => Clean(run)
      BY <2>0 DEF Clean, Early
    <2> QED
      BY <1>4, <2>0, <2>4, <2>5 DEF UpToDate, SameDue
  <1> QED
    BY <1>5, <1>6

\* An action is done, or skipped, or its failure noted; after the last one the
\* message has had all of them.
LEMMA PassedRun ==
    ASSUME NEW run \in RunStates, NEW new \in RunStates, NEW seen, NEW done, NEW after,
           InHand(run, seen, done), UpToDate(run, seen, done), run.pc = "act",
           IF run.next < Len(run.rule.actions) THEN new.pc = "act" /\ new.next = run.next + 1
                                               ELSE new.pc = "page",
           new.page = run.page, new.rest = run.rest, new.rule = run.rule, new.msg = run.msg,
           new.aborted = run.aborted,
           \/ new.errors
           \/ /\ new.errors = run.errors
              /\ after = IF run.next \in ToDo(run.rule) THEN done \cup {<<run.msg.id, run.next>>}
                                                        ELSE done
    PROVE  /\ InHand(new, seen, after) /\ UpToDate(new, seen, after)
           /\ Clean(new) => /\ Clean(run) /\ \A m : m # run.msg.id => Due(new, m) = Due(run, m)
                            /\ Due(new, run.msg.id) =
                                 Due(run, run.msg.id) \cup (ToDo(run.rule) \cap {run.next})
  <1> DEFINE acts == run.rule.actions
             k == run.next
  <1>1. Remaining(new) = Remaining(run)
    BY DEF Remaining
  <1>2. run.rule \in Rule /\ run.msg.id \in seen \ Remaining(run) /\ k \in DOMAIN acts
    BY DEF InHand, AtMessage
  <1>3. acts \in Seq(Range(acts))
    BY <1>2, RunnerAssumption
  <1>4. DOMAIN acts = 1 .. Len(acts) /\ Len(acts) \in Nat /\ k \in Nat /\ k >= 1 /\ k <= Len(acts)
    BY <1>2, <1>3
  <1>5. new.pc = "act" => new.next \in DOMAIN acts
    BY <1>4
  <1>6. InHand(new, seen, after)
    BY <1>1, <1>5 DEF InHand, Early, AtMessage
  <1>7. CASE new.errors
    BY <1>6, <1>7 DEF UpToDate, Clean
  <1>8. CASE ~new.errors
    <2>0. /\ new.errors = run.errors
          /\ after = IF k \in ToDo(run.rule) THEN done \cup {<<run.msg.id, k>>} ELSE done
      BY <1>8
    <2>1. ASSUME NEW m, m # run.msg.id
          PROVE  Due(new, m) = Due(run, m) /\ Done(after, m) = Done(done, m)
      <3>1. Due(new, m) = Due(run, m)
        BY <1>1, <2>1 DEF Due, AtMessage
      <3>2. {e \in after : e[1] = m} = {e \in done : e[1] = m}
        BY <2>0, <2>1
      <3> QED
        BY <3>1, <3>2 DEF Done
    <2> SUFFICES ASSUME Clean(new)
                 PROVE  /\ new.pc = "act" => Suits(new.rule, new.msg.id)
                        /\ \A m \in seen : Done(after, m) = Due(new, m)
                        /\ Clean(run) /\ \A m : m # run.msg.id => Due(new, m) = Due(run, m)
                        /\ Due(new, run.msg.id) = Due(run, run.msg.id) \cup (ToDo(run.rule) \cap {k})
      BY <1>6 DEF UpToDate
    <2>2. Clean(run)
      BY <2>0 DEF Clean, Early
    <2>3. Suits(run.rule, run.msg.id) /\ \A m \in seen : Done(done, m) = Due(run, m)
      BY <2>2 DEF UpToDate
    <2>4. Done(done, run.msg.id) = ToDo(run.rule) \cap (1 .. k - 1)
      BY <2>3, <1>2 DEF Due, AtMessage
    <2>5. Done(after, run.msg.id) = ToDo(run.rule) \cap (1 .. k)
      <3>1. CASE k \in ToDo(run.rule)
        <4>1. {e \in after : e[1] = run.msg.id} =
                {e \in done : e[1] = run.msg.id} \cup {<<run.msg.id, k>>}
          BY <2>0, <3>1
        <4>2. \A X, x : {d[2] : d \in X \cup {x}} = {d[2] : d \in X} \cup {x[2]}
          OBVIOUS
        <4>3. <<run.msg.id, k>>[2] = k
          OBVIOUS
        <4>4. Done(after, run.msg.id) = Done(done, run.msg.id) \cup {k}
          BY <4>1, <4>2, <4>3 DEF Done
        <4> QED
          BY <2>4, <3>1, <4>4, <1>4
      <3>2. CASE k \notin ToDo(run.rule)
        BY <2>0, <2>4, <3>2, <1>4
      <3> QED
        BY <3>1, <3>2
    <2>6. Due(new, run.msg.id) = ToDo(run.rule) \cap (1 .. k)
      <3>1. CASE k < Len(acts)
        <4>1. new.pc = "act" /\ new.next - 1 = k
          BY <3>1, <1>4
        <4> QED
          BY <4>1 DEF Due, AtMessage
      <3>2. CASE ~(k < Len(acts))
        <4>1. new.pc = "page" /\ k = Len(acts)
          BY <3>2, <1>4
        <4>2. ToDo(run.rule) \cap (1 .. k) = ToDo(run.rule)
          BY <4>1, <1>4 DEF ToDo
        <4> QED
          BY <4>1, <4>2, <1>1, <1>2, <2>3 DEF Due, AtMessage
      <3> QED
        BY <3>1, <3>2
    <2>7. \A m \in seen : Done(after, m) = Due(new, m)
      BY <2>1, <2>3, <2>5, <2>6
    <2>8. Due(new, run.msg.id) = Due(run, run.msg.id) \cup (ToDo(run.rule) \cap {k})
      <3>1. Due(run, run.msg.id) = ToDo(run.rule) \cap (1 .. k - 1)
        BY DEF Due, AtMessage
      <3> QED
        BY <2>6, <3>1, <1>4
    <2> QED
      BY <2>1, <2>2, <2>3, <2>7, <2>8
  <1> QED
    BY <1>7, <1>8

\* One run moves; the others keep what they had.
LEMMA OneRunMoves ==
    ASSUME RunnerInv, NEW r \in Run, NEW new \in RunStates, runs' = [runs EXCEPT ![r] = new],
           InHand(new, listed'[r], did'[r]), UpToDate(new, listed'[r], did'[r]),
           \A s \in Run : s # r => listed'[s] = listed[s] /\ did'[s] = did[s],
           listed' \in [Run -> SUBSET Msg], did' \in [Run -> SUBSET (Msg \X Nat)],
           mail' \in [Msg -> Marks],
           dialog' = dialog \/ dialog' = [dialog EXCEPT !.done = TRUE]
           \/ dialog' = [open |-> TRUE, of |-> r, done |-> FALSE]
    PROVE  RunnerInv'
  <1>1. runs \in [Run -> RunStates]
    BY DEF RunnerInv, RunnerTypeOK
  <1>2. runs' \in [Run -> RunStates] /\ runs'[r] = new /\ \A s \in Run : s # r => runs'[s] = runs[s]
    BY <1>1
  <1>3. /\ dialog' \in [open : BOOLEAN, of : Run \cup {CHOOSE q \in Run : TRUE}, done : BOOLEAN]
        /\ dialog'.open => dialog'.of \in Run
    <2>1. /\ dialog \in [open : BOOLEAN, of : Run \cup {CHOOSE q \in Run : TRUE}, done : BOOLEAN]
          /\ dialog.open => dialog.of \in Run
      BY DEF RunnerInv, RunnerTypeOK
    <2>2. CASE dialog' = dialog
      BY <2>1, <2>2
    <2>3. CASE dialog' = [dialog EXCEPT !.done = TRUE]
      BY <2>1, <2>3
    <2>4. CASE dialog' = [open |-> TRUE, of |-> r, done |-> FALSE]
      BY <2>4
    <2> QED
      BY <2>2, <2>3, <2>4
  <1>4. RunnerTypeOK'
    BY <1>2, <1>3 DEF RunnerTypeOK
  <1>5. ASSUME NEW s \in Run
        PROVE  InHand(runs'[s], listed'[s], did'[s]) /\ UpToDate(runs'[s], listed'[s], did'[s])
    BY <1>2 DEF RunnerInv
  <1> QED
    BY <1>4, <1>5 DEF RunnerInv

LEMMA RunnerStarts == RunnerInit => RunnerInv
  <1> SUFFICES ASSUME RunnerInit PROVE RunnerInv
    OBVIOUS
  <1> USE DEF RunnerInit
  <1>1. Idle \in RunStates
    BY DEF Idle, RunStates, Early
  <1>2. Unmarked \in Marks
    BY DEF Unmarked, Marks
  <1>3. RunnerTypeOK
    BY <1>1, <1>2 DEF RunnerTypeOK
  <1>4. Remaining(Idle) = {}
    BY DEF Remaining, Idle, Range
  <1>5. InHand(Idle, {}, {})
    <2>1. Idle.pc = "idle" /\ Idle.page = <<>> /\ Idle.rest = <<>>
      BY DEF Idle
    <2>2. DOMAIN Idle.page = {} /\ DOMAIN Idle.rest = {} /\ IsInjective(Idle.rest)
      BY <2>1 DEF IsInjective
    <2> QED
      BY <1>4, <2>1, <2>2 DEF InHand, Early, AtMessage
  <1>6. UpToDate(Idle, {}, {})
    BY DEF UpToDate, Clean, Idle, Early
  <1> QED
    BY <1>3, <1>5, <1>6 DEF RunnerInv

\* What an action leaves on a message is a legal state of it.
LEMMA MarkedIs ==
    ASSUME RunnerInv, NEW r \in Run, runs[r].pc = "act",
           LET action == runs[r].rule.actions[runs[r].next]
           IN  action.type # "redirect" /\ Resolved(action)
    PROVE  LET action == runs[r].rule.actions[runs[r].next]
           IN  /\ runs[r].msg.id \in Msg /\ Marked(action, runs[r].msg) \in Marks
               /\ action.type = "tag" =>
                    Marked(action, runs[r].msg).tags = runs[r].msg.tags \cup Range(action.keywords)
               /\ action.type # "tag" => Marked(action, runs[r].msg).tags = mail[runs[r].msg.id].tags
  <1> DEFINE run == runs[r]
             action == run.rule.actions[run.next]
  <1>1. InHand(run, listed[r], did[r]) /\ mail \in [Msg -> Marks]
    BY DEF RunnerInv, RunnerTypeOK
  <1>2. run.msg \in Headers /\ run.rule \in Rule /\ run.next \in DOMAIN run.rule.actions
    BY <1>1 DEF InHand, AtMessage
  <1>3. run.next \in ToDo(run.rule)
    BY <1>2 DEF ToDo
  <1>4. action.type = "tag" => Range(action.keywords) \subseteq KnownTags
    <2>1. action.type = "tag" => Range(action.keywords) \subseteq TagsOf(run.rule)
      BY <1>3 DEF TagsOf
    <2> QED
      BY <2>1, <1>2 DEF KnownTags
  <1>5. mail[run.msg.id] \in Marks /\ run.msg.id \in Msg /\ run.msg.tags \subseteq KnownTags
    BY <1>1, <1>2 DEF Headers
  <1>6. action.type = "fileinto" => action.folder \in Folder
    BY DEF Resolved
  <1> DEFINE msg == run.msg
             old == mail[run.msg.id]
  <1>7. old \in Marks /\ msg.tags \subseteq KnownTags /\ old = mail[msg.id]
    BY <1>5
  <1> HIDE DEF action, msg, old
  <1>8. Marked(action, msg) \in Marks
    BY <1>4, <1>6, <1>7 DEF Marked, Marks
  <1>9. /\ action.type = "tag" => Marked(action, msg).tags = msg.tags \cup Range(action.keywords)
        /\ action.type # "tag" => Marked(action, msg).tags = old.tags
    BY <1>7 DEF Marked, Marks
  <1> QED
    BY <1>5, <1>8, <1>9 DEF action, msg, old

\* What a step of a run that touches no message makes of it.
Quiet(r, new) ==
    /\ runs' = [runs EXCEPT ![r] = new] /\ new \in RunStates /\ new.rule = runs[r].rule
    /\ mail' = mail /\ did' = did
    /\ InHand(new, listed'[r], did[r]) /\ UpToDate(new, listed'[r], did[r])
    /\ new.pc = "act" => \E full \in BOOLEAN : matchRule(new.rule, Content[new.msg.id], full)
    /\ \/ listed' = listed /\ SameDue(runs[r], new)
       \/ /\ listed' = [listed EXCEPT ![r] = {m \in Msg : mail[m].folder = Here}]
          /\ \A m \in listed'[r] : Due(new, m) = {}
    /\ dialog' = dialog \/ dialog' = [dialog EXCEPT !.done = TRUE]

\* The state that End leaves.
Shut(run) == [run EXCEPT !.pc = "done", !.page = <<>>, !.rest = <<>>]

LEMMA ShutIs ==
    ASSUME NEW run \in RunStates
    PROVE  /\ Shut(run) \in RunStates /\ Shut(run).rule = run.rule /\ Shut(run).pc = "done"
           /\ Shut(run).page = <<>> /\ Shut(run).rest = <<>>
           /\ Shut(run).errors = run.errors /\ Shut(run).aborted = run.aborted
  <1>1. <<>> \in Seq(Msg) /\ <<>> \in Seq(Headers)
    OBVIOUS
  <1>2. "done" \in Early \cup AtMessage \cup {"page", "done"}
    OBVIOUS
  <1> QED
    BY <1>1, <1>2 DEF Shut, RunStates

LEMMA InfoIsQuiet ==
    ASSUME RunnerInv, NEW r \in Run, InfoAnswered(r)
    PROVE  \E new : Quiet(r, new)
  <1> DEFINE run == runs[r]
  <1>1. run \in RunStates /\ run.pc = "info" /\ InHand(run, listed[r], did[r])
    BY DEF InfoAnswered, RunnerInv, RunnerTypeOK
  <1>2. CASE run.stop
    <2> DEFINE marked == [run EXCEPT !.aborted = TRUE]
               new == Shut(marked)
    <2>0. marked \in RunStates /\ marked.rule = run.rule /\ marked.aborted
      BY <1>1 DEF RunStates
    <2>1. /\ runs' = [runs EXCEPT ![r] = new] /\ dialog' = [dialog EXCEPT !.done = TRUE]
          /\ mail' = mail /\ did' = did /\ listed' = listed
      BY <1>2 DEF InfoAnswered, End, Shut
    <2>2. /\ new \in RunStates /\ new.rule = run.rule /\ new.pc = "done" /\ new.page = <<>>
          /\ new.rest = <<>> /\ new.aborted
      <3> HIDE DEF marked
      <3> QED
        BY <2>0, ShutIs
    <2>3. InHand(new, listed[r], did[r]) /\ UpToDate(new, listed[r], did[r]) /\ SameDue(run, new)
      <3> HIDE DEF new, run
      <3> QED
        BY <1>1, <2>2, EndedRun
    <2> QED
      <3> HIDE DEF new
      <3> QED
        BY <2>1, <2>2, <2>3 DEF Quiet
  <1>3. CASE ~run.stop
    <2> DEFINE new == [run EXCEPT !.pc = "list"]
    <2>1. /\ runs' = [runs EXCEPT ![r] = new] /\ dialog' = dialog
          /\ mail' = mail /\ did' = did /\ listed' = listed
      BY <1>3 DEF InfoAnswered, GoOn
    <2>2. /\ new \in RunStates /\ new.rule = run.rule /\ new.pc = "list" /\ new.page = run.page
          /\ new.rest = run.rest
      BY <1>1 DEF RunStates, Early
    <2>3. Remaining(new) = Remaining(run)
      BY <2>2 DEF Remaining
    <2> HIDE DEF new
    <2>4. InHand(new, listed[r], did[r])
      BY <1>1, <2>2, <2>3 DEF InHand, Early, AtMessage
    <2>5. UpToDate(new, listed[r], did[r]) /\ SameDue(run, new)
      BY <2>2 DEF UpToDate, SameDue, Clean, Early
    <2> QED
      BY <2>1, <2>2, <2>4, <2>5 DEF Quiet
  <1> QED
    BY <1>2, <1>3

LEMMA ListedIsQuiet ==
    ASSUME RunnerInv, NEW r \in Run, Listed(r)
    PROVE  \E new : Quiet(r, new)
  <1> DEFINE run == runs[r]
             there == {m \in Msg : mail[m].folder = Here}
  <1>1. run \in RunStates /\ run.pc = "list" /\ InHand(run, listed[r], did[r])
    BY DEF Listed, RunnerInv, RunnerTypeOK
  <1>2. listed[r] = {} /\ did[r] = {} /\ mail \in [Msg -> Marks] /\ listed \in [Run -> SUBSET Msg]
    BY <1>1 DEF RunnerInv, RunnerTypeOK, InHand, Early
  <1>3. CASE listed' = [listed EXCEPT ![r] = there] /\ GoOn(r, Turned(runs[r], SetToSeq(there)))
    <2> DEFINE new == Turned(run, SetToSeq(there))
    <2>1. /\ runs' = [runs EXCEPT ![r] = new] /\ dialog' = dialog
          /\ mail' = mail /\ did' = did
      BY <1>3 DEF Listed, GoOn
    <2>2. there \in SUBSET Msg /\ listed'[r] = there
      BY <1>2, <1>3
    <2>3. new \in RunStates /\ InHand(new, there, {}) /\ UpToDate(new, there, {})
      <3> HIDE DEF run, there
      <3> QED
        BY <1>1, <1>2, <2>2, GivenRun
    <2>4. new.pc = "page" /\ new.rule = run.rule /\ new.errors = run.errors /\ new.aborted = run.aborted
      BY <1>1 DEF Turned, RunStates
    <2>5. \A m \in there : Due(new, m) = {}
      <3> SUFFICES ASSUME NEW m \in there
                   PROVE  Due(new, m) = {}
        OBVIOUS
      <3>1. m \in Remaining(new)
        <4> HIDE DEF there
        <4>1. IsFiniteSet(there)
          BY <2>2, RunnerAssumption, FS_Subset
        <4>2. /\ SetToSeq(there) \in Seq(there) /\ IsInjective(SetToSeq(there))
              /\ Range(SetToSeq(there)) = there
          BY <4>1, SetToSeqIs
        <4>3. SetToSeq(there) \in Seq(Msg)
          BY <2>2, <4>2
        <4>4. Remaining(new) = Range(SetToSeq(there))
          BY <4>2, <4>3, <1>1, <1>2, TurnedIs
        <4> QED
          BY <4>2, <4>4
      <3> HIDE DEF new
      <3> QED
        BY <2>4, <3>1 DEF Due, AtMessage
    <2> HIDE DEF new
    <2> QED
      BY <1>2, <1>3, <2>1, <2>2, <2>3, <2>4, <2>5 DEF Quiet
  <1>4. CASE End(r, [runs[r] EXCEPT !.errors = TRUE]) /\ UNCHANGED listed
    <2> DEFINE marked == [run EXCEPT !.errors = TRUE]
               new == Shut(marked)
    <2>0. marked \in RunStates /\ marked.rule = run.rule /\ marked.errors
      BY <1>1 DEF RunStates
    <2>1. /\ runs' = [runs EXCEPT ![r] = new] /\ dialog' = [dialog EXCEPT !.done = TRUE]
          /\ mail' = mail /\ did' = did /\ listed' = listed
      BY <1>4 DEF Listed, End, Shut
    <2>2. /\ new \in RunStates /\ new.rule = run.rule /\ new.pc = "done" /\ new.page = <<>>
          /\ new.rest = <<>> /\ new.errors
      <3> HIDE DEF marked
      <3> QED
        BY <2>0, ShutIs
    <2>3. InHand(new, listed[r], did[r]) /\ UpToDate(new, listed[r], did[r]) /\ SameDue(run, new)
      <3> HIDE DEF new, run
      <3> QED
        BY <1>1, <2>2, EndedRun
    <2> QED
      <3> HIDE DEF new
      <3> QED
        BY <2>1, <2>2, <2>3 DEF Quiet
  <1> QED
    BY <1>3, <1>4 DEF Listed

LEMMA NextPageIsQuiet ==
    ASSUME RunnerInv, NEW r \in Run, NextPage(r)
    PROVE  \E new : Quiet(r, new)
  <1> DEFINE run == runs[r]
  <1>1. /\ run \in RunStates /\ run.pc = "page" /\ run.page = <<>>
        /\ InHand(run, listed[r], did[r]) /\ UpToDate(run, listed[r], did[r])
        /\ mail \in [Msg -> Marks]
    BY DEF NextPage, RunnerInv, RunnerTypeOK
  <1>2. CASE run.rest = <<>> /\ End(r, run)
    <2> DEFINE new == Shut(run)
    <2>1. /\ runs' = [runs EXCEPT ![r] = new] /\ dialog' = [dialog EXCEPT !.done = TRUE]
          /\ mail' = mail /\ did' = did /\ listed' = listed
      BY <1>2 DEF NextPage, End, Shut
    <2>2. /\ new \in RunStates /\ new.rule = run.rule /\ new.pc = "done" /\ new.page = <<>>
          /\ new.rest = <<>> /\ new.errors = run.errors /\ new.aborted = run.aborted
      <3> HIDE DEF run
      <3> QED
        BY <1>1, ShutIs
    <2>3. InHand(new, listed[r], did[r]) /\ UpToDate(new, listed[r], did[r]) /\ SameDue(run, new)
      <3> HIDE DEF new, run
      <3> QED
        BY <1>1, <1>2, <2>2, EndedRun
    <2> QED
      <3> HIDE DEF new
      <3> QED
        BY <2>1, <2>2, <2>3 DEF Quiet
  <1>3. CASE GoOn(r, Turned(run, run.rest))
    <2> DEFINE new == Turned(run, run.rest)
    <2>1. /\ runs' = [runs EXCEPT ![r] = new] /\ dialog' = dialog
          /\ mail' = mail /\ did' = did /\ listed' = listed
      BY <1>3 DEF NextPage, GoOn
    <2>2. /\ new \in RunStates /\ InHand(new, listed[r], did[r]) /\ UpToDate(new, listed[r], did[r])
          /\ SameDue(run, new)
      <3> HIDE DEF run
      <3> QED
        BY <1>1, TurnedRun
    <2>3. new.rule = run.rule /\ new.pc = "page"
      BY <1>1 DEF Turned, RunStates
    <2> HIDE DEF new
    <2> QED
      BY <2>1, <2>2, <2>3 DEF Quiet
  <1>4. CASE End(r, [run EXCEPT !.errors = TRUE])
    <2> DEFINE marked == [run EXCEPT !.errors = TRUE]
               new == Shut(marked)
    <2>0. marked \in RunStates /\ marked.rule = run.rule /\ marked.errors
      BY <1>1 DEF RunStates
    <2>1. /\ runs' = [runs EXCEPT ![r] = new] /\ dialog' = [dialog EXCEPT !.done = TRUE]
          /\ mail' = mail /\ did' = did /\ listed' = listed
      BY <1>4 DEF NextPage, End, Shut
    <2>2. /\ new \in RunStates /\ new.rule = run.rule /\ new.pc = "done" /\ new.page = <<>>
          /\ new.rest = <<>> /\ new.errors
      <3> HIDE DEF marked
      <3> QED
        BY <2>0, ShutIs
    <2>3. InHand(new, listed[r], did[r]) /\ UpToDate(new, listed[r], did[r]) /\ SameDue(run, new)
      <3> HIDE DEF new, run
      <3> QED
        BY <1>1, <2>2, EndedRun
    <2> QED
      <3> HIDE DEF new
      <3> QED
        BY <2>1, <2>2, <2>3 DEF Quiet
  <1> QED
    BY <1>2, <1>3, <1>4 DEF NextPage

LEMMA JudgedIs ==
    ASSUME NEW run \in RunStates, NEW full \in BOOLEAN
    PROVE  LET new  == Judged(run, full)
               fits == matchRule(run.rule, Content[run.msg.id], full)
           IN  /\ fits \in BOOLEAN /\ new \in RunStates
               /\ new.pc = (IF fits THEN "act" ELSE "page") /\ (fits => new.next = 1)
               /\ new.page = run.page /\ new.rest = run.rest /\ new.rule = run.rule
               /\ new.msg = run.msg /\ new.errors = run.errors /\ new.aborted = run.aborted
  <1> DEFINE fits == matchRule(run.rule, Content[run.msg.id], full)
             new  == Judged(run, full)
  <1>1. fits \in BOOLEAN
    BY DEF matchRule
  <1>2. new = IF fits THEN [run EXCEPT !.pc = "act", !.next = 1] ELSE [run EXCEPT !.pc = "page"]
    BY DEF Judged
  <1> HIDE DEF fits, new
  <1>3. /\ new \in RunStates
        /\ new.pc = (IF fits THEN "act" ELSE "page") /\ (fits => new.next = 1)
        /\ new.page = run.page /\ new.rest = run.rest /\ new.rule = run.rule
        /\ new.msg = run.msg /\ new.errors = run.errors /\ new.aborted = run.aborted
    <2>1. CASE fits
      BY <1>2, <2>1 DEF RunStates, AtMessage
    <2>2. CASE ~fits
      BY <1>2, <2>2 DEF RunStates
    <2> QED
      BY <2>1, <2>2, <1>1
  <1> QED
    BY <1>1, <1>3 DEF fits, new

LEMMA NextMessageIsQuiet ==
    ASSUME RunnerInv, NEW r \in Run, NextMessage(r)
    PROVE  \E new : Quiet(r, new)
  <1> DEFINE run == runs[r]
  <1>1. /\ run \in RunStates /\ run.pc = "page" /\ run.page # <<>>
        /\ InHand(run, listed[r], did[r]) /\ UpToDate(run, listed[r], did[r])
        /\ mail' = mail /\ did' = did /\ listed' = listed
    BY DEF NextMessage, RunnerInv, RunnerTypeOK
  <1>2. CASE End(r, [run EXCEPT !.aborted = TRUE])
    <2> DEFINE marked == [run EXCEPT !.aborted = TRUE]
               new == Shut(marked)
    <2>0. marked \in RunStates /\ marked.rule = run.rule /\ marked.aborted
      BY <1>1 DEF RunStates
    <2>1. runs' = [runs EXCEPT ![r] = new] /\ dialog' = [dialog EXCEPT !.done = TRUE]
      BY <1>2 DEF End, Shut
    <2>2. /\ new \in RunStates /\ new.rule = run.rule /\ new.pc = "done" /\ new.page = <<>>
          /\ new.rest = <<>> /\ new.aborted
      <3> HIDE DEF marked
      <3> QED
        BY <2>0, ShutIs
    <2>3. InHand(new, listed[r], did[r]) /\ UpToDate(new, listed[r], did[r]) /\ SameDue(run, new)
      <3> HIDE DEF new, run
      <3> QED
        BY <1>1, <2>2, EndedRun
    <2> QED
      <3> HIDE DEF new
      <3> QED
        BY <1>1, <2>1, <2>2, <2>3 DEF Quiet
  <1> DEFINE taken == [run EXCEPT !.msg = Head(runs[r].page), !.page = Tail(@)]
             at == AtNext(run)
  <1>3. /\ at \in RunStates /\ at.pc = "full" /\ at.rule = run.rule /\ SameDue(run, at)
        /\ InHand(at, listed[r], did[r]) /\ UpToDate(at, listed[r], did[r])
    <2>1. /\ at \in RunStates /\ SameDue(run, at)
          /\ InHand(at, listed[r], did[r]) /\ UpToDate(at, listed[r], did[r])
      <3> HIDE DEF run
      <3> QED
        BY <1>1, TakenRun
    <2> QED
      BY <1>1, <2>1 DEF AtNext, RunStates
  <1>4. CASE GoOn(r, [taken EXCEPT !.pc = "full"])
    <2>1. [taken EXCEPT !.pc = "full"] = at
      BY <1>1 DEF AtNext, RunStates
    <2>2. runs' = [runs EXCEPT ![r] = at] /\ dialog' = dialog
      BY <1>4, <2>1 DEF GoOn
    <2> HIDE DEF at, taken
    <2> QED
      BY <1>1, <1>3, <2>2 DEF Quiet
  <1>5. CASE ~needFullMessage(taken.rule) /\ GoOn(r, Judged(taken, FALSE))
    <2> DEFINE new == Judged(at, FALSE)
               fits == matchRule(run.rule, Content[at.msg.id], FALSE)
    <2>1. Judged(taken, FALSE) = new
      <3>1. /\ taken.rule = at.rule /\ taken.msg = at.msg
            /\ \A pc, next : [taken EXCEPT !.pc = pc, !.next = next] = [at EXCEPT !.pc = pc, !.next = next]
            /\ \A pc : [taken EXCEPT !.pc = pc] = [at EXCEPT !.pc = pc]
        BY <1>1 DEF AtNext, RunStates
      <3> HIDE DEF taken, at
      <3> QED
        BY <3>1 DEF Judged
    <2>2. runs' = [runs EXCEPT ![r] = new] /\ dialog' = dialog
      BY <1>5, <2>1 DEF GoOn
    <2>3. /\ fits \in BOOLEAN /\ new \in RunStates
          /\ new.pc = (IF fits THEN "act" ELSE "page") /\ (fits => new.next = 1)
          /\ new.page = at.page /\ new.rest = at.rest /\ new.rule = at.rule
          /\ new.msg = at.msg /\ new.errors = at.errors /\ new.aborted = at.aborted
      <3>1. LET fit == matchRule(at.rule, Content[at.msg.id], FALSE)
            IN  /\ fit \in BOOLEAN /\ new \in RunStates
                /\ new.pc = (IF fit THEN "act" ELSE "page") /\ (fit => new.next = 1)
                /\ new.page = at.page /\ new.rest = at.rest /\ new.rule = at.rule
                /\ new.msg = at.msg /\ new.errors = at.errors /\ new.aborted = at.aborted
        <4> HIDE DEF at
        <4> QED
          BY <1>3, JudgedIs
      <3> HIDE DEF at, new, run
      <3> QED
        BY <1>3, <3>1
    <2>4. taken.rule = at.rule
      BY <1>1 DEF AtNext, RunStates
    <2>5. fits = Suits(at.rule, at.msg.id)
      <3> HIDE DEF at, taken
      <3> QED
        BY <1>3, <1>5, <2>4, HeaderIsEnough DEF Suits
    <2>6. InHand(new, listed[r], did[r]) /\ UpToDate(new, listed[r], did[r]) /\ SameDue(at, new)
      <3> HIDE DEF new, at, fits
      <3> QED
        BY <1>3, <2>3, <2>5, JudgedRun
    <2>7. SameDue(run, new)
      <3> HIDE DEF new, at, run
      <3> QED
        BY <1>3, <2>6 DEF SameDue
    <2>8. new.pc = "act" => matchRule(new.rule, Content[new.msg.id], FALSE)
      <3> HIDE DEF new, at
      <3> QED
        BY <1>3, <2>3
    <2> HIDE DEF new, at
    <2> QED
      BY <1>1, <1>3, <2>2, <2>3, <2>6, <2>7, <2>8 DEF Quiet
  <1> QED
    BY <1>2, <1>4, <1>5 DEF NextMessage

LEMMA FullIsQuiet ==
    ASSUME RunnerInv, NEW r \in Run, FullAnswered(r)
    PROVE  \E new : Quiet(r, new)
  <1> DEFINE run == runs[r]
  <1>1. /\ run \in RunStates /\ run.pc = "full"
        /\ InHand(run, listed[r], did[r]) /\ UpToDate(run, listed[r], did[r])
        /\ mail' = mail /\ did' = did /\ listed' = listed
    BY DEF FullAnswered, RunnerInv, RunnerTypeOK
  <1>2. PICK full \in BOOLEAN, from \in {run, [run EXCEPT !.errors = TRUE]} :
            /\ GoOn(r, Judged(from, full))
            /\ from.errors \/ (full /\ from = run)
    <2>1. [run EXCEPT !.errors = TRUE].errors
      BY <1>1 DEF RunStates
    <2> QED
      BY <2>1 DEF FullAnswered
  <1> DEFINE new  == Judged(from, full)
             fits == matchRule(from.rule, Content[from.msg.id], full)
  <1>3. /\ from \in RunStates /\ from.rule = run.rule /\ from.page = run.page /\ from.rest = run.rest
        /\ from.msg = run.msg /\ from.aborted = run.aborted
    BY <1>1 DEF RunStates
  <1>4. runs' = [runs EXCEPT ![r] = new] /\ dialog' = dialog
    BY <1>2 DEF GoOn
  <1>5. /\ fits \in BOOLEAN /\ new \in RunStates
        /\ new.pc = (IF fits THEN "act" ELSE "page") /\ (fits => new.next = 1)
        /\ new.page = from.page /\ new.rest = from.rest /\ new.rule = from.rule
        /\ new.msg = from.msg /\ new.errors = from.errors /\ new.aborted = from.aborted
    BY <1>3, JudgedIs
  <1>6. new.errors \/ (new.errors = run.errors /\ fits = Suits(run.rule, run.msg.id))
    <2> HIDE DEF run
    <2> QED
      BY <1>2, <1>3, <1>5 DEF Suits
  <1>7. InHand(new, listed[r], did[r]) /\ UpToDate(new, listed[r], did[r]) /\ SameDue(run, new)
    <2> HIDE DEF run, new, fits
    <2> QED
      BY <1>1, <1>3, <1>5, <1>6, JudgedRun
  <1>8. new.pc = "act" => matchRule(new.rule, Content[new.msg.id], full)
    <2> HIDE DEF new
    <2> QED
      BY <1>5
  <1> HIDE DEF new
  <1> QED
    BY <1>1, <1>3, <1>4, <1>5, <1>7, <1>8 DEF Quiet

LEMMA QuietStep ==
    ASSUME RunnerInv, NEW r \in Run,
           InfoAnswered(r) \/ Listed(r) \/ NextPage(r) \/ NextMessage(r) \/ FullAnswered(r)
    PROVE  RunnerInv' /\ \E new : Quiet(r, new)
  <1>1. PICK new : Quiet(r, new)
    BY InfoIsQuiet, ListedIsQuiet, NextPageIsQuiet, NextMessageIsQuiet, FullIsQuiet
  <1>2. /\ listed \in [Run -> SUBSET Msg] /\ did \in [Run -> SUBSET (Msg \X Nat)]
        /\ mail \in [Msg -> Marks]
    BY DEF RunnerInv, RunnerTypeOK
  <1>3. /\ listed' \in [Run -> SUBSET Msg] /\ mail' \in [Msg -> Marks]
        /\ \A s \in Run : s # r => listed'[s] = listed[s] /\ did'[s] = did[s]
        /\ did'[r] = did[r] /\ did' \in [Run -> SUBSET (Msg \X Nat)]
    BY <1>1, <1>2 DEF Quiet
  <1>4. RunnerInv'
    BY <1>1, <1>3, OneRunMoves DEF Quiet
  <1> QED
    BY <1>1, <1>4

LEMMA PassedIs ==
    ASSUME NEW run \in RunStates
    PROVE  LET new == Passed(run)
           IN  /\ new \in RunStates
               /\ IF run.next < Len(run.rule.actions) THEN new.pc = run.pc /\ new.next = run.next + 1
                                                      ELSE new.pc = "page"
               /\ new.page = run.page /\ new.rest = run.rest /\ new.rule = run.rule
               /\ new.msg = run.msg /\ new.errors = run.errors /\ new.aborted = run.aborted
  <1> DEFINE new == Passed(run)
             more == run.next < Len(run.rule.actions)
  <1>1. new = IF more THEN [run EXCEPT !.next = @ + 1] ELSE [run EXCEPT !.pc = "page", !.next = 1]
    BY DEF Passed
  <1> HIDE DEF new, more
  <1>2. CASE more
    <2>1. new = [run EXCEPT !.next = run.next + 1] /\ run.next + 1 \in Nat
      BY <1>1, <1>2 DEF RunStates
    <2>2. /\ new \in RunStates /\ new.pc = run.pc /\ new.next = run.next + 1
          /\ new.page = run.page /\ new.rest = run.rest /\ new.rule = run.rule
          /\ new.msg = run.msg /\ new.errors = run.errors /\ new.aborted = run.aborted
      BY <2>1 DEF RunStates
    <2> QED
      BY <1>2, <2>2 DEF new, more
  <1>3. CASE ~more
    <2>1. /\ new \in RunStates /\ new.pc = "page"
          /\ new.page = run.page /\ new.rest = run.rest /\ new.rule = run.rule
          /\ new.msg = run.msg /\ new.errors = run.errors /\ new.aborted = run.aborted
      BY <1>1, <1>3 DEF RunStates
    <2> QED
      BY <1>3, <2>1 DEF new, more
  <1> QED
    BY <1>2, <1>3

\* What a step at an action makes of the run and of the message.
Acted(r, new) ==
    LET run    == runs[r]
        action == run.rule.actions[run.next]
    IN  /\ runs' = [runs EXCEPT ![r] = new] /\ new \in RunStates /\ new.rule = run.rule
        /\ new.msg = run.msg /\ dialog' = dialog /\ listed' = listed
        /\ InHand(new, listed[r], did'[r]) /\ UpToDate(new, listed[r], did'[r])
        /\ Clean(new) => /\ Clean(run) /\ \A m : m # run.msg.id => Due(new, m) = Due(run, m)
                         /\ Due(new, run.msg.id) =
                              Due(run, run.msg.id) \cup (ToDo(run.rule) \cap {run.next})
        /\ \/ mail' = mail /\ did' = did /\ (new.errors \/ run.next \notin ToDo(run.rule))
           \/ /\ did' = [did EXCEPT ![r] = @ \cup {<<run.msg.id, run.next>>}]
              /\ run.msg.id \in Msg /\ mail' \in [Msg -> Marks]
              /\ \A m \in Msg : m # run.msg.id => mail'[m] = mail[m]
              /\ action.type = "tag" => Range(action.keywords) \subseteq mail'[run.msg.id].tags
              /\ action.type # "tag" => mail'[run.msg.id].tags = mail[run.msg.id].tags

LEMMA ActIsActed ==
    ASSUME RunnerInv, NEW r \in Run, Act(r)
    PROVE  \E new : Acted(r, new)
  <1> DEFINE run == runs[r]
             action == run.rule.actions[run.next]
             id == run.msg.id
  <1>1. /\ run \in RunStates /\ run.pc = "act" /\ listed' = listed
        /\ InHand(run, listed[r], did[r]) /\ UpToDate(run, listed[r], did[r])
        /\ mail \in [Msg -> Marks] /\ did \in [Run -> SUBSET (Msg \X Nat)]
    BY DEF Act, RunnerInv, RunnerTypeOK
  <1>2. run.rule \in Rule /\ run.next \in DOMAIN run.rule.actions /\ run.msg \in Headers /\ id \in Msg
    BY <1>1 DEF InHand, AtMessage, Headers
  <1>3. run.next \in ToDo(run.rule) <=> action.type # "redirect"
    BY <1>2 DEF ToDo
  <1>4. CASE action.type = "redirect" /\ Skipped(r)
    <2> DEFINE new == Passed(run)
    <2>1. runs' = [runs EXCEPT ![r] = new] /\ dialog' = dialog /\ mail' = mail /\ did' = did
      BY <1>4 DEF Skipped, GoOn
    <2>2. /\ new \in RunStates
          /\ IF run.next < Len(run.rule.actions) THEN new.pc = "act" /\ new.next = run.next + 1
                                                 ELSE new.pc = "page"
          /\ new.page = run.page /\ new.rest = run.rest /\ new.rule = run.rule
          /\ new.msg = run.msg /\ new.errors = run.errors /\ new.aborted = run.aborted
      BY <1>1, PassedIs
    <2>3. run.next \notin ToDo(run.rule)
      BY <1>3, <1>4
    <2>4. /\ InHand(new, listed[r], did[r]) /\ UpToDate(new, listed[r], did[r])
          /\ Clean(new) => /\ Clean(run) /\ \A m : m # run.msg.id => Due(new, m) = Due(run, m)
                           /\ Due(new, run.msg.id) =
                                Due(run, run.msg.id) \cup (ToDo(run.rule) \cap {run.next})
      <3> HIDE DEF run, new
      <3> QED
        BY <1>1, <2>2, <2>3, PassedRun
    <2> HIDE DEF new
    <2> QED
      BY <1>1, <2>1, <2>2, <2>3, <2>4 DEF Acted
  <1>5. CASE action.type # "redirect" /\ Performed(r, action)
    <2> DEFINE new == Passed(run)
               after == did[r] \cup {<<id, run.next>>}
    <2>1. /\ runs' = [runs EXCEPT ![r] = new] /\ dialog' = dialog
          /\ mail' = [mail EXCEPT ![id] = Marked(action, run.msg)]
          /\ did' = [did EXCEPT ![r] = @ \cup {<<id, run.next>>}] /\ Resolved(action)
      BY <1>5 DEF Performed, GoOn
    <2>2. /\ new \in RunStates
          /\ IF run.next < Len(run.rule.actions) THEN new.pc = "act" /\ new.next = run.next + 1
                                                 ELSE new.pc = "page"
          /\ new.page = run.page /\ new.rest = run.rest /\ new.rule = run.rule
          /\ new.msg = run.msg /\ new.errors = run.errors /\ new.aborted = run.aborted
      BY <1>1, PassedIs
    <2>3. run.next \in ToDo(run.rule) /\ did'[r] = after
      BY <1>1, <1>3, <1>5, <2>1
    <2>4. /\ InHand(new, listed[r], after) /\ UpToDate(new, listed[r], after)
          /\ Clean(new) => /\ Clean(run) /\ \A m : m # run.msg.id => Due(new, m) = Due(run, m)
                           /\ Due(new, run.msg.id) =
                                Due(run, run.msg.id) \cup (ToDo(run.rule) \cap {run.next})
      <3>1. after = IF run.next \in ToDo(run.rule) THEN did[r] \cup {<<run.msg.id, run.next>>}
                                                   ELSE did[r]
        BY <2>3
      <3>2. \/ new.errors
            \/ /\ new.errors = run.errors
               /\ after = IF run.next \in ToDo(run.rule) THEN did[r] \cup {<<run.msg.id, run.next>>}
                                                         ELSE did[r]
        BY <2>2, <3>1
      <3> HIDE DEF run, new, after
      <3> QED
        BY <1>1, <2>2, <3>2, PassedRun
    <2>5. /\ Marked(action, run.msg) \in Marks
          /\ action.type = "tag" =>
                Marked(action, run.msg).tags = run.msg.tags \cup Range(action.keywords)
          /\ action.type # "tag" => Marked(action, run.msg).tags = mail[id].tags
      BY <1>1, <1>5, <2>1, MarkedIs
    <2>6. /\ mail' \in [Msg -> Marks] /\ mail'[id] = Marked(action, run.msg)
          /\ \A m \in Msg : m # id => mail'[m] = mail[m]
      BY <1>1, <1>2, <2>1, <2>5
    <2>7. /\ action.type = "tag" => Range(action.keywords) \subseteq mail'[id].tags
          /\ action.type # "tag" => mail'[id].tags = mail[id].tags
      BY <2>5, <2>6
    <2> HIDE DEF new, after
    <2> QED
      BY <1>1, <1>2, <2>1, <2>2, <2>3, <2>4, <2>6, <2>7 DEF Acted
  <1>6. CASE action.type # "redirect" /\ Failed(r, action)
    <2> DEFINE marked == [run EXCEPT !.errors = TRUE]
               new == Passed(marked)
    <2>0. /\ marked \in RunStates /\ marked.rule = run.rule /\ marked.errors /\ marked.pc = run.pc
          /\ marked.next = run.next /\ marked.page = run.page /\ marked.rest = run.rest
          /\ marked.msg = run.msg /\ marked.aborted = run.aborted
      BY <1>1 DEF RunStates
    <2>1. runs' = [runs EXCEPT ![r] = new] /\ dialog' = dialog /\ mail' = mail /\ did' = did
      BY <1>6 DEF Failed, GoOn
    <2>2. /\ new \in RunStates
          /\ IF run.next < Len(run.rule.actions) THEN new.pc = "act" /\ new.next = run.next + 1
                                                 ELSE new.pc = "page"
          /\ new.page = run.page /\ new.rest = run.rest /\ new.rule = run.rule
          /\ new.msg = run.msg /\ new.errors /\ new.aborted = run.aborted
      <3>1. LET end == Passed(marked)
            IN  /\ end \in RunStates
                /\ IF marked.next < Len(marked.rule.actions)
                   THEN end.pc = marked.pc /\ end.next = marked.next + 1
                   ELSE end.pc = "page"
                /\ end.page = marked.page /\ end.rest = marked.rest /\ end.rule = marked.rule
                /\ end.msg = marked.msg /\ end.errors = marked.errors /\ end.aborted = marked.aborted
        <4> HIDE DEF marked
        <4> QED
          BY <2>0, PassedIs
      <3> HIDE DEF marked, run
      <3> QED
        BY <3>1, <2>0, <1>1
    <2>3. InHand(new, listed[r], did[r]) /\ UpToDate(new, listed[r], did[r])
      <3> HIDE DEF run, new
      <3> QED
        BY <1>1, <2>2, PassedRun
    <2>4. ~Clean(new)
      BY <2>2 DEF Clean
    <2> HIDE DEF new
    <2> QED
      BY <1>1, <2>1, <2>2, <2>3, <2>4 DEF Acted
  <1> QED
    BY <1>4, <1>5, <1>6 DEF Act

LEMMA ActStep ==
    ASSUME RunnerInv, NEW r \in Run, Act(r)
    PROVE  RunnerInv' /\ \E new : Acted(r, new)
  <1>1. PICK new : Acted(r, new)
    BY ActIsActed
  <1>2. /\ listed \in [Run -> SUBSET Msg] /\ did \in [Run -> SUBSET (Msg \X Nat)]
        /\ mail \in [Msg -> Marks] /\ runs[r].next \in Nat
    BY DEF RunnerInv, RunnerTypeOK, RunStates
  <1>3. /\ listed' \in [Run -> SUBSET Msg] /\ mail' \in [Msg -> Marks]
        /\ \A s \in Run : s # r => listed'[s] = listed[s] /\ did'[s] = did[s]
        /\ did' \in [Run -> SUBSET (Msg \X Nat)]
    BY <1>1, <1>2 DEF Acted
  <1>4. RunnerInv'
    BY <1>1, <1>3, OneRunMoves DEF Acted
  <1> QED
    BY <1>1, <1>4

\* A run is started with nothing behind it.
LEMMA StartStep ==
    ASSUME RunnerInv, NEW r \in Run, Start(r)
    PROVE  RunnerInv'
  <1>1. PICK rule \in Rule : runs' = [runs EXCEPT ![r] = [Idle EXCEPT !.pc = "info", !.rule = rule]]
    BY DEF Start
  <1> DEFINE new == [Idle EXCEPT !.pc = "info", !.rule = rule]
  <1>2. /\ runs[r] = Idle /\ InHand(runs[r], listed[r], did[r])
        /\ mail \in [Msg -> Marks] /\ listed \in [Run -> SUBSET Msg]
        /\ did \in [Run -> SUBSET (Msg \X Nat)]
    BY DEF Start, RunnerInv, RunnerTypeOK
  <1>3. /\ new \in RunStates /\ new.pc = "info" /\ new.rule = rule /\ new.page = <<>>
        /\ new.rest = <<>>
    <2>1. Idle \in RunStates /\ Idle.page = <<>> /\ Idle.rest = <<>>
      BY DEF Idle, RunStates, Early
    <2> HIDE DEF Idle
    <2> QED
      BY <2>1 DEF RunStates, Early
  <1>4. listed[r] = {} /\ did[r] = {}
    BY <1>2 DEF InHand, Idle, Early
  <1> HIDE DEF new
  <1>5. Remaining(new) = {} /\ DOMAIN new.page = {} /\ DOMAIN new.rest = {}
    BY <1>3 DEF Remaining, Range
  <1>6. InHand(new, {}, {})
    BY <1>3, <1>5 DEF InHand, Early, AtMessage, IsInjective
  <1>7. UpToDate(new, {}, {})
    BY <1>3 DEF UpToDate, Clean, Early
  <1>8. /\ runs' = [runs EXCEPT ![r] = new] /\ mail' = mail /\ listed' = listed /\ did' = did
        /\ dialog' = [open |-> TRUE, of |-> r, done |-> FALSE]
    BY <1>1 DEF Start, new
  <1> QED
    BY <1>2, <1>3, <1>4, <1>6, <1>7, <1>8, OneRunMoves

\* Cancel only asks the run to stop.
LEMMA StoppedRun ==
    ASSUME NEW run \in RunStates, NEW seen, NEW done, InHand(run, seen, done), UpToDate(run, seen, done)
    PROVE  LET new == [run EXCEPT !.stop = TRUE]
           IN  /\ new \in RunStates /\ InHand(new, seen, done) /\ UpToDate(new, seen, done)
               /\ SameDue(run, new) /\ new.pc = run.pc /\ new.rule = run.rule /\ new.msg = run.msg
  <1> DEFINE new == [run EXCEPT !.stop = TRUE]
  <1>1. /\ new \in RunStates /\ new.pc = run.pc /\ new.rule = run.rule /\ new.rest = run.rest
        /\ new.page = run.page /\ new.msg = run.msg /\ new.next = run.next
        /\ new.errors = run.errors /\ new.aborted = run.aborted
    BY DEF RunStates
  <1> HIDE DEF new
  <1>2. Remaining(new) = Remaining(run)
    BY <1>1 DEF Remaining
  <1>3. InHand(new, seen, done)
    BY <1>1, <1>2 DEF InHand
  <1>4. Clean(new) = Clean(run) /\ \A m : Due(new, m) = Due(run, m)
    BY <1>1, <1>2 DEF Clean, Due
  <1>5. UpToDate(new, seen, done)
    BY <1>1, <1>4 DEF UpToDate
  <1> QED
    BY <1>1, <1>3, <1>4, <1>5 DEF new, SameDue

LEMMA CancelStep ==
    ASSUME RunnerInv, CancelClick
    PROVE  RunnerInv'
  <1> DEFINE r == dialog.of
             new == [runs[r] EXCEPT !.stop = TRUE]
  <1>1. /\ r \in Run /\ runs[r] \in RunStates
        /\ InHand(runs[r], listed[r], did[r]) /\ UpToDate(runs[r], listed[r], did[r])
        /\ mail \in [Msg -> Marks] /\ listed \in [Run -> SUBSET Msg]
        /\ did \in [Run -> SUBSET (Msg \X Nat)]
    BY DEF CancelClick, RunnerInv, RunnerTypeOK
  <1>2. new \in RunStates /\ InHand(new, listed[r], did[r]) /\ UpToDate(new, listed[r], did[r])
    <2> HIDE DEF r
    <2> QED
      BY <1>1, StoppedRun
  <1>3. /\ runs' = [runs EXCEPT ![r] = new] /\ mail' = mail /\ listed' = listed /\ did' = did
        /\ dialog' = dialog
    BY <1>1 DEF CancelClick
  <1> HIDE DEF new, r
  <1> QED
    BY <1>1, <1>2, <1>3, OneRunMoves

LEMMA UserActsIs ==
    ASSUME RunnerInv, NEW m \in Msg, UserActs(m)
    PROVE  mail' \in [Msg -> Marks] /\ \A n \in Msg : mail[n].tags \subseteq mail'[n].tags
  <1>1. mail \in [Msg -> Marks] /\ \A n \in Msg : mail[n] \in Marks
    BY DEF RunnerInv, RunnerTypeOK
  <1>2. CASE \E tag \in UserTags : mail' = [mail EXCEPT ![m].tags = @ \cup {tag}]
    <2>1. PICK tag \in UserTags : mail' = [mail EXCEPT ![m].tags = @ \cup {tag}]
      BY <1>2
    <2>2. [mail[m] EXCEPT !.tags = @ \cup {tag}] \in Marks
      BY <1>1 DEF Marks, KnownTags
    <2>3. mail'[m].tags = mail[m].tags \cup {tag} /\ \A n \in Msg : n # m => mail'[n] = mail[n]
      BY <1>1, <2>1 DEF Marks
    <2>4. mail' = [mail EXCEPT ![m] = [mail[m] EXCEPT !.tags = @ \cup {tag}]]
      BY <2>1
    <2>5. mail' \in [Msg -> Marks]
      BY <1>1, <2>2, <2>4
    <2> QED
      BY <2>3, <2>5
  <1>3. CASE mail' = [mail EXCEPT ![m].folder = Deleted]
    <2>1. mail' \in [Msg -> Marks]
      BY <1>1, <1>3 DEF Marks
    <2>2. \A n \in Msg : mail'[n].tags = mail[n].tags
      BY <1>1, <1>3 DEF Marks
    <2> QED
      BY <2>1, <2>2
  <1> QED
    BY <1>2, <1>3 DEF UserActs

LEMMA RunnerStep == RunnerInv /\ [RunnerNext]_runnerVars => RunnerInv'
  <1> SUFFICES ASSUME RunnerInv, [RunnerNext]_runnerVars
               PROVE  RunnerInv'
    OBVIOUS
  <1>1. CASE \E r \in Run : Start(r)
    BY <1>1, StartStep
  <1>2. CASE \E r \in Run : Step(r)
    BY <1>2, QuietStep, ActStep DEF Step
  <1>3. CASE CancelClick
    BY <1>3, CancelStep
  <1>4. CASE CloseDialog
    <2>1. /\ runs' = runs /\ mail' = mail /\ listed' = listed /\ did' = did
          /\ dialog' = [dialog EXCEPT !.open = FALSE]
      BY <1>4 DEF CloseDialog
    <2>2. RunnerTypeOK'
      BY <2>1 DEF RunnerInv, RunnerTypeOK
    <2> QED
      BY <2>1, <2>2 DEF RunnerInv
  <1>5. CASE \E m \in Msg : UserActs(m)
    <2>1. mail' \in [Msg -> Marks]
      BY <1>5, UserActsIs
    <2>2. runs' = runs /\ listed' = listed /\ did' = did /\ dialog' = dialog
      BY <1>5 DEF UserActs
    <2> QED
      BY <2>1, <2>2 DEF RunnerInv, RunnerTypeOK
  <1>6. CASE UNCHANGED runnerVars
    BY <1>6 DEF runnerVars, RunnerInv, RunnerTypeOK
  <1> QED
    BY <1>1, <1>2, <1>3, <1>4, <1>5, <1>6 DEF RunnerNext

(***************************************************************************)
(* A run is handed every message that the folder held, each of them once,  *)
(* and is at an action of its rule whenever it is at one; as long as       *)
(* nothing failed it has done to each message what was due by then.        *)
(* (runRuleOnFolder, local_runner.js.)                                     *)
(***************************************************************************)
THEOREM RunnerInvariant == RunnerSpec => []RunnerInv
  <1> QED
    BY RunnerStarts, RunnerStep, PTL DEF RunnerSpec

(***************************************************************************)
(* Any number of runs, any rules, whatever fails and whatever the user     *)
(* does meanwhile: a run that ends with no error and was not stopped took  *)
(* every action of its rule on every message of the listing that suits it, *)
(* and none on the others.  It is the first half of DoneIsDone; the tags   *)
(* that are to be seen in the end are the second.                          *)
(***************************************************************************)
WholeRule ==
    \A r \in Run :
        LET run == runs[r]
        IN  run.pc = "done" /\ ~run.errors /\ ~run.aborted =>
              \A m \in listed[r] :
                  {d[2] : d \in {e \in did[r] : e[1] = m}} =
                        IF Suits(run.rule, m) THEN ToDo(run.rule) ELSE {}

LEMMA InvariantIsWhole == RunnerInv => WholeRule
  <1> SUFFICES ASSUME RunnerInv, NEW r \in Run, runs[r].pc = "done", ~runs[r].errors,
                      ~runs[r].aborted, NEW m \in listed[r]
               PROVE  Done(did[r], m) = IF Suits(runs[r].rule, m) THEN ToDo(runs[r].rule) ELSE {}
    BY DEF WholeRule, Done
  <1>1. InHand(runs[r], listed[r], did[r]) /\ UpToDate(runs[r], listed[r], did[r])
    BY DEF RunnerInv
  <1>2. Remaining(runs[r]) = {} /\ Clean(runs[r])
    BY <1>1 DEF InHand, Clean, Early
  <1>3. Done(did[r], m) = Due(runs[r], m)
    BY <1>1, <1>2 DEF UpToDate
  <1> QED
    BY <1>2, <1>3 DEF Due, AtMessage

\* With any number of runs at a time, an unbroken run did its whole rule, to the
\* messages that suit it only.  (runRuleOnFolder, local_runner.js.)
THEOREM WholeRuleIsDone == RunnerSpec => []WholeRule
  <1> QED
    BY RunnerInvariant, InvariantIsWhole, PTL

(***************************************************************************)
(* The tags.  update takes all tags of a message, and the runner puts its  *)
(* own to those that the page told it of: a second tag action of the same  *)
(* rule, or another run on the same message, puts the tags back that it    *)
(* read before the first.  Without these two the tags stay.                *)
(***************************************************************************)
OneRun == \A r, s \in Run : r = s
OneTagAction ==
    \A rule \in Rule : \A i, j \in DOMAIN rule.actions :
        rule.actions[i].type = "tag" /\ rule.actions[j].type = "tag" => i = j

Tagged(run, seen) ==
    Clean(run) =>
        \A m \in seen : \A i \in Due(run, m) :
            run.rule.actions[i].type = "tag" =>
                Range(run.rule.actions[i].keywords) \subseteq mail[m].tags

TaggedInv == \A r \in Run : Tagged(runs[r], listed[r])

\* What is due to a message are actions of the rule.
LEMMA DueIs ==
    ASSUME NEW run, NEW m
    PROVE  Due(run, m) \subseteq ToDo(run.rule)
  <1> QED
    BY DEF Due

LEMMA TaggedStep ==
    ASSUME OneRun, OneTagAction, RunnerInv, TaggedInv, [RunnerNext]_runnerVars
    PROVE  TaggedInv'
  <1> SUFFICES ASSUME NEW r \in Run
               PROVE  Tagged(runs[r], listed[r])'
    BY DEF TaggedInv
  <1>0. /\ Tagged(runs[r], listed[r]) /\ \A s \in Run : s = r
        /\ runs \in [Run -> RunStates] /\ listed \in [Run -> SUBSET Msg]
        /\ InHand(runs[r], listed[r], did[r])
    BY DEF TaggedInv, OneRun, RunnerInv, RunnerTypeOK
  <1>1. CASE \E s \in Run : Start(s)
    <2>1. runs'[r].pc = "info"
      BY <1>0, <1>1 DEF Start, Idle
    <2> QED
      BY <2>1 DEF Tagged, Clean, Early
  <1>2. ASSUME NEW new, Quiet(r, new)
        PROVE  Tagged(runs[r], listed[r])'
    <2>1. runs'[r] = new /\ new.rule = runs[r].rule /\ mail' = mail
      BY <1>0, <1>2 DEF Quiet
    <2>2. CASE listed' = listed /\ SameDue(runs[r], new)
      BY <1>0, <2>1, <2>2 DEF Tagged, SameDue
    <2>3. CASE \A m \in listed'[r] : Due(new, m) = {}
      BY <2>1, <2>3 DEF Tagged
    <2> QED
      BY <1>2, <2>2, <2>3 DEF Quiet
  <1>3. ASSUME NEW new, Acted(r, new), Act(r)
        PROVE  Tagged(runs[r], listed[r])'
    <2> DEFINE run == runs[r]
               acts == run.rule.actions
    <2>1. runs'[r] = new /\ new.rule = run.rule /\ listed' = listed
      BY <1>0, <1>3 DEF Acted
    <2> SUFFICES ASSUME Clean(new), NEW m \in listed[r], NEW i \in Due(new, m), acts[i].type = "tag"
                 PROVE  Range(acts[i].keywords) \subseteq mail'[m].tags
      BY <2>1 DEF Tagged
    <2>2. /\ Clean(run) /\ (m # run.msg.id => Due(new, m) = Due(run, m))
          /\ Due(new, run.msg.id) = Due(run, run.msg.id) \cup (ToDo(run.rule) \cap {run.next})
      BY <1>3 DEF Acted
    <2>3. m \in Msg /\ run.rule \in Rule /\ run.next \in DOMAIN acts /\ i \in DOMAIN acts
      <3>1. m \in Msg /\ run.pc = "act"
        BY <1>0, <1>3 DEF Act
      <3>2. i \in ToDo(run.rule)
        BY <2>1, DueIs
      <3> QED
        BY <1>0, <3>1, <3>2 DEF InHand, ToDo, AtMessage
    <2>4. CASE i \in Due(run, m)
      <3>1. Range(acts[i].keywords) \subseteq mail[m].tags
        BY <1>0, <2>2, <2>4 DEF Tagged
      <3>2. CASE mail'[m].tags = mail[m].tags
        BY <3>1, <3>2
      <3>3. CASE mail'[m].tags # mail[m].tags
        <4>1. /\ m = run.msg.id
              /\ acts[run.next].type = "tag" =>
                    Range(acts[run.next].keywords) \subseteq mail'[run.msg.id].tags
              /\ acts[run.next].type # "tag" => mail'[run.msg.id].tags = mail[run.msg.id].tags
          BY <1>3, <3>3, <2>3 DEF Acted
        <4>2. acts[run.next].type = "tag"
          BY <3>3, <4>1
        <4>3. i = run.next
          BY <2>3, <4>2 DEF OneTagAction
        <4> QED
          BY <4>1, <4>2, <4>3
      <3> QED
        BY <3>2, <3>3
    <2>5. CASE i \notin Due(run, m)
      <3>1. m = run.msg.id /\ i = run.next /\ i \in ToDo(run.rule)
        BY <2>2, <2>5
      <3>2. ~new.errors
        BY DEF Clean
      <3> QED
        BY <1>3, <3>1, <3>2 DEF Acted
    <2> QED
      BY <2>4, <2>5
  <1>4. CASE \E s \in Run : Step(s)
    <2>1. Step(r)
      BY <1>0, <1>4
    <2>2. CASE Act(r)
      BY <1>3, <2>2, ActStep
    <2>3. CASE InfoAnswered(r) \/ Listed(r) \/ NextPage(r) \/ NextMessage(r) \/ FullAnswered(r)
      BY <1>2, <2>3, QuietStep
    <2> QED
      BY <2>1, <2>2, <2>3 DEF Step
  <1>5. CASE CancelClick
    <2>1. dialog.of = r /\ mail' = mail /\ listed' = listed
      BY <1>0, <1>5 DEF CancelClick, RunnerInv, RunnerTypeOK
    <2>2. runs' = [runs EXCEPT ![r].stop = TRUE]
      BY <1>5, <2>1 DEF CancelClick
    <2>3. runs'[r] = [runs[r] EXCEPT !.stop = TRUE]
      BY <1>0, <2>2
    <2>4. runs[r] \in RunStates /\ UpToDate(runs[r], listed[r], did[r])
      BY <1>0 DEF RunnerInv
    <2>5. SameDue(runs[r], runs'[r]) /\ runs'[r].rule = runs[r].rule
      BY <1>0, <2>3, <2>4, StoppedRun
    <2> QED
      BY <1>0, <2>1, <2>5 DEF Tagged, SameDue
  <1>6. CASE CloseDialog \/ UNCHANGED runnerVars
    <2>1. runs' = runs /\ mail' = mail /\ listed' = listed
      BY <1>6 DEF CloseDialog, runnerVars
    <2> QED
      BY <1>0, <2>1 DEF Tagged
  <1>7. CASE \E m \in Msg : UserActs(m)
    <2>1. \A n \in Msg : mail[n].tags \subseteq mail'[n].tags
      BY <1>7, UserActsIs
    <2>2. runs' = runs /\ listed' = listed /\ listed[r] \subseteq Msg
      BY <1>0, <1>7 DEF UserActs
    <2> QED
      BY <1>0, <2>1, <2>2 DEF Tagged
  <1> QED
    BY <1>1, <1>4, <1>5, <1>6, <1>7 DEF RunnerNext

\* A run that ends with no error and was not stopped has done the whole rule to
\* every message that suits it, and nothing to the others.
\* (runRuleOnFolder's summary, and what the dialog says of it.)
THEOREM CleanRunIsDone ==
    ASSUME OneRun, OneTagAction
    PROVE  RunnerSpec => []DoneIsDone
  <1>1. RunnerInit => TaggedInv
    <2> SUFFICES ASSUME RunnerInit, NEW r \in Run
                 PROVE  Tagged(runs[r], listed[r])
      BY DEF TaggedInv
    <2>1. runs[r].pc = "idle"
      BY DEF RunnerInit, Idle
    <2> QED
      BY <2>1 DEF Tagged, Clean, Early
  <1>2. RunnerInv /\ TaggedInv /\ [RunnerNext]_runnerVars => TaggedInv'
    BY TaggedStep
  <1>3. RunnerInv /\ TaggedInv => DoneIsDone
    <2> SUFFICES ASSUME RunnerInv, TaggedInv, NEW r \in Run, runs[r].pc = "done", ~runs[r].errors,
                        ~runs[r].aborted, NEW m \in listed[r]
                 PROVE  /\ {d[2] : d \in {e \in did[r] : e[1] = m}} =
                             IF Suits(runs[r].rule, m) THEN ToDo(runs[r].rule) ELSE {}
                        /\ Suits(runs[r].rule, m) => TagsOf(runs[r].rule) \subseteq mail[m].tags
      BY DEF DoneIsDone
    <2>1. WholeRule
      BY InvariantIsWhole
    <2>2. Remaining(runs[r]) = {} /\ Clean(runs[r])
      BY DEF RunnerInv, InHand, Clean, Early
    <2>3. Suits(runs[r].rule, m) => Due(runs[r], m) = ToDo(runs[r].rule)
      BY <2>2 DEF Due, AtMessage
    <2>4. Suits(runs[r].rule, m) => TagsOf(runs[r].rule) \subseteq mail[m].tags
      BY <2>2, <2>3 DEF TaggedInv, Tagged, TagsOf
    <2> QED
      BY <2>1, <2>4 DEF WholeRule
  <1> QED
    BY <1>1, <1>2, <1>3, RunnerInvariant, PTL DEF RunnerSpec

(***************************************************************************)
(* A message that could not be fetched is judged by its headers; a         *)
(* condition "has no attachment" then takes it, whatever it has.  Without  *)
(* such conditions nothing is done to a message that does not suit.        *)
(***************************************************************************)
CertainRules ==
    \A rule \in Rule : \A i \in DOMAIN rule.conditions :
        rule.conditions[i].field = "attachment" => rule.conditions[i].op = "has_attachment"

SuitedInv ==
    /\ \A r \in Run : runs[r].pc = "act" => Suits(runs[r].rule, runs[r].msg.id)
    /\ OnlySuited

LEMMA SuitedStep ==
    ASSUME CertainRules, RunnerInv, SuitedInv, [RunnerNext]_runnerVars
    PROVE  SuitedInv'
  <1>0. /\ runs \in [Run -> RunStates] /\ did \in [Run -> SUBSET (Msg \X Nat)]
        /\ \A r \in Run : InHand(runs[r], listed[r], did[r])
    BY DEF RunnerInv, RunnerTypeOK
  <1>1. ASSUME NEW r \in Run, Start(r)
        PROVE  SuitedInv'
    <2>1. did' = did /\ runs'[r].pc = "info" /\ runs[r].pc = "idle"
          /\ \A s \in Run : s # r => runs'[s] = runs[s]
      BY <1>0, <1>1 DEF Start, Idle
    <2>2. did'[r] = {}
      BY <1>0, <2>1 DEF InHand, Early
    <2> QED
      BY <2>1, <2>2 DEF SuitedInv, OnlySuited
  <1>2. ASSUME NEW r \in Run, NEW new, Quiet(r, new)
        PROVE  SuitedInv'
    <2>1. /\ did' = did /\ runs'[r] = new /\ new.rule = runs[r].rule
          /\ \A s \in Run : s # r => runs'[s] = runs[s]
      BY <1>0, <1>2 DEF Quiet
    <2>2. ASSUME new.pc = "act"
          PROVE  Suits(new.rule, new.msg.id)
      <3>1. PICK full \in BOOLEAN : matchRule(new.rule, Content[new.msg.id], full)
        BY <1>2, <2>2 DEF Quiet
      <3>2. new.rule \in Rule
        BY <1>2, <2>2 DEF Quiet, InHand
      <3>3. CASE full = FALSE
        BY <3>1, <3>2, <3>3, LessIsCautious DEF CertainRules, Suits
      <3>4. CASE full = TRUE
        BY <3>1, <3>4 DEF Suits
      <3> QED
        BY <3>3, <3>4
    <2> QED
      BY <2>1, <2>2 DEF SuitedInv, OnlySuited
  <1>3. ASSUME NEW r \in Run, NEW new, Acted(r, new), Act(r)
        PROVE  SuitedInv'
    <2>1. /\ runs'[r] = new /\ new.rule = runs[r].rule /\ new.msg = runs[r].msg
          /\ \A s \in Run : s # r => runs'[s] = runs[s]
      BY <1>0, <1>3 DEF Acted
    <2>2. \A s \in Run : s # r => did'[s] = did[s]
      BY <1>0, <1>3 DEF Acted
    <2>3. did'[r] \subseteq did[r] \cup {<<runs[r].msg.id, runs[r].next>>}
      BY <1>0, <1>3 DEF Acted
    <2>4. Suits(runs[r].rule, runs[r].msg.id)
      BY <1>3 DEF Act, SuitedInv
    <2> QED
      BY <2>1, <2>2, <2>3, <2>4 DEF SuitedInv, OnlySuited
  <1>4. CASE CancelClick
    <2>1. /\ did' = did /\ dialog.of \in Run
          /\ runs' = [runs EXCEPT ![dialog.of] = [runs[dialog.of] EXCEPT !.stop = TRUE]]
      BY <1>0, <1>4 DEF CancelClick, RunnerInv, RunnerTypeOK
    <2>2. ASSUME NEW r \in Run
          PROVE  runs'[r].pc = runs[r].pc /\ runs'[r].rule = runs[r].rule /\ runs'[r].msg = runs[r].msg
      BY <1>0, <2>1 DEF RunStates
    <2> QED
      BY <2>1, <2>2 DEF SuitedInv, OnlySuited
  <1>5. CASE CloseDialog \/ UNCHANGED runnerVars \/ \E m \in Msg : UserActs(m)
    <2>1. runs' = runs /\ did' = did
      BY <1>5 DEF CloseDialog, runnerVars, UserActs
    <2> QED
      BY <2>1 DEF SuitedInv, OnlySuited
  <1>6. CASE \E r \in Run : Step(r)
    BY <1>2, <1>3, <1>6, ActStep, QuietStep DEF Step
  <1> QED
    BY <1>1, <1>4, <1>5, <1>6 DEF RunnerNext

\* Whatever fails, the rule's actions are for the messages that suit it.
\* (applyActions is called where matchRule said so, local_runner.js.)
THEOREM ActionsAreForSuited ==
    ASSUME CertainRules
    PROVE  RunnerSpec => []OnlySuited
  <1>1. RunnerInit => SuitedInv
    BY DEF RunnerInit, SuitedInv, OnlySuited, Idle
  <1>2. RunnerInv /\ SuitedInv /\ [RunnerNext]_runnerVars => SuitedInv'
    BY SuitedStep
  <1>3. SuitedInv => OnlySuited
    BY DEF SuitedInv
  <1> QED
    BY <1>1, <1>2, <1>3, RunnerInvariant, PTL DEF RunnerSpec

-----------------------------------------------------------------------------
(***************************************************************************)
(* The editor, and the wizard with it.                                     *)
(***************************************************************************)
\* The writer negates only tests of one value, and those with `contains'.
LEMMA NegatedIsPlain ==
    ASSUME NEW c, buildTest(c).not
    PROVE  buildTest(c).match = "contains" /\ Len(buildTest(c).values) = 1
  <1>1. c.field # "size"
    BY DEF buildTest, Test
  <1>2. CASE c.field = "attachment"
    BY <1>2 DEF buildTest, Test
  <1>3. CASE c.field # "attachment"
    <2>1. buildTest(c).not = (c.op = "not_contains")
      BY <1>1, <1>3 DEF buildTest, Test
    <2>2. c.op = "not_contains"
      BY <2>1
    <2>3. buildTest(c).match = MatchType(c.op) /\ buildTest(c).values = Values(c)
      BY <1>1, <1>3 DEF buildTest, Test
    <2>4. Values(c) = <<AsText(c.value)>> /\ MatchType(c.op) = "contains"
      BY <2>2 DEF Values, MatchType
    <2> QED
      BY <2>3, <2>4
  <1> QED
    BY <1>2, <1>3

\* What the server accepts of the writer, the reader reads.
LEMMA AcceptedIsReadable ==
    ASSUME NEW rule, AcceptedBlock(Block(rule))
    PROVE  ReadableBlock(Block(rule))
  <1> DEFINE tests == Block(rule).tests
  <1>1. tests = [i \in DOMAIN rule.conditions |-> buildTest(rule.conditions[i])]
    BY DEF Block
  <1> SUFFICES ASSUME NEW i \in DOMAIN tests
               PROVE  Readable(tests[i])
    BY DEF ReadableBlock
  <1>2. tests[i] = buildTest(rule.conditions[i])
    BY <1>1
  <1>3. /\ tests[i].values # <<>>
        /\ tests[i].kind = "size" => \E n \in Number : n >= 0 /\ tests[i].values[1] = NumberText(n)
    BY DEF AcceptedBlock
  <1>4. tests[i].not => tests[i].match = "contains" /\ Len(tests[i].values) = 1
    BY <1>2, NegatedIsPlain
  <1> HIDE DEF tests
  <1> QED
    BY <1>3, <1>4 DEF Readable

\* Every step of the editor stores what reads, or stores nothing.
LEMMA EditorStep == StoredReads /\ [Next]_vars => StoredReads'
  <1>1. ASSUME NEW rule, Stores(rule)
        PROVE  StoredReads'
    BY <1>1, AcceptedIsReadable DEF Stores, saveRule, StoredReads, ReadableBlock
  <1>2. ASSUME StoredReads, stored' = stored
        PROVE  StoredReads'
    BY <1>2 DEF StoredReads, ReadableBlock
  <1>3. Open \/ EditDraft \/ Cancel \/ Reload \/ UNCHANGED vars => stored' = stored
    BY DEF Open, EditDraft, EditRule, EditCondition, EditAction, AddCondition, RemoveCondition,
           AddAction, RemoveAction, Change, Cancel, Reload, vars
  <1> QED
    BY <1>1, <1>2, <1>3 DEF Next, Save

(***************************************************************************)
(* Whatever the editor saves and the server accepts, the reader reads:     *)
(* for any texts, header names and sizes, and any number of edits.         *)
(* (buildTest and parseTest, sieve_adapter.js.)                            *)
(***************************************************************************)
THEOREM EditorStoresWhatReads == Spec => []StoredReads
  <1>1. Init => StoredReads
    BY DEF Init, StoredReads
  <1> QED
    BY <1>1, EditorStep, PTL DEF Spec

\* The rules that the wizard makes are no exception.  (onCreate, wizard.js.)
THEOREM WizardStoresWhatReads == WizardSpec => []StoredReads
  <1>1. WizardInit => StoredReads
    BY DEF WizardInit, Init, StoredReads
  <1>2. StoredReads /\ [WizardNext]_wizardVars => StoredReads'
    <2>1. ASSUME StoredReads, NEW rule, saveRule(rule)
          PROVE  StoredReads'
      BY <2>1, AcceptedIsReadable DEF saveRule, StoredReads, ReadableBlock
    <2>2. ASSUME StoredReads, stored' = stored
          PROVE  StoredReads'
      BY <2>2 DEF StoredReads, ReadableBlock
    <2>3. ASSUME Create
          PROVE  stored' = stored \/ \E rule : saveRule(rule)
      BY <2>3 DEF Create
    <2>4. ASSUME SaveMade
          PROVE  saveRule(draft)
      BY <2>4 DEF SaveMade, Stores
    <2>5. ASSUME OpenWizard \/ CloseWizard \/ UNCHANGED wizardVars
          PROVE  stored' = stored
      BY <2>5 DEF OpenWizard, CloseWizard, wizardVars, vars
    <2>6. ASSUME InEditor
          PROVE  Next
      BY <2>6 DEF InEditor, Next
    <2> QED
      BY <2>1, <2>2, <2>3, <2>4, <2>5, <2>6, EditorStep DEF WizardNext
  <1> QED
    BY <1>1, <1>2, PTL DEF WizardSpec

-----------------------------------------------------------------------------
(***************************************************************************)
(* Sequences put together of pieces of one element at most.                *)
(***************************************************************************)
\* A non-empty set of naturals has a least element.
LEMMA LeastNat ==
    ASSUME NEW S \in SUBSET Nat, S # {}
    PROVE  \E x \in S : \A y \in S : x <= y
  <1> DEFINE R == OpToRel(<, Nat)
  <1>1. PICK x \in S : \A y \in S : <<y, x>> \notin R
    <2>1. IsWellFoundedOn(R, Nat)
      BY NatLessThanWellFounded
    <2> HIDE DEF R
    <2> QED
      BY <2>1, WFMin
  <1>2. ASSUME NEW y \in S PROVE x <= y
    <2>1. <<y, x>> \notin {ss \in Nat \X Nat : ss[1] < ss[2]}
      BY <1>1 DEF OpToRel
    <2>2. y \in Nat /\ x \in Nat
      OBVIOUS
    <2>3. ~(y < x)
      BY <2>1, <2>2
    <2> QED
      BY <2>2, <2>3
  <1> QED
    BY <1>2

Brief(s, S) == s \in Seq(Seq(S)) /\ \A i \in DOMAIN s : Len(s[i]) <= 1

\* The sequences of the first pieces, each from the one before.
Grows(f, s, n) == f = [i \in 1 .. n |-> IF i = 1 THEN s[i] ELSE f[i - 1] \o s[i]]

\* The pieces up to i that have an element.
Full(s, i) == {j \in 1 .. i : s[j] # <<>>}

\* t has the elements of the first i pieces, each at a place of its own.
Places(h, t, s, i) ==
    /\ h \in Bijection(1 .. Len(t), Full(s, i))
    /\ \A k \in 1 .. Len(t) : t[k] = s[h[k]][1]

LEMMA PlacesGrow ==
    ASSUME NEW S, NEW s, Brief(s, S), NEW i \in Nat, i + 1 \in DOMAIN s, NEW t \in Seq(S),
           NEW h, Places(h, t, s, i)
    PROVE  t \o s[i + 1] \in Seq(S) /\ \E g : Places(g, t \o s[i + 1], s, i + 1)
  <1> DEFINE x == s[i + 1]
             n == Len(t)
             u == t \o x
  <1>1. x \in Seq(S) /\ Len(x) <= 1 /\ n \in Nat /\ Len(x) \in Nat
    BY DEF Brief
  <1>2. u \in Seq(S) /\ Len(u) = n + Len(x)
    BY <1>1
  <1>3. \A j \in 1 .. i + 1 : j \in 1 .. i \/ j = i + 1
    OBVIOUS
  <1>4. CASE x = <<>>
    <2>1. u = t
      BY <1>4
    <2>2. Full(s, i + 1) = Full(s, i)
      BY <1>3, <1>4 DEF Full
    <2> QED
      BY <1>2, <2>1, <2>2 DEF Places
  <1>5. CASE x # <<>>
    <2>1. Len(x) = 1 /\ Len(u) = n + 1
      <3>1. Len(x) # 0
        <4> HIDE DEF x
        <4> QED
          BY <1>1, <1>5, EmptySeq
      <3> DEFINE k == Len(x)
      <3>2. k = 1
        <4>1. k \in Nat /\ k <= 1 /\ k # 0
          BY <1>1, <3>1
        <4> HIDE DEF k
        <4> QED
          BY <4>1
      <3> QED
        BY <1>2, <3>2
    <2>2. u[n + 1] = x[1] /\ \A k \in 1 .. n : u[k] = t[k]
      BY <1>1, <2>1
    <2>3. Full(s, i + 1) = Full(s, i) \cup {i + 1} /\ i + 1 \notin Full(s, i)
      BY <1>3, <1>5 DEF Full
    <2> DEFINE g == [k \in 1 .. n + 1 |-> IF k = n + 1 THEN i + 1 ELSE h[k]]
    <2>4. /\ h \in [1 .. n -> Full(s, i)]
          /\ \A j, k \in 1 .. n : h[j] = h[k] => j = k
          /\ \A j \in Full(s, i) : \E k \in 1 .. n : h[k] = j
      BY DEF Places, Bijection, Injection, Surjection, IsInjective
    <2>5. \A k \in 1 .. n + 1 : k = n + 1 \/ k \in 1 .. n
      BY <1>1
    <2>6. n + 1 \in 1 .. n + 1 /\ \A k \in 1 .. n : k \in 1 .. n + 1 /\ k # n + 1
      BY <1>1
    <2> HIDE DEF n, x, u
    <2>7. g \in [1 .. n + 1 -> Full(s, i + 1)]
      BY <2>3, <2>4, <2>5
    <2>8. \A j, k \in 1 .. n + 1 : g[j] = g[k] => j = k
      BY <2>3, <2>4, <2>5
    <2>9. \A j \in Full(s, i + 1) : \E k \in 1 .. n + 1 : g[k] = j
      BY <2>3, <2>4, <2>6
    <2>10. \A k \in 1 .. n + 1 : u[k] = s[g[k]][1]
      <3>1. u[n + 1] = s[g[n + 1]][1]
        BY <2>2, <2>6 DEF x
      <3>2. \A k \in 1 .. n : t[k] = s[h[k]][1]
        BY DEF Places, n
      <3> QED
        BY <2>2, <2>5, <2>6, <3>1, <3>2
    <2>11. g \in Bijection(1 .. n + 1, Full(s, i + 1))
      <3> HIDE DEF g
      <3> QED
        BY <2>7, <2>8, <2>9 DEF Bijection, Injection, Surjection, IsInjective
    <2> HIDE DEF g
    <2> QED
      BY <1>2, <2>1, <2>10, <2>11 DEF Places, u, x
  <1> QED
    BY <1>4, <1>5

LEMMA GrownIs ==
    ASSUME NEW S, NEW s, Brief(s, S), NEW n \in Nat, n <= Len(s), NEW f, Grows(f, s, n)
    PROVE  \A i \in 1 .. n : f[i] \in Seq(S) /\ \E h : Places(h, f[i], s, i)
  <1> DEFINE Good(i) == f[i] \in Seq(S) /\ \E h : Places(h, f[i], s, i)
             B == {i \in 1 .. n : ~Good(i)}
  <1>0. s \in Seq(Seq(S)) /\ DOMAIN s = 1 .. Len(s) /\ Len(s) \in Nat
    BY DEF Brief
  <1>1. ASSUME NEW i \in 1 .. n
        PROVE  f[i] = IF i = 1 THEN s[i] ELSE f[i - 1] \o s[i]
    BY DEF Grows
  <1>2. Good(1) \/ n = 0
    <2>1. CASE n >= 1
      <3>1. 1 \in DOMAIN s /\ f[1] = s[1] /\ s[1] \in Seq(S)
        BY <1>0, <1>1, <2>1
      <3>2. <<>> \in Seq(S) /\ <<>> \o s[1] = s[1] /\ 0 + 1 = 1
        BY <3>1
      <3>3. Places(<<>>, <<>>, s, 0)
        <4>1. Full(s, 0) = {} /\ 1 .. Len(<<>>) = {}
          BY DEF Full
        <4>2. <<>> \in Bijection({}, {})
          BY DEF Bijection, Injection, Surjection, IsInjective
        <4> QED
          BY <4>1, <4>2 DEF Places
      <3>4. /\ <<>> \o s[0 + 1] \in Seq(S)
            /\ \E g : Places(g, <<>> \o s[0 + 1], s, 0 + 1)
        BY <3>1, <3>2, <3>3, PlacesGrow
      <3> QED
        BY <3>1, <3>2, <3>4
    <2> QED
      BY <2>1
  <1>3. ASSUME NEW i \in 1 .. n, i + 1 \in 1 .. n, Good(i)
        PROVE  Good(i + 1)
    <2>1. PICK h : Places(h, f[i], s, i)
      BY <1>3
    <2>2. f[i + 1] = f[i] \o s[i + 1]
      <3>1. i + 1 # 1 /\ (i + 1) - 1 = i
        OBVIOUS
      <3>2. f[i + 1] = IF i + 1 = 1 THEN s[i + 1] ELSE f[(i + 1) - 1] \o s[i + 1]
        BY <1>1, <1>3
      <3> QED
        BY <3>1, <3>2
    <2>3. i + 1 \in DOMAIN s /\ i \in Nat
      BY <1>0, <1>3
    <2>4. f[i] \o s[i + 1] \in Seq(S) /\ \E g : Places(g, f[i] \o s[i + 1], s, i + 1)
      BY <1>3, <2>1, <2>3, PlacesGrow
    <2> QED
      BY <2>2, <2>4
  <1> HIDE DEF Good
  <1>4. B = {}
    <2> SUFFICES ASSUME B # {}
                 PROVE  FALSE
      OBVIOUS
    <2>0. B \in SUBSET Nat
      OBVIOUS
    <2>1. PICK m \in B : \A y \in B : m <= y
      <3> HIDE DEF B
      <3> QED
        BY <2>0, LeastNat
    <2>2. m \in 1 .. n /\ ~Good(m) /\ m # 1
      BY <1>2, <2>1
    <2>3. m - 1 \in 1 .. n /\ m - 1 \notin B /\ (m - 1) + 1 = m
      BY <2>1, <2>2
    <2>4. Good(m - 1)
      BY <2>3
    <2> QED
      BY <1>3, <2>2, <2>3, <2>4
  <1> QED
    BY <1>4 DEF Good

LEMMA GrownExists ==
    ASSUME NEW s, NEW n \in Nat
    PROVE  \E f : Grows(f, s, n)
  <1> DEFINE Can(m) == \E f : Grows(f, s, m)
             B == {m \in Nat : ~Can(m)}
  <1>1. Can(0)
    <2>1. Grows([i \in {} |-> 0], s, 0)
      BY DEF Grows
    <2> QED
      BY <2>1
  <1>2. ASSUME NEW m \in Nat, Can(m)
        PROVE  Can(m + 1)
    <2>1. PICK g : Grows(g, s, m)
      BY <1>2
    <2> DEFINE f == [i \in 1 .. m + 1 |->
                       IF i = m + 1 THEN IF i = 1 THEN s[i] ELSE g[m] \o s[i] ELSE g[i]]
    <2>2. \A i \in 1 .. m : g[i] = IF i = 1 THEN s[i] ELSE g[i - 1] \o s[i]
      BY <2>1 DEF Grows
    <2>3. ASSUME NEW i \in 1 .. m + 1
          PROVE  f[i] = IF i = 1 THEN s[i] ELSE f[i - 1] \o s[i]
      <3>1. CASE i = m + 1
        <4>1. CASE i = 1
          BY <3>1, <4>1
        <4>2. CASE i # 1
          <5>1. i - 1 = m /\ m \in 1 .. m + 1 /\ m # m + 1
            BY <3>1, <4>2
          <5>2. f[i - 1] = g[m]
            BY <5>1
          <5> QED
            BY <3>1, <4>2, <5>2
        <4> QED
          BY <4>1, <4>2
      <3>2. CASE i # m + 1
        <4>1. i \in 1 .. m /\ f[i] = g[i]
          BY <3>2
        <4>2. i # 1 => i - 1 \in 1 .. m /\ f[i - 1] = g[i - 1]
          BY <3>2
        <4> QED
          BY <2>2, <4>1, <4>2
      <3> QED
        BY <3>1, <3>2
    <2>4. DOMAIN f = 1 .. m + 1 /\ f = [i \in 1 .. m + 1 |-> f[i]]
      OBVIOUS
    <2> HIDE DEF f
    <2>5. Grows(f, s, m + 1)
      BY <2>3, <2>4 DEF Grows
    <2> QED
      BY <2>5
  <1> HIDE DEF Can
  <1>3. B = {}
    <2> SUFFICES ASSUME B # {}
                 PROVE  FALSE
      OBVIOUS
    <2>1. PICK m \in B : \A y \in B : m <= y
      BY LeastNat
    <2>2. m \in Nat /\ m # 0
      BY <1>1, <2>1
    <2>3. m - 1 \in Nat /\ m - 1 \notin B /\ (m - 1) + 1 = m
      BY <2>1, <2>2
    <2> QED
      BY <1>2, <2>1, <2>3
  <1> QED
    BY <1>3 DEF Can

\* Put together, the elements are those of the pieces, each once and no others.
LEMMA FlattenIs ==
    ASSUME NEW S, NEW s, Brief(s, S)
    PROVE  FlattenSeq(s) \in Seq(S) /\ \E h : Places(h, FlattenSeq(s), s, Len(s))
  <1> DEFINE n == Len(s)
             f == CHOOSE g : Grows(g, s, n)
  <1>1. s \in Seq(Seq(S)) /\ n \in Nat
    BY DEF Brief
  <1>2. CASE n = 0
    <2>1. s = <<>> /\ FlattenSeq(s) = <<>>
      BY <1>1, <1>2 DEF FlattenSeq
    <2>2. Full(s, 0) = {} /\ 1 .. Len(<<>>) = {}
      BY DEF Full
    <2>3. <<>> \in Bijection({}, {})
      BY DEF Bijection, Injection, Surjection, IsInjective
    <2>4. Places(<<>>, <<>>, s, 0)
      <3> HIDE DEF n
      <3> QED
        BY <2>2, <2>3 DEF Places
    <2>5. <<>> \in Seq(S)
      OBVIOUS
    <2> QED
      BY <1>2, <2>1, <2>4, <2>5
  <1>3. CASE n # 0
    <2>1. Grows(f, s, n)
      BY <1>1, GrownExists
    <2>2. FlattenSeq(s) = f[n]
      BY <1>3 DEF FlattenSeq, Grows
    <2>3. n \in 1 .. n /\ n <= Len(s)
      BY <1>1, <1>3
    <2> HIDE DEF f
    <2>4. f[n] \in Seq(S) /\ \E h : Places(h, f[n], s, n)
      <3>1. \A i \in 1 .. n : f[i] \in Seq(S) /\ \E h : Places(h, f[i], s, i)
        <4> HIDE DEF n
        <4> QED
          BY <1>1, <2>1, <2>3, GrownIs
      <3> QED
        BY <2>3, <3>1
    <2> QED
      BY <2>2, <2>4
  <1> QED
    BY <1>2, <1>3

(***************************************************************************)
(* The import of Thunderbird's filters.                                    *)
(***************************************************************************)
LEMMA UpToIs ==
    ASSUME NEW n \in Nat
    PROVE  IsFiniteSet(1 .. n) /\ Cardinality(1 .. n) = n
  <1> QED
    BY FS_Interval

\* A sequence of which nothing is lost is itself.
LEMMA WithoutNone ==
    ASSUME NEW s, s \in Seq(Range(s))
    PROVE  Without(s, {}) = s
  <1> DEFINE n == Len(s)
             at(i) == CHOOSE k \in DOMAIN s \ {} : Cardinality((DOMAIN s \ {}) \cap 1 .. k) = i
  <1>1. n \in Nat /\ DOMAIN s = 1 .. n
    OBVIOUS
  <1>2. n - Cardinality({}) = n
    BY <1>1, FS_EmptySet
  <1>3. ASSUME NEW k \in 1 .. n
        PROVE  Cardinality((DOMAIN s \ {}) \cap 1 .. k) = k
    <2>1. (DOMAIN s \ {}) \cap 1 .. k = 1 .. k
      BY <1>1
    <2>2. Cardinality(1 .. k) = k
      BY <1>1, UpToIs
    <2> QED
      BY <2>1, <2>2
  <1>4. ASSUME NEW i \in 1 .. n
        PROVE  at(i) = i
    BY <1>1, <1>3
  <1>5. Without(s, {}) = [i \in 1 .. n - Cardinality({}) |-> s[at(i)]]
    BY DEF Without
  <1>6. Without(s, {}) = [i \in 1 .. n |-> s[i]]
    <2> HIDE DEF at
    <2> QED
      BY <1>2, <1>4, <1>5
  <1>7. s = [i \in 1 .. n |-> s[i]]
    <2> HIDE DEF n
    <2> QED
      BY <1>1
  <1> QED
    BY <1>6, <1>7

\* A filter that was read whole is projected as it is.
LEMMA ProjectedIs ==
    ASSUME NEW f, IsFilter(f)
    PROVE  Projected(f, NoLoss) =
             [name |-> f.name, enabled |-> f.enabled, matchAll |-> deduceMatchAll(f.terms),
              terms |-> f.terms, actions |-> f.actions]
  <1>1. Without(f.terms, {}) = f.terms /\ Without(f.actions, {}) = f.actions
    BY WithoutNone DEF IsFilter
  <1>2. NoLoss.terms = {} /\ NoLoss.actions = {}
    BY DEF NoLoss
  <1> QED
    BY <1>1, <1>2 DEF Projected

Single(out) == \E x : out = <<x>>

\* A term gives one condition, or none and a warning.
LEMMA TermGives ==
    ASSUME NEW term
    PROVE  Single(mapTerm(term).out) \/ (mapTerm(term).out = <<>> /\ mapTerm(term).warned)
  <1> DEFINE texty == term.attrib \in DOMAIN TEXTY_FIELDS /\ term.op \in DOMAIN TEXT_OP_MAP
             other == /\ term.attrib = "OtherHeader" /\ term.op \in DOMAIN TEXT_OP_MAP
                      /\ term.header # NoHeader
             sized == term.attrib = "Size" /\ term.op \in DOMAIN SIZE_OP_MAP /\ IsSize(term.value)
  <1>1. \A x, w : Single(Mapped(<<x>>, w).out)
    BY DEF Mapped, Single
  <1>2. Skip.out = <<>> /\ Skip.warned
    BY DEF Skip, Mapped
  <1> DEFINE one == Condition(TEXTY_FIELDS[term.attrib], NoHeader, TEXT_OP_MAP[term.op], term.value, "K")
             two == Condition("header", term.header, TEXT_OP_MAP[term.op], term.value, "K")
             three == Condition("size", NoHeader, SIZE_OP_MAP[term.op], Num(AsNumber(term.value)), "K")
  <1>3. mapTerm(term) = CASE texty -> Mapped(<<one>>, term.attrib = "ToOrCC")
                          [] other -> Mapped(<<two>>, FALSE)
                          [] sized -> Mapped(<<three>>, FALSE)
                          [] OTHER -> Skip
    BY DEF mapTerm
  <1>4. ~(texty /\ other) /\ ~(texty /\ sized) /\ ~(other /\ sized)
    BY DEF TEXTY_FIELDS
  <1> HIDE DEF texty, other, sized, one, two, three
  <1> QED
    BY <1>1, <1>2, <1>3, <1>4

\* An action gives one action; or none, with a warning unless it only ends the list.
LEMMA ActionGives ==
    ASSUME NEW action
    PROVE  /\ \/ Single(mapAction(action).out)
              \/ mapAction(action).out = <<>> /\ (mapAction(action).warned \/ action.type = "StopExecution")
           /\ action.type = "StopExecution" => mapAction(action).out = <<>>
  <1> DEFINE plain == action.type \in DOMAIN PlainActions
             folder == action.type \in DOMAIN FolderActions /\ action.folder # NoFolder
             forward == action.type = "Forward" /\ action.str # ""
             tag == action.type = "AddTag" /\ action.str # ""
             stop == action.type = "StopExecution"
  <1>1. \A x, w : Single(Mapped(<<x>>, w).out)
    BY DEF Mapped, Single
  <1>2. Skip.out = <<>> /\ Skip.warned /\ Mapped(<<>>, FALSE).out = <<>>
    BY DEF Skip, Mapped
  <1> DEFINE one == Action(PlainActions[action.type], NoFolder, NoAddress, <<>>)
             two == Action(FolderActions[action.type], action.folder, NoAddress, <<>>)
             three == Action("redirect", NoFolder, action.str, <<>>)
             four == Action("tag", NoFolder, NoAddress, <<action.str>>)
  <1>3. mapAction(action) = CASE plain -> Mapped(<<one>>, FALSE)
                              [] folder -> Mapped(<<two>>, FALSE)
                              [] forward -> Mapped(<<three>>, TRUE)
                              [] tag -> Mapped(<<four>>, FALSE)
                              [] stop -> Mapped(<<>>, FALSE)
                              [] OTHER -> Skip
    BY DEF mapAction
  <1>4. stop => ~plain /\ ~folder /\ ~forward /\ ~tag
    BY DEF PlainActions, FolderActions
  <1> HIDE DEF plain, folder, forward, tag, one, two, three, four
  <1> QED
    BY <1>1, <1>2, <1>3, <1>4

\* What is mapped has an element for every piece that gave one.
LEMMA OutsAre ==
    ASSUME NEW mapped, NEW n \in Nat, DOMAIN mapped = 1 .. n,
           \A i \in 1 .. n : Single(mapped[i].out) \/ mapped[i].out = <<>>
    PROVE  Len(Outs(mapped)) = Cardinality({i \in 1 .. n : Single(mapped[i].out)})
  <1> DEFINE s == [i \in 1 .. n |-> mapped[i].out]
             S == UNION {Range(mapped[i].out) : i \in 1 .. n}
             t == Outs(mapped)
  <1>1. t = FlattenSeq(s)
    BY DEF Outs
  <1>2. ASSUME NEW i \in 1 .. n
        PROVE  /\ mapped[i].out \in Seq(S) /\ Len(mapped[i].out) <= 1
               /\ mapped[i].out # <<>> <=> Single(mapped[i].out)
    <2>1. Range(mapped[i].out) \subseteq S
      OBVIOUS
    <2> HIDE DEF S
    <2>2. CASE mapped[i].out = <<>>
      BY <2>2 DEF Single
    <2>3. CASE Single(mapped[i].out)
      <3>1. PICK x : mapped[i].out = <<x>>
        BY <2>3 DEF Single
      <3>2. x \in S
        BY <2>1, <3>1 DEF Range
      <3> QED
        BY <2>3, <3>1, <3>2
    <2> QED
      BY <2>2, <2>3
  <1>3. s \in [1 .. n -> Seq(S)] /\ DOMAIN s = 1 .. n
    <2> HIDE DEF S
    <2> QED
      BY <1>2
  <1>4. s \in Seq(Seq(S)) /\ Len(s) = n
    <2> HIDE DEF s, S
    <2> QED
      BY <1>3
  <1>5. Brief(s, S)
    <2> HIDE DEF S
    <2> QED
      BY <1>2, <1>3, <1>4 DEF Brief
  <1> HIDE DEF s, S
  <1>6. PICK h : Places(h, t, s, n)
    BY <1>1, <1>4, <1>5, FlattenIs
  <1>7. t \in Seq(S) /\ Len(t) \in Nat
    BY <1>1, <1>5, FlattenIs
  <1>8. Full(s, n) = {i \in 1 .. n : Single(mapped[i].out)}
    BY <1>2 DEF Full, s
  <1>9. IsFiniteSet(1 .. Len(t)) /\ Cardinality(1 .. Len(t)) = Len(t)
    BY <1>7, UpToIs
  <1>10. Cardinality(Full(s, n)) = Len(t)
    <2>1. ExistsBijection(1 .. Len(t), Full(s, n))
      BY <1>6 DEF Places, ExistsBijection
    <2> QED
      BY <1>9, <2>1, FS_Bijection
  <1> QED
    BY <1>8, <1>10

\* A filter that is mapped without a warning is mapped whole.
LEMMA UnwarnedIsWhole ==
    ASSUME NEW f, IsFilter(f), ~mapLocalToRule(Projected(f, NoLoss)).warned
    PROVE  Whole(mapLocalToRule(Projected(f, NoLoss)).rule, f)
  <1> DEFINE g == Projected(f, NoLoss)
             terms == [i \in DOMAIN f.terms |-> mapTerm(f.terms[i])]
             actions == [i \in DOMAIN f.actions |-> mapAction(f.actions[i])]
             rule == mapLocalToRule(g).rule
  <1>1. /\ f.terms \in Seq(Range(f.terms)) /\ f.actions \in Seq(Range(f.actions))
        /\ DOMAIN f.terms = 1 .. Len(f.terms) /\ DOMAIN f.actions = 1 .. Len(f.actions)
        /\ Len(f.terms) \in Nat /\ Len(f.actions) \in Nat
    BY DEF IsFilter
  <1>2. g.terms = f.terms /\ g.actions = f.actions /\ g.matchAll = deduceMatchAll(f.terms)
    BY ProjectedIs
  <1> HIDE DEF g
  <1>3. /\ rule.conditions = Outs(terms) /\ rule.actions = Outs(actions)
        /\ rule.matchAll = deduceMatchAll(f.terms)
        /\ \A m \in Range(terms) \cup Range(actions) : ~m.warned
    BY <1>2 DEF mapLocalToRule, g
  <1>4. \A i \in 1 .. Len(f.terms) : Single(terms[i].out)
    <2> SUFFICES ASSUME NEW i \in 1 .. Len(f.terms)
                 PROVE  Single(terms[i].out)
      OBVIOUS
    <2>1. terms[i] \in Range(terms) /\ terms[i] = mapTerm(f.terms[i])
      BY <1>1 DEF Range
    <2> QED
      BY <1>3, <2>1, TermGives
  <1>5. Len(Outs(terms)) = Len(f.terms)
    <2>1. DOMAIN terms = 1 .. Len(f.terms)
      BY <1>1
    <2>2. {i \in 1 .. Len(f.terms) : Single(terms[i].out)} = 1 .. Len(f.terms)
      BY <1>4
    <2>3. Cardinality(1 .. Len(f.terms)) = Len(f.terms)
      BY <1>1, UpToIs
    <2> HIDE DEF terms
    <2> QED
      BY <1>1, <1>4, <2>1, <2>2, <2>3, OutsAre
  <1>6. \A i \in 1 .. Len(f.actions) :
           /\ Single(actions[i].out) \/ actions[i].out = <<>>
           /\ Single(actions[i].out) <=> f.actions[i].type # "StopExecution"
    <2> SUFFICES ASSUME NEW i \in 1 .. Len(f.actions)
                 PROVE  /\ Single(actions[i].out) \/ actions[i].out = <<>>
                        /\ Single(actions[i].out) <=> f.actions[i].type # "StopExecution"
      OBVIOUS
    <2>1. actions[i] \in Range(actions) /\ actions[i] = mapAction(f.actions[i])
      BY <1>1 DEF Range
    <2>2. ~Single(<<>>)
      BY DEF Single
    <2> QED
      BY <1>3, <2>1, <2>2, ActionGives
  <1>7. Len(Outs(actions)) = Cardinality({i \in DOMAIN f.actions : f.actions[i].type # "StopExecution"})
    <2>1. DOMAIN actions = 1 .. Len(f.actions)
      BY <1>1
    <2>2. {i \in 1 .. Len(f.actions) : Single(actions[i].out)} =
            {i \in DOMAIN f.actions : f.actions[i].type # "StopExecution"}
      BY <1>1, <1>6
    <2> HIDE DEF actions
    <2> QED
      BY <1>1, <1>6, <2>1, <2>2, OutsAre
  <1> QED
    BY <1>3, <1>5, <1>7 DEF Whole, g

\* The names of a list differ, and none is the one that a nameless filter is given.
Apart(list) ==
    /\ \A i, j \in DOMAIN list : list[i].name = list[j].name => i = j
    /\ \A i \in DOMAIN list : list[i].name # "(no name)"

ListOK(list) ==
    /\ list \in Seq(Range(list)) /\ \A i \in DOMAIN list : IsFilter(list[i])
    /\ Apart(list)

\* A row stands for its filter: a compatible one has the filter's own rule.
Stands(row, f) ==
    LET mapped == mapLocalToRule(Projected(f, NoLoss))
    IN  /\ row.name = f.name
        /\ row.compatible => row.rule = mapped.rule /\ (~row.warned => ~mapped.warned)

LEMMA RowStands ==
    ASSUME NEW there, ListOK(there), NEW i \in DOMAIN there,
           NEW list, list = [j \in DOMAIN there |-> Projected(there[j], NoLoss)]
    PROVE  Stands(Row(list, i), there[i])
  <1> DEFINE Of(j) == mapLocalToRule(list[j])
             named == {j \in DOMAIN list : Of(j).rule.name = list[i].name /\ ~Of(j).skipped}
             refused == \E j \in DOMAIN list : list[j].name = list[i].name /\ Of(j).skipped
             row == Row(list, i)
  <1>1. /\ row.name = list[i].name /\ row.compatible = (named # {} /\ ~refused)
        /\ row.rule = (IF named = {} THEN None
                       ELSE Of(CHOOSE j \in named : \A k \in named : k <= j).rule)
        /\ row.warned = \E j \in DOMAIN list : Of(j).rule.name = list[i].name /\ Of(j).warned
    BY DEF Row
  <1>2. DOMAIN list = DOMAIN there /\ \A j \in DOMAIN there : list[j] = Projected(there[j], NoLoss)
    OBVIOUS
  <1>3. \A j \in DOMAIN there : list[j].name = there[j].name
    BY <1>2 DEF Projected
  <1>4. ASSUME NEW j \in DOMAIN there
        PROVE  Of(j).rule.name = IF there[j].name = NoName THEN "(no name)" ELSE there[j].name
    BY <1>2, <1>3 DEF mapLocalToRule
  <1>5. DOMAIN there \subseteq Int
    BY DEF ListOK
  <1> HIDE DEF row
  <1> SUFFICES ASSUME row.compatible
               PROVE  /\ row.rule = Of(i).rule
                      /\ ~row.warned => ~Of(i).warned
    BY <1>1, <1>2, <1>3 DEF Stands, row
  <1>6. \A j \in named : j = i
    <2> SUFFICES ASSUME NEW j \in named
                 PROVE  j = i
      OBVIOUS
    <2>1. j \in DOMAIN there /\ Of(j).rule.name = there[i].name
      BY <1>2, <1>3
    <2>2. there[i].name # "(no name)"
      BY DEF ListOK, Apart
    <2>3. there[j].name = there[i].name
      <3> HIDE DEF Of
      <3> QED
        BY <1>4, <2>1, <2>2
    <2> QED
      BY <2>1, <2>3 DEF ListOK, Apart
  <1>7. named = {i}
    <2>1. named # {}
      <3> HIDE DEF named
      <3> QED
        BY <1>1
    <2> QED
      BY <1>6, <2>1
  <1>8. (CHOOSE j \in named : \A k \in named : k <= j) = i
    <2> HIDE DEF named
    <2> QED
      BY <1>5, <1>7
  <1>9. row.rule = Of(i).rule
    <2> HIDE DEF named, Of
    <2> QED
      BY <1>1, <1>7, <1>8
  <1>10. i \in DOMAIN list /\ Of(i).rule.name = list[i].name
    <2>1. i \in named
      BY <1>7
    <2> QED
      BY <2>1
  <1> QED
    <2> HIDE DEF Of, named, refused
    <2> QED
      BY <1>1, <1>9, <1>10

-----------------------------------------------------------------------------
\* t has elements of s, each in a place of its own.
Picked(t, s) ==
    /\ t \in Seq(Range(s))
    /\ \E h \in [DOMAIN t -> DOMAIN s] :
          /\ \A j, k \in DOMAIN t : h[j] = h[k] => j = k
          /\ \A k \in DOMAIN t : t[k] = s[h[k]]

LEMMA PickedIs ==
    ASSUME NEW s, NEW t, ListOK(s), Picked(t, s)
    PROVE  ListOK(t) /\ \A k \in DOMAIN t : t[k] \in Range(s)
  <1>1. PICK h \in [DOMAIN t -> DOMAIN s] :
            /\ \A j, k \in DOMAIN t : h[j] = h[k] => j = k
            /\ \A k \in DOMAIN t : t[k] = s[h[k]]
    BY DEF Picked
  <1>2. t \in Seq(Range(s)) /\ DOMAIN t = 1 .. Len(t) /\ Len(t) \in Nat
    BY DEF Picked
  <1>3. t \in Seq(Range(t))
    <2>1. \A k \in 1 .. Len(t) : t[k] \in Range(t)
      BY <1>2 DEF Range
    <2> QED
      BY <1>2, <2>1
  <1>4. \A k \in DOMAIN t : t[k] \in Range(s)
    BY <1>1 DEF Range
  <1>5. \A i, j \in DOMAIN s : s[i].name = s[j].name => i = j
    BY DEF ListOK, Apart
  <1>6. \A i \in DOMAIN s : s[i].name # "(no name)" /\ IsFilter(s[i])
    BY DEF ListOK, Apart
  <1>7. \A k \in DOMAIN t : h[k] \in DOMAIN s
    OBVIOUS
  <1>8. Apart(t)
    <2>1. ASSUME NEW j \in DOMAIN t, NEW k \in DOMAIN t, t[j].name = t[k].name
          PROVE  j = k
      <3>1. h[j] \in DOMAIN s /\ h[k] \in DOMAIN s /\ s[h[j]].name = s[h[k]].name
        BY <1>1, <1>7, <2>1
      <3>2. h[j] = h[k]
        BY <1>5, <3>1
      <3> QED
        BY <1>1, <3>2
    <2>2. ASSUME NEW k \in DOMAIN t
          PROVE  t[k].name # "(no name)"
      <3>1. h[k] \in DOMAIN s /\ t[k] = s[h[k]]
        BY <1>1, <1>7
      <3> QED
        BY <1>6, <3>1
    <2> QED
      BY <2>1, <2>2 DEF Apart
  <1>9. \A k \in DOMAIN t : IsFilter(t[k])
    BY <1>1, <1>6, <1>7
  <1> QED
    BY <1>3, <1>4, <1>8, <1>9 DEF ListOK

LEMMA RemovedIsPicked ==
    ASSUME NEW s, s \in Seq(Range(s)), NEW i \in DOMAIN s
    PROVE  Picked(RemoveAt(s, i), s)
  <1> DEFINE S == Range(s)
             n == Len(s)
             left == SubSeq(s, 1, i - 1)
             right == SubSeq(s, i + 1, n)
             t == left \o right
  <1>1. s \in Seq(S) /\ n \in Nat /\ i \in 1 .. n /\ DOMAIN s = 1 .. n
    OBVIOUS
  <1> HIDE DEF S, n
  <1>2. /\ left \in Seq(S) /\ Len(left) = i - 1
        /\ \A j \in 1 .. i - 1 : left[j] = s[j]
    BY <1>1, SubSeqProperties DEF n
  <1>3. /\ right \in Seq(S) /\ Len(right) = n - i
        /\ \A j \in 1 .. n - i : right[j] = s[i + j]
    BY <1>1, SubSeqProperties DEF n
  <1> HIDE DEF left, right
  <1>4. /\ t \in Seq(S) /\ Len(t) = Len(left) + Len(right)
        /\ \A j \in 1 .. Len(left) + Len(right) :
              t[j] = IF j <= Len(left) THEN left[j] ELSE right[j - Len(left)]
    BY <1>2, <1>3, ConcatProperties
  <1>5. /\ t \in Seq(S) /\ Len(t) = n - 1 /\ DOMAIN t = 1 .. n - 1
        /\ \A j \in 1 .. n - 1 : t[j] = IF j <= i - 1 THEN left[j] ELSE right[j - (i - 1)]
    <2> HIDE DEF t
    <2>1. Len(left) + Len(right) = n - 1
      BY <1>1, <1>2, <1>3
    <2> QED
      BY <1>2, <1>4, <2>1
  <1> DEFINE at(j) == IF j <= i - 1 THEN j ELSE j + 1
             h == [j \in 1 .. n - 1 |-> at(j)]
  <1>6. ASSUME NEW j \in 1 .. n - 1
        PROVE  at(j) \in 1 .. n /\ t[j] = s[at(j)]
    <2>1. CASE j <= i - 1
      BY <1>1, <1>2, <1>5, <2>1
    <2>2. CASE ~(j <= i - 1)
      <3>1. j - (i - 1) \in 1 .. n - i /\ i + (j - (i - 1)) = j + 1 /\ j + 1 \in 1 .. n
        BY <1>1, <2>2
      <3>2. right[j - (i - 1)] = s[i + (j - (i - 1))]
        BY <1>3, <3>1
      <3> QED
        BY <1>5, <2>2, <3>1, <3>2
    <2> QED
      BY <2>1, <2>2
  <1>7. ASSUME NEW j \in 1 .. n - 1, NEW k \in 1 .. n - 1, at(j) = at(k)
        PROVE  j = k
    BY <1>1, <1>7
  <1>8. h \in [1 .. n - 1 -> 1 .. n] /\ \A j \in 1 .. n - 1 : h[j] = at(j)
    BY <1>6
  <1>9. RemoveAt(s, i) = t
    BY DEF RemoveAt, left, right, n
  <1> HIDE DEF t, h, at
  <1>10. /\ h \in [DOMAIN t -> DOMAIN s]
         /\ \A j, k \in DOMAIN t : h[j] = h[k] => j = k
         /\ \A k \in DOMAIN t : t[k] = s[h[k]]
    BY <1>1, <1>5, <1>6, <1>7, <1>8
  <1> QED
    BY <1>5, <1>9, <1>10 DEF Picked, S

LEMMA KeptIsPicked ==
    ASSUME NEW s, s \in Seq(Range(s)), NEW batch
    PROVE  Picked(Kept(s, batch), s)
  <1> DEFINE S == Range(s)
             n == Len(s)
             pieces == [i \in 1 .. n |-> IF Wanted(batch, s[i].name) THEN <<>> ELSE <<s[i]>>]
             t == Kept(s, batch)
  <1>1. s \in Seq(S) /\ n \in Nat /\ DOMAIN s = 1 .. n /\ \A i \in 1 .. n : s[i] \in S
    OBVIOUS
  <1>2. t = FlattenSeq(pieces)
    BY <1>1 DEF Kept
  <1> HIDE DEF S, n, t
  <1>3. ASSUME NEW i \in 1 .. n
        PROVE  pieces[i] \in Seq(S) /\ Len(pieces[i]) <= 1
    <2>1. pieces[i] = <<>> \/ pieces[i] = <<s[i]>>
      OBVIOUS
    <2> HIDE DEF pieces
    <2>2. CASE pieces[i] = <<>>
      BY <2>2
    <2>3. CASE pieces[i] = <<s[i]>>
      BY <1>1, <2>3
    <2> QED
      BY <2>1, <2>2, <2>3
  <1>4. pieces \in [1 .. n -> Seq(S)] /\ DOMAIN pieces = 1 .. n
    BY <1>3
  <1>5. \A i \in 1 .. n : pieces[i] # <<>> => pieces[i][1] = s[i]
    OBVIOUS
  <1> HIDE DEF pieces
  <1>6. pieces \in Seq(Seq(S)) /\ Len(pieces) = n
    BY <1>1, <1>4
  <1>7. Brief(pieces, S)
    BY <1>3, <1>4, <1>6 DEF Brief
  <1>8. t \in Seq(S) /\ \E h : Places(h, t, pieces, n)
    BY <1>2, <1>6, <1>7, FlattenIs
  <1>9. PICK h : Places(h, t, pieces, n)
    BY <1>8
  <1>10. /\ h \in [1 .. Len(t) -> Full(pieces, n)]
         /\ \A j, k \in 1 .. Len(t) : h[j] = h[k] => j = k
         /\ \A k \in 1 .. Len(t) : t[k] = pieces[h[k]][1]
    BY <1>9 DEF Places, Bijection, Injection, IsInjective
  <1>11. Full(pieces, n) \subseteq 1 .. n /\ \A j \in Full(pieces, n) : pieces[j][1] = s[j]
    BY <1>5 DEF Full
  <1>12. DOMAIN t = 1 .. Len(t)
    BY <1>8
  <1>13. h \in [DOMAIN t -> DOMAIN s]
    BY <1>1, <1>10, <1>11, <1>12
  <1>14. \A k \in DOMAIN t : t[k] = s[h[k]]
    BY <1>10, <1>11, <1>12
  <1>15. \A j, k \in DOMAIN t : h[j] = h[k] => j = k
    BY <1>10, <1>12
  <1> QED
    BY <1>8, <1>13, <1>14, <1>15 DEF Picked, t, S

LEMMA SeqHas ==
    ASSUME NEW R, NEW s \in Seq(R)
    PROVE  DOMAIN s = 1 .. Len(s) /\ Len(s) \in Nat
  OBVIOUS

LEMMA SeqIs ==
    ASSUME NEW R, NEW n \in Nat, NEW g \in [1 .. n -> R]
    PROVE  g \in Seq(R)
  OBVIOUS

LEMMA NewName ==
    ASSUME NEW e, IsFilter(e), NEW name
    PROVE  LET f == [e EXCEPT !.name = name] IN IsFilter(f) /\ f.name = name
  <1> DEFINE f == [e EXCEPT !.name = name]
  <1>1. /\ e = [name |-> e.name, enabled |-> e.enabled, terms |-> e.terms, actions |-> e.actions]
        /\ e.terms \in Seq(Range(e.terms)) /\ e.actions \in Seq(Range(e.actions))
    BY DEF IsFilter
  <1>2. f = [name |-> name, enabled |-> e.enabled, terms |-> e.terms, actions |-> e.actions]
    BY <1>1
  <1> HIDE DEF f
  <1>3. f.name = name /\ f.enabled = e.enabled /\ f.terms = e.terms /\ f.actions = e.actions
    BY <1>2
  <1> QED
    BY <1>1, <1>2, <1>3 DEF IsFilter, f

\* Renaming leaves a list whose names differ.
LEMMA RenamedIs ==
    ASSUME NEW s, ListOK(s), NEW i \in DOMAIN s, FreshName # "(no name)",
           \A f \in Range(s) : Lower[f.name] # Lower[FreshName]
    PROVE  LET t == [s EXCEPT ![i].name = FreshName]
           IN  /\ ListOK(t) /\ DOMAIN t = DOMAIN s /\ t[i].name = FreshName
               /\ \A k \in DOMAIN s : k # i => t[k] = s[k]
  <1> DEFINE f == [s[i] EXCEPT !.name = FreshName]
             t == [s EXCEPT ![i].name = FreshName]
  <1>1. /\ s \in Seq(Range(s)) /\ DOMAIN s = 1 .. Len(s) /\ Len(s) \in Nat
        /\ \A k \in DOMAIN s : IsFilter(s[k])
    <2>1. s \in Seq(Range(s)) /\ \A k \in DOMAIN s : IsFilter(s[k])
      BY DEF ListOK
    <2> QED
      BY <2>1, SeqHas
  <1>2. DOMAIN t = DOMAIN s /\ t[i] = f /\ \A k \in DOMAIN s : k # i => t[k] = s[k]
    BY <1>1
  <1>3. IsFilter(f) /\ f.name = FreshName
    <2>1. IsFilter(s[i])
      BY <1>1
    <2> QED
      BY <2>1, NewName
  <1> HIDE DEF f, t
  <1>4. t = [k \in 1 .. Len(s) |-> t[k]]
    BY <1>1, <1>2 DEF t
  <1>5. t \in Seq(Range(t))
    <2> DEFINE n == Len(s)
               R == Range(t)
    <2>1. \A k \in 1 .. n : t[k] \in R
      BY <1>1, <1>2 DEF Range
    <2>2. n \in Nat /\ t = [k \in 1 .. n |-> t[k]]
      BY <1>1, <1>4
    <2> HIDE DEF n, R
    <2>3. t \in [1 .. n -> R]
      BY <2>1, <2>2
    <2>4. t \in Seq(R)
      BY <2>2, <2>3, SeqIs
    <2> QED
      BY <2>4 DEF R
  <1>6. \A k \in DOMAIN s : IsFilter(t[k])
    BY <1>1, <1>2, <1>3
  <1>7. \A k \in DOMAIN s : s[k].name # FreshName
    BY DEF Range
  <1>8. Apart(t)
    <2>1. /\ \A j, k \in DOMAIN s : s[j].name = s[k].name => j = k
          /\ \A k \in DOMAIN s : s[k].name # "(no name)"
      BY DEF ListOK, Apart
    <2>2. \A k \in DOMAIN s : t[k].name = IF k = i THEN FreshName ELSE s[k].name
      BY <1>2, <1>3
    <2> QED
      BY <1>2, <1>7, <2>1, <2>2 DEF Apart
  <1> QED
    BY <1>2, <1>3, <1>5, <1>6, <1>8 DEF ListOK, t

-----------------------------------------------------------------------------
(***************************************************************************)
(* The openings of the dialog.                                             *)
(***************************************************************************)
Ruled(f) == mapLocalToRule(Projected(f, NoLoss)).rule

RowShape(r) ==
    r = [filter |-> r.filter, name |-> r.name, compatible |-> r.compatible, rule |-> r.rule,
         warned |-> r.warned, checked |-> r.checked]

\* The row of the i-th filter listed.
RowOf(r, there, i) ==
    /\ RowShape(r)
    /\ i \in DOMAIN there /\ IsFilter(there[i]) /\ r.filter = i /\ Stands(r, there[i])
    /\ r.checked => r.compatible

RowsOK(rows, there) ==
    /\ rows = [i \in DOMAIN rows |-> rows[i]]
    /\ \A i \in DOMAIN rows : RowOf(rows[i], there, i)

BatchOK(batch, there) ==
    \A r \in batch : \E i \in DOMAIN there : r.name = there[i].name /\ r.rule = Ruled(there[i])

OpeningShape(p) ==
    p = [pc |-> p.pc, account |-> p.account, listed |-> p.listed, rows |-> p.rows,
         batch |-> p.batch, cleanup |-> p.cleanup, settled |-> p.settled]

OpeningOK(p) ==
    /\ OpeningShape(p)
    /\ IF p.pc = "idle" THEN p.rows = <<>> ELSE p.account \in Account
    /\ p.pc = "listing" => p.batch = {}
    /\ RowsOK(p.rows, p.listed) /\ BatchOK(p.batch, p.listed)

OnOpenings(op) == op = [o \in Opening |-> op[o]]

\* Of the openings only o may differ.
OneMoves(new, op, o) ==
    /\ OnOpenings(new)
    /\ \A q \in Opening : q # o => new[q] = op[q]

\* Of an opening only what it does next, the cleanup and that it is settled.
GoesOn(new, p) ==
    new = [pc |-> new.pc, account |-> p.account, listed |-> p.listed, rows |-> p.rows,
           batch |-> p.batch, cleanup |-> new.cleanup, settled |-> new.settled]

LEMMA GoesOnIs ==
    ASSUME NEW p, NEW new, OpeningOK(p), GoesOn(new, p), p.pc # "idle",
           new.pc # "idle", new.pc # "listing"
    PROVE  /\ OpeningOK(new) /\ new.account = p.account /\ new.listed = p.listed
           /\ new.rows = p.rows /\ new.batch = p.batch
  <1>1. /\ new.account = p.account /\ new.listed = p.listed
        /\ new.rows = p.rows /\ new.batch = p.batch
    BY DEF GoesOn
  <1>2. OpeningShape(new)
    BY <1>1 DEF GoesOn, OpeningShape
  <1>3. p.account \in Account /\ RowsOK(p.rows, p.listed) /\ BatchOK(p.batch, p.listed)
    BY DEF OpeningOK
  <1> QED
    BY <1>1, <1>2, <1>3 DEF OpeningOK

\* The three ways to write an opening that goes on.
LEMMA PcWritten ==
    ASSUME NEW op, OnOpenings(op), NEW o \in Opening, OpeningShape(op[o]), NEW v
    PROVE  LET new == [op EXCEPT ![o].pc = v]
           IN  OneMoves(new, op, o) /\ GoesOn(new[o], op[o]) /\ new[o].pc = v
  <1> DEFINE p == op[o]
             q == [p EXCEPT !.pc = v]
             new == [op EXCEPT ![o].pc = v]
  <1>1. new[o] = q /\ OnOpenings(new) /\ \A x \in Opening : x # o => new[x] = op[x]
    BY DEF OnOpenings
  <1> HIDE DEF new
  <1>2. q = [pc |-> v, account |-> p.account, listed |-> p.listed, rows |-> p.rows,
             batch |-> p.batch, cleanup |-> p.cleanup, settled |-> p.settled]
    <2> HIDE DEF p
    <2> QED
      BY DEF OpeningShape, p
  <1> HIDE DEF p, q
  <1>3. q.pc = v /\ GoesOn(q, p)
    BY <1>2 DEF GoesOn
  <1> QED
    BY <1>1, <1>3 DEF OneMoves, p, new

LEMMA BothWritten ==
    ASSUME NEW p, OpeningShape(p), NEW v, NEW w
    PROVE  [p EXCEPT !.pc = v, !.settled = w] =
             [pc |-> v, account |-> p.account, listed |-> p.listed, rows |-> p.rows,
              batch |-> p.batch, cleanup |-> p.cleanup, settled |-> w]
  <1>1. p = [pc |-> p.pc, account |-> p.account, listed |-> p.listed, rows |-> p.rows,
             batch |-> p.batch, cleanup |-> p.cleanup, settled |-> p.settled]
    BY DEF OpeningShape
  <1> DEFINE r == [p EXCEPT !.pc = v]
  <1>2. r = [pc |-> v, account |-> p.account, listed |-> p.listed, rows |-> p.rows,
             batch |-> p.batch, cleanup |-> p.cleanup, settled |-> p.settled]
    BY <1>1
  <1>3. [r EXCEPT !.settled = w] =
          [pc |-> v, account |-> p.account, listed |-> p.listed, rows |-> p.rows,
           batch |-> p.batch, cleanup |-> p.cleanup, settled |-> w]
    <2> HIDE DEF r
    <2> QED
      BY <1>2
  <1>4. [p EXCEPT !.pc = v, !.settled = w] = [r EXCEPT !.settled = w]
    OBVIOUS
  <1> QED
    BY <1>3, <1>4

EndedAs(op, o, v, w) == [op EXCEPT ![o].pc = v, ![o].settled = w]

LEMMA PcAndSettledWritten ==
    ASSUME NEW op, OnOpenings(op), NEW o \in Opening, OpeningShape(op[o]), NEW v, NEW w
    PROVE  LET new == EndedAs(op, o, v, w)
           IN  OneMoves(new, op, o) /\ GoesOn(new[o], op[o]) /\ new[o].pc = v
  <1> DEFINE p == op[o]
             q == [p EXCEPT !.pc = v, !.settled = w]
             new == EndedAs(op, o, v, w)
  <1>1. new[o] = q /\ OnOpenings(new) /\ \A x \in Opening : x # o => new[x] = op[x]
    BY DEF OnOpenings, EndedAs
  <1> HIDE DEF new
  <1>2. q = [pc |-> v, account |-> p.account, listed |-> p.listed, rows |-> p.rows,
             batch |-> p.batch, cleanup |-> p.cleanup, settled |-> w]
    BY BothWritten
  <1> HIDE DEF p, q
  <1>3. q.pc = v /\ GoesOn(q, p)
    BY <1>2 DEF GoesOn
  <1> QED
    BY <1>1, <1>3 DEF OneMoves, p, new

LEMMA SettledWritten ==
    ASSUME NEW p, OpeningShape(p), NEW w
    PROVE  LET new == [p EXCEPT !.settled = w] IN GoesOn(new, p) /\ new.pc = p.pc
  <1> DEFINE q == [p EXCEPT !.settled = w]
  <1>0. p = [pc |-> p.pc, account |-> p.account, listed |-> p.listed, rows |-> p.rows,
             batch |-> p.batch, cleanup |-> p.cleanup, settled |-> p.settled]
    BY DEF OpeningShape
  <1>1. q = [pc |-> p.pc, account |-> p.account, listed |-> p.listed, rows |-> p.rows,
             batch |-> p.batch, cleanup |-> p.cleanup, settled |-> w]
    BY <1>0
  <1> HIDE DEF q
  <1>2. q.pc = p.pc /\ GoesOn(q, p)
    BY <1>1 DEF GoesOn
  <1> QED
    BY <1>2 DEF q

OpenedFor(op, o, v, a) == [op EXCEPT ![o].pc = v, ![o].account = a]

LEMMA OpenedIs ==
    ASSUME NEW op, OnOpenings(op), NEW o \in Opening, OpeningShape(op[o]), NEW v, NEW a
    PROVE  LET new == OpenedFor(op, o, v, a)
               p == op[o]
           IN  /\ OneMoves(new, op, o)
               /\ new[o] = [pc |-> v, account |-> a, listed |-> p.listed, rows |-> p.rows,
                            batch |-> p.batch, cleanup |-> p.cleanup, settled |-> p.settled]
  <1> DEFINE p == op[o]
             new == OpenedFor(op, o, v, a)
             p1 == [p EXCEPT !.pc = v]
             p2 == [p1 EXCEPT !.account = a]
  <1>1. new[o] = p2 /\ OnOpenings(new) /\ \A x \in Opening : x # o => new[x] = op[x]
    BY DEF OnOpenings, OpenedFor
  <1> HIDE DEF new
  <1>2. p = [pc |-> p.pc, account |-> p.account, listed |-> p.listed, rows |-> p.rows,
             batch |-> p.batch, cleanup |-> p.cleanup, settled |-> p.settled]
    BY DEF OpeningShape
  <1> HIDE DEF p
  <1>3. p1 = [pc |-> v, account |-> p.account, listed |-> p.listed, rows |-> p.rows,
              batch |-> p.batch, cleanup |-> p.cleanup, settled |-> p.settled]
    BY <1>2
  <1> HIDE DEF p1
  <1>4. p2 = [pc |-> v, account |-> a, listed |-> p.listed, rows |-> p.rows,
              batch |-> p.batch, cleanup |-> p.cleanup, settled |-> p.settled]
    BY <1>3
  <1> HIDE DEF p2
  <1> QED
    BY <1>1, <1>4 DEF OneMoves, p, new

ShownWith(op, o, v, there, rows) == [op EXCEPT ![o].pc = v, ![o].listed = there, ![o].rows = rows]

LEMMA ListedIs ==
    ASSUME NEW op, OnOpenings(op), NEW o \in Opening, OpeningShape(op[o]), NEW v, NEW there, NEW rows
    PROVE  LET new == ShownWith(op, o, v, there, rows)
               p == op[o]
           IN  /\ OneMoves(new, op, o)
               /\ new[o] = [pc |-> v, account |-> p.account, listed |-> there, rows |-> rows,
                            batch |-> p.batch, cleanup |-> p.cleanup, settled |-> p.settled]
  <1> DEFINE p == op[o]
             new == ShownWith(op, o, v, there, rows)
             p1 == [p EXCEPT !.pc = v]
             p2 == [p1 EXCEPT !.listed = there]
             p3 == [p2 EXCEPT !.rows = rows]
  <1>1. new[o] = p3 /\ OnOpenings(new) /\ \A x \in Opening : x # o => new[x] = op[x]
    BY DEF OnOpenings, ShownWith
  <1> HIDE DEF new
  <1>2. p = [pc |-> p.pc, account |-> p.account, listed |-> p.listed, rows |-> p.rows,
             batch |-> p.batch, cleanup |-> p.cleanup, settled |-> p.settled]
    BY DEF OpeningShape
  <1> HIDE DEF p
  <1>3. p1 = [pc |-> v, account |-> p.account, listed |-> p.listed, rows |-> p.rows,
              batch |-> p.batch, cleanup |-> p.cleanup, settled |-> p.settled]
    BY <1>2
  <1> HIDE DEF p1
  <1>4. p2 = [pc |-> v, account |-> p.account, listed |-> there, rows |-> p.rows,
              batch |-> p.batch, cleanup |-> p.cleanup, settled |-> p.settled]
    BY <1>3
  <1> HIDE DEF p2
  <1>5. p3 = [pc |-> v, account |-> p.account, listed |-> there, rows |-> rows,
              batch |-> p.batch, cleanup |-> p.cleanup, settled |-> p.settled]
    BY <1>4
  <1> HIDE DEF p3
  <1> QED
    BY <1>1, <1>5 DEF OneMoves, p, new

SentWith(op, o, v, b, w) == [op EXCEPT ![o].pc = v, ![o].batch = b, ![o].cleanup = w]

LEMMA ConfirmedIs ==
    ASSUME NEW op, OnOpenings(op), NEW o \in Opening, OpeningShape(op[o]), NEW v, NEW b, NEW w
    PROVE  LET new == SentWith(op, o, v, b, w)
               p == op[o]
           IN  /\ OneMoves(new, op, o)
               /\ new[o] = [pc |-> v, account |-> p.account, listed |-> p.listed, rows |-> p.rows,
                            batch |-> b, cleanup |-> w, settled |-> p.settled]
  <1> DEFINE p == op[o]
             new == SentWith(op, o, v, b, w)
             p1 == [p EXCEPT !.pc = v]
             p2 == [p1 EXCEPT !.batch = b]
             p3 == [p2 EXCEPT !.cleanup = w]
  <1>1. new[o] = p3 /\ OnOpenings(new) /\ \A x \in Opening : x # o => new[x] = op[x]
    BY DEF OnOpenings, SentWith
  <1> HIDE DEF new
  <1>2. p = [pc |-> p.pc, account |-> p.account, listed |-> p.listed, rows |-> p.rows,
             batch |-> p.batch, cleanup |-> p.cleanup, settled |-> p.settled]
    BY DEF OpeningShape
  <1> HIDE DEF p
  <1>3. p1 = [pc |-> v, account |-> p.account, listed |-> p.listed, rows |-> p.rows,
              batch |-> p.batch, cleanup |-> p.cleanup, settled |-> p.settled]
    BY <1>2
  <1> HIDE DEF p1
  <1>4. p2 = [pc |-> v, account |-> p.account, listed |-> p.listed, rows |-> p.rows,
              batch |-> b, cleanup |-> p.cleanup, settled |-> p.settled]
    BY <1>3
  <1> HIDE DEF p2
  <1>5. p3 = [pc |-> v, account |-> p.account, listed |-> p.listed, rows |-> p.rows,
              batch |-> b, cleanup |-> w, settled |-> p.settled]
    BY <1>4
  <1> HIDE DEF p3
  <1> QED
    BY <1>1, <1>5 DEF OneMoves, p, new

CheckedAs(op, o, i, v) == [op EXCEPT ![o].rows[i].checked = v]

LEMMA CheckedIs ==
    ASSUME NEW op, OnOpenings(op), NEW o \in Opening, OpeningOK(op[o]),
           NEW i \in DOMAIN op[o].rows, NEW v, v => op[o].rows[i].compatible
    PROVE  LET new == CheckedAs(op, o, i, v)
               p == op[o]
           IN  /\ OneMoves(new, op, o) /\ OpeningOK(new[o])
               /\ new[o].pc = p.pc /\ new[o].account = p.account /\ new[o].listed = p.listed
               /\ new[o].batch = p.batch
  <1> DEFINE p == op[o]
             r == p.rows[i]
             row == [r EXCEPT !.checked = v]
             rows == [p.rows EXCEPT ![i] = row]
             q == [p EXCEPT !.rows = rows]
             new == CheckedAs(op, o, i, v)
  <1>1. new[o] = q /\ OnOpenings(new) /\ \A x \in Opening : x # o => new[x] = op[x]
    BY DEF OnOpenings, CheckedAs
  <1> HIDE DEF new
  <1>2. p = [pc |-> p.pc, account |-> p.account, listed |-> p.listed, rows |-> p.rows,
             batch |-> p.batch, cleanup |-> p.cleanup, settled |-> p.settled]
    BY DEF OpeningOK, OpeningShape
  <1>3. /\ IF p.pc = "idle" THEN p.rows = <<>> ELSE p.account \in Account
        /\ p.pc = "listing" => p.batch = {}
        /\ RowsOK(p.rows, p.listed) /\ BatchOK(p.batch, p.listed)
    BY DEF OpeningOK
  <1>4. i \in DOMAIN p.rows /\ (v => r.compatible)
    OBVIOUS
  <1> HIDE DEF p
  <1>5. /\ p.rows = [k \in DOMAIN p.rows |-> p.rows[k]]
        /\ \A k \in DOMAIN p.rows : RowOf(p.rows[k], p.listed, k)
    BY <1>3 DEF RowsOK
  <1>6. rows = [k \in DOMAIN p.rows |-> IF k = i THEN row ELSE p.rows[k]]
    BY <1>4, <1>5
  <1>7. RowOf(r, p.listed, i)
    BY <1>4, <1>5
  <1> HIDE DEF r, rows
  <1>8. r = [filter |-> r.filter, name |-> r.name, compatible |-> r.compatible, rule |-> r.rule,
             warned |-> r.warned, checked |-> r.checked]
    BY <1>7 DEF RowOf, RowShape
  <1>9. row = [filter |-> r.filter, name |-> r.name, compatible |-> r.compatible, rule |-> r.rule,
               warned |-> r.warned, checked |-> v]
    BY <1>8
  <1> HIDE DEF row
  <1>10. RowOf(row, p.listed, i)
    BY <1>4, <1>7, <1>9 DEF RowOf, RowShape, Stands
  <1>11. RowsOK(rows, p.listed)
    BY <1>5, <1>6, <1>10 DEF RowsOK
  <1>12. q = [pc |-> p.pc, account |-> p.account, listed |-> p.listed, rows |-> rows,
              batch |-> p.batch, cleanup |-> p.cleanup, settled |-> p.settled]
    BY <1>2
  <1> HIDE DEF q
  <1>13. /\ OpeningOK(q) /\ q.pc = p.pc /\ q.account = p.account /\ q.listed = p.listed
         /\ q.batch = p.batch
    <2>1. /\ q.pc = p.pc /\ q.account = p.account /\ q.listed = p.listed
          /\ q.batch = p.batch /\ q.rows = rows
      BY <1>12
    <2>2. OpeningShape(q)
      BY <1>12, <2>1 DEF OpeningShape
    <2> QED
      BY <1>3, <1>4, <1>11, <2>1, <2>2 DEF OpeningOK
  <1> QED
    BY <1>1, <1>13 DEF OneMoves, p, new

LEMMA FromFields ==
    ASSUME NEW p, NEW v, NEW a \in Account, NEW there, NEW rows, NEW batch, NEW w, NEW z,
           p = [pc |-> v, account |-> a, listed |-> there, rows |-> rows,
                batch |-> batch, cleanup |-> w, settled |-> z],
           v # "idle", v = "listing" => batch = {}, RowsOK(rows, there), BatchOK(batch, there)
    PROVE  /\ OpeningOK(p) /\ p.pc = v /\ p.account = a /\ p.listed = there /\ p.batch = batch
  <1>1. p.pc = v /\ p.account = a /\ p.listed = there /\ p.rows = rows /\ p.batch = batch
        /\ p.cleanup = w /\ p.settled = z
    OBVIOUS
  <1>2. OpeningShape(p)
    BY <1>1 DEF OpeningShape
  <1> QED
    BY <1>1, <1>2 DEF OpeningOK

LEMMA RowsAreOK ==
    ASSUME NEW there, ListOK(there), NEW list, NEW rows,
           list = [i \in DOMAIN there |-> Projected(there[i], NoLoss)],
           rows = [i \in DOMAIN list |-> Row(list, i)]
    PROVE  RowsOK(rows, there)
  <1>1. /\ DOMAIN rows = DOMAIN there /\ rows = [i \in DOMAIN rows |-> rows[i]]
        /\ \A i \in DOMAIN there : rows[i] = Row(list, i)
    OBVIOUS
  <1>2. ASSUME NEW i \in DOMAIN there
        PROVE  RowOf(rows[i], there, i)
    <2> DEFINE r == Row(list, i)
    <2>1. RowShape(r) /\ r.filter = i /\ r.checked = FALSE
      BY DEF Row, RowShape
    <2>2. Stands(r, there[i])
      BY RowStands
    <2>3. IsFilter(there[i])
      BY DEF ListOK
    <2> HIDE DEF r
    <2>4. RowOf(r, there, i)
      BY <2>1, <2>2, <2>3 DEF RowOf
    <2> QED
      BY <1>1, <2>4 DEF r
  <1> QED
    BY <1>1, <1>2 DEF RowsOK

LEMMA CheckedRowsAreOK ==
    ASSUME NEW p, OpeningOK(p)
    PROVE  BatchOK({r \in Range(p.rows) : r.checked}, p.listed)
  <1> SUFFICES ASSUME NEW r \in Range(p.rows), r.checked
               PROVE  \E i \in DOMAIN p.listed :
                         r.name = p.listed[i].name /\ r.rule = Ruled(p.listed[i])
    BY DEF BatchOK
  <1>1. PICK i \in DOMAIN p.rows : r = p.rows[i]
    BY DEF Range
  <1>2. RowOf(r, p.listed, i)
    BY <1>1 DEF OpeningOK, RowsOK
  <1> QED
    BY <1>2 DEF RowOf, Stands, Ruled

-----------------------------------------------------------------------------
(***************************************************************************)
(* The invariant of the import when all of a filter can be read: lists and *)
(* openings have their shape, and every row stands for its filter.         *)
(***************************************************************************)
ImportOK ==
    /\ filters = [a \in Account |-> filters[a]] /\ \A a \in Account : ListOK(filters[a])
    /\ OnOpenings(opening) /\ \A o \in Opening : OpeningOK(opening[o])
    /\ unread = 0

\* A step of o that leaves what o has listed and what it was to import.
Carries(o) ==
    /\ OneMoves(opening', opening, o) /\ OpeningOK(opening'[o])
    /\ opening'[o].account = opening[o].account /\ opening'[o].listed = opening[o].listed
    /\ opening'[o].batch = opening[o].batch

LEMMA PcWrittenCarries ==
    ASSUME ImportOK, NEW o \in Opening, NEW v, v # "listing", v # "idle", opening[o].pc # "idle",
           opening' = [opening EXCEPT ![o].pc = v]
    PROVE  Carries(o) /\ opening'[o].pc = v
  <1>1. OnOpenings(opening) /\ OpeningOK(opening[o]) /\ OpeningShape(opening[o])
    BY DEF ImportOK, OpeningOK
  <1>2. OneMoves(opening', opening, o) /\ GoesOn(opening'[o], opening[o]) /\ opening'[o].pc = v
    BY <1>1, PcWritten
  <1> QED
    BY <1>1, <1>2, GoesOnIs DEF Carries

LEMMA FinishCarries ==
    ASSUME ImportOK, NEW o \in Opening, opening[o].pc # "idle", Finish(o)
    PROVE  Carries(o) /\ opening'[o].pc = "done"
  <1>1. OnOpenings(opening) /\ OpeningOK(opening[o]) /\ OpeningShape(opening[o])
    BY DEF ImportOK, OpeningOK
  <1> DEFINE v == "done"
             w == TRUE
  <1>2. opening' = EndedAs(opening, o, v, w) /\ v # "listing" /\ v # "idle"
    BY DEF Finish, EndedAs
  <1> HIDE DEF v, w
  <1>3. OneMoves(opening', opening, o) /\ GoesOn(opening'[o], opening[o]) /\ opening'[o].pc = v
    BY <1>1, <1>2, PcAndSettledWritten
  <1>4. Carries(o)
    BY <1>1, <1>2, <1>3, GoesOnIs DEF Carries
  <1> QED
    BY <1>3, <1>4 DEF v

\* What every step does to the opening that takes it.
Acting(o) ==
    \/ NothingListed(o)
    \/ \E i \in DOMAIN opening[o].rows : Check(o, i)
    \/ Green(o) \/ Refused(o) \/ CleanedUp(o) \/ CleanupFailed(o)

LEMMA ActingCarries ==
    ASSUME ImportOK, NEW o \in Opening, Acting(o)
    PROVE  /\ Carries(o)
           /\ opening'[o].pc = "deleting" => opening[o].pc = "deleting" \/ Green(o)
           /\ opening[o].pc # "idle"
  <1>1. CASE NothingListed(o)
    <2>1. opening[o].pc = "listing" /\ opening' = [opening EXCEPT ![o].pc = "done"]
      BY <1>1 DEF NothingListed
    <2>2. Carries(o) /\ opening'[o].pc = "done"
      BY <2>1, PcWrittenCarries
    <2> QED
      BY <2>1, <2>2
  <1>2. CASE \E i \in DOMAIN opening[o].rows : Check(o, i)
    <2>1. PICK i \in DOMAIN opening[o].rows : Check(o, i)
      BY <1>2
    <2> DEFINE v == ~opening[o].rows[i].checked
    <2>2. opening' = CheckedAs(opening, o, i, v) /\ opening[o].rows[i].compatible
      BY <2>1 DEF Check, CheckedAs
    <2>3. OnOpenings(opening) /\ OpeningOK(opening[o])
      BY DEF ImportOK
    <2>4. v => opening[o].rows[i].compatible
      BY <2>2
    <2> HIDE DEF v
    <2>5. /\ OneMoves(opening', opening, o) /\ OpeningOK(opening'[o])
          /\ opening'[o].pc = opening[o].pc /\ opening'[o].account = opening[o].account
          /\ opening'[o].listed = opening[o].listed /\ opening'[o].batch = opening[o].batch
      BY <2>2, <2>3, <2>4, CheckedIs
    <2>6. opening[o].pc # "idle"
      <3> DEFINE p == opening[o]
      <3> HIDE DEF p
      <3>1. i \in DOMAIN p.rows
        BY DEF p
      <3>2. p.rows # <<>>
        BY <3>1
      <3> QED
        BY <2>3, <3>2 DEF OpeningOK, p
    <2> QED
      BY <2>5, <2>6 DEF Carries
  <1>3. CASE Green(o)
    <2>1. opening[o].pc = "importing"
          /\ (opening' = [opening EXCEPT ![o].pc = "deleting"] \/ Finish(o))
      BY <1>3 DEF Green
    <2>2. CASE opening' = [opening EXCEPT ![o].pc = "deleting"]
      <3>1. Carries(o) /\ opening'[o].pc = "deleting"
        BY <2>1, <2>2, PcWrittenCarries
      <3> QED
        BY <1>3, <2>1, <3>1
    <2>3. CASE Finish(o)
      BY <2>1, <2>3, FinishCarries
    <2> QED
      BY <2>1, <2>2, <2>3
  <1>4. CASE Refused(o)
    BY <1>4, PcWrittenCarries DEF Refused
  <1>5. CASE CleanedUp(o)
    BY <1>5, FinishCarries DEF CleanedUp
  <1>6. CASE CleanupFailed(o)
    BY <1>6, FinishCarries DEF CleanupFailed
  <1> QED
    BY <1>1, <1>2, <1>3, <1>4, <1>5, <1>6 DEF Acting

-----------------------------------------------------------------------------
LEMMA OpensOne ==
    ASSUME ImportOK, NEW o \in Opening, NEW a \in Account, OpenImport(o, a)
    PROVE  /\ OneMoves(opening', opening, o) /\ OpeningOK(opening'[o])
           /\ opening[o].pc = "idle" /\ opening'[o].pc = "listing" /\ opening'[o].account = a
           /\ opening'[o].listed = <<>> /\ opening'[o].batch = {}
  <1>1. OnOpenings(opening) /\ OpeningShape(opening[o])
    BY DEF ImportOK, OpeningOK
  <1> DEFINE v == "listing"
  <1>2. opening' = OpenedFor(opening, o, v, a)
    BY DEF OpenImport, OpenedFor
  <1>3. /\ opening[o].listed = <<>> /\ opening[o].rows = <<>> /\ opening[o].batch = {}
        /\ opening[o].pc = "idle"
    BY DEF OpenImport, Closed
  <1>4. RowsOK(<<>>, <<>>) /\ BatchOK({}, <<>>)
    BY DEF RowsOK, BatchOK
  <1> HIDE DEF v
  <1> DEFINE p == opening[o]
  <1>5. /\ OneMoves(opening', opening, o)
        /\ opening'[o] = [pc |-> v, account |-> a, listed |-> p.listed, rows |-> p.rows,
                          batch |-> p.batch, cleanup |-> p.cleanup, settled |-> p.settled]
    BY <1>1, <1>2, OpenedIs
  <1> HIDE DEF p
  <1>6. /\ OpeningOK(opening'[o]) /\ opening'[o].pc = v /\ opening'[o].account = a
        /\ opening'[o].listed = p.listed /\ opening'[o].batch = p.batch
    <2> DEFINE q == opening'[o]
    <2> HIDE DEF q
    <2> SUFFICES /\ OpeningOK(q) /\ q.pc = v /\ q.account = a
                 /\ q.listed = p.listed /\ q.batch = p.batch
      BY DEF q
    <2> DEFINE there == p.listed  rows == p.rows  batch == p.batch
               w == p.cleanup  z == p.settled
    <2>1. q = [pc |-> v, account |-> a, listed |-> there, rows |-> rows,
               batch |-> batch, cleanup |-> w, settled |-> z]
      BY <1>5 DEF q
    <2>2. there = <<>> /\ rows = <<>> /\ batch = {}
      BY <1>3 DEF p
    <2> HIDE DEF there, rows, batch, w, z
    <2>3. RowsOK(rows, there) /\ BatchOK(batch, there)
      BY <1>4, <2>2
    <2>4. v # "idle"
      BY DEF v
    <2>5. OpeningOK(q) /\ q.pc = v /\ q.account = a /\ q.listed = there /\ q.batch = batch
      BY <2>1, <2>2, <2>3, <2>4, FromFields
    <2> QED
      BY <2>5 DEF there, batch
  <1> QED
    BY <1>3, <1>5, <1>6 DEF p, v

LEMMA ListsOne ==
    ASSUME ImportOK, MaxUnread = 0, NEW o \in Opening, FiltersListed(o)
    PROVE  /\ OneMoves(opening', opening, o) /\ OpeningOK(opening'[o])
           /\ opening[o].pc = "listing" /\ opening'[o].pc = "shown"
           /\ opening'[o].account = opening[o].account
           /\ opening'[o].listed = filters[opening[o].account]
           /\ unread' = 0
  <1> DEFINE p == opening[o]
             there == filters[opening[o].account]
  <1>1. /\ OnOpenings(opening) /\ OpeningOK(p) /\ OpeningShape(p)
        /\ unread = 0
    BY DEF ImportOK, OpeningOK
  <1>2. p.pc = "listing"
    BY DEF FiltersListed
  <1>3. p.account \in Account /\ p.batch = {}
    BY <1>1, <1>2 DEF OpeningOK
  <1>4. ListOK(there)
    BY <1>3 DEF ImportOK
  <1> DEFINE list(l) == [i \in DOMAIN there |-> Projected(there[i], l[i])]
             rows(l) == [i \in DOMAIN list(l) |-> Row(list(l), i)]
  <1>5. PICK lost \in [DOMAIN there -> Losses] :
           /\ unread' = unread + Cardinality({i \in DOMAIN lost : lost[i] # NoLoss})
           /\ unread' <= MaxUnread
           /\ opening' = ShownWith(opening, o, "shown", there, rows(lost))
    BY DEF FiltersListed, ShownWith
  <1> DEFINE some == {i \in DOMAIN lost : lost[i] # NoLoss}
  <1>6. some = {} /\ unread' = 0
    <2>1. DOMAIN there = 1 .. Len(there) /\ Len(there) \in Nat
      BY <1>4, SeqHas DEF ListOK
    <2> DEFINE n == Len(there)
    <2>2. some \subseteq 1 .. n /\ n \in Nat
      BY <2>1
    <2> HIDE DEF some, there, n
    <2>3. IsFiniteSet(some)
      <3>1. IsFiniteSet(1 .. n)
        BY <2>2, FS_Interval
      <3> QED
        BY <2>2, <3>1, FS_Subset
    <2>4. Cardinality(some) \in Nat
      BY <2>3, FS_CardinalityType
    <2>5. unread' = unread + Cardinality(some) /\ unread' <= MaxUnread
      BY <1>5 DEF some, there
    <2>6. Cardinality(some) = 0 /\ unread' = 0
      BY <1>1, <2>4, <2>5
    <2> QED
      BY <2>3, <2>6, FS_EmptySet
  <1>7. list(lost) = [i \in DOMAIN there |-> Projected(there[i], NoLoss)]
    <2>1. \A i \in DOMAIN there : lost[i] = NoLoss
      BY <1>6
    <2> QED
      BY <2>1
  <1> DEFINE read == list(lost)
             shown == rows(lost)
             v == "shown"
  <1>8. shown = [i \in DOMAIN read |-> Row(read, i)]
    OBVIOUS
  <1> HIDE DEF list, rows, there
  <1>9. RowsOK(shown, there)
    <2> HIDE DEF read, shown
    <2>1. read = [i \in DOMAIN there |-> Projected(there[i], NoLoss)]
      BY <1>7 DEF read
    <2> QED
      BY <1>4, <1>8, <2>1, RowsAreOK
  <1>10. opening' = ShownWith(opening, o, v, there, shown)
    BY <1>5
  <1> HIDE DEF v, shown
  <1>11. /\ OneMoves(opening', opening, o)
         /\ opening'[o] = [pc |-> v, account |-> p.account, listed |-> there, rows |-> shown,
                           batch |-> p.batch, cleanup |-> p.cleanup, settled |-> p.settled]
    BY <1>1, <1>10, ListedIs
  <1>12. BatchOK(p.batch, there)
    BY <1>3 DEF BatchOK
  <1> DEFINE q == opening'[o]
  <1> HIDE DEF q, p
  <1>13. q = [pc |-> v, account |-> p.account, listed |-> there, rows |-> shown,
              batch |-> p.batch, cleanup |-> p.cleanup, settled |-> p.settled]
    BY <1>11 DEF q
  <1>14. v # "idle" /\ v # "listing"
    BY DEF v
  <1>15. OpeningOK(q) /\ q.pc = v /\ q.account = p.account /\ q.listed = there
    BY <1>3, <1>9, <1>12, <1>13, <1>14, FromFields
  <1> QED
    BY <1>2, <1>6, <1>11, <1>15 DEF q, p, v, there

LEMMA ConfirmsOne ==
    ASSUME ImportOK, NEW o \in Opening, Confirm(o)
    PROVE  /\ OneMoves(opening', opening, o) /\ OpeningOK(opening'[o])
           /\ opening'[o].pc = "importing"
           /\ opening'[o].account = opening[o].account /\ opening'[o].listed = opening[o].listed
           /\ opening[o].pc # "idle"
  <1> DEFINE p == opening[o]
             b == {r \in Range(opening[o].rows) : r.checked}
             v == "importing"
             w == elements.cleanup /\ elements.cleanable
  <1>1. OnOpenings(opening) /\ OpeningOK(p) /\ OpeningShape(p)
    BY DEF ImportOK, OpeningOK
  <1>2. opening' = SentWith(opening, o, v, b, w)
    BY DEF Confirm, SentWith
  <1>3. BatchOK(b, p.listed)
    BY <1>1, CheckedRowsAreOK
  <1>4. p.pc # "idle" /\ p.account \in Account
    <2>1. PICK r \in Range(p.rows) : r.checked
      BY DEF Confirm
    <2>2. PICK i \in DOMAIN p.rows : r = p.rows[i]
      BY DEF Range
    <2>3. DOMAIN p.rows # {}
      BY <2>2
    <2>4. p.rows # <<>>
      <3> HIDE DEF p
      <3> QED
        BY <2>3
    <2> QED
      BY <1>1, <2>4 DEF OpeningOK
  <1>5. v # "idle" /\ v # "listing"
    OBVIOUS
  <1> HIDE DEF b, v, w
  <1>6. /\ OneMoves(opening', opening, o)
        /\ opening'[o] = [pc |-> v, account |-> p.account, listed |-> p.listed, rows |-> p.rows,
                          batch |-> b, cleanup |-> w, settled |-> p.settled]
    BY <1>1, <1>2, ConfirmedIs
  <1> DEFINE q == opening'[o]
  <1> HIDE DEF q, p
  <1>7. q = [pc |-> v, account |-> p.account, listed |-> p.listed, rows |-> p.rows,
             batch |-> b, cleanup |-> w, settled |-> p.settled]
    BY <1>6 DEF q
  <1>8. RowsOK(p.rows, p.listed)
    BY <1>1 DEF OpeningOK
  <1>9. OpeningOK(q) /\ q.pc = v /\ q.account = p.account /\ q.listed = p.listed
    BY <1>3, <1>4, <1>5, <1>7, <1>8, FromFields
  <1> QED
    BY <1>4, <1>6, <1>9 DEF q, p, v

LEMMA ClosesThem ==
    ASSUME ImportOK, Close
    PROVE  /\ OnOpenings(opening')
           /\ \A o \in Opening :
                 /\ OpeningOK(opening'[o]) /\ opening'[o].pc = opening[o].pc
                 /\ opening'[o].account = opening[o].account
                 /\ opening'[o].listed = opening[o].listed /\ opening'[o].batch = opening[o].batch
  <1>1. OnOpenings(opening')
    BY DEF Close, OnOpenings
  <1>2. ASSUME NEW o \in Opening
        PROVE  /\ OpeningOK(opening'[o]) /\ opening'[o].pc = opening[o].pc
               /\ opening'[o].account = opening[o].account
               /\ opening'[o].listed = opening[o].listed /\ opening'[o].batch = opening[o].batch
    <2> DEFINE p == opening[o]
               q == [p EXCEPT !.settled = TRUE]
    <2>1. OpeningOK(p) /\ OpeningShape(p)
      BY DEF ImportOK, OpeningOK
    <2>2. \/ p.pc \in {"shown", "importing", "deleting"} /\ opening'[o] = q
          \/ opening'[o] = p
      BY DEF Close
    <2>3. CASE opening'[o] = p
      BY <2>1, <2>3
    <2>4. CASE p.pc \in {"shown", "importing", "deleting"} /\ opening'[o] = q
      <3>1. GoesOn(q, p) /\ q.pc = p.pc
        BY <2>1, SettledWritten
      <3>2. p.pc # "idle" /\ p.pc # "listing"
        BY <2>4
      <3> HIDE DEF p, q
      <3>3. /\ OpeningOK(q) /\ q.account = p.account /\ q.listed = p.listed
            /\ q.batch = p.batch
        BY <2>1, <3>1, <3>2, GoesOnIs
      <3>4. opening'[o] = q
        BY <2>4
      <3> QED
        BY <3>1, <3>3, <3>4 DEF p
    <2> QED
      BY <2>2, <2>3, <2>4
  <1> QED
    BY <1>1, <1>2

-----------------------------------------------------------------------------
\* Every term and every action can be read.
AllRead == MaxUnread = 0

\* No two filters of a list have one name, and none has the name of a nameless filter.
NamesApart ==
    /\ FreshName # "(no name)"
    /\ \A list \in FilterLists : Apart(list)

\* Of the filters of a some are gone, the others are as they were.
ListPicks(a) ==
    /\ filters' = [b \in Account |-> filters'[b]]
    /\ \A b \in Account : b # a => filters'[b] = filters[b]
    /\ Picked(filters'[a], filters[a])

LEMMA RemovingPicks ==
    ASSUME ImportOK, NEW a \in Account, NEW i \in DOMAIN filters[a], UserRemoves(a, i)
    PROVE  ListPicks(a)
  <1>1. filters = [b \in Account |-> filters[b]] /\ ListOK(filters[a])
    BY DEF ImportOK
  <1>2. filters' = [filters EXCEPT ![a] = RemoveAt(filters[a], i)]
    BY DEF UserRemoves
  <1>3. Picked(RemoveAt(filters[a], i), filters[a])
    BY <1>1, RemovedIsPicked DEF ListOK
  <1> DEFINE t == RemoveAt(filters[a], i)
  <1> HIDE DEF t
  <1>4. filters' = [filters EXCEPT ![a] = t] /\ Picked(t, filters[a])
    BY <1>2, <1>3 DEF t
  <1> QED
    BY <1>1, <1>4 DEF ListPicks

LEMMA CleaningPicks ==
    ASSUME ImportOK, NEW o \in Opening, CleanedUp(o)
    PROVE  ListPicks(opening[o].account) /\ opening[o].account \in Account
  <1> DEFINE a == opening[o].account
             t == Kept(filters[a], opening[o].batch)
  <1>1. a \in Account
    BY DEF ImportOK, OpeningOK, CleanedUp
  <1>2. filters = [b \in Account |-> filters[b]] /\ ListOK(filters[a])
    BY <1>1 DEF ImportOK
  <1>3. filters' = [filters EXCEPT ![a] = t]
    BY DEF CleanedUp
  <1>4. Picked(t, filters[a])
    BY <1>2, KeptIsPicked DEF ListOK
  <1> HIDE DEF t, a
  <1>5. ListPicks(a)
    BY <1>1, <1>2, <1>3, <1>4 DEF ListPicks
  <1> QED
    BY <1>1, <1>5 DEF a

LEMMA PicksKeepLists ==
    ASSUME ImportOK, NEW a \in Account, ListPicks(a)
    PROVE  /\ filters' = [b \in Account |-> filters'[b]]
           /\ \A b \in Account : ListOK(filters'[b]) /\ Range(filters'[b]) \subseteq Range(filters[b])
  <1>1. ListOK(filters[a]) /\ Picked(filters'[a], filters[a])
    BY DEF ImportOK, ListPicks
  <1>2. ListOK(filters'[a]) /\ \A k \in DOMAIN filters'[a] : filters'[a][k] \in Range(filters[a])
    BY <1>1, PickedIs
  <1>3. Range(filters'[a]) \subseteq Range(filters[a])
    BY <1>2 DEF Range
  <1>4. ASSUME NEW b \in Account
        PROVE  ListOK(filters'[b]) /\ Range(filters'[b]) \subseteq Range(filters[b])
    <2>1. CASE b = a
      BY <1>2, <1>3, <2>1
    <2>2. CASE b # a
      <3>1. filters'[b] = filters[b]
        BY <2>2 DEF ListPicks
      <3> QED
        BY <3>1 DEF ImportOK
    <2> QED
      BY <2>1, <2>2
  <1> QED
    BY <1>4 DEF ListPicks

LEMMA RenamingKeepsLists ==
    ASSUME ImportOK, FreshName # "(no name)",
           NEW a \in Account, NEW i \in DOMAIN filters[a], UserRenames(a, i)
    PROVE  /\ filters' = [b \in Account |-> filters'[b]]
           /\ \A b \in Account : ListOK(filters'[b])
           /\ \A b \in Account : b # a => filters'[b] = filters[b]
           /\ DOMAIN filters'[a] = DOMAIN filters[a] /\ filters'[a][i].name = FreshName
           /\ \A k \in DOMAIN filters[a] : k # i => filters'[a][k] = filters[a][k]
  <1> DEFINE s == filters[a]
             t == [s EXCEPT ![i].name = FreshName]
  <1>1. filters = [b \in Account |-> filters[b]] /\ ListOK(s)
    BY DEF ImportOK
  <1>2. filters' = [filters EXCEPT ![a] = t] /\ \A f \in Range(s) : Lower[f.name] # Lower[FreshName]
    BY DEF UserRenames
  <1>3. /\ ListOK(t) /\ DOMAIN t = DOMAIN s /\ t[i].name = FreshName
        /\ \A k \in DOMAIN s : k # i => t[k] = s[k]
    BY <1>1, <1>2, RenamedIs
  <1> HIDE DEF t, s
  <1>4. /\ filters' = [b \in Account |-> filters'[b]] /\ filters'[a] = t
        /\ \A b \in Account : b # a => filters'[b] = filters[b]
    BY <1>1, <1>2
  <1>5. \A b \in Account : ListOK(filters'[b])
    BY <1>3, <1>4 DEF ImportOK
  <1> QED
    BY <1>3, <1>4, <1>5 DEF s

LEMMA OneMovesKeepsOpenings ==
    ASSUME ImportOK, NEW o \in Opening, OneMoves(opening', opening, o), OpeningOK(opening'[o])
    PROVE  OnOpenings(opening') /\ \A q \in Opening : OpeningOK(opening'[q])
  <1>1. ASSUME NEW q \in Opening
        PROVE  OpeningOK(opening'[q])
    BY DEF OneMoves, ImportOK
  <1> QED
    BY <1>1 DEF OneMoves

LEMMA ImportOKInit ==
    ASSUME NamesApart
    PROVE  ImportInit => ImportOK
  <1> SUFFICES ASSUME ImportInit
               PROVE  ImportOK
    OBVIOUS
  <1>1. filters = [a \in Account |-> filters[a]] /\ \A a \in Account : filters[a] \in FilterLists
    BY DEF ImportInit
  <1>2. \A list \in FilterLists : ListOK(list)
    BY ImportAssumption DEF NamesApart, ListOK
  <1>3. OnOpenings(opening) /\ \A o \in Opening : opening[o] = Closed
    BY DEF ImportInit, OnOpenings
  <1>4. OpeningOK(Closed)
    <2>1. RowsOK(<<>>, <<>>) /\ BatchOK({}, <<>>)
      BY DEF RowsOK, BatchOK
    <2>2. OpeningShape(Closed)
      BY DEF OpeningShape, Closed
    <2>3. Closed.pc = "idle" /\ Closed.listed = <<>> /\ Closed.rows = <<>> /\ Closed.batch = {}
      BY DEF Closed
    <2> QED
      BY <2>1, <2>2, <2>3 DEF OpeningOK
  <1>5. unread = 0
    BY DEF ImportInit
  <1> QED
    BY <1>1, <1>2, <1>3, <1>4, <1>5 DEF ImportOK

LEMMA ImportOKNext ==
    ASSUME AllRead, NamesApart
    PROVE  ImportOK /\ [ImportNext]_importVars => ImportOK'
  <1> SUFFICES ASSUME ImportOK, [ImportNext]_importVars
               PROVE  ImportOK'
    OBVIOUS
  <1> DEFINE OpeningsOK == OnOpenings(opening') /\ \A o \in Opening : OpeningOK(opening'[o])
             ListsOK == /\ filters' = [a \in Account |-> filters'[a]]
                        /\ \A a \in Account : ListOK(filters'[a])
  <1>1. /\ filters' = filters => ListsOK
        /\ opening' = opening => OpeningsOK
        /\ unread' = unread => unread' = 0
    BY DEF ImportOK
  <1>2. ASSUME NEW o \in Opening, NEW a \in Account, OpenImport(o, a)
        PROVE  OpeningsOK /\ ListsOK /\ unread' = 0
    <2>1. filters' = filters /\ unread' = unread
      BY <1>2 DEF OpenImport, Bounds
    <2> QED
      BY <1>1, <1>2, <2>1, OpensOne, OneMovesKeepsOpenings
  <1>3. ASSUME NEW o \in Opening, FiltersListed(o)
        PROVE  OpeningsOK /\ ListsOK /\ unread' = 0
    <2>1. filters' = filters
      BY <1>3 DEF FiltersListed
    <2>2. OneMoves(opening', opening, o) /\ OpeningOK(opening'[o]) /\ unread' = 0
      BY <1>3, ListsOne DEF AllRead
    <2> QED
      BY <1>1, <2>1, <2>2, OneMovesKeepsOpenings
  <1>4. ASSUME NEW o \in Opening, Confirm(o)
        PROVE  OpeningsOK /\ ListsOK /\ unread' = 0
    <2>1. filters' = filters /\ unread' = unread
      BY <1>4 DEF Confirm, Bounds
    <2> QED
      BY <1>1, <1>4, <2>1, ConfirmsOne, OneMovesKeepsOpenings
  <1>5. ASSUME NEW o \in Opening, Acting(o)
        PROVE  OpeningsOK /\ ListsOK /\ unread' = 0
    <2>1. unread' = unread
      BY <1>5 DEF Acting, NothingListed, Check, Green, Refused, CleanedUp, CleanupFailed, Bounds
    <2>2. OpeningsOK
      BY <1>5, ActingCarries, OneMovesKeepsOpenings DEF Carries
    <2>3. ListsOK
      <3>1. CASE CleanedUp(o)
        BY <3>1, CleaningPicks, PicksKeepLists
      <3>2. CASE ~CleanedUp(o)
        <4>1. filters' = filters
          BY <1>5, <3>2 DEF Acting, NothingListed, Check, Green, Refused, CleanupFailed
        <4> QED
          BY <1>1, <4>1
      <3> QED
        BY <3>1, <3>2
    <2> QED
      BY <1>1, <2>1, <2>2, <2>3
  <1>6. CASE CheckCleanup
    BY <1>1, <1>6 DEF CheckCleanup, Bounds, ImportOK
  <1>7. CASE Close
    <2>1. filters' = filters /\ unread' = unread
      BY <1>7 DEF Close, Bounds
    <2> QED
      BY <1>1, <1>7, <2>1, ClosesThem DEF ImportOK
  <1>8. ASSUME NEW a \in Account, NEW i \in DOMAIN filters[a], UserRemoves(a, i)
        PROVE  OpeningsOK /\ ListsOK /\ unread' = 0
    <2>1. opening' = opening /\ unread' = unread
      BY <1>8 DEF UserRemoves
    <2> QED
      BY <1>1, <1>8, <2>1, RemovingPicks, PicksKeepLists
  <1>9. ASSUME NEW a \in Account, NEW i \in DOMAIN filters[a], UserRenames(a, i)
        PROVE  OpeningsOK /\ ListsOK /\ unread' = 0
    <2>1. opening' = opening /\ unread' = unread
      BY <1>9 DEF UserRenames
    <2> QED
      BY <1>1, <1>9, <2>1, RenamingKeepsLists DEF NamesApart
  <1>10. CASE UNCHANGED importVars
    BY <1>1, <1>10 DEF importVars, ImportOK
  <1>11. (OpeningsOK /\ ListsOK /\ unread' = 0) => ImportOK'
    BY DEF ImportOK, OnOpenings
  <1> QED
    BY <1>2, <1>3, <1>4, <1>5, <1>6, <1>7, <1>8, <1>9, <1>10, <1>11 DEF ImportNext, Acting

\* A row stands for its filter, and without a warning for the whole of it.
LEMMA ImportOKIsWhole == ImportOK => WholeOrWarned
  <1> SUFFICES ASSUME ImportOK, NEW o \in Opening, NEW r \in Range(opening[o].rows),
                      r.compatible, ~r.warned
               PROVE  Whole(r.rule, opening[o].listed[r.filter])
    BY DEF WholeOrWarned
  <1> DEFINE p == opening[o]
             f == p.listed[r.filter]
  <1>1. PICK i \in DOMAIN p.rows : r = p.rows[i]
    BY DEF Range
  <1>2. RowOf(r, p.listed, i)
    BY <1>1 DEF ImportOK, OpeningOK, RowsOK
  <1>3. IsFilter(f) /\ Stands(r, f)
    BY <1>2 DEF RowOf
  <1> HIDE DEF f
  <1>4. ~mapLocalToRule(Projected(f, NoLoss)).warned /\ r.rule = mapLocalToRule(Projected(f, NoLoss)).rule
    BY <1>3 DEF Stands
  <1>5. Whole(r.rule, f)
    BY <1>3, <1>4, UnwarnedIsWhole
  <1> QED
    BY <1>5 DEF f

(***************************************************************************)
(* For any accounts, filters and openings: when every term and every       *)
(* action can be read and no two filters of an account share their name, a *)
(* row that is offered as fully compatible has the whole filter: a         *)
(* condition of its own for every term and an action for every action,     *)
(* whatever the user and the server do meanwhile.  (openImportDialog,      *)
(* manager.js; local_filter_mapper.js.)                                    *)
(***************************************************************************)
THEOREM CompatibleIsWhole ==
    ASSUME AllRead, NamesApart
    PROVE  ImportSpec => []WholeOrWarned
  <1>1. ImportInit => ImportOK
    BY ImportOKInit
  <1>2. ImportOK /\ [ImportNext]_importVars => ImportOK'
    BY ImportOKNext
  <1>3. ImportOK => WholeOrWarned
    BY ImportOKIsWhole
  <1> QED
    BY <1>1, <1>2, <1>3, PTL DEF ImportSpec

-----------------------------------------------------------------------------
(***************************************************************************)
(* What the clean-up deletes.  It looks for names, whatever their case, so *)
(* those of a list are to differ in more than case, and the user is not to *)
(* give a filter the name of another that an opening has listed: between   *)
(* the listing and the clean-up such a filter would be taken for the one   *)
(* imported.                                                               *)
(***************************************************************************)
LowerApart(list) ==
    \A i, j \in DOMAIN list : Lower[list[i].name] = Lower[list[j].name] => i = j

LowerNamesApart == \A list \in FilterLists : LowerApart(list)

RenamesAreNew ==
    \A a \in Account : \A f \in Range(filters'[a]) \ Range(filters[a]) :
        \A o \in Opening : opening[o].account = a =>
            \A i \in DOMAIN opening[o].listed : Lower[f.name] # Lower[opening[o].listed[i].name]

\* A filter of list with the name of a listed one is that one.
Known(there, list) ==
    \A f \in Range(list) : \A i \in DOMAIN there : Lower[f.name] = Lower[there[i].name] => f = there[i]

StoredOK ==
    /\ \A a \in Account : LowerApart(filters[a])
    /\ \A o \in Opening : opening[o].pc # "idle" => Known(opening[o].listed, filters[opening[o].account])
    /\ \A o \in Opening : opening[o].pc = "deleting" =>
          \A r \in opening[o].batch : r.rule \in imported[opening[o].account]
    /\ imported = [a \in Account |-> imported[a]] /\ deleted = [a \in Account |-> deleted[a]]
    /\ DeletedIsStored

LEMMA PickedLower ==
    ASSUME NEW s, NEW t, LowerApart(s), Picked(t, s)
    PROVE  LowerApart(t)
  <1>1. PICK h \in [DOMAIN t -> DOMAIN s] :
            /\ \A j, k \in DOMAIN t : h[j] = h[k] => j = k
            /\ \A k \in DOMAIN t : t[k] = s[h[k]]
    BY DEF Picked
  <1> SUFFICES ASSUME NEW j \in DOMAIN t, NEW k \in DOMAIN t, Lower[t[j].name] = Lower[t[k].name]
               PROVE  j = k
    BY DEF LowerApart
  <1>2. h[j] \in DOMAIN s /\ h[k] \in DOMAIN s /\ t[j] = s[h[j]] /\ t[k] = s[h[k]]
    BY <1>1
  <1>3. h[j] = h[k]
    BY <1>2 DEF LowerApart
  <1> QED
    BY <1>1, <1>3

LEMMA RenamedLower ==
    ASSUME ImportOK, StoredOK, FreshName # "(no name)",
           NEW a \in Account, NEW i \in DOMAIN filters[a], UserRenames(a, i)
    PROVE  \A b \in Account : LowerApart(filters'[b])
  <1>1. /\ \A b \in Account : b # a => filters'[b] = filters[b]
        /\ DOMAIN filters'[a] = DOMAIN filters[a] /\ filters'[a][i].name = FreshName
        /\ \A k \in DOMAIN filters[a] : k # i => filters'[a][k] = filters[a][k]
    BY RenamingKeepsLists
  <1>2. \A k \in DOMAIN filters[a] : Lower[filters[a][k].name] # Lower[FreshName]
    BY DEF UserRenames, Range
  <1>3. \A b \in Account : LowerApart(filters[b])
    BY DEF StoredOK
  <1>4. LowerApart(filters'[a])
    <2> SUFFICES ASSUME NEW j \in DOMAIN filters[a], NEW k \in DOMAIN filters[a],
                        Lower[filters'[a][j].name] = Lower[filters'[a][k].name]
                 PROVE  j = k
      BY <1>1 DEF LowerApart
    <2>1. CASE j = i /\ k # i
      BY <1>1, <1>2, <2>1
    <2>2. CASE j # i /\ k = i
      BY <1>1, <1>2, <2>2
    <2>3. CASE j # i /\ k # i
      BY <1>1, <1>3, <2>3 DEF LowerApart
    <2> QED
      BY <2>1, <2>2, <2>3
  <1> QED
    BY <1>1, <1>3, <1>4

LEMMA StoredOKInit ==
    ASSUME LowerNamesApart
    PROVE  ImportInit => StoredOK
  <1> SUFFICES ASSUME ImportInit
               PROVE  StoredOK
    OBVIOUS
  <1>1. \A a \in Account : LowerApart(filters[a])
    BY DEF ImportInit, LowerNamesApart
  <1>2. \A o \in Opening : opening[o].pc = "idle"
    BY DEF ImportInit, Closed
  <1>3. /\ imported = [a \in Account |-> imported[a]] /\ deleted = [a \in Account |-> deleted[a]]
        /\ \A a \in Account : deleted[a] = {}
    BY DEF ImportInit
  <1> QED
    BY <1>1, <1>2, <1>3 DEF StoredOK, DeletedIsStored

\* The parts of the invariant, one step later.
Grown ==
    /\ imported' = [a \in Account |-> imported'[a]]
    /\ \A a \in Account : imported[a] \subseteq imported'[a]

KnownThen ==
    \A o \in Opening : opening'[o].pc # "idle" => Known(opening'[o].listed, filters'[opening'[o].account])

SentThen ==
    \A o \in Opening : opening'[o].pc = "deleting" =>
        \A r \in opening'[o].batch : r.rule \in imported'[opening'[o].account]

LowerThen == \A a \in Account : LowerApart(filters'[a])

LEMMA StoredThen ==
    ASSUME LowerThen, KnownThen, SentThen, Grown, deleted' = [a \in Account |-> deleted'[a]],
           \A a \in Account : \A f \in deleted'[a] : Ruled(f) \in imported'[a]
    PROVE  StoredOK'
  BY DEF LowerThen, KnownThen, SentThen, Grown, StoredOK, DeletedIsStored, Ruled, LowerApart, Known

\* Without a deletion, what was deleted is still stored.
LEMMA DeletedStays ==
    ASSUME StoredOK, Grown, deleted' = deleted
    PROVE  /\ deleted' = [a \in Account |-> deleted'[a]]
           /\ \A a \in Account : \A f \in deleted'[a] : Ruled(f) \in imported'[a]
  BY DEF StoredOK, DeletedIsStored, Grown, Ruled

LEMMA ImportedStays ==
    ASSUME StoredOK, imported' = imported
    PROVE  Grown
  BY DEF StoredOK, Grown

\* A filter of a smaller list is known if it was.
LEMMA KnownInLess ==
    ASSUME NEW there, NEW s, NEW t, Known(there, s), Range(t) \subseteq Range(s)
    PROVE  Known(there, t)
  BY DEF Known

\* A step of o that changes neither the lists nor what is listed and imported by others.
LEMMA OthersKnown ==
    ASSUME ImportOK, StoredOK, NEW o \in Opening, OneMoves(opening', opening, o), Grown,
           \A a \in Account : Range(filters'[a]) \subseteq Range(filters[a]),
           NEW q \in Opening, q # o
    PROVE  /\ opening'[q].pc # "idle" =>
                 Known(opening'[q].listed, filters'[opening'[q].account])
           /\ opening'[q].pc = "deleting" =>
                 \A r \in opening'[q].batch : r.rule \in imported'[opening'[q].account]
  <1>1. opening'[q] = opening[q] /\ OpeningOK(opening[q])
    BY DEF OneMoves, ImportOK
  <1>2. ASSUME opening[q].pc # "idle"
        PROVE  Known(opening[q].listed, filters'[opening[q].account])
    <2>1. opening[q].account \in Account
      BY <1>1, <1>2 DEF OpeningOK
    <2>2. Known(opening[q].listed, filters[opening[q].account])
      BY <1>2 DEF StoredOK
    <2> QED
      BY <2>1, <2>2, KnownInLess
  <1>3. ASSUME opening[q].pc = "deleting", NEW r \in opening[q].batch
        PROVE  r.rule \in imported'[opening[q].account]
    <2>1. opening[q].account \in Account
      BY <1>1, <1>3 DEF OpeningOK
    <2>2. r.rule \in imported[opening[q].account]
      BY <1>3 DEF StoredOK
    <2> QED
      BY <2>1, <2>2 DEF Grown
  <1> QED
    BY <1>1, <1>2, <1>3

LEMMA OpensStored ==
    ASSUME ImportOK, StoredOK, NEW o \in Opening, NEW a \in Account, OpenImport(o, a)
    PROVE  StoredOK'
  <1>1. filters' = filters /\ imported' = imported /\ deleted' = deleted
    BY DEF OpenImport, History
  <1>2. /\ OneMoves(opening', opening, o) /\ opening'[o].pc = "listing"
        /\ opening'[o].listed = <<>>
    BY OpensOne
  <1>3. Grown /\ LowerThen
    BY <1>1, ImportedStays DEF StoredOK, LowerThen
  <1>4. Known(opening'[o].listed, filters'[opening'[o].account])
    BY <1>2 DEF Known
  <1>5. \A b \in Account : Range(filters'[b]) \subseteq Range(filters[b])
    BY <1>1
  <1>6. KnownThen /\ SentThen
    BY <1>2, <1>3, <1>4, <1>5, OthersKnown DEF KnownThen, SentThen
  <1> QED
    BY <1>1, <1>3, <1>6, DeletedStays, StoredThen

LEMMA ListsStored ==
    ASSUME AllRead, ImportOK, StoredOK, NEW o \in Opening, FiltersListed(o)
    PROVE  StoredOK'
  <1>1. filters' = filters /\ imported' = imported /\ deleted' = deleted
    BY DEF FiltersListed, History
  <1>2. /\ OneMoves(opening', opening, o) /\ opening[o].pc = "listing" /\ opening'[o].pc = "shown"
        /\ opening'[o].account = opening[o].account
        /\ opening'[o].listed = filters[opening[o].account]
    BY ListsOne DEF AllRead
  <1>3. Grown /\ LowerThen
    BY <1>1, ImportedStays DEF StoredOK, LowerThen
  <1> DEFINE there == filters[opening[o].account]
  <1>4. LowerApart(there)
    BY <1>2 DEF ImportOK, OpeningOK, StoredOK
  <1>5. Known(there, there)
    <2> HIDE DEF there
    <2> SUFFICES ASSUME NEW f \in Range(there), NEW i \in DOMAIN there,
                        Lower[f.name] = Lower[there[i].name]
                 PROVE  f = there[i]
      BY DEF Known
    <2>1. PICK k \in DOMAIN there : f = there[k]
      BY DEF Range
    <2> QED
      BY <1>4, <2>1 DEF LowerApart
  <1>6. \A a \in Account : Range(filters'[a]) \subseteq Range(filters[a])
    BY <1>1
  <1>7. Known(opening'[o].listed, filters'[opening'[o].account])
    BY <1>1, <1>2, <1>5
  <1>8. KnownThen /\ SentThen
    BY <1>2, <1>3, <1>6, <1>7, OthersKnown DEF KnownThen, SentThen
  <1> QED
    BY <1>1, <1>3, <1>8, DeletedStays, StoredThen

LEMMA ConfirmsStored ==
    ASSUME ImportOK, StoredOK, NEW o \in Opening, Confirm(o)
    PROVE  StoredOK'
  <1>1. filters' = filters /\ imported' = imported /\ deleted' = deleted
    BY DEF Confirm, History
  <1>2. /\ OneMoves(opening', opening, o) /\ opening'[o].pc = "importing"
        /\ opening'[o].account = opening[o].account /\ opening'[o].listed = opening[o].listed
        /\ opening[o].pc # "idle"
    BY ConfirmsOne
  <1>3. Grown /\ LowerThen
    BY <1>1, ImportedStays DEF StoredOK, LowerThen
  <1>4. Known(opening'[o].listed, filters'[opening'[o].account])
    BY <1>1, <1>2 DEF StoredOK
  <1>5. \A a \in Account : Range(filters'[a]) \subseteq Range(filters[a])
    BY <1>1
  <1>6. KnownThen /\ SentThen
    BY <1>2, <1>3, <1>4, <1>5, OthersKnown DEF KnownThen, SentThen
  <1> QED
    BY <1>1, <1>3, <1>6, DeletedStays, StoredThen

LEMMA ClosesStored ==
    ASSUME ImportOK, StoredOK, Close
    PROVE  StoredOK'
  <1>1. filters' = filters /\ imported' = imported /\ deleted' = deleted
    BY DEF Close, History
  <1>2. \A o \in Opening :
           /\ opening'[o].pc = opening[o].pc /\ opening'[o].account = opening[o].account
           /\ opening'[o].listed = opening[o].listed /\ opening'[o].batch = opening[o].batch
    BY ClosesThem
  <1>3. Grown /\ LowerThen
    BY <1>1, ImportedStays DEF StoredOK, LowerThen
  <1>4. KnownThen /\ SentThen
    BY <1>1, <1>2 DEF KnownThen, SentThen, StoredOK
  <1> QED
    BY <1>1, <1>3, <1>4, DeletedStays, StoredThen

LEMMA RemovesStored ==
    ASSUME ImportOK, StoredOK, NEW a \in Account, NEW i \in DOMAIN filters[a], UserRemoves(a, i)
    PROVE  StoredOK'
  <1>1. opening' = opening /\ imported' = imported /\ deleted' = deleted
    BY DEF UserRemoves, History
  <1>2. ListPicks(a)
    BY RemovingPicks
  <1>3. LowerThen
    BY <1>2, PickedLower DEF LowerThen, ListPicks, StoredOK
  <1>4. \A b \in Account : Range(filters'[b]) \subseteq Range(filters[b])
    BY <1>2, PicksKeepLists
  <1>5. Grown
    BY <1>1, ImportedStays
  <1>6. KnownThen
    <2> SUFFICES ASSUME NEW o \in Opening, opening[o].pc # "idle"
                 PROVE  Known(opening[o].listed, filters'[opening[o].account])
      BY <1>1 DEF KnownThen
    <2>1. opening[o].account \in Account
      BY DEF ImportOK, OpeningOK
    <2> QED
      BY <1>4, <2>1, KnownInLess DEF StoredOK
  <1>7. SentThen
    BY <1>1 DEF SentThen, StoredOK
  <1> QED
    BY <1>1, <1>3, <1>5, <1>6, <1>7, DeletedStays, StoredThen

LEMMA RenamesStored ==
    ASSUME NamesApart, ImportOK, StoredOK, NEW a \in Account, NEW i \in DOMAIN filters[a],
           UserRenames(a, i), RenamesAreNew
    PROVE  StoredOK'
  <1>1. opening' = opening /\ imported' = imported /\ deleted' = deleted
    BY DEF UserRenames, History
  <1>2. LowerThen
    BY RenamedLower DEF LowerThen, NamesApart
  <1>3. Grown
    BY <1>1, ImportedStays
  <1>4. KnownThen
    <2> SUFFICES ASSUME NEW o \in Opening, opening[o].pc # "idle"
                 PROVE  Known(opening[o].listed, filters'[opening[o].account])
      BY <1>1 DEF KnownThen
    <2> DEFINE b == opening[o].account
               there == opening[o].listed
    <2>1. b \in Account
      BY DEF ImportOK, OpeningOK
    <2>2. Known(there, filters[b])
      BY DEF StoredOK
    <2>3. \A f \in Range(filters'[b]) \ Range(filters[b]) :
             \A k \in DOMAIN there : Lower[f.name] # Lower[there[k].name]
      BY <2>1 DEF RenamesAreNew
    <2> HIDE DEF b, there
    <2>4. Known(there, filters'[b])
      BY <2>2, <2>3 DEF Known
    <2> QED
      BY <2>4 DEF b, there
  <1>5. SentThen
    BY <1>1 DEF SentThen, StoredOK
  <1> QED
    BY <1>1, <1>2, <1>3, <1>4, <1>5, DeletedStays, StoredThen

LEMMA ImportsGrow ==
    ASSUME ImportOK, StoredOK, NEW o \in Opening, opening[o].pc = "importing", Imported(o)
    PROVE  Grown /\ \A r \in opening[o].batch : r.rule \in imported'[opening[o].account]
  <1> DEFINE a == opening[o].account
             new == {r.rule : r \in opening[o].batch}
  <1>1. a \in Account
    BY DEF ImportOK, OpeningOK
  <1>2. imported = [b \in Account |-> imported[b]]
    BY DEF StoredOK
  <1>3. imported' = [imported EXCEPT ![a] = imported[a] \cup new]
    BY DEF Imported
  <1>4. \A r \in opening[o].batch : r.rule \in new
    OBVIOUS
  <1> HIDE DEF a, new
  <1>5. Grown /\ new \subseteq imported'[a]
    BY <1>1, <1>2, <1>3 DEF Grown
  <1> QED
    BY <1>4, <1>5 DEF a

LEMMA CleaningStored ==
    ASSUME ImportOK, StoredOK, NEW o \in Opening, CleanedUp(o)
    PROVE  /\ deleted' = [a \in Account |-> deleted'[a]]
           /\ \A a \in Account : \A f \in deleted'[a] : Ruled(f) \in imported'[a]
  <1> DEFINE a == opening[o].account
             gone == {f \in Range(filters[a]) : Wanted(opening[o].batch, f.name)}
  <1>1. a \in Account /\ opening[o].pc = "deleting"
    BY DEF ImportOK, OpeningOK, CleanedUp
  <1>2. imported' = imported /\ deleted' = [deleted EXCEPT ![a] = deleted[a] \cup gone]
    BY DEF CleanedUp
  <1>3. \A f \in gone : Ruled(f) \in imported[a]
    <2> SUFFICES ASSUME NEW f \in gone
                 PROVE  Ruled(f) \in imported[a]
      OBVIOUS
    <2>1. f \in Range(filters[a]) /\ Wanted(opening[o].batch, f.name)
      OBVIOUS
    <2>2. PICK r \in opening[o].batch : Lower[r.name] = Lower[f.name]
      BY <2>1 DEF Wanted
    <2>3. PICK i \in DOMAIN opening[o].listed :
             r.name = opening[o].listed[i].name /\ r.rule = Ruled(opening[o].listed[i])
      BY <2>2 DEF ImportOK, OpeningOK, BatchOK
    <2>4. Known(opening[o].listed, filters[a])
      BY <1>1 DEF StoredOK
    <2>5. f = opening[o].listed[i]
      BY <2>1, <2>2, <2>3, <2>4 DEF Known
    <2>6. r.rule \in imported[a]
      BY <1>1, <2>2 DEF StoredOK
    <2> QED
      BY <2>3, <2>5, <2>6
  <1>4. /\ deleted = [b \in Account |-> deleted[b]]
        /\ \A b \in Account : \A f \in deleted[b] : Ruled(f) \in imported[b]
    BY DEF StoredOK, DeletedIsStored, Ruled
  <1> HIDE DEF a, gone
  <1>5. /\ deleted' = [b \in Account |-> deleted'[b]]
        /\ \A b \in Account : deleted'[b] = IF b = a THEN deleted[a] \cup gone ELSE deleted[b]
    BY <1>1, <1>2, <1>4
  <1>6. ASSUME NEW b \in Account, NEW f \in deleted'[b]
        PROVE  Ruled(f) \in imported[b]
    <2>1. f \in deleted[b] \/ (b = a /\ f \in gone)
      BY <1>5, <1>6
    <2> QED
      BY <1>3, <1>4, <2>1
  <1> QED
    BY <1>2, <1>5, <1>6

LEMMA ActingStored ==
    ASSUME ImportOK, StoredOK, NEW o \in Opening, Acting(o)
    PROVE  StoredOK'
  <1>1. /\ OneMoves(opening', opening, o)
        /\ opening'[o].account = opening[o].account /\ opening'[o].listed = opening[o].listed
        /\ opening'[o].batch = opening[o].batch
        /\ opening'[o].pc = "deleting" => opening[o].pc = "deleting" \/ Green(o)
        /\ opening[o].pc # "idle"
        /\ OpeningOK(opening'[o])
    BY ActingCarries DEF Carries
  <1>2. /\ LowerThen
        /\ \A a \in Account : Range(filters'[a]) \subseteq Range(filters[a])
    <2>1. CASE CleanedUp(o)
      <3>1. ListPicks(opening[o].account) /\ opening[o].account \in Account
        BY <2>1, CleaningPicks
      <3> QED
        BY <3>1, PicksKeepLists, PickedLower DEF LowerThen, ListPicks, StoredOK
    <2>2. CASE ~CleanedUp(o)
      <3>1. filters' = filters
        BY <2>2 DEF Acting, NothingListed, Check, Green, Refused, CleanupFailed
      <3> QED
        BY <3>1 DEF LowerThen, StoredOK
    <2> QED
      BY <2>1, <2>2
  <1>3. /\ Grown
        /\ Green(o) => \A r \in opening[o].batch : r.rule \in imported'[opening[o].account]
    <2>1. CASE opening[o].pc = "importing" /\ Imported(o)
      BY <2>1, ImportsGrow
    <2>2. CASE ~(opening[o].pc = "importing" /\ Imported(o))
      <3>1. imported' = imported /\ ~Green(o)
        BY <2>2 DEF Acting, NothingListed, Check, Green, Refused, CleanedUp, CleanupFailed, History
      <3> QED
        BY <3>1, ImportedStays
    <2> QED
      BY <2>1, <2>2
  <1>4. /\ deleted' = [a \in Account |-> deleted'[a]]
        /\ \A a \in Account : \A f \in deleted'[a] : Ruled(f) \in imported'[a]
    <2>1. CASE CleanedUp(o)
      BY <2>1, CleaningStored
    <2>2. CASE ~CleanedUp(o)
      <3>1. deleted' = deleted
        BY <2>2 DEF Acting, NothingListed, Check, Green, Refused, CleanupFailed, History
      <3> QED
        BY <1>3, <3>1, DeletedStays
    <2> QED
      BY <2>1, <2>2
  <1>5. opening'[o].pc # "idle" => Known(opening'[o].listed, filters'[opening'[o].account])
    <2>1. opening[o].account \in Account
      BY <1>1 DEF ImportOK, OpeningOK
    <2>2. Known(opening[o].listed, filters[opening[o].account])
      BY <1>1 DEF StoredOK
    <2>3. Known(opening[o].listed, filters'[opening[o].account])
      BY <1>2, <2>1, <2>2, KnownInLess
    <2> QED
      BY <1>1, <2>3
  <1>6. ASSUME opening'[o].pc = "deleting", NEW r \in opening[o].batch
        PROVE  r.rule \in imported'[opening[o].account]
    <2>1. CASE Green(o)
      BY <1>3, <2>1
    <2>2. CASE opening[o].pc = "deleting"
      <3>1. opening[o].account \in Account
        BY <2>2 DEF ImportOK, OpeningOK
      <3>2. r.rule \in imported[opening[o].account]
        BY <2>2 DEF StoredOK
      <3> QED
        BY <1>3, <3>1, <3>2 DEF Grown
    <2> QED
      BY <1>1, <1>6, <2>1, <2>2
  <1>7. KnownThen /\ SentThen
    BY <1>1, <1>2, <1>3, <1>5, <1>6, OthersKnown DEF KnownThen, SentThen
  <1> QED
    BY <1>2, <1>3, <1>4, <1>7, StoredThen

LEMMA StoredOKNext ==
    ASSUME AllRead, NamesApart, ImportOK, StoredOK,
           [ImportNext]_importVars, [RenamesAreNew]_importVars
    PROVE  StoredOK'
  <1>1. CASE UNCHANGED importVars
    <2>1. /\ opening' = opening /\ filters' = filters /\ imported' = imported /\ deleted' = deleted
      BY <1>1 DEF importVars
    <2>2. Grown /\ LowerThen /\ KnownThen /\ SentThen
      BY <2>1, ImportedStays DEF StoredOK, LowerThen, KnownThen, SentThen
    <2> QED
      BY <2>1, <2>2, DeletedStays, StoredThen
  <1>2. CASE CheckCleanup
    <2>1. /\ opening' = opening /\ filters' = filters /\ imported' = imported /\ deleted' = deleted
      BY <1>2 DEF CheckCleanup, History
    <2>2. Grown /\ LowerThen /\ KnownThen /\ SentThen
      BY <2>1, ImportedStays DEF StoredOK, LowerThen, KnownThen, SentThen
    <2> QED
      BY <2>1, <2>2, DeletedStays, StoredThen
  <1>3. ASSUME NEW a \in Account, NEW i \in DOMAIN filters[a], UserRenames(a, i),
               ~UNCHANGED importVars
        PROVE  StoredOK'
    BY <1>3, RenamesStored
  <1> QED
    BY <1>1, <1>2, <1>3, OpensStored, ListsStored, ConfirmsStored, ClosesStored, RemovesStored,
       ActingStored DEF ImportNext, Acting

(***************************************************************************)
(* For any accounts, filters and openings: when every term and every       *)
(* action can be read, the names of a list differ in more than case and no *)
(* filter is given the name of one that an opening has listed, a filter    *)
(* that the clean-up removed has its rule on the server, however the       *)
(* answers, the closing of the dialog and the next openings interleave.    *)
(* (openImportDialog, manager.js; deleteLocalFilters, implementation.js.)  *)
(***************************************************************************)
THEOREM DeletedHaveRules ==
    ASSUME AllRead, NamesApart, LowerNamesApart
    PROVE  ImportSpec /\ [][RenamesAreNew]_importVars => []DeletedIsStored
  <1> DEFINE IInv == ImportOK /\ StoredOK
  <1>1. ImportInit => IInv
    BY ImportOKInit, StoredOKInit
  <1>2. IInv /\ [ImportNext]_importVars /\ [RenamesAreNew]_importVars => IInv'
    BY ImportOKNext, StoredOKNext
  <1>3. IInv => DeletedIsStored
    BY DEF StoredOK
  <1> QED
    BY <1>1, <1>2, <1>3, PTL DEF ImportSpec
=============================================================================
