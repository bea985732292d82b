------------------------- MODULE Background_proofs --------------------------
(***************************************************************************)
(* The rule commands, for any mailboxes, commands, faults and bounds.      *)
(*                                                                         *)
(* Which calls are harmless: an edit of a combined filter, the deletion of *)
(* a v1 filter; a harmless call, whenever it is carried out, leaves every  *)
(* other one harmless.  Type correctness, and that no call of any client   *)
(* ever touches a foreign filter or removes a combined one; when there is  *)
(* never a second combined filter.                                         *)
(*                                                                         *)
(* What becomes of the rules themselves: no rule is stored twice, what a   *)
(* user was told is what mailcow holds, and the handlers of background.js  *)
(* implement the atomic rule list of RuleStore.                            *)
(***************************************************************************)
EXTENDS BackgroundRefinement, RuleList_proofs

-----------------------------------------------------------------------------
(***************************************************************************)
(* The table, and the calls that write it.                                 *)
(***************************************************************************)

\* An id that was read before may by now be gone, but it names no other filter.
Harmless(t, next, m) ==
    /\ m.op = "edit" => m.id \in OfKind(t, "v2")
    /\ m.op = "delete" => m.id < next /\ (m.id \in DOMAIN t => m.id \in OfKind(t, "v1"))

IdsBelow(t, next) == \A id \in DOMAIN t : id < next

LEMMA MessageFields ==
    ASSUME NEW m \in Messages
    PROVE  /\ m.op \in {"add", "edit", "delete"}
           /\ m.op # "add" => m.id \in FilterIds
           /\ m.rules \in Seq(Rules)
  <1>1. CASE m \in [op : {"add"}, id : {NoFilter}, rules : Seq(Rules)]
    BY <1>1
  <1>2. CASE m \in [op : {"edit"}, id : FilterIds, rules : Seq(Rules)]
    BY <1>2
  <1>3. CASE m \in [op : {"delete"}, id : FilterIds, rules : {<<>>}]
    BY <1>3, EmptySeq
  <1> QED
    BY <1>1, <1>2, <1>3 DEF Messages

LEMMA WriteOfType ==
    ASSUME NEW id \in Nat, NEW rules \in Seq(Rules)
    PROVE  WriteOf(id, rules) \in Messages
  <1>1. CASE id = NoFilter
    BY <1>1 DEF WriteOf, Messages
  <1>2. CASE id # NoFilter
    BY <1>2 DEF WriteOf, Messages, FilterIds
  <1> QED
    BY <1>1, <1>2

LEMMA DeletionOfType ==
    ASSUME NEW id \in FilterIds
    PROVE  DeletionOf(id) \in Messages
  BY DEF DeletionOf, Messages

LEMMA PutFacts ==
    ASSUME NEW t, IsTable(t), NEW id \in FilterIds, NEW rules \in Seq(Rules)
    PROVE  LET u == Put(t, id, rules)
           IN  /\ IsTable(u)
               /\ DOMAIN u = DOMAIN t \cup {id}
               /\ OfKind(u, "v2") = OfKind(t, "v2") \cup {id}
               /\ OfKind(u, "v1") = OfKind(t, "v1") \ {id}
               /\ OfKind(u, "foreign") = OfKind(t, "foreign") \ {id}
  <1> DEFINE u == Put(t, id, rules)
             row == [kind |-> "v2", active |-> TRUE, rules |-> rules]
  <1>1. DOMAIN u = DOMAIN t \cup {id} /\ u = [x \in DOMAIN u |-> u[x]]
    BY DEF Put
  <1>2. IsFiniteSet(DOMAIN u) /\ DOMAIN u \subseteq FilterIds
    BY <1>1, FS_AddElement DEF IsTable
  <1>3. u[id] = row
    BY DEF Put
  <1>4. row \in Rows
    BY DEF Rows, Kinds
  <1>5. ASSUME NEW x \in DOMAIN t \ {id}
        PROVE  u[x] \in Rows /\ u[x].kind = t[x].kind /\ u[x].rules = t[x].rules
    <2>1. u[x] = [t[x] EXCEPT !.active = FALSE]
      BY DEF Put
    <2>2. ASSUME NEW r \in Rows
          PROVE  LET s == [r EXCEPT !.active = FALSE]
                 IN  s \in Rows /\ s.kind = r.kind /\ s.rules = r.rules
      BY DEF Rows
    <2>3. t[x] \in Rows
      BY DEF IsTable
    <2> HIDE DEF u
    <2> QED
      BY <2>1, <2>2, <2>3
  <1> HIDE DEF u
  <1>6. \A x \in DOMAIN u : u[x] \in Rows
    BY <1>1, <1>3, <1>4, <1>5
  <1>7. \A x \in DOMAIN u : u[x].kind = "v1" => Len(u[x].rules) = 1
    BY <1>1, <1>3, <1>5 DEF IsTable
  <1>8. IsTable(u)
    BY <1>1, <1>2, <1>6, <1>7 DEF IsTable
  <1>9. u[id].kind = "v2"
    BY <1>3
  <1>10. /\ OfKind(u, "v2") = OfKind(t, "v2") \cup {id}
         /\ OfKind(u, "v1") = OfKind(t, "v1") \ {id}
         /\ OfKind(u, "foreign") = OfKind(t, "foreign") \ {id}
    BY <1>1, <1>5, <1>9 DEF OfKind
  <1> QED
    BY <1>1, <1>8, <1>10 DEF u

LEMMA WithoutFacts ==
    ASSUME NEW t, IsTable(t), NEW id
    PROVE  LET u == Without(t, id)
           IN  /\ IsTable(u)
               /\ DOMAIN u = DOMAIN t \ {id}
               /\ \A kind : OfKind(u, kind) = OfKind(t, kind) \ {id}
  <1> DEFINE u == Without(t, id)
  <1>1. /\ DOMAIN u = DOMAIN t \ {id}
        /\ u = [x \in DOMAIN u |-> u[x]]
        /\ \A x \in DOMAIN u : u[x] = t[x]
    BY DEF Without
  <1> HIDE DEF u
  <1>2. IsFiniteSet(DOMAIN u)
    BY <1>1, FS_RemoveElement DEF IsTable
  <1>3. IsTable(u)
    BY <1>1, <1>2 DEF IsTable
  <1>4. \A kind : OfKind(u, kind) = OfKind(t, kind) \ {id}
    BY <1>1 DEF OfKind
  <1> QED
    BY <1>1, <1>3, <1>4 DEF u

LEMMA AfterAdd ==
    ASSUME NEW t, IsTable(t), NEW next \in FilterIds, NEW m \in Messages, m.op = "add"
    PROVE  LET u == After(t, next, m)
           IN  /\ IsTable(u)
               /\ DOMAIN u = DOMAIN t \cup {next}
               /\ OfKind(u, "v2") = OfKind(t, "v2") \cup {next}
               /\ OfKind(u, "v1") = OfKind(t, "v1") \ {next}
               /\ OfKind(u, "foreign") = OfKind(t, "foreign") \ {next}
  <1>1. After(t, next, m) = Put(t, next, m.rules) /\ m.rules \in Seq(Rules)
    BY MessageFields DEF After
  <1> DEFINE u == Put(t, next, m.rules)
  <1>2. /\ IsTable(u)
        /\ DOMAIN u = DOMAIN t \cup {next}
        /\ OfKind(u, "v2") = OfKind(t, "v2") \cup {next}
        /\ OfKind(u, "v1") = OfKind(t, "v1") \ {next}
        /\ OfKind(u, "foreign") = OfKind(t, "foreign") \ {next}
    BY <1>1, PutFacts
  <1> QED
    BY <1>1, <1>2

LEMMA AfterEdit ==
    ASSUME NEW t, IsTable(t), NEW next, NEW m \in Messages, m.op = "edit", Accepts(t, m)
    PROVE  LET u == After(t, next, m)
           IN  /\ IsTable(u)
               /\ DOMAIN u = DOMAIN t
               /\ OfKind(u, "v2") = OfKind(t, "v2") \cup {m.id}
               /\ OfKind(u, "v1") = OfKind(t, "v1") \ {m.id}
               /\ OfKind(u, "foreign") = OfKind(t, "foreign") \ {m.id}
               /\ NextIdAfter(next, m) = next
  <1> DEFINE id == m.id
             u == Put(t, id, m.rules)
  <1>1. /\ After(t, next, m) = u
        /\ id \in FilterIds /\ m.rules \in Seq(Rules)
        /\ NextIdAfter(next, m) = next
    BY MessageFields DEF After, NextIdAfter
  <1>2. DOMAIN t \cup {id} = DOMAIN t
    BY DEF Accepts
  <1> HIDE DEF id
  <1>3. /\ IsTable(u)
        /\ DOMAIN u = DOMAIN t \cup {id}
        /\ OfKind(u, "v2") = OfKind(t, "v2") \cup {id}
        /\ OfKind(u, "v1") = OfKind(t, "v1") \ {id}
        /\ OfKind(u, "foreign") = OfKind(t, "foreign") \ {id}
    BY <1>1, PutFacts
  <1> QED
    BY <1>1, <1>2, <1>3 DEF id

LEMMA AfterDelete ==
    ASSUME NEW t, IsTable(t), NEW next, NEW m \in Messages, m.op = "delete"
    PROVE  LET u == After(t, next, m)
           IN  /\ IsTable(u)
               /\ DOMAIN u = DOMAIN t \ {m.id}
               /\ OfKind(u, "v2") = OfKind(t, "v2") \ {m.id}
               /\ OfKind(u, "v1") = OfKind(t, "v1") \ {m.id}
               /\ OfKind(u, "foreign") = OfKind(t, "foreign") \ {m.id}
               /\ NextIdAfter(next, m) = next
  <1> DEFINE id == m.id
             u == Without(t, id)
  <1>1. After(t, next, m) = u /\ NextIdAfter(next, m) = next
    BY DEF After, NextIdAfter
  <1> HIDE DEF id
  <1>2. /\ IsTable(u)
        /\ DOMAIN u = DOMAIN t \ {id}
        /\ OfKind(u, "v2") = OfKind(t, "v2") \ {id}
        /\ OfKind(u, "v1") = OfKind(t, "v1") \ {id}
        /\ OfKind(u, "foreign") = OfKind(t, "foreign") \ {id}
    BY WithoutFacts, ZenonT(60)
  <1> QED
    BY <1>1, <1>2 DEF id

LEMMA AfterType ==
    ASSUME NEW t, IsTable(t), NEW next \in FilterIds, IdsBelow(t, next),
           NEW m \in Messages, Accepts(t, m)
    PROVE  /\ IsTable(After(t, next, m))
           /\ NextIdAfter(next, m) \in FilterIds
           /\ next <= NextIdAfter(next, m)
           /\ IdsBelow(After(t, next, m), NextIdAfter(next, m))
  <1> DEFINE u == After(t, next, m)
             after == NextIdAfter(next, m)
  <1>1. DOMAIN t \subseteq Nat /\ next \in Nat /\ next # 0
    BY DEF IsTable, FilterIds, NoFilter
  <1>2. /\ IsTable(u)
        /\ \/ DOMAIN u = DOMAIN t \cup {next} /\ after = next + 1
           \/ DOMAIN u \subseteq DOMAIN t /\ after = next
    <2>1. CASE m.op = "add"
      <3>1. IsTable(u) /\ DOMAIN u = DOMAIN t \cup {next}
        BY <2>1, AfterAdd
      <3>2. after = next + 1
        BY <2>1 DEF NextIdAfter
      <3> QED
        BY <3>1, <3>2
    <2>2. CASE m.op = "edit"
      BY <2>2, AfterEdit
    <2>3. CASE m.op = "delete"
      <3>1. IsTable(u) /\ DOMAIN u = DOMAIN t \ {m.id} /\ after = next
        BY <2>3, AfterDelete
      <3> QED
        BY <3>1
    <2> QED
      BY <2>1, <2>2, <2>3, MessageFields
  <1> HIDE DEF u, after
  <1>3. after \in Nat /\ after # 0 /\ next <= after
    BY <1>1, <1>2
  <1>4. IdsBelow(u, after)
    BY <1>1, <1>2 DEF IdsBelow
  <1> QED
    BY <1>2, <1>3, <1>4 DEF u, after, FilterIds, NoFilter

\* A harmless call deletes v1 filters only and changes no filter's kind.
LEMMA HarmlessKeepsKinds ==
    ASSUME NEW t, IsTable(t), NEW next \in FilterIds, IdsBelow(t, next),
           NEW m \in Messages, Accepts(t, m), Harmless(t, next, m)
    PROVE  LET u == After(t, next, m)
           IN  /\ OfKind(t, "foreign") \subseteq OfKind(u, "foreign")
               /\ OfKind(t, "v2") \subseteq OfKind(u, "v2")
               /\ OfKind(t, "v1") \cap DOMAIN u \subseteq OfKind(u, "v1")
               /\ \A id \in DOMAIN u : id < next => id \in DOMAIN t
  <1> DEFINE u == After(t, next, m)
  <1>1. /\ OfKind(t, "v1") \cap OfKind(t, "v2") = {}
        /\ OfKind(t, "foreign") \cap OfKind(t, "v2") = {}
        /\ OfKind(t, "foreign") \cap OfKind(t, "v1") = {}
        /\ OfKind(t, "v1") \subseteq DOMAIN t
        /\ OfKind(t, "v2") \subseteq DOMAIN t
        /\ OfKind(t, "foreign") \subseteq DOMAIN t
    BY DEF OfKind
  <1>2. CASE m.op = "add"
    <2>1. next \notin DOMAIN t /\ ~(next < next)
      BY DEF IdsBelow, FilterIds
    <2>2. /\ DOMAIN u = DOMAIN t \cup {next}
          /\ OfKind(u, "v2") = OfKind(t, "v2") \cup {next}
          /\ OfKind(u, "v1") = OfKind(t, "v1") \ {next}
          /\ OfKind(u, "foreign") = OfKind(t, "foreign") \ {next}
      BY <1>2, AfterAdd, ZenonT(90)
    <2> HIDE DEF u
    <2> QED
      BY <1>1, <2>1, <2>2 DEF u
  <1>3. CASE m.op = "edit"
    <2>1. m.id \in OfKind(t, "v2")
      BY <1>3 DEF Harmless
    <2>2. /\ DOMAIN u = DOMAIN t
          /\ OfKind(u, "v2") = OfKind(t, "v2") \cup {m.id}
          /\ OfKind(u, "v1") = OfKind(t, "v1") \ {m.id}
          /\ OfKind(u, "foreign") = OfKind(t, "foreign") \ {m.id}
      BY <1>3, AfterEdit
    <2> HIDE DEF u
    <2> QED
      BY <1>1, <2>1, <2>2 DEF u
  <1>4. CASE m.op = "delete"
    <2>1. m.id \in DOMAIN t => m.id \in OfKind(t, "v1")
      BY <1>4 DEF Harmless
    <2>2. /\ DOMAIN u = DOMAIN t \ {m.id}
          /\ OfKind(u, "v2") = OfKind(t, "v2") \ {m.id}
          /\ OfKind(u, "v1") = OfKind(t, "v1") \ {m.id}
          /\ OfKind(u, "foreign") = OfKind(t, "foreign") \ {m.id}
      BY <1>4, AfterDelete
    <2> HIDE DEF u
    <2> QED
      BY <1>1, <2>1, <2>2 DEF u
  <1> QED
    BY <1>2, <1>3, <1>4, MessageFields

\* Calls that overtake each other stay harmless.
LEMMA HarmlessStays ==
    ASSUME NEW t, IsTable(t), NEW next \in FilterIds, IdsBelow(t, next),
           NEW m \in Messages, Accepts(t, m), Harmless(t, next, m),
           NEW other \in Messages, Harmless(t, next, other)
    PROVE  Harmless(After(t, next, m), NextIdAfter(next, m), other)
  <1>1. CASE other.op = "edit"
    BY <1>1, HarmlessKeepsKinds DEF Harmless
  <1>2. CASE other.op = "delete"
    <2>1. other.id \in Nat /\ other.id < next /\ next \in Nat
      BY <1>2, MessageFields DEF Harmless, FilterIds
    <2>2. NextIdAfter(next, m) \in Nat /\ next <= NextIdAfter(next, m)
      BY AfterType DEF FilterIds
    <2>3. other.id < NextIdAfter(next, m)
      BY <2>1, <2>2
    <2> QED
      BY <1>2, <2>1, <2>3, HarmlessKeepsKinds DEF Harmless
  <1> QED
    BY <1>1, <1>2 DEF Harmless

USE BackgroundAssumption

-----------------------------------------------------------------------------
(***************************************************************************)
(* What a client reads.                                                    *)
(***************************************************************************)
LEMMA CanonIdFacts ==
    ASSUME NEW t, IsTable(t)
    PROVE  /\ CanonId(t) \in Nat
           /\ V2(t) = {} => CanonId(t) = NoFilter
           /\ V2(t) # {} => CanonId(t) \in V2(t)
           /\ CanonId(t) # NoFilter => CanonId(t) \in V2(t)
  <1>1. V2(t) \in SUBSET Nat
    BY DEF V2, OfKind, IsTable, FilterIds
  <1>2. CASE V2(t) = {}
    BY <1>2 DEF CanonId, NoFilter
  <1>3. CASE V2(t) # {}
    <2> DEFINE S == V2(t)
    <2> HIDE DEF S
    <2>1. \E x \in S : \A y \in S : x <= y
      BY <1>1, <1>3, LeastNat DEF S
    <2>2. Min(S) \in S
      BY <2>1 DEF Min
    <2> QED
      BY <1>1, <1>3, <2>2 DEF CanonId, S
  <1> QED
    BY <1>2, <1>3

LEMMA CanonRulesType ==
    ASSUME NEW t, IsTable(t)
    PROVE  CanonRules(t) \in Seq(Rules)
  <1>1. CASE V2(t) # {}
    <2> DEFINE id == CanonId(t)
    <2>1. id \in DOMAIN t
      BY <1>1, CanonIdFacts DEF V2, OfKind
    <2>2. t[id] \in Rows
      BY <2>1 DEF IsTable
    <2>3. t[id].rules \in Seq(Rules)
      BY <2>2 DEF Rows
    <2> HIDE DEF id
    <2> QED
      BY <2>3, EmptySeq DEF CanonRules, id
  <1>2. CASE V2(t) = {}
    BY <1>2, EmptySeq DEF CanonRules
  <1> QED
    BY <1>1, <1>2

LEMMA CopiesFacts ==
    ASSUME NEW t, IsTable(t), NEW fresh \in Nat, NEW order \in SetToSeqs(ToMigrate(t))
    PROVE  Copies(t, order, fresh) \in Seq(Rules) /\ Len(order) \in Nat
  <1> DEFINE n == Cardinality(ToMigrate(t))
  <1>1. ToMigrate(t) \subseteq V1(t) /\ V1(t) \subseteq DOMAIN t
    BY DEF ToMigrate, V1, OfKind
  <1>2. n \in Nat
    BY <1>1, FS_Subset, FS_CardinalityType DEF IsTable
  <1> HIDE DEF n
  <1>3. order \in [1 .. n -> ToMigrate(t)]
    BY DEF SetToSeqs, n
  <1>4. order \in Seq(ToMigrate(t)) /\ Len(order) = n
    BY <1>2, <1>3, FunctionIsSeq
  <1>5. ASSUME NEW i \in 1 .. n
        PROVE  [t[order[i]].rules[1] EXCEPT !.id = fresh + i - 1, !.active = t[order[i]].active]
                 \in Rules
    <2> DEFINE row == t[order[i]]
    <2>1. order[i] \in DOMAIN t /\ order[i] \in V1(t)
      BY <1>1, <1>3
    <2>2. row \in Rows /\ row.kind = "v1"
      BY <2>1 DEF IsTable, V1, OfKind
    <2>3. row.rules # <<>>
      <3>1. Len(row.rules) = 1
        BY <2>1, <2>2 DEF IsTable
      <3> QED
        BY <3>1, NotEmpty
    <2> HIDE DEF row
    <2>4. row.rules \in Seq(Rules) /\ row.active \in BOOLEAN
      BY <2>2 DEF Rows
    <2>5. row.rules[1] \in Rules
      <3> DEFINE rs == row.rules
      <3> HIDE DEF rs
      <3>1. rs \in Seq(Rules) /\ rs # <<>>
        BY <2>3, <2>4 DEF rs
      <3>2. 1 \in 1 .. Len(rs)
        BY <3>1, EmptySeq
      <3>3. rs[1] \in Rules
        BY <3>1, <3>2, ElementOfSeq
      <3> QED
        BY <3>3 DEF rs
    <2>6. fresh + i - 1 \in Nat
      BY <1>2
    <2>7. ASSUME NEW r \in Rules, NEW id \in Nat, NEW active \in BOOLEAN
          PROVE  [r EXCEPT !.id = id, !.active = active] \in Rules
      BY DEF Rules
    <2> QED
      BY <2>4, <2>5, <2>6, <2>7 DEF row
  <1>6. DOMAIN order = 1 .. n
    BY <1>3
  <1>7. Copies(t, order, fresh) \in [1 .. n -> Rules]
    BY <1>5, <1>6 DEF Copies
  <1> QED
    BY <1>2, <1>4, <1>7, FunctionIsSeq

-----------------------------------------------------------------------------
(***************************************************************************)
(* Type correctness.                                                       *)
(***************************************************************************)
Contexts == [id : Nat, rules : Seq(Rules)]
Replies == [ok : BOOLEAN, wrote : BOOLEAN, rules : Seq(Rules), again : SUBSET CommandType]

LEMMA ContextMessages ==
    ASSUME ClientOK, NEW c \in Client
    PROVE  /\ ctx[c].id \in Nat /\ ctx[c].rules \in Seq(Rules)
           /\ WriteOf(ctx[c].id, ctx[c].rules) \in Messages
           /\ \A id \in legacy[c] : DeletionOf(id) \in Messages
  <1>1. ctx[c] \in Contexts /\ legacy[c] \subseteq FilterIds
    BY DEF ClientOK, Contexts
  <1> DEFINE i == ctx[c].id
             r == ctx[c].rules
  <1>2. i \in Nat /\ r \in Seq(Rules)
    BY <1>1 DEF Contexts
  <1> HIDE DEF i, r
  <1>3. WriteOf(i, r) \in Messages
    BY <1>2, WriteOfType
  <1> QED
    BY <1>1, <1>2, <1>3, DeletionOfType DEF i, r

LEMMA CarriedOutType ==
    ASSUME ServerOK, NEW m \in Messages, CarriedOut(m)
    PROVE  ServerOK' /\ nextId <= nextId'
  <1>1. IsTable(table) /\ nextId \in FilterIds /\ IdsBelow(table, nextId)
    BY DEF ServerOK, IdsBelow
  <1>2. /\ Accepts(table, m)
        /\ table' = After(table, nextId, m)
        /\ nextId' = NextIdAfter(nextId, m)
    BY DEF CarriedOut
  <1>3. IsTable(table') /\ nextId' \in FilterIds /\ nextId <= nextId' /\ IdsBelow(table', nextId')
    BY <1>1, <1>2, AfterType
  <1> QED
    BY <1>3 DEF ServerOK, IdsBelow

LEMMA GivenUpType ==
    ASSUME NetworkOK, NEW m \in Messages, late < MaxLate,
           late' = late + 1, stray' = stray \cup {<<late, m>>}, UNCHANGED faults
    PROVE  NetworkOK'
  BY DEF NetworkOK

LEMMA FateType ==
    ASSUME ServerOK, NetworkOK, NEW m \in Messages, Delivered(m) \/ Failed(m)
    PROVE  ServerOK' /\ NetworkOK'
  <1>1. CASE Delivered(m)
    BY <1>1, CarriedOutType DEF Delivered, network, NetworkOK
  <1>2. CASE Refused(m)
    BY <1>2 DEF Refused, server, network, ServerOK, NetworkOK
  <1>3. CASE LostBefore(m)
    BY <1>3 DEF LostBefore, Fault, server, ServerOK, NetworkOK
  <1>4. CASE LostAfter(m)
    BY <1>4, CarriedOutType DEF LostAfter, Fault, NetworkOK
  <1>5. CASE GivenUp(m)
    BY <1>5, GivenUpType DEF GivenUp, server, ServerOK
  <1> QED
    BY <1>1, <1>2, <1>3, <1>4, <1>5 DEF Failed

LEMMA AnswerType ==
    ASSUME ClientOK, NEW c \in Client, queue[c] # <<>>,
           NEW reply \in Replies, Answer(c, reply), UNCHANGED nextRule
    PROVE  ClientOK'
  <1>1. queue[c] \in Seq(CommandType) /\ Tail(queue[c]) \in Seq(CommandType)
    BY HeadTailProperties DEF ClientOK
  <1>2. NoCtx \in Contexts
    BY EmptySeq DEF NoCtx, Contexts, NoFilter
  <1>3. /\ queue' = [queue EXCEPT ![c] = Tail(queue[c])]
        /\ known' = [known EXCEPT ![c] = reply]
        /\ ctx' = [ctx EXCEPT ![c] = NoCtx]
        /\ legacy' = [legacy EXCEPT ![c] = {}]
        /\ stage' = [stage EXCEPT ![c] = "idle"]
    BY DEF Answer, GoTo
  <1>4. /\ nextRule' \in Nat \ {NoId}
        /\ queue' \in [Client -> Seq(CommandType)]
        /\ stage' \in [Client -> Stages]
        /\ ctx' \in [Client -> Contexts]
        /\ legacy' \in [Client -> SUBSET FilterIds]
        /\ known' \in [Client -> Replies]
    BY <1>1, <1>2, <1>3 DEF ClientOK, Contexts, Replies, Stages
  <1>5. \A d \in Client : stage'[d] # "idle" => queue'[d] # <<>>
    BY <1>3 DEF ClientOK
  <1>6. \A d \in Client :
            stage'[d] \in {"migrating", "relisting", "purging"} <=> legacy'[d] # {}
    BY <1>3 DEF ClientOK
  <1> QED
    BY <1>4, <1>5, <1>6 DEF ClientOK, Contexts, Replies

\* The command that runs is a message of the contract.
LEMMA RunningType ==
    ASSUME ClientOK, NEW c \in Client, queue[c] # <<>>
    PROVE  Running(c) \in CommandType
  BY HeadTailProperties DEF ClientOK, Running

\* What a successful command answers.
LEMMA SuccessType ==
    ASSUME ClientOK, NEW c \in Client, NEW wrote \in BOOLEAN
    PROVE  Success(c, wrote) \in Replies
  BY ContextMessages DEF Success, Replies

LEMMA NothingType == Nothing \in Replies
  BY EmptySeq DEF Nothing, Replies

\* What a failed command answers.
LEMMA ErrorType ==
    ASSUME ClientOK, NEW c \in Client, queue[c] # <<>>
    PROVE  Error(c) \in Replies
  <1>1. ASSUME NEW r \in Replies, NEW cmds \in SUBSET CommandType
        PROVE  [r EXCEPT !.again = cmds] \in Replies
    BY DEF Replies
  <1>2. (IF Running(c).op \in {"saveRule", "importLocalFilters"} THEN {Running(c)} ELSE {})
          \in SUBSET CommandType
    BY RunningType
  <1> QED
    BY <1>1, <1>2, NothingType DEF Error

\* A step that moves c from one await of its running command to another.
LEMMA MoveType ==
    ASSUME ClientOK, NEW c \in Client, queue[c] # <<>>, UNCHANGED <<queue, known>>,
           nextRule' \in Nat, nextRule <= nextRule',
           NEW s \in Stages, GoTo(c, s),
           NEW x \in Contexts, ctx' = [ctx EXCEPT ![c] = x],
           NEW ids \in SUBSET FilterIds, legacy' = [legacy EXCEPT ![c] = ids],
           s \in {"migrating", "relisting", "purging"} <=> ids # {}
    PROVE  ClientOK'
  <1>1. stage' = [stage EXCEPT ![c] = s]
    BY DEF GoTo
  <1>2. nextRule' \in Nat \ {NoId}
    BY DEF ClientOK, NoId
  <1>3. /\ queue' \in [Client -> Seq(CommandType)]
        /\ stage' \in [Client -> Stages]
        /\ ctx' \in [Client -> Contexts]
        /\ legacy' \in [Client -> SUBSET FilterIds]
        /\ known' \in [Client -> Replies]
    BY <1>1 DEF ClientOK, Contexts, Replies
  <1>4. \A d \in Client : stage'[d] # "idle" => queue'[d] # <<>>
    BY <1>1 DEF ClientOK
  <1>5. \A d \in Client :
            stage'[d] \in {"migrating", "relisting", "purging"} <=> legacy'[d] # {}
    <2> SUFFICES ASSUME NEW d \in Client
                 PROVE  stage'[d] \in {"migrating", "relisting", "purging"} <=> legacy'[d] # {}
      OBVIOUS
    <2>1. CASE d = c
      BY <1>1, <2>1 DEF ClientOK
    <2>2. CASE d # c
      BY <1>1, <2>2 DEF ClientOK
    <2> QED
      BY <2>1, <2>2
  <1> QED
    BY <1>2, <1>3, <1>4, <1>5 DEF ClientOK, Contexts, Replies

\* A command joins the end of c's queue, and c's answer may be forgotten.
LEMMA EnqueueType ==
    ASSUME ClientOK, NEW c \in Client, NEW cmd \in CommandType,
           queue' = [queue EXCEPT ![c] = Append(@, cmd)],
           known' = known \/ known' = [known EXCEPT ![c] = Nothing],
           nextRule' \in Nat, nextRule <= nextRule',
           UNCHANGED <<stage, ctx, legacy>>
    PROVE  ClientOK'
  <1> DEFINE longer == Append(queue[c], cmd)
  <1>1. longer \in Seq(CommandType) /\ longer # <<>>
    <2> DEFINE before == queue[c]
    <2>1. before \in Seq(CommandType)
      BY DEF ClientOK
    <2> HIDE DEF before
    <2> QED
      BY <2>1, AppendProperties, EmptySeq DEF longer, before
  <1>2. queue' = [queue EXCEPT ![c] = longer]
    OBVIOUS
  <1> HIDE DEF longer
  <1>3. /\ queue' \in [Client -> Seq(CommandType)]
        /\ \A d \in Client : stage[d] # "idle" => queue'[d] # <<>>
    BY <1>1, <1>2, ZenonT(60) DEF ClientOK
  <1>4. known' \in [Client -> Replies]
    BY NothingType DEF ClientOK, Replies
  <1>5. nextRule' \in Nat \ {NoId}
    BY DEF ClientOK, NoId
  <1> QED
    BY <1>3, <1>4, <1>5 DEF ClientOK, Replies

LEMMA IssueType ==
    ASSUME TypeOK, NEW c \in Client, NEW cmd \in Commands, Issue(c, cmd)
    PROVE  TypeOK'
  <1>1. ServerOK' /\ NetworkOK'
    BY DEF TypeOK, Issue, ServerOK, NetworkOK, server, network
  <1> DEFINE sent == Stamped(cmd, nextRule)
  <1>2. cmd \in CommandType /\ nextRule \in Nat
    BY DEF TypeOK, ClientOK
  <1>3. sent \in CommandType /\ Minted(cmd) \in Nat
    BY <1>2, StampedType, MintedType
  <1>4. /\ queue' = [queue EXCEPT ![c] = Append(@, sent)]
        /\ nextRule' = nextRule + Minted(cmd)
        /\ UNCHANGED <<stage, ctx, legacy, known>>
    BY DEF Issue
  <1> HIDE DEF sent
  <1>5. nextRule' \in Nat /\ nextRule <= nextRule'
    BY <1>2, <1>3, <1>4
  <1>6. ClientOK'
    BY <1>3, <1>4, <1>5, EnqueueType DEF TypeOK
  <1>7. adopted' \subseteq FilterIds /\ issued' \in 0 .. MaxOps
    BY DEF TypeOK, Issue
  <1> QED
    BY <1>1, <1>6, <1>7 DEF TypeOK

LEMMA RepeatType ==
    ASSUME TypeOK, NEW c \in Client, Repeat(c)
    PROVE  TypeOK'
  <1>1. ServerOK' /\ NetworkOK'
    BY DEF TypeOK, Repeat, ServerOK, NetworkOK, server, network
  <1>2. PICK cmd \in known[c].again : queue' = [queue EXCEPT ![c] = Append(@, cmd)]
    BY DEF Repeat
  <1>3. cmd \in CommandType
    BY DEF TypeOK, ClientOK
  <1>4. known' = [known EXCEPT ![c] = Nothing] /\ UNCHANGED <<nextRule, stage, ctx, legacy>>
    BY DEF Repeat
  <1>5. nextRule' \in Nat /\ nextRule <= nextRule'
    BY <1>4 DEF TypeOK, ClientOK
  <1>6. ClientOK'
    BY <1>2, <1>3, <1>4, <1>5, EnqueueType DEF TypeOK
  <1>7. adopted' \subseteq FilterIds /\ issued' \in 0 .. MaxOps
    BY DEF TypeOK, Repeat
  <1> QED
    BY <1>1, <1>6, <1>7 DEF TypeOK

LEMMA LoadType ==
    ASSUME TypeOK, NEW c \in Client, Load(c)
    PROVE  TypeOK'
  <1>1. ServerOK' /\ NetworkOK'
    BY DEF TypeOK, Load, ServerOK, NetworkOK, server, network
  <1>2. Loaded(table) \in Contexts
    BY CanonIdFacts, CanonRulesType DEF TypeOK, ServerOK, Loaded, Contexts
  <1>3. ctx' = [ctx EXCEPT ![c] = Loaded(table)]
    BY DEF Load
  <1>4. legacy[c] = {} /\ legacy' = [legacy EXCEPT ![c] = {}]
    BY DEF Load, TypeOK, ClientOK
  <1>5. GoTo(c, "ready") /\ queue[c] # <<>> /\ UNCHANGED <<queue, known, nextRule>>
    BY DEF Load
  <1>6. nextRule \in Nat /\ nextRule <= nextRule' /\ nextRule' \in Nat
    BY <1>5 DEF TypeOK, ClientOK
  <1>7. ClientOK'
    BY <1>2, <1>3, <1>4, <1>5, <1>6, MoveType DEF TypeOK, Stages
  <1> QED
    BY <1>1, <1>7 DEF TypeOK, Load

LEMMA StartMigrationType ==
    ASSUME TypeOK, NEW c \in Client, StartMigration(c)
    PROVE  TypeOK'
  <1>1. ServerOK' /\ NetworkOK'
    BY DEF TypeOK, StartMigration, ServerOK, NetworkOK, server, network
  <1>2. PICK order \in SetToSeqs(ToMigrate(table)) :
            /\ ctx' = [ctx EXCEPT ![c] =
                         [id |-> CanonId(table),
                          rules |-> CanonRules(table) \o Copies(table, order, nextRule)]]
            /\ nextRule' = nextRule + Len(order)
    BY DEF StartMigration
  <1> DEFINE copies == Copies(table, order, nextRule)
             canon == CanonRules(table)
             x == [id |-> CanonId(table), rules |-> canon \o copies]
  <1>3. IsTable(table) /\ nextRule \in Nat
    BY DEF TypeOK, ServerOK, ClientOK
  <1>4. copies \in Seq(Rules) /\ Len(order) \in Nat
    BY <1>3, CopiesFacts
  <1>5. canon \in Seq(Rules) /\ CanonId(table) \in Nat
    BY <1>3, CanonRulesType, CanonIdFacts
  <1>6. x \in Contexts
    <2> HIDE DEF copies, canon
    <2>1. canon \o copies \in Seq(Rules)
      BY <1>4, <1>5, ConcatProperties
    <2> QED
      BY <1>5, <2>1 DEF Contexts
  <1>7. nextRule' \in Nat /\ nextRule <= nextRule'
    BY <1>2, <1>3, <1>4
  <1>8. V1(table) \in SUBSET FilterIds /\ V1(table) # {}
    BY <1>3 DEF StartMigration, V1, OfKind, IsTable
  <1>9. /\ GoTo(c, "migrating") /\ queue[c] # <<>> /\ UNCHANGED <<queue, known>>
        /\ legacy' = [legacy EXCEPT ![c] = V1(table)]
        /\ ctx' = [ctx EXCEPT ![c] = x]
    BY <1>2 DEF StartMigration
  <1> HIDE DEF x
  <1>10. ClientOK'
    BY <1>6, <1>7, <1>8, <1>9, MoveType DEF TypeOK, Stages
  <1> QED
    BY <1>1, <1>10 DEF TypeOK, StartMigration

LEMMA ReadFailsType ==
    ASSUME TypeOK, NEW c \in Client, ReadFails(c)
    PROVE  TypeOK'
  <1>1. ServerOK' /\ NetworkOK'
    BY DEF TypeOK, ReadFails, Fault, ServerOK, NetworkOK, server
  <1>2. queue[c] # <<>>
    BY DEF TypeOK, ClientOK, ReadFails
  <1>3. ClientOK'
    BY <1>2, AnswerType, ErrorType DEF TypeOK, ReadFails
  <1> QED
    BY <1>1, <1>3 DEF TypeOK, ReadFails

LEMMA MigrationWrittenType ==
    ASSUME TypeOK, NEW c \in Client, MigrationWritten(c)
    PROVE  TypeOK'
  <1>1. Delivered(WriteOf(ctx[c].id, ctx[c].rules))
    BY DEF MigrationWritten
  <1>2. ServerOK' /\ NetworkOK'
    BY <1>1, ContextMessages, FateType DEF TypeOK
  <1> DEFINE s == IF ctx[c].id = NoFilter THEN "relisting" ELSE "purging"
             x == ctx[c]
             ids == legacy[c]
  <1>3. s \in Stages /\ s \in {"migrating", "relisting", "purging"}
    BY DEF Stages
  <1>4. GoTo(c, s) /\ UNCHANGED <<nextRule, queue, ctx, legacy, known>>
    BY DEF MigrationWritten
  <1>5. queue[c] # <<>> /\ ids # {} /\ ids \in SUBSET FilterIds
    BY DEF MigrationWritten, TypeOK, ClientOK
  <1>6. x \in Contexts /\ ctx' = [ctx EXCEPT ![c] = x] /\ legacy' = [legacy EXCEPT ![c] = ids]
    BY <1>4 DEF TypeOK, ClientOK, Contexts
  <1>7. nextRule' \in Nat /\ nextRule <= nextRule'
    BY <1>4 DEF TypeOK, ClientOK
  <1>8. adopted' \subseteq FilterIds /\ issued' \in 0 .. MaxOps
    BY <1>5 DEF MigrationWritten, TypeOK
  <1> HIDE DEF s, x, ids
  <1>9. ClientOK'
    BY <1>3, <1>4, <1>5, <1>6, <1>7, MoveType DEF TypeOK
  <1> QED
    BY <1>2, <1>8, <1>9 DEF TypeOK

LEMMA MigrationRelistedType ==
    ASSUME TypeOK, NEW c \in Client, MigrationRelisted(c)
    PROVE  TypeOK'
  <1>1. ServerOK' /\ NetworkOK'
    BY DEF TypeOK, MigrationRelisted, ServerOK, NetworkOK, server, network
  <1>2. PICK id \in Found(table) : ctx' = [ctx EXCEPT ![c].id = id]
    BY DEF MigrationRelisted
  <1>3. id \in Nat
    <2>1. id = 0 \/ id \in DOMAIN table
      BY DEF Found, V2, OfKind, NoFilter
    <2>2. DOMAIN table \subseteq Nat
      BY DEF TypeOK, ServerOK, IsTable, FilterIds
    <2> QED
      BY <2>1, <2>2
  <1> DEFINE x == [ctx[c] EXCEPT !.id = id]
  <1>4. x \in Contexts /\ ctx' = [ctx EXCEPT ![c] = x]
    <2>1. ASSUME NEW y \in Contexts PROVE [y EXCEPT !.id = id] \in Contexts
      BY <1>3 DEF Contexts
    <2>2. ctx[c] \in Contexts
      BY DEF TypeOK, ClientOK, Contexts
    <2> QED
      BY <1>2, <2>1, <2>2
  <1> HIDE DEF x
  <1>5. /\ GoTo(c, "purging") /\ UNCHANGED <<nextRule, queue, legacy, known>>
        /\ queue[c] # <<>> /\ legacy[c] # {} /\ legacy[c] \in SUBSET FilterIds
    BY DEF MigrationRelisted, TypeOK, ClientOK
  <1>6. legacy' = [legacy EXCEPT ![c] = legacy[c]] /\ nextRule' \in Nat /\ nextRule <= nextRule'
    BY <1>5 DEF TypeOK, ClientOK
  <1>7. ClientOK'
    BY <1>4, <1>5, <1>6, MoveType DEF TypeOK, Stages
  <1> QED
    BY <1>1, <1>7 DEF TypeOK, MigrationRelisted

LEMMA PurgeType ==
    ASSUME TypeOK, NEW c \in Client, Purge(c)
    PROVE  TypeOK'
  <1>1. PICK id \in legacy[c] :
            /\ Delivered(DeletionOf(id)) \/ Failed(DeletionOf(id))
            /\ legacy' = [legacy EXCEPT ![c] = @ \ {id}]
            /\ GoTo(c, IF legacy[c] = {id} THEN "ready" ELSE "purging")
    BY DEF Purge
  <1>2. ServerOK' /\ NetworkOK'
    BY <1>1, ContextMessages, FateType DEF TypeOK
  <1> DEFINE s == IF legacy[c] = {id} THEN "ready" ELSE "purging"
             left == legacy[c] \ {id}
  <1>3. s \in Stages /\ (s \in {"migrating", "relisting", "purging"} <=> left # {})
    BY <1>1 DEF Stages
  <1>4. /\ GoTo(c, s)
        /\ legacy' = [legacy EXCEPT ![c] = left]
        /\ UNCHANGED <<nextRule, queue, ctx, known>>
    BY <1>1 DEF Purge
  <1>5. queue[c] # <<>> /\ left \in SUBSET FilterIds
    BY DEF Purge, TypeOK, ClientOK
  <1>6. ctx[c] \in Contexts /\ ctx' = [ctx EXCEPT ![c] = ctx[c]]
    BY <1>4 DEF TypeOK, ClientOK, Contexts
  <1>7. nextRule' \in Nat /\ nextRule <= nextRule'
    BY <1>4 DEF TypeOK, ClientOK
  <1> HIDE DEF s, left
  <1>8. ClientOK'
    BY <1>3, <1>4, <1>5, <1>6, <1>7, MoveType DEF TypeOK
  <1> QED
    BY <1>2, <1>8 DEF TypeOK, Purge

LEMMA ReplyType ==
    ASSUME TypeOK, NEW c \in Client, Reply(c)
    PROVE  TypeOK'
  <1>1. ServerOK' /\ NetworkOK'
    BY DEF TypeOK, Reply, ServerOK, NetworkOK, server, network
  <1>2. queue[c] # <<>>
    BY DEF TypeOK, ClientOK, Reply
  <1> DEFINE reply == IF Rejected(Running(c)) THEN Error(c) ELSE Success(c, FALSE)
  <1>3. reply \in Replies
    BY <1>2, ErrorType, SuccessType DEF TypeOK
  <1>4. Answer(c, reply) /\ UNCHANGED nextRule
    BY DEF Reply
  <1> HIDE DEF reply
  <1>5. ClientOK'
    BY <1>2, <1>3, <1>4, AnswerType DEF TypeOK
  <1> QED
    BY <1>1, <1>5 DEF TypeOK, Reply

LEMMA StartWriteType ==
    ASSUME TypeOK, NEW c \in Client, StartWrite(c)
    PROVE  TypeOK'
  <1>1. ServerOK' /\ NetworkOK'
    BY DEF TypeOK, StartWrite, ServerOK, NetworkOK, server, network
  <1> DEFINE cmd == Running(c)
             rules == ctx[c].rules
             new == Updated(cmd, rules, nextRule)
             x == [ctx[c] EXCEPT !.rules = new]
  <1>2. queue[c] # <<>> /\ legacy[c] = {} /\ nextRule \in Nat
    BY DEF TypeOK, ClientOK, StartWrite
  <1>3. cmd \in CommandType /\ rules \in Seq(Rules)
    BY <1>2, RunningType, ContextMessages DEF TypeOK
  <1>4. /\ ~Rejected(cmd) /\ NeedsWrite(cmd, rules)
        /\ ctx' = [ctx EXCEPT ![c] = x]
        /\ nextRule' = nextRule + Minted(cmd)
        /\ GoTo(c, "writing") /\ UNCHANGED <<queue, known, legacy>>
    BY DEF StartWrite
  <1>5. new \in Seq(Rules) /\ Minted(cmd) \in Nat
    <2> HIDE DEF cmd, rules
    <2> QED
      BY <1>2, <1>3, <1>4, UpdatedType, MintedType
  <1>6. x \in Contexts
    <2> HIDE DEF new
    <2>1. ASSUME NEW y \in Contexts PROVE [y EXCEPT !.rules = new] \in Contexts
      BY <1>5 DEF Contexts
    <2>2. ctx[c] \in Contexts
      BY DEF TypeOK, ClientOK, Contexts
    <2> QED
      BY <2>1, <2>2
  <1> HIDE DEF cmd, x
  <1>7. nextRule' \in Nat /\ nextRule <= nextRule'
    BY <1>2, <1>4, <1>5
  <1>8. legacy' = [legacy EXCEPT ![c] = {}]
    BY <1>2, <1>4 DEF TypeOK, ClientOK
  <1>9. ClientOK'
    BY <1>2, <1>4, <1>6, <1>7, <1>8, MoveType DEF TypeOK, Stages
  <1> QED
    BY <1>1, <1>9 DEF TypeOK, StartWrite

LEMMA WrittenType ==
    ASSUME TypeOK, NEW c \in Client, Written(c)
    PROVE  TypeOK'
  <1>1. Delivered(WriteOf(ctx[c].id, ctx[c].rules))
    BY DEF Written
  <1>2. ServerOK' /\ NetworkOK'
    BY <1>1, ContextMessages, FateType DEF TypeOK
  <1>3. queue[c] # <<>> /\ legacy[c] = {}
    BY DEF Written, TypeOK, ClientOK
  <1>4. CASE ctx[c].id = NoFilter
    <2> DEFINE x == ctx[c]
    <2>1. GoTo(c, "confirming") /\ UNCHANGED <<nextRule, queue, ctx, legacy, known>>
      BY <1>4 DEF Written
    <2>2. x \in Contexts /\ ctx' = [ctx EXCEPT ![c] = x] /\ legacy' = [legacy EXCEPT ![c] = {}]
      BY <1>3, <2>1 DEF TypeOK, ClientOK, Contexts
    <2>3. nextRule' \in Nat /\ nextRule <= nextRule'
      BY <2>1 DEF TypeOK, ClientOK
    <2> HIDE DEF x
    <2>4. ClientOK'
      BY <1>3, <2>1, <2>2, <2>3, MoveType DEF TypeOK, Stages
    <2> QED
      BY <1>2, <2>4 DEF TypeOK, Written
  <1>5. CASE ctx[c].id # NoFilter
    <2>1. Answer(c, Success(c, TRUE)) /\ UNCHANGED nextRule
      BY <1>5 DEF Written
    <2>2. ClientOK'
      BY <1>3, <2>1, SuccessType, AnswerType DEF TypeOK
    <2> QED
      BY <1>2, <2>2 DEF TypeOK, Written
  <1> QED
    BY <1>4, <1>5

LEMMA ConfirmType ==
    ASSUME TypeOK, NEW c \in Client, Confirm(c)
    PROVE  TypeOK'
  <1>1. ServerOK' /\ NetworkOK'
    BY DEF TypeOK, Confirm, ServerOK, NetworkOK, server, network
  <1>2. queue[c] # <<>>
    BY DEF TypeOK, ClientOK, Confirm
  <1>3. ClientOK'
    BY <1>2, SuccessType, AnswerType DEF TypeOK, Confirm
  <1> QED
    BY <1>1, <1>3 DEF TypeOK, Confirm

LEMMA WriteFailsType ==
    ASSUME TypeOK, NEW c \in Client, WriteFails(c)
    PROVE  TypeOK'
  <1>1. Failed(WriteOf(ctx[c].id, ctx[c].rules))
    BY DEF WriteFails
  <1>2. ServerOK' /\ NetworkOK'
    BY <1>1, ContextMessages, FateType DEF TypeOK
  <1>3. queue[c] # <<>>
    BY DEF TypeOK, ClientOK, WriteFails
  <1>4. ClientOK'
    BY <1>3, ErrorType, AnswerType DEF TypeOK, WriteFails
  <1> QED
    BY <1>2, <1>4 DEF TypeOK, WriteFails

LEMMA RestartType ==
    ASSUME TypeOK, NEW c \in Client, Restart(c)
    PROVE  TypeOK'
  <1>1. ServerOK'
    BY DEF TypeOK, Restart, ServerOK, server
  <1>2. Underway(c) \subseteq Messages
    BY ContextMessages DEF Underway, TypeOK
  <1>3. NetworkOK'
    <2>1. CASE UNCHANGED <<stray, late>>
      BY <2>1 DEF Restart, Fault, TypeOK, NetworkOK
    <2>2. CASE ~UNCHANGED <<stray, late>>
      <3>1. PICK m \in Underway(c) :
                late < MaxLate /\ late' = late + 1 /\ stray' = stray \cup {<<late, m>>}
        BY <2>2 DEF Restart
      <3>2. m \in Messages /\ faults' \in 0 .. MaxFaults
        BY <1>2 DEF Restart, Fault, TypeOK, NetworkOK
      <3> QED
        BY <3>1, <3>2 DEF TypeOK, NetworkOK
    <2> QED
      BY <2>1, <2>2
  <1>4. ClientOK'
    <2>1. NoCtx \in Contexts /\ <<>> \in Seq(CommandType)
      BY EmptySeq DEF NoCtx, Contexts, NoFilter
    <2>2. /\ queue' = [queue EXCEPT ![c] = <<>>]
          /\ ctx' = [ctx EXCEPT ![c] = NoCtx]
          /\ legacy' = [legacy EXCEPT ![c] = {}]
          /\ stage' = [stage EXCEPT ![c] = "idle"]
          /\ queue[c] # <<>> /\ UNCHANGED nextRule
      BY DEF Restart, GoTo
    <2>3. PICK reply \in {Nothing, Error(c)} : known' = [known EXCEPT ![c] = reply]
      BY DEF Restart
    <2>4. reply \in Replies
      BY <2>2, NothingType, ErrorType DEF TypeOK
    <2>5. /\ queue' \in [Client -> Seq(CommandType)]
          /\ stage' \in [Client -> Stages]
          /\ ctx' \in [Client -> Contexts]
          /\ legacy' \in [Client -> SUBSET FilterIds]
          /\ known' \in [Client -> Replies]
      BY <2>1, <2>2, <2>3, <2>4 DEF TypeOK, ClientOK, Contexts, Replies, Stages
    <2>6. /\ \A d \in Client : stage'[d] # "idle" => queue'[d] # <<>>
          /\ \A d \in Client :
                stage'[d] \in {"migrating", "relisting", "purging"} <=> legacy'[d] # {}
      BY <2>2 DEF TypeOK, ClientOK
    <2> QED
      BY <2>2, <2>5, <2>6 DEF TypeOK, ClientOK, Contexts, Replies
  <1> QED
    BY <1>1, <1>3, <1>4 DEF TypeOK, Restart

LEMMA LandLateType ==
    ASSUME TypeOK, LandLate
    PROVE  TypeOK'
  <1>1. PICK s \in stray : CarriedOut(s[2]) /\ stray' = stray \ {s}
    BY DEF LandLate
  <1>2. s[2] \in Messages
    BY DEF TypeOK, NetworkOK
  <1>3. ServerOK'
    BY <1>1, <1>2, CarriedOutType DEF TypeOK
  <1>4. UNCHANGED <<client, faults, late, adopted, issued>>
    BY DEF LandLate
  <1>5. NetworkOK' /\ ClientOK'
    BY <1>1, <1>4 DEF TypeOK, NetworkOK, ClientOK, client
  <1> QED
    BY <1>3, <1>4, <1>5 DEF TypeOK

LEMMA InitType == Init => TypeOK
  <1> SUFFICES ASSUME Init PROVE TypeOK
    OBVIOUS
  <1>1. ServerOK
    BY InitialTablesAssumption DEF Init, ServerOK
  <1>2. <<>> \in Seq(CommandType) /\ NoCtx \in Contexts /\ Nothing \in Replies
    BY EmptySeq, NothingType DEF NoCtx, Contexts, NoFilter
  <1>3. ClientOK
    BY <1>2 DEF Init, ClientOK, Contexts, Replies, Stages
  <1>4. NetworkOK
    BY DEF Init, NetworkOK
  <1> QED
    BY <1>1, <1>3, <1>4 DEF Init, TypeOK

LEMMA NextType == TypeOK /\ [Next]_vars => TypeOK'
  <1> SUFFICES ASSUME TypeOK, [Next]_vars PROVE TypeOK'
    OBVIOUS
  <1>1. ASSUME NEW c \in Client, NEW cmd \in Commands, Issue(c, cmd) PROVE TypeOK'
    BY <1>1, IssueType
  <1>0. ASSUME NEW c \in Client, Repeat(c) PROVE TypeOK'
    BY <1>0, RepeatType
  <1>2. ASSUME NEW c \in Client, Work(c) PROVE TypeOK'
    BY <1>2, LoadType, StartMigrationType, ReadFailsType, MigrationWrittenType,
       MigrationRelistedType, PurgeType, ReplyType, StartWriteType, WrittenType,
       ConfirmType, WriteFailsType DEF Work
  <1>3. ASSUME NEW c \in Client, Restart(c) PROVE TypeOK'
    BY <1>3, RestartType
  <1>4. CASE LandLate
    BY <1>4, LandLateType
  <1>5. CASE UNCHANGED vars
    BY <1>5 DEF vars, server, client, network, TypeOK, ServerOK, ClientOK, NetworkOK
  <1> QED
    BY <1>1, <1>0, <1>2, <1>3, <1>4, <1>5 DEF Next

\* TypeOK is inductive: the commands of any number of clients keep the shape of the
\* mailbox, of the calls on their way and of what is kept between two awaits.
THEOREM TypeCorrect == Spec => []TypeOK
  BY InitType, NextType, PTL DEF Spec

-----------------------------------------------------------------------------
(***************************************************************************)
(* The calls of the clients are harmless.                                  *)
(*                                                                         *)
(* An id read before an await is used after it, by the client or by a call *)
(* that the client has long given up.  The id is not checked again; what   *)
(* makes this safe is that mailcow does not give out an id twice, that     *)
(* clients delete v1 filters only, and that no call changes a filter's     *)
(* kind.                                                                   *)
(***************************************************************************)
HarmlessCalls ==
    /\ \A c \in Client : Harmless(table, nextId, WriteOf(ctx[c].id, ctx[c].rules))
    /\ \A c \in Client : \A id \in legacy[c] : Harmless(table, nextId, DeletionOf(id))
    /\ \A s \in stray : Harmless(table, nextId, s[2])

\* The server's part of a step: nothing, or one harmless call.
ServerStep ==
    \/ UNCHANGED server
    \/ \E m \in Messages : Harmless(table, nextId, m) /\ CarriedOut(m)

LEMMA StaysHarmless ==
    ASSUME TypeOK, ServerStep, NEW m \in Messages, Harmless(table, nextId, m)
    PROVE  Harmless(table', nextId', m)
  <1>1. IsTable(table) /\ nextId \in FilterIds /\ IdsBelow(table, nextId)
    BY DEF TypeOK, ServerOK, IdsBelow
  <1>2. CASE UNCHANGED server
    BY <1>2 DEF server
  <1>3. ASSUME NEW n \in Messages, Harmless(table, nextId, n), CarriedOut(n)
        PROVE  Harmless(table', nextId', m)
    <2>1. /\ Accepts(table, n)
          /\ table' = After(table, nextId, n)
          /\ nextId' = NextIdAfter(nextId, n)
      BY <1>3 DEF CarriedOut
    <2> QED
      BY <1>1, <1>3, <2>1, HarmlessStays
  <1> QED
    BY <1>2, <1>3 DEF ServerStep

LEMMA FateIsServerStep ==
    ASSUME TypeOK, NEW m \in Messages, Harmless(table, nextId, m), Delivered(m) \/ Failed(m)
    PROVE  ServerStep
  BY DEF Delivered, Failed, Refused, LostBefore, LostAfter, GivenUp, ServerStep, server

\* Every step of the system is harmless to the mailbox.
LEMMA NextIsServerStep ==
    ASSUME TypeOK, HarmlessCalls, [Next]_vars
    PROVE  ServerStep
  <1>1. ASSUME NEW c \in Client, Work(c) PROVE ServerStep
    <2> DEFINE write == WriteOf(ctx[c].id, ctx[c].rules)
    <2>1. write \in Messages /\ Harmless(table, nextId, write)
      BY ContextMessages DEF TypeOK, HarmlessCalls
    <2>2. ASSUME NEW id \in legacy[c]
          PROVE  DeletionOf(id) \in Messages /\ Harmless(table, nextId, DeletionOf(id))
      BY ContextMessages DEF TypeOK, HarmlessCalls
    <2>3. CASE MigrationWritten(c) \/ Written(c) \/ WriteFails(c)
      <3>1. Delivered(write) \/ Failed(write)
        BY <2>3 DEF MigrationWritten, Written, WriteFails
      <3> HIDE DEF write
      <3> QED
        BY <2>1, <3>1, FateIsServerStep
    <2>4. CASE Purge(c)
      <3>1. PICK id \in legacy[c] : Delivered(DeletionOf(id)) \/ Failed(DeletionOf(id))
        BY <2>4 DEF Purge
      <3> QED
        BY <2>2, <3>1, FateIsServerStep
    <2>5. CASE Load(c) \/ StartMigration(c) \/ ReadFails(c) \/ MigrationRelisted(c)
      BY <2>5 DEF Load, StartMigration, ReadFails, MigrationRelisted, ServerStep, server
    <2>6. CASE Reply(c) \/ StartWrite(c) \/ Confirm(c)
      BY <2>6 DEF Reply, StartWrite, Confirm, ServerStep, server
    <2> QED
      BY <1>1, <2>3, <2>4, <2>5, <2>6 DEF Work
  <1>2. ASSUME NEW c \in Client, NEW cmd \in Commands, Issue(c, cmd) PROVE ServerStep
    BY <1>2 DEF Issue, ServerStep
  <1>0. ASSUME NEW c \in Client, Repeat(c) PROVE ServerStep
    BY <1>0 DEF Repeat, ServerStep
  <1>3. ASSUME NEW c \in Client, Restart(c) PROVE ServerStep
    BY <1>3 DEF Restart, ServerStep
  <1>4. CASE LandLate
    BY <1>4 DEF LandLate, HarmlessCalls, TypeOK, NetworkOK, ServerStep
  <1>5. CASE UNCHANGED vars
    BY <1>5 DEF vars, ServerStep
  <1> QED
    BY <1>1, <1>0, <1>2, <1>3, <1>4, <1>5 DEF Next

\* How the ids a client works on change: they are kept, dropped, or read afresh.
TargetStep(c) ==
    \/ ctx'[c].id = ctx[c].id
    \/ ctx'[c].id = NoFilter
    \/ UNCHANGED server /\ ctx'[c].id \in V2(table)

LegacyStep(c) ==
    \/ legacy'[c] \subseteq legacy[c]
    \/ UNCHANGED server /\ legacy'[c] \subseteq V1(table)

LEMMA AnswerSteps ==
    ASSUME TypeOK, NEW c \in Client, NEW reply, Answer(c, reply), NEW d \in Client
    PROVE  TargetStep(d) /\ LegacyStep(d)
  <1>1. ctx' = [ctx EXCEPT ![c] = NoCtx] /\ legacy' = [legacy EXCEPT ![c] = {}]
    BY DEF Answer
  <1> QED
    BY <1>1 DEF TypeOK, ClientOK, NoCtx, TargetStep, LegacyStep

LEMMA ClientSteps ==
    ASSUME TypeOK, [Next]_vars, NEW d \in Client
    PROVE  TargetStep(d) /\ LegacyStep(d)
  <1>1. ASSUME NEW c \in Client, Work(c) PROVE TargetStep(d) /\ LegacyStep(d)
    <2>1. CASE Load(c)
      <3>1. /\ ctx' = [ctx EXCEPT ![c] = Loaded(table)]
            /\ UNCHANGED <<server, legacy>>
        BY <2>1 DEF Load
      <3>2. Loaded(table).id = NoFilter \/ Loaded(table).id \in V2(table)
        BY CanonIdFacts DEF Loaded, TypeOK, ServerOK
      <3> QED
        BY <3>1, <3>2 DEF TypeOK, ClientOK, TargetStep, LegacyStep
    <2>2. CASE StartMigration(c)
      <3>1. PICK rules : ctx' = [ctx EXCEPT ![c] = [id |-> CanonId(table), rules |-> rules]]
        BY <2>2 DEF StartMigration
      <3>2. legacy' = [legacy EXCEPT ![c] = V1(table)] /\ UNCHANGED server
        BY <2>2 DEF StartMigration
      <3>3. CanonId(table) = NoFilter \/ CanonId(table) \in V2(table)
        BY CanonIdFacts DEF TypeOK, ServerOK
      <3> QED
        BY <3>1, <3>2, <3>3 DEF TypeOK, ClientOK, TargetStep, LegacyStep
    <2>3. CASE ReadFails(c) \/ Reply(c) \/ Confirm(c) \/ WriteFails(c)
      <3>1. PICK reply : Answer(c, reply)
        BY <2>3 DEF ReadFails, Reply, Confirm, WriteFails
      <3> QED
        BY <3>1, AnswerSteps
    <2>4. CASE MigrationRelisted(c)
      <3>1. PICK id \in Found(table) : ctx' = [ctx EXCEPT ![c].id = id]
        BY <2>4 DEF MigrationRelisted
      <3>2. id = NoFilter \/ id \in V2(table)
        BY DEF Found
      <3>3. ctx'[d].id = ctx[d].id \/ ctx'[d].id = id
        BY <3>1 DEF TypeOK, ClientOK
      <3>4. UNCHANGED <<server, legacy>>
        BY <2>4 DEF MigrationRelisted
      <3> QED
        BY <3>2, <3>3, <3>4 DEF TargetStep, LegacyStep
    <2>5. CASE Purge(c)
      <3>1. PICK id \in legacy[c] : legacy' = [legacy EXCEPT ![c] = @ \ {id}]
        BY <2>5 DEF Purge
      <3>2. UNCHANGED ctx
        BY <2>5 DEF Purge
      <3> QED
        BY <3>1, <3>2 DEF TypeOK, ClientOK, TargetStep, LegacyStep
    <2>6. CASE StartWrite(c)
      <3>1. PICK rules : ctx' = [ctx EXCEPT ![c].rules = rules]
        BY <2>6 DEF StartWrite
      <3>2. ctx'[d].id = ctx[d].id
        BY <3>1 DEF TypeOK, ClientOK
      <3>3. UNCHANGED legacy
        BY <2>6 DEF StartWrite
      <3> QED
        BY <3>2, <3>3 DEF TargetStep, LegacyStep
    <2>7. CASE MigrationWritten(c)
      BY <2>7 DEF MigrationWritten, TargetStep, LegacyStep
    <2>8. CASE Written(c)
      <3>1. CASE ctx[c].id = NoFilter
        BY <2>8, <3>1 DEF Written, TargetStep, LegacyStep
      <3>2. CASE ctx[c].id # NoFilter
        BY <2>8, <3>2, AnswerSteps DEF Written
      <3> QED
        BY <3>1, <3>2
    <2> QED
      BY <1>1, <2>1, <2>2, <2>3, <2>4, <2>5, <2>6, <2>7, <2>8 DEF Work
  <1>2. ASSUME NEW c \in Client, NEW cmd \in Commands, Issue(c, cmd)
        PROVE  TargetStep(d) /\ LegacyStep(d)
    BY <1>2 DEF Issue, TargetStep, LegacyStep
  <1>0. ASSUME NEW c \in Client, Repeat(c) PROVE TargetStep(d) /\ LegacyStep(d)
    BY <1>0 DEF Repeat, TargetStep, LegacyStep
  <1>3. ASSUME NEW c \in Client, Restart(c) PROVE TargetStep(d) /\ LegacyStep(d)
    <2>1. ctx' = [ctx EXCEPT ![c] = NoCtx] /\ legacy' = [legacy EXCEPT ![c] = {}]
      BY <1>3 DEF Restart
    <2> QED
      BY <2>1 DEF TypeOK, ClientOK, NoCtx, TargetStep, LegacyStep
  <1>4. CASE LandLate
    BY <1>4 DEF LandLate, client, TargetStep, LegacyStep
  <1>5. CASE UNCHANGED vars
    BY <1>5 DEF vars, client, TargetStep, LegacyStep
  <1> QED
    BY <1>1, <1>0, <1>2, <1>3, <1>4, <1>5 DEF Next

LEMMA HarmlessWrite ==
    ASSUME NEW t, NEW next, NEW id, NEW rules
    PROVE  Harmless(t, next, WriteOf(id, rules)) <=> (id = NoFilter \/ id \in V2(t))
  BY DEF Harmless, WriteOf, V2

LEMMA HarmlessDeletion ==
    ASSUME NEW t, NEW next, NEW id
    PROVE  Harmless(t, next, DeletionOf(id)) <=> (id < next /\ (id \in DOMAIN t => id \in V1(t)))
  BY DEF Harmless, DeletionOf, V1

\* A call is given up by the client that made it.
LEMMA FateStray ==
    ASSUME NEW m, Delivered(m) \/ Failed(m), NEW s \in stray'
    PROVE  s \in stray \/ s[2] = m
  BY DEF Delivered, Failed, Refused, LostBefore, LostAfter, GivenUp, network

LEMMA StraySteps ==
    ASSUME TypeOK, HarmlessCalls, [Next]_vars, NEW s \in stray'
    PROVE  s[2] \in Messages /\ Harmless(table, nextId, s[2])
  <1>1. ASSUME s \in stray PROVE s[2] \in Messages /\ Harmless(table, nextId, s[2])
    BY <1>1 DEF TypeOK, NetworkOK, HarmlessCalls
  <1>2. ASSUME NEW c \in Client
        PROVE  /\ WriteOf(ctx[c].id, ctx[c].rules) \in Messages
               /\ Harmless(table, nextId, WriteOf(ctx[c].id, ctx[c].rules))
               /\ \A id \in legacy[c] :
                     DeletionOf(id) \in Messages /\ Harmless(table, nextId, DeletionOf(id))
    BY ContextMessages DEF TypeOK, HarmlessCalls
  <1>3. ASSUME NEW c \in Client, Work(c)
        PROVE  s[2] \in Messages /\ Harmless(table, nextId, s[2])
    <2>1. CASE MigrationWritten(c) \/ Written(c) \/ WriteFails(c)
      <3> DEFINE write == WriteOf(ctx[c].id, ctx[c].rules)
      <3>1. Delivered(write) \/ Failed(write)
        BY <2>1 DEF MigrationWritten, Written, WriteFails
      <3>2. s \in stray \/ s[2] = write
        BY <3>1, FateStray
      <3> QED
        BY <1>1, <1>2, <3>2
    <2>2. CASE Purge(c)
      <3>1. PICK id \in legacy[c] : Delivered(DeletionOf(id)) \/ Failed(DeletionOf(id))
        BY <2>2 DEF Purge
      <3>2. s \in stray \/ s[2] = DeletionOf(id)
        BY <3>1, FateStray
      <3> QED
        BY <1>1, <1>2, <3>2
    <2>3. CASE \/ Load(c) \/ StartMigration(c) \/ ReadFails(c) \/ MigrationRelisted(c)
               \/ Reply(c) \/ StartWrite(c) \/ Confirm(c)
      <3>1. UNCHANGED stray
        BY <2>3 DEF Load, StartMigration, ReadFails, MigrationRelisted, Reply, StartWrite,
                    Confirm, network
      <3> QED
        BY <1>1, <3>1
    <2> QED
      BY <1>3, <2>1, <2>2, <2>3 DEF Work
  <1>4. ASSUME NEW c \in Client, Restart(c)
        PROVE  s[2] \in Messages /\ Harmless(table, nextId, s[2])
    <2>1. s \in stray \/ s[2] \in Underway(c)
      BY <1>4 DEF Restart
    <2> QED
      BY <1>1, <1>2, <2>1 DEF Underway
  <1>5. ASSUME NEW c \in Client, NEW cmd \in Commands, Issue(c, cmd)
        PROVE  s[2] \in Messages /\ Harmless(table, nextId, s[2])
    BY <1>1, <1>5 DEF Issue, network
  <1>0. ASSUME NEW c \in Client, Repeat(c)
        PROVE  s[2] \in Messages /\ Harmless(table, nextId, s[2])
    BY <1>1, <1>0 DEF Repeat, network
  <1>6. CASE LandLate
    BY <1>1, <1>6 DEF LandLate
  <1>7. CASE UNCHANGED vars
    BY <1>1, <1>7 DEF vars, network
  <1> QED
    BY <1>3, <1>4, <1>5, <1>0, <1>6, <1>7 DEF Next

LEMMA InitHarmless == Init => HarmlessCalls
  BY HarmlessWrite DEF Init, HarmlessCalls, NoCtx

LEMMA NextHarmless == TypeOK /\ TypeOK' /\ HarmlessCalls /\ [Next]_vars => HarmlessCalls'
  <1> SUFFICES ASSUME TypeOK, TypeOK', HarmlessCalls, [Next]_vars PROVE HarmlessCalls'
    OBVIOUS
  <1>1. ServerStep
    BY NextIsServerStep
  <1>2. ASSUME NEW c \in Client
        PROVE  Harmless(table', nextId', WriteOf(ctx'[c].id, ctx'[c].rules))
    <2>1. CASE ctx'[c].id = ctx[c].id
      <3> DEFINE write == WriteOf(ctx[c].id, ctx[c].rules)
      <3>1. write \in Messages /\ Harmless(table, nextId, write)
        BY ContextMessages DEF TypeOK, HarmlessCalls
      <3> HIDE DEF write
      <3>2. Harmless(table', nextId', write)
        BY <1>1, <3>1, StaysHarmless
      <3> QED
        BY <2>1, <3>2, HarmlessWrite DEF write
    <2>2. CASE ctx'[c].id = NoFilter
      BY <2>2, HarmlessWrite
    <2>3. CASE UNCHANGED server /\ ctx'[c].id \in V2(table)
      BY <2>3, HarmlessWrite DEF server
    <2> QED
      BY <2>1, <2>2, <2>3, ClientSteps DEF TargetStep
  <1>3. ASSUME NEW c \in Client, NEW id \in legacy'[c]
        PROVE  Harmless(table', nextId', DeletionOf(id))
    <2>1. CASE id \in legacy[c]
      <3>1. DeletionOf(id) \in Messages /\ Harmless(table, nextId, DeletionOf(id))
        BY <2>1, ContextMessages DEF TypeOK, HarmlessCalls
      <3> QED
        BY <1>1, <3>1, StaysHarmless
    <2>2. CASE UNCHANGED server /\ id \in V1(table)
      <3>1. id < nextId
        BY <2>2 DEF V1, OfKind, TypeOK, ServerOK
      <3> QED
        BY <2>2, <3>1, HarmlessDeletion DEF server
    <2> QED
      BY <2>1, <2>2, ClientSteps DEF LegacyStep
  <1>4. ASSUME NEW s \in stray' PROVE Harmless(table', nextId', s[2])
    BY <1>1, StraySteps, StaysHarmless
  <1> QED
    BY <1>2, <1>3, <1>4 DEF HarmlessCalls

\* Whatever call is on its way, early or late, it edits a combined filter, deletes a
\* v1 filter, or adds one.
THEOREM CallsAreHarmless == Spec => [](TypeOK /\ HarmlessCalls)
  BY InitType, NextType, InitHarmless, NextHarmless, PTL DEF Spec

LEMMA ServerStepKeepsKinds ==
    ASSUME TypeOK, ServerStep
    PROVE  OfKind(table, "foreign") \subseteq OfKind(table', "foreign") /\ V2(table) \subseteq V2(table')
  <1>1. IsTable(table) /\ nextId \in FilterIds /\ IdsBelow(table, nextId)
    BY DEF TypeOK, ServerOK, IdsBelow
  <1>2. CASE UNCHANGED server
    BY <1>2 DEF server
  <1>3. ASSUME NEW m \in Messages, Harmless(table, nextId, m), CarriedOut(m)
        PROVE  OfKind(table, "foreign") \subseteq OfKind(table', "foreign") /\ V2(table) \subseteq V2(table')
    <2>1. Accepts(table, m) /\ table' = After(table, nextId, m)
      BY <1>3 DEF CarriedOut
    <2> QED
      BY <1>1, <1>3, <2>1, HarmlessKeepsKinds DEF V2
  <1> QED
    BY <1>2, <1>3 DEF ServerStep

\* "Foreign filters are never touched": no step of any execution deletes a filter
\* without our marker or turns it into one of ours.
THEOREM ForeignFiltersStay == Spec => ForeignUntouched
  <1>1. TypeOK /\ HarmlessCalls /\ [Next]_vars =>
          [\A id \in OfKind(table, "foreign") :
              id \in DOMAIN table' /\ table'[id].kind = "foreign"]_vars
    <2> SUFFICES ASSUME TypeOK, HarmlessCalls, [Next]_vars, NEW id \in OfKind(table, "foreign")
                 PROVE  id \in DOMAIN table' /\ table'[id].kind = "foreign"
      OBVIOUS
    <2>1. id \in OfKind(table', "foreign")
      BY NextIsServerStep, ServerStepKeepsKinds
    <2> QED
      BY <2>1 DEF OfKind
  <1> QED
    BY <1>1, CallsAreHarmless, PTL DEF Spec, ForeignUntouched

\* A combined filter, once there, is never deleted: the id a client read before an
\* await still names a combined filter after it.
THEOREM CombinedFiltersStay == Spec => CombinedFilterStays
  <1>1. TypeOK /\ HarmlessCalls /\ [Next]_vars => [V2(table) \subseteq V2(table')]_vars
    BY NextIsServerStep, ServerStepKeepsKinds
  <1> QED
    BY <1>1, CallsAreHarmless, PTL DEF Spec, CombinedFilterStays

-----------------------------------------------------------------------------
(***************************************************************************)
(* "All rules of one user are kept in ONE mailcow filter": when this holds *)
(* of Background.                                                          *)
(*                                                                         *)
(* The handlers of background.js add a combined filter when the list they  *)
(* read shows none; nothing tells mailcow to refuse a second one.  That    *)
(* the one is not doubled rests on one of two circumstances:               *)
(*   - it is there from the start: then no call on its way is an addition, *)
(*     whatever the clients do; or                                         *)
(*   - only one client uses the mailbox and no call outlives its command:  *)
(*     then what the client read is still so when its addition arrives.    *)
(* The runs FirstStart and LateAdd show that neither can be spared.        *)
(***************************************************************************)

LEMMA AtMostOne ==
    ASSUME NEW S, IsFiniteSet(S)
    PROVE  Cardinality(S) <= 1 <=> \A x, y \in S : x = y
  <1>1. ASSUME Cardinality(S) <= 1, NEW x \in S, NEW y \in S, x # y PROVE FALSE
    <2>1. IsFiniteSet({x}) /\ Cardinality({x}) = 1
      BY FS_Singleton
    <2>2. Cardinality({x} \cup {y}) = 2
      <3>1. y \notin {x}
        BY <1>1
      <3>2. Cardinality({x} \cup {y}) = Cardinality({x}) + 1
        BY <2>1, <3>1, FS_AddElement
      <3> QED
        BY <2>1, <3>2
    <2>3. Cardinality({x} \cup {y}) <= Cardinality(S)
      BY FS_Subset
    <2>4. Cardinality(S) \in Nat
      BY FS_CardinalityType
    <2> QED
      BY <1>1, <2>2, <2>3, <2>4
  <1>2. ASSUME \A x, y \in S : x = y PROVE Cardinality(S) <= 1
    <2>1. CASE S = {}
      BY <2>1, FS_EmptySet
    <2>2. CASE S # {}
      <3>1. PICK x \in S : S = {x}
        BY <1>2, <2>2
      <3> QED
        BY <3>1, FS_Singleton
    <2> QED
      BY <2>1, <2>2
  <1> QED
    BY <1>1, <1>2

LEMMA V2Finite ==
    ASSUME NEW t, IsTable(t)
    PROVE  IsFiniteSet(V2(t)) /\ V2(t) \subseteq FilterIds
  BY FS_Subset DEF IsTable, V2, OfKind

\* In every initial mailbox there is at most one combined filter.
LEMMA InitAtMostOne ==
    ASSUME Init
    PROVE  \A x, y \in V2(table) : x = y
  <1>1. IsTable(table) /\ Cardinality(V2(table)) <= 1
    BY InitialTablesAssumption DEF Init, V2
  <1> QED
    BY <1>1, V2Finite, AtMostOne

\* A harmless call that is not an addition leaves the combined filters as they are.
LEMMA NoAdditionKeepsV2 ==
    ASSUME TypeOK, NEW m \in Messages, Harmless(table, nextId, m), CarriedOut(m), m.op # "add"
    PROVE  V2(table') = V2(table)
  <1>1. IsTable(table) /\ Accepts(table, m) /\ table' = After(table, nextId, m)
    BY DEF TypeOK, ServerOK, CarriedOut
  <1>2. CASE m.op = "edit"
    <2>1. m.id \in V2(table)
      BY <1>2 DEF Harmless, V2
    <2>2. V2(table') = V2(table) \cup {m.id}
      BY <1>1, <1>2, AfterEdit DEF V2
    <2> QED
      BY <2>1, <2>2
  <1>3. CASE m.op = "delete"
    <2>1. m.id \notin V2(table)
      BY <1>3 DEF Harmless, V2, OfKind
    <2>2. V2(table') = V2(table) \ {m.id}
      BY <1>1, <1>3, AfterDelete, ZenonT(60) DEF V2
    <2> QED
      BY <2>1, <2>2
  <1> QED
    BY <1>2, <1>3, MessageFields

LEMMA AdditionAddsOne ==
    ASSUME TypeOK, NEW m \in Messages, CarriedOut(m), m.op = "add"
    PROVE  V2(table') = V2(table) \cup {nextId}
  <1>1. IsTable(table) /\ nextId \in FilterIds /\ table' = After(table, nextId, m)
    BY DEF TypeOK, ServerOK, CarriedOut
  <1> QED
    BY <1>1, AfterAdd DEF V2

LEMMA FateKeepsV2 ==
    ASSUME TypeOK, NEW m \in Messages, Harmless(table, nextId, m), m.op # "add",
           Delivered(m) \/ Failed(m)
    PROVE  V2(table') = V2(table)
  BY NoAdditionKeepsV2 DEF Delivered, Failed, Refused, LostBefore, LostAfter, GivenUp, server

LEMMA WriteOp ==
    ASSUME NEW id, NEW rules
    PROVE  WriteOf(id, rules).op = "add" <=> id = NoFilter
  BY DEF WriteOf

LEMMA DeletionOp ==
    ASSUME NEW id
    PROVE  DeletionOf(id).op = "delete"
  BY DEF DeletionOf

-----------------------------------------------------------------------------
(***************************************************************************)
(* A combined filter from the start.                                       *)
(***************************************************************************)

\* Nobody is about to add one.
NoAddition ==
    /\ \A c \in Client : stage[c] \notin {"relisting", "confirming"}
    /\ \A c \in Client : stage[c] # "idle" => ctx[c].id # NoFilter
    /\ \A s \in stray : s[2].op # "add"

Established ==
    /\ V2(table) # {}
    /\ \A x, y \in V2(table) : x = y
    /\ NoAddition

LEMMA EstablishedWork ==
    ASSUME TypeOK, HarmlessCalls, Established, NEW c \in Client, Work(c)
    PROVE  Established'
  <1> DEFINE write == WriteOf(ctx[c].id, ctx[c].rules)
  <1>1. write \in Messages /\ Harmless(table, nextId, write)
    BY ContextMessages DEF TypeOK, HarmlessCalls
  <1>2. stage[c] # "idle" => write.op # "add"
    BY WriteOp DEF Established, NoAddition
  <1>3. ASSUME NEW s \in Stages, GoTo(c, s), s \notin {"relisting", "confirming"},
               NEW x, x # NoFilter, ctx'[c].id = x,
               \A d \in Client \ {c} : ctx'[d] = ctx[d],
               V2(table') = V2(table),
               \A t \in stray' : t \in stray \/ t[2].op # "add"
        PROVE  Established'
    <2>1. \A d \in Client : stage'[d] = IF d = c THEN s ELSE stage[d]
      BY <1>3 DEF GoTo, TypeOK, ClientOK
    <2>2. ASSUME NEW d \in Client
          PROVE  /\ stage'[d] \notin {"relisting", "confirming"}
                 /\ stage'[d] # "idle" => ctx'[d].id # NoFilter
      <3>1. CASE d = c
        BY <1>3, <2>1, <3>1
      <3>2. CASE d # c
        <4>1. stage'[d] = stage[d] /\ ctx'[d] = ctx[d]
          BY <1>3, <2>1, <3>2
        <4> QED
          BY <4>1 DEF Established, NoAddition
      <3> QED
        BY <3>1, <3>2
    <2>3. \A t \in stray' : t[2].op # "add"
      BY <1>3 DEF Established, NoAddition
    <2> QED
      BY <1>3, <2>2, <2>3 DEF Established, NoAddition
  <1>4. ASSUME NEW reply, Answer(c, reply), V2(table') = V2(table),
               \A t \in stray' : t \in stray \/ t[2].op # "add"
        PROVE  Established'
    BY <1>4 DEF Established, NoAddition, Answer, GoTo, TypeOK, ClientOK
  <1>5. CASE Load(c)
    <2>1. CanonId(table) # NoFilter
      BY CanonIdFacts, V2Finite DEF Established, TypeOK, ServerOK, FilterIds
    <2>2. ctx'[c].id = CanonId(table) /\ \A d \in Client \ {c} : ctx'[d] = ctx[d]
      BY <1>5 DEF Load, Loaded, TypeOK, ClientOK
    <2> QED
      BY <1>3, <1>5, <2>1, <2>2 DEF Load, server, network, Stages
  <1>6. CASE StartMigration(c)
    <2>1. CanonId(table) # NoFilter
      BY CanonIdFacts, V2Finite DEF Established, TypeOK, ServerOK, FilterIds
    <2>2. PICK rules : ctx' = [ctx EXCEPT ![c] = [id |-> CanonId(table), rules |-> rules]]
      BY <1>6 DEF StartMigration
    <2>3. ctx'[c].id = CanonId(table) /\ \A d \in Client \ {c} : ctx'[d] = ctx[d]
      BY <2>2 DEF TypeOK, ClientOK
    <2> QED
      BY <1>3, <1>6, <2>1, <2>3 DEF StartMigration, server, network, Stages
  <1>7. CASE ReadFails(c) \/ Reply(c)
    <2>1. PICK reply : Answer(c, reply)
      BY <1>7 DEF ReadFails, Reply
    <2>2. UNCHANGED <<table, stray>>
      BY <1>7 DEF ReadFails, Reply, server, network
    <2> QED
      BY <1>4, <2>1, <2>2
  <1>8. CASE MigrationWritten(c)
    <2>1. Delivered(write) /\ stage[c] = "migrating"
      BY <1>8 DEF MigrationWritten
    <2>2. V2(table') = V2(table) /\ UNCHANGED stray
      BY <1>1, <1>2, <2>1, FateKeepsV2 DEF Delivered, network
    <2>3. ctx[c].id # NoFilter
      BY <2>1 DEF Established, NoAddition
    <2> QED
      BY <1>3, <1>8, <2>2, <2>3 DEF MigrationWritten, Stages
  <1>9. CASE Purge(c)
    <2>1. PICK id \in legacy[c] :
              /\ Delivered(DeletionOf(id)) \/ Failed(DeletionOf(id))
              /\ GoTo(c, IF legacy[c] = {id} THEN "ready" ELSE "purging")
      BY <1>9 DEF Purge
    <2>2. DeletionOf(id) \in Messages /\ Harmless(table, nextId, DeletionOf(id))
      BY ContextMessages DEF TypeOK, HarmlessCalls
    <2>3. V2(table') = V2(table)
      BY <2>1, <2>2, DeletionOp, FateKeepsV2
    <2>4. \A t \in stray' : t \in stray \/ t[2].op # "add"
      BY <2>1, FateStray, DeletionOp
    <2>5. ctx[c].id # NoFilter /\ UNCHANGED ctx
      BY <1>9 DEF Purge, Established, NoAddition
    <2> QED
      BY <1>3, <2>1, <2>3, <2>4, <2>5 DEF Stages
  <1>10. CASE StartWrite(c)
    <2>1. PICK rules : ctx' = [ctx EXCEPT ![c].rules = rules]
      BY <1>10 DEF StartWrite
    <2>2. ctx'[c].id = ctx[c].id /\ ctx[c].id # NoFilter
      BY <1>10, <2>1 DEF StartWrite, Established, NoAddition, TypeOK, ClientOK
    <2>3. \A d \in Client \ {c} : ctx'[d] = ctx[d]
      BY <2>1 DEF TypeOK, ClientOK
    <2> QED
      BY <1>3, <1>10, <2>2, <2>3 DEF StartWrite, server, network, Stages
  <1>11. CASE Written(c)
    <2>1. Delivered(write) /\ stage[c] = "writing"
      BY <1>11 DEF Written
    <2>2. V2(table') = V2(table) /\ UNCHANGED stray
      BY <1>1, <1>2, <2>1, FateKeepsV2 DEF Delivered, network
    <2>3. Answer(c, Success(c, TRUE))
      BY <1>11, <2>1 DEF Written, Established, NoAddition
    <2> QED
      BY <1>4, <2>2, <2>3
  <1>12. CASE WriteFails(c)
    <2>1. Failed(write) /\ stage[c] # "idle"
      BY <1>12 DEF WriteFails
    <2>2. V2(table') = V2(table)
      BY <1>1, <1>2, <2>1, FateKeepsV2
    <2>3. \A t \in stray' : t \in stray \/ t[2].op # "add"
      BY <1>2, <2>1, FateStray
    <2> QED
      BY <1>4, <1>12, <2>2, <2>3 DEF WriteFails
  <1>13. ~MigrationRelisted(c) /\ ~Confirm(c)
    BY DEF MigrationRelisted, Confirm, Established, NoAddition
  <1> QED
    BY <1>5, <1>6, <1>7, <1>8, <1>9, <1>10, <1>11, <1>12, <1>13 DEF Work

LEMMA EstablishedNext ==
    ASSUME TypeOK, HarmlessCalls, Established, [Next]_vars
    PROVE  Established'
  <1>1. ASSUME NEW c \in Client, NEW cmd \in Commands, Issue(c, cmd) PROVE Established'
    BY <1>1 DEF Issue, server, network, Established, NoAddition
  <1>0. ASSUME NEW c \in Client, Repeat(c) PROVE Established'
    BY <1>0 DEF Repeat, server, network, Established, NoAddition
  <1>2. ASSUME NEW c \in Client, Work(c) PROVE Established'
    BY <1>2, EstablishedWork
  <1>3. ASSUME NEW c \in Client, Restart(c) PROVE Established'
    <2>1. V2(table') = V2(table)
      BY <1>3 DEF Restart, server
    <2>2. \A d \in Client : /\ stage'[d] = IF d = c THEN "idle" ELSE stage[d]
                            /\ d # c => ctx'[d] = ctx[d]
      BY <1>3 DEF Restart, GoTo, TypeOK, ClientOK
    <2>3. \A m \in Underway(c) : m.op # "add"
      BY WriteOp, DeletionOp DEF Underway, Established, NoAddition
    <2>4. \A s \in stray' : s[2].op # "add"
      BY <1>3, <2>3 DEF Restart, Established, NoAddition
    <2> QED
      BY <2>1, <2>2, <2>4 DEF Established, NoAddition
  <1>4. CASE LandLate
    <2>1. PICK s \in stray : CarriedOut(s[2]) /\ stray' = stray \ {s}
      BY <1>4 DEF LandLate
    <2>2. s[2] \in Messages /\ Harmless(table, nextId, s[2]) /\ s[2].op # "add"
      BY DEF TypeOK, NetworkOK, HarmlessCalls, Established, NoAddition
    <2> DEFINE m == s[2]
    <2>3. V2(table') = V2(table)
      <3>1. m \in Messages /\ Harmless(table, nextId, m) /\ m.op # "add" /\ CarriedOut(m)
        BY <2>1, <2>2
      <3> HIDE DEF m
      <3> QED
        BY <3>1, NoAdditionKeepsV2
    <2>4. UNCHANGED <<stage, ctx>>
      BY <1>4 DEF LandLate, client
    <2> QED
      BY <2>1, <2>3, <2>4 DEF Established, NoAddition
  <1>5. CASE UNCHANGED vars
    BY <1>5 DEF vars, server, client, network, Established, NoAddition
  <1> QED
    BY <1>0, <1>1, <1>2, <1>3, <1>4, <1>5 DEF Next

LEMMA OneFromAtMostOne ==
    ASSUME TypeOK, \A x, y \in V2(table) : x = y
    PROVE  OneCombinedFilter
  BY V2Finite, AtMostOne DEF TypeOK, ServerOK, OneCombinedFilter

\* A mailbox that has its combined filter keeps exactly that one, with any number of
\* installations, restarts, lost calls and calls that land late.
THEOREM OneFilterOnceEstablished ==
    ASSUME \A t \in InitialTables : V2(t) # {}
    PROVE  Spec => []OneCombinedFilter
  <1>1. Init => Established
    <2> SUFFICES ASSUME Init PROVE Established
      OBVIOUS
    <2>1. V2(table) # {} /\ \A x, y \in V2(table) : x = y
      BY InitAtMostOne DEF Init
    <2>2. NoAddition
      BY DEF Init, NoAddition
    <2> QED
      BY <2>1, <2>2 DEF Established
  <1>2. TypeOK /\ HarmlessCalls /\ Established /\ [Next]_vars => Established'
    BY EstablishedNext
  <1>3. TypeOK /\ Established => OneCombinedFilter
    BY OneFromAtMostOne DEF Established
  <1> QED
    BY <1>1, <1>2, <1>3, CallsAreHarmless, PTL DEF Spec

-----------------------------------------------------------------------------
(***************************************************************************)
(* One client, and no call lands after its client gave up.                 *)
(***************************************************************************)

\* What the client read is still so: it is about to add a combined filter only while
\* there is none, and it looks for the one it added only when it is there.
ReadIsFresh ==
    \A c \in Client :
        /\ stage[c] \in {"migrating", "purging", "ready", "writing"} /\ ctx[c].id = NoFilter
             => V2(table) = {}
        /\ stage[c] = "relisting" => V2(table) # {}

Alone ==
    /\ \A x, y \in V2(table) : x = y
    /\ ReadIsFresh

LEMMA AloneWork ==
    ASSUME \A c, d \in Client : c = d, MaxLate = 0,
           TypeOK, HarmlessCalls, Alone, NEW c \in Client, Work(c)
    PROVE  Alone'
  <1> DEFINE write == WriteOf(ctx[c].id, ctx[c].rules)
  <1>1. write \in Messages /\ Harmless(table, nextId, write)
    BY ContextMessages DEF TypeOK, HarmlessCalls
  <1>2. \A d \in Client : d = c
    OBVIOUS
  <1>3. V2(table) \subseteq FilterIds /\ nextId \in FilterIds
    BY V2Finite DEF TypeOK, ServerOK
  <1>4. ASSUME NEW reply, Answer(c, reply), \A x, y \in V2(table') : x = y
        PROVE  Alone'
    <2>1. stage'[c] = "idle"
      BY <1>4 DEF Answer, GoTo, TypeOK, ClientOK
    <2> QED
      BY <1>2, <1>4, <2>1 DEF Alone, ReadIsFresh
  <1>5. ASSUME stage[c] \in {"migrating", "writing"}, Delivered(write) \/ Failed(write)
        PROVE  \A x, y \in V2(table') : x = y
    <2>1. CASE CarriedOut(write) /\ ctx[c].id = NoFilter
      <3>1. V2(table) = {} /\ write.op = "add"
        BY <1>5, <2>1, WriteOp DEF Alone, ReadIsFresh
      <3>2. V2(table') = {nextId}
        BY <1>1, <2>1, <3>1, AdditionAddsOne
      <3> QED
        BY <3>2
    <2>2. CASE CarriedOut(write) /\ ctx[c].id # NoFilter
      <3>1. V2(table') = V2(table)
        BY <1>1, <2>2, WriteOp, NoAdditionKeepsV2
      <3> QED
        BY <3>1 DEF Alone
    <2>3. CASE ~CarriedOut(write)
      BY <1>5, <2>3 DEF Delivered, Failed, Refused, LostBefore, LostAfter, GivenUp, server, Alone
    <2> QED
      BY <2>1, <2>2, <2>3
  <1>6. ASSUME NEW s \in Stages, GoTo(c, s), \A x, y \in V2(table') : x = y,
               s = "relisting" => V2(table') # {},
               s \in {"migrating", "purging", "ready", "writing"} /\ ctx'[c].id = NoFilter
                 => V2(table') = {}
        PROVE  Alone'
    <2>1. stage'[c] = s
      BY <1>6 DEF GoTo, TypeOK, ClientOK
    <2> QED
      BY <1>2, <1>6, <2>1 DEF Alone, ReadIsFresh
  <1>7. CanonId(table) = NoFilter => V2(table) = {}
    BY CanonIdFacts, V2Finite DEF TypeOK, ServerOK, FilterIds
  <1>8. CASE Load(c)
    <2>1. ctx'[c].id = CanonId(table) /\ GoTo(c, "ready") /\ table' = table
      BY <1>8 DEF Load, Loaded, TypeOK, ClientOK, server
    <2> QED
      BY <1>6, <1>7, <2>1 DEF Stages, Alone
  <1>9. CASE StartMigration(c)
    <2>1. PICK rules : ctx' = [ctx EXCEPT ![c] = [id |-> CanonId(table), rules |-> rules]]
      BY <1>9 DEF StartMigration
    <2>2. ctx'[c].id = CanonId(table) /\ GoTo(c, "migrating") /\ table' = table
      BY <1>9, <2>1 DEF StartMigration, TypeOK, ClientOK, server
    <2> QED
      BY <1>6, <1>7, <2>2 DEF Stages, Alone
  <1>10. CASE ReadFails(c) \/ Reply(c) \/ Confirm(c)
    <2>1. PICK reply : Answer(c, reply)
      BY <1>10 DEF ReadFails, Reply, Confirm
    <2>2. table' = table
      BY <1>10 DEF ReadFails, Reply, Confirm, server
    <2> QED
      BY <1>4, <2>1, <2>2 DEF Alone
  <1>11. CASE MigrationWritten(c)
    <2>1. /\ stage[c] = "migrating" /\ Delivered(write) /\ ctx' = ctx
          /\ GoTo(c, IF ctx[c].id = NoFilter THEN "relisting" ELSE "purging")
      BY <1>11 DEF MigrationWritten
    <2>2. \A x, y \in V2(table') : x = y
      BY <1>5, <2>1
    <2>3. ctx[c].id = NoFilter => V2(table') # {}
      BY <1>1, <2>1, WriteOp, AdditionAddsOne DEF Delivered
    <2> QED
      BY <1>6, <2>1, <2>2, <2>3 DEF Stages
  <1>12. CASE MigrationRelisted(c)
    <2>1. V2(table) # {} /\ table' = table /\ GoTo(c, "purging")
      BY <1>12 DEF MigrationRelisted, Alone, ReadIsFresh, server
    <2>2. PICK id \in V2(table) : ctx' = [ctx EXCEPT ![c].id = id]
      BY <1>12, <2>1 DEF MigrationRelisted, Found
    <2>3. ctx'[c].id # NoFilter
      BY <1>3, <2>2 DEF TypeOK, ClientOK, FilterIds
    <2> QED
      BY <1>6, <2>1, <2>3 DEF Stages, Alone
  <1>13. CASE Purge(c)
    <2>1. PICK id \in legacy[c] :
              /\ Delivered(DeletionOf(id)) \/ Failed(DeletionOf(id))
              /\ GoTo(c, IF legacy[c] = {id} THEN "ready" ELSE "purging")
      BY <1>13 DEF Purge
    <2>2. DeletionOf(id) \in Messages /\ Harmless(table, nextId, DeletionOf(id))
      BY ContextMessages DEF TypeOK, HarmlessCalls
    <2>3. V2(table') = V2(table)
      BY <2>1, <2>2, DeletionOp, FateKeepsV2
    <2>4. stage[c] = "purging" /\ ctx' = ctx
      BY <1>13 DEF Purge
    <2>5. \A x, y \in V2(table') : x = y
      BY <2>3 DEF Alone
    <2>6. ctx'[c].id = NoFilter => V2(table') = {}
      BY <2>3, <2>4 DEF Alone, ReadIsFresh
    <2> QED
      BY <1>6, <2>1, <2>5, <2>6 DEF Stages
  <1>14. CASE StartWrite(c)
    <2>1. PICK rules : ctx' = [ctx EXCEPT ![c].rules = rules]
      BY <1>14 DEF StartWrite
    <2>2. ctx'[c].id = ctx[c].id
      BY <2>1 DEF TypeOK, ClientOK
    <2>3. stage[c] = "ready" /\ GoTo(c, "writing") /\ table' = table
      BY <1>14 DEF StartWrite, server
    <2> QED
      BY <1>6, <2>2, <2>3 DEF Stages, Alone, ReadIsFresh
  <1>15. CASE Written(c)
    <2>1. stage[c] = "writing" /\ Delivered(write)
      BY <1>15 DEF Written
    <2>2. \A x, y \in V2(table') : x = y
      BY <1>5, <2>1
    <2>3. GoTo(c, "confirming") \/ Answer(c, Success(c, TRUE))
      BY <1>15 DEF Written
    <2> QED
      BY <1>4, <1>6, <2>2, <2>3 DEF Stages
  <1>16. CASE WriteFails(c)
    BY <1>4, <1>5, <1>16 DEF WriteFails
  <1> QED
    BY <1>8, <1>9, <1>10, <1>11, <1>12, <1>13, <1>14, <1>15, <1>16 DEF Work

LEMMA AloneNext ==
    ASSUME \A c, d \in Client : c = d, MaxLate = 0,
           TypeOK, HarmlessCalls, Alone, [Next]_vars
    PROVE  Alone'
  <1>1. ASSUME NEW c \in Client, NEW cmd \in Commands, Issue(c, cmd) PROVE Alone'
    BY <1>1 DEF Issue, server, Alone, ReadIsFresh
  <1>0. ASSUME NEW c \in Client, Repeat(c) PROVE Alone'
    BY <1>0 DEF Repeat, server, Alone, ReadIsFresh
  <1>2. ASSUME NEW c \in Client, Work(c) PROVE Alone'
    BY <1>2, AloneWork
  <1>3. ASSUME NEW c \in Client, Restart(c) PROVE Alone'
    <2>1. stage'[c] = "idle" /\ table' = table
      BY <1>3 DEF Restart, GoTo, TypeOK, ClientOK, server
    <2>2. \A d \in Client : d = c
      OBVIOUS
    <2> QED
      BY <2>1, <2>2 DEF Alone, ReadIsFresh
  <1>4. stray = {}
    <2>1. late = 0
      BY DEF TypeOK, NetworkOK
    <2> QED
      BY <2>1 DEF TypeOK, NetworkOK
  <1>5. ~LandLate
    BY <1>4 DEF LandLate
  <1>6. CASE UNCHANGED vars
    BY <1>6 DEF vars, server, client, Alone, ReadIsFresh
  <1> QED
    BY <1>0, <1>1, <1>2, <1>3, <1>5, <1>6 DEF Next

\* One installation whose calls never land late has at most one combined filter,
\* from whatever mailbox it starts and whichever answers and restarts it loses.
THEOREM OneFilterForOneClient ==
    ASSUME \A c, d \in Client : c = d, MaxLate = 0
    PROVE  Spec => []OneCombinedFilter
  <1>1. Init => Alone
    <2> SUFFICES ASSUME Init PROVE Alone
      OBVIOUS
    <2>1. ReadIsFresh
      BY DEF Init, ReadIsFresh
    <2> QED
      BY <2>1, InitAtMostOne DEF Alone
  <1>2. TypeOK /\ HarmlessCalls /\ Alone /\ [Next]_vars => Alone'
    BY AloneNext
  <1>3. TypeOK /\ Alone => OneCombinedFilter
    BY OneFromAtMostOne DEF Alone
  <1> QED
    BY <1>1, <1>2, <1>3, CallsAreHarmless, PTL DEF Spec

-----------------------------------------------------------------------------
(***************************************************************************)
(* Where rules come from, in one step of any client or call.               *)
(***************************************************************************)

\* The commands a client has under its lock or in an open dialog.
Asked(d) == {queue[d][i] : i \in DOMAIN queue[d]} \cup known[d].again

AskedStep(d) ==
    \A cmd \in Asked(d)' :
        \/ cmd \in Asked(d)
        \/ \E sent \in Commands :
             /\ Target(sent) < nextRule
             /\ cmd = Stamped(sent, nextRule)
             /\ nextRule' = nextRule + Minted(sent)

\* The list a client works on: kept, dropped, read, extended by a migration, updated.
RulesStep(d) ==
    \/ ctx'[d].rules = ctx[d].rules
    \/ ctx'[d].rules = <<>>
    \/ ctx'[d].rules = CanonRules(table)
    \/ \E order \in SetToSeqs(ToMigrate(table)) :
         /\ ctx'[d].rules = CanonRules(table) \o Copies(table, order, nextRule)
         /\ nextRule' = nextRule + Len(order)
    \/ /\ queue[d] # <<>>
       /\ ~Rejected(Running(d))
       /\ NeedsWrite(Running(d), ctx[d].rules)
       /\ ctx'[d].rules = Updated(Running(d), ctx[d].rules, nextRule)
       /\ nextRule' = nextRule + Minted(Running(d))

SentStep ==
    \A s \in stray' :
        \/ s \in stray
        \/ s[2].rules = <<>>
        \/ \E c \in Client : s[2].rules = ctx[c].rules

StoredStep ==
    \A id \in DOMAIN table' :
        \/ id \in DOMAIN table /\ table'[id].rules = table[id].rules
                               /\ table'[id].kind = table[id].kind
        \/ \E c \in Client : table'[id].rules = ctx[c].rules
        \/ \E s \in stray : table'[id].rules = s[2].rules

LEMMA RowsAfter ==
    ASSUME NEW t, IsTable(t), NEW next, NEW m \in Messages, NEW id \in DOMAIN After(t, next, m)
    PROVE  LET row == After(t, next, m)[id]
           IN  \/ id \in DOMAIN t /\ row.rules = t[id].rules /\ row.kind = t[id].kind
               \/ row.rules = m.rules
  <1>1. ASSUME NEW r \in Rows
        PROVE  [r EXCEPT !.active = FALSE].rules = r.rules /\ [r EXCEPT !.active = FALSE].kind = r.kind
    BY DEF Rows
  <1>2. ASSUME NEW at, NEW x \in DOMAIN Put(t, at, m.rules)
        PROVE  LET row == Put(t, at, m.rules)[x]
               IN  \/ x \in DOMAIN t /\ row.rules = t[x].rules /\ row.kind = t[x].kind
                   \/ row.rules = m.rules
    <2>1. CASE x = at
      BY <2>1 DEF Put
    <2>2. CASE x # at
      <3>1. x \in DOMAIN t /\ Put(t, at, m.rules)[x] = [t[x] EXCEPT !.active = FALSE]
        BY <2>2 DEF Put
      <3> QED
        BY <1>1, <3>1 DEF IsTable
    <2> QED
      BY <2>1, <2>2
  <1>3. CASE m.op = "add"
    BY <1>2, <1>3 DEF After
  <1>4. CASE m.op = "edit"
    BY <1>2, <1>4 DEF After
  <1>5. CASE m.op = "delete"
    BY <1>5 DEF After, Without
  <1> QED
    BY <1>3, <1>4, <1>5, MessageFields

LEMMA FateRows ==
    ASSUME TypeOK, NEW m \in Messages, Delivered(m) \/ Failed(m), NEW id \in DOMAIN table'
    PROVE  \/ id \in DOMAIN table /\ table'[id].rules = table[id].rules
                                  /\ table'[id].kind = table[id].kind
           \/ table'[id].rules = m.rules
  <1>1. table' = table \/ table' = After(table, nextId, m)
    BY DEF Delivered, Failed, Refused, LostBefore, LostAfter, GivenUp, CarriedOut, server
  <1>2. IsTable(table)
    BY DEF TypeOK, ServerOK
  <1> QED
    BY <1>1, <1>2, RowsAfter

LEMMA CallRules ==
    /\ \A id, rules : WriteOf(id, rules).rules = rules
    /\ \A id : DeletionOf(id).rules = <<>>
  BY DEF WriteOf, DeletionOf

\* A client's write, whatever becomes of it.
LEMMA WriteFlow ==
    ASSUME TypeOK, NEW c \in Client,
           \/ Delivered(WriteOf(ctx[c].id, ctx[c].rules))
           \/ Failed(WriteOf(ctx[c].id, ctx[c].rules))
    PROVE  SentStep /\ StoredStep
  <1> DEFINE m == WriteOf(ctx[c].id, ctx[c].rules)
  <1>1. m \in Messages /\ m.rules = ctx[c].rules
    BY ContextMessages, CallRules DEF TypeOK
  <1> HIDE DEF m
  <1>2. Delivered(m) \/ Failed(m)
    BY DEF m
  <1>3. SentStep
    <2> SUFFICES ASSUME NEW s \in stray', s \notin stray
                 PROVE  \E d \in Client : s[2].rules = ctx[d].rules
      BY DEF SentStep
    <2>1. s[2] = m
      BY <1>2, FateStray
    <2> QED
      BY <1>1, <2>1
  <1>4. StoredStep
    BY <1>1, <1>2, FateRows DEF StoredStep
  <1> QED
    BY <1>3, <1>4

LEMMA DeletionFlow ==
    ASSUME TypeOK, NEW c \in Client, NEW v1 \in legacy[c],
           Delivered(DeletionOf(v1)) \/ Failed(DeletionOf(v1))
    PROVE  SentStep /\ StoredStep
  <1> DEFINE m == DeletionOf(v1)
  <1>1. m \in Messages /\ m.rules = <<>> /\ m.op = "delete"
    BY ContextMessages, CallRules, DeletionOp DEF TypeOK
  <1> HIDE DEF m
  <1>2. Delivered(m) \/ Failed(m)
    BY DEF m
  <1>3. SentStep
    <2> SUFFICES ASSUME NEW s \in stray', s \notin stray PROVE s[2].rules = <<>>
      BY DEF SentStep
    <2> QED
      BY <1>1, <1>2, FateStray
  <1>4. ASSUME NEW id \in DOMAIN table'
        PROVE  id \in DOMAIN table /\ table'[id] = table[id]
    <2>1. table' = table \/ table' = Without(table, m.id)
      BY <1>1, <1>2 DEF Delivered, Failed, Refused, LostBefore, LostAfter, GivenUp, CarriedOut,
                        server, After
    <2> QED
      BY <2>1 DEF Without
  <1>5. StoredStep
    BY <1>4 DEF StoredStep
  <1> QED
    BY <1>3, <1>5

LEMMA NoCallFlow ==
    ASSUME UNCHANGED <<table, stray>>
    PROVE  SentStep /\ StoredStep
  BY DEF SentStep, StoredStep

\* A command that ends takes its command along, or leaves it in the open dialog.
LEMMA AnswerFlow ==
    ASSUME ClientOK, NEW c \in Client, NEW reply, Answer(c, reply), queue[c] # <<>>,
           reply.again \subseteq {Running(c)}, NEW d \in Client
    PROVE  RulesStep(d) /\ AskedStep(d)
  <1>1. ctx' = [ctx EXCEPT ![c] = NoCtx] /\ known' = [known EXCEPT ![c] = reply]
    BY DEF Answer
  <1>2. queue' = [queue EXCEPT ![c] = Tail(queue[c])]
    BY DEF Answer
  <1>3. RulesStep(d)
    BY <1>1 DEF ClientOK, NoCtx, RulesStep
  <1> DEFINE q == queue[c]
  <1>4. q \in Seq(CommandType) /\ q # <<>>
    BY DEF ClientOK
  <1> HIDE DEF q
  <1>5. /\ \A i \in DOMAIN Tail(q) : \E j \in DOMAIN q : Tail(q)[i] = q[j]
        /\ \E j \in DOMAIN q : Head(q) = q[j]
    <2>1. /\ Tail(q) \in Seq(CommandType) /\ Len(Tail(q)) = Len(q) - 1
          /\ \A i \in 1 .. Len(Tail(q)) : Tail(q)[i] = q[i + 1]
      BY <1>4, HeadTailProperties
    <2>2. DOMAIN q = 1 .. Len(q) /\ Len(q) \in Nat /\ Len(q) >= 1
      BY <1>4, LenProperties, EmptySeq
    <2>3. DOMAIN Tail(q) = 1 .. Len(Tail(q))
      BY <2>1, LenProperties
    <2>4. \A i \in DOMAIN Tail(q) : i + 1 \in DOMAIN q
      BY <2>1, <2>2, <2>3
    <2>5. Head(q) = q[1] /\ 1 \in DOMAIN q
      BY <2>2
    <2> QED
      BY <2>1, <2>3, <2>4, <2>5
  <1>6. CASE d = c
    <2>1. queue'[c] = Tail(q) /\ known'[c].again \subseteq {Head(q)}
      BY <1>1, <1>2 DEF ClientOK, q, Running
    <2>2. \A cmd \in Asked(c)' : cmd \in Asked(c)
      BY <1>5, <2>1 DEF Asked, q
    <2> QED
      BY <1>3, <1>6, <2>2 DEF AskedStep
  <1>7. CASE d # c
    <2>1. queue'[d] = queue[d] /\ known'[d] = known[d]
      BY <1>1, <1>2, <1>7 DEF ClientOK
    <2> QED
      BY <1>3, <2>1 DEF AskedStep, Asked
  <1> QED
    BY <1>6, <1>7

LEMMA RepliesAsk ==
    ASSUME NEW c \in Client
    PROVE  /\ Error(c).again \subseteq {Running(c)}
           /\ \A wrote : Success(c, wrote).again = {}
           /\ Nothing.again = {}
  BY DEF Error, Success, Nothing

\* A step that leaves queue and answers alone.
LEMMA SameAsked ==
    ASSUME UNCHANGED <<queue, known>>, NEW d \in Client
    PROVE  AskedStep(d)
  BY DEF AskedStep, Asked

Flow ==
    /\ \A d \in Client : RulesStep(d) /\ AskedStep(d)
    /\ SentStep
    /\ StoredStep
    /\ nextRule <= nextRule'

LEMMA WorkFlow ==
    ASSUME TypeOK, TypeOK', NEW c \in Client, Work(c)
    PROVE  Flow
  <1>0. /\ ClientOK /\ nextRule \in Nat /\ IsTable(table)
        /\ \A d \in Client : ctx[d] \in Contexts /\ queue[d] \in Seq(CommandType)
    BY DEF TypeOK, ClientOK, ServerOK, Contexts
  <1>1. CASE Load(c)
    <2>1. UNCHANGED <<table, stray, queue, known, nextRule>>
      BY <1>1 DEF Load, server, network
    <2>2. ctx' = [ctx EXCEPT ![c] = Loaded(table)]
      BY <1>1 DEF Load
    <2>3. \A d \in Client : RulesStep(d)
      BY <2>2 DEF Loaded, RulesStep, TypeOK, ClientOK
    <2> QED
      BY <1>0, <2>1, <2>3, NoCallFlow, SameAsked DEF Flow
  <1>2. CASE StartMigration(c)
    <2>1. UNCHANGED <<table, stray, queue, known>>
      BY <1>2 DEF StartMigration, server, network
    <2>2. PICK order \in SetToSeqs(ToMigrate(table)) :
              /\ ctx' = [ctx EXCEPT ![c] =
                           [id |-> CanonId(table),
                            rules |-> CanonRules(table) \o Copies(table, order, nextRule)]]
              /\ nextRule' = nextRule + Len(order)
      BY <1>2 DEF StartMigration
    <2>3. nextRule <= nextRule'
      BY <1>0, <2>2, CopiesFacts
    <2>4. ASSUME NEW d \in Client PROVE RulesStep(d)
      <3> DEFINE list == CanonRules(table) \o Copies(table, order, nextRule)
      <3>1. CASE d = c
        <4>1. ctx'[c].rules = list
          BY <2>2 DEF TypeOK, ClientOK
        <4> QED
          BY <2>2, <3>1, <4>1 DEF RulesStep
      <3>2. CASE d # c
        BY <2>2, <3>2 DEF RulesStep, TypeOK, ClientOK
      <3> QED
        BY <3>1, <3>2
    <2> QED
      BY <2>1, <2>3, <2>4, NoCallFlow, SameAsked DEF Flow
  <1>3. CASE ReadFails(c) \/ Reply(c) \/ Confirm(c)
    <2>1. queue[c] # <<>> /\ UNCHANGED <<table, stray, nextRule>>
      BY <1>3 DEF ReadFails, Reply, Confirm, TypeOK, ClientOK, server, network
    <2>2. PICK reply : Answer(c, reply) /\ reply.again \subseteq {Running(c)}
      BY <1>3, RepliesAsk DEF ReadFails, Reply, Confirm
    <2> QED
      BY <1>0, <2>1, <2>2, AnswerFlow, NoCallFlow DEF Flow
  <1>4. CASE MigrationWritten(c)
    <2>1. SentStep /\ StoredStep /\ UNCHANGED <<queue, known, ctx, nextRule>>
      BY <1>4, WriteFlow DEF MigrationWritten
    <2> QED
      BY <1>0, <2>1, SameAsked DEF Flow, RulesStep
  <1>5. CASE MigrationRelisted(c)
    <2>1. UNCHANGED <<table, stray, queue, known, nextRule>>
      BY <1>5 DEF MigrationRelisted, server, network
    <2>2. PICK id : ctx' = [ctx EXCEPT ![c].id = id]
      BY <1>5 DEF MigrationRelisted
    <2>3. \A d \in Client : ctx'[d].rules = ctx[d].rules
      BY <2>2 DEF TypeOK, ClientOK
    <2> QED
      BY <1>0, <2>1, <2>3, NoCallFlow, SameAsked DEF Flow, RulesStep
  <1>6. CASE Purge(c)
    <2>1. SentStep /\ StoredStep /\ UNCHANGED <<queue, known, ctx, nextRule>>
      BY <1>6, DeletionFlow DEF Purge
    <2> QED
      BY <1>0, <2>1, SameAsked DEF Flow, RulesStep
  <1>7. CASE StartWrite(c)
    <2>1. UNCHANGED <<table, stray, queue, known>>
      BY <1>7 DEF StartWrite, server, network
    <2> DEFINE list == Updated(Running(c), ctx[c].rules, nextRule)
    <2>2. /\ ctx' = [ctx EXCEPT ![c].rules = list]
          /\ nextRule' = nextRule + Minted(Running(c))
          /\ queue[c] # <<>> /\ ~Rejected(Running(c)) /\ NeedsWrite(Running(c), ctx[c].rules)
      BY <1>7 DEF StartWrite, TypeOK, ClientOK
    <2>3. nextRule <= nextRule'
      <3>1. Minted(Running(c)) \in Nat
        BY <1>0, <2>2, RunningType, MintedType
      <3> QED
        BY <1>0, <2>2, <3>1
    <2>4. ASSUME NEW d \in Client PROVE RulesStep(d)
      <3>1. CASE d = c
        <4>1. ctx'[c].rules = list
          <5> HIDE DEF list
          <5> QED
            BY <2>2 DEF TypeOK, ClientOK
        <4> QED
          BY <2>2, <3>1, <4>1 DEF RulesStep
      <3>2. CASE d # c
        <4>1. ctx'[d] = ctx[d]
          <5> HIDE DEF list
          <5> QED
            BY <2>2, <3>2 DEF TypeOK, ClientOK
        <4> QED
          BY <4>1 DEF RulesStep
      <3> QED
        BY <3>1, <3>2
    <2> QED
      BY <2>1, <2>3, <2>4, NoCallFlow, SameAsked DEF Flow
  <1>8. CASE Written(c) \/ WriteFails(c)
    <2>1. SentStep /\ StoredStep /\ nextRule' = nextRule
      BY <1>8, WriteFlow DEF Written, WriteFails
    <2>2. queue[c] # <<>>
      BY <1>8 DEF Written, WriteFails, TypeOK, ClientOK
    <2>3. CASE UNCHANGED <<queue, ctx, known>>
      BY <1>0, <2>1, <2>3, SameAsked DEF Flow, RulesStep
    <2>4. CASE ~UNCHANGED <<queue, ctx, known>>
      <3>1. PICK reply : Answer(c, reply) /\ reply.again \subseteq {Running(c)}
        BY <1>8, <2>4, RepliesAsk DEF Written, WriteFails
      <3> QED
        BY <1>0, <2>1, <2>2, <3>1, AnswerFlow DEF Flow
    <2> QED
      BY <2>3, <2>4
  <1> QED
    BY <1>1, <1>2, <1>3, <1>4, <1>5, <1>6, <1>7, <1>8 DEF Work

LEMMA EnqueueAsked ==
    ASSUME ClientOK, NEW c \in Client, NEW cmd \in CommandType,
           queue' = [queue EXCEPT ![c] = Append(@, cmd)], NEW d \in Client,
           NEW i \in DOMAIN queue'[d]
    PROVE  queue'[d][i] \in {queue[d][j] : j \in DOMAIN queue[d]} \/ queue'[d][i] = cmd
  <1>1. CASE d # c
    <2>1. queue'[d] = queue[d]
      BY <1>1 DEF ClientOK
    <2> QED
      BY <2>1
  <1>2. CASE d = c
    <2> DEFINE q == queue[c]
               longer == Append(q, cmd)
    <2>1. q \in Seq(CommandType)
      BY DEF ClientOK
    <2>2. queue'[d] = longer
      BY <1>2 DEF ClientOK
    <2> HIDE DEF q
    <2>3. /\ longer \in Seq(CommandType) /\ Len(longer) = Len(q) + 1
          /\ \A j \in 1 .. Len(q) : longer[j] = q[j]
          /\ longer[Len(q) + 1] = cmd
      BY <2>1, AppendProperties
    <2>4. DOMAIN longer = 1 .. Len(q) + 1 /\ DOMAIN q = 1 .. Len(q) /\ Len(q) \in Nat
      BY <2>1, <2>3, LenProperties
    <2> HIDE DEF longer
    <2>5. i \in DOMAIN q \/ i = Len(q) + 1
      BY <2>2, <2>4
    <2>6. longer[i] \in {q[j] : j \in DOMAIN q} \/ longer[i] = cmd
      BY <2>3, <2>4, <2>5
    <2> QED
      BY <1>2, <2>2, <2>6 DEF q
  <1> QED
    BY <1>1, <1>2

LEMMA NextFlow ==
    ASSUME TypeOK, TypeOK', [Next]_vars
    PROVE  Flow
  <1>0. ClientOK /\ nextRule \in Nat /\ \A d \in Client : ctx[d] \in Contexts
    BY DEF TypeOK, ClientOK, Contexts
  <1>1. ASSUME NEW c \in Client, NEW sent \in Commands, Issue(c, sent) PROVE Flow
    <2> DEFINE cmd == Stamped(sent, nextRule)
    <2>1. cmd \in CommandType /\ Minted(sent) \in Nat
      BY <1>0, StampedType, MintedType
    <2>2. /\ Target(sent) < nextRule /\ nextRule' = nextRule + Minted(sent)
          /\ queue' = [queue EXCEPT ![c] = Append(@, cmd)]
          /\ UNCHANGED <<table, stray, ctx, known>>
      BY <1>1 DEF Issue, server, network
    <2>3. \A d \in Client : AskedStep(d)
      <3> SUFFICES ASSUME NEW d \in Client, NEW m \in Asked(d)'
                   PROVE  m \in Asked(d) \/ m = cmd
        BY <2>2 DEF AskedStep
      <3>1. CASE m \in known'[d].again
        BY <2>2, <3>1 DEF Asked
      <3>2. CASE m \notin known'[d].again
        <4>1. PICK i \in DOMAIN queue'[d] : m = queue'[d][i]
          BY <3>2 DEF Asked
        <4> HIDE DEF cmd
        <4>2. m \in {queue[d][j] : j \in DOMAIN queue[d]} \/ m = cmd
          BY <1>0, <2>1, <2>2, <4>1, EnqueueAsked
        <4> QED
          BY <4>2 DEF Asked
      <3> QED
        BY <3>1, <3>2
    <2>4. nextRule <= nextRule'
      BY <1>0, <2>1, <2>2
    <2> QED
      BY <2>2, <2>3, <2>4, NoCallFlow DEF Flow, RulesStep
  <1>2. ASSUME NEW c \in Client, Repeat(c) PROVE Flow
    <2>1. PICK cmd \in known[c].again : queue' = [queue EXCEPT ![c] = Append(@, cmd)]
      BY <1>2 DEF Repeat
    <2>2. known' = [known EXCEPT ![c] = Nothing] /\ UNCHANGED <<table, stray, ctx, nextRule>>
      BY <1>2 DEF Repeat, server, network
    <2>3. cmd \in CommandType
      BY DEF TypeOK, ClientOK
    <2>4. ASSUME NEW d \in Client PROVE AskedStep(d)
      <3> SUFFICES ASSUME NEW m \in Asked(d)' PROVE m \in Asked(d)
        BY DEF AskedStep
      <3>1. known'[d].again \subseteq known[d].again
        BY <2>2, RepliesAsk DEF TypeOK, ClientOK
      <3>2. ASSUME NEW i \in DOMAIN queue'[d], m = queue'[d][i] PROVE m \in Asked(d)
        <4>1. m \in {queue[d][j] : j \in DOMAIN queue[d]} \/ m = cmd
          BY <1>0, <2>1, <2>3, <3>2, EnqueueAsked
        <4>2. CASE d = c
          BY <4>1, <4>2 DEF Asked
        <4>3. CASE d # c
          <5>1. queue'[d] = queue[d]
            BY <2>1, <4>3 DEF TypeOK, ClientOK
          <5> QED
            BY <3>2, <5>1 DEF Asked
        <4> QED
          BY <4>2, <4>3
      <3> QED
        BY <3>1, <3>2 DEF Asked
    <2> QED
      BY <1>0, <2>2, <2>4, NoCallFlow DEF Flow, RulesStep
  <1>3. ASSUME NEW c \in Client, Work(c) PROVE Flow
    BY <1>3, WorkFlow
  <1>4. ASSUME NEW c \in Client, Restart(c) PROVE Flow
    <2>1. UNCHANGED <<table, nextRule>> /\ ctx' = [ctx EXCEPT ![c] = NoCtx]
      BY <1>4 DEF Restart, server
    <2>2. \A d \in Client : RulesStep(d)
      BY <2>1 DEF TypeOK, ClientOK, NoCtx, RulesStep
    <2>3. SentStep
      <3> SUFFICES ASSUME NEW s \in stray', s \notin stray
                   PROVE  s[2].rules = <<>> \/ \E d \in Client : s[2].rules = ctx[d].rules
        BY DEF SentStep
      <3>1. s[2] \in Underway(c)
        BY <1>4 DEF Restart
      <3> QED
        BY <3>1, CallRules DEF Underway
    <2>4. PICK reply \in {Nothing, Error(c)} : known' = [known EXCEPT ![c] = reply]
      BY <1>4 DEF Restart
    <2>5. queue' = [queue EXCEPT ![c] = <<>>] /\ queue[c] # <<>>
      BY <1>4 DEF Restart
    <2>6. Running(c) \in Asked(c)
      <3>1. queue[c] \in Seq(CommandType)
        BY DEF TypeOK, ClientOK
      <3> DEFINE q == queue[c]
      <3> HIDE DEF q
      <3>2. 1 \in DOMAIN q /\ Head(q) = q[1]
        BY <2>5, <3>1, EmptySeq, LenProperties DEF q
      <3> QED
        BY <3>2 DEF Asked, Running, q
    <2>7. ASSUME NEW d \in Client PROVE AskedStep(d)
      <3>1. CASE d = c
        <4>1. known'[c].again \subseteq {Running(c)}
          BY <2>4, RepliesAsk DEF TypeOK, ClientOK
        <4>2. {queue'[c][i] : i \in DOMAIN queue'[c]} = {}
          <5>1. queue'[c] = <<>>
            BY <2>5 DEF TypeOK, ClientOK
          <5> QED
            BY <5>1
        <4> QED
          BY <2>6, <3>1, <4>1, <4>2 DEF AskedStep, Asked
      <3>2. CASE d # c
        <4>1. queue'[d] = queue[d] /\ known'[d] = known[d]
          BY <2>4, <2>5, <3>2 DEF TypeOK, ClientOK
        <4> QED
          BY <4>1 DEF AskedStep, Asked
      <3> QED
        BY <3>1, <3>2
    <2>8. StoredStep
      BY <2>1 DEF StoredStep
    <2> QED
      BY <1>0, <2>1, <2>2, <2>3, <2>7, <2>8 DEF Flow
  <1>5. CASE LandLate
    <2>1. PICK s \in stray : CarriedOut(s[2]) /\ stray' = stray \ {s}
      BY <1>5 DEF LandLate
    <2>2. UNCHANGED <<ctx, queue, known, nextRule>>
      BY <1>5 DEF LandLate, client
    <2> DEFINE m == s[2]
    <2>3. m \in Messages /\ IsTable(table)
      BY DEF TypeOK, ServerOK, NetworkOK
    <2>4. table' = After(table, nextId, m)
      BY <2>1 DEF CarriedOut
    <2> HIDE DEF m
    <2>5. StoredStep
      <3> SUFFICES ASSUME NEW id \in DOMAIN table'
                   PROVE  \/ id \in DOMAIN table /\ table'[id].rules = table[id].rules
                                                 /\ table'[id].kind = table[id].kind
                          \/ table'[id].rules = m.rules
        BY <2>1 DEF StoredStep, m
      <3> QED
        BY <2>3, <2>4, RowsAfter
    <2>6. SentStep
      BY <2>1 DEF SentStep
    <2> QED
      BY <1>0, <2>2, <2>5, <2>6, SameAsked DEF Flow, RulesStep
  <1>6. CASE UNCHANGED vars
    <2>1. UNCHANGED <<table, stray, ctx, queue, known, nextRule>>
      BY <1>6 DEF vars, server, network, client
    <2> QED
      BY <1>0, <2>1, NoCallFlow, SameAsked DEF Flow, RulesStep
  <1> QED
    BY <1>1, <1>2, <1>3, <1>4, <1>5, <1>6 DEF Next

-----------------------------------------------------------------------------
(***************************************************************************)
(* Rule ids: those in use lie below the next unused one, whatever a call   *)
(* given up long ago still brings.                                         *)
(***************************************************************************)

\* The rules a command brings, once it is stamped, are among those in use.
InUse(cmd, bound) ==
    /\ Target(cmd) < bound
    /\ cmd.op = "importLocalFilters" => Below(cmd.batch, bound)

OldRules(bound) == {rule \in Rules : rule.id < bound}

LEMMA BelowIsIn ==
    ASSUME NEW rules \in Seq(Rules), NEW bound \in Nat
    PROVE  Below(rules, bound) <=> rules \in Seq(OldRules(bound))
  <1>1. DOMAIN rules = 1 .. Len(rules) /\ Len(rules) \in Nat
    BY LenProperties
  <1>2. ASSUME Below(rules, bound) PROVE rules \in Seq(OldRules(bound))
    <2>1. rules \in [1 .. Len(rules) -> OldRules(bound)]
      BY <1>1, <1>2, LenProperties DEF Below, OldRules
    <2> QED
      BY <1>1, <2>1, FunctionIsSeq
  <1>3. ASSUME rules \in Seq(OldRules(bound)) PROVE Below(rules, bound)
    BY <1>1, <1>3, ElementOfSeq DEF Below, OldRules
  <1> QED
    BY <1>2, <1>3

LEMMA RuleIds ==
    ASSUME NEW rules \in Seq(Rules), NEW i \in DOMAIN rules
    PROVE  rules[i] \in Rules /\ rules[i].id \in Nat
  <1>1. rules[i] \in Rules
    BY LenProperties, ElementOfSeq
  <1>2. \A rule \in Rules : rule.id \in Nat
    BY DEF Rules
  <1> QED
    BY <1>1, <1>2

LEMMA BelowLater ==
    ASSUME NEW rules \in Seq(Rules), NEW low \in Nat, NEW high \in Nat, low <= high,
           Below(rules, low)
    PROVE  Below(rules, high)
  BY RuleIds DEF Below

LEMMA EmptyBelow == \A bound : Below(<<>>, bound) /\ Unique(<<>>)
  BY DEF Below, Unique

LEMMA ConcatBelow ==
    ASSUME NEW a \in Seq(Rules), NEW b \in Seq(Rules), NEW bound \in Nat,
           Below(a, bound), Below(b, bound)
    PROVE  Below(a \o b, bound)
  <1>1. a \in Seq(OldRules(bound)) /\ b \in Seq(OldRules(bound))
    BY BelowIsIn
  <1>2. a \o b \in Seq(OldRules(bound)) /\ a \o b \in Seq(Rules)
    BY <1>1, ConcatProperties
  <1> QED
    BY <1>2, BelowIsIn

LEMMA WithIdsBelow ==
    ASSUME NEW cmd \in CommandType, cmd.op = "importLocalFilters", NEW fresh \in Nat,
           Below(cmd.batch, fresh)
    PROVE  /\ WithIds(cmd.batch, fresh) \in Seq(Rules)
           /\ Below(WithIds(cmd.batch, fresh), fresh + Minted(cmd))
  <1> DEFINE batch == cmd.batch
             n == Len(batch)
             new == WithIds(batch, fresh)
  <1>1. batch \in Seq(Rules)
    BY DEF CommandType
  <1>2. n \in Nat /\ DOMAIN batch = 1 .. n
    BY <1>1, LenProperties
  <1>3. new \in Seq(Rules)
    BY <1>1, WithIdsType
  <1>4. DOMAIN new = 1 .. n
    BY <1>2 DEF WithIds
  <1>5. Minted(cmd) = IF Holds(batch, NoId) THEN n ELSE 0
    BY DEF Minted
  <1>6. ASSUME NEW r \in Rules, NEW id \in Nat PROVE [r EXCEPT !.id = id].id = id
    BY DEF Rules
  <1>7. \A i \in 1 .. n : batch[i] \in Rules /\ batch[i].id \in Nat
    BY <1>1, <1>2, RuleIds
  <1>8. ASSUME NEW i \in 1 .. n PROVE new[i].id < fresh + Minted(cmd)
    <2>1. new[i] = IF batch[i].id = NoId THEN [batch[i] EXCEPT !.id = fresh + i - 1] ELSE batch[i]
      BY <1>2 DEF WithIds
    <2>2. CASE batch[i].id = NoId
      <3>1. new[i].id = fresh + i - 1
        BY <1>6, <1>7, <2>1, <2>2
      <3>2. Minted(cmd) = n
        BY <1>2, <1>5, <2>2 DEF Holds
      <3> QED
        BY <1>2, <3>1, <3>2
    <2>3. CASE batch[i].id # NoId
      <3>1. new[i].id = batch[i].id /\ batch[i].id < fresh
        BY <1>2, <2>1, <2>3 DEF Below
      <3>2. Minted(cmd) \in Nat
        BY MintedType
      <3> QED
        BY <1>7, <3>1, <3>2
    <2> QED
      BY <2>2, <2>3
  <1> QED
    BY <1>3, <1>4, <1>8 DEF Below

\* The list a command writes uses ids in use and those it mints.
LEMMA UpdatedBelow ==
    ASSUME NEW rules \in Seq(Rules), NEW cmd \in CommandType, NEW fresh \in Nat,
           ~Rejected(cmd), NeedsWrite(cmd, rules), Below(rules, fresh), InUse(cmd, fresh)
    PROVE  Below(Updated(cmd, rules, fresh), fresh + Minted(cmd))
  <1> DEFINE bound == fresh + Minted(cmd)
             S == OldRules(bound)
  <1>1. bound \in Nat /\ fresh <= bound
    BY MintedType
  <1>2. rules \in Seq(S)
    BY <1>1, BelowLater, BelowIsIn
  <1>3. ASSUME cmd.op = "saveRule"
        PROVE  Stored(IF cmd.id = NoId THEN fresh ELSE cmd.id, cmd.draft) \in S
    <2>1. cmd.id \in Nat /\ cmd.draft \in Drafts /\ cmd.draft.name # NoName
      BY <1>3 DEF CommandType, Rejected
    <2>2. Minted(cmd) = IF cmd.id = NoId THEN 1 ELSE 0
      BY <1>3 DEF Minted
    <2>3. cmd.id < fresh
      BY <1>3 DEF InUse, Target
    <2> DEFINE id == IF cmd.id = NoId THEN fresh ELSE cmd.id
    <2>4. id \in Nat /\ id < bound
      BY <2>1, <2>2, <2>3
    <2> HIDE DEF id, bound
    <2>5. Stored(id, cmd.draft) \in Rules /\ Stored(id, cmd.draft).id = id
      BY <2>1, <2>4 DEF Stored, Rules, Drafts
    <2> QED
      BY <2>4, <2>5 DEF OldRules, id
  <1>4. ASSUME cmd.op = "setRuleActive", NEW rule \in S
        PROVE  [rule EXCEPT !.active = cmd.active] \in S
    <2>1. cmd.active \in BOOLEAN
      BY <1>4 DEF CommandType
    <2> HIDE DEF bound
    <2> QED
      BY <2>1 DEF OldRules, Rules
  <1>5. ASSUME cmd.op = "importLocalFilters" PROVE WithIds(cmd.batch, fresh) \in Seq(S)
    BY <1>1, <1>5, WithIdsBelow, BelowIsIn DEF InUse
  <1>6. Updated(cmd, rules, fresh) \in Seq(S)
    <2> HIDE DEF S
    <2> QED
      BY <1>2, <1>3, <1>4, <1>5, UpdatedIn DEF Carries
  <1> QED
    BY <1>1, <1>6, UpdatedType, BelowIsIn

\* Stamping a command puts its rules among those in use.
LEMMA StampedInUse ==
    ASSUME NEW cmd \in CommandType, NEW fresh \in Nat \ {NoId}, Target(cmd) < fresh,
           cmd.op = "importLocalFilters" => Below(cmd.batch, fresh)
    PROVE  InUse(Stamped(cmd, fresh), fresh + Minted(cmd))
  <1>0. fresh + Minted(cmd) \in Nat /\ fresh <= fresh + Minted(cmd) /\ NoId < fresh
    BY MintedType DEF NoId
  <1>1. CASE cmd.op = "saveRule"
    <2>1. cmd.id \in Nat
      BY <1>1 DEF CommandType
    <2>2. CASE cmd.id = NoId
      <3>1. Stamped(cmd, fresh) = [cmd EXCEPT !.id = fresh] /\ Minted(cmd) = 1
        BY <1>1, <2>2 DEF Stamped, Minted
      <3>2. cmd \in [op : {"saveRule"}, id : Nat, draft : Drafts, order : Int \cup {NoOrder}]
        BY <1>1 DEF CommandType
      <3>3. [cmd EXCEPT !.id = fresh].id = fresh /\ [cmd EXCEPT !.id = fresh].op = "saveRule"
        BY <3>2
      <3> QED
        BY <3>1, <3>3 DEF InUse, Target
    <2>3. CASE cmd.id # NoId
      <3>1. Stamped(cmd, fresh) = cmd /\ Minted(cmd) = 0
        BY <1>1, <2>3 DEF Stamped, Minted
      <3> QED
        BY <1>1, <3>1 DEF InUse
    <2> QED
      BY <2>2, <2>3
  <1>2. CASE cmd.op = "importLocalFilters"
    <2>1. cmd \in [op : {"importLocalFilters"}, batch : Seq(Rules), top : BOOLEAN]
      BY <1>2 DEF CommandType
    <2> DEFINE new == WithIds(cmd.batch, fresh)
    <2>2. Stamped(cmd, fresh) = [cmd EXCEPT !.batch = new]
      BY <1>2 DEF Stamped
    <2>3. new \in Seq(Rules) /\ Below(new, fresh + Minted(cmd))
      BY <1>2, WithIdsBelow
    <2> HIDE DEF new
    <2>4. /\ [cmd EXCEPT !.batch = new].batch = new
          /\ [cmd EXCEPT !.batch = new].op = "importLocalFilters"
      BY <2>1
    <2>5. NoId < fresh + Minted(cmd)
      BY <1>0 DEF NoId
    <2> QED
      BY <2>2, <2>3, <2>4, <2>5 DEF InUse, Target
  <1>3. CASE cmd.op \notin {"saveRule", "importLocalFilters"}
    <2>1. Stamped(cmd, fresh) = cmd /\ Minted(cmd) = 0
      BY <1>3 DEF Stamped, Minted
    <2> QED
      BY <1>3, <2>1 DEF InUse
  <1> QED
    BY <1>1, <1>2, <1>3

LEMMA InUseLater ==
    ASSUME NEW cmd \in CommandType, NEW low \in Nat, NEW high \in Nat, low <= high,
           InUse(cmd, low)
    PROVE  InUse(cmd, high)
  <1>1. Target(cmd) \in Nat
    BY DEF Target, CommandType, NoId
  <1>2. cmd.op = "importLocalFilters" => cmd.batch \in Seq(Rules)
    BY DEF CommandType
  <1> QED
    BY <1>1, <1>2, BelowLater DEF InUse

\* The rules a migration copies get the ids after the last one in use, and stay readable.
LEMMA CopiesAt ==
    ASSUME NEW t, IsTable(t), NEW fresh \in Nat, NEW order \in SetToSeqs(ToMigrate(t))
    PROVE  LET new == Copies(t, order, fresh)
           IN  /\ new \in Seq(Rules) /\ Len(order) \in Nat
               /\ Len(new) = Len(order) /\ DOMAIN new = 1 .. Len(order)
               /\ \A i \in 1 .. Len(order) :
                    /\ new[i].id = fresh + i - 1
                    /\ order[i] \in ToMigrate(t)
                    /\ new[i].name = t[order[i]].rules[1].name
                    /\ new[i].body \notin Unreadable
  <1> DEFINE new == Copies(t, order, fresh)
             n == Len(order)
  <1>1. new \in Seq(Rules) /\ n \in Nat
    BY CopiesFacts
  <1>2. order \in [1 .. Cardinality(ToMigrate(t)) -> ToMigrate(t)]
    BY DEF SetToSeqs
  <1>3. ToMigrate(t) \subseteq DOMAIN t /\ \A id \in ToMigrate(t) : t[id].kind = "v1"
    BY DEF ToMigrate, V1, OfKind
  <1>4. DOMAIN order = 1 .. n
    <2>1. Cardinality(ToMigrate(t)) \in Nat
      BY <1>3, FS_Subset, FS_CardinalityType DEF IsTable
    <2> QED
      BY <1>2, <2>1, FunctionIsSeq
  <1>5. DOMAIN new = 1 .. n
    BY <1>4 DEF Copies
  <1>6. Len(new) = n
    BY <1>1, <1>5, LenProperties
  <1>7. ASSUME NEW i \in 1 .. n
        PROVE  /\ new[i].id = fresh + i - 1
               /\ order[i] \in ToMigrate(t)
               /\ new[i].name = t[order[i]].rules[1].name
               /\ new[i].body \notin Unreadable
    <2> DEFINE row == t[order[i]]
               rules == row.rules
               rule == rules[1]
    <2>1. order[i] \in ToMigrate(t)
      BY <1>2, <1>4
    <2>2. row \in Rows /\ row.kind = "v1" /\ row.rules # <<>>
      <3>1. row \in Rows /\ row.kind = "v1" /\ Len(row.rules) = 1
        BY <1>3, <2>1 DEF IsTable
      <3> QED
        BY <3>1, NotEmpty
    <2>3. rules \in Seq(Rules) /\ rules # <<>> /\ row.active \in BOOLEAN
      BY <2>2 DEF Rows
    <2>4. Readable(rules)
      BY <2>1 DEF ToMigrate
    <2> DEFINE active == row.active
    <2>5. new[i] = [rule EXCEPT !.id = fresh + i - 1, !.active = active]
      BY <1>4 DEF Copies
    <2> HIDE DEF rules, active, new, row
    <2>6. rule \in Rules /\ rule.body \notin Unreadable
      <3>1. 1 \in DOMAIN rules
        BY <2>3, EmptySeq, LenProperties
      <3> QED
        BY <2>3, <2>4, <3>1, RuleIds DEF Readable
    <2> HIDE DEF rule
    <2>7. ASSUME NEW r \in Rules, NEW id, NEW a
          PROVE  LET q == [r EXCEPT !.id = id, !.active = a]
                 IN  q.id = id /\ q.name = r.name /\ q.body = r.body
      BY DEF Rules
    <2>8. new[i].id = fresh + i - 1 /\ new[i].name = rule.name /\ new[i].body = rule.body
      BY <2>5, <2>6, <2>7
    <2> QED
      BY <2>1, <2>6, <2>8 DEF rule, rules, row
  <1> QED
    BY <1>1, <1>5, <1>6, <1>7

LEMMA CanonRulesRow ==
    ASSUME NEW t, IsTable(t)
    PROVE  /\ CanonRules(t) \in Seq(Rules)
           /\ Readable(CanonRules(t))
           /\ CanonRules(t) = <<>> \/ \E id \in V2(t) : CanonRules(t) = t[id].rules
  <1>1. V2(t) # {} => CanonId(t) \in V2(t)
    BY CanonIdFacts
  <1> QED
    BY <1>1, CanonRulesType DEF CanonRules, Readable

\* The list a migration writes: the copies come in behind the combined filter's rules.
LEMMA MigratedList ==
    ASSUME NEW t, IsTable(t), NEW fresh \in Nat, NEW order \in SetToSeqs(ToMigrate(t)),
           Below(CanonRules(t), fresh)
    PROVE  LET list == CanonRules(t) \o Copies(t, order, fresh)
           IN  /\ list \in Seq(Rules)
               /\ Below(list, fresh + Len(order))
               /\ Unique(CanonRules(t)) => Unique(list)
               /\ Readable(list)
               /\ list = CanonRules(t) \/ RS!Extends(list, CanonRules(t))
  <1> DEFINE old == CanonRules(t)
             new == Copies(t, order, fresh)
             list == old \o new
             n == Len(old)
             m == Len(order)
  <1>1. /\ new \in Seq(Rules) /\ m \in Nat /\ Len(new) = m /\ DOMAIN new = 1 .. m
        /\ \A i \in 1 .. m : /\ new[i].id = fresh + i - 1
                             /\ order[i] \in ToMigrate(t)
                             /\ new[i].name = t[order[i]].rules[1].name
                             /\ new[i].body \notin Unreadable
    BY CopiesAt
  <1>2. old \in Seq(Rules) /\ Readable(old)
    BY CanonRulesRow
  <1> DEFINE taken == {old[i].name : i \in DOMAIN old} \ Blank
  <1>3. \A id \in ToMigrate(t) : t[id].rules[1].name \notin taken
    BY DEF ToMigrate
  <1>4. Below(old, fresh)
    OBVIOUS
  <1> HIDE DEF old, new
  <1>5. n \in Nat /\ DOMAIN old = 1 .. n /\ \A i \in 1 .. n : old[i].id \in Nat
    BY <1>2, LenProperties, RuleIds
  <1>l. /\ old \in Seq(Rules) /\ Len(old) = n
        /\ new \in Seq(Rules) /\ Len(new) = m
    BY <1>1, <1>2
  <1> HIDE DEF n, m
  <1>6. /\ list \in Seq(Rules) /\ Len(list) = n + m
        /\ \A j \in 1 .. n : list[j] = old[j]
        /\ \A j \in n + 1 .. n + m : list[j] = new[j - n]
    BY <1>l, ConcatAt
  <1>7. DOMAIN list = 1 .. n + m
    BY <1>6, LenProperties
  <1> HIDE DEF list
  <1>8. ASSUME NEW j \in n + 1 .. n + m
        PROVE  /\ list[j].id = fresh + (j - n) - 1
               /\ list[j].name \notin taken
               /\ list[j].body \notin Unreadable
    <2> DEFINE k == j - n
    <2>1. k \in 1 .. m /\ list[j] = new[k]
      BY <1>1, <1>5, <1>6
    <2> HIDE DEF k
    <2>2. /\ list[j].id = fresh + k - 1
          /\ list[j].name \notin taken
          /\ list[j].body \notin Unreadable
      BY <1>1, <1>3, <2>1
    <2> QED
      BY <2>2 DEF k
  <1>9. ASSUME NEW j \in 1 .. n
        PROVE  /\ list[j] = old[j]
               /\ list[j].id \in Nat /\ list[j].id < fresh
               /\ list[j].body \notin Unreadable
    BY <1>2, <1>4, <1>5, <1>6 DEF Below, Readable
  <1>10. \A j \in 1 .. n + m : j \in 1 .. n \/ j \in n + 1 .. n + m
    BY <1>1, <1>5
  <1>11. Below(list, fresh + m)
    <2>1. \A j \in 1 .. n : list[j].id < fresh + m
      BY <1>1, <1>9
    <2>2. \A j \in n + 1 .. n + m : list[j].id < fresh + m
      BY <1>1, <1>5, <1>8
    <2> QED
      BY <1>7, <1>10, <2>1, <2>2 DEF Below
  <1>12. ASSUME Unique(old) PROVE Unique(list)
    <2>1. \A i, j \in 1 .. n : list[i].id = list[j].id => i = j
      BY <1>5, <1>9, <1>12 DEF Unique
    <2>2. \A i, j \in n + 1 .. n + m : list[i].id = list[j].id => i = j
      BY <1>1, <1>5, <1>8
    <2>3. \A i \in 1 .. n : \A j \in n + 1 .. n + m : list[i].id # list[j].id
      BY <1>1, <1>5, <1>8, <1>9
    <2> QED
      BY <1>7, <1>10, <2>1, <2>2, <2>3 DEF Unique
  <1>13. Readable(list)
    BY <1>7, <1>8, <1>9, <1>10 DEF Readable
  <1>14. m = 0 => list = old
    <2>1. m = 0 => new = <<>>
      BY <1>1, EmptySeq
    <2> QED
      BY <1>2, <2>1, ConcatEmptySeq DEF list
  <1>15. ASSUME m # 0 PROVE RS!Extends(list, old)
    <2>1. IsStrictPrefix(old, list)
      <3>1. Len(old) <= Len(list) /\ Len(old) # Len(list)
        BY <1>1, <1>5, <1>6, <1>l, <1>15
      <3>2. SubSeq(old, 1, n) = old
        BY <1>2, SubSeqFull DEF n
      <3>3. SubSeq(list, 1, n) = old
        <4>1. /\ SubSeq(list, 1, n) \in Seq(Rules)
              /\ Len(SubSeq(list, 1, n)) = IF 1 <= n THEN n - 1 + 1 ELSE 0
              /\ \A i \in 1 .. n - 1 + 1 : SubSeq(list, 1, n)[i] = list[1 + i - 1]
          <5>1. \A i \in 1 .. n : list[i] \in Rules
            BY <1>2, <1>5, <1>9, RuleIds
          <5>2. 1 \in Int /\ n \in Int
            BY <1>5
          <5> QED
            BY <5>1, <5>2, SubSeqProperties
        <4> DEFINE sub == SubSeq(list, 1, n)
        <4> HIDE DEF sub
        <4>2. Len(sub) = n /\ \A i \in 1 .. n : sub[i] = old[i]
          BY <1>5, <1>9, <4>1 DEF sub
        <4>3. sub \in Seq(Rules) /\ Len(old) = n
          BY <4>1 DEF sub, n
        <4> QED
          BY <1>2, <4>2, <4>3, SeqEqual DEF sub
      <3> QED
        BY <3>1, <3>2, <3>3 DEF IsStrictPrefix, IsPrefix, n
    <2>2. ASSUME NEW i \in DOMAIN old, NEW j \in DOMAIN list \ DOMAIN old
          PROVE  /\ old[i].id < list[j].id
                 /\ old[i].name = list[j].name => old[i].name \in Blank
      <3>1. i \in 1 .. n /\ j \in n + 1 .. n + m
        BY <1>5, <1>7, <1>10
      <3>2. old[i].id \in Nat /\ old[i].id < fresh
        BY <1>4, <1>5 DEF Below
      <3>3. fresh <= fresh + (j - n) - 1
        BY <1>5, <1>1, <3>1
      <3>4. old[i].id < list[j].id
        <4>1. list[j].id = fresh + (j - n) - 1
          BY <1>8, <3>1
        <4>2. j - n \in Int
          BY <1>5, <3>1
        <4> QED
          BY <3>2, <3>3, <4>1, <4>2
      <3>5. old[i].name = list[j].name => old[i].name \in Blank
        <4>1. list[j].name \notin taken
          BY <1>8, <3>1
        <4> QED
          BY <4>1
      <3> QED
        BY <3>4, <3>5
    <2> QED
      BY <2>1, <2>2 DEF RS!Extends, RS!IsStrictPrefix, RS!IsPrefix, IsStrictPrefix, IsPrefix
  <1> QED
    BY <1>6, <1>11, <1>12, <1>13, <1>14, <1>15 DEF list, old, new, m

\* The two readings of a command, the page's and the abstract store's, are one.
LEMMA SameCommands ==
    ASSUME NEW cmd, NEW rules, NEW fresh
    PROVE  /\ RS!Rejected(cmd) <=> Rejected(cmd)
           /\ RS!NeedsWrite(cmd, rules) <=> NeedsWrite(cmd, rules)
           /\ RS!Updated(cmd, rules, fresh) = Updated(cmd, rules, fresh)
  <1>1. RS!Rejected(cmd) <=> Rejected(cmd)
    BY DEF RS!Rejected, Rejected, RS!NoName, NoName, RS!NoId, NoId
  <1>2. RS!NeedsWrite(cmd, rules) <=> NeedsWrite(cmd, rules)
    BY DEF RS!NeedsWrite, NeedsWrite, RS!Holds, Holds
  <1>3. RS!Updated(cmd, rules, fresh) = Updated(cmd, rules, fresh)
    BY DEF RS!Updated, Updated, RS!Saved, Saved, RS!Edited, Edited, RS!Added, Added,
           RS!Removed, Removed, RS!Switched, Switched, RS!Imported, Imported,
           RS!WithIds, WithIds, RS!AtPositions, AtPositions, RS!IndexOf, IndexOf,
           RS!Holds, Holds, RS!Stored, Stored, RS!Clamp, Clamp, RS!NoId, NoId,
           RS!RemoveAt, RemoveAt, RS!InsertAt, InsertAt, RS!ReplaceAt, ReplaceAt
  <1> QED
    BY <1>1, <1>2, <1>3

-----------------------------------------------------------------------------
(***************************************************************************)
(* The invariant: every rule id anywhere was given out before.             *)
(***************************************************************************)
IdsInUse ==
    /\ FirstRule <= nextRule
    /\ \A id \in DOMAIN table : Below(table[id].rules, nextRule)
    /\ \A c \in Client : Below(ctx[c].rules, nextRule)
    /\ \A c \in Client : \A cmd \in Asked(c) : InUse(cmd, nextRule)
    /\ \A s \in stray : Below(s[2].rules, nextRule)

\* What a page brings from elsewhere carries no rule id yet to be given out.
BatchesBelow ==
    \A cmd \in Commands : cmd.op = "importLocalFilters" => Below(cmd.batch, FirstRule)

LEMMA AskedType ==
    ASSUME ClientOK, NEW c \in Client
    PROVE  /\ Asked(c) \subseteq CommandType
           /\ queue[c] # <<>> => Running(c) \in Asked(c)
  <1> DEFINE q == queue[c]
  <1>1. q \in Seq(CommandType) /\ known[c].again \subseteq CommandType
    BY DEF ClientOK
  <1> HIDE DEF q
  <1>2. \A i \in DOMAIN q : q[i] \in CommandType
    BY <1>1, LenProperties, ElementOfSeq
  <1>3. q # <<>> => 1 \in DOMAIN q /\ Head(q) = q[1]
    BY <1>1, EmptySeq, LenProperties
  <1> QED
    BY <1>1, <1>2, <1>3 DEF Asked, Running, q

LEMMA ReadBelow ==
    ASSUME TypeOK, IdsInUse
    PROVE  Below(CanonRules(table), nextRule)
  <1>1. CanonRules(table) = <<>> \/ \E id \in V2(table) : CanonRules(table) = table[id].rules
    BY CanonRulesRow DEF TypeOK, ServerOK
  <1>2. V2(table) \subseteq DOMAIN table
    BY DEF V2, OfKind
  <1> QED
    BY <1>1, <1>2, EmptyBelow DEF IdsInUse

LEMMA NextIdsInUse ==
    ASSUME BatchesBelow, TypeOK, TypeOK', Flow, IdsInUse
    PROVE  IdsInUse'
  <1>1. /\ nextRule \in Nat \ {NoId} /\ nextRule' \in Nat /\ nextRule <= nextRule'
        /\ IsTable(table) /\ IsTable(table') /\ ClientOK /\ ClientOK' /\ NetworkOK
    BY DEF TypeOK, ClientOK, ServerOK, Flow
  <1>2. \A rules \in Seq(Rules) : Below(rules, nextRule) => Below(rules, nextRule')
    BY <1>1, BelowLater
  <1>3. \A d \in Client : ctx[d].rules \in Seq(Rules) /\ Below(ctx[d].rules, nextRule)
    BY ContextMessages DEF TypeOK, IdsInUse
  <1>4. \A s \in stray : s[2].rules \in Seq(Rules) /\ Below(s[2].rules, nextRule)
    BY MessageFields DEF TypeOK, NetworkOK, IdsInUse
  <1>5. FirstRule <= nextRule'
    BY <1>1 DEF IdsInUse
  <1>6. ASSUME NEW id \in DOMAIN table' PROVE Below(table'[id].rules, nextRule')
    <2>1. CASE id \in DOMAIN table /\ table'[id].rules = table[id].rules
      <3>1. table[id].rules \in Seq(Rules)
        BY <1>1, <2>1 DEF IsTable, Rows
      <3> QED
        BY <1>2, <2>1, <3>1 DEF IdsInUse
    <2>2. CASE \E c \in Client : table'[id].rules = ctx[c].rules
      BY <1>2, <1>3, <2>2
    <2>3. CASE \E s \in stray : table'[id].rules = s[2].rules
      BY <1>2, <1>4, <2>3
    <2> QED
      BY <2>1, <2>2, <2>3 DEF Flow, StoredStep
  <1>7. ASSUME NEW s \in stray' PROVE Below(s[2].rules, nextRule')
    BY <1>2, <1>3, <1>4, EmptyBelow DEF Flow, SentStep
  <1>8. ASSUME NEW c \in Client, NEW cmd \in Asked(c)' PROVE InUse(cmd, nextRule')
    <2>1. CASE cmd \in Asked(c)
      <3>1. cmd \in CommandType /\ InUse(cmd, nextRule)
        BY <1>1, <2>1, AskedType DEF IdsInUse
      <3> QED
        BY <1>1, <3>1, InUseLater
    <2>2. CASE \E sent \in Commands : /\ Target(sent) < nextRule
                                      /\ cmd = Stamped(sent, nextRule)
                                      /\ nextRule' = nextRule + Minted(sent)
      <3>1. PICK sent \in Commands : /\ Target(sent) < nextRule
                                     /\ cmd = Stamped(sent, nextRule)
                                     /\ nextRule' = nextRule + Minted(sent)
        BY <2>2
      <3>2. sent \in CommandType
        OBVIOUS
      <3>3. sent.op = "importLocalFilters" => Below(sent.batch, nextRule)
        <4> SUFFICES ASSUME sent.op = "importLocalFilters" PROVE Below(sent.batch, nextRule)
          OBVIOUS
        <4>1. Below(sent.batch, FirstRule) /\ sent.batch \in Seq(Rules)
          BY <3>2 DEF BatchesBelow, CommandType
        <4>2. FirstRule \in Nat /\ FirstRule <= nextRule
          BY DEF IdsInUse
        <4> QED
          BY <1>1, <4>1, <4>2, BelowLater
      <3> QED
        BY <1>1, <3>1, <3>2, <3>3, StampedInUse
    <2> QED
      BY <2>1, <2>2 DEF Flow, AskedStep
  <1>9. ASSUME NEW c \in Client PROVE Below(ctx'[c].rules, nextRule')
    <2>1. CASE ctx'[c].rules = ctx[c].rules
      BY <1>2, <1>3, <2>1
    <2>2. CASE ctx'[c].rules = <<>>
      BY <2>2, EmptyBelow
    <2>3. CASE ctx'[c].rules = CanonRules(table)
      BY <1>1, <1>2, <2>3, ReadBelow, CanonRulesType
    <2>4. CASE \E order \in SetToSeqs(ToMigrate(table)) :
                 /\ ctx'[c].rules = CanonRules(table) \o Copies(table, order, nextRule)
                 /\ nextRule' = nextRule + Len(order)
      <3>1. PICK order \in SetToSeqs(ToMigrate(table)) :
                 /\ ctx'[c].rules = CanonRules(table) \o Copies(table, order, nextRule)
                 /\ nextRule' = nextRule + Len(order)
        BY <2>4
      <3>2. Below(CanonRules(table) \o Copies(table, order, nextRule), nextRule + Len(order))
        BY <1>1, ReadBelow, MigratedList
      <3> QED
        BY <3>1, <3>2
    <2>5. CASE /\ queue[c] # <<>>
               /\ ~Rejected(Running(c))
               /\ NeedsWrite(Running(c), ctx[c].rules)
               /\ ctx'[c].rules = Updated(Running(c), ctx[c].rules, nextRule)
               /\ nextRule' = nextRule + Minted(Running(c))
      <3> DEFINE cmd == Running(c)
                 rules == ctx[c].rules
      <3>1. cmd \in CommandType /\ InUse(cmd, nextRule)
        BY <1>1, <2>5, AskedType DEF IdsInUse
      <3>2. rules \in Seq(Rules) /\ Below(rules, nextRule) /\ nextRule \in Nat
        BY <1>1, <1>3
      <3>3. ~Rejected(cmd) /\ NeedsWrite(cmd, rules)
        BY <2>5
      <3> HIDE DEF cmd, rules
      <3>4. Below(Updated(cmd, rules, nextRule), nextRule + Minted(cmd))
        BY <3>1, <3>2, <3>3, UpdatedBelow
      <3> QED
        BY <2>5, <3>4 DEF cmd, rules
    <2> QED
      BY <2>1, <2>2, <2>3, <2>4, <2>5 DEF Flow, RulesStep
  <1> QED
    BY <1>5, <1>6, <1>7, <1>8, <1>9 DEF IdsInUse

LEMMA InitIdsInUse == Init => IdsInUse
  <1> SUFFICES ASSUME Init PROVE IdsInUse
    OBVIOUS
  <1>1. \A c \in Client : Asked(c) = {} /\ ctx[c].rules = <<>>
    BY DEF Init, Asked, NoCtx, Nothing
  <1>2. \A id \in DOMAIN table : Below(table[id].rules, nextRule)
    BY InitialTablesAssumption DEF Init, Below
  <1>3. stray = {} /\ nextRule = FirstRule /\ FirstRule \in Nat
    BY DEF Init
  <1> QED
    BY <1>1, <1>2, <1>3, EmptyBelow DEF IdsInUse

-----------------------------------------------------------------------------
(***************************************************************************)
(* No rule is stored twice, however often a save is repeated: a save that  *)
(* comes again finds its id, a new rule gets one that nobody has, and a    *)
(* list goes from one place to another as a whole.                         *)
(***************************************************************************)
OnceEach ==
    /\ \A id \in V2(table) : Unique(table[id].rules)
    /\ \A c \in Client : Unique(ctx[c].rules)
    /\ \A s \in stray : Unique(s[2].rules)
    /\ \A c \in Client : \A cmd \in Asked(c) : cmd.op # "importLocalFilters"

\* A batch that is imported twice holds its ids twice.
NoImports == \A cmd \in Commands : cmd.op # "importLocalFilters"

OnceAtFirst ==
    \A t \in InitialTables : \A id \in V2(t) : Unique(t[id].rules)

LEMMA StampedOp ==
    ASSUME NEW cmd \in CommandType, NEW fresh \in Nat
    PROVE  Stamped(cmd, fresh).op = cmd.op
  <1>1. CASE cmd.op = "saveRule"
    <2>1. cmd \in [op : {"saveRule"}, id : Nat, draft : Drafts, order : Int \cup {NoOrder}]
      BY <1>1 DEF CommandType
    <2>2. [cmd EXCEPT !.id = fresh].op = cmd.op
      BY <2>1
    <2> QED
      BY <1>1, <2>2 DEF Stamped
  <1>2. CASE cmd.op = "importLocalFilters"
    <2>1. cmd \in [op : {"importLocalFilters"}, batch : Seq(Rules), top : BOOLEAN]
      BY <1>2 DEF CommandType
    <2>2. \A new : [cmd EXCEPT !.batch = new].op = cmd.op
      BY <2>1
    <2> QED
      BY <1>2, <2>2 DEF Stamped
  <1>3. CASE cmd.op \notin {"saveRule", "importLocalFilters"}
    BY <1>3 DEF Stamped
  <1> QED
    BY <1>1, <1>2, <1>3

LEMMA ReadOnce ==
    ASSUME TypeOK, OnceEach
    PROVE  Unique(CanonRules(table))
  <1>1. CanonRules(table) = <<>> \/ \E id \in V2(table) : CanonRules(table) = table[id].rules
    BY CanonRulesRow DEF TypeOK, ServerOK
  <1> QED
    BY <1>1, EmptyBelow DEF OnceEach

LEMMA NextOnceEach ==
    ASSUME NoImports, TypeOK, TypeOK', Flow, IdsInUse, OnceEach
    PROVE  OnceEach'
  <1>1. /\ nextRule \in Nat /\ IsTable(table) /\ ClientOK
    BY DEF TypeOK, ClientOK, ServerOK
  <1>2. ASSUME NEW id \in V2(table') PROVE Unique(table'[id].rules)
    <2>1. id \in DOMAIN table' /\ table'[id].kind = "v2"
      BY DEF V2, OfKind
    <2>2. CASE id \in DOMAIN table /\ table'[id].rules = table[id].rules
                                   /\ table'[id].kind = table[id].kind
      BY <2>1, <2>2 DEF OnceEach, V2, OfKind
    <2>3. CASE \E c \in Client : table'[id].rules = ctx[c].rules
      BY <2>3 DEF OnceEach
    <2>4. CASE \E s \in stray : table'[id].rules = s[2].rules
      BY <2>4 DEF OnceEach
    <2> QED
      BY <2>1, <2>2, <2>3, <2>4 DEF Flow, StoredStep
  <1>3. ASSUME NEW s \in stray' PROVE Unique(s[2].rules)
    BY EmptyBelow DEF Flow, SentStep, OnceEach
  <1>4. ASSUME NEW c \in Client, NEW cmd \in Asked(c)' PROVE cmd.op # "importLocalFilters"
    <2>1. CASE cmd \in Asked(c)
      BY <2>1 DEF OnceEach
    <2>2. CASE \E sent \in Commands : cmd = Stamped(sent, nextRule)
      <3>1. PICK sent \in Commands : cmd = Stamped(sent, nextRule)
        BY <2>2
      <3>2. sent \in CommandType
        OBVIOUS
      <3> QED
        BY <1>1, <3>1, <3>2, StampedOp DEF NoImports
    <2> QED
      BY <2>1, <2>2 DEF Flow, AskedStep
  <1>5. ASSUME NEW c \in Client PROVE Unique(ctx'[c].rules)
    <2>1. CASE ctx'[c].rules = ctx[c].rules
      BY <2>1 DEF OnceEach
    <2>2. CASE ctx'[c].rules = <<>>
      BY <2>2, EmptyBelow
    <2>3. CASE ctx'[c].rules = CanonRules(table)
      BY <2>3, ReadOnce
    <2>4. CASE \E order \in SetToSeqs(ToMigrate(table)) :
                 ctx'[c].rules = CanonRules(table) \o Copies(table, order, nextRule)
      <3>1. PICK order \in SetToSeqs(ToMigrate(table)) :
                 ctx'[c].rules = CanonRules(table) \o Copies(table, order, nextRule)
        BY <2>4
      <3>2. Unique(CanonRules(table) \o Copies(table, order, nextRule))
        BY <1>1, ReadBelow, ReadOnce, MigratedList
      <3> QED
        BY <3>1, <3>2
    <2>5. CASE /\ queue[c] # <<>>
               /\ ~Rejected(Running(c))
               /\ NeedsWrite(Running(c), ctx[c].rules)
               /\ ctx'[c].rules = Updated(Running(c), ctx[c].rules, nextRule)
      <3> DEFINE cmd == Running(c)
                 rules == ctx[c].rules
      <3>1. cmd \in CommandType /\ cmd.op # "importLocalFilters"
        BY <1>1, <2>5, AskedType DEF OnceEach
      <3>2. rules \in Seq(Rules) /\ Below(rules, nextRule) /\ Unique(rules)
        BY <1>1, ContextMessages DEF IdsInUse, OnceEach
      <3>3. ~Rejected(cmd) /\ NeedsWrite(cmd, rules)
        BY <2>5
      <3> HIDE DEF cmd, rules
      <3>4. Unique(Updated(cmd, rules, nextRule))
        BY <1>1, <3>1, <3>2, <3>3, UpdatedUnique
      <3> QED
        BY <2>5, <3>4 DEF cmd, rules
    <2> QED
      BY <2>1, <2>2, <2>3, <2>4, <2>5 DEF Flow, RulesStep
  <1> QED
    BY <1>2, <1>3, <1>4, <1>5 DEF OnceEach

\* A save repeated after an error, by any number of installations and however late the
\* first try lands, stores its rule once (the id a page gives a new rule in newRule).
THEOREM StoredOnce ==
    ASSUME NoImports, OnceAtFirst
    PROVE  Spec => []CreatedOnce
  <1>1. Init => OnceEach
    <2> SUFFICES ASSUME Init PROVE OnceEach
      OBVIOUS
    <2>1. \A c \in Client : Asked(c) = {} /\ ctx[c].rules = <<>>
      BY DEF Init, Asked, NoCtx, Nothing
    <2> QED
      BY <2>1, EmptyBelow DEF Init, OnceAtFirst, OnceEach
  <1>2. BatchesBelow
    BY DEF NoImports, BatchesBelow
  <1>3. TypeOK /\ TypeOK' /\ IdsInUse /\ [Next]_vars => IdsInUse'
    BY <1>2, NextFlow, NextIdsInUse
  <1>4. TypeOK /\ TypeOK' /\ IdsInUse /\ OnceEach /\ [Next]_vars => OnceEach'
    BY NextFlow, NextOnceEach
  <1>5. OnceEach => CreatedOnce
    BY DEF OnceEach, CreatedOnce, Unique
  <1> QED
    BY <1>1, <1>3, <1>4, <1>5, InitIdsInUse, TypeCorrect, PTL DEF Spec

-----------------------------------------------------------------------------
(***************************************************************************)
(* A list that commands are carried out on can be read back.               *)
(***************************************************************************)
ReadableCommand(cmd) ==
    /\ cmd.op = "saveRule" => cmd.draft.body \notin Unreadable
    /\ cmd.op = "importLocalFilters" => Readable(cmd.batch)

ReadableRules == {rule \in Rules : rule.body \notin Unreadable}

AllReadable ==
    /\ \A c \in Client : Readable(ctx[c].rules)
    /\ \A c \in Client : \A cmd \in Asked(c) : ReadableCommand(cmd)

\* No page brings a rule whose script the add-on cannot parse back.
OnlyReadable == \A cmd \in Commands : ReadableCommand(cmd)

LEMMA ReadableIsIn ==
    ASSUME NEW rules \in Seq(Rules)
    PROVE  Readable(rules) <=> rules \in Seq(ReadableRules)
  <1>1. DOMAIN rules = 1 .. Len(rules) /\ Len(rules) \in Nat
    BY LenProperties
  <1>2. ASSUME Readable(rules) PROVE rules \in Seq(ReadableRules)
    <2>1. rules \in [1 .. Len(rules) -> ReadableRules]
      BY <1>1, <1>2, LenProperties DEF Readable, ReadableRules
    <2> QED
      BY <1>1, <2>1, FunctionIsSeq
  <1>3. ASSUME rules \in Seq(ReadableRules) PROVE Readable(rules)
    BY <1>1, <1>3, ElementOfSeq DEF Readable, ReadableRules
  <1> QED
    BY <1>2, <1>3

LEMMA WithIdsReadable ==
    ASSUME NEW batch \in Seq(Rules), Readable(batch), NEW fresh \in Nat
    PROVE  Readable(WithIds(batch, fresh))
  <1>1. ASSUME NEW r \in Rules, NEW id PROVE [r EXCEPT !.id = id].body = r.body
    BY DEF Rules
  <1>2. DOMAIN WithIds(batch, fresh) = DOMAIN batch
    BY DEF WithIds
  <1>3. ASSUME NEW i \in DOMAIN batch PROVE WithIds(batch, fresh)[i].body = batch[i].body
    <2>1. batch[i] \in Rules
      BY RuleIds
    <2>2. WithIds(batch, fresh)[i] =
            IF batch[i].id = NoId THEN [batch[i] EXCEPT !.id = fresh + i - 1] ELSE batch[i]
      BY DEF WithIds
    <2> QED
      BY <1>1, <2>1, <2>2
  <1> QED
    BY <1>2, <1>3 DEF Readable

LEMMA UpdatedReadable ==
    ASSUME NEW rules \in Seq(Rules), Readable(rules), NEW cmd \in CommandType,
           ReadableCommand(cmd), NEW fresh \in Nat, ~Rejected(cmd), NeedsWrite(cmd, rules)
    PROVE  Readable(Updated(cmd, rules, fresh))
  <1> DEFINE S == ReadableRules
  <1>1. rules \in Seq(S)
    BY ReadableIsIn
  <1>2. ASSUME cmd.op = "saveRule"
        PROVE  Stored(IF cmd.id = NoId THEN fresh ELSE cmd.id, cmd.draft) \in S
    <2>1. cmd.id \in Nat /\ cmd.draft \in Drafts /\ cmd.draft.name # NoName
      BY <1>2 DEF CommandType, Rejected
    <2>2. cmd.draft.body \notin Unreadable
      BY <1>2 DEF ReadableCommand
    <2> DEFINE id == IF cmd.id = NoId THEN fresh ELSE cmd.id
    <2>3. id \in Nat
      BY <2>1
    <2> HIDE DEF id
    <2>4. Stored(id, cmd.draft) \in S
      BY <2>1, <2>2, <2>3 DEF Stored, Rules, Drafts, ReadableRules
    <2> QED
      BY <2>4 DEF id
  <1>3. ASSUME cmd.op = "setRuleActive", NEW rule \in S
        PROVE  [rule EXCEPT !.active = cmd.active] \in S
    <2>1. cmd.active \in BOOLEAN
      BY <1>3 DEF CommandType
    <2> QED
      BY <2>1 DEF ReadableRules, Rules
  <1>4. ASSUME cmd.op = "importLocalFilters" PROVE WithIds(cmd.batch, fresh) \in Seq(S)
    <2>1. cmd.batch \in Seq(Rules) /\ Readable(cmd.batch)
      BY <1>4 DEF CommandType, ReadableCommand
    <2> QED
      BY <2>1, WithIdsType, WithIdsReadable, ReadableIsIn
  <1>5. Updated(cmd, rules, fresh) \in Seq(S)
    <2> HIDE DEF S
    <2> QED
      BY <1>1, <1>2, <1>3, <1>4, UpdatedIn DEF Carries
  <1> QED
    BY <1>5, UpdatedType, ReadableIsIn

LEMMA StampedReadable ==
    ASSUME NEW cmd \in CommandType, ReadableCommand(cmd), NEW fresh \in Nat
    PROVE  ReadableCommand(Stamped(cmd, fresh))
  <1>1. CASE cmd.op = "saveRule"
    <2>1. cmd \in [op : {"saveRule"}, id : Nat, draft : Drafts, order : Int \cup {NoOrder}]
      BY <1>1 DEF CommandType
    <2>2. /\ [cmd EXCEPT !.id = fresh].op = cmd.op
          /\ [cmd EXCEPT !.id = fresh].draft = cmd.draft
      BY <2>1
    <2>3. Stamped(cmd, fresh) = [cmd EXCEPT !.id = fresh] \/ Stamped(cmd, fresh) = cmd
      BY <1>1 DEF Stamped
    <2> QED
      BY <1>1, <2>2, <2>3 DEF ReadableCommand
  <1>2. CASE cmd.op = "importLocalFilters"
    <2>1. cmd \in [op : {"importLocalFilters"}, batch : Seq(Rules), top : BOOLEAN]
      BY <1>2 DEF CommandType
    <2> DEFINE new == WithIds(cmd.batch, fresh)
    <2>2. Readable(new)
      BY <1>2, <2>1, WithIdsReadable DEF ReadableCommand
    <2>3. Stamped(cmd, fresh) = [cmd EXCEPT !.batch = new]
      BY <1>2 DEF Stamped
    <2> HIDE DEF new
    <2>4. /\ [cmd EXCEPT !.batch = new].batch = new
          /\ [cmd EXCEPT !.batch = new].op = "importLocalFilters"
      BY <2>1
    <2> QED
      BY <2>2, <2>3, <2>4 DEF ReadableCommand
  <1>3. CASE cmd.op \notin {"saveRule", "importLocalFilters"}
    BY <1>3 DEF Stamped
  <1> QED
    BY <1>1, <1>2, <1>3

LEMMA MigratedReadable ==
    ASSUME NEW t, IsTable(t), NEW fresh \in Nat, NEW order \in SetToSeqs(ToMigrate(t))
    PROVE  Readable(CanonRules(t) \o Copies(t, order, fresh))
  <1> DEFINE old == CanonRules(t)
             new == Copies(t, order, fresh)
  <1>1. old \in Seq(Rules) /\ Readable(old)
    BY CanonRulesRow
  <1>2. new \in Seq(Rules) /\ Readable(new)
    BY CopiesAt DEF Readable
  <1> HIDE DEF old, new
  <1>3. old \in Seq(ReadableRules) /\ new \in Seq(ReadableRules)
    BY <1>1, <1>2, ReadableIsIn
  <1>4. old \o new \in Seq(ReadableRules) /\ old \o new \in Seq(Rules)
    BY <1>1, <1>2, <1>3, ConcatProperties
  <1>5. Readable(old \o new)
    BY <1>4, ReadableIsIn
  <1> QED
    BY <1>5 DEF old, new

LEMMA NextAllReadable ==
    ASSUME OnlyReadable, TypeOK, TypeOK', Flow, AllReadable
    PROVE  AllReadable'
  <1>1. /\ nextRule \in Nat /\ IsTable(table) /\ ClientOK
    BY DEF TypeOK, ClientOK, ServerOK
  <1>2. ASSUME NEW c \in Client, NEW cmd \in Asked(c)' PROVE ReadableCommand(cmd)
    <2>1. CASE cmd \in Asked(c)
      BY <2>1 DEF AllReadable
    <2>2. CASE \E sent \in Commands : cmd = Stamped(sent, nextRule)
      <3>1. PICK sent \in Commands : cmd = Stamped(sent, nextRule)
        BY <2>2
      <3>2. sent \in CommandType /\ ReadableCommand(sent)
        BY DEF OnlyReadable
      <3> QED
        BY <1>1, <3>1, <3>2, StampedReadable
    <2> QED
      BY <2>1, <2>2 DEF Flow, AskedStep
  <1>3. ASSUME NEW c \in Client PROVE Readable(ctx'[c].rules)
    <2>1. CASE ctx'[c].rules = ctx[c].rules
      BY <2>1 DEF AllReadable
    <2>2. CASE ctx'[c].rules = <<>>
      BY <2>2 DEF Readable
    <2>3. CASE ctx'[c].rules = CanonRules(table)
      BY <1>1, <2>3, CanonRulesRow
    <2>4. CASE \E order \in SetToSeqs(ToMigrate(table)) :
                 ctx'[c].rules = CanonRules(table) \o Copies(table, order, nextRule)
      <3>1. PICK order \in SetToSeqs(ToMigrate(table)) :
                 ctx'[c].rules = CanonRules(table) \o Copies(table, order, nextRule)
        BY <2>4
      <3>2. Readable(CanonRules(table) \o Copies(table, order, nextRule))
        BY <1>1, MigratedReadable
      <3> QED
        BY <3>1, <3>2
    <2>5. CASE /\ queue[c] # <<>>
               /\ ~Rejected(Running(c))
               /\ NeedsWrite(Running(c), ctx[c].rules)
               /\ ctx'[c].rules = Updated(Running(c), ctx[c].rules, nextRule)
      <3> DEFINE cmd == Running(c)
                 rules == ctx[c].rules
      <3>1. cmd \in CommandType /\ ReadableCommand(cmd)
        BY <1>1, <2>5, AskedType DEF AllReadable
      <3>2. rules \in Seq(Rules) /\ Readable(rules)
        BY <1>1, ContextMessages DEF AllReadable
      <3>3. ~Rejected(cmd) /\ NeedsWrite(cmd, rules)
        BY <2>5
      <3> HIDE DEF cmd, rules
      <3>4. Readable(Updated(cmd, rules, nextRule))
        BY <1>1, <3>1, <3>2, <3>3, UpdatedReadable
      <3> QED
        BY <2>5, <3>4 DEF cmd, rules
    <2> QED
      BY <2>1, <2>2, <2>3, <2>4, <2>5 DEF Flow, RulesStep
  <1> QED
    BY <1>2, <1>3 DEF AllReadable

LEMMA InitAllReadable == Init => AllReadable
  BY DEF Init, AllReadable, Asked, NoCtx, Nothing, Readable

-----------------------------------------------------------------------------
(***************************************************************************)
(* One client, and no call lands after its client gave up: what the client *)
(* has read or written is the combined filter's list.                      *)
(***************************************************************************)
OnlyCanonActive(t) == {id \in DOMAIN t : t[id].active} = {CanonId(t)}

InSync ==
    \A c \in Client :
        /\ stage[c] \in {"relisting", "purging", "ready", "confirming"}
             => ctx[c].rules = CanonRules(table)
        /\ stage[c] = "confirming" => OnlyCanonActive(table)
        /\ stage[c] = "idle" /\ known[c].ok => known[c].rules = CanonRules(table)
        /\ stage[c] = "idle" /\ known[c].ok /\ known[c].wrote => OnlyCanonActive(table)

LEMMA OnlyFilter ==
    ASSUME NEW t, IsTable(t), NEW id, V2(t) = {id}
    PROVE  /\ CanonId(t) = id
           /\ Readable(t[id].rules) => CanonRules(t) = t[id].rules
  BY CanonIdFacts DEF CanonRules

\* A write that is carried out leaves its list in the one combined filter, which runs.
LEMMA WrittenTable ==
    ASSUME TypeOK, \A x, y \in V2(table) : x = y, NEW m \in Messages,
           Harmless(table, nextId, m), m.op # "delete", m.op = "add" => V2(table) = {},
           Readable(m.rules), CarriedOut(m)
    PROVE  /\ CanonRules(table') = m.rules
           /\ OnlyCanonActive(table')
           /\ V2(table') # {}
           /\ V2(table) # {} => V2(table') = V2(table)
  <1> DEFINE x == IF m.op = "add" THEN nextId ELSE m.id
             rules == m.rules
  <1>1. /\ m.op \in {"add", "edit"} /\ rules \in Seq(Rules)
        /\ IsTable(table) /\ nextId \in FilterIds
        /\ m.op = "edit" => m.id \in FilterIds
    BY MessageFields DEF TypeOK, ServerOK
  <1>2. table' = Put(table, x, rules)
    BY <1>1 DEF CarriedOut, After
  <1>3. x \in FilterIds
    BY <1>1
  <1>4. V2(table) \cup {x} = {x}
    <2>1. CASE m.op = "add"
      BY <2>1
    <2>2. CASE m.op = "edit"
      <3>1. x \in V2(table)
        BY <2>2 DEF Harmless, V2
      <3> QED
        BY <3>1
    <2> QED
      BY <1>1, <2>1, <2>2
  <1>5. m.op # "add" => V2(table) = {x}
    BY <1>1, <1>4 DEF Harmless, V2
  <1> HIDE DEF x, rules
  <1>6. IsTable(table') /\ V2(table') = {x}
    <2>1. /\ IsTable(Put(table, x, rules))
          /\ OfKind(Put(table, x, rules), "v2") = OfKind(table, "v2") \cup {x}
      BY <1>1, <1>3, PutFacts
    <2> QED
      BY <1>2, <1>4, <2>1 DEF V2
  <1>7. /\ DOMAIN table' = DOMAIN table \cup {x}
        /\ table'[x].rules = rules /\ table'[x].active = TRUE
        /\ \A y \in DOMAIN table : y # x => table'[y] = [table[y] EXCEPT !.active = FALSE]
    BY <1>2 DEF Put
  <1>8. CanonId(table') = x /\ CanonRules(table') = rules
    BY <1>6, <1>7, OnlyFilter DEF rules
  <1>9. ASSUME NEW y \in DOMAIN table, y # x PROVE table'[y].active = FALSE
    <2>1. table[y] \in Rows
      BY <1>1 DEF IsTable
    <2>2. \A r \in Rows : [r EXCEPT !.active = FALSE].active = FALSE
      BY DEF Rows
    <2> QED
      BY <1>7, <1>9, <2>1, <2>2
  <1>10. OnlyCanonActive(table')
    BY <1>7, <1>8, <1>9 DEF OnlyCanonActive
  <1> QED
    BY <1>5, <1>6, <1>8, <1>10 DEF rules

\* Deleting a v1 filter leaves the combined one.
LEMMA DeletedTable ==
    ASSUME TypeOK, NEW m \in Messages, Harmless(table, nextId, m), m.op = "delete",
           Delivered(m) \/ Failed(m)
    PROVE  CanonRules(table') = CanonRules(table) /\ V2(table') = V2(table)
  <1>1. V2(table') = V2(table)
    BY FateKeepsV2
  <1>2. table' = table \/ table' = Without(table, m.id)
    BY DEF Delivered, Failed, Refused, LostBefore, LostAfter, GivenUp, CarriedOut, server, After
  <1>3. CASE table' = Without(table, m.id)
    <2>1. \A id \in DOMAIN table' : table'[id] = table[id]
      BY <1>3 DEF Without
    <2>2. CanonId(table') = CanonId(table)
      BY <1>1 DEF CanonId
    <2>3. V2(table) # {} => CanonId(table) \in DOMAIN table'
      <3>1. IsTable(table)
        BY DEF TypeOK, ServerOK
      <3>2. V2(table) # {} => CanonId(table) \in V2(table')
        BY <1>1, <3>1, CanonIdFacts
      <3> QED
        BY <3>2 DEF V2, OfKind
    <2>4. V2(table) # {} => table'[CanonId(table)] = table[CanonId(table)]
      BY <2>1, <2>3
    <2> QED
      BY <1>1, <2>2, <2>4 DEF CanonRules
  <1> QED
    BY <1>1, <1>2, <1>3

LEMMA InSyncWork ==
    ASSUME \A c, d \in Client : c = d, MaxLate = 0, TypeOK, HarmlessCalls, Alone,
           AllReadable, InSync, NEW c \in Client, Work(c)
    PROVE  InSync'
  <1> DEFINE write == WriteOf(ctx[c].id, ctx[c].rules)
  <1>1. write \in Messages /\ write.rules = ctx[c].rules /\ Readable(write.rules)
    BY ContextMessages, CallRules DEF TypeOK, AllReadable
  <1>2. \A d \in Client : d = c
    OBVIOUS
  <1>3. ASSUME NEW reply, Answer(c, reply),
               reply.ok => reply.rules = CanonRules(table'),
               reply.ok /\ reply.wrote => OnlyCanonActive(table')
        PROVE  InSync'
    <2>1. stage'[c] = "idle" /\ known'[c] = reply
      BY <1>3 DEF Answer, GoTo, TypeOK, ClientOK
    <2> QED
      BY <1>2, <1>3, <2>1 DEF InSync
  <1>4. ASSUME NEW s \in Stages, GoTo(c, s), s # "idle",
               s \in {"relisting", "purging", "ready", "confirming"}
                 => ctx'[c].rules = CanonRules(table'),
               s = "confirming" => OnlyCanonActive(table')
        PROVE  InSync'
    <2>1. stage'[c] = s
      BY <1>4 DEF GoTo, TypeOK, ClientOK
    <2> QED
      BY <1>2, <1>4, <2>1 DEF InSync
  <1>5. ASSUME stage[c] \in {"migrating", "writing"}, Delivered(write)
        PROVE  CanonRules(table') = ctx[c].rules /\ OnlyCanonActive(table')
    <2>1. Harmless(table, nextId, write)
      BY ContextMessages DEF TypeOK, HarmlessCalls
    <2>2. write.op # "delete" /\ (write.op = "add" => V2(table) = {})
      <3>1. write.op # "delete" /\ (write.op = "add" => ctx[c].id = NoFilter)
        BY DEF WriteOf
      <3> QED
        BY <1>5, <3>1 DEF Alone, ReadIsFresh
    <2>3. CarriedOut(write)
      BY <1>5 DEF Delivered
    <2> HIDE DEF write
    <2> QED
      BY <1>1, <2>1, <2>2, <2>3, WrittenTable DEF Alone
  <1>6. ~Error(c).ok
    BY DEF Error, Nothing
  <1>7. \A wrote : /\ Success(c, wrote).ok /\ Success(c, wrote).wrote = wrote
                   /\ Success(c, wrote).rules = ctx[c].rules
    BY DEF Success
  <1>8. CASE Load(c)
    <2>1. ctx'[c].rules = CanonRules(table) /\ GoTo(c, "ready") /\ table' = table
      BY <1>8 DEF Load, Loaded, TypeOK, ClientOK, server
    <2> QED
      BY <1>4, <2>1 DEF Stages
  <1>9. CASE StartMigration(c)
    BY <1>4, <1>9 DEF StartMigration, Stages
  <1>10. CASE ReadFails(c) \/ WriteFails(c)
    BY <1>3, <1>6, <1>10 DEF ReadFails, WriteFails
  <1>11. CASE MigrationWritten(c)
    <2>1. /\ stage[c] = "migrating" /\ Delivered(write) /\ ctx' = ctx
          /\ GoTo(c, IF ctx[c].id = NoFilter THEN "relisting" ELSE "purging")
      BY <1>11 DEF MigrationWritten
    <2> QED
      BY <1>4, <1>5, <2>1 DEF Stages
  <1>12. CASE MigrationRelisted(c)
    <2>1. PICK id : ctx' = [ctx EXCEPT ![c].id = id]
      BY <1>12 DEF MigrationRelisted
    <2>2. ctx'[c].rules = ctx[c].rules
      BY <2>1 DEF TypeOK, ClientOK
    <2>3. stage[c] = "relisting" /\ GoTo(c, "purging") /\ table' = table
      BY <1>12 DEF MigrationRelisted, server
    <2> QED
      BY <1>4, <2>2, <2>3 DEF Stages, InSync
  <1>13. CASE Purge(c)
    <2>1. PICK id \in legacy[c] :
              /\ Delivered(DeletionOf(id)) \/ Failed(DeletionOf(id))
              /\ GoTo(c, IF legacy[c] = {id} THEN "ready" ELSE "purging")
      BY <1>13 DEF Purge
    <2>2. /\ DeletionOf(id) \in Messages /\ Harmless(table, nextId, DeletionOf(id))
          /\ DeletionOf(id).op = "delete"
      BY ContextMessages, DeletionOp DEF TypeOK, HarmlessCalls
    <2>3. CanonRules(table') = CanonRules(table)
      BY <2>1, <2>2, DeletedTable
    <2>4. stage[c] = "purging" /\ ctx' = ctx
      BY <1>13 DEF Purge
    <2> QED
      BY <1>4, <2>1, <2>3, <2>4 DEF Stages, InSync
  <1>14. CASE Reply(c)
    <2>1. PICK reply \in {Error(c), Success(c, FALSE)} : Answer(c, reply)
      BY <1>14 DEF Reply
    <2>2. table' = table /\ ctx[c].rules = CanonRules(table)
      BY <1>14 DEF Reply, server, InSync
    <2> QED
      BY <1>3, <1>6, <1>7, <2>1, <2>2
  <1>15. CASE StartWrite(c)
    BY <1>4, <1>15 DEF StartWrite, Stages
  <1>16. CASE Written(c)
    <2>1. stage[c] = "writing" /\ Delivered(write)
      BY <1>16 DEF Written
    <2>2. CanonRules(table') = ctx[c].rules /\ OnlyCanonActive(table')
      BY <1>5, <2>1
    <2>3. \/ GoTo(c, "confirming") /\ ctx' = ctx
          \/ Answer(c, Success(c, TRUE))
      BY <1>16 DEF Written
    <2> QED
      BY <1>3, <1>4, <1>7, <2>2, <2>3 DEF Stages
  <1>17. CASE Confirm(c)
    <2>1. stage[c] = "confirming" /\ table' = table /\ Answer(c, Success(c, TRUE))
      BY <1>17 DEF Confirm, server
    <2> QED
      BY <1>3, <1>7, <2>1 DEF InSync
  <1> QED
    BY <1>8, <1>9, <1>10, <1>11, <1>12, <1>13, <1>14, <1>15, <1>16, <1>17 DEF Work

LEMMA InSyncNext ==
    ASSUME \A c, d \in Client : c = d, MaxLate = 0, TypeOK, HarmlessCalls, Alone,
           AllReadable, InSync, [Next]_vars
    PROVE  InSync'
  <1>1. ASSUME NEW c \in Client, NEW cmd \in Commands, Issue(c, cmd) PROVE InSync'
    BY <1>1 DEF Issue, server, InSync
  <1>2. ASSUME NEW c \in Client, Repeat(c) PROVE InSync'
    <2>1. known'[c] = Nothing /\ UNCHANGED <<table, stage, ctx>>
      BY <1>2 DEF Repeat, server, TypeOK, ClientOK
    <2>2. \A d \in Client : d = c
      OBVIOUS
    <2> QED
      BY <2>1, <2>2 DEF InSync, Nothing
  <1>3. ASSUME NEW c \in Client, Work(c) PROVE InSync'
    BY <1>3, InSyncWork
  <1>4. ASSUME NEW c \in Client, Restart(c) PROVE InSync'
    <2>1. stage'[c] = "idle" /\ ~known'[c].ok
      BY <1>4, SMTT(60) DEF Restart, GoTo, TypeOK, ClientOK, Error, Nothing
    <2>2. \A d \in Client : d = c
      OBVIOUS
    <2> QED
      BY <2>1, <2>2 DEF InSync
  <1>5. ~LandLate
    <2>1. stray = {}
      BY DEF TypeOK, NetworkOK
    <2> QED
      BY <2>1 DEF LandLate
  <1>6. CASE UNCHANGED vars
    BY <1>6 DEF vars, server, client, InSync
  <1> QED
    BY <1>1, <1>2, <1>3, <1>4, <1>5, <1>6 DEF Next

LEMMA InitAlone == Init => Alone
  <1> SUFFICES ASSUME Init PROVE Alone
    OBVIOUS
  <1>1. ReadIsFresh
    BY DEF Init, ReadIsFresh
  <1> QED
    BY <1>1, InitAtMostOne DEF Alone

\* One installation whose calls never land late and that is given rules it can read back:
\* whatever fails or is lost, and however often it restarts, the client's view is right.
LEMMA ViewIsRight ==
    ASSUME \A c, d \in Client : c = d, MaxLate = 0, OnlyReadable
    PROVE  Spec => [](TypeOK /\ HarmlessCalls /\ Alone /\ AllReadable /\ InSync)
  <1>1. Init => InSync
    BY DEF Init, InSync, Nothing
  <1>2. TypeOK /\ HarmlessCalls /\ Alone /\ [Next]_vars => Alone'
    BY AloneNext
  <1>3. TypeOK /\ TypeOK' /\ AllReadable /\ [Next]_vars => AllReadable'
    BY NextFlow, NextAllReadable
  <1>4. TypeOK /\ HarmlessCalls /\ Alone /\ AllReadable /\ InSync /\ [Next]_vars => InSync'
    BY InSyncNext
  <1> QED
    BY <1>1, <1>2, <1>3, <1>4, InitAlone, InitAllReadable, CallsAreHarmless, PTL DEF Spec

\* Once the account is quiet, what the user was last told is what mailcow holds.
THEOREM AnswersAreStored ==
    ASSUME \A c, d \in Client : c = d, MaxLate = 0, OnlyReadable
    PROVE  Spec => []AnswerIsStored
  <1>1. InSync => AnswerIsStored
    BY DEF InSync, AnswerIsStored
  <1> QED
    BY <1>1, ViewIsRight, PTL

\* After a successful write the combined filter is the one that runs, and no other.
THEOREM SavesRun ==
    ASSUME \A c, d \in Client : c = d, MaxLate = 0, OnlyReadable
    PROVE  Spec => []SavedRuns
  <1>1. InSync => SavedRuns
    BY DEF InSync, SavedRuns, OnlyCanonActive
  <1> QED
    BY <1>1, ViewIsRight, PTL

-----------------------------------------------------------------------------
(***************************************************************************)
(* The handlers of one client implement the atomic rule list of RuleStore. *)
(* What is underway was computed from the list as it still is, and what is *)
(* asked was issued as it stands in the queue.                             *)
(***************************************************************************)
Done == [c \in Client |-> stage[c] = "confirming"]
Ok == [c \in Client |-> known[c].ok]

\* The lists a running command may turn the stored one into.
Outcome(cmd, rules, new) ==
    /\ ~Rejected(cmd)
    /\ NeedsWrite(cmd, rules)
    /\ \E fresh \in FreshIds : Below(rules, fresh) /\ new = Updated(cmd, rules, fresh)

Underways ==
    \A c \in Client :
        /\ stage[c] = "writing" => Outcome(Running(c), CanonRules(table), ctx[c].rules)
        /\ stage[c] = "migrating" =>
             \/ ctx[c].rules = CanonRules(table)
             \/ RS!Extends(ctx[c].rules, CanonRules(table))

AskedAsIssued ==
    \A c \in Client :
        /\ Asked(c) \subseteq StampedCommands
        /\ known[c].ok => known[c].again = {}

\* crypto.randomUUID may answer any id.
AnyId == Nat \ {NoId} \subseteq FreshIds

LEMMA HeadStays ==
    ASSUME ClientOK, NEW c \in Client, queue[c] # <<>>, NEW cmd \in CommandType,
           queue' = [queue EXCEPT ![c] = Append(@, cmd)]
    PROVE  Running(c)' = Running(c)
  <1> DEFINE q == queue[c]
  <1>1. q \in Seq(CommandType) /\ q # <<>>
    BY DEF ClientOK
  <1>2. queue'[c] = Append(q, cmd)
    BY DEF ClientOK
  <1> HIDE DEF q
  <1>3. Head(Append(q, cmd)) = Head(q)
    BY <1>1
  <1> QED
    BY <1>2, <1>3 DEF Running, q

LEMMA UnderwaysNext ==
    ASSUME \A c, d \in Client : c = d, MaxLate = 0, AnyId, TypeOK, IdsInUse, InSync,
           Underways, [Next]_vars
    PROVE  Underways'
  <1>0. nextRule \in FreshIds /\ Below(CanonRules(table), nextRule)
    BY ReadBelow DEF AnyId, TypeOK, ClientOK
  <1>1. ASSUME NEW c \in Client, NEW cmd \in CommandType,
               queue' = [queue EXCEPT ![c] = Append(@, cmd)],
               UNCHANGED <<table, stage, ctx>>
        PROVE  Underways'
    <2>1. \A d \in Client : d = c
      OBVIOUS
    <2>2. stage[c] # "idle" => Running(c)' = Running(c)
      BY <1>1, HeadStays DEF TypeOK, ClientOK
    <2> QED
      BY <1>1, <2>1, <2>2 DEF Underways
  <1>2. ASSUME NEW c \in Client, NEW cmd \in Commands, Issue(c, cmd) PROVE Underways'
    <2> DEFINE sent == Stamped(cmd, nextRule)
    <2>1. sent \in CommandType
      BY StampedType DEF TypeOK, ClientOK
    <2>2. queue' = [queue EXCEPT ![c] = Append(@, sent)] /\ UNCHANGED <<table, stage, ctx>>
      BY <1>2 DEF Issue, server
    <2> HIDE DEF sent
    <2> QED
      BY <1>1, <2>1, <2>2
  <1>3. ASSUME NEW c \in Client, Repeat(c) PROVE Underways'
    <2>1. PICK cmd \in known[c].again : queue' = [queue EXCEPT ![c] = Append(@, cmd)]
      BY <1>3 DEF Repeat
    <2>2. cmd \in CommandType /\ UNCHANGED <<table, stage, ctx>>
      BY <1>3 DEF Repeat, server, TypeOK, ClientOK
    <2> QED
      BY <1>1, <2>1, <2>2
  <1>4. ASSUME NEW c \in Client, stage'[c] \notin {"writing", "migrating"} PROVE Underways'
    <2>1. \A d \in Client : d = c
      OBVIOUS
    <2> QED
      BY <1>4, <2>1 DEF Underways
  <1>5. ASSUME NEW c \in Client, NEW s \in Stages \ {"writing", "migrating"}, GoTo(c, s)
        PROVE  Underways'
    BY <1>4, <1>5 DEF GoTo, TypeOK, ClientOK
  <1>6. ASSUME NEW c \in Client, StartMigration(c) PROVE Underways'
    <2>1. PICK order \in SetToSeqs(ToMigrate(table)) :
              ctx' = [ctx EXCEPT ![c] =
                        [id |-> CanonId(table),
                         rules |-> CanonRules(table) \o Copies(table, order, nextRule)]]
      BY <1>6 DEF StartMigration
    <2> DEFINE list == CanonRules(table) \o Copies(table, order, nextRule)
    <2>2. IsTable(table) /\ nextRule \in Nat
      BY DEF TypeOK, ServerOK, ClientOK
    <2>3. list = CanonRules(table) \/ RS!Extends(list, CanonRules(table))
      BY <1>0, <2>2, MigratedList
    <2>4. ctx'[c].rules = list
      BY <2>1 DEF TypeOK, ClientOK
    <2>5. stage'[c] = "migrating" /\ table' = table /\ \A d \in Client : d = c
      BY <1>6 DEF StartMigration, GoTo, server, TypeOK, ClientOK
    <2> QED
      BY <2>3, <2>4, <2>5 DEF Underways
  <1>7. ASSUME NEW c \in Client, StartWrite(c) PROVE Underways'
    <2> DEFINE rules == CanonRules(table)
               list == Updated(Running(c), rules, nextRule)
    <2>1. ctx[c].rules = rules
      BY <1>7 DEF StartWrite, InSync
    <2>2. ~Rejected(Running(c)) /\ NeedsWrite(Running(c), rules)
      BY <1>7, <2>1 DEF StartWrite
    <2>3. ctx' = [ctx EXCEPT ![c].rules = list]
      BY <1>7, <2>1 DEF StartWrite
    <2>4. UNCHANGED <<table, queue>> /\ stage'[c] = "writing" /\ \A d \in Client : d = c
      BY <1>7 DEF StartWrite, GoTo, server, TypeOK, ClientOK
    <2>5. Outcome(Running(c), rules, list)
      BY <1>0, <2>2 DEF Outcome
    <2> HIDE DEF list
    <2>6. ctx'[c].rules = list
      BY <2>3 DEF TypeOK, ClientOK
    <2>7. Running(c)' = Running(c)
      BY <2>4 DEF Running
    <2> QED
      BY <2>4, <2>5, <2>6, <2>7 DEF Underways
  <1>8. ASSUME NEW c \in Client, Work(c) PROVE Underways'
    <2>1. CASE Load(c)
      BY <1>5, <2>1 DEF Load, Stages
    <2>2. CASE ReadFails(c) \/ Reply(c) \/ Confirm(c) \/ WriteFails(c)
      BY <1>5, <2>2 DEF ReadFails, Reply, Confirm, WriteFails, Answer, Stages
    <2>3. CASE MigrationWritten(c) \/ MigrationRelisted(c)
      BY <1>5, <2>3 DEF MigrationWritten, MigrationRelisted, Stages
    <2>4. CASE Purge(c)
      BY <1>5, <2>4 DEF Purge, Stages
    <2>5. CASE Written(c)
      BY <1>5, <2>5 DEF Written, Answer, Stages
    <2> QED
      BY <1>6, <1>7, <1>8, <2>1, <2>2, <2>3, <2>4, <2>5 DEF Work
  <1>9. ASSUME NEW c \in Client, Restart(c) PROVE Underways'
    BY <1>5, <1>9 DEF Restart, Stages
  <1>10. ~LandLate
    <2>1. stray = {}
      BY DEF TypeOK, NetworkOK
    <2> QED
      BY <2>1 DEF LandLate
  <1>11. CASE UNCHANGED vars
    BY <1>11 DEF vars, server, client, Underways, Running
  <1> QED
    BY <1>2, <1>3, <1>8, <1>9, <1>10, <1>11 DEF Next

LEMMA AskedAsIssuedNext ==
    ASSUME AnyId, TypeOK, TypeOK', Flow, AskedAsIssued, [Next]_vars
    PROVE  AskedAsIssued'
  <1>1. ASSUME NEW c \in Client PROVE Asked(c)' \subseteq StampedCommands
    <2>1. nextRule \in FreshIds
      BY DEF AnyId, TypeOK, ClientOK
    <2> QED
      BY <2>1 DEF Flow, AskedStep, AskedAsIssued, StampedCommands
  <1>2. ASSUME NEW c \in Client, NEW reply, known' = [known EXCEPT ![c] = reply],
               reply.ok => reply.again = {}
        PROVE  \A d \in Client : known'[d].ok => known'[d].again = {}
    BY <1>2 DEF TypeOK, ClientOK, AskedAsIssued
  <1>3. ASSUME UNCHANGED known
        PROVE  \A d \in Client : known'[d].ok => known'[d].again = {}
    BY <1>3 DEF AskedAsIssued
  <1>4. ASSUME NEW c \in Client
        PROVE  /\ ~Nothing.ok /\ ~Error(c).ok
               /\ \A wrote : Success(c, wrote).again = {}
    BY DEF Nothing, Error, Success
  <1>5. \/ UNCHANGED known
        \/ \E c \in Client : \E reply : /\ known' = [known EXCEPT ![c] = reply]
                                        /\ reply.ok => reply.again = {}
    <2>1. ASSUME NEW c \in Client, NEW reply, Answer(c, reply)
          PROVE  known' = [known EXCEPT ![c] = reply]
      BY <2>1 DEF Answer
    <2>2. ASSUME NEW c \in Client, Work(c)
          PROVE  \/ UNCHANGED known
                 \/ \E reply : /\ known' = [known EXCEPT ![c] = reply]
                               /\ reply.ok => reply.again = {}
      <3>1. CASE Load(c) \/ StartMigration(c) \/ MigrationWritten(c) \/ MigrationRelisted(c)
                   \/ Purge(c) \/ StartWrite(c)
        BY <3>1 DEF Load, StartMigration, MigrationWritten, MigrationRelisted, Purge, StartWrite
      <3>2. CASE ReadFails(c) \/ Reply(c) \/ Confirm(c) \/ WriteFails(c)
        BY <1>4, <2>1, <3>2 DEF ReadFails, Reply, Confirm, WriteFails
      <3>3. CASE Written(c)
        BY <1>4, <2>1, <3>3 DEF Written
      <3> QED
        BY <2>2, <3>1, <3>2, <3>3 DEF Work
    <2>3. ASSUME NEW c \in Client, Repeat(c) \/ Restart(c)
          PROVE  \E reply : known' = [known EXCEPT ![c] = reply] /\ (reply.ok => reply.again = {})
      BY <1>4, <2>3 DEF Repeat, Restart
    <2>4. ASSUME NEW c \in Client, NEW cmd \in Commands, Issue(c, cmd) PROVE UNCHANGED known
      BY <2>4 DEF Issue
    <2>5. LandLate \/ UNCHANGED vars => UNCHANGED known
      BY DEF LandLate, client, vars
    <2> QED
      BY <2>2, <2>3, <2>4, <2>5 DEF Next
  <1> QED
    BY <1>1, <1>2, <1>3, <1>5 DEF AskedAsIssued

-----------------------------------------------------------------------------
(***************************************************************************)
(* Every step of the client is a step of RuleStore, or none it can see.    *)
(***************************************************************************)
LEMMA AbstractFlags ==
    ASSUME \A c, d \in Client : c = d, ClientOK, NEW c \in Client
    PROVE  /\ Done' = [Done EXCEPT ![c] = (stage'[c] = "confirming")]
           /\ Ok' = [Ok EXCEPT ![c] = known'[c].ok]
           /\ Done[c] <=> stage[c] = "confirming"
  <1>1. \A d \in Client : d = c
    OBVIOUS
  <1>2. /\ Done' = [d \in Client |-> stage'[d] = "confirming"]
        /\ Ok' = [d \in Client |-> known'[d].ok]
    BY DEF Done, Ok
  <1>3. [Done EXCEPT ![c] = (stage'[c] = "confirming")]
          = [d \in Client |-> stage'[d] = "confirming"]
    BY <1>1 DEF Done
  <1>4. [Ok EXCEPT ![c] = known'[c].ok] = [d \in Client |-> known'[d].ok]
    BY <1>1 DEF Ok
  <1> QED
    BY <1>2, <1>3, <1>4 DEF Done

LEMMA AnswersAre ==
    ASSUME \A c, d \in Client : c = d, ClientOK, NEW c \in Client, queue[c] # <<>>,
           NEW reply, Answer(c, reply), NEW success, reply.ok = success
    PROVE  RS!Answered(c, success)
  <1>1. stage'[c] = "idle" /\ known'[c] = reply /\ queue' = [queue EXCEPT ![c] = Tail(@)]
    BY DEF Answer, GoTo, ClientOK
  <1>2. Done' = [Done EXCEPT ![c] = FALSE] /\ Ok' = [Ok EXCEPT ![c] = success]
    <2>1. (stage'[c] = "confirming") = FALSE
      BY <1>1
    <2> QED
      BY <1>1, <2>1, AbstractFlags
  <1> QED
    BY <1>1, <1>2 DEF RS!Answered, Done, Ok

LEMMA StutterAre ==
    ASSUME \A c, d \in Client : c = d, ClientOK, NEW c \in Client,
           CanonRules(table') = CanonRules(table), UNCHANGED <<queue, known>>,
           stage[c] # "confirming", stage'[c] # "confirming"
    PROVE  UNCHANGED RS!vars
  <1>1. \A d \in Client : d = c
    OBVIOUS
  <1>2. UNCHANGED Done
    BY <1>1 DEF Done
  <1>3. UNCHANGED Ok
    BY DEF Ok
  <1>4. CanonRules(table)' = CanonRules(table)
    OBVIOUS
  <1> QED
    BY <1>2, <1>3, <1>4 DEF RS!vars, Done, Ok

LEMMA EffectIs ==
    ASSUME \A c, d \in Client : c = d, ClientOK, Underways, NEW c \in Client,
           stage[c] = "writing", CanonRules(table') = ctx[c].rules
    PROVE  RS!Effect(c)
  <1>1. Outcome(Running(c), CanonRules(table), CanonRules(table'))
    BY DEF Underways
  <1>2. ~Done[c]
    BY AbstractFlags
  <1> DEFINE cmd == Head(queue[c])
             rules == CanonRules(table)
  <1>3. RS!Due(c)
    <2>1. ~RS!Rejected(cmd) /\ RS!NeedsWrite(cmd, rules)
      BY <1>1, SameCommands DEF Outcome, Running
    <2> QED
      BY <2>1 DEF RS!Due
  <1>4. PICK fresh \in FreshIds :
          /\ \A i \in DOMAIN rules : rules[i].id < fresh
          /\ CanonRules(table') = Updated(cmd, rules, fresh)
    BY <1>1 DEF Outcome, Below, Running
  <1>5. CanonRules(table') = RS!Updated(cmd, rules, fresh)
    BY <1>4, SameCommands
  <1> QED
    BY <1>2, <1>3, <1>4, <1>5 DEF RS!Effect, Done

LEMMA TakeOverIs ==
    ASSUME Underways, NEW c \in Client,
           stage[c] = "migrating", CanonRules(table') = ctx[c].rules
    PROVE  CanonRules(table') = CanonRules(table) \/ RS!Adopt
  BY DEF Underways, RS!Adopt

LEMMA IssueIs ==
    ASSUME \A c, d \in Client : c = d, NEW c \in Client, NEW cmd \in StampedCommands,
           queue' = [queue EXCEPT ![c] = Append(@, cmd)],
           UNCHANGED <<table, stage>>, \A d \in Client : known'[d].ok = known[d].ok
    PROVE  RS!Issue(c, cmd)
  <1>1. UNCHANGED Done /\ UNCHANGED Ok
    BY DEF Done, Ok
  <1>2. CanonRules(table)' = CanonRules(table)
    OBVIOUS
  <1> QED
    BY <1>1, <1>2 DEF RS!Issue, Done, Ok

\* What a client's write does to the list, whatever becomes of the call.
LEMMA WriteOutcome ==
    ASSUME TypeOK, HarmlessCalls, Alone, AllReadable, NEW c \in Client,
           stage[c] \in {"migrating", "writing"},
           \/ Delivered(WriteOf(ctx[c].id, ctx[c].rules))
           \/ Failed(WriteOf(ctx[c].id, ctx[c].rules))
    PROVE  \/ CanonRules(table') = ctx[c].rules
           \/ /\ CanonRules(table') = CanonRules(table)
              /\ ~Delivered(WriteOf(ctx[c].id, ctx[c].rules))
  <1> DEFINE write == WriteOf(ctx[c].id, ctx[c].rules)
  <1>1. /\ write \in Messages /\ write.rules = ctx[c].rules /\ Readable(write.rules)
        /\ Harmless(table, nextId, write)
    BY ContextMessages, CallRules DEF TypeOK, AllReadable, HarmlessCalls
  <1>2. write.op # "delete" /\ (write.op = "add" => V2(table) = {})
    <2>1. write.op # "delete" /\ (write.op = "add" => ctx[c].id = NoFilter)
      BY DEF WriteOf
    <2> QED
      BY <2>1 DEF Alone, ReadIsFresh
  <1> HIDE DEF write
  <1>3. CASE CarriedOut(write)
    <2>1. CanonRules(table') = write.rules
      BY <1>1, <1>2, <1>3, WrittenTable DEF Alone
    <2> QED
      BY <1>1, <2>1
  <1>4. CASE ~CarriedOut(write)
    <2>1. table' = table /\ ~Delivered(write)
      BY <1>4 DEF write, Delivered, Failed, Refused, LostBefore, LostAfter, GivenUp, server
    <2> QED
      BY <2>1 DEF write
  <1> QED
    BY <1>3, <1>4

LEMMA WorkIs ==
    ASSUME \A c, d \in Client : c = d, TypeOK, HarmlessCalls, Alone, AllReadable, InSync,
           Underways, NEW c \in Client, Work(c)
    PROVE  RS!Next \/ UNCHANGED RS!vars
  <1> DEFINE write == WriteOf(ctx[c].id, ctx[c].rules)
  <1>0. ClientOK
    BY DEF TypeOK
  <1>1. ~Error(c).ok /\ \A wrote : Success(c, wrote).ok
    BY DEF Error, Nothing, Success
  <1>2. ASSUME NEW reply, Answer(c, reply), queue[c] # <<>>, ~reply.ok, reply.ok \in BOOLEAN,
               \/ RS!Effect(c)
               \/ ~Done[c] /\ RS!Adopt
               \/ CanonRules(table') = CanonRules(table)
        PROVE  RS!Next
    <2>1. RS!Answered(c, FALSE)
      BY <1>0, <1>2, AnswersAre
    <2>2. RS!Fail(c)
      BY <1>2, <2>1 DEF RS!Fail, Done
    <2> QED
      BY <2>2 DEF RS!Next
  <1>3. ASSUME NEW reply, Answer(c, reply), queue[c] # <<>>, reply.ok, reply.ok \in BOOLEAN,
               \/ RS!Effect(c)
               \/ Done[c] /\ CanonRules(table') = CanonRules(table)
               \/ /\ ~Rejected(Running(c)) /\ ~NeedsWrite(Running(c), CanonRules(table))
                  /\ CanonRules(table') = CanonRules(table)
        PROVE  RS!Next
    <2>1. RS!Answered(c, TRUE)
      BY <1>0, <1>3, AnswersAre
    <2>2. ~Rejected(Running(c)) /\ ~NeedsWrite(Running(c), CanonRules(table))
            => ~RS!Rejected(Head(queue[c])) /\ ~RS!Due(c)
      BY SameCommands DEF RS!Due, Running
    <2>3. RS!Succeed(c)
      BY <1>3, <2>1, <2>2 DEF RS!Succeed, Done
    <2> QED
      BY <2>3 DEF RS!Next
  <1>4. Error(c).ok \in BOOLEAN /\ \A wrote : Success(c, wrote).ok \in BOOLEAN
    BY DEF Error, Nothing, Success
  <1>5. stage[c] # "idle" => queue[c] # <<>>
    BY <1>0 DEF ClientOK
  <1>6. Done[c] <=> stage[c] = "confirming"
    BY DEF Done
  <1>7. ASSUME NEW s \in Stages, GoTo(c, s), UNCHANGED <<queue, known>>
        PROVE  stage'[c] = s
    BY <1>0, <1>7 DEF GoTo, ClientOK
  <1>8. CASE Load(c) \/ StartMigration(c) \/ StartWrite(c) \/ MigrationRelisted(c)
    <2>1. /\ stage[c] # "confirming" /\ UNCHANGED <<table, queue, known>>
          /\ \E s \in Stages \ {"confirming"} : GoTo(c, s)
      BY <1>8 DEF Load, StartMigration, StartWrite, MigrationRelisted, server, Stages
    <2>2. stage'[c] # "confirming"
      BY <1>7, <2>1
    <2> QED
      BY <1>0, <2>1, <2>2, StutterAre
  <1>9. CASE ReadFails(c)
    <2>1. queue[c] # <<>> /\ Answer(c, Error(c)) /\ table' = table
      BY <1>5, <1>9 DEF ReadFails, server
    <2> QED
      BY <1>1, <1>2, <1>4, <2>1
  <1>10. CASE MigrationWritten(c)
    <2>1. stage[c] = "migrating" /\ Delivered(write) /\ UNCHANGED <<queue, known>>
      BY <1>10 DEF MigrationWritten
    <2>2. CanonRules(table') = ctx[c].rules
      BY <2>1, WriteOutcome
    <2>3. stage'[c] # "confirming"
      BY <1>7, <1>10 DEF MigrationWritten, Stages
    <2>4. CASE CanonRules(table') = CanonRules(table)
      BY <1>0, <2>1, <2>3, <2>4, StutterAre
    <2>5. CASE RS!Adopt
      <3>1. UNCHANGED Done /\ UNCHANGED Ok
        <4>1. \A d \in Client : d = c
          OBVIOUS
        <4> QED
          BY <2>1, <2>3, <4>1 DEF Done, Ok
      <3>2. RS!TakeOver(c)
        BY <1>5, <1>6, <2>1, <2>5, <3>1 DEF RS!TakeOver, Done, Ok
      <3> QED
        BY <3>2 DEF RS!Next
    <2> QED
      BY <2>1, <2>2, <2>4, <2>5, TakeOverIs
  <1>11. CASE Purge(c)
    <2>1. PICK id \in legacy[c] : Delivered(DeletionOf(id)) \/ Failed(DeletionOf(id))
      BY <1>11 DEF Purge
    <2>2. /\ DeletionOf(id) \in Messages /\ Harmless(table, nextId, DeletionOf(id))
          /\ DeletionOf(id).op = "delete"
      BY ContextMessages, DeletionOp DEF TypeOK, HarmlessCalls
    <2>3. CanonRules(table') = CanonRules(table)
      BY <2>1, <2>2, DeletedTable
    <2>4. stage[c] = "purging" /\ UNCHANGED <<queue, known>> /\ stage'[c] # "confirming"
      BY <1>7, <1>11 DEF Purge, Stages
    <2> QED
      BY <1>0, <2>3, <2>4, StutterAre
  <1>12. CASE Reply(c)
    <2>1. stage[c] = "ready" /\ table' = table /\ CanonRules(table) = ctx[c].rules
      BY <1>12 DEF Reply, server, InSync
    <2>2. CASE Rejected(Running(c))
      BY <1>1, <1>2, <1>4, <1>5, <1>12, <2>1, <2>2 DEF Reply
    <2>3. CASE ~Rejected(Running(c))
      BY <1>1, <1>3, <1>4, <1>5, <1>12, <2>1, <2>3 DEF Reply
    <2> QED
      BY <2>2, <2>3
  <1>13. CASE Written(c)
    <2>1. stage[c] = "writing" /\ Delivered(write)
      BY <1>13 DEF Written
    <2>2. CanonRules(table') = ctx[c].rules
      BY <2>1, WriteOutcome
    <2>3. RS!Effect(c)
      BY <1>0, <2>1, <2>2, EffectIs
    <2>4. CASE Answer(c, Success(c, TRUE))
      BY <1>1, <1>3, <1>4, <1>5, <2>1, <2>3, <2>4
    <2>5. CASE GoTo(c, "confirming") /\ UNCHANGED <<queue, known>>
      <3>1. stage'[c] = "confirming"
        BY <1>7, <2>5 DEF Stages
      <3>2. Done' = [Done EXCEPT ![c] = TRUE]
        <4>1. (stage'[c] = "confirming") = TRUE
          BY <3>1
        <4> QED
          BY <1>0, <4>1, AbstractFlags
      <3>3. UNCHANGED Ok
        BY <2>5 DEF Ok
      <3>4. RS!TakeEffect(c)
        BY <1>5, <2>1, <2>3, <2>5, <3>2, <3>3 DEF RS!TakeEffect, Done, Ok
      <3> QED
        BY <3>4 DEF RS!Next
    <2> QED
      BY <1>13, <2>4, <2>5 DEF Written
  <1>14. CASE Confirm(c)
    <2>1. stage[c] = "confirming" /\ table' = table /\ Answer(c, Success(c, TRUE))
      BY <1>14 DEF Confirm, server
    <2> QED
      BY <1>1, <1>3, <1>4, <1>5, <1>6, <2>1
  <1>15. CASE WriteFails(c)
    <2>1. stage[c] \in {"migrating", "writing"} /\ Failed(write) /\ Answer(c, Error(c))
      BY <1>15 DEF WriteFails
    <2>2. CanonRules(table') = ctx[c].rules \/ CanonRules(table') = CanonRules(table)
      BY <2>1, WriteOutcome
    <2>3. \/ RS!Effect(c)
          \/ ~Done[c] /\ RS!Adopt
          \/ CanonRules(table') = CanonRules(table)
      BY <1>0, <1>6, <2>1, <2>2, EffectIs, TakeOverIs
    <2> QED
      BY <1>1, <1>2, <1>4, <1>5, <2>1, <2>3
  <1> QED
    BY <1>8, <1>9, <1>10, <1>11, <1>12, <1>13, <1>14, <1>15 DEF Work

LEMMA NextIs ==
    ASSUME \A c, d \in Client : c = d, MaxLate = 0, AnyId, TypeOK, HarmlessCalls, Alone,
           AllReadable, InSync, Underways, AskedAsIssued, [Next]_vars
    PROVE  [RS!Next]_(RS!vars)
  <1>1. ASSUME NEW c \in Client, NEW cmd \in Commands, Issue(c, cmd)
        PROVE  RS!Next
    <2> DEFINE sent == Stamped(cmd, nextRule)
    <2>1. sent \in StampedCommands
      BY DEF AnyId, TypeOK, ClientOK, StampedCommands
    <2>2. /\ queue' = [queue EXCEPT ![c] = Append(@, sent)]
          /\ UNCHANGED <<table, stage, known>>
      BY <1>1 DEF Issue, server
    <2> HIDE DEF sent
    <2>3. RS!Issue(c, sent)
      BY <2>1, <2>2, IssueIs
    <2> QED
      BY <2>1, <2>3 DEF RS!Next
  <1>2. ASSUME NEW c \in Client, Repeat(c) PROVE RS!Next
    <2>1. PICK cmd \in known[c].again : queue' = [queue EXCEPT ![c] = Append(@, cmd)]
      BY <1>2 DEF Repeat
    <2>2. cmd \in StampedCommands /\ ~known[c].ok
      BY DEF AskedAsIssued, Asked
    <2>3. UNCHANGED <<table, stage>> /\ known' = [known EXCEPT ![c] = Nothing]
      BY <1>2 DEF Repeat, server
    <2>4. \A d \in Client : known'[d].ok = known[d].ok
      <3>1. Nothing.ok = FALSE /\ known[c].ok \in BOOLEAN
        BY DEF Nothing, TypeOK, ClientOK
      <3>2. known[c].ok = FALSE
        BY <2>2, <3>1
      <3> QED
        BY <2>3, <3>1, <3>2 DEF TypeOK, ClientOK
    <2>5. RS!Issue(c, cmd)
      BY <2>1, <2>2, <2>3, <2>4, IssueIs
    <2> QED
      BY <2>2, <2>5 DEF RS!Next
  <1>3. ASSUME NEW c \in Client, Work(c) PROVE RS!Next \/ UNCHANGED RS!vars
    BY <1>3, WorkIs
  <1>4. ASSUME NEW c \in Client, Restart(c) PROVE RS!Next
    <2>1. /\ queue' = [queue EXCEPT ![c] = <<>>] /\ table' = table
          /\ stage'[c] = "idle"
          /\ \E reply \in {Nothing, Error(c)} : known' = [known EXCEPT ![c] = reply]
      BY <1>4 DEF Restart, server, GoTo, TypeOK, ClientOK
    <2>2. known'[c].ok = FALSE
      BY <2>1, SMTT(60) DEF Nothing, Error, TypeOK, ClientOK
    <2>3. (stage'[c] = "confirming") = FALSE
      BY <2>1
    <2>4. Done' = [Done EXCEPT ![c] = FALSE] /\ Ok' = [Ok EXCEPT ![c] = FALSE]
      BY <2>2, <2>3, AbstractFlags DEF TypeOK
    <2>5. CanonRules(table)' = CanonRules(table)
      BY <2>1
    <2>6. RS!Forget(c)
      BY <2>1, <2>4, <2>5 DEF RS!Forget, Done, Ok
    <2> QED
      BY <2>6 DEF RS!Next
  <1>5. ~LandLate
    <2>1. stray = {}
      BY DEF TypeOK, NetworkOK
    <2> QED
      BY <2>1 DEF LandLate
  <1>6. CASE UNCHANGED vars
    <2>1. UNCHANGED <<table, queue, stage, known>>
      BY <1>6 DEF vars, server, client
    <2>2. UNCHANGED <<Done, Ok>> /\ CanonRules(table)' = CanonRules(table)
      BY <2>1 DEF Done, Ok
    <2> QED
      BY <2>1, <2>2 DEF RS!vars, Done, Ok
  <1> QED
    BY <1>1, <1>2, <1>3, <1>4, <1>5, <1>6 DEF Next

\* "Concurrent saveRule calls ... of one mailbox are serialised" (background.js:35-37):
\* with one installation whose calls never land late, every command takes effect at most
\* once, at one instant, in the order of issue, and a success has taken effect, whatever
\* reads, writes and answers fail and whenever it restarts.
THEOREM CommandsAreSerialised ==
    ASSUME \A c, d \in Client : c = d, MaxLate = 0, OnlyReadable, BatchesBelow, AnyId
    PROVE  Spec => Serialised
  <1>1. Init => RS!Init
    <2> SUFFICES ASSUME Init PROVE RS!Init
      OBVIOUS
    <2>1. table \in InitialTables /\ queue = [c \in Client |-> <<>>]
      BY DEF Init
    <2>2. Done = [c \in Client |-> FALSE] /\ Ok = [c \in Client |-> FALSE]
      BY DEF Init, Done, Ok, Nothing
    <2> QED
      BY <2>1, <2>2 DEF RS!Init, Done, Ok
  <1>2. Init => Underways /\ AskedAsIssued
    BY DEF Init, Underways, AskedAsIssued, Asked, Nothing
  <1>3. TypeOK /\ TypeOK' /\ IdsInUse /\ [Next]_vars => IdsInUse'
    BY NextFlow, NextIdsInUse
  <1>4. TypeOK /\ IdsInUse /\ InSync /\ Underways /\ [Next]_vars => Underways'
    BY UnderwaysNext
  <1>5. TypeOK /\ TypeOK' /\ AskedAsIssued /\ [Next]_vars => AskedAsIssued'
    BY NextFlow, AskedAsIssuedNext
  <1>6. TypeOK /\ HarmlessCalls /\ Alone /\ AllReadable /\ InSync /\ Underways
          /\ AskedAsIssued /\ [Next]_vars => [RS!Next]_(RS!vars)
    BY NextIs
  <1>7. Spec => [](TypeOK /\ HarmlessCalls /\ Alone /\ AllReadable /\ InSync)
    BY ViewIsRight
  <1> QED
    BY <1>1, <1>2, <1>3, <1>4, <1>5, <1>6, <1>7, InitIdsInUse, PTL
       DEF Spec, Serialised, RS!Spec

-----------------------------------------------------------------------------
(***************************************************************************)
(* A migration deletes a v1 filter only once its rule is in the list.      *)
(***************************************************************************)
Covers(rules, row) ==
    Readable(row.rules) => \E i \in DOMAIN rules : rules[i].name = row.rules[1].name

Covered ==
    \A c \in Client : \A id \in legacy[c] \cap V1(table) : Covers(ctx[c].rules, table[id])

\* The copies are of every filter to migrate.
LEMMA OrderIsOnto ==
    ASSUME NEW t, IsTable(t), NEW order \in SetToSeqs(ToMigrate(t)), NEW id \in ToMigrate(t)
    PROVE  \E i \in 1 .. Len(order) : order[i] = id
  <1> DEFINE S == ToMigrate(t)
             n == Cardinality(S)
  <1>1. IsFiniteSet(S)
    <2>1. S \subseteq DOMAIN t
      BY DEF ToMigrate, V1, OfKind
    <2> QED
      BY <2>1, FS_Subset DEF IsTable
  <1>2. n \in Nat
    BY <1>1, FS_CardinalityType
  <1>3. order \in [1 .. n -> S] /\ \A i, j \in 1 .. n : i # j => order[i] # order[j]
    BY DEF SetToSeqs
  <1>4. id \in S
    OBVIOUS
  <1> HIDE DEF S
  <1>5. order \in Injection(1 .. n, S)
    BY <1>3 DEF Injection, IsInjective
  <1>6. Cardinality(1 .. n) = n
    <2>1. 1 .. n = 1 .. n /\ 1 \in Int
      OBVIOUS
    <2> HIDE DEF n
    <2> QED
      BY <1>2, FS_Interval
  <1>7. order \in Surjection(1 .. n, S)
    BY <1>1, <1>5, <1>6, FS_Injection
  <1>8. \E i \in 1 .. n : order[i] = id
    BY <1>4, <1>7 DEF Surjection
  <1> HIDE DEF n
  <1>9. Len(order) = n
    BY <1>2, <1>3, FunctionIsSeq
  <1> QED
    BY <1>8, <1>9

LEMMA MigrationCovers ==
    ASSUME NEW t, IsTable(t), NEW fresh \in Nat, NEW order \in SetToSeqs(ToMigrate(t)),
           NEW id \in V1(t)
    PROVE  Covers(CanonRules(t) \o Copies(t, order, fresh), t[id])
  <1> DEFINE old == CanonRules(t)
             new == Copies(t, order, fresh)
             n == Len(old)
             m == Len(order)
             list == old \o new
             name == t[id].rules[1].name
  <1> SUFFICES ASSUME Readable(t[id].rules) PROVE \E i \in DOMAIN list : list[i].name = name
    BY DEF Covers
  <1>1. /\ new \in Seq(Rules) /\ Len(new) = m
        /\ \A i \in 1 .. m : new[i].name = t[order[i]].rules[1].name
    BY CopiesAt
  <1>2. old \in Seq(Rules)
    BY CanonRulesRow
  <1>3. id \in ToMigrate(t) \/ \E i \in DOMAIN old : old[i].name = name
    BY DEF ToMigrate
  <1>4. id \in ToMigrate(t) => \E i \in 1 .. m : new[i].name = name
    <2>1. id \in ToMigrate(t) => \E i \in 1 .. m : order[i] = id
      BY OrderIsOnto
    <2> HIDE DEF new, m
    <2> QED
      BY <1>1, <2>1
  <1> HIDE DEF old, new, m, name
  <1>5. n \in Nat /\ DOMAIN old = 1 .. n /\ Len(old) = n
    BY <1>2, LenProperties
  <1> HIDE DEF n
  <1>6. /\ m \in Nat /\ list \in Seq(Rules) /\ Len(list) = n + m
        /\ \A j \in 1 .. n : list[j] = old[j]
        /\ \A j \in n + 1 .. n + m : list[j] = new[j - n]
    BY <1>1, <1>2, <1>5, ConcatAt
  <1>7. DOMAIN list = 1 .. n + m
    BY <1>6, LenProperties
  <1> HIDE DEF list
  <1>8. CASE \E i \in DOMAIN old : old[i].name = name
    <2>1. PICK i \in 1 .. n : old[i].name = name
      BY <1>5, <1>8
    <2>2. i \in 1 .. n + m /\ list[i].name = name
      BY <1>5, <1>6, <2>1
    <2> QED
      BY <1>7, <2>2
  <1>9. CASE id \in ToMigrate(t)
    <2>1. PICK i \in 1 .. m : new[i].name = name
      BY <1>4, <1>9
    <2> DEFINE j == n + i
    <2>2. j \in n + 1 .. n + m /\ j \in 1 .. n + m /\ j - n = i
      BY <1>5, <1>6
    <2> HIDE DEF j
    <2>3. list[j].name = name
      BY <1>6, <2>1, <2>2
    <2> QED
      BY <1>7, <2>2, <2>3
  <1> QED
    BY <1>3, <1>8, <1>9

\* The v1 filters of a later table are those of an earlier one, with their rules.
V1Stays ==
    \A id \in V1(table') : id \in V1(table) /\ table'[id].rules = table[id].rules

LEMMA CarriedOutV1 ==
    ASSUME IsTable(table), NEW m \in Messages, CarriedOut(m)
    PROVE  V1Stays
  <1>1. ASSUME NEW r \in Rows
        PROVE  [r EXCEPT !.active = FALSE].rules = r.rules /\ [r EXCEPT !.active = FALSE].kind = r.kind
    BY DEF Rows
  <1>2. ASSUME NEW x, table' = Put(table, x, m.rules) PROVE V1Stays
    <2> SUFFICES ASSUME NEW id \in V1(table')
                 PROVE  id \in V1(table) /\ table'[id].rules = table[id].rules
      BY DEF V1Stays
    <2>1. id \in DOMAIN table' /\ table'[id].kind = "v1"
      BY DEF V1, OfKind
    <2>2. id # x
      BY <1>2, <2>1 DEF Put
    <2>3. id \in DOMAIN table /\ table'[id] = [table[id] EXCEPT !.active = FALSE]
      BY <1>2, <2>1, <2>2 DEF Put
    <2>4. table[id] \in Rows
      BY <2>3 DEF IsTable
    <2> QED
      BY <1>1, <2>1, <2>3, <2>4 DEF V1, OfKind
  <1>3. CASE m.op \in {"add", "edit"}
    BY <1>2, <1>3 DEF CarriedOut, After
  <1>4. CASE m.op = "delete"
    BY <1>4 DEF CarriedOut, After, Without, V1Stays, V1, OfKind
  <1> QED
    BY <1>3, <1>4, MessageFields

LEMMA NextV1 ==
    ASSUME TypeOK, [Next]_vars
    PROVE  V1Stays
  <1>0. IsTable(table)
    BY DEF TypeOK, ServerOK
  <1>1. table' = table => V1Stays
    BY DEF V1Stays
  <1>2. ASSUME NEW m \in Messages, Delivered(m) \/ Failed(m) PROVE V1Stays
    <2>1. table' = table \/ CarriedOut(m)
      BY <1>2 DEF Delivered, Failed, Refused, LostBefore, LostAfter, GivenUp, server
    <2> QED
      BY <1>0, <1>1, <2>1, CarriedOutV1
  <1>3. ASSUME NEW c \in Client, Work(c) PROVE V1Stays
    <2>1. CASE MigrationWritten(c) \/ Written(c) \/ WriteFails(c)
      BY <1>2, <2>1, ContextMessages DEF MigrationWritten, Written, WriteFails, TypeOK
    <2>2. CASE Purge(c)
      BY <1>2, <2>2, ContextMessages DEF Purge, TypeOK
    <2>3. CASE Load(c) \/ StartMigration(c) \/ ReadFails(c) \/ MigrationRelisted(c)
                 \/ Reply(c) \/ StartWrite(c) \/ Confirm(c)
      BY <1>1, <2>3 DEF Load, StartMigration, ReadFails, MigrationRelisted, Reply, StartWrite,
                        Confirm, server
    <2> QED
      BY <1>3, <2>1, <2>2, <2>3 DEF Work
  <1>4. CASE LandLate
    BY <1>0, <1>4, CarriedOutV1 DEF LandLate, TypeOK, NetworkOK
  <1>5. ASSUME NEW c \in Client, Restart(c) \/ Repeat(c) \/ \E cmd \in Commands : Issue(c, cmd)
        PROVE  V1Stays
    BY <1>1, <1>5 DEF Restart, Repeat, Issue, server
  <1>6. UNCHANGED vars => V1Stays
    BY <1>1 DEF vars, server
  <1> QED
    BY <1>3, <1>4, <1>5, <1>6 DEF Next

LEMMA CoveredNext ==
    ASSUME TypeOK, Covered, [Next]_vars
    PROVE  Covered'
  <1>1. V1Stays
    BY NextV1
  <1>2. ASSUME \A d \in Client : \/ /\ legacy'[d] \subseteq legacy[d]
                                    /\ ctx'[d].rules = ctx[d].rules
                                 \/ legacy'[d] = {}
        PROVE  Covered'
    BY <1>1, <1>2 DEF Covered, Covers, V1Stays
  <1>3. ASSUME NEW c \in Client, NEW reply, Answer(c, reply) PROVE Covered'
    <2>1. \A d \in Client : /\ legacy'[d] = IF d = c THEN {} ELSE legacy[d]
                            /\ ctx'[d] = IF d = c THEN NoCtx ELSE ctx[d]
      BY <1>3 DEF Answer, TypeOK, ClientOK
    <2> QED
      BY <1>2, <2>1
  <1>4. ASSUME NEW c \in Client, Work(c) PROVE Covered'
    <2>1. CASE Load(c)
      <3>1. legacy[c] = {}
        BY <2>1 DEF Load, TypeOK, ClientOK
      <3>2. \A d \in Client : legacy'[d] = legacy[d] /\ (d # c => ctx'[d] = ctx[d])
        BY <2>1 DEF Load, TypeOK, ClientOK
      <3> QED
        BY <1>2, <3>1, <3>2
    <2>2. CASE StartMigration(c)
      <3>1. PICK order \in SetToSeqs(ToMigrate(table)) :
                ctx' = [ctx EXCEPT ![c] =
                          [id |-> CanonId(table),
                           rules |-> CanonRules(table) \o Copies(table, order, nextRule)]]
        BY <2>2 DEF StartMigration
      <3> DEFINE list == CanonRules(table) \o Copies(table, order, nextRule)
      <3>2. IsTable(table) /\ nextRule \in Nat
        BY DEF TypeOK, ServerOK, ClientOK
      <3>3. \A id \in V1(table) : Covers(list, table[id])
        BY <3>2, MigrationCovers
      <3>4. ctx'[c].rules = list /\ \A d \in Client \ {c} : ctx'[d] = ctx[d]
        BY <3>1 DEF TypeOK, ClientOK
      <3>5. legacy' = [legacy EXCEPT ![c] = V1(table)] /\ table' = table
        BY <2>2 DEF StartMigration, server
      <3> HIDE DEF list
      <3>6. legacy'[c] = V1(table) /\ \A d \in Client \ {c} : legacy'[d] = legacy[d]
        BY <3>5 DEF TypeOK, ClientOK
      <3> QED
        BY <3>3, <3>4, <3>5, <3>6 DEF Covered
    <2>3. CASE ReadFails(c) \/ Reply(c) \/ Confirm(c) \/ WriteFails(c)
      BY <1>3, <2>3 DEF ReadFails, Reply, Confirm, WriteFails
    <2>4. CASE MigrationWritten(c)
      BY <1>2, <2>4 DEF MigrationWritten
    <2>5. CASE MigrationRelisted(c)
      <3>1. PICK id : ctx' = [ctx EXCEPT ![c].id = id]
        BY <2>5 DEF MigrationRelisted
      <3>2. \A d \in Client : ctx'[d].rules = ctx[d].rules
        BY <3>1 DEF TypeOK, ClientOK
      <3> QED
        BY <1>2, <2>5, <3>2 DEF MigrationRelisted
    <2>6. CASE Purge(c)
      <3>1. ctx' = ctx /\ \A d \in Client : legacy'[d] \subseteq legacy[d]
        BY <2>6 DEF Purge, TypeOK, ClientOK
      <3> QED
        BY <1>2, <3>1
    <2>7. CASE StartWrite(c)
      <3>1. legacy[c] = {} /\ legacy' = legacy
        BY <2>7 DEF StartWrite, TypeOK, ClientOK
      <3>2. \A d \in Client \ {c} : ctx'[d] = ctx[d]
        BY <2>7 DEF StartWrite, TypeOK, ClientOK
      <3> QED
        BY <1>2, <3>1, <3>2
    <2>8. CASE Written(c)
      BY <1>2, <1>3, <2>8 DEF Written
    <2> QED
      BY <1>4, <2>1, <2>2, <2>3, <2>4, <2>5, <2>6, <2>7, <2>8 DEF Work
  <1>5. ASSUME NEW c \in Client, Restart(c) PROVE Covered'
    <2>1. \A d \in Client : /\ legacy'[d] = IF d = c THEN {} ELSE legacy[d]
                            /\ ctx'[d] = IF d = c THEN NoCtx ELSE ctx[d]
      BY <1>5 DEF Restart, TypeOK, ClientOK
    <2> QED
      BY <1>2, <2>1
  <1>6. ASSUME NEW c \in Client, Repeat(c) \/ \E cmd \in Commands : Issue(c, cmd) PROVE Covered'
    BY <1>2, <1>6 DEF Repeat, Issue
  <1>7. CASE LandLate
    BY <1>2, <1>7 DEF LandLate, client
  <1>8. CASE UNCHANGED vars
    BY <1>2, <1>8 DEF vars, client
  <1> QED
    BY <1>4, <1>5, <1>6, <1>7, <1>8 DEF Next

\* What a migration of a single client is about to write and has written.
Migrating ==
    \A c \in Client :
        /\ stage[c] = "migrating" =>
             /\ Readable(ctx[c].rules)
             /\ \A i \in DOMAIN CanonRules(table) :
                  i \in DOMAIN ctx[c].rules /\ ctx[c].rules[i] = CanonRules(table)[i]
        /\ stage[c] \in {"relisting", "purging"} => ctx[c].rules = CanonRules(table)

LEMMA MigratingWrite ==
    ASSUME TypeOK, HarmlessCalls, Alone, Migrating, NEW c \in Client, stage[c] = "migrating",
           CarriedOut(WriteOf(ctx[c].id, ctx[c].rules))
    PROVE  /\ CanonRules(table') = ctx[c].rules
           /\ \A id \in V1(table) : id \in V1(table') /\ table'[id].rules = table[id].rules
  <1> DEFINE m == WriteOf(ctx[c].id, ctx[c].rules)
  <1>1. /\ m \in Messages /\ m.rules = ctx[c].rules /\ Readable(m.rules)
        /\ Harmless(table, nextId, m)
    BY ContextMessages, CallRules DEF TypeOK, Migrating, HarmlessCalls
  <1>2. m.op \in {"add", "edit"} /\ (m.op = "add" => V2(table) = {})
    <2>1. m.op \in {"add", "edit"} /\ (m.op = "add" => ctx[c].id = NoFilter)
      BY DEF WriteOf
    <2> QED
      BY <2>1 DEF Alone, ReadIsFresh
  <1>3. CarriedOut(m)
    OBVIOUS
  <1> HIDE DEF m
  <1>4. CanonRules(table') = ctx[c].rules
    BY <1>1, <1>2, <1>3, WrittenTable DEF Alone
  <1>5. ASSUME NEW id \in V1(table)
        PROVE  id \in V1(table') /\ table'[id].rules = table[id].rules
    <2> DEFINE x == IF m.op = "add" THEN nextId ELSE m.id
    <2>1. id \in DOMAIN table /\ table[id].kind = "v1" /\ table[id] \in Rows
      BY DEF V1, OfKind, TypeOK, ServerOK, IsTable
    <2>2. id # x
      <3>1. CASE m.op = "add"
        <4>1. id < nextId /\ nextId \in Nat /\ id \in Nat
          BY <2>1 DEF TypeOK, ServerOK, FilterIds, IsTable
        <4> QED
          BY <3>1, <4>1
      <3>2. CASE m.op = "edit"
        <4>1. m.id \in OfKind(table, "v2")
          BY <1>1, <3>2 DEF Harmless
        <4>2. table[m.id].kind = "v2"
          BY <4>1 DEF OfKind
        <4> QED
          BY <2>1, <3>2, <4>2
      <3> QED
        BY <1>2, <3>1, <3>2
    <2>3. table' = Put(table, x, m.rules)
      BY <1>2, <1>3 DEF CarriedOut, After
    <2> HIDE DEF x
    <2>4. id \in DOMAIN table' /\ table'[id] = [table[id] EXCEPT !.active = FALSE]
      BY <2>1, <2>2, <2>3 DEF Put
    <2>5. ASSUME NEW r \in Rows
          PROVE  [r EXCEPT !.active = FALSE].rules = r.rules /\ [r EXCEPT !.active = FALSE].kind = r.kind
      BY DEF Rows
    <2> QED
      BY <2>1, <2>4, <2>5 DEF V1, OfKind
  <1> QED
    BY <1>4, <1>5

LEMMA MigratingNext ==
    ASSUME \A c, d \in Client : c = d, MaxLate = 0, TypeOK, HarmlessCalls, Alone, Migrating,
           [Next]_vars
    PROVE  Migrating'
  <1>1. ASSUME UNCHANGED <<table, stage, ctx>> PROVE Migrating'
    BY <1>1 DEF Migrating
  <1>2. ASSUME NEW c \in Client, NEW s \in Stages, GoTo(c, s), s # "migrating",
               s \in {"relisting", "purging"} => ctx'[c].rules = CanonRules(table')
        PROVE  Migrating'
    <2>1. stage'[c] = s /\ \A d \in Client : d = c
      BY <1>2 DEF GoTo, TypeOK, ClientOK
    <2> QED
      BY <1>2, <2>1 DEF Migrating
  <1>3. ASSUME NEW c \in Client, Work(c) PROVE Migrating'
    <2>1. CASE Load(c) \/ StartWrite(c)
      BY <1>2, <2>1 DEF Load, StartWrite, Stages
    <2>2. CASE StartMigration(c)
      <3>1. PICK order \in SetToSeqs(ToMigrate(table)) :
                ctx' = [ctx EXCEPT ![c] =
                          [id |-> CanonId(table),
                           rules |-> CanonRules(table) \o Copies(table, order, nextRule)]]
        BY <2>2 DEF StartMigration
      <3> DEFINE old == CanonRules(table)
                 new == Copies(table, order, nextRule)
                 list == old \o new
                 n == Len(old)
                 m == Len(new)
      <3>2. IsTable(table) /\ nextRule \in Nat
        BY DEF TypeOK, ServerOK, ClientOK
      <3>3. old \in Seq(Rules) /\ new \in Seq(Rules) /\ Readable(list)
        BY <3>2, CanonRulesRow, CopiesAt, MigratedReadable
      <3>4. ctx'[c].rules = list
        BY <3>1 DEF TypeOK, ClientOK
      <3>5. stage'[c] = "migrating" /\ table' = table /\ \A d \in Client : d = c
        BY <2>2 DEF StartMigration, GoTo, server, TypeOK, ClientOK
      <3> HIDE DEF old, new
      <3>6. \A i \in DOMAIN old : i \in DOMAIN list /\ list[i] = old[i]
        <4>1. Len(old) = n /\ Len(new) = m
          OBVIOUS
        <4> HIDE DEF n, m
        <4>2. /\ n \in Nat /\ m \in Nat /\ list \in Seq(Rules) /\ Len(list) = n + m
              /\ \A j \in 1 .. n : list[j] = old[j]
          BY <3>3, <4>1, ConcatAt
        <4>3. DOMAIN old = 1 .. n /\ DOMAIN list = 1 .. n + m
          BY <3>3, <4>1, <4>2, LenProperties
        <4> HIDE DEF list
        <4> QED
          BY <4>2, <4>3
      <3> HIDE DEF list
      <3> QED
        BY <3>3, <3>4, <3>5, <3>6 DEF Migrating, old
    <2>3. CASE ReadFails(c) \/ Reply(c) \/ Confirm(c) \/ WriteFails(c)
      BY <1>2, <2>3 DEF ReadFails, Reply, Confirm, WriteFails, Answer, Stages
    <2>4. CASE MigrationWritten(c)
      <3>1. /\ stage[c] = "migrating" /\ CarriedOut(WriteOf(ctx[c].id, ctx[c].rules))
            /\ ctx' = ctx /\ GoTo(c, IF ctx[c].id = NoFilter THEN "relisting" ELSE "purging")
        BY <2>4 DEF MigrationWritten, Delivered
      <3>2. CanonRules(table') = ctx[c].rules
        BY <3>1, MigratingWrite
      <3> QED
        BY <1>2, <3>1, <3>2 DEF Stages
    <2>5. CASE MigrationRelisted(c)
      <3>1. PICK id : ctx' = [ctx EXCEPT ![c].id = id]
        BY <2>5 DEF MigrationRelisted
      <3>2. ctx'[c].rules = ctx[c].rules
        BY <3>1 DEF TypeOK, ClientOK
      <3>3. stage[c] = "relisting" /\ GoTo(c, "purging") /\ table' = table
        BY <2>5 DEF MigrationRelisted, server
      <3> QED
        BY <1>2, <3>2, <3>3 DEF Stages, Migrating
    <2>6. CASE Purge(c)
      <3>1. PICK id \in legacy[c] :
                /\ Delivered(DeletionOf(id)) \/ Failed(DeletionOf(id))
                /\ GoTo(c, IF legacy[c] = {id} THEN "ready" ELSE "purging")
        BY <2>6 DEF Purge
      <3>2. /\ DeletionOf(id) \in Messages /\ Harmless(table, nextId, DeletionOf(id))
            /\ DeletionOf(id).op = "delete"
        BY ContextMessages, DeletionOp DEF TypeOK, HarmlessCalls
      <3>3. CanonRules(table') = CanonRules(table)
        BY <3>1, <3>2, DeletedTable
      <3>4. stage[c] = "purging" /\ ctx' = ctx
        BY <2>6 DEF Purge
      <3> QED
        BY <1>2, <3>1, <3>3, <3>4 DEF Stages, Migrating
    <2>7. CASE Written(c)
      BY <1>2, <2>7 DEF Written, Answer, Stages
    <2> QED
      BY <1>3, <2>1, <2>2, <2>3, <2>4, <2>5, <2>6, <2>7 DEF Work
  <1>4. ASSUME NEW c \in Client, Restart(c) PROVE Migrating'
    BY <1>2, <1>4 DEF Restart, Stages
  <1>5. ASSUME NEW c \in Client, Repeat(c) \/ \E cmd \in Commands : Issue(c, cmd)
        PROVE  Migrating'
    BY <1>1, <1>5 DEF Repeat, Issue, server
  <1>6. ~LandLate
    <2>1. stray = {}
      BY DEF TypeOK, NetworkOK
    <2> QED
      BY <2>1 DEF LandLate
  <1>7. CASE UNCHANGED vars
    BY <1>1, <1>7 DEF vars, server, client
  <1> QED
    BY <1>3, <1>4, <1>5, <1>6, <1>7 DEF Next

LEMMA RuleNames ==
    ASSUME NEW t, NEW id \in V1(t) \cup V2(t), Readable(t[id].rules), NEW i \in DOMAIN t[id].rules
    PROVE  t[id].rules[i].name \in NamesIn(t)
  BY DEF NamesIn

LEMMA CanonNames ==
    ASSUME NEW t, IsTable(t), NEW i \in DOMAIN CanonRules(t)
    PROVE  CanonRules(t)[i].name \in NamesIn(t)
  <1>1. CASE CanonRules(t) = <<>>
    BY <1>1
  <1>2. CASE \E id \in V2(t) : CanonRules(t) = t[id].rules
    <2>1. PICK id \in V2(t) : CanonRules(t) = t[id].rules
      BY <1>2
    <2>2. Readable(t[id].rules)
      BY <2>1, CanonRulesRow
    <2> QED
      BY <2>1, <2>2, RuleNames
  <1> QED
    BY <1>1, <1>2, CanonRulesRow

LEMMA NextKeepsNames ==
    ASSUME \A c, d \in Client : c = d, MaxLate = 0, TypeOK, TypeOK', HarmlessCalls, Alone,
           Covered, Migrating, [Next]_vars, \A c \in Client : stage[c] # "writing"
    PROVE  NamesIn(table) \subseteq NamesIn(table')
  <1>0. IsTable(table) /\ IsTable(table')
    BY DEF TypeOK, ServerOK
  <1> SUFFICES ASSUME NEW id \in V1(table) \cup V2(table), Readable(table[id].rules),
                      NEW i \in DOMAIN table[id].rules
               PROVE  table[id].rules[i].name \in NamesIn(table')
    BY DEF NamesIn
  <1> DEFINE name == table[id].rules[i].name
  <1>1. ASSUME id \in V1(table') \cup V2(table'), table'[id].rules = table[id].rules
        PROVE  name \in NamesIn(table')
    <2>1. table'[id].rules[i].name = name /\ Readable(table'[id].rules)
          /\ i \in DOMAIN table'[id].rules
      BY <1>1
    <2> HIDE DEF name
    <2> QED
      BY <1>1, <2>1, RuleNames
  <1>2. CASE table' = table
    BY <1>1, <1>2
  <1>3. ASSUME NEW c \in Client, stage[c] = "migrating",
               CarriedOut(WriteOf(ctx[c].id, ctx[c].rules))
        PROVE  name \in NamesIn(table')
    <2>1. /\ CanonRules(table') = ctx[c].rules
          /\ \A x \in V1(table) : x \in V1(table') /\ table'[x].rules = table[x].rules
      BY <1>3, MigratingWrite
    <2>2. CASE id \in V1(table)
      BY <1>1, <2>1, <2>2
    <2>3. CASE id \in V2(table)
      <3>1. V2(table) = {id}
        BY <2>3 DEF Alone
      <3>2. CanonRules(table) = table[id].rules
        BY <1>0, <3>1, OnlyFilter
      <3>3. i \in DOMAIN ctx[c].rules /\ ctx[c].rules[i] = table[id].rules[i]
        BY <1>3, <3>2 DEF Migrating
      <3>4. i \in DOMAIN CanonRules(table') /\ CanonRules(table')[i].name = name
        BY <2>1, <3>3
      <3> QED
        BY <1>0, <3>4, CanonNames
    <2> QED
      BY <2>2, <2>3
  <1>4. ASSUME NEW c \in Client, stage[c] = "purging", NEW v1 \in legacy[c],
               CarriedOut(DeletionOf(v1))
        PROVE  name \in NamesIn(table')
    <2> DEFINE m == DeletionOf(v1)
    <2>1. m \in Messages /\ Harmless(table, nextId, m) /\ m.op = "delete" /\ m.id = v1
      BY ContextMessages, DeletionOp DEF TypeOK, HarmlessCalls, DeletionOf
    <2>2. CarriedOut(m) /\ table' = Without(table, v1)
      BY <1>4, <2>1 DEF CarriedOut, After
    <2> HIDE DEF m
    <2>3. CASE id # v1
      <3>1. id \in DOMAIN table' /\ table'[id] = table[id]
        BY <2>2, <2>3 DEF Without, V1, V2, OfKind
      <3> QED
        BY <1>1, <3>1 DEF V1, V2, OfKind
    <2>4. CASE id = v1
      <3>1. id \in V1(table)
        BY <2>1, <2>4 DEF Harmless, V1, V2, OfKind
      <3>2. i = 1
        <4> DEFINE rules == table[id].rules
        <4>1. Len(rules) = 1 /\ rules \in Seq(Rules)
          BY <1>0, <3>1 DEF IsTable, Rows, V1, OfKind
        <4>2. i \in DOMAIN rules
          OBVIOUS
        <4> HIDE DEF rules
        <4> QED
          BY <4>1, <4>2, LenProperties
      <3>3. PICK j \in DOMAIN ctx[c].rules : ctx[c].rules[j].name = name
        BY <2>4, <3>1, <3>2 DEF Covered, Covers
      <3>4. ctx[c].rules = CanonRules(table)
        BY <1>4 DEF Migrating
      <3>5. CanonRules(table') = CanonRules(table)
        <4>2. V2(table') = V2(table)
          BY <2>1, <2>2, NoAdditionKeepsV2
        <4>3. \A x \in DOMAIN table' : table'[x] = table[x]
          BY <2>2 DEF Without
        <4>4. V2(table) # {} => CanonId(table') = CanonId(table) /\ CanonId(table) \in DOMAIN table'
          <5>1. CanonId(table') = CanonId(table)
            BY <4>2 DEF CanonId
          <5>2. V2(table) # {} => CanonId(table') \in V2(table')
            BY <1>0, <4>2, CanonIdFacts
          <5> QED
            BY <5>1, <5>2 DEF V2, OfKind
        <4>5. V2(table) # {} => table'[CanonId(table)] = table[CanonId(table)]
          BY <4>3, <4>4
        <4> QED
          BY <4>2, <4>4, <4>5 DEF CanonRules
      <3>6. j \in DOMAIN CanonRules(table') /\ CanonRules(table')[j].name = name
        BY <3>3, <3>4, <3>5
      <3> QED
        BY <1>0, <3>6, CanonNames
    <2> QED
      BY <2>3, <2>4
  <1>5. ASSUME NEW c \in Client, Work(c) PROVE name \in NamesIn(table')
    <2> DEFINE write == WriteOf(ctx[c].id, ctx[c].rules)
    <2>1. \A m : Delivered(m) \/ Failed(m) => table' = table \/ CarriedOut(m)
      BY DEF Delivered, Failed, Refused, LostBefore, LostAfter, GivenUp, server
    <2>2. CASE MigrationWritten(c) \/ WriteFails(c)
      <3>1. stage[c] = "migrating" /\ (Delivered(write) \/ Failed(write))
        BY <2>2 DEF MigrationWritten, WriteFails
      <3> QED
        BY <1>2, <1>3, <2>1, <3>1
    <2>3. CASE Purge(c)
      <3>1. stage[c] = "purging"
            /\ \E v1 \in legacy[c] : Delivered(DeletionOf(v1)) \/ Failed(DeletionOf(v1))
        BY <2>3 DEF Purge
      <3> QED
        BY <1>2, <1>4, <2>1, <3>1
    <2>4. CASE Load(c) \/ StartMigration(c) \/ ReadFails(c) \/ MigrationRelisted(c)
                 \/ Reply(c) \/ StartWrite(c) \/ Confirm(c)
      BY <1>2, <2>4 DEF Load, StartMigration, ReadFails, MigrationRelisted, Reply, StartWrite,
                        Confirm, server
    <2>5. ~Written(c)
      BY DEF Written
    <2> QED
      BY <1>5, <2>2, <2>3, <2>4, <2>5 DEF Work
  <1>6. ASSUME NEW c \in Client, Restart(c) \/ Repeat(c) \/ \E cmd \in Commands : Issue(c, cmd)
        PROVE  name \in NamesIn(table')
    BY <1>2, <1>6 DEF Restart, Repeat, Issue, server
  <1>7. ~LandLate
    <2>1. stray = {}
      BY DEF TypeOK, NetworkOK
    <2> QED
      BY <2>1 DEF LandLate
  <1>8. CASE UNCHANGED vars
    BY <1>2, <1>8 DEF vars, server
  <1> QED
    BY <1>5, <1>6, <1>7, <1>8 DEF Next

\* Reading the list never loses a rule (README "Migration is idempotent"): however often a
\* migration is cut short and run again, a v1 filter goes only when the combined filter
\* holds its rule, and what the combined filter held stays in front.
THEOREM ReadingKeepsRules ==
    ASSUME \A c, d \in Client : c = d, MaxLate = 0
    PROVE  Spec => MigrationKeepsRules
  <1>1. Init => Covered /\ Migrating
    BY DEF Init, Covered, Migrating
  <1>2. TypeOK /\ HarmlessCalls /\ Alone /\ [Next]_vars => Alone'
    BY AloneNext
  <1>3. TypeOK /\ Covered /\ [Next]_vars => Covered'
    BY CoveredNext
  <1>4. TypeOK /\ HarmlessCalls /\ Alone /\ Migrating /\ [Next]_vars => Migrating'
    BY MigratingNext
  <1>5. TypeOK /\ TypeOK' /\ HarmlessCalls /\ Alone /\ Covered /\ Migrating /\ [Next]_vars
          => [(\A c \in Client : stage[c] # "writing")
                => NamesIn(table) \subseteq NamesIn(table')]_vars
    BY NextKeepsNames
  <1> QED
    BY <1>1, <1>2, <1>3, <1>4, <1>5, InitAlone, CallsAreHarmless, PTL
       DEF Spec, MigrationKeepsRules
=============================================================================
