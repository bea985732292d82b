-------------------------- MODULE RuleList_proofs ---------------------------
(***************************************************************************)
(* What a command makes of a rule list: again a rule list, in which no id  *)
(* is held twice, and which rules are in it.                               *)
(***************************************************************************)
EXTENDS RuleList, SequenceTheorems, FiniteSetTheorems, WellFoundedInduction, TLAPS

-----------------------------------------------------------------------------
(***************************************************************************)
(* What the commands make of a rule list is a rule list again.             *)
(***************************************************************************)
LEMMA FunctionIsSeq ==
    ASSUME NEW S, NEW n \in Nat, NEW f \in [1 .. n -> S]
    PROVE  f \in Seq(S) /\ Len(f) = n
  OBVIOUS

LEMMA NotEmpty ==
    ASSUME NEW s, Len(s) = 1
    PROVE  s # <<>>
  <1>1. Len(<<>>) = 0
    OBVIOUS
  <1> QED
    BY <1>1

\* A non-empty set of naturals has a least element.
LEMMA LeastNat ==
    ASSUME NEW S \in SUBSET Nat, S # {}
    PROVE  \E x \in S : \A y \in S : x <= y
  <1> DEFINE R == OpToRel(<, Nat)
  <1>1. PICK x \in S : \A y \in S : <<y, x>> \notin R
    <2>1. IsWellFoundedOn(R, Nat)
      BY NatLessThanWellFounded
    <2> HIDE DEF R
    <2> QED
      BY <2>1, WFMin
  <1>2. ASSUME NEW y \in S PROVE x <= y
    <2>1. <<y, x>> \notin {ss \in Nat \X Nat : ss[1] < ss[2]}
      BY <1>1 DEF OpToRel
    <2>2. y \in Nat /\ x \in Nat
      OBVIOUS
    <2>3. ~(y < x)
      BY <2>1, <2>2
    <2> QED
      BY <2>2, <2>3
  <1> QED
    BY <1>2

\* IndexOf points at a rule with the id when there is one.
LEMMA IndexOfHeld ==
    ASSUME NEW S, NEW rules \in Seq(S), NEW id, Holds(rules, id)
    PROVE  IndexOf(rules, id) \in 1 .. Len(rules) /\ rules[IndexOf(rules, id)].id = id
  <1> DEFINE T == {i \in DOMAIN rules : rules[i].id = id}
  <1>1. DOMAIN rules = 1 .. Len(rules) /\ Len(rules) \in Nat
    BY LenProperties
  <1>2. T \in SUBSET Nat /\ T # {}
    BY <1>1 DEF Holds
  <1>3. PICK i \in T : \A j \in T : i <= j
    BY <1>2, LeastNat
  <1>4. \A j \in 1 .. i - 1 : rules[j].id # id
    BY <1>1, <1>3
  <1> QED
    BY <1>1, <1>3, <1>4 DEF IndexOf

LEMMA RemoveAtType ==
    ASSUME NEW S, NEW s \in Seq(S), NEW i \in 1 .. Len(s)
    PROVE  RemoveAt(s, i) \in Seq(S)
  <1>1. SubSeq(s, 1, i - 1) \in Seq(S) /\ SubSeq(s, i + 1, Len(s)) \in Seq(S)
    BY LenProperties, ElementOfSeq, SubSeqProperties
  <1> QED
    BY <1>1, ConcatProperties DEF RemoveAt

LEMMA InsertAtType ==
    ASSUME NEW S, NEW s \in Seq(S), NEW i \in 1 .. Len(s) + 1, NEW e \in S
    PROVE  InsertAt(s, i, e) \in Seq(S)
  <1>1. SubSeq(s, 1, i - 1) \in Seq(S) /\ SubSeq(s, i, Len(s)) \in Seq(S)
    BY LenProperties, ElementOfSeq, SubSeqProperties
  <1>2. <<e>> \in Seq(S)
    OBVIOUS
  <1>3. SubSeq(s, 1, i - 1) \o <<e>> \in Seq(S)
    BY <1>1, <1>2, ConcatProperties
  <1> QED
    BY <1>1, <1>3, ConcatProperties DEF InsertAt

(***************************************************************************)
(* A command moves rules about and brings in its own: whatever the rules   *)
(* it finds and the rules it carries have in common (S), the rules it      *)
(* leaves have.                                                            *)
(***************************************************************************)
LEMMA EditedIn ==
    ASSUME NEW S, NEW rules \in Seq(S), NEW rule \in S, NEW order \in Int \cup {NoOrder},
           Holds(rules, rule.id)
    PROVE  Edited(rules, rule, order) \in Seq(S)
  <1> DEFINE i == IndexOf(rules, rule.id)
             others == RemoveAt(rules, i)
  <1>1. i \in 1 .. Len(rules)
    BY IndexOfHeld
  <1> HIDE DEF i
  <1>2. ReplaceAt(rules, i, rule) \in Seq(S)
    BY <1>1, ExceptSeq DEF ReplaceAt
  <1>3. others \in Seq(S)
    BY <1>1, RemoveAtType
  <1>4. ASSUME order # NoOrder
        PROVE  InsertAt(others, 1 + Clamp(order, 0, Len(others)), rule) \in Seq(S)
    <2> HIDE DEF others
    <2>1. 1 + Clamp(order, 0, Len(others)) \in 1 .. Len(others) + 1
      BY <1>3, <1>4, LenProperties DEF Clamp
    <2> QED
      BY <1>3, <2>1, InsertAtType
  <1> QED
    BY <1>2, <1>4 DEF Edited, i

LEMMA AddedIn ==
    ASSUME NEW S, NEW rules \in Seq(S), NEW rule \in S, NEW order
    PROVE  Added(rules, rule, order) \in Seq(S)
  <1>1. <<rule>> \in Seq(S)
    OBVIOUS
  <1> QED
    BY <1>1, ConcatProperties DEF Added

LEMMA SwitchedIn ==
    ASSUME NEW S, NEW rules \in Seq(S), NEW id, NEW active,
           \A rule \in S : [rule EXCEPT !.active = active] \in S
    PROVE  Switched(rules, id, active) \in Seq(S)
  <1>1. DOMAIN rules = 1 .. Len(rules) /\ Len(rules) \in Nat
    BY LenProperties
  <1>2. Switched(rules, id, active) \in [1 .. Len(rules) -> S]
    BY <1>1, ElementOfSeq DEF Switched
  <1> QED
    BY <1>1, <1>2, FunctionIsSeq

(***************************************************************************)
(* The k-th of a set of positions exists: the least position with k        *)
(* positions up to it.                                                     *)
(***************************************************************************)
LEMMA NthExists ==
    ASSUME NEW n \in Nat, NEW P \in SUBSET (1 .. n), NEW k \in 1 .. Cardinality(P)
    PROVE  \E i \in P : Cardinality({j \in P : j <= i}) = k
  <1> DEFINE UpTo(i) == {j \in P : j <= i}
             S == {i \in 1 .. n : Cardinality(UpTo(i)) >= k}
  <1>0. \A j \in P : j \in 1 .. n /\ j <= n /\ j \in Nat
    OBVIOUS
  <1>1. IsFiniteSet(P) /\ Cardinality(P) \in Nat
    <2>1. IsFiniteSet(1 .. n)
      BY FS_Interval
    <2>2. IsFiniteSet(P)
      BY <2>1, FS_Subset
    <2> QED
      BY <2>2, FS_CardinalityType
  <1>2. \A i : IsFiniteSet(UpTo(i)) /\ Cardinality(UpTo(i)) \in Nat
    <2>1. \A i : UpTo(i) \in SUBSET P
      OBVIOUS
    <2> HIDE DEF UpTo
    <2> QED
      BY <1>1, <2>1, FS_Subset, FS_CardinalityType
  <1>3. n \in S
    <2>1. UpTo(n) = P
      BY <1>0
    <2>2. n # 0
      <3>1. n = 0 => P = {}
        BY <1>0
      <3>2. P = {} => Cardinality(P) = 0
        BY FS_EmptySet
      <3> QED
        BY <1>1, <3>1, <3>2
    <2> QED
      BY <1>1, <2>1, <2>2
  <1>4. PICK m \in S : \A i \in S : m <= i
    <2>1. \A i \in S : i \in 1 .. n
      OBVIOUS
    <2> HIDE DEF S
    <2>2. \A i \in S : i \in Nat
      BY <2>1
    <2>3. S \in SUBSET Nat /\ S # {}
      BY <1>3, <2>2
    <2> QED
      BY <2>3, LeastNat
  <1>m. m \in 1 .. n /\ m \in Nat /\ m >= 1
    OBVIOUS
  <1>5. Cardinality(UpTo(m - 1)) < k
    <2>1. CASE m = 1
      <3>1. \A j \in P : ~(j <= 0)
        BY <1>0
      <3>2. m - 1 = 0
        BY <2>1
      <3>3. {j \in P : j <= 0} = {}
        BY <3>1
      <3>4. Cardinality({j \in P : j <= 0}) = 0
        BY <3>3, FS_EmptySet
      <3>5. UpTo(m - 1) = {j \in P : j <= 0}
        BY <3>2
      <3> HIDE DEF UpTo
      <3> QED
        BY <1>1, <3>4, <3>5
    <2>2. CASE m # 1
      <3>1. m - 1 \in 1 .. n /\ ~(m <= m - 1)
        BY <1>m, <2>2
      <3>2. m - 1 \notin S
        BY <1>4, <3>1
      <3> HIDE DEF UpTo
      <3> QED
        BY <3>1, <3>2, <1>1, <1>2
    <2> QED
      BY <2>1, <2>2
  <1>6. Cardinality(UpTo(m)) >= k
    OBVIOUS
  <1>7. m \in P
    <2>1. m \notin P => UpTo(m) = UpTo(m - 1)
      <3>1. \A j \in P : j # m => (j <= m <=> j <= m - 1)
        BY <1>0
      <3> QED
        BY <3>1
    <2> HIDE DEF UpTo
    <2> QED
      BY <2>1, <1>1, <1>2, <1>5, <1>6
  <1>8. Cardinality(UpTo(m)) = Cardinality(UpTo(m - 1)) + 1
    <2>1. UpTo(m) = UpTo(m - 1) \cup {m} /\ m \notin UpTo(m - 1)
      <3>1. \A j \in P : j <= m <=> j <= m - 1 \/ j = m
        BY <1>0
      <3>2. m <= m /\ ~(m <= m - 1)
        OBVIOUS
      <3> QED
        BY <1>7, <3>1, <3>2
    <2> HIDE DEF UpTo
    <2> QED
      BY <2>1, <1>2, FS_AddElement
  <1>9. Cardinality(UpTo(m)) = k
    <2> HIDE DEF UpTo
    <2> QED
      BY <1>1, <1>2, <1>5, <1>6, <1>8
  <1> QED
    BY <1>7, <1>9

\* Picking positions of a list yields a list of its rules.
LEMMA AtPositionsIn ==
    ASSUME NEW S, NEW rules \in Seq(S), NEW P \in SUBSET (DOMAIN rules)
    PROVE  AtPositions(rules, P) \in Seq(S)
  <1> DEFINE Nth(k) == CHOOSE i \in P : Cardinality({j \in P : j <= i}) = k
  <1>1. DOMAIN rules = 1 .. Len(rules) /\ Len(rules) \in Nat
    BY LenProperties
  <1>2. Cardinality(P) \in Nat
    <2>1. IsFiniteSet(1 .. Len(rules))
      BY <1>1, FS_Interval
    <2>2. IsFiniteSet(P)
      BY <1>1, <2>1, FS_Subset
    <2> QED
      BY <2>2, FS_CardinalityType
  <1>3. \A k \in 1 .. Cardinality(P) : Nth(k) \in DOMAIN rules
    BY <1>1, NthExists
  <1> HIDE DEF Nth
  <1>4. [k \in 1 .. Cardinality(P) |-> rules[Nth(k)]] \in [1 .. Cardinality(P) -> S]
    BY <1>1, <1>3, ElementOfSeq
  <1>5. [k \in 1 .. Cardinality(P) |-> rules[Nth(k)]] \in Seq(S)
    BY <1>2, <1>4, FunctionIsSeq
  <1> QED
    BY <1>5 DEF AtPositions, Nth

LEMMA RemovedIn ==
    ASSUME NEW S, NEW rules \in Seq(S), NEW id
    PROVE  Removed(rules, id) \in Seq(S)
  <1>1. {i \in DOMAIN rules : rules[i].id # id} \in SUBSET (DOMAIN rules)
    OBVIOUS
  <1> QED
    BY <1>1, AtPositionsIn DEF Removed

\* Giving ids to a batch keeps it a list of rules.
LEMMA WithIdsType ==
    ASSUME NEW batch \in Seq(Rules), NEW fresh \in Nat
    PROVE  WithIds(batch, fresh) \in Seq(Rules)
  <1>1. DOMAIN batch = 1 .. Len(batch) /\ Len(batch) \in Nat
    BY LenProperties
  <1>2. ASSUME NEW rule \in Rules, NEW id \in Nat PROVE [rule EXCEPT !.id = id] \in Rules
    BY DEF Rules
  <1>3. \A i \in 1 .. Len(batch) : batch[i] \in Rules /\ fresh + i - 1 \in Nat
    BY <1>1, ElementOfSeq
  <1>4. WithIds(batch, fresh) \in [1 .. Len(batch) -> Rules]
    BY <1>1, <1>2, <1>3 DEF WithIds
  <1> QED
    BY <1>1, <1>4, FunctionIsSeq

\* The rules a command brings along.
Carries(cmd, fresh, S) ==
    /\ cmd.op = "saveRule" =>
         Stored(IF cmd.id = NoId THEN fresh ELSE cmd.id, cmd.draft) \in S
    /\ cmd.op = "setRuleActive" =>
         \A rule \in S : [rule EXCEPT !.active = cmd.active] \in S
    /\ cmd.op = "importLocalFilters" => WithIds(cmd.batch, fresh) \in Seq(S)

LEMMA UpdatedIn ==
    ASSUME NEW S, NEW rules \in Seq(S), NEW cmd \in CommandType, NEW fresh \in Nat,
           Carries(cmd, fresh, S), NeedsWrite(cmd, rules)
    PROVE  Updated(cmd, rules, fresh) \in Seq(S)
  <1>1. CASE cmd.op = "saveRule"
    <2> DEFINE rule == Stored(IF cmd.id = NoId THEN fresh ELSE cmd.id, cmd.draft)
    <2>1. cmd.order \in Int \cup {NoOrder}
      BY <1>1 DEF CommandType
    <2>2. rule \in S
      BY <1>1 DEF Carries
    <2>3. CASE cmd.id # NoId /\ Holds(rules, cmd.id)
      <3>1. rule = Stored(cmd.id, cmd.draft) /\ rule.id = cmd.id
        BY <2>3 DEF Stored
      <3> HIDE DEF rule
      <3>2. Edited(rules, rule, cmd.order) \in Seq(S)
        BY <2>1, <2>2, <2>3, <3>1, EditedIn
      <3> QED
        BY <1>1, <2>3, <3>1, <3>2 DEF Updated, Saved
    <2>4. CASE ~(cmd.id # NoId /\ Holds(rules, cmd.id))
      BY <1>1, <2>2, <2>4, AddedIn DEF Updated, Saved
    <2> QED
      BY <2>3, <2>4
  <1>2. CASE cmd.op = "deleteRule"
    BY <1>2, RemovedIn DEF Updated
  <1>3. CASE cmd.op = "setRuleActive"
    BY <1>3, SwitchedIn DEF Updated, Carries
  <1>4. CASE cmd.op = "importLocalFilters"
    BY <1>4, ConcatProperties DEF Updated, Imported, Carries
  <1> QED
    BY <1>1, <1>2, <1>3, <1>4 DEF NeedsWrite

\* What a command writes is a rule list, whatever list it found.
THEOREM UpdatedType ==
    ASSUME NEW rules \in Seq(Rules), NEW cmd \in CommandType, NEW fresh \in Nat,
           ~Rejected(cmd), NeedsWrite(cmd, rules)
    PROVE  Updated(cmd, rules, fresh) \in Seq(Rules)
  <1>1. ASSUME cmd.op = "saveRule"
        PROVE  Stored(IF cmd.id = NoId THEN fresh ELSE cmd.id, cmd.draft) \in Rules
    <2>1. cmd.id \in Nat /\ cmd.draft \in Drafts /\ cmd.draft.name # NoName
      BY <1>1 DEF CommandType, Rejected
    <2> QED
      BY <2>1 DEF Stored, Rules, Drafts
  <1>2. ASSUME cmd.op = "setRuleActive", NEW rule \in Rules
        PROVE  [rule EXCEPT !.active = cmd.active] \in Rules
    <2>1. cmd.active \in BOOLEAN
      BY <1>2 DEF CommandType
    <2> QED
      BY <2>1 DEF Rules
  <1>3. ASSUME cmd.op = "importLocalFilters" PROVE WithIds(cmd.batch, fresh) \in Seq(Rules)
    <2>1. cmd.batch \in Seq(Rules)
      BY <1>3 DEF CommandType
    <2> QED
      BY <2>1, WithIdsType
  <1> QED
    BY <1>1, <1>2, <1>3, UpdatedIn DEF Carries

(***************************************************************************)
(* Unless it imports, a command leaves no id twice in a list that held     *)
(* none twice.                                                             *)
(***************************************************************************)
Unique(rules) ==
    \A i, j \in DOMAIN rules : rules[i].id = rules[j].id => i = j

Below(rules, bound) == \A i \in DOMAIN rules : rules[i].id < bound

LEMMA ConcatAt ==
    ASSUME NEW S, NEW a \in Seq(S), NEW b \in Seq(S),
           NEW n, NEW m, Len(a) = n, Len(b) = m
    PROVE  /\ n \in Nat /\ m \in Nat
           /\ a \o b \in Seq(S)
           /\ Len(a \o b) = n + m
           /\ \A j \in 1 .. n : (a \o b)[j] = a[j]
           /\ \A j \in n + 1 .. n + m : (a \o b)[j] = b[j - n]
  <1>1. n \in Nat /\ m \in Nat
    BY LenProperties
  <1>2. /\ a \o b \in Seq(S)
        /\ Len(a \o b) = n + m
        /\ \A j \in 1 .. n + m : (a \o b)[j] = IF j <= n THEN a[j] ELSE b[j - n]
    BY ConcatProperties
  <1> DEFINE both == a \o b
  <1> HIDE DEF both
  <1>3. \A j \in 1 .. n : both[j] = a[j]
    BY <1>1, <1>2 DEF both
  <1>4. \A j \in n + 1 .. n + m : both[j] = b[j - n]
    BY <1>1, <1>2 DEF both
  <1> QED
    BY <1>1, <1>2, <1>3, <1>4 DEF both

LEMMA RemoveAtAt ==
    ASSUME NEW S, NEW s \in Seq(S), NEW i \in 1 .. Len(s)
    PROVE  /\ RemoveAt(s, i) \in Seq(S)
           /\ Len(RemoveAt(s, i)) = Len(s) - 1
           /\ \A j \in 1 .. Len(s) - 1 :
                 RemoveAt(s, i)[j] = IF j < i THEN s[j] ELSE s[j + 1]
  <1> DEFINE n == Len(s)
             left == SubSeq(s, 1, i - 1)
             right == SubSeq(s, i + 1, n)
  <1>1. n \in Nat /\ i \in 1 .. n /\ \A j \in 1 .. n : s[j] \in S
    BY LenProperties, ElementOfSeq
  <1> HIDE DEF n
  <1>2. /\ left \in Seq(S) /\ Len(left) = i - 1
        /\ \A j \in 1 .. i - 1 : left[j] = s[j]
    BY <1>1, SubSeqProperties
  <1>3. /\ right \in Seq(S) /\ Len(right) = n - i
        /\ \A j \in 1 .. n - i : right[j] = s[i + j]
    BY <1>1, SubSeqProperties
  <1> HIDE DEF left, right
  <1> DEFINE both == left \o right
             p == i - 1
             q == n - i
  <1> HIDE DEF p, q
  <1>4. /\ both \in Seq(S)
        /\ Len(both) = p + q
        /\ \A j \in 1 .. p : both[j] = left[j]
        /\ \A j \in p + 1 .. p + q : both[j] = right[j - p]
    <2>1. Len(left) = p /\ Len(right) = q
      BY <1>2, <1>3 DEF p, q
    <2> QED
      BY <1>2, <1>3, <2>1, ConcatAt
  <1> HIDE DEF both
  <1> USE DEF p, q
  <1>5. Len(both) = n - 1
    BY <1>1, <1>4
  <1>6. ASSUME NEW j \in 1 .. n - 1 PROVE both[j] = IF j < i THEN s[j] ELSE s[j + 1]
    <2>1. CASE j < i
      <3>1. j \in 1 .. i - 1
        BY <1>1, <2>1
      <3> QED
        BY <1>2, <1>4, <2>1, <3>1
    <2>2. CASE ~(j < i)
      <3>1. /\ j \in (i - 1) + 1 .. (i - 1) + (n - i)
            /\ j - (i - 1) \in 1 .. n - i /\ i + (j - (i - 1)) = j + 1
        BY <1>1, <2>2
      <3> QED
        BY <1>3, <1>4, <2>2, <3>1
    <2> QED
      BY <2>1, <2>2
  <1> QED
    BY <1>4, <1>5, <1>6 DEF RemoveAt, both, left, right, n

LEMMA InsertAtAt ==
    ASSUME NEW S, NEW s \in Seq(S), NEW i \in 1 .. Len(s) + 1, NEW e \in S
    PROVE  /\ InsertAt(s, i, e) \in Seq(S)
           /\ Len(InsertAt(s, i, e)) = Len(s) + 1
           /\ \A j \in 1 .. i - 1 : InsertAt(s, i, e)[j] = s[j]
           /\ InsertAt(s, i, e)[i] = e
           /\ \A j \in i + 1 .. Len(s) + 1 : InsertAt(s, i, e)[j] = s[j - 1]
  <1> DEFINE n == Len(s)
             left == SubSeq(s, 1, i - 1)
             middle == <<e>>
             right == SubSeq(s, i, n)
  <1>1. n \in Nat /\ i \in 1 .. n + 1 /\ \A j \in 1 .. n : s[j] \in S
    BY LenProperties, ElementOfSeq
  <1> HIDE DEF n
  <1>2. /\ left \in Seq(S) /\ Len(left) = i - 1
        /\ \A j \in 1 .. i - 1 : left[j] = s[j]
    BY <1>1, SubSeqProperties
  <1>3. /\ right \in Seq(S) /\ Len(right) = n - i + 1
        /\ \A j \in 1 .. n - i + 1 : right[j] = s[i + j - 1]
    BY <1>1, SubSeqProperties
  <1>4. middle \in Seq(S) /\ Len(middle) = 1 /\ middle[1] = e
    OBVIOUS
  <1> HIDE DEF left, middle, right
  <1> DEFINE front == left \o middle
             all == front \o right
  <1> DEFINE p == i - 1
             q == n - i + 1
             one == 1
  <1> HIDE DEF p, q, one
  <1>5. /\ front \in Seq(S)
        /\ Len(front) = p + one
        /\ \A j \in 1 .. p : front[j] = left[j]
        /\ \A j \in p + 1 .. p + one : front[j] = middle[j - p]
    <2>1. left \in Seq(S) /\ Len(left) = p
      BY <1>2 DEF p
    <2>2. middle \in Seq(S) /\ Len(middle) = one
      BY <1>4 DEF one
    <2> QED
      BY <2>1, <2>2, ConcatAt, SMTT(60)
  <1> HIDE DEF front
  <1> USE DEF p, q, one
  <1>6. Len(front) = i /\ front[i] = e
    <2>1. (i - 1) + 1 = i /\ i - (i - 1) = 1 /\ i \in (i - 1) + 1 .. (i - 1) + 1
      BY <1>1
    <2> QED
      BY <1>4, <1>5, <2>1
  <1> HIDE DEF p, q
  <1>7. /\ all \in Seq(S)
        /\ Len(all) = i + q
        /\ \A j \in 1 .. i : all[j] = front[j]
        /\ \A j \in i + 1 .. i + q : all[j] = right[j - i]
    <2>1. Len(right) = q
      BY <1>3 DEF q
    <2> QED
      BY <1>3, <1>5, <1>6, <2>1, ConcatAt
  <1> HIDE DEF all
  <1> USE DEF p, q
  <1>8. Len(all) = n + 1
    BY <1>1, <1>7
  <1>9. ASSUME NEW j \in 1 .. i - 1 PROVE all[j] = s[j]
    <2>1. j \in 1 .. p /\ j \in 1 .. i
      BY <1>1
    <2> QED
      BY <1>2, <1>5, <1>7, <2>1
  <1>10. all[i] = e
    <2>1. i \in 1 .. i
      BY <1>1
    <2> QED
      BY <1>6, <1>7, <2>1
  <1>11. ASSUME NEW j \in i + 1 .. n + 1 PROVE all[j] = s[j - 1]
    <2>1. j \in i + 1 .. i + q /\ j - i \in 1 .. n - i + 1 /\ i + (j - i) - 1 = j - 1
      BY <1>1
    <2> QED
      BY <1>3, <1>7, <2>1
  <1> QED
    BY <1>7, <1>8, <1>9, <1>10, <1>11 DEF InsertAt, all, left, middle, right, front, n

LEMMA AddedUnique ==
    ASSUME NEW rules \in Seq(Rules), Unique(rules), NEW rule \in Rules, ~Holds(rules, rule.id),
           NEW order
    PROVE  Unique(Added(rules, rule, order))
  <1> DEFINE n == Len(rules)
  <1>1. n \in Nat /\ DOMAIN rules = 1 .. n
    BY LenProperties
  <1>2. <<rule>> \in Seq(Rules) /\ Len(<<rule>>) = 1 /\ <<rule>>[1] = rule
    OBVIOUS
  <1> DEFINE new == <<rule>>
  <1> HIDE DEF n, new
  <1>3. /\ DOMAIN (new \o rules) = 1 .. n + 1
        /\ \A j \in 1 .. n + 1 : (new \o rules)[j] = IF j = 1 THEN rule ELSE rules[j - 1]
    BY <1>1, <1>2, ConcatProperties, LenProperties DEF n, new
  <1>4. /\ DOMAIN (rules \o new) = 1 .. n + 1
        /\ \A j \in 1 .. n + 1 : (rules \o new)[j] = IF j = n + 1 THEN rule ELSE rules[j]
    BY <1>1, <1>2, ConcatProperties, LenProperties DEF n, new
  <1>5. \A i \in 1 .. n : rules[i].id # rule.id
    BY <1>1 DEF Holds
  <1>6. \A i, j \in 1 .. n : rules[i].id = rules[j].id => i = j
    BY <1>1 DEF Unique
  <1>7. Unique(new \o rules)
    BY <1>1, <1>3, <1>5, <1>6 DEF Unique
  <1>8. Unique(rules \o new)
    BY <1>1, <1>4, <1>5, <1>6 DEF Unique
  <1> QED
    BY <1>7, <1>8 DEF Added, new

LEMMA EditedUnique ==
    ASSUME NEW rules \in Seq(Rules), Unique(rules), NEW rule \in Rules, Holds(rules, rule.id),
           NEW order \in Int \cup {NoOrder}
    PROVE  Unique(Edited(rules, rule, order))
  <1> DEFINE n == Len(rules)
             i == IndexOf(rules, rule.id)
             others == RemoveAt(rules, i)
  <1>1. n \in Nat /\ DOMAIN rules = 1 .. n /\ i \in 1 .. n /\ rules[i].id = rule.id
    BY LenProperties, IndexOfHeld
  <1> HIDE DEF i
  <1>2. /\ others \in Seq(Rules) /\ Len(others) = n - 1
        /\ \A j \in 1 .. n - 1 : others[j] = IF j < i THEN rules[j] ELSE rules[j + 1]
    BY <1>1, RemoveAtAt
  <1>3. \A j \in 1 .. n : \A k \in 1 .. n : rules[j].id = rules[k].id => j = k
    BY <1>1 DEF Unique
  <1> HIDE DEF n, others
  <1>4. \A j \in 1 .. n - 1 : others[j].id # rule.id
    <2> SUFFICES ASSUME NEW j \in 1 .. n - 1 PROVE others[j].id # rule.id
      OBVIOUS
    <2>1. CASE j < i
      BY <1>1, <1>2, <1>3, <2>1
    <2>2. CASE ~(j < i)
      <3>1. j + 1 \in 1 .. n /\ j + 1 # i /\ others[j] = rules[j + 1]
        BY <1>1, <1>2, <2>2
      <3> QED
        BY <1>1, <1>3, <3>1
    <2> QED
      BY <2>1, <2>2
  <1>5. \A j, k \in 1 .. n - 1 : others[j].id = others[k].id => j = k
    <2> SUFFICES ASSUME NEW j \in 1 .. n - 1, NEW k \in 1 .. n - 1, others[j].id = others[k].id
                 PROVE  j = k
      OBVIOUS
    <2> DEFINE a == IF j < i THEN j ELSE j + 1
               b == IF k < i THEN k ELSE k + 1
    <2>1. a \in 1 .. n /\ b \in 1 .. n /\ others[j] = rules[a] /\ others[k] = rules[b]
      BY <1>1, <1>2
    <2>2. a = b => j = k
      BY <1>1
    <2> HIDE DEF a, b
    <2> QED
      BY <1>3, <2>1, <2>2
  <1>6. Unique(ReplaceAt(rules, i, rule))
    <2>1. /\ DOMAIN ReplaceAt(rules, i, rule) = 1 .. n
          /\ \A j \in 1 .. n : ReplaceAt(rules, i, rule)[j] = IF j = i THEN rule ELSE rules[j]
      BY <1>1 DEF ReplaceAt
    <2>2. \A j \in 1 .. n : ReplaceAt(rules, i, rule)[j].id = rules[j].id
      BY <1>1, <2>1
    <2> QED
      BY <1>3, <2>1, <2>2 DEF Unique
  <1>7. ASSUME order # NoOrder
        PROVE  Unique(InsertAt(others, 1 + Clamp(order, 0, Len(others)), rule))
    <2> DEFINE at == 1 + Clamp(order, 0, Len(others))
               new == InsertAt(others, at, rule)
    <2>1. at \in 1 .. Len(others) + 1
      BY <1>1, <1>2, <1>7 DEF Clamp
    <2> HIDE DEF at
    <2>2. /\ new \in Seq(Rules) /\ Len(new) = n
          /\ \A j \in 1 .. n : new[j] =
                IF j < at THEN others[j] ELSE IF j = at THEN rule ELSE others[j - 1]
      <3>1. Len(others) + 1 = n
        BY <1>1, <1>2
      <3>0. others \in Seq(Rules)
        BY <1>2
      <3>2. /\ new \in Seq(Rules) /\ Len(new) = Len(others) + 1
            /\ \A j \in 1 .. at - 1 : new[j] = others[j]
            /\ new[at] = rule
            /\ \A j \in at + 1 .. Len(others) + 1 : new[j] = others[j - 1]
        BY <2>1, <3>0, InsertAtAt, SMTT(90)
      <3> HIDE DEF new
      <3>4. ASSUME NEW j \in 1 .. n
            PROVE  new[j] = IF j < at THEN others[j] ELSE IF j = at THEN rule ELSE others[j - 1]
        <4>0. at \in Int
          BY <1>1, <2>1, <3>1
        <4>1. CASE j < at
          <5>1. j \in 1 .. at - 1
            BY <4>0, <4>1
          <5> QED
            BY <3>2, <4>1, <5>1
        <4>2. CASE j = at
          <5>1. ~(j < at)
            BY <4>0, <4>2
          <5> QED
            BY <3>2, <4>2, <5>1
        <4>3. CASE j > at
          <5>1. j \in at + 1 .. Len(others) + 1 /\ ~(j < at) /\ j # at
            BY <3>1, <4>0, <4>3
          <5> QED
            BY <3>2, <5>1
        <4> QED
          BY <4>0, <4>1, <4>2, <4>3
      <3> QED
        BY <3>1, <3>2, <3>4
    <2>3. DOMAIN new = 1 .. n
      BY <2>2, LenProperties
    <2> HIDE DEF new
    <2>4. at \in 1 .. n
      BY <1>1, <1>2, <2>1
    <2>5. \A j \in 1 .. n : j # at => new[j].id # rule.id
      BY <1>1, <1>4, <2>2, <2>4
    <2>6. ASSUME NEW j \in 1 .. n, NEW k \in 1 .. n, new[j].id = new[k].id PROVE j = k
      <3>1. CASE j = at \/ k = at
        BY <2>2, <2>5, <2>6, <3>1
      <3>2. CASE j # at /\ k # at
        <4> DEFINE a == IF j < at THEN j ELSE j - 1
                   b == IF k < at THEN k ELSE k - 1
        <4>1. a \in 1 .. n - 1 /\ b \in 1 .. n - 1 /\ new[j] = others[a] /\ new[k] = others[b]
          BY <1>1, <2>2, <2>4, <3>2
        <4>2. a = b => j = k
          BY <2>4, <3>2
        <4> HIDE DEF a, b
        <4> QED
          BY <1>5, <2>6, <4>1, <4>2
      <3> QED
        BY <3>1, <3>2
    <2> QED
      BY <2>3, <2>6 DEF Unique, new, at
  <1> QED
    BY <1>6, <1>7 DEF Edited, i, others

LEMMA RemovedUnique ==
    ASSUME NEW rules \in Seq(Rules), Unique(rules), NEW id
    PROVE  Unique(Removed(rules, id))
  <1> DEFINE P == {i \in DOMAIN rules : rules[i].id # id}
             Nth(k) == CHOOSE i \in P : Cardinality({j \in P : j <= i}) = k
             picked == [k \in 1 .. Cardinality(P) |-> rules[Nth(k)]]
  <1>1. DOMAIN rules = 1 .. Len(rules) /\ Len(rules) \in Nat /\ P \in SUBSET (DOMAIN rules)
    BY LenProperties
  <1>2. Removed(rules, id) = picked
    BY DEF Removed, AtPositions
  <1> HIDE DEF P
  <1>3. ASSUME NEW k \in 1 .. Cardinality(P)
        PROVE  Nth(k) \in P /\ Cardinality({j \in P : j <= Nth(k)}) = k
    <2>1. \E i \in P : Cardinality({j \in P : j <= i}) = k
      BY <1>1, NthExists, ZenonT(60)
    <2> QED
      BY <2>1
  <1> HIDE DEF Nth
  <1>4. ASSUME NEW k \in 1 .. Cardinality(P), NEW l \in 1 .. Cardinality(P),
               rules[Nth(k)].id = rules[Nth(l)].id
        PROVE  k = l
    <2>1. Nth(k) \in DOMAIN rules /\ Nth(l) \in DOMAIN rules
      BY <1>1, <1>3
    <2>2. Nth(k) = Nth(l)
      BY <1>4, <2>1 DEF Unique
    <2> QED
      BY <1>3, <2>2
  <1> QED
    BY <1>2, <1>4 DEF Unique

LEMMA SwitchedUnique ==
    ASSUME NEW rules \in Seq(Rules), Unique(rules), NEW id, NEW active
    PROVE  Unique(Switched(rules, id, active))
  <1>1. ASSUME NEW rule \in Rules PROVE [rule EXCEPT !.active = active].id = rule.id
    BY DEF Rules
  <1>2. DOMAIN rules = 1 .. Len(rules)
    BY LenProperties
  <1>3. DOMAIN Switched(rules, id, active) = DOMAIN rules
    BY DEF Switched
  <1>4. \A i \in DOMAIN rules : Switched(rules, id, active)[i].id = rules[i].id
    BY <1>1, <1>2, ElementOfSeq DEF Switched
  <1> QED
    BY <1>3, <1>4 DEF Unique

LEMMA UpdatedUnique ==
    ASSUME NEW rules \in Seq(Rules), Unique(rules), NEW cmd \in CommandType,
           NEW fresh \in Nat, Below(rules, fresh),
           ~Rejected(cmd), NeedsWrite(cmd, rules), cmd.op # "importLocalFilters"
    PROVE  Unique(Updated(cmd, rules, fresh))
  <1>1. CASE cmd.op = "saveRule"
    <2> DEFINE id == IF cmd.id = NoId THEN fresh ELSE cmd.id
               rule == Stored(id, cmd.draft)
    <2>1. /\ cmd.id \in Nat /\ cmd.draft \in Drafts /\ cmd.draft.name # NoName
          /\ cmd.order \in Int \cup {NoOrder}
      BY <1>1 DEF CommandType, Rejected
    <2>2. rule \in Rules /\ rule.id = id
      BY <2>1 DEF Stored, Rules, Drafts
    <2> HIDE DEF rule
    <2>3. CASE cmd.id # NoId /\ Holds(rules, cmd.id)
      <3>1. Unique(Edited(rules, rule, cmd.order))
        BY <2>1, <2>2, <2>3, EditedUnique
      <3> QED
        BY <1>1, <2>3, <3>1 DEF Updated, Saved, rule
    <2>4. CASE ~(cmd.id # NoId /\ Holds(rules, cmd.id))
      <3>1. ~Holds(rules, fresh)
        <4>1. ASSUME NEW i \in DOMAIN rules PROVE rules[i].id # fresh
          BY DEF Below
        <4> QED
          BY <4>1 DEF Holds
      <3>2. ~Holds(rules, rule.id)
        BY <2>2, <2>4, <3>1
      <3>3. Unique(Added(rules, rule, cmd.order))
        BY <2>2, <3>2, AddedUnique
      <3> QED
        BY <1>1, <2>4, <3>3 DEF Updated, Saved, rule
    <2> QED
      BY <2>3, <2>4
  <1>2. CASE cmd.op = "deleteRule"
    BY <1>2, RemovedUnique DEF Updated
  <1>3. CASE cmd.op = "setRuleActive"
    BY <1>3, SwitchedUnique DEF Updated
  <1> QED
    BY <1>1, <1>2, <1>3 DEF NeedsWrite

LEMMA MintedType ==
    ASSUME NEW cmd \in CommandType
    PROVE  Minted(cmd) \in Nat
  <1>1. CASE cmd.op = "importLocalFilters"
    <2>1. cmd.batch \in Seq(Rules)
      BY <1>1 DEF CommandType
    <2> QED
      BY <1>1, <2>1, LenProperties DEF Minted
  <1>2. CASE cmd.op # "importLocalFilters"
    BY <1>2 DEF Minted
  <1> QED
    BY <1>1, <1>2

\* The command a page sends is a command again.
LEMMA StampedType ==
    ASSUME NEW cmd \in CommandType, NEW fresh \in Nat
    PROVE  Stamped(cmd, fresh) \in CommandType
  <1>1. CASE cmd.op = "saveRule"
    <2>1. cmd \in [op : {"saveRule"}, id : Nat, draft : Drafts, order : Int \cup {NoOrder}]
      BY <1>1 DEF CommandType
    <2>2. [cmd EXCEPT !.id = fresh] \in
            [op : {"saveRule"}, id : Nat, draft : Drafts, order : Int \cup {NoOrder}]
      BY <2>1
    <2>3. Stamped(cmd, fresh) \in {cmd, [cmd EXCEPT !.id = fresh]}
      BY <1>1 DEF Stamped
    <2> QED
      BY <2>2, <2>3 DEF CommandType
  <1>2. CASE cmd.op = "importLocalFilters"
    <2>1. cmd \in [op : {"importLocalFilters"}, batch : Seq(Rules), top : BOOLEAN]
      BY <1>2 DEF CommandType
    <2>2. WithIds(cmd.batch, fresh) \in Seq(Rules)
      BY <2>1, WithIdsType
    <2>3. [cmd EXCEPT !.batch = WithIds(@, fresh)] \in
            [op : {"importLocalFilters"}, batch : Seq(Rules), top : BOOLEAN]
      BY <2>1, <2>2
    <2>4. Stamped(cmd, fresh) = [cmd EXCEPT !.batch = WithIds(@, fresh)]
      BY <1>2 DEF Stamped
    <2> QED
      BY <2>3, <2>4 DEF CommandType
  <1>3. CASE cmd.op \notin {"saveRule", "importLocalFilters"}
    BY <1>3 DEF Stamped
  <1> QED
    BY <1>1, <1>2, <1>3

(***************************************************************************)
(* Which rules a command leaves, order aside.                              *)
(***************************************************************************)
LEMMA ElementsOf ==
    ASSUME NEW S, NEW s \in Seq(S)
    PROVE  /\ Len(s) \in Nat /\ DOMAIN s = 1 .. Len(s)
           /\ \A i \in 1 .. Len(s) : s[i] \in S /\ s[i] \in ToSet(s)
           /\ \A x \in ToSet(s) : x \in S /\ \E i \in 1 .. Len(s) : x = s[i]
  <1>1. Len(s) \in Nat /\ DOMAIN s = 1 .. Len(s)
    BY LenProperties
  <1>2. \A i \in 1 .. Len(s) : s[i] \in S
    BY ElementOfSeq
  <1> QED
    BY <1>1, <1>2 DEF ToSet

LEMMA RemoveAtElements ==
    ASSUME NEW S, NEW s \in Seq(S), NEW i \in 1 .. Len(s)
    PROVE  ToSet(RemoveAt(s, i)) = {s[j] : j \in (1 .. Len(s)) \ {i}}
  <1> DEFINE n == Len(s)
             t == RemoveAt(s, i)
  <1>1. n \in Nat /\ i \in 1 .. n
    BY LenProperties
  <1>2. /\ t \in Seq(S) /\ Len(t) = n - 1
        /\ \A j \in 1 .. n - 1 : t[j] = IF j < i THEN s[j] ELSE s[j + 1]
    BY RemoveAtAt
  <1> HIDE DEF n, t
  <1>3. DOMAIN t = 1 .. n - 1
    BY <1>2, LenProperties
  <1>4. ASSUME NEW x \in ToSet(t) PROVE x \in {s[j] : j \in (1 .. n) \ {i}}
    <2>1. PICK j \in 1 .. n - 1 : x = t[j]
      BY <1>3 DEF ToSet
    <2>2. CASE j < i
      <3>1. j \in (1 .. n) \ {i} /\ x = s[j]
        BY <1>1, <1>2, <2>1, <2>2
      <3> QED
        BY <3>1
    <2>3. CASE ~(j < i)
      <3>1. j + 1 \in (1 .. n) \ {i} /\ x = s[j + 1]
        BY <1>1, <1>2, <2>1, <2>3
      <3> QED
        BY <3>1
    <2> QED
      BY <2>2, <2>3
  <1>5. ASSUME NEW j \in (1 .. n) \ {i} PROVE s[j] \in ToSet(t)
    <2>1. CASE j < i
      <3>1. j \in 1 .. n - 1 /\ t[j] = s[j]
        BY <1>1, <1>2, <2>1
      <3> QED
        BY <1>3, <3>1 DEF ToSet
    <2>2. CASE ~(j < i)
      <3>1. j - 1 \in 1 .. n - 1 /\ ~(j - 1 < i) /\ (j - 1) + 1 = j
        BY <1>1, <2>2
      <3>2. t[j - 1] = s[j]
        BY <1>2, <3>1
      <3> QED
        BY <1>3, <3>1, <3>2 DEF ToSet
    <2> QED
      BY <2>1, <2>2
  <1> QED
    BY <1>4, <1>5 DEF n, t

LEMMA InsertAtElements ==
    ASSUME NEW S, NEW s \in Seq(S), NEW i \in 1 .. Len(s) + 1, NEW e \in S
    PROVE  ToSet(InsertAt(s, i, e)) = ToSet(s) \cup {e}
  <1> DEFINE n == Len(s)
             t == InsertAt(s, i, e)
  <1>1. n \in Nat /\ i \in 1 .. n + 1 /\ DOMAIN s = 1 .. n
    BY LenProperties
  <1>2. /\ t \in Seq(S) /\ Len(t) = n + 1
        /\ \A j \in 1 .. i - 1 : t[j] = s[j]
        /\ t[i] = e
        /\ \A j \in i + 1 .. n + 1 : t[j] = s[j - 1]
    BY InsertAtAt, SMTT(90)
  <1> HIDE DEF n, t
  <1>3. DOMAIN t = 1 .. n + 1
    BY <1>2, LenProperties
  <1>4. ASSUME NEW x \in ToSet(t) PROVE x \in ToSet(s) \cup {e}
    <2>1. PICK j \in 1 .. n + 1 : x = t[j]
      BY <1>3 DEF ToSet
    <2>2. CASE j < i
      <3>1. j \in 1 .. i - 1 /\ j \in 1 .. n
        BY <1>1, <2>2
      <3>2. x = s[j]
        BY <1>2, <2>1, <3>1
      <3> QED
        BY <1>1, <3>1, <3>2 DEF ToSet
    <2>3. CASE j = i
      BY <1>2, <2>1, <2>3
    <2>4. CASE j > i
      <3>1. j \in i + 1 .. n + 1 /\ j - 1 \in 1 .. n
        BY <1>1, <2>4
      <3>2. x = s[j - 1]
        BY <1>2, <2>1, <3>1
      <3> QED
        BY <1>1, <3>1, <3>2 DEF ToSet
    <2> QED
      BY <1>1, <2>2, <2>3, <2>4
  <1>5. e \in ToSet(t)
    BY <1>1, <1>2, <1>3 DEF ToSet
  <1>6. ASSUME NEW x \in ToSet(s) PROVE x \in ToSet(t)
    <2>1. PICK j \in 1 .. n : x = s[j]
      BY <1>1 DEF ToSet
    <2>2. CASE j < i
      <3>1. j \in 1 .. i - 1 /\ j \in 1 .. n + 1
        BY <1>1, <2>2
      <3>2. x = t[j]
        BY <1>2, <2>1, <3>1
      <3> QED
        BY <1>3, <3>1, <3>2 DEF ToSet
    <2>3. CASE ~(j < i)
      <3>1. j + 1 \in i + 1 .. n + 1 /\ j + 1 \in 1 .. n + 1 /\ (j + 1) - 1 = j
        BY <1>1, <2>3
      <3>2. x = t[j + 1]
        BY <1>2, <2>1, <3>1
      <3> QED
        BY <1>3, <3>1, <3>2 DEF ToSet
    <2> QED
      BY <2>2, <2>3
  <1> QED
    BY <1>4, <1>5, <1>6 DEF n, t

\* The rules with another id.
Others(rules, id) == {rule \in ToSet(rules) : rule.id # id}

LEMMA EditedElements ==
    ASSUME NEW rules \in Seq(Rules), Unique(rules), NEW rule \in Rules, Holds(rules, rule.id),
           NEW order \in Int \cup {NoOrder}
    PROVE  ToSet(Edited(rules, rule, order)) = Others(rules, rule.id) \cup {rule}
  <1> DEFINE n == Len(rules)
             i == IndexOf(rules, rule.id)
             others == RemoveAt(rules, i)
  <1>1. n \in Nat /\ DOMAIN rules = 1 .. n /\ i \in 1 .. n /\ rules[i].id = rule.id
    BY LenProperties, IndexOfHeld
  <1> HIDE DEF i
  <1>2. others \in Seq(Rules) /\ Len(others) = n - 1
    BY <1>1, RemoveAtAt
  <1>3. ToSet(others) = {rules[j] : j \in (1 .. n) \ {i}}
    BY <1>1, RemoveAtElements
  <1> HIDE DEF n, others
  <1>4. Others(rules, rule.id) = {rules[j] : j \in (1 .. n) \ {i}}
    BY <1>1 DEF Others, ToSet, Unique
  <1>5. ASSUME order # NoOrder
        PROVE  ToSet(InsertAt(others, 1 + Clamp(order, 0, Len(others)), rule))
                 = Others(rules, rule.id) \cup {rule}
    <2> DEFINE at == 1 + Clamp(order, 0, Len(others))
    <2>1. at \in 1 .. Len(others) + 1
      BY <1>1, <1>2, <1>5 DEF Clamp
    <2> HIDE DEF at
    <2>2. ToSet(InsertAt(others, at, rule)) = ToSet(others) \cup {rule}
      BY <1>2, <2>1, InsertAtElements
    <2> QED
      BY <1>3, <1>4, <2>2 DEF at
  <1>6. ToSet(ReplaceAt(rules, i, rule)) = Others(rules, rule.id) \cup {rule}
    <2> DEFINE t == ReplaceAt(rules, i, rule)
    <2>1. /\ DOMAIN t = 1 .. n
          /\ \A j \in 1 .. n : t[j] = IF j = i THEN rule ELSE rules[j]
      BY <1>1 DEF ReplaceAt
    <2> HIDE DEF t
    <2>2. ToSet(t) = {rules[j] : j \in (1 .. n) \ {i}} \cup {rule}
      BY <1>1, <2>1 DEF ToSet
    <2> QED
      BY <1>4, <2>2 DEF t
  <1> QED
    BY <1>5, <1>6 DEF Edited, i, others

LEMMA AddedElements ==
    ASSUME NEW rules \in Seq(Rules), NEW rule \in Rules, NEW order
    PROVE  ToSet(Added(rules, rule, order)) = ToSet(rules) \cup {rule}
  <1> DEFINE n == Len(rules)
             new == <<rule>>
  <1>1. n \in Nat /\ DOMAIN rules = 1 .. n
    BY LenProperties
  <1>2. new \in Seq(Rules) /\ Len(new) = 1 /\ new[1] = rule
    OBVIOUS
  <1> HIDE DEF n, new
  <1>3. /\ DOMAIN (new \o rules) = 1 .. n + 1
        /\ \A j \in 1 .. n + 1 : (new \o rules)[j] = IF j = 1 THEN rule ELSE rules[j - 1]
    BY <1>1, <1>2, ConcatProperties, LenProperties DEF n, new
  <1>4. /\ DOMAIN (rules \o new) = 1 .. n + 1
        /\ \A j \in 1 .. n + 1 : (rules \o new)[j] = IF j = n + 1 THEN rule ELSE rules[j]
    BY <1>1, <1>2, ConcatProperties, LenProperties DEF n, new
  <1> DEFINE left == new \o rules
             right == rules \o new
  <1>5. ToSet(left) = ToSet(rules) \cup {rule}
    <2> HIDE DEF left
    <2>1. \A j \in 1 .. n : j + 1 \in 1 .. n + 1 /\ j + 1 # 1 /\ (j + 1) - 1 = j
      BY <1>1
    <2>2. \A j \in 1 .. n + 1 : j # 1 => j - 1 \in 1 .. n
      BY <1>1
    <2>3. \A j \in 1 .. n : left[j + 1] = rules[j]
      BY <1>3, <2>1 DEF left
    <2>4. 1 \in 1 .. n + 1 /\ left[1] = rule
      BY <1>1, <1>3 DEF left
    <2>5. DOMAIN left = 1 .. n + 1 /\ \A j \in 1 .. n + 1 : left[j] = IF j = 1 THEN rule ELSE rules[j - 1]
      BY <1>3 DEF left
    <2>6. ASSUME NEW x \in ToSet(left) PROVE x \in ToSet(rules) \cup {rule}
      <3>1. PICK j \in 1 .. n + 1 : x = left[j]
        BY <2>5 DEF ToSet
      <3>2. CASE j = 1
        BY <2>4, <3>1, <3>2
      <3>3. CASE j # 1
        <4>1. j - 1 \in 1 .. n /\ x = rules[j - 1]
          BY <2>2, <2>5, <3>1, <3>3
        <4> QED
          BY <1>1, <4>1 DEF ToSet
      <3> QED
        BY <3>2, <3>3
    <2>7. ASSUME NEW x \in ToSet(rules) PROVE x \in ToSet(left)
      <3>1. PICK j \in 1 .. n : x = rules[j]
        BY <1>1 DEF ToSet
      <3>2. j + 1 \in 1 .. n + 1 /\ x = left[j + 1]
        BY <2>1, <2>3, <3>1
      <3> QED
        BY <2>5, <3>2 DEF ToSet
    <2>8. rule \in ToSet(left)
      BY <2>4, <2>5 DEF ToSet
    <2> QED
      BY <2>6, <2>7, <2>8
  <1>6. ToSet(right) = ToSet(rules) \cup {rule}
    <2> HIDE DEF right
    <2>1. \A j \in 1 .. n : j \in 1 .. n + 1 /\ j # n + 1
      BY <1>1
    <2>2. \A j \in 1 .. n + 1 : j # n + 1 => j \in 1 .. n
      BY <1>1
    <2>3. n + 1 \in 1 .. n + 1
      BY <1>1
    <2>4. DOMAIN right = 1 .. n + 1 /\ \A j \in 1 .. n + 1 : right[j] = IF j = n + 1 THEN rule ELSE rules[j]
      BY <1>4 DEF right
    <2> QED
      BY <1>1, <2>1, <2>2, <2>3, <2>4 DEF ToSet
  <1> QED
    BY <1>5, <1>6 DEF Added, new

\* A save with an id leaves the rule as it was sent, and the others as they were.
LEMMA SavedElements ==
    ASSUME NEW rules \in Seq(Rules), Unique(rules), NEW cmd, NEW fresh,
           cmd.id # NoId, Stored(cmd.id, cmd.draft) \in Rules, cmd.order \in Int \cup {NoOrder}
    PROVE  /\ Saved(rules, cmd, fresh) \in Seq(Rules)
           /\ Unique(Saved(rules, cmd, fresh))
           /\ ToSet(Saved(rules, cmd, fresh))
                = Others(rules, cmd.id) \cup {Stored(cmd.id, cmd.draft)}
  <1> DEFINE rule == Stored(cmd.id, cmd.draft)
  <1>1. rule \in Rules /\ rule.id = cmd.id
    BY DEF Stored
  <1> HIDE DEF rule
  <1>2. CASE Holds(rules, cmd.id)
    <2>1. Saved(rules, cmd, fresh) = Edited(rules, rule, cmd.order)
      BY <1>2 DEF Saved, rule
    <2>2. Holds(rules, rule.id)
      BY <1>1, <1>2
    <2>3. Edited(rules, rule, cmd.order) \in Seq(Rules)
      BY <1>1, <2>2, EditedIn
    <2>4. Unique(Edited(rules, rule, cmd.order))
      BY <1>1, <2>2, EditedUnique
    <2>5. ToSet(Edited(rules, rule, cmd.order)) = Others(rules, rule.id) \cup {rule}
      BY <1>1, <2>2, EditedElements
    <2> QED
      BY <1>1, <2>1, <2>3, <2>4, <2>5 DEF rule
  <1>3. CASE ~Holds(rules, cmd.id)
    <2>1. Saved(rules, cmd, fresh) = Added(rules, rule, cmd.order)
      BY <1>3 DEF Saved, rule
    <2>2. Others(rules, cmd.id) = ToSet(rules)
      BY <1>3 DEF Others, ToSet, Holds
    <2>3. ~Holds(rules, rule.id)
      BY <1>1, <1>3
    <2>4. Added(rules, rule, cmd.order) \in Seq(Rules)
      BY <1>1, AddedIn
    <2>5. Unique(Added(rules, rule, cmd.order))
      BY <1>1, <2>3, AddedUnique
    <2>6. ToSet(Added(rules, rule, cmd.order)) = ToSet(rules) \cup {rule}
      BY <1>1, AddedElements
    <2> QED
      BY <2>1, <2>2, <2>4, <2>5, <2>6 DEF rule
  <1> QED
    BY <1>2, <1>3

\* Positions are counted in their order: each is the Nth of one number.
Nth(P, k) == CHOOSE i \in P : Cardinality({j \in P : j <= i}) = k

LEMMA AtPositionsAt ==
    ASSUME NEW rules, NEW P
    PROVE  AtPositions(rules, P) = [k \in 1 .. Cardinality(P) |-> rules[Nth(P, k)]]
  BY DEF AtPositions, Nth

LEMMA NthIs ==
    ASSUME NEW n \in Nat, NEW P \in SUBSET (1 .. n)
    PROVE  /\ IsFiniteSet(P) /\ Cardinality(P) \in Nat
           /\ \A k \in 1 .. Cardinality(P) : Nth(P, k) \in P
           /\ \A k, l \in 1 .. Cardinality(P) : Nth(P, k) = Nth(P, l) => k = l
           /\ \A i \in P : \E k \in 1 .. Cardinality(P) : Nth(P, k) = i
  <1> DEFINE UpTo(i) == {j \in P : j <= i}
             c == Cardinality(P)
  <1>0. \A j \in P : j \in 1 .. n /\ j \in Nat
    OBVIOUS
  <1>1. IsFiniteSet(P) /\ Cardinality(P) \in Nat
    <2>1. IsFiniteSet(1 .. n)
      BY FS_Interval
    <2>2. IsFiniteSet(P)
      BY <2>1, FS_Subset
    <2> QED
      BY <2>2, FS_CardinalityType
  <1>2. ASSUME NEW k \in 1 .. c PROVE Nth(P, k) \in P /\ Cardinality(UpTo(Nth(P, k))) = k
    <2>1. \E i \in P : Cardinality({j \in P : j <= i}) = k
      BY NthExists
    <2> QED
      BY <2>1 DEF Nth
  <1>3. ASSUME NEW a \in P, NEW b \in P, a < b
        PROVE  Cardinality(UpTo(a)) < Cardinality(UpTo(b))
    <2>0. \A j \in P : j <= a => j <= b
      BY <1>0, <1>3
    <2>1. UpTo(a) \in SUBSET UpTo(b) /\ UpTo(b) \in SUBSET P
      BY <2>0
    <2>2. b \in UpTo(b) /\ b \notin UpTo(a)
      BY <1>0, <1>3
    <2> HIDE DEF UpTo
    <2>3. IsFiniteSet(UpTo(b))
      BY <1>1, <2>1, FS_Subset
    <2>4. IsFiniteSet(UpTo(a)) /\ Cardinality(UpTo(a)) <= Cardinality(UpTo(b))
          /\ Cardinality(UpTo(a)) # Cardinality(UpTo(b))
      BY <2>1, <2>2, <2>3, FS_Subset
    <2>5. Cardinality(UpTo(a)) \in Nat /\ Cardinality(UpTo(b)) \in Nat
      BY <2>3, <2>4, FS_CardinalityType
    <2> QED
      BY <2>4, <2>5
  <1>4. ASSUME NEW i \in P PROVE Cardinality(UpTo(i)) \in 1 .. c
    <2>1. UpTo(i) \in SUBSET P /\ i \in UpTo(i)
      BY <1>0
    <2> HIDE DEF UpTo
    <2>2. IsFiniteSet(UpTo(i)) /\ Cardinality(UpTo(i)) <= c /\ UpTo(i) # {}
      BY <1>1, <2>1, FS_Subset
    <2>3. Cardinality(UpTo(i)) \in Nat /\ Cardinality(UpTo(i)) # 0
      BY <2>2, FS_CardinalityType, FS_EmptySet
    <2> QED
      BY <1>1, <2>2, <2>3
  <1> HIDE DEF UpTo, c
  <1>5. ASSUME NEW i \in P PROVE \E k \in 1 .. c : Nth(P, k) = i
    <2> DEFINE k == Cardinality(UpTo(i))
    <2>1. k \in 1 .. c
      BY <1>4
    <2>2. Nth(P, k) \in P /\ Cardinality(UpTo(Nth(P, k))) = k
      BY <1>2, <2>1
    <2> DEFINE m == Nth(P, k)
    <2> HIDE DEF m
    <2>3. m \in P /\ Cardinality(UpTo(m)) = Cardinality(UpTo(i))
      BY <2>2 DEF m
    <2>4. ~(m < i) /\ ~(i < m)
      <3>1. Cardinality(UpTo(m)) \in Nat
        BY <1>4, <2>3
      <3>2. ~(Cardinality(UpTo(m)) < Cardinality(UpTo(i))) /\ ~(Cardinality(UpTo(i)) < Cardinality(UpTo(m)))
        BY <2>3, <3>1
      <3> QED
        BY <1>3, <2>3, <3>2
    <2>5. m = i
      BY <1>0, <2>3, <2>4
    <2> QED
      BY <2>1, <2>5 DEF m
  <1>6. ASSUME NEW k \in 1 .. c, NEW l \in 1 .. c, Nth(P, k) = Nth(P, l) PROVE k = l
    BY <1>2, <1>6
  <1> QED
    BY <1>1, <1>2, <1>5, <1>6 DEF c

LEMMA PickedElements ==
    ASSUME NEW S, NEW s \in Seq(S), NEW P \in SUBSET (DOMAIN s)
    PROVE  /\ AtPositions(s, P) \in Seq(S)
           /\ ToSet(AtPositions(s, P)) = {s[i] : i \in P}
  <1>1. DOMAIN s = 1 .. Len(s) /\ Len(s) \in Nat
    BY LenProperties
  <1> DEFINE t == AtPositions(s, P)
             c == Cardinality(P)
  <1>2. t = [k \in 1 .. c |-> s[Nth(P, k)]]
    BY AtPositionsAt
  <1>3. /\ \A k \in 1 .. c : Nth(P, k) \in P
        /\ \A i \in P : \E k \in 1 .. c : Nth(P, k) = i
    BY <1>1, NthIs, ZenonT(60)
  <1> HIDE DEF t, c
  <1>4. ToSet(t) = {s[i] : i \in P}
    BY <1>2, <1>3 DEF ToSet
  <1> QED
    BY <1>4, AtPositionsIn DEF t

LEMMA PickedUnique ==
    ASSUME NEW rules \in Seq(Rules), Unique(rules), NEW P \in SUBSET (DOMAIN rules)
    PROVE  Unique(AtPositions(rules, P))
  <1>1. DOMAIN rules = 1 .. Len(rules) /\ Len(rules) \in Nat
    BY LenProperties
  <1> DEFINE t == AtPositions(rules, P)
             c == Cardinality(P)
  <1>2. t = [k \in 1 .. c |-> rules[Nth(P, k)]]
    BY AtPositionsAt
  <1>3. /\ \A k \in 1 .. c : Nth(P, k) \in P
        /\ \A k, l \in 1 .. c : Nth(P, k) = Nth(P, l) => k = l
    BY <1>1, NthIs
  <1> HIDE DEF t, c
  <1>4. ASSUME NEW k \in 1 .. c, NEW l \in 1 .. c, t[k].id = t[l].id PROVE k = l
    <2>1. Nth(P, k) \in DOMAIN rules /\ Nth(P, l) \in DOMAIN rules
      BY <1>3
    <2>2. rules[Nth(P, k)].id = rules[Nth(P, l)].id
      BY <1>2, <1>4
    <2>3. Nth(P, k) = Nth(P, l)
      BY <2>1, <2>2 DEF Unique
    <2> QED
      BY <1>3, <2>3
  <1> QED
    BY <1>2, <1>4 DEF Unique, t

LEMMA RemovedElements ==
    ASSUME NEW rules \in Seq(Rules), NEW id
    PROVE  /\ Removed(rules, id) \in Seq(Rules)
           /\ ToSet(Removed(rules, id)) = Others(rules, id)
  <1> DEFINE P == {i \in DOMAIN rules : rules[i].id # id}
  <1>1. P \in SUBSET (DOMAIN rules)
    OBVIOUS
  <1>2. Removed(rules, id) = AtPositions(rules, P)
    BY DEF Removed
  <1>3. {rules[i] : i \in P} = Others(rules, id)
    BY DEF Others, ToSet
  <1> HIDE DEF P
  <1> QED
    BY <1>1, <1>2, <1>3, PickedElements

LEMMA SwitchedElements ==
    ASSUME NEW rules \in Seq(Rules), NEW id, NEW active \in BOOLEAN
    PROVE  /\ Switched(rules, id, active) \in Seq(Rules)
           /\ ToSet(Switched(rules, id, active)) =
                Others(rules, id)
                  \cup {[rule EXCEPT !.active = active] : rule \in ToSet(rules) \ Others(rules, id)}
           /\ ~Holds(rules, id) => ToSet(Switched(rules, id, active)) = ToSet(rules)
  <1> DEFINE t == Switched(rules, id, active)
  <1>1. t \in Seq(Rules)
    <2>1. \A rule \in Rules : [rule EXCEPT !.active = active] \in Rules
      BY DEF Rules
    <2> QED
      BY <2>1, SwitchedIn
  <1>2. /\ DOMAIN t = DOMAIN rules
        /\ \A i \in DOMAIN rules :
              t[i] = IF rules[i].id = id THEN [rules[i] EXCEPT !.active = active] ELSE rules[i]
    BY DEF Switched
  <1> HIDE DEF t
  <1>3. ToSet(t) = Others(rules, id)
          \cup {[rule EXCEPT !.active = active] : rule \in ToSet(rules) \ Others(rules, id)}
    <2>1. ASSUME NEW x \in ToSet(t)
          PROVE  x \in Others(rules, id)
                   \cup {[rule EXCEPT !.active = active] : rule \in ToSet(rules) \ Others(rules, id)}
      <3>1. PICK i \in DOMAIN rules : x = t[i]
        BY <1>2 DEF ToSet
      <3>2. CASE rules[i].id = id
        <4>1. rules[i] \in ToSet(rules) \ Others(rules, id)
          BY <3>2 DEF ToSet, Others
        <4>2. x = [rules[i] EXCEPT !.active = active]
          BY <1>2, <3>1, <3>2
        <4> QED
          BY <4>1, <4>2
      <3>3. CASE rules[i].id # id
        BY <1>2, <3>1, <3>3 DEF ToSet, Others
      <3> QED
        BY <3>2, <3>3
    <2>2. ASSUME NEW x \in Others(rules, id) PROVE x \in ToSet(t)
      <3>1. PICK i \in DOMAIN rules : x = rules[i] /\ rules[i].id # id
        BY DEF ToSet, Others
      <3>2. x = t[i]
        BY <1>2, <3>1
      <3> QED
        BY <1>2, <3>2 DEF ToSet
    <2>3. ASSUME NEW rule \in ToSet(rules) \ Others(rules, id)
          PROVE  [rule EXCEPT !.active = active] \in ToSet(t)
      <3>1. PICK i \in DOMAIN rules : rule = rules[i] /\ rules[i].id = id
        BY DEF ToSet, Others
      <3>2. [rule EXCEPT !.active = active] = t[i]
        BY <1>2, <3>1
      <3> QED
        BY <1>2, <3>2 DEF ToSet
    <2> QED
      BY <2>1, <2>2, <2>3
  <1>4. ASSUME ~Holds(rules, id) PROVE ToSet(t) = ToSet(rules)
    <2>1. \A i \in DOMAIN rules : t[i] = rules[i]
      BY <1>2, <1>4 DEF Holds
    <2> QED
      BY <1>2, <2>1 DEF ToSet
  <1> QED
    BY <1>1, <1>3, <1>4 DEF t
=============================================================================
