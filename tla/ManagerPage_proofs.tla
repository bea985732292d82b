------------------------- MODULE ManagerPage_proofs --------------------------
(***************************************************************************)
(* The rule list window, for every number of accounts, handlers and rules: *)
(* the types, the queues and the ids (PageInv), and what the table has of  *)
(* the page's rows (TableInv), whatever overlaps; then what the page holds *)
(* for a user who waits for each answer (ShowsInv);                        *)
(* whose rules the handlers work on (Apart); and the order of the rows     *)
(* (NumberInv).                                                            *)
(***************************************************************************)
EXTENDS ManagerPage, RuleList_proofs

-----------------------------------------------------------------------------
(***************************************************************************)
(* Rows, and the rules they show.                                          *)
(***************************************************************************)
RowSet == [rule : Rules, order : Int]
RulesOf(rows) == [i \in DOMAIN rows |-> rows[i].rule]

LEMMA RulesOfRows ==
    ASSUME NEW rows \in Seq(RowSet)
    PROVE  /\ Len(rows) \in Nat /\ DOMAIN rows = 1 .. Len(rows)
           /\ RulesOf(rows) \in Seq(Rules)
           /\ Len(RulesOf(rows)) = Len(rows)
           /\ DOMAIN RulesOf(rows) = 1 .. Len(rows)
           /\ \A i \in 1 .. Len(rows) :
                 /\ rows[i] \in RowSet /\ rows[i].rule \in Rules /\ rows[i].order \in Int
                 /\ RulesOf(rows)[i] = rows[i].rule
  <1>1. Len(rows) \in Nat /\ DOMAIN rows = 1 .. Len(rows)
    BY LenProperties
  <1>2. \A i \in 1 .. Len(rows) : rows[i] \in RowSet
    BY <1>1, ElementOfSeq
  <1>3. \A i \in 1 .. Len(rows) : rows[i].rule \in Rules /\ rows[i].order \in Int
    BY <1>2 DEF RowSet
  <1>4. RulesOf(rows) \in [1 .. Len(rows) -> Rules]
    BY <1>1, <1>3 DEF RulesOf
  <1>5. RulesOf(rows) \in Seq(Rules) /\ Len(RulesOf(rows)) = Len(rows)
    BY <1>1, <1>4, FunctionIsSeq
  <1> QED
    BY <1>1, <1>2, <1>3, <1>5 DEF RulesOf

LEMMA RowsAre ==
    ASSUME NEW n \in Nat, NEW rows \in [1 .. n -> RowSet]
    PROVE  rows \in Seq(RowSet) /\ Len(rows) = n
  BY FunctionIsSeq

LEMMA RuleFields ==
    ASSUME NEW rule \in Rules
    PROVE  /\ rule.id \in Nat /\ rule.name \in Names /\ rule.body \in Bodies
           /\ rule.active \in BOOLEAN
           /\ \A active \in BOOLEAN :
                 /\ [rule EXCEPT !.active = active] \in Rules
                 /\ [rule EXCEPT !.active = active].id = rule.id
  BY DEF Rules

LEMMA RowFields ==
    ASSUME NEW row \in RowSet
    PROVE  row.rule \in Rules /\ row.order \in Int /\ row = Row(row.rule, row.order)
  BY DEF RowSet, Row

LEMMA RowIs ==
    ASSUME NEW rule \in Rules, NEW order \in Int
    PROVE  /\ Row(rule, order) \in RowSet
           /\ Row(rule, order).rule = rule /\ Row(rule, order).order = order
  BY DEF RowSet, Row

\* The same rules in another order.
LEMMA Reordered ==
    ASSUME NEW rows \in Seq(RowSet), NEW new \in Seq(RowSet), Len(new) = Len(rows),
           NEW q \in [1 .. Len(rows) -> 1 .. Len(rows)],
           \A j, k \in 1 .. Len(rows) : q[j] = q[k] => j = k,
           \A i \in 1 .. Len(rows) : \E k \in 1 .. Len(rows) : q[k] = i,
           \A k \in 1 .. Len(rows) : new[k].rule = rows[q[k]].rule
    PROVE  /\ ToSet(RulesOf(new)) = ToSet(RulesOf(rows))
           /\ Unique(RulesOf(rows)) => Unique(RulesOf(new))
  <1> DEFINE n == Len(rows)
             R == RulesOf(rows)
             T == RulesOf(new)
  <1>1. /\ n \in Nat /\ DOMAIN R = 1 .. n /\ DOMAIN T = 1 .. n
        /\ \A i \in 1 .. n : R[i] = rows[i].rule /\ T[i] = new[i].rule
    BY RulesOfRows
  <1> HIDE DEF R, T
  <1>0. q \in [1 .. n -> 1 .. n] /\ \A k \in 1 .. n : new[k].rule = rows[q[k]].rule
    OBVIOUS
  <1>2. \A k \in 1 .. n : q[k] \in 1 .. n /\ T[k] = R[q[k]]
    <2> SUFFICES ASSUME NEW k \in 1 .. n PROVE q[k] \in 1 .. n /\ T[k] = R[q[k]]
      OBVIOUS
    <2>1. q[k] \in 1 .. n
      BY <1>0
    <2> QED
      BY <1>0, <1>1, <2>1
  <1>3. \A i \in 1 .. n : \E k \in 1 .. n : q[k] = i
    OBVIOUS
  <1>4. \A j, k \in 1 .. n : q[j] = q[k] => j = k
    OBVIOUS
  <1> HIDE DEF n
  <1>5. ToSet(T) = ToSet(R)
    <2>1. ASSUME NEW x \in ToSet(R) PROVE x \in ToSet(T)
      <3>1. PICK i \in 1 .. n : x = R[i]
        BY <1>1 DEF ToSet
      <3>2. PICK k \in 1 .. n : q[k] = i
        BY <1>3
      <3>3. T[k] = x
        BY <1>2, <3>1, <3>2
      <3> QED
        BY <1>1, <3>3 DEF ToSet
    <2>2. ASSUME NEW x \in ToSet(T) PROVE x \in ToSet(R)
      <3>1. PICK k \in 1 .. n : x = T[k]
        BY <1>1 DEF ToSet
      <3> QED
        BY <1>1, <1>2, <3>1 DEF ToSet
    <2> QED
      BY <2>1, <2>2
  <1>6. ASSUME Unique(R) PROVE Unique(T)
    <2> SUFFICES ASSUME NEW j \in 1 .. n, NEW k \in 1 .. n, T[j].id = T[k].id PROVE j = k
      BY <1>1 DEF Unique
    <2>1. q[j] \in 1 .. n /\ q[k] \in 1 .. n /\ R[q[j]].id = R[q[k]].id
      BY <1>2
    <2>2. q[j] = q[k]
      BY <1>1, <1>6, <2>1 DEF Unique
    <2> QED
      BY <1>4, <2>2
  <1> QED
    BY <1>5, <1>6 DEF R, T

(***************************************************************************)
(* Sorting by order is a reordering.                                       *)
(***************************************************************************)
Before(rows, i, j) ==
    rows[i].order < rows[j].order \/ (rows[i].order = rows[j].order /\ i < j)
Rank(rows, i) == 1 + Cardinality({j \in DOMAIN rows : Before(rows, j, i)})
Ranked(rows, k) == CHOOSE i \in DOMAIN rows : Rank(rows, i) = k

LEMMA SortedAt ==
    ASSUME NEW rows
    PROVE  SortedByOrder(rows) = [k \in DOMAIN rows |-> rows[Ranked(rows, k)]]
  BY DEF SortedByOrder, Ranked, Rank, Before

LEMMA RankIsPosition ==
    ASSUME NEW rows \in Seq(RowSet), NEW i \in 1 .. Len(rows)
    PROVE  Rank(rows, i) \in 1 .. Len(rows)
  <1> DEFINE n == Len(rows)
             B == {j \in 1 .. n : Before(rows, j, i)}
  <1>1. n \in Nat /\ DOMAIN rows = 1 .. n /\ \A k \in 1 .. n : rows[k].order \in Int
    BY RulesOfRows
  <1>2. IsFiniteSet(1 .. n) /\ Cardinality(1 .. n) = n
    BY <1>1, FS_Interval
  <1>3. i \notin B
    BY <1>1 DEF Before
  <1> DEFINE others == (1 .. n) \ {i}
  <1>4. B \in SUBSET others
    BY <1>3
  <1>5. IsFiniteSet(others) /\ Cardinality(others) = n - 1
    <2> DEFINE all == 1 .. n
    <2>1. i \in all /\ IsFiniteSet(all) /\ Cardinality(all) = n
      BY <1>2
    <2> HIDE DEF all
    <2>2. IsFiniteSet(all \ {i}) /\ Cardinality(all \ {i}) = n - 1
      BY <2>1, FS_RemoveElement
    <2> QED
      BY <2>2 DEF all
  <1> HIDE DEF B, others
  <1>6. IsFiniteSet(B) /\ Cardinality(B) <= n - 1
    BY <1>4, <1>5, FS_Subset
  <1>7. Cardinality(B) \in Nat
    BY <1>6, FS_CardinalityType
  <1>8. Rank(rows, i) = 1 + Cardinality(B)
    BY <1>1 DEF Rank, B
  <1> QED
    BY <1>1, <1>6, <1>7, <1>8

LEMMA RankIsOne ==
    ASSUME NEW rows \in Seq(RowSet), NEW i \in 1 .. Len(rows), NEW j \in 1 .. Len(rows),
           Rank(rows, i) = Rank(rows, j)
    PROVE  i = j
  <1> DEFINE n == Len(rows)
             B(k) == {l \in 1 .. n : Before(rows, l, k)}
  <1>1. n \in Nat /\ DOMAIN rows = 1 .. n /\ \A k \in 1 .. n : rows[k].order \in Int
    BY RulesOfRows
  <1>2. IsFiniteSet(1 .. n)
    BY <1>1, FS_Interval
  <1>3. ASSUME NEW a \in 1 .. n, NEW b \in 1 .. n, Before(rows, a, b)
        PROVE  Cardinality(B(a)) < Cardinality(B(b))
    <2>1. B(a) \in SUBSET B(b)
      BY <1>1, <1>3 DEF Before
    <2>2. a \in B(b) /\ a \notin B(a)
      BY <1>1, <1>3 DEF Before
    <2>3. B(b) \in SUBSET (1 .. n)
      OBVIOUS
    <2> HIDE DEF B
    <2>4. IsFiniteSet(B(b))
      BY <1>2, <2>3, FS_Subset
    <2>5. IsFiniteSet(B(a)) /\ Cardinality(B(a)) <= Cardinality(B(b))
          /\ Cardinality(B(a)) # Cardinality(B(b))
      BY <2>1, <2>2, <2>4, FS_Subset
    <2>6. Cardinality(B(a)) \in Nat /\ Cardinality(B(b)) \in Nat
      BY <2>4, <2>5, FS_CardinalityType
    <2> QED
      BY <2>5, <2>6
  <1>4. \A k \in 1 .. n : Rank(rows, k) = 1 + Cardinality(B(k)) /\ Cardinality(B(k)) \in Nat
    <2> SUFFICES ASSUME NEW k \in 1 .. n
                 PROVE  Rank(rows, k) = 1 + Cardinality(B(k)) /\ Cardinality(B(k)) \in Nat
      OBVIOUS
    <2>1. Rank(rows, k) = 1 + Cardinality(B(k))
      BY <1>1 DEF Rank
    <2>2. B(k) \in SUBSET (1 .. n)
      OBVIOUS
    <2> HIDE DEF B
    <2>3. IsFiniteSet(B(k))
      BY <1>2, <2>2, FS_Subset
    <2> QED
      BY <2>1, <2>3, FS_CardinalityType
  <1>5. i = j \/ Before(rows, i, j) \/ Before(rows, j, i)
    BY <1>1 DEF Before
  <1>6. Cardinality(B(i)) = Cardinality(B(j))
    <2> HIDE DEF B
    <2> QED
      BY <1>4
  <1> HIDE DEF B
  <1> QED
    BY <1>3, <1>4, <1>5, <1>6

LEMMA RankIsTaken ==
    ASSUME NEW rows \in Seq(RowSet), NEW k \in 1 .. Len(rows)
    PROVE  Ranked(rows, k) \in 1 .. Len(rows) /\ Rank(rows, Ranked(rows, k)) = k
  <1> DEFINE n == Len(rows)
             f == [i \in 1 .. n |-> Rank(rows, i)]
  <1>1. n \in Nat /\ DOMAIN rows = 1 .. n
    BY RulesOfRows
  <1>2. f \in [1 .. n -> 1 .. n]
    BY RankIsPosition
  <1>3. \A i, j \in 1 .. n : f[i] = f[j] => i = j
    BY RankIsOne
  <1>4. IsFiniteSet(1 .. n)
    BY <1>1, FS_Interval
  <1> HIDE DEF f
  <1>5. f \in Injection(1 .. n, 1 .. n)
    BY <1>2, <1>3 DEF Injection, IsInjective
  <1>6. f \in Surjection(1 .. n, 1 .. n)
    BY <1>4, <1>5, FS_Injection
  <1>7. PICK i \in 1 .. n : f[i] = k
    BY <1>6 DEF Surjection
  <1>8. Rank(rows, i) = k
    BY <1>7 DEF f
  <1> QED
    BY <1>1, <1>8 DEF Ranked

LEMMA SortedRows ==
    ASSUME NEW rows \in Seq(RowSet)
    PROVE  /\ SortedByOrder(rows) \in Seq(RowSet)
           /\ Len(SortedByOrder(rows)) = Len(rows)
           /\ ToSet(RulesOf(SortedByOrder(rows))) = ToSet(RulesOf(rows))
           /\ Unique(RulesOf(rows)) => Unique(RulesOf(SortedByOrder(rows)))
  <1> DEFINE n == Len(rows)
             q == [k \in 1 .. n |-> Ranked(rows, k)]
             new == SortedByOrder(rows)
  <1>1. n \in Nat /\ DOMAIN rows = 1 .. n /\ \A i \in 1 .. n : rows[i] \in RowSet
    BY RulesOfRows
  <1>2. new = [k \in 1 .. n |-> rows[Ranked(rows, k)]]
    BY <1>1, SortedAt
  <1>3. \A k \in 1 .. n : Ranked(rows, k) \in 1 .. n /\ Rank(rows, Ranked(rows, k)) = k
    BY RankIsTaken
  <1>4. q \in [1 .. n -> 1 .. n] /\ \A j, k \in 1 .. n : q[j] = q[k] => j = k
    BY <1>3
  <1>5. \A i \in 1 .. n : \E k \in 1 .. n : q[k] = i
    <2> SUFFICES ASSUME NEW i \in 1 .. n PROVE \E k \in 1 .. n : q[k] = i
      OBVIOUS
    <2>1. Rank(rows, i) \in 1 .. n
      BY RankIsPosition
    <2>2. /\ Ranked(rows, Rank(rows, i)) \in 1 .. n
          /\ Rank(rows, Ranked(rows, Rank(rows, i))) = Rank(rows, i)
      BY <1>3, <2>1
    <2>3. Ranked(rows, Rank(rows, i)) = i
      BY <2>2, RankIsOne
    <2> QED
      BY <2>1, <2>3
  <1> HIDE DEF new
  <1>6. new \in [1 .. n -> RowSet]
    BY <1>1, <1>2, <1>3
  <1>7. new \in Seq(RowSet) /\ Len(new) = n
    BY <1>1, <1>6, RowsAre
  <1>8. \A k \in 1 .. n : new[k].rule = rows[q[k]].rule
    BY <1>2
  <1> HIDE DEF q
  <1> QED
    BY <1>4, <1>5, <1>7, <1>8, Reordered DEF new

(***************************************************************************)
(* What the page does to its rows.                                         *)
(***************************************************************************)
LEMMA ListedRows ==
    ASSUME NEW rules \in Seq(Rules)
    PROVE  Listed(rules) \in Seq(RowSet) /\ RulesOf(Listed(rules)) = rules
  <1> DEFINE n == Len(rules)
             rows == Listed(rules)
  <1>1. n \in Nat /\ DOMAIN rules = 1 .. n /\ \A i \in 1 .. n : rules[i] \in Rules
    BY ElementsOf
  <1>2. DOMAIN rows = 1 .. n /\ \A i \in 1 .. n : rows[i] = Row(rules[i], i - 1)
    BY <1>1 DEF Listed
  <1>3. \A i \in 1 .. n : rows[i] \in RowSet /\ rows[i].rule = rules[i]
    <2> SUFFICES ASSUME NEW i \in 1 .. n PROVE rows[i] \in RowSet /\ rows[i].rule = rules[i]
      OBVIOUS
    <2>1. rules[i] \in Rules /\ i - 1 \in Int
      BY <1>1
    <2> QED
      BY <1>2, <2>1, RowIs
  <1>4. rows \in [1 .. n -> RowSet]
    BY <1>1, <1>2, <1>3 DEF Listed
  <1> HIDE DEF rows
  <1>5. rows \in Seq(RowSet) /\ Len(rows) = n
    BY <1>1, <1>4, RowsAre
  <1>6. /\ RulesOf(rows) \in Seq(Rules) /\ Len(RulesOf(rows)) = n
        /\ \A i \in 1 .. n : RulesOf(rows)[i] = rules[i]
    BY <1>3, <1>5, RulesOfRows
  <1>7. RulesOf(rows) = rules
    BY <1>6, SeqEqual
  <1> QED
    BY <1>5, <1>7 DEF rows

LEMMA SwitchedRows ==
    ASSUME NEW rows \in Seq(RowSet), NEW ids, NEW id, NEW active \in BOOLEAN
    PROVE  /\ WithActive(rows, ids, id, active) \in Seq(RowSet)
           /\ Len(WithActive(rows, ids, id, active)) = Len(rows)
           /\ \A i \in 1 .. Len(rows) :
                /\ WithActive(rows, ids, id, active)[i].rule.id = rows[i].rule.id
                /\ WithActive(rows, ids, id, active)[i].order = rows[i].order
           /\ id \notin ids => WithActive(rows, ids, id, active) = rows
           /\ id \in ids => RulesOf(WithActive(rows, ids, id, active))
                              = Switched(RulesOf(rows), id, active)
           /\ Unique(RulesOf(rows)) => Unique(RulesOf(WithActive(rows, ids, id, active)))
  <1> DEFINE n == Len(rows)
             new == WithActive(rows, ids, id, active)
             R == RulesOf(rows)
  <1>1. /\ n \in Nat /\ DOMAIN rows = 1 .. n
        /\ \A i \in 1 .. n : rows[i] \in RowSet /\ rows[i].rule \in Rules /\ rows[i].order \in Int
        /\ R \in Seq(Rules) /\ Len(R) = n /\ DOMAIN R = 1 .. n
        /\ \A i \in 1 .. n : R[i] = rows[i].rule
    BY RulesOfRows
  <1>2. /\ DOMAIN new = 1 .. n
        /\ \A i \in 1 .. n : new[i] =
              IF rows[i].rule.id = id /\ id \in ids THEN [rows[i] EXCEPT !.rule.active = active]
                                                    ELSE rows[i]
        /\ new = [i \in 1 .. n |-> new[i]]
    BY <1>1 DEF WithActive
  <1> HIDE DEF n, R, new
  <1>3. ASSUME NEW i \in 1 .. n
        PROVE  /\ new[i] \in RowSet /\ new[i].order = rows[i].order
               /\ new[i].rule.id = rows[i].rule.id
               /\ new[i].rule = IF rows[i].rule.id = id /\ id \in ids
                                THEN [rows[i].rule EXCEPT !.active = active] ELSE rows[i].rule
    <2>1. CASE rows[i].rule.id = id /\ id \in ids
      <3>1. new[i] = [rows[i] EXCEPT !.rule = [rows[i].rule EXCEPT !.active = active]]
        BY <1>1, <1>2, <2>1 DEF RowSet
      <3>2. /\ [rows[i].rule EXCEPT !.active = active] \in Rules
            /\ [rows[i].rule EXCEPT !.active = active].id = rows[i].rule.id
        BY <1>1, RuleFields
      <3>3. new[i].rule = [rows[i].rule EXCEPT !.active = active] /\ new[i].order = rows[i].order
            /\ new[i] \in RowSet
        BY <1>1, <3>1, <3>2 DEF RowSet
      <3> QED
        BY <2>1, <3>2, <3>3
    <2>2. CASE ~(rows[i].rule.id = id /\ id \in ids)
      BY <1>1, <1>2, <2>2
    <2> QED
      BY <2>1, <2>2
  <1>4. new \in Seq(RowSet) /\ Len(new) = n
    <2>1. new \in [1 .. n -> RowSet]
      BY <1>2, <1>3
    <2> QED
      BY <1>1, <2>1, RowsAre
  <1>5. ASSUME id \in ids PROVE RulesOf(new) = Switched(R, id, active)
    <2>1. \A i \in 1 .. n : new[i].rule = IF R[i].id = id THEN [R[i] EXCEPT !.active = active]
                                                       ELSE R[i]
      BY <1>1, <1>3, <1>5
    <2> QED
      BY <1>1, <1>2, <2>1 DEF RulesOf, Switched
  <1>6. ASSUME id \notin ids PROVE new = rows
    <2>1. \A i \in 1 .. n : new[i] = rows[i]
      BY <1>2, <1>6
    <2> QED
      BY <1>1, <1>4, <2>1, SeqEqual DEF n
  <1>7. ASSUME Unique(R) PROVE Unique(RulesOf(new))
    <2>1. DOMAIN RulesOf(new) = 1 .. n /\ \A i \in 1 .. n : RulesOf(new)[i].id = R[i].id
      BY <1>1, <1>3, <1>4, RulesOfRows
    <2> QED
      BY <1>1, <1>7, <2>1 DEF Unique
  <1> QED
    BY <1>3, <1>4, <1>5, <1>6, <1>7 DEF new, n, R

LEMMA AppendedRows ==
    ASSUME NEW rows \in Seq(RowSet), Unique(RulesOf(rows)), NEW row \in RowSet,
           ~Holds(RulesOf(rows), row.rule.id)
    PROVE  /\ Append(rows, row) \in Seq(RowSet)
           /\ Len(Append(rows, row)) = Len(rows) + 1
           /\ Unique(RulesOf(Append(rows, row)))
           /\ ToSet(RulesOf(Append(rows, row))) = ToSet(RulesOf(rows)) \cup {row.rule}
           /\ RulesOf(Append(rows, row)) = Append(RulesOf(rows), row.rule)
  <1> DEFINE n == Len(rows)
             new == Append(rows, row)
             R == RulesOf(rows)
             T == RulesOf(new)
  <1>1. /\ n \in Nat
        /\ R \in Seq(Rules) /\ Len(R) = n /\ DOMAIN R = 1 .. n
        /\ \A i \in 1 .. n : R[i] = rows[i].rule
    BY RulesOfRows
  <1>2. /\ new \in Seq(RowSet) /\ Len(new) = n + 1
        /\ \A i \in 1 .. n : new[i] = rows[i]
        /\ new[n + 1] = row
    BY <1>1, AppendProperties
  <1>3. row.rule \in Rules
    BY RowFields
  <1> HIDE DEF new, n, R
  <1>4. /\ T \in Seq(Rules) /\ Len(T) = n + 1 /\ DOMAIN T = 1 .. n + 1
        /\ \A i \in 1 .. n + 1 : T[i] = new[i].rule
    BY <1>2, RulesOfRows
  <1>5. \A i \in 1 .. n : i \in 1 .. n + 1
    BY <1>1
  <1>6. \A i \in 1 .. n + 1 : i \in 1 .. n \/ i = n + 1
    BY <1>1
  <1>7. \A i \in 1 .. n : T[i] = R[i]
    BY <1>1, <1>2, <1>4, <1>5
  <1>8. n + 1 \in 1 .. n + 1 /\ T[n + 1] = row.rule
    BY <1>1, <1>2, <1>4
  <1> HIDE DEF T
  <1>9. \A i \in 1 .. n : T[i].id # row.rule.id
    BY <1>1, <1>7 DEF Holds, R
  <1>10. Unique(T)
    <2> SUFFICES ASSUME NEW i \in 1 .. n + 1, NEW j \in 1 .. n + 1, T[i].id = T[j].id PROVE i = j
      BY <1>4 DEF Unique
    <2>1. CASE i \in 1 .. n /\ j \in 1 .. n
      <3>1. R[i].id = R[j].id
        BY <1>7, <2>1
      <3>2. Unique(R)
        BY DEF R
      <3> QED
        BY <1>1, <2>1, <3>1, <3>2 DEF Unique
    <2>2. CASE i = n + 1 /\ j \in 1 .. n
      BY <1>8, <1>9, <2>2
    <2>3. CASE i \in 1 .. n /\ j = n + 1
      BY <1>8, <1>9, <2>3
    <2> QED
      BY <1>6, <2>1, <2>2, <2>3
  <1>11. ToSet(T) = ToSet(R) \cup {row.rule}
    BY <1>1, <1>4, <1>5, <1>6, <1>7, <1>8, SMTT(60) DEF ToSet
  <1>12. T = Append(R, row.rule)
    <2>1. /\ Append(R, row.rule) \in Seq(Rules) /\ Len(Append(R, row.rule)) = n + 1
          /\ \A i \in 1 .. n : Append(R, row.rule)[i] = R[i]
          /\ Append(R, row.rule)[n + 1] = row.rule
      BY <1>1, <1>3, AppendProperties
    <2>2. \A i \in 1 .. n + 1 : T[i] = Append(R, row.rule)[i]
      BY <1>6, <1>7, <1>8, <2>1
    <2> QED
      BY <1>4, <2>1, <2>2, SeqEqual
  <1> QED
    BY <1>2, <1>10, <1>11, <1>12 DEF new, n, R, T

\* A saved rule takes the place of its row, or one at the end, before the sort.
LEMMA ShownRows ==
    ASSUME page.rules \in Seq(RowSet), Unique(PageRules), NEW row \in RowSet
    PROVE  /\ Show(row) \in Seq(RowSet)
           /\ Unique(RulesOf(Show(row)))
           /\ ToSet(RulesOf(Show(row))) = Others(PageRules, row.rule.id) \cup {row.rule}
  <1> DEFINE rows == page.rules
             n == Len(rows)
             R == RulesOf(rows)
             id == row.rule.id
  <1>0. PageRules = R
    BY DEF PageRules, RulesOf
  <1>1. /\ n \in Nat /\ DOMAIN rows = 1 .. n
        /\ R \in Seq(Rules) /\ Len(R) = n /\ DOMAIN R = 1 .. n
        /\ \A i \in 1 .. n : R[i] = rows[i].rule /\ rows[i] \in RowSet
    BY RulesOfRows
  <1>2. row.rule \in Rules
    BY RowFields
  <1>3. PageIds = {rows[i].rule.id : i \in 1 .. n}
    BY <1>1 DEF PageIds
  <1>4. CASE id \in PageIds
    <2> DEFINE p == PageIndex(id)
               new == ReplaceAt(rows, p, row)
               T == RulesOf(new)
    <2>1. \E i \in DOMAIN rows : rows[i].rule.id = id
      BY <1>1, <1>3, <1>4
    <2>2. p \in 1 .. n /\ rows[p].rule.id = id
      BY <1>1, <2>1 DEF PageIndex
    <2> HIDE DEF p
    <2>3. /\ new \in Seq(RowSet) /\ Len(new) = n
          /\ \A i \in 1 .. n : new[i] = IF i = p THEN row ELSE rows[i]
      BY <1>1, <2>2, ExceptSeq DEF ReplaceAt
    <2> HIDE DEF new, rows, n
    <2>4. /\ DOMAIN T = 1 .. n
          /\ \A i \in 1 .. n : T[i] = IF i = p THEN row.rule ELSE R[i]
      BY <1>1, <2>3, RulesOfRows
    <2> HIDE DEF R, T
    <2>5. R[p].id = id /\ Unique(R)
      BY <1>0, <1>1, <2>2
    <2>6. Unique(T)
      <3>1. \A i \in 1 .. n : T[i].id = R[i].id
        BY <2>2, <2>4, <2>5
      <3> QED
        BY <1>1, <2>4, <2>5, <3>1 DEF Unique
    <2>7. Others(R, id) = {R[i] : i \in (1 .. n) \ {p}}
      BY <1>1, <2>2, <2>5 DEF Others, ToSet, Unique
    <2>8. ToSet(T) = {R[i] : i \in (1 .. n) \ {p}} \cup {row.rule}
      BY <2>2, <2>4 DEF ToSet
    <2>9. Show(row) = SortedByOrder(new)
      BY <1>4 DEF Show, new, rows, p
    <2> QED
      BY <1>0, <2>3, <2>6, <2>7, <2>8, <2>9, SortedRows DEF T
  <1>5. CASE id \notin PageIds
    <2>1. ~Holds(R, id)
      BY <1>1, <1>3, <1>5 DEF Holds
    <2>2. /\ Append(rows, row) \in Seq(RowSet)
          /\ Unique(RulesOf(Append(rows, row)))
          /\ ToSet(RulesOf(Append(rows, row))) = ToSet(R) \cup {row.rule}
      BY <1>0, <2>1, AppendedRows
    <2>3. Others(R, id) = ToSet(R)
      BY <2>1 DEF Others, ToSet, Holds
    <2>4. Show(row) = SortedByOrder(Append(rows, row))
      BY <1>5 DEF Show
    <2> QED
      BY <1>0, <2>2, <2>3, <2>4, SortedRows
  <1> QED
    BY <1>4, <1>5

\* Rows taken out of a list, in their order.
LEMMA PickedRows ==
    ASSUME NEW rows \in Seq(RowSet), NEW P \in SUBSET (DOMAIN rows)
    PROVE  /\ AtPositions(rows, P) \in Seq(RowSet)
           /\ RulesOf(AtPositions(rows, P)) = AtPositions(RulesOf(rows), P)
           /\ \A i \in DOMAIN AtPositions(rows, P) : \E j \in P : AtPositions(rows, P)[i] = rows[j]
  <1> DEFINE c == Cardinality(P)
             t == AtPositions(rows, P)
             R == RulesOf(rows)
  <1>1. /\ Len(rows) \in Nat /\ DOMAIN rows = 1 .. Len(rows) /\ DOMAIN R = 1 .. Len(rows)
        /\ \A i \in 1 .. Len(rows) : R[i] = rows[i].rule
    BY RulesOfRows
  <1>2. t = [k \in 1 .. c |-> rows[Nth(P, k)]] /\ AtPositions(R, P) = [k \in 1 .. c |-> R[Nth(P, k)]]
    BY AtPositionsAt
  <1>3. \A k \in 1 .. c : Nth(P, k) \in P
    BY <1>1, NthIs
  <1> HIDE DEF t, R, c
  <1>4. \A k \in 1 .. c : R[Nth(P, k)] = rows[Nth(P, k)].rule
    BY <1>1, <1>3
  <1>5. RulesOf(t) = AtPositions(R, P)
    BY <1>2, <1>4 DEF RulesOf
  <1>6. \A i \in DOMAIN t : \E j \in P : t[i] = rows[j]
    BY <1>2, <1>3
  <1>7. t \in Seq(RowSet)
    BY AtPositionsIn DEF t
  <1> QED
    BY <1>5, <1>6, <1>7 DEF t, R

LEMMA KeptRows ==
    ASSUME NEW rows \in Seq(RowSet), Unique(RulesOf(rows)), NEW id
    PROVE  LET left == AtPositions(rows, {i \in DOMAIN rows : rows[i].rule.id # id})
           IN  /\ left \in Seq(RowSet)
               /\ Unique(RulesOf(left))
               /\ ToSet(RulesOf(left)) = Others(RulesOf(rows), id)
  <1> DEFINE P == {i \in DOMAIN rows : rows[i].rule.id # id}
             left == AtPositions(rows, P)
             R == RulesOf(rows)
  <1>1. /\ DOMAIN rows = 1 .. Len(rows) /\ DOMAIN R = 1 .. Len(rows) /\ R \in Seq(Rules)
        /\ \A i \in 1 .. Len(rows) : R[i] = rows[i].rule
    BY RulesOfRows
  <1>2. P \in SUBSET (DOMAIN rows) /\ P \in SUBSET (DOMAIN R) /\ P = {i \in DOMAIN R : R[i].id # id}
    BY <1>1
  <1> HIDE DEF P
  <1>3. left \in Seq(RowSet) /\ RulesOf(left) = AtPositions(R, P)
    BY <1>2, PickedRows
  <1> HIDE DEF left
  <1>4. Unique(RulesOf(left)) /\ ToSet(RulesOf(left)) = {R[i] : i \in P}
    BY <1>1, <1>2, <1>3, PickedUnique, PickedElements
  <1>5. {R[i] : i \in P} = Others(R, id)
    BY <1>2 DEF Others, ToSet
  <1> QED
    BY <1>3, <1>4, <1>5 DEF left, P

\* A move: where each row of the new list was before.
Origin(i, to, k) == IF k = to THEN i
                    ELSE IF k < to THEN (IF k < i THEN k ELSE k + 1)
                    ELSE (IF k - 1 < i THEN k - 1 ELSE k)

Shifted(s, i, to) == InsertAt(RemoveAt(s, i), to, s[i])

LEMMA MovedAt ==
    ASSUME NEW S, NEW s \in Seq(S), NEW i \in 1 .. Len(s), NEW to \in 1 .. Len(s)
    PROVE  /\ Shifted(s, i, to) \in Seq(S)
           /\ Len(Shifted(s, i, to)) = Len(s)
           /\ \A k \in 1 .. Len(s) : Shifted(s, i, to)[k] = s[Origin(i, to, k)]
  <1> DEFINE n == Len(s)
             out == RemoveAt(s, i)
             new == InsertAt(out, to, s[i])
  <1>1. n \in Nat /\ i \in 1 .. n /\ to \in 1 .. n /\ s[i] \in S
    BY ElementsOf
  <1>2. /\ out \in Seq(S) /\ Len(out) = n - 1
        /\ \A j \in 1 .. n - 1 : out[j] = IF j < i THEN s[j] ELSE s[j + 1]
    BY RemoveAtAt
  <1> HIDE DEF out, n
  <1>3. to \in 1 .. Len(out) + 1 /\ Len(out) + 1 = n
    BY <1>1, <1>2
  <1>4. /\ new \in Seq(S) /\ Len(new) = n
        /\ \A j \in 1 .. to - 1 : new[j] = out[j]
        /\ new[to] = s[i]
        /\ \A j \in to + 1 .. n : new[j] = out[j - 1]
    <2> DEFINE e == s[i]
    <2>1. e \in S
      BY <1>1
    <2> HIDE DEF e
    <2>2. /\ InsertAt(out, to, e) \in Seq(S) /\ Len(InsertAt(out, to, e)) = Len(out) + 1
          /\ \A j \in 1 .. to - 1 : InsertAt(out, to, e)[j] = out[j]
          /\ InsertAt(out, to, e)[to] = e
          /\ \A j \in to + 1 .. Len(out) + 1 : InsertAt(out, to, e)[j] = out[j - 1]
      <3>1. out \in Seq(S) /\ to \in 1 .. Len(out) + 1
        BY <1>2, <1>3
      <3> QED
        BY <2>1, <3>1, InsertAtAt
    <2> QED
      BY <1>3, <2>2 DEF e
  <1> HIDE DEF new
  <1>5. ASSUME NEW k \in 1 .. n
        PROVE  Origin(i, to, k) \in 1 .. n /\ new[k] = s[Origin(i, to, k)]
    <2>1. CASE k = to
      BY <1>1, <1>4, <2>1 DEF Origin
    <2>2. CASE k < to
      <3>1. k \in 1 .. to - 1 /\ k \in 1 .. n - 1 /\ k # to
        BY <1>1, <2>2
      <3>2. new[k] = IF k < i THEN s[k] ELSE s[k + 1]
        BY <1>2, <1>4, <3>1
      <3> QED
        BY <1>1, <2>2, <3>1, <3>2 DEF Origin
    <2>3. CASE k > to
      <3>1. k \in to + 1 .. n /\ k - 1 \in 1 .. n - 1 /\ k # to /\ ~(k < to) /\ (k - 1) + 1 = k
        BY <1>1, <2>3
      <3>2. new[k] = IF k - 1 < i THEN s[k - 1] ELSE s[k]
        BY <1>2, <1>4, <3>1
      <3> QED
        BY <1>1, <2>3, <3>1, <3>2 DEF Origin
    <2> QED
      BY <1>1, <2>1, <2>2, <2>3
  <1> QED
    BY <1>4, <1>5 DEF new, out, n, Shifted

LEMMA NumberedRows ==
    ASSUME NEW rows \in Seq(RowSet)
    PROVE  /\ Numbered(rows) \in Seq(RowSet)
           /\ Len(Numbered(rows)) = Len(rows)
           /\ \A i \in 1 .. Len(rows) :
                Numbered(rows)[i].rule = rows[i].rule /\ Numbered(rows)[i].order = i - 1
           /\ RulesOf(Numbered(rows)) = RulesOf(rows)
  <1> DEFINE n == Len(rows)
             new == Numbered(rows)
  <1>1. /\ n \in Nat /\ DOMAIN rows = 1 .. n
        /\ \A i \in 1 .. n : rows[i].rule \in Rules
    BY RulesOfRows
  <1>2. DOMAIN new = 1 .. n /\ \A i \in 1 .. n : new[i] = Row(rows[i].rule, i - 1)
    BY <1>1 DEF Numbered
  <1>3. ASSUME NEW i \in 1 .. n
        PROVE  new[i] \in RowSet /\ new[i].rule = rows[i].rule /\ new[i].order = i - 1
    <2>1. rows[i].rule \in Rules /\ i - 1 \in Int
      BY <1>1
    <2> QED
      BY <1>2, <2>1, RowIs
  <1>4. new \in [1 .. n -> RowSet]
    BY <1>1, <1>3 DEF Numbered
  <1> HIDE DEF new
  <1>5. new \in Seq(RowSet) /\ Len(new) = n
    BY <1>1, <1>4, RowsAre
  <1>6. RulesOf(new) = RulesOf(rows)
    BY <1>1, <1>2, <1>3 DEF RulesOf
  <1> QED
    BY <1>3, <1>5, <1>6 DEF new

LEMMA MovedRows ==
    ASSUME NEW rows \in Seq(RowSet), Unique(RulesOf(rows)),
           NEW i \in 1 .. Len(rows), NEW to \in 1 .. Len(rows)
    PROVE  LET moved == InsertAt(RemoveAt(rows, i), to, rows[i])
           IN  /\ Numbered(moved) \in Seq(RowSet)
               /\ Unique(RulesOf(Numbered(moved)))
               /\ ToSet(RulesOf(Numbered(moved))) = ToSet(RulesOf(rows))
               /\ Touched(moved) \in Seq(RowSet)
               /\ \A k \in DOMAIN Touched(moved) :
                     Touched(moved)[k].rule \in ToSet(RulesOf(rows))
  <1> DEFINE n == Len(rows)
             moved == InsertAt(RemoveAt(rows, i), to, rows[i])
             q == [k \in 1 .. n |-> Origin(i, to, k)]
  <1>1. /\ moved \in Seq(RowSet) /\ Len(moved) = n
        /\ \A k \in 1 .. n : Origin(i, to, k) \in 1 .. n /\ moved[k] = rows[Origin(i, to, k)]
        /\ \A j, k \in 1 .. n : Origin(i, to, j) = Origin(i, to, k) => j = k
        /\ \A j \in 1 .. n : \E k \in 1 .. n : Origin(i, to, k) = j
    <2>1. moved = Shifted(rows, i, to)
      BY DEF Shifted
    <2> HIDE DEF moved
    <2>2. /\ moved \in Seq(RowSet) /\ Len(moved) = n
          /\ \A k \in 1 .. n : moved[k] = rows[Origin(i, to, k)]
      BY <2>1, MovedAt
    <2>3. n \in Nat
      BY LenProperties
    <2> HIDE DEF n
    <2>4. i \in 1 .. n /\ to \in 1 .. n
      BY DEF n
    <2>5. \A k \in 1 .. n : Origin(i, to, k) \in 1 .. n
      BY <2>3, <2>4 DEF Origin
    <2>6. \A j, k \in 1 .. n : Origin(i, to, j) = Origin(i, to, k) => j = k
      BY <2>3, <2>4 DEF Origin
    <2>7. ASSUME NEW j \in 1 .. n PROVE \E k \in 1 .. n : Origin(i, to, k) = j
      <3> DEFINE k == IF j = i THEN to
                      ELSE IF j < i THEN (IF j < to THEN j ELSE j + 1)
                      ELSE (IF j <= to THEN j - 1 ELSE j)
      <3>1. k \in 1 .. n /\ Origin(i, to, k) = j
        BY <2>3, <2>4 DEF Origin
      <3> QED
        BY <3>1
    <2> QED
      BY <2>2, <2>5, <2>6, <2>7
  <1> HIDE DEF moved
  <1>2. /\ q \in [1 .. n -> 1 .. n]
        /\ \A j, k \in 1 .. n : q[j] = q[k] => j = k
        /\ \A j \in 1 .. n : \E k \in 1 .. n : q[k] = j
        /\ \A k \in 1 .. n : moved[k].rule = rows[q[k]].rule
    BY <1>1
  <1> HIDE DEF q
  <1>3. ToSet(RulesOf(moved)) = ToSet(RulesOf(rows)) /\ Unique(RulesOf(moved))
    BY <1>1, <1>2, Reordered
  <1>4. /\ Numbered(moved) \in Seq(RowSet) /\ RulesOf(Numbered(moved)) = RulesOf(moved)
        /\ Len(Numbered(moved)) = n
        /\ \A k \in 1 .. n : Numbered(moved)[k].rule = moved[k].rule
    BY <1>1, NumberedRows
  <1> DEFINE P == {k \in DOMAIN moved : moved[k].order # k - 1}
             N == Numbered(moved)
  <1>5. DOMAIN moved = 1 .. n /\ DOMAIN N = 1 .. n
    BY <1>1, <1>4, LenProperties
  <1>6. P \in SUBSET (DOMAIN N)
    BY <1>5
  <1> HIDE DEF P, N
  <1>7. Touched(moved) = AtPositions(N, P)
    BY DEF Touched, P, N
  <1>8. /\ AtPositions(N, P) \in Seq(RowSet)
        /\ \A k \in DOMAIN AtPositions(N, P) : \E j \in P : AtPositions(N, P)[k] = N[j]
    BY <1>4, <1>6, PickedRows DEF N
  <1>9. \A j \in 1 .. n : N[j].rule \in ToSet(RulesOf(rows))
    <2>1. \A j \in 1 .. n : N[j].rule \in ToSet(RulesOf(moved))
      BY <1>1, <1>4, <1>5 DEF ToSet, RulesOf, N
    <2> QED
      BY <1>3, <2>1
  <1> QED
    BY <1>3, <1>4, <1>5, <1>6, <1>7, <1>8, <1>9 DEF moved
-----------------------------------------------------------------------------
(***************************************************************************)
(* The types.                                                              *)
(***************************************************************************)
Screens == {"loading", "table", "empty", "auth", "error"}
FlowOps == {"none", "reload", "switch", "toggle", "save", "duplicate", "delete", "move"}
SaveCmds ==
    [op : {"saveRule"}, id : Nat, order : Int,
     draft : [name : Names, body : Bodies, active : BOOLEAN]]
DeleteCmds == [op : {"deleteRule"}, id : Nat]
SwitchCmds == [op : {"setRuleActive"}, id : Nat, active : BOOLEAN]
ListCmd == [op |-> "listRules"]
Cmds == [op : {"none", "listRules"}] \cup SaveCmds \cup DeleteCmds \cup SwitchCmds
Answers ==
    [kind : {"none", "list", "error", "no_password", "lost"}, rules : Seq(Rules)]
FlowType ==
    [op : FlowOps, account : Account \cup {NoAccount}, cmd : Cmds, rest : Seq(RowSet),
     tied : SUBSET Nat, answer : Answers]
PageType ==
    [rules : Seq(RowSet), account : Account, loaded : Account \cup {NoAccount},
     selected : SUBSET Nat, busy : BOOLEAN, auth : BOOLEAN, screen : Screens,
     draft : RowSet \cup {NoDraft}, whole : BOOLEAN]

\* Each handler sends its command, and only a reload waits with an answer, a list without
\* an id twice.
Sends(f) ==
    /\ f.op \in {"save", "duplicate", "move"} => f.cmd \in SaveCmds
    /\ f.op = "delete" => f.cmd \in DeleteCmds
    /\ f.op = "toggle" => f.cmd \in SwitchCmds
    /\ f.op = "reload" => f.cmd = ListCmd
    /\ f.op # "reload" => f.answer = NoAnswer
    /\ Unique(f.answer.rules)

TypeInv ==
    /\ server \in [Account -> Seq(Rules)]
    /\ queue \in [Account -> Seq(Slot)]
    /\ flows \in [Slot -> FlowType]
    /\ \A s \in Slot : Sends(flows[s])
    /\ page \in PageType
    /\ fresh \in Nat \ {NoId}
    /\ faults \in Nat /\ lost \in BOOLEAN /\ rushed \in BOOLEAN

(***************************************************************************)
(* The queues: who waits in one waits for its account, and only once.      *)
(***************************************************************************)
WaitsFor(f, a) == f.op \notin {"none", "switch"} /\ f.account = a /\ f.answer = NoAnswer

Lined(q, fs) ==
    \A a \in Account :
        /\ \A i \in DOMAIN q[a] : WaitsFor(fs[q[a][i]], a)
        /\ \A i, j \in DOMAIN q[a] : q[a][i] = q[a][j] => i = j
Absent(q, s) == \A a \in Account : \A i \in DOMAIN q[a] : q[a][i] # s
Queued == Lined(queue, flows)

LEMMA LineStays ==
    ASSUME NEW q \in [Account -> Seq(Slot)], NEW fs, NEW gs, Lined(q, fs),
           \A t \in Slot : \A a \in Account : WaitsFor(fs[t], a) => WaitsFor(gs[t], a)
    PROVE  Lined(q, gs)
  <1>1. \A a \in Account : \A i \in DOMAIN q[a] : q[a][i] \in Slot
    BY ElementsOf
  <1> QED
    BY <1>1 DEF Lined

LEMMA LineGrows ==
    ASSUME NEW q \in [Account -> Seq(Slot)], NEW fs, NEW gs, Lined(q, fs),
           NEW a \in Account, NEW s \in Slot, Absent(q, s), WaitsFor(gs[s], a),
           \A t \in Slot \ {s} : \A b \in Account : WaitsFor(fs[t], b) => WaitsFor(gs[t], b)
    PROVE  /\ [q EXCEPT ![a] = Append(@, s)] \in [Account -> Seq(Slot)]
           /\ Lined([q EXCEPT ![a] = Append(@, s)], gs)
  <1> DEFINE n == Len(q[a])
             new == Append(q[a], s)
             p == [q EXCEPT ![a] = Append(@, s)]
  <1>1. /\ n \in Nat /\ DOMAIN q[a] = 1 .. n /\ q[a] \in Seq(Slot)
        /\ \A i \in 1 .. n : q[a][i] \in Slot
    BY ElementsOf
  <1>2. /\ new \in Seq(Slot) /\ Len(new) = n + 1
        /\ \A i \in 1 .. n : new[i] = q[a][i]
        /\ new[n + 1] = s
    BY <1>1, AppendProperties
  <1>3. DOMAIN new = 1 .. n + 1
    BY <1>2, LenProperties
  <1>4. p \in [Account -> Seq(Slot)] /\ p[a] = new /\ \A b \in Account \ {a} : p[b] = q[b]
    BY <1>2
  <1> HIDE DEF n, new, p
  <1>5. \A i \in 1 .. n : q[a][i] \in Slot \ {s}
    BY <1>1 DEF Absent
  <1>6. \A i \in 1 .. n + 1 : i \in 1 .. n \/ i = n + 1
    BY <1>1
  <1>7. ASSUME NEW i \in 1 .. n + 1 PROVE WaitsFor(gs[new[i]], a)
    <2>1. CASE i \in 1 .. n
      <3>1. WaitsFor(fs[q[a][i]], a)
        BY <1>1, <2>1 DEF Lined
      <3> QED
        BY <1>2, <1>5, <2>1, <3>1
    <2>2. CASE i = n + 1
      BY <1>2, <2>2
    <2> QED
      BY <1>6, <2>1, <2>2
  <1>8. ASSUME NEW i \in 1 .. n + 1, NEW j \in 1 .. n + 1, new[i] = new[j] PROVE i = j
    <2>1. CASE i \in 1 .. n /\ j \in 1 .. n
      <3>1. q[a][i] = q[a][j]
        BY <1>2, <1>8, <2>1
      <3> QED
        BY <1>1, <2>1, <3>1 DEF Lined
    <2>2. CASE i = n + 1 /\ j \in 1 .. n
      BY <1>2, <1>5, <1>8, <2>2
    <2>3. CASE i \in 1 .. n /\ j = n + 1
      BY <1>2, <1>5, <1>8, <2>3
    <2> QED
      BY <1>6, <2>1, <2>2, <2>3
  <1>9. ASSUME NEW b \in Account \ {a}
        PROVE  /\ \A i \in DOMAIN q[b] : WaitsFor(gs[q[b][i]], b)
               /\ \A i, j \in DOMAIN q[b] : q[b][i] = q[b][j] => i = j
    <2>1. \A i \in DOMAIN q[b] : q[b][i] \in Slot \ {s}
      BY ElementsOf DEF Absent
    <2> QED
      BY <2>1 DEF Lined
  <1>10. Lined(p, gs)
    BY <1>3, <1>4, <1>7, <1>8, <1>9, ZenonT(60) DEF Lined
  <1> QED
    BY <1>4, <1>10 DEF p

LEMMA LineServed ==
    ASSUME NEW q \in [Account -> Seq(Slot)], NEW fs, NEW gs, Lined(q, fs),
           NEW a \in Account, NEW s \in Slot, q[a] # <<>>, Head(q[a]) = s,
           \A t \in Slot \ {s} : \A b \in Account : WaitsFor(fs[t], b) => WaitsFor(gs[t], b)
    PROVE  /\ WaitsFor(fs[s], a)
           /\ [q EXCEPT ![a] = Tail(@)] \in [Account -> Seq(Slot)]
           /\ Lined([q EXCEPT ![a] = Tail(@)], gs)
           /\ Absent([q EXCEPT ![a] = Tail(@)], s)
  <1> DEFINE n == Len(q[a])
             new == Tail(q[a])
             p == [q EXCEPT ![a] = Tail(@)]
  <1>1. /\ n \in Nat /\ DOMAIN q[a] = 1 .. n /\ q[a] \in Seq(Slot)
        /\ \A i \in 1 .. n : q[a][i] \in Slot
    BY ElementsOf
  <1>2. /\ new \in Seq(Slot) /\ Len(new) = n - 1
        /\ \A i \in 1 .. n - 1 : new[i] = q[a][i + 1]
    BY <1>1, HeadTailProperties
  <1>0. n >= 1 /\ q[a][1] = s
    BY <1>1
  <1>3. DOMAIN new = 1 .. n - 1
    BY <1>2, LenProperties
  <1>4. p \in [Account -> Seq(Slot)] /\ p[a] = new /\ \A b \in Account \ {a} : p[b] = q[b]
    BY <1>2
  <1> HIDE DEF n, new, p
  <1>5. WaitsFor(fs[s], a)
    BY <1>0, <1>1 DEF Lined
  <1>6. ASSUME NEW i \in 1 .. n - 1 PROVE i + 1 \in 1 .. n /\ new[i] = q[a][i + 1] /\ new[i] # s
    <2>1. i + 1 \in 1 .. n /\ 1 \in 1 .. n /\ i + 1 # 1
      BY <1>0, <1>1
    <2>2. q[a][i + 1] # q[a][1]
      BY <1>1, <2>1 DEF Lined
    <2> QED
      BY <1>0, <1>2, <2>1, <2>2
  <1>7. ASSUME NEW b \in Account \ {a}, NEW i \in DOMAIN q[b]
        PROVE  q[b][i] # s /\ q[b][i] \in Slot
    <2>1. WaitsFor(fs[q[b][i]], b) /\ q[b][i] \in Slot
      BY ElementsOf DEF Lined
    <2> QED
      BY <1>5, <2>1 DEF WaitsFor
  <1>8. Absent(p, s)
    BY <1>3, <1>4, <1>6, <1>7 DEF Absent
  <1>9. \A i \in 1 .. n - 1 : WaitsFor(gs[new[i]], a)
    <2> SUFFICES ASSUME NEW i \in 1 .. n - 1 PROVE WaitsFor(gs[new[i]], a)
      OBVIOUS
    <2>1. WaitsFor(fs[new[i]], a) /\ new[i] \in Slot \ {s}
      BY <1>1, <1>6 DEF Lined
    <2> QED
      BY <2>1
  <1>10. ASSUME NEW i \in 1 .. n - 1, NEW j \in 1 .. n - 1, new[i] = new[j] PROVE i = j
    <2>1. i + 1 = j + 1
      BY <1>1, <1>6, <1>10 DEF Lined
    <2> QED
      BY <1>1, <2>1
  <1>11. \A b \in Account \ {a} :
           /\ \A i \in DOMAIN q[b] : WaitsFor(gs[q[b][i]], b)
           /\ \A i, j \in DOMAIN q[b] : q[b][i] = q[b][j] => i = j
    BY <1>7 DEF Lined
  <1>12. Lined(p, gs)
    BY <1>3, <1>4, <1>9, <1>10, <1>11 DEF Lined
  <1> QED
    BY <1>4, <1>5, <1>8, <1>12 DEF p

\* A handler that waits for nothing, or has its answer, is in no queue.
LEMMA NotInLine ==
    ASSUME TypeInv, Queued, NEW s \in Slot,
           flows[s].op \in {"none", "switch"} \/ flows[s].answer # NoAnswer
    PROVE  Absent(queue, s)
  <1>1. \A a \in Account : ~WaitsFor(flows[s], a)
    BY DEF WaitsFor
  <1> QED
    BY <1>1 DEF Queued, Lined, Absent

(***************************************************************************)
(* The ids: all of them were given out, no list has one twice, and the id  *)
(* of a copy under way is nowhere else.                                    *)
(***************************************************************************)
FlowIds(f) ==
    (IF f.op \in {"save", "duplicate", "move"} THEN {f.cmd.id} ELSE {})
      \cup {f.rest[i].rule.id : i \in DOMAIN f.rest} \cup IdsOf(f.answer.rules)
DraftIds == IF Modal THEN {page.draft.rule.id} ELSE {}
StoredIds == UNION {IdsOf(server[a]) : a \in Account}
GivenOut == 1 .. fresh - 1

KnownIds ==
    /\ StoredIds \cup PageIds \cup DraftIds \subseteq GivenOut
    /\ \A s \in Slot : FlowIds(flows[s]) \subseteq GivenOut
NewIds ==
    \A s \in Slot : flows[s].op = "duplicate" =>
        /\ flows[s].cmd.id \notin StoredIds \cup PageIds \cup DraftIds
        /\ \A t \in Slot \ {s} : flows[s].cmd.id \notin FlowIds(flows[t])
UniqueIds == (\A a \in Account : Unique(server[a])) /\ Unique(PageRules)

PageInv == TypeInv /\ Queued /\ UniqueIds /\ KnownIds /\ NewIds

\* A handler is left as it was, but for what its rows show.
Alike(g, f) ==
    /\ g.op = f.op /\ g.account = f.account /\ g.cmd = f.cmd /\ g.answer = f.answer
    /\ FlowIds(g) = FlowIds(f)

LEMMA IdsOfElements ==
    ASSUME NEW rules
    PROVE  IdsOf(rules) = {rule.id : rule \in ToSet(rules)}
  BY DEF IdsOf, ToSet

LEMMA PageIdsAre ==
    PageIds = {rule.id : rule \in ToSet(PageRules)}
  BY DEF PageIds, PageRules, ToSet

LEMMA IdsStay ==
    ASSUME KnownIds, NewIds, UNCHANGED <<server, flows, fresh>>,
           PageIds' \cup DraftIds' \subseteq PageIds \cup DraftIds
    PROVE  KnownIds' /\ NewIds'
  <1>1. StoredIds' = StoredIds /\ GivenOut' = GivenOut
    BY DEF StoredIds, GivenOut
  <1>2. KnownIds'
    BY <1>1 DEF KnownIds
  <1>3. NewIds'
    BY <1>1 DEF NewIds
  <1> QED
    BY <1>2, <1>3

\* A step of one handler spreads no id but those of the page, the lists and its own.
LEMMA IdsSpread ==
    ASSUME KnownIds, NewIds, NEW s \in Slot, fresh' = fresh,
           StoredIds' \subseteq StoredIds \cup FlowIds(flows[s]),
           PageIds' \cup DraftIds' \subseteq PageIds \cup DraftIds \cup FlowIds(flows[s]),
           FlowIds(flows'[s]) \subseteq StoredIds \cup PageIds \cup DraftIds \cup FlowIds(flows[s]),
           flows'[s].op # "duplicate",
           \A t \in Slot \ {s} : Alike(flows'[t], flows[t])
    PROVE  KnownIds' /\ NewIds'
  <1>0. GivenOut' = GivenOut
    BY DEF GivenOut
  <1>1. KnownIds'
    <2>1. StoredIds' \cup PageIds' \cup DraftIds' \subseteq GivenOut
      BY DEF KnownIds
    <2>2. \A t \in Slot : FlowIds(flows'[t]) \subseteq GivenOut
      BY DEF KnownIds, Alike
    <2> QED
      BY <1>0, <2>1, <2>2 DEF KnownIds
  <1>2. ASSUME NEW t \in Slot, flows'[t].op = "duplicate"
        PROVE  /\ flows'[t].cmd.id \notin StoredIds' \cup PageIds' \cup DraftIds'
               /\ \A u \in Slot \ {t} : flows'[t].cmd.id \notin FlowIds(flows'[u])
    <2>1. t # s
      BY <1>2
    <2>2. flows[t].op = "duplicate" /\ flows'[t].cmd.id = flows[t].cmd.id
      BY <1>2, <2>1 DEF Alike
    <2>3. /\ flows[t].cmd.id \notin StoredIds \cup PageIds \cup DraftIds
          /\ \A u \in Slot \ {t} : flows[t].cmd.id \notin FlowIds(flows[u])
      BY <2>2 DEF NewIds
    <2>4. \A u \in Slot \ {s} : FlowIds(flows'[u]) = FlowIds(flows[u])
      BY DEF Alike
    <2> HIDE DEF FlowIds, StoredIds, PageIds, DraftIds
    <2> QED
      BY <2>1, <2>2, <2>3, <2>4
  <1>3. NewIds'
    BY <1>2 DEF NewIds
  <1> QED
    BY <1>1, <1>3

(***************************************************************************)
(* Handlers and the messages they send.                                    *)
(***************************************************************************)
LEMMA NoAnswerIs ==
    NoAnswer \in Answers /\ Unique(NoAnswer.rules)
  <1>1. NoAnswer.rules = <<>> /\ DOMAIN <<>> = {}
    BY DEF NoAnswer
  <1> QED
    BY <1>1 DEF NoAnswer, Answers, Unique

LEMMA NoFlowIs ==
    /\ NoFlow \in FlowType /\ Sends(NoFlow) /\ FlowIds(NoFlow) = {}
    /\ NoFlow.op = "none" /\ NoFlow.answer = NoAnswer
  <1>1. NoAnswer \in Answers
    BY DEF NoAnswer, Answers
  <1>2. [op |-> "none"] \in Cmds
    BY DEF Cmds
  <1>3. <<>> \in Seq(RowSet) /\ DOMAIN <<>> = {}
    OBVIOUS
  <1>4. NoFlow \in FlowType
    BY <1>1, <1>2, <1>3 DEF NoFlow, FlowType, FlowOps
  <1>5. FlowIds(NoFlow) = {}
    <2>1. {NoFlow.rest[i].rule.id : i \in DOMAIN NoFlow.rest} = {}
      BY <1>3 DEF NoFlow
    <2>2. IdsOf(NoFlow.answer.rules) = {}
      BY <1>3 DEF NoFlow, NoAnswer, IdsOf
    <2>3. NoFlow.op \notin {"save", "duplicate", "move"}
      BY DEF NoFlow
    <2> QED
      BY <2>1, <2>2, <2>3 DEF FlowIds
  <1> QED
    BY <1>4, <1>5, NoAnswerIs DEF NoFlow, Sends

\* A new handler.
Flow(op, a, cmd, rest, tied) ==
    [op |-> op, account |-> a, cmd |-> cmd, rest |-> rest, tied |-> tied, answer |-> NoAnswer]

LEMMA FlowIs ==
    ASSUME NEW op \in FlowOps, NEW a \in Account \cup {NoAccount}, NEW cmd \in Cmds,
           NEW rest \in Seq(RowSet), NEW tied \in SUBSET Nat, NEW f,
           f = Flow(op, a, cmd, rest, tied)
    PROVE  /\ f \in FlowType /\ f.op = op /\ f.account = a /\ f.cmd = cmd /\ f.rest = rest
           /\ f.tied = tied /\ f.answer = NoAnswer
           /\ op \in {"save", "duplicate", "move"} =>
                FlowIds(f) = {cmd.id} \cup {rest[i].rule.id : i \in DOMAIN rest}
           /\ op \notin {"save", "duplicate", "move"} =>
                FlowIds(f) = {rest[i].rule.id : i \in DOMAIN rest}
  <1>1. /\ f.op = op /\ f.account = a /\ f.cmd = cmd /\ f.rest = rest /\ f.tied = tied
        /\ f.answer = NoAnswer
    BY DEF Flow
  <1>2. NoAnswer \in Answers
    BY DEF NoAnswer, Answers
  <1>3. IdsOf(NoAnswer.rules) = {}
    <2>1. NoAnswer.rules = <<>> /\ DOMAIN <<>> = {}
      BY DEF NoAnswer
    <2> QED
      BY <2>1 DEF IdsOf
  <1>4. f \in FlowType
    BY <1>2 DEF FlowType, Flow
  <1>5. FlowIds(f) = (IF op \in {"save", "duplicate", "move"} THEN {cmd.id} ELSE {})
                       \cup {rest[i].rule.id : i \in DOMAIN rest} \cup {}
    BY <1>1, <1>3 DEF FlowIds
  <1> QED
    BY <1>1, <1>4, <1>5

LEMMA NoRows ==
    /\ <<>> \in Seq(RowSet) /\ DOMAIN <<>> = {}
    /\ {<<>>[i].rule.id : i \in DOMAIN <<>>} = {}
  <1>1. <<>> \in Seq(RowSet) /\ DOMAIN <<>> = {}
    OBVIOUS
  <1> QED
    BY <1>1

LEMMA ListFlowIs ==
    ASSUME NEW a \in Account, NEW f, f = [ListFlow EXCEPT !.account = a]
    PROVE  /\ f \in FlowType /\ Sends(f) /\ WaitsFor(f, a) /\ FlowIds(f) = {}
           /\ f.op = "reload" /\ f.account = a /\ f.tied = {} /\ f.rest = <<>>
           /\ f.answer = NoAnswer
  <1> DEFINE r == <<>>
             op == "reload"
             nothing == {}
  <1>1. /\ ListCmd \in Cmds /\ nothing \in SUBSET Nat /\ op \in FlowOps
        /\ op \notin {"save", "duplicate", "move"} /\ a \in Account \cup {NoAccount}
        /\ r \in Seq(RowSet) /\ {r[i].rule.id : i \in DOMAIN r} = {}
    BY NoRows DEF ListCmd, Cmds, FlowOps
  <1>2. f = Flow(op, a, ListCmd, r, nothing)
    BY DEF ListFlow, NoFlow, ListCmd, Flow
  <1> HIDE DEF r, op, nothing
  <1>3. /\ f \in FlowType /\ f.op = op /\ f.account = a /\ f.cmd = ListCmd
        /\ f.rest = r /\ f.tied = nothing /\ f.answer = NoAnswer
        /\ FlowIds(f) = {r[i].rule.id : i \in DOMAIN r}
    <2>1. f \in FlowType
      BY <1>1, <1>2, FlowIs
    <2>2. FlowIds(f) = {r[i].rule.id : i \in DOMAIN r}
      BY <1>1, <1>2, FlowIs
    <2>3. /\ f.op = op /\ f.account = a /\ f.cmd = ListCmd
          /\ f.rest = r /\ f.tied = nothing /\ f.answer = NoAnswer
      BY <1>2 DEF Flow
    <2> QED
      BY <2>1, <2>2, <2>3
  <1>4. f.op = "reload" /\ f.rest = <<>> /\ f.tied = {}
    BY <1>3 DEF op, r, nothing
  <1> QED
    BY <1>1, <1>3, <1>4, NoAnswerIs DEF Sends, WaitsFor

LEMMA SaveCmdIs ==
    ASSUME NEW row \in RowSet
    PROVE  /\ SaveCmd(row) \in SaveCmds /\ SaveCmd(row) \in Cmds
           /\ SaveCmd(row).id = row.rule.id /\ SaveCmd(row).order = row.order
           /\ Stored(SaveCmd(row).id, SaveCmd(row).draft) = row.rule
  <1>1. row.rule \in Rules /\ row.order \in Int
    BY RowFields
  <1> DEFINE rule == row.rule
  <1>2. rule = [id |-> rule.id, name |-> rule.name, body |-> rule.body, active |-> rule.active]
        /\ rule.id \in Nat /\ rule.name \in Names /\ rule.body \in Bodies /\ rule.active \in BOOLEAN
    BY <1>1 DEF Rules
  <1>3. SaveCmd(row) \in SaveCmds
    BY <1>1, <1>2 DEF SaveCmd, SaveCmds
  <1>4. SaveCmd(row).id = rule.id /\ SaveCmd(row).order = row.order
        /\ SaveCmd(row).draft = [name |-> rule.name, body |-> rule.body, active |-> rule.active]
    BY DEF SaveCmd
  <1>5. Stored(SaveCmd(row).id, SaveCmd(row).draft) = rule
    BY <1>2, <1>4 DEF Stored
  <1> QED
    BY <1>3, <1>4, <1>5 DEF Cmds

LEMMA SavedRowIs ==
    ASSUME NEW cmd \in SaveCmds
    PROVE  /\ Stored(cmd.id, cmd.draft) \in Rules /\ Stored(cmd.id, cmd.draft).id = cmd.id
           /\ SavedRow(cmd) \in RowSet
           /\ SavedRow(cmd).rule = Stored(cmd.id, cmd.draft) /\ SavedRow(cmd).order = cmd.order
  <1>1. /\ cmd.id \in Nat /\ cmd.order \in Int
        /\ cmd.draft \in [name : Names, body : Bodies, active : BOOLEAN]
    BY DEF SaveCmds
  <1>2. Stored(cmd.id, cmd.draft) \in Rules /\ Stored(cmd.id, cmd.draft).id = cmd.id
    BY <1>1 DEF Stored, Rules
  <1> QED
    BY <1>1, <1>2, RowIs DEF SavedRow

LEMMA RestIds ==
    ASSUME NEW f \in FlowType, f.rest # <<>>
    PROVE  /\ Head(f.rest) \in RowSet /\ Tail(f.rest) \in Seq(RowSet)
           /\ Head(f.rest).rule.id \in FlowIds(f)
           /\ {Tail(f.rest)[i].rule.id : i \in DOMAIN Tail(f.rest)} \subseteq FlowIds(f)
           /\ \E i \in DOMAIN f.rest : Head(f.rest) = f.rest[i]
           /\ \A i \in DOMAIN Tail(f.rest) : \E j \in DOMAIN f.rest : Tail(f.rest)[i] = f.rest[j]
  <1> DEFINE r == f.rest
             n == Len(r)
  <1>1. r \in Seq(RowSet) /\ n \in Nat /\ DOMAIN r = 1 .. n
    BY ElementsOf DEF FlowType
  <1>2. /\ Head(r) \in RowSet /\ Tail(r) \in Seq(RowSet) /\ Len(Tail(r)) = n - 1
        /\ \A i \in 1 .. n - 1 : Tail(r)[i] = r[i + 1]
    BY <1>1, HeadTailProperties
  <1>3. n >= 1 /\ Head(r) = r[1] /\ 1 \in DOMAIN r
    BY <1>1
  <1>4. DOMAIN Tail(r) = 1 .. n - 1
    BY <1>2, LenProperties
  <1>5. \A i \in 1 .. n - 1 : i + 1 \in DOMAIN r
    BY <1>1
  <1>6. \A i \in DOMAIN Tail(r) : \E j \in DOMAIN r : Tail(r)[i] = r[j]
    BY <1>2, <1>4, <1>5
  <1> HIDE DEF r
  <1>7. {r[i].rule.id : i \in DOMAIN r} \subseteq FlowIds(f)
    BY DEF FlowIds, r
  <1>8. {Tail(r)[i].rule.id : i \in DOMAIN Tail(r)} \subseteq {r[i].rule.id : i \in DOMAIN r}
    BY <1>6
  <1>9. Head(r).rule.id \in {r[i].rule.id : i \in DOMAIN r}
    BY <1>3
  <1> QED
    BY <1>2, <1>3, <1>6, <1>7, <1>8, <1>9 DEF r

\* A toggle reaches into the rows of the moves under way, and changes no id.
LEMMA SetActiveFlows ==
    ASSUME NEW fs \in [Slot -> FlowType], \A t \in Slot : Sends(fs[t]),
           NEW id, NEW active \in BOOLEAN
    PROVE  /\ SetActive(fs, id, active) \in [Slot -> FlowType]
           /\ \A t \in Slot : /\ Sends(SetActive(fs, id, active)[t])
                              /\ Alike(SetActive(fs, id, active)[t], fs[t])
                              /\ SetActive(fs, id, active)[t].tied = fs[t].tied
  <1> DEFINE gs == SetActive(fs, id, active)
  <1>1. gs = [t \in Slot |-> gs[t]]
    BY DEF SetActive
  <1>2. ASSUME NEW t \in Slot
        PROVE  gs[t] \in FlowType /\ Sends(gs[t]) /\ Alike(gs[t], fs[t]) /\ gs[t].tied = fs[t].tied
    <2> DEFINE f == fs[t]
               rest == WithActive(f.rest, f.tied, id, active)
    <2>1. f \in FlowType /\ Sends(f) /\ f.rest \in Seq(RowSet)
      BY DEF FlowType
    <2>2. gs[t] = [f EXCEPT !.rest = rest]
      BY <2>1 DEF SetActive, FlowType
    <2>3. /\ rest \in Seq(RowSet) /\ Len(rest) = Len(f.rest)
          /\ \A i \in 1 .. Len(f.rest) : rest[i].rule.id = f.rest[i].rule.id
      BY <2>1, SwitchedRows
    <2> HIDE DEF rest, gs, f
    <2>4. DOMAIN rest = DOMAIN f.rest /\ \A i \in DOMAIN f.rest : rest[i].rule.id = f.rest[i].rule.id
      BY <2>1, <2>3, LenProperties
    <2>5. {rest[i].rule.id : i \in DOMAIN rest} = {f.rest[i].rule.id : i \in DOMAIN f.rest}
      BY <2>4
    <2>6. /\ gs[t] \in FlowType /\ gs[t].op = f.op /\ gs[t].account = f.account
          /\ gs[t].cmd = f.cmd /\ gs[t].answer = f.answer /\ gs[t].tied = f.tied
          /\ gs[t].rest = rest
      BY <2>1, <2>2, <2>3 DEF FlowType
    <2>7. FlowIds(gs[t]) = FlowIds(f)
      BY <2>5, <2>6 DEF FlowIds
    <2>8. Sends(gs[t])
      BY <2>1, <2>6 DEF Sends
    <2> QED
      BY <2>6, <2>7, <2>8 DEF Alike, f
  <1> HIDE DEF gs
  <1>3. gs \in [Slot -> FlowType]
    BY <1>1, <1>2
  <1> QED
    BY <1>2, <1>3 DEF gs

Retied(fs, tied) == [t \in Slot |-> [fs[t] EXCEPT !.tied = tied[t]]]

LEMMA TiedFlows ==
    ASSUME NEW fs \in [Slot -> FlowType], \A t \in Slot : Sends(fs[t]),
           NEW tied \in [Slot -> SUBSET Nat], NEW gs,
           gs = Retied(fs, tied)
    PROVE  /\ gs \in [Slot -> FlowType]
           /\ \A t \in Slot : /\ Sends(gs[t]) /\ Alike(gs[t], fs[t]) /\ gs[t].tied = tied[t]
                              /\ gs[t].rest = fs[t].rest
  <1>1. ASSUME NEW t \in Slot
        PROVE  /\ gs[t] \in FlowType /\ gs[t].op = fs[t].op /\ gs[t].account = fs[t].account
               /\ gs[t].cmd = fs[t].cmd /\ gs[t].answer = fs[t].answer
               /\ gs[t].rest = fs[t].rest /\ gs[t].tied = tied[t]
    <2>1. fs[t] \in FlowType /\ tied[t] \in SUBSET Nat /\ gs[t] = [fs[t] EXCEPT !.tied = tied[t]]
      BY DEF Retied
    <2> QED
      BY <2>1 DEF FlowType
  <1>2. ASSUME NEW t \in Slot PROVE Sends(gs[t]) /\ FlowIds(gs[t]) = FlowIds(fs[t])
    BY <1>1 DEF Sends, FlowIds
  <1>3. gs \in [Slot -> FlowType]
    <2>1. gs = [t \in Slot |-> gs[t]]
      BY DEF Retied
    <2> QED
      BY <1>1, <2>1
  <1> QED
    BY <1>1, <1>2, <1>3 DEF Alike

\* A handler sends a message.
LEMMA Sent ==
    ASSUME TypeInv, Queued, NEW s \in Slot, NEW a \in Account, Absent(queue, s),
           NEW gs \in [Slot -> FlowType], \A t \in Slot : Sends(gs[t]) /\ Alike(gs[t], flows[t]),
           NEW f \in FlowType, Sends(f), WaitsFor(f, a),
           flows' = [gs EXCEPT ![s] = f], queue' = [queue EXCEPT ![a] = Append(@, s)]
    PROVE  /\ flows' \in [Slot -> FlowType] /\ \A t \in Slot : Sends(flows'[t])
           /\ queue' \in [Account -> Seq(Slot)] /\ Queued'
           /\ flows'[s] = f
           /\ \A t \in Slot \ {s} : flows'[t] = gs[t] /\ Alike(flows'[t], flows[t])
  <1>1. /\ flows' \in [Slot -> FlowType] /\ flows'[s] = f
        /\ \A t \in Slot \ {s} : flows'[t] = gs[t] /\ Alike(flows'[t], flows[t])
    OBVIOUS
  <1>2. \A t \in Slot : Sends(flows'[t])
    BY <1>1
  <1>3. \A t \in Slot \ {s} : \A b \in Account : WaitsFor(flows[t], b) => WaitsFor(flows'[t], b)
    BY <1>1 DEF Alike, WaitsFor
  <1>4. queue \in [Account -> Seq(Slot)] /\ Lined(queue, flows)
    BY DEF TypeInv, Queued
  <1>5. WaitsFor(flows'[s], a)
    BY <1>1
  <1>6. /\ [queue EXCEPT ![a] = Append(@, s)] \in [Account -> Seq(Slot)]
        /\ Lined([queue EXCEPT ![a] = Append(@, s)], flows')
    BY <1>3, <1>4, <1>5, LineGrows
  <1> QED
    BY <1>1, <1>2, <1>6 DEF Queued

LEMMA AlikeSelf ==
    ASSUME TypeInv
    PROVE  \A t \in Slot : flows[t] \in FlowType /\ Sends(flows[t]) /\ Alike(flows[t], flows[t])
  BY DEF TypeInv, Alike

\* The queue moves on.
LEMMA Served ==
    ASSUME TypeInv, Queued, NEW s \in Slot, NEW a \in Account, AtHead(s, a),
           NEW gs, \A t \in Slot \ {s} : Alike(gs[t], flows[t])
    PROVE  /\ [queue EXCEPT ![a] = Tail(@)] \in [Account -> Seq(Slot)]
           /\ Lined([queue EXCEPT ![a] = Tail(@)], gs)
           /\ Absent([queue EXCEPT ![a] = Tail(@)], s)
           /\ WaitsFor(flows[s], a)
  <1>1. \A t \in Slot \ {s} : \A b \in Account : WaitsFor(flows[t], b) => WaitsFor(gs[t], b)
    BY DEF Alike, WaitsFor
  <1>2. queue \in [Account -> Seq(Slot)] /\ Lined(queue, flows)
        /\ queue[a] # <<>> /\ Head(queue[a]) = s
    BY DEF TypeInv, Queued, AtHead
  <1> QED
    BY <1>1, <1>2, LineServed

\* A handler has its answer, and is done.
LEMMA Ended ==
    ASSUME TypeInv, Queued, NEW s \in Slot, NEW a \in Account, AtHead(s, a),
           NEW gs \in [Slot -> FlowType], \A t \in Slot : Sends(gs[t]) /\ Alike(gs[t], flows[t]),
           Ends(s, a, gs)
    PROVE  /\ flows' \in [Slot -> FlowType] /\ \A t \in Slot : Sends(flows'[t])
           /\ queue' \in [Account -> Seq(Slot)] /\ Queued'
           /\ flows'[s] = NoFlow /\ flows'[s].op = "none" /\ FlowIds(flows'[s]) = {}
           /\ \A t \in Slot \ {s} : flows'[t] = gs[t] /\ Alike(flows'[t], flows[t])
  <1>1. flows' = [gs EXCEPT ![s] = NoFlow] /\ queue' = [queue EXCEPT ![a] = Tail(@)]
    BY DEF Ends
  <1>2. /\ flows' \in [Slot -> FlowType] /\ flows'[s] = NoFlow
        /\ \A t \in Slot \ {s} : flows'[t] = gs[t] /\ Alike(flows'[t], flows[t])
    BY <1>1, NoFlowIs
  <1>3. \A t \in Slot : Sends(flows'[t])
    BY <1>2, NoFlowIs
  <1>4. /\ [queue EXCEPT ![a] = Tail(@)] \in [Account -> Seq(Slot)]
        /\ Lined([queue EXCEPT ![a] = Tail(@)], flows')
    BY <1>2, Served
  <1> QED
    BY <1>1, <1>2, <1>3, <1>4, NoFlowIs DEF Queued

\* A reload has its answer, and waits at the page.
LEMMA Waits ==
    ASSUME TypeInv, Queued, NEW s \in Slot, NEW a \in Account, AtHead(s, a),
           flows[s].op = "reload", NEW answer \in Answers, Unique(answer.rules),
           flows' = [flows EXCEPT ![s].answer = answer],
           queue' = [queue EXCEPT ![a] = Tail(@)]
    PROVE  /\ flows' \in [Slot -> FlowType] /\ \A t \in Slot : Sends(flows'[t])
           /\ queue' \in [Account -> Seq(Slot)] /\ Queued'
           /\ flows'[s] = [flows[s] EXCEPT !.answer = answer]
           /\ flows'[s].op = "reload" /\ flows'[s].account = flows[s].account
           /\ flows'[s].answer = answer /\ flows'[s].rest = flows[s].rest
           /\ flows'[s].tied = flows[s].tied
           /\ \A t \in Slot \ {s} : flows'[t] = flows[t] /\ Alike(flows'[t], flows[t])
  <1>0. flows[s] \in FlowType /\ Sends(flows[s]) /\ flows \in [Slot -> FlowType]
    BY DEF TypeInv
  <1>1. /\ flows'[s] = [flows[s] EXCEPT !.answer = answer]
        /\ \A t \in Slot \ {s} : flows'[t] = flows[t] /\ Alike(flows'[t], flows[t])
        /\ flows' = [t \in Slot |-> flows'[t]]
    BY <1>0 DEF Alike
  <1>2. /\ flows'[s] \in FlowType /\ flows'[s].op = "reload"
        /\ flows'[s].account = flows[s].account /\ flows'[s].cmd = flows[s].cmd
        /\ flows'[s].rest = flows[s].rest /\ flows'[s].tied = flows[s].tied
        /\ flows'[s].answer = answer
    BY <1>0, <1>1 DEF FlowType
  <1>3. Sends(flows'[s])
    BY <1>0, <1>2 DEF Sends
  <1>4. flows' \in [Slot -> FlowType] /\ \A t \in Slot : Sends(flows'[t])
    BY <1>1, <1>2, <1>3, AlikeSelf
  <1>5. /\ [queue EXCEPT ![a] = Tail(@)] \in [Account -> Seq(Slot)]
        /\ Lined([queue EXCEPT ![a] = Tail(@)], flows')
    BY <1>1, Served
  <1> QED
    BY <1>1, <1>2, <1>4, <1>5 DEF Queued

\* A handler has its answer, and sends the next message to the account selected by now.
LEMMA WentOn ==
    ASSUME TypeInv, Queued, NEW s \in Slot, NEW a \in Account, AtHead(s, a),
           NEW f \in FlowType, Sends(f), f.op \notin {"none", "switch"}, f.answer = NoAnswer,
           GoesOn(s, a, f)
    PROVE  /\ flows' \in [Slot -> FlowType] /\ \A t \in Slot : Sends(flows'[t])
           /\ queue' \in [Account -> Seq(Slot)] /\ Queued'
           /\ flows'[s] = [f EXCEPT !.account = page.account]
           /\ flows'[s].op = f.op /\ flows'[s].account = page.account
           /\ flows'[s].cmd = f.cmd /\ flows'[s].rest = f.rest /\ flows'[s].tied = f.tied
           /\ flows'[s].answer = NoAnswer
           /\ FlowIds(flows'[s]) = FlowIds(f)
           /\ \A t \in Slot \ {s} : flows'[t] = flows[t] /\ Alike(flows'[t], flows[t])
  <1> DEFINE b == page.account
             g == [f EXCEPT !.account = b]
             served == [queue EXCEPT ![a] = Tail(@)]
  <1>1. b \in Account
    BY DEF TypeInv, PageType
  <1>2. flows' = [flows EXCEPT ![s] = g] /\ queue' = [served EXCEPT ![b] = Append(@, s)]
    BY DEF GoesOn
  <1> HIDE DEF b
  <1>3. /\ g \in FlowType /\ g.op = f.op /\ g.account = b /\ g.cmd = f.cmd /\ g.rest = f.rest
        /\ g.tied = f.tied /\ g.answer = NoAnswer
    BY <1>1 DEF FlowType
  <1> HIDE DEF g, served
  <1>4. Sends(g) /\ FlowIds(g) = FlowIds(f) /\ WaitsFor(g, b)
    BY <1>3 DEF Sends, FlowIds, WaitsFor
  <1>5. /\ flows' \in [Slot -> FlowType] /\ flows'[s] = g
        /\ \A t \in Slot \ {s} : flows'[t] = flows[t] /\ Alike(flows'[t], flows[t])
    BY <1>2, <1>3 DEF TypeInv, Alike
  <1>6. \A t \in Slot : Sends(flows'[t])
    BY <1>4, <1>5, AlikeSelf
  <1>7. /\ served \in [Account -> Seq(Slot)] /\ Lined(served, flows') /\ Absent(served, s)
    BY <1>5, Served DEF served
  <1>8. WaitsFor(flows'[s], b)
    BY <1>4, <1>5
  <1>9. /\ [served EXCEPT ![b] = Append(@, s)] \in [Account -> Seq(Slot)]
         /\ Lined([served EXCEPT ![b] = Append(@, s)], flows')
    BY <1>1, <1>7, <1>8, LineGrows
  <1> QED
    BY <1>2, <1>3, <1>4, <1>5, <1>6, <1>9 DEF Queued, g, b

LEMMA HeadWaits ==
    ASSUME TypeInv, Queued, NEW s \in Slot, NEW a \in Account, AtHead(s, a)
    PROVE  WaitsFor(flows[s], a)
  BY AlikeSelf, Served

(***************************************************************************)
(* What the background makes of the list.                                  *)
(***************************************************************************)
LEMMA CarriedSave ==
    ASSUME PageInv, NEW a \in Account, NEW cmd \in SaveCmds, cmd.id \in GivenOut
    PROVE  /\ Carried(a, cmd) \in [Account -> Seq(Rules)]
           /\ Carried(a, cmd)[a] = Saved(server[a], cmd, fresh)
           /\ \A b \in Account \ {a} : Carried(a, cmd)[b] = server[b]
           /\ Unique(Carried(a, cmd)[a])
           /\ ToSet(Carried(a, cmd)[a])
                = Others(server[a], cmd.id) \cup {Stored(cmd.id, cmd.draft)}
  <1> DEFINE new == Saved(server[a], cmd, fresh)
  <1>1. /\ server \in [Account -> Seq(Rules)] /\ server[a] \in Seq(Rules)
        /\ Unique(server[a]) /\ fresh \in Nat
    BY DEF PageInv, TypeInv, UniqueIds
  <1>2. /\ cmd.op = "saveRule" /\ cmd.order \in Int \cup {NoOrder}
        /\ Stored(cmd.id, cmd.draft) \in Rules
    BY SavedRowIs DEF SaveCmds
  <1>3. cmd.id # NoId
    BY <1>1 DEF GivenOut, NoId
  <1>4. /\ new \in Seq(Rules) /\ Unique(new)
        /\ ToSet(new) = Others(server[a], cmd.id) \cup {Stored(cmd.id, cmd.draft)}
    BY <1>1, <1>2, <1>3, SavedElements
  <1>5. Carried(a, cmd) = [server EXCEPT ![a] = new]
    BY <1>2 DEF Carried, NeedsWrite, Updated
  <1> HIDE DEF new
  <1>6. /\ Carried(a, cmd) \in [Account -> Seq(Rules)] /\ Carried(a, cmd)[a] = new
        /\ \A b \in Account \ {a} : Carried(a, cmd)[b] = server[b]
    BY <1>1, <1>4, <1>5
  <1> QED
    BY <1>4, <1>6 DEF new

LEMMA NoneOthers ==
    ASSUME NEW rules, NEW id, ~Holds(rules, id)
    PROVE  Others(rules, id) = ToSet(rules)
  BY DEF Others, ToSet, Holds

LEMMA CarriedDelete ==
    ASSUME PageInv, NEW a \in Account, NEW cmd \in DeleteCmds
    PROVE  /\ Carried(a, cmd) \in [Account -> Seq(Rules)]
           /\ \A b \in Account \ {a} : Carried(a, cmd)[b] = server[b]
           /\ Unique(Carried(a, cmd)[a])
           /\ ToSet(Carried(a, cmd)[a]) = Others(server[a], cmd.id)
  <1> DEFINE new == Removed(server[a], cmd.id)
  <1>1. /\ server \in [Account -> Seq(Rules)] /\ server[a] \in Seq(Rules)
        /\ Unique(server[a])
    BY DEF PageInv, TypeInv, UniqueIds
  <1>2. cmd.op = "deleteRule"
    BY DEF DeleteCmds
  <1>3. CASE Holds(server[a], cmd.id)
    <2>1. new \in Seq(Rules) /\ Unique(new) /\ ToSet(new) = Others(server[a], cmd.id)
      BY <1>1, RemovedElements, RemovedUnique
    <2>2. Carried(a, cmd) = [server EXCEPT ![a] = new]
      BY <1>2, <1>3 DEF Carried, NeedsWrite, Updated
    <2> HIDE DEF new
    <2>3. /\ Carried(a, cmd) \in [Account -> Seq(Rules)] /\ Carried(a, cmd)[a] = new
          /\ \A b \in Account \ {a} : Carried(a, cmd)[b] = server[b]
      BY <1>1, <2>1, <2>2
    <2> QED
      BY <2>1, <2>3
  <1>4. CASE ~Holds(server[a], cmd.id)
    <2>1. Carried(a, cmd) = server
      BY <1>2, <1>4 DEF Carried, NeedsWrite
    <2> QED
      BY <1>1, <1>4, <2>1, NoneOthers
  <1> QED
    BY <1>3, <1>4

LEMMA CarriedSwitch ==
    ASSUME PageInv, NEW a \in Account, NEW cmd \in SwitchCmds
    PROVE  /\ Carried(a, cmd) \in [Account -> Seq(Rules)]
           /\ \A b \in Account \ {a} : Carried(a, cmd)[b] = server[b]
           /\ Unique(Carried(a, cmd)[a])
           /\ ToSet(Carried(a, cmd)[a]) = ToSet(Switched(server[a], cmd.id, cmd.active))
           /\ IdsOf(Carried(a, cmd)[a]) = IdsOf(server[a])
  <1> DEFINE new == Switched(server[a], cmd.id, cmd.active)
  <1>1. /\ server \in [Account -> Seq(Rules)] /\ server[a] \in Seq(Rules)
        /\ Unique(server[a])
    BY DEF PageInv, TypeInv, UniqueIds
  <1>2. cmd.op = "setRuleActive" /\ cmd.active \in BOOLEAN
    BY DEF SwitchCmds
  <1>3. CASE Holds(server[a], cmd.id)
    <2>1. new \in Seq(Rules) /\ Unique(new)
      BY <1>1, <1>2, SwitchedElements, SwitchedUnique
    <2>2. Carried(a, cmd) = [server EXCEPT ![a] = new]
      BY <1>2, <1>3 DEF Carried, NeedsWrite, Updated
    <2>3. IdsOf(new) = IdsOf(server[a])
      <3>1. \A rule \in Rules : [rule EXCEPT !.active = cmd.active].id = rule.id
        BY <1>2, RuleFields
      <3>2. \A i \in DOMAIN server[a] : server[a][i] \in Rules
        BY <1>1, ElementsOf
      <3>3. DOMAIN new = DOMAIN server[a] /\ \A i \in DOMAIN server[a] : new[i].id = server[a][i].id
        BY <3>1, <3>2 DEF Switched
      <3> QED
        BY <3>3 DEF IdsOf
    <2> HIDE DEF new
    <2>4. /\ Carried(a, cmd) \in [Account -> Seq(Rules)] /\ Carried(a, cmd)[a] = new
          /\ \A b \in Account \ {a} : Carried(a, cmd)[b] = server[b]
      BY <1>1, <2>1, <2>2
    <2> QED
      BY <2>1, <2>3, <2>4 DEF new
  <1>4. CASE ~Holds(server[a], cmd.id)
    <2>1. Carried(a, cmd) = server
      BY <1>2, <1>4 DEF Carried, NeedsWrite
    <2>2. ToSet(new) = ToSet(server[a])
      BY <1>1, <1>2, <1>4, SwitchedElements
    <2> QED
      BY <1>1, <2>1, <2>2
  <1> QED
    BY <1>3, <1>4

LEMMA CarriedList ==
    ASSUME NEW a \in Account
    PROVE  Carried(a, ListCmd) = server
  BY DEF Carried, NeedsWrite, ListCmd
\* A command reaches one account, and stores no ids but those of its handler; a deletion
\* stores none.
LEMMA CarriedIds ==
    ASSUME PageInv, NEW s \in Slot, NEW a \in Account, AtHead(s, a)
    PROVE  LET new == Carried(a, flows[s].cmd)
           IN  /\ new \in [Account -> Seq(Rules)] /\ Unique(new[a])
               /\ \A b \in Account \ {a} : new[b] = server[b]
               /\ IdsOf(new[a]) \subseteq IdsOf(server[a]) \cup FlowIds(flows[s])
               /\ flows[s].op = "delete" => IdsOf(new[a]) \subseteq IdsOf(server[a])
  <1> DEFINE f == flows[s]
             new == Carried(a, f.cmd)
  <1>1. f \in FlowType /\ Sends(f) /\ f.op \in FlowOps /\ f.op \notin {"none", "switch"}
    BY HeadWaits, AlikeSelf DEF PageInv, WaitsFor, FlowType
  <1>2. /\ server \in [Account -> Seq(Rules)] /\ \A b \in Account : Unique(server[b])
        /\ FlowIds(f) \subseteq GivenOut
    BY DEF PageInv, TypeInv, UniqueIds, KnownIds
  <1>4. \A id : {rule.id : rule \in Others(server[a], id)} \subseteq IdsOf(server[a])
    BY IdsOfElements DEF Others
  <1> HIDE DEF f
  <1>5. /\ new \in [Account -> Seq(Rules)] /\ Unique(new[a])
        /\ \A b \in Account \ {a} : new[b] = server[b]
        /\ IdsOf(new[a]) \subseteq IdsOf(server[a]) \cup FlowIds(f)
        /\ f.op = "delete" => IdsOf(new[a]) \subseteq IdsOf(server[a])
    <2>1. CASE f.op \in {"save", "duplicate", "move"}
      <3>1. f.cmd \in SaveCmds /\ f.cmd.id \in FlowIds(f)
        BY <1>1, <2>1 DEF Sends, FlowIds
      <3>2. /\ new \in [Account -> Seq(Rules)] /\ Unique(new[a])
            /\ \A b \in Account \ {a} : new[b] = server[b]
            /\ ToSet(new[a]) = Others(server[a], f.cmd.id) \cup {Stored(f.cmd.id, f.cmd.draft)}
        BY <1>2, <3>1, CarriedSave
      <3>3. Stored(f.cmd.id, f.cmd.draft).id = f.cmd.id
        BY DEF Stored
      <3> HIDE DEF new
      <3>4. IdsOf(new[a]) = {rule.id : rule \in ToSet(new[a])}
        BY IdsOfElements
      <3>5. IdsOf(new[a]) \subseteq IdsOf(server[a]) \cup FlowIds(f)
        BY <1>4, <3>1, <3>2, <3>3, <3>4
      <3> QED
        BY <2>1, <3>2, <3>5
    <2>2. CASE f.op = "delete"
      <3>1. f.cmd \in DeleteCmds
        BY <1>1, <2>2 DEF Sends
      <3>2. /\ new \in [Account -> Seq(Rules)] /\ Unique(new[a])
            /\ \A b \in Account \ {a} : new[b] = server[b]
            /\ ToSet(new[a]) = Others(server[a], f.cmd.id)
        BY <3>1, CarriedDelete
      <3> HIDE DEF new
      <3>3. IdsOf(new[a]) \subseteq IdsOf(server[a])
        BY <1>4, <3>2, IdsOfElements
      <3> QED
        BY <3>2, <3>3
    <2>3. CASE f.op = "toggle"
      <3>1. f.cmd \in SwitchCmds
        BY <1>1, <2>3 DEF Sends
      <3> QED
        BY <2>3, <3>1, CarriedSwitch
    <2>4. CASE f.op = "reload"
      <3>1. f.cmd = ListCmd
        BY <1>1, <2>4 DEF Sends
      <3>2. new = server
        BY <3>1, CarriedList
      <3> HIDE DEF new
      <3> QED
        BY <1>2, <2>4, <3>2
    <2> QED
      BY <1>1, <2>1, <2>2, <2>3, <2>4 DEF FlowOps
  <1> QED
    BY <1>5 DEF f

LEMMA ServerStep ==
    ASSUME PageInv, NEW s \in Slot, NEW a \in Account, AtHead(s, a),
           server' \in {server, Carried(a, flows[s].cmd)}
    PROVE  /\ server' \in [Account -> Seq(Rules)]
           /\ \A b \in Account : Unique(server'[b])
           /\ StoredIds' \subseteq StoredIds \cup FlowIds(flows[s])
  <1> DEFINE f == flows[s]
             new == Carried(a, f.cmd)
  <1>2. server \in [Account -> Seq(Rules)] /\ \A b \in Account : Unique(server[b])
    BY DEF PageInv, TypeInv, UniqueIds
  <1>3. IdsOf(server[a]) \subseteq StoredIds
    BY DEF StoredIds
  <1>5. /\ new \in [Account -> Seq(Rules)] /\ Unique(new[a])
        /\ \A b \in Account \ {a} : new[b] = server[b]
        /\ IdsOf(new[a]) \subseteq IdsOf(server[a]) \cup FlowIds(f)
    BY CarriedIds
  <1> HIDE DEF f
  <1> HIDE DEF new
  <1>6. CASE server' = new
    <2>1. \A b \in Account : IdsOf(server'[b]) \subseteq StoredIds \cup FlowIds(f)
      BY <1>3, <1>5, <1>6 DEF StoredIds
    <2>2. StoredIds' \subseteq StoredIds \cup FlowIds(f)
      <3>1. StoredIds' = UNION {IdsOf(server'[b]) : b \in Account}
        BY DEF StoredIds, IdsOf
      <3> QED
        BY <2>1, <3>1
    <2> QED
      BY <1>2, <1>5, <1>6, <2>2 DEF f
  <1>7. CASE server' = server
    BY <1>2, <1>7 DEF f, StoredIds
  <1>8. server' \in {server, new}
    BY DEF new, f
  <1> QED
    BY <1>6, <1>7, <1>8

-----------------------------------------------------------------------------
(***************************************************************************)
(* The types and the ids hold at every step.                               *)
(***************************************************************************)
LEMMA PageFields ==
    ASSUME TypeInv
    PROVE  /\ page.rules \in Seq(RowSet) /\ page.account \in Account
           /\ page.loaded \in Account \cup {NoAccount} /\ page.selected \in SUBSET Nat
           /\ page.draft \in RowSet \cup {NoDraft}
           /\ page.busy \in BOOLEAN /\ page.auth \in BOOLEAN /\ page.screen \in Screens
           /\ page.whole \in BOOLEAN
  BY DEF TypeInv, PageType

\* The rows stay, and a draft stays or goes.
LEMMA PageStays ==
    ASSUME page'.rules = page.rules, page'.draft \in {page.draft, NoDraft}
    PROVE  PageRules' = PageRules /\ PageIds' = PageIds /\ DraftIds' \subseteq DraftIds
  BY DEF PageRules, PageIds, DraftIds, Modal

LEMMA UniqueStays ==
    ASSUME UniqueIds, server' = server, PageRules' = PageRules
    PROVE  UniqueIds'
  BY DEF UniqueIds

LEMMA QueuedStays ==
    ASSUME Queued, queue' = queue, flows' = flows
    PROVE  Queued'
  BY DEF Queued

\* Steps that leave the handlers and the queues alone.
LEMMA LooksPreserve ==
    ASSUME PageInv, UNCHANGED <<server, queue, flows, fresh, faults, lost>>, rushed' \in BOOLEAN,
           page' \in PageType, page'.rules = page.rules, page'.draft \in {page.draft, NoDraft}
    PROVE  PageInv'
  <1>1. PageRules' = PageRules /\ PageIds' = PageIds /\ DraftIds' \subseteq DraftIds
    BY PageStays
  <1>2. TypeInv'
    BY DEF PageInv, TypeInv
  <1>3. UniqueIds' /\ Queued'
    BY <1>1, UniqueStays, QueuedStays DEF PageInv
  <1>4. KnownIds' /\ NewIds'
    BY <1>1, IdsStay DEF PageInv
  <1> QED
    BY <1>2, <1>3, <1>4 DEF PageInv

LEMMA AskedType ==
    ASSUME TypeInv, NEW op, Asked(op)
    PROVE  rushed' \in BOOLEAN
  <1>1. rushed' = (rushed \/ (~Calm \/ Modal \/ (op = "search" /\ ~OnTable)))
    BY DEF Asked
  <1> DEFINE hurried == ~Calm \/ Modal \/ (op = "search" /\ ~OnTable)
  <1>2. hurried \in BOOLEAN
    OBVIOUS
  <1> HIDE DEF hurried
  <1>3. rushed \in BOOLEAN
    BY DEF TypeInv
  <1> QED
    BY <1>1, <1>2, <1>3 DEF hurried

LEMMA PageIndexIs ==
    ASSUME TypeInv, NEW id \in PageIds
    PROVE  /\ PageIndex(id) \in DOMAIN page.rules /\ PageIndex(id) \in 1 .. Len(page.rules)
           /\ page.rules[PageIndex(id)].rule.id = id
           /\ page.rules[PageIndex(id)] \in RowSet
           /\ page.rules[PageIndex(id)].rule \in Rules
           /\ page.rules[PageIndex(id)].rule \in ToSet(PageRules)
  <1> DEFINE p == PageIndex(id)
  <1>1. \E i \in DOMAIN page.rules : page.rules[i].rule.id = id
    BY DEF PageIds
  <1>2. p \in DOMAIN page.rules /\ page.rules[p].rule.id = id
    BY <1>1 DEF PageIndex
  <1>3. page.rules \in Seq(RowSet)
    BY PageFields
  <1>4. /\ DOMAIN page.rules = 1 .. Len(page.rules)
        /\ \A i \in 1 .. Len(page.rules) : page.rules[i] \in RowSet /\ page.rules[i].rule \in Rules
    BY <1>3, RulesOfRows
  <1> HIDE DEF p
  <1>5. page.rules[p].rule \in ToSet(PageRules)
    BY <1>2 DEF PageRules, ToSet
  <1> QED
    BY <1>2, <1>4, <1>5 DEF p

(***************************************************************************)
(* The table: the page's rows are drawn, as they are; whatever else is     *)
(* drawn was deleted, by a handler that goes on or has failed half way.    *)
(***************************************************************************)
TableType == [rows : Seq(RowSet), torn : BOOLEAN]
Deleting == \E t \in Slot : flows[t].op = "delete"
TableInv ==
    /\ table \in TableType
    /\ Unique(TableRules)
    /\ ToSet(page.rules) \subseteq ToSet(table.rows)
    /\ table.torn \/ ToSet(table.rows) = ToSet(page.rules) \/ Deleting

LEMMA TableIndexIs ==
    ASSUME TypeInv, TableInv, NEW id \in TableIds
    PROVE  /\ id \in Nat
           /\ table.rows[TableIndex(id)].rule \in Rules
           /\ table.rows[TableIndex(id)].rule.active \in BOOLEAN
  <1> DEFINE p == TableIndex(id)
  <1>1. \E i \in DOMAIN table.rows : table.rows[i].rule.id = id
    BY DEF TableIds
  <1>2. p \in DOMAIN table.rows /\ table.rows[p].rule.id = id
    BY <1>1 DEF TableIndex
  <1>3. table.rows \in Seq(RowSet)
    BY DEF TableInv, TableType
  <1> HIDE DEF p
  <1>4. table.rows[p].rule \in Rules
    BY <1>2, <1>3, RulesOfRows
  <1> QED
    BY <1>2, <1>4, RuleFields DEF p

\* What the checkbox of a row of the page shows is what the page holds.
LEMMA TableRowIs ==
    ASSUME TypeInv, TableInv, NEW id \in PageIds
    PROVE  id \in TableIds /\ table.rows[TableIndex(id)] = page.rules[PageIndex(id)]
  <1> DEFINE p == TableIndex(id)
             row == page.rules[PageIndex(id)]
  <1>1. row.rule.id = id /\ row \in ToSet(page.rules)
    BY PageIndexIs DEF ToSet
  <1>2. PICK i \in DOMAIN table.rows : table.rows[i] = row
    BY <1>1 DEF TableInv, ToSet
  <1> HIDE DEF row
  <1>3. p \in DOMAIN table.rows /\ table.rows[p].rule.id = id
    BY <1>1, <1>2 DEF TableIndex
  <1>4. p = i
    BY <1>1, <1>2, <1>3 DEF TableInv, Unique, TableRules
  <1> QED
    BY <1>1, <1>2, <1>4 DEF p, row, TableIds

LEMMA SelectPreserves ==
    ASSUME PageInv, TableInv, Select
    PROVE  PageInv'
  <1>1. PICK ids \in SUBSET TableIds \ {{}} : page' = [page EXCEPT !.selected = ids]
    BY DEF Select
  <1>2. TableIds \subseteq Nat
    BY TableIndexIs DEF PageInv
  <1>3. page' \in PageType /\ page'.rules = page.rules /\ page'.draft = page.draft
    BY <1>1, <1>2 DEF PageInv, TypeInv, PageType
  <1>4. rushed' \in BOOLEAN
    BY DEF Select, PageInv, TypeInv
  <1> QED
    BY <1>3, <1>4, LooksPreserve DEF Select

LEMMA SearchPreserves ==
    ASSUME PageInv, Search
    PROVE  PageInv'
  <1>1. page' = [page EXCEPT !.screen = Screen(page.rules)]
    BY DEF Search
  <1>2. Screen(page.rules) \in Screens
    BY DEF Screen, Screens
  <1>3. page' \in PageType /\ page'.rules = page.rules /\ page'.draft = page.draft
    BY <1>1, <1>2 DEF PageInv, TypeInv, PageType
  <1>4. rushed' \in BOOLEAN
    BY AskedType DEF Search, PageInv
  <1> QED
    BY <1>3, <1>4, LooksPreserve DEF Search

LEMMA CancelPreserves ==
    ASSUME PageInv, CancelDraft
    PROVE  PageInv'
  <1>1. page' = [page EXCEPT !.draft = NoDraft]
    BY DEF CancelDraft
  <1>2. page' \in PageType /\ page'.rules = page.rules /\ page'.draft = NoDraft
    BY <1>1 DEF PageInv, TypeInv, PageType
  <1>3. rushed' \in BOOLEAN
    BY DEF CancelDraft, PageInv, TypeInv
  <1> QED
    BY <1>2, <1>3, LooksPreserve DEF CancelDraft

\* A load begins, whichever account it asks.
LEMMA LoadPreserves ==
    ASSUME PageInv, NEW s \in Slot, Absent(queue, s), NEW a \in Account,
           Send(s, ListFlow, a),
           page' \in PageType, page'.rules = page.rules, page'.draft \in {page.draft, NoDraft},
           UNCHANGED <<server, fresh, faults, lost>>, rushed' \in BOOLEAN
    PROVE  PageInv'
  <1> DEFINE f == [ListFlow EXCEPT !.account = a]
  <1>1. /\ f \in FlowType /\ Sends(f) /\ WaitsFor(f, a) /\ FlowIds(f) = {} /\ f.op = "reload"
    BY ListFlowIs
  <1>2. flows' = [flows EXCEPT ![s] = f] /\ queue' = [queue EXCEPT ![a] = Append(@, s)]
    BY DEF Send
  <1> HIDE DEF f
  <1>3. TypeInv /\ Queued /\ flows \in [Slot -> FlowType]
    BY DEF PageInv, TypeInv
  <1>4. /\ flows' \in [Slot -> FlowType] /\ \A t \in Slot : Sends(flows'[t])
        /\ queue' \in [Account -> Seq(Slot)] /\ Queued'
        /\ flows'[s] = f
        /\ \A t \in Slot \ {s} : Alike(flows'[t], flows[t])
    BY <1>1, <1>2, <1>3, AlikeSelf, Sent
  <1>5. PageRules' = PageRules /\ PageIds' = PageIds /\ DraftIds' \subseteq DraftIds
    BY PageStays
  <1>6. TypeInv'
    BY <1>3, <1>4 DEF TypeInv
  <1>7. UniqueIds'
    BY <1>5, UniqueStays DEF PageInv
  <1>8. KnownIds' /\ NewIds'
    <2>1. StoredIds' = StoredIds
      BY DEF StoredIds
    <2>2. FlowIds(flows'[s]) = {} /\ flows'[s].op # "duplicate"
      BY <1>1, <1>4
    <2> QED
      BY <1>4, <1>5, <2>1, <2>2, IdsSpread DEF PageInv
  <1> QED
    BY <1>4, <1>6, <1>7, <1>8 DEF PageInv

LEMMA FreeAbsent ==
    ASSUME PageInv, NEW s \in Slot, Free(s)
    PROVE  Absent(queue, s)
  <1>1. flows[s].op = "none"
    BY NoFlowIs DEF Free
  <1> QED
    BY <1>1, NotInLine DEF PageInv

LEMMA LoadingType ==
    ASSUME NEW p \in PageType
    PROVE  /\ Loading(p) \in PageType /\ Loading(p).rules = p.rules /\ Loading(p).draft = p.draft
           /\ Loading(p).account = p.account /\ Loading(p).loaded = p.loaded
           /\ Loading(p).whole = p.whole /\ Loading(p).screen = "loading"
           /\ Loading(p).selected = p.selected
  BY DEF Loading, PageType, Screens

LEMMA LazyAuthType ==
    ASSUME NEW p \in PageType
    PROVE  /\ LazyAuth(p) \in PageType /\ LazyAuth(p).rules = p.rules
           /\ LazyAuth(p).draft = p.draft /\ LazyAuth(p).account = p.account
           /\ LazyAuth(p).loaded = p.loaded /\ LazyAuth(p).whole = p.whole
           /\ LazyAuth(p).screen = "auth" /\ LazyAuth(p).selected = p.selected
  BY DEF LazyAuth, PageType, Screens

LEMMA ReloadPreserves ==
    ASSUME PageInv, NEW s \in Slot, Reload(s)
    PROVE  PageInv'
  <1>1. page \in PageType /\ page.account \in Account
    BY PageFields DEF PageInv, TypeInv
  <1>2. Absent(queue, s) /\ rushed' \in BOOLEAN
    BY FreeAbsent, AskedType DEF Reload, PageInv
  <1>3. page' \in PageType /\ page'.rules = page.rules /\ page'.draft = page.draft
    BY <1>1, LoadingType DEF Reload
  <1> QED
    BY <1>1, <1>2, <1>3, LoadPreserves DEF Reload

LEMMA RetryPreserves ==
    ASSUME PageInv, NEW s \in Slot, Retry(s)
    PROVE  PageInv'
  <1>1. PICK a \in Account : /\ page' = Loading([page EXCEPT !.account = a])
                             /\ Send(s, ListFlow, a)
    BY DEF Retry
  <1> DEFINE p == [page EXCEPT !.account = a]
  <1>2. p \in PageType /\ p.rules = page.rules /\ p.draft = page.draft
    BY DEF PageInv, TypeInv, PageType
  <1>3. Absent(queue, s) /\ rushed' \in BOOLEAN
    BY FreeAbsent, AskedType DEF Retry, PageInv
  <1> HIDE DEF p
  <1>4. page' \in PageType /\ page'.rules = page.rules /\ page'.draft = page.draft
    BY <1>1, <1>2, LoadingType DEF p
  <1> QED
    BY <1>1, <1>3, <1>4, LoadPreserves DEF Retry

LEMMA SwitchToldPreserves ==
    ASSUME PageInv, NEW s \in Slot, SwitchTold(s)
    PROVE  PageInv'
  <1>1. page \in PageType /\ page.account \in Account /\ rushed \in BOOLEAN
    BY PageFields DEF PageInv, TypeInv
  <1>2. Absent(queue, s)
    BY NotInLine DEF SwitchTold, PageInv
  <1>3. page' \in PageType /\ page'.rules = page.rules /\ page'.draft = page.draft
    BY <1>1, LoadingType DEF SwitchTold
  <1>4. rushed' \in BOOLEAN
    BY <1>1 DEF SwitchTold
  <1> QED
    BY <1>1, <1>2, <1>3, <1>4, LoadPreserves DEF SwitchTold

LEMMA SwitchAccountPreserves ==
    ASSUME PageInv, NEW s \in Slot, NEW a \in Account, SwitchAccount(s, a)
    PROVE  PageInv'
  <1> DEFINE f == [NoFlow EXCEPT !.op = "switch"]
  <1>1. f \in FlowType /\ Sends(f) /\ f.op = "switch" /\ FlowIds(f) = {}
    <2>0. f = [NoFlow EXCEPT !.op = "switch"]
      OBVIOUS
    <2> HIDE DEF f
    <2>1. f \in FlowType /\ f.op = "switch" /\ f.rest = NoFlow.rest /\ f.answer = NoFlow.answer
      BY <2>0, NoFlowIs DEF FlowType, FlowOps
    <2>2. FlowIds(f) = FlowIds(NoFlow)
      BY <2>1, NoFlowIs DEF FlowIds
    <2> QED
      BY <2>1, <2>2, NoFlowIs DEF Sends
  <1>2. flows' = [flows EXCEPT ![s] = f]
    BY DEF SwitchAccount
  <1> HIDE DEF f
  <1>3. flows \in [Slot -> FlowType] /\ page \in PageType
    BY DEF PageInv, TypeInv
  <1>4. /\ flows' \in [Slot -> FlowType] /\ flows'[s] = f
        /\ \A t \in Slot \ {s} : flows'[t] = flows[t] /\ Alike(flows'[t], flows[t])
    BY <1>1, <1>2, <1>3 DEF Alike
  <1>5. \A t \in Slot : Sends(flows'[t])
    BY <1>1, <1>4, AlikeSelf DEF PageInv
  <1>6. page' \in PageType /\ page'.rules = page.rules /\ page'.draft = page.draft
    BY <1>3 DEF SwitchAccount, PageType
  <1>7. TypeInv'
    BY <1>4, <1>5, <1>6, AskedType DEF SwitchAccount, PageInv, TypeInv
  <1>8. Queued'
    <2>1. flows[s].op = "none"
      BY NoFlowIs DEF SwitchAccount, Free
    <2>2. \A t \in Slot : \A b \in Account : WaitsFor(flows[t], b) => WaitsFor(flows'[t], b)
      BY <1>4, <2>1 DEF WaitsFor
    <2>3. queue \in [Account -> Seq(Slot)] /\ Lined(queue, flows)
      BY DEF PageInv, TypeInv, Queued
    <2> QED
      BY <2>2, <2>3, LineStays DEF Queued, SwitchAccount
  <1>9. PageRules' = PageRules /\ PageIds' = PageIds /\ DraftIds' \subseteq DraftIds
    BY <1>6, PageStays
  <1>10. UniqueIds'
    BY <1>9, UniqueStays DEF PageInv, SwitchAccount
  <1>11. KnownIds' /\ NewIds'
    <2>1. StoredIds' = StoredIds /\ fresh' = fresh
      BY DEF StoredIds, SwitchAccount
    <2>2. FlowIds(flows'[s]) = {} /\ flows'[s].op # "duplicate"
      BY <1>1, <1>4
    <2> QED
      BY <1>4, <1>9, <2>1, <2>2, IdsSpread DEF PageInv
  <1> QED
    BY <1>7, <1>8, <1>10, <1>11 DEF PageInv
LEMMA FlowBegins ==
    ASSUME NEW op \in {"toggle", "save", "duplicate", "delete", "move"}, NEW a \in Account,
           NEW cmd \in Cmds, NEW rest \in Seq(RowSet), NEW tied \in SUBSET Nat,
           op \in {"save", "duplicate", "move"} => cmd \in SaveCmds,
           op = "delete" => cmd \in DeleteCmds,
           op = "toggle" => cmd \in SwitchCmds
    PROVE  LET f == Flow(op, a, cmd, rest, tied)
           IN  /\ f \in FlowType /\ Sends(f) /\ WaitsFor(f, a)
               /\ f.op = op /\ f.account = a /\ f.cmd = cmd /\ f.rest = rest /\ f.tied = tied
               /\ f.answer = NoAnswer
               /\ op \in {"save", "duplicate", "move"} =>
                    FlowIds(f) = {cmd.id} \cup {rest[i].rule.id : i \in DOMAIN rest}
               /\ op \notin {"save", "duplicate", "move"} =>
                    FlowIds(f) = {rest[i].rule.id : i \in DOMAIN rest}
  <1> DEFINE f == Flow(op, a, cmd, rest, tied)
  <1>1. op \in FlowOps /\ a \in Account \cup {NoAccount}
    BY DEF FlowOps
  <1>2. f \in FlowType
    BY <1>1, FlowIs
  <1>3. /\ f.op = op /\ f.account = a /\ f.cmd = cmd /\ f.rest = rest /\ f.tied = tied
        /\ f.answer = NoAnswer
    BY DEF Flow
  <1>4. /\ op \in {"save", "duplicate", "move"} =>
             FlowIds(f) = {cmd.id} \cup {rest[i].rule.id : i \in DOMAIN rest}
        /\ op \notin {"save", "duplicate", "move"} =>
             FlowIds(f) = {rest[i].rule.id : i \in DOMAIN rest}
    BY <1>1, FlowIs
  <1> HIDE DEF f
  <1>5. Sends(f) /\ WaitsFor(f, a)
    BY <1>3, NoAnswerIs DEF Sends, WaitsFor
  <1> QED
    BY <1>2, <1>3, <1>4, <1>5 DEF f

LEMMA FlowWithoutRows ==
    ASSUME NEW op \in {"toggle", "save", "duplicate"}, NEW a \in Account,
           NEW cmd \in Cmds, NEW tied \in SUBSET Nat, NEW f, f = Flow(op, a, cmd, <<>>, tied),
           op # "toggle" => cmd \in SaveCmds,
           op = "toggle" => cmd \in SwitchCmds
    PROVE  /\ f \in FlowType /\ Sends(f) /\ WaitsFor(f, a)
           /\ f.op = op /\ f.account = a /\ f.cmd = cmd /\ f.tied = tied
           /\ f.rest = <<>> /\ f.answer = NoAnswer
           /\ op # "toggle" => FlowIds(f) = {cmd.id}
           /\ op = "toggle" => FlowIds(f) = {}
  <1> DEFINE r == <<>>
  <1>1. r \in Seq(RowSet) /\ {r[i].rule.id : i \in DOMAIN r} = {}
    BY NoRows
  <1>2. f = Flow(op, a, cmd, r, tied) /\ r = <<>>
    OBVIOUS
  <1>3. op \in {"toggle", "save", "duplicate", "delete", "move"} /\ op # "delete"
    OBVIOUS
  <1> HIDE DEF r
  <1> DEFINE g == Flow(op, a, cmd, r, tied)
  <1>4. /\ g \in FlowType /\ Sends(g) /\ WaitsFor(g, a)
        /\ op \in {"save", "duplicate", "move"} =>
             FlowIds(g) = {cmd.id} \cup {r[i].rule.id : i \in DOMAIN r}
        /\ op \notin {"save", "duplicate", "move"} =>
             FlowIds(g) = {r[i].rule.id : i \in DOMAIN r}
    BY <1>1, <1>3, FlowBegins
  <1>5. /\ f.op = op /\ f.account = a /\ f.cmd = cmd /\ f.tied = tied
        /\ f.rest = r /\ f.answer = NoAnswer
    BY <1>2 DEF Flow
  <1>6. f = g
    BY <1>2
  <1> HIDE DEF g
  <1> QED
    BY <1>1, <1>2, <1>4, <1>5, <1>6

\* Finitely many order numbers have a least one.
LEMMA MinOrderType ==
    ASSUME TypeInv
    PROVE  MinOrder \in Int /\ NextOrderForNew \in Int
  <1> DEFINE rows == page.rules
             n == Len(rows)
             S == {0} \cup {rows[i].order : i \in DOMAIN rows}
             IsLow(m, k) == m <= 0 /\ \A i \in 1 .. k : m <= rows[i].order
             Bad == {k \in 0 .. n : ~ \E m \in S : IsLow(m, k)}
  <1>1. /\ n \in Nat /\ DOMAIN rows = 1 .. n
        /\ \A i \in 1 .. n : rows[i].order \in Int
    BY PageFields, RulesOfRows
  <1>2. S \subseteq Int /\ 0 \in S /\ \A i \in 1 .. n : rows[i].order \in S
    BY <1>1
  <1> HIDE DEF rows, n, S
  <1>3. Bad = {}
    <2> SUFFICES ASSUME Bad # {} PROVE FALSE
      OBVIOUS
    <2>1. Bad \in SUBSET Nat
      BY <1>1
    <2>2. PICK k \in Bad : \A l \in Bad : k <= l
      BY <2>1, LeastNat
    <2>3. k \in 0 .. n /\ ~ \E m \in S : IsLow(m, k)
      OBVIOUS
    <2>4. k # 0
      <3>1. IsLow(0, 0)
        OBVIOUS
      <3> QED
        BY <1>2, <2>3, <3>1
    <2>5. k - 1 \in 0 .. n /\ k \in 1 .. n /\ k - 1 < k
      BY <1>1, <2>3, <2>4
    <2>6. k - 1 \notin Bad
      BY <2>2, <2>5
    <2>7. PICK m \in S : IsLow(m, k - 1)
      BY <2>5, <2>6
    <2>8. m \in Int /\ rows[k].order \in Int /\ rows[k].order \in S
      BY <1>1, <1>2, <2>5
    <2>9. CASE m <= rows[k].order
      <3>1. IsLow(m, k)
        BY <1>1, <2>5, <2>7, <2>8, <2>9
      <3> QED
        BY <2>3, <3>1
    <2>10. CASE ~(m <= rows[k].order)
      <3>1. IsLow(rows[k].order, k)
        BY <1>1, <2>5, <2>7, <2>8, <2>10
      <3> QED
        BY <2>3, <2>8, <3>1
    <2> QED
      BY <2>9, <2>10
  <1>4. n \in 0 .. n
    BY <1>1
  <1>5. \E m \in S : \A i \in DOMAIN rows : m <= 0 /\ m <= rows[i].order
    <2>1. PICK m \in S : IsLow(m, n)
      BY <1>3, <1>4
    <2> QED
      BY <1>1, <2>1
  <1>6. MinOrder \in S
    BY <1>5 DEF MinOrder, S, rows
  <1>7. MinOrder \in Int /\ n \in Int
    BY <1>1, <1>2, <1>6
  <1> QED
    BY <1>7 DEF NextOrderForNew, n, rows

LEMMA NewPreserves ==
    ASSUME PageInv, New
    PROVE  PageInv'
  <1>1. PICK name \in Names, body \in Bodies :
          page' = [page EXCEPT !.draft =
              Row([id |-> fresh, name |-> name, body |-> body, active |-> TRUE], NextOrderForNew)]
    BY DEF New
  <1> DEFINE rule == [id |-> fresh, name |-> name, body |-> body, active |-> TRUE]
             row == Row(rule, NextOrderForNew)
  <1>2. rule \in Rules /\ rule.id = fresh /\ NextOrderForNew \in Int
    BY MinOrderType DEF Rules, PageInv, TypeInv
  <1> HIDE DEF rule
  <1>3. row \in RowSet /\ row.rule = rule
    BY <1>2, RowIs
  <1>4. page' = [page EXCEPT !.draft = row]
    BY <1>1 DEF rule
  <1> HIDE DEF row
  <1>5. page' \in PageType /\ page'.rules = page.rules /\ page'.draft = row
    BY <1>3, <1>4 DEF PageInv, TypeInv, PageType
  <1>6. /\ fresh' = fresh + 1 /\ server' = server /\ queue' = queue /\ flows' = flows
        /\ faults' = faults /\ lost' = lost /\ rushed' \in BOOLEAN
    BY AskedType DEF New, PageInv
  <1>7. fresh \in Nat \ {NoId} /\ fresh' \in Nat \ {NoId}
    BY <1>6 DEF PageInv, TypeInv, NoId
  <1>8. TypeInv'
    BY <1>5, <1>6, <1>7 DEF PageInv, TypeInv
  <1>9. PageRules' = PageRules /\ PageIds' = PageIds
    BY <1>5 DEF PageRules, PageIds
  <1>10. UniqueIds' /\ Queued'
    BY <1>6, <1>9, UniqueStays, QueuedStays DEF PageInv
  <1>11. /\ GivenOut' = GivenOut \cup {fresh} /\ fresh \notin GivenOut
         /\ StoredIds' = StoredIds /\ DraftIds' \subseteq {fresh}
    BY <1>2, <1>3, <1>5, <1>6, <1>7 DEF GivenOut, NoId, StoredIds, DraftIds
  <1>12. KnownIds'
    BY <1>6, <1>9, <1>11 DEF PageInv, KnownIds
  <1>13. NewIds'
    <2>1. \A s \in Slot : flows[s].op = "duplicate" => flows[s].cmd.id \in GivenOut
      BY DEF PageInv, KnownIds, FlowIds
    <2> QED
      BY <1>6, <1>9, <1>11, <2>1 DEF PageInv, NewIds
  <1> QED
    BY <1>8, <1>10, <1>12, <1>13 DEF PageInv

LEMMA EditPreserves ==
    ASSUME PageInv, Edit
    PROVE  PageInv'
  <1>1. PICK id \in Single, body \in Bodies :
          page' = [page EXCEPT !.draft = [page.rules[PageIndex(id)] EXCEPT !.rule.body = body]]
    BY DEF Edit
  <1>2. id \in PageIds
    BY DEF Single
  <1> DEFINE old == page.rules[PageIndex(id)]
             row == [old EXCEPT !.rule.body = body]
  <1>3. old \in RowSet /\ old.rule.id = id
    BY <1>2, PageIndexIs DEF PageInv
  <1>4. page' = [page EXCEPT !.draft = row]
    BY <1>1
  <1> HIDE DEF old
  <1>5. row \in RowSet /\ row.rule.id = id
    BY <1>3 DEF RowSet, Rules
  <1> HIDE DEF row
  <1>6. page' \in PageType /\ page'.rules = page.rules /\ page'.draft = row
    BY <1>4, <1>5 DEF PageInv, TypeInv, PageType
  <1>7. /\ UNCHANGED <<server, queue, flows, fresh, faults, lost>> /\ rushed' \in BOOLEAN
    BY AskedType DEF Edit, PageInv
  <1>8. TypeInv'
    BY <1>6, <1>7 DEF PageInv, TypeInv
  <1>9. PageRules' = PageRules /\ PageIds' = PageIds /\ DraftIds' \subseteq {id}
    BY <1>5, <1>6 DEF PageRules, PageIds, DraftIds
  <1>10. UniqueIds' /\ Queued'
    BY <1>7, <1>9, UniqueStays, QueuedStays DEF PageInv
  <1>11. KnownIds' /\ NewIds'
    <2>1. PageIds' \cup DraftIds' \subseteq PageIds \cup DraftIds
      BY <1>2, <1>9
    <2> QED
      BY <1>7, <2>1, IdsStay DEF PageInv
  <1> QED
    BY <1>8, <1>10, <1>11 DEF PageInv
\* A handler begins: it takes rows and a draft that are there.
LEMMA BeginPreserves ==
    ASSUME PageInv, NEW s \in Slot, Absent(queue, s), NEW a \in Account,
           NEW gs \in [Slot -> FlowType], \A t \in Slot : Sends(gs[t]) /\ Alike(gs[t], flows[t]),
           NEW f \in FlowType, Sends(f), WaitsFor(f, a), f.op # "duplicate",
           FlowIds(f) \subseteq PageIds \cup DraftIds,
           flows' = [gs EXCEPT ![s] = f], queue' = [queue EXCEPT ![a] = Append(@, s)],
           page' \in PageType, page'.draft = page.draft,
           PageIds' \subseteq PageIds, Unique(PageRules'),
           UNCHANGED <<server, fresh, faults, lost>>, rushed' \in BOOLEAN
    PROVE  PageInv'
  <1>1. TypeInv /\ Queued
    BY DEF PageInv
  <1>2. /\ flows' \in [Slot -> FlowType] /\ \A t \in Slot : Sends(flows'[t])
        /\ queue' \in [Account -> Seq(Slot)] /\ Queued'
        /\ flows'[s] = f
        /\ \A t \in Slot \ {s} : Alike(flows'[t], flows[t])
    BY <1>1, Sent
  <1>3. TypeInv'
    BY <1>1, <1>2 DEF TypeInv
  <1>4. UniqueIds'
    BY DEF PageInv, UniqueIds
  <1>5. DraftIds' = DraftIds /\ StoredIds' = StoredIds
    BY DEF DraftIds, Modal, StoredIds
  <1>6. KnownIds' /\ NewIds'
    BY <1>2, <1>5, IdsSpread DEF PageInv
  <1> QED
    BY <1>2, <1>3, <1>4, <1>6 DEF PageInv

LEMMA SwitchedPage ==
    ASSUME PageInv, NEW id, NEW ids, NEW active \in BOOLEAN,
           page'.rules = WithActive(page.rules, ids, id, active)
    PROVE  /\ page'.rules \in Seq(RowSet)
           /\ PageIds' = PageIds /\ Unique(PageRules')
           /\ id \in ids => PageRules' = Switched(PageRules, id, active)
           /\ id \notin ids => page'.rules = page.rules
  <1> DEFINE rows == page.rules
             new == WithActive(rows, ids, id, active)
  <1>1. rows \in Seq(RowSet) /\ Unique(PageRules) /\ PageRules = RulesOf(rows)
        /\ PageRules' = RulesOf(page'.rules)
    BY PageFields DEF PageInv, UniqueIds, PageRules, RulesOf
  <1>2. /\ new \in Seq(RowSet) /\ Len(new) = Len(rows)
        /\ \A i \in 1 .. Len(rows) : new[i].rule.id = rows[i].rule.id
        /\ id \notin ids => new = rows
        /\ id \in ids => RulesOf(new) = Switched(RulesOf(rows), id, active)
        /\ Unique(RulesOf(rows)) => Unique(RulesOf(new))
    BY <1>1, SwitchedRows
  <1>3. DOMAIN new = 1 .. Len(rows) /\ DOMAIN rows = 1 .. Len(rows)
    BY <1>1, <1>2, LenProperties
  <1> HIDE DEF new
  <1>4. page'.rules = new
    BY DEF new
  <1>5. PageIds' = PageIds
    BY <1>2, <1>3, <1>4 DEF PageIds
  <1> QED
    BY <1>1, <1>2, <1>4, <1>5

LEMMA TogglePreserves ==
    ASSUME PageInv, TableInv, NEW s \in Slot, NEW id \in TableIds, Toggle(s, id)
    PROVE  PageInv'
  <1> DEFINE active == ~table.rows[TableIndex(id)].rule.active
             cmd == [op |-> "setRuleActive", id |-> id, active |-> active]
             gs == SetActive(flows, id, active)
             f == Flow("toggle", page.account, cmd, <<>>, {id})
  <1>1. TypeInv /\ page.account \in Account /\ page.rules \in Seq(RowSet) /\ page \in PageType
    BY PageFields DEF PageInv, TypeInv
  <1>2. active \in BOOLEAN /\ id \in Nat
    BY <1>1, TableIndexIs
  <1> DEFINE begun == [NoFlow EXCEPT !.op = "toggle", !.account = page.account,
                                     !.tied = {id}, !.cmd = cmd]
  <1>f. begun = f
    <2> HIDE DEF cmd
    <2> DEFINE b == begun
    <2>1. b = begun
      OBVIOUS
    <2> HIDE DEF b
    <2>2. b = f
      BY <2>1 DEF NoFlow, Flow
    <2> QED
      BY <2>1, <2>2
  <1> HIDE DEF f
  <1>3. /\ page' = [page EXCEPT !.rules = WithActive(@, {id}, id, active)]
        /\ flows' = [gs EXCEPT ![s] = f]
        /\ queue' = [queue EXCEPT ![page.account] = Append(@, s)]
        /\ UNCHANGED <<server, fresh, faults, lost>>
    BY <1>f DEF Toggle
  <1>4. Absent(queue, s) /\ rushed' \in BOOLEAN
    BY <1>1, FreeAbsent, AskedType DEF Toggle
  <1> HIDE DEF active
  <1>5. cmd \in SwitchCmds /\ cmd \in Cmds
    BY <1>2 DEF SwitchCmds, Cmds
  <1> HIDE DEF cmd
  <1>6. /\ f \in FlowType /\ Sends(f) /\ WaitsFor(f, page.account)
        /\ f.op = "toggle" /\ FlowIds(f) = {}
    <2> DEFINE tied == {id}
    <2>1. tied \in SUBSET Nat /\ f = Flow("toggle", page.account, cmd, <<>>, tied)
      BY <1>2 DEF f
    <2> HIDE DEF tied
    <2> QED
      BY <1>1, <1>5, <2>1, FlowWithoutRows
  <1>7. flows \in [Slot -> FlowType] /\ \A t \in Slot : Sends(flows[t])
    BY <1>1 DEF TypeInv
  <1>8. gs \in [Slot -> FlowType] /\ \A t \in Slot : Sends(gs[t]) /\ Alike(gs[t], flows[t])
    BY <1>2, <1>7, SetActiveFlows
  <1> HIDE DEF gs
  <1>9. page'.rules = WithActive(page.rules, {id}, id, active) /\ page'.draft = page.draft
    BY <1>1, <1>3 DEF PageType
  <1>10. page'.rules \in Seq(RowSet) /\ PageIds' = PageIds /\ Unique(PageRules')
    BY <1>2, <1>9, SwitchedPage
  <1>11. page' \in PageType
    BY <1>1, <1>3, <1>9, <1>10 DEF PageType
  <1> QED
    BY <1>1, <1>3, <1>4, <1>6, <1>8, <1>9, <1>10, <1>11, BeginPreserves

LEMMA SavePreserves ==
    ASSUME PageInv, NEW s \in Slot, Save(s)
    PROVE  PageInv'
  <1> DEFINE cmd == SaveCmd(page.draft)
             f == Flow("save", page.account, cmd, <<>>, {})
  <1>1. TypeInv /\ page.account \in Account /\ page \in PageType /\ rushed \in BOOLEAN
    BY PageFields DEF PageInv, TypeInv
  <1>2. page.draft \in RowSet /\ DraftIds = {page.draft.rule.id}
    BY <1>1, PageFields DEF Save, Modal, DraftIds
  <1>3. cmd \in SaveCmds /\ cmd \in Cmds /\ cmd.id \in DraftIds
    BY <1>2, SaveCmdIs
  <1> DEFINE begun == [[NoFlow EXCEPT !.op = "save", !.cmd = cmd]
                         EXCEPT !.account = page.account]
  <1>f. begun = f
    <2> HIDE DEF cmd
    <2> DEFINE b == begun
    <2>1. b = begun
      OBVIOUS
    <2> HIDE DEF b
    <2>2. b = f
      BY <2>1 DEF NoFlow, Flow
    <2> QED
      BY <2>1, <2>2
  <1> HIDE DEF f
  <1>4. /\ flows' = [flows EXCEPT ![s] = f]
        /\ queue' = [queue EXCEPT ![page.account] = Append(@, s)]
        /\ UNCHANGED <<server, page, fresh, faults, lost, rushed>>
    BY <1>f DEF Save, Send
  <1>5. Absent(queue, s)
    BY FreeAbsent DEF Save
  <1> HIDE DEF cmd
  <1>6. /\ f \in FlowType /\ Sends(f) /\ WaitsFor(f, page.account)
        /\ f.op = "save" /\ FlowIds(f) = {cmd.id}
    <2> DEFINE nothing == {}
    <2>1. nothing \in SUBSET Nat /\ f = Flow("save", page.account, cmd, <<>>, nothing)
      BY DEF f
    <2> HIDE DEF nothing
    <2> QED
      BY <1>1, <1>3, <2>1, FlowWithoutRows
  <1>7. flows \in [Slot -> FlowType] /\ \A t \in Slot : Sends(flows[t]) /\ Alike(flows[t], flows[t])
    BY <1>1, AlikeSelf DEF TypeInv
  <1>8. PageIds' = PageIds /\ PageRules' = PageRules /\ Unique(PageRules)
    BY <1>4 DEF PageIds, PageRules, PageInv, UniqueIds
  <1> QED
    BY <1>1, <1>3, <1>4, <1>5, <1>6, <1>7, <1>8, BeginPreserves

LEMMA DeleteIs ==
    ASSUME PageInv, NEW s \in Slot, Delete(s)
    PROVE  \E f \in FlowType :
             /\ Sends(f) /\ WaitsFor(f, page.account) /\ f.op = "delete"
             /\ FlowIds(f) \subseteq PageIds
             /\ flows' = [flows EXCEPT ![s] = f]
             /\ queue' = [queue EXCEPT ![page.account] = Append(@, s)]
  <1> DEFINE P == {i \in DOMAIN page.rules : page.rules[i].rule.id \in page.selected}
             targets == AtPositions(page.rules, P)
             cmd == [op |-> "deleteRule", id |-> Head(targets).rule.id]
             f == Flow("delete", page.account, cmd, Tail(targets), {})
  <1>1. TypeInv /\ page.account \in Account /\ page \in PageType /\ page.rules \in Seq(RowSet)
    BY PageFields DEF PageInv, TypeInv
  <1>2. /\ targets # <<>>
        /\ Send(s, DeleteTurn([NoFlow EXCEPT !.op = "delete", !.rest = targets]), page.account)
    BY DEF Delete
  <1>4. P \in SUBSET (DOMAIN page.rules)
    OBVIOUS
  <1> HIDE DEF P
  <1>5. /\ targets \in Seq(RowSet)
        /\ \A i \in DOMAIN targets : \E j \in P : targets[i] = page.rules[j]
    BY <1>1, <1>4, PickedRows
  <1> HIDE DEF targets
  <1>6. \A i \in DOMAIN targets : targets[i].rule.id \in PageIds
    BY <1>4, <1>5 DEF PageIds
  <1>7. /\ Head(targets) \in RowSet /\ Tail(targets) \in Seq(RowSet)
        /\ \A i \in DOMAIN Tail(targets) : Tail(targets)[i].rule.id \in PageIds
    <2>1. /\ Head(targets) \in RowSet /\ Tail(targets) \in Seq(RowSet)
          /\ Len(Tail(targets)) = Len(targets) - 1
          /\ \A i \in 1 .. Len(Tail(targets)) : Tail(targets)[i] = targets[i + 1]
      BY <1>2, <1>5, HeadTailProperties
    <2>2. DOMAIN targets = 1 .. Len(targets) /\ DOMAIN Tail(targets) = 1 .. Len(Tail(targets))
          /\ Len(targets) \in Nat
      BY <1>5, <2>1, LenProperties
    <2>3. \A i \in DOMAIN Tail(targets) : i + 1 \in DOMAIN targets
      BY <2>1, <2>2
    <2> QED
      BY <1>6, <2>1, <2>2, <2>3
  <1>8. cmd \in DeleteCmds /\ cmd \in Cmds
    BY <1>7, RowFields, RuleFields DEF DeleteCmds, Cmds
  <1> DEFINE begun == [DeleteTurn([NoFlow EXCEPT !.op = "delete", !.rest = targets])
                         EXCEPT !.account = page.account]
  <1>f. begun = f
    <2> HIDE DEF targets
    <2> DEFINE g == [NoFlow EXCEPT !.op = "delete", !.rest = targets]
               b == begun
    <2>0. g = [NoFlow EXCEPT !.op = "delete", !.rest = targets]
      OBVIOUS
    <2>1. b = [[g EXCEPT !.rest = Tail(@),
                         !.cmd = [op |-> "deleteRule", id |-> Head(g.rest).rule.id]]
                 EXCEPT !.account = page.account]
      BY DEF DeleteTurn
    <2> HIDE DEF g, b
    <2>2. g = Flow("delete", NoAccount, [op |-> "none"], targets, {})
      BY <2>0 DEF NoFlow, Flow
    <2>3. g.rest = targets
      BY <2>2 DEF Flow
    <2>4. b = [[g EXCEPT !.rest = Tail(targets), !.cmd = cmd] EXCEPT !.account = page.account]
      BY <2>1, <2>2, <2>3 DEF Flow
    <2> HIDE DEF cmd
    <2>5. b = f
      BY <2>2, <2>4 DEF Flow
    <2> QED
      BY <2>5 DEF b
  <1>9. /\ flows' = [flows EXCEPT ![s] = f]
        /\ queue' = [queue EXCEPT ![page.account] = Append(@, s)]
    <2> HIDE DEF f
    <2> QED
      BY <1>2, <1>f DEF Send
  <1> HIDE DEF cmd
  <1> DEFINE rest == Tail(targets)
  <1> HIDE DEF rest
  <1>10. /\ f \in FlowType /\ Sends(f) /\ WaitsFor(f, page.account)
         /\ f.op = "delete" /\ FlowIds(f) = {rest[i].rule.id : i \in DOMAIN rest}
    <2>1. {} \in SUBSET Nat /\ rest \in Seq(RowSet)
      BY <1>7 DEF rest
    <2>2. f = Flow("delete", page.account, cmd, rest, {})
      BY DEF rest
    <2> HIDE DEF f
    <2> QED
      BY <1>1, <1>8, <2>1, <2>2, FlowBegins
  <1> HIDE DEF f
  <1>11. FlowIds(f) \subseteq PageIds
    BY <1>7, <1>10 DEF rest
  <1> QED
    BY <1>9, <1>10, <1>11

LEMMA DeletePreserves ==
    ASSUME PageInv, NEW s \in Slot, Delete(s)
    PROVE  PageInv'
  <1>1. TypeInv /\ page.account \in Account /\ page \in PageType /\ page.rules \in Seq(RowSet)
    BY PageFields DEF PageInv, TypeInv
  <1>2. page' = [page EXCEPT !.busy = TRUE] /\ UNCHANGED <<server, fresh, faults, lost>>
    BY DEF Delete
  <1>3. Absent(queue, s) /\ rushed' \in BOOLEAN
    BY <1>1, FreeAbsent, AskedType DEF Delete
  <1>4. PICK f \in FlowType :
          /\ Sends(f) /\ WaitsFor(f, page.account) /\ f.op = "delete"
          /\ FlowIds(f) \subseteq PageIds
          /\ flows' = [flows EXCEPT ![s] = f]
          /\ queue' = [queue EXCEPT ![page.account] = Append(@, s)]
    BY DeleteIs
  <1>5. flows \in [Slot -> FlowType] /\ \A t \in Slot : Sends(flows[t]) /\ Alike(flows[t], flows[t])
    BY <1>1, AlikeSelf DEF TypeInv
  <1>6. page' \in PageType /\ page'.rules = page.rules /\ page'.draft = page.draft
    BY <1>1, <1>2 DEF PageType
  <1>7. PageIds' = PageIds /\ PageRules' = PageRules /\ Unique(PageRules)
    BY <1>6 DEF PageIds, PageRules, PageInv, UniqueIds
  <1> QED
    BY <1>1, <1>2, <1>3, <1>4, <1>5, <1>6, <1>7, BeginPreserves

LEMMA DuplicatePreserves ==
    ASSUME PageInv, NEW s \in Slot, Duplicate(s)
    PROVE  PageInv'
  <1>1. /\ TypeInv /\ Queued /\ page.account \in Account /\ page \in PageType
        /\ fresh \in Nat \ {NoId}
    BY PageFields DEF PageInv, TypeInv
  <1>2. PICK id \in Single :
          Send(s, [NoFlow EXCEPT !.op = "duplicate",
                     !.cmd = SaveCmd(Row([page.rules[PageIndex(id)].rule EXCEPT !.id = fresh],
                                         NextOrderForNew))],
               page.account)
    BY ZenonT(30) DEF Duplicate
  <1>3. /\ page' = [page EXCEPT !.busy = TRUE] /\ fresh' = fresh + 1
        /\ UNCHANGED <<server, faults, lost>> /\ rushed' \in BOOLEAN /\ Absent(queue, s)
    BY <1>1, AskedType, FreeAbsent DEF Duplicate
  <1> DEFINE rule == [page.rules[PageIndex(id)].rule EXCEPT !.id = fresh]
             cmd == SaveCmd(Row(rule, NextOrderForNew))
             f == Flow("duplicate", page.account, cmd, <<>>, {})
             begun == [[NoFlow EXCEPT !.op = "duplicate", !.cmd = cmd]
                         EXCEPT !.account = page.account]
  <1>4. rule \in Rules /\ rule.id = fresh
    <2>1. page.rules[PageIndex(id)].rule \in Rules
      BY <1>1, PageIndexIs DEF Single
    <2> QED
      BY <1>1, <2>1 DEF Rules
  <1>5. /\ flows' = [flows EXCEPT ![s] = begun]
        /\ queue' = [queue EXCEPT ![page.account] = Append(@, s)]
    BY <1>2 DEF Send
  <1> HIDE DEF rule
  <1>6. cmd \in SaveCmds /\ cmd \in Cmds /\ cmd.id = fresh
    BY <1>1, <1>4, RowIs, MinOrderType, SaveCmdIs
  <1> HIDE DEF cmd
  <1>f. begun = f
    <2> DEFINE b == begun
    <2>1. b = begun
      OBVIOUS
    <2> HIDE DEF b
    <2>2. b = f
      BY <2>1 DEF NoFlow, Flow
    <2> QED
      BY <2>1, <2>2
  <1> HIDE DEF begun, f
  <1>7. /\ f \in FlowType /\ Sends(f) /\ WaitsFor(f, page.account)
        /\ f.op = "duplicate" /\ f.cmd = cmd /\ FlowIds(f) = {fresh}
    <2> DEFINE nothing == {}
               op == "duplicate"
    <2>1. /\ nothing \in SUBSET Nat /\ f = Flow(op, page.account, cmd, <<>>, nothing)
          /\ op \in {"toggle", "save", "duplicate"} /\ op # "toggle"
      BY DEF f
    <2>a. page.account \in Account /\ cmd \in Cmds /\ cmd \in SaveCmds
      BY <1>1, <1>6
    <2> HIDE DEF nothing, op
    <2>2. /\ f \in FlowType /\ Sends(f) /\ WaitsFor(f, page.account)
          /\ f.op = op /\ f.cmd = cmd /\ FlowIds(f) = {cmd.id}
      BY <2>a, <2>1, FlowWithoutRows
    <2> QED
      BY <1>6, <2>2 DEF op
  <1>8. flows \in [Slot -> FlowType] /\ \A t \in Slot : Sends(flows[t]) /\ Alike(flows[t], flows[t])
    BY <1>1, AlikeSelf DEF TypeInv
  <1>9. /\ flows' \in [Slot -> FlowType] /\ \A t \in Slot : Sends(flows'[t])
        /\ queue' \in [Account -> Seq(Slot)] /\ Queued'
        /\ flows'[s] = f
        /\ \A t \in Slot \ {s} : Alike(flows'[t], flows[t])
    BY <1>1, <1>3, <1>5, <1>f, <1>7, <1>8, Sent
  <1>10. page' \in PageType /\ page'.rules = page.rules /\ page'.draft = page.draft
    BY <1>1, <1>3 DEF PageType
  <1>11. fresh' \in Nat \ {NoId}
    BY <1>1, <1>3 DEF NoId
  <1>12. TypeInv'
    BY <1>1, <1>3, <1>9, <1>10, <1>11 DEF TypeInv
  <1>13. PageRules' = PageRules /\ PageIds' = PageIds /\ DraftIds' \subseteq DraftIds
    BY <1>10, PageStays
  <1>14. UniqueIds'
    BY <1>3, <1>13, UniqueStays DEF PageInv
  <1>15. /\ GivenOut' = GivenOut \cup {fresh} /\ fresh \notin GivenOut
         /\ StoredIds' = StoredIds
    BY <1>1, <1>3 DEF GivenOut, NoId, StoredIds
  <1>16. /\ StoredIds \cup PageIds \cup DraftIds \subseteq GivenOut
         /\ \A t \in Slot : FlowIds(flows[t]) \subseteq GivenOut
         /\ \A t \in Slot \ {s} : FlowIds(flows'[t]) = FlowIds(flows[t])
    BY <1>9 DEF PageInv, KnownIds, Alike
  <1>17. FlowIds(flows'[s]) = {fresh} /\ flows'[s].cmd.id = fresh
    BY <1>6, <1>7, <1>9
  <1>18. KnownIds'
    <2>1. StoredIds' \cup PageIds' \cup DraftIds' \subseteq GivenOut'
      BY <1>13, <1>15, <1>16
    <2>2. \A t \in Slot : FlowIds(flows'[t]) \subseteq GivenOut'
      BY <1>15, <1>16, <1>17
    <2> QED
      BY <2>1, <2>2 DEF KnownIds
  <1>19. ASSUME NEW t \in Slot, flows'[t].op = "duplicate"
         PROVE  /\ flows'[t].cmd.id \notin StoredIds' \cup PageIds' \cup DraftIds'
                /\ \A u \in Slot \ {t} : flows'[t].cmd.id \notin FlowIds(flows'[u])
    <2>1. CASE t = s
      <3> HIDE DEF FlowIds
      <3> QED
        BY <1>13, <1>15, <1>16, <1>17, <2>1
    <2>2. CASE t # s
      <3>1. flows[t].op = "duplicate" /\ flows'[t].cmd.id = flows[t].cmd.id
        BY <1>9, <1>19, <2>2 DEF Alike
      <3>2. /\ flows[t].cmd.id \notin StoredIds \cup PageIds \cup DraftIds
            /\ \A u \in Slot \ {t} : flows[t].cmd.id \notin FlowIds(flows[u])
        BY <3>1 DEF PageInv, NewIds
      <3>3. flows[t].cmd.id \in GivenOut
        BY <3>1, <1>16 DEF FlowIds
      <3> QED
        BY <1>13, <1>15, <1>16, <1>17, <2>2, <3>1, <3>2, <3>3
    <2> QED
      BY <2>1, <2>2
  <1>20. NewIds'
    BY <1>19 DEF NewIds
  <1> QED
    BY <1>9, <1>12, <1>14, <1>18, <1>20 DEF PageInv

\* A row goes from one place to another.
Shifts(new, touched) ==
    \E i, to \in 1 .. Len(page.rules) :
        /\ i # to
        /\ new = Numbered(Shifted(page.rules, i, to))
        /\ touched = Touched(Shifted(page.rules, i, to))

\* What a move does to the page, and the rows it has to send.
MovesTo(s, new, touched) ==
    /\ Shifts(new, touched)
    /\ Unique(RulesOf(new)) /\ ToSet(RulesOf(new)) = ToSet(PageRules)
    /\ page' \in {[page EXCEPT !.rules = new, !.screen = "table"],
                   [page EXCEPT !.rules = new, !.screen = "table", !.busy = TRUE]}
    /\ touched = <<>> => UNCHANGED <<flows, queue>>
    /\ touched # <<>> =>
         /\ Head(touched) \in RowSet /\ Head(touched).rule \in ToSet(PageRules)
         /\ Tail(touched) \in Seq(RowSet)
         /\ \A k \in DOMAIN Tail(touched) : Tail(touched)[k].rule \in ToSet(PageRules)
         /\ flows' = [flows EXCEPT ![s] =
               Flow("move", page.account, SaveCmd(Head(touched)), Tail(touched), PageIds)]
         /\ queue' = [queue EXCEPT ![page.account] = Append(@, s)]

LEMMA MoveIs ==
    ASSUME PageInv, NEW s \in Slot, Move(s)
    PROVE  \E new, touched \in Seq(RowSet) :
             MovesTo(s, new, touched)
  <1>1. /\ TypeInv /\ Queued /\ page.account \in Account /\ page \in PageType
        /\ page.rules \in Seq(RowSet) /\ Unique(PageRules)
    BY PageFields DEF PageInv, TypeInv, UniqueIds
  <1>2. PICK id \in Single :
          LET i == PageIndex(id)
              n == Len(page.rules)
          IN  \E to \in ({1, n, i - 1, i + 1} \cap (1 .. n)) \ {i} :
              LET rows == InsertAt(RemoveAt(page.rules, i), to, page.rules[i])
                  touched == Touched(rows)
              IN  IF touched = <<>>
                  THEN /\ page' = [page EXCEPT !.rules = Numbered(rows), !.screen = "table"]
                       /\ UNCHANGED <<flows, queue>>
                  ELSE /\ page' = [page EXCEPT !.rules = Numbered(rows), !.screen = "table",
                                               !.busy = TRUE]
                       /\ Send(s, SaveTurn([NoFlow EXCEPT !.op = "move", !.rest = touched,
                                                          !.tied = PageIds]), page.account)
    BY ZenonT(30) DEF Move
  <1> DEFINE i == PageIndex(id)
  <1>3. PICK to \in ({1, Len(page.rules), i - 1, i + 1} \cap (1 .. Len(page.rules))) \ {i} :
          LET rows == InsertAt(RemoveAt(page.rules, i), to, page.rules[i])
              touched == Touched(rows)
          IN  IF touched = <<>>
              THEN /\ page' = [page EXCEPT !.rules = Numbered(rows), !.screen = "table"]
                   /\ UNCHANGED <<flows, queue>>
              ELSE /\ page' = [page EXCEPT !.rules = Numbered(rows), !.screen = "table",
                                           !.busy = TRUE]
                   /\ Send(s, SaveTurn([NoFlow EXCEPT !.op = "move", !.rest = touched,
                                                      !.tied = PageIds]), page.account)
    BY <1>2, ZenonT(30)
  <1>4. i \in 1 .. Len(page.rules) /\ to \in 1 .. Len(page.rules) /\ i # to
    BY <1>1, PageIndexIs DEF Single
  <1> DEFINE rows == InsertAt(RemoveAt(page.rules, i), to, page.rules[i])
             new == Numbered(rows)
             touched == Touched(rows)
             cmd == SaveCmd(Head(touched))
             f == Flow("move", page.account, cmd, Tail(touched), PageIds)
             begun == [SaveTurn([NoFlow EXCEPT !.op = "move", !.rest = touched,
                                               !.tied = PageIds])
                         EXCEPT !.account = page.account]
  <1> HIDE DEF i
  <1>6. /\ new \in Seq(RowSet) /\ Unique(RulesOf(new))
        /\ ToSet(RulesOf(new)) = ToSet(PageRules)
        /\ touched \in Seq(RowSet)
        /\ \A k \in DOMAIN touched : touched[k].rule \in ToSet(PageRules)
    BY <1>1, <1>4, MovedRows DEF PageRules, RulesOf
  <1>7. /\ page' \in {[page EXCEPT !.rules = new, !.screen = "table"],
                      [page EXCEPT !.rules = new, !.screen = "table", !.busy = TRUE]}
        /\ touched = <<>> => UNCHANGED <<flows, queue>>
        /\ touched # <<>> => /\ flows' = [flows EXCEPT ![s] = begun]
                             /\ queue' = [queue EXCEPT ![page.account] = Append(@, s)]
    BY <1>3 DEF Send
  <1>s. Shifts(new, touched)
    <2>1. rows = Shifted(page.rules, i, to)
      BY DEF Shifted
    <2> HIDE DEF i, rows
    <2> QED
      BY <1>4, <2>1 DEF Shifts
  <1> HIDE DEF rows, new, touched
  <1>8. ASSUME touched # <<>>
        PROVE  /\ Head(touched) \in RowSet /\ Head(touched).rule \in ToSet(PageRules)
               /\ Tail(touched) \in Seq(RowSet)
               /\ \A k \in DOMAIN Tail(touched) : Tail(touched)[k].rule \in ToSet(PageRules)
    <2>1. /\ Head(touched) \in RowSet /\ Tail(touched) \in Seq(RowSet)
          /\ Head(touched) = touched[1]
          /\ Len(Tail(touched)) = Len(touched) - 1
          /\ \A k \in 1 .. Len(Tail(touched)) : Tail(touched)[k] = touched[k + 1]
      BY <1>6, <1>8, HeadTailProperties
    <2>2. DOMAIN touched = 1 .. Len(touched) /\ DOMAIN Tail(touched) = 1 .. Len(Tail(touched))
          /\ Len(touched) \in Nat /\ Len(touched) # 0
      BY <1>6, <1>8, <2>1, LenProperties, EmptySeq
    <2>3. 1 \in DOMAIN touched /\ \A k \in DOMAIN Tail(touched) : k + 1 \in DOMAIN touched
      BY <2>1, <2>2
    <2> QED
      BY <1>6, <2>1, <2>2, <2>3
  <1>f. begun = f
    <2> DEFINE g == [NoFlow EXCEPT !.op = "move", !.rest = touched, !.tied = PageIds]
               b == begun
    <2>0. g = [NoFlow EXCEPT !.op = "move", !.rest = touched, !.tied = PageIds]
      OBVIOUS
    <2>1. b = [[g EXCEPT !.rest = Tail(@), !.cmd = SaveCmd(Head(g.rest))]
                 EXCEPT !.account = page.account]
      BY DEF SaveTurn
    <2> HIDE DEF g, b
    <2>2. g = Flow("move", NoAccount, [op |-> "none"], touched, PageIds)
      BY <2>0 DEF NoFlow, Flow
    <2>3. g.rest = touched
      BY <2>2 DEF Flow
    <2>4. b = [[g EXCEPT !.rest = Tail(touched), !.cmd = cmd] EXCEPT !.account = page.account]
      BY <2>1, <2>2, <2>3 DEF Flow
    <2> HIDE DEF cmd
    <2>5. b = f
      BY <2>2, <2>4 DEF Flow
    <2> QED
      BY <2>5 DEF b
  <1> HIDE DEF begun
  <1>9. touched # <<>> => flows' = [flows EXCEPT ![s] = f]
    BY <1>7, <1>f
  <1>10. MovesTo(s, new, touched)
    BY <1>6, <1>7, <1>8, <1>9, <1>s DEF MovesTo
  <1> QED
    BY <1>6, <1>10

LEMMA MovePreserves ==
    ASSUME PageInv, NEW s \in Slot, Move(s)
    PROVE  PageInv'
  <1>1. /\ TypeInv /\ Queued /\ page.account \in Account /\ page \in PageType
        /\ page.rules \in Seq(RowSet) /\ Unique(PageRules)
    BY PageFields DEF PageInv, TypeInv, UniqueIds
  <1>a. PICK new \in Seq(RowSet), touched \in Seq(RowSet) : MovesTo(s, new, touched)
    BY MoveIs
  <1>2. /\ Unique(RulesOf(new)) /\ ToSet(RulesOf(new)) = ToSet(PageRules)
        /\ page' \in {[page EXCEPT !.rules = new, !.screen = "table"],
                      [page EXCEPT !.rules = new, !.screen = "table", !.busy = TRUE]}
        /\ touched = <<>> => UNCHANGED <<flows, queue>>
        /\ touched # <<>> =>
             /\ Head(touched) \in RowSet /\ Head(touched).rule \in ToSet(PageRules)
             /\ Tail(touched) \in Seq(RowSet)
             /\ \A k \in DOMAIN Tail(touched) : Tail(touched)[k].rule \in ToSet(PageRules)
             /\ flows' = [flows EXCEPT ![s] =
                   Flow("move", page.account, SaveCmd(Head(touched)), Tail(touched), PageIds)]
             /\ queue' = [queue EXCEPT ![page.account] = Append(@, s)]
    BY <1>a DEF MovesTo
  <1>5. /\ UNCHANGED <<server, fresh, faults, lost>> /\ rushed' \in BOOLEAN /\ Absent(queue, s)
    BY <1>1, AskedType, FreeAbsent DEF Move
  <1>8. page' \in PageType /\ page'.rules = new /\ page'.draft = page.draft
    <2>1. page.rules \in Seq(RowSet) /\ "table" \in Screens
      BY <1>1 DEF Screens
    <2> QED
      BY <1>1, <1>2, <2>1 DEF PageType
  <1>9. PageRules' = RulesOf(new) /\ PageIds' = PageIds /\ Unique(PageRules')
    <2>1. PageRules' = RulesOf(new)
      BY <1>8 DEF PageRules, RulesOf
    <2>2. PageIds' = {rule.id : rule \in ToSet(PageRules')}
      BY DEF PageIds, PageRules, ToSet
    <2> QED
      BY <1>2, <2>1, <2>2, PageIdsAre
  <1>10. CASE touched = <<>>
    <2>1. TypeInv' /\ Queued'
      BY <1>1, <1>5, <1>2, <1>8, <1>10, QueuedStays DEF TypeInv
    <2>2. UniqueIds'
      BY <1>5, <1>9 DEF PageInv, UniqueIds
    <2>3. DraftIds' = DraftIds
      BY <1>8 DEF DraftIds, Modal
    <2>4. KnownIds' /\ NewIds'
      BY <1>5, <1>2, <1>9, <1>10, <2>3, IdsStay DEF PageInv
    <2> QED
      BY <2>1, <2>2, <2>4 DEF PageInv
  <1>11. CASE touched # <<>>
    <2> DEFINE cmd == SaveCmd(Head(touched))
               rest == Tail(touched)
               f == Flow("move", page.account, cmd, rest, PageIds)
    <2>1. flows' = [flows EXCEPT ![s] = f] /\ queue' = [queue EXCEPT ![page.account] = Append(@, s)]
      BY <1>2, <1>11
    <2> HIDE DEF rest
    <2>2. cmd \in SaveCmds /\ cmd \in Cmds /\ cmd.id \in PageIds
      BY <1>2, <1>11, SaveCmdIs, PageIdsAre
    <2>3. rest \in Seq(RowSet) /\ {rest[k].rule.id : k \in DOMAIN rest} \subseteq PageIds
      BY <1>2, <1>11, PageIdsAre DEF rest
    <2> HIDE DEF cmd
    <2>4. f = Flow("move", page.account, cmd, rest, PageIds)
      OBVIOUS
    <2> HIDE DEF f
    <2>5. PageIds \in SUBSET Nat
      <3>1. \A k \in DOMAIN page.rules : page.rules[k].rule \in Rules
        BY <1>1, RulesOfRows
      <3> QED
        BY <3>1, RuleFields DEF PageIds
    <2>6. /\ f \in FlowType /\ Sends(f) /\ WaitsFor(f, page.account)
          /\ f.op = "move" /\ FlowIds(f) = {cmd.id} \cup {rest[k].rule.id : k \in DOMAIN rest}
      BY <1>1, <2>2, <2>3, <2>4, <2>5, FlowBegins
    <2>7. FlowIds(f) \subseteq PageIds
      BY <2>2, <2>3, <2>6
    <2>8. flows \in [Slot -> FlowType]
          /\ \A t \in Slot : Sends(flows[t]) /\ Alike(flows[t], flows[t])
      BY <1>1, AlikeSelf DEF TypeInv
    <2> QED
      BY <1>1, <1>5, <1>8, <1>9, <2>1, <2>6, <2>7, <2>8, BeginPreserves
  <1> QED
    BY <1>10, <1>11

(***************************************************************************)
(* The ends of a handler, and its next message.                            *)
(***************************************************************************)
\* The handler is done, the others go on as they were.
Done(s) == flows'[s] = NoFlow /\ \A t \in Slot \ {s} : Alike(flows'[t], flows[t])

LEMMA EndPreserves ==
    ASSUME PageInv, NEW s \in Slot, NEW a \in Account, AtHead(s, a),
           NEW gs \in [Slot -> FlowType], \A t \in Slot : Sends(gs[t]) /\ Alike(gs[t], flows[t]),
           Ends(s, a, gs),
           server' \in {server, Carried(a, flows[s].cmd)},
           page' \in PageType, page'.draft \in {page.draft, NoDraft},
           PageIds' \subseteq PageIds \cup FlowIds(flows[s]), Unique(PageRules'),
           fresh' = fresh, faults' \in Nat, lost' \in BOOLEAN, rushed' = rushed
    PROVE  PageInv' /\ Done(s)
  <1>1. TypeInv /\ Queued
    BY DEF PageInv
  <1>2. /\ flows' \in [Slot -> FlowType] /\ \A t \in Slot : Sends(flows'[t])
        /\ queue' \in [Account -> Seq(Slot)] /\ Queued' /\ flows'[s] = NoFlow
        /\ flows'[s].op = "none" /\ FlowIds(flows'[s]) = {}
        /\ \A t \in Slot \ {s} : Alike(flows'[t], flows[t])
    BY <1>1, Ended
  <1>3. /\ server' \in [Account -> Seq(Rules)]
        /\ \A b \in Account : Unique(server'[b])
        /\ StoredIds' \subseteq StoredIds \cup FlowIds(flows[s])
    BY ServerStep
  <1>4. TypeInv'
    BY <1>1, <1>2, <1>3 DEF TypeInv
  <1>5. UniqueIds'
    BY <1>3 DEF UniqueIds
  <1>6. DraftIds' \subseteq DraftIds
    BY DEF DraftIds, Modal
  <1>7. KnownIds /\ NewIds
    BY DEF PageInv
  <1>8. /\ PageIds' \cup DraftIds' \subseteq PageIds \cup DraftIds \cup FlowIds(flows[s])
        /\ FlowIds(flows'[s]) \subseteq StoredIds \cup PageIds \cup DraftIds \cup FlowIds(flows[s])
        /\ flows'[s].op # "duplicate"
    BY <1>2, <1>6
  <1>9. KnownIds' /\ NewIds'
    BY <1>2, <1>3, <1>7, <1>8, IdsSpread
  <1> QED
    BY <1>2, <1>4, <1>5, <1>9 DEF PageInv, Done

LEMMA GoOnPreserves ==
    ASSUME PageInv, NEW s \in Slot, NEW a \in Account, AtHead(s, a),
           NEW f \in FlowType, Sends(f), f.op \notin {"none", "switch", "duplicate"},
           f.answer = NoAnswer, FlowIds(f) \subseteq FlowIds(flows[s]),
           GoesOn(s, a, f),
           server' \in {server, Carried(a, flows[s].cmd)},
           page' \in PageType, page'.draft \in {page.draft, NoDraft},
           PageIds' \subseteq PageIds \cup FlowIds(flows[s]), Unique(PageRules'),
           fresh' = fresh, faults' \in Nat, lost' \in BOOLEAN, rushed' = rushed
    PROVE  PageInv'
  <1>1. TypeInv /\ Queued
    BY DEF PageInv
  <1>2. /\ flows' \in [Slot -> FlowType] /\ \A t \in Slot : Sends(flows'[t])
        /\ queue' \in [Account -> Seq(Slot)] /\ Queued'
        /\ flows'[s].op = f.op /\ FlowIds(flows'[s]) = FlowIds(f)
        /\ \A t \in Slot \ {s} : flows'[t] = flows[t] /\ Alike(flows'[t], flows[t])
    <2>1. f.op \notin {"none", "switch"}
      OBVIOUS
    <2> QED
      BY <1>1, <2>1, WentOn, ZenonT(90)
  <1>3. /\ server' \in [Account -> Seq(Rules)]
        /\ \A b \in Account : Unique(server'[b])
        /\ StoredIds' \subseteq StoredIds \cup FlowIds(flows[s])
    BY ServerStep
  <1>4. TypeInv'
    BY <1>1, <1>2, <1>3 DEF TypeInv
  <1>5. UniqueIds'
    BY <1>3 DEF UniqueIds
  <1>6. DraftIds' \subseteq DraftIds
    BY DEF DraftIds, Modal
  <1>7. KnownIds /\ NewIds
    BY DEF PageInv
  <1>8. /\ PageIds' \cup DraftIds' \subseteq PageIds \cup DraftIds \cup FlowIds(flows[s])
        /\ FlowIds(flows'[s]) \subseteq StoredIds \cup PageIds \cup DraftIds \cup FlowIds(flows[s])
        /\ flows'[s].op # "duplicate"
    BY <1>2, <1>6
  <1>9. KnownIds' /\ NewIds'
    BY <1>2, <1>3, <1>7, <1>8, IdsSpread
  <1> QED
    BY <1>2, <1>4, <1>5, <1>9 DEF PageInv

LEMMA AnswerPreserves ==
    ASSUME PageInv, NEW s \in Slot, NEW a \in Account, AtHead(s, a),
           flows[s].op = "reload", NEW answer \in Answers,
           Unique(answer.rules), IdsOf(answer.rules) \subseteq StoredIds,
           flows' = [flows EXCEPT ![s].answer = answer],
           queue' = [queue EXCEPT ![a] = Tail(@)],
           server' \in {server, Carried(a, flows[s].cmd)}, page' = page,
           fresh' = fresh, faults' \in Nat, lost' \in BOOLEAN, rushed' = rushed
    PROVE  PageInv'
  <1>1. TypeInv /\ Queued
    BY DEF PageInv
  <1>2. /\ flows' \in [Slot -> FlowType] /\ \A t \in Slot : Sends(flows'[t])
        /\ queue' \in [Account -> Seq(Slot)] /\ Queued'
        /\ flows'[s].op = "reload" /\ flows'[s].answer = answer /\ flows'[s].rest = flows[s].rest
        /\ \A t \in Slot \ {s} : flows'[t] = flows[t] /\ Alike(flows'[t], flows[t])
    BY <1>1, Waits, ZenonT(60)
  <1>3. FlowIds(flows'[s]) \subseteq StoredIds \cup FlowIds(flows[s])
    BY <1>2 DEF FlowIds
  <1>4. /\ server' \in [Account -> Seq(Rules)]
        /\ \A b \in Account : Unique(server'[b])
        /\ StoredIds' \subseteq StoredIds \cup FlowIds(flows[s])
    BY ServerStep
  <1>5. TypeInv'
    BY <1>1, <1>2, <1>4 DEF TypeInv
  <1>6. PageRules' = PageRules /\ PageIds' = PageIds /\ DraftIds' = DraftIds
    BY DEF PageRules, PageIds, DraftIds, Modal
  <1>7. UniqueIds'
    BY <1>4, <1>6 DEF UniqueIds, PageInv
  <1>8. KnownIds /\ NewIds
    BY DEF PageInv
  <1>9. /\ PageIds' \cup DraftIds' \subseteq PageIds \cup DraftIds \cup FlowIds(flows[s])
        /\ FlowIds(flows'[s]) \subseteq StoredIds \cup PageIds \cup DraftIds \cup FlowIds(flows[s])
        /\ flows'[s].op # "duplicate"
    BY <1>2, <1>3, <1>6
  <1>10. KnownIds' /\ NewIds'
    BY <1>2, <1>4, <1>8, <1>9, IdsSpread
  <1> QED
    BY <1>2, <1>5, <1>7, <1>10 DEF PageInv

(***************************************************************************)
(* The handlers, at the answer.                                            *)
(***************************************************************************)
LEMMA ToggledPreserves ==
    ASSUME PageInv, NEW s \in Slot, NEW a \in Account, AtHead(s, a), Toggled(s, a),
           server' \in {server, Carried(a, flows[s].cmd)},
           fresh' = fresh, faults' \in Nat, lost' \in BOOLEAN, rushed' = rushed
    PROVE  PageInv'
  <1>1. flows \in [Slot -> FlowType] /\ \A t \in Slot : Sends(flows[t]) /\ Alike(flows[t], flows[t])
    BY AlikeSelf DEF PageInv, TypeInv
  <1>2. page' \in PageType /\ page'.draft = page.draft /\ PageIds' = PageIds /\ Unique(PageRules')
    BY DEF PageInv, TypeInv, UniqueIds, Toggled, PageIds, PageRules
  <1>3. Ends(s, a, flows)
    BY DEF Toggled
  <1> QED
    BY <1>1, <1>2, <1>3, EndPreserves

LEMMA DraftSavedPreserves ==
    ASSUME PageInv, NEW s \in Slot, NEW a \in Account, AtHead(s, a), DraftSaved(s, a),
           server' \in {server, Carried(a, flows[s].cmd)},
           fresh' = fresh, faults' \in Nat, lost' \in BOOLEAN, rushed' = rushed
    PROVE  PageInv' /\ Done(s) /\ PageIds' \subseteq PageIds \cup FlowIds(flows[s])
  <1>1. /\ TypeInv /\ page \in PageType /\ page.rules \in Seq(RowSet) /\ Unique(PageRules)
        /\ flows \in [Slot -> FlowType] /\ \A t \in Slot : Sends(flows[t])
    BY PageFields DEF PageInv, TypeInv, UniqueIds
  <1> DEFINE cmd == flows[s].cmd
             row == SavedRow(cmd)
             id == row.rule.id
             gs == Untied(id)
             tied == [t \in Slot |-> flows[t].tied \ {id}]
  <1>2. cmd \in SaveCmds /\ cmd.id \in FlowIds(flows[s])
    BY <1>1 DEF DraftSaved, Sends, FlowIds
  <1>3. /\ page' = [page EXCEPT !.rules = Show(row), !.selected = {id}, !.draft = NoDraft,
                                !.screen = "table"]
        /\ Ends(s, a, gs)
    BY DEF DraftSaved
  <1> HIDE DEF cmd
  <1>4. row \in RowSet /\ row.rule \in Rules /\ row.rule.id = cmd.id /\ id \in Nat
    BY <1>2, SavedRowIs, RuleFields
  <1> HIDE DEF row
  <1>5. gs \in [Slot -> FlowType] /\ \A t \in Slot : Sends(gs[t]) /\ Alike(gs[t], flows[t])
    <2>1. tied \in [Slot -> SUBSET Nat]
      BY <1>1 DEF FlowType
    <2>2. gs = Retied(flows, tied)
      BY DEF Untied, Retied
    <2> HIDE DEF tied, gs
    <2>3. /\ gs \in [Slot -> FlowType]
          /\ \A t \in Slot : /\ Sends(gs[t]) /\ Alike(gs[t], flows[t]) /\ gs[t].tied = tied[t]
                             /\ gs[t].rest = flows[t].rest
      BY <1>1, <2>1, <2>2, TiedFlows
    <2> QED
      BY <2>3
  <1> HIDE DEF gs
  <1>6. /\ Show(row) \in Seq(RowSet) /\ Unique(RulesOf(Show(row)))
        /\ ToSet(RulesOf(Show(row))) = Others(PageRules, id) \cup {row.rule}
    BY <1>1, <1>4, ShownRows
  <1> DEFINE new == Show(row)
  <1> HIDE DEF new
  <1>7. page' \in PageType /\ page'.rules = new /\ page'.draft = NoDraft
    <2>1. "table" \in Screens /\ {id} \in SUBSET Nat /\ NoDraft \in RowSet \cup {NoDraft}
      BY <1>4 DEF Screens
    <2>2. new \in Seq(RowSet)
      BY <1>6 DEF new
    <2>3. page' = [page EXCEPT !.rules = new, !.selected = {id}, !.draft = NoDraft,
                                !.screen = "table"]
      BY <1>3 DEF new
    <2> HIDE DEF id
    <2> QED
      BY <1>1, <2>1, <2>2, <2>3 DEF PageType
  <1>8. PageRules' = RulesOf(new)
    BY <1>7 DEF PageRules, RulesOf
  <1>9. PageIds' \subseteq PageIds \cup FlowIds(flows[s])
    <2>1. PageIds' = {rule.id : rule \in ToSet(PageRules')}
      BY DEF PageIds, PageRules, ToSet
    <2>2. {rule.id : rule \in Others(PageRules, id)} \subseteq PageIds
      BY PageIdsAre DEF Others
    <2> QED
      BY <1>2, <1>4, <1>6, <1>8, <2>1, <2>2 DEF new
  <1> QED
    BY <1>3, <1>5, <1>6, <1>7, <1>8, <1>9, EndPreserves DEF new

LEMMA DuplicatedPreserves ==
    ASSUME PageInv, NEW s \in Slot, NEW a \in Account, AtHead(s, a), Duplicated(s, a),
           server' \in {server, Carried(a, flows[s].cmd)},
           fresh' = fresh, faults' \in Nat, lost' \in BOOLEAN, rushed' = rushed
    PROVE  PageInv' /\ Done(s) /\ PageIds' \subseteq PageIds \cup FlowIds(flows[s])
  <1>1. /\ TypeInv /\ page \in PageType /\ page.rules \in Seq(RowSet) /\ Unique(PageRules)
        /\ flows \in [Slot -> FlowType]
        /\ \A t \in Slot : Sends(flows[t]) /\ Alike(flows[t], flows[t])
    BY PageFields, AlikeSelf DEF PageInv, TypeInv, UniqueIds
  <1> DEFINE cmd == flows[s].cmd
             row == SavedRow(cmd)
             new == Append(page.rules, row)
  <1>2. /\ cmd \in SaveCmds /\ cmd.id \in FlowIds(flows[s])
        /\ cmd.id \notin PageIds
    BY <1>1 DEF Duplicated, Sends, FlowIds, PageInv, NewIds
  <1>3. /\ page' = [page EXCEPT !.rules = new, !.selected = {row.rule.id}, !.busy = FALSE,
                                !.screen = "table"]
        /\ Ends(s, a, flows)
    BY DEF Duplicated
  <1> HIDE DEF cmd
  <1>4. row \in RowSet /\ row.rule \in Rules /\ row.rule.id = cmd.id /\ row.rule.id \in Nat
    BY <1>2, SavedRowIs, RuleFields
  <1> HIDE DEF row
  <1>5. PageRules = RulesOf(page.rules) /\ ~Holds(RulesOf(page.rules), row.rule.id)
    BY <1>2, <1>4 DEF PageRules, RulesOf, Holds, PageIds
  <1>6. /\ new \in Seq(RowSet) /\ Unique(RulesOf(new))
        /\ ToSet(RulesOf(new)) = ToSet(PageRules) \cup {row.rule}
    BY <1>1, <1>4, <1>5, AppendedRows
  <1> HIDE DEF new
  <1>7. page' \in PageType /\ page'.rules = new /\ page'.draft = page.draft
    <2> DEFINE ids == {row.rule.id}
    <2>1. "table" \in Screens /\ ids \in SUBSET Nat
      BY <1>4 DEF Screens
    <2>2. page' = [page EXCEPT !.rules = new, !.selected = ids, !.busy = FALSE, !.screen = "table"]
      BY <1>3
    <2> HIDE DEF ids
    <2> QED
      BY <1>1, <1>6, <2>1, <2>2 DEF PageType
  <1>8. PageRules' = RulesOf(new)
    BY <1>7 DEF PageRules, RulesOf
  <1>9. PageIds' \subseteq PageIds \cup FlowIds(flows[s])
    <2>1. PageIds' = {rule.id : rule \in ToSet(PageRules')}
      BY DEF PageIds, PageRules, ToSet
    <2> QED
      BY <1>2, <1>4, <1>6, <1>8, <2>1, PageIdsAre
  <1> QED
    BY <1>1, <1>3, <1>6, <1>7, <1>8, <1>9, EndPreserves

\* The next row of a deletion, or of a move, gets its turn.
LEMMA DeleteTurnIs ==
    ASSUME NEW f \in FlowType, Sends(f), f.op = "delete", f.rest # <<>>
    PROVE  /\ DeleteTurn(f) \in FlowType /\ Sends(DeleteTurn(f))
           /\ DeleteTurn(f).op = "delete" /\ DeleteTurn(f).answer = NoAnswer
           /\ FlowIds(DeleteTurn(f)) \subseteq FlowIds(f)
  <1> DEFINE cmd == [op |-> "deleteRule", id |-> Head(f.rest).rule.id]
             rest == Tail(f.rest)
             g == DeleteTurn(f)
  <1>1. /\ Head(f.rest) \in RowSet /\ rest \in Seq(RowSet)
        /\ {rest[i].rule.id : i \in DOMAIN rest} \subseteq FlowIds(f)
    BY RestIds
  <1>2. cmd \in DeleteCmds /\ cmd \in Cmds
    BY <1>1, RowFields, RuleFields DEF DeleteCmds, Cmds
  <1>3. g = [f EXCEPT !.rest = rest, !.cmd = cmd]
    BY DEF DeleteTurn, FlowType
  <1> HIDE DEF cmd, rest, g
  <1>4. /\ g \in FlowType /\ g.op = f.op /\ g.cmd = cmd /\ g.rest = rest /\ g.answer = f.answer
    BY <1>1, <1>2, <1>3 DEF FlowType
  <1>5. Sends(g) /\ g.answer = NoAnswer
    BY <1>2, <1>4 DEF Sends
  <1>6. FlowIds(g) \subseteq FlowIds(f)
    <2>1. IdsOf(f.answer.rules) \subseteq FlowIds(f)
      BY DEF FlowIds
    <2>2. FlowIds(g) = {rest[i].rule.id : i \in DOMAIN rest} \cup IdsOf(f.answer.rules)
      BY <1>4 DEF FlowIds
    <2> QED
      BY <1>1, <2>1, <2>2
  <1> QED
    BY <1>4, <1>5, <1>6 DEF g

LEMMA SaveTurnIs ==
    ASSUME NEW f \in FlowType, Sends(f), f.op = "move", f.rest # <<>>
    PROVE  /\ SaveTurn(f) \in FlowType /\ Sends(SaveTurn(f))
           /\ SaveTurn(f).op = "move" /\ SaveTurn(f).answer = NoAnswer
           /\ FlowIds(SaveTurn(f)) \subseteq FlowIds(f)
  <1> DEFINE cmd == SaveCmd(Head(f.rest))
             rest == Tail(f.rest)
             g == SaveTurn(f)
  <1>1. /\ Head(f.rest) \in RowSet /\ rest \in Seq(RowSet)
        /\ Head(f.rest).rule.id \in FlowIds(f)
        /\ {rest[i].rule.id : i \in DOMAIN rest} \subseteq FlowIds(f)
    BY RestIds
  <1>2. cmd \in SaveCmds /\ cmd \in Cmds /\ cmd.id \in FlowIds(f)
    BY <1>1, SaveCmdIs
  <1>3. g = [f EXCEPT !.rest = rest, !.cmd = cmd]
    BY DEF SaveTurn, FlowType
  <1> HIDE DEF cmd, rest, g
  <1>4. /\ g \in FlowType /\ g.op = f.op /\ g.cmd = cmd /\ g.rest = rest /\ g.answer = f.answer
    BY <1>1, <1>2, <1>3 DEF FlowType
  <1>5. Sends(g) /\ g.answer = NoAnswer
    BY <1>2, <1>4 DEF Sends
  <1>6. FlowIds(g) \subseteq FlowIds(f)
    <2>1. IdsOf(f.answer.rules) \subseteq FlowIds(f)
      BY DEF FlowIds
    <2>2. FlowIds(g) = {cmd.id} \cup {rest[i].rule.id : i \in DOMAIN rest} \cup IdsOf(f.answer.rules)
      BY <1>4 DEF FlowIds
    <2> QED
      BY <1>1, <1>2, <2>1, <2>2
  <1> QED
    BY <1>4, <1>5, <1>6 DEF g

LEMMA DeletedPreserves ==
    ASSUME PageInv, NEW s \in Slot, NEW a \in Account, AtHead(s, a), Deleted(s, a),
           server' \in {server, Carried(a, flows[s].cmd)},
           fresh' = fresh, faults' \in Nat, lost' \in BOOLEAN, rushed' = rushed
    PROVE  /\ PageInv' /\ PageIds' \subseteq PageIds
           /\ flows[s].rest = <<>> => Done(s)
  <1>1. /\ TypeInv /\ page \in PageType /\ page.rules \in Seq(RowSet) /\ Unique(PageRules)
        /\ flows \in [Slot -> FlowType] /\ flows[s] \in FlowType
        /\ \A t \in Slot : Sends(flows[t]) /\ Alike(flows[t], flows[t])
    BY PageFields, AlikeSelf DEF PageInv, TypeInv, UniqueIds
  <1> DEFINE id == flows[s].cmd.id
             left == AtPositions(page.rules, {i \in DOMAIN page.rules : page.rules[i].rule.id # id})
             first == IF left = <<>> THEN {} ELSE {left[1].rule.id}
  <1>2. /\ flows[s].op = "delete"
        /\ flows[s].rest # <<>> =>
             /\ page' = [page EXCEPT !.rules = left, !.whole = FALSE]
             /\ GoesOn(s, a, DeleteTurn(flows[s]))
        /\ flows[s].rest = <<>> =>
             /\ page' = [page EXCEPT !.rules = left, !.whole = FALSE, !.busy = FALSE,
                                     !.screen = Screen(left), !.selected = first]
             /\ Ends(s, a, flows)
    BY DEF Deleted
  <1>3. PageRules = RulesOf(page.rules)
    BY DEF PageRules, RulesOf
  <1>4. /\ left \in Seq(RowSet) /\ Unique(RulesOf(left))
        /\ ToSet(RulesOf(left)) = Others(PageRules, id)
    BY <1>1, <1>3, KeptRows
  <1> HIDE DEF left
  <1>5. Screen(left) \in Screens /\ first \in SUBSET Nat
    <2>1. left # <<>> => left[1] \in RowSet
      BY <1>4
    <2>2. left # <<>> => left[1].rule.id \in Nat
      BY <2>1, RowFields, RuleFields
    <2> QED
      BY <2>2 DEF Screen, Screens
  <1> HIDE DEF first
  <1>6. page' \in PageType /\ page'.rules = left /\ page'.draft = page.draft
    <2> DEFINE screen == Screen(left)
    <2> HIDE DEF screen
    <2>0. left \in Seq(RowSet) /\ screen \in Screens /\ first \in SUBSET Nat
      BY <1>4, <1>5 DEF screen
    <2>1. CASE flows[s].rest # <<>>
      <3>1. page' = [page EXCEPT !.rules = left, !.whole = FALSE]
        BY <1>2, <2>1
      <3> QED
        BY <1>1, <2>0, <3>1 DEF PageType
    <2>2. CASE flows[s].rest = <<>>
      <3>1. page' = [page EXCEPT !.rules = left, !.whole = FALSE, !.busy = FALSE,
                                 !.screen = screen, !.selected = first]
        BY <1>2, <2>2 DEF screen
      <3> QED
        BY <1>1, <2>0, <3>1 DEF PageType
    <2> QED
      BY <2>1, <2>2
  <1>7. PageRules' = RulesOf(left)
    BY <1>6 DEF PageRules, RulesOf
  <1>8. PageIds' \subseteq PageIds
    <2>1. PageIds' = {rule.id : rule \in ToSet(PageRules')}
      BY DEF PageIds, PageRules, ToSet
    <2> QED
      BY <1>4, <1>7, <2>1, PageIdsAre DEF Others
  <1>9. CASE flows[s].rest # <<>>
    <2> DEFINE f == DeleteTurn(flows[s])
    <2>1. /\ f \in FlowType /\ Sends(f) /\ f.op = "delete" /\ f.answer = NoAnswer
          /\ FlowIds(f) \subseteq FlowIds(flows[s])
      BY <1>1, <1>2, <1>9, DeleteTurnIs
    <2>2. GoesOn(s, a, f)
      BY <1>2, <1>9
    <2> HIDE DEF f
    <2> QED
      BY <1>4, <1>6, <1>7, <1>8, <1>9, <2>1, <2>2, GoOnPreserves
  <1>10. CASE flows[s].rest = <<>>
    BY <1>1, <1>2, <1>4, <1>6, <1>7, <1>8, <1>10, EndPreserves
  <1> QED
    BY <1>9, <1>10

LEMMA MovedPreserves ==
    ASSUME PageInv, NEW s \in Slot, NEW a \in Account, AtHead(s, a), Moved(s, a),
           server' \in {server, Carried(a, flows[s].cmd)},
           fresh' = fresh, faults' \in Nat, lost' \in BOOLEAN, rushed' = rushed
    PROVE  PageInv'
  <1>1. /\ TypeInv /\ page \in PageType /\ Unique(PageRules)
        /\ flows \in [Slot -> FlowType] /\ flows[s] \in FlowType
        /\ \A t \in Slot : Sends(flows[t]) /\ Alike(flows[t], flows[t])
    BY AlikeSelf DEF PageInv, TypeInv, UniqueIds
  <1>2. page' \in PageType /\ page'.rules = page.rules /\ page'.draft = page.draft
    <2>1. page' = page \/ page' = [page EXCEPT !.busy = FALSE]
      BY DEF Moved
    <2>2. CASE page' = page
      BY <1>1, <2>2
    <2>3. CASE page' = [page EXCEPT !.busy = FALSE]
      BY <1>1, <2>3 DEF PageType
    <2> QED
      BY <2>1, <2>2, <2>3
  <1>3. PageIds' = PageIds /\ PageRules' = PageRules
    BY <1>2, PageStays
  <1>4. CASE flows[s].rest # <<>>
    <2> DEFINE f == SaveTurn(flows[s])
    <2>1. /\ f \in FlowType /\ Sends(f) /\ f.op = "move" /\ f.answer = NoAnswer
          /\ FlowIds(f) \subseteq FlowIds(flows[s])
      BY <1>1, <1>4, SaveTurnIs DEF Moved
    <2>2. GoesOn(s, a, f)
      BY <1>4 DEF Moved
    <2> HIDE DEF f
    <2> QED
      BY <1>1, <1>2, <1>3, <2>1, <2>2, GoOnPreserves
  <1>5. CASE flows[s].rest = <<>>
    <2>1. Ends(s, a, flows)
      BY <1>5 DEF Moved
    <2> QED
      BY <1>1, <1>2, <1>3, <2>1, EndPreserves
  <1> QED
    BY <1>4, <1>5

LEMMA ListAnsweredPreserves ==
    ASSUME PageInv, NEW s \in Slot, NEW a \in Account, AtHead(s, a), ListAnswered(s, a),
           server' \in {server, Carried(a, flows[s].cmd)},
           fresh' = fresh, faults' \in Nat, lost' \in BOOLEAN, rushed' = rushed
    PROVE  PageInv'
  <1> DEFINE answer == [kind |-> "list", rules |-> server[a]]
  <1>1. server \in [Account -> Seq(Rules)] /\ Unique(server[a])
    BY DEF PageInv, TypeInv, UniqueIds
  <1>2. answer \in Answers /\ Unique(answer.rules) /\ IdsOf(answer.rules) \subseteq StoredIds
    BY <1>1 DEF Answers, StoredIds
  <1>3. /\ flows[s].op = "reload" /\ flows' = [flows EXCEPT ![s].answer = answer]
        /\ queue' = [queue EXCEPT ![a] = Tail(@)] /\ page' = page
    BY DEF ListAnswered
  <1> HIDE DEF answer
  <1> QED
    BY <1>2, <1>3, AnswerPreserves, ZenonT(30)

LEMMA ListFailedPreserves ==
    ASSUME PageInv, NEW s \in Slot, NEW a \in Account, AtHead(s, a),
           NEW kind \in Faults, ListFailed(s, a, kind),
           server' \in {server, Carried(a, flows[s].cmd)},
           fresh' = fresh, faults' \in Nat, lost' \in BOOLEAN, rushed' = rushed
    PROVE  PageInv'
  <1> DEFINE answer == [kind |-> kind, rules |-> <<>>]
  <1>1. answer \in Answers /\ answer.rules = <<>> /\ DOMAIN <<>> = {}
    BY ManagerAssumption DEF Answers
  <1>2. Unique(answer.rules) /\ IdsOf(answer.rules) \subseteq StoredIds
    BY <1>1 DEF Unique, IdsOf
  <1>3. /\ flows[s].op = "reload" /\ flows' = [flows EXCEPT ![s].answer = answer]
        /\ queue' = [queue EXCEPT ![a] = Tail(@)] /\ page' = page
    BY DEF ListFailed
  <1> HIDE DEF answer
  <1> QED
    BY <1>1, <1>2, <1>3, AnswerPreserves, ZenonT(30)

LEMMA ToggleBackPreserves ==
    ASSUME PageInv, NEW s \in Slot, NEW a \in Account, AtHead(s, a), ToggleBack(s, a),
           server' \in {server, Carried(a, flows[s].cmd)},
           fresh' = fresh, faults' \in Nat, lost' \in BOOLEAN, rushed' = rushed
    PROVE  PageInv'
  <1> DEFINE cmd == flows[s].cmd
             active == ~cmd.active
             tied == flows[s].tied
             gs == IF tied = {} THEN flows ELSE SetActive(flows, cmd.id, active)
  <1>1. /\ TypeInv /\ page \in PageType
        /\ flows \in [Slot -> FlowType]
        /\ \A t \in Slot : Sends(flows[t]) /\ Alike(flows[t], flows[t])
    BY AlikeSelf DEF PageInv, TypeInv
  <1>2. active \in BOOLEAN
    OBVIOUS
  <1>3. page' = [page EXCEPT !.rules = WithActive(@, tied, cmd.id, active)] /\ Ends(s, a, gs)
    BY DEF ToggleBack
  <1> HIDE DEF active
  <1>4. gs \in [Slot -> FlowType] /\ \A t \in Slot : Sends(gs[t]) /\ Alike(gs[t], flows[t])
    <2> DEFINE set == SetActive(flows, cmd.id, active)
    <2>1. set \in [Slot -> FlowType] /\ \A t \in Slot : Sends(set[t]) /\ Alike(set[t], flows[t])
      BY <1>1, <1>2, SetActiveFlows
    <2> HIDE DEF set
    <2>2. gs = IF tied = {} THEN flows ELSE set
      BY DEF set
    <2> QED
      BY <1>1, <2>1, <2>2
  <1>5. page'.rules = WithActive(page.rules, tied, cmd.id, active) /\ page'.draft = page.draft
    BY <1>1, <1>3 DEF PageType
  <1>6. page'.rules \in Seq(RowSet) /\ PageIds' = PageIds /\ Unique(PageRules')
    BY <1>2, <1>5, SwitchedPage
  <1>7. page' \in PageType
    BY <1>1, <1>3, <1>5, <1>6 DEF PageType
  <1> HIDE DEF gs
  <1> QED
    BY <1>3, <1>4, <1>5, <1>6, <1>7, EndPreserves

LEMMA GivenUpPreserves ==
    ASSUME PageInv, NEW s \in Slot, NEW a \in Account, AtHead(s, a), GivenUp(s, a),
           server' \in {server, Carried(a, flows[s].cmd)},
           fresh' = fresh, faults' \in Nat, lost' \in BOOLEAN, rushed' = rushed
    PROVE  PageInv'
  <1>1. /\ page \in PageType /\ Unique(PageRules) /\ flows \in [Slot -> FlowType]
        /\ \A t \in Slot : Sends(flows[t]) /\ Alike(flows[t], flows[t])
    BY AlikeSelf DEF PageInv, TypeInv, UniqueIds
  <1>2. page' \in PageType /\ page'.rules = page.rules /\ page'.draft = page.draft
    BY <1>1 DEF GivenUp, PageType
  <1>3. PageIds' = PageIds /\ PageRules' = PageRules
    BY <1>2, PageStays
  <1>4. Ends(s, a, flows)
    BY DEF GivenUp
  <1> QED
    BY <1>1, <1>2, <1>3, <1>4, EndPreserves

LEMMA ListFlowItself ==
    /\ ListFlow \in FlowType /\ Sends(ListFlow) /\ FlowIds(ListFlow) = {}
    /\ ListFlow.op = "reload" /\ ListFlow.answer = NoAnswer
  <1> DEFINE g == ListFlow
  <1>0. g = [NoFlow EXCEPT !.op = "reload", !.cmd = ListCmd]
    BY DEF ListFlow, ListCmd
  <1> HIDE DEF g
  <1>1. /\ g \in FlowType /\ g.op = "reload" /\ g.rest = NoFlow.rest /\ g.answer = NoFlow.answer
        /\ g.cmd = ListCmd
    BY <1>0, NoFlowIs DEF FlowType, FlowOps, ListCmd, Cmds
  <1>2. FlowIds(g) = FlowIds(NoFlow)
    BY <1>1, NoFlowIs DEF FlowIds
  <1> QED
    BY <1>1, <1>2, NoFlowIs, NoAnswerIs DEF Sends, g

LEMMA MoveReloadsPreserves ==
    ASSUME PageInv, NEW s \in Slot, NEW a \in Account, AtHead(s, a), MoveReloads(s, a),
           server' \in {server, Carried(a, flows[s].cmd)},
           fresh' = fresh, faults' \in Nat, lost' \in BOOLEAN, rushed' = rushed
    PROVE  PageInv'
  <1>1. page \in PageType /\ Unique(PageRules)
    BY DEF PageInv, TypeInv, UniqueIds
  <1>2. page' \in PageType /\ page'.rules = page.rules /\ page'.draft = page.draft
    BY <1>1, LoadingType DEF MoveReloads
  <1>3. PageIds' = PageIds /\ PageRules' = PageRules
    BY <1>2, PageStays
  <1>4. GoesOn(s, a, ListFlow)
    BY DEF MoveReloads
  <1> DEFINE f == ListFlow
  <1>5. /\ f \in FlowType /\ Sends(f) /\ f.op \notin {"none", "switch", "duplicate"}
        /\ f.answer = NoAnswer /\ FlowIds(f) \subseteq FlowIds(flows[s]) /\ GoesOn(s, a, f)
    BY <1>4, ListFlowItself
  <1> HIDE DEF f
  <1> QED
    BY <1>1, <1>2, <1>3, <1>5, GoOnPreserves

LEMMA PasswordWantedPreserves ==
    ASSUME PageInv, NEW s \in Slot, NEW a \in Account, AtHead(s, a), PasswordWanted(s, a),
           server' \in {server, Carried(a, flows[s].cmd)},
           fresh' = fresh, faults' \in Nat, lost' \in BOOLEAN, rushed' = rushed
    PROVE  PageInv'
  <1> DEFINE cmd == flows[s].cmd
             tied == flows[s].tied
             active == ~cmd.active
             back == [page EXCEPT !.rules = WithActive(@, tied, cmd.id, active)]
             told == IF flows[s].op = "toggle" THEN back
                     ELSE IF flows[s].op = "save" THEN [page EXCEPT !.draft = NoDraft]
                     ELSE [page EXCEPT !.busy = FALSE]
  <1>1. /\ page \in PageType /\ Unique(PageRules) /\ flows \in [Slot -> FlowType]
        /\ page.rules \in Seq(RowSet)
        /\ \A t \in Slot : Sends(flows[t]) /\ Alike(flows[t], flows[t])
    BY AlikeSelf, PageFields DEF PageInv, TypeInv, UniqueIds
  <1>2. page' = LazyAuth(told) /\ Ends(s, a, flows)
    BY DEF PasswordWanted
  <1>3. active \in BOOLEAN
    OBVIOUS
  <1> HIDE DEF active
  <1>4. CASE flows[s].op = "toggle"
    <2>1. WithActive(page.rules, tied, cmd.id, active) \in Seq(RowSet)
      BY <1>1, <1>3, SwitchedRows
    <2>2. /\ told \in PageType /\ told.rules = WithActive(page.rules, tied, cmd.id, active)
          /\ told.draft = page.draft
      BY <1>1, <1>4, <2>1 DEF PageType
    <2> HIDE DEF told
    <2>3. /\ page' \in PageType /\ page'.draft = page.draft
          /\ page'.rules = WithActive(page.rules, tied, cmd.id, active)
      BY <1>2, <2>2, LazyAuthType
    <2>4. PageIds' = PageIds /\ Unique(PageRules')
      BY <1>3, <2>3, SwitchedPage
    <2> QED
      BY <1>1, <1>2, <2>3, <2>4, EndPreserves
  <1>5. CASE flows[s].op # "toggle"
    <2>1. told \in PageType /\ told.rules = page.rules /\ told.draft \in {page.draft, NoDraft}
      BY <1>1, <1>5 DEF PageType
    <2> HIDE DEF told
    <2>2. page' \in PageType /\ page'.rules = page.rules /\ page'.draft \in {page.draft, NoDraft}
      BY <1>2, <2>1, LazyAuthType
    <2>3. PageIds' = PageIds /\ PageRules' = PageRules
      BY <2>2, PageStays
    <2> QED
      BY <1>1, <1>2, <2>2, <2>3, EndPreserves
  <1> QED
    BY <1>4, <1>5

\* The list is shown, or the screen that stands in its place.
LEMMA ShowListPreserves ==
    ASSUME PageInv, NEW s \in Slot, ShowList(s)
    PROVE  PageInv'
  <1> DEFINE f == flows[s]
             rules == f.answer.rules
  <1>1. /\ TypeInv /\ Queued /\ page \in PageType /\ page.rules \in Seq(RowSet)
        /\ flows \in [Slot -> FlowType]
        /\ \A t \in Slot : flows[t] \in FlowType /\ Sends(flows[t]) /\ Alike(flows[t], flows[t])
    BY PageFields, AlikeSelf DEF PageInv, TypeInv
  <1>2. /\ f.op = "reload" /\ f.answer # NoAnswer
        /\ UNCHANGED <<server, queue, fresh, ops, faults, lost, rushed>>
    BY DEF ShowList
  <1>3. rules \in Seq(Rules) /\ Unique(rules) /\ IdsOf(rules) \subseteq FlowIds(f)
    BY <1>1 DEF FlowType, Answers, Sends, FlowIds
  <1>4. /\ flows' \in [Slot -> FlowType] /\ \A t \in Slot : Sends(flows'[t])
        /\ flows'[s] = NoFlow
        /\ \A t \in Slot \ {s} : Alike(flows'[t], flows[t])
    <2>1. CASE f.answer.kind # "list"
      <3>1. flows' = [flows EXCEPT ![s] = NoFlow]
        BY <2>1 DEF ShowList
      <3> QED
        BY <1>1, <3>1, NoFlowIs
    <2>2. CASE f.answer.kind = "list"
      <3> DEFINE none == [t \in Slot |-> {}]
                 gs == Retied(flows, none)
      <3>1. gs \in [Slot -> FlowType]
            /\ \A t \in Slot : /\ Sends(gs[t]) /\ Alike(gs[t], flows[t]) /\ gs[t].tied = none[t]
                               /\ gs[t].rest = flows[t].rest
        <4>1. none \in [Slot -> SUBSET Nat] /\ \A t \in Slot : Sends(flows[t])
          BY <1>1
        <4> HIDE DEF none
        <4> QED
          BY <1>1, <4>1, TiedFlows
      <3>2. flows' = [t \in Slot |-> IF t = s THEN NoFlow ELSE gs[t]]
        <4>1. flows' = [t \in Slot |-> IF t = s THEN NoFlow ELSE [flows[t] EXCEPT !.tied = {}]]
          BY <2>2 DEF ShowList
        <4>2. \A t \in Slot : gs[t] = [flows[t] EXCEPT !.tied = {}]
          BY DEF Retied
        <4> HIDE DEF gs
        <4> QED
          BY <4>1, <4>2
      <3> HIDE DEF gs
      <3> QED
        BY <3>1, <3>2, NoFlowIs
    <2> QED
      BY <2>1, <2>2
  <1>5. Queued'
    <2>1. \A a \in Account : ~WaitsFor(flows[s], a)
      BY <1>2 DEF WaitsFor
    <2>2. \A t \in Slot : \A a \in Account : WaitsFor(flows[t], a) => WaitsFor(flows'[t], a)
      BY <1>4, <2>1 DEF WaitsFor, Alike
    <2>3. queue \in [Account -> Seq(Slot)] /\ Lined(queue, flows)
      BY <1>1 DEF TypeInv, Queued
    <2> QED
      BY <1>2, <2>2, <2>3, LineStays DEF Queued
  <1>6. /\ page' \in PageType /\ page'.draft = page.draft
        /\ page'.rules \in {page.rules, Listed(rules)}
    <2>1. CASE f.answer.kind = "no_password"
      <3> DEFINE p == [page EXCEPT !.busy = FALSE, !.loaded = NoAccount]
      <3>1. p \in PageType /\ p.rules = page.rules /\ p.draft = page.draft
        BY <1>1 DEF PageType
      <3>2. page' = LazyAuth(p)
        BY <2>1 DEF ShowList
      <3> HIDE DEF p
      <3> QED
        BY <3>1, <3>2, LazyAuthType
    <2>2. CASE f.answer.kind \notin {"no_password", "list"}
      <3>1. page' = [page EXCEPT !.busy = FALSE, !.loaded = NoAccount, !.screen = "error"]
        BY <2>2 DEF ShowList
      <3>2. "error" \in Screens
        BY DEF Screens
      <3> QED
        BY <1>1, <3>1, <3>2 DEF PageType
    <2>3. CASE f.answer.kind = "list"
      <3> DEFINE rows == Listed(rules)
                 screen == Screen(rules)
                 account == f.account
                 selected == IF page.selected = {} /\ rules # <<>> THEN {rules[1].id}
                             ELSE page.selected
      <3>1. page' = [page EXCEPT !.rules = rows, !.loaded = account, !.whole = TRUE,
                                 !.busy = FALSE, !.screen = screen, !.selected = selected]
        <4>1. page' = [page EXCEPT !.rules = Listed(rules), !.loaded = f.account,
                              !.whole = TRUE,
                              !.busy = FALSE, !.screen = Screen(rules),
                              !.selected = IF @ = {} /\ rules # <<>> THEN {rules[1].id} ELSE @]
          BY <2>3 DEF ShowList
        <4> QED
          BY <1>1, <4>1 DEF PageType
      <3>2. rows \in Seq(RowSet)
        BY <1>3, ListedRows
      <3>3. screen \in Screens
        BY DEF Screen, Screens
      <3>4. account \in Account \cup {NoAccount}
        BY <1>1 DEF FlowType
      <3>5. selected \in SUBSET Nat
        <4>1. rules # <<>> => rules[1] \in Rules
          BY <1>3
        <4>2. rules # <<>> => rules[1].id \in Nat
          BY <4>1, RuleFields
        <4>3. page.selected \in SUBSET Nat
          BY <1>1, PageFields
        <4> QED
          BY <4>2, <4>3
      <3> HIDE DEF rows, screen, account, selected
      <3>6. page' \in PageType /\ page'.draft = page.draft /\ page'.rules = rows
        BY <1>1, <3>1, <3>2, <3>3, <3>4, <3>5 DEF PageType
      <3> QED
        BY <3>6 DEF rows
    <2> QED
      BY <2>1, <2>2, <2>3
  <1>7. PageRules' \in {PageRules, rules}
    <2>1. PageRules' = RulesOf(page'.rules) /\ PageRules = RulesOf(page.rules)
      BY DEF PageRules, RulesOf
    <2>2. RulesOf(Listed(rules)) = rules
      BY <1>3, ListedRows
    <2> QED
      BY <1>6, <2>1, <2>2
  <1>8. UniqueIds'
    BY <1>2, <1>3, <1>7 DEF UniqueIds, PageInv
  <1>9. PageIds' \subseteq PageIds \cup FlowIds(f)
    <2>1. PageIds' = {rule.id : rule \in ToSet(PageRules')}
      BY DEF PageIds, PageRules, ToSet
    <2> QED
      BY <1>3, <1>7, <2>1, PageIdsAre, IdsOfElements
  <1>10. TypeInv'
    BY <1>1, <1>2, <1>4, <1>6 DEF TypeInv
  <1>11. KnownIds' /\ NewIds'
    <2>1. StoredIds' = StoredIds /\ DraftIds' = DraftIds
      BY <1>2, <1>6 DEF StoredIds, DraftIds, Modal
    <2>2. FlowIds(flows'[s]) = {} /\ flows'[s].op # "duplicate"
      BY <1>4, NoFlowIs
    <2> QED
      BY <1>2, <1>4, <1>9, <2>1, <2>2, IdsSpread DEF PageInv
  <1> QED
    BY <1>5, <1>8, <1>10, <1>11 DEF PageInv

(***************************************************************************)
(* The steps of the page, together.                                        *)
(***************************************************************************)
LEMMA ServePreserves ==
    ASSUME PageInv, NEW s \in Slot, NEW a \in Account, Serve(s, a)
    PROVE  PageInv'
  <1>1. /\ AtHead(s, a) /\ server' \in {server, Carried(a, flows[s].cmd)}
        /\ fresh' = fresh /\ faults' \in Nat /\ lost' \in BOOLEAN /\ rushed' = rushed
    BY DEF Serve, PageInv, TypeInv
  <1>2. \/ Toggled(s, a) \/ DraftSaved(s, a) \/ Duplicated(s, a)
        \/ Deleted(s, a) \/ Moved(s, a) \/ ListAnswered(s, a)
    BY DEF Serve
  <1> QED
    BY <1>1, <1>2, ToggledPreserves, DraftSavedPreserves, DuplicatedPreserves,
       DeletedPreserves, MovedPreserves, ListAnsweredPreserves

LEMMA RefusePreserves ==
    ASSUME PageInv, NEW s \in Slot, NEW a \in Account, NEW kind \in Faults, Refuse(s, a, kind)
    PROVE  PageInv'
  <1>1. /\ AtHead(s, a) /\ server' \in {server, Carried(a, flows[s].cmd)}
        /\ fresh' = fresh /\ faults' \in Nat /\ lost' \in BOOLEAN /\ rushed' = rushed
    BY DEF Refuse, PageInv, TypeInv
  <1>2. \/ PasswordWanted(s, a) \/ ToggleBack(s, a) \/ GivenUp(s, a) \/ MoveReloads(s, a)
        \/ ListFailed(s, a, kind)
    BY DEF Refuse
  <1> QED
    BY <1>1, <1>2, PasswordWantedPreserves, ToggleBackPreserves, GivenUpPreserves,
       MoveReloadsPreserves, ListFailedPreserves

LEMMA NextPreserves ==
    ASSUME PageInv, TableInv, Next
    PROVE  PageInv'
  <1>1. ASSUME NEW s \in Slot, User(s)
        PROVE  PageInv'
    BY <1>1, ReloadPreserves, RetryPreserves, SavePreserves, DuplicatePreserves,
       DeletePreserves, MovePreserves, SwitchAccountPreserves, TogglePreserves DEF User
  <1>2. ASSUME NEW s \in Slot, Progress(s)
        PROVE  PageInv'
    BY <1>2, SwitchToldPreserves, ShowListPreserves, ServePreserves, RefusePreserves DEF Progress
  <1> QED
    BY <1>1, <1>2, SelectPreserves, SearchPreserves, NewPreserves, EditPreserves,
       CancelPreserves DEF Next

LEMMA StutterPreserves ==
    ASSUME PageInv, UNCHANGED vars
    PROVE  PageInv'
  <1>1. UNCHANGED <<server, queue, flows, page, fresh, faults, lost, rushed>>
    BY DEF vars
  <1>2. page' \in PageType /\ rushed' \in BOOLEAN
    BY <1>1 DEF PageInv, TypeInv
  <1> QED
    BY <1>1, <1>2, LooksPreserve

LEMMA InitIsPage ==
    ASSUME Init
    PROVE  PageInv
  <1>1. PICK a \in Account :
          /\ page = [rules |-> <<>>, account |-> a, loaded |-> NoAccount, selected |-> {},
                     busy |-> TRUE, auth |-> FALSE, screen |-> "loading", draft |-> NoDraft,
                     whole |-> FALSE]
          /\ queue = [b \in Account |-> IF b = a THEN <<1>> ELSE <<>>]
          /\ flows = [s \in Slot |-> IF s = 1 THEN [ListFlow EXCEPT !.account = a] ELSE NoFlow]
    BY DEF Init
  <1>2. server = Stored0 /\ fresh = FirstRule /\ faults = 0 /\ lost = FALSE /\ rushed = FALSE
    BY DEF Init
  <1>3. 1 \in Slot
    BY ManagerAssumption
  <1> DEFINE f == [ListFlow EXCEPT !.account = a]
             r == <<>>
             nothing == {}
             line == <<1>>
  <1>4. f \in FlowType /\ Sends(f) /\ WaitsFor(f, a) /\ FlowIds(f) = {} /\ f.op = "reload"
    BY ListFlowIs
  <1>5. flows = [s \in Slot |-> IF s = 1 THEN f ELSE NoFlow]
    BY <1>1
  <1>6. r \in Seq(RowSet) /\ r \in Seq(Slot) /\ DOMAIN r = {} /\ nothing \in SUBSET Nat
    OBVIOUS
  <1>7. line \in Seq(Slot) /\ DOMAIN line = {1} /\ line[1] = 1
    BY <1>3
  <1>8. /\ page.rules = r /\ page.draft = NoDraft
        /\ page = [rules |-> r, account |-> a, loaded |-> NoAccount, selected |-> nothing,
                   busy |-> TRUE, auth |-> FALSE, screen |-> "loading", draft |-> NoDraft,
                   whole |-> FALSE]
        /\ queue = [b \in Account |-> IF b = a THEN line ELSE r]
    BY <1>1
  <1> HIDE DEF f, r, nothing, line
  <1>9. /\ flows \in [Slot -> FlowType]
        /\ \A s \in Slot : /\ Sends(flows[s]) /\ FlowIds(flows[s]) = {}
                           /\ flows[s].op # "duplicate"
        /\ flows[1] = f
    BY <1>3, <1>4, <1>5, NoFlowIs
  <1>10. queue \in [Account -> Seq(Slot)]
    BY <1>6, <1>7, <1>8
  <1>11. Queued
    BY <1>4, <1>6, <1>7, <1>8, <1>9 DEF Queued, Lined
  <1>12. page \in PageType
    <2>1. "loading" \in Screens
      BY DEF Screens
    <2> QED
      BY <1>6, <1>8, <2>1 DEF PageType
  <1>13. /\ \A b \in Account : server[b] \in Seq(Rules) /\ Unique(server[b])
                              /\ IdsOf(server[b]) \subseteq 1 .. FirstRule - 1
    BY <1>2, StoredAssumption DEF Unique, IdsOf
  <1>14. server \in [Account -> Seq(Rules)]
    BY <1>2, <1>13, StoredAssumption
  <1>15. TypeInv
    BY <1>2, <1>9, <1>10, <1>12, <1>14, StoredAssumption DEF TypeInv
  <1>16. PageIds = {} /\ DraftIds = {} /\ DOMAIN PageRules = {}
    BY <1>6, <1>8 DEF PageIds, DraftIds, Modal, PageRules
  <1>17. UniqueIds
    BY <1>13, <1>16 DEF UniqueIds, Unique
  <1>18. StoredIds \subseteq GivenOut
    BY <1>2, <1>13 DEF StoredIds, GivenOut
  <1>19. KnownIds /\ NewIds
    BY <1>9, <1>16, <1>18 DEF KnownIds, NewIds
  <1> QED
    BY <1>11, <1>15, <1>17, <1>19 DEF PageInv

(***************************************************************************)
(* The table, step by step.                                                *)
(***************************************************************************)
LEMMA TableKept ==
    ASSUME TableInv, table' = table, page'.rules = page.rules,
           \A t \in Slot : flows[t].op = "delete" => flows'[t].op = "delete"
    PROVE  TableInv'
  <1>1. TableRules' = TableRules /\ (Deleting => Deleting')
    BY DEF TableRules, Deleting
  <1> QED
    BY <1>1 DEF TableInv

LEMMA TableDrawn ==
    ASSUME PageInv', Drawn
    PROVE  TableInv'
  <1>1. table' = [rows |-> page'.rules, torn |-> FALSE]
    BY DEF Drawn
  <1>2. table'.rows = page'.rules
    BY <1>1
  <1>3. TableRules' = PageRules'
    BY <1>2 DEF TableRules, PageRules
  <1>4. page'.rules \in Seq(RowSet) /\ Unique(PageRules')
    BY DEF PageInv, TypeInv, PageType, UniqueIds
  <1> QED
    BY <1>1, <1>2, <1>3, <1>4 DEF TableInv, TableType

SwitchedRow(row, ids, id, active) ==
    IF row.rule.id = id /\ id \in ids THEN [row EXCEPT !.rule.active = active] ELSE row

LEMMA SwitchedTable ==
    ASSUME NEW rows, NEW ids, NEW id, NEW active
    PROVE  ToSet(WithActive(rows, ids, id, active))
             = {SwitchedRow(row, ids, id, active) : row \in ToSet(rows)}
  <1> DEFINE new == WithActive(rows, ids, id, active)
  <1>1. /\ DOMAIN new = DOMAIN rows
        /\ \A i \in DOMAIN rows : new[i] = SwitchedRow(rows[i], ids, id, active)
    BY DEF WithActive, SwitchedRow
  <1> HIDE DEF new
  <1> QED
    BY <1>1 DEF ToSet, new

\* A toggle, and its taking back, are seen in the page's row and in the drawn one.
LEMMA TableSwitched ==
    ASSUME TableInv, NEW ids, NEW id, NEW active \in BOOLEAN,
           page'.rules = WithActive(page.rules, ids, id, active),
           table' = [table EXCEPT !.rows = WithActive(@, ids, id, active)],
           \A t \in Slot : flows[t].op = "delete" => flows'[t].op = "delete"
    PROVE  TableInv'
  <1>1. table.rows \in Seq(RowSet) /\ table \in TableType
    BY DEF TableInv, TableType
  <1>2. table'.rows = WithActive(table.rows, ids, id, active) /\ table'.torn = table.torn
    BY <1>1 DEF TableType
  <1>3. /\ table'.rows \in Seq(RowSet)
        /\ Unique(RulesOf(table.rows)) => Unique(RulesOf(table'.rows))
    BY <1>1, <1>2, SwitchedRows
  <1>4. table' \in TableType
    BY <1>1, <1>3, <1>2 DEF TableType
  <1>5. Unique(TableRules')
    BY <1>3 DEF TableInv, TableRules, RulesOf
  <1>6. /\ ToSet(table'.rows) = {SwitchedRow(row, ids, id, active) : row \in ToSet(table.rows)}
        /\ ToSet(page'.rules) = {SwitchedRow(row, ids, id, active) : row \in ToSet(page.rules)}
    BY <1>2, SwitchedTable
  <1>7. Deleting => Deleting'
    BY DEF Deleting
  <1>8. ToSet(page'.rules) \subseteq ToSet(table'.rows)
    BY <1>6 DEF TableInv
  <1>9. ToSet(table.rows) = ToSet(page.rules) => ToSet(table'.rows) = ToSet(page'.rules)
    BY <1>6
  <1> QED
    BY <1>2, <1>4, <1>5, <1>7, <1>8, <1>9 DEF TableInv

\* A handler that fails leaves the table; a deletion's is torn, unless every drawn row is a
\* row of the page.
LEMMA TableLeft ==
    ASSUME TableInv, NEW s \in Slot, LeftDrawn(s), page'.rules = page.rules,
           \A t \in Slot \ {s} : flows[t].op = "delete" => flows'[t].op = "delete"
    PROVE  TableInv'
  <1>1. table \in TableType
    BY DEF TableInv
  <1> DEFINE half == flows[s].op = "delete" /\ TableIds # PageIds
  <1>2. /\ table' = [table EXCEPT !.torn = @ \/ half] /\ half \in BOOLEAN
    BY DEF LeftDrawn
  <1> HIDE DEF half
  <1>3. /\ table' \in TableType /\ table'.rows = table.rows
        /\ table'.torn = (table.torn \/ half)
    BY <1>1, <1>2 DEF TableType
  <1>4. TableRules' = TableRules
    BY <1>3 DEF TableRules
  <1>5. ASSUME TableIds = PageIds PROVE ToSet(table.rows) = ToSet(page.rules)
    <2>1. ASSUME NEW row \in ToSet(table.rows) PROVE row \in ToSet(page.rules)
      <3>1. PICK i \in DOMAIN table.rows : row = table.rows[i]
        BY <2>1 DEF ToSet
      <3>2. PICK j \in DOMAIN page.rules : page.rules[j].rule.id = row.rule.id
        BY <1>5, <3>1 DEF TableIds, PageIds
      <3>3. PICK k \in DOMAIN table.rows : page.rules[j] = table.rows[k]
        BY <3>2 DEF TableInv, ToSet
      <3>4. k = i
        BY <3>1, <3>2, <3>3 DEF TableInv, Unique, TableRules
      <3> QED
        BY <3>1, <3>2, <3>3, <3>4 DEF ToSet
    <2> QED
      BY <2>1 DEF TableInv
  <1>6. half \/ (flows[s].op = "delete" => ToSet(table.rows) = ToSet(page.rules))
    BY <1>5 DEF half
  <1>7. Deleting => flows[s].op = "delete" \/ Deleting'
    BY DEF Deleting
  <1> QED
    BY <1>3, <1>4, <1>6, <1>7 DEF TableInv

\* The rows the page has left are still drawn while a deletion goes on.
LEMMA TableThinned ==
    ASSUME TableInv, table' = table, ToSet(page'.rules) \subseteq ToSet(page.rules), Deleting'
    PROVE  TableInv'
  <1>1. TableRules' = TableRules
    BY DEF TableRules
  <1> QED
    BY <1>1 DEF TableInv

LEMMA FreeIsIdle ==
    ASSUME NEW s \in Slot, Free(s)
    PROVE  flows[s].op # "delete"
  BY NoFlowIs DEF Free

\* What the user does, but for a toggle.
LEMMA UserTable ==
    ASSUME PageInv, PageInv', TableInv, NEW s \in Slot,
           \/ Reload(s) \/ Retry(s) \/ Save(s) \/ Duplicate(s) \/ Delete(s) \/ Move(s)
           \/ \E a \in Account : SwitchAccount(s, a)
    PROVE  TableInv'
  <1>1. page \in PageType /\ flows \in [Slot -> FlowType]
    BY DEF PageInv, TypeInv
  <1>2. CASE Move(s)
    BY <1>2, TableDrawn DEF Move
  <1>3. ASSUME NEW f, flows' = [flows EXCEPT ![s] = f], Free(s), page'.rules = page.rules,
               table' = table
        PROVE  TableInv'
    <2>1. \A t \in Slot : flows[t].op = "delete" => flows'[t].op = "delete"
      BY <1>3, FreeIsIdle
    <2> QED
      BY <1>3, <2>1, TableKept
  <1>4. CASE Reload(s)
    BY <1>1, <1>3, <1>4 DEF Reload, Loading, Send, PageType
  <1>5. CASE Retry(s)
    BY <1>1, <1>3, <1>5 DEF Retry, Loading, Send, PageType
  <1>6. CASE Save(s)
    BY <1>3, <1>6 DEF Save, Send
  <1>7. CASE Duplicate(s)
    <2>1. page'.rules = page.rules /\ table' = table /\ Free(s)
      BY <1>1, <1>7 DEF Duplicate, PageType
    <2>2. \E f : flows' = [flows EXCEPT ![s] = f]
      BY <1>7 DEF Duplicate, Send
    <2> QED
      BY <1>3, <2>1, <2>2
  <1>8. CASE Delete(s)
    <2>1. page'.rules = page.rules /\ table' = table /\ Free(s)
      BY <1>1, <1>8 DEF Delete, PageType
    <2>2. \E f : flows' = [flows EXCEPT ![s] = f]
      BY <1>8 DEF Delete, Send
    <2> QED
      BY <1>3, <2>1, <2>2
  <1>9. CASE \E a \in Account : SwitchAccount(s, a)
    BY <1>1, <1>3, <1>9 DEF SwitchAccount, PageType
  <1> QED
    BY <1>2, <1>4, <1>5, <1>6, <1>7, <1>8, <1>9

LEMMA ToggleTable ==
    ASSUME PageInv, TableInv, NEW s \in Slot, NEW id \in TableIds, Toggle(s, id)
    PROVE  TableInv'
  <1> DEFINE active == ~table.rows[TableIndex(id)].rule.active
             gs == SetActive(flows, id, active)
             ids == {id}
  <1>1. /\ page \in PageType /\ flows \in [Slot -> FlowType]
        /\ \A t \in Slot : Sends(flows[t])
    BY DEF PageInv, TypeInv
  <1>2. active \in BOOLEAN
    OBVIOUS
  <1>3. /\ page' = [page EXCEPT !.rules = WithActive(@, ids, id, active)]
        /\ table' = [table EXCEPT !.rows = WithActive(@, ids, id, active)]
        /\ Free(s)
        /\ \E f : flows' = [gs EXCEPT ![s] = f]
    BY DEF Toggle
  <1> HIDE DEF active
  <1>4. gs \in [Slot -> FlowType] /\ \A t \in Slot : gs[t].op = flows[t].op
    BY <1>1, <1>2, SetActiveFlows DEF Alike
  <1> HIDE DEF gs, ids
  <1>5. \A t \in Slot : flows[t].op = "delete" => flows'[t].op = "delete"
    BY <1>3, <1>4, FreeIsIdle
  <1>6. page'.rules = WithActive(page.rules, ids, id, active)
    BY <1>1, <1>3 DEF PageType
  <1> QED
    BY <1>2, <1>3, <1>5, <1>6, TableSwitched

LEMMA LooksTable ==
    ASSUME PageInv, PageInv', TableInv, Select \/ Search \/ New \/ Edit \/ CancelDraft
    PROVE  TableInv'
  <1>1. page \in PageType
    BY DEF PageInv, TypeInv
  <1>2. CASE Search
    BY <1>2, TableDrawn DEF Search
  <1>3. CASE Select \/ New \/ Edit \/ CancelDraft
    <2>1. flows' = flows /\ table' = table
      BY <1>3 DEF Select, New, Edit, CancelDraft
    <2>2. page'.rules = page.rules
      BY <1>1, <1>3 DEF Select, New, Edit, CancelDraft, PageType
    <2> QED
      BY <2>1, <2>2, TableKept
  <1> QED
    BY <1>2, <1>3

\* A message is answered, or fails.
LEMMA ServeTable ==
    ASSUME PageInv, PageInv', TableInv, NEW s \in Slot, NEW a \in Account, Serve(s, a)
    PROVE  TableInv'
  <1>1. page \in PageType /\ flows \in [Slot -> FlowType] /\ page.rules \in Seq(RowSet)
    BY PageFields DEF PageInv, TypeInv
  <1>2. CASE DraftSaved(s, a) \/ Duplicated(s, a)
    BY <1>2, TableDrawn DEF DraftSaved, Duplicated
  <1>3. ASSUME NEW f, flows' = [flows EXCEPT ![s] = f], flows[s].op # "delete",
               page'.rules = page.rules, table' = table
        PROVE  TableInv'
    <2>1. \A t \in Slot : flows[t].op = "delete" => flows'[t].op = "delete"
      BY <1>3
    <2> QED
      BY <1>3, <2>1, TableKept
  <1>4. CASE Toggled(s, a)
    BY <1>3, <1>4 DEF Toggled, Ends
  <1>5. CASE ListAnswered(s, a)
    <2>1. \E f : flows' = [flows EXCEPT ![s] = f]
      BY <1>5 DEF ListAnswered
    <2> QED
      BY <1>3, <1>5, <2>1 DEF ListAnswered
  <1>6. CASE Moved(s, a)
    <2>1. page'.rules = page.rules /\ table' = table /\ flows[s].op # "delete"
      BY <1>1, <1>6 DEF Moved, PageType
    <2>2. \E f : flows' = [flows EXCEPT ![s] = f]
      BY <1>6 DEF Moved, Ends, GoesOn
    <2> QED
      BY <1>3, <2>1, <2>2
  <1>7. CASE Deleted(s, a) /\ flows[s].rest = <<>>
    BY <1>7, TableDrawn DEF Deleted
  <1>8. CASE Deleted(s, a) /\ flows[s].rest # <<>>
    <2> DEFINE P == {i \in DOMAIN page.rules : page.rules[i].rule.id # flows[s].cmd.id}
               left == AtPositions(page.rules, P)
               f == DeleteTurn(flows[s])
               g == [f EXCEPT !.account = page.account]
    <2>1. /\ page' = [page EXCEPT !.rules = left, !.whole = FALSE] /\ table' = table
          /\ flows' = [flows EXCEPT ![s] = g] /\ flows[s].op = "delete"
      BY <1>8 DEF Deleted, GoesOn
    <2>2. page'.rules = left
      BY <1>1, <2>1 DEF PageType
    <2>3. \A i \in DOMAIN left : \E j \in P : left[i] = page.rules[j]
      BY <1>1, PickedRows
    <2>4. flows[s] \in FlowType
      BY <1>1
    <2>5. f.op = "delete" /\ "op" \in DOMAIN f
      BY <2>1, <2>4 DEF DeleteTurn, FlowType
    <2>6. flows'[s].op = "delete"
      BY <1>1, <2>1, <2>5
    <2> HIDE DEF left
    <2>7. ToSet(page'.rules) \subseteq ToSet(page.rules)
      BY <2>2, <2>3 DEF ToSet
    <2> QED
      BY <2>1, <2>6, <2>7, TableThinned DEF Deleting
  <1> QED
    BY <1>2, <1>4, <1>5, <1>6, <1>7, <1>8 DEF Serve

\* A toggle is taken back in the table, too.
LEMMA TakenBack ==
    ASSUME PageInv, TableInv, NEW s \in Slot, flows[s].op = "toggle",
           page'.rules = WithActive(page.rules, flows[s].tied, flows[s].cmd.id, ~flows[s].cmd.active),
           table' = [table EXCEPT !.rows =
                       WithActive(@, flows[s].tied, flows[s].cmd.id, ~flows[s].cmd.active)],
           \A t \in Slot \ {s} : flows'[t].op = flows[t].op
    PROVE  TableInv'
  <1> DEFINE id == flows[s].cmd.id
             back == ~flows[s].cmd.active
             ids == flows[s].tied
  <1>1. back \in BOOLEAN
    OBVIOUS
  <1>2. /\ page'.rules = WithActive(page.rules, ids, id, back)
        /\ table' = [table EXCEPT !.rows = WithActive(@, ids, id, back)]
    OBVIOUS
  <1>3. \A t \in Slot : flows[t].op = "delete" => flows'[t].op = "delete"
    OBVIOUS
  <1> HIDE DEF id, back, ids
  <1> QED
    BY <1>1, <1>2, <1>3, TableSwitched

LEMMA RefuseTable ==
    ASSUME PageInv, TableInv, NEW s \in Slot, NEW a \in Account, NEW kind \in Faults,
           Refuse(s, a, kind)
    PROVE  TableInv'
  <1>1. /\ page \in PageType /\ flows \in [Slot -> FlowType] /\ flows[s] \in FlowType
        /\ \A t \in Slot : Sends(flows[t])
    BY DEF PageInv, TypeInv
  <1>2. CASE ListFailed(s, a, kind) \/ MoveReloads(s, a)
    <2>1. flows[s].op # "delete" /\ table' = table
      BY <1>2 DEF ListFailed, MoveReloads
    <2>2. page'.rules = page.rules
      BY <1>1, <1>2 DEF ListFailed, MoveReloads, Loading, PageType
    <2>3. \E f : flows' = [flows EXCEPT ![s] = f]
      BY <1>2 DEF ListFailed, MoveReloads, GoesOn
    <2>4. \A t \in Slot : flows[t].op = "delete" => flows'[t].op = "delete"
      BY <2>1, <2>3
    <2> QED
      BY <2>1, <2>2, <2>4, TableKept
  <1>3. CASE GivenUp(s, a)
    <2>1. LeftDrawn(s) /\ flows' = [flows EXCEPT ![s] = NoFlow] /\ page'.rules = page.rules
      BY <1>1, <1>3 DEF GivenUp, Ends, PageType
    <2> QED
      BY <2>1, TableLeft
  <1>4. CASE ToggleBack(s, a)
    <2> DEFINE cmd == flows[s].cmd
               back == ~cmd.active
               gs == SetActive(flows, cmd.id, back)
    <2>1. gs \in [Slot -> FlowType] /\ \A t \in Slot : gs[t].op = flows[t].op
      <3>1. back \in BOOLEAN
        OBVIOUS
      <3> HIDE DEF back
      <3> QED
        BY <1>1, <3>1, SetActiveFlows DEF Alike
    <2>2. flows' = [flows EXCEPT ![s] = NoFlow] \/ flows' = [gs EXCEPT ![s] = NoFlow]
      BY <1>4 DEF ToggleBack, Ends
    <2> HIDE DEF gs
    <2>3. \A t \in Slot \ {s} : flows'[t].op = flows[t].op
      BY <1>1, <2>1, <2>2
    <2>4. /\ page'.rules = WithActive(page.rules, flows[s].tied, cmd.id, ~cmd.active)
          /\ table' = [table EXCEPT !.rows = WithActive(@, flows[s].tied, cmd.id, ~cmd.active)]
          /\ flows[s].op = "toggle"
      BY <1>1, <1>4 DEF ToggleBack, PageType
    <2> QED
      BY <2>3, <2>4, TakenBack
  <1>5. CASE PasswordWanted(s, a)
    <2> DEFINE cmd == flows[s].cmd
               rows == WithActive(page.rules, flows[s].tied, cmd.id, ~cmd.active)
               told == IF flows[s].op = "toggle" THEN [page EXCEPT !.rules = rows]
                       ELSE IF flows[s].op = "save" THEN [page EXCEPT !.draft = NoDraft]
                       ELSE [page EXCEPT !.busy = FALSE]
    <2>1. page' = LazyAuth(told) /\ flows' = [flows EXCEPT ![s] = NoFlow]
      BY <1>5 DEF PasswordWanted, Ends
    <2> HIDE DEF rows
    <2>2. /\ flows[s].op = "toggle" => told.rules = rows
          /\ flows[s].op # "toggle" => told.rules = page.rules
          /\ DOMAIN told = DOMAIN page /\ "rules" \in DOMAIN page
      BY <1>1 DEF PageType
    <2> HIDE DEF told
    <2>3. page'.rules = told.rules
      BY <2>1, <2>2 DEF LazyAuth
    <2>4. \A t \in Slot \ {s} : flows'[t].op = flows[t].op
      BY <2>1
    <2>5. CASE flows[s].op = "toggle"
      <3>1. table' = [table EXCEPT !.rows = WithActive(@, flows[s].tied, cmd.id, ~cmd.active)]
        BY <1>5, <2>5 DEF PasswordWanted
      <3> QED
        BY <2>2, <2>3, <2>4, <2>5, <3>1, TakenBack DEF rows
    <2>6. CASE flows[s].op # "toggle"
      <3>1. LeftDrawn(s)
        BY <1>5, <2>6 DEF PasswordWanted
      <3> QED
        BY <2>2, <2>3, <2>4, <2>6, <3>1, TableLeft
    <2> QED
      BY <2>5, <2>6
  <1> QED
    BY <1>2, <1>3, <1>4, <1>5 DEF Refuse

LEMMA ShowListTable ==
    ASSUME PageInv, PageInv', TableInv, NEW s \in Slot, ShowList(s) \/ SwitchTold(s)
    PROVE  TableInv'
  <1>1. page \in PageType /\ flows \in [Slot -> FlowType]
    BY DEF PageInv, TypeInv
  <1>2. CASE ShowList(s) /\ flows[s].answer.kind = "list"
    BY <1>2, TableDrawn DEF ShowList
  <1>3. CASE SwitchTold(s) \/ (ShowList(s) /\ flows[s].answer.kind # "list")
    <2>1. page'.rules = page.rules /\ table' = table /\ flows[s].op # "delete"
      BY <1>1, <1>3 DEF ShowList, SwitchTold, LazyAuth, Loading, PageType
    <2>2. \E f : flows' = [flows EXCEPT ![s] = f]
      BY <1>3 DEF ShowList, SwitchTold, Send
    <2>3. \A t \in Slot : flows[t].op = "delete" => flows'[t].op = "delete"
      BY <2>1, <2>2
    <2> QED
      BY <2>1, <2>3, TableKept
  <1> QED
    BY <1>2, <1>3

LEMMA NextTable ==
    ASSUME PageInv, PageInv', TableInv, Next
    PROVE  TableInv'
  <1>1. ASSUME NEW s \in Slot, User(s) PROVE TableInv'
    BY <1>1, UserTable, ToggleTable DEF User
  <1>2. ASSUME NEW s \in Slot, Progress(s) PROVE TableInv'
    BY <1>2, ShowListTable, ServeTable, RefuseTable DEF Progress
  <1> QED
    BY <1>1, <1>2, LooksTable DEF Next

LEMMA InitTable ==
    ASSUME Init
    PROVE  TableInv
  <1> DEFINE none == <<>>
  <1>1. table = [rows |-> none, torn |-> FALSE] /\ page.rules = none
    BY DEF Init
  <1>2. none \in Seq(RowSet) /\ DOMAIN none = {}
    OBVIOUS
  <1> HIDE DEF none
  <1>3. table.rows = none /\ table \in TableType
    BY <1>1, <1>2 DEF TableType
  <1>4. DOMAIN TableRules = {}
    BY <1>2, <1>3 DEF TableRules
  <1> QED
    BY <1>1, <1>3, <1>4 DEF TableInv, Unique

\* The page and its table: whatever the user overlaps and whichever messages fail, every row
\* of the page is in the table as it is, and nothing else, unless a deletion is at work or
\* has failed after its first rule and nothing was drawn since (manager.js, onDelete).
THEOREM PageAndTable == Spec => [](PageInv /\ TableInv)
  <1>1. Init => PageInv /\ TableInv
    BY InitIsPage, InitTable
  <1>2. PageInv /\ TableInv /\ [Next]_vars => PageInv' /\ TableInv'
    <2>1. ASSUME PageInv, TableInv, Next PROVE PageInv' /\ TableInv'
      BY <2>1, NextPreserves, NextTable
    <2>2. ASSUME PageInv, TableInv, UNCHANGED vars PROVE PageInv' /\ TableInv'
      <3>1. table' = table /\ page' = page /\ flows' = flows
        BY <2>2 DEF vars
      <3> QED
        BY <2>2, <3>1, StutterPreserves, TableKept
    <2> QED
      BY <2>1, <2>2
  <1> QED
    BY <1>1, <1>2, PTL DEF Spec

\* The types of the page, the queues, the ids: whatever the user overlaps and whichever
\* messages fail, each waiting message is that of the handler that sent it, no list has an
\* id twice, and the id of a copy under way stands nowhere else (manager.js, newRule).
THEOREM PageInvHolds == Spec => []PageInv
  BY PageAndTable, PTL

(***************************************************************************)
(* As many ids as rules.                                                   *)
(***************************************************************************)
LEMMA UniqueCounts ==
    ASSUME NEW rules \in Seq(Rules), Unique(rules)
    PROVE  Cardinality(IdsOf(rules)) = Len(rules)
  <1> DEFINE n == Len(rules)
             ids == IdsOf(rules)
             g == [i \in 1 .. n |-> rules[i].id]
  <1>1. n \in Nat /\ DOMAIN rules = 1 .. n
    BY ElementsOf
  <1>2. IsFiniteSet(1 .. n) /\ Cardinality(1 .. n) = n
    <2> HIDE DEF n
    <2> QED
      BY <1>1, FS_Interval
  <1>3. ids = {rules[i].id : i \in 1 .. n}
    BY <1>1 DEF IdsOf
  <1>4. \A i, j \in 1 .. n : rules[i].id = rules[j].id => i = j
    BY <1>1 DEF Unique
  <1> HIDE DEF n, ids
  <1>5. g \in Bijection(1 .. n, ids)
    BY <1>3, <1>4 DEF Bijection, Injection, Surjection, IsInjective
  <1> HIDE DEF g
  <1>6. Cardinality(ids) = Cardinality(1 .. n)
    <2> DEFINE positions == 1 .. n
    <2>1. IsFiniteSet(positions) /\ g \in Bijection(positions, ids)
      BY <1>2, <1>5
    <2> HIDE DEF positions
    <2>2. ExistsBijection(positions, ids)
      BY <2>1 DEF ExistsBijection
    <2>3. Cardinality(ids) = Cardinality(positions)
      BY <2>1, <2>2, FS_Bijection
    <2> QED
      BY <2>3 DEF positions
  <1> QED
    BY <1>2, <1>6 DEF n, ids

\* No account and no page has two rules of one id, and every waiting message belongs to a
\* handler (manager.js, whatever the user overlaps and whichever messages fail).
THEOREM PageTypeOK == Spec => []TypeOK
  <1>1. PageInv => TypeOK
    <2> SUFFICES ASSUME PageInv PROVE TypeOK
      OBVIOUS
    <2>1. \A a \in Account : server[a] \in Seq(Rules) /\ Unique(server[a])
      BY DEF PageInv, TypeInv, UniqueIds
    <2>2. \A a \in Account : Cardinality(IdsOf(server[a])) = Len(server[a])
      BY <2>1, UniqueCounts
    <2>3. page.rules \in Seq(RowSet) /\ page.account \in Account /\ Unique(PageRules)
      BY PageFields DEF PageInv, UniqueIds
    <2>4. /\ PageRules \in Seq(Rules) /\ Len(PageRules) = Len(page.rules)
          /\ PageIds = IdsOf(PageRules)
          /\ \A i \in DOMAIN page.rules : page.rules[i].order \in Int
      <3>1. PageRules = RulesOf(page.rules)
        BY DEF PageRules, RulesOf
      <3>2. PageIds = IdsOf(PageRules)
        BY PageIdsAre, IdsOfElements
      <3> QED
        BY <2>3, <3>1, <3>2, RulesOfRows
    <2>5. Cardinality(PageIds) = Len(page.rules)
      BY <2>3, <2>4, UniqueCounts
    <2>6. \A a \in Account : \A i \in DOMAIN queue[a] :
            flows[queue[a][i]].op \notin {"none", "switch"}
      BY DEF PageInv, Queued, Lined, WaitsFor
    <2> QED
      BY <2>2, <2>3, <2>4, <2>5, <2>6 DEF TypeOK
  <1> QED
    BY <1>1, PageInvHolds, PTL

-----------------------------------------------------------------------------
(***************************************************************************)
(* What the page holds, as long as the user waits for each answer.  Then   *)
(* one handler is at work or none.  With none, the page holds the stored   *)
(* rules; a toggle is ahead of them by its switch; the rows of a move are  *)
(* rows of the page.                                                       *)
(***************************************************************************)
Turned(rule, id, active) == IF rule.id = id THEN [rule EXCEPT !.active = active] ELSE rule
Flip(rules, id, active) == {Turned(rule, id, active) : rule \in rules}
PageSet == ToSet(PageRules)
StoredSet == ToSet(server[page.account])
Showing == ~lost /\ page.loaded = page.account
Loaded == page.loaded \in {NoAccount, page.account}
Mirror == Showing => PageSet = StoredSet

Ahead(f) ==
    /\ f.tied = {f.cmd.id}
    /\ PageSet = Flip(StoredSet, f.cmd.id, f.cmd.active)
    /\ StoredSet = Flip(PageSet, f.cmd.id, ~f.cmd.active)
OfPage(f) ==
    /\ Stored(f.cmd.id, f.cmd.draft) \in PageSet
    /\ \A i \in DOMAIN f.rest : f.rest[i].rule \in PageSet
Going(f) ==
    /\ f.op # "save" => ~Modal
    /\ f.op # "switch" => f.account = page.account
    /\ f.op = "switch" => page.loaded # page.account
    /\ f.op = "reload" /\ f.answer.kind = "list" => f.answer.rules = server[page.account]
    /\ f.op \notin {"switch", "reload"} => Loaded
    /\ f.op \in {"save", "duplicate", "delete", "move"} => Mirror
    /\ f.op = "toggle" /\ Showing => Ahead(f)
    /\ f.op = "move" /\ Showing => OfPage(f)

Idle == \A t \in Slot : flows[t].op = "none"
Alone(s) == flows[s].op # "none" /\ \A t \in Slot \ {s} : flows[t].op = "none"
AtEase == Idle /\ Loaded /\ Mirror
UnderWay(s) == Alone(s) /\ Going(flows[s])
ShowsInv == ~rushed => AtEase \/ \E s \in Slot : UnderWay(s)

LEMMA FlipOf ==
    ASSUME NEW rules, NEW id, NEW active
    PROVE  ToSet(Switched(rules, id, active)) = Flip(ToSet(rules), id, active)
  BY DEF ToSet, Switched, Flip, Turned

LEMMA FlipBack ==
    ASSUME NEW rules \in Seq(Rules), Unique(rules), NEW rule \in ToSet(rules)
    PROVE  Flip(Flip(ToSet(rules), rule.id, ~rule.active), rule.id, rule.active) = ToSet(rules)
  <1> DEFINE S == ToSet(rules)
             id == rule.id
             on == rule.active
             off == ~rule.active
  <1>1. \A x \in S : x \in Rules /\ \E i \in DOMAIN rules : x = rules[i]
    BY ElementsOf
  <1>2. \A x \in S : x.id = id => x = rule
    BY <1>1 DEF Unique
  <1>3. rule \in Rules /\ rule.active \in BOOLEAN
    BY <1>1, RuleFields
  <1>4. ASSUME NEW x \in S
        PROVE  Turned(Turned(x, id, off), id, on) = x
    <2>1. CASE x.id = id
      <3> DEFINE y == [rule EXCEPT !.active = off]
      <3>1. y \in Rules /\ y.id = id
        BY <1>3 DEF Rules
      <3>2. [y EXCEPT !.active = on] = rule
        BY <1>3 DEF Rules
      <3>3. Turned(x, id, off) = y
        BY <1>2, <2>1 DEF Turned
      <3> HIDE DEF y
      <3>4. Turned(y, id, on) = rule
        BY <3>1, <3>2 DEF Turned
      <3> QED
        BY <1>2, <2>1, <3>3, <3>4
    <2>2. CASE x.id # id
      BY <2>2 DEF Turned
    <2> QED
      BY <2>1, <2>2
  <1> HIDE DEF S, id, on, off
  <1>5. Flip(Flip(S, id, off), id, on) = {Turned(Turned(x, id, off), id, on) : x \in S}
    BY DEF Flip
  <1>6. Flip(Flip(S, id, off), id, on) = S
    BY <1>4, <1>5
  <1> QED
    BY <1>6 DEF S, id, on, off

LEMMA FlipNone ==
    ASSUME NEW rules, NEW id, \A x \in rules : x.id # id, NEW active, NEW back
    PROVE  Flip(Flip(rules, id, active), id, back) = rules
  <1>1. \A x \in rules : Turned(x, id, active) = x /\ Turned(x, id, back) = x
    BY DEF Turned
  <1>2. Flip(rules, id, active) = rules /\ Flip(rules, id, back) = rules
    BY <1>1 DEF Flip
  <1> QED
    BY <1>2

LEMMA OthersAndIt ==
    ASSUME NEW rules \in Seq(Rules), Unique(rules), NEW rule \in ToSet(rules)
    PROVE  Others(rules, rule.id) \cup {rule} = ToSet(rules)
  <1>1. \A x \in ToSet(rules) : \E i \in DOMAIN rules : x = rules[i]
    BY ElementsOf
  <1>2. \A x \in ToSet(rules) : x.id = rule.id => x = rule
    BY <1>1 DEF Unique
  <1> QED
    BY <1>2 DEF Others

LEMMA OthersAlike ==
    ASSUME NEW r, NEW t, ToSet(r) = ToSet(t), NEW id
    PROVE  Others(r, id) = Others(t, id)
  BY DEF Others

(***************************************************************************)
(* Steps that leave the rules alone.                                       *)
(***************************************************************************)
LEMMA SetsStay ==
    ASSUME page'.rules = page.rules, page'.account = page.account, server' = server
    PROVE  PageSet' = PageSet /\ StoredSet' = StoredSet
  BY DEF PageSet, StoredSet, PageRules

LEMMA EaseKept ==
    ASSUME AtEase, Idle', page'.rules = page.rules, page'.account = page.account,
           page'.loaded = page.loaded, server' = server, lost' = lost
    PROVE  AtEase'
  BY SetsStay DEF AtEase, Loaded, Mirror, Showing

LEMMA LooksShow ==
    ASSUME ShowsInv, flows' = flows, server' = server, lost' = lost, rushed' \in {rushed, TRUE},
           page'.rules = page.rules, page'.account = page.account, page'.loaded = page.loaded,
           page'.draft \in {page.draft, NoDraft}
    PROVE  ShowsInv'
  <1>1. PageSet' = PageSet /\ StoredSet' = StoredSet
    BY SetsStay
  <1>2. Modal' => Modal
    BY DEF Modal
  <1>3. Showing' = Showing /\ Loaded' = Loaded /\ Mirror' = Mirror
    BY <1>1 DEF Showing, Loaded, Mirror
  <1>4. \A f : Ahead(f)' = Ahead(f) /\ OfPage(f)' = OfPage(f)
    BY <1>1 DEF Ahead, OfPage
  <1>5. AtEase => AtEase'
    BY <1>3 DEF AtEase, Idle
  <1>6. ASSUME NEW s \in Slot, UnderWay(s)
        PROVE  UnderWay(s)'
    <2>1. Alone(s)'
      BY <1>6 DEF UnderWay, Alone
    <2>2. Ahead(flows[s])' = Ahead(flows[s]) /\ OfPage(flows[s])' = OfPage(flows[s])
      BY <1>1 DEF Ahead, OfPage
    <2>3. Going(flows[s])'
      BY <1>2, <1>3, <1>6, <2>2 DEF UnderWay, Going
    <2> QED
      BY <2>1, <2>3 DEF UnderWay
  <1> QED
    BY <1>5, <1>6 DEF ShowsInv

\* The user asks with nothing under way, or is in a hurry.
LEMMA AskedAtEase ==
    ASSUME ShowsInv, NEW op, Asked(op), ~rushed'
    PROVE  ~rushed /\ ~Modal /\ AtEase /\ \A t \in Slot : flows[t] = NoFlow
  <1>1. ~rushed /\ ~Modal /\ \A t \in Slot : flows[t] = NoFlow
    BY DEF Asked, Calm
  <1>2. \A t \in Slot : flows[t].op = "none"
    BY <1>1, NoFlowIs
  <1> QED
    BY <1>1, <1>2 DEF ShowsInv, UnderWay, Alone

LEMMA DraftShows ==
    ASSUME ShowsInv, NEW op, Asked(op), flows' = flows, server' = server, lost' = lost,
           page'.rules = page.rules, page'.account = page.account, page'.loaded = page.loaded
    PROVE  ShowsInv'
  <1> SUFFICES ASSUME ~rushed' PROVE AtEase'
    BY DEF ShowsInv
  <1>1. AtEase
    BY AskedAtEase
  <1>2. Idle'
    BY <1>1 DEF AtEase, Idle
  <1> QED
    BY <1>1, <1>2, EaseKept

LEMMA LoadShows ==
    ASSUME NEW s \in Slot, flows \in [Slot -> FlowType],
           \A t \in Slot \ {s} : flows[t].op = "none",
           NEW a \in Account, page'.account = a,
           NEW f, f = [ListFlow EXCEPT !.account = a],
           flows' = [flows EXCEPT ![s] = f], ~Modal'
    PROVE  ShowsInv'
  <1>1. flows'[s] = f /\ \A t \in Slot \ {s} : flows'[t].op = "none"
    OBVIOUS
  <1>2. f.op = "reload" /\ f.account = page'.account /\ f.answer = NoAnswer
    BY DEF ListFlow, NoFlow
  <1>3. f.answer.kind # "list"
    BY <1>2 DEF NoAnswer
  <1>4. Alone(s)'
    BY <1>1, <1>2 DEF Alone
  <1>5. Going(flows[s])'
    BY <1>1, <1>2, <1>3 DEF Going
  <1> QED
    BY <1>4, <1>5 DEF ShowsInv, UnderWay

\* A handler that begins with the page as it is.
LEMMA BeginShows ==
    ASSUME AtEase, NEW s \in Slot, flows'[s].op \in {"save", "duplicate", "delete"},
           \A t \in Slot \ {s} : flows'[t].op = "none", flows'[s].account = page.account,
           page'.rules = page.rules, page'.account = page.account, page'.loaded = page.loaded,
           flows'[s].op # "save" => ~Modal', server' = server, lost' = lost
    PROVE  ShowsInv'
  <1>1. PageSet' = PageSet /\ StoredSet' = StoredSet
    BY SetsStay
  <1>2. Loaded' /\ Mirror'
    BY <1>1 DEF AtEase, Loaded, Mirror, Showing
  <1>3. Alone(s)'
    BY DEF Alone
  <1>4. Going(flows[s])'
    BY <1>2 DEF Going
  <1> QED
    BY <1>3, <1>4 DEF ShowsInv, UnderWay

LEMMA SelectShows ==
    ASSUME PageInv, ShowsInv, Select
    PROVE  ShowsInv'
  <1>1. page \in PageType
    BY DEF PageInv, TypeInv
  <1>2. PICK ids \in SUBSET TableIds \ {{}} : page' = [page EXCEPT !.selected = ids]
    BY DEF Select
  <1>3. /\ page'.rules = page.rules /\ page'.account = page.account
        /\ page'.loaded = page.loaded /\ page'.draft = page.draft
    BY <1>1, <1>2 DEF PageType
  <1> QED
    BY <1>3, LooksShow DEF Select

LEMMA SearchShows ==
    ASSUME PageInv, ShowsInv, Search
    PROVE  ShowsInv'
  <1>1. page \in PageType
    BY DEF PageInv, TypeInv
  <1>2. /\ page'.rules = page.rules /\ page'.account = page.account
        /\ page'.loaded = page.loaded
    BY <1>1 DEF Search, PageType
  <1> QED
    BY <1>2, DraftShows DEF Search

LEMMA CancelShows ==
    ASSUME PageInv, ShowsInv, CancelDraft
    PROVE  ShowsInv'
  <1>1. page \in PageType
    BY DEF PageInv, TypeInv
  <1>2. /\ page'.rules = page.rules /\ page'.account = page.account
        /\ page'.loaded = page.loaded /\ page'.draft = NoDraft
    BY <1>1 DEF CancelDraft, PageType
  <1> QED
    BY <1>2, LooksShow DEF CancelDraft

LEMMA NewShows ==
    ASSUME PageInv, ShowsInv, New
    PROVE  ShowsInv'
  <1>1. page \in PageType
    BY DEF PageInv, TypeInv
  <1>2. /\ page'.rules = page.rules /\ page'.account = page.account
        /\ page'.loaded = page.loaded
    BY <1>1 DEF New, PageType
  <1> QED
    BY <1>2, DraftShows DEF New

LEMMA EditShows ==
    ASSUME PageInv, ShowsInv, Edit
    PROVE  ShowsInv'
  <1>1. page \in PageType
    BY DEF PageInv, TypeInv
  <1>2. /\ page'.rules = page.rules /\ page'.account = page.account
        /\ page'.loaded = page.loaded
    BY <1>1 DEF Edit, PageType
  <1> QED
    BY <1>2, DraftShows DEF Edit

(***************************************************************************)
(* Handlers begin.                                                         *)
(***************************************************************************)
LEMMA FlowsAre ==
    ASSUME PageInv
    PROVE  /\ flows \in [Slot -> FlowType] /\ page \in PageType /\ page.account \in Account
           /\ page.rules \in Seq(RowSet) /\ Unique(PageRules)
           /\ PageRules \in Seq(Rules) /\ \A a \in Account : server[a] \in Seq(Rules)
           /\ server \in [Account -> Seq(Rules)]
           /\ \A a \in Account : Unique(server[a])
           /\ \A t \in Slot : flows[t] \in FlowType /\ Sends(flows[t])
  <1>1. PageRules = RulesOf(page.rules)
    BY DEF PageRules, RulesOf
  <1>2. page.rules \in Seq(RowSet) /\ page.account \in Account
    BY PageFields DEF PageInv
  <1>3. PageRules \in Seq(Rules)
    BY <1>1, <1>2, RulesOfRows
  <1> QED
    BY <1>2, <1>3 DEF PageInv, TypeInv, UniqueIds

LEMMA ReloadShows ==
    ASSUME PageInv, ShowsInv, NEW s \in Slot, Reload(s)
    PROVE  ShowsInv'
  <1> SUFFICES ASSUME ~rushed' PROVE ShowsInv'
    BY DEF ShowsInv
  <1>1. ~Modal /\ AtEase
    BY AskedAtEase DEF Reload
  <1> DEFINE a == page.account
             f == [ListFlow EXCEPT !.account = a]
  <1>2. a \in Account /\ page'.account = a /\ page'.draft = page.draft
    BY FlowsAre, LoadingType DEF Reload
  <1>3. flows' = [flows EXCEPT ![s] = f] /\ f = [ListFlow EXCEPT !.account = a]
    BY DEF Reload, Send
  <1> HIDE DEF a, f
  <1>4. ~Modal'
    BY <1>1, <1>2 DEF Modal
  <1>5. flows \in [Slot -> FlowType] /\ \A t \in Slot \ {s} : flows[t].op = "none"
    BY <1>1, FlowsAre DEF AtEase, Idle
  <1> QED
    BY <1>2, <1>3, <1>4, <1>5, LoadShows

LEMMA RetryShows ==
    ASSUME PageInv, ShowsInv, NEW s \in Slot, Retry(s)
    PROVE  ShowsInv'
  <1> SUFFICES ASSUME ~rushed' PROVE ShowsInv'
    BY DEF ShowsInv
  <1>1. ~Modal /\ AtEase
    BY AskedAtEase DEF Retry
  <1>2. PICK a \in Account :
          page' = Loading([page EXCEPT !.account = a]) /\ Send(s, ListFlow, a)
    BY DEF Retry
  <1> DEFINE f == [ListFlow EXCEPT !.account = a]
             p == [page EXCEPT !.account = a]
  <1>3. page'.account = a /\ page'.draft = page.draft
    <2>1. p \in PageType /\ p.account = a /\ p.draft = page.draft
      BY FlowsAre DEF PageType
    <2>2. page' = Loading(p)
      BY <1>2
    <2> HIDE DEF p
    <2> QED
      BY <2>1, <2>2, LoadingType
  <1>4. flows' = [flows EXCEPT ![s] = f] /\ f = [ListFlow EXCEPT !.account = a]
    BY <1>2 DEF Send
  <1> HIDE DEF f
  <1>5. ~Modal'
    BY <1>1, <1>3 DEF Modal
  <1>6. flows \in [Slot -> FlowType] /\ \A t \in Slot \ {s} : flows[t].op = "none"
    BY <1>1, FlowsAre DEF AtEase, Idle
  <1> QED
    BY <1>3, <1>4, <1>5, <1>6, LoadShows

LEMMA SwitchAccountShows ==
    ASSUME PageInv, ShowsInv, NEW s \in Slot, NEW a \in Account, SwitchAccount(s, a)
    PROVE  ShowsInv'
  <1> SUFFICES ASSUME ~rushed' PROVE ShowsInv'
    BY DEF ShowsInv
  <1>1. ~Modal /\ AtEase
    BY AskedAtEase DEF SwitchAccount
  <1>2. /\ page'.account = a /\ page'.draft = page.draft /\ page'.loaded = page.loaded
        /\ a # page.account
    BY FlowsAre DEF SwitchAccount, PageType
  <1>3. flows'[s].op = "switch" /\ \A t \in Slot \ {s} : flows'[t].op = "none"
    BY <1>1, FlowsAre DEF SwitchAccount, AtEase, Idle, NoFlow
  <1>4. page.loaded # a
    BY <1>1, <1>2, ManagerAssumption DEF AtEase, Loaded
  <1>5. Alone(s)'
    BY <1>3 DEF Alone
  <1>6. Going(flows[s])'
    BY <1>1, <1>2, <1>3, <1>4 DEF Going, Modal
  <1> QED
    BY <1>5, <1>6 DEF ShowsInv, UnderWay

LEMMA AtWork ==
    ASSUME ShowsInv, ~rushed, NEW s \in Slot, flows[s].op # "none"
    PROVE  UnderWay(s)
  BY DEF ShowsInv, AtEase, Idle, UnderWay, Alone

LEMMA SwitchToldShows ==
    ASSUME PageInv, ShowsInv, NEW s \in Slot, SwitchTold(s)
    PROVE  ShowsInv'
  <1> SUFFICES ASSUME ~rushed' PROVE ShowsInv'
    BY DEF ShowsInv
  <1>1. UnderWay(s) /\ flows[s].op = "switch"
    BY AtWork DEF SwitchTold
  <1> DEFINE a == page.account
             f == [ListFlow EXCEPT !.account = a]
  <1>2. a \in Account /\ page'.account = a /\ page'.draft = page.draft
    BY FlowsAre, LoadingType DEF SwitchTold
  <1>3. flows' = [flows EXCEPT ![s] = f] /\ f = [ListFlow EXCEPT !.account = a]
    BY DEF SwitchTold, Send
  <1> HIDE DEF a, f
  <1>4. ~Modal'
    BY <1>1, <1>2 DEF Modal, UnderWay, Going
  <1>5. flows \in [Slot -> FlowType] /\ \A t \in Slot \ {s} : flows[t].op = "none"
    BY <1>1, FlowsAre DEF UnderWay, Alone
  <1> QED
    BY <1>2, <1>3, <1>4, <1>5, LoadShows

LEMMA SaveShows ==
    ASSUME PageInv, ShowsInv, NEW s \in Slot, Save(s)
    PROVE  ShowsInv'
  <1> SUFFICES ASSUME ~rushed' PROVE ShowsInv'
    BY DEF ShowsInv
  <1>1. AtEase
    BY DEF Save, ShowsInv, UnderWay, Going
  <1>2. page' = page /\ server' = server /\ lost' = lost
    BY DEF Save
  <1>3. /\ flows'[s].op = "save" /\ flows'[s].account = page.account
        /\ \A t \in Slot \ {s} : flows'[t].op = "none"
    BY <1>1, FlowsAre DEF Save, Send, NoFlow, AtEase, Idle
  <1> QED
    BY <1>1, <1>2, <1>3, BeginShows

LEMMA DuplicateShows ==
    ASSUME PageInv, ShowsInv, NEW s \in Slot, Duplicate(s)
    PROVE  ShowsInv'
  <1> SUFFICES ASSUME ~rushed' PROVE ShowsInv'
    BY DEF ShowsInv
  <1>1. AtEase /\ ~Modal
    BY AskedAtEase DEF Duplicate
  <1>2. /\ page'.rules = page.rules /\ page'.account = page.account /\ page'.loaded = page.loaded
        /\ page'.draft = page.draft /\ server' = server /\ lost' = lost
    BY FlowsAre DEF Duplicate, PageType
  <1>3. PICK id : Send(s, [NoFlow EXCEPT !.op = "duplicate",
                     !.cmd = SaveCmd(Row([page.rules[PageIndex(id)].rule EXCEPT !.id = fresh],
                                         NextOrderForNew))],
               page.account)
    BY ZenonT(30) DEF Duplicate
  <1> DEFINE cmd == SaveCmd(Row([page.rules[PageIndex(id)].rule EXCEPT !.id = fresh],
                                NextOrderForNew))
  <1>4. Send(s, [NoFlow EXCEPT !.op = "duplicate", !.cmd = cmd], page.account)
    BY <1>3
  <1> HIDE DEF cmd
  <1>5. /\ flows'[s].op = "duplicate" /\ flows'[s].account = page.account
        /\ \A t \in Slot \ {s} : flows'[t].op = "none"
    BY <1>1, <1>4, FlowsAre DEF Send, NoFlow, AtEase, Idle
  <1> QED
    BY <1>1, <1>2, <1>5, BeginShows DEF Modal

LEMMA DeleteShows ==
    ASSUME PageInv, ShowsInv, NEW s \in Slot, Delete(s)
    PROVE  ShowsInv'
  <1> SUFFICES ASSUME ~rushed' PROVE ShowsInv'
    BY DEF ShowsInv
  <1>1. AtEase /\ ~Modal
    BY AskedAtEase DEF Delete
  <1>2. /\ page'.rules = page.rules /\ page'.account = page.account /\ page'.loaded = page.loaded
        /\ page'.draft = page.draft /\ server' = server /\ lost' = lost
    BY FlowsAre DEF Delete, PageType
  <1> DEFINE targets == AtPositions(page.rules,
                          {i \in DOMAIN page.rules : page.rules[i].rule.id \in page.selected})
             f == [DeleteTurn([NoFlow EXCEPT !.op = "delete", !.rest = targets])
                     EXCEPT !.account = page.account]
  <1>3. flows' = [flows EXCEPT ![s] = f]
    <2>1. Send(s, DeleteTurn([NoFlow EXCEPT !.op = "delete", !.rest = targets]), page.account)
      BY DEF Delete
    <2> HIDE DEF targets
    <2> QED
      BY <2>1 DEF Send
  <1>4. f.op = "delete" /\ f.account = page.account
    <2> HIDE DEF targets
    <2> QED
      BY DEF NoFlow, DeleteTurn
  <1> HIDE DEF f
  <1>5. /\ flows'[s].op = "delete" /\ flows'[s].account = page.account
        /\ \A t \in Slot \ {s} : flows'[t].op = "none"
    BY <1>1, <1>3, <1>4, FlowsAre DEF AtEase, Idle
  <1> QED
    BY <1>1, <1>2, <1>5, BeginShows DEF Modal

LEMMA ToggleShows ==
    ASSUME PageInv, TableInv, ShowsInv, NEW s \in Slot, NEW id \in TableIds, Toggle(s, id)
    PROVE  ShowsInv'
  <1> SUFFICES ASSUME ~rushed' PROVE ShowsInv'
    BY DEF ShowsInv
  <1> DEFINE rule == table.rows[TableIndex(id)].rule
             active == ~rule.active
             cmd == [op |-> "setRuleActive", id |-> id, active |-> active]
             gs == SetActive(flows, id, active)
             f == [NoFlow EXCEPT !.op = "toggle", !.account = page.account, !.tied = {id},
                                 !.cmd = cmd]
  <1>1. AtEase /\ ~Modal
    BY AskedAtEase DEF Toggle
  <1>2. TypeInv /\ page \in PageType /\ Unique(PageRules) /\ PageRules \in Seq(Rules)
        /\ flows \in [Slot -> FlowType] /\ \A t \in Slot : Sends(flows[t])
    BY FlowsAre DEF PageInv
  <1>3. /\ rule \in Rules /\ rule.active \in BOOLEAN /\ active \in BOOLEAN
        /\ id \in PageIds => rule.id = id /\ rule \in ToSet(PageRules)
    BY <1>2, TableIndexIs, TableRowIs, PageIndexIs
  <1>4. /\ page' = [page EXCEPT !.rules = WithActive(@, {id}, id, active)]
        /\ flows' = [gs EXCEPT ![s] = f]
        /\ UNCHANGED <<server, lost>>
    BY DEF Toggle
  <1>5. f.op = "toggle" /\ f.account = page.account /\ f.tied = {id} /\ f.cmd = cmd
    <2> HIDE DEF cmd
    <2> QED
      BY DEF NoFlow
  <1> HIDE DEF f
  <1>6. cmd.id = id /\ cmd.active = active
    OBVIOUS
  <1> HIDE DEF cmd
  <1> HIDE DEF active
  <1>7. gs \in [Slot -> FlowType] /\ \A t \in Slot : Alike(gs[t], flows[t])
    BY <1>2, <1>3, SetActiveFlows
  <1> HIDE DEF gs
  <1>8. /\ page'.rules = WithActive(page.rules, {id}, id, active) /\ page'.draft = page.draft
        /\ page'.account = page.account /\ page'.loaded = page.loaded
    BY <1>2, <1>4 DEF PageType
  <1>9. PageRules' = Switched(PageRules, id, active)
    <2> DEFINE ids == {id}
    <2>1. id \in ids /\ page'.rules = WithActive(page.rules, ids, id, active)
      BY <1>8
    <2> HIDE DEF ids
    <2> QED
      BY <1>3, <2>1, SwitchedPage
  <1>10. PageSet' = Flip(PageSet, id, active) /\ StoredSet' = StoredSet
    BY <1>4, <1>8, <1>9, FlipOf DEF PageSet, StoredSet
  <1>a. ASSUME id \in PageIds PROVE Flip(PageSet', id, ~active) = PageSet
    <2>1. Flip(Flip(PageSet, rule.id, ~rule.active), rule.id, rule.active) = PageSet
      BY <1>2, <1>3, <1>a, FlipBack DEF PageSet
    <2>2. ~active = rule.active /\ active = ~rule.active
      BY <1>3 DEF active
    <2> HIDE DEF rule
    <2> DEFINE off == ~rule.active
    <2>3. off = active /\ Flip(Flip(PageSet, id, off), id, rule.active) = PageSet
      BY <1>3, <1>a, <2>1, <2>2
    <2> HIDE DEF off
    <2> DEFINE back == ~active
    <2>4. back = rule.active
      <3>1. rule.active = TRUE \/ rule.active = FALSE
        BY <1>3
      <3>2. CASE rule.active = TRUE
        BY <3>2, <2>2
      <3>3. CASE rule.active = FALSE
        BY <3>3, <2>2
      <3> QED
        BY <3>1, <3>2, <3>3
    <2> HIDE DEF back
    <2>5. Flip(PageSet', id, back) = PageSet
      BY <1>10, <2>3, <2>4
    <2> QED
      BY <2>5 DEF back
  <1>b. ASSUME id \notin PageIds PROVE Flip(PageSet', id, ~active) = PageSet
    <2>1. \A x \in PageSet : x.id # id
      BY <1>b, PageIdsAre DEF PageSet
    <2> QED
      BY <1>10, <2>1, FlipNone
  <1>11. Flip(PageSet', id, ~active) = PageSet
    BY <1>a, <1>b
  <1>12. Showing' = Showing /\ Loaded' = Loaded
    BY <1>4, <1>8 DEF Showing, Loaded
  <1>13. /\ flows'[s] = f /\ flows'[s].op = "toggle"
         /\ \A t \in Slot \ {s} : flows'[t].op = "none"
    BY <1>1, <1>4, <1>5, <1>7 DEF AtEase, Idle, Alike
  <1>14. Showing' => Ahead(flows[s])'
    BY <1>1, <1>5, <1>6, <1>10, <1>11, <1>12, <1>13 DEF Ahead, AtEase, Mirror
  <1>15. Going(flows[s])'
    BY <1>1, <1>5, <1>8, <1>12, <1>13, <1>14 DEF Going, AtEase, Modal
  <1> QED
    BY <1>13, <1>15 DEF ShowsInv, UnderWay, Alone

LEMMA MoveShows ==
    ASSUME PageInv, ShowsInv, NEW s \in Slot, Move(s)
    PROVE  ShowsInv'
  <1> SUFFICES ASSUME ~rushed' PROVE ShowsInv'
    BY DEF ShowsInv
  <1>1. AtEase /\ ~Modal
    BY AskedAtEase DEF Move
  <1>2. page \in PageType /\ flows \in [Slot -> FlowType]
    BY FlowsAre
  <1>3. server' = server /\ lost' = lost
    BY DEF Move
  <1>4. PICK new \in Seq(RowSet), touched \in Seq(RowSet) : MovesTo(s, new, touched)
    BY MoveIs
  <1>5. /\ page'.rules = new /\ page'.draft = page.draft
        /\ page'.account = page.account /\ page'.loaded = page.loaded
    BY <1>2, <1>4 DEF MovesTo, PageType
  <1>6. PageSet' = PageSet /\ StoredSet' = StoredSet
    <2>1. PageRules' = RulesOf(new)
      BY <1>5 DEF PageRules, RulesOf
    <2>2. ToSet(RulesOf(new)) = ToSet(PageRules)
      BY <1>4 DEF MovesTo
    <2> QED
      BY <1>3, <1>5, <2>1, <2>2 DEF PageSet, StoredSet
  <1>7. Loaded' /\ Mirror' /\ ~Modal'
    BY <1>1, <1>3, <1>5, <1>6 DEF AtEase, Loaded, Mirror, Showing, Modal
  <1>8. CASE touched = <<>>
    <2>1. flows' = flows
      BY <1>4, <1>8 DEF MovesTo
    <2> QED
      BY <1>1, <1>7, <2>1 DEF ShowsInv, AtEase, Idle
  <1>9. CASE touched # <<>>
    <2> DEFINE cmd == SaveCmd(Head(touched))
               rest == Tail(touched)
               f == Flow("move", page.account, cmd, rest, PageIds)
    <2>1. /\ Head(touched) \in RowSet /\ Head(touched).rule \in PageSet
          /\ \A k \in DOMAIN rest : rest[k].rule \in PageSet
          /\ flows' = [flows EXCEPT ![s] = f]
      BY <1>4, <1>9 DEF MovesTo, PageSet
    <2>2. Stored(cmd.id, cmd.draft) \in PageSet
      BY <2>1, SaveCmdIs
    <2> HIDE DEF cmd, rest
    <2>3. f.op = "move" /\ f.account = page.account /\ f.cmd = cmd /\ f.rest = rest
      BY DEF Flow
    <2> HIDE DEF f
    <2>4. flows'[s] = f /\ \A t \in Slot \ {s} : flows'[t].op = "none"
      BY <1>1, <1>2, <2>1 DEF AtEase, Idle
    <2>5. OfPage(flows[s])'
      BY <1>6, <2>1, <2>2, <2>3, <2>4 DEF OfPage
    <2>6. Going(flows[s])'
      BY <1>5, <1>7, <2>3, <2>4, <2>5 DEF Going
    <2> QED
      BY <2>3, <2>4, <2>6 DEF ShowsInv, UnderWay, Alone
  <1> QED
    BY <1>8, <1>9

(***************************************************************************)
(* The answers.                                                            *)
(***************************************************************************)
\* Who is served is at work for the account that the page shows.
LEMMA ServedAtWork ==
    ASSUME PageInv, ShowsInv, ~rushed, NEW s \in Slot, NEW a \in Account, AtHead(s, a)
    PROVE  /\ UnderWay(s) /\ Going(flows[s]) /\ a = page.account
           /\ flows[s].op \notin {"none", "switch"}
           /\ \A t \in Slot \ {s} : flows[t].op = "none"
  <1>1. WaitsFor(flows[s], a)
    BY HeadWaits DEF PageInv
  <1>2. UnderWay(s)
    BY <1>1, AtWork DEF WaitsFor
  <1> QED
    BY <1>1, <1>2 DEF UnderWay, Going, Alone, WaitsFor

\* The last answer: nobody is at work any more.
LEMMA IdleAgain ==
    ASSUME PageInv, NEW s \in Slot, NEW a \in Account, AtHead(s, a),
           \A t \in Slot \ {s} : flows[t].op = "none",
           NEW gs, \A t \in Slot : gs[t].op = flows[t].op, gs \in [Slot -> FlowType],
           Ends(s, a, gs)
    PROVE  Idle'
  <1>1. NoFlow.op = "none"
    BY NoFlowIs
  <1> QED
    BY <1>1 DEF Ends, Idle

\* The command of an edit or a copy ends with its rule on both sides.
LEMMA BothSaved ==
    ASSUME PageInv, ShowsInv, ~rushed, NEW s \in Slot, NEW a \in Account, AtHead(s, a),
           flows[s].op \in {"save", "duplicate", "move"}, server' = Carried(a, flows[s].cmd),
           page'.account = page.account
    PROVE  /\ flows[s].cmd \in SaveCmds
           /\ StoredSet' = Others(server[a], flows[s].cmd.id)
                             \cup {Stored(flows[s].cmd.id, flows[s].cmd.draft)}
  <1>1. a = page.account
    BY ServedAtWork
  <1>2. flows[s] \in FlowType /\ Sends(flows[s]) /\ FlowIds(flows[s]) \subseteq GivenOut
    BY FlowsAre DEF PageInv, KnownIds
  <1>3. flows[s].cmd \in SaveCmds /\ flows[s].cmd.id \in GivenOut
    BY <1>2 DEF Sends, FlowIds
  <1>4. StoredSet' = ToSet(Carried(a, flows[s].cmd)[a])
    BY <1>1 DEF StoredSet
  <1> QED
    BY <1>3, <1>4, CarriedSave

LEMMA ToggledShows ==
    ASSUME PageInv, ShowsInv, ~rushed, NEW s \in Slot, NEW a \in Account, AtHead(s, a),
           Toggled(s, a), server' = Carried(a, flows[s].cmd), lost' = lost
    PROVE  ShowsInv'
  <1> DEFINE cmd == flows[s].cmd
  <1>1. /\ UnderWay(s) /\ Going(flows[s]) /\ a = page.account /\ flows[s].op = "toggle"
        /\ \A t \in Slot \ {s} : flows[t].op = "none"
    BY ServedAtWork DEF Toggled
  <1>2. cmd \in SwitchCmds /\ flows \in [Slot -> FlowType]
    BY <1>1, FlowsAre DEF Sends
  <1>3. Idle'
    BY <1>1, <1>2, IdleAgain DEF Toggled
  <1>4. page' = page
    BY DEF Toggled
  <1>5. PageSet' = PageSet /\ Showing' = Showing /\ Loaded' = Loaded
    BY <1>4 DEF PageSet, PageRules, Showing, Loaded
  <1>6. StoredSet' = ToSet(Carried(a, cmd)[a])
    BY <1>1, <1>4 DEF StoredSet
  <1>7. StoredSet' = Flip(StoredSet, cmd.id, cmd.active)
    BY <1>1, <1>2, <1>6, CarriedSwitch, FlipOf DEF StoredSet
  <1>8. Mirror'
    BY <1>1, <1>5, <1>7 DEF Mirror, Going, Ahead
  <1>9. Loaded'
    BY <1>1, <1>5 DEF Going
  <1> QED
    BY <1>3, <1>8, <1>9 DEF ShowsInv, AtEase

\* A rule that is saved unties its row from the turns of others, and ends its handler.
LEMMA SavedIdle ==
    ASSUME PageInv, NEW s \in Slot, NEW a \in Account, AtHead(s, a), DraftSaved(s, a),
           \A t \in Slot \ {s} : flows[t].op = "none"
    PROVE  Idle'
  <1> DEFINE id == SavedRow(flows[s].cmd).rule.id
             gs == Untied(id)
             tied == [t \in Slot |-> flows[t].tied \ {id}]
  <1>1. Ends(s, a, gs)
    BY DEF DraftSaved
  <1>2. gs = Retied(flows, tied)
    BY DEF Untied, Retied
  <1>3. tied \in [Slot -> SUBSET Nat] /\ flows \in [Slot -> FlowType]
        /\ \A t \in Slot : Sends(flows[t])
    BY FlowsAre DEF FlowType
  <1> HIDE DEF gs, tied
  <1>4. gs \in [Slot -> FlowType] /\ \A t \in Slot : gs[t].op = flows[t].op
    BY <1>2, <1>3, TiedFlows DEF Alike
  <1> QED
    BY <1>1, <1>4, IdleAgain

LEMMA DraftSavedShows ==
    ASSUME PageInv, ShowsInv, ~rushed, NEW s \in Slot, NEW a \in Account, AtHead(s, a),
           DraftSaved(s, a), server' = Carried(a, flows[s].cmd), lost' = lost
    PROVE  ShowsInv'
  <1> DEFINE cmd == flows[s].cmd
             row == SavedRow(cmd)
             rule == Stored(cmd.id, cmd.draft)
  <1>1. /\ UnderWay(s) /\ Going(flows[s]) /\ a = page.account /\ flows[s].op = "save"
        /\ \A t \in Slot \ {s} : flows[t].op = "none"
    BY ServedAtWork DEF DraftSaved
  <1>2. /\ page \in PageType /\ page.rules \in Seq(RowSet) /\ Unique(PageRules)
        /\ flows \in [Slot -> FlowType] /\ flows[s] \in FlowType /\ Sends(flows[s])
        /\ \A t \in Slot : Sends(flows[t])
    BY FlowsAre
  <1>3. page' = [page EXCEPT !.rules = Show(row), !.selected = {row.rule.id},
                             !.draft = NoDraft, !.screen = "table"]
        /\ Ends(s, a, Untied(row.rule.id))
    BY DEF DraftSaved
  <1>4. /\ page'.rules = Show(row) /\ page'.account = page.account /\ page'.loaded = page.loaded
    BY <1>2, <1>3 DEF PageType
  <1>5. /\ cmd \in SaveCmds
        /\ StoredSet' = Others(server[a], cmd.id) \cup {rule}
    BY <1>1, <1>4, BothSaved
  <1>6. row \in RowSet /\ row.rule = rule /\ rule.id = cmd.id
    BY <1>5, SavedRowIs
  <1>7. Idle'
    BY <1>1, SavedIdle
  <1> HIDE DEF row
  <1>8. PageSet' = Others(PageRules, cmd.id) \cup {rule}
    <2>1. PageRules' = RulesOf(Show(row))
      BY <1>4 DEF PageRules, RulesOf
    <2> QED
      BY <1>2, <1>6, <2>1, ShownRows DEF PageSet
  <1>9. Showing' = Showing /\ Loaded' = Loaded
    BY <1>4 DEF Showing, Loaded
  <1>10. ASSUME Showing' PROVE PageSet' = StoredSet'
    <2>1. ToSet(PageRules) = ToSet(server[a])
      BY <1>1, <1>9, <1>10 DEF Going, Mirror, PageSet, StoredSet
    <2>2. Others(PageRules, cmd.id) = Others(server[a], cmd.id)
      BY <2>1, OthersAlike
    <2> QED
      BY <1>5, <1>8, <2>2
  <1>11. Loaded' /\ Mirror'
    BY <1>1, <1>9, <1>10 DEF Going, Mirror
  <1> QED
    BY <1>7, <1>11 DEF ShowsInv, AtEase

LEMMA DuplicatedShows ==
    ASSUME PageInv, ShowsInv, ~rushed, NEW s \in Slot, NEW a \in Account, AtHead(s, a),
           Duplicated(s, a), server' = Carried(a, flows[s].cmd), lost' = lost
    PROVE  ShowsInv'
  <1> DEFINE cmd == flows[s].cmd
             row == SavedRow(cmd)
             rule == Stored(cmd.id, cmd.draft)
  <1>1. /\ UnderWay(s) /\ Going(flows[s]) /\ a = page.account /\ flows[s].op = "duplicate"
        /\ \A t \in Slot \ {s} : flows[t].op = "none"
    BY ServedAtWork DEF Duplicated
  <1>2. /\ page \in PageType /\ page.rules \in Seq(RowSet) /\ Unique(PageRules)
        /\ flows \in [Slot -> FlowType]
    BY FlowsAre
  <1>3. page' = [page EXCEPT !.rules = Append(@, row), !.selected = {row.rule.id},
                             !.busy = FALSE, !.screen = "table"]
    BY DEF Duplicated
  <1>4. /\ page'.rules = Append(page.rules, row) /\ page'.account = page.account
        /\ page'.loaded = page.loaded
    BY <1>2, <1>3 DEF PageType
  <1>5. /\ cmd \in SaveCmds
        /\ StoredSet' = Others(server[a], cmd.id) \cup {rule}
    BY <1>1, <1>4, BothSaved
  <1>6. row \in RowSet /\ row.rule = rule /\ rule.id = cmd.id
    BY <1>5, SavedRowIs
  <1>7. Idle'
    BY <1>1, <1>2, IdleAgain DEF Duplicated
  <1> HIDE DEF row
  <1>8. ~Holds(PageRules, cmd.id) /\ ~Holds(server[a], cmd.id)
    <2>1. cmd.id \notin StoredIds \cup PageIds
      BY <1>1 DEF PageInv, NewIds
    <2>2. cmd.id \notin IdsOf(server[a])
      BY <2>1 DEF StoredIds
    <2> QED
      BY <2>1, <2>2 DEF Holds, IdsOf, PageIds, PageRules
  <1>9. PageSet' = PageSet \cup {rule}
    <2>1. PageRules' = RulesOf(Append(page.rules, row)) /\ PageRules = RulesOf(page.rules)
      BY <1>4 DEF PageRules, RulesOf
    <2> QED
      BY <1>2, <1>6, <1>8, <2>1, AppendedRows DEF PageSet
  <1>10. StoredSet' = StoredSet \cup {rule}
    BY <1>1, <1>5, <1>8, NoneOthers DEF StoredSet
  <1>11. Showing' = Showing /\ Loaded' = Loaded
    BY <1>4 DEF Showing, Loaded
  <1>12. Loaded' /\ Mirror'
    BY <1>1, <1>9, <1>10, <1>11 DEF Going, Mirror
  <1> QED
    BY <1>7, <1>12 DEF ShowsInv, AtEase

LEMMA DeletedShows ==
    ASSUME PageInv, ShowsInv, ~rushed, NEW s \in Slot, NEW a \in Account, AtHead(s, a),
           Deleted(s, a), server' = Carried(a, flows[s].cmd), lost' = lost
    PROVE  ShowsInv'
  <1> DEFINE cmd == flows[s].cmd
             left == AtPositions(page.rules,
                       {i \in DOMAIN page.rules : page.rules[i].rule.id # cmd.id})
  <1>1. /\ UnderWay(s) /\ Going(flows[s]) /\ a = page.account /\ flows[s].op = "delete"
        /\ \A t \in Slot \ {s} : flows[t].op = "none"
    BY ServedAtWork DEF Deleted
  <1>2. /\ page \in PageType /\ page.rules \in Seq(RowSet) /\ Unique(PageRules)
        /\ flows \in [Slot -> FlowType] /\ flows[s] \in FlowType /\ Sends(flows[s])
    BY FlowsAre
  <1>3. /\ flows[s].rest # <<>> =>
              /\ page' = [page EXCEPT !.rules = left, !.whole = FALSE]
              /\ GoesOn(s, a, DeleteTurn(flows[s]))
        /\ flows[s].rest = <<>> =>
              /\ page' = [page EXCEPT !.rules = left, !.whole = FALSE, !.busy = FALSE,
                             !.screen = Screen(left),
                             !.selected = IF left = <<>> THEN {} ELSE {left[1].rule.id}]
              /\ Ends(s, a, flows)
    BY ZenonT(30) DEF Deleted
  <1> HIDE DEF left
  <1>4. /\ page'.rules = left /\ page'.account = page.account /\ page'.loaded = page.loaded
        /\ page'.draft = page.draft
    BY <1>2, <1>3 DEF PageType
  <1>5. PageSet' = Others(PageRules, cmd.id)
    <2>1. PageRules' = RulesOf(left) /\ PageRules = RulesOf(page.rules)
      BY <1>4 DEF PageRules, RulesOf
    <2> QED
      BY <1>2, <2>1, KeptRows DEF PageSet, left
  <1>6. StoredSet' = Others(server[a], cmd.id)
    <2>1. StoredSet' = ToSet(Carried(a, cmd)[a])
      BY <1>1, <1>4 DEF StoredSet
    <2>2. cmd \in DeleteCmds
      BY <1>1, <1>2 DEF Sends
    <2> QED
      BY <2>1, <2>2, CarriedDelete
  <1>7. Showing' = Showing /\ Loaded' = Loaded /\ Modal' = Modal
    BY <1>4 DEF Showing, Loaded, Modal
  <1>8. ASSUME Showing' PROVE PageSet' = StoredSet'
    <2>1. ToSet(PageRules) = ToSet(server[a])
      BY <1>1, <1>7, <1>8 DEF Going, Mirror, PageSet, StoredSet
    <2> QED
      BY <1>5, <1>6, <2>1, OthersAlike
  <1>9. Loaded' /\ Mirror' /\ ~Modal'
    BY <1>1, <1>7, <1>8 DEF Going, Mirror
  <1>10. CASE flows[s].rest = <<>>
    <2>1. Idle'
      BY <1>1, <1>2, <1>3, <1>10, IdleAgain
    <2> QED
      BY <1>9, <2>1 DEF ShowsInv, AtEase
  <1>11. CASE flows[s].rest # <<>>
    <2> DEFINE f == DeleteTurn(flows[s])
    <2>1. f \in FlowType /\ Sends(f) /\ f.op = "delete" /\ f.answer = NoAnswer
      BY <1>1, <1>2, <1>11, DeleteTurnIs
    <2>2. GoesOn(s, a, f)
      BY <1>3, <1>11
    <2> HIDE DEF f
    <2>3. /\ flows'[s].op = "delete" /\ flows'[s].account = page.account
          /\ \A t \in Slot \ {s} : flows'[t] = flows[t]
      <3>1. f.op \notin {"none", "switch"} /\ TypeInv /\ Queued
        BY <2>1 DEF PageInv
      <3> QED
        BY <2>1, <2>2, <3>1, WentOn, ZenonT(90)
    <2>4. Going(flows[s])'
      BY <1>4, <1>9, <2>3 DEF Going
    <2> QED
      BY <1>1, <2>3, <2>4 DEF ShowsInv, UnderWay, Alone
  <1> QED
    BY <1>10, <1>11

LEMMA MovedShows ==
    ASSUME PageInv, ShowsInv, ~rushed, NEW s \in Slot, NEW a \in Account, AtHead(s, a),
           Moved(s, a), server' = Carried(a, flows[s].cmd), lost' = lost
    PROVE  ShowsInv'
  <1> DEFINE cmd == flows[s].cmd
             rule == Stored(cmd.id, cmd.draft)
  <1>1. /\ UnderWay(s) /\ Going(flows[s]) /\ a = page.account /\ flows[s].op = "move"
        /\ \A t \in Slot \ {s} : flows[t].op = "none"
    BY ServedAtWork DEF Moved
  <1>2. /\ page \in PageType /\ flows \in [Slot -> FlowType]
        /\ flows[s] \in FlowType /\ Sends(flows[s])
        /\ server[a] \in Seq(Rules) /\ Unique(server[a])
    BY FlowsAre
  <1>3. /\ page'.rules = page.rules /\ page'.account = page.account
        /\ page'.loaded = page.loaded /\ page'.draft = page.draft
    BY <1>2 DEF Moved, PageType
  <1>4. PageSet' = PageSet /\ Showing' = Showing /\ Loaded' = Loaded /\ Modal' = Modal
    BY <1>3 DEF PageSet, PageRules, Showing, Loaded, Modal
  <1>5. /\ cmd \in SaveCmds
        /\ StoredSet' = Others(server[a], cmd.id) \cup {rule}
    BY <1>1, <1>3, BothSaved
  <1>6. rule.id = cmd.id
    BY <1>5, SavedRowIs
  <1>7. ASSUME Showing PROVE StoredSet' = StoredSet /\ PageSet = StoredSet
    <2>1. rule \in PageSet /\ PageSet = StoredSet
      BY <1>1, <1>7 DEF Going, OfPage, Mirror
    <2>2. rule \in ToSet(server[a])
      BY <1>1, <2>1 DEF StoredSet
    <2>3. Others(server[a], rule.id) \cup {rule} = ToSet(server[a])
      BY <1>2, <2>2, OthersAndIt
    <2> QED
      BY <1>1, <1>5, <1>6, <2>1, <2>3 DEF StoredSet
  <1>8. Loaded' /\ Mirror' /\ ~Modal'
    BY <1>1, <1>4, <1>7 DEF Going, Mirror
  <1>9. CASE flows[s].rest = <<>>
    <2>1. Idle'
      BY <1>1, <1>2, <1>9, IdleAgain DEF Moved
    <2> QED
      BY <1>8, <2>1 DEF ShowsInv, AtEase
  <1>10. CASE flows[s].rest # <<>>
    <2> DEFINE f == SaveTurn(flows[s])
               rest == flows[s].rest
    <2>1. f \in FlowType /\ Sends(f) /\ f.op = "move" /\ f.answer = NoAnswer
      BY <1>1, <1>2, <1>10, SaveTurnIs
    <2>2. f.cmd = SaveCmd(Head(rest)) /\ f.rest = Tail(rest)
      BY <1>2 DEF SaveTurn, FlowType
    <2>3. GoesOn(s, a, f)
      BY <1>10 DEF Moved
    <2> HIDE DEF f
    <2>4. /\ flows'[s].op = "move" /\ flows'[s].account = page.account
          /\ flows'[s].cmd = f.cmd /\ flows'[s].rest = f.rest
          /\ \A t \in Slot \ {s} : flows'[t] = flows[t]
      <3>1. f.op \notin {"none", "switch"} /\ TypeInv /\ Queued
        BY <2>1 DEF PageInv
      <3> QED
        BY <2>1, <2>3, <3>1, WentOn, ZenonT(90)
    <2>5. Showing => OfPage(flows[s])'
      <3> SUFFICES ASSUME Showing PROVE OfPage(flows[s])'
        OBVIOUS
      <3>1. \A i \in DOMAIN rest : rest[i].rule \in PageSet
        BY <1>1 DEF Going, OfPage
      <3>2. /\ Head(rest) \in RowSet /\ Head(rest).rule \in PageSet
            /\ \A i \in DOMAIN Tail(rest) : Tail(rest)[i].rule \in PageSet
        BY <1>2, <1>10, <3>1, RestIds
      <3>3. Stored(f.cmd.id, f.cmd.draft) \in PageSet
        BY <2>2, <3>2, SaveCmdIs
      <3> QED
        BY <1>4, <2>2, <2>4, <3>2, <3>3 DEF OfPage
    <2>6. Going(flows[s])'
      BY <1>3, <1>4, <1>8, <2>4, <2>5 DEF Going
    <2> QED
      BY <1>1, <2>4, <2>6 DEF ShowsInv, UnderWay, Alone
  <1> QED
    BY <1>9, <1>10

\* A reload that has its answer waits at the page.
LEMMA WaitShows ==
    ASSUME PageInv, ShowsInv, ~rushed, NEW s \in Slot, NEW a \in Account, AtHead(s, a),
           flows[s].op = "reload", NEW answer \in Answers,
           flows' = [flows EXCEPT ![s].answer = answer], page' = page,
           answer.kind = "list" => answer.rules = server'[a]
    PROVE  ShowsInv'
  <1>1. /\ UnderWay(s) /\ Going(flows[s]) /\ a = page.account
        /\ \A t \in Slot \ {s} : flows[t].op = "none"
    BY ServedAtWork
  <1>2. flows \in [Slot -> FlowType] /\ flows[s] \in FlowType
    BY FlowsAre
  <1>3. /\ flows'[s].op = "reload" /\ flows'[s].account = flows[s].account
        /\ flows'[s].answer = answer
        /\ \A t \in Slot \ {s} : flows'[t] = flows[t]
    BY <1>2 DEF FlowType
  <1>4. Going(flows[s])'
    BY <1>1, <1>3 DEF Going, Modal
  <1> QED
    BY <1>1, <1>3, <1>4 DEF ShowsInv, UnderWay, Alone

LEMMA ListAnsweredShows ==
    ASSUME PageInv, ShowsInv, ~rushed, NEW s \in Slot, NEW a \in Account, AtHead(s, a),
           ListAnswered(s, a), server' = Carried(a, flows[s].cmd), lost' = lost
    PROVE  ShowsInv'
  <1> DEFINE answer == [kind |-> "list", rules |-> server[a]]
  <1>1. flows[s].op = "reload" /\ page' = page /\ flows' = [flows EXCEPT ![s].answer = answer]
    BY DEF ListAnswered
  <1>2. server' = server
    BY <1>1, FlowsAre, CarriedList DEF Sends
  <1>3. answer \in Answers /\ answer.rules = server'[a]
    BY <1>2, FlowsAre DEF Answers
  <1> HIDE DEF answer
  <1> QED
    BY <1>1, <1>3, WaitShows

LEMMA ServeShows ==
    ASSUME PageInv, ShowsInv, NEW s \in Slot, NEW a \in Account, Serve(s, a)
    PROVE  ShowsInv'
  <1> SUFFICES ASSUME ~rushed' PROVE ShowsInv'
    BY DEF ShowsInv
  <1>1. ~rushed /\ AtHead(s, a) /\ server' = Carried(a, flows[s].cmd) /\ lost' = lost
    BY DEF Serve
  <1>2. \/ Toggled(s, a) \/ DraftSaved(s, a) \/ Duplicated(s, a)
        \/ Deleted(s, a) \/ Moved(s, a) \/ ListAnswered(s, a)
    BY DEF Serve
  <1> QED
    BY <1>1, <1>2, ToggledShows, DraftSavedShows, DuplicatedShows, DeletedShows, MovedShows,
       ListAnsweredShows, ZenonT(30)

(***************************************************************************)
(* The refusals.  A change that is stored although its answer is lost is   *)
(* remembered in `lost'.                                                   *)
(***************************************************************************)
\* A refused toggle is taken back on the page.
LEMMA BackShows ==
    ASSUME PageInv, ShowsInv, ~rushed, NEW s \in Slot, NEW a \in Account, AtHead(s, a),
           flows[s].op = "toggle",
           page'.rules = WithActive(page.rules, flows[s].tied, flows[s].cmd.id, ~flows[s].cmd.active),
           page'.account = page.account, page'.loaded = page.loaded,
           lost' = (lost \/ server' # server), Idle'
    PROVE  ShowsInv'
  <1> DEFINE id == flows[s].cmd.id
             back == ~flows[s].cmd.active
             ids == flows[s].tied
  <1>1. Going(flows[s])
    BY ServedAtWork
  <1>2. flows[s].cmd \in SwitchCmds
    BY FlowsAre DEF Sends
  <1>3. back \in BOOLEAN
    BY <1>2 DEF SwitchCmds
  <1>4. Loaded' /\ (Showing' => Showing /\ server' = server)
    BY <1>1 DEF Going, Loaded, Showing
  <1>5. ASSUME Showing' PROVE PageSet' = StoredSet'
    <2>1. id \in ids /\ StoredSet = Flip(PageSet, id, back)
      BY <1>1, <1>4, <1>5 DEF Going, Ahead
    <2>2. page'.rules = WithActive(page.rules, ids, id, back)
      OBVIOUS
    <2> HIDE DEF id, ids, back
    <2>3. PageRules' = Switched(PageRules, id, back)
      BY <1>3, <2>1, <2>2, SwitchedPage
    <2>4. PageSet' = Flip(PageSet, id, back)
      BY <2>3, FlipOf DEF PageSet
    <2>5. StoredSet' = StoredSet
      BY <1>4, <1>5 DEF StoredSet
    <2> QED
      BY <2>1, <2>4, <2>5
  <1> QED
    BY <1>4, <1>5 DEF ShowsInv, AtEase, Mirror

\* Any other handler leaves the rows to what they were.
LEMMA StopShows ==
    ASSUME PageInv, ShowsInv, ~rushed, NEW s \in Slot, NEW a \in Account, AtHead(s, a),
           flows[s].op \in {"save", "duplicate", "delete", "move"},
           page'.rules = page.rules, page'.account = page.account, page'.loaded = page.loaded,
           lost' = (lost \/ server' # server), Idle'
    PROVE  ShowsInv'
  <1>1. Loaded /\ Mirror
    BY ServedAtWork DEF Going
  <1>2. Loaded' /\ (Showing' => Showing /\ server' = server)
    BY <1>1 DEF Loaded, Showing
  <1>3. PageSet' = PageSet /\ (server' = server => StoredSet' = StoredSet)
    BY DEF PageSet, PageRules, StoredSet
  <1> QED
    BY <1>1, <1>2, <1>3 DEF ShowsInv, AtEase, Mirror

LEMMA ToggleBackShows ==
    ASSUME PageInv, ShowsInv, ~rushed, NEW s \in Slot, NEW a \in Account, AtHead(s, a),
           ToggleBack(s, a), lost' = (lost \/ server' # server)
    PROVE  ShowsInv'
  <1> DEFINE cmd == flows[s].cmd
             gs == SetActive(flows, cmd.id, ~cmd.active)
  <1>1. flows[s].op = "toggle" /\ \A t \in Slot \ {s} : flows[t].op = "none"
    BY ServedAtWork DEF ToggleBack
  <1>2. /\ page \in PageType /\ flows \in [Slot -> FlowType]
        /\ \A t \in Slot : Sends(flows[t])
    BY FlowsAre
  <1>3. cmd.active \in BOOLEAN
    BY <1>1, <1>2 DEF Sends, SwitchCmds
  <1>4. gs \in [Slot -> FlowType] /\ \A t \in Slot : gs[t].op = flows[t].op
    <2> DEFINE back == ~cmd.active
    <2>1. back \in BOOLEAN /\ gs = SetActive(flows, cmd.id, back)
      BY <1>3
    <2> HIDE DEF gs, back
    <2> QED
      BY <1>2, <2>1, SetActiveFlows DEF Alike
  <1>5. Ends(s, a, flows) \/ Ends(s, a, gs)
    BY DEF ToggleBack
  <1>6. /\ page'.rules = WithActive(page.rules, flows[s].tied, cmd.id, ~cmd.active)
        /\ page'.account = page.account /\ page'.loaded = page.loaded
    BY <1>2 DEF ToggleBack, PageType
  <1> HIDE DEF gs
  <1>7. Idle'
    BY <1>1, <1>2, <1>4, <1>5, IdleAgain
  <1> QED
    BY <1>1, <1>6, <1>7, BackShows

LEMMA GivenUpShows ==
    ASSUME PageInv, ShowsInv, ~rushed, NEW s \in Slot, NEW a \in Account, AtHead(s, a),
           GivenUp(s, a), lost' = (lost \/ server' # server)
    PROVE  ShowsInv'
  <1>1. flows[s].op \in {"save", "duplicate", "delete", "move"}
        /\ \A t \in Slot \ {s} : flows[t].op = "none"
    BY ServedAtWork DEF GivenUp
  <1>2. page \in PageType /\ flows \in [Slot -> FlowType]
    BY FlowsAre
  <1>3. /\ page'.rules = page.rules /\ page'.account = page.account /\ page'.loaded = page.loaded
    BY <1>2 DEF GivenUp, PageType
  <1>4. Idle'
    BY <1>1, <1>2, IdleAgain DEF GivenUp
  <1> QED
    BY <1>1, <1>3, <1>4, StopShows

LEMMA MoveReloadsShows ==
    ASSUME PageInv, ShowsInv, ~rushed, NEW s \in Slot, NEW a \in Account, AtHead(s, a),
           MoveReloads(s, a)
    PROVE  ShowsInv'
  <1> DEFINE b == page.account
             f == [ListFlow EXCEPT !.account = b]
  <1>1. ~Modal /\ \A t \in Slot \ {s} : flows[t].op = "none"
    BY ServedAtWork DEF MoveReloads, Going
  <1>2. b \in Account /\ page'.account = b /\ page'.draft = page.draft
    BY FlowsAre, LoadingType DEF MoveReloads
  <1>3. flows' = [flows EXCEPT ![s] = f] /\ f = [ListFlow EXCEPT !.account = b]
    BY DEF MoveReloads, GoesOn
  <1> HIDE DEF b, f
  <1>4. ~Modal' /\ flows \in [Slot -> FlowType]
    BY <1>1, <1>2, FlowsAre DEF Modal
  <1> QED
    BY <1>1, <1>2, <1>3, <1>4, LoadShows

LEMMA ListFailedShows ==
    ASSUME PageInv, ShowsInv, ~rushed, NEW s \in Slot, NEW a \in Account, AtHead(s, a),
           NEW kind \in Faults, ListFailed(s, a, kind)
    PROVE  ShowsInv'
  <1> DEFINE answer == [kind |-> kind, rules |-> <<>>]
  <1>1. flows[s].op = "reload" /\ page' = page /\ flows' = [flows EXCEPT ![s].answer = answer]
    BY DEF ListFailed
  <1>2. kind \in {"error", "no_password", "lost"}
    BY ManagerAssumption
  <1>3. answer \in Answers /\ answer.kind # "list"
    BY <1>2 DEF Answers
  <1> HIDE DEF answer
  <1> QED
    BY <1>1, <1>3, WaitShows

LEMMA PasswordWantedShows ==
    ASSUME PageInv, ShowsInv, ~rushed, NEW s \in Slot, NEW a \in Account, AtHead(s, a),
           PasswordWanted(s, a), lost' = (lost \/ server' # server)
    PROVE  ShowsInv'
  <1> DEFINE cmd == flows[s].cmd
             rows == WithActive(page.rules, flows[s].tied, cmd.id, ~cmd.active)
             told == IF flows[s].op = "toggle" THEN [page EXCEPT !.rules = rows]
                     ELSE IF flows[s].op = "save" THEN [page EXCEPT !.draft = NoDraft]
                     ELSE [page EXCEPT !.busy = FALSE]
  <1>1. /\ flows[s].op \notin {"none", "switch", "reload"}
        /\ \A t \in Slot \ {s} : flows[t].op = "none"
    BY ServedAtWork DEF PasswordWanted
  <1>2. page \in PageType /\ flows \in [Slot -> FlowType] /\ flows[s] \in FlowType
    BY FlowsAre
  <1>3. page' = LazyAuth(told) /\ Ends(s, a, flows)
    BY DEF PasswordWanted
  <1>4. Idle'
    BY <1>1, <1>2, <1>3, IdleAgain
  <1> HIDE DEF rows
  <1>5. /\ told.account = page.account /\ told.loaded = page.loaded
        /\ flows[s].op = "toggle" => told.rules = rows
        /\ flows[s].op # "toggle" => told.rules = page.rules
        /\ DOMAIN told = DOMAIN page
    BY <1>2 DEF PageType
  <1>6. DOMAIN page = {"rules", "account", "loaded", "selected", "busy", "auth", "screen",
                       "draft", "whole"}
    BY <1>2 DEF PageType
  <1> HIDE DEF told
  <1>7. /\ page'.account = told.account /\ page'.loaded = told.loaded /\ page'.rules = told.rules
    BY <1>3, <1>5, <1>6 DEF LazyAuth
  <1>8. CASE flows[s].op = "toggle"
    <2>1. page'.rules = WithActive(page.rules, flows[s].tied, cmd.id, ~cmd.active)
      BY <1>5, <1>7, <1>8 DEF rows
    <2> QED
      BY <1>4, <1>5, <1>7, <1>8, <2>1, BackShows
  <1>9. CASE flows[s].op # "toggle"
    <2>1. flows[s].op \in {"save", "duplicate", "delete", "move"}
      BY <1>1, <1>2, <1>9 DEF FlowType, FlowOps
    <2> QED
      BY <1>4, <1>5, <1>7, <1>9, <2>1, StopShows
  <1> QED
    BY <1>8, <1>9

LEMMA RefuseShows ==
    ASSUME PageInv, ShowsInv, NEW s \in Slot, NEW a \in Account, NEW kind \in Faults,
           Refuse(s, a, kind)
    PROVE  ShowsInv'
  <1> SUFFICES ASSUME ~rushed' PROVE ShowsInv'
    BY DEF ShowsInv
  <1>1. ~rushed /\ AtHead(s, a) /\ lost' = (lost \/ server' # server)
    BY DEF Refuse
  <1>2. \/ PasswordWanted(s, a) \/ ListFailed(s, a, kind)
        \/ ToggleBack(s, a) \/ GivenUp(s, a) \/ MoveReloads(s, a)
    BY DEF Refuse
  <1> QED
    BY <1>1, <1>2, PasswordWantedShows, ListFailedShows, ToggleBackShows, GivenUpShows,
       MoveReloadsShows, ZenonT(30)

\* The list is shown, or a screen says why not.
LEMMA ShowListShows ==
    ASSUME PageInv, ShowsInv, NEW s \in Slot, ShowList(s)
    PROVE  ShowsInv'
  <1> SUFFICES ASSUME ~rushed' PROVE ShowsInv'
    BY DEF ShowsInv
  <1> DEFINE rules == flows[s].answer.rules
             a == page.account
  <1>1. /\ ~rushed /\ flows[s].op = "reload" /\ server' = server /\ lost' = lost
    BY DEF ShowList
  <1>2. Going(flows[s]) /\ \A t \in Slot \ {s} : flows[t].op = "none"
    BY <1>1, AtWork DEF UnderWay, Alone
  <1>3. page \in PageType /\ flows \in [Slot -> FlowType] /\ a \in Account /\ server[a] \in Seq(Rules)
    BY FlowsAre
  <1>4. NoFlow.op = "none"
    BY NoFlowIs
  <1>5. CASE flows[s].answer.kind # "list"
    <2>1. /\ page' \in {LazyAuth([page EXCEPT !.busy = FALSE, !.loaded = NoAccount]),
                        [page EXCEPT !.busy = FALSE, !.loaded = NoAccount, !.screen = "error"]}
          /\ flows' = [flows EXCEPT ![s] = NoFlow]
      BY <1>5 DEF ShowList
    <2>2. page'.loaded = NoAccount /\ page'.account = a
      BY <1>3, <2>1 DEF LazyAuth, PageType
    <2>3. Loaded' /\ ~Showing'
      BY <1>3, <2>2, ManagerAssumption DEF Loaded, Showing
    <2>4. Idle'
      BY <1>2, <1>3, <1>4, <2>1 DEF Idle
    <2> QED
      BY <2>3, <2>4 DEF ShowsInv, AtEase, Mirror
  <1>6. CASE flows[s].answer.kind = "list"
    <2>1. rules = server[a] /\ flows[s].account = a
      BY <1>1, <1>2, <1>6 DEF Going
    <2>2. /\ page' = [page EXCEPT !.rules = Listed(rules), !.loaded = flows[s].account,
                        !.whole = TRUE, !.busy = FALSE, !.screen = Screen(rules),
                        !.selected = IF @ = {} /\ rules # <<>> THEN {rules[1].id} ELSE @]
          /\ flows' = [t \in Slot |->
                        IF t = s THEN NoFlow ELSE [flows[t] EXCEPT !.tied = {}]]
      BY <1>6 DEF ShowList
    <2> HIDE DEF rules
    <2>3. page'.rules = Listed(rules) /\ page'.loaded = a /\ page'.account = a
      BY <1>3, <2>1, <2>2 DEF PageType
    <2>4. \A t \in Slot \ {s} : [flows[t] EXCEPT !.tied = {}].op = flows[t].op
      BY <1>3 DEF FlowType
    <2>5. Idle'
      BY <1>2, <1>4, <2>2, <2>4 DEF Idle
    <2>6. PageSet' = StoredSet'
      <3>1. PageRules' = RulesOf(Listed(rules))
        BY <2>3 DEF PageRules, RulesOf
      <3>2. RulesOf(Listed(rules)) = rules
        BY <1>3, <2>1, ListedRows
      <3>3. StoredSet' = ToSet(server[a])
        BY <1>1, <2>3 DEF StoredSet
      <3> QED
        BY <2>1, <3>1, <3>2, <3>3 DEF PageSet
    <2> QED
      BY <2>3, <2>5, <2>6 DEF ShowsInv, AtEase, Mirror, Loaded
  <1> QED
    BY <1>5, <1>6

LEMMA NextShows ==
    ASSUME PageInv, TableInv, ShowsInv, Next
    PROVE  ShowsInv'
  <1>1. ASSUME NEW s \in Slot, User(s) PROVE ShowsInv'
    BY <1>1, ReloadShows, RetryShows, SaveShows, DuplicateShows, DeleteShows, MoveShows,
       SwitchAccountShows, ToggleShows, ZenonT(30) DEF User
  <1>2. ASSUME NEW s \in Slot, Progress(s) PROVE ShowsInv'
    BY <1>2, SwitchToldShows, ShowListShows, ServeShows, RefuseShows, ZenonT(30) DEF Progress
  <1> QED
    BY <1>1, <1>2, SelectShows, SearchShows, NewShows, EditShows, CancelShows, ZenonT(30) DEF Next

LEMMA InitShows ==
    ASSUME Init
    PROVE  ShowsInv
  <1>1. PICK a \in Account :
          /\ page = [rules |-> <<>>, account |-> a, loaded |-> NoAccount, selected |-> {},
                     busy |-> TRUE, auth |-> FALSE, screen |-> "loading", draft |-> NoDraft,
                     whole |-> FALSE]
          /\ flows = [s \in Slot |-> IF s = 1 THEN [ListFlow EXCEPT !.account = a] ELSE NoFlow]
    BY ZenonT(30) DEF Init
  <1> DEFINE f == [ListFlow EXCEPT !.account = a]
  <1>2. f.op = "reload" /\ f.account = a /\ f.answer = NoAnswer
    BY ListFlowIs
  <1>3. flows = [s \in Slot |-> IF s = 1 THEN f ELSE NoFlow] /\ 1 \in Slot
    BY <1>1, ManagerAssumption
  <1> HIDE DEF f
  <1>4. flows[1] = f /\ \A t \in Slot \ {1} : flows[t].op = "none"
    BY <1>3, NoFlowIs
  <1>5. Alone(1)
    BY <1>2, <1>4 DEF Alone
  <1>6. ~Modal /\ page.account = a /\ f.answer.kind = "none"
    BY <1>1, <1>2 DEF Modal, NoAnswer
  <1>7. Going(flows[1])
    BY <1>2, <1>4, <1>6 DEF Going
  <1> QED
    BY <1>3, <1>5, <1>7 DEF ShowsInv, UnderWay

\* A page at rest whose last load succeeded holds what is stored, rule by rule: after every
\* refusal, half a deletion, half a move (manager.js), as long as the user waits for each
\* answer and no answer of a stored change is lost; and its table shows the same, unless a
\* deletion failed after its first rule and nothing was drawn since (onDelete returns without
\* renderList).  The inductive invariants say what the page holds while a handler is at work
\* (ShowsInv), and what the table has of it (TableInv).
THEOREM PageShows == Spec => []PageShowsStored
  <1>1. Init => ShowsInv
    BY InitShows
  <1>2. PageInv /\ TableInv /\ ShowsInv /\ [Next]_vars => ShowsInv'
    <2>1. ASSUME PageInv, TableInv, ShowsInv, Next PROVE ShowsInv'
      BY <2>1, NextShows
    <2>2. ASSUME ShowsInv, UNCHANGED vars PROVE ShowsInv'
      <3>1. page' = page /\ flows' = flows /\ server' = server /\ lost' = lost /\ rushed' = rushed
        BY <2>2 DEF vars
      <3> QED
        BY <2>2, <3>1, LooksShow
    <2> QED
      BY <2>1, <2>2
  <1>3. PageInv /\ TableInv /\ ShowsInv => PageShowsStored
    <2> SUFFICES ASSUME PageInv, TableInv, ShowsInv, AtRest, ~rushed
                 PROVE  /\ ToSet(PageRules) = ToSet(server[page.account])
                        /\ ~table.torn => ToSet(TableRules) = ToSet(server[page.account])
      BY DEF PageShowsStored
    <2>1. \A t \in Slot : flows[t].op = "none"
      BY NoFlowIs DEF AtRest, Quiet, Calm
    <2>2. AtEase
      BY <2>1 DEF ShowsInv, UnderWay, Alone
    <2>3. ToSet(PageRules) = ToSet(server[page.account])
      BY <2>2 DEF AtEase, AtRest, Mirror, Showing, PageSet, StoredSet
    <2>4. ~Deleting
      BY <2>1 DEF Deleting
    <2>5. ~table.torn => ToSet(TableRules) = ToSet(PageRules)
      <3>1. /\ ToSet(TableRules) = {row.rule : row \in ToSet(table.rows)}
            /\ ToSet(PageRules) = {row.rule : row \in ToSet(page.rules)}
        BY DEF TableRules, PageRules, ToSet
      <3> QED
        BY <2>4, <3>1 DEF TableInv
    <2> QED
      BY <2>3, <2>5
  <1> QED
    BY <1>1, <1>2, <1>3, PageAndTable, PTL DEF Spec
-----------------------------------------------------------------------------
(***************************************************************************)
(* Accounts stay apart, whichever handlers overlap, as long as the user    *)
(* switches the account, opens a rule, and moves one only when no handler  *)
(* is at work.  Then all handlers work for the selected account, and no    *)
(* rule of another one is on the page, but while the page waits for the    *)
(* list of an account just selected.                                       *)
(***************************************************************************)
Patient == Overlap \cap {"switch", "edit", "move"} = {}

\* The ids stored for the accounts that are not selected.
Elsewhere == UNION {IdsOf(server[b]) : b \in Account \ {page.account}}
Disjoint == \A a, b \in Account : a # b => IdsOf(server[a]) \cap IdsOf(server[b]) = {}
Stale == \E t \in Slot : flows[t].op \in {"switch", "reload"}

AtHome(f) ==
    /\ f.op \notin {"none", "switch"} => f.account = page.account
    /\ f.op # "delete" => FlowIds(f) \cap Elsewhere = {}
    /\ f.answer = NoAnswer \/ f.answer.kind = "list"
Apart ==
    /\ Disjoint
    /\ page.screen \notin {"auth", "error"}
    /\ DraftIds \cap Elsewhere = {}
    /\ PageIds \cap Elsewhere = {} \/ Stale
    /\ \A t \in Slot : AtHome(flows[t])

LEMMA NoFlowAtHome == AtHome(NoFlow)
  BY NoFlowIs DEF AtHome

LEMMA AskedPatiently ==
    ASSUME Patient, NEW op \in {"switch", "edit", "move"}, Asked(op)
    PROVE  (\A t \in Slot : flows[t] = NoFlow) /\ ~Stale
  <1>1. op \notin Overlap
    BY DEF Patient
  <1>2. \A t \in Slot : flows[t] = NoFlow
    BY <1>1 DEF Asked, Calm
  <1> QED
    BY <1>2, NoFlowIs DEF Stale

\* A step of one handler, or of none.
LEMMA ApartKept ==
    ASSUME Apart, NEW s \in Slot, Elsewhere' = Elsewhere, Disjoint',
           page'.account = page.account, page'.screen \notin {"auth", "error"},
           DraftIds' \cap Elsewhere = {}, PageIds' \cap Elsewhere = {} \/ Stale',
           flows'[s].op \notin {"none", "switch"} => flows'[s].account = page.account,
           flows'[s].op # "delete" => FlowIds(flows'[s]) \cap Elsewhere = {},
           flows'[s].answer = NoAnswer \/ flows'[s].answer.kind = "list",
           \A t \in Slot \ {s} : Alike(flows'[t], flows[t])
    PROVE  Apart'
  <1>1. ASSUME NEW t \in Slot PROVE AtHome(flows[t])'
    <2>1. CASE t = s
      BY <2>1 DEF AtHome
    <2>2. CASE t # s
      <3>1. AtHome(flows[t]) /\ Alike(flows'[t], flows[t])
        BY <2>2 DEF Apart
      <3> QED
        BY <3>1 DEF AtHome, Alike
    <2> QED
      BY <2>1, <2>2
  <1> QED
    BY <1>1 DEF Apart

LEMMA HomeStays ==
    ASSUME Apart, server' = server, page'.account = page.account
    PROVE  Elsewhere' = Elsewhere /\ Disjoint'
  BY DEF Apart, Elsewhere, Disjoint

LEMMA StaleStays ==
    ASSUME NEW s \in Slot, flows[s].op \notin {"switch", "reload"},
           \A t \in Slot \ {s} : Alike(flows'[t], flows[t]), Stale
    PROVE  Stale'
  <1>1. PICK t \in Slot : flows[t].op \in {"switch", "reload"}
    BY DEF Stale
  <1>2. t # s
    BY <1>1
  <1>3. flows'[t].op = flows[t].op
    BY <1>2 DEF Alike
  <1> QED
    BY <1>1, <1>3 DEF Stale

\* Steps that leave the handlers, the rows and the account alone.
LEMMA LooksApart ==
    ASSUME Apart, server' = server, flows' = flows, page'.rules = page.rules,
           page'.account = page.account, page'.screen \notin {"auth", "error"},
           DraftIds' \cap Elsewhere = {}
    PROVE  Apart'
  <1>1. Elsewhere' = Elsewhere /\ Disjoint' /\ PageIds' = PageIds /\ Stale' = Stale
    BY HomeStays DEF PageIds, Stale
  <1>2. \A t \in Slot : AtHome(flows[t])'
    BY <1>1 DEF Apart, AtHome
  <1> QED
    BY <1>1, <1>2 DEF Apart

LEMMA ScreenIs ==
    ASSUME NEW rules
    PROVE  Screen(rules) \notin {"auth", "error"}
  BY DEF Screen

LEMMA SelectApart ==
    ASSUME PageInv, Apart, Select
    PROVE  Apart'
  <1>1. \E ids : page' = [page EXCEPT !.selected = ids]
    BY DEF Select
  <1>2. /\ page'.rules = page.rules /\ page'.account = page.account
        /\ page'.screen = page.screen /\ page'.draft = page.draft
    BY <1>1, FlowsAre DEF PageType
  <1>3. DraftIds' = DraftIds /\ server' = server /\ flows' = flows
    BY <1>2 DEF DraftIds, Modal, Select
  <1> QED
    BY <1>2, <1>3, LooksApart DEF Apart

LEMMA SearchApart ==
    ASSUME PageInv, Apart, Search
    PROVE  Apart'
  <1>1. page' = [page EXCEPT !.screen = Screen(page.rules)]
    BY DEF Search
  <1>2. /\ page'.rules = page.rules /\ page'.account = page.account
        /\ page'.screen = Screen(page.rules) /\ page'.draft = page.draft
    BY <1>1, FlowsAre DEF PageType
  <1>3. DraftIds' = DraftIds /\ server' = server /\ flows' = flows
    BY <1>2 DEF DraftIds, Modal, Search
  <1> QED
    BY <1>2, <1>3, ScreenIs, LooksApart DEF Apart

LEMMA CancelApart ==
    ASSUME PageInv, Apart, CancelDraft
    PROVE  Apart'
  <1>1. page' = [page EXCEPT !.draft = NoDraft]
    BY DEF CancelDraft
  <1>2. /\ page'.rules = page.rules /\ page'.account = page.account
        /\ page'.screen = page.screen /\ page'.draft = NoDraft
    BY <1>1, FlowsAre DEF PageType
  <1>3. DraftIds' = {} /\ server' = server /\ flows' = flows
    BY <1>2 DEF DraftIds, Modal, CancelDraft
  <1> QED
    BY <1>2, <1>3, LooksApart DEF Apart

LEMMA ElsewhereIsStored == Elsewhere \subseteq StoredIds
  BY DEF Elsewhere, StoredIds

\* An id not given out yet is stored nowhere.
LEMMA FreshIsNowhere ==
    ASSUME PageInv
    PROVE  fresh \in Nat /\ fresh \notin Elsewhere
  <1>1. StoredIds \subseteq 1 .. fresh - 1 /\ fresh \in Nat
    BY DEF PageInv, KnownIds, GivenOut, TypeInv
  <1>2. fresh \notin 1 .. fresh - 1
    BY <1>1
  <1> QED
    BY <1>1, <1>2, ElsewhereIsStored

LEMMA NewApart ==
    ASSUME PageInv, Apart, New
    PROVE  Apart'
  <1>1. PICK name \in Names, body \in Bodies :
          page' = [page EXCEPT !.draft =
              Row([id |-> fresh, name |-> name, body |-> body, active |-> TRUE], NextOrderForNew)]
    BY DEF New
  <1> DEFINE row == Row([id |-> fresh, name |-> name, body |-> body, active |-> TRUE],
                        NextOrderForNew)
  <1>2. row.rule.id = fresh
    BY DEF Row
  <1>3. page' = [page EXCEPT !.draft = row]
    BY <1>1
  <1> HIDE DEF row
  <1>4. /\ page'.rules = page.rules /\ page'.account = page.account
        /\ page'.screen = page.screen /\ page'.draft = row
    BY <1>3, FlowsAre DEF PageType
  <1>5. DraftIds' \subseteq {fresh} /\ server' = server /\ flows' = flows
    BY <1>2, <1>4 DEF DraftIds, Modal, New
  <1> QED
    BY <1>4, <1>5, FreshIsNowhere, LooksApart DEF Apart

LEMMA EditApart ==
    ASSUME Patient, PageInv, Apart, Edit
    PROVE  Apart'
  <1>1. PICK id \in Single, body \in Bodies :
          page' = [page EXCEPT !.draft = [page.rules[PageIndex(id)] EXCEPT !.rule.body = body]]
    BY DEF Edit
  <1> DEFINE old == page.rules[PageIndex(id)]
             row == [old EXCEPT !.rule.body = body]
  <1>2. id \in PageIds /\ old \in RowSet /\ old.rule.id = id
    BY PageIndexIs DEF Single, PageInv
  <1>3. page' = [page EXCEPT !.draft = row]
    BY <1>1
  <1> HIDE DEF old
  <1>4. row.rule.id = id
    BY <1>2 DEF RowSet, Rules
  <1> HIDE DEF row
  <1>5. /\ page'.rules = page.rules /\ page'.account = page.account
        /\ page'.screen = page.screen /\ page'.draft = row
    BY <1>3, FlowsAre DEF PageType
  <1>6. DraftIds' \subseteq {id} /\ server' = server /\ flows' = flows
    BY <1>4, <1>5 DEF DraftIds, Modal, Edit
  <1>7. ~Stale
    BY AskedPatiently DEF Edit
  <1>8. id \notin Elsewhere
    BY <1>2, <1>7 DEF Apart
  <1> QED
    BY <1>5, <1>6, <1>8, LooksApart DEF Apart

(***************************************************************************)
(* The handlers begin.                                                     *)
(***************************************************************************)
LEMMA LoadApart ==
    ASSUME PageInv, Apart, NEW s \in Slot, Send(s, ListFlow, page.account), server' = server,
           page'.account = page.account, page'.draft = page.draft, page'.screen = "loading"
    PROVE  Apart'
  <1> DEFINE a == page.account
             f == [ListFlow EXCEPT !.account = a]
  <1>1. a \in Account /\ flows \in [Slot -> FlowType]
    BY FlowsAre
  <1>2. /\ FlowIds(f) = {} /\ f.op = "reload" /\ f.account = a /\ f.answer = NoAnswer
    BY <1>1, ListFlowIs
  <1>3. flows' = [flows EXCEPT ![s] = f]
    BY DEF Send
  <1> HIDE DEF f
  <1>4. flows'[s] = f /\ \A t \in Slot \ {s} : Alike(flows'[t], flows[t])
    BY <1>1, <1>3 DEF Alike
  <1>5. Elsewhere' = Elsewhere /\ Disjoint' /\ DraftIds' = DraftIds
    BY HomeStays DEF DraftIds, Modal
  <1>6. Stale'
    BY <1>2, <1>4 DEF Stale
  <1> QED
    BY <1>2, <1>4, <1>5, <1>6, ApartKept DEF Apart

LEMMA ReloadApart ==
    ASSUME PageInv, Apart, NEW s \in Slot, Reload(s)
    PROVE  Apart'
  <1>1. /\ page'.account = page.account /\ page'.draft = page.draft
        /\ page'.screen = "loading"
    BY FlowsAre, LoadingType DEF Reload
  <1> QED
    BY <1>1, LoadApart DEF Reload

LEMMA SwitchToldApart ==
    ASSUME PageInv, Apart, NEW s \in Slot, SwitchTold(s)
    PROVE  Apart'
  <1>1. /\ page'.account = page.account /\ page'.draft = page.draft
        /\ page'.screen = "loading"
    BY FlowsAre, LoadingType DEF SwitchTold
  <1> QED
    BY <1>1, LoadApart DEF SwitchTold

LEMMA SwitchAccountApart ==
    ASSUME Patient, PageInv, Apart, NEW s \in Slot, NEW a \in Account, SwitchAccount(s, a)
    PROVE  Apart'
  <1> DEFINE f == [NoFlow EXCEPT !.op = "switch"]
  <1>1. \A t \in Slot : flows[t] = NoFlow
    BY AskedPatiently DEF SwitchAccount
  <1>2. flows \in [Slot -> FlowType] /\ flows' = [flows EXCEPT ![s] = f] /\ server' = server
    BY FlowsAre DEF SwitchAccount
  <1>3. f.op = "switch" /\ f.answer = NoAnswer /\ FlowIds(f) = FlowIds(NoFlow)
    BY DEF NoFlow, FlowIds
  <1> HIDE DEF f
  <1>4. flows'[s] = f /\ \A t \in Slot \ {s} : flows'[t] = NoFlow
    BY <1>1, <1>2
  <1>5. /\ page'.rules = page.rules /\ page'.screen = page.screen /\ page'.draft = page.draft
    BY FlowsAre DEF SwitchAccount, PageType
  <1>6. DraftIds' = {}
    BY <1>5 DEF DraftIds, Modal, SwitchAccount
  <1>7. Stale' /\ Disjoint'
    BY <1>2, <1>3, <1>4 DEF Stale, Apart, Disjoint
  <1>8. ASSUME NEW t \in Slot PROVE AtHome(flows[t])'
    <2>1. CASE t = s
      BY <1>3, <1>4, <2>1, NoFlowIs DEF AtHome
    <2>2. CASE t # s
      <3>1. flows'[t] = NoFlow
        BY <1>4, <2>2
      <3> QED
        BY <3>1, NoFlowIs DEF AtHome
    <2> QED
      BY <2>1, <2>2
  <1> QED
    BY <1>5, <1>6, <1>7, <1>8 DEF Apart


\* A handler begins for the selected account, with rows that are of no other.
LEMMA BeginApart ==
    ASSUME PageInv, Apart, NEW s \in Slot, flows[s].op = "none",
           NEW gs \in [Slot -> FlowType], \A t \in Slot : Alike(gs[t], flows[t]),
           NEW f \in FlowType, f.account = page.account, f.answer = NoAnswer,
           f.op # "delete" => FlowIds(f) \cap Elsewhere = {},
           flows' = [gs EXCEPT ![s] = f], server' = server,
           page'.account = page.account, page'.draft = page.draft,
           page'.screen \notin {"auth", "error"}, PageIds' = PageIds
    PROVE  Apart'
  <1>1. flows'[s] = f /\ \A t \in Slot \ {s} : Alike(flows'[t], flows[t])
    OBVIOUS
  <1>2. Elsewhere' = Elsewhere /\ Disjoint' /\ DraftIds' = DraftIds
    BY HomeStays DEF DraftIds, Modal
  <1>3. Stale => Stale'
    BY <1>1, StaleStays
  <1> QED
    BY <1>1, <1>2, <1>3, ApartKept DEF Apart

LEMMA ToggleApart ==
    ASSUME PageInv, TableInv, Apart, NEW s \in Slot, NEW id \in TableIds, Toggle(s, id)
    PROVE  Apart'
  <1> DEFINE active == ~table.rows[TableIndex(id)].rule.active
             cmd == [op |-> "setRuleActive", id |-> id, active |-> active]
             gs == SetActive(flows, id, active)
             f == [NoFlow EXCEPT !.op = "toggle", !.account = page.account, !.tied = {id},
                                 !.cmd = cmd]
  <1>1. /\ page' = [page EXCEPT !.rules = WithActive(@, {id}, id, active)]
        /\ flows' = [gs EXCEPT ![s] = f] /\ server' = server
    BY DEF Toggle
  <1>2. active \in BOOLEAN /\ id \in Nat
    BY TableIndexIs DEF PageInv
  <1> HIDE DEF active
  <1>3. cmd \in Cmds
    BY <1>2 DEF SwitchCmds, Cmds
  <1> HIDE DEF cmd
  <1>4. f = [NoFlow EXCEPT !.op = "toggle", !.account = page.account, !.tied = {id}, !.cmd = cmd]
    OBVIOUS
  <1> HIDE DEF f
  <1>5. /\ f \in FlowType /\ f.op = "toggle" /\ f.account = page.account /\ f.answer = NoFlow.answer
        /\ f.rest = NoFlow.rest
    BY <1>2, <1>3, <1>4, NoFlowIs, FlowsAre DEF FlowType, FlowOps
  <1>6. FlowIds(f) = FlowIds(NoFlow)
    BY <1>5, NoFlowIs DEF FlowIds
  <1>7. gs \in [Slot -> FlowType] /\ \A t \in Slot : Alike(gs[t], flows[t])
    BY <1>2, FlowsAre, SetActiveFlows
  <1> HIDE DEF gs
  <1>8. /\ page'.rules = WithActive(page.rules, {id}, id, active) /\ page'.draft = page.draft
        /\ page'.account = page.account /\ page'.screen = page.screen
    BY <1>1, FlowsAre DEF PageType
  <1>9. PageIds' = PageIds
    BY <1>2, <1>8, SwitchedPage
  <1>10. flows[s].op = "none"
    BY NoFlowIs DEF Toggle, Free
  <1> QED
    BY <1>1, <1>5, <1>6, <1>7, <1>8, <1>9, <1>10, NoFlowIs, BeginApart DEF Apart

\* A handler that only sends: the page keeps its rows, its account and its draft.
LEMMA SendApart ==
    ASSUME PageInv, Apart, NEW s \in Slot, Free(s), NEW g \in FlowType,
           g.answer = NoAnswer, g.op # "delete" => FlowIds(g) \cap Elsewhere = {},
           Send(s, g, page.account), server' = server,
           page'.account = page.account, page'.draft = page.draft,
           page'.screen \notin {"auth", "error"}, PageIds' = PageIds
    PROVE  Apart'
  <1> DEFINE f == [g EXCEPT !.account = page.account]
  <1>1. flows' = [flows EXCEPT ![s] = f]
    BY DEF Send
  <1>2. page.account \in Account /\ flows \in [Slot -> FlowType]
    BY FlowsAre
  <1>3. /\ f \in FlowType /\ f.op = g.op /\ f.account = page.account /\ f.answer = g.answer
        /\ f.cmd = g.cmd /\ f.rest = g.rest
    BY <1>2 DEF FlowType
  <1> HIDE DEF f
  <1>4. FlowIds(f) = FlowIds(g)
    BY <1>3 DEF FlowIds
  <1>5. \A t \in Slot : Alike(flows[t], flows[t])
    BY DEF Alike
  <1>6. flows[s].op = "none"
    BY NoFlowIs DEF Free
  <1> QED
    BY <1>1, <1>2, <1>3, <1>4, <1>5, <1>6, BeginApart

\* A handler with one message, before it is sent.
Sender(op, cmd) == [NoFlow EXCEPT !.op = op, !.cmd = cmd]

LEMMA SenderIs ==
    ASSUME NEW op \in FlowOps, NEW cmd \in Cmds
    PROVE  /\ Sender(op, cmd) \in FlowType /\ Sender(op, cmd).op = op
           /\ Sender(op, cmd).answer = NoAnswer
           /\ FlowIds(Sender(op, cmd)) \subseteq {cmd.id}
  <1> DEFINE g == Sender(op, cmd)
  <1>1. /\ g \in FlowType /\ g.op = op /\ g.cmd = cmd /\ g.answer = NoFlow.answer
        /\ g.rest = NoFlow.rest
    BY NoFlowIs DEF FlowType, Sender
  <1> HIDE DEF g
  <1>2. FlowIds(g) \subseteq FlowIds(NoFlow) \cup {cmd.id}
    BY <1>1, NoFlowIs DEF FlowIds
  <1> QED
    BY <1>1, <1>2, NoFlowIs DEF g

LEMMA SaveApart ==
    ASSUME PageInv, Apart, NEW s \in Slot, Save(s)
    PROVE  Apart'
  <1> DEFINE op == "save"
             cmd == SaveCmd(page.draft)
             g == [NoFlow EXCEPT !.op = op, !.cmd = cmd]
  <1>1. page.draft \in RowSet /\ DraftIds = {page.draft.rule.id}
    BY PageFields DEF Save, Modal, DraftIds, PageInv
  <1>2. cmd \in Cmds /\ cmd.id \in DraftIds
    BY <1>1, SaveCmdIs
  <1>3. Send(s, g, page.account) /\ page' = page /\ server' = server /\ Free(s)
    BY DEF Save
  <1> HIDE DEF cmd
  <1>4. g = Sender(op, cmd) /\ op \in FlowOps
    BY DEF FlowOps, Sender
  <1> HIDE DEF g, op
  <1>5. g \in FlowType /\ g.answer = NoAnswer /\ FlowIds(g) \subseteq {cmd.id}
    BY <1>2, <1>4, SenderIs
  <1>6. FlowIds(g) \cap Elsewhere = {}
    BY <1>2, <1>5 DEF Apart
  <1>7. PageIds' = PageIds
    BY <1>3 DEF PageIds
  <1> QED
    BY <1>3, <1>5, <1>6, <1>7, SendApart DEF Apart

LEMMA DuplicateApart ==
    ASSUME PageInv, Apart, NEW s \in Slot, Duplicate(s)
    PROVE  Apart'
  <1>1. PICK id \in Single :
          Send(s, [NoFlow EXCEPT !.op = "duplicate",
                     !.cmd = SaveCmd(Row([page.rules[PageIndex(id)].rule EXCEPT !.id = fresh],
                                         NextOrderForNew))],
               page.account)
    BY ZenonT(30) DEF Duplicate
  <1> DEFINE op == "duplicate"
             rule == [page.rules[PageIndex(id)].rule EXCEPT !.id = fresh]
             cmd == SaveCmd(Row(rule, NextOrderForNew))
             g == [NoFlow EXCEPT !.op = op, !.cmd = cmd]
  <1>2. fresh \in Nat /\ fresh \notin Elsewhere
    BY FreshIsNowhere
  <1>3. rule \in Rules /\ rule.id = fresh
    <2>1. page.rules[PageIndex(id)].rule \in Rules
      BY PageIndexIs DEF Single, PageInv
    <2> QED
      BY <1>2, <2>1 DEF Rules
  <1>4. Send(s, g, page.account)
    BY <1>1
  <1> HIDE DEF rule
  <1>5. cmd \in Cmds /\ cmd.id = fresh
    BY <1>3, RowIs, MinOrderType, SaveCmdIs DEF PageInv
  <1> HIDE DEF cmd
  <1>6. g = Sender(op, cmd) /\ op \in FlowOps
    BY DEF FlowOps, Sender
  <1> HIDE DEF g, op
  <1>7. g \in FlowType /\ g.answer = NoAnswer /\ FlowIds(g) \subseteq {cmd.id}
    BY <1>5, <1>6, SenderIs
  <1>8. /\ page'.rules = page.rules /\ page'.account = page.account
        /\ page'.screen = page.screen /\ page'.draft = page.draft
    BY FlowsAre DEF Duplicate, PageType
  <1>9. PageIds' = PageIds /\ server' = server /\ Free(s)
    BY <1>8 DEF PageIds, Duplicate
  <1> QED
    BY <1>2, <1>4, <1>5, <1>7, <1>8, <1>9, SendApart DEF Apart

LEMMA DeleteApart ==
    ASSUME PageInv, Apart, NEW s \in Slot, Delete(s)
    PROVE  Apart'
  <1>1. PICK f \in FlowType :
          /\ Sends(f) /\ WaitsFor(f, page.account) /\ f.op = "delete"
          /\ FlowIds(f) \subseteq PageIds
          /\ flows' = [flows EXCEPT ![s] = f]
          /\ queue' = [queue EXCEPT ![page.account] = Append(@, s)]
    BY DeleteIs
  <1>2. /\ page'.rules = page.rules /\ page'.account = page.account
        /\ page'.screen = page.screen /\ page'.draft = page.draft
    BY FlowsAre DEF Delete, PageType
  <1>3. PageIds' = PageIds /\ server' = server /\ flows[s].op = "none"
    BY <1>2, NoFlowIs DEF PageIds, Delete, Free
  <1>4. flows \in [Slot -> FlowType] /\ \A t \in Slot : Alike(flows[t], flows[t])
    BY FlowsAre DEF Alike
  <1> QED
    BY <1>1, <1>2, <1>3, <1>4, BeginApart DEF Apart, WaitsFor

\* A move begins when no handler is at work, so that the rows are those of the account.
LEMMA MoveApart ==
    ASSUME Patient, PageInv, Apart, NEW s \in Slot, Move(s)
    PROVE  Apart'
  <1>1. (\A t \in Slot : flows[t] = NoFlow) /\ ~Stale
    BY AskedPatiently DEF Move
  <1>2. PageIds \cap Elsewhere = {} /\ flows[s].op = "none"
    BY <1>1, NoFlowIs DEF Apart
  <1>3. PICK new \in Seq(RowSet), touched \in Seq(RowSet) : MovesTo(s, new, touched)
    BY MoveIs
  <1>4. /\ page'.rules = new /\ page'.draft = page.draft
        /\ page'.account = page.account /\ page'.screen = "table" /\ server' = server
    BY <1>3, FlowsAre DEF MovesTo, PageType, Move
  <1>5. PageIds' = PageIds
    <2>1. PageRules' = RulesOf(new)
      BY <1>4 DEF PageRules, RulesOf
    <2>2. PageIds' = {rule.id : rule \in ToSet(PageRules')}
      BY DEF PageIds, PageRules, ToSet
    <2> QED
      BY <1>3, <2>1, <2>2, PageIdsAre DEF MovesTo
  <1>6. flows \in [Slot -> FlowType] /\ \A t \in Slot : Alike(flows[t], flows[t])
    BY FlowsAre DEF Alike
  <1>7. CASE touched = <<>>
    <2>1. flows' = flows
      BY <1>3, <1>7 DEF MovesTo
    <2>2. Elsewhere' = Elsewhere /\ Disjoint' /\ DraftIds' = DraftIds
      BY <1>4, HomeStays DEF DraftIds, Modal
    <2> QED
      BY <1>1, <1>2, <1>4, <1>5, <1>6, <2>1, <2>2, NoFlowIs, ApartKept DEF Apart
  <1>8. CASE touched # <<>>
    <2> DEFINE cmd == SaveCmd(Head(touched))
               rest == Tail(touched)
               f == Flow("move", page.account, cmd, rest, PageIds)
    <2>1. flows' = [flows EXCEPT ![s] = f]
      BY <1>3, <1>8 DEF MovesTo
    <2>2. cmd \in SaveCmds /\ cmd \in Cmds /\ cmd.id \in PageIds
      BY <1>3, <1>8, SaveCmdIs, PageIdsAre DEF MovesTo
    <2>3. rest \in Seq(RowSet) /\ {rest[k].rule.id : k \in DOMAIN rest} \subseteq PageIds
      BY <1>3, <1>8, PageIdsAre DEF MovesTo
    <2>4. PageIds \in SUBSET Nat /\ page.account \in Account
      <3>1. \A k \in DOMAIN page.rules : page.rules[k].rule \in Rules
        BY FlowsAre, RulesOfRows
      <3> QED
        BY <3>1, RuleFields, FlowsAre DEF PageIds
    <2> HIDE DEF cmd, rest
    <2>5. f = Flow("move", page.account, cmd, rest, PageIds)
      OBVIOUS
    <2> HIDE DEF f
    <2>6. /\ f \in FlowType /\ f.op = "move" /\ f.account = page.account /\ f.answer = NoAnswer
          /\ FlowIds(f) = {cmd.id} \cup {rest[k].rule.id : k \in DOMAIN rest}
      BY <2>2, <2>3, <2>4, <2>5, FlowBegins
    <2>7. FlowIds(f) \cap Elsewhere = {}
      BY <1>2, <2>2, <2>3, <2>6
    <2> QED
      BY <1>2, <1>4, <1>5, <1>6, <2>1, <2>6, <2>7, BeginApart
  <1> QED
    BY <1>7, <1>8

LEMMA RetryApart ==
    ASSUME Apart, NEW s \in Slot, Retry(s)
    PROVE  Apart'
  BY DEF Apart, Retry

(***************************************************************************)
(* The answers.                                                            *)
(***************************************************************************)
\* Who is served works for the selected account, so that nothing is stored elsewhere.
LEMMA ServedAtHome ==
    ASSUME PageInv, Apart, NEW s \in Slot, NEW a \in Account, AtHead(s, a),
           server' = Carried(a, flows[s].cmd), page'.account = page.account
    PROVE  /\ Elsewhere' = Elsewhere /\ Disjoint' /\ a = page.account
           /\ flows[s].op \notin {"none", "switch"} /\ flows[s].account = page.account
           /\ flows[s].answer = NoAnswer
           /\ IdsOf(server[a]) \cap Elsewhere = {}
  <1> DEFINE f == flows[s]
  <1>1. f.op \notin {"none", "switch"} /\ f.account = a /\ f.answer = NoAnswer
    BY HeadWaits DEF PageInv, WaitsFor
  <1>2. AtHome(f) /\ Disjoint
    BY DEF Apart
  <1>3. a = page.account /\ (f.op # "delete" => FlowIds(f) \cap Elsewhere = {})
    BY <1>1, <1>2 DEF AtHome
  <1> HIDE DEF f
  <1>4. /\ \A b \in Account \ {a} : server'[b] = server[b]
        /\ IdsOf(server'[a]) \subseteq IdsOf(server[a]) \cup FlowIds(f)
        /\ f.op = "delete" => IdsOf(server'[a]) \subseteq IdsOf(server[a])
    BY CarriedIds DEF f
  <1>5. \A b \in Account \ {a} : IdsOf(server[b]) \subseteq Elsewhere
    BY <1>3 DEF Elsewhere
  <1>6. Elsewhere' = Elsewhere
    <2>1. Elsewhere' = UNION {IdsOf(server'[b]) : b \in Account \ {page'.account}}
      BY DEF Elsewhere, IdsOf
    <2>2. \A b \in Account \ {page.account} : IdsOf(server'[b]) = IdsOf(server[b])
      BY <1>3, <1>4
    <2> QED
      BY <2>1, <2>2 DEF Elsewhere
  <1>7. IdsOf(server[a]) \cap Elsewhere = {}
    BY <1>2, <1>3 DEF Disjoint, Elsewhere
  <1>8. IdsOf(server'[a]) \cap Elsewhere = {}
    BY <1>3, <1>4, <1>7
  <1>9. Disjoint'
    <2>1. \A b, c \in Account : b # c => IdsOf(server'[b]) \cap IdsOf(server'[c]) = {}
      <3> SUFFICES ASSUME NEW b \in Account, NEW c \in Account, b # c
                   PROVE  IdsOf(server'[b]) \cap IdsOf(server'[c]) = {}
        OBVIOUS
      <3>1. CASE b = a
        BY <1>4, <1>5, <1>8, <3>1
      <3>2. CASE c = a
        BY <1>4, <1>5, <1>8, <3>2
      <3>3. CASE b # a /\ c # a
        BY <1>2, <1>4, <3>3 DEF Disjoint
      <3> QED
        BY <3>1, <3>2, <3>3
    <2> QED
      BY <2>1 DEF Disjoint, IdsOf
  <1> QED
    BY <1>1, <1>3, <1>6, <1>7, <1>9 DEF f

\* The last answer of a handler.
LEMMA DoneApart ==
    ASSUME PageInv, Apart, NEW s \in Slot, NEW a \in Account, AtHead(s, a), Done(s),
           server' = Carried(a, flows[s].cmd), flows[s].op # "reload",
           page'.account = page.account, page'.screen \notin {"auth", "error"},
           page'.draft \in {page.draft, NoDraft},
           PageIds' \subseteq PageIds \cup FlowIds(flows[s]),
           flows[s].op = "delete" => PageIds' \subseteq PageIds
    PROVE  Apart'
  <1>1. Elsewhere' = Elsewhere /\ Disjoint' /\ flows[s].op \notin {"none", "switch"}
    BY ServedAtHome
  <1>2. AtHome(flows[s])
    BY DEF Apart
  <1>3. PageIds' \cap Elsewhere = {} \/ Stale'
    <2>1. CASE Stale
      BY <1>1, <2>1, StaleStays DEF Done
    <2>2. CASE ~Stale
      <3>1. PageIds \cap Elsewhere = {}
        BY <2>2 DEF Apart
      <3>2. flows[s].op # "delete" => FlowIds(flows[s]) \cap Elsewhere = {}
        BY <1>2 DEF AtHome
      <3> QED
        BY <3>1, <3>2
    <2> QED
      BY <2>1, <2>2
  <1>4. DraftIds' \subseteq DraftIds
    BY DEF DraftIds, Modal
  <1> QED
    BY <1>1, <1>3, <1>4, NoFlowIs, ApartKept DEF Done, Apart

\* The next message of a handler.
LEMMA GoesOnApart ==
    ASSUME PageInv, Apart, NEW s \in Slot, NEW a \in Account, AtHead(s, a),
           server' = Carried(a, flows[s].cmd), flows[s].op # "reload",
           NEW f \in FlowType, Sends(f), f.op = flows[s].op, f.answer = NoAnswer,
           FlowIds(f) \subseteq FlowIds(flows[s]), GoesOn(s, a, f),
           page'.account = page.account, page'.screen \notin {"auth", "error"},
           page'.draft = page.draft, PageIds' \subseteq PageIds
    PROVE  Apart'
  <1>1. Elsewhere' = Elsewhere /\ Disjoint' /\ flows[s].op \notin {"none", "switch"}
    BY ServedAtHome
  <1>2. AtHome(flows[s])
    BY DEF Apart
  <1>3. f.op \notin {"none", "switch"} /\ TypeInv /\ Queued
    BY <1>1 DEF PageInv
  <1>4. /\ flows'[s].op = f.op /\ flows'[s].account = page.account
        /\ flows'[s].answer = NoAnswer /\ FlowIds(flows'[s]) = FlowIds(f)
        /\ \A t \in Slot \ {s} : Alike(flows'[t], flows[t])
    BY <1>3, WentOn, ZenonT(60)
  <1>5. Stale => Stale'
    BY <1>1, <1>4, StaleStays
  <1>6. PageIds' \cap Elsewhere = {} \/ Stale'
    BY <1>5 DEF Apart
  <1>7. DraftIds' = DraftIds
    BY DEF DraftIds, Modal
  <1>8. flows'[s].op # "delete" => FlowIds(flows'[s]) \cap Elsewhere = {}
    BY <1>2, <1>4 DEF AtHome
  <1> QED
    BY <1>1, <1>4, <1>6, <1>7, <1>8, ApartKept DEF Apart

LEMMA ToggledApart ==
    ASSUME PageInv, Apart, NEW s \in Slot, NEW a \in Account, AtHead(s, a), Toggled(s, a),
           server' = Carried(a, flows[s].cmd)
    PROVE  Apart'
  <1>1. /\ flows \in [Slot -> FlowType]
        /\ \A t \in Slot : Sends(flows[t]) /\ Alike(flows[t], flows[t])
    BY FlowsAre DEF Alike
  <1>2. Done(s) /\ page' = page /\ flows[s].op = "toggle"
    BY <1>1, Ended DEF Toggled, PageInv, Done
  <1>3. PageIds' = PageIds
    BY <1>2 DEF PageIds
  <1> QED
    BY <1>2, <1>3, DoneApart DEF Apart

LEMMA DraftSavedApart ==
    ASSUME PageInv, Apart, NEW s \in Slot, NEW a \in Account, AtHead(s, a), DraftSaved(s, a),
           server' = Carried(a, flows[s].cmd),
           fresh' = fresh, faults' \in Nat, lost' \in BOOLEAN, rushed' = rushed
    PROVE  Apart'
  <1>1. Done(s) /\ PageIds' \subseteq PageIds \cup FlowIds(flows[s])
    BY DraftSavedPreserves
  <1>2. /\ flows[s].op = "save" /\ page'.account = page.account /\ page'.screen = "table"
        /\ page'.draft = NoDraft
    BY FlowsAre DEF DraftSaved, PageType
  <1> QED
    BY <1>1, <1>2, DoneApart

LEMMA DuplicatedApart ==
    ASSUME PageInv, Apart, NEW s \in Slot, NEW a \in Account, AtHead(s, a), Duplicated(s, a),
           server' = Carried(a, flows[s].cmd),
           fresh' = fresh, faults' \in Nat, lost' \in BOOLEAN, rushed' = rushed
    PROVE  Apart'
  <1>1. Done(s) /\ PageIds' \subseteq PageIds \cup FlowIds(flows[s])
    BY DuplicatedPreserves
  <1>2. /\ flows[s].op = "duplicate" /\ page'.account = page.account /\ page'.screen = "table"
        /\ page'.draft = page.draft
    BY FlowsAre DEF Duplicated, PageType
  <1> QED
    BY <1>1, <1>2, DoneApart

LEMMA DeletedApart ==
    ASSUME PageInv, Apart, NEW s \in Slot, NEW a \in Account, AtHead(s, a), Deleted(s, a),
           server' = Carried(a, flows[s].cmd),
           fresh' = fresh, faults' \in Nat, lost' \in BOOLEAN, rushed' = rushed
    PROVE  Apart'
  <1>1. PageIds' \subseteq PageIds /\ (flows[s].rest = <<>> => Done(s))
    BY DeletedPreserves
  <1>2. flows[s].op = "delete" /\ flows[s] \in FlowType /\ Sends(flows[s])
    BY FlowsAre DEF Deleted
  <1> DEFINE left == AtPositions(page.rules,
                       {i \in DOMAIN page.rules : page.rules[i].rule.id # flows[s].cmd.id})
             screen == Screen(left)
  <1>3. page'.screen \in {page.screen, screen}
    <2> HIDE DEF left, screen
    <2>1. page'.screen \in {page.screen, Screen(left)}
      BY FlowsAre DEF Deleted, PageType, left
    <2> QED
      BY <2>1 DEF screen
  <1>4. screen \notin {"auth", "error"}
    BY ScreenIs
  <1> HIDE DEF screen, left
  <1>5. page'.account = page.account /\ page'.draft = page.draft
    BY FlowsAre DEF Deleted, PageType
  <1>6. page'.screen \notin {"auth", "error"}
    BY <1>3, <1>4 DEF Apart
  <1>7. CASE flows[s].rest = <<>>
    BY <1>1, <1>2, <1>5, <1>6, <1>7, DoneApart
  <1>8. CASE flows[s].rest # <<>>
    <2> DEFINE f == DeleteTurn(flows[s])
    <2>1. /\ f \in FlowType /\ Sends(f) /\ f.op = "delete" /\ f.answer = NoAnswer
          /\ FlowIds(f) \subseteq FlowIds(flows[s])
      BY <1>2, <1>8, DeleteTurnIs
    <2>2. GoesOn(s, a, f)
      BY <1>8 DEF Deleted
    <2> HIDE DEF f
    <2> QED
      BY <1>1, <1>2, <1>5, <1>6, <2>1, <2>2, GoesOnApart
  <1> QED
    BY <1>7, <1>8

LEMMA MovedApart ==
    ASSUME PageInv, Apart, NEW s \in Slot, NEW a \in Account, AtHead(s, a), Moved(s, a),
           server' = Carried(a, flows[s].cmd)
    PROVE  Apart'
  <1>1. flows[s].op = "move" /\ flows[s] \in FlowType /\ Sends(flows[s])
    BY FlowsAre DEF Moved
  <1>2. /\ page'.rules = page.rules /\ page'.account = page.account /\ page'.draft = page.draft
        /\ page'.screen = page.screen
    BY FlowsAre DEF Moved, PageType
  <1>3. PageIds' = PageIds /\ page'.screen \notin {"auth", "error"}
    BY <1>2 DEF PageIds, Apart
  <1>4. CASE flows[s].rest = <<>>
    <2>1. /\ flows \in [Slot -> FlowType]
          /\ \A t \in Slot : Sends(flows[t]) /\ Alike(flows[t], flows[t])
      BY FlowsAre DEF Alike
    <2>2. Done(s)
      BY <1>4, <2>1, Ended DEF Moved, PageInv, Done
    <2> QED
      BY <1>1, <1>2, <1>3, <2>2, DoneApart
  <1>5. CASE flows[s].rest # <<>>
    <2> DEFINE f == SaveTurn(flows[s])
    <2>1. /\ f \in FlowType /\ Sends(f) /\ f.op = "move" /\ f.answer = NoAnswer
          /\ FlowIds(f) \subseteq FlowIds(flows[s])
      BY <1>1, <1>5, SaveTurnIs
    <2>2. GoesOn(s, a, f)
      BY <1>5 DEF Moved
    <2> HIDE DEF f
    <2> QED
      BY <1>1, <1>2, <1>3, <2>1, <2>2, GoesOnApart
  <1> QED
    BY <1>4, <1>5

\* A list under way holds the rules of its account.
LEMMA ListAnsweredApart ==
    ASSUME PageInv, Apart, NEW s \in Slot, NEW a \in Account, AtHead(s, a), ListAnswered(s, a),
           server' = Carried(a, flows[s].cmd)
    PROVE  Apart'
  <1> DEFINE answer == [kind |-> "list", rules |-> server[a]]
  <1>1. /\ flows[s].op = "reload" /\ page' = page
        /\ flows' = [flows EXCEPT ![s].answer = answer]
        /\ queue' = [queue EXCEPT ![a] = Tail(@)]
    BY DEF ListAnswered
  <1>2. /\ server[a] \in Seq(Rules) /\ Unique(server[a]) /\ flows \in [Slot -> FlowType]
        /\ flows[s] \in FlowType
    BY FlowsAre
  <1>3. answer \in Answers /\ Unique(answer.rules) /\ answer.kind = "list"
        /\ answer.rules = server[a]
    BY <1>2 DEF Answers
  <1> HIDE DEF answer
  <1>4. /\ flows'[s].op = "reload" /\ flows'[s].account = flows[s].account
        /\ flows'[s].answer = answer /\ flows'[s].rest = flows[s].rest
        /\ \A t \in Slot \ {s} : Alike(flows'[t], flows[t])
    <2>1. flows'[s] = [flows[s] EXCEPT !.answer = answer]
          /\ \A t \in Slot \ {s} : flows'[t] = flows[t]
      BY <1>1, <1>2
    <2>2. /\ flows'[s].op = flows[s].op /\ flows'[s].account = flows[s].account
          /\ flows'[s].answer = answer /\ flows'[s].rest = flows[s].rest
      BY <1>2, <2>1 DEF FlowType
    <2> QED
      BY <1>1, <2>1, <2>2 DEF Alike
  <1>5. /\ Elsewhere' = Elsewhere /\ Disjoint' /\ a = page.account
        /\ flows[s].account = page.account /\ IdsOf(server[a]) \cap Elsewhere = {}
    BY <1>1, ServedAtHome
  <1>6. FlowIds(flows'[s]) \cap Elsewhere = {}
    <2>1. FlowIds(flows[s]) \cap Elsewhere = {}
      BY <1>1 DEF Apart, AtHome
    <2>2. FlowIds(flows'[s]) \subseteq FlowIds(flows[s]) \cup IdsOf(server[a])
      BY <1>1, <1>3, <1>4 DEF FlowIds
    <2> QED
      BY <1>5, <2>1, <2>2
  <1>7. Stale' /\ DraftIds' = DraftIds
    BY <1>1, <1>4 DEF Stale, DraftIds, Modal
  <1> QED
    BY <1>1, <1>3, <1>4, <1>5, <1>6, <1>7, ApartKept DEF Apart

\* The list on the page is that of the account.
LEMMA ShowListApart ==
    ASSUME PageInv, Apart, NEW s \in Slot, ShowList(s)
    PROVE  Apart'
  <1> DEFINE f == flows[s]
             rules == f.answer.rules
             screen == Screen(rules)
  <1>1. /\ flows \in [Slot -> FlowType] /\ page \in PageType
        /\ \A t \in Slot : flows[t] \in FlowType /\ Sends(flows[t])
    BY FlowsAre
  <1>2. /\ f.op = "reload" /\ f.answer # NoAnswer /\ server' = server
    BY DEF ShowList
  <1>3. AtHome(f)
    BY DEF Apart
  <1>4. f.answer.kind = "list" /\ FlowIds(f) \cap Elsewhere = {}
    BY <1>2, <1>3 DEF AtHome
  <1>5. /\ page'.rules = Listed(rules) /\ page'.account = page.account
        /\ page'.draft = page.draft /\ page'.screen = screen
    BY <1>1, <1>4 DEF ShowList, PageType
  <1>6. screen \notin {"auth", "error"}
    BY ScreenIs
  <1>7. flows'[s] = NoFlow /\ \A t \in Slot \ {s} : Alike(flows'[t], flows[t])
    <2>1. flows' = [t \in Slot |-> IF t = s THEN NoFlow ELSE [flows[t] EXCEPT !.tied = {}]]
      BY <1>4 DEF ShowList
    <2>2. ASSUME NEW t \in Slot \ {s} PROVE Alike(flows'[t], flows[t])
      <3>1. flows'[t] = [flows[t] EXCEPT !.tied = {}] /\ flows[t] \in FlowType
        BY <1>1, <2>1
      <3> QED
        BY <3>1 DEF FlowType, Alike, FlowIds
    <2> QED
      BY <2>1, <2>2
  <1> HIDE DEF f, screen
  <1>8. PageIds' = IdsOf(rules)
    <2>1. rules \in Seq(Rules)
      BY <1>1 DEF FlowType, Answers, f
    <2>2. PageRules' = rules
      BY <1>5, <2>1, ListedRows DEF PageRules, RulesOf
    <2>3. PageIds' = {rule.id : rule \in ToSet(PageRules')}
      BY DEF PageIds, PageRules, ToSet
    <2> HIDE DEF rules
    <2> QED
      BY <2>2, <2>3, IdsOfElements
  <1>9. PageIds' \cap Elsewhere = {}
    BY <1>4, <1>8 DEF FlowIds
  <1>10. Elsewhere' = Elsewhere /\ Disjoint' /\ DraftIds' = DraftIds
    BY <1>2, <1>5, HomeStays DEF DraftIds, Modal
  <1> QED
    BY <1>5, <1>6, <1>7, <1>9, <1>10, NoFlowIs, ApartKept DEF Apart

LEMMA ServeApart ==
    ASSUME PageInv, Apart, NEW s \in Slot, NEW a \in Account, Serve(s, a)
    PROVE  Apart'
  <1>1. /\ AtHead(s, a) /\ server' = Carried(a, flows[s].cmd)
        /\ fresh' = fresh /\ faults' \in Nat /\ lost' \in BOOLEAN /\ rushed' = rushed
    BY DEF Serve, PageInv, TypeInv
  <1>2. \/ Toggled(s, a) \/ DraftSaved(s, a) \/ Duplicated(s, a)
        \/ Deleted(s, a) \/ Moved(s, a) \/ ListAnswered(s, a)
    BY DEF Serve
  <1> QED
    BY <1>1, <1>2, ToggledApart, DraftSavedApart, DuplicatedApart, DeletedApart, MovedApart,
       ListAnsweredApart, ZenonT(30)

(***************************************************************************)
(* The steps together.  A message that fails ends what this says.          *)
(***************************************************************************)
LEMMA NextApart ==
    ASSUME Patient, PageInv, TableInv, Apart, Next, faults' = 0
    PROVE  Apart'
  <1>1. ASSUME NEW s \in Slot, User(s) PROVE Apart'
    BY <1>1, ReloadApart, RetryApart, SaveApart, DuplicateApart, DeleteApart, MoveApart,
       SwitchAccountApart, ToggleApart, ZenonT(30) DEF User
  <1>2. ASSUME NEW s \in Slot, NEW a \in Account, NEW kind \in Faults, Refuse(s, a, kind)
        PROVE  FALSE
    BY <1>2 DEF Refuse, PageInv, TypeInv
  <1>3. ASSUME NEW s \in Slot, Progress(s) PROVE Apart'
    BY <1>2, <1>3, SwitchToldApart, ShowListApart, ServeApart, ZenonT(30) DEF Progress
  <1> QED
    BY <1>1, <1>3, SelectApart, SearchApart, NewApart, EditApart, CancelApart, ZenonT(30) DEF Next

\* No fault is ever taken back.
LEMMA FaultsGrow ==
    ASSUME PageInv, [Next]_vars, faults' = 0
    PROVE  faults = 0
  <1>0. faults \in Nat
    BY DEF PageInv, TypeInv
  <1>1. CASE Next
    <2>1. ASSUME NEW s \in Slot, User(s) PROVE faults' = faults
      BY <2>1 DEF User, Reload, Retry, Save, Duplicate, Delete, Move, SwitchAccount, Toggle
    <2>2. ASSUME NEW s \in Slot, Progress(s) PROVE faults' \in {faults, faults + 1}
      BY <2>2 DEF Progress, SwitchTold, ShowList, Serve, Refuse
    <2>3. faults' \in {faults, faults + 1}
      BY <1>1, <2>1, <2>2 DEF Next, Select, Search, New, Edit, CancelDraft
    <2> QED
      BY <1>0, <2>3
  <1>2. CASE UNCHANGED vars
    BY <1>2 DEF vars
  <1> QED
    BY <1>1, <1>2

StoredApart ==
    \A a, b \in Account : a # b => IdsOf(Stored0[a]) \cap IdsOf(Stored0[b]) = {}

LEMMA InitApart ==
    ASSUME StoredApart, Init
    PROVE  Apart
  <1>1. PICK a \in Account :
          /\ page = [rules |-> <<>>, account |-> a, loaded |-> NoAccount, selected |-> {},
                     busy |-> TRUE, auth |-> FALSE, screen |-> "loading", draft |-> NoDraft,
                     whole |-> FALSE]
          /\ flows = [s \in Slot |-> IF s = 1 THEN [ListFlow EXCEPT !.account = a] ELSE NoFlow]
    BY ZenonT(30) DEF Init
  <1> DEFINE f == [ListFlow EXCEPT !.account = a]
             r == <<>>
  <1>2. f.op = "reload" /\ f.account = a /\ f.answer = NoAnswer /\ FlowIds(f) = {}
    BY ListFlowIs
  <1>3. flows = [s \in Slot |-> IF s = 1 THEN f ELSE NoFlow]
    BY <1>1
  <1>4. /\ page.account = a /\ page.screen = "loading" /\ page.draft = NoDraft
        /\ page.rules = r /\ DOMAIN r = {}
    BY <1>1
  <1> HIDE DEF f, r
  <1>5. \A t \in Slot : AtHome(flows[t])
    <2> SUFFICES ASSUME NEW t \in Slot PROVE AtHome(flows[t])
      OBVIOUS
    <2>1. flows[t] = f \/ flows[t] = NoFlow
      BY <1>3
    <2> QED
      BY <1>2, <1>4, <2>1, NoFlowAtHome DEF AtHome
  <1>6. PageIds = {} /\ DraftIds = {}
    BY <1>4 DEF PageIds, DraftIds, Modal
  <1>7. Disjoint
    BY DEF StoredApart, Disjoint, Init
  <1> QED
    BY <1>4, <1>5, <1>6, <1>7 DEF Apart

\* A rule is stored for one account, whatever else overlaps, as long as the accounts start
\* with rules of their own, no message fails, and the user does not switch the account, open
\* a rule or move one while a handler is at work (manager.js reads the selected account anew
\* for every message).
THEOREM AccountsStayApart ==
    ASSUME Patient, StoredApart
    PROVE  Spec => []AccountsApart
  <1>1. Init => (faults = 0 => Apart)
    BY InitApart
  <1>2. PageInv /\ TableInv /\ (faults = 0 => Apart) /\ [Next]_vars => (faults = 0 => Apart)'
    <2> SUFFICES ASSUME PageInv, TableInv, faults = 0 => Apart, [Next]_vars, faults' = 0
                 PROVE  Apart'
      OBVIOUS
    <2>1. Apart
      BY FaultsGrow
    <2>2. CASE Next
      BY <2>1, <2>2, NextApart
    <2>3. CASE UNCHANGED vars
      <3>1. server' = server /\ flows' = flows /\ page' = page
        BY <2>3 DEF vars
      <3>2. PageIds' = PageIds /\ DraftIds' = DraftIds
        BY <3>1 DEF PageIds, DraftIds, Modal
      <3> QED
        BY <2>1, <3>1, <3>2, LooksApart DEF Apart
    <2> QED
      BY <2>2, <2>3
  <1>3. (faults = 0 => Apart) => AccountsApart
    BY DEF Apart, Disjoint, AccountsApart
  <1> QED
    BY <1>1, <1>2, <1>3, PageAndTable, PTL DEF Spec

-----------------------------------------------------------------------------
(***************************************************************************)
(* The order of the rows, as long as the user waits for each answer, new   *)
(* rules go to the end and no row went since the last load.  Then a row    *)
(* has the number of its place, and so has the command of a draft; during  *)
(* a move the stored list agrees with the page outside the rows whose turn *)
(* is still to come, and these are next to each other.                     *)
(***************************************************************************)
InPlace(rows) == \A i \in DOMAIN rows : rows[i].order = i - 1
Alongside(rows, new) ==
    /\ Len(new) = Len(rows)
    /\ \A i \in 1 .. Len(rows) : new[i].rule.id = rows[i].rule.id /\ new[i].order = rows[i].order

LEMMA SortedInPlace ==
    ASSUME NEW rows \in Seq(RowSet), InPlace(rows)
    PROVE  SortedByOrder(rows) = rows
  <1> DEFINE n == Len(rows)
  <1>1. n \in Nat /\ DOMAIN rows = 1 .. n /\ \A i \in 1 .. n : rows[i].order = i - 1
    BY RulesOfRows DEF InPlace
  <1>2. ASSUME NEW i \in 1 .. n PROVE Rank(rows, i) = i
    <2>1. {j \in DOMAIN rows : Before(rows, j, i)} = 1 .. i - 1
      BY <1>1 DEF Before
    <2>2. i \in Int /\ i - 1 \in Int /\ ~(1 > i - 1 + 1)
      BY <1>1
    <2>3. Cardinality(1 .. i - 1) = i - 1
      BY <2>2, FS_Interval
    <2>4. Rank(rows, i) = 1 + Cardinality(1 .. i - 1)
      BY <2>1 DEF Rank
    <2> QED
      BY <2>2, <2>3, <2>4
  <1>3. \A k \in 1 .. n : Ranked(rows, k) = k
    <2> SUFFICES ASSUME NEW k \in 1 .. n PROVE Ranked(rows, k) = k
      OBVIOUS
    <2>1. Ranked(rows, k) \in 1 .. n /\ Rank(rows, Ranked(rows, k)) = k
      BY RankIsTaken
    <2> QED
      BY <1>2, <2>1
  <1>4. SortedByOrder(rows) = [k \in 1 .. n |-> rows[k]]
    BY <1>1, <1>3, SortedAt
  <1>5. [k \in 1 .. n |-> rows[k]] = rows
    BY <1>1
  <1> QED
    BY <1>4, <1>5

\* A numeric order takes a stored rule to its place.
LEMMA EditedAt ==
    ASSUME NEW rules \in Seq(Rules), NEW rule \in Rules, Holds(rules, rule.id),
           NEW order \in 0 .. Len(rules) - 1
    PROVE  /\ Len(Edited(rules, rule, order)) = Len(rules)
           /\ \A k \in 1 .. Len(rules) :
                Edited(rules, rule, order)[k].id
                  = rules[Origin(IndexOf(rules, rule.id), order + 1, k)].id
  <1> DEFINE n == Len(rules)
             i == IndexOf(rules, rule.id)
             to == order + 1
             out == RemoveAt(rules, i)
             new == InsertAt(out, to, rule)
  <1>1. i \in 1 .. n /\ rules[i].id = rule.id
    BY IndexOfHeld
  <1>2. n \in Nat
    BY LenProperties
  <1>3. /\ out \in Seq(Rules) /\ Len(out) = n - 1
        /\ \A j \in 1 .. n - 1 : out[j] = IF j < i THEN rules[j] ELSE rules[j + 1]
    BY <1>1, RemoveAtAt
  <1> HIDE DEF i, out
  <1>4. Edited(rules, rule, order) = new
    <2>1. order # NoOrder
      BY NoOrderAssumption
    <2>2. 0 <= order /\ order <= n - 1
      BY <1>2
    <2>3. Clamp(order, 0, Len(out)) = order
      BY <1>2, <1>3, <2>2 DEF Clamp
    <2>4. 1 + Clamp(order, 0, Len(out)) = to
      BY <2>3
    <2> QED
      BY <2>1, <2>4 DEF Edited, out, i
  <1>5. order \in 0 .. n - 1
    OBVIOUS
  <1> HIDE DEF n
  <1>6. to \in 1 .. n /\ to \in 1 .. Len(out) + 1
    BY <1>2, <1>3, <1>5
  <1> HIDE DEF to
  <1>7. /\ Len(new) = n
        /\ \A j \in 1 .. to - 1 : new[j] = out[j]
        /\ new[to] = rule
        /\ \A j \in to + 1 .. n : new[j] = out[j - 1]
    <2>1. /\ Len(InsertAt(out, to, rule)) = Len(out) + 1
          /\ \A j \in 1 .. to - 1 : InsertAt(out, to, rule)[j] = out[j]
          /\ InsertAt(out, to, rule)[to] = rule
          /\ \A j \in to + 1 .. Len(out) + 1 : InsertAt(out, to, rule)[j] = out[j - 1]
      <3>1. out \in Seq(Rules) /\ to \in 1 .. Len(out) + 1 /\ rule \in Rules
        BY <1>3, <1>6
      <3> QED
        BY <3>1, InsertAtAt
    <2>2. Len(out) + 1 = n
      BY <1>2, <1>3
    <2> QED
      BY <2>1, <2>2
  <1> HIDE DEF new
  <1>8. ASSUME NEW k \in 1 .. n
        PROVE  new[k].id = rules[Origin(i, to, k)].id
    <2>1. CASE k = to
      BY <1>1, <1>7, <2>1 DEF Origin
    <2>2. CASE k < to
      <3>1. k \in 1 .. to - 1 /\ k \in 1 .. n - 1 /\ k # to
        BY <1>2, <1>6, <2>2
      <3>2. new[k] = IF k < i THEN rules[k] ELSE rules[k + 1]
        BY <1>3, <1>7, <3>1
      <3> QED
        BY <2>2, <3>1, <3>2 DEF Origin
    <2>3. CASE k > to
      <3>1. k \in to + 1 .. n /\ k - 1 \in 1 .. n - 1 /\ k # to /\ ~(k < to) /\ (k - 1) + 1 = k
        BY <1>2, <1>6, <2>3
      <3>2. new[k] = IF k - 1 < i THEN rules[k - 1] ELSE rules[k]
        BY <1>3, <1>7, <3>1
      <3> QED
        BY <3>1, <3>2 DEF Origin
    <2> QED
      BY <1>2, <1>6, <2>1, <2>2, <2>3
  <1> QED
    BY <1>4, <1>7, <1>8 DEF n, i, to

Places(i, to, low, high) == low < high /\ {low, high} = {i, to}
SameOutside(rows, new, low, high) ==
    \A k \in 1 .. Len(rows) : (k < low \/ k > high) => new[k].rule = rows[k].rule
RowsFrom(rows, low, high) == [j \in 1 .. high - low + 1 |-> rows[low + j - 1]]

\* The rows that a move has to send are those between its two places, with their numbers.
LEMMA TouchedRows ==
    ASSUME NEW rows \in Seq(RowSet), InPlace(rows),
           NEW i \in 1 .. Len(rows), NEW to \in 1 .. Len(rows),
           NEW low \in 1 .. Len(rows), NEW high \in 1 .. Len(rows), Places(i, to, low, high),
           NEW moved, moved = Shifted(rows, i, to)
    PROVE  /\ moved \in Seq(RowSet) /\ Len(moved) = Len(rows)
           /\ Touched(moved) = RowsFrom(Numbered(moved), low, high)
           /\ SameOutside(rows, moved, low, high)
  <1> DEFINE n == Len(rows)
             N == Numbered(moved)
             P == {k \in DOMAIN moved : moved[k].order # k - 1}
  <1>1. n \in Nat /\ DOMAIN rows = 1 .. n /\ \A k \in 1 .. n : rows[k].order = k - 1
    BY RulesOfRows DEF InPlace
  <1>2. /\ moved \in Seq(RowSet) /\ Len(moved) = n
        /\ \A k \in 1 .. n : moved[k] = rows[Origin(i, to, k)]
    BY MovedAt
  <1> HIDE DEF n
  <1>3. DOMAIN moved = 1 .. n
    BY <1>2, LenProperties
  <1>4. i \in 1 .. n /\ to \in 1 .. n
    BY DEF n
  <1>5. /\ low \in 1 .. n /\ high \in 1 .. n /\ low < high
        /\ (low = i /\ high = to) \/ (low = to /\ high = i)
    BY DEF n, Places
  <1>6. \A k \in 1 .. n : /\ Origin(i, to, k) \in 1 .. n
                          /\ (k < low \/ k > high) => Origin(i, to, k) = k
                          /\ k \in low .. high => Origin(i, to, k) # k
    <2> SUFFICES ASSUME NEW k \in 1 .. n
                 PROVE  /\ Origin(i, to, k) \in 1 .. n
                        /\ (k < low \/ k > high) => Origin(i, to, k) = k
                        /\ k \in low .. high => Origin(i, to, k) # k
      OBVIOUS
    <2>1. CASE low = i /\ high = to
      BY <1>1, <1>4, <1>5, <2>1 DEF Origin
    <2>2. CASE low = to /\ high = i
      BY <1>1, <1>4, <1>5, <2>2 DEF Origin
    <2> QED
      BY <1>5, <2>1, <2>2
  <1>7. \A k \in 1 .. n : moved[k].order = Origin(i, to, k) - 1
    BY <1>1, <1>2, <1>6
  <1>8. P = low .. high
    <2>1. ASSUME NEW k \in 1 .. n PROVE moved[k].order # k - 1 <=> k \in low .. high
      <3> DEFINE o == Origin(i, to, k)
                 order == moved[k].order
      <3>1. o \in 1 .. n
        BY <1>6
      <3>2. order = o - 1
        BY <1>7
      <3> HIDE DEF o, order
      <3>3. order # k - 1 <=> o # k
        BY <1>1, <3>1, <3>2
      <3>4. k \in low .. high <=> ~(k < low \/ k > high)
        BY <1>1, <1>5
      <3> QED
        BY <1>6, <3>3, <3>4 DEF o, order
    <2>2. low .. high \subseteq 1 .. n
      BY <1>1, <1>5
    <2> QED
      BY <1>3, <2>1, <2>2
  <1>9. Touched(moved) = AtPositions(N, P)
    BY DEF Touched
  <1> HIDE DEF N, P
  <1>10. Cardinality(P) = high - low + 1
    BY <1>5, <1>8, FS_Interval
  <1>11. ASSUME NEW j \in 1 .. high - low + 1
         PROVE  Nth(P, j) = low + j - 1
    <2>1. \A k \in P : {l \in P : l <= k} = low .. k /\ Cardinality(low .. k) = k - low + 1
      <3> SUFFICES ASSUME NEW k \in P
                   PROVE {l \in P : l <= k} = low .. k /\ Cardinality(low .. k) = k - low + 1
        OBVIOUS
      <3>1. k \in low .. high /\ low \in Int /\ k \in Int /\ low <= k
        BY <1>5, <1>8
      <3>2. {l \in P : l <= k} = low .. k
        BY <1>5, <1>8, <3>1
      <3>3. Cardinality(low .. k) = k - low + 1
        <4>1. ~(low > k)
          BY <3>1
        <4> QED
          BY <3>1, <4>1, FS_Interval
      <3> QED
        BY <3>2, <3>3
    <2>2. low + j - 1 \in P
      BY <1>5, <1>8
    <2>3. \A k \in P : Cardinality({l \in P : l <= k}) = j <=> k = low + j - 1
      <3> SUFFICES ASSUME NEW k \in P
                   PROVE  Cardinality({l \in P : l <= k}) = j <=> k = low + j - 1
        OBVIOUS
      <3>1. Cardinality({l \in P : l <= k}) = k - low + 1
        BY <2>1
      <3>2. k \in Int /\ low \in Int /\ j \in Int
        BY <1>5, <1>8
      <3>3. k - low + 1 = j <=> k = low + j - 1
        BY <3>2
      <3> QED
        BY <3>1, <3>3
    <2> QED
      BY <2>2, <2>3 DEF Nth
  <1>12. Touched(moved) = [j \in 1 .. high - low + 1 |-> N[low + j - 1]]
    <2>1. AtPositions(N, P) = [j \in 1 .. Cardinality(P) |-> N[Nth(P, j)]]
      BY AtPositionsAt
    <2> QED
      BY <1>9, <1>10, <1>11, <2>1
  <1>13. \A k \in 1 .. n : (k < low \/ k > high) => moved[k].rule = rows[k].rule
    BY <1>2, <1>6
  <1> QED
    BY <1>2, <1>12, <1>13 DEF n, N, RowsFrom, SameOutside

\* What follows from rows that keep their ids and numbers.
LEMMA AlongsideIs ==
    ASSUME NEW rows \in Seq(RowSet), NEW new \in Seq(RowSet), Alongside(rows, new)
    PROVE  /\ InPlace(rows) => InPlace(new)
           /\ Ids(RulesOf(new)) = Ids(RulesOf(rows))
           /\ DOMAIN new = DOMAIN rows
  <1> DEFINE n == Len(rows)
             R == RulesOf(rows)
             T == RulesOf(new)
  <1>1. /\ n \in Nat /\ DOMAIN rows = 1 .. n /\ DOMAIN R = 1 .. n
        /\ \A i \in 1 .. n : R[i] = rows[i].rule
    BY RulesOfRows
  <1>2. /\ Len(new) = n /\ DOMAIN new = 1 .. n /\ DOMAIN T = 1 .. n
        /\ \A i \in 1 .. n : T[i] = new[i].rule
    BY RulesOfRows DEF Alongside
  <1>3. \A i \in 1 .. n : new[i].rule.id = rows[i].rule.id /\ new[i].order = rows[i].order
    BY DEF Alongside
  <1> HIDE DEF R, T, n
  <1>4. Ids(T) = Ids(R)
    BY <1>1, <1>2, <1>3 DEF Ids
  <1>5. InPlace(rows) => InPlace(new)
    BY <1>1, <1>2, <1>3 DEF InPlace
  <1> QED
    BY <1>1, <1>2, <1>4, <1>5 DEF R, T

Same == Ids(PageRules) = Ids(server[page.account])
Steady ==
    /\ Showing /\ ~page.auth
    /\ \A t \in Slot : flows[t].op \notin {"switch", "reload", "move"}
\* The order of a command or a draft: the place of its row, or behind the last one.
Placed(id, order) ==
    \/ \E i \in DOMAIN page.rules : page.rules[i].rule.id = id /\ order = i - 1
    \/ id \notin PageIds /\ order = Len(page.rules)
Agrees(low, high) ==
    /\ Len(server[page.account]) = Len(page.rules)
    /\ \A i \in DOMAIN page.rules :
          (i < low \/ i > high) => server[page.account][i].id = page.rules[i].rule.id
Turn(row, i) == row.rule.id = page.rules[i].rule.id /\ row.order = i - 1
Window(f, low, high) ==
    /\ low \in DOMAIN page.rules /\ high \in DOMAIN page.rules
    /\ f.cmd.id = page.rules[low].rule.id /\ f.cmd.order = low - 1
    /\ Len(f.rest) = high - low
    /\ \A j \in DOMAIN f.rest : Turn(f.rest[j], low + j)
    /\ Agrees(low, high)
Keeps(f) ==
    /\ f.op = "save" => Placed(f.cmd.id, f.cmd.order)
    /\ f.op = "duplicate" => f.cmd.order = Len(page.rules)
    /\ f.op = "move" /\ Showing => \E low, high \in DOMAIN page.rules : Window(f, low, high)

NumberInv == ~rushed /\ page.whole =>
    /\ InPlace(page.rules)
    /\ Modal => Placed(page.draft.rule.id, page.draft.order)
    /\ \A t \in Slot : Keeps(flows[t])
    /\ Steady => Same

\* Where a password is wanted nothing begins but a load.
AuthInv == ~rushed /\ page.auth =>
    page.screen = "auth" /\ ~Modal /\ \A t \in Slot : flows[t].op \in {"none", "switch"}

(***************************************************************************)
(* Steps that leave the places of the rows alone.                          *)
(***************************************************************************)
LEMMA DraftNumber ==
    ASSUME NumberInv, flows' = flows, server' = server, lost' = lost,
           ~rushed' => ~rushed, page'.rules = page.rules, page'.account = page.account,
           page'.loaded = page.loaded, page'.whole = page.whole, page'.auth = page.auth,
           ~rushed' /\ page.whole /\ Modal' => Placed(page'.draft.rule.id, page'.draft.order)
    PROVE  NumberInv'
  <1> SUFFICES ASSUME ~rushed', page'.whole
               PROVE  /\ InPlace(page'.rules)
                      /\ Modal' => Placed(page.draft.rule.id, page.draft.order)'
                      /\ \A t \in Slot : Keeps(flows[t])'
                      /\ Steady' => Same'
    BY DEF NumberInv
  <1>1. /\ InPlace(page.rules) /\ (\A t \in Slot : Keeps(flows[t])) /\ (Steady => Same)
    BY DEF NumberInv
  <1>2. PageIds' = PageIds /\ PageRules' = PageRules /\ Showing' = Showing
    BY DEF PageIds, PageRules, Showing
  <1>3. Modal' => Placed(page.draft.rule.id, page.draft.order)'
    BY <1>2 DEF Placed
  <1>4. ASSUME NEW t \in Slot PROVE Keeps(flows[t])'
    <2>1. Keeps(flows[t])
      BY <1>1
    <2>2. Placed(flows[t].cmd.id, flows[t].cmd.order) => Placed(flows[t].cmd.id, flows[t].cmd.order)'
      BY <1>2 DEF Placed
    <2>3. ASSUME NEW low, NEW high, Window(flows[t], low, high)
          PROVE  Window(flows[t], low, high)'
      BY <2>3 DEF Window, Turn, Agrees
    <2> QED
      BY <1>2, <2>1, <2>2, <2>3 DEF Keeps
  <1>5. Steady' => Same'
    BY <1>1, <1>2 DEF Steady, Same
  <1> QED
    BY <1>1, <1>3, <1>4, <1>5

LEMMA LooksNumber ==
    ASSUME NumberInv, flows' = flows, server' = server, lost' = lost,
           ~rushed' => ~rushed, page'.rules = page.rules, page'.account = page.account,
           page'.loaded = page.loaded, page'.whole = page.whole, page'.auth = page.auth,
           page'.draft \in {page.draft, NoDraft}
    PROVE  NumberInv'
  <1>1. Modal' => page'.draft = page.draft /\ Modal
    BY DEF Modal
  <1>2. ~rushed' /\ page.whole /\ Modal' => Placed(page'.draft.rule.id, page'.draft.order)
    BY <1>1 DEF NumberInv
  <1> QED
    BY <1>2, DraftNumber

LEMMA StepNumber ==
    ASSUME PageInv, PageInv', NumberInv, ~rushed, Alongside(page.rules, page'.rules),
           page'.whole = page.whole, Modal' => page'.draft = page.draft,
           \A t \in Slot : flows'[t].op \notin {"save", "duplicate", "move"},
           Steady' => /\ Steady /\ page'.account = page.account
                      /\ Ids(server'[page.account]) = Ids(server[page.account])
    PROVE  NumberInv'
  <1> SUFFICES ASSUME page'.whole
               PROVE  /\ InPlace(page'.rules)
                      /\ Modal' => Placed(page.draft.rule.id, page.draft.order)'
                      /\ \A t \in Slot : Keeps(flows[t])'
                      /\ Steady' => Same'
    BY DEF NumberInv
  <1>1. /\ InPlace(page.rules) /\ (Steady => Same)
        /\ Modal => Placed(page.draft.rule.id, page.draft.order)
    BY DEF NumberInv
  <1>2. page.rules \in Seq(RowSet) /\ page'.rules \in Seq(RowSet)
    BY PageFields DEF PageInv, TypeInv, PageType
  <1>3. PageRules = RulesOf(page.rules) /\ PageRules' = RulesOf(page'.rules)
    BY DEF PageRules, RulesOf
  <1>4. /\ InPlace(page'.rules) /\ Ids(PageRules') = Ids(PageRules)
        /\ DOMAIN page'.rules = DOMAIN page.rules
    BY <1>1, <1>2, <1>3, AlongsideIs
  <1>5. /\ Len(page'.rules) = Len(page.rules) /\ DOMAIN page.rules = 1 .. Len(page.rules)
        /\ \A i \in 1 .. Len(page.rules) : page'.rules[i].rule.id = page.rules[i].rule.id
    BY <1>2, LenProperties DEF Alongside
  <1>6. PageIds' = PageIds
    BY <1>4, <1>5 DEF PageIds
  <1>7. Modal' => Placed(page.draft.rule.id, page.draft.order)'
    BY <1>1, <1>4, <1>5, <1>6 DEF Placed, Modal
  <1>8. \A t \in Slot : Keeps(flows[t])'
    BY DEF Keeps
  <1>9. Steady' => Same'
    <2> SUFFICES ASSUME Steady' PROVE Same'
      OBVIOUS
    <2>1. Same /\ page'.account = page.account
          /\ Ids(server'[page.account]) = Ids(server[page.account])
      BY <1>1
    <2> QED
      BY <1>4, <2>1 DEF Same
  <1> QED
    BY <1>4, <1>7, <1>8, <1>9

LEMMA AlongsideSelf ==
    ASSUME NEW rows
    PROVE  Alongside(rows, rows)
  BY DEF Alongside

LEMMA AlongsideSwitched ==
    ASSUME PageInv, NEW ids, NEW id, NEW active \in BOOLEAN
    PROVE  Alongside(page.rules, WithActive(page.rules, ids, id, active))
  <1> DEFINE new == WithActive(page.rules, ids, id, active)
  <1>1. page.rules \in Seq(RowSet)
    BY PageFields DEF PageInv
  <1>2. /\ Len(new) = Len(page.rules)
        /\ \A i \in 1 .. Len(page.rules) :
             new[i].rule.id = page.rules[i].rule.id /\ new[i].order = page.rules[i].order
    BY <1>1, SwitchedRows
  <1> HIDE DEF new
  <1>3. Alongside(page.rules, new)
    BY <1>2 DEF Alongside
  <1> QED
    BY <1>3 DEF new

(***************************************************************************)
(* Where a saved rule goes.                                                *)
(***************************************************************************)
\* The server puts a rule with the number of its place there again.
LEMMA SavedInPlace ==
    ASSUME NEW rules \in Seq(Rules), Unique(rules), NEW cmd \in SaveCmds, cmd.id # NoId,
           NEW i \in 1 .. Len(rules), rules[i].id = cmd.id, cmd.order = i - 1, NEW new
    PROVE  Ids(Saved(rules, cmd, new)) = Ids(rules)
  <1> DEFINE rule == Stored(cmd.id, cmd.draft)
             n == Len(rules)
             saved == Saved(rules, cmd, new)
             order == cmd.order
  <1>1. rule \in Rules /\ rule.id = cmd.id
    BY SavedRowIs
  <1>2. n \in Nat /\ DOMAIN rules = 1 .. n
    BY LenProperties
  <1>3. Holds(rules, cmd.id)
    BY <1>2 DEF Holds
  <1>4. saved = Edited(rules, rule, order)
    BY <1>3 DEF Saved
  <1> HIDE DEF rule
  <1>5. IndexOf(rules, rule.id) = i
    <2>1. IndexOf(rules, rule.id) \in 1 .. n /\ rules[IndexOf(rules, rule.id)].id = rule.id
      BY <1>1, <1>3, IndexOfHeld
    <2> QED
      BY <1>1, <1>2, <2>1 DEF Unique
  <1>6. order \in 0 .. n - 1 /\ order + 1 = i
    BY <1>2
  <1> HIDE DEF order, saved
  <1>7. /\ Len(Edited(rules, rule, order)) = n
        /\ \A k \in 1 .. n : Edited(rules, rule, order)[k].id = rules[Origin(i, i, k)].id
    BY <1>1, <1>3, <1>5, <1>6, EditedAt
  <1>8. \A k \in 1 .. n : Origin(i, i, k) = k
    BY <1>2 DEF Origin
  <1>9. DOMAIN saved = 1 .. n
    <2>1. saved \in Seq(Rules)
      BY NoOrderAssumption, SavedElements, SavedRowIs DEF saved, SaveCmds
    <2> QED
      BY <1>4, <1>7, <2>1, LenProperties
  <1>10. Ids(saved) = Ids(rules)
    BY <1>2, <1>4, <1>7, <1>8, <1>9 DEF Ids
  <1> QED
    BY <1>10 DEF saved

LEMMA IdsOfAppended ==
    ASSUME NEW rules \in Seq(Rules), NEW rule \in Rules
    PROVE  Ids(Append(rules, rule)) = Append(Ids(rules), rule.id)
  <1> DEFINE n == Len(rules)
             new == Append(rules, rule)
             ids == Ids(rules)
             id == rule.id
  <1>1. n \in Nat /\ DOMAIN rules = 1 .. n /\ \A i \in 1 .. n : rules[i] \in Rules
    BY ElementsOf
  <1>2. /\ new \in Seq(Rules) /\ Len(new) = n + 1 /\ new[n + 1] = rule
        /\ \A i \in 1 .. n : new[i] = rules[i]
    BY AppendProperties
  <1>3. ids \in [1 .. n -> Nat] /\ id \in Nat
    BY <1>1, RuleFields DEF Ids
  <1>4. ids \in Seq(Nat) /\ Len(ids) = n /\ \A i \in 1 .. n : ids[i] = rules[i].id
    BY <1>1, <1>3, FunctionIsSeq DEF Ids
  <1> HIDE DEF n, new, ids, id
  <1>5. DOMAIN new = 1 .. n + 1
    BY <1>2, LenProperties
  <1>6. /\ Append(ids, id) \in Seq(Nat) /\ Len(Append(ids, id)) = n + 1
        /\ Append(ids, id)[n + 1] = id /\ \A i \in 1 .. n : Append(ids, id)[i] = ids[i]
    BY <1>3, <1>4, AppendProperties
  <1>7. \A i \in 1 .. n + 1 : new[i].id \in Nat
    BY <1>2, <1>5, ElementsOf, RuleFields
  <1>8. Ids(new) \in [1 .. n + 1 -> Nat] /\ \A i \in 1 .. n + 1 : Ids(new)[i] = new[i].id
    BY <1>5, <1>7 DEF Ids
  <1>9. Ids(new) \in Seq(Nat) /\ Len(Ids(new)) = n + 1
    BY <1>1, <1>8, FunctionIsSeq
  <1>10. \A i \in 1 .. n + 1 : Ids(new)[i] = Append(ids, id)[i]
    <2> SUFFICES ASSUME NEW i \in 1 .. n + 1 PROVE Ids(new)[i] = Append(ids, id)[i]
      OBVIOUS
    <2>1. i \in 1 .. n \/ i = n + 1
      BY <1>1
    <2> QED
      BY <1>2, <1>4, <1>6, <1>8, <2>1 DEF id
  <1>11. Ids(new) = Append(ids, id)
    BY <1>6, <1>9, <1>10, SeqEqual
  <1> QED
    BY <1>11 DEF new, ids, id

\* A rule it does not have goes to the end.
LEMMA SavedLast ==
    ASSUME NEW rules \in Seq(Rules), NEW cmd \in SaveCmds, cmd.id # NoId,
           ~Holds(rules, cmd.id), cmd.order \in Nat, NEW new
    PROVE  Ids(Saved(rules, cmd, new)) = Append(Ids(rules), cmd.id)
  <1> DEFINE rule == Stored(cmd.id, cmd.draft)
  <1>1. rule \in Rules /\ rule.id = cmd.id
    BY SavedRowIs
  <1>2. ~(cmd.order < 0)
    OBVIOUS
  <1>3. Saved(rules, cmd, new) = rules \o <<rule>>
    BY <1>2 DEF Saved, Added
  <1> HIDE DEF rule
  <1>4. rules \o <<rule>> = Append(rules, rule)
    BY <1>1
  <1> QED
    BY <1>1, <1>3, <1>4, IdsOfAppended

\* The page, too, shows a saved rule at its place, or behind the others.
LEMMA ShownInPlace ==
    ASSUME PageInv, InPlace(page.rules), NEW row \in RowSet, NEW i \in DOMAIN page.rules,
           page.rules[i].rule.id = row.rule.id, row.order = i - 1
    PROVE  Alongside(page.rules, Show(row))
  <1> DEFINE rows == page.rules
             n == Len(rows)
             new == ReplaceAt(rows, i, row)
  <1>1. rows \in Seq(RowSet) /\ Unique(PageRules)
    BY FlowsAre
  <1>2. n \in Nat /\ DOMAIN rows = 1 .. n /\ \A k \in 1 .. n : rows[k].order = k - 1
    BY <1>1, RulesOfRows DEF InPlace
  <1>3. row.rule.id \in PageIds
    BY DEF PageIds
  <1>4. PageIndex(row.rule.id) = i
    <2>1. \A k \in DOMAIN page.rules : page.rules[k].rule.id = row.rule.id => k = i
      BY <1>1 DEF Unique, PageRules
    <2> QED
      BY <2>1 DEF PageIndex
  <1>5. Show(row) = SortedByOrder(new)
    BY <1>3, <1>4 DEF Show
  <1>6. /\ new \in Seq(RowSet) /\ Len(new) = n
        /\ \A k \in 1 .. n : new[k] = IF k = i THEN row ELSE rows[k]
    <2>1. i \in 1 .. n
      BY <1>2
    <2> QED
      BY <1>1, <1>2, <2>1, ExceptSeq DEF ReplaceAt
  <1> HIDE DEF new
  <1>7. InPlace(new)
    <2>1. DOMAIN new = 1 .. n
      BY <1>6, LenProperties
    <2> QED
      BY <1>2, <1>6, <2>1 DEF InPlace
  <1>8. SortedByOrder(new) = new
    BY <1>6, <1>7, SortedInPlace
  <1>9. Alongside(rows, new)
    BY <1>2, <1>6 DEF Alongside
  <1> QED
    BY <1>5, <1>8, <1>9

LEMMA AppendedInPlace ==
    ASSUME NEW rows \in Seq(RowSet), InPlace(rows), NEW row \in RowSet, row.order = Len(rows)
    PROVE  InPlace(Append(rows, row)) /\ Append(rows, row) \in Seq(RowSet)
  <1> DEFINE n == Len(rows)
             new == Append(rows, row)
  <1>1. n \in Nat /\ DOMAIN rows = 1 .. n /\ \A k \in 1 .. n : rows[k].order = k - 1
    BY RulesOfRows DEF InPlace
  <1>2. /\ new \in Seq(RowSet) /\ Len(new) = n + 1 /\ new[n + 1] = row
        /\ \A k \in 1 .. n : new[k] = rows[k]
    BY AppendProperties
  <1>3. row.order = n
    OBVIOUS
  <1> HIDE DEF new, n
  <1>4. DOMAIN new = 1 .. n + 1
    BY <1>2, LenProperties
  <1>5. ASSUME NEW k \in 1 .. n + 1 PROVE new[k].order = k - 1
    <2>1. CASE k = n + 1
      BY <1>1, <1>2, <1>3, <2>1
    <2>2. CASE k # n + 1
      <3>1. k \in 1 .. n
        BY <1>1, <2>2
      <3> QED
        BY <1>1, <1>2, <3>1
    <2> QED
      BY <2>1, <2>2
  <1> QED
    BY <1>2, <1>4, <1>5 DEF InPlace, new

LEMMA ShownLast ==
    ASSUME PageInv, InPlace(page.rules), NEW row \in RowSet, row.rule.id \notin PageIds,
           row.order = Len(page.rules)
    PROVE  Show(row) = Append(page.rules, row)
  <1>1. page.rules \in Seq(RowSet)
    BY FlowsAre
  <1>2. Show(row) = SortedByOrder(Append(page.rules, row))
    BY DEF Show
  <1> QED
    BY <1>1, <1>2, AppendedInPlace, SortedInPlace

AgreeOutside(rules, P, low, high) ==
    \A i \in 1 .. Len(P) : (i < low \/ i > high) => rules[i].id = P[i].id

\* The next row of a move goes to its place: what follows it in the list is still to come
\* or agrees already.
LEMMA SavedInWindow ==
    ASSUME NEW rules \in Seq(Rules), Unique(rules), NEW P \in Seq(Rules), Unique(P),
           Len(P) = Len(rules), NEW cmd \in SaveCmds, cmd.id # NoId, Holds(rules, cmd.id),
           NEW low \in 1 .. Len(rules), NEW high \in 1 .. Len(rules), low <= high,
           AgreeOutside(rules, P, low, high),
           P[low].id = cmd.id, cmd.order = low - 1, NEW new
    PROVE  /\ Saved(rules, cmd, new) \in Seq(Rules) /\ Len(Saved(rules, cmd, new)) = Len(rules)
           /\ AgreeOutside(Saved(rules, cmd, new), P, low + 1, high)
  <1> DEFINE rule == Stored(cmd.id, cmd.draft)
             n == Len(rules)
             saved == Saved(rules, cmd, new)
             order == cmd.order
             p == IndexOf(rules, rule.id)
  <1>1. rule \in Rules /\ rule.id = cmd.id
    BY SavedRowIs
  <1>2. /\ n \in Nat /\ DOMAIN rules = 1 .. n /\ DOMAIN P = 1 .. n
        /\ \A i \in 1 .. n : (i < low \/ i > high) => rules[i].id = P[i].id
    BY LenProperties DEF AgreeOutside
  <1>3. Holds(rules, rule.id)
    BY <1>1
  <1>4. saved = Edited(rules, rule, order)
    BY DEF Saved
  <1>5. saved \in Seq(Rules)
    BY NoOrderAssumption, SavedElements, SavedRowIs DEF SaveCmds
  <1> HIDE DEF rule, saved
  <1>6. p \in 1 .. n /\ rules[p].id = cmd.id
    BY <1>1, <1>3, IndexOfHeld
  <1>7. order \in 0 .. n - 1 /\ order + 1 = low
    BY <1>2
  <1> HIDE DEF order
  <1>8. /\ Len(Edited(rules, rule, order)) = n
        /\ \A k \in 1 .. n : Edited(rules, rule, order)[k].id = rules[Origin(p, low, k)].id
    BY <1>1, <1>3, <1>7, EditedAt
  <1> HIDE DEF p
  <1>9. p >= low /\ p <= high
    <2> SUFFICES ASSUME p < low \/ p > high PROVE FALSE
      BY <1>2, <1>6
    <2>1. P[p].id = P[low].id
      BY <1>2, <1>6
    <2>2. p = low
      BY <1>2, <1>6, <2>1 DEF Unique
    <2> QED
      BY <1>2, <1>6, <2>2
  <1>10. ASSUME NEW i \in 1 .. n, i < low + 1 \/ i > high
         PROVE  saved[i].id = P[i].id
    <2>1. CASE i = low
      <3>1. Origin(p, low, i) = p
        BY <2>1 DEF Origin
      <3> QED
        BY <1>4, <1>6, <1>8, <2>1, <3>1
    <2>2. CASE i # low
      <3>1. Origin(p, low, i) = i /\ (i < low \/ i > high)
        BY <1>2, <1>6, <1>9, <1>10, <2>2 DEF Origin
      <3>2. rules[i].id = P[i].id
        BY <1>2, <3>1
      <3> QED
        BY <1>4, <1>8, <3>1, <3>2
    <2> QED
      BY <2>1, <2>2
  <1>11. Len(saved) = n
    BY <1>4, <1>8
  <1> QED
    BY <1>5, <1>10, <1>11 DEF saved, AgreeOutside

(***************************************************************************)
(* The user's steps.                                                       *)
(***************************************************************************)
\* A handler at work leaves no other, and no draft but the one it saves.
LEMMA AtWorkThen ==
    ASSUME ShowsInv', ~rushed', NEW s \in Slot, flows'[s].op # "none"
    PROVE  /\ \A t \in Slot \ {s} : flows'[t].op = "none"
           /\ flows'[s].op # "save" => ~Modal'
  <1>1. UnderWay(s)'
    BY DEF ShowsInv, AtEase, Idle, UnderWay, Alone
  <1> QED
    BY <1>1 DEF UnderWay, Alone, Going

\* A load, from its first message to its answer.
LEMMA LoadNumbers ==
    ASSUME PageInv, PageInv', ShowsInv', NumberInv, ~rushed, NEW s \in Slot,
           flows'[s].op \in {"reload", "switch"}, page'.rules = page.rules,
           page'.whole = page.whole
    PROVE  NumberInv'
  <1> SUFFICES ASSUME ~rushed' PROVE NumberInv'
    BY DEF NumberInv
  <1>1. ~Modal' /\ \A t \in Slot \ {s} : flows'[t].op = "none"
    BY AtWorkThen
  <1>2. \A t \in Slot : flows'[t].op \notin {"save", "duplicate", "move"}
    BY <1>1
  <1>3. ~Steady'
    BY DEF Steady
  <1> QED
    BY <1>1, <1>2, <1>3, AlongsideSelf, StepNumber

LEMMA LoadAuth ==
    ASSUME ShowsInv', AuthInv, NEW s \in Slot, flows'[s].op \in {"reload", "switch"},
           ~rushed' /\ page'.auth => /\ ~rushed /\ page.auth /\ page'.screen = page.screen
                                     /\ flows'[s].op = "switch"
    PROVE  AuthInv'
  <1> SUFFICES ASSUME ~rushed', page'.auth
               PROVE  page'.screen = "auth" /\ ~Modal' /\ \A t \in Slot : flows'[t].op \in {"none", "switch"}
    BY DEF AuthInv
  <1>1. ~Modal' /\ \A t \in Slot \ {s} : flows'[t].op = "none"
    BY AtWorkThen
  <1> QED
    BY <1>1 DEF AuthInv

LEMMA AskedNotRushed ==
    ASSUME NEW op, Asked(op), ~rushed'
    PROVE  /\ ~rushed /\ ~Modal /\ \A t \in Slot : flows[t] = NoFlow
           /\ op = "search" => OnTable
  BY DEF Asked, Calm

LEMMA SelectNumbers ==
    ASSUME PageInv, NumberInv, AuthInv, Select
    PROVE  NumberInv' /\ AuthInv'
  <1>1. page \in PageType
    BY FlowsAre
  <1>2. PICK ids \in SUBSET TableIds \ {{}} : page' = [page EXCEPT !.selected = ids]
    BY DEF Select
  <1>3. /\ page'.rules = page.rules /\ page'.account = page.account
        /\ page'.loaded = page.loaded /\ page'.draft = page.draft /\ page'.whole = page.whole
        /\ page'.auth = page.auth /\ page'.screen = page.screen
    BY <1>1, <1>2 DEF PageType
  <1>4. flows' = flows /\ server' = server /\ lost' = lost /\ rushed' = rushed
    BY DEF Select
  <1>5. NumberInv'
    BY <1>3, <1>4, LooksNumber
  <1> QED
    BY <1>3, <1>4, <1>5 DEF AuthInv, Modal

LEMMA SearchNumbers ==
    ASSUME PageInv, NumberInv, AuthInv, Search
    PROVE  NumberInv' /\ AuthInv'
  <1>1. page \in PageType
    BY FlowsAre
  <1>2. /\ page'.rules = page.rules /\ page'.account = page.account
        /\ page'.loaded = page.loaded /\ page'.draft = page.draft /\ page'.whole = page.whole
        /\ page'.auth = page.auth
    BY <1>1 DEF Search, PageType
  <1>3. flows' = flows /\ server' = server /\ lost' = lost
    BY DEF Search
  <1>4. ~rushed' => ~rushed /\ OnTable
    BY AskedNotRushed DEF Search
  <1>5. NumberInv'
    BY <1>2, <1>3, <1>4, LooksNumber
  <1>6. AuthInv'
    BY <1>2, <1>4 DEF AuthInv, OnTable
  <1> QED
    BY <1>5, <1>6

LEMMA CancelNumbers ==
    ASSUME PageInv, NumberInv, AuthInv, CancelDraft
    PROVE  NumberInv' /\ AuthInv'
  <1>1. page \in PageType
    BY FlowsAre
  <1>2. /\ page'.rules = page.rules /\ page'.account = page.account
        /\ page'.loaded = page.loaded /\ page'.draft = NoDraft /\ page'.whole = page.whole
        /\ page'.auth = page.auth /\ page'.screen = page.screen
    BY <1>1 DEF CancelDraft, PageType
  <1>3. flows' = flows /\ server' = server /\ lost' = lost /\ rushed' = rushed
    BY DEF CancelDraft
  <1>4. NumberInv'
    BY <1>2, <1>3, LooksNumber
  <1> QED
    BY <1>2, <1>3, <1>4 DEF AuthInv, Modal

\* A new rule goes behind the last row.
LEMMA NewNumbers ==
    ASSUME Position = "end", PageInv, NumberInv, AuthInv, New
    PROVE  NumberInv' /\ AuthInv'
  <1>1. page \in PageType
    BY FlowsAre
  <1>2. PICK name \in Names, body \in Bodies :
          page' = [page EXCEPT !.draft =
              Row([id |-> fresh, name |-> name, body |-> body, active |-> TRUE], NextOrderForNew)]
    BY DEF New
  <1> DEFINE row == Row([id |-> fresh, name |-> name, body |-> body, active |-> TRUE], NextOrderForNew)
  <1>3. row.rule.id = fresh /\ row.order = Len(page.rules)
    BY DEF Row, NextOrderForNew
  <1>4. page' = [page EXCEPT !.draft = row]
    BY <1>2
  <1> HIDE DEF row
  <1>5. /\ page'.rules = page.rules /\ page'.account = page.account
        /\ page'.loaded = page.loaded /\ page'.draft = row /\ page'.whole = page.whole
        /\ page'.auth = page.auth /\ page'.screen = page.screen
    BY <1>1, <1>4 DEF PageType
  <1>6. flows' = flows /\ server' = server /\ lost' = lost
    BY DEF New
  <1>7. ~rushed' => ~rushed
    BY AskedNotRushed DEF New
  <1>8. fresh \notin PageIds
    <2>1. fresh \in Nat /\ PageIds \subseteq 1 .. fresh - 1
      BY DEF PageInv, TypeInv, KnownIds, GivenOut
    <2> QED
      BY <2>1
  <1>9. Placed(page'.draft.rule.id, page'.draft.order)
    BY <1>3, <1>5, <1>8 DEF Placed
  <1>10. NumberInv'
    BY <1>5, <1>6, <1>7, <1>9, DraftNumber
  <1>11. ~rushed' => ~page.auth
    BY <1>7 DEF New, Blocked, AuthInv
  <1> QED
    BY <1>5, <1>10, <1>11 DEF AuthInv

\* An edited rule keeps its number.
LEMMA EditNumbers ==
    ASSUME PageInv, NumberInv, AuthInv, Edit
    PROVE  NumberInv' /\ AuthInv'
  <1>1. page \in PageType /\ TypeInv
    BY FlowsAre DEF PageInv
  <1>2. PICK id \in Single, body \in Bodies :
          page' = [page EXCEPT !.draft = [page.rules[PageIndex(id)] EXCEPT !.rule.body = body]]
    BY DEF Edit
  <1>3. id \in PageIds
    BY DEF Single
  <1> DEFINE i == PageIndex(id)
             old == page.rules[i]
             row == [old EXCEPT !.rule.body = body]
  <1>4. i \in DOMAIN page.rules /\ old \in RowSet /\ old.rule.id = id
    BY <1>1, <1>3, PageIndexIs
  <1>5. page' = [page EXCEPT !.draft = row]
    BY <1>2
  <1>6. old = page.rules[i]
    OBVIOUS
  <1> HIDE DEF old, i
  <1>7. row.rule.id = id /\ row.order = old.order
    BY <1>4 DEF RowSet, Rules
  <1> HIDE DEF row
  <1>8. /\ page'.rules = page.rules /\ page'.account = page.account
        /\ page'.loaded = page.loaded /\ page'.draft = row /\ page'.whole = page.whole
        /\ page'.auth = page.auth /\ page'.screen = page.screen
    BY <1>1, <1>5 DEF PageType
  <1>9. flows' = flows /\ server' = server /\ lost' = lost
    BY DEF Edit
  <1>10. ~rushed' => ~rushed
    BY AskedNotRushed DEF Edit
  <1>11. ~rushed' /\ page.whole => Placed(page'.draft.rule.id, page'.draft.order)
    <2> SUFFICES ASSUME ~rushed', page.whole PROVE Placed(page'.draft.rule.id, page'.draft.order)
      OBVIOUS
    <2>1. InPlace(page.rules)
      BY <1>10 DEF NumberInv
    <2>2. row.order = i - 1
      BY <1>4, <1>6, <1>7, <2>1 DEF InPlace
    <2> QED
      BY <1>4, <1>6, <1>7, <1>8, <2>2 DEF Placed
  <1>12. NumberInv'
    BY <1>8, <1>9, <1>10, <1>11, DraftNumber
  <1>13. ~rushed' => ~page.auth
    BY <1>10 DEF Edit, Blocked, Shown, AuthInv
  <1> QED
    BY <1>8, <1>12, <1>13 DEF AuthInv

LEMMA LoadingIs ==
    ASSUME NEW p \in PageType
    PROVE  ~Loading(p).auth
  BY DEF Loading, PageType

LEMMA ReloadNumbers ==
    ASSUME PageInv, PageInv', ShowsInv', NumberInv, AuthInv, NEW s \in Slot, Reload(s)
    PROVE  NumberInv' /\ AuthInv'
  <1> SUFFICES ASSUME ~rushed' PROVE NumberInv' /\ AuthInv'
    BY DEF NumberInv, AuthInv
  <1>1. ~rushed
    BY AskedNotRushed DEF Reload
  <1>2. page'.rules = page.rules /\ page'.whole = page.whole /\ ~page'.auth
    BY FlowsAre, LoadingType, LoadingIs DEF Reload
  <1> DEFINE f == [ListFlow EXCEPT !.account = page.account]
  <1>3. flows' = [flows EXCEPT ![s] = f]
    BY DEF Reload, Send
  <1>4. f.op = "reload"
    BY DEF ListFlow, NoFlow
  <1> HIDE DEF f
  <1>5. flows'[s].op = "reload"
    BY <1>3, <1>4, FlowsAre
  <1> QED
    BY <1>1, <1>2, <1>5, LoadNumbers, LoadAuth

LEMMA RetryNumbers ==
    ASSUME PageInv, PageInv', ShowsInv', NumberInv, AuthInv, NEW s \in Slot, Retry(s)
    PROVE  NumberInv' /\ AuthInv'
  <1> SUFFICES ASSUME ~rushed' PROVE NumberInv' /\ AuthInv'
    BY DEF NumberInv, AuthInv
  <1>1. ~rushed
    BY AskedNotRushed DEF Retry
  <1>2. PICK a \in Account :
          page' = Loading([page EXCEPT !.account = a]) /\ Send(s, ListFlow, a)
    BY DEF Retry
  <1> DEFINE f == [ListFlow EXCEPT !.account = a]
             p == [page EXCEPT !.account = a]
  <1>3. page'.rules = page.rules /\ page'.whole = page.whole /\ ~page'.auth
    <2>1. p \in PageType /\ p.rules = page.rules /\ p.whole = page.whole
      BY FlowsAre DEF PageType
    <2>2. page' = Loading(p)
      BY <1>2
    <2> HIDE DEF p
    <2> QED
      BY <2>1, <2>2, LoadingType, LoadingIs
  <1>4. flows' = [flows EXCEPT ![s] = f]
    BY <1>2 DEF Send
  <1>5. f.op = "reload"
    BY DEF ListFlow, NoFlow
  <1> HIDE DEF f
  <1>6. flows'[s].op = "reload"
    BY <1>4, <1>5, FlowsAre
  <1> QED
    BY <1>1, <1>3, <1>6, LoadNumbers, LoadAuth

LEMMA SwitchAccountNumbers ==
    ASSUME PageInv, PageInv', ShowsInv', NumberInv, AuthInv, NEW s \in Slot, NEW a \in Account,
           SwitchAccount(s, a)
    PROVE  NumberInv' /\ AuthInv'
  <1> SUFFICES ASSUME ~rushed' PROVE NumberInv' /\ AuthInv'
    BY DEF NumberInv, AuthInv
  <1>1. ~rushed
    BY AskedNotRushed DEF SwitchAccount
  <1>2. /\ page'.rules = page.rules /\ page'.whole = page.whole /\ page'.auth = page.auth
        /\ page'.screen = page.screen
    BY FlowsAre DEF SwitchAccount, PageType
  <1>3. flows'[s].op = "switch"
    BY FlowsAre DEF SwitchAccount, NoFlow
  <1> QED
    BY <1>1, <1>2, <1>3, LoadNumbers, LoadAuth

LEMMA SwitchToldNumbers ==
    ASSUME PageInv, PageInv', ShowsInv', NumberInv, AuthInv, NEW s \in Slot, SwitchTold(s)
    PROVE  NumberInv' /\ AuthInv'
  <1> SUFFICES ASSUME ~rushed' PROVE NumberInv' /\ AuthInv'
    BY DEF NumberInv, AuthInv
  <1>1. ~rushed
    BY DEF SwitchTold
  <1>2. page'.rules = page.rules /\ page'.whole = page.whole /\ ~page'.auth
    BY FlowsAre, LoadingType, LoadingIs DEF SwitchTold
  <1> DEFINE f == [ListFlow EXCEPT !.account = page.account]
  <1>3. flows' = [flows EXCEPT ![s] = f]
    BY DEF SwitchTold, Send
  <1>4. f.op = "reload"
    BY DEF ListFlow, NoFlow
  <1> HIDE DEF f
  <1>5. flows'[s].op = "reload"
    BY <1>3, <1>4, FlowsAre
  <1> QED
    BY <1>1, <1>2, <1>5, LoadNumbers, LoadAuth

LEMMA MoveReloadsNumbers ==
    ASSUME PageInv, PageInv', ShowsInv', NumberInv, AuthInv, ~rushed, NEW s \in Slot,
           NEW a \in Account, MoveReloads(s, a)
    PROVE  NumberInv' /\ AuthInv'
  <1> SUFFICES ASSUME ~rushed' PROVE NumberInv' /\ AuthInv'
    BY DEF NumberInv, AuthInv
  <1>2. page'.rules = page.rules /\ page'.whole = page.whole /\ ~page'.auth
    BY FlowsAre, LoadingType, LoadingIs DEF MoveReloads
  <1> DEFINE f == [ListFlow EXCEPT !.account = page.account]
  <1>3. flows' = [flows EXCEPT ![s] = f]
    BY DEF MoveReloads, GoesOn
  <1>4. f.op = "reload"
    BY DEF ListFlow, NoFlow
  <1> HIDE DEF f
  <1>5. flows'[s].op = "reload"
    BY <1>3, <1>4, FlowsAre
  <1> QED
    BY <1>2, <1>5, LoadNumbers, LoadAuth

\* A load that has its answer.
LEMMA AnsweredNumbers ==
    ASSUME PageInv, PageInv', ShowsInv', NumberInv, AuthInv, ~rushed, NEW s \in Slot,
           NEW a \in Account, NEW kind, ListAnswered(s, a) \/ ListFailed(s, a, kind)
    PROVE  NumberInv' /\ AuthInv'
  <1> SUFFICES ASSUME ~rushed' PROVE NumberInv' /\ AuthInv'
    BY DEF NumberInv, AuthInv
  <1>1. /\ flows[s].op = "reload" /\ page' = page
        /\ \E answer : flows' = [flows EXCEPT ![s].answer = answer]
    BY DEF ListAnswered, ListFailed
  <1>2. flows'[s].op = "reload"
    BY <1>1, FlowsAre DEF FlowType
  <1>3. ~page.auth
    BY <1>1 DEF AuthInv
  <1> QED
    BY <1>1, <1>2, <1>3, LoadNumbers, LoadAuth

\* Every row keeps its place when a handler begins with the page as it is.
LEMMA BeginNumbers ==
    ASSUME PageInv, PageInv', ShowsInv, ShowsInv', NumberInv, AuthInv, NEW s \in Slot,
           AtEase, ~rushed, ~page.auth, flows'[s].op \notin {"none", "move", "switch", "reload"},
           Alongside(page.rules, page'.rules), page'.whole = page.whole,
           page'.account = page.account, page'.loaded = page.loaded, page'.auth = page.auth,
           page'.draft = page.draft, server' = server, lost' = lost,
           flows'[s].op = "save" /\ page.whole => Placed(flows'[s].cmd.id, flows'[s].cmd.order),
           flows'[s].op = "duplicate" => flows'[s].cmd.order = Len(page.rules)
    PROVE  NumberInv' /\ AuthInv'
  <1> SUFFICES ASSUME ~rushed' PROVE NumberInv' /\ AuthInv'
    BY DEF NumberInv, AuthInv
  <1>1. \A t \in Slot \ {s} : flows'[t].op = "none"
    BY AtWorkThen
  <1>2. AuthInv'
    BY DEF AuthInv
  <1> SUFFICES ASSUME page'.whole
               PROVE  /\ InPlace(page'.rules)
                      /\ Modal' => Placed(page.draft.rule.id, page.draft.order)'
                      /\ \A t \in Slot : Keeps(flows[t])'
                      /\ Steady' => Same'
    BY <1>2 DEF NumberInv
  <1>4. /\ InPlace(page.rules) /\ (Steady => Same)
        /\ Modal => Placed(page.draft.rule.id, page.draft.order)
    BY DEF NumberInv
  <1>5. page.rules \in Seq(RowSet) /\ page'.rules \in Seq(RowSet)
    BY PageFields DEF PageInv, TypeInv, PageType
  <1>6. PageRules = RulesOf(page.rules) /\ PageRules' = RulesOf(page'.rules)
    BY DEF PageRules, RulesOf
  <1>7. /\ InPlace(page'.rules) /\ Ids(PageRules') = Ids(PageRules)
        /\ DOMAIN page'.rules = DOMAIN page.rules
    BY <1>4, <1>5, <1>6, AlongsideIs
  <1>8. /\ Len(page'.rules) = Len(page.rules) /\ DOMAIN page.rules = 1 .. Len(page.rules)
        /\ \A i \in 1 .. Len(page.rules) : page'.rules[i].rule.id = page.rules[i].rule.id
    BY <1>5, LenProperties DEF Alongside
  <1>9. PageIds' = PageIds
    BY <1>7, <1>8 DEF PageIds
  <1>10. Modal' => Placed(page.draft.rule.id, page.draft.order)'
    BY <1>4, <1>7, <1>8, <1>9 DEF Placed, Modal
  <1>11. flows'[s].op = "save" => Placed(flows[s].cmd.id, flows[s].cmd.order)'
    BY <1>7, <1>8, <1>9 DEF Placed
  <1>12. Keeps(flows[s])'
    BY <1>8, <1>11 DEF Keeps
  <1>13. \A t \in Slot : Keeps(flows[t])'
    BY <1>1, <1>12 DEF Keeps
  <1>14. Steady' => Same'
    <2>1. \A t \in Slot : flows[t].op = "none"
      BY DEF AtEase, Idle
    <2>2. Steady' => Steady
      BY <2>1 DEF Steady, Showing
    <2> QED
      BY <1>4, <1>7, <2>2 DEF Same
  <1> QED
    BY <1>7, <1>10, <1>13, <1>14

\* A handler ends with every row at its place.
LEMMA EndNumbers ==
    ASSUME PageInv, PageInv', NumberInv, AuthInv, ~rushed, NEW s \in Slot,
           flows[s].op \notin {"none", "switch", "reload", "move"},
           \A t \in Slot \ {s} : flows[t].op = "none", Idle',
           Alongside(page.rules, page'.rules), page'.whole = page.whole,
           page'.account = page.account, page'.loaded = page.loaded, page'.auth = page.auth,
           page'.draft = page.draft,
           Showing' => Showing /\ Ids(server'[page.account]) = Ids(server[page.account])
    PROVE  NumberInv' /\ AuthInv'
  <1>1. ~page.auth
    BY DEF AuthInv
  <1>2. Steady' => /\ Steady /\ page'.account = page.account
                   /\ Ids(server'[page.account]) = Ids(server[page.account])
    BY <1>1 DEF Steady
  <1>3. \A t \in Slot : flows'[t].op \notin {"save", "duplicate", "move"}
    BY DEF Idle
  <1>4. NumberInv'
    BY <1>2, <1>3, StepNumber
  <1> QED
    BY <1>1, <1>4 DEF AuthInv

LEMMA SaveNumbers ==
    ASSUME PageInv, PageInv', ShowsInv, ShowsInv', NumberInv, AuthInv, NEW s \in Slot, Save(s)
    PROVE  NumberInv' /\ AuthInv'
  <1> SUFFICES ASSUME ~rushed' PROVE NumberInv' /\ AuthInv'
    BY DEF NumberInv, AuthInv
  <1>1. ~rushed /\ page' = page /\ server' = server /\ lost' = lost /\ Modal
    BY DEF Save
  <1>2. AtEase
    BY <1>1 DEF Save, ShowsInv, UnderWay, Going
  <1>3. ~page.auth
    BY <1>1 DEF AuthInv
  <1> DEFINE cmd == SaveCmd(page.draft)
  <1>4. /\ flows'[s].op = "save" /\ flows'[s].cmd = cmd
    BY FlowsAre DEF Save, Send, NoFlow
  <1>5. cmd.id = page.draft.rule.id /\ cmd.order = page.draft.order
    BY DEF SaveCmd
  <1>6. page.whole => Placed(page.draft.rule.id, page.draft.order)
    BY <1>1 DEF NumberInv
  <1> QED
    BY <1>1, <1>2, <1>3, <1>4, <1>5, <1>6, AlongsideSelf, BeginNumbers

LEMMA DuplicateNumbers ==
    ASSUME Position = "end", "duplicate" \notin Overlap,
           PageInv, PageInv', ShowsInv, ShowsInv', NumberInv, AuthInv, NEW s \in Slot, Duplicate(s)
    PROVE  NumberInv' /\ AuthInv'
  <1> SUFFICES ASSUME ~rushed' PROVE NumberInv' /\ AuthInv'
    BY DEF NumberInv, AuthInv
  <1>1. AtEase /\ ~rushed
    BY AskedAtEase DEF Duplicate
  <1>2. /\ page'.rules = page.rules /\ page'.account = page.account /\ page'.loaded = page.loaded
        /\ page'.draft = page.draft /\ page'.whole = page.whole /\ page'.auth = page.auth
        /\ server' = server /\ lost' = lost
    BY FlowsAre DEF Duplicate, PageType
  <1>3. PICK id : Send(s, [NoFlow EXCEPT !.op = "duplicate",
                     !.cmd = SaveCmd(Row([page.rules[PageIndex(id)].rule EXCEPT !.id = fresh],
                                         NextOrderForNew))],
               page.account)
    BY ZenonT(30) DEF Duplicate
  <1> DEFINE cmd == SaveCmd(Row([page.rules[PageIndex(id)].rule EXCEPT !.id = fresh],
                                NextOrderForNew))
  <1>4. cmd.order = Len(page.rules)
    BY DEF SaveCmd, Row, NextOrderForNew
  <1>5. Send(s, [NoFlow EXCEPT !.op = "duplicate", !.cmd = cmd], page.account)
    BY <1>3
  <1> HIDE DEF cmd
  <1>6. flows'[s].op = "duplicate" /\ flows'[s].cmd = cmd
    BY <1>5, FlowsAre DEF Send, NoFlow
  <1>7. ~page.auth
    BY DEF Duplicate, Blocked
  <1> QED
    BY <1>1, <1>2, <1>4, <1>6, <1>7, AlongsideSelf, BeginNumbers

LEMMA DeleteNumbers ==
    ASSUME PageInv, PageInv', ShowsInv, ShowsInv', NumberInv, AuthInv, NEW s \in Slot, Delete(s)
    PROVE  NumberInv' /\ AuthInv'
  <1> SUFFICES ASSUME ~rushed' PROVE NumberInv' /\ AuthInv'
    BY DEF NumberInv, AuthInv
  <1>1. AtEase /\ ~rushed
    BY AskedAtEase DEF Delete
  <1>2. /\ page'.rules = page.rules /\ page'.account = page.account /\ page'.loaded = page.loaded
        /\ page'.draft = page.draft /\ page'.whole = page.whole /\ page'.auth = page.auth
        /\ server' = server /\ lost' = lost
    BY FlowsAre DEF Delete, PageType
  <1> DEFINE targets == AtPositions(page.rules,
                          {i \in DOMAIN page.rules : page.rules[i].rule.id \in page.selected})
             f == [DeleteTurn([NoFlow EXCEPT !.op = "delete", !.rest = targets])
                     EXCEPT !.account = page.account]
  <1>3. flows' = [flows EXCEPT ![s] = f]
    <2>1. Send(s, DeleteTurn([NoFlow EXCEPT !.op = "delete", !.rest = targets]), page.account)
      BY DEF Delete
    <2> HIDE DEF targets
    <2> QED
      BY <2>1 DEF Send
  <1>4. f.op = "delete"
    <2> HIDE DEF targets
    <2> QED
      BY DEF NoFlow, DeleteTurn
  <1> HIDE DEF f
  <1>5. flows'[s].op = "delete"
    BY <1>3, <1>4, FlowsAre
  <1>6. ~page.auth
    BY <1>1 DEF Delete, Blocked, Shown, AuthInv
  <1> QED
    BY <1>1, <1>2, <1>5, <1>6, AlongsideSelf, BeginNumbers

LEMMA ToggleNumbers ==
    ASSUME PageInv, PageInv', ShowsInv, ShowsInv', NumberInv, AuthInv, NEW s \in Slot,
           NEW id \in TableIds, Toggle(s, id)
    PROVE  NumberInv' /\ AuthInv'
  <1> SUFFICES ASSUME ~rushed' PROVE NumberInv' /\ AuthInv'
    BY DEF NumberInv, AuthInv
  <1> DEFINE rule == table.rows[TableIndex(id)].rule
             active == ~rule.active
             cmd == [op |-> "setRuleActive", id |-> id, active |-> active]
             gs == SetActive(flows, id, active)
             f == [NoFlow EXCEPT !.op = "toggle", !.account = page.account, !.tied = {id},
                                 !.cmd = cmd]
  <1>1. AtEase /\ ~rushed
    BY AskedAtEase DEF Toggle
  <1>2. /\ page' = [page EXCEPT !.rules = WithActive(@, {id}, id, active)]
        /\ flows' = [gs EXCEPT ![s] = f]
        /\ UNCHANGED <<server, lost>>
    BY DEF Toggle
  <1>3. f.op = "toggle"
    <2> HIDE DEF cmd
    <2> QED
      BY DEF NoFlow
  <1>4. DOMAIN gs = Slot
    BY DEF SetActive
  <1>5. active \in BOOLEAN
    OBVIOUS
  <1> HIDE DEF f, gs, active
  <1>6. flows'[s].op = "toggle"
    BY <1>2, <1>3, <1>4
  <1>7. /\ page'.rules = WithActive(page.rules, {id}, id, active) /\ page'.draft = page.draft
        /\ page'.account = page.account /\ page'.loaded = page.loaded
        /\ page'.whole = page.whole /\ page'.auth = page.auth
    BY <1>2, FlowsAre DEF PageType
  <1>8. Alongside(page.rules, page'.rules)
    <2> DEFINE ids == {id}
    <2> HIDE DEF ids
    <2>1. Alongside(page.rules, WithActive(page.rules, ids, id, active))
      BY <1>5, AlongsideSwitched
    <2> QED
      BY <1>7, <2>1 DEF ids
  <1>9. ~page.auth
    BY <1>1 DEF Toggle, Shown, AuthInv
  <1> QED
    BY <1>1, <1>2, <1>6, <1>7, <1>8, <1>9, BeginNumbers

\* A move: the rows between its two places are to be sent, the first at once.
LEMMA MoveNumbers ==
    ASSUME PageInv, PageInv', ShowsInv, ShowsInv', NumberInv, AuthInv, NEW s \in Slot, Move(s)
    PROVE  NumberInv' /\ AuthInv'
  <1> SUFFICES ASSUME ~rushed' PROVE NumberInv' /\ AuthInv'
    BY DEF NumberInv, AuthInv
  <1>1. AtEase /\ ~rushed /\ ~Modal
    BY AskedAtEase DEF Move
  <1>2. /\ page \in PageType /\ page.rules \in Seq(RowSet) /\ flows \in [Slot -> FlowType]
        /\ server[page.account] \in Seq(Rules)
    BY FlowsAre
  <1>3. server' = server /\ lost' = lost /\ ~page.auth
    BY DEF Move, Blocked
  <1>4. PICK new \in Seq(RowSet), touched \in Seq(RowSet) : MovesTo(s, new, touched)
    BY MoveIs
  <1>5. /\ page'.rules = new /\ page'.draft = page.draft /\ page'.whole = page.whole
        /\ page'.account = page.account /\ page'.loaded = page.loaded /\ page'.auth = page.auth
    BY <1>2, <1>4 DEF MovesTo, PageType
  <1>6. AuthInv'
    BY <1>3, <1>5 DEF AuthInv
  <1> SUFFICES ASSUME page'.whole
               PROVE  /\ InPlace(page'.rules)
                      /\ Modal' => Placed(page.draft.rule.id, page.draft.order)'
                      /\ \A t \in Slot : Keeps(flows[t])'
                      /\ Steady' => Same'
    BY <1>6 DEF NumberInv
  <1>7. InPlace(page.rules) /\ (Steady => Same)
    BY <1>1, <1>5 DEF NumberInv
  <1>8. ~Modal'
    BY <1>1, <1>5 DEF Modal
  <1>9. PICK i \in 1 .. Len(page.rules), to \in 1 .. Len(page.rules) :
          /\ i # to /\ new = Numbered(Shifted(page.rules, i, to))
          /\ touched = Touched(Shifted(page.rules, i, to))
    BY <1>4 DEF MovesTo, Shifts
  <1> DEFINE rows == page.rules
             n == Len(rows)
             moved == Shifted(rows, i, to)
             low == IF i < to THEN i ELSE to
             high == IF i < to THEN to ELSE i
             rest == Tail(touched)
             cmd == SaveCmd(Head(touched))
  <1>10. n \in Nat /\ low \in 1 .. n /\ high \in 1 .. n /\ low < high
    <2>1. n \in Nat
      BY <1>2, LenProperties
    <2> QED
      BY <1>9, <2>1
  <1>11. /\ moved \in Seq(RowSet) /\ Len(moved) = n
         /\ Touched(moved) = [j \in 1 .. high - low + 1 |-> Numbered(moved)[low + j - 1]]
         /\ \A k \in 1 .. n : (k < low \/ k > high) => moved[k].rule = rows[k].rule
    <2>1. Places(i, to, low, high) /\ moved = Shifted(rows, i, to)
      BY <1>9, <1>10 DEF Places
    <2>2. /\ rows \in Seq(RowSet) /\ InPlace(rows) /\ i # to
          /\ i \in 1 .. Len(rows) /\ to \in 1 .. Len(rows)
      BY <1>2, <1>7, <1>9
    <2>3. low \in 1 .. Len(rows) /\ high \in 1 .. Len(rows)
      BY <1>10
    <2> HIDE DEF moved, low, high, rows, n
    <2>4. /\ moved \in Seq(RowSet) /\ Len(moved) = Len(rows)
          /\ Touched(moved) = RowsFrom(Numbered(moved), low, high)
          /\ SameOutside(rows, moved, low, high)
      BY <2>1, <2>2, <2>3, TouchedRows
    <2> QED
      BY <2>4 DEF n, RowsFrom, SameOutside
  <1>12. new = Numbered(moved) /\ touched = Touched(moved)
    BY <1>9
  <1> HIDE DEF moved
  <1>13. /\ Len(new) = n
         /\ \A k \in 1 .. n : new[k].rule = moved[k].rule /\ new[k].order = k - 1
    BY <1>11, <1>12, NumberedRows
  <1>14. DOMAIN new = 1 .. n /\ DOMAIN rows = 1 .. n
    BY <1>2, <1>13, LenProperties
  <1> HIDE DEF n, low, high
  <1>15. InPlace(page'.rules)
    BY <1>5, <1>13, <1>14 DEF InPlace
  <1>16. /\ touched # <<>> /\ Head(touched) = new[low] /\ Len(rest) = high - low
         /\ DOMAIN rest = 1 .. high - low
         /\ \A j \in 1 .. high - low : rest[j] = new[low + j]
    <2>1. touched = [j \in 1 .. high - low + 1 |-> new[low + j - 1]]
      BY <1>11, <1>12
    <2>2. high - low + 1 \in Nat /\ high - low \in Nat /\ high - low + 1 > 1
      BY <1>10
    <2>3. Len(touched) = high - low + 1 /\ touched # <<>>
      <3>1. DOMAIN touched = 1 .. high - low + 1
        BY <2>1
      <3>2. DOMAIN touched = 1 .. Len(touched) /\ Len(touched) \in Nat
        BY LenProperties
      <3>3. Len(touched) = high - low + 1
        BY <2>2, <3>1, <3>2
      <3>4. touched = <<>> => Len(touched) = 0
        OBVIOUS
      <3> QED
        BY <2>2, <3>3, <3>4
    <2>4. /\ Head(touched) = touched[1] /\ rest \in Seq(RowSet) /\ Len(rest) = Len(touched) - 1
          /\ \A k \in 1 .. Len(rest) : rest[k] = touched[k + 1]
      BY <2>3, HeadTailProperties
    <2> HIDE DEF rest
    <2>5. Len(rest) = high - low /\ DOMAIN rest = 1 .. high - low
      BY <2>2, <2>3, <2>4, LenProperties
    <2>6. Head(touched) = new[low]
      <3>1. 1 \in 1 .. high - low + 1 /\ low + 1 - 1 = low
        BY <1>10
      <3> QED
        BY <2>1, <2>4, <3>1
    <2>7. ASSUME NEW j \in 1 .. high - low PROVE rest[j] = new[low + j]
      <3>1. j + 1 \in 1 .. high - low + 1 /\ low + (j + 1) - 1 = low + j
        BY <1>10
      <3>2. rest[j] = touched[j + 1]
        BY <2>4, <2>5
      <3> QED
        BY <2>1, <3>1, <3>2
    <2> QED
      BY <2>3, <2>5, <2>6, <2>7
  <1>17. flows' = [flows EXCEPT ![s] = Flow("move", page.account, cmd, rest, PageIds)]
    BY <1>4, <1>16 DEF MovesTo
  <1> DEFINE f == Flow("move", page.account, cmd, rest, PageIds)
  <1>18. f.op = "move" /\ f.cmd = cmd /\ f.rest = rest
    BY DEF Flow
  <1>19. cmd.id = new[low].rule.id /\ cmd.order = low - 1
    <2>1. cmd.id = Head(touched).rule.id /\ cmd.order = Head(touched).order
      BY DEF SaveCmd
    <2> QED
      BY <1>10, <1>13, <1>16, <2>1
  <1> HIDE DEF f, cmd, rest, rows
  <1>20. flows'[s] = f /\ \A t \in Slot \ {s} : flows'[t].op = "none"
    BY <1>1, <1>2, <1>17 DEF AtEase, Idle, f
  <1>21. Showing' => Agrees(low, high)'
    <2> SUFFICES ASSUME Showing' PROVE Agrees(low, high)'
      OBVIOUS
    <2>1. Same
      BY <1>1, <1>3, <1>5, <1>7 DEF Steady, Showing, AtEase, Idle
    <2>2. /\ DOMAIN PageRules = 1 .. n /\ \A k \in 1 .. n : PageRules[k] = rows[k].rule
      BY <1>14 DEF PageRules, rows
    <2>3. DOMAIN server[page.account] = 1 .. n
          /\ \A k \in 1 .. n : server[page.account][k].id = rows[k].rule.id
      BY <2>1, <2>2 DEF Same, Ids
    <2>4. Len(server[page.account]) = n
      BY <1>2, <1>10, <2>3, LenProperties
    <2>5. \A k \in 1 .. n : (k < low \/ k > high) =>
             server[page.account][k].id = new[k].rule.id
      BY <1>11, <1>13, <2>3
    <2> QED
      BY <1>3, <1>5, <1>13, <1>14, <2>4, <2>5 DEF Agrees
  <1>22. Showing' => Window(flows[s], low, high)'
    <2>1. DOMAIN page'.rules = 1 .. n /\ page'.rules = new
      BY <1>5, <1>14
    <2>2. \A j \in DOMAIN rest : Turn(rest[j], low + j)'
      <3> SUFFICES ASSUME NEW j \in 1 .. high - low
                   PROVE  Turn(rest[j], low + j)'
        BY <1>16
      <3> DEFINE k == low + j
      <3>1. k \in 1 .. n
        BY <1>10
      <3>2. rest[j] = new[k]
        BY <1>16
      <3>3. new[k].order = k - 1
        BY <1>13, <3>1
      <3> HIDE DEF k
      <3>4. Turn(rest[j], k)'
        BY <2>1, <3>2, <3>3 DEF Turn
      <3> QED
        BY <3>4 DEF k
    <2> QED
      BY <1>10, <1>16, <1>18, <1>19, <1>20, <1>21, <2>1, <2>2 DEF Window
  <1>23. Keeps(flows[s])'
    <2>1. low \in DOMAIN page'.rules /\ high \in DOMAIN page'.rules
      BY <1>5, <1>10, <1>14
    <2> QED
      BY <1>18, <1>20, <1>22, <2>1 DEF Keeps
  <1>24. \A t \in Slot : Keeps(flows[t])'
    BY <1>20, <1>23 DEF Keeps
  <1>25. ~Steady'
    BY <1>18, <1>20 DEF Steady
  <1> QED
    BY <1>8, <1>15, <1>24, <1>25

(***************************************************************************)
(* The answers.                                                            *)
(***************************************************************************)
LEMMA SwitchKeepsIds ==
    ASSUME PageInv, NEW a \in Account, NEW cmd \in SwitchCmds
    PROVE  Ids(Carried(a, cmd)[a]) = Ids(server[a])
  <1> DEFINE new == Switched(server[a], cmd.id, cmd.active)
  <1>1. server \in [Account -> Seq(Rules)] /\ server[a] \in Seq(Rules)
    BY DEF PageInv, TypeInv
  <1>2. cmd.op = "setRuleActive" /\ cmd.active \in BOOLEAN
    BY DEF SwitchCmds
  <1>3. Ids(new) = Ids(server[a])
    <2>1. \A rule \in Rules : [rule EXCEPT !.active = cmd.active].id = rule.id
      BY <1>2, RuleFields
    <2>2. \A i \in DOMAIN server[a] : server[a][i] \in Rules
      BY <1>1, ElementsOf
    <2>3. DOMAIN new = DOMAIN server[a] /\ \A i \in DOMAIN server[a] : new[i].id = server[a][i].id
      BY <2>1, <2>2 DEF Switched
    <2> HIDE DEF new
    <2> QED
      BY <2>3 DEF Ids
  <1>4. Carried(a, cmd) = server \/ Carried(a, cmd) = [server EXCEPT ![a] = new]
    BY <1>2 DEF Carried, NeedsWrite, Updated
  <1> HIDE DEF new
  <1> QED
    BY <1>1, <1>3, <1>4

LEMMA ToggledNumbers ==
    ASSUME PageInv, PageInv', ShowsInv, NumberInv, AuthInv, ~rushed,
           NEW s \in Slot, NEW a \in Account, AtHead(s, a),
           Toggled(s, a), server' = Carried(a, flows[s].cmd), lost' = lost
    PROVE  NumberInv' /\ AuthInv'
  <1> DEFINE cmd == flows[s].cmd
  <1>1. /\ a = page.account /\ flows[s].op = "toggle"
        /\ \A t \in Slot \ {s} : flows[t].op = "none"
    BY ServedAtWork DEF Toggled
  <1>2. cmd \in SwitchCmds /\ flows \in [Slot -> FlowType]
    BY <1>1, FlowsAre DEF Sends
  <1>3. Idle'
    BY <1>1, <1>2, IdleAgain DEF Toggled
  <1>4. page' = page
    BY DEF Toggled
  <1>5. Ids(server'[page.account]) = Ids(server[page.account])
    BY <1>1, <1>2, SwitchKeepsIds
  <1>6. Showing' => Showing
    BY <1>4 DEF Showing
  <1> QED
    BY <1>1, <1>3, <1>4, <1>5, <1>6, AlongsideSelf, EndNumbers

LEMMA ToggleBackNumbers ==
    ASSUME PageInv, PageInv', ShowsInv, NumberInv, AuthInv, ~rushed,
           NEW s \in Slot, NEW a \in Account, AtHead(s, a),
           ToggleBack(s, a), lost' = (lost \/ server' # server)
    PROVE  NumberInv' /\ AuthInv'
  <1> DEFINE cmd == flows[s].cmd
             gs == SetActive(flows, cmd.id, ~cmd.active)
  <1>1. flows[s].op = "toggle" /\ \A t \in Slot \ {s} : flows[t].op = "none"
    BY ServedAtWork DEF ToggleBack
  <1>2. /\ page \in PageType /\ flows \in [Slot -> FlowType]
        /\ \A t \in Slot : Sends(flows[t])
    BY FlowsAre
  <1>3. cmd.active \in BOOLEAN
    BY <1>1, <1>2 DEF Sends, SwitchCmds
  <1>4. gs \in [Slot -> FlowType] /\ \A t \in Slot : gs[t].op = flows[t].op
    <2> DEFINE back == ~cmd.active
    <2>1. back \in BOOLEAN /\ gs = SetActive(flows, cmd.id, back)
      BY <1>3
    <2> HIDE DEF gs, back
    <2> QED
      BY <1>2, <2>1, SetActiveFlows DEF Alike
  <1>5. Ends(s, a, flows) \/ Ends(s, a, gs)
    BY DEF ToggleBack
  <1>6. /\ page'.rules = WithActive(page.rules, flows[s].tied, cmd.id, ~cmd.active)
        /\ page'.account = page.account /\ page'.loaded = page.loaded
        /\ page'.draft = page.draft /\ page'.whole = page.whole /\ page'.auth = page.auth
    BY <1>2 DEF ToggleBack, PageType
  <1> HIDE DEF gs
  <1>7. Idle'
    BY <1>1, <1>2, <1>4, <1>5, IdleAgain
  <1>8. Alongside(page.rules, page'.rules)
    <2> DEFINE back == ~cmd.active
               ids == flows[s].tied
    <2>1. back \in BOOLEAN /\ page'.rules = WithActive(page.rules, ids, cmd.id, back)
      BY <1>6
    <2> HIDE DEF back, ids
    <2> QED
      BY <2>1, AlongsideSwitched
  <1>9. Showing' => Showing /\ Ids(server'[page.account]) = Ids(server[page.account])
    BY <1>6 DEF Showing
  <1> QED
    BY <1>1, <1>6, <1>7, <1>8, <1>9, EndNumbers

LEMMA GivenUpNumbers ==
    ASSUME PageInv, PageInv', ShowsInv, NumberInv, AuthInv, ~rushed,
           NEW s \in Slot, NEW a \in Account, AtHead(s, a),
           GivenUp(s, a), lost' = (lost \/ server' # server)
    PROVE  NumberInv' /\ AuthInv'
  <1>1. flows[s].op \in {"save", "duplicate", "delete"}
        /\ \A t \in Slot \ {s} : flows[t].op = "none"
    BY ServedAtWork DEF GivenUp
  <1>2. page \in PageType /\ flows \in [Slot -> FlowType]
    BY FlowsAre
  <1>3. /\ page'.rules = page.rules /\ page'.account = page.account /\ page'.loaded = page.loaded
        /\ page'.draft = page.draft /\ page'.whole = page.whole /\ page'.auth = page.auth
    BY <1>2 DEF GivenUp, PageType
  <1>4. Idle'
    BY <1>1, <1>2, IdleAgain DEF GivenUp
  <1>5. Showing' => Showing /\ Ids(server'[page.account]) = Ids(server[page.account])
    BY <1>3 DEF Showing
  <1> QED
    BY <1>1, <1>3, <1>4, <1>5, AlongsideSelf, EndNumbers

\* The panel that asks for a password closes the editor, and takes a toggle back.
LEMMA PasswordWantedNumbers ==
    ASSUME PageInv, PageInv', ShowsInv, NumberInv, AuthInv, ~rushed,
           NEW s \in Slot, NEW a \in Account, AtHead(s, a), PasswordWanted(s, a)
    PROVE  NumberInv' /\ AuthInv'
  <1> DEFINE cmd == flows[s].cmd
             rows == WithActive(page.rules, flows[s].tied, cmd.id, ~cmd.active)
             told == IF flows[s].op = "toggle" THEN [page EXCEPT !.rules = rows]
                     ELSE IF flows[s].op = "save" THEN [page EXCEPT !.draft = NoDraft]
                     ELSE [page EXCEPT !.busy = FALSE]
  <1>1. /\ flows[s].op \notin {"none", "switch", "reload"}
        /\ flows[s].op # "save" => ~Modal
        /\ \A t \in Slot \ {s} : flows[t].op = "none"
    BY ServedAtWork DEF PasswordWanted, Going
  <1>2. page \in PageType /\ flows \in [Slot -> FlowType] /\ flows[s] \in FlowType
    BY FlowsAre
  <1>3. page' = LazyAuth(told) /\ Ends(s, a, flows)
    BY DEF PasswordWanted
  <1>4. Idle'
    BY <1>1, <1>2, <1>3, IdleAgain
  <1> HIDE DEF rows
  <1>5. /\ flows[s].op = "toggle" => told.rules = rows
        /\ flows[s].op # "toggle" => told.rules = page.rules
        /\ flows[s].op = "save" => told.draft = NoDraft
        /\ flows[s].op # "save" => told.draft = page.draft
        /\ told.whole = page.whole /\ DOMAIN told = DOMAIN page
    BY <1>2 DEF PageType
  <1>6. DOMAIN page = {"rules", "account", "loaded", "selected", "busy", "auth", "screen",
                       "draft", "whole"}
    BY <1>2 DEF PageType
  <1> HIDE DEF told
  <1>7. /\ page'.draft = told.draft /\ page'.whole = told.whole /\ page'.rules = told.rules
        /\ page'.auth /\ page'.screen = "auth"
    BY <1>3, <1>5, <1>6 DEF LazyAuth
  <1>8. ~Modal'
    BY <1>1, <1>5, <1>7 DEF Modal
  <1>9. Alongside(page.rules, page'.rules)
    <2>1. CASE flows[s].op = "toggle"
      <3>1. cmd.active \in BOOLEAN
        BY <2>1, FlowsAre DEF Sends, SwitchCmds
      <3> DEFINE back == ~cmd.active
                 ids == flows[s].tied
      <3>2. back \in BOOLEAN /\ page'.rules = WithActive(page.rules, ids, cmd.id, back)
        BY <1>5, <1>7, <2>1, <3>1 DEF rows
      <3> HIDE DEF back, ids
      <3> QED
        BY <3>2, AlongsideSwitched
    <2>2. CASE flows[s].op # "toggle"
      BY <1>5, <1>7, <2>2, AlongsideSelf
    <2> QED
      BY <2>1, <2>2
  <1>10. \A t \in Slot : flows'[t].op = "none"
    BY <1>4 DEF Idle
  <1>11. ~Steady'
    BY <1>7 DEF Steady
  <1>12. NumberInv'
    <2>1. \A t \in Slot : flows'[t].op \notin {"save", "duplicate", "move"}
      BY <1>10
    <2> QED
      BY <1>5, <1>7, <1>8, <1>9, <1>11, <2>1, StepNumber
  <1> QED
    BY <1>7, <1>8, <1>10, <1>12 DEF AuthInv

\* A command that stores a rule, at the background.
LEMMA ServedSave ==
    ASSUME PageInv, ShowsInv, AuthInv, ~rushed, NEW s \in Slot, NEW a \in Account, AtHead(s, a),
           flows[s].op \in {"save", "duplicate", "move"}, server' = Carried(a, flows[s].cmd)
    PROVE  /\ a = page.account /\ ~page.auth /\ \A t \in Slot \ {s} : flows[t].op = "none"
           /\ flows[s].cmd \in SaveCmds /\ flows[s].cmd.id # NoId
           /\ server'[a] = Saved(server[a], flows[s].cmd, fresh)
           /\ server[a] \in Seq(Rules) /\ Unique(server[a])
  <1>1. a = page.account /\ \A t \in Slot \ {s} : flows[t].op = "none"
    BY ServedAtWork
  <1>2. flows[s] \in FlowType /\ Sends(flows[s]) /\ FlowIds(flows[s]) \subseteq GivenOut
    BY FlowsAre DEF PageInv, KnownIds
  <1>3. flows[s].cmd \in SaveCmds /\ flows[s].cmd.id \in GivenOut
    BY <1>2 DEF Sends, FlowIds
  <1>4. fresh \in Nat
    BY DEF PageInv, TypeInv
  <1>5. flows[s].cmd.id # NoId
    BY <1>3, <1>4 DEF GivenOut, NoId
  <1> QED
    BY <1>1, <1>3, <1>5, CarriedSave, FlowsAre DEF AuthInv

\* A rule that goes to the end on both sides.
LEMMA AppendedNumbers ==
    ASSUME PageInv, PageInv', NumberInv, ~rushed, page.whole, NEW row \in RowSet,
           row.order = Len(page.rules), row.rule.id \notin PageIds,
           page'.rules = Append(page.rules, row), ~Modal', Idle',
           page'.account = page.account,
           Steady' => /\ Steady
                      /\ Ids(server[page.account]) = Ids(PageRules) =>
                            Ids(server'[page.account]) = Append(Ids(server[page.account]), row.rule.id)
    PROVE  NumberInv'
  <1>1. page.rules \in Seq(RowSet) /\ Unique(PageRules)
    BY FlowsAre
  <1>2. InPlace(page.rules) /\ (Steady => Same)
    BY DEF NumberInv
  <1>3. InPlace(page'.rules)
    BY <1>1, <1>2, AppendedInPlace
  <1>4. PageRules = RulesOf(page.rules) /\ PageRules' = RulesOf(Append(page.rules, row))
    BY DEF PageRules, RulesOf
  <1>5. ~Holds(PageRules, row.rule.id)
    BY DEF Holds, PageRules, PageIds
  <1>6. PageRules' = Append(PageRules, row.rule)
    BY <1>1, <1>4, <1>5, AppendedRows
  <1>7. Ids(PageRules') = Append(Ids(PageRules), row.rule.id)
    <2>1. PageRules \in Seq(Rules) /\ row.rule \in Rules
      BY FlowsAre, RowFields
    <2> QED
      BY <1>6, <2>1, IdsOfAppended
  <1>8. Steady' => Same'
    BY <1>2, <1>7 DEF Same
  <1>9. \A t \in Slot : Keeps(flows[t])'
    BY DEF Keeps, Idle
  <1> QED
    BY <1>3, <1>8, <1>9 DEF NumberInv

\* On a page that shows the stored order, the server holds the ids of the page.
LEMMA SameHeld ==
    ASSUME PageInv, Ids(server[page.account]) = Ids(PageRules)
    PROVE  /\ Len(server[page.account]) = Len(page.rules)
           /\ DOMAIN server[page.account] = DOMAIN page.rules
           /\ \A i \in DOMAIN page.rules : server[page.account][i].id = page.rules[i].rule.id
           /\ \A id : Holds(server[page.account], id) <=> id \in PageIds
  <1>1. page.rules \in Seq(RowSet) /\ server[page.account] \in Seq(Rules)
    BY FlowsAre
  <1>2. /\ DOMAIN server[page.account] = DOMAIN page.rules
        /\ \A i \in DOMAIN page.rules : server[page.account][i].id = page.rules[i].rule.id
    <2>1. DOMAIN PageRules = DOMAIN page.rules
          /\ \A i \in DOMAIN page.rules : PageRules[i] = page.rules[i].rule
      BY DEF PageRules
    <2> QED
      BY <2>1 DEF Ids
  <1>3. Len(server[page.account]) = Len(page.rules)
    BY <1>1, <1>2, LenProperties
  <1>4. \A id : Holds(server[page.account], id) <=> id \in PageIds
    BY <1>2 DEF Holds, PageIds
  <1> QED
    BY <1>2, <1>3, <1>4

LEMMA DraftSavedNumbers ==
    ASSUME PageInv, PageInv', ShowsInv, NumberInv, AuthInv, ~rushed,
           NEW s \in Slot, NEW a \in Account, AtHead(s, a),
           DraftSaved(s, a), server' = Carried(a, flows[s].cmd), lost' = lost, Idle'
    PROVE  NumberInv' /\ AuthInv'
  <1> DEFINE cmd == flows[s].cmd
             row == SavedRow(cmd)
  <1>1. flows[s].op = "save"
    BY DEF DraftSaved
  <1>2. /\ a = page.account /\ ~page.auth /\ \A t \in Slot \ {s} : flows[t].op = "none"
        /\ cmd \in SaveCmds /\ cmd.id # NoId
        /\ server'[a] = Saved(server[a], cmd, fresh)
        /\ server[a] \in Seq(Rules) /\ Unique(server[a])
    BY <1>1, ServedSave
  <1>3. page \in PageType /\ page.rules \in Seq(RowSet)
    BY FlowsAre
  <1>4. page' = [page EXCEPT !.rules = Show(row), !.selected = {row.rule.id},
                             !.draft = NoDraft, !.screen = "table"]
    BY DEF DraftSaved
  <1>5. row \in RowSet /\ row.rule.id = cmd.id /\ row.order = cmd.order
    BY <1>2, SavedRowIs
  <1> HIDE DEF row
  <1>6. /\ page'.rules = Show(row) /\ page'.account = page.account /\ page'.loaded = page.loaded
        /\ page'.whole = page.whole /\ page'.auth = page.auth /\ page'.draft = NoDraft
    BY <1>3, <1>4 DEF PageType
  <1>7. ~Modal' /\ AuthInv'
    BY <1>2, <1>6 DEF Modal, AuthInv
  <1>8. Steady' => Steady
    <2>1. Showing' => Showing
      BY <1>6 DEF Showing
    <2> QED
      BY <1>1, <1>2, <2>1 DEF Steady
  <1> SUFFICES ASSUME page.whole PROVE NumberInv'
    BY <1>6, <1>7 DEF NumberInv
  <1>9. InPlace(page.rules) /\ (Steady => Same) /\ Placed(cmd.id, cmd.order)
    BY <1>1 DEF NumberInv, Keeps
  <1>10. \A t \in Slot : flows'[t].op \notin {"save", "duplicate", "move"}
    BY DEF Idle
  <1> HIDE DEF cmd
  <1>11. ASSUME NEW i \in DOMAIN page.rules, page.rules[i].rule.id = cmd.id, cmd.order = i - 1
         PROVE  NumberInv'
    <2>1. Alongside(page.rules, page'.rules)
      BY <1>5, <1>6, <1>9, <1>11, ShownInPlace
    <2>2. Steady => Ids(server'[page.account]) = Ids(server[page.account])
      <3> SUFFICES ASSUME Steady PROVE Ids(server'[a]) = Ids(server[a])
        BY <1>2
      <3>1. Ids(server[page.account]) = Ids(PageRules)
        BY <1>9 DEF Same
      <3>2. DOMAIN server[a] = DOMAIN page.rules /\ server[a][i].id = cmd.id
        BY <1>2, <1>11, <3>1, SameHeld
      <3>3. i \in 1 .. Len(server[a])
        BY <1>2, <3>2, LenProperties
      <3> QED
        BY <1>2, <1>11, <3>2, <3>3, SavedInPlace
    <2> QED
      BY <1>6, <1>7, <1>8, <1>10, <2>1, <2>2, StepNumber
  <1>12. ASSUME cmd.id \notin PageIds, cmd.order = Len(page.rules)
         PROVE  NumberInv'
    <2>1. page'.rules = Append(page.rules, row)
      BY <1>5, <1>6, <1>9, <1>12, ShownLast
    <2>2. ASSUME Ids(server[page.account]) = Ids(PageRules)
          PROVE  Ids(server'[page.account]) = Append(Ids(server[page.account]), row.rule.id)
      <3>1. ~Holds(server[a], cmd.id)
        BY <1>2, <1>12, <2>2, SameHeld
      <3>2. cmd.order \in Nat
        BY <1>3, <1>12, LenProperties
      <3> QED
        BY <1>2, <1>5, <3>1, <3>2, SavedLast
    <2> QED
      BY <1>5, <1>6, <1>7, <1>8, <1>12, <2>1, <2>2, AppendedNumbers
  <1> QED
    BY <1>9, <1>11, <1>12 DEF Placed

LEMMA DuplicatedNumbers ==
    ASSUME PageInv, PageInv', ShowsInv, NumberInv, AuthInv, ~rushed,
           NEW s \in Slot, NEW a \in Account, AtHead(s, a),
           Duplicated(s, a), server' = Carried(a, flows[s].cmd), lost' = lost
    PROVE  NumberInv' /\ AuthInv'
  <1> DEFINE cmd == flows[s].cmd
             row == SavedRow(cmd)
  <1>1. flows[s].op = "duplicate" /\ ~Modal
    BY ServedAtWork DEF Duplicated, Going
  <1>2. /\ a = page.account /\ ~page.auth /\ \A t \in Slot \ {s} : flows[t].op = "none"
        /\ cmd \in SaveCmds /\ cmd.id # NoId
        /\ server'[a] = Saved(server[a], cmd, fresh)
        /\ server[a] \in Seq(Rules) /\ Unique(server[a])
    BY <1>1, ServedSave
  <1>3. page \in PageType /\ page.rules \in Seq(RowSet) /\ flows \in [Slot -> FlowType]
    BY FlowsAre
  <1>4. page' = [page EXCEPT !.rules = Append(@, row), !.selected = {row.rule.id},
                             !.busy = FALSE, !.screen = "table"]
    BY DEF Duplicated
  <1>5. row \in RowSet /\ row.rule.id = cmd.id /\ row.order = cmd.order
    BY <1>2, SavedRowIs
  <1>6. Idle'
    BY <1>2, <1>3, IdleAgain DEF Duplicated
  <1> HIDE DEF row
  <1>7. /\ page'.rules = Append(page.rules, row) /\ page'.account = page.account
        /\ page'.loaded = page.loaded /\ page'.whole = page.whole /\ page'.auth = page.auth
        /\ page'.draft = page.draft
    BY <1>3, <1>4 DEF PageType
  <1>8. ~Modal' /\ AuthInv'
    BY <1>1, <1>2, <1>7 DEF Modal, AuthInv
  <1>9. Steady' => Steady
    <2>1. Showing' => Showing
      BY <1>7 DEF Showing
    <2> QED
      BY <1>1, <1>2, <2>1 DEF Steady
  <1> SUFFICES ASSUME page.whole PROVE NumberInv'
    BY <1>7, <1>8 DEF NumberInv
  <1>10. cmd.order = Len(page.rules)
    BY <1>1 DEF NumberInv, Keeps
  <1>11. cmd.id \notin StoredIds /\ cmd.id \notin PageIds
    BY <1>1 DEF PageInv, NewIds
  <1> HIDE DEF cmd
  <1>12. Ids(server'[page.account]) = Append(Ids(server[page.account]), row.rule.id)
    <2>1. ~Holds(server[a], cmd.id)
      BY <1>11 DEF StoredIds, IdsOf, Holds
    <2>2. cmd.order \in Nat
      BY <1>3, <1>10, LenProperties
    <2> QED
      BY <1>2, <1>5, <2>1, <2>2, SavedLast
  <1> QED
    BY <1>5, <1>6, <1>7, <1>8, <1>9, <1>10, <1>11, <1>12, AppendedNumbers

\* A row that went leaves its number: nothing is said of the order until the next load.
LEMMA DeletedNumbers ==
    ASSUME PageInv, ShowsInv, AuthInv, ~rushed,
           NEW s \in Slot, NEW a \in Account, AtHead(s, a), Deleted(s, a)
    PROVE  NumberInv' /\ AuthInv'
  <1> DEFINE left == AtPositions(page.rules,
                       {i \in DOMAIN page.rules : page.rules[i].rule.id # flows[s].cmd.id})
             chosen == IF left = <<>> THEN {} ELSE {left[1].rule.id}
             screen == Screen(left)
  <1>1. flows[s].op = "delete" /\ page \in PageType
    BY FlowsAre DEF Deleted
  <1>2. \/ page' = [page EXCEPT !.rules = left, !.whole = FALSE]
        \/ page' = [page EXCEPT !.rules = left, !.whole = FALSE, !.busy = FALSE,
                                !.screen = screen, !.selected = chosen]
    BY ZenonT(30) DEF Deleted
  <1> HIDE DEF left, chosen, screen
  <1>3. ~page'.whole /\ page'.auth = page.auth
    BY <1>1, <1>2 DEF PageType
  <1>4. ~page.auth
    BY <1>1 DEF AuthInv
  <1> QED
    BY <1>3, <1>4 DEF NumberInv, AuthInv

\* The next row of a move is stored at its place.
LEMMA WindowMoves ==
    ASSUME PageInv, ShowsInv, AuthInv, ~rushed, NEW s \in Slot, NEW a \in Account, AtHead(s, a),
           flows[s].op = "move", server' = Carried(a, flows[s].cmd), Showing,
           NEW low \in DOMAIN page.rules, NEW high \in DOMAIN page.rules,
           Window(flows[s], low, high)
    PROVE  /\ low <= high /\ server'[a] \in Seq(Rules) /\ Len(server'[a]) = Len(page.rules)
           /\ \A i \in DOMAIN page.rules :
                (i < low + 1 \/ i > high) => server'[a][i].id = page.rules[i].rule.id
  <1> DEFINE cmd == flows[s].cmd
             n == Len(page.rules)
             rules == server[a]
  <1>1. /\ a = page.account /\ cmd \in SaveCmds /\ cmd.id # NoId
        /\ server'[a] = Saved(rules, cmd, fresh) /\ rules \in Seq(Rules) /\ Unique(rules)
    BY ServedSave
  <1>2. /\ page.rules \in Seq(RowSet) /\ PageRules \in Seq(Rules) /\ Unique(PageRules)
        /\ flows[s] \in FlowType
    BY FlowsAre
  <1>3. n \in Nat /\ DOMAIN page.rules = 1 .. n /\ DOMAIN PageRules = 1 .. n
        /\ Len(PageRules) = n /\ \A i \in 1 .. n : PageRules[i] = page.rules[i].rule
    <2>1. PageRules = RulesOf(page.rules)
      BY DEF PageRules, RulesOf
    <2> QED
      BY <1>2, <2>1, RulesOfRows
  <1>4. low \in 1 .. n /\ high \in 1 .. n
    BY <1>3
  <1>5. /\ cmd.id = page.rules[low].rule.id /\ cmd.order = low - 1
        /\ Len(flows[s].rest) = high - low /\ Agrees(low, high)
    BY DEF Window
  <1>6. low <= high
    <2>1. Len(flows[s].rest) \in Nat
      BY <1>2, LenProperties DEF FlowType
    <2> QED
      BY <1>4, <1>5, <2>1
  <1>7. Len(rules) = n /\ \A i \in 1 .. n : (i < low \/ i > high) => rules[i].id = PageRules[i].id
    BY <1>1, <1>3, <1>5 DEF Agrees
  <1>8. Holds(rules, cmd.id)
    <2>1. PageSet = StoredSet
      BY ServedAtWork DEF Going, Mirror
    <2>2. PageRules[low] \in ToSet(PageRules)
      BY <1>3, <1>4 DEF ToSet
    <2>3. PageRules[low] \in ToSet(rules)
      BY <1>1, <2>1, <2>2 DEF PageSet, StoredSet
    <2>4. PageRules[low].id = cmd.id
      BY <1>3, <1>4, <1>5
    <2> QED
      BY <2>3, <2>4 DEF ToSet, Holds
  <1>9. PageRules[low].id = cmd.id
    BY <1>3, <1>4, <1>5
  <1> HIDE DEF cmd, rules, n
  <1>10. /\ Saved(rules, cmd, fresh) \in Seq(Rules) /\ Len(Saved(rules, cmd, fresh)) = n
         /\ \A i \in 1 .. n :
              (i < low + 1 \/ i > high) => Saved(rules, cmd, fresh)[i].id = PageRules[i].id
    <2> DEFINE P == PageRules
               new == fresh
    <2>1. /\ P \in Seq(Rules) /\ Unique(P) /\ Len(P) = Len(rules)
          /\ low \in 1 .. Len(rules) /\ high \in 1 .. Len(rules)
          /\ AgreeOutside(rules, P, low, high)
          /\ P[low].id = cmd.id /\ cmd.order = low - 1 /\ low <= high
      BY <1>2, <1>3, <1>4, <1>5, <1>6, <1>7, <1>9 DEF AgreeOutside
    <2> HIDE DEF P, new
    <2>2. /\ Saved(rules, cmd, new) \in Seq(Rules) /\ Len(Saved(rules, cmd, new)) = Len(rules)
          /\ AgreeOutside(Saved(rules, cmd, new), P, low + 1, high)
      BY <1>1, <1>8, <2>1, SavedInWindow
    <2> QED
      BY <1>3, <1>7, <2>2 DEF P, new, AgreeOutside
  <1> QED
    BY <1>1, <1>3, <1>6, <1>10 DEF n

LEMMA MovedNumbers ==
    ASSUME PageInv, PageInv', ShowsInv, NumberInv, AuthInv, ~rushed,
           NEW s \in Slot, NEW a \in Account, AtHead(s, a),
           Moved(s, a), server' = Carried(a, flows[s].cmd), lost' = lost
    PROVE  NumberInv' /\ AuthInv'
  <1>1. /\ flows[s].op = "move" /\ ~Modal /\ a = page.account
        /\ \A t \in Slot \ {s} : flows[t].op = "none"
    BY ServedAtWork DEF Moved, Going
  <1>2. /\ page \in PageType /\ flows \in [Slot -> FlowType] /\ page.rules \in Seq(RowSet)
        /\ flows[s] \in FlowType /\ Sends(flows[s])
    BY FlowsAre
  <1>3. /\ page'.rules = page.rules /\ page'.account = page.account /\ page'.whole = page.whole
        /\ page'.loaded = page.loaded /\ page'.draft = page.draft /\ page'.auth = page.auth
    BY <1>2 DEF Moved, PageType
  <1>4. ~page.auth /\ AuthInv'
    BY <1>1, <1>3 DEF AuthInv
  <1>5. ~Modal' /\ (Showing' <=> Showing)
    BY <1>1, <1>3 DEF Modal, Showing
  <1> SUFFICES ASSUME page.whole
               PROVE  (\A t \in Slot : Keeps(flows[t])') /\ (Steady' => Same')
    BY <1>3, <1>4, <1>5 DEF NumberInv
  <1>6. Showing => \E low, high \in DOMAIN page.rules : Window(flows[s], low, high)
    BY <1>1 DEF NumberInv, Keeps
  <1>7. CASE flows[s].rest = <<>>
    <2>1. Idle'
      BY <1>1, <1>2, <1>7, IdleAgain DEF Moved
    <2>2. \A t \in Slot : Keeps(flows[t])'
      BY <2>1 DEF Keeps, Idle
    <2>3. ASSUME Showing PROVE Same'
      <3>1. PICK low \in DOMAIN page.rules, high \in DOMAIN page.rules : Window(flows[s], low, high)
        BY <1>6, <2>3
      <3>2. /\ server'[a] \in Seq(Rules) /\ Len(server'[a]) = Len(page.rules)
            /\ \A i \in DOMAIN page.rules :
                 (i < low + 1 \/ i > high) => server'[a][i].id = page.rules[i].rule.id
        BY <1>1, <2>3, <3>1, WindowMoves
      <3>3. Len(page.rules) \in Nat /\ DOMAIN page.rules = 1 .. Len(page.rules)
        BY <1>2, LenProperties
      <3>4. low = high
        <4>1. Len(flows[s].rest) = 0 /\ Len(flows[s].rest) = high - low
          BY <1>7, <3>1 DEF Window
        <4> QED
          BY <3>3, <4>1
      <3>5. \A i \in DOMAIN page.rules : server'[a][i].id = page.rules[i].rule.id
        <4>1. \A i \in 1 .. Len(page.rules) : i < low + 1 \/ i > low
          BY <3>3
        <4> QED
          BY <3>2, <3>3, <3>4, <4>1
      <3>6. DOMAIN server'[a] = DOMAIN page.rules
        BY <3>2, <3>3, LenProperties
      <3>7. Ids(server'[a]) = Ids(PageRules)
        BY <3>5, <3>6 DEF Ids, PageRules
      <3>8. PageRules' = PageRules
        BY <1>3 DEF PageRules
      <3> QED
        BY <1>1, <1>3, <3>7, <3>8 DEF Same
    <2> QED
      BY <1>5, <2>2, <2>3 DEF Steady
  <1>8. CASE flows[s].rest # <<>>
    <2> DEFINE f == SaveTurn(flows[s])
               rest == flows[s].rest
               next == Tail(rest)
    <2>1. f \in FlowType /\ Sends(f) /\ f.op = "move" /\ f.answer = NoAnswer
      BY <1>1, <1>2, <1>8, SaveTurnIs
    <2>2. f.cmd = SaveCmd(Head(rest)) /\ f.rest = next
      BY <1>2 DEF SaveTurn, FlowType
    <2>3. GoesOn(s, a, f)
      BY <1>8 DEF Moved
    <2> HIDE DEF f
    <2>4. /\ flows'[s].op = "move" /\ flows'[s].cmd = f.cmd /\ flows'[s].rest = f.rest
          /\ \A t \in Slot \ {s} : flows'[t] = flows[t]
      <3>1. f.op \notin {"none", "switch"} /\ TypeInv /\ Queued
        BY <2>1 DEF PageInv
      <3> QED
        BY <2>1, <2>3, <3>1, WentOn, ZenonT(90)
    <2>5. ~Steady'
      BY <2>4 DEF Steady
    <2>6. /\ f.cmd.id = Head(rest).rule.id /\ f.cmd.order = Head(rest).order
      BY <2>2 DEF SaveCmd
    <2>7. /\ rest \in Seq(RowSet) /\ Len(rest) \in Nat /\ DOMAIN rest = 1 .. Len(rest)
          /\ Len(rest) >= 1 /\ Head(rest) = rest[1]
          /\ next \in Seq(RowSet) /\ Len(next) = Len(rest) - 1 /\ DOMAIN next = 1 .. Len(rest) - 1
          /\ \A j \in 1 .. Len(rest) - 1 : next[j] = rest[j + 1]
      <3>1. rest \in Seq(RowSet)
        BY <1>2 DEF FlowType
      <3> HIDE DEF rest
      <3>2. rest # <<>>
        BY <1>8 DEF rest
      <3>3. /\ next \in Seq(RowSet) /\ Len(next) = Len(rest) - 1 /\ Head(rest) = rest[1]
            /\ \A j \in 1 .. Len(next) : next[j] = rest[j + 1]
        BY <3>1, <3>2, HeadTailProperties
      <3>4. Len(rest) \in Nat /\ DOMAIN rest = 1 .. Len(rest) /\ Len(rest) >= 1
        BY <3>1, <3>2, LenProperties, EmptySeq
      <3> HIDE DEF next
      <3>5. DOMAIN next = 1 .. Len(rest) - 1
        BY <3>3, LenProperties
      <3> QED
        BY <3>1, <3>3, <3>4, <3>5
    <2>8. ASSUME Showing
          PROVE  \E low, high \in DOMAIN page.rules : Window(flows[s], low, high)'
      <3>1. PICK low \in DOMAIN page.rules, high \in DOMAIN page.rules : Window(flows[s], low, high)
        BY <1>6, <2>8
      <3>2. /\ Len(server'[a]) = Len(page.rules)
            /\ \A i \in DOMAIN page.rules :
                 (i < low + 1 \/ i > high) => server'[a][i].id = page.rules[i].rule.id
        BY <1>1, <2>8, <3>1, WindowMoves
      <3>3. Len(page.rules) \in Nat /\ DOMAIN page.rules = 1 .. Len(page.rules)
        BY <1>2, LenProperties
      <3>4. /\ Len(rest) = high - low
            /\ \A j \in DOMAIN rest : Turn(rest[j], low + j)
        BY <3>1 DEF Window
      <3> HIDE DEF rest, next
      <3> DEFINE k == low + 1
      <3>5. low \in Int /\ high \in Int /\ k \in DOMAIN page.rules /\ k <= high
        <4>1. low \in 1 .. Len(page.rules) /\ high \in 1 .. Len(page.rules)
          BY <3>3
        <4>2. high - low >= 1
          BY <2>7, <3>4
        <4>3. low \in Int /\ high \in Int /\ k \in 1 .. Len(page.rules) /\ k <= high
          BY <3>3, <4>1, <4>2
        <4> QED
          BY <3>3, <4>3
      <3>6. Turn(Head(rest), k)
        BY <2>7, <3>4
      <3>7. Len(next) = high - k
        BY <2>7, <3>4, <3>5
      <3>8. \A j \in DOMAIN next : Turn(next[j], k + j)
        <4> SUFFICES ASSUME NEW j \in 1 .. Len(rest) - 1 PROVE Turn(next[j], k + j)
          BY <2>7
        <4>1. j + 1 \in DOMAIN rest /\ low + (j + 1) = k + j
          BY <2>7, <3>5
        <4>2. Turn(rest[j + 1], low + (j + 1))
          BY <3>4, <4>1
        <4>3. next[j] = rest[j + 1]
          BY <2>7
        <4> QED
          BY <4>1, <4>2, <4>3
      <3>9. Agrees(k, high)'
        BY <1>1, <1>3, <3>2 DEF Agrees
      <3> HIDE DEF k
      <3>10. flows'[s].cmd.id = page'.rules[k].rule.id /\ flows'[s].cmd.order = k - 1
        BY <1>3, <2>4, <2>6, <3>6 DEF Turn
      <3>11. \A j \in DOMAIN flows'[s].rest : Turn(flows[s].rest[j], k + j)'
        BY <1>3, <2>2, <2>4, <3>8 DEF Turn
      <3>12. Len(flows'[s].rest) = high - k
        BY <2>2, <2>4, <3>7
      <3>13. Window(flows[s], k, high)'
        BY <1>3, <3>5, <3>9, <3>10, <3>11, <3>12 DEF Window
      <3> QED
        BY <1>3, <3>5, <3>13
    <2>9. Keeps(flows[s])'
      BY <1>3, <1>5, <2>4, <2>8 DEF Keeps
    <2>10. \A t \in Slot : Keeps(flows[t])'
      BY <1>1, <2>4, <2>9 DEF Keeps
    <2> QED
      BY <2>5, <2>10
  <1> QED
    BY <1>7, <1>8

LEMMA ShowListNumbers ==
    ASSUME PageInv, PageInv', ShowsInv, NumberInv, AuthInv, NEW s \in Slot, ShowList(s)
    PROVE  NumberInv' /\ AuthInv'
  <1> SUFFICES ASSUME ~rushed' PROVE NumberInv' /\ AuthInv'
    BY DEF NumberInv, AuthInv
  <1> DEFINE rules == flows[s].answer.rules
             a == page.account
  <1>1. /\ ~rushed /\ flows[s].op = "reload" /\ server' = server /\ lost' = lost
    BY DEF ShowList
  <1>2. /\ Going(flows[s]) /\ ~Modal /\ ~page.auth
        /\ \A t \in Slot \ {s} : flows[t].op = "none"
    BY <1>1, AtWork DEF UnderWay, Alone, Going, AuthInv
  <1>3. page \in PageType /\ flows \in [Slot -> FlowType] /\ a \in Account /\ server[a] \in Seq(Rules)
    BY FlowsAre
  <1>4. NoFlow.op = "none"
    BY NoFlowIs
  <1>5. CASE flows[s].answer.kind # "list"
    <2>1. /\ page' \in {LazyAuth([page EXCEPT !.busy = FALSE, !.loaded = NoAccount]),
                        [page EXCEPT !.busy = FALSE, !.loaded = NoAccount, !.screen = "error"]}
          /\ flows' = [flows EXCEPT ![s] = NoFlow]
      BY <1>5 DEF ShowList
    <2>2. /\ page'.loaded = NoAccount /\ page'.account = a /\ page'.rules = page.rules
          /\ page'.whole = page.whole /\ page'.draft = page.draft
          /\ page'.auth => page'.screen = "auth"
      BY <1>2, <1>3, <2>1 DEF LazyAuth, PageType
    <2>3. ~Steady' /\ ~Modal'
      BY <1>2, <1>3, <2>2, ManagerAssumption DEF Steady, Showing, Modal
    <2>4. \A t \in Slot : flows'[t].op = "none"
      BY <1>2, <1>3, <1>4, <2>1
    <2>5. \A t \in Slot : flows'[t].op \notin {"save", "duplicate", "move"}
      BY <2>4
    <2>6. NumberInv'
      BY <1>1, <2>2, <2>3, <2>5, AlongsideSelf, StepNumber
    <2> QED
      BY <2>2, <2>3, <2>4, <2>6 DEF AuthInv
  <1>6. CASE flows[s].answer.kind = "list"
    <2>1. rules = server[a]
      BY <1>1, <1>2, <1>6 DEF Going
    <2>2. /\ page' = [page EXCEPT !.rules = Listed(rules), !.loaded = flows[s].account,
                        !.whole = TRUE, !.busy = FALSE, !.screen = Screen(rules),
                        !.selected = IF @ = {} /\ rules # <<>> THEN {rules[1].id} ELSE @]
          /\ flows' = [t \in Slot |->
                        IF t = s THEN NoFlow ELSE [flows[t] EXCEPT !.tied = {}]]
      BY <1>6 DEF ShowList
    <2> HIDE DEF rules
    <2>3. /\ page'.rules = Listed(rules) /\ page'.account = a /\ page'.draft = page.draft
          /\ page'.auth = page.auth
      BY <1>3, <2>1, <2>2 DEF PageType
    <2>4. \A t \in Slot \ {s} : [flows[t] EXCEPT !.tied = {}].op = flows[t].op
      BY <1>3 DEF FlowType
    <2>5. Idle'
      BY <1>2, <1>4, <2>2, <2>4 DEF Idle
    <2>6. InPlace(page'.rules)
      BY <2>3 DEF InPlace, Listed, Row
    <2>7. Same'
      <3>1. PageRules' = RulesOf(Listed(rules))
        BY <2>3 DEF PageRules, RulesOf
      <3>2. RulesOf(Listed(rules)) = rules
        BY <1>3, <2>1, ListedRows
      <3>3. Ids(PageRules') = Ids(server[a])
        BY <2>1, <3>1, <3>2
      <3> QED
        BY <1>1, <2>3, <3>3 DEF Same
    <2>8. ~Modal' /\ AuthInv'
      BY <1>2, <2>3 DEF Modal, AuthInv
    <2>9. \A t \in Slot : Keeps(flows[t])'
      BY <2>5 DEF Keeps, Idle
    <2> QED
      BY <2>6, <2>7, <2>8, <2>9 DEF NumberInv
  <1> QED
    BY <1>5, <1>6

LEMMA ServeNumbers ==
    ASSUME PageInv, PageInv', ShowsInv, ShowsInv', NumberInv, AuthInv,
           NEW s \in Slot, NEW a \in Account, Serve(s, a)
    PROVE  NumberInv' /\ AuthInv'
  <1> SUFFICES ASSUME ~rushed' PROVE NumberInv' /\ AuthInv'
    BY DEF NumberInv, AuthInv
  <1>1. ~rushed /\ AtHead(s, a) /\ server' = Carried(a, flows[s].cmd) /\ lost' = lost
    BY DEF Serve
  <1>2. \/ Toggled(s, a) \/ DraftSaved(s, a) \/ Duplicated(s, a)
        \/ Deleted(s, a) \/ Moved(s, a) \/ ListAnswered(s, a)
    BY DEF Serve
  <1>3. \A t \in Slot \ {s} : flows[t].op = "none"
    BY <1>1, ServedAtWork
  <1>4. CASE DraftSaved(s, a)
    BY <1>1, <1>3, <1>4, SavedIdle, DraftSavedNumbers
  <1> QED
    BY <1>1, <1>2, <1>4, ToggledNumbers, DuplicatedNumbers, DeletedNumbers, MovedNumbers,
       AnsweredNumbers, ZenonT(60)

LEMMA RefuseNumbers ==
    ASSUME PageInv, PageInv', ShowsInv, ShowsInv', NumberInv, AuthInv,
           NEW s \in Slot, NEW a \in Account, NEW kind \in Faults, Refuse(s, a, kind)
    PROVE  NumberInv' /\ AuthInv'
  <1> SUFFICES ASSUME ~rushed' PROVE NumberInv' /\ AuthInv'
    BY DEF NumberInv, AuthInv
  <1>1. ~rushed /\ AtHead(s, a) /\ lost' = (lost \/ server' # server)
    BY DEF Refuse
  <1>2. \/ PasswordWanted(s, a) \/ ListFailed(s, a, kind)
        \/ ToggleBack(s, a) \/ GivenUp(s, a) \/ MoveReloads(s, a)
    BY DEF Refuse
  <1> QED
    BY <1>1, <1>2, PasswordWantedNumbers, AnsweredNumbers, ToggleBackNumbers, GivenUpNumbers,
       MoveReloadsNumbers, ZenonT(60)

LEMMA NextNumbers ==
    ASSUME Position = "end", "duplicate" \notin Overlap,
           PageInv, PageInv', TableInv, ShowsInv, ShowsInv', NumberInv, AuthInv, Next
    PROVE  NumberInv' /\ AuthInv'
  <1>1. ASSUME NEW s \in Slot, User(s) PROVE NumberInv' /\ AuthInv'
    BY <1>1, ReloadNumbers, RetryNumbers, SaveNumbers, DuplicateNumbers, DeleteNumbers,
       MoveNumbers, SwitchAccountNumbers, ToggleNumbers, ZenonT(60) DEF User
  <1>2. ASSUME NEW s \in Slot, Progress(s) PROVE NumberInv' /\ AuthInv'
    BY <1>2, SwitchToldNumbers, ShowListNumbers, ServeNumbers, RefuseNumbers, ZenonT(60)
       DEF Progress
  <1> QED
    BY <1>1, <1>2, SelectNumbers, SearchNumbers, NewNumbers, EditNumbers, CancelNumbers,
       ZenonT(60) DEF Next

\* The order of a page at rest is the stored one, after every edit, copy and move, when new
\* rules go to the end, the user waits for each answer, does not copy a rule while a screen
\* or a handler blocks the button, and no row went since the last load (manager.js).
THEOREM PageOrder ==
    ASSUME Position = "end", "duplicate" \notin Overlap
    PROVE  Spec => []NumberedAsStored
  <1> DEFINE Numbers == NumberInv /\ AuthInv
  <1>1. Init => ShowsInv /\ Numbers
    <2> SUFFICES ASSUME Init PROVE NumberInv /\ AuthInv
      BY InitShows
    <2>1. PICK a \in Account :
            page = [rules |-> <<>>, account |-> a, loaded |-> NoAccount, selected |-> {},
                    busy |-> TRUE, auth |-> FALSE, screen |-> "loading", draft |-> NoDraft,
                    whole |-> FALSE]
      BY ZenonT(30) DEF Init
    <2>2. ~page.whole /\ ~page.auth
      BY <2>1
    <2> QED
      BY <2>2 DEF NumberInv, AuthInv
  <1>2. PageInv /\ PageInv' /\ TableInv /\ ShowsInv /\ Numbers /\ [Next]_vars => ShowsInv' /\ Numbers'
    <2>1. ASSUME PageInv, PageInv', TableInv, ShowsInv, NumberInv, AuthInv, Next
          PROVE  ShowsInv' /\ NumberInv' /\ AuthInv'
      BY <2>1, NextShows, NextNumbers
    <2>2. ASSUME ShowsInv, NumberInv, AuthInv, UNCHANGED vars
          PROVE  ShowsInv' /\ NumberInv' /\ AuthInv'
      <3>1. page' = page /\ flows' = flows /\ server' = server /\ lost' = lost /\ rushed' = rushed
        BY <2>2 DEF vars
      <3> QED
        BY <2>2, <3>1, LooksShow, LooksNumber DEF AuthInv, Modal
    <2> QED
      BY <2>1, <2>2
  <1>3. ShowsInv /\ Numbers => NumberedAsStored
    <2> SUFFICES ASSUME ShowsInv, NumberInv, AuthInv, AtRest, ~rushed, page.whole
                 PROVE  Ids(PageRules) = Ids(server[page.account])
      BY DEF NumberedAsStored
    <2>1. \A t \in Slot : flows[t].op = "none"
      BY NoFlowIs DEF AtRest, Quiet, Calm
    <2>2. ~page.auth /\ Showing
      BY DEF AuthInv, AtRest, OnTable, Showing
    <2>3. Same
      BY <2>1, <2>2 DEF NumberInv, Steady
    <2> QED
      BY <2>3 DEF Same
  <1> HIDE DEF Numbers
  <1> QED
    BY <1>1, <1>2, <1>3, PageAndTable, PTL DEF Spec
=============================================================================
