------------------------- MODULE AccountLock_proofs -------------------------
(***************************************************************************)
(* Mutual exclusion and the Map invariant of withLockFor, for any accounts *)
(* and any number of calls, and that the lock implements FifoLock.         *)
(*                                                                         *)
(* Neither is inductive: that a call may start once the call before it has *)
(* finished is safe only because every earlier call has finished too, and  *)
(* that in turn because the Map always leads a new call to the last one.   *)
(***************************************************************************)
EXTENDS AccountLockRefinement, Sequences, FiniteSetTheorems, TLAPS

Past(k) == Holding(k) \/ state[k] = "released"

\* The Map entry is a call of that account that has not finished.
MapEntryPending ==
    \A a \in Account : inflight[a] # NoCall =>
        /\ inflight[a] \in Calls
        /\ account[inflight[a]] = a
        /\ Pending(inflight[a])

\* No unfinished call is later than the Map entry.
MapEntryLast ==
    \A k \in Calls : Pending(k) => k <= inflight[account[k]]

\* No unfinished call stands between a call and the one it waits for.
ChainHasNoGap ==
    \A j, k \in Calls :
        /\ j < k /\ k <= entered
        /\ account[j] = account[k]
        /\ Pending(j)
        => j <= prev[k]

\* A call that has been let in has no unfinished call before it.
InOrder ==
    \A j, k \in Calls :
        j < k /\ account[j] = account[k] /\ Past(k) => state[j] = "released"

IInv ==
    /\ TypeOK
    /\ MapEntryPending /\ MapEntryLast
    /\ ChainHasNoGap /\ InOrder

USE AccountLockAssumption

LEMMA InitIInv == Init => IInv
  <1> SUFFICES ASSUME Init PROVE IInv
    OBVIOUS
  <1>1. TypeOK
    BY DEF Init, TypeOK, Calls, NoCall, States
  <1>2. \A k \in Calls : ~Pending(k) /\ ~Past(k)
    BY DEF Init, Pending, Holding, Past
  <1>3. MapEntryPending /\ MapEntryLast /\ ChainHasNoGap /\ InOrder
    BY <1>2 DEF Init, MapEntryPending, MapEntryLast, ChainHasNoGap, InOrder, NoCall
  <1> QED
    BY <1>1, <1>3 DEF IInv

LEMMA EnterIInv == IInv /\ Enter => IInv'
  <1> SUFFICES ASSUME IInv, Enter PROVE IInv'
    OBVIOUS
  <1> USE DEF IInv
  <1> PICK n \in Calls : n = entered + 1
    BY DEF Enter
  <1>1. state[n] = "new" /\ account[n] \in Account
    BY DEF TypeOK, Calls
  <1>2. inflight[account[n]] < n
    <2>1. CASE inflight[account[n]] = NoCall
      BY <2>1, <1>1 DEF NoCall, Calls
    <2>2. CASE inflight[account[n]] # NoCall
      <3>1. inflight[account[n]] \in Calls /\ state[inflight[account[n]]] # "new"
        BY <2>2, <1>1 DEF MapEntryPending, Pending, Holding
      <3> QED
        BY <3>1, <1>1 DEF TypeOK, Calls
    <2> QED
      BY <2>1, <2>2
  <1>3. \A k \in Calls : k # n => (Pending(k)' <=> Pending(k)) /\ (Past(k)' <=> Past(k))
    BY <1>1 DEF Enter, TypeOK, Pending, Holding, Past
  <1>4. Pending(n)' /\ ~Past(n)'
    <2>1. state'[n] = "waiting"
      BY <1>1 DEF Enter, TypeOK
    <2> QED
      BY <2>1 DEF Pending, Holding, Past
  <1>5. TypeOK'
    BY <1>1, <1>2 DEF Enter, TypeOK, Calls, NoCall, States, MapEntryPending
  <1>6. MapEntryPending'
    BY <1>1, <1>3, <1>4 DEF Enter, TypeOK, MapEntryPending, Calls, Pending, Holding
  <1>7. MapEntryLast'
    <2> SUFFICES ASSUME NEW k \in Calls, Pending(k)'
                 PROVE  k <= inflight'[account[k]]
      BY DEF MapEntryLast, Enter
    <2>1. CASE k = n
      BY <2>1, <1>1 DEF Enter, TypeOK, Calls
    <2>2. CASE k # n
      <3>1. Pending(k) /\ k < n
        BY <2>2, <1>3 DEF Pending, Holding, TypeOK, Calls
      <3> QED
        BY <3>1, <1>1 DEF Enter, TypeOK, MapEntryLast, Calls
    <2> QED
      BY <2>1, <2>2
  <1>8. ChainHasNoGap'
    <2> SUFFICES ASSUME NEW j \in Calls, NEW k \in Calls,
                        j < k, k <= n, account[j] = account[k], Pending(j)'
                 PROVE  j <= prev'[k]
      BY DEF ChainHasNoGap, Enter
    <2>1. Pending(j)
      BY <1>3 DEF Calls
    <2>2. CASE k = n
      BY <2>1, <2>2 DEF Enter, TypeOK, MapEntryLast
    <2>3. CASE k # n
      BY <2>1, <2>3, <1>1 DEF Enter, TypeOK, ChainHasNoGap, Calls
    <2> QED
      BY <2>2, <2>3
  <1>9. InOrder'
    <2> SUFFICES ASSUME NEW j \in Calls, NEW k \in Calls,
                        j < k, account[j] = account[k], Past(k)'
                 PROVE  state'[j] = "released"
      BY DEF InOrder, Enter
    <2>1. k # n /\ Past(k)
      BY <1>3, <1>4
    <2>2. state[j] = "released"
      BY <2>1 DEF InOrder
    <2> QED
      BY <2>2, <1>1 DEF Enter, TypeOK
  <1> QED
    BY <1>5, <1>6, <1>7, <1>8, <1>9

LEMMA StartIInv == ASSUME NEW k \in Calls PROVE IInv /\ Start(k) => IInv'
  <1> SUFFICES ASSUME IInv, Start(k) PROVE IInv'
    OBVIOUS
  <1> USE DEF IInv
  <1>1. \A j \in Calls : Pending(j)' <=> Pending(j)
    BY DEF Start, TypeOK, Pending, Holding
  <1>2. \A j \in Calls : (state[j] = "released")' <=> state[j] = "released"
    BY DEF Start, TypeOK
  <1>3. TypeOK'
    BY DEF Start, TypeOK, States
  <1>4. MapEntryPending' /\ MapEntryLast' /\ ChainHasNoGap'
    BY <1>1 DEF Start, MapEntryPending, MapEntryLast, ChainHasNoGap
  <1>5. \A j \in Calls : j < k /\ account[j] = account[k] => state[j] = "released"
    <2> SUFFICES ASSUME NEW j \in Calls, j < k, account[j] = account[k]
                 PROVE  state[j] = "released"
      OBVIOUS
    <2>1. j <= entered /\ k <= entered
      BY DEF Start, TypeOK, Calls
    <2>2. Pending(j) \/ state[j] = "released"
      BY <2>1 DEF TypeOK, States, Pending, Holding, Calls
    <2>3. CASE Pending(j)
      <3>1. j <= prev[k]
        BY <2>1, <2>3 DEF ChainHasNoGap
      <3>2. prev[k] \in Calls /\ state[prev[k]] = "released"
        BY <3>1 DEF Start, NoCall, Calls
      <3>3. account[prev[k]] = account[k]
        BY <3>2 DEF TypeOK, NoCall, Calls
      <3> QED
        BY <3>1, <3>2, <3>3 DEF InOrder, Past, Calls
    <2> QED
      BY <2>2, <2>3
  <1>6. InOrder'
    BY <1>2, <1>5 DEF Start, TypeOK, InOrder, Past, Holding
  <1> QED
    BY <1>3, <1>4, <1>6

LEMMA SettleIInv == ASSUME NEW k \in Calls PROVE IInv /\ Settle(k) => IInv'
  <1> SUFFICES ASSUME IInv, Settle(k) PROVE IInv'
    OBVIOUS
  <1> USE DEF IInv
  <1>1. \A j \in Calls : /\ Pending(j)' <=> Pending(j)
                         /\ Past(j)' <=> Past(j)
                         /\ (state[j] = "released")' <=> state[j] = "released"
    BY DEF Settle, TypeOK, Pending, Holding, Past
  <1>2. TypeOK'
    BY DEF Settle, TypeOK, States
  <1>3. MapEntryPending' /\ MapEntryLast' /\ ChainHasNoGap'
    BY <1>1 DEF Settle, MapEntryPending, MapEntryLast, ChainHasNoGap
  <1>4. InOrder'
    BY <1>1 DEF Settle, InOrder
  <1> QED
    BY <1>2, <1>3, <1>4

LEMMA ReleaseIInv == ASSUME NEW k \in Calls PROVE IInv /\ Release(k) => IInv'
  <1> SUFFICES ASSUME IInv, Release(k) PROVE IInv'
    OBVIOUS
  <1> USE DEF IInv
  <1>1. state'[k] = "released" /\ ~Pending(k)' /\ Past(k)
    BY DEF Release, TypeOK, Pending, Holding, Past
  <1>2. \A j \in Calls : j # k => /\ Pending(j)' <=> Pending(j)
                                  /\ state'[j] = state[j]
    BY DEF Release, TypeOK, Pending, Holding
  <1>3. \A j \in Calls : Past(j)' <=> Past(j)
    BY DEF Release, TypeOK, Past, Holding
  <1>4. TypeOK'
    BY DEF Release, TypeOK, States, NoCall
  <1>5. MapEntryPending'
    BY <1>1, <1>2 DEF Release, TypeOK, MapEntryPending, NoCall, Calls
  <1>6. MapEntryLast'
    <2> SUFFICES ASSUME NEW j \in Calls, Pending(j)'
                 PROVE  j <= inflight'[account[j]]
      BY DEF MapEntryLast, Release
    <2>1. j # k /\ Pending(j) /\ j <= inflight[account[j]]
      BY <1>1, <1>2 DEF MapEntryLast
    <2>2. account[j] # account[k] \/ inflight[account[k]] # k
      BY <2>1, <1>1 DEF InOrder, Pending, Holding, Calls
    <2> QED
      BY <2>1, <2>2 DEF Release, TypeOK
  <1>7. ChainHasNoGap'
    BY <1>1, <1>2 DEF Release, ChainHasNoGap
  <1>8. InOrder'
    BY <1>1, <1>2, <1>3 DEF Release, InOrder
  <1> QED
    BY <1>4, <1>5, <1>6, <1>7, <1>8

\* The chain of promises is in order in every state of every execution.
THEOREM ChainInvariant == Spec => []IInv
  <1>1. Init => IInv
    BY InitIInv
  <1>2. IInv /\ [Next]_vars => IInv'
    <2> SUFFICES ASSUME IInv, [Next]_vars PROVE IInv'
      OBVIOUS
    <2>1. CASE Enter
      BY <2>1, EnterIInv
    <2>2. ASSUME NEW k \in Calls, Start(k) PROVE IInv'
      BY <2>2, StartIInv
    <2>3. ASSUME NEW k \in Calls, Settle(k) PROVE IInv'
      BY <2>3, SettleIInv
    <2>4. ASSUME NEW k \in Calls, Release(k) PROVE IInv'
      BY <2>4, ReleaseIInv
    <2>5. CASE UNCHANGED vars
      BY <2>5 DEF vars, IInv, TypeOK, MapEntryPending, MapEntryLast, ChainHasNoGap,
                  InOrder, Past, Pending, Holding
    <2> QED
      BY <2>1, <2>2, <2>3, <2>4, <2>5 DEF Next
  <1> QED
    BY <1>1, <1>2, PTL DEF Spec

\* Every variable of the lock keeps its type, and a call waits for an earlier one.
THEOREM TypeCorrect == Spec => []TypeOK
  <1>1. IInv => TypeOK
    BY DEF IInv
  <1> QED
    BY <1>1, ChainInvariant, PTL

\* withLockFor runs one function per account at a time, for any number of accounts
\* and calls.
THEOREM LockExcludes == Spec => []MutualExclusion
  <1>1. IInv => MutualExclusion
    <2> SUFFICES ASSUME IInv, NEW j \in Calls, NEW k \in Calls,
                        Holding(j), Holding(k), account[j] = account[k]
                 PROVE  j = k
      BY DEF MutualExclusion
    <2>1. ~(j < k) /\ ~(k < j)
      BY DEF IInv, InOrder, Past, Holding
    <2> QED
      BY <2>1 DEF Calls
  <1> QED
    BY <1>1, ChainInvariant, PTL

\* The Map _inflight holds an account exactly while one of its calls is pending.
THEOREM MapHoldsThePending == Spec => []MapIsTail
  <1>1. IInv => MapIsTail
    <2> SUFFICES ASSUME IInv, NEW a \in Account
                 PROVE  (inflight[a] # NoCall) <=>
                        (\E k \in Calls : account[k] = a /\ Pending(k))
      BY DEF MapIsTail
    <2>1. inflight[a] # NoCall => \E k \in Calls : account[k] = a /\ Pending(k)
      BY DEF IInv, MapEntryPending
    <2>2. ASSUME NEW k \in Calls, account[k] = a, Pending(k) PROVE inflight[a] # NoCall
      BY <2>2 DEF IInv, MapEntryLast, NoCall, Calls
    <2> QED
      BY <2>1, <2>2
  <1> QED
    BY <1>1, ChainInvariant, PTL

-----------------------------------------------------------------------------
(***************************************************************************)
(* The order of a set of calls: a later call joins at the end, and the     *)
(* earliest leaves at the front.                                           *)
(***************************************************************************)
LEMMA CallSets ==
    ASSUME NEW S \in SUBSET Calls
    PROVE  /\ IsFiniteSet(S) /\ Cardinality(S) \in Nat
           /\ \A k : Place(S, k) \in Nat /\ Place(S, k) <= Cardinality(S)
           /\ \A k \in S : Place(S, k) # 0
  <1>1. IsFiniteSet(Calls)
    BY FS_Interval DEF Calls
  <1>2. IsFiniteSet(S) /\ Cardinality(S) \in Nat
    BY <1>1, FS_Subset, FS_CardinalityType
  <1>3. ASSUME NEW k
        PROVE  /\ Place(S, k) \in Nat /\ Place(S, k) <= Cardinality(S)
               /\ k \in S => Place(S, k) # 0
    <2> DEFINE T == {j \in S : j <= k}
    <2>0. k \in S => k \in Int
      BY DEF Calls
    <2>1. T \in SUBSET S /\ (k \in S => k \in T)
      BY <2>0
    <2> HIDE DEF T
    <2>2. IsFiniteSet(T) /\ Cardinality(T) \in Nat /\ Cardinality(T) <= Cardinality(S)
      BY <1>2, <2>1, FS_Subset, FS_CardinalityType
    <2>3. k \in S => Cardinality(T) # 0
      BY <2>1, <2>2, FS_EmptySet
    <2> QED
      BY <2>2, <2>3 DEF T, Place
  <1> QED
    BY <1>2, <1>3

LEMMA LastJoins ==
    ASSUME NEW S \in SUBSET Calls, NEW n \in Calls, \A k \in S : k < n
    PROVE  InOrderOf(S \cup {n}) = Append(InOrderOf(S), n)
  <1> DEFINE W == S \cup {n}
             c == Cardinality(S)
  <1>1. W \in SUBSET Calls /\ n \notin S
    BY DEF Calls
  <1>2. IsFiniteSet(S) /\ c \in Nat /\ Cardinality(W) = c + 1
    BY <1>1, CallSets, FS_AddElement
  <1>3. \A k \in S : Place(W, k) = Place(S, k)
    <2> SUFFICES ASSUME NEW k \in S PROVE Place(W, k) = Place(S, k)
      OBVIOUS
    <2>1. {j \in W : j <= k} = {j \in S : j <= k}
      BY DEF Calls
    <2> QED
      BY <2>1 DEF Place
  <1>4. Place(W, n) = c + 1
    <2>1. \A j \in W : j <= n
      BY DEF Calls
    <2>2. {j \in W : j <= n} = W
      BY <2>1
    <2> QED
      BY <2>2, <1>2 DEF Place
  <1>5. \A k \in S : Place(S, k) \in Nat /\ Place(S, k) <= c
    BY CallSets
  <1> HIDE DEF W, c
  <1>6. ASSUME NEW i \in 1 .. c
        PROVE  (CHOOSE k \in W : Place(W, k) = i) = (CHOOSE k \in S : Place(S, k) = i)
    <2>1. \A k : (k \in W /\ Place(W, k) = i) <=> (k \in S /\ Place(S, k) = i)
      <3>1. Place(W, n) # i
        BY <1>2, <1>4
      <3>2. \A k : k \in W <=> k \in S \/ k = n
        BY DEF W
      <3> QED
        BY <3>1, <3>2, <1>3
    <2> QED
      BY <2>1
  <1>7. (CHOOSE k \in W : Place(W, k) = c + 1) = n
    <2>1. \A k : (k \in W /\ Place(W, k) = c + 1) <=> k = n
      <3>1. \A k \in S : Place(W, k) # c + 1
        BY <1>2, <1>3, <1>5
      <3>2. \A k : k \in W <=> k \in S \/ k = n
        BY DEF W
      <3> QED
        BY <3>1, <3>2, <1>4
    <2> QED
      BY <2>1
  <1> DEFINE s == InOrderOf(S)
             t == InOrderOf(W)
             F(i) == CHOOSE k \in S : Place(S, k) = i
             G(i) == CHOOSE k \in W : Place(W, k) = i
  <1>8. s = [i \in 1 .. c |-> F(i)] /\ t = [i \in 1 .. c + 1 |-> G(i)]
    BY <1>2 DEF InOrderOf, c
  <1>9. (\A i \in 1 .. c : G(i) = F(i)) /\ G(c + 1) = n
    BY <1>6, <1>7
  <1> HIDE DEF F, G, s, t
  <1>10. t = Append(s, n)
    <2>1. Append(s, n) = [i \in 1 .. c + 1 |-> IF i = c + 1 THEN n ELSE s[i]]
      BY <1>2, <1>8
    <2>2. \A i \in 1 .. c + 1 : G(i) = IF i = c + 1 THEN n ELSE s[i]
      <3> SUFFICES ASSUME NEW i \in 1 .. c + 1, i # c + 1 PROVE G(i) = s[i]
        BY <1>9
      <3>1. i \in 1 .. c
        BY <1>2
      <3> QED
        BY <3>1, <1>8, <1>9
    <2> QED
      BY <2>1, <2>2, <1>8
  <1> QED
    BY <1>10 DEF s, t, W

LEMMA FirstLeaves ==
    ASSUME NEW S \in SUBSET Calls, NEW n \in S, \A k \in S : n <= k
    PROVE  InOrderOf(S \ {n}) = Tail(InOrderOf(S))
  <1> DEFINE W == S \ {n}
             c == Cardinality(S)
  <1>1. W \in SUBSET Calls
    OBVIOUS
  <1>2. IsFiniteSet(S) /\ c \in Nat /\ Cardinality(W) = c - 1 /\ Cardinality(W) \in Nat
    BY <1>1, CallSets, FS_RemoveElement
  <1>3. \A k \in W : Place(W, k) = Place(S, k) - 1
    <2> SUFFICES ASSUME NEW k \in W PROVE Place(W, k) = Place(S, k) - 1
      OBVIOUS
    <2> DEFINE T == {j \in S : j <= k}
    <2>1. {j \in W : j <= k} = T \ {n} /\ n \in T /\ T \in SUBSET S
      OBVIOUS
    <2> HIDE DEF T
    <2>2. Cardinality(T \ {n}) = Cardinality(T) - 1
      BY <1>2, <2>1, FS_Subset, FS_RemoveElement
    <2> QED
      BY <2>1, <2>2 DEF Place, T
  <1>4. Place(S, n) = 1
    <2>1. \A j \in S : j <= n <=> j = n
      BY DEF Calls
    <2>2. {j \in S : j <= n} = {n}
      BY <2>1
    <2> QED
      BY <2>2, FS_Singleton DEF Place
  <1>5. \A k \in S : Place(S, k) \in Nat
    BY CallSets
  <1> HIDE DEF W, c
  <1>6. ASSUME NEW i \in 1 .. c - 1
        PROVE  (CHOOSE k \in W : Place(W, k) = i) = (CHOOSE k \in S : Place(S, k) = i + 1)
    <2>1. \A k : (k \in W /\ Place(W, k) = i) <=> (k \in S /\ Place(S, k) = i + 1)
      <3>1. \A k : k \in W <=> k \in S /\ k # n
        BY DEF W
      <3>2. Place(S, n) # i + 1
        BY <1>2, <1>4
      <3>3. \A k \in W : Place(W, k) = i <=> Place(S, k) = i + 1
        BY <1>2, <1>3, <1>5, <3>1
      <3> QED
        BY <3>1, <3>2, <3>3
    <2> QED
      BY <2>1
  <1> DEFINE s == InOrderOf(S)
             t == InOrderOf(W)
             F(i) == CHOOSE k \in S : Place(S, k) = i
             G(i) == CHOOSE k \in W : Place(W, k) = i
  <1>7. s = [i \in 1 .. c |-> F(i)] /\ t = [i \in 1 .. c - 1 |-> G(i)]
    BY <1>2 DEF InOrderOf, c
  <1>8. \A i \in 1 .. c - 1 : G(i) = F(i + 1)
    BY <1>6
  <1> HIDE DEF F, G, s, t
  <1>9. t = Tail(s)
    <2>1. Tail(s) = [i \in 1 .. c - 1 |-> s[i + 1]]
      BY <1>2, <1>7
    <2>2. \A i \in 1 .. c - 1 : G(i) = s[i + 1]
      <3> SUFFICES ASSUME NEW i \in 1 .. c - 1 PROVE G(i) = s[i + 1]
        OBVIOUS
      <3>1. i + 1 \in 1 .. c
        BY <1>2
      <3> QED
        BY <3>1, <1>7, <1>8
    <2> QED
      BY <2>1, <2>2, <1>7
  <1> QED
    BY <1>9 DEF s, t, W

-----------------------------------------------------------------------------
(***************************************************************************)
(* The step simulation: Enter joins, Start lets in, Release leaves, and    *)
(* Settle does not show.                                                   *)
(***************************************************************************)
MappedLine == [a \in Account |-> InOrderOf(Unfinished(a))]
MappedBusy == [a \in Account |-> \E k \in Unfinished(a) : Holding(k)]

\* FifoLock's steps, read on the mapped line.
LEMMA FifoSteps ==
    /\ FL!Init <=> /\ MappedLine = [a \in Account |-> <<>>]
                   /\ MappedBusy = [a \in Account |-> FALSE]
    /\ (UNCHANGED <<MappedLine, MappedBusy>>) => [FL!Next]_(FL!vars)
    /\ \A a \in Account, k \in Calls :
          /\ MappedLine' = [MappedLine EXCEPT ![a] = Append(@, k)]
          /\ UNCHANGED MappedBusy
          => [FL!Next]_(FL!vars)
    /\ \A a \in Account :
          /\ MappedLine[a] # <<>> /\ ~MappedBusy[a]
          /\ MappedBusy' = [MappedBusy EXCEPT ![a] = TRUE]
          /\ UNCHANGED MappedLine
          => [FL!Next]_(FL!vars)
    /\ \A a \in Account :
          /\ MappedBusy[a]
          /\ MappedLine' = [MappedLine EXCEPT ![a] = Tail(@)]
          /\ MappedBusy' = [MappedBusy EXCEPT ![a] = FALSE]
          => [FL!Next]_(FL!vars)
  BY DEF FL!Init, FL!Next, FL!vars, FL!Join, FL!LetIn, FL!Leave, MappedLine, MappedBusy

\* What the mapping depends on.
LEMMA SameCalls ==
    ASSUME NEW a \in Account, UNCHANGED account,
           \A k \in Calls : account[k] = a => (Pending(k)' <=> Pending(k))
    PROVE  Unfinished(a)' = Unfinished(a)
  BY DEF Unfinished

LEMMA InitMaps == Init => FL!Init
  <1> SUFFICES ASSUME Init PROVE FL!Init
    OBVIOUS
  <1>1. \A a \in Account : Unfinished(a) = {}
    BY DEF Init, Unfinished, Pending, Holding
  <1>2. InOrderOf({}) = <<>>
    <2>1. Cardinality({}) = 0
      BY FS_EmptySet
    <2> QED
      BY <2>1 DEF InOrderOf
  <1> QED
    BY <1>1, <1>2, FifoSteps DEF MappedLine, MappedBusy

LEMMA EnterMaps == IInv /\ Enter => [FL!Next]_(FL!vars)
  <1> SUFFICES ASSUME IInv, Enter PROVE [FL!Next]_(FL!vars)
    OBVIOUS
  <1> USE DEF IInv
  <1> PICK n \in Calls : n = entered + 1
    BY DEF Enter
  <1> PICK b \in Account : b = account[n]
    BY DEF TypeOK
  <1>1. state[n] = "new"
    BY DEF TypeOK, Calls
  <1>2. state' = [state EXCEPT ![n] = "waiting"] /\ UNCHANGED account
    BY DEF Enter
  <1>3. \A k \in Calls : k # n => state'[k] = state[k]
    BY <1>2 DEF TypeOK
  <1>4. state'[n] = "waiting"
    BY <1>2 DEF TypeOK
  <1>5. \A a \in Account : a # b => Unfinished(a)' = Unfinished(a)
    BY <1>2, <1>3 DEF Unfinished, Pending, Holding
  <1>6. Unfinished(b)' = Unfinished(b) \cup {n}
    BY <1>1, <1>2, <1>3, <1>4 DEF Unfinished, Pending, Holding
  <1>7. \A k \in Unfinished(b) : k < n
    BY DEF Unfinished, Pending, Holding, TypeOK, Calls
  <1>8. InOrderOf(Unfinished(b) \cup {n}) = Append(InOrderOf(Unfinished(b)), n)
    <2>1. Unfinished(b) \in SUBSET Calls
      BY DEF Unfinished
    <2> QED
      BY <1>7, <2>1, LastJoins
  <1>9. \A k \in Calls : Holding(k)' <=> Holding(k)
    BY <1>1, <1>3, <1>4 DEF Holding
  <1>10. MappedBusy' = MappedBusy
    <2>1. \A a \in Account : (\E k \in Unfinished(a) : Holding(k))' <=>
                             (\E k \in Unfinished(a) : Holding(k))
      BY <1>2, <1>9 DEF Unfinished, Pending
    <2> QED
      BY <2>1 DEF MappedBusy
  <1>11. MappedLine' = [MappedLine EXCEPT ![b] = Append(@, n)]
    BY <1>1, <1>5, <1>6, <1>8 DEF MappedLine
  <1> QED
    BY <1>1, <1>10, <1>11, FifoSteps

LEMMA StartMaps == ASSUME NEW n \in Calls PROVE IInv /\ Start(n) => [FL!Next]_(FL!vars)
  <1> SUFFICES ASSUME IInv, Start(n) PROVE [FL!Next]_(FL!vars)
    OBVIOUS
  <1>1. account[n] \in Account
    BY DEF IInv, TypeOK
  <1> PICK b \in Account : b = account[n]
    BY <1>1
  <1>2. state[n] = "waiting" /\ state' = [state EXCEPT ![n] = "running"] /\ UNCHANGED account
    BY DEF Start
  <1>3. state'[n] = "running" /\ \A k \in Calls : k # n => state'[k] = state[k]
    BY <1>2 DEF IInv, TypeOK
  <1>4. \A k \in Calls : Pending(k)' <=> Pending(k)
    BY <1>2, <1>3 DEF Pending, Holding
  <1>5. \A a \in Account : Unfinished(a)' = Unfinished(a)
    BY <1>2, <1>4, SameCalls
  <1>6. MappedLine' = MappedLine
    BY <1>5 DEF MappedLine
  <1>7. n \in Unfinished(b)
    BY <1>2 DEF Unfinished, Pending
  <1>8. MappedLine[b] # <<>>
    <2>1. Unfinished(b) \in SUBSET Calls
      BY DEF Unfinished
    <2>2. Cardinality(Unfinished(b)) \in Nat /\ Cardinality(Unfinished(b)) # 0
      BY <1>7, <2>1, CallSets, FS_EmptySet
    <2>3. DOMAIN InOrderOf(Unfinished(b)) = 1 .. Cardinality(Unfinished(b))
      BY DEF InOrderOf
    <2>4. DOMAIN <<>> = {}
      OBVIOUS
    <2>5. 1 \in 1 .. Cardinality(Unfinished(b))
      BY <2>2
    <2> QED
      BY <1>1, <2>3, <2>4, <2>5 DEF MappedLine
  <1>9. ~MappedBusy[b]
    <2> SUFFICES ASSUME NEW k \in Unfinished(b), Holding(k) PROVE FALSE
      BY <1>1 DEF MappedBusy
    <2>1. k \in Calls /\ k # n /\ account[k] = account[n]
      BY <1>2 DEF Unfinished, Holding
    <2>2. CASE n < k
      BY <1>2, <2>1, <2>2 DEF IInv, InOrder, Past
    <2>3. CASE k < n
      <3>1. IInv'
        BY StartIInv
      <3>2. account'[k] = account'[n] /\ Past(n)'
        BY <1>2, <1>3, <2>1 DEF Past, Holding
      <3>3. state'[k] = "released"
        BY <2>1, <2>3, <3>1, <3>2 DEF IInv, InOrder
      <3> QED
        BY <1>3, <2>1, <3>3 DEF Holding
    <2> QED
      BY <2>1, <2>2, <2>3 DEF Calls
  <1>10. MappedBusy' = [MappedBusy EXCEPT ![b] = TRUE]
    <2>1. ASSUME NEW a \in Account, a # b
          PROVE  (\E k \in Unfinished(a) : Holding(k))' <=> (\E k \in Unfinished(a) : Holding(k))
      <3>1. \A k \in Unfinished(a) : k \in Calls /\ k # n
        BY <2>1 DEF Unfinished
      <3>2. \A k \in Unfinished(a) : Holding(k)' <=> Holding(k)
        BY <3>1, <1>3 DEF Holding
      <3> QED
        BY <3>2, <1>5
    <2>2. (\E k \in Unfinished(b) : Holding(k))'
      BY <1>1, <1>3, <1>5, <1>7 DEF Holding
    <2> QED
      BY <1>1, <2>1, <2>2 DEF MappedBusy
  <1> QED
    BY <1>1, <1>6, <1>8, <1>9, <1>10, FifoSteps

LEMMA SettleMaps == ASSUME NEW n \in Calls PROVE IInv /\ Settle(n) => [FL!Next]_(FL!vars)
  <1> SUFFICES ASSUME IInv, Settle(n) PROVE [FL!Next]_(FL!vars)
    OBVIOUS
  <1>1. UNCHANGED account /\ \A k \in Calls : Holding(k)' <=> Holding(k)
    BY DEF Settle, IInv, TypeOK, Holding
  <1>2. \A k \in Calls : Pending(k)' <=> Pending(k)
    BY DEF Settle, IInv, TypeOK, Pending, Holding
  <1>3. \A a \in Account : Unfinished(a)' = Unfinished(a)
    BY <1>1, <1>2, SameCalls
  <1>4. \A a \in Account : (\E k \in Unfinished(a) : Holding(k))' <=>
                           (\E k \in Unfinished(a) : Holding(k))
    BY <1>1, <1>2 DEF Unfinished
  <1>5. MappedLine' = MappedLine /\ MappedBusy' = MappedBusy
    BY <1>3, <1>4 DEF MappedLine, MappedBusy
  <1> QED
    BY <1>5, FifoSteps

LEMMA ReleaseMaps == ASSUME NEW n \in Calls PROVE IInv /\ Release(n) => [FL!Next]_(FL!vars)
  <1> SUFFICES ASSUME IInv, Release(n) PROVE [FL!Next]_(FL!vars)
    OBVIOUS
  <1>1. account[n] \in Account
    BY DEF IInv, TypeOK
  <1> PICK b \in Account : b = account[n]
    BY <1>1
  <1>2. Holding(n) /\ state' = [state EXCEPT ![n] = "released"] /\ UNCHANGED account
    BY DEF Release, Holding
  <1>3. state'[n] = "released" /\ \A k \in Calls : k # n => state'[k] = state[k]
    BY <1>2 DEF IInv, TypeOK
  <1>4. \A a \in Account : a # b => Unfinished(a)' = Unfinished(a)
    BY <1>2, <1>3 DEF Unfinished, Pending, Holding
  <1>5. Unfinished(b)' = Unfinished(b) \ {n}
    BY <1>2, <1>3 DEF Unfinished, Pending, Holding
  <1>6. n \in Unfinished(b) /\ Unfinished(b) \in SUBSET Calls
    BY <1>2 DEF Unfinished, Pending
  <1>7. \A k \in Unfinished(b) : n <= k
    <2> SUFFICES ASSUME NEW k \in Unfinished(b), k < n PROVE FALSE
      BY <1>6 DEF Calls
    <2>1. k \in Calls /\ account[k] = account[n] /\ state[k] # "released"
      BY DEF Unfinished, Pending, Holding
    <2> QED
      BY <1>2, <2>1 DEF IInv, InOrder, Past
  <1>8. InOrderOf(Unfinished(b) \ {n}) = Tail(InOrderOf(Unfinished(b)))
    <2> QED
      BY <1>6, <1>7, FirstLeaves
  <1>9. MappedLine' = [MappedLine EXCEPT ![b] = Tail(@)]
    BY <1>1, <1>4, <1>5, <1>8 DEF MappedLine
  <1>10. MappedBusy[b]
    BY <1>1, <1>2, <1>6 DEF MappedBusy
  <1>11. MappedBusy' = [MappedBusy EXCEPT ![b] = FALSE]
    <2>1. ASSUME NEW a \in Account, a # b
          PROVE  (\E k \in Unfinished(a) : Holding(k))' <=> (\E k \in Unfinished(a) : Holding(k))
      <3>1. \A k \in Unfinished(a) : k \in Calls /\ k # n
        BY <2>1 DEF Unfinished
      <3>2. \A k \in Unfinished(a) : Holding(k)' <=> Holding(k)
        BY <3>1, <1>3 DEF Holding
      <3> QED
        BY <2>1, <3>2, <1>4
    <2>2. ~(\E k \in Unfinished(b) : Holding(k))'
      <3> SUFFICES ASSUME NEW k \in Unfinished(b), k # n, Holding(k)' PROVE FALSE
        BY <1>5
      <3>1. k \in Calls /\ account[k] = account[n] /\ Holding(k)
        BY <1>3 DEF Unfinished, Holding
      <3>2. n < k
        BY <1>6, <1>7, <3>1 DEF Calls
      <3>3. state[n] = "released"
        BY <3>1, <3>2 DEF IInv, InOrder, Past
      <3> QED
        BY <1>2, <3>3 DEF Holding
    <2> QED
      BY <1>1, <2>1, <2>2 DEF MappedBusy
  <1> QED
    BY <1>1, <1>9, <1>10, <1>11, FifoSteps

\* The chain of promises implements one line of calls per account: each call is let in
\* alone, in the order in which withLockFor was entered, for any accounts and calls.
THEOREM CallsFormALine == Spec => FirstInFirstOut
  <1>1. IInv /\ [Next]_vars => [FL!Next]_(FL!vars)
    <2> SUFFICES ASSUME IInv, [Next]_vars PROVE [FL!Next]_(FL!vars)
      OBVIOUS
    <2>1. CASE Enter
      BY <2>1, EnterMaps
    <2>2. ASSUME NEW k \in Calls, Start(k) PROVE [FL!Next]_(FL!vars)
      BY <2>2, StartMaps
    <2>3. ASSUME NEW k \in Calls, Settle(k) PROVE [FL!Next]_(FL!vars)
      BY <2>3, SettleMaps
    <2>4. ASSUME NEW k \in Calls, Release(k) PROVE [FL!Next]_(FL!vars)
      BY <2>4, ReleaseMaps
    <2>5. CASE UNCHANGED vars
      <3>1. MappedLine' = MappedLine /\ MappedBusy' = MappedBusy
        BY <2>5 DEF vars, MappedLine, MappedBusy, Unfinished, Pending, Holding
      <3> QED
        BY <3>1, FifoSteps
    <2> QED
      BY <2>1, <2>2, <2>3, <2>4, <2>5 DEF Next
  <1> QED
    BY <1>1, InitMaps, ChainInvariant, PTL DEF Spec, FirstInFirstOut, FL!Spec
=============================================================================
