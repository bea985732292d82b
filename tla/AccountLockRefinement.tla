----------------------- MODULE AccountLockRefinement -----------------------
(***************************************************************************)
(* The promise chain of withLockFor implements the line of FifoLock.       *)
(***************************************************************************)
EXTENDS AccountLock

\* How many members of S are not after k.
Place(S, k) == Cardinality({j \in S : j <= k})

\* The members of a set of calls, in the order they were made.
InOrderOf(S) == [i \in 1 .. Cardinality(S) |-> CHOOSE k \in S : Place(S, k) = i]

\* The calls on account a that have not finished.
Unfinished(a) == {k \in Calls : account[k] = a /\ Pending(k)}

FL == INSTANCE FifoLock WITH
        line <- [a \in Account |-> InOrderOf(Unfinished(a))],
        busy <- [a \in Account |-> \E k \in Unfinished(a) : Holding(k)]

\* Calls on one account are let in one by one, in the order withLockFor was entered.
FirstInFirstOut == FL!Spec
=============================================================================
