------------------------------ MODULE FifoLock ------------------------------
(***************************************************************************)
(* What withLockFor promises: one line of calls per account, of which only *)
(* the first is let in, and which it leaves before the second is let in.   *)
(* Background.queue is this line.                                          *)
(***************************************************************************)
EXTENDS Sequences

CONSTANTS Account, Calls

VARIABLES
    line,    \* line[a]: the calls on account a that have not finished, oldest first
    busy     \* busy[a]: the first of them is in

vars == <<line, busy>>

Init ==
    /\ line = [a \in Account |-> <<>>]
    /\ busy = [a \in Account |-> FALSE]

Join(a, k) ==
    /\ line' = [line EXCEPT ![a] = Append(@, k)]
    /\ UNCHANGED busy

LetIn(a) ==
    /\ line[a] # <<>> /\ ~busy[a]
    /\ busy' = [busy EXCEPT ![a] = TRUE]
    /\ UNCHANGED line

Leave(a) ==
    /\ busy[a]
    /\ line' = [line EXCEPT ![a] = Tail(@)]
    /\ busy' = [busy EXCEPT ![a] = FALSE]

Next == \E a \in Account : (\E k \in Calls : Join(a, k)) \/ LetIn(a) \/ Leave(a)

Spec == Init /\ [][Next]_vars
=============================================================================
