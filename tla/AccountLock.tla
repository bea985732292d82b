----------------------------- MODULE AccountLock -----------------------------
(***************************************************************************)
(* withLockFor of background.js: the per-account mutex, a chain of         *)
(* promises whose last link is kept in the Map _inflight.  The calls of    *)
(* all accounts are numbered in the order withLockFor was entered.         *)
(*                                                                         *)
(*   prev.then(fn, fn).finally(() => { resolveMe(); drop the last link })  *)
(*                                                                         *)
(* A reaction runs as a microtask of its own, so Start, Settle and Release *)
(* of a call are separate steps and any other call may step between them.  *)
(***************************************************************************)
EXTENDS Integers, FiniteSets

CONSTANTS
    Account,     \* the accounts of the profile
    MaxCalls     \* bound: calls of withLockFor

ASSUME AccountLockAssumption == MaxCalls \in Nat

NoCall == 0
Calls == 1 .. MaxCalls

VARIABLES
    entered,     \* calls made so far
    account,     \* account[k]: the account call k locks
    prev,        \* prev[k]: the call whose `next' promise k waits for, or NoCall
    inflight,    \* inflight[a]: the call whose `next' is in the Map, or NoCall
    state        \* state[k]: how far call k is

vars == <<entered, account, prev, inflight, state>>

\* "fulfilled", "rejected": what became of fn's promise; "released": `next' is resolved.
States == {"new", "waiting", "running", "fulfilled", "rejected", "released"}

Init ==
    /\ entered = 0
    /\ account \in [Calls -> Account]
    /\ prev = [k \in Calls |-> NoCall]
    /\ inflight = [a \in Account |-> NoCall]
    /\ state = [k \in Calls |-> "new"]

\* Mutant: one promise for all accounts instead of a Map.
EnterOneChain ==
    LET k == entered + 1
    IN  /\ k \in Calls
        /\ entered' = k
        /\ prev' = [prev EXCEPT ![k] = entered]
        /\ inflight' = [inflight EXCEPT ![account[k]] = k]
        /\ state' = [state EXCEPT ![k] = "waiting"]
        /\ UNCHANGED account

\* The synchronous part of withLockFor.
Enter ==
    LET k == entered + 1
    IN  /\ k \in Calls
        /\ entered' = k
        /\ prev' = [prev EXCEPT ![k] = inflight[account[k]]]
        /\ inflight' = [inflight EXCEPT ![account[k]] = k]
        /\ state' = [state EXCEPT ![k] = "waiting"]
        /\ UNCHANGED account

\* prev.then(fn, fn): fn starts once `prev' is resolved.
Start(k) ==
    /\ state[k] = "waiting"
    /\ prev[k] \in {NoCall} \cup {j \in Calls : state[j] = "released"}
    /\ state' = [state EXCEPT ![k] = "running"]
    /\ UNCHANGED <<entered, account, prev, inflight>>

\* fn fulfils or rejects.
Settle(k) ==
    /\ state[k] = "running"
    /\ \E outcome \in {"fulfilled", "rejected"} : state' = [state EXCEPT ![k] = outcome]
    /\ UNCHANGED <<entered, account, prev, inflight>>

\* Mutant: the Map entry is dropped without asking whose it is.
ReleaseDropsAny(k) ==
    /\ state[k] \in {"fulfilled", "rejected"}
    /\ state' = [state EXCEPT ![k] = "released"]
    /\ inflight' = [inflight EXCEPT ![account[k]] = NoCall]
    /\ UNCHANGED <<entered, account, prev>>

\* Mutant: .then instead of .finally, so a call that rejects never resolves `next'.
ReleaseFulfilled(k) ==
    /\ state[k] = "fulfilled"
    /\ state' = [state EXCEPT ![k] = "released"]
    /\ inflight' = [inflight EXCEPT ![account[k]] = IF @ = k THEN NoCall ELSE @]
    /\ UNCHANGED <<entered, account, prev>>

\* Mutant: `next' is resolved and the Map keeps it.
ReleaseKeeps(k) ==
    /\ state[k] \in {"fulfilled", "rejected"}
    /\ state' = [state EXCEPT ![k] = "released"]
    /\ UNCHANGED <<entered, account, prev, inflight>>

\* .finally: resolve `next' and drop the Map entry if it is still this call's.
Release(k) ==
    /\ state[k] \in {"fulfilled", "rejected"}
    /\ state' = [state EXCEPT ![k] = "released"]
    /\ inflight' = [inflight EXCEPT ![account[k]] = IF @ = k THEN NoCall ELSE @]
    /\ UNCHANGED <<entered, account, prev>>

Next == Enter \/ \E k \in Calls : Start(k) \/ Settle(k) \/ Release(k)

Spec == Init /\ [][Next]_vars

\* Microtasks run, and fn's promise settles: each await in it ends within the 10 s
\* after which proxy_client.js aborts a fetch.
Fairness == \A k \in Calls : WF_vars(Start(k) \/ Settle(k) \/ Release(k))
FairSpec == Spec /\ Fairness

-----------------------------------------------------------------------------
Holding(k) == state[k] \in {"running", "fulfilled", "rejected"}
Pending(k) == state[k] = "waiting" \/ Holding(k)

\* The calls made so far are 1 .. entered; a call waits for an earlier one of its
\* own account.
TypeOK ==
    /\ entered \in 0 .. MaxCalls
    /\ account \in [Calls -> Account]
    /\ prev \in [Calls -> 0 .. MaxCalls]
    /\ inflight \in [Account -> 0 .. MaxCalls]
    /\ state \in [Calls -> States]
    /\ \A k \in Calls : state[k] = "new" <=> k > entered
    /\ \A k \in Calls : prev[k] < k /\ (prev[k] # NoCall => account[prev[k]] = account[k])

\* "in one mailbox they are serialised" (background.js:35-37): the function of one
\* call of an account runs at a time.
MutualExclusion ==
    \A j, k \in Calls : Holding(j) /\ Holding(k) /\ account[j] = account[k] => j = k

\* The Map has an entry for an account exactly while one of its calls is pending:
\* none is leaked, and a new call never overlooks a pending one.
MapIsTail ==
    \A a \in Account :
        (inflight[a] # NoCall) <=> (\E k \in Calls : account[k] = a /\ Pending(k))

\* Every call runs and lets the next one in, whether its own function failed or not.
EveryCallIsReleased ==
    \A k \in Calls : state[k] = "waiting" ~> state[k] = "released"
=============================================================================
