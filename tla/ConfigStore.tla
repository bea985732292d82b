----------------------------- MODULE ConfigStore -----------------------------
(***************************************************************************)
(* What lib/config_loader.js promises the pages: a table from account to   *)
(* base URL, a selected account and a default URL.  A message changes one  *)
(* of these and at most one account's entry, and settings of an older      *)
(* version are taken over at most once.                                    *)
(***************************************************************************)
CONSTANTS Account, Urls, NoUrl, Nobody

VARIABLES urls, selected, global, current

vars == <<urls, selected, global, current>>

Init ==
    /\ urls \in [Account -> Urls]
    /\ selected \in Account \cup {Nobody}
    /\ global \in Urls
    /\ current \in BOOLEAN

SetUrl(a, u) ==
    /\ urls' = [urls EXCEPT ![a] = u]
    /\ current' = TRUE
    /\ UNCHANGED <<selected, global>>

Forget(a) ==
    /\ urls' = [urls EXCEPT ![a] = NoUrl]
    /\ selected' = IF selected = a THEN Nobody ELSE selected
    /\ UNCHANGED <<global, current>>

Select(a) ==
    /\ selected' = a
    /\ current' = TRUE
    /\ UNCHANGED <<urls, global>>

SetDefault(u) ==
    /\ global' = u
    /\ current' = TRUE
    /\ UNCHANGED <<urls, selected>>

\* Taking over an older version: nothing is dropped, at most one account gets a URL.
TakeOver ==
    /\ ~current /\ current' = TRUE
    /\ \E u \in Urls : global' = u /\ (global # NoUrl => u # NoUrl)
    /\ \/ UNCHANGED <<urls, selected>>
       \/ \E a \in Account, u \in Urls :
            /\ u = NoUrl => urls[a] = NoUrl
            /\ urls' = [urls EXCEPT ![a] = u]
            /\ selected' = a

Next ==
    \/ \E a \in Account, u \in Urls : SetUrl(a, u)
    \/ \E a \in Account : Forget(a)
    \/ \E a \in Account \cup {Nobody} : Select(a)
    \/ \E u \in Urls : SetDefault(u)
    \/ TakeOver

Spec == Init /\ [][Next]_vars
=============================================================================
