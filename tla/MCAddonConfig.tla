---------------------------- MODULE MCAddonConfig ----------------------------
(***************************************************************************)
(* AddonConfig from the stores that three versions of the add-on left.     *)
(***************************************************************************)
EXTENDS AddonConfig, TLC

NoAccounts == [a \in {} |-> NoEntry]

FreshStore ==
    [version |-> 0, accounts |-> NoAccounts, selected |-> Nobody, global |-> NoUrl,
     legacy |-> NoLegacy]

V1Store ==
    [FreshStore EXCEPT !.legacy = [url |-> "u", mailbox |-> "a", password |-> TRUE]]

V2Store ==
    [FreshStore EXCEPT
        !.version = 2,
        !.accounts = "a" :> [url |-> "u", password |-> TRUE]
                       @@ "b" :> [url |-> NoUrl, password |-> TRUE]]

V3Store ==
    [FreshStore EXCEPT
        !.version = 3,
        !.selected = "b",
        !.accounts = "a" :> [url |-> NoUrl, password |-> FALSE]
                       @@ "b" :> [url |-> "v", password |-> FALSE]]

AllStores == {FreshStore, V1Store, V2Store, V3Store}
CurrentStores == {V3Store}
V2Stores == {V2Store}
=============================================================================
