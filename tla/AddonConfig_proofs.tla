------------------------- MODULE AddonConfig_proofs -------------------------
(***************************************************************************)
(* The settings of the add-on, for any accounts, URLs, stores of older     *)
(* versions and bounds.  That the store keeps its shape holds for any      *)
(* number of messages under way; that a message changes one setting, and   *)
(* that the migration loses nothing, for one at a time.                    *)
(***************************************************************************)
EXTENDS AddonConfig, TLAPS

\* What storage.local.set may be given.
IsPatch(p) ==
    /\ DOMAIN p \subseteq {"version", "accounts", "selected", "global"}
    /\ DOMAIN p # {}
    /\ "version" \in DOMAIN p => p["version"] = 3
    /\ "accounts" \in DOMAIN p =>
          /\ DOMAIN p["accounts"] \subseteq Account
          /\ \A a \in DOMAIN p["accounts"] : p["accounts"][a] \in Entry
    /\ "selected" \in DOMAIN p => p["selected"] \in Account \cup {Nobody}
    /\ "global" \in DOMAIN p => p["global"] \in Urls

\* A message has a patch that fits; the mailbox of the v1 keys may still be unknown while
\* it is looked up.
PatchFits(c) ==
    /\ pc[c] = "matching" =>
          /\ DOMAIN patch[c] # {}
          /\ patch[c].selected \in Account => IsPatch(patch[c])
    /\ pc[c] \in {"migrating", "adopting", "writing"} => IsPatch(patch[c])

TypeInv ==
    /\ TypeOK
    /\ patch = [c \in Client |-> patch[c]]
    /\ \A c \in Client : PatchFits(c)

USE ConfigAssumption

-----------------------------------------------------------------------------
(***************************************************************************)
(* The operators on stores.                                                *)
(***************************************************************************)
LEMMA EntryTyped == ASSUME NEW s, IsStore(s), NEW a PROVE EntryOf(s, a) \in Entry
  BY DEF IsStore, EntryOf, Entry, NoEntry, Urls

LEMMA OrTyped == ASSUME NEW x \in Urls, NEW y \in Urls
                 PROVE  Or(x, y) \in Urls /\ (Or(x, y) = NoUrl <=> x = NoUrl /\ y = NoUrl)
  BY DEF Or

LEMMA MergeKeepsShape ==
    ASSUME NEW s, IsStore(s), NEW p, IsPatch(p)
    PROVE  IsStore(Merge(s, p))
  <1> DEFINE m == Merge(s, p)
  <1>1. DOMAIN m = DOMAIN s /\ DOMAIN s = {"version", "accounts", "selected", "global", "legacy"}
    BY DEF Merge, IsStore
  <1>2. \A k \in DOMAIN s : m[k] = IF k \in DOMAIN p THEN p[k] ELSE s[k]
    BY DEF Merge
  <1> HIDE DEF m
  <1>3. m["version"] \in {0, 2, 3}
    BY <1>1, <1>2 DEF IsStore, IsPatch
  <1>4. DOMAIN m["accounts"] \subseteq Account /\ \A a \in DOMAIN m["accounts"] : m["accounts"][a] \in Entry
    BY <1>1, <1>2 DEF IsStore, IsPatch
  <1>5. m["selected"] \in Account \cup {Nobody} /\ m["global"] \in Urls /\ m["legacy"] \in Legacy
    BY <1>1, <1>2 DEF IsStore, IsPatch
  <1> QED
    BY <1>1, <1>3, <1>4, <1>5 DEF IsStore, m

LEMMA ForgetKeepsShape ==
    ASSUME NEW s, IsStore(s)
    PROVE  IsStore([s EXCEPT !.legacy = NoLegacy])
  <1> DEFINE m == [s EXCEPT !.legacy = NoLegacy]
  <1>1. DOMAIN m = DOMAIN s /\ m["legacy"] = NoLegacy /\ \A k \in DOMAIN s : k # "legacy" => m[k] = s[k]
    BY DEF IsStore
  <1>2. NoLegacy \in Legacy
    BY DEF NoLegacy, Legacy, Urls
  <1> HIDE DEF m
  <1>3. IsStore(m)
    BY <1>1, <1>2 DEF IsStore
  <1> QED
    BY <1>3 DEF m

LEMMA WithEntryTyped ==
    ASSUME NEW s, IsStore(s), NEW a \in Account, NEW e \in Entry
    PROVE  /\ DOMAIN WithEntry(s, a, e) \subseteq Account
           /\ \A x \in DOMAIN WithEntry(s, a, e) : WithEntry(s, a, e)[x] \in Entry
  BY DEF WithEntry, IsStore

LEMMA UpgradeIsPatch ==
    ASSUME NEW s, IsStore(s), managed \in Urls
    PROVE  IsPatch(Upgrade(s))
  <1>1. \A a \in DOMAIN WithoutPasswords(s) : WithoutPasswords(s)[a] \in Entry
    BY DEF WithoutPasswords, IsStore, Entry
  <1>2. DOMAIN WithoutPasswords(s) = DOMAIN s.accounts
    BY DEF WithoutPasswords
  <1>3. DefaultGlobal(s) \in Urls
    BY DEF DefaultGlobal, Or, IsStore
  <1> QED
    BY <1>1, <1>2, <1>3 DEF Upgrade, IsPatch, IsStore

LEMMA AdoptionIsPatch ==
    ASSUME NEW s, IsStore(s), managed \in Urls
    PROVE  /\ DOMAIN Adoption(s) = {"version", "accounts", "selected", "global"}
           /\ Adoption(s).selected = s.legacy.mailbox
           /\ Adoption(s).selected \in Account => IsPatch(Adoption(s))
  <1> DEFINE a == s.legacy.mailbox
             e == [url |-> Or(s.legacy.url, EntryOf(s, a).url), password |-> FALSE]
             g == Or(managed, Or(s.global, s.legacy.url))
  <1>1. s.legacy.url \in Urls /\ s.global \in Urls
    BY DEF IsStore, Legacy
  <1>2. e \in Entry
    <2>1. EntryOf(s, a).url \in Urls
      BY EntryTyped DEF Entry
    <2> QED
      BY <1>1, <2>1, OrTyped DEF Entry
  <1>3. g \in Urls
    BY <1>1, OrTyped
  <1>4. Adoption(s) = [version |-> 3, accounts |-> WithEntry(s, a, e), selected |-> a, global |-> g]
    BY DEF Adoption
  <1> HIDE DEF e, g
  <1>5. a \in Account => /\ DOMAIN WithEntry(s, a, e) \subseteq Account
                         /\ \A x \in DOMAIN WithEntry(s, a, e) : WithEntry(s, a, e)[x] \in Entry
    BY <1>2, WithEntryTyped
  <1> QED
    BY <1>3, <1>4, <1>5 DEF IsPatch

LEMMA SaveIsPatch ==
    ASSUME NEW s, IsStore(s), NEW o, o.account \in Account, o.url \in Urls
    PROVE  IsPatch(SavePatch(s, o))
  <1> DEFINE e == [url |-> o.url, password |-> FALSE]
  <1>1. e \in Entry
    BY DEF Entry
  <1> HIDE DEF e
  <1>2. /\ DOMAIN WithEntry(s, o.account, e) \subseteq Account
        /\ \A x \in DOMAIN WithEntry(s, o.account, e) : WithEntry(s, o.account, e)[x] \in Entry
    BY <1>1, WithEntryTyped
  <1> QED
    BY <1>2 DEF SavePatch, IsPatch, e

LEMMA DeleteIsPatch ==
    ASSUME NEW s, IsStore(s), NEW a
    PROVE  IsPatch(DeletePatch(s, a))
  BY DEF DeletePatch, IsPatch, IsStore

LEMMA OpTypes ==
    /\ NoOp \notin Ops
    /\ \A o \in Ops :
          /\ o.kind \in {"load", "delete", "save", "select", "global"}
          /\ o.kind \in {"load", "delete", "save"} => o.account \in Account
          /\ o.kind \in {"save", "global"} => o.url \in Urls
          /\ o.kind = "select" => o.account \in Account \cup {Nobody}
    /\ \A a \in Account : [kind |-> "delete", account |-> a] \in Ops
  BY DEF Ops, NoOp

-----------------------------------------------------------------------------
(***************************************************************************)
(* Types: what a step of one message leaves alone.                         *)
(***************************************************************************)
Busy == {"matching", "migrating", "adopting", "writing"}

LEMMA NoPatchIsEmpty == DOMAIN NoPatch = {}
  BY DEF NoPatch

LEMMA StepKeepsTypes ==
    ASSUME TypeInv, NEW c \in Client,
           IsStore(store'), managed' \in Urls, accounts' \subseteq Account,
           done' \in BOOLEAN, failed' \in BOOLEAN,
           ops' \in 0 .. MaxOps, restarts' \in 0 .. MaxRestarts,
           NEW o \in Ops \cup {NoOp}, NEW w \in Places, NEW p,
           op' = [op EXCEPT ![c] = o],
           pc' = [pc EXCEPT ![c] = w],
           patch' = [patch EXCEPT ![c] = p],
           w = "idle" <=> o = NoOp,
           w \in Busy <=> p # NoPatch,
           w = "matching" => DOMAIN p # {} /\ (p.selected \in Account => IsPatch(p)),
           w \in Busy \ {"matching"} => IsPatch(p)
    PROVE  TypeInv'
  <1>1. /\ op'[c] = o /\ pc'[c] = w /\ patch'[c] = p
        /\ \A d \in Client : d # c => op'[d] = op[d] /\ pc'[d] = pc[d] /\ patch'[d] = patch[d]
        /\ op' \in [Client -> Ops \cup {NoOp}] /\ pc' \in [Client -> Places]
        /\ patch' = [d \in Client |-> patch'[d]]
    BY DEF TypeInv, TypeOK
  <1>2. \A d \in Client : pc'[d] = "idle" <=> op'[d] = NoOp
    BY <1>1 DEF TypeInv, TypeOK
  <1>3. \A d \in Client : pc'[d] \in Busy <=> patch'[d] # NoPatch
    BY <1>1 DEF TypeInv, TypeOK, Busy
  <1>4. TypeOK'
    BY <1>1, <1>2, <1>3 DEF TypeOK, Busy
  <1>5. ASSUME NEW d \in Client PROVE PatchFits(d)'
    <2>1. CASE d # c
      BY <1>1, <2>1 DEF TypeInv, PatchFits, IsPatch
    <2>2. CASE d = c
      <3>1. IsPatch(p)' <=> IsPatch(p)
        BY DEF IsPatch
      <3> QED
        BY <1>1, <2>2, <3>1 DEF PatchFits, Busy
    <2> QED
      BY <2>1, <2>2
  <1> QED
    BY <1>1, <1>4, <1>5 DEF TypeInv

LEMMA Here ==
    ASSUME TypeInv, NEW c \in Client
    PROVE  /\ op[c] \in Ops \cup {NoOp} /\ op = [op EXCEPT ![c] = op[c]]
           /\ pc[c] \in Places /\ pc = [pc EXCEPT ![c] = pc[c]]
           /\ patch = [patch EXCEPT ![c] = patch[c]]
           /\ pc[c] = "idle" <=> op[c] = NoOp
           /\ pc[c] \in Busy <=> patch[c] # NoPatch
           /\ PatchFits(c)
           /\ IsStore(store) /\ managed \in Urls /\ accounts \subseteq Account
           /\ done \in BOOLEAN /\ failed \in BOOLEAN
           /\ ops \in 0 .. MaxOps /\ restarts \in 0 .. MaxRestarts
  BY DEF TypeInv, TypeOK, Busy

\* A patch that has a key is not the empty one.
LEMMA PatchIsSome == ASSUME NEW p, IsPatch(p) PROVE p # NoPatch
  BY NoPatchIsEmpty DEF IsPatch

LEMMA SetDirectlyTypes ==
    ASSUME TypeInv, NEW c \in Client, SetDirectly(c) PROVE TypeInv'
  <1> PICK o \in Ops :
        /\ o.kind \in {"select", "global"}
        /\ ops < MaxOps /\ ops' = ops + 1
        /\ op' = [op EXCEPT ![c] = o]
        /\ patch' = [patch EXCEPT ![c] = IF o.kind = "select"
                                         THEN [version |-> 3, selected |-> o.account]
                                         ELSE [version |-> 3, global |-> o.url]]
        /\ pc' = [pc EXCEPT ![c] = "writing"]
        /\ UNCHANGED <<store, managed, accounts, done, failed, restarts>>
    BY DEF SetDirectly, Handle, Plan, At
  <1> DEFINE p == IF o.kind = "select" THEN [version |-> 3, selected |-> o.account]
                                       ELSE [version |-> 3, global |-> o.url]
  <1>1. IsPatch(p)
    <2>1. CASE o.kind = "select"
      <3>1. IsPatch([version |-> 3, selected |-> o.account])
        BY <2>1, OpTypes DEF IsPatch
      <3> QED
        BY <2>1, <3>1
    <2>2. CASE o.kind # "select"
      <3>1. IsPatch([version |-> 3, global |-> o.url])
        BY <2>2, OpTypes DEF IsPatch
      <3> QED
        BY <2>2, <3>1
    <2> QED
      BY <2>1, <2>2
  <1>2. p # NoPatch /\ o # NoOp
    BY <1>1, PatchIsSome, OpTypes
  <1>3. IsStore(store') /\ ops' \in 0 .. MaxOps
    BY Here DEF IsStore
  <1>4. patch' = [patch EXCEPT ![c] = p]
    OBVIOUS
  <1> HIDE DEF p
  <1> QED
    BY <1>1, <1>2, <1>3, <1>4, Here, StepKeepsTypes DEF Places, Busy

LEMMA RequestTypes ==
    ASSUME TypeInv, NEW c \in Client, Request(c) PROVE TypeInv'
  <1>1. PICK o \in Ops :
        /\ ops < MaxOps /\ ops' = ops + 1
        /\ pc[c] = "idle"
        /\ op' = [op EXCEPT ![c] = o]
        /\ pc' = [pc EXCEPT ![c] = "loading"]
        /\ UNCHANGED <<store, managed, accounts, done, failed, patch, restarts>>
    BY DEF Request, Handle, At
  <1>2. o # NoOp /\ patch' = [patch EXCEPT ![c] = NoPatch]
    BY <1>1, Here, OpTypes DEF Busy
  <1>3. /\ IsStore(store')
        /\ managed' \in Urls /\ accounts' \subseteq Account
        /\ done' \in BOOLEAN /\ failed' \in BOOLEAN
        /\ ops' \in 0 .. MaxOps /\ restarts' \in 0 .. MaxRestarts
    BY <1>1, Here DEF IsStore
  <1> QED
    BY <1>1, <1>2, <1>3, StepKeepsTypes DEF Places, Busy

LEMMA AccountDeletedTypes ==
    ASSUME TypeInv, NEW c \in Client, AccountDeleted(c) PROVE TypeInv'
  <1>1. PICK a \in accounts :
        /\ ops < MaxOps /\ ops' = ops + 1
        /\ pc[c] = "idle"
        /\ op' = [op EXCEPT ![c] = [kind |-> "delete", account |-> a]]
        /\ accounts' = accounts \ {a}
        /\ pc' = [pc EXCEPT ![c] = "loading"]
        /\ UNCHANGED <<store, managed, done, failed, patch, restarts>>
    BY DEF AccountDeleted, Handle, At
  <1>2. PICK o : o = [kind |-> "delete", account |-> a]
    OBVIOUS
  <1>3. o \in Ops /\ o # NoOp /\ op' = [op EXCEPT ![c] = o]
    BY <1>1, <1>2, Here, OpTypes
  <1>4. patch' = [patch EXCEPT ![c] = NoPatch] /\ pc' = [pc EXCEPT ![c] = "loading"]
    BY <1>1, Here DEF Busy
  <1>5. /\ IsStore(store')
        /\ managed' \in Urls /\ accounts' \subseteq Account
        /\ done' \in BOOLEAN /\ failed' \in BOOLEAN
        /\ ops' \in 0 .. MaxOps /\ restarts' \in 0 .. MaxRestarts
    BY <1>1, Here DEF IsStore
  <1> QED
    BY <1>3, <1>4, <1>5, StepKeepsTypes DEF Places, Busy

LEMMA MigrateReadTypes ==
    ASSUME TypeInv, NEW c \in Client, MigrateRead(c) PROVE TypeInv'
  <1>1. /\ pc[c] = "loading" /\ patch[c] = NoPatch /\ op[c] # NoOp
        /\ UNCHANGED <<store, managed, accounts, failed, op, ops, restarts>>
    BY Here DEF MigrateRead, Busy
  <1>2. IsStore(store')
    BY <1>1, Here DEF IsStore
  <1>3. CASE done' = TRUE /\ UNCHANGED <<patch, pc>>
    <2>1. /\ patch' = [patch EXCEPT ![c] = NoPatch] /\ pc' = [pc EXCEPT ![c] = "loading"]
          /\ op[c] \in Ops \cup {NoOp} /\ op' = [op EXCEPT ![c] = op[c]]
      BY <1>1, <1>3, Here
    <2>2. /\ managed' \in Urls /\ accounts' \subseteq Account
          /\ done' \in BOOLEAN /\ failed' \in BOOLEAN
          /\ ops' \in 0 .. MaxOps /\ restarts' \in 0 .. MaxRestarts
      BY <1>1, <1>3, Here
    <2> QED
      BY <1>1, <1>2, <2>1, <2>2, StepKeepsTypes DEF Places, Busy
  <1>4. ASSUME NEW p, patch' = [patch EXCEPT ![c] = p], UNCHANGED done,
               NEW w \in {"migrating", "matching"}, pc' = [pc EXCEPT ![c] = w],
               DOMAIN p # {},
               w = "migrating" \/ p.selected \in Account => IsPatch(p)
        PROVE  TypeInv'
    <2>1. p # NoPatch
      BY <1>4, NoPatchIsEmpty
    <2> QED
      BY <1>1, <1>2, <1>4, <2>1, Here, StepKeepsTypes DEF Places, Busy
  <1>5. CASE patch' = [patch EXCEPT ![c] = [global |-> managed]]
             /\ pc' = [pc EXCEPT ![c] = "migrating"] /\ UNCHANGED done
    <2> DEFINE p == [global |-> managed]
    <2>1. IsPatch(p)
      BY Here DEF IsPatch
    <2> HIDE DEF p
    <2> QED
      BY <1>4, <1>5, <2>1 DEF IsPatch, p
  <1>6. CASE patch' = [patch EXCEPT ![c] = Adoption(store)]
             /\ pc' = [pc EXCEPT ![c] = "matching"] /\ UNCHANGED done
    <2>1. DOMAIN Adoption(store) # {} /\ (Adoption(store).selected \in Account => IsPatch(Adoption(store)))
      BY Here, AdoptionIsPatch
    <2> QED
      BY <1>4, <1>6, <2>1
  <1>7. CASE patch' = [patch EXCEPT ![c] = Upgrade(store)]
             /\ pc' = [pc EXCEPT ![c] = "migrating"] /\ UNCHANGED done
    <2>1. IsPatch(Upgrade(store)) /\ DOMAIN Upgrade(store) # {}
      BY Here, UpgradeIsPatch DEF IsPatch
    <2> QED
      BY <1>4, <1>7, <2>1
  <1> QED
    BY <1>3, <1>5, <1>6, <1>7 DEF MigrateRead, Ready, Plan, At

LEMMA MigrateMatchTypes ==
    ASSUME TypeInv, NEW c \in Client, MigrateMatch(c) PROVE TypeInv'
  <1>1. /\ pc[c] = "matching" /\ op[c] # NoOp /\ patch[c] # NoPatch
        /\ UNCHANGED <<store, managed, accounts, op, ops, restarts>>
    BY Here DEF MigrateMatch, Busy
  <1>2. IsStore(store')
    BY <1>1, Here DEF IsStore
  <1>3. CASE patch[c].selected \in accounts /\ pc' = [pc EXCEPT ![c] = "adopting"]
             /\ UNCHANGED <<done, failed, patch>>
    <2>1. IsPatch(patch[c])
      BY <1>1, <1>3, Here DEF PatchFits
    <2> QED
      BY <1>1, <1>2, <1>3, <2>1, Here, StepKeepsTypes DEF Places, Busy
  <1>4. CASE failed' = TRUE /\ done' = TRUE /\ patch' = [patch EXCEPT ![c] = NoPatch]
             /\ pc' = [pc EXCEPT ![c] = "loading"]
    BY <1>1, <1>2, <1>4, Here, StepKeepsTypes DEF Places, Busy
  <1> QED
    BY <1>3, <1>4 DEF MigrateMatch, Ready, Plan, At

LEMMA MigrateWriteTypes ==
    ASSUME TypeInv, NEW c \in Client, MigrateWrite(c) PROVE TypeInv'
  <1>1. /\ pc[c] = "migrating" /\ op[c] # NoOp /\ IsPatch(patch[c])
        /\ store' = Merge(store, patch[c]) /\ done' = TRUE
        /\ patch' = [patch EXCEPT ![c] = NoPatch]
        /\ pc' = [pc EXCEPT ![c] = "loading"]
        /\ UNCHANGED <<managed, accounts, failed, op, ops, restarts>>
    BY Here DEF MigrateWrite, Ready, Plan, At, PatchFits
  <1>2. IsStore(store')
    <2>1. IsStore(Merge(store, patch[c]))
      BY <1>1, Here, MergeKeepsShape
    <2> QED
      BY <1>1, <2>1
  <1> QED
    BY <1>1, <1>2, Here, StepKeepsTypes DEF Places, Busy

LEMMA AdoptTypes ==
    ASSUME TypeInv, NEW c \in Client, Adopt(c) PROVE TypeInv'
  <1>1. /\ pc[c] = "adopting" /\ op[c] # NoOp /\ IsPatch(patch[c])
        /\ store' = Merge(store, patch[c])
        /\ patch' = [patch EXCEPT ![c] = NoPatch]
        /\ pc' = [pc EXCEPT ![c] = "removing"]
        /\ UNCHANGED <<managed, accounts, done, failed, op, ops, restarts>>
    BY Here DEF Adopt, Plan, At, PatchFits
  <1>2. IsStore(store')
    <2>1. IsStore(Merge(store, patch[c]))
      BY <1>1, Here, MergeKeepsShape
    <2> QED
      BY <1>1, <2>1
  <1> QED
    BY <1>1, <1>2, Here, StepKeepsTypes DEF Places, Busy

LEMMA RemoveLegacyTypes ==
    ASSUME TypeInv, NEW c \in Client, RemoveLegacy(c) PROVE TypeInv'
  <1>1. /\ pc[c] = "removing" /\ op[c] # NoOp /\ patch[c] = NoPatch
        /\ store' = [store EXCEPT !.legacy = NoLegacy]
        /\ failed' = FALSE /\ done' = TRUE
        /\ pc' = [pc EXCEPT ![c] = "loading"]
        /\ UNCHANGED <<managed, accounts, op, patch, ops, restarts>>
    BY Here DEF RemoveLegacy, Ready, At, Busy
  <1>2. IsStore(store')
    <2>1. IsStore([store EXCEPT !.legacy = NoLegacy])
      BY Here, ForgetKeepsShape
    <2> QED
      BY <1>1, <2>1
  <1>3. /\ patch' = [patch EXCEPT ![c] = NoPatch]
        /\ op[c] \in Ops \cup {NoOp} /\ op' = [op EXCEPT ![c] = op[c]]
    BY <1>1, Here
  <1>4. /\ managed' \in Urls /\ accounts' \subseteq Account
        /\ done' \in BOOLEAN /\ failed' \in BOOLEAN
        /\ ops' \in 0 .. MaxOps /\ restarts' \in 0 .. MaxRestarts
    BY <1>1, Here
  <1> QED
    BY <1>1, <1>2, <1>3, <1>4, StepKeepsTypes DEF Places, Busy

\* Load has three outcomes.
LEMMA LoadCases ==
    ASSUME NEW c \in Client, Load(c)
    PROVE  /\ pc[c] = "loading" /\ done
           /\ UNCHANGED <<store, managed, accounts, done, failed, ops, restarts>>
           /\ \/ /\ op[c].kind = "save"
                 /\ patch' = [patch EXCEPT ![c] = SavePatch(store, op[c])]
                 /\ pc' = [pc EXCEPT ![c] = "writing"]
                 /\ UNCHANGED op
              \/ /\ op[c].kind = "delete"
                 /\ patch' = [patch EXCEPT ![c] = DeletePatch(store, op[c].account)]
                 /\ pc' = [pc EXCEPT ![c] = "writing"]
                 /\ UNCHANGED op
              \/ /\ patch' = [patch EXCEPT ![c] = NoPatch]
                 /\ pc' = [pc EXCEPT ![c] = "idle"]
                 /\ op' = [op EXCEPT ![c] = NoOp]
  BY DEF Load, Plan, At, Finish

LEMMA LoadTypes ==
    ASSUME TypeInv, NEW c \in Client, Load(c) PROVE TypeInv'
  <1>1. /\ pc[c] = "loading" /\ op[c] # NoOp /\ op[c] \in Ops
        /\ UNCHANGED <<store, managed, accounts, done, failed, ops, restarts>>
    BY Here, LoadCases
  <1>2. /\ IsStore(store')
        /\ managed' \in Urls /\ accounts' \subseteq Account
        /\ done' \in BOOLEAN /\ failed' \in BOOLEAN
        /\ ops' \in 0 .. MaxOps /\ restarts' \in 0 .. MaxRestarts
    BY <1>1, Here DEF IsStore
  <1>3. ASSUME NEW p, IsPatch(p), patch' = [patch EXCEPT ![c] = p],
               pc' = [pc EXCEPT ![c] = "writing"], UNCHANGED op
        PROVE  TypeInv'
    <2>1. p # NoPatch /\ op' = [op EXCEPT ![c] = op[c]]
      BY <1>3, Here, PatchIsSome
    <2> QED
      BY <1>1, <1>2, <1>3, <2>1, StepKeepsTypes DEF Places, Busy
  <1>4. CASE op[c].kind = "save" /\ patch' = [patch EXCEPT ![c] = SavePatch(store, op[c])]
             /\ pc' = [pc EXCEPT ![c] = "writing"] /\ UNCHANGED op
    <2>1. op[c].account \in Account /\ op[c].url \in Urls
      BY <1>1, <1>4, OpTypes
    <2>2. IsPatch(SavePatch(store, op[c]))
      BY <2>1, Here, SaveIsPatch
    <2> QED
      BY <1>3, <1>4, <2>2
  <1>5. CASE patch' = [patch EXCEPT ![c] = DeletePatch(store, op[c].account)]
             /\ pc' = [pc EXCEPT ![c] = "writing"] /\ UNCHANGED op
    <2>1. IsPatch(DeletePatch(store, op[c].account))
      BY Here, DeleteIsPatch
    <2> QED
      BY <1>3, <1>5, <2>1
  <1>6. CASE patch' = [patch EXCEPT ![c] = NoPatch] /\ pc' = [pc EXCEPT ![c] = "idle"]
             /\ op' = [op EXCEPT ![c] = NoOp]
    BY <1>2, <1>6, StepKeepsTypes DEF Places, Busy
  <1> QED
    BY <1>4, <1>5, <1>6, LoadCases

LEMMA WriteTypes ==
    ASSUME TypeInv, NEW c \in Client, Write(c) PROVE TypeInv'
  <1>1. /\ pc[c] = "writing" /\ IsPatch(patch[c])
        /\ store' = Merge(store, patch[c])
        /\ op' = [op EXCEPT ![c] = NoOp]
        /\ patch' = [patch EXCEPT ![c] = NoPatch]
        /\ pc' = [pc EXCEPT ![c] = "idle"]
        /\ UNCHANGED <<managed, accounts, done, failed, ops, restarts>>
    BY Here DEF Write, Finish, Plan, At, PatchFits
  <1>2. IsStore(store')
    <2>1. IsStore(Merge(store, patch[c]))
      BY <1>1, Here, MergeKeepsShape
    <2> QED
      BY <1>1, <2>1
  <1>3. /\ managed' \in Urls /\ accounts' \subseteq Account
        /\ done' \in BOOLEAN /\ failed' \in BOOLEAN
        /\ ops' \in 0 .. MaxOps /\ restarts' \in 0 .. MaxRestarts
    BY <1>1, Here
  <1> QED
    BY <1>1, <1>2, <1>3, StepKeepsTypes DEF Places, Busy

LEMMA QuietTypes ==
    ASSUME TypeInv, UNCHANGED <<op, pc, patch>>, IsStore(store'), managed' \in Urls,
           accounts' \subseteq Account, done' \in BOOLEAN, failed' \in BOOLEAN,
           ops' \in 0 .. MaxOps, restarts' \in 0 .. MaxRestarts
    PROVE  TypeInv'
  <1>1. TypeOK'
    BY DEF TypeInv, TypeOK
  <1>2. \A c \in Client : PatchFits(c)'
    BY DEF TypeInv, PatchFits, IsPatch
  <1> QED
    BY <1>1, <1>2 DEF TypeInv

LEMMA RestTypes ==
    ASSUME UNCHANGED store, IsStore(store), managed' \in Urls, accounts' \subseteq Account,
           done' = FALSE, failed' = FALSE,
           op' = [c \in Client |-> NoOp],
           pc' = [c \in Client |-> "idle"],
           patch' = [c \in Client |-> NoPatch],
           ops' \in 0 .. MaxOps, restarts' \in 0 .. MaxRestarts
    PROVE  TypeInv'
  <1>1. IsStore(store')
    BY DEF IsStore
  <1>2. TypeOK'
    BY <1>1 DEF TypeOK, Places
  <1>3. \A c \in Client : PatchFits(c)'
    BY DEF PatchFits
  <1> QED
    BY <1>2, <1>3 DEF TypeInv

LEMMA InitTypes == Init => TypeInv
  <1> SUFFICES ASSUME Init PROVE TypeInv
    OBVIOUS
  <1>1. IsStore(store)
    BY InitialStoresAssumption DEF Init
  <1>2. TypeOK
    <2>1. /\ managed \in Urls /\ accounts \subseteq Account
          /\ done \in BOOLEAN /\ failed \in BOOLEAN
      BY DEF Init
    <2>2. /\ op \in [Client -> Ops \cup {NoOp}] /\ pc \in [Client -> Places]
          /\ \A c \in Client : pc[c] = "idle" /\ op[c] = NoOp /\ patch[c] = NoPatch
      BY DEF Init, Places
    <2>3. ops \in 0 .. MaxOps /\ restarts \in 0 .. MaxRestarts
      BY DEF Init
    <2> QED
      BY <1>1, <2>1, <2>2, <2>3 DEF TypeOK
  <1>3. \A c \in Client : PatchFits(c)
    BY DEF Init, PatchFits
  <1> QED
    BY <1>2, <1>3 DEF TypeInv, Init

LEMMA NextTypes == TypeInv /\ [Next]_vars => TypeInv'
  <1> SUFFICES ASSUME TypeInv, [Next]_vars PROVE TypeInv'
    OBVIOUS
  <1>0. /\ IsStore(store) /\ managed \in Urls /\ accounts \subseteq Account
        /\ done \in BOOLEAN /\ failed \in BOOLEAN
        /\ ops \in 0 .. MaxOps /\ restarts \in 0 .. MaxRestarts
    BY DEF TypeInv, TypeOK
  <1>1. ASSUME NEW c \in Client, Step(c) PROVE TypeInv'
    BY <1>1, SetDirectlyTypes, RequestTypes, AccountDeletedTypes, MigrateReadTypes,
       MigrateMatchTypes, MigrateWriteTypes, AdoptTypes, RemoveLegacyTypes, LoadTypes,
       WriteTypes DEF Step
  <1>2. ASSUME NEW a \in Account, AccountAdded(a) PROVE TypeInv'
    <2>1. /\ UNCHANGED <<op, pc, patch>> /\ IsStore(store') /\ managed' \in Urls
          /\ accounts' \subseteq Account /\ done' \in BOOLEAN /\ failed' \in BOOLEAN
          /\ ops' \in 0 .. MaxOps /\ restarts' \in 0 .. MaxRestarts
      BY <1>0, <1>2 DEF AccountAdded, IsStore
    <2> QED
      BY <2>1, QuietTypes
  <1>3. CASE Restart
    <2>1. /\ UNCHANGED store /\ managed' \in Urls /\ accounts' \subseteq Account
          /\ done' = FALSE /\ failed' = FALSE
          /\ op' = [c \in Client |-> NoOp] /\ pc' = [c \in Client |-> "idle"]
          /\ patch' = [c \in Client |-> NoPatch]
          /\ ops' \in 0 .. MaxOps /\ restarts' \in 0 .. MaxRestarts
      BY <1>0, <1>3 DEF Restart
    <2> QED
      BY <1>0, <2>1, RestTypes
  <1>4. CASE UNCHANGED vars
    <2>1. /\ UNCHANGED <<op, pc, patch>> /\ IsStore(store') /\ managed' \in Urls
          /\ accounts' \subseteq Account /\ done' \in BOOLEAN /\ failed' \in BOOLEAN
          /\ ops' \in 0 .. MaxOps /\ restarts' \in 0 .. MaxRestarts
      BY <1>0, <1>4 DEF vars, IsStore
    <2> QED
      BY <2>1, QuietTypes
  <1> QED
    BY <1>1, <1>2, <1>3, <1>4 DEF Next

LEMMA PatchesFit == Spec => []TypeInv
  BY InitTypes, NextTypes, PTL DEF Spec

\* Whatever messages overlap and wherever the page stops, what is stored is a store that
\* the next reader understands, for any number of messages at once.
THEOREM StoreKeepsItsShape == Spec => []TypeOK
  <1>1. TypeInv => TypeOK
    BY DEF TypeInv
  <1> QED
    BY <1>1, PatchesFit, PTL

\* The two functions that look for an account's URL find the same one, in every store
\* that can come about.
THEOREM UrlSourcesAgree == Spec => []SourcesAgree
  <1>1. SourcesAgree
    <2> SUFFICES ASSUME NEW a \in Account, NEW derived \in Urls
                 PROVE  LET shown == UrlSource(store, a, derived)
                        IN  /\ shown.url = EffectiveUrl(store, a, derived)
                            /\ ConfigSource(store, a, derived, TRUE) = "managed"
                                 <=> shown.source = "managed"
      BY DEF SourcesAgree
    <2> DEFINE own == EntryOf(store, a).url
               shown == UrlSource(store, a, derived)
               url == EffectiveUrl(store, a, derived)
    <2>1. ConfigSource(store, a, derived, TRUE) =
            IF url = NoUrl THEN "none"
            ELSE IF managed # NoUrl /\ own = NoUrl THEN "managed" ELSE "manual"
      BY DEF ConfigSource
    <2>2. CASE own # NoUrl
      <3>1. url = own /\ shown.url = own /\ shown.source = "override"
        BY <2>2 DEF UrlSource, EffectiveUrl, Or
      <3> QED
        BY <2>1, <2>2, <3>1
    <2>3. CASE own = NoUrl /\ managed # NoUrl
      <3>1. url = managed /\ shown.url = managed /\ shown.source = "managed"
        BY <2>3 DEF UrlSource, EffectiveUrl, Or
      <3> QED
        BY <2>1, <2>3, <3>1
    <2>4. CASE own = NoUrl /\ managed = NoUrl
      <3>1. url = shown.url /\ shown.source # "managed"
        BY <2>4 DEF UrlSource, EffectiveUrl, GlobalUrl, Or
      <3> QED
        BY <2>1, <2>4, <3>1
    <2> QED
      BY <2>2, <2>3, <2>4
  <1> QED
    BY <1>1, PatchesFit, PTL

-----------------------------------------------------------------------------
(***************************************************************************)
(* One message at a time: what is planned before an await is still what    *)
(* the store calls for after it, because nobody else writes.  (With two    *)
(* it is not: one of two overlapping saves undoes the other.)              *)
(***************************************************************************)
OneAtATime == \A c, d \in Client : c = d

Moved(s) == s.legacy.url # NoUrl => EntryOf(s, s.legacy.mailbox).url = s.legacy.url

PlanIsCurrent(c) ==
    /\ pc[c] \in {"matching", "adopting"} =>
          /\ store.version # 3 /\ patch[c] = Adoption(store)
    /\ pc[c] = "adopting" => store.legacy.mailbox \in Account
    /\ pc[c] = "migrating" =>
          \/ /\ store.version = 3 /\ store.global = NoUrl /\ managed # NoUrl
             /\ patch[c] = [global |-> managed]
          \/ store.version # 3 /\ patch[c] = Upgrade(store)
    /\ pc[c] = "removing" => store.version = 3 /\ Moved(store)
    /\ pc[c] = "writing" =>
          \/ op[c].kind = "save" /\ patch[c] = SavePatch(store, op[c])
          \/ op[c].kind = "delete" /\ patch[c] = DeletePatch(store, op[c].account)
          \/ op[c].kind = "select" /\ patch[c] = [version |-> 3, selected |-> op[c].account]
          \/ op[c].kind = "global" /\ patch[c] = [version |-> 3, global |-> op[c].url]

PlanInv == TypeInv /\ \A c \in Client : PlanIsCurrent(c)

(***************************************************************************)
(* What each patch makes of a store.                                       *)
(***************************************************************************)
LEMMA MergeAt ==
    ASSUME NEW s, IsStore(s), NEW p
    PROVE  /\ Merge(s, p).version = IF "version" \in DOMAIN p THEN p["version"] ELSE s.version
           /\ Merge(s, p).accounts = IF "accounts" \in DOMAIN p THEN p["accounts"] ELSE s.accounts
           /\ Merge(s, p).selected = IF "selected" \in DOMAIN p THEN p["selected"] ELSE s.selected
           /\ Merge(s, p).global = IF "global" \in DOMAIN p THEN p["global"] ELSE s.global
           /\ Merge(s, p).legacy = IF "legacy" \in DOMAIN p THEN p["legacy"] ELSE s.legacy
  BY DEF Merge, IsStore

LEMMA EntryOfSame ==
    ASSUME NEW s, NEW t, s.accounts = t.accounts
    PROVE  \A a : EntryOf(s, a) = EntryOf(t, a)
  BY DEF EntryOf

LEMMA EntryOfWith ==
    ASSUME NEW s, NEW t, NEW a, NEW e, t.accounts = WithEntry(s, a, e)
    PROVE  \A x : EntryOf(t, x) = IF x = a THEN e ELSE EntryOf(s, x)
  BY DEF EntryOf, WithEntry

\* setSelectedAccountId, setBaseUrlGlobal, and the policy's URL under schema version 3.
LEMMA SelectShows ==
    ASSUME NEW s, IsStore(s), NEW x, NEW m, m = Merge(s, [version |-> 3, selected |-> x])
    PROVE  /\ m.version = 3 /\ m.selected = x
           /\ m.global = s.global /\ m.accounts = s.accounts
  BY MergeAt

LEMMA DefaultShows ==
    ASSUME NEW s, IsStore(s), NEW x, NEW m, m = Merge(s, [version |-> 3, global |-> x])
    PROVE  /\ m.version = 3 /\ m.global = x
           /\ m.selected = s.selected /\ m.accounts = s.accounts
  BY MergeAt

LEMMA PolicyShows ==
    ASSUME NEW s, IsStore(s), NEW x, NEW m, m = Merge(s, [global |-> x])
    PROVE  /\ m.version = s.version /\ m.global = x
           /\ m.selected = s.selected /\ m.accounts = s.accounts
  BY MergeAt

LEMMA SaveShows ==
    ASSUME NEW s, IsStore(s), NEW o, NEW b, NEW u, o.account = b, o.url = u,
           NEW m, m = Merge(s, SavePatch(s, o))
    PROVE  /\ m.version = 3 /\ m.selected = s.selected /\ m.global = s.global
           /\ \A a : EntryOf(m, a).url = IF a = b THEN u ELSE EntryOf(s, a).url
  <1> DEFINE e == [url |-> u, password |-> FALSE]
             p == SavePatch(s, o)
  <1>1. p = [version |-> 3, accounts |-> WithEntry(s, b, e)]
    BY DEF SavePatch
  <1>2. DOMAIN p = {"version", "accounts"} /\ p["version"] = 3
        /\ p["accounts"] = WithEntry(s, b, e)
    BY <1>1
  <1> HIDE DEF p
  <1>3. /\ m.version = 3 /\ m.selected = s.selected /\ m.global = s.global
        /\ m.accounts = WithEntry(s, b, e)
    BY <1>2, MergeAt DEF p
  <1>4. e.url = u
    OBVIOUS
  <1> HIDE DEF e
  <1>5. \A a : EntryOf(m, a).url = IF a = b THEN u ELSE EntryOf(s, a).url
    BY <1>3, <1>4, EntryOfWith
  <1> QED
    BY <1>3, <1>5

LEMMA DeleteShows ==
    ASSUME NEW s, IsStore(s), NEW a
    PROVE  LET m == Merge(s, DeletePatch(s, a))
           IN  /\ m.version = s.version /\ m.global = s.global /\ m.legacy = s.legacy
               /\ m.selected = IF s.selected = a THEN Nobody ELSE s.selected
               /\ \A x : EntryOf(m, x).url = IF x = a THEN NoUrl ELSE EntryOf(s, x).url
  <1> DEFINE left == [x \in DOMAIN s.accounts \ {a} |-> s.accounts[x]]
             p == DeletePatch(s, a)
             m == Merge(s, p)
  <1>1. /\ DOMAIN p = IF s.selected = a THEN {"accounts", "selected"} ELSE {"accounts"}
        /\ p["accounts"] = left
        /\ s.selected = a => p["selected"] = Nobody
    BY DEF DeletePatch
  <1> HIDE DEF p
  <1>2. /\ m.version = s.version /\ m.global = s.global /\ m.legacy = s.legacy
        /\ m.selected = IF s.selected = a THEN Nobody ELSE s.selected
        /\ m.accounts = left
    BY <1>1, MergeAt
  <1>3. \A x : x \in DOMAIN left <=> x \in DOMAIN s.accounts /\ x # a
    OBVIOUS
  <1>4. \A x : x \in DOMAIN left => left[x] = s.accounts[x]
    OBVIOUS
  <1> HIDE DEF m, left
  <1>5. \A x : EntryOf(m, x).url = IF x = a THEN NoUrl ELSE EntryOf(s, x).url
    BY <1>2, <1>3, <1>4 DEF EntryOf, NoEntry
  <1> QED
    BY <1>2, <1>5 DEF m, p

LEMMA UpgradeShows ==
    ASSUME NEW s, IsStore(s)
    PROVE  LET m == Merge(s, Upgrade(s))
           IN  /\ m.version = 3 /\ m.selected = s.selected /\ m.legacy = s.legacy
               /\ m.global = Or(s.global, managed)
               /\ \A a : EntryOf(m, a).url = EntryOf(s, a).url
  <1> DEFINE kept == IF s.version = 2 THEN WithoutPasswords(s) ELSE s.accounts
             p == Upgrade(s)
             m == Merge(s, p)
  <1>1. /\ DOMAIN p = {"version", "accounts", "global"} /\ p["version"] = 3
        /\ p["accounts"] = kept /\ p["global"] = Or(s.global, managed)
    BY DEF Upgrade, DefaultGlobal
  <1> HIDE DEF p
  <1>2. /\ m.version = 3 /\ m.selected = s.selected /\ m.legacy = s.legacy
        /\ m.global = Or(s.global, managed) /\ m.accounts = kept
    BY <1>1, MergeAt
  <1>3. /\ DOMAIN kept = DOMAIN s.accounts
        /\ \A a \in DOMAIN s.accounts : kept[a].url = s.accounts[a].url
    <2>1. DOMAIN WithoutPasswords(s) = DOMAIN s.accounts
      BY DEF WithoutPasswords
    <2>2. \A a \in DOMAIN s.accounts : WithoutPasswords(s)[a].url = s.accounts[a].url
      BY DEF WithoutPasswords, IsStore, Entry
    <2> QED
      BY <2>1, <2>2
  <1> HIDE DEF m, kept
  <1>4. \A a : EntryOf(m, a).url = EntryOf(s, a).url
    BY <1>2, <1>3 DEF EntryOf
  <1> QED
    BY <1>2, <1>4 DEF m, p

LEMMA AdoptionShows ==
    ASSUME NEW s, IsStore(s)
    PROVE  LET m == Merge(s, Adoption(s))
           IN  /\ m.version = 3 /\ m.selected = s.legacy.mailbox /\ m.legacy = s.legacy
               /\ m.global = Or(managed, Or(s.global, s.legacy.url))
               /\ \A a : EntryOf(m, a).url =
                           IF a = s.legacy.mailbox THEN Or(s.legacy.url, EntryOf(s, a).url)
                                                   ELSE EntryOf(s, a).url
               /\ Moved(m)
  <1> DEFINE b == s.legacy.mailbox
             u == Or(s.legacy.url, EntryOf(s, b).url)
             e == [url |-> u, password |-> FALSE]
             g == Or(managed, Or(s.global, s.legacy.url))
             p == Adoption(s)
             m == Merge(s, p)
  <1>1. /\ DOMAIN p = {"version", "accounts", "selected", "global"} /\ p["version"] = 3
        /\ p["accounts"] = WithEntry(s, b, e) /\ p["selected"] = b /\ p["global"] = g
    BY DEF Adoption
  <1> HIDE DEF p
  <1>2. /\ m.version = 3 /\ m.selected = b /\ m.legacy = s.legacy
        /\ m.global = g /\ m.accounts = WithEntry(s, b, e)
    BY <1>1, MergeAt
  <1>3. e.url = u
    OBVIOUS
  <1> HIDE DEF e, m
  <1>4. \A a : EntryOf(m, a).url = IF a = b THEN u ELSE EntryOf(s, a).url
    BY <1>2, <1>3, EntryOfWith
  <1>5. Moved(m)
    BY <1>2, <1>4 DEF Moved, Or
  <1> QED
    BY <1>2, <1>4, <1>5 DEF m, p

(***************************************************************************)
(* The plan stays current.                                                 *)
(***************************************************************************)
LEMMA Stepped ==
    ASSUME TypeInv, NEW c \in Client
    PROVE  /\ \A w : pc' = [pc EXCEPT ![c] = w] => pc'[c] = w
           /\ \A p : patch' = [patch EXCEPT ![c] = p] => patch'[c] = p
           /\ \A o : op' = [op EXCEPT ![c] = o] => op'[c] = o
  BY DEF TypeInv, TypeOK

LEMMA IdlePlan ==
    ASSUME NEW c \in Client, pc'[c] \in {"idle", "loading"}
    PROVE  PlanIsCurrent(c)'
  BY DEF PlanIsCurrent

LEMMA SetDirectlyPlan ==
    ASSUME PlanInv, NEW c \in Client, SetDirectly(c) PROVE PlanIsCurrent(c)'
  <1>1. PICK o \in Ops :
        /\ o.kind \in {"select", "global"}
        /\ op' = [op EXCEPT ![c] = o]
        /\ patch' = [patch EXCEPT ![c] = IF o.kind = "select"
                                         THEN [version |-> 3, selected |-> o.account]
                                         ELSE [version |-> 3, global |-> o.url]]
        /\ pc' = [pc EXCEPT ![c] = "writing"]
    BY DEF SetDirectly, Handle, Plan, At
  <1>2. /\ op'[c] = o /\ pc'[c] = "writing"
        /\ o.kind = "select" => patch'[c] = [version |-> 3, selected |-> o.account]
        /\ o.kind # "select" => patch'[c] = [version |-> 3, global |-> o.url]
    BY <1>1, Stepped DEF PlanInv
  <1>3. CASE o.kind = "select"
    <2>1. patch'[c] = [version |-> 3, selected |-> op'[c].account] /\ op'[c].kind = "select"
      BY <1>2, <1>3
    <2> QED
      BY <1>2, <2>1 DEF PlanIsCurrent
  <1>4. CASE o.kind = "global"
    <2>1. patch'[c] = [version |-> 3, global |-> op'[c].url] /\ op'[c].kind = "global"
      BY <1>2, <1>4
    <2> QED
      BY <1>2, <2>1 DEF PlanIsCurrent
  <1> QED
    BY <1>1, <1>3, <1>4

LEMMA MigrateReadPlan ==
    ASSUME PlanInv, NEW c \in Client, MigrateRead(c) PROVE PlanIsCurrent(c)'
  <1>1. pc[c] = "loading" /\ UNCHANGED <<store, managed, op>> /\ TypeInv
    BY DEF MigrateRead, PlanInv
  <1>2. CASE UNCHANGED <<patch, pc>>
    BY <1>1, <1>2, IdlePlan
  <1>3. CASE /\ store.version = 3 /\ store.global = NoUrl /\ managed # NoUrl
             /\ patch' = [patch EXCEPT ![c] = [global |-> managed]]
             /\ pc' = [pc EXCEPT ![c] = "migrating"]
    <2>1. pc'[c] = "migrating" /\ patch'[c] = [global |-> managed]
      BY <1>1, <1>3, Stepped
    <2>2. patch'[c] = [global |-> managed'] /\ store' = store /\ managed' = managed
      BY <1>1, <2>1
    <2> QED
      BY <1>3, <2>1, <2>2 DEF PlanIsCurrent
  <1>4. CASE /\ store.version # 3
             /\ patch' = [patch EXCEPT ![c] = Adoption(store)]
             /\ pc' = [pc EXCEPT ![c] = "matching"]
    <2>1. pc'[c] = "matching" /\ patch'[c] = Adoption(store)
      BY <1>1, <1>4, Stepped
    <2>2. Adoption(store)' = Adoption(store)
      BY <1>1 DEF Adoption, EntryOf, WithEntry, Or
    <2> QED
      BY <1>1, <1>4, <2>1, <2>2 DEF PlanIsCurrent
  <1>5. CASE /\ store.version # 3
             /\ patch' = [patch EXCEPT ![c] = Upgrade(store)]
             /\ pc' = [pc EXCEPT ![c] = "migrating"]
    <2>1. pc'[c] = "migrating" /\ patch'[c] = Upgrade(store)
      BY <1>1, <1>5, Stepped
    <2>2. Upgrade(store)' = Upgrade(store)
      BY <1>1 DEF Upgrade, WithoutPasswords, DefaultGlobal, Or
    <2> QED
      BY <1>1, <1>5, <2>1, <2>2 DEF PlanIsCurrent
  <1> QED
    BY <1>2, <1>3, <1>4, <1>5 DEF MigrateRead, Plan, At, Ready

LEMMA MigrateMatchPlan ==
    ASSUME PlanInv, NEW c \in Client, MigrateMatch(c) PROVE PlanIsCurrent(c)'
  <1>1. /\ pc[c] = "matching" /\ UNCHANGED <<store, managed, op>> /\ TypeInv
        /\ store.version # 3 /\ patch[c] = Adoption(store)
        /\ IsStore(store) /\ managed \in Urls /\ accounts \subseteq Account
    BY Here DEF MigrateMatch, PlanInv, PlanIsCurrent
  <1>2. CASE /\ patch[c].selected \in accounts /\ UNCHANGED patch
             /\ pc' = [pc EXCEPT ![c] = "adopting"]
    <2>1. pc'[c] = "adopting" /\ patch'[c] = Adoption(store)
      BY <1>1, <1>2, Stepped
    <2>2. Adoption(store)' = Adoption(store)
      BY <1>1 DEF Adoption, EntryOf, WithEntry, Or
    <2>3. store.legacy.mailbox \in Account
      BY <1>1, <1>2, AdoptionIsPatch
    <2> QED
      BY <1>1, <2>1, <2>2, <2>3 DEF PlanIsCurrent
  <1>3. CASE pc' = [pc EXCEPT ![c] = "loading"]
    BY <1>1, <1>3, Stepped, IdlePlan
  <1> QED
    BY <1>2, <1>3 DEF MigrateMatch, At

LEMMA AdoptPlan ==
    ASSUME PlanInv, NEW c \in Client, Adopt(c) PROVE PlanIsCurrent(c)'
  <1>1. /\ pc[c] = "adopting" /\ store' = Merge(store, patch[c]) /\ TypeInv
        /\ patch[c] = Adoption(store) /\ IsStore(store)
    BY Here DEF Adopt, PlanInv, PlanIsCurrent
  <1>2. pc'[c] = "removing"
    BY <1>1, Stepped DEF Adopt, At
  <1>3. Merge(store, Adoption(store)).version = 3 /\ Moved(Merge(store, Adoption(store)))
    BY <1>1, AdoptionShows
  <1>4. store'.version = 3 /\ Moved(store')
    BY <1>1, <1>3
  <1> QED
    BY <1>2, <1>4 DEF PlanIsCurrent, Moved, EntryOf

LEMMA LoadPlan ==
    ASSUME PlanInv, NEW c \in Client, Load(c) PROVE PlanIsCurrent(c)'
  <1>1. UNCHANGED store /\ TypeInv
    BY LoadCases DEF PlanInv
  <1>2. CASE /\ op[c].kind = "save" /\ UNCHANGED op
             /\ patch' = [patch EXCEPT ![c] = SavePatch(store, op[c])]
             /\ pc' = [pc EXCEPT ![c] = "writing"]
    <2>1. pc'[c] = "writing" /\ patch'[c] = SavePatch(store, op[c]) /\ op'[c] = op[c]
      BY <1>1, <1>2, Stepped
    <2>2. SavePatch(store, op[c])' = SavePatch(store, op[c])
      BY <1>1, <2>1 DEF SavePatch, WithEntry
    <2> QED
      BY <1>2, <2>1, <2>2 DEF PlanIsCurrent
  <1>3. CASE /\ op[c].kind = "delete" /\ UNCHANGED op
             /\ patch' = [patch EXCEPT ![c] = DeletePatch(store, op[c].account)]
             /\ pc' = [pc EXCEPT ![c] = "writing"]
    <2>1. pc'[c] = "writing" /\ patch'[c] = DeletePatch(store, op[c].account) /\ op'[c] = op[c]
      BY <1>1, <1>3, Stepped
    <2>2. DeletePatch(store, op[c].account)' = DeletePatch(store, op[c].account)
      BY <1>1, <2>1 DEF DeletePatch
    <2> QED
      BY <1>3, <2>1, <2>2 DEF PlanIsCurrent
  <1>4. CASE pc' = [pc EXCEPT ![c] = "idle"]
    BY <1>1, <1>4, Stepped, IdlePlan
  <1> QED
    BY <1>2, <1>3, <1>4, LoadCases

LEMMA StepPlan ==
    ASSUME PlanInv, NEW c \in Client, Step(c) PROVE PlanIsCurrent(c)'
  <1>1. TypeInv
    BY DEF PlanInv
  <1>2. CASE Request(c)
    BY <1>1, <1>2, Stepped, IdlePlan DEF Request, At
  <1>3. CASE AccountDeleted(c)
    BY <1>1, <1>3, Stepped, IdlePlan DEF AccountDeleted, At
  <1>4. CASE MigrateWrite(c)
    BY <1>1, <1>4, Stepped, IdlePlan DEF MigrateWrite, At
  <1>5. CASE RemoveLegacy(c)
    BY <1>1, <1>5, Stepped, IdlePlan DEF RemoveLegacy, At
  <1>6. CASE Write(c)
    BY <1>1, <1>6, Stepped, IdlePlan DEF Write, Finish, At
  <1> QED
    BY <1>2, <1>3, <1>4, <1>5, <1>6, SetDirectlyPlan, MigrateReadPlan, MigrateMatchPlan,
       AdoptPlan, LoadPlan DEF Step

LEMMA NextPlan == OneAtATime /\ PlanInv /\ [Next]_vars => PlanInv'
  <1> SUFFICES ASSUME OneAtATime, PlanInv, [Next]_vars PROVE PlanInv'
    OBVIOUS
  <1>1. TypeInv'
    BY NextTypes DEF PlanInv
  <1>2. ASSUME NEW c \in Client, Step(c) PROVE \A d \in Client : PlanIsCurrent(d)'
    BY <1>2, StepPlan DEF OneAtATime
  <1>3. CASE Restart
    <2>1. \A d \in Client : pc'[d] = "idle"
      BY <1>3 DEF Restart
    <2> QED
      BY <1>1, <2>1, IdlePlan DEF PlanInv
  <1>4. CASE UNCHANGED <<store, managed, op, pc, patch>>
    <2> SUFFICES ASSUME NEW d \in Client PROVE PlanIsCurrent(d)'
      BY <1>1 DEF PlanInv
    <2>1. /\ Adoption(store)' = Adoption(store) /\ Upgrade(store)' = Upgrade(store)
          /\ SavePatch(store, op[d])' = SavePatch(store, op[d])
          /\ DeletePatch(store, op[d].account)' = DeletePatch(store, op[d].account)
      BY <1>4 DEF Adoption, Upgrade, SavePatch, DeletePatch, EntryOf, WithEntry,
                  WithoutPasswords, DefaultGlobal, Or
    <2>2. PlanIsCurrent(d)
      BY DEF PlanInv
    <2> QED
      BY <1>4, <2>1, <2>2 DEF PlanIsCurrent, Moved, EntryOf
  <1> QED
    BY <1>1, <1>2, <1>3, <1>4 DEF Next, vars, AccountAdded, PlanInv

LEMMA InitPlan == Init => PlanInv
  <1> SUFFICES ASSUME Init PROVE PlanInv
    OBVIOUS
  <1>1. \A c \in Client : pc[c] = "idle"
    BY DEF Init
  <1>2. \A c \in Client : PlanIsCurrent(c)
    BY <1>1 DEF PlanIsCurrent
  <1> QED
    BY <1>2, InitTypes DEF PlanInv

LEMMA PlansAreCurrent == ASSUME OneAtATime PROVE Spec => []PlanInv
  <1>1. PlanInv /\ [Next]_vars => PlanInv'
    BY NextPlan
  <1> QED
    BY <1>1, InitPlan, PTL DEF Spec

-----------------------------------------------------------------------------
(***************************************************************************)
(* The two results for one message at a time.                              *)
(***************************************************************************)

\* The v1 keys are removed only when the URL they held stands at the account they named,
\* wherever the background page stops.
THEOREM MigrationLosesNothing == ASSUME OneAtATime PROVE Spec => LegacyKeysMoved
  <1> DEFINE Moves == store.legacy # NoLegacy /\ store'.legacy = NoLegacy =>
                        /\ store.version = 3
                        /\ store.legacy.url # NoUrl =>
                             EntryOf(store, store.legacy.mailbox).url = store.legacy.url
  <1>1. ASSUME PlanInv, [Next]_vars PROVE Moves
    <2>1. TypeInv /\ IsStore(store)
      BY <1>1 DEF PlanInv, TypeInv, TypeOK
    <2>2. ASSUME NEW c \in Client, Step(c) PROVE Moves
      <3>1. CASE RemoveLegacy(c)
        BY <1>1, <3>1 DEF RemoveLegacy, PlanInv, PlanIsCurrent, Moved
      <3>2. CASE /\ pc[c] \in {"migrating", "adopting", "writing"}
                 /\ store' = Merge(store, patch[c])
        <4>1. IsPatch(patch[c])
          BY <2>1, <3>2, Here DEF PatchFits
        <4>2. "legacy" \notin DOMAIN patch[c]
          BY <4>1 DEF IsPatch
        <4>3. store'.legacy = store.legacy
          BY <2>1, <3>2, <4>2, MergeAt
        <4> QED
          BY <4>3
      <3>3. CASE UNCHANGED store
        BY <3>3
      <3> QED
        BY <2>2, <3>1, <3>2, <3>3
        DEF Step, SetDirectly, Request, AccountDeleted, MigrateRead, MigrateMatch,
            MigrateWrite, Adopt, Load, Write
    <2>3. CASE UNCHANGED store
      BY <2>3
    <2> QED
      BY <1>1, <2>2, <2>3 DEF Next, AccountAdded, Restart, vars
  <1>2. PlanInv /\ [Next]_vars => [Moves]_vars
    BY <1>1
  <1> QED
    BY <1>2, PlansAreCurrent, PTL DEF Spec, LegacyKeysMoved

MappedUrls == [a \in Account |-> EntryOf(store, a).url]

\* ConfigStore's steps, read on the mapped table.
LEMMA TableSteps ==
    /\ Abstract!Init <=> /\ MappedUrls \in [Account -> Urls]
                         /\ store.selected \in Account \cup {Nobody}
                         /\ store.global \in Urls
                         /\ (store.version = 3) \in BOOLEAN
    /\ /\ MappedUrls' = MappedUrls /\ store'.selected = store.selected
       /\ store'.global = store.global /\ (store'.version = 3) = (store.version = 3)
       => [Abstract!Next]_(Abstract!vars)
    /\ \A a \in Account, u \in Urls :
          /\ MappedUrls' = [MappedUrls EXCEPT ![a] = u]
          /\ store'.version = 3
          /\ store'.selected = store.selected /\ store'.global = store.global
          => [Abstract!Next]_(Abstract!vars)
    /\ \A a \in Account :
          /\ MappedUrls' = [MappedUrls EXCEPT ![a] = NoUrl]
          /\ store'.selected = IF store.selected = a THEN Nobody ELSE store.selected
          /\ store'.global = store.global /\ (store'.version = 3) = (store.version = 3)
          => [Abstract!Next]_(Abstract!vars)
    /\ \A a \in Account \cup {Nobody} :
          /\ store'.selected = a /\ store'.version = 3
          /\ MappedUrls' = MappedUrls /\ store'.global = store.global
          => [Abstract!Next]_(Abstract!vars)
    /\ \A u \in Urls :
          /\ store'.global = u /\ store'.version = 3
          /\ MappedUrls' = MappedUrls /\ store'.selected = store.selected
          => [Abstract!Next]_(Abstract!vars)
    /\ /\ store.version # 3 /\ store'.version = 3
       /\ store'.global \in Urls /\ (store.global # NoUrl => store'.global # NoUrl)
       /\ \/ MappedUrls' = MappedUrls /\ store'.selected = store.selected
          \/ \E a \in Account, u \in Urls :
               /\ u = NoUrl => MappedUrls[a] = NoUrl
               /\ MappedUrls' = [MappedUrls EXCEPT ![a] = u]
               /\ store'.selected = a
       => [Abstract!Next]_(Abstract!vars)
  BY DEF Abstract!Init, Abstract!Next, Abstract!vars, Abstract!SetUrl, Abstract!Forget,
         Abstract!Select, Abstract!SetDefault, Abstract!TakeOver, MappedUrls

\* A step that leaves each account's URL as it is, or sets one.
LEMMA UrlsSame ==
    ASSUME \A a \in Account : EntryOf(store', a).url = EntryOf(store, a).url
    PROVE  MappedUrls' = MappedUrls
  <1>1. \A a \in Account : EntryOf(store, a)' = EntryOf(store', a)
    BY DEF EntryOf
  <1> QED
    BY <1>1 DEF MappedUrls

LEMMA UrlSet ==
    ASSUME NEW b \in Account, NEW u,
           \A a \in Account : EntryOf(store', a).url = IF a = b THEN u ELSE EntryOf(store, a).url
    PROVE  MappedUrls' = [MappedUrls EXCEPT ![b] = u]
  <1>1. \A a \in Account : EntryOf(store, a)' = EntryOf(store', a)
    BY DEF EntryOf
  <1> QED
    BY <1>1 DEF MappedUrls

LEMMA MigrateWriteMaps ==
    ASSUME PlanInv, NEW c \in Client, MigrateWrite(c)
    PROVE  [Abstract!Next]_(Abstract!vars)
  <1>0. IsStore(store)
    BY Here DEF PlanInv
  <1>1. /\ pc[c] = "migrating" /\ IsStore(store) /\ managed \in Urls
        /\ store' = Merge(store, patch[c])
    BY Here DEF MigrateWrite, PlanInv
  <1>2. CASE store.version = 3 /\ patch[c] = [global |-> managed]
    <2> PICK m : m = Merge(store, [global |-> managed])
      OBVIOUS
    <2>1. /\ m.version = store.version /\ m.global = managed
          /\ m.selected = store.selected /\ m.accounts = store.accounts
      BY <1>0, PolicyShows
    <2>2. store' = m
      BY <1>1, <1>2
    <2>3. MappedUrls' = MappedUrls
      <3>1. \A a : EntryOf(store', a) = EntryOf(store, a)
        BY <2>1, <2>2, EntryOfSame
      <3> QED
        BY <3>1, UrlsSame
    <2> QED
      BY <1>1, <1>2, <2>1, <2>2, <2>3, TableSteps
  <1>3. CASE store.version # 3 /\ patch[c] = Upgrade(store)
    <2> DEFINE m == Merge(store, Upgrade(store))
    <2>1. /\ m.version = 3 /\ m.selected = store.selected
          /\ m.global = Or(store.global, managed)
          /\ \A a : EntryOf(m, a).url = EntryOf(store, a).url
      BY <1>1, UpgradeShows
    <2>2. store' = m
      BY <1>1, <1>3
    <2> HIDE DEF m
    <2>3. MappedUrls' = MappedUrls
      BY <2>1, <2>2, UrlsSame
    <2>4. store'.global \in Urls /\ (store.global # NoUrl => store'.global # NoUrl)
      BY <1>1, <2>1, <2>2, OrTyped DEF IsStore
    <2> QED
      BY <1>3, <2>1, <2>2, <2>3, <2>4, TableSteps
  <1> QED
    BY <1>1, <1>2, <1>3 DEF PlanInv, PlanIsCurrent

LEMMA AdoptMaps ==
    ASSUME PlanInv, NEW c \in Client, Adopt(c)
    PROVE  [Abstract!Next]_(Abstract!vars)
  <1>1. /\ pc[c] = "adopting" /\ IsStore(store) /\ managed \in Urls
        /\ store' = Merge(store, patch[c]) /\ store.version # 3
        /\ patch[c] = Adoption(store) /\ store.legacy.mailbox \in Account
    BY Here DEF Adopt, PlanInv, PlanIsCurrent
  <1> DEFINE m == Merge(store, Adoption(store))
             b == store.legacy.mailbox
             u == Or(store.legacy.url, EntryOf(store, b).url)
  <1>2. /\ m.version = 3 /\ m.selected = b
        /\ m.global = Or(managed, Or(store.global, store.legacy.url))
        /\ \A a : EntryOf(m, a).url = IF a = b THEN Or(store.legacy.url, EntryOf(store, a).url)
                                              ELSE EntryOf(store, a).url
    BY <1>1, AdoptionShows
  <1>3. store' = m
    BY <1>1
  <1>4. u \in Urls /\ (u = NoUrl => EntryOf(store, b).url = NoUrl)
    <2>1. EntryOf(store, b).url \in Urls /\ store.legacy.url \in Urls
      BY <1>1, EntryTyped DEF Entry, IsStore, Legacy
    <2> QED
      BY <2>1, OrTyped
  <1>5. m.global \in Urls /\ (store.global # NoUrl => m.global # NoUrl)
    <2>1. store.global \in Urls /\ store.legacy.url \in Urls
      BY <1>1 DEF IsStore, Legacy
    <2> QED
      BY <1>1, <1>2, <2>1, OrTyped
  <1> HIDE DEF m
  <1>6. PICK v \in Urls : v = u
    BY <1>4
  <1>7. PICK d \in Account : d = b
    BY <1>1
  <1>8. MappedUrls' = [MappedUrls EXCEPT ![d] = v]
    <2>1. \A a \in Account : EntryOf(store', a).url = IF a = d THEN v ELSE EntryOf(store, a).url
      BY <1>2, <1>3, <1>6, <1>7
    <2> QED
      BY <2>1, UrlSet
  <1>9. v = NoUrl => MappedUrls[d] = NoUrl
    BY <1>4, <1>6, <1>7 DEF MappedUrls
  <1>10. /\ store'.version = 3 /\ store'.selected = d
         /\ store'.global \in Urls /\ (store.global # NoUrl => store'.global # NoUrl)
    BY <1>2, <1>3, <1>5, <1>7
  <1> QED
    BY <1>1, <1>8, <1>9, <1>10, TableSteps

LEMMA RemoveLegacyMaps ==
    ASSUME PlanInv, NEW c \in Client, RemoveLegacy(c)
    PROVE  [Abstract!Next]_(Abstract!vars)
  <1>1. IsStore(store) /\ store' = [store EXCEPT !.legacy = NoLegacy]
    BY DEF RemoveLegacy, PlanInv, TypeInv, TypeOK
  <1>2. /\ store'.version = store.version /\ store'.selected = store.selected
        /\ store'.global = store.global /\ store'.accounts = store.accounts
    BY <1>1 DEF IsStore
  <1>3. MappedUrls' = MappedUrls
    <2>1. \A a : EntryOf(store', a) = EntryOf(store, a)
      BY <1>2, EntryOfSame
    <2> QED
      BY <2>1, UrlsSame
  <1> QED
    BY <1>2, <1>3, TableSteps

LEMMA WriteMaps ==
    ASSUME PlanInv, NEW c \in Client, Write(c)
    PROVE  [Abstract!Next]_(Abstract!vars)
  <1>0. IsStore(store)
    BY Here DEF PlanInv
  <1>1. /\ pc[c] = "writing" /\ IsStore(store) /\ op[c] \in Ops
        /\ store' = Merge(store, patch[c])
    BY Here DEF Write, PlanInv
  <1>2. CASE op[c].kind = "save" /\ patch[c] = SavePatch(store, op[c])
    <2> PICK o : o = op[c]
      OBVIOUS
    <2> PICK m : m = Merge(store, SavePatch(store, o))
      OBVIOUS
    <2>1. store' = m /\ o.account \in Account /\ o.url \in Urls
      BY <1>1, <1>2, OpTypes
    <2>2. PICK b \in Account : o.account = b
      BY <2>1
    <2>3. PICK u \in Urls : o.url = u
      BY <2>1
    <2>4. /\ m.version = 3 /\ m.selected = store.selected /\ m.global = store.global
          /\ \A a : EntryOf(m, a).url = IF a = b THEN u ELSE EntryOf(store, a).url
      BY <1>0, <2>2, <2>3, SaveShows
    <2>5. MappedUrls' = [MappedUrls EXCEPT ![b] = u]
      <3>1. \A a \in Account : EntryOf(store', a).url = IF a = b THEN u ELSE EntryOf(store, a).url
        BY <2>4, <2>1, <2>2, <2>3
      <3> QED
        BY <3>1, UrlSet
    <2> QED
      BY <2>4, <2>1, <2>5, TableSteps
  <1>3. CASE op[c].kind = "delete" /\ patch[c] = DeletePatch(store, op[c].account)
    <2>1. PICK b \in Account : b = op[c].account
      BY <1>1, <1>3, OpTypes
    <2> DEFINE m == Merge(store, DeletePatch(store, b))
    <2>2. /\ m.version = store.version /\ m.global = store.global
          /\ m.selected = IF store.selected = b THEN Nobody ELSE store.selected
          /\ \A a : EntryOf(m, a).url = IF a = b THEN NoUrl ELSE EntryOf(store, a).url
      BY <1>1, DeleteShows
    <2>3. store' = m
      BY <1>1, <1>3, <2>1
    <2> HIDE DEF m
    <2>4. MappedUrls' = [MappedUrls EXCEPT ![b] = NoUrl]
      <3>1. \A a \in Account : EntryOf(store', a).url = IF a = b THEN NoUrl ELSE EntryOf(store, a).url
        BY <2>2, <2>3
      <3> QED
        BY <3>1, UrlSet
    <2> QED
      BY <2>2, <2>3, <2>4, TableSteps
  <1>4. CASE op[c].kind = "select" /\ patch[c] = [version |-> 3, selected |-> op[c].account]
    <2>1. PICK b \in Account \cup {Nobody} : b = op[c].account
      BY <1>1, <1>4, OpTypes
    <2> PICK m : m = Merge(store, [version |-> 3, selected |-> b])
      OBVIOUS
    <2>2. /\ m.version = 3 /\ m.selected = b
          /\ m.global = store.global /\ m.accounts = store.accounts
      BY <1>0, SelectShows
    <2>3. store' = m
      BY <1>1, <1>4, <2>1
    <2>4. MappedUrls' = MappedUrls
      <3>1. \A a : EntryOf(store', a) = EntryOf(store, a)
        BY <2>2, <2>3, EntryOfSame
      <3> QED
        BY <3>1, UrlsSame
    <2> QED
      BY <2>2, <2>3, <2>4, TableSteps
  <1>5. CASE op[c].kind = "global" /\ patch[c] = [version |-> 3, global |-> op[c].url]
    <2>1. PICK u \in Urls : u = op[c].url
      BY <1>1, <1>5, OpTypes
    <2> PICK m : m = Merge(store, [version |-> 3, global |-> u])
      OBVIOUS
    <2>2. /\ m.version = 3 /\ m.global = u
          /\ m.selected = store.selected /\ m.accounts = store.accounts
      BY <1>0, DefaultShows
    <2>3. store' = m
      BY <1>1, <1>5, <2>1
    <2>4. MappedUrls' = MappedUrls
      <3>1. \A a : EntryOf(store', a) = EntryOf(store, a)
        BY <2>2, <2>3, EntryOfSame
      <3> QED
        BY <3>1, UrlsSame
    <2> QED
      BY <2>2, <2>3, <2>4, TableSteps
  <1> QED
    BY <1>1, <1>2, <1>3, <1>4, <1>5 DEF PlanInv, PlanIsCurrent

LEMMA QuietMaps == ASSUME UNCHANGED store PROVE [Abstract!Next]_(Abstract!vars)
  <1>1. MappedUrls' = MappedUrls
    BY UrlsSame
  <1> QED
    BY <1>1, TableSteps

LEMMA InitTable == Init => Abstract!Init
  <1> SUFFICES ASSUME Init PROVE Abstract!Init
    OBVIOUS
  <1>1. IsStore(store)
    BY InitialStoresAssumption DEF Init
  <1>2. \A a \in Account : EntryOf(store, a).url \in Urls
    BY <1>1, EntryTyped DEF Entry
  <1>3. MappedUrls \in [Account -> Urls]
    BY <1>2 DEF MappedUrls
  <1> QED
    BY <1>1, <1>3, TableSteps DEF IsStore

\* A message changes the one setting it names, and an older version's settings are taken
\* over once and none of them dropped, whatever the stores, accounts and policies.
THEOREM OneSettingAtATime == ASSUME OneAtATime PROVE Spec => ImplementsStore
  <1>1. PlanInv /\ [Next]_vars => [Abstract!Next]_(Abstract!vars)
    <2> SUFFICES ASSUME PlanInv, [Next]_vars PROVE [Abstract!Next]_(Abstract!vars)
      OBVIOUS
    <2>1. ASSUME NEW c \in Client, Step(c) PROVE [Abstract!Next]_(Abstract!vars)
      <3>1. CASE UNCHANGED store
        BY <3>1, QuietMaps
      <3> QED
        BY <2>1, <3>1, MigrateWriteMaps, AdoptMaps, RemoveLegacyMaps, WriteMaps
        DEF Step, SetDirectly, Request, AccountDeleted, MigrateRead, MigrateMatch, Load
    <2>2. CASE UNCHANGED store
      BY <2>2, QuietMaps
    <2> QED
      BY <2>1, <2>2 DEF Next, AccountAdded, Restart, vars
  <1> QED
    BY <1>1, InitTable, PlansAreCurrent, PTL DEF Spec, ImplementsStore, Abstract!Spec
=============================================================================
