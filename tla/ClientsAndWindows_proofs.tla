------------------------ MODULE ClientsAndWindows_proofs ----------------------
(***************************************************************************)
(* What the background page keeps beside the rules: its windows, and its   *)
(* proxy clients.                                                          *)
(***************************************************************************)
EXTENDS OpenWindow, ClientCache, FiniteSetTheorems, TLAPS

(***************************************************************************)
(* One window of each kind, and the message it shows, for any messages and *)
(* any number of windows, clicks and failed calls.                         *)
(*                                                                         *)
(* That there is one window is not inductive: a second one is made unless  *)
(* there is none when windows.create is called, and that holds because an  *)
(* opening comes there either from a search that found none or from the    *)
(* loss of the only window that a search had found.                        *)
(***************************************************************************)
Openings ==
    [phase : Phases, message : Message \cup {NoMessage}, window : Nat, scanned : BOOLEAN]
Shown == [kind : Kinds, message : Message \cup {NoMessage}]

TypeOK ==
    /\ made \in Nat
    /\ DOMAIN windows \subseteq 1 .. made /\ windows \in [DOMAIN windows -> Shown]
    /\ known \in [Kinds -> 0 .. made]
    /\ opening \in [Kinds -> Openings]
    /\ \A k \in Kinds : opening[k].window <= made

\* Only an opening that searched the tabs is marked so.
SearchedOnce == \A k \in Kinds : opening[k].phase \in {"cached", "search"} => ~opening[k].scanned

\* Only the wizard's page is loaded again.
ManagerNeverLoads == opening["manager"].phase \notin {"cached", "load"}

OneOfKind == \A k \in Kinds : k \in blind \/ \A v, w \in OfKind(k) : v = w

\* The window a search found is the only one.
FoundTheOnly ==
    \A k \in Kinds :
        k \notin blind /\ opening[k].scanned /\ opening[k].phase \in {"load", "focus"}
            => OfKind(k) \subseteq {opening[k].window}

NoneAtCreate ==
    \A k \in Kinds : k \notin blind /\ opening[k].phase = "create" => OfKind(k) = {}

\* Once loaded or made, the wizard shows the message it was opened for, if it is open.
WizardShowsOwn ==
    LET o == opening["wizard"]
    IN  o.phase \in {"focus", "made"} /\ o.window \in DOMAIN windows
          => windows[o.window].message = o.message

IInv ==
    /\ TypeOK
    /\ SearchedOnce /\ ManagerNeverLoads
    /\ OneOfKind /\ FoundTheOnly /\ NoneAtCreate
    /\ WizardShowsOwn

USE DEF None

-----------------------------------------------------------------------------
LEMMA InitIInv == Init => IInv
  <1> SUFFICES ASSUME Init PROVE IInv
    OBVIOUS
  <1>1. /\ DOMAIN windows = {} /\ windows \in [DOMAIN windows -> Shown] /\ made = 0
        /\ \A k \in Kinds : OfKind(k) = {}
    BY DEF Init, OfKind
  <1>2. Idle \in Openings /\ Idle.phase = "idle" /\ Idle.window = 0
    BY DEF Idle, Openings, Phases
  <1>3. TypeOK
    BY <1>1, <1>2 DEF Init, TypeOK
  <1> QED
    BY <1>1, <1>2, <1>3 DEF Init, IInv, SearchedOnce, ManagerNeverLoads, OneOfKind, FoundTheOnly,
                            NoneAtCreate, WizardShowsOwn, Kinds

\* The state of an opening that may follow: what the invariant asks of it.
Sound(k, o) ==
    /\ o \in Openings /\ o.window <= made
    /\ o.phase \in {"cached", "search"} => ~o.scanned
    /\ k = "manager" => o.phase \notin {"cached", "load"}
    /\ k \notin blind' =>
          /\ o.scanned /\ o.phase \in {"load", "focus"} => OfKind(k) \subseteq {o.window}
          /\ o.phase = "create" => OfKind(k) = {}
    /\ k = "wizard" /\ o.phase \in {"focus", "made"} /\ o.window \in DOMAIN windows =>
          windows[o.window].message = o.message

\* A step that takes one opening to a sound state and leaves the windows keeps the invariant.
LEMMA SoundStep ==
    ASSUME IInv, NEW k \in Kinds, NEW o, Sound(k, o), opening' = [opening EXCEPT ![k] = o],
           known' \in [Kinds -> 0 .. made], UNCHANGED <<windows, made>>, blind \subseteq blind'
    PROVE  IInv'
  <1>1. \A j \in Kinds : OfKind(j)' = OfKind(j)
    BY DEF OfKind
  <1>2. /\ opening' \in [Kinds -> Openings] /\ opening'[k] = o
        /\ \A j \in Kinds \ {k} : opening'[j] = opening[j]
    BY DEF IInv, TypeOK, Sound
  <1>3. TypeOK'
    BY <1>2 DEF IInv, TypeOK, Sound
  <1>4. SearchedOnce' /\ ManagerNeverLoads'
    BY <1>2 DEF IInv, SearchedOnce, ManagerNeverLoads, Sound, Kinds
  <1>5. OneOfKind'
    BY <1>1 DEF IInv, OneOfKind
  <1>6. FoundTheOnly'
    BY <1>1, <1>2 DEF IInv, FoundTheOnly, Sound
  <1>7. NoneAtCreate'
    BY <1>1, <1>2 DEF IInv, NoneAtCreate, Sound
  <1>8. WizardShowsOwn'
    BY <1>2 DEF IInv, WizardShowsOwn, Sound, Kinds
  <1> QED
    BY <1>3, <1>4, <1>5, <1>6, <1>7, <1>8 DEF IInv

\* The state an opening is in satisfies what the invariant asks of it.
LEMMA SoundNow ==
    ASSUME IInv, NEW k \in Kinds, blind' = blind
    PROVE  Sound(k, opening[k])
  BY DEF IInv, TypeOK, SearchedOnce, ManagerNeverLoads, FoundTheOnly, NoneAtCreate,
         WizardShowsOwn, Sound

\* The other fields stay when the phase and the window of an opening change.
LEMMA ToStep ==
    ASSUME TypeOK, NEW k \in Kinds, NEW p \in Phases, NEW w \in 0 .. made, To(k, p, w)
    PROVE  \E o \in Openings :
              /\ opening' = [opening EXCEPT ![k] = o]
              /\ o.phase = p /\ o.window = w
              /\ o.message = opening[k].message /\ o.scanned = opening[k].scanned
  <1> DEFINE o == [opening[k] EXCEPT !.phase = p, !.window = w]
  <1>1. opening[k] \in Openings /\ w \in Nat
    BY DEF TypeOK
  <1>2. o \in Openings
    BY <1>1 DEF Openings
  <1>3. /\ o.phase = p /\ o.window = w
        /\ o.message = opening[k].message /\ o.scanned = opening[k].scanned
    BY <1>1 DEF Openings
  <1>4. opening' = [opening EXCEPT ![k] = o]
    BY DEF To, TypeOK
  <1> QED
    BY <1>2, <1>3, <1>4

\* A lost window: the opening searches, or makes one when it has searched before.
LEMMA GoneIInv ==
    ASSUME IInv, NEW k \in Kinds, Gone(k), UNCHANGED <<windows, made>>, blind \subseteq blind',
           opening[k].phase \in {"cached", "load", "focus"},
           opening[k].scanned => k \in blind' \/ opening[k].window \notin DOMAIN windows
    PROVE  IInv'
  <1> DEFINE p == IF opening[k].scanned THEN "create" ELSE "search"
  <1>1. p \in Phases /\ 0 \in 0 .. made /\ To(k, p, 0)
    BY DEF IInv, TypeOK, Phases, Gone
  <1> HIDE DEF p
  <1>2. PICK o \in Openings :
              /\ opening' = [opening EXCEPT ![k] = o]
              /\ o.phase = p /\ o.window = 0
              /\ o.message = opening[k].message /\ o.scanned = opening[k].scanned
    BY <1>1, ToStep DEF IInv
  <1>3. opening[k].scanned \in BOOLEAN /\ made \in Nat
    BY DEF IInv, TypeOK, Openings
  <1>4. opening[k].scanned /\ k \notin blind' => OfKind(k) = {}
    BY DEF IInv, FoundTheOnly, SearchedOnce, OfKind
  <1>5. Sound(k, o)
    BY <1>2, <1>3, <1>4 DEF Sound, p
  <1>6. known' \in [Kinds -> 0 .. made]
    BY DEF Gone, Remember, IInv, TypeOK
  <1> QED
    BY <1>2, <1>5, <1>6, SoundStep

LEMMA ClickIInv ==
    ASSUME IInv, NEW k \in Kinds, NEW m \in Message \cup {NoMessage}, Click(k, m)
    PROVE  IInv'
  <1>0. known' \in [Kinds -> 0 .. made] /\ blind' = blind /\ UNCHANGED <<windows, made>>
    BY DEF Click, IInv, TypeOK
  <1>1. CASE opening[k].phase # "idle"
    <2>1. opening' = [opening EXCEPT ![k] = opening[k]]
      BY <1>1 DEF Click, IInv, TypeOK
    <2> QED
      BY <1>0, <2>1, SoundNow, SoundStep
  <1>2. CASE opening[k].phase = "idle"
    <2> DEFINE o == [phase |-> FirstStep(k), message |-> m, window |-> known[k], scanned |-> FALSE]
    <2>1. opening' = [opening EXCEPT ![k] = o]
      BY <1>2 DEF Click, Idle
    <2>2. known[k] \in Nat /\ known[k] <= made
      BY DEF IInv, TypeOK
    <2>3. /\ FirstStep(k) \in {"search", "focus", "cached"}
          /\ FirstStep(k) = "cached" => k = "wizard"
          /\ FirstStep(k) = "focus" => k = "manager"
      BY DEF FirstStep, Kinds
    <2>4. o \in Openings
      BY <2>2, <2>3 DEF Openings, Phases
    <2>5. Sound(k, o)
      BY <2>2, <2>3, <2>4 DEF Sound
    <2> QED
      BY <1>0, <2>1, <2>5, SoundStep
  <1> QED
    BY <1>1, <1>2

LEMMA FindKnownIInv ==
    ASSUME IInv, NEW k \in Kinds, FindKnown(k)
    PROVE  IInv'
  <1>1. /\ opening[k].phase = "cached" /\ ~opening[k].scanned /\ k = "wizard"
        /\ UNCHANGED <<windows, made, blind>>
    BY DEF FindKnown, IInv, SearchedOnce, ManagerNeverLoads, Kinds
  <1>2. CASE Gone(k)
    BY <1>1, <1>2, GoneIInv
  <1>3. CASE To(k, "load", known[k]) /\ UNCHANGED known
    <2>1. known[k] \in 0 .. made /\ "load" \in Phases /\ known \in [Kinds -> 0 .. made]
      BY DEF IInv, TypeOK, Phases
    <2>2. PICK o \in Openings :
              /\ opening' = [opening EXCEPT ![k] = o]
              /\ o.phase = "load" /\ o.window = known[k]
              /\ o.message = opening[k].message /\ o.scanned = opening[k].scanned
      BY <1>3, <2>1, ToStep DEF IInv
    <2>3. Sound(k, o)
      BY <1>1, <2>1, <2>2 DEF Sound
    <2> QED
      BY <1>1, <1>3, <2>1, <2>2, <2>3, SoundStep
  <1> QED
    BY <1>2, <1>3 DEF FindKnown

\* A search that answers finds the only window or sees that there is none.
LEMMA SearchIInv ==
    ASSUME IInv, NEW k \in Kinds, Search(k)
    PROVE  IInv'
  <1>1. opening[k].phase = "search" /\ UNCHANGED <<windows, made>> /\ made \in Nat
    BY DEF Search, IInv, TypeOK
  <1>2. ASSUME NEW w \in OfKind(k), Remember(k, w), blind' = blind,
               opening' = [opening EXCEPT ![k] = [@ EXCEPT !.window = w, !.scanned = TRUE,
                               !.phase = IF k = "wizard" THEN "load" ELSE "focus"]]
        PROVE  IInv'
    <2> DEFINE p == IF k = "wizard" THEN "load" ELSE "focus"
               o == [opening[k] EXCEPT !.window = w, !.scanned = TRUE, !.phase = p]
    <2>1. w \in 1 .. made
      BY DEF IInv, TypeOK, OfKind
    <2>2. opening[k] \in Openings /\ w \in Nat
      BY <1>1, <2>1 DEF IInv, TypeOK
    <2>3. p \in Phases
      BY DEF Phases
    <2> HIDE DEF p
    <2>4. o \in Openings
      BY <2>2, <2>3 DEF Openings
    <2>5. o.window = w /\ o.scanned /\ o.phase = p
      BY <2>2, <2>3 DEF Openings
    <2>6. opening' = [opening EXCEPT ![k] = o]
      BY <1>2 DEF p
    <2> HIDE DEF o
    <2>7. k \notin blind => OfKind(k) \subseteq {w}
      BY DEF IInv, OneOfKind
    <2>8. Sound(k, o)
      BY <1>1, <1>2, <2>1, <2>4, <2>5, <2>7 DEF Sound, Kinds, p
    <2>9. known' \in [Kinds -> 0 .. made]
      BY <1>2, <2>1 DEF Remember, IInv, TypeOK
    <2> QED
      BY <1>1, <1>2, <2>6, <2>8, <2>9, SoundStep
  <1>3. ASSUME To(k, "create", None), UNCHANGED known, blind \subseteq blind',
               k \in blind' \/ OfKind(k) = {}
        PROVE  IInv'
    <2>1. "create" \in Phases /\ 0 \in 0 .. made /\ To(k, "create", 0)
      BY <1>1, <1>3 DEF Phases
    <2>2. PICK o \in Openings :
              /\ opening' = [opening EXCEPT ![k] = o]
              /\ o.phase = "create" /\ o.window = 0
              /\ o.message = opening[k].message /\ o.scanned = opening[k].scanned
      BY <2>1, ToStep DEF IInv
    <2>3. Sound(k, o)
      BY <1>1, <1>3, <2>2 DEF Sound
    <2>4. known' \in [Kinds -> 0 .. made]
      BY <1>3 DEF IInv, TypeOK
    <2> QED
      BY <1>1, <1>3, <2>2, <2>3, <2>4, SoundStep
  <1> QED
    BY <1>2, <1>3 DEF Search

\* An update that fails loses the window, or leaves a mark that it was not reached.
LEMMA UpdateFailsIInv ==
    ASSUME IInv, NEW k \in Kinds, UpdateFails(k), UNCHANGED <<windows, made>>,
           opening[k].phase \in {"load", "focus"}
    PROVE  IInv'
  <1>1. /\ Gone(k) /\ blind \subseteq blind'
        /\ opening[k].scanned => k \in blind' \/ opening[k].window \notin DOMAIN windows
    BY DEF UpdateFails
  <1> QED
    BY <1>1, GoneIInv

\* The page of the wizard's window is loaded with its own message; no window changes kind.
LEMMA LoadIInv ==
    ASSUME IInv, NEW k \in Kinds, Load(k)
    PROVE  IInv'
  <1> DEFINE w == opening[k].window
  <1>1. /\ opening[k].phase = "load" /\ k = "wizard" /\ UNCHANGED made /\ made \in Nat
        /\ w \in Nat /\ w <= made
    BY DEF Load, IInv, ManagerNeverLoads, Kinds, TypeOK, Openings
  <1> HIDE DEF w
  <1>2. CASE UpdateFails(k) /\ UNCHANGED windows
    BY <1>1, <1>2, UpdateFailsIInv
  <1>3. CASE ~ (UpdateFails(k) /\ UNCHANGED windows)
    <2>1. /\ windows' = [windows EXCEPT ![w].message = opening[k].message]
          /\ To(k, "focus", w) /\ known' = known /\ blind' = blind
          /\ w \in DOMAIN windows
      BY <1>3 DEF Load, w
    <2>2. opening[k].message \in Message \cup {NoMessage}
      BY DEF IInv, TypeOK, Openings
    <2>3. /\ DOMAIN windows' = DOMAIN windows
          /\ windows'[w].message = opening[k].message
          /\ \A v \in DOMAIN windows : windows'[v].kind = windows[v].kind
          /\ \A v \in DOMAIN windows : windows'[v] \in Shown
      BY <2>1, <2>2 DEF IInv, TypeOK, Shown
    <2>4. \A j \in Kinds : OfKind(j)' = OfKind(j)
      BY <2>3 DEF OfKind
    <2>5. "focus" \in Phases /\ w \in 0 .. made
      BY <1>1 DEF Phases
    <2>6. PICK o \in Openings :
              /\ opening' = [opening EXCEPT ![k] = o]
              /\ o.phase = "focus" /\ o.window = w
              /\ o.message = opening[k].message /\ o.scanned = opening[k].scanned
      BY <2>1, <2>5, ToStep DEF IInv
    <2>7. /\ opening' \in [Kinds -> Openings] /\ opening'[k] = o
          /\ \A j \in Kinds \ {k} : opening'[j] = opening[j]
      BY <2>6 DEF IInv, TypeOK
    <2>8. windows' \in [DOMAIN windows' -> Shown]
      BY <2>1, <2>3 DEF IInv, TypeOK
    <2>9. TypeOK'
      BY <1>1, <2>1, <2>3, <2>6, <2>7, <2>8 DEF IInv, TypeOK
    <2>10. SearchedOnce' /\ ManagerNeverLoads'
      BY <1>1, <2>6, <2>7 DEF IInv, SearchedOnce, ManagerNeverLoads, Kinds
    <2>11. OneOfKind' /\ FoundTheOnly' /\ NoneAtCreate'
      BY <1>1, <2>1, <2>4, <2>6, <2>7 DEF IInv, OneOfKind, FoundTheOnly, NoneAtCreate, w
    <2>12. WizardShowsOwn'
      BY <1>1, <2>3, <2>6, <2>7 DEF WizardShowsOwn
    <2> QED
      BY <2>9, <2>10, <2>11, <2>12 DEF IInv
  <1> QED
    BY <1>2, <1>3

\* An opening that ends is sound whatever came before.
LEMMA DoneIInv ==
    ASSUME IInv, NEW k \in Kinds, Done(k), UNCHANGED <<windows, made, blind>>,
           known' \in [Kinds -> 0 .. made]
    PROVE  IInv'
  <1>1. Idle \in Openings /\ Idle.phase = "idle" /\ Idle.window = 0 /\ made \in Nat
    BY DEF Idle, Openings, Phases, IInv, TypeOK
  <1>2. Sound(k, Idle)
    BY <1>1 DEF Sound
  <1> QED
    BY <1>2, SoundStep DEF Done

LEMMA FocusIInv ==
    ASSUME IInv, NEW k \in Kinds, Focus(k)
    PROVE  IInv'
  <1>1. UNCHANGED <<windows, made>> /\ opening[k].phase = "focus"
    BY DEF Focus
  <1>2. CASE Done(k) /\ UNCHANGED <<known, blind>>
    BY <1>1, <1>2, DoneIInv DEF IInv, TypeOK
  <1>3. CASE UpdateFails(k)
    BY <1>1, <1>3, UpdateFailsIInv
  <1> QED
    BY <1>2, <1>3 DEF Focus

LEMMA CreatedIInv ==
    ASSUME IInv, NEW k \in Kinds, Created(k)
    PROVE  IInv'
  <1>1. opening[k].window \in 0 .. made
    BY DEF IInv, TypeOK, Openings
  <1>2. known' \in [Kinds -> 0 .. made]
    BY <1>1 DEF Created, Remember, IInv, TypeOK
  <1> QED
    BY <1>2, DoneIInv DEF Created

\* The window that is made is the only one of its kind, and new to everybody.
LEMMA CreateIInv ==
    ASSUME IInv, NEW k \in Kinds, Create(k)
    PROVE  IInv'
  <1>1. opening[k].phase = "create" /\ UNCHANGED <<known, blind>> /\ made \in Nat
    BY DEF Create, IInv, TypeOK
  <1>2. CASE Done(k) /\ UNCHANGED <<windows, made>>
    BY <1>1, <1>2, DoneIInv DEF IInv, TypeOK
  <1>3. CASE ~ (Done(k) /\ UNCHANGED <<windows, made>>)
    <2> DEFINE new == [kind |-> k, message |-> opening[k].message]
    <2>1. /\ made' = made + 1
          /\ windows' = [w \in DOMAIN windows \cup {made'} |->
                           IF w = made' THEN new ELSE windows[w]]
          /\ To(k, "made", made')
      BY <1>3 DEF Create
    <2>2. made' \notin DOMAIN windows /\ made' \in Nat /\ new \in Shown
      BY <1>1, <2>1 DEF IInv, TypeOK, Shown, Openings
    <2>3. new.kind = k /\ new.message = opening[k].message
      OBVIOUS
    <2> HIDE DEF new
    <2>4. /\ DOMAIN windows' = DOMAIN windows \cup {made'}
          /\ windows'[made'] = new
          /\ \A w \in DOMAIN windows : windows'[w] = windows[w]
      BY <2>1, <2>2
    <2>5. /\ OfKind(k)' = OfKind(k) \cup {made'}
          /\ \A j \in Kinds \ {k} : OfKind(j)' = OfKind(j)
      BY <2>2, <2>3, <2>4 DEF OfKind
    <2> DEFINE o == [opening[k] EXCEPT !.phase = "made", !.window = made']
    <2>6. opening[k] \in Openings
      BY DEF IInv, TypeOK
    <2>7. /\ o \in Openings /\ o.phase = "made" /\ o.window = made'
          /\ o.message = opening[k].message
      BY <2>2, <2>6 DEF Openings, Phases
    <2>8. opening' = [opening EXCEPT ![k] = o]
      BY <2>1 DEF To, IInv, TypeOK
    <2> HIDE DEF o
    <2>9. /\ opening' \in [Kinds -> Openings] /\ opening'[k] = o
          /\ \A j \in Kinds \ {k} : opening'[j] = opening[j]
      BY <2>7, <2>8 DEF IInv, TypeOK
    <2>10. TypeOK'
      <3>1. windows' \in [DOMAIN windows' -> Shown] /\ DOMAIN windows' \subseteq 1 .. made'
        BY <1>1, <2>1, <2>2, <2>4 DEF IInv, TypeOK
      <3>2. known' \in [Kinds -> 0 .. made']
        BY <1>1, <2>1 DEF IInv, TypeOK
      <3>3. \A j \in Kinds : opening'[j].window <= made'
        BY <1>1, <2>1, <2>7, <2>9 DEF IInv, TypeOK, Openings
      <3> QED
        BY <2>2, <2>9, <3>1, <3>2, <3>3 DEF TypeOK
    <2>11. SearchedOnce' /\ ManagerNeverLoads'
      BY <2>7, <2>9 DEF IInv, SearchedOnce, ManagerNeverLoads, Kinds
    <2>12. OneOfKind'
      BY <1>1, <2>5 DEF IInv, OneOfKind, NoneAtCreate
    <2>13. FoundTheOnly' /\ NoneAtCreate'
      BY <1>1, <2>5, <2>7, <2>9 DEF IInv, FoundTheOnly, NoneAtCreate
    <2>14. WizardShowsOwn'
      <3>1. CASE k = "wizard"
        BY <3>1, <2>3, <2>4, <2>7, <2>9 DEF WizardShowsOwn
      <3>2. CASE k # "wizard"
        <4>1. opening'["wizard"] = opening["wizard"] /\ opening["wizard"].window # made'
          BY <3>2, <1>1, <2>1, <2>9 DEF Kinds, IInv, TypeOK, Openings
        <4> QED
          BY <2>4, <4>1 DEF IInv, WizardShowsOwn
      <3> QED
        BY <3>1, <3>2
    <2> QED
      BY <2>10, <2>11, <2>12, <2>13, <2>14 DEF IInv
  <1> QED
    BY <1>2, <1>3

\* A step of an opening is a step of no other.
LEMMA OwnOpening ==
    ASSUME TypeOK, NEW k \in Kinds, Step(k), NEW j \in Kinds \ {k}
    PROVE  opening'[j] = opening[j]
  <1>1. \A p, w : To(k, p, w) => opening'[j] = opening[j]
    BY DEF To, TypeOK
  <1>2. Done(k) \/ Gone(k) => opening'[j] = opening[j]
    BY <1>1 DEF Done, Gone, TypeOK
  <1>3. CASE Search(k)
    BY <1>1, <1>3 DEF Search, TypeOK
  <1>4. CASE FindKnown(k) \/ Load(k) \/ Focus(k) \/ Create(k) \/ Created(k)
    BY <1>1, <1>2, <1>4 DEF FindKnown, Load, Focus, UpdateFails, Create, Created
  <1> QED
    BY <1>3, <1>4 DEF Step

\* What the user and the browser do: windows go, and ids are forgotten.
LEMMA AroundIInv ==
    ASSUME IInv,
           \/ \E w \in DOMAIN windows : Close(w)
           \/ \E w \in removed : OnRemoved(w)
           \/ Restart
           \/ UNCHANGED vars
    PROVE  IInv'
  <1>1. ASSUME NEW w \in DOMAIN windows, Close(w)
        PROVE  IInv'
    <2>1. /\ DOMAIN windows' = DOMAIN windows \ {w}
          /\ \A v \in DOMAIN windows' : windows'[v] = windows[v]
          /\ UNCHANGED <<made, known, opening, blind>>
      BY <1>1 DEF Close
    <2>2. \A k \in Kinds : OfKind(k)' \subseteq OfKind(k)
      BY <2>1 DEF OfKind
    <2>3. windows' \in [DOMAIN windows' -> Shown]
      BY <1>1, <2>1 DEF IInv, TypeOK, Close
    <2> QED
      BY <2>1, <2>2, <2>3 DEF IInv, TypeOK, SearchedOnce, ManagerNeverLoads, OneOfKind,
                              FoundTheOnly, NoneAtCreate, WizardShowsOwn
  <1>2. ASSUME UNCHANGED <<windows, made, opening, blind>>, known' \in [Kinds -> 0 .. made]
        PROVE  IInv'
    <2>1. \A k \in Kinds : OfKind(k)' = OfKind(k)
      BY <1>2 DEF OfKind
    <2> QED
      BY <1>2, <2>1 DEF IInv, TypeOK, SearchedOnce, ManagerNeverLoads, OneOfKind, FoundTheOnly,
                        NoneAtCreate, WizardShowsOwn
  <1>3. ASSUME NEW w \in removed, OnRemoved(w)
        PROVE  IInv'
    <2>1. known' \in [Kinds -> 0 .. made]
      BY <1>3 DEF OnRemoved, IInv, TypeOK
    <2> QED
      BY <1>2, <1>3, <2>1 DEF OnRemoved
  <1>4. CASE Restart
    <2>1. known' \in [Kinds -> 0 .. made]
      BY <1>4 DEF Restart, IInv, TypeOK
    <2> QED
      BY <1>2, <1>4, <2>1 DEF Restart
  <1>5. CASE UNCHANGED vars
    BY <1>2, <1>5 DEF vars, IInv, TypeOK
  <1> QED
    BY <1>1, <1>3, <1>4, <1>5

LEMMA IInvInductive == Spec => []IInv
  <1>1. IInv /\ [Next]_vars => IInv'
    BY ClickIInv, FindKnownIInv, SearchIInv, LoadIInv, FocusIInv, CreateIInv, CreatedIInv,
       AroundIInv DEF Next, Step
  <1> QED
    BY InitIInv, <1>1, PTL DEF Spec

-----------------------------------------------------------------------------
\* One window of each kind (background.js:216, 288), for any number of clicks, closings,
\* restarts of the event page and failed calls, unless a search of the tabs failed, or the
\* update of the window that a search had found.
THEOREM SingleWindow == Spec => []OneWindow
  <1>1. OneOfKind => OneWindow
    <2> SUFFICES ASSUME OneOfKind, NEW k \in Kinds, k \notin blind
                 PROVE  Cardinality(OfKind(k)) <= 1
      BY DEF OneWindow
    <2>1. CASE OfKind(k) = {}
      BY <2>1, FS_EmptySet
    <2>2. CASE OfKind(k) # {}
      <3>1. PICK w : OfKind(k) = {w}
        BY <2>2 DEF OneOfKind
      <3> QED
        BY <3>1, FS_Singleton
    <2> QED
      BY <2>1, <2>2
  <1>2. IInv => OneOfKind
    BY DEF IInv
  <1> QED
    BY <1>1, <1>2, IInvInductive, PTL

\* An opening that ends leaves no wizard open that shows another message than the one it
\* was opened for (background.js:288-336).
THEOREM WizardShowsItsMessage == Spec => ShowsItsMessage
  <1> DEFINE o == opening["wizard"]
             Shows == o.phase \in {"focus", "made"} /\ opening'["wizard"] = Idle
                        /\ o.window \in DOMAIN windows'
                          => windows'[o.window].message = o.message
  <1>1. IInv /\ [Next]_vars => [Shows]_vars
    <2> SUFFICES ASSUME IInv, Next, o.phase \in {"focus", "made"}, opening'["wizard"] = Idle,
                        o.window \in DOMAIN windows'
                 PROVE  windows'[o.window].message = o.message
      OBVIOUS
    <2>1. "wizard" \in Kinds /\ o # Idle
      BY DEF Kinds, Idle
    \* The windows do not change in the step that ends the opening.
    <2>2. windows' = windows
      <3>1. opening'["wizard"] # opening["wizard"]
        BY <2>1
      <3>2. ASSUME NEW k \in Kinds, Step(k)
            PROVE  k = "wizard"
        BY <2>1, <3>1, <3>2, OwnOpening DEF IInv
      <3>3. CASE Step("wizard")
        BY <3>3, <2>1 DEF Step, FindKnown, Search, Load, Focus, Create, Created
      <3>4. ASSUME NEW k \in Kinds, NEW m \in Message \cup {NoMessage}, Click(k, m)
            PROVE  windows' = windows
        BY <3>4 DEF Click
      <3>5. ~ \E w \in DOMAIN windows : Close(w)
        BY <3>1 DEF Close
      <3>6. (\E w \in removed : OnRemoved(w)) \/ Restart => windows' = windows
        BY DEF OnRemoved, Restart
      <3> QED
        BY <3>2, <3>3, <3>4, <3>5, <3>6 DEF Next
    <2> QED
      BY <2>2 DEF IInv, WizardShowsOwn
  <1> QED
    BY <1>1, IInvInductive, PTL DEF Spec, ShowsItsMessage

-----------------------------------------------------------------------------
(***************************************************************************)
(* What the cache of proxy clients promises, for any accounts, callers and *)
(* number of lookups.                                                      *)
(*                                                                         *)
(* Neither invariant is inductive alone: that a rejected promise leaves    *)
(* the cache needs that a cached promise is one of its own account, since  *)
(* the catch handler empties the place of the account it was made for;     *)
(* that a client goes to the stored URL needs that a lookup which asks for *)
(* the account's server has found none stored.                             *)
(***************************************************************************)
CacheTypeOK ==
    /\ setting \in [Account -> Url \cup {NoUrl}] /\ derived \in [Account -> Url \cup {NoUrl}]
    /\ saved \in [Account -> Password \cup {NoPassword}]
    /\ promises \in Seq(Lookups)
    /\ cache \in [Account -> Nat]
    /\ event \in BOOLEAN
    /\ resets \in SUBSET Account
    /\ waiting \in [Caller -> Nat]

\* A place in the cache holds a promise that was made for this account.
CachedIsOwn ==
    \A a \in Account : cache[a] # NoPromise =>
        cache[a] \in DOMAIN promises /\ promises[cache[a]].account = a

\* A caller waits for a promise that exists.
WaitsForPromise ==
    \A k \in Caller : waiting[k] # NoPromise => waiting[k] \in DOMAIN promises

\* The account's server is asked for where no setting was found.
AsksServerUnset ==
    \A p \in DOMAIN promises : promises[p].phase = "server" => promises[p].set = NoUrl

CacheInv ==
    /\ CacheTypeOK
    /\ CachedIsOwn /\ WaitsForPromise /\ AsksServerUnset
    /\ NoRejectedClient /\ CachedUrlCurrent

-----------------------------------------------------------------------------
\* A step of a lookup changes one field of one promise: the others stay, no promise
\* comes or goes and each keeps its account.
LEMMA LookupStep ==
    ASSUME CacheTypeOK, NEW p \in DOMAIN promises, NEW q,
           q \in Lookups, q.account = promises[p].account,
           promises' = [promises EXCEPT ![p] = q]
    PROVE  /\ promises' \in Seq(Lookups)
           /\ DOMAIN promises' = DOMAIN promises
           /\ promises'[p] = q
           /\ \A r \in DOMAIN promises : /\ r # p => promises'[r] = promises[r]
                                         /\ promises'[r].account = promises[r].account
  BY DEF CacheTypeOK

LEMMA InitCacheInv == CacheInit => CacheInv
  <1> SUFFICES ASSUME CacheInit PROVE CacheInv
    OBVIOUS
  <1>1. promises \in Seq(Lookups)
    BY DEF CacheInit
  <1>2. CacheTypeOK
    BY <1>1 DEF CacheInit, CacheTypeOK, NoPromise
  <1>3. CachedIsOwn /\ WaitsForPromise /\ AsksServerUnset /\ NoRejectedClient /\ CachedUrlCurrent
    BY DEF CacheInit, CachedIsOwn, WaitsForPromise, AsksServerUnset, NoRejectedClient,
           CachedUrlCurrent, NoPromise
  <1> QED
    BY <1>2, <1>3 DEF CacheInv

\* A new promise is the last one; the places and callers that had one keep theirs.
LEMMA MissCacheInv ==
    ASSUME CacheInv, NEW k \in Caller, NEW a \in Account, Miss(k, a)
    PROVE  CacheInv'
  <1> DEFINE n == Len(promises) + 1
  <1> USE DEF CacheInv, NoPromise
  <1>1. /\ promises' \in Seq(Lookups) /\ DOMAIN promises' = DOMAIN promises \cup {n}
        /\ promises'[n] = NewLookup(a)
        /\ \A p \in DOMAIN promises : promises'[p] = promises[p]
        /\ n \in Nat /\ n # 0 /\ Len(promises') = n
    <2>1. NewLookup(a) \in Lookups
      BY DEF NewLookup, Lookups, LookupPhases, CacheTypeOK
    <2>2. promises' = Append(promises, NewLookup(a)) /\ promises \in Seq(Lookups)
      BY DEF Miss, CacheTypeOK
    <2> HIDE DEF CacheInv
    <2> QED
      BY <2>1, <2>2
  <1>2. /\ cache' \in [Account -> Nat] /\ cache'[a] = n
        /\ \A b \in Account \ {a} : cache'[b] = cache[b]
        /\ waiting' \in [Caller -> Nat] /\ waiting'[k] = n
        /\ \A c \in Caller \ {k} : waiting'[c] = waiting[c]
    BY <1>1 DEF Miss, CacheTypeOK
  <1>3. NewLookup(a).phase = "settings" /\ NewLookup(a).account = a
    BY DEF NewLookup
  <1>4. CacheTypeOK'
    BY <1>1, <1>2, Zenon DEF Miss, CacheTypeOK
  <1> HIDE DEF n, CacheInv
  <1>5. CachedIsOwn'
    <2>1. CachedIsOwn
      BY DEF CacheInv
    <2> QED
      BY <1>1, <1>2, <1>3, <2>1 DEF CachedIsOwn
  <1>6. WaitsForPromise'
    <2>1. WaitsForPromise
      BY DEF CacheInv
    <2> QED
      BY <1>1, <1>2, <2>1 DEF WaitsForPromise
  <1>7. NoRejectedClient'
    BY <1>1, <1>2, <1>3 DEF CacheInv, NoRejectedClient, CachedIsOwn
  <1>8. CachedUrlCurrent'
    BY <1>1, <1>2, <1>3 DEF CacheInv, CachedUrlCurrent, Announced, CachedIsOwn, Miss
  <1>9. AsksServerUnset'
    BY <1>1, <1>3 DEF CacheInv, AsksServerUnset
  <1> QED
    BY <1>4, <1>5, <1>6, <1>7, <1>8, <1>9 DEF CacheInv

LEMMA LookupCacheInv ==
    ASSUME CacheInv, NEW p \in DOMAIN promises, Lookup(p)
    PROVE  CacheInv'
  <1> USE DEF CacheInv, NoPromise
  <1>1. promises[p] \in Lookups /\ promises[p].account \in Account
    <2>1. promises \in Seq(Lookups)
      BY DEF CacheTypeOK
    <2>2. promises[p] \in Lookups
      BY <2>1
    <2> QED
      BY <2>2 DEF Lookups
  <1>2. CASE ReadSettings(p)
    <2> DEFINE set == setting[promises[p].account]
               q == [promises[p] EXCEPT !.phase = IF set = NoUrl THEN "server" ELSE "password",
                                        !.set = set, !.url = set]
    <2>1. /\ q \in Lookups /\ q.account = promises[p].account
          /\ q.set = setting[promises[p].account] /\ q.url = q.set
          /\ q.phase \in {"server", "password"} /\ (q.phase = "server" => q.set = NoUrl)
      BY <1>1 DEF Lookups, LookupPhases, CacheTypeOK
    <2>2. promises' = [promises EXCEPT ![p] = q]
      BY <1>2 DEF ReadSettings, CacheTypeOK
    <2> HIDE DEF q
    <2>3. /\ promises' \in Seq(Lookups) /\ DOMAIN promises' = DOMAIN promises
          /\ promises'[p] = q
          /\ \A r \in DOMAIN promises : /\ r # p => promises'[r] = promises[r]
                                        /\ promises'[r].account = promises[r].account
      BY <2>1, <2>2, LookupStep
    <2>4. CacheTypeOK' /\ CachedIsOwn' /\ WaitsForPromise' /\ AsksServerUnset' /\ NoRejectedClient'
      BY <1>1, <1>2, <2>1, <2>3
         DEF ReadSettings, CacheTypeOK, CachedIsOwn, WaitsForPromise, AsksServerUnset,
             NoRejectedClient
    <2>5. CachedUrlCurrent'
      BY <1>1, <1>2, <2>1, <2>3 DEF ReadSettings, CachedIsOwn, CachedUrlCurrent, Announced
    <2> QED
      BY <2>4, <2>5
  <1>6. CASE ReadServer(p)
    <2> DEFINE q == [promises[p] EXCEPT !.phase = "password",
                                        !.url = derived[promises[p].account]]
    <2>1. /\ q \in Lookups /\ q.account = promises[p].account
          /\ q.set = promises[p].set /\ q.set = NoUrl
          /\ q.phase = "password" /\ promises[p].phase = "server"
      BY <1>1, <1>6 DEF Lookups, LookupPhases, CacheTypeOK, AsksServerUnset, ReadServer
    <2>2. promises' = [promises EXCEPT ![p] = q]
      BY <1>6 DEF ReadServer, CacheTypeOK
    <2> HIDE DEF q
    <2>3. /\ promises' \in Seq(Lookups) /\ DOMAIN promises' = DOMAIN promises
          /\ promises'[p] = q
          /\ \A r \in DOMAIN promises : /\ r # p => promises'[r] = promises[r]
                                        /\ promises'[r].account = promises[r].account
      BY <2>1, <2>2, LookupStep
    <2>4. CacheTypeOK' /\ CachedIsOwn' /\ WaitsForPromise' /\ AsksServerUnset' /\ NoRejectedClient'
      BY <1>1, <1>6, <2>1, <2>3
         DEF ReadServer, CacheTypeOK, CachedIsOwn, WaitsForPromise, AsksServerUnset,
             NoRejectedClient
    <2>5. CachedUrlCurrent'
      <3>1. ASSUME NEW a \in Account, cache[a] # NoPromise, ~Announced(a),
                   promises'[cache[a]].phase # "settings"
            PROVE  /\ promises'[cache[a]].set = setting[a]
                   /\ promises'[cache[a]].set # NoUrl
                        => promises'[cache[a]].url = promises'[cache[a]].set
        <4>1. cache[a] \in DOMAIN promises
          BY <3>1 DEF CachedIsOwn
        <4>2. promises[cache[a]].phase # "settings"
          BY <2>1, <2>3, <3>1, <4>1
        <4>3. /\ promises[cache[a]].set = setting[a]
              /\ promises[cache[a]].set # NoUrl => promises[cache[a]].url = promises[cache[a]].set
          BY <3>1, <4>2 DEF CachedUrlCurrent
        <4>4. CASE cache[a] = p
          BY <2>1, <2>3, <4>3, <4>4
        <4>5. CASE cache[a] # p
          BY <2>3, <4>1, <4>3, <4>5
        <4> QED
          BY <4>4, <4>5
      <3> QED
        BY <1>6, <3>1 DEF ReadServer, CachedUrlCurrent, Announced
    <2> QED
      BY <2>4, <2>5
  <1>3. CASE ReadPassword(p)
    <2> DEFINE q == [promises[p] EXCEPT !.phase = "mailbox",
                                        !.password = saved[promises[p].account]]
    <2>1. q \in Lookups /\ q.account = promises[p].account
          /\ q.set = promises[p].set /\ q.url = promises[p].url
          /\ q.phase = "mailbox" /\ promises[p].phase = "password"
      BY <1>1, <1>3 DEF Lookups, LookupPhases, CacheTypeOK, ReadPassword
    <2>2. promises' = [promises EXCEPT ![p] = q]
      BY <1>3 DEF ReadPassword, CacheTypeOK
    <2> HIDE DEF q
    <2>3. /\ promises' \in Seq(Lookups) /\ DOMAIN promises' = DOMAIN promises
          /\ promises'[p] = q
          /\ \A r \in DOMAIN promises : /\ r # p => promises'[r] = promises[r]
                                        /\ promises'[r].account = promises[r].account
      BY <2>1, <2>2, LookupStep
    <2> QED
      BY <1>1, <1>3, <2>1, <2>3 
         DEF ReadPassword, CacheTypeOK, CachedIsOwn, WaitsForPromise, AsksServerUnset,
             NoRejectedClient, CachedUrlCurrent, Announced
  <1>4. CASE Reject(p)
    <2> DEFINE q == [promises[p] EXCEPT !.phase = "failed"]
    <2>1. q \in Lookups /\ q.account = promises[p].account
          /\ q.set = promises[p].set /\ q.url = promises[p].url
          /\ promises[p].phase = "mailbox"
      BY <1>1, <1>4 DEF Lookups, LookupPhases, Reject
    <2>2. promises' = [promises EXCEPT ![p] = q]
      BY <1>4 DEF Reject, CacheTypeOK
    <2> HIDE DEF q
    <2>3. /\ promises' \in Seq(Lookups) /\ DOMAIN promises' = DOMAIN promises
          /\ promises'[p] = q
          /\ \A r \in DOMAIN promises : /\ r # p => promises'[r] = promises[r]
                                        /\ promises'[r].account = promises[r].account
      BY <2>1, <2>2, LookupStep
    \* The place that is emptied is the only one that can hold the rejected promise.
    <2>4. \A a \in Account : cache'[a] # NoPromise =>
             cache'[a] = cache[a] /\ cache[a] # p /\ cache[a] \in DOMAIN promises
      BY <1>1, <1>4 DEF Reject, CacheTypeOK, CachedIsOwn
    <2>5. CacheTypeOK'
      BY <1>1, <1>4, <2>3 DEF Reject, CacheTypeOK
    <2>6. CachedIsOwn' /\ NoRejectedClient' /\ CachedUrlCurrent'
      BY <1>4, <2>3, <2>4
         DEF Reject, CachedIsOwn, NoRejectedClient, CachedUrlCurrent, Announced
    <2>7. WaitsForPromise' /\ AsksServerUnset'
      BY <1>4, <2>1, <2>3 DEF Reject, WaitsForPromise, AsksServerUnset
    <2> QED
      BY <2>5, <2>6, <2>7
  <1>5. CASE Fulfil(p)
    <2> DEFINE q == [promises[p] EXCEPT !.phase = "client"]
    <2>1. q \in Lookups /\ q.account = promises[p].account
          /\ q.set = promises[p].set /\ q.url = promises[p].url
          /\ q.phase = "client" /\ promises[p].phase = "mailbox"
      BY <1>1, <1>5 DEF Lookups, LookupPhases, Fulfil
    <2>2. promises' = [promises EXCEPT ![p] = q]
      BY <1>5 DEF Fulfil, CacheTypeOK
    <2> HIDE DEF q
    <2>3. /\ promises' \in Seq(Lookups) /\ DOMAIN promises' = DOMAIN promises
          /\ promises'[p] = q
          /\ \A r \in DOMAIN promises : /\ r # p => promises'[r] = promises[r]
                                        /\ promises'[r].account = promises[r].account
      BY <2>1, <2>2, LookupStep
    <2> QED
      BY <1>1, <1>5, <2>1, <2>3 
         DEF Fulfil, CacheTypeOK, CachedIsOwn, WaitsForPromise, AsksServerUnset,
             NoRejectedClient, CachedUrlCurrent, Announced
  <1> QED
    BY <1>2, <1>3, <1>4, <1>5, <1>6 DEF Lookup

LEMMA CallerCacheInv ==
    ASSUME CacheInv, NEW k \in Caller, Answer(k) \/ \E a \in Account : Hit(k, a)
    PROVE  CacheInv'
  <1>1. UNCHANGED <<setting, derived, saved, promises, cache, event, resets>>
    BY DEF Answer, Hit
  <1>2. CacheTypeOK' /\ WaitsForPromise'
    <2>1. /\ waiting' \in [Caller -> Nat]
          /\ \A c \in Caller : waiting'[c] # NoPromise => waiting'[c] \in DOMAIN promises
      <3>1. CASE Answer(k)
        BY <3>1 DEF CacheInv, NoPromise, Answer, CacheTypeOK, WaitsForPromise
      <3>2. ASSUME NEW a \in Account, Hit(k, a)
            PROVE  /\ waiting' \in [Caller -> Nat]
                   /\ \A c \in Caller : waiting'[c] # NoPromise => waiting'[c] \in DOMAIN promises
        BY <3>2 DEF CacheInv, NoPromise, Hit, CacheTypeOK, CachedIsOwn, WaitsForPromise
      <3> QED
        BY <3>1, <3>2
    <2> QED
      BY <1>1, <2>1 DEF CacheInv, CacheTypeOK, WaitsForPromise
  <1>3. CachedIsOwn' /\ AsksServerUnset' /\ NoRejectedClient' /\ CachedUrlCurrent'
    BY <1>1 DEF CacheInv, CachedIsOwn, AsksServerUnset, NoRejectedClient, CachedUrlCurrent,
                Announced
  <1> QED
    BY <1>2, <1>3 DEF CacheInv

\* Whatever empties a place leaves the other places, the promises and the callers alone.
LEMMA EmptyingCacheInv ==
    ASSUME CacheInv,
           \/ StorageChanged
           \/ \E a \in Account : ResetClient(a) \/ CheckPassword(a)
    PROVE  CacheInv'
  <1>1. CASE StorageChanged
    BY <1>1 DEF CacheInv, NoPromise, StorageChanged, CacheTypeOK, CachedIsOwn, WaitsForPromise,
                AsksServerUnset, NoRejectedClient, CachedUrlCurrent, Announced
  <1>2. ASSUME NEW a \in Account, ResetClient(a)
        PROVE  CacheInv'
    BY <1>2 DEF CacheInv, NoPromise, ResetClient, CacheTypeOK, CachedIsOwn, WaitsForPromise,
                AsksServerUnset, NoRejectedClient, CachedUrlCurrent, Announced
  <1>3. ASSUME NEW a \in Account, CheckPassword(a)
        PROVE  CacheInv'
    BY <1>3 DEF CacheInv, NoPromise, CheckPassword, CacheTypeOK, CachedIsOwn, WaitsForPromise,
                AsksServerUnset, NoRejectedClient, CachedUrlCurrent, Announced
  <1> QED
    BY <1>1, <1>2, <1>3

\* A changed setting leaves its event behind, which is to empty every place; what a lookup
\* found in Thunderbird is no setting.
LEMMA ChangeCacheInv ==
    ASSUME CacheInv,
           \/ \E u \in Url \cup {NoUrl} : Settings(u)
           \/ \E a \in Account : ChangePassword(a) \/ ChangeServer(a)
    PROVE  CacheInv'
  <1>1. ASSUME NEW scope \in SUBSET Account, NEW told \in SUBSET Account,
               NEW u \in Url \cup {NoUrl}, StoreSetting(scope, told, u)
        PROVE  CacheInv'
    <2>1. CacheTypeOK'
      BY <1>1 DEF CacheInv, StoreSetting, CacheTypeOK
    <2>2. CachedIsOwn' /\ WaitsForPromise' /\ AsksServerUnset' /\ NoRejectedClient'
      BY <1>1 DEF CacheInv, NoPromise, StoreSetting, CachedIsOwn, WaitsForPromise,
                  AsksServerUnset, NoRejectedClient
    <2>3. CachedUrlCurrent'
      BY <1>1 DEF StoreSetting, CachedUrlCurrent, Announced
    <2> QED
      BY <2>1, <2>2, <2>3 DEF CacheInv
  <1>2. ASSUME NEW a \in Account, ChangePassword(a)
        PROVE  CacheInv'
    BY <1>2 DEF CacheInv, NoPromise, ChangePassword, CacheTypeOK, CachedIsOwn, WaitsForPromise,
                AsksServerUnset, NoRejectedClient, CachedUrlCurrent, Announced
  <1>3. ASSUME NEW a \in Account, ChangeServer(a)
        PROVE  CacheInv'
    BY <1>3 DEF CacheInv, NoPromise, ChangeServer, CacheTypeOK, CachedIsOwn, WaitsForPromise,
                AsksServerUnset, NoRejectedClient, CachedUrlCurrent, Announced
  <1>4. \A a \in Account : {a} \in SUBSET Account
    OBVIOUS
  <1>5. Account \in SUBSET Account /\ {} \in SUBSET Account
    OBVIOUS
  <1> QED
    BY <1>1, <1>2, <1>3, <1>4, <1>5 DEF Settings

LEMMA CacheInvInductive == CacheSpec => []CacheInv
  <1>1. CacheInv /\ [CacheNext]_cacheVars => CacheInv'
    <2> SUFFICES ASSUME CacheInv, [CacheNext]_cacheVars PROVE CacheInv'
      OBVIOUS
    <2>1. CASE UNCHANGED cacheVars
      BY <2>1 DEF cacheVars, CacheInv, CacheTypeOK, CachedIsOwn, WaitsForPromise,
                  AsksServerUnset, NoRejectedClient, CachedUrlCurrent, Announced
    <2> QED
      BY <2>1, MissCacheInv, LookupCacheInv, CallerCacheInv, EmptyingCacheInv, ChangeCacheInv
         DEF CacheNext
  <1> QED
    BY InitCacheInv, <1>1, PTL DEF CacheSpec

-----------------------------------------------------------------------------
\* Nobody is given a promise of getClientFor that was rejected before: the catch handler
\* (background.js:109-114) has emptied its place, however many lookups of the account
\* overlapped.
THEOREM RejectedIsForgotten == CacheSpec => []NoRejectedClient
  <1>1. CacheInv => NoRejectedClient
    BY DEF CacheInv
  <1> QED
    BY <1>1, CacheInvInductive, PTL

\* A cached client was made from the setting that is stored, or what will empty its place
\* is on its way: the order of resetClient, the storage event and the awaits does not
\* matter.  Of a URL that is derived it claims no more than that none is stored.
THEOREM CachedUrlIsCurrent == CacheSpec => []CachedUrlCurrent
  <1>1. CacheInv => CachedUrlCurrent
    BY DEF CacheInv
  <1> QED
    BY <1>1, CacheInvInductive, PTL

\* A command is given a client of the account it asked for.
THEOREM CachedClientIsOwn == CacheSpec => []CachedIsOwn
  <1>1. CacheInv => CachedIsOwn
    BY DEF CacheInv
  <1> QED
    BY <1>1, CacheInvInductive, PTL
=============================================================================
