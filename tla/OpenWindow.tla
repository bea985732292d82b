----------------------------- MODULE OpenWindow ------------------------------
(***************************************************************************)
(* The two windows of the add-on, opened by openManager and openWizard of  *)
(* background.js.  Each keeps the id of its window and a promise of the    *)
(* opening under way, and looks for a window among the tabs when it has no *)
(* id.  The user closes windows whenever he likes; the event page is       *)
(* unloaded when it is idle and then forgets both.                         *)
(***************************************************************************)
EXTENDS Naturals, FiniteSets

CONSTANTS
    Message,       \* messages the user creates a filter from
    MaxWindows,    \* bound: windows ever made
    MaxFaults      \* bound: calls of the windows and tabs APIs that fail

Kinds == {"manager", "wizard"}
None == 0
NoMessage == "none"

ASSUME OpenWindowAssumption ==
    NoMessage \notin Message /\ MaxWindows \in Nat /\ MaxFaults \in Nat

VARIABLES
    windows,    \* open windows of the add-on: id -> kind and message shown
    made,       \* windows made so far
    known,      \* managerWindowId, wizardWindowId
    opening,    \* openManagerInflight, openWizardInflight: where it awaits
    removed,    \* windows whose onRemoved event is still to come
    faults,
    blind,      \* history: kinds whose window a search or an update failed to reach
    asked       \* history: the message clicked last, if a wizard was open at the click

vars == <<windows, made, known, opening, removed, faults, blind, asked>>

Idle == [phase |-> "idle", message |-> NoMessage, window |-> None, scanned |-> FALSE]
Phases == {"idle", "cached", "search", "load", "focus", "create", "made"}

Init ==
    /\ windows = [w \in {} |-> [kind |-> "manager", message |-> NoMessage]]
    /\ made = 0
    /\ known = [k \in Kinds |-> None]
    /\ opening = [k \in Kinds |-> Idle]
    /\ removed = {} /\ faults = 0 /\ blind = {} /\ asked = NoMessage

OfKind(k) == {w \in DOMAIN windows : windows[w].kind = k}
Remember(k, w) == known' = [known EXCEPT ![k] = w]
To(k, phase, w) == opening' = [opening EXCEPT ![k].phase = phase, ![k].window = w]
Done(k) == opening' = [opening EXCEPT ![k] = Idle]

\* The window was gone: look for one, or make one when that has been done.
Gone(k) ==
    /\ To(k, IF opening[k].scanned THEN "create" ELSE "search", None)
    /\ Remember(k, None)

Fault == faults < MaxFaults /\ faults' = faults + 1

-----------------------------------------------------------------------------
\* The manager tries the window it knows at once, the wizard looks for its tab first.
FirstStep(k) ==
    IF known[k] = None THEN "search" ELSE IF k = "manager" THEN "focus" ELSE "cached"

Asked(k, m) == IF k = "manager" THEN asked ELSE IF OfKind(k) = {} THEN NoMessage ELSE m

\* Mutant: nothing says that an opening is under way.
ClickRestarts(k, m) ==
    /\ (k = "wizard") = (m # NoMessage)
    /\ asked' = Asked(k, m)
    /\ opening' = [opening EXCEPT ![k] =
          [Idle EXCEPT !.phase = FirstStep(k), !.message = m, !.window = known[k]]]
    /\ UNCHANGED <<windows, made, known, removed, faults, blind>>

\* A click while an opening is under way gets the promise of that one.
Click(k, m) ==
    /\ (k = "wizard") = (m # NoMessage)
    /\ asked' = Asked(k, m)
    /\ IF opening[k].phase # "idle" THEN UNCHANGED opening
       ELSE opening' = [opening EXCEPT ![k] =
              [Idle EXCEPT !.phase = FirstStep(k), !.message = m, !.window = known[k]]]
    /\ UNCHANGED <<windows, made, known, removed, faults, blind>>

\* findWizardTab on the short way: the tab must be the one of the window known by now;
\* otherwise, also when the search fails, the id is dropped.
FindKnown(k) ==
    /\ opening[k].phase = "cached"
    /\ \/ /\ known[k] \in OfKind(k)
          /\ To(k, "load", known[k])
          /\ UNCHANGED <<known, faults>>
       \/ /\ OfKind(k) \ {known[k]} # {} \/ OfKind(k) = {}
          /\ Gone(k)
          /\ UNCHANGED faults
       \/ Fault /\ Gone(k)
    /\ UNCHANGED <<windows, made, removed, blind, asked>>

\* Mutant: a window is made when none is known, without looking for one.
SearchNothing(k) ==
    /\ opening[k].phase = "search"
    /\ To(k, "create", None)
    /\ UNCHANGED <<windows, made, known, removed, faults, blind, asked>>

\* tabs.query answers; when it fails, no window is seen.
Search(k) ==
    /\ opening[k].phase = "search"
    /\ \/ \E w \in OfKind(k) :
             /\ opening' = [opening EXCEPT ![k] = [@ EXCEPT !.window = w, !.scanned = TRUE,
                               !.phase = IF k = "wizard" THEN "load" ELSE "focus"]]
             /\ Remember(k, w)
             /\ UNCHANGED <<faults, blind>>
       \/ /\ OfKind(k) = {}
          /\ To(k, "create", None)
          /\ UNCHANGED <<known, faults, blind>>
       \/ /\ Fault
          /\ blind' = blind \cup {k}
          /\ To(k, "create", None)
          /\ UNCHANGED known
    /\ UNCHANGED <<windows, made, removed, asked>>

\* Mutant: the wizard is only brought to the front.
LoadNothing(k) ==
    /\ opening[k].phase = "load" /\ opening[k].window \in DOMAIN windows
    /\ To(k, "focus", opening[k].window)
    /\ UNCHANGED <<windows, made, known, removed, faults, blind, asked>>

\* The update of a window that is closed fails, and that of an open one may.
UpdateFails(k) ==
    /\ Gone(k)
    /\ IF opening[k].window \notin DOMAIN windows THEN UNCHANGED <<faults, blind>>
       ELSE /\ Fault
            /\ blind' = IF opening[k].scanned THEN blind \cup {k} ELSE blind

\* tabs.update: the wizard's page is loaded again for the new message.
Load(k) ==
    /\ opening[k].phase = "load"
    /\ \/ /\ opening[k].window \in DOMAIN windows
          /\ windows' = [windows EXCEPT ![opening[k].window].message = opening[k].message]
          /\ To(k, "focus", opening[k].window)
          /\ UNCHANGED <<known, faults, blind>>
       \/ UpdateFails(k) /\ UNCHANGED windows
    /\ UNCHANGED <<made, removed, asked>>

\* windows.update of the window that was known or found.
Focus(k) ==
    /\ opening[k].phase = "focus"
    /\ \/ /\ opening[k].window \in DOMAIN windows
          /\ Done(k)
          /\ UNCHANGED <<known, faults, blind>>
       \/ UpdateFails(k)
    /\ UNCHANGED <<windows, made, removed, asked>>

\* Mutant: a refused window leaves its promise in place.
CreateOrHang(k) ==
    /\ opening[k].phase = "create" /\ made < MaxWindows
    /\ made' = made + 1
    /\ windows' = [w \in DOMAIN windows \cup {made'} |->
                     IF w = made' THEN [kind |-> k, message |-> opening[k].message]
                     ELSE windows[w]]
    /\ To(k, "made", made')
    /\ UNCHANGED <<known, removed, faults, blind, asked>>

\* windows.create, or its refusal, after which the finally clause ends the opening.
Create(k) ==
    /\ opening[k].phase = "create"
    /\ \/ /\ made < MaxWindows
          /\ made' = made + 1
          /\ windows' = [w \in DOMAIN windows \cup {made'} |->
                           IF w = made' THEN [kind |-> k, message |-> opening[k].message]
                           ELSE windows[w]]
          /\ To(k, "made", made')
       \/ /\ Done(k)
          /\ UNCHANGED <<windows, made>>
    /\ UNCHANGED <<known, removed, faults, blind, asked>>

\* Its answer, by which time the user may have closed the window.
Created(k) ==
    /\ opening[k].phase = "made"
    /\ Remember(k, opening[k].window)
    /\ Done(k)
    /\ UNCHANGED <<windows, made, removed, faults, blind, asked>>

-----------------------------------------------------------------------------
Close(w) ==
    /\ windows' = [v \in DOMAIN windows \ {w} |-> windows[v]]
    /\ removed' = removed \cup {w}
    /\ UNCHANGED <<made, known, opening, faults, blind, asked>>

OnRemoved(w) ==
    /\ removed' = removed \ {w}
    /\ known' = [k \in Kinds |-> IF known[k] = w THEN None ELSE known[k]]
    /\ UNCHANGED <<windows, made, opening, faults, blind, asked>>

\* The event page is unloaded and loaded again.
Restart ==
    /\ \A k \in Kinds : opening[k].phase = "idle"
    /\ known' = [k \in Kinds |-> None]
    /\ UNCHANGED <<windows, made, opening, removed, faults, blind, asked>>

Step(k) == FindKnown(k) \/ Search(k) \/ Load(k) \/ Focus(k) \/ Create(k) \/ Created(k)

Next ==
    \/ \E k \in Kinds : Step(k) \/ \E m \in Message \cup {NoMessage} : Click(k, m)
    \/ \E w \in DOMAIN windows : Close(w)
    \/ \E w \in removed : OnRemoved(w)
    \/ Restart

\* The calls of the windows and tabs APIs come back.
Spec == Init /\ [][Next]_vars /\ \A k \in Kinds : WF_vars(Step(k))

-----------------------------------------------------------------------------
(***************************************************************************)
(* Properties.                                                             *)
(***************************************************************************)

\* Single instance (background.js:216, 288): however clicks, closing and restarts of the
\* event page fall, there is one window of each kind, unless a search of the tabs failed, or
\* the update of the window that a search had found.
OneWindow ==
    \A k \in Kinds : k \in blind \/ Cardinality(OfKind(k)) <= 1

\* An opening that ends leaves no wizard open that shows another message than its own,
\* when it found the wizard open and has loaded it again or made it.
ShowsItsMessage ==
    [][ LET o == opening["wizard"]
        IN  o.phase \in {"focus", "made"} /\ opening'["wizard"] = Idle
              /\ o.window \in DOMAIN windows'
            => windows'[o.window].message = o.message ]_vars

\* Every opening ends, so that the next click is not answered with a dead promise.
EveryOpeningEnds == \A k \in Kinds : opening[k].phase # "idle" ~> opening[k].phase = "idle"

\* "If the window is there already we focus it and hand it the new messageId"
\* (background.js:288-291): a click on a message while a wizard is open shows that message,
\* once nothing is under way and nothing failed.  It does not hold: see README.
WizardShowsLast ==
    opening["wizard"].phase = "idle" /\ "wizard" \notin blind /\ asked # NoMessage =>
        \A w \in OfKind("wizard") : windows[w].message = asked
=============================================================================
