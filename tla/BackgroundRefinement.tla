------------------------ MODULE BackgroundRefinement ------------------------
(***************************************************************************)
(* The commands of one installation implement the atomic rule list of      *)
(* RuleStore: the list is the combined filter's, and the oldest command    *)
(* has taken effect when its addFilter landed and only the re-read of the  *)
(* new filter's id is left.                                                *)
(***************************************************************************)
EXTENDS Background

CONSTANT FreshIds    \* the rule ids crypto.randomUUID may answer

ASSUME FreshIdsAssumption == FreshIds \subseteq Nat

StampedCommands == {Stamped(cmd, fresh) : cmd \in Commands, fresh \in FreshIds}

RS == INSTANCE RuleStore WITH
        Commands <- StampedCommands,
        rules <- CanonRules(table),
        queue <- queue,
        done <- [c \in Client |-> stage[c] = "confirming"],
        ok <- [c \in Client |-> known[c].ok],
        InitialLists <- {CanonRules(t) : t \in InitialTables}

\* "Concurrent saveRule calls ... of one mailbox are serialised" (background.js:35-37):
\* every command takes effect at most once, at one instant, in the order of issue,
\* and a command answered with success has taken effect.
Serialised == RS!Spec
=============================================================================
