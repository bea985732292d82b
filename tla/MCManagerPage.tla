--------------------------- MODULE MCManagerPage ----------------------------
\* Lists of the accounts of ManagerPage.
EXTENDS ManagerPage

MCRule(i) == [id |-> i, name |-> "n", body |-> "x", active |-> TRUE]
ThreeRules == "a" :> <<MCRule(1), MCRule(2), MCRule(3)>>
TwoAndOne == "a" :> <<MCRule(1), MCRule(2)>> @@ "b" :> <<MCRule(3)>>
=============================================================================
