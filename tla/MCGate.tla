------------------------------- MODULE MCGate -------------------------------
(* Small instances of Gate for TLC. *)
EXTENDS Gate, TLC

CONSTANTS r1, r2, c1, c2, s1

OneRequest == {r1}
TwoRequests == {r1, r2}
OneCaller == {c1}
TwoCallers == {c1, c2}
OneShape == {s1}

NoRules == [r \in Requests |-> {}]
AllMedium == [r \in Requests |-> "medium"]
AllShape1 == [r \in Requests |-> s1]
AllCovered == [r \in Requests |-> {s1}]
FirstNotified == {r1}
NobodyNotified == {}

\* sound where r1 and r2 have the same attributes
Interchangeable == Permutations({r1, r2})

\* r1 asks, r2 has r1's shape but is catastrophic
BlockedSecond == [r \in Requests |-> IF r = r1 THEN "medium" ELSE "blocked"]
=============================================================================
