------------------------------ MODULE MCShmTable ------------------------------
(* Model checking ShmTable.                                                *)
EXTENDS ShmTable

CONSTANTS k1, k2, k3

\* Two keys collide.
Collide == [k \in Keys |-> IF k = k3 THEN 2 ELSE 1]
\* One process recycles a striping of valid entries, the other two expired keys.
BothConfigs == {[once |-> -1, valid |-> TRUE], [once |-> 2, valid |-> FALSE]}
\* A page of at most two rows, from the second entry that matches.
OnePage == {[offset |-> 1, count |-> 2, match |-> {k1, k3}]}
\* A chain of two entries, one of which was replaced.
TwoKeys == <<k1, k2, k1>>
=============================================================================
