----------------------------- MODULE MCShmCrowded -----------------------------
(***************************************************************************)
(* Model checking ShmCache on memory that is crowded.  Every behaviour     *)
(* begins with the sets and deletes of one of two openings, by a process   *)
(* of the larger max_value_size.                                           *)
(*                                                                         *)
(* After Mixed, twos and threes fill all stripings of five units but the   *)
(* first, all twos older than all threes, and the first has a one and a    *)
(* hole.  What is free then would do for a rearrangement, but first fit in *)
(* the order of the list puts the twos together and needs one striping     *)
(* more than there are.                                                    *)
(*                                                                         *)
(* After Large, each striping has a four, which the other max_value_size   *)
(* does not allow to be set again.                                         *)
(***************************************************************************)
EXTENDS MCShmCache

CONSTANTS
  k1, k2, k3, k4, k5, k6, k7, k8, k9,
  MaxRequests           \* bound: the requests after the opening

VARIABLES
  opening,              \* the requests that come first
  asked                 \* how many requests there were so far

To(k, v) == [key |-> k, val |-> v]
Gone(k) == [key |-> k, val |-> 0]

\* The hole; a pair of twos in each of the other stripings; a single two in
\* each, from the last striping to the first; the threes.
Mixed == <<To(k9, 1), To(k1, 3), Gone(k1)>>
         \o [i \in 1..8 |-> To(<<k1, k2, k3, k4, k5, k6, k7, k8>>[i], 2)]
         \o <<Gone(k7), Gone(k8), To(k8, 2), Gone(k5), Gone(k6), To(k6, 2),
              Gone(k3), Gone(k4), To(k4, 2), Gone(k1), Gone(k2), To(k2, 2)>>
         \o <<To(k1, 3), To(k3, 3), To(k5, 3), To(k7, 3)>>
Large == [i \in 1..5 |-> To(<<k1, k2, k3, k4, k5>>[i], 4)]

Opened == asked >= Len(opening)
Scripted == LET r == opening[asked + 1]
            IN  \/ r.val > 0 /\ limit' = Max(ValueLimits) /\ Set(r.key, r.val, 0)
                \/ r.val = 0 /\ Delete(r.key)

Ask == /\ asked < Len(opening) + MaxRequests
       /\ asked' = asked + 1 /\ UNCHANGED opening
       /\ IF Opened THEN Request ELSE Scripted
Serve == Step /\ UNCHANGED <<opening, asked>>
Kill == Opened /\ Crash /\ UNCHANGED <<opening, asked>>

CrowdedInit == Init /\ opening \in {Mixed, Large} /\ asked = 0
CrowdedNext == Ask \/ Serve \/ Kill
CrowdedSpec == /\ CrowdedInit /\ [][CrowdedNext]_<<vars, opening, asked>>
               /\ WF_<<vars, opening, asked>>(Serve)
=============================================================================
