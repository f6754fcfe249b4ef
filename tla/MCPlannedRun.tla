----------------------------- MODULE MCPlannedRun -----------------------------
(* Instances of PlannedRun for TLC. *)
EXTENDS PlannedRun

\* The second requirement depends on the first and items are repaired, or its
\* requests widen the domains of the first.
MCPlans ==
  {[needs |-> [r \in Requirements |-> IF r = 2 /\ depends THEN {1} ELSE {}],
    widens |-> IF depends THEN {} ELSE {2},
    repairs |-> IF depends THEN 1 ELSE 0] : depends \in BOOLEAN}
===============================================================================
