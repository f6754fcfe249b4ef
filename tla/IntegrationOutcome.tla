-------------------------- MODULE IntegrationOutcome --------------------------
(***************************************************************************)
(* What the integration of an item promises the run: assets are registered *)
(* only under a plan, which is made once and never changed; the item is    *)
(* integrated when all the assets of its plan are registered, and it fails *)
(* only if no plan was made, so that it leaves nothing behind.             *)
(***************************************************************************)
CONSTANTS Plans, AssetsOf(_), None

VARIABLES plan,        \* the plan, or None
          registry,    \* assets registered for the item
          outcome      \* "pending", "integrated" or "technical_failure"

ovars == <<plan, registry, outcome>>

Init == plan = None /\ registry = {} /\ outcome = "pending"

\* A plan may be made and carried out in one step, up to any point.
Commit ==
  /\ outcome = "pending"
  /\ plan' \in Plans
  /\ plan # None => plan' = plan
  /\ registry \subseteq registry' /\ registry' \subseteq AssetsOf(plan')
  /\ \/ outcome' = "pending"
     \/ outcome' = "integrated" /\ registry' = AssetsOf(plan')

Fail ==
  /\ outcome = "pending" /\ plan = None
  /\ outcome' = "technical_failure"
  /\ UNCHANGED <<plan, registry>>

Next == Commit \/ Fail
Spec == Init /\ [][Next]_ovars
===============================================================================
