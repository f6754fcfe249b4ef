-------------------------- MODULE MCRunCoordinator --------------------------
(* Finite instances of RunCoordinator for TLC.                             *)
EXTENDS RunCoordinator, TLC

CONSTANTS r1, r2, p1, p2, analyzeA, analyzeB, reviewA, reqA, reqB

MCOwner == {analyzeA, analyzeB} \cap Slot

MCWorkflow ==
  [s \in Slot |-> CASE s \in {analyzeA, reviewA} -> reqA
                    [] s = analyzeB -> reqB
                    [] OTHER -> NoRequirement]

EmptyList == [active |-> {}, before |-> {}]

\* Lists an older version may have left: two Analytical Owners, or two
\* mutating actions of one requirement, in both orders.
TwoInOneScope ==
  {EmptyList} \cup
  {[active |-> {a, b}, before |-> {<<a, b>>}] :
     <<a, b>> \in {<<analyzeA, analyzeB>>, <<analyzeB, analyzeA>>,
                   <<analyzeA, reviewA>>, <<reviewA, analyzeA>>} \cap (Slot \X Slot)}

\* And all three, with the one that competes in both scopes in the middle: a
\* restart then runs both Analytical Owners, or both actions of the requirement.
OlderLists ==
  TwoInOneScope \cup
  {[active |-> {a, b, c}, before |-> {<<a, b>>, <<a, c>>, <<b, c>>}] :
     <<a, b, c>> \in {<<reviewA, analyzeA, analyzeB>>, <<analyzeB, analyzeA, reviewA>>}}

\* Every instance is a process of its own.
OwnPid == [r \in Runner |-> IF r = r1 THEN p1 ELSE p2]

\* Instances called through step() and resume() only: run() adds nothing to the
\* scopes but its retry bookkeeping.
StepsSpec == Init /\ [][Next /\ mode' = mode]_vars

=============================================================================
