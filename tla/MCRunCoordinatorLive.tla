------------------------ MODULE MCRunCoordinatorLive ------------------------
(* Liveness instances of RunCoordinator.                                   *)
EXTENDS MCRunCoordinator

\* Which of the two stories below a behaviour tells.
VARIABLE story

\* One instance survives.  Faults come to an end ("faults", then "calm"): r1
\* neither exits nor crashes; every other instance may die at any moment or live
\* and be called again.  All are called through step() and resume().
Survive ==
  /\ \/ story = "faults" /\ story' = "faults" /\ Next
     \/ story = "calm" /\ story' = "calm" /\ Calm
     \/ story = "faults" /\ story' = "calm" /\ UNCHANGED vars
  /\ pc'[r1] # "dead" /\ mode' = mode

\* A Planner that never sees progress: its answer is always every slot.  r1 is
\* called through run() and step(), any other through step().
NoProgress ==
  \A r \in Runner : pc[r] = "query" /\ lock = NoRunner /\ lock' = r => seen'[r] = Slot

Stuck ==
  /\ story = "stuck" /\ story' = "stuck"
  /\ Calm /\ NoProgress
  /\ \A r \in Runner \ {r1} : mode'[r] = "step"

LiveSpec ==
  /\ Init /\ story \in {"faults", "stuck"}
  /\ [][Survive \/ Stuck]_<<vars, story>>
  /\ WF_<<vars, story>>(story = "faults" /\ story' = "calm" /\ UNCHANGED vars)
  /\ \A r \in Runner : RolesEnd(r) /\ CallsProgress(r)
  /\ \A r \in Runner : WF_vars(story # "stuck" /\ Supervision(r))

\* Where one instance survives and is called again, no dispatch is lost: what
\* crashes, restarts and conflicts intervene, an entry of the active list is in
\* the end run to completion or withdrawn.
SurvivorLosesNothing == story # "stuck" => NoLostDispatch

=============================================================================
