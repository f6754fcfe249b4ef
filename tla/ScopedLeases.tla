---------------------------- MODULE ScopedLeases ----------------------------
(***************************************************************************)
(* What the coordinators promise about the actions they dispatch, without  *)
(* logs, locks or processes: holders take actions that compete with        *)
(* nothing anybody holds, and let go of them. Some actions may be excused  *)
(* from the start, from competing with each other; none is later.          *)
(***************************************************************************)
CONSTANTS
  Holder,    \* who may run an action
  Action,    \* what may be run
  Competes   \* pairs of actions that may not be in two hands, or one, at once

VARIABLES
  held,      \* <<holder, action>>
  excused    \* actions that may be held beside each other all the same

Clash(a, b) == <<a, b>> \in Competes /\ ~({a, b} \subseteq excused)

\* Every action of S is free, and competes with no held one and no other of S.
Free(S) ==
  \A a \in S :
    /\ \A x \in held : x[2] # a /\ ~Clash(x[2], a)
    /\ \A b \in S : ~Clash(a, b)

Take(h, S) ==
  /\ Free(S)
  /\ held' = held \cup ({h} \X S)
  /\ UNCHANGED excused

LetGo(gone) ==
  /\ held' = held \ gone
  /\ excused' \in SUBSET excused

Init == held = {} /\ excused \in SUBSET Action

Next ==
  \/ \E h \in Holder, S \in SUBSET Action : Take(h, S)
  \/ \E gone \in SUBSET held : LetGo(gone)

Spec == Init /\ [][Next]_<<held, excused>>
=============================================================================
