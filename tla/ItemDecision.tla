----------------------------- MODULE ItemDecision -----------------------------
(***************************************************************************)
(* What an item promises its run: it is decided at most once; an answer is *)
(* published only while the reviewer's standing opinion on that very draft *)
(* lets it pass, a data insufficiency only while he confirms it; and the   *)
(* item is closed, with that outcome, only after its publication.          *)
(***************************************************************************)
CONSTANTS Drafts, Verdicts, Accepting, None, OutcomeOf(_), LifeOf(_)

VARIABLES opinion,    \* [draft, verdict] that stands, or None
          decision,   \* [outcome, draft] that is published, or None
          closed      \* lifecycle state of a closed item, or None

dvars == <<opinion, decision, closed>>

Init == opinion = None /\ decision = None /\ closed = None

\* The opinion on a failed item does not matter any more.
Moot == decision # None /\ decision.outcome = "technical_failure"

Opine ==
  /\ decision = None \/ Moot
  /\ \/ opinion' = None
     \/ \E d \in Drafts, v \in Verdicts : opinion' = [draft |-> d, verdict |-> v]
  /\ UNCHANGED <<decision, closed>>

Publishable(d) ==
  \/ d = [outcome |-> "technical_failure", draft |-> None]
  \/ /\ opinion # None
     /\ d.draft = opinion.draft
     /\ \/ opinion.verdict \in Accepting /\ d.outcome = OutcomeOf(opinion.verdict)
        \/ /\ opinion.verdict = "confirm_data_insufficiency"
           /\ d.outcome = "blocked_by_evidence"

Outcomes == {"technical_failure", "blocked_by_evidence"} \cup {OutcomeOf(v) : v \in Accepting}

\* A failed item may lose its opinion with it. Publication may stop before the item is closed; Close finishes it.
Publish ==
  /\ decision = None
  /\ \E d \in [outcome : Outcomes, draft : Drafts \cup {None}] :
       /\ Publishable(d)
       /\ decision' = d
       /\ closed' \in {None, LifeOf(d.outcome)}
       /\ opinion' = opinion \/ (d.outcome = "technical_failure" /\ opinion' = None)

Close ==
  /\ decision # None /\ closed = None
  /\ closed' = LifeOf(decision.outcome)
  /\ UNCHANGED decision
  /\ UNCHANGED opinion \/ Moot

Next == Opine \/ Publish \/ Close
Spec == Init /\ [][Next]_dvars
=============================================================================
