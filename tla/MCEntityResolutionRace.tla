----------------------- MODULE MCEntityResolutionRace -----------------------
(* Two processes that submit and commit, on instances of                    *)
(* MCEntityResolution: the safety of the registry in two stories.           *)
EXTENDS MCEntityResolution

VARIABLE story

Symmetric == Permutations(Agents) \cup Permutations(Procs) \cup Permutations(Requirements)

\* Two processes race to submit and commit; no lane changes hands but by claim
\* and submission.
Racing ==
  \/ Scoping \/ Reviewing
  \/ \E o \in Agents, d \in Domains : domain[d].state # "review_pending" /\ ClaimOwner(o, d)
  \/ \E p \in Procs : \/ Sensible(p, IF story = "crashes" THEN Stops ELSE {"directory"})
                       \/ RefuseCommit(p)

\* Every other end of an owner's lane, and processes killed between sections.
Failing ==
  \/ \E o \in Agents, d \in Domains : ReleaseOwner(o, d) \/ RecoverOwner(o, d)
  \/ \E p \in Procs : Die(p)

\* "crashes": one domain that both requirements ask for, with a scope that
\* grows. "commits": two domains of one requirement that are judged once.
Within ==
  IF story = "crashes" THEN domain'[d2].state = "absent"
  ELSE /\ Cardinality(UNION {domain'[d].askers : d \in Domains}) <= 1
       /\ \A d \in Domains : domain'[d].scope = {} /\ domain'[d].state # "repair"

StoryInit == Init /\ story \in {"crashes", "commits"}
StoryNext == /\ Racing \/ (story = "crashes" /\ Failing)
             /\ Within /\ UNCHANGED story

StorySpec == StoryInit /\ [][StoryNext]_<<vars, story>>
=============================================================================
