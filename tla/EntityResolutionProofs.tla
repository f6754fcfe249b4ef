----------------------- MODULE EntityResolutionProofs -----------------------
(* Proofs about EntityResolution, for any domains, agents, processes and   *)
(* results.                                                                *)
EXTENDS EntityResolution, FiniteSetTheorems, TLAPS

USE DEF registry, disk

LEMMA IdleJob == Idle \in Jobs
BY AttemptsType DEF Idle, Jobs, Calls

LEMMA TouchedJobs ==
  ASSUME job \in [Procs -> Jobs]
  PROVE  Touched \in [Procs -> Jobs]
<1>1. ASSUME NEW j \in Jobs PROVE [j EXCEPT !.fresh = FALSE] \in Jobs
  BY DEF Jobs, Calls
<1> QED BY <1>1 DEF Touched

LEMMA HealedEntries ==
  ASSUME TypeOK PROVE Healed \in [Domains -> Entries]
<1>1. ASSUME NEW m \in Manifests PROVE m.place \in Procs \cup {"committed"}
  BY <1>1 DEF Manifests, TypeOK
<1>2. ASSUME NEW d \in Domains, \E m \in Manifests : m.subject = d
      PROVE  (CHOOSE m \in Manifests : m.subject = d).place \in Procs \cup {"committed"}
  BY <1>1, <1>2
<1>3. ASSUME NEW e \in Entries, NEW pl \in Procs \cup {"committed"} PROVE Ready(e, pl) \in Entries
  BY DEF Ready, Entries, DomainStates
<1>4. ASSUME NEW d \in Domains, domain[d].bound = None, \E m \in Manifests : m.subject = d
      PROVE  Ready(domain[d], (CHOOSE m \in Manifests : m.subject = d).place) \in Entries
  BY <1>2, <1>3, <1>4 DEF TypeOK
<1>5. ASSUME NEW d \in Domains PROVE domain[d] \in Entries
  BY DEF TypeOK
<1> DEFINE known(d) == ~(domain[d].bound = None /\ \E m \in Manifests : m.subject = d)
          heal(d) == Ready(domain[d], (CHOOSE m \in Manifests : m.subject = d).place)
<1>6. ASSUME NEW d \in Domains, ~known(d) PROVE heal(d) \in Entries
  BY <1>4, <1>6
<1>7. Healed = [d \in Domains |-> IF ~known(d) THEN heal(d) ELSE domain[d]]
  BY DEF Healed
<1> HIDE DEF known, heal
<1> QED BY <1>5, <1>6, <1>7

LEMMA WidenedEntry ==
  ASSUME NEW e \in Entries, NEW h \in SUBSET Hints
  PROVE  Widened(e, h) \in Entries
<1>1. Invalidated(e) \in Entries
  <2>1. CASE e.state = "review_pending" BY <2>1 DEF Invalidated, Entries, DomainStates
  <2>2. CASE e.state # "review_pending" BY <2>2 DEF Invalidated
  <2> QED BY <2>1, <2>2
<1>2. ASSUME NEW f \in Entries PROVE [f EXCEPT !.scope = @ \cup h] \in Entries
  BY DEF Entries
<1> QED BY <1>1, <1>2 DEF Widened

LEMMA TypeInit == Init => TypeOK
<1>1. Unreserved \in Entries BY DEF Unreserved, Entries
<1>2. NotWaiting \in Waits BY DEF NotWaiting, Waits
<1> QED BY <1>1, <1>2, IdleJob DEF Init, TypeOK

LEMMA AgainJob == ASSUME NEW j \in Jobs PROVE Again(j) \in Jobs
<1>1. CASE j.tries + 1 < Attempts
  <2>1. j.tries + 1 \in 0 .. Attempts - 1
    BY <1>1, AttemptsType DEF Jobs, Calls
  <2>2. [j EXCEPT !.at = "start", !.fresh = FALSE, !.base = {}] \in Jobs
    BY DEF Jobs, Calls
  <2>3. ASSUME NEW k \in Jobs, NEW n \in 0 .. Attempts - 1 PROVE [k EXCEPT !.tries = n] \in Jobs
    BY DEF Jobs, Calls
  <2>4. Again(j) = [[j EXCEPT !.at = "start", !.fresh = FALSE, !.base = {}]
                    EXCEPT !.tries = j.tries + 1]
    BY <1>1 DEF Again
  <2> QED BY <2>1, <2>2, <2>3, <2>4
<1>2. CASE ~(j.tries + 1 < Attempts)
  BY <1>2, IdleJob DEF Again
<1> QED BY <1>1, <1>2

\* What an action may put where: an entry and the jobs, the rest untouched.
LEMMA EntrySaved ==
  ASSUME TypeOK, NEW d \in Domains, NEW ACTION e, e \in Entries,
         NEW ACTION base, base \in [Domains -> Entries],
         domain' = [base EXCEPT ![d] = e], Persisted, UNCHANGED <<wait, disk, author>>,
         lease' \subseteq Leases
  PROVE  TypeOK'
<1>1. job' \in [Procs -> Jobs]
  BY TouchedJobs DEF Persisted, TypeOK
<1> QED BY <1>1 DEF TypeOK

LEMMA TypeScoping == TypeOK /\ Scoping => TypeOK'
<1> SUFFICES ASSUME TypeOK, Scoping PROVE TypeOK'
  OBVIOUS
<1>1. CASE Reconcile
  <2>1. domain' \in [Domains -> Entries] BY <1>1, HealedEntries DEF Reconcile
  <2>2. job' \in [Procs -> Jobs] BY <1>1, TouchedJobs DEF Reconcile, Persisted, TypeOK
  <2> QED BY <1>1, <2>1, <2>2 DEF Reconcile, TypeOK
<1>2. ASSUME NEW d \in Domains, NEW h \in SUBSET Hints, NEW r \in Requirements, Reserve(r, d, h)
      PROVE  TypeOK'
  <2> DEFINE e == Widened(Healed[d], h)
             f == [e EXCEPT !.askers = @ \cup {r},
                            !.state = IF @ = "absent" THEN "reserved" ELSE @]
  <2>1. Healed \in [Domains -> Entries] /\ e \in Entries
    BY HealedEntries, WidenedEntry
  <2>2. f \in Entries
    <3> HIDE DEF e
    <3> QED BY <2>1 DEF Entries, DomainStates
  <2>3. domain' = [Healed EXCEPT ![d] = f] /\ Persisted /\ UNCHANGED <<lease, wait, disk, author>>
    BY <1>2 DEF Reserve
  <2>4. lease' \subseteq Leases BY <2>3 DEF TypeOK
  <2> HIDE DEF f
  <2> QED BY <2>1, <2>2, <2>3, <2>4, EntrySaved
<1>3. ASSUME NEW d \in Domains, NEW h \in SUBSET Hints, NEW o \in Agents, Discover(o, d, h)
      PROVE  TypeOK'
  <2>1. Healed \in [Domains -> Entries] /\ Widened(Healed[d], h) \in Entries
    BY HealedEntries, WidenedEntry
  <2>2. /\ domain' = [Healed EXCEPT ![d] = Widened(Healed[d], h)]
        /\ Persisted /\ UNCHANGED <<lease, wait, disk, author>>
    BY <1>3 DEF Discover
  <2>3. lease' \subseteq Leases BY <2>2 DEF TypeOK
  <2> QED BY <2>1, <2>2, <2>3, EntrySaved
<1> QED BY <1>1, <1>2, <1>3 DEF Scoping

LEMMA TypeLeasing == TypeOK /\ Leasing => TypeOK'
<1> SUFFICES ASSUME TypeOK, Leasing PROVE TypeOK'
  OBVIOUS
<1>0. Touched \in [Procs -> Jobs] BY TouchedJobs DEF TypeOK
<1>1. ASSUME NEW l \in Leases, ClaimWorker(l) PROVE TypeOK'
  BY <1>0, <1>1 DEF ClaimWorker, Persisted, TypeOK
<1>2. ASSUME NEW l \in Leases, ReleaseWorker(l) PROVE TypeOK'
  BY <1>0, <1>2 DEF ReleaseWorker, Persisted, TypeOK
<1>3. ASSUME NEW o \in Agents, NEW d \in Domains, ClaimOwner(o, d) PROVE TypeOK'
  <2> DEFINE e == [domain[d] EXCEPT !.owner = o,
                                    !.state = IF @ = "reserved" THEN "resolving" ELSE @]
  <2>1. domain[d] \in Entries BY DEF TypeOK
  <2>2. e \in Entries BY <2>1 DEF Entries, DomainStates
  <2>3. domain' = [domain EXCEPT ![d] = e] BY <1>3 DEF ClaimOwner, TypeOK
  <2>4. lease' \subseteq Leases BY <1>3 DEF ClaimOwner, ResolverLease, Leases, TypeOK
  <2>5. domain \in [Domains -> Entries] BY DEF TypeOK
  <2> HIDE DEF e
  <2> QED BY <1>3, <2>2, <2>3, <2>4, <2>5, EntrySaved DEF ClaimOwner
<1>4. ASSUME NEW o \in Agents, NEW d \in Domains, Relinquish(o, d) PROVE TypeOK'
  <2> DEFINE e == [domain[d] EXCEPT !.owner = None,
                                    !.state = IF @ = "resolving" THEN "reserved" ELSE @]
  <2>1. domain[d] \in Entries BY DEF TypeOK
  <2>2. e \in Entries BY <2>1 DEF Entries, DomainStates
  <2>3. domain' = [domain EXCEPT ![d] = e] BY <1>4 DEF Relinquish, TypeOK
  <2>4. lease' \subseteq Leases BY <1>4 DEF Relinquish, TypeOK
  <2>5. domain \in [Domains -> Entries] BY DEF TypeOK
  <2> HIDE DEF e
  <2> QED BY <1>4, <2>2, <2>3, <2>4, <2>5, EntrySaved DEF Relinquish
<1> QED BY <1>1, <1>2, <1>3, <1>4 DEF Leasing, ReleaseOwner, RecoverOwner

LEMMA TypeReviewing == TypeOK /\ Reviewing => TypeOK'
<1> SUFFICES ASSUME TypeOK, NEW d \in Domains, NEW v \in Verdicts, NEW a \in Agents,
                    Review(d, v, a)
             PROVE  TypeOK'
  BY DEF Reviewing, Verdicts
<1>1. domain \in [Domains -> Entries] /\ domain[d] \in Entries /\ domain[d].result \in Results
  BY DEF Review, Reviewable, Loadable, TypeOK, Entries
<1>2. Reviewed(domain[d], v, a) \in Entries
  <2> DEFINE opinion == [reviewer |-> a, verdict |-> v, result |-> domain[d].result]
  <2>1. opinion \in Opinions
    BY <1>1 DEF Opinions
  <2>0. Reviewed(domain[d], v, a) =
          CASE v = "repair_once" -> [domain[d] EXCEPT !.state = "repair", !.repairs = 1,
                                                      !.accepted = FALSE, !.review = opinion]
            [] v = "accept" -> [domain[d] EXCEPT !.accepted = TRUE, !.review = opinion]
            [] v = "fail" -> [domain[d] EXCEPT !.state = "failed", !.accepted = FALSE,
                                               !.review = opinion]
    BY DEF Reviewed
  <2> HIDE DEF opinion
  <2>2. ASSUME NEW e \in Entries, NEW o \in Opinions
        PROVE  [e EXCEPT !.state = "repair", !.repairs = 1, !.accepted = FALSE, !.review = o]
                  \in Entries
    <3>1. 1 \in 0 .. 1
      OBVIOUS
    <3>2. [e EXCEPT !.state = "repair", !.accepted = FALSE] \in Entries
      BY DEF Entries, DomainStates
    <3>3. ASSUME NEW f \in Entries PROVE [f EXCEPT !.repairs = 1] \in Entries
      BY <3>1 DEF Entries
    <3>4. ASSUME NEW f \in Entries PROVE [f EXCEPT !.review = o] \in Entries
      BY DEF Entries
    <3> QED BY <3>2, <3>3, <3>4
  <2>3. ASSUME NEW e \in Entries, NEW o \in Opinions
        PROVE  [e EXCEPT !.accepted = TRUE, !.review = o] \in Entries
    BY DEF Entries, DomainStates
  <2>4. ASSUME NEW e \in Entries, NEW o \in Opinions
        PROVE  [e EXCEPT !.state = "failed", !.accepted = FALSE, !.review = o] \in Entries
    BY DEF Entries, DomainStates
  <2> QED BY <1>1, <2>0, <2>1, <2>2, <2>3, <2>4 DEF Verdicts
<1>3. domain' = [domain EXCEPT ![d] = Reviewed(domain[d], v, a)]
  BY <1>1 DEF Review
<1>4. lease' \subseteq Leases BY DEF Review, TypeOK
<1> QED BY <1>1, <1>2, <1>3, <1>4, EntrySaved DEF Review

LEMMA RefreshedWaits == ASSUME TypeOK PROVE Refreshed \in [Requirements -> Waits]
<1>1. ASSUME NEW w \in Waits PROVE [w EXCEPT !.state = "ready_to_resume"] \in Waits
  BY DEF Waits
<1> QED BY <1>1 DEF Refreshed, TypeOK

LEMMA TypeWaiting == TypeOK /\ Waiting => TypeOK'
<1> SUFFICES ASSUME TypeOK, Waiting PROVE TypeOK'
  OBVIOUS
<1>0. Touched \in [Procs -> Jobs] BY TouchedJobs DEF TypeOK
<1>1. ASSUME NEW r \in Requirements, NEW ds \in SUBSET Domains, NEW o \in Agents, Mark(r, ds, o)
      PROVE  TypeOK'
  BY <1>0, <1>1 DEF Mark, Persisted, TypeOK, Waits
<1>2. CASE Statuses
  BY <1>0, <1>2, RefreshedWaits DEF Statuses, Persisted, TypeOK
<1> QED BY <1>1, <1>2 DEF Waiting

LEMMA TypeResuming == ASSUME NEW p \in Procs PROVE TypeOK /\ Resuming(p) => TypeOK'
<1> SUFFICES ASSUME TypeOK, Resuming(p) PROVE TypeOK'
  OBVIOUS
<1>0. job \in [Procs -> Jobs] /\ Touched \in [Procs -> Jobs] BY TouchedJobs DEF TypeOK
<1>1. ASSUME NEW r \in Requirements, NEW o \in Agents, StartResume(p, r, o) PROVE TypeOK'
  <2>1. [Idle EXCEPT !.op = "resume", !.subject = r, !.agent = o] \in Jobs
    BY IdleJob DEF Jobs, Calls
  <2>2. job' \in [Procs -> Jobs]
    BY <1>0, <1>1, <2>1 DEF StartResume
  <2> QED BY <1>1, <2>2, RefreshedWaits DEF StartResume, TypeOK
<1>2. CASE Reacquire(p)
  <2>1. ASSUME NEW j \in Jobs PROVE [j EXCEPT !.at = "leased"] \in Jobs
    BY DEF Jobs, Calls
  <2>2. job' \in [Procs -> Jobs]
    BY <1>0, <1>2, <2>1 DEF Reacquire
  <2>3. AnalystLease(job[p].agent, job[p].subject) \in Leases
    BY <1>0, <1>2 DEF Reacquire, AnalystLease, Leases, WorkerTypes, Jobs
  <2> QED BY <1>2, <2>2, <2>3 DEF Reacquire, TypeOK
<1>3. CASE Resume(p)
  <2>1. job' \in [Procs -> Jobs]
    BY <1>0, <1>3, IdleJob DEF Resume
  <2>2. wait' \in [Requirements -> Waits]
    <3>1. ASSUME NEW w \in Waits PROVE [w EXCEPT !.state = "resumed"] \in Waits
      BY DEF Waits
    <3> QED BY <1>0, <1>3, <3>1 DEF Resume, TypeOK, Jobs
  <2> QED BY <1>3, <2>1, <2>2 DEF Resume, TypeOK
<1> QED BY <1>1, <1>2, <1>3 DEF Resuming

LEMMA GivenUp == ASSUME TypeOK, NEW p \in Procs, GiveUp(p) PROVE TypeOK'
BY IdleJob DEF GiveUp, TypeOK

LEMMA Retried == ASSUME TypeOK, NEW p \in Procs, Retry(p) PROVE TypeOK'
<1>1. Again(job[p]) \in Jobs BY AgainJob DEF TypeOK
<1> QED BY <1>1 DEF Retry, TypeOK

LEMMA TypeSubmitting == ASSUME NEW p \in Procs PROVE TypeOK /\ Submitting(p) => TypeOK'
<1> SUFFICES ASSUME TypeOK, Submitting(p) PROVE TypeOK'
  OBVIOUS
<1>0. job \in [Procs -> Jobs] /\ Touched \in [Procs -> Jobs] BY TouchedJobs DEF TypeOK
<1>1. ASSUME NEW o \in Agents, NEW d \in Domains, NEW x \in Results, StartSubmit(p, o, d, x)
      PROVE  TypeOK'
  <2>1. domain[d].scope \in SUBSET Hints BY DEF TypeOK, Entries
  <2>2. [Idle EXCEPT !.op = "submit", !.subject = d, !.agent = o, !.result = x,
                     !.scope = domain[d].scope] \in Jobs
    BY <2>1, IdleJob DEF Jobs, Calls
  <2>3. job' \in [Procs -> Jobs]
    BY <1>0, <1>1, <2>2 DEF StartSubmit
  <2> QED BY <1>1, <2>3 DEF StartSubmit, TypeOK
<1>2. ASSUME NEW stop \in {"artifact", "state", "done"}, Deliver(p, stop) PROVE TypeOK'
  <2> DEFINE j == job[p]
             d == j.subject
  <2>1. j.op = "submit" BY <1>2 DEF Deliver
  <2>2. d \in Domains /\ j.agent \in Agents /\ j.result \in Results
    BY <1>0, <2>1 DEF Jobs
  <2>3. domain[d] \in Entries /\ domain[d].scope \in SUBSET Hints
    BY <2>2 DEF TypeOK, Entries
  <2>4. artifact' = [artifact EXCEPT ![d] = [result |-> j.result, scope |-> domain[d].scope]]
    BY <1>2 DEF Deliver
  <2>5. artifact' \in [Domains -> [result : Results, scope : SUBSET Hints] \cup {None}]
    BY <2>2, <2>3, <2>4 DEF TypeOK
  <2>6. lease' \subseteq Leases /\ UNCHANGED <<wait, published, litter>>
    BY <1>2 DEF Deliver, TypeOK
  <2>7. CASE stop = "artifact"
    <3>1. job' \in [Procs -> Jobs] /\ UNCHANGED <<domain, author>>
      BY <1>0, <1>2, <2>7, IdleJob DEF Deliver
    <3> QED BY <2>5, <2>6, <3>1 DEF TypeOK
  <2>8. CASE stop # "artifact"
    <3>1. job' \in [Procs -> Jobs]
      BY <1>0, <1>2, <2>8, IdleJob DEF Deliver
    <3>2. ASSUME NEW e \in Entries, NEW x \in Results, NEW h \in SUBSET Hints
          PROVE  [e EXCEPT !.result = x, !.resultScope = h, !.state = "review_pending",
                           !.accepted = FALSE] \in Entries
      BY DEF Entries, DomainStates
    <3>3. Submitted(domain[d], j) \in Entries
      BY <2>2, <2>3, <3>2 DEF Submitted
    <3>4. domain' = [domain EXCEPT ![d] = Submitted(domain[d], j)]
      BY <1>2, <2>2, <2>8 DEF Deliver, TypeOK
    <3>5. domain' \in [Domains -> Entries]
      BY <3>3, <3>4 DEF TypeOK
    <3>6. author' \in [Domains -> Agents \cup {None}]
      BY <1>2, <2>2, <2>8 DEF Deliver, TypeOK
    <3> QED BY <2>5, <2>6, <3>1, <3>5, <3>6 DEF TypeOK
  <2> QED BY <2>7, <2>8
<1> QED BY <1>1, <1>2, GivenUp, Retried DEF Submitting, RefuseSubmit, RetrySubmit

LEMMA TypeCommitting == ASSUME NEW p \in Procs PROVE TypeOK /\ Committing(p) => TypeOK'
<1> SUFFICES ASSUME TypeOK, Committing(p) PROVE TypeOK'
  OBVIOUS
<1>0. job \in [Procs -> Jobs] /\ Touched \in [Procs -> Jobs] BY TouchedJobs DEF TypeOK
<1>1. ASSUME NEW d \in Domains, StartCommit(p, d) PROVE TypeOK'
  <2>1. [Idle EXCEPT !.op = "commit", !.subject = d] \in Jobs
    BY IdleJob DEF Jobs, Calls
  <2>2. job' \in [Procs -> Jobs]
    BY <1>0, <1>1, <2>1 DEF StartCommit
  <2> QED BY <1>1, <2>2 DEF StartCommit, TypeOK
<1>2. ASSUME NEW stop, Publish(p, stop) PROVE TypeOK'
  <2> DEFINE d == job[p].subject
             e == domain[d]
  <2>1. d \in Domains BY <1>0, <1>2 DEF Publish, Jobs
  <2>2. e \in Entries /\ e.result \in Results
    BY <1>2, <2>1 DEF Publish, Committable, Loadable, TypeOK, Entries
  <2>3. job' \in [Procs -> Jobs]
    BY <1>0, <1>2, IdleJob DEF Publish
  <2>4. published' \in [Domains -> Results \cup {None}]
    <3>1. published' = [published EXCEPT ![d] = e.result] \/ published' = published
      BY <1>2 DEF Publish
    <3> QED BY <2>2, <3>1 DEF TypeOK
  <2>5. litter' \subseteq [subject : Domains, result : Results, by : Procs, whole : BOOLEAN]
    <3>1. [subject |-> d, result |-> e.result, by |-> p, whole |-> (stop = "whole")]
            \in [subject : Domains, result : Results, by : Procs, whole : BOOLEAN]
      BY <2>1, <2>2
    <3>2. \/ litter' = litter \cup
               {[subject |-> d, result |-> e.result, by |-> p, whole |-> (stop = "whole")]}
          \/ litter' = litter
      BY <1>2 DEF Publish
    <3> QED BY <3>1, <3>2 DEF TypeOK
  <2>6. domain' \in [Domains -> Entries]
    <3>1. Ready(e, "committed") \in Entries BY <2>2 DEF Ready, Entries, DomainStates
    <3>2. domain' = [domain EXCEPT ![d] = Ready(e, "committed")] \/ domain' = domain
      BY <1>2 DEF Publish
    <3> QED BY <3>1, <3>2 DEF TypeOK
  <2>7. lease' \subseteq Leases /\ UNCHANGED <<wait, artifact, author>>
    BY <1>2 DEF Publish, TypeOK
  <2> QED BY <2>3, <2>4, <2>5, <2>6, <2>7 DEF TypeOK
<1> QED BY <1>1, <1>2, GivenUp, Retried DEF Committing, RefuseCommit, RetryCommit

LEMMA TypeValidating == ASSUME NEW p \in Procs PROVE TypeOK /\ Validating(p) => TypeOK'
<1> SUFFICES ASSUME TypeOK, Validating(p) PROVE TypeOK'
  OBVIOUS
<1>0. job \in [Procs -> Jobs] /\ Touched \in [Procs -> Jobs] BY TouchedJobs DEF TypeOK
<1>1. CASE GiveUp(p)
  <2>1. job' \in [Procs -> Jobs]
    BY <1>0, <1>1, IdleJob DEF GiveUp
  <2> QED BY <1>1, <2>1 DEF GiveUp, TypeOK
<1>2. CASE Sample(p)
  <2>1. ASSUME NEW j \in Jobs PROVE [j EXCEPT !.at = "sampled", !.fresh = TRUE] \in Jobs
    BY DEF Jobs, Calls
  <2>2. CASE job' = [job EXCEPT ![p].at = "sampled", ![p].fresh = TRUE] /\ UNCHANGED <<registry, disk, author>>
    <3>1. job' \in [Procs -> Jobs]
      BY <1>0, <2>1, <2>2
    <3> QED BY <2>2, <3>1 DEF TypeOK
  <2> QED BY <1>1, <1>2, <2>2 DEF Sample
<1>3. CASE Project(p) /\ Reconcilable
  <2> DEFINE jobs == IF Healed = domain THEN job ELSE Touched
             j == jobs[p]
             k == IF ~Replays THEN Idle
                  ELSE IF ~j.fresh THEN Again(j)
                  ELSE [j EXCEPT !.at = "projected", !.base = CommittedResults]
  <2>1. jobs \in [Procs -> Jobs] /\ j \in Jobs BY <1>0
  <2>2. job' = [jobs EXCEPT ![p] = k] /\ domain' = Healed /\ UNCHANGED <<lease, wait, disk, author>>
    BY <1>3, <2>1 DEF Project
  <2>3. CommittedResults \in SUBSET Results BY DEF CommittedResults, Committed, TypeOK
  <2> HIDE DEF jobs
  <2>4. [j EXCEPT !.at = "projected", !.base = CommittedResults] \in Jobs
    BY <2>1, <2>3 DEF Jobs, Calls
  <2>5. k \in Jobs BY <2>1, <2>4, IdleJob, AgainJob
  <2> HIDE DEF k
  <2>6. job' \in [Procs -> Jobs] BY <2>1, <2>2, <2>5
  <2> QED BY <2>2, <2>6, HealedEntries DEF TypeOK
<1> QED BY <1>1, <1>2, <1>3 DEF Validating, Project, Die

LEMMA TypeStep == TypeOK /\ [Next]_vars => TypeOK'
<1>1. TypeOK /\ UNCHANGED vars => TypeOK'
  BY DEF vars, TypeOK
<1> QED BY <1>1, TypeScoping, TypeLeasing, TypeReviewing, TypeWaiting, TypeValidating,
           TypeSubmitting, TypeCommitting, TypeResuming DEF Next

\* The state file keeps its schema, and every call in progress its arguments.
THEOREM TypeCorrect == Spec => []TypeOK
BY TypeInit, TypeStep, PTL DEF Spec

-----------------------------------------------------------------------------
(* Committed results stand: what is published for a domain is its          *)
(* candidate, for all the scope asked for.                                 *)

\* Reconciliation changes what a domain is, never what it stands for.
LEMMA HealedKeeps ==
  ASSUME TypeOK, NEW d \in Domains
  PROVE  /\ Healed[d].result = domain[d].result
         /\ Healed[d].resultScope = domain[d].resultScope
         /\ Healed[d].scope = domain[d].scope
         /\ Healed[d].review = domain[d].review
         /\ Healed[d].state = domain[d].state \/ Healed[d].state = "ready"
         /\ Healed[d].bound = domain[d].bound \/ Healed[d].state = "ready"
<1> DEFINE pl == (CHOOSE m \in Manifests : m.subject = d).place
<1>1. domain[d] \in Entries BY DEF TypeOK
<1>2. Healed[d] = Ready(domain[d], pl) \/ Healed[d] = domain[d]
  BY DEF Healed
<1> HIDE DEF pl
<1> QED BY <1>1, <1>2 DEF Ready, Entries

LEMMA HealedReady ==
  ASSUME TypeOK, BoundIsReady
  PROVE  /\ \A d \in Domains : Healed[d].bound # None => Healed[d].state = "ready"
         /\ \A d \in Committed : Healed[d].state = "ready"
<1>1. ASSUME NEW d \in Domains, Healed[d].bound # None PROVE Healed[d].state = "ready"
  BY <1>1, HealedKeeps DEF BoundIsReady
<1>2. ASSUME NEW d \in Committed PROVE Healed[d].state = "ready"
  <2>1. d \in Domains /\ domain[d] \in Entries BY DEF Committed, TypeOK
  <2>2. [subject |-> d, result |-> published[d], place |-> "committed"] \in Manifests
    BY DEF Manifests
  <2>3. \E m \in Manifests : m.subject = d BY <2>2
  <2>4. CASE domain[d].bound = None
    <3> DEFINE pl == (CHOOSE m \in Manifests : m.subject = d).place
    <3>1. Healed[d] = Ready(domain[d], pl) BY <2>1, <2>3, <2>4 DEF Healed
    <3> HIDE DEF pl
    <3> QED BY <2>1, <3>1 DEF Ready, Entries
  <2>5. CASE domain[d].bound # None
    BY <2>1, <2>5, HealedKeeps DEF BoundIsReady
  <2> QED BY <2>4, <2>5
<1> QED BY <1>1, <1>2

LEMMA WidenedKeeps ==
  ASSUME NEW e \in Entries, NEW h \in SUBSET Hints
  PROVE  /\ Widened(e, h).bound = e.bound
         /\ e.state = "ready" => Widened(e, h).state = "ready"
         /\ Widened(e, h).state = "ready" => e.state = "ready"
         /\ e.state = "ready" /\ h \subseteq e.scope => Widened(e, h) = e
<1>1. Invalidated(e).bound = e.bound /\ Invalidated(e) \in Entries
  BY DEF Invalidated, Entries, DomainStates
<1>2. /\ e.state = "ready" => Invalidated(e).state = "ready"
      /\ Invalidated(e).state = "ready" => e.state = "ready"
  BY DEF Invalidated, Entries
<1> HIDE DEF Invalidated
<1> QED BY <1>1, <1>2 DEF Widened, Entries

\* A step that writes the registry and leaves no token standing.
LEMMA StandingSaved ==
  ASSUME TypeOK, Standing, NEW ACTION e, NEW ACTION d, d \in Domains, e \in Entries,
         NEW ACTION base, base \in [Domains -> Entries],
         \A c \in Domains : base[c].bound # None => base[c].state = "ready",
         \A c \in Domains : /\ base[c].result = domain[c].result
                            /\ base[c].resultScope = domain[c].resultScope
                            /\ base[c].scope = domain[c].scope,
         domain' = [base EXCEPT ![d] = e],
         e.bound # None => e.state = "ready",
         d \in Committed => /\ e.result = domain[d].result
                            /\ e.resultScope = domain[d].resultScope
                            /\ e.scope = domain[d].scope,
         \A p \in Procs : job'[p] = Idle \/ job'[p].fresh = FALSE,
         UNCHANGED published
  PROVE  Standing'
<1>1. BoundIsReady' BY DEF BoundIsReady
<1>2. FreshIsCurrent' BY DEF FreshIsCurrent, Optimistic, Idle
<1>3. CommittedScope' BY DEF Standing, CommittedScope, Committed
<1> QED BY <1>1, <1>2, <1>3 DEF Standing

LEMMA NoneFresh ==
  ASSUME TypeOK PROVE \A p \in Procs : Touched[p].fresh = FALSE
BY DEF Touched, TypeOK, Jobs, Calls

\* A step that leaves registry and publications alone, and gives no process a
\* projection.
LEMMA StandingKept ==
  ASSUME Standing, UNCHANGED <<domain, published>>,
         \A p \in Procs : \/ job'[p] = job[p]
                          \/ job'[p].fresh = FALSE
                          \/ job'[p].at # "projected"
  PROVE  Standing'
<1>1. FreshIsCurrent'
  BY DEF Standing, FreshIsCurrent, Optimistic, Committed, CommittedResults
<1> QED BY <1>1 DEF Standing, BoundIsReady, CommittedScope, Committed

LEMMA StandingScoping == TypeOK /\ Standing /\ Scoping => Standing'
<1> SUFFICES ASSUME TypeOK, Standing, Scoping PROVE Standing'
  OBVIOUS
<1>0. /\ Healed \in [Domains -> Entries]
      /\ \A c \in Domains : Healed[c].bound # None => Healed[c].state = "ready"
      /\ \A c \in Committed : Healed[c].state = "ready"
      /\ \A c \in Domains : /\ Healed[c].result = domain[c].result
                            /\ Healed[c].resultScope = domain[c].resultScope
                            /\ Healed[c].scope = domain[c].scope
  BY HealedEntries, HealedReady, HealedKeeps DEF Standing
<1>1. CASE Reconcile
  <2>1. \A p \in Procs : job'[p].fresh = FALSE
    BY <1>1, NoneFresh DEF Reconcile, Persisted
  <2>2. domain' = Healed /\ UNCHANGED published BY <1>1 DEF Reconcile
  <2>3. BoundIsReady' BY <1>0, <2>2 DEF BoundIsReady
  <2>4. FreshIsCurrent' BY <2>1 DEF FreshIsCurrent
  <2>5. CommittedScope' BY <1>0, <2>2 DEF Standing, CommittedScope, Committed
  <2> QED BY <2>3, <2>4, <2>5 DEF Standing
<1>2. ASSUME NEW d \in Domains, NEW h \in SUBSET Hints, NEW r \in Requirements, Reserve(r, d, h)
      PROVE  Standing'
  <2> DEFINE e == Widened(Healed[d], h)
             f == [e EXCEPT !.askers = @ \cup {r},
                            !.state = IF @ = "absent" THEN "reserved" ELSE @]
  <2>1. e \in Entries BY <1>0, WidenedEntry
  <2>2. /\ e.bound # None => e.state = "ready"
        /\ d \in Committed => e = Healed[d]
    BY <1>0, <1>2, WidenedKeeps DEF Reserve
  <2>3. domain' = [Healed EXCEPT ![d] = f] /\ UNCHANGED published /\ job' = Touched
    BY <1>2 DEF Reserve, Persisted
  <2> HIDE DEF e
  <2>4. f \in Entries BY <2>1 DEF Entries, DomainStates
  <2>5. /\ f.bound = e.bound /\ f.result = e.result /\ f.resultScope = e.resultScope
        /\ f.scope = e.scope
        /\ e.state = "ready" => f.state = "ready"
    BY <2>1 DEF Entries
  <2> HIDE DEF f
  <2>6. /\ f.bound # None => f.state = "ready"
        /\ d \in Committed => /\ f.result = domain[d].result
                              /\ f.resultScope = domain[d].resultScope
                              /\ f.scope = domain[d].scope
    BY <1>0, <2>2, <2>5
  <2> QED BY <1>0, <2>3, <2>4, <2>6, NoneFresh, StandingSaved
<1>3. ASSUME NEW d \in Domains, NEW h \in SUBSET Hints, NEW o \in Agents, Discover(o, d, h)
      PROVE  Standing'
  <2> DEFINE e == Widened(Healed[d], h)
  <2>1. e \in Entries BY <1>0, WidenedEntry
  <2>2. /\ e.bound # None => e.state = "ready"
        /\ d \notin Committed
    BY <1>0, <1>3, WidenedKeeps DEF Discover
  <2>3. domain' = [Healed EXCEPT ![d] = e] /\ UNCHANGED published /\ job' = Touched
    BY <1>3 DEF Discover, Persisted
  <2> HIDE DEF e
  <2> QED BY <1>0, <2>1, <2>2, <2>3, NoneFresh, StandingSaved
<1> QED BY <1>1, <1>2, <1>3 DEF Scoping

LEMMA StandingLeasing == TypeOK /\ Standing /\ Leasing => Standing'
<1> SUFFICES ASSUME TypeOK, Standing, Leasing PROVE Standing'
  OBVIOUS
<1>0. /\ domain \in [Domains -> Entries]
      /\ \A c \in Domains : domain[c].bound # None => domain[c].state = "ready"
  BY DEF TypeOK, Standing, BoundIsReady
<1>1. ASSUME NEW l \in Leases, ClaimWorker(l) \/ ReleaseWorker(l) PROVE Standing'
  BY <1>1, NoneFresh, StandingKept DEF ClaimWorker, ReleaseWorker, Persisted
<1>2. ASSUME NEW o \in Agents, NEW d \in Domains, ClaimOwner(o, d) PROVE Standing'
  <2> DEFINE e == [domain[d] EXCEPT !.owner = o,
                                    !.state = IF @ = "reserved" THEN "resolving" ELSE @]
  <2>1. e \in Entries BY <1>0 DEF Entries, DomainStates
  <2>2. /\ e.bound = domain[d].bound /\ e.result = domain[d].result
        /\ e.resultScope = domain[d].resultScope /\ e.scope = domain[d].scope
        /\ domain[d].state = "ready" => e.state = "ready"
    BY <1>0 DEF Entries
  <2>3. domain' = [domain EXCEPT ![d] = e] /\ UNCHANGED published /\ job' = Touched
    BY <1>0, <1>2 DEF ClaimOwner, Persisted
  <2> HIDE DEF e
  <2> QED BY <1>0, <2>1, <2>2, <2>3, NoneFresh, StandingSaved
<1>3. ASSUME NEW o \in Agents, NEW d \in Domains, Relinquish(o, d) PROVE Standing'
  <2> DEFINE e == [domain[d] EXCEPT !.owner = None,
                                    !.state = IF @ = "resolving" THEN "reserved" ELSE @]
  <2>1. e \in Entries BY <1>0 DEF Entries, DomainStates
  <2>2. /\ e.bound = domain[d].bound /\ e.result = domain[d].result
        /\ e.resultScope = domain[d].resultScope /\ e.scope = domain[d].scope
        /\ domain[d].state = "ready" => e.state = "ready"
    BY <1>0 DEF Entries
  <2>3. domain' = [domain EXCEPT ![d] = e] /\ UNCHANGED published /\ job' = Touched
    BY <1>0, <1>3 DEF Relinquish, Persisted
  <2> HIDE DEF e
  <2> QED BY <1>0, <2>1, <2>2, <2>3, NoneFresh, StandingSaved
<1> QED BY <1>1, <1>2, <1>3 DEF Leasing, ReleaseOwner, RecoverOwner

LEMMA ReviewedKeeps ==
  ASSUME NEW e \in Entries, NEW v \in Verdicts, NEW a
  PROVE  /\ Reviewed(e, v, a).bound = e.bound /\ Reviewed(e, v, a).result = e.result
         /\ Reviewed(e, v, a).resultScope = e.resultScope /\ Reviewed(e, v, a).scope = e.scope
BY DEF Reviewed, Entries, Verdicts

LEMMA StandingReviewing == TypeOK /\ TypeOK' /\ Standing /\ Reviewing => Standing'
<1> SUFFICES ASSUME TypeOK, TypeOK', Standing, NEW d \in Domains, NEW v \in Verdicts,
                    NEW a \in Agents, Review(d, v, a)
             PROVE  Standing'
  BY DEF Reviewing, Verdicts
<1> DEFINE e == Reviewed(domain[d], v, a)
<1>1. /\ domain \in [Domains -> Entries]
      /\ \A c \in Domains : domain[c].bound # None => domain[c].state = "ready"
  BY DEF TypeOK, Standing, BoundIsReady
<1>2. domain' = [domain EXCEPT ![d] = e] /\ UNCHANGED published /\ job' = Touched
  BY <1>1 DEF Review, Persisted
<1>3. e \in Entries BY <1>1, <1>2 DEF TypeOK
<1>4. domain[d].bound = None BY <1>1 DEF Review, Reviewable
<1>5. /\ e.bound = None /\ e.result = domain[d].result
      /\ e.resultScope = domain[d].resultScope /\ e.scope = domain[d].scope
  BY <1>1, <1>4, ReviewedKeeps
<1> HIDE DEF e
<1> QED BY <1>1, <1>2, <1>3, <1>5, NoneFresh, StandingSaved

LEMMA StandingWaiting == TypeOK /\ Standing /\ Waiting => Standing'
BY NoneFresh, StandingKept DEF Waiting, Mark, Statuses, Persisted

LEMMA StandingResuming ==
  ASSUME NEW p \in Procs PROVE TypeOK /\ Standing /\ Resuming(p) => Standing'
<1> SUFFICES ASSUME TypeOK, Standing, Resuming(p) PROVE Standing'
  OBVIOUS
<1>0. job \in [Procs -> Jobs] /\ Touched \in [Procs -> Jobs] BY TouchedJobs DEF TypeOK
<1>1. ASSUME NEW q \in Procs
      PROVE  job'[q] = job[q] \/ job'[q].fresh = FALSE \/ job'[q].at # "projected"
  <2>1. CASE \E r \in Requirements, o \in Agents : StartResume(p, r, o)
    <3>1. PICK r \in Requirements, o \in Agents : StartResume(p, r, o) BY <2>1
    <3> DEFINE new == [Idle EXCEPT !.op = "resume", !.subject = r, !.agent = o]
               jobs == IF Refreshed = wait THEN job ELSE Touched
    <3>2. job' = [jobs EXCEPT ![p] = new] BY <3>1 DEF StartResume
    <3>3. new.at # "projected" BY DEF Idle
    <3>4. jobs = job \/ jobs = Touched OBVIOUS
    <3> HIDE DEF new, jobs
    <3> QED BY <1>0, <3>2, <3>3, <3>4, NoneFresh
  <2>2. CASE Reacquire(p)
    BY <1>0, <2>2, NoneFresh DEF Reacquire, Jobs, Calls
  <2>3. CASE Resume(p)
    BY <1>0, <2>3, NoneFresh DEF Resume, Idle
  <2> QED BY <2>1, <2>2, <2>3 DEF Resuming
<1>2. UNCHANGED <<domain, published>> BY DEF Resuming, StartResume, Reacquire, Resume
<1> QED BY <1>1, <1>2, StandingKept

LEMMA StandingGivenUp == ASSUME Standing, TypeOK, NEW p \in Procs, GiveUp(p) PROVE Standing'
BY StandingKept DEF GiveUp, TypeOK, Idle

LEMMA AgainStale ==
  ASSUME NEW j \in Jobs PROVE Again(j).fresh = FALSE
BY DEF Again, Idle, Jobs, Calls

LEMMA StandingRetried == ASSUME Standing, TypeOK, NEW p \in Procs, Retry(p) PROVE Standing'
BY AgainStale, StandingKept DEF Retry, TypeOK

LEMMA StandingValidating ==
  ASSUME NEW p \in Procs PROVE TypeOK /\ TypeOK' /\ Standing /\ Validating(p) => Standing'
<1> SUFFICES ASSUME TypeOK, TypeOK', Standing, Validating(p) PROVE Standing'
  OBVIOUS
<1>0. job \in [Procs -> Jobs] /\ Touched \in [Procs -> Jobs] BY TouchedJobs DEF TypeOK
<1>1. CASE GiveUp(p) BY <1>1, StandingGivenUp
<1>2. CASE job' = [job EXCEPT ![p].at = "sampled", ![p].fresh = TRUE] /\ UNCHANGED <<registry, disk, author>>
  <2>1. \A q \in Procs : job'[q] = job[q] \/ job'[q].at # "projected"
    BY <1>0, <1>2 DEF Jobs, Calls
  <2> QED BY <1>2, <2>1, StandingKept
<1>3. CASE Project(p) /\ Reconcilable
  <2> DEFINE jobs == IF Healed = domain THEN job ELSE Touched
             j == jobs[p]
             k == IF ~Replays THEN Idle
                  ELSE IF ~j.fresh THEN Again(j)
                  ELSE [j EXCEPT !.at = "projected", !.base = CommittedResults]
  <2>1. jobs \in [Procs -> Jobs] /\ j \in Jobs BY <1>0
  <2>2. job' = [jobs EXCEPT ![p] = k] /\ domain' = Healed /\ UNCHANGED <<lease, wait, disk, author>>
    BY <1>3, <2>1 DEF Project
  <2>3. ASSUME NEW q \in Procs, q # p
        PROVE  (job'[q] = job[q] /\ domain' = domain) \/ job'[q].fresh = FALSE
    BY <2>1, <2>2, <2>3, NoneFresh
  <2> HIDE DEF jobs
  <2>4. job'[p] = k BY <2>1, <2>2
  <2>5. job'[p].fresh => job'[p].base = CommittedResults
    <3>1. CASE ~Replays BY <2>4, <3>1 DEF Idle
    <3>2. CASE Replays /\ ~j.fresh BY <2>1, <2>4, <3>2, AgainStale
    <3>3. CASE Replays /\ j.fresh BY <2>1, <2>4, <3>3 DEF Jobs, Calls
    <3> QED BY <3>1, <3>2, <3>3
  <2> HIDE DEF k
  <2>6. BoundIsReady' BY <2>2, HealedReady DEF Standing, BoundIsReady
  <2>7. CommittedScope' BY <2>2, HealedKeeps DEF Standing, CommittedScope, Committed
  <2>8. CommittedResults' = CommittedResults /\ Committed' = Committed
    BY <2>2 DEF CommittedResults, Committed
  <2>9. \A c \in Committed : domain'[c].state = "ready"
    BY <2>2, HealedReady DEF Standing
  <2>10. FreshIsCurrent'
    <3> SUFFICES ASSUME NEW q \in Procs, Optimistic(q)', job'[q].at = "projected", job'[q].fresh
                 PROVE  job'[q].base = CommittedResults
      BY <2>8, <2>9 DEF FreshIsCurrent
    <3>1. CASE q = p BY <2>5, <3>1
    <3>2. CASE q # p BY <2>3, <3>2 DEF Standing, FreshIsCurrent, Optimistic
    <3> QED BY <3>1, <3>2
  <2> QED BY <2>6, <2>7, <2>10 DEF Standing
<1> QED BY <1>1, <1>2, <1>3 DEF Validating, Sample, Project, Die

LEMMA StandingSubmitting ==
  ASSUME NEW p \in Procs PROVE TypeOK /\ TypeOK' /\ Standing /\ Submitting(p) => Standing'
<1> SUFFICES ASSUME TypeOK, TypeOK', Standing, Submitting(p) PROVE Standing'
  OBVIOUS
<1>0. job \in [Procs -> Jobs] /\ Touched \in [Procs -> Jobs] BY TouchedJobs DEF TypeOK
<1>1. ASSUME NEW o \in Agents, NEW d \in Domains, NEW x \in Results, StartSubmit(p, o, d, x)
      PROVE  Standing'
  BY <1>0, <1>1, StandingKept DEF StartSubmit, Idle
<1>2. ASSUME NEW stop \in {"artifact", "state", "done"}, Deliver(p, stop) PROVE Standing'
  <2> DEFINE d == job[p].subject
             e == Submitted(domain[d], job[p])
  <2>1. d \in Domains /\ domain[d] \in Entries
    BY <1>0, <1>2 DEF Deliver, Jobs, TypeOK
  <2>2. domain[d].state # "ready" BY <1>2 DEF Deliver, Submittable
  <2>3. d \notin Committed
    BY <1>2, <2>2 DEF Deliver, Standing, FreshIsCurrent, Optimistic
  <2>4. CASE stop = "artifact"
    <3>1. job' = [job EXCEPT ![p] = Idle] /\ UNCHANGED <<domain, published>>
      BY <1>2, <2>4 DEF Deliver
    <3> QED BY <1>0, <3>1, StandingKept DEF Idle
  <2>5. CASE stop # "artifact"
    <3>1. domain' = [domain EXCEPT ![d] = e] /\ UNCHANGED published
      BY <1>2, <2>1, <2>5 DEF Deliver, TypeOK
    <3>2. e \in Entries BY <2>1, <3>1 DEF TypeOK
    <3>3. e.bound # None => e.state = "ready"
      BY <2>1, <2>2 DEF Submitted, Standing, BoundIsReady, Entries
    <3>4. \A q \in Procs : job'[q] = Idle \/ job'[q].fresh = FALSE
      BY <1>0, <1>2, <2>5, NoneFresh DEF Deliver
    <3>5. /\ domain \in [Domains -> Entries]
          /\ \A c \in Domains : domain[c].bound # None => domain[c].state = "ready"
      BY DEF TypeOK, Standing, BoundIsReady
    <3> HIDE DEF d, e
    <3> QED BY <2>1, <2>3, <3>1, <3>2, <3>3, <3>4, <3>5, StandingSaved
  <2> QED BY <2>4, <2>5
<1> QED BY <1>1, <1>2, StandingGivenUp, StandingRetried DEF Submitting, RefuseSubmit, RetrySubmit

LEMMA StandingCommitting ==
  ASSUME NEW p \in Procs PROVE TypeOK /\ TypeOK' /\ Standing /\ Committing(p) => Standing'
<1> SUFFICES ASSUME TypeOK, TypeOK', Standing, Committing(p) PROVE Standing'
  OBVIOUS
<1>0. job \in [Procs -> Jobs] /\ Touched \in [Procs -> Jobs] BY TouchedJobs DEF TypeOK
<1>1. ASSUME NEW d \in Domains, StartCommit(p, d) PROVE Standing'
  BY <1>0, <1>1, StandingKept DEF StartCommit, Idle
<1>2. ASSUME NEW stop, Publish(p, stop) PROVE Standing'
  <2> DEFINE d == job[p].subject
             e == domain[d]
  <2>1. d \in Domains /\ e \in Entries
    BY <1>0, <1>2 DEF Publish, Jobs, TypeOK
  <2>2. CASE stop \notin DirectoryWritten
    <3>1. stop \notin StateWritten BY <2>2 DEF DirectoryWritten, StateWritten
    <3>2. job' = [job EXCEPT ![p] = Idle] /\ UNCHANGED <<domain, published>>
      BY <1>2, <2>2, <3>1 DEF Publish
    <3> QED BY <1>0, <3>2, StandingKept DEF Idle
  <2>3. CASE stop \in DirectoryWritten
    <3>1. published' = [published EXCEPT ![d] = e.result] BY <1>2, <2>3 DEF Publish
    <3>2. domain' = domain \/ domain' = [domain EXCEPT ![d] = Ready(e, "committed")]
      BY <1>2 DEF Publish
    <3>3. \A q \in Procs : job'[q] = Idle \/ job'[q].fresh = FALSE
      BY <1>0, <1>2, <2>3, NoneFresh DEF Publish
    <3>4. e.resultScope = e.scope BY <1>2 DEF Publish, Committable
    <3>5. LET r == Ready(e, "committed") IN
            /\ r.result = e.result /\ r.resultScope = e.resultScope /\ r.scope = e.scope
            /\ r.state = "ready"
      BY <2>1 DEF Ready, Entries
    <3>6. domain \in [Domains -> Entries] /\ published \in [Domains -> Results \cup {None}]
      BY DEF TypeOK
    <3> HIDE DEF d, e
    <3>7. BoundIsReady' BY <2>1, <3>2, <3>5, <3>6 DEF Standing, BoundIsReady
    <3>8. FreshIsCurrent' BY <3>3 DEF FreshIsCurrent, Optimistic, Idle
    <3>9. CommittedScope'
      <4> SUFFICES ASSUME NEW c \in Domains, published'[c] # None
                   PROVE  /\ domain'[c].result = published'[c]
                          /\ domain'[c].resultScope = domain'[c].scope
        BY DEF CommittedScope, Committed
      <4>1. CASE c = d BY <2>1, <3>1, <3>2, <3>4, <3>5, <3>6, <4>1 DEF e
      <4>2. CASE c # d
        BY <2>1, <3>1, <3>2, <3>6, <4>2 DEF Standing, CommittedScope, Committed
      <4> QED BY <4>1, <4>2
    <3> QED BY <3>7, <3>8, <3>9 DEF Standing
  <2> QED BY <2>2, <2>3
<1> QED BY <1>1, <1>2, StandingGivenUp, StandingRetried DEF Committing, RefuseCommit, RetryCommit

LEMMA StandingStep == TypeOK /\ TypeOK' /\ Standing /\ [Next]_vars => Standing'
<1>1. Standing /\ UNCHANGED vars => Standing'
  BY StandingKept DEF vars
<1> QED BY <1>1, StandingScoping, StandingLeasing, StandingReviewing, StandingWaiting,
           StandingValidating, StandingSubmitting, StandingCommitting, StandingResuming DEF Next

LEMMA StandingInit == Init => Standing
BY DEF Init, Standing, BoundIsReady, FreshIsCurrent, CommittedScope, Committed, Optimistic,
       Idle, Unreserved

\* The inductive invariant behind the next theorems.
THEOREM Stands == Spec => []Standing
BY StandingInit, StandingStep, TypeCorrect, PTL DEF Spec

\* Scope never grows over a commit, whoever is killed and whoever reads next.
THEOREM ScopeIsCommitted == Spec => []CommittedScope
<1>1. Standing => CommittedScope BY DEF Standing
<1> QED BY <1>1, Stands, PTL

-----------------------------------------------------------------------------
(* The committed directories implement IdentityAuthority.                  *)

LEMMA PublishBinds ==
  ASSUME TypeOK, Standing, NEW p \in Procs, NEW stop, Publish(p, stop)
  PROVE  [Authority!Next]_published
<1> DEFINE d == job[p].subject
           e == domain[d]
<1>1. d \in Domains BY DEF Publish, TypeOK, Jobs
<1>2. e.result \in Results
  BY <1>1 DEF Publish, Committable, Loadable, TypeOK, Entries
<1>3. job[p].base = CommittedResults
  BY DEF Publish, Unchanged, Standing, FreshIsCurrent, Optimistic
<1>4. Authority!Bound = CommittedResults
  BY DEF Authority!Bound, CommittedResults, Committed
<1>5. Authority!Applies(Authority!Bound, e.result)
  BY <1>3, <1>4 DEF Publish, Committable, Applies, Authority!Applies, Compatible,
                    Authority!Compatible, Named, Authority!Named
<1>6. CASE published' = published BY <1>6
<1>7. CASE published' = [published EXCEPT ![d] = e.result] /\ published[d] = None
  <2>1. Authority!Bind(d, e.result) BY <1>5, <1>7 DEF Authority!Bind
  <2> QED BY <1>1, <1>2, <2>1 DEF Authority!Next
<1>8. CASE published' = [published EXCEPT ![d] = e.result] /\ published[d] # None
  <2>1. published[d] = e.result BY <1>8 DEF Publish, Committable
  <2>2. published' = published BY <1>1, <1>8, <2>1 DEF TypeOK
  <2> QED BY <2>2
<1> QED BY <1>6, <1>7, <1>8 DEF Publish

LEMMA AuthorityStep == TypeOK /\ Standing /\ [Next]_vars => [Authority!Next]_published
<1> SUFFICES ASSUME TypeOK, Standing, [Next]_vars PROVE [Authority!Next]_published
  OBVIOUS
<1>1. ASSUME NEW p \in Procs, NEW stop, Publish(p, stop) PROVE [Authority!Next]_published
  BY <1>1, PublishBinds
<1>2. CASE Scoping \/ Leasing \/ Reviewing \/ Waiting
  BY <1>2 DEF Scoping, Reconcile, Reserve, Discover, Leasing, ClaimWorker, ReleaseWorker,
     ClaimOwner, ReleaseOwner, RecoverOwner, Relinquish, Reviewing, Review, Waiting, Mark, Statuses
<1>3. ASSUME NEW p \in Procs, Validating(p) \/ Submitting(p) \/ Resuming(p)
      PROVE  UNCHANGED published
  BY <1>3 DEF Validating, Sample, Project, Die, Submitting, StartSubmit, Deliver, RefuseSubmit,
     RetrySubmit, Resuming, StartResume, Reacquire, Resume, GiveUp, Retry
<1>4. ASSUME NEW p \in Procs, Committing(p) PROVE [Authority!Next]_published
  BY <1>1, <1>4 DEF Committing, StartCommit, RefuseCommit, RetryCommit, GiveUp, Retry
<1>5. UNCHANGED vars => UNCHANGED published BY DEF vars
<1> QED BY <1>2, <1>3, <1>4, <1>5 DEF Next

\* Commits validated outside the lock still bind each domain once, to records
\* that fit all that was bound before.
THEOREM Binds == Spec => BindsForGood
<1>1. Init => Authority!Init BY DEF Init, Authority!Init
<1> QED BY <1>1, AuthorityStep, TypeCorrect, Stands, PTL DEF Spec, BindsForGood, Authority!Spec

LEMMA AgreeStep == TypeOK /\ CommitsAgree /\ [Authority!Next]_published => CommitsAgree'
<1> SUFFICES ASSUME TypeOK, CommitsAgree, NEW d \in Domains, NEW x \in Results,
                    Authority!Bind(d, x)
             PROVE  CommitsAgree'
  BY DEF Authority!Next, CommitsAgree, Committed, CommittedResults
<1>1. published' = [published EXCEPT ![d] = x] /\ published[d] = None
  BY DEF Authority!Bind
<1>2. published \in [Domains -> Results \cup {None}] BY DEF TypeOK
<1>3. /\ \A c \in Committed : Compatible(published[c], x)
      /\ Refers[x] \subseteq Named(CommittedResults \cup {x})
  BY DEF Authority!Bind, Authority!Applies, Authority!Compatible, Authority!Named, Authority!Bound,
     Compatible, Named, CommittedResults, Committed
<1>4. Committed' = Committed \cup {d} /\ d \notin Committed
  BY <1>1, <1>2, NoneIsNoRecord DEF Committed
<1>5. CommittedResults' = CommittedResults \cup {x}
  BY <1>1, <1>2, <1>4 DEF CommittedResults, Committed
<1>6. ASSUME NEW c \in Committed', NEW b \in Committed' PROVE Compatible(published'[c], published'[b])
  <2>1. \A y \in Results : Compatible(y, x) => Compatible(x, y) BY DEF Compatible
  <2>2. Compatible(x, x) BY DEF Compatible
  <2>3. \A a \in Committed : published'[a] = published[a] /\ published[a] \in Results
    BY <1>1, <1>2, <1>4 DEF Committed
  <2>4. published'[d] = x BY <1>1, <1>2
  <2> QED BY <1>3, <1>4, <2>1, <2>2, <2>3, <2>4 DEF CommitsAgree
<1>7. ASSUME NEW c \in Committed' PROVE Refers[published'[c]] \subseteq Named(CommittedResults')
  <2>1. Named(CommittedResults) \subseteq Named(CommittedResults') BY <1>5 DEF Named
  <2>2. CASE c = d BY <1>1, <1>2, <1>3, <1>5, <2>2
  <2>3. CASE c # d
    BY <1>1, <1>2, <1>4, <2>1, <2>3 DEF CommitsAgree
  <2> QED BY <2>2, <2>3
<1> QED BY <1>6, <1>7 DEF CommitsAgree, Committed, CommittedResults, Named, Compatible

\* Records committed by different processes never contradict each other.
THEOREM Agree == Spec => []CommitsAgree
<1>1. Init => CommitsAgree BY DEF Init, CommitsAgree, Committed
<1>2. TypeOK /\ Standing /\ CommitsAgree /\ [Next]_vars => CommitsAgree'
  BY AuthorityStep, AgreeStep
<1> QED BY <1>1, <1>2, TypeCorrect, Stands, PTL DEF Spec

-----------------------------------------------------------------------------
(* Lanes.                                                                  *)

\* Lanes are given back, or one that is free is taken.
LEMMA LaneStep ==
  ASSUME TypeOK, [Next]_vars
  PROVE  lease' \subseteq lease \/ \E l \in Leases : Free(l) /\ lease' = lease \cup {l}
<1>1. ASSUME NEW o \in Agents, NEW d \in Domains, ClaimOwner(o, d)
      PROVE  lease' \subseteq lease \/ \E l \in Leases : Free(l) /\ lease' = lease \cup {l}
  <2>1. ResolverLease(o, d) \in Leases BY DEF ResolverLease, Leases
  <2> QED BY <1>1, <2>1 DEF ClaimOwner
<1>2. ASSUME NEW p \in Procs, Reacquire(p)
      PROVE  lease' \subseteq lease \/ \E l \in Leases : Free(l) /\ lease' = lease \cup {l}
  <2>1. AnalystLease(job[p].agent, job[p].subject) \in Leases
    BY <1>2 DEF Reacquire, AnalystLease, Leases, WorkerTypes, TypeOK, Jobs
  <2> QED BY <1>2, <2>1 DEF Reacquire
<1>3. CASE Scoping \/ Reviewing \/ Waiting
  BY <1>3 DEF Scoping, Reconcile, Reserve, Discover, Reviewing, Review, Waiting, Mark, Statuses
<1>4. CASE Leasing
  BY <1>1, <1>4 DEF Leasing, ClaimWorker, ReleaseWorker, ReleaseOwner, RecoverOwner, Relinquish
<1>5. ASSUME NEW p \in Procs, Validating(p) \/ Submitting(p) \/ Committing(p)
      PROVE  lease' \subseteq lease
  BY <1>5 DEF Validating, Sample, Project, Die, Submitting, StartSubmit, Deliver, RefuseSubmit,
     RetrySubmit, Committing, StartCommit, Publish, RefuseCommit, RetryCommit, GiveUp, Retry
<1>6. ASSUME NEW p \in Procs, Resuming(p)
      PROVE  lease' \subseteq lease \/ \E l \in Leases : Free(l) /\ lease' = lease \cup {l}
  BY <1>2, <1>6 DEF Resuming, StartResume, Resume
<1>7. UNCHANGED vars => lease' \subseteq lease BY DEF vars
<1> QED BY <1>3, <1>4, <1>5, <1>6, <1>7 DEF Next

\* No domain has two resolvers, no requirement two Analytical Owners.
THEOREM LanesExclude == Spec => []OneLane
<1>1. Init => OneLane BY DEF Init, OneLane
<1>2. TypeOK /\ OneLane /\ [Next]_vars => OneLane'
  BY LaneStep DEF OneLane, Free
<1> QED BY <1>1, <1>2, TypeCorrect, PTL DEF Spec

\* The lanes in use are never more than the run has.
THEOREM LanesAreEnough == Spec => []WithinCapacity
<1> DEFINE Inv == IsFiniteSet(lease) /\ WithinCapacity
<1>1. Init => Inv
  <2> SUFFICES ASSUME Init PROVE Inv
    OBVIOUS
  <2>1. IsFiniteSet(lease) /\ Cardinality(lease) = 0 BY FS_EmptySet DEF Init
  <2>2. \A t \in WorkerTypes : Cardinality(OfType(t)) = 0
    <3>1. \A t \in WorkerTypes : OfType(t) = {} BY DEF Init, OfType
    <3> QED BY <3>1, FS_EmptySet
  <2> QED BY <2>1, <2>2, LimitType DEF WithinCapacity
<1>2. TypeOK /\ Inv /\ [Next]_vars => Inv'
  <2> SUFFICES ASSUME TypeOK, Inv, [Next]_vars PROVE Inv'
    OBVIOUS
  <2>0. /\ Limit["total_active"] \in Nat /\ \A t \in WorkerTypes : Limit[t] \in Nat
    BY LimitType
  <2>1. CASE lease' \subseteq lease
    <3>1. IsFiniteSet(lease') /\ Cardinality(lease') <= Cardinality(lease)
      BY <2>1, FS_Subset
    <3>2. ASSUME NEW t \in WorkerTypes
          PROVE  Cardinality(OfType(t)') <= Limit[t]
      <4>1. OfType(t)' \subseteq OfType(t) /\ OfType(t) \subseteq lease BY <2>1 DEF OfType
      <4>2. IsFiniteSet(OfType(t)) BY <4>1, FS_Subset
      <4>3. IsFiniteSet(OfType(t)') /\ Cardinality(OfType(t)') <= Cardinality(OfType(t))
        BY <4>1, <4>2, FS_Subset
      <4>4. Cardinality(OfType(t)') \in Nat /\ Cardinality(OfType(t)) \in Nat
        BY <4>2, <4>3, FS_CardinalityType
      <4> QED BY <2>0, <4>3, <4>4 DEF WithinCapacity
    <3>3. Cardinality(lease') \in Nat /\ Cardinality(lease) \in Nat
      BY <3>1, FS_CardinalityType
    <3>4. Cardinality(lease') <= Limit["total_active"]
      BY <2>0, <3>1, <3>3 DEF WithinCapacity
    <3> QED BY <3>1, <3>2, <3>4 DEF WithinCapacity
  <2>2. ASSUME NEW l \in Leases, Free(l), lease' = lease \cup {l} PROVE Inv'
    <3>1. l \notin lease BY <2>2 DEF Free
    <3>2. IsFiniteSet(lease') /\ Cardinality(lease') = Cardinality(lease) + 1
      BY <2>2, <3>1, FS_AddElement
    <3>3. Cardinality(lease) \in Nat BY FS_CardinalityType
    <3>4. Cardinality(lease') <= Limit["total_active"] BY <2>0, <2>2, <3>2, <3>3 DEF Free
    <3>5. ASSUME NEW t \in WorkerTypes PROVE Cardinality(OfType(t)') <= Limit[t]
      <4>1. IsFiniteSet(OfType(t))
        <5>1. OfType(t) \subseteq lease BY DEF OfType
        <5> QED BY <5>1, FS_Subset
      <4>2. CASE l.type # t
        <5>1. OfType(t)' = OfType(t) BY <2>2, <4>2 DEF OfType
        <5> QED BY <5>1 DEF WithinCapacity
      <4>3. CASE l.type = t
        <5>1. OfType(t)' = OfType(t) \cup {l} /\ l \notin OfType(t)
          BY <2>2, <3>1, <4>3 DEF OfType
        <5>2. Cardinality(OfType(t)') = Cardinality(OfType(t)) + 1
          BY <4>1, <5>1, FS_AddElement
        <5>3. Cardinality(OfType(t)) \in Nat BY <4>1, FS_CardinalityType
        <5> QED BY <2>0, <2>2, <4>3, <5>2, <5>3 DEF Free
      <4> QED BY <4>2, <4>3
    <3> QED BY <3>2, <3>4, <3>5 DEF WithinCapacity
  <2> QED BY <2>1, <2>2, LaneStep
<1>3. Inv => WithinCapacity
  OBVIOUS
<1> HIDE DEF Inv
<1> QED BY <1>1, <1>2, <1>3, TypeCorrect, PTL DEF Spec

-----------------------------------------------------------------------------
(* Waits.                                                                  *)

LEMMA ReadyStays ==
  ASSUME TypeOK, [Next]_vars, NEW c \in Domains, domain[c].state = "ready"
  PROVE  domain'[c].state = "ready"
<1>0. /\ domain \in [Domains -> Entries] /\ Healed \in [Domains -> Entries]
      /\ Healed[c].state = "ready"
  BY HealedEntries, HealedKeeps DEF TypeOK
<1>1. CASE Reconcile
  BY <1>0, <1>1 DEF Reconcile
<1>2. ASSUME NEW d \in Domains, NEW h \in SUBSET Hints, NEW r \in Requirements, Reserve(r, d, h)
      PROVE  domain'[c].state = "ready"
  <2> DEFINE e == Widened(Healed[d], h)
  <2>1. e \in Entries /\ (d = c => e.state = "ready") BY <1>0, WidenedEntry, WidenedKeeps
  <2>2. domain' = [Healed EXCEPT ![d] =
          [e EXCEPT !.askers = @ \cup {r}, !.state = IF @ = "absent" THEN "reserved" ELSE @]]
    BY <1>2 DEF Reserve
  <2> HIDE DEF e
  <2> QED BY <1>0, <2>1, <2>2 DEF Entries
<1>3. ASSUME NEW d \in Domains, NEW h \in SUBSET Hints, NEW o \in Agents, Discover(o, d, h)
      PROVE  domain'[c].state = "ready"
  <2> DEFINE e == Widened(Healed[d], h)
  <2>1. d = c => e.state = "ready" BY <1>0, WidenedKeeps
  <2>2. domain' = [Healed EXCEPT ![d] = e] BY <1>3 DEF Discover
  <2> HIDE DEF e
  <2> QED BY <1>0, <2>1, <2>2
<1>4. ASSUME NEW o \in Agents, NEW d \in Domains, ClaimOwner(o, d) \/ Relinquish(o, d)
      PROVE  domain'[c].state = "ready"
  BY <1>0, <1>4 DEF ClaimOwner, Relinquish, Entries
<1>5. ASSUME NEW d \in Domains, NEW v, NEW a, Review(d, v, a) PROVE domain'[c].state = "ready"
  BY <1>0, <1>5 DEF Review, Reviewable
<1>6. ASSUME NEW p \in Procs, Project(p) PROVE domain'[c].state = "ready"
  BY <1>0, <1>6 DEF Project, GiveUp
<1>7. ASSUME NEW p \in Procs, NEW stop, Deliver(p, stop) PROVE domain'[c].state = "ready"
  BY <1>0, <1>7 DEF Deliver, Submittable
<1>8. ASSUME NEW p \in Procs, NEW stop, Publish(p, stop) PROVE domain'[c].state = "ready"
  <2>1. \A e \in Entries : Ready(e, "committed").state = "ready" BY DEF Ready, Entries
  <2> QED BY <1>0, <1>8, <2>1 DEF Publish
<1>9. CASE UNCHANGED domain BY <1>9
<1>10. CASE Scoping BY <1>1, <1>2, <1>3, <1>10 DEF Scoping
<1>11. CASE Leasing
  BY <1>4, <1>9, <1>11 DEF Leasing, ReleaseOwner, RecoverOwner, ClaimWorker, ReleaseWorker
<1>12. CASE Reviewing BY <1>5, <1>12 DEF Reviewing
<1>13. CASE Waiting BY <1>9, <1>13 DEF Waiting, Mark, Statuses
<1>14. ASSUME NEW p \in Procs, Validating(p) PROVE domain'[c].state = "ready"
  BY <1>6, <1>9, <1>14 DEF Validating, Sample, Die, GiveUp
<1>15. ASSUME NEW p \in Procs, Submitting(p) PROVE domain'[c].state = "ready"
  BY <1>7, <1>9, <1>15 DEF Submitting, StartSubmit, RefuseSubmit, RetrySubmit, GiveUp, Retry
<1>16. ASSUME NEW p \in Procs, Committing(p) PROVE domain'[c].state = "ready"
  BY <1>8, <1>9, <1>16 DEF Committing, StartCommit, RefuseCommit, RetryCommit, GiveUp, Retry
<1>17. ASSUME NEW p \in Procs, Resuming(p) PROVE domain'[c].state = "ready"
  BY <1>9, <1>17 DEF Resuming, StartResume, Reacquire, Resume
<1>18. CASE UNCHANGED vars BY <1>9, <1>18 DEF vars
<1> QED BY <1>10, <1>11, <1>12, <1>13, <1>14, <1>15, <1>16, <1>17, <1>18 DEF Next

LEMMA OfferStep ==
  ASSUME TypeOK, [Next]_vars, NEW r \in Requirements, wait'[r].state = "ready_to_resume"
  PROVE  \/ wait[r].state = "ready_to_resume" /\ wait'[r].domains = wait[r].domains
         \/ Resolved(wait[r]) /\ wait'[r].domains = wait[r].domains
<1>0. wait \in [Requirements -> Waits] BY DEF TypeOK
<1>1. CASE wait' = Refreshed
  BY <1>0, <1>1 DEF Refreshed, Waits
<1>2. CASE UNCHANGED wait BY <1>2
<1>3. CASE Scoping \/ Leasing \/ Reviewing
  BY <1>2, <1>3 DEF Scoping, Reconcile, Reserve, Discover, Leasing, ClaimWorker, ReleaseWorker,
     ClaimOwner, ReleaseOwner, RecoverOwner, Relinquish, Reviewing, Review
<1>4. CASE Waiting
  BY <1>0, <1>1, <1>4 DEF Waiting, Mark, Statuses
<1>5. ASSUME NEW p \in Procs, Resuming(p)
      PROVE  wait' = Refreshed \/ UNCHANGED wait \/ Resume(p)
  BY <1>5 DEF Resuming, StartResume, Reacquire
<1>6. ASSUME NEW p \in Procs, Resume(p)
      PROVE  wait'[r] = wait[r]
  BY <1>0, <1>6 DEF Resume, Waits
<1>7. ASSUME NEW p \in Procs, Validating(p) \/ Submitting(p) \/ Committing(p)
      PROVE  UNCHANGED wait
  BY <1>7 DEF Validating, Sample, Project, Die, Submitting, StartSubmit, Deliver, RefuseSubmit,
     RetrySubmit, Committing, StartCommit, Publish, RefuseCommit, RetryCommit, GiveUp, Retry
<1>8. UNCHANGED vars => UNCHANGED wait BY DEF vars
<1> QED BY <1>1, <1>2, <1>3, <1>4, <1>5, <1>6, <1>7, <1>8 DEF Next

\* No requirement is offered for resumption before all its domains are ready,
\* and an offer stays true.
THEOREM OffersHold == Spec => []OfferedIsResolved
<1>1. Init => OfferedIsResolved BY DEF Init, OfferedIsResolved, NotWaiting
<1>2. TypeOK /\ OfferedIsResolved /\ [Next]_vars => OfferedIsResolved'
  <2> SUFFICES ASSUME TypeOK, OfferedIsResolved, [Next]_vars,
                      NEW r \in Requirements, wait'[r].state = "ready_to_resume",
                      NEW d \in wait'[r].domains
               PROVE  domain'[d].state = "ready"
    BY DEF OfferedIsResolved, Resolved
  <2>1. domain[d].state = "ready" BY OfferStep DEF OfferedIsResolved, Resolved
  <2>2. d \in Domains
    <3>1. wait'[r].domains = wait[r].domains BY OfferStep
    <3> QED BY <3>1 DEF TypeOK, Waits
  <2> QED BY <2>1, <2>2, ReadyStays
<1> QED BY <1>1, <1>2, TypeCorrect, PTL DEF Spec
-----------------------------------------------------------------------------
(* Verdicts and candidates.                                                *)

\* An accepted or ready entry has its verdict.
Vouched(e) ==
  e.accepted \/ e.state = "ready" =>
    e.review # None /\ e.review.verdict = "accept" /\ e.review.result = e.result

\* What every step but a submission does to an entry: its verdict stays with
\* its result, and a candidate under review is the one that was.
Follows(e, f) ==
  /\ Vouched(e) => Vouched(f)
  /\ f.state = "review_pending" =>
       e.state = "review_pending" /\ f.result = e.result /\ f.scope = e.scope

LEMMA HealedFollows ==
  ASSUME TypeOK, Reconcilable, NEW c \in Domains
  PROVE  Healed[c] \in Entries /\ Follows(domain[c], Healed[c])
<1>0. domain[c] \in Entries /\ Healed[c] \in Entries BY HealedEntries DEF TypeOK
<1>1. CASE Healed[c] = domain[c] BY <1>1, <1>0 DEF Follows
<1>2. CASE Healed[c] # domain[c]
  <2>1. PICK m \in Manifests : m.subject = c BY <1>2 DEF Healed
  <2>2. domain[c].state = "ready" \/ domain[c].accepted
    BY <2>1 DEF Reconcilable, Bindable
  <2> DEFINE pl == (CHOOSE n \in Manifests : n.subject = c).place
  <2>3. Healed[c] = Ready(domain[c], pl) BY <1>2 DEF Healed
  <2> HIDE DEF pl
  <2> QED BY <1>0, <2>2, <2>3 DEF Ready, Entries, Follows, Vouched
<1> QED BY <1>0, <1>1, <1>2

LEMMA WidenedFollows ==
  ASSUME NEW e \in Entries, NEW h \in SUBSET Hints
  PROVE  Widened(e, h) \in Entries /\ Follows(e, Widened(e, h))
<1>0. Widened(e, h) \in Entries BY WidenedEntry
<1>1. CASE h \subseteq e.scope BY <1>0, <1>1 DEF Widened, Follows
<1>2. CASE ~(h \subseteq e.scope) /\ e.state = "review_pending"
  BY <1>0, <1>2 DEF Widened, Invalidated, Entries, Follows, Vouched
<1>3. CASE ~(h \subseteq e.scope) /\ e.state # "review_pending"
  BY <1>0, <1>3 DEF Widened, Invalidated, Entries, Follows, Vouched
<1> QED BY <1>0, <1>1, <1>2, <1>3

LEMMA FollowsComposes ==
  ASSUME NEW e, NEW f, NEW g, Follows(e, f), Follows(f, g)
  PROVE  Follows(e, g)
BY DEF Follows

LEMMA Followed ==
  ASSUME TypeOK, [Next]_vars, NEW c \in Domains,
         ~\E p \in Procs, stop \in {"artifact", "state", "done"} : Deliver(p, stop)
  PROVE  Follows(domain[c], domain'[c])
<1>0. domain \in [Domains -> Entries] /\ domain[c] \in Entries BY DEF TypeOK
<1>1. CASE UNCHANGED domain BY <1>1 DEF Follows
<1>2. ASSUME Reconcilable, domain' = Healed PROVE Follows(domain[c], domain'[c])
  BY <1>2, HealedFollows
<1>3. ASSUME NEW d \in Domains, NEW h \in SUBSET Hints, NEW r \in Requirements, Reserve(r, d, h)
      PROVE  Follows(domain[c], domain'[c])
  <2>1. Reconcilable /\ Healed \in [Domains -> Entries] BY <1>3, HealedEntries DEF Reserve
  <2>2. Follows(domain[c], Healed[c]) BY <2>1, HealedFollows
  <2> DEFINE e == Widened(Healed[d], h)
             f == [e EXCEPT !.askers = @ \cup {r},
                            !.state = IF @ = "absent" THEN "reserved" ELSE @]
  <2>3. domain' = [Healed EXCEPT ![d] = f] BY <1>3 DEF Reserve
  <2>4. e \in Entries /\ Follows(Healed[d], e) BY <2>1, WidenedFollows
  <2>5. Follows(e, f)
    <3> HIDE DEF e
    <3> QED BY <2>4 DEF Entries, Follows, Vouched
  <2>6. Follows(Healed[d], f)
    <3> HIDE DEF e, f
    <3> QED BY <2>4, <2>5, FollowsComposes
  <2> HIDE DEF f
  <2>7. CASE c = d BY <2>1, <2>2, <2>3, <2>6, <2>7, FollowsComposes
  <2>8. CASE c # d BY <2>1, <2>2, <2>3, <2>8
  <2> QED BY <2>7, <2>8
<1>4. ASSUME NEW d \in Domains, NEW h \in SUBSET Hints, NEW o \in Agents, Discover(o, d, h)
      PROVE  Follows(domain[c], domain'[c])
  <2>1. Reconcilable /\ Healed \in [Domains -> Entries] BY <1>4, HealedEntries DEF Discover
  <2>2. Follows(domain[c], Healed[c]) BY <2>1, HealedFollows
  <2> DEFINE e == Widened(Healed[d], h)
  <2>3. domain' = [Healed EXCEPT ![d] = e] BY <1>4 DEF Discover
  <2>4. Follows(Healed[d], e) BY <2>1, WidenedFollows
  <2> HIDE DEF e
  <2>5. CASE c = d BY <2>1, <2>2, <2>3, <2>4, <2>5, FollowsComposes
  <2>6. CASE c # d BY <2>1, <2>2, <2>3, <2>6
  <2> QED BY <2>5, <2>6
<1>5. ASSUME NEW o \in Agents, NEW d \in Domains, ClaimOwner(o, d) \/ Relinquish(o, d)
      PROVE  Follows(domain[c], domain'[c])
  <2>1. CASE c # d BY <1>0, <1>5, <2>1 DEF ClaimOwner, Relinquish, Follows
  <2>2. CASE c = d
    BY <1>0, <1>5, <2>2 DEF ClaimOwner, Relinquish, Entries, Follows, Vouched
  <2> QED BY <2>1, <2>2
<1>6. ASSUME NEW d \in Domains, NEW v \in Verdicts, NEW a \in Agents, Review(d, v, a)
      PROVE  Follows(domain[c], domain'[c])
  <2>1. domain' = [domain EXCEPT ![d] = Reviewed(domain[d], v, a)] /\ domain[d].state = "review_pending"
    BY <1>6, <1>0 DEF Review, Reviewable
  <2>2. domain[d].result \in Results BY <1>6 DEF Review, Reviewable, Loadable, TypeOK, Entries
  <2>3. [reviewer |-> a, verdict |-> v, result |-> domain[d].result] # None
    BY <1>6, <2>2, NoneIsNoOpinion DEF Opinions
  <2>4. CASE c # d BY <1>0, <2>1, <2>4 DEF Follows
  <2>5. CASE c = d
    BY <1>0, <2>1, <2>3, <2>5 DEF Reviewed, Verdicts, Entries, Follows, Vouched
  <2> QED BY <2>4, <2>5
<1>7. ASSUME NEW p \in Procs, Project(p) PROVE Follows(domain[c], domain'[c])
  BY <1>1, <1>2, <1>7 DEF Project, GiveUp
<1>8. ASSUME NEW p \in Procs, NEW stop, Publish(p, stop) PROVE Follows(domain[c], domain'[c])
  <2> DEFINE d == job[p].subject
  <2>1. domain' = domain \/ domain' = [domain EXCEPT ![d] = Ready(domain[d], "committed")]
    BY <1>8 DEF Publish
  <2>2. domain[d].state = "ready" \/ domain[d].accepted BY <1>8 DEF Publish, Committable
  <2> HIDE DEF d
  <2>3. CASE c # d BY <1>0, <2>1, <2>3 DEF Follows
  <2>4. CASE c = d
    <3>1. /\ Ready(domain[c], "committed").state = "ready"
          /\ Ready(domain[c], "committed").review = domain[c].review
          /\ Ready(domain[c], "committed").result = domain[c].result
      BY <1>0 DEF Ready, Entries
    <3>2. domain'[c] = domain[c] \/ domain'[c] = Ready(domain[c], "committed")
      BY <1>0, <2>1, <2>4
    <3> QED BY <2>2, <2>4, <3>1, <3>2 DEF Follows, Vouched
  <2> QED BY <2>3, <2>4
<1>10. CASE Scoping BY <1>2, <1>3, <1>4, <1>10 DEF Scoping, Reconcile
<1>11. CASE Leasing
  BY <1>1, <1>5, <1>11 DEF Leasing, ReleaseOwner, RecoverOwner, ClaimWorker, ReleaseWorker
<1>12. CASE Reviewing BY <1>6, <1>12 DEF Reviewing, Verdicts
<1>13. CASE Waiting BY <1>1, <1>13 DEF Waiting, Mark, Statuses
<1>14. ASSUME NEW p \in Procs, Validating(p) PROVE Follows(domain[c], domain'[c])
  BY <1>1, <1>7, <1>14 DEF Validating, Sample, Die, GiveUp
<1>15. ASSUME NEW p \in Procs, Submitting(p) PROVE Follows(domain[c], domain'[c])
  BY <1>1, <1>15 DEF Submitting, StartSubmit, RefuseSubmit, RetrySubmit, GiveUp, Retry
<1>16. ASSUME NEW p \in Procs, Committing(p) PROVE Follows(domain[c], domain'[c])
  BY <1>1, <1>8, <1>16 DEF Committing, StartCommit, RefuseCommit, RetryCommit, GiveUp, Retry
<1>17. ASSUME NEW p \in Procs, Resuming(p) PROVE Follows(domain[c], domain'[c])
  BY <1>1, <1>17 DEF Resuming, StartResume, Reacquire, Resume
<1>18. CASE UNCHANGED vars BY <1>1, <1>18 DEF vars
<1> QED BY <1>10, <1>11, <1>12, <1>13, <1>14, <1>15, <1>16, <1>17, <1>18 DEF Next

\* A submission touches the entry of its domain alone, and only while its agent
\* owns the domain and holds its lane.
LEMMA Delivered ==
  ASSUME TypeOK, NEW p \in Procs, NEW stop, Deliver(p, stop), NEW c \in Domains
  PROVE  \/ domain'[c] = domain[c]
         \/ /\ domain[c].state \in {"resolving", "repair"}
            /\ domain'[c].state = "review_pending" /\ ~domain'[c].accepted
            /\ author'[c] = domain[c].owner
            /\ ResolverLease(domain[c].owner, c) \in lease
<1> DEFINE j == job[p]
           d == j.subject
<1>0. domain \in [Domains -> Entries] /\ author \in [Domains -> Agents \cup {None}]
  BY DEF TypeOK
<1>1. /\ domain' = domain \/ /\ domain' = [domain EXCEPT ![d] = Submitted(domain[d], j)]
                             /\ author' = [author EXCEPT ![d] = j.agent]
      /\ Submittable(j)
  BY <1>0 DEF Deliver
<1>2. /\ domain[d].state \in {"resolving", "repair"} /\ domain[d].owner = j.agent
      /\ ResolverLease(j.agent, d) \in lease
  BY <1>1 DEF Submittable
<1> HIDE DEF j, d
<1>3. d \in Domains => /\ Submitted(domain[d], j).state = "review_pending"
                       /\ ~Submitted(domain[d], j).accepted
  BY <1>0 DEF Submitted, Entries
<1> QED BY <1>0, <1>1, <1>2, <1>3

\* A domain is accepted or ready by a verdict on the result it has now, through
\* wider scopes, repairs, crashes and reconciliation.
THEOREM VerdictsStand == Spec => []AcceptedIsReviewed
<1>1. Init => AcceptedIsReviewed BY DEF Init, AcceptedIsReviewed, Unreserved
<1>2. TypeOK /\ AcceptedIsReviewed /\ [Next]_vars => AcceptedIsReviewed'
  <2> SUFFICES ASSUME TypeOK, AcceptedIsReviewed, [Next]_vars, NEW c \in Domains
               PROVE  Vouched(domain'[c])
    BY DEF AcceptedIsReviewed, Vouched
  <2>1. Vouched(domain[c]) BY DEF AcceptedIsReviewed, Vouched
  <2>2. CASE \E p \in Procs, stop \in {"artifact", "state", "done"} : Deliver(p, stop)
    BY <2>1, <2>2, Delivered DEF Vouched
  <2>3. CASE ~\E p \in Procs, stop \in {"artifact", "state", "done"} : Deliver(p, stop)
    BY <2>1, <2>3, Followed DEF Follows
  <2> QED BY <2>2, <2>3
<1> QED BY <1>1, <1>2, TypeCorrect, PTL DEF Spec

\* What a reviewer looks at is not exchanged under him.
THEOREM CandidatesStand == Spec => CandidateStands
<1> DEFINE Stays == \A d \in Domains :
       domain[d].state = "review_pending" /\ domain'[d].state = "review_pending" =>
         /\ domain'[d].result = domain[d].result
         /\ domain'[d].scope = domain[d].scope
<1>1. TypeOK /\ [Next]_vars => Stays
  <2> SUFFICES ASSUME TypeOK, [Next]_vars, NEW c \in Domains,
                      domain[c].state = "review_pending", domain'[c].state = "review_pending"
               PROVE  domain'[c].result = domain[c].result /\ domain'[c].scope = domain[c].scope
    OBVIOUS
  <2>1. CASE \E p \in Procs, stop \in {"artifact", "state", "done"} : Deliver(p, stop)
    BY <2>1, Delivered
  <2>2. CASE ~\E p \in Procs, stop \in {"artifact", "state", "done"} : Deliver(p, stop)
    BY <2>2, Followed DEF Follows
  <2> QED BY <2>1, <2>2
<1>2. TypeOK /\ [Next]_vars => [Stays]_vars BY <1>1
<1> QED BY <1>2, TypeCorrect, PTL DEF Spec, CandidateStands

\* A result enters review by the hand of the agent that owns the domain and
\* holds its lane at that step.
THEOREM HoldersSubmit == Spec => OnlyLaneHolderSubmits
<1> DEFINE Held == \A d \in Domains :
       domain'[d].state = "review_pending" /\ domain[d].state # "review_pending" =>
         /\ ResolverLease(author'[d], d) \in lease
         /\ domain[d].owner = author'[d]
<1>1. TypeOK /\ [Next]_vars => Held
  <2> SUFFICES ASSUME TypeOK, [Next]_vars, NEW c \in Domains,
                      domain'[c].state = "review_pending", domain[c].state # "review_pending"
               PROVE  ResolverLease(author'[c], c) \in lease /\ domain[c].owner = author'[c]
    OBVIOUS
  <2>1. CASE \E p \in Procs, stop \in {"artifact", "state", "done"} : Deliver(p, stop)
    BY <2>1, Delivered
  <2>2. CASE ~\E p \in Procs, stop \in {"artifact", "state", "done"} : Deliver(p, stop)
    BY <2>2, Followed DEF Follows
  <2> QED BY <2>1, <2>2
<1>2. TypeOK /\ [Next]_vars => [Held]_vars BY <1>1
<1> QED BY <1>2, TypeCorrect, PTL DEF Spec, OnlyLaneHolderSubmits

=============================================================================
