--------------------------- MODULE EntityResolution -------------------------
(***************************************************************************)
(* The run-level registry of identity domains of entity_resolution.py: who *)
(* resolves a domain, which result awaits review, what is committed, which *)
(* workers hold a lane and which requirements wait.                        *)
(*                                                                         *)
(* One state file is read and written under one file lock, so a critical   *)
(* section is one step here.  Four calls are longer than a section:        *)
(* submit_result and commit validate against a projection made outside the *)
(* lock and compare an authority token afterwards, acknowledge_requirement_*)
(* resume takes the lock three times; each is a job of a process.  The     *)
(* process may be killed between two sections (Die), and inside the        *)
(* sections that touch more than one file: the parameter stop says how far *)
(* such a section came, "done" being its end.                              *)
(*                                                                         *)
(* Abstractions.  A scope hash is the scope, a result hash the result, and *)
(* a manifest hash the place of the manifest.  The authority token is      *)
(* fresh: nothing it covers changed since it was sampled (every write      *)
(* stamps updated_at, so no token recurs).  The projection of integrated   *)
(* items, the other part of the validation base, is not modelled.  Calls   *)
(* that are rejected or change nothing are left out.                       *)
(*                                                                         *)
(* A definition named X_... is X with a bug: the properties are checked    *)
(* against it too, and must fail.                                          *)
(***************************************************************************)
EXTENDS IdentityRecords, Naturals, FiniteSets

CONSTANTS
  Domains,       \* identity domains
  Rank,          \* the place of each domain in the order of domain identifiers
  Requirements,  \* items that request domains and wait for them
  Agents,        \* owner and reviewer references
  Procs,         \* operating-system processes that serve the longer calls
  Hints,         \* source hints and representation identifiers
  Limit,         \* ResolutionCapacity: a bound per worker type and in total
  Attempts,      \* optimistic attempts of submit_result and commit
  Stops          \* how far a section that is killed may come

WorkerTypes == {"entity_resolution", "analytical_owner", "specialist"}

ASSUME RankType ==
  /\ Rank \in [Domains -> Nat]
  /\ \A c, d \in Domains : Rank[c] = Rank[d] => c = d
ASSUME LimitType == Limit \in [WorkerTypes \cup {"total_active"} -> Nat]
ASSUME AttemptsType == Attempts \in Nat \ {0}
ASSUME StopsType == Stops \subseteq {"artifact", "partial", "whole", "directory", "state"}
ASSUME NoneIsNothing ==
  None \notin Agents \cup Procs
ASSUME FiniteWorld == IsFiniteSet(Domains)

VARIABLES
  domain,     \* "domains" of the state file
  lease,      \* "leases" of the state file
  wait,       \* "waits" of the state file
  artifact,   \* result.json of each domain, or None
  published,  \* the result in the committed directory of each domain, or None
  litter,     \* staging directories that killed commits left behind
  job,        \* the longer call each process serves
  author      \* history: who submitted the current result of each domain

registry == <<domain, lease, wait>>
disk == <<artifact, published, litter>>
vars == <<registry, disk, job, author>>

Leases ==
  [type : {"entity_resolution"}, owner : Agents, subject : Domains] \cup
  [type : WorkerTypes \ {"entity_resolution"}, owner : Agents, subject : Requirements]

ResolverLease(o, d) == [type |-> "entity_resolution", owner |-> o, subject |-> d]
AnalystLease(o, r) == [type |-> "analytical_owner", owner |-> o, subject |-> r]

Unreserved ==
  [state |-> "absent", owner |-> None, askers |-> {}, scope |-> {},
   result |-> None, resultScope |-> None, bound |-> None,
   accepted |-> FALSE, repairs |-> 0, review |-> None]

NotWaiting == [state |-> "none", domains |-> {}, owner |-> None]

Idle == [op |-> "idle", at |-> "start", subject |-> None, agent |-> None, result |-> None,
         scope |-> None, base |-> {}, fresh |-> FALSE, tries |-> 0]

Init ==
  /\ domain = [d \in Domains |-> Unreserved]
  /\ lease = {}
  /\ wait = [r \in Requirements |-> NotWaiting]
  /\ artifact = [d \in Domains |-> None]
  /\ published = [d \in Domains |-> None]
  /\ litter = {}
  /\ job = [p \in Procs |-> Idle]
  /\ author = [d \in Domains |-> None]

-----------------------------------------------------------------------------
(* The authority token: a write of the state file or a new committed       *)
(* directory makes every token sampled before it stale.                    *)

Touched == [p \in Procs |-> [job[p] EXCEPT !.fresh = FALSE]]

\* A state file written, with no change to any job but its token.
Persisted == job' = Touched

-----------------------------------------------------------------------------
(* What a result may be added to.                                          *)

Committed == {d \in Domains : published[d] # None}
CommittedResults == {published[d] : d \in Committed}

\* Every committed directory is applied in the order of domain identifiers;
\* a staging directory is taken for one, and has no records where they belong.
Replays ==
  /\ litter = {}
  /\ \A d \in Committed :
       Applies({published[c] : c \in {b \in Committed : Rank[b] < Rank[d]}}, published[d])

-----------------------------------------------------------------------------
(* Reconciliation: a committed directory its domain does not know of yet.  *)

\* The manifests found below the commit root, one per place.
Manifests ==
  {[subject |-> d, result |-> published[d], place |-> "committed"] : d \in Committed} \cup
  {[subject |-> s.subject, result |-> s.result, place |-> s.by] : s \in {t \in litter : t.whole}}

\* _load_result: the artifact is the one the entry names.
Loadable(d) ==
  /\ domain[d].result # None
  /\ artifact[d] = [result |-> domain[d].result, scope |-> domain[d].resultScope]

Bindable(m) ==
  LET e == domain[m.subject] IN
  /\ e.state # "failed"
  /\ e.bound \in {None, m.place}
  /\ e.result = m.result
  /\ e.state # "ready" => e.accepted
  /\ e.resultScope = e.scope
  /\ Loadable(m.subject)

\* _reconcile_commit_refs does not raise.
Reconcilable ==
  /\ \A s \in litter : s.whole
  /\ \A m, n \in Manifests : m.subject = n.subject => m = n
  /\ \A m \in Manifests : Bindable(m)

Ready(e, place) == [e EXCEPT !.state = "ready", !.bound = place, !.accepted = FALSE]

Healed ==
  [d \in Domains |->
     IF domain[d].bound = None /\ \E m \in Manifests : m.subject = d
     THEN Ready(domain[d], (CHOOSE m \in Manifests : m.subject = d).place)
     ELSE domain[d]]

\* load, or a call that reconciles first and is then rejected.
Reconcile ==
  /\ Reconcilable
  /\ Healed # domain
  /\ domain' = Healed
  /\ Persisted
  /\ UNCHANGED <<lease, wait, disk, author>>

-----------------------------------------------------------------------------
(* Domains and their material scope.                                       *)

\* The verdict outlives the candidate.
Invalidated_KeepVerdict(e) ==
  IF e.state = "review_pending"
  THEN [e EXCEPT !.state = "resolving", !.result = None, !.resultScope = None]
  ELSE e

\* A candidate under review loses its standing; its owner stays.
Invalidated(e) ==
  IF e.state = "review_pending"
  THEN [e EXCEPT !.state = "resolving", !.review = None, !.result = None,
                 !.resultScope = None, !.accepted = FALSE]
  ELSE e

\* A candidate keeps its standing when its scope grows.
Widened_Silently(e, h) == [e EXCEPT !.scope = @ \cup h]

Widened(e, h) ==
  IF h \subseteq e.scope THEN e ELSE [Invalidated(e) EXCEPT !.scope = @ \cup h]

\* The committed directories are not consulted.
Reserve_Unreconciled(r, d, h) ==
  LET e == domain[d] IN
  /\ r \notin e.askers
  /\ e.state = "ready" => h \subseteq e.scope
  /\ domain' = [domain EXCEPT ![d] =
       [Widened(e, h) EXCEPT !.askers = @ \cup {r},
                             !.state = IF @ = "absent" THEN "reserved" ELSE @]]
  /\ Persisted
  /\ UNCHANGED <<lease, wait, disk, author>>

\* reserve_identity_domain, by a requirement that has not asked before: the
\* first reserves the domain, the others attach to it.
Reserve(r, d, h) ==
  LET e == Healed[d] IN
  /\ Reconcilable
  /\ r \notin e.askers
  /\ e.state = "ready" => h \subseteq e.scope
  /\ domain' = [Healed EXCEPT ![d] =
       [Widened(e, h) EXCEPT !.askers = @ \cup {r},
                             !.state = IF @ = "absent" THEN "reserved" ELSE @]]
  /\ Persisted
  /\ UNCHANGED <<lease, wait, disk, author>>

\* record_scope_discovery by the owner that holds the domain's lease.
Discover(o, d, h) ==
  LET e == Healed[d] IN
  /\ Reconcilable
  /\ e.state \notin {"absent", "failed", "ready"}
  /\ e.owner = o
  /\ ResolverLease(o, d) \in lease
  /\ ~(h \subseteq e.scope)
  /\ domain' = [Healed EXCEPT ![d] = Widened(e, h)]
  /\ Persisted
  /\ UNCHANGED <<lease, wait, disk, author>>

-----------------------------------------------------------------------------
(* Worker leases.                                                          *)

OfType(t) == {l \in lease : l.type = t}

\* Only the limit of the worker type is looked at.
Free_NoTotal(l) ==
  /\ \A k \in lease : k.type = l.type => k.subject # l.subject
  /\ Cardinality(OfType(l.type)) < Limit[l.type]

Free(l) ==
  /\ \A k \in lease : k.type = l.type => k.subject # l.subject
  /\ Cardinality(lease) < Limit["total_active"]
  /\ Cardinality(OfType(l.type)) < Limit[l.type]

\* claim_worker; for a resolver also what a claim_resolution_owner that was
\* killed between its two writes leaves behind.
ClaimWorker(l) ==
  /\ l \notin lease
  /\ Free(l)
  /\ lease' = lease \cup {l}
  /\ Persisted
  /\ UNCHANGED <<domain, wait, disk, author>>

ReleaseWorker(l) ==
  /\ l \in lease
  /\ lease' = lease \ {l}
  /\ Persisted
  /\ UNCHANGED <<domain, wait, disk, author>>

ClaimOwner(o, d) ==
  LET e == domain[d] IN
  /\ e.state \notin {"absent", "failed", "ready"}
  /\ e.owner \in {None, o}
  /\ ResolverLease(o, d) \in lease \/ Free(ResolverLease(o, d))
  /\ lease' = lease \cup {ResolverLease(o, d)}
  /\ domain' = [domain EXCEPT ![d].owner = o,
                              ![d].state = IF @ = "reserved" THEN "resolving" ELSE @]
  /\ Persisted
  /\ UNCHANGED <<wait, disk, author>>

\* The lease and the owner mark go together.
Relinquish(o, d) ==
  /\ domain[d].owner = o
  /\ ResolverLease(o, d) \in lease
  /\ lease' = lease \ {ResolverLease(o, d)}
  /\ domain' = [domain EXCEPT ![d].owner = None,
                              ![d].state = IF @ = "resolving" THEN "reserved" ELSE @]
  /\ Persisted
  /\ UNCHANGED <<wait, disk, author>>

ReleaseOwner(o, d) == Relinquish(o, d)

\* recover_resolution_owner: the lease is older than the operator's cutoff.
RecoverOwner(o, d) ==
  /\ domain[d].state \notin {"failed", "ready"}
  /\ Relinquish(o, d)

-----------------------------------------------------------------------------
(* The optimistic phases submit_result and commit have in common.          *)

Optimistic(p) == job[p].op \in {"submit", "commit"}

\* The attempts are not counted.
Again_Uncounted(j) == [j EXCEPT !.at = "start", !.fresh = FALSE, !.base = {}]

\* Another attempt, or the end of the call.
Again(j) ==
  IF j.tries + 1 < Attempts
  THEN [j EXCEPT !.at = "start", !.fresh = FALSE, !.base = {}, !.tries = @ + 1]
  ELSE Idle

GiveUp(p) ==
  /\ job' = [job EXCEPT ![p] = Idle]
  /\ UNCHANGED <<registry, disk, author>>

Retry(p) ==
  /\ job' = [job EXCEPT ![p] = Again(@)]
  /\ UNCHANGED <<registry, disk, author>>

StaleScope(j) == domain[j.subject].scope # j.scope

\* The token before the projection.
Sample(p) ==
  /\ Optimistic(p)
  /\ job[p].at = "start"
  /\ IF job[p].op = "submit" /\ StaleScope(job[p])
     THEN GiveUp(p)
     ELSE /\ job' = [job EXCEPT ![p].at = "sampled", ![p].fresh = TRUE]
          /\ UNCHANGED <<registry, disk, author>>

\* _base_model_for_validation and the token after it: the projection loads the
\* registry, which reconciles, and replays the committed directories.
Project(p) ==
  /\ Optimistic(p)
  /\ job[p].at = "sampled"
  /\ IF Reconcilable
     THEN /\ domain' = Healed
          /\ LET jobs == IF Healed = domain THEN job ELSE Touched
             IN job' = [jobs EXCEPT ![p] =
                  IF ~Replays THEN Idle
                  ELSE IF ~@.fresh THEN Again(@)
                  ELSE [@ EXCEPT !.at = "projected", !.base = CommittedResults]]
          /\ UNCHANGED <<lease, wait, disk, author>>
     ELSE GiveUp(p)

\* The process is killed, or the call raises, between two sections.
Die(p) ==
  /\ job[p] # Idle
  /\ GiveUp(p)

-----------------------------------------------------------------------------
(* Submission.                                                             *)

\* An agent calls submit_result with the scope it has just read.
StartSubmit(p, o, d, x) ==
  /\ job[p] = Idle
  /\ domain[d].state # "absent"
  /\ job' = [job EXCEPT ![p] = [Idle EXCEPT !.op = "submit", !.subject = d, !.agent = o,
                                            !.result = x, !.scope = domain[d].scope]]
  /\ UNCHANGED <<registry, disk, author>>

\* The lease is not asked for.
Submittable_NoLease(j) ==
  LET e == domain[j.subject] IN
  /\ Applies(j.base, j.result)
  /\ ~StaleScope(j)
  /\ e.owner = j.agent
  /\ e.state \in {"resolving", "repair"}
  /\ e.state = "repair" \/ e.result \in {None, j.result}

\* The final section accepts the result.
Submittable(j) ==
  LET e == domain[j.subject] IN
  /\ Applies(j.base, j.result)
  /\ ~StaleScope(j)
  /\ e.owner = j.agent
  /\ e.state \in {"resolving", "repair"}
  /\ ResolverLease(j.agent, j.subject) \in lease
  /\ e.state = "repair" \/ e.result \in {None, j.result}

Submitted(e, j) ==
  [e EXCEPT !.result = j.result, !.resultScope = e.scope, !.state = "review_pending",
            !.accepted = FALSE]

\* result.json, the state file and the lease are written one after the other.
Deliver(p, stop) ==
  LET j == job[p]  d == j.subject IN
  /\ j.op = "submit" /\ j.at = "projected"
  /\ j.fresh /\ Submittable(j)
  /\ stop \in {"done"} \cup (Stops \cap {"artifact", "state"})
  /\ artifact' = [artifact EXCEPT ![d] = [result |-> j.result, scope |-> domain[d].scope]]
  /\ IF stop = "artifact"
     THEN /\ job' = [job EXCEPT ![p] = Idle]
          /\ UNCHANGED <<domain, author>>
     ELSE /\ domain' = [domain EXCEPT ![d] = Submitted(@, j)]
          /\ author' = [author EXCEPT ![d] = j.agent]
          /\ job' = [Touched EXCEPT ![p] = Idle]
  /\ lease' = IF stop = "done" THEN lease \ {ResolverLease(j.agent, d)} ELSE lease
  /\ UNCHANGED <<wait, published, litter>>

\* The final section rejects the result, or finds it submitted already.
RefuseSubmit(p) ==
  /\ job[p].op = "submit" /\ job[p].at = "projected"
  /\ ~Submittable(job[p])
  /\ \/ ~Applies(job[p].base, job[p].result)
     \/ StaleScope(job[p])
     \/ job[p].fresh
  /\ GiveUp(p)

RetrySubmit(p) ==
  /\ job[p].op = "submit" /\ job[p].at = "projected"
  /\ Applies(job[p].base, job[p].result)
  /\ ~StaleScope(job[p])
  /\ ~job[p].fresh
  /\ Retry(p)

-----------------------------------------------------------------------------
(* Review.                                                                 *)

Reviewed(e, v, reviewer) ==
  LET opinion == [reviewer |-> reviewer, verdict |-> v, result |-> e.result] IN
  CASE v = "repair_once" -> [e EXCEPT !.state = "repair", !.repairs = 1,
                                      !.accepted = FALSE, !.review = opinion]
    [] v = "accept"      -> [e EXCEPT !.accepted = TRUE, !.review = opinion]
    [] v = "fail"        -> [e EXCEPT !.state = "failed", !.accepted = FALSE,
                                      !.review = opinion]

\* The reviewer's verdict on the candidate before this one is given again.
Repeats(e, v, reviewer) ==
  e.review # None /\ e.review.reviewer = reviewer /\ e.review.verdict = v

Reviewable(d, v) ==
  /\ domain[d].state = "review_pending"
  /\ domain[d].resultScope = domain[d].scope
  /\ Loadable(d)
  /\ v = "repair_once" => domain[d].repairs = 0

\* record_review; it does not look at the commit root.
Review(d, v, reviewer) ==
  /\ reviewer # domain[d].owner
  /\ Reviewable(d, v)
  /\ ~Repeats(domain[d], v, reviewer)
  /\ domain' = [domain EXCEPT ![d] = Reviewed(@, v, reviewer)]
  /\ Persisted
  /\ UNCHANGED <<lease, wait, disk, author>>

-----------------------------------------------------------------------------
(* Commit.                                                                 *)

StartCommit(p, d) ==
  /\ job[p] = Idle
  /\ domain[d].state # "absent"
  /\ job' = [job EXCEPT ![p] = [Idle EXCEPT !.op = "commit", !.subject = d]]
  /\ UNCHANGED <<registry, disk, author>>

\* The final section of commit raises nothing.
Committable(j) ==
  LET e == domain[j.subject] IN
  /\ e.state = "ready" \/ (e.state = "review_pending" /\ e.accepted)
  /\ e.resultScope = e.scope
  /\ Loadable(j.subject)
  /\ Applies(j.base, e.result)
  /\ published[j.subject] \in {None, e.result}

\* The token is not compared again.
Unchanged_Never(j) == TRUE

\* The token still stands.
Unchanged(j) == j.fresh

\* Where a commit has come when it stops: past the rename, past the state file.
DirectoryWritten == {"directory", "state", "done"}
StateWritten == {"state", "done"}

\* The staged directory is complete or not when the process is killed; else it
\* becomes the committed directory, the state file follows, and then the lease
\* of the owner goes.  Without an owner that last call raises.
Publish(p, stop) ==
  LET j == job[p]  d == j.subject  e == domain[d]  first == published[d] = None IN
  /\ j.op = "commit" /\ j.at = "projected"
  /\ Unchanged(j) /\ Committable(j)
  /\ stop \in {"done"} \cup (Stops \cap {"state"})
              \cup (IF first THEN Stops \cap {"partial", "whole", "directory"} ELSE {})
  /\ IF stop \in DirectoryWritten
     THEN /\ published' = [published EXCEPT ![d] = e.result]
          /\ job' = [Touched EXCEPT ![p] = Idle]
          /\ UNCHANGED litter
     ELSE /\ litter' = litter \cup {[subject |-> d, result |-> e.result, by |-> p,
                                     whole |-> stop = "whole"]}
          /\ job' = [job EXCEPT ![p] = Idle]
          /\ UNCHANGED published
  /\ domain' = IF stop \in StateWritten
               THEN [domain EXCEPT ![d] = Ready(e, "committed")]
               ELSE domain
  /\ lease' = IF stop = "done" THEN lease \ {ResolverLease(e.owner, d)} ELSE lease
  /\ UNCHANGED <<wait, artifact, author>>

RefuseCommit(p) ==
  /\ job[p].op = "commit" /\ job[p].at = "projected"
  /\ Unchanged(job[p]) /\ ~Committable(job[p])
  /\ GiveUp(p)

RetryCommit(p) ==
  /\ job[p].op = "commit" /\ job[p].at = "projected"
  /\ ~Unchanged(job[p])
  /\ Retry(p)

-----------------------------------------------------------------------------
(* Requirements that wait.                                                 *)

\* mark_waiting_on_resolution, by a call that differs from the wait on record.
Mark(r, ds, o) ==
  /\ ds # {} /\ \A d \in ds : domain[d].state # "absent"
  /\ wait' = [wait EXCEPT ![r] = [state |-> "waiting_on_resolution", domains |-> ds, owner |-> o]]
  /\ lease' = lease \ {AnalystLease(o, r)}
  /\ Persisted
  /\ UNCHANGED <<domain, disk, author>>

\* One ready domain is enough.
Resolved_Any(w) == \E d \in w.domains : domain[d].state = "ready"

Resolved(w) == \A d \in w.domains : domain[d].state = "ready"

Refreshed ==
  [r \in Requirements |->
     IF wait[r].state = "waiting_on_resolution" /\ Resolved(wait[r])
     THEN [wait[r] EXCEPT !.state = "ready_to_resume"]
     ELSE wait[r]]

\* requirement_runtime_statuses
Statuses ==
  /\ Refreshed # wait
  /\ wait' = Refreshed
  /\ Persisted
  /\ UNCHANGED <<domain, lease, disk, author>>

\* acknowledge_requirement_resume: the check,
StartResume(p, r, o) ==
  /\ job[p] = Idle
  /\ Refreshed[r].state = "ready_to_resume"
  /\ Refreshed[r].owner = o
  /\ wait' = Refreshed
  /\ LET jobs == IF Refreshed = wait THEN job ELSE Touched
     IN job' = [jobs EXCEPT ![p] = [Idle EXCEPT !.op = "resume", !.subject = r, !.agent = o]]
  /\ UNCHANGED <<domain, lease, disk, author>>

\* the lane, if it is wanted and can be had,
Reacquire(p) ==
  LET l == AnalystLease(job[p].agent, job[p].subject) IN
  /\ job[p].op = "resume" /\ job[p].at = "start"
  /\ l \in lease \/ Free(l)
  /\ lease' = lease \cup {l}
  /\ LET jobs == IF l \in lease THEN job ELSE Touched
     IN job' = [jobs EXCEPT ![p].at = "leased"]
  /\ UNCHANGED <<domain, wait, disk, author>>

\* and the wait, whatever it says by now.  Without reacquire the lane is not
\* asked for.
Resume(p) ==
  /\ job[p].op = "resume"
  /\ wait' = [wait EXCEPT ![job[p].subject].state = "resumed"]
  /\ job' = [Touched EXCEPT ![p] = Idle]
  /\ UNCHANGED <<domain, lease, disk, author>>

-----------------------------------------------------------------------------
Scoping ==
  \/ Reconcile
  \/ \E d \in Domains, h \in SUBSET Hints :
       \/ \E r \in Requirements : Reserve(r, d, h)
       \/ \E o \in Agents : Discover(o, d, h)

Leasing ==
  \/ \E l \in Leases : ClaimWorker(l) \/ ReleaseWorker(l)
  \/ \E o \in Agents, d \in Domains :
       ClaimOwner(o, d) \/ ReleaseOwner(o, d) \/ RecoverOwner(o, d)

Validating(p) == Sample(p) \/ Project(p) \/ Die(p)

Submitting(p) ==
  \/ \E o \in Agents, d \in Domains, x \in Results : StartSubmit(p, o, d, x)
  \/ \E stop \in {"artifact", "state", "done"} : Deliver(p, stop)
  \/ RefuseSubmit(p) \/ RetrySubmit(p)

Reviewing ==
  \E d \in Domains, v \in {"accept", "repair_once", "fail"}, a \in Agents : Review(d, v, a)

Committing(p) ==
  \/ \E d \in Domains : StartCommit(p, d)
  \/ \E stop \in {"partial", "whole", "directory", "state", "done"} : Publish(p, stop)
  \/ RefuseCommit(p) \/ RetryCommit(p)

Waiting ==
  \/ \E r \in Requirements, ds \in SUBSET Domains, o \in Agents : Mark(r, ds, o)
  \/ Statuses

Resuming(p) ==
  \/ \E r \in Requirements, o \in Agents : StartResume(p, r, o)
  \/ Reacquire(p) \/ Resume(p)

Next ==
  \/ Scoping \/ Leasing \/ Reviewing \/ Waiting
  \/ \E p \in Procs : Validating(p) \/ Submitting(p) \/ Committing(p) \/ Resuming(p)

Spec == Init /\ [][Next]_vars

\* A process that is not killed runs its call to the end.
Proceed(p) ==
  \/ Sample(p) \/ Project(p)
  \/ Deliver(p, "done") \/ RefuseSubmit(p) \/ RetrySubmit(p)
  \/ Publish(p, "done") \/ RefuseCommit(p) \/ RetryCommit(p)
  \/ Reacquire(p) \/ Resume(p)

Fairness == \A p \in Procs : WF_vars(Proceed(p))

-----------------------------------------------------------------------------
(* Properties.                                                             *)

DomainStates == {"reserved", "resolving", "review_pending", "repair", "ready", "failed"}
Verdicts == {"accept", "repair_once", "fail"}

Opinions == [reviewer : Agents, verdict : Verdicts, result : Results]
ASSUME NoneIsNoOpinion == None \notin Opinions

Entries ==
  [state : DomainStates \cup {"absent"}, owner : Agents \cup {None},
   askers : SUBSET Requirements, scope : SUBSET Hints,
   result : Results \cup {None}, resultScope : {None} \cup SUBSET Hints,
   bound : Procs \cup {"committed", None}, accepted : BOOLEAN, repairs : 0 .. 1,
   review : Opinions \cup {None}]

Waits ==
  [state : {"none", "waiting_on_resolution", "ready_to_resume", "resumed"},
   domains : SUBSET Domains, owner : Agents \cup {None}]

Calls ==
  [op : {"idle", "submit", "commit", "resume"},
   at : {"start", "sampled", "projected", "leased"},
   subject : Domains \cup Requirements \cup {None}, agent : Agents \cup {None},
   result : Results \cup {None}, scope : {None} \cup SUBSET Hints,
   base : SUBSET Results, fresh : BOOLEAN, tries : 0 .. Attempts - 1]

Jobs ==
  {j \in Calls :
     /\ j.op = "submit" => j.subject \in Domains /\ j.agent \in Agents /\ j.result \in Results
     /\ j.op = "commit" => j.subject \in Domains
     /\ j.op = "resume" => j.subject \in Requirements /\ j.agent \in Agents}

\* Every variable keeps its type, and the state file its schema.
TypeOK ==
  /\ domain \in [Domains -> Entries]
  /\ lease \subseteq Leases
  /\ wait \in [Requirements -> Waits]
  /\ artifact \in [Domains -> [result : Results, scope : SUBSET Hints] \cup {None}]
  /\ published \in [Domains -> Results \cup {None}]
  /\ litter \subseteq [subject : Domains, result : Results, by : Procs, whole : BOOLEAN]
  /\ job \in [Procs -> Jobs]
  /\ author \in [Domains -> Agents \cup {None}]

\* Optimistic commits of different processes never publish records that
\* contradict each other or point to nothing (the token closes the race that
\* validation outside the lock opens).
CommitsAgree ==
  \A c, d \in Committed :
    /\ Compatible(published[c], published[d])
    /\ Refers[published[d]] \subseteq Named(CommittedResults)

\* The committed directories implement the authority that the rest of the run
\* relies on: a domain is bound once, to records that fit those bound before.
Authority == INSTANCE IdentityAuthority WITH binding <- published
BindsForGood == Authority!Spec

\* What is committed is the candidate of its domain, made for all the material
\* scope asked for: scope never grows over a commit, not even over one its
\* domain does not know of because the committing process was killed.
CommittedScope ==
  \A d \in Committed :
    /\ domain[d].result = published[d]
    /\ domain[d].resultScope = domain[d].scope

\* A standing acceptance is a verdict on the candidate of today: it does not
\* survive a wider scope or another submission.
AcceptedIsReviewed ==
  \A d \in Domains : domain[d].accepted \/ domain[d].state = "ready" =>
    /\ domain[d].review # None
    /\ domain[d].review.verdict = "accept"
    /\ domain[d].review.result = domain[d].result

\* Lanes in use never exceed the capacity of the run, in total or by type,
\* whatever was killed, recovered or claimed again.
WithinCapacity ==
  /\ Cardinality(lease) <= Limit["total_active"]
  /\ \A t \in WorkerTypes : Cardinality(OfType(t)) <= Limit[t]

\* A domain has one resolver lane, a requirement one Analytical Owner lane.
OneLane ==
  \A k, l \in lease : k.type = l.type /\ k.subject = l.subject => k = l

\* A result enters review through the one agent that holds the domain's lane
\* when the final section runs, not when the call began.
OnlyLaneHolderSubmits ==
  [][\A d \in Domains :
       domain'[d].state = "review_pending" /\ domain[d].state # "review_pending" =>
         /\ ResolverLease(author'[d], d) \in lease
         /\ domain[d].owner = author'[d]]_vars

\* While a candidate is under review, neither it nor the scope it stands for
\* changes under the reviewer.
CandidateStands ==
  [][\A d \in Domains :
       domain[d].state = "review_pending" /\ domain'[d].state = "review_pending" =>
         /\ domain'[d].result = domain[d].result
         /\ domain'[d].scope = domain[d].scope]_vars

\* A requirement is offered for resumption only when every domain it waits for
\* is ready.
OfferedIsResolved ==
  \A r \in Requirements :
    wait[r].state = "ready_to_resume" => \A d \in wait[r].domains : domain[d].state = "ready"

\* Every call comes to an end, however often other processes make its token
\* stale: the optimistic attempts are bounded.
CallsEnd == \A p \in Procs : job[p] # Idle ~> job[p] = Idle

-----------------------------------------------------------------------------
(* What makes CommittedScope and BindsForGood inductive.                   *)

\* A domain bound to a manifest is ready and stays so.
BoundIsReady == \A d \in Domains : domain[d].bound # None => domain[d].state = "ready"

\* A token that still stands proves that the projection is the committed
\* results of today, and that each of them is known to its domain.
FreshIsCurrent ==
  \A p \in Procs : Optimistic(p) /\ job[p].at = "projected" /\ job[p].fresh =>
    /\ job[p].base = CommittedResults
    /\ \A d \in Committed : domain[d].state = "ready"

Standing == BoundIsReady /\ FreshIsCurrent /\ CommittedScope

=============================================================================
