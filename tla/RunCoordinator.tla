--------------------------- MODULE RunCoordinator ---------------------------
(***************************************************************************)
(* The event-driven launcher of coordinator.py: any number of              *)
(* RunCoordinator instances, in one or several operating-system processes, *)
(* share one control-plane directory, one file lock and one event log.     *)
(* They ask the Planner which role actions are ready, record a dispatch    *)
(* for each action they admit, run it, and reconcile its completion.       *)
(*                                                                         *)
(* Durable state is the after_state of the last event of the log: replay   *)
(* reads nothing else, so an append and the checkpoint that follows it are *)
(* one step here, and a crash between the two is a crash after the step.   *)
(* Every append of a critical section is a step of its own, so a crash or  *)
(* an exception may leave any prefix of the section's events behind.       *)
(*                                                                         *)
(* Abstractions.  A Planner action is its slot (role, subject, action).    *)
(* The Planner's answer is any set of slots: nothing here depends on how   *)
(* it is computed.  The list active_dispatches is the set active with the  *)
(* relation before, its order.  Diagnostics, no_progress_count, attempt    *)
(* numbers and last_action are reporting fields no branch reads.           *)
(*                                                                         *)
(* A definition named X_... is X with a bug: the properties are checked    *)
(* against it too, and must fail.                                          *)
(***************************************************************************)
EXTENDS Naturals, FiniteSets

CONSTANTS
  Runner,           \* RunCoordinator instances; each has its own owner_id
  Pid,              \* operating-system process identifiers
  PidOf,            \* the process of each instance; a pid may be used again
  Slot,             \* idempotency slots of Planner actions
  AnalyticalOwner,  \* the slots that need the run's only Analytical Owner
  Requirement,      \* requirement keys
  Workflow,         \* the requirement a slot mutates, or NoRequirement
  Imported,         \* active lists an older program version may have left
  MaxRetries,       \* MAX_RUN_RETRIES_PER_ACTION
  NoRequirement, NoSlot, NoRunner

ASSUME PidOfType == PidOf \in [Runner -> Pid]
ASSUME ScopeType ==
  /\ AnalyticalOwner \subseteq Slot
  /\ Workflow \in [Slot -> Requirement \cup {NoRequirement}]
ASSUME NullValues == NoSlot \notin Slot /\ NoRunner \notin Runner
ASSUME RetryType == MaxRetries \in Nat \ {0}

\* R orders the elements of S one after the other.
StrictOrder(R, S) ==
  /\ R \subseteq S \X S
  /\ \A a \in S : <<a, a>> \notin R
  /\ \A a, b \in S : a # b => <<a, b>> \in R \/ <<b, a>> \in R
  /\ \A a, b, c \in S : <<a, b>> \in R /\ <<b, c>> \in R => <<a, c>> \in R

ASSUME ImportedType ==
  \A q \in Imported :
    q.active \subseteq Slot /\ IsFiniteSet(q.active) /\ StrictOrder(q.before, q.active)

VARIABLES
  spec,         \* coordinator_spec.json has been written
  started,      \* the log holds a run_started event
  active,       \* slots in active_dispatches
  before,       \* <<a, b>>: a precedes b in active_dispatches
  claim,        \* runner_id/runner_pid of an active dispatch, or NoRunner
  mixed,        \* history only: what is left of the entries an imported list mixed
  status,       \* persisted status
  published,    \* persisted publication_ready
  lock,         \* holder of the control-plane file lock, or NoRunner
  pc,           \* where each instance is
  mode,         \* the API call it serves: step (also resume) or run
  done,         \* the completion being reconciled, or NoSlot
  seen,         \* the Planner answer this critical section works with
  pend,         \* entries this section will submit once the lock is free
  futures,      \* keys of _futures: submitted, completion not yet consumed
  blocked,      \* retry_blocked of the current run call
  tries,        \* attempts of the current run call
  proc          \* role processes: <<instance that submitted, slot>>

queue == <<active, before, claim, mixed>>
durable == <<spec, started, queue, status, published>>
call == <<mode, done, blocked, tries>>
vars == <<durable, lock, pc, call, seen, pend, futures, proc>>

-----------------------------------------------------------------------------
(* Admission scopes and process liveness.                                  *)

Live(r) == pc[r] \notin {"unborn", "dead"}

\* os.kill(pid, 0) succeeds: some live instance runs in that process.
PidAlive(p) == \E r \in Runner : Live(r) /\ PidOf[r] = p

Claimed(s) == claim[s] # NoRunner /\ PidAlive(PidOf[claim[s]])

\* The liveness of the claiming process is not tested.
Claimable_Anyone(r, s) == TRUE

\* An instance does not recognise its own claim.
Claimable_NotOwn(r, s) == ~Claimed(s)

Claimable(r, s) == ~Claimed(s) \/ claim[s] = r

\* Two actions compete for the Analytical Owner or for one requirement.
Conflicts(a, b) ==
  /\ a # b
  /\ \/ a \in AnalyticalOwner /\ b \in AnalyticalOwner
     \/ Workflow[a] = Workflow[b] /\ Workflow[a] # NoRequirement

\* b competes with each of the others, in another scope with each.
Chain(a, b, c) == Conflicts(a, b) /\ Conflicts(b, c) /\ a # c /\ ~Conflicts(a, c)

\* The entries of a list that compete in both scopes, or with one that does: the
\* walk lets both ends of a chain pass, and the middle as soon as one has left.
Mixed(list) == {s \in list : \E a, b, c \in list : Chain(a, b, c) /\ s \in {a, b, c}}

\* The list is adopted whole, without an admission count.
PassedBy_All(passed) == passed = active

\* The entries the walk over the active list lets pass: those that conflict
\* with no entry before them that it let pass.
PassedBy(passed) ==
  \A s \in active : s \in passed <=>
    ~\E a \in passed : <<a, s>> \in before /\ Conflicts(a, s)

-----------------------------------------------------------------------------
(* Edits of the active list.                                               *)

\* The order keeps pairs of entries that left.
Drop_KeepOrder(gone) ==
  /\ active' = active \ gone
  /\ before' = before
  /\ claim' = [s \in Slot |-> IF s \in gone THEN NoRunner ELSE claim[s]]
  /\ mixed' = mixed \ gone

Drop(gone) ==
  /\ active' = active \ gone
  /\ before' = before \cap ((active \ gone) \X (active \ gone))
  /\ claim' = [s \in Slot |-> IF s \in gone THEN NoRunner ELSE claim[s]]
  /\ mixed' = mixed \ gone

AppendEntry(r, s) ==
  /\ active' = active \cup {s}
  /\ before' = before \cup (active \X {s})
  /\ claim' = [claim EXCEPT ![s] = r]
  /\ UNCHANGED mixed

NoTries == [s \in Slot |-> 0]

-----------------------------------------------------------------------------
Init ==
  /\ \E q \in Imported :
       /\ active = q.active
       /\ before = q.before
       /\ mixed = Mixed(q.active)
       /\ started \in {TRUE, q.active # {}}
       /\ status = IF q.active # {} THEN "dispatching" ELSE "ready"
  /\ spec = started
  /\ claim = [s \in Slot |-> NoRunner]
  /\ published = FALSE
  /\ lock = NoRunner
  /\ pc = [r \in Runner |-> "unborn"]
  /\ mode = [r \in Runner |-> "step"]
  /\ done = [r \in Runner |-> NoSlot]
  /\ seen = [r \in Runner |-> {}]
  /\ pend = [r \in Runner |-> {}]
  /\ futures = [r \in Runner |-> {}]
  /\ blocked = [r \in Runner |-> {}]
  /\ tries = [r \in Runner |-> NoTries]
  /\ proc = {}

-----------------------------------------------------------------------------
(* A new instance, and start(): the specification file is written first,   *)
(* the run_started event second, under one lock.                           *)

Spawn(r) ==
  /\ pc[r] = "unborn"
  /\ pc' = [pc EXCEPT ![r] = "idle"]
  /\ UNCHANGED <<durable, lock, call, seen, pend, futures, proc>>

WriteSpec(r) ==
  /\ pc[r] = "idle" /\ lock = NoRunner /\ ~spec
  /\ spec' = TRUE
  /\ lock' = r
  /\ pc' = [pc EXCEPT ![r] = "start"]
  /\ UNCHANGED <<started, queue, status, published, call, seen, pend, futures,
                 proc>>

RunStarted(r) ==
  /\ pc[r] = "start"
  /\ started' = TRUE
  /\ lock' = NoRunner
  /\ pc' = [pc EXCEPT ![r] = "idle"]
  /\ UNCHANGED <<spec, queue, status, published, call, seen, pend, futures,
                 proc>>

-----------------------------------------------------------------------------
(* step(), resume() and run(): one call at a time per instance.            *)

Call(r, m) ==
  /\ pc[r] = "idle" /\ started
  /\ pc' = [pc EXCEPT ![r] = "query"]
  /\ mode' = [mode EXCEPT ![r] = m]
  /\ UNCHANGED <<durable, lock, done, blocked, tries, seen, pend, futures, proc>>

Return(r) ==
  /\ pc' = [pc EXCEPT ![r] = "idle"]
  /\ mode' = [mode EXCEPT ![r] = "step"]
  /\ done' = [done EXCEPT ![r] = NoSlot]
  /\ blocked' = [blocked EXCEPT ![r] = {}]
  /\ tries' = [tries EXCEPT ![r] = NoTries]

\* run(max_steps=n) found its budget spent at the head of its loop.
StopAtBudget(r) ==
  /\ pc[r] = "query" /\ mode[r] = "run" /\ done[r] = NoSlot
  /\ Return(r)
  /\ UNCHANGED <<durable, lock, seen, pend, futures, proc>>

\* The retry bookkeeping of run() after the completion of s was reconciled;
\* same says whether the Planner still offered s.
NextTries(r, s, same) ==
  [tries[r] EXCEPT ![s] = IF ~same THEN 0
                          ELSE IF @ < MaxRetries THEN @ + 1 ELSE MaxRetries]

\* The retry budget is never applied.
NextBlocked_Never(r, s, same) == blocked[r] \ {s}

NextBlocked(r, s, same) ==
  IF same /\ NextTries(r, s, same)[s] >= MaxRetries
    THEN blocked[r] \cup {s} ELSE blocked[r] \ {s}

\* What the caller does with the status a refresh returned, given the futures
\* it now waits for.
AfterRefresh(r, outcome, fut, same) ==
  \/ /\ done[r] = NoSlot /\ outcome # "complete" /\ fut # {}
     /\ pc' = [pc EXCEPT ![r] = "await"]
     /\ UNCHANGED call
  \/ /\ done[r] = NoSlot /\ (outcome = "complete" \/ fut = {})
     /\ Return(r)
  \/ /\ done[r] # NoSlot /\ mode[r] = "step"
     /\ Return(r)
  \/ /\ done[r] # NoSlot /\ mode[r] = "run"
     /\ LET s == done[r]
            nowBlocked == NextBlocked(r, s, same)
        IN  IF outcome = "waiting" /\ fut = {} /\ s \in nowBlocked
              THEN Return(r)
              ELSE /\ pc' = [pc EXCEPT ![r] = "query"]
                   /\ UNCHANGED mode
                   /\ done' = [done EXCEPT ![r] = NoSlot]
                   /\ blocked' = [blocked EXCEPT ![r] = nowBlocked]
                   /\ tries' = [tries EXCEPT ![r] = NextTries(r, s, same)]

-----------------------------------------------------------------------------
(* _refresh_and_launch: one critical section.  It holds the lock from the  *)
(* Planner query to the last append; roles are submitted afterwards.       *)

\* The section does not wait for the lock.
QueryPlanner_NoWait(r, offered) ==
  /\ pc[r] = "query"
  /\ lock' = r
  /\ seen' = [seen EXCEPT ![r] = offered]
  /\ pc' = [pc EXCEPT ![r] = IF done[r] = NoSlot THEN "prune" ELSE "reconcile"]
  /\ UNCHANGED <<durable, call, pend, futures, proc>>

QueryPlanner(r, offered) ==
  /\ pc[r] = "query" /\ lock = NoRunner
  /\ lock' = r
  /\ seen' = [seen EXCEPT ![r] = offered]
  /\ pc' = [pc EXCEPT ![r] = IF done[r] = NoSlot THEN "prune" ELSE "reconcile"]
  /\ UNCHANGED <<durable, call, pend, futures, proc>>

\* The Planner raised: the section ends with nothing recorded, and the error
\* is recorded by a second section.  A completion stays in the active list.
PlannerRaises(r) ==
  /\ pc[r] = "query" /\ lock = NoRunner
  /\ pc' = [pc EXCEPT ![r] = "error"]
  /\ UNCHANGED <<durable, lock, call, seen, pend, futures, proc>>

RecordPlannerError(r) ==
  /\ pc[r] = "error" /\ lock = NoRunner
  /\ status' = IF active # {} THEN "dispatching" ELSE "waiting"
  /\ AfterRefresh(r, status', futures[r], FALSE)
  /\ UNCHANGED <<spec, started, queue, published, lock, seen, pend, futures,
                 proc>>

\* Nothing persisted is claimed in the section that reconciles a completion.
Reconcile_NoClaim(r) ==
  /\ pc[r] = "reconcile"
  /\ Drop({done[r]})
  /\ pc' = [pc EXCEPT ![r] = "admit"]
  /\ UNCHANGED <<spec, started, status, published, lock, call, seen, pend,
                 futures, proc>>

\* role_exit or planner_advanced: the completed entry leaves the list.
Reconcile(r) ==
  /\ pc[r] = "reconcile"
  /\ Drop({done[r]})
  /\ pc' = [pc EXCEPT ![r] = "prune"]
  /\ UNCHANGED <<spec, started, status, published, lock, call, seen, pend,
                 futures, proc>>

\* Entries the Planner no longer offers go, unless a live process holds them.
Unoffered(r) ==
  {s \in active : s \notin seen[r] /\ s \notin futures[r] /\ ~Claimed(s)}

PruneUnoffered(r) ==
  /\ pc[r] = "prune"
  /\ Drop(Unoffered(r))
  /\ pc' = [pc EXCEPT ![r] = "claim"]
  /\ UNCHANGED <<spec, started, status, published, lock, call, seen, pend,
                 futures, proc>>

\* dispatch_claimed: adopt what is left of the list, within admission.
Adoptable(r, passed) ==
  {s \in passed : s \notin futures[r] /\ Claimable(r, s)}

ClaimPersisted(r) ==
  /\ pc[r] = "claim"
  /\ \E passed \in SUBSET active :
       /\ PassedBy(passed)
       /\ claim' = [s \in Slot |-> IF s \in Adoptable(r, passed) THEN r ELSE claim[s]]
       /\ pend' = [pend EXCEPT ![r] = Adoptable(r, passed)]
  /\ pc' = [pc EXCEPT ![r] = "admit"]
  /\ UNCHANGED <<spec, started, active, before, mixed, status, published, lock,
                 call, seen, futures, proc>>

\* The requirement of an offer is not looked up among the active ones.
Admissible_AnyWorkflow(r) ==
  {s \in seen[r] \ (active \cup blocked[r] \cup {done[r]}) :
     s \in AnalyticalOwner => active \cap AnalyticalOwner = {}}

\* The offers the loop over the Planner's answer still dispatches.  The slot
\* just completed is held back in the pass that reconciles it.
Admissible(r) ==
  {s \in seen[r] \ (active \cup blocked[r] \cup {done[r]}) :
     \A a \in active : ~Conflicts(a, s)}

\* dispatch_started
Admit(r, s) ==
  /\ pc[r] = "admit" /\ s \in Admissible(r)
  /\ AppendEntry(r, s)
  /\ status' = "dispatching"
  /\ pend' = [pend EXCEPT ![r] = @ \cup {s}]
  /\ UNCHANGED <<spec, started, published, lock, pc, call, seen, futures, proc>>

\* The section ends with entries active: release the lock, then submit.
LaunchPending(r) ==
  /\ pc[r] = "admit" /\ Admissible(r) = {} /\ active # {}
  /\ lock' = NoRunner
  /\ futures' = [futures EXCEPT ![r] = @ \cup pend[r]]
  /\ proc' = proc \cup ({r} \X pend[r])
  /\ pend' = [pend EXCEPT ![r] = {}]
  /\ seen' = [seen EXCEPT ![r] = {}]
  /\ AfterRefresh(r, "dispatching", futures[r] \cup pend[r], done[r] \in seen[r])
  /\ UNCHANGED <<durable>>

\* An empty Planner answer completes the run whatever is active.
Settle_Active(r, terminal) ==
  /\ pc[r] = "admit" /\ Admissible(r) = {}
  /\ terminal => seen[r] = {}
  /\ status' = IF terminal THEN "complete" ELSE "waiting"
  /\ published' = IF terminal THEN TRUE ELSE published
  /\ lock' = NoRunner
  /\ seen' = [seen EXCEPT ![r] = {}]
  /\ AfterRefresh(r, status', futures[r], done[r] \in seen[r])
  /\ UNCHANGED <<spec, started, queue, pend, futures, proc>>

\* run_completed or wait: the section ends with nothing active.  A run is
\* complete when the Planner offers nothing and the terminal projection
\* (lifecycle, items, product and report) says so.
Settle(r, terminal) ==
  /\ pc[r] = "admit" /\ Admissible(r) = {} /\ active = {}
  /\ terminal => seen[r] = {}
  /\ status' = IF terminal THEN "complete" ELSE "waiting"
  /\ published' = IF terminal THEN TRUE ELSE published
  /\ lock' = NoRunner
  /\ seen' = [seen EXCEPT ![r] = {}]
  /\ AfterRefresh(r, status', futures[r], done[r] \in seen[r])
  /\ UNCHANGED <<spec, started, queue, pend, futures, proc>>

-----------------------------------------------------------------------------
(* Role processes and their completions.                                   *)

RoleEnds(r, s) ==
  /\ <<r, s>> \in proc
  /\ proc' = proc \ {<<r, s>>}
  /\ UNCHANGED <<durable, lock, pc, call, seen, pend, futures>>

\* _consume_one forgets the future before the exit is recorded.
Consume(r, s) ==
  /\ pc[r] = "await" /\ s \in futures[r] /\ <<r, s>> \notin proc
  /\ futures' = [futures EXCEPT ![r] = @ \ {s}]
  /\ done' = [done EXCEPT ![r] = s]
  /\ pc' = [pc EXCEPT ![r] = "query"]
  /\ UNCHANGED <<durable, lock, mode, blocked, tries, seen, pend, proc>>

-----------------------------------------------------------------------------
(* reopen(): clears the claims of dead processes, or, with nothing active, *)
(* resets a waiting or terminal run.                                       *)

Reopen(r) ==
  /\ pc[r] = "idle" /\ lock = NoRunner /\ started
  /\ \/ /\ active # {}
        /\ claim' = [s \in Slot |-> IF Claimed(s) THEN claim[s] ELSE NoRunner]
        /\ UNCHANGED <<status, published>>
     \/ /\ active = {} /\ status \in {"waiting", "complete"}
        /\ status' = "ready"
        /\ published' = FALSE
        /\ UNCHANGED claim
  /\ UNCHANGED <<spec, started, active, before, mixed, lock, pc, call, seen,
                 pend, futures, proc>>

-----------------------------------------------------------------------------
(* Faults.                                                                 *)

\* An exception inside the section (a failed append, a failed checkpoint):
\* what was appended stays, the entries to submit are forgotten.
SectionFails(r) ==
  /\ pc[r] \in {"reconcile", "prune", "claim", "admit"}
  /\ Return(r)
  /\ lock' = NoRunner
  /\ seen' = [seen EXCEPT ![r] = {}]
  /\ pend' = [pend EXCEPT ![r] = {}]
  /\ UNCHANGED <<durable, futures, proc>>

\* What dies with the instances of a set: everything but the log.
Forget(gone) ==
  /\ pc' = [r \in Runner |-> IF r \in gone THEN "dead" ELSE pc[r]]
  /\ mode' = [r \in Runner |-> IF r \in gone THEN "step" ELSE mode[r]]
  /\ done' = [r \in Runner |-> IF r \in gone THEN NoSlot ELSE done[r]]
  /\ seen' = [r \in Runner |-> IF r \in gone THEN {} ELSE seen[r]]
  /\ pend' = [r \in Runner |-> IF r \in gone THEN {} ELSE pend[r]]
  /\ futures' = [r \in Runner |-> IF r \in gone THEN {} ELSE futures[r]]
  /\ blocked' = [r \in Runner |-> IF r \in gone THEN {} ELSE blocked[r]]
  /\ tries' = [r \in Runner |-> IF r \in gone THEN NoTries ELSE tries[r]]
  /\ UNCHANGED durable

InProcess(p) == {r \in Runner : Live(r) /\ PidOf[r] = p}

\* The process is killed; the role processes it started may outlive it.
Crash(p) ==
  /\ InProcess(p) # {}
  /\ Forget(InProcess(p))
  /\ lock' = IF lock \in InProcess(p) THEN NoRunner ELSE lock
  /\ \E orphans \in SUBSET {x \in proc : x[1] \in InProcess(p)} :
       proc' = {x \in proc : x[1] \notin InProcess(p)} \cup orphans

\* The interpreter waits for the thread pool before the process exits; the
\* completions it waits for are never consumed.
Exit(p) ==
  /\ InProcess(p) # {}
  /\ \A r \in InProcess(p) : pc[r] = "idle" /\ \A x \in proc : x[1] # r
  /\ Forget(InProcess(p))
  /\ UNCHANGED <<lock, proc>>

-----------------------------------------------------------------------------
\* What an instance does when nothing fails.
Works(r) ==
  \/ Spawn(r)
  \/ WriteSpec(r)
  \/ RunStarted(r)
  \/ \E m \in {"step", "run"} : Call(r, m)
  \/ StopAtBudget(r)
  \/ \E offered \in SUBSET Slot : QueryPlanner(r, offered)
  \/ RecordPlannerError(r)
  \/ Reconcile(r)
  \/ PruneUnoffered(r)
  \/ ClaimPersisted(r)
  \/ \E s \in Slot : Admit(r, s)
  \/ LaunchPending(r)
  \/ \E terminal \in BOOLEAN : Settle(r, terminal)
  \/ \E s \in Slot : RoleEnds(r, s)
  \/ \E s \in Slot : Consume(r, s)
  \/ Reopen(r)

RunnerStep(r) == Works(r) \/ PlannerRaises(r) \/ SectionFails(r)

Calm == (\E r \in Runner : Works(r)) \/ (\E p \in Pid : Exit(p))

Next ==
  \/ \E r \in Runner : RunnerStep(r)
  \/ \E p \in Pid : Crash(p) \/ Exit(p)

Spec == Init /\ [][Next]_vars

-----------------------------------------------------------------------------
(* Fairness.  A section runs to its end, a role process ends, the file     *)
(* lock is granted to a caller that keeps asking, finished futures are     *)
(* taken oldest first, and whoever supervises an instance calls it again   *)
(* or ends its process.                                                    *)

Section(r) ==
  \/ Reconcile(r) \/ PruneUnoffered(r) \/ ClaimPersisted(r)
  \/ \E s \in Slot : Admit(r, s)
  \/ LaunchPending(r)
  \/ \E terminal \in BOOLEAN : Settle(r, terminal)

RolesEnd(r) == \A s \in Slot : WF_vars(RoleEnds(r, s))

CallsProgress(r) ==
  /\ SF_vars(\E offered \in SUBSET Slot : QueryPlanner(r, offered))
  /\ SF_vars(RecordPlannerError(r))
  /\ WF_vars(Section(r))
  /\ \A s \in Slot : SF_vars(Consume(r, s))

\* What the operator, or whatever calls the command line, does with an instance.
Supervision(r) ==
  \/ Spawn(r) \/ WriteSpec(r) \/ RunStarted(r)
  \/ (\E m \in {"step", "run"} : Call(r, m)) \/ Exit(PidOf[r])

-----------------------------------------------------------------------------
(* Properties.                                                             *)

\* Every variable has its type, and only active entries are ordered, or mixed.
TypeOK ==
  /\ spec \in BOOLEAN /\ started \in BOOLEAN /\ published \in BOOLEAN
  /\ active \in SUBSET Slot /\ mixed \in SUBSET active
  /\ before \in SUBSET (active \X active)
  /\ claim \in [Slot -> Runner \cup {NoRunner}]
  /\ status \in {"ready", "dispatching", "waiting", "complete"}
  /\ lock \in Runner \cup {NoRunner}
  /\ pc \in [Runner -> {"unborn", "idle", "start", "query", "error", "reconcile",
                        "prune", "claim", "admit", "await", "dead"}]
  /\ mode \in [Runner -> {"step", "run"}]
  /\ done \in [Runner -> Slot \cup {NoSlot}]
  /\ seen \in [Runner -> SUBSET Slot]
  /\ pend \in [Runner -> SUBSET Slot]
  /\ futures \in [Runner -> SUBSET Slot]
  /\ blocked \in [Runner -> SUBSET Slot]
  /\ tries \in [Runner -> [Slot -> 0 .. MaxRetries]]
  /\ proc \in SUBSET (Runner \X Slot)

\* What instance r has submitted, or will submit when it releases the lock.
Holds(r) == futures[r] \cup pend[r]

\* At most one instance is between the Planner query and the last append of a
\* section, or inside start(): the copy of the state a section works on is the
\* state replayed at its beginning, so this is what lets the model keep one.
SectionsExclude ==
  \A r \in Runner :
    pc[r] \in {"start", "reconcile", "prune", "claim", "admit"} <=> lock = r

\* Whatever the interleaving of processes, crashes, restarts and failed
\* sections, no slot is in the hands of two instances at once: an action the
\* Planner offers to every coordinator is run by one of them
\* (_claim_entry, _resume_active_locked, _refresh_and_launch).
SlotRunsOnce ==
  \A p, q \in Runner : p # q => Holds(p) \cap Holds(q) = {}

\* No two slots that need the run's Analytical Owner are in the hands of
\* coordinators at once, across all processes and restarts, but for entries that
\* an older version left mixed (_admission_scope, the capacity test of
\* _refresh_and_launch and the walk of _resume_active_locked).
OneAnalyticalOwner ==
  \A p, q \in Runner : \A s \in Holds(p), t \in Holds(q) :
    {s, t} \subseteq AnalyticalOwner => s = t \/ {s, t} \subseteq mixed

\* A requirement has at most one mutating workflow action in the hands of
\* coordinators, with the same exception: its repair never runs beside its
\* review or integration.
OneWorkflowPerRequirement ==
  \A p, q \in Runner : \A s \in Holds(p), t \in Holds(q) :
    Workflow[s] = Workflow[t] /\ Workflow[s] # NoRequirement =>
      s = t \/ {s, t} \subseteq mixed

\* The coordinators together keep the promise of ScopedLeases: whatever runs
\* was taken while nothing it competes with was in anybody's hands, unless both
\* are among the mixed entries of an older list.
Leases == INSTANCE ScopedLeases WITH
  Holder <- Runner,
  Action <- Slot,
  Competes <- {x \in Slot \X Slot : Conflicts(x[1], x[2])},
  held <- {x \in Runner \X Slot : x[2] \in Holds(x[1])},
  excused <- mixed

KeepsLeases == Leases!Spec

\* A run reported complete is quiescent: no coordinator still has a role to
\* run or to wait for (Settle tests only the durable list, not the futures).
CompleteIsQuiescent ==
  status = "complete" => active = {} /\ \A r \in Runner : Holds(r) = {}

\* The claim of a process that is alive is authoritative: no step of another
\* instance, and no reopen, takes the entry from it or removes it.
LiveClaimsRespected ==
  [][\A s \in active, r \in Runner :
       /\ claim[s] = r /\ Live(r) /\ pc'[r] # "dead"
       /\ ~(s \in active' /\ claim'[s] = r)
       => pc[r] = "reconcile" /\ done[r] = s]_vars

\* A section that leaves entries active leaves somebody in charge of them: its
\* own instance has a future, or the claim of another instance, alive when the
\* section walked the list, kept it from taking one.  A step never reports
\* dispatching with nobody to run the dispatch.
SomebodyInCharge ==
  [][\A r \in Runner : LaunchPending(r) =>
       \/ futures'[r] # {}
       \/ \E s \in active : claim[s] \notin {NoRunner, r}]_vars

\* No dispatch is lost: whatever crashes, restarts and conflicts intervene, an
\* entry of the active list is in the end run to completion or withdrawn.
NoLostDispatch == \A s \in Slot : s \in active ~> s \notin active

\* run() returns although the Planner keeps offering the same actions: every
\* slot exhausts its retry budget (MAX_RUN_RETRIES_PER_ACTION).
RunReturns == \A r \in Runner : mode[r] = "run" ~> mode[r] # "run"

-----------------------------------------------------------------------------
(* The inductive invariant behind the safety properties.                   *)

\* The pairs of before order the active list.
ActiveOrdered == StrictOrder(before, active)

\* Competition is transitive among the entries that are not mixed, and apart
\* from those that are: what the coordinators append competes with nothing.
ActiveTransitive ==
  \A a, b, c \in active : Chain(a, b, c) => a \in mixed
MixedApart ==
  \A a, b \in active : Conflicts(a, b) /\ a \in mixed => b \in mixed

\* What an instance holds is an entry that carries its claim.
HeldIsClaimed ==
  \A r \in Runner : \A s \in Holds(r) : s \in active /\ claim[s] = r /\ Live(r)

\* So is a consumed completion, until it is reconciled.
DoneIsClaimed ==
  \A r \in Runner :
    /\ pc[r] = "reconcile" => done[r] # NoSlot
    /\ done[r] # NoSlot =>
         /\ pc[r] \in {"query", "error", "reconcile", "prune", "claim", "admit"}
         /\ pc[r] \in {"query", "error", "reconcile"} =>
              done[r] \in active /\ claim[done[r]] = r /\ done[r] \notin futures[r]

\* Entries wait for submission only inside the section that claimed them.
PendingInSection == \A r \in Runner : pc[r] # "admit" => pend[r] = {}

\* Nothing earlier on the list competes with an entry in somebody's hands, if the
\* two are not mixed.
FirstInLine ==
  \A r \in Runner : \A s \in Holds(r) : \A a \in active :
    <<a, s>> \in before /\ Conflicts(a, s) => {a, s} \subseteq mixed

IInv ==
  /\ ActiveOrdered
  /\ ActiveTransitive
  /\ MixedApart
  /\ HeldIsClaimed
  /\ DoneIsClaimed
  /\ PendingInSection
  /\ FirstInLine
=============================================================================
