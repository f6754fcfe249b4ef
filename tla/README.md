# Verification of auto-foundry

auto-foundry runs an analytical programme with agents: a Planner says which
role actions are ready, a coordinator dispatches them to role processes, and
the roles leave their results in durable, hash-bound files below one run root.
What is hard about it is not a calculation but a protocol: several processes,
each of which may be killed between any two file operations, share those files
and must converge. This directory models that protocol in TLA+, checks it with
TLC and proves what matters most with TLAPS.

## The system

Everything lives below a run root. A component is a Python module with a
directory of JSON files and a file lock; components meet by reading each
other's files and by calls inside one process.

| Component | State it keeps | Operations | Hard parts | Module |
| --- | --- | --- | --- | --- |
| Run coordinator (`coordinator.py`) | specification, event log with checkpoint, list of active dispatches with claims by process; futures in memory | start, step, run, resume, reopen, rebind, legacy import | several processes, claims of dead ones, admission scopes, crashes between append and submit | `RunCoordinator` |
| Entity resolution (`entity_resolution.py`) | registry of domains, worker leases, waits, submitted results, published commits | reserve, claim, submit, review, commit, wait, acknowledge | optimistic tokens, publication by rename with the registry behind it, capacity | `EntityResolution` |
| Durable item workspace (`durable.py`) | item state, draft, artifacts, attempts, review packet, published snapshot | attempt, draft, review, repair, discard, accept, fail, recover | endings of several writes, several workspace objects of one item with copies of its state | `ItemWorkspace` |
| Result integration (`integration.py`) | staged records, packet, verdict, repair, journal, commit intent, committed records | stage, validate, review, correct, remove, commit, fail | commit and removal of several writes, a repair with a scope | `IntegrationSession` |
| Run lifecycle (`lifecycle.py`), run extension (`run_extension.py`) | run status; generations and the pointer to the active one | reconcile, pause, resume, reopen; append, revise | items are read outside the lock; workspaces move before the pointer | `RunGenerations` |
| Dashboard publication (`dashboard_delta_assembler.py`) | product directory, copy and backup, intents of a generation | assemble: publish, swap, recover, abort | a directory swap killed anywhere, a pointer that moves meanwhile | `DashboardDelta` |
| Planner and supervisor (`requirement_planning.py`) | plan; next actions derived from what is on disk | next_actions, reconcile_identity_requests, snapshots | a query changes what it reads; every state of every workspace must be offered its action | `PlannedRun` |
| Product review (`product_review.py`), reporting (`reporting.py`) | candidate, review, authorization; preflight and report in one directory, its staged copy, backup and intent | discard, record, review, authorize; gather, finalize, recover, roll back | checks before the lock, a directory swap that nothing locks | `FinalReport` |
| Run control, autopilot, launch | launch records, process identifiers | start, pause, tick, launch | one process per run, found by pid | not modelled |
| Semantic store, cache, workbench, deterministic operations, Control Center, release scripts | data | functions and file input/output | none of their own | not modelled |

The Planner's answer is the coordinator's only source of work; the files of
entity resolution, item workspaces and integration are the Planner's only
input; a role process moves those files by public calls. The coordinator never
reads a result, it only asks again.

What makes each correct:

- Coordinator: one Analytical Owner in the run and one mutating action per
  requirement, across processes and restarts; live claims are respected;
  nothing dispatched is lost; a complete run is quiescent; `run()` returns.
- Entity resolution: a published commit is what was reviewed, for the scope of
  today; commits agree; capacity is kept; a call comes to its end.
- Item workspace: decided once, on the reviewed draft, through kills and calls
  that take no lock; a published answer is frozen, and a publication settles.
- Integration: what is committed is what the reviewer accepted, a repair stays
  in its scope, an intended commit comes to its end.
- Lifecycle and extension: a generation is whole, its completion is earned, its
  status never regresses, no conclusion is lost.
- Dashboard: what is visible is whole, a product only makes way for a later one,
  an interrupted swap is settled.
- Product and report: a report is only there for an accepted product, and an
  interrupted publication of it is finished or undone.
- Planner: nothing is decided without its identities, the run never stops but
  for a named cause, decided requirements lead to the report.

## The modules and how they fit

    ScopedLeases        IdentityAuthority     ItemDecision    IntegrationOutcome
         ^                     ^                   ^                  ^
    RunCoordinator      EntityResolution     ItemWorkspace   IntegrationSession
         |                     |                   |                  |
         +------ admission ----+--- PlannedRun ----+------------------+
                                        |
                     RunGenerations (lifecycle, extension)
                                        |
                          DashboardDelta, FinalReport
                                  Publication

The first row are abstract specifications; the arrows are refinements that are
checked and proved. `PlannedRun` composes the components:
each operation of a workspace is one step there, and only what the Planner tells
apart is kept; what an operation consists of, and where it may be killed, is the
matter of the detailed module. `RunGenerations` sees an item as its text and its
conclusion, `DashboardDelta` a generation as its pointer and state file, `FinalReport` a
product as the artifacts its candidate binds. `Publication` puts the last two, which
share no file, side by side: a behaviour tells a story of one or of the other.
`IdentityRecords` says what a result of entity resolution is. `MC...` modules give
instances, `...Proofs` modules hold the theorems. In every module a definition
named `X_...` is `X` with a plausible bug, against which a property is tried out.

## Runs

Every passing run finishes in half a minute to three minutes with two workers.

| Run | Instance | Shows |
| --- | --- | --- |
| `coordinator_scopes` | 2 processes, slots analyzeA, analyzeB, reviewA; empty lists, lists with two competing entries in either order and lists that mix both scopes; calls through step() | one Analytical Owner, quiescent completion, somebody in charge, live claims, refinement of `ScopedLeases` |
| `coordinator_live` | 2 processes, 2 slots, retry budget 2; three stories | a surviving instance loses no dispatch; run() returns under a Planner without progress |
| `resolution_races` | 2 processes; either 1 domain, 2 requirements, 1 hint and kills nearly everywhere, or 2 domains and contradicting results | the candidate, its review and its publication are the same; commits agree (`IdentityAuthority`) |
| `resolution_waits` | 2 domains, 1 requirement, 2 attempts, 2 lanes for 2 worker types and a third with none | capacity, offers; every call ends |
| `item_kills` | 2 handles, 2 drafts, 3 verdicts, a repair, a kill | refinement of `ItemDecision`, a repair keeps the immutable fields |
| `item_attempts` | 2 handles, 1 draft, 1 lane, a discard, a kill | attempts, loads and stale copies cannot move a published answer; a publication settles |
| `integration` | 3 records (one is an asset, one refers to another and is an asset), 2 contents, a kill, a record of another item that may collide with the asset | scope of repairs, commit is the review, refinement of `IntegrationOutcome`, convergence |
| `generations` | 2 requirements, 2 texts, 3 generations, a kill, a leftover workspace | whole generations, earned completion, conclusions kept, settling |
| `publication` | two stories: 2 assemblies at once, 2 generations, 2 plans, a fault (a kill between two writes or inside a removal, a failed copy), a pause; 2 roles, 2 results of the assembly, 2 verdicts, 2 mishaps | visible products, the swap settles; reports are vouched for and settle |
| `planned_run` | 2 requirements of one domain, 1 lane, 2 attempts, a repair, a mishap | the run from the first query to the report |
| `finding_stale_items`, `finding_blocked_report` | as `generations` with 2 callers; as `planned_run` | the disagreements below |

## RunCoordinator

Any number of `Runner`s (coordinator instances, each with its own `owner_id`)
live in operating-system processes (`PidOf`, `Pid`) and share one control
plane.

| TLA+ | Code |
| --- | --- |
| `active`, `before`, `claim` | `active_dispatches`, its order, `runner_id`/`runner_pid` of an entry |
| `mixed` | history only: entries of an imported list that compete in both scopes, or with one that does |
| `status`, `published`, `spec`, `started` | persisted status, `publication_ready`, the specification file, a non-empty event log |
| `lock` | `.coordinator.lock` |
| `pc`, `mode`, `done`, `seen`, `pend` | where a call is, which call, the consumed completion, the Planner's answer, entries to submit |
| `futures`, `proc` | keys of `_futures`; role processes |
| `blocked`, `tries` | `retry_blocked` and `attempts` of `run()` |

A refresh (`_refresh_and_launch`) is a chain of steps under the lock:
`QueryPlanner`, `Reconcile`, `PruneUnoffered`, `ClaimPersisted`, one `Admit`
per dispatched action, and `LaunchPending` or `Settle`. Each append to the log
is a step, because a crash (`Crash`) or an exception (`SectionFails`) may leave
any prefix of them. The durable state is the state of the last event: replay
reads nothing else, so the append and the checkpoint after it are one step. The
Planner's answer is any set of slots, which covers every Planner; its failure is
`PlannerRaises` and `RecordPlannerError`. The list of dispatches is a set with
an order relation, and the walk over it is characterised (`PassedBy`) rather
than computed, which is what makes it possible to prove things about it.

`ScopedLeases` is the abstract specification: holders take actions that are
free and compete with nothing held, and let go. `KeepsLeases` states that the
coordinators implement it, `held` being what their futures and pending entries
hold. The one exception are the entries of an older list in which some entry
competes in both scopes: the walk lets both ends of such a chain pass at a restart,
and the coordinator then really runs two Analytical Owners, or two actions of a
requirement, side by side. `Mixed` picks them out of the list the run begins with,
nothing is added to `mixed` later, and the properties, and `ScopedLeases` with
`excused`, except a pair only if both are among them; the run reaches such pairs.

Two slots of one scope and one of another make every conflict there is;
two processes and the crash of each make every kind of claim (`OneHolder` and
the other theorems hold for instances that share a pid too). Calls, crashes and
completions are not bounded: the state space is finite because attempts are
counted up to `MaxRetries` only and an instance does not come back once dead.

`coordinator_live` tells stories with one variable. In "faults" anything fails,
but one instance neither exits nor crashes; at some point faults end ("calm").
In "stuck" nothing fails and the Planner's answer is always every slot. Fairness:
a section ends (straight-line code under the lock), a role process ends (the
adapter waits with a timeout and then kills), the lock is granted in the end to
a caller that keeps asking, finished futures are taken in order of submission,
and, but for "stuck", an instance is called again or its process ends (`cli.py` 229-262:
each call is a command of the operator, or of whatever calls the command line for
him; a program that gave up on a run would owe it nothing).

## EntityResolution

One state file under one file lock holds the identity domains, the worker leases
and the waits of a run; beside it lie one result artifact and one committed
directory per domain. Every operation reads, decides and writes under the lock,
so a critical section is one step. Four things make it hard: `submit_result` and
`commit` validate a result against a projection made outside the lock, and
compare an authority token before and after; `acknowledge_requirement_resume`
takes the lock three times; a section that writes several files can be killed
between two of them; a committed directory counts before the state file knows of
it, so every load reconciles (`_reconcile_commit_refs`).

| TLA+ | Code |
| --- | --- |
| `domain[d]` | the entry of `domains`: state, owner, requesters, scope, result reference and its scope, commit reference (`bound`), `accepted_pending_commit`, `repair_count`, `review` |
| `lease`, `wait` | `leases` and `waits` of the state file |
| `artifact`, `published`, `litter` | the result artifact, the committed directory, staging directories of killed commits |
| `job` | the longer call a process serves, and how far it came |
| `author` | history only: who submitted the candidate |
| `Reconcile`, `Healed`, `Reconcilable` | `_reconcile_commit_refs`; where it raises |
| `Reserve`, `Discover` | `reserve_identity_domain`, `record_scope_discovery` |
| `ClaimWorker`, `ReleaseWorker`, `ClaimOwner`, `ReleaseOwner`, `RecoverOwner` | the operations of these names |
| `StartSubmit`, `Sample`, `Project`, `Deliver` | `submit_result`: call, token, projection and second token, final section |
| `StartCommit`, `Sample`, `Project`, `Publish` | `commit`, likewise |
| `Review` | `record_review` |
| `Mark`, `Statuses`, `StartResume`, `Reacquire`, `Resume` | `mark_waiting_on_resolution`, `requirement_runtime_statuses`, the sections of `acknowledge_requirement_resume` |
| `Die`, the parameter `stop` | a process killed between two sections, and inside one: after `result.json`, while the directory is staged, after its rename, after the state file |

Hashes are what they hash. The token is a bit, `fresh`: each write of the state
file stamps the time and each commit adds a directory, so a token that was
overtaken never recurs. Rejected calls change nothing and are left out, except
inside the longer calls, where a rejection ends the call. `Stops` bounds the
places where a section is killed in one instance.

Runs restrict what agents ask for, not what the code does: a call that must be
refused at its first guard is not made. `resolution_races` tells two stories.
"crashes" has one domain that both requirements ask for, whose scope grows by a
hint, with lanes released and recovered, processes killed between sections and
within them. "commits" has two domains that are judged once, whose results say
different things of one identifier, killed after the rename. A race of tokens
needs one process that samples and one that writes, a contradiction two results
in two domains, a stale verdict a second candidate or a wider scope, so these
bounds show each. There `Attempts` is 1, since a second attempt starts from the
state the first one left; `resolution_waits` has two, because there the count is
the question. A staging directory that is whole is left out of the races (stop
`"whole"`); the theorems hold with it. Fairness: a process that is not killed
takes the next step of its call. Nothing is assumed of agents, not even that
they stop touching the registry.

## ItemWorkspace

| TLA+ | Code |
| --- | --- |
| `disk.state` | `item_state.json`: lifecycle, review, active attempt, repair count, terminal intent and outcome, integration mark |
| `disk.draft`, `.work`, `.packet`, `.conclusion`, `.owner`, `.anchor`, `.audit`, `.accepted` | the draft, the other artifacts, the business review packet, the data-insufficiency conclusion, the bound owner, the discard anchor and audit, the published snapshot |
| `mem[h]` | the `_state` of an `ItemWorkspace` object; `Now` is the reloaded state, `Held` the copy |
| `call[h]`, `lock` | the writes still to do of a call that is not one step, and those that undo it; the handle whose discard holds the item's lock |
| `Perform(h, allowed, mids, final)` | an operation that holds the lock from its reload to its last write: one step; `mids` are the directories a kill leaves |
| `Load`, `LoadReview`, `LoadTerminal` | `ItemWorkspace.load`: what it reads at each of its three reconciliations, without the lock |
| `BeginAttempt`, `ObserveAttempt`, `FinishAttempt`, `BeginRecovery`, `MarkIntegration` | operations that work from the handle's copy and take the lock for the write of the state only; `Repair` is the discard they reconcile first, without it |
| `DiscardReview` | the discard of a packet: the lock throughout, but one write at a time, since the calls above read and write between them |
| `Write`, `Kill` | the next write of such a call (the state only when no other holds the lock, and refused as `_persist_state` refuses it); the process killed before it |
| `RecordReview`, `UseBusinessRepair`, `Conclude`, `Accept`, `TechnicalFailure`, `FinalizeBlocked` | operations that reload under the lock |

`load`, the attempts and the integration marks take the lock only inside
`_persist_state` (1877-1888). What they read, the repair of a discard that they find
and their write are therefore separate steps, between which any operation of another
handle may fall; so may any of their writes of the packet and the anchor between the
seven of a discard. An operation that holds the lock is one step: of what the calls
without the lock write, only the packet's removal and the anchor could fall into it,
and that is left out but for the discard itself.

`ItemDecision` promises that an item is decided at most once, an answer only on
the standing opinion about that very draft, and closed only after publication;
`DecidesOnce` is the refinement, through kills and stale copies. The opinion on an
item that failed is free: a load that read before the failure may still void it.
`PublicationFreezesState` says that no stale copy moves the state of a published
answer; of a failure or a data insufficiency it says nothing, since a load that read
an intent of the same content, dropped by a kill and published again later, completes
it from its own copy. `PublishedSettles` says that a publication is followed by its
state. Its exceptions are a discard that can no longer be repaired
(`~DiscardSound`), which a stale handle may have begun, and files that do not agree
with the snapshot (`~SnapshotSound`): load raises on both.

`item_kills` has the reviews, repairs and endings and uses symmetry of the handles;
`item_attempts` has the attempts, marks and a discard, with a single accepting verdict.
The two together with a second kill or a second artifact do not fit a run; the
refinement, the freezing and the scope of repairs are proved for every number of
handles, kills and discards.

That a discard converges "after a process loss at any persistence boundary"
(docstring at 2530) is not claimed; it does not (below).

A discard that was killed after the packet was gone writes a state that a publication
since then refuses: `DiscardFails` is the call that has to finish it and raises.

Abstracted: the list of ended attempts and its receipts, the attempt's baseline and
the count of looks without progress (a look finds progress or not), the state's date
(two states that differ in it only are one), the content of evidence, the upgrade of
older repair scopes; a reviewer's findings follow from his verdict. The date of a
published answer is kept as the number of kills before it (`at`): without a kill an
item is not published a second time. Each stage of a load reads its files at one
moment. A stale attempt write can erase the attempt of another handle on an item that
is not published; the model has it and no property forbids it. `PublishedSettles`
assumes that a call that is not killed goes on and that a process that leaves, as each
does in the end, is followed by one that opens the item.

## IntegrationSession

`disk` is the integration directory: the staged snapshot, the packet for the
fidelity reviewer, his result, the authorization and progress of the one repair,
the removal journal, the commit intent, the committed directory, the failure
manifest, the item's mark, the assets registered for the item, and `taken`,
what other items of the run have published under ids that may be this item's too.
`OtherPublishes` adds to it at any moment, for no lock keeps the others away, and
`Overtaken` is a commit that is overtaken between its preflight and the
registration; preflight, staging, registration and projection refuse a record that
`Collides`. The instance has one rival record (`Rivals`). `Stage`,
`RemoveUnreviewed`, `RemoveRecord`, `CorrectInvalid`, `Correct`, `BuildPacket`,
`ReviewInitial`, `ReviewRepair`, `ReviewTargeted`, `Commit`, `CommitAgain`, `Fail`,
`Load` and `Release` are the public operations; the lease makes sessions exclusive,
so one session that comes and goes shows what several would.

`IntegrationOutcome` promises that assets are registered only under a plan made
once, that an integrated item has all of them and a failed one made no plan;
`PlanThenPublish` is the refinement. `CommitIsReviewed` and `RepairStaysInScope`
bind the commit and every state of a repair to what the reviewer saw.
`RemovalRecovers` speaks of one kill: a second one inside the recovery of a
removal can leave a journal whose phase is behind its files, which the code
refuses; so it does where another item has published an id of the remaining records
with other contents. `IntentConverges` has two exceptions, both reached by the run.
After the intent was written a packet built again voids the acceptance
(`integration.py` 1585), although `docs/MODEL_CALL_LEDGER.md:24` has the retry build
one. And another item may publish an id of the plan with other contents: then every
retry raises and the intent forbids the failure. What is shown is that nothing else
keeps an intended commit from its end. Fairness: the owner's process is started again
and tries to commit, the reviewer answers.

Abstracted: `_load_committed` (unreachable, staging is never deleted), other
invocations (refused when they load), the hash map of a removal before review,
rollbacks of input/output errors. The item's mark is read from disk.

## RunGenerations

`run` has the pointer `active`, the state file and plan of the active generation,
the generation being staged, the workspaces and their history; `call[p]` is what
process p has read so far of the items, outside the lock. `Begin`, `ReadItem`,
`Reconcile` are `reconcile_from_run` and the Planner's snapshot; `Append` and
`Revise` are the two editions with every place a kill can leave them, their
refusals, their retries (`Retried`) and the rollback of an exception. `Init` has
workspaces of appends that were killed in front of another (`Leftovers`).

A superseded generation is only read by people and its files are dropped; plan
revision numbers and groups are left out (`Replan` writes the plan file);
`MaxChanged` bounds how many requirements one revision touches. A role that works
on an archived workspace writes into the fresh one with the same path, which
`Decide` covers. The exception `CutShort` in the properties is a revision that was
killed after its manifest: its workspaces are in the history and the run cannot
be loaded until people put them back; what the properties then still promise is
that no conclusion is lost (`NothingLost`). `RunSettles` assumes that the autopilot
ticks; items, editions and people are free.

Not modelled here: the ledger of implementation transitions, invocation receipts,
and a kill inside a revision's rollback.

## DashboardDelta

A call of `assemble_dashboard_delta` is a list of writes, chosen from the files as
they are when it takes the lock that protects them and carried out one by one:
`Effect` says what each does, `Possible` what it needs to find, and `Kill` stops
the call between two, or inside the removal of a directory, of which a part is left
(`Halved`). `Recover`, `Abort`, `RecoverFirst`, `Finish` are the
decisions of the functions of these names on what an earlier call left behind.
The generation lock and the run lock are `lock` and `run` of a call, and the
pointer moves (`NewGeneration`) whenever the run lock is free.

A product's content is its presentation plan, a number, and its parent. Of an
intent only the phase "preparing" is told from the others. The directory and its
lock marker appear in one step. With `MaxGens` = 2 only immediate parents occur,
as in the code. Pause and resume are one `Switch`; reopening and plan revisions
are left out, items are integrated, rendering and validation are what makes a
plan. A failed copy leaves the saved files of a first publication.

`SwapSettles` names the states where recovery refuses for ever (`Unproven`): the
manifest torn in the candidate, the candidate of a prepared swap or the backup cut in
the middle of its removal, the directory made anew between the renames, and a kill
between removing the candidate and the intent. It assumes that the
latest plan is called for again and again.

## FinalReport

| TLA+ | Code |
| --- | --- |
| `product` | the artifacts (a number for their content), candidate, review and authorization files |
| `reporting` | the directory `reporting`, the staging and backup directories by token, the intent with its phase and the tree it replaces |
| `role[p]` | the action a role serves and the step it is at; `then` is where a recovery returns to |
| `Offer`, `Dispatch` | the last part of `next_actions` on `inspect_report_artifacts`; one role at a time, but for roles whose coordinator is lost |
| `Assemble` ... `Authorize` | the store's operations: what is read before the lock and what is written under it are two steps |
| `Gather`, `Adopt`, `Load`, `Settle`, `Check` | `gather_from_run`, then `finalize` down to the publication |
| `Adoption`, `Settlement` | the decisions of `_recover_preflight_transaction` and `_recover_transaction` |
| `Intend` ... `NotePublished` | `_publish_transaction`, step by step; `Undo`, `Wipe`, `WipeBackup`, `PutBack` its rollback |
| `DropStaging`, `DropBackup`, `DropIntent` | `_cleanup_transaction` |
| `Kill`, `Fails`, `LoseCoordinator` | a role is killed, a publication raises, a coordinator dies and its role goes on; `Torn` is what a copy, a removal or a write leaves that is cut short |

A role follows the sequence its prompt gives it (`coordinator.py` 954-985).
Hashes are what they hash: the preflight follows from a run that is over and the
report from the preflight, so a directory is the set of its files; manifest and
report are one file. Two mishaps let a recovery or a rollback be killed in its
turn; in the instance a coordinator is lost only where nothing else goes wrong
while its role is at work (`LostAlone`). Three tokens are never used up.
Fairness: a role that is not killed takes its next step, and the Planner is asked
again; reviewers say what they like.

`ReportSettles` speaks of a product that stays authorized: a role of a lost
coordinator may assemble again afterwards, and then the candidate is stale for
ever. `Wrecked` names the states in which every later call refuses. Without a
second finalizer only the last of them occurs, the directory made anew beside its
backup or a prepared report gone; the others need two finalizers at once.

## PlannedRun

| TLA+ | Code |
| --- | --- |
| `item[r]`, `domain[d]`, `wait[r]`, `final` | what `phase_snapshot` and `runtime_snapshot` read of an item and its integration, of the registry, of the waits, of product and report |
| `Reserved`, `Waits` | `reconcile_identity_requests` and the release of waits |
| `IdentityOffers`, `IntegrationOffers`, `ItemOffers`, `FinalOffers` | the four parts of `next_actions` |
| `Released`, `Runnable`, `OwnerBusy`, `NextRequirement` | `_runnable_requirement_ids`, `runtime_snapshot` |
| `Admits` | `_admission_scope` of the coordinator |
| `Query` | a refresh: reconcile, offer, admit one action or none |
| `Propose`, `MarkWaiting` | an Analytical Owner asks for an identity and notes that it waits for it, which is refused until a query has reserved the domain |
| `BeginAttempt` ... `Exit` | the other calls a role makes, and its leaving at any moment |

Requirements are numbered in the order of the plan, domains by name. `MCPlans`
has a plan where the second requirement depends on the first, with one repair,
and one where its requests widen the domain, with none; all four combinations
with repairs were run once for the invariants.

`DecidedIsResolved`: an owner may ask for an identity at any moment it works, and
roles work while the Planner queries; that nothing is reviewed and published over
an open request needs the order of the query, the admission and the roles
together. `NothingStalls`, `Decides` and `RunConcludes` say that the offers are
complete: whatever the roles left behind, the next query finds what to do. The
places where a requirement does wait for ever are named in `Stalled`: its first
attempt failed (no branch offers it again); a domain it asked for failed, or its
resolver was killed and its lease, or the last lane, is never given back; a
request that would widen a committed domain ends every query. `RunConcludes`
excepts a rejected candidate, which `record_candidate` never replaces although
the Planner asks for a new one.

Fairness: the coordinator is asked again (`Query`), a role ends (`Exit`), roles do
not leave for ever without having done anything (strong fairness of `Work`).
Nothing forces an owner to ask for a domain or a reviewer to accept.

Left out: the leases of Analytical Owners (only `acknowledge_requirement_resume` claims
one, and no role and no part of the program calls it; the Planner would hold back a
requirement whose owner has one, `requirement_planning.py` 1761, 2530); an owner
that outlives its coordinator and works beside its second dispatch
(`RunCoordinator` has it); technical failures and the fidelity verdict "fail";
discards; pauses;
the actions that nobody in the run answers (`repair_identity_request`,
`escalate_identity_failure`); `recover_final_report`; the coordinator's retry
budget; drafts (a completed attempt has one); the proposal and validation of a
plan; generations. The bounds `MaxAttempts` and `MaxMishaps` let one repair and
one attempt, release or kill happen beside the regular course.

## Findings

- `finding_stale_items` (`IntegrationIsEarned`): `reconcile_from_run` reads the
  items outside the lock. Two readings applied in turn can declare a run
  integration complete "from objective item/product facts" that were never true
  together: the handle that read an item before it was accepted as pending is
  followed by one with a status read later.
- `finding_blocked_report` (`BlockedIsReported`): a requirement blocked by
  evidence is a legitimate end for the Planner, which then offers product and
  preflight; the preflight reads the committed integration of every item and
  raises at each retry (`reporting.py` 1536).

Also seen while modelling, with no run of their own:

- Coordinator: a persisted list that mixes the two admission scopes makes a
  restart run two Analytical Owners (2784, against the comment at 2775; the
  properties except its entries, `Mixed`). A completed entry is
  submitted again when the Planner fails in the refresh that reconciles it
  (3018, comment at 2829): roles run at least once. A role may outlive its
  coordinator and run beside its second dispatch. A crash between the
  specification and `run_started` leaves a control plane on which every call
  raises; a torn line of the log makes every replay fail.
- Entity resolution: after a commit was killed past its rename a reviewer can
  still record `fail` (1833, docstring at 982), and every later load raises. A
  staging directory without manifest stops reconciliation (993, comment at 1879).
  A commit is validated against all commits at once and replayed in the order of
  identifiers (2333, 2356), so one that points to a larger identifier can never
  be replayed. An owner whose result is under review may claim the domain again,
  release it, and review its own result. A commit of a domain without owner
  publishes and then raises. A wait renewed during
  `acknowledge_requirement_resume` is overwritten.
- Item workspace: a discard does not always converge (2542, against 2530). One
  from a stale handle on a published item, killed half-way, leaves it unloadable; so
  does an attempt begun before the discard whose state is written after the kill, for
  the state is then neither the one before nor the one after. Without any kill a load
  that read the discard's intent may write the anchor last, and anchor and audit differ
  for good (2451-2525 run without the lock).
- Integration: an intended commit may never end. A packet built again voids the
  acceptance it needs (1585). Another item of the run that publishes an id of the plan
  first makes every retry raise (3916-4000, `prepared.py` 507), and the intent forbids
  the failure, against the comments at 4469 ("retries this exact plan") and 4495
  ("recovery must instead retry the exact intent to convergence").
- Dashboard: a first publication killed between the saved files and the intent, or
  a rollback of it, is refused at every retry (1114, 1304, 1441). So is a swap killed
  while the candidate is given its manifest, between the removal of the candidate and
  of the intent, or inside the removal of the candidate or the backup (1594, 2250,
  2153), which goes file by file. `SKILL.md:525` promises a retry of a crash before
  and after the swap.
- Planner: the Analytical Owner is told to propose a domain and then to mark that it
  waits (`coordinator.py` 927), but the mark is refused until a query has reserved the
  domain (`entity_resolution.py` 1067). An item with a technical failure may be offered
  `repair_integration_fidelity` for ever; a second review is offered during a
  repair when completed attempts exceed repairs (comment 2560-2587); an owner is
  idle while a ready item is under review.
- Product review: a candidate whose review asks for a repair can never be replaced
  (`product_review.py` 672, 704), although the Planner asks for another.
- Reporting: a role killed between the two renames is followed by one that is told
  to gather first (`coordinator.py` 980), which makes `reporting` anew beside its
  backup; the finalizer then says "backup is conflicting" at every retry
  (`reporting.py` 2159). Nothing excludes two finalizers: one may take away
  the report that the other has published, or leave part of it without intent.
- Reporting: a second finalizer loses its preflight; the preflight is bound to
  telemetry, and telemetry written later makes it stale; the report directory is
  the run's and not the generation's, so an extended run keeps its old report.

## Proofs

Proofs hold for every value of the constants under the named assumptions.

### RunCoordinatorProofs

- `TypeCorrect`, and `OneSection` (the lock keeps sections apart), of every run;
- `Invariance`: the inductive invariant `IInv`, for every finite ordered list an
  older version may have left;
- from it `OneHolder`, `OneOwner`, `OneWorkflow`, `ClaimsRespected`,
  `CompletionIsFinal`, and `Implements`, the refinement of `ScopedLeases`;
- `Entrusted` (`SomebodyInCharge`): a section leaves no active entry to nobody.

The argument: what an instance holds carries its claim (`HeldIsClaimed`), and a
live claim is never taken, so nothing is held twice. Exclusion of different
slots cannot be seen on the holders alone, because older lists may contain
entries that compete; what is inductive is that nothing earlier on the list
competes with a held entry (`FirstInLine`), unless both are mixed. The walk preserves
it because among the entries that are not mixed competition is transitive
(`ActiveTransitive`) and they do not compete with mixed ones (`MixedApart`): an end of
a chain is mixed, and with it whatever competes with it (`MixedWhole`). An appended
entry competes with nothing, so it makes no chain. Two held entries stand in some
order on the list (`ActiveOrdered`), so they do not compete, or both are mixed.

`Entrusted` needs that the list is finite and therefore has a first entry (`First`),
which nothing passes by. What has to be carried from the walk to the end of the
section is that some entry is claimed, by the instance in the section itself or by
another (`Charged`): the walk claims the first entry if nobody has it
(`ClaimCharges`), the section's own steps only add to what it holds (`OwnCharge`), and
nobody else writes in between (`OthersCharge`). Its launch makes futures of what it
holds.

### EntityResolutionProofs

- `TypeCorrect`;
- `Stands`: the inductive invariant `Standing`, and from it `ScopeIsCommitted`;
- `Binds`, the refinement of `IdentityAuthority`, and from it `Agree`;
- `LanesExclude` and `LanesAreEnough`: leases exclude each other and stay within
  capacity; `OffersHold`: only a resolved wait is offered;
- `VerdictsStand` (`AcceptedIsReviewed`), `CandidatesStand` (`CandidateStands`) and
  `HoldersSubmit` (`OnlyLaneHolderSubmits`): what the review of a domain means.

The argument for commits: what has to be kept is `CommittedScope`, and it is
endangered by a domain that does not know it is committed, in the window between
the rename and the state file. Each operation that widens a scope or moves a
candidate closes the window first, by reconciling (`Healed`), or is stopped by
the state that the heal requires. A commit relies on its projection, which was
made outside the lock. Hence `FreshIsCurrent`: a token that still stands proves
that the projection equals what is committed now, and that every committed domain
is known to be ready. Then `Publish` is a `Bind` of `IdentityAuthority`, every
other step a stutter, and `Agree` follows by induction on the abstract side.

Capacity is a fact about cardinalities: a step adds at most one lease, one that
was free, or removes leases (`LaneStep`). Offers stay true because a ready domain
stays ready (`ReadyStays`).

Verdicts: every step but a submission keeps, of each domain, the verdict together
with the result it is about and leaves a candidate under review alone (`Follows`;
a heal followed by a wider scope composes). A submission clears the acceptance,
and happens only with the owner mark and the lane of its author (`Delivered`).

### PlannedRunProofs

- `Stands`: the inductive invariant `IInv`; from it `DecidedStands`
  (`DecidedIsResolved`) and `WritersExclude` (`OneWriter`), for any plan, number of
  requirements, domains, lanes and repairs;
- `NeverStalls` (`NothingStalls`): the offers are complete, but for the named stalls.

`DecidedIsResolved` is not inductive: whether an owner can still ask depends on the
roles at work. `IInv` adds that the admission keeps one writing role per
requirement and one Analytical Owner (`OneWriter`), that a role that publishes
works on a requirement whose identities are ready (`PublishesResolved`), and that
integration only works on a decided one (`IntegratesDecided`). A `Query` keeps it
because an offer is made only when nothing waits (`WaitsType`, `OffersAreActions`)
and a ready domain is left alone by `Reserved`; a role keeps it because the writer
who could ask is not there; the identity steps because a ready domain never
leaves that state.

`NeverStalls` is an argument about a state, given two more parts of `IInv`. Let no
query be refused, nobody be at work and no undecided requirement be stalled. A
requirement that waits, waits for a domain that is being resolved (`WaitsForHopeless`);
a lane that is held by nobody at work is lost (`DeadLeases`), so that either a lane is
free and the first domain that seeks one is offered (`FirstSeeking`), or none is and
every requirement that waits is stalled (`NoLane`). Otherwise the first undecided
requirement (`LeastExists`) has its needs decided, because they come before it, and
is offered as its outcome says or lost its only attempt (`OfferedOrLost`). When all
are decided, what is left of the run is offered. `Behind`, the requirements one depends
on, is a recursive function; `BehindIs` is the step of it that is needed.

### ItemWorkspaceProofs

- `TypeCorrect`, which includes the shape of the state file that every load
  requires; `RepairsStayInScope` (`RepairKeepsEnvelope`);
- `PublicationFreezes` (`PublicationFreezesState`), and `Decides` (`DecidesOnce`), the
  refinement of `ItemDecision`.

The directories a kill can leave are as many as the writes of an operation, so
the invariant is a predicate of a directory, `Good`, and what is proved of an
operation under the lock is that every member of its `mids` and its end is `Good` and
stands in one of three relations to the directory before (`Moves`): nothing was
published and an item that is published did not change (`Keeps`); a published item
came to agree with its snapshot (`Settles`); a snapshot was published, on the standing
opinion or for a failure (`Publishes`). `Performed` carries this to the step and
`LeftKeeps` to the invariant.

The calls that take no lock need more: what they still have to write must stay right
while others move the directory. `GoodWrites` says which writes are: a state that is
`Current`, that is, agrees with the publication if it is the state of a closed item;
an anchor whose interrupted discard restarts an open item (`DiscardGood`); a packet
only while its writer holds the lock. `WritesStay` shows that a good write remains good
through every step of every other handle, `StateWriteKeeps` and `OtherWriteKeeps` that
to do it keeps the directory `Good`. The hard case is a load that completes a
publication from the state it read before it (`LoadTerminalKeeps`): its copy must
hold the review and attempts the published state holds. It does because the copy
carries the published intent, and an answer is published under an intent no older copy
carries, for a kill lies between two intents of one item (`Older`, `Dated`).

### IntegrationSessionProofs

- `TypeCorrect`, with the uniqueness of record ids; `ScopeIsKept`
  (`RepairStaysInScope`) and `RemovalIsTakenUp` (`RemovalRecovers`);
- `OnlyReviewedIsCommitted` (`CommitIsReviewed`), and `PlansThenPublishes`
  (`PlanThenPublish`), the refinement of `IntegrationOutcome`.

First the lists of records: what `Without`, `Corrected` and an append do to the ids
and hashes (`WithoutIs`, `CorrectedIs`, `AppendedIs`). The invariant again is about a
directory (`Good`): a repair is permitted by the last review and changes nothing
else (`Permitted`); its packet was written when no more was removed than now, and
each correction corrects (`Progressed`); a recheck has every finding worked off
(`Rechecked`); assets follow the intent (`Planned`). `Rechecked` is what makes a
commit after a repair sound, and `Progressed` is what makes the journal of a
removal recoverable from each of its mids (`RemovalReconcilable`): the packet
still contains the target, so it is not a packet of the records without it. What other
items publish only grows, so that a journal no one stands against now (`Unopposed`) had
no one against it when it was written. The journal part is not about every directory:
with no kill there is no journal, with
at most one it can be taken up (`Journaled1`).

### RunGenerationsProofs

- `TypeCorrect`, `WholeGeneration` (`ActiveIsWhole`), `EarnedCompletion`
  (`CompletionIsEarned`), `ConclusionsAreKept` (`NothingLost`) and `StatusGoesForward`
  (`NeverRegresses`).

`CompletionIsEarned` is not inductive: a caller read the items before it took the
lock. `SeenStands` says that what a caller read as concluded is concluded still or
was replaced; it holds because no step takes a conclusion away (`Remembers`, which
also is `NothingLost`). What is staged belongs together (`StagedGood`), and a
generation begins at the start of the chain (`Initialized`); workspaces a
generation does not own have no conclusion (`OrphansFresh`), and the history has
no place taken by a later generation (`HistoryGood`): an append that adopts a
leftover workspace, and an archive, rely on these. A revision that is cut short
after its manifest is the exception the properties name (`Cut`). The chain of
statuses is unfolded with `Rank` (`ChainIsLater`).

### FinalReportProofs

- `TypeCorrect`, `Vouched` (`ReportIsVouched`) and `OnlyAuthorizedReports`, given
  `Tokens \subseteq Nat`: transactions are told apart by numbers.

What a role decides it decides before its lock. `JudgedStands` says that the review
a role is about to authorize still is the review of the candidate: it is written
once, and a reviewed candidate is not taken away. `AuthorizedStands` says the same
of the authorization; `ReportersAreAuthorized` and `NothingEarly` keep the report
roles, and every directory of a report, behind it. `TwoStories`, in
`DashboardDeltaProofs`, says that a behaviour of `Publication` is one of
`DashboardDelta` and one of `FinalReport`; `VouchedReport` is `Vouched` of it.

### DashboardDeltaProofs

- `TypeCorrect`, `VisibleProduct` (`VisibleIsWhole`), `AdoptedProduct` (`AdoptedStays`)
  and `KeptProduct` (`ProductIsKept`); of `Publication`, `TwoStories` and
  `VouchedReport` (`ReportIsVouched`).

A call is a list of writes that anything may interrupt, so the invariant speaks of
every list a call may be in the middle of: replacing a product (`Swapping`),
publishing a first one (`Firsting`), finishing it or undoing it (`Finishing`,
`Restoring`), ending a swap (`Settling`). For each it says what the next write
relies on, and one lemma per kind (`SwapWrite` to `RestoreWrite`) that the write
leaves the files `Good` and the rest of the list as sound as before. A call between
two lists is `Resting`: what it saw still holds if its generation still is the
active one, which is why the pointer is read again under the run lock
(`PublishStep_Stale` is the code without that).

The others are kept from the files by the two locks (`Excluded`), with three
exceptions, each a lemma: a directory is made anew where none is (`Remade`), a first
publication is undone under the generation lock only (`Unconcerned`), and a pause or
an append goes on beside a call that holds no run lock (`Unaware`, `Appended`).
`Extends` collects the manifests a generation's visible, saved or intended product
extends; each must be the visible one of the parent (`Stands`), and `AdoptedStays`
follows because a whole product of an inactive generation is never taken away.

That a read of a directory between two renames finds nothing, or an empty one, is
part of the theorem (`VisibleIsWhole` allows it); that it comes back is `SwapSettles`,
and model-checked.

### Only model-checked

Liveness, which is out of the prover's reach here: `SurvivorLosesNothing`,
`RunReturns`, `CallsEnd`, `PublishedSettles`, `IntentConverges`, `RunSettles`,
`SwapSettles`, `ReportSettles`, `Decides` of `PlannedRun` and `RunConcludes`. Every
invariant and every action property that a run checks is a theorem.

The assumptions of the modules say that constants have their types, and that
`None` is none of the values it stands beside (`NoneIsNoRecord` and its like): an
absent file is not a present one, and no action of a role is called like nothing
(`PlannedAssumption`). A list that is taken over from an older version is finite and
ordered (`ImportedType`).

## Not modelled

- Coordinator: rebinding to another generation, binding upgrades, the import of a
  legacy control plane, the bytes of the log, hash chains and diagnostics.
- Entity resolution: the upgrade of a legacy state file, the projection of
  integrated items into the validation base, the advisory resolution, the content
  of results beyond the identifiers they define and point to.
- Reporting: what the report says and the facts it is gathered from, telemetry that
  is written after the product, a preflight of other facts.
- Planner: the proposal, grouping and validation of plans.
- Dashboards: assembly, rendering, delta plans: data in, pages out.
- Run control, autopilot and launch: the pid of one process and the files of a new
  run. The ticks of the autopilot are the fairness of several modules. Pause finds
  the coordinator process before it records the transition (`run_control.py` 255),
  so a process may be signalled for a transition that is then refused.
- Semantic store, cache, workbench, analysis, deterministic operations, Control
  Center and release scripts: functions of their inputs, with no protocol between
  processes.

A write of a file is atomic throughout: every JSON file is replaced whole. Clocks,
and wall-clock leases, are abstracted to what they decide. `PROJECT.json` lists the
components with their status and, with each definition, the lines it models.
