---------------------------- MODULE RunGenerations ----------------------------
(***************************************************************************)
(* The run record and its editable portfolio: lifecycle.py and             *)
(* run_extension.py.                                                       *)
(*                                                                         *)
(* `run' is what is on disk. A generation is a directory with a state      *)
(* file, a supervisor plan and a manifest that seals it; the pointer names *)
(* the active one, the next one may be staged, and those before it are     *)
(* only read by people. A requirement of the portfolio has a workspace     *)
(* (here its text and what became of it: durable.py) until a revision      *)
(* moves it to the history. The run lock makes an operation one step,      *)
(* between two writes of which its process may be killed. The item         *)
(* workspaces are read before the lock is taken: `call' is what the        *)
(* callers have read so far.                                               *)
(*                                                                         *)
(* A state or plan hash is never seen twice, so a staged manifest needs    *)
(* only to say whether the parent was written since ("current").           *)
(*                                                                         *)
(* A definition named X_... is X with a bug: the properties are checked    *)
(* against it too, and must fail.                                          *)
(***************************************************************************)
EXTENDS FiniteSets, Naturals

CONSTANTS Items,      \* requirement ids
          Initial,    \* the portfolio the run is created with
          Leftovers,  \* requirements of appends that were killed before Init
          Texts,      \* what a requirement may ask
          FirstText,  \* the text of the initial requirements
          Callers,    \* processes that reconcile the run
          Outcomes,   \* conclusions of an item
          Results,    \* ends of the integration of an accepted item
          MaxChanged, \* records one revision changes        (bound)
          MaxGens,    \* generations that may be published   (bound)
          MaxKills,   \* kills inside an operation           (bound)
          None

ASSUME GenerationsAssumption ==
  /\ Initial \subseteq Items /\ FirstText \in Texts
  /\ Leftovers \subseteq Items \ Initial
  /\ MaxGens \in Nat \ {0} /\ MaxKills \in Nat
  /\ Outcomes \subseteq {"accepted", "limited", "failed"}
  /\ Results \subseteq {"integrated", "failed"} /\ MaxChanged \in Nat
  /\ None \notin Items \cup Texts

VARIABLES run,    \* pointer, generations, workspaces and history
          call,   \* call[p]: the items p has read, None: no call under way
          kills   \* kills inside an operation so far

vars == <<run, call, kills>>

Done == <<"initialized", "running", "analytical_complete", "integration_complete",
          "products_complete", "complete", "complete_with_limits">>
Statuses == {Done[k] : k \in DOMAIN Done}
Rank(status) == CHOOSE k \in DOMAIN Done : Done[k] = status

NotStaged == [kind |-> None, current |-> FALSE, state |-> None,
              plan |-> None, sealed |-> FALSE]
Fresh(text) == [text |-> text, outcome |-> None, merged |-> "pending"]

Ids(r) == r.state.ids
Paused(r) == r.state.status = "paused"
Records(plan) == {i \in Items : plan[i] # None}

\* What a process that loads the workspace of i learns of it.
Facts(r, i) == [outcome |-> r.ws[i].outcome, merged |-> r.ws[i].merged]

\* A write to the active state file or plan gives the parent another hash.
Written(r) == [r EXCEPT !.staged.current = FALSE]
StateWritten(r, s) == Written([r EXCEPT !.state = s])

-----------------------------------------------------------------------------
(* Operations of RunLifecycle under the run lock. *)

\* An operation whose process survives, and one that is killed on the way.
Perform(mids, final) ==
  \/ run' = final /\ UNCHANGED kills
  \/ /\ kills < MaxKills
     /\ run' \in mids
     /\ kills' = kills + 1

Advanced(r, status) ==
  StateWritten(r, [r.state EXCEPT !.status = status, !.resume = None])

Accepted(fact) == fact.outcome \in {"accepted", "limited"}
Merged(fact) == Accepted(fact) => fact.merged # "pending"
Limited(fact) == \/ fact.outcome \in {"limited", "failed"}
                 \/ Accepted(fact) /\ fact.merged = "failed"

\* The status after `status', given the items read; itself when none is due.
Due(status, facts, products) ==
  CASE status = "initialized" -> "running"
    [] status = "running" /\ (\A i \in DOMAIN facts : facts[i].outcome # None)
         -> "analytical_complete"
    [] status = "analytical_complete" /\ (\A i \in DOMAIN facts : Merged(facts[i]))
         -> "integration_complete"
    [] status = "integration_complete" /\ products -> "products_complete"
    [] status = "products_complete" ->
         IF \E i \in DOMAIN facts : Limited(facts[i])
         THEN "complete_with_limits" ELSE "complete"
    [] OTHER -> status

\* The statuses a reconciliation takes up one after the other.
Chain(status, facts, products) ==
  LET next == [s \in Statuses |-> Due(s, facts, products)]
      s1 == next[status]
      s2 == next[s1]
      s3 == next[s2]
      s4 == next[s3]
  IN  <<status, s1, s2, s3, s4, next[s4]>>

\* BUG: a chain that is taken up at "analytical_complete" stays there.
Passed_FromRunning(r, facts, products) ==
  LET chain == Chain(r.state.status, facts, products)
  IN  [k \in 1 .. 6 |-> IF r.state.status \in {chain[k], "analytical_complete"} THEN r
                        ELSE Advanced(r, chain[k])]

\* What _reconcile_unlocked writes, one state file after the other: the runs
\* it passes through, the last of them the one with no status due any more.
Passed(r, facts, products) ==
  LET chain == Chain(r.state.status, facts, products)
  IN  [k \in 1 .. 6 |-> IF chain[k] = r.state.status THEN r ELSE Advanced(r, chain[k])]

Reconciled(facts, products) ==
  LET passed == Passed(run, facts, products)
  IN  Perform({passed[k] : k \in 1 .. 5}, passed[6])

\* A run that was created with its initial portfolio. A workspace of a
\* requirement it does not have may be there: the generation an append was
\* killed in front of was published by another append since.
Init ==
  \E left \in UNION {[S -> Texts] : S \in SUBSET Leftovers} :
  /\ run = [active |-> 1,
            state |-> [ids |-> Initial, status |-> "initialized", resume |-> None],
            plan |-> [i \in Items |-> IF i \in Initial THEN FirstText ELSE None],
            added |-> {},
            staged |-> NotStaged,
            ws |-> [i \in Items |-> IF i \in Initial THEN Fresh(FirstText)
                                  ELSE IF i \in DOMAIN left THEN Fresh(left[i]) ELSE None],
            hist |-> [i \in Items |-> [o \in 2 .. MaxGens |-> None]]]
  /\ call = [p \in Callers |-> None]
  /\ kills = 0

\* reconcile_from_run, and the Planner's snapshot: load the lifecycle, then
\* the workspaces one after the other, then reconcile under the lock.
Begin(p) ==
  /\ call[p] = None
  /\ call' = [call EXCEPT ![p] = [ids |-> Ids(run), status |-> run.state.status,
                                  seen |-> [i \in {} |-> None]]]
  /\ UNCHANGED <<run, kills>>

ReadItem(p, i) ==
  /\ call[p] # None
  /\ i \in call[p].ids \ DOMAIN call[p].seen
  /\ LET seen == call[p].seen IN
     call' = [call EXCEPT ![p] =
       IF run.ws[i] = None THEN None           \* ItemWorkspace.load raises
       ELSE [call[p] EXCEPT !.seen = [j \in DOMAIN seen \cup {i} |->
                                        IF j = i THEN Facts(run, i) ELSE seen[j]]]]
  /\ UNCHANGED <<run, kills>>

\* BUG: the ids that were read are not compared with the reloaded lifecycle.
Reconcile_AnyIds(p) ==
  /\ call[p] # None /\ DOMAIN call[p].seen = call[p].ids
  /\ \/ ~Paused(run) /\ Reconciled(call[p].seen, FALSE)
     \/ Paused(run) /\ UNCHANGED <<run, kills>>
  /\ call' = [call EXCEPT ![p] = None]

\* BUG: the status is the one the handle was loaded with.
Reconcile_StaleHandle(p) ==
  /\ call[p] # None /\ DOMAIN call[p].seen = call[p].ids
  /\ \/ /\ call[p].status # "paused" /\ call[p].ids = Ids(run)
        /\ LET next == Due(call[p].status, call[p].seen, FALSE)
           IN  run' = IF next = call[p].status THEN run ELSE Advanced(run, next)
     \/ call[p].status = "paused" /\ UNCHANGED run
     \/ call[p].ids # Ids(run) /\ UNCHANGED run
  /\ call' = [call EXCEPT ![p] = None]
  /\ UNCHANGED kills

Reconcile(p) ==
  /\ call[p] # None /\ DOMAIN call[p].seen = call[p].ids
  /\ \/ ~Paused(run) /\ call[p].ids = Ids(run) /\ Reconciled(call[p].seen, FALSE)
     \/ (Paused(run) \/ call[p].ids # Ids(run)) /\ UNCHANGED <<run, kills>>
  /\ call' = [call EXCEPT ![p] = None]

Operated(s) == run' = StateWritten(run, s) /\ UNCHANGED <<call, kills>>

Pause ==
  /\ ~Paused(run)
  /\ Operated([run.state EXCEPT !.status = "paused", !.resume = run.state.status])

Resume ==
  /\ Paused(run)
  /\ Operated([run.state EXCEPT !.status = run.state.resume, !.resume = None])

Reopen == Operated([run.state EXCEPT !.status = "running", !.resume = None])

-----------------------------------------------------------------------------
(* What the roles, the Planner and the assembler do to the run's files. *)

\* An item is decided and later integrated (durable.py, integration.py).
Decide(i, outcome) ==
  /\ i \in Ids(run) /\ run.ws[i] # None /\ run.ws[i].outcome = None
  /\ run' = [run EXCEPT !.ws[i].outcome = outcome]
  /\ UNCHANGED <<call, kills>>

Integrate(i, result) ==
  /\ i \in Ids(run) /\ run.ws[i] # None
  /\ Accepted(Facts(run, i)) /\ run.ws[i].merged = "pending"
  /\ run' = [run EXCEPT !.ws[i].merged = result]
  /\ UNCHANGED <<call, kills>>

\* save() of the same records: groups, strategy and revision only.
Replan ==
  /\ run' = Written(run)
  /\ UNCHANGED <<call, kills>>

\* The assembler loads the items and reconciles inside the run lock.
PublishProducts ==
  /\ run.state.status = "integration_complete"
  /\ \A i \in Ids(run) : run.ws[i] # None
  /\ Reconciled([i \in Ids(run) |-> Facts(run, i)], TRUE)
  /\ UNCHANGED call

-----------------------------------------------------------------------------
(* RequirementRunExtension. *)

InitialState(r, ids) ==
  IF Paused(r) THEN [ids |-> ids, status |-> "paused", resume |-> "running"]
  ELSE [ids |-> ids, status |-> "initialized", resume |-> None]

Overlay(plan, add) == [i \in Items |-> IF i \in DOMAIN add THEN add[i] ELSE plan[i]]

\* ItemWorkspace.create: an existing workspace is taken if it asks the same.
Creatable(r, i, text) == r.ws[i] = None \/ r.ws[i].text = text
Created(r, S, plan) ==
  [r EXCEPT !.ws = [i \in Items |-> IF i \in S /\ r.ws[i] = None THEN Fresh(plan[i])
                                    ELSE r.ws[i]]]

Rooted(r, kind) ==
  IF r.staged.kind # None THEN r
  ELSE [r EXCEPT !.staged.kind = kind, !.staged.current = TRUE]
WithState(r, s) == [r EXCEPT !.staged.state = IF @ = None THEN s ELSE @]
WithPlan(r, plan) == [r EXCEPT !.staged.plan = IF @ = None THEN plan ELSE @]
Sealed(r, kind) == [r EXCEPT !.staged.sealed = TRUE, !.staged.kind = kind,
                             !.staged.current = TRUE]
Published(r) ==
  [r EXCEPT !.active = @ + 1, !.state = r.staged.state, !.plan = r.staged.plan,
            !.added = Records(r.staged.plan) \ Records(r.plan), !.staged = NotStaged]

\* append of records that the active generation already added.
Retried(add) ==
  /\ DOMAIN add # {} /\ DOMAIN add = run.added
  /\ \A i \in DOMAIN add : run.plan[i] = add[i]
  /\ run.state.status = "initialized" /\ \A i \in Ids(run) : run.ws[i] # None
  /\ Reconciled([i \in Ids(run) |-> Facts(run, i)], FALSE)
  /\ UNCHANGED call

\* BUG: what an earlier append staged is taken without a comparison.
StagedFits_Any(plan, s) == TRUE

\* A state file and a plan that an earlier append staged must be this one's.
StagedFits(plan, s) ==
  /\ run.staged.state \in {None, s}
  /\ run.staged.plan \in {None, plan}

Append(add) ==
  LET plan == Overlay(run.plan, add)
      s == InitialState(run, Records(plan))
      rooted == Rooted(run, "append")
      made == Created(rooted, DOMAIN add, plan)
      stated == WithState(made, s)
      planned == WithPlan(stated, plan)
      sealed == Sealed(planned, "append")
  IN  /\ run.active < MaxGens
      /\ DOMAIN add # {} /\ DOMAIN add \cap Ids(run) = {}
      /\ UNCHANGED call
      /\ IF run.staged.sealed
         THEN /\ run.staged.kind = "append" /\ run.staged.current
              /\ run.staged.plan = plan
              /\ run' = Published(run) /\ UNCHANGED kills
         ELSE IF \A i \in DOMAIN add : Creatable(run, i, add[i])
         THEN IF StagedFits(plan, s)
              THEN Perform({rooted} \cup {Created(rooted, S, plan) : S \in SUBSET DOMAIN add}
                             \cup {stated, planned, sealed}, Published(sealed))
              ELSE run' = made /\ UNCHANGED kills
         ELSE \E S \in SUBSET {i \in DOMAIN add : Creatable(run, i, add[i])} :
                run' = Created(rooted, S, plan) /\ UNCHANGED kills

\* BUG: the history has one place per item.
Archive_OnePlace(r, S) ==
  [r EXCEPT !.ws = [i \in Items |-> IF i \in S THEN None ELSE r.ws[i]],
            !.hist = [i \in Items |-> IF i \in S /\ r.ws[i] # None
                                      THEN [r.hist[i] EXCEPT ![2] = r.ws[i]]
                                      ELSE r.hist[i]]]

\* The workspaces of S move to the history of the generation being staged.
Archive(r, S) ==
  [r EXCEPT !.ws = [i \in Items |-> IF i \in S THEN None ELSE r.ws[i]],
            !.hist = [i \in Items |-> IF i \in S /\ r.ws[i] # None
                                      THEN [r.hist[i] EXCEPT ![r.active + 1] = r.ws[i]]
                                      ELSE r.hist[i]]]

\* An exception removes what was created, restores what was archived and
\* removes the generation; a workspace that was found is removed as well.
RolledBack(S) ==
  [run EXCEPT !.ws = [i \in Items |-> IF i \in S THEN None ELSE run.ws[i]]]

Revise(plan) ==
  LET old == run.plan
      added == Records(plan) \ Records(old)
      removed == Records(old) \ Records(plan)
      updated == {i \in Records(old) \cap Records(plan) : old[i] # plan[i]}
      rooted == Rooted(run, "revise")
      stated == WithState(rooted, InitialState(run, Records(plan)))
      planned == WithPlan(stated, plan)
      sealed == Sealed(planned, "revise")
      archived == Archive(sealed, removed \cup updated)
      made == Created(archived, added \cup updated, plan)
  IN  /\ run.active < MaxGens
      /\ plan # old /\ Cardinality({i \in Items : plan[i] # old[i]}) <= MaxChanged
      /\ run.staged.kind = None
      /\ UNCHANGED call
      /\ IF \A i \in added : Creatable(run, i, plan[i])
         THEN Perform({rooted, stated, planned, sealed, made}
                       \cup {Archive(sealed, S) : S \in SUBSET (removed \cup updated)}
                       \cup {Created(archived, S, plan) : S \in SUBSET (added \cup updated)},
                      Published(made))
         ELSE \E S \in SUBSET {i \in added : Creatable(run, i, plan[i])} :
                run' = RolledBack(S) /\ UNCHANGED kills

-----------------------------------------------------------------------------
Additions == UNION {[S -> Texts] : S \in SUBSET Items}
Plans == [Items -> Texts \cup {None}]

Next ==
  \/ \E p \in Callers : Begin(p) \/ Reconcile(p) \/ \E i \in Items : ReadItem(p, i)
  \/ Pause \/ Resume \/ Reopen \/ Replan \/ PublishProducts
  \/ \E i \in Items, o \in Outcomes : Decide(i, o)
  \/ \E i \in Items, m \in Results : Integrate(i, m)
  \/ \E add \in Additions : Append(add) \/ Retried(add)
  \/ \E plan \in Plans : Revise(plan)

Spec == Init /\ [][Next]_vars

\* The autopilot ticks for ever: a caller that has ended begins again, and
\* one of the steps of a call is always possible. Weak fairness of these steps
\* is then the same as their infinite recurrence.
Calls(p) == Begin(p) \/ Reconcile(p) \/ \E i \in Items : ReadItem(p, i)

FairSpec == Spec /\ \A p \in Callers : []<><<Calls(p)>>_call

-----------------------------------------------------------------------------
(* Properties. *)

\* For the reader: the types of the run record, the calls and the counter.
StateType == [ids : SUBSET Items, status : Statuses \cup {"paused"},
              resume : Statuses \cup {None}]
WorkspaceType == [text : Texts, outcome : {None, "accepted", "limited", "failed"},
                  merged : {"pending", "integrated", "failed"}]
StagedType == [kind : {None, "append", "revise"}, current : BOOLEAN,
               state : StateType \cup {None}, plan : Plans \cup {None},
               sealed : BOOLEAN]
RunType == [active : 1 .. MaxGens, state : StateType, plan : Plans, added : SUBSET Items,
            staged : StagedType, ws : [Items -> WorkspaceType \cup {None}],
            hist : [Items -> [2 .. MaxGens -> WorkspaceType \cup {None}]]]
FactsType == [outcome : {None, "accepted", "limited", "failed"},
              merged : {"pending", "integrated", "failed"}]
CallType == {c \in [ids : SUBSET Items, status : Statuses \cup {"paused"},
                    seen : UNION {[S -> FactsType] : S \in SUBSET Items}] :
               DOMAIN c.seen \subseteq c.ids}
\* What is absent is not something that is there.
ASSUME NoneIsNoRecord ==
  None \notin StateType \cup WorkspaceType \cup Plans \cup {"append", "revise"} \cup Outcomes

TypeOK ==
  /\ run \in RunType /\ kills \in 0 .. MaxKills
  /\ call \in [Callers -> CallType \cup {None}]

\* A revision whose process was killed after its manifest was written.
CutShort == run.staged.kind = "revise" /\ run.staged.sealed

\* The pointer names a sealed generation whose state file, plan and item
\* workspaces agree, each workspace asking what the plan asks, whatever
\* appends were staged, killed, refused and retried before
\* (run_extension.py append, revise). A revision that is cut short after its
\* manifest may have moved workspaces already, and is left out.
ActiveIsWhole ==
  /\ Ids(run) = Records(run.plan)
  /\ ~CutShort => \A i \in Ids(run) : /\ run.ws[i] # None
                                      /\ run.ws[i].text = run.plan[i]

Status(r) == IF Paused(r) THEN r.state.resume ELSE r.state.status
Reached(status) == Rank(Status(run)) >= Rank(status)
Replaced(i) == \E o \in 2 .. MaxGens : run.hist[i][o] # None

\* A generation is declared analytically complete only when each of its
\* requirements is concluded, although the items are read outside the lock
\* (reconcile_from_run) and the generation may change in between. A
\* requirement whose workspace a revision has replaced is left out: what was
\* read of the old workspace may stand for the new one.
CompletionIsEarned ==
  ~CutShort /\ Reached("analytical_complete") =>
    \A i \in Ids(run) : Replaced(i) \/ run.ws[i].outcome # None

\* The run becomes integration complete "from objective item/product facts"
\* (lifecycle.py _reconcile_unlocked): only when every accepted item of a
\* generation whose workspaces nobody replaced is integrated, or has failed to.
IntegrationIsEarned ==
  ~CutShort /\ Reached("integration_complete") =>
    \A i \in Ids(run) : Replaced(i) \/ Merged(Facts(run, i))

\* Within a generation the status only goes forward, whatever status the
\* callers' handles were loaded with; reopen alone sets it back to running.
NeverRegresses ==
  [][run'.active = run.active =>
       Rank(Status(run')) >= Rank(Status(run)) \/ Status(run') = "running"]_vars

Kept(r, i) == {<<w.text, w.outcome>> :
                 w \in {v \in {r.ws[i]} \cup {r.hist[i][o] : o \in 2 .. MaxGens} :
                          v # None /\ v.outcome # None}}

\* A conclusion stays in its workspace or in the history: no edit, cut short
\* or not, retried or rolled back, loses one.
NothingLost == [][\A i \in Items : Kept(run, i) \subseteq Kept(run', i)]_vars

Settleable(o) == /\ run.active = o /\ ~Paused(run) /\ ~CutShort
                 /\ \A i \in Ids(run) : run.ws[i] # None /\ run.ws[i].outcome # None
                                        /\ Merged(Facts(run, i))

\* When all items of a generation are concluded and integrated and nobody
\* pauses or edits it any more, it becomes integration complete, wherever in
\* the chain of its state files an earlier reconciliation was killed.
RunSettles ==
  \A o \in 1 .. MaxGens :
    <>[]Settleable(o) => []<>Reached("integration_complete")
=============================================================================
