---------------------------- MODULE DashboardDelta ----------------------------
(***************************************************************************)
(* The product of a generation and its publication:                        *)
(* dashboard_delta_assembler.py.                                           *)
(*                                                                         *)
(* A generation has one directory, `root', with the dashboard and the      *)
(* product manifest; its first publication renames a staged dashboard into *)
(* it, and a later one swaps the whole directory with a copy beside it.    *)
(* Both write an intent first, which the next assembly of the generation   *)
(* (or of the one after it) reads to undo or to finish the publication.    *)
(*                                                                         *)
(* A call of assemble_dashboard_delta is a list of writes, chosen from the *)
(* files as they are when it takes the lock that protects them, and        *)
(* carried out one by one: it may be killed between two. The content of a  *)
(* product is the presentation plan it was made with (a number: a plan may *)
(* only be replaced by a later one) and the parent product it extends.     *)
(*                                                                         *)
(* Of the phases of an intent only the first is told from the others, and  *)
(* so the writes of the later ones are left out.                           *)
(*                                                                         *)
(* A definition named X_... is X with a bug: the properties are checked    *)
(* against it too, and must fail.                                          *)
(***************************************************************************)
EXTENDS Naturals, Sequences, FiniteSets

CONSTANTS Procs,      \* processes that assemble
          MaxPlan,    \* presentation plans, 1 is the planless product
          MaxGens,    \* appended generations                  (bound)
          MaxFaults,  \* kills and failed copies               (bound)
          MaxSwitches, \* pauses and resumptions of the run   (bound)
          None

ASSUME DeltaAssumption ==
  /\ MaxPlan \in Nat \ {0} /\ MaxGens \in Nat \ {0}
  /\ MaxFaults \in Nat /\ MaxSwitches \in Nat
  /\ None \notin Nat

VARIABLES disk,   \* products, intents and run states of the generations
          call,   \* call[p]: the assembly p is in, None: none
          used    \* faults and switches so far

vars == <<disk, call, used>>

Plans == 1 .. MaxPlan
Gens == 1 .. MaxGens
Dir(kind) == [kind |-> kind, dash |-> None, manifest |-> None, parent |-> None]
Gone == Dir("gone")
Empty == Dir("product")
Part == Dir("part")
Product(plan, manifest, parent) ==
  [kind |-> "product", dash |-> plan, manifest |-> manifest, parent |-> parent]
Whole(tree) == /\ tree.kind = "product" /\ tree.dash \in Plans
               /\ tree.manifest = tree.dash

Blank == [root |-> Gone, candidate |-> Gone, backup |-> Gone, swap |-> None,
          staging |-> Gone, first |-> None, saved |-> FALSE,
          state |-> [status |-> "open", resume |-> None, stamp |-> 0]]

\* The run state a generation was appended to, and the product manifest it
\* extends: the product of the first parent is there from the start.
Extended(g) == IF g = 1 THEN 0 ELSE disk.gen[g - 1].root.manifest
Lineage(g) == g = 1 \/ disk.bound[g] = disk.gen[g - 1].state

RunFree == \A p \in Procs : call[p] # None => ~call[p].run
GenFree(g) == \A p \in Procs : call[p] # None => ~(call[p].lock /\ call[p].gen = g)

-----------------------------------------------------------------------------
(* The writes. *)

Stamped(r, status, resume) ==
  [r EXCEPT !.state = [status |-> status, resume |-> resume, stamp |-> disk.clock + 1]]

\* What a write does to the files of the generation it is for.
Effect(w, r, c) ==
  CASE w = "swapIntent" ->
         LET new == Product(c.plan, c.plan, c.parent)
         IN  [r EXCEPT !.swap = [phase |-> "preparing", old |-> r.root, new |-> new]]
    [] w = "copyStarted"  -> [r EXCEPT !.candidate = Part]
    [] w = "copied"       -> [r EXCEPT !.candidate =
                                Product(c.plan, r.root.manifest, c.parent)]
    [] w = "swapPrepared" -> [r EXCEPT !.swap.phase = "prepared"]
    [] w = "manifestTemp" -> [r EXCEPT !.candidate.kind = "torn"]
    [] w = "manifestIn"   -> [r EXCEPT !.candidate = r.swap.new]
    [] w = "aside"        -> [r EXCEPT !.backup = r.root, !.root = Gone]
    [] w = "visible"      -> [r EXCEPT !.root = r.candidate, !.candidate = Gone]
    [] w = "restore"      -> [r EXCEPT !.root = r.backup, !.backup = Gone]
    [] w = "dropCandidate" -> [r EXCEPT !.candidate = Gone]
    [] w = "dropBackup"   -> [r EXCEPT !.backup = Gone]
    [] w = "dropSwap"     -> [r EXCEPT !.swap = None]
    [] w = "complete"     -> IF r.state.status = "open"
                             THEN Stamped(r, "complete", None) ELSE r
    [] w = "save"         -> [r EXCEPT !.saved = TRUE]
    [] w = "firstIntent"  ->
         [r EXCEPT !.first = [phase |-> "preparing", plan |-> c.plan,
                              old |-> r.state, new |-> None, manifest |-> None]]
    [] w = "stageStarted" -> [r EXCEPT !.staging = Part]
    [] w = "staged"       -> [r EXCEPT !.staging = Product(c.plan, None, c.parent)]
    [] w = "firstPrepared" -> [r EXCEPT !.first.phase = "prepared"]
    [] w = "published"    -> [r EXCEPT !.root = r.staging, !.staging = Gone]
    [] w = "firstState"   -> [r EXCEPT !.first.new = r.state]
    [] w = "firstManifest" -> [r EXCEPT !.first.manifest = r.root.dash]
    [] w = "manifest"     -> [r EXCEPT !.root.manifest = r.root.dash]
    [] w = "dropStaging"  -> [r EXCEPT !.staging = Gone]
    [] w = "oldState"     -> [r EXCEPT !.state = r.first.old]
    [] w = "dropSaved"    -> [r EXCEPT !.saved = FALSE]
    [] w = "dropFirst"    -> [r EXCEPT !.first = None]

\* What a write needs to find, or the call fails: a directory takes the place
\* of another only if that one is empty (a lock marker fills it), and a
\* rolled back run state must still be the old one when it is committed.
Possible(w, r) ==
  CASE w = "refuse"    -> FALSE
    [] w = "swapIntent" -> r.swap = None
    [] w = "save"      -> ~r.saved /\ r.first = None
    [] w = "aside"     -> r.root = r.swap.old /\ r.candidate = r.swap.new
    [] w \in {"visible", "restore"} -> r.root = Gone
    [] w = "dropSaved" -> r.first.new # None \/ r.state = r.first.old
    [] OTHER           -> TRUE

-----------------------------------------------------------------------------
(* The swap of a whole product (dashboard.generation_product_transaction). *)

PreManifest(swap) == [swap.new EXCEPT !.manifest = swap.old.manifest]

Publish == <<"aside", "visible">>
Replace == <<"swapIntent", "copyStarted", "copied", "swapPrepared", "manifestTemp",
             "manifestIn", "aside", "visible">>

\* _finish_generation_product_transaction, after its look at the pointer.
Finish(r) ==
  IF r.root # r.swap.new THEN <<"refuse">>
  ELSE <<"complete">> \o
       (IF r.candidate \in {Gone, r.swap.new} /\ r.backup \in {Gone, r.swap.old}
        THEN <<"dropCandidate", "dropBackup", "dropSwap">> ELSE <<"refuse">>)

\* BUG: the old directory is dropped where it should be put back.
Recover_Back(r) ==
  IF r.swap = None THEN <<>>
  ELSE IF r.root = r.swap.new THEN <<"dropCandidate">>
  ELSE <<"dropCandidate", "dropSwap", "dropBackup">>
\* BUG: an interrupted copy is refused.
Recover_NoPartial(r) ==
  IF r.swap = None THEN <<>>
  ELSE IF r.root = r.swap.new THEN <<"dropCandidate">>
  ELSE IF r.root = r.swap.old /\ r.candidate = r.swap.new /\ r.backup = Gone THEN Publish
  ELSE IF r.root = Gone /\ r.candidate = r.swap.new THEN <<"visible">>
  ELSE <<"refuse">>

\* _recover_generation_product_transaction: what the active generation does
\* with a swap it finds.
Recover(r) ==
  LET s == r.swap
      candidateOk == r.candidate = s.new
  IN  CASE s = None -> <<>>
        [] s # None /\ s.phase = "preparing" ->
             IF r.root = s.old THEN <<"dropCandidate", "dropSwap">> ELSE <<"refuse">>
        [] s # None /\ s.phase # "preparing" ->
             CASE r.root = s.old /\ candidateOk /\ r.backup = Gone -> Publish
               [] r.root = Gone /\ r.backup = s.old /\ candidateOk ->
                    <<"visible">>
               [] r.root = s.new /\ r.backup \in {Gone, s.old} ->
                    IF candidateOk \/ r.candidate = Gone
                    THEN <<"dropCandidate">> ELSE <<"refuse">>
               [] r.backup = s.old /\ r.root \in {Gone, s.old}
                  /\ (r.root = Gone => ~candidateOk) ->
                    LET rest == IF candidateOk \/ r.candidate = Gone
                                THEN <<"dropCandidate", "dropSwap", "dropBackup">>
                                ELSE <<"refuse">>
                    IN  IF r.root = Gone THEN <<"restore">> \o rest ELSE rest
               [] r.root = s.old /\ r.candidate \in {PreManifest(s), s.old}
                  /\ r.backup = Gone -> <<"dropCandidate", "dropSwap">>
               [] OTHER -> <<"refuse">>

\* _next_generation_binds_published_product
Adopted(g) ==
  /\ disk.active = g + 1 /\ Lineage(g + 1)
  /\ disk.gen[g + 1].root.manifest # None
  /\ disk.gen[g + 1].root.parent = disk.gen[g].root.manifest

\* _abort_inactive_generation_product_transaction: what is done with the swap
\* of a generation that is not active any more.
Abort(g) ==
  LET r == disk.gen[g]
      s == r.swap
      proven == r.candidate \in {Gone, s.new, PreManifest(s), s.old}
      bounded == r.backup \in {Gone, s.old}
  IN  CASE s = None -> <<>>
        [] s # None /\ s.phase = "preparing" ->
             IF r.root # s.old THEN <<"refuse">>
             ELSE IF r.backup # Gone THEN <<"dropCandidate", "refuse">>
             ELSE <<"dropCandidate", "dropSwap">>
        [] s # None /\ s.phase # "preparing" ->
             CASE r.root = s.old \/ (r.root = s.new /\ Adopted(g)) ->
                    IF ~proven THEN <<"refuse">>
                    ELSE IF ~bounded THEN <<"dropCandidate", "refuse">>
                    ELSE <<"dropCandidate", "dropBackup", "dropSwap">>
               [] r.root = Gone /\ r.backup = s.old ->
                    <<"restore">> \o (IF proven THEN <<"dropCandidate", "dropSwap">>
                                      ELSE <<"refuse">>)
               [] /\ r.root = s.new /\ ~Adopted(g)
                  /\ disk.gen[disk.active].root.manifest = None -> <<>>
               [] OTHER -> <<"refuse">>

\* _reconcile_immediate_parent_transaction_locked
ReconcileParent(g) ==
  IF g = 1 \/ disk.gen[g - 1].swap = None THEN <<>>
  ELSE IF Lineage(g) THEN Abort(g - 1) ELSE <<"refuse">>

-----------------------------------------------------------------------------
(* The first publication (dashboard.generation_transaction). *)

FirstStage == <<"save", "firstIntent", "stageStarted", "staged", "firstPrepared",
                "published">>

\* BUG: the intent is removed before the manifest is written.
FinishFirst_Early(r) ==
  <<"complete", "firstState", "firstManifest", "dropSaved", "dropFirst", "manifest">>

\* _finish_generation_transaction and _commit_generation_transaction.
FinishFirst(r) ==
  LET f == r.first
      reconciled == f.new # None /\ r.state = f.new
      commit == IF f.manifest # None /\ r.root.manifest = f.manifest
                THEN <<"dropSaved", "dropFirst">>
                ELSE <<"firstManifest", "manifest", "dropSaved", "dropFirst">>
  IN  IF reconciled THEN commit
      ELSE IF r.state = f.old THEN <<"complete">> \o (<<"firstState">> \o commit)
      ELSE <<"refuse">>

\* _restore_generation_transaction: back to no dashboard and the old state.
RestoreFirst(r) ==
  <<"dropStaging">> \o
  (IF r.saved THEN <<"oldState", "dropSaved", "dropFirst">> ELSE <<"refuse">>)

\* _recover_generation_transaction; it runs outside the run lock.
RecoverFirst(r) ==
  LET f == r.first
      published == r.root.dash = f.plan
  IN  CASE f = None -> <<>>
        [] f # None /\ f.phase = "preparing" ->
             IF r.root = Empty THEN RestoreFirst(r) ELSE <<"refuse">>
        [] f # None /\ f.phase # "preparing" ->
             IF published THEN <<>> ELSE RestoreFirst(r)

-----------------------------------------------------------------------------
(* A call of assemble_dashboard_delta. *)

Idle(p) == call' = [call EXCEPT ![p] = None]

\* p goes on with the writes `todo' to the product of `target', then with `at'.
Does(p, c, target, todo, run, at) ==
  call' = [call EXCEPT ![p] =
             [c EXCEPT !.target = target, !.todo = todo, !.run = run, !.at = at]]

NewCall(p, plan) == [gen |-> disk.active, plan |-> plan, parent |-> 0, lock |-> FALSE,
                     run |-> FALSE, target |-> 1, todo |-> <<>>, at |-> "enter",
                     swapping |-> FALSE]

\* The pointer is read and the swap of the parent settled, under the run lock.
Start(p, plan) ==
  /\ RunFree
  /\ LET g == disk.active
         todo == ReconcileParent(g)
     IN  Does(p, NewCall(p, plan), IF todo = <<>> THEN g ELSE g - 1, todo,
              todo # <<>>, "enter")
  /\ UNCHANGED <<disk, used>>

Begin(p, plan) == call[p] = None /\ Start(p, plan)
At(p, at) == call[p] # None /\ call[p].at = at /\ call[p].todo = <<>> /\ ~call[p].run

\* One write, in the order of the list; the last gives the run lock back
\* unless the publication goes on under it.
Write(p) ==
  /\ call[p] # None /\ call[p].todo # <<>>
  /\ LET c == call[p]
         w == Head(c.todo)
         r == disk.gen[c.target]
     IN  IF Possible(w, r)
         THEN /\ disk' = [disk EXCEPT !.gen[c.target] = Effect(w, r, c),
                            !.clock = IF w = "complete" /\ r.state.status = "open"
                                      THEN @ + 1 ELSE @]
              /\ LET held == c.at \in {"finish", "parent"}
                 IN  IF Len(c.todo) = 1 /\ c.at = "done" THEN Idle(p)
                     ELSE Does(p, c, c.target, Tail(c.todo),
                               c.run /\ (Len(c.todo) > 1 \/ held), c.at)
         ELSE Idle(p) /\ UNCHANGED disk
  /\ UNCHANGED used

\* _generation_lock before the lock is taken: the directory is made unless an
\* intent explains why it is missing.
Enter(p) ==
  /\ At(p, "enter")
  /\ LET c == call[p]
         missing == disk.gen[c.gen].swap # None /\ disk.gen[c.gen].root = Gone
     IN  Does(p, c, c.target, <<>>, FALSE, IF missing THEN "lock" ELSE "mkdir")
  /\ UNCHANGED <<disk, used>>

\* It is made where it was seen missing some time ago, and marked.
MakeRoot(p) ==
  /\ At(p, "mkdir")
  /\ LET c == call[p] IN
     /\ disk' = [disk EXCEPT !.gen[c.gen].root = IF @ = Gone THEN Empty ELSE @]
     /\ Does(p, c, c.target, <<>>, FALSE, "lock")
  /\ UNCHANGED used

\* The generation lock; a pointer that moved meanwhile sends p back, after
\* the swap of the generation it was for is settled.
Lock(p) ==
  /\ At(p, "lock") /\ GenFree(call[p].gen)
  /\ LET c == [call[p] EXCEPT !.lock = TRUE] IN
     IF disk.active = c.gen THEN Does(p, c, c.gen, <<>>, FALSE, "recover")
     ELSE /\ RunFree
          /\ LET todo == IF Lineage(disk.active) THEN Abort(c.gen) ELSE <<"refuse">>
             IN  Does(p, c, c.gen, todo, todo # <<>>, "again")
  /\ UNCHANGED <<disk, used>>

Again(p) ==
  /\ At(p, "again")
  /\ Start(p, call[p].plan)

\* The inputs are read, then a swap is recovered under the run lock.
RecoverSwap(p) ==
  /\ At(p, "recover") /\ RunFree
  /\ LET c == [call[p] EXCEPT !.parent = Extended(call[p].gen)]
         r == disk.gen[c.gen]
         todo == IF disk.active = c.gen THEN Recover(r) ELSE Abort(c.gen)
         last == todo # <<>> /\ \E k \in DOMAIN todo : todo[k] = "dropSwap"
     IN  IF c.parent = None \/ ~Lineage(c.gen) THEN Idle(p)
         ELSE Does(p, [c EXCEPT !.swapping = r.swap # None /\ ~last], c.gen, todo,
                   todo # <<>>,
                   IF disk.active # c.gen THEN "again"
                   ELSE IF r.swap # None /\ ~last THEN "inspect" ELSE "first")
  /\ UNCHANGED <<disk, used>>

\* A first publication is recovered under the generation lock only.
RecoverFirstStep(p) ==
  /\ At(p, "first")
  /\ LET c == call[p] IN
     Does(p, c, c.gen, RecoverFirst(disk.gen[c.gen]), FALSE, "inspect")
  /\ UNCHANGED <<disk, used>>

\* What is visible is compared with what is asked for, and a publication that
\* was interrupted is finished instead, if the generation is still active.
Inspect(p) ==
  /\ At(p, "inspect")
  /\ LET c == call[p]
         r == disk.gen[c.gen]
         fits == r.root.dash \in Plans /\ r.root.dash <= c.plan /\ r.root.parent = c.parent
         pending == r.first # None \/ c.swapping
     IN  CASE r.root = Empty -> Does(p, c, c.gen, <<>>, FALSE, "publish")
           [] r.root # Empty /\ ~fits -> Idle(p)
           [] fits /\ pending ->
                /\ RunFree
                /\ IF disk.active # c.gen THEN Does(p, c, c.gen, <<>>, FALSE, "again")
                   ELSE Does(p, c, c.gen,
                             IF ~c.swapping THEN FinishFirst(r)
                             ELSE IF r.swap # None THEN Finish(r) ELSE <<"refuse">>,
                             TRUE, "done")
           [] fits /\ ~pending ->
                IF r.root.manifest = None THEN Idle(p)
                ELSE Does(p, c, c.gen, <<>>, FALSE, "publish")
  /\ UNCHANGED <<disk, used>>

\* BUG: the pointer is not read again under the run lock.
PublishStep_Stale(p) ==
  /\ At(p, "publish") /\ RunFree
  /\ LET c == call[p]
         r == disk.gen[c.gen]
     IN  IF r.root.dash = c.plan THEN Idle(p)
         ELSE Does(p, c, c.gen, IF r.root = Empty THEN FirstStage ELSE Replace,
                   TRUE, "finish")
  /\ UNCHANGED <<disk, used>>

\* The publication, under the run lock to its end: a retry of what is there
\* changes nothing, a product is replaced by a swap, the first one published.
PublishStep(p) ==
  /\ At(p, "publish") /\ RunFree
  /\ LET c == call[p]
         r == disk.gen[c.gen]
     IN  IF disk.active # c.gen THEN Does(p, c, c.gen, <<>>, FALSE, "again")
         ELSE IF r.root.dash = c.plan THEN Idle(p)
         ELSE IF r.root = Empty THEN Does(p, c, c.gen, FirstStage, TRUE, "finish")
         ELSE Does(p, c, c.gen, Replace, TRUE, "finish")
  /\ UNCHANGED <<disk, used>>

Held(p, at) == call[p] # None /\ call[p].at = at /\ call[p].todo = <<>> /\ call[p].run

FinishStep(p) ==
  /\ Held(p, "finish")
  /\ LET c == call[p]
         r == disk.gen[c.gen]
     IN  Does(p, c, c.gen, IF r.first # None THEN FinishFirst(r) ELSE Finish(r), TRUE,
              "parent")
  /\ UNCHANGED <<disk, used>>

\* The new product may be the first to hold its parent's manifest.
ParentStep(p) ==
  /\ Held(p, "parent")
  /\ LET c == call[p]
         todo == ReconcileParent(c.gen)
     IN  IF todo = <<>> THEN Idle(p) ELSE Does(p, c, c.gen - 1, todo, TRUE, "done")
  /\ UNCHANGED <<disk, used>>

Step(p) ==
  \/ Write(p) \/ Enter(p) \/ MakeRoot(p) \/ Lock(p) \/ Again(p) \/ RecoverSwap(p)
  \/ RecoverFirstStep(p) \/ Inspect(p) \/ PublishStep(p) \/ FinishStep(p) \/ ParentStep(p)

-----------------------------------------------------------------------------
(* The rest of the run. *)

\* A directory is removed file by file (shutil.rmtree): half of it is left.
Halved(w, r) ==
  CASE w = "dropCandidate" /\ r.candidate # Gone -> [r EXCEPT !.candidate = Part]
    [] w = "dropBackup" /\ r.backup # Gone       -> [r EXCEPT !.backup = Part]
    [] w = "dropStaging" /\ r.staging # Gone     -> [r EXCEPT !.staging = Part]
    [] OTHER                                      -> r

\* Between two writes, or inside a removal.
Kill(p) ==
  /\ call[p] # None /\ used.faults < MaxFaults
  /\ Idle(p) /\ used' = [used EXCEPT !.faults = @ + 1]
  /\ \/ UNCHANGED disk
     \/ /\ call[p].todo # <<>>
        /\ LET c == call[p]
           IN  disk' = [disk EXCEPT !.gen[c.target] = Halved(Head(c.todo), @)]

\* A copy fails: the handler takes away what was copied and the intent, of a
\* first publication not what was saved.
CopyFails(p) ==
  /\ call[p] # None /\ used.faults < MaxFaults
  /\ call[p].todo # <<>>
  /\ LET c == call[p]
         undo == CASE Head(c.todo) = "copied" -> <<"dropCandidate", "dropSwap", "refuse">>
                   [] Head(c.todo) = "staged" -> <<"dropStaging", "dropFirst", "refuse">>
                   [] OTHER -> <<>>
     IN  undo # <<>> /\ Does(p, c, c.target, undo, TRUE, "done")
  /\ used' = [used EXCEPT !.faults = @ + 1]
  /\ UNCHANGED disk

\* RequirementRunExtension.append: a new generation takes the pointer.
NewGeneration ==
  /\ RunFree /\ disk.active < MaxGens
  /\ disk' = [disk EXCEPT !.active = @ + 1,
                !.bound[disk.active + 1] = disk.gen[disk.active].state]
  /\ UNCHANGED <<call, used>>

\* RunLifecycle.pause and resume.
Switch ==
  /\ RunFree /\ used.switches < MaxSwitches
  /\ LET r == disk.gen[disk.active] IN
     disk' = [disk EXCEPT !.clock = @ + 1,
                !.gen[disk.active] = IF r.state.status = "paused"
                                     THEN Stamped(r, r.state.resume, None)
                                     ELSE Stamped(r, "paused", r.state.status)]
  /\ used' = [used EXCEPT !.switches = @ + 1]
  /\ UNCHANGED call

\* A generation was appended and has no product yet.
Init ==
  /\ disk = [active |-> 1, clock |-> 0, gen |-> [g \in Gens |-> Blank],
             bound |-> [g \in Gens |-> None]]
  /\ call = [p \in Procs |-> None]
  /\ used = [faults |-> 0, switches |-> 0]

Next ==
  \/ \E p \in Procs : \/ \E plan \in Plans : Begin(p, plan)
                      \/ Step(p) \/ Kill(p) \/ CopyFails(p)
  \/ NewGeneration \/ Switch

Spec == Init /\ [][Next]_vars

\* A call that is not killed goes on, and the publication of the latest plan is
\* called for again and again.
FairSpec ==
  /\ Spec
  /\ \A p \in Procs : WF_vars(Step(p))
  /\ SF_vars(\E p \in Procs : Begin(p, MaxPlan))

-----------------------------------------------------------------------------
(* Properties. *)

Writes == {"swapIntent", "copyStarted", "copied", "swapPrepared", "manifestTemp",
           "manifestIn", "aside", "visible", "restore", "dropCandidate", "dropBackup",
           "dropSwap", "complete", "save", "firstIntent", "stageStarted", "staged",
           "firstPrepared", "published", "firstState", "firstManifest", "manifest",
           "dropStaging", "oldState", "dropSaved", "dropFirst", "refuse"}
Ats == {"enter", "mkdir", "lock", "again", "recover", "first", "inspect", "publish",
        "finish", "parent", "done"}
Phases == {"preparing", "prepared"}
Trees == [kind : {"gone", "part", "torn", "product"}, dash : Plans \cup {None},
          manifest : Plans \cup {None}, parent : Nat \cup {None}]
States == [status : {"open", "complete"}, resume : {None}, stamp : Nat]
          \cup [status : {"paused"}, resume : {"open", "complete"}, stamp : Nat]
Swaps == [phase : Phases, old : Trees, new : Trees]
Firsts == [phase : Phases, plan : Plans, old : States, new : States \cup {None},
           manifest : Plans \cup {None}]
Generations == [root : Trees, candidate : Trees, backup : Trees, swap : Swaps \cup {None},
                staging : Trees, first : Firsts \cup {None}, saved : BOOLEAN, state : States]
Calls == [gen : Gens, plan : Plans, parent : Nat \cup {None}, lock : BOOLEAN, run : BOOLEAN,
          target : Gens, todo : Seq(Writes), at : Ats, swapping : BOOLEAN]

\* An absent intent is not a present one.
ASSUME NoneIsNoRecord == None \notin Swaps \cup Firsts \cup Calls

\* For the reader: the types of the state.
TypeOK ==
  /\ disk \in [active : Gens, clock : Nat, gen : [Gens -> Generations],
               bound : [Gens -> States \cup {None}]]
  /\ call \in [Procs -> Calls \cup {None}]
  /\ used \in [faults : 0 .. MaxFaults, switches : 0 .. MaxSwitches]

\* A reader of the product directory finds a dashboard with the manifest that
\* was written for it, no dashboard, or no directory, whenever a publication
\* was killed; without the manifest only while a first publication is recorded
\* (dashboard_delta_assembler.py: _publish_generation_product_transaction).
VisibleIsWhole ==
  \A g \in Gens : LET r == disk.gen[g] IN
    r.root \in {Gone, Empty} \/ Whole(r.root) \/ (r.first # None /\ r.root.dash = r.first.plan)

\* A published product only ever makes way for a later one: it is moved aside
\* and then put back or replaced, also by an assembly that finds an intent of
\* another one, or of a generation that lost the pointer meanwhile.
ProductIsKept ==
  [][\A g \in Gens :
       LET r == disk.gen[g]
           s == disk.gen[g]'
       IN  /\ Whole(r.root) => \/ s.root = r.root
                               \/ s.root = Gone /\ s.backup = r.root
           /\ Whole(r.backup) /\ ~Whole(r.root) =>
                \/ s.backup = r.backup /\ (Whole(s.root) => s.root.dash > r.backup.dash)
                \/ s.root = r.backup]_vars

\* The product of a published generation stands on the visible product of the
\* one before: a swap that was interrupted there is never undone once the
\* next generation binds its manifest (_next_generation_binds_published_product).
AdoptedStays ==
  \A g \in Gens \ {1} : LET r == disk.gen[g] IN
    r.root.dash # None =>
      /\ Whole(disk.gen[g - 1].root)
      /\ disk.gen[g - 1].root.manifest = r.root.parent

\* Where recovery refuses for ever: the manifest was being written into the
\* candidate; the candidate or the backup was being removed; a second assembly
\* made the directory anew between the renames; recovery was killed between
\* taking away the candidate and the intent.
Unproven(r) ==
  \/ r.candidate.kind = "torn"
  \/ r.candidate = Part /\ r.swap.phase = "prepared"
  \/ r.backup = Part
  \/ r.root = Empty
  \/ r.swap.phase = "prepared" /\ r.candidate = Gone /\ r.root = r.swap.old

\* The new product is visible and its generation waits to be bound by the next.
Waiting(g) ==
  /\ disk.active > g /\ disk.gen[g].root = disk.gen[g].swap.new
  /\ disk.gen[g + 1].root.manifest = None

\* If calls are retried, an interrupted swap is finished or undone, by the
\* generation itself or, when it lost the pointer, by the next one, but for
\* the states named above (assemble_dashboard_delta).
SwapSettles ==
  \A g \in Gens : []<>(\/ disk.gen[g].swap = None
                       \/ disk.gen[g].swap # None /\ (Unproven(disk.gen[g]) \/ Waiting(g)))
=============================================================================
