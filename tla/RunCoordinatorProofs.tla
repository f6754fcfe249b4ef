------------------------ MODULE RunCoordinatorProofs ------------------------
(* Proofs about RunCoordinator, for any instances, slots, scopes and lists. *)
EXTENDS RunCoordinator, FiniteSetTheorems, TLAPS

USE DEF queue, durable, call

\* What every way out of a refresh does to the caller: it leaves the section
\* with no completion in hand and goes on waiting, returns or queries again.
Left(r) ==
  /\ pc' \in {[pc EXCEPT ![r] = w] : w \in {"await", "idle", "query"}}
  /\ done' = [done EXCEPT ![r] = NoSlot]
  /\ mode' \in [Runner -> {"step", "run"}]
  /\ blocked' \in [Runner -> SUBSET Slot]
  /\ tries' \in [Runner -> [Slot -> 0 .. MaxRetries]]

LEMMA Refreshed ==
  ASSUME TypeOK, NEW r \in Runner, NEW ACTION outcome, NEW ACTION fut, NEW ACTION same,
         AfterRefresh(r, outcome, fut, same)
  PROVE  Left(r)
<1>1. CASE /\ done[r] = NoSlot /\ outcome # "complete" /\ fut # {}
           /\ pc' = [pc EXCEPT ![r] = "await"]
           /\ UNCHANGED call
  <2>1. done = [done EXCEPT ![r] = NoSlot]
    BY <1>1 DEF TypeOK
  <2> QED BY <1>1, <2>1 DEF TypeOK, Left
<1>2. CASE Return(r)
  <2>1. NoTries \in [Slot -> 0 .. MaxRetries]
    BY RetryType DEF NoTries
  <2> QED BY <1>2, <2>1 DEF TypeOK, Return, Left
<1>3. CASE /\ done[r] # NoSlot
           /\ pc' = [pc EXCEPT ![r] = "query"]
           /\ UNCHANGED mode
           /\ done' = [done EXCEPT ![r] = NoSlot]
           /\ blocked' = [blocked EXCEPT ![r] = NextBlocked(r, done[r], same)]
           /\ tries' = [tries EXCEPT ![r] = NextTries(r, done[r], same)]
  <2>1. done[r] \in Slot
    BY <1>3 DEF TypeOK
  <2>2. NextBlocked(r, done[r], same) \in SUBSET Slot
    BY <2>1 DEF NextBlocked, TypeOK
  <2>3. NextTries(r, done[r], same) \in [Slot -> 0 .. MaxRetries]
    BY <2>1, RetryType DEF NextTries, TypeOK
  <2> QED BY <1>3, <2>2, <2>3 DEF TypeOK, Left
<1> QED BY <1>1, <1>2, <1>3 DEF AfterRefresh

\* What remains of the state when instances die.
LEMMA Forgotten ==
  ASSUME TypeOK, NEW gone \in SUBSET Runner, Forget(gone)
  PROVE  /\ pc' \in [Runner -> {"unborn", "idle", "start", "query", "error", "reconcile",
                        "prune", "claim", "admit", "await", "dead"}]
         /\ mode' \in [Runner -> {"step", "run"}]
         /\ done' \in [Runner -> Slot \cup {NoSlot}]
         /\ seen' \in [Runner -> SUBSET Slot]
         /\ pend' \in [Runner -> SUBSET Slot]
         /\ futures' \in [Runner -> SUBSET Slot]
         /\ blocked' \in [Runner -> SUBSET Slot]
         /\ tries' \in [Runner -> [Slot -> 0 .. MaxRetries]]
         /\ UNCHANGED durable
<1>1. NoTries \in [Slot -> 0 .. MaxRetries]
  BY RetryType DEF NoTries
<1> QED BY <1>1 DEF TypeOK, Forget

LEMMA TypeInit == Init => TypeOK
<1> SUFFICES ASSUME Init PROVE TypeOK
  OBVIOUS
<1>1. NoTries \in [Slot -> 0 .. MaxRetries]
  BY RetryType DEF NoTries
<1>2. active \in SUBSET Slot /\ before \in SUBSET (active \X active)
  BY ImportedType DEF Init, StrictOrder
<1>3. mixed \in SUBSET active
  BY DEF Init, Mixed
<1> QED BY <1>1, <1>2, <1>3 DEF Init, TypeOK

LEMMA TypeStep == TypeOK /\ [Next]_vars => TypeOK'
<1> SUFFICES ASSUME TypeOK, [Next]_vars PROVE TypeOK'
  OBVIOUS
<1>1. ASSUME NEW r \in Runner, RunnerStep(r) PROVE TypeOK'
  <2>1. CASE Spawn(r) BY <2>1 DEF Spawn, TypeOK
  <2>2. CASE WriteSpec(r) BY <2>2 DEF WriteSpec, TypeOK
  <2>3. CASE RunStarted(r) BY <2>3 DEF RunStarted, TypeOK
  <2>4. CASE \E m \in {"step", "run"} : Call(r, m) BY <2>4 DEF Call, TypeOK
  <2>5. CASE StopAtBudget(r)
    <3>1. NoTries \in [Slot -> 0 .. MaxRetries]
      BY RetryType DEF NoTries
    <3> QED BY <2>5, <3>1 DEF StopAtBudget, Return, TypeOK
  <2>6. CASE \E offered \in SUBSET Slot : QueryPlanner(r, offered)
    BY <2>6 DEF QueryPlanner, TypeOK
  <2>7. CASE PlannerRaises(r) BY <2>7 DEF PlannerRaises, TypeOK
  <2>8. CASE RecordPlannerError(r)
    <3>1. Left(r) BY <2>8, Refreshed DEF RecordPlannerError
    <3> QED BY <2>8, <3>1 DEF RecordPlannerError, Left, TypeOK
  <2>9. CASE Reconcile(r) BY <2>9 DEF Reconcile, Drop, TypeOK
  <2>10. CASE PruneUnoffered(r) BY <2>10 DEF PruneUnoffered, Drop, TypeOK
  <2>11. CASE ClaimPersisted(r)
    <3>1. \A passed \in SUBSET active : Adoptable(r, passed) \in SUBSET Slot
      BY DEF Adoptable, TypeOK
    <3> QED BY <2>11, <3>1 DEF ClaimPersisted, TypeOK
  <2>12. CASE \E s \in Slot : Admit(r, s) BY <2>12 DEF Admit, AppendEntry, TypeOK
  <2>13. CASE LaunchPending(r)
    <3>1. Left(r) BY <2>13, Refreshed DEF LaunchPending
    <3> QED BY <2>13, <3>1 DEF LaunchPending, Left, TypeOK
  <2>14. CASE \E terminal \in BOOLEAN : Settle(r, terminal)
    <3>1. Left(r) BY <2>14, Refreshed DEF Settle
    <3>2. status' \in {"waiting", "complete"} BY <2>14 DEF Settle
    <3>3. published' \in BOOLEAN BY <2>14, Zenon DEF Settle, TypeOK
    <3>4. /\ lock' = NoRunner /\ seen' = [seen EXCEPT ![r] = {}]
          /\ UNCHANGED <<spec, started, queue, pend, futures, proc>>
      BY <2>14 DEF Settle
    <3> QED BY <3>1, <3>2, <3>3, <3>4 DEF Left, TypeOK
  <2>15. CASE \E s \in Slot : RoleEnds(r, s) BY <2>15 DEF RoleEnds, TypeOK
  <2>16. CASE \E s \in Slot : Consume(r, s) BY <2>16 DEF Consume, TypeOK
  <2>17. CASE Reopen(r) BY <2>17 DEF Reopen, TypeOK
  <2>18. CASE SectionFails(r)
    <3>1. NoTries \in [Slot -> 0 .. MaxRetries]
      BY RetryType DEF NoTries
    <3> QED BY <2>18, <3>1 DEF SectionFails, Return, TypeOK
  <2> QED BY <1>1, <2>1, <2>2, <2>3, <2>4, <2>5, <2>6, <2>7, <2>8, <2>9, <2>10,
             <2>11, <2>12, <2>13, <2>14, <2>15, <2>16, <2>17, <2>18 DEF RunnerStep, Works
<1>2. ASSUME NEW p \in Pid, Crash(p) PROVE TypeOK'
  <2>1. InProcess(p) \in SUBSET Runner
    BY DEF InProcess
  <2>2. Forget(InProcess(p))
    BY <1>2 DEF Crash
  <2>3. lock' \in Runner \cup {NoRunner} /\ proc' \in SUBSET (Runner \X Slot)
    BY <1>2 DEF Crash, TypeOK
  <2> QED BY <2>1, <2>2, <2>3, Forgotten DEF TypeOK
<1>3. ASSUME NEW p \in Pid, Exit(p) PROVE TypeOK'
  <2>1. InProcess(p) \in SUBSET Runner
    BY DEF InProcess
  <2> QED BY <1>3, <2>1, Forgotten DEF Exit, TypeOK
<1>4. CASE UNCHANGED vars BY <1>4 DEF vars, TypeOK
<1> QED BY <1>1, <1>2, <1>3, <1>4 DEF Next

\* Every variable of the coordinators keeps its type.
THEOREM TypeCorrect == Spec => []TypeOK
BY TypeInit, TypeStep, PTL DEF Spec

-----------------------------------------------------------------------------
(* The inductive invariant.                                                *)

\* A claim of an instance that is alive is the claim of a process that is.
LEMMA LiveClaim ==
  ASSUME NEW r \in Runner, NEW s, claim[s] = r, Live(r)
  PROVE  Claimed(s)
BY NullValues DEF Claimed, PidAlive

LEMMA Symmetric == \A a, b : Conflicts(a, b) => Conflicts(b, a) /\ a # b
BY DEF Conflicts

\* What competes with a mixed entry of a list is mixed: entries that compete in
\* two scopes make everything that competes with them do so.
LEMMA MixedWhole ==
  ASSUME NEW list, NEW a \in Mixed(list), NEW b \in list, Conflicts(b, a)
  PROVE  b \in Mixed(list)
<1>1. ASSUME NEW x \in list, NEW y \in list, NEW z \in list, Chain(x, y, z)
      PROVE  {x, y, z} \subseteq Mixed(list)
  BY <1>1 DEF Mixed
<1>2. PICK x \in list, y \in list, z \in list : Chain(x, y, z) /\ a \in {x, y, z}
  BY DEF Mixed
<1>3. \A u, v, w : Chain(u, v, w) <=>
        Conflicts(u, v) /\ Conflicts(v, w) /\ u # w /\ ~Conflicts(u, w)
  BY DEF Chain
<1>4. a \in list
  BY <1>2
<1>5. ASSUME NEW v \in list, NEW w \in list, Chain(a, v, w)
      PROVE  b \in Mixed(list)
  <2>1. CASE b = v
    BY <1>1, <1>4, <1>5, <2>1
  <2>2. CASE b # v /\ ~Conflicts(b, v)
    <3>1. Chain(b, a, v)
      BY <1>3, <1>5, <2>2
    <3> QED BY <1>1, <1>4, <3>1
  <2>3. CASE Conflicts(b, v) /\ Conflicts(b, w)
    <3>1. Chain(a, b, w)
      BY <1>3, <1>5, <2>3, Symmetric
    <3> QED BY <1>1, <1>4, <3>1
  <2>4. CASE Conflicts(b, v) /\ ~Conflicts(b, w)
    <3>1. b # w
      BY <1>3, <1>5, Symmetric
    <3>2. Chain(b, v, w)
      BY <1>3, <1>5, <2>4, <3>1
    <3> QED BY <1>1, <3>2
  <2> QED BY <2>1, <2>2, <2>3, <2>4
<1>6. CASE a = x
  BY <1>2, <1>5, <1>6
<1>7. CASE a = z
  <2>1. Chain(a, y, x)
    BY <1>2, <1>3, <1>7, Symmetric
  <2> QED BY <1>5, <2>1
<1>8. CASE a = y
  <2>1. Conflicts(x, a) /\ Conflicts(a, z) /\ x # z /\ ~Conflicts(x, z)
    BY <1>2, <1>3, <1>8
  <2>2. CASE b \in {x, z}
    BY <1>1, <1>2, <2>2
  <2>3. CASE b # x /\ ~Conflicts(b, x)
    <3>1. Chain(b, a, x)
      BY <1>3, <2>1, <2>3, Symmetric
    <3> QED BY <1>1, <1>4, <3>1
  <2>4. CASE b # z /\ ~Conflicts(b, z)
    <3>1. Chain(b, a, z)
      BY <1>3, <2>1, <2>4, Symmetric
    <3> QED BY <1>1, <1>4, <3>1
  <2>5. CASE Conflicts(b, x) /\ Conflicts(b, z)
    <3>1. Chain(x, b, z)
      BY <1>3, <2>1, <2>5, Symmetric
    <3> QED BY <1>1, <3>1
  <2> QED BY <2>2, <2>3, <2>4, <2>5
<1> QED BY <1>2, <1>6, <1>7, <1>8

LEMMA InvInit == Init => IInv
<1> SUFFICES ASSUME Init PROVE IInv
  OBVIOUS
<1>1. PICK q \in Imported : active = q.active /\ before = q.before /\ mixed = Mixed(q.active)
  BY DEF Init
<1>2. ActiveOrdered BY <1>1, ImportedType DEF ActiveOrdered
<1>3. ActiveTransitive BY <1>1 DEF ActiveTransitive, Mixed
<1>5. MixedApart BY <1>1, MixedWhole, Symmetric DEF MixedApart
<1>4. \A r \in Runner : /\ Holds(r) = {} /\ done[r] = NoSlot
                         /\ pend[r] = {} /\ pc[r] = "unborn"
  BY DEF Init, Holds
<1> QED BY <1>2, <1>3, <1>4, <1>5
        DEF IInv, HeldIsClaimed, DoneIsClaimed, PendingInSection, FirstInLine

\* A step that leaves the queue alone and puts nothing into anybody's hands
\* need only mind the completion of its caller and the entries to submit.
LEMMA Quiet ==
  ASSUME IInv, UNCHANGED queue,
         \A q \in Runner : Holds(q)' \subseteq Holds(q),
         \A q \in Runner : Holds(q)' # {} => Live(q)',
         DoneIsClaimed', PendingInSection'
  PROVE  IInv'
<1>1. ActiveOrdered' BY DEF IInv, ActiveOrdered, StrictOrder
<1>2. ActiveTransitive' /\ MixedApart'
  BY DEF IInv, ActiveTransitive, MixedApart, Chain, Conflicts
<1>3. HeldIsClaimed' BY DEF IInv, HeldIsClaimed
<1>4. FirstInLine' BY DEF IInv, FirstInLine, Conflicts
<1> QED BY <1>1, <1>2, <1>3, <1>4 DEF IInv

\* Removing entries nobody holds.
LEMMA Dropped ==
  ASSUME TypeOK, IInv, NEW gone \in SUBSET active, Drop(gone),
         UNCHANGED <<futures, pend>>,
         \A q \in Runner : Holds(q) \cap gone = {},
         \A q \in Runner : Live(q)' <=> Live(q),
         DoneIsClaimed', PendingInSection'
  PROVE  IInv'
<1>1. ActiveOrdered' BY DEF IInv, ActiveOrdered, StrictOrder, Drop
<1>2. ActiveTransitive' /\ MixedApart'
  <2>1. active' = active \ gone /\ mixed' = mixed \ gone
    BY DEF Drop
  <2> QED BY <2>1 DEF IInv, ActiveTransitive, MixedApart, Chain, Conflicts
<1>3. \A q \in Runner : Holds(q)' = Holds(q) BY DEF Holds
<1>4. HeldIsClaimed'
  <2> SUFFICES ASSUME NEW q \in Runner, NEW s \in Holds(q)'
               PROVE  s \in active' /\ claim'[s] = q /\ Live(q)'
    BY DEF HeldIsClaimed
  <2>1. s \in active /\ claim[s] = q /\ Live(q) /\ s \notin gone
    BY <1>3 DEF IInv, HeldIsClaimed
  <2>2. s \in Slot BY <2>1 DEF TypeOK
  <2> QED BY <2>1, <2>2 DEF Drop
<1>5. FirstInLine' BY <1>3 DEF IInv, FirstInLine, Conflicts, Drop
<1> QED BY <1>1, <1>2, <1>4, <1>5 DEF IInv

\* role_exit, planner_advanced: the entry that leaves is the caller's own.
LEMMA ReconcileStep ==
  ASSUME TypeOK, IInv, NEW r \in Runner, Reconcile(r)
  PROVE  IInv'
<1>1. /\ Drop({done[r]}) /\ pc[r] = "reconcile" /\ pc' = [pc EXCEPT ![r] = "prune"]
      /\ UNCHANGED <<futures, pend, done>>
  BY DEF Reconcile
<1>2. done[r] # NoSlot /\ done[r] \in active /\ claim[done[r]] = r /\ done[r] \notin futures[r]
  BY <1>1 DEF IInv, DoneIsClaimed
<1>3. \A q \in Runner : Holds(q) \cap {done[r]} = {}
  BY <1>1, <1>2 DEF IInv, HeldIsClaimed, PendingInSection, Holds
<1>4. \A q \in Runner : Live(q)' <=> Live(q)
  BY <1>1 DEF Live, TypeOK
<1>5. DoneIsClaimed'
  <2> SUFFICES ASSUME NEW q \in Runner, done[q] # NoSlot, q # r,
                      pc[q] \in {"query", "error", "reconcile"}
               PROVE  done[q] \in active' /\ claim'[done[q]] = q
    BY <1>1 DEF DoneIsClaimed, IInv, TypeOK
  <2>1. done[q] \in active /\ claim[done[q]] = q /\ done[q] \in Slot
    BY DEF IInv, DoneIsClaimed, TypeOK
  <2> QED BY <1>1, <1>2, <2>1 DEF Drop
<1>6. PendingInSection'
  BY <1>1 DEF IInv, PendingInSection, TypeOK
<1> QED BY <1>1, <1>2, <1>3, <1>4, <1>5, <1>6, Dropped

\* planner_advanced on restart: the entries that leave have no live claim.
LEMMA PruneStep ==
  ASSUME TypeOK, IInv, NEW r \in Runner, PruneUnoffered(r)
  PROVE  IInv'
<1>1. Unoffered(r) \in SUBSET active
  BY DEF Unoffered
<1>2. Drop(Unoffered(r)) /\ pc' = [pc EXCEPT ![r] = "claim"]
      /\ UNCHANGED <<futures, pend, done>> /\ pc[r] = "prune"
  BY DEF PruneUnoffered
<1>3. \A q \in Runner : Holds(q) \cap Unoffered(r) = {}
  BY LiveClaim DEF IInv, HeldIsClaimed, Unoffered
<1>4. \A q \in Runner : Live(q)' <=> Live(q)
  BY <1>2 DEF Live, TypeOK
<1>5. DoneIsClaimed'
  <2> SUFFICES ASSUME NEW q \in Runner, done[q] # NoSlot, q # r
               PROVE  pc[q] \in {"query", "error", "reconcile"} =>
                        done[q] \in active' /\ claim'[done[q]] = q
    BY <1>2 DEF DoneIsClaimed, IInv, TypeOK
  <2>1. SUFFICES ASSUME pc[q] \in {"query", "error", "reconcile"}
                 PROVE  done[q] \notin Unoffered(r)
    BY <1>2 DEF Drop, IInv, DoneIsClaimed, TypeOK
  <2>2. claim[done[q]] = q /\ Live(q)
    BY <2>1 DEF IInv, DoneIsClaimed, Live
  <2> QED BY <2>2, LiveClaim DEF Unoffered
<1>6. PendingInSection'
  BY <1>2 DEF IInv, PendingInSection, TypeOK
<1> QED BY <1>1, <1>2, <1>3, <1>4, <1>5, <1>6, Dropped

\* dispatch_claimed: what is adopted passed the walk over the list.
LEMMA ClaimStep ==
  ASSUME TypeOK, IInv, NEW r \in Runner, ClaimPersisted(r)
  PROVE  IInv'
<1>1. PICK passed \in SUBSET active :
        /\ PassedBy(passed)
        /\ claim' = [s \in Slot |-> IF s \in Adoptable(r, passed) THEN r ELSE claim[s]]
        /\ pend' = [pend EXCEPT ![r] = Adoptable(r, passed)]
  BY DEF ClaimPersisted
<1>2. /\ pc[r] = "claim" /\ pc' = [pc EXCEPT ![r] = "admit"]
      /\ UNCHANGED <<active, before, mixed, futures, done>>
  BY DEF ClaimPersisted
<1>3. \A q \in Runner : Live(q)' <=> Live(q)
  BY <1>2 DEF Live, TypeOK
<1>4. Adoptable(r, passed) \subseteq passed
  BY DEF Adoptable
<1>5. Holds(r)' = Holds(r) \cup Adoptable(r, passed)
  BY <1>1, <1>2 DEF Holds, TypeOK, IInv, PendingInSection
<1>6. \A q \in Runner \ {r} : Holds(q)' = Holds(q)
  BY <1>1, <1>2 DEF Holds, TypeOK
<1>7. ActiveOrdered' /\ ActiveTransitive' /\ MixedApart'
  BY <1>2 DEF IInv, ActiveOrdered, StrictOrder, ActiveTransitive, MixedApart, Chain,
              Conflicts
<1>8. \A q \in Runner \ {r}, s \in Slot :
        claim[s] = q /\ Live(q) => claim'[s] = q
  BY <1>1, LiveClaim DEF Adoptable, Claimable
<1>9. HeldIsClaimed'
  <2>1. Live(r)
    BY <1>2 DEF Live
  <2>2. \A s \in Holds(r)' : s \in active /\ claim'[s] = r
    BY <1>1, <1>4, <1>5 DEF IInv, HeldIsClaimed, TypeOK
  <2>3. \A q \in Runner \ {r} : \A s \in Holds(q)' : s \in active /\ claim'[s] = q /\ Live(q)
    BY <1>6, <1>8 DEF IInv, HeldIsClaimed, TypeOK
  <2> QED BY <1>2, <1>3, <2>1, <2>2, <2>3 DEF HeldIsClaimed
<1>10. DoneIsClaimed'
  <2>1. \A q \in Runner \ {r} : pc'[q] = pc[q]
    BY <1>2 DEF TypeOK
  <2>2. pc'[r] = "admit"
    BY <1>2 DEF TypeOK
  <2>3. \A q \in Runner \ {r} :
          done[q] # NoSlot /\ pc[q] \in {"query", "error", "reconcile"} => claim'[done[q]] = q
    BY <1>8 DEF IInv, DoneIsClaimed, TypeOK, Live
  <2> QED BY <1>2, <2>1, <2>2, <2>3 DEF IInv, DoneIsClaimed
<1>11. PendingInSection'
  BY <1>1, <1>2 DEF IInv, PendingInSection, TypeOK
<1>12. FirstInLine'
  <2>1. SUFFICES ASSUME NEW s \in Adoptable(r, passed), NEW a \in active,
                        <<a, s>> \in before, Conflicts(a, s), ~({a, s} \subseteq mixed)
                 PROVE  FALSE
    BY <1>2, <1>5, <1>6 DEF IInv, FirstInLine, Conflicts
  <2>2. s \in passed /\ s \in active
    BY <1>4
  <2>3. a \notin passed
    BY <1>1, <2>1, <2>2 DEF PassedBy
  <2>4. PICK b \in passed : <<b, a>> \in before /\ Conflicts(b, a)
    BY <1>1, <2>3 DEF PassedBy
  <2>5. <<b, s>> \in before /\ b # s
    BY <2>1, <2>2, <2>4 DEF IInv, ActiveOrdered, StrictOrder
  <2>6. b \notin mixed
    BY <2>1, <2>2, <2>4 DEF IInv, MixedApart
  <2>7. Conflicts(b, s)
    BY <2>1, <2>2, <2>4, <2>5, <2>6 DEF IInv, ActiveTransitive, Chain
  <2> QED BY <1>1, <2>2, <2>5, <2>7 DEF PassedBy
<1> QED BY <1>7, <1>9, <1>10, <1>11, <1>12 DEF IInv

\* dispatch_started: a new entry competes with nothing on the list.
LEMMA AdmitStep ==
  ASSUME TypeOK, IInv, NEW r \in Runner, NEW s \in Slot, Admit(r, s)
  PROVE  IInv'
<1>1. /\ pc[r] = "admit" /\ s \notin active /\ s # done[r]
      /\ \A a \in active : ~Conflicts(a, s)
      /\ AppendEntry(r, s)
      /\ pend' = [pend EXCEPT ![r] = @ \cup {s}]
      /\ UNCHANGED <<pc, done, futures>>
  BY DEF Admit, Admissible
<1>2. \A a, b \in Slot : Conflicts(a, b) <=> Conflicts(b, a)
  BY DEF Conflicts
<1>3. active' = active \cup {s} /\ before' = before \cup (active \X {s}) /\ mixed' = mixed
  BY <1>1 DEF AppendEntry
<1>4. ActiveOrdered'
  BY <1>1, <1>3 DEF IInv, ActiveOrdered, StrictOrder
<1>5. ActiveTransitive' /\ MixedApart'
  <2>1. ~Conflicts(s, s) /\ \A a \in active : ~Conflicts(a, s) /\ ~Conflicts(s, a)
    BY <1>1, Symmetric
  <2>2. ASSUME NEW a \in active \cup {s}, NEW b \in active \cup {s}, Conflicts(a, b)
        PROVE  a \in active /\ b \in active
    BY <2>1, <2>2
  <2> QED BY <1>3, <2>2 DEF IInv, ActiveTransitive, MixedApart, Chain
<1>6. Holds(r)' = Holds(r) \cup {s} /\ \A q \in Runner \ {r} : Holds(q)' = Holds(q)
  BY <1>1 DEF Holds, TypeOK
<1>7. claim'[s] = r /\ \A t \in Slot \ {s} : claim'[t] = claim[t]
  BY <1>1 DEF AppendEntry, TypeOK
<1>8. \A q \in Runner : \A t \in Holds(q) : t \in active /\ t \in Slot /\ t # s
  BY <1>1 DEF IInv, HeldIsClaimed, TypeOK
<1>9. HeldIsClaimed'
  BY <1>1, <1>3, <1>6, <1>7, <1>8 DEF IInv, HeldIsClaimed, Live
<1>10. DoneIsClaimed'
  BY <1>1, <1>3, <1>7 DEF IInv, DoneIsClaimed, TypeOK
<1>11. PendingInSection'
  BY <1>1 DEF IInv, PendingInSection, TypeOK
<1>12. FirstInLine'
  <2> SUFFICES ASSUME NEW q \in Runner, NEW t \in Holds(q)', NEW a \in active',
                      <<a, t>> \in before', Conflicts(a, t)
               PROVE  {a, t} \subseteq mixed
    BY <1>3 DEF FirstInLine, Conflicts
  <2>1. CASE t = s
    BY <1>1, <1>3, <2>1, Symmetric
  <2>2. CASE t # s
    <3>1. t \in Holds(q) /\ <<a, t>> \in before
      BY <1>3, <1>6, <2>2
    <3>2. a \in active
      BY <3>1 DEF IInv, ActiveOrdered, StrictOrder
    <3> QED BY <3>1, <3>2 DEF IInv, FirstInLine
  <2> QED BY <2>1, <2>2
<1> QED BY <1>4, <1>5, <1>9, <1>10, <1>11, <1>12 DEF IInv

\* reopen(): only claims of processes that are gone are cleared.
LEMMA ReopenStep ==
  ASSUME TypeOK, IInv, NEW r \in Runner, Reopen(r)
  PROVE  IInv'
<1>1. /\ UNCHANGED <<active, before, mixed, pc, done, futures, pend>>
      /\ \A s \in Slot : Claimed(s) => claim'[s] = claim[s]
  BY DEF Reopen
<1>2. \A q \in Runner, s \in Slot : claim[s] = q /\ Live(q) => claim'[s] = q
  BY <1>1, LiveClaim
<1>3. HeldIsClaimed'
  BY <1>1, <1>2 DEF IInv, HeldIsClaimed, Holds, Live, TypeOK
<1>4. DoneIsClaimed'
  BY <1>1, <1>2 DEF IInv, DoneIsClaimed, Live, TypeOK
<1> QED BY <1>1, <1>3, <1>4
        DEF IInv, ActiveOrdered, StrictOrder, ActiveTransitive, MixedApart, Chain,
            PendingInSection, FirstInLine, Holds, Conflicts

\* The steps that only let go of what the caller holds, or of nothing.
LEMMA LeftStep ==
  ASSUME TypeOK, IInv, NEW r \in Runner, Left(r), UNCHANGED queue,
         pc[r] \in {"query", "error", "reconcile", "prune", "claim", "admit"},
         \A q \in Runner : Holds(q)' \subseteq Holds(q),
         \A q \in Runner \ {r} : pend'[q] = pend[q] /\ futures'[q] = futures[q],
         pend'[r] = {}
  PROVE  IInv'
<1>1. PICK w \in {"await", "idle", "query"} : pc' = [pc EXCEPT ![r] = w]
  BY DEF Left
<1>2. done' = [done EXCEPT ![r] = NoSlot]
  BY DEF Left
<1>3. \A q \in Runner : Holds(q)' # {} => Live(q)'
  BY <1>1 DEF Live, IInv, HeldIsClaimed, TypeOK
<1>4. DoneIsClaimed'
  BY <1>1, <1>2 DEF IInv, DoneIsClaimed, TypeOK
<1>5. PendingInSection'
  BY <1>1 DEF IInv, PendingInSection, TypeOK
<1> QED BY <1>3, <1>4, <1>5, Quiet

\* The death of instances, by a crash or an exit.
LEMMA ForgetStep ==
  ASSUME TypeOK, IInv, NEW gone \in SUBSET Runner, Forget(gone)
  PROVE  IInv'
<1>1. \A q \in Runner : Holds(q)' = IF q \in gone THEN {} ELSE Holds(q)
  BY DEF Forget, Holds
<1>2. \A q \in Runner : Holds(q)' # {} => Live(q)'
  BY <1>1 DEF Forget, Live, IInv, HeldIsClaimed
<1>3. DoneIsClaimed'
  BY DEF Forget, IInv, DoneIsClaimed
<1>4. PendingInSection'
  BY DEF Forget, IInv, PendingInSection
<1>5. UNCHANGED queue
  BY DEF Forget
<1> QED BY <1>1, <1>2, <1>3, <1>4, <1>5, Quiet

LEMMA InvStep == TypeOK /\ IInv /\ [Next]_vars => IInv'
<1> SUFFICES ASSUME TypeOK, IInv, [Next]_vars PROVE IInv'
  OBVIOUS
<1>1. ASSUME NEW r \in Runner, RunnerStep(r) PROVE IInv'
  <2> USE DEF IInv, HeldIsClaimed, DoneIsClaimed, PendingInSection, Holds, Live, TypeOK
  <2>1. CASE Spawn(r) BY <2>1, Quiet DEF Spawn
  <2>2. CASE WriteSpec(r) BY <2>2, Quiet DEF WriteSpec
  <2>3. CASE RunStarted(r)
    <3>1. DoneIsClaimed' BY <2>3 DEF RunStarted, queue, call
    <3>2. PendingInSection' BY <2>3 DEF RunStarted
    <3> QED BY <2>3, <3>1, <3>2, Quiet DEF RunStarted
  <2>4. CASE \E m \in {"step", "run"} : Call(r, m) BY <2>4, Quiet DEF Call
  <2>5. CASE StopAtBudget(r) BY <2>5, Quiet DEF StopAtBudget, Return
  <2>6. CASE \E offered \in SUBSET Slot : QueryPlanner(r, offered)
    BY <2>6, Quiet DEF QueryPlanner
  <2>7. CASE PlannerRaises(r) BY <2>7, Quiet DEF PlannerRaises
  <2>8. CASE RecordPlannerError(r)
    <3>1. Left(r) BY <2>8, Refreshed DEF RecordPlannerError
    <3> QED BY <2>8, <3>1, LeftStep DEF RecordPlannerError
  <2>9. CASE Reconcile(r) BY <2>9, ReconcileStep
  <2>10. CASE PruneUnoffered(r) BY <2>10, PruneStep
  <2>11. CASE ClaimPersisted(r) BY <2>11, ClaimStep
  <2>12. CASE \E s \in Slot : Admit(r, s) BY <2>12, AdmitStep
  <2>13. CASE LaunchPending(r)
    <3>1. Left(r) BY <2>13, Refreshed DEF LaunchPending
    <3> QED BY <2>13, <3>1, LeftStep DEF LaunchPending
  <2>14. CASE \E terminal \in BOOLEAN : Settle(r, terminal)
    <3>1. Left(r) BY <2>14, Refreshed DEF Settle
    <3>2. UNCHANGED <<queue, pend, futures>> /\ pc[r] = "admit" /\ active = {}
      BY <2>14 DEF Settle
    <3> QED BY <3>1, <3>2, LeftStep
  <2>15. CASE \E s \in Slot : RoleEnds(r, s) BY <2>15, Quiet DEF RoleEnds
  <2>16. CASE \E s \in Slot : Consume(r, s) BY <2>16, Quiet DEF Consume
  <2>17. CASE Reopen(r) BY <2>17, ReopenStep
  <2>18. CASE SectionFails(r) BY <2>18, Quiet DEF SectionFails, Return
  <2> QED BY <1>1, <2>1, <2>2, <2>3, <2>4, <2>5, <2>6, <2>7, <2>8, <2>9, <2>10,
             <2>11, <2>12, <2>13, <2>14, <2>15, <2>16, <2>17, <2>18 DEF RunnerStep, Works
<1>2. ASSUME NEW p \in Pid, Crash(p) \/ Exit(p) PROVE IInv'
  BY <1>2, ForgetStep DEF Crash, Exit, InProcess
<1>3. CASE UNCHANGED vars
  BY <1>3, Quiet DEF vars, IInv, HeldIsClaimed, DoneIsClaimed, PendingInSection, Holds, Live
<1> QED BY <1>1, <1>2, <1>3 DEF Next

\* The inductive invariant holds of every run, whatever list it starts from.
THEOREM Invariance == Spec => [](TypeOK /\ IInv)
<1>1. Init => TypeOK /\ IInv
  BY TypeInit, InvInit
<1>2. TypeOK /\ IInv /\ [Next]_vars => (TypeOK /\ IInv)'
  BY TypeStep, InvStep
<1> QED BY <1>1, <1>2, PTL DEF Spec

-----------------------------------------------------------------------------
(* Consequences.                                                           *)

\* Of two held entries one stands before the other, so they do not compete, or
\* both are mixed.
LEMMA HeldApart ==
  ASSUME IInv, NEW p \in Runner, NEW q \in Runner, NEW s \in Holds(p), NEW t \in Holds(q),
         Conflicts(s, t)
  PROVE  {s, t} \subseteq mixed
<1>1. s \in active /\ t \in active
  BY DEF IInv, HeldIsClaimed
<1>2. <<s, t>> \in before \/ <<t, s>> \in before
  BY <1>1, Symmetric DEF IInv, ActiveOrdered, StrictOrder
<1> QED BY <1>1, <1>2, Symmetric DEF IInv, FirstInLine

\* No slot is run by two coordinators at once: the claim of an entry names its
\* only holder.
THEOREM OneHolder == Spec => []SlotRunsOnce
<1>1. IInv => SlotRunsOnce
  BY DEF IInv, HeldIsClaimed, SlotRunsOnce
<1> QED BY <1>1, Invariance, PTL

\* One Analytical Owner for the whole run, across processes and restarts, but for
\* those an older version left mixed.
THEOREM OneOwner == Spec => []OneAnalyticalOwner
<1>1. IInv => OneAnalyticalOwner
  BY HeldApart DEF OneAnalyticalOwner, Conflicts
<1> QED BY <1>1, Invariance, PTL

\* One mutating workflow action for each requirement, likewise.
THEOREM OneWorkflow == Spec => []OneWorkflowPerRequirement
<1>1. IInv => OneWorkflowPerRequirement
  BY HeldApart DEF OneWorkflowPerRequirement, Conflicts
<1> QED BY <1>1, Invariance, PTL

\* A live process keeps its claim until it reconciles the completion itself.
THEOREM ClaimsRespected == Spec => LiveClaimsRespected
<1>1. TypeOK /\ IInv /\ [Next]_vars =>
        [\A s \in active, r \in Runner :
           /\ claim[s] = r /\ Live(r) /\ pc'[r] # "dead"
           /\ ~(s \in active' /\ claim'[s] = r)
           => pc[r] = "reconcile" /\ done[r] = s]_vars
  <2> SUFFICES ASSUME TypeOK, IInv, Next,
                      NEW s \in active, NEW r \in Runner,
                      claim[s] = r, Live(r), ~(s \in active' /\ claim'[s] = r)
               PROVE  pc[r] = "reconcile" /\ done[r] = s
    OBVIOUS
  <2>1. Claimed(s) /\ s \in Slot
    BY LiveClaim DEF TypeOK
  <2>2. PICK q \in Runner : RunnerStep(q)
    BY DEF Next, Crash, Exit, Forget
  <2>3. \/ Reconcile(q) \/ PruneUnoffered(q) \/ ClaimPersisted(q)
        \/ \E t \in Slot : Admit(q, t)
        \/ Reopen(q)
    BY <2>2 DEF RunnerStep, Works, Spawn, WriteSpec, RunStarted, Call, StopAtBudget,
                QueryPlanner, PlannerRaises, RecordPlannerError, LaunchPending,
                Settle, RoleEnds, Consume, SectionFails
  <2>4. CASE Reconcile(q)
    <3>1. s = done[q]
      BY <2>1, <2>4 DEF Reconcile, Drop
    <3>2. claim[done[q]] = q
      BY <2>4 DEF Reconcile, IInv, DoneIsClaimed
    <3> QED BY <2>4, <3>1, <3>2 DEF Reconcile
  <2>5. ~PruneUnoffered(q)
    BY <2>1 DEF PruneUnoffered, Drop, Unoffered
  <2>6. ~ClaimPersisted(q)
    BY <2>1 DEF ClaimPersisted, Adoptable, Claimable
  <2>7. ASSUME NEW t \in Slot, Admit(q, t) PROVE FALSE
    BY <2>1, <2>7 DEF Admit, Admissible, AppendEntry, TypeOK
  <2>8. ~Reopen(q)
    BY <2>1 DEF Reopen
  <2> QED BY <2>3, <2>4, <2>5, <2>6, <2>7, <2>8
<1> QED BY <1>1, Invariance, PTL DEF Spec, LiveClaimsRespected

-----------------------------------------------------------------------------
(* The lock and the end of the run.                                        *)

\* No two instances are in a section: the lock holder is the only one.
THEOREM OneSection == Spec => []SectionsExclude
<1>1. Init => SectionsExclude
  <2> SUFFICES ASSUME Init, NEW r \in Runner
               PROVE  pc[r] = "unborn" /\ lock # r
    BY DEF SectionsExclude
  <2> QED BY NullValues DEF Init
<1>2. TypeOK /\ SectionsExclude /\ [Next]_vars => SectionsExclude'
  <2> SUFFICES ASSUME TypeOK, SectionsExclude, [Next]_vars PROVE SectionsExclude'
    OBVIOUS
  <2> USE NullValues DEF SectionsExclude, TypeOK
  <2>1. ASSUME NEW r \in Runner, RunnerStep(r) PROVE SectionsExclude'
    <3>1. CASE \/ Spawn(r) \/ WriteSpec(r) \/ RunStarted(r) \/ StopAtBudget(r)
               \/ PlannerRaises(r) \/ Reconcile(r) \/ PruneUnoffered(r)
               \/ ClaimPersisted(r) \/ Reopen(r) \/ SectionFails(r)
      BY <3>1 DEF Spawn, WriteSpec, RunStarted, StopAtBudget, PlannerRaises,
                  Reconcile, PruneUnoffered, ClaimPersisted, Reopen, SectionFails, Return
    <3>2. CASE \/ \E m \in {"step", "run"} : Call(r, m)
               \/ \E offered \in SUBSET Slot : QueryPlanner(r, offered)
               \/ \E s \in Slot : Admit(r, s)
               \/ \E s \in Slot : RoleEnds(r, s)
               \/ \E s \in Slot : Consume(r, s)
      <4>1. CASE \E offered \in SUBSET Slot : QueryPlanner(r, offered)
        <5>1. /\ lock = NoRunner /\ lock' = r
              /\ \/ pc' = [pc EXCEPT ![r] = "prune"]
                 \/ pc' = [pc EXCEPT ![r] = "reconcile"]
          BY <4>1 DEF QueryPlanner
        <5> QED BY <5>1
      <4> QED BY <3>2, <4>1 DEF Call, Admit, RoleEnds, Consume
    <3>3. CASE RecordPlannerError(r)
      <4>1. Left(r) BY <3>3, Refreshed DEF RecordPlannerError
      <4> QED BY <3>3, <4>1 DEF RecordPlannerError, Left
    <3>4. CASE LaunchPending(r) \/ \E terminal \in BOOLEAN : Settle(r, terminal)
      <4>1. Left(r) BY <3>4, Refreshed DEF LaunchPending, Settle
      <4>2. lock' = NoRunner /\ pc[r] = "admit" BY <3>4 DEF LaunchPending, Settle
      <4>3. PICK w \in {"await", "idle", "query"} : pc' = [pc EXCEPT ![r] = w]
        BY <4>1 DEF Left
      <4>4. lock = r
        BY <4>2
      <4> QED BY <4>2, <4>3, <4>4
    <3> QED BY <2>1, <3>1, <3>2, <3>3, <3>4 DEF RunnerStep, Works
  <2>2. ASSUME NEW p \in Pid, Crash(p) PROVE SectionsExclude'
    BY <2>2 DEF Crash, Forget, InProcess, Live
  <2>3. ASSUME NEW p \in Pid, Exit(p) PROVE SectionsExclude'
    BY <2>3 DEF Exit, Forget, InProcess
  <2>4. CASE UNCHANGED vars BY <2>4 DEF vars
  <2> QED BY <2>1, <2>2, <2>3, <2>4 DEF Next
<1> QED BY <1>1, <1>2, TypeCorrect, PTL DEF Spec

\* Nothing is running, or waiting to be, when a run is reported complete.
THEOREM CompletionIsFinal == Spec => []CompleteIsQuiescent
<1> DEFINE Emptied == status = "complete" => active = {}
<1>1. Init => Emptied
  BY DEF Init
<1>2. Emptied /\ [Next]_vars => Emptied'
  <2> SUFFICES ASSUME Emptied, [Next]_vars, status' = "complete" PROVE active' = {}
    OBVIOUS
  <2>1. ASSUME NEW r \in Runner, RunnerStep(r) PROVE active' = {}
    BY <2>1 DEF RunnerStep, Works, Spawn, WriteSpec, RunStarted, Call, StopAtBudget,
                QueryPlanner, PlannerRaises, RecordPlannerError, Reconcile, Drop,
                PruneUnoffered, ClaimPersisted, Admit, LaunchPending, Settle,
                RoleEnds, Consume, Reopen, SectionFails
  <2>2. ASSUME NEW p \in Pid, Crash(p) \/ Exit(p) PROVE active' = {}
    BY <2>2 DEF Crash, Exit, Forget
  <2> QED BY <2>1, <2>2 DEF Next, vars
<1>3. Emptied /\ IInv => CompleteIsQuiescent
  BY DEF CompleteIsQuiescent, IInv, HeldIsClaimed
<1> QED BY <1>1, <1>2, <1>3, Invariance, PTL DEF Spec

-----------------------------------------------------------------------------
(* Somebody is in charge of what a section leaves active.                  *)

\* A list that is not empty has a first entry: the fewest stand before it.
LEMMA First ==
  ASSUME NEW S, IsFiniteSet(S), S # {}, NEW R, StrictOrder(R, S)
  PROVE  \E x \in S : \A y \in S : <<y, x>> \notin R
<1> DEFINE earlier(x) == {y \in S : <<y, x>> \in R}
           T == {earlier(x) : x \in S}
<1>1. T \subseteq FiniteSubsetsOf(S) /\ T # {}
  <2>1. T \subseteq SUBSET S /\ T # {}
    OBVIOUS
  <2> HIDE DEF T
  <2> QED BY <2>1, FS_FiniteSubsetsOfFinite
<1>2. PICK E \in T : \A F \in T : <<F, E>> \notin StrictSubsetOrdering(S)
  <2> HIDE DEF T
  <2> QED BY <1>1, FS_StrictSubsetOrderingWellFounded, WFMin
<1>3. PICK x \in S : E = earlier(x)
  BY <1>2
<1>4. ASSUME NEW y \in S, <<y, x>> \in R PROVE FALSE
  <2>1. earlier(y) \subseteq earlier(x)
    BY <1>4 DEF StrictOrder
  <2>2. y \in earlier(x) /\ y \notin earlier(y)
    BY <1>4 DEF StrictOrder
  <2>3. <<earlier(y), E>> \in StrictSubsetOrdering(S)
    BY <1>3, <2>1, <2>2 DEF StrictSubsetOrdering
  <2> QED BY <1>2, <2>3
<1> QED BY <1>4

\* Before it launches, a section has taken the first entry of the list, added
\* one, or met another's claim on the first.
InCharge(r) ==
  pc[r] = "admit" /\ active # {} =>
    Holds(r) # {} \/ \E s \in active : claim[s] \notin {NoRunner, r}
Charged == IsFiniteSet(active) /\ \A r \in Runner : InCharge(r)

\* The walk takes the first entry of the list, or leaves it to a live claim.
LEMMA ClaimCharges ==
  ASSUME TypeOK, IInv, IsFiniteSet(active), NEW r \in Runner, ClaimPersisted(r)
  PROVE  InCharge(r)'
<1> SUFFICES ASSUME active # {}
             PROVE  Holds(r)' # {} \/ \E s \in active : claim'[s] \notin {NoRunner, r}
  BY DEF InCharge, ClaimPersisted
<1>1. PICK s \in active : \A a \in active : <<a, s>> \notin before
  BY First DEF IInv, ActiveOrdered
<1>2. PICK passed \in SUBSET active :
        /\ PassedBy(passed)
        /\ claim' = [t \in Slot |-> IF t \in Adoptable(r, passed) THEN r ELSE claim[t]]
        /\ pend' = [pend EXCEPT ![r] = Adoptable(r, passed)]
        /\ UNCHANGED futures
  BY DEF ClaimPersisted
<1>3. s \in passed
  BY <1>1, <1>2 DEF PassedBy
<1>4. Holds(r)' = futures[r] \cup Adoptable(r, passed)
  BY <1>2 DEF Holds, TypeOK
<1>5. CASE s \in futures[r] \cup Adoptable(r, passed)
  BY <1>4, <1>5
<1>6. CASE s \notin futures[r] \cup Adoptable(r, passed)
  <2>1. Claimed(s) /\ claim[s] # r
    BY <1>3, <1>6 DEF Adoptable, Claimable
  <2>2. claim'[s] = claim[s] /\ claim[s] # NoRunner
    BY <1>2, <1>6, <2>1 DEF Claimed, TypeOK
  <2> QED BY <2>1, <2>2
<1> QED BY <1>5, <1>6

\* What is not the step of r itself leaves it the lock and the list.
LEMMA OthersCharge ==
  ASSUME TypeOK, SectionsExclude, NEW r \in Runner, NEW q \in Runner \ {r}, InCharge(r),
         RunnerStep(q)
  PROVE  InCharge(r)'
<1> SUFFICES ASSUME pc'[r] = "admit"
             PROVE  InCharge(r)'
  BY DEF InCharge
<1>1. pc'[r] = pc[r] /\ Holds(r)' = Holds(r)
  <2>1. CASE \/ RecordPlannerError(q) \/ LaunchPending(q)
             \/ \E terminal \in BOOLEAN : Settle(q, terminal)
    <3>1. Left(q)
      BY <2>1, Refreshed DEF RecordPlannerError, LaunchPending, Settle
    <3>2. pc'[r] = pc[r]
      BY <3>1 DEF Left, TypeOK
    <3>3. pend'[r] = pend[r] /\ futures'[r] = futures[r]
      BY <2>1 DEF RecordPlannerError, LaunchPending, Settle, TypeOK
    <3> QED BY <3>2, <3>3 DEF Holds
  <2>2. CASE ~(\/ RecordPlannerError(q) \/ LaunchPending(q)
               \/ \E terminal \in BOOLEAN : Settle(q, terminal))
    BY <2>2 DEF RunnerStep, Works, Spawn, WriteSpec, RunStarted, Call, StopAtBudget,
                QueryPlanner, PlannerRaises, Reconcile, PruneUnoffered, ClaimPersisted,
                Admit, RoleEnds, Consume, Reopen, SectionFails, Return, Holds, TypeOK
  <2> QED BY <2>1, <2>2
<1>2. lock = r /\ pc[q] \notin {"reconcile", "prune", "claim", "admit"} /\ r # NoRunner
  BY <1>1, NullValues DEF SectionsExclude
<1>3. UNCHANGED <<active, claim>>
  BY <1>2 DEF RunnerStep, Works, Spawn, WriteSpec, RunStarted, Call, StopAtBudget,
              QueryPlanner, PlannerRaises, RecordPlannerError, Reconcile, PruneUnoffered,
              ClaimPersisted, Admit, LaunchPending, Settle, RoleEnds, Consume, Reopen,
              SectionFails
<1> QED BY <1>1, <1>3 DEF InCharge

\* An admission adds an entry to the section's own.
LEMMA OwnCharge ==
  ASSUME TypeOK, IInv, IsFiniteSet(active), NEW r \in Runner, InCharge(r), RunnerStep(r)
  PROVE  InCharge(r)'
<1> SUFFICES ASSUME pc'[r] = "admit"
             PROVE  InCharge(r)'
  BY DEF InCharge
<1>1. CASE ClaimPersisted(r)
  BY <1>1, ClaimCharges
<1>2. CASE \E s \in Slot : Admit(r, s)
  BY <1>2 DEF Admit, InCharge, Holds, TypeOK
<1>3. CASE \E s \in Slot : RoleEnds(r, s)
  BY <1>3 DEF RoleEnds, InCharge, Holds
<1>4. CASE \/ RecordPlannerError(r) \/ LaunchPending(r)
           \/ \E terminal \in BOOLEAN : Settle(r, terminal)
  <2>1. Left(r)
    BY <1>4, Refreshed DEF RecordPlannerError, LaunchPending, Settle
  <2> QED BY <2>1 DEF Left, TypeOK
<1> QED BY <1>1, <1>2, <1>3, <1>4
        DEF RunnerStep, Works, Spawn, WriteSpec, RunStarted, Call, StopAtBudget,
            QueryPlanner, PlannerRaises, Reconcile, PruneUnoffered, Consume, Reopen,
            SectionFails, Return, TypeOK

LEMMA FiniteStep ==
  ASSUME TypeOK, IsFiniteSet(active), [Next]_vars
  PROVE  IsFiniteSet(active)'
<1>1. \/ active' \subseteq active
      \/ \E s \in Slot : active' = active \cup {s}
  BY DEF Next, RunnerStep, Works, Spawn, WriteSpec, RunStarted, Call, StopAtBudget,
         QueryPlanner, PlannerRaises, RecordPlannerError, Reconcile, Drop,
         PruneUnoffered, ClaimPersisted, Admit, AppendEntry, LaunchPending, Settle,
         RoleEnds, Consume, Reopen, SectionFails, Crash, Exit, Forget, vars
<1> QED BY <1>1, FS_Subset, FS_AddElement

LEMMA ChargedStep == TypeOK /\ IInv /\ SectionsExclude /\ Charged /\ [Next]_vars => Charged'
<1> SUFFICES ASSUME TypeOK, IInv, SectionsExclude, Charged, [Next]_vars,
                    NEW r \in Runner
             PROVE  InCharge(r)'
  BY FiniteStep DEF Charged
<1>1. ASSUME NEW q \in Runner, RunnerStep(q) PROVE InCharge(r)'
  BY <1>1, OwnCharge, OthersCharge DEF Charged
<1>2. ASSUME NEW p \in Pid, Crash(p) \/ Exit(p) PROVE InCharge(r)'
  <2>1. Forget(InProcess(p))
    BY <1>2 DEF Crash, Exit
  <2> QED BY <2>1 DEF Forget, Charged, InCharge, Holds
<1>3. CASE UNCHANGED vars
  BY <1>3 DEF vars, Charged, InCharge, Holds
<1> QED BY <1>1, <1>2, <1>3 DEF Next

\* A section that leaves entries active leaves somebody in charge of them, for
\* any number of instances and slots: no dispatch is left to nobody.
THEOREM Entrusted == Spec => SomebodyInCharge
<1>1. Init => Charged
  BY ImportedType DEF Init, Charged, InCharge
<1>2. TypeOK /\ Charged /\ [Next]_vars =>
        [\A r \in Runner : LaunchPending(r) =>
           \/ futures'[r] # {}
           \/ \E s \in active : claim[s] \notin {NoRunner, r}]_vars
  <2> SUFFICES ASSUME TypeOK, Charged, NEW r \in Runner, LaunchPending(r)
               PROVE  \/ futures'[r] # {}
                      \/ \E s \in active : claim[s] \notin {NoRunner, r}
    OBVIOUS
  <2>1. futures'[r] = Holds(r)
    BY DEF LaunchPending, Holds, TypeOK
  <2> QED BY <2>1 DEF LaunchPending, Charged, InCharge
<1> QED BY <1>1, <1>2, ChargedStep, Invariance, OneSection, PTL DEF Spec, SomebodyInCharge

-----------------------------------------------------------------------------
(* The coordinators implement ScopedLeases.                                *)

Held == {x \in Runner \X Slot : x[2] \in Holds(x[1])}

\* A step that puts nothing into anybody's hands, and mixes nothing, lets go of
\* something, or of nothing at all.
LEMMA LetsGo ==
  ASSUME \A q \in Runner : Holds(q)' \subseteq Holds(q), mixed' \subseteq mixed
  PROVE  Leases!Next
<1>1. Held' \subseteq Held
  BY DEF Held
<1>2. Held' = Held \ (Held \ Held') /\ (Held \ Held') \in SUBSET Held
  BY <1>1
<1> QED BY <1>2 DEF Leases!Next, Leases!LetGo, Held

\* A step that adds entries nobody held takes them, if the invariant holds
\* of the state it leads to.
LEMMA Takes ==
  ASSUME IInv', NEW r \in Runner, NEW S \in SUBSET Slot,
         Holds(r)' = Holds(r) \cup S,
         \A q \in Runner \ {r} : Holds(q)' = Holds(q),
         \A q \in Runner : Holds(q) \cap S = {}, UNCHANGED mixed
  PROVE  Leases!Next
<1>1. Held' = Held \cup ({r} \X S)
  BY DEF Held
<1>2. \A p, q \in Runner : \A s \in Holds(p)', t \in Holds(q)' :
        Conflicts(s, t) => {s, t} \subseteq mixed
  <2> SUFFICES ASSUME NEW p \in Runner, NEW q \in Runner,
                      NEW s \in Holds(p)', NEW t \in Holds(q)', Conflicts(s, t)
               PROVE  {s, t} \subseteq mixed
    OBVIOUS
  <2>1. s \in active' /\ t \in active' /\ s # t /\ Conflicts(t, s)
    BY Symmetric DEF IInv, HeldIsClaimed
  <2>2. <<s, t>> \in before' \/ <<t, s>> \in before'
    BY <2>1 DEF IInv, ActiveOrdered, StrictOrder
  <2> QED BY <2>1, <2>2 DEF IInv, FirstInLine, Conflicts
<1>3. Leases!Free(S)
  BY <1>2 DEF Leases!Free, Leases!Clash
<1> QED BY <1>1, <1>3 DEF Leases!Next, Leases!Take, Held

\* Every step of the coordinators takes free actions, lets go of some, or does
\* neither: KeepsLeases.
THEOREM Implements == Spec => KeepsLeases
<1>1. Init => Leases!Init
  BY TypeInit DEF Init, Leases!Init, Holds, TypeOK
<1>2. TypeOK /\ IInv /\ IInv' /\ [Next]_vars => [Leases!Next]_<<Held, mixed>>
  <2> SUFFICES ASSUME TypeOK, IInv, IInv', [Next]_vars
               PROVE  [Leases!Next]_<<Held, mixed>>
    OBVIOUS
  <2>1. ASSUME NEW r \in Runner, RunnerStep(r) PROVE Leases!Next
    <3>1. CASE ClaimPersisted(r)
      <4>1. PICK passed \in SUBSET active :
              /\ pend' = [pend EXCEPT ![r] = Adoptable(r, passed)]
              /\ UNCHANGED <<futures, mixed>> /\ pc[r] = "claim"
        BY <3>1 DEF ClaimPersisted
      <4>2. pend[r] = {}
        BY <4>1 DEF IInv, PendingInSection
      <4>3. Adoptable(r, passed) \in SUBSET Slot
        BY DEF Adoptable, TypeOK
      <4>4. Holds(r)' = Holds(r) \cup Adoptable(r, passed)
        BY <4>1, <4>2 DEF Holds, TypeOK
      <4>5. \A q \in Runner \ {r} : Holds(q)' = Holds(q)
        BY <4>1 DEF Holds, TypeOK
      <4>6. \A q \in Runner : Holds(q) \cap Adoptable(r, passed) = {}
        <5>1. Holds(r) \cap Adoptable(r, passed) = {}
          BY <4>2 DEF Holds, Adoptable
        <5>2. ASSUME NEW q \in Runner \ {r}, NEW s \in Holds(q)
              PROVE  ~Claimable(r, s)
          BY LiveClaim DEF IInv, HeldIsClaimed, Claimable
        <5> QED BY <5>1, <5>2 DEF Adoptable
      <4> QED BY <4>1, <4>3, <4>4, <4>5, <4>6, Takes
    <3>2. ASSUME NEW s \in Slot, Admit(r, s) PROVE Leases!Next
      <4>1. /\ pend' = [pend EXCEPT ![r] = @ \cup {s}]
            /\ UNCHANGED <<futures, mixed>> /\ s \notin active
        BY <3>2 DEF Admit, Admissible, AppendEntry
      <4>2. Holds(r)' = Holds(r) \cup {s} /\ \A q \in Runner \ {r} : Holds(q)' = Holds(q)
        BY <4>1 DEF Holds, TypeOK
      <4>3. \A q \in Runner : Holds(q) \cap {s} = {}
        BY <4>1 DEF IInv, HeldIsClaimed
      <4> QED BY <4>1, <4>2, <4>3, Takes
    <3>3. CASE LaunchPending(r)
      BY <3>3, LetsGo DEF LaunchPending, Holds, TypeOK
    <3>4. CASE \/ Spawn(r) \/ WriteSpec(r) \/ RunStarted(r) \/ StopAtBudget(r)
               \/ PlannerRaises(r) \/ RecordPlannerError(r) \/ Reconcile(r)
               \/ PruneUnoffered(r) \/ Reopen(r)
               \/ \E m \in {"step", "run"} : Call(r, m)
               \/ \E offered \in SUBSET Slot : QueryPlanner(r, offered)
               \/ \E terminal \in BOOLEAN : Settle(r, terminal)
               \/ \E s \in Slot : RoleEnds(r, s)
      <4>1. UNCHANGED <<futures, pend>>
        BY <3>4 DEF Spawn, WriteSpec, RunStarted, StopAtBudget, PlannerRaises,
                    RecordPlannerError, Reconcile, PruneUnoffered, Reopen, Call,
                    QueryPlanner, Settle, RoleEnds
      <4>2. mixed' \subseteq mixed
        BY <3>4 DEF Spawn, WriteSpec, RunStarted, StopAtBudget, PlannerRaises,
                    RecordPlannerError, Reconcile, PruneUnoffered, Drop, Reopen, Call,
                    QueryPlanner, Settle, RoleEnds
      <4> QED BY <4>1, <4>2, LetsGo DEF Holds
    <3>5. CASE SectionFails(r)
      <4>1. \A q \in Runner : Holds(q)' \subseteq Holds(q)
        BY <3>5 DEF SectionFails, Holds, TypeOK
      <4> QED BY <3>5, <4>1, LetsGo DEF SectionFails
    <3>6. ASSUME NEW s \in Slot, Consume(r, s) PROVE Leases!Next
      <4>1. \A q \in Runner : Holds(q)' \subseteq Holds(q)
        BY <3>6 DEF Consume, Holds, TypeOK
      <4> QED BY <3>6, <4>1, LetsGo DEF Consume
    <3> QED BY <2>1, <3>1, <3>2, <3>3, <3>4, <3>5, <3>6 DEF RunnerStep, Works
  <2>2. ASSUME NEW p \in Pid, Crash(p) \/ Exit(p) PROVE Leases!Next
    <3>1. \A q \in Runner : Holds(q)' \subseteq Holds(q)
      BY <2>2 DEF Crash, Exit, Forget, Holds
    <3> QED BY <2>2, <3>1, LetsGo DEF Crash, Exit, Forget
  <2>3. CASE UNCHANGED vars
    BY <2>3 DEF vars, Held, Holds
  <2> QED BY <2>1, <2>2, <2>3 DEF Next
<1>3. Spec => [](TypeOK /\ IInv)
  BY Invariance
<1> QED BY <1>1, <1>2, <1>3, PTL DEF Spec, KeepsLeases, Leases!Spec, Held
=============================================================================
