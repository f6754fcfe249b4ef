------------------------ MODULE RunGenerationsProofs ------------------------
(* Whatever the portfolios, callers, kills and generations: theorems about  *)
(* RunGenerations.                                                          *)
EXTENDS RunGenerations, TLAPS

\* The parts of the invariant that are about a run record r.
Cut(r) == r.staged.kind = "revise" /\ r.staged.sealed
Moved(r, i) == \E o \in 2 .. MaxGens : r.hist[i][o] # None
Concluded(r, i) == r.ws[i] # None /\ r.ws[i].outcome # None
Asks(r, plan) == \A i \in Records(plan) : r.ws[i] # None /\ r.ws[i].text = plan[i]

StatusKept(r) == Status(r) \in Statuses
Whole(r) == Ids(r) = Records(r.plan) /\ (~Cut(r) => Asks(r, r.plan))
Earned(r) == ~Cut(r) /\ Rank(Status(r)) >= 3 =>
               \A i \in Ids(r) : Moved(r, i) \/ Concluded(r, i)

\* A generation starts at the beginning, paused or not.
Initialized(s) == \/ s.status = "initialized"
                  \/ s.status = "paused" /\ s.resume = "running"

\* What is staged belongs together; a sealed append has its workspaces.
StagedGood(r) ==
  LET t == r.staged IN
  /\ t.kind = None => t.state = None /\ t.plan = None /\ ~t.sealed
  /\ t.plan # None => t.state # None /\ t.state.ids = Records(t.plan)
  /\ t.state # None => Initialized(t.state)
  /\ t.sealed => t.plan # None
  /\ t.sealed /\ t.kind = "append" => Asks(r, t.plan)

\* Nothing was concluded about a requirement the generation does not have.
OrphansFresh(r) == \A i \in Items \ Ids(r) : r.ws[i] # None => r.ws[i].outcome = None

\* The places of later generations in the history are free.
HistoryGood(r) ==
  ~Cut(r) => \A i \in Items, o \in 2 .. MaxGens : r.hist[i][o] # None => o <= r.active

Good(r) == /\ r \in RunType /\ StatusKept(r) /\ Whole(r) /\ Earned(r)
           /\ StagedGood(r) /\ OrphansFresh(r) /\ HistoryGood(r)

\* What a caller read as concluded is concluded still, or was replaced.
SeenStands ==
  \A p \in Callers : call[p] # None =>
    \A i \in DOMAIN call[p].seen :
      call[p].seen[i].outcome # None => Moved(run, i) \/ Concluded(run, i)

IInv == /\ Good(run) /\ SeenStands /\ kills \in 0 .. MaxKills
        /\ call \in [Callers -> CallType \cup {None}]

-----------------------------------------------------------------------------
(* The chain of statuses. *)

LEMMA DoneIs ==
  /\ Statuses = {"initialized", "running", "analytical_complete", "integration_complete",
                 "products_complete", "complete", "complete_with_limits"}
  /\ DOMAIN Done = 1 .. 7
  /\ Done[1] = "initialized" /\ Done[2] = "running" /\ Done[3] = "analytical_complete"
  /\ Done[4] = "integration_complete" /\ Done[5] = "products_complete"
  /\ Done[6] = "complete" /\ Done[7] = "complete_with_limits"
<1>1. /\ DOMAIN Done = 1 .. 7
      /\ Done[1] = "initialized" /\ Done[2] = "running" /\ Done[3] = "analytical_complete"
      /\ Done[4] = "integration_complete" /\ Done[5] = "products_complete"
      /\ Done[6] = "complete" /\ Done[7] = "complete_with_limits"
  BY DEF Done
<1>2. \A k \in 1 .. 7 : k = 1 \/ k = 2 \/ k = 3 \/ k = 4 \/ k = 5 \/ k = 6 \/ k = 7
  OBVIOUS
<1> QED  BY <1>1, <1>2 DEF Statuses

LEMMA RankIs ==
  /\ Rank("initialized") = 1 /\ Rank("running") = 2 /\ Rank("analytical_complete") = 3
  /\ Rank("integration_complete") = 4 /\ Rank("products_complete") = 5
  /\ Rank("complete") = 6 /\ Rank("complete_with_limits") = 7
<1>1. ASSUME NEW k \in 1 .. 7 PROVE Rank(Done[k]) = k
  <2>1. \A j, m \in 1 .. 7 : Done[j] = Done[m] => j = m
    <3>1. \A j \in 1 .. 7 : j = 1 \/ j = 2 \/ j = 3 \/ j = 4 \/ j = 5 \/ j = 6 \/ j = 7
      OBVIOUS
    <3> QED  BY <3>1, DoneIs
  <2> QED  BY <2>1, DoneIs DEF Rank
<1> QED  BY <1>1, DoneIs

\* A status that is due is later in the chain; from "running" it takes the
\* conclusion of every item.
LEMMA DueIsLater ==
  ASSUME NEW s \in Statuses, NEW facts, NEW products
  PROVE  LET d == Due(s, facts, products)
         IN  /\ d \in Statuses /\ Rank(d) \in Nat /\ Rank(s) \in Nat /\ Rank(d) >= Rank(s)
             /\ Rank(d) >= 3 => Rank(s) >= 3 \/ \A i \in DOMAIN facts : facts[i].outcome # None
BY DoneIs, RankIs DEF Due

LEMMA ChainIsLater ==
  ASSUME NEW s \in Statuses, NEW facts, NEW products, NEW k \in 1 .. 6
  PROVE  LET d == Chain(s, facts, products)[k]
         IN  /\ d \in Statuses /\ Rank(d) \in Nat /\ Rank(s) \in Nat /\ Rank(d) >= Rank(s)
             /\ Rank(d) >= 3 => Rank(s) >= 3 \/ \A i \in DOMAIN facts : facts[i].outcome # None
<1> DEFINE Later(d) == /\ d \in Statuses /\ Rank(d) \in Nat /\ Rank(s) \in Nat /\ Rank(d) >= Rank(s)
                       /\ Rank(d) >= 3 => Rank(s) >= 3 \/ \A i \in DOMAIN facts : facts[i].outcome # None
           next == [t \in Statuses |-> Due(t, facts, products)]
           s1 == next[s]
           s2 == next[s1]
           s3 == next[s2]
           s4 == next[s3]
           s5 == next[s4]
<1>1. Later(s)  BY DueIsLater
<1>2. ASSUME NEW d, Later(d) PROVE Later(next[d])
  <2>1. next[d] = Due(d, facts, products)  BY <1>2
  <2> QED  BY <2>1, <1>2, DueIsLater
<1>3. Chain(s, facts, products) = <<s, s1, s2, s3, s4, s5>>  BY DEF Chain
<1> HIDE DEF Later, next
<1>4. Later(s1)  BY <1>1, <1>2
<1>5. Later(s2)  BY <1>4, <1>2
<1>6. Later(s3)  BY <1>5, <1>2
<1>7. Later(s4)  BY <1>6, <1>2
<1>8. Later(s5)  BY <1>7, <1>2
<1> HIDE DEF s1, s2, s3, s4, s5
<1>9. Later(<<s, s1, s2, s3, s4, s5>>[k])
  <2>1. k = 1 \/ k = 2 \/ k = 3 \/ k = 4 \/ k = 5 \/ k = 6  OBVIOUS
  <2> QED  BY <2>1, <1>1, <1>4, <1>5, <1>6, <1>7, <1>8
<1> QED  BY <1>3, <1>9 DEF Later
-----------------------------------------------------------------------------
(* What becomes of a run record. *)

\* w is the workspace v, integrated or not.
Says(w, v) == w # None /\ w.text = v.text /\ w.outcome = v.outcome

\* Nothing that was concluded is lost, and history is only written once.
Remembers(r, t) ==
  \A i \in Items :
    /\ \A o \in 2 .. MaxGens : r.hist[i][o] # None => t.hist[i][o] = r.hist[i][o]
    /\ Concluded(r, i) => \/ Says(t.ws[i], r.ws[i])
                         \/ \E o \in 2 .. MaxGens : Says(t.hist[i][o], r.ws[i])

Forward(r, t) ==
  t.active = r.active => Rank(Status(t)) >= Rank(Status(r)) \/ Status(t) = "running"

Moves(r, t) == Remembers(r, t) /\ Forward(r, t)

\* The generation stays the active one, as it is.
SameGeneration(r, t) == t.active = r.active /\ t.state = r.state /\ t.plan = r.plan

SameFiles(r, t) == SameGeneration(r, t) /\ t.added = r.added /\ t.ws = r.ws /\ t.hist = r.hist

LEMMA RunFields ==
  ASSUME NEW r \in RunType
  PROVE  /\ r.active \in 1 .. MaxGens /\ r.state \in StateType /\ r.plan \in Plans
         /\ r.added \in SUBSET Items /\ r.staged \in StagedType
         /\ r.ws \in [Items -> WorkspaceType \cup {None}]
         /\ r.hist \in [Items -> [2 .. MaxGens -> WorkspaceType \cup {None}]]
BY DEF RunType

LEMMA RecordsAre ==
  ASSUME NEW plan \in Plans
  PROVE  /\ Records(plan) \subseteq Items
         /\ \A i \in Items : i \in Records(plan) <=> plan[i] # None
         /\ \A i \in Records(plan) : plan[i] \in Texts
BY DEF Records, Plans

LEMMA ForwardSame ==
  ASSUME NEW r, NEW t, Good(r), Status(t) = Status(r)
  PROVE  Forward(r, t)
BY RankIs, DoneIs DEF Good, StatusKept, Forward

LEMMA MovesSame ==
  ASSUME NEW r, NEW t, Good(r), t.ws = r.ws, t.hist = r.hist, Status(t) = Status(r)
  PROVE  Moves(r, t)
BY ForwardSame DEF Moves, Remembers, Concluded, Says

\* What was moved away before is kept in mind through one more step.
LEMMA RemembersFollows ==
  ASSUME NEW r, NEW s, NEW t, Remembers(r, s), Remembers(s, t)
  PROVE  Remembers(r, t)
<1>1. ASSUME NEW i \in Items, NEW o \in 2 .. MaxGens, r.hist[i][o] # None
      PROVE  t.hist[i][o] = r.hist[i][o]
  BY <1>1 DEF Remembers
<1>2. ASSUME NEW i \in Items, Concluded(r, i)
      PROVE  \/ Says(t.ws[i], r.ws[i])
             \/ \E o \in 2 .. MaxGens : Says(t.hist[i][o], r.ws[i])
  <2>1. CASE \E o \in 2 .. MaxGens : Says(s.hist[i][o], r.ws[i])
    <3>1. PICK o \in 2 .. MaxGens : Says(s.hist[i][o], r.ws[i])  BY <2>1
    <3>2. t.hist[i][o] = s.hist[i][o]  BY <3>1 DEF Remembers, Says
    <3> QED  BY <3>1, <3>2
  <2>2. CASE Says(s.ws[i], r.ws[i])
    <3>1. Concluded(s, i)  BY <1>2, <2>2 DEF Concluded, Says
    <3> QED  BY <2>2, <3>1 DEF Remembers, Says
  <2> QED  BY <1>2, <2>1, <2>2 DEF Remembers
<1> QED  BY <1>1, <1>2 DEF Remembers
-----------------------------------------------------------------------------
(* The state file of the active generation. *)

LEMMA WrittenIs ==
  ASSUME NEW r \in RunType
  PROVE  LET t == Written(r)
         IN  /\ t \in RunType /\ SameFiles(r, t) /\ t.staged.kind = r.staged.kind
             /\ t.staged.state = r.staged.state /\ t.staged.plan = r.staged.plan
             /\ t.staged.sealed = r.staged.sealed
<1> DEFINE g == [r.staged EXCEPT !.current = FALSE]
           t == [r EXCEPT !.staged = g]
<1>1. /\ g \in StagedType /\ g.kind = r.staged.kind /\ g.state = r.staged.state
      /\ g.plan = r.staged.plan /\ g.sealed = r.staged.sealed
  BY RunFields DEF StagedType
<1>2. Written(r) = t  BY DEF Written, RunType
<1> HIDE DEF g
<1>3. t \in RunType /\ t.staged = g /\ SameFiles(r, t)
  BY <1>1 DEF RunType, SameFiles, SameGeneration
<1> QED  BY <1>1, <1>2, <1>3

LEMMA StateWrittenIs ==
  ASSUME NEW r \in RunType, NEW s \in StateType
  PROVE  LET t == StateWritten(r, s)
         IN  /\ t \in RunType /\ t.active = r.active /\ t.state = s /\ t.plan = r.plan
             /\ t.ws = r.ws /\ t.hist = r.hist /\ t.staged.kind = r.staged.kind
             /\ t.staged.state = r.staged.state /\ t.staged.plan = r.staged.plan
             /\ t.staged.sealed = r.staged.sealed
<1> DEFINE u == [r EXCEPT !.state = s]
<1>1. /\ u \in RunType /\ u.active = r.active /\ u.state = s /\ u.plan = r.plan
      /\ u.ws = r.ws /\ u.hist = r.hist /\ u.staged = r.staged
  BY DEF RunType
<1> HIDE DEF u
<1>2. StateWritten(r, s) = Written(u)  BY DEF StateWritten, u
<1> QED  BY <1>1, <1>2, WrittenIs DEF SameFiles, SameGeneration

\* A new state of the same portfolio is a good one if it earns its status.
LEMMA StateStep ==
  ASSUME NEW r, Good(r), NEW s \in StateType, s.ids = Ids(r),
         NEW t, t = StateWritten(r, s), StatusKept(t), Forward(r, t),
         Rank(Status(t)) >= 3 =>
           Rank(Status(r)) >= 3 \/ \A i \in Ids(r) : Moved(r, i) \/ Concluded(r, i)
  PROVE  Good(t) /\ Moves(r, t)
<1>1. /\ t \in RunType /\ t.active = r.active /\ t.state = s /\ t.plan = r.plan
      /\ t.ws = r.ws /\ t.hist = r.hist /\ t.staged.kind = r.staged.kind
      /\ t.staged.state = r.staged.state /\ t.staged.plan = r.staged.plan
      /\ t.staged.sealed = r.staged.sealed
  BY StateWrittenIs DEF Good
<1>2. Ids(t) = Ids(r) /\ Cut(t) = Cut(r)  BY <1>1 DEF Ids, Cut
<1>3. Remembers(r, t)  BY <1>1 DEF Remembers, Says, Concluded
<1>4. Whole(t)  BY <1>1, <1>2 DEF Good, Whole, Asks
<1>5. Earned(t)  BY <1>1, <1>2 DEF Good, Earned, Moved, Concluded
<1>6. StagedGood(t)  BY <1>1 DEF Good, StagedGood, Asks
<1>7. OrphansFresh(t) /\ HistoryGood(t)  BY <1>1, <1>2 DEF Good, OrphansFresh, HistoryGood
<1> QED  BY <1>1, <1>3, <1>4, <1>5, <1>6, <1>7 DEF Good, Moves

LEMMA AdvancedGood ==
  ASSUME NEW r, Good(r), ~Paused(r), NEW s \in Statuses, Rank(s) >= Rank(r.state.status),
         Rank(s) >= 3 =>
           Rank(r.state.status) >= 3 \/ \A i \in Ids(r) : Moved(r, i) \/ Concluded(r, i)
  PROVE  Good(Advanced(r, s)) /\ Moves(r, Advanced(r, s))
<1> DEFINE n == [r.state EXCEPT !.status = s, !.resume = None]
           t == Advanced(r, s)
<1>1. r \in RunType /\ r.state \in StateType  BY RunFields DEF Good
<1>2. n \in StateType /\ n.ids = Ids(r) /\ n.status = s
  BY <1>1 DEF StateType, Ids
<1>3. t = StateWritten(r, n)  BY DEF Advanced
<1> HIDE DEF n, t
<1>4. t.state = n  BY <1>1, <1>2, <1>3, StateWrittenIs
<1>5. s # "paused"  BY DoneIs
<1>6. Status(t) = s /\ Status(r) = r.state.status
  BY <1>2, <1>4, <1>5 DEF Status, Paused
<1>7. StatusKept(t) /\ Forward(r, t)  BY <1>6 DEF StatusKept, Forward
<1>8. Good(t) /\ Moves(r, t)  BY <1>2, <1>3, <1>6, <1>7, StateStep
<1> QED  BY <1>8 DEF t

\* A reconciliation that has read the items as they are, or were before they
\* were replaced.
LEMMA ReconciledGood ==
  ASSUME Good(run), ~Paused(run), NEW facts, NEW products,
         \A i \in Ids(run) : i \in DOMAIN facts,
         \A i \in Ids(run) : facts[i].outcome # None => Moved(run, i) \/ Concluded(run, i),
         Reconciled(facts, products), kills \in 0 .. MaxKills
  PROVE  Good(run') /\ Moves(run, run') /\ kills' \in 0 .. MaxKills
<1> DEFINE status == run.state.status
           chain == Chain(status, facts, products)
           passed == Passed(run, facts, products)
<1>1. status \in Statuses  BY DEF Good, StatusKept, Status
<1>2. ASSUME NEW k \in 1 .. 6
      PROVE  Good(passed[k]) /\ Moves(run, passed[k])
  <2>1. passed[k] = IF chain[k] = status THEN run ELSE Advanced(run, chain[k])
    BY DEF Passed
  <2>2. Good(run) /\ Moves(run, run)  BY MovesSame
  <2>3. /\ chain[k] \in Statuses /\ Rank(chain[k]) >= Rank(status)
        /\ Rank(chain[k]) >= 3 =>
             Rank(status) >= 3 \/ \A i \in DOMAIN facts : facts[i].outcome # None
    BY <1>1, ChainIsLater
  <2> HIDE DEF chain, passed
  <2>4. Good(Advanced(run, chain[k])) /\ Moves(run, Advanced(run, chain[k]))
    BY <2>3, AdvancedGood
  <2> QED  BY <2>1, <2>2, <2>4
<1>3. /\ run' \in {passed[k] : k \in 1 .. 6}
      /\ kills' = kills \/ (kills < MaxKills /\ kills' = kills + 1)
  BY DEF Reconciled, Perform
<1> HIDE DEF passed
<1>4. kills' \in 0 .. MaxKills  BY <1>3, GenerationsAssumption
<1> QED  BY <1>2, <1>3, <1>4

-----------------------------------------------------------------------------
(* The next generation is staged. *)

\* A generation that is being staged touches nothing else.
LEMMA StagingGood ==
  ASSUME NEW r, Good(r), NEW t \in RunType, SameFiles(r, t), StagedGood(t), ~Cut(r)
  PROVE  Good(t) /\ Moves(r, t)
<1>1. Ids(t) = Ids(r) /\ Status(t) = Status(r)  BY DEF SameFiles, SameGeneration, Ids, Status, Paused
<1>2. StatusKept(t) /\ Whole(t) /\ Earned(t)
  BY <1>1 DEF Good, StatusKept, Whole, Earned, Asks, SameFiles, SameGeneration, Moved, Concluded
<1>3. OrphansFresh(t) /\ HistoryGood(t)
  BY <1>1 DEF Good, OrphansFresh, HistoryGood, SameFiles, SameGeneration
<1>4. Moves(r, t)  BY <1>1, MovesSame DEF SameFiles
<1> QED  BY <1>2, <1>3, <1>4 DEF Good

\* The record r with another generation staged.
LEMMA StagedIs ==
  ASSUME NEW r \in RunType, NEW g \in StagedType
  PROVE  /\ [r EXCEPT !.staged = g] \in RunType /\ SameFiles(r, [r EXCEPT !.staged = g])
         /\ [r EXCEPT !.staged = g].staged = g
BY DEF RunType, SameFiles, SameGeneration

LEMMA RootedIs ==
  ASSUME NEW r \in RunType, NEW kind \in {"append", "revise"}
  PROVE  LET t == Rooted(r, kind)
         IN  /\ t \in RunType /\ SameFiles(r, t) /\ t.staged.state = r.staged.state
             /\ t.staged.plan = r.staged.plan /\ t.staged.sealed = r.staged.sealed
             /\ t.staged.kind # None
             /\ t.staged.kind = IF r.staged.kind = None THEN kind ELSE r.staged.kind
<1>1. CASE r.staged.kind # None
  BY <1>1 DEF Rooted, SameFiles, SameGeneration
<1>2. CASE r.staged.kind = None
  <2> DEFINE g == [r.staged EXCEPT !.kind = kind, !.current = TRUE]
  <2>1. /\ g \in StagedType /\ g.kind = kind /\ g.state = r.staged.state
        /\ g.plan = r.staged.plan /\ g.sealed = r.staged.sealed
    BY RunFields DEF StagedType
  <2>2. Rooted(r, kind) = [r EXCEPT !.staged = g]  BY <1>2 DEF Rooted, RunType
  <2> HIDE DEF g
  <2> QED  BY <2>1, <2>2, <1>2, StagedIs, NoneIsNoRecord
<1> QED  BY <1>1, <1>2

LEMMA WithStateIs ==
  ASSUME NEW r \in RunType, NEW s \in StateType, r.staged.state \in {None, s}
  PROVE  LET t == WithState(r, s)
         IN  /\ t \in RunType /\ SameFiles(r, t) /\ t.staged.state = s
             /\ t.staged.plan = r.staged.plan /\ t.staged.sealed = r.staged.sealed
             /\ t.staged.kind = r.staged.kind
<1> DEFINE g == [r.staged EXCEPT !.state = s]
<1>1. /\ g \in StagedType /\ g.kind = r.staged.kind /\ g.state = s
      /\ g.plan = r.staged.plan /\ g.sealed = r.staged.sealed
  BY RunFields DEF StagedType
<1>2. WithState(r, s) = [r EXCEPT !.staged = g]  BY RunFields DEF WithState, RunType, StagedType
<1> HIDE DEF g
<1> QED  BY <1>1, <1>2, StagedIs

LEMMA WithPlanIs ==
  ASSUME NEW r \in RunType, NEW plan \in Plans, r.staged.plan \in {None, plan}
  PROVE  LET t == WithPlan(r, plan)
         IN  /\ t \in RunType /\ SameFiles(r, t) /\ t.staged.plan = plan
             /\ t.staged.state = r.staged.state /\ t.staged.sealed = r.staged.sealed
             /\ t.staged.kind = r.staged.kind
<1> DEFINE g == [r.staged EXCEPT !.plan = plan]
<1>1. /\ g \in StagedType /\ g.kind = r.staged.kind /\ g.plan = plan
      /\ g.state = r.staged.state /\ g.sealed = r.staged.sealed
  BY RunFields DEF StagedType
<1>2. WithPlan(r, plan) = [r EXCEPT !.staged = g]  BY RunFields DEF WithPlan, RunType, StagedType
<1> HIDE DEF g
<1> QED  BY <1>1, <1>2, StagedIs

LEMMA SealedIs ==
  ASSUME NEW r \in RunType, NEW kind \in {"append", "revise"}
  PROVE  LET t == Sealed(r, kind)
         IN  /\ t \in RunType /\ SameFiles(r, t) /\ t.staged.plan = r.staged.plan
             /\ t.staged.state = r.staged.state /\ t.staged.sealed /\ t.staged.kind = kind
<1> DEFINE g == [r.staged EXCEPT !.sealed = TRUE, !.kind = kind, !.current = TRUE]
<1>1. /\ g \in StagedType /\ g.kind = kind /\ g.plan = r.staged.plan
      /\ g.state = r.staged.state /\ g.sealed
  BY RunFields DEF StagedType
<1>2. Sealed(r, kind) = [r EXCEPT !.staged = g]  BY DEF Sealed, RunType
<1> HIDE DEF g
<1> QED  BY <1>1, <1>2, StagedIs

LEMMA InitialStateIs ==
  ASSUME NEW r, NEW ids \in SUBSET Items
  PROVE  LET s == InitialState(r, ids)
         IN  s \in StateType /\ s.ids = ids /\ Initialized(s)
BY DoneIs DEF InitialState, StateType, Initialized

LEMMA CreatedIs ==
  ASSUME NEW r \in RunType, NEW S, NEW plan \in Plans, S \subseteq Records(plan)
  PROVE  LET t == Created(r, S, plan)
         IN  /\ t \in RunType /\ SameGeneration(r, t) /\ t.staged = r.staged /\ t.hist = r.hist
             /\ \A i \in Items :
                  /\ r.ws[i] # None => t.ws[i] = r.ws[i]
                  /\ i \notin S => t.ws[i] = r.ws[i]
                  /\ i \in S /\ r.ws[i] = None =>
                       t.ws[i] # None /\ t.ws[i].text = plan[i] /\ t.ws[i].outcome = None
<1> DEFINE w == [i \in Items |-> IF i \in S /\ r.ws[i] = None THEN Fresh(plan[i]) ELSE r.ws[i]]
           t == [r EXCEPT !.ws = w]
<1>1. ASSUME NEW i \in Items, i \in S
      PROVE  /\ Fresh(plan[i]) \in WorkspaceType /\ Fresh(plan[i]).text = plan[i]
             /\ Fresh(plan[i]).outcome = None /\ Fresh(plan[i]) # None
  <2>1. plan[i] \in Texts  BY <1>1, RecordsAre
  <2>2. Fresh(plan[i]) \in WorkspaceType  BY <2>1 DEF Fresh, WorkspaceType
  <2> QED  BY <2>2, NoneIsNoRecord DEF Fresh
<1>2. w \in [Items -> WorkspaceType \cup {None}]  BY <1>1, RunFields
<1>3. t = Created(r, S, plan)  BY DEF Created
<1>4. \A i \in Items : w[i] = IF i \in S /\ r.ws[i] = None THEN Fresh(plan[i]) ELSE r.ws[i]
  OBVIOUS
<1> HIDE DEF w
<1>5. /\ t \in RunType /\ SameGeneration(r, t) /\ t.staged = r.staged /\ t.hist = r.hist
      /\ t.ws = w
  BY <1>2 DEF RunType, SameGeneration
<1>6. ASSUME NEW i \in Items
      PROVE  /\ r.ws[i] # None => w[i] = r.ws[i]
             /\ i \notin S => w[i] = r.ws[i]
             /\ i \in S /\ r.ws[i] = None =>
                  w[i] # None /\ w[i].text = plan[i] /\ w[i].outcome = None
  <2>1. CASE i \in S /\ r.ws[i] = None
    <3>1. w[i] = Fresh(plan[i])  BY <1>4, <2>1
    <3> QED  BY <1>1, <2>1, <3>1
  <2>2. CASE ~(i \in S /\ r.ws[i] = None)  BY <1>4, <2>2
  <2> QED  BY <2>1, <2>2
<1> HIDE DEF t
<1> QED  BY <1>3, <1>5, <1>6

\* The workspaces an append creates disturb nothing that is there.
LEMMA CreatedGood ==
  ASSUME NEW r, Good(r), NEW S, NEW plan \in Plans, S \subseteq Records(plan)
  PROVE  Good(Created(r, S, plan)) /\ Moves(r, Created(r, S, plan))
<1> DEFINE t == Created(r, S, plan)
<1>1. /\ t \in RunType /\ SameGeneration(r, t) /\ t.staged = r.staged /\ t.hist = r.hist
      /\ \A i \in Items :
           /\ r.ws[i] # None => t.ws[i] = r.ws[i]
           /\ i \notin S => t.ws[i] = r.ws[i]
           /\ i \in S /\ r.ws[i] = None =>
                t.ws[i] # None /\ t.ws[i].text = plan[i] /\ t.ws[i].outcome = None
  BY CreatedIs DEF Good
<1> HIDE DEF t
<1>2. /\ t.active = r.active /\ t.state = r.state /\ t.plan = r.plan
      /\ Ids(t) = Ids(r) /\ Status(t) = Status(r) /\ Cut(t) = Cut(r)
  BY <1>1 DEF SameGeneration, Ids, Status, Paused, Cut
<1>3. Ids(r) \subseteq Items  BY RunFields DEF Good, Ids, StateType
<1>4. \A p : p \in Plans /\ Asks(r, p) => Asks(t, p)
  BY <1>1, RecordsAre DEF Asks
<1>5. Whole(t)
  <2>1. r.plan \in Plans  BY RunFields DEF Good
  <2> QED  BY <1>2, <1>4, <2>1 DEF Good, Whole
<1>6. Earned(t)
  <2>1. \A i \in Items : Concluded(r, i) => Concluded(t, i)  BY <1>1 DEF Concluded
  <2>2. \A i \in Items : Moved(r, i) => Moved(t, i)  BY <1>1 DEF Moved
  <2> QED  BY <1>2, <1>3, <2>1, <2>2 DEF Good, Earned
<1>7. StagedGood(t)
  <2>1. r.staged.plan \in Plans \cup {None}  BY RunFields DEF Good, StagedType
  <2> QED  BY <1>1, <1>4, <2>1 DEF Good, StagedGood
<1>8. OrphansFresh(t)  BY <1>1, <1>2 DEF Good, OrphansFresh
<1>9. HistoryGood(t) /\ StatusKept(t)  BY <1>1, <1>2 DEF Good, HistoryGood, StatusKept
<1>10. Remembers(r, t)  BY <1>1 DEF Remembers, Concluded, Says
<1>11. Forward(r, t)  BY <1>2, ForwardSame
<1> QED  BY <1>1, <1>5, <1>6, <1>7, <1>8, <1>9, <1>10, <1>11 DEF Good, Moves, t

LEMMA PublishedIs ==
  ASSUME NEW r \in RunType, r.active < MaxGens, r.staged.state # None, r.staged.plan # None
  PROVE  LET t == Published(r)
         IN  /\ t \in RunType /\ t.active = r.active + 1 /\ t.state = r.staged.state
             /\ t.plan = r.staged.plan /\ t.staged = NotStaged /\ t.ws = r.ws /\ t.hist = r.hist
<1> DEFINE t == Published(r)
           a == r.active + 1
           d == Records(r.staged.plan) \ Records(r.plan)
<1>1. a \in 1 .. MaxGens  BY RunFields, GenerationsAssumption
<1>2. r.staged.state \in StateType /\ r.staged.plan \in Plans
  BY RunFields DEF StagedType
<1>3. d \in SUBSET Items  BY <1>2, RecordsAre
<1>4. NotStaged \in StagedType  BY DEF NotStaged, StagedType
<1>5. t = [r EXCEPT !.active = a, !.state = r.staged.state, !.plan = r.staged.plan,
                    !.added = d, !.staged = NotStaged]
  BY DEF Published, RunType
<1> HIDE DEF a, d, t
<1>6. /\ t \in RunType /\ t.active = a /\ t.state = r.staged.state
      /\ t.plan = r.staged.plan /\ t.staged = NotStaged /\ t.ws = r.ws /\ t.hist = r.hist
  BY <1>1, <1>2, <1>3, <1>4, <1>5 DEF RunType
<1> QED  BY <1>6 DEF t, a

\* A staged generation whose workspaces are there becomes the active one.
LEMMA PublishWhole ==
  ASSUME NEW r \in RunType, r.active < MaxGens, NEW g, g = r.staged,
         g.plan # None, g.state # None, g.state.ids = Records(g.plan), Initialized(g.state),
         Asks(r, g.plan),
         \A i \in Items \ Records(g.plan) : r.ws[i] # None => r.ws[i].outcome = None,
         \A i \in Items, o \in 2 .. MaxGens : r.hist[i][o] # None => o <= r.active + 1
  PROVE  Good(Published(r)) /\ Remembers(r, Published(r)) /\ Published(r).active # r.active
<1> DEFINE t == Published(r)
<1>2. /\ t \in RunType /\ t.active = r.active + 1 /\ t.state = g.state
      /\ t.plan = g.plan /\ t.staged = NotStaged /\ t.ws = r.ws /\ t.hist = r.hist
  BY PublishedIs
<1> HIDE DEF t
<1>3. r.active \in Nat  BY RunFields, GenerationsAssumption
<1>4. Ids(t) = Records(g.plan)  BY <1>2 DEF Ids
<1>5. Status(t) \in {"initialized", "running"}  BY <1>2 DEF Status, Paused, Initialized
<1>6. StatusKept(t)  BY <1>5, DoneIs DEF StatusKept
<1>7. Whole(t)  BY <1>2, <1>4 DEF Whole, Asks
<1>8. Earned(t)  BY <1>5, RankIs DEF Earned
<1>9. StagedGood(t)  BY <1>2, NoneIsNoRecord DEF StagedGood, NotStaged
<1>10. OrphansFresh(t)  BY <1>2, <1>4 DEF OrphansFresh
<1>11. HistoryGood(t)  BY <1>2, <1>3 DEF HistoryGood
<1>12. Remembers(r, t)  BY <1>2 DEF Remembers, Concluded, Says
<1>13. t.active # r.active  BY <1>2, <1>3
<1> QED  BY <1>2, <1>6, <1>7, <1>8, <1>9, <1>10, <1>11, <1>12, <1>13 DEF Good, t

\* A sealed append becomes the active generation.
LEMMA PublishGood ==
  ASSUME NEW r, Good(r), r.active < MaxGens, r.staged.sealed, r.staged.kind = "append",
         Ids(r) \subseteq Records(r.staged.plan)
  PROVE  Good(Published(r)) /\ Remembers(r, Published(r)) /\ Published(r).active # r.active
<1> DEFINE g == r.staged
<1>1. /\ g.plan # None /\ g.state # None /\ g.state.ids = Records(g.plan)
      /\ Initialized(g.state) /\ Asks(r, g.plan)
  BY DEF Good, StagedGood
<1>2. r \in RunType /\ r.active \in Nat  BY RunFields, GenerationsAssumption DEF Good
<1>3. \A i \in Items \ Records(g.plan) : r.ws[i] # None => r.ws[i].outcome = None
  BY DEF Good, OrphansFresh
<1>4. ASSUME NEW i \in Items, NEW o \in 2 .. MaxGens, r.hist[i][o] # None PROVE o <= r.active + 1
  <2>1. ~Cut(r)  BY DEF Cut
  <2>2. o <= r.active  BY <1>4, <2>1 DEF Good, HistoryGood
  <2> QED  BY <1>2, <2>2
<1> HIDE DEF g
<1>5. g = r.staged  BY DEF g
<1> QED  BY <1>1, <1>2, <1>3, <1>4, <1>5, PublishWhole
-----------------------------------------------------------------------------
(* What append does. *)

\* Steps that leave the files of the active generation alone.
LEMMA MovesFollow ==
  ASSUME NEW r, NEW s, NEW t, Moves(r, s), SameFiles(s, t)
  PROVE  Moves(r, t)
BY DEF Moves, Remembers, Forward, SameFiles, SameGeneration, Says, Concluded, Status, Paused

LEMMA MovesAhead ==
  ASSUME NEW r, NEW s, NEW t, SameFiles(r, s), Moves(s, t)
  PROVE  Moves(r, t)
BY DEF Moves, Remembers, Forward, SameFiles, SameGeneration, Says, Concluded, Status, Paused

LEMMA RootedGood ==
  ASSUME Good(run), ~run.staged.sealed, NEW kind \in {"append", "revise"}
  PROVE  /\ Good(Rooted(run, kind)) /\ Moves(run, Rooted(run, kind))
         /\ ~Cut(Rooted(run, kind))
<1> DEFINE t == Rooted(run, kind)
<1>1. /\ t \in RunType /\ SameFiles(run, t) /\ t.staged.state = run.staged.state
      /\ t.staged.plan = run.staged.plan /\ t.staged.sealed = run.staged.sealed
      /\ t.staged.kind # None
  BY RootedIs DEF Good
<1> HIDE DEF t
<1>2. StagedGood(t)  BY <1>1 DEF Good, StagedGood
<1>3. ~Cut(run) /\ ~Cut(t)  BY <1>1 DEF Cut
<1> QED  BY <1>1, <1>2, <1>3, StagingGood DEF t

\* The state file and the plan, staged by this operation or by an earlier one.
LEMMA WithFilesGood ==
  ASSUME NEW r, Good(r), ~r.staged.sealed, r.staged.kind # None, NEW plan \in Plans,
         NEW s, s = InitialState(run, Records(plan)),
         r.staged.state \in {None, s}, r.staged.plan \in {None, plan}
  PROVE  LET t == WithState(r, s)
             u == WithPlan(t, plan)
         IN  /\ Good(t) /\ SameFiles(r, t) /\ Good(u) /\ SameFiles(r, u)
             /\ u.staged.state = s /\ u.staged.plan = plan /\ ~u.staged.sealed
<1> DEFINE t == WithState(r, s)
           u == WithPlan(t, plan)
<1>1. s \in StateType /\ s.ids = Records(plan) /\ Initialized(s)
  BY RecordsAre, InitialStateIs
<1>2. /\ t \in RunType /\ SameFiles(r, t) /\ t.staged.state = s
      /\ t.staged.plan = r.staged.plan /\ t.staged.sealed = r.staged.sealed
      /\ t.staged.kind = r.staged.kind
  BY <1>1, WithStateIs DEF Good
<1> HIDE DEF t
<1>3. s # None  BY <1>1, NoneIsNoRecord
<1>4. StagedGood(t)  BY <1>1, <1>2, <1>3 DEF Good, StagedGood
<1>5. ~Cut(r)  BY DEF Cut
<1>6. Good(t)  BY <1>2, <1>4, <1>5, StagingGood
<1>7. /\ u \in RunType /\ SameFiles(t, u) /\ u.staged.plan = plan
      /\ u.staged.state = t.staged.state /\ u.staged.sealed = t.staged.sealed
      /\ u.staged.kind = t.staged.kind
  BY <1>2, WithPlanIs
<1> HIDE DEF u
<1>8. StagedGood(u)  BY <1>1, <1>2, <1>3, <1>7 DEF Good, StagedGood
<1>9. ~Cut(t)  BY <1>2 DEF Cut
<1>10. Good(u)  BY <1>6, <1>7, <1>8, <1>9, StagingGood
<1>11. SameFiles(r, u)  BY <1>2, <1>7 DEF SameFiles, SameGeneration
<1> QED  BY <1>2, <1>6, <1>7, <1>10, <1>11 DEF t, u

LEMMA OverlayIs ==
  ASSUME NEW old \in Plans, NEW add \in Additions
  PROVE  LET plan == Overlay(old, add)
         IN  /\ plan \in Plans /\ DOMAIN add \subseteq Records(plan)
             /\ Records(old) \subseteq Records(plan)
             /\ \A i \in DOMAIN add : plan[i] = add[i]
             /\ \A i \in Records(plan) : i \in DOMAIN add \/ (i \in Records(old) /\ plan[i] = old[i])
<1> DEFINE plan == Overlay(old, add)
<1>1. DOMAIN add \subseteq Items /\ \A i \in DOMAIN add : add[i] \in Texts
  BY DEF Additions
<1>2. \A i \in Items : plan[i] = IF i \in DOMAIN add THEN add[i] ELSE old[i]
  BY DEF Overlay
<1>3. plan \in Plans  BY <1>1 DEF Plans, Overlay
<1>4. None \notin Texts  BY GenerationsAssumption
<1> HIDE DEF plan
<1>5. \A i \in DOMAIN add : plan[i] = add[i]  BY <1>1, <1>2
<1>6. DOMAIN add \subseteq Records(plan)  BY <1>1, <1>4, <1>5 DEF Records
<1>7. Records(old) \subseteq Records(plan)  BY <1>1, <1>2, <1>4 DEF Records
<1>8. ASSUME NEW i \in Records(plan), i \notin DOMAIN add
      PROVE  i \in Records(old) /\ plan[i] = old[i]
  <2>1. i \in Items /\ plan[i] # None  BY <1>8 DEF Records
  <2>2. plan[i] = old[i]  BY <1>2, <1>8, <2>1
  <2> QED  BY <2>1, <2>2 DEF Records
<1>9. \A i \in Records(plan) : i \in DOMAIN add \/ (i \in Records(old) /\ plan[i] = old[i])
  BY <1>8
<1> QED  BY <1>3, <1>5, <1>6, <1>7, <1>9 DEF plan

\* An append that nothing stands against: every state file it may leave
\* behind is a whole one, and so is the generation it publishes.
LEMMA AppendCreates ==
  ASSUME Good(run), ~run.staged.sealed, run.active < MaxGens, NEW add \in Additions,
         NEW plan, plan = Overlay(run.plan, add), NEW s, s = InitialState(run, Records(plan)),
         \A i \in DOMAIN add : Creatable(run, i, add[i]), StagedFits(plan, s),
         NEW rooted, rooted = Rooted(run, "append"),
         NEW made, made = Created(rooted, DOMAIN add, plan),
         NEW stated, stated = WithState(made, s), NEW planned, planned = WithPlan(stated, plan),
         NEW sealed, sealed = Sealed(planned, "append")
  PROVE  /\ Good(stated) /\ Moves(run, stated) /\ Good(planned) /\ Moves(run, planned)
         /\ Good(sealed) /\ Moves(run, sealed)
         /\ Good(Published(sealed)) /\ Moves(run, Published(sealed))
<1>1. run \in RunType /\ run.plan \in Plans  BY RunFields DEF Good
<1>2. /\ plan \in Plans /\ DOMAIN add \subseteq Records(plan)
      /\ Records(run.plan) \subseteq Records(plan)
      /\ \A i \in DOMAIN add : plan[i] = add[i]
      /\ \A i \in Records(plan) : i \in DOMAIN add \/ (i \in Records(run.plan) /\ plan[i] = run.plan[i])
  BY <1>1, OverlayIs
<1>3. Good(rooted) /\ Moves(run, rooted) /\ ~Cut(rooted)  BY RootedGood
<1>4. /\ rooted \in RunType /\ SameFiles(run, rooted) /\ rooted.staged.state = run.staged.state
      /\ rooted.staged.plan = run.staged.plan /\ ~rooted.staged.sealed
      /\ rooted.staged.kind # None
  BY <1>1, RootedIs
<1>5. Good(made) /\ Moves(rooted, made)  BY <1>2, <1>3, CreatedGood
<1>6. /\ made \in RunType /\ SameGeneration(rooted, made) /\ made.staged = rooted.staged
      /\ \A i \in Items :
           /\ rooted.ws[i] # None => made.ws[i] = rooted.ws[i]
           /\ i \in DOMAIN add /\ rooted.ws[i] = None =>
                made.ws[i] # None /\ made.ws[i].text = plan[i]
  BY <1>2, <1>4, CreatedIs
<1>7. made.staged.state \in {None, s} /\ made.staged.plan \in {None, plan}
  BY <1>4, <1>6 DEF StagedFits
<1>8. /\ Good(stated) /\ SameFiles(made, stated) /\ Good(planned) /\ SameFiles(made, planned)
      /\ planned.staged.state = s /\ planned.staged.plan = plan /\ ~planned.staged.sealed
  BY <1>2, <1>4, <1>5, <1>6, <1>7, WithFilesGood
<1>9. planned \in RunType  BY <1>8 DEF Good
<1>10. /\ sealed \in RunType /\ SameFiles(planned, sealed) /\ sealed.staged.plan = plan
       /\ sealed.staged.state = s /\ sealed.staged.sealed /\ sealed.staged.kind = "append"
  BY <1>8, <1>9, SealedIs
<1>11. s \in StateType /\ s.ids = Records(plan) /\ Initialized(s) /\ s # None
  BY <1>2, RecordsAre, InitialStateIs, NoneIsNoRecord
<1>12. plan # None  BY <1>2, NoneIsNoRecord
<1>13. Asks(made, plan)
  <2>1. ASSUME NEW i \in Records(plan) PROVE made.ws[i] # None /\ made.ws[i].text = plan[i]
    <3>1. i \in Items  BY <1>2, RecordsAre
    <3>2. CASE i \in DOMAIN add
      <4>1. run.ws[i] = None \/ run.ws[i].text = plan[i]  BY <1>2, <3>2 DEF Creatable
      <4>2. rooted.ws = run.ws  BY <1>4 DEF SameFiles
      <4> QED  BY <1>6, <3>1, <3>2, <4>1, <4>2
    <3>3. CASE i \in Records(run.plan) /\ plan[i] = run.plan[i]
      <4>1. Asks(rooted, rooted.plan) /\ rooted.plan = run.plan
        BY <1>3, <1>4 DEF Good, Whole, SameFiles, SameGeneration
      <4> QED  BY <1>6, <3>1, <3>3, <4>1 DEF Asks
    <3> QED  BY <1>2, <3>2, <3>3
  <2> QED  BY <2>1 DEF Asks
<1>14. Asks(sealed, plan)  BY <1>8, <1>10, <1>13 DEF Asks, SameFiles
<1>15. StagedGood(sealed)  BY <1>10, <1>11, <1>12, <1>14, NoneIsNoRecord DEF StagedGood
<1>16. ~Cut(planned)  BY <1>8 DEF Cut
<1>17. Good(sealed)  BY <1>8, <1>10, <1>15, <1>16, StagingGood
<1>18. SameFiles(made, sealed)  BY <1>8, <1>10 DEF SameFiles, SameGeneration
<1>19. Moves(run, made)  BY <1>4, <1>5, MovesAhead
<1>20. Moves(run, stated) /\ Moves(run, planned) /\ Moves(run, sealed)
  BY <1>8, <1>18, <1>19, MovesFollow
<1>21. sealed.active = run.active /\ Ids(sealed) = Ids(run)
  BY <1>4, <1>6, <1>18 DEF SameFiles, SameGeneration, Ids
<1>22. Ids(sealed) \subseteq Records(plan)  BY <1>2, <1>21 DEF Good, Whole
<1>23. /\ Good(Published(sealed)) /\ Remembers(sealed, Published(sealed))
       /\ Published(sealed).active # sealed.active
  BY <1>10, <1>17, <1>21, <1>22, PublishGood
<1>24. Remembers(run, Published(sealed))
  BY <1>20, <1>23, RemembersFollows DEF Moves
<1>25. Moves(run, Published(sealed))  BY <1>21, <1>23, <1>24 DEF Moves, Forward
<1> QED  BY <1>8, <1>17, <1>20, <1>23, <1>25

LEMMA AppendGood ==
  ASSUME Good(run), kills \in 0 .. MaxKills, NEW add \in Additions, Append(add)
  PROVE  Good(run') /\ Moves(run, run') /\ kills' \in 0 .. MaxKills
<1> DEFINE plan == Overlay(run.plan, add)
           s == InitialState(run, Records(plan))
           rooted == Rooted(run, "append")
           made == Created(rooted, DOMAIN add, plan)
           stated == WithState(made, s)
           planned == WithPlan(stated, plan)
           sealed == Sealed(planned, "append")
<1>1. run \in RunType /\ run.plan \in Plans  BY RunFields DEF Good
<1>2. /\ plan \in Plans /\ DOMAIN add \subseteq Records(plan)
      /\ Records(run.plan) \subseteq Records(plan)
      /\ \A i \in DOMAIN add : plan[i] = add[i]
  BY <1>1, OverlayIs
<1>3. kills' = kills \/ (kills < MaxKills /\ kills' = kills + 1)
  BY DEF Append, Perform
<1>4. kills' \in 0 .. MaxKills  BY <1>3, GenerationsAssumption
<1>5. run.active < MaxGens /\ Ids(run) = Records(run.plan)  BY DEF Append, Good, Whole
<1>6. CASE run.staged.sealed
  <2>1. run.staged.kind = "append" /\ run.staged.plan = plan /\ run' = Published(run)
    BY <1>6 DEF Append
  <2> HIDE DEF plan
  <2>2. Good(run') /\ Remembers(run, run') /\ run'.active # run.active
    BY <1>2, <1>5, <1>6, <2>1, PublishGood
  <2> QED  BY <1>4, <2>2 DEF Moves, Forward
<1>7. CASE ~run.staged.sealed
  <2>1. Good(rooted) /\ Moves(run, rooted)  BY <1>7, RootedGood
  <2>2. SameFiles(run, rooted)  BY <1>1, RootedIs
  <2> DEFINE part(S) == Created(rooted, S, plan)
  <2>3. \/ /\ \A i \in DOMAIN add : Creatable(run, i, add[i])
           /\ StagedFits(plan, s)
           /\ \/ run' \in {rooted, stated, planned, sealed, Published(sealed)}
              \/ \E S \in SUBSET DOMAIN add : run' = part(S)
        \/ run' = made
        \/ \E S \in SUBSET DOMAIN add : run' = part(S)
    BY <1>7 DEF Append, Perform
  <2>4. made = part(DOMAIN add)  OBVIOUS
  <2> HIDE DEF plan, rooted
  <2>5. ASSUME NEW S \in SUBSET DOMAIN add PROVE Good(part(S)) /\ Moves(run, part(S))
    <3>1. Good(part(S)) /\ Moves(rooted, part(S))  BY <1>2, <2>1, CreatedGood
    <3> QED  BY <2>2, <3>1, MovesAhead
  <2> HIDE DEF part, s, made, stated, planned, sealed
  <2>6. Good(made) /\ Moves(run, made)  BY <2>4, <2>5
  <2>7. ASSUME \A i \in DOMAIN add : Creatable(run, i, add[i]), StagedFits(plan, s)
        PROVE  /\ Good(stated) /\ Moves(run, stated) /\ Good(planned) /\ Moves(run, planned)
               /\ Good(sealed) /\ Moves(run, sealed)
               /\ Good(Published(sealed)) /\ Moves(run, Published(sealed))
    BY <1>5, <1>7, <2>7, AppendCreates DEF plan, s, rooted, made, stated, planned, sealed
  <2> QED  BY <1>4, <2>1, <2>3, <2>5, <2>6, <2>7
<1> QED  BY <1>6, <1>7
-----------------------------------------------------------------------------
(* What revise does. *)

LEMMA ArchiveGood ==
  ASSUME NEW r, Good(r), Cut(r), r.active < MaxGens, NEW S,
         \A i \in Items, o \in 2 .. MaxGens : r.hist[i][o] # None => o <= r.active
  PROVE  LET t == Archive(r, S)
         IN  /\ Good(t) /\ Moves(r, t) /\ SameGeneration(r, t) /\ t.staged = r.staged
             /\ \A i \in Items : t.ws[i] = IF i \in S THEN None ELSE r.ws[i]
             /\ \A i \in Items, o \in 2 .. MaxGens : t.hist[i][o] # None => o <= r.active + 1
<1> DEFINE w == [i \in Items |-> IF i \in S THEN None ELSE r.ws[i]]
           h == [i \in Items |-> IF i \in S /\ r.ws[i] # None
                                 THEN [r.hist[i] EXCEPT ![r.active + 1] = r.ws[i]]
                                 ELSE r.hist[i]]
           t == Archive(r, S)
<1>1. r \in RunType  BY DEF Good
<1>2. r.active \in Nat /\ r.active + 1 \in 2 .. MaxGens  BY <1>1, RunFields, GenerationsAssumption
<1>3. w \in [Items -> WorkspaceType \cup {None}]  BY <1>1, RunFields
<1>4. ASSUME NEW i \in Items
      PROVE  /\ h[i] \in [2 .. MaxGens -> WorkspaceType \cup {None}]
             /\ i \in S /\ r.ws[i] # None => h[i][r.active + 1] = r.ws[i]
             /\ \A o \in 2 .. MaxGens :
                  h[i][o] = r.hist[i][o] \/ (o = r.active + 1 /\ i \in S /\ r.ws[i] # None)
  <2>1. r.hist[i] \in [2 .. MaxGens -> WorkspaceType \cup {None}] /\ r.ws[i] \in WorkspaceType \cup {None}
    BY <1>1, RunFields
  <2>2. CASE i \in S /\ r.ws[i] # None
    <3>1. h[i] = [r.hist[i] EXCEPT ![r.active + 1] = r.ws[i]]  BY <2>2
    <3> QED  BY <1>2, <2>1, <2>2, <3>1
  <2>3. CASE ~(i \in S /\ r.ws[i] # None)
    <3>1. h[i] = r.hist[i]  BY <2>3
    <3> QED  BY <2>1, <2>3, <3>1
  <2> QED  BY <2>2, <2>3
<1>5. h \in [Items -> [2 .. MaxGens -> WorkspaceType \cup {None}]]  BY <1>4
<1>6. \A i \in Items : w[i] = IF i \in S THEN None ELSE r.ws[i]  OBVIOUS
<1>7. t = [r EXCEPT !.ws = w, !.hist = h]  BY DEF Archive
<1> HIDE DEF w, h, t
<1>8. /\ t \in RunType /\ SameGeneration(r, t) /\ t.staged = r.staged /\ t.ws = w /\ t.hist = h
  BY <1>1, <1>3, <1>5, <1>7 DEF RunType, SameGeneration
<1>9. Ids(t) = Ids(r) /\ Status(t) = Status(r) /\ Cut(t)
  BY <1>8 DEF SameGeneration, Ids, Status, Paused, Cut
<1>10. StatusKept(t) /\ Whole(t) /\ Earned(t) /\ HistoryGood(t)
  BY <1>8, <1>9 DEF Good, StatusKept, Whole, Earned, HistoryGood, SameGeneration
<1>11. StagedGood(t)
  <2>1. t.staged.kind # "append"  BY <1>9 DEF Cut
  <2> QED  BY <1>8, <2>1 DEF Good, StagedGood
<1>12. OrphansFresh(t)  BY <1>6, <1>8, <1>9 DEF Good, OrphansFresh
<1>13. ASSUME NEW i \in Items, NEW o \in 2 .. MaxGens, r.hist[i][o] # None
       PROVE  h[i][o] = r.hist[i][o]
  <2>1. o <= r.active  BY <1>13
  <2>2. o # r.active + 1  BY <1>2, <2>1
  <2> QED  BY <1>4, <2>2
<1>14. ASSUME NEW i \in Items, Concluded(r, i)
       PROVE  Says(w[i], r.ws[i]) \/ \E o \in 2 .. MaxGens : Says(h[i][o], r.ws[i])
  <2>1. CASE i \in S
    <3>1. Says(h[i][r.active + 1], r.ws[i])  BY <1>4, <1>14, <2>1 DEF Concluded, Says
    <3> QED  BY <1>2, <3>1
  <2>2. CASE i \notin S  BY <1>6, <1>14, <2>2 DEF Concluded, Says
  <2> QED  BY <2>1, <2>2
<1>15. Remembers(r, t)  BY <1>8, <1>13, <1>14 DEF Remembers
<1>16. Moves(r, t)  BY <1>9, <1>15, ForwardSame DEF Moves
<1>17. \A i \in Items, o \in 2 .. MaxGens : h[i][o] # None => o <= r.active + 1
  BY <1>2, <1>4
<1> QED  BY <1>6, <1>8, <1>10, <1>11, <1>12, <1>16, <1>17 DEF Good, t

\* A workspace that a failed revision removes has concluded nothing.
LEMMA RolledBackGood ==
  ASSUME Good(run), run.staged.kind = None, NEW S, S \cap Ids(run) = {}
  PROVE  Good(RolledBack(S)) /\ Moves(run, RolledBack(S))
<1> DEFINE w == [i \in Items |-> IF i \in S THEN None ELSE run.ws[i]]
           t == RolledBack(S)
<1>1. w \in [Items -> WorkspaceType \cup {None}]  BY RunFields DEF Good
<1>2. \A i \in Items : w[i] = IF i \in S THEN None ELSE run.ws[i]  OBVIOUS
<1>3. t = [run EXCEPT !.ws = w]  BY DEF RolledBack
<1> HIDE DEF w, t
<1>4. /\ t \in RunType /\ SameGeneration(run, t) /\ t.staged = run.staged /\ t.ws = w
      /\ t.hist = run.hist
  BY <1>1, <1>3 DEF RunType, SameGeneration, Good
<1>5. Ids(t) = Ids(run) /\ Status(t) = Status(run) /\ Cut(t) = Cut(run) /\ t.plan = run.plan
  BY <1>4 DEF SameGeneration, Ids, Status, Paused, Cut
<1>6. Ids(run) \subseteq Items  BY RunFields DEF Good, Ids, StateType
<1>7. \A i \in Ids(run) : w[i] = run.ws[i]  BY <1>2, <1>6
<1>8. Ids(run) = Records(run.plan)  BY DEF Good, Whole
<1>9. StatusKept(t)  BY <1>5 DEF Good, StatusKept
<1>10. Whole(t)  BY <1>4, <1>5, <1>7, <1>8 DEF Good, Whole, Asks
<1>11. Earned(t)  BY <1>4, <1>5, <1>7 DEF Good, Earned, Moved, Concluded
<1>12. StagedGood(t)  BY <1>4 DEF Good, StagedGood
<1>13. OrphansFresh(t)  BY <1>2, <1>4, <1>5 DEF Good, OrphansFresh
<1>14. HistoryGood(t)  BY <1>4, <1>5 DEF Good, HistoryGood, SameGeneration
<1>15. ASSUME NEW i \in Items, Concluded(run, i) PROVE w[i] = run.ws[i]
  BY <1>2, <1>7, <1>15 DEF Good, OrphansFresh, Concluded
<1>16. Remembers(run, t)  BY <1>4, <1>15 DEF Remembers, Concluded, Says
<1>17. Moves(run, t)  BY <1>5, <1>16, ForwardSame DEF Moves
<1> QED  BY <1>4, <1>9, <1>10, <1>11, <1>12, <1>13, <1>14, <1>17 DEF Good, t

\* A revision that nothing stands against, up to the workspaces it moves.
LEMMA ReviseStages ==
  ASSUME Good(run), run.staged.kind = None, NEW plan \in Plans,
         NEW rooted, rooted = Rooted(run, "revise"),
         NEW stated, stated = WithState(rooted, InitialState(run, Records(plan))),
         NEW planned, planned = WithPlan(stated, plan),
         NEW sealed, sealed = Sealed(planned, "revise")
  PROVE  /\ Good(rooted) /\ Good(stated) /\ Good(planned) /\ Good(sealed)
         /\ SameFiles(run, rooted) /\ SameFiles(run, stated) /\ SameFiles(run, planned)
         /\ SameFiles(run, sealed) /\ Cut(sealed)
         /\ sealed.staged.state = InitialState(run, Records(plan)) /\ sealed.staged.plan = plan
<1> DEFINE s == InitialState(run, Records(plan))
<1>1. run \in RunType /\ ~run.staged.sealed /\ run.staged.state = None /\ run.staged.plan = None
  BY DEF Good, StagedGood
<1>2. Good(rooted)  BY <1>1, RootedGood
<1>3. /\ rooted \in RunType /\ SameFiles(run, rooted) /\ rooted.staged.state = None
      /\ rooted.staged.plan = None /\ ~rooted.staged.sealed /\ rooted.staged.kind # None
  BY <1>1, RootedIs
<1>4. s \in StateType /\ s.ids = Records(plan) /\ Initialized(s) /\ s # None
  BY RecordsAre, InitialStateIs, NoneIsNoRecord
<1> HIDE DEF s
<1>5. stated = WithState(rooted, s)  BY DEF s
<1>6. /\ Good(stated) /\ SameFiles(rooted, stated) /\ Good(planned) /\ SameFiles(rooted, planned)
      /\ planned.staged.state = s /\ planned.staged.plan = plan /\ ~planned.staged.sealed
  BY <1>2, <1>3, <1>5, WithFilesGood DEF s
<1>7. planned \in RunType  BY <1>6 DEF Good
<1>8. /\ sealed \in RunType /\ SameFiles(planned, sealed) /\ sealed.staged.plan = plan
      /\ sealed.staged.state = s /\ sealed.staged.sealed /\ sealed.staged.kind = "revise"
  BY <1>6, <1>7, SealedIs
<1>9. plan # None  BY NoneIsNoRecord
<1>10. StagedGood(sealed)  BY <1>4, <1>8, <1>9, NoneIsNoRecord DEF StagedGood
<1>11. ~Cut(planned) /\ Cut(sealed)  BY <1>6, <1>8 DEF Cut
<1>12. Good(sealed)  BY <1>6, <1>8, <1>10, <1>11, StagingGood
<1>13. SameFiles(run, stated) /\ SameFiles(run, planned) /\ SameFiles(run, sealed)
  BY <1>3, <1>6, <1>8 DEF SameFiles, SameGeneration
<1> QED  BY <1>2, <1>3, <1>6, <1>8, <1>11, <1>12, <1>13 DEF s

\* The generation a revision publishes has a workspace for each requirement,
\* a new one where it asks something new.
LEMMA RevisedGood ==
  ASSUME Good(run), run.staged.kind = None, run.active < MaxGens, NEW plan \in Plans,
         NEW gone, NEW fresh, fresh \subseteq Records(plan),
         Records(run.plan) \ Records(plan) \subseteq gone,
         \A i \in Records(plan) :
           \/ i \in fresh /\ (i \in gone \/ Creatable(run, i, plan[i]))
           \/ i \notin gone /\ i \in Records(run.plan) /\ run.plan[i] = plan[i],
         NEW sealed, Good(sealed), SameFiles(run, sealed), Cut(sealed),
         sealed.staged.state = InitialState(run, Records(plan)), sealed.staged.plan = plan,
         NEW archived, archived = Archive(sealed, gone),
         NEW made, made = Created(archived, fresh, plan)
  PROVE  Good(Published(made)) /\ Moves(run, Published(made))
<1>1. /\ sealed.active = run.active /\ sealed.ws = run.ws /\ sealed.hist = run.hist
  BY DEF SameFiles, SameGeneration
<1>2. ~Cut(run)  BY NoneIsNoRecord DEF Cut
<1>3. \A i \in Items, o \in 2 .. MaxGens : run.hist[i][o] # None => o <= run.active
  BY <1>2 DEF Good, HistoryGood
<1>4. /\ Good(archived) /\ Moves(sealed, archived) /\ SameGeneration(sealed, archived)
      /\ archived.staged = sealed.staged
      /\ \A i \in Items : archived.ws[i] = IF i \in gone THEN None ELSE run.ws[i]
      /\ \A i \in Items, o \in 2 .. MaxGens : archived.hist[i][o] # None => o <= run.active + 1
  BY <1>1, <1>3, ArchiveGood
<1>5. run.plan \in Plans  BY RunFields DEF Good
<1>6. Records(plan) \subseteq Items /\ Records(run.plan) \subseteq Items  BY <1>5, RecordsAre
<1>8. archived \in RunType  BY <1>4 DEF Good
<1>9. /\ made \in RunType /\ SameGeneration(archived, made) /\ made.staged = archived.staged
      /\ made.hist = archived.hist
      /\ \A i \in Items :
           /\ archived.ws[i] # None => made.ws[i] = archived.ws[i]
           /\ i \notin fresh => made.ws[i] = archived.ws[i]
           /\ i \in fresh /\ archived.ws[i] = None =>
                made.ws[i] # None /\ made.ws[i].text = plan[i] /\ made.ws[i].outcome = None
  BY <1>8, CreatedIs
<1>10. Moves(archived, made)  BY <1>4, CreatedGood
<1>11. Asks(run, run.plan) /\ Ids(run) = Records(run.plan)  BY <1>2 DEF Good, Whole
<1>12. Asks(made, plan)
  <2>1. ASSUME NEW i \in Records(plan) PROVE made.ws[i] # None /\ made.ws[i].text = plan[i]
    <3>1. i \in Items  BY <1>6
    <3>2. CASE i \in fresh /\ i \in gone
      <4>1. archived.ws[i] = None  BY <1>4, <3>1, <3>2
      <4> QED  BY <1>9, <3>1, <3>2, <4>1
    <3>3. CASE i \in fresh /\ i \notin gone /\ Creatable(run, i, plan[i])
      <4>1. archived.ws[i] = run.ws[i]  BY <1>4, <3>1, <3>3
      <4>2. run.ws[i] = None \/ run.ws[i].text = plan[i]  BY <3>3 DEF Creatable
      <4> QED  BY <1>9, <3>1, <3>3, <4>1, <4>2
    <3>4. CASE i \notin gone /\ i \in Records(run.plan) /\ run.plan[i] = plan[i]
      <4>1. archived.ws[i] = run.ws[i]  BY <1>4, <3>1, <3>4
      <4>2. run.ws[i] # None /\ run.ws[i].text = plan[i]  BY <1>11, <3>4 DEF Asks
      <4> QED  BY <1>9, <3>1, <4>1, <4>2
    <3> QED  BY <3>2, <3>3, <3>4
  <2> QED  BY <2>1 DEF Asks
<1>13. ASSUME NEW i \in Items \ Records(plan), made.ws[i] # None PROVE made.ws[i].outcome = None
  <2>1. made.ws[i] = archived.ws[i]  BY <1>9
  <2>2. i \notin gone /\ archived.ws[i] = run.ws[i]  BY <1>4, <1>13, <2>1
  <2>3. i \notin Ids(run)  BY <1>11, <2>2
  <2> QED  BY <1>13, <2>1, <2>2, <2>3 DEF Good, OrphansFresh
<1>14. made.active = run.active
  BY <1>1, <1>4, <1>9 DEF SameGeneration
<1>15. made.staged.plan = plan /\ made.staged.state = InitialState(run, Records(plan))
  BY <1>4, <1>9
<1>16. LET s == InitialState(run, Records(plan))
       IN  s \in StateType /\ s.ids = Records(plan) /\ Initialized(s) /\ s # None
  BY <1>6, InitialStateIs, NoneIsNoRecord
<1>17. plan # None  BY NoneIsNoRecord
<1>18. \A i \in Items, o \in 2 .. MaxGens : made.hist[i][o] # None => o <= made.active + 1
  BY <1>4, <1>9, <1>14
<1>19. made \in RunType /\ made.active < MaxGens  BY <1>9, <1>14
<1>20. /\ Good(Published(made)) /\ Remembers(made, Published(made))
       /\ Published(made).active # made.active
  <2> DEFINE g == made.staged
  <2>1. g.plan = plan /\ g.state = InitialState(run, Records(plan)) /\ g = made.staged  BY <1>15
  <2> HIDE DEF g
  <2> QED  BY <1>12, <1>13, <1>16, <1>17, <1>18, <1>19, <2>1, PublishWhole
<1>21. Moves(run, archived)  BY <1>4, MovesAhead
<1>22. Remembers(run, Published(made))
  BY <1>10, <1>20, <1>21, RemembersFollows DEF Moves
<1>23. Moves(run, Published(made))  BY <1>14, <1>20, <1>22 DEF Moves, Forward
<1> QED  BY <1>20, <1>23

LEMMA ReviseGood ==
  ASSUME Good(run), kills \in 0 .. MaxKills, NEW plan \in Plans, Revise(plan)
  PROVE  Good(run') /\ Moves(run, run') /\ kills' \in 0 .. MaxKills
<1> DEFINE old == run.plan
           added == Records(plan) \ Records(old)
           removed == Records(old) \ Records(plan)
           updated == {i \in Records(old) \cap Records(plan) : old[i] # plan[i]}
           rooted == Rooted(run, "revise")
           stated == WithState(rooted, InitialState(run, Records(plan)))
           planned == WithPlan(stated, plan)
           sealed == Sealed(planned, "revise")
           archived == Archive(sealed, removed \cup updated)
           made == Created(archived, added \cup updated, plan)
<1>1. run.active < MaxGens /\ run.staged.kind = None  BY DEF Revise
<1>2. kills' = kills \/ (kills < MaxKills /\ kills' = kills + 1)
  BY DEF Revise, Perform
<1>3. kills' \in 0 .. MaxKills  BY <1>2, GenerationsAssumption
<1>4. Ids(run) = Records(old) /\ ~Cut(run)  BY <1>1, NoneIsNoRecord DEF Good, Whole, Cut
<1> DEFINE moved(S) == Archive(sealed, S)
           part(S) == Created(archived, S, plan)
<1>5. \/ /\ \A i \in added : Creatable(run, i, plan[i])
         /\ \/ run' \in {rooted, stated, planned, sealed, made, Published(made)}
            \/ \E S \in SUBSET (removed \cup updated) : run' = moved(S)
            \/ \E S \in SUBSET (added \cup updated) : run' = part(S)
      \/ \E S \in SUBSET added : run' = RolledBack(S)
  BY DEF Revise, Perform
<1>6. made = part(added \cup updated) /\ archived = moved(removed \cup updated)  OBVIOUS
<1>7. /\ Good(rooted) /\ Good(stated) /\ Good(planned) /\ Good(sealed)
      /\ SameFiles(run, rooted) /\ SameFiles(run, stated) /\ SameFiles(run, planned)
      /\ SameFiles(run, sealed) /\ Cut(sealed)
      /\ sealed.staged.state = InitialState(run, Records(plan)) /\ sealed.staged.plan = plan
  BY <1>1, ReviseStages
<1>8. added \cup updated \subseteq Records(plan) /\ added \cap Ids(run) = {}  BY <1>4
<1>9. ASSUME \A i \in added : Creatable(run, i, plan[i])
      PROVE  Good(Published(made)) /\ Moves(run, Published(made))
  <2>1. \A i \in Records(plan) :
          \/ i \in added \cup updated
             /\ (i \in removed \cup updated \/ Creatable(run, i, plan[i]))
          \/ i \notin removed \cup updated /\ i \in Records(old) /\ old[i] = plan[i]
    BY <1>9
  <2>2. Records(run.plan) \ Records(plan) \subseteq removed \cup updated  OBVIOUS
  <2> DEFINE gone == removed \cup updated
             fresh == added \cup updated
  <2> HIDE DEF sealed
  <2>3. fresh \subseteq Records(plan)  BY <1>8
  <2>4. made = Created(archived, fresh, plan) /\ archived = Archive(sealed, gone)  OBVIOUS
  <2>5. /\ Records(run.plan) \ Records(plan) \subseteq gone
        /\ \A i \in Records(plan) :
             \/ i \in fresh /\ (i \in gone \/ Creatable(run, i, plan[i]))
             \/ i \notin gone /\ i \in Records(run.plan) /\ run.plan[i] = plan[i]
    BY <2>1, <2>2
  <2> HIDE DEF gone, fresh, made, archived
  <2> QED  BY <1>1, <1>7, <2>3, <2>4, <2>5, RevisedGood
<1> HIDE DEF rooted, stated, planned, sealed
<1>10. ASSUME NEW S PROVE Good(moved(S)) /\ Moves(run, moved(S))
  <2>1. sealed.active = run.active /\ sealed.hist = run.hist
    BY <1>7 DEF SameFiles, SameGeneration
  <2>2. \A i \in Items, o \in 2 .. MaxGens : sealed.hist[i][o] # None => o <= sealed.active
    BY <1>4, <2>1 DEF Good, HistoryGood
  <2>3. Good(moved(S)) /\ Moves(sealed, moved(S))  BY <1>1, <1>7, <2>1, <2>2, ArchiveGood
  <2> QED  BY <1>7, <2>3, MovesAhead
<1> HIDE DEF moved, archived, made
<1>11. ASSUME NEW S \in SUBSET (added \cup updated)
       PROVE  Good(part(S)) /\ Moves(run, part(S))
  <2>1. Good(archived) /\ Moves(run, archived)  BY <1>6, <1>10
  <2>2. S \subseteq Records(plan)  BY <1>8
  <2>3. Good(part(S)) /\ Moves(archived, part(S))  BY <2>1, <2>2, CreatedGood
  <2>4. Remembers(run, part(S))  BY <2>1, <2>3, RemembersFollows DEF Moves
  <2>5. Status(part(S)) = Status(run)
    <3>1. SameGeneration(archived, part(S))
      BY <2>1, <2>2, CreatedIs DEF Good
    <3>2. SameGeneration(run, archived)
      <4>1. SameGeneration(sealed, archived)
        <5>1. sealed.active = run.active /\ sealed.hist = run.hist
          BY <1>7 DEF SameFiles, SameGeneration
        <5>2. \A i \in Items, o \in 2 .. MaxGens : sealed.hist[i][o] # None => o <= sealed.active
          BY <1>4, <5>1 DEF Good, HistoryGood
        <5> QED  BY <1>1, <1>7, <5>1, <5>2, ArchiveGood DEF archived
      <4> QED  BY <1>7, <4>1 DEF SameFiles, SameGeneration
    <3> QED  BY <3>1, <3>2 DEF SameGeneration, Status, Paused
  <2> QED  BY <2>3, <2>4, <2>5, ForwardSame DEF Moves
<1>12. ASSUME NEW S \in SUBSET added PROVE Good(RolledBack(S)) /\ Moves(run, RolledBack(S))
  BY <1>1, <1>8, RolledBackGood
<1>13. Moves(run, rooted) /\ Moves(run, stated) /\ Moves(run, planned) /\ Moves(run, sealed)
  <2>1. Moves(run, run)  BY MovesSame
  <2> QED  BY <1>7, <2>1, MovesFollow
<1>14. added \cup updated \in SUBSET (added \cup updated)  OBVIOUS
<1>15. Good(made) /\ Moves(run, made)  BY <1>6, <1>11, <1>14
<1> HIDE DEF part, added, removed, updated, old
<1> QED  BY <1>3, <1>5, <1>7, <1>9, <1>10, <1>11, <1>12, <1>13, <1>15
-----------------------------------------------------------------------------
(* What the other operations do. *)

\* The workspace of a requirement is decided or integrated.
LEMMA EditGood ==
  ASSUME Good(run), NEW i \in Ids(run), run.ws[i] # None, NEW w \in WorkspaceType,
         w.text = run.ws[i].text, run.ws[i].outcome # None => w.outcome = run.ws[i].outcome,
         NEW t, t = [run EXCEPT !.ws = [run.ws EXCEPT ![i] = w]]
  PROVE  Good(t) /\ Moves(run, t)
<1> DEFINE v == [run.ws EXCEPT ![i] = w]
<1>1. run \in RunType /\ run.ws \in [Items -> WorkspaceType \cup {None}]
  BY RunFields DEF Good
<1>2. Ids(run) \subseteq Items  BY RunFields DEF Good, Ids, StateType
<1>3. /\ v \in [Items -> WorkspaceType \cup {None}] /\ v[i] = w
      /\ \A j \in Items \ {i} : v[j] = run.ws[j]
  BY <1>1, <1>2
<1> HIDE DEF v
<1>4. t = [run EXCEPT !.ws = v]  BY DEF v
<1>5. /\ t \in RunType /\ SameGeneration(run, t) /\ t.staged = run.staged /\ t.ws = v
      /\ t.hist = run.hist
  BY <1>1, <1>3, <1>4 DEF RunType, SameGeneration
<1>6. Ids(t) = Ids(run) /\ Status(t) = Status(run) /\ Cut(t) = Cut(run) /\ t.plan = run.plan
  BY <1>5 DEF SameGeneration, Ids, Status, Paused, Cut
<1>7. w # None  BY NoneIsNoRecord
<1>8. \A j \in Items :
        /\ run.ws[j] # None => t.ws[j] # None /\ t.ws[j].text = run.ws[j].text
        /\ Concluded(run, j) => t.ws[j].outcome = run.ws[j].outcome
        /\ j # i => t.ws[j] = run.ws[j]
  BY <1>3, <1>5, <1>7 DEF Concluded
<1>9. \A p : p \in Plans /\ Asks(run, p) => Asks(t, p)
  BY <1>8, RecordsAre DEF Asks
<1>10. Whole(t) /\ StatusKept(t)
  <2>1. run.plan \in Plans  BY <1>1, RunFields
  <2> QED  BY <1>6, <1>9, <2>1 DEF Good, Whole, StatusKept
<1>11. \A j \in Items : Concluded(run, j) => Concluded(t, j)  BY <1>8 DEF Concluded
<1>12. Earned(t)  BY <1>2, <1>5, <1>6, <1>11 DEF Good, Earned, Moved
<1>13. StagedGood(t)
  <2>1. run.staged.plan \in Plans \cup {None}  BY <1>1, RunFields DEF StagedType
  <2> QED  BY <1>5, <1>9, <2>1 DEF Good, StagedGood
<1>14. OrphansFresh(t)  BY <1>6, <1>8 DEF Good, OrphansFresh
<1>15. HistoryGood(t)  BY <1>5, <1>6 DEF Good, HistoryGood, SameGeneration
<1>16. Remembers(run, t)  BY <1>5, <1>8 DEF Remembers, Concluded, Says
<1>17. Moves(run, t)  BY <1>6, <1>16, ForwardSame DEF Moves
<1> QED  BY <1>5, <1>10, <1>12, <1>13, <1>14, <1>15, <1>17 DEF Good

LEMMA DecideGood ==
  ASSUME Good(run), NEW i \in Items, NEW outcome \in Outcomes, Decide(i, outcome)
  PROVE  Good(run') /\ Moves(run, run')
<1> DEFINE w == [run.ws[i] EXCEPT !.outcome = outcome]
<1>1. /\ run.ws \in [Items -> WorkspaceType \cup {None}] /\ i \in Ids(run)
      /\ run.ws[i] # None /\ run.ws[i].outcome = None
  BY RunFields DEF Good, Decide
<1>2. run.ws[i] \in WorkspaceType  BY <1>1
<1>3. w \in WorkspaceType /\ w.text = run.ws[i].text
  BY <1>2, GenerationsAssumption DEF WorkspaceType
<1>4. run' = [run EXCEPT !.ws = [run.ws EXCEPT ![i] = w]]  BY DEF Decide
<1> HIDE DEF w
<1> QED  BY <1>1, <1>3, <1>4, EditGood

LEMMA IntegrateGood ==
  ASSUME Good(run), NEW i \in Items, NEW result \in Results, Integrate(i, result)
  PROVE  Good(run') /\ Moves(run, run')
<1> DEFINE w == [run.ws[i] EXCEPT !.merged = result]
<1>1. /\ run.ws \in [Items -> WorkspaceType \cup {None}] /\ i \in Ids(run)
      /\ run.ws[i] # None
  BY RunFields DEF Good, Integrate
<1>2. run.ws[i] \in WorkspaceType  BY <1>1
<1>3. w \in WorkspaceType /\ w.text = run.ws[i].text /\ w.outcome = run.ws[i].outcome
  BY <1>2, GenerationsAssumption DEF WorkspaceType
<1>4. run' = [run EXCEPT !.ws = [run.ws EXCEPT ![i] = w]]  BY DEF Integrate
<1> HIDE DEF w
<1> QED  BY <1>1, <1>3, <1>4, EditGood

LEMMA OperatedGood ==
  ASSUME Good(run), Pause \/ Resume \/ Reopen \/ Replan
  PROVE  Good(run') /\ Moves(run, run')
<1>1. run \in RunType /\ run.state \in StateType /\ Status(run) \in Statuses
  BY RunFields DEF Good, StatusKept
<1>2. run.state.ids \in SUBSET Items  BY <1>1 DEF StateType
<1>3. "paused" \notin Statuses  BY DoneIs
<1>4. ASSUME NEW s \in StateType, s.ids = Ids(run), run' = StateWritten(run, s),
             LET n == IF s.status = "paused" THEN s.resume ELSE s.status
             IN  n = Status(run) \/ n = "running"
      PROVE  Good(run') /\ Moves(run, run')
  <2> DEFINE t == run'
             n == IF s.status = "paused" THEN s.resume ELSE s.status
  <2>1. t.state = s /\ t.active = run.active  BY <1>1, <1>4, StateWrittenIs
  <2>2. Status(t) = n  BY <2>1 DEF Status, Paused
  <2>3. StatusKept(t) /\ Forward(run, t)
    BY <1>1, <1>4, <2>2, DoneIs, RankIs DEF StatusKept, Forward
  <2>4. Rank(Status(t)) >= 3 => Rank(Status(run)) >= 3
    BY <1>4, <2>2, RankIs
  <2>5. t = StateWritten(run, s)  BY <1>4
  <2> HIDE DEF t
  <2>6. Good(t) /\ Moves(run, t)  BY <1>4, <2>3, <2>4, <2>5, StateStep
  <2> QED  BY <2>6 DEF t
<1>5. CASE Pause
  <2> DEFINE s == [run.state EXCEPT !.status = "paused", !.resume = run.state.status]
  <2>1. run.state.status = Status(run) /\ run' = StateWritten(run, s)
    BY <1>5 DEF Pause, Operated, Status
  <2>2. /\ s \in StateType /\ s.ids = Ids(run) /\ s.status = "paused" /\ s.resume = Status(run)
    BY <1>1, <2>1 DEF StateType, Ids
  <2> HIDE DEF s
  <2> QED  BY <1>4, <2>1, <2>2
<1>6. CASE Resume
  <2> DEFINE s == [run.state EXCEPT !.status = run.state.resume, !.resume = None]
  <2>1. run.state.resume = Status(run) /\ run' = StateWritten(run, s)
    BY <1>6 DEF Resume, Operated, Status
  <2>2. /\ s \in StateType /\ s.ids = Ids(run) /\ s.status = Status(run) /\ s.status # "paused"
    BY <1>1, <1>3, <2>1 DEF StateType, Ids
  <2> HIDE DEF s
  <2> QED  BY <1>4, <2>1, <2>2
<1>7. CASE Reopen
  <2> DEFINE s == [run.state EXCEPT !.status = "running", !.resume = None]
  <2>1. run' = StateWritten(run, s)  BY <1>7 DEF Reopen, Operated
  <2>2. s \in StateType /\ s.ids = Ids(run) /\ s.status = "running"
    BY <1>1, DoneIs DEF StateType, Ids
  <2> HIDE DEF s
  <2> QED  BY <1>4, <2>1, <2>2
<1>8. CASE Replan
  <2>1. [run EXCEPT !.state = run.state] = run  BY <1>1 DEF RunType
  <2>2. run' = StateWritten(run, run.state)  BY <1>8, <2>1 DEF Replan, StateWritten
  <2> QED  BY <1>1, <1>4, <2>2 DEF Ids, Status, Paused
<1> QED  BY <1>5, <1>6, <1>7, <1>8

LEMMA StandsOn ==
  ASSUME NEW r, NEW t, Remembers(r, t), NEW i \in Items, Moved(r, i) \/ Concluded(r, i)
  PROVE  Moved(t, i) \/ Concluded(t, i)
BY DEF Remembers, Moved, Concluded, Says

\* A reconciliation, with what a caller has read or with the items as they are.
LEMMA ReconcileGood ==
  ASSUME IInv, \/ \E p \in Callers : Reconcile(p)
               \/ PublishProducts
               \/ \E add \in Additions : Retried(add)
  PROVE  Good(run') /\ Moves(run, run') /\ kills' \in 0 .. MaxKills
<1>1. Good(run) /\ kills \in 0 .. MaxKills  BY DEF IInv
<1>2. ASSUME NEW p \in Callers, Reconcile(p)
      PROVE  Good(run') /\ Moves(run, run') /\ kills' \in 0 .. MaxKills
  <2>1. call[p] # None /\ DOMAIN call[p].seen = call[p].ids  BY <1>2 DEF Reconcile
  <2>2. CASE ~Paused(run) /\ call[p].ids = Ids(run) /\ Reconciled(call[p].seen, FALSE)
    <3>1. \A i \in Ids(run) : /\ i \in DOMAIN call[p].seen
                              /\ call[p].seen[i].outcome # None => Moved(run, i) \/ Concluded(run, i)
      BY <2>1, <2>2 DEF IInv, SeenStands
    <3> QED  BY <1>1, <2>2, <3>1, ReconciledGood
  <2>3. CASE UNCHANGED <<run, kills>>  BY <1>1, <2>3, MovesSame
  <2> QED  BY <1>2, <2>2, <2>3 DEF Reconcile
<1>3. ASSUME NEW products, run.state.status # "paused", \A i \in Ids(run) : run.ws[i] # None,
             Reconciled([i \in Ids(run) |-> Facts(run, i)], products)
      PROVE  Good(run') /\ Moves(run, run') /\ kills' \in 0 .. MaxKills
  <2> DEFINE facts == [i \in Ids(run) |-> Facts(run, i)]
  <2>1. \A i \in Ids(run) : i \in DOMAIN facts  OBVIOUS
  <2>2. \A i \in Ids(run) : facts[i].outcome # None => Concluded(run, i)
    BY <1>3 DEF Facts, Concluded
  <2>3. ~Paused(run)  BY <1>3 DEF Paused
  <2>4. Reconciled(facts, products)  BY <1>3
  <2> HIDE DEF facts
  <2> QED  BY <1>1, <2>1, <2>2, <2>3, <2>4, ReconciledGood
<1>4. ASSUME PublishProducts PROVE Good(run') /\ Moves(run, run') /\ kills' \in 0 .. MaxKills
  BY <1>3, <1>4 DEF PublishProducts
<1>5. ASSUME NEW add \in Additions, Retried(add)
      PROVE  Good(run') /\ Moves(run, run') /\ kills' \in 0 .. MaxKills
  BY <1>3, <1>5 DEF Retried
<1> QED  BY <1>2, <1>4, <1>5
-----------------------------------------------------------------------------
(* The invariant. *)

LEMMA Start == Init => IInv
<1> SUFFICES ASSUME Init PROVE IInv
  OBVIOUS
<1>1. PICK left \in UNION {[S -> Texts] : S \in SUBSET Leftovers} :
        run = [active |-> 1,
               state |-> [ids |-> Initial, status |-> "initialized", resume |-> None],
               plan |-> [i \in Items |-> IF i \in Initial THEN FirstText ELSE None],
               added |-> {},
               staged |-> NotStaged,
               ws |-> [i \in Items |-> IF i \in Initial THEN Fresh(FirstText)
                                     ELSE IF i \in DOMAIN left THEN Fresh(left[i]) ELSE None],
               hist |-> [i \in Items |-> [o \in 2 .. MaxGens |-> None]]]
  BY DEF Init
<1>2. /\ call = [p \in Callers |-> None] /\ kills = 0  BY DEF Init
<1> DEFINE s == [ids |-> Initial, status |-> "initialized", resume |-> None]
           plan == [i \in Items |-> IF i \in Initial THEN FirstText ELSE None]
           w == [i \in Items |-> IF i \in Initial THEN Fresh(FirstText)
                                 ELSE IF i \in DOMAIN left THEN Fresh(left[i]) ELSE None]
           h == [i \in Items |-> [o \in 2 .. MaxGens |-> None]]
<1>3. s \in StateType /\ s.ids = Initial /\ s.status = "initialized"
  BY GenerationsAssumption, DoneIs DEF StateType
<1>4. plan \in Plans /\ Records(plan) = Initial /\ \A i \in Initial : plan[i] = FirstText
  BY GenerationsAssumption DEF Plans, Records
<1>5. NotStaged \in StagedType  BY DEF NotStaged, StagedType
<1>6. \A text \in Texts : /\ Fresh(text) \in WorkspaceType /\ Fresh(text).text = text
                          /\ Fresh(text).outcome = None /\ Fresh(text) # None
  <2>1. \A text \in Texts : Fresh(text) \in WorkspaceType  BY DEF Fresh, WorkspaceType
  <2> QED  BY <2>1, NoneIsNoRecord DEF Fresh
<1>7. \A i \in DOMAIN left : left[i] \in Texts  OBVIOUS
<1>8. /\ w \in [Items -> WorkspaceType \cup {None}]
      /\ \A i \in Items : w[i] # None => w[i].outcome = None
      /\ \A i \in Initial : w[i] = Fresh(FirstText)
  BY <1>6, <1>7, GenerationsAssumption
<1>9. h \in [Items -> [2 .. MaxGens -> WorkspaceType \cup {None}]]
      /\ \A i \in Items, o \in 2 .. MaxGens : h[i][o] = None
  OBVIOUS
<1>10. run = [active |-> 1, state |-> s, plan |-> plan, added |-> {}, staged |-> NotStaged,
              ws |-> w, hist |-> h]
  BY <1>1
<1> HIDE DEF s, plan, w, h
<1>11. /\ run.active = 1 /\ run.state = s /\ run.plan = plan /\ run.staged = NotStaged
       /\ run.ws = w /\ run.hist = h
  BY <1>10
<1>12. run \in RunType
  <2>1. 1 \in 1 .. MaxGens  BY GenerationsAssumption
  <2> QED  BY <1>3, <1>4, <1>5, <1>8, <1>9, <1>10, <2>1 DEF RunType
<1>13. Status(run) = "initialized"  BY <1>3, <1>11 DEF Status, Paused
<1>14. StatusKept(run)  BY <1>13, DoneIs DEF StatusKept
<1>15. Ids(run) = Initial  BY <1>3, <1>11 DEF Ids
<1>16. Whole(run)
  <2>1. Asks(run, plan)  BY <1>4, <1>6, <1>8, <1>11, GenerationsAssumption DEF Asks
  <2> QED  BY <1>4, <1>11, <1>15, <2>1 DEF Whole
<1>17. Earned(run)  BY <1>13, RankIs DEF Earned
<1>18. StagedGood(run)  BY <1>11 DEF StagedGood, NotStaged
<1>19. OrphansFresh(run)  BY <1>8, <1>11 DEF OrphansFresh
<1>20. HistoryGood(run)  BY <1>9, <1>11 DEF HistoryGood
<1>21. kills \in 0 .. MaxKills  BY <1>2, GenerationsAssumption
<1>22. SeenStands /\ call \in [Callers -> CallType \cup {None}]  BY <1>2 DEF SeenStands
<1> QED  BY <1>12, <1>14, <1>16, <1>17, <1>18, <1>19, <1>20, <1>21, <1>22 DEF IInv, Good

\* What a caller has read: a caller that reads, and one whose call ends.
LEMMA ReadGood ==
  ASSUME IInv, NEW p \in Callers, Begin(p) \/ \E i \in Items : ReadItem(p, i)
  PROVE  IInv'
<1>1. run' = run /\ kills' = kills  BY DEF Begin, ReadItem
<1>2. run \in RunType /\ run.state \in StateType /\ Ids(run) \in SUBSET Items
  BY RunFields DEF IInv, Good, Ids, StateType
<1>3. call \in [Callers -> CallType \cup {None}]  BY DEF IInv
<1>4. ASSUME NEW c, c \in CallType \cup {None}, call' = [call EXCEPT ![p] = c],
             c # None => \A i \in DOMAIN c.seen :
                           c.seen[i].outcome # None => Moved(run, i) \/ Concluded(run, i)
      PROVE  IInv'
  <2>1. call' \in [Callers -> CallType \cup {None}]  BY <1>3, <1>4
  <2>2. \A q \in Callers : call'[q] = IF q = p THEN c ELSE call[q]  BY <1>3, <1>4
  <2>3. \A q \in Callers : call'[q] # None =>
          \A i \in DOMAIN call'[q].seen :
            call'[q].seen[i].outcome # None => Moved(run, i) \/ Concluded(run, i)
    BY <1>4, <2>2 DEF IInv, SeenStands
  <2>4. SeenStands'  BY <1>1, <2>3 DEF SeenStands, Moved, Concluded
  <2>5. Good(run') /\ kills' \in 0 .. MaxKills  BY <1>1 DEF IInv
  <2> QED  BY <2>1, <2>4, <2>5 DEF IInv
<1>5. CASE Begin(p)
  <2> DEFINE none == [i \in {} |-> None]
             c == [ids |-> Ids(run), status |-> run.state.status, seen |-> none]
  <2>1. none \in [{} -> FactsType] /\ DOMAIN none = {}  OBVIOUS
  <2>2. call' = [call EXCEPT ![p] = c]  BY <1>5 DEF Begin
  <2> HIDE DEF none
  <2>3. none \in UNION {[S -> FactsType] : S \in SUBSET Items}  BY <2>1
  <2>4. c \in CallType /\ DOMAIN c.seen = {}
    BY <1>2, <2>1, <2>3 DEF CallType, StateType, Ids
  <2> HIDE DEF c
  <2> QED  BY <1>4, <2>2, <2>4
<1>6. ASSUME NEW i \in Items, ReadItem(p, i) PROVE IInv'
  <2>1. call[p] # None /\ i \in call[p].ids  BY <1>6 DEF ReadItem
  <2>2. CASE run.ws[i] = None
    <3>1. call' = [call EXCEPT ![p] = None]  BY <1>6, <2>2 DEF ReadItem
    <3> QED  BY <1>4, <3>1
  <2>3. CASE run.ws[i] # None
    <3> DEFINE old == call[p].seen
               new == [j \in DOMAIN old \cup {i} |-> IF j = i THEN Facts(run, i) ELSE old[j]]
               c == [call[p] EXCEPT !.seen = new]
    <3>1. call[p] \in CallType  BY <1>3, <2>1
    <3>2. /\ old \in UNION {[S -> FactsType] : S \in SUBSET Items}
          /\ DOMAIN old \subseteq call[p].ids /\ call[p].ids \in SUBSET Items
      BY <3>1 DEF CallType
    <3>3. Facts(run, i) \in FactsType
      <4>1. run.ws[i] \in WorkspaceType  BY <1>2, <2>3, RunFields
      <4> QED  BY <4>1 DEF Facts, FactsType, WorkspaceType
    <3>4. \A j \in DOMAIN old : old[j] \in FactsType  BY <3>2
    <3>5. new \in [DOMAIN old \cup {i} -> FactsType]  BY <3>3, <3>4
    <3>6. DOMAIN old \cup {i} \in SUBSET Items /\ DOMAIN new \subseteq call[p].ids
      BY <2>1, <3>2
    <3>7. \A j \in DOMAIN new : new[j].outcome # None => Moved(run, j) \/ Concluded(run, j)
      <4>1. \A j \in DOMAIN new : j = i \/ (j \in DOMAIN old /\ new[j] = old[j])  OBVIOUS
      <4>2. Facts(run, i).outcome # None => Concluded(run, i)
        BY <2>3 DEF Facts, Concluded
      <4>3. \A j \in DOMAIN old : old[j].outcome # None => Moved(run, j) \/ Concluded(run, j)
        BY <2>1 DEF IInv, SeenStands
      <4>4. new[i] = Facts(run, i)  OBVIOUS
      <4> HIDE DEF new, old
      <4> QED  BY <4>1, <4>2, <4>3, <4>4
    <3>8. call' = [call EXCEPT ![p] = c]  BY <1>6, <2>3 DEF ReadItem
    <3> HIDE DEF new
    <3>9. new \in UNION {[S -> FactsType] : S \in SUBSET Items}  BY <3>5, <3>6
    <3>10. c \in CallType /\ c.seen = new  BY <3>1, <3>6, <3>9 DEF CallType
    <3> HIDE DEF c
    <3> QED  BY <1>4, <3>7, <3>8, <3>10
  <2> QED  BY <2>2, <2>3
<1> QED  BY <1>5, <1>6

\* Every step keeps the invariant and loses nothing.
LEMMA Step ==
  ASSUME IInv, [Next]_vars
  PROVE  IInv' /\ Moves(run, run')
<1>1. Good(run) /\ kills \in 0 .. MaxKills /\ call \in [Callers -> CallType \cup {None}]
  BY DEF IInv
<1>2. ASSUME Good(run'), Moves(run, run'), kills' \in 0 .. MaxKills,
             call' = call \/ \E p \in Callers : call' = [call EXCEPT ![p] = None]
      PROVE  IInv' /\ Moves(run, run')
  <2>1. call' \in [Callers -> CallType \cup {None}]  BY <1>1, <1>2
  <2>2. ASSUME NEW p \in Callers, call'[p] # None, NEW i \in DOMAIN call'[p].seen,
               call'[p].seen[i].outcome # None
        PROVE  Moved(run', i) \/ Concluded(run', i)
    <3>1. call'[p] = call[p]  BY <1>1, <1>2, <2>2
    <3>2. call[p] \in CallType  BY <1>1, <2>2, <3>1
    <3>3. i \in Items  BY <2>2, <3>1, <3>2 DEF CallType
    <3>4. Moved(run, i) \/ Concluded(run, i)  BY <2>2, <3>1 DEF IInv, SeenStands
    <3> QED  BY <1>2, <3>3, <3>4, StandsOn DEF Moves
  <2>3. SeenStands'  BY <2>2 DEF SeenStands
  <2> QED  BY <1>2, <2>1, <2>3 DEF IInv
<1>3. ASSUME NEW p \in Callers, Begin(p) \/ \E i \in Items : ReadItem(p, i)
      PROVE  IInv' /\ Moves(run, run')
  <2>1. run' = run  BY <1>3 DEF Begin, ReadItem
  <2>2. Moves(run, run)  BY <1>1, MovesSame
  <2> QED  BY <1>3, <2>1, <2>2, ReadGood
<1>4. ASSUME NEW p \in Callers, Reconcile(p) PROVE IInv' /\ Moves(run, run')
  <2>1. call' = [call EXCEPT ![p] = None]  BY <1>4 DEF Reconcile
  <2> QED  BY <1>2, <1>4, <2>1, ReconcileGood
<1>5. ASSUME PublishProducts \/ \E add \in Additions : Retried(add)
      PROVE  IInv' /\ Moves(run, run')
  <2>1. call' = call  BY <1>5 DEF PublishProducts, Retried
  <2> QED  BY <1>2, <1>5, <2>1, ReconcileGood
<1>6. ASSUME Pause \/ Resume \/ Reopen \/ Replan PROVE IInv' /\ Moves(run, run')
  <2>1. call' = call /\ kills' = kills  BY <1>6 DEF Pause, Resume, Reopen, Replan, Operated
  <2> QED  BY <1>1, <1>2, <1>6, <2>1, OperatedGood
<1>7. ASSUME NEW i \in Items, NEW o \in Outcomes, Decide(i, o) PROVE IInv' /\ Moves(run, run')
  <2>1. call' = call /\ kills' = kills  BY <1>7 DEF Decide
  <2> QED  BY <1>1, <1>2, <1>7, <2>1, DecideGood
<1>8. ASSUME NEW i \in Items, NEW m \in Results, Integrate(i, m)
      PROVE  IInv' /\ Moves(run, run')
  <2>1. call' = call /\ kills' = kills  BY <1>8 DEF Integrate
  <2> QED  BY <1>1, <1>2, <1>8, <2>1, IntegrateGood
<1>9. ASSUME NEW add \in Additions, Append(add) PROVE IInv' /\ Moves(run, run')
  <2>1. call' = call  BY <1>9 DEF Append
  <2> QED  BY <1>1, <1>2, <1>9, <2>1, AppendGood
<1>10. ASSUME NEW plan \in Plans, Revise(plan) PROVE IInv' /\ Moves(run, run')
  <2>1. call' = call  BY <1>10 DEF Revise
  <2> QED  BY <1>1, <1>2, <1>10, <2>1, ReviseGood
<1>11. CASE UNCHANGED vars
  <2>1. run' = run /\ call' = call /\ kills' = kills  BY <1>11 DEF vars
  <2>2. Moves(run, run)  BY <1>1, MovesSame
  <2> QED  BY <1>1, <1>2, <2>1, <2>2
<1> QED  BY <1>3, <1>4, <1>5, <1>6, <1>7, <1>8, <1>9, <1>10, <1>11 DEF Next

LEMMA Invariant == Spec => []IInv
<1>1. IInv /\ [Next]_vars => IInv'  BY Step
<1> QED  BY Start, <1>1, PTL DEF Spec

-----------------------------------------------------------------------------
(* The theorems. *)

\* The run record, the generations, the workspaces with their history and what
\* the callers have read have their types (lifecycle.py, run_extension.py).
THEOREM TypeCorrect == Spec => []TypeOK
<1>1. IInv => TypeOK  BY DEF IInv, Good, TypeOK
<1> QED  BY Invariant, <1>1, PTL

\* Whatever appends and revisions were staged, killed, refused and retried,
\* the active generation's state file, plan and workspaces agree
\* (run_extension.py append, revise).
THEOREM WholeGeneration == Spec => []ActiveIsWhole
<1>1. IInv => ActiveIsWhole
  <2> SUFFICES ASSUME IInv PROVE ActiveIsWhole
    OBVIOUS
  <2>1. Whole(run) /\ Cut(run) = CutShort  BY DEF IInv, Good, Cut, CutShort
  <2> QED  BY <2>1 DEF ActiveIsWhole, Whole, Asks
<1> QED  BY Invariant, <1>1, PTL

\* A generation is analytically complete only when each requirement whose
\* workspace was not replaced is concluded, although the items are read
\* outside the run lock (lifecycle.py reconcile_from_run).
THEOREM EarnedCompletion == Spec => []CompletionIsEarned
<1>1. IInv => CompletionIsEarned
  <2> SUFFICES ASSUME IInv PROVE CompletionIsEarned
    OBVIOUS
  <2>1. Earned(run) /\ Cut(run) = CutShort  BY DEF IInv, Good, Cut, CutShort
  <2>2. Reached("analytical_complete") = (Rank(Status(run)) >= 3)  BY RankIs DEF Reached
  <2> QED  BY <2>1, <2>2 DEF CompletionIsEarned, Earned, Moved, Replaced, Concluded
<1> QED  BY Invariant, <1>1, PTL

\* No edit, cut short or not, retried or rolled back, loses a conclusion: it
\* stays in its workspace or in the history (run_extension.py revise).
THEOREM ConclusionsAreKept == Spec => NothingLost
<1>1. IInv /\ [Next]_vars => [\A i \in Items : Kept(run, i) \subseteq Kept(run', i)]_vars
  <2> SUFFICES ASSUME IInv, [Next]_vars, NEW i \in Items
               PROVE  Kept(run, i) \subseteq Kept(run', i)
    OBVIOUS
  <2>1. Remembers(run, run')  BY Step DEF Moves
  <2>2. ASSUME NEW x \in Kept(run, i) PROVE x \in Kept(run', i)
    <3>1. PICK w \in {run.ws[i]} \cup {run.hist[i][o] : o \in 2 .. MaxGens} :
            w # None /\ w.outcome # None /\ x = <<w.text, w.outcome>>
      BY <2>2 DEF Kept
    <3>2. ASSUME NEW v \in {run'.ws[i]} \cup {run'.hist[i][o] : o \in 2 .. MaxGens}, Says(v, w)
          PROVE  x \in Kept(run', i)
      BY <3>1, <3>2 DEF Kept, Says
    <3>3. CASE w = run.ws[i]
      <4>1. Concluded(run, i)  BY <3>1, <3>3 DEF Concluded
      <4>2. \/ Says(run'.ws[i], w)
            \/ \E o \in 2 .. MaxGens : Says(run'.hist[i][o], w)
        BY <2>1, <3>3, <4>1 DEF Remembers
      <4> QED  BY <3>2, <4>2
    <3>4. CASE \E o \in 2 .. MaxGens : w = run.hist[i][o]
      <4>1. PICK o \in 2 .. MaxGens : w = run.hist[i][o]  BY <3>4
      <4>2. run'.hist[i][o] = w  BY <2>1, <3>1, <4>1 DEF Remembers
      <4> QED  BY <3>1, <3>2, <4>2 DEF Says
    <3> QED  BY <3>1, <3>3, <3>4
  <2> QED  BY <2>2
<1> QED  BY Invariant, <1>1, PTL DEF Spec, NothingLost

\* Within a generation the status goes forward or, by reopen, back to
\* running, whatever the callers' handles say (lifecycle.py).
THEOREM StatusGoesForward == Spec => NeverRegresses
<1>1. IInv /\ [Next]_vars =>
        [run'.active = run.active =>
           Rank(Status(run')) >= Rank(Status(run)) \/ Status(run') = "running"]_vars
  BY Step DEF Moves, Forward
<1> QED  BY Invariant, <1>1, PTL DEF Spec, NeverRegresses
=============================================================================
