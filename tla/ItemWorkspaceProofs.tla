------------------------- MODULE ItemWorkspaceProofs -------------------------
(* Whatever the handles, drafts, discards and kills: theorems about          *)
(* ItemWorkspace.                                                            *)
EXTENDS ItemWorkspace, SequenceTheorems, TLAPS

\* The review is of some draft, if there is one; and a state that load lets pass.
Reviewed(s) == s.verdict # None => s.judged \in Drafts
Proper(s) == ValidState(s) /\ Reviewed(s)

\* What a discard leaves.
Restarted(s) == /\ s.life = "work" /\ s.verdict = None /\ s.judged = None
                /\ s.active = None /\ s.intent = None /\ s.outcome = None

Answer(a) == LifeOf(a.outcome) = "accepted"
Blocked(a) == a.outcome = "blocked_by_evidence"

\* An item is closed after its publication only, and by what was published; a
\* blocked one keeps the opinion that let it end so.
Agrees(d) ==
  /\ d.accepted = None => d.state.life \notin Terminal
  /\ d.accepted # None =>
       /\ d.state.intent = d.accepted
       /\ d.state.life \in Terminal => d.state.outcome = d.accepted
       /\ Blocked(d.accepted) =>
            /\ d.state.verdict = "confirm_data_insufficiency"
            /\ d.state.judged = d.accepted.draft

EnvelopeKept(d) ==
  d.packet # None /\ d.packet.active =>
    d.draft # None /\ Envelope[d.draft] = Envelope[d.packet.before]

DiscardGood(a) ==
  a # None /\ a.intent # None => Proper(a.intent.after) /\ Restarted(a.intent.after)

Good(d) ==
  /\ d \in Disks /\ Proper(d.state) /\ Agrees(d) /\ EnvelopeKept(d) /\ DiscardGood(d.anchor)

\* What the publication of an answer freezes of the state.
Frozen(s, t) ==
  /\ s.verdict = t.verdict /\ s.judged = t.judged /\ s.active = t.active
  /\ s.repairs = t.repairs /\ s.stamp = t.stamp /\ s.intent = t.intent

SameOpinion(s, t) == s.verdict = t.verdict /\ s.judged = t.judged

\* A state of a closed item agrees with the publication, wherever it is kept.
Current(s, d) ==
  s.life \in Terminal =>
    /\ d.accepted # None
    /\ s.life = LifeOf(d.accepted.outcome) /\ s.outcome = d.accepted
    /\ s.intent = d.accepted /\ s.active = None
    /\ Answer(d.accepted) => Frozen(d.state, s)
    /\ Blocked(d.accepted) => SameOpinion(d.state, s)

\* The intent to publish an answer is the published one, or from before a kill:
\* it will not be published any more.
Older(s, d, k) ==
  s.intent # None /\ Answer(s.intent) => s.intent = d.accepted \/ s.intent.at < k

\* A copy that holds the published intent holds what it froze.
Dated(s, d, k) ==
  /\ Older(s, d, k)
  /\ s.intent # None /\ Answer(s.intent) /\ s.intent = d.accepted => Frozen(d.state, s)

Copied(s, d, k) == Proper(s) /\ Current(s, d) /\ Dated(s, d, k)

\* What h may still have to write, over d, after k kills and when l has the lock.
GoodWrites(h, d, l, k) ==
  {w \in Files :
     /\ w.file = "state" => Reviewed(w.to) /\ Current(w.to, d) /\ Older(w.to, d, k)
     /\ w.file = "packet" /\ w.to # None =>
          /\ l = h
          /\ w.to.active => d.draft # None /\ Envelope[d.draft] = Envelope[w.to.before]
     /\ w.file = "anchor" => DiscardGood(w.to)}

Stages == {"idle", "review", "terminal", "opening", "ready"}

IInv ==
  /\ Good(disk) /\ Dated(disk.state, disk, kills)
  /\ kills \in 0..MaxKills /\ lock \in Handles \cup {None}
  /\ mem \in [Handles -> States \cup {None}]
  /\ \A h \in Handles : mem[h] # None => Copied(mem[h], disk, kills)
  /\ call \in [Handles -> Calls]
  /\ \A h \in Handles : /\ call[h].todo \in Seq(GoodWrites(h, disk, lock, kills))
                        /\ call[h].undo \in Seq(GoodWrites(h, disk, lock, kills))

LEMMA Calling ==
  ASSUME NEW at \in Stages, NEW todo \in Seq(Files), NEW undo \in Seq(Files)
  PROVE  /\ Doing(at, todo, undo) \in Calls /\ Doing(at, todo, undo).todo = todo
         /\ Doing(at, todo, undo).undo = undo
BY DEF Doing, Calls, Stages

LEMMA NoWrites == \A S : <<>> \in Seq(S)
OBVIOUS

LEMMA MoreWrites ==
  ASSUME NEW S, NEW T, S \subseteq T
  PROVE  Seq(S) \subseteq Seq(T)
OBVIOUS

LEMMA GoodAreFiles == \A h, d, l, k : Seq(GoodWrites(h, d, l, k)) \subseteq Seq(Files)
<1> TAKE h, d, l, k
<1>1. GoodWrites(h, d, l, k) \subseteq Files  BY DEF GoodWrites
<1> QED  BY <1>1, MoreWrites

LEMMA Start == Init => IInv
<1> SUFFICES ASSUME Init PROVE IInv
  OBVIOUS
<1>1. Fresh \in States /\ Proper(Fresh)
  BY ItemAssumption DEF Fresh, States, Proper, Reviewed, ValidState, Lives, Terminal
<1>2. disk \in Disks
  BY <1>1, ItemAssumption DEF Init, Disks
<1>3. Good(disk) /\ Dated(disk.state, disk, kills)
  BY <1>1, <1>2 DEF Init, Good, Agrees, EnvelopeKept, DiscardGood, Fresh, Terminal, Dated, Older
<1>4. kills \in 0..MaxKills /\ mem \in [Handles -> States \cup {None}]
      /\ lock \in Handles \cup {None}
  BY ItemAssumption DEF Init
<1>6. NoCall \in Calls /\ NoCall.todo = <<>> /\ NoCall.undo = <<>>
  <2>1. <<>> \in Seq(Files)  OBVIOUS
  <2> QED  BY <2>1 DEF NoCall, Doing, Calls
<1>7. call \in [Handles -> Calls] /\ \A h \in Handles : call[h] = NoCall
  BY <1>6 DEF Init
<1> HIDE DEF Init
<1>8. \A h \in Handles : mem[h] = None  BY DEF Init
<1> QED  BY <1>3, <1>4, <1>6, <1>7, <1>8, NoWrites DEF IInv

-----------------------------------------------------------------------------
(* What becomes of a directory. *)

\* No publication: an open item's state may change, a published one's may not.
Keeps(d, e) ==
  /\ e.accepted = d.accepted /\ (d.accepted # None => e.state = d.state)
  /\ e.state.intent \in {None, d.state.intent}

\* A published item: its state agrees with it from now on.
Settles(d, e) ==
  /\ d.accepted # None /\ e.accepted = d.accepted
  /\ Answer(d.accepted) => Frozen(e.state, d.state)
  /\ Blocked(d.accepted) => SameOpinion(e.state, d.state)
  /\ \/ e.state.life = d.state.life
     \/ d.state.life \notin Terminal /\ e.state.life = LifeOf(d.accepted.outcome)

\* The publication, after k kills: of a failure, or of what the standing opinion
\* lets pass.
Publishes(d, e, k) ==
  /\ d.accepted = None /\ e.accepted \in Snapshots
  /\ e.state.life \in Terminal => e.state.life = LifeOf(e.accepted.outcome)
  /\ Answer(e.accepted) => e.accepted.at = k
  /\ \/ /\ e.accepted.outcome = "technical_failure" /\ e.accepted.draft = None
        /\ SameOpinion(e.state, d.state) \/ e.state.verdict = None
     \/ /\ SameOpinion(e.state, d.state) /\ e.accepted.draft = d.state.judged
        /\ \/ d.state.verdict \in Accepting /\ e.accepted.outcome = OutcomeOf(d.state.verdict)
           \/ /\ d.state.verdict = "confirm_data_insufficiency"
              /\ e.accepted.outcome = "blocked_by_evidence"

Moves(d, e, k) == Keeps(d, e) \/ Settles(d, e) \/ Publishes(d, e, k)

\* Nothing is published before or after: the state is whatever it is.
Opens(d, e) == d.accepted = None /\ e.accepted = None
Steps(d, e, k) == Moves(d, e, k) \/ Opens(d, e)

\* The intent of a publication that a kill cut short.
Intends(d, e, k) ==
  /\ Opens(d, e)
  /\ e.state.intent # None /\ Answer(e.state.intent) => e.state.intent.at = k

\* A call of h under the lock has left the directory e.
Left(h, e) ==
  /\ Free(h) /\ disk' = e /\ Good(e)
  /\ call' = call /\ lock' = lock
  /\ \/ Moves(disk, e, kills) /\ mem' = [mem EXCEPT ![h] = e.state] /\ kills' = kills
     \/ /\ Moves(disk, e, kills) \/ Intends(disk, e, kills)
        /\ mem' = [mem EXCEPT ![h] = None] /\ kills' = kills + 1 /\ kills < MaxKills

\* A copy stays current: a closed item is settled for good.
LEMMA StaysCurrent ==
  ASSUME NEW d, NEW e, NEW s, NEW k, Good(d), Steps(d, e, k), Current(s, d)
  PROVE  Current(s, e)
<1> SUFFICES ASSUME s.life \in Terminal PROVE Current(s, e)
  BY DEF Current
<1>1. d.accepted # None  BY DEF Current
<1>2. Keeps(d, e) \/ Settles(d, e)  BY <1>1 DEF Steps, Moves, Publishes, Opens
<1> QED  BY <1>1, <1>2 DEF Current, Keeps, Settles, Frozen, SameOpinion

LEMMA AnswersAreDated == \A a \in Snapshots : a.at \in 0..MaxKills
BY DEF Snapshots

LEMMA StaysOlder ==
  ASSUME NEW d, NEW e, NEW s \in States, NEW k \in 0..MaxKills, NEW n \in 0..MaxKills,
         Steps(d, e, k), Older(s, d, k), n \in {k, k + 1}
  PROVE  Older(s, e, n)
<1> SUFFICES ASSUME s.intent # None, Answer(s.intent), s.intent # e.accepted
             PROVE  s.intent.at < n
  BY DEF Older
<1>1. s.intent.at \in 0..MaxKills  BY AnswersAreDated DEF States
<1>2. s.intent # d.accepted
  BY DEF Steps, Moves, Keeps, Settles, Publishes, Opens
<1>3. s.intent.at < k  BY <1>2 DEF Older
<1> QED  BY <1>1, <1>3, ItemAssumption

LEMMA StaysDated ==
  ASSUME NEW d, NEW e, NEW s \in States, NEW k \in 0..MaxKills, NEW n \in 0..MaxKills,
         Steps(d, e, k), Dated(s, d, k), n \in {k, k + 1}
  PROVE  Dated(s, e, n)
<1>1. Older(s, e, n)  BY StaysOlder DEF Dated
<1>2. ASSUME s.intent # None, Answer(s.intent), s.intent = e.accepted
      PROVE  Frozen(e.state, s)
  <2>1. CASE d.accepted = None
    <3>1. Publishes(d, e, k)  BY <2>1, <1>2 DEF Steps, Moves, Keeps, Settles, Opens
    <3>2. s.intent.at = k  BY <3>1, <1>2 DEF Publishes
    <3>3. s.intent.at < k  BY <2>1, <1>2 DEF Dated, Older
    <3> QED  BY <3>2, <3>3, ItemAssumption
  <2>2. CASE d.accepted # None
    <3>1. Keeps(d, e) \/ Settles(d, e)  BY <2>2 DEF Steps, Moves, Publishes, Opens
    <3>2. s.intent = d.accepted  BY <3>1, <1>2 DEF Keeps, Settles
    <3>3. Frozen(d.state, s)  BY <3>2, <1>2 DEF Dated
    <3> QED  BY <2>2, <3>1, <3>2, <3>3, <1>2 DEF Keeps, Settles, Frozen
  <2> QED  BY <2>1, <2>2
<1> QED  BY <1>1, <1>2 DEF Dated

LEMMA StaysCopied ==
  ASSUME NEW d, NEW e, NEW s \in States, NEW k \in 0..MaxKills, NEW n \in 0..MaxKills,
         Good(d), Steps(d, e, k), Copied(s, d, k), n \in {k, k + 1}
  PROVE  Copied(s, e, n)
BY StaysCurrent, StaysDated DEF Copied

LEMMA StateCopied ==
  ASSUME NEW d, Good(d), NEW k, Dated(d.state, d, k)
  PROVE  Copied(d.state, d, k)
BY DEF Good, Copied, Current, Agrees, Frozen, SameOpinion, Proper, ValidState

\* What is still to be written stays good: the draft changes under the lock only.
LEMMA WritesStay ==
  ASSUME NEW d, NEW e, NEW k \in 0..MaxKills, NEW n \in 0..MaxKills, Good(d), Steps(d, e, k),
         n \in {k, k + 1}, NEW h, NEW l, NEW m, l # h \/ (m = l /\ e.draft = d.draft)
  PROVE  Seq(GoodWrites(h, d, l, k)) \subseteq Seq(GoodWrites(h, e, m, n))
<1>0. SUFFICES ASSUME NEW w \in Files, w \in GoodWrites(h, d, l, k)
               PROVE  w \in GoodWrites(h, e, m, n)
  <2>1. GoodWrites(h, d, l, k) \subseteq GoodWrites(h, e, m, n)  BY <1>0 DEF GoodWrites
  <2> QED  BY <2>1, MoreWrites
<1>1. ASSUME w.file = "state"
      PROVE  Reviewed(w.to) /\ Current(w.to, e) /\ Older(w.to, e, n)
  <2>1. Reviewed(w.to) /\ Current(w.to, d) /\ Older(w.to, d, k) /\ w.to \in States
    BY <1>0, <1>1 DEF GoodWrites, Files
  <2> QED  BY <2>1, StaysCurrent, StaysOlder
<1>2. ASSUME w.file = "packet", w.to # None
      PROVE  m = h /\ (w.to.active => e.draft # None /\ Envelope[e.draft] = Envelope[w.to.before])
  <2>1. l = h /\ (w.to.active => d.draft # None /\ Envelope[d.draft] = Envelope[w.to.before])
    BY <1>0, <1>2 DEF GoodWrites
  <2> QED  BY <2>1
<1>3. w.file = "anchor" => DiscardGood(w.to)  BY <1>0 DEF GoodWrites
<1> QED  BY <1>1, <1>2, <1>3 DEF GoodWrites

LEMMA LeftDated ==
  ASSUME IInv, NEW h \in Handles, NEW e, Left(h, e)
  PROVE  /\ Dated(disk'.state, disk', kills') /\ kills' \in 0..MaxKills
         /\ kills' \in {kills, kills + 1}
<1>1. disk' = e /\ Good(e) /\ kills' \in {kills, kills + 1} /\ kills \in 0..MaxKills
      /\ Dated(disk.state, disk, kills)
  BY DEF Left, IInv
<1>2. kills' \in 0..MaxKills  BY <1>1, ItemAssumption DEF Left
<1>3. disk.state \in States /\ e.state \in States  BY <1>1 DEF Good, Disks, IInv
<1>4. CASE Keeps(disk, e) /\ disk.accepted # None
  <2>1. Dated(disk.state, e, kills')  BY <1>1, <1>2, <1>3, <1>4, StaysDated DEF Steps, Moves
  <2> QED  BY <1>1, <1>2, <1>4, <2>1 DEF Keeps
<1>5. CASE Keeps(disk, e) /\ disk.accepted = None
  <2>1. Dated(disk.state, e, kills')  BY <1>1, <1>2, <1>3, <1>5, StaysDated DEF Steps, Moves
  <2> QED  BY <1>1, <1>2, <1>5, <2>1 DEF Keeps, Dated, Older
<1>6. CASE Settles(disk, e) \/ Publishes(disk, e, kills)
  <2>1. e.accepted # None  BY <1>6, NoneIsNoRecord DEF Settles, Publishes
  <2>2. e.state.intent = e.accepted  BY <2>1, <1>1 DEF Good, Agrees
  <2> QED  BY <1>1, <1>2, <2>2 DEF Dated, Older, Frozen
<1>7. CASE Intends(disk, e, kills) /\ kills' = kills + 1
  <2>1. e.accepted = None  BY <1>7 DEF Intends, Opens
  <2>2. e.state.intent # None /\ Answer(e.state.intent) => e.state.intent.at < kills'
    BY <1>1, <1>7, ItemAssumption DEF Intends
  <2> QED  BY <1>1, <1>2, <2>1, <2>2 DEF Dated, Older
<1> QED  BY <1>1, <1>2, <1>4, <1>5, <1>6, <1>7 DEF Left, Moves

LEMMA LeftKeeps ==
  ASSUME IInv, NEW h \in Handles, NEW e, Left(h, e)
  PROVE  IInv'
<1>1. Good(disk') /\ Steps(disk, disk', kills)  BY DEF Left, Steps, Intends
<1>2. /\ kills' \in 0..MaxKills /\ kills' \in {kills, kills + 1}
      /\ Dated(disk'.state, disk', kills')
  BY LeftDated
<1>3. e.state \in States  BY DEF Left, Good, Disks
<1>4. mem' \in [Handles -> States \cup {None}]  BY <1>3 DEF IInv, Left
<1>5. ASSUME NEW g \in Handles, mem'[g] # None
      PROVE  Copied(mem'[g], disk', kills')
  <2>1. CASE mem'[g] = mem[g]
    <3>1. mem[g] \in States /\ Copied(mem[g], disk, kills)  BY <2>1, <1>5 DEF IInv
    <3> QED  BY <2>1, <3>1, <1>1, <1>2, StaysCopied DEF IInv
  <2>2. CASE mem'[g] = disk'.state
    BY <2>2, <1>1, <1>2, StateCopied
  <2> QED  BY <2>1, <2>2, <1>5 DEF IInv, Left
<1>6. ASSUME NEW g \in Handles
      PROVE  call'[g].todo \in Seq(GoodWrites(g, disk', lock', kills')) /\ call'[g].undo \in Seq(GoodWrites(g, disk', lock', kills'))
  <2>1. lock = None /\ call' = call  BY DEF Left, Free
  <2>2. lock # g  BY <2>1, ItemAssumption
  <2>4. Seq(GoodWrites(g, disk, lock, kills)) \subseteq Seq(GoodWrites(g, disk', lock', kills'))
    BY <1>1, <1>2, <2>2, WritesStay DEF IInv
  <2> QED  BY <2>1, <2>4 DEF IInv
<1>7. call' \in [Handles -> Calls] /\ lock' \in Handles \cup {None}  BY DEF Left, IInv
<1> QED  BY <1>1, <1>2, <1>4, <1>5, <1>6, <1>7 DEF IInv

\* A call that takes no lock goes to its next stage and changes no file.
LEMMA GoesKeeps ==
  ASSUME IInv, NEW h \in Handles, NEW at \in Stages, NEW todo \in Seq(GoodWrites(h, disk, lock, kills)),
         Goes(h, at, todo), UNCHANGED <<disk, lock, kills>>,
         NEW x \in States \cup {None}, x # None => Copied(x, disk, kills),
         mem' \in {mem, [mem EXCEPT ![h] = x]}
  PROVE  IInv'
<1>1. \A g \in Handles : GoodWrites(g, disk', lock', kills') = GoodWrites(g, disk, lock, kills)
  OBVIOUS
<1>2. todo \in Seq(Files)  BY GoodAreFiles
<1>3. <<>> \in Seq(Files) /\ <<>> \in Seq(GoodWrites(h, disk, lock, kills))  BY NoWrites
<1>4. /\ Doing(at, todo, <<>>) \in Calls
      /\ Doing(at, todo, <<>>).todo = todo /\ Doing(at, todo, <<>>).undo = <<>>
  BY <1>2, <1>3 DEF Doing, Calls, Stages
<1>5. call' \in [Handles -> Calls]  BY <1>4 DEF Goes, IInv
<1>6. ASSUME NEW g \in Handles
      PROVE  call'[g].todo \in Seq(GoodWrites(g, disk', lock', kills')) /\ call'[g].undo \in Seq(GoodWrites(g, disk', lock', kills'))
  <2>1. CASE g = h
    <3>1. call'[g] = Doing(at, todo, <<>>)  BY <2>1 DEF Goes, IInv
    <3> QED  BY <2>1, <3>1, <1>1, <1>3, <1>4
  <2>2. CASE g # h
    <3>1. call'[g] = call[g]  BY <2>2 DEF Goes, IInv
    <3> QED  BY <3>1, <1>1 DEF IInv
  <2> QED  BY <2>1, <2>2
<1>7. mem' \in [Handles -> States \cup {None}]  BY DEF IInv
<1>8. ASSUME NEW g \in Handles, mem'[g] # None PROVE Copied(mem'[g], disk', kills')
  <2>1. mem'[g] = mem[g] \/ mem'[g] = x  BY DEF IInv
  <2> QED  BY <2>1, <1>8 DEF IInv
<1>9. Good(disk') /\ Dated(disk'.state, disk', kills') /\ kills' \in 0..MaxKills
      /\ lock' \in Handles \cup {None}
  BY DEF IInv
<1> QED  BY <1>5, <1>6, <1>7, <1>8, <1>9 DEF IInv
LEMMA KeepsFollows ==
  ASSUME NEW d, NEW e, NEW f, Keeps(d, e), Keeps(e, f)
  PROVE  Keeps(d, f)
BY DEF Keeps
-----------------------------------------------------------------------------
(* One file of a directory is written. *)

LEMMA Written ==
  ASSUME NEW d \in Disks
  PROVE  /\ \A s \in States : [d EXCEPT !.state = s] \in Disks
         /\ \A v \in Drafts \cup {None} : [d EXCEPT !.draft = v] \in Disks
         /\ \A w \in Works : [d EXCEPT !.work = w] \in Disks
         /\ \A o \in Owners \cup {None} : [d EXCEPT !.owner = o] \in Disks
         /\ \A k \in Packets \cup {None} : [d EXCEPT !.packet = k] \in Disks
         /\ \A r \in Reports \cup {None} : [d EXCEPT !.conclusion = r] \in Disks
         /\ \A a \in Anchors \cup {None} : [d EXCEPT !.anchor = a] \in Disks
         /\ \A n \in 0..MaxDiscards : [d EXCEPT !.audit = n] \in Disks
         /\ \A a \in Snapshots \cup {None} : [d EXCEPT !.accepted = a] \in Disks
BY DEF Disks

LEMMA Fields ==
  ASSUME NEW d \in Disks
  PROVE  /\ d.state \in States /\ d.draft \in Drafts \cup {None} /\ d.work \in Works
         /\ d.owner \in Owners \cup {None} /\ d.packet \in Packets \cup {None}
         /\ d.conclusion \in Reports \cup {None} /\ d.anchor \in Anchors \cup {None}
         /\ d.audit \in 0..MaxDiscards /\ d.accepted \in Snapshots \cup {None}
BY DEF Disks

\* The state is written, as _persist_state lets it.
LEMMA GoodWritten ==
  ASSUME NEW d, Good(d), NEW s \in States, Persistable(d, s), s.life \notin Terminal, Reviewed(s)
  PROVE  LET e == [d EXCEPT !.state = s]
         IN  Good(e) /\ d.accepted = None /\ e.accepted = None /\ e.state = s
<1> DEFINE e == [d EXCEPT !.state = s]
<1>0. d \in Disks /\ d.accepted = None  BY DEF Good, Persistable
<1>1. /\ e \in Disks /\ e.state = s /\ e.packet = d.packet /\ e.draft = d.draft
      /\ e.anchor = d.anchor /\ e.accepted = d.accepted
  BY <1>0, Written DEF Disks
<1> HIDE DEF e
<1>2. Good(e)
  BY <1>0, <1>1 DEF Good, Proper, Agrees, EnvelopeKept, Persistable
<1> QED  BY <1>0, <1>1, <1>2 DEF e

LEMMA StateWritten ==
  ASSUME NEW d, Good(d), NEW s \in States, Persistable(d, s), s.life \notin Terminal,
         Reviewed(s), s.intent \in {None, d.state.intent}
  PROVE  LET e == [d EXCEPT !.state = s]
         IN  Good(e) /\ Keeps(d, e) /\ d.accepted = None
BY GoodWritten DEF Keeps

\* Another file is written.
LEMMA FileWritten ==
  ASSUME NEW d, Good(d), NEW e \in Disks, e.state = d.state, e.accepted = d.accepted,
         EnvelopeKept(e), DiscardGood(e.anchor)
  PROVE  Good(e) /\ Keeps(d, e)
BY DEF Good, Agrees, Keeps

LEMMA PacketGone ==
  ASSUME NEW d, Good(d)
  PROVE  Good([d EXCEPT !.packet = None]) /\ Keeps(d, [d EXCEPT !.packet = None])
<1> DEFINE e == [d EXCEPT !.packet = None]
<1>1. /\ e \in Disks /\ e.state = d.state /\ e.packet = None
      /\ e.anchor = d.anchor /\ e.accepted = d.accepted
  BY Written DEF Good, Disks
<1> HIDE DEF e
<1>2. Good(e) /\ Keeps(d, e)  BY <1>1, FileWritten DEF Good, EnvelopeKept
<1> QED  BY <1>2 DEF e

-----------------------------------------------------------------------------
(* The repairs of load. *)

LEMMA OpenDiscard ==
  ASSUME NEW d \in Disks, DiscardOpen(d)
  PROVE  /\ d.anchor \in Anchors /\ d.anchor.intent \in Discards
         /\ d.anchor.intent.after \in States /\ d.anchor.intent.prior \in 0..MaxDiscards
         /\ d.anchor.intent.packet \in Packets /\ d.anchor.intent.draft \in Drafts
BY DEF DiscardOpen, Disks, Anchors, Discards

\* The state a discard is about to write can be written, or is there.
LEMMA AfterDiscard ==
  ASSUME NEW d, Good(d), DiscardOpen(d), DiscardBound(d), d.audit # d.anchor.intent.prior,
         ~DiscardHalts(d)
  PROVE  LET e == [d EXCEPT !.packet = None, !.state = d.anchor.intent.after]
         IN  Good(e) /\ Keeps(d, e) /\ d.accepted = None
<1> DEFINE i == d.anchor.intent
           c == [d EXCEPT !.packet = None]
           e == [d EXCEPT !.packet = None, !.state = i.after]
<1>0. /\ d \in Disks /\ i.after \in States /\ Proper(i.after) /\ Restarted(i.after)
      /\ i.after.life \notin Terminal
  BY OpenDiscard DEF Good, DiscardGood, DiscardOpen, Restarted, Terminal
<1>1. Good(c) /\ Keeps(d, c)  BY PacketGone
<1>2. d.accepted = None
  <2>1. CASE d.state = i.before  BY <2>1, <1>0 DEF DiscardHalts, Persistable
  <2>2. CASE d.state = i.after  BY <2>2, <1>0, NoneIsNoRecord, Fields DEF Good, Agrees, Restarted
  <2> QED  BY <2>1, <2>2 DEF DiscardBound
<1>3. e = [c EXCEPT !.state = i.after]  BY <1>0 DEF Disks
<1>4. c.accepted = None  BY <1>1, <1>2 DEF Keeps
<1>5. Persistable(c, i.after) /\ Reviewed(i.after) /\ i.after.intent = None
  BY <1>0, <1>4 DEF Persistable, Proper, Restarted
<1> HIDE DEF c, e
<1>6. Good(e) /\ Keeps(c, e)  BY <1>0, <1>1, <1>3, <1>5, StateWritten
<1> QED  BY <1>1, <1>2, <1>6, KeepsFollows DEF e

LEMMA DiscardRepaired ==
  ASSUME NEW d, Good(d), DiscardSound(d)
  PROVE  LET e == DiscardDone(d)
         IN  /\ Good(e) /\ Keeps(d, e)
             /\ e.state = d.state \/ (Restarted(e.state) /\ d.accepted = None)
<1> DEFINE i == d.anchor.intent
           e == DiscardDone(d)
<1>0. d \in Disks  BY DEF Good
<1>1. CASE ~DiscardOpen(d)
  BY <1>1 DEF DiscardDone, Keeps
<1>2. CASE DiscardOpen(d) /\ d.audit = i.prior
  <2>1. e = [d EXCEPT !.anchor = [d.anchor EXCEPT !.intent = None]]
    BY <1>0, <1>2, OpenDiscard DEF DiscardDone, Disks
  <2>2. [d.anchor EXCEPT !.intent = None] \in Anchors
    BY <1>0, <1>2, OpenDiscard DEF Anchors
  <2>3. /\ e \in Disks /\ e.state = d.state /\ e.packet = d.packet /\ e.draft = d.draft
        /\ e.anchor.intent = None /\ e.accepted = d.accepted
    BY <1>0, <2>1, <2>2, Written DEF Disks, Anchors
  <2> HIDE DEF e
  <2>4. Good(e) /\ Keeps(d, e)  BY <2>3, FileWritten DEF Good, EnvelopeKept, DiscardGood
  <2> QED  BY <2>3, <2>4 DEF e
<1>3. CASE DiscardOpen(d) /\ d.audit # i.prior
  <2> DEFINE c == [d EXCEPT !.packet = None, !.state = i.after]
             a == [count |-> i.prior + 1, intent |-> None]
  <2>1. Good(c) /\ Keeps(d, c) /\ d.accepted = None
    BY <1>3, AfterDiscard DEF DiscardSound
  <2>2. e = [c EXCEPT !.anchor = a]  BY <1>0, <1>3 DEF DiscardDone, Disks
  <2>3. i.prior + 1 \in 0..MaxDiscards
    BY <1>0, <1>3, OpenDiscard, Fields DEF DiscardSound, DiscardBound
  <2>4. a \in Anchors  BY <2>3 DEF Anchors
  <2>5. c.state = i.after /\ Restarted(i.after)
    BY <1>0, <1>3, OpenDiscard DEF Disks, Good, DiscardGood, DiscardOpen
  <2>6. a.intent = None  OBVIOUS
  <2> HIDE DEF c, a
  <2>7. /\ e \in Disks /\ e.state = c.state /\ e.packet = c.packet /\ e.draft = c.draft
        /\ e.anchor = a /\ e.accepted = c.accepted
    BY <2>1, <2>2, <2>4, Written DEF Good, Disks
  <2> HIDE DEF e
  <2>8. Good(e) /\ Keeps(c, e)  BY <2>1, <2>6, <2>7, FileWritten DEF Good, EnvelopeKept, DiscardGood
  <2> QED  BY <2>1, <2>5, <2>7, <2>8, KeepsFollows DEF e
<1> QED  BY <1>1, <1>2, <1>3

LEMMA DiscardCut ==
  ASSUME NEW d, Good(d), NEW e \in DiscardMids(d)
  PROVE  Good(e) /\ Keeps(d, e)
<1>1. CASE e = [d EXCEPT !.packet = None]
  BY <1>1, PacketGone
<1>2. CASE e # [d EXCEPT !.packet = None]
  <2>1. /\ DiscardOpen(d) /\ DiscardBound(d) /\ d.audit # d.anchor.intent.prior
        /\ ~DiscardHalts(d) /\ e = [d EXCEPT !.packet = None, !.state = d.anchor.intent.after]
    BY <1>2 DEF DiscardMids
  <2> QED  BY <2>1, AfterDiscard
<1> QED  BY <1>1, <1>2

LEMMA LifeOfOutcome ==
  \A o \in Outcomes : LifeOf(o) \in Terminal
BY DEF Outcomes, LifeOf, Terminal

\* Recovery of an ending: nothing was published, or the state follows.
LEMMA TerminalRepaired ==
  ASSUME NEW d, Good(d), TerminalSound(d)
  PROVE  LET e == TerminalDone(d)
         IN  /\ Good(e) /\ Moves(d, e, kills)
             /\ d.accepted = None => /\ Keeps(d, e) /\ SameOpinion(e.state, d.state)
                                     /\ e.packet = d.packet /\ e.draft = d.draft
<1> DEFINE e == TerminalDone(d)
           a == d.accepted
<1>0. d \in Disks /\ d.state \in States  BY DEF Good, Disks
<1>1. CASE d.state.life \in Terminal
  BY <1>1 DEF TerminalDone, Moves, Keeps, SameOpinion
<1>2. CASE d.state.life \notin Terminal /\ a = None
  <2> DEFINE s == [d.state EXCEPT !.intent = None]
  <2>1. e = [d EXCEPT !.state = s]  BY <1>0, <1>2 DEF TerminalDone, Disks
  <2>2. /\ s \in States /\ s.intent = None /\ s.life = d.state.life /\ s.verdict = d.state.verdict
        /\ s.judged = d.state.judged /\ s.active = d.state.active /\ s.outcome = d.state.outcome
    BY <1>0 DEF States
  <2>4. e.state = s /\ e.packet = d.packet /\ e.draft = d.draft  BY <1>0, <2>1 DEF Disks
  <2> HIDE DEF s
  <2>3. Persistable(d, s) /\ Proper(s)
    BY <1>2, <2>2 DEF Good, Proper, Persistable, ValidState, Reviewed
  <2> QED
    BY <1>2, <2>1, <2>2, <2>3, <2>4, StateWritten DEF Moves, SameOpinion, Proper
<1>3. CASE d.state.life \notin Terminal /\ a # None
  <2> DEFINE s == [d.state EXCEPT !.life = LifeOf(a.outcome), !.outcome = a]
  <2>0. a \in Snapshots /\ a.outcome \in Outcomes  BY <1>0, <1>3, Fields DEF Snapshots
  <2>1. e = [d EXCEPT !.state = s]  BY <1>0, <1>3 DEF TerminalDone, Disks
  <2>2. /\ s \in States /\ s.life = LifeOf(a.outcome) /\ s.outcome = a /\ s.intent = d.state.intent
        /\ s.verdict = d.state.verdict /\ s.judged = d.state.judged /\ s.active = d.state.active
        /\ s.repairs = d.state.repairs /\ s.stamp = d.state.stamp
    BY <1>0, <2>0, LifeOfOutcome DEF States, Lives
  <2>3. /\ e \in Disks /\ e.state = s /\ e.packet = d.packet /\ e.draft = d.draft
        /\ e.anchor = d.anchor /\ e.accepted = a
    BY <1>0, <2>1, <2>2, Written DEF Disks
  <2>4. s.intent = a /\ s.active = None
    BY <1>3, <2>2 DEF TerminalSound, SnapshotSound
  <2> HIDE DEF s, e
  <2>5. Proper(s)
    BY <1>3, <2>0, <2>2, <2>4, LifeOfOutcome DEF Good, Proper, ValidState, Terminal, Reviewed
  <2>6. Good(e)
    BY <1>3, <2>2, <2>3, <2>4, <2>5 DEF Good, Agrees, EnvelopeKept
  <2>7. Settles(d, e)  BY <1>3, <2>2, <2>3 DEF Settles, Frozen, SameOpinion
  <2> QED  BY <1>3, <2>6, <2>7 DEF Moves, e
<1> QED  BY <1>1, <1>2, <1>3
-----------------------------------------------------------------------------
(* The operations. *)

LEMMA NowGood ==
  ASSUME IInv, DiscardSound(disk)
  PROVE  /\ Good(Now) /\ Keeps(disk, Now) /\ Now \in Disks /\ Now.state \in States
         /\ Now.state = disk.state \/ (Restarted(Now.state) /\ disk.accepted = None)
<1>1. /\ Good(Now) /\ Keeps(disk, Now)
      /\ Now.state = disk.state \/ (Restarted(Now.state) /\ disk.accepted = None)
  BY DiscardRepaired DEF IInv, Now
<1> QED  BY <1>1, Fields DEF Good

LEMMA HeldGood ==
  ASSUME IInv, NEW h \in Handles, Open(h)
  PROVE  Held(h) \in States /\ Proper(Held(h))
<1>1. CASE Held(h) = mem[h]
  BY <1>1 DEF IInv, Open, Copied
<1>2. CASE Held(h) = Now.state /\ Now.state # disk.state
  BY <1>2, NowGood DEF Open, Good
<1> QED  BY <1>1, <1>2 DEF Held

LEMMA CutsGood ==
  ASSUME IInv
  PROVE  \A e \in DiscardMids(disk) : Good(e) /\ Moves(disk, e, kills)
BY DiscardCut DEF IInv, Moves

\* A directory made from the repaired one without publication.
LEMMA FromNow ==
  ASSUME IInv, DiscardSound(disk), NEW e, Good(e), Keeps(Now, e)
  PROVE  Good(e) /\ Moves(disk, e, kills)
BY NowGood, KeepsFollows DEF Moves

LEMMA ProgressIsReport ==
  ASSUME NEW d \in Disks PROVE Progress(d) \in Reports
BY Fields DEF Progress, Reports

LEMMA PendingState ==
  ASSUME NEW s \in States
  PROVE  /\ Pending(s) \in States /\ Pending(s).life = "work" /\ Pending(s).verdict = None
         /\ Pending(s).judged = None /\ Pending(s).active = s.active
         /\ Pending(s).intent = s.intent /\ Pending(s).outcome = s.outcome
         /\ Pending(s).repairs = s.repairs /\ Pending(s).stamp = s.stamp
BY DEF Pending, States, Lives

\* A call under the lock, killed or not, leaves what it writes.
LEMMA Performed ==
  ASSUME NEW h \in Handles, NEW allowed, NEW mids, NEW final, Perform(h, allowed, mids, final),
         allowed => Good(final) /\ Moves(disk, final, kills),
         \A e \in mids : Good(e) /\ (Moves(disk, e, kills) \/ Intends(disk, e, kills))
  PROVE  \E e : Left(h, e)
<1>1. CASE allowed /\ disk' = final /\ Free(h) /\ mem' = [mem EXCEPT ![h] = final.state]
           /\ call' = call /\ lock' = lock /\ kills' = kills
  <2>1. Left(h, final)  BY <1>1 DEF Left
  <2> QED  BY <2>1
<1>2. CASE Killed(h, mids) /\ Free(h)
  <2>1. Left(h, disk')  BY <1>2 DEF Left, Killed
  <2> QED  BY <2>1
<1> QED  BY <1>1, <1>2 DEF Perform

LEMMA BindGood ==
  ASSUME NEW d, Good(d), NEW o \in Owners
  PROVE  /\ Good(Bind(d, o)) /\ Keeps(d, Bind(d, o)) /\ Bind(d, o).state = d.state
         /\ Bind(d, o).draft = d.draft /\ Bind(d, o).packet = d.packet
         /\ Bind(d, o).anchor = d.anchor
<1> DEFINE e == Bind(d, o)
<1>1. /\ e \in Disks /\ e.state = d.state /\ e.accepted = d.accepted /\ e.packet = d.packet
      /\ e.draft = d.draft /\ e.anchor = d.anchor
  BY Written DEF Good, Bind, Disks
<1> HIDE DEF e
<1>2. Good(e) /\ Keeps(d, e)  BY <1>1, FileWritten DEF Good, EnvelopeKept
<1> QED  BY <1>1, <1>2 DEF e

LEMMA BindOwnerLeft ==
  ASSUME IInv, NEW h \in Handles, NEW o \in Owners, BindOwner(h, o)
  PROVE  \E e : Left(h, e)
<1> DEFINE d == Bind(disk, o)
<1>1. Good(d) /\ Keeps(disk, d) /\ d.state = disk.state /\ d.anchor = disk.anchor
      /\ d.draft = disk.draft /\ d.packet = disk.packet
  BY BindGood DEF IInv
<1>2. d.audit = disk.audit /\ d.accepted = disk.accepted
  BY DEF Bind, IInv, Good, Disks
<1>3. \A e \in DiscardMids(d) : Good(e) /\ Keeps(d, e)  BY <1>1, DiscardCut
<1>4. DiscardSound(disk) => Good(DiscardDone(d)) /\ Keeps(d, DiscardDone(d))
  <2>1. DiscardSound(disk) => DiscardSound(d)
    <3> HIDE DEF d
    <3> QED  BY <1>1, <1>2 DEF DiscardSound, DiscardBound, DiscardHalts, DiscardOpen, Persistable
  <2> QED  BY <2>1, <1>1, DiscardRepaired
<1> HIDE DEF d
<1>5. /\ \A e \in {d} \cup DiscardMids(d) : Good(e) /\ Moves(disk, e, kills)
      /\ DiscardSound(disk) => Good(DiscardDone(d)) /\ Moves(disk, DiscardDone(d), kills)
  BY <1>1, <1>3, <1>4, KeepsFollows DEF Moves
<1> QED  BY <1>5, Performed DEF BindOwner, d

\* A call that writes a file f first and the state s after it.
LEMMA TwoWrites ==
  ASSUME IInv, DiscardSound(disk), NEW f, Good(f), Keeps(Now, f), f.accepted = Now.accepted,
         NEW s \in States, s.life \notin Terminal, Reviewed(s),
         Persistable(Now, s), s.intent = Now.state.intent
  PROVE  Good([f EXCEPT !.state = s]) /\ Moves(disk, [f EXCEPT !.state = s], kills)
<1>1. Persistable(f, s)  BY DEF Persistable
<1> DEFINE e == [f EXCEPT !.state = s]
<1>2. Good(e) /\ e.accepted = None /\ f.accepted = None /\ e.state = s  BY <1>1, GoodWritten
<1> HIDE DEF e
<1>3. Keeps(Now, e)  BY <1>2 DEF Keeps
<1> QED  BY <1>2, <1>3, FromNow DEF e

LEMMA WriteDraftLeft ==
  ASSUME IInv, NEW h \in Handles, NEW v \in Drafts, WriteDraft(h, v)
  PROVE  \E e : Left(h, e)
<1> DEFINE d == [Now EXCEPT !.draft = v]
           s == Pending(Now.state)
<1>0. DiscardSound(disk) /\ InScope(Now, v)  BY DEF WriteDraft, Open
<1>1. /\ d \in Disks /\ d.state = Now.state /\ d.accepted = Now.accepted /\ d.draft = v
      /\ d.packet = Now.packet /\ d.anchor = Now.anchor
  BY <1>0, NowGood, Written DEF Disks
<1> HIDE DEF d
<1>2. EnvelopeKept(d)  BY <1>0, <1>1, ItemAssumption DEF EnvelopeKept, InScope
<1>3. Good(d) /\ Keeps(Now, d)
  BY <1>0, <1>1, <1>2, NowGood, FileWritten DEF Good
<1>4. /\ s \in States /\ s.life \notin Terminal /\ Reviewed(s)
      /\ s.intent = Now.state.intent
  BY <1>0, NowGood, PendingState DEF Terminal, Reviewed
<1> HIDE DEF s
<1>5. Persistable(Now, s) => Good([d EXCEPT !.state = s]) /\ Moves(disk, [d EXCEPT !.state = s], kills)
  BY <1>0, <1>1, <1>3, <1>4, TwoWrites
<1>6. \A e \in DiscardMids(disk) \cup {Now, d} : Good(e) /\ Moves(disk, e, kills)
  BY <1>0, <1>3, NowGood, CutsGood, FromNow DEF Moves
<1> QED  BY <1>5, <1>6, Performed DEF WriteDraft, d, s

LEMMA WorkLeft ==
  ASSUME IInv, NEW h \in Handles, NEW b, NEW w \in Works,
         DiscardSound(disk) => Good(b) /\ Keeps(Now, b),
         ArtifactWritten(h, b, w)
  PROVE  \E e : Left(h, e)
<1> DEFINE d == [b EXCEPT !.work = w]
<1>0. DiscardSound(disk)  BY DEF ArtifactWritten, Open
<1>1. /\ d \in Disks /\ d.state = b.state /\ d.accepted = b.accepted /\ d.draft = b.draft
      /\ d.packet = b.packet /\ d.anchor = b.anchor
  BY <1>0, Written DEF Good, Disks
<1> HIDE DEF d
<1>2. Good(d) /\ Keeps(b, d)  BY <1>0, <1>1, FileWritten DEF Good, EnvelopeKept
<1>3. Keeps(Now, d)  BY <1>0, <1>2, KeepsFollows
<1>4. \A e \in DiscardMids(disk) \cup {Now, b, d} : Good(e) /\ Moves(disk, e, kills)
  BY <1>0, <1>2, <1>3, NowGood, CutsGood, FromNow DEF Moves
<1> QED  BY <1>4, Performed DEF ArtifactWritten, d

LEMMA PacketTyped ==
  ASSUME NEW d \in Disks, d.draft # None, NEW v \in Verdicts
  PROVE  Packet(d, v) \in Packets /\ Packet(d, v).active = FALSE
<1> DEFINE open == d.packet # None /\ d.packet.active
           findings == v = "repair_once"
                       \/ (open /\ v # "confirm_data_insufficiency" /\ d.packet.findings)
           before == IF open THEN d.packet.before ELSE d.draft
<1>1. d.draft \in Drafts /\ before \in Drafts  BY Fields DEF Packets
<1>2. open \in BOOLEAN /\ findings \in BOOLEAN  OBVIOUS
<1>3. Progress(d) \in Reports  BY ProgressIsReport
<1>4. Packet(d, v) = [active |-> FALSE, targeted |-> open, before |-> before,
                      reviewed |-> d.draft, after |-> Progress(d), findings |-> findings]
  BY DEF Packet
<1> HIDE DEF open, findings, before
<1> QED  BY <1>1, <1>2, <1>3, <1>4 DEF Packets

LEMMA RecordReviewLeft ==
  ASSUME IInv, NEW h \in Handles, NEW v \in Verdicts, RecordReview(h, v)
  PROVE  \E e : Left(h, e)
<1> DEFINE k == Packet(Now, v)
           d == [Now EXCEPT !.packet = k]
           s == [Now.state EXCEPT !.verdict = v, !.judged = Now.draft, !.life = "review"]
<1>0. DiscardSound(disk) /\ Now.draft # None /\ Now \in Disks
  BY NowGood DEF RecordReview, Open
<1>1. k \in Packets /\ k.active = FALSE /\ Now.draft \in Drafts  BY <1>0, PacketTyped, Fields
<1> HIDE DEF k
<1>2. /\ d \in Disks /\ d.state = Now.state /\ d.accepted = Now.accepted
      /\ d.packet = k /\ d.anchor = Now.anchor
  BY <1>0, <1>1, Written DEF Disks
<1>3. /\ s \in States /\ s.verdict = v /\ s.judged = Now.draft /\ s.life = "review"
      /\ s.intent = Now.state.intent
  BY <1>0, <1>1, Fields DEF States, Lives
<1> HIDE DEF d, s
<1>4. Good(d) /\ Keeps(Now, d)
  BY <1>0, <1>1, <1>2, NowGood, FileWritten DEF Good, EnvelopeKept
<1>5. Persistable(Now, s) => Good([d EXCEPT !.state = s]) /\ Moves(disk, [d EXCEPT !.state = s], kills)
  BY <1>0, <1>1, <1>2, <1>3, <1>4, TwoWrites DEF Terminal, Reviewed
<1>6. \A e \in DiscardMids(disk) \cup {Now, d} : Good(e) /\ Moves(disk, e, kills)
  BY <1>0, <1>4, NowGood, CutsGood, FromNow DEF Moves
<1> QED  BY <1>5, <1>6, Performed DEF RecordReview, d, s, k

LEMMA UseRepairLeft ==
  ASSUME IInv, NEW h \in Handles, NEW o \in Owners, UseBusinessRepair(h, o)
  PROVE  \E e : Left(h, e)
<1> DEFINE b == Bind(Now, o)
           k == [b.packet EXCEPT !.active = TRUE, !.targeted = FALSE,
                                 !.before = b.draft, !.after = Progress(b)]
           d == [b EXCEPT !.packet = k]
           s == [Pending(Now.state) EXCEPT !.repairs = @ + 1]
<1>0. DiscardSound(disk) /\ Now \in Disks /\ Good(Now) /\ Keeps(disk, Now)
  BY NowGood DEF UseBusinessRepair, Open
<1>1. /\ Good(b) /\ Keeps(Now, b) /\ b.state = Now.state /\ b.draft = Now.draft
      /\ b.packet = Now.packet /\ b.anchor = Now.anchor
  BY <1>0, BindGood
<1>2. Now.packet \in Packets /\ Now.packet.reviewed = Now.draft
  BY <1>0, Fields DEF UseBusinessRepair
<1>3. Now.draft \in Drafts  BY <1>2 DEF Packets
<1>4. Progress(b) \in Reports /\ b \in Disks  BY <1>1, ProgressIsReport DEF Good
<1>5. d = [b EXCEPT !.packet = [@ EXCEPT !.active = TRUE, !.targeted = FALSE,
                                         !.before = b.draft, !.after = Progress(b)]]
  BY <1>4 DEF Disks
<1> HIDE DEF b
<1>6. k \in Packets /\ k.before = b.draft  BY <1>1, <1>2, <1>3, <1>4 DEF Packets
<1> HIDE DEF k
<1>7. /\ d \in Disks /\ d.state = b.state /\ d.accepted = b.accepted /\ d.draft = b.draft
      /\ d.packet = k /\ d.anchor = b.anchor
  BY <1>4, <1>6, Written DEF Disks
<1>8. s \in States /\ s.life = "work" /\ s.verdict = None /\ s.intent = Now.state.intent
  <2> DEFINE t == Pending(Now.state)
  <2>1. /\ t \in States /\ t.life = "work" /\ t.verdict = None
        /\ t.repairs = Now.state.repairs /\ t.intent = Now.state.intent /\ Now.state.repairs < MaxRepairs
    BY <1>0, Fields, PendingState DEF UseBusinessRepair
  <2>2. t.repairs \in 0..MaxRepairs  BY <2>1 DEF States
  <2>3. t.repairs + 1 \in 0..MaxRepairs  BY <2>1, <2>2, ItemAssumption
  <2>4. s = [t EXCEPT !.repairs = t.repairs + 1]  BY <2>1 DEF States
  <2> HIDE DEF t
  <2> QED  BY <2>1, <2>3, <2>4 DEF States
<1> HIDE DEF d, s
<1>9. EnvelopeKept(d)  BY <1>1, <1>3, <1>6, <1>7, ItemAssumption DEF EnvelopeKept
<1>10. Good(d) /\ Keeps(Now, d)
  BY <1>1, <1>7, <1>9, FileWritten, KeepsFollows DEF Good
<1>11. d.accepted = Now.accepted  BY <1>1, <1>7 DEF Keeps
<1>12. Persistable(Now, s) => Good([d EXCEPT !.state = s]) /\ Moves(disk, [d EXCEPT !.state = s], kills)
  BY <1>0, <1>8, <1>10, <1>11, TwoWrites DEF Terminal, Reviewed
<1>13. \A e \in DiscardMids(disk) \cup {Now, b, d} : Good(e) /\ Moves(disk, e, kills)
  BY <1>0, <1>1, <1>10, CutsGood, FromNow DEF Moves
<1>14. Perform(h, Persistable(Now, s), DiscardMids(disk) \cup {Now, b, d}, [d EXCEPT !.state = s])
  BY <1>5 DEF UseBusinessRepair, b, d, s
<1> QED  BY <1>12, <1>13, <1>14, Performed

LEMMA ConcludeLeft ==
  ASSUME IInv, NEW h \in Handles, NEW o \in Owners, Conclude(h, o)
  PROVE  \E e : Left(h, e)
<1> DEFINE b == Bind(Now, o)
           d == [b EXCEPT !.conclusion = Progress(b)]
<1>0. DiscardSound(disk) /\ Good(Now) /\ Keeps(disk, Now)
  BY NowGood DEF Conclude, Open
<1>1. Good(b) /\ Keeps(Now, b)  BY <1>0, BindGood
<1>2. Progress(b) \in Reports /\ b \in Disks  BY <1>1, ProgressIsReport DEF Good
<1> HIDE DEF b
<1>3. /\ d \in Disks /\ d.state = b.state /\ d.accepted = b.accepted /\ d.draft = b.draft
      /\ d.packet = b.packet /\ d.anchor = b.anchor
  BY <1>2, Written DEF Disks
<1> HIDE DEF d
<1>4. Good(d) /\ Keeps(Now, d)
  BY <1>1, <1>3, FileWritten, KeepsFollows DEF Good, EnvelopeKept
<1>5. \A e \in DiscardMids(disk) \cup {Now, b, d} : Good(e) /\ Moves(disk, e, kills)
  BY <1>0, <1>1, <1>4, CutsGood, FromNow DEF Moves
<1> QED  BY <1>5, Performed DEF Conclude, b, d

\* A discard restarts the review, from a copy that was open.
LEMMA DiscardedState ==
  ASSUME IInv, NEW h \in Handles, Open(h), Idle(mem[h]), mem[h].intent = None,
         NEW n \in 0..MaxDiscards
  PROVE  LET s == [Pending(Held(h)) EXCEPT !.repairs = 0, !.stamp = n]
         IN  s \in States /\ Restarted(s) /\ Proper(s)
<1> DEFINE t == Pending(Held(h))
           s == [t EXCEPT !.repairs = 0, !.stamp = n]
<1>1. Held(h) \in States /\ Proper(Held(h))  BY HeldGood
<1>2. Held(h).active = None /\ Held(h).intent = None /\ Held(h).outcome = None
  <2>1. CASE Held(h) = mem[h]
    BY <2>1, <1>1 DEF Idle, Running, Proper, ValidState
  <2>2. CASE Held(h) = Now.state /\ Now.state # disk.state
    BY <2>2, NowGood DEF Open, Restarted
  <2> QED  BY <2>1, <2>2 DEF Held
<1>3. /\ t \in States /\ t.life = "work" /\ t.verdict = None /\ t.judged = None
      /\ t.active = None /\ t.intent = None /\ t.outcome = None
  BY <1>1, <1>2, PendingState
<1> HIDE DEF t
<1>4. /\ s \in States /\ s.life = "work" /\ s.verdict = None /\ s.judged = None
      /\ s.active = None /\ s.intent = None /\ s.outcome = None
  <2>1. 0 \in 0..MaxRepairs  BY ItemAssumption
  <2>2. s \in States  BY <1>3, <2>1 DEF States
  <2>3. /\ s.life = t.life /\ s.verdict = t.verdict /\ s.judged = t.judged
        /\ s.active = t.active /\ s.intent = t.intent /\ s.outcome = t.outcome
    BY <1>3 DEF States
  <2> QED  BY <1>3, <2>2, <2>3
<1> HIDE DEF s
<1>5. Restarted(s)  BY <1>4 DEF Restarted
<1>6. Proper(s)  BY <1>4 DEF Proper, ValidState, Terminal, Reviewed
<1> QED  BY <1>4, <1>5, <1>6 DEF s, t

\* What may be published of a directory: a failure, or what its opinion lets pass.
MayPublish(s, a) ==
  \/ a.outcome = "technical_failure" /\ a.draft = None
  \/ /\ a.draft = s.judged
     /\ \/ s.verdict \in Accepting /\ a.outcome = OutcomeOf(s.verdict)
        \/ s.verdict = "confirm_data_insufficiency" /\ a.outcome = "blocked_by_evidence"

LEMMA PublishLeft ==
  ASSUME IInv, NEW h \in Handles, DiscardSound(disk), NEW before, Good(before), Keeps(Now, before),
         SameOpinion(before.state, Now.state), before.accepted = None,
         NEW mids, \A e \in mids : Good(e) /\ Moves(disk, e, kills),
         NEW snapshot \in Snapshots, MayPublish(before.state, snapshot),
         Answer(snapshot) => snapshot.at = kills,
         Publish(h, before, mids, snapshot)
  PROVE  \E e : Left(h, e)
<1> DEFINE s1 == [before.state EXCEPT !.intent = snapshot]
           s2 == [s1 EXCEPT !.life = LifeOf(snapshot.outcome), !.outcome = snapshot]
           d1 == [before EXCEPT !.state = s1]
           d2 == [d1 EXCEPT !.accepted = snapshot]
           d3 == [d2 EXCEPT !.state = s2]
<1>0. /\ snapshot # None /\ snapshot.outcome \in Outcomes /\ before \in Disks
      /\ before.state \in States /\ before.state.life \notin Terminal
  BY NoneIsNoRecord, Fields DEF Snapshots, Good, Agrees
<1>1. /\ s1 \in States /\ s1.intent = snapshot /\ s1.life = before.state.life
      /\ s1.verdict = before.state.verdict /\ s1.judged = before.state.judged
  BY <1>0 DEF States
<1>2. LifeOf(snapshot.outcome) \in Terminal /\ Terminal \subseteq Lives
  BY <1>0, LifeOfOutcome DEF Lives
<1> HIDE DEF s1
<1>3. /\ s2 \in States /\ s2.intent = snapshot /\ s2.life = LifeOf(snapshot.outcome)
      /\ s2.outcome = snapshot /\ s2.active = s1.active
      /\ s2.verdict = s1.verdict /\ s2.judged = s1.judged
  BY <1>1, <1>2 DEF States
<1> HIDE DEF s2
<1>4. d1 = [before EXCEPT !.state.intent = snapshot]  BY <1>0 DEF Disks, s1
<1>5. Persistable(before, s1)  BY <1>0, <1>4 DEF Publish, Disks, s1
<1>6. Good(d1)
  BY <1>0, <1>1, <1>5, GoodWritten DEF Good, Proper, Reviewed
<1>7. d1.state = s1 /\ d1.accepted = None  BY <1>0, <1>1 DEF Disks
<1> HIDE DEF d1
<1>8. /\ d2 \in Disks /\ d2.state = s1 /\ d2.accepted = snapshot /\ d2.draft = d1.draft
      /\ d2.packet = d1.packet /\ d2.anchor = d1.anchor
  BY <1>6, <1>7, Written DEF Good, Disks
<1>9. d3 = [d2 EXCEPT !.state.life = LifeOf(snapshot.outcome), !.state.outcome = snapshot]
  BY <1>8 DEF Disks, s2
<1> HIDE DEF d2
<1>10. /\ d3 \in Disks /\ d3.state = s2 /\ d3.accepted = snapshot /\ d3.draft = d2.draft
       /\ d3.packet = d2.packet /\ d3.anchor = d2.anchor
  BY <1>3, <1>8, Written DEF Disks
<1> HIDE DEF d3
<1>b. Blocked(snapshot) =>
        /\ before.state.verdict = "confirm_data_insufficiency"
        /\ before.state.judged = snapshot.draft
  BY DEF Blocked, MayPublish, OutcomeOf
<1>11. Good(d2)
  BY <1>0, <1>1, <1>6, <1>7, <1>8, <1>b DEF Good, Agrees, EnvelopeKept
<1>12. Proper(s2)
  <2>1. s1.active = None  BY <1>0, <1>1, <1>5 DEF Persistable, ValidState
  <2> QED
    BY <2>1, <1>0, <1>1, <1>2, <1>3 DEF Good, Proper, ValidState, Terminal, Reviewed
<1>13. Good(d3)
  BY <1>0, <1>1, <1>3, <1>8, <1>10, <1>11, <1>12, <1>b DEF Good, Agrees, EnvelopeKept
<1>14. SameOpinion(Now.state, disk.state) \/ Now.state.verdict = None
  BY NowGood DEF SameOpinion, Restarted
<1>15. disk.accepted = None  BY NowGood DEF Keeps
<1>16. Publishes(disk, d2, kills) /\ Publishes(disk, d3, kills)
  <2>1. SameOpinion(s1, before.state) /\ SameOpinion(s2, before.state)
    BY <1>1, <1>3 DEF SameOpinion
  <2>2. /\ d2.state.life \notin Terminal
        /\ d3.state.life = LifeOf(snapshot.outcome)
    BY <1>0, <1>1, <1>3, <1>8, <1>10
  <2>3. CASE snapshot.outcome = "technical_failure" /\ snapshot.draft = None
    BY <2>1, <2>2, <2>3, <1>8, <1>10, <1>14, <1>15 DEF Publishes, SameOpinion
  <2>4. CASE ~(snapshot.outcome = "technical_failure" /\ snapshot.draft = None)
    <3>1. before.state.verdict \in Accepting \cup {"confirm_data_insufficiency"}
      BY <2>4 DEF MayPublish
    <3>4. None \notin Accepting \cup {"confirm_data_insufficiency"}
      BY NoneIsNoRecord
    <3>3. SameOpinion(Now.state, disk.state)
      <4>1. Now.state = disk.state \/ Now.state.verdict = None  BY NowGood DEF Restarted
      <4>2. Now.state.verdict # None
        BY <3>1, <3>4 DEF SameOpinion
      <4> QED  BY <4>1, <4>2 DEF SameOpinion
    <3> QED
      BY <2>1, <2>2, <2>4, <3>3, <1>8, <1>10, <1>15 DEF Publishes, SameOpinion, MayPublish
  <2> QED  BY <2>3, <2>4
<1>17. Intends(disk, d1, kills)
  BY <1>1, <1>7, <1>15 DEF Intends, Opens
<1>18. \A e \in DiscardMids(disk) \cup mids \cup {before, d1, d2} :
         Good(e) /\ (Moves(disk, e, kills) \/ Intends(disk, e, kills))
  <2>1. Good(before) /\ Moves(disk, before, kills)  BY FromNow
  <2> QED  BY <2>1, <1>6, <1>11, <1>16, <1>17, CutsGood DEF Moves
<1>19. Perform(h, TRUE, DiscardMids(disk) \cup mids \cup {before, d1, d2}, d3)
  BY <1>4, <1>9 DEF Publish, d2
<1>20. Good(d3) /\ Moves(disk, d3, kills)  BY <1>13, <1>16 DEF Moves
<1> QED  BY <1>18, <1>19, <1>20, Performed

LEMMA ClosingGood ==
  ASSUME IInv, NEW h \in Handles, Closable(h)
  PROVE  /\ DiscardSound(disk) /\ Good(Closing) /\ Keeps(Now, Closing) /\ Closing.accepted = None
         /\ SameOpinion(Closing.state, Now.state) /\ Closing \in Disks /\ Closing.state \in States
<1>1. /\ DiscardSound(disk) /\ TerminalSound(Now) /\ Closing.accepted = None
  BY DEF Closable, Open
<1>2. Good(Closing) /\ Moves(Now, Closing, kills)
  BY <1>1, NowGood, TerminalRepaired DEF Closing
<1>3. Now.accepted = None  BY <1>1, <1>2 DEF Moves, Keeps, Settles, Publishes
<1> QED  BY <1>1, <1>2, <1>3, NowGood, TerminalRepaired, Fields DEF Closing, Good

LEMMA AcceptLeft ==
  ASSUME IInv, NEW h \in Handles, Accept(h)
  PROVE  \E e : Left(h, e)
<1> DEFINE a == [outcome |-> OutcomeOf(Closing.state.verdict), draft |-> Closing.draft,
                 packet |-> None, conclusion |-> None, at |-> kills]
<1>1. Closable(h) /\ Closing.draft # None /\ Closing.state.verdict \in Accepting
      /\ Closing.state.judged = Closing.draft /\ Publish(h, Closing, {Now}, a)
  BY DEF Accept
<1>2. OutcomeOf(Closing.state.verdict) \in Outcomes  BY DEF OutcomeOf, Outcomes, Terminal
<1>3. a \in Snapshots  BY <1>1, <1>2, ClosingGood, Fields DEF Snapshots, IInv
<1>4. MayPublish(Closing.state, a)  BY <1>1 DEF MayPublish
<1>5. \A e \in {Now} : Good(e) /\ Moves(disk, e, kills)
  BY <1>1, ClosingGood, NowGood DEF Moves
<1>a. Answer(a) => a.at = kills  OBVIOUS
<1> HIDE DEF a
<1> QED  BY <1>a, <1>1, <1>3, <1>4, <1>5, ClosingGood, PublishLeft

LEMMA TechnicalFailureLeft ==
  ASSUME IInv, NEW h \in Handles, TechnicalFailure(h)
  PROVE  \E e : Left(h, e)
<1> DEFINE a == [outcome |-> "technical_failure", draft |-> None,
                 packet |-> None, conclusion |-> None, at |-> 0]
           d == IF Closing.packet # None /\ Closing.packet.active
                THEN [Closing EXCEPT !.packet.active = FALSE] ELSE Closing
<1>1. Closable(h) /\ Publish(h, d, {Now, Closing}, a)  BY DEF TechnicalFailure
<1>2. a \in Snapshots  BY ItemAssumption DEF Snapshots, Outcomes, Terminal
<1>3. MayPublish(d.state, a)  BY DEF MayPublish
<1>4. Good(d) /\ Keeps(Closing, d) /\ d.state = Closing.state
  <2>1. CASE d = Closing  BY <2>1, <1>1, ClosingGood DEF Keeps
  <2>2. CASE d # Closing
    <3> DEFINE k == [Closing.packet EXCEPT !.active = FALSE]
    <3>1. Closing.packet \in Packets /\ Closing \in Disks  BY <1>1, <2>2, ClosingGood, Fields
    <3>2. k \in Packets /\ k.active = FALSE  BY <3>1 DEF Packets
    <3>3. d = [Closing EXCEPT !.packet = k]  BY <2>2, <3>1 DEF Disks
    <3> HIDE DEF k, d
    <3>4. /\ d \in Disks /\ d.state = Closing.state /\ d.accepted = Closing.accepted
          /\ d.packet = k /\ d.anchor = Closing.anchor
      BY <3>1, <3>2, <3>3, Written DEF Disks
    <3>5. EnvelopeKept(d) /\ DiscardGood(d.anchor)
      BY <1>1, <3>2, <3>4, ClosingGood DEF EnvelopeKept, Good
    <3> QED  BY <1>1, <3>4, <3>5, ClosingGood, FileWritten
  <2> QED  BY <2>1, <2>2
<1>5. \A e \in {Now, Closing} : Good(e) /\ Moves(disk, e, kills)
  BY <1>1, ClosingGood, NowGood, FromNow DEF Moves
<1>a. Answer(a) => a.at = kills  BY DEF Answer, LifeOf
<1> HIDE DEF a, d
<1>6. Keeps(Now, d) /\ SameOpinion(d.state, Now.state) /\ d.accepted = None
  BY <1>1, <1>4, ClosingGood, KeepsFollows DEF Keeps
<1> QED  BY <1>a, <1>1, <1>2, <1>3, <1>4, <1>5, <1>6, ClosingGood, PublishLeft

LEMMA FinalizeBlockedLeft ==
  ASSUME IInv, NEW h \in Handles, FinalizeBlocked(h)
  PROVE  \E e : Left(h, e)
<1> DEFINE a == [outcome |-> "blocked_by_evidence", draft |-> Now.draft,
                 packet |-> Now.packet, conclusion |-> Now.conclusion, at |-> 0]
<1>0. DiscardSound(disk) /\ Good(Now) /\ Now \in Disks /\ Keeps(disk, Now) /\ Now.accepted = None
  BY NowGood DEF FinalizeBlocked, Open
<1>1. /\ Now.state.judged = Now.draft /\ Now.state.verdict = "confirm_data_insufficiency"
      /\ Publish(h, Now, {Now}, a)
  BY DEF FinalizeBlocked
<1>2. a \in Snapshots  BY <1>0, Fields, ItemAssumption DEF Snapshots, Outcomes, Terminal
<1>3. MayPublish(Now.state, a)  BY <1>1 DEF MayPublish
<1>4. \A e \in {Now} : Good(e) /\ Moves(disk, e, kills)  BY <1>0 DEF Moves
<1>5. Keeps(Now, Now) /\ SameOpinion(Now.state, Now.state)  BY DEF Keeps, SameOpinion
<1>a. Answer(a) => a.at = kills  BY DEF Answer, LifeOf
<1> HIDE DEF a
<1> QED  BY <1>a, <1>0, <1>1, <1>2, <1>3, <1>4, <1>5, PublishLeft

-----------------------------------------------------------------------------
(* The calls that take the lock for a write only. *)

\* A write a call has begun with, and one more in the same call.
LEMMA OneWrite == \A S : \A w \in S : <<w>> \in Seq(S)
OBVIOUS

LEMMA TheFiles ==
  /\ \A s : File("state", s).file = "state" /\ File("state", s).to = s
  /\ \A s : File("packet", s).file = "packet" /\ File("packet", s).to = s
  /\ \A s : File("anchor", s).file = "anchor" /\ File("anchor", s).to = s
  /\ \A s : File("audit", s).file = "audit" /\ File("audit", s).to = s
  /\ \A s \in States : File("state", s) \in Files
  /\ \A s \in Packets \cup {None} : File("packet", s) \in Files
  /\ \A s \in Anchors \cup {None} : File("anchor", s) \in Files
  /\ \A s \in 0..MaxDiscards : File("audit", s) \in Files
BY DEF File, Files

LEMMA StateIsGood ==
  ASSUME NEW h, NEW d, NEW l, NEW k, NEW s \in States, Reviewed(s), Current(s, d), Older(s, d, k)
  PROVE  File("state", s) \in GoodWrites(h, d, l, k)
BY TheFiles DEF GoodWrites

LEMMA AnchorIsGood ==
  ASSUME NEW h, NEW d, NEW l, NEW k, NEW a \in Anchors \cup {None}, DiscardGood(a)
  PROVE  File("anchor", a) \in GoodWrites(h, d, l, k)
BY TheFiles DEF GoodWrites

LEMMA OthersAreGood ==
  ASSUME NEW h, NEW d, NEW l, NEW k
  PROVE  /\ File("packet", None) \in GoodWrites(h, d, l, k)
         /\ \A n \in 0..MaxDiscards : File("audit", n) \in GoodWrites(h, d, l, k)
BY TheFiles DEF GoodWrites

\* The repair of a discard by a caller that does not hold the lock.
LEMMA RepairWrites ==
  ASSUME NEW d, Good(d), DiscardBound(d), NEW h, NEW l, NEW k
  PROVE  DiscardWrites(d) \in Seq(GoodWrites(h, d, l, k))
<1> DEFINE i == d.anchor.intent
           S == GoodWrites(h, d, l, k)
           none == [d.anchor EXCEPT !.intent = None]
           done == [count |-> i.prior + 1, intent |-> None]
<1>0. d \in Disks  BY DEF Good
<1>1. CASE ~DiscardOpen(d)
  BY <1>1, NoWrites DEF DiscardWrites
<1>2. CASE DiscardOpen(d) /\ d.audit = i.prior
  <2>1. none \in Anchors /\ none.intent = None  BY <1>0, <1>2, OpenDiscard DEF Anchors
  <2>2. DiscardGood(none)  BY <2>1 DEF DiscardGood
  <2>3. File("anchor", none) \in S  BY <2>1, <2>2, AnchorIsGood
  <2>4. DiscardWrites(d) = <<File("anchor", none)>>  BY <1>2 DEF DiscardWrites
  <2> HIDE DEF S, none
  <2> QED  BY <2>3, <2>4, OneWrite DEF S
<1>3. CASE DiscardOpen(d) /\ d.audit # i.prior
  <2>1. /\ i.after \in States /\ Proper(i.after) /\ Restarted(i.after)
        /\ i.prior \in 0..MaxDiscards
    BY <1>0, <1>3, OpenDiscard DEF Good, DiscardGood, DiscardOpen
  <2>2. i.prior + 1 \in 0..MaxDiscards
    BY <1>0, <1>3, <2>1, Fields, ItemAssumption DEF DiscardBound
  <2>3. done \in Anchors /\ done.intent = None  BY <2>2 DEF Anchors
  <2>4. DiscardGood(done)  BY <2>3 DEF DiscardGood
  <2>5. Current(i.after, d) /\ Older(i.after, d, k) /\ Reviewed(i.after)
    BY <2>1 DEF Restarted, Current, Older, Terminal, Proper
  <2>6. /\ File("packet", None) \in S /\ File("state", i.after) \in S
        /\ File("anchor", done) \in S
    BY <2>1, <2>3, <2>4, <2>5, AnchorIsGood, StateIsGood, OthersAreGood
  <2> DEFINE p == IF d.packet = None THEN <<>> ELSE <<File("packet", None)>>
             q == IF d.state = i.after THEN <<>> ELSE <<File("state", i.after)>>
  <2>7. DiscardWrites(d) = p \o q \o <<File("anchor", done)>>
    BY <1>3 DEF DiscardWrites
  <2> HIDE DEF S, i, done
  <2>8. p \in Seq(S) /\ q \in Seq(S) /\ <<File("anchor", done)>> \in Seq(S)
    BY <2>6, OneWrite, NoWrites
  <2> HIDE DEF p, q
  <2>9. p \o q \o <<File("anchor", done)>> \in Seq(S)
    BY <2>8, ConcatProperties
  <2> QED  BY <2>7, <2>9 DEF S
<1> QED  BY <1>1, <1>2, <1>3

LEMMA LoadKeeps ==
  ASSUME IInv, NEW h \in Handles, Load(h)
  PROVE  IInv' /\ UNCHANGED disk /\ UNCHANGED kills
<1>1. disk.state \in States /\ Copied(disk.state, disk, kills)
  BY StateCopied, Fields DEF IInv, Good
<1>2. DiscardWrites(disk) \in Seq(GoodWrites(h, disk, lock, kills))
  BY RepairWrites DEF Load, IInv
<1>3. /\ Goes(h, "review", DiscardWrites(disk)) /\ UNCHANGED <<disk, lock, kills>>
      /\ mem' = [mem EXCEPT ![h] = disk.state] /\ "review" \in Stages
  BY DEF Load, Stages
<1> QED  BY <1>1, <1>2, <1>3, GoesKeeps

LEMMA LoadReviewKeeps ==
  ASSUME IInv, NEW h \in Handles, LoadReview(h)
  PROVE  IInv' /\ UNCHANGED disk /\ UNCHANGED kills
<1> DEFINE s == mem[h]
           n == [s EXCEPT !.verdict = None, !.judged = None, !.life = "work"]
           todo == IF ReviewStale(Seen(h)) THEN <<File("state", ReviewDone(Seen(h)).state)>> ELSE <<>>
<1>1. s \in States /\ Copied(s, disk, kills) /\ disk \in Disks
  BY DEF LoadReview, At, IInv, Good
<1>2. ReviewStale(Seen(h)) => ReviewDone(Seen(h)).state = n
  BY <1>1 DEF ReviewDone, Seen, Disks
<1>3. n \in States /\ n.life = "work" /\ n.intent = s.intent /\ n.verdict = None
  BY <1>1 DEF States, Lives
<1> HIDE DEF n
<1>4. Reviewed(n) /\ Current(n, disk) /\ Older(n, disk, kills)
  BY <1>1, <1>3 DEF Reviewed, Current, Terminal, Older, Copied, Dated
<1>5. File("state", n) \in GoodWrites(h, disk, lock, kills)
  BY <1>3, <1>4, StateIsGood
<1>6. todo \in Seq(GoodWrites(h, disk, lock, kills))
  BY <1>2, <1>5, OneWrite, NoWrites
<1>7. /\ Goes(h, "terminal", todo) /\ UNCHANGED <<disk, lock, kills>>
      /\ mem' \in {mem, [mem EXCEPT ![h] = s]} /\ "terminal" \in Stages
  BY DEF LoadReview, Stages
<1> HIDE DEF todo, s
<1> QED  BY <1>1, <1>6, <1>7, GoesKeeps

LEMMA LoadTerminalKeeps ==
  ASSUME IInv, NEW h \in Handles, LoadTerminal(h)
  PROVE  IInv' /\ UNCHANGED disk /\ UNCHANGED kills
<1> DEFINE s == mem[h]
           a == disk.accepted
           n == TerminalDone(Seen(h)).state
<1>1. /\ s \in States /\ Copied(s, disk, kills) /\ disk \in Disks /\ a \in Snapshots \cup {None}
  BY Fields DEF LoadTerminal, At, IInv, Good
<1>2. Seen(h).state = s /\ Seen(h).accepted = a /\ Seen(h) = [disk EXCEPT !.state = s]
  BY <1>1 DEF Seen, Disks
<1>3. TerminalSound(Seen(h))  BY DEF LoadTerminal
<1>4. CASE n = s
  <2>1. Goes(h, "idle", <<>>) /\ UNCHANGED <<disk, mem, lock, kills>> /\ "idle" \in Stages
    BY <1>4 DEF LoadTerminal, Stages
  <2>2. <<>> \in Seq(GoodWrites(h, disk, lock, kills))  BY NoWrites
  <2> QED  BY <1>1, <2>1, <2>2, GoesKeeps
<1>5. CASE n # s
  <2>1. s.life \notin Terminal  BY <1>2, <1>5 DEF TerminalDone
  <2>2. ASSUME a = None
        PROVE  n \in States /\ Reviewed(n) /\ Current(n, disk) /\ Older(n, disk, kills)
    <3>1. n = [s EXCEPT !.intent = None]
      BY <1>1, <1>2, <2>1, <2>2 DEF TerminalDone, Seen, Disks
    <3>2. /\ n \in States /\ n.intent = None /\ n.life = s.life /\ n.verdict = s.verdict
          /\ n.judged = s.judged
      BY <1>1, <3>1 DEF States
    <3> HIDE DEF n
    <3>3. Reviewed(n) /\ Current(n, disk) /\ Older(n, disk, kills)
      BY <1>1, <2>1, <3>2 DEF Reviewed, Current, Older, Copied, Proper
    <3> QED  BY <3>2, <3>3
  <2>3. ASSUME a # None
        PROVE  n \in States /\ Reviewed(n) /\ Current(n, disk) /\ Older(n, disk, kills)
    <3>1. n = [s EXCEPT !.life = LifeOf(a.outcome), !.outcome = a]
      BY <1>1, <1>2, <2>1, <2>3 DEF TerminalDone, Seen, Disks
    <3>2. a \in Snapshots /\ a.outcome \in Outcomes /\ LifeOf(a.outcome) \in Terminal
      BY <1>1, <2>3, LifeOfOutcome DEF Snapshots
    <3>3. /\ n \in States /\ n.life = LifeOf(a.outcome) /\ n.outcome = a
          /\ n.intent = s.intent /\ n.verdict = s.verdict /\ n.judged = s.judged
          /\ n.active = s.active /\ n.repairs = s.repairs /\ n.stamp = s.stamp
      BY <1>1, <3>1, <3>2 DEF States, Lives
    <3> HIDE DEF n
    <3>4. /\ s.intent = a /\ s.active = None
          /\ Blocked(a) => s.verdict = "confirm_data_insufficiency" /\ s.judged = a.draft
      BY <1>2, <1>3, <2>3 DEF TerminalSound, SnapshotSound, Blocked
    <3>5. Blocked(a) => SameOpinion(disk.state, n)
      BY <2>3, <3>3, <3>4 DEF SameOpinion, IInv, Good, Agrees
    <3>6. Answer(a) => Frozen(disk.state, n)
      BY <1>1, <2>3, <3>3, <3>4 DEF Copied, Dated, Frozen
    <3>7. Reviewed(n) /\ Current(n, disk) /\ Older(n, disk, kills)
      BY <1>1, <2>3, <3>3, <3>4, <3>5, <3>6 DEF Reviewed, Current, Older, Copied, Proper
    <3> QED  BY <3>3, <3>7
  <2>4. n \in States /\ Reviewed(n) /\ Current(n, disk) /\ Older(n, disk, kills)
    BY <2>2, <2>3
  <2> HIDE DEF n
  <2>5. File("state", n) \in GoodWrites(h, disk, lock, kills)
    BY <2>4, StateIsGood
  <2>6. <<File("state", n)>> \in Seq(GoodWrites(h, disk, lock, kills))
    BY <2>5, OneWrite
  <2>7. Goes(h, "opening", <<File("state", n)>>) /\ UNCHANGED <<disk, mem, lock, kills>>
        /\ "opening" \in Stages
    BY <1>5 DEF LoadTerminal, Stages, n
  <2> QED  BY <1>1, <2>6, <2>7, GoesKeeps
<1> QED  BY <1>4, <1>5

LEMMA QuietKeeps ==
  ASSUME IInv, NEW h \in Handles, Exit(h) \/ Refused(h) \/ Repair(h)
  PROVE  IInv' /\ UNCHANGED disk /\ UNCHANGED kills
<1>0. None \in States \cup {None} /\ "idle" \in Stages /\ "ready" \in Stages
  BY DEF Stages
<1>1. <<>> \in Seq(GoodWrites(h, disk, lock, kills))  BY NoWrites
<1>2. CASE Exit(h)
  BY <1>0, <1>1, <1>2, GoesKeeps DEF Exit
<1>3. CASE Refused(h)
  BY <1>0, <1>1, <1>3, GoesKeeps DEF Refused
<1>4. CASE Repair(h)
  <2>1. DiscardWrites(disk) \in Seq(GoodWrites(h, disk, lock, kills))
    BY <1>4, RepairWrites DEF Repair, IInv
  <2> QED  BY <1>0, <1>4, <2>1, GoesKeeps DEF Repair
<1> QED  BY <1>2, <1>3, <1>4

LEMMA StoreKeeps ==
  ASSUME IInv, NEW h \in Handles, NEW n \in States, Store(h, n),
         Reviewed(n), Current(n, disk), Older(n, disk, kills)
  PROVE  IInv' /\ UNCHANGED disk /\ UNCHANGED kills
<1>1. File("state", n) \in GoodWrites(h, disk, lock, kills)  BY StateIsGood
<1>2. <<File("state", n)>> \in Seq(GoodWrites(h, disk, lock, kills))  BY <1>1, OneWrite
<1>3. /\ Goes(h, "idle", <<File("state", n)>>) /\ UNCHANGED <<disk, lock, kills>> /\ mem' = mem
      /\ "idle" \in Stages /\ None \in States \cup {None}
  BY DEF Store, Stages
<1> QED  BY <1>2, <1>3, GoesKeeps

\* The attempts leave open states, with the review and the intent they found.
LEMMA AttemptKeeps ==
  ASSUME IInv, NEW h \in Handles,
         \/ \E l \in Lanes : BeginAttempt(h, l) \/ BeginRecovery(h, l)
         \/ ObserveAttempt(h) \/ FinishAttempt(h)
  PROVE  IInv' /\ UNCHANGED disk /\ UNCHANGED kills
<1> DEFINE s == mem[h]
<1>0. Ready(h) /\ Running(s)
  BY DEF BeginAttempt, BeginRecovery, ObserveAttempt, FinishAttempt
<1>1. s \in States /\ Copied(s, disk, kills)
  BY <1>0 DEF Ready, At, IInv
<1>2. PICK n : /\ Store(h, n)
               /\ \/ n = s
                  \/ n = [s EXCEPT !.life = "work"]
                  \/ \E l \in Lanes \cup {None}, life \in {"work", "recovering"} :
                        n = [s EXCEPT !.active = l, !.life = life]
  BY DEF BeginAttempt, BeginRecovery, ObserveAttempt, FinishAttempt
<1>3. /\ n \in States /\ n.life \notin Terminal /\ n.verdict = s.verdict
      /\ n.judged = s.judged /\ n.intent = s.intent
  <2>1. CASE n = s  BY <2>1, <1>0, <1>1 DEF Running
  <2>2. CASE n = [s EXCEPT !.life = "work"]  BY <2>2, <1>1 DEF States, Lives, Terminal
  <2>3. ASSUME NEW l \in Lanes \cup {None}, NEW life \in {"work", "recovering"},
               n = [s EXCEPT !.active = l, !.life = life]
        PROVE  /\ n \in States /\ n.life \notin Terminal /\ n.verdict = s.verdict
               /\ n.judged = s.judged /\ n.intent = s.intent
    BY <2>3, <1>1 DEF States, Lives, Terminal
  <2> QED  BY <1>2, <2>1, <2>2, <2>3
<1> HIDE DEF s
<1>4. Reviewed(n) /\ Current(n, disk) /\ Older(n, disk, kills)
  BY <1>1, <1>3 DEF Reviewed, Current, Older, Copied, Proper, Dated
<1> QED  BY <1>2, <1>3, <1>4, StoreKeeps

LEMMA MarkKeeps ==
  ASSUME IInv, NEW h \in Handles, NEW r \in {"integrated", "technical_failure"},
         MarkIntegration(h, r)
  PROVE  IInv' /\ UNCHANGED disk /\ UNCHANGED kills
<1> DEFINE s == mem[h]
           n == [s EXCEPT !.integration = r]
<1>0. Ready(h) /\ Store(h, n)  BY DEF MarkIntegration
<1>1. s \in States /\ Copied(s, disk, kills)  BY <1>0 DEF Ready, At, IInv
<1>2. /\ n \in States /\ n.life = s.life /\ n.outcome = s.outcome /\ n.intent = s.intent
      /\ n.verdict = s.verdict /\ n.judged = s.judged /\ n.active = s.active
      /\ n.repairs = s.repairs /\ n.stamp = s.stamp
  BY <1>1 DEF States
<1> HIDE DEF n, s
<1>3. Reviewed(n) /\ Current(n, disk) /\ Older(n, disk, kills)
  BY <1>1, <1>2 DEF Reviewed, Current, Older, Copied, Proper, Dated, Frozen, SameOpinion
<1> QED  BY <1>0, <1>2, <1>3, StoreKeeps

\* A call that is not one step goes on, or is killed.
LEMMA CallKeeps ==
  ASSUME IInv, NEW h \in Handles, Good(disk'), Steps(disk, disk', kills),
         Dated(disk'.state, disk', kills'), disk'.draft = disk.draft,
         kills' \in 0..MaxKills, kills' \in {kills, kills + 1}, lock' \in Handles \cup {None},
         lock' = lock \/ lock \in {None, h},
         NEW todo \in Seq(GoodWrites(h, disk', lock', kills')),
         NEW undo \in Seq(GoodWrites(h, disk', lock', kills')), NEW at \in Stages,
         call' = [call EXCEPT ![h] = Doing(at, todo, undo)],
         NEW x \in States \cup {None}, x # None => Copied(x, disk', kills'),
         mem' \in {mem, [mem EXCEPT ![h] = x]}
  PROVE  IInv'
<1>1. todo \in Seq(Files) /\ undo \in Seq(Files)  BY GoodAreFiles
<1>2. /\ Doing(at, todo, undo) \in Calls
      /\ Doing(at, todo, undo).todo = todo /\ Doing(at, todo, undo).undo = undo
  BY <1>1, Calling
<1>3. call' \in [Handles -> Calls]  BY <1>2 DEF IInv
<1>4. ASSUME NEW g \in Handles
      PROVE  /\ call'[g].todo \in Seq(GoodWrites(g, disk', lock', kills'))
             /\ call'[g].undo \in Seq(GoodWrites(g, disk', lock', kills'))
  <2>1. CASE g = h
    <3>1. call'[g] = Doing(at, todo, undo)  BY <2>1 DEF IInv
    <3> QED  BY <2>1, <3>1, <1>2
  <2>2. CASE g # h
    <3>1. call'[g] = call[g]  BY <2>2 DEF IInv
    <3>2. lock # g \/ lock' = lock  BY <2>2, ItemAssumption
    <3>3. Seq(GoodWrites(g, disk, lock, kills)) \subseteq Seq(GoodWrites(g, disk', lock', kills'))
      BY <3>2, WritesStay DEF IInv
    <3> QED  BY <3>1, <3>3 DEF IInv
  <2> QED  BY <2>1, <2>2
<1>5. mem' \in [Handles -> States \cup {None}]  BY DEF IInv
<1>6. ASSUME NEW g \in Handles, mem'[g] # None PROVE Copied(mem'[g], disk', kills')
  <2>1. CASE mem'[g] = mem[g]
    <3>1. mem[g] \in States /\ Copied(mem[g], disk, kills)  BY <2>1, <1>6 DEF IInv
    <3> QED  BY <2>1, <3>1, StaysCopied DEF IInv
  <2>2. CASE mem'[g] = x  BY <2>2, <1>6
  <2> QED  BY <2>1, <2>2 DEF IInv
<1> QED  BY <1>3, <1>4, <1>5, <1>6 DEF IInv

LEMMA KillKeeps ==
  ASSUME IInv, NEW h \in Handles, Kill(h)
  PROVE  IInv' /\ UNCHANGED disk /\ kills' = kills + 1
<1>1. disk' = disk /\ kills' = kills + 1 /\ kills < MaxKills  BY DEF Kill
<1>2. kills' \in 0..MaxKills  BY <1>1, ItemAssumption DEF IInv
<1>3. Good(disk') /\ Steps(disk, disk', kills) /\ disk'.draft = disk.draft /\ disk.state \in States
      /\ disk'.state.intent = disk.state.intent
  BY <1>1, Fields DEF IInv, Good, Steps, Moves, Keeps, Opens
<1>4. Dated(disk'.state, disk', kills')
  <2>1. Dated(disk.state, disk', kills')  BY <1>2, <1>3, <1>1, StaysDated DEF IInv
  <2> QED  BY <2>1, <1>1
<1>5. NoCall = Doing("idle", <<>>, <<>>) /\ "idle" \in Stages  BY DEF NoCall, Stages
<1>6. /\ lock' = lock \/ lock \in {None, h}
      /\ lock' \in Handles \cup {None} /\ mem' = [mem EXCEPT ![h] = None]
      /\ call' = [call EXCEPT ![h] = NoCall]
  BY DEF Kill, IInv
<1>7. <<>> \in Seq(GoodWrites(h, disk', lock', kills'))  BY NoWrites
<1>8. IInv'  BY <1>1, <1>2, <1>3, <1>4, <1>5, <1>6, <1>7, CallKeeps
<1> QED  BY <1>1, <1>8
-----------------------------------------------------------------------------
(* One write of such a call. *)

\* A state is written over a published item: it is the closed one, or agrees.
LEMMA ClosedWritten ==
  ASSUME NEW d, Good(d), NEW s \in States, Persistable(d, s), Reviewed(s), Current(s, d),
         d.accepted # None
  PROVE  LET e == [d EXCEPT !.state = s]
         IN  Good(e) /\ Settles(d, e) /\ e.accepted = d.accepted /\ e.state = s
<1> DEFINE e == [d EXCEPT !.state = s]
           a == d.accepted
<1>1. /\ d \in Disks /\ ValidState(s) /\ s.life \in Terminal /\ a \in Snapshots
      /\ s.life = LifeOf(a.outcome) /\ s.outcome = a /\ s.intent = a
      /\ Answer(a) => Frozen(d.state, s)
      /\ Blocked(a) => SameOpinion(d.state, s)
  BY Fields DEF Good, Persistable, Current
<1>2. /\ e \in Disks /\ e.state = s /\ e.packet = d.packet /\ e.draft = d.draft
      /\ e.anchor = d.anchor /\ e.accepted = a
  BY <1>1, Written DEF Disks
<1> HIDE DEF e
<1>3. Good(e)
  BY <1>1, <1>2 DEF Good, Proper, Agrees, EnvelopeKept, SameOpinion
<1>4. d.state.life \in Terminal => d.state.life = s.life
  BY <1>1 DEF Good, Agrees, Proper, ValidState
<1>5. Settles(d, e)
  BY <1>1, <1>2, <1>4 DEF Settles, Frozen, SameOpinion
<1> QED  BY <1>2, <1>3, <1>5 DEF e

LEMMA StateWriteKeeps ==
  ASSUME NEW d, Good(d), NEW k \in 0..MaxKills, NEW s \in States, Persistable(d, s),
         Reviewed(s), Current(s, d), Older(s, d, k)
  PROVE  LET e == [d EXCEPT !.state = s]
         IN  /\ Good(e) /\ Steps(d, e, k) /\ Dated(e.state, e, k) /\ e.draft = d.draft
             /\ e.state = s
<1> DEFINE e == [d EXCEPT !.state = s]
<1>1. d \in Disks /\ e.draft = d.draft  BY DEF Good, Disks
<1>2. CASE d.accepted = None
  <2>1. s.life \notin Terminal  BY <1>2 DEF Current
  <2>2. Good(e) /\ e.accepted = None /\ e.state = s  BY <2>1, GoodWritten
  <2> HIDE DEF e
  <2>3. Steps(d, e, k)  BY <1>2, <2>2 DEF Steps, Opens
  <2>4. Dated(e.state, e, k)  BY <1>2, <2>2 DEF Dated, Older
  <2> QED  BY <1>1, <2>2, <2>3, <2>4 DEF e
<1>3. CASE d.accepted # None
  <2>1. Good(e) /\ Settles(d, e) /\ e.accepted = d.accepted /\ e.state = s  BY <1>3, ClosedWritten
  <2> HIDE DEF e
  <2>2. Steps(d, e, k)  BY <2>1 DEF Steps, Moves
  <2>3. e.state.intent = e.accepted  BY <1>3, <2>1 DEF Good, Agrees
  <2>4. Dated(e.state, e, k)  BY <2>3 DEF Dated, Older, Frozen
  <2> QED  BY <1>1, <2>1, <2>2, <2>4 DEF e
<1> QED  BY <1>2, <1>3

After(d, w) == [d EXCEPT ![w.file] = w.to]

LEMMA OtherWriteKeeps ==
  ASSUME NEW d, Good(d), NEW k, NEW h, NEW l, NEW w \in GoodWrites(h, d, l, k), w.file # "state",
         Dated(d.state, d, k), NEW e, e = After(d, w)
  PROVE  Good(e) /\ Steps(d, e, k) /\ Dated(e.state, e, k) /\ e.draft = d.draft
<1>0. d \in Disks /\ w \in Files /\ DiscardGood(d.anchor) /\ EnvelopeKept(d)
  BY DEF GoodWrites, Good
<1>1. /\ e \in Disks /\ e.state = d.state /\ e.accepted = d.accepted /\ e.draft = d.draft
      /\ EnvelopeKept(e) /\ DiscardGood(e.anchor)
  <2>1. CASE w.file = "packet"
    <3>1. w.to \in Packets \cup {None}  BY <1>0, <2>1 DEF Files
    <3>2. /\ e \in Disks /\ e.state = d.state /\ e.accepted = d.accepted /\ e.draft = d.draft
          /\ e.packet = w.to /\ e.anchor = d.anchor
      BY <1>0, <2>1, <3>1, Written DEF Disks, After
    <3>3. w.to # None /\ w.to.active => d.draft # None /\ Envelope[d.draft] = Envelope[w.to.before]
      BY <2>1 DEF GoodWrites
    <3> QED  BY <1>0, <3>2, <3>3 DEF EnvelopeKept
  <2>2. CASE w.file = "anchor"
    <3>1. w.to \in Anchors \cup {None} /\ DiscardGood(w.to)  BY <1>0, <2>2 DEF Files, GoodWrites
    <3>2. /\ e \in Disks /\ e.state = d.state /\ e.accepted = d.accepted /\ e.draft = d.draft
          /\ e.packet = d.packet /\ e.anchor = w.to
      BY <1>0, <2>2, <3>1, Written DEF Disks, After
    <3> QED  BY <1>0, <3>1, <3>2 DEF EnvelopeKept
  <2>3. CASE w.file = "audit"
    <3>1. w.to \in 0..MaxDiscards  BY <1>0, <2>3 DEF Files
    <3>2. /\ e \in Disks /\ e.state = d.state /\ e.accepted = d.accepted /\ e.draft = d.draft
          /\ e.packet = d.packet /\ e.anchor = d.anchor
      BY <1>0, <2>3, <3>1, Written DEF Disks, After
    <3> QED  BY <1>0, <3>2 DEF EnvelopeKept
  <2> QED  BY <1>0, <2>1, <2>2, <2>3 DEF Files
<1>2. Good(e) /\ Keeps(d, e)  BY <1>1, FileWritten
<1>3. Steps(d, e, k)  BY <1>2 DEF Steps, Moves
<1>4. Dated(e.state, e, k)  BY <1>1 DEF Dated, Older
<1> QED  BY <1>1, <1>2, <1>3, <1>4

LEMMA WriteKeeps ==
  ASSUME IInv, NEW h \in Handles, Write(h)
  PROVE  IInv' /\ Steps(disk, disk', kills) /\ kills' = kills
<1> DEFINE c == call[h]
           w == Head(c.todo)
           rest == IF Possible(w) THEN Tail(c.todo) ELSE c.undo
           at == IF ~Possible(w) \/ (rest = <<>> /\ c.at = "opening") THEN "idle" ELSE c.at
           undo == IF Possible(w) /\ rest # <<>> THEN c.undo ELSE <<>>
           e == IF Possible(w) THEN [disk EXCEPT ![w.file] = w.to] ELSE disk
           x == IF Possible(w) THEN IF w.file = "state" THEN w.to ELSE mem[h]
                ELSE IF Loading(c.at) THEN None ELSE mem[h]
           m == IF lock = h /\ rest = <<>> THEN None ELSE lock
           G == GoodWrites(h, disk, lock, kills)
<1>1. /\ c.todo # <<>> /\ c.todo \in Seq(G) /\ c.undo \in Seq(G) /\ c.at \in Stages
      /\ kills \in 0..MaxKills /\ Good(disk) /\ Dated(disk.state, disk, kills) /\ disk \in Disks
  BY DEF Write, IInv, Calls, Stages, Good
<1>2. w \in G /\ Tail(c.todo) \in Seq(G)  BY <1>1, HeadTailProperties
<1>3. at \in Stages  BY <1>1 DEF Stages
<1>4. rest \in Seq(G)  BY <1>1, <1>2
<1>5. undo \in Seq(G)  BY <1>1, NoWrites
<1>6. /\ disk' = e /\ lock' = m /\ kills' = kills
      /\ call' = [call EXCEPT ![h] = Doing(at, rest, undo)]
  BY DEF Write
<1>7. mem' \in {mem, [mem EXCEPT ![h] = x]}
  BY DEF Write, IInv
<1>8. m \in Handles \cup {None} /\ (m = lock \/ lock \in {None, h}) /\ (rest # <<>> => m = lock)
      /\ (rest = <<>> => undo = <<>>)
  BY DEF IInv
<1> HIDE DEF rest, at, undo, m
<1>9. /\ Good(e) /\ Steps(disk, e, kills) /\ Dated(e.state, e, kills) /\ e.draft = disk.draft
      /\ x \in States \cup {None} /\ (x # None => Copied(x, e, kills))
  <2>1. ASSUME ~Possible(w)
        PROVE  /\ e = disk /\ Steps(disk, disk, kills) /\ x \in {None, mem[h]}
    BY <1>1, <2>1 DEF Steps, Moves, Keeps, Opens, Good
  <2>2. ASSUME Possible(w), w.file # "state"
        PROVE  /\ Good(e) /\ Steps(disk, e, kills) /\ Dated(e.state, e, kills)
               /\ e.draft = disk.draft /\ x = mem[h]
    <3>1. e = After(disk, w) /\ x = mem[h]  BY <2>2 DEF After
    <3>2. w \in GoodWrites(h, disk, lock, kills) /\ w.file # "state"  BY <1>2, <2>2
    <3> HIDE DEF e, x, w, c
    <3> QED  BY <1>1, <3>1, <3>2, OtherWriteKeeps
  <2>3. ASSUME Possible(w), w.file = "state"
        PROVE  /\ Good(e) /\ Steps(disk, e, kills) /\ Dated(e.state, e, kills)
               /\ e.draft = disk.draft /\ x = e.state
    <3>1. /\ w.to \in States /\ Reviewed(w.to) /\ Current(w.to, disk)
          /\ Older(w.to, disk, kills) /\ Persistable(disk, w.to)
      BY <1>2, <2>3 DEF GoodWrites, Files, Possible
    <3>2. e = [disk EXCEPT !.state = w.to] /\ x = w.to  BY <2>3
    <3> HIDE DEF e, x, w, c
    <3> QED  BY <1>1, <3>1, <3>2, StateWriteKeeps
  <2> HIDE DEF e, x, w
  <2>4. mem[h] \in States \cup {None} /\ (mem[h] # None => Copied(mem[h], disk, kills))
    BY DEF IInv
  <2>5. ASSUME Good(e), Steps(disk, e, kills), x = mem[h]
        PROVE  x \in States \cup {None} /\ (x # None => Copied(x, e, kills))
    BY <2>4, <2>5, <1>1, StaysCopied
  <2>6. ASSUME Good(e), Dated(e.state, e, kills), x = e.state
        PROVE  x \in States \cup {None} /\ (x # None => Copied(x, e, kills))
    BY <2>6, <1>1, StateCopied, Fields DEF Good
  <2> QED  BY <1>1, <2>1, <2>2, <2>3, <2>4, <2>5, <2>6
<1> HIDE DEF e, x, w
<1>10. rest \in Seq(GoodWrites(h, e, m, kills)) /\ undo \in Seq(GoodWrites(h, e, m, kills))
  <2>1. CASE rest = <<>>  BY <2>1, <1>8, NoWrites
  <2>2. CASE rest # <<>>
    <3>1. Seq(G) \subseteq Seq(GoodWrites(h, e, m, kills))
      BY <1>1, <1>8, <1>9, <2>2, WritesStay
    <3> QED  BY <3>1, <1>4, <1>5
  <2> QED  BY <2>1, <2>2
<1> HIDE DEF c, G
<1>11. /\ Good(disk') /\ Steps(disk, disk', kills) /\ Dated(disk'.state, disk', kills')
       /\ disk'.draft = disk.draft /\ kills' \in 0..MaxKills /\ kills' \in {kills, kills + 1}
       /\ lock' \in Handles \cup {None} /\ (lock' = lock \/ lock \in {None, h})
  BY <1>1, <1>6, <1>8, <1>9
<1>12. /\ rest \in Seq(GoodWrites(h, disk', lock', kills'))
       /\ undo \in Seq(GoodWrites(h, disk', lock', kills'))
       /\ x # None => Copied(x, disk', kills')
  BY <1>6, <1>9, <1>10
<1>13. IInv'
  BY <1>3, <1>6, <1>7, <1>9, <1>11, <1>12, CallKeeps
<1> QED  BY <1>6, <1>11, <1>13
-----------------------------------------------------------------------------
(* The discard of a packet. *)

LEMMA NowDated ==
  ASSUME IInv, DiscardSound(disk)
  PROVE  Steps(disk, Now, kills) /\ Dated(Now.state, Now, kills) /\ Now.draft = disk.draft
<1>1. Keeps(disk, Now) /\ Steps(disk, Now, kills) /\ disk \in Disks /\ kills \in 0..MaxKills
      /\ kills \in {kills, kills + 1} /\ disk.state \in States
  BY NowGood, Fields DEF Steps, Moves, IInv, Good
<1>2. Now.draft = disk.draft
  BY <1>1 DEF Now, DiscardDone, Disks
<1>3. CASE Now.state = disk.state
  <2>1. Dated(disk.state, Now, kills)  BY <1>1, StaysDated DEF IInv
  <2> QED  BY <1>1, <1>2, <1>3, <2>1
<1>4. CASE Restarted(Now.state)
  BY <1>1, <1>2, <1>4 DEF Restarted, Dated, Older
<1> QED  BY <1>3, <1>4, NowGood

LEMMA SevenWrites ==
  ASSUME NEW S, NEW a \in S, NEW b \in S, NEW c \in S, NEW d \in S, NEW e \in S, NEW f \in S
  PROVE  <<a, b, c, d, c, e, f>> \in Seq(S)
OBVIOUS

LEMMA ThreeWrites ==
  ASSUME NEW S, NEW a \in S, NEW b \in S, NEW c \in S
  PROVE  <<a, b, c>> \in Seq(S)
OBVIOUS

LEMMA DiscardReviewKeeps ==
  ASSUME IInv, NEW h \in Handles, DiscardReview(h)
  PROVE  (IInv' /\ Steps(disk, disk', kills) /\ kills' = kills) \/ \E e : Left(h, e)
<1> DEFINE n == Now.audit
           s == [Pending(Held(h)) EXCEPT !.repairs = 0, !.stamp = n + 1]
           i == [prior |-> n, draft |-> Now.draft, packet |-> Now.packet,
                 before |-> Now.state, after |-> s]
           a1 == [count |-> n, intent |-> i]
           a2 == [count |-> n + 1, intent |-> i]
           a3 == [count |-> n + 1, intent |-> None]
           G == GoodWrites(h, Now, h, kills)
           todo == <<File("anchor", a1), File("audit", n + 1), File("anchor", a2),
                     File("packet", None), File("anchor", a2), File("state", s),
                     File("anchor", a3)>>
           undo == <<File("packet", Now.packet), File("audit", n), File("anchor", Now.anchor)>>
<1>0. /\ DiscardSound(disk) /\ Now \in Disks /\ Good(Now) /\ Keeps(disk, Now)
      /\ Now.packet # None /\ Now.draft # None /\ n < MaxDiscards
      /\ Open(h) /\ Idle(mem[h]) /\ mem[h].intent = None /\ Free(h)
  BY NowGood DEF DiscardReview, Open
<1>1. n \in 0..MaxDiscards /\ n + 1 \in 0..MaxDiscards  BY <1>0, Fields, ItemAssumption
<1>2. s \in States /\ Restarted(s) /\ Proper(s)  BY <1>0, <1>1, DiscardedState
<1>3. /\ Now.draft \in Drafts /\ Now.packet \in Packets /\ Now.state \in States
      /\ Now.anchor \in Anchors \cup {None}
  BY <1>0, Fields
<1>4. CASE Killed(h, DiscardMids(disk) \cup {Now})
  <2>1. Good(disk') /\ Moves(disk, disk', kills)
    BY <1>0, <1>4, CutsGood DEF Killed, Moves
  <2>2. Left(h, disk')  BY <1>0, <1>4, <2>1 DEF Killed, Left
  <2> QED  BY <2>2
<1>5. CASE /\ disk' = Now /\ mem' = [mem EXCEPT ![h] = Held(h)] /\ lock' = h
           /\ call' = [call EXCEPT ![h] = Doing("idle", todo, undo)] /\ kills' = kills
  <2> HIDE DEF s
  <2>1. i \in Discards /\ i.after = s  BY <1>1, <1>2, <1>3 DEF Discards
  <2> HIDE DEF i, n
  <2>2. /\ a1 \in Anchors /\ a1.intent = i /\ a2 \in Anchors /\ a2.intent = i
        /\ a3 \in Anchors /\ a3.intent = None
    BY <1>1, <2>1 DEF Anchors
  <2> HIDE DEF a1, a2, a3
  <2>3. DiscardGood(a1) /\ DiscardGood(a2) /\ DiscardGood(a3) /\ DiscardGood(Now.anchor)
    BY <1>0, <1>2, <2>1, <2>2 DEF DiscardGood, Good
  <2>4. Reviewed(s) /\ Current(s, Now) /\ Older(s, Now, kills)
    BY <1>2 DEF Restarted, Current, Older, Terminal, Proper
  <2>5. /\ File("anchor", a1) \in G /\ File("anchor", a2) \in G /\ File("anchor", a3) \in G
        /\ File("anchor", Now.anchor) \in G /\ File("state", s) \in G
        /\ File("packet", None) \in G /\ File("audit", n) \in G /\ File("audit", n + 1) \in G
    BY <1>1, <1>2, <1>3, <2>2, <2>3, <2>4, AnchorIsGood, StateIsGood, OthersAreGood
  <2>6. File("packet", Now.packet) \in G
    BY <1>0, <1>3, TheFiles DEF GoodWrites, Good, EnvelopeKept
  <2> HIDE DEF G
  <2>7. todo \in Seq(G) /\ undo \in Seq(G)  BY <2>5, <2>6, SevenWrites, ThreeWrites
  <2> HIDE DEF todo, undo
  <2>8. Held(h) \in States /\ Copied(Held(h), Now, kills)
    <3>1. mem[h] \in States /\ Copied(mem[h], disk, kills) /\ kills \in 0..MaxKills /\ Good(disk)
      BY <1>0 DEF Open, IInv
    <3>2. Steps(disk, Now, kills) /\ Dated(Now.state, Now, kills)  BY <1>0, NowDated
    <3>3. CASE Held(h) = mem[h]  BY <3>1, <3>2, <3>3, StaysCopied
    <3>4. CASE Held(h) = Now.state  BY <1>0, <1>3, <3>2, <3>4, StateCopied
    <3> QED  BY <3>3, <3>4 DEF Held
  <2>9. /\ Good(disk') /\ Steps(disk, disk', kills) /\ Dated(disk'.state, disk', kills')
        /\ disk'.draft = disk.draft /\ kills' \in 0..MaxKills /\ kills' \in {kills, kills + 1}
    BY <1>0, <1>5, NowDated DEF IInv
  <2>10. lock' \in Handles \cup {None} /\ lock \in {None, h} /\ "idle" \in Stages
    BY <1>0, <1>5 DEF Free, Stages
  <2>11. /\ todo \in Seq(GoodWrites(h, disk', lock', kills'))
         /\ undo \in Seq(GoodWrites(h, disk', lock', kills'))
         /\ Copied(Held(h), disk', kills')
    BY <1>5, <2>7, <2>8 DEF G
  <2>12. IInv'
    BY <1>5, <2>8, <2>9, <2>10, <2>11, CallKeeps
  <2> QED  BY <1>5, <2>9, <2>12
<1>6. \/ Killed(h, DiscardMids(disk) \cup {Now})
      \/ /\ disk' = Now /\ mem' = [mem EXCEPT ![h] = Held(h)] /\ lock' = h
         /\ call' = [call EXCEPT ![h] = Doing("idle", todo, undo)] /\ kills' = kills
  BY DEF DiscardReview
<1> QED  BY <1>4, <1>5, <1>6

LEMMA OwnerRefLeft ==
  ASSUME IInv, NEW h \in Handles, OwnerRef(h)
  PROVE  \E e : Left(h, e)
<1>1. Left(h, disk)  BY DEF OwnerRef, Left, IInv, Moves, Keeps
<1> QED  BY <1>1

LEMMA DiscardFailsKeeps ==
  ASSUME IInv, NEW h \in Handles, DiscardFails(h)
  PROVE  IInv' /\ Steps(disk, disk', kills) /\ kills' = kills
<1>1. Good(disk') /\ Keeps(disk, disk')  BY PacketGone DEF DiscardFails, IInv
<1>2. /\ disk'.state = disk.state /\ disk'.draft = disk.draft /\ disk'.accepted = disk.accepted
      /\ disk.state \in States
  BY DEF DiscardFails, IInv, Good, Disks
<1>3. Steps(disk, disk', kills) /\ Dated(disk'.state, disk', kills)
  BY <1>1, <1>2 DEF Steps, Moves, Dated, Older, IInv
<1>4. /\ kills' = kills /\ lock' = lock /\ kills' \in 0..MaxKills /\ kills' \in {kills, kills + 1}
      /\ lock' \in Handles \cup {None} /\ call' = call /\ call[h] = NoCall /\ "idle" \in Stages
  BY DEF DiscardFails, Free, IInv, Stages
<1>5. call' = [call EXCEPT ![h] = Doing("idle", <<>>, <<>>)]
  BY <1>4 DEF IInv, NoCall
<1>6. PICK x \in States : x = disk.state  BY <1>2
<1>a. Copied(x, disk', kills')
  <2>1. Copied(disk'.state, disk', kills)  BY <1>1, <1>3, StateCopied
  <2> QED  BY <2>1, <1>2, <1>4, <1>6
<1>7. <<>> \in Seq(GoodWrites(h, disk', lock', kills'))  BY NoWrites
<1>8. mem' \in {mem, [mem EXCEPT ![h] = x]}  BY <1>6 DEF DiscardFails
<1>9. Dated(disk'.state, disk', kills')  BY <1>3, <1>4
<1>10. IInv'
  BY <1>1, <1>2, <1>3, <1>4, <1>5, <1>a, <1>7, <1>8, <1>9, CallKeeps
<1> QED  BY <1>3, <1>4, <1>10
-----------------------------------------------------------------------------
(* The invariant, and what a step may do to the directory. *)

LEMMA ArtifactLeft ==
  ASSUME IInv, NEW h \in Handles, NEW w \in Works,
         WriteWork(h, w) \/ (\E o \in Owners \cup {None} : AppendWork(h, o, w))
         \/ (\E o \in Owners : ReplaceSourceMap(h, o, w) \/ ReplaceWork(h, o, w))
  PROVE  \E e : Left(h, e)
<1>1. DiscardSound(disk) => Good(Now) /\ Keeps(Now, Now)  BY NowGood DEF Keeps
<1>2. CASE ArtifactWritten(h, Now, w)  BY <1>1, <1>2, WorkLeft
<1>3. ASSUME NEW o \in Owners, ReplaceWork(h, o, w) PROVE \E e : Left(h, e)
  <2>1. DiscardSound(disk) => Good(Bind(Now, o)) /\ Keeps(Now, Bind(Now, o))
    BY NowGood, BindGood
  <2> QED  BY <1>3, <2>1, WorkLeft DEF ReplaceWork
<1> QED  BY <1>2, <1>3 DEF WriteWork, AppendWork, ReplaceSourceMap

LEMMA Step ==
  ASSUME IInv, Next
  PROVE  IInv' /\ Steps(disk, disk', kills)
<1>1. ASSUME NEW h \in Handles, NEW e, Left(h, e)
      PROVE IInv' /\ Steps(disk, disk', kills)
  BY <1>1, LeftKeeps DEF Left, Steps, Intends
<1>2. Steps(disk, disk, kills)  BY DEF IInv, Good, Steps, Moves, Keeps, Opens
<1>3. PICK h \in Handles :
        \/ Load(h) \/ LoadReview(h) \/ LoadTerminal(h) \/ Exit(h)
        \/ Write(h) \/ Kill(h) \/ Repair(h) \/ Refused(h)
        \/ OwnerRef(h) \/ DiscardFails(h)
        \/ \E v \in Drafts : WriteDraft(h, v)
        \/ \E w \in Works :
             \/ WriteWork(h, w)
             \/ \E o \in Owners \cup {None} : AppendWork(h, o, w)
             \/ \E o \in Owners : ReplaceSourceMap(h, o, w) \/ ReplaceWork(h, o, w)
        \/ \E l \in Lanes : BeginAttempt(h, l) \/ BeginRecovery(h, l)
        \/ ObserveAttempt(h) \/ FinishAttempt(h)
        \/ \E v \in Verdicts : RecordReview(h, v)
        \/ \E o \in Owners : BindOwner(h, o) \/ UseBusinessRepair(h, o) \/ Conclude(h, o)
        \/ DiscardReview(h)
        \/ Accept(h) \/ TechnicalFailure(h) \/ FinalizeBlocked(h)
        \/ \E r \in {"integrated", "technical_failure"} : MarkIntegration(h, r)
  BY DEF Next
<1>4. CASE Load(h) \/ LoadReview(h) \/ LoadTerminal(h) \/ Exit(h) \/ Refused(h) \/ Repair(h)
           \/ Kill(h)
  BY <1>2, <1>4, LoadKeeps, LoadReviewKeeps, LoadTerminalKeeps, QuietKeeps, KillKeeps
<1>5. CASE \/ \E l \in Lanes : BeginAttempt(h, l) \/ BeginRecovery(h, l)
           \/ ObserveAttempt(h) \/ FinishAttempt(h)
  BY <1>2, <1>5, AttemptKeeps
<1>6. CASE \E r \in {"integrated", "technical_failure"} : MarkIntegration(h, r)
  BY <1>2, <1>6, MarkKeeps
<1>7. CASE Write(h) \/ DiscardFails(h)
  BY <1>7, WriteKeeps, DiscardFailsKeeps
<1>8. CASE DiscardReview(h)
  BY <1>1, <1>8, DiscardReviewKeeps
<1>9. CASE OwnerRef(h) \/ (\E v \in Drafts : WriteDraft(h, v))
           \/ (\E o \in Owners : BindOwner(h, o) \/ UseBusinessRepair(h, o) \/ Conclude(h, o))
           \/ (\E v \in Verdicts : RecordReview(h, v))
           \/ Accept(h) \/ TechnicalFailure(h) \/ FinalizeBlocked(h)
  <2>1. \E e : Left(h, e)
    BY <1>9, OwnerRefLeft, WriteDraftLeft, BindOwnerLeft, UseRepairLeft, ConcludeLeft,
       RecordReviewLeft, AcceptLeft, TechnicalFailureLeft, FinalizeBlockedLeft
  <2> QED  BY <1>1, <2>1
<1>10. CASE \E w \in Works :
              \/ WriteWork(h, w)
              \/ \E o \in Owners \cup {None} : AppendWork(h, o, w)
              \/ \E o \in Owners : ReplaceSourceMap(h, o, w) \/ ReplaceWork(h, o, w)
  <2>1. \E e : Left(h, e)  BY <1>10, ArtifactLeft
  <2> QED  BY <1>1, <2>1
<1> QED  BY <1>3, <1>4, <1>5, <1>6, <1>7, <1>8, <1>9, <1>10

LEMMA Keeping == IInv /\ [Next]_vars => IInv'
<1>1. ASSUME IInv, UNCHANGED vars PROVE IInv'
  BY <1>1 DEF vars, IInv
<1> QED  BY <1>1, Step

LEMMA Invariance == Spec => []IInv
BY Start, Keeping, PTL DEF Spec

\* The directory keeps its types, and the state file the shape that every load
\* requires, through kills and stale copies (_validate_lifecycle_consistency).
THEOREM TypeCorrect == Spec => []TypeOK
<1>1. IInv => TypeOK  BY DEF IInv, TypeOK, Good, Proper
<1> QED  BY Invariance, <1>1, PTL

\* While a repair is open the draft keeps the immutable fields of the draft the
\* repair began with (write_draft, record_review, use_business_repair).
THEOREM RepairsStayInScope == Spec => []RepairKeepsEnvelope
<1>1. IInv => RepairKeepsEnvelope  BY DEF IInv, Good, EnvelopeKept, RepairKeepsEnvelope
<1> QED  BY Invariance, <1>1, PTL

\* After the publication of an answer no handle, however old its copy, changes what
\* the state said of review, attempts and repairs (_persist_state, load, the marks).
THEOREM PublicationFreezes == Spec => PublicationFreezesState
<1> DEFINE Kept == disk.accepted # None /\ LifeOf(disk.accepted.outcome) = "accepted" =>
                     \A f \in DOMAIN disk.state \ {"life", "outcome", "integration"} :
                       disk'.state[f] = disk.state[f]
<1>1. ASSUME IInv, Next PROVE Kept
  <2> SUFFICES ASSUME disk.accepted # None, LifeOf(disk.accepted.outcome) = "accepted",
                      NEW f \in DOMAIN disk.state \ {"life", "outcome", "integration"}
               PROVE  disk'.state[f] = disk.state[f]
    OBVIOUS
  <2>1. Frozen(disk'.state, disk.state)
    BY <1>1, Step DEF Steps, Moves, Keeps, Settles, Publishes, Opens, Frozen, Answer
  <2>2. disk.state \in States  BY <1>1, Fields DEF IInv, Good
  <2>3. f \in {"verdict", "judged", "active", "repairs", "stamp", "intent"}
    BY <2>2 DEF States
  <2> QED  BY <2>1, <2>3 DEF Frozen
<1>2. IInv /\ [Next]_vars => [Kept]_vars  BY <1>1
<1> QED  BY Invariance, <1>2, PTL DEF Spec, PublicationFreezesState

\* The refinement: an item is decided once, on the opinion that stands, and is
\* closed after its publication.
LEMMA DecisionStart == Init => Decision!Init
BY DEF Init, Fresh, Terminal, Decision!Init

LEMMA DecisionStep ==
  ASSUME IInv, Next
  PROVE  [Decision!Next]_(Decision!dvars)
<1> DEFINE Opinion(s) == IF s.verdict = None THEN None
                         ELSE [draft |-> s.judged, verdict |-> s.verdict]
           Decided(a) == IF a = None THEN None ELSE [outcome |-> a.outcome, draft |-> a.draft]
           Closed(s) == IF s.life \in Terminal THEN s.life ELSE None
           d == disk
           e == disk'
<1>0. /\ IInv' /\ Steps(d, e, kills) /\ Good(d) /\ Good(e) /\ d \in Disks /\ e \in Disks
      /\ d.state \in States /\ e.state \in States
      /\ d.accepted \in Snapshots \cup {None} /\ e.accepted \in Snapshots \cup {None}
  BY Step, Fields DEF IInv, Good
<1>1. /\ d.accepted = None => Closed(d.state) = None
      /\ e.accepted = None => Closed(e.state) = None
  BY <1>0 DEF Good, Agrees
<1>2. ASSUME NEW a \in Snapshots, a # None
      PROVE  Decided(a) # None /\ Decided(a).outcome = a.outcome /\ Decided(a).draft = a.draft
  BY <1>2, NoneIsNoRecord DEF Snapshots
<1>3. ASSUME NEW s \in States, s.verdict # None, Proper(s)
      PROVE  /\ Opinion(s) # None /\ Opinion(s).draft = s.judged /\ Opinion(s).verdict = s.verdict
             /\ s.judged \in Drafts /\ s.verdict \in Verdicts
  <2>1. s.judged \in Drafts /\ s.verdict \in Verdicts  BY <1>3 DEF Proper, Reviewed, States
  <2> QED  BY <2>1, <1>3, NoneIsNoRecord
<1>4. CASE Keeps(d, e) /\ d.accepted # None
  BY <1>4 DEF Keeps, Decision!dvars
<1>5. CASE d.accepted = None /\ e.accepted = None
  <2>1. \/ Opinion(e.state) = None
        \/ \E x \in Drafts, v \in Verdicts : Opinion(e.state) = [draft |-> x, verdict |-> v]
    BY <1>0, <1>3 DEF Good
  <2>2. Decision!Opine
    BY <1>1, <1>5, <2>1 DEF Decision!Opine
  <2> QED  BY <2>2 DEF Decision!Next
<1>6. CASE Settles(d, e)
  <2>1. /\ d.accepted \in Snapshots /\ d.accepted # None
        /\ Decided(e.accepted) = Decided(d.accepted) /\ Decided(d.accepted) # None
        /\ Decided(d.accepted).outcome = d.accepted.outcome
    BY <1>0, <1>2, <1>6 DEF Settles
  <2>2. \/ Opinion(e.state) = Opinion(d.state)
        \/ d.accepted.outcome = "technical_failure"
    <3>1. \/ d.accepted.outcome = "technical_failure" \/ Answer(d.accepted) \/ Blocked(d.accepted)
      BY <2>1 DEF Snapshots, Outcomes, Terminal, Answer, LifeOf, Blocked
    <3> QED  BY <3>1, <1>6 DEF Settles, Frozen, SameOpinion
  <2>3. \/ Opinion(e.state) = None
        \/ \E x \in Drafts, v \in Verdicts : Opinion(e.state) = [draft |-> x, verdict |-> v]
    BY <1>0, <1>3 DEF Good
  <2>4. CASE e.state.life = d.state.life
    <3>1. CASE Opinion(e.state) = Opinion(d.state)
      BY <2>1, <2>4, <3>1 DEF Decision!dvars
    <3>2. CASE d.accepted.outcome = "technical_failure"
      <4>1. Decision!Opine
        BY <2>1, <2>3, <2>4, <3>2 DEF Decision!Opine, Decision!Moot
      <4> QED  BY <4>1 DEF Decision!Next
    <3> QED  BY <2>2, <3>1, <3>2
  <2>5. CASE e.state.life # d.state.life
    <3>1. d.state.life \notin Terminal /\ e.state.life = LifeOf(d.accepted.outcome)
      BY <2>5, <1>6 DEF Settles
    <3>2. e.state.life \in Terminal
      BY <2>1, <3>1, LifeOfOutcome DEF Snapshots
    <3>3. Decision!Close
      BY <2>1, <2>2, <3>1, <3>2 DEF Decision!Close, Decision!Moot
    <3> QED  BY <3>3 DEF Decision!Next
  <2> QED  BY <2>4, <2>5
<1>7. CASE Publishes(d, e, kills)
  <2> DEFINE a == e.accepted
             x == [outcome |-> a.outcome, draft |-> a.draft]
  <2>1. a \in Snapshots /\ a # None /\ d.accepted = None
    BY <1>7, NoneIsNoRecord DEF Publishes
  <2>2. x.outcome = a.outcome /\ x.draft = a.draft /\ Decided(a) = x  BY <2>1
  <2>3. Closed(e.state) \in {None, LifeOf(a.outcome)}
    BY <1>7 DEF Publishes
  <2>4. a.draft \in Drafts \cup {None}  BY <2>1 DEF Snapshots
  <2>5. CASE /\ a.outcome = "technical_failure" /\ a.draft = None
             /\ SameOpinion(e.state, d.state) \/ e.state.verdict = None
    <3>1. x \in [outcome : Decision!Outcomes, draft : Drafts \cup {None}]
      BY <2>4, <2>5 DEF Decision!Outcomes
    <3>2. Decision!Publishable(x)  BY <2>5 DEF Decision!Publishable
    <3>3. Opinion(e.state) = Opinion(d.state) \/ Opinion(e.state) = None
      BY <2>5 DEF SameOpinion
    <3>4. Decision!Publish
      BY <1>1, <2>1, <2>2, <2>3, <2>5, <3>1, <3>2, <3>3 DEF Decision!Publish
    <3> QED  BY <3>4 DEF Decision!Next
  <2>6. CASE /\ SameOpinion(e.state, d.state) /\ a.draft = d.state.judged
             /\ \/ d.state.verdict \in Accepting /\ a.outcome = OutcomeOf(d.state.verdict)
                \/ /\ d.state.verdict = "confirm_data_insufficiency"
                   /\ a.outcome = "blocked_by_evidence"
    <3>0. d.state.verdict # None  BY <2>6, NoneIsNoRecord
    <3>1. /\ Opinion(d.state) # None /\ Opinion(d.state).draft = d.state.judged
          /\ Opinion(d.state).verdict = d.state.verdict
      BY <3>0, <1>0, <1>3 DEF Good
    <3>2. x \in [outcome : Decision!Outcomes, draft : Drafts \cup {None}]
      BY <2>4, <2>6 DEF Decision!Outcomes
    <3>3. Decision!Publishable(x)  BY <2>2, <2>6, <3>1 DEF Decision!Publishable
    <3>4. Opinion(e.state) = Opinion(d.state)
      BY <2>6 DEF SameOpinion
    <3>5. Decision!Publish
      BY <1>1, <2>1, <2>2, <2>3, <3>2, <3>3, <3>4 DEF Decision!Publish
    <3> QED  BY <3>5 DEF Decision!Next
  <2> QED  BY <1>7, <2>5, <2>6 DEF Publishes
<1> QED  BY <1>0, <1>4, <1>5, <1>6, <1>7 DEF Steps, Moves, Keeps, Opens

\* Whatever interleaving of handles, kills and recoveries: the item keeps the
\* promise of ItemDecision (accept, technical_failure, finalize_blocked_by_evidence).
THEOREM Decides == Spec => DecidesOnce
<1>1. ASSUME UNCHANGED vars PROVE UNCHANGED Decision!dvars
  BY <1>1 DEF vars, Decision!dvars
<1>2. IInv /\ [Next]_vars => [Decision!Next]_(Decision!dvars)
  BY <1>1, DecisionStep
<1> QED  BY Invariance, DecisionStart, <1>2, PTL DEF Spec, DecidesOnce, Decision!Spec
=============================================================================
