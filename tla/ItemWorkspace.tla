---------------------------- MODULE ItemWorkspace ----------------------------
(***************************************************************************)
(* One item (a question or a requirement) of a run: durable.py.            *)
(*                                                                         *)
(* The item is a directory. `disk' is what is in it: the state file, the   *)
(* draft, the work artifacts, the reviewer's packet, the owner's           *)
(* conclusion that the data do not suffice, the anchor and the audit of    *)
(* discarded packets, the bound owner and the published snapshot. A handle *)
(* is an ItemWorkspace object of some process; `mem' is its copy of the    *)
(* state file, which some operations reload and others do not.             *)
(*                                                                         *)
(* Most operations hold the item's lock from the reload to the last write  *)
(* and are one step; a kill inside one leaves it between two writes: it is *)
(* given by the directories a kill can leave (its "mids") and by the one   *)
(* it ends with. load, the attempts and the integration marks read without *)
(* the lock and take it for the write of the state only, and the discard   *)
(* of a packet is what they may read, and write, in the middle of: all     *)
(* these are a list of writes, done one by one (`call').                   *)
(*                                                                         *)
(* A definition named X_... is X with a bug: the properties are checked    *)
(* against it too, and must fail.                                          *)
(***************************************************************************)
EXTENDS Integers, Sequences

CONSTANTS Handles,       \* ItemWorkspace objects of the role processes
          Drafts,        \* contents of draft.json
          Envelope,      \* [Drafts -> _]: the immutable fields of a draft
          Works,         \* contents of the other artifacts below work/
          Lanes,         \* lanes that attempts run in
          Owners,        \* logical Analytical Owners
          Verdicts,      \* verdicts the reviewer gives
          MaxRepairs,    \* repairs an item may have          (bound)
          MaxDiscards,   \* packets that may be discarded     (bound)
          MaxKills,      \* kills inside an operation         (bound)
          None

ASSUME ItemAssumption ==
  /\ MaxRepairs \in Nat /\ MaxDiscards \in Nat /\ MaxKills \in Nat
  /\ Verdicts \subseteq {"accept", "accept_with_limits", "not_reviewed",
                        "repair_once", "confirm_data_insufficiency"}
  /\ None \notin Handles \cup Drafts \cup Works \cup Lanes \cup Owners \cup Verdicts

VARIABLES disk,   \* the item's directory
          mem,    \* mem[h]: the state the handle holds, None: no such object
          call,   \* call[h]: how far h is in a call that is not one step
          lock,   \* the handle whose discard holds the item's lock, or None
          kills   \* kills inside an operation so far

vars == <<disk, mem, call, lock, kills>>

\* Writes still to do, writes that undo those done if one fails, and what the
\* call does after them.
Doing(at, todo, undo) == [at |-> at, todo |-> todo, undo |-> undo]
NoCall == Doing("idle", <<>>, <<>>)
File(name, value) == [file |-> name, to |-> value]

Accepting == {"accept", "accept_with_limits", "not_reviewed"}
Terminal == {"accepted", "technical_failure", "blocked_by_evidence"}
Lives == {"work", "recovering", "review"} \cup Terminal
Outcomes == Terminal \cup {"accepted_with_limits"}

\* The lifecycle state a snapshot's outcome leads to, and the outcome an
\* accepting verdict leads to ("not_reviewed" is an unavailable reviewer).
LifeOf(outcome) == IF outcome = "accepted_with_limits" THEN "accepted" ELSE outcome
OutcomeOf(verdict) == IF verdict = "accept" THEN "accepted" ELSE "accepted_with_limits"

Fresh == [life |-> "work", verdict |-> None, judged |-> None,
          active |-> None, repairs |-> 0, stamp |-> 0,
          intent |-> None, outcome |-> None, integration |-> "pending"]

\* The artifacts a progress report hashes: the packet and the conclusion are
\* left out, the owner binding and the discard files are not.
Progress(d) == [draft |-> d.draft, work |-> d.work, owner |-> d.owner,
                anchor |-> d.anchor # None, audit |-> d.audit]

\* _validate_lifecycle_consistency, run on every state that is written or read.
ValidState(s) ==
  /\ s.life \in Terminal =>
       /\ s.outcome # None /\ s.intent # None /\ s.active = None
       /\ LifeOf(s.outcome.outcome) = s.life
       /\ LifeOf(s.intent.outcome) = s.life
  /\ s.life \notin Terminal => s.outcome = None
  /\ s.intent # None => s.active = None
  /\ s.intent # None /\ s.life \notin Terminal =>
       s.life \in IF s.intent.outcome = "technical_failure"
                  THEN {"work", "review"} ELSE {"review"}
  /\ s.life = "review" => s.active = None /\ s.verdict # None
  /\ s.life \in {"work", "recovering"} => s.verdict = None
  /\ s.life = "recovering" => s.active # None

\* BUG: a published item takes any state.
Persistable_Late(d, s) == ValidState(s)

\* _persist_state: once a snapshot is published no other state is written.
Persistable(d, s) == ValidState(s) /\ (d.accepted # None => s.life \in Terminal)

----------------------------------------------------------------------------
\* Discarding a packet: recovery of an operation a kill interrupted.

DiscardOpen(d) == d.anchor # None /\ d.anchor.intent # None

\* The checks of _reconcile_business_review_discard; a failed one raises.
DiscardBound(d) ==
  /\ d.anchor = None => d.audit = 0
  /\ (d.anchor # None /\ ~DiscardOpen(d)) => d.anchor.count = d.audit
  /\ DiscardOpen(d) =>
       LET i == d.anchor.intent IN
       /\ d.audit \in {i.prior, i.prior + 1}
       /\ d.anchor.count \in (IF d.audit = i.prior THEN {i.prior} ELSE {i.prior, i.prior + 1})
       /\ d.draft = i.draft
       /\ d.packet \in {None, i.packet}
       /\ \/ d.state = i.after /\ d.packet = None /\ d.audit = i.prior + 1
          \/ d.state = i.before /\ (d.audit = i.prior => d.packet # None)

\* The state it would write is refused, when the packet is gone already.
DiscardHalts(d) ==
  /\ DiscardOpen(d) /\ d.state = d.anchor.intent.before
  /\ d.audit # d.anchor.intent.prior
  /\ ~Persistable(d, d.anchor.intent.after)

DiscardSound(d) == DiscardBound(d) /\ ~DiscardHalts(d)

DiscardDone(d) ==
  IF ~DiscardOpen(d) THEN d
  ELSE LET i == d.anchor.intent IN
       IF d.audit = i.prior
       THEN [d EXCEPT !.anchor.intent = None]
       ELSE [d EXCEPT !.packet = None, !.state = i.after,
                      !.anchor = [count |-> i.prior + 1, intent |-> None]]

\* The same, as the writes of a caller that does not hold the lock.
DiscardWrites(d) ==
  IF ~DiscardOpen(d) THEN <<>>
  ELSE LET i == d.anchor.intent
           done == File("anchor", [count |-> i.prior + 1, intent |-> None])
       IN IF d.audit = i.prior
          THEN <<File("anchor", [d.anchor EXCEPT !.intent = None])>>
          ELSE (IF d.packet = None THEN <<>> ELSE <<File("packet", None)>>)
               \o (IF d.state = i.after THEN <<>> ELSE <<File("state", i.after)>>)
               \o <<done>>

DiscardMids(d) ==
  IF ~DiscardOpen(d) \/ ~DiscardBound(d) THEN {}
  ELSE LET i == d.anchor.intent IN
       IF d.audit = i.prior THEN {}
       ELSE {[d EXCEPT !.packet = None]}
            \cup (IF DiscardHalts(d) THEN {} ELSE {[d EXCEPT !.packet = None, !.state = i.after]})

----------------------------------------------------------------------------
\* The two other repairs of load.

\* _reconcile_review_draft: a review of other bytes than the draft's is void.
ReviewStale(d) ==
  /\ d.state.verdict # None /\ d.state.life \notin Terminal
  /\ ~(d.state.intent # None /\ d.accepted # None)
  /\ d.draft # d.state.judged

ReviewDone(d) ==
  IF ReviewStale(d)
  THEN [d EXCEPT !.state.verdict = None, !.state.judged = None, !.state.life = "work"]
  ELSE d

\* The conclusion is bound to the draft and the artifacts it was drawn from.
ConclusionCurrent(d) == d.conclusion # None /\ d.conclusion = Progress(d)

\* _validate_terminal_manifest and _validate_preterminal_binding.
SnapshotSound(d) ==
  LET a == d.accepted
      s == d.state
  IN /\ s.intent = a /\ s.active = None
     /\ a.outcome \in {"accepted", "accepted_with_limits"} =>
          /\ s.life \in {"review", "accepted"}
          /\ s.verdict \in Accepting /\ s.judged = a.draft
     /\ a.outcome = "blocked_by_evidence" =>
          /\ s.life \in {"review", "blocked_by_evidence"}
          /\ s.verdict = "confirm_data_insufficiency" /\ s.judged = a.draft
          /\ d.draft = a.draft /\ d.packet = a.packet /\ d.conclusion = a.conclusion
          /\ ConclusionCurrent(d)
     /\ a.outcome = "technical_failure" => s.life \in {"work", "review", "technical_failure"}
     /\ s.life \in Terminal => s.outcome = a

TerminalSound(d) ==
  IF d.accepted = None THEN d.state.life \notin Terminal ELSE SnapshotSound(d)

TerminalDone_Reset(d) ==
  IF d.state.life \in Terminal THEN d ELSE [d EXCEPT !.state.intent = None]

\* _reconcile_terminal_snapshot: a published snapshot completes the state, an
\* intent that published nothing is dropped.
TerminalDone(d) ==
  IF d.state.life \in Terminal THEN d
  ELSE IF d.accepted = None
  THEN [d EXCEPT !.state.intent = None]
  ELSE [d EXCEPT !.state.life = LifeOf(d.accepted.outcome), !.state.outcome = d.accepted]

----------------------------------------------------------------------------
\* Operations under the lock.

\* The lock is free, and h in no other call.
Free(h) == lock = None /\ call[h] = NoCall

Killed(h, mids) ==
  /\ kills < MaxKills
  /\ disk' \in mids
  /\ mem' = [mem EXCEPT ![h] = None]
  /\ kills' = kills + 1
  /\ UNCHANGED <<call, lock>>

\* An operation ends with `final', unless one of its checks refuses it, or its
\* process is killed and leaves one of `mids'.
Perform(h, allowed, mids, final) ==
  /\ Free(h)
  /\ \/ /\ allowed
        /\ disk' = final
        /\ mem' = [mem EXCEPT ![h] = final.state]
        /\ UNCHANGED <<call, lock, kills>>
     \/ Killed(h, mids)

\* An operation that reloads the state under the lock: it sees the directory
\* with a discard repaired.
Open(h) == mem[h] # None /\ DiscardSound(disk)
Now == DiscardDone(disk)

\* One that does not: it works from the handle's copy, which only a discard
\* it repairs brings up to date.
Held(h) == IF Now.state = disk.state THEN mem[h] ELSE Now.state

Running(s) == s.life \notin Terminal
Idle(s) == Running(s) /\ s.active = None

Pending(s) == [s EXCEPT !.verdict = None, !.judged = None, !.life = "work"]

\* While a repair is open the immutable fields of the draft may not change.
InScope(d, v) ==
  d.packet # None /\ d.packet.active => Envelope[v] = Envelope[d.packet.before]

----------------------------------------------------------------------------
\* Operations that take the lock for a write of the state only.

At(h, at) == mem[h] # None /\ call[h].at = at /\ call[h].todo = <<>>
Goes(h, at, todo) == call' = [call EXCEPT ![h] = Doing(at, todo, <<>>)]
Loading(at) == at \in {"review", "terminal", "opening"}

\* A state may be refused, and a packet to be removed must be there.
Possible(w) ==
  /\ w.file = "state" => Persistable(disk, w.to)
  /\ w.file = "packet" /\ w.to = None => disk.packet # None

\* The next write. If it raises the call ends, a discard after undoing what it
\* did; a load that raises leaves no object.
Write(h) ==
  LET c == call[h]
      w == Head(c.todo)
      rest == IF Possible(w) THEN Tail(c.todo) ELSE c.undo
      at == IF ~Possible(w) \/ (rest = <<>> /\ c.at = "opening") THEN "idle" ELSE c.at
  IN /\ c.todo # <<>>
     /\ w.file = "state" => lock \in {None, h}
     /\ disk' = IF Possible(w) THEN [disk EXCEPT ![w.file] = w.to] ELSE disk
     /\ mem' = IF Possible(w)
               THEN IF w.file = "state" THEN [mem EXCEPT ![h] = w.to] ELSE mem
               ELSE IF Loading(c.at) THEN [mem EXCEPT ![h] = None] ELSE mem
     /\ call' = [call EXCEPT ![h] = Doing(at, rest, IF Possible(w) /\ rest # <<>> THEN c.undo ELSE <<>>)]
     /\ lock' = IF lock = h /\ rest = <<>> THEN None ELSE lock
     /\ UNCHANGED kills

\* The process is killed in such a call; the lock goes with it.
Kill(h) ==
  /\ call[h].todo # <<>> /\ kills < MaxKills
  /\ mem' = [mem EXCEPT ![h] = None]
  /\ call' = [call EXCEPT ![h] = NoCall]
  /\ lock' = IF lock = h THEN None ELSE lock
  /\ kills' = kills + 1
  /\ UNCHANGED disk

\* load reads the state and repairs a discard it finds, compares the review
\* with the draft, and completes the terminal state: each as the files are
\* then, with the state it read in the beginning.
Seen(h) == [disk EXCEPT !.state = mem[h]]

Load(h) ==
  /\ mem[h] = None /\ DiscardBound(disk)
  /\ mem' = [mem EXCEPT ![h] = disk.state]
  /\ Goes(h, "review", DiscardWrites(disk))
  /\ UNCHANGED <<disk, lock, kills>>

LoadReview(h) ==
  /\ At(h, "review")
  /\ Goes(h, "terminal",
          IF ReviewStale(Seen(h)) THEN <<File("state", ReviewDone(Seen(h)).state)>> ELSE <<>>)
  /\ UNCHANGED <<disk, mem, lock, kills>>

LoadTerminal(h) ==
  /\ At(h, "terminal") /\ TerminalSound(Seen(h))
  /\ LET s == TerminalDone(Seen(h)).state
     IN IF s = mem[h] THEN Goes(h, "idle", <<>>) ELSE Goes(h, "opening", <<File("state", s)>>)
  /\ UNCHANGED <<disk, mem, lock, kills>>

\* The object is dropped, or its load raises.
Exit(h) ==
  /\ At(h, "idle") \/ (At(h, "terminal") /\ ~TerminalSound(Seen(h)))
  /\ mem' = [mem EXCEPT ![h] = None]
  /\ Goes(h, "idle", <<>>)
  /\ UNCHANGED <<disk, lock, kills>>

\* The other calls repair a discard they find before they do anything else, and
\* may then be refused.
Repair(h) ==
  /\ At(h, "idle") /\ DiscardOpen(disk) /\ DiscardBound(disk)
  /\ Goes(h, "ready", DiscardWrites(disk))
  /\ UNCHANGED <<disk, mem, lock, kills>>

Refused(h) ==
  /\ At(h, "ready")
  /\ Goes(h, "idle", <<>>)
  /\ UNCHANGED <<disk, mem, lock, kills>>

Ready(h) == At(h, "ready") \/ (At(h, "idle") /\ ~DiscardOpen(disk) /\ DiscardBound(disk))

\* The state n, made from the handle's copy, is written.
Store(h, n) ==
  /\ Goes(h, "idle", <<File("state", n)>>)
  /\ UNCHANGED <<disk, mem, lock, kills>>

----------------------------------------------------------------------------
\* The owner of the item.

\* analysis_owner_ref reloads the state and repairs nothing.
OwnerRef(h) ==
  /\ mem[h] # None /\ Free(h) /\ disk.owner # None
  /\ mem' = [mem EXCEPT ![h] = disk.state]
  /\ UNCHANGED <<disk, call, lock, kills>>

\* A call that has to finish a discard under the lock first, and raises
\* half-way; it may have reloaded the state before.
DiscardFails(h) ==
  /\ mem[h] # None /\ Free(h) /\ DiscardBound(disk) /\ DiscardHalts(disk)
  /\ disk' = [disk EXCEPT !.packet = None]
  /\ mem' \in {mem, [mem EXCEPT ![h] = disk.state]}
  /\ UNCHANGED <<call, lock, kills>>

\* The owner is bound once; a later process continues under the bound one.
Bind(d, o) == IF d.owner = None THEN [d EXCEPT !.owner = o] ELSE d

BindOwner(h, o) ==
  /\ mem[h] # None
  /\ disk.owner = None => Running(disk.state)
  /\ LET d == Bind(disk, o)
     IN Perform(h, DiscardSound(disk), {d} \cup DiscardMids(d), DiscardDone(d))

----------------------------------------------------------------------------
\* Artifacts.

WriteDraft_Anywhere(h, v) ==
  /\ Open(h) /\ Running(Now.state)
  /\ LET d == [Now EXCEPT !.draft = v]
         s == Pending(Now.state)
     IN Perform(h, Persistable(Now, s), DiscardMids(disk) \cup {Now, d}, [d EXCEPT !.state = s])

\* A new draft voids the review of the old one, in a second write.
WriteDraft(h, v) ==
  /\ Open(h) /\ Running(Now.state) /\ InScope(Now, v)
  /\ LET d == [Now EXCEPT !.draft = v]
         s == Pending(Now.state)
     IN Perform(h, Persistable(Now, s), DiscardMids(disk) \cup {Now, d}, [d EXCEPT !.state = s])

\* Every other artifact, and the state's date with it; none voids a review.
\* b is the directory with the owner the write may have bound first.
ArtifactWritten(h, b, w) ==
  LET d == [b EXCEPT !.work = w]
  IN /\ Open(h) /\ Running(Now.state)
     /\ Perform(h, Persistable(Now, Now.state), DiscardMids(disk) \cup {Now, b, d}, d)

WriteWork(h, w) == ArtifactWritten(h, Now, w)

\* An append that names its owner names the bound one. For a record that is
\* there already w is Now.work: no more than the reload is done.
AppendWork(h, o, w) ==
  /\ o \in {None, Now.owner}
  /\ ArtifactWritten(h, Now, w)

\* Replacements of what the caller read: of the source map by the bound owner
\* only; of the evidence notes or the relationships by a process that
\* continues as the owner.
ReplaceSourceMap(h, o, w) ==
  /\ Now.owner = o
  /\ ArtifactWritten(h, Now, w)

ReplaceWork(h, o, w) == ArtifactWritten(h, Bind(Now, o), w)

----------------------------------------------------------------------------
\* Attempts. These four work from the handle's copy and without the lock. An
\* active attempt is its lane; the ended ones are left out, and so is the
\* baseline that progress is measured from: any look may find some or none.

BeginAttempt(h, lane) ==
  /\ Ready(h) /\ Running(mem[h])
  /\ mem[h].active = None
  /\ Store(h, [mem[h] EXCEPT !.active = lane, !.life = "work"])

\* The first look without progress only counts itself; one with progress, and a
\* later one without, put the attempt back to work.
ObserveAttempt(h) ==
  /\ Ready(h) /\ Running(mem[h])
  /\ mem[h].active # None
  /\ Store(h, mem[h]) \/ Store(h, [mem[h] EXCEPT !.life = "work"])

FinishAttempt(h) ==
  /\ Ready(h) /\ Running(mem[h])
  /\ mem[h].active # None
  /\ Store(h, [mem[h] EXCEPT !.active = None, !.life = "work"])

\* The receipt ledger says that the process of the active attempt was lost.
BeginRecovery(h, lane) ==
  /\ Ready(h) /\ Running(mem[h])
  /\ mem[h].active # None /\ mem[h].life = "work"
  /\ Store(h, [mem[h] EXCEPT !.active = lane, !.life = "recovering"])

----------------------------------------------------------------------------
\* Review and repair.

\* The packet of one review: of the whole draft, or, when a repair is open, a
\* targeted one that closes it and keeps its baseline.
Packet(d, v) ==
  LET open == d.packet # None /\ d.packet.active
  IN [active |-> FALSE, targeted |-> open,
      before |-> IF open THEN d.packet.before ELSE d.draft,
      reviewed |-> d.draft, after |-> Progress(d),
      findings |-> v = "repair_once"
                   \/ (open /\ v # "confirm_data_insufficiency" /\ d.packet.findings)]

\* record_review: the packet first, the state after it.
RecordReview(h, v) ==
  /\ Open(h) /\ Idle(Now.state) /\ Now.draft # None
  /\ v = "confirm_data_insufficiency" => ConclusionCurrent(Now)
  /\ InScope(Now, Now.draft)
  /\ LET d == [Now EXCEPT !.packet = Packet(Now, v)]
         s == [Now.state EXCEPT !.verdict = v, !.judged = Now.draft, !.life = "review"]
     IN Perform(h, Persistable(Now, s), DiscardMids(disk) \cup {Now, d}, [d EXCEPT !.state = s])

\* use_business_repair: the reviewed draft and artifacts, unchanged, become
\* the baseline of a repair.
UseBusinessRepair(h, o) ==
  /\ Open(h) /\ Idle(Now.state)
  /\ disk.owner \in {None, o}
  /\ Now.state.verdict = "repair_once" /\ Now.state.repairs < MaxRepairs
  /\ Now.packet # None
  /\ Now.packet.findings
  /\ Now.packet.reviewed = Now.draft /\ Now.packet.after = Progress(Now)
  /\ LET b == Bind(Now, o)
         d == [b EXCEPT !.packet = [@ EXCEPT !.active = TRUE, !.targeted = FALSE,
                                             !.before = b.draft, !.after = Progress(b)]]
         s == [Pending(Now.state) EXCEPT !.repairs = @ + 1]
     IN Perform(h, Persistable(Now, s), DiscardMids(disk) \cup {Now, b, d}, [d EXCEPT !.state = s])

\* The owner's conclusion is written once and never replaced.
Conclude(h, o) ==
  /\ Open(h) /\ Idle(Now.state) /\ Now.draft # None
  /\ Now.conclusion = None
  /\ LET b == Bind(Now, o)
         d == [b EXCEPT !.conclusion = Progress(b)]
     IN Perform(h, Persistable(Now, Now.state), DiscardMids(disk) \cup {Now, b, d}, d)

\* discard_business_review holds the lock throughout, but works from the
\* handle's copy: an intent, the audit record, the packet removed, the state,
\* and the intent dropped, the anchor written anew after each. If a write
\* raises, the packet, the audit and the anchor are written back.
DiscardReview(h) ==
  /\ Free(h) /\ Open(h) /\ Idle(mem[h]) /\ mem[h].intent = None
  /\ Now.packet # None /\ Now.draft # None /\ Now.audit < MaxDiscards
  /\ LET n == Now.audit
         s == [Pending(Held(h)) EXCEPT !.repairs = 0, !.stamp = n + 1]
         i == [prior |-> n, draft |-> Now.draft, packet |-> Now.packet,
               before |-> Now.state, after |-> s]
         anchor == File("anchor", [count |-> n + 1, intent |-> i])
     IN /\ ValidState(s)
        /\ \/ /\ disk' = Now
              /\ mem' = [mem EXCEPT ![h] = Held(h)]
              /\ lock' = h
              /\ call' = [call EXCEPT ![h] =
                   Doing("idle",
                         <<File("anchor", [count |-> n, intent |-> i]), File("audit", n + 1),
                           anchor, File("packet", None), anchor, File("state", s),
                           File("anchor", [count |-> n + 1, intent |-> None])>>,
                         <<File("packet", Now.packet), File("audit", n),
                           File("anchor", Now.anchor)>>)]
              /\ UNCHANGED kills
           \/ Killed(h, DiscardMids(disk) \cup {Now})

----------------------------------------------------------------------------
\* Ending an item: the intent, the published snapshot, the state.

\* A terminal operation reloads and repairs the terminal state as well.
Closing == TerminalDone(Now)
Closable(h) ==
  /\ Open(h) /\ TerminalSound(Now)
  /\ Closing.accepted = None /\ Idle(Closing.state)

Publish(h, before, mids, snapshot) ==
  LET d1 == [before EXCEPT !.state.intent = snapshot]
      d2 == [d1 EXCEPT !.accepted = snapshot]
  IN /\ Persistable(before, d1.state)
     /\ Perform(h, TRUE, DiscardMids(disk) \cup mids \cup {before, d1, d2},
                [d2 EXCEPT !.state.life = LifeOf(snapshot.outcome), !.state.outcome = snapshot])

Accept_AnyBytes(h) ==
  /\ Closable(h)
  /\ Closing.draft # None
  /\ Closing.state.verdict \in Accepting
  /\ Publish(h, Closing, {Now},
             [outcome |-> OutcomeOf(Closing.state.verdict), draft |-> Closing.draft,
              packet |-> None, conclusion |-> None, at |-> kills])

\* accept publishes the draft's bytes, if they are the reviewed ones, with the
\* date: two attempts to publish an answer, with a kill between them, differ.
Accept(h) ==
  /\ Closable(h)
  /\ Closing.draft # None
  /\ Closing.state.verdict \in Accepting
  /\ Closing.state.judged = Closing.draft
  /\ Publish(h, Closing, {Now},
             [outcome |-> OutcomeOf(Closing.state.verdict), draft |-> Closing.draft,
              packet |-> None, conclusion |-> None, at |-> kills])

\* technical_failure closes an open repair before it publishes.
TechnicalFailure(h) ==
  /\ Closable(h)
  /\ LET d == IF Closing.packet # None /\ Closing.packet.active
              THEN [Closing EXCEPT !.packet.active = FALSE] ELSE Closing
     IN Publish(h, d, {Now, Closing},
                [outcome |-> "technical_failure", draft |-> None,
                 packet |-> None, conclusion |-> None, at |-> 0])

\* finalize_blocked_by_evidence repairs no terminal state: an intent that is
\* left over refuses it.
FinalizeBlocked(h) ==
  /\ Open(h) /\ Now.accepted = None /\ Idle(Now.state)
  /\ Now.state.intent = None
  /\ Now.state.life = "review"
  /\ Now.state.verdict = "confirm_data_insufficiency"
  /\ Now.draft # None /\ Now.state.judged = Now.draft
  /\ ConclusionCurrent(Now)
  /\ Now.packet # None
  /\ ~Now.packet.active /\ ~Now.packet.findings /\ Now.packet.reviewed = Now.draft
  /\ Publish(h, Now, {Now},
             [outcome |-> "blocked_by_evidence", draft |-> Now.draft,
              packet |-> Now.packet, conclusion |-> Now.conclusion, at |-> 0])

\* mark_integration_committed and mark_integration_failed, from the copy and
\* without the lock.
MarkIntegration(h, result) ==
  /\ Ready(h)
  /\ mem[h].life = "accepted" /\ mem[h].integration = "pending"
  /\ Store(h, [mem[h] EXCEPT !.integration = result])

----------------------------------------------------------------------------
Init ==
  /\ \E w \in Works :
       disk = [state |-> Fresh, draft |-> None, work |-> w, owner |-> None,
               packet |-> None, conclusion |-> None,
               anchor |-> None, audit |-> 0, accepted |-> None]
  /\ mem = [h \in Handles |-> None]
  /\ call = [h \in Handles |-> NoCall]
  /\ lock = None
  /\ kills = 0

Next ==
  \E h \in Handles :
    \/ Load(h) \/ LoadReview(h) \/ LoadTerminal(h) \/ Exit(h)
    \/ Write(h) \/ Kill(h) \/ Repair(h) \/ Refused(h)
    \/ OwnerRef(h) \/ DiscardFails(h)
    \/ \E v \in Drafts : WriteDraft(h, v)
    \/ \E w \in Works :
         \/ WriteWork(h, w)
         \/ \E o \in Owners \cup {None} : AppendWork(h, o, w)
         \/ \E o \in Owners : ReplaceSourceMap(h, o, w) \/ ReplaceWork(h, o, w)
    \/ \E l \in Lanes : BeginAttempt(h, l) \/ BeginRecovery(h, l)
    \/ ObserveAttempt(h) \/ FinishAttempt(h)
    \/ \E v \in Verdicts : RecordReview(h, v)
    \/ \E o \in Owners : BindOwner(h, o) \/ UseBusinessRepair(h, o) \/ Conclude(h, o)
    \/ DiscardReview(h)
    \/ Accept(h) \/ TechnicalFailure(h) \/ FinalizeBlocked(h)
    \/ \E r \in {"integrated", "technical_failure"} : MarkIntegration(h, r)

Spec == Init /\ [][Next]_vars

----------------------------------------------------------------------------
\* Properties.

Reports == [draft : Drafts \cup {None}, work : Works, owner : Owners \cup {None},
             anchor : BOOLEAN, audit : 0..MaxDiscards]
Packets == [active : BOOLEAN, targeted : BOOLEAN, before : Drafts, reviewed : Drafts,
            after : Reports, findings : BOOLEAN]
Snapshots == [outcome : Outcomes, draft : Drafts \cup {None},
              packet : Packets \cup {None}, conclusion : Reports \cup {None},
              at : 0..MaxKills]
States == [life : Lives, verdict : Verdicts \cup {None}, judged : Drafts \cup {None},
           active : Lanes \cup {None},
           repairs : 0..MaxRepairs, stamp : 0..MaxDiscards,
           intent : Snapshots \cup {None}, outcome : Snapshots \cup {None},
           integration : {"pending", "integrated", "technical_failure"}]
Discards == [prior : 0..MaxDiscards, draft : Drafts, packet : Packets,
             before : States, after : States]
Anchors == [count : 0..MaxDiscards, intent : Discards \cup {None}]
Disks == [state : States, draft : Drafts \cup {None}, work : Works,
          owner : Owners \cup {None}, packet : Packets \cup {None},
          conclusion : Reports \cup {None}, anchor : Anchors \cup {None},
          audit : 0..MaxDiscards, accepted : Snapshots \cup {None}]
Files == [file : {"state"}, to : States] \cup [file : {"packet"}, to : Packets \cup {None}]
         \cup [file : {"anchor"}, to : Anchors \cup {None}]
         \cup [file : {"audit"}, to : 0..MaxDiscards]
Calls == [at : {"idle", "review", "terminal", "opening", "ready"}, todo : Seq(Files),
          undo : Seq(Files)]

\* An absent file, field or verdict is not a present one.
ASSUME NoneIsNoRecord ==
  None \notin Reports \cup Packets \cup Snapshots \cup Discards \cup Anchors
              \cup [draft : Drafts, verdict : Verdicts]
              \cup [outcome : Outcomes, draft : Drafts \cup {None}]
              \cup Accepting \cup {"confirm_data_insufficiency"}

\* For the reader: the types of the state, and the shape of the state file on
\* disk, which every load requires.
TypeOK ==
  /\ disk \in Disks /\ ValidState(disk.state)
  /\ mem \in [Handles -> States \cup {None}]
  /\ call \in [Handles -> Calls]
  /\ lock \in Handles \cup {None}
  /\ kills \in 0..MaxKills

\* An open repair keeps the immutable fields of the draft it started from.
RepairKeepsEnvelope ==
  disk.packet # None /\ disk.packet.active =>
    /\ disk.draft # None
    /\ Envelope[disk.draft] = Envelope[disk.packet.before]

Decision == INSTANCE ItemDecision WITH
  opinion <- IF disk.state.verdict = None THEN None
             ELSE [draft |-> disk.state.judged, verdict |-> disk.state.verdict],
  decision <- IF disk.accepted = None THEN None
              ELSE [outcome |-> disk.accepted.outcome, draft |-> disk.accepted.draft],
  closed <- IF disk.state.life \in Terminal THEN disk.state.life ELSE None

\* The workspace implements that promise, through kills and stale copies.
DecidesOnce == Decision!Spec

\* Once an answer is published the state changes only to agree with it and to
\* record its integration, whichever copy a handle writes from.
PublicationFreezesState ==
  [][disk.accepted # None /\ LifeOf(disk.accepted.outcome) = "accepted" =>
       \A f \in DOMAIN disk.state \ {"life", "outcome", "integration"} :
         disk'.state[f] = disk.state[f]]_vars

\* A call that is not killed goes on, and a process that leaves, which every
\* one does in the end, is followed by one that opens the item.
Proceed(h) == Load(h) \/ LoadReview(h) \/ LoadTerminal(h) \/ Write(h)
Fairness == \A h \in Handles : WF_vars(Proceed(h)) /\ SF_vars(Exit(h))
FairSpec == Spec /\ Fairness

\* A published snapshot is followed by its state, unless a discard that a stale
\* handle began meanwhile keeps the item from being opened.
PublishedSettles ==
  disk.accepted # None ~> \/ disk.state.life \in Terminal
                          \/ ~DiscardSound(disk)
                          \/ disk.accepted # None /\ ~SnapshotSound(disk)
=============================================================================
