-------------------------- MODULE IntegrationSession --------------------------
(***************************************************************************)
(* The integration of one accepted item: integration.py.                   *)
(*                                                                         *)
(* `disk' holds the staging snapshot (its status and its records, in the   *)
(* order they were staged), the packet that the fidelity reviewer reads,   *)
(* his result, the authorization and the progress of the one repair he may *)
(* ask for, the journal of an authorized removal, the commit intent, the   *)
(* committed directory, the failure manifest, the item's integration state,*)
(* the assets registered for the item, and `taken', what other items of    *)
(* the run have published: in the registry of the run, or as committed     *)
(* records of an item before this one. Hashes are the values they are      *)
(* hashes of. A packet carries its time of creation, so that two packets   *)
(* of the same records differ: result.fresh and progress.packet say        *)
(* whether these are bound to the packet that is on disk.                  *)
(*                                                                         *)
(* A session is an IntegrationSession object of some process; it holds the *)
(* lease of the invocation. A per-item lock makes an operation one step,   *)
(* in which the process may be killed: "mids" are the directories a kill   *)
(* can leave. All sessions belong to one owner and invocation; others are  *)
(* refused when they load. The staging directory is never deleted.         *)
(*                                                                         *)
(* A definition named X_... is X with a bug.                               *)
(***************************************************************************)
EXTENDS Integers, Sequences, SequencesExt

CONSTANTS Sessions,     \* processes that work on the item
          RecordIds,
          Bodies,       \* contents of a record
          Requires,     \* [RecordIds \X Bodies -> SUBSET RecordIds]: references
          Assets,       \* ids of the records that describe prepared assets
          Verdicts,     \* verdicts the fidelity reviewer gives
          Rivals,       \* records that other items may publish   (bound)
          MaxKills,     \* kills inside an operation   (bound)
          None

ASSUME SessionAssumption ==
  /\ MaxKills \in Nat
  /\ Assets \subseteq RecordIds
  /\ Requires \in [RecordIds \X Bodies -> SUBSET RecordIds]
  /\ Verdicts \subseteq {"accept", "repair_once", "unavailable", "fail"}
  /\ Rivals \subseteq [id : RecordIds, body : Bodies]

VARIABLES disk,   \* the integration directory, the item state, the registry
          sess,   \* sess[s]: "none", "held" (with the lease) or "released"
          kills   \* kills inside an operation so far

vars == <<disk, sess, kills>>

----------------------------------------------------------------------------
\* Records.

Ids(rs) == {rs[k].id : k \in DOMAIN rs}
HashOf(rs) == [i \in Ids(rs) |-> (CHOOSE r \in ToSet(rs) : r.id = i).body]
Without(rs, i) == RemoveAt(rs, CHOOSE k \in DOMAIN rs : rs[k].id = i)
Corrected(rs, i, b) == [k \in DOMAIN rs |-> IF rs[k].id = i THEN [id |-> i, body |-> b] ELSE rs[k]]
AssetsOf(rs) == {r \in ToSet(rs) : r.id \in Assets}

\* A reference is valid if a record staged before defines what it names.
Invalid(rs) ==
  {rs[k].id : k \in {n \in DOMAIN rs :
     ~(Requires[<<rs[n].id, rs[n].body>>] \subseteq {rs[m].id : m \in 1..(n - 1)})}}
Valid(rs) == Invalid(rs) = {}

Current(d) == d.snap.records

\* register_accepted and the cumulative model refuse an id that another item
\* has published with other contents.
Clash(r, t) == r.id = t.id /\ r.body # t.body
Collides(d, rs) == \E r \in ToSet(rs), t \in d.taken : Clash(r, t)

----------------------------------------------------------------------------
\* The reviewer's packet and result, and the repair.

\* _read_repair_authorization.
Authorized(d) ==
  /\ d.auth # None /\ d.packet # None
  /\ d.result # None /\ d.result.kind = "initial" /\ d.result.verdict = "repair_once"

\* _assert_repair_snapshot: what is staged is the baseline with the repair.
Repaired(d, rs, removed) ==
  HashOf(rs) = [i \in DOMAIN d.auth.base \ removed |->
                  IF i \in DOMAIN d.progress.corrected
                  THEN d.progress.corrected[i] ELSE d.auth.base[i]]

PacketBound(d) ==
  IF d.progress.packet = "none"
  THEN d.packet # d.progress.records
  ELSE d.progress.packet = "current" /\ d.packet = d.progress.records

\* _read_repair_progress.
Progressing(d) ==
  /\ d.progress # None
  /\ d.progress.records = Current(d)
  /\ PacketBound(d)
  /\ Repaired(d, Current(d), d.progress.removed)

Done(d) == DOMAIN d.progress.corrected \cup d.progress.removed

\* _read_fidelity_result raises nothing.
ResultBound(d) ==
  /\ d.result # None
  /\ d.result.fresh /\ d.packet = Current(d) /\ d.result.records = Current(d)
  /\ d.result.kind = "targeted" =>
       d.auth # None /\ Progressing(d) /\ d.progress.packet = "current"

\* _build_fidelity_packet writes the packet, then rebinds the progress to it.
Packable(d) ==
  /\ Valid(Current(d))
  /\ d.auth # None => Authorized(d) /\ Progressing(d)

PacketWritten(d) ==
  [d EXCEPT !.packet = Current(d),
            !.result = IF @ = None THEN None ELSE [@ EXCEPT !.fresh = FALSE],
            !.progress = IF @ = None \/ @.packet = "none" THEN @
                         ELSE [@ EXCEPT !.packet = "other"]]

Packed(d) ==
  LET p == PacketWritten(d)
  IN IF d.auth = None THEN p
     ELSE [p EXCEPT !.progress.records = Current(d), !.progress.packet = "current"]

----------------------------------------------------------------------------
\* The journal of a removal.

Preflight(d, rs) == Valid(rs) /\ ~Collides(d, rs)

\* The checks of _reconcile_fidelity_removal_unlocked; a failed one raises.
Reconcilable(d) ==
  d.journal # None =>
    LET j == d.journal
        p == d.progress
    IN /\ d.snap.status = "open" /\ d.intent = None
       /\ Authorized(d)
       /\ j.target \in d.auth.affected \ d.auth.deps
       /\ p # None /\ PacketBound(d)
       /\ j.target \notin DOMAIN p.corrected
       /\ Preflight(d, j.after)
       /\ \/ /\ Current(d) = j.before /\ j.phase = "prepared"
             /\ Repaired(d, Current(d), p.removed)
             /\ p.records = j.before /\ j.target \notin p.removed
             /\ j.after = Without(Current(d), j.target)
          \/ /\ Current(d) = j.after
             /\ Repaired(d, Current(d), p.removed \cup {j.target})
             /\ \/ /\ p.records = j.after /\ j.target \in p.removed
                   /\ j.phase \in {"records_persisted", "progress_persisted"}
                \/ /\ p.records = j.before /\ j.target \notin p.removed
                   /\ j.phase \in {"prepared", "records_persisted"}

RecordsWritten(d) == [d EXCEPT !.snap.records = d.journal.after]

ProgressWritten(d) ==
  IF d.journal.target \in d.progress.removed THEN d
  ELSE [d EXCEPT !.progress =
         [d.progress EXCEPT !.removed = @ \cup {d.journal.target},
                            !.records = d.journal.after, !.packet = "none"]]

Phase(d, phase) == [d EXCEPT !.journal.phase = phase]

Removed(d) == [ProgressWritten(RecordsWritten(d)) EXCEPT !.journal = None]

\* A removal writes the records, the journal, the progress and the journal, and
\* takes the journal away; its recovery begins where the records stand.
RemovalMids_ProgressFirst(d) ==
  LET written == ProgressWritten(d)
  IN {d, written, RecordsWritten(written)}

RemovalMids(d) ==
  LET written == IF Current(d) = d.journal.before
                 THEN {RecordsWritten(d), Phase(RecordsWritten(d), "records_persisted")} ELSE {}
      moved == IF Current(d) = d.journal.before
               THEN Phase(RecordsWritten(d), "records_persisted") ELSE d
  IN {d} \cup written
     \cup {ProgressWritten(moved), Phase(ProgressWritten(moved), "progress_persisted")}

----------------------------------------------------------------------------
\* An operation ends with `final', or its process is killed inside it.
Perform(s, mids, final, after) ==
  \/ /\ disk' = final
     /\ sess' = [sess EXCEPT ![s] = after]
     /\ UNCHANGED kills
  \/ /\ kills < MaxKills
     /\ disk' \in mids
     /\ sess' = [sess EXCEPT ![s] = "none"]
     /\ kills' = kills + 1

\* _refresh_authoritative and _require_open. A journal is left by a kill only,
\* and the session that loads next has reconciled it.
Usable(s) == sess[s] = "held" /\ disk.snap # None /\ disk.journal = None
Opened(s) == Usable(s) /\ disk.snap.status = "open"

\* create and load: the lease is exclusive. create makes the snapshot; a
\* snapshot that exists is loaded, and the journal of a removal reconciled.
\* A committed session is released at once. (create, not load, refuses an
\* item whose integration failed.)
Load(s) ==
  /\ sess[s] # "held" /\ \A t \in Sessions : sess[t] # "held"
  /\ \/ /\ disk.snap = None /\ disk.item = "pending"
        /\ Perform(s, {}, [disk EXCEPT !.snap = [status |-> "open", records |-> <<>>]], "held")
     \/ /\ disk.snap # None /\ Reconcilable(disk)
        /\ IF disk.journal = None
           THEN Perform(s, {}, disk, IF disk.snap.status = "committed" THEN "released" ELSE "held")
           ELSE Perform(s, RemovalMids(disk), Removed(disk), "held")

\* release, or the process ends.
Release(s) ==
  /\ sess[s] = "held"
  /\ \E after \in {"none", "released"} : sess' = [sess EXCEPT ![s] = after]
  /\ UNCHANGED <<disk, kills>>

\* preflight_candidate, for the descriptor of an asset.
Free(i, b) == i \in Assets => \A t \in disk.taken : ~Clash([id |-> i, body |-> b], t)

\* _stage: a new record, unless a repair is open. No commit intent is asked for.
Stage(s, i, b) ==
  /\ Opened(s) /\ Free(i, b)
  /\ disk.result # None => ResultBound(disk) /\ disk.result.verdict # "repair_once"
  /\ i \notin Ids(Current(disk))
  /\ Perform(s, {}, [disk EXCEPT !.snap.records = Append(@, [id |-> i, body |-> b])], "held")

\* A record may be dropped before there is anything to review.
Unreviewed(d) ==
  /\ d.packet = None /\ d.result = None /\ d.auth = None /\ d.progress = None
  /\ d.intent = None /\ d.committed = None

RemoveUnreviewed(s, i) ==
  /\ Opened(s) /\ Unreviewed(disk)
  /\ i \in Ids(Current(disk))
  /\ Preflight(disk, Without(Current(disk), i))
  /\ Perform(s, {}, [disk EXCEPT !.snap.records = Without(@, i)], "held")

\* remove_record under an authorized repair.
Repairing(s) ==
  /\ Opened(s) /\ ~Unreviewed(disk) /\ disk.intent = None
  /\ Authorized(disk) /\ Progressing(disk)

Journaled(i) ==
  [disk EXCEPT !.journal = [target |-> i, before |-> Current(disk),
                            after |-> Without(Current(disk), i), phase |-> "prepared"]]

RemoveRecord_Any(s, i) ==
  /\ Repairing(s)
  /\ i \in Ids(Current(disk)) \ DOMAIN disk.progress.corrected
  /\ Preflight(disk, Without(Current(disk), i))
  /\ Perform(s, RemovalMids(Journaled(i)), Removed(Journaled(i)), "held")

RemoveRecord(s, i) ==
  /\ Repairing(s)
  /\ i \in disk.auth.affected \ Done(disk)
  /\ Preflight(disk, Without(Current(disk), i))
  /\ Perform(s, RemovalMids(Journaled(i)), Removed(Journaled(i)), "held")

\* correct_record before any review: an invalid record, made valid.
CorrectInvalid(s, i, b) ==
  LET rs == Corrected(Current(disk), i, b)
  IN /\ Opened(s)
     /\ disk.result = None /\ disk.intent = None /\ Free(i, b)
     /\ i \in Invalid(Current(disk))
     /\ Invalid(rs) \subseteq Invalid(Current(disk)) \ {i}
     /\ Perform(s, {}, [disk EXCEPT !.snap.records = rs], "held")

\* correct_record under an authorized repair: the records, then the progress.
Correct(s, i, b) ==
  LET rs == Corrected(Current(disk), i, b)
      d == [disk EXCEPT !.snap.records = rs]
      corrected == [j \in DOMAIN disk.progress.corrected \cup {i} |->
                      IF j = i THEN b ELSE disk.progress.corrected[j]]
  IN /\ Repairing(s)
     /\ i \in disk.auth.affected \ Done(disk)
     /\ HashOf(Current(disk))[i] # b /\ Free(i, b)
     /\ Perform(s, {d},
          [d EXCEPT !.progress = [@ EXCEPT !.corrected = corrected, !.records = rs,
                                           !.packet = "none"]], "held")

\* build_fidelity_packet needs no lease and asks for no status.
BuildPacket(s) ==
  /\ sess[s] # "none" /\ disk.snap # None /\ disk.journal = None
  /\ Packable(disk)
  /\ Perform(s, {PacketWritten(disk)}, Packed(disk), sess[s])

----------------------------------------------------------------------------
\* record_fidelity_review.

Reviewed(d, kind, verdict, affected, deps) ==
  [d EXCEPT !.result = [kind |-> kind, verdict |-> verdict, records |-> Current(d),
                        affected |-> affected, deps |-> deps, fresh |-> TRUE]]

\* The packet of an initial review: the one on disk if it is of these records.
Packet(d) == IF d.packet = Current(d) THEN d ELSE Packed(d)
PacketMids(d) == IF d.packet = Current(d) THEN {} ELSE {PacketWritten(d), Packed(d)}

Initial(d, verdict) ==
  /\ d.result # None => d.result.verdict # "repair_once" /\ d.result.kind # "targeted"
  /\ verdict \in {"accept", "repair_once"} => Current(d) # <<>>
  /\ d.packet # Current(d) => Packable(d)

\* An acceptance of the same records is returned as it is, not written again.
Standing(d) == d.result # None /\ d.result.verdict = "accept" /\ d.result.records = Current(d)

ReviewInitial(s, verdict) ==
  /\ Opened(s)
  /\ verdict # "repair_once" /\ Initial(disk, verdict)
  /\ ~(verdict = "accept" /\ Standing(disk))
  /\ Perform(s, PacketMids(disk), Reviewed(Packet(disk), "initial", verdict, {}, {}), "held")

\* repair_once: the result, the authorization, the progress.
ReviewRepair(s, affected, deps) ==
  LET r == Reviewed(Packet(disk), "initial", "repair_once", affected, deps)
      a == [r EXCEPT !.auth = [base |-> HashOf(Current(disk)), affected |-> affected, deps |-> deps]]
  IN /\ Opened(s)
     /\ Initial(disk, "repair_once")
     /\ affected # {} /\ affected \cap deps = {}
     /\ affected \cup deps \subseteq Ids(Current(disk))
     /\ Perform(s, PacketMids(disk) \cup {r, a},
          [a EXCEPT !.progress = [corrected |-> <<>>, removed |-> {},
                                  records |-> Current(disk), packet |-> "current"]],
          "held")

\* The recheck, of a packet that was built since.
ReviewTargeted_AnyProgress(s, verdict) ==
  /\ Opened(s)
  /\ verdict # "repair_once"
  /\ Authorized(disk) /\ Progressing(disk) /\ disk.progress.packet = "current"
  /\ Packable(disk)
  /\ Perform(s, {PacketWritten(disk), Packed(disk)},
       Reviewed(Packed(disk), "targeted", verdict, disk.auth.affected, disk.auth.deps), "held")

\* Every affected record must have been corrected or removed.
ReviewTargeted(s, verdict) ==
  /\ Opened(s)
  /\ verdict # "repair_once"
  /\ Authorized(disk) /\ Progressing(disk) /\ disk.progress.packet = "current"
  /\ disk.auth.affected \subseteq Done(disk)
  /\ Packable(disk)
  /\ Perform(s, {PacketWritten(disk), Packed(disk)},
       Reviewed(Packed(disk), "targeted", verdict, disk.auth.affected, disk.auth.deps), "held")

----------------------------------------------------------------------------
\* commit and mark_technical_failure.

\* _apply_records registers one asset after the other.
Applied(d, k) == [d EXCEPT !.registry = @ \cup AssetsOf(SubSeq(Current(d), 1, k))]
Applying(d) == {Applied(d, k) : k \in 0..Len(Current(d))}
AllApplied(d) == Applied(d, Len(Current(d)))

Integrated(d) == [d EXCEPT !.item = "integrated", !.itemOf = d.committed]
Closed(d, status) == [d EXCEPT !.snap.status = status]

\* _finish_committed, after the registrations and the committed directory.
Publish(s, d) ==
  LET published == [AllApplied(d) EXCEPT !.committed = Current(d)]
  IN Perform(s, Applying(d) \cup {published, Integrated(published)},
             Closed(Integrated(published), "committed"), "released")

\* The preflight of the whole list comes before the intent.
Committable(s) ==
  /\ Opened(s) /\ disk.committed = None /\ disk.item = "pending"
  /\ ResultBound(disk) /\ disk.result.verdict = "accept"
  /\ disk.intent \in {None, Current(disk)}
  /\ Preflight(disk, Current(disk))

\* The intent, the registrations, the directory, the item, the session. The
\* failure manifest is not read.
Commit(s) == Committable(s) /\ Publish(s, [disk EXCEPT !.intent = Current(disk)])

CommitAgain_Marked(s) ==
  /\ Opened(s)
  /\ disk.committed # None /\ disk.committed = Current(disk)
  /\ disk.item = "integrated" /\ disk.itemOf = disk.committed
  /\ Perform(s, {}, Closed(disk, "committed"), "released")

\* A retry that finds the committed directory.
Recommittable(s) ==
  /\ Opened(s)
  /\ disk.committed # None /\ disk.committed = Current(disk)
  /\ ~Collides(disk, Current(disk))

CommitAgain(s) ==
  /\ Recommittable(s)
  /\ \/ /\ disk.item = "pending" /\ Valid(Current(disk)) /\ disk.intent # None
        /\ Publish(s, disk)
     \/ /\ disk.item = "integrated" /\ disk.itemOf = disk.committed
        /\ Perform(s, {}, Closed(disk, "committed"), "released")

----------------------------------------------------------------------------
\* Another item of the run publishes a record. It does not take this item's
\* lock, and for an asset the registry must not hold other contents.
Publishable(d, t) ==
  /\ t \in Rivals \ d.taken
  /\ \A u \in d.taken \cup d.registry : ~Clash(u, t)

Taken(d, t) == [d EXCEPT !.taken = @ \cup {t}]

OtherPublishes(t) ==
  /\ Publishable(disk, t)
  /\ disk' = Taken(disk, t)
  /\ UNCHANGED <<sess, kills>>

\* Where a commit raises whose preflight t has come after: at the registration
\* of its asset; or where the model is projected, before and after the directory.
Stops(d, t) ==
  IF t.id \in Assets
  THEN {Applied(d, k - 1) : k \in {n \in DOMAIN Current(d) : Current(d)[n].id = t.id}}
  ELSE {d, [AllApplied(d) EXCEPT !.committed = Current(d)]}

Overtaken(s, t) ==
  /\ Committable(s)
  /\ Publishable(disk, t) /\ Collides(Taken(disk, t), Current(disk))
  /\ \E d \in Stops([disk EXCEPT !.intent = Current(disk)], t) : disk' = Taken(d, t)
  /\ UNCHANGED <<sess, kills>>

----------------------------------------------------------------------------
Failing(s) ==
  LET failing == [disk EXCEPT !.failure = TRUE]
      failed == [failing EXCEPT !.item = "technical_failure"]
  IN /\ ~disk.failure => disk.snap.status = "open" /\ disk.item = "pending"
     /\ disk.item # "integrated"
     /\ Perform(s, {failing, failed}, Closed(failed, "technical_failure"), "released")

Fail_IgnoresIntent(s) == Usable(s) /\ Failing(s)

\* mark_technical_failure: the manifest, the item, the session; refused once a
\* commit is intended. A retry has the reason of the manifest.
Fail(s) == Usable(s) /\ disk.intent = None /\ Failing(s)

----------------------------------------------------------------------------
Init ==
  /\ disk = [snap |-> None, packet |-> None, result |-> None, auth |-> None,
             progress |-> None, journal |-> None, intent |-> None, committed |-> None,
             failure |-> FALSE, item |-> "pending", itemOf |-> None, registry |-> {},
             taken |-> {}]
  /\ sess = [s \in Sessions |-> "none"]
  /\ kills = 0

Next ==
  \E s \in Sessions :
    \/ Load(s) \/ Release(s) \/ BuildPacket(s)
    \/ \E i \in RecordIds :
         \/ RemoveUnreviewed(s, i) \/ RemoveRecord(s, i)
         \/ \E b \in Bodies : Stage(s, i, b) \/ CorrectInvalid(s, i, b) \/ Correct(s, i, b)
    \/ \E v \in Verdicts : ReviewInitial(s, v) \/ ReviewTargeted(s, v)
    \/ /\ "repair_once" \in Verdicts
       /\ \E affected, deps \in SUBSET RecordIds : ReviewRepair(s, affected, deps)
    \/ Commit(s) \/ CommitAgain(s) \/ Fail(s)
    \/ \E t \in Rivals : OtherPublishes(t) \/ Overtaken(s, t)

Spec == Init /\ [][Next]_vars

\* The owner's process is started again and tries to commit; the reviewer
\* answers what he is asked.
Fairness ==
  \A s \in Sessions :
    /\ WF_vars(Load(s)) /\ SF_vars(Commit(s) \/ CommitAgain(s))
    /\ \A v \in Verdicts : WF_vars(ReviewInitial(s, v))
FairSpec == Spec /\ Fairness

----------------------------------------------------------------------------
\* Properties.

\* For the reader: the types. No two records of a list have the same id.
Records == [id : RecordIds, body : Bodies]
Unique(rs) == \A k, m \in DOMAIN rs : rs[k].id = rs[m].id => k = m
Lists == {rs \in Seq(Records) : Unique(rs)}
Contents == UNION {[S -> Bodies] : S \in SUBSET RecordIds}

Snapshots == [status : {"open", "committed", "technical_failure"}, records : Lists]
Reviews == [kind : {"initial", "targeted"}, verdict : Verdicts, records : Lists,
            affected : SUBSET RecordIds, deps : SUBSET RecordIds, fresh : BOOLEAN]
Permits == [base : Contents, affected : SUBSET RecordIds, deps : SUBSET RecordIds]
Repairs == [corrected : Contents, removed : SUBSET RecordIds, records : Lists,
            packet : {"none", "current", "other"}]
Journals == [target : RecordIds, before : Lists, after : Lists,
             phase : {"prepared", "records_persisted", "progress_persisted"}]
DiskType == [snap : Snapshots \cup {None}, packet : Lists \cup {None},
             result : Reviews \cup {None}, auth : Permits \cup {None},
             progress : Repairs \cup {None}, journal : Journals \cup {None},
             intent : Lists \cup {None}, committed : Lists \cup {None},
             failure : BOOLEAN, item : {"pending", "integrated", "technical_failure"},
             itemOf : Lists \cup {None}, registry : SUBSET Records,
             taken : SUBSET Records]

\* What is absent is not something that is there.
ASSUME NoneIsNoRecord ==
  None \notin Snapshots \cup Lists \cup Reviews \cup Permits \cup Repairs \cup Journals

TypeOK == /\ disk \in DiskType /\ kills \in 0 .. MaxKills
          /\ sess \in [Sessions -> {"none", "held", "released"}]

\* A repair changes only what the reviewer found wrong: every other record of
\* the review, a dependency above all, is still what he checked.
RepairStaysInScope ==
  disk.auth # None =>
    \A i \in DOMAIN disk.auth.base \ disk.auth.affected :
      /\ i \in Ids(Current(disk))
      /\ HashOf(Current(disk))[i] = disk.auth.base[i]

\* A removal that one kill cut short, wherever it did, is taken up again, unless
\* another item has published an id of the remaining records with other contents.
RemovalRecovers ==
  kills <= 1 /\ (disk.journal # None => ~Collides(disk, disk.journal.after))
    => Reconcilable(disk)

\* What is committed is what the reviewer accepted, record for record, and a
\* commit after a repair has every finding of his worked off.
CommitIsReviewed ==
  [][disk.committed = None /\ disk'.committed # None =>
       /\ disk.result # None /\ disk.result.verdict = "accept"
       /\ disk.result.records = disk'.committed
       /\ disk.auth # None =>
            \A i \in disk.auth.affected :
              i \notin Ids(disk'.committed) \/ HashOf(disk'.committed)[i] # disk.auth.base[i]]_vars

Outcome == INSTANCE IntegrationOutcome WITH
  Plans <- Seq([id : RecordIds, body : Bodies]),
  plan <- disk.intent, registry <- disk.registry, outcome <- disk.item

\* The session implements that promise, through kills and retries.
PlanThenPublish == Outcome!Spec

\* The acceptance a commit intent was written on.
Accepted ==
  /\ ResultBound(disk) /\ disk.result.verdict = "accept"
  /\ disk.result.records = disk.intent

\* A commit that was intended comes to its end, whatever was killed, with two
\* exceptions that the code does not prevent after the intent. A retry may take
\* the acceptance away: by another record or verdict, or by a packet of the same
\* records (integration.py:1585). And another item may publish an id of the plan
\* with other contents: every retry then raises, and the item can neither be
\* integrated nor be given up. Nothing else keeps it from its end.
IntentConverges ==
  disk.intent # None ~>
    (disk.item = "integrated" \/ ~Accepted \/ Collides(disk, disk.intent))
===============================================================================
