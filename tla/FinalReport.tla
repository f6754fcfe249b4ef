----------------------------- MODULE FinalReport -----------------------------
(***************************************************************************)
(* The end of a run: the review of its product (product_review.py) and the *)
(* publication of its final report (reporting.py), by the role the Planner *)
(* offers next (requirement_planning.py) in the steps its prompt tells it  *)
(* to take (coordinator.py).                                               *)
(*                                                                         *)
(* A product candidate binds the artifacts as they are, a review binds the *)
(* candidate, an authorization binds both; each is one file, written once  *)
(* under a lock, but checked before the lock is taken. The report is       *)
(* published by a swap of the directory `reporting': a staged copy with    *)
(* the report takes the place of the directory, which is kept as a backup  *)
(* until an intent file is removed. Nothing locks it. A role may be killed *)
(* between two steps, one of them may fail, and the role may outlive its   *)
(* coordinator, so that a second one is at work.                           *)
(*                                                                         *)
(* Contents are what they are made of: artifacts are a number, the report  *)
(* follows from the preflight and the preflight from the run, which is     *)
(* over. A directory is the set of its files; `temp' is what a killed      *)
(* write leaves.                                                           *)
(*                                                                         *)
(* A definition named X_... is X with a bug: the properties are checked    *)
(* against it too, and must fail.                                          *)
(***************************************************************************)
EXTENDS Naturals, FiniteSets

CONSTANTS Procs,      \* role processes
          Verdicts,   \* what a reviewer may say
          Tokens,     \* numbers that name report transactions (bound)
          MaxArt,     \* assemblies with another result        (bound)
          MaxMishaps, \* kills, failures and lost coordinators (bound)
          None

VARIABLES product,   \* artifacts, candidate, review, authorization
          reporting, \* the report directory, transaction directories, intent
          role,      \* what a role process is doing
          mishaps

vars == <<product, reporting, role, mishaps>>

Triplet == {"report", "receipt"}  \* the manifest goes with the report

\* What a role is doing: kind of its action, next step, what an end of a
\* recovery returns to, what it has seen, the transaction it works on and its
\* own, the directory that one replaces, whether any report file was there,
\* whether its coordinator is gone.
Call(kind, at) == [kind |-> kind, at |-> at, then |-> "load", seen |-> None,
                   token |-> None, mine |-> None, old |-> None, some |-> FALSE,
                   orphan |-> FALSE]
Idle == Call("none", "idle")

Init == /\ product = [art |-> 0, cand |-> None, rev |-> None, auth |-> None]
        /\ reporting = [final |-> None, staging |-> [t \in Tokens |-> None],
                        backup |-> [t \in Tokens |-> None], intent |-> None]
        /\ role = [p \in Procs |-> Idle]
        /\ mishaps = 0

At(p, at) == role[p].at = at
Go(p, at) == role' = [role EXCEPT ![p].at = at]
End(p) == role' = [role EXCEPT ![p] = Idle]
SameReport == UNCHANGED <<reporting, mishaps>>
SameProduct == UNCHANGED <<product, mishaps>>

-----------------------------------------------------------------------------
(* What the Planner offers. *)

Accepting == {"accept", "accept_with_limits"}

\* A candidate is current as long as its artifacts are what it binds, a review
\* as long as it is about the candidate.
CandidateStands == product.cand # None /\ product.cand = product.art
ReviewStands == CandidateStands /\ product.rev # None /\ product.rev.of = product.cand
Valid == /\ product.cand # None => CandidateStands
         /\ product.rev # None => ReviewStands
         /\ product.auth # None => ReviewStands /\ product.auth = product.rev

Content(d) == IF d = None THEN {} ELSE d
Complete(d) == d # None /\ Triplet \subseteq d
Some(d) == d # None /\ d \cap Triplet # {}
Residue == \E t \in Tokens : reporting.staging[t] # None \/ reporting.backup[t] # None
Pending == reporting.intent # None \/ Residue
Preflighted == reporting.final # None /\ "preflight" \in reporting.final
Published == Complete(reporting.final) /\ Preflighted /\ ~Pending

Offer == CASE ~Valid \/ product.cand = None -> "build"
           [] product.rev = None            -> "review"
           [] product.auth = None           ->
                IF product.rev.verdict \in Accepting THEN "publish" ELSE "build"
           [] Published                     -> "none"
           [] OTHER                         -> "report"

FirstStep == [build |-> "assemble", review |-> "inspect", publish |-> "judge",
              report |-> "gather"]

\* A role is dispatched when none is at work, but for one whose coordinator
\* is gone.
Dispatch(p) ==
  /\ role[p] = Idle /\ Offer # "none"
  /\ \A q \in Procs : role[q] = Idle \/ role[q].orphan
  /\ role' = [role EXCEPT ![p] = Call(Offer, FirstStep[Offer])]
  /\ UNCHANGED product /\ SameReport

-----------------------------------------------------------------------------
(* The product: build, review, authorize. *)

Assemble(p) ==
  /\ At(p, "assemble") /\ Go(p, "discard") /\ SameReport
  /\ \E a \in {product.art, product.art + 1} :
       a \in 1 .. MaxArt /\ product' = [product EXCEPT !.art = a]

\* BUG: a reviewed candidate is discarded as well.
Discard_Reviewed(p) ==
  /\ At(p, "discard") /\ SameReport /\ Go(p, "bind")
  /\ product' = IF CandidateStands THEN product ELSE [product EXCEPT !.cand = None]

\* A stale candidate makes room for another, unless it is reviewed.
Discard(p) ==
  /\ At(p, "discard") /\ SameReport
  /\ IF product.rev # None \/ product.auth # None
     THEN End(p) /\ UNCHANGED product
     ELSE /\ Go(p, "bind")
          /\ product' = IF CandidateStands THEN product ELSE [product EXCEPT !.cand = None]

Bind(p) ==
  /\ At(p, "bind") /\ SameReport /\ UNCHANGED product
  /\ role' = [role EXCEPT ![p].seen = product.art, ![p].at = "record"]

Record(p) ==
  /\ At(p, "record") /\ End(p) /\ SameReport
  /\ product' = IF product.cand # None THEN product
                ELSE [product EXCEPT !.cand = role[p].seen]

Inspect(p) ==
  /\ At(p, "inspect") /\ SameReport /\ UNCHANGED product
  /\ IF CandidateStands
     THEN role' = [role EXCEPT ![p].seen = product.cand, ![p].at = "review"]
     ELSE End(p)

\* One review for good: a second one is compared with it.
Review(p) ==
  /\ At(p, "review") /\ End(p) /\ SameReport
  /\ \E v \in Verdicts : product' =
       IF product.rev = None
       THEN [product EXCEPT !.rev = [of |-> role[p].seen, verdict |-> v]] ELSE product

Judge(p) ==
  /\ At(p, "judge") /\ SameReport /\ UNCHANGED product
  /\ IF ReviewStands /\ product.rev.verdict \in Accepting
     THEN role' = [role EXCEPT ![p].seen = product.rev, ![p].at = "authorize"]
     ELSE End(p)

Authorize(p) ==
  /\ At(p, "authorize") /\ End(p) /\ SameReport
  /\ product' = IF product.auth # None THEN product
                ELSE [product EXCEPT !.auth = role[p].seen]

-----------------------------------------------------------------------------
(* The report: steps of RunReportFinalizer. *)

\* An error ends the call; inside a publication it is first rolled back.
Publishing(p) == role[p] # Idle /\ role[p].then \in {"publish", "verify"}
Refuse(p) == IF Publishing(p)
             THEN role' = [role EXCEPT ![p].at = "undo", ![p].then = "undo",
                                       ![p].token = role[p].mine]
             ELSE End(p)
Return(p) == IF role[p].then \in {"load", "check"} THEN Go(p, role[p].then) ELSE End(p)

\* The inputs of the report are gathered again at every start.
Gather(p) ==
  /\ At(p, "gather") /\ SameProduct
  /\ reporting' = [reporting EXCEPT !.final = Content(@) \cup {"preflight"}]
  /\ \/ Go(p, "adopt")
     \/ ~Preflighted /\ ~Pending /\ End(p)

\* BUG: a publication that never got to its swap is not given up.
Adoption_Unprepared(i) ==
  IF i = None THEN IF Residue THEN "refuse" ELSE "load"
  ELSE LET t == i.token IN
       IF /\ reporting.final = None /\ reporting.backup[t] # None
          /\ reporting.backup[t] = i.old /\ ~Complete(reporting.staging[t])
       THEN "putBack"
       ELSE IF Complete(reporting.final) \/ Complete(reporting.staging[t]) THEN "settle"
       ELSE "refuse"

\* What an earlier transaction left is looked at, before the preflight is read.
Adoption(i) ==
  IF i = None THEN IF Residue THEN "refuse" ELSE "load"
  ELSE LET t == i.token IN
       IF i.phase = "preparing" /\ reporting.final = i.old THEN "dropStaging"
       ELSE IF /\ reporting.final = None /\ reporting.backup[t] # None
               /\ reporting.backup[t] = i.old /\ ~Complete(reporting.staging[t])
            THEN "putBack"
       ELSE IF Complete(reporting.final) \/ Complete(reporting.staging[t]) THEN "settle"
       ELSE "refuse"

\* And once more with the report at hand.
Settlement(i) ==
  IF i = None THEN IF Residue THEN "refuse" ELSE "return"
  ELSE LET f == reporting.final
           s == reporting.staging[i.token]
           b == reporting.backup[i.token]
       IN
       IF Complete(f) THEN "dropStaging"
       ELSE IF i.phase = "preparing" /\ f = i.old
            THEN IF b # None /\ b # i.old THEN "refuse" ELSE "dropStaging"
       ELSE IF i.phase = "preparing"
            THEN IF f = None /\ b = i.old THEN "putBack" ELSE "refuse"
       ELSE IF s = None THEN IF i.phase = "published" THEN "dropStaging" ELSE "refuse"
       ELSE IF ~Complete(s) THEN "refuse"
       ELSE IF f # None THEN IF f # i.old \/ b # None THEN "refuse" ELSE "setAside"
       ELSE IF b # None /\ b # i.old THEN "refuse" ELSE "putIn"

Follow(p, what) ==
  CASE what = "refuse" -> Refuse(p)
    [] what = "return" -> Return(p)
    [] OTHER -> role' = [role EXCEPT ![p].at = what,
                           ![p].token = IF reporting.intent = None THEN None
                                        ELSE reporting.intent.token]

Adopt(p) == /\ At(p, "adopt") /\ Follow(p, Adoption(reporting.intent))
            /\ SameReport /\ UNCHANGED product
Settle(p) == /\ At(p, "settle") /\ Follow(p, Settlement(reporting.intent))
             /\ SameReport /\ UNCHANGED product

Load(p) ==
  /\ At(p, "load") /\ UNCHANGED product /\ SameReport
  /\ IF Preflighted
     THEN role' = [role EXCEPT ![p].at = "settle", ![p].then = "check",
                               ![p].some = Some(reporting.final)]
     ELSE End(p)

Check(p) ==
  /\ At(p, "check") /\ UNCHANGED product /\ SameReport
  /\ IF Complete(reporting.final) \/ (reporting.final # None /\ role[p].some)
     THEN End(p)
     ELSE Go(p, "intend")

Unused == {t \in Tokens : /\ reporting.staging[t] = None /\ reporting.backup[t] = None
                          /\ reporting.intent = None \/ reporting.intent.token # t
                          /\ \A q \in Procs : role[q] # Idle => role[q].mine # t}

Intent(t, phase, old) == [token |-> t, phase |-> phase, old |-> old]
Note(p, phase) ==
  reporting' = [reporting EXCEPT !.intent = Intent(role[p].mine, phase, role[p].old)]

Intend(p) ==
  /\ At(p, "intend") /\ SameProduct /\ Unused # {}
  /\ LET t == CHOOSE t \in Unused : \A u \in Unused : t <= u
     IN  /\ role' = [role EXCEPT ![p].at = "stage", ![p].then = "publish", ![p].mine = t,
                                 ![p].token = t, ![p].old = reporting.final]
         /\ reporting' = [reporting EXCEPT !.intent = Intent(t, "preparing", reporting.final)]

Staged == Content(reporting.final) \cup Triplet

Stage(p) ==
  /\ At(p, "stage") /\ Go(p, "prepare") /\ SameProduct
  /\ reporting' = [reporting EXCEPT !.staging[role[p].mine] = Staged]

Prepare(p) ==
  /\ At(p, "prepare") /\ SameProduct
  /\ Go(p, IF reporting.final # None THEN "setAside" ELSE "putIn")
  /\ Note(p, "prepared")

\* A directory takes the place of none, or of an empty one.
Free(d) == d = None \/ d = {}

SetAside(p) ==
  /\ At(p, "setAside") /\ SameProduct
  /\ LET t == role[p].token IN
     IF reporting.final # None /\ Free(reporting.backup[t])
     THEN /\ Go(p, IF role[p].then = "publish" THEN "noteMoved" ELSE "putIn")
          /\ reporting' = [reporting EXCEPT !.final = None, !.backup[t] = reporting.final]
     ELSE Refuse(p) /\ UNCHANGED reporting

NoteMoved(p) == At(p, "noteMoved") /\ Go(p, "putIn") /\ Note(p, "backup_moved") /\ SameProduct

PutIn(p) ==
  /\ At(p, "putIn") /\ SameProduct
  /\ LET t == role[p].token IN
     IF reporting.staging[t] # None /\ Free(reporting.final)
     THEN /\ Go(p, IF role[p].then = "publish" THEN "notePublished" ELSE "dropStaging")
          /\ reporting' = [reporting EXCEPT !.final = reporting.staging[t], !.staging[t] = None]
     ELSE Refuse(p) /\ UNCHANGED reporting

NotePublished(p) ==
  /\ At(p, "notePublished") /\ Note(p, "published") /\ SameProduct
  /\ role' = [role EXCEPT ![p].at = "settle", ![p].then = "verify"]

\* Cleanup: the two directories of the transaction, then the intent.
DropStaging(p) ==
  /\ At(p, "dropStaging") /\ Go(p, "dropBackup") /\ SameProduct
  /\ reporting' = [reporting EXCEPT !.staging[role[p].token] = None]
DropBackup(p) ==
  /\ At(p, "dropBackup") /\ Go(p, "dropIntent") /\ SameProduct
  /\ reporting' = [reporting EXCEPT !.backup[role[p].token] = None]
DropIntent(p) ==
  /\ At(p, "dropIntent") /\ Return(p) /\ SameProduct
  /\ reporting' = [reporting EXCEPT !.intent = None]

PutBack(p) ==
  /\ At(p, "putBack") /\ SameProduct
  /\ LET t == role[p].token IN
     IF reporting.backup[t] # None /\ Free(reporting.final)
     THEN /\ Go(p, "dropStaging")
          /\ reporting' = [reporting EXCEPT !.final = reporting.backup[t], !.backup[t] = None]
     ELSE Refuse(p) /\ UNCHANGED reporting

\* The rollback of a failed publication: the directory becomes what it was.
Undo(p) ==
  /\ At(p, "undo") /\ UNCHANGED product /\ SameReport
  /\ LET f == reporting.final  b == reporting.backup[role[p].token]  o == role[p].old IN
     IF (b # None /\ b # o) \/ (b = None /\ f # o) THEN End(p)
     ELSE Go(p, IF b = None THEN "dropStaging"
                ELSE IF f = None THEN "putBack"
                ELSE IF f = o THEN "wipeBackup" ELSE "wipe")

Wipe(p) ==
  /\ At(p, "wipe") /\ Go(p, "putBack") /\ SameProduct
  /\ reporting' = [reporting EXCEPT !.final = None]
WipeBackup(p) ==
  /\ At(p, "wipeBackup") /\ Go(p, "dropStaging") /\ SameProduct
  /\ reporting' = [reporting EXCEPT !.backup[role[p].token] = None]

-----------------------------------------------------------------------------
(* What goes wrong. *)

\* A copy, a removal or a write that is cut short leaves any part of it.
Torn(p) ==
  LET r == role[p]
      Parts(d) == IF d = None THEN {} ELSE SUBSET d
  IN  CASE r.at = "gather" /\ reporting.final = None ->
             {[reporting EXCEPT !.final = s] : s \in {{}, {"temp"}}}
        [] r.at = "stage" ->
             {[reporting EXCEPT !.staging[r.mine] = s] : s \in Parts(Staged)}
        [] r.at = "dropStaging" ->
             {[reporting EXCEPT !.staging[r.token] = s] : s \in Parts(reporting.staging[r.token])}
        [] r.at \in {"dropBackup", "wipeBackup"} ->
             {[reporting EXCEPT !.backup[r.token] = s] : s \in Parts(reporting.backup[r.token])}
        [] r.at = "wipe" ->
             {[reporting EXCEPT !.final = s] : s \in Parts(reporting.final)}
        [] OTHER -> {}

Mishap(p) == /\ mishaps < MaxMishaps /\ mishaps' = mishaps + 1
             /\ role[p] # Idle /\ UNCHANGED product

Kill(p) == Mishap(p) /\ End(p) /\ reporting' \in {reporting} \cup Torn(p)

\* The step a publication is about to take raises an error.
Fails(p) == /\ Mishap(p) /\ Publishing(p) /\ Refuse(p)
            /\ reporting' \in {reporting} \cup Torn(p)

LoseCoordinator(p) ==
  /\ Mishap(p) /\ ~role[p].orphan /\ UNCHANGED reporting
  /\ role' = [role EXCEPT ![p].orphan = TRUE]

Proceed(p) ==
  \/ Assemble(p) \/ Discard(p) \/ Bind(p) \/ Record(p)
  \/ Inspect(p) \/ Review(p) \/ Judge(p) \/ Authorize(p)
  \/ Gather(p) \/ Adopt(p) \/ Load(p) \/ Settle(p) \/ Check(p)
  \/ Intend(p) \/ Stage(p) \/ Prepare(p) \/ SetAside(p) \/ NoteMoved(p)
  \/ PutIn(p) \/ NotePublished(p) \/ DropStaging(p) \/ DropBackup(p) \/ DropIntent(p)
  \/ PutBack(p) \/ Undo(p) \/ Wipe(p) \/ WipeBackup(p)

Next == \E p \in Procs : Dispatch(p) \/ Proceed(p) \/ Kill(p) \/ Fails(p) \/ LoseCoordinator(p)

Spec == Init /\ [][Next]_vars
Fairness == /\ \A p \in Procs : WF_vars(Proceed(p))
            /\ WF_vars(\E p \in Procs : Dispatch(p))
FairSpec == Spec /\ Fairness

-----------------------------------------------------------------------------
(* Properties. *)

\* A report is only ever there for a product that was accepted: its candidate
\* is the one the review is about, and the review the one the authorization is
\* about, although each of the three was checked before it was written under
\* the lock and roles of lost coordinators go on (ProductReviewStore).
ReportIsVouched ==
  Some(reporting.final) =>
    /\ product.auth # None /\ product.auth = product.rev
    /\ product.auth.verdict \in Accepting
    /\ product.auth.of = product.cand

Decided == product.auth # None /\ Valid

\* Where recovery refuses for ever: what a transaction left, a report in part
\* or a copy, belongs to none; the directory is not the one it replaces, or was
\* made anew, by a gatherer, beside its copy; the report it prepared is gone.
Wrecked ==
  LET i == reporting.intent  f == reporting.final IN
  \/ i = None /\ (Residue \/ (Some(f) /\ ~Complete(f)))
  \/ /\ i # None /\ f # None /\ ~Complete(f)
     /\ \/ f # i.old
        \/ i.phase # "preparing" /\ (\/ reporting.backup[i.token] # None
                                     \/ ~Complete(reporting.staging[i.token]))

\* As long as the product stays authorized, the report is published in the end
\* and stays: what kills and errors leave behind is finished or undone by the
\* next role, but for the states named above (RunReportFinalizer.finalize).
ReportSettles == []<>(~Decided) \/ <>[]Published \/ <>[]Wrecked
=============================================================================
