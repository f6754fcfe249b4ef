--------------------------- MODULE FinalReportProofs ---------------------------
(* A report stands on an accepted product, for any number of roles, mishaps  *)
(* and transactions, and any verdicts: theorems about FinalReport.           *)
EXTENDS FinalReport, WellFoundedInduction, TLAPS

Reviews == [of : Nat \cup {None}, verdict : Verdicts]
Products == [art : Nat, cand : Nat \cup {None}, rev : Reviews \cup {None},
             auth : Reviews \cup {None}]

Dirs == (SUBSET (Triplet \cup {"preflight", "temp"})) \cup {None}
Intents == [token : Tokens, old : Dirs,
            phase : {"preparing", "prepared", "backup_moved", "published"}]
Reportings == [final : Dirs, staging : [Tokens -> Dirs], backup : [Tokens -> Dirs],
               intent : Intents \cup {None}]

ProductSteps == {"idle", "assemble", "discard", "bind", "record", "inspect", "review",
                 "judge", "authorize"}
ReportSteps == {"gather", "adopt", "load", "settle", "check", "intend", "stage", "prepare",
                "setAside", "noteMoved", "putIn", "notePublished", "dropStaging",
                "dropBackup", "dropIntent", "putBack", "undo", "wipe", "wipeBackup"}
Calls == [kind : {"none", "build", "review", "publish", "report"},
          at : ProductSteps \cup ReportSteps,
          then : {"load", "check", "publish", "verify", "undo"},
          seen : Nat \cup Reviews \cup {None}, token : Tokens \cup {None},
          mine : Tokens \cup {None}, old : Dirs, some : BOOLEAN, orphan : BOOLEAN]

\* Steps on a transaction, and steps on the role's own.
TokenSteps == {"stage", "prepare", "setAside", "noteMoved", "putIn", "notePublished",
               "dropStaging", "dropBackup", "putBack", "undo", "wipe", "wipeBackup"}
OwnSteps == {"stage", "prepare", "noteMoved", "notePublished"}
Fits(c) ==
  /\ c.at \in TokenSteps => c.token \in Tokens
  /\ c.at \in OwnSteps => c.then = "publish"
  /\ c.then \in {"publish", "verify", "undo"} => c.mine \in Tokens

TypeOK ==
  /\ product \in Products /\ reporting \in Reportings /\ role \in [Procs -> Calls]
  /\ \A p \in Procs :
       /\ Fits(role[p])
       /\ role[p].at \in {"record", "review"} => role[p].seen \in Nat \cup {None}
       /\ role[p].at = "authorize" => role[p].seen \in Reviews \cup {None}

\* A role that is past its judgement holds the review that stands for good.
JudgedStands ==
  \A p \in Procs : role[p].at = "authorize" =>
    /\ product.rev # None /\ product.rev = role[p].seen
    /\ product.rev.verdict \in Accepting
    /\ product.cand # None /\ product.rev.of = product.cand

\* The authorization stands for good.
AuthorizedStands ==
  product.auth # None =>
    /\ product.auth = product.rev /\ product.auth.verdict \in Accepting
    /\ product.cand # None /\ product.auth.of = product.cand

\* Only roles that were offered the report are anywhere near it.
ReportersAreAuthorized ==
  \A p \in Procs : role[p].at \in ReportSteps \/ role[p].then # "load" => product.auth # None

\* Nothing is written before the authorization.
NothingEarly ==
  product.auth = None =>
    reporting = [final |-> None, staging |-> [t \in Tokens |-> None],
                 backup |-> [t \in Tokens |-> None], intent |-> None]

IInv == TypeOK /\ JudgedStands /\ AuthorizedStands /\ ReportersAreAuthorized /\ NothingEarly

LEMMA IdleCall == Idle \in Calls /\ Idle.at = "idle" /\ Idle.then = "load" /\ Fits(Idle)
<1>1. None \in Dirs /\ "idle" \in ProductSteps  BY DEF Dirs, ProductSteps
<1> QED  BY <1>1 DEF Idle, Call, Calls, Fits, TokenSteps, OwnSteps

LEMMA Start == Init => IInv
<1> SUFFICES ASSUME Init PROVE IInv
  OBVIOUS
<1> USE DEF Init
<1>1. product \in Products  BY DEF Products
<1>2. reporting \in Reportings
  <2>1. None \in Dirs  BY DEF Dirs
  <2> QED  BY <2>1 DEF Reportings
<1>3. TypeOK  BY <1>1, <1>2, IdleCall DEF TypeOK
<1>4. JudgedStands /\ AuthorizedStands /\ ReportersAreAuthorized /\ NothingEarly
  BY IdleCall DEF JudgedStands, AuthorizedStands, ReportersAreAuthorized, NothingEarly, ReportSteps
<1> QED  BY <1>3, <1>4 DEF IInv

-----------------------------------------------------------------------------
(* The product. *)

ProductAction(p) ==
  \/ Assemble(p) \/ Discard(p) \/ Bind(p) \/ Record(p)
  \/ Inspect(p) \/ Review(p) \/ Judge(p) \/ Authorize(p)

\* The role goes on with c, the product becomes x: its review and authorization
\* are written once, a reviewed candidate is not taken away, and the review of
\* a role that authorizes is the one that stands.
Moved(p, c, x) ==
  /\ c \in Calls /\ role' = [role EXCEPT ![p] = c] /\ x \in Products /\ product' = x
  /\ c.at \in ProductSteps /\ (c = Idle \/ (c.then = role[p].then /\ c.mine = role[p].mine))
  /\ c.at \in {"record", "review"} => c.seen \in Nat \cup {None}
  /\ x.rev = product.rev \/ product.rev = None
  /\ x.cand = product.cand \/ product.cand = None \/ (product.rev = None /\ product.auth = None)
  /\ \/ x.auth = product.auth
     \/ role[p].at = "authorize" /\ product.auth = None /\ x.auth = role[p].seen
        /\ x.rev = product.rev /\ x.cand = product.cand
  /\ c.at = "authorize" =>
       /\ x = product /\ c.seen = product.rev /\ product.rev # None
       /\ product.rev.verdict \in Accepting
       /\ product.cand # None /\ product.rev.of = product.cand
  /\ UNCHANGED reporting

LEMMA ProductStep ==
  ASSUME TypeOK, NEW p \in Procs, ProductAction(p)
  PROVE  \E c \in Calls, x \in Products : Moved(p, c, x)
<1> DEFINE r == role[p]
<1>0. /\ r \in Calls /\ product \in Products /\ role \in [Procs -> Calls] /\ Idle \in Calls
      /\ Idle.at = "idle" /\ Idle.then = "load"
  BY IdleCall DEF TypeOK
<1>e. ASSUME NEW a \in {"discard", "bind"} PROVE [r EXCEPT !.at = a] \in Calls
  BY <1>0 DEF Calls, ProductSteps
<1>s. ASSUME NEW a \in {"record", "review", "authorize"}, NEW v \in Nat \cup Reviews \cup {None}
      PROVE  [r EXCEPT !.seen = v, !.at = a] \in Calls
  BY <1>0 DEF Calls, ProductSteps
<1>1. CASE Assemble(p)
  <2>1. PICK a \in Nat : product' = [product EXCEPT !.art = a]
    BY <1>1, <1>0 DEF Assemble, Products
  <2>2. role' = [role EXCEPT ![p] = [r EXCEPT !.at = "discard"]] /\ UNCHANGED reporting
    BY <1>1, <1>0 DEF Assemble, Go, SameReport
  <2>3. [product EXCEPT !.art = a] \in Products  BY <1>0 DEF Products
  <2>4. Moved(p, [r EXCEPT !.at = "discard"], [product EXCEPT !.art = a])
    BY <2>1, <2>2, <2>3, <1>0, <1>e DEF Moved, Calls, Products, ProductSteps
  <2> QED  BY <2>3, <2>4, <1>e
<1>2. CASE Discard(p)
  <2>1. CASE product.rev # None \/ product.auth # None
    <3>1. Moved(p, Idle, product)
      BY <2>1, <1>2, <1>0 DEF Moved, Discard, End, SameReport, ProductSteps
    <3> QED  BY <3>1, <1>0
  <2>2. CASE ~(product.rev # None \/ product.auth # None)
    <3>1. PICK x \in {product, [product EXCEPT !.cand = None]} : product' = x
      BY <2>2, <1>2 DEF Discard
    <3>2. [product EXCEPT !.cand = None] \in Products  BY <1>0 DEF Products
    <3>3. x \in Products /\ x.rev = product.rev /\ x.auth = product.auth
      BY <3>2, <1>0 DEF Products
    <3>4. role' = [role EXCEPT ![p] = [r EXCEPT !.at = "bind"]] /\ UNCHANGED reporting
      BY <2>2, <1>2, <1>0 DEF Discard, Go, SameReport
    <3>5. Moved(p, [r EXCEPT !.at = "bind"], x)
      BY <3>1, <3>3, <3>4, <2>2, <1>0, <1>e DEF Moved, Calls, ProductSteps
    <3> QED  BY <3>3, <3>5, <1>e
  <2> QED  BY <2>1, <2>2
<1>3. CASE Bind(p)
  <2> DEFINE c == [r EXCEPT !.seen = product.art, !.at = "record"]
  <2>1. role' = [role EXCEPT ![p] = c] /\ product' = product /\ UNCHANGED reporting
    BY <1>3, <1>0 DEF Bind, SameReport
  <2>0. product.art \in Nat  BY <1>0 DEF Products
  <2>2. c \in Calls /\ c.at = "record" /\ c.seen \in Nat /\ c.then = r.then /\ c.mine = r.mine
    BY <2>0, <1>0, <1>s DEF Calls
  <2>3. Moved(p, c, product)  BY <2>1, <2>2, <1>0 DEF Moved, ProductSteps
  <2> QED  BY <2>2, <2>3, <1>0
<1>4. CASE Record(p)
  <2>1. r.seen \in Nat \cup {None}  BY <1>4 DEF Record, At, TypeOK
  <2>2. PICK x \in {product, [product EXCEPT !.cand = r.seen]} :
          product' = x /\ (product.cand = None \/ x = product)
    BY <1>4 DEF Record
  <2>3. [product EXCEPT !.cand = r.seen] \in Products  BY <2>1, <1>0 DEF Products
  <2>4. x \in Products /\ x.rev = product.rev /\ x.auth = product.auth
    BY <2>3, <1>0 DEF Products
  <2>5. Moved(p, Idle, x)
    BY <2>2, <2>4, <1>4, <1>0 DEF Moved, Record, End, SameReport, ProductSteps
  <2> QED  BY <2>4, <2>5, <1>0
<1>5. CASE Inspect(p)
  <2> DEFINE c == [r EXCEPT !.seen = product.cand, !.at = "review"]
  <2>1. PICK d \in {c, Idle} : role' = [role EXCEPT ![p] = d]
    BY <1>5, <1>0 DEF Inspect, End
  <2>2. /\ d \in Calls /\ d.at \in {"review", "idle"} /\ (d = Idle \/ (d.then = r.then /\ d.mine = r.mine))
        /\ d.at = "review" => d.seen \in Nat \cup {None}
    <3>1. product.cand \in Nat \cup {None}  BY <1>0 DEF Products
    <3>2. c \in Calls /\ c.at = "review" /\ c.seen = product.cand /\ c.then = r.then /\ c.mine = r.mine
      BY <3>1, <1>0, <1>s DEF Calls
    <3> HIDE DEF c
    <3> QED  BY <3>1, <3>2, <1>0
  <2>3. Moved(p, d, product)
    BY <2>1, <2>2, <1>5, <1>0 DEF Moved, Inspect, SameReport, ProductSteps
  <2> QED  BY <2>2, <2>3, <1>0
<1>6. CASE Review(p)
  <2>1. r.seen \in Nat \cup {None}  BY <1>6 DEF Review, At, TypeOK
  <2>2. PICK v \in Verdicts :
          product' = IF product.rev = None
                     THEN [product EXCEPT !.rev = [of |-> r.seen, verdict |-> v]] ELSE product
    BY <1>6 DEF Review
  <2>3. [of |-> r.seen, verdict |-> v] \in Reviews  BY <2>1 DEF Reviews
  <2>4. PICK x \in {product, [product EXCEPT !.rev = [of |-> r.seen, verdict |-> v]]} :
          product' = x /\ (product.rev = None \/ x = product)
    BY <2>2
  <2>5. x \in Products /\ x.cand = product.cand /\ x.auth = product.auth
    BY <2>3, <1>0 DEF Products
  <2>6. Moved(p, Idle, x)
    BY <2>4, <2>5, <1>6, <1>0 DEF Moved, Review, End, SameReport, ProductSteps
  <2> QED  BY <2>5, <2>6, <1>0
<1>7. CASE Judge(p)
  <2> DEFINE c == [r EXCEPT !.seen = product.rev, !.at = "authorize"]
  <2>1. CASE ReviewStands /\ product.rev.verdict \in Accepting
    <3>1. role' = [role EXCEPT ![p] = c]  BY <2>1, <1>7, <1>0 DEF Judge
    <3>2. c \in Calls /\ c.at = "authorize" /\ c.seen = product.rev /\ c.then = r.then /\ c.mine = r.mine
      BY <1>0, <1>s DEF Calls, Products
    <3>3. Moved(p, c, product)
      BY <3>1, <3>2, <2>1, <1>7, <1>0
         DEF Moved, Judge, SameReport, ProductSteps, ReviewStands, CandidateStands
    <3> QED  BY <3>2, <3>3, <1>0
  <2>2. CASE ~(ReviewStands /\ product.rev.verdict \in Accepting)
    <3>1. Moved(p, Idle, product)
      BY <2>2, <1>7, <1>0 DEF Moved, Judge, End, SameReport, ProductSteps
    <3> QED  BY <3>1, <1>0
  <2> QED  BY <2>1, <2>2
<1>8. CASE Authorize(p)
  <2>1. r.seen \in Reviews \cup {None} /\ r.at = "authorize"  BY <1>8 DEF Authorize, At, TypeOK
  <2>2. PICK x \in {product, [product EXCEPT !.auth = r.seen]} :
          product' = x /\ (product.auth = None \/ x = product)
    BY <1>8 DEF Authorize
  <2>3. /\ x \in Products /\ x.cand = product.cand /\ x.rev = product.rev
        /\ x = product \/ x.auth = r.seen
    BY <2>1, <1>0 DEF Products
  <2>4. Moved(p, Idle, x)
    BY <2>1, <2>2, <2>3, <1>8, <1>0 DEF Moved, Authorize, End, SameReport, ProductSteps
  <2> QED  BY <2>3, <2>4, <1>0
<1> QED  BY <1>1, <1>2, <1>3, <1>4, <1>5, <1>6, <1>7, <1>8 DEF ProductAction

LEMMA ProductKeeps ==
  ASSUME IInv, NEW p \in Procs, NEW c \in Calls, NEW x \in Products, Moved(p, c, x)
  PROVE  IInv'
<1>0. /\ role \in [Procs -> Calls] /\ role' = [role EXCEPT ![p] = c] /\ role'[p] = c
      /\ \A q \in Procs \ {p} : role'[q] = role[q]
      /\ product' = x /\ reporting' = reporting
  BY DEF IInv, TypeOK, Moved
<1>1. TypeOK'
  <2>1. c.at = "authorize" => c.seen \in Reviews \cup {None}
    BY DEF Moved, IInv, TypeOK, Products
  <2>2. Fits(c)
    BY IdleCall DEF Moved, IInv, TypeOK, Fits, ProductSteps, TokenSteps, OwnSteps
  <2> QED  BY <2>1, <2>2, <1>0 DEF IInv, TypeOK, Moved
<1>2. JudgedStands'
  BY <1>0 DEF IInv, JudgedStands, Moved
<1>3. AuthorizedStands'
  BY <1>0 DEF IInv, JudgedStands, AuthorizedStands, Moved
<1>4. ReportersAreAuthorized'
  <2>1. ProductSteps \cap ReportSteps = {}  BY DEF ProductSteps, ReportSteps
  <2>2. x.auth # None \/ product.auth = None
    BY DEF IInv, JudgedStands, Moved
  <2> QED  BY <2>1, <2>2, <1>0, IdleCall DEF IInv, ReportersAreAuthorized, Moved
<1>5. NothingEarly'
  <2>2. x.auth # None \/ product.auth = None
    BY DEF IInv, JudgedStands, Moved
  <2> QED  BY <2>2, <1>0 DEF IInv, NothingEarly
<1> QED  BY <1>1, <1>2, <1>3, <1>4, <1>5 DEF IInv
-----------------------------------------------------------------------------
(* The report. *)

ReportAction(p) ==
  \/ Gather(p) \/ Adopt(p) \/ Load(p) \/ Settle(p) \/ Check(p)
  \/ Intend(p) \/ Stage(p) \/ Prepare(p) \/ SetAside(p) \/ NoteMoved(p)
  \/ PutIn(p) \/ NotePublished(p) \/ DropStaging(p) \/ DropBackup(p) \/ DropIntent(p)
  \/ PutBack(p) \/ Undo(p) \/ Wipe(p) \/ WipeBackup(p)

\* The role stays with the report, or ends.
Reports(p) ==
  \E c \in Calls :
    role' = [role EXCEPT ![p] = c] /\ c.at \in ReportSteps \cup {"idle"} /\ Fits(c)

LEMMA Ends ==
  ASSUME TypeOK, NEW p \in Procs, End(p)
  PROVE  Reports(p)
BY IdleCall DEF End, Reports

\* A step that moves on and keeps the rest of the call.
LEMMA Goes ==
  ASSUME TypeOK, NEW p \in Procs, NEW a \in ReportSteps, Go(p, a),
         a \in TokenSteps => role[p].at \in TokenSteps,
         a \in OwnSteps => role[p].then = "publish"
  PROVE  Reports(p)
<1>1. role[p] \in Calls /\ role \in [Procs -> Calls] /\ Fits(role[p])  BY DEF TypeOK
<1> DEFINE c == [role[p] EXCEPT !.at = a]
<1>2. /\ c \in Calls /\ c.at = a /\ c.then = role[p].then
      /\ c.mine = role[p].mine /\ c.token = role[p].token
  BY <1>1 DEF Calls
<1>3. role' = [role EXCEPT ![p] = c]  BY <1>1 DEF Go
<1>4. Fits(c)
  <2> HIDE DEF c
  <2> QED  BY <1>1, <1>2 DEF Fits
<1> QED  BY <1>2, <1>3, <1>4 DEF Reports

LEMMA Refuses ==
  ASSUME TypeOK, NEW p \in Procs, Refuse(p)
  PROVE  Reports(p)
<1>1. role[p] \in Calls /\ role \in [Procs -> Calls] /\ Fits(role[p])  BY DEF TypeOK
<1> DEFINE c == [role[p] EXCEPT !.at = "undo", !.then = "undo", !.token = role[p].mine]
<1>2. c \in Calls /\ c.at = "undo" /\ c.mine = role[p].mine /\ c.token = role[p].mine
  BY <1>1 DEF Calls, ReportSteps
<1>3. (role' = [role EXCEPT ![p] = c] /\ Publishing(p)) \/ End(p)  BY <1>1 DEF Refuse
<1>4. Publishing(p) => Fits(c)
  <2>1. Publishing(p) => role[p].mine \in Tokens  BY <1>1 DEF Publishing, Fits
  <2> HIDE DEF c
  <2> QED  BY <1>2, <2>1 DEF Fits, OwnSteps
<1>5. "undo" \in ReportSteps  BY DEF ReportSteps
<1> QED  BY <1>2, <1>3, <1>4, <1>5, Ends DEF Reports

LEMMA Returns ==
  ASSUME TypeOK, NEW p \in Procs, Return(p)
  PROVE  Reports(p)
BY Goes, Ends DEF Return, ReportSteps, TokenSteps, OwnSteps

\* What is found never sends a role outside the steps of the report.
LEMMA Follows ==
  ASSUME TypeOK, NEW p \in Procs,
         Follow(p, Adoption(reporting.intent)) \/ Follow(p, Settlement(reporting.intent))
  PROVE  Reports(p)
<1> DEFINE k == IF reporting.intent = None THEN None ELSE reporting.intent.token
<1>1. /\ role[p] \in Calls /\ role \in [Procs -> Calls] /\ k \in Tokens \cup {None}
      /\ Fits(role[p]) /\ (reporting.intent # None => k \in Tokens)
  BY DEF TypeOK, Reportings, Intents
<1> DEFINE Found == {"refuse", "return", "load"}
                    \cup (IF reporting.intent = None THEN {}
                          ELSE {"dropStaging", "putBack", "settle", "setAside", "putIn"})
<1>2. ASSUME NEW what \in Found, Follow(p, what)
      PROVE  Reports(p)
  <2>1. CASE what = "refuse"
    <3>1. Refuse(p)  BY <1>2, <2>1 DEF Follow
    <3> QED  BY <3>1, Refuses
  <2>2. CASE what = "return"
    <3>1. Return(p)  BY <1>2, <2>2 DEF Follow
    <3> QED  BY <3>1, Returns
  <2>3. CASE what \notin {"refuse", "return"}
    <3> DEFINE c == [role[p] EXCEPT !.at = what, !.token = k]
    <3>1. what \in ReportSteps \ OwnSteps /\ (what \in TokenSteps => reporting.intent # None)
      BY <2>3 DEF ReportSteps, OwnSteps, TokenSteps
    <3>2. role' = [role EXCEPT ![p] = c]  BY <1>1, <1>2, <2>3 DEF Follow
    <3>3. /\ c \in Calls /\ c.at = what /\ c.token = k /\ c.then = role[p].then
          /\ c.mine = role[p].mine
      <4> HIDE DEF k, Found
      <4> QED  BY <1>1, <3>1 DEF Calls
    <3>4. Fits(c)
      <4> HIDE DEF k, Found, c
      <4> QED  BY <1>1, <3>1, <3>3 DEF Fits
    <3> QED  BY <3>1, <3>2, <3>3, <3>4 DEF Reports
  <2> QED  BY <2>1, <2>2, <2>3
<1>3. Adoption(reporting.intent) \in Found  BY DEF Adoption
<1>4. Settlement(reporting.intent) \in Found  BY DEF Settlement
<1> QED  BY <1>2, <1>3, <1>4

\* Any directory, intent or set of copies may be the next one.
LEMMA ReportingChanges ==
  ASSUME TypeOK
  PROVE  /\ \A d \in Dirs : [reporting EXCEPT !.final = d] \in Reportings
         /\ \A t : \A d \in Dirs : [reporting EXCEPT !.staging[t] = d] \in Reportings
         /\ \A t : \A d \in Dirs : [reporting EXCEPT !.backup[t] = d] \in Reportings
         /\ \A i \in Intents \cup {None} : [reporting EXCEPT !.intent = i] \in Reportings
         /\ \A t : \A d, e \in Dirs :
              [reporting EXCEPT !.final = d, !.backup[t] = e] \in Reportings
         /\ \A t : \A d, e \in Dirs :
              [reporting EXCEPT !.final = d, !.staging[t] = e] \in Reportings
<1>1. reporting \in Reportings  BY DEF TypeOK
<1>2. ASSUME NEW f \in [Tokens -> Dirs], NEW t, NEW d \in Dirs
      PROVE  [f EXCEPT ![t] = d] \in [Tokens -> Dirs]
  OBVIOUS
<1> QED  BY <1>1, <1>2 DEF Reportings

\* A set of numbers has a least one.
LEMMA Least ==
  ASSUME NEW S, S \subseteq Nat, S # {}
  PROVE  \E x \in S : \A u \in S : x <= u
<1> DEFINE R == {e \in Nat \X Nat : e[1] < e[2]}
<1>1. IsWellFoundedOn(R, Nat)  BY NatLessThanWellFounded DEF OpToRel
<1>2. \A a, b \in Nat : <<a, b>> \in R <=> a < b  OBVIOUS
<1> HIDE DEF R
<1>3. PICK x \in S : \A u \in S : <<u, x>> \notin R  BY <1>1, WFMin
<1>4. ASSUME NEW u \in S PROVE x <= u
  <2>1. u \in Nat /\ x \in Nat  OBVIOUS
  <2>2. ~(u < x)  BY <1>2, <1>3, <2>1
  <2> QED  BY <2>1, <2>2
<1> QED  BY <1>4

\* Which steps touch the report, and what they leave.
LEMMA ReportStep ==
  ASSUME TypeOK, Tokens \subseteq Nat, NEW p \in Procs, ReportAction(p)
  PROVE  /\ Reports(p) /\ role[p].at \in ReportSteps
         /\ product' = product /\ reporting' \in Reportings
<1> DEFINE r == role[p]
<1>0. /\ r \in Calls /\ role \in [Procs -> Calls] /\ reporting \in Reportings
      /\ reporting.final \in Dirs /\ reporting.staging \in [Tokens -> Dirs]
      /\ reporting.backup \in [Tokens -> Dirs] /\ r.mine \in Tokens \cup {None}
      /\ r.old \in Dirs
  BY DEF TypeOK, Reportings, Calls
<1>d. /\ None \in Dirs /\ Content(reporting.final) \cup {"preflight"} \in Dirs
      /\ Staged \in Dirs
  BY <1>0 DEF Dirs, Content, Staged, Triplet
<1>f. Fits(r)  BY DEF TypeOK
<1>t. reporting.intent \in Intents \cup {None}  BY <1>0 DEF Reportings
<1>n. ASSUME NEW phase \in {"prepared", "backup_moved", "published"}, Note(p, phase)
      PROVE  r.at \in OwnSteps => reporting' \in Reportings
  <2> SUFFICES ASSUME r.at \in OwnSteps PROVE reporting' \in Reportings
    OBVIOUS
  <2>1. Intent(r.mine, phase, r.old) \in Intents  BY <1>0, <1>f DEF Intent, Intents, Fits
  <2> QED  BY <2>1, <1>n, ReportingChanges DEF Note
<1>1. CASE Gather(p)
  <2>1. reporting' \in Reportings  BY <1>1, <1>d, ReportingChanges DEF Gather
  <2>2. Reports(p)  BY <1>1, Goes, Ends DEF Gather, At, ReportSteps, TokenSteps, OwnSteps
  <2> QED  BY <2>1, <2>2, <1>1 DEF Gather, At, SameProduct, ReportSteps
<1>2. CASE Adopt(p)
  BY <1>2, <1>0, Follows DEF Adopt, At, SameReport, ReportSteps
<1>3. CASE Settle(p)
  BY <1>3, <1>0, Follows DEF Settle, At, SameReport, ReportSteps
<1>4. CASE Load(p)
  <2> DEFINE b == Some(reporting.final)
             c == [r EXCEPT !.at = "settle", !.then = "check", !.some = b]
  <2>1. role' = [role EXCEPT ![p] = c] \/ End(p)  BY <1>4, <1>0 DEF Load
  <2>2. b \in BOOLEAN  BY DEF Some
  <2>3. c \in Calls /\ c.at = "settle" /\ c.then = "check"
    <3> HIDE DEF b
    <3> QED  BY <2>2, <1>0 DEF Calls, ReportSteps
  <2>5. Fits(c)
    <3> HIDE DEF c
    <3> QED  BY <2>3 DEF Fits, TokenSteps, OwnSteps
  <2>4. Reports(p)  BY <2>1, <2>3, <2>5, Ends DEF Reports, ReportSteps
  <2> QED  BY <2>4, <1>4, <1>0 DEF Load, At, SameReport, ReportSteps
<1>5. CASE Check(p)
  <2>1. Reports(p)  BY <1>5, Goes, Ends DEF Check, At, ReportSteps, TokenSteps, OwnSteps
  <2> QED  BY <2>1, <1>5, <1>0 DEF Check, At, SameReport, ReportSteps
<1>6. CASE Intend(p)
  <2> DEFINE t == CHOOSE x \in Unused : \A u \in Unused : x <= u
             c == [r EXCEPT !.at = "stage", !.then = "publish", !.mine = t, !.token = t,
                            !.old = reporting.final]
  <2>1. t \in Tokens
    <3>1. Unused \subseteq Nat /\ Unused # {} /\ Unused \subseteq Tokens
      BY <1>6 DEF Intend, Unused
    <3>2. \E x \in Unused : \A u \in Unused : x <= u  BY <3>1, Least
    <3> QED  BY <3>1, <3>2
  <2> HIDE DEF t
  <2>7. role' = [role EXCEPT ![p].at = "stage", ![p].then = "publish", ![p].mine = t,
                             ![p].token = t, ![p].old = reporting.final]
    BY <1>6 DEF Intend, t
  <2>2. role' = [role EXCEPT ![p] = c]  BY <2>7, <1>0
  <2>3. /\ c \in Calls /\ c.at = "stage" /\ c.then = "publish"
        /\ c.mine = t /\ c.token = t
    BY <2>1, <1>0 DEF Calls, ReportSteps
  <2>6. Fits(c)
    <3> HIDE DEF c
    <3> QED  BY <2>1, <2>3 DEF Fits
  <2>4. Intent(t, "preparing", reporting.final) \in Intents  BY <2>1, <1>0 DEF Intent, Intents
  <2>5. reporting' \in Reportings  BY <2>4, <1>6, ReportingChanges DEF Intend, t
  <2> QED  BY <2>2, <2>3, <2>5, <2>6, <1>6 DEF Intend, At, SameProduct, Reports, ReportSteps
<1>7. CASE Stage(p)
  <2>1. reporting' \in Reportings  BY <1>7, <1>d, ReportingChanges DEF Stage
  <2>2. Reports(p)
    BY <1>7, <1>f, Goes DEF Stage, At, Fits, ReportSteps, TokenSteps, OwnSteps
  <2> QED  BY <2>1, <2>2, <1>7 DEF Stage, At, SameProduct, ReportSteps
<1>8. CASE Prepare(p)
  <2>1. reporting' \in Reportings  BY <1>8, <1>n DEF Prepare, At, OwnSteps
  <2>2. Reports(p)  BY <1>8, Goes DEF Prepare, At, ReportSteps, TokenSteps, OwnSteps
  <2> QED  BY <2>1, <2>2, <1>8 DEF Prepare, At, SameProduct, ReportSteps
<1>9. CASE SetAside(p)
  <2> DEFINE t == r.token
  <2>1. CASE reporting.final # None /\ Free(reporting.backup[t])
    <3>1. reporting' = [reporting EXCEPT !.final = None, !.backup[t] = reporting.final]
      BY <2>1, <1>9 DEF SetAside
    <3>2. reporting' \in Reportings  BY <3>1, <1>0, <1>d, ReportingChanges
    <3>3. Reports(p)
      BY <2>1, <1>9, Goes DEF SetAside, At, ReportSteps, TokenSteps, OwnSteps
    <3> QED  BY <3>2, <3>3, <1>9 DEF SetAside, At, SameProduct, ReportSteps
  <2>2. CASE ~(reporting.final # None /\ Free(reporting.backup[t]))
    <3>1. Refuse(p) /\ UNCHANGED reporting  BY <2>2, <1>9 DEF SetAside
    <3> QED  BY <3>1, <1>0, <1>9, Refuses DEF SetAside, At, SameProduct, ReportSteps
  <2> QED  BY <2>1, <2>2
<1>10. CASE NoteMoved(p)
  <2>1. reporting' \in Reportings  BY <1>10, <1>n DEF NoteMoved, At, OwnSteps
  <2>2. Reports(p)  BY <1>10, Goes DEF NoteMoved, At, ReportSteps, TokenSteps, OwnSteps
  <2> QED  BY <2>1, <2>2, <1>10 DEF NoteMoved, At, SameProduct, ReportSteps
<1>11. CASE PutIn(p)
  <2> DEFINE t == r.token
  <2>1. CASE reporting.staging[t] # None /\ Free(reporting.final)
    <3>1. reporting' = [reporting EXCEPT !.final = reporting.staging[t], !.staging[t] = None]
      BY <2>1, <1>11 DEF PutIn
    <3>2. reporting' \in Reportings
      <4>1. t \in Tokens  BY <1>11, <1>f DEF PutIn, At, Fits, TokenSteps
      <4> QED  BY <4>1, <3>1, <1>0, <1>d, ReportingChanges
    <3>3. Reports(p)  BY <2>1, <1>11, Goes DEF PutIn, At, ReportSteps, TokenSteps, OwnSteps
    <3> QED  BY <3>2, <3>3, <1>11 DEF PutIn, At, SameProduct, ReportSteps
  <2>2. CASE ~(reporting.staging[t] # None /\ Free(reporting.final))
    <3>1. Refuse(p) /\ UNCHANGED reporting  BY <2>2, <1>11 DEF PutIn
    <3> QED  BY <3>1, <1>0, <1>11, Refuses DEF PutIn, At, SameProduct, ReportSteps
  <2> QED  BY <2>1, <2>2
<1>12. CASE NotePublished(p)
  <2> DEFINE c == [r EXCEPT !.at = "settle", !.then = "verify"]
  <2>1. reporting' \in Reportings  BY <1>12, <1>n DEF NotePublished, At, OwnSteps
  <2>2. role' = [role EXCEPT ![p] = c]  BY <1>12, <1>0 DEF NotePublished
  <2>3. /\ c \in Calls /\ c.at = "settle" /\ c.then = "verify" /\ c.mine = r.mine
        /\ c.mine \in Tokens
    BY <1>12, <1>0, <1>f DEF NotePublished, At, Fits, OwnSteps, Calls, ReportSteps
  <2>4. Fits(c)
    <3> HIDE DEF c
    <3> QED  BY <2>3 DEF Fits, TokenSteps, OwnSteps
  <2> QED  BY <2>1, <2>2, <2>3, <2>4, <1>12 DEF NotePublished, At, SameProduct, Reports, ReportSteps
<1>13. CASE DropStaging(p)
  <2>1. reporting' \in Reportings  BY <1>13, <1>d, ReportingChanges DEF DropStaging
  <2>2. Reports(p)  BY <1>13, Goes DEF DropStaging, At, ReportSteps, TokenSteps, OwnSteps
  <2> QED  BY <2>1, <2>2, <1>13 DEF DropStaging, At, SameProduct, ReportSteps
<1>14. CASE DropBackup(p)
  <2>1. reporting' \in Reportings  BY <1>14, <1>d, ReportingChanges DEF DropBackup
  <2>2. Reports(p)  BY <1>14, Goes DEF DropBackup, At, ReportSteps, TokenSteps, OwnSteps
  <2> QED  BY <2>1, <2>2, <1>14 DEF DropBackup, At, SameProduct, ReportSteps
<1>15. CASE DropIntent(p)
  <2>1. reporting' \in Reportings  BY <1>15, ReportingChanges DEF DropIntent
  <2>2. Reports(p)  BY <1>15, Returns DEF DropIntent
  <2> QED  BY <2>1, <2>2, <1>15 DEF DropIntent, At, SameProduct, ReportSteps
<1>16. CASE PutBack(p)
  <2> DEFINE t == r.token
  <2>1. CASE reporting.backup[t] # None /\ Free(reporting.final)
    <3>1. reporting' = [reporting EXCEPT !.final = reporting.backup[t], !.backup[t] = None]
      BY <2>1, <1>16 DEF PutBack
    <3>2. reporting' \in Reportings
      <4>1. t \in Tokens  BY <1>16, <1>f DEF PutBack, At, Fits, TokenSteps
      <4> QED  BY <4>1, <3>1, <1>0, <1>d, ReportingChanges
    <3>3. Reports(p)
      BY <2>1, <1>16, Goes DEF PutBack, At, ReportSteps, TokenSteps, OwnSteps
    <3> QED  BY <3>2, <3>3, <1>16 DEF PutBack, At, SameProduct, ReportSteps
  <2>2. CASE ~(reporting.backup[t] # None /\ Free(reporting.final))
    <3>1. Refuse(p) /\ UNCHANGED reporting  BY <2>2, <1>16 DEF PutBack
    <3> QED  BY <3>1, <1>0, <1>16, Refuses DEF PutBack, At, SameProduct, ReportSteps
  <2> QED  BY <2>1, <2>2
<1>17. CASE Undo(p)
  <2>1. Reports(p)  BY <1>17, Goes, Ends DEF Undo, At, ReportSteps, TokenSteps, OwnSteps
  <2> QED  BY <2>1, <1>17, <1>0 DEF Undo, At, SameReport, ReportSteps
<1>18. CASE Wipe(p)
  <2>1. reporting' \in Reportings  BY <1>18, <1>d, ReportingChanges DEF Wipe
  <2>2. Reports(p)  BY <1>18, Goes DEF Wipe, At, ReportSteps, TokenSteps, OwnSteps
  <2> QED  BY <2>1, <2>2, <1>18 DEF Wipe, At, SameProduct, ReportSteps
<1>19. CASE WipeBackup(p)
  <2>1. reporting' \in Reportings  BY <1>19, <1>d, ReportingChanges DEF WipeBackup
  <2>2. Reports(p)  BY <1>19, Goes DEF WipeBackup, At, ReportSteps, TokenSteps, OwnSteps
  <2> QED  BY <2>1, <2>2, <1>19 DEF WipeBackup, At, SameProduct, ReportSteps
<1> QED  BY <1>1, <1>2, <1>3, <1>4, <1>5, <1>6, <1>7, <1>8, <1>9, <1>10, <1>11, <1>12,
            <1>13, <1>14, <1>15, <1>16, <1>17, <1>18, <1>19 DEF ReportAction

\* A step of a role that may report keeps the invariant: the product is decided.
LEMMA ReportKeeps ==
  ASSUME IInv, NEW p \in Procs, Reports(p), product.auth # None,
         product' = product, reporting' \in Reportings
  PROVE  IInv'
<1>1. PICK c \in Calls : /\ role' = [role EXCEPT ![p] = c] /\ Fits(c)
                         /\ c.at \in ReportSteps \cup {"idle"}
  BY DEF Reports
<1>2. /\ role \in [Procs -> Calls] /\ role'[p] = c
      /\ \A q \in Procs \ {p} : role'[q] = role[q]
  BY <1>1 DEF IInv, TypeOK
<1>3. c.at \notin {"record", "review", "authorize"}  BY <1>1 DEF ReportSteps
<1>4. TypeOK'  BY <1>1, <1>2, <1>3 DEF IInv, TypeOK
<1>5. JudgedStands'  BY <1>2, <1>3 DEF IInv, JudgedStands
<1>6. AuthorizedStands' /\ ReportersAreAuthorized' /\ NothingEarly'
  BY DEF IInv, AuthorizedStands, ReportersAreAuthorized, NothingEarly
<1> QED  BY <1>4, <1>5, <1>6 DEF IInv

\* Whatever a cut leaves is a directory.
LEMMA TornIsReporting ==
  ASSUME TypeOK, NEW p \in Procs, reporting' \in {reporting} \cup Torn(p)
  PROVE  reporting' \in Reportings
<1> DEFINE r == role[p]
<1>0. /\ reporting \in Reportings /\ reporting.final \in Dirs /\ r \in Calls
      /\ reporting.staging \in [Tokens -> Dirs] /\ reporting.backup \in [Tokens -> Dirs]
  BY DEF TypeOK, Reportings
<1>1. ASSUME NEW d \in Dirs, d # None PROVE SUBSET d \subseteq Dirs
  BY <1>1 DEF Dirs
<1>2. (Staged \in Dirs /\ Staged # None) \/ Staged = None
  BY <1>0 DEF Staged, Content, Dirs, Triplet
<1>3. r.at \in {"dropStaging", "dropBackup", "wipeBackup"} => r.token \in Tokens
  BY DEF TypeOK, Fits, TokenSteps
<1>4. ASSUME reporting' \in Torn(p) PROVE reporting' \in Reportings
  <2>1. CASE r.at = "gather" /\ reporting.final = None
    <3>1. {} \in Dirs /\ {"temp"} \in Dirs  BY DEF Dirs
    <3> QED  BY <2>1, <3>1, <1>4, ReportingChanges DEF Torn
  <2>2. CASE r.at = "stage"
    <3>1. PICK s \in Dirs : reporting' = [reporting EXCEPT !.staging[r.mine] = s]
      BY <2>2, <1>1, <1>2, <1>4 DEF Torn
    <3> QED  BY <3>1, ReportingChanges
  <2>3. CASE r.at = "dropStaging"
    <3>1. reporting.staging[r.token] \in Dirs  BY <2>3, <1>0, <1>3
    <3>2. PICK s \in Dirs : reporting' = [reporting EXCEPT !.staging[r.token] = s]
      BY <2>3, <3>1, <1>1, <1>4 DEF Torn
    <3> QED  BY <3>2, ReportingChanges
  <2>4. CASE r.at \in {"dropBackup", "wipeBackup"}
    <3>1. reporting.backup[r.token] \in Dirs  BY <2>4, <1>0, <1>3
    <3>2. PICK s \in Dirs : reporting' = [reporting EXCEPT !.backup[r.token] = s]
      BY <2>4, <3>1, <1>1, <1>4 DEF Torn
    <3> QED  BY <3>2, ReportingChanges
  <2>5. CASE r.at = "wipe"
    <3>1. PICK s \in Dirs : reporting' = [reporting EXCEPT !.final = s]
      BY <2>5, <1>0, <1>1, <1>4 DEF Torn
    <3> QED  BY <3>1, ReportingChanges
  <2>6. r.at \in {"stage", "dropStaging", "dropBackup", "wipeBackup", "wipe"}
        \/ (r.at = "gather" /\ reporting.final = None)
    BY <1>4 DEF Torn
  <2> QED  BY <2>1, <2>2, <2>3, <2>4, <2>5, <2>6
<1> QED  BY <1>0, <1>4

LEMMA TornAreAuthorized ==
  ASSUME IInv, NEW p \in Procs, Torn(p) # {}
  PROVE  product.auth # None
BY DEF Torn, IInv, ReportersAreAuthorized, ReportSteps

\* A step that keeps product and report, and sends a role where it may be.
LEMMA RoleKeeps ==
  ASSUME IInv, NEW p \in Procs, NEW c \in Calls, role' = [role EXCEPT ![p] = c], Fits(c),
         UNCHANGED <<product, reporting>>,
         c.at \in {"record", "review", "authorize"} => role[p].at = c.at /\ role[p].seen = c.seen,
         c.at \in ReportSteps \/ c.then # "load" => product.auth # None
  PROVE  IInv'
<1>1. /\ role \in [Procs -> Calls] /\ role'[p] = c
      /\ \A q \in Procs \ {p} : role'[q] = role[q]
  BY DEF IInv, TypeOK
<1>2. TypeOK'  BY <1>1 DEF IInv, TypeOK
<1>3. JudgedStands'  BY <1>1 DEF IInv, JudgedStands
<1>4. ReportersAreAuthorized'  BY <1>1 DEF IInv, ReportersAreAuthorized
<1>5. AuthorizedStands' /\ NothingEarly'  BY DEF IInv, AuthorizedStands, NothingEarly
<1> QED  BY <1>2, <1>3, <1>4, <1>5 DEF IInv

LEMMA OfferedReport == Offer = "report" => product.auth # None
BY DEF Offer

LEMMA DispatchKeeps ==
  ASSUME IInv, NEW p \in Procs, Dispatch(p)
  PROVE  IInv'
<1> DEFINE c == Call(Offer, FirstStep[Offer])
<1>1. Offer \in {"build", "review", "publish", "report"}  BY DEF Dispatch, Offer
<1>2. /\ FirstStep[Offer] \in {"assemble", "inspect", "judge", "gather"}
      /\ FirstStep[Offer] = "gather" => Offer = "report"
  BY <1>1 DEF FirstStep
<1>3. /\ c \in Calls /\ c.at = FirstStep[Offer] /\ c.then = "load"
  BY <1>1, <1>2 DEF Call, Calls, Dirs, ProductSteps, ReportSteps
<1>4. role' = [role EXCEPT ![p] = c] /\ UNCHANGED <<product, reporting>>
  BY DEF Dispatch, SameReport
<1> HIDE DEF c
<1>5. Fits(c)  BY <1>2, <1>3 DEF Fits, TokenSteps, OwnSteps
<1> QED  BY <1>2, <1>3, <1>4, <1>5, OfferedReport, RoleKeeps DEF ReportSteps

LEMMA KillKeeps ==
  ASSUME IInv, NEW p \in Procs, Kill(p)
  PROVE  IInv'
<1>1. End(p) /\ product' = product  BY DEF Kill, Mishap
<1>2. reporting' \in Reportings  BY TornIsReporting DEF Kill, IInv
<1>3. CASE reporting' = reporting
  BY <1>1, <1>3, IdleCall, RoleKeeps DEF End, ReportSteps
<1>4. CASE reporting' \in Torn(p)
  <2>1. product.auth # None  BY <1>4, TornAreAuthorized
  <2>2. Reports(p)  BY <1>1, Ends DEF IInv
  <2> QED  BY <1>1, <1>2, <2>1, <2>2, ReportKeeps
<1> QED  BY <1>3, <1>4 DEF Kill

LEMMA FailsKeeps ==
  ASSUME IInv, NEW p \in Procs, Fails(p)
  PROVE  IInv'
<1>1. Refuse(p) /\ Publishing(p) /\ product' = product  BY DEF Fails, Mishap
<1>2. reporting' \in Reportings  BY TornIsReporting DEF Fails, IInv
<1>3. product.auth # None  BY <1>1 DEF Publishing, IInv, ReportersAreAuthorized
<1>4. Reports(p)  BY <1>1, Refuses DEF IInv
<1> QED  BY <1>1, <1>2, <1>3, <1>4, ReportKeeps

LEMMA LoseKeeps ==
  ASSUME IInv, NEW p \in Procs, LoseCoordinator(p)
  PROVE  IInv'
<1> DEFINE c == [role[p] EXCEPT !.orphan = TRUE]
<1>1. role[p] \in Calls /\ role \in [Procs -> Calls] /\ Fits(role[p])
  BY DEF IInv, TypeOK
<1>2. role' = [role EXCEPT ![p] = c] /\ UNCHANGED <<product, reporting>>
  BY <1>1 DEF LoseCoordinator, Mishap
<1>3. /\ c \in Calls /\ c.at = role[p].at /\ c.then = role[p].then /\ c.seen = role[p].seen
      /\ c.mine = role[p].mine /\ c.token = role[p].token
  BY <1>1 DEF Calls
<1> HIDE DEF c
<1>4. Fits(c)  BY <1>1, <1>3 DEF Fits
<1>5. role[p].at \in ReportSteps \/ role[p].then # "load" => product.auth # None
  BY DEF IInv, ReportersAreAuthorized
<1> QED  BY <1>2, <1>3, <1>4, <1>5, RoleKeeps

LEMMA Keeps ==
  ASSUME Tokens \subseteq Nat, IInv, [Next]_vars
  PROVE  IInv'
<1>1. CASE UNCHANGED vars
  BY <1>1 DEF vars, IInv, TypeOK, JudgedStands, AuthorizedStands, ReportersAreAuthorized, NothingEarly
<1>2. ASSUME NEW p \in Procs, Dispatch(p) PROVE IInv'
  BY <1>2, DispatchKeeps
<1>3. ASSUME NEW p \in Procs, Proceed(p) PROVE IInv'
  <2>1. CASE ProductAction(p)
    BY <2>1, ProductStep, ProductKeeps DEF IInv
  <2>2. CASE ReportAction(p)
    <3>1. /\ Reports(p) /\ role[p].at \in ReportSteps
          /\ product' = product /\ reporting' \in Reportings
      BY <2>2, ReportStep DEF IInv
    <3>2. product.auth # None  BY <3>1 DEF IInv, ReportersAreAuthorized
    <3> QED  BY <3>1, <3>2, ReportKeeps
  <2> QED  BY <1>3, <2>1, <2>2 DEF Proceed, ProductAction, ReportAction
<1>4. ASSUME NEW p \in Procs, Kill(p) PROVE IInv'
  BY <1>4, KillKeeps
<1>5. ASSUME NEW p \in Procs, Fails(p) PROVE IInv'
  BY <1>5, FailsKeeps
<1>6. ASSUME NEW p \in Procs, LoseCoordinator(p) PROVE IInv'
  BY <1>6, LoseKeeps
<1> QED  BY <1>1, <1>2, <1>3, <1>4, <1>5, <1>6 DEF Next

-----------------------------------------------------------------------------
(* The theorems. *)

\* Product, report directory and roles are always of their types, and a role
\* works on a transaction only where its step needs one (RunReportFinalizer).
THEOREM TypeCorrect == ASSUME Tokens \subseteq Nat PROVE Spec => []TypeOK
<1>1. IInv => TypeOK  BY DEF IInv
<1> QED  BY Start, Keeps, <1>1, PTL DEF Spec

\* A report is only ever there for the product that was reviewed, accepted and
\* authorized, however many roles of lost coordinators, kills and failed
\* publications there are (ProductReviewStore, RunReportFinalizer).
THEOREM Vouched == ASSUME Tokens \subseteq Nat PROVE Spec => []ReportIsVouched
<1>1. IInv => ReportIsVouched
  BY DEF IInv, AuthorizedStands, NothingEarly, ReportIsVouched, Some
<1> QED  BY Start, Keeps, <1>1, PTL DEF Spec

\* A role that reports does so for an authorized product (the role the Planner
\* offers, requirement_planning.py).
THEOREM OnlyAuthorizedReports ==
  ASSUME Tokens \subseteq Nat
  PROVE  Spec => []ReportersAreAuthorized
<1>1. IInv => ReportersAreAuthorized  BY DEF IInv
<1> QED  BY Start, Keeps, <1>1, PTL DEF Spec
=============================================================================
