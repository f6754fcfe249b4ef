--------------------------- MODULE PlannedRunProofs ---------------------------
(* What a decided requirement stands on, for any plan, number of            *)
(* requirements and domains, and capacity: theorems about PlannedRun.       *)
EXTENDS PlannedRun, FiniteSetTheorems, WellFoundedInduction, TLAPS

\* One role writes in a requirement.
OneWriter ==
  \A a, b \in roles : a.act \in MutatingActs /\ b.act \in MutatingActs /\ a.on = b.on => a = b

\* Every identity the requirement asked for is there, reserved for it too.
Served(r) == \A d \in item[r].wants : domain[d].state = "ready" /\ r \in domain[d].by

\* The role that publishes a verdict was admitted when every identity was there.
PublishesResolved ==
  \A r \in Requirements : Working({"finalize_requirement_review"}, r) => Served(r)
DecidedServed == \A r \in Requirements : Decided(r) => Served(r)

\* A domain is under way when somebody asked for it, and only then.
AskedIsOpen == \A d \in Domains : domain[d].state = "none" <=> domain[d].by = {}

\* Only what is decided is integrated.
IntegratesDecided == \A r \in Requirements : item[r].integ = "committed" => Decided(r)

IInv == /\ TypeOK /\ OneWriter /\ AskedIsOpen
        /\ PublishesResolved /\ IntegratesDecided /\ DecidedServed

\* What a step does to the domains: one that is ready stays so, nobody's request
\* is forgotten, and a domain is begun when it is asked for.
Onward(dom, new) == \A d \in Domains :
  /\ dom[d].state = "ready" => new[d].state = "ready"
  /\ dom[d].by \subseteq new[d].by
  /\ new[d].state = "none" => dom[d].state = "none" /\ new[d].by = dom[d].by
  /\ new[d].state # "none" => dom[d].state # "none" \/ new[d].by # {}

-----------------------------------------------------------------------------
(* The fields of a record that a step changes keep their types. *)

LEMMA ItemChanged ==
  ASSUME NEW i \in [Requirements -> ItemType], NEW r \in Requirements, NEW e \in ItemType
  PROVE  [i EXCEPT ![r] = e] \in [Requirements -> ItemType]
  OBVIOUS

LEMMA DomainChanged ==
  ASSUME NEW f \in [Domains -> DomainType], NEW d \in Domains, NEW e \in DomainType
  PROVE  [f EXCEPT ![d] = e] \in [Domains -> DomainType]
  OBVIOUS

LEMMA AttemptEnded ==
  ASSUME NEW e \in ItemType, NEW n \in Nat
  PROVE  [e EXCEPT !.attempt = FALSE, !.done = n] \in ItemType
  BY DEF ItemType

LEMMA RepairUsed ==
  ASSUME NEW e \in ItemType, NEW n \in Nat
  PROVE  [e EXCEPT !.verdict = None, !.repair = TRUE, !.repairs = n] \in ItemType
  BY DEF ItemType

\* The queries and steps of roles leave the plan alone.
LEMMA ItemSteps ==
  ASSUME TypeOK, NEW r \in Requirements,
         \/ \E d \in Domains : Propose(r, d)
         \/ BeginAttempt(r) \/ FinishAttempt(r) \/ UseRepair(r)
         \/ Review(r) \/ Finalize(r) \/ Integrate(r)
  PROVE  item' \in [Requirements -> ItemType]
<1>0. item \in [Requirements -> ItemType] /\ item[r] \in ItemType
  BY DEF TypeOK
<1> DEFINE i == item[r]
<1>1. CASE \E d \in Domains : Propose(r, d)
  <2>1. PICK d \in Domains : Propose(r, d)  BY <1>1
  <2>2. item' = [item EXCEPT ![r] = [i EXCEPT !.wants = @ \cup {d}]]
    BY <2>1, <1>0 DEF Propose
  <2>3. [i EXCEPT !.wants = @ \cup {d}] \in ItemType  BY <1>0 DEF ItemType
  <2> QED  BY <2>2, <2>3, <1>0, ItemChanged
<1>2. CASE BeginAttempt(r)
  <2>2. item' = [item EXCEPT ![r] = [i EXCEPT !.attempt = TRUE, !.tried = TRUE]]
    BY <1>2, <1>0 DEF BeginAttempt
  <2>3. [i EXCEPT !.attempt = TRUE, !.tried = TRUE] \in ItemType  BY <1>0 DEF ItemType
  <2> QED  BY <2>2, <2>3, <1>0, ItemChanged
<1>3. CASE FinishAttempt(r)
  <2>2. \/ item' = [item EXCEPT ![r] = [i EXCEPT !.attempt = FALSE, !.done = @ + 1]]
        \/ item' = [item EXCEPT ![r] = [i EXCEPT !.attempt = FALSE]]
    BY <1>3, <1>0 DEF FinishAttempt
  <2>3. [i EXCEPT !.attempt = FALSE, !.done = @ + 1] \in ItemType
    <3>1. i \in ItemType /\ i.done + 1 \in Nat  BY <1>0 DEF ItemType
    <3> QED  BY <3>1, AttemptEnded
  <2>4. [i EXCEPT !.attempt = FALSE] \in ItemType  BY <1>0 DEF ItemType
  <2> QED  BY <2>2, <2>3, <2>4, <1>0, ItemChanged
<1>4. CASE UseRepair(r)
  <2>2. item' = [item EXCEPT ![r] =
          [i EXCEPT !.verdict = None, !.repair = TRUE, !.repairs = @ + 1]]
    BY <1>4, <1>0 DEF UseRepair
  <2>3. [i EXCEPT !.verdict = None, !.repair = TRUE, !.repairs = @ + 1] \in ItemType
    <3>1. i \in ItemType /\ i.repairs + 1 \in Nat  BY <1>0 DEF ItemType
    <3> QED  BY <3>1, RepairUsed
  <2> QED  BY <2>2, <2>3, <1>0, ItemChanged
<1>5. CASE Review(r)
  <2>1. PICK v \in {"accept", "repair_once", "confirm_data_insufficiency"} :
          item' = [item EXCEPT ![r] = [i EXCEPT !.verdict = v, !.repair = FALSE]]
    BY <1>5, <1>0 DEF Review
  <2>2. [i EXCEPT !.verdict = v, !.repair = FALSE] \in ItemType  BY <1>0 DEF ItemType
  <2> QED  BY <2>1, <2>2, <1>0, ItemChanged
<1>6. CASE Finalize(r)
  <2>1. PICK o \in {"accepted", "blocked_by_evidence"} :
          item' = [item EXCEPT ![r] = [i EXCEPT !.outcome = o]]
    BY <1>6, <1>0 DEF Finalize
  <2>2. [i EXCEPT !.outcome = o] \in ItemType  BY <1>0 DEF ItemType
  <2> QED  BY <2>1, <2>2, <1>0, ItemChanged
<1>7. CASE Integrate(r)
  <2>1. PICK to \in Next_integ[i.integ] : item' = [item EXCEPT ![r] = [i EXCEPT !.integ = to]]
    BY <1>7, <1>0 DEF Integrate
  <2>2. i.integ \in {"not_started", "staged", "repair_once", "awaiting", "accept"}
    BY <1>7, <1>0 DEF Integrate, ItemType
  <2>3. to \in {"staged", "accept", "repair_once", "awaiting", "committed"}
    BY <2>1, <2>2 DEF Next_integ
  <2>4. [i EXCEPT !.integ = to] \in ItemType  BY <2>3, <1>0 DEF ItemType
  <2> QED  BY <2>1, <2>4, <1>0, ItemChanged
<1> QED  BY <1>1, <1>2, <1>3, <1>4, <1>5, <1>6, <1>7

\* What a query reserves keeps its type. It adds the requests admitted, leaves a
\* lane with its resolver and fails nobody.
LEMMA ReservedType ==
  ASSUME TypeOK
  PROVE  /\ Reserved \in [Domains -> DomainType]
         /\ Onward(domain, Reserved)
         /\ \A d \in Domains :
              /\ \A r \in Requirements : Admitted(r) /\ d \in item[r].wants => r \in Reserved[d].by
              /\ Reserved[d].lease = domain[d].lease
              /\ Reserved[d].state = "failed" => domain[d].state = "failed"
<1> SUFFICES ASSUME NEW d \in Domains
             PROVE  /\ Reserved[d] \in DomainType
                    /\ domain[d].state = "ready" => Reserved[d].state = "ready"
                    /\ domain[d].by \subseteq Reserved[d].by
                    /\ Reserved[d].state = "none" =>
                         domain[d].state = "none" /\ Reserved[d].by = domain[d].by
                    /\ Reserved[d].state # "none" =>
                         domain[d].state # "none" \/ Reserved[d].by # {}
                    /\ \A r \in Requirements :
                         Admitted(r) /\ d \in item[r].wants => r \in Reserved[d].by
                    /\ Reserved[d].lease = domain[d].lease
                    /\ Reserved[d].state = "failed" => domain[d].state = "failed"
  BY DEF Reserved, Onward
<1> DEFINE old == domain[d]
           new == {r \in Requirements : Admitted(r) /\ d \in item[r].wants} \ domain[d].by
<1>1. old \in DomainType /\ new \subseteq Requirements  BY DEF TypeOK
<1>2. PICK st \in {old.state, "reserved", "resolving"}, ac \in BOOLEAN :
        /\ Reserved[d] = [old EXCEPT !.by = old.by \cup new, !.state = st, !.accepted = ac]
        /\ old.state = "ready" => st = "ready"
        /\ st = "none" => old.state = "none" /\ new = {}
        /\ st # "none" => old.state # "none" \/ new # {}
        /\ st = "failed" => old.state = "failed"
  <2> DEFINE widened == old.by # {} /\ new \cap plan.widens # {} /\ old.state = "review_pending"
             st == IF old.state = "none" /\ new # {} THEN "reserved"
                   ELSE IF widened THEN "resolving" ELSE old.state
             ac == old.accepted /\ ~widened
  <2>1. Reserved[d] = [old EXCEPT !.by = old.by \cup new, !.state = st, !.accepted = ac]
    BY DEF Reserved
  <2>2. st \in {old.state, "reserved", "resolving"}  OBVIOUS
  <2>3. ac \in BOOLEAN  BY <1>1 DEF DomainType
  <2>4. /\ old.state = "ready" => st = "ready"
        /\ st = "none" => old.state = "none" /\ new = {}
        /\ st # "none" => old.state # "none" \/ new # {}
        /\ st = "failed" => old.state = "failed"
    OBVIOUS
  <2> QED  BY <2>1, <2>2, <2>3, <2>4
<1>3. old.by \cup new \in SUBSET Requirements  BY <1>1 DEF DomainType
<1>4. st \in {"none", "reserved", "resolving", "review_pending", "repair", "ready", "failed"}
  BY <1>1, <1>2 DEF DomainType
<1>9. \A r \in Requirements : Admitted(r) /\ d \in item[r].wants => r \in old.by \cup new
  OBVIOUS
<1> HIDE DEF old, new
<1>5. Reserved[d] \in DomainType  BY <1>1, <1>2, <1>3, <1>4 DEF DomainType
<1>6. Reserved[d].state = st /\ Reserved[d].by = old.by \cup new /\ Reserved[d].lease = old.lease
  BY <1>1, <1>2 DEF DomainType
<1>7. /\ old.state = "ready" => Reserved[d].state = "ready"
      /\ Reserved[d].state = "none" => old.state = "none" /\ Reserved[d].by = old.by
      /\ Reserved[d].state # "none" => old.state # "none" \/ Reserved[d].by # {}
      /\ Reserved[d].state = "failed" => old.state = "failed"
  BY <1>2, <1>6
<1> QED  BY <1>5, <1>6, <1>7, <1>9 DEF old

DomainStep(d) == Claim(d) \/ Submit(d) \/ GiveUp(d) \/ JudgeIdentity(d) \/ CommitIdentity(d)

\* A resolver's and a reviewer's step keeps the type of a domain, and none takes
\* one back that is ready.
LEMMA DomainSteps ==
  ASSUME TypeOK, NEW d \in Domains, DomainStep(d)
  PROVE  domain' \in [Domains -> DomainType] /\ Onward(domain, domain')
<1> DEFINE o == domain[d]
           Fit(e) == /\ e.by = o.by
                     /\ o.state = "ready" => e.state = "ready"
                     /\ e.state = "none" <=> o.state = "none"
<1>0. domain \in [Domains -> DomainType] /\ o \in DomainType  BY DEF TypeOK
<1>1. CASE UNCHANGED domain  BY <1>0, <1>1 DEF Onward
<1>2. CASE ~UNCHANGED domain
  <2>1. \E e \in DomainType : domain' = [domain EXCEPT ![d] = e] /\ Fit(e)
    <3>1. CASE Claim(d)
      <4>1. PICK st \in {"resolving", o.state} :
              domain' = [domain EXCEPT ![d] = [o EXCEPT !.lease = TRUE, !.state = st]]
        BY <3>1, <1>0 DEF Claim
      <4>2. o.state \notin {"ready", "none"}  BY <3>1 DEF Claim
      <4>3. LET e == [o EXCEPT !.lease = TRUE, !.state = st] IN e \in DomainType /\ Fit(e)
        BY <4>2, <1>0 DEF DomainType
      <4> QED  BY <4>1, <4>3
    <3>2. CASE Submit(d)
      <4>1. domain' = [domain EXCEPT ![d] = [o EXCEPT !.lease = FALSE, !.state = "review_pending"]]
        BY <3>2, <1>0 DEF Submit
      <4>2. o.state \notin {"ready", "none"}  BY <3>2 DEF Submit
      <4>3. LET e == [o EXCEPT !.lease = FALSE, !.state = "review_pending"]
            IN  e \in DomainType /\ Fit(e)
        BY <4>2, <1>0 DEF DomainType
      <4> QED  BY <4>1, <4>3
    <3>3. CASE GiveUp(d)
      <4>1. PICK st \in {"reserved", o.state} :
              /\ domain' = [domain EXCEPT ![d] = [o EXCEPT !.lease = FALSE, !.state = st]]
              /\ o.state # "resolving" => st = o.state
        BY <3>3, <1>0, <1>2 DEF GiveUp
      <4>2. LET e == [o EXCEPT !.lease = FALSE, !.state = st] IN e \in DomainType /\ Fit(e)
        BY <4>1, <1>0 DEF DomainType
      <4> QED  BY <4>1, <4>2
    <3>4. CASE JudgeIdentity(d)
      <4>1. \/ domain' = [domain EXCEPT ![d] = [o EXCEPT !.accepted = TRUE]]
            \/ domain' = [domain EXCEPT ![d] =
                 [o EXCEPT !.state = "repair", !.accepted = FALSE, !.repaired = TRUE]]
            \/ domain' = [domain EXCEPT ![d] = [o EXCEPT !.state = "failed", !.accepted = FALSE]]
        BY <3>4, <1>0 DEF JudgeIdentity
      <4>2. o.state = "review_pending"  BY <3>4 DEF JudgeIdentity
      <4>3. LET e == [o EXCEPT !.accepted = TRUE] IN e \in DomainType /\ Fit(e)
        BY <4>2, <1>0 DEF DomainType
      <4>4. LET e == [o EXCEPT !.state = "repair", !.accepted = FALSE, !.repaired = TRUE]
            IN  e \in DomainType /\ Fit(e)
        BY <4>2, <1>0 DEF DomainType
      <4>5. LET e == [o EXCEPT !.state = "failed", !.accepted = FALSE] IN e \in DomainType /\ Fit(e)
        BY <4>2, <1>0 DEF DomainType
      <4> QED  BY <4>1, <4>3, <4>4, <4>5
    <3>5. CASE CommitIdentity(d)
      <4>1. domain' = [domain EXCEPT ![d] = [o EXCEPT !.state = "ready", !.accepted = FALSE]]
        BY <3>5, <1>0 DEF CommitIdentity
      <4>2. o.state = "review_pending"  BY <3>5 DEF CommitIdentity
      <4>3. LET e == [o EXCEPT !.state = "ready", !.accepted = FALSE] IN e \in DomainType /\ Fit(e)
        BY <4>2, <1>0 DEF DomainType
      <4> QED  BY <4>1, <4>3
    <3> QED  BY <3>1, <3>2, <3>3, <3>4, <3>5 DEF DomainStep
  <2>2. PICK e \in DomainType : domain' = [domain EXCEPT ![d] = e] /\ Fit(e)  BY <2>1
  <2>3. domain' \in [Domains -> DomainType]  BY <2>2, <1>0, DomainChanged
  <2> QED  BY <2>2, <2>3, <1>0 DEF Onward
<1> QED  BY <1>1, <1>2

-----------------------------------------------------------------------------
(* What is offered. *)

Publishing == "finalize_requirement_review"

\* Every offer is an action of the run; the publication of a verdict is offered
\* for a requirement that is not decided and does not wait, by a query that
\* refused no request.
LEMMA OffersAreActions ==
  ASSUME TypeOK, NEW dom \in [Domains -> DomainType], NEW w, NEW a \in OffersFor(dom, w)
  PROVE  /\ a \in Actions
         /\ a.act = Publishing =>
              a.on \in Requirements /\ ~Refusing /\ ~Decided(a.on) /\ w[a.on] # "waiting"
<1>1. ~Refusing /\ a \in IdentityOffers(dom) \cup IntegrationOffers \cup ItemOffers(w) \cup FinalOffers
  BY DEF OffersFor
<1>2. CASE a \in IdentityOffers(dom)
  <2>1. PICK d \in Domains, act \in IdentityActs : a = Action(act, d)
    <3>1. Laned(dom) \subseteq Domains  BY DEF Laned, Seeking
    <3> QED  BY <1>2, <3>1 DEF IdentityOffers, IdentityActs, ResolverActs
  <2> QED  BY <2>1 DEF Action, Actions, IdentityActs, ResolverActs, Publishing
<1>3. CASE a \in IntegrationOffers
  <2>1. PICK r \in Requirements : a = Action(IntegrationAct[item[r].integ], r) /\ item[r].integ # "committed"
    BY <1>3 DEF IntegrationOffers
  <2>2. item[r].integ \in {"not_started", "staged", "repair_once", "awaiting", "accept"}
    BY <2>1 DEF TypeOK, ItemType
  <2>3. IntegrationAct[item[r].integ] \in MutatingActs \ {Publishing}
    BY <2>2 DEF IntegrationAct, MutatingActs, Publishing
  <2> QED  BY <2>1, <2>3 DEF Action, Actions
<1>4. CASE a \in ItemOffers(w)
  <2>1. PICK r \in Requirements : /\ a = Action(ItemAct(r, w), r) /\ ItemAct(r, w) # None
                                  /\ ~Decided(r) /\ w[r] # "waiting"
    BY <1>4 DEF ItemOffers
  <2>2. ItemAct(r, w) \in MutatingActs  BY <2>1 DEF ItemAct, MutatingActs, OwnerActs
  <2> QED  BY <1>1, <2>1, <2>2 DEF Action, Actions
<1>5. CASE a \in FinalOffers
  <2>1. a = Action(FinalAct[final], 0) /\ final # "report"  BY <1>5 DEF FinalOffers
  <2>2. final \in {"nothing", "candidate", "rejected", "accepted", "authorized", "preflight"}
    BY <2>1 DEF TypeOK
  <2>3. FinalAct[final] \in FinalActs \ {Publishing}  BY <2>2 DEF FinalAct, FinalActs, Publishing
  <2> QED  BY <2>1, <2>3 DEF Action, Actions
<1> QED  BY <1>1, <1>2, <1>3, <1>4, <1>5

\* A query that refuses nothing admits what the undecided ask for.
LEMMA UndecidedAdmitted ==
  ASSUME IntegratesDecided, ~Refusing, NEW r \in Requirements, ~Decided(r)
  PROVE  Admitted(r)
<1>1. ~Closed(r)  BY PlannedAssumption DEF IntegratesDecided, Decided, Closed
<1>2. \A q \in 1 .. r : q \in Requirements
  BY PlannedAssumption DEF Requirements
<1> QED  BY <1>1, <1>2 DEF Admitted, Refusing

\* A query whose wait of an undecided requirement is over found all its domains
\* ready, and reserved for it.
LEMMA OverIsReady ==
  ASSUME TypeOK, IntegratesDecided, ~Refusing, NEW r \in Requirements, ~Decided(r),
         Waits[r] # "waiting"
  PROVE  \A d \in item[r].wants : Reserved[d].state = "ready" /\ r \in Reserved[d].by
<1>1. Admitted(r)  BY UndecidedAdmitted
<1>2. item[r].wants \subseteq Domains  BY DEF TypeOK, ItemType
<1>3. \A d \in item[r].wants : Reserved[d].state = "ready"  BY <1>1 DEF Waits
<1>4. \A d \in item[r].wants : r \in Reserved[d].by  BY <1>1, <1>2, ReservedType
<1> QED  BY <1>3, <1>4

LEMMA WaitsType ==
  ASSUME TypeOK
  PROVE  Waits \in [Requirements -> {"none", "waiting", "ready"}]
  BY DEF Waits, TypeOK

-----------------------------------------------------------------------------
(* The steps preserve the invariant. *)

\* What is served stays served while the domains go onward.
LEMMA OnwardKeeps ==
  ASSUME TypeOK, IntegratesDecided, DecidedServed, AskedIsOpen,
         UNCHANGED <<plan, item>>, Onward(domain, domain')
  PROVE  /\ IntegratesDecided' /\ DecidedServed' /\ AskedIsOpen'
         /\ \A r \in Requirements : Served(r) => Served(r)'
<1>1. AskedIsOpen'  BY DEF AskedIsOpen, Onward
<1>2. \A r \in Requirements : Served(r) => Served(r)'  BY DEF Served, Onward, TypeOK, ItemType
<1>3. IntegratesDecided'  BY DEF IntegratesDecided, Decided
<1>4. DecidedServed'  BY <1>2 DEF DecidedServed, Decided
<1> QED  BY <1>1, <1>2, <1>3, <1>4

LEMMA QueryStep ==
  ASSUME IInv, Query
  PROVE  IInv'
<1> USE DEF IInv
<1>0. UNCHANGED <<plan, item, final, mishaps>> /\ domain' = Reserved /\ wait' = Waits
  BY DEF Query
<1>1. domain' \in [Domains -> DomainType] /\ Onward(domain, domain')
  BY <1>0, ReservedType
<1>2. \/ roles' = roles
      \/ \E a \in OffersFor(domain', wait') : Admits(a) /\ roles' = roles \cup {a}
  BY DEF Query
<1>3. wait' \in [Requirements -> {"none", "waiting", "ready"}]  BY <1>0, WaitsType
<1>4. /\ IntegratesDecided' /\ DecidedServed' /\ AskedIsOpen'
      /\ \A r \in Requirements : Served(r) => Served(r)'
  BY <1>0, <1>1, OnwardKeeps
<1>5. CASE roles' = roles
  <2>1. TypeOK'  BY <1>0, <1>1, <1>3, <1>5 DEF TypeOK
  <2>2. OneWriter'  BY <1>5 DEF OneWriter
  <2>3. PublishesResolved'  BY <1>4, <1>5 DEF PublishesResolved, Working
  <2> QED  BY <1>4, <2>1, <2>2, <2>3
<1>6. ASSUME NEW a \in OffersFor(domain', wait'), Admits(a), roles' = roles \cup {a}
      PROVE  IInv'
  <2>1. /\ a \in Actions
        /\ a.act = Publishing =>
             a.on \in Requirements /\ ~Refusing /\ ~Decided(a.on) /\ wait'[a.on] # "waiting"
    BY <1>1, <1>6, OffersAreActions
  <2>2. TypeOK'  BY <1>0, <1>1, <1>3, <1>6, <2>1 DEF TypeOK
  <2>3. OneWriter'  BY <1>6 DEF OneWriter, Admits
  <2>4. PublishesResolved'
    <3> SUFFICES ASSUME NEW r \in Requirements, Working({Publishing}, r)'
                 PROVE  Served(r)'
      BY DEF PublishesResolved, Publishing
    <3>1. CASE Working({Publishing}, r)
      <4>1. Served(r)  BY <3>1 DEF PublishesResolved, Publishing
      <4> QED  BY <4>1, <1>4
    <3>2. CASE ~Working({Publishing}, r)
      <4>1. a.act = Publishing /\ a.on = r  BY <1>6, <3>2 DEF Working
      <4>2. ~Refusing /\ ~Decided(r) /\ Waits[r] # "waiting"  BY <4>1, <2>1, <1>0
      <4>3. \A d \in item[r].wants : Reserved[d].state = "ready" /\ r \in Reserved[d].by
        BY <4>2, OverIsReady
      <4> QED  BY <4>3, <1>0 DEF Served
    <3> QED  BY <3>1, <3>2
  <2> QED  BY <1>4, <2>2, <2>3, <2>4
<1> QED  BY <1>2, <1>5, <1>6

\* A step that leaves the items alone, takes no domain back from ready and
\* starts no role.
LEMMA QuietStep ==
  ASSUME IInv, UNCHANGED <<plan, item>>, roles' \subseteq roles,
         wait' \in [Requirements -> {"none", "waiting", "ready"}],
         domain' \in [Domains -> DomainType], Onward(domain, domain'),
         final' \in {"nothing", "candidate", "rejected", "accepted", "authorized",
                     "preflight", "report"},
         mishaps' \in 0 .. MaxMishaps
  PROVE  IInv'
<1> USE DEF IInv
<1>1. TypeOK'  BY DEF TypeOK
<1>2. OneWriter'  BY DEF OneWriter
<1>4. /\ IntegratesDecided' /\ DecidedServed' /\ AskedIsOpen'
      /\ \A r \in Requirements : Served(r) => Served(r)'
  BY OnwardKeeps
<1>3. PublishesResolved'  BY <1>4 DEF PublishesResolved, Working
<1> QED  BY <1>1, <1>2, <1>3, <1>4

ItemStep(r) == \/ \E d \in Domains : Propose(r, d)
               \/ BeginAttempt(r) \/ FinishAttempt(r) \/ UseRepair(r)
               \/ Review(r) \/ Finalize(r) \/ Integrate(r)

\* The owner does not ask for another identity while its verdict is published.
LEMMA ItemStepKeeps ==
  ASSUME IInv, NEW r \in Requirements, ItemStep(r)
  PROVE  IInv'
<1> USE DEF IInv
<1>0. item \in [Requirements -> ItemType] /\ item' \in [Requirements -> ItemType]
  BY ItemSteps DEF ItemStep, TypeOK
<1>1. UNCHANGED <<plan, domain, wait, final>> /\ roles' \subseteq roles
      /\ mishaps' \in 0 .. MaxMishaps
  BY PlannedAssumption DEF ItemStep, Propose, BeginAttempt, FinishAttempt, UseRepair, Review,
     Finalize, Integrate, Leaves, Mishap, TypeOK
<1>2. \A q \in Requirements : q # r => item'[q] = item[q]
  BY <1>0 DEF ItemStep, Propose, BeginAttempt, FinishAttempt, UseRepair, Review,
     Finalize, Integrate
<1>3. TypeOK'  BY <1>0, <1>1 DEF TypeOK
<1>4. OneWriter'  BY <1>1 DEF OneWriter
<1>5. \/ item'[r].wants = item[r].wants
      \/ ~Decided(r) /\ item'[r].outcome = None /\ ~Working({Publishing}, r)
  <2>1. CASE \E d \in Domains : Propose(r, d)
    <3>1. ~Decided(r) /\ item'[r].outcome = item[r].outcome /\ Working(OwnerActs, r)
      BY <2>1, <1>0 DEF Propose, ItemType
    <3>2. ~Working({Publishing}, r)
      BY <3>1 DEF Working, OneWriter, OwnerActs, MutatingActs, Publishing
    <3> QED  BY <3>1, <3>2 DEF Decided
  <2>2. CASE BeginAttempt(r)  BY <2>2, <1>0 DEF BeginAttempt, ItemType
  <2>3. CASE FinishAttempt(r)  BY <2>3, <1>0 DEF FinishAttempt, ItemType
  <2>4. CASE UseRepair(r)  BY <2>4, <1>0 DEF UseRepair, ItemType
  <2>5. CASE Review(r)  BY <2>5, <1>0 DEF Review, ItemType
  <2>6. CASE Finalize(r)  BY <2>6, <1>0 DEF Finalize, ItemType
  <2>7. CASE Integrate(r)  BY <2>7, <1>0 DEF Integrate, ItemType
  <2> QED  BY <2>1, <2>2, <2>3, <2>4, <2>5, <2>6, <2>7 DEF ItemStep
<1>6. PublishesResolved'
  <2> SUFFICES ASSUME NEW q \in Requirements, Working({Publishing}, q)'
               PROVE  Served(q)'
    BY DEF PublishesResolved, Publishing
  <2>1. Working({Publishing}, q)  BY <1>1 DEF Working
  <2>2. item'[q].wants = item[q].wants  BY <2>1, <1>2, <1>5
  <2> QED  BY <2>1, <2>2, <1>1 DEF PublishesResolved, Publishing, Served
<1>7. DecidedServed'
  <2> SUFFICES ASSUME NEW q \in Requirements, item'[q].outcome # None
               PROVE  Served(q)'
    BY DEF DecidedServed, Decided
  <2>1. CASE Decided(q)
    <3>1. item'[q].wants = item[q].wants  BY <2>1, <1>2, <1>5
    <3> QED  BY <2>1, <3>1, <1>1 DEF DecidedServed, Served
  <2>2. CASE ~Decided(q)
    <3>1. q = r /\ item[r].outcome = None  BY <2>2, <1>2 DEF Decided
    <3>2. Finalize(r)
      <4>1. ~Integrate(r)  BY <3>1, PlannedAssumption DEF Integrate
      <4>2. CASE \E e \in Domains : Propose(r, e)  BY <4>2, <3>1, <1>0 DEF Propose, ItemType
      <4>3. CASE BeginAttempt(r)  BY <4>3, <3>1, <1>0 DEF BeginAttempt, ItemType
      <4>4. CASE FinishAttempt(r)  BY <4>4, <3>1, <1>0 DEF FinishAttempt, ItemType
      <4>5. CASE UseRepair(r)  BY <4>5, <3>1, <1>0 DEF UseRepair, ItemType
      <4>6. CASE Review(r)  BY <4>6, <3>1, <1>0 DEF Review, ItemType
      <4> QED  BY <4>1, <4>2, <4>3, <4>4, <4>5, <4>6 DEF ItemStep
    <3>3. Working({Publishing}, r)  BY <3>2 DEF Finalize, Publishing
    <3>4. item'[r].wants = item[r].wants  BY <3>3, <1>5
    <3> QED  BY <3>1, <3>3, <3>4, <1>1 DEF PublishesResolved, Publishing, Served
  <2> QED  BY <2>1, <2>2
<1>9. AskedIsOpen'  BY <1>1 DEF AskedIsOpen
<1>8. IntegratesDecided'
  <2> SUFFICES ASSUME NEW q \in Requirements, item'[q].integ = "committed"
               PROVE  item'[q].outcome # None
    BY DEF IntegratesDecided, Decided
  <2>1. CASE q # r  BY <2>1, <1>2 DEF IntegratesDecided, Decided
  <2>2. CASE q = r
    <3>1. CASE Integrate(r)
      <4>1. item[r].outcome = "accepted" /\ item'[r].outcome = item[r].outcome
        BY <3>1, <1>0 DEF Integrate, ItemType
      <4> QED  BY <2>2, <4>1, PlannedAssumption
    <3>2. CASE Finalize(r)
      <4>1. item'[r].outcome \in {"accepted", "blocked_by_evidence"}
        BY <3>2, <1>0 DEF Finalize, ItemType
      <4> QED  BY <2>2, <4>1, PlannedAssumption
    <3>3. CASE ~Integrate(r) /\ ~Finalize(r)
      <4>1. item'[r].integ = item[r].integ /\ item'[r].outcome = item[r].outcome
        BY <3>3, <1>0 DEF ItemStep, Propose, BeginAttempt, FinishAttempt, UseRepair, Review,
           ItemType
      <4> QED  BY <2>2, <4>1 DEF IntegratesDecided, Decided
    <3> QED  BY <3>1, <3>2, <3>3
  <2> QED  BY <2>1, <2>2
<1> QED  BY <1>3, <1>4, <1>6, <1>7, <1>8, <1>9

LEMMA InitKeeps == Init => IInv
<1> SUFFICES ASSUME Init PROVE IInv
  OBVIOUS
<1>1. item \in [Requirements -> ItemType]
  <2>1. [attempt |-> FALSE, tried |-> FALSE, done |-> 0, verdict |-> None,
         repair |-> FALSE, repairs |-> 0, wants |-> {}, outcome |-> None,
         integ |-> "not_started"] \in ItemType
    BY DEF ItemType
  <2> QED  BY <2>1 DEF Init
<1>2. domain \in [Domains -> DomainType]
  <2>1. [state |-> "none", lease |-> FALSE, accepted |-> FALSE,
         repaired |-> FALSE, by |-> {}] \in DomainType
    BY DEF DomainType
  <2> QED  BY <2>1 DEF Init
<1>3. TypeOK
  <2>1. wait \in [Requirements -> {"none", "waiting", "ready"}]  BY DEF Init
  <2>2. final = "nothing" /\ roles \subseteq Actions /\ plan \in Plans  BY DEF Init
  <2>3. mishaps \in 0 .. MaxMishaps  BY PlannedAssumption DEF Init
  <2> QED  BY <1>1, <1>2, <2>1, <2>2, <2>3 DEF TypeOK
<1>4. OneWriter /\ PublishesResolved  BY DEF Init, OneWriter, PublishesResolved, Working
<1>5. IntegratesDecided /\ DecidedServed /\ AskedIsOpen
  BY DEF Init, IntegratesDecided, DecidedServed, AskedIsOpen, Decided
<1> QED  BY <1>3, <1>4, <1>5 DEF IInv

LEMMA NextKeeps == IInv /\ [Next]_vars => IInv'
<1> SUFFICES ASSUME IInv, [Next]_vars PROVE IInv'
  OBVIOUS
<1>0. TypeOK  BY DEF IInv
<1>1. CASE Query  BY <1>1, QueryStep
<1>2. CASE \E r \in Requirements : ItemStep(r)  BY <1>2, ItemStepKeeps
<1>3. CASE \E d \in Domains : DomainStep(d)
  <2>1. PICK d \in Domains : DomainStep(d)  BY <1>3
  <2>2. domain' \in [Domains -> DomainType] /\ Onward(domain, domain')
    BY <1>0, <2>1, DomainSteps
  <2>3. UNCHANGED <<plan, item, wait, final>> /\ roles' \subseteq roles
        /\ mishaps' \in 0 .. MaxMishaps
    BY <1>0, <2>1, PlannedAssumption DEF DomainStep, Claim, Submit, GiveUp, JudgeIdentity,
       CommitIdentity, Leaves, Mishap, TypeOK
  <2> QED  BY <1>0, <2>2, <2>3, QuietStep DEF TypeOK
<1>4. CASE Conclude
  <2>1. UNCHANGED <<plan, item, wait, domain, mishaps>> /\ roles' \subseteq roles
    BY <1>4 DEF Conclude, Leaves
  <2>2. final' \in {"nothing", "candidate", "rejected", "accepted", "authorized",
                    "preflight", "report"}
    <3>1. final \in {"nothing", "candidate", "rejected", "accepted", "authorized", "preflight"}
      BY <1>0, <1>4 DEF TypeOK, Conclude
    <3> QED  BY <3>1, <1>4 DEF Conclude, Next_final
  <2>3. Onward(domain, domain')  BY <2>1 DEF Onward
  <2> QED  BY <1>0, <2>1, <2>2, <2>3, QuietStep DEF TypeOK
<1>5. CASE \E a \in Actions : Exit(a)
  <2>1. UNCHANGED <<plan, item, wait, domain, final, mishaps>> /\ roles' \subseteq roles
    BY <1>5 DEF Exit
  <2>2. Onward(domain, domain')  BY <2>1 DEF Onward
  <2> QED  BY <1>0, <2>1, <2>2, QuietStep DEF TypeOK
<1>7. CASE \E r \in Requirements, d \in Domains : MarkWaiting(r, d)
  <2>1. /\ UNCHANGED <<plan, item, domain, final, roles, mishaps>>
        /\ wait' \in [Requirements -> {"none", "waiting", "ready"}]
    BY <1>0, <1>7 DEF MarkWaiting, TypeOK
  <2>2. Onward(domain, domain')  BY <2>1 DEF Onward
  <2> QED  BY <1>0, <2>1, <2>2, QuietStep DEF TypeOK
<1>6. CASE UNCHANGED vars
  BY <1>0, <1>6, QuietStep DEF vars, TypeOK, Onward
<1> QED  BY <1>1, <1>2, <1>3, <1>4, <1>5, <1>6, <1>7 DEF Next, Work, ItemStep, DomainStep

-----------------------------------------------------------------------------
(* A query that offers nothing. *)

\* A set of numbers that is not empty has a least one, and Least finds it.
LEMMA LeastExists ==
  ASSUME NEW S, S \subseteq Nat, S # {}
  PROVE  \E x \in S : \A y \in S : x <= y
<1>1. \E x \in S : \A y \in S : ~(<<y, x>> \in OpToRel(<, Nat))
  BY NatLessThanWellFounded, WFMin
<1>2. PICK x \in S : \A y \in S : ~(<<y, x>> \in OpToRel(<, Nat))  BY <1>1
<1>3. \A y \in S : y < x => <<y, x>> \in OpToRel(<, Nat)
  BY DEF OpToRel
<1>4. \A y \in S : ~(y < x)  BY <1>2, <1>3
<1>5. \A y \in S : x <= y
  BY <1>4
<1> QED  BY <1>5

LEMMA LeastIs ==
  ASSUME NEW S, S \subseteq Nat, S # {}
  PROVE  Least(S) \in S /\ \A y \in S : Least(S) <= y
  BY LeastExists DEF Least

\* Behind, whose definition is recursive, is what its equation says: the sets
\* closed under the dependencies of the plan have a least one above each requirement.
LEMMA BehindIs ==
  ASSUME plan \in Plans
  PROVE  Behind = [r \in Requirements |-> {r} \cup UNION {Behind[q] : q \in plan.needs[r]}]
<1> DEFINE Shut(C) == \A x \in C : plan.needs[x] \subseteq C
           f == [r \in Requirements |->
                   {q \in Requirements : \A C \in SUBSET Requirements : r \in C /\ Shut(C) => q \in C}]
<1>0. \A r \in Requirements : plan.needs[r] \subseteq Requirements
  BY PlannedAssumption DEF PlanType
<1> SUFFICES f = [r \in Requirements |-> {r} \cup UNION {f[q] : q \in plan.needs[r]}]
  BY DEF Behind
<1>1. ASSUME NEW r \in Requirements, NEW q \in {r} \cup UNION {f[p] : p \in plan.needs[r]}
      PROVE  q \in f[r]
  <2> SUFFICES ASSUME NEW C \in SUBSET Requirements, r \in C, Shut(C)
               PROVE  q \in C
    BY <1>0, <1>1
  <2>1. CASE q = r  BY <2>1
  <2>2. ASSUME NEW p \in plan.needs[r], q \in f[p]
        PROVE  q \in C
    <3>1. p \in C /\ p \in Requirements  OBVIOUS
    <3> QED  BY <2>2, <3>1
  <2> QED  BY <1>1, <2>1, <2>2
<1>2. ASSUME NEW r \in Requirements, NEW q \in f[r]
      PROVE  q \in {r} \cup UNION {f[p] : p \in plan.needs[r]}
  <2> DEFINE C == {r} \cup UNION {f[p] : p \in plan.needs[r]}
  <2>1. C \in SUBSET Requirements  BY <1>0
  <2>2. \A p \in Requirements : p \in f[p]  OBVIOUS
  <2>3. ASSUME NEW p \in Requirements, NEW x \in f[p], NEW y \in plan.needs[x]
        PROVE  y \in f[p]
    <3>1. x \in Requirements /\ y \in Requirements  BY <1>0, <2>3
    <3> SUFFICES ASSUME NEW D \in SUBSET Requirements, p \in D, Shut(D)
                 PROVE  y \in D
      BY <3>1
    <3>2. x \in D  BY <2>3
    <3> QED  BY <3>2
  <2>4. Shut(C)
    <3> SUFFICES ASSUME NEW x \in C, NEW y \in plan.needs[x]
                 PROVE  y \in C
      OBVIOUS
    <3>1. CASE x = r
      <4>1. y \in plan.needs[r] /\ y \in f[y]  BY <1>0, <2>2, <3>1
      <4> HIDE DEF f
      <4> QED  BY <4>1
    <3>2. ASSUME NEW p \in plan.needs[r], x \in f[p]
          PROVE  y \in C
      <4>1. p \in Requirements  BY <1>0
      <4>2. y \in f[p]  BY <4>1, <3>2, <2>3
      <4> HIDE DEF f
      <4> QED  BY <4>2
    <3> HIDE DEF f
    <3> QED  BY <3>1, <3>2
  <2>5. r \in C  OBVIOUS
  <2> HIDE DEF C
  <2>6. q \in C  BY <1>2, <2>1, <2>4, <2>5
  <2> QED  BY <2>6 DEF C
<1>3. \A r \in Requirements : f[r] = {r} \cup UNION {f[q] : q \in plan.needs[r]}
  <2> HIDE DEF f
  <2> QED  BY <1>1, <1>2
<1>4. f = [r \in Requirements |-> f[r]]  OBVIOUS
<1> HIDE DEF f
<1> QED  BY <1>3, <1>4

\* When no role is at work the leases are those of the dead.
LEMMA DeadLeases ==
  ASSUME roles = {}
  PROVE  {e \in Domains : Dead(e)} = {e \in Domains : domain[e].lease}
  BY DEF Dead, Working

\* Some requirement's domain comes before all that need a resolver.
LEMMA FirstSeeking ==
  ASSUME NEW dom \in [Domains -> DomainType], Seeking(dom) # {},
         \A d \in Seeking(dom) : dom[d].by # {}
  PROVE  \E d \in Seeking(dom) : \A e \in Seeking(dom) : ~Before(dom, e, d)
<1> DEFINE S == Seeking(dom)
           first(d) == Least(dom[d].by)
<1>1. S \subseteq Nat
  BY PlannedAssumption DEF Seeking, Domains
<1>2. \A d \in S : first(d) \in Nat
  <2> SUFFICES ASSUME NEW d \in S PROVE first(d) \in Nat
    OBVIOUS
  <2>1. d \in Domains  BY DEF Seeking
  <2>2. dom[d].by \subseteq Nat  BY <2>1, PlannedAssumption DEF DomainType, Requirements
  <2> QED  BY <2>2, LeastIs
<1> HIDE DEF S, first
<1> DEFINE P == {first(d) : d \in S}
           F == {d \in S : first(d) = Least(P)}
<1>3. Least(P) \in P /\ \A p \in P : Least(P) <= p
  <2>1. P \subseteq Nat /\ P # {}  BY <1>2 DEF S
  <2> HIDE DEF P
  <2> QED  BY <2>1, LeastIs
<1>4. Least(F) \in F /\ \A d \in F : Least(F) <= d
  <2>1. F \subseteq Nat /\ F # {}  BY <1>1, <1>3
  <2> HIDE DEF F
  <2> QED  BY <2>1, LeastIs
<1>5. ASSUME NEW e \in S, Before(dom, e, Least(F))
      PROVE  FALSE
  <2>1. first(e) < first(Least(F)) \/ (first(e) = first(Least(F)) /\ e < Least(F))
    BY <1>5 DEF Before, first
  <2>2. first(Least(F)) = Least(P) /\ Least(P) <= first(e) /\ first(e) \in Nat /\ Least(P) \in Nat
    <3>1. Least(F) \in F  BY <1>4
    <3>2. first(e) \in P  OBVIOUS
    <3> QED  BY <3>1, <3>2, <1>2, <1>3
  <2>3. e \in F /\ e < Least(F)  BY <2>1, <2>2
  <2>4. Least(F) <= e /\ e \in Nat /\ Least(F) \in Nat  BY <2>3, <1>4, <1>1
  <2> QED  BY <2>3, <2>4
<1>6. Least(F) \in S  BY <1>4
<1> QED  BY <1>5, <1>6 DEF S

\* A query that offers no resolver though a domain needs one has no lane left.
LEMMA NoLane ==
  ASSUME NEW dom \in [Domains -> DomainType], IdentityOffers(dom) = {}, Seeking(dom) # {},
         \A d \in Seeking(dom) : dom[d].by # {}
  PROVE  Leases(dom) >= Capacity
<1>1. PICK d \in Seeking(dom) : \A e \in Seeking(dom) : ~Before(dom, e, d)
  BY FirstSeeking
<1>2. {e \in Seeking(dom) : Before(dom, e, d)} = {}  BY <1>1
<1>3. Cardinality({e \in Seeking(dom) : Before(dom, e, d)}) = 0
  BY <1>2, FS_EmptySet
<1>4. d \notin Laned(dom)  BY DEF IdentityOffers
<1>5. ~(Leases(dom) + 0 < Capacity)  BY <1>3, <1>4 DEF Laned
<1>6. Leases(dom) \in Nat
  <2>1. IsFiniteSet(Domains)  BY PlannedAssumption, FS_Interval DEF Domains
  <2>2. {d2 \in Domains : dom[d2].lease} \subseteq Domains  OBVIOUS
  <2>3. IsFiniteSet({d2 \in Domains : dom[d2].lease})  BY <2>1, <2>2, FS_Subset
  <2> QED  BY <2>3, FS_CardinalityType DEF Leases
<1> QED  BY <1>5, <1>6, PlannedAssumption

\* Where a query that refuses and offers nothing leaves a requirement waiting,
\* one of its domains is past help.
LEMMA WaitsForHopeless ==
  ASSUME IInv, roles = {}, ~Refusing, IdentityOffers(Reserved) = {},
         NEW r \in Requirements, ~Decided(r), Waits[r] = "waiting"
  PROVE  \E d \in item[r].wants : Hopeless(d)
<1> USE DEF IInv
<1>0. /\ Reserved \in [Domains -> DomainType] /\ Onward(domain, Reserved)
      /\ item[r].wants \subseteq Domains
  BY ReservedType DEF TypeOK, ItemType
<1>1. Admitted(r)  BY UndecidedAdmitted
<1>2. PICK d \in item[r].wants : Reserved[d].state # "ready"
  BY <1>1 DEF Waits
<1>3. d \in Domains /\ r \in Reserved[d].by /\ domain[d].state # "ready"
  BY <1>0, <1>1, <1>2, ReservedType DEF Onward
<1>4. \A e \in Domains : Reserved[e].state = "none" <=> Reserved[e].by = {}
  BY <1>0 DEF AskedIsOpen, Onward
<1>5. Reserved[d].state \in {"reserved", "resolving", "repair", "review_pending", "failed"}
  BY <1>0, <1>2, <1>3, <1>4 DEF DomainType
<1>6. CASE Reserved[d].state = "failed"
  <2>1. domain[d].state = "failed"  BY <1>3, <1>6, ReservedType
  <2> QED  BY <2>1 DEF Hopeless
<1>7. CASE Reserved[d].state = "review_pending"
  BY <1>3, <1>7 DEF IdentityOffers
<1>8. CASE Reserved[d].state \in {"reserved", "resolving", "repair"}
  <2>1. CASE domain[d].lease
    BY <2>1 DEF Hopeless, Dead, Working
  <2>2. CASE ~domain[d].lease
    <3>1. d \in Seeking(Reserved)
      <4>1. ~Reserved[d].lease  BY <1>3, <2>2, ReservedType
      <4> QED  BY <1>3, <1>8, <4>1 DEF Seeking
    <3>2. \A e \in Seeking(Reserved) : Reserved[e].by # {}
      BY <1>4 DEF Seeking
    <3>3. Leases(Reserved) >= Capacity  BY <1>0, <3>1, <3>2, NoLane
    <3>4. {e \in Domains : Reserved[e].lease} = {e \in Domains : Dead(e)}
      BY ReservedType, DeadLeases
    <3>5. Cardinality({e \in Domains : Dead(e)}) >= Capacity
      BY <3>3, <3>4 DEF Leases
    <3> QED  BY <1>3, <3>5 DEF Hopeless
  <2> QED  BY <2>1, <2>2
<1> QED  BY <1>5, <1>6, <1>7, <1>8

\* A query that refuses nothing releases the wait of what is decided.
LEMMA DecidedDoesNotWait ==
  ASSUME IInv, ~Refusing, NEW q \in Requirements, Decided(q), Closed(q)
  PROVE  Waits[q] # "waiting"
<1>1. ~Admitted(q)  BY DEF Admitted
<1>2. \A d \in item[q].wants : Reserved[d].state = "ready"
  BY ReservedType DEF IInv, DecidedServed, Served, Onward, TypeOK, ItemType
<1>3. Waits[q] = IF wait[q] = "waiting" THEN "ready" ELSE wait[q]
  BY <1>1, <1>2 DEF Waits
<1> QED  BY <1>3

\* What a requirement that does not wait is offered, and its lane: the first of
\* the runnable ones is the first that is undecided.
LEMMA OfferedOrLost ==
  ASSUME TypeOK, roles = {}, ItemOffers(Waits) = {}, NEW r \in Requirements, ~Decided(r),
         Waits[r] # "waiting",
         \A q \in Requirements : q < r => Decided(q) /\ Waits[q] # "waiting"
  PROVE  Lost(r)
<1> DEFINE w == Waits
<1>0. item[r] \in ItemType /\ w \in [Requirements -> {"none", "waiting", "ready"}]
  BY WaitsType DEF TypeOK
<1>1. \A q \in Requirements : ~Decided(q) /\ w[q] # "waiting" => ItemAct(q, w) = None
  BY DEF ItemOffers
<1> HIDE DEF w
<1>2. ItemAct(r, w) = None  BY <1>1 DEF w
<1>3. /\ ~item[r].attempt /\ item[r].done = 0
      /\ r # NextRequirement(w)
  BY <1>2, <1>0, PlannedAssumption DEF ItemAct, ItemType, MutatingActs, OwnerActs, Repairing
<1>4. ~OwnerBusy(w)
  <2> SUFFICES ASSUME NEW q \in Requirements, ~Decided(q), w[q] = "none", item[q].attempt
               PROVE  FALSE
    BY DEF OwnerBusy
  <2>1. ItemAct(q, w) = None  BY <1>1
  <2> QED  BY <2>1, PlannedAssumption DEF ItemAct, MutatingActs, OwnerActs
<1>5. r \notin Runnable(w)
  <2> SUFFICES ASSUME r \in Runnable(w) PROVE FALSE
    OBVIOUS
  <2>1. Runnable(w) \subseteq Nat  BY PlannedAssumption DEF Runnable, Requirements
  <2>2. Least(Runnable(w)) \in Runnable(w) /\ Least(Runnable(w)) <= r
    BY <2>1, LeastIs
  <2>3. ~(Least(Runnable(w)) < r)  BY <2>2 DEF Runnable
  <2>4. Least(Runnable(w)) = r  BY <2>1, <2>2, <2>3
  <2> QED  BY <1>3, <1>4, <2>4 DEF NextRequirement
<1>6. Released(r, w)
  <2> SUFFICES ASSUME NEW q \in plan.needs[r] PROVE Decided(q) /\ w[q] # "waiting"
    BY DEF Released
  <2>1. q \in 1 .. (r - 1)  BY PlannedAssumption DEF TypeOK
  <2>2. q \in Requirements /\ q < r  BY <2>1, PlannedAssumption DEF Requirements
  <2> QED  BY <2>2 DEF w
<1>7. w[r] = "none" /\ item[r].tried
  BY <1>0, <1>5, <1>6 DEF Runnable, w
<1> QED  BY <1>3, <1>7 DEF Lost, Working, w

\* Once no role is at work, a run without its report is offered something, or
\* the first of its undecided requirements has stalled.
LEMMA Unstalled == IInv => NothingStalls
<1> SUFFICES ASSUME IInv, roles = {}, final # "report", Offers = {}
             PROVE  \E r \in Requirements : ~Decided(r) /\ Stalled(r)
  BY DEF NothingStalls
<1> USE DEF IInv
<1>1. CASE Refusing
  <2>1. PICK r \in Requirements : Refused(r)  BY <1>1 DEF Refusing
  <2>2. ~Served(r)  BY <2>1 DEF Refused, Served
  <2>3. ~Decided(r)  BY <2>2 DEF DecidedServed
  <2> QED  BY <1>1, <2>3 DEF Stalled
<1>2. CASE ~Refusing
  <2>1. /\ IdentityOffers(Reserved) = {} /\ IntegrationOffers = {}
        /\ ItemOffers(Waits) = {} /\ FinalOffers = {}
    BY <1>2 DEF Offers, OffersFor
  <2>2. \A q \in Requirements : Decided(q) => Closed(q)
    <3> SUFFICES ASSUME NEW q \in Requirements, item[q].outcome = "accepted"
                 PROVE  item[q].integ = "committed"
      BY DEF Decided, Closed, TypeOK, ItemType
    <3> QED  BY <2>1 DEF IntegrationOffers
  <2> DEFINE U == {q \in Requirements : ~Decided(q)}
  <2>3. U # {}
    <3>1. PICK q \in Requirements : ~Closed(q)  BY <2>1 DEF FinalOffers
    <3> QED  BY <3>1, <2>2
  <2>4. PICK r \in U : \A q \in U : r <= q
    <3>1. U \subseteq Nat  BY PlannedAssumption DEF Requirements
    <3> HIDE DEF U
    <3> QED  BY <2>3, <3>1, LeastExists
  <2>5. \A q \in Requirements : q < r => Decided(q)
    BY <2>4, PlannedAssumption DEF Requirements
  <2>6. \A q \in Requirements : Decided(q) => Waits[q] # "waiting"
    BY <1>2, <2>2, DecidedDoesNotWait
  <2>7. r \in Behind[r]
    <3>1. plan \in Plans  BY DEF TypeOK
    <3> QED  BY <3>1, BehindIs
  <2>8. CASE Waits[r] = "waiting"
    <3>1. \E d \in item[r].wants : Hopeless(d)  BY <1>2, <2>1, <2>8, WaitsForHopeless
    <3> QED  BY <3>1, <2>7 DEF Stalled
  <2>9. CASE Waits[r] # "waiting"
    <3>1. Lost(r)  BY <2>1, <2>5, <2>6, <2>9, OfferedOrLost
    <3> QED  BY <3>1, <2>7 DEF Stalled
  <2> QED  BY <2>8, <2>9
<1> QED  BY <1>1, <1>2

-----------------------------------------------------------------------------
(* Theorems. *)

\* The invariant behind the theorems: one role writes in a requirement, and the
\* publication of a verdict is at work only where every identity is there.
THEOREM Stands == Spec => []IInv
BY InitKeeps, NextKeeps, PTL DEF Spec

\* A decided requirement has every identity it asked for, for any plan and any
\* number of requirements, domains and lanes (next_actions, _admission_scope).
THEOREM DecidedStands == Spec => []DecidedIsResolved
<1>1. IInv => DecidedIsResolved  BY DEF IInv, DecidedServed, DecidedIsResolved, Served
<1> QED  BY <1>1, Stands, PTL

\* As long as the run has no report and no role is at work, the next query offers
\* something or an undecided requirement has stalled: for any plan, and any
\* number of requirements, domains and lanes (next_actions).
THEOREM NeverStalls == Spec => []NothingStalls
BY Stands, Unstalled, PTL

\* The coordinator's admission keeps a requirement to one role that writes in it.
THEOREM WritersExclude == Spec => []OneWriter
<1>1. IInv => OneWriter  BY DEF IInv
<1> QED  BY <1>1, Stands, PTL
===============================================================================
