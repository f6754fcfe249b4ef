------------------------------ MODULE PlannedRun ------------------------------
(***************************************************************************)
(* A run in Requirement mode, as its Planner drives it:                    *)
(* requirement_planning.py composed with the workspaces it reads.          *)
(*                                                                         *)
(* A query of the Planner reconciles the identity domains the items asked  *)
(* for and derives the next actions from what is on disk. The coordinator  *)
(* admits an action in the same section and starts a role for it; the role *)
(* makes the calls of its action and leaves. The workspaces are modelled   *)
(* each in a module of its own; here one of their operations is one step   *)
(* and only what the Planner tells apart is kept.                          *)
(*                                                                         *)
(* Requirements and domains are numbered: requirements in the order of the *)
(* plan, domains in the order of their names.                              *)
(*                                                                         *)
(* A definition named X_... is X with a bug: the properties are checked    *)
(* against it too, and must fail.                                          *)
(***************************************************************************)
EXTENDS Integers, FiniteSets

CONSTANTS NReq,         \* number of requirements
          NDom,         \* number of identity domains
          Capacity,     \* resolver leases at a time
          Plans,        \* plans a run may have
          MaxAttempts,  \* completed attempts of an item        (bound)
          MaxRepairs,   \* business repairs of an item
          MaxMishaps,   \* attempts and leases given up         (bound)
          None

Requirements == 1 .. NReq
Domains == 1 .. NDom

\* needs[r]: the requirements r depends on; widens: the requirements whose
\* request for a domain adds to its material scope; repairs: the repairs of one
\* item that the business reviewer asks for.
PlanType == [needs : [Requirements -> SUBSET Requirements], widens : SUBSET Requirements,
             repairs : 0 .. MaxRepairs]

VARIABLES plan,     \* the requirements of the run
          item,     \* item[r]: its durable workspace
          domain,   \* domain[d]: its record in the entity registry
          wait,     \* wait[r]: the wait of a requirement on its domains
          final,    \* how far product and report are
          roles,    \* actions whose role is at work
          mishaps   \* attempts and leases given up so far

vars == <<plan, item, domain, wait, final, roles, mishaps>>

OwnerActs == {"analyze_requirement", "resume_requirement_analysis", "repair_requirement"}
MutatingActs == OwnerActs \cup
  {"review_requirement", "finalize_requirement_review", "integrate_requirement",
   "review_integration_fidelity", "repair_integration_fidelity",
   "commit_integration_requirement"}
ResolverActs == {"resolve_identity", "repair_identity_result", "resume_identity_resolution"}
IdentityActs == ResolverActs \cup {"review_identity_result", "commit_identity_result"}
FinalActs == {"build_product_candidate", "review_final_product", "publish_final_product",
              "preflight_final_report", "finalize_final_report"}
Actions == [act : MutatingActs, on : Requirements] \cup [act : IdentityActs, on : Domains]
             \cup [act : FinalActs, on : {0}]

ASSUME PlannedAssumption ==
  /\ NReq \in Nat \ {0} /\ NDom \in Nat /\ Capacity \in Nat
  /\ MaxAttempts \in Nat \ {0} /\ MaxRepairs \in Nat /\ MaxMishaps \in Nat
  /\ Plans \subseteq PlanType
  /\ None \notin {"accept", "repair_once", "confirm_data_insufficiency",
                  "accepted", "blocked_by_evidence"} \cup MutatingActs
  /\ \A p \in Plans : \A r \in Requirements : p.needs[r] \subseteq 1 .. (r - 1)

Action(act, on) == [act |-> act, on |-> on]
Least(S) == CHOOSE x \in S : \A y \in S : x <= y

Decided(r) == item[r].outcome # None

\* _validated_terminal_integration_boundary
Closed(r) == item[r].integ = "committed" \/ item[r].outcome = "blocked_by_evidence"

-----------------------------------------------------------------------------
(* The Planner's query. *)

\* A request that would widen a committed domain is refused, and the query ends
\* there: what comes later in the plan is not looked at. (The order of one
\* item's requests is not kept: none of a refused item's is admitted.)
Refused(r) == /\ ~Closed(r) /\ r \in plan.widens
              /\ \E d \in item[r].wants : domain[d].state = "ready" /\ r \notin domain[d].by
Refusing == \E r \in Requirements : Refused(r)
Admitted(r) == ~Closed(r) /\ \A q \in 1 .. r : ~Refused(q)

\* reconcile_identity_requests reserves what the owners proposed. A request that
\* widens the scope takes a candidate back from its review.
Reserved == [d \in Domains |->
  LET new == {r \in Requirements : Admitted(r) /\ d \in item[r].wants} \ domain[d].by
      old == domain[d]
      widened == old.by # {} /\ new \cap plan.widens # {} /\ old.state = "review_pending"
  IN  [old EXCEPT !.by = @ \cup new,
         !.state = IF @ = "none" /\ new # {} THEN "reserved"
                   ELSE IF widened THEN "resolving" ELSE @,
         !.accepted = @ /\ ~widened]]

\* Its waits, after requirement_runtime_statuses released those that are over.
Waits == [r \in Requirements |->
  IF Admitted(r) /\ \E d \in item[r].wants : Reserved[d].state # "ready" THEN "waiting"
  ELSE IF wait[r] = "waiting" /\ ~Refusing /\ (\A d \in item[r].wants : Reserved[d].state = "ready")
  THEN "ready" ELSE wait[r]]

Leases(dom) == Cardinality({d \in Domains : dom[d].lease})

Seeking_NoResume(dom) == {d \in Domains : \/ dom[d].state = "reserved"
                                          \/ dom[d].state = "repair" /\ ~dom[d].lease}

\* Domains that need a resolver, in the order of their first requirement; the
\* query offers as many as there are leases left.
Seeking(dom) == {d \in Domains : \/ dom[d].state = "reserved"
                                 \/ dom[d].state \in {"repair", "resolving"} /\ ~dom[d].lease}
Before(dom, e, d) == LET p == Least(dom[e].by)
                         q == Least(dom[d].by) IN p < q \/ (p = q /\ e < d)
Laned(dom) == {d \in Seeking(dom) :
  Leases(dom) + Cardinality({e \in Seeking(dom) : Before(dom, e, d)}) < Capacity}

IdentityOffers(dom) ==
  {Action(CASE dom[d].state = "reserved" -> "resolve_identity"
            [] dom[d].state = "repair" -> "repair_identity_result"
            [] OTHER -> "resume_identity_resolution", d) : d \in Laned(dom)}
  \cup {Action(IF dom[d].accepted THEN "commit_identity_result" ELSE "review_identity_result", d) :
          d \in {e \in Domains : dom[e].state = "review_pending"}}

IntegrationAct == [not_started |-> "integrate_requirement",
                   staged |-> "review_integration_fidelity",
                   awaiting |-> "review_integration_fidelity",
                   repair_once |-> "repair_integration_fidelity",
                   accept |-> "commit_integration_requirement"]
IntegrationOffers_NoRecheck ==
  {Action(IntegrationAct[item[r].integ], r) :
     r \in {q \in Requirements : item[q].outcome = "accepted"
                                   /\ item[q].integ \notin {"awaiting", "committed"}}}
IntegrationOffers ==
  {Action(IntegrationAct[item[r].integ], r) :
     r \in {q \in Requirements : item[q].outcome = "accepted" /\ item[q].integ # "committed"}}

\* _runnable_requirement_ids
Released(r, w) == \A q \in plan.needs[r] : Decided(q) /\ w[q] # "waiting"
Runnable(w) == {r \in Requirements :
  /\ Released(r, w) /\ ~Decided(r)
  /\ w[r] = "ready" \/ (w[r] = "none" /\ ~item[r].tried)}

OwnerBusy_Waiting(w) == \E r \in Requirements : ~Decided(r) /\ item[r].attempt

\* runtime_snapshot: an attempt of an item that does not wait occupies the owner.
OwnerBusy(w) == \E r \in Requirements : ~Decided(r) /\ w[r] = "none" /\ item[r].attempt
NextRequirement(w) == IF OwnerBusy(w) \/ Runnable(w) = {} THEN 0 ELSE Least(Runnable(w))

\* What next_actions offers for an item that is not decided: an authorized
\* repair waits for its attempt until more attempts are done than repairs used.
Repairing(i) == i.verdict = None /\ i.repair /\ i.done <= i.repairs
ItemAct(r, w) ==
  LET i == item[r] IN
  CASE i.attempt \/ Repairing(i) -> "resume_requirement_analysis"
    [] i.verdict = "repair_once" -> "repair_requirement"
    [] i.verdict \in {"accept", "confirm_data_insufficiency"} -> "finalize_requirement_review"
    [] i.verdict = None /\ i.done > 0 /\ ~(i.attempt \/ Repairing(i)) -> "review_requirement"
    [] i.done = 0 /\ ~i.attempt /\ r = NextRequirement(w) -> "analyze_requirement"
    [] OTHER -> None
ItemOffers(w) ==
  {Action(ItemAct(r, w), r) :
     r \in {q \in Requirements : ~Decided(q) /\ w[q] # "waiting" /\ ItemAct(q, w) # None}}

\* A rejected candidate is to be built again, though record_candidate keeps it.
\* (The first action is called build_final_product when the lifecycle completed
\* before it; recover_final_report, after a killed finalizer, is left out.)
FinalAct == [nothing |-> "build_product_candidate", candidate |-> "review_final_product",
             rejected |-> "build_product_candidate", accepted |-> "publish_final_product",
             authorized |-> "preflight_final_report", preflight |-> "finalize_final_report"]
FinalOffers == IF (\A r \in Requirements : Closed(r)) /\ final # "report"
               THEN {Action(FinalAct[final], 0)} ELSE {}

\* next_actions without the two that nobody answers: repair_identity_request,
\* alone when a request is refused, and escalate_identity_failure.
OffersFor(dom, w) ==
  IF Refusing THEN {}
  ELSE IdentityOffers(dom) \cup IntegrationOffers \cup ItemOffers(w) \cup FinalOffers
Offers == OffersFor(Reserved, Waits)

Admits_OneOwner(a) ==
  /\ a \notin roles
  /\ \A b \in roles : ~(a.act \in OwnerActs /\ b.act \in OwnerActs)

\* _admission_scope: one Analytical Owner in the run, one role that writes in a
\* requirement, no action twice.
Admits(a) ==
  /\ a \notin roles
  /\ \A b \in roles : /\ ~(a.act \in OwnerActs /\ b.act \in OwnerActs)
                      /\ ~(a.act \in MutatingActs /\ b.act \in MutatingActs /\ a.on = b.on)

\* A query, and the dispatch of one of its actions or of none.
Query ==
  /\ domain' = Reserved /\ wait' = Waits
  /\ \/ roles' = roles
     \/ \E a \in OffersFor(domain', wait') : Admits(a) /\ roles' = roles \cup {a}
  /\ UNCHANGED <<plan, item, final, mishaps>>

-----------------------------------------------------------------------------
(* The roles. *)

Working(acts, on) == \E a \in roles : a.act \in acts /\ a.on = on
Leaves(acts, on) == roles' = {a \in roles : ~(a.act \in acts /\ a.on = on)}
Mishap == mishaps < MaxMishaps /\ mishaps' = mishaps + 1

\* The Analytical Owner asks for a domain (propose_identity_domain).
Propose(r, d) ==
  /\ Working(OwnerActs, r) /\ ~Decided(r) /\ d \notin item[r].wants
  /\ item' = [item EXCEPT ![r].wants = @ \cup {d}]
  /\ UNCHANGED <<plan, domain, wait, final, roles, mishaps>>

\* It notes that it waits for a domain it asked for, once a query has reserved it
\* (mark_waiting_on_resolution).
MarkWaiting(r, d) ==
  /\ Working(OwnerActs, r) /\ d \in item[r].wants /\ domain[d].by # {}
  /\ wait' = [wait EXCEPT ![r] = "waiting"]
  /\ UNCHANGED <<plan, item, domain, final, roles, mishaps>>

\* It opens an attempt (begin_attempt); a state under a verdict is not writable.
BeginAttempt(r) ==
  /\ Working(OwnerActs, r) /\ ~Decided(r) /\ item[r].verdict = None
  /\ ~item[r].attempt /\ item[r].done < MaxAttempts
  /\ item' = [item EXCEPT ![r].attempt = TRUE, ![r].tried = TRUE]
  /\ UNCHANGED <<plan, domain, wait, final, roles, mishaps>>

\* It completes its draft and the attempt, or the attempt fails (finish_attempt).
FinishAttempt(r) ==
  /\ Working(OwnerActs, r) /\ item[r].attempt
  /\ \/ /\ item' = [item EXCEPT ![r].attempt = FALSE, ![r].done = @ + 1]
        /\ UNCHANGED mishaps
     \/ item' = [item EXCEPT ![r].attempt = FALSE] /\ Mishap
  /\ UNCHANGED <<plan, domain, wait, final, roles>>

\* It takes up an authorized repair (use_business_repair).
UseRepair(r) ==
  /\ Working(OwnerActs, r) /\ item[r].verdict = "repair_once" /\ ~Decided(r)
  /\ item' = [item EXCEPT ![r].verdict = None, ![r].repair = TRUE, ![r].repairs = @ + 1]
  /\ UNCHANGED <<plan, domain, wait, final, roles, mishaps>>

\* The business reviewer judges the draft (record_business_review).
Review(r) ==
  /\ Working({"review_requirement"}, r) /\ ~Decided(r)
  /\ ~item[r].attempt /\ item[r].done > 0 /\ item[r].verdict = None
  /\ \E v \in {"accept", "repair_once", "confirm_data_insufficiency"} :
       /\ v = "repair_once" => item[r].repairs < plan.repairs /\ item[r].done < MaxAttempts
       /\ item' = [item EXCEPT ![r].verdict = v, ![r].repair = FALSE]
  /\ Leaves({"review_requirement"}, r)
  /\ UNCHANGED <<plan, domain, wait, final, mishaps>>

\* The verdict becomes the outcome of the item (accept, finalize_blocked_by_evidence).
Finalize(r) ==
  /\ Working({"finalize_requirement_review"}, r) /\ ~Decided(r)
  /\ item[r].verdict \in {"accept", "confirm_data_insufficiency"}
  /\ item' = [item EXCEPT ![r].outcome =
                IF item[r].verdict = "accept" THEN "accepted" ELSE "blocked_by_evidence"]
  /\ Leaves({"finalize_requirement_review"}, r)
  /\ UNCHANGED <<plan, domain, wait, final, mishaps>>

\* Integration: stage, fidelity review with one repair, rebuild, commit.
Next_integ == [not_started |-> {"staged"}, staged |-> {"accept", "repair_once"},
               repair_once |-> {"awaiting"}, awaiting |-> {"accept"}, accept |-> {"committed"}]
Integrate(r) ==
  /\ item[r].outcome = "accepted" /\ item[r].integ # "committed"
  /\ LET act == IntegrationAct[item[r].integ] IN
     /\ Working({act}, r) /\ Leaves({act}, r)
     /\ \E to \in Next_integ[item[r].integ] : item' = [item EXCEPT ![r].integ = to]
  /\ UNCHANGED <<plan, domain, wait, final, mishaps>>

\* A resolver takes the lane of its domain (claim_resolution_owner).
Claim(d) ==
  /\ Working(ResolverActs, d)
  /\ domain[d].state \in {"reserved", "resolving", "repair"}
  /\ ~domain[d].lease /\ Leases(domain) < Capacity
  /\ domain' = [domain EXCEPT ![d].lease = TRUE,
                  ![d].state = IF @ = "reserved" THEN "resolving" ELSE @]
  /\ UNCHANGED <<plan, item, wait, final, roles, mishaps>>

\* It submits its result and returns the lane (submit_result).
Submit(d) ==
  /\ Working(ResolverActs, d) /\ domain[d].lease
  /\ domain[d].state \in {"resolving", "repair"}
  /\ domain' = [domain EXCEPT ![d].lease = FALSE, ![d].state = "review_pending"]
  /\ Leaves(ResolverActs, d)
  /\ UNCHANGED <<plan, item, wait, final, mishaps>>

\* It gives up: it returns the lane (release_resolution_owner), or it is killed.
GiveUp(d) ==
  /\ Working(ResolverActs, d) /\ domain[d].lease /\ Mishap
  /\ \/ domain' = [domain EXCEPT ![d].lease = FALSE,
                     ![d].state = IF @ = "resolving" THEN "reserved" ELSE @]
     \/ UNCHANGED domain
  /\ Leaves(ResolverActs, d)
  /\ UNCHANGED <<plan, item, wait, final>>

\* The identity reviewer judges a candidate (record_review), or commits it (commit).
JudgeIdentity(d) ==
  /\ Working({"review_identity_result"}, d) /\ domain[d].state = "review_pending"
  /\ \/ domain' = [domain EXCEPT ![d].accepted = TRUE]
     \/ /\ ~domain[d].repaired
        /\ domain' = [domain EXCEPT ![d].state = "repair", ![d].accepted = FALSE,
                                    ![d].repaired = TRUE]
     \/ domain' = [domain EXCEPT ![d].state = "failed", ![d].accepted = FALSE]
  /\ Leaves({"review_identity_result"}, d)
  /\ UNCHANGED <<plan, item, wait, final, mishaps>>

CommitIdentity(d) ==
  /\ Working({"commit_identity_result"}, d)
  /\ domain[d].state = "review_pending" /\ domain[d].accepted
  /\ domain' = [domain EXCEPT ![d].state = "ready", ![d].accepted = FALSE]
  /\ Leaves({"commit_identity_result"}, d)
  /\ UNCHANGED <<plan, item, wait, final, mishaps>>

\* Product and report. The preflight gathers the committed integration of every
\* item (gather_from_run), and raises when one has none.
Next_final == [nothing |-> {"candidate"}, candidate |-> {"accepted", "rejected"},
               rejected |-> {}, accepted |-> {"authorized"},
               authorized |-> {"preflight"}, preflight |-> {"report"}]
Conclude ==
  /\ final # "report" /\ Working({FinalAct[final]}, 0) /\ Leaves({FinalAct[final]}, 0)
  /\ final = "authorized" => \A r \in Requirements : item[r].integ = "committed"
  /\ final' \in Next_final[final]
  /\ UNCHANGED <<plan, item, domain, wait, mishaps>>

\* A role leaves at any moment, also when there is nothing it could do; a
\* resolver with its lane only by Submit and GiveUp.
Exit(a) ==
  /\ a \in roles /\ ~(a.act \in ResolverActs /\ domain[a.on].lease)
  /\ roles' = roles \ {a}
  /\ UNCHANGED <<plan, item, domain, wait, final, mishaps>>

Init ==
  /\ plan \in Plans
  /\ item = [r \in Requirements |->
               [attempt |-> FALSE, tried |-> FALSE, done |-> 0, verdict |-> None,
                repair |-> FALSE, repairs |-> 0, wants |-> {}, outcome |-> None,
                integ |-> "not_started"]]
  /\ domain = [d \in Domains |->
                 [state |-> "none", lease |-> FALSE, accepted |-> FALSE,
                  repaired |-> FALSE, by |-> {}]]
  /\ wait = [r \in Requirements |-> "none"]
  /\ final = "nothing" /\ roles = {} /\ mishaps = 0

\* What a role does to get on with its action.
Work ==
  \/ \E r \in Requirements : \/ BeginAttempt(r) \/ FinishAttempt(r) \/ UseRepair(r)
                             \/ Review(r) \/ Finalize(r) \/ Integrate(r)
  \/ \E d \in Domains : Claim(d) \/ Submit(d) \/ JudgeIdentity(d) \/ CommitIdentity(d)
  \/ Conclude

Next ==
  \/ Query \/ Work \/ \E a \in Actions : Exit(a)
  \/ \E r \in Requirements, d \in Domains : Propose(r, d) \/ MarkWaiting(r, d)
  \/ \E d \in Domains : GiveUp(d)

Spec == Init /\ [][Next]_vars

\* The coordinator keeps asking, a role ends, and roles do not leave for ever
\* without having done anything.
FairSpec ==
  /\ Spec /\ WF_vars(Query) /\ SF_vars(Work) /\ WF_vars(\E a \in roles : Exit(a))

-----------------------------------------------------------------------------
(* Properties. *)

ItemType ==
  [attempt : BOOLEAN, tried : BOOLEAN, done : Nat,
   verdict : {None, "accept", "repair_once", "confirm_data_insufficiency"},
   repair : BOOLEAN, repairs : Nat, wants : SUBSET Domains,
   outcome : {None, "accepted", "blocked_by_evidence"},
   integ : {"not_started", "staged", "repair_once", "awaiting", "accept", "committed"}]
DomainType ==
  [state : {"none", "reserved", "resolving", "review_pending", "repair", "ready", "failed"},
   lease : BOOLEAN, accepted : BOOLEAN, repaired : BOOLEAN, by : SUBSET Requirements]

\* Type invariant: the workspaces keep their schema within the bounds.
TypeOK ==
  /\ plan \in Plans
  /\ item \in [Requirements -> ItemType]
  /\ domain \in [Domains -> DomainType]
  /\ wait \in [Requirements -> {"none", "waiting", "ready"}]
  /\ final \in {"nothing", "candidate", "rejected", "accepted", "authorized", "preflight", "report"}
  /\ roles \subseteq Actions /\ mishaps \in 0 .. MaxMishaps

\* A decided requirement has every identity it asked for: its owner cannot ask
\* for one while a review or its publication is under way, and a query looks at
\* the requests before it offers either (next_actions, _admission_scope).
DecidedIsResolved ==
  \A r \in Requirements : Decided(r) => \A d \in item[r].wants : domain[d].state = "ready"

\* Where a requirement waits for ever: its only attempt failed; a domain it
\* asked for failed, or a resolver was killed with its lease or the last one;
\* or a request would widen a committed domain, which ends every query.
Dead(d) == domain[d].lease /\ ~Working(ResolverActs, d)
Lost(r) == /\ item[r].tried /\ ~item[r].attempt /\ item[r].done = 0 /\ Waits[r] = "none"
           /\ ~Working(OwnerActs, r)
Hopeless(d) == \/ domain[d].state = "failed" \/ Dead(d)
               \/ domain[d].state # "ready" /\ Cardinality({e \in Domains : Dead(e)}) >= Capacity
Behind[r \in Requirements] == {r} \cup UNION {Behind[q] : q \in plan.needs[r]}
Stalled(r) == \/ Refusing
              \/ \E q \in Behind[r] : ~Decided(q) /\ (Lost(q) \/ \E d \in item[q].wants : Hopeless(d))

\* As long as the run has no report and no role is at work, the next query
\* offers something, but for the requirements that stalled.
NothingStalls ==
  roles = {} /\ final # "report" /\ Offers = {} => \E r \in Requirements : ~Decided(r) /\ Stalled(r)

\* Every requirement that does not stall is decided, whatever becomes of the
\* others: waiting for an identity never blocks the owner for the next one.
Decides == <>[](\A r \in Requirements : Decided(r) \/ Stalled(r))

\* A run whose requirements are all accepted gets its report, but for a
\* candidate the product reviewer rejected.
RunConcludes ==
  <>[]((\A r \in Requirements : item[r].outcome = "accepted") => final \in {"report", "rejected"})

\* references/FINAL_PRODUCT_AND_AUTOMATION.md:5: the report follows when every
\* requirement has a terminal outcome, "limited, blocked" included.
BlockedIsReported ==
  <>[]((\A r \in Requirements : Closed(r)) => final \in {"report", "rejected"})
===============================================================================
