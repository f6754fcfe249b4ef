------------------------- MODULE MCEntityResolution -------------------------
(* Finite instances of EntityResolution for TLC.                           *)
EXTENDS EntityResolution, TLC

CONSTANTS d1, d2, q1, q2, ann, bob, p1, p2, h1, h2, x, y, z, i, k, v, w

InOrder == [d \in Domains |-> IF d = d1 THEN 1 ELSE 2]

\* x and y say different things of i; z defines k and points to i.
MCContents ==
  [r \in Results |-> [n \in Ids |->
     CASE n = i /\ r = x -> v
       [] n = i /\ r = y -> w
       [] n = k /\ r = z -> v
       [] OTHER -> None]]

MCRefers == [r \in Results |-> IF r = z THEN {i} ELSE {}]

Lanes(total, resolver, analyst, specialist) ==
  [t \in WorkerTypes \cup {"total_active"} |->
     CASE t = "total_active" -> total
       [] t = "entity_resolution" -> resolver
       [] t = "analytical_owner" -> analyst
       [] t = "specialist" -> specialist]

ResolversOnly == Lanes(2, 2, 0, 0)
Tight == Lanes(2, 2, 2, 0)

\* Calls that can come to something when they are made: only the owner submits,
\* only an accepted domain is committed; killed at some of the stops.
Sensible(p, stops) ==
  \/ Sample(p) \/ Project(p)
  \/ \E o \in Agents, d \in Domains, r \in Results :
       domain[d].owner = o /\ domain[d].state \in {"resolving", "repair"} /\ StartSubmit(p, o, d, r)
  \/ \E stop \in {"done"} \cup ({"artifact", "state"} \cap stops) : Deliver(p, stop)
  \/ RefuseSubmit(p) \/ RetrySubmit(p)
  \/ \E d \in Domains : domain[d].accepted /\ StartCommit(p, d)
  \/ \E stop \in {"done"} \cup ({"partial", "whole", "directory", "state"} \cap stops) : Publish(p, stop)
  \/ RetryCommit(p)

\* Requirements wait for every domain they have asked for, and compete for
\* lanes; no scope grows, no commit is found unfit or unknown to its domain, and
\* a candidate is accepted or failed at its first review.
WaitNext ==
  \/ \E r \in Requirements, d \in Domains : Reserve(r, d, {})
  \/ Statuses
  \/ \E l \in Leases : l.type # "entity_resolution" /\ (ClaimWorker(l) \/ ReleaseWorker(l))
  \/ \E o \in Agents, d \in Domains :
       \/ domain[d].state # "review_pending" /\ ClaimOwner(o, d)
       \/ ReleaseOwner(o, d)
  \/ \E d \in Domains, u \in {"accept", "fail"}, a \in Agents :
       ~domain[d].accepted /\ Review(d, u, a)
  \/ \E r \in Requirements, o \in Agents :
       Mark(r, {d \in Domains : r \in domain[d].askers}, o)
  \/ \E p \in Procs : Sensible(p, Stops) \/ Resuming(p)

WaitSpec == Init /\ [][WaitNext]_vars
=============================================================================
