-------------------------- MODULE IdentityAuthority -------------------------
(***************************************************************************)
(* What the registry of identity domains promises to the rest of a run:    *)
(* each domain is bound to at most one result, once and for all, and the   *)
(* results bound together can be taken into one model.                     *)
(***************************************************************************)
EXTENDS IdentityRecords

CONSTANT Domains

VARIABLE binding

Bound == {binding[d] : d \in {c \in Domains : binding[c] # None}}

Init == binding = [d \in Domains |-> None]

Bind(d, x) ==
  /\ binding[d] = None
  /\ Applies(Bound, x)
  /\ binding' = [binding EXCEPT ![d] = x]

Next == \E d \in Domains, x \in Results : Bind(d, x)

Spec == Init /\ [][Next]_binding
=============================================================================
