--------------------------- MODULE IdentityRecords --------------------------
(***************************************************************************)
(* Resolution results and what a model can take: the records of a result,  *)
(* and the two things for which adding it to a model fails.                *)
(***************************************************************************)
CONSTANTS
  Results,       \* resolution results
  Ids, Values,   \* identifiers of records, and what they may say
  Contents,      \* the records of each result; None where it has no record
  Refers,        \* identifiers its relationships and mappings point to
  None

ASSUME ContentsType ==
  /\ Contents \in [Results -> [Ids -> Values \cup {None}]]
  /\ Refers \in [Results -> SUBSET Ids]
ASSUME NoneIsNoRecord == None \notin Results \cup Values

Compatible(x, y) ==
  \A i \in Ids : Contents[x][i] = Contents[y][i] \/ None \in {Contents[x][i], Contents[y][i]}

Named(xs) == {i \in Ids : \E x \in xs : Contents[x][i] # None}

\* _apply_result raises neither a collision nor an unknown reference.
Applies(base, x) ==
  /\ \A y \in base : Compatible(x, y)
  /\ Refers[x] \subseteq Named(base \cup {x})
=============================================================================
