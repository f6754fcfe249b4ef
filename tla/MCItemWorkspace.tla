--------------------------- MODULE MCItemWorkspace ---------------------------
EXTENDS ItemWorkspace, TLC
CONSTANTS draft1, draft2, draft3
\* draft3 differs from the others in a field a repair may not touch.
MCEnvelope == [d \in Drafts |-> IF d = draft3 THEN 2 ELSE 1]
Sym == Permutations(Handles)
=============================================================================
