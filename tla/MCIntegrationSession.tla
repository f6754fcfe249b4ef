------------------------- MODULE MCIntegrationSession -------------------------
EXTENDS IntegrationSession
CONSTANTS ent, rel, ast
\* The first content of the relationship names the entity.
MCRequires == [x \in RecordIds \X Bodies |-> IF x = <<rel, 1>> THEN {ent} ELSE {}]
\* Another item may publish the asset with its second content.
MCRivals == {[id |-> ast, body |-> 2]}
===============================================================================
