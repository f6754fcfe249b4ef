--------------------------- MODULE MCRunGenerations ---------------------------
(* Instances of RunGenerations for TLC. *)
EXTENDS RunGenerations
CONSTANTS a, b, asked, changed, p, q
===============================================================================
