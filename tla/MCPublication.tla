----------------------------- MODULE MCPublication -----------------------------
(* Instances of Publication for TLC. *)
EXTENDS Publication

CONSTANTS p, q
================================================================================
