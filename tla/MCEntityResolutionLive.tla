----------------------- MODULE MCEntityResolutionLive -----------------------
(* Liveness of the longer calls, on instances of MCEntityResolution.       *)
EXTENDS MCEntityResolution

WaitsEnd == WaitSpec /\ Fairness
=============================================================================
