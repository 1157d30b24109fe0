------------------------- MODULE ProjectLifecycleMC -------------------------
(* A small instance of ProjectLifecycle: two requests for one project, any  *)
(* two faults.                                                              *)
EXTENDS ProjectLifecycle

FaultsOfARun == AllFaults
=============================================================================
