----------------------- MODULE ProjectConfigurationMC -----------------------
(* A small instance of ProjectConfiguration.                                *)
EXTENDS ProjectConfiguration, TLC

\* Requests and the ids of rows are interchangeable.
IdSymmetry ==
  Permutations(Requests) \cup Permutations(Providers) \cup Permutations(Models)
    \cup Permutations(Agents) \cup Permutations(Phases)
=============================================================================
