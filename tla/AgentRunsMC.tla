---------------------------- MODULE AgentRunsMC ----------------------------
(***************************************************************************)
(* AgentRuns for TLC: the identities of workers are interchangeable, those *)
(* of runs are not (they are ordered by created_at).                       *)
(***************************************************************************)
EXTENDS AgentRuns, TLC

WorkerSymmetry == Permutations(Workers)

=============================================================================
