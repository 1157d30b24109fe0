------------------------- MODULE ProjectRevisionsMC -------------------------
(***************************************************************************)
(* ProjectRevisions for TLC.  Runs, reviews, edits and paths are model     *)
(* values that the specification treats alike, so permuting them is a      *)
(* symmetry; the liveness run does without it.                             *)
(***************************************************************************)
EXTENDS ProjectRevisions, TLC

IdSymmetry ==
  Permutations(Runs) \cup Permutations(Reviews) \cup Permutations(Edits)
    \cup Permutations(Paths)

=============================================================================
