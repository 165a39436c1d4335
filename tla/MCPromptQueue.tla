--------------------------- MODULE MCPromptQueue ---------------------------
(***************************************************************************)
(* Instances of PromptQueue for TLC.  Inputs are interchangeable and no    *)
(* liveness property is checked with the symmetry.                         *)
(***************************************************************************)
EXTENDS PromptQueue, TLC

InputSymmetry == Permutations(Inputs)
=============================================================================
