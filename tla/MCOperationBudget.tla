------------------------- MODULE MCOperationBudget -------------------------
(***************************************************************************)
(* Instances of OperationBudget for TLC: two children, one of them         *)
(* detached, under a limit small enough to be reached.                     *)
(***************************************************************************)
EXTENDS OperationBudget

MCChild    == 1 .. 2
MCDetached == {2}
=============================================================================
