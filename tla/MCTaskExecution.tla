-------------------------- MODULE MCTaskExecution --------------------------
(***************************************************************************)
(* TaskExecution with interchangeable tasks.                               *)
(***************************************************************************)
EXTENDS TaskExecution, TLC

Symmetry == Permutations(Tasks)
=============================================================================
