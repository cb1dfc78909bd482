------------------------------ MODULE MC_Pool ------------------------------
(***************************************************************************)
(* TLC instances of WorkStealingPool.  The threads and tasks are model     *)
(* values; tasks are interchangeable, workers (numbers) and the owner are  *)
(* not.                                                                    *)
(***************************************************************************)
EXTENDS WorkStealingPool, TLC

TaskSymmetry == Permutations(Task)
=============================================================================
