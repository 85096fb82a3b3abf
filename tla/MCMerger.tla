------------------------------ MODULE MCMerger ------------------------------
(***************************************************************************)
(* The workers of the pool are alike: a state is the same state when they  *)
(* change places.  (Only for the runs that check no liveness.)             *)
(***************************************************************************)
EXTENDS Merger, TLC

WorkerSymmetry == Permutations(Worker)
=============================================================================
