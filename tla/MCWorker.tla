------------------------------ MODULE MCWorker ------------------------------
(***************************************************************************)
(* Worker for TLC. Workers are interchangeable, so are the scans that are  *)
(* not singled out by Poison; the symmetry is used by safety runs only.    *)
(***************************************************************************)
EXTENDS Worker, TLC

WorkerSymmetry == Permutations(Workers)
Symmetry == Permutations(Workers) \cup Permutations(Jobs)

=============================================================================
