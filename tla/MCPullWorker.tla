----------------------------- MODULE MCPullWorker -----------------------------
(* A small instance of PullWorker. *)
EXTENDS PullWorker, TLC

\* The order of the jobs is in their records.
JobSymmetry == Permutations(Job)
=============================================================================
