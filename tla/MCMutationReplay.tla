-------------------------- MODULE MCMutationReplay --------------------------
(* A small instance of MutationReplay. *)
EXTENDS MutationReplay
=============================================================================
