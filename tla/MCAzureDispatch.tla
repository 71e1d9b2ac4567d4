--------------------------- MODULE MCAzureDispatch ---------------------------
(* Small instances of AzureDispatch: one worker or two, one or two calls of   *)
(* enqueue, one or two queue messages.                                        *)
EXTENDS AzureDispatch, TLC

WorkerSymmetry == Permutations(Worker)
=============================================================================
