------------------------------ MODULE Admissions ------------------------------
(***************************************************************************)
(* What the agent service and its admission controller agree on, job by    *)
(* job: the reservation bound to a job goes from bound over                *)
(* terminal_pending to released, or waits as unresolved for an operator.   *)
(* What is bound survives a crash.  A server that starts again binds the   *)
(* active jobs before anything else happens, and leaves what another job   *)
(* has bound to an operator; it frees nothing.                             *)
(*                                                                         *)
(* The controller (AgentAdmission) keeps this in its journal, through      *)
(* queued calls, failed writes and crashes; the service (AgentJobs) calls  *)
(* the controller, and sees one step where the controller takes several.   *)
(***************************************************************************)
CONSTANT Job

VARIABLES
    phase,   \* job -> the phase of the reservation bound to it, or none
    open     \* the server runs and has reconstructed its reservations

admissionsVars == <<phase, open>>

Init == phase = [j \in Job |-> "none"] /\ open = TRUE

\* A reservation that is not bound yet counts for the limits, but for no job.
Bind(j) ==
    /\ open /\ phase[j] = "none"
    /\ phase' = [phase EXCEPT ![j] = "bound"] /\ UNCHANGED open

MarkTerminalPending(j) ==
    /\ open /\ phase[j] = "bound"
    /\ phase' = [phase EXCEPT ![j] = "terminal_pending"] /\ UNCHANGED open

MarkUnresolved(j) ==
    /\ open /\ phase[j] \in {"bound", "terminal_pending"}
    /\ phase' = [phase EXCEPT ![j] = "unresolved"] /\ UNCHANGED open

Release(j) ==
    /\ open /\ phase[j] # "none"
    /\ phase' = [phase EXCEPT ![j] = "none"] /\ UNCHANGED open

Crash == open /\ open' = FALSE /\ UNCHANGED phase

Reconstruct(active) ==
    /\ ~open /\ open' = TRUE
    /\ phase' = [j \in Job |-> IF j \in active THEN "bound"
                               ELSE IF phase[j] = "bound" THEN "unresolved"
                               ELSE phase[j]]

\* The result could not be journalled.
ReconstructFails == ~open /\ open' = TRUE /\ UNCHANGED phase

Next ==
    \/ \E j \in Job : \/ Bind(j) \/ MarkTerminalPending(j)
                      \/ MarkUnresolved(j) \/ Release(j)
    \/ Crash \/ ReconstructFails
    \/ \E active \in SUBSET Job : Reconstruct(active)

Spec == Init /\ [][Next]_admissionsVars
=============================================================================
