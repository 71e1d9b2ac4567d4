------------------------------ MODULE Dispatching ------------------------------
(***************************************************************************)
(* What the agent service and the dispatcher of an external worker         *)
(* (src/server/agent-execution-port.ts) agree on, task by task: what       *)
(* observe answers, as the service reads it, and how it may change.        *)
(* A task is sent once.  It waits, runs and ends with one outcome; from    *)
(* the moment its cancellation is recorded that is no completion.  A       *)
(* quarantined task counts as failed, and is the only one whose outcome    *)
(* may still change: the worker may report that it has stopped after all.  *)
(*                                                                         *)
(* The storage queue with its worker (AzureDispatch) and the ledger of the *)
(* pull worker (PullWorkerHost) answer by these rules; the service         *)
(* (AgentJobs) leaves its worker everything they allow.                    *)
(***************************************************************************)
CONSTANT Job

Status == {"none", "queued", "running", "completed", "failed", "cancelled"}

VARIABLES
    task,    \* job -> what observe answers, "none" for a job it does not know
    asked    \* the jobs whose cancellation is recorded

dispatchingVars == <<task, asked>>

Init == task = [j \in Job |-> "none"] /\ asked = {}

\* Where the worker may take a task that is at status.
After(status, stop) ==
    CASE status = "queued" -> {"running", "failed"}
                              \cup IF stop THEN {"cancelled"} ELSE {}
      [] status = "running" -> {"failed", "cancelled"}
                               \cup IF stop THEN {} ELSE {"completed"}
      [] status = "failed" -> {"cancelled"}
      [] OTHER -> {}

Moves(j) ==
    \/ task'[j] = task[j]
    \/ task[j] = "none" /\ task'[j] = "queued"
    \/ task'[j] \in After(task[j], j \in asked')

\* One step may be about several tasks: a transaction of the ledger sweeps all.
Next ==
    /\ asked \subseteq asked' /\ \A j \in asked' \ asked : j \in Job /\ task[j] # "none"
    /\ task' \in [Job -> Status] /\ \A j \in Job : Moves(j)

Spec == Init /\ [][Next]_dispatchingVars
=============================================================================
