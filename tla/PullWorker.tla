------------------------------ MODULE PullWorker ------------------------------
(***************************************************************************)
(* The Mac that works for the ledger of PullWorkerHost                     *)
(* (src/server/mac-pull-worker.ts), the HTTP calls between them            *)
(* (src/server/pull-worker-http.ts) and the executions it starts through   *)
(* the local agent service.                                                *)
(*                                                                         *)
(* The connector runs one operation at a time: a step (finish, heartbeat   *)
(* or claim-begin-start) or the stop of a disconnect or close.  Its calls  *)
(* have a deadline; a call given up may still be served later, and its     *)
(* reply is lost.  A start given up may still succeed, outside the chain.  *)
(***************************************************************************)
EXTENDS PullWorkerHost

CONSTANTS
    None,        \* no job
    MaxOrphans,  \* bound: calls given up and still under way
    MaxCrashes   \* bound: restarts of the Mac

ASSUME MacConstants == None \notin Job /\ {MaxOrphans, MaxCrashes} \subseteq Nat

Execution == {"none", "running"} \cup Outcome

Call == [op: {"none", "claim", "begin", "heartbeat", "finish"},
         job: Job \cup {None}, lease: Nat, result: {"none"} \cup Outcome]
NoCall == [op |-> "none", job |-> None, lease |-> 0, result |-> "none"]

Answer == [kind: {"pending", "claim", "empty", "ok", "cancel"},
           job: Job \cup {None}, lease: Nat]
Pending == [kind |-> "pending", job |-> None, lease |-> 0]
Says(kind) == [Pending EXCEPT !.kind = kind]

\* The job the connector owns, with the handle of its execution.
Active == [job: Job \cup {None}, lease: Nat,
           watched: BOOLEAN,     \* its result is listened to
           outcome: {"none"} \cup Outcome,
           failed: BOOLEAN]      \* its result was rejected
Nothing == [job |-> None, lease |-> 0, watched |-> FALSE, outcome |-> "none",
            failed |-> FALSE]

\* executor.start(): launched once the local agent service runs the job.
Start == [pc: {"none", "called", "launched", "stopping"},
          job: Job \cup {None}, lease: Nat, late: BOOLEAN]
NoStart == [pc |-> "none", job |-> None, lease |-> 0, late |-> FALSE]

VARIABLES
    pc,         \* what the operation at the head of the chain awaits
    call,       \* the call it awaits
    answer,     \* the server's answer to that call
    orphans,    \* calls given up that the server may still serve
    active,
    start,
    blocked, uncertain, closed,
    stopAsked,  \* a disconnect or close waits in the chain
    execution,  \* job -> its execution on the Mac
    provable,   \* jobs whose settlement this process can prove
    cancelling, \* jobs the local agent service was asked to cancel
    crashes

switches == <<blocked, uncertain, closed, stopAsked>>
local == <<execution, provable, cancelling>>
mac == <<pc, call, answer, orphans, active, start, switches, local, crashes>>
vars == <<hostVars, mac>>

Owned == active.job # None
Settled == active.outcome # "none"
Calls(c) == call' = c /\ answer' = Pending
Silent == call' = NoCall /\ answer' = Pending
Goto(next) == pc' = next /\ Silent

FinishCall == [op |-> "finish", job |-> active.job, lease |-> active.lease,
               result |-> active.outcome]
HeartbeatCall == [NoCall EXCEPT !.op = "heartbeat", !.job = active.job,
                                !.lease = active.lease]

-----------------------------------------------------------------------------
(***************************************************************************)
(* The connector: stopOwned, stepOnce and the rest of its chain.           *)
(***************************************************************************)

\* stopOwned for an execution that has not reported its outcome.
Stops(next) == /\ Goto(next)
               /\ cancelling' = cancelling \cup {active.job}

\* The catch of stepOnce.
Fail == /\ blocked' = TRUE
        /\ IF Owned /\ ~Settled THEN Stops("stop")
           ELSE Goto("idle") /\ UNCHANGED cancelling

Step ==
    /\ pc = "idle" /\ ~stopAsked /\ ~closed /\ ~blocked
    /\ \/ /\ Settled
          /\ pc' = "finish" /\ Calls(FinishCall)
          /\ UNCHANGED <<blocked, cancelling>>
       \/ /\ Owned /\ ~Settled /\ active.failed
          /\ Fail
       \/ /\ Owned /\ ~Settled /\ ~active.failed
          /\ pc' = "heartbeat" /\ Calls(HeartbeatCall)
          /\ UNCHANGED <<blocked, cancelling>>
       \/ /\ ~Owned
          /\ pc' = "claim" /\ Calls([NoCall EXCEPT !.op = "claim"])
          /\ UNCHANGED <<blocked, cancelling>>
    /\ UNCHANGED <<hostVars, orphans, active, start, uncertain, closed,
                   stopAsked, execution, provable, crashes>>

Claimed ==
    /\ pc = "claim"
    /\ \/ answer.kind = "empty" /\ Goto("idle")
       \/ /\ answer.kind = "claim"
          /\ pc' = "begin"
          /\ Calls([NoCall EXCEPT !.op = "begin", !.job = answer.job,
                                  !.lease = answer.lease])
    /\ UNCHANGED <<hostVars, orphans, active, start, switches, local, crashes>>

BeginAcknowledged ==
    /\ pc = "begin" /\ answer.kind = "ok"
    /\ Goto("start")
    /\ uncertain' = TRUE
    /\ start' = [pc |-> "called", job |-> call.job, lease |-> call.lease,
                 late |-> FALSE]
    /\ UNCHANGED <<hostVars, orphans, active, blocked, closed, stopAsked,
                   local, crashes>>

HeartbeatAcknowledged ==
    /\ pc = "heartbeat"
    /\ \/ answer.kind = "ok" /\ Goto("idle") /\ UNCHANGED cancelling
       \/ /\ answer.kind = "cancel" /\ Settled
          /\ pc' = "finish" /\ Calls(FinishCall)
          /\ UNCHANGED cancelling
       \/ answer.kind = "cancel" /\ ~Settled /\ Stops("stopThenFinish")
    /\ UNCHANGED <<hostVars, orphans, active, start, switches, execution,
                   provable, crashes>>

FinishAcknowledged ==
    /\ pc = "finish" /\ answer.kind = "ok"
    /\ Goto("idle")
    /\ active' = Nothing
    /\ UNCHANGED <<hostVars, orphans, start, switches, local, crashes>>

\* An error, an answer that does not validate, or the deadline of the call.
CallFails ==
    /\ call.op # "none"
    /\ \/ UNCHANGED orphans
       \/ /\ answer.kind = "pending"
          /\ Cardinality(orphans) < MaxOrphans
          /\ orphans' = orphans \cup {call}
    /\ Fail
    /\ UNCHANGED <<hostVars, active, start, uncertain, closed, stopAsked,
                   execution, provable, crashes>>

\* Mutated StoppedByCancel: the signal was delivered.
StoppedBySignal == active.job \in cancelling /\ ~active.failed

\* The execution was cancelled and this process has the proof of its cleanup.
StoppedByCancel == /\ active.job \in provable /\ ~active.failed
                   /\ execution[active.job] = "cancelled"

StopSucceeds ==
    /\ pc \in {"stop", "stopThenFinish"} /\ StoppedByCancel
    /\ active' = [active EXCEPT !.outcome = "cancelled"]
    /\ IF pc = "stop" THEN Goto("idle")
       ELSE pc' = "finish" /\ Calls([FinishCall EXCEPT !.result = "cancelled"])
    /\ UNCHANGED <<hostVars, orphans, start, switches, local, crashes>>

\* Mutated StopFails: the cleanup has no deadline.
StopFailsNoDeadline ==
    /\ pc \in {"stop", "stopThenFinish"}
    /\ active.failed \/ execution[active.job] \in {"completed", "failed"}
    /\ \/ pc = "stop" /\ Goto("idle") /\ UNCHANGED <<blocked, cancelling>>
       \/ pc = "stopThenFinish" /\ Fail
    /\ UNCHANGED <<hostVars, orphans, active, start, uncertain, closed,
                   stopAsked, execution, provable, crashes>>

\* The cleanup times out, or the execution ends some other way.
StopFails ==
    /\ \/ pc = "stop" /\ Goto("idle") /\ UNCHANGED <<blocked, cancelling>>
       \/ pc = "stopThenFinish" /\ Fail
    /\ UNCHANGED <<hostVars, orphans, active, start, uncertain, closed,
                   stopAsked, execution, provable, crashes>>

\* Mutated Reconnect: an uncertain start is forgotten.
ReconnectUncertain ==
    /\ blocked /\ ~closed /\ (Owned => Settled)
    /\ blocked' = FALSE
    /\ UNCHANGED <<hostVars, pc, call, answer, orphans, active, start,
                   uncertain, closed, stopAsked, local, crashes>>

Reconnect ==
    /\ blocked /\ ~closed /\ ~uncertain /\ (Owned => Settled)
    /\ blocked' = FALSE
    /\ UNCHANGED <<hostVars, pc, call, answer, orphans, active, start,
                   uncertain, closed, stopAsked, local, crashes>>

\* disconnect() or close(): the flag at once, the stop in its turn.
Disconnect ==
    /\ ~stopAsked /\ stopAsked' = TRUE
    /\ \/ blocked' = TRUE /\ UNCHANGED closed
       \/ closed' = TRUE /\ UNCHANGED blocked
    /\ UNCHANGED <<hostVars, pc, call, answer, orphans, active, start,
                   uncertain, local, crashes>>

RunStop ==
    /\ pc = "idle" /\ stopAsked
    /\ stopAsked' = FALSE
    /\ IF Owned /\ ~Settled THEN Stops("stop")
       ELSE Goto("idle") /\ UNCHANGED cancelling
    /\ UNCHANGED <<hostVars, orphans, active, start, blocked, uncertain,
                   closed, execution, provable, crashes>>

-----------------------------------------------------------------------------
(***************************************************************************)
(* Starting an execution.                                                  *)
(***************************************************************************)

\* The local agent service submits the job under a key made of its id: one
\* that was submitted before, by an earlier process too, is not run again.
StartLaunches ==
    /\ start.pc = "called"
    /\ start' = [start EXCEPT !.pc = "launched"]
    /\ IF execution[start.job] = "none"
       THEN /\ execution' = [execution EXCEPT ![start.job] = "running"]
            /\ provable' = provable \cup {start.job}
       ELSE UNCHANGED <<execution, provable>>
    /\ UNCHANGED <<hostVars, pc, call, answer, orphans, active, switches,
                   cancelling, crashes>>

StartSucceeds ==
    /\ pc = "start" /\ start.pc = "launched"
    /\ Goto("idle")
    /\ active' = [Nothing EXCEPT !.job = start.job, !.lease = start.lease,
                                 !.watched = TRUE]
    /\ start' = NoStart
    /\ uncertain' = FALSE
    /\ UNCHANGED <<hostVars, orphans, blocked, closed, stopAsked, local, crashes>>

\* start() is rejected, or its deadline passes and it goes on unattended.
StartFails ==
    /\ pc = "start"
    /\ Fail
    /\ start' = NoStart \/ start' = [start EXCEPT !.late = TRUE]
    /\ UNCHANGED <<hostVars, orphans, active, uncertain, closed, stopAsked,
                   execution, provable, crashes>>

LateStartSucceeds ==
    /\ start.late /\ start.pc = "launched"
    /\ active' = [Nothing EXCEPT !.job = start.job, !.lease = start.lease]
    /\ start' = [start EXCEPT !.pc = "stopping"]
    /\ cancelling' = cancelling \cup {start.job}
    /\ UNCHANGED <<hostVars, pc, call, answer, orphans, switches, execution,
                   provable, crashes>>

LateStopSucceeds ==
    /\ start.pc = "stopping" /\ StoppedByCancel
    /\ active' = [active EXCEPT !.outcome = "cancelled"]
    /\ uncertain' = FALSE
    /\ start' = NoStart
    /\ UNCHANGED <<hostVars, pc, call, answer, orphans, blocked, closed,
                   stopAsked, local, crashes>>

LateStartFails ==
    /\ start.late
    /\ start' = NoStart
    /\ UNCHANGED <<hostVars, pc, call, answer, orphans, active, switches,
                   local, crashes>>

-----------------------------------------------------------------------------
(***************************************************************************)
(* The executions, and what the handle of one reports.                     *)
(***************************************************************************)
ExecutionEnds(j) ==
    /\ execution[j] = "running"
    /\ \/ \E o \in {"completed", "failed"} : execution' = [execution EXCEPT ![j] = o]
       \/ /\ j \in cancelling
          /\ execution' = [execution EXCEPT ![j] = "cancelled"]
    /\ UNCHANGED <<hostVars, pc, call, answer, orphans, active, start,
                   switches, provable, cancelling, crashes>>

Listens == active.watched /\ ~Settled /\ ~active.failed

\* Mutated ResultResolves: the status is reported while the job runs.
ResultResolvesEarly ==
    /\ Listens /\ active.job \in provable
    /\ active' = [active EXCEPT !.outcome = execution[active.job]]
    /\ UNCHANGED <<hostVars, pc, call, answer, orphans, start, switches,
                   local, crashes>>

ResultResolves ==
    /\ Listens /\ active.job \in provable
    /\ execution[active.job] \in Outcome
    /\ active' = [active EXCEPT !.outcome = execution[active.job]]
    /\ UNCHANGED <<hostVars, pc, call, answer, orphans, start, switches,
                   local, crashes>>

\* Cleanup not verified in time, or no proof is left after a restart.
ResultRejected ==
    /\ Listens
    /\ active' = [active EXCEPT !.failed = TRUE]
    /\ UNCHANGED <<hostVars, pc, call, answer, orphans, start, switches,
                   local, crashes>>

\* The Mac restarts.  Its agent service remembers the jobs it was given, but
\* not what became of their processes.
MacRestarts ==
    /\ crashes < MaxCrashes
    /\ crashes' = crashes + 1
    /\ \/ UNCHANGED orphans
       \/ /\ call.op # "none" /\ answer.kind = "pending"
          /\ Cardinality(orphans) < MaxOrphans
          /\ orphans' = orphans \cup {call}
    /\ Goto("idle")
    /\ active' = Nothing /\ start' = NoStart
    /\ blocked' = FALSE /\ uncertain' = FALSE /\ closed' = FALSE
    /\ stopAsked' = FALSE
    /\ provable' = {} /\ cancelling' = {}
    /\ UNCHANGED <<hostVars, execution>>

-----------------------------------------------------------------------------
(***************************************************************************)
(* The server serves a call.                                               *)
(***************************************************************************)
Answers(awaited, a) == IF awaited THEN answer' = a ELSE UNCHANGED answer

\* The transaction of call c; the answer to a call given up is lost.
Serves(c, awaited) ==
    \/ /\ c.op = "claim"
       /\ \/ ClaimNothing /\ Answers(awaited, Says("empty"))
          \/ \E j \in Job :
                /\ ClaimAgain(j) \/ ClaimNext(j)
                /\ Answers(awaited, [kind |-> "claim", job |-> j,
                                     lease |-> ledger'[j].leaseId])
    \/ /\ c.op = "begin"
       /\ Begin(c.job, c.lease)
       /\ Answers(awaited, Says("ok"))
    \/ /\ c.op = "heartbeat"
       /\ Heartbeat(c.job, c.lease)
       /\ Answers(awaited, Says(IF ledger[c.job].cancellationRequested
                                THEN "cancel" ELSE "ok"))
    \/ /\ c.op = "finish"
       /\ Finish(c.job, c.lease, c.result)
       /\ Answers(awaited, Says("ok"))

ServeCall ==
    /\ call.op # "none" /\ answer.kind = "pending"
    /\ Serves(call, TRUE)
    /\ UNCHANGED <<pc, call, orphans, active, start, switches, local, crashes>>

ServeOrphan(c) ==
    /\ Serves(c, FALSE)
    /\ orphans' = orphans \ {c}
    /\ UNCHANGED <<pc, call, active, start, switches, local, crashes>>

ServerSteps == /\ ServerCalls \/ \E j \in Job : LeaseLapses(j)
               /\ UNCHANGED mac

-----------------------------------------------------------------------------
Init ==
    /\ HostInit
    /\ pc = "idle" /\ call = NoCall /\ answer = Pending /\ orphans = {}
    /\ active = Nothing /\ start = NoStart
    /\ blocked = FALSE /\ uncertain = FALSE /\ closed = FALSE
    /\ stopAsked = FALSE
    /\ execution = [j \in Job |-> "none"]
    /\ provable = {} /\ cancelling = {}
    /\ crashes = 0

\* What ends what the chain awaits: an answer or a deadline.
Progress == \/ Claimed \/ BeginAcknowledged \/ HeartbeatAcknowledged
            \/ FinishAcknowledged \/ CallFails
            \/ StopSucceeds \/ StopFails
            \/ StartSucceeds \/ StartFails

Next ==
    \/ Step \/ Progress \/ Reconnect \/ Disconnect \/ RunStop
    \/ StartLaunches \/ LateStartSucceeds \/ LateStopSucceeds \/ LateStartFails
    \/ \E j \in Job : ExecutionEnds(j)
    \/ ResultResolves \/ ResultRejected \/ MacRestarts
    \/ ServeCall \/ \E c \in orphans : ServeOrphan(c)
    \/ ServerSteps

Spec == Init /\ [][Next]_vars

\* The deadlines of calls, starts and cleanups pass, and promises run.
FairSpec == Spec /\ WF_vars(Progress) /\ WF_vars(RunStop)
-----------------------------------------------------------------------------
(***************************************************************************)
(* Properties.                                                             *)
(***************************************************************************)

\* Every variable has its type.
TypeOK ==
    /\ HostTypeOK
    /\ pc \in {"idle", "claim", "begin", "start", "heartbeat", "finish",
               "stop", "stopThenFinish"}
    /\ call \in Call /\ answer \in Answer /\ orphans \subseteq Call
    /\ active \in Active /\ start \in Start
    /\ blocked \in BOOLEAN /\ uncertain \in BOOLEAN
    /\ closed \in BOOLEAN /\ stopAsked \in BOOLEAN
    /\ execution \in [Job -> Execution]
    /\ provable \subseteq Job /\ cancelling \subseteq Job
    /\ crashes \in Nat

\* At most one execution runs on the Mac at any time, whatever calls are lost
\* or late, whichever starts are given up, and across its restarts: the one
\* that runs is the job the ledger has running or quarantined.
OneExecution ==
    \A i, j \in Job :
        execution[i] = "running" /\ execution[j] = "running" => i = j

\* The ledger never calls a job settled that may still run: a result is the
\* outcome of the execution, and a job cancelled without one is never started.
SettledMeansStopped ==
    \A j \in Job :
        ledger[j].state \in Outcome =>
            \/ execution[j] = ledger[j].result
            \/ execution[j] = "none" /\ ledger[j].result = "cancelled"

\* The connector asks for work only when nothing it started may still run.
ClaimsOnlyWhenStopped ==
    pc = "claim" => \A j \in provable : execution[j] # "running"

\* Whatever the chain awaits comes to an end, though no call is answered, no
\* start returns and no execution ends; and so does a disconnect in the chain.
ChainMoves == /\ pc # "idle" ~> pc = "idle"
              /\ stopAsked ~> ~stopAsked

\* The hand-off the agent service of the server relies on.
SlotOf == IF InState(Outstanding) = {} THEN None
          ELSE CHOOSE j \in Job : j \in InState(Outstanding)
Contract == INSTANCE Handoff WITH
    waiting <- InState({"queued"}),
    slot <- SlotOf,
    begun <- InState(Begun) # {},
    result <- [j \in Job |-> ledger[j].result]
ImplementsHandoff == Contract!Spec
=============================================================================
