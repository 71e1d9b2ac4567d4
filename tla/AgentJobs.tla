------------------------------ MODULE AgentJobs ------------------------------
(***************************************************************************)
(* The agent service (src/server/agent-service.ts) over its job store      *)
(* (src/server/agent-job-store.ts): a job from its submission over its     *)
(* approval, execution, cancellation and observation to the release of its *)
(* admission.                                                              *)
(*                                                                         *)
(* Most of this happens under a lock per job, with awaits inside; what     *)
(* does not take the lock (the failure of a dispatch, the end of an        *)
(* admission) interleaves with it.  A step runs from one await to the      *)
(* next.  A critical section nobody outside can tell from a single step is *)
(* one step that finds the lock free.  A mutation of the store shows after *)
(* its write and is one step; so is a mutation of the admission            *)
(* controller, whose chain and journal are those of AgentAdmission.        *)
(*                                                                         *)
(* Jobs run in this process, or at a worker behind a dispatcher (the Azure *)
(* queue); the worker is modelled by what the service observes of it.      *)
(***************************************************************************)
EXTENDS Naturals, FiniteSets

CONSTANTS
    Job,            \* the jobs; a job is also the name of its execution here
    Caller,         \* requests under way at the same time
    Poller, Expirer,\* the observation timer and the approval timer
    Fault,          \* the calls that may fail
    MaxFaults,      \* bound: failures and crashes of the server together
    MaxDecisions,   \* bound: decisions on the approval of one job
    EarlyRequests,  \* requests may name a job before its submission answered
    None

ASSUME FaultAssumption ==
    Fault \subseteq {"create", "bind", "dispatch", "sent", "start", "update",
                     "asked", "ack", "release", "unresolve", "marker", "belated"}

ASSUME ProcessAssumption ==
    /\ Job \cap Caller = {}
    /\ {Poller, Expirer} \cap (Job \cup Caller) = {} /\ Poller # Expirer
    /\ None \notin Job \cup Caller \cup {Poller, Expirer}

Process == Job \cup Caller \cup {Poller, Expirer}
Server == Caller \cup {Poller, Expirer}

VARIABLES
    external,       \* a dispatcher is configured
    up,             \* the server runs
    rec,            \* rec[j]: the stored job
    reservation,    \* reservation[j]: the phase of its admission
    held,           \* admissionLeases and executionWorkspaces: the jobs with
                    \* resources of this process
    reconciling,    \* reconciliation: the jobs an operator has to settle
    work,           \* work[j]: what the runner or the worker does
    stop,           \* the jobs whose work was told to stop
    lock,           \* lock[j]: who holds the mutation lock of j
    tree,           \* who holds the lock of the workspace
    op,             \* op[p]: what p is doing
    late,           \* the jobs whose approval is past its deadline
    decisions,      \* decisions[j]: how often an approval was decided
    notices,        \* notices[j]: the endings announced (history)
    faults

store == <<rec, reservation, late>>
memory == <<held, reconciling, lock, tree, op>>
bounds == <<decisions, notices, faults>>
vars == <<external, up, store, memory, work, stop, bounds>>

Ending == {"completed", "failed", "cancelled"}
Active == {"awaiting_approval", "queued", "running"}
Busy == {"queued", "running"}
NoJob == [mode |-> "read-only", status |-> "absent", approval |-> "none",
          asked |-> FALSE, marked |-> FALSE, delivered |-> {}]
Idle == [at |-> "idle", kind |-> "none", job |-> None, saw |-> "none",
         was |-> "none", wasMarked |-> FALSE]

Init ==
    /\ external \in BOOLEAN
    /\ up = TRUE
    /\ rec = [j \in Job |-> NoJob]
    /\ reservation = [j \in Job |-> "none"]
    /\ held = {} /\ reconciling = {}
    /\ work = [j \in Job |-> "none"]
    /\ stop = {}
    /\ lock = [j \in Job |-> None] /\ tree = None
    /\ op = [p \in Process |-> Idle]
    /\ late = {}
    /\ decisions = [j \in Job |-> 0]
    /\ notices = [j \in Job |-> {}]
    /\ faults = 0

-----------------------------------------------------------------------------
(* What a step is made of.                                                 *)

Fails(call) == call \in Fault /\ faults < MaxFaults /\ faults' = faults + 1
Works == UNCHANGED faults

At(p, label) == up /\ op[p].at = label
Goto(p, label) == op' = [op EXCEPT ![p].at = label]
Begin(p, kind, j, label) ==
    op' = [op EXCEPT ![p] = [Idle EXCEPT !.at = label, !.kind = kind, !.job = j]]
Return(p) == op' = [op EXCEPT ![p] = Idle]

Free(j) == lock[j] = None
Submitting(j) == \E c \in Caller : op[c].job = j /\ op[c].kind = "submit"
\* The store shows a job to everyone as soon as it is created.
Known(j) == EarlyRequests \/ ~Submitting(j)
Unlocked(p, j) == IF lock[j] = p THEN [lock EXCEPT ![j] = None] ELSE lock
Leave(p, j) == Return(p) /\ lock' = Unlocked(p, j)
               /\ tree' = IF tree = p THEN None ELSE tree

\* Mutated Settled: the approval gets the status of the job.
SettledAsStatus(r, j) ==
    IF r.approval = "pending" /\ r.status = "cancelled"
    THEN [r EXCEPT !.approval = r.status]
    ELSE r

\* The approval of a job whose status becomes an ending is settled with it.
Settled(r, j) ==
    IF r.approval = "pending" /\ r.status = "cancelled"
    THEN [r EXCEPT !.approval = IF j \in late THEN "expired" ELSE "denied"]
    ELSE r

\* AgentJobStore.update: it refuses another ending than the settled one.
Accepts(j, status) == rec[j].mode = "workspace-write" /\ rec[j].status \in Ending
                         => status = rec[j].status
Update(j, r) == /\ Accepts(j, r.status)
                /\ rec' = [rec EXCEPT ![j] = Settled(r, j)]
                /\ Works
Throws(j, status) == \/ ~Accepts(j, status) /\ Works
                     \/ Fails("update")

RequiresReconciliation(j) == reservation[j] \in {"unresolved", "terminal_pending"}
\* The controller knows a job by the reservation bound to it.
Bound(j) == reservation[j] \notin {"none", "reserved"}
\* markUnresolved, of which nobody awaits whether it succeeds.
Unresolve(j) == \/ reservation' = [reservation EXCEPT
                       ![j] = IF Bound(j) THEN "unresolved" ELSE @]
                \/ "unresolve" \in Fault /\ UNCHANGED reservation

-----------------------------------------------------------------------------
(* submitOnce.                                                             *)

\* The lease of a submission that fails is released, if that can be written.
Withdraw(j) == \/ reservation' = [reservation EXCEPT ![j] = "none"]
               \/ "release" \in Fault /\ UNCHANGED reservation

\* tryAcquire; a request it refuses leaves nothing behind.
Submit(c, j) ==
    /\ At(c, "idle")
    /\ rec[j] = NoJob /\ reservation[j] = "none"
    /\ reservation' = [reservation EXCEPT ![j] = "reserved"]
    /\ Begin(c, "submit", j, "create")
    /\ UNCHANGED <<external, up, rec, late, held, reconciling, lock, tree,
                   work, stop, bounds>>

Create(c) ==
    LET j == op[c].job
    IN /\ At(c, "create")
       /\ \/ /\ \/ rec' = [rec EXCEPT ![j].status = "queued"]
                \/ rec' = [rec EXCEPT ![j].mode = "workspace-write",
                        ![j].status = "awaiting_approval", ![j].approval = "pending"]
             /\ Goto(c, "bind")
             /\ Works /\ UNCHANGED reservation
          \/ Fails("create") /\ Withdraw(j) /\ Return(c) /\ UNCHANGED rec
       /\ UNCHANGED <<external, up, late, held, reconciling, lock, tree, work,
                      stop, decisions, notices>>

\* launchExecution
Launched(f, j) == [f EXCEPT ![j] = [Idle EXCEPT !.at = "start", !.kind = "execute", !.job = j]]

\* The job is in the store already: if it cannot be bound, it stays there.
Bind(c) ==
    LET j == op[c].job
    IN /\ At(c, "bind")
       /\ \/ /\ Works
             /\ reservation' = [reservation EXCEPT ![j] = "bound"]
             /\ held' = held \cup {j}
             /\ IF rec[j].mode = "read-only" /\ external THEN Goto(c, "dispatch")
                ELSE IF rec[j].mode = "read-only" THEN op' = Launched([op EXCEPT ![c] = Idle], j)
                ELSE Return(c)
          \/ Fails("bind") /\ Withdraw(j) /\ Return(c) /\ UNCHANGED held
       /\ UNCHANGED <<external, up, rec, late, reconciling, lock, tree, work,
                      stop, decisions, notices>>

-----------------------------------------------------------------------------
(* dispatchExternally: it does not take the lock.                          *)

Dispatch(c) ==
    LET j == op[c].job
    IN /\ At(c, "dispatch")
       /\ \/ Works /\ work' = [work EXCEPT ![j] = "queued"] /\ Return(c)
          \/ Fails("dispatch") /\ Goto(c, "undispatched") /\ UNCHANGED work
          \/ /\ Fails("sent") /\ Goto(c, "undispatched")
             /\ work' = [work EXCEPT ![j] = "queued"]
       /\ UNCHANGED <<external, up, store, held, reconciling, lock, tree, stop,
                      decisions, notices>>

Undispatched(c) ==
    LET j == op[c].job
    IN /\ At(c, "undispatched")
       /\ \/ Update(j, [rec[j] EXCEPT !.status = "failed"]) /\ Goto(c, "end")
          \/ Throws(j, "failed") /\ Return(c) /\ UNCHANGED rec
       /\ UNCHANGED <<external, up, reservation, late, held, reconciling, lock,
                      tree, work, stop, decisions, notices>>

-----------------------------------------------------------------------------
(* decideApproval and expirePendingApprovals.                              *)

\* A quarter of an hour after the submission.
DeadlinePasses(j) ==
    /\ rec[j].approval = "pending" /\ j \notin late /\ ~Submitting(j)
    /\ late' = late \cup {j}
    /\ UNCHANGED <<external, up, rec, reservation, memory, work, stop, bounds>>

Cancelled(r, approval) == [r EXCEPT !.status = "cancelled", !.approval = approval]
Accepted(r) == [r EXCEPT !.status = "queued", !.approval = "accepted", !.marked = FALSE]

\* The decision was taken before, or came too late: it is answered again.
Replays(j, decision) ==
    \/ rec[j].approval = "expired"
    \/ decision = "accept" /\ rec[j].approval = "accepted"
    \/ decision = "deny" /\ rec[j].approval = "denied"

Approve(p, j) == /\ rec' = [rec EXCEPT ![j] = Accepted(@)]
                 /\ IF external THEN Begin(p, "decide", j, "dispatch")
                                ELSE op' = Launched(op, j)

\* Mutated Accept: an acceptance that is repeated is dispatched again.
AcceptAgain(p, j) == /\ rec[j].approval \in {"pending", "accepted"} /\ j \notin late
                     /\ Approve(p, j)

Accept(p, j) == /\ rec[j].approval = "pending" /\ j \notin late
                /\ Approve(p, j)

Refuse(p, j, decision) ==
    /\ rec[j].approval = "pending"
    /\ decision = "deny" \/ j \in late
    /\ rec' = [rec EXCEPT ![j] = Settled(Cancelled(@, "pending"), j)]
    /\ Begin(p, IF j \in late THEN "expire" ELSE "decide", j, "end")

\* Mutated Replay: the admission ends whatever the job does.
ReplayAnyStatus(p, j, decision) ==
    /\ Replays(j, decision)
    /\ Begin(p, "replay", j, "end")
    /\ UNCHANGED rec

\* finalizeApprovalCancellation runs for a replay as well.
Replay(p, j, decision) ==
    /\ Replays(j, decision)
    /\ rec[j].status = "cancelled"
    /\ Begin(p, "replay", j, "end")
    /\ UNCHANGED rec

Decide(p, j, decision) ==
    /\ At(p, "idle") /\ Free(j)
    /\ IF p = Expirer THEN decision = "expire" /\ rec[j].approval = "pending" /\ j \in late
       ELSE p \in Caller /\ Known(j) /\ decisions[j] < MaxDecisions
    /\ decisions' = IF p = Expirer THEN decisions ELSE [decisions EXCEPT ![j] = @ + 1]
    /\ \/ decision = "accept" /\ Accept(p, j)
       \/ Refuse(p, j, decision)
       \/ Replay(p, j, decision)
    /\ UNCHANGED <<external, up, reservation, late, held, reconciling, lock, tree,
                   work, stop, notices, faults>>

-----------------------------------------------------------------------------
(* cancel.                                                                 *)

\* The runner of a job that runs here is told to stop; its execution ends
\* before the admission does.
Cancel(c, j) ==
    /\ At(c, "idle") /\ c \in Caller /\ Free(j) /\ Known(j)
    /\ rec[j].status \in IF external THEN {"awaiting_approval"} ELSE Active
    /\ LET ran == rec[j].status = "running"
       IN /\ stop' = IF ran THEN stop \cup {j} ELSE stop
          /\ \/ /\ Update(j, Cancelled(rec[j], rec[j].approval))
                /\ Begin(c, "cancel", j, IF ran THEN "await" ELSE "end")
             \/ Throws(j, "cancelled") /\ UNCHANGED <<rec, op>>
    /\ UNCHANGED <<external, up, reservation, late, held, reconciling, lock,
                   tree, work, decisions, notices>>

Await(c) ==
    LET j == op[c].job
    IN /\ At(c, "await") /\ op[j] = Idle
       /\ Goto(c, "end")
       /\ UNCHANGED <<external, up, store, held, reconciling, lock, tree, work,
                      stop, bounds>>

\* What the caller of the dispatcher keeps of the job it read under the lock.
Enter(p, kind, j, label) ==
    /\ Free(j)
    /\ lock' = [lock EXCEPT ![j] = p]
    /\ op' = [op EXCEPT ![p] = [at |-> label, kind |-> kind, job |-> j, saw |-> "none",
                  was |-> rec[j].status, wasMarked |-> rec[j].marked]]

CancelExternal(c, j) ==
    /\ At(c, "idle") /\ c \in Caller
    /\ external /\ rec[j].status \in Busy /\ Known(j)
    /\ Enter(c, "cancel", j, IF rec[j].asked THEN "look" ELSE "ask")
    /\ UNCHANGED <<external, up, store, held, reconciling, tree, work, stop, bounds>>

\* requestCancellation; a task the queue does not have is an error.
Ask(c) ==
    LET j == op[c].job
    IN /\ At(c, "ask")
       /\ \/ /\ work[j] # "none"
             /\ stop' = stop \cup {j}
             /\ Goto(c, "asked") /\ UNCHANGED <<lock, tree>>
          \/ work[j] = "none" /\ Leave(c, j) /\ UNCHANGED stop
       /\ UNCHANGED <<external, up, store, held, reconciling, work, bounds>>

Asked(c) ==
    LET j == op[c].job
    IN /\ At(c, "asked")
       /\ \/ /\ Works /\ rec' = [rec EXCEPT ![j].asked = TRUE]
             /\ Goto(c, "look") /\ UNCHANGED <<lock, tree>>
          \/ Fails("asked") /\ Leave(c, j) /\ UNCHANGED rec
       /\ UNCHANGED <<external, up, reservation, late, held, reconciling, work,
                      stop, decisions, notices>>

-----------------------------------------------------------------------------
(* observe and reconcileDurableObservation, under the lock throughout.     *)

\* The timer passes over endings that need no announcement any more.
Settles(p, j) == p = Poller /\ rec[j].status \in Ending
                   => /\ rec[j].status \notin rec[j].delivered
                      /\ rec[j].status = "cancelled" => rec[j].asked

Observe(p, j) ==
    /\ At(p, "idle") /\ p \in Caller \cup {Poller}
    /\ external /\ rec[j].status \in Busy \cup Ending
    /\ Settles(p, j)
    /\ Enter(p, "observe", j, "look")
    /\ UNCHANGED <<external, up, store, held, reconciling, tree, work, stop, bounds>>

\* Mutated Look: what the worker does counts more than the stored ending.
LookTrusting(p) ==
    LET j == op[p].job
    IN /\ At(p, "look")
       /\ op' = IF work[j] = "none" THEN [op EXCEPT ![p].at = "deliver", ![p].saw = op[p].was]
                ELSE [op EXCEPT ![p].at = "apply", ![p].saw = work[j]]
       /\ UNCHANGED <<external, up, store, held, reconciling, lock, tree, work,
                      stop, bounds>>

Look(p) ==
    LET j == op[p].job
        ignored == op[p].was \in Ending /\ work[j] \notin Ending
    IN /\ At(p, "look")
       /\ op' = IF work[j] = "none" THEN [op EXCEPT ![p].at = "deliver", ![p].saw = op[p].was]
                ELSE IF ignored THEN [op EXCEPT ![p].at = "finish", ![p].saw = op[p].was]
                ELSE [op EXCEPT ![p].at = "apply", ![p].saw = work[j]]
       /\ UNCHANGED <<external, up, store, held, reconciling, lock, tree, work,
                      stop, bounds>>

\* Worker success does not take the mark of a missing cleanup off an ending.
Observed(r, o) ==
    [r EXCEPT !.status = o.saw,
              !.marked = IF o.saw \in Ending THEN o.was \in Ending /\ o.wasMarked ELSE @]

Apply(p) ==
    LET j == op[p].job
    IN /\ At(p, "apply")
       /\ \/ /\ Update(j, Observed(rec[j], op[p]))
             /\ Goto(p, "deliver") /\ UNCHANGED <<lock, tree>>
          \/ Throws(j, op[p].saw) /\ Leave(p, j) /\ UNCHANGED rec
       /\ UNCHANGED <<external, up, reservation, late, held, reconciling, work,
                      stop, decisions, notices>>

\* deliverDurableNotification: an announcement that is not accepted is left
\* to the next observation.
Deliver(p) ==
    LET j == op[p].job
        due == /\ op[p].saw \in Ending \ rec[j].delivered
               /\ op[p].saw = "cancelled" => rec[j].asked
    IN /\ At(p, "deliver")
       /\ \/ /\ due /\ Goto(p, "ack")
             /\ notices' = [notices EXCEPT ![j] = @ \cup {op[p].saw}]
          \/ Goto(p, "finish") /\ UNCHANGED notices
       /\ UNCHANGED <<external, up, store, held, reconciling, lock, tree, work,
                      stop, decisions, faults>>

Ack(p) ==
    LET j == op[p].job
    IN /\ At(p, "ack")
       /\ \/ /\ Works
             /\ rec' = [rec EXCEPT ![j].delivered = @ \cup {op[p].saw}]
             /\ op' = [op EXCEPT ![p].at = "finish", ![p].saw = rec[j].status]
             /\ UNCHANGED <<lock, tree>>
          \/ Fails("ack") /\ Leave(p, j) /\ UNCHANGED rec
       /\ UNCHANGED <<external, up, reservation, late, held, reconciling, work,
                      stop, decisions, notices>>

\* An observation ends the admission under the lock, a cancellation after it.
Finish(p) ==
    LET j == op[p].job
        ended == op[p].saw \in Ending
    IN /\ At(p, "finish")
       /\ \/ /\ op[p].kind = "observe" /\ ended /\ op[p].was \notin Ending
             /\ Goto(p, "end") /\ UNCHANGED <<lock, tree>>
          \/ /\ op[p].kind = "cancel" /\ ended
             /\ Goto(p, "end") /\ lock' = Unlocked(p, j) /\ UNCHANGED tree
          \/ /\ ~ended \/ (op[p].kind = "observe" /\ op[p].was \in Ending)
             /\ Leave(p, j)
       /\ UNCHANGED <<external, up, store, held, reconciling, work, stop, bounds>>

-----------------------------------------------------------------------------
(* execute and executeUnlocked, in this process.                           *)

\* withWorkspaceWriteLock
TakeTree(j) ==
    /\ At(j, "start")
    /\ \/ rec[j].mode = "workspace-write" /\ tree = None /\ tree' = j
       \/ rec[j].mode = "read-only" /\ UNCHANGED tree
    /\ Goto(j, "claim")
    /\ UNCHANGED <<external, up, store, held, reconciling, lock, work, stop, bounds>>

\* Only a queued job starts.  Between its new status and the runner something
\* may still fail; if the status cannot be stored the job stays queued.
Claim(j) ==
    /\ At(j, "claim") /\ Free(j)
    /\ \/ /\ rec[j].status = "queued"
          /\ rec' = [rec EXCEPT ![j].status = "running"]
          /\ Goto(j, "run") /\ UNCHANGED <<lock, tree>>
          /\ \/ Works /\ work' = [work EXCEPT ![j] = "prepared"]
             \/ Fails("start") /\ UNCHANGED work
       \/ /\ (rec[j].status # "queued" /\ Works) \/ Fails("update")
          /\ Leave(j, j) /\ UNCHANGED <<rec, work>>
    /\ UNCHANGED <<external, up, reservation, late, held, reconciling, stop,
                   decisions, notices>>

\* onInvocationReceipt: the command is not invoked for a job that was cancelled.
Invoke(j) ==
    /\ up /\ work[j] = "prepared" /\ Free(j)
    /\ work' = [work EXCEPT ![j] = IF rec[j].status = "running" THEN "running" ELSE "failed"]
    /\ UNCHANGED <<external, up, store, memory, stop, bounds>>

RunnerEnds(j) ==
    /\ up /\ ~external /\ work[j] = "running"
    /\ \E e \in {"completed", "failed"} : work' = [work EXCEPT ![j] = e]
    /\ UNCHANGED <<external, up, store, memory, stop, bounds>>

\* Mutated StillRunning: the result is stored over a cancellation.
RunningOrNot(j) == TRUE
StillRunning(j) == rec[j].status = "running"

\* A result that reports a block counts as a failure.
Record(j) ==
    /\ At(j, "run") /\ work[j] \in {"none", "completed", "failed"} /\ Free(j)
    /\ \E e \in IF work[j] = "completed" THEN {"completed", "failed"} ELSE {"failed"} :
         \/ /\ StillRunning(j)
            /\ Update(j, [rec[j] EXCEPT !.status = e])
            /\ op' = [op EXCEPT ![j].at = "end", ![j].saw = e]
            /\ UNCHANGED <<lock, tree>>
         \/ /\ StillRunning(j) /\ Throws(j, e)
            /\ Goto(j, "unrecorded") /\ UNCHANGED <<rec, lock, tree>>
         \/ ~StillRunning(j) /\ Leave(j, j) /\ Works /\ UNCHANGED rec
    /\ UNCHANGED <<external, up, reservation, late, held, reconciling, work, stop,
                   decisions, notices>>

\* Mutated Unrecorded: the failure is not noted.
UnrecordedQuietly(j) ==
    /\ At(j, "unrecorded")
    /\ Unresolve(j)
    /\ Leave(j, j)
    /\ UNCHANGED <<external, up, rec, late, held, reconciling, work, stop, bounds>>

\* markReconciliationRequired; the mark is tried three times.
Unrecorded(j) ==
    /\ At(j, "unrecorded")
    /\ reconciling' = reconciling \cup {j}
    /\ Unresolve(j)
    /\ \/ Works /\ rec' = [rec EXCEPT ![j].marked = TRUE]
       \/ Fails("marker") /\ UNCHANGED rec
    /\ Leave(j, j)
    /\ UNCHANGED <<external, up, late, held, work, stop, decisions, notices>>

-----------------------------------------------------------------------------
(* finalizeAdmission, called by all of the above.                          *)

\* cancel without externalCancellation: it asked no worker and observed none.
CancelledHere(p) == op[p].kind = "cancel" /\ op[p].saw = "none"

\* What the caller does once the admission is released.
Done(p, j) ==
    /\ Leave(p, j)
    /\ notices' = IF op[p].kind = "execute" THEN [notices EXCEPT ![j] = @ \cup {op[p].saw}]
                  ELSE IF op[p].kind = "expire" \/ CancelledHere(p)
                  THEN [notices EXCEPT ![j] = @ \cup {"cancelled"}]
                  ELSE notices
    /\ rec' = IF op[p].kind = "cleanup" THEN [rec EXCEPT ![j].marked = FALSE] ELSE rec

ReleaseJob(j) == reservation' = [reservation EXCEPT ![j] = IF Bound(j) THEN "none" ELSE @]

\* Jobs without resources here, of an earlier process or released before.
End(p) ==
    LET j == op[p].job
    IN /\ At(p, "end")
       /\ \/ /\ j \in held
             /\ Goto(p, "mark") /\ Works /\ UNCHANGED <<rec, reservation, lock, tree, notices>>
          \/ /\ j \notin held
             /\ Works /\ ReleaseJob(j) /\ Done(p, j)
          \/ /\ j \notin held /\ Bound(j)
             /\ Fails("release") /\ Goto(p, "error")
             /\ UNCHANGED <<rec, reservation, lock, tree, notices>>
       /\ UNCHANGED <<external, up, late, held, reconciling, work, stop, decisions>>

\* markTerminalPending throws when the reservation is gone.
Mark(p) ==
    LET j == op[p].job
    IN /\ At(p, "mark")
       /\ \/ /\ reservation[j] # "none" /\ Goto(p, "release") /\ Works
             /\ reservation' = [reservation EXCEPT
                    ![j] = IF @ = "unresolved" THEN @ ELSE "terminal_pending"]
          \/ /\ (reservation[j] = "none" /\ Works) \/ Fails("release")
             /\ Goto(p, "error") /\ UNCHANGED reservation
       /\ UNCHANGED <<external, up, rec, late, held, reconciling, lock, tree, work,
                      stop, decisions, notices>>

\* The workspace is disposed of, then the reservation is released.
Release(p) ==
    LET j == op[p].job
    IN /\ At(p, "release")
       /\ \/ /\ Works /\ reservation' = [reservation EXCEPT ![j] = "none"]
             /\ held' = held \ {j} /\ Done(p, j)
          \/ /\ Fails("release") /\ Goto(p, "error")
             /\ UNCHANGED <<rec, reservation, held, lock, tree, notices>>
       /\ UNCHANGED <<external, up, late, reconciling, work, stop, decisions>>

Error(p) ==
    LET j == op[p].job
    IN /\ At(p, "error")
       /\ Unresolve(j)
       /\ \/ Works /\ rec' = [rec EXCEPT ![j].marked = TRUE]
          \/ Fails("marker") /\ UNCHANGED rec
       /\ IF op[p].kind = "execute" THEN Goto(p, "unrecorded") /\ UNCHANGED <<lock, tree>>
          ELSE Leave(p, j)
       /\ UNCHANGED <<external, up, late, held, reconciling, work, stop,
                      decisions, notices>>

-----------------------------------------------------------------------------
(* reconcileTerminal, by an operator, under the lock throughout.           *)

Reconcile(c, j) ==
    LET open == j \in reconciling \/ rec[j].status = "running"
        cleanup == rec[j].status \in Ending /\ (rec[j].marked \/ RequiresReconciliation(j))
    IN /\ At(c, "idle") /\ c \in Caller /\ Free(j) /\ Known(j) /\ rec[j] # NoJob
       /\ \/ /\ open /\ Update(j, [rec[j] EXCEPT !.status = "failed", !.marked = FALSE])
             /\ reconciling' = reconciling \ {j}
             /\ Begin(c, "settle", j, "end")
             /\ lock' = [lock EXCEPT ![j] = c]
          \/ /\ ~open /\ cleanup /\ Works
             /\ Begin(c, "cleanup", j, "end")
             /\ lock' = [lock EXCEPT ![j] = c]
             /\ UNCHANGED <<rec, reconciling>>
       /\ UNCHANGED <<external, up, reservation, late, held, tree, work, stop,
                      decisions, notices>>

-----------------------------------------------------------------------------
(* commit: the workspace first, then the job, as an execution does.        *)

CommitEnter(c, j) ==
    /\ At(c, "idle") /\ c \in Caller /\ rec[j].mode = "workspace-write"
    /\ Begin(c, "commit", j, "enter")
    /\ UNCHANGED <<external, up, store, held, reconciling, lock, tree, work, stop, bounds>>

\* Mutated CommitLocks: the job first.
CommitLocksJobFirst(c, j) ==
    \/ At(c, "enter") /\ Free(j) /\ lock' = [lock EXCEPT ![j] = c] /\ Goto(c, "commit")
       /\ UNCHANGED tree
    \/ At(c, "commit") /\ tree = None /\ Leave(c, j)

CommitLocks(c, j) ==
    \/ At(c, "enter") /\ tree = None /\ tree' = c /\ Goto(c, "commit") /\ UNCHANGED lock
    \/ At(c, "commit") /\ Free(j) /\ Leave(c, j)

Commit(c) ==
    /\ CommitLocks(c, op[c].job)
    /\ UNCHANGED <<external, up, store, held, reconciling, work, stop, bounds>>

-----------------------------------------------------------------------------
(* The worker behind the dispatcher, and the crash of the server.          *)

\* What the dispatchers promise (Dispatching) is all the worker does.  A task
\* that was given up as failed, and is reported stopped after all, is one of the
\* pull worker, which takes no workspace-write jobs.
Dispatcher == INSTANCE Dispatching WITH task <- work, asked <- stop
WorkerStep(j) ==
    /\ external
    /\ \E s \in Dispatcher!After(work[j], j \in stop) : work' = [work EXCEPT ![j] = s]
    /\ IF work[j] = "failed" THEN rec[j].mode = "read-only" /\ Fails("belated") ELSE Works
    /\ UNCHANGED <<external, up, store, memory, stop, decisions, notices>>

Crash ==
    /\ up /\ faults < MaxFaults
    /\ up' = FALSE /\ faults' = faults + 1
    /\ op' = [p \in Process |-> Idle]
    /\ lock' = [j \in Job |-> None] /\ tree' = None
    /\ held' = {} /\ reconciling' = {}
    /\ IF external THEN UNCHANGED <<work, stop>>
       ELSE /\ work' = [j \in Job |-> IF work[j] = "none" THEN "none" ELSE "failed"]
            /\ stop' = {}
    /\ UNCHANGED <<external, store, decisions, notices>>

\* initialize: recoverInterruptedJobs for jobs of this process, then
\* reconstructAdmissionFromStore.  Its observations are those of the timer.
Recovered(j) ==
    IF ~external /\ rec[j].status \in Busy THEN [rec[j] EXCEPT !.status = "failed"]
    ELSE rec[j]
\* Mutated Reconstructed: endings keep the reservation they have.
ReconstructedActive(j) == IF Recovered(j).status \in Active THEN "bound" ELSE reservation[j]

Reconstructed(j) ==
    CASE Recovered(j).status \in Active -> "bound"
      [] Recovered(j).status \in Ending /\ reservation[j] = "bound" -> "unresolved"
      [] OTHER -> reservation[j]

Initialize ==
    /\ ~up /\ up' = TRUE
    /\ reservation' = [j \in Job |-> Reconstructed(j)]
    /\ rec' = [j \in Job |->
         IF /\ Recovered(j).status \in {"completed", "cancelled"}
            /\ Reconstructed(j) \in {"unresolved", "terminal_pending"}
         THEN [Recovered(j) EXCEPT !.marked = TRUE] ELSE Recovered(j)]
    /\ UNCHANGED <<external, late, memory, work, stop, bounds>>

-----------------------------------------------------------------------------
Continue(p) ==
    \/ Create(p) \/ Bind(p) \/ Dispatch(p) \/ Undispatched(p) \/ Await(p)
    \/ Ask(p) \/ Asked(p) \/ Look(p) \/ Apply(p) \/ Deliver(p) \/ Ack(p) \/ Finish(p)
    \/ End(p) \/ Mark(p) \/ Release(p) \/ Error(p)

\* The steps that wait for a lock.
Execute(j) == TakeTree(j) \/ Claim(j) \/ Record(j) \/ Unrecorded(j)

Request(c, j) ==
    \/ Submit(c, j) \/ Cancel(c, j) \/ CancelExternal(c, j) \/ Reconcile(c, j)
    \/ CommitEnter(c, j) \/ \E d \in {"accept", "deny"} : Decide(c, j, d)

Next ==
    \/ \E p \in Process : Continue(p)
    \/ \E c \in Caller : Commit(c) \/ \E j \in Job : Request(c, j)
    \/ \E j \in Job : \/ Execute(j) \/ Invoke(j) \/ RunnerEnds(j) \/ WorkerStep(j)
                      \/ DeadlinePasses(j) \/ Decide(Expirer, j, "expire")
                      \/ \E p \in Caller \cup {Poller} : Observe(p, j)
    \/ Crash \/ Initialize

Spec == Init /\ [][Next]_vars

\* Calls return and timers fire; the locks are queues, so whoever waits for
\* one gets it; a command ends, as it does when it is told to.
Fairness ==
    /\ \A p \in Process : WF_vars(Continue(p))
    /\ \A c \in Caller : SF_vars(Commit(c))
    /\ \A j \in Job : /\ SF_vars(Execute(j)) /\ SF_vars(Invoke(j))
                      /\ WF_vars(RunnerEnds(j)) /\ SF_vars(Observe(Poller, j))
    /\ WF_vars(Initialize)

FairSpec == Spec /\ Fairness

-----------------------------------------------------------------------------
(* Properties.                                                             *)

TypeOK ==
    /\ external \in BOOLEAN /\ up \in BOOLEAN
    /\ rec \in [Job -> [mode: {"read-only", "workspace-write"},
                        status: {"absent"} \cup Active \cup Ending,
                        approval: {"none", "pending", "accepted", "denied", "expired"},
                        asked: BOOLEAN, marked: BOOLEAN, delivered: SUBSET Ending]]
    /\ reservation \in [Job -> {"none", "reserved", "bound", "terminal_pending", "unresolved"}]
    /\ held \subseteq Job /\ reconciling \subseteq Job
    /\ stop \subseteq Job /\ late \subseteq Job
    /\ work \in [Job -> {"none", "queued", "prepared", "running"} \cup Ending]
    /\ lock \in [Job -> Server \cup {None}]
    /\ tree \in Process \cup {None}
    /\ DOMAIN op = Process /\ \A p \in Process : op[p].job \in Job \cup {None}
    /\ notices \in [Job -> SUBSET Ending]

\* A job that waits or runs is counted by the admission controller: no path
\* releases the capacity of a job that is not over, through decisions,
\* cancellations, failures and restarts, unless a dispatch fails that has reached
\* the worker (fault "sent") or the reservation is not bound (fault "bind").
ActiveJobsAreCounted ==
    \A j \in Job : rec[j].status \in Active => reservation[j] # "none"

\* A job that is over and that no request works on keeps a bound reservation
\* only where an operator can see and settle it ("the visible durable error
\* and held capacity are the recovery state"): every path to an ending ends the
\* admission or marks it.  Not so where a call fails that reports, announces or
\* marks the ending (faults "sent", "ack", "unresolve"), nor for a job that was
\* cancelled before its submission was answered (EarlyRequests).
HeldCapacityIsVisible ==
    \A j \in Job :
        (up /\ rec[j].status \in Ending /\ \A p \in Process : op[p].job # j)
            => reservation[j] # "bound"

\* One job has one ending to announce, also when a cancellation, the runner's
\* result, a deadline and the worker's receipt compete for it.  The same ending
\* may be announced again: delivery is at least once.
OneEnding == \A j \in Job : Cardinality(notices[j]) <= 1

\* The work of a job starts at most once, however often it is approved,
\* cancelled, observed or recovered.
StartsOnce ==
    [][\A j \in Job : work[j] # "none"
         => work'[j] = work[j] \/ work'[j] \notin {"queued", "prepared"}]_vars

\* A stored ending is never taken back.  Another one takes its place only when
\* the worker reports it, or where an operator has to settle the job.
EndingStands ==
    [][\A j \in Job : (rec[j].status \in Ending /\ rec'[j].status # rec[j].status)
         => /\ rec'[j].status \in Ending
            /\ j \in reconciling \/ (external /\ rec'[j].status = work[j])]_vars

\* A decision that is only answered again ("decision replays have no local
\* resources", agent-service.ts:1298) does not free the capacity and dispose of
\* the workspace of a command that still runs.
ReplaysFreeNothingInUse ==
    [][\A p \in Process, j \in Job :
         (op[p].kind = "replay" /\ op'[p] # op[p] /\ reservation'[j] # reservation[j]
            /\ reservation'[j] = "none")
            => work[j] # "running"]_vars

\* What the runner or the worker ended is recorded, or left to an operator.
Ended(j) == work[j] \in Ending
ResultsArrive ==
    \A j \in Job : Ended(j) ~> (rec[j].status \in Ending \/ j \in reconciling)

\* No request waits for ever: not for the lock of a job, not for that of the
\* workspace, not for an execution to end.
RequestsEnd == \A p \in Server : (op[p] # Idle) ~> (op[p] = Idle)

\* What the admission controller promises (Admissions) is what the jobs see of
\* it: a reservation that is not bound yet belongs to no job.
PhaseOf(j) == IF reservation[j] = "reserved" THEN "none" ELSE reservation[j]
Contract == INSTANCE Admissions WITH
    phase <- [j \in Job |-> PhaseOf(j)], open <- up
ImplementsAdmissions == Contract!Spec
=============================================================================
