---------------------------- MODULE AzureDispatch ----------------------------
(***************************************************************************)
(* External dispatch of one agent task: the server enqueues it             *)
(* (src/server/azure-agent-dispatch-queue.ts), a durable record guarded by *)
(* compare-and-swap says who may settle it                                 *)
(* (src/server/storage/agent-dispatch-state-port.ts), and worker processes *)
(* (src/worker/index.ts) receive its queue messages, execute and settle.   *)
(*                                                                         *)
(* Every await of the code is a step boundary: a read of the record, a     *)
(* compare-and-swap and a call of the queue service are one action each.   *)
(* A lease owner is a fresh UUID drawn with each new generation, so a      *)
(* lease is known by its generation alone; generation 0 has no owner.      *)
(* Time is not counted.  A message may become visible again, and a lease   *)
(* lapse, at any moment: the clocks of the queue service and of the        *)
(* workers are not related, and a process may stall between two steps.     *)
(***************************************************************************)
EXTENDS Naturals, FiniteSets

CONSTANTS
    Worker,            \* worker processes
    Caller,            \* calls of enqueue for the task
    Message,           \* queue messages that may be sent for it
    None,              \* the absent message
    MaxDequeue,        \* deliveries before quarantine (5 in the code)
    CancelAttempts,    \* attempts of requestCancellation (4 in the code;
                       \* 0: nobody requests it)
    RejectsUndefined,  \* the store refuses values with undefined fields
    MaxReceives,       \* bound: deliveries of one message
    MaxRenewals,       \* bound: renewals of one message
    MaxCrashes         \* bound: crashes of worker processes

ASSUME DispatchConstants ==
    /\ None \notin Message
    /\ MaxDequeue \in Nat \ {0}
    /\ RejectsUndefined \in BOOLEAN
    /\ {CancelAttempts, MaxReceives, MaxRenewals, MaxCrashes} \subseteq Nat

Terminal == {"completed", "failed", "cancelled", "quarantined"}
Status == {"absent", "queued", "leased"} \cup Terminal

Record == [status: Status,
           enqueued: BOOLEAN,
           cancelled: BOOLEAN,                \* cancellationRequested
           count: Nat,                        \* dequeueCount
           gen: Nat,                          \* leaseGeneration
           msg: Message \cup {None},          \* leaseMessageId
           expiry: {"none", "live", "lapsed"},\* leaseExpiresAt
           receipt: Nat]                      \* generation that completed it

QueueMessage == [state: {"unsent", "visible", "hidden", "deleted"},
                 count: Nat, receipt: Nat]

Outcome == {"completing", "failing", "cancelling", "lost"}
RunPc == {"idle", "received", "discard", "discardTerminal", "poison",
          "quarantine", "claim", "leased", "running", "drain", "completing",
          "failing", "cancelling", "acking", "down"}
Run == [pc: RunPc, msg: Message \cup {None}, receipt: Nat, count: Nat,
        gen: Nat, then: Outcome]
Idle == [pc |-> "idle", msg |-> None, receipt |-> 0, count |-> 0, gen |-> 0,
         then |-> "lost"]
Down == [Idle EXCEPT !.pc = "down"]

Beat == [pc: {"off", "observing", "updating", "saving"},
         kind: {"timer", "event"},
         msg: Message \cup {None}, receipt: Nat, gen: Nat]
NoBeat == [pc |-> "off", kind |-> "timer", msg |-> None, receipt |-> 0,
           gen |-> 0]

VARIABLES
    rec,         \* the durable dispatch record
    queue,       \* the queue service: message -> QueueMessage
    poisoned,    \* messages of which a copy went to the poison queue
    pastExpiry,  \* claiming workers whose nowMs is past the expiry
    run,         \* worker -> its runOnce
    beat,        \* worker -> its renewal in flight
    caller,      \* enqueue calls
    cancel,      \* the requestCancellation call
    crashes

vars == <<rec, queue, poisoned, pastExpiry, run, beat, caller, cancel, crashes>>
server == <<caller, cancel, crashes>>

IsTerminal == rec.status \in Terminal
Sent(m) == queue[m].state # "unsent"
InQueue(m) == queue[m].state \in {"visible", "hidden"}

\* The queue service accepts a pop receipt only while it is the last issued.
Accepts(m, receipt) == InQueue(m) /\ queue[m].receipt = receipt

Goto(w, pc) == run' = [run EXCEPT ![w].pc = pc]
GoIdle(w) == run' = [run EXCEPT ![w] = Idle]

\* A rejected runOnce ends the worker loop; the process exits once a renewal
\* still in flight has ended.
Throw(w) == run' = [run EXCEPT ![w] = Down]

-----------------------------------------------------------------------------
(***************************************************************************)
(* The server: enqueue and requestCancellation.                            *)
(***************************************************************************)
EnqueueCreate(c) ==
    /\ caller[c].pc = "idle"
    /\ IF rec.status = "absent"
       THEN /\ rec' = [rec EXCEPT !.status = "queued"]
            /\ caller' = [caller EXCEPT ![c].pc = "send"]
       ELSE /\ caller' = [caller EXCEPT ![c].pc =
                    IF rec.enqueued \/ IsTerminal THEN "done" ELSE "send"]
            /\ UNCHANGED rec
    /\ UNCHANGED <<queue, poisoned, pastExpiry, run, beat, cancel, crashes>>

EnqueueSend(c) ==
    /\ caller[c].pc = "send"
    /\ \E m \in Message :
          /\ ~Sent(m)
          /\ queue' = [queue EXCEPT ![m].state = "visible"]
    /\ caller' = [caller EXCEPT ![c].pc = "reread"]
    /\ UNCHANGED <<rec, poisoned, pastExpiry, run, beat, cancel, crashes>>

EnqueueReread(c) ==
    /\ caller[c].pc = "reread"
    /\ caller' = [caller EXCEPT ![c] = [pc |-> "mark", gen |-> rec.gen]]
    /\ UNCHANGED <<rec, queue, poisoned, pastExpiry, run, beat, cancel, crashes>>

EnqueueMark(c) ==
    /\ caller[c].pc = "mark"
    /\ \/ /\ rec.gen = caller[c].gen
          /\ rec' = [rec EXCEPT !.enqueued = TRUE]
          /\ caller' = [caller EXCEPT ![c].pc = "done"]
       \/ /\ rec.gen # caller[c].gen
          /\ caller' = [caller EXCEPT ![c].pc = "refused"]
          /\ UNCHANGED rec
    /\ UNCHANGED <<queue, poisoned, pastExpiry, run, beat, cancel, crashes>>

\* A call of a service fails, or the server stops, in the middle of enqueue.
EnqueueStops(c) ==
    /\ caller[c].pc \in {"send", "reread", "mark"}
    /\ caller' = [caller EXCEPT ![c].pc = "refused"]
    /\ UNCHANGED <<rec, queue, poisoned, pastExpiry, run, beat, cancel, crashes>>

CancelRead ==
    /\ cancel.pc = "idle" /\ cancel.tries > 0
    /\ rec.status # "absent"
    /\ cancel' = IF IsTerminal THEN [cancel EXCEPT !.pc = "done"]
                 ELSE [cancel EXCEPT !.pc = "write", !.gen = rec.gen]
    /\ UNCHANGED <<rec, queue, poisoned, pastExpiry, run, beat, caller, crashes>>

CancelWrite ==
    /\ cancel.pc = "write"
    /\ \/ /\ rec.gen = cancel.gen
          /\ rec' = [rec EXCEPT !.cancelled = TRUE]
          /\ cancel' = [cancel EXCEPT !.pc = "done"]
       \/ /\ rec.gen # cancel.gen
          /\ cancel' = [cancel EXCEPT !.tries = @ - 1,
                            !.pc = IF cancel.tries = 1 THEN "refused" ELSE "idle"]
          /\ UNCHANGED rec
    /\ UNCHANGED <<queue, poisoned, pastExpiry, run, beat, caller, crashes>>

-----------------------------------------------------------------------------
(***************************************************************************)
(* The worker: lease(), from receiveMessage to the claim.                  *)
(***************************************************************************)
Receive(w) ==
    /\ run[w].pc = "idle"
    /\ \E m \in Message :
          /\ queue[m].state = "visible"
          /\ queue[m].count < MaxReceives
          /\ queue' = [queue EXCEPT ![m] = [state |-> "hidden",
                            count |-> @.count + 1, receipt |-> @.receipt + 1]]
          /\ run' = [run EXCEPT ![w] =
                [Idle EXCEPT !.pc = "received", !.msg = m,
                             !.receipt = queue[m].receipt + 1,
                             !.count = queue[m].count + 1]]
    /\ UNCHANGED <<rec, poisoned, pastExpiry, beat, server>>

Redelivered(w) == rec.msg = run[w].msg /\ run[w].count > rec.count

\* Mutated AfterRead: the copy for the poison queue is skipped.
AfterReadSkipsPoison(w) ==
    CASE IsTerminal -> "discardTerminal"
      [] ~IsTerminal /\ run[w].count > MaxDequeue -> "quarantine"
      [] /\ ~IsTerminal /\ run[w].count <= MaxDequeue
         /\ rec.gen > 0 /\ rec.expiry = "live" /\ ~Redelivered(w) -> "discard"
      [] OTHER -> "claim"

\* Mutated AfterRead: a record without an expiry counts as leased.
AfterReadDropsUnleased(w) ==
    CASE IsTerminal -> "discardTerminal"
      [] ~IsTerminal /\ run[w].count > MaxDequeue -> "poison"
      [] /\ ~IsTerminal /\ run[w].count <= MaxDequeue
         /\ rec.expiry # "lapsed" /\ ~Redelivered(w) -> "discard"
      [] OTHER -> "claim"

\* Mutated AfterRead: a terminal record is not looked for.
AfterReadIgnoresTerminal(w) ==
    CASE run[w].count > MaxDequeue -> "poison"
      [] /\ run[w].count <= MaxDequeue
         /\ rec.gen > 0 /\ rec.expiry = "live" /\ ~Redelivered(w) -> "discard"
      [] OTHER -> "claim"

\* Mutated AfterRead: any delivery under a live lease is a duplicate.
AfterReadDropsRedelivery(w) ==
    CASE IsTerminal -> "discardTerminal"
      [] ~IsTerminal /\ run[w].count > MaxDequeue -> "poison"
      [] /\ ~IsTerminal /\ run[w].count <= MaxDequeue
         /\ rec.gen > 0 /\ rec.expiry = "live" -> "discard"
      [] OTHER -> "claim"

\* The record read after the receive, and the branch lease() takes on it.
AfterRead(w) ==
    CASE IsTerminal -> "discardTerminal"
      [] ~IsTerminal /\ run[w].count > MaxDequeue -> "poison"
      [] /\ ~IsTerminal /\ run[w].count <= MaxDequeue
         /\ rec.gen > 0 /\ rec.expiry = "live" /\ ~Redelivered(w) -> "discard"
      [] OTHER -> "claim"

ReadRecord(w) ==
    /\ run[w].pc = "received"
    /\ run' = [run EXCEPT ![w].pc = AfterRead(w), ![w].gen = rec.gen]
    /\ pastExpiry' = IF AfterRead(w) = "claim" /\ rec.expiry = "lapsed"
                     THEN pastExpiry \cup {w} ELSE pastExpiry
    /\ UNCHANGED <<rec, queue, poisoned, beat, server>>

\* The check that the mutation of the claim repeats on the current record.
Claimable(w) == \/ rec.gen = 0
                \/ rec.expiry = "none"
                \/ w \in pastExpiry
                \/ Redelivered(w)

\* Mutated Claim: an update without the expected generation.
ClaimUnconditionally(w) ==
    /\ run[w].pc = "claim"
    /\ rec' = [rec EXCEPT !.status = "leased", !.count = run[w].count,
                          !.gen = run[w].gen + 1, !.msg = run[w].msg,
                          !.expiry = "live"]
    /\ pastExpiry' = {}
    /\ run' = [run EXCEPT ![w].pc = "leased", ![w].gen = run[w].gen + 1]
    /\ UNCHANGED <<queue, poisoned, beat, server>>

Claim(w) ==
    /\ run[w].pc = "claim"
    /\ \/ /\ rec.gen = run[w].gen /\ Claimable(w)
          /\ rec' = [rec EXCEPT !.status = "leased", !.count = run[w].count,
                                !.gen = @ + 1, !.msg = run[w].msg,
                                !.expiry = "live"]
          /\ pastExpiry' = {}
          /\ run' = [run EXCEPT ![w].pc = "leased", ![w].gen = rec.gen + 1]
       \/ /\ rec.gen = run[w].gen /\ ~Claimable(w)
          /\ Throw(w)
          /\ pastExpiry' = pastExpiry \ {w}
          /\ UNCHANGED rec
       \/ /\ rec.gen # run[w].gen
          /\ Goto(w, "discard")
          /\ pastExpiry' = pastExpiry \ {w}
          /\ UNCHANGED rec
    /\ UNCHANGED <<queue, poisoned, beat, server>>

\* deleteMessage for a message that is not to be executed.  A terminal record
\* still yields a lease object, which runOnce then observes.
Discard(w) ==
    /\ run[w].pc \in {"discard", "discardTerminal"}
    /\ \/ /\ Accepts(run[w].msg, run[w].receipt)
          /\ queue' = [queue EXCEPT ![run[w].msg].state = "deleted"]
          /\ IF run[w].pc = "discard" THEN GoIdle(w) ELSE Goto(w, "leased")
       \/ /\ ~Accepts(run[w].msg, run[w].receipt)
          /\ Throw(w)
          /\ UNCHANGED queue
    /\ UNCHANGED <<rec, poisoned, pastExpiry, beat, server>>

SendPoison(w) ==
    /\ run[w].pc = "poison"
    /\ poisoned' = poisoned \cup {run[w].msg}
    /\ Goto(w, "quarantine")
    /\ UNCHANGED <<rec, queue, pastExpiry, beat, server>>

Quarantine(w) ==
    /\ run[w].pc = "quarantine"
    /\ \/ /\ rec.gen = run[w].gen /\ ~RejectsUndefined
          /\ rec' = [rec EXCEPT !.status = "quarantined", !.expiry = "none"]
          /\ Goto(w, "discard")
       \/ /\ rec.gen # run[w].gen \/ RejectsUndefined
          /\ Throw(w)
          /\ UNCHANGED rec
    /\ UNCHANGED <<queue, poisoned, pastExpiry, beat, server>>

-----------------------------------------------------------------------------
(***************************************************************************)
(* The worker: runOnce after lease(), its renewals and its terminal update. *)
(***************************************************************************)
Observe(w) ==
    /\ run[w].pc = "leased"
    /\ \/ IsTerminal /\ GoIdle(w)
       \/ ~IsTerminal /\ rec.cancelled /\ Goto(w, "cancelling")
       \/ ~IsTerminal /\ ~rec.cancelled /\ Goto(w, "running")
       \/ ~IsTerminal /\ ~rec.cancelled /\ Goto(w, "failing")
    /\ UNCHANGED <<rec, queue, poisoned, pastExpiry, beat, server>>

\* The execution ends and stops the timer; renewals in flight are awaited.
Ends(w, outcome) == run' = [run EXCEPT ![w].pc = "drain", ![w].then = outcome]

Finish(w) ==
    /\ run[w].pc = "running"
    /\ \E outcome \in {"completing", "failing"} : Ends(w, outcome)
    /\ UNCHANGED <<rec, queue, poisoned, pastExpiry, beat, server>>

Renews(w) == /\ beat[w].pc # "off"
             /\ beat[w].gen = run[w].gen /\ beat[w].msg = run[w].msg

Drain(w) ==
    /\ run[w].pc = "drain"
    /\ ~(Renews(w) /\ beat[w].pc \in {"updating", "saving"})
    /\ IF run[w].then = "lost" THEN GoIdle(w) ELSE Goto(w, run[w].then)
    /\ UNCHANGED <<rec, queue, poisoned, pastExpiry, beat, server>>

\* The timer observes the record first; an event of the execution renews the
\* lease at once.
BeatStart(w) ==
    /\ run[w].pc = "running" /\ beat[w].pc = "off"
    /\ queue[run[w].msg].receipt < queue[run[w].msg].count + MaxRenewals
    /\ \E kind \in {"timer", "event"} :
          beat' = [beat EXCEPT ![w] =
             [pc |-> IF kind = "timer" THEN "observing" ELSE "updating",
              kind |-> kind, msg |-> run[w].msg,
              receipt |-> run[w].receipt, gen |-> run[w].gen]]
    /\ UNCHANGED <<rec, queue, poisoned, pastExpiry, run, server>>

StopBeat(w) == beat' = [beat EXCEPT ![w] = NoBeat]

BeatObserve(w) ==
    /\ beat[w].pc = "observing"
    /\ IF rec.cancelled
       THEN /\ StopBeat(w)
            /\ IF Renews(w) /\ run[w].pc = "running"
               THEN Ends(w, "cancelling") ELSE UNCHANGED run
       ELSE /\ beat' = [beat EXCEPT ![w].pc = "updating"]
            /\ UNCHANGED run
    /\ UNCHANGED <<rec, queue, poisoned, pastExpiry, server>>

\* A failed timer renewal aborts the execution without a terminal update; a
\* failed event renewal makes the execution fail.
BeatFails(w) ==
    /\ StopBeat(w)
    /\ IF Renews(w) /\ run[w].pc = "running"
       THEN Ends(w, IF beat[w].kind = "timer" THEN "lost" ELSE "failing")
       ELSE UNCHANGED run

BeatUpdate(w) ==
    /\ beat[w].pc = "updating"
    /\ \/ /\ Accepts(beat[w].msg, beat[w].receipt)
          /\ queue' = [queue EXCEPT ![beat[w].msg].receipt = @ + 1,
                                    ![beat[w].msg].state = "hidden"]
          /\ beat' = [beat EXCEPT ![w].pc = "saving",
                                  ![w].receipt = beat[w].receipt + 1]
          /\ UNCHANGED run
       \/ BeatFails(w) /\ UNCHANGED queue
    /\ UNCHANGED <<rec, poisoned, pastExpiry, server>>

BeatSave(w) ==
    /\ beat[w].pc = "saving"
    /\ \/ /\ rec.gen = beat[w].gen /\ ~IsTerminal
          /\ rec' = [rec EXCEPT !.expiry = "live"]
          /\ pastExpiry' = {}
          /\ StopBeat(w)
          /\ IF Renews(w) /\ run[w].pc \in {"running", "drain"}
             THEN run' = [run EXCEPT ![w].receipt = beat[w].receipt]
             ELSE UNCHANGED run
       \/ /\ rec.gen # beat[w].gen \/ IsTerminal
          /\ BeatFails(w)
          /\ UNCHANGED <<rec, pastExpiry>>
    /\ UNCHANGED <<queue, poisoned, server>>

\* Mutated Refused: complete() does not look at cancellationRequested.
RefusedUnlessOwned(w) == \/ run[w].gen = 0
                         \/ rec.gen # run[w].gen
                         \/ RejectsUndefined

\* Mutated Refused: a lapsed lease is refused although nobody took it over.
RefusedWhenLapsed(w) == \/ run[w].gen = 0
                        \/ rec.gen # run[w].gen
                        \/ run[w].pc = "completing" /\ rec.cancelled
                        \/ rec.expiry # "live"
                        \/ RejectsUndefined

\* terminalUpdate's compare-and-swap, with the mutation of the caller.  The
\* new value clears leaseExpiresAt by setting it to undefined.
Refused(w) == \/ run[w].gen = 0
              \/ rec.gen # run[w].gen
              \/ run[w].pc = "completing" /\ rec.cancelled
              \/ RejectsUndefined

\* Mutated Settled: a status the observers do not know.
SettledAsError(w) ==
    [rec EXCEPT !.status = IF run[w].pc = "failing" THEN "error" ELSE "completed",
                !.receipt = rec.gen]

Settled(w) ==
    CASE run[w].pc = "completing" ->
            [rec EXCEPT !.status = "completed", !.receipt = rec.gen]
      [] run[w].pc = "failing" -> [rec EXCEPT !.status = "failed"]
      [] run[w].pc = "cancelling" ->
            [rec EXCEPT !.status = "cancelled", !.cancelled = TRUE]

Settle(w) ==
    /\ run[w].pc \in {"completing", "failing", "cancelling"}
    /\ \/ /\ ~Refused(w)
          /\ rec' = [Settled(w) EXCEPT !.expiry = "none"]
          /\ Goto(w, "acking")
       \/ /\ Refused(w)
          /\ Throw(w)
          /\ UNCHANGED rec
    /\ UNCHANGED <<queue, poisoned, pastExpiry, beat, server>>

Ack(w) ==
    /\ run[w].pc = "acking"
    /\ \/ /\ Accepts(run[w].msg, run[w].receipt)
          /\ queue' = [queue EXCEPT ![run[w].msg].state = "deleted"]
          /\ GoIdle(w)
       \/ /\ ~Accepts(run[w].msg, run[w].receipt)
          /\ Throw(w)
          /\ UNCHANGED queue
    /\ UNCHANGED <<rec, poisoned, pastExpiry, beat, server>>

Restart(w) ==
    /\ run[w].pc = "down" /\ beat[w].pc = "off"
    /\ GoIdle(w)
    /\ UNCHANGED <<rec, queue, poisoned, pastExpiry, beat, server>>

Crash(w) ==
    /\ run[w].pc # "down" /\ crashes < MaxCrashes
    /\ crashes' = crashes + 1
    /\ run' = [run EXCEPT ![w] = Down]
    /\ beat' = [beat EXCEPT ![w] = NoBeat]
    /\ pastExpiry' = pastExpiry \ {w}
    /\ UNCHANGED <<rec, queue, poisoned, caller, cancel>>

-----------------------------------------------------------------------------
(***************************************************************************)
(* Time.                                                                   *)
(***************************************************************************)
BecomesVisible(m) ==
    /\ queue[m].state = "hidden"
    /\ queue' = [queue EXCEPT ![m].state = "visible"]
    /\ UNCHANGED <<rec, poisoned, pastExpiry, run, beat, server>>

LeaseLapses ==
    /\ rec.expiry = "live"
    /\ rec' = [rec EXCEPT !.expiry = "lapsed"]
    /\ UNCHANGED <<queue, poisoned, pastExpiry, run, beat, server>>

Init ==
    /\ rec = [status |-> "absent", enqueued |-> FALSE, cancelled |-> FALSE,
              count |-> 0, gen |-> 0, msg |-> None, expiry |-> "none",
              receipt |-> 0]
    /\ queue = [m \in Message |-> [state |-> "unsent", count |-> 0, receipt |-> 0]]
    /\ poisoned = {} /\ pastExpiry = {}
    /\ run = [w \in Worker |-> Idle]
    /\ beat = [w \in Worker |-> NoBeat]
    /\ caller = [c \in Caller |-> [pc |-> "idle", gen |-> 0]]
    /\ cancel = [pc |-> "idle", gen |-> 0, tries |-> CancelAttempts]
    /\ crashes = 0

Leases(w) == \/ Receive(w) \/ ReadRecord(w) \/ Claim(w) \/ Discard(w)
             \/ SendPoison(w) \/ Quarantine(w)
Executes(w) == Observe(w) \/ Finish(w) \/ Drain(w) \/ Settle(w) \/ Ack(w)
Beats(w) == BeatObserve(w) \/ BeatUpdate(w) \/ BeatSave(w)

Next ==
    \/ \E c \in Caller : \/ EnqueueCreate(c) \/ EnqueueSend(c)
                         \/ EnqueueReread(c) \/ EnqueueMark(c) \/ EnqueueStops(c)
    \/ CancelRead \/ CancelWrite
    \/ \E w \in Worker : \/ Leases(w) \/ Executes(w) \/ Beats(w)
                         \/ BeatStart(w) \/ Restart(w) \/ Crash(w)
    \/ \E m \in Message : BecomesVisible(m)
    \/ LeaseLapses

Spec == Init /\ [][Next]_vars

\* Workers keep running and are restarted by systemd, and the queue service
\* makes a message visible again once its visibility timeout has passed.
Fairness ==
    /\ \A w \in Worker : /\ WF_vars(Leases(w) \/ Executes(w) \/ Restart(w))
                         /\ WF_vars(Beats(w))
    /\ \A m \in Message : WF_vars(BecomesVisible(m))
FairSpec == Spec /\ Fairness

-----------------------------------------------------------------------------
(***************************************************************************)
(* Properties.                                                             *)
(***************************************************************************)

\* Every variable has its type.
TypeOK ==
    /\ rec \in Record
    /\ queue \in [Message -> QueueMessage]
    /\ poisoned \subseteq Message
    /\ pastExpiry \subseteq Worker
    /\ run \in [Worker -> Run]
    /\ beat \in [Worker -> Beat]
    /\ caller \in [Caller ->
          [pc: {"idle", "send", "reread", "mark", "done", "refused"}, gen: Nat]]
    /\ cancel \in [pc: {"idle", "write", "done", "refused"}, gen: Nat, tries: Nat]
    /\ crashes \in Nat

\* A worker that still acts on a lease, and one whose lease is the current one.
Acting == {"leased", "running", "drain", "completing", "failing", "cancelling"}
Holds(w) == run[w].pc \in Acting /\ run[w].gen = rec.gen

\* While the task is leased at most one worker holds the current generation,
\* whatever messages are duplicated and whichever workers stall or crash: the
\* others are fenced off by the generation every update of the record compares.
UniqueHolder ==
    rec.status = "leased" =>
        \A v, w \in Worker : Holds(v) /\ Holds(w) => v = w

\* A task that was sent and never claimed still has a message in the queue: no
\* worker deletes the last message of a task nobody has started.
UnclaimedTaskIsQueued ==
    rec.status = "queued" /\ (\E m \in Message : Sent(m)) =>
        \E m \in Message : InQueue(m)

\* The record says quarantined only after a message was delivered more often
\* than allowed and its copy reached the poison queue for the operator.
QuarantineLeavesEvidence ==
    rec.status = "quarantined" =>
        \E m \in poisoned : queue[m].count > MaxDequeue

\* From the moment a cancellation request is recorded no completion receipt is
\* written, however late the worker that completes learns of the request.
NoReceiptAfterCancellation ==
    [][rec.cancelled => rec'.receipt = rec.receipt]_vars

\* Once the task has a completion receipt no worker starts to execute it.
NoExecutionAfterCompletion ==
    [][\A w \in Worker :
          run[w].pc = "leased" /\ run'[w].pc = "running" => rec.receipt = 0]_vars

\* A leased task nobody works on can be redelivered: a message of it is left.
RecoverableWhileLeased ==
    rec.status = "leased" /\ (\A w \in Worker : run[w].pc \in {"idle", "down"})
        => \E m \in Message : InQueue(m)

\* A task that was sent reaches a terminal status.
EverySentTaskSettles == (\E m \in Message : Sent(m)) ~> IsTerminal

\* What a worker does with the lease it holds takes effect: a completion that
\* no cancellation precedes is recorded.  That is so with a store that accepts
\* undefined fields, and never with one that refuses them.
HolderCompletes ==
    [][\A w \in Worker :
          /\ run[w].pc = "completing" /\ run'[w].pc # "completing"
          /\ crashes' = crashes
          /\ rec.gen = run[w].gen /\ ~rec.cancelled
          => rec'.status = "completed"]_vars

\* What observe answers for the record, as the agent service reads it.
Answered == CASE rec.status = "absent" -> "none"
              [] rec.status = "leased" -> "running"
              [] rec.status = "quarantined" -> "failed"
              [] OTHER -> rec.status

\* One worker keeps what the agent service relies on of a dispatcher.
Service == INSTANCE Dispatching WITH
    Job <- {"task"},
    task <- [j \in {"task"} |-> Answered],
    asked <- {j \in {"task"} : rec.cancelled}
ImplementsDispatching == Service!Spec
=============================================================================
