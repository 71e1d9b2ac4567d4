---------------------------- MODULE PullWorkerHost ----------------------------
(***************************************************************************)
(* The server's side of the pull worker (src/server/pull-worker.ts): a     *)
(* ledger of the jobs handed over to one Mac, which claims, begins, renews *)
(* and finishes them through HTTP calls.                                   *)
(*                                                                         *)
(* Every call is one transaction of a promise chain: it works on a copy of *)
(* the ledger, sweeps the expired leases first, applies the operation,     *)
(* writes the copy to the file and only then publishes it.  A transaction  *)
(* is therefore one step, and one whose operation throws or whose write    *)
(* fails changes nothing, its sweep included.  A restart reads the ledger  *)
(* back as it was published.                                               *)
(***************************************************************************)
EXTENDS Naturals, FiniteSets

CONSTANTS
    Job,        \* the jobs of the identity the Mac authenticates as
    Capacity,   \* records the ledger may hold (4096 in the code)
    MaxLeases   \* bound: lease ids drawn

ASSUME HostConstants == /\ IsFiniteSet(Job)
                        /\ Capacity \in Nat
                        /\ MaxLeases \in Nat

Outcome == {"completed", "failed", "cancelled"}
Begun == {"running", "quarantined"}
Outstanding == {"leased"} \cup Begun

Record == [state: {"absent", "queued"} \cup Outstanding \cup Outcome,
           leaseId: Nat,                 \* 0: none
           lapsed: BOOLEAN,              \* expiresAt has passed
           cancellationRequested: BOOLEAN,
           result: {"none"} \cup Outcome,
           at: Nat]                      \* position among the records
NoRecord == [state |-> "absent", leaseId |-> 0, lapsed |-> FALSE,
             cancellationRequested |-> FALSE, result |-> "none", at |-> 0]

VARIABLES
    ledger,     \* job -> its record
    drawn       \* lease ids drawn so far

hostVars == <<ledger, drawn>>

InState(states) == {j \in Job : ledger[j].state \in states}

(***************************************************************************)
(* The sweep every transaction starts with.                                *)
(***************************************************************************)
\* Mutated Expired: a job that was begun is handed out again as well.
ExpiredRequeuesBegun(r) ==
    IF r.lapsed /\ r.state \in {"leased", "running"}
    THEN [r EXCEPT !.state = "queued", !.leaseId = 0, !.lapsed = FALSE]
    ELSE r

Expired(r) ==
    CASE r.lapsed /\ r.state = "leased" ->
            [r EXCEPT !.state = "queued", !.leaseId = 0, !.lapsed = FALSE]
      [] r.lapsed /\ r.state = "running" -> [r EXCEPT !.state = "quarantined"]
      [] OTHER -> r

Swept == [j \in Job |-> Expired(ledger[j])]
SweptIn(states) == {j \in Job : Swept[j].state \in states}
Recorded == {j \in Job : ledger[j].state # "absent"}

Publish(next) == ledger' = next /\ UNCHANGED drawn

(***************************************************************************)
(* What the agent service of the server calls.                             *)
(***************************************************************************)
Dispatch(j) ==
    \/ /\ Swept[j].state # "absent"
       /\ Publish(Swept)
    \/ /\ Swept[j].state = "absent"
       /\ Cardinality(Recorded) < Capacity
       /\ Publish([Swept EXCEPT ![j] = [NoRecord EXCEPT
              !.state = "queued", !.at = Cardinality(Recorded) + 1]])

\* What observe answers of a record, as the agent service reads it.
Answered(r) == CASE r.state = "absent" -> "none"
                 [] r.state = "leased" -> "queued"
                 [] r.state = "quarantined" -> "failed"
                 [] OTHER -> r.state

\* Reading the record of a job sweeps, too.
Observe == Publish(Swept)

\* Mutated Cancelled: a record that has ended is not left alone.
CancelledAnyway(r) ==
    CASE r.state \in Begun -> [r EXCEPT !.cancellationRequested = TRUE]
      [] r.state = "absent" -> r
      [] OTHER -> [r EXCEPT !.cancellationRequested = TRUE,
                            !.state = "cancelled", !.result = "cancelled"]

Cancelled(r) ==
    CASE r.state \in {"queued", "leased"} ->
            [r EXCEPT !.cancellationRequested = TRUE,
                      !.state = "cancelled", !.result = "cancelled"]
      [] r.state \in Begun -> [r EXCEPT !.cancellationRequested = TRUE]
      [] OTHER -> r

Cancel(j) == Publish([Swept EXCEPT ![j] = Cancelled(@)])

(***************************************************************************)
(* What the Mac calls.  A claim hands out the job that is outstanding, or  *)
(* the oldest queued one; a quarantined job blocks every claim.            *)
(***************************************************************************)
ClaimAgain(j) ==
    /\ j \in SweptIn({"leased", "running"})
    /\ \A k \in SweptIn({"leased", "running"}) : Swept[j].at <= Swept[k].at
    /\ Publish(Swept)

\* Mutated ClaimNext: a quarantined job blocks nothing.
ClaimNextDespiteQuarantine(j) ==
    /\ SweptIn({"leased", "running"}) = {}
    /\ j \in SweptIn({"queued"})
    /\ \A k \in SweptIn({"queued"}) : Swept[j].at <= Swept[k].at
    /\ drawn < MaxLeases
    /\ drawn' = drawn + 1
    /\ ledger' = [Swept EXCEPT ![j].state = "leased", ![j].leaseId = drawn + 1,
                               ![j].lapsed = FALSE]

ClaimNext(j) ==
    /\ SweptIn(Outstanding) = {}
    /\ j \in SweptIn({"queued"})
    /\ \A k \in SweptIn({"queued"}) : Swept[j].at <= Swept[k].at
    /\ drawn < MaxLeases
    /\ drawn' = drawn + 1
    /\ ledger' = [Swept EXCEPT ![j].state = "leased", ![j].leaseId = drawn + 1,
                               ![j].lapsed = FALSE]

ClaimNothing ==
    /\ SweptIn({"leased", "running"}) = {}
    /\ SweptIn({"quarantined"}) # {} \/ SweptIn({"queued"}) = {}
    /\ Publish(Swept)

Begin(j, lease) ==
    /\ Swept[j].leaseId = lease
    /\ ~Swept[j].cancellationRequested
    /\ Swept[j].state \in {"leased", "running"}
    /\ Publish([Swept EXCEPT ![j].state = "running", ![j].lapsed = FALSE])

Heartbeat(j, lease) ==
    /\ Swept[j].leaseId = lease
    /\ Swept[j].state = "running"
    /\ Publish([Swept EXCEPT ![j].lapsed = FALSE])

\* Mutated Finish: a cancellation requested meanwhile is overlooked.
FinishDespiteCancellation(j, lease, result) ==
    /\ Swept[j].leaseId = lease
    /\ \/ /\ Swept[j].result = result
          /\ Publish(Swept)
       \/ /\ Swept[j].result = "none"
          /\ \/ Swept[j].state = "running"
             \/ Swept[j].state = "quarantined" /\ result = "cancelled"
          /\ Publish([Swept EXCEPT ![j].state = result, ![j].result = result])

\* A result is recorded once; the same result is accepted again.
Finish(j, lease, result) ==
    /\ Swept[j].leaseId = lease
    /\ Swept[j].cancellationRequested => result = "cancelled"
    /\ \/ /\ Swept[j].result = result
          /\ Publish(Swept)
       \/ /\ Swept[j].result = "none"
          /\ \/ Swept[j].state = "running"
             \/ Swept[j].state = "quarantined" /\ result = "cancelled"
          /\ Publish([Swept EXCEPT ![j].state = result, ![j].result = result])

LeaseLapses(j) ==
    /\ ledger[j].state \in {"leased", "running"} /\ ~ledger[j].lapsed
    /\ ledger' = [ledger EXCEPT ![j].lapsed = TRUE]
    /\ UNCHANGED drawn

HostInit ==
    /\ ledger = [j \in Job |-> NoRecord]
    /\ drawn = 0

ServerCalls == Observe \/ \E j \in Job : Dispatch(j) \/ Cancel(j)

\* Whatever lease and result a call of the Mac may name.
MacCalls ==
    \/ ClaimNothing
    \/ \E j \in Job : \/ ClaimAgain(j) \/ ClaimNext(j)
                      \/ \E lease \in 1..MaxLeases :
                            \/ Begin(j, lease)
                            \/ Heartbeat(j, lease)
                            \/ \E result \in Outcome : Finish(j, lease, result)

HostNext == ServerCalls \/ MacCalls \/ \E j \in Job : LeaseLapses(j)
HostSpec == HostInit /\ [][HostNext]_hostVars
-----------------------------------------------------------------------------
(***************************************************************************)
(* Properties.                                                             *)
(***************************************************************************)

\* The records of the ledger and the count of leases drawn have their types.
HostTypeOK == /\ ledger \in [Job -> Record]
              /\ drawn \in 0..MaxLeases

\* At most one job is handed out, running or quarantined: whatever calls are
\* repeated or late, a Mac is never asked to start a second job before the
\* first one is known to have stopped.
OneOutstanding ==
    \A i, j \in InState(Outstanding) : i = j

\* Once a cancellation was requested the only result the ledger can hold is
\* cancelled, whether the request or the finish of the Mac came first; and so a
\* recorded result, which no later cancellation flags, can be replayed.
CancellationHonoured ==
    \A j \in Job :
        ledger[j].cancellationRequested => ledger[j].result \in {"none", "cancelled"}

\* The ledger keeps what the agent service relies on of a dispatcher.
Service == INSTANCE Dispatching WITH
    task <- [j \in Job |-> Answered(ledger[j])],
    asked <- {j \in Job : ledger[j].cancellationRequested}
ImplementsDispatching == Service!Spec
=============================================================================
