--------------------------- MODULE PullWorkerProofs ---------------------------
(***************************************************************************)
(* Proofs about PullWorkerHost, for any calls whatever, and about          *)
(* PullWorker, for any jobs, losses and restarts.                          *)
(*                                                                         *)
(* RecordsInv is the ledger's own invariant.  The rest ties the ledger to  *)
(* the Mac.  ExecutionInv: an execution belongs to a job that was begun,   *)
(* and a result is its outcome.  CallInv: a finish under way, lost or not, *)
(* carries the outcome of an execution; an acknowledged begin, like a      *)
(* start, stands for a job that was begun.  OwnerInv: whatever runs and    *)
(* could be proved to have stopped is owned by the connector, or is why it *)
(* is uncertain; and while uncertain it asks for nothing.                  *)
(***************************************************************************)
EXTENDS PullWorker, FiniteSetTheorems, TLAPS

RecordOK(r) ==
    /\ r.state \in Outcome => r.result = r.state
    /\ r.state \notin Outcome => r.result = "none"
    /\ r.state \in {"absent", "queued", "leased"} => ~r.cancellationRequested
    /\ r.cancellationRequested => r.result \in {"none", "cancelled"}

RecordsInv ==
    /\ HostTypeOK
    /\ OneOutstanding
    /\ \A j \in Job : RecordOK(ledger[j])

ExecutionInv ==
    \A j \in Job :
        /\ execution[j] = "running" => ledger[j].state \in Begun
        /\ execution[j] \in Outcome =>
              ledger[j].state \in Begun \/ ledger[j].result = execution[j]
        /\ execution[j] = "none" => ledger[j].result \in {"none", "cancelled"}

\* Once true of a job it stays true.
WasBegun(j) == ledger[j].state \in Begun \/ execution[j] # "none"

\* A call is under way only if what it says is so.
Truthful(c) ==
    /\ c.op \in {"begin", "heartbeat", "finish"} => c.job \in Job
    /\ c.op = "finish" => c.result \in Outcome /\ execution[c.job] = c.result

CallInv ==
    /\ call.op = IF pc \in {"claim", "begin", "heartbeat", "finish"} THEN pc ELSE "none"
    /\ Truthful(call)
    /\ \A c \in orphans : Truthful(c)
    /\ answer.kind = "claim" => answer.job \in Job
    /\ call.op = "begin" /\ answer.kind = "ok" => WasBegun(call.job)

StartInv ==
    /\ start.pc # "none" => start.job \in Job /\ WasBegun(start.job) /\ uncertain
    /\ start.pc \in {"launched", "stopping"} => execution[start.job] # "none"
    /\ start.pc \in {"called", "launched"} => ~Owned
    /\ start.pc = "stopping" => start.late
    /\ start.late => start.pc # "none"
    /\ pc = "start" <=> start.pc # "none" /\ ~start.late

ActiveInv ==
    /\ ~Owned => active = Nothing
    /\ Owned => execution[active.job] # "none"
    /\ Settled => execution[active.job] = active.outcome
    /\ \A j \in provable : execution[j] # "none"

OwnerInv ==
    /\ uncertain => pc = "start" \/ (blocked /\ pc \in {"idle", "stop"})
    /\ pc \in {"claim", "begin"} => ~Owned
    /\ pc \in {"heartbeat", "stop", "stopThenFinish"} => Owned
    /\ pc = "finish" => Settled
    /\ \A j \in provable : execution[j] = "running" =>
          \/ active.job = j
          \/ uncertain /\ start.job = j /\ start.pc = "launched"
          \/ uncertain /\ start.pc = "none"

IInv == /\ TypeOK
        /\ RecordsInv
        /\ ExecutionInv
        /\ CallInv
        /\ StartInv
        /\ ActiveInv
        /\ OwnerInv

-----------------------------------------------------------------------------
(***************************************************************************)
(* The ledger.                                                             *)
(***************************************************************************)
States == {"absent", "queued"} \cup Outstanding \cup Outcome

\* The updates of one record, as the transactions make them, keep its type.
LEMMA RecordValues ==
    /\ NoRecord \in Record
    /\ \A n \in Nat : [NoRecord EXCEPT !.state = "queued", !.at = n] \in Record
    /\ \A r \in Record : Expired(r) \in Record
    /\ \A r \in Record : Cancelled(r) \in Record
    /\ \A r \in Record, s \in States : [r EXCEPT !.state = s, !.lapsed = FALSE] \in Record
    /\ \A r \in Record, s \in States, n \in Nat :
          [r EXCEPT !.state = s, !.leaseId = n, !.lapsed = FALSE] \in Record
    /\ \A r \in Record, b \in BOOLEAN : [r EXCEPT !.lapsed = b] \in Record
    /\ \A r \in Record, o \in Outcome : [r EXCEPT !.state = o, !.result = o] \in Record
BY DEF Record, NoRecord, Expired, Cancelled, States, Outstanding, Begun, Outcome

\* The sweep neither records a result nor makes a job outstanding.
LEMMA SweepFacts ==
    ASSUME NEW r \in Record, RecordOK(r)
    PROVE  LET x == Expired(r) IN
           /\ RecordOK(x)
           /\ x.result = r.result
           /\ x.cancellationRequested = r.cancellationRequested
           /\ x.state \in Begun <=> r.state \in Begun
           /\ x.state \in Outcome <=> r.state \in Outcome
           /\ x.state \in Outstanding => r.state \in Outstanding
BY DEF Record, RecordOK, Expired, Outstanding, Begun, Outcome

LEMMA SweptFacts ==
    ASSUME RecordsInv
    PROVE  /\ Swept \in [Job -> Record]
           /\ \A j \in Job : 
                /\ Swept[j] = Expired(ledger[j])
                /\ Swept[j] \in Record
                /\ RecordOK(Swept[j])
                /\ Swept[j].result = ledger[j].result
                /\ Swept[j].cancellationRequested = ledger[j].cancellationRequested
                /\ Swept[j].state \in Begun <=> ledger[j].state \in Begun
                /\ Swept[j].state \in Outcome <=> ledger[j].state \in Outcome
                /\ Swept[j].state \in Outstanding => ledger[j].state \in Outstanding
<1>1. \A j \in Job : ledger[j] \in Record /\ RecordOK(ledger[j])
  BY DEF RecordsInv, HostTypeOK
<1>2. \A j \in Job : Expired(ledger[j]) \in Record
  BY <1>1, RecordValues
<1>3. Swept = [j \in Job |-> Expired(ledger[j])]
  BY DEF Swept
<1>4. Swept \in [Job -> Record] /\ \A j \in Job : Swept[j] = Expired(ledger[j])
  BY <1>2, <1>3
<1> QED
  BY <1>1, <1>2, <1>4, SweepFacts

\* What a transaction other than a finish may do to the record of j.
Gentle(j) ==
    /\ ledger[j].state \in Begun => ledger'[j].state \in Begun
    /\ \/ ledger'[j].result = ledger[j].result
       \/ /\ ledger[j].state \notin Begun /\ ledger[j].result = "none"
          /\ ledger'[j].result = "cancelled"

\* What has to be shown of the records a transaction publishes.
Good(next) ==
    /\ next \in [Job -> Record]
    /\ \A j \in Job : RecordOK(next[j])
    /\ \A i, j \in Job : next[i].state \in Outstanding /\ next[j].state \in Outstanding
                            => i = j

LEMMA SweptGood == RecordsInv => Good(Swept)
BY SweptFacts DEF Good, RecordsInv, OneOutstanding, InState

LEMMA GoodIsInvariant ==
    ASSUME RecordsInv, Good(ledger'), drawn' \in 0..MaxLeases
    PROVE  RecordsInv'
BY DEF Good, RecordsInv, HostTypeOK, OneOutstanding, InState

LEMMA SweptIsGentle ==
    ASSUME RecordsInv, NEW k \in Job, ledger'[k] = Swept[k]
    PROVE  Gentle(k)
BY SweptFacts DEF Gentle

LEMMA DrawnType == RecordsInv => drawn \in 0..MaxLeases
BY DEF RecordsInv, HostTypeOK

\* A transaction that publishes what the sweep left.
LEMMA SweepStep ==
    ASSUME RecordsInv, Publish(Swept)
    PROVE  RecordsInv' /\ \A k \in Job : Gentle(k)
<1>1. ledger' = Swept /\ drawn' = drawn
  BY DEF Publish
<1>2. RecordsInv'
  BY <1>1, SweptGood, GoodIsInvariant, DrawnType
<1> QED
  BY <1>1, <1>2, SweptIsGentle

\* A transaction that changes one more record, without handing out a job.
LEMMA ChangeStep ==
    ASSUME RecordsInv, NEW j \in Job, NEW r \in Record, RecordOK(r),
           \/ r.state \notin Outstanding
           \/ Swept[j].state \in Outstanding
           \/ SweptIn(Outstanding) = {},
           ledger' = [Swept EXCEPT ![j] = r],
           drawn' \in 0..MaxLeases
    PROVE  RecordsInv' /\ ledger'[j] = r /\ \A k \in Job \ {j} : Gentle(k)
<1>1. Swept \in [Job -> Record] /\ Good(Swept)
  BY SweptFacts, SweptGood
<1>2. /\ ledger' \in [Job -> Record] /\ ledger'[j] = r
      /\ \A k \in Job \ {j} : ledger'[k] = Swept[k]
  BY <1>1
<1>3. \A k \in Job : RecordOK(ledger'[k])
  BY <1>1, <1>2 DEF Good
<1>4. ASSUME NEW i \in Job, NEW k \in Job,
             ledger'[i].state \in Outstanding, ledger'[k].state \in Outstanding
      PROVE  i = k
  <2>1. CASE SweptIn(Outstanding) = {}
    BY <1>2, <1>4, <2>1 DEF SweptIn
  <2>2. CASE r.state \notin Outstanding \/ Swept[j].state \in Outstanding
    BY <1>1, <1>2, <1>4, <2>2 DEF Good
  <2> QED BY <2>1, <2>2
<1>5. Good(ledger')
  BY <1>2, <1>3, <1>4 DEF Good
<1> QED
  BY <1>2, <1>5, GoodIsInvariant, SweptIsGentle

\* ... and, if that record too is changed gently, none is changed otherwise.
LEMMA GentleChange ==
    ASSUME RecordsInv, NEW j \in Job, NEW r \in Record, RecordOK(r),
           \/ r.state \notin Outstanding
           \/ Swept[j].state \in Outstanding
           \/ SweptIn(Outstanding) = {},
           ledger' = [Swept EXCEPT ![j] = r],
           drawn' \in 0..MaxLeases,
           Swept[j].state \in Begun => r.state \in Begun,
           \/ r.result = Swept[j].result
           \/ /\ Swept[j].state \notin Begun /\ Swept[j].result = "none"
              /\ r.result = "cancelled"
    PROVE  RecordsInv' /\ \A k \in Job : Gentle(k)
<1>1. RecordsInv' /\ ledger'[j] = r /\ \A k \in Job \ {j} : Gentle(k)
  BY ChangeStep
<1>2. Gentle(j)
  BY <1>1, SweptFacts DEF Gentle
<1> QED BY <1>1, <1>2

LEMMA DispatchStep ==
    ASSUME RecordsInv, NEW j \in Job, Dispatch(j)
    PROVE  RecordsInv' /\ \A k \in Job : Gentle(k)
<1>1. CASE Swept[j].state # "absent"
  BY <1>1, SweepStep DEF Dispatch
<1>2. CASE Swept[j].state = "absent"
  <2> DEFINE n == Cardinality(Recorded) + 1
             r == [NoRecord EXCEPT !.state = "queued", !.at = n]
  <2>1. n \in Nat
    BY HostConstants, FS_Subset, FS_CardinalityType DEF Recorded
  <2>2. r \in Record
    BY <2>1, RecordValues
  <2>3. ledger' = [Swept EXCEPT ![j] = r] /\ drawn' = drawn
    BY <1>2 DEF Dispatch, Publish
  <2>4. r.state = "queued" /\ r.result = "none" /\ ~r.cancellationRequested
    BY DEF NoRecord
  <2>5. RecordOK(r) /\ r.state \notin Outstanding
    BY <2>4 DEF RecordOK, Outstanding, Begun, Outcome
  <2>6. Swept[j].result = "none" /\ Swept[j].state \notin Begun
    BY <1>2, SweptFacts DEF RecordOK, Begun, Outcome
  <2> HIDE DEF r
  <2> QED
    BY <2>2, <2>3, <2>4, <2>5, <2>6, DrawnType, GentleChange
<1> QED BY <1>1, <1>2

LEMMA CancelledFacts ==
    ASSUME NEW r \in Record, RecordOK(r)
    PROVE  LET x == Cancelled(r) IN
           /\ x \in Record /\ RecordOK(x)
           /\ x.state \in Outstanding => r.state \in Outstanding
           /\ r.state \in Begun => x.state \in Begun
           /\ \/ x.result = r.result
              \/ /\ r.state \notin Begun /\ r.result = "none"
                 /\ x.result = "cancelled"
<1>1. Cancelled(r) \in Record
  BY RecordValues
<1> QED
  BY <1>1 DEF Record, RecordOK, Cancelled, Outstanding, Begun, Outcome

LEMMA CancelStep ==
    ASSUME RecordsInv, NEW j \in Job, Cancel(j)
    PROVE  RecordsInv' /\ \A k \in Job : Gentle(k)
<1> DEFINE r == Cancelled(Swept[j])
<1>1. Swept[j] \in Record /\ RecordOK(Swept[j])
  BY SweptFacts
<1>2. ledger' = [Swept EXCEPT ![j] = r] /\ drawn' = drawn
  BY DEF Cancel, Publish
<1>3. /\ r \in Record /\ RecordOK(r)
      /\ r.state \in Outstanding => Swept[j].state \in Outstanding
      /\ Swept[j].state \in Begun => r.state \in Begun
      /\ \/ r.result = Swept[j].result
         \/ /\ Swept[j].state \notin Begun /\ Swept[j].result = "none"
            /\ r.result = "cancelled"
  BY <1>1, CancelledFacts
<1> HIDE DEF r
<1> QED BY <1>2, <1>3, DrawnType, GentleChange

LEMMA ClaimStep ==
    ASSUME RecordsInv, ClaimNothing \/ \E j \in Job : ClaimAgain(j) \/ ClaimNext(j)
    PROVE  RecordsInv' /\ \A k \in Job : Gentle(k)
<1>1. CASE ClaimNothing \/ \E j \in Job : ClaimAgain(j)
  BY <1>1, SweepStep DEF ClaimNothing, ClaimAgain
<1>2. ASSUME NEW j \in Job, ClaimNext(j)
      PROVE  RecordsInv' /\ \A k \in Job : Gentle(k)
  <2> DEFINE r == [Swept[j] EXCEPT !.state = "leased", !.leaseId = drawn + 1,
                                   !.lapsed = FALSE]
  <2>1. drawn \in Nat /\ drawn + 1 \in Nat /\ drawn' \in 0..MaxLeases
    <3>1. drawn \in 0..MaxLeases /\ MaxLeases \in Nat
      BY DrawnType, HostConstants
    <3>2. drawn < MaxLeases /\ drawn' = drawn + 1
      BY <1>2 DEF ClaimNext
    <3> QED BY <3>1, <3>2
  <2>2. Swept \in [Job -> Record] /\ Swept[j] \in Record
    BY SweptFacts
  <2>3. r \in Record
    <3>1. "leased" \in States
      BY DEF States, Outstanding
    <3> QED BY <2>1, <2>2, <3>1, RecordValues
  <2>4. ledger' = [Swept EXCEPT ![j] = r]
    BY <1>2, <2>2 DEF ClaimNext
  <2>5. /\ r.state = "leased" /\ r.result = Swept[j].result
        /\ r.cancellationRequested = Swept[j].cancellationRequested
    BY <2>2 DEF Record
  <2>6. Swept[j].state = "queued" /\ SweptIn(Outstanding) = {}
    BY <1>2 DEF ClaimNext, SweptIn
  <2>7. RecordOK(Swept[j])
    BY SweptFacts
  <2>8. RecordOK(r)
    BY <2>5, <2>6, <2>7 DEF RecordOK, Outcome
  <2>9. Swept[j].state \notin Begun
    BY <2>6 DEF Begun
  <2> HIDE DEF r
  <2> QED
    BY <2>1, <2>3, <2>4, <2>5, <2>6, <2>8, <2>9, GentleChange
<1> QED
  BY <1>1, <1>2

\* Begin and heartbeat leave a job running under a lease that has not lapsed.
LEMMA RunningStep ==
    ASSUME RecordsInv, NEW j \in Job,
           ~Swept[j].cancellationRequested \/ Swept[j].state = "running",
           Swept[j].state \in {"leased", "running"},
           ledger' = [Swept EXCEPT ![j] = [Swept[j] EXCEPT !.state = "running",
                                                           !.lapsed = FALSE]],
           drawn' = drawn
    PROVE  /\ RecordsInv' /\ ledger'[j].state \in Begun
           /\ \A k \in Job : Gentle(k)
<1> DEFINE r == [Swept[j] EXCEPT !.state = "running", !.lapsed = FALSE]
<1>1. Swept[j] \in Record /\ RecordOK(Swept[j])
  BY SweptFacts
<1>2. r \in Record
  <2>1. "running" \in States
    BY DEF States, Outstanding, Begun
  <2> QED BY <1>1, <2>1, RecordValues
<1>3. /\ r.state = "running" /\ r.result = Swept[j].result
      /\ r.cancellationRequested = Swept[j].cancellationRequested
  BY <1>1 DEF Record
<1>4. RecordOK(r)
  BY <1>1, <1>3 DEF RecordOK, Outcome
<1>5. r.state \in Begun /\ Swept[j].state \in Outstanding
  BY <1>3 DEF Begun, Outstanding
<1>6. ledger' = [Swept EXCEPT ![j] = r]
  OBVIOUS
<1> HIDE DEF r
<1>7. RecordsInv' /\ \A k \in Job : Gentle(k)
  BY <1>2, <1>3, <1>4, <1>5, <1>6, DrawnType, GentleChange
<1>8. Swept \in [Job -> Record]
  BY SweptFacts
<1> QED
  BY <1>5, <1>6, <1>7, <1>8

LEMMA BeginStep ==
    ASSUME RecordsInv, NEW j \in Job, NEW lease, Begin(j, lease)
    PROVE  /\ RecordsInv' /\ ledger'[j].state \in Begun
           /\ \A k \in Job : Gentle(k)
<1>1. Swept \in [Job -> Record] /\ Swept[j] \in Record
  BY SweptFacts
<1>2. ledger' = [Swept EXCEPT ![j] = [Swept[j] EXCEPT !.state = "running",
                                                      !.lapsed = FALSE]]
  BY <1>1 DEF Begin, Publish
<1> QED
  BY <1>2, RunningStep DEF Begin, Publish

LEMMA HeartbeatStep ==
    ASSUME RecordsInv, NEW j \in Job, NEW lease, Heartbeat(j, lease)
    PROVE  RecordsInv' /\ \A k \in Job : Gentle(k)
<1>1. Swept \in [Job -> Record] /\ Swept[j] \in Record /\ Swept[j].state = "running"
  BY SweptFacts DEF Heartbeat
<1>2. [Swept[j] EXCEPT !.lapsed = FALSE]
        = [Swept[j] EXCEPT !.state = "running", !.lapsed = FALSE]
  BY <1>1 DEF Record
<1>3. ledger' = [Swept EXCEPT ![j] = [Swept[j] EXCEPT !.lapsed = FALSE]]
  BY <1>1 DEF Heartbeat, Publish
<1>4. ledger' = [Swept EXCEPT ![j] = [Swept[j] EXCEPT !.state = "running",
                                                      !.lapsed = FALSE]]
  BY <1>2, <1>3
<1> QED
  BY <1>1, <1>4, RunningStep DEF Heartbeat, Publish

LEMMA FinishStep ==
    ASSUME RecordsInv, NEW j \in Job, NEW lease, NEW o \in Outcome,
           Finish(j, lease, o)
    PROVE  /\ RecordsInv'
           /\ \A k \in Job : Gentle(k) \/ (k = j /\ ledger'[k].result = o)
<1>1. CASE Publish(Swept)
  BY <1>1, SweepStep
<1>2. ASSUME Swept[j].cancellationRequested => o = "cancelled",
             Publish([Swept EXCEPT ![j].state = o, ![j].result = o])
      PROVE  /\ RecordsInv'
             /\ \A k \in Job : Gentle(k) \/ (k = j /\ ledger'[k].result = o)
  <2> DEFINE r == [Swept[j] EXCEPT !.state = o, !.result = o]
  <2>1. Swept \in [Job -> Record] /\ Swept[j] \in Record
    BY SweptFacts
  <2>2. r \in Record
    BY <2>1, RecordValues
  <2>3. ledger' = [Swept EXCEPT ![j] = r] /\ drawn' = drawn
    BY <1>2, <2>1 DEF Publish
  <2>4. /\ r.state = o /\ r.result = o
        /\ r.cancellationRequested = Swept[j].cancellationRequested
    BY <2>1 DEF Record
  <2>5. RecordOK(r) /\ r.state \notin Outstanding
    BY <1>2, <2>4 DEF RecordOK, Outcome, Outstanding, Begun
  <2> HIDE DEF r
  <2>6. RecordsInv' /\ ledger'[j] = r /\ \A k \in Job \ {j} : Gentle(k)
    BY <2>2, <2>3, <2>5, DrawnType, ChangeStep
  <2> QED
    BY <2>4, <2>6
<1> QED
  BY <1>1, <1>2 DEF Finish

LEMMA LapseStep ==
    ASSUME RecordsInv, NEW j \in Job, LeaseLapses(j)
    PROVE  RecordsInv' /\ \A k \in Job : Gentle(k)
<1> DEFINE r == [ledger[j] EXCEPT !.lapsed = TRUE]
<1>1. ledger \in [Job -> Record] /\ ledger[j] \in Record
  BY DEF RecordsInv, HostTypeOK
<1>2. r \in Record
  BY <1>1, RecordValues
<1>3. ledger' = [ledger EXCEPT ![j] = r] /\ drawn' = drawn
  BY <1>1 DEF LeaseLapses
<1>4. /\ r.state = ledger[j].state /\ r.result = ledger[j].result
      /\ r.cancellationRequested = ledger[j].cancellationRequested
  BY <1>1 DEF Record
<1>5. RecordOK(r)
  BY <1>4 DEF RecordsInv, RecordOK
<1> HIDE DEF r
<1>6. /\ ledger' \in [Job -> Record]
      /\ \A k \in Job : /\ RecordOK(ledger'[k])
                        /\ ledger'[k].state = ledger[k].state
                        /\ ledger'[k].result = ledger[k].result
  BY <1>1, <1>2, <1>3, <1>4, <1>5 DEF RecordsInv
<1>7. Good(ledger')
  BY <1>6 DEF Good, RecordsInv, OneOutstanding, InState
<1> QED
  BY <1>3, <1>6, <1>7, DrawnType, GoodIsInvariant DEF Gentle

LEMMA ServerStep ==
    ASSUME RecordsInv, ServerCalls \/ \E j \in Job : LeaseLapses(j)
    PROVE  RecordsInv' /\ \A k \in Job : Gentle(k)
<1>1. CASE Observe
  BY <1>1, SweepStep DEF Observe
<1> QED
  BY <1>1, DispatchStep, CancelStep, LapseStep DEF ServerCalls

LEMMA HostStep == RecordsInv /\ [HostNext]_hostVars => RecordsInv'
<1> SUFFICES ASSUME RecordsInv, [HostNext]_hostVars PROVE RecordsInv'
  OBVIOUS
<1>1. CASE ServerCalls \/ \E j \in Job : LeaseLapses(j)
  BY <1>1, ServerStep
<1>2. CASE MacCalls
  BY <1>2, ClaimStep, BeginStep, HeartbeatStep, FinishStep DEF MacCalls
<1>3. CASE UNCHANGED hostVars
  BY <1>3 DEF hostVars, RecordsInv, HostTypeOK, OneOutstanding, InState
<1> QED BY <1>1, <1>2, <1>3 DEF HostNext

LEMMA HostInitInv == HostInit => RecordsInv
<1> SUFFICES ASSUME HostInit PROVE RecordsInv
  OBVIOUS
<1>1. ledger = [j \in Job |-> NoRecord] /\ drawn = 0
  BY DEF HostInit
<1>2. HostTypeOK
  <2>1. ledger \in [Job -> Record]
    BY <1>1, RecordValues
  <2>2. drawn \in 0..MaxLeases
    BY <1>1, HostConstants
  <2> QED BY <2>1, <2>2 DEF HostTypeOK
<1>3. NoRecord.state = "absent" /\ NoRecord.result = "none"
      /\ NoRecord.cancellationRequested = FALSE
  BY DEF NoRecord
<1>4. OneOutstanding
  BY <1>1, <1>3 DEF OneOutstanding, InState, Outstanding, Begun
<1>5. RecordOK(NoRecord)
  BY <1>3 DEF RecordOK, Outcome
<1> QED
  BY <1>1, <1>2, <1>4, <1>5 DEF RecordsInv

\* The ledger alone: whatever calls reach it, in any order and with any lease.
THEOREM LedgerInductive == HostSpec => []RecordsInv
BY HostInitInv, HostStep, PTL DEF HostSpec

\* At most one job is handed out, running or quarantined.
THEOREM OneJobOutstanding == HostSpec => []OneOutstanding
<1>1. RecordsInv => OneOutstanding
  BY DEF RecordsInv
<1> QED BY <1>1, LedgerInductive, PTL

\* A requested cancellation admits no other result.
THEOREM CancellationIsHonoured == HostSpec => []CancellationHonoured
<1>1. RecordsInv => CancellationHonoured
  BY DEF RecordsInv, RecordOK, CancellationHonoured
<1> QED BY <1>1, LedgerInductive, PTL

-----------------------------------------------------------------------------
(***************************************************************************)
(* What the agent service is answered (Dispatching).                       *)
(***************************************************************************)
\* From record r to record x a task moves as the service may see it.
Told(r, x) ==
    /\ r.cancellationRequested => x.cancellationRequested
    /\ x.cancellationRequested => r.cancellationRequested \/ Answered(r) # "none"
    /\ \/ Answered(x) = Answered(r)
       \/ Answered(r) = "none" /\ Answered(x) = "queued"
       \/ Answered(x) \in Service!After(Answered(r), x.cancellationRequested)

\* A lapse and a sweep are seen as a failure of what ran, or not at all.
LEMMA SweepTells ==
    ASSUME NEW r \in Record
    PROVE  Told(r, Expired(r)) /\ Told(r, [r EXCEPT !.lapsed = TRUE])
BY DEF Record, Told, Answered, Expired, Outstanding, Begun, Outcome, Service!After

\* What the operations do to a record that was swept first.
LEMMA OperationTells ==
    ASSUME NEW r \in Record, RecordOK(r)
    PROVE  /\ Told(r, Cancelled(Expired(r)))
           /\ \A n \in Nat : Expired(r).state = "queued" =>
                Told(r, [Expired(r) EXCEPT !.state = "leased", !.leaseId = n, !.lapsed = FALSE])
           /\ Expired(r).state \in {"leased", "running"} =>
                Told(r, [Expired(r) EXCEPT !.state = "running", !.lapsed = FALSE])
           /\ \A o \in Outcome :
                /\ Expired(r).cancellationRequested => o = "cancelled"
                /\ \/ Expired(r).state = "running"
                   \/ Expired(r).state = "quarantined" /\ o = "cancelled"
                => Told(r, [Expired(r) EXCEPT !.state = o, !.result = o])
           /\ \A n \in Nat : Expired(r).state = "absent" =>
                Told(r, [NoRecord EXCEPT !.state = "queued", !.at = n])
<1> USE DEF Record, RecordOK, Told, Answered, Outstanding, Begun, Outcome, Service!After
<1>1. Told(r, Cancelled(Expired(r)))
  BY DEF Expired, Cancelled
<1>2. ASSUME NEW n \in Nat, Expired(r).state = "queued"
      PROVE  Told(r, [Expired(r) EXCEPT !.state = "leased", !.leaseId = n, !.lapsed = FALSE])
  BY <1>2 DEF Expired
<1>3. ASSUME Expired(r).state \in {"leased", "running"}
      PROVE  Told(r, [Expired(r) EXCEPT !.state = "running", !.lapsed = FALSE])
  BY <1>3 DEF Expired
<1>4. ASSUME NEW o \in Outcome, Expired(r).cancellationRequested => o = "cancelled",
             \/ Expired(r).state = "running"
             \/ Expired(r).state = "quarantined" /\ o = "cancelled"
      PROVE  Told(r, [Expired(r) EXCEPT !.state = o, !.result = o])
  BY <1>4 DEF Expired
<1>5. ASSUME NEW n \in Nat, Expired(r).state = "absent"
      PROVE  Told(r, [NoRecord EXCEPT !.state = "queued", !.at = n])
  BY <1>5 DEF Expired, NoRecord
<1> QED BY <1>1, <1>2, <1>3, <1>4, <1>5

\* Every task moves so.
AllTold == \A k \in Job : Told(ledger[k], ledger'[k])

LEMMA SweptTells ==
    ASSUME RecordsInv, Publish(Swept) PROVE AllTold
BY SweptFacts, SweepTells DEF RecordsInv, HostTypeOK, AllTold, Publish

\* The record of j is changed to x, the others are swept.
LEMMA ChangeTells ==
    ASSUME RecordsInv, NEW j \in Job, NEW x, Told(ledger[j], x),
           ledger' = [Swept EXCEPT ![j] = x]
    PROVE  AllTold
BY SweptFacts, SweepTells DEF RecordsInv, HostTypeOK, AllTold

LEMMA ServerTells ==
    ASSUME RecordsInv, ServerCalls \/ \E j \in Job : LeaseLapses(j)
    PROVE  AllTold
<1>1. \A j \in Job : /\ ledger[j] \in Record /\ RecordOK(ledger[j])
                     /\ Swept[j] = Expired(ledger[j])
  BY SweptFacts DEF RecordsInv, HostTypeOK
<1>2. CASE Observe
  BY <1>2, SweptTells DEF Observe
<1>3. ASSUME NEW j \in Job, Dispatch(j) PROVE AllTold
  <2>1. CASE Swept[j].state # "absent"
    BY <1>3, <2>1, SweptTells DEF Dispatch
  <2>2. CASE Swept[j].state = "absent"
    <3>3. Cardinality(Recorded) + 1 \in Nat
      BY HostConstants, FS_Subset, FS_CardinalityType DEF Recorded
    <3>1. PICK n \in Nat : n = Cardinality(Recorded) + 1
      BY <3>3
    <3>2. ledger' = [Swept EXCEPT ![j] = [NoRecord EXCEPT !.state = "queued", !.at = n]]
      BY <1>3, <2>2, <3>1 DEF Dispatch, Publish
    <3> QED BY <1>1, <2>2, <3>2, OperationTells, ChangeTells
  <2> QED BY <2>1, <2>2
<1>4. ASSUME NEW j \in Job, Cancel(j) PROVE AllTold
  <2>1. ledger' = [Swept EXCEPT ![j] = Cancelled(Swept[j])]
    BY <1>4 DEF Cancel, Publish
  <2> QED BY <1>1, <2>1, OperationTells, ChangeTells
<1>5. ASSUME NEW j \in Job, LeaseLapses(j) PROVE AllTold
  <2>1. ledger \in [Job -> Record]
    BY DEF RecordsInv, HostTypeOK
  <2>2. \A k \in Job : \/ ledger'[k] = ledger[k]
                       \/ ledger'[k] = [ledger[k] EXCEPT !.lapsed = TRUE]
    BY <1>5, <2>1 DEF LeaseLapses
  <2>3. \A k \in Job : Told(ledger[k], ledger[k])
    BY DEF Told
  <2> QED BY <1>1, <2>2, <2>3, SweepTells DEF AllTold
<1> QED BY <1>2, <1>3, <1>4, <1>5 DEF ServerCalls

LEMMA ClaimTells ==
    ASSUME RecordsInv, ClaimNothing \/ \E j \in Job : ClaimAgain(j) \/ ClaimNext(j)
    PROVE  AllTold
<1>1. CASE ClaimNothing \/ \E j \in Job : ClaimAgain(j)
  BY <1>1, SweptTells DEF ClaimNothing, ClaimAgain
<1>2. ASSUME NEW j \in Job, ClaimNext(j) PROVE AllTold
  <2>1. /\ ledger[j] \in Record /\ RecordOK(ledger[j])
        /\ Swept[j] = Expired(ledger[j]) /\ Swept \in [Job -> Record]
    BY SweptFacts DEF RecordsInv, HostTypeOK
  <2>2. PICK n \in Nat : n = drawn + 1
    BY DrawnType, HostConstants
  <2>3. ledger' = [Swept EXCEPT ![j] = [Swept[j] EXCEPT !.state = "leased", !.leaseId = n,
                                                        !.lapsed = FALSE]]
    BY <1>2, <2>1, <2>2 DEF ClaimNext
  <2>4. Swept[j].state = "queued"
    BY <1>2 DEF ClaimNext, SweptIn
  <2> QED BY <2>1, <2>3, <2>4, OperationTells, ChangeTells
<1> QED BY <1>1, <1>2

LEMMA BeginTells ==
    ASSUME RecordsInv, NEW j \in Job, NEW lease, Begin(j, lease) \/ Heartbeat(j, lease)
    PROVE  AllTold
<1>1. /\ ledger[j] \in Record /\ RecordOK(ledger[j]) /\ Swept[j] \in Record
      /\ Swept[j] = Expired(ledger[j]) /\ Swept \in [Job -> Record]
  BY SweptFacts DEF RecordsInv, HostTypeOK
<1>2. Swept[j].state \in {"leased", "running"}
  BY DEF Begin, Heartbeat
<1>3. ledger' = [Swept EXCEPT ![j] = [Swept[j] EXCEPT !.state = "running", !.lapsed = FALSE]]
  <2>1. CASE Begin(j, lease)
    BY <1>1, <2>1 DEF Begin, Publish
  <2>2. CASE Heartbeat(j, lease)
    <3>1. ledger' = [Swept EXCEPT ![j] = [Swept[j] EXCEPT !.lapsed = FALSE]]
      BY <1>1, <2>2 DEF Heartbeat, Publish
    <3>2. [Swept[j] EXCEPT !.lapsed = FALSE]
            = [Swept[j] EXCEPT !.state = "running", !.lapsed = FALSE]
      BY <1>1, <2>2 DEF Heartbeat, Record
    <3> QED BY <3>1, <3>2
  <2> QED BY <2>1, <2>2
<1> QED BY <1>1, <1>2, <1>3, OperationTells, ChangeTells

LEMMA FinishTells ==
    ASSUME RecordsInv, NEW j \in Job, NEW lease, NEW o \in Outcome, Finish(j, lease, o)
    PROVE  AllTold
<1>1. /\ ledger[j] \in Record /\ RecordOK(ledger[j]) /\ Swept[j] \in Record
      /\ Swept[j] = Expired(ledger[j]) /\ Swept \in [Job -> Record]
  BY SweptFacts DEF RecordsInv, HostTypeOK
<1>2. CASE Publish(Swept)
  BY <1>2, SweptTells
<1>3. CASE /\ \/ Swept[j].state = "running"
              \/ Swept[j].state = "quarantined" /\ o = "cancelled"
           /\ Publish([Swept EXCEPT ![j].state = o, ![j].result = o])
  <2>1. ledger' = [Swept EXCEPT ![j] = [Swept[j] EXCEPT !.state = o, !.result = o]]
    BY <1>1, <1>3 DEF Publish
  <2>2. Swept[j].cancellationRequested => o = "cancelled"
    BY DEF Finish
  <2>3. Told(ledger[j], [Swept[j] EXCEPT !.state = o, !.result = o])
    BY <1>1, <1>3, <2>2, OperationTells
  <2> QED BY <2>1, <2>3, ChangeTells
<1> QED BY <1>2, <1>3 DEF Finish

\* Tasks that move so move as the contract says.
LEMMA ToldNext ==
    ASSUME RecordsInv, RecordsInv', AllTold
    PROVE  Service!Next
<1> DEFINE task == [j \in Job |-> Answered(ledger[j])]
           asked == {j \in Job : ledger[j].cancellationRequested}
<1>1. \A r \in Record : Answered(r) \in Service!Status
  BY DEF Record, Answered, Service!Status, Outstanding, Begun, Outcome
<1>2. task' \in [Job -> Service!Status]
  BY <1>1 DEF RecordsInv, HostTypeOK
<1>3. asked \subseteq asked' /\ \A j \in asked' \ asked : j \in Job /\ task[j] # "none"
  BY DEF AllTold, Told
<1>4. ASSUME NEW j \in Job PROVE Service!Moves(j)
  <2>1. task[j] = Answered(ledger[j]) /\ task'[j] = Answered(ledger'[j])
    OBVIOUS
  <2>2. /\ ledger'[j] \in Record /\ ledger'[j].cancellationRequested \in BOOLEAN
        /\ j \in asked' <=> ledger'[j].cancellationRequested
    BY DEF RecordsInv, HostTypeOK, Record
  <2>3. Told(ledger[j], ledger'[j])
    BY DEF AllTold
  <2>4. CASE ledger'[j].cancellationRequested
    BY <2>1, <2>2, <2>3, <2>4 DEF Told, Service!Moves, Service!After
  <2>5. CASE ~ledger'[j].cancellationRequested
    BY <2>1, <2>2, <2>3, <2>5 DEF Told, Service!Moves, Service!After
  <2> QED BY <2>4, <2>5, <2>2
<1> QED BY <1>2, <1>3, <1>4 DEF Service!Next

LEMMA HostTells ==
    ASSUME RecordsInv, [HostNext]_hostVars
    PROVE  [Service!Next]_(Service!dispatchingVars)
<1>1. RecordsInv'
  BY HostStep
<1>2. CASE UNCHANGED hostVars
  BY <1>2 DEF hostVars, Service!dispatchingVars
<1>3. CASE HostNext
  <2>1. AllTold
    BY <1>3, ServerTells, ClaimTells, BeginTells, FinishTells DEF HostNext, MacCalls
  <2> QED BY <1>1, <2>1, ToldNext
<1> QED BY <1>2, <1>3

\* The ledger answers the agent service by the rules it relies on, whatever calls
\* reach it: repeated, late, or of a Mac that forgot what it did.
THEOREM LedgerDispatches == HostSpec => ImplementsDispatching
<1>1. HostInit => Service!Init
  BY DEF HostInit, NoRecord, Answered, Service!Init
<1> QED
  BY <1>1, LedgerInductive, HostTells, PTL
     DEF HostSpec, ImplementsDispatching, Service!Spec

-----------------------------------------------------------------------------
(***************************************************************************)
(* The ledger and the executions.                                          *)
(***************************************************************************)
\* A result is recorded gently, or because it is the outcome.
Faithful(j) ==
    \/ Gentle(j)
    \/ execution[j] \in Outcome /\ ledger'[j].result = execution[j]

\* A faithful transaction keeps what ties the ledger to the executions.
LEMMA FaithfulStep ==
    ASSUME RecordsInv, ExecutionInv, \A j \in Job : Faithful(j),
           UNCHANGED execution
    PROVE  /\ ExecutionInv'
           /\ \A j \in Job : WasBegun(j) => WasBegun(j)'
<1>1. \A j \in Job : RecordOK(ledger[j])
  BY DEF RecordsInv
<1> QED
  BY <1>1 DEF ExecutionInv, Faithful, Gentle, WasBegun, RecordOK, Begun, Outcome

LEMMA AnswerValues ==
    /\ Pending \in Answer
    /\ \A k \in {"pending", "claim", "empty", "ok", "cancel"} :
          Says(k) \in Answer /\ Says(k).kind = k
BY DEF Pending, Says, Answer

\* The transaction of a truthful call is faithful.
LEMMA ServesStep ==
    ASSUME RecordsInv, NEW c \in Call, Truthful(c), NEW b \in BOOLEAN,
           Serves(c, b), answer \in Answer
    PROVE  /\ RecordsInv'
           /\ \A j \in Job : Faithful(j)
           /\ c.op = "begin" => ledger'[c.job].state \in Begun
           /\ answer' \in Answer
           /\ answer'.kind = "claim" => answer'.job \in Job \/ answer' = answer
           /\ ~b => answer' = answer
<1>1. CASE /\ c.op = "claim"
           /\ \/ ClaimNothing /\ Answers(b, Says("empty"))
              \/ \E j \in Job :
                    /\ ClaimAgain(j) \/ ClaimNext(j)
                    /\ Answers(b, [kind |-> "claim", job |-> j,
                                   lease |-> ledger'[j].leaseId])
  <2>1. RecordsInv' /\ \A j \in Job : Gentle(j)
    BY <1>1, ClaimStep
  <2>2. \A j \in Job : ledger'[j].leaseId \in Nat
    BY <2>1 DEF RecordsInv, HostTypeOK, Record
  <2>3. \A j \in Job : [kind |-> "claim", job |-> j,
                        lease |-> ledger'[j].leaseId] \in Answer
    BY <2>2 DEF Answer
  <2> QED
    BY <1>1, <2>1, <2>3, AnswerValues DEF Answers, Faithful
<1>2. CASE c.op = "begin" /\ Begin(c.job, c.lease) /\ Answers(b, Says("ok"))
  BY <1>2, BeginStep, AnswerValues DEF Answers, Faithful, Truthful
<1>3. CASE /\ c.op = "heartbeat"
           /\ Heartbeat(c.job, c.lease)
           /\ Answers(b, Says(IF ledger[c.job].cancellationRequested
                              THEN "cancel" ELSE "ok"))
  BY <1>3, HeartbeatStep, AnswerValues DEF Answers, Faithful, Truthful
<1>4. CASE c.op = "finish" /\ Finish(c.job, c.lease, c.result) /\ Answers(b, Says("ok"))
  <2>1. c.job \in Job /\ c.result \in Outcome /\ execution[c.job] = c.result
    BY <1>4 DEF Truthful
  <2>2. /\ RecordsInv'
        /\ \A k \in Job : Gentle(k) \/ (k = c.job /\ ledger'[k].result = c.result)
    BY <1>4, <2>1, FinishStep
  <2> QED
    BY <1>4, <2>1, <2>2, AnswerValues DEF Answers, Faithful
<1> QED
  BY <1>1, <1>2, <1>3, <1>4 DEF Serves

\* The steps of the Mac that reach neither the ledger nor an execution.
LEMMA LedgerFrame ==
    ASSUME RecordsInv, ExecutionInv, UNCHANGED <<hostVars, execution>>
    PROVE  /\ HostTypeOK' /\ RecordsInv' /\ ExecutionInv'
           /\ \A j \in Job : WasBegun(j)' <=> WasBegun(j)
<1>1. ledger' = ledger /\ drawn' = drawn /\ execution' = execution
  BY DEF hostVars
<1> QED
  BY <1>1 DEF RecordsInv, HostTypeOK, OneOutstanding, InState, ExecutionInv, WasBegun

\* The values the steps of the Mac assign.
LEMMA MacValues ==
    ASSUME TypeOK
    PROVE  /\ NoCall \in Call /\ Pending \in Answer
           /\ Nothing \in Active /\ NoStart \in Start
           /\ [NoCall EXCEPT !.op = "claim"] \in Call
           /\ [NoCall EXCEPT !.op = "begin", !.job = answer.job,
                             !.lease = answer.lease] \in Call
           /\ HeartbeatCall \in Call
           /\ FinishCall \in Call
           /\ [FinishCall EXCEPT !.result = "cancelled"] \in Call
           /\ [pc |-> "called", job |-> call.job, lease |-> call.lease,
               late |-> FALSE] \in Start
           /\ [start EXCEPT !.late = TRUE] \in Start
           /\ [start EXCEPT !.pc = "launched"] \in Start
           /\ [start EXCEPT !.pc = "stopping"] \in Start
           /\ [Nothing EXCEPT !.job = start.job, !.lease = start.lease,
                              !.watched = TRUE] \in Active
           /\ [Nothing EXCEPT !.job = start.job, !.lease = start.lease] \in Active
           /\ [active EXCEPT !.outcome = "cancelled"] \in Active
           /\ [active EXCEPT !.failed = TRUE] \in Active
           /\ \A o \in Outcome : [active EXCEPT !.outcome = o] \in Active
           /\ active.job \in Job \cup {None} /\ start.job \in Job \cup {None}
<1> USE DEF TypeOK, NoCall, Pending, Nothing, NoStart
<1>1. NoCall \in Call /\ Pending \in Answer /\ Nothing \in Active /\ NoStart \in Start
  BY DEF Call, Answer, Active, Start
<1>2. /\ [NoCall EXCEPT !.op = "claim"] \in Call
      /\ [NoCall EXCEPT !.op = "begin", !.job = answer.job,
                        !.lease = answer.lease] \in Call
      /\ HeartbeatCall \in Call
  BY DEF Call, Answer, Active, HeartbeatCall
<1>3. FinishCall \in Call
  BY DEF Call, Active, FinishCall
<1>4. [FinishCall EXCEPT !.result = "cancelled"] \in Call
  BY <1>3 DEF Call, Outcome
<1>5. /\ [pc |-> "called", job |-> call.job, lease |-> call.lease,
          late |-> FALSE] \in Start
      /\ [start EXCEPT !.late = TRUE] \in Start
      /\ [start EXCEPT !.pc = "launched"] \in Start
      /\ [start EXCEPT !.pc = "stopping"] \in Start
      /\ start.job \in Job \cup {None} /\ start.lease \in Nat
  BY DEF Call, Start
<1>6. /\ [Nothing EXCEPT !.job = start.job, !.lease = start.lease,
                         !.watched = TRUE] \in Active
      /\ [Nothing EXCEPT !.job = start.job, !.lease = start.lease] \in Active
  BY <1>5 DEF Active
<1>7. /\ active \in Active
      /\ active.job \in Job \cup {None}
      /\ [active EXCEPT !.failed = TRUE] \in Active
      /\ \A o \in Outcome : [active EXCEPT !.outcome = o] \in Active
  BY DEF Active
<1>8. [active EXCEPT !.outcome = "cancelled"] \in Active
  BY <1>7 DEF Outcome
<1> QED
  BY <1>1, <1>2, <1>3, <1>4, <1>5, <1>6, <1>7, <1>8

\* The steps of the Mac other than the launch and the end of an execution.
MacSteps ==
    \/ Step \/ Progress \/ Reconnect \/ Disconnect \/ RunStop
    \/ LateStartSucceeds \/ LateStopSucceeds \/ LateStartFails
    \/ ResultResolves \/ ResultRejected \/ MacRestarts

\* What the operations of the connector do to the type of its state.
LEMMA MacTypes ==
    ASSUME IInv, HostTypeOK',
           MacSteps
    PROVE  TypeOK'
<1> USE MacValues DEF IInv, TypeOK, Goto, Calls, Silent, Stops, Fail, switches,
                      local, Owned
<1>1. CASE Step
  BY <1>1 DEF Step
<1>2. CASE Claimed \/ BeginAcknowledged \/ FinishAcknowledged
  BY <1>2 DEF Claimed, BeginAcknowledged, FinishAcknowledged
<1>3. CASE HeartbeatAcknowledged
  BY <1>3 DEF HeartbeatAcknowledged, OwnerInv
<1>4. CASE CallFails
  BY <1>4 DEF CallFails
<1>5. CASE StopSucceeds \/ StopFails
  BY <1>5 DEF StopSucceeds, StopFails
<1>6. CASE StartSucceeds \/ StartFails
  BY <1>6 DEF StartSucceeds, StartFails
<1>7. CASE Reconnect \/ Disconnect \/ RunStop
  BY <1>7 DEF Reconnect, Disconnect, RunStop
<1>8. CASE LateStartSucceeds \/ LateStopSucceeds \/ LateStartFails
  BY <1>8 DEF LateStartSucceeds, LateStopSucceeds, LateStartFails, StartInv
<1>9. CASE ResultResolves \/ ResultRejected
  BY <1>9 DEF ResultResolves, ResultRejected
<1>10. CASE MacRestarts
  <2>1. crashes' \in Nat
    BY <1>10 DEF MacRestarts
  <2>2. orphans' \subseteq Call
    BY <1>10 DEF MacRestarts
  <2>3. /\ pc' = "idle" /\ call' = NoCall /\ answer' = Pending
        /\ active' = Nothing /\ start' = NoStart
        /\ blocked' = FALSE /\ uncertain' = FALSE /\ closed' = FALSE
        /\ stopAsked' = FALSE /\ provable' = {} /\ cancelling' = {}
        /\ execution' = execution
    BY <1>10 DEF MacRestarts
  <2> QED
    BY <2>1, <2>2, <2>3
<1> QED
  BY <1>1, <1>2, <1>3, <1>4, <1>5, <1>6, <1>7, <1>8, <1>9, <1>10 DEF MacSteps, Progress

\* The fields of those values that the invariant is about.
LEMMA MacFields ==
    ASSUME TypeOK
    PROVE  /\ [NoCall EXCEPT !.op = "claim"].op = "claim"
           /\ LET c == [NoCall EXCEPT !.op = "begin", !.job = answer.job,
                                      !.lease = answer.lease]
              IN  c.op = "begin" /\ c.job = answer.job
           /\ HeartbeatCall.op = "heartbeat" /\ HeartbeatCall.job = active.job
           /\ FinishCall.op = "finish" /\ FinishCall.job = active.job
           /\ FinishCall.result = active.outcome
           /\ LET c == [FinishCall EXCEPT !.result = "cancelled"]
              IN  c.op = "finish" /\ c.job = active.job /\ c.result = "cancelled"
           /\ NoCall.op = "none" /\ Pending.kind = "pending"
           /\ LET a == [Nothing EXCEPT !.job = start.job, !.lease = start.lease,
                                       !.watched = TRUE]
              IN  a.job = start.job /\ a.outcome = "none"
           /\ LET a == [Nothing EXCEPT !.job = start.job, !.lease = start.lease]
              IN  a.job = start.job /\ a.outcome = "none"
           /\ LET a == [active EXCEPT !.outcome = "cancelled"]
              IN  a.job = active.job /\ a.outcome = "cancelled"
           /\ LET a == [active EXCEPT !.failed = TRUE]
              IN  a.job = active.job /\ a.outcome = active.outcome
           /\ \A o \in Outcome : LET a == [active EXCEPT !.outcome = o]
                                 IN  a.job = active.job /\ a.outcome = o
BY DEF TypeOK, NoCall, Pending, Nothing, HeartbeatCall, FinishCall, Call, Answer,
       Active, Outcome

\* The calls say what is so.
LEMMA CallStep ==
    ASSUME IInv, MacSteps, UNCHANGED execution,
           \A j \in Job : WasBegun(j)' <=> WasBegun(j)
    PROVE  CallInv'
<1> USE MacFields DEF IInv, TypeOK, StartInv, ActiveInv, OwnerInv, Goto, Calls,
                      Silent, Stops, Fail, switches, local, Owned, Settled,
                      NoStart, Nothing, CallInv, Truthful, Call, Answer
<1>a. /\ Owned => active.job \in Job
      /\ Settled => Owned /\ active.outcome \in Outcome
                          /\ execution[active.job] = active.outcome
  BY DEF Active
<1>1. CASE Step
  <2>1. CASE call' = FinishCall /\ pc' = "finish" /\ answer' = Pending /\ Settled
    BY <1>1, <1>a, <2>1 DEF Step
  <2>2. CASE call' = HeartbeatCall /\ pc' = "heartbeat" /\ answer' = Pending
    BY <1>1, <1>a, <2>2 DEF Step
  <2>3. CASE call' = NoCall /\ pc' \in {"stop", "idle"} /\ answer' = Pending
    BY <1>1, <2>3 DEF Step
  <2>4. CASE call' = [NoCall EXCEPT !.op = "claim"] /\ pc' = "claim" /\ answer' = Pending
    BY <1>1, <2>4 DEF Step
  <2> QED BY <1>1, <2>1, <2>2, <2>3, <2>4 DEF Step
<1>2. CASE Claimed
  <2> DEFINE c == [NoCall EXCEPT !.op = "begin", !.job = answer.job,
                                 !.lease = answer.lease]
  <2>1. c.op = "begin" /\ c.job = answer.job
    OBVIOUS
  <2>2. \/ pc' = "idle" /\ call' = NoCall /\ answer' = Pending
        \/ /\ pc' = "begin" /\ call' = c /\ answer' = Pending
           /\ answer.kind = "claim"
    BY <1>2 DEF Claimed
  <2>3. orphans' = orphans
    BY <1>2 DEF Claimed
  <2> HIDE DEF c
  <2> QED BY <2>1, <2>2, <2>3
<1>3. CASE BeginAcknowledged
  BY <1>3 DEF BeginAcknowledged
<1>4. CASE HeartbeatAcknowledged
  <2>1. \/ pc' \in {"idle", "stopThenFinish"} /\ call' = NoCall /\ answer' = Pending
        \/ pc' = "finish" /\ call' = FinishCall /\ answer' = Pending /\ Settled
    BY <1>4 DEF HeartbeatAcknowledged
  <2>2. orphans' = orphans
    BY <1>4 DEF HeartbeatAcknowledged
  <2> QED BY <1>a, <2>1, <2>2
<1>5. CASE FinishAcknowledged
  BY <1>5 DEF FinishAcknowledged
<1>6. CASE CallFails
  BY <1>6 DEF CallFails
<1>7. CASE StopSucceeds
  <2> DEFINE c == [FinishCall EXCEPT !.result = "cancelled"]
  <2>1. c.op = "finish" /\ c.job = active.job /\ c.result = "cancelled"
    OBVIOUS
  <2>2. \/ pc' = "idle" /\ call' = NoCall /\ answer' = Pending
        \/ pc' = "finish" /\ call' = c /\ answer' = Pending
    BY <1>7 DEF StopSucceeds
  <2>3. /\ active.job \in Job /\ execution[active.job] = "cancelled"
        /\ orphans' = orphans
    BY <1>7 DEF StopSucceeds, StoppedByCancel
  <2> HIDE DEF c
  <2> QED BY <2>1, <2>2, <2>3 DEF Outcome
<1>8. CASE StopFails
  BY <1>8 DEF StopFails
<1>9. CASE StartSucceeds
  BY <1>9 DEF StartSucceeds
<1>10. CASE StartFails
  BY <1>10 DEF StartFails
<1>11. CASE Reconnect \/ Disconnect \/ RunStop
  BY <1>11 DEF Reconnect, Disconnect, RunStop
<1>12. CASE LateStartSucceeds
  BY <1>12 DEF LateStartSucceeds
<1>13. CASE LateStopSucceeds
  BY <1>13 DEF LateStopSucceeds, StoppedByCancel
<1>14. CASE LateStartFails
  BY <1>14 DEF LateStartFails
<1>15. CASE ResultResolves \/ ResultRejected
  BY <1>15 DEF ResultResolves, ResultRejected, Listens
<1>16. CASE MacRestarts
  BY <1>16 DEF MacRestarts
<1> QED
  BY <1>1, <1>2, <1>3, <1>4, <1>5, <1>6, <1>7, <1>8, <1>9, <1>10, <1>11, <1>12, <1>13, <1>14, <1>15, <1>16 DEF MacSteps, Progress

\* A start stands for a job that was begun.
LEMMA StartStep ==
    ASSUME IInv, MacSteps, UNCHANGED execution,
           \A j \in Job : WasBegun(j)' <=> WasBegun(j)
    PROVE  StartInv'
<1> USE MacFields DEF IInv, TypeOK, StartInv, ActiveInv, OwnerInv, Goto, Calls,
                      Silent, Stops, Fail, switches, local, Owned, Settled,
                      NoStart, Nothing, CallInv, Truthful, Start, Answer
<1>1. CASE Step
  BY <1>1 DEF Step
<1>2. CASE Claimed
  BY <1>2 DEF Claimed
<1>3. CASE BeginAcknowledged
  BY <1>3 DEF BeginAcknowledged
<1>4. CASE HeartbeatAcknowledged
  BY <1>4 DEF HeartbeatAcknowledged
<1>5. CASE FinishAcknowledged
  BY <1>5 DEF FinishAcknowledged
<1>6. CASE CallFails
  BY <1>6 DEF CallFails
<1>7. CASE StopSucceeds
  BY <1>7 DEF StopSucceeds, StoppedByCancel
<1>8. CASE StopFails
  BY <1>8 DEF StopFails
<1>9. CASE StartSucceeds
  BY <1>9 DEF StartSucceeds
<1>10. CASE StartFails
  BY <1>10 DEF StartFails
<1>11. CASE Reconnect \/ Disconnect \/ RunStop
  BY <1>11 DEF Reconnect, Disconnect, RunStop
<1>12. CASE LateStartSucceeds
  BY <1>12 DEF LateStartSucceeds
<1>13. CASE LateStopSucceeds
  BY <1>13 DEF LateStopSucceeds, StoppedByCancel
<1>14. CASE LateStartFails
  BY <1>14 DEF LateStartFails
<1>15. CASE ResultResolves \/ ResultRejected
  BY <1>15 DEF ResultResolves, ResultRejected, Listens
<1>16. CASE MacRestarts
  BY <1>16 DEF MacRestarts
<1> QED
  BY <1>1, <1>2, <1>3, <1>4, <1>5, <1>6, <1>7, <1>8, <1>9, <1>10, <1>11, <1>12, <1>13, <1>14, <1>15, <1>16 DEF MacSteps, Progress

\* What the connector owns was launched.
LEMMA ActiveStep ==
    ASSUME IInv, MacSteps, UNCHANGED execution,
           \A j \in Job : WasBegun(j)' <=> WasBegun(j)
    PROVE  ActiveInv'
<1> USE MacFields DEF IInv, TypeOK, StartInv, ActiveInv, OwnerInv, Goto, Calls,
                      Silent, Stops, Fail, switches, local, Owned, Settled,
                      NoStart, Nothing, Active, Start, Outcome
<1>1. CASE Step
  BY <1>1 DEF Step
<1>2. CASE Claimed
  BY <1>2 DEF Claimed
<1>3. CASE BeginAcknowledged
  BY <1>3 DEF BeginAcknowledged
<1>4. CASE HeartbeatAcknowledged
  BY <1>4 DEF HeartbeatAcknowledged
<1>5. CASE FinishAcknowledged
  BY <1>5 DEF FinishAcknowledged
<1>6. CASE CallFails
  BY <1>6 DEF CallFails
<1>7. CASE StopSucceeds
  BY <1>7 DEF StopSucceeds, StoppedByCancel
<1>8. CASE StopFails
  BY <1>8 DEF StopFails
<1>9. CASE StartSucceeds
  <2>1. active'.job = start.job /\ active'.outcome = "none" /\ start.job \in Job
    BY <1>9, MacConstants DEF StartSucceeds
  <2> QED BY <1>9, <2>1, MacConstants DEF StartSucceeds
<1>10. CASE StartFails
  BY <1>10 DEF StartFails
<1>11. CASE Reconnect \/ Disconnect \/ RunStop
  BY <1>11 DEF Reconnect, Disconnect, RunStop
<1>12. CASE LateStartSucceeds
  <2>1. active'.job = start.job /\ active'.outcome = "none" /\ start.job \in Job
    BY <1>12, MacConstants DEF LateStartSucceeds
  <2> QED BY <1>12, <2>1, MacConstants DEF LateStartSucceeds
<1>13. CASE LateStopSucceeds
  <2>1. active'.job = active.job /\ active'.outcome = "cancelled"
    BY <1>13 DEF LateStopSucceeds
  <2>2. active.job \in Job /\ execution[active.job] = "cancelled"
    BY <1>13 DEF LateStopSucceeds, StoppedByCancel
  <2> QED BY <1>13, <2>1, <2>2, MacConstants DEF LateStopSucceeds
<1>14. CASE LateStartFails
  BY <1>14 DEF LateStartFails
<1>15. CASE ResultResolves \/ ResultRejected
  BY <1>15 DEF ResultResolves, ResultRejected, Listens
<1>16. CASE MacRestarts
  BY <1>16 DEF MacRestarts
<1> QED
  BY <1>1, <1>2, <1>3, <1>4, <1>5, <1>6, <1>7, <1>8, <1>9, <1>10, <1>11, <1>12, <1>13, <1>14, <1>15, <1>16 DEF MacSteps, Progress

\* What runs is owned, or the connector is uncertain.
LEMMA OwnerStep ==
    ASSUME IInv, MacSteps, UNCHANGED execution,
           \A j \in Job : WasBegun(j)' <=> WasBegun(j)
    PROVE  OwnerInv'
<1> USE MacFields DEF IInv, TypeOK, StartInv, ActiveInv, OwnerInv, Goto, Calls,
                      Silent, Stops, Fail, switches, local, Owned, Settled,
                      NoStart, Nothing, CallInv, Active, Start, Outcome
<1>1. CASE Step
  BY <1>1 DEF Step
<1>2. CASE Claimed
  BY <1>2 DEF Claimed
<1>3. CASE BeginAcknowledged
  BY <1>3 DEF BeginAcknowledged
<1>4. CASE HeartbeatAcknowledged
  BY <1>4 DEF HeartbeatAcknowledged
<1>5. CASE FinishAcknowledged
  BY <1>5 DEF FinishAcknowledged
<1>6. CASE CallFails
  BY <1>6 DEF CallFails
<1>7. CASE StopSucceeds
  BY <1>7 DEF StopSucceeds, StoppedByCancel
<1>8. CASE StopFails
  BY <1>8 DEF StopFails
<1>9. CASE StartSucceeds
  <2>1. active'.job = start.job /\ active'.outcome = "none" /\ start.job \in Job
    BY <1>9, MacConstants DEF StartSucceeds
  <2> QED BY <1>9, <2>1, MacConstants DEF StartSucceeds
<1>10. CASE StartFails
  BY <1>10 DEF StartFails
<1>11. CASE Reconnect \/ Disconnect \/ RunStop
  BY <1>11 DEF Reconnect, Disconnect, RunStop
<1>12. CASE LateStartSucceeds
  <2>1. active'.job = start.job /\ active'.outcome = "none" /\ start.job \in Job
    BY <1>12, MacConstants DEF LateStartSucceeds
  <2> QED BY <1>12, <2>1, MacConstants DEF LateStartSucceeds
<1>13. CASE LateStopSucceeds
  BY <1>13 DEF LateStopSucceeds, StoppedByCancel
<1>14. CASE LateStartFails
  BY <1>14 DEF LateStartFails
<1>15. CASE ResultResolves \/ ResultRejected
  BY <1>15 DEF ResultResolves, ResultRejected, Listens
<1>16. CASE MacRestarts
  BY <1>16 DEF MacRestarts
<1> QED
  BY <1>1, <1>2, <1>3, <1>4, <1>5, <1>6, <1>7, <1>8, <1>9, <1>10, <1>11, <1>12, <1>13, <1>14, <1>15, <1>16 DEF MacSteps, Progress

LEMMA MacStep == IInv /\ MacSteps => IInv'
<1> SUFFICES ASSUME IInv, MacSteps PROVE IInv'
  OBVIOUS
<1>1. UNCHANGED <<hostVars, execution>>
  BY DEF MacSteps, Progress, Step, Claimed, BeginAcknowledged,
         HeartbeatAcknowledged, FinishAcknowledged, CallFails, StopSucceeds,
         StopFails, StartSucceeds, StartFails, Reconnect, Disconnect, RunStop,
         LateStartSucceeds, LateStopSucceeds, LateStartFails, ResultResolves,
         ResultRejected, MacRestarts, local
<1>2. /\ HostTypeOK' /\ RecordsInv' /\ ExecutionInv'
      /\ \A j \in Job : WasBegun(j)' <=> WasBegun(j)
  BY <1>1, LedgerFrame DEF IInv
<1> QED
  BY <1>1, <1>2, MacTypes, CallStep, StartStep, ActiveStep, OwnerStep DEF IInv

\* A launch is one of a job that was begun; what ran before has stopped.
LEMMA LaunchStep == IInv /\ StartLaunches => IInv'
<1> SUFFICES ASSUME IInv, StartLaunches PROVE IInv'
  OBVIOUS
<1> DEFINE j == start.job
<1>1. start.pc = "called" /\ j \in Job /\ WasBegun(j) /\ uncertain /\ ~Owned
  BY DEF StartLaunches, IInv, StartInv
<1>2. /\ ledger' = ledger /\ drawn' = drawn
      /\ pc' = pc /\ call' = call /\ answer' = answer /\ orphans' = orphans
      /\ active' = active /\ cancelling' = cancelling /\ crashes' = crashes
      /\ blocked' = blocked /\ uncertain' = uncertain /\ closed' = closed
      /\ stopAsked' = stopAsked
  BY DEF StartLaunches, hostVars, switches
<1>3. start' = [start EXCEPT !.pc = "launched"]
  BY DEF StartLaunches
<1>4. /\ start' \in Start /\ start'.pc = "launched" /\ start'.job = j
      /\ start'.late = start.late
  BY <1>3, MacValues DEF IInv, TypeOK, Start
<1>5. \/ execution[j] # "none" /\ execution' = execution /\ provable' = provable
      \/ /\ execution[j] = "none" /\ execution' = [execution EXCEPT ![j] = "running"]
         /\ provable' = provable \cup {j}
  BY DEF StartLaunches
<1>6. execution \in [Job -> Execution] /\ execution' \in [Job -> Execution]
  BY <1>5 DEF IInv, TypeOK, Execution
<1>7. /\ execution'[j] # "none"
      /\ \A k \in Job : \/ execution'[k] = execution[k]
                        \/ /\ k = j /\ execution[k] = "none"
                           /\ execution'[k] = "running"
                           /\ ledger[k].state \in Begun
  BY <1>1, <1>5, <1>6 DEF WasBegun
<1>8. TypeOK'
  BY <1>1, <1>2, <1>4, <1>5, <1>6 DEF IInv, TypeOK, HostTypeOK
<1>9. RecordsInv'
  BY <1>2 DEF IInv, RecordsInv, HostTypeOK, OneOutstanding, InState
<1>10. ExecutionInv'
  BY <1>2, <1>7 DEF IInv, ExecutionInv, Outcome
<1>11. \A k \in Job : WasBegun(k) => WasBegun(k)'
  BY <1>2, <1>7 DEF WasBegun
<1>12. CallInv'
  BY <1>2, <1>7, <1>11 DEF IInv, CallInv, Truthful, Outcome
<1>13. StartInv'
  BY <1>1, <1>2, <1>4, <1>7, <1>11 DEF IInv, StartInv, Owned
<1>14. ActiveInv'
  BY <1>1, <1>2, <1>5, <1>7 DEF IInv, TypeOK, ActiveInv, Owned, Settled, Nothing
<1>15. OwnerInv'
  <2>1. \A k \in provable' : execution'[k] = "running" => k = j
    <3> SUFFICES ASSUME NEW k \in provable', execution'[k] = "running", k # j
                 PROVE  FALSE
      OBVIOUS
    <3>1. k \in Job /\ k \in provable /\ execution[k] = "running"
      BY <1>5, <1>7, <1>8 DEF TypeOK
    <3>2. active.job # k
      BY <1>1, <3>1, MacConstants DEF Owned
    <3> QED BY <1>1, <3>1, <3>2 DEF IInv, OwnerInv
  <2>2. start'.pc = "launched" /\ start'.job = j /\ uncertain'
    BY <1>1, <1>2, <1>4
  <2> QED BY <1>1, <1>2, <2>1, <2>2 DEF IInv, OwnerInv, Owned, Settled
<1> QED
  BY <1>8, <1>9, <1>10, <1>12, <1>13, <1>14, <1>15 DEF IInv

\* An execution ends: only its own job, and what depends on it, is touched.
LEMMA EndStep ==
    ASSUME IInv, NEW j \in Job, ExecutionEnds(j)
    PROVE  IInv'
<1>1. /\ ledger' = ledger /\ drawn' = drawn /\ provable' = provable
      /\ pc' = pc /\ call' = call /\ answer' = answer /\ orphans' = orphans
      /\ active' = active /\ start' = start
      /\ cancelling' = cancelling /\ crashes' = crashes
      /\ blocked' = blocked /\ uncertain' = uncertain /\ closed' = closed
      /\ stopAsked' = stopAsked
  BY DEF ExecutionEnds, hostVars, switches
<1>2. execution \in [Job -> Execution]
  BY DEF IInv, TypeOK
<1>3. PICK o \in Outcome : execution' = [execution EXCEPT ![j] = o]
  BY DEF ExecutionEnds, Outcome
<1>4. execution' \in [Job -> Execution]
  BY <1>2, <1>3 DEF Execution
<1>5. \A k \in Job : \/ execution'[k] = execution[k]
                     \/ /\ k = j /\ execution[k] = "running"
                        /\ execution'[k] \in Outcome
                        /\ ledger[k].state \in Begun
  BY <1>2, <1>3 DEF ExecutionEnds, IInv, ExecutionInv
<1>6. TypeOK'
  BY <1>1, <1>4 DEF IInv, TypeOK, HostTypeOK
<1>7. RecordsInv'
  BY <1>1 DEF IInv, RecordsInv, HostTypeOK, OneOutstanding, InState
<1>8. ExecutionInv'
  BY <1>1, <1>5 DEF IInv, ExecutionInv, Outcome
<1>9. \A k \in Job : WasBegun(k) => WasBegun(k)'
  BY <1>1, <1>5 DEF WasBegun, Outcome
<1>10. CallInv'
  BY <1>1, <1>5, <1>9 DEF IInv, CallInv, Truthful, Outcome
<1>11. StartInv'
  BY <1>1, <1>5, <1>9 DEF IInv, StartInv, Owned, Outcome
<1>12. ActiveInv'
  <2>1. Settled => active.job \in Job /\ active.outcome \in Outcome
    BY DEF IInv, TypeOK, ActiveInv, Owned, Settled, Nothing, Active
  <2>2. Owned => active.job \in Job
    BY DEF IInv, TypeOK, Owned, Active
  <2> QED BY <1>1, <1>5, <1>6, <2>1, <2>2
          DEF IInv, TypeOK, ActiveInv, Owned, Settled, Outcome
<1>13. OwnerInv'
  BY <1>1, <1>5 DEF IInv, TypeOK, OwnerInv, Owned, Settled, Outcome
<1> QED
  BY <1>6, <1>7, <1>8, <1>10, <1>11, <1>12, <1>13 DEF IInv

\* A transaction: of a call, awaited or not, or of the server's own.
LEMMA TransactionStep ==
    ASSUME IInv, RecordsInv', \A j \in Job : Faithful(j),
           UNCHANGED <<pc, call, active, start, switches, local, crashes>>,
           orphans' \subseteq orphans,
           answer' \in Answer,
           answer'.kind = "claim" => answer'.job \in Job,
           call.op = "begin" /\ answer'.kind = "ok" =>
              ledger'[call.job].state \in Begun \/ WasBegun(call.job)
    PROVE  IInv'
<1>1. /\ provable' = provable /\ pc' = pc /\ call' = call
      /\ active' = active /\ start' = start /\ execution' = execution
      /\ cancelling' = cancelling /\ crashes' = crashes
      /\ blocked' = blocked /\ uncertain' = uncertain /\ closed' = closed
      /\ stopAsked' = stopAsked
  BY DEF switches, local
<1>2. ExecutionInv' /\ \A j \in Job : WasBegun(j) => WasBegun(j)'
  BY <1>1, FaithfulStep DEF IInv
<1>3. TypeOK'
  BY <1>1 DEF IInv, TypeOK, RecordsInv
<1>4. CallInv'
  <2>1. call.op = "begin" /\ answer'.kind = "ok" => WasBegun(call.job)'
    BY <1>1, <1>2 DEF WasBegun, IInv, CallInv, Truthful
  <2> QED BY <1>1, <2>1 DEF IInv, CallInv, Truthful
<1>5. StartInv'
  BY <1>1, <1>2 DEF IInv, StartInv, Owned
<1>6. ActiveInv' /\ OwnerInv'
  BY <1>1 DEF IInv, ActiveInv, OwnerInv, Owned, Settled
<1> QED
  BY <1>2, <1>3, <1>4, <1>5, <1>6 DEF IInv

LEMMA ServeStep == IInv /\ (ServeCall \/ \E c \in orphans : ServeOrphan(c)) => IInv'
<1>1. ASSUME IInv, ServeCall PROVE IInv'
  <2>1. call \in Call /\ Truthful(call) /\ answer \in Answer /\ RecordsInv
    BY <1>1 DEF IInv, TypeOK, CallInv
  <2>2. answer.kind = "pending" /\ Serves(call, TRUE)
    BY <1>1 DEF ServeCall
  <2>3. /\ RecordsInv' /\ \A j \in Job : Faithful(j)
        /\ call.op = "begin" => ledger'[call.job].state \in Begun
        /\ answer' \in Answer
        /\ answer'.kind = "claim" => answer'.job \in Job \/ answer' = answer
    BY <2>1, <2>2, ServesStep
  <2>4. answer'.kind = "claim" => answer'.job \in Job
    BY <2>2, <2>3
  <2> QED BY <1>1, <2>3, <2>4, TransactionStep DEF ServeCall
<1>2. ASSUME IInv, NEW c \in orphans, ServeOrphan(c) PROVE IInv'
  <2>1. c \in Call /\ Truthful(c) /\ answer \in Answer /\ RecordsInv
    BY <1>2 DEF IInv, TypeOK, CallInv
  <2>2. Serves(c, FALSE) /\ orphans' \subseteq orphans
    BY <1>2 DEF ServeOrphan
  <2>3. /\ RecordsInv' /\ \A j \in Job : Faithful(j)
        /\ answer' = answer
    BY <2>1, <2>2, ServesStep
  <2>4. /\ answer.kind = "claim" => answer.job \in Job
        /\ call.op = "begin" /\ answer.kind = "ok" => WasBegun(call.job)
    BY <1>2 DEF IInv, CallInv
  <2> QED BY <1>2, <2>1, <2>2, <2>3, <2>4, TransactionStep DEF ServeOrphan
<1> QED BY <1>1, <1>2

LEMMA ServerMacStep == IInv /\ ServerSteps => IInv'
<1> SUFFICES ASSUME IInv, ServerSteps PROVE IInv'
  OBVIOUS
<1>1. RecordsInv' /\ \A j \in Job : Faithful(j)
  BY ServerStep DEF IInv, ServerSteps, Faithful
<1>2. UNCHANGED <<pc, call, answer, orphans, active, start, switches, local, crashes>>
  BY DEF ServerSteps, mac
<1>3. /\ answer \in Answer
      /\ answer.kind = "claim" => answer.job \in Job
      /\ call.op = "begin" /\ answer.kind = "ok" => WasBegun(call.job)
  BY DEF IInv, TypeOK, CallInv
<1>4. answer' = answer
  BY <1>2
<1>5. UNCHANGED <<pc, call, active, start, switches, local, crashes>>
  BY <1>2
<1>6. orphans' \subseteq orphans
  BY <1>2
<1> QED
  BY <1>1, <1>3, <1>4, <1>5, <1>6, TransactionStep

LEMMA InitInv == Init => IInv
<1> SUFFICES ASSUME Init PROVE IInv
  OBVIOUS
<1>1. RecordsInv
  BY HostInitInv DEF Init
<1>2. \A j \in Job : ledger[j].state = "absent" /\ ledger[j].result = "none"
  BY DEF Init, HostInit, NoRecord
<1>3. /\ NoCall \in Call /\ Pending \in Answer /\ Nothing \in Active /\ NoStart \in Start
      /\ NoCall.op = "none" /\ Pending.kind = "pending"
  BY DEF NoCall, Pending, Nothing, NoStart, Call, Answer, Active, Start
<1>4. Nothing.job = None /\ Nothing.outcome = "none" /\ NoStart.pc = "none" /\ ~NoStart.late
  BY DEF Nothing, NoStart
<1>5. TypeOK
  <2>1. execution \in [Job -> Execution]
    BY DEF Init, Execution
  <2> QED BY <1>1, <1>3, <2>1 DEF Init, TypeOK, RecordsInv
<1>6. ExecutionInv
  BY <1>2 DEF Init, ExecutionInv, Outcome
<1>7. CallInv /\ StartInv
  BY <1>3, <1>4 DEF Init, CallInv, StartInv, Truthful
<1>8. ActiveInv /\ OwnerInv
  BY <1>4 DEF Init, ActiveInv, OwnerInv, Owned, Settled
<1> QED
  BY <1>1, <1>5, <1>6, <1>7, <1>8 DEF IInv

LEMMA NextInv == IInv /\ [Next]_vars => IInv'
<1> SUFFICES ASSUME IInv, [Next]_vars PROVE IInv'
  OBVIOUS
<1>1. CASE Next
  BY <1>1, MacStep, LaunchStep, EndStep, ServeStep, ServerMacStep DEF Next, MacSteps
<1>2. CASE UNCHANGED vars
  <2>1. RecordsInv' /\ \A j \in Job : Faithful(j)
    BY <1>2, LedgerFrame DEF IInv, vars, mac, local, hostVars, Faithful, Gentle
  <2> QED
    BY <1>2, <2>1, TransactionStep
       DEF IInv, TypeOK, CallInv, vars, mac
<1> QED BY <1>1, <1>2

-----------------------------------------------------------------------------
(***************************************************************************)
(* The theorems about the two sides together.                              *)
(***************************************************************************)
THEOREM Inductive == Spec => []IInv
BY InitInv, NextInv, PTL DEF Spec

\* Every variable of the Mac and of the ledger keeps its type.
THEOREM TypeCorrect == Spec => []TypeOK
<1>1. IInv => TypeOK
  BY DEF IInv
<1> QED BY <1>1, Inductive, PTL

\* At most one execution runs on the Mac, for any number of jobs, of calls given
\* up and of restarts: a running job is begun, and one job at most is.
THEOREM AtMostOneExecution == Spec => []OneExecution
<1>1. IInv => OneExecution
  BY DEF IInv, ExecutionInv, RecordsInv, OneOutstanding, InState, Outstanding,
         OneExecution
<1> QED BY <1>1, Inductive, PTL

\* A settled job has stopped, with the outcome the ledger records.
THEOREM SettledIsStopped == Spec => []SettledMeansStopped
<1>1. IInv => SettledMeansStopped
  <2> SUFFICES ASSUME IInv, NEW j \in Job, ledger[j].state \in Outcome
               PROVE  \/ execution[j] = ledger[j].result
                      \/ execution[j] = "none" /\ ledger[j].result = "cancelled"
    BY DEF SettledMeansStopped
  <2>1. ledger[j].result = ledger[j].state /\ ledger[j].state \notin Begun
    BY DEF IInv, RecordsInv, RecordOK, Outcome, Begun
  <2>2. execution[j] \in Execution
    BY DEF IInv, TypeOK
  <2> QED BY <2>1, <2>2 DEF IInv, ExecutionInv, Execution, Outcome
<1> QED BY <1>1, Inductive, PTL

\* The connector claims only when nothing it could prove stopped still runs.
THEOREM ClaimsWhenStopped == Spec => []ClaimsOnlyWhenStopped
<1>1. IInv => ClaimsOnlyWhenStopped
  BY MacConstants DEF IInv, TypeOK, OwnerInv, Owned, ClaimsOnlyWhenStopped
<1> QED BY <1>1, Inductive, PTL

\* The transaction of a call, awaited or given up, tells the service no other.
LEMMA ServesTells ==
    ASSUME RecordsInv, NEW c, Truthful(c), NEW b, Serves(c, b) PROVE AllTold
<1>1. CASE ClaimNothing \/ \E j \in Job : ClaimAgain(j) \/ ClaimNext(j)
  BY <1>1, ClaimTells
<1>2. CASE c.op \in {"begin", "heartbeat"} /\ (Begin(c.job, c.lease) \/ Heartbeat(c.job, c.lease))
  BY <1>2, BeginTells DEF Truthful
<1>3. CASE c.op = "finish" /\ Finish(c.job, c.lease, c.result)
  BY <1>3, FinishTells DEF Truthful
<1> QED BY <1>1, <1>2, <1>3 DEF Serves

LEMMA NextTells ==
    ASSUME IInv, [Next]_vars
    PROVE  [Service!Next]_(Service!dispatchingVars)
<1>1. RecordsInv /\ RecordsInv'
  BY NextInv DEF IInv
<1>2. CASE ServeCall \/ \E c \in orphans : ServeOrphan(c)
  <2>1. AllTold
    BY <1>1, <1>2, ServesTells DEF IInv, CallInv, ServeCall, ServeOrphan
  <2> QED BY <1>1, <2>1, ToldNext
<1>3. CASE ServerSteps
  <2>1. AllTold
    BY <1>1, <1>3, ServerTells DEF ServerSteps
  <2> QED BY <1>1, <2>1, ToldNext
<1>4. CASE UNCHANGED hostVars
  BY <1>4 DEF hostVars, Service!dispatchingVars
<1>5. CASE MacSteps
  <2>1. UNCHANGED hostVars
    BY <1>5 DEF MacSteps, Progress, Step, Claimed, BeginAcknowledged,
           HeartbeatAcknowledged, FinishAcknowledged, CallFails, StopSucceeds,
           StopFails, StartSucceeds, StartFails, Reconnect, Disconnect, RunStop,
           LateStartSucceeds, LateStopSucceeds, LateStartFails, ResultResolves,
           ResultRejected, MacRestarts
  <2> QED BY <1>4, <2>1
<1>6. CASE StartLaunches \/ (\E j \in Job : ExecutionEnds(j)) \/ UNCHANGED vars
  <2>1. UNCHANGED hostVars
    BY <1>6 DEF StartLaunches, ExecutionEnds, vars
  <2> QED BY <1>4, <2>1
<1> QED
  BY <1>2, <1>3, <1>5, <1>6 DEF Next, MacSteps

\* The Mac, its lost calls and its restarts included, the service is answered by
\* the rules it relies on.
THEOREM PullWorkerDispatches == Spec => ImplementsDispatching
<1>1. Init => Service!Init
  BY DEF Init, HostInit, NoRecord, Answered, Service!Init
<1> QED
  BY <1>1, Inductive, NextTells, PTL DEF Spec, ImplementsDispatching, Service!Spec
=============================================================================
