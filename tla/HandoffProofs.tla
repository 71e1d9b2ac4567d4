---------------------------- MODULE HandoffProofs ----------------------------
(***************************************************************************)
(* PullWorker implements Handoff, for any jobs, lost calls and restarts.   *)
(*                                                                         *)
(* The view of a ledger is what Handoff sees of it: the queued jobs, the   *)
(* outstanding one, whether it was begun, and the results.  A transaction  *)
(* first sweeps, which leaves the view alone or takes the job in the slot  *)
(* back (SweptSlots), and then makes one step of Handoff.  What makes the  *)
(* step the right one is the invariant of PullWorkerProofs: one job is     *)
(* outstanding, a finish carries the outcome of the execution of its job,  *)
(* and what is launched was begun and is still in the slot.                *)
(***************************************************************************)
EXTENDS PullWorkerProofs

Queue(l) == {j \in Job : l[j].state = "queued"}

\* s is the job in the slot of the ledger l, or None.
IsSlot(l, s) ==
    /\ s \in Job \cup {None}
    /\ \A j \in Job : l[j].state \in Outstanding <=> j = s

\* A step of the abstract specification, or none.
Handed == [Contract!Next]_(Contract!handoffVars)

\* The ledger l looks like k to the abstract specification.
Alike(k, l) ==
    \A j \in Job : /\ l[j].state = "queued" <=> k[j].state = "queued"
                   /\ l[j].state \in Outstanding <=> k[j].state \in Outstanding
                   /\ l[j].state \in Begun <=> k[j].state \in Begun
                   /\ l[j].result = k[j].result

\* With one job outstanding at most, the choice of it is no choice.
LEMMA SlotIs ==
    ASSUME NEW l,
           \A i, j \in Job : l[i].state \in Outstanding /\ l[j].state \in Outstanding => i = j
    PROVE  LET out == {j \in Job : l[j].state \in Outstanding}
           IN  IsSlot(l, IF out = {} THEN None ELSE CHOOSE j \in Job : j \in out)
<1> DEFINE out == {j \in Job : l[j].state \in Outstanding}
<1>1. CASE out = {}
  BY <1>1, MacConstants DEF IsSlot
<1>2. CASE out # {}
  <2>1. PICK i \in Job : i \in out
    BY <1>2
  <2>2. (CHOOSE j \in Job : j \in out) \in out
    BY <2>1
  <2> QED
    BY <1>2, <2>2 DEF IsSlot
<1> QED BY <1>1, <1>2

\* The refinement mapping, before and after a step.
LEMMA Mapped ==
    /\ RecordsInv => IsSlot(ledger, SlotOf)
    /\ RecordsInv' => IsSlot(ledger', SlotOf')
<1>1. ASSUME RecordsInv PROVE IsSlot(ledger, SlotOf)
  <2>1. \A i, j \in Job : ledger[i].state \in Outstanding /\ ledger[j].state \in Outstanding
            => i = j
    BY <1>1 DEF RecordsInv, OneOutstanding, InState
  <2> QED BY <2>1, SlotIs DEF SlotOf, InState
<1>2. ASSUME RecordsInv' PROVE IsSlot(ledger', SlotOf')
  <2>1. \A i, j \in Job : ledger'[i].state \in Outstanding /\ ledger'[j].state \in Outstanding
            => i = j
    BY <1>2 DEF RecordsInv, OneOutstanding, InState
  <2> QED BY <2>1, SlotIs DEF SlotOf, InState
<1> QED BY <1>1, <1>2

\* A ledger is of the type, and one of its jobs is outstanding at most.
LEMMA Kinds ==
    ASSUME RecordsInv
    PROVE  \A j \in Job :
              /\ ledger[j] \in Record /\ RecordOK(ledger[j])
              /\ ledger[j].state \in Outstanding <=> j = SlotOf
              /\ ledger[j].state \in Begun => ledger[j].state \in Outstanding
              /\ ledger[j].state = "queued" => ledger[j].state \notin Outstanding
BY Mapped DEF RecordsInv, HostTypeOK, IsSlot, Outstanding, Begun

\* What is in the slot was begun, or was not.
LEMMA BegunSlot ==
    ASSUME RecordsInv
    PROVE  /\ (InState(Begun) # {}) <=> SlotOf # None /\ ledger[SlotOf].state \in Begun
           /\ SlotOf \in Job \cup {None}
BY Mapped, Kinds, MacConstants DEF InState, IsSlot

\* A step that publishes a ledger that looks like the last one is none.
LEMMA AlikeStep ==
    ASSUME RecordsInv, RecordsInv', Alike(ledger, ledger'), UNCHANGED execution
    PROVE  UNCHANGED Contract!handoffVars
<1>1. InState({"queued"})' = InState({"queued"})
  BY DEF Alike, InState
<1>2. SlotOf' = SlotOf
  BY Mapped, MacConstants DEF Alike, IsSlot
<1>3. InState(Begun)' = InState(Begun)
  BY DEF Alike, InState
<1>4. [j \in Job |-> ledger[j].result]' = [j \in Job |-> ledger[j].result]
  BY DEF Alike
<1> QED BY <1>1, <1>2, <1>3, <1>4 DEF Contract!handoffVars

\* A sweep keeps the slot, or takes back a job in it that was not begun.
LEMMA SweptSlots ==
    ASSUME RecordsInv
    PROVE  \/ Alike(ledger, Swept) /\ IsSlot(Swept, SlotOf) /\ Queue(Swept) = InState({"queued"})
           \/ /\ SlotOf \in Job /\ InState(Begun) = {}
              /\ IsSlot(Swept, None)
              /\ Queue(Swept) = InState({"queued"}) \cup {SlotOf}
              /\ \A j \in Job : Swept[j].state \notin Begun
              /\ \A j \in Job : Swept[j].result = ledger[j].result
<1>1. \A j \in Job : Swept[j] = Expired(ledger[j]) /\ ledger[j] \in Record
  BY SweptFacts, Kinds
<1>2. CASE \E j \in Job : ledger[j].state = "leased" /\ ledger[j].lapsed
  <2>1. PICK s \in Job : ledger[s].state = "leased" /\ ledger[s].lapsed
    BY <1>2
  <2>2. s = SlotOf /\ \A j \in Job : j # s => ledger[j].state \notin Outstanding
    BY <2>1, Kinds DEF Outstanding
  <2>3. Swept[s].state = "queued"
    BY <1>1, <2>1 DEF Expired, Record
  <2>4. \A j \in Job : j # s => Swept[j] = ledger[j]
    BY <1>1, <2>2 DEF Expired, Outstanding, Begun
  <2>5. \A j \in Job : ledger[j].state \notin Begun
    BY <2>1, <2>2 DEF Outstanding, Begun
  <2>6. InState(Begun) = {}
    BY <2>5 DEF InState
  <2>7. \A j \in Job : Swept[j].state \notin Begun /\ Swept[j].result = ledger[j].result
    BY <2>5, SweptFacts
  <2>8. \A j \in Job : Swept[j].state \notin Outstanding
    BY <2>2, <2>3, <2>4 DEF Outstanding, Begun
  <2>9. Queue(Swept) = InState({"queued"}) \cup {s}
    BY <2>3, <2>4 DEF Queue, InState
  <2> QED
    BY <2>2, <2>6, <2>7, <2>8, <2>9, MacConstants DEF IsSlot
<1>3. CASE \A j \in Job : ~(ledger[j].state = "leased" /\ ledger[j].lapsed)
  <2>1. ASSUME NEW j \in Job
        PROVE  /\ Swept[j].state = "queued" <=> ledger[j].state = "queued"
               /\ Swept[j].state \in Outstanding <=> ledger[j].state \in Outstanding
               /\ Swept[j].state \in Begun <=> ledger[j].state \in Begun
               /\ Swept[j].result = ledger[j].result
    BY <1>1, <1>3, SweptFacts DEF Expired, Record, Outstanding, Begun
  <2> QED BY <2>1, Mapped DEF Alike, IsSlot, Queue, InState
<1> QED BY <1>2, <1>3

\* A step that leaves what the sweep left is a sweep, to the abstraction.
LEMMA SweepMaps ==
    ASSUME RecordsInv, RecordsInv', Alike(Swept, ledger'), UNCHANGED execution
    PROVE  Handed
<1>1. CASE Alike(ledger, Swept)
  <2>1. Alike(ledger, ledger')
    BY <1>1 DEF Alike
  <2> QED BY <2>1, AlikeStep DEF Handed
<1>2. CASE /\ SlotOf \in Job /\ InState(Begun) = {}
           /\ IsSlot(Swept, None)
           /\ Queue(Swept) = InState({"queued"}) \cup {SlotOf}
           /\ \A j \in Job : Swept[j].state \notin Begun
           /\ \A j \in Job : Swept[j].result = ledger[j].result
  <2>1. InState({"queued"})' = InState({"queued"}) \cup {SlotOf}
    BY <1>2 DEF Alike, InState, Queue
  <2>2. SlotOf' = None
    BY <1>2, Mapped, MacConstants DEF Alike, IsSlot
  <2>3. InState(Begun)' = {}
    BY <1>2 DEF Alike, InState
  <2>4. [j \in Job |-> ledger[j].result]' = [j \in Job |-> ledger[j].result]
    BY <1>2 DEF Alike
  <2>5. SlotOf # None
    BY <1>2, MacConstants
  <2>6. Contract!TakeBack
    BY <1>2, <2>1, <2>2, <2>3, <2>4, <2>5 DEF Contract!TakeBack
  <2> QED BY <2>6 DEF Handed, Contract!Next
<1> QED BY <1>1, <1>2, SweptSlots

\* The pair of what waits and what is in the slot, after the sweep, is one of
\* those the abstraction may start from.
LEMMA SlotsAfterSweep ==
    ASSUME RecordsInv
    PROVE  /\ \E s \in Job \cup {None} : /\ IsSlot(Swept, s)
                                      /\ <<Queue(Swept), s>> \in Contract!Slots
           /\ (\E j \in Job : Swept[j].state \in Begun) <=> InState(Begun) # {}
<1>1. (\E j \in Job : Swept[j].state \in Begun) <=> InState(Begun) # {}
  BY SweptFacts DEF InState
<1>2. CASE IsSlot(Swept, SlotOf) /\ Queue(Swept) = InState({"queued"})
  <2>1. <<Queue(Swept), SlotOf>> \in Contract!Slots
    BY <1>2 DEF Contract!Slots
  <2> QED BY <1>1, <1>2, <2>1, BegunSlot
<1>3. CASE /\ SlotOf \in Job /\ InState(Begun) = {}
           /\ IsSlot(Swept, None)
           /\ Queue(Swept) = InState({"queued"}) \cup {SlotOf}
  <2>1. <<Queue(Swept), None>> \in Contract!Slots
    BY <1>3, MacConstants DEF Contract!Slots
  <2> QED BY <1>1, <1>3, <2>1
<1> QED BY <1>2, <1>3, SweptSlots

\* A sweep makes queued what was handed out, and nothing else.
LEMMA HeldOrQueued ==
    ASSUME RecordsInv, NEW j \in Job
    PROVE  ledger[j].state \in Outstanding \cup {"queued"}
              => Swept[j].state \in Outstanding \cup {"queued"}
BY SweptFacts, Kinds DEF Expired, Record, Outstanding, Begun

\* A transaction changes the record of one job, after the sweep.
LEMMA OneRecord ==
    ASSUME RecordsInv, NEW j \in Job, NEW r, ledger' = [Swept EXCEPT ![j] = r]
    PROVE  /\ ledger'[j] = r
           /\ \A k \in Job : k # j => ledger'[k] = Swept[k]
BY SweptFacts

\* A dispatch submits the job, or, of a known job, only sweeps.
LEMMA DispatchMaps ==
    ASSUME RecordsInv, RecordsInv', NEW j \in Job, Dispatch(j), UNCHANGED execution
    PROVE  Handed
<1>1. CASE Swept[j].state # "absent"
  BY <1>1, SweepMaps DEF Dispatch, Publish, Alike
<1>2. CASE Swept[j].state = "absent"
  <2> DEFINE r == [NoRecord EXCEPT !.state = "queued", !.at = Cardinality(Recorded) + 1]
  <2>1. ledger' = [Swept EXCEPT ![j] = r]
    BY <1>2 DEF Dispatch, Publish
  <2>2. r.state = "queued" /\ r.result = "none"
    BY DEF NoRecord
  <2> HIDE DEF r
  <2>3. /\ ledger'[j].state = "queued" /\ ledger'[j].result = "none"
        /\ \A k \in Job : k # j => ledger'[k] = Swept[k]
    BY <2>1, <2>2, OneRecord
  <2>4. Swept[j].result = "none" /\ ledger[j].result = "none"
    BY <1>2, SweptFacts DEF RecordOK, Outcome
  <2>5. PICK s \in Job \cup {None} :
            IsSlot(Swept, s) /\ <<Queue(Swept), s>> \in Contract!Slots
    BY SlotsAfterSweep
  <2>6. InState({"queued"})' = Queue(Swept) \cup {j}
    BY <2>3 DEF InState, Queue
  <2>7. j # s /\ SlotOf' = s
    BY <1>2, <2>3, <2>5, Mapped, MacConstants DEF IsSlot, Outstanding, Begun
  <2>8. InState(Begun)' = {k \in Job : Swept[k].state \in Begun}
    BY <1>2, <2>3 DEF InState, Begun
  <2>9. (InState(Begun)' # {}) = (InState(Begun) # {})
    BY <2>8, SlotsAfterSweep
  <2>10. [k \in Job |-> ledger[k].result]' = [k \in Job |-> ledger[k].result]
    BY <2>3, <2>4, SweptFacts
  <2>11. j \notin InState({"queued"}) \cup {SlotOf}
    <3>1. ledger[j].state \notin Outstanding \cup {"queued"}
      BY <1>2, HeldOrQueued DEF Outstanding, Begun
    <3> QED BY <3>1, Kinds DEF InState
  <2>12. Contract!Submit(j)
    BY <2>4, <2>5, <2>6, <2>7, <2>9, <2>10, <2>11 DEF Contract!Submit
  <2> QED BY <2>12 DEF Handed, Contract!Next
<1> QED BY <1>1, <1>2

\* A cancellation withdraws a job nobody has begun; of another one it only
\* leaves a flag.
LEMMA CancelMaps ==
    ASSUME RecordsInv, RecordsInv', NEW j \in Job, Cancel(j), UNCHANGED execution
    PROVE  Handed
<1> DEFINE r == Cancelled(Swept[j])
<1>1. ledger' = [Swept EXCEPT ![j] = r]
  BY DEF Cancel, Publish
<1>2. ledger'[j] = r /\ \A k \in Job : k # j => ledger'[k] = Swept[k]
  BY <1>1, OneRecord
<1>3. Swept[j] \in Record /\ RecordOK(Swept[j])
  BY SweptFacts
<1>4. CASE Swept[j].state \notin {"queued", "leased"}
  <2>1. r.state = Swept[j].state /\ r.result = Swept[j].result
    BY <1>3, <1>4 DEF Cancelled, Record, Begun
  <2> QED BY <1>2, <2>1, SweepMaps DEF Alike
<1>5. CASE Swept[j].state \in {"queued", "leased"}
  <2>1. r.state = "cancelled" /\ r.result = "cancelled"
    <3>1. r = [Swept[j] EXCEPT !.cancellationRequested = TRUE,
                               !.state = "cancelled", !.result = "cancelled"]
      BY <1>5 DEF Cancelled, Begun
    <3> QED BY <1>3, <3>1 DEF Record
  <2> HIDE DEF r
  <2>2. /\ ledger'[j].state = "cancelled" /\ ledger'[j].result = "cancelled"
        /\ \A k \in Job : k # j => ledger'[k] = Swept[k]
    BY <1>2, <2>1
  <2>3. PICK s \in Job \cup {None} :
            IsSlot(Swept, s) /\ <<Queue(Swept), s>> \in Contract!Slots
    BY SlotsAfterSweep
  <2>4. InState({"queued"})' = Queue(Swept) \ {j}
    BY <2>2 DEF InState, Queue
  <2>5. SlotOf' = IF s = j THEN None ELSE s
    <3>1. ledger'[j].state \notin Outstanding
      BY <2>2 DEF Outstanding, Begun
    <3>2. IsSlot(ledger', SlotOf')
      BY Mapped
    <3>3. CASE s = j
      <4>1. \A k \in Job : k # SlotOf'
        BY <2>2, <2>3, <3>1, <3>2, <3>3 DEF IsSlot
      <4> QED BY <3>2, <3>3, <4>1 DEF IsSlot
    <3>4. CASE s # j
      <4>1. \A k \in Job : k = SlotOf' <=> k = s
        BY <2>2, <2>3, <3>1, <3>2, <3>4 DEF IsSlot
      <4> QED BY <2>3, <3>2, <3>4, <4>1, MacConstants DEF IsSlot
    <3> QED BY <3>3, <3>4
  <2>6. InState(Begun)' = {k \in Job : Swept[k].state \in Begun}
    BY <1>5, <2>2 DEF InState, Begun
  <2>7. (InState(Begun)' # {}) = (InState(Begun) # {})
    BY <2>6, SlotsAfterSweep
  <2>8. [k \in Job |-> ledger[k].result]'
            = [[k \in Job |-> ledger[k].result] EXCEPT ![j] = "cancelled"]
    BY <2>2, SweptFacts
  <2>9. j \in Queue(Swept) \/ (j = s /\ InState(Begun) = {})
    <3>1. CASE Swept[j].state = "queued"
      BY <3>1 DEF Queue
    <3>2. CASE Swept[j].state = "leased"
      <4>1. j = s
        BY <2>3, <3>2 DEF IsSlot, Outstanding
      <4>2. \A k \in Job : Swept[k].state \notin Begun
        BY <2>3, <3>2, <4>1 DEF IsSlot, Outstanding, Begun
      <4> QED BY <4>1, <4>2, SlotsAfterSweep
    <3> QED BY <1>5, <3>1, <3>2
  <2>10. Contract!Withdraw(j)
    <3> DEFINE p == <<Queue(Swept), s>>
    <3>1. p \in Contract!Slots /\ p[1] = Queue(Swept) /\ p[2] = s
      BY <2>3
    <3> HIDE DEF p
    <3> QED BY <2>4, <2>5, <2>7, <2>8, <2>9, <3>1 DEF Contract!Withdraw
  <2> QED BY <2>10 DEF Handed, Contract!Next
<1> QED BY <1>4, <1>5

\* A claim hands over a queued job, or hands out again the one handed over.
LEMMA ClaimMaps ==
    ASSUME RecordsInv, RecordsInv', UNCHANGED execution,
           ClaimNothing \/ \E j \in Job : ClaimAgain(j) \/ ClaimNext(j)
    PROVE  Handed
<1>1. CASE ClaimNothing \/ \E j \in Job : ClaimAgain(j)
  BY <1>1, SweepMaps DEF ClaimNothing, ClaimAgain, Publish, Alike
<1>2. ASSUME NEW j \in Job, ClaimNext(j) PROVE Handed
  <2>1. /\ SweptIn(Outstanding) = {} /\ j \in SweptIn({"queued"})
        /\ ledger' = [Swept EXCEPT ![j].state = "leased", ![j].leaseId = drawn + 1,
                                   ![j].lapsed = FALSE]
    BY <1>2 DEF ClaimNext
  <2>2. Swept \in [Job -> Record] /\ Swept[j] \in Record
    BY SweptFacts
  <2>3. /\ ledger'[j].state = "leased" /\ ledger'[j].result = Swept[j].result
        /\ \A k \in Job : k # j => ledger'[k] = Swept[k]
    BY <2>1, <2>2 DEF Record
  <2>4. PICK s \in Job \cup {None} :
            IsSlot(Swept, s) /\ <<Queue(Swept), s>> \in Contract!Slots
    BY SlotsAfterSweep
  <2>5. s = None /\ j \in Queue(Swept)
    BY <2>1, <2>4, MacConstants DEF SweptIn, IsSlot, Queue
  <2>6. InState({"queued"})' = Queue(Swept) \ {j}
    BY <2>3 DEF InState, Queue
  <2>7. SlotOf' = j
    BY <2>3, Mapped DEF IsSlot, Outstanding
  <2>8. \A k \in Job : Swept[k].state \notin Begun /\ ledger'[k].state \notin Begun
    BY <2>1, <2>3 DEF SweptIn, Outstanding, Begun
  <2>9. InState(Begun) = {} /\ InState(Begun)' = {}
    BY <2>8, SlotsAfterSweep DEF InState
  <2>10. [k \in Job |-> ledger[k].result]' = [k \in Job |-> ledger[k].result]
    BY <2>3, SweptFacts
  <2>11. Contract!Grant(j)
    <3> DEFINE p == <<Queue(Swept), s>>
    <3>1. p \in Contract!Slots /\ p[1] = Queue(Swept) /\ p[2] = s
      BY <2>4
    <3> HIDE DEF p
    <3> QED BY <2>5, <2>6, <2>7, <2>9, <2>10, <3>1 DEF Contract!Grant
  <2> QED BY <2>11 DEF Handed, Contract!Next
<1> QED BY <1>1, <1>2

\* A job is begun once; beginning it again, like a heartbeat, renews its lease.
LEMMA BeginMaps ==
    ASSUME RecordsInv, RecordsInv', UNCHANGED execution, NEW j \in Job, NEW lease,
           Begin(j, lease) \/ Heartbeat(j, lease)
    PROVE  Handed
<1>1. Swept \in [Job -> Record] /\ Swept[j] \in Record
  BY SweptFacts
<1>2. /\ ledger'[j].state = "running" /\ ledger'[j].result = Swept[j].result
      /\ \A k \in Job : k # j => ledger'[k] = Swept[k]
  <2>1. CASE Begin(j, lease)
    BY <1>1, <2>1 DEF Begin, Publish, Record
  <2>2. CASE Heartbeat(j, lease)
    BY <1>1, <2>2 DEF Heartbeat, Publish, Record
  <2> QED BY <2>1, <2>2
<1>3. CASE Swept[j].state = "running"
  BY <1>2, <1>3, SweepMaps DEF Alike
<1>4. CASE Swept[j].state # "running"
  <2>1. Swept[j].state = "leased"
    BY <1>4 DEF Begin, Heartbeat
  <2>2. ~IsSlot(Swept, None)
    BY <2>1, MacConstants DEF IsSlot, Outstanding
  <2>3. /\ Alike(ledger, Swept) /\ IsSlot(Swept, SlotOf)
        /\ Queue(Swept) = InState({"queued"})
    BY <2>2, SweptSlots
  <2>4. SlotOf = j
    BY <2>1, <2>3 DEF IsSlot, Outstanding
  <2>5. SlotOf' = j
    BY <1>2, Mapped DEF IsSlot, Outstanding, Begun
  <2>6. InState({"queued"})' = InState({"queued"})
    BY <1>2, <2>1, <2>3 DEF InState, Queue
  <2>7. InState(Begun) = {}
    <3>1. \A k \in Job : Swept[k].state \notin Begun
      BY <2>1, <2>3, <2>4 DEF IsSlot, Outstanding, Begun
    <3> QED BY <3>1, SlotsAfterSweep
  <2>8. InState(Begun)' # {}
    BY <1>2 DEF InState, Begun
  <2>9. [k \in Job |-> ledger[k].result]' = [k \in Job |-> ledger[k].result]
    BY <1>2, SweptFacts
  <2>10. Contract!Begin
    BY <2>4, <2>5, <2>6, <2>7, <2>8, <2>9, MacConstants DEF Contract!Begin
  <2> QED BY <2>10 DEF Handed, Contract!Next
<1> QED BY <1>3, <1>4

\* A finish that carries the outcome of the execution settles the job in the
\* slot, or is accepted again.
LEMMA FinishMaps ==
    ASSUME RecordsInv, RecordsInv', UNCHANGED execution, NEW j \in Job, NEW lease,
           NEW o \in Outcome, execution[j] = o, Finish(j, lease, o)
    PROVE  Handed
<1>1. CASE Publish(Swept)
  BY <1>1, SweepMaps DEF Publish, Alike
<1>2. CASE /\ Swept[j].state = "running" \/ Swept[j].state = "quarantined"
           /\ Publish([Swept EXCEPT ![j].state = o, ![j].result = o])
  <2>1. Swept \in [Job -> Record] /\ Swept[j] \in Record
    BY SweptFacts
  <2>2. /\ ledger'[j].state = o /\ ledger'[j].result = o
        /\ \A k \in Job : k # j => ledger'[k] = Swept[k]
    BY <1>2, <2>1 DEF Publish, Record
  <2>3. ~IsSlot(Swept, None)
    BY <1>2, MacConstants DEF IsSlot, Outstanding, Begun
  <2>4. /\ Alike(ledger, Swept) /\ IsSlot(Swept, SlotOf)
        /\ Queue(Swept) = InState({"queued"})
    BY <2>3, SweptSlots
  <2>5. SlotOf = j
    BY <1>2, <2>4 DEF IsSlot, Outstanding, Begun
  <2>6. \A k \in Job : ledger'[k].state \notin Outstanding
    BY <2>2, <2>4, <2>5 DEF IsSlot, Outstanding, Begun, Outcome
  <2>7. SlotOf' = None
    BY <2>6, Mapped DEF IsSlot
  <2>8. InState(Begun)' = {}
    BY <2>6 DEF InState, Outstanding
  <2>9. InState(Begun) # {}
    BY <1>2, <2>4 DEF Alike, InState, Begun
  <2>10. InState({"queued"})' = InState({"queued"})
    BY <1>2, <2>2, <2>4 DEF InState, Queue, Outcome
  <2>11. [k \in Job |-> ledger[k].result]'
            = [[k \in Job |-> ledger[k].result] EXCEPT ![j] = o]
    BY <2>2, SweptFacts
  <2>12. execution[j] \in Contract!Outcome
    BY DEF Contract!Outcome, Outcome
  <2>13. Contract!Settle
    BY <2>5, <2>7, <2>8, <2>9, <2>10, <2>11, <2>12, MacConstants DEF Contract!Settle
  <2> QED BY <2>13 DEF Handed, Contract!Next
<1> QED BY <1>1, <1>2 DEF Finish

\* That a lease has lapsed shows only at the next sweep.
LEMMA LapseMaps ==
    ASSUME RecordsInv, RecordsInv', UNCHANGED execution, NEW j \in Job, LeaseLapses(j)
    PROVE  Handed
<1>1. ledger \in [Job -> Record] /\ ledger[j] \in Record
  BY DEF RecordsInv, HostTypeOK
<1>2. /\ ledger'[j].state = ledger[j].state /\ ledger'[j].result = ledger[j].result
      /\ \A k \in Job : k # j => ledger'[k] = ledger[k]
  BY <1>1 DEF LeaseLapses, Record
<1>3. Alike(ledger, ledger')
  BY <1>2 DEF Alike
<1> QED BY <1>3, AlikeStep DEF Handed

-----------------------------------------------------------------------------
(***************************************************************************)
(* The steps of PullWorker.                                                *)
(***************************************************************************)
\* A transaction the Mac called for.
LEMMA ServesMaps ==
    ASSUME RecordsInv, RecordsInv', UNCHANGED execution, NEW c, Truthful(c),
           NEW b \in BOOLEAN, Serves(c, b)
    PROVE  Handed
BY ClaimMaps, BeginMaps, FinishMaps DEF Serves, Truthful

\* A transaction of the server.
LEMMA ServerMaps ==
    ASSUME RecordsInv, RecordsInv', UNCHANGED execution,
           ServerCalls \/ \E j \in Job : LeaseLapses(j)
    PROVE  Handed
<1>1. CASE Observe
  BY <1>1, SweepMaps DEF Observe, Publish, Alike
<1> QED BY <1>1, DispatchMaps, CancelMaps, LapseMaps DEF ServerCalls

\* What is launched was begun and is still in the slot.
LEMMA LaunchMaps ==
    ASSUME IInv, IInv', StartLaunches
    PROVE  Handed
<1>1. UNCHANGED hostVars /\ ledger' = ledger
  BY DEF StartLaunches, hostVars
<1>2. RecordsInv /\ RecordsInv' /\ Alike(ledger, ledger')
  BY <1>1 DEF IInv, Alike
<1>3. CASE execution[start.job] # "none"
  BY <1>2, <1>3, AlikeStep DEF Handed, StartLaunches
<1>4. CASE execution[start.job] = "none"
  <2>1. start.job \in Job /\ ledger[start.job].state \in Begun
    BY <1>4 DEF IInv, StartInv, WasBegun, StartLaunches
  <2>2. start.job = SlotOf /\ InState(Begun) # {}
    BY <1>2, <2>1, Kinds DEF InState
  <2>3. SlotOf' = SlotOf /\ InState(Begun)' = InState(Begun)
        /\ InState({"queued"})' = InState({"queued"})
    BY <1>1 DEF SlotOf, InState
  <2>4. [k \in Job |-> ledger[k].result]' = [k \in Job |-> ledger[k].result]
    BY <1>1
  <2>5. execution' = [execution EXCEPT ![SlotOf] = "running"]
    BY <1>4, <2>2 DEF StartLaunches
  <2>6. Contract!Launch
    BY <1>4, <2>1, <2>2, <2>3, <2>4, <2>5, MacConstants DEF Contract!Launch
  <2> QED BY <2>6 DEF Handed, Contract!Next
<1> QED BY <1>3, <1>4

\* An execution that ends stops with an outcome.
LEMMA EndMaps ==
    ASSUME NEW j \in Job, ExecutionEnds(j)
    PROVE  Handed
<1>1. ledger' = ledger
  BY DEF ExecutionEnds, hostVars
<1>2. SlotOf' = SlotOf /\ InState(Begun)' = InState(Begun)
      /\ InState({"queued"})' = InState({"queued"})
  BY <1>1 DEF SlotOf, InState
<1>3. [k \in Job |-> ledger[k].result]' = [k \in Job |-> ledger[k].result]
  BY <1>1
<1>4. execution[j] = "running" /\ \E o \in Contract!Outcome : execution' = [execution EXCEPT ![j] = o]
  BY DEF ExecutionEnds, Contract!Outcome
<1>5. Contract!Stop(j)
  BY <1>2, <1>3, <1>4 DEF Contract!Stop
<1> QED BY <1>5 DEF Handed, Contract!Next

\* The steps of the Mac that reach neither the ledger nor an execution.
LEMMA StillMaps ==
    ASSUME UNCHANGED <<hostVars, execution>>
    PROVE  Handed
<1>1. ledger' = ledger /\ execution' = execution
  BY DEF hostVars
<1>2. SlotOf' = SlotOf /\ InState(Begun)' = InState(Begun)
      /\ InState({"queued"})' = InState({"queued"})
  BY <1>1 DEF SlotOf, InState
<1> QED BY <1>1, <1>2 DEF Handed, Contract!handoffVars

\* Every step maps to a step of Handoff or to none.
LEMMA NextMaps == IInv /\ [Next]_vars => Handed
<1> SUFFICES ASSUME IInv, [Next]_vars PROVE Handed
  OBVIOUS
<1>1. IInv' /\ RecordsInv /\ RecordsInv'
  <2>1. IInv' BY NextInv
  <2> QED BY <2>1 DEF IInv
<1>2. CASE StartLaunches
  BY <1>1, <1>2, LaunchMaps
<1>3. CASE \E j \in Job : ExecutionEnds(j)
  BY <1>3, EndMaps
<1>4. CASE ServeCall
  <2>1. Truthful(call) /\ Serves(call, TRUE) /\ UNCHANGED execution
    BY <1>4 DEF IInv, CallInv, ServeCall, local
  <2> QED BY <1>1, <2>1, ServesMaps
<1>5. ASSUME NEW c \in orphans, ServeOrphan(c) PROVE Handed
  <2>1. Truthful(c) /\ Serves(c, FALSE) /\ UNCHANGED execution
    BY <1>5 DEF IInv, CallInv, ServeOrphan, local
  <2> QED BY <1>1, <2>1, ServesMaps
<1>6. CASE ServerSteps
  BY <1>1, <1>6, ServerMaps DEF ServerSteps, mac, local
<1>7. CASE MacSteps
  <2>1. UNCHANGED <<hostVars, execution>>
    BY <1>7 DEF MacSteps, Progress, Step, Claimed, BeginAcknowledged,
           HeartbeatAcknowledged, FinishAcknowledged, CallFails, StopSucceeds,
           StopFails, StartSucceeds, StartFails, Reconnect, Disconnect, RunStop,
           LateStartSucceeds, LateStopSucceeds, LateStartFails, ResultResolves,
           ResultRejected, MacRestarts, local
  <2> QED BY <2>1, StillMaps
<1>8. CASE UNCHANGED vars
  <2>1. UNCHANGED <<hostVars, execution>>
    BY <1>8 DEF vars, mac, local
  <2> QED BY <2>1, StillMaps
<1> QED
  BY <1>2, <1>3, <1>4, <1>5, <1>6, <1>7, <1>8 DEF Next, MacSteps

\* The initial ledger is the initial hand-off: nobody waits, nothing ran.
LEMMA InitMaps == Init => Contract!Init
<1> SUFFICES ASSUME Init PROVE Contract!Init
  OBVIOUS
<1>1. ledger = [j \in Job |-> NoRecord] /\ execution = [j \in Job |-> "none"]
  BY DEF Init, HostInit
<1>2. \A j \in Job : ledger[j].state = "absent" /\ ledger[j].result = "none"
  BY <1>1 DEF NoRecord
<1>3. InState({"queued"}) = {} /\ InState(Begun) = {} /\ InState(Outstanding) = {}
  BY <1>2 DEF InState, Outstanding, Begun
<1>4. SlotOf = None
  BY <1>3 DEF SlotOf
<1>5. [j \in Job |-> ledger[j].result] = [j \in Job |-> "none"]
  BY <1>2
<1> QED BY <1>1, <1>3, <1>4, <1>5 DEF Contract!Init

\* The server's ledger, the calls to and from the Mac, its connector and its
\* executions together are the hand-off the agent service relies on.
THEOREM Implements == Spec => ImplementsHandoff
<1>1. Init => Contract!Init
  BY InitMaps
<1>2. IInv /\ [Next]_vars => [Contract!Next]_(Contract!handoffVars)
  BY NextMaps DEF Handed
<1> QED
  BY <1>1, <1>2, Inductive, PTL DEF Spec, ImplementsHandoff, Contract!Spec
=============================================================================
