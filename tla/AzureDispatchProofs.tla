------------------------- MODULE AzureDispatchProofs -------------------------
(***************************************************************************)
(* Proofs about AzureDispatch, for any workers, callers and messages.      *)
(*                                                                         *)
(* The invariant has three parts beside the types.  Lease: no lease is     *)
(* ahead of the record's generation, and one made up from a terminal       *)
(* record is behind as soon as the record is leased again.  Unclaimed: as  *)
(* long as the task is only queued nothing has been deleted and no worker  *)
(* is past the claim.  Poison: who quarantines has poisoned its message.   *)
(* CancelInv is what the types need: a cancellation writes with a try left.*)
(***************************************************************************)
EXTENDS AzureDispatch, TLAPS

CallerPc == {"idle", "send", "reread", "mark", "done", "refused"}
CancelPc == {"idle", "write", "done", "refused"}
Before == {"idle", "received", "poison", "quarantine", "claim", "down"}
Underway == {"running", "drain", "completing", "failing", "cancelling"}

LeaseInv ==
    /\ \A w \in Worker : run[w].gen <= rec.gen
    /\ \A w \in Worker : run[w].pc = "discardTerminal" /\ rec.status = "leased"
                            => run[w].gen < rec.gen
    /\ UniqueHolder

UnclaimedInv ==
    /\ rec.status \in {"absent", "queued"} =>
          /\ rec.gen = 0
          /\ \A w \in Worker : run[w].pc \in Before
          /\ \A m \in Message : queue[m].state # "deleted"
    /\ rec.status = "leased" => rec.gen > 0
    /\ \A w \in Worker : run[w].pc \in Underway => rec.gen > 0

PoisonInv ==
    /\ \A w \in Worker : run[w].pc \notin {"idle", "down"} =>
          /\ run[w].msg \in Message
          /\ run[w].count <= queue[run[w].msg].count
    /\ \A w \in Worker : run[w].pc \in {"poison", "quarantine"} =>
          run[w].count > MaxDequeue
    /\ \A w \in Worker : run[w].pc = "quarantine" => run[w].msg \in poisoned
    /\ \A w \in Worker : beat[w].pc # "off" => beat[w].msg \in Message
    /\ QuarantineLeavesEvidence

CancelInv == cancel.pc = "write" => cancel.tries > 0

IInv == TypeOK /\ CancelInv /\ LeaseInv /\ UnclaimedInv /\ PoisonInv

-----------------------------------------------------------------------------
(* Type correctness. *)

\* The updates of one run, as the steps make them, keep its type.
LEMMA RunValues ==
    /\ Idle \in Run /\ Down \in Run
    /\ \A r \in Run, pc \in RunPc : [r EXCEPT !.pc = pc] \in Run
    /\ \A r \in Run, pc \in RunPc, g \in Nat :
          [[r EXCEPT !.pc = pc] EXCEPT !.gen = g] \in Run
    /\ \A r \in Run, o \in Outcome :
          [[r EXCEPT !.pc = "drain"] EXCEPT !.then = o] \in Run
    /\ \A r \in Run, n \in Nat : [r EXCEPT !.receipt = n] \in Run
<1>1. Idle \in Run /\ Down \in Run BY DEF Run, RunPc, Idle, Down, Outcome
<1>2. \A r \in Run, pc \in RunPc : [r EXCEPT !.pc = pc] \in Run BY DEF Run
<1>3. \A r \in Run, pc \in RunPc, g \in Nat :
          [[r EXCEPT !.pc = pc] EXCEPT !.gen = g] \in Run BY DEF Run
<1>4. \A r \in Run, o \in Outcome :
          [[r EXCEPT !.pc = "drain"] EXCEPT !.then = o] \in Run
  BY DEF Run, RunPc
<1>5. \A r \in Run, n \in Nat : [r EXCEPT !.receipt = n] \in Run BY DEF Run
<1>6. QED BY <1>1, <1>2, <1>3, <1>4, <1>5

LEMMA RunSteps ==
    ASSUME TypeOK, NEW w \in Worker
    PROVE  /\ run[w] \in Run
           /\ \A r \in Run : [run EXCEPT ![w] = r] \in [Worker -> Run]
           /\ \A pc \in RunPc : Goto(w, pc) => run' \in [Worker -> Run]
           /\ GoIdle(w) => run' \in [Worker -> Run]
           /\ \A o \in Outcome : Ends(w, o) => run' \in [Worker -> Run]
           /\ Throw(w) => run' \in [Worker -> Run]
<1>1. run[w] \in Run BY DEF TypeOK
<1>2. \A r \in Run : [run EXCEPT ![w] = r] \in [Worker -> Run] BY DEF TypeOK
<1>3. \A pc \in RunPc : Goto(w, pc) => run' \in [Worker -> Run]
  BY <1>1, <1>2, RunValues DEF Goto
<1>4. \A o \in Outcome : Ends(w, o) => run' \in [Worker -> Run]
  <2> SUFFICES ASSUME NEW o \in Outcome, Ends(w, o) PROVE run' \in [Worker -> Run]
    OBVIOUS
  <2>1. PICK r : r = [[run[w] EXCEPT !.pc = "drain"] EXCEPT !.then = o] OBVIOUS
  <2>2. r \in Run BY <1>1, <2>1, RunValues
  <2>3. run' = [run EXCEPT ![w] = r] BY <2>1 DEF Ends
  <2> QED BY <1>2, <2>2, <2>3
<1>5. GoIdle(w) => run' \in [Worker -> Run] BY <1>2, RunValues DEF GoIdle
<1>6. Throw(w) => run' \in [Worker -> Run] BY <1>2, RunValues DEF Throw
<1>7. QED BY <1>1, <1>2, <1>3, <1>4, <1>5, <1>6

\* The same for a renewal in flight.
LEMMA BeatValues ==
    /\ NoBeat \in Beat
    /\ \A b \in Beat : [b EXCEPT !.pc = "updating"] \in Beat
    /\ \A b \in Beat, n \in Nat :
          [[b EXCEPT !.pc = "saving"] EXCEPT !.receipt = n] \in Beat
<1>1. NoBeat \in Beat BY DEF Beat, NoBeat
<1>2. \A b \in Beat : [b EXCEPT !.pc = "updating"] \in Beat BY DEF Beat
<1>3. \A b \in Beat, n \in Nat :
          [[b EXCEPT !.pc = "saving"] EXCEPT !.receipt = n] \in Beat BY DEF Beat
<1>4. QED BY <1>1, <1>2, <1>3

LEMMA BeatSteps ==
    ASSUME TypeOK, NEW w \in Worker
    PROVE  /\ beat[w] \in Beat
           /\ \A b \in Beat : [beat EXCEPT ![w] = b] \in [Worker -> Beat]
           /\ StopBeat(w) => beat' \in [Worker -> Beat]
           /\ BeatFails(w) => beat' \in [Worker -> Beat] /\ run' \in [Worker -> Run]
<1>1. beat[w] \in Beat BY DEF TypeOK
<1>2. \A b \in Beat : [beat EXCEPT ![w] = b] \in [Worker -> Beat] BY DEF TypeOK
<1>3. StopBeat(w) => beat' \in [Worker -> Beat] BY <1>2, BeatValues DEF StopBeat
<1>4. BeatFails(w) => run' \in [Worker -> Run]
  <2>1. (IF beat[w].kind = "timer" THEN "lost" ELSE "failing") \in Outcome
    BY DEF Outcome
  <2>2. QED BY <2>1, RunSteps DEF BeatFails, TypeOK
<1>5. QED BY <1>1, <1>2, <1>3, <1>4 DEF BeatFails

\* What the steps write to the record keeps its type.
LEMMA RecordValues ==
    ASSUME NEW r \in Record
    PROVE  /\ [r EXCEPT !.status = "queued"] \in Record
           /\ [r EXCEPT !.enqueued = TRUE] \in Record
           /\ [r EXCEPT !.cancelled = TRUE] \in Record
           /\ [r EXCEPT !.expiry = "live"] \in Record
           /\ [r EXCEPT !.expiry = "lapsed"] \in Record
           /\ [r EXCEPT !.status = "quarantined", !.expiry = "none"] \in Record
           /\ \A n \in Nat, m \in Message \cup {None} :
                 [r EXCEPT !.status = "leased", !.count = n, !.gen = @ + 1,
                           !.msg = m, !.expiry = "live"] \in Record
<1>1. [r EXCEPT !.status = "queued"] \in Record BY DEF Record, Status
<1>2. [r EXCEPT !.enqueued = TRUE] \in Record BY DEF Record
<1>3. [r EXCEPT !.cancelled = TRUE] \in Record BY DEF Record
<1>4. [r EXCEPT !.expiry = "live"] \in Record BY DEF Record
<1>5. [r EXCEPT !.expiry = "lapsed"] \in Record BY DEF Record
<1>6. [r EXCEPT !.status = "quarantined", !.expiry = "none"] \in Record
  BY DEF Record, Status, Terminal
<1>7. ASSUME NEW n \in Nat, NEW m \in Message \cup {None}
      PROVE  [r EXCEPT !.status = "leased", !.count = n, !.gen = @ + 1,
                       !.msg = m, !.expiry = "live"] \in Record
  <2>1. r.gen + 1 \in Nat BY DEF Record
  <2>2. \A g \in Nat : [r EXCEPT !.status = "leased", !.count = n, !.gen = g,
                                  !.msg = m, !.expiry = "live"] \in Record
    BY DEF Record, Status
  <2>3. QED BY <2>1, <2>2
<1>8. QED BY <1>1, <1>2, <1>3, <1>4, <1>5, <1>6, <1>7

LEMMA SettledTyped ==
    ASSUME TypeOK, NEW w \in Worker,
           run[w].pc \in {"completing", "failing", "cancelling"}
    PROVE  [Settled(w) EXCEPT !.expiry = "none"] \in Record
<1>1. rec \in Record BY DEF TypeOK
<1>2. CASE run[w].pc = "completing"
  BY <1>1, <1>2 DEF Settled, Record, Status, Terminal
<1>3. CASE run[w].pc = "failing"
  BY <1>1, <1>3 DEF Settled, Record, Status, Terminal
<1>4. CASE run[w].pc = "cancelling"
  BY <1>1, <1>4 DEF Settled, Record, Status, Terminal
<1>5. QED BY <1>2, <1>3, <1>4

\* The messages of the queue service.
LEMMA QueueSteps ==
    ASSUME TypeOK, NEW m \in Message
    PROVE  \A st \in {"visible", "hidden", "deleted"} :
              [queue EXCEPT ![m].state = st] \in [Message -> QueueMessage]
<1>1. \A q \in QueueMessage, st \in {"visible", "hidden", "deleted"} :
          [q EXCEPT !.state = st] \in QueueMessage
  BY DEF QueueMessage
<1>2. \A q \in QueueMessage : [queue EXCEPT ![m] = q] \in [Message -> QueueMessage]
  BY DEF TypeOK
<1>3. queue[m] \in QueueMessage BY DEF TypeOK
<1>4. QED BY <1>1, <1>2, <1>3

LEMMA TypeStep ==
    ASSUME TypeOK, CancelInv, PoisonInv, [Next]_vars PROVE TypeOK'
<1>1. ASSUME NEW c \in Caller, EnqueueCreate(c) PROVE TypeOK'
  <2>1. rec' \in Record
    BY <1>1, RecordValues DEF TypeOK, EnqueueCreate
  <2>2. caller' \in [Caller -> [pc : CallerPc, gen : Nat]]
    BY <1>1 DEF TypeOK, EnqueueCreate, CallerPc
  <2>3. QED BY <1>1, <2>1, <2>2 DEF TypeOK, EnqueueCreate, server, CallerPc
<1>2. ASSUME NEW c \in Caller, EnqueueSend(c) PROVE TypeOK'
  <2>1. queue' \in [Message -> QueueMessage]
    <3>1. PICK m \in Message : queue' = [queue EXCEPT ![m].state = "visible"]
      BY <1>2 DEF EnqueueSend
    <3>2. QED BY <3>1, QueueSteps
  <2>2. caller' \in [Caller -> [pc : CallerPc, gen : Nat]]
    BY <1>2 DEF TypeOK, EnqueueSend, CallerPc
  <2>3. QED BY <1>2, <2>1, <2>2 DEF TypeOK, EnqueueSend, server, CallerPc
<1>3. ASSUME NEW c \in Caller, EnqueueReread(c) PROVE TypeOK'
  <2>1. caller' \in [Caller -> [pc : CallerPc, gen : Nat]]
    BY <1>3 DEF TypeOK, EnqueueReread, Record, CallerPc
  <2>2. QED BY <1>3, <2>1 DEF TypeOK, EnqueueReread, server, CallerPc
<1>4. ASSUME NEW c \in Caller, EnqueueMark(c) PROVE TypeOK'
  <2>1. rec' \in Record
    BY <1>4, RecordValues DEF TypeOK, EnqueueMark
  <2>2. caller' \in [Caller -> [pc : CallerPc, gen : Nat]]
    BY <1>4 DEF TypeOK, EnqueueMark, CallerPc
  <2>3. QED BY <1>4, <2>1, <2>2 DEF TypeOK, EnqueueMark, server, CallerPc
<1>5. ASSUME NEW c \in Caller, EnqueueStops(c) PROVE TypeOK'
  <2>1. caller' \in [Caller -> [pc : CallerPc, gen : Nat]]
    BY <1>5 DEF TypeOK, EnqueueStops, CallerPc
  <2>2. QED BY <1>5, <2>1 DEF TypeOK, EnqueueStops, server, CallerPc
<1>6. CASE CancelRead
  <2>1. cancel' \in [pc : CancelPc, gen : Nat, tries : Nat]
    BY <1>6 DEF TypeOK, CancelRead, Record, CancelPc
  <2>2. QED BY <1>6, <2>1 DEF TypeOK, CancelRead, server, CancelPc
<1>7. CASE CancelWrite
  <2>1. rec' \in Record
    BY <1>7, RecordValues DEF TypeOK, CancelWrite
  <2>2. cancel' \in [pc : CancelPc, gen : Nat, tries : Nat]
    <3>1. cancel \in [pc : CancelPc, gen : Nat, tries : Nat] BY DEF TypeOK, CancelPc
    <3>2. cancel.tries > 0 BY <1>7 DEF CancelWrite, CancelInv
    <3>3. cancel.tries - 1 \in Nat BY <3>1, <3>2
    <3>4. QED BY <1>7, <3>1, <3>3 DEF CancelWrite, CancelPc
  <2>3. QED BY <1>7, <2>1, <2>2 DEF TypeOK, CancelWrite, server, CancelPc
<1>8. ASSUME NEW w \in Worker, Receive(w) PROVE TypeOK'
  <2>1. queue' \in [Message -> QueueMessage]
    BY <1>8 DEF TypeOK, Receive, QueueMessage
  <2>2. run' \in [Worker -> Run]
    <3>1. PICK m \in Message :
             run' = [run EXCEPT ![w] =
                [Idle EXCEPT !.pc = "received", !.msg = m,
                             !.receipt = queue[m].receipt + 1,
                             !.count = queue[m].count + 1]]
      BY <1>8 DEF Receive
    <3>2. queue[m].receipt + 1 \in Nat /\ queue[m].count + 1 \in Nat
      BY DEF TypeOK, QueueMessage
    <3>3. \A a, b \in Nat : [Idle EXCEPT !.pc = "received", !.msg = m,
                              !.receipt = a, !.count = b] \in Run
      BY DEF Idle, Run, RunPc, Outcome
    <3>4. QED BY <3>1, <3>2, <3>3, RunSteps
  <2>3. QED BY <1>8, <2>1, <2>2 DEF TypeOK, Receive, server
<1>9. ASSUME NEW w \in Worker, ReadRecord(w) PROVE TypeOK'
  <2>1. pastExpiry' \subseteq Worker
    BY <1>9 DEF TypeOK, ReadRecord
  <2>2. run' \in [Worker -> Run]
    <3>1. AfterRead(w) \in RunPc BY DEF AfterRead, RunPc
    <3>2. rec.gen \in Nat BY DEF TypeOK, Record
    <3>3. QED BY <1>9, <3>1, <3>2, RunSteps, RunValues DEF ReadRecord
  <2>3. QED BY <1>9, <2>1, <2>2 DEF TypeOK, ReadRecord, server
<1>10. ASSUME NEW w \in Worker, Claim(w) PROVE TypeOK'
  <2>1. rec' \in Record
    <3>1. run[w].count \in Nat /\ run[w].msg \in Message \cup {None}
      BY RunSteps DEF Run
    <3>2. rec \in Record BY DEF TypeOK
    <3>3. [rec EXCEPT !.status = "leased", !.count = run[w].count, !.gen = @ + 1,
                      !.msg = run[w].msg, !.expiry = "live"] \in Record
      BY <3>1, <3>2, RecordValues
    <3>4. QED BY <1>10, <3>2, <3>3 DEF Claim
  <2>2. pastExpiry' \subseteq Worker
    BY <1>10 DEF TypeOK, Claim
  <2>3. run' \in [Worker -> Run]
    <3>1. rec.gen + 1 \in Nat BY DEF TypeOK, Record
    <3>2. "leased" \in RunPc /\ "discard" \in RunPc BY DEF RunPc
    <3>3. [run EXCEPT ![w].pc = "leased", ![w].gen = rec.gen + 1]
             \in [Worker -> Run]
      BY <3>1, <3>2, RunSteps, RunValues
    <3>4. QED BY <1>10, <3>2, <3>3, RunSteps DEF Claim
  <2>4. beat' \in [Worker -> Beat]
    BY <1>10, BeatSteps DEF TypeOK, Claim
  <2>5. QED BY <1>10, <2>1, <2>2, <2>3, <2>4 DEF TypeOK, Claim, server
<1>11. ASSUME NEW w \in Worker, Discard(w) PROVE TypeOK'
  <2>1. queue' \in [Message -> QueueMessage]
    <3>1. run[w].msg \in Message BY <1>11 DEF PoisonInv, Discard
    <3>2. [queue EXCEPT ![run[w].msg].state = "deleted"]
             \in [Message -> QueueMessage]
      BY <3>1, QueueSteps
    <3>3. QED BY <1>11, <3>2 DEF Discard, TypeOK
  <2>2. run' \in [Worker -> Run]
    BY <1>11, RunSteps DEF TypeOK, Discard, RunPc
  <2>3. beat' \in [Worker -> Beat]
    BY <1>11, BeatSteps DEF TypeOK, Discard
  <2>4. QED BY <1>11, <2>1, <2>2, <2>3 DEF TypeOK, Discard, server
<1>12. ASSUME NEW w \in Worker, SendPoison(w) PROVE TypeOK'
  <2>1. poisoned' \subseteq Message
    BY <1>12 DEF TypeOK, SendPoison, PoisonInv
  <2>2. run' \in [Worker -> Run]
    BY <1>12, RunSteps DEF TypeOK, SendPoison, RunPc
  <2>3. QED BY <1>12, <2>1, <2>2 DEF TypeOK, SendPoison, server
<1>13. ASSUME NEW w \in Worker, Quarantine(w) PROVE TypeOK'
  <2>1. rec' \in Record
    BY <1>13, RecordValues DEF TypeOK, Quarantine
  <2>2. run' \in [Worker -> Run]
    BY <1>13, RunSteps DEF TypeOK, Quarantine, RunPc
  <2>3. beat' \in [Worker -> Beat]
    BY <1>13, BeatSteps DEF TypeOK, Quarantine
  <2>4. QED BY <1>13, <2>1, <2>2, <2>3 DEF TypeOK, Quarantine, server
<1>14. ASSUME NEW w \in Worker, Observe(w) PROVE TypeOK'
  <2>1. run' \in [Worker -> Run]
    BY <1>14, RunSteps DEF TypeOK, Observe, RunPc
  <2>2. QED BY <1>14, <2>1 DEF TypeOK, Observe, server
<1>15. ASSUME NEW w \in Worker, Finish(w) PROVE TypeOK'
  <2>1. run' \in [Worker -> Run]
    BY <1>15, RunSteps DEF TypeOK, Finish, Outcome
  <2>2. QED BY <1>15, <2>1 DEF TypeOK, Finish, server
<1>16. ASSUME NEW w \in Worker, Drain(w) PROVE TypeOK'
  <2>1. run' \in [Worker -> Run]
    <3>1. run[w].then = "lost" \/ run[w].then \in RunPc
      BY RunSteps DEF Run, RunPc, Outcome
    <3>2. QED BY <1>16, <3>1, RunSteps DEF Drain
  <2>2. QED BY <1>16, <2>1 DEF TypeOK, Drain, server
<1>17. ASSUME NEW w \in Worker, Settle(w) PROVE TypeOK'
  <2>1. rec' \in Record
    BY <1>17, SettledTyped DEF TypeOK, Settle
  <2>2. run' \in [Worker -> Run]
    BY <1>17, RunSteps DEF TypeOK, Settle, RunPc
  <2>3. beat' \in [Worker -> Beat]
    BY <1>17, BeatSteps DEF TypeOK, Settle
  <2>4. QED BY <1>17, <2>1, <2>2, <2>3 DEF TypeOK, Settle, server
<1>18. ASSUME NEW w \in Worker, Ack(w) PROVE TypeOK'
  <2>1. queue' \in [Message -> QueueMessage]
    <3>1. run[w].msg \in Message BY <1>18 DEF PoisonInv, Ack
    <3>2. [queue EXCEPT ![run[w].msg].state = "deleted"]
             \in [Message -> QueueMessage]
      BY <3>1, QueueSteps
    <3>3. QED BY <1>18, <3>2 DEF Ack, TypeOK
  <2>2. run' \in [Worker -> Run]
    BY <1>18, RunSteps DEF TypeOK, Ack
  <2>3. beat' \in [Worker -> Beat]
    BY <1>18, BeatSteps DEF TypeOK, Ack
  <2>4. QED BY <1>18, <2>1, <2>2, <2>3 DEF TypeOK, Ack, server
<1>19. ASSUME NEW w \in Worker, BeatStart(w) PROVE TypeOK'
  <2>1. beat' \in [Worker -> Beat]
    <3>1. run[w].msg \in Message \cup {None} /\ run[w].receipt \in Nat
          /\ run[w].gen \in Nat
      BY RunSteps DEF Run
    <3>2. \A k \in {"timer", "event"} :
             [pc |-> IF k = "timer" THEN "observing" ELSE "updating",
              kind |-> k, msg |-> run[w].msg,
              receipt |-> run[w].receipt, gen |-> run[w].gen] \in Beat
      BY <3>1 DEF Beat
    <3>3. QED BY <1>19, <3>2, BeatSteps DEF BeatStart
  <2>2. QED BY <1>19, <2>1 DEF TypeOK, BeatStart, server, BeatFails, StopBeat, Throw
<1>20. ASSUME NEW w \in Worker, BeatObserve(w) PROVE TypeOK'
  <2>1. beat' \in [Worker -> Beat]
    <3>1. [beat EXCEPT ![w].pc = "updating"] \in [Worker -> Beat]
      BY BeatSteps, BeatValues
    <3>2. QED BY <1>20, <3>1, BeatSteps DEF BeatObserve
  <2>2. run' \in [Worker -> Run]
    BY <1>20, RunSteps DEF TypeOK, BeatObserve, Outcome
  <2>3. QED BY <1>20, <2>1, <2>2 DEF TypeOK, BeatObserve, server, BeatFails, StopBeat, Throw
<1>21. ASSUME NEW w \in Worker, BeatUpdate(w) PROVE TypeOK'
  <2>1. queue' \in [Message -> QueueMessage]
    BY <1>21 DEF TypeOK, BeatUpdate, QueueMessage
  <2>2. beat' \in [Worker -> Beat]
    <3>1. beat[w].receipt + 1 \in Nat BY BeatSteps DEF Beat
    <3>2. [beat EXCEPT ![w].pc = "saving", ![w].receipt = beat[w].receipt + 1]
             \in [Worker -> Beat]
      BY <3>1, BeatSteps, BeatValues
    <3>3. QED BY <1>21, <3>2, BeatSteps DEF BeatUpdate
  <2>3. run' \in [Worker -> Run]
    BY <1>21, BeatSteps DEF TypeOK, BeatUpdate
  <2>4. QED BY <1>21, <2>1, <2>2, <2>3 DEF TypeOK, BeatUpdate, server, BeatFails, StopBeat, Throw
<1>22. ASSUME NEW w \in Worker, BeatSave(w) PROVE TypeOK'
  <2>1. rec' \in Record
    BY <1>22, RecordValues DEF TypeOK, BeatSave
  <2>2. pastExpiry' \subseteq Worker
    BY <1>22 DEF TypeOK, BeatSave
  <2>3. beat' \in [Worker -> Beat]
    BY <1>22, BeatSteps DEF TypeOK, BeatSave
  <2>4. run' \in [Worker -> Run]
    <3>1. beat[w].receipt \in Nat BY BeatSteps DEF Beat
    <3>2. [run[w] EXCEPT !.receipt = beat[w].receipt] \in Run
      BY <3>1, RunSteps, RunValues
    <3>3. QED BY <1>22, <3>2, RunSteps, BeatSteps DEF BeatSave, TypeOK
  <2>5. QED BY <1>22, <2>1, <2>2, <2>3, <2>4 DEF TypeOK, BeatSave, server, BeatFails, StopBeat, Throw
<1>23. ASSUME NEW w \in Worker, Restart(w) PROVE TypeOK'
  <2>1. run' \in [Worker -> Run]
    BY <1>23, RunSteps DEF TypeOK, Restart
  <2>2. QED BY <1>23, <2>1 DEF TypeOK, Restart, server
<1>24. ASSUME NEW w \in Worker, Crash(w) PROVE TypeOK'
  <2>1. pastExpiry' \subseteq Worker
    BY <1>24 DEF TypeOK, Crash
  <2>2. run' \in [Worker -> Run]
    BY <1>24, RunSteps, RunValues DEF TypeOK, Crash
  <2>3. beat' \in [Worker -> Beat]
    BY <1>24, BeatSteps, BeatValues DEF TypeOK, Crash
  <2>4. QED BY <1>24, <2>1, <2>2, <2>3 DEF TypeOK, Crash, server
<1>25. ASSUME NEW m \in Message, BecomesVisible(m) PROVE TypeOK'
  <2>1. queue' \in [Message -> QueueMessage]
    BY <1>25, QueueSteps DEF TypeOK, BecomesVisible
  <2>2. QED BY <1>25, <2>1 DEF TypeOK, BecomesVisible, server
<1>26. CASE LeaseLapses
  <2>1. rec' \in Record
    BY <1>26, RecordValues DEF TypeOK, LeaseLapses
  <2>2. QED BY <1>26, <2>1 DEF TypeOK, LeaseLapses, server
<1>27. CASE UNCHANGED vars
  BY <1>27 DEF vars, TypeOK
<1>28. QED BY <1>1, <1>2, <1>3, <1>4, <1>5, <1>6, <1>7, <1>8, <1>9, <1>10, <1>11, <1>12, <1>13, <1>14, <1>15, <1>16, <1>17, <1>18, <1>19, <1>20, <1>21, <1>22, <1>23, <1>24, <1>25, <1>26, <1>27 DEF Next, Leases, Executes, Beats
-----------------------------------------------------------------------------
(* The invariant. *)

\* A worker rests, starts over, or goes on with the lease it was given.
Advances(v) ==
    \/ run'[v] = run[v]
    \/ run'[v] \in {Idle, Down}
    \/ /\ run[v].pc \in Acting \cup {"discardTerminal"}
       /\ run'[v].pc \in Acting \cup {"acking"}
       /\ run'[v].pc \in Underway => rec.gen > 0
       /\ run'[v].gen = run[v].gen
       /\ run'[v].msg = run[v].msg /\ run'[v].count = run[v].count
    \/ /\ run'[v].pc = run[v].pc /\ run'[v].gen = run[v].gen
       /\ run'[v].msg = run[v].msg /\ run'[v].count = run[v].count

\* A record that was claimed or settled and stays so or is settled, or one
\* that is enqueued.
RecordRests ==
    /\ rec'.gen = rec.gen
    /\ \/ rec'.status = rec.status
       \/ rec'.status \in {"completed", "failed", "cancelled"}
       \/ rec.status = "absent" /\ rec'.status = "queued"

\* Deliveries are not counted and no message of a task that is only queued
\* is deleted.
QueueRests ==
    \A m \in Message :
       /\ queue'[m].count = queue[m].count
       /\ queue'[m].state = "deleted" /\ rec.status \in {"absent", "queued"}
            => queue[m].state = "deleted"

BeatsHaveMessages == \A w \in Worker : beat[w].pc # "off" => beat[w].msg \in Message

\* A step that neither receives nor claims nor quarantines keeps the invariant.
LEMMA CalmStep ==
    ASSUME IInv, RecordRests, QueueRests, poisoned' = poisoned,
           \A v \in Worker : Advances(v), BeatsHaveMessages'
    PROVE  LeaseInv' /\ UnclaimedInv' /\ PoisonInv'
<1>0. Idle.pc = "idle" /\ Idle.gen = 0 /\ Down.pc = "down" /\ Down.gen = 0
  BY DEF Idle, Down
<1> USE <1>0 DEF Advances, RecordRests, QueueRests, Acting, Underway, Before
<1>1. rec.gen \in Nat /\ \A v \in Worker : run[v].gen \in Nat
  BY DEF IInv, TypeOK, Record, Run
<1>2. LeaseInv'
  <2>1. (\A w \in Worker : run[w].gen <= rec.gen)'
    BY <1>1 DEF IInv, LeaseInv
  <2>2. rec'.status = "leased" => rec.status = "leased"
    OBVIOUS
  <2>3. (\A w \in Worker : run[w].pc = "discardTerminal" /\ rec.status = "leased"
                            => run[w].gen < rec.gen)'
    BY <1>1, <2>2 DEF IInv, LeaseInv
  <2>4. ASSUME rec'.status = "leased", NEW v \in Worker, Holds(v)'
        PROVE  Holds(v)
    BY <1>1, <2>2, <2>4 DEF IInv, LeaseInv, Holds
  <2>5. UniqueHolder'
    BY <2>2, <2>4 DEF IInv, LeaseInv, UniqueHolder
  <2>6. QED BY <2>1, <2>3, <2>5 DEF LeaseInv
<1>3. UnclaimedInv'
  <2>1. rec'.status \in {"absent", "queued"} => rec.status \in {"absent", "queued"}
    OBVIOUS
  <2>2. (rec.status \in {"absent", "queued"} =>
          /\ rec.gen = 0
          /\ \A w \in Worker : run[w].pc \in Before
          /\ \A m \in Message : queue[m].state # "deleted")'
    BY <2>1 DEF IInv, UnclaimedInv
  <2>3. (rec.status = "leased" => rec.gen > 0)' BY DEF IInv, UnclaimedInv
  <2>4. (\A w \in Worker : run[w].pc \in Underway => rec.gen > 0)'
    BY DEF IInv, UnclaimedInv
  <2>5. QED BY <2>2, <2>3, <2>4 DEF UnclaimedInv
<1>4. PoisonInv'
  <2>1. (\A w \in Worker : run[w].pc \notin {"idle", "down"} =>
          /\ run[w].msg \in Message
          /\ run[w].count <= queue[run[w].msg].count)'
    BY DEF IInv, PoisonInv
  <2>2. (\A w \in Worker : run[w].pc \in {"poison", "quarantine"} =>
          run[w].count > MaxDequeue)'
    BY DEF IInv, PoisonInv
  <2>3. (\A w \in Worker : run[w].pc = "quarantine" => run[w].msg \in poisoned)'
    BY DEF IInv, PoisonInv
  <2>4. rec'.status = "quarantined" => rec.status = "quarantined" OBVIOUS
  <2>5. QuarantineLeavesEvidence'
    BY <2>4 DEF IInv, PoisonInv, QuarantineLeavesEvidence, TypeOK
  <2>6. QED BY <2>1, <2>2, <2>3, <2>5 DEF PoisonInv, BeatsHaveMessages
<1>5. QED BY <1>2, <1>3, <1>4

\* A run that goes on, ends its execution or takes a new receipt advances.
LEMMA RunMoves ==
    ASSUME TypeOK, NEW w \in Worker,
           \/ /\ run[w].pc \in Acting /\ rec.gen > 0
              /\ \/ \E pc \in Acting : Goto(w, pc)
                 \/ \E o \in Outcome : Ends(w, o)
           \/ \E n \in Nat : run' = [run EXCEPT ![w].receipt = n]
           \/ GoIdle(w)
           \/ UNCHANGED run
    PROVE  \A v \in Worker : Advances(v)
<1>1. run[w] \in Run BY DEF TypeOK
<1>2. \A r : run' = [run EXCEPT ![w] = r] =>
              run'[w] = r /\ \A v \in Worker \ {w} : run'[v] = run[v]
  BY DEF TypeOK
<1>3. ASSUME run[w].pc \in Acting, rec.gen > 0, NEW pc \in Acting, Goto(w, pc)
      PROVE  \A v \in Worker : Advances(v)
  <2>1. PICK r : r = [run[w] EXCEPT !.pc = pc] OBVIOUS
  <2>2. /\ r.pc = pc /\ r.gen = run[w].gen
        /\ r.msg = run[w].msg /\ r.count = run[w].count
    BY <1>1, <2>1 DEF Run
  <2>3. run'[w] = r /\ \A v \in Worker \ {w} : run'[v] = run[v]
    BY <1>2, <1>3, <2>1 DEF Goto
  <2> QED BY <1>3, <2>2, <2>3 DEF Advances
<1>4. ASSUME run[w].pc \in Acting, rec.gen > 0, NEW o \in Outcome, Ends(w, o)
      PROVE  \A v \in Worker : Advances(v)
  <2>1. PICK r : r = [[run[w] EXCEPT !.pc = "drain"] EXCEPT !.then = o] OBVIOUS
  <2>2. /\ r.pc = "drain" /\ r.gen = run[w].gen
        /\ r.msg = run[w].msg /\ r.count = run[w].count
    BY <1>1, <2>1 DEF Run
  <2>3. run' = [run EXCEPT ![w] = r] BY <1>4, <2>1 DEF Ends
  <2>4. run'[w] = r /\ \A v \in Worker \ {w} : run'[v] = run[v] BY <1>2, <2>3
  <2> QED BY <1>4, <2>2, <2>4 DEF Advances, Acting
<1>5. ASSUME NEW n \in Nat, run' = [run EXCEPT ![w].receipt = n]
      PROVE  \A v \in Worker : Advances(v)
  <2>1. PICK r : r = [run[w] EXCEPT !.receipt = n] OBVIOUS
  <2>2. /\ r.pc = run[w].pc /\ r.gen = run[w].gen
        /\ r.msg = run[w].msg /\ r.count = run[w].count
    BY <1>1, <2>1 DEF Run
  <2>3. run'[w] = r /\ \A v \in Worker \ {w} : run'[v] = run[v]
    BY <1>2, <1>5, <2>1
  <2> QED BY <2>2, <2>3 DEF Advances
<1>6. GoIdle(w) => \A v \in Worker : Advances(v) BY <1>2 DEF GoIdle, Advances
<1>7. UNCHANGED run => \A v \in Worker : Advances(v) BY DEF Advances
<1> QED BY <1>3, <1>4, <1>5, <1>6, <1>7

\* A renewal in flight keeps its message until it is done.
LEMMA BeatMoves ==
    ASSUME TypeOK, BeatsHaveMessages, NEW w \in Worker,
           \/ StopBeat(w)
           \/ beat[w].pc # "off" /\ beat' = [beat EXCEPT ![w].pc = "updating"]
           \/ /\ beat[w].pc # "off"
              /\ \E n \in Nat : beat' = [beat EXCEPT ![w].pc = "saving", ![w].receipt = n]
    PROVE  BeatsHaveMessages'
<1>1. beat[w] \in Beat BY DEF TypeOK
<1>2. \A b : beat' = [beat EXCEPT ![w] = b] =>
              beat'[w] = b /\ \A v \in Worker \ {w} : beat'[v] = beat[v]
  BY DEF TypeOK
<1>3. CASE StopBeat(w) BY <1>2, <1>3 DEF StopBeat, NoBeat, BeatsHaveMessages
<1>4. CASE beat[w].pc # "off" /\ beat' = [beat EXCEPT ![w].pc = "updating"]
  <2>1. PICK b : b = [beat[w] EXCEPT !.pc = "updating"] OBVIOUS
  <2>2. b.msg = beat[w].msg BY <1>1, <2>1 DEF Beat
  <2>3. beat' = [beat EXCEPT ![w] = b] BY <1>4, <2>1
  <2> QED BY <1>2, <1>4, <2>2, <2>3 DEF BeatsHaveMessages
<1>5. ASSUME beat[w].pc # "off", NEW n \in Nat,
             beat' = [beat EXCEPT ![w].pc = "saving", ![w].receipt = n]
      PROVE  BeatsHaveMessages'
  <2>1. PICK b : b = [[beat[w] EXCEPT !.pc = "saving"] EXCEPT !.receipt = n] OBVIOUS
  <2>2. b.msg = beat[w].msg BY <1>1, <2>1 DEF Beat
  <2>3. beat' = [beat EXCEPT ![w] = b] BY <1>5, <2>1
  <2>4. beat'[w] = b /\ \A v \in Worker \ {w} : beat'[v] = beat[v] BY <1>2, <2>3
  <2>5. beat[w].msg \in Message BY <1>5 DEF BeatsHaveMessages
  <2> QED BY <2>2, <2>4, <2>5 DEF BeatsHaveMessages
<1> QED BY <1>3, <1>4, <1>5

\* The steps that are calm, one by one.
LEMMA CalmActions ==
    ASSUME IInv,
           \/ \E c \in Caller : \/ EnqueueCreate(c) \/ EnqueueSend(c)
                                \/ EnqueueReread(c) \/ EnqueueMark(c)
                                \/ EnqueueStops(c)
           \/ CancelRead \/ CancelWrite
           \/ \E w \in Worker : \/ Discard(w) \/ Executes(w) \/ Beats(w)
                                \/ BeatStart(w) \/ Restart(w) \/ Crash(w)
           \/ \E m \in Message : BecomesVisible(m)
           \/ LeaseLapses
           \/ UNCHANGED vars
    PROVE  LeaseInv' /\ UnclaimedInv' /\ PoisonInv'
<1> DEFINE Calm == /\ RecordRests /\ QueueRests /\ poisoned' = poisoned
                   /\ \A v \in Worker : Advances(v)
                   /\ BeatsHaveMessages'
<1> SUFFICES Calm BY CalmStep
<1>0. TypeOK /\ BeatsHaveMessages BY DEF IInv, PoisonInv, BeatsHaveMessages
<1> USE DEF Calm
<1>1. ASSUME NEW c \in Caller, EnqueueCreate(c) PROVE Calm
  <2>1. RecordRests
    BY <1>1, <1>0 DEF EnqueueCreate, RecordRests, TypeOK, Record
  <2>2. QueueRests
    BY <1>1, <1>0 DEF EnqueueCreate, QueueRests, TypeOK, QueueMessage
  <2>3. \A v \in Worker : Advances(v)
    BY <1>1, <1>0 DEF EnqueueCreate, Advances, TypeOK
  <2>4. BeatsHaveMessages'
    BY <1>1, <1>0 DEF EnqueueCreate, BeatsHaveMessages, TypeOK
  <2>5. QED BY <1>1, <2>1, <2>2, <2>3, <2>4 DEF EnqueueCreate, server
<1>2. ASSUME NEW c \in Caller, EnqueueSend(c) PROVE Calm
  <2>1. RecordRests
    BY <1>2, <1>0 DEF EnqueueSend, RecordRests, TypeOK
  <2>2. QueueRests
    BY <1>2, <1>0 DEF EnqueueSend, QueueRests, TypeOK, QueueMessage
  <2>3. \A v \in Worker : Advances(v)
    BY <1>2, <1>0 DEF EnqueueSend, Advances, TypeOK
  <2>4. BeatsHaveMessages'
    BY <1>2, <1>0 DEF EnqueueSend, BeatsHaveMessages, TypeOK
  <2>5. QED BY <1>2, <2>1, <2>2, <2>3, <2>4 DEF EnqueueSend, server
<1>3. ASSUME NEW c \in Caller, EnqueueReread(c) PROVE Calm
  <2>1. RecordRests
    BY <1>3, <1>0 DEF EnqueueReread, RecordRests, TypeOK
  <2>2. QueueRests
    BY <1>3, <1>0 DEF EnqueueReread, QueueRests, TypeOK, QueueMessage
  <2>3. \A v \in Worker : Advances(v)
    BY <1>3, <1>0 DEF EnqueueReread, Advances, TypeOK
  <2>4. BeatsHaveMessages'
    BY <1>3, <1>0 DEF EnqueueReread, BeatsHaveMessages, TypeOK
  <2>5. QED BY <1>3, <2>1, <2>2, <2>3, <2>4 DEF EnqueueReread, server
<1>4. ASSUME NEW c \in Caller, EnqueueMark(c) PROVE Calm
  <2>1. RecordRests
    BY <1>4, <1>0 DEF EnqueueMark, RecordRests, TypeOK, Record
  <2>2. QueueRests
    BY <1>4, <1>0 DEF EnqueueMark, QueueRests, TypeOK, QueueMessage
  <2>3. \A v \in Worker : Advances(v)
    BY <1>4, <1>0 DEF EnqueueMark, Advances, TypeOK
  <2>4. BeatsHaveMessages'
    BY <1>4, <1>0 DEF EnqueueMark, BeatsHaveMessages, TypeOK
  <2>5. QED BY <1>4, <2>1, <2>2, <2>3, <2>4 DEF EnqueueMark, server
<1>5. ASSUME NEW c \in Caller, EnqueueStops(c) PROVE Calm
  <2>1. RecordRests
    BY <1>5, <1>0 DEF EnqueueStops, RecordRests, TypeOK
  <2>2. QueueRests
    BY <1>5, <1>0 DEF EnqueueStops, QueueRests, TypeOK, QueueMessage
  <2>3. \A v \in Worker : Advances(v)
    BY <1>5, <1>0 DEF EnqueueStops, Advances, TypeOK
  <2>4. BeatsHaveMessages'
    BY <1>5, <1>0 DEF EnqueueStops, BeatsHaveMessages, TypeOK
  <2>5. QED BY <1>5, <2>1, <2>2, <2>3, <2>4 DEF EnqueueStops, server
<1>6. CASE CancelRead
  <2>1. RecordRests
    BY <1>6, <1>0 DEF CancelRead, RecordRests, TypeOK
  <2>2. QueueRests
    BY <1>6, <1>0 DEF CancelRead, QueueRests, TypeOK
  <2>3. \A v \in Worker : Advances(v)
    BY <1>6, <1>0 DEF CancelRead, Advances, TypeOK
  <2>4. BeatsHaveMessages'
    BY <1>6, <1>0 DEF CancelRead, BeatsHaveMessages, TypeOK
  <2>5. QED BY <1>6, <2>1, <2>2, <2>3, <2>4 DEF CancelRead, server
<1>7. CASE CancelWrite
  <2>1. RecordRests
    BY <1>7, <1>0 DEF CancelWrite, RecordRests, TypeOK, Record
  <2>2. QueueRests
    BY <1>7, <1>0 DEF CancelWrite, QueueRests, TypeOK
  <2>3. \A v \in Worker : Advances(v)
    BY <1>7, <1>0 DEF CancelWrite, Advances, TypeOK
  <2>4. BeatsHaveMessages'
    BY <1>7, <1>0 DEF CancelWrite, BeatsHaveMessages, TypeOK
  <2>5. QED BY <1>7, <2>1, <2>2, <2>3, <2>4 DEF CancelWrite, server
<1>8. ASSUME NEW w \in Worker, Discard(w) PROVE Calm
  <2>1. RecordRests
    BY <1>8, <1>0 DEF Discard, RecordRests, TypeOK
  <2>2. QueueRests
    BY <1>8, <1>0 DEF Discard, QueueRests, TypeOK, IInv, UnclaimedInv, Before, QueueMessage
  <2>3. \A v \in Worker : Advances(v)
    BY <1>8, <1>0 DEF Discard, Advances, TypeOK, Run, Goto, GoIdle, Throw, Ends, Acting, Underway, IsTerminal
  <2>4. BeatsHaveMessages'
    BY <1>8, <1>0 DEF Discard, BeatsHaveMessages, Throw, NoBeat, TypeOK, Beat, server
  <2>5. QED BY <1>8, <2>1, <2>2, <2>3, <2>4 DEF Discard, server
<1>9. ASSUME NEW w \in Worker, Observe(w) PROVE Calm
  <2>1. RecordRests
    BY <1>9, <1>0 DEF Observe, RecordRests, TypeOK
  <2>2. QueueRests
    BY <1>9, <1>0 DEF Observe, QueueRests, TypeOK
  <2>3. \A v \in Worker : Advances(v)
    <3>1. ~IsTerminal => rec.gen > 0
      BY <1>9, <1>0 DEF Observe, TypeOK, Record, Status, Terminal, IsTerminal, IInv, UnclaimedInv, Before
    <3> QED BY <1>9, <1>0, <3>1, RunMoves DEF Observe, Acting
  <2>4. BeatsHaveMessages'
    BY <1>9, <1>0 DEF Observe, BeatsHaveMessages, TypeOK
  <2>5. QED BY <1>9, <2>1, <2>2, <2>3, <2>4 DEF Observe, server
<1>10. ASSUME NEW w \in Worker, Finish(w) PROVE Calm
  <2>1. RecordRests
    BY <1>10, <1>0 DEF Finish, RecordRests, TypeOK
  <2>2. QueueRests
    BY <1>10, <1>0 DEF Finish, QueueRests, TypeOK
  <2>3. \A v \in Worker : Advances(v)
    BY <1>10, <1>0 DEF Finish, Advances, TypeOK, Run, Goto, GoIdle, Throw, Ends, Acting, Underway, IsTerminal, IInv, UnclaimedInv
  <2>4. BeatsHaveMessages'
    BY <1>10, <1>0 DEF Finish, BeatsHaveMessages, TypeOK
  <2>5. QED BY <1>10, <2>1, <2>2, <2>3, <2>4 DEF Finish, server
<1>11. ASSUME NEW w \in Worker, Drain(w) PROVE Calm
  <2>1. RecordRests
    BY <1>11, <1>0 DEF Drain, RecordRests, TypeOK
  <2>2. QueueRests
    BY <1>11, <1>0 DEF Drain, QueueRests, TypeOK
  <2>3. \A v \in Worker : Advances(v)
    BY <1>11, <1>0 DEF Drain, Advances, TypeOK, Run, Goto, GoIdle, Throw, Ends, Acting, Underway, IsTerminal, IInv, UnclaimedInv, Outcome
  <2>4. BeatsHaveMessages'
    BY <1>11, <1>0 DEF Drain, BeatsHaveMessages, TypeOK
  <2>5. QED BY <1>11, <2>1, <2>2, <2>3, <2>4 DEF Drain, server
<1>12. ASSUME NEW w \in Worker, Settle(w) PROVE Calm
  <2>1. RecordRests
    BY <1>12, <1>0 DEF Settle, RecordRests, TypeOK, Record, Settled
  <2>2. QueueRests
    BY <1>12, <1>0 DEF Settle, QueueRests, TypeOK
  <2>3. \A v \in Worker : Advances(v)
    BY <1>12, <1>0 DEF Settle, Advances, TypeOK, Run, Goto, GoIdle, Throw, Ends, Acting, Underway, IsTerminal
  <2>4. BeatsHaveMessages'
    BY <1>12, <1>0 DEF Settle, BeatsHaveMessages, Throw, NoBeat, TypeOK, Beat
  <2>5. QED BY <1>12, <2>1, <2>2, <2>3, <2>4 DEF Settle, server
<1>13. ASSUME NEW w \in Worker, Ack(w) PROVE Calm
  <2>1. RecordRests
    BY <1>13, <1>0 DEF Ack, RecordRests, TypeOK
  <2>2. QueueRests
    BY <1>13, <1>0 DEF Ack, QueueRests, TypeOK, IInv, UnclaimedInv, Before, QueueMessage
  <2>3. \A v \in Worker : Advances(v)
    BY <1>13, <1>0 DEF Ack, Advances, TypeOK, Run, Goto, GoIdle, Throw, Ends, Acting, Underway, IsTerminal
  <2>4. BeatsHaveMessages'
    BY <1>13, <1>0 DEF Ack, BeatsHaveMessages, Throw, NoBeat, TypeOK, server
  <2>5. QED BY <1>13, <2>1, <2>2, <2>3, <2>4 DEF Ack, server
<1>14. ASSUME NEW w \in Worker, BeatStart(w) PROVE Calm
  <2>1. RecordRests
    BY <1>14, <1>0 DEF BeatStart, RecordRests, TypeOK
  <2>2. QueueRests
    BY <1>14, <1>0 DEF BeatStart, QueueRests, TypeOK
  <2>3. \A v \in Worker : Advances(v)
    BY <1>14, <1>0 DEF BeatStart, Advances, TypeOK, server
  <2>4. BeatsHaveMessages'
    BY <1>14, <1>0 DEF BeatStart, BeatsHaveMessages, TypeOK, Beat, IInv, PoisonInv
  <2>5. QED BY <1>14, <2>1, <2>2, <2>3, <2>4 DEF BeatStart, server
<1>15. ASSUME NEW w \in Worker, BeatObserve(w) PROVE Calm
  <2>1. RecordRests
    BY <1>15, <1>0 DEF BeatObserve, RecordRests, TypeOK
  <2>2. QueueRests
    BY <1>15, <1>0 DEF BeatObserve, QueueRests, TypeOK
  <2>3. \A v \in Worker : Advances(v)
    <3>1. run[w].pc = "running" => rec.gen > 0 BY DEF IInv, UnclaimedInv, Underway
    <3> QED BY <1>15, <1>0, <3>1, RunMoves DEF BeatObserve, Acting, Outcome
  <2>4. BeatsHaveMessages'
    BY <1>15, <1>0, BeatMoves DEF BeatObserve
  <2>5. QED BY <1>15, <2>1, <2>2, <2>3, <2>4 DEF BeatObserve, server
<1>16. ASSUME NEW w \in Worker, BeatUpdate(w) PROVE Calm
  <2>1. RecordRests
    BY <1>16, <1>0 DEF BeatUpdate, RecordRests, TypeOK
  <2>2. QueueRests
    BY <1>16, <1>0 DEF BeatUpdate, QueueRests, TypeOK, QueueMessage
  <2>3. \A v \in Worker : Advances(v)
    <3>1. run[w].pc = "running" => rec.gen > 0 BY DEF IInv, UnclaimedInv, Underway
    <3> QED BY <1>16, <1>0, <3>1, RunMoves DEF BeatUpdate, BeatFails, Acting, Outcome
  <2>4. BeatsHaveMessages'
    <3>1. beat[w].pc # "off" /\ beat[w].receipt + 1 \in Nat
      BY <1>16, <1>0 DEF BeatUpdate, TypeOK, Beat
    <3>2. \/ StopBeat(w)
          \/ beat' = [beat EXCEPT ![w].pc = "saving", ![w].receipt = beat[w].receipt + 1]
      BY <1>16 DEF BeatUpdate, BeatFails
    <3> QED BY <1>0, <3>1, <3>2, BeatMoves
  <2>5. QED BY <1>16, <2>1, <2>2, <2>3, <2>4 DEF BeatUpdate, server
<1>17. ASSUME NEW w \in Worker, BeatSave(w) PROVE Calm
  <2>1. RecordRests
    BY <1>17, <1>0 DEF BeatSave, RecordRests, TypeOK, Record
  <2>2. QueueRests
    BY <1>17, <1>0 DEF BeatSave, QueueRests, TypeOK
  <2>3. \A v \in Worker : Advances(v)
    <3>1. run[w].pc = "running" => rec.gen > 0 BY DEF IInv, UnclaimedInv, Underway
    <3>2. beat[w].receipt \in Nat BY <1>0 DEF TypeOK, Beat
    <3> QED BY <1>17, <1>0, <3>1, <3>2, RunMoves DEF BeatSave, BeatFails, Acting, Outcome
  <2>4. BeatsHaveMessages'
    BY <1>17, <1>0, BeatMoves DEF BeatSave, BeatFails
  <2>5. QED BY <1>17, <2>1, <2>2, <2>3, <2>4 DEF BeatSave, server
<1>18. ASSUME NEW w \in Worker, Restart(w) PROVE Calm
  <2>1. RecordRests
    BY <1>18, <1>0 DEF Restart, RecordRests, TypeOK
  <2>2. QueueRests
    BY <1>18, <1>0 DEF Restart, QueueRests, TypeOK
  <2>3. \A v \in Worker : Advances(v)
    BY <1>18, <1>0 DEF Restart, Advances, TypeOK, Run, Goto, GoIdle, Throw, Ends, Acting, Underway, IsTerminal
  <2>4. BeatsHaveMessages'
    BY <1>18, <1>0 DEF Restart, BeatsHaveMessages, TypeOK
  <2>5. QED BY <1>18, <2>1, <2>2, <2>3, <2>4 DEF Restart, server
<1>19. ASSUME NEW w \in Worker, Crash(w) PROVE Calm
  <2>1. RecordRests
    BY <1>19, <1>0 DEF Crash, RecordRests, TypeOK
  <2>2. QueueRests
    BY <1>19, <1>0 DEF Crash, QueueRests, TypeOK
  <2>3. \A v \in Worker : Advances(v)
    BY <1>19, <1>0 DEF Crash, Advances, TypeOK, Run, Goto, GoIdle, Throw, Ends, Acting, Underway, IsTerminal
  <2>4. BeatsHaveMessages'
    BY <1>19, <1>0 DEF Crash, BeatsHaveMessages, Throw, NoBeat, TypeOK, Beat
  <2>5. QED BY <1>19, <2>1, <2>2, <2>3, <2>4 DEF Crash, server
<1>20. ASSUME NEW m \in Message, BecomesVisible(m) PROVE Calm
  <2>1. RecordRests
    BY <1>20, <1>0 DEF BecomesVisible, RecordRests, TypeOK
  <2>2. QueueRests
    BY <1>20, <1>0 DEF BecomesVisible, QueueRests, TypeOK, QueueMessage
  <2>3. \A v \in Worker : Advances(v)
    BY <1>20, <1>0 DEF BecomesVisible, Advances, TypeOK, server
  <2>4. BeatsHaveMessages'
    BY <1>20, <1>0 DEF BecomesVisible, BeatsHaveMessages, TypeOK
  <2>5. QED BY <1>20, <2>1, <2>2, <2>3, <2>4 DEF BecomesVisible, server
<1>21. CASE LeaseLapses
  <2>1. RecordRests
    BY <1>21, <1>0 DEF LeaseLapses, RecordRests, TypeOK, Record
  <2>2. QueueRests
    BY <1>21, <1>0 DEF LeaseLapses, QueueRests, TypeOK
  <2>3. \A v \in Worker : Advances(v)
    BY <1>21, <1>0 DEF LeaseLapses, Advances, TypeOK, server
  <2>4. BeatsHaveMessages'
    BY <1>21, <1>0 DEF LeaseLapses, BeatsHaveMessages, TypeOK
  <2>5. QED BY <1>21, <2>1, <2>2, <2>3, <2>4 DEF LeaseLapses, server
<1>22. CASE UNCHANGED vars
  BY <1>22, <1>0 DEF vars, RecordRests, QueueRests, Advances, BeatsHaveMessages
<1>23. QED BY <1>1, <1>2, <1>3, <1>4, <1>5, <1>6, <1>7, <1>8, <1>9, <1>10, <1>11, <1>12, <1>13, <1>14, <1>15, <1>16, <1>17, <1>18, <1>19, <1>20, <1>21, <1>22 DEF Executes, Beats

\* A worker receives a message: its delivery is counted in the message and in
\* the run alike.
LEMMA ReceiveStep ==
    ASSUME IInv, NEW w \in Worker, Receive(w)
    PROVE  LeaseInv' /\ UnclaimedInv' /\ PoisonInv'
<1>1. PICK m \in Message :
          /\ queue' = [queue EXCEPT ![m] = [state |-> "hidden",
                            count |-> @.count + 1, receipt |-> @.receipt + 1]]
          /\ run' = [run EXCEPT ![w] =
                [Idle EXCEPT !.pc = "received", !.msg = m,
                             !.receipt = queue[m].receipt + 1,
                             !.count = queue[m].count + 1]]
  BY DEF Receive
<1>2. UNCHANGED <<rec, poisoned, beat>> BY DEF Receive
<1>3. /\ run'[w].pc = "received" /\ run'[w].gen = 0
      /\ run'[w].msg = m /\ run'[w].count = queue'[m].count
  BY <1>1 DEF IInv, TypeOK, Idle
<1>4. \A v \in Worker \ {w} : run'[v] = run[v] BY <1>1 DEF IInv, TypeOK
<1>5. \A k \in Message : queue'[k].count >= queue[k].count
  BY <1>1 DEF IInv, TypeOK, QueueMessage
<1>6. \A k \in Message : queue'[k].state = "deleted" => queue[k].state = "deleted"
  BY <1>1 DEF IInv, TypeOK, QueueMessage
<1>7. rec.gen \in Nat BY DEF IInv, TypeOK, Record
<1>8. LeaseInv'
  BY <1>2, <1>3, <1>4, <1>7 DEF IInv, LeaseInv, UniqueHolder, Holds, Acting
<1>9. UnclaimedInv'
  BY <1>2, <1>3, <1>4, <1>6 DEF IInv, UnclaimedInv, Before, Underway
<1>10. PoisonInv'
  <2>1. (\A v \in Worker : run[v].pc \notin {"idle", "down"} =>
          /\ run[v].msg \in Message
          /\ run[v].count <= queue[run[v].msg].count)'
    <3>1. \A v \in Worker : run[v].count \in Nat BY DEF IInv, TypeOK, Run
    <3>2. \A k \in Message : queue[k].count \in Nat
      BY DEF IInv, TypeOK, QueueMessage
    <3>3. \A k \in Message : queue'[k].count \in Nat
      BY <1>1, <3>2 DEF IInv, TypeOK
    <3>4. QED BY <1>3, <1>4, <1>5, <3>1, <3>2, <3>3 DEF IInv, PoisonInv
  <2>2. \A k \in Message : queue[k].count \in Nat /\ queue'[k].count \in Nat
    BY <1>1 DEF IInv, TypeOK, QueueMessage
  <2>3. QuarantineLeavesEvidence'
    BY <1>2, <1>5, <2>2, DispatchConstants
    DEF IInv, TypeOK, PoisonInv, QuarantineLeavesEvidence
  <2>4. QED BY <1>2, <1>3, <1>4, <2>1, <2>3 DEF IInv, PoisonInv
<1>11. QED BY <1>8, <1>9, <1>10

\* A worker reads the record and takes its branch.
LEMMA ReadStep ==
    ASSUME IInv, NEW w \in Worker, ReadRecord(w)
    PROVE  LeaseInv' /\ UnclaimedInv' /\ PoisonInv'
<1>1. UNCHANGED <<rec, queue, poisoned, beat>> BY DEF ReadRecord
<1>2. /\ run'[w].pc = AfterRead(w) /\ run'[w].gen = rec.gen
      /\ run'[w].msg = run[w].msg /\ run'[w].count = run[w].count
  BY DEF ReadRecord, IInv, TypeOK, Run
<1>3. \A v \in Worker \ {w} : run'[v] = run[v] BY DEF ReadRecord, IInv, TypeOK
<1>4. rec.gen \in Nat BY DEF IInv, TypeOK, Record
<1>5. /\ AfterRead(w) \in {"discardTerminal", "poison", "discard", "claim"}
      /\ AfterRead(w) = "discardTerminal" => rec.status \in Terminal
      /\ AfterRead(w) = "poison" => run[w].count > MaxDequeue
      /\ AfterRead(w) = "discard" => rec.gen > 0
      /\ AfterRead(w) # "discardTerminal" => rec.status \notin Terminal
  BY DEF AfterRead, IsTerminal
<1>6. LeaseInv'
  BY <1>1, <1>2, <1>3, <1>4, <1>5
  DEF IInv, LeaseInv, UniqueHolder, Holds, Acting, Terminal
<1>7. UnclaimedInv'
  BY <1>1, <1>2, <1>3, <1>4, <1>5
  DEF IInv, UnclaimedInv, Before, Underway, Terminal
<1>8. PoisonInv'
  <2>1. run[w].pc = "received" BY DEF ReadRecord
  <2>2. QED BY <1>1, <1>2, <1>3, <1>5, <2>1
            DEF IInv, PoisonInv, QuarantineLeavesEvidence
<1>9. QED BY <1>6, <1>7, <1>8

\* A worker claims the task under a generation nobody had, or is refused.
LEMMA ClaimStep ==
    ASSUME IInv, NEW w \in Worker, Claim(w)
    PROVE  LeaseInv' /\ UnclaimedInv' /\ PoisonInv'
<1>1. UNCHANGED <<queue, poisoned>> /\ run[w].pc = "claim" BY DEF Claim
<1>2. rec.gen \in Nat /\ \A v \in Worker : run[v].gen \in Nat
  BY DEF IInv, TypeOK, Record, Run
<1>3. \A v \in Worker \ {w} : run'[v] = run[v]
  BY DEF Claim, Throw, Goto, IInv, TypeOK
<1>4. \A v \in Worker : beat'[v].pc # "off" => beat'[v].msg \in Message
  BY DEF Claim, Throw, NoBeat, IInv, TypeOK, PoisonInv, server
<1>5. CASE rec.gen = run[w].gen /\ Claimable(w)
  <2>1. /\ rec'.gen = rec.gen + 1 /\ rec'.status = "leased"
        /\ run'[w].pc = "leased" /\ run'[w].gen = rec.gen + 1
        /\ run'[w].msg = run[w].msg /\ run'[w].count = run[w].count
    BY <1>5 DEF Claim, IInv, TypeOK, Run, Record
  <2>2. LeaseInv'
    BY <1>2, <1>3, <2>1 DEF IInv, LeaseInv, UniqueHolder, Holds, Acting
  <2>3. UnclaimedInv'
    BY <1>1, <1>2, <1>3, <2>1 DEF IInv, UnclaimedInv, Before, Underway
  <2>4. PoisonInv'
    BY <1>1, <1>3, <1>4, <2>1 DEF IInv, PoisonInv, QuarantineLeavesEvidence
  <2>5. QED BY <2>2, <2>3, <2>4
<1>6. CASE rec.gen # run[w].gen \/ ~Claimable(w)
  <2>1. rec' = rec BY <1>6 DEF Claim
  <2>2. \/ run'[w] = Down
        \/ /\ rec.gen # run[w].gen /\ run'[w].pc = "discard"
           /\ run'[w].gen = run[w].gen
           /\ run'[w].msg = run[w].msg /\ run'[w].count = run[w].count
    BY <1>6 DEF Claim, Throw, Goto, IInv, TypeOK, Run
  <2>3. Down.pc = "down" /\ Down.gen = 0 BY DEF Down, Idle
  <2>4. rec.gen # run[w].gen => rec.gen > 0 BY <1>2 DEF IInv, LeaseInv
  <2>5. LeaseInv'
    BY <1>2, <1>3, <2>1, <2>2, <2>3 DEF IInv, LeaseInv, UniqueHolder, Holds, Acting
  <2>6. UnclaimedInv'
    BY <1>1, <1>2, <1>3, <2>1, <2>2, <2>3, <2>4
    DEF IInv, UnclaimedInv, Before, Underway
  <2>7. PoisonInv'
    BY <1>1, <1>3, <1>4, <2>1, <2>2, <2>3
    DEF IInv, PoisonInv, QuarantineLeavesEvidence
  <2>8. QED BY <2>5, <2>6, <2>7
<1>7. QED BY <1>5, <1>6

\* The evidence is written before the record says quarantined.
LEMMA QuarantineStep ==
    ASSUME IInv, NEW w \in Worker, SendPoison(w) \/ Quarantine(w)
    PROVE  LeaseInv' /\ UnclaimedInv' /\ PoisonInv'
<1>1. queue' = queue /\ run[w].pc \in {"poison", "quarantine"}
  BY DEF SendPoison, Quarantine
<1>2. \A v \in Worker \ {w} : run'[v] = run[v]
  BY DEF SendPoison, Quarantine, Throw, Goto, IInv, TypeOK
<1>3. \A v \in Worker : beat'[v].pc # "off" => beat'[v].msg \in Message
  BY DEF SendPoison, Quarantine, Throw, NoBeat, IInv, TypeOK, PoisonInv, server
<1>4. /\ rec.gen \in Nat /\ \A v \in Worker : run[v].gen \in Nat
      /\ rec'.gen = rec.gen
  BY DEF IInv, TypeOK, Record, Run, SendPoison, Quarantine
<1>5. \/ run'[w] = Down
      \/ /\ run'[w].gen = run[w].gen
         /\ run'[w].msg = run[w].msg /\ run'[w].count = run[w].count
         /\ \/ run'[w].pc = "quarantine" /\ rec' = rec
            \/ run'[w].pc = "discard" /\ rec'.status = "quarantined"
  <2>1. CASE SendPoison(w)
    BY <2>1 DEF SendPoison, Goto, IInv, TypeOK, Run
  <2>2. CASE Quarantine(w)
    <3>1. CASE Throw(w) BY <3>1 DEF Throw, IInv, TypeOK
    <3>2. CASE Goto(w, "discard") /\ rec' = [rec EXCEPT !.status = "quarantined",
                                                        !.expiry = "none"]
      <4>1. rec'.status = "quarantined" BY <3>2 DEF IInv, TypeOK, Record
      <4>2. QED BY <3>2, <4>1 DEF Goto, IInv, TypeOK, Run
    <3>3. QED BY <2>2, <3>1, <3>2 DEF Quarantine
  <2>3. QED BY <2>1, <2>2
<1>6. \/ rec'.status = rec.status
      \/ rec'.status = "quarantined" /\ run[w].pc = "quarantine"
  BY DEF IInv, TypeOK, Record, SendPoison, Quarantine
<1>7. Down.pc = "down" /\ Down.gen = 0 BY DEF Down, Idle
<1>8. LeaseInv'
  BY <1>2, <1>4, <1>5, <1>6, <1>7 DEF IInv, LeaseInv, UniqueHolder, Holds, Acting
<1>9. UnclaimedInv'
  BY <1>1, <1>2, <1>4, <1>5, <1>6, <1>7 DEF IInv, UnclaimedInv, Before, Underway
<1>10. PoisonInv'
  <2>1. poisoned \subseteq poisoned' BY DEF SendPoison, Quarantine
  <2>2. run'[w].pc = "quarantine" => run'[w].msg \in poisoned'
    BY <1>5, <1>7, <1>1 DEF SendPoison, Quarantine, Throw, Goto, IInv, TypeOK, Run
  <2>3. \A k \in Message : queue[k].count \in Nat BY DEF IInv, TypeOK, QueueMessage
  <2>4. run[w].count \in Nat /\ run[w].msg \in Message
        /\ run[w].count > MaxDequeue /\ run[w].count <= queue[run[w].msg].count
    BY <1>1 DEF IInv, TypeOK, Run, PoisonInv
  <2>5. QuarantineLeavesEvidence'
    <3>1. run[w].pc = "quarantine" => queue[run[w].msg].count > MaxDequeue
             /\ run[w].msg \in poisoned
      BY <2>3, <2>4, DispatchConstants DEF IInv, PoisonInv
    <3>2. QED BY <1>1, <1>6, <2>1, <3>1 DEF IInv, PoisonInv, QuarantineLeavesEvidence
  <2>6. (\A v \in Worker : run[v].pc \notin {"idle", "down"} =>
          /\ run[v].msg \in Message
          /\ run[v].count <= queue[run[v].msg].count)'
    BY <1>1, <1>2, <1>5, <1>7, <2>4 DEF IInv, PoisonInv
  <2>7. (\A v \in Worker : run[v].pc \in {"poison", "quarantine"} =>
          run[v].count > MaxDequeue)'
    BY <1>2, <1>5, <1>7, <2>4 DEF IInv, PoisonInv
  <2>8. (\A v \in Worker : run[v].pc = "quarantine" => run[v].msg \in poisoned)'
    BY <1>2, <2>1, <2>2 DEF IInv, PoisonInv
  <2>9. QED BY <1>3, <2>5, <2>6, <2>7, <2>8 DEF PoisonInv
<1>11. QED BY <1>8, <1>9, <1>10

\* A cancellation that is about to be written has an attempt left.
LEMMA CancelStep == ASSUME IInv, [Next]_vars PROVE CancelInv'
<1>1. CASE CancelRead BY <1>1 DEF CancelRead, CancelInv, IInv, TypeOK
<1>2. CASE CancelWrite BY <1>2 DEF CancelWrite, CancelInv, IInv, TypeOK
<1>3. CASE ~CancelRead /\ ~CancelWrite
  <2>1. cancel' = cancel
    BY <1>3 DEF Next, vars, server, EnqueueCreate, EnqueueSend, EnqueueReread,
       EnqueueMark, EnqueueStops, Leases, Receive, ReadRecord, Claim, Discard,
       SendPoison, Quarantine, Executes, Observe, Finish, Drain, Settle, Ack,
       Beats, BeatObserve, BeatUpdate, BeatSave, BeatStart, Restart, Crash,
       BecomesVisible, LeaseLapses
  <2>2. QED BY <2>1 DEF IInv, CancelInv
<1>4. QED BY <1>1, <1>2, <1>3

LEMMA InitInv == Init => IInv
<1> SUFFICES ASSUME Init PROVE IInv OBVIOUS
<1> USE DEF Init
<1>1. TypeOK
  <2>1. rec \in Record BY DEF Record, Status
  <2>2. queue \in [Message -> QueueMessage] BY DEF QueueMessage
  <2>3. run \in [Worker -> Run] BY RunValues
  <2>4. beat \in [Worker -> Beat] BY BeatValues
  <2>5. QED BY <2>1, <2>2, <2>3, <2>4, DispatchConstants DEF TypeOK
<1>2. CancelInv BY DEF CancelInv
<1>3. \A w \in Worker : run[w].pc = "idle" /\ run[w].gen = 0 /\ beat[w].pc = "off"
  BY DEF Idle, NoBeat
<1>4. LeaseInv BY <1>3 DEF LeaseInv, UniqueHolder
<1>5. UnclaimedInv BY <1>3 DEF UnclaimedInv, Before, Underway
<1>6. PoisonInv BY <1>3 DEF PoisonInv, QuarantineLeavesEvidence
<1>7. QED BY <1>1, <1>2, <1>4, <1>5, <1>6 DEF IInv

LEMMA StepInv == IInv /\ [Next]_vars => IInv'
<1> SUFFICES ASSUME IInv, [Next]_vars PROVE IInv' OBVIOUS
<1>1. TypeOK' BY TypeStep DEF IInv
<1>2. CancelInv' BY CancelStep
<1>3. LeaseInv' /\ UnclaimedInv' /\ PoisonInv'
  BY CalmActions, ReceiveStep, ReadStep, ClaimStep, QuarantineStep DEF Next, Leases
<1>4. QED BY <1>1, <1>2, <1>3 DEF IInv

\* In every reachable state the invariant holds.
THEOREM DispatchInductive == Spec => []IInv
<1>1. QED BY InitInv, StepInv, PTL DEF Spec

-----------------------------------------------------------------------------
(* What follows for every number of workers, callers and messages. *)

\* The variables of the dispatch always have their types.
THEOREM DispatchTypeCorrect == Spec => []TypeOK
<1>1. IInv => TypeOK BY DEF IInv
<1>2. QED BY <1>1, DispatchInductive, PTL

\* Two workers never hold the current lease of the task.
THEOREM HolderIsUnique == Spec => []UniqueHolder
<1>1. IInv => UniqueHolder BY DEF IInv, LeaseInv
<1>2. QED BY <1>1, DispatchInductive, PTL

\* A task sent and never claimed keeps a message in the queue.
THEOREM UnclaimedStaysQueued == Spec => []UnclaimedTaskIsQueued
<1>1. IInv => UnclaimedTaskIsQueued
  BY DEF IInv, TypeOK, QueueMessage, UnclaimedInv, UnclaimedTaskIsQueued, Sent, InQueue
<1>2. QED BY <1>1, DispatchInductive, PTL

\* A quarantined task has left its message in the poison queue.
THEOREM EvidencePrecedesQuarantine == Spec => []QuarantineLeavesEvidence
<1>1. IInv => QuarantineLeavesEvidence BY DEF IInv, PoisonInv
<1>2. QED BY <1>1, DispatchInductive, PTL

\* No completion is recorded once a cancellation has been requested.
THEOREM CancellationBarsReceipt == Spec => NoReceiptAfterCancellation
<1>1. ASSUME IInv, [Next]_vars, rec.cancelled PROVE rec'.receipt = rec.receipt
  <2>1. rec \in Record BY <1>1 DEF IInv, TypeOK
  <2>2. ASSUME NEW w \in Worker, Settle(w) PROVE rec'.receipt = rec.receipt
    BY <1>1, <2>1, <2>2 DEF Settle, Settled, Refused, Record
  <2>3. CASE \A w \in Worker : ~Settle(w)
    BY <1>1, <2>1, <2>3 DEF Record, Next, vars, EnqueueCreate, EnqueueSend,
       EnqueueReread, EnqueueMark, EnqueueStops, CancelRead, CancelWrite, Leases,
       Receive, ReadRecord, Claim, Discard, SendPoison, Quarantine, Executes,
       Observe, Finish, Drain, Ack, Beats, BeatObserve, BeatUpdate, BeatSave,
       BeatStart, Restart, Crash, BecomesVisible, LeaseLapses
  <2>4. QED BY <2>2, <2>3
<1>2. IInv /\ [Next]_vars => [rec.cancelled => rec'.receipt = rec.receipt]_vars
  BY <1>1
<1>3. QED BY <1>2, DispatchInductive, PTL DEF Spec, NoReceiptAfterCancellation

\* A worker whose execution has ended is about to record this outcome.
Settling == {"completing", "failing", "cancelling"}
OutcomeOf == [completing |-> "completed", failing |-> "failed",
              cancelling |-> "cancelled"]

\* It still holds the lease, no cancellation precedes its completion, and the
\* store takes what it writes.
TakesEffect(w) == /\ rec.gen = run[w].gen
                  /\ run[w].pc = "completing" => ~rec.cancelled
                  /\ ~RejectsUndefined

\* Unless it crashes, a worker that has an outcome records exactly it, and where
\* it may not it changes nothing and ends.
SettlesOrThrows ==
    [][\A w \in Worker :
          run[w].pc \in Settling /\ run'[w].pc # run[w].pc /\ crashes' = crashes
          => IF TakesEffect(w)
             THEN rec'.status = OutcomeOf[run[w].pc]
             ELSE rec' = rec /\ run'[w] = Down]_vars

\* Only its own terminal update takes a worker past it.
LEMMA SettlesItself ==
    ASSUME IInv, [Next]_vars, NEW w \in Worker, run[w].pc \in Settling,
           run'[w].pc # run[w].pc, crashes' = crashes
    PROVE  Settle(w)
<1> SUFFICES ASSUME ~Settle(w) PROVE FALSE OBVIOUS
<1>1. TypeOK BY DEF IInv
<1>2. ASSUME NEW v \in Worker, Leases(v) \/ Executes(v) PROVE FALSE
  <2>1. CASE v = w
    BY <1>2, <2>1
    DEF Settling, Leases, Executes, Receive, ReadRecord, Claim, Discard, SendPoison,
        Quarantine, Observe, Finish, Drain, Ack
  <2>2. CASE v # w
    BY <1>1, <1>2, <2>2
    DEF Leases, Executes, Receive, ReadRecord, Claim, Discard, SendPoison,
        Quarantine, Observe, Finish, Drain, Settle, Ack, Goto, GoIdle,
        Throw, Ends, TypeOK
  <2>3. QED BY <2>1, <2>2
<1>3. ASSUME NEW v \in Worker, Beats(v) \/ BeatStart(v) \/ Restart(v) PROVE FALSE
  <2>1. CASE v = w
    BY <1>1, <1>3, <2>1
    DEF Settling, Beats, BeatObserve, BeatUpdate, BeatSave, BeatFails, BeatStart,
        Restart, server
  <2>2. CASE v # w
    BY <1>1, <1>3, <2>2
    DEF Beats, BeatObserve, BeatUpdate, BeatSave, BeatFails, BeatStart,
        Restart, server, Ends, GoIdle, TypeOK
  <2>3. QED BY <2>1, <2>2
<1>4. ASSUME NEW v \in Worker, Crash(v) PROVE FALSE
  BY <1>1, <1>4 DEF Crash, TypeOK
<1>5. \E v \in Worker : \/ Leases(v) \/ Executes(v) \/ Beats(v)
                         \/ BeatStart(v) \/ Restart(v) \/ Crash(v)
  BY DEF Next, vars, server, EnqueueCreate, EnqueueSend, EnqueueReread, EnqueueMark,
         EnqueueStops, CancelRead, CancelWrite, BecomesVisible, LeaseLapses
<1>6. QED BY <1>2, <1>3, <1>4, <1>5

\* A holder settles its task with the outcome of its execution, whatever the
\* others do meanwhile; everybody else, and everybody with a store that refuses
\* undefined fields, leaves the record alone.
THEOREM OutcomesTakeEffect == Spec => SettlesOrThrows
<1>1. ASSUME IInv, [Next]_vars, NEW w \in Worker, run[w].pc \in Settling,
             run'[w].pc # run[w].pc, crashes' = crashes
      PROVE  IF TakesEffect(w)
             THEN rec'.status = OutcomeOf[run[w].pc]
             ELSE rec' = rec /\ run'[w] = Down
  <2>1. TypeOK /\ rec \in Record BY <1>1 DEF IInv, TypeOK
  <2>2. Settle(w) BY <1>1, SettlesItself
  <2>3. CASE TakesEffect(w)
    <3>1. rec.gen > 0 BY <1>1 DEF IInv, UnclaimedInv, Underway, Settling
    <3>2. ~Refused(w) BY <2>1, <2>3, <3>1 DEF Refused, TakesEffect, Record
    <3>3. rec' = [Settled(w) EXCEPT !.expiry = "none"] BY <2>2, <3>2 DEF Settle
    <3>4. rec'.status = OutcomeOf[run[w].pc]
      BY <1>1, <2>1, <3>3 DEF Settling, Settled, OutcomeOf, Record
    <3>5. QED BY <2>3, <3>4
  <2>4. CASE ~TakesEffect(w)
    <3>1. Refused(w) BY <2>4 DEF Refused, TakesEffect
    <3>2. QED BY <2>1, <2>2, <2>4, <3>1 DEF Settle, Throw, TypeOK
  <2>5. QED BY <2>3, <2>4
<1> DEFINE Settles ==
      \A w \in Worker :
          run[w].pc \in Settling /\ run'[w].pc # run[w].pc /\ crashes' = crashes
          => IF TakesEffect(w)
             THEN rec'.status = OutcomeOf[run[w].pc]
             ELSE rec' = rec /\ run'[w] = Down
<1>2. IInv /\ [Next]_vars => [Settles]_vars BY <1>1
<1> HIDE DEF Settles
<1>3. Spec => [][Settles]_vars BY <1>2, DispatchInductive, PTL DEF Spec
<1>4. QED BY <1>3, PTL DEF Settles, SettlesOrThrows

\* With the store the worker is composed with, which refuses undefined fields,
\* no task is ever settled: neither an execution nor a quarantine ends one.
THEOREM NothingSettlesThere == RejectsUndefined => (Spec => []~IsTerminal)
<1> SUFFICES ASSUME RejectsUndefined PROVE Spec => []~IsTerminal OBVIOUS
<1>1. Init => ~IsTerminal BY DEF Init, IsTerminal, Terminal
<1>2. IInv /\ ~IsTerminal /\ [Next]_vars => (~IsTerminal)'
  <2> SUFFICES ASSUME IInv, ~IsTerminal, [Next]_vars PROVE ~IsTerminal'
    OBVIOUS
  <2>1. rec \in Record BY DEF IInv, TypeOK
  <2>2. CASE rec'.status = rec.status BY <2>2 DEF IsTerminal
  <2>3. ASSUME NEW c \in Caller, EnqueueCreate(c) PROVE ~IsTerminal'
    BY <2>1, <2>3 DEF EnqueueCreate, IsTerminal, Terminal, Record
  <2>4. ASSUME NEW w \in Worker, Claim(w) PROVE ~IsTerminal'
    BY <2>1, <2>4 DEF Claim, IsTerminal, Terminal, Record
  <2>5. ASSUME \A c \in Caller : ~EnqueueCreate(c), \A w \in Worker : ~Claim(w)
        PROVE  rec'.status = rec.status
    BY <2>1, <2>5 DEF Record, Next, vars, EnqueueSend, EnqueueReread, EnqueueMark,
       EnqueueStops, CancelRead, CancelWrite, Leases, Receive, ReadRecord, Discard,
       SendPoison, Quarantine, Executes, Observe, Finish, Drain, Settle, Refused,
       Ack, Beats, BeatObserve, BeatUpdate, BeatSave, BeatStart, Restart, Crash,
       BecomesVisible, LeaseLapses
  <2>6. QED BY <2>2, <2>3, <2>4, <2>5
<1>3. QED BY <1>1, <1>2, DispatchInductive, PTL DEF Spec

-----------------------------------------------------------------------------
(* With one worker, and the message it holds. *)

\* There is one worker at most.
Alone == \A v, w \in Worker : v = w

\* Nobody settles the task between the read of a lone worker and its claim;
\* and the message the record names is deleted only once the task is settled.
SoloInv ==
    /\ rec.receipt # 0 => IsTerminal
    /\ rec.status = "leased" => /\ rec.msg \in Message /\ InQueue(rec.msg)
                                /\ rec.count <= queue[rec.msg].count
    /\ \A w \in Worker :
          /\ run[w].pc \in {"claim", "poison", "quarantine"} => ~IsTerminal
          /\ run[w].pc \in {"discardTerminal", "acking"} => IsTerminal
          /\ run[w].pc = "claim" => run[w].gen = rec.gen
          /\ run[w].pc \in {"received", "claim"} => InQueue(run[w].msg)
          /\ rec.status = "leased" /\ run[w].msg = rec.msg
                => /\ run[w].pc = "received" => run[w].count > rec.count
                   /\ run[w].pc # "discard"

\* A step that neither reads the record, nor claims, nor deletes a message.
LEMMA SoloRests ==
    ASSUME IInv, SoloInv,
           rec'.msg = rec.msg, rec'.count = rec.count, rec'.gen = rec.gen,
           rec'.receipt = rec.receipt,
           \/ rec'.status = rec.status
           \/ rec.status = "absent" /\ rec'.status = "queued",
           \A m \in Message : /\ queue'[m].count = queue[m].count
                              /\ InQueue(m) => InQueue(m)',
           \A v \in Worker :
              \/ /\ run'[v].pc = run[v].pc /\ run'[v].msg = run[v].msg
                 /\ run'[v].gen = run[v].gen /\ run'[v].count = run[v].count
              \/ run'[v].pc \in {"idle", "down", "leased"} \cup Underway
              \/ run[v].pc = "poison" /\ run'[v].pc = "quarantine"
    PROVE  SoloInv'
<1> DEFINE fixed == {"claim", "poison", "quarantine", "discardTerminal", "acking",
                     "received", "discard"}
<1>1. IsTerminal' <=> IsTerminal
  BY DEF IsTerminal, Terminal
<1>2. rec'.status = "leased" <=> rec.status = "leased"
  OBVIOUS
<1>3. \A v \in Worker : run[v].pc \in {"received", "claim"} => run[v].msg \in Message
  BY DEF IInv, PoisonInv
<1>4. (rec.status = "leased" => /\ rec.msg \in Message /\ InQueue(rec.msg)
                                /\ rec.count <= queue[rec.msg].count)'
  BY <1>2 DEF SoloInv, InQueue
<1>5. ASSUME NEW v \in Worker
      PROVE  /\ run'[v].pc \in {"claim", "poison", "quarantine"} => ~IsTerminal'
             /\ run'[v].pc \in {"discardTerminal", "acking"} => IsTerminal'
             /\ run'[v].pc = "claim" => run'[v].gen = rec'.gen
             /\ run'[v].pc \in {"received", "claim"} => InQueue(run[v].msg)'
             /\ rec'.status = "leased" /\ run'[v].msg = rec'.msg
                   => /\ run'[v].pc = "received" => run'[v].count > rec'.count
                      /\ run'[v].pc # "discard"
  <2>1. CASE /\ run'[v].pc = run[v].pc /\ run'[v].msg = run[v].msg
             /\ run'[v].gen = run[v].gen /\ run'[v].count = run[v].count
    BY <1>1, <1>2, <1>3, <2>1 DEF SoloInv, InQueue
  <2>2. CASE run'[v].pc \in {"idle", "down", "leased"} \cup Underway
    BY <2>2 DEF Underway
  <2>3. CASE run[v].pc = "poison" /\ run'[v].pc = "quarantine"
    BY <1>1, <2>3 DEF SoloInv
  <2> QED BY <2>1, <2>2, <2>3
<1>6. rec'.receipt # 0 => IsTerminal'
  BY <1>1 DEF SoloInv
<1> QED BY <1>4, <1>5, <1>6 DEF SoloInv

\* The steps of the server, of the queue, of time and of the execution.
LEMMA SoloQuiet ==
    ASSUME IInv, SoloInv,
           \/ \E c \in Caller : \/ EnqueueCreate(c) \/ EnqueueSend(c)
                                \/ EnqueueReread(c) \/ EnqueueMark(c)
                                \/ EnqueueStops(c)
           \/ CancelRead \/ CancelWrite
           \/ \E m \in Message : BecomesVisible(m)
           \/ LeaseLapses
           \/ UNCHANGED vars
    PROVE  SoloInv'
<1>1. run' = run
  BY DEF EnqueueCreate, EnqueueSend, EnqueueReread, EnqueueMark, EnqueueStops, CancelRead,
         CancelWrite, BecomesVisible, LeaseLapses, vars
<1>2. /\ rec'.msg = rec.msg /\ rec'.count = rec.count /\ rec'.gen = rec.gen
      /\ rec'.receipt = rec.receipt
      /\ \/ rec'.status = rec.status
         \/ rec.status = "absent" /\ rec'.status = "queued"
  <2>1. rec \in Record BY DEF IInv, TypeOK
  <2> QED
    BY <2>1 DEF Record, EnqueueCreate, EnqueueSend, EnqueueReread, EnqueueMark, EnqueueStops,
         CancelRead, CancelWrite, BecomesVisible, LeaseLapses, vars
<1>3. \A m \in Message : /\ queue'[m].count = queue[m].count
                         /\ InQueue(m) => InQueue(m)'
  <2>1. \A m \in Message : queue[m] \in QueueMessage BY DEF IInv, TypeOK
  <2>2. queue \in [Message -> QueueMessage] BY DEF IInv, TypeOK
  <2>3. CASE queue' = queue
    BY <2>3 DEF InQueue
  <2>4. ASSUME NEW n \in Message, queue' = [queue EXCEPT ![n].state = "visible"]
        PROVE  \A m \in Message : /\ queue'[m].count = queue[m].count
                                  /\ InQueue(m) => InQueue(m)'
    BY <2>1, <2>2, <2>4 DEF InQueue, QueueMessage
  <2> QED
    BY <2>3, <2>4 DEF EnqueueCreate, EnqueueSend, EnqueueReread, EnqueueMark, EnqueueStops,
         CancelRead, CancelWrite, BecomesVisible, LeaseLapses, vars
<1> QED BY <1>1, <1>2, <1>3, SoloRests

\* The steps of a worker that executes, renews, restarts or dies.
LEMMA SoloWorks ==
    ASSUME Alone, IInv, SoloInv, NEW w \in Worker,
           \/ SendPoison(w) \/ Observe(w) \/ Finish(w) \/ Drain(w)
           \/ Beats(w) \/ BeatStart(w) \/ Restart(w) \/ Crash(w)
    PROVE  SoloInv'
<1>1. /\ rec'.msg = rec.msg /\ rec'.count = rec.count /\ rec'.gen = rec.gen
      /\ rec'.receipt = rec.receipt /\ rec'.status = rec.status
  <2>1. rec \in Record BY DEF IInv, TypeOK
  <2> QED BY <2>1 DEF Record, SendPoison, Observe, Finish, Drain, Beats, BeatObserve,
                      BeatUpdate, BeatSave, BeatStart, Restart, Crash
<1>2. \A m \in Message : /\ queue'[m].count = queue[m].count
                         /\ InQueue(m) => InQueue(m)'
  <2>1. CASE queue' = queue
    BY <2>1 DEF InQueue
  <2>2. CASE BeatUpdate(w) /\ queue' # queue
    <3>1. /\ queue' = [queue EXCEPT ![beat[w].msg].receipt = @ + 1,
                                    ![beat[w].msg].state = "hidden"]
          /\ beat[w].msg \in Message
      BY <2>2 DEF BeatUpdate, IInv, PoisonInv
    <3> QED BY <3>1 DEF IInv, TypeOK, QueueMessage, InQueue
  <2> QED BY <2>1, <2>2 DEF SendPoison, Observe, Finish, Drain, Beats, BeatObserve,
                            BeatSave, BeatStart, Restart, Crash
<1>3. ASSUME NEW v \in Worker
      PROVE  \/ /\ run'[v].pc = run[v].pc /\ run'[v].msg = run[v].msg
                /\ run'[v].gen = run[v].gen /\ run'[v].count = run[v].count
             \/ run'[v].pc \in {"idle", "down", "leased"} \cup Underway
             \/ run[v].pc = "poison" /\ run'[v].pc = "quarantine"
  <2>1. v = w BY DEF Alone
  <2>2. run \in [Worker -> Run] /\ run[w] \in Run BY DEF IInv, TypeOK
  <2>3. Idle.pc = "idle" /\ Down.pc = "down" BY DEF Idle, Down
  <2>4. CASE SendPoison(w) \/ Observe(w)
    BY <2>1, <2>2, <2>3, <2>4 DEF SendPoison, Observe, Goto, GoIdle, Underway, Run
  <2>7. CASE Finish(w)
    BY <2>1, <2>2, <2>7 DEF Finish, Ends, Underway, Run
  <2>8. CASE Restart(w) \/ Crash(w) \/ BeatStart(w)
    BY <2>1, <2>2, <2>3, <2>8 DEF Restart, Crash, BeatStart, GoIdle
  <2>5. CASE Drain(w)
    BY <2>1, <2>2, <2>3, <2>5 DEF Drain, Goto, GoIdle, Underway, Run, Outcome
  <2>6. CASE Beats(w)
    BY <2>1, <2>2, <2>6 DEF Beats, BeatObserve, BeatUpdate, BeatSave, BeatFails, Ends,
       Underway, Run
  <2> QED BY <2>4, <2>5, <2>6, <2>7, <2>8
<1> QED BY <1>1, <1>2, <1>3, SoloRests

\* A delivery counts more than the claims before it.
LEMMA SoloReceive ==
    ASSUME Alone, IInv, SoloInv, NEW w \in Worker, Receive(w)
    PROVE  SoloInv'
<1>1. PICK m \in Message :
          /\ queue[m].state = "visible"
          /\ queue' = [queue EXCEPT ![m] = [state |-> "hidden",
                            count |-> @.count + 1, receipt |-> @.receipt + 1]]
          /\ run' = [run EXCEPT ![w] =
                [Idle EXCEPT !.pc = "received", !.msg = m,
                             !.receipt = queue[m].receipt + 1,
                             !.count = queue[m].count + 1]]
  BY DEF Receive
<1>2. rec' = rec BY DEF Receive
<1>3. queue \in [Message -> QueueMessage] /\ run \in [Worker -> Run] /\ rec \in Record
  BY DEF IInv, TypeOK
<1>4. /\ queue'[m].state = "hidden" /\ queue'[m].count = queue[m].count + 1
      /\ \A n \in Message : n # m => queue'[n] = queue[n]
      /\ queue[m].count \in Nat
  BY <1>1, <1>3 DEF QueueMessage
<1>5. run'[w].pc = "received" /\ run'[w].msg = m /\ run'[w].count = queue[m].count + 1
  BY <1>1, <1>3 DEF Idle
<1>6. \A n \in Message : /\ InQueue(n) => InQueue(n)'
                         /\ queue[n].count <= queue'[n].count
  BY <1>3, <1>4 DEF InQueue, QueueMessage
<1>7. rec'.receipt # 0 => IsTerminal'
  BY <1>2 DEF SoloInv, IsTerminal
<1>8. rec.count \in Nat /\ \A n \in Message : queue[n].count \in Nat /\ queue'[n].count \in Nat
  BY <1>3, <1>4 DEF Record, QueueMessage
<1>9. (rec.status = "leased" => /\ rec.msg \in Message /\ InQueue(rec.msg)
                                /\ rec.count <= queue[rec.msg].count)'
  BY <1>2, <1>6, <1>8 DEF SoloInv
<1>10. InQueue(m)' BY <1>4 DEF InQueue
<1>11. rec'.status = "leased" /\ m = rec'.msg => run'[w].count > rec'.count
  BY <1>2, <1>5, <1>8 DEF SoloInv
<1>12. \A v \in Worker : v = w BY DEF Alone
<1>13. InQueue(run[w].msg)' BY <1>5, <1>10
<1> QED BY <1>5, <1>7, <1>9, <1>11, <1>12, <1>13 DEF SoloInv

\* What the worker takes for a duplicate is not the message of the record.
LEMMA SoloRead ==
    ASSUME Alone, IInv, SoloInv, NEW w \in Worker, ReadRecord(w)
    PROVE  SoloInv'
<1>1. rec' = rec /\ queue' = queue /\ run[w].pc = "received"
  BY DEF ReadRecord
<1>2. run \in [Worker -> Run] /\ run[w] \in Run /\ rec \in Record
  BY DEF IInv, TypeOK
<1>3. /\ run'[w].pc = AfterRead(w) /\ run'[w].gen = rec.gen
      /\ run'[w].msg = run[w].msg /\ run'[w].count = run[w].count
  BY <1>2 DEF ReadRecord, Run
<1>4. /\ AfterRead(w) \in {"claim", "poison"} => ~IsTerminal
      /\ AfterRead(w) = "discardTerminal" => IsTerminal
      /\ AfterRead(w) = "discard" => ~IsTerminal /\ ~Redelivered(w)
      /\ AfterRead(w) \in {"claim", "poison", "discardTerminal", "discard"}
  <2>1. CASE IsTerminal BY <2>1 DEF AfterRead
  <2>2. CASE ~IsTerminal /\ run[w].count > MaxDequeue BY <2>2 DEF AfterRead
  <2>3. CASE ~IsTerminal /\ ~(run[w].count > MaxDequeue)
    BY <2>3 DEF AfterRead
  <2> QED BY <2>1, <2>2, <2>3
<1>5. \A v \in Worker : v = w BY DEF Alone
<1>6. InQueue(run[w].msg)' BY <1>1, <1>3 DEF SoloInv, InQueue
<1>7. rec.status = "leased" /\ run[w].msg = rec.msg => Redelivered(w)
  BY <1>1 DEF SoloInv, Redelivered
<1>8. (rec.status = "leased" => /\ rec.msg \in Message /\ InQueue(rec.msg)
                                /\ rec.count <= queue[rec.msg].count)'
  BY <1>1 DEF SoloInv, InQueue
<1>9. (IsTerminal' <=> IsTerminal) /\ (rec'.receipt # 0 => IsTerminal')
  BY <1>1 DEF SoloInv, IsTerminal
<1> QED BY <1>1, <1>3, <1>4, <1>5, <1>6, <1>7, <1>8, <1>9 DEF SoloInv

\* Nobody comes between the read and the claim: it succeeds, and names a
\* message that is in the queue.
LEMMA SoloClaim ==
    ASSUME Alone, IInv, SoloInv, NEW w \in Worker, Claim(w)
    PROVE  SoloInv'
<1>1. /\ run[w].pc = "claim" /\ run[w].gen = rec.gen /\ queue' = queue
      /\ ~IsTerminal /\ InQueue(run[w].msg)
  BY DEF Claim, SoloInv
<1>2. run \in [Worker -> Run] /\ run[w] \in Run /\ rec \in Record
  BY DEF IInv, TypeOK
<1>3. \A v \in Worker : v = w BY DEF Alone
<1>4. run[w].msg \in Message /\ run[w].count <= queue[run[w].msg].count
  BY <1>1 DEF IInv, PoisonInv
<1>5. rec.receipt = 0 BY <1>1 DEF SoloInv
<1>6. CASE /\ Claimable(w)
           /\ rec' = [rec EXCEPT !.status = "leased", !.count = run[w].count,
                                 !.gen = @ + 1, !.msg = run[w].msg,
                                 !.expiry = "live"]
           /\ run' = [run EXCEPT ![w].pc = "leased", ![w].gen = rec.gen + 1]
  <2>1. /\ rec'.status = "leased" /\ rec'.count = run[w].count
        /\ rec'.msg = run[w].msg /\ rec'.receipt = 0
    BY <1>2, <1>5, <1>6 DEF Record
  <2>2. run'[w].pc = "leased" BY <1>2, <1>6 DEF Run
  <2>3. InQueue(rec.msg)' BY <1>1, <2>1 DEF InQueue
  <2>4. rec'.count <= queue'[rec'.msg].count BY <1>1, <1>4, <2>1
  <2> QED BY <1>3, <1>4, <2>1, <2>2, <2>3, <2>4 DEF SoloInv
<1>7. CASE Throw(w) /\ rec' = rec
  <2>1. run'[w].pc = "down" BY <1>2, <1>7 DEF Throw, Down
  <2> QED BY <1>1, <1>3, <1>7, <2>1, SoloRests DEF InQueue
<1> QED BY <1>1, <1>6, <1>7 DEF Claim

\* A worker deletes a message that is not the one of the record, or when the
\* task is settled.
LEMMA SoloDelete ==
    ASSUME Alone, IInv, SoloInv, NEW w \in Worker, Discard(w) \/ Ack(w)
    PROVE  SoloInv'
<1>1. rec' = rec /\ run[w].pc \in {"discard", "discardTerminal", "acking"}
  BY DEF Discard, Ack
<1>2. run \in [Worker -> Run] /\ queue \in [Message -> QueueMessage] /\ rec \in Record
  BY DEF IInv, TypeOK
<1>3. \A v \in Worker : v = w BY DEF Alone
<1>4. run'[w].pc \in {"idle", "leased", "down"}
  BY <1>2 DEF Discard, Ack, GoIdle, Goto, Throw, Idle, Down, Run
<1>5. run[w].msg \in Message BY <1>1 DEF IInv, PoisonInv
<1>6. queue' = queue \/ queue' = [queue EXCEPT ![run[w].msg].state = "deleted"]
  BY DEF Discard, Ack
<1>7. \A m \in Message : /\ queue'[m].count = queue[m].count
                         /\ m # run[w].msg /\ InQueue(m) => InQueue(m)'
  BY <1>2, <1>5, <1>6 DEF QueueMessage, InQueue
<1>8. rec.status = "leased" => run[w].msg # rec.msg
  <2>1. CASE run[w].pc = "discard" BY <2>1 DEF SoloInv
  <2>2. CASE run[w].pc \in {"discardTerminal", "acking"}
    BY <2>2 DEF SoloInv, IsTerminal, Terminal
  <2> QED BY <1>1, <2>1, <2>2
<1>9. (rec.status = "leased" => /\ rec.msg \in Message /\ InQueue(rec.msg)
                                /\ rec.count <= queue[rec.msg].count)'
  <2> SUFFICES ASSUME rec.status = "leased"
               PROVE  /\ rec.msg \in Message /\ InQueue(rec.msg)'
                      /\ rec.count <= queue'[rec.msg].count
    BY <1>1 DEF InQueue
  <2>1. rec.msg \in Message /\ InQueue(rec.msg) /\ rec.count <= queue[rec.msg].count
    BY DEF SoloInv
  <2>2. PICK m \in Message : m = rec.msg BY <2>1
  <2>3. InQueue(m) /\ m # run[w].msg BY <1>8, <2>1, <2>2
  <2>4. InQueue(m)' /\ queue'[m].count = queue[m].count BY <1>7, <2>2, <2>3
  <2> QED BY <1>1, <2>1, <2>2, <2>4 DEF InQueue
<1>10. (rec.receipt # 0 => IsTerminal)' BY <1>1 DEF SoloInv, IsTerminal
<1> QED BY <1>3, <1>4, <1>9, <1>10 DEF SoloInv

\* The task is settled by the one worker there is.
LEMMA SoloSettle ==
    ASSUME Alone, IInv, SoloInv, NEW w \in Worker, Settle(w) \/ Quarantine(w)
    PROVE  SoloInv'
<1>1. run \in [Worker -> Run] /\ run[w] \in Run /\ rec \in Record
  BY DEF IInv, TypeOK
<1>2. \A v \in Worker : v = w BY DEF Alone
<1>3. queue' = queue BY DEF Settle, Quarantine
<1>4. CASE Throw(w) /\ rec' = rec
  <2>1. run'[w].pc = "down" BY <1>1, <1>4 DEF Throw, Down
  <2> QED BY <1>2, <1>3, <1>4, <2>1, SoloRests DEF InQueue
<1>5. CASE rec'.status \in Terminal /\ run'[w].pc \in {"acking", "discard"}
  <2>1. IsTerminal' /\ rec'.status # "leased" BY <1>5 DEF IsTerminal, Terminal
  <2> QED BY <1>2, <1>5, <2>1 DEF SoloInv
<1>6. CASE Settle(w) /\ ~Refused(w)
  <2>1. rec' = [Settled(w) EXCEPT !.expiry = "none"] /\ Goto(w, "acking")
    BY <1>6 DEF Settle
  <2>2. run'[w].pc = "acking" BY <1>1, <2>1 DEF Goto, Run
  <2>3. rec'.status \in Terminal
    <3>1. CASE run[w].pc = "completing"
      BY <1>1, <2>1, <3>1 DEF Settled, Record, Terminal
    <3>2. CASE run[w].pc = "failing"
      BY <1>1, <2>1, <3>2 DEF Settled, Record, Terminal
    <3>3. CASE run[w].pc = "cancelling"
      BY <1>1, <2>1, <3>3 DEF Settled, Record, Terminal
    <3> QED BY <1>6, <3>1, <3>2, <3>3 DEF Settle
  <2> QED BY <1>5, <2>2, <2>3
<1>7. CASE /\ rec' = [rec EXCEPT !.status = "quarantined", !.expiry = "none"]
           /\ Goto(w, "discard")
  <2>1. rec'.status \in Terminal BY <1>1, <1>7 DEF Record, Terminal
  <2>2. run'[w].pc = "discard" BY <1>1, <1>7 DEF Goto, Run
  <2> QED BY <1>5, <2>1, <2>2
<1> QED BY <1>4, <1>6, <1>7 DEF Settle, Quarantine

\* With one worker the invariant holds in every reachable state.
LEMMA SoloInductive ==
    ASSUME Alone
    PROVE  Spec => []SoloInv
<1>1. Init => SoloInv
  <2> SUFFICES ASSUME Init PROVE SoloInv OBVIOUS
  <2>1. rec.receipt = 0 /\ rec.status = "absent" BY DEF Init
  <2>2. \A w \in Worker : run[w].pc = "idle" BY DEF Init, Idle
  <2> QED BY <2>1, <2>2 DEF SoloInv
<1>2. IInv /\ SoloInv /\ [Next]_vars => SoloInv'
  BY SoloQuiet, SoloWorks, SoloReceive, SoloRead, SoloClaim, SoloDelete, SoloSettle
     DEF Next, Leases, Executes
<1> QED BY <1>1, <1>2, DispatchInductive, PTL DEF Spec

\* With one worker, a leased task nobody works on can be redelivered, whatever
\* is sent twice, delivered late or lost by a crash: the message the record
\* names is in the queue.
THEOREM LoneTaskIsRecoverable ==
    ASSUME Alone
    PROVE  Spec => []RecoverableWhileLeased
<1>1. SoloInv => RecoverableWhileLeased
  BY DEF SoloInv, RecoverableWhileLeased
<1> QED BY <1>1, SoloInductive, PTL

\* With one worker, no execution of the task starts once it has a receipt.
THEOREM LoneWorkerStopsAtReceipt ==
    ASSUME Alone
    PROVE  Spec => NoExecutionAfterCompletion
<1>1. IInv /\ SoloInv /\ [Next]_vars
        => [\A w \in Worker :
              run[w].pc = "leased" /\ run'[w].pc = "running" => rec.receipt = 0]_vars
  <2> SUFFICES ASSUME IInv, SoloInv, [Next]_vars, NEW w \in Worker,
                      run[w].pc = "leased", run'[w].pc = "running", rec.receipt # 0
               PROVE  FALSE
    OBVIOUS
  <2>1. IsTerminal BY DEF SoloInv
  <2>2. run \in [Worker -> Run] /\ run[w] \in Run BY DEF IInv, TypeOK
  <2>3. Idle.pc = "idle" /\ Down.pc = "down" BY DEF Idle, Down
  <2>4. \A v \in Worker : v = w BY DEF Alone
  <2>5. CASE Observe(w) BY <2>1, <2>2, <2>3, <2>5 DEF Observe, GoIdle
  <2>6. CASE Crash(w) BY <2>2, <2>3, <2>6 DEF Crash
  <2>7. CASE Beats(w) \/ BeatStart(w)
    BY <2>2, <2>7 DEF Beats, BeatObserve, BeatUpdate, BeatSave, BeatFails, BeatStart, Ends
  <2>8. CASE \/ Leases(w) \/ Finish(w) \/ Drain(w) \/ Settle(w) \/ Ack(w) \/ Restart(w)
    BY <2>8 DEF Leases, Receive, ReadRecord, Claim, Discard, SendPoison, Quarantine,
       Finish, Drain, Settle, Ack, Restart
  <2>9. CASE run' = run BY <2>9
  <2> QED
    BY <2>4, <2>5, <2>6, <2>7, <2>8, <2>9 DEF Next, Executes, EnqueueCreate, EnqueueSend,
       EnqueueReread, EnqueueMark, EnqueueStops, CancelRead, CancelWrite, BecomesVisible,
       LeaseLapses, vars
<1> QED BY <1>1, SoloInductive, DispatchInductive, PTL DEF Spec, NoExecutionAfterCompletion
-----------------------------------------------------------------------------
(* What the agent service is answered (Dispatching), with one worker. *)

\* A task nobody enqueued has no message, no cancellation and no execution; what
\* is executed is leased.
KnownInv ==
    /\ rec.status = "absent" =>
          /\ ~rec.cancelled /\ cancel.pc # "write"
          /\ \A c \in Caller : caller[c].pc # "send"
          /\ \A m \in Message : ~Sent(m)
          /\ \A w \in Worker : run[w].pc \in {"idle", "down"}
    /\ \A w \in Worker : run[w].pc \in Underway => rec.status = "leased"

\* The record moves as the service may see it.
RecordTells ==
    /\ rec.cancelled => rec'.cancelled
    /\ rec'.cancelled => rec.cancelled \/ rec.status # "absent"
    /\ \/ rec'.status = rec.status
       \/ rec.status = "absent" /\ rec'.status = "queued"
       \/ rec.status = "queued" /\ rec'.status \in {"leased", "quarantined"}
       \/ rec.status = "leased" /\ rec'.status \in {"failed", "cancelled", "quarantined"}
       \/ rec.status = "leased" /\ rec'.status = "completed" /\ ~rec'.cancelled

\* The calls of the server, the queue and time.
LEMMA ServerTells ==
    ASSUME IInv, KnownInv,
           \/ \E c \in Caller : \/ EnqueueCreate(c) \/ EnqueueSend(c)
                                \/ EnqueueReread(c) \/ EnqueueMark(c)
                                \/ EnqueueStops(c)
           \/ CancelRead \/ CancelWrite
           \/ \E m \in Message : BecomesVisible(m)
           \/ LeaseLapses
           \/ UNCHANGED vars
    PROVE  RecordTells /\ KnownInv'
<1>1. /\ rec \in Record /\ caller \in [Caller -> [pc: CallerPc, gen: Nat]]
      /\ queue \in [Message -> QueueMessage] /\ cancel \in [pc: CancelPc, gen: Nat, tries: Nat]
  BY DEF IInv, TypeOK, CallerPc, CancelPc
<1>2. RecordTells
  <2>1. CASE rec' = rec
    BY <2>1 DEF RecordTells
  <2>2. ASSUME NEW c \in Caller, EnqueueCreate(c) \/ EnqueueMark(c)
        PROVE  RecordTells
    BY <1>1, <2>2 DEF RecordTells, EnqueueCreate, EnqueueMark, Record
  <2>3. CASE CancelWrite
    BY <1>1, <2>3 DEF RecordTells, CancelWrite, KnownInv, Record
  <2>4. CASE LeaseLapses
    BY <1>1, <2>4 DEF RecordTells, LeaseLapses, Record
  <2> QED BY <2>1, <2>2, <2>3, <2>4 DEF EnqueueSend, EnqueueReread, EnqueueStops, CancelRead,
                                        BecomesVisible, vars
<1>3. run' = run
  BY DEF EnqueueCreate, EnqueueSend, EnqueueReread, EnqueueMark, EnqueueStops, CancelRead,
         CancelWrite, BecomesVisible, LeaseLapses, vars
<1>4. rec'.status = rec.status \/ (rec.status = "absent" /\ rec'.status = "queued")
  <2>1. CASE rec' = rec
    BY <2>1
  <2>2. ASSUME NEW c \in Caller, EnqueueCreate(c) \/ EnqueueMark(c)
        PROVE  rec'.status = rec.status \/ (rec.status = "absent" /\ rec'.status = "queued")
    BY <1>1, <2>2 DEF EnqueueCreate, EnqueueMark, Record
  <2>3. CASE CancelWrite \/ LeaseLapses
    BY <1>1, <2>3 DEF CancelWrite, LeaseLapses, Record
  <2> QED BY <2>1, <2>2, <2>3 DEF EnqueueSend, EnqueueReread, EnqueueStops, CancelRead,
                                  BecomesVisible, vars
<1>5. \A w \in Worker : run'[w].pc \in Underway => rec'.status = "leased"
  <2> SUFFICES ASSUME NEW w \in Worker, run[w].pc \in Underway PROVE rec.status = "leased"
    BY <1>3, <1>4
  <2> QED BY DEF KnownInv
<1>6. ASSUME rec'.status = "absent"
      PROVE  /\ ~rec'.cancelled /\ cancel'.pc # "write"
             /\ \A c \in Caller : caller'[c].pc # "send"
             /\ \A m \in Message : ~Sent(m)'
             /\ \A w \in Worker : run'[w].pc \in {"idle", "down"}
  <2>1. /\ rec.status = "absent"
        /\ ~rec.cancelled /\ cancel.pc # "write"
        /\ \A c \in Caller : caller[c].pc # "send"
        /\ \A m \in Message : queue[m].state = "unsent"
        /\ \A w \in Worker : run[w].pc \in {"idle", "down"}
    BY <1>4, <1>6 DEF KnownInv, Sent
  <2>2. queue' = queue
    BY <2>1 DEF EnqueueCreate, EnqueueSend, EnqueueReread, EnqueueMark, EnqueueStops, CancelRead,
         CancelWrite, BecomesVisible, LeaseLapses, vars
  <2>3. cancel' = cancel
    BY <2>1 DEF EnqueueCreate, EnqueueSend, EnqueueReread, EnqueueMark, EnqueueStops, CancelRead,
         CancelWrite, BecomesVisible, LeaseLapses, vars, server
  <2>4. ~rec'.cancelled
    BY <1>2, <2>1, <1>1, <1>6 DEF EnqueueCreate, EnqueueSend, EnqueueReread, EnqueueMark,
         EnqueueStops, CancelRead, CancelWrite, BecomesVisible, LeaseLapses, vars, Record
  <2>5. ASSUME NEW c \in Caller PROVE caller'[c].pc # "send"
    <3>1. caller' = caller \/ \E d \in Caller : EnqueueCreate(d) \/ EnqueueReread(d)
                                                \/ EnqueueMark(d) \/ EnqueueStops(d)
      BY <2>1 DEF EnqueueSend, CancelRead, CancelWrite, BecomesVisible, LeaseLapses, vars,
                  server
    <3>2. ASSUME NEW d \in Caller, EnqueueReread(d) \/ EnqueueMark(d) \/ EnqueueStops(d)
          PROVE  caller'[c].pc # "send"
      BY <1>1, <2>1, <3>2 DEF EnqueueReread, EnqueueMark, EnqueueStops
    <3>3. ASSUME NEW d \in Caller, EnqueueCreate(d) PROVE FALSE
      BY <1>1, <1>6, <2>1, <3>3 DEF EnqueueCreate, Record
    <3> QED BY <2>1, <3>1, <3>2, <3>3
  <2>6. \A m \in Message : ~Sent(m)'
    BY <2>1, <2>2 DEF Sent
  <2> QED BY <1>3, <2>1, <2>3, <2>4, <2>5, <2>6
<1> QED BY <1>2, <1>5, <1>6 DEF KnownInv

\* The steps of the worker that leave the status alone.
LEMMA WorkTells ==
    ASSUME Alone, IInv, KnownInv, NEW w \in Worker,
           \/ Receive(w) \/ ReadRecord(w) \/ SendPoison(w) \/ Observe(w) \/ Finish(w)
           \/ Drain(w) \/ Beats(w) \/ BeatStart(w) \/ Restart(w) \/ Crash(w)
           \/ Discard(w) \/ Ack(w)
    PROVE  RecordTells /\ KnownInv'
<1>1. /\ rec \in Record /\ run \in [Worker -> Run] /\ run[w] \in Run
      /\ queue \in [Message -> QueueMessage]
  BY DEF IInv, TypeOK
<1>2. rec'.status = rec.status /\ rec'.cancelled = rec.cancelled
  BY <1>1 DEF Record, Receive, ReadRecord, SendPoison, Observe, Finish, Drain, Beats,
              BeatObserve, BeatUpdate, BeatSave, BeatStart, Restart, Crash, Discard, Ack
<1>3. caller' = caller /\ cancel' = cancel
  BY DEF Receive, ReadRecord, SendPoison, Observe, Finish, Drain, Beats, server,
         BeatObserve, BeatUpdate, BeatSave, BeatStart, Restart, Crash, Discard, Ack
<1>4. \A v \in Worker : v = w
  BY DEF Alone
<1>5. Idle.pc = "idle" /\ Down.pc = "down"
  BY DEF Idle, Down
<1>6. run'[w].pc \in Underway => rec.status = "leased"
  <2>1. CASE Observe(w)
    <3>1. rec.status \notin {"absent", "queued"}
      BY <2>1 DEF Observe, IInv, UnclaimedInv, Before
    <3>2. CASE IsTerminal
      BY <1>1, <1>5, <2>1, <3>2 DEF Observe, GoIdle, Underway
    <3>3. CASE ~IsTerminal
      BY <1>1, <3>1, <3>3 DEF IsTerminal, Record, Status
    <3> QED BY <3>2, <3>3
  <2>2. CASE Finish(w) \/ Drain(w)
    BY <2>2 DEF Finish, Drain, KnownInv, Underway
  <2>3. CASE Beats(w)
    <3>1. run'[w].pc = run[w].pc \/ run[w].pc = "running"
      BY <1>1, <2>3 DEF Beats, BeatObserve, BeatUpdate, BeatSave, BeatFails, Ends, Run
    <3> QED BY <3>1 DEF KnownInv, Underway
  <2>4. CASE BeatStart(w)
    BY <2>4 DEF BeatStart, KnownInv
  <2>5. CASE Receive(w) \/ Restart(w) \/ Crash(w) \/ SendPoison(w)
    <3>1. run'[w].pc \in {"received", "idle", "down", "quarantine"}
      <4>1. CASE Receive(w)
        BY <1>1, <4>1 DEF Receive, Idle
      <4>2. CASE SendPoison(w)
        BY <1>1, <4>2 DEF SendPoison, Goto
      <4>3. CASE Restart(w)
        BY <1>1, <1>5, <4>3 DEF Restart, GoIdle
      <4>4. CASE Crash(w)
        BY <1>1, <1>5, <4>4 DEF Crash
      <4> QED BY <2>5, <4>1, <4>2, <4>3, <4>4
    <3> QED BY <3>1 DEF Underway
  <2>6. CASE Discard(w) \/ Ack(w)
    <3>1. run'[w].pc \in {"idle", "leased", "down"}
      <4>1. CASE Discard(w)
        <5>1. GoIdle(w) \/ Goto(w, "leased") \/ Throw(w)
          BY <4>1 DEF Discard
        <5>2. CASE GoIdle(w) \/ Throw(w)
          BY <1>1, <1>5, <5>2 DEF GoIdle, Throw
        <5>3. CASE Goto(w, "leased")
          BY <1>1, <5>3 DEF Goto, Run
        <5> QED BY <5>1, <5>2, <5>3
      <4>2. CASE Ack(w)
        BY <1>1, <1>5, <4>2 DEF Ack, GoIdle, Throw
      <4> QED BY <2>6, <4>1, <4>2
    <3> QED BY <3>1 DEF Underway
  <2>7. CASE ReadRecord(w)
    <3>1. run'[w].pc = AfterRead(w)
      BY <1>1, <2>7 DEF ReadRecord
    <3>2. AfterRead(w) \in {"claim", "poison", "discardTerminal", "discard"}
      BY DEF AfterRead
    <3> QED BY <3>1, <3>2 DEF Underway
  <2> QED BY <2>1, <2>2, <2>3, <2>4, <2>5, <2>6, <2>7
<1>7. ASSUME rec.status = "absent"
      PROVE  /\ \A m \in Message : ~Sent(m)'
             /\ run'[w].pc \in {"idle", "down"}
  <2>1. /\ \A m \in Message : queue[m].state = "unsent"
        /\ run[w].pc \in {"idle", "down"}
    BY <1>7 DEF KnownInv, Sent
  <2>2. CASE Restart(w) \/ Crash(w)
    BY <1>1, <1>5, <2>1, <2>2 DEF Restart, Crash, GoIdle, Sent
  <2>3. CASE Beats(w)
    <3>1. queue' = queue
      <4>1. \A m \in Message : ~InQueue(m)
        BY <2>1 DEF InQueue
      <4>2. beat[w].pc # "off" => beat[w].msg \in Message
        BY DEF IInv, PoisonInv
      <4> QED BY <2>3, <4>1, <4>2 DEF Beats, BeatObserve, BeatUpdate, BeatSave, Accepts
    <3>2. run'[w].pc = run[w].pc
      BY <1>1, <2>1, <2>3 DEF Beats, BeatObserve, BeatUpdate, BeatSave, BeatFails
    <3> QED BY <2>1, <3>1, <3>2 DEF Sent
  <2> QED BY <2>1, <2>2, <2>3
          DEF Receive, ReadRecord, SendPoison, Observe, Finish, Drain, BeatStart, Discard, Ack
<1>8. RecordTells
  BY <1>2 DEF RecordTells
<1> QED BY <1>2, <1>3, <1>4, <1>6, <1>7, <1>8 DEF KnownInv

\* A lone worker claims, settles or quarantines a task nobody settled before.
LEMMA SettleTells ==
    ASSUME Alone, IInv, SoloInv, KnownInv, NEW w \in Worker,
           Claim(w) \/ Settle(w) \/ Quarantine(w)
    PROVE  RecordTells /\ KnownInv'
<1>1. rec \in Record /\ run \in [Worker -> Run] /\ run[w] \in Run
  BY DEF IInv, TypeOK
<1>2. \A v \in Worker : v = w
  BY DEF Alone
<1>3. rec.status # "absent"
  BY DEF KnownInv, Claim, Settle, Quarantine
<1>4. CASE rec' = rec /\ run'[w].pc \in {"down", "discard"}
  BY <1>2, <1>3, <1>4 DEF RecordTells, KnownInv, Underway
<1>5. CASE Throw(w) /\ rec' = rec
  BY <1>1, <1>4, <1>5 DEF Throw, Down
<1>6. CASE Claim(w)
  <2>1. ~IsTerminal /\ run[w].gen = rec.gen
    BY <1>6 DEF Claim, SoloInv
  <2>2. rec.status \in {"queued", "leased"}
    BY <1>1, <1>3, <2>1 DEF IsTerminal, Record, Status
  <2>3. CASE /\ rec' = [rec EXCEPT !.status = "leased", !.count = run[w].count,
                                   !.gen = @ + 1, !.msg = run[w].msg, !.expiry = "live"]
             /\ run' = [run EXCEPT ![w].pc = "leased", ![w].gen = rec.gen + 1]
    <3>1. rec'.status = "leased" /\ rec'.cancelled = rec.cancelled
      BY <1>1, <2>3 DEF Record
    <3> QED BY <1>3, <2>2, <3>1 DEF RecordTells, KnownInv
  <2> QED BY <1>5, <1>6, <2>1, <2>3 DEF Claim
<1>7. CASE Settle(w)
  <2>1. rec.status = "leased"
    BY <1>7 DEF Settle, KnownInv, Underway
  <2>2. CASE ~Refused(w) /\ rec' = [Settled(w) EXCEPT !.expiry = "none"] /\ Goto(w, "acking")
    <3>1. run'[w].pc = "acking"
      BY <1>1, <2>2 DEF Goto
    <3>2. CASE run[w].pc = "completing"
      <4>1. rec'.status = "completed" /\ rec'.cancelled = rec.cancelled
        BY <1>1, <2>2, <3>2 DEF Settled, Record
      <4>2. ~rec.cancelled
        BY <2>2, <3>2 DEF Refused
      <4> QED BY <1>2, <2>1, <3>1, <4>1, <4>2 DEF RecordTells, KnownInv, Underway
    <3>3. CASE run[w].pc = "failing"
      <4>1. rec'.status = "failed" /\ rec'.cancelled = rec.cancelled
        BY <1>1, <2>2, <3>3 DEF Settled, Record
      <4> QED BY <1>2, <2>1, <3>1, <4>1 DEF RecordTells, KnownInv, Underway
    <3>4. CASE run[w].pc = "cancelling"
      <4>1. rec'.status = "cancelled" /\ rec'.cancelled
        BY <1>1, <2>2, <3>4 DEF Settled, Record
      <4> QED BY <1>2, <2>1, <3>1, <4>1 DEF RecordTells, KnownInv, Underway
    <3> QED BY <1>7, <3>2, <3>3, <3>4 DEF Settle
  <2> QED BY <1>5, <1>7, <2>2 DEF Settle
<1>8. CASE Quarantine(w)
  <2>1. ~IsTerminal
    BY <1>8 DEF Quarantine, SoloInv
  <2>2. rec.status \in {"queued", "leased"}
    BY <1>1, <1>3, <2>1 DEF IsTerminal, Record, Status
  <2>3. CASE /\ rec' = [rec EXCEPT !.status = "quarantined", !.expiry = "none"]
             /\ Goto(w, "discard")
    <3>1. /\ rec'.status = "quarantined" /\ rec'.cancelled = rec.cancelled
          /\ run'[w].pc = "discard"
      BY <1>1, <2>3 DEF Record, Goto
    <3> QED BY <1>2, <1>3, <2>2, <3>1 DEF RecordTells, KnownInv, Underway
  <2> QED BY <1>5, <1>8, <2>3 DEF Quarantine
<1> QED BY <1>6, <1>7, <1>8

LEMMA NextTells ==
    ASSUME Alone, IInv, SoloInv, KnownInv, [Next]_vars
    PROVE  RecordTells /\ KnownInv'
BY ServerTells, WorkTells, SettleTells DEF Next, Leases, Executes

\* A record that moves so answers as the contract says.
LEMMA TellsNext ==
    ASSUME rec \in Record, rec' \in Record, RecordTells
    PROVE  Service!Next
<1> DEFINE task == [j \in {"task"} |-> Answered]
           asked == {j \in {"task"} : rec.cancelled}
<1>1. task' = [j \in {"task"} |-> Answered'] /\ asked' = {j \in {"task"} : rec'.cancelled}
  OBVIOUS
<1>2. Answered \in Service!Status /\ Answered' \in Service!Status
  BY DEF Answered, Record, Status, Terminal, Service!Status
<1>3. task' \in [{"task"} -> Service!Status]
  BY <1>1, <1>2
<1>4. asked \subseteq asked' /\ \A j \in asked' \ asked : j \in {"task"} /\ task[j] # "none"
  BY DEF RecordTells, Answered, Record, Status, Terminal
<1>5. Service!Moves("task")
  <2>1. task["task"] = Answered /\ task'["task"] = Answered'
    OBVIOUS
  <2>2. "task" \in asked' <=> rec'.cancelled
    OBVIOUS
  <2>3. \/ Answered' = Answered
        \/ Answered = "none" /\ Answered' = "queued"
        \/ Answered' \in Service!After(Answered, "task" \in asked')
    BY <2>2 DEF RecordTells, Answered, Record, Status, Terminal, Service!After
  <2> QED BY <2>1, <2>3 DEF Service!Moves
<1> QED BY <1>3, <1>4, <1>5 DEF Service!Next

\* One worker answers the agent service by the rules it relies on, whatever
\* message is sent twice, delivered late or lost by a crash.  A second worker may
\* take a settled task up again (run dispatch_completed_twice).
THEOREM LoneWorkerDispatches ==
    ASSUME Alone
    PROVE  Spec => ImplementsDispatching
<1>1. Init => KnownInv /\ Service!Init
  BY DEF Init, KnownInv, Sent, Idle, Underway, Answered, Service!Init
<1>2. IInv /\ SoloInv /\ KnownInv /\ [Next]_vars => KnownInv'
  BY NextTells
<1>3. IInv /\ IInv' /\ SoloInv /\ KnownInv /\ [Next]_vars
        => [Service!Next]_(Service!dispatchingVars)
  BY NextTells, TellsNext DEF IInv, TypeOK
<1> QED
  BY <1>1, <1>2, <1>3, SoloInductive, DispatchInductive, PTL
     DEF Spec, ImplementsDispatching, Service!Spec
=============================================================================
