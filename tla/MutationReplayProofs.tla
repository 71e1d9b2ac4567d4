------------------------ MODULE MutationReplayProofs ------------------------
(***************************************************************************)
(* Theorems about MutationReplay for every set of keys and requests, any   *)
(* MAX_RECORDS and any number of failed writes, crashes and effects.       *)
(*                                                                         *)
(* AnsweredOnce needs an invariant with four parts: the head of the chain  *)
(* is the execution whose write is awaited (WritingInv), an execution has  *)
(* its promise in the map, so that no second one starts (FlightInv), a     *)
(* failed write goes back to what the file holds (StoredInv), the record   *)
(* of an execution past its reservation is its own while it is fresh       *)
(* (BoundInv).  Then the record of an answered or lost request stands in   *)
(* the memory and in the file, under that request (AnswerInv).             *)
(***************************************************************************)
EXTENDS MutationReplay, TLAPS

\* The type of an execution, by name.
ExecType == [at : Stage, fingerprint : Fingerprint, did : BOOLEAN] \cup {NoExec}

\* The stages of an execution whose mutation is being written.
Writes == {"reserve", "replaying", "record", "cleanup"}

\* While a write is awaited, its execution is at the head of the chain.
WritingInv == writing => up /\ chain # <<>> /\ exec[Head(chain)].at \in Writes

\* The records the store makes.
LEMMA RecordValues ==
    /\ NoRecord \in Record
    /\ \A r \in Record : [r EXCEPT !.old = TRUE] \in Record \/ r = NoRecord
    /\ \A f \in Fingerprint : /\ NewRecord("pending", f) \in Record
                              /\ NewRecord("completed", f) \in Record
    /\ \A r \in Record : r # NoRecord => r.fingerprint \in Fingerprint
  BY DEF Record, NoRecord, NewRecord

\* An execution at a stage has a request; one that ended is NoExec.
LEMMA ExecValues ==
    /\ NoExec \in ExecType /\ NoExec.at = "idle"
    /\ \A f \in Fingerprint : [at |-> "reserve", fingerprint |-> f, did |-> FALSE] \in ExecType
    /\ \A e \in ExecType : /\ e.at # "idle" => e.at \in Stage /\ e.fingerprint \in Fingerprint
                           /\ e.at = "idle" => e = NoExec
  BY DEF ExecType, NoExec, Stage

\* What the assignments to the fields of an execution change.
LEMMA ExecUpdates ==
    ASSUME NEW e \in ExecType, e.at # "idle", NEW s \in Stage
    PROVE  /\ [e EXCEPT !.did = TRUE] \in ExecType
           /\ [e EXCEPT !.did = TRUE].at = e.at
           /\ [e EXCEPT !.did = TRUE].fingerprint = e.fingerprint
           /\ [e EXCEPT !.at = s] \in ExecType
           /\ [e EXCEPT !.at = s].at = s
           /\ [e EXCEPT !.at = s].fingerprint = e.fingerprint
  <1>1. e \in [at : Stage, fingerprint : Fingerprint, did : BOOLEAN]
    BY DEF ExecType, NoExec
  <1>2. [e EXCEPT !.did = TRUE] \in [at : Stage, fingerprint : Fingerprint, did : BOOLEAN]
    BY <1>1
  <1>3. [e EXCEPT !.at = s] \in [at : Stage, fingerprint : Fingerprint, did : BOOLEAN]
    BY <1>1
  <1> QED BY <1>1, <1>2, <1>3 DEF ExecType

\* What can be known of a request.
LEMMA KnowledgeValues ==
    /\ Open \in Knowledge
    /\ \A f \in Fingerprint : /\ [is |-> "done", of |-> f] \in Knowledge
                              /\ [is |-> "answered", of |-> f] \in Knowledge
                              /\ [is |-> "lost", of |-> f] \in Knowledge
  BY DEF Knowledge, Open

\* Moving the execution of one key to another stage.
LEMMA MoveExec ==
    ASSUME exec \in [Key -> ExecType], NEW k \in Key, exec[k].at # "idle", NEW s \in Stage
    PROVE  /\ [exec EXCEPT ![k].at = s] \in [Key -> ExecType]
           /\ [exec EXCEPT ![k].at = s][k].at = s
           /\ [exec EXCEPT ![k].at = s][k].fingerprint = exec[k].fingerprint
           /\ \A j \in Key : j # k => [exec EXCEPT ![k].at = s][j] = exec[j]
  BY ExecUpdates

\* pruneExpired drops the expired records and no other.
LEMMA PrunedType ==
    ASSUME NEW state \in [Key -> Record]
    PROVE  /\ Pruned(state) \in [Key -> Record]
           /\ \A k \in Key : Fresh(state[k]) <=> Pruned(state)[k] # NoRecord
           /\ \A k \in Key : Fresh(state[k]) => Pruned(state)[k] = state[k]
           /\ \A k \in Key : Pruned(state)[k] # NoRecord => Fresh(Pruned(state)[k])
  BY RecordValues DEF Pruned, Fresh, NoRecord

\* The passing of ttlMs expires one record.
LEMMA AgedType ==
    ASSUME NEW state \in [Key -> Record], NEW k \in Key
    PROVE  /\ Aged(state, k) \in [Key -> Record]
           /\ ~Fresh(Aged(state, k)[k])
           /\ \A j \in Key : j # k => Aged(state, k)[j] = state[j]
  <1>1. CASE state[k] = NoRecord BY <1>1, RecordValues DEF Aged, Fresh
  <1>2. CASE state[k] # NoRecord
    <2>1. Aged(state, k) = [state EXCEPT ![k].old = TRUE] BY <1>2 DEF Aged
    <2>2. [state[k] EXCEPT !.old = TRUE] \in Record BY <1>2, RecordValues
    <2>3. [state[k] EXCEPT !.old = TRUE].old = TRUE BY <1>2 DEF Record
    <2>4. QED BY <2>1, <2>2, <2>3 DEF Fresh
  <1> QED BY <1>1, <1>2

\* TypeOK with the type of an execution by name.
Typed == /\ records \in [Key -> Record]
         /\ disk \in [Key -> Record]
         /\ saved \in [Key -> Record]
         /\ chain \in Seq(Key)
         /\ writing \in BOOLEAN
         /\ exec \in [Key -> ExecType]
         /\ inFlight \in [Key -> Fingerprint \cup {None}]
         /\ up \in BOOLEAN
         /\ effects \in [Key -> 0..MaxEffects]
         /\ settled \in [Key -> Knowledge]
         /\ failures \in 0..MaxFailures
         /\ crashes \in 0..MaxCrashes

\* The two type invariants are one.
LEMMA TypedIsTypeOK == Typed <=> TypeOK
  BY DEF Typed, TypeOK, ExecType

\* What an execution makes known is well typed.
LEMMA KnownType ==
    ASSUME NEW k \in Key, NEW what \in {"done", "answered", "lost"},
           exec[k] \in ExecType, exec[k].at # "idle"
    PROVE  Known(k, what) \in Knowledge
  BY ExecValues, KnowledgeValues DEF Known

\* The three mutations of enqueueMutation keep the types.
LEMMA MutateType ==
    ASSUME Typed, Mutate
    PROVE  Typed'
  <1> DEFINE k == Head(chain)
             f == exec[k].fingerprint
  <1>1. k \in Key /\ Tail(chain) \in Seq(Key) /\ Append(Tail(chain), k) \in Seq(Key)
    BY DEF Typed, Mutate
  <1>2. exec[k].at # "idle" BY DEF Mutate
  <1>3. f \in Fingerprint BY <1>1, <1>2, ExecValues DEF Typed
  <1>4. \A s \in Stage : [exec EXCEPT ![k].at = s] \in [Key -> ExecType]
    BY <1>1, <1>2, MoveExec DEF Typed
  <1>5. [exec EXCEPT ![k] = NoExec] \in [Key -> ExecType] BY <1>1, ExecValues DEF Typed
  <1>6. Pruned(records) \in [Key -> Record] BY PrunedType DEF Typed
  <1>7. /\ \A s \in {NewRecord("pending", f), NoRecord, NewRecord("completed", f)} : s \in Record
    BY <1>3, RecordValues
  <1>8. \/ MutateReserve(k, f) \/ MutateRecord(k, f) \/ MutateCleanup(k, f)
    BY DEF Mutate
  <1>9. \A state \in [Key -> Record], s \in Stage :
           Write(state, k, s) => Typed'
    BY <1>4 DEF Mutate, Write, Typed
  <1> HIDE DEF k, f
  <1>10. {"reserve", "replaying", "record", "cleanup"} \subseteq Stage BY DEF Stage
  <1>11. CASE MutateReserve(k, f)
    <2>1. [Pruned(records) EXCEPT ![k] = NewRecord("pending", f)] \in [Key -> Record]
      BY <1>1, <1>6, <1>7
    <2>2. CASE Abort /\ EndEarly(k) BY <2>2, <1>1, <1>5 DEF Abort, EndEarly, Typed, Mutate
    <2>3. QED BY <1>6, <1>9, <1>10, <1>11, <2>1, <2>2 DEF MutateReserve
  <1>12. CASE MutateRecord(k, f)
    <2>1. [records EXCEPT ![k] = NewRecord("completed", f)] \in [Key -> Record]
      BY <1>1, <1>7 DEF Typed
    <2>2. CASE ~Reserved(k, f)
      BY <1>1, <1>4, <1>10, <1>12, <2>2 DEF MutateRecord, Typed, Mutate
    <2>3. QED BY <1>9, <1>10, <1>12, <2>1, <2>2 DEF MutateRecord
  <1>13. CASE MutateCleanup(k, f)
    <2>1. (IF Reserved(k, f) THEN [records EXCEPT ![k] = NoRecord] ELSE records)
             \in [Key -> Record]
      BY <1>1, <1>7 DEF Typed
    <2>2. QED BY <1>9, <1>10, <1>13, <2>1 DEF MutateCleanup
  <1> QED BY <1>8, <1>11, <1>12, <1>13

\* The end of a write keeps the types.
LEMMA WriteOkType ==
    ASSUME Typed, WritingInv, WriteOk
    PROVE  Typed'
  <1> DEFINE k == Head(chain)
  <1>1. k \in Key /\ Tail(chain) \in Seq(Key) BY DEF Typed, WriteOk, WritingInv
  <1>2. exec[k].at \in Writes BY DEF WriteOk, WritingInv
  <1>3. [exec EXCEPT ![k] = NoExec] \in [Key -> ExecType] BY <1>1, ExecValues DEF Typed
  <1>4. Known(k, "answered") \in Knowledge BY <1>1, <1>2, KnownType DEF Typed, Writes
  <1>5. [exec EXCEPT ![k].at = "operation"] \in [Key -> ExecType]
    BY <1>1, <1>2, MoveExec DEF Typed, Stage, Writes
  <1>6. AfterWrite(k) BY DEF WriteOk
  <1> HIDE DEF k
  <1>7. exec' \in [Key -> ExecType] /\ settled' \in [Key -> Knowledge]
           /\ inFlight' \in [Key -> Fingerprint \cup {None}]
    BY <1>1, <1>2, <1>3, <1>4, <1>5, <1>6 DEF AfterWrite, End, EndEarly, Typed, Writes
  <1> QED BY <1>1, <1>7 DEF WriteOk, Typed, k

\* The failure of a write keeps the types.
LEMMA WriteFailType ==
    ASSUME Typed, WritingInv, WriteFail
    PROVE  Typed'
  <1> DEFINE k == Head(chain)
  <1>1. k \in Key /\ Tail(chain) \in Seq(Key) /\ Append(Tail(chain), k) \in Seq(Key)
    BY DEF Typed, WriteFail, WritingInv
  <1>2. exec[k].at \in Writes BY DEF WriteFail, WritingInv
  <1>3. [exec EXCEPT ![k] = NoExec] \in [Key -> ExecType] BY <1>1, ExecValues DEF Typed
  <1>5. [exec EXCEPT ![k].at = "cleanup"] \in [Key -> ExecType]
    BY <1>1, <1>2, MoveExec DEF Typed, Stage, Writes
  <1>6. AfterFailedWrite(k) BY DEF WriteFail
  <1> HIDE DEF k
  <1>7. exec' \in [Key -> ExecType] /\ chain' \in Seq(Key)
           /\ inFlight' \in [Key -> Fingerprint \cup {None}]
    BY <1>1, <1>2, <1>3, <1>5, <1>6 DEF AfterFailedWrite, End, EndEarly, Typed, Writes
  <1>8. failures' \in 0..MaxFailures BY BoundsAssumption DEF WriteFail, Typed
  <1>9. records' = saved /\ writing' = FALSE /\ UNCHANGED <<disk, saved, up, effects, settled, crashes>>
    BY DEF WriteFail
  <1> QED BY <1>7, <1>8, <1>9 DEF Typed

\* Every step keeps the types.
LEMMA TypeStep ==
    ASSUME Typed, WritingInv, [Next]_vars
    PROVE  Typed'
  <1> USE BoundsAssumption
  <1>1. ASSUME NEW k \in Key, NEW f \in Fingerprint, Execute(k, f) PROVE Typed'
    BY <1>1, ExecValues DEF Execute, Typed
  <1>2. ASSUME NEW k \in Key, Effect(k) PROVE Typed'
    <2>1. [exec EXCEPT ![k].did = TRUE] \in [Key -> ExecType]
      BY <1>2, ExecUpdates DEF Effect, Typed, Stage
    <2>2. QED BY <1>2, <2>1 DEF Effect, Typed
  <1>3. ASSUME NEW k \in Key, OperationReturns(k) \/ OperationThrows(k) PROVE Typed'
    <2>1. exec[k].at # "idle" BY <1>3 DEF OperationReturns, OperationThrows
    <2>2. \A s \in Stage : [exec EXCEPT ![k].at = s] \in [Key -> ExecType]
      BY <2>1, MoveExec DEF Typed
    <2>3. Known(k, "done") \in Knowledge BY <2>1, KnownType DEF Typed
    <2>4. CASE OperationReturns(k)
      BY <2>2, <2>3, <2>4 DEF OperationReturns, EnqueueStage, Typed, Stage
    <2>5. CASE OperationThrows(k)
      BY <2>2, <2>5 DEF OperationThrows, EnqueueStage, Typed, Stage
    <2>6. QED BY <1>3, <2>4, <2>5
  <1>4. ASSUME NEW k \in Key, Expire(k) PROVE Typed'
    BY <1>4, AgedType, KnowledgeValues DEF Expire, Typed
  <1>5. CASE Mutate BY <1>5, MutateType
  <1>6. CASE WriteOk BY <1>6, WriteOkType
  <1>7. CASE WriteFail BY <1>7, WriteFailType
  <1>8. CASE Crash
    <2>1. \A k \in Key : \A file \in {disk, records} : Forgotten(k, file) \in Knowledge
      <3> SUFFICES ASSUME NEW k \in Key, NEW file \in {disk, records}
                   PROVE  Forgotten(k, file) \in Knowledge
        OBVIOUS
      <3>1. exec[k].at \in {"operation", "record"} => exec[k].fingerprint \in Fingerprint
        BY ExecValues DEF Typed
      <3>2. CASE exec[k].at \notin {"operation", "record"} BY <3>2 DEF Forgotten, Typed
      <3>3. CASE exec[k].at \in {"operation", "record"} /\ Fresh(file[k])
        BY <3>1, <3>3, KnowledgeValues DEF Forgotten
      <3>4. CASE exec[k].at \in {"operation", "record"} /\ ~Fresh(file[k])
        BY <3>4, KnowledgeValues DEF Forgotten
      <3>5. QED BY <3>2, <3>3, <3>4
    <2>2. disk' \in {disk, records} /\ settled' \in [Key -> Knowledge]
      BY <1>8, <2>1 DEF Crash
    <2>3. crashes' \in 0..MaxCrashes BY <1>8 DEF Crash, Typed
    <2>4. exec' \in [Key -> ExecType] BY <1>8, ExecValues DEF Crash
    <2>5. inFlight' \in [Key -> Fingerprint \cup {None}] /\ chain' \in Seq(Key) BY <1>8 DEF Crash
    <2>6. writing' \in BOOLEAN /\ up' \in BOOLEAN BY <1>8 DEF Crash
    <2>7. UNCHANGED <<records, saved, effects, failures>> BY <1>8 DEF Crash
    <2>8. QED BY <2>2, <2>3, <2>4, <2>5, <2>6, <2>7 DEF Typed
  <1>9. CASE Initialize BY <1>9, PrunedType DEF Initialize, Typed
  <1>10. CASE UNCHANGED vars BY <1>10 DEF vars, Typed
  <1> QED BY <1>1, <1>2, <1>3, <1>4, <1>5, <1>6, <1>7, <1>8, <1>9, <1>10 DEF Next

\* The promise of an execution is in the map until it ends.
FlightInv == \A k \in Key : exec[k].at # "idle" => inFlight[k] # None

\* What a failed write goes back to is what the file holds.
StoredInv == up => IF writing THEN saved = disk ELSE records = disk

\* While a write is awaited its execution stays at the head of the chain, and a
\* key has one execution at a time.
LEMMA WritingStep ==
    ASSUME Typed, WritingInv, FlightInv, [Next]_vars
    PROVE  WritingInv' /\ FlightInv'
  <1> USE DEF WritingInv, FlightInv, Typed
  <1>1. ASSUME NEW k \in Key, NEW f \in Fingerprint, Execute(k, f)
        PROVE  WritingInv' /\ FlightInv'
    <2>1. writing => Head(chain') = Head(chain) BY <1>1 DEF Execute
    <2>2. QED BY <1>1, <2>1, NoneAssumption DEF Execute, Writes
  <1>2. ASSUME NEW k \in Key, Effect(k)
        PROVE  WritingInv' /\ FlightInv'
    <2>0. exec[k] \in ExecType /\ exec[k].at # "idle" BY <1>2 DEF Effect
    <2>1. \A j \in Key : exec'[j].at = exec[j].at
      <3>1. [exec[k] EXCEPT !.did = TRUE].at = exec[k].at BY <2>0, ExecUpdates DEF Stage
      <3>2. QED BY <1>2, <3>1 DEF Effect
    <2>2. QED BY <1>2, <2>1 DEF Effect
  <1>3. ASSUME NEW k \in Key, OperationReturns(k) \/ OperationThrows(k)
        PROVE  WritingInv' /\ FlightInv'
    <2>1. exec[k].at = "operation" BY <1>3 DEF OperationReturns, OperationThrows
    <2>2. \A j \in Key : j # k => exec'[j] = exec[j]
      BY <1>3 DEF OperationReturns, OperationThrows, EnqueueStage
    <2>3. writing => Head(chain') = Head(chain) /\ Head(chain) \in Key /\ chain' # <<>>
      <3>1. chain' = Append(chain, k)
        BY <1>3 DEF OperationReturns, OperationThrows, EnqueueStage
      <3>2. QED BY <3>1
    <2>4. up /\ up' = up /\ writing' = writing /\ inFlight' = inFlight
      BY <1>3 DEF OperationReturns, OperationThrows
    <2>5. WritingInv' BY <2>1, <2>2, <2>3, <2>4 DEF Writes
    <2>6. FlightInv' BY <2>1, <2>2, <2>4
    <2>7. QED BY <2>5, <2>6
  <1>4. ASSUME NEW k \in Key, Expire(k)
        PROVE  WritingInv' /\ FlightInv'
    BY <1>4 DEF Expire
  <1>5. CASE Mutate
    <2> DEFINE k == Head(chain)
               f == exec[k].fingerprint
    <2>1. k \in Key /\ exec[k].at \in Stage BY <1>5 DEF Mutate, Stage
    <2>2. MutateReserve(k, f) \/ MutateRecord(k, f) \/ MutateCleanup(k, f)
      BY <1>5 DEF Mutate
    <2>3. ASSUME NEW state, NEW s \in Writes, Write(state, k, s)
          PROVE  WritingInv' /\ FlightInv'
      <3>1. s \in Stage BY DEF Writes, Stage
      <3>2. exec'[k].at = s /\ \A j \in Key : j # k => exec'[j] = exec[j]
        BY <2>1, <2>3, <3>1, MoveExec DEF Write, Stage
      <3>3. QED BY <1>5, <2>1, <2>3, <3>2 DEF Write, Mutate, Stage
    <2>4. CASE Abort /\ EndEarly(k)
      BY <1>5, <2>1, <2>4, ExecValues DEF Abort, EndEarly, Mutate
    <2>5. CASE MutateRecord(k, f) /\ ~Reserved(k, f)
      <3>1. exec' = [exec EXCEPT ![k].at = "cleanup"] /\ ~writing /\ writing' = FALSE
               /\ inFlight' = inFlight
        BY <1>5, <2>5 DEF MutateRecord, Mutate
      <3>2. \A j \in Key : exec'[j].at # "idle" => exec[j].at # "idle"
        BY <2>1, <3>1, MoveExec DEF Stage
      <3>3. QED BY <3>1, <3>2
    <2> HIDE DEF k, f
    <2>6. QED BY <2>2, <2>3, <2>4, <2>5
              DEF MutateReserve, MutateRecord, MutateCleanup, Writes
  <1>6. CASE WriteOk
    <2> DEFINE k == Head(chain)
    <2>1. k \in Key /\ exec[k].at \in Writes BY <1>6 DEF WriteOk
    <2>2. AfterWrite(k) BY <1>6 DEF WriteOk
    <2> HIDE DEF k
    <2>3. CASE exec[k].at = "reserve"
      <3>1. exec' = [exec EXCEPT ![k].at = "operation"] /\ inFlight' = inFlight
        BY <2>2, <2>3 DEF AfterWrite
      <3>2. \A j \in Key : exec'[j].at # "idle" => exec[j].at # "idle"
        BY <2>1, <2>3, <3>1, MoveExec DEF Stage
      <3>3. QED BY <1>6, <3>1, <3>2 DEF WriteOk
    <2>4. CASE exec[k].at # "reserve"
      BY <1>6, <2>1, <2>2, <2>4, ExecValues DEF AfterWrite, WriteOk, Writes, End, EndEarly
    <2>5. QED BY <2>3, <2>4
  <1>7. CASE WriteFail
    <2> DEFINE k == Head(chain)
    <2>1. k \in Key /\ exec[k].at \in Writes BY <1>7 DEF WriteFail
    <2>2. AfterFailedWrite(k) BY <1>7 DEF WriteFail
    <2> HIDE DEF k
    <2>3. CASE exec[k].at = "record"
      <3>1. exec' = [exec EXCEPT ![k].at = "cleanup"] /\ inFlight' = inFlight
        BY <2>2, <2>3 DEF AfterFailedWrite
      <3>2. \A j \in Key : exec'[j].at # "idle" => exec[j].at # "idle"
        BY <2>1, <2>3, <3>1, MoveExec DEF Stage
      <3>3. QED BY <1>7, <3>1, <3>2 DEF WriteFail
    <2>4. CASE exec[k].at # "record"
      BY <1>7, <2>1, <2>2, <2>4, ExecValues DEF AfterFailedWrite, WriteFail, Writes, End, EndEarly
    <2>5. QED BY <2>3, <2>4
  <1>8. CASE Crash BY <1>8, ExecValues DEF Crash
  <1>9. CASE Initialize BY <1>9 DEF Initialize
  <1>10. CASE UNCHANGED vars BY <1>10 DEF vars
  <1> QED BY <1>1, <1>2, <1>3, <1>4, <1>5, <1>6, <1>7, <1>8, <1>9, <1>10 DEF Next

\* The clone of enqueueMutation is the content of the file.
LEMMA StoredStep ==
    ASSUME WritingInv, StoredInv, [Next]_vars
    PROVE  StoredInv'
  <1> USE DEF StoredInv
  <1>1. ASSUME NEW k \in Key, NEW f \in Fingerprint,
               Execute(k, f)
        PROVE  StoredInv'
    <2>1. UNCHANGED <<records, disk, saved, writing, up>> BY <1>1 DEF Execute
    <2>2. QED BY <2>1
  <1>7. ASSUME NEW k \in Key, Effect(k) \/ OperationReturns(k) \/ OperationThrows(k)
        PROVE  StoredInv'
    <2>1. UNCHANGED <<records, disk, saved, writing, up>>
      BY <1>7 DEF Effect, OperationReturns, OperationThrows
    <2>2. QED BY <2>1
  <1>2. ASSUME NEW k \in Key, Expire(k) PROVE StoredInv'
    BY <1>2 DEF Expire
  <1>3. CASE Mutate
    <2>1. records = disk /\ disk' = disk BY <1>3 DEF Mutate
    <2>2. \/ saved' = records /\ writing' = TRUE
          \/ records' = records /\ writing' = writing
      BY <1>3 DEF Mutate, MutateReserve, MutateRecord, MutateCleanup, Write, Abort
    <2>3. QED BY <1>3, <2>1, <2>2 DEF Mutate
  <1>4. CASE WriteOk \/ WriteFail BY <1>4 DEF WriteOk, WriteFail
  <1>5. CASE Crash \/ Initialize BY <1>5 DEF Crash, Initialize, WritingInv
  <1>6. CASE UNCHANGED vars BY <1>6 DEF vars
  <1> QED BY <1>1, <1>2, <1>3, <1>4, <1>5, <1>6, <1>7 DEF Next

\* The record, while it is fresh, is of the request of the execution of k.
Follows(k, r) == Fresh(r) => r.fingerprint = exec[k].fingerprint

\* The record of k is bound to the execution of k from its reservation on.
BoundInv ==
    \A k \in Key :
        /\ exec[k].at \in {"operation", "record", "replaying"}
             => Follows(k, records[k]) /\ Follows(k, disk[k])
        /\ writing /\ k = Head(chain) /\ exec[k].at = "reserve"
             => ~Fresh(disk[k]) /\ Follows(k, records[k])

\* A fresh record of the request f.
Is(f, r) == Fresh(r) /\ r.fingerprint = f

\* The record of an answered or lost request is on the disk and in the memory,
\* and no execution for its key gets to the operation.
AnswerInv ==
    \A k \in Key :
        settled[k].is \in {"answered", "lost"}
          => /\ exec[k].at \in {"idle", "reserve", "replaying"}
             /\ Is(settled[k].of, disk[k])
             /\ up => Is(settled[k].of, records[k])

\* The inductive invariant.
IInv == /\ Typed
        /\ WritingInv
        /\ FlightInv
        /\ StoredInv
        /\ BoundInv
        /\ AnswerInv

\* A call starts an execution only where none is.
LEMMA CallStep ==
    ASSUME IInv, NEW k \in Key, NEW f \in Fingerprint, Execute(k, f)
    PROVE  BoundInv' /\ AnswerInv'
  <1>1. exec[k].at = "idle" BY DEF IInv, FlightInv, Execute
  <1>2. writing => Head(chain') = Head(chain) /\ Head(chain) # k
    BY <1>1 DEF IInv, WritingInv, Typed, Execute, Writes
  <1>3. exec'[k].at = "reserve" /\ \A j \in Key : j # k => exec'[j] = exec[j]
    BY DEF IInv, Typed, Execute
  <1>4. UNCHANGED <<records, disk, writing, settled, up>> BY DEF Execute
  <1>5. BoundInv' BY <1>2, <1>3, <1>4 DEF IInv, BoundInv, Follows
  <1>6. AnswerInv' BY <1>3, <1>4 DEF IInv, AnswerInv
  <1> QED BY <1>5, <1>6

\* What the operation does, and its end, concern a request that nobody was
\* answered yet.
LEMMA OperationStep ==
    ASSUME IInv, NEW k \in Key, Effect(k) \/ OperationReturns(k) \/ OperationThrows(k)
    PROVE  BoundInv' /\ AnswerInv'
  <1>1. exec[k].at = "operation" /\ exec[k] \in ExecType
    BY DEF IInv, Typed, Effect, OperationReturns, OperationThrows
  <1>2. /\ exec'[k].at \in {"operation", "record", "cleanup"}
        /\ exec'[k].fingerprint = exec[k].fingerprint
        /\ \A j \in Key : j # k => exec'[j] = exec[j]
    <2>1. CASE Effect(k)
      <3>1. exec' = [exec EXCEPT ![k].did = TRUE] BY <2>1 DEF Effect
      <3>2. /\ [exec[k] EXCEPT !.did = TRUE].at = exec[k].at
            /\ [exec[k] EXCEPT !.did = TRUE].fingerprint = exec[k].fingerprint
        BY <1>1, ExecUpdates DEF Stage
      <3>3. QED BY <1>1, <3>1, <3>2 DEF IInv, Typed
    <2>2. CASE OperationReturns(k)
      BY <1>1, <2>2, MoveExec DEF OperationReturns, EnqueueStage, IInv, Typed, Stage
    <2>3. CASE OperationThrows(k)
      BY <1>1, <2>3, MoveExec DEF OperationThrows, EnqueueStage, IInv, Typed, Stage
    <2>4. QED BY <2>1, <2>2, <2>3
  <1>3. writing => Head(chain') = Head(chain)
    <2>1. chain' = chain \/ chain' = Append(chain, k)
      BY DEF Effect, OperationReturns, OperationThrows, EnqueueStage
    <2>2. chain \in Seq(Key) /\ (writing => chain # <<>>) BY DEF IInv, Typed, WritingInv
    <2>3. QED BY <2>1, <2>2
  <1>4. UNCHANGED <<records, disk, writing, up>>
    BY DEF Effect, OperationReturns, OperationThrows
  <1>5. settled[k].is \notin {"answered", "lost"} BY <1>1 DEF IInv, AnswerInv
  <1>6. /\ settled'[k].is \notin {"answered", "lost"}
        /\ \A j \in Key : j # k => settled'[j] = settled[j]
    <2>1. Known(k, "done").is \in {"done", "open"} BY DEF Known, Open
    <2>2. QED BY <1>5, <2>1 DEF Effect, OperationReturns, OperationThrows, IInv, Typed
  <1>7. BoundInv' BY <1>1, <1>2, <1>3, <1>4 DEF IInv, BoundInv, Follows
  <1>8. AnswerInv' BY <1>2, <1>4, <1>6 DEF IInv, AnswerInv
  <1> QED BY <1>7, <1>8

\* An expired record promises nothing.
LEMMA ExpireStep ==
    ASSUME IInv, NEW k \in Key, Expire(k)
    PROVE  BoundInv' /\ AnswerInv'
  <1>1. ~Fresh(records'[k]) /\ ~Fresh(disk'[k]) /\ settled'[k].is = "open"
    BY AgedType DEF Expire, IInv, Typed, Open
  <1>2. \A j \in Key : j # k => /\ records'[j] = records[j] /\ disk'[j] = disk[j]
                               /\ settled'[j] = settled[j]
    BY AgedType DEF Expire, IInv, Typed
  <1>3. UNCHANGED <<chain, writing, exec, up>> BY DEF Expire
  <1>4. BoundInv' BY <1>1, <1>2, <1>3 DEF IInv, BoundInv, Follows
  <1>5. AnswerInv' BY <1>1, <1>2, <1>3 DEF IInv, AnswerInv
  <1> QED BY <1>4, <1>5

\* A mutation finds a fresh record, and replays or refuses, or it makes one for
\* a key of which nothing is known.
LEMMA MutateStep ==
    ASSUME IInv, Mutate
    PROVE  BoundInv' /\ AnswerInv'
  <1> DEFINE k == Head(chain)
             f == exec[k].fingerprint
  <1>1. /\ k \in Key /\ exec[k].at \in Stage /\ records = disk
        /\ exec \in [Key -> ExecType] /\ records \in [Key -> Record]
        /\ Append(Tail(chain), k) \in Seq(Key)
    BY DEF IInv, Typed, StoredInv, Mutate, Stage
  <1>2. disk' = disk /\ settled' = settled /\ up /\ up' /\ ~writing BY DEF Mutate
  <1>3. \/ exec[k].at = "reserve" /\ MutateReserve(k, f)
        \/ exec[k].at = "record" /\ MutateRecord(k, f)
        \/ exec[k].at = "cleanup" /\ MutateCleanup(k, f)
    BY DEF Mutate
  <1> DEFINE P == Pruned(records)
  <1>4. /\ P \in [Key -> Record]
        /\ \A j \in Key : Fresh(records[j]) => P[j] = records[j]
        /\ \A j \in Key : Fresh(P[j]) => Fresh(records[j])
        /\ \A j \in Key : P[j] # NoRecord => Fresh(P[j])
    BY <1>1, PrunedType DEF Fresh
  <1>5. NewRecord("pending", f).fingerprint = f /\ NewRecord("completed", f).fingerprint = f
    BY DEF NewRecord
  <1>6. BoundInv /\ AnswerInv BY DEF IInv
  <1> HIDE DEF k, f, P
  <1>7. ASSUME NEW state \in [Key -> Record], NEW s \in Stage, Write(state, k, s),
               \A j \in Key : j # k => state[j] = records[j] \/ state[j] = P[j],
               s \in {"replaying", "record"} => Follows(k, state[k]) /\ Follows(k, disk[k]),
               s = "reserve" => ~Fresh(disk[k]) /\ Follows(k, state[k]),
               s # "operation",
               \/ settled[k].is \notin {"answered", "lost"}
               \/ s \in {"idle", "reserve", "replaying"} /\ state[k] = P[k]
        PROVE  BoundInv' /\ AnswerInv'
    <2>1. /\ exec'[k].at = s /\ exec'[k].fingerprint = exec[k].fingerprint
          /\ \A j \in Key : j # k => exec'[j] = exec[j]
      BY <1>1, <1>7, MoveExec DEF Write, Stage
    <2>2. records' = state /\ writing' = TRUE /\ Head(chain') = k
      BY <1>7 DEF Write, k
    <2>3. \A j \in Key : j # k => (Follows(j, records[j]) => Follows(j, records[j])')
      BY <1>4, <1>7, <2>1, <2>2 DEF Follows
    <2>4. BoundInv' BY <1>2, <1>6, <1>7, <2>1, <2>2, <2>3 DEF BoundInv, Follows
    <2>5. AnswerInv' BY <1>1, <1>2, <1>4, <1>6, <1>7, <2>1, <2>2 DEF AnswerInv, Is
    <2>6. QED BY <2>4, <2>5
  <1>8. CASE exec[k].at = "reserve" /\ MutateReserve(k, f)
    <2>1. CASE FindsResult(k, f) /\ Write(P, k, "replaying")
      <3>1. P[k].fingerprint = f BY <2>1 DEF FindsResult, P
      <3>2. Follows(k, P[k]) /\ Follows(k, disk[k]) BY <1>1, <1>4, <3>1 DEF Follows, f
      <3>3. QED BY <1>4, <1>7, <2>1, <3>2 DEF Stage
    <2>2. CASE FindsNothing(k) /\ Write([P EXCEPT ![k] = NewRecord("pending", f)], k, "reserve")
      <3>1. ~Fresh(disk[k]) BY <1>1, <1>4, <2>2 DEF FindsNothing, P, Fresh
      <3>2. settled[k].is \notin {"answered", "lost"} BY <1>1, <1>6, <3>1 DEF AnswerInv, Is
      <3>3. NewRecord("pending", f) \in Record BY <1>1, ExecValues, RecordValues DEF Stage, f
      <3>4. Follows(k, NewRecord("pending", f)) BY <1>5 DEF Follows, f
      <3> DEFINE state == [P EXCEPT ![k] = NewRecord("pending", f)]
      <3>5. state \in [Key -> Record] /\ state[k] = NewRecord("pending", f)
               /\ \A j \in Key : j # k => state[j] = P[j]
        BY <1>1, <1>4, <3>3
      <3> HIDE DEF state
      <3>6. Write(state, k, "reserve") BY <2>2 DEF state
      <3>7. QED BY <1>7, <3>1, <3>2, <3>4, <3>5, <3>6 DEF Stage
    <2>3. CASE Abort /\ EndEarly(k)
      <3>1. exec'[k].at = "idle" /\ \A j \in Key : j # k => exec'[j] = exec[j]
        BY <1>1, <2>3, ExecValues DEF EndEarly
      <3>2. records' = records /\ writing' = writing BY <2>3 DEF Abort
      <3>3. BoundInv' BY <1>2, <1>6, <3>1, <3>2 DEF BoundInv, Follows
      <3>4. AnswerInv' BY <1>2, <1>6, <3>1, <3>2 DEF AnswerInv
      <3>5. QED BY <3>3, <3>4
    <2>4. QED BY <1>8, <2>1, <2>2, <2>3 DEF MutateReserve, P
  <1>9. CASE exec[k].at = "record" /\ MutateRecord(k, f)
    <2>1. settled[k].is \notin {"answered", "lost"} /\ Follows(k, disk[k])
      BY <1>1, <1>6, <1>9 DEF AnswerInv, BoundInv
    <2>2. CASE Write([records EXCEPT ![k] = NewRecord("completed", f)], k, "record")
      <3>3. NewRecord("completed", f) \in Record BY <1>1, ExecValues, RecordValues DEF Stage, f
      <3>4. Follows(k, NewRecord("completed", f)) BY <1>5 DEF Follows, f
      <3> DEFINE state == [records EXCEPT ![k] = NewRecord("completed", f)]
      <3>5. state \in [Key -> Record] /\ state[k] = NewRecord("completed", f)
               /\ \A j \in Key : j # k => state[j] = records[j]
        BY <1>1, <3>3
      <3> HIDE DEF state
      <3>6. Write(state, k, "record") BY <2>2 DEF state
      <3>7. QED BY <1>7, <2>1, <3>4, <3>5, <3>6 DEF Stage
    <2>3. CASE ~Reserved(k, f)
      <3>0. exec' = [exec EXCEPT ![k].at = "cleanup"] BY <1>9, <2>3 DEF MutateRecord
      <3>1. exec'[k].at = "cleanup" /\ \A j \in Key : j # k => exec'[j] = exec[j]
        BY <1>1, <1>9, <3>0, MoveExec DEF Stage
      <3>2. records' = records /\ writing' = writing BY <1>9, <2>3 DEF MutateRecord
      <3>3. BoundInv' BY <1>2, <1>6, <3>1, <3>2 DEF BoundInv, Follows
      <3>4. AnswerInv' BY <1>2, <1>6, <2>1, <3>1, <3>2 DEF AnswerInv
      <3>5. QED BY <3>3, <3>4
    <2>4. QED BY <1>9, <2>2, <2>3 DEF MutateRecord
  <1>10. CASE exec[k].at = "cleanup" /\ MutateCleanup(k, f)
    <2>1. settled[k].is \notin {"answered", "lost"} BY <1>1, <1>6, <1>10 DEF AnswerInv
    <2> DEFINE state == IF Reserved(k, f) THEN [records EXCEPT ![k] = NoRecord] ELSE records
    <2>2. state \in [Key -> Record] /\ \A j \in Key : j # k => state[j] = records[j]
      BY <1>1, RecordValues
    <2>3. Write(state, k, "cleanup") BY <1>10 DEF MutateCleanup
    <2> HIDE DEF state
    <2>4. QED BY <1>7, <2>1, <2>2, <2>3 DEF Stage
  <1> QED BY <1>3, <1>8, <1>9, <1>10

\* A result is told after the file holds it.
LEMMA WriteOkStep ==
    ASSUME IInv, WriteOk
    PROVE  BoundInv' /\ AnswerInv'
  <1> DEFINE k == Head(chain)
  <1>1. /\ k \in Key /\ exec[k].at \in Writes /\ exec \in [Key -> ExecType]
        /\ up /\ writing /\ settled \in [Key -> Knowledge]
    BY DEF IInv, Typed, WritingInv, WriteOk
  <1>2. disk' = records /\ records' = records /\ up' = up /\ writing' = FALSE BY DEF WriteOk
  <1>3. AfterWrite(k) BY DEF WriteOk
  <1>4. BoundInv /\ AnswerInv BY DEF IInv
  <1>5. exec[k].at = "reserve" => ~Fresh(disk[k]) /\ Follows(k, records[k])
    BY <1>1, <1>4 DEF BoundInv
  <1>6. exec[k].at \in {"replaying", "record"} => Follows(k, records[k])
    BY <1>1, <1>4 DEF BoundInv
  <1>7. exec[k].at \in {"record", "cleanup"} => settled[k].is \notin {"answered", "lost"}
    BY <1>1, <1>4 DEF AnswerInv
  <1>8. exec[k].at = "reserve" => settled[k].is \notin {"answered", "lost"}
    BY <1>1, <1>4, <1>5 DEF AnswerInv, Is
  <1> HIDE DEF k
  <1>9. /\ exec[k].at = "reserve" => /\ exec'[k].at = "operation"
                                     /\ exec'[k].fingerprint = exec[k].fingerprint
        /\ exec[k].at # "reserve" => exec'[k].at = "idle"
        /\ \A j \in Key : j # k => exec'[j] = exec[j]
    <2>1. CASE exec[k].at = "reserve"
      <3>1. exec' = [exec EXCEPT ![k].at = "operation"] BY <1>3, <2>1 DEF AfterWrite
      <3>2. QED BY <1>1, <2>1, <3>1, MoveExec DEF Stage
    <2>2. CASE exec[k].at # "reserve"
      BY <1>1, <1>3, <2>2, ExecValues DEF AfterWrite, Writes, End, EndEarly
    <2>3. QED BY <2>1, <2>2
  <1>10. /\ \A j \in Key : j # k => settled'[j] = settled[j]
         /\ exec[k].at \in {"reserve", "cleanup"} => settled'[k] = settled[k]
         /\ exec[k].at \in {"replaying", "record"} => settled'[k] = Known(k, "answered")
    BY <1>1, <1>3 DEF AfterWrite, Writes
  <1>11. Known(k, "answered").is = "answered" => Is(Known(k, "answered").of, records[k])
         \/ exec[k].at \notin {"replaying", "record"}
    BY <1>6 DEF Known, Open, Follows, Is
  <1>12. Known(k, "answered").is # "lost" BY DEF Known, Open
  <1>13. BoundInv' BY <1>2, <1>4, <1>5, <1>9 DEF BoundInv, Follows
  <1>14. AnswerInv'
    <2> SUFFICES ASSUME NEW j \in Key, settled'[j].is \in {"answered", "lost"}
                 PROVE  /\ exec'[j].at \in {"idle", "reserve", "replaying"}
                        /\ Is(settled'[j].of, records[j])
      BY <1>2 DEF AnswerInv, Is
    <2>1. CASE j # k BY <1>1, <1>4, <1>9, <1>10, <2>1 DEF AnswerInv
    <2>2. CASE j = k
      BY <1>1, <1>7, <1>8, <1>9, <1>10, <1>11, <1>12, <2>2 DEF Writes
    <2>3. QED BY <2>1, <2>2
  <1> QED BY <1>13, <1>14

\* A failed write takes back the mutation, and nobody was told.
LEMMA WriteFailStep ==
    ASSUME IInv, WriteFail
    PROVE  BoundInv' /\ AnswerInv'
  <1> DEFINE k == Head(chain)
  <1>1. /\ k \in Key /\ exec[k].at \in Writes /\ exec \in [Key -> ExecType] /\ up /\ saved = disk
    BY DEF IInv, Typed, WritingInv, StoredInv, WriteFail
  <1>2. records' = disk /\ disk' = disk /\ settled' = settled /\ up' = up /\ writing' = FALSE
    BY <1>1 DEF WriteFail
  <1>3. AfterFailedWrite(k) BY DEF WriteFail
  <1>4. BoundInv /\ AnswerInv BY DEF IInv
  <1> HIDE DEF k
  <1>5. /\ exec[k].at = "record" => exec'[k].at = "cleanup"
        /\ exec[k].at # "record" => exec'[k].at = "idle"
        /\ \A j \in Key : j # k => exec'[j] = exec[j]
    <2>1. CASE exec[k].at = "record"
      <3>1. exec' = [exec EXCEPT ![k].at = "cleanup"] BY <1>3, <2>1 DEF AfterFailedWrite
      <3>2. QED BY <1>1, <2>1, <3>1, MoveExec DEF Stage
    <2>2. CASE exec[k].at # "record"
      BY <1>1, <1>3, <2>2, ExecValues DEF AfterFailedWrite, Writes, End, EndEarly
    <2>3. QED BY <2>1, <2>2
  <1>6. BoundInv' BY <1>2, <1>4, <1>5 DEF BoundInv, Follows
  <1>7. AnswerInv' BY <1>1, <1>2, <1>4, <1>5 DEF AnswerInv
  <1> QED BY <1>6, <1>7

\* Whichever of the two contents the file has after a crash, it holds a record
\* of each request that was answered or was past its reservation.
LEMMA CrashStep ==
    ASSUME IInv, Crash
    PROVE  BoundInv' /\ AnswerInv'
  <1>1. exec' = [k \in Key |-> NoExec] /\ up' = FALSE /\ writing' = FALSE BY DEF Crash
  <1>2. PICK file \in {disk, records} : /\ disk' = file
                                       /\ settled' = [k \in Key |-> Forgotten(k, file)]
    BY DEF Crash
  <1>3. up BY DEF Crash
  <1>4. \A k \in Key : exec'[k].at = "idle" BY <1>1, ExecValues
  <1>5. BoundInv' BY <1>1, <1>4 DEF BoundInv
  <1>6. AnswerInv'
    <2> SUFFICES ASSUME NEW k \in Key, settled'[k].is \in {"answered", "lost"}
                 PROVE  Is(settled'[k].of, file[k])
      BY <1>1, <1>2, <1>4 DEF AnswerInv, Is
    <2>1. settled'[k] = Forgotten(k, file) BY <1>2
    <2>2. CASE exec[k].at \notin {"operation", "record"}
      BY <1>2, <1>3, <2>1, <2>2 DEF Forgotten, IInv, AnswerInv
    <2>3. CASE exec[k].at \in {"operation", "record"}
      <3>1. Follows(k, file[k]) BY <1>2, <2>3 DEF IInv, BoundInv
      <3>2. QED BY <2>1, <2>3, <3>1 DEF Forgotten, Follows, Is, Open
    <2>4. QED BY <2>2, <2>3
  <1> QED BY <1>5, <1>6

\* initialize keeps the fresh records of the file.
LEMMA InitializeStep ==
    ASSUME IInv, Initialize
    PROVE  BoundInv' /\ AnswerInv'
  <1>1. records' = Pruned(disk) /\ disk' = Pruned(disk) /\ ~writing /\ ~up
        /\ UNCHANGED <<writing, exec, settled>>
    BY DEF Initialize, IInv, WritingInv
  <1>2. \A k \in Key : /\ Fresh(disk[k]) => Pruned(disk)[k] = disk[k]
                       /\ Fresh(Pruned(disk)[k]) => Fresh(disk[k])
    BY PrunedType DEF IInv, Typed, Fresh
  <1>3. BoundInv' BY <1>1, <1>2 DEF IInv, BoundInv, Follows
  <1>4. AnswerInv' BY <1>1, <1>2 DEF IInv, AnswerInv, Is
  <1> QED BY <1>3, <1>4

\* The empty store satisfies the invariant.
LEMMA InitInductive == Init => IInv
  <1> SUFFICES ASSUME Init PROVE IInv
    OBVIOUS
  <1>0. /\ <<>> \in Seq(Key) /\ 0 \in 0..MaxEffects /\ 0 \in 0..MaxFailures
        /\ 0 \in 0..MaxCrashes
    BY BoundsAssumption
  <1>a. records \in [Key -> Record] /\ disk = records /\ saved = records BY RecordValues DEF Init
  <1>b. exec \in [Key -> ExecType] /\ settled \in [Key -> Knowledge]
    BY ExecValues, KnowledgeValues DEF Init
  <1>1. Typed BY <1>0, <1>a, <1>b DEF Init, Typed
  <1>2. /\ ~writing /\ records = disk
        /\ \A k \in Key : exec[k].at = "idle" /\ settled[k].is = "open"
    BY ExecValues DEF Init, Open
  <1> QED BY <1>1, <1>2 DEF IInv, WritingInv, FlightInv, StoredInv, BoundInv, AnswerInv

\* Every step preserves the invariant.
LEMMA StepInductive == IInv /\ [Next]_vars => IInv'
  <1> SUFFICES ASSUME IInv, [Next]_vars PROVE IInv'
    OBVIOUS
  <1>1. Typed' /\ WritingInv' /\ FlightInv' /\ StoredInv'
    BY TypeStep, WritingStep, StoredStep DEF IInv
  <1>2. BoundInv' /\ AnswerInv'
    <2>1. CASE UNCHANGED vars
      BY <2>1 DEF vars, IInv, BoundInv, AnswerInv, Follows, Is, Fresh
    <2>2. CASE Next
      BY <2>2, CallStep, OperationStep, ExpireStep, MutateStep, WriteOkStep, WriteFailStep,
         CrashStep, InitializeStep DEF Next
    <2>3. QED BY <2>1, <2>2
  <1> QED BY <1>1, <1>2 DEF IInv

\* The inductive invariant holds in every behaviour.
LEMMA Inductive == Spec => []IInv
  BY InitInductive, StepInductive, PTL DEF Spec

\* The state of the store is well typed.
THEOREM TypeCorrect == Spec => []TypeOK
  <1>1. IInv => TypeOK BY TypedIsTypeOK DEF IInv
  <1> QED BY Inductive, <1>1, PTL

\* Between two writes the records in memory are those of the file: a mutation
\* that throws, and a write that fails, leave no trace.
THEOREM MemoryIsAlwaysStored == Spec => []MemoryIsStored
  <1>1. IInv => MemoryIsStored BY DEF IInv, StoredInv, MemoryIsStored
  <1> QED BY Inductive, <1>1, PTL

\* A request whose caller has its result, or whose process ended in its
\* operation, is not made again and its key answers no other request before
\* ttlMs is over, for any number of keys, callers, failed writes and crashes.
THEOREM AnswersAreFinal == Spec => AnsweredOnce
  <1> DEFINE A == \A k \in Key : settled[k].is \in {"answered", "lost"}
                    => /\ effects'[k] = effects[k]
                       /\ settled'[k] = Open \/ settled'[k].of = settled[k].of
  <1>1. IInv /\ [Next]_vars => [A]_vars
    <2> SUFFICES ASSUME IInv, Next, NEW k \in Key, settled[k].is \in {"answered", "lost"}
                 PROVE  /\ effects'[k] = effects[k]
                        /\ settled'[k] = Open \/ settled'[k].of = settled[k].of
      OBVIOUS
    <2>1. /\ exec[k].at \in {"idle", "reserve", "replaying"}
          /\ up => Is(settled[k].of, records[k])
      BY DEF IInv, AnswerInv
    <2>2. effects'[k] = effects[k]
      BY <2>1 DEF Next, Execute, Effect, OperationReturns, OperationThrows, Expire, Mutate,
           WriteOk, WriteFail, Crash, Initialize, IInv, Typed
    <2>3. settled'[k] = Open \/ settled'[k].of = settled[k].of
      <3>1. ASSUME NEW j \in Key, OperationReturns(j) PROVE settled'[k] = settled[k]
        BY <2>1, <3>1 DEF OperationReturns, IInv, Typed
      <3>2. ASSUME NEW j \in Key, Expire(j) PROVE settled'[k] \in {Open, settled[k]}
        BY <3>2 DEF Expire, IInv, Typed
      <3>3. CASE WriteOk
        <4> DEFINE h == Head(chain)
        <4>1. AfterWrite(h) /\ h \in Key /\ exec[h].at \in Writes /\ up
              /\ settled \in [Key -> Knowledge]
          BY <3>3 DEF WriteOk, IInv, WritingInv, Typed
        <4>2. k = h /\ exec[k].at = "replaying" => Follows(k, records[k])
          BY DEF IInv, BoundInv
        <4> HIDE DEF h
        <4>3. \/ settled'[k] = settled[k]
              \/ /\ k = h /\ exec[k].at = "replaying"
                 /\ settled'[k] = Known(k, "answered")
          <5>1. CASE k # h BY <4>1, <5>1 DEF AfterWrite, Writes
          <5>2. CASE k = h /\ exec[k].at = "reserve" BY <4>1, <5>2 DEF AfterWrite
          <5>3. CASE k = h /\ exec[k].at = "replaying" BY <4>1, <5>3 DEF AfterWrite
          <5>4. QED BY <2>1, <4>1, <5>1, <5>2, <5>3 DEF Writes
        <4>4. QED BY <2>1, <4>1, <4>2, <4>3 DEF Known, Follows, Is
      <3>4. CASE Crash BY <2>1, <3>4 DEF Crash, Forgotten
      <3>5. CASE Mutate \/ WriteFail \/ Initialize BY <3>5 DEF Mutate, WriteFail, Initialize
      <3>6. ASSUME NEW j \in Key, NEW f \in Fingerprint,
                   Execute(j, f) \/ Effect(j) \/ OperationThrows(j)
            PROVE  settled'[k] = settled[k]
        BY <3>6 DEF Execute, Effect, OperationThrows
      <3>7. ASSUME NEW j \in Key, Effect(j) \/ OperationThrows(j)
            PROVE  settled'[k] = settled[k]
        BY <3>7 DEF Effect, OperationThrows
      <3>8. QED BY <3>1, <3>2, <3>3, <3>4, <3>5, <3>6, <3>7 DEF Next
    <2>4. QED BY <2>2, <2>3
  <1> HIDE DEF A
  <1>2. Spec => [][A]_vars BY Inductive, <1>1, PTL DEF Spec
  <1> QED BY <1>2 DEF AnsweredOnce, A
=============================================================================
