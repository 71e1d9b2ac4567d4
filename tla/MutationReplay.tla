--------------------------- MODULE MutationReplay ---------------------------
(***************************************************************************)
(* The store that keeps a provider mutation (an issue created, a page      *)
(* edited) from being made twice, src/server/provider-mutation-replay-     *)
(* store.ts: reservations and results in a file, one execution per key in  *)
(* memory, and a chain of mutations each of which writes the whole file.   *)
(*                                                                         *)
(* The provider is external: its effect may happen at any time during the  *)
(* operation, and the operation may fail after it.  Time is a flag: a      *)
(* record ages once it is older than ttlMs.                                *)
(***************************************************************************)
EXTENDS Naturals, Sequences, FiniteSets

CONSTANTS
    Key,            \* scope and mutationKey
    Fingerprint,    \* the request a key is bound to
    MaxRecords,     \* MAX_RECORDS
    None,
    MaxEffects,     \* bound: effects of one key
    MaxFailures,    \* bound: writes that fail
    MaxCrashes      \* bound: ends of the process

ASSUME MaxRecordsAssumption == MaxRecords \in Nat \ {0}
ASSUME NoneAssumption == None \notin Fingerprint
ASSUME BoundsAssumption == /\ MaxEffects \in Nat
                           /\ MaxFailures \in Nat
                           /\ MaxCrashes \in Nat

VARIABLES
    records,    \* state.records
    disk,       \* the file
    saved,      \* the clone enqueueMutation takes before it mutates
    chain,      \* writeChain: the keys whose execution has a mutation in it
    writing,    \* the head of the chain awaits its write
    exec,       \* exec[k]: the execution of k: where it stands and its request
    inFlight,   \* inFlight[k]: the request of the promise the map holds
    up,         \* the process runs
    effects,    \* effects[k]: how often the provider did the mutation
    settled,    \* settled[k]: what is known of the effect of k, see below
    failures, crashes

vars == <<records, disk, saved, chain, writing, exec, inFlight, up, effects,
          settled, failures, crashes>>

NoRecord == [status |-> "absent", fingerprint |-> None, old |-> FALSE]
Record == [status : {"pending", "completed"}, fingerprint : Fingerprint, old : BOOLEAN]
              \cup {NoRecord}
NoExec == [at |-> "idle", fingerprint |-> None, did |-> FALSE]
\* "replaying" is the first mutation once it has found a result.
Stage == {"reserve", "replaying", "operation", "record", "cleanup"}
\* What is known of a request: "answered" when a caller got its result, "done"
\* when its operation has returned and no caller knows, "lost" when the process
\* ended during the operation or before the result was written.
Open == [is |-> "open", of |-> None]
Knowledge == [is : {"done", "answered", "lost"}, of : Fingerprint] \cup {Open}

Init == /\ records = [k \in Key |-> NoRecord]
        /\ disk = records
        /\ saved = records
        /\ chain = <<>>
        /\ writing = FALSE
        /\ exec = [k \in Key |-> NoExec]
        /\ inFlight = [k \in Key |-> None]
        /\ up = TRUE
        /\ effects = [k \in Key |-> 0]
        /\ settled = [k \in Key |-> Open]
        /\ failures = 0
        /\ crashes = 0

-----------------------------------------------------------------------------
(* execute.  A call for a key with a promise in the map joins that promise  *)
(* or is refused for its fingerprint: neither changes anything.             *)

Execute(k, f) ==
    /\ up
    /\ inFlight[k] = None
    /\ inFlight' = [inFlight EXCEPT ![k] = f]
    /\ exec' = [exec EXCEPT ![k] = [at |-> "reserve", fingerprint |-> f, did |-> FALSE]]
    /\ chain' = Append(chain, k)
    /\ UNCHANGED <<records, disk, saved, writing, up, effects, settled, failures, crashes>>

\* The provider makes the change; only then does the operation return.
Effect(k) ==
    /\ up
    /\ exec[k].at = "operation"
    /\ ~exec[k].did
    /\ effects[k] < MaxEffects
    /\ effects' = [effects EXCEPT ![k] = @ + 1]
    /\ exec' = [exec EXCEPT ![k].did = TRUE]
    /\ UNCHANGED <<records, disk, saved, chain, writing, inFlight, up, settled,
                   failures, crashes>>

EnqueueStage(k, stage) ==
    /\ exec' = [exec EXCEPT ![k].at = stage]
    /\ chain' = Append(chain, k)

Fresh(r) == r # NoRecord /\ ~r.old

\* Nothing is known for longer than the record lives.
Known(k, what) == IF Fresh(records[k]) THEN [is |-> what, of |-> exec[k].fingerprint] ELSE Open

\* A result that serializes is recorded.
OperationReturns(k) ==
    /\ up
    /\ exec[k].at = "operation"
    /\ exec[k].did
    /\ EnqueueStage(k, "record")
    /\ settled' = [settled EXCEPT ![k] = Known(k, "done")]
    /\ UNCHANGED <<records, disk, saved, writing, inFlight, up, effects, failures, crashes>>

\* It may throw before the effect or after it; so does a result too large.
OperationThrows(k) ==
    /\ up
    /\ exec[k].at = "operation"
    /\ EnqueueStage(k, "cleanup")
    /\ UNCHANGED <<records, disk, saved, writing, inFlight, up, effects, settled,
                   failures, crashes>>

-----------------------------------------------------------------------------
(* enqueueMutation: the head of the chain clones the state, mutates it and *)
(* awaits the write; an exception restores the clone.                      *)

Pruned(state) == [k \in Key |-> IF state[k].old THEN NoRecord ELSE state[k]]
\* Mutated NewRecord: the request is not kept.
NewRecordUnbound(status, f) == [NoRecord EXCEPT !.status = status]
NewRecord(status, f) == [status |-> status, fingerprint |-> f, old |-> FALSE]

\* The rest of an execution that ends here: with the finally block, or, when
\* it ends in its first mutation, without it, so that its promise stays in the map.
End(k) == /\ exec' = [exec EXCEPT ![k] = NoExec]
          /\ inFlight' = [inFlight EXCEPT ![k] = None]
EndEarly(k) == /\ exec' = [exec EXCEPT ![k] = NoExec]
               /\ UNCHANGED inFlight

Write(state, k, stage) == /\ saved' = records
                          /\ records' = state
                          /\ writing' = TRUE
                          /\ exec' = [exec EXCEPT ![k].at = stage]
                          /\ UNCHANGED <<chain, inFlight>>

\* The mutation throws: nothing is written and the chain goes on.
Abort == /\ chain' = Tail(chain)
         /\ UNCHANGED <<records, saved, writing>>

\* Mutated FindsResult: whatever request the key was used for.
FindsAnyResult(k, f) == Pruned(records)[k].status = "completed"

FindsResult(k, f) ==
    LET r == Pruned(records)[k] IN r.status = "completed" /\ r.fingerprint = f
FindsNothing(k) ==
    /\ Pruned(records)[k] = NoRecord
    /\ Cardinality({j \in Key : Pruned(records)[j] # NoRecord}) < MaxRecords

\* Another fingerprint, a pending reservation and a full store are refused.
MutateReserve(k, f) ==
    \/ FindsResult(k, f) /\ Write(Pruned(records), k, "replaying")
    \/ FindsNothing(k) /\ Write([Pruned(records) EXCEPT ![k] = NewRecord("pending", f)], k, "reserve")
    \/ ~FindsResult(k, f) /\ ~FindsNothing(k) /\ Abort /\ EndEarly(k)

Reserved(k, f) == records[k].status = "pending" /\ records[k].fingerprint = f

\* A reservation that was pruned meanwhile fails the record.
MutateRecord(k, f) ==
    \/ Reserved(k, f) /\ Write([records EXCEPT ![k] = NewRecord("completed", f)], k, "record")
    \/ /\ ~Reserved(k, f)
       /\ exec' = [exec EXCEPT ![k].at = "cleanup"]
       /\ chain' = Append(Tail(chain), k)
       /\ UNCHANGED <<records, saved, writing, inFlight>>

MutateCleanup(k, f) ==
    Write(IF Reserved(k, f) THEN [records EXCEPT ![k] = NoRecord] ELSE records, k, "cleanup")

Mutate ==
    /\ up
    /\ chain # <<>>
    /\ ~writing
    /\ LET k == Head(chain)
           f == exec[k].fingerprint
       IN \/ exec[k].at = "reserve" /\ MutateReserve(k, f)
          \/ exec[k].at = "record" /\ MutateRecord(k, f)
          \/ exec[k].at = "cleanup" /\ MutateCleanup(k, f)
    /\ UNCHANGED <<disk, up, effects, settled, failures, crashes>>

\* Answers: the callers of k get the result.
AfterWrite(k) ==
    CASE exec[k].at = "reserve"   -> /\ exec' = [exec EXCEPT ![k].at = "operation"]
                                     /\ UNCHANGED <<inFlight, settled>>
      [] exec[k].at = "replaying" -> EndEarly(k) /\ settled' = [settled EXCEPT ![k] = Known(k, "answered")]
      [] exec[k].at = "record"    -> End(k) /\ settled' = [settled EXCEPT ![k] = Known(k, "answered")]
      [] exec[k].at = "cleanup"   -> End(k) /\ UNCHANGED settled

WriteOk ==
    /\ up
    /\ writing
    /\ disk' = records
    /\ writing' = FALSE
    /\ chain' = Tail(chain)
    /\ AfterWrite(Head(chain))
    /\ UNCHANGED <<records, saved, up, effects, failures, crashes>>

\* Mutated AfterFailedWrite: the cleanup is not queued.
AfterFailedWriteStalls(k) ==
    /\ chain' = Tail(chain)
    /\ \/ exec[k].at \in {"reserve", "replaying"} /\ EndEarly(k)
       \/ /\ exec[k].at = "record"
          /\ exec' = [exec EXCEPT ![k].at = "cleanup"]
          /\ UNCHANGED inFlight
       \/ exec[k].at = "cleanup" /\ End(k)

\* The reservation stays when the cleanup fails.
AfterFailedWrite(k) ==
    \/ exec[k].at \in {"reserve", "replaying"} /\ EndEarly(k) /\ chain' = Tail(chain)
    \/ /\ exec[k].at = "record"
       /\ exec' = [exec EXCEPT ![k].at = "cleanup"]
       /\ chain' = Append(Tail(chain), k)
       /\ UNCHANGED inFlight
    \/ exec[k].at = "cleanup" /\ End(k) /\ chain' = Tail(chain)

WriteFail ==
    /\ up
    /\ writing
    /\ failures < MaxFailures
    /\ failures' = failures + 1
    /\ records' = saved
    /\ writing' = FALSE
    /\ AfterFailedWrite(Head(chain))
    /\ UNCHANGED <<disk, saved, up, effects, settled, crashes>>

-----------------------------------------------------------------------------
\* The callers of a process that ends learn nothing; the file may know.
Forgotten(k, file) ==
    IF exec[k].at \notin {"operation", "record"} THEN settled[k]
    ELSE IF Fresh(file[k]) THEN [is |-> "lost", of |-> exec[k].fingerprint]
    ELSE Open

\* The write in progress may have reached the file.
Crash ==
    /\ up
    /\ crashes < MaxCrashes
    /\ crashes' = crashes + 1
    /\ up' = FALSE
    /\ \E file \in IF writing THEN {disk, records} ELSE {disk} :
           /\ disk' = file
           /\ settled' = [k \in Key |-> Forgotten(k, file)]
    /\ exec' = [k \in Key |-> NoExec]
    /\ inFlight' = [k \in Key |-> None]
    /\ chain' = <<>>
    /\ writing' = FALSE
    /\ UNCHANGED <<records, saved, effects, failures>>

\* initialize reads the file and writes it back when records have expired.
Initialize ==
    /\ ~up
    /\ up' = TRUE
    /\ records' = Pruned(disk)
    /\ disk' = Pruned(disk)
    /\ saved' = Pruned(disk)
    /\ UNCHANGED <<chain, writing, exec, inFlight, effects, settled, failures, crashes>>

Aged(state, k) == IF state[k] = NoRecord THEN state ELSE [state EXCEPT ![k].old = TRUE]

\* ttlMs has passed since the record of k was updated: nothing is promised of
\* k any more.
Expire(k) ==
    /\ disk[k] # NoRecord \/ records[k] # NoRecord
    /\ records' = Aged(records, k)
    /\ disk' = Aged(disk, k)
    /\ saved' = Aged(saved, k)
    /\ settled' = [settled EXCEPT ![k] = Open]
    /\ UNCHANGED <<chain, writing, exec, inFlight, up, effects, failures, crashes>>

Next == \/ \E k \in Key : \/ \E f \in Fingerprint : Execute(k, f)
                          \/ Effect(k) \/ OperationReturns(k) \/ OperationThrows(k) \/ Expire(k)
        \/ Mutate \/ WriteOk \/ WriteFail \/ Crash \/ Initialize

Spec == Init /\ [][Next]_vars

\* The event loop runs: mutations and writes take their turn and operations end.
FairSpec == /\ Spec
            /\ WF_vars(Mutate)
            /\ WF_vars(WriteOk \/ WriteFail)
            /\ \A k \in Key : WF_vars(OperationReturns(k) \/ OperationThrows(k))

-----------------------------------------------------------------------------
TypeOK == /\ records \in [Key -> Record]
          /\ disk \in [Key -> Record]
          /\ saved \in [Key -> Record]
          /\ chain \in Seq(Key)
          /\ writing \in BOOLEAN
          /\ exec \in [Key -> [at : Stage, fingerprint : Fingerprint, did : BOOLEAN] \cup {NoExec}]
          /\ inFlight \in [Key -> Fingerprint \cup {None}]
          /\ up \in BOOLEAN
          /\ effects \in [Key -> 0..MaxEffects]
          /\ settled \in [Key -> Knowledge]
          /\ failures \in 0..MaxFailures
          /\ crashes \in 0..MaxCrashes

\* A mutation that throws or cannot be written leaves no trace: between two
\* writes the memory is what the file says.
MemoryIsStored == up /\ ~writing => records = disk

\* Once a caller has a result, or the process ended before one could be told,
\* the provider does not make the mutation again and no other request is
\* answered under the key, through refused retries, failed writes and restarts,
\* until ttlMs is over.
AnsweredOnce ==
    [][\A k \in Key : settled[k].is \in {"answered", "lost"}
           => /\ effects'[k] = effects[k]
              /\ settled'[k] = Open \/ settled'[k].of = settled[k].of]_vars

\* Every execution ends: an outcome of its operation and of its writes, in any
\* order and under any failure, lets its callers continue.
ExecutionEnds == \A k \in Key : exec[k].at # "idle" ~> exec[k].at = "idle"

\* "a retry must not repeat an unknown provider side effect"
\* (provider-mutation-replay-store.ts:180): an effect whose operation returned is
\* not repeated.
DoneOnce == [][\A k \in Key : settled[k].is = "done" => effects'[k] = effects[k]]_vars

\* "failed mutation reservation is retryable"
\* (scripts/provider-mutation-replay-store-test.ts:66): a key with no record and
\* no execution is free for the next call.
Retryable == up /\ ~writing => \A k \in Key :
                 records[k] = NoRecord /\ exec[k] = NoExec => inFlight[k] = None
=============================================================================
