-------------------------------- MODULE Handoff --------------------------------
(***************************************************************************)
(* What the hand-off of jobs to a Mac promises the agent service that      *)
(* dispatches them: there is one slot.  A job waits, is put in the slot,   *)
(* and as long as nobody has begun it may be taken back or withdrawn.      *)
(* Once begun it leaves the slot only with the outcome of its execution,   *)
(* which was launched at most once, in the slot, and has stopped.          *)
(***************************************************************************)
CONSTANTS
    Job,
    None    \* not a job

Outcome == {"completed", "failed", "cancelled"}

VARIABLES
    waiting,    \* jobs that wait for the slot
    slot,       \* the job handed over, or None
    begun,      \* the job in the slot was begun
    result,     \* job -> its recorded result
    execution   \* job -> what runs, or ran, on the Mac

handoffVars == <<waiting, slot, begun, result, execution>>

Init ==
    /\ waiting = {} /\ slot = None /\ begun = FALSE
    /\ result = [j \in Job |-> "none"]
    /\ execution = [j \in Job |-> "none"]

\* The slot as it is, or after the job in it was taken back.
Slots == {<<waiting, slot>>} \cup
         IF slot # None /\ ~begun THEN {<<waiting \cup {slot}, None>>} ELSE {}

Submit(j) ==
    /\ j \notin waiting \cup {slot} /\ result[j] = "none"
    /\ \E s \in Slots : waiting' = s[1] \cup {j} /\ slot' = s[2]
    /\ UNCHANGED <<begun, result, execution>>

Grant(j) ==
    /\ \E s \in Slots : /\ s[2] = None /\ j \in s[1]
                        /\ waiting' = s[1] \ {j}
    /\ slot' = j
    /\ UNCHANGED <<begun, result, execution>>

TakeBack ==
    /\ slot # None /\ ~begun
    /\ waiting' = waiting \cup {slot} /\ slot' = None
    /\ UNCHANGED <<begun, result, execution>>

Begin ==
    /\ slot # None /\ ~begun
    /\ begun' = TRUE
    /\ UNCHANGED <<waiting, slot, result, execution>>

Withdraw(j) ==
    /\ \E s \in Slots :
          /\ j \in s[1] \/ (j = s[2] /\ ~begun)
          /\ waiting' = s[1] \ {j}
          /\ slot' = IF s[2] = j THEN None ELSE s[2]
    /\ result' = [result EXCEPT ![j] = "cancelled"]
    /\ UNCHANGED <<begun, execution>>

Launch ==
    /\ slot # None /\ begun /\ execution[slot] = "none"
    /\ execution' = [execution EXCEPT ![slot] = "running"]
    /\ UNCHANGED <<waiting, slot, begun, result>>

Stop(j) ==
    /\ execution[j] = "running"
    /\ \E o \in Outcome : execution' = [execution EXCEPT ![j] = o]
    /\ UNCHANGED <<waiting, slot, begun, result>>

Settle ==
    /\ slot # None /\ begun /\ execution[slot] \in Outcome
    /\ result' = [result EXCEPT ![slot] = execution[slot]]
    /\ slot' = None /\ begun' = FALSE
    /\ UNCHANGED <<waiting, execution>>

Next ==
    \/ \E j \in Job : Submit(j) \/ Grant(j) \/ Withdraw(j) \/ Stop(j)
    \/ TakeBack \/ Begin \/ Launch \/ Settle

Spec == Init /\ [][Next]_handoffVars
=============================================================================
