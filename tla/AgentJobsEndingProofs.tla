------------------------- MODULE AgentJobsEndingProofs -------------------------
(***************************************************************************)
(* What the ending of a job leaves behind, for any jobs, requests, crashes *)
(* and decisions: no path to an ending forgets the admission               *)
(* (HeldCapacityIsVisible), and one ending is announced (OneEnding).       *)
(*                                                                         *)
(* Assumed away for both is "sent", as in AgentJobsProofs; for the first,  *)
(* also a receipt of an announcement that cannot be stored ("ack"), an     *)
(* admission that cannot be marked ("unresolve"), and requests that name a *)
(* job before its submission is answered; for the second, also a           *)
(* cancellation reported of a task that counts as failed ("belated").      *)
(*                                                                         *)
(* The first property speaks of jobs nobody works on.  Its invariant names *)
(* who works: while a job that is over keeps a bound reservation, an       *)
(* operation on its way to finalizeAdmission (Ender) is there.  EarlyOk    *)
(* says what keeps everyone else off a job that is created and not yet     *)
(* bound.  The second needs the one operation that will announce the end   *)
(* of a job that ran here (Announcer), and, for a job at a worker, the one *)
(* outcome there is to announce (Outcome).                                 *)
(***************************************************************************)
EXTENDS AgentJobsProofs, FiniteSetTheorems

\* On its way to the end of the admission of j, or to the note that it failed.
Ender(p, j) ==
    /\ op[p].job = j
    /\ \/ op[p].at \in {"await", "end", "mark", "release", "error", "unrecorded"}
       \/ /\ op[p].at \in {"deliver", "ack", "finish"} /\ op[p].saw \in Ending
          /\ op[p].kind = "cancel" \/ (op[p].kind = "observe" /\ op[p].was \notin Ending)

Waits(j) == rec[j].status \in Ending /\ reservation[j] = "bound"
Attended(j) == up /\ Waits(j) => \E p \in Process : Ender(p, j)

\* What a submission relies on before it binds its job, and what an observer
\* knows of the ending it read.
EarlyOk(p) ==
    LET j == op[p].job
        a == op[p].at
    IN /\ a \in {"create", "bind"} => p \in Caller /\ op[p].kind = "submit" /\ j \notin late
       /\ a = "bind" => \/ /\ rec[j].mode = "read-only" /\ rec[j].status = "queued"
                           /\ external \/ op[j].at = "idle"
                        \/ rec[j].mode = "workspace-write" /\ rec[j].status = "awaiting_approval"
       /\ a = "apply" => (op[p].was \in Ending => rec[j].status \in Ending)
       /\ a \in {"ask", "asked", "look", "apply"} => op[p].kind \in {"cancel", "observe"}

CapInv == /\ Honest
          /\ \A j \in Job : Attended(j)
          /\ \A j \in late \cap Job : rec[j].status # "absent"
          /\ \A p \in Process : EarlyOk(p)

\* The awaits at which EarlyOk asks for something.
Early == {"create", "bind", "apply", "ask", "asked", "look"}

\* Nobody but p is about to bind j.
NoBinder(p, j) == \A q \in Process : q # p /\ op[q].at = "bind" => op[q].job # j

\* A step of p that leaves j over and bound takes care of it.
Covered(p, j) == Waits(j)' => (Waits(j) /\ ~Ender(p, j)) \/ Ender(p, j)'

\* What a step of p on j has to do.
CapStep(p, j) ==
    /\ late' = late
    /\ \A i \in Job : i # j => rec'[i] = rec[i] /\ reservation'[i] = reservation[i]
    /\ op[p].at = "idle" \/ op[p].job = j
    /\ p \in Job => op[p].at # "idle"
    /\ rec[j].status # "absent" => rec'[j].status # "absent"
    /\ Covered(p, j)
    /\ EarlyOk(p)'
    /\ NoBinder(p, j) \/ (rec'[j].status = rec[j].status /\ rec'[j].mode = rec[j].mode)
    /\ \A q \in Process : q # p =>
         \/ op'[q] = op[q]
         \/ q = j /\ op'[q].at = "start" /\ rec'[j].status \notin Ending /\ NoBinder(p, j)

\* An operation at an await that EarlyOk says nothing about.
LEMMA LateOk == ASSUME NEW p, op'[p].at \notin Early PROVE EarlyOk(p)'
  BY DEF EarlyOk, Early

\* An ender keeps its job in view as long as it stays where it is.
LEMMA EnderSame ==
    ASSUME NEW p, NEW j, op'[p] = op[p] PROVE Ender(p, j)' <=> Ender(p, j)
  BY DEF Ender

\* Such a step keeps the invariant.
LEMMA CapCombine ==
    ASSUME Inv, CapInv, NEW p \in Process, NEW j \in Job, Going,
           UNCHANGED <<external, up>>, CapStep(p, j)
    PROVE  CapInv'
  <1>1. ASSUME NEW i \in Job PROVE Attended(i)'
    <2> SUFFICES ASSUME up, Waits(i)' PROVE \E q \in Process : Ender(q, i)'
      BY DEF Attended
    <2>1. CASE i = j /\ Ender(p, j)' BY <2>1
    <2>2. CASE i = j /\ Waits(j) /\ ~Ender(p, j)
      <3>1. PICK q \in Process : Ender(q, j) BY <2>2 DEF CapInv, Attended
      <3>2. q # p BY <2>2, <3>1
      <3>3. rec'[j].status \in Ending BY <2>2 DEF Waits
      <3>4. op'[q] = op[q] BY <3>2, <3>3 DEF CapStep
      <3>5. QED BY <2>2, <3>1, <3>4, EnderSame
    <2>3. CASE i # j
      <3>1. Waits(i) BY <2>3 DEF CapStep, Waits
      <3>2. PICK q \in Process : Ender(q, i) BY <3>1 DEF CapInv, Attended
      <3>3. op[q].at # "idle" /\ op[q].job = i BY <3>2 DEF Ender
      <3>4. q # p BY <2>3, <3>3 DEF CapStep
      <3>5. q # j
        <4>1. OpOk(q) BY DEF Inv, OpInv
        <4>2. q \in Job => op[q].job = q BY <3>3, <4>1 DEF OpOk
        <4>3. QED BY <2>3, <3>3, <4>2
      <3>6. op'[q] = op[q] BY <3>4, <3>5 DEF CapStep
      <3>7. QED BY <3>2, <3>6, EnderSame
    <2>4. QED BY <2>1, <2>2, <2>3 DEF CapStep, Covered
  <1>2. ASSUME NEW i \in late' \cap Job PROVE rec'[i].status # "absent"
    <2>1. i \in late /\ rec[i].status # "absent" BY <1>2 DEF CapInv, CapStep
    <2>2. CASE i = j BY <2>1, <2>2 DEF CapStep
    <2>3. CASE i # j BY <2>1, <2>3 DEF CapStep
    <2>4. QED BY <2>2, <2>3
  <1>3. ASSUME NEW q \in Process PROVE EarlyOk(q)'
    <2>1. CASE q = p BY <2>1 DEF CapStep
    <2>2. CASE q # p /\ op'[q] # op[q]
      <3>1. op'[q].at = "start" BY <2>2 DEF CapStep
      <3>2. QED BY <3>1, LateOk DEF Early
    <2>3. CASE q # p /\ op'[q] = op[q] /\ op[q].at = "idle"
      BY <2>3, LateOk DEF Early
    <2>4. CASE q # p /\ op'[q] = op[q] /\ op[q].at # "idle"
      <3>0. PICK i : i = op[q].job OBVIOUS
      <3>1. EarlyOk(q) /\ OpOk(q) BY DEF CapInv, Inv, OpInv
      <3>2. i \in Job BY <2>4, <3>0, <3>1 DEF OpOk
      <3>3. rec[i].status \in Ending => rec'[i].status \in Ending
        BY <3>2 DEF Going, Goes, CapInv
      <3>4. op[q].at = "bind" => rec'[i].status = rec[i].status /\ rec'[i].mode = rec[i].mode
        <4>1. CASE i = j /\ op[q].at = "bind" BY <2>4, <3>0, <4>1 DEF CapStep, NoBinder
        <4>2. CASE i # j BY <3>2, <4>2 DEF CapStep
        <4>3. QED BY <4>1, <4>2
      <3>5. op[q].at = "bind" /\ op[i].at = "idle" => op'[i].at = "idle"
        <4> SUFFICES ASSUME op[q].at = "bind", op[i].at = "idle" PROVE op'[i].at = "idle"
          OBVIOUS
        <4>1. i # p /\ i \in Process BY <3>2 DEF CapStep, Process
        <4>2. op'[i] = op[i]
          BY <2>4, <3>0, <4>1 DEF CapStep, NoBinder
        <4>3. QED BY <4>2
      <3>6. QED BY <2>4, <3>0, <3>1, <3>3, <3>4, <3>5 DEF EarlyOk, CapStep
    <2>5. QED BY <2>1, <2>2, <2>3, <2>4
  <1> QED BY <1>1, <1>2, <1>3 DEF CapInv

\* A step of an operation under way that leaves the status of its job.
LEMMA Quiet ==
    ASSUME Inv, CapInv, NEW p \in Process, NEW j \in Job, Step(p),
           op[p].at # "idle", op[p].job = j, late' = late,
           rec'[j].status = rec[j].status, rec'[j].mode = rec[j].mode,
           \A i \in Job : i # j => rec'[i] = rec[i] /\ reservation'[i] = reservation[i],
           \A q \in Process : q # p => op'[q] = op[q],
           Covered(p, j), op'[p].at \notin Early \/ EarlyOk(p)'
    PROVE  CapInv'
  <1>1. CapStep(p, j) BY LateOk DEF CapStep
  <1>2. Going /\ UNCHANGED <<external, up>> BY Combine DEF Step
  <1> QED BY <1>1, <1>2, CapCombine

\* Such a step that leaves the reservation as well.
LEMMA QuietSame ==
    ASSUME Inv, CapInv, NEW p \in Process, NEW j \in Job, Step(p),
           op[p].at # "idle", op[p].job = j, UNCHANGED <<rec, reservation, late>>,
           \A q \in Process : q # p => op'[q] = op[q],
           Ender(p, j) => Ender(p, j)', op'[p].at \notin Early \/ EarlyOk(p)'
    PROVE  CapInv'
  <1>1. Covered(p, j) BY DEF Covered, Waits
  <1> QED BY <1>1, Quiet

\* The cancellation of a job that ran goes on to end the admission.
LEMMA AwaitCap == ASSUME Inv, CapInv, NEW p \in Process, Await(p) PROVE CapInv'
  <1>0. PICK j : j = op[p].job OBVIOUS
  <1>1. /\ op[p].at = "await" /\ op[p].at # "idle" /\ Goto(p, "end")
        /\ UNCHANGED <<rec, reservation, late>>
    BY DEF Await, At, store
  <1>2. j \in Job BY <1>0, <1>1, Underway
  <1>3. /\ op'[p].at = "end" /\ op'[p].job = j /\ \A q \in Process : q # p => op'[q] = op[q]
    BY <1>0, <1>1, GotoShape, Labels DEF Inv
  <1>4. Step(p) BY AwaitStep
  <1>5. Ender(p, j)' /\ op'[p].at \notin Early BY <1>3 DEF Ender, Early
  <1> QED BY <1>0, <1>1, <1>2, <1>3, <1>4, <1>5, QuietSame

\* A request for a cancellation leaves job and admission alone.
LEMMA AskCap == ASSUME Inv, CapInv, NEW p \in Process, Ask(p) PROVE CapInv'
  <1>0. PICK j : j = op[p].job OBVIOUS
  <1>1. /\ op[p].at = "ask" /\ op[p].at # "idle" /\ UNCHANGED <<rec, reservation, late>>
        /\ Goto(p, "asked") \/ Leave(p, j)
    BY <1>0 DEF Ask, At, store
  <1>2. j \in Job /\ EarlyOk(p) BY <1>0, <1>1, Underway DEF CapInv
  <1>3. Step(p) /\ ~Ender(p, j) BY <1>1, AskStep DEF Ender
  <1>4. CASE Goto(p, "asked")
    <2>1. /\ op'[p].at = "asked" /\ op'[p].kind = op[p].kind
          /\ \A q \in Process : q # p => op'[q] = op[q]
      BY <1>4, GotoShape, Labels DEF Inv
    <2>2. EarlyOk(p)' BY <1>1, <1>2, <2>1 DEF EarlyOk
    <2>3. QED BY <1>0, <1>1, <1>2, <1>3, <2>1, <2>2, QuietSame
  <1>5. CASE Leave(p, j)
    <2>1. op'[p].at = "idle" /\ \A q \in Process : q # p => op'[q] = op[q]
      BY <1>2, <1>5, LeaveShape DEF Inv
    <2>2. QED BY <1>0, <1>1, <1>2, <1>3, <2>1, QuietSame DEF Early
  <1> QED BY <1>1, <1>4, <1>5

\* So does the note that it was made.
LEMMA AskedCap == ASSUME Inv, CapInv, NEW p \in Process, Asked(p) PROVE CapInv'
  <1>0. PICK j : j = op[p].job OBVIOUS
  <1>1. /\ op[p].at = "asked" /\ op[p].at # "idle" /\ UNCHANGED <<reservation, late>>
        /\ \/ rec' = [rec EXCEPT ![j].asked = TRUE] /\ Goto(p, "look")
           \/ Leave(p, j) /\ UNCHANGED rec
    BY <1>0 DEF Asked, At
  <1>2. j \in Job /\ EarlyOk(p) /\ rec[j] \in JobRec BY <1>0, <1>1, Underway DEF CapInv
  <1>3. Step(p) /\ ~Ender(p, j) BY <1>1, AskedStep DEF Ender
  <1>4. CASE rec' = [rec EXCEPT ![j].asked = TRUE] /\ Goto(p, "look")
    <2>1. /\ op'[p].at = "look" /\ op'[p].kind = op[p].kind
          /\ \A q \in Process : q # p => op'[q] = op[q]
      BY <1>4, GotoShape, Labels DEF Inv
    <2>2. EarlyOk(p)' BY <1>1, <1>2, <2>1 DEF EarlyOk
    <2>3. /\ rec'[j].status = rec[j].status /\ rec'[j].mode = rec[j].mode
          /\ \A i \in Job : i # j => rec'[i] = rec[i]
      BY <1>2, <1>4 DEF Inv, Typed, JobRec
    <2>4. Covered(p, j) BY <1>1, <1>3, <2>3 DEF Covered, Waits
    <2>5. QED BY <1>0, <1>1, <1>2, <1>3, <2>1, <2>2, <2>3, <2>4, Quiet
  <1>5. CASE Leave(p, j) /\ UNCHANGED rec
    <2>1. op'[p].at = "idle" /\ \A q \in Process : q # p => op'[q] = op[q]
      BY <1>2, <1>5, LeaveShape DEF Inv
    <2>2. QED BY <1>0, <1>1, <1>2, <1>3, <1>5, <2>1, QuietSame DEF Early
  <1> QED BY <1>1, <1>4, <1>5

\* An observer that goes on to apply an ending to an ending knows of it.
LEMMA LookCap == ASSUME Inv, CapInv, NEW p \in Process, Look(p) PROVE CapInv'
  <1>0. PICK j : j = op[p].job OBVIOUS
  <1>1. op[p].at = "look" /\ op[p].at # "idle" /\ UNCHANGED <<rec, reservation, late>>
    BY DEF Look, At, store
  <1>2. j \in Job /\ EarlyOk(p) /\ OpOk(p) /\ op[p] \in OpRec /\ work[j] \in Work
    BY <1>0, <1>1, Underway DEF CapInv, Inv, Typed
  <1>3. Step(p) /\ ~Ender(p, j) BY <1>1, LookStep DEF Ender
  <1>4. PICK label \in {"deliver", "finish", "apply"}, s \in Seen :
          op' = [op EXCEPT ![p].at = label, ![p].saw = s]
    BY <1>0, <1>2 DEF Look, OpRec, Seen
  <1>8. Typed /\ label \in Label BY <1>4, Labels DEF Inv
  <1>5. /\ op'[p].at = label /\ op'[p].job = op[p].job /\ op'[p].kind = op[p].kind
        /\ op'[p].was = op[p].was
        /\ \A q \in Process : q # p => op'[q] = op[q]
    BY <1>4, <1>8, SawShape
  <1>6. op[p].was \in Ending => rec'[j].status \in Ending
    BY <1>0, <1>1, <1>2 DEF OpOk, CapInv
  <1>7. EarlyOk(p)' BY <1>0, <1>1, <1>2, <1>5, <1>6 DEF EarlyOk
  <1> QED BY <1>0, <1>1, <1>2, <1>3, <1>5, <1>7, QuietSame

\* An announcement keeps the operation on its way.
LEMMA DeliverCap == ASSUME Inv, CapInv, NEW p \in Process, Deliver(p) PROVE CapInv'
  <1>0. PICK j : j = op[p].job OBVIOUS
  <1>1. /\ op[p].at = "deliver" /\ op[p].at # "idle" /\ (Goto(p, "ack") \/ Goto(p, "finish"))
        /\ UNCHANGED <<rec, reservation, late>>
    BY DEF Deliver, At, store
  <1>2. j \in Job BY <1>0, <1>1, Underway
  <1>3. /\ op'[p].at \in {"ack", "finish"} /\ op'[p].job = op[p].job
        /\ op'[p].kind = op[p].kind /\ op'[p].saw = op[p].saw /\ op'[p].was = op[p].was
        /\ \A q \in Process : q # p => op'[q] = op[q]
    BY <1>1, GotoShape, Labels DEF Inv
  <1>4. Step(p) BY DeliverStep
  <1>5. (Ender(p, j) => Ender(p, j)') /\ op'[p].at \notin Early
    BY <1>1, <1>3 DEF Ender, Early
  <1> QED BY <1>0, <1>1, <1>2, <1>3, <1>4, <1>5, QuietSame

\* The receipt of an announcement is stored: "ack" is assumed not to fail.
LEMMA AckCap ==
    ASSUME Inv, CapInv, "ack" \notin Fault, NEW p \in Process, Ack(p) PROVE CapInv'
  <1>0. PICK j : j = op[p].job OBVIOUS
  <1>1. /\ op[p].at = "ack" /\ op[p].at # "idle" /\ UNCHANGED <<reservation, late>>
        /\ rec' = [rec EXCEPT ![j].delivered = @ \cup {op[p].saw}]
        /\ op' = [op EXCEPT ![p].at = "finish", ![p].saw = rec[j].status]
    BY <1>0 DEF Ack, At, Fails
  <1>2. j \in Job /\ rec[j] \in JobRec BY <1>0, <1>1, Underway
  <1>3. Step(p) BY AckStep
  <1>4. rec[j].status \in Seen /\ "finish" \in Label /\ Typed
    BY <1>2, RecValues, Labels DEF Seen, Inv
  <1>5. /\ op'[p].at = "finish" /\ op'[p].job = op[p].job /\ op'[p].kind = op[p].kind
        /\ op'[p].saw = rec[j].status /\ op'[p].was = op[p].was
        /\ \A q \in Process : q # p => op'[q] = op[q]
    BY <1>1, <1>4, SawShape
  <1>6. /\ rec'[j].status = rec[j].status /\ rec'[j].mode = rec[j].mode
        /\ \A i \in Job : i # j => rec'[i] = rec[i]
    BY <1>1, <1>2 DEF Inv, Typed, JobRec
  <1>7. Covered(p, j) BY <1>0, <1>1, <1>5, <1>6 DEF Covered, Waits, Ender
  <1> QED BY <1>0, <1>1, <1>2, <1>3, <1>5, <1>6, <1>7, Quiet DEF Early

\* A call that announced the ending it brought about ends the admission.
LEMMA FinishCap == ASSUME Inv, CapInv, NEW p \in Process, Finish(p) PROVE CapInv'
  <1>0. PICK j : j = op[p].job OBVIOUS
  <1>1. /\ op[p].at = "finish" /\ op[p].at # "idle" /\ UNCHANGED <<rec, reservation, late>>
        /\ \/ Goto(p, "end")
           \/ /\ op[p].saw \notin Ending \/ (op[p].kind = "observe" /\ op[p].was \in Ending)
              /\ Leave(p, j)
    BY <1>0 DEF Finish, At, store
  <1>2. j \in Job BY <1>0, <1>1, Underway
  <1>3. Step(p) BY FinishStep
  <1>4. CASE Goto(p, "end")
    <2>1. /\ op'[p].at = "end" /\ op'[p].job = j /\ \A q \in Process : q # p => op'[q] = op[q]
      BY <1>0, <1>4, GotoShape, Labels DEF Inv
    <2>2. Ender(p, j)' BY <2>1 DEF Ender
    <2>3. QED BY <1>0, <1>1, <1>2, <1>3, <2>1, <2>2, QuietSame DEF Early
  <1>5. CASE /\ op[p].saw \notin Ending \/ (op[p].kind = "observe" /\ op[p].was \in Ending)
             /\ Leave(p, j)
    <2>1. op'[p].at = "idle" /\ \A q \in Process : q # p => op'[q] = op[q]
      BY <1>2, <1>5, LeaveShape DEF Inv
    <2>2. ~Ender(p, j) BY <1>1, <1>5 DEF Ender
    <2>3. QED BY <1>0, <1>1, <1>2, <1>3, <2>1, <2>2, QuietSame DEF Early
  <1> QED BY <1>1, <1>4, <1>5

\* A step that keeps an ender on its way, or takes the reservation of its job
\* out of the bound phase.
LEMMA EnderCap ==
    ASSUME Inv, CapInv, NEW p \in Process, NEW j \in Job, Step(p),
           op[p].at # "idle", op[p].job = j, late' = late,
           rec' = rec \/ \E b \in BOOLEAN : rec' = [rec EXCEPT ![j].marked = b],
           \A i \in Job : i # j => reservation'[i] = reservation[i],
           \/ \E label \in {"mark", "release", "error", "unrecorded"} : Goto(p, label)
           \/ Leave(p, j) /\ reservation'[j] # "bound"
    PROVE  CapInv'
  <1>1. /\ rec'[j].status = rec[j].status /\ rec'[j].mode = rec[j].mode
        /\ \A i \in Job : i # j => rec'[i] = rec[i]
    BY MarkedOrNot DEF Inv
  <1>2. CASE \E label \in {"mark", "release", "error", "unrecorded"} : Goto(p, label)
    <2>1. /\ op'[p].at \in {"mark", "release", "error", "unrecorded"} /\ op'[p].job = j
          /\ \A q \in Process : q # p => op'[q] = op[q]
      BY <1>2, GotoShape, Labels DEF Inv
    <2>2. Covered(p, j) /\ op'[p].at \notin Early BY <2>1 DEF Covered, Ender, Early
    <2>3. QED BY <1>1, <2>1, <2>2, Quiet
  <1>3. CASE Leave(p, j) /\ reservation'[j] # "bound"
    <2>1. op'[p].at = "idle" /\ \A q \in Process : q # p => op'[q] = op[q]
      BY <1>3, LeaveShape DEF Inv
    <2>2. Covered(p, j) /\ op'[p].at \notin Early BY <1>3, <2>1 DEF Covered, Waits, Early
    <2>3. QED BY <1>1, <2>1, <2>2, Quiet
  <1> QED BY <1>2, <1>3

\* finalizeAdmission without resources here: the reservation is released.
LEMMA EndCap == ASSUME Inv, CapInv, NEW p \in Process, End(p) PROVE CapInv'
  <1>0. PICK j : j = op[p].job OBVIOUS
  <1>1. op[p].at = "end" /\ op[p].at # "idle" /\ late' = late BY DEF End, At
  <1>2. j \in Job /\ Step(p) BY <1>0, <1>1, Underway, EndStep
  <1>3. reservation \in [Job -> Phase] BY DEF Inv, Typed
  <1>4. CASE UNCHANGED <<rec, reservation>> /\ \E label \in {"mark", "error"} : Goto(p, label)
    BY <1>0, <1>1, <1>2, <1>4, EnderCap
  <1>5. CASE ReleaseJob(j) /\ Done(p, j)
    <2>1. /\ reservation'[j] # "bound"
          /\ \A i \in Job : i # j => reservation'[i] = reservation[i]
      BY <1>2, <1>3, <1>5 DEF ReleaseJob, Bound
    <2>2. Leave(p, j) /\ (rec' = rec \/ \E b \in BOOLEAN : rec' = [rec EXCEPT ![j].marked = b])
      BY <1>5 DEF Done
    <2>3. QED BY <1>0, <1>1, <1>2, <2>1, <2>2, EnderCap
  <1> QED BY <1>0, <1>4, <1>5 DEF End

\* finalizeAdmission with resources: the reservation waits for its release.
LEMMA MarkCap == ASSUME Inv, CapInv, NEW p \in Process, Mark(p) PROVE CapInv'
  <1>0. PICK j : j = op[p].job OBVIOUS
  <1>1. /\ op[p].at = "mark" /\ op[p].at # "idle" /\ UNCHANGED <<rec, late>>
        /\ \E label \in {"release", "error"} : Goto(p, label)
    BY DEF Mark, At
  <1>2. j \in Job /\ Step(p) BY <1>0, <1>1, Underway, MarkStep
  <1>3. reservation \in [Job -> Phase] BY DEF Inv, Typed
  <1>4. \A i \in Job : i # j => reservation'[i] = reservation[i]
    BY <1>0, <1>3 DEF Mark
  <1> QED BY <1>0, <1>1, <1>2, <1>4, EnderCap

\* The release of the resources, or an error on the way to it.
LEMMA ReleaseCap == ASSUME Inv, CapInv, NEW p \in Process, Release(p) PROVE CapInv'
  <1>0. PICK j : j = op[p].job OBVIOUS
  <1>1. op[p].at = "release" /\ op[p].at # "idle" /\ late' = late BY DEF Release, At
  <1>2. j \in Job /\ Step(p) BY <1>0, <1>1, Underway, ReleaseStep
  <1>3. reservation \in [Job -> Phase] BY DEF Inv, Typed
  <1>4. CASE UNCHANGED <<rec, reservation>> /\ Goto(p, "error")
    BY <1>0, <1>1, <1>2, <1>4, EnderCap
  <1>5. CASE reservation' = [reservation EXCEPT ![j] = "none"] /\ Done(p, j)
    <2>1. /\ reservation'[j] # "bound"
          /\ \A i \in Job : i # j => reservation'[i] = reservation[i]
      BY <1>2, <1>3, <1>5
    <2>2. Leave(p, j) /\ (rec' = rec \/ \E b \in BOOLEAN : rec' = [rec EXCEPT ![j].marked = b])
      BY <1>5 DEF Done
    <2>3. QED BY <1>0, <1>1, <1>2, <2>1, <2>2, EnderCap
  <1> QED BY <1>0, <1>4, <1>5 DEF Release

\* A failure leaves the reservation unresolved, for an operator to see.
LEMMA ErrorCap ==
    ASSUME Inv, CapInv, "unresolve" \notin Fault, NEW p \in Process, Error(p) PROVE CapInv'
  <1>0. PICK j : j = op[p].job OBVIOUS
  <1>1. /\ op[p].at = "error" /\ op[p].at # "idle" /\ late' = late /\ Unresolve(j)
        /\ rec' = rec \/ \E b \in BOOLEAN : rec' = [rec EXCEPT ![j].marked = b]
        /\ Goto(p, "unrecorded") \/ Leave(p, j)
    BY <1>0 DEF Error, At
  <1>2. j \in Job /\ Step(p) BY <1>0, <1>1, Underway, ErrorStep
  <1>3. reservation \in [Job -> Phase] BY DEF Inv, Typed
  <1>4. /\ reservation'[j] # "bound"
        /\ \A i \in Job : i # j => reservation'[i] = reservation[i]
    BY <1>1, <1>2, <1>3 DEF Unresolve, Bound
  <1> QED BY <1>0, <1>1, <1>2, <1>4, EnderCap

\* A result that could not be stored leaves the job to an operator.
LEMMA UnrecordedCap ==
    ASSUME Inv, CapInv, "unresolve" \notin Fault, NEW j \in Job, Unrecorded(j) PROVE CapInv'
  <1>1. /\ op[j].at = "unrecorded" /\ op[j].at # "idle" /\ late' = late /\ Unresolve(j)
        /\ rec' = rec \/ \E b \in BOOLEAN : rec' = [rec EXCEPT ![j].marked = b]
        /\ Leave(j, j) /\ j \in Process
    BY DEF Unrecorded, At, Process
  <1>2. op[j].job = j BY <1>1, Underway DEF OpOk
  <1>3. Step(j) BY UnrecordedStep
  <1>4. reservation \in [Job -> Phase] BY DEF Inv, Typed
  <1>5. /\ reservation'[j] # "bound"
        /\ \A i \in Job : i # j => reservation'[i] = reservation[i]
    BY <1>1, <1>4 DEF Unresolve, Bound
  <1> QED BY <1>1, <1>2, <1>3, <1>5, EnderCap

\* An execution takes the lock of the workspace.
LEMMA TakeTreeCap == ASSUME Inv, CapInv, NEW j \in Job, TakeTree(j) PROVE CapInv'
  <1>1. /\ op[j].at = "start" /\ op[j].at # "idle" /\ UNCHANGED <<rec, reservation, late>>
        /\ Goto(j, "claim") /\ j \in Process
    BY DEF TakeTree, At, Process, store
  <1>2. op[j].job = j BY <1>1, Underway DEF OpOk
  <1>3. Step(j) /\ ~Ender(j, j) BY <1>1, TakeTreeStep DEF Ender
  <1>4. op'[j].at = "claim" /\ \A q \in Process : q # j => op'[q] = op[q]
    BY <1>1, GotoShape, Labels DEF Inv
  <1> QED BY <1>1, <1>2, <1>3, <1>4, QuietSame DEF Early

\* A commit takes its locks.
LEMMA CommitCap == ASSUME Inv, CapInv, NEW c \in Caller, Commit(c) PROVE CapInv'
  <1>0. PICK j : j = op[c].job OBVIOUS
  <1>1. /\ op[c].at \in {"enter", "commit"} /\ op[c].at # "idle"
        /\ UNCHANGED <<rec, reservation, late>>
        /\ Goto(c, "commit") \/ Leave(c, j)
        /\ c \in Process
    BY <1>0 DEF Commit, CommitLocks, At, Process, store
  <1>2. j \in Job BY <1>0, <1>1, Underway
  <1>3. Step(c) /\ ~Ender(c, j) BY <1>1, CommitStep DEF Ender
  <1>4. op'[c].at \in {"commit", "idle"} /\ \A q \in Process : q # c => op'[q] = op[q]
    BY <1>1, <1>2, GotoShape, LeaveShape, Labels DEF Inv
  <1> QED BY <1>0, <1>1, <1>2, <1>3, <1>4, QuietSame DEF Early

\* A dispatch that fails goes on to end the job.
LEMMA DispatchCap ==
    ASSUME Inv, CapInv, "sent" \notin Fault, NEW p \in Process, Dispatch(p) PROVE CapInv'
  <1>0. PICK j : j = op[p].job OBVIOUS
  <1>1. /\ op[p].at = "dispatch" /\ op[p].at # "idle" /\ UNCHANGED <<rec, reservation, late>>
        /\ Goto(p, "undispatched") \/ Return(p)
    BY DEF Dispatch, At, store
  <1>2. j \in Job BY <1>0, <1>1, Underway
  <1>3. Step(p) /\ ~Ender(p, j) BY <1>1, DispatchStep DEF Ender
  <1>4. op'[p].at \in {"undispatched", "idle"} /\ \A q \in Process : q # p => op'[q] = op[q]
    BY <1>1, GotoShape, ReturnShape, Labels DEF Inv
  <1> QED BY <1>0, <1>1, <1>2, <1>3, <1>4, QuietSame DEF Early

\* A request that begins, and writes nothing to the store of jobs.
LEMMA Fresh ==
    ASSUME Inv, CapInv, NEW p \in Process, NEW j \in Job, Step(p), p \notin Job,
           op[p].at = "idle", UNCHANGED <<rec, late>>,
           \A i \in Job : i # j => reservation'[i] = reservation[i],
           reservation'[j] = "bound" => reservation[j] = "bound",
           \A q \in Process : q # p => op'[q] = op[q],
           op'[p].at \notin Early \/ EarlyOk(p)'
    PROVE  CapInv'
  <1>1. Covered(p, j) BY DEF Covered, Waits, Ender
  <1>2. CapStep(p, j) BY <1>1, LateOk DEF CapStep
  <1>3. Going /\ UNCHANGED <<external, up>> BY Combine DEF Step
  <1> QED BY <1>2, <1>3, CapCombine

\* A submission reserves for a job that is not there yet.
LEMMA SubmitCap ==
    ASSUME Inv, CapInv, NEW c \in Caller, NEW j \in Job, Submit(c, j) PROVE CapInv'
  <1>1. /\ op[c].at = "idle" /\ rec[j] = NoJob /\ UNCHANGED <<rec, late>>
        /\ reservation' = [reservation EXCEPT ![j] = "reserved"]
        /\ Begin(c, "submit", j, "create") /\ c \in Process /\ c \notin Job
    BY ProcessAssumption DEF Submit, At, Process
  <1>2. /\ op'[c].at = "create" /\ op'[c].job = j /\ op'[c].kind = "submit"
        /\ \A q \in Process : q # c => op'[q] = op[q]
    BY <1>1, BeginShape, Labels DEF Inv
  <1>3. j \notin late BY <1>1, RecValues DEF CapInv
  <1>4. EarlyOk(c)' BY <1>1, <1>2, <1>3 DEF EarlyOk
  <1>5. /\ reservation'[j] # "bound"
        /\ \A i \in Job : i # j => reservation'[i] = reservation[i]
    BY <1>1 DEF Inv, Typed
  <1>6. Step(c) BY SubmitStep
  <1> QED BY <1>1, <1>2, <1>4, <1>5, <1>6, Fresh

\* An observation or a cancellation takes the lock of the job.
LEMMA EnterCap ==
    ASSUME Inv, CapInv, NEW p \in Caller \cup {Poller}, NEW j \in Job, Step(p),
           NEW kind \in {"cancel", "observe"}, NEW label \in {"ask", "look"},
           Enter(p, kind, j, label), op[p].at = "idle", UNCHANGED <<rec, reservation, late>>
    PROVE  CapInv'
  <1>1. p \in Process /\ p \notin Job BY ProcessAssumption DEF Process
  <1>2. /\ op'[p].at = label /\ op'[p].kind = kind
        /\ \A q \in Process : q # p => op'[q] = op[q]
    BY <1>1, EnterShape, Labels DEF Inv
  <1>3. EarlyOk(p)' BY <1>2 DEF EarlyOk
  <1> QED BY <1>1, <1>2, <1>3, Fresh

\* An observation begins.
LEMMA ObserveCap ==
    ASSUME Inv, CapInv, NEW p \in Caller \cup {Poller}, NEW j \in Job, Observe(p, j) PROVE CapInv'
  <1>1. op[p].at = "idle" /\ Enter(p, "observe", j, "look") /\ UNCHANGED <<rec, reservation, late>>
    BY DEF Observe, At, store
  <1> QED BY <1>1, ObserveStep, EnterCap

\* The cancellation of a job at a worker begins.
LEMMA CancelExternalCap ==
    ASSUME Inv, CapInv, NEW c \in Caller, NEW j \in Job, CancelExternal(c, j) PROVE CapInv'
  <1>1. PICK label \in {"ask", "look"} : Enter(c, "cancel", j, label)
    BY DEF CancelExternal
  <1>2. op[c].at = "idle" /\ UNCHANGED <<rec, reservation, late>>
    BY DEF CancelExternal, At, store
  <1> QED BY <1>1, <1>2, CancelExternalStep, EnterCap

\* A commit begins.
LEMMA CommitEnterCap ==
    ASSUME Inv, CapInv, NEW c \in Caller, NEW j \in Job, CommitEnter(c, j) PROVE CapInv'
  <1>1. /\ op[c].at = "idle" /\ Begin(c, "commit", j, "enter") /\ c \in Process /\ c \notin Job
        /\ UNCHANGED <<rec, reservation, late>>
    BY ProcessAssumption DEF CommitEnter, At, store, Process
  <1>2. op'[c].at = "enter" /\ \A q \in Process : q # c => op'[q] = op[q]
    BY <1>1, BeginShape, Labels DEF Inv
  <1> QED BY <1>1, <1>2, CommitEnterStep, Fresh DEF Early

\* A job a request knows of, or whose approval expires, is not being bound.
LEMMA KnownNoBinder ==
    ASSUME CapInv, NEW p, NEW j \in Job, (~EarlyRequests /\ Known(j)) \/ j \in late
    PROVE  NoBinder(p, j)
  <1> SUFFICES ASSUME NEW q \in Process, op[q].at = "bind", op[q].job = j PROVE FALSE
    BY DEF NoBinder
  <1>1. q \in Caller /\ op[q].kind = "submit" /\ j \notin late BY DEF CapInv, EarlyOk
  <1> QED BY <1>1 DEF Known, Submitting

\* A step that changes a job nobody else is about to bind.
LEMMA Changes ==
    ASSUME Inv, CapInv, NEW p \in Process, NEW j \in Job, Step(p), late' = late,
           \/ op[p].at = "idle" /\ p \notin Job
           \/ op[p].at # "idle" /\ op[p].job = j,
           \A i \in Job : i # j => rec'[i] = rec[i] /\ reservation'[i] = reservation[i],
           Covered(p, j), NoBinder(p, j), op'[p].at \notin Early \/ EarlyOk(p)',
           \A q \in Process : q # p =>
              op'[q] = op[q] \/ (q = j /\ op'[q].at = "start" /\ rec'[j].status \notin Ending)
    PROVE  CapInv'
  <1>1. rec[j].status # "absent" => rec'[j].status # "absent" BY DEF Step, JobStep
  <1>2. CapStep(p, j) BY <1>1, LateOk DEF CapStep
  <1>3. Going /\ UNCHANGED <<external, up>> BY Combine DEF Step
  <1> QED BY <1>2, <1>3, CapCombine

\* Before the job is there nobody binds it and nothing executes it.
LEMMA CreateCap == ASSUME Inv, CapInv, NEW p \in Process, Create(p) PROVE CapInv'
  <1>0. PICK j : j = op[p].job OBVIOUS
  <1>1. op[p].at = "create" /\ op[p].at # "idle" /\ UNCHANGED <<external, late>>
    BY DEF Create, At
  <1>2. OpOk(p) /\ EarlyOk(p) /\ j \in Job BY <1>0, <1>1, Underway DEF CapInv
  <1>3. /\ Step(p) /\ ~Ender(p, j) /\ rec[j] = NoJob /\ rec[j].status = "absent"
    BY <1>0, <1>1, <1>2, CreateStep, RecValues DEF OpOk, Ender
  <1>4. p \in Caller /\ op[p].kind = "submit" /\ j \notin late /\ j # p
    BY <1>0, <1>1, <1>2, ProcessAssumption DEF EarlyOk
  <1>5. NoBinder(p, j)
    <2> SUFFICES ASSUME NEW q \in Process, op[q].at = "bind", op[q].job = j PROVE FALSE
      BY DEF NoBinder
    <2>1. OpOk(q) BY DEF Inv, OpInv
    <2>2. QED BY <1>3, <2>1 DEF OpOk
  <1>6. op[j].at = "idle"
    <2>1. OpOk(j) BY <1>2 DEF Inv, OpInv, Process
    <2>2. rec[j].status \notin Past BY <1>3 DEF Past, Busy, Ending
    <2>3. Executing \subseteq Working BY DEF Executing, Working
    <2>4. op[j].at # "idle" => op[j].job = j /\ op[j].at \in Working
      BY <1>2, <2>1, <2>3 DEF OpOk
    <2>5. QED BY <2>1, <2>2, <2>4 DEF OpOk
  <1>7. CASE /\ \/ rec' = [rec EXCEPT ![j].status = "queued"]
                \/ rec' = [rec EXCEPT ![j].mode = "workspace-write",
                        ![j].status = "awaiting_approval", ![j].approval = "pending"]
             /\ Goto(p, "bind") /\ UNCHANGED reservation
    <2>1. /\ op'[p].at = "bind" /\ op'[p].job = j /\ op'[p].kind = op[p].kind
          /\ \A q \in Process : q # p => op'[q] = op[q]
      BY <1>0, <1>7, GotoShape, Labels DEF Inv
    <2>2. /\ \A i \in Job : i # j => rec'[i] = rec[i]
          /\ \/ rec'[j].mode = "read-only" /\ rec'[j].status = "queued"
             \/ rec'[j].mode = "workspace-write" /\ rec'[j].status = "awaiting_approval"
      <3>1. NoJob \in JobRec /\ NoJob.mode = "read-only" BY RecValues DEF NoJob
      <3>2. rec \in [Job -> JobRec] BY DEF Inv, Typed
      <3>3. QED BY <1>2, <1>3, <1>7, <3>1, <3>2 DEF JobRec
    <2>3. op'[j].at = "idle" BY <1>2, <1>4, <1>6, <2>1 DEF Process
    <2>4. EarlyOk(p)' BY <1>1, <1>4, <2>1, <2>2, <2>3 DEF EarlyOk
    <2>5. Covered(p, j) BY <2>2 DEF Covered, Waits, Ending
    <2>6. QED BY <1>0, <1>1, <1>2, <1>3, <1>5, <1>7, <2>1, <2>2, <2>4, <2>5, Changes
  <1>8. CASE Withdraw(j) /\ Return(p) /\ UNCHANGED rec
    <2>1. op'[p].at = "idle" /\ \A q \in Process : q # p => op'[q] = op[q]
      BY <1>8, ReturnShape DEF Inv
    <2>2. \A i \in Job : i # j => reservation'[i] = reservation[i]
      BY <1>8 DEF Withdraw, Inv, Typed
    <2>3. Covered(p, j) BY <1>3, <1>8 DEF Covered, Waits, Ending
    <2>4. QED BY <1>0, <1>1, <1>2, <1>3, <1>5, <1>8, <2>1, <2>2, <2>3, Changes DEF Early
  <1> QED BY <1>0, <1>7, <1>8 DEF Create

\* The job that is bound is not over, so its capacity may be taken.
LEMMA BindCap == ASSUME Inv, CapInv, NEW p \in Process, Bind(p) PROVE CapInv'
  <1>0. PICK j : j = op[p].job OBVIOUS
  <1>1. /\ op[p].at = "bind" /\ op[p].at # "idle" /\ UNCHANGED <<rec, late>>
        /\ reservation' = [reservation EXCEPT ![j] = "bound"] \/ Withdraw(j)
    BY <1>0 DEF Bind, At
  <1>2. EarlyOk(p) /\ j \in Job BY <1>0, <1>1, Underway DEF CapInv
  <1>3. Step(p) /\ p \notin Job
    BY <1>1, <1>2, BindStep, ProcessAssumption DEF EarlyOk
  <1>4. rec'[j].status \notin Ending /\ Covered(p, j)
    BY <1>0, <1>1, <1>2 DEF EarlyOk, Covered, Waits, Ending
  <1>5. \A i \in Job : i # j => rec'[i] = rec[i] /\ reservation'[i] = reservation[i]
    BY <1>1 DEF Withdraw, Inv, Typed
  <1>6. CASE Goto(p, "dispatch") \/ Return(p)
    <2>1. op'[p].at \in {"dispatch", "idle"} /\ \A q \in Process : q # p => op'[q] = op[q]
      BY <1>6, GotoShape, ReturnShape, Labels DEF Inv
    <2>2. QED BY <1>0, <1>1, <1>2, <1>3, <1>4, <1>5, <2>1, Quiet DEF Early
  <1>7. CASE rec[j].mode = "read-only" /\ op' = Launched([op EXCEPT ![p] = Idle], j)
    <2>1. PICK f : f = [op EXCEPT ![p] = Idle] OBVIOUS
    <2>2. /\ f \in [Process -> OpRec] /\ f[p] = Idle
          /\ \A q \in Process : q # p => f[q] = op[q]
      BY <2>1, IdleValues DEF Inv, Typed
    <2>3. /\ op'[j].at = "start" /\ \A q \in Process : q # j => op'[q] = f[q]
      <3>1. op' = Launched(f, j) BY <1>7, <2>1
      <3>2. QED BY <1>2, <2>2, <3>1, LaunchedShape
    <2>4. op'[p].at = "idle" BY <1>2, <1>3, <2>2, <2>3, IdleValues
    <2>5. \A q \in Process : q # p =>
              op'[q] = op[q] \/ (q = j /\ op'[q].at = "start" /\ rec'[j].status \notin Ending)
      BY <1>4, <2>2, <2>3
    <2>6. NoBinder(p, j)
      <3> SUFFICES ASSUME NEW q \in Process, q # p, op[q].at = "bind", op[q].job = j PROVE FALSE
        BY DEF NoBinder
      <3>1. Launcher(q) /\ Launcher(p) BY <1>0, <1>1, <1>7 DEF Launcher
      <3>2. QED BY <1>0, <3>1 DEF Inv, OneLauncher
    <2>7. QED BY <1>0, <1>1, <1>2, <1>3, <1>4, <1>5, <2>4, <2>5, <2>6, Changes DEF Early
  <1> QED BY <1>0, <1>6, <1>7 DEF Bind

\* Nobody is about to bind a job whose work is known, or that is executed.
LEMMA BusyNoBinder ==
    ASSUME Inv, CapInv, NEW p, NEW j \in Job,
           (external /\ work[j] # "none") \/ op[j].at # "idle"
    PROVE  NoBinder(p, j)
  <1> SUFFICES ASSUME NEW q \in Process, op[q].at = "bind", op[q].job = j PROVE FALSE
    BY DEF NoBinder
  <1>1. OpOk(q) /\ EarlyOk(q) /\ JobOk(j) /\ OpOk(j) BY DEF Inv, OpInv, JobInv, CapInv, Process
  <1>2. CASE external /\ work[j] # "none"
    BY <1>1, <1>2 DEF OpOk, EarlyOk, JobOk
  <1>3. CASE op[j].at # "idle"
    <2>1. Executing \subseteq Working BY DEF Executing, Working
    <2>2. ~external /\ op[j].job = j /\ op[j].at \in Working BY <1>1, <1>3, <2>1 DEF OpOk
    <2>3. rec[j].status \in Past BY <1>1, <2>2 DEF OpOk
    <2>4. rec[j].status # "awaiting_approval" BY <2>3 DEF Past, Busy, Ending
    <2>5. QED BY <1>1, <1>3, <2>2, <2>4 DEF EarlyOk
  <1> QED BY <1>2, <1>3

\* A dispatch that failed ends a job nobody else is about to bind.
LEMMA UndispatchedCap == ASSUME Inv, CapInv, NEW p \in Process, Undispatched(p) PROVE CapInv'
  <1>0. PICK j : j = op[p].job OBVIOUS
  <1>1. op[p].at = "undispatched" /\ op[p].at # "idle" /\ UNCHANGED <<reservation, late>>
    BY DEF Undispatched, At
  <1>2. OpOk(p) /\ j \in Job /\ rec[j] \in JobRec BY <1>0, <1>1, Underway
  <1>3. Step(p) /\ ~Ender(p, j) BY <1>1, UndispatchedStep DEF Ender
  <1>4. NoBinder(p, j)
    <2> SUFFICES ASSUME NEW q \in Process, q # p, op[q].at = "bind", op[q].job = j PROVE FALSE
      BY DEF NoBinder
    <2>1. EarlyOk(q) /\ rec[j].status = "queued" BY <1>0, <1>1, <1>2 DEF CapInv, OpOk
    <2>2. Launcher(q) /\ Launcher(p) BY <1>1, <2>1 DEF Launcher, EarlyOk
    <2>3. QED BY <1>0, <2>2 DEF Inv, OneLauncher
  <1>5. CASE Update(j, [rec[j] EXCEPT !.status = "failed"]) /\ Goto(p, "end")
    <2>1. op'[p].at = "end" /\ op'[p].job = j /\ \A q \in Process : q # p => op'[q] = op[q]
      BY <1>0, <1>5, GotoShape, Labels DEF Inv
    <2>2. Covered(p, j) BY <2>1 DEF Covered, Ender
    <2>3. \A i \in Job : i # j => rec'[i] = rec[i] BY <1>2, <1>5 DEF Update, Inv, Typed
    <2>4. QED BY <1>0, <1>1, <1>2, <1>3, <1>4, <2>1, <2>2, <2>3, Changes DEF Early
  <1>6. CASE Return(p) /\ UNCHANGED rec
    <2>1. op'[p].at = "idle" /\ \A q \in Process : q # p => op'[q] = op[q]
      BY <1>6, ReturnShape DEF Inv
    <2>2. QED BY <1>0, <1>1, <1>2, <1>3, <1>6, <2>1, QuietSame DEF Early
  <1> QED BY <1>0, <1>5, <1>6 DEF Undispatched

\* The observation that brought an ending about is the one that ends the
\* admission; a repeated observation of an ending leaves it to the first.
LEMMA ApplyCap == ASSUME Inv, CapInv, NEW p \in Process, Apply(p) PROVE CapInv'
  <1>0. PICK j : j = op[p].job OBVIOUS
  <1>1. op[p].at = "apply" /\ op[p].at # "idle" /\ UNCHANGED <<reservation, late>>
    BY DEF Apply, At
  <1>2. OpOk(p) /\ EarlyOk(p) /\ j \in Job /\ rec[j] \in JobRec /\ op[p] \in OpRec
    BY <1>0, <1>1, Underway DEF CapInv
  <1>3. Step(p) /\ ~Ender(p, j) BY <1>1, ApplyStep DEF Ender
  <1>4. external /\ work[j] # "none" /\ op[p].saw \in Busy \cup Ending
    BY <1>0, <1>1, <1>2 DEF OpOk, Guarded
  <1>5. NoBinder(p, j) BY <1>2, <1>4, BusyNoBinder
  <1>6. CASE Update(j, Observed(rec[j], op[p])) /\ Goto(p, "deliver")
    <2>1. /\ op'[p].at = "deliver" /\ op'[p].job = j /\ op'[p].kind = op[p].kind
          /\ op'[p].saw = op[p].saw /\ op'[p].was = op[p].was
          /\ \A q \in Process : q # p => op'[q] = op[q]
      BY <1>0, <1>6, GotoShape, Labels DEF Inv
    <2>2. PICK r : r = Observed(rec[j], op[p]) OBVIOUS
    <2>3. r \in JobRec /\ r.status = op[p].saw BY <1>2, <1>4, <2>2, ObservedValues
    <2>4. rec' = [rec EXCEPT ![j] = Settled(r, j)] BY <1>6, <2>2 DEF Update
    <2>5. rec'[j].status = op[p].saw /\ \A i \in Job : i # j => rec'[i] = rec[i]
      BY <1>2, <2>3, <2>4, UpdateShape DEF Inv
    <2>6. Covered(p, j)
      <3>1. op[p].was \in Ending => rec[j].status \in Ending BY <1>0, <1>1, <1>2 DEF EarlyOk
      <3>2. op[p].kind \in {"cancel", "observe"} BY <1>1, <1>2 DEF EarlyOk
      <3>3. QED BY <1>1, <1>3, <2>1, <2>5, <3>1, <3>2 DEF Covered, Waits, Ender
    <2>7. QED BY <1>0, <1>1, <1>2, <1>3, <1>5, <2>1, <2>5, <2>6, Changes DEF Early
  <1>7. CASE Leave(p, j) /\ UNCHANGED rec
    <2>1. op'[p].at = "idle" /\ \A q \in Process : q # p => op'[q] = op[q]
      BY <1>2, <1>7, LeaveShape DEF Inv
    <2>2. QED BY <1>0, <1>1, <1>2, <1>3, <1>7, <2>1, QuietSame DEF Early
  <1> QED BY <1>0, <1>6, <1>7 DEF Apply

\* A job that starts is not over.
LEMMA ClaimCap == ASSUME Inv, CapInv, NEW j \in Job, Claim(j) PROVE CapInv'
  <1>1. /\ op[j].at = "claim" /\ op[j].at # "idle" /\ UNCHANGED <<reservation, late>>
        /\ j \in Process
    BY DEF Claim, At, Process
  <1>2. op[j].job = j /\ rec[j] \in JobRec BY <1>1, Underway DEF OpOk
  <1>3. Step(j) /\ ~Ender(j, j) /\ NoBinder(j, j)
    BY <1>1, ClaimStep, BusyNoBinder DEF Ender
  <1>4. CASE rec' = [rec EXCEPT ![j].status = "running"] /\ Goto(j, "run")
    <2>1. op'[j].at = "run" /\ \A q \in Process : q # j => op'[q] = op[q]
      BY <1>1, <1>4, GotoShape, Labels DEF Inv
    <2>2. rec'[j].status = "running" /\ \A i \in Job : i # j => rec'[i] = rec[i]
      BY <1>2, <1>4 DEF Inv, Typed, JobRec
    <2>3. Covered(j, j) BY <2>2 DEF Covered, Waits, Ending
    <2>4. QED BY <1>1, <1>2, <1>3, <2>1, <2>2, <2>3, Changes DEF Early
  <1>5. CASE Leave(j, j) /\ UNCHANGED rec
    <2>1. op'[j].at = "idle" /\ \A q \in Process : q # j => op'[q] = op[q]
      BY <1>1, <1>5, LeaveShape DEF Inv
    <2>2. QED BY <1>1, <1>2, <1>3, <1>5, <2>1, QuietSame DEF Early
  <1> QED BY <1>4, <1>5 DEF Claim

\* The execution that stores a result goes on to end the admission.
LEMMA RecordCap == ASSUME Inv, CapInv, NEW j \in Job, Record(j) PROVE CapInv'
  <1>1. /\ op[j].at = "run" /\ op[j].at # "idle" /\ UNCHANGED <<reservation, late>>
        /\ j \in Process
    BY DEF Record, At, Process
  <1>2. op[j].job = j /\ rec[j] \in JobRec BY <1>1, Underway DEF OpOk
  <1>3. Step(j) /\ ~Ender(j, j) /\ NoBinder(j, j)
    BY <1>1, RecordStep, BusyNoBinder DEF Ender
  <1>4. PICK e \in {"completed", "failed"} :
             \/ /\ Update(j, [rec[j] EXCEPT !.status = e])
                /\ op' = [op EXCEPT ![j].at = "end", ![j].saw = e]
             \/ Goto(j, "unrecorded") /\ UNCHANGED rec
             \/ Leave(j, j) /\ UNCHANGED rec
    BY DEF Record
  <1>5. CASE /\ Update(j, [rec[j] EXCEPT !.status = e])
             /\ op' = [op EXCEPT ![j].at = "end", ![j].saw = e]
    <2>1. /\ op'[j].at = "end" /\ op'[j].job = j
          /\ \A q \in Process : q # j => op'[q] = op[q]
      <3>1. e \in Seen BY DEF Seen, Work, Ending
      <3>2. QED BY <1>1, <1>2, <1>5, <3>1, SawShape, Labels DEF Inv
    <2>2. \A i \in Job : i # j => rec'[i] = rec[i] BY <1>5 DEF Update, Inv, Typed
    <2>3. Covered(j, j) BY <2>1 DEF Covered, Ender
    <2>4. QED BY <1>1, <1>2, <1>3, <2>1, <2>2, <2>3, Changes DEF Early
  <1>6. CASE Goto(j, "unrecorded") /\ UNCHANGED rec
    <2>1. op'[j].at = "unrecorded" /\ \A q \in Process : q # j => op'[q] = op[q]
      BY <1>1, <1>6, GotoShape, Labels DEF Inv
    <2>2. QED BY <1>1, <1>2, <1>3, <1>6, <2>1, QuietSame DEF Early
  <1>7. CASE Leave(j, j) /\ UNCHANGED rec
    <2>1. op'[j].at = "idle" /\ \A q \in Process : q # j => op'[q] = op[q]
      BY <1>1, <1>7, LeaveShape DEF Inv
    <2>2. QED BY <1>1, <1>2, <1>3, <1>7, <2>1, QuietSame DEF Early
  <1> QED BY <1>4, <1>5, <1>6, <1>7

\* A request that found or made the job over is on its way at once.
LEMMA BeginEnder ==
    ASSUME Inv, NEW p \in Process, NEW j \in Job, NEW kind \in Kind,
           NEW label \in {"await", "end"}, Begin(p, kind, j, label)
    PROVE  /\ Covered(p, j) /\ op'[p].at \notin Early
           /\ \A q \in Process : q # p => op'[q] = op[q]
  <1>1. /\ op'[p].at = label /\ op'[p].job = j /\ \A q \in Process : q # p => op'[q] = op[q]
    BY BeginShape, Labels DEF Inv
  <1> QED BY <1>1 DEF Covered, Ender, Early

\* A refusal ends the admission, an approval launches what is not over.
LEMMA DecideCap ==
    ASSUME Inv, CapInv, ~EarlyRequests, NEW p \in Caller \cup {Expirer}, NEW j \in Job,
           NEW d, Decide(p, j, d)
    PROVE  CapInv'
  <1>1. /\ op[p].at = "idle" /\ UNCHANGED <<reservation, late>>
        /\ Known(j) \/ j \in late
        /\ p \in Process /\ p \notin Job
    BY ProcessAssumption DEF Decide, At, Process
  <1>2. Step(p) /\ NoBinder(p, j) BY <1>1, DecideStep, KnownNoBinder
  <1>3. rec[j] \in JobRec BY DEF Inv, Typed
  <1>4. CASE Accept(p, j)
    <2>1. PICK r : r = Accepted(rec[j]) OBVIOUS
    <2>2. r \in JobRec /\ r.status = "queued"
      BY <1>3, <2>1, Strings DEF Accepted, JobRec, Approval
    <2>3. rec' = [rec EXCEPT ![j] = r] BY <1>4, <2>1 DEF Accept, Approve
    <2>4. rec'[j].status = "queued" /\ \A i \in Job : i # j => rec'[i] = rec[i]
      BY <2>2, <2>3, RecChange DEF Inv
    <2>5. rec'[j].status \notin Ending /\ Covered(p, j) BY <2>4 DEF Covered, Waits, Ending
    <2>6. CASE Begin(p, "decide", j, "dispatch")
      <3>1. op'[p].at = "dispatch" /\ \A q \in Process : q # p => op'[q] = op[q]
        BY <1>1, <2>6, BeginShape, Labels DEF Inv
      <3>2. QED BY <1>1, <1>2, <2>4, <2>5, <3>1, Changes DEF Early
    <2>7. CASE op' = Launched(op, j)
      <3>1. op'[j].at = "start" /\ \A q \in Process : q # j => op'[q] = op[q]
        BY <2>7, LaunchedShape DEF Inv, Typed
      <3>2. op'[p].at = "idle" BY <1>1, <3>1
      <3>3. \A q \in Process : q # p =>
              op'[q] = op[q] \/ (q = j /\ op'[q].at = "start" /\ rec'[j].status \notin Ending)
        BY <2>5, <3>1
      <3>4. QED BY <1>1, <1>2, <2>4, <2>5, <3>2, <3>3, Changes DEF Early
    <2>8. QED BY <1>4, <2>6, <2>7 DEF Accept, Approve
  <1>5. CASE Refuse(p, j, d)
    <2>1. PICK kind \in {"expire", "decide"} : Begin(p, kind, j, "end") BY <1>5 DEF Refuse
    <2>2. \A i \in Job : i # j => rec'[i] = rec[i] BY <1>5 DEF Refuse, Inv, Typed
    <2>3. kind \in Kind BY Labels
    <2>4. /\ Covered(p, j) /\ op'[p].at \notin Early
          /\ \A q \in Process : q # p => op'[q] = op[q]
      BY <1>1, <2>1, <2>3, BeginEnder
    <2>5. QED BY <1>1, <1>2, <2>2, <2>4, Changes
  <1>6. CASE Replay(p, j, d)
    <2>1. Begin(p, "replay", j, "end") /\ rec' = rec BY <1>6 DEF Replay
    <2>2. /\ Covered(p, j) /\ op'[p].at \notin Early
          /\ \A q \in Process : q # p => op'[q] = op[q]
      BY <1>1, <2>1, BeginEnder, Labels
    <2>3. QED BY <1>1, <1>2, <2>1, <2>2, Changes
  <1> QED BY <1>4, <1>5, <1>6 DEF Decide

\* An operator ends the admission of what is settled.
LEMMA ReconcileCap ==
    ASSUME Inv, CapInv, ~EarlyRequests, NEW c \in Caller, NEW j \in Job, Reconcile(c, j)
    PROVE  CapInv'
  <1>1. /\ op[c].at = "idle" /\ UNCHANGED <<reservation, late>> /\ Known(j)
        /\ \E kind \in {"settle", "cleanup"} : Begin(c, kind, j, "end")
        /\ c \in Process /\ c \notin Job
    BY ProcessAssumption DEF Reconcile, At, Process
  <1>2. Step(c) /\ NoBinder(c, j) BY <1>1, ReconcileStep, KnownNoBinder
  <1>3. \A i \in Job : i # j => rec'[i] = rec[i] BY DEF Reconcile, Update, Inv, Typed
  <1>4. PICK kind \in {"settle", "cleanup"} : Begin(c, kind, j, "end") BY <1>1
  <1>5. kind \in Kind BY Labels
  <1>6. /\ Covered(c, j) /\ op'[c].at \notin Early
        /\ \A q \in Process : q # c => op'[q] = op[q]
    BY <1>1, <1>4, <1>5, BeginEnder
  <1> QED BY <1>1, <1>2, <1>3, <1>6, Changes

\* A step that touches neither jobs, reservations nor operations.
LEMMA NothingCap ==
    ASSUME CapInv, UNCHANGED <<external, up, rec, reservation, late, op>> PROVE CapInv'
  <1>1. \A p \in Process : EarlyOk(p)' BY DEF CapInv, EarlyOk
  <1>2. \A j \in Job : Attended(j)' BY DEF CapInv, Attended, Waits, Ender
  <1> QED BY <1>1, <1>2 DEF CapInv

\* A cancellation of a job here.
LEMMA CancelCap ==
    ASSUME Inv, CapInv, ~EarlyRequests, NEW c \in Caller, NEW j \in Job, Cancel(c, j)
    PROVE  CapInv'
  <1>1. /\ op[c].at = "idle" /\ UNCHANGED <<external, up, reservation, late>> /\ Known(j)
        /\ c \in Process /\ c \notin Job
    BY ProcessAssumption DEF Cancel, At, Process
  <1>2. Going /\ NoBinder(c, j) BY <1>1, CancelStep, KnownNoBinder
  <1>3. rec[j] \in JobRec BY DEF Inv, Typed
  <1>4. CASE \E label \in {"await", "end"} :
               /\ Update(j, Cancelled(rec[j], rec[j].approval))
               /\ Begin(c, "cancel", j, label)
    <2>1. PICK label \in {"await", "end"} : Begin(c, "cancel", j, label) BY <1>4
    <2>2. /\ Covered(c, j) /\ op'[c].at \notin Early
          /\ \A q \in Process : q # c => op'[q] = op[q]
      BY <1>1, <2>1, BeginEnder, Labels
    <2>3. PICK r : r = Cancelled(rec[j], rec[j].approval) OBVIOUS
    <2>4. r \in JobRec /\ r.status = "cancelled"
      <3>1. "cancelled" \in Status BY DEF Status, Ending
      <3>2. QED BY <1>3, <2>3, <3>1 DEF Cancelled, JobRec
    <2>5. rec' = [rec EXCEPT ![j] = Settled(r, j)] BY <1>4, <2>3 DEF Update
    <2>6. rec'[j].status = "cancelled" /\ \A i \in Job : i # j => rec'[i] = rec[i]
      BY <2>4, <2>5, UpdateShape DEF Inv
    <2>7. CapStep(c, j) BY <1>1, <1>2, <2>2, <2>6, LateOk DEF CapStep
    <2>8. QED BY <1>1, <1>2, <2>7, CapCombine
  <1>5. CASE UNCHANGED <<rec, op>> BY <1>1, <1>5, NothingCap
  <1> QED BY <1>4, <1>5 DEF Cancel

\* An approval passes its deadline only when the submission has answered.
LEMMA DeadlineCap ==
    ASSUME Inv, CapInv, NEW j \in Job, DeadlinePasses(j) PROVE CapInv'
  <1>1. /\ UNCHANGED <<external, up, rec, reservation, op>> /\ late' = late \cup {j}
        /\ rec[j].approval = "pending" /\ ~Submitting(j)
    BY DEF DeadlinePasses, memory
  <1>2. rec[j].status # "absent"
    <2>1. JobOk(j) BY DEF Inv, JobInv
    <2>2. QED BY <1>1, <2>1 DEF JobOk
  <1>3. ASSUME NEW p \in Process PROVE EarlyOk(p)'
    <2>1. EarlyOk(p) BY DEF CapInv
    <2>2. op[p].at \in {"create", "bind"} => op[p].job # j BY <1>1, <2>1 DEF EarlyOk, Submitting
    <2>3. QED BY <1>1, <2>1, <2>2 DEF EarlyOk
  <1>4. \A i \in Job : Attended(i)' BY <1>1 DEF CapInv, Attended, Waits, Ender
  <1>5. \A i \in late' \cap Job : rec'[i].status # "absent" BY <1>1, <1>2 DEF CapInv
  <1> QED BY <1>3, <1>4, <1>5 DEF CapInv

\* After a crash no operation is under way.
LEMMA CrashCap == ASSUME CapInv, Crash PROVE CapInv'
  <1>1. up' = FALSE /\ op' = [p \in Process |-> Idle] /\ UNCHANGED <<rec, late>>
    BY DEF Crash, store
  <1>2. \A p \in Process : op'[p].at = "idle" BY <1>1, IdleValues
  <1>3. \A p \in Process : EarlyOk(p)' BY <1>2, LateOk DEF Early
  <1> QED BY <1>1, <1>3 DEF CapInv, Attended

\* reconstructAdmissionFromStore leaves no ending with a bound reservation.
LEMMA InitializeCap == ASSUME Inv, CapInv, Initialize PROVE CapInv'
  <1>1. /\ ~up /\ reservation' = [j \in Job |-> Reconstructed(j)]
        /\ rec' = [j \in Job |->
             IF /\ Recovered(j).status \in {"completed", "cancelled"}
                /\ Reconstructed(j) \in {"unresolved", "terminal_pending"}
             THEN [Recovered(j) EXCEPT !.marked = TRUE] ELSE Recovered(j)]
        /\ UNCHANGED <<late, op>>
    BY DEF Initialize, memory
  <1>2. \A p \in Process : op'[p].at = "idle"
    <2> SUFFICES ASSUME NEW p \in Process PROVE op[p].at = "idle" BY <1>1
    <2>1. OpOk(p) BY DEF Inv, OpInv
    <2>2. QED BY <1>1, <2>1 DEF OpOk
  <1>3. \A p \in Process : EarlyOk(p)' BY <1>2, LateOk DEF Early
  <1>4. ASSUME NEW j \in Job PROVE rec'[j].status = Recovered(j).status
    <2>1. Recovered(j) \in JobRec BY RecoveredValues
    <2>2. CASE rec'[j] = Recovered(j) BY <2>2
    <2>3. CASE rec'[j] = [Recovered(j) EXCEPT !.marked = TRUE] BY <2>1, <2>3, MarkValues
    <2>4. QED BY <1>1, <2>2, <2>3
  <1>5. ASSUME NEW j \in Job PROVE Attended(j)'
    <2>1. Active \cap Ending = {} BY DEF Active, Ending
    <2>2. Recovered(j).status \in Ending => Reconstructed(j) # "bound"
      BY <2>1 DEF Reconstructed
    <2>3. QED BY <1>1, <1>4, <2>2 DEF Attended, Waits
  <1>6. ASSUME NEW j \in late' \cap Job PROVE rec'[j].status # "absent"
    <2>1. rec[j].status # "absent" BY <1>1 DEF CapInv
    <2>2. Recovered(j).status \in {rec[j].status, "failed"} BY RecoveredValues
    <2>3. QED BY <1>4, <2>1, <2>2
  <1> QED BY <1>3, <1>5, <1>6 DEF CapInv

\* The invariant holds at the start.
LEMMA InitCap == ASSUME Honest, Init PROVE CapInv
  <1>1. /\ rec = [j \in Job |-> NoJob] /\ late = {} /\ op = [p \in Process |-> Idle]
    BY DEF Init
  <1>2. \A p \in Process : op[p].at = "idle" BY <1>1, IdleValues
  <1>3. \A p \in Process : EarlyOk(p) BY <1>2 DEF EarlyOk
  <1>4. \A j \in Job : Attended(j) BY <1>1, RecValues DEF Attended, Waits, Ending
  <1> QED BY <1>1, <1>3, <1>4 DEF CapInv

\* The failures and the requests the theorem assumes away.
Orderly == {"sent", "ack", "unresolve"} \cap Fault = {} /\ ~EarlyRequests

\* Every step keeps the invariant.
LEMMA NextCap == ASSUME Orderly, Inv, CapInv, [Next]_vars PROVE CapInv'
  <1>0. /\ "sent" \notin Fault /\ "ack" \notin Fault /\ "unresolve" \notin Fault
        /\ ~EarlyRequests
    BY DEF Orderly
  <1>1. ASSUME NEW p \in Process, Continue(p) PROVE CapInv'
    BY <1>0, <1>1, CreateCap, BindCap, DispatchCap, UndispatchedCap, AwaitCap, AskCap, AskedCap,
       LookCap, ApplyCap, DeliverCap, AckCap, FinishCap, EndCap, MarkCap, ReleaseCap, ErrorCap
       DEF Continue
  <1>2. ASSUME NEW c \in Caller, Commit(c) PROVE CapInv' BY <1>2, CommitCap
  <1>3. ASSUME NEW c \in Caller, NEW j \in Job, Request(c, j) PROVE CapInv'
    BY <1>0, <1>3, SubmitCap, CancelCap, CancelExternalCap, ReconcileCap, CommitEnterCap,
       DecideCap DEF Request
  <1>4. ASSUME NEW j \in Job, Execute(j) PROVE CapInv'
    BY <1>0, <1>4, TakeTreeCap, ClaimCap, RecordCap, UnrecordedCap DEF Execute
  <1>5. ASSUME NEW j \in Job, Invoke(j) \/ RunnerEnds(j) \/ WorkerStep(j) PROVE CapInv'
    <2>1. UNCHANGED <<external, up, rec, reservation, late, op>>
      BY <1>5 DEF Invoke, RunnerEnds, WorkerStep, store, memory
    <2>2. QED BY <2>1, NothingCap
  <1>6. ASSUME NEW j \in Job, DeadlinePasses(j) PROVE CapInv' BY <1>6, DeadlineCap
  <1>7. ASSUME NEW j \in Job, Decide(Expirer, j, "expire") PROVE CapInv'
    BY <1>0, <1>7, DecideCap
  <1>8. ASSUME NEW j \in Job, NEW p \in Caller \cup {Poller}, Observe(p, j) PROVE CapInv'
    BY <1>8, ObserveCap
  <1>9. CASE UNCHANGED vars BY <1>9, NothingCap DEF vars, store, memory
  <1> QED
    BY <1>1, <1>2, <1>3, <1>4, <1>5, <1>6, <1>7, <1>8, <1>9, CrashCap, InitializeCap DEF Next

\* A job that is over and that no operation works on holds no bound reservation:
\* every path to an ending, through any interleaving and any crash, ends the
\* admission or leaves its capacity where an operator sees it.
THEOREM CapacityIsVisible == Orderly => (Spec => []HeldCapacityIsVisible)
  <1> SUFFICES ASSUME Orderly PROVE Spec => []HeldCapacityIsVisible
    OBVIOUS
  <1>1. Spec => []Inv BY InvHolds
  <1>2. Init => CapInv BY InitCap DEF Orderly, Honest
  <1>3. Inv /\ CapInv /\ [Next]_vars => CapInv' BY NextCap
  <1>4. CapInv => HeldCapacityIsVisible
    BY DEF CapInv, Attended, Waits, Ender, HeldCapacityIsVisible
  <1> QED BY <1>1, <1>2, <1>3, <1>4, PTL DEF Spec

-----------------------------------------------------------------------------
(* One ending is announced.                                                *)

\* What there is to announce of a job at a worker that is over.
Outcome(j) == IF work[j] = "none" THEN rec[j].status ELSE work[j]

Said(j) ==
    notices[j] # {} =>
        /\ rec[j].status \in Ending
        /\ \E s \in Ending : notices[j] = {s} /\ (external => s = Outcome(j))

\* It announces the end of a job that ran here once the admission is released.
Announcer(p) ==
    /\ ~external /\ op[p].at \in {"await", "end", "mark", "release"}
    /\ op[p].kind \in {"execute", "expire", "cancel"}

\* It ends a job at an approval, which no worker has been given.
Withdraws(p) == op[p].kind = "expire" \/ CancelledHere(p)

\* What an operation knows of the ending it announces.
SayOk(p) ==
    LET j == op[p].job
        a == op[p].at
    IN /\ Announcer(p) => /\ notices[j] = {}
                          /\ op[p].kind = "execute" => op[p].saw \in Ending
       /\ external /\ a \in {"await", "end", "mark", "release"} /\ Withdraws(p)
            => rec[j].status = "cancelled" /\ work[j] = "none"
       /\ a \in {"create", "bind", "dispatch", "undispatched"} => op[p].kind \notin {"expire", "cancel"}
       /\ a \in {"ask", "asked", "look"} /\ op[p].was \in Ending /\ work[j] = "none"
            => rec[j].status = op[p].was
       /\ a = "deliver" /\ op[p].saw \in Ending => op[p].saw = Outcome(j)
OneAnnouncer == \A p, q \in Process :
    Announcer(p) /\ Announcer(q) /\ op[p].job = op[q].job => p = q
\* The outcome the worker reports is its last.
Final == "belated" \notin Fault

SayInv == /\ Honest /\ Final
          /\ \A j \in Job : Said(j)
          /\ \A p \in Process : SayOk(p)
          /\ OneAnnouncer

\* The awaits at which SayOk asks for something.
Saying == {"await", "end", "mark", "release", "ask", "asked", "look", "deliver",
           "create", "bind", "dispatch", "undispatched"}

\* What a step does to a job that is over.
Frame(j) ==
    /\ rec[j].status \in Ending => rec'[j].status \in Ending
    /\ work[j] # "none" => work'[j] # "none"
    /\ external /\ rec[j].status \in Ending /\ work[j] = "none"
         => work'[j] = "none" /\ rec'[j].status = rec[j].status
    /\ external /\ work[j] \in Ending => work'[j] = work[j]

\* The endings are not the other values of a status.
LEMMA Endings ==
    /\ "none" \notin Ending /\ "absent" \notin Ending /\ "cancelled" \in Ending
    /\ \A s \in Ending : s \notin Active /\ s \notin Busy
  BY DEF Ending, Active, Busy

\* A job at a worker that is over without work keeps its ending.
LEMMA GoesFrame ==
    ASSUME Inv, Honest, NEW j \in Job, Goes(j), external, rec[j].status \in Ending, work[j] = "none"
    PROVE  rec'[j].status = rec[j].status
  <1>1. j \notin reconciling BY DEF Inv, JobInv, JobOk
  <1> QED BY <1>1, Endings DEF Goes

\* A step within the bounds of AgentJobsProofs keeps what is over.
LEMMA StepFrame ==
    ASSUME Inv, Honest, Final, NEW p \in Process, Step(p), NEW j \in Job PROVE Frame(j)
  <1>1. JobStep(p, j) /\ Goes(j) BY DEF Step, JobStep
  <1>2. external /\ rec[j].status \in Ending /\ work[j] = "none" => rec'[j].status = rec[j].status
    BY <1>1, GoesFrame
  <1> QED BY <1>1, <1>2 DEF Frame, JobStep, Final

\* So does a step that leaves the work alone and takes no ending back.
LEMMA GoingFrame ==
    ASSUME Inv, Honest, Going, work' = work, NEW j \in Job PROVE Frame(j)
  <1>1. Goes(j) BY DEF Going
  <1>2. external /\ rec[j].status \in Ending /\ work[j] = "none" => rec'[j].status = rec[j].status
    BY <1>1, GoesFrame
  <1> QED BY <1>1, <1>2 DEF Frame, Goes

\* The outcome of a job at a worker that is over is settled.
LEMMA OutcomeStays ==
    ASSUME NEW j, Frame(j), external, rec[j].status \in Ending, Outcome(j) \in Ending
    PROVE  Outcome(j)' = Outcome(j)
  <1>1. CASE work[j] = "none" BY <1>1 DEF Frame, Outcome
  <1>2. CASE work[j] # "none"
    <2>1. work[j] \in Ending BY <1>2 DEF Outcome
    <2>2. work'[j] = work[j] BY <2>1 DEF Frame
    <2>3. QED BY <1>2, <2>2 DEF Outcome
  <1> QED BY <1>1, <1>2

\* A step of p on j: it announces nothing, or what it has to.
Announces(p, j) ==
    /\ rec[j].status \in Ending
    /\ \E s \in Ending : /\ notices'[j] = notices[j] \cup {s}
                         /\ external => s = Outcome(j)
    /\ ~external => Announcer(p) /\ op[p].job = j

SayStep(p, j) ==
    /\ \A i \in Job : Frame(i) /\ (i # j => notices'[i] = notices[i])
    /\ notices'[j] = notices[j] \/ Announces(p, j)
    /\ SayOk(p)'
    /\ Announcer(p)' => \/ Announcer(p) /\ op'[p].job = op[p].job
                        \/ rec[op'[p].job].status \notin Ending
    /\ \A q \in Process : q # p => op'[q] = op[q] \/ op'[q].at = "start"

\* What an operation knows stays true while it stays where it is.
LEMMA SayOther ==
    ASSUME Inv, Honest, external' = external, NEW q \in Process, SayOk(q), op'[q] = op[q],
           op[q].at # "idle" => Frame(op[q].job),
           Announcer(q) => notices'[op[q].job] = notices[op[q].job]
    PROVE  SayOk(q)'
  <1>0. PICK j : j = op[q].job OBVIOUS
  <1>1. OpOk(q) BY DEF Inv, OpInv
  <1>2. Announcer(q)' <=> Announcer(q) BY DEF Announcer
  <1>3. CASE op[q].at = "idle" BY <1>2, <1>3 DEF SayOk, Announcer
  <1>4. CASE op[q].at # "idle"
    <2>1. Frame(j) BY <1>0, <1>4
    <2>2. external /\ op[q].at \in {"await", "end", "mark", "release"} /\ Withdraws(q)
            => rec'[j].status = "cancelled" /\ work'[j] = "none"
      BY <1>0, <2>1, Endings DEF SayOk, Frame
    <2>3. op[q].at \in {"ask", "asked", "look"} /\ op[q].was \in Ending /\ work'[j] = "none"
            => rec'[j].status = op[q].was
      <3> SUFFICES ASSUME op[q].at \in {"ask", "asked", "look"}, op[q].was \in Ending, work'[j] = "none"
                   PROVE  rec'[j].status = op[q].was
        OBVIOUS
      <3>1. external /\ rec[j].status \in Ending BY <1>0, <1>1 DEF OpOk, Guarded
      <3>2. work[j] = "none" BY <2>1 DEF Frame
      <3>3. rec[j].status = op[q].was BY <1>0, <3>2 DEF SayOk
      <3>4. QED BY <2>1, <3>1, <3>2, <3>3 DEF Frame
    <2>4. op[q].at = "deliver" /\ op[q].saw \in Ending => op[q].saw = Outcome(j)'
      <3> SUFFICES ASSUME op[q].at = "deliver", op[q].saw \in Ending
                   PROVE  op[q].saw = Outcome(j)'
        OBVIOUS
      <3>1. external /\ rec[j].status \in Ending BY <1>0, <1>1 DEF OpOk, Guarded
      <3>2. op[q].saw = Outcome(j) BY <1>0 DEF SayOk
      <3>3. Outcome(j) \in Ending BY <3>2
      <3>4. QED BY <2>1, <3>1, <3>2, <3>3, OutcomeStays
    <2>5. Announcer(q) => notices'[j] = {} /\ (op[q].kind = "execute" => op[q].saw \in Ending)
      BY <1>0 DEF SayOk
    <2>6. op[q].at \in {"create", "bind", "dispatch", "undispatched"} => op[q].kind \notin {"expire", "cancel"}
      BY DEF SayOk
    <2>7. op'[q].job = j BY <1>0
    <2>8. Withdraws(q)' <=> Withdraws(q) BY DEF Withdraws, CancelledHere
    <2>9. QED BY <1>2, <2>2, <2>3, <2>4, <2>5, <2>6, <2>7, <2>8 DEF SayOk, Outcome
  <1> QED BY <1>3, <1>4

\* What was said of a job stays the one thing there is to say of it.
LEMMA SaidStays ==
    ASSUME NEW j, Said(j), Frame(j), external' = external, notices'[j] = notices[j]
    PROVE  Said(j)'
  <1> SUFFICES ASSUME notices[j] # {}
               PROVE  /\ rec'[j].status \in Ending
                      /\ \E s \in Ending : notices'[j] = {s} /\ (external => s = Outcome(j)')
    BY DEF Said
  <1>1. PICK s \in Ending : notices[j] = {s} /\ (external => s = Outcome(j)) BY DEF Said
  <1>2. rec[j].status \in Ending /\ rec'[j].status \in Ending BY DEF Said, Frame
  <1>3. external => s = Outcome(j)'
    <2> SUFFICES ASSUME external PROVE s = Outcome(j)' OBVIOUS
    <2>1. Outcome(j) \in Ending BY <1>1
    <2>2. QED BY <1>1, <1>2, <2>1, OutcomeStays
  <1> QED BY <1>1, <1>2, <1>3

\* Such a step keeps the invariant.
LEMMA SayCombine ==
    ASSUME Inv, SayInv, NEW p \in Process, NEW j \in Job, external' = external, SayStep(p, j)
    PROVE  SayInv'
  <1>1. ASSUME NEW i \in Job PROVE Said(i)'
    <2>1. Said(i) /\ Frame(i) BY DEF SayInv, SayStep
    <2>2. CASE notices'[i] = notices[i] BY <2>1, <2>2, SaidStays
    <2>3. CASE i = j /\ Announces(p, j)
      <3>1. PICK s \in Ending : /\ notices'[j] = notices[j] \cup {s}
                                /\ external => s = Outcome(j)
        BY <2>3 DEF Announces
      <3>2. rec[j].status \in Ending /\ rec'[j].status \in Ending
        BY <2>1, <2>3 DEF Announces, Frame
      <3>3. notices'[j] = {s}
        <4>1. CASE external BY <2>1, <2>3, <3>1, <4>1 DEF Said
        <4>2. CASE ~external
          <5>1. notices[j] = {} BY <2>3, <4>2 DEF Announces, SayInv, SayOk
          <5>2. QED BY <3>1, <5>1
        <4>3. QED BY <4>1, <4>2
      <3>4. external => s = Outcome(j)'
        <4> SUFFICES ASSUME external PROVE s = Outcome(j)' OBVIOUS
        <4>1. Outcome(j) \in Ending BY <3>1
        <4>2. QED BY <2>1, <2>3, <3>1, <3>2, <4>1, OutcomeStays
      <3>5. QED BY <2>3, <3>2, <3>3, <3>4 DEF Said
    <2>4. QED BY <2>2, <2>3 DEF SayStep
  <1>2. ASSUME NEW q \in Process PROVE SayOk(q)'
    <2>1. CASE q = p BY <2>1 DEF SayStep
    <2>2. CASE op'[q].at = "start" BY <2>2 DEF SayOk, Announcer
    <2>3. CASE q # p /\ op'[q] = op[q]
      <3>1. SayOk(q) /\ OpOk(q) BY DEF SayInv, Inv, OpInv
      <3>2. op[q].at # "idle" => op[q].job \in Job BY <3>1 DEF OpOk
      <3>3. op[q].at # "idle" => Frame(op[q].job) BY <3>2 DEF SayStep
      <3>4. Announcer(q) => notices'[op[q].job] = notices[op[q].job]
        <4> SUFFICES ASSUME Announcer(q) PROVE notices'[op[q].job] = notices[op[q].job]
          OBVIOUS
        <4>1. op[q].job \in Job /\ ~external BY <3>2 DEF Announcer
        <4>2. CASE op[q].job # j BY <4>1, <4>2 DEF SayStep
        <4>3. CASE op[q].job = j
          <5>1. ~Announces(p, j)
            BY <2>3, <4>1, <4>3 DEF Announces, SayInv, OneAnnouncer
          <5>2. QED BY <4>3, <5>1 DEF SayStep
        <4>4. QED BY <4>2, <4>3
      <3>5. QED BY <2>3, <3>1, <3>3, <3>4, SayOther DEF SayInv
    <2>4. QED BY <2>1, <2>2, <2>3 DEF SayStep
  <1>3. OneAnnouncer'
    <2>1. ASSUME NEW q \in Process, q # p, Announcer(q)' PROVE op'[q] = op[q] /\ Announcer(q)
      BY <2>1 DEF SayStep, Announcer
    <2>2. ASSUME NEW q \in Process, q # p, Announcer(q)', Announcer(p)' PROVE op'[q].job # op'[p].job
      <3>1. op'[q] = op[q] /\ Announcer(q) BY <2>1, <2>2
      <3>2. OpOk(q) BY DEF Inv, OpInv
      <3>3. rec[op[q].job].status \in Ending BY <3>1, <3>2 DEF OpOk, Announcer, SayInv
      <3>4. CASE Announcer(p) /\ op'[p].job = op[p].job
        BY <2>2, <3>1, <3>4 DEF SayInv, OneAnnouncer
      <3>5. CASE rec[op'[p].job].status \notin Ending BY <3>1, <3>3, <3>5
      <3>6. QED BY <2>2, <3>4, <3>5 DEF SayStep
    <2> SUFFICES ASSUME NEW q \in Process, NEW r \in Process, Announcer(q)', Announcer(r)',
                        op'[q].job = op'[r].job
                 PROVE  q = r
      BY DEF OneAnnouncer
    <2>3. CASE q # p /\ r # p BY <2>1, <2>3 DEF SayInv, OneAnnouncer
    <2>4. CASE q = p \/ r = p BY <2>2, <2>4
    <2>5. QED BY <2>3, <2>4
  <1> QED BY <1>1, <1>2, <1>3 DEF SayInv

\* At an await where it has nothing to announce.
Plain(p) ==
    \/ op[p].at \notin Saying
    \/ op[p].at \in {"await", "end", "mark", "release"}
         /\ op[p].kind \notin {"execute", "expire", "cancel"}
    \/ op[p].at \in {"create", "bind", "dispatch", "undispatched"} /\ op[p].kind \notin {"expire", "cancel"}

\* There SayOk asks for nothing.
LEMMA PlainOk == ASSUME NEW p, Plain(p)' PROVE SayOk(p)' /\ ~Announcer(p)'
  BY DEF Plain, SayOk, Announcer, Saying, Withdraws, CancelledHere

\* A step that announces nothing and leaves nothing to announce.
LEMMA SayPlain ==
    ASSUME Inv, SayInv, NEW p \in Process, NEW j \in Job, Step(p), notices' = notices, Plain(p)',
           \A q \in Process : q # p => op'[q] = op[q] \/ op'[q].at = "start"
    PROVE  SayInv'
  <1>1. SayStep(p, j) BY StepFrame, PlainOk DEF SayStep, SayInv
  <1> QED BY <1>1, SayCombine DEF Step

\* A step along finalizeAdmission.
LEMMA SayKeep ==
    ASSUME Inv, SayInv, NEW p \in Process, NEW j \in Job, Step(p), notices' = notices,
           op[p].job = j, op[p].at \in {"await", "end", "mark", "release"},
           op'[p].at \in {"end", "mark", "release"}, op'[p].job = op[p].job,
           op'[p].kind = op[p].kind, op'[p].saw = op[p].saw,
           work' = work, rec'[j].status = rec[j].status,
           \A q \in Process : q # p => op'[q] = op[q]
    PROVE  SayInv'
  <1>1. SayOk(p) /\ external' = external BY DEF SayInv, Step
  <1>2. Announcer(p)' <=> Announcer(p) BY <1>1 DEF Announcer
  <1>3. Withdraws(p)' <=> Withdraws(p) BY DEF Withdraws, CancelledHere
  <1>4. SayOk(p)' BY <1>1, <1>2, <1>3 DEF SayOk
  <1>5. SayStep(p, j) BY <1>2, <1>4, StepFrame DEF SayStep, SayInv
  <1> QED BY <1>1, <1>5, SayCombine

\* The execution awaited by a cancellation has ended.
LEMMA AwaitSay == ASSUME Inv, SayInv, NEW p \in Process, Await(p) PROVE SayInv'
  <1>0. PICK j : j = op[p].job OBVIOUS
  <1>1. /\ op[p].at = "await" /\ op[p].at # "idle" /\ Goto(p, "end")
        /\ UNCHANGED <<rec, work, notices>>
    BY DEF Await, At, store, bounds
  <1>2. j \in Job BY <1>0, <1>1, Underway
  <1>3. /\ op'[p].at = "end" /\ op'[p].job = op[p].job /\ op'[p].kind = op[p].kind
        /\ op'[p].saw = op[p].saw /\ \A q \in Process : q # p => op'[q] = op[q]
    BY <1>1, GotoShape, Labels DEF Inv
  <1>4. Step(p) BY AwaitStep
  <1> QED BY <1>0, <1>1, <1>2, <1>3, <1>4, SayKeep

\* A step along finalizeAdmission, or into its failure.
LEMMA GotoSay ==
    ASSUME Inv, SayInv, NEW p \in Process, Step(p), UNCHANGED <<rec, work, notices>>,
           op[p].at \in {"end", "mark", "release"},
           NEW label \in {"mark", "release", "error"}, Goto(p, label)
    PROVE  SayInv'
  <1>0. PICK j : j = op[p].job OBVIOUS
  <1>1. j \in Job BY <1>0, Underway
  <1>2. /\ op'[p].at = label /\ op'[p].job = op[p].job /\ op'[p].kind = op[p].kind
        /\ op'[p].saw = op[p].saw /\ \A q \in Process : q # p => op'[q] = op[q]
    BY GotoShape, Labels DEF Inv
  <1>3. CASE label = "error" BY <1>1, <1>2, <1>3, SayPlain DEF Plain, Saying
  <1>4. CASE label # "error" BY <1>0, <1>1, <1>2, <1>4, SayKeep
  <1> QED BY <1>3, <1>4

\* The admission is over, and the ending announced by the one who has to.
LEMMA DoneSay ==
    ASSUME Inv, SayInv, NEW p \in Process, NEW j \in Job, Step(p),
           op[p].at \in {"end", "release"}, op[p].job = j, Done(p, j)
    PROVE  SayInv'
  <1>1. OpOk(p) /\ SayOk(p) BY DEF Inv, OpInv, SayInv
  <1>2. op'[p].at = "idle" /\ \A q \in Process : q # p => op'[q] = op[q]
    BY LeaveShape DEF Done, Inv
  <1>3. SayOk(p)' /\ ~Announcer(p)' BY <1>2, PlainOk DEF Plain, Saying
  <1>4. rec[j].status \in Ending BY <1>1 DEF OpOk, SayInv
  <1>5. \A i \in Job : i # j => notices'[i] = notices[i] BY DEF Done
  <1>6. notices'[j] = notices[j] \/ Announces(p, j)
    <2>2. CASE op[p].kind = "execute" /\ notices' = [notices EXCEPT ![j] = @ \cup {op[p].saw}]
      <3>1. ~external BY <1>1, <2>2, ProcessAssumption DEF OpOk
      <3>2. Announcer(p) BY <2>2, <3>1 DEF Announcer
      <3>3. op[p].saw \in Ending BY <1>1, <2>2, <3>2 DEF SayOk
      <3>4. notices'[j] = notices[j] \/ notices'[j] = notices[j] \cup {op[p].saw} BY <2>2
      <3>5. QED BY <1>4, <3>1, <3>2, <3>3, <3>4 DEF Announces
    <2>3. CASE /\ op[p].kind = "expire" \/ CancelledHere(p)
               /\ notices' = [notices EXCEPT ![j] = @ \cup {"cancelled"}]
      <3>0. Withdraws(p) BY <2>3 DEF Withdraws
      <3>1. ~external => Announcer(p) BY <2>3 DEF Announcer, CancelledHere
      <3>2. external => Outcome(j) = "cancelled" BY <1>1, <3>0 DEF SayOk, Outcome
      <3>3. notices'[j] = notices[j] \/ notices'[j] = notices[j] \cup {"cancelled"} BY <2>3
      <3>4. QED BY <1>4, <3>1, <3>2, <3>3, Endings DEF Announces
    <2>4. CASE notices' = notices BY <2>4
    <2>5. QED BY <2>2, <2>3, <2>4 DEF Done
  <1>7. SayStep(p, j) BY <1>2, <1>3, <1>5, <1>6, StepFrame DEF SayStep, SayInv
  <1> QED BY <1>7, SayCombine DEF Step

\* finalizeAdmission begins, or is over for a job without resources here.
LEMMA EndSay == ASSUME Inv, SayInv, NEW p \in Process, End(p) PROVE SayInv'
  <1>0. PICK j : j = op[p].job OBVIOUS
  <1>1. op[p].at = "end" /\ op[p].at # "idle" /\ work' = work BY DEF End, At
  <1>2. j \in Job /\ Step(p) BY <1>0, <1>1, Underway, EndStep
  <1>3. CASE UNCHANGED <<rec, notices>> /\ \E label \in {"mark", "error"} : Goto(p, label)
    BY <1>1, <1>2, <1>3, GotoSay
  <1>4. CASE Done(p, j) BY <1>0, <1>1, <1>2, <1>4, DoneSay
  <1> QED BY <1>0, <1>3, <1>4 DEF End

\* The reservation is marked, or gone.
LEMMA MarkSay == ASSUME Inv, SayInv, NEW p \in Process, Mark(p) PROVE SayInv'
  <1>1. /\ op[p].at = "mark" /\ UNCHANGED <<rec, work, notices>>
        /\ \E label \in {"release", "error"} : Goto(p, label)
    BY DEF Mark, At, bounds
  <1>2. Step(p) BY MarkStep
  <1> QED BY <1>1, <1>2, GotoSay

\* The resources are released.
LEMMA ReleaseSay == ASSUME Inv, SayInv, NEW p \in Process, Release(p) PROVE SayInv'
  <1>0. PICK j : j = op[p].job OBVIOUS
  <1>1. op[p].at = "release" /\ op[p].at # "idle" /\ work' = work BY DEF Release, At
  <1>2. j \in Job /\ Step(p) BY <1>0, <1>1, Underway, ReleaseStep
  <1>3. CASE UNCHANGED <<rec, notices>> /\ Goto(p, "error") BY <1>1, <1>2, <1>3, GotoSay
  <1>4. CASE Done(p, j) BY <1>0, <1>1, <1>2, <1>4, DoneSay
  <1> QED BY <1>0, <1>3, <1>4 DEF Release

\* Steps to an await with nothing to announce, or out of the call.
LEMMA AwaySay ==
    ASSUME Inv, SayInv, NEW p \in Process, NEW j \in Job, Step(p), notices' = notices,
           \/ Return(p) \/ Leave(p, j)
           \/ \E label \in Label : label \notin Saying /\ Goto(p, label)
    PROVE  SayInv'
  <1>1. Plain(p)' /\ \A q \in Process : q # p => op'[q] = op[q]
    BY GotoShape, LeaveShape, ReturnShape DEF Inv, Plain, Saying
  <1> QED BY <1>1, SayPlain

\* The end of an admission that failed announces nothing.
LEMMA ErrorSay == ASSUME Inv, SayInv, NEW p \in Process, Error(p) PROVE SayInv'
  <1>0. PICK j : j = op[p].job OBVIOUS
  <1>1. /\ op[p].at # "idle" /\ notices' = notices
        /\ Goto(p, "unrecorded") \/ Leave(p, j)
    BY <1>0 DEF Error, At
  <1>2. j \in Job /\ Step(p) BY <1>0, <1>1, Underway, ErrorStep
  <1>3. "unrecorded" \notin Saying /\ "unrecorded" \in Label BY Labels DEF Saying
  <1> QED BY <1>1, <1>2, <1>3, AwaySay

\* Nor does a result that could not be stored, an execution that takes its
\* locks, or one that starts.
LEMMA ExecuteSay ==
    ASSUME Inv, SayInv, NEW j \in Job, TakeTree(j) \/ Claim(j) \/ Unrecorded(j) PROVE SayInv'
  <1>1. /\ notices' = notices /\ j \in Process
        /\ Goto(j, "claim") \/ Goto(j, "run") \/ Leave(j, j)
    BY DEF TakeTree, Claim, Unrecorded, bounds, Process
  <1>2. Step(j) BY TakeTreeStep, ClaimStep, UnrecordedStep
  <1>3. \A l \in {"claim", "run"} : l \notin Saying /\ l \in Label BY Labels DEF Saying
  <1> QED BY <1>1, <1>2, <1>3, AwaySay

\* A commit.
LEMMA CommitSay == ASSUME Inv, SayInv, NEW c \in Caller, Commit(c) PROVE SayInv'
  <1>0. PICK j : j = op[c].job OBVIOUS
  <1>1. /\ op[c].at # "idle" /\ notices' = notices /\ c \in Process
        /\ Goto(c, "commit") \/ Leave(c, j)
    BY <1>0 DEF Commit, CommitLocks, At, bounds, Process
  <1>2. j \in Job /\ Step(c) BY <1>0, <1>1, Underway, CommitStep
  <1>3. "commit" \notin Saying /\ "commit" \in Label BY Labels DEF Saying
  <1> QED BY <1>1, <1>2, <1>3, AwaySay

\* The execution whose result is stored announces it: until now the job was
\* not over, and nobody else is about to.
LEMMA RecordSay == ASSUME Inv, SayInv, NEW j \in Job, Record(j) PROVE SayInv'
  <1>1. /\ op[j].at = "run" /\ op[j].at # "idle" /\ notices' = notices /\ j \in Process
        /\ UNCHANGED external
    BY DEF Record, At, Process
  <1>2. op[j].job = j /\ ~external BY <1>1, Underway DEF OpOk
  <1>3. Step(j) BY RecordStep
  <1>4. CASE \E e \in {"completed", "failed"} :
                /\ StillRunning(j)
                /\ op' = [op EXCEPT ![j].at = "end", ![j].saw = e]
    <2>1. PICK e \in {"completed", "failed"} :
                /\ StillRunning(j)
                /\ op' = [op EXCEPT ![j].at = "end", ![j].saw = e]
      BY <1>4
    <2>2. e \in Seen /\ e \in Ending /\ "end" \in Label /\ Typed
      BY Labels DEF Seen, Work, Ending, Inv
    <2>3. /\ op'[j].at = "end" /\ op'[j].job = j /\ op'[j].saw = e
          /\ \A q \in Process : q # j => op'[q] = op[q]
      <3>1. op' = [op EXCEPT ![j].at = "end", ![j].saw = e] BY <2>1
      <3>2. /\ op'[j].at = "end" /\ op'[j].job = op[j].job /\ op'[j].saw = e
            /\ \A q \in Process : q # j => op'[q] = op[q]
        BY <1>1, <2>2, <3>1, SawShape
      <3>3. QED BY <1>2, <3>2
    <2>4. rec[j].status \notin Ending BY <2>1 DEF StillRunning, Ending
    <2>5. notices[j] = {} BY <2>4 DEF SayInv, Said
    <2>6. SayOk(j)' BY <1>1, <1>2, <2>2, <2>3, <2>5 DEF SayOk
    <2>7. SayStep(j, j) BY <1>1, <1>3, <2>3, <2>4, <2>6, StepFrame DEF SayStep, SayInv
    <2>8. QED BY <1>1, <2>7, SayCombine
  <1>5. CASE Goto(j, "unrecorded") \/ Leave(j, j)
    <2>1. "unrecorded" \notin Saying /\ "unrecorded" \in Label BY Labels DEF Saying
    <2>2. QED BY <1>1, <1>3, <1>5, <2>1, AwaySay
  <1> QED BY <1>4, <1>5 DEF Record

\* A step of an observation or of a cancellation at a worker, which keeps the
\* job's outcome under its lock.
LEMMA GuardedSay ==
    ASSUME Inv, SayInv, NEW p \in Process, NEW j \in Job, Step(p), op[p].job = j, external,
           notices' = notices \/ Announces(p, j), SayOk(p)',
           \A i \in Job : i # j => notices'[i] = notices[i],
           \A q \in Process : q # p => op'[q] = op[q]
    PROVE  SayInv'
  <1>1. external' = external /\ ~Announcer(p)' BY DEF Step, Announcer
  <1>2. SayStep(p, j) BY <1>1, StepFrame DEF SayStep, SayInv
  <1> QED BY <1>1, <1>2, SayCombine

\* Between the request for a cancellation and its note.
LEMMA AskSay == ASSUME Inv, SayInv, NEW p \in Process, Ask(p) PROVE SayInv'
  <1>0. PICK j : j = op[p].job OBVIOUS
  <1>1. /\ op[p].at = "ask" /\ op[p].at # "idle" /\ UNCHANGED <<external, rec, work, notices>>
        /\ Goto(p, "asked") \/ Leave(p, j)
    BY <1>0 DEF Ask, At, store, bounds
  <1>2. j \in Job /\ OpOk(p) /\ SayOk(p) BY <1>0, <1>1, Underway DEF SayInv
  <1>3. external /\ Step(p) BY <1>1, <1>2, AskStep DEF OpOk, Guarded
  <1>4. CASE Goto(p, "asked")
    <2>1. /\ op'[p].at = "asked" /\ op'[p].job = j /\ op'[p].was = op[p].was
          /\ \A q \in Process : q # p => op'[q] = op[q]
      BY <1>0, <1>4, GotoShape, Labels DEF Inv
    <2>2. SayOk(p)' BY <1>0, <1>1, <1>2, <1>3, <2>1 DEF SayOk, Announcer
    <2>3. QED BY <1>0, <1>1, <1>2, <1>3, <2>1, <2>2, GuardedSay
  <1>5. CASE Leave(p, j) BY <1>1, <1>2, <1>3, <1>5, AwaySay
  <1> QED BY <1>1, <1>4, <1>5

\* The note leaves the status alone.
LEMMA AskedSay == ASSUME Inv, SayInv, NEW p \in Process, Asked(p) PROVE SayInv'
  <1>0. PICK j : j = op[p].job OBVIOUS
  <1>1. /\ op[p].at = "asked" /\ op[p].at # "idle" /\ UNCHANGED <<external, work, notices>>
        /\ \/ rec' = [rec EXCEPT ![j].asked = TRUE] /\ Goto(p, "look")
           \/ Leave(p, j)
    BY <1>0 DEF Asked, At
  <1>2. j \in Job /\ OpOk(p) /\ SayOk(p) /\ rec[j] \in JobRec BY <1>0, <1>1, Underway DEF SayInv
  <1>3. external /\ Step(p) BY <1>1, <1>2, AskedStep DEF OpOk, Guarded
  <1>4. CASE rec' = [rec EXCEPT ![j].asked = TRUE] /\ Goto(p, "look")
    <2>1. /\ op'[p].at = "look" /\ op'[p].job = j /\ op'[p].was = op[p].was
          /\ \A q \in Process : q # p => op'[q] = op[q]
      BY <1>0, <1>4, GotoShape, Labels DEF Inv
    <2>2. rec'[j].status = rec[j].status BY <1>2, <1>4 DEF Inv, Typed, JobRec
    <2>3. SayOk(p)' BY <1>0, <1>1, <1>2, <1>3, <2>1, <2>2 DEF SayOk, Announcer
    <2>4. QED BY <1>0, <1>1, <1>2, <1>3, <2>1, <2>3, GuardedSay
  <1>5. CASE Leave(p, j) BY <1>1, <1>2, <1>3, <1>5, AwaySay
  <1> QED BY <1>1, <1>4, <1>5

\* Without a task the stored ending is the one to announce.
LEMMA LookSay == ASSUME Inv, SayInv, NEW p \in Process, Look(p) PROVE SayInv'
  <1>0. PICK j : j = op[p].job OBVIOUS
  <1>1. op[p].at = "look" /\ op[p].at # "idle" /\ UNCHANGED <<external, rec, work, notices>>
    BY DEF Look, At, store, bounds
  <1>2. j \in Job /\ OpOk(p) /\ SayOk(p) /\ op[p] \in OpRec /\ work[j] \in Work
    BY <1>0, <1>1, Underway DEF SayInv, Inv, Typed
  <1>3. external /\ Step(p) BY <1>1, <1>2, LookStep DEF OpOk, Guarded
  <1>4. op[p].was \in Seen /\ work[j] \in Seen
    BY <1>2, IdleValues DEF Seen
  <1>5. \/ /\ work[j] = "none"
           /\ op' = [op EXCEPT ![p].at = "deliver", ![p].saw = op[p].was]
        \/ op' = [op EXCEPT ![p].at = "finish", ![p].saw = op[p].was]
        \/ op' = [op EXCEPT ![p].at = "apply", ![p].saw = work[j]]
    BY <1>0 DEF Look
  <1>6. /\ op'[p].job = j /\ \A q \in Process : q # p => op'[q] = op[q]
        /\ \/ op'[p].at = "deliver" /\ op'[p].saw = op[p].was /\ work[j] = "none"
           \/ op'[p].at \in {"finish", "apply"}
    BY <1>0, <1>4, <1>5, SawShape, Labels DEF Inv
  <1>7. op'[p].at = "deliver" /\ op'[p].saw \in Ending => op'[p].saw = Outcome(j)
    BY <1>0, <1>1, <1>2, <1>6 DEF SayOk, Outcome
  <1>8. SayOk(p)' BY <1>1, <1>3, <1>6, <1>7 DEF SayOk, Announcer, Outcome
  <1> QED BY <1>0, <1>1, <1>2, <1>3, <1>6, <1>8, GuardedSay

\* The ending of the worker's receipt is the one to announce.
LEMMA ApplySay == ASSUME Inv, SayInv, NEW p \in Process, Apply(p) PROVE SayInv'
  <1>0. PICK j : j = op[p].job OBVIOUS
  <1>1. op[p].at = "apply" /\ op[p].at # "idle" /\ UNCHANGED <<external, work, notices>>
    BY DEF Apply, At
  <1>2. OpOk(p) /\ j \in Job BY <1>0, <1>1, Underway
  <1>3. external /\ Step(p) BY <1>1, <1>2, ApplyStep DEF OpOk, Guarded
  <1>4. CASE Goto(p, "deliver")
    <2>1. /\ op'[p].at = "deliver" /\ op'[p].job = j /\ op'[p].saw = op[p].saw
          /\ \A q \in Process : q # p => op'[q] = op[q]
      BY <1>0, <1>4, GotoShape, Labels DEF Inv
    <2>2. op[p].saw \in Ending => work[j] = op[p].saw /\ work[j] # "none"
      BY <1>0, <1>1, <1>2, Endings DEF OpOk, Belated, SayInv, Final
    <2>3. SayOk(p)' BY <1>1, <1>3, <2>1, <2>2 DEF SayOk, Announcer, Outcome
    <2>4. QED BY <1>0, <1>1, <1>2, <1>3, <2>1, <2>3, GuardedSay
  <1>5. CASE Leave(p, j) BY <1>1, <1>2, <1>3, <1>5, AwaySay
  <1> QED BY <1>0, <1>4, <1>5 DEF Apply

\* What is announced of a job at a worker is its outcome.
LEMMA DeliverSay == ASSUME Inv, SayInv, NEW p \in Process, Deliver(p) PROVE SayInv'
  <1>0. PICK j : j = op[p].job OBVIOUS
  <1>1. /\ op[p].at = "deliver" /\ op[p].at # "idle" /\ (Goto(p, "ack") \/ Goto(p, "finish"))
        /\ \/ /\ op[p].saw \in Ending
              /\ notices' = [notices EXCEPT ![j] = @ \cup {op[p].saw}]
           \/ notices' = notices
    BY <1>0 DEF Deliver, At
  <1>2. OpOk(p) /\ SayOk(p) /\ j \in Job BY <1>0, <1>1, Underway DEF SayInv
  <1>3. external /\ Step(p) BY <1>1, <1>2, DeliverStep DEF OpOk, Guarded
  <1>4. /\ op'[p].at \in {"ack", "finish"} /\ \A q \in Process : q # p => op'[q] = op[q]
    BY <1>1, GotoShape, Labels DEF Inv
  <1>5. SayOk(p)' BY <1>4, PlainOk DEF Plain, Saying
  <1>6. ASSUME NEW i \in Job, i # j PROVE notices'[i] = notices[i]
    <2>1. CASE notices' = notices BY <2>1
    <2>2. CASE notices' = [notices EXCEPT ![j] = @ \cup {op[p].saw}] BY <1>6, <2>2
    <2>3. QED BY <1>1, <2>1, <2>2
  <1>7. CASE notices' = notices BY <1>0, <1>2, <1>3, <1>4, <1>5, <1>7, GuardedSay
  <1>8. CASE op[p].saw \in Ending /\ notices' = [notices EXCEPT ![j] = @ \cup {op[p].saw}]
    <2>1. op[p].saw = Outcome(j) /\ rec[j].status \in Ending
      BY <1>0, <1>1, <1>2, <1>8 DEF SayOk, OpOk, SayInv
    <2>2. notices'[j] = notices[j] \/ notices'[j] = notices[j] \cup {op[p].saw} BY <1>8
    <2>3. notices'[j] = notices[j] \/ Announces(p, j) BY <1>3, <1>8, <2>1, <2>2 DEF Announces
    <2>4. external' = external /\ ~Announcer(p)' BY <1>3 DEF Step, Announcer
    <2>5. SayStep(p, j) BY <1>3, <1>4, <1>5, <1>6, <2>3, <2>4, StepFrame DEF SayStep, SayInv
    <2>6. QED BY <1>2, <2>4, <2>5, SayCombine
  <1> QED BY <1>1, <1>7, <1>8

\* The receipt of the announcement, and the way on to the end of the admission.
LEMMA AckFinishSay ==
    ASSUME Inv, SayInv, NEW p \in Process, Ack(p) \/ Finish(p) PROVE SayInv'
  <1>0. PICK j : j = op[p].job OBVIOUS
  <1>1. op[p].at \in {"ack", "finish"} /\ op[p].at # "idle" /\ notices' = notices
    BY DEF Ack, Finish, At, bounds
  <1>2. OpOk(p) /\ j \in Job /\ rec[j] \in JobRec BY <1>0, <1>1, Underway
  <1>3. Step(p) /\ external /\ external' = external
    <2>1. external BY <1>1, <1>2 DEF OpOk, Guarded
    <2>2. external' = external BY DEF Ack, Finish
    <2>3. Step(p) BY AckStep, FinishStep
    <2>4. QED BY <2>1, <2>2, <2>3
  <1>4. CASE op' = [op EXCEPT ![p].at = "finish", ![p].saw = rec[j].status]
    <2>1. rec[j].status \in Seen BY <1>2, RecValues DEF Seen
    <2>2. op'[p].at = "finish" /\ \A q \in Process : q # p => op'[q] = op[q]
      BY <1>4, <2>1, SawShape, Labels DEF Inv
    <2>3. QED BY <1>1, <1>2, <1>3, <2>2, SayPlain DEF Plain, Saying
  <1>5. CASE Goto(p, "end") /\ op[p].kind \in {"observe", "cancel"} /\ op[p].saw \in Ending
    <2>1. /\ op'[p].at = "end" /\ op'[p].kind = op[p].kind /\ op'[p].saw = op[p].saw
          /\ \A q \in Process : q # p => op'[q] = op[q]
      BY <1>5, GotoShape, Labels DEF Inv
    <2>2. ~Withdraws(p)' BY <1>5, <2>1, Endings DEF Withdraws, CancelledHere
    <2>3. SayOk(p)' BY <1>3, <1>5, <2>1, <2>2 DEF SayOk, Announcer
    <2>4. QED BY <1>0, <1>1, <1>2, <1>3, <2>1, <2>3, GuardedSay
  <1>6. CASE Leave(p, j) BY <1>1, <1>2, <1>3, <1>6, AwaySay
  <1> QED BY <1>0, <1>4, <1>5, <1>6 DEF Ack, Finish

\* A dispatch that fails ends the job without a word.
LEMMA DispatchSay ==
    ASSUME Inv, SayInv, "sent" \notin Fault, NEW p \in Process, Dispatch(p) \/ Undispatched(p)
    PROVE  SayInv'
  <1>0. PICK j : j = op[p].job OBVIOUS
  <1>1. /\ op[p].at \in {"dispatch", "undispatched"} /\ op[p].at # "idle" /\ notices' = notices
        /\ Return(p) \/ Goto(p, "undispatched") \/ Goto(p, "end")
    BY DEF Dispatch, Undispatched, At
  <1>2. OpOk(p) /\ SayOk(p) /\ j \in Job BY <1>0, <1>1, Underway DEF SayInv
  <1>3. Step(p) /\ external /\ external' = external /\ op[p].kind \notin {"expire", "cancel"}
    <2>1. external /\ op[p].kind \notin {"expire", "cancel"} BY <1>1, <1>2 DEF OpOk, SayOk
    <2>2. external' = external BY DEF Dispatch, Undispatched
    <2>3. Step(p) BY DispatchStep, UndispatchedStep
    <2>4. QED BY <2>1, <2>2, <2>3
  <1>4. CASE Return(p) BY <1>1, <1>2, <1>3, <1>4, AwaySay
  <1>5. CASE Goto(p, "undispatched") \/ Goto(p, "end")
    <2>1. /\ op'[p].at \in {"undispatched", "end"} /\ op'[p].kind = op[p].kind
          /\ \A q \in Process : q # p => op'[q] = op[q]
      BY <1>5, GotoShape, Labels DEF Inv
    <2>2. SayOk(p)' BY <1>3, <2>1 DEF SayOk, Announcer, Withdraws, CancelledHere
    <2>3. QED BY <1>0, <1>1, <1>2, <1>3, <2>1, <2>2, GuardedSay
  <1> QED BY <1>1, <1>4, <1>5

\* A submission announces nothing.
LEMMA CreateBindSay ==
    ASSUME Inv, SayInv, NEW p \in Process, Create(p) \/ Bind(p) PROVE SayInv'
  <1>0. PICK j : j = op[p].job OBVIOUS
  <1>1. /\ op[p].at \in {"create", "bind"} /\ op[p].at # "idle" /\ notices' = notices
        /\ \/ Return(p) \/ Goto(p, "bind") \/ Goto(p, "dispatch")
           \/ op' = Launched([op EXCEPT ![p] = Idle], j)
    BY <1>0 DEF Create, Bind, At, bounds
  <1>2. OpOk(p) /\ SayOk(p) /\ j \in Job BY <1>0, <1>1, Underway DEF SayInv
  <1>3. Step(p) /\ op[p].kind \notin {"expire", "cancel"}
    BY <1>1, <1>2, CreateStep, BindStep DEF SayOk
  <1>4. CASE Return(p) BY <1>1, <1>2, <1>3, <1>4, AwaySay
  <1>5. CASE Goto(p, "bind") \/ Goto(p, "dispatch")
    <2>1. /\ op'[p].at \in {"bind", "dispatch"} /\ op'[p].kind = op[p].kind
          /\ \A q \in Process : q # p => op'[q] = op[q]
      BY <1>5, GotoShape, Labels DEF Inv
    <2>2. QED BY <1>1, <1>2, <1>3, <2>1, SayPlain DEF Plain
  <1>6. CASE op' = Launched([op EXCEPT ![p] = Idle], j)
    <2>1. PICK f : f = [op EXCEPT ![p] = Idle] OBVIOUS
    <2>2. /\ f \in [Process -> OpRec] /\ f[p] = Idle
          /\ \A q \in Process : q # p => f[q] = op[q]
      BY <2>1, IdleValues DEF Inv, Typed
    <2>3. /\ op'[j].at = "start" /\ \A q \in Process : q # j => op'[q] = f[q]
      <3>1. op' = Launched(f, j) BY <1>6, <2>1
      <3>2. QED BY <1>2, <2>2, <3>1, LaunchedShape
    <2>4. op'[p].at \in {"idle", "start"} BY <2>2, <2>3, IdleValues
    <2>5. Plain(p)' BY <2>4 DEF Plain, Saying
    <2>6. \A q \in Process : q # p => op'[q] = op[q] \/ op'[q].at = "start"
      BY <2>2, <2>3
    <2>7. QED BY <1>1, <1>2, <1>3, <2>5, <2>6, SayPlain
  <1> QED BY <1>1, <1>4, <1>5, <1>6

\* The first step of a request that has nothing to announce.
LEMMA BeginPlainSay ==
    ASSUME Inv, SayInv, NEW p \in Process, NEW j \in Job, Step(p), notices' = notices,
           NEW kind \in Kind \ {"execute", "expire", "cancel"},
           NEW label \in {"create", "dispatch", "enter", "end"}, Begin(p, kind, j, label)
    PROVE  SayInv'
  <1>1. label \in Label BY Labels
  <1>2. /\ op'[p].at = label /\ op'[p].kind = kind
        /\ \A q \in Process : q # p => op'[q] = op[q]
    BY <1>1, BeginShape DEF Inv
  <1>3. Plain(p)' BY <1>2 DEF Plain, Saying
  <1> QED BY <1>2, <1>3, SayPlain

\* submitOnce, reconcileTerminal and commit.
LEMMA RequestSay ==
    ASSUME Inv, SayInv, NEW c \in Caller, NEW j \in Job,
           Submit(c, j) \/ Reconcile(c, j) \/ CommitEnter(c, j)
    PROVE  SayInv'
  <1>1. c \in Process /\ notices' = notices
    BY DEF Submit, Reconcile, CommitEnter, bounds, Process
  <1>2. Step(c) BY SubmitStep, ReconcileStep, CommitEnterStep
  <1>3. PICK kind \in {"submit", "settle", "cleanup", "commit"}, label \in {"create", "enter", "end"} :
          Begin(c, kind, j, label)
    BY DEF Submit, Reconcile, CommitEnter
  <1>4. kind \in Kind \ {"execute", "expire", "cancel"} BY <1>3, Labels
  <1> QED BY <1>1, <1>2, <1>3, <1>4, BeginPlainSay

\* What a critical section about a job at a worker reads is what is stored.
LEMMA EnterSay ==
    ASSUME Inv, SayInv, NEW p \in Process, NEW j \in Job, Step(p), external,
           NEW kind \in Kind, NEW label \in {"ask", "look"}, Enter(p, kind, j, label),
           UNCHANGED <<rec, work, notices>>
    PROVE  SayInv'
  <1>1. label \in Label BY Labels
  <1>2. /\ op'[p].at = label /\ op'[p].job = j /\ op'[p].was = rec[j].status
        /\ \A q \in Process : q # p => op'[q] = op[q]
    BY <1>1, EnterShape DEF Inv
  <1>3. external' = external /\ ~Announcer(p)' BY DEF Step, Announcer
  <1>4. SayOk(p)' BY <1>2, <1>3 DEF SayOk
  <1>5. SayStep(p, j) BY <1>2, <1>3, <1>4, StepFrame DEF SayStep, SayInv
  <1> QED BY <1>3, <1>5, SayCombine

\* observe, and cancel of a job at a worker.
LEMMA GuardSay ==
    ASSUME Inv, SayInv, NEW p \in Caller \cup {Poller}, NEW j \in Job,
           Observe(p, j) \/ (p \in Caller /\ CancelExternal(p, j))
    PROVE  SayInv'
  <1>1. p \in Process /\ external /\ UNCHANGED <<rec, work, notices>>
    BY DEF Observe, CancelExternal, store, bounds, Process
  <1>2. Step(p) BY ObserveStep, CancelExternalStep
  <1>3. PICK kind \in {"observe", "cancel"}, label \in {"ask", "look"} : Enter(p, kind, j, label)
    BY DEF Observe, CancelExternal
  <1>4. kind \in Kind BY <1>3, Labels
  <1> QED BY <1>1, <1>2, <1>3, <1>4, EnterSay

\* An approval that passed its deadline is announced by the timer: until now
\* the job was not over.
LEMMA DecideSay ==
    ASSUME Inv, SayInv, NEW p \in Caller \cup {Expirer}, NEW j \in Job, NEW d, Decide(p, j, d)
    PROVE  SayInv'
  <1>1. /\ p \in Process /\ p \notin Job /\ op[p].at = "idle" /\ notices' = notices
        /\ UNCHANGED <<external, work>>
    BY ProcessAssumption DEF Decide, At, Process
  <1>2. Step(p) BY DecideStep
  <1>3. JobOk(j) /\ rec[j] \in JobRec BY DEF Inv, JobInv, Typed
  <1>4. CASE Accept(p, j)
    <2>1. Begin(p, "decide", j, "dispatch") \/ op' = Launched(op, j)
      BY <1>4 DEF Accept, Approve
    <2>2. CASE Begin(p, "decide", j, "dispatch")
      <3>1. "decide" \in Kind \ {"execute", "expire", "cancel"} BY Labels
      <3>2. QED BY <1>1, <1>2, <2>2, <3>1, BeginPlainSay
    <2>3. CASE op' = Launched(op, j)
      <3>1. op'[j].at = "start" /\ \A q \in Process : q # j => op'[q] = op[q]
        <4>1. op \in [Process -> OpRec] BY DEF Inv, Typed
        <4>2. QED BY <2>3, <4>1, LaunchedShape
      <3>2. Plain(p)' BY <1>1, <3>1 DEF Plain, Saying
      <3>3. \A q \in Process : q # p => op'[q] = op[q] \/ op'[q].at = "start" BY <3>1
      <3>4. QED BY <1>1, <1>2, <3>2, <3>3, SayPlain
    <2>4. QED BY <2>1, <2>2, <2>3
  <1>5. CASE Replay(p, j, d)
    <2>1. Begin(p, "replay", j, "end") BY <1>5 DEF Replay
    <2>2. "replay" \in Kind \ {"execute", "expire", "cancel"} BY Labels
    <2>3. QED BY <1>1, <1>2, <2>1, <2>2, BeginPlainSay
  <1>6. CASE Refuse(p, j, d)
    <2>1. rec[j].status = "awaiting_approval" /\ work[j] = "none" BY <1>3, <1>6 DEF Refuse, JobOk
    <2>2. rec[j].status \notin Ending BY <2>1 DEF Ending
    <2>3. notices[j] = {} BY <2>2 DEF SayInv, Said
    <2>4. CASE Begin(p, "decide", j, "end")
      <3>1. "decide" \in Kind \ {"execute", "expire", "cancel"} BY Labels
      <3>2. QED BY <1>1, <1>2, <2>4, <3>1, BeginPlainSay
    <2>5. CASE Begin(p, "expire", j, "end")
      <3>0. Typed /\ "expire" \in Kind /\ "end" \in Label BY Labels DEF Inv
      <3>1. /\ op'[p].at = "end" /\ op'[p].job = j /\ op'[p].kind = "expire"
            /\ \A q \in Process : q # p => op'[q] = op[q]
        BY <1>1, <2>5, <3>0, BeginShape
      <3>2. rec'[j].status = "cancelled"
        <4>1. PICK r : r = Cancelled(rec[j], "pending") OBVIOUS
        <4>2. "cancelled" \in Status /\ "pending" \in Approval BY DEF Status, Ending, Approval
        <4>3. r \in JobRec /\ r.status = "cancelled" BY <1>3, <4>1, <4>2 DEF Cancelled, JobRec
        <4>4. rec' = [rec EXCEPT ![j] = Settled(r, j)] BY <1>6, <4>1 DEF Refuse
        <4>5. QED BY <4>3, <4>4, UpdateShape DEF Inv
      <3>3. SayOk(p)' BY <1>1, <2>1, <2>3, <3>1, <3>2 DEF SayOk
      <3>4. SayStep(p, j) BY <1>1, <1>2, <2>2, <3>1, <3>3, StepFrame DEF SayStep, SayInv
      <3>5. QED BY <1>1, <3>4, SayCombine
    <2>6. QED BY <1>6, <2>4, <2>5 DEF Refuse
  <1> QED BY <1>4, <1>5, <1>6 DEF Decide

\* A step of what no operation does.
LEMMA QuietSay ==
    ASSUME Inv, SayInv, UNCHANGED <<external, op, notices>>, \A j \in Job : Frame(j)
    PROVE  SayInv'
  <1>1. ASSUME NEW j \in Job PROVE Said(j)' BY <1>1, SaidStays DEF SayInv
  <1>2. ASSUME NEW p \in Process PROVE SayOk(p)'
    <2>1. SayOk(p) /\ OpOk(p) BY DEF SayInv, Inv, OpInv
    <2>2. op[p].at # "idle" => Frame(op[p].job) BY <2>1 DEF OpOk
    <2>3. QED BY <2>1, <2>2, SayOther DEF SayInv
  <1>3. OneAnnouncer'
    <2>1. \A p \in Process : Announcer(p)' <=> Announcer(p) BY DEF Announcer
    <2>2. QED BY <2>1 DEF SayInv, OneAnnouncer
  <1> QED BY <1>1, <1>2, <1>3 DEF SayInv

\* What runs goes on or ends, a deadline passes, or nothing happens.
LEMMA WorkSay ==
    ASSUME Inv, SayInv, UNCHANGED <<external, op, notices, rec>>,
           \/ work' = work
           \/ \E j \in Job, w \in Work : /\ work[j] \notin Ending \cup {"none"} /\ w # "none"
                                         /\ work' = [work EXCEPT ![j] = w]
    PROVE  SayInv'
  <1>1. \A i \in Job : work'[i] = work[i]
                        \/ (work[i] \notin Ending \cup {"none"} /\ work'[i] # "none")
    BY DEF Inv, Typed
  <1>2. \A i \in Job : Frame(i) BY <1>1 DEF Frame
  <1> QED BY <1>2, QuietSay

\* The steps of the runner, of the worker and of the clock.
LEMMA ElsewhereSay ==
    ASSUME Inv, SayInv, NEW j \in Job,
           Invoke(j) \/ RunnerEnds(j) \/ WorkerStep(j) \/ DeadlinePasses(j)
    PROVE  SayInv'
  <1>1. UNCHANGED <<external, op, notices, rec>>
    BY DEF Invoke, RunnerEnds, WorkerStep, DeadlinePasses, store, memory, bounds
  <1>2. CASE Invoke(j) \/ RunnerEnds(j) \/ WorkerStep(j)
    <2>1. PICK w \in {"running", "completed", "failed", "cancelled"} : work' = [work EXCEPT ![j] = w]
      BY <1>2 DEF Invoke, RunnerEnds, WorkerStep, Dispatcher!After
    <2>3. work[j] \in {"prepared", "queued", "running"}
      BY <1>2 DEF Invoke, RunnerEnds, WorkerStep, Dispatcher!After, Fails, SayInv, Final
    <2>2. work[j] \notin Ending \cup {"none"} BY <2>3 DEF Ending
    <2>4. w \in Work /\ w # "none" BY <2>1 DEF Work, Ending
    <2>5. QED BY <1>1, <2>1, <2>2, <2>4, WorkSay
  <1>3. CASE DeadlinePasses(j)
    <2>1. work' = work BY <1>3 DEF DeadlinePasses
    <2>2. QED BY <1>1, <2>1, WorkSay
  <1> QED BY <1>2, <1>3

\* cancel of a job here: until now it was not over.
LEMMA CancelSay ==
    ASSUME Inv, SayInv, NEW c \in Caller, NEW j \in Job, Cancel(c, j) PROVE SayInv'
  <1>0. JobOk(j) /\ rec[j] \in JobRec /\ op[c].at = "idle"
    BY DEF Inv, JobInv, Typed, Cancel, At
  <1>1. /\ c \in Process /\ UNCHANGED <<external, work, notices>>
        /\ rec[j].status \in IF external THEN {"awaiting_approval"} ELSE Active
    BY DEF Cancel, Process
  <1>2. rec[j].status \notin Ending BY <1>1 DEF Active, Ending
  <1>3. notices[j] = {} BY <1>2 DEF SayInv, Said
  <1>4. CASE UNCHANGED <<rec, op>> BY <1>1, <1>4, WorkSay
  <1>5. CASE \E label \in {"await", "end"} : Begin(c, "cancel", j, label)
    <2>1. PICK label \in {"await", "end"} : Begin(c, "cancel", j, label) BY <1>5
    <2>2. Typed /\ label \in Label /\ "cancel" \in Kind BY Labels DEF Inv
    <2>3. /\ op'[c].at = label /\ op'[c].job = j /\ op'[c].kind = "cancel"
          /\ \A q \in Process : q # c => op'[q] = op[q]
      BY <1>1, <2>1, <2>2, BeginShape
    <2>4. SayOk(c)'
      <3>1. rec'[j].status = "cancelled"
        <4>1. PICK r : r = Cancelled(rec[j], rec[j].approval) OBVIOUS
        <4>2. "cancelled" \in Status BY DEF Status, Ending
        <4>3. r \in JobRec /\ r.status = "cancelled"
          BY <1>0, <4>1, <4>2 DEF Cancelled, JobRec
        <4>4. op' # op BY <1>0, <2>3
        <4>5. rec' = [rec EXCEPT ![j] = Settled(r, j)]
          BY <4>1, <4>4 DEF Cancel, Update
        <4>6. QED BY <4>3, <4>5, UpdateShape DEF Inv
      <3>2. external => work'[j] = "none" BY <1>0, <1>1 DEF JobOk
      <3>3. QED BY <1>1, <1>3, <2>3, <3>1, <3>2 DEF SayOk
    <2>5. \A i \in Job : Frame(i) BY <1>1, CancelStep, GoingFrame DEF SayInv
    <2>6. SayStep(c, j) BY <1>1, <1>2, <2>3, <2>4, <2>5 DEF SayStep
    <2>7. QED BY <1>1, <2>6, SayCombine
  <1> QED BY <1>4, <1>5 DEF Cancel

\* A crash and a restart announce nothing and take no ending back.
LEMMA RestartSay == ASSUME Inv, SayInv, Crash \/ Initialize PROVE SayInv'
  <1>1. external' = external /\ notices' = notices BY DEF Crash, Initialize, bounds
  <1>2. \A p \in Process : op'[p].at = "idle"
    <2> SUFFICES ASSUME NEW p \in Process PROVE op'[p].at = "idle" OBVIOUS
    <2>1. CASE Crash BY <2>1, IdleValues DEF Crash
    <2>2. CASE Initialize
      <3>1. ~up /\ op' = op BY <2>2 DEF Initialize, memory
      <3>2. OpOk(p) BY DEF Inv, OpInv
      <3>3. QED BY <3>1, <3>2 DEF OpOk
    <2>3. QED BY <2>1, <2>2
  <1>3. ASSUME NEW j \in Job PROVE Frame(j)
    <2>1. CASE Crash
      <3>1. /\ rec' = rec
            /\ \/ external /\ work' = work
               \/ ~external /\ work' = [i \in Job |-> IF work[i] = "none" THEN "none" ELSE "failed"]
        BY <2>1 DEF Crash, store
      <3>2. QED BY <3>1 DEF Frame
    <2>2. CASE Initialize
      <3>1. work' = work BY <2>2 DEF Initialize
      <3>2. QED BY <2>2, <3>1, InitializeStep, GoingFrame DEF SayInv
    <2>3. QED BY <2>1, <2>2
  <1>4. \A j \in Job : Said(j)' BY <1>1, <1>3, SaidStays DEF SayInv
  <1>5. \A p \in Process : SayOk(p)' /\ ~Announcer(p)' BY <1>2 DEF SayOk, Announcer
  <1> QED BY <1>4, <1>5 DEF SayInv, OneAnnouncer

\* Nothing has been announced at the start.
LEMMA InitSay == ASSUME Honest, Final, Init PROVE SayInv
  <1>1. notices = [j \in Job |-> {}] /\ op = [p \in Process |-> Idle] BY DEF Init
  <1>2. \A p \in Process : SayOk(p) /\ ~Announcer(p) BY <1>1, IdleValues DEF SayOk, Announcer
  <1> QED BY <1>1, <1>2 DEF SayInv, Said, OneAnnouncer

\* Every step of an operation under way.
LEMMA ContinueSay ==
    ASSUME Inv, SayInv, "sent" \notin Fault, NEW p \in Process, Continue(p) PROVE SayInv'
  BY CreateBindSay, DispatchSay, AwaitSay, AskSay, AskedSay, LookSay, ApplySay, DeliverSay,
     AckFinishSay, EndSay, MarkSay, ReleaseSay, ErrorSay DEF Continue

\* Every step keeps to one ending.
LEMMA NextSay == ASSUME Inv, SayInv, "sent" \notin Fault, [Next]_vars PROVE SayInv'
  <1>1. ASSUME NEW p \in Process, Continue(p) PROVE SayInv' BY <1>1, ContinueSay
  <1>2. ASSUME NEW c \in Caller, Commit(c) PROVE SayInv' BY <1>2, CommitSay
  <1>3. ASSUME NEW c \in Caller, NEW j \in Job, Request(c, j) PROVE SayInv'
    <2>1. CASE Submit(c, j) \/ Reconcile(c, j) \/ CommitEnter(c, j) BY <2>1, RequestSay
    <2>2. CASE Cancel(c, j) BY <2>2, CancelSay
    <2>3. CASE CancelExternal(c, j) BY <2>3, GuardSay
    <2>4. CASE \E d \in {"accept", "deny"} : Decide(c, j, d) BY <2>4, DecideSay
    <2>5. QED BY <1>3, <2>1, <2>2, <2>3, <2>4 DEF Request
  <1>4. ASSUME NEW j \in Job, Execute(j) PROVE SayInv'
    BY <1>4, ExecuteSay, RecordSay DEF Execute
  <1>5. ASSUME NEW j \in Job,
               Invoke(j) \/ RunnerEnds(j) \/ WorkerStep(j) \/ DeadlinePasses(j)
        PROVE  SayInv'
    BY <1>5, ElsewhereSay
  <1>6. ASSUME NEW j \in Job, Decide(Expirer, j, "expire") PROVE SayInv' BY <1>6, DecideSay
  <1>7. ASSUME NEW j \in Job, NEW p \in Caller \cup {Poller}, Observe(p, j) PROVE SayInv'
    BY <1>7, GuardSay
  <1>8. CASE UNCHANGED vars BY <1>8, WorkSay DEF vars, store, memory, bounds
  <1> QED
    BY <1>1, <1>2, <1>3, <1>4, <1>5, <1>6, <1>7, <1>8, RestartSay DEF Next

\* However a cancellation, the runner's result, a deadline, the worker's
\* receipt, a repeated delivery and a restart compete, at most one ending of a
\* job is announced, unless a task that counted as failed ends as cancelled after
\* all.
THEOREM EndingIsOne == {"sent", "belated"} \cap Fault = {} => (Spec => []OneEnding)
  <1> SUFFICES ASSUME "sent" \notin Fault, "belated" \notin Fault PROVE Spec => []OneEnding
    OBVIOUS
  <1>1. Spec => []Inv BY InvHolds
  <1>2. Init => SayInv BY InitSay DEF Honest, Final
  <1>3. Inv /\ SayInv /\ [Next]_vars => SayInv' BY NextSay
  <1>4. SayInv => OneEnding
    <2> SUFFICES ASSUME SayInv, NEW j \in Job PROVE Cardinality(notices[j]) <= 1
      BY DEF OneEnding
    <2>1. CASE notices[j] = {}
      <3>1. Cardinality(notices[j]) = 0 BY <2>1, FS_EmptySet
      <3>2. QED BY <3>1
    <2>2. CASE \E s \in Ending : notices[j] = {s}
      <3>1. Cardinality(notices[j]) = 1 BY <2>2, FS_Singleton
      <3>2. QED BY <3>1
    <2>3. QED BY <2>1, <2>2 DEF SayInv, Said
  <1> QED BY <1>1, <1>2, <1>3, <1>4, PTL DEF Spec
=============================================================================
