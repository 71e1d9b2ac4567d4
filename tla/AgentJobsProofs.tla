--------------------------- MODULE AgentJobsProofs ---------------------------
(***************************************************************************)
(* Theorems about AgentJobs for any jobs, requests, failures, crashes and  *)
(* decisions, requests before the answer to a submission included.  The    *)
(* invariant holds whatever fails.  Two of the theorems, and the parts of  *)
(* it they need, assume a failure away: "sent", a dispatch that throws     *)
(* although the worker got the task (Honest), and for the capacity also    *)
(* "bind", a submission that fails after its job was stored (Counted).     *)
(*                                                                         *)
(* JobInv relates the record of a job to its work and its reservation.     *)
(* OpInv says what each operation relies on at each of its awaits.  At     *)
(* most one operation is about to launch a job (OneLauncher), which is why *)
(* it is launched once.  JobStep is what a step may do to a job under the  *)
(* feet of the others; every action is shown to stay within it (Step), and *)
(* Combine carries the invariant over all of them at once.                 *)
(*                                                                         *)
(* The last part shows that the service keeps to what it agreed on with    *)
(* the admission controller (Admissions).                                  *)
(***************************************************************************)
EXTENDS AgentJobs, TLAPS

\* A dispatch that throws has reached nobody.  Otherwise the job is failed,
\* and its capacity released, while its task runs.
Honest == "sent" \notin Fault

\* Nor does a submission fail after its job is stored: the job would stay there
\* without a reservation.
Counted == Honest /\ "bind" \notin Fault
LEMMA CountedHonest == Counted => Honest BY DEF Counted

\* The statuses past the approval.
Past == Busy \cup Ending

\* The operations that may launch the work of their job.
Launcher(p) ==
    \/ op[p].at \in {"create", "dispatch", "undispatched"}
    \/ op[p].at = "bind" /\ rec[op[p].job].mode = "read-only"

\* The record of a job, its work and its reservation.
JobOk(j) ==
    /\ rec[j].status = "absent" => rec[j] = NoJob /\ work[j] = "none"
    /\ rec[j].approval = "pending" <=> rec[j].status = "awaiting_approval"
    /\ rec[j].status = "awaiting_approval" => rec[j].mode = "workspace-write" /\ work[j] = "none"
    /\ ~external /\ rec[j].status = "queued" => work[j] = "none"
    /\ external => work[j] \in {"none", "queued", "running"} \cup Ending
    /\ external /\ work[j] # "none" /\ rec[j].status \in {"completed", "cancelled"}
         => work[j] = rec[j].status
    /\ j \in reconciling => ~external /\ rec[j].status \in Past
    /\ Counted /\ rec[j].status \in Active => reservation[j] # "none"
JobInv == \A j \in Job : JobOk(j)

\* The awaits after which the job is past its approval, those under the lock,
\* and those of an execution.
Working == {"dispatch", "undispatched", "await", "ask", "asked", "look", "apply", "deliver",
            "ack", "finish", "end", "mark", "release", "error", "start", "claim", "run", "unrecorded"}
Guarded == {"ask", "asked", "look", "apply", "deliver", "ack", "finish"}
Executing == {"start", "claim", "run", "end", "mark", "release", "error", "unrecorded"}

\* The failure an observation saw has turned out a cancellation.
Open == Busy \cup {"failed"}
Belated(saw, j) == /\ "belated" \in Fault
                   /\ saw = "failed" /\ work[j] = "cancelled" /\ rec[j].status \in Open

\* What an operation relies on at its await.
OpOk(p) ==
    LET j == op[p].job
        a == op[p].at
    IN /\ a # "idle" => up /\ j \in Job
       /\ p \in Job /\ a # "idle" => j = p /\ ~external /\ a \in Executing
       /\ a # "idle" /\ op[p].kind = "execute" => p \in Job
       /\ a \in {"start", "claim", "run", "unrecorded"} => p \in Job
       /\ a = "create" => rec[j] = NoJob /\ reservation[j] = "reserved"
       /\ a = "bind" => rec[j].status # "absent"
       /\ a \in Working => rec[j].status \in Past
       /\ Honest /\ a \in {"await", "end", "mark", "release"} => rec[j].status \in Ending
       /\ a \in {"dispatch", "undispatched"} => external
       /\ (\/ a = "dispatch" \/ (Honest /\ a = "undispatched")
           \/ a = "bind" /\ external /\ rec[j].mode = "read-only")
            => rec[j].status = "queued" /\ work[j] = "none"
       /\ a \in Guarded => lock[j] = p /\ external
       /\ a \in {"ask", "asked", "look"}
            => /\ op[p].was \in Busy \cup Ending
               /\ Honest /\ op[p].was \in Ending => rec[j].status \in Ending
               /\ Honest /\ op[p].was \in Busy
                    => \/ rec[j].status \in Busy
                       \/ rec[j].status \in Ending /\ work[j] = "none"
       /\ a = "apply" => /\ work[j] # "none" /\ op[p].saw \in Busy \cup Ending
                         /\ Honest /\ op[p].saw \in Busy => rec[j].status \in Busy
                         /\ op[p].saw \in Ending => work[j] = op[p].saw \/ Belated(op[p].saw, j)
       /\ Honest /\ a \in {"deliver", "ack", "finish"}
            => (op[p].saw \in Ending => rec[j].status \in Ending)
       /\ a = "ack" => op[p].saw \in Ending
       /\ op[p].kind = "execute" /\ a \in {"end", "mark", "release"} => op[p].saw \in Ending
OpInv == \A p \in Process : OpOk(p)
OneLauncher == \A p, q \in Process :
    Launcher(p) /\ Launcher(q) /\ op[p].job = op[q].job => p = q

\* The types, with every string a step assigns.
Mode == {"read-only", "workspace-write"}
Status == {"absent"} \cup Active \cup Ending
Approval == {"none", "pending", "accepted", "denied", "expired"}
Work == {"none", "queued", "prepared", "running"} \cup Ending
Seen == Work \cup Status
Phase == {"none", "reserved", "bound", "terminal_pending", "unresolved"}
Kind == {"none", "submit", "decide", "execute", "expire", "replay", "cancel", "observe",
         "settle", "cleanup", "commit"}
Label == {"idle", "create", "bind", "enter", "commit"} \cup Working

JobRec == [mode : Mode, status : Status, approval : Approval,
           asked : BOOLEAN, marked : BOOLEAN, delivered : SUBSET Ending]
OpRec == [at : Label, kind : Kind, job : Job \cup {None}, saw : Seen,
          was : Seen, wasMarked : BOOLEAN]

Typed == /\ external \in BOOLEAN /\ up \in BOOLEAN
         /\ rec \in [Job -> JobRec]
         /\ op \in [Process -> OpRec]
         /\ reservation \in [Job -> Phase]
         /\ work \in [Job -> Work]
         /\ lock \in [Job -> Process \cup {None}]

\* The sets of strings the types are made of.
LEMMA Strings ==
    /\ "absent" \in Status /\ "queued" \in Status /\ "none" \in Approval /\ "read-only" \in Mode
    /\ "expired" \in Approval /\ "denied" \in Approval
    /\ "idle" \in Label /\ "none" \in Kind /\ "none" \in Seen
  BY DEF Status, Approval, Mode, Label, Kind, Seen, Work, Active

\* The labels and kinds of operations the steps assign.
LEMMA Labels ==
    /\ \A l \in {"idle", "create", "bind", "enter", "commit", "dispatch", "undispatched",
               "await", "ask", "asked", "look", "apply", "deliver", "ack", "finish", "end",
               "mark", "release", "error", "start", "claim", "run", "unrecorded"} : l \in Label
    /\ \A k \in {"submit", "decide", "execute", "expire", "replay", "cancel", "observe",
               "settle", "cleanup", "commit"} : k \in Kind
  BY DEF Label, Working, Kind

\* What an update leaves of the record and the operation.
LEMMA RecValues ==
    /\ NoJob \in JobRec
    /\ NoJob.status = "absent" /\ NoJob.approval = "none"
    /\ \A r \in JobRec : /\ r.status \in Status /\ r.approval \in Approval /\ r.mode \in Mode
                         /\ r.marked \in BOOLEAN /\ r.delivered \in SUBSET Ending
  <1>1. NoJob \in JobRec
    <2>1. {} \in SUBSET Ending OBVIOUS
    <2>2. QED BY <2>1, Strings DEF JobRec, NoJob
  <1>2. NoJob.status = "absent" /\ NoJob.approval = "none" BY DEF NoJob
  <1>3. ASSUME NEW r \in JobRec
        PROVE  /\ r.status \in Status /\ r.approval \in Approval /\ r.mode \in Mode
               /\ r.marked \in BOOLEAN /\ r.delivered \in SUBSET Ending
    BY <1>3 DEF JobRec
  <1> QED BY <1>1, <1>2, <1>3

\* An idle operation, and what the fields of one may hold.
LEMMA IdleValues ==
    /\ Idle \in OpRec /\ Idle.at = "idle"
    /\ \A r \in OpRec : r.job \in Job \cup {None} /\ r.at \in Label /\ r.saw \in Seen
                        /\ r.was \in Seen /\ r.kind \in Kind
  <1>1. Idle \in OpRec BY Strings DEF OpRec, Idle
  <1>2. Idle.at = "idle" BY DEF Idle
  <1>3. ASSUME NEW r \in OpRec
        PROVE  /\ r.job \in Job \cup {None} /\ r.at \in Label /\ r.saw \in Seen
               /\ r.was \in Seen /\ r.kind \in Kind
    BY <1>3 DEF OpRec
  <1> QED BY <1>1, <1>2, <1>3

\* Record of a job with another status, or approval, or mark.
LEMMA StatusValues ==
    ASSUME NEW r \in JobRec, NEW s \in Status
    PROVE  /\ [r EXCEPT !.status = s] \in JobRec
           /\ [r EXCEPT !.status = s].status = s
           /\ [r EXCEPT !.status = s].approval = r.approval
           /\ [r EXCEPT !.status = s].mode = r.mode
  BY DEF JobRec

\* A record with another state of its approval (durableApproval).
LEMMA ApprovalValues ==
    ASSUME NEW r \in JobRec, NEW s \in Approval
    PROVE  /\ [r EXCEPT !.approval = s] \in JobRec
           /\ [r EXCEPT !.approval = s].status = r.status
           /\ [r EXCEPT !.approval = s].approval = s
           /\ [r EXCEPT !.approval = s].mode = r.mode
  BY DEF JobRec

\* A record with the mark of a missing cleanup set or taken off.
LEMMA MarkValues ==
    ASSUME NEW r \in JobRec, NEW b \in BOOLEAN
    PROVE  /\ [r EXCEPT !.marked = b] \in JobRec
           /\ [r EXCEPT !.marked = b].status = r.status
           /\ [r EXCEPT !.marked = b].approval = r.approval
           /\ [r EXCEPT !.marked = b].mode = r.mode
  BY DEF JobRec

\* A record whose cancellation was asked for (cancellationRequestedAt).
LEMMA AskedValues ==
    ASSUME NEW r \in JobRec
    PROVE  /\ [r EXCEPT !.asked = TRUE] \in JobRec
           /\ [r EXCEPT !.asked = TRUE].status = r.status
           /\ [r EXCEPT !.asked = TRUE].approval = r.approval
           /\ [r EXCEPT !.asked = TRUE].mode = r.mode
  BY DEF JobRec

\* A record with one more announcement delivered.
LEMMA DeliveredValues ==
    ASSUME NEW r \in JobRec, NEW s \in Ending
    PROVE  /\ [r EXCEPT !.delivered = @ \cup {s}] \in JobRec
           /\ [r EXCEPT !.delivered = @ \cup {s}].status = r.status
           /\ [r EXCEPT !.delivered = @ \cup {s}].approval = r.approval
           /\ [r EXCEPT !.delivered = @ \cup {s}].mode = r.mode
  BY DEF JobRec

\* The approval of a job is settled with its cancellation; nothing else changes.
LEMMA SettledValues ==
    ASSUME NEW r \in JobRec, NEW j \in Job
    PROVE  /\ Settled(r, j) \in JobRec
           /\ Settled(r, j).status = r.status
           /\ Settled(r, j).mode = r.mode
           /\ r.status # "cancelled" => Settled(r, j).approval = r.approval
           /\ Settled(r, j).approval \in {r.approval, "expired", "denied"}
           /\ r.status = "cancelled" => Settled(r, j).approval # "pending"
  <1>1. CASE r.approval = "pending" /\ r.status = "cancelled"
    <2>1. Settled(r, j) = [r EXCEPT !.approval = IF j \in late THEN "expired" ELSE "denied"]
      BY <1>1 DEF Settled
    <2>2. CASE j \in late
      <3>1. Settled(r, j) = [r EXCEPT !.approval = "expired"] BY <2>1, <2>2
      <3>2. QED BY <1>1, <3>1, ApprovalValues, Strings
    <2>3. CASE j \notin late
      <3>1. Settled(r, j) = [r EXCEPT !.approval = "denied"] BY <2>1, <2>3
      <3>2. QED BY <1>1, <3>1, ApprovalValues, Strings
    <2>4. QED BY <2>2, <2>3
  <1>2. CASE ~(r.approval = "pending" /\ r.status = "cancelled")
    BY <1>2 DEF Settled
  <1> QED BY <1>1, <1>2

\* What no step does to a job: its work does not start again, its ending stands.
Goes(j) ==
    /\ work[j] # "none" => work'[j] = work[j] \/ work'[j] \notin {"queued", "prepared"}
    /\ Honest /\ rec[j].status \in Ending /\ rec'[j].status # rec[j].status
         => /\ rec'[j].status \in Ending
            /\ j \in reconciling \/ (external /\ rec'[j].status = work[j])

\* What a step of p may do to a job, as far as other operations rely on it.
JobStep(p, j) ==
    /\ rec[j].status # "absent" => rec'[j].mode = rec[j].mode /\ rec'[j].status # "absent"
    /\ rec[j].status \in Past => rec'[j].status \in Past
    /\ Honest /\ rec[j].status \in Ending => rec'[j].status \in Ending
    /\ rec[j].status = "absent" /\ ~(op[p].at = "create" /\ op[p].job = j)
         => /\ rec'[j] = rec[j]
            /\ reservation[j] = "reserved" => reservation'[j] = "reserved"
    /\ work[j] # "none" => work'[j] # "none"
    /\ external /\ rec[j].status \in Ending /\ work[j] = "none" => work'[j] = "none"
    /\ Honest /\ external /\ rec[j].status \in Busy /\ lock[j] \notin {p, None}
         => \/ rec'[j].status \in Busy
            \/ rec'[j].status \in Ending /\ work'[j] = "none" /\ work[j] = "none"
    /\ external /\ rec[j].status = "queued" /\ work[j] = "none"
         /\ ~(Launcher(p) /\ op[p].job = j)
         => rec'[j].status = "queued" /\ work'[j] = "none"
    /\ lock[j] \notin {p, None} => lock'[j] = lock[j]
    /\ external /\ work[j] \in Ending
         => \/ work'[j] = work[j]
            \/ /\ "belated" \in Fault
               /\ work[j] = "failed" /\ work'[j] = "cancelled" /\ rec'[j].status \in Open
    /\ external /\ work[j] # "none" /\ rec[j].status \in Open /\ lock[j] \notin {p, None}
         => rec'[j].status \in Open
    /\ Goes(j)

\* An operation that the step of p leaves where it is.
LEMMA Others ==
    ASSUME Typed, OneLauncher, NEW p \in Process, NEW q \in Process, OpOk(q),
           q # p, op'[q] = op[q], external' = external, up' = up,
           op[q].at # "idle" => JobStep(p, op[q].job)
    PROVE  OpOk(q)'
  <1> DEFINE j == op[q].job
             a == op[q].at
  <1>1. CASE a = "idle" BY <1>1 DEF OpOk, Working, Guarded, Executing
  <1>2. CASE a # "idle"
    <2>0. JobStep(p, j) /\ q # None /\ NoJob.status = "absent"
      BY <1>2, ProcessAssumption, RecValues DEF Process
    <2>1. Launcher(p) /\ Launcher(q) => op[p].job # j BY DEF OneLauncher
    <2>2. op[p].at = "create" => Launcher(p) BY DEF Launcher
    <2>3. /\ up' /\ j \in Job
          /\ q \in Job => j = q /\ ~external /\ a \in Executing
          /\ op[q].kind = "execute" => q \in Job
          /\ a \in {"start", "claim", "run", "unrecorded"} => q \in Job
      BY <1>2 DEF OpOk
    <2>4. a = "create" => rec'[j] = NoJob /\ reservation'[j] = "reserved"
      BY <1>2, <2>0, <2>1, <2>2 DEF OpOk, JobStep, Goes, Launcher
    <2>5. /\ a = "bind" => rec'[j].status # "absent"
          /\ a \in Working => rec'[j].status \in Past
          /\ Honest /\ a \in {"await", "end", "mark", "release"} => rec'[j].status \in Ending
          /\ a \in {"dispatch", "undispatched"} => external
          /\ Honest /\ a \in {"deliver", "ack", "finish"}
               => (op[q].saw \in Ending => rec'[j].status \in Ending)
      BY <1>2, <2>0 DEF OpOk, JobStep, Goes
    <2>6. (\/ a = "dispatch" \/ (Honest /\ a = "undispatched")
           \/ a = "bind" /\ external /\ rec'[j].mode = "read-only")
            => rec'[j].status = "queued" /\ work'[j] = "none"
      <3>1. a = "bind" => rec'[j].mode = rec[j].mode BY <1>2, <2>0 DEF OpOk, JobStep, Goes
      <3>2. SUFFICES ASSUME \/ a = "dispatch" \/ (Honest /\ a = "undispatched")
                            \/ a = "bind" /\ external /\ rec'[j].mode = "read-only"
                     PROVE  rec'[j].status = "queued" /\ work'[j] = "none"
        OBVIOUS
      <3>3. Launcher(q) /\ external /\ rec[j].status = "queued" /\ work[j] = "none"
        BY <1>2, <3>1, <3>2 DEF OpOk, Launcher
      <3>4. QED BY <2>0, <2>1, <3>3 DEF JobStep, Goes
    <2>7. a \in Guarded => lock'[j] = q /\ external
      BY <1>2, <2>0 DEF OpOk, JobStep, Goes
    <2>8. a \in Guarded => lock[j] = q /\ external /\ lock[j] \notin {p, None}
      BY <1>2, <2>0 DEF OpOk
    <2>9. a \in {"ask", "asked", "look"}
            => /\ op[q].was \in Busy \cup Ending
               /\ Honest /\ op[q].was \in Ending => rec'[j].status \in Ending
               /\ Honest /\ op[q].was \in Busy
                    => \/ rec'[j].status \in Busy
                       \/ rec'[j].status \in Ending /\ work'[j] = "none"
      BY <1>2, <2>0, <2>8 DEF OpOk, JobStep, Goes, Guarded
    <2>10. ASSUME a = "apply"
           PROVE  /\ work'[j] # "none" /\ op[q].saw \in Busy \cup Ending
                  /\ Honest /\ op[q].saw \in Busy => rec'[j].status \in Busy
                  /\ op[q].saw \in Ending
                       => \/ work'[j] = op[q].saw
                          \/ /\ "belated" \in Fault
                             /\ op[q].saw = "failed" /\ work'[j] = "cancelled"
                             /\ rec'[j].status \in Open
      <3>1. /\ work[j] # "none" /\ op[q].saw \in Busy \cup Ending
            /\ Honest /\ op[q].saw \in Busy => rec[j].status \in Busy
            /\ op[q].saw \in Ending => work[j] = op[q].saw \/ Belated(op[q].saw, j)
            /\ external /\ lock[j] \notin {p, None}
        BY <1>2, <2>8, <2>10 DEF OpOk, Guarded
      <3>2. work'[j] # "none" /\ (Honest /\ op[q].saw \in Busy => rec'[j].status \in Busy)
        <4>1. work'[j] # "none" BY <2>0, <3>1 DEF JobStep
        <4>2. ASSUME Honest, op[q].saw \in Busy PROVE rec'[j].status \in Busy
          BY <2>0, <3>1, <4>2 DEF JobStep
        <4>3. QED BY <4>1, <4>2
      <3>3. ASSUME op[q].saw \in Ending
            PROVE  \/ work'[j] = op[q].saw
                   \/ /\ "belated" \in Fault
                      /\ op[q].saw = "failed" /\ work'[j] = "cancelled"
                      /\ rec'[j].status \in Open
        <4>1. work[j] \in Ending BY <3>1, <3>3 DEF Belated, Ending
        <4>2. \/ work'[j] = work[j]
              \/ /\ "belated" \in Fault
                 /\ work[j] = "failed" /\ work'[j] = "cancelled" /\ rec'[j].status \in Open
          BY <2>0, <3>1, <4>1 DEF JobStep
        <4>3. rec[j].status \in Open => rec'[j].status \in Open
          BY <2>0, <3>1 DEF JobStep
        <4>4. QED BY <3>1, <3>3, <4>2, <4>3 DEF Belated
      <3>4. QED BY <3>1, <3>2, <3>3
    <2> HIDE DEF a, j
    <2>11. op'[q].job = j /\ op'[q].at = a BY DEF a, j
    <2>12. QED BY <2>3, <2>4, <2>5, <2>6, <2>7, <2>9, <2>10, <2>11 DEF OpOk, Belated
  <1> QED BY <1>1, <1>2

\* A job the step does not touch.
LEMMA JobSame ==
    ASSUME NEW p, NEW j \in Job, JobOk(j), rec'[j] = rec[j], work'[j] = work[j],
           external' = external, lock[j] \notin {p, None} => lock'[j] = lock[j],
           reservation'[j] = reservation[j], j \in reconciling' <=> j \in reconciling
    PROVE  JobStep(p, j) /\ JobOk(j)'
  BY DEF JobStep, Goes, JobOk

\* The inductive invariant.
Inv == Typed /\ JobInv /\ OpInv /\ OneLauncher

\* What a step of p has to do to preserve the invariant.
Step(p) ==
    /\ Typed' /\ external' = external /\ up' = up
    /\ \A j \in Job : JobStep(p, j) /\ JobOk(j)'
    /\ \A q \in Process : q # p => op'[q] = op[q] \/ (OpOk(q)' /\ ~Launcher(q)')
    /\ OpOk(p)'
    /\ Launcher(p)' => \A q \in Process : q # p /\ Launcher(q) => op[q].job # op'[p].job

\* No job goes back.
Going == \A j \in Job : Goes(j)

\* A step within those bounds preserves the invariant, whatever the other
\* operations are at.
LEMMA Combine ==
    ASSUME Inv, NEW p \in Process, Step(p)
    PROVE  Inv' /\ Going
  <1>1. \A q \in Process : q # p /\ op'[q] = op[q] => OpOk(q)' /\ (Launcher(q)' => Launcher(q))
    <2> SUFFICES ASSUME NEW q \in Process, q # p, op'[q] = op[q]
                 PROVE  OpOk(q)' /\ (Launcher(q)' => Launcher(q))
      OBVIOUS
    <2>1. OpOk(q) BY DEF Inv, OpInv
    <2>2. op[q].at # "idle" => op[q].job \in Job BY <2>1 DEF OpOk
    <2>3. op[q].at # "idle" => JobStep(p, op[q].job) BY <2>2 DEF Step
    <2>4. OpOk(q)' BY <2>1, <2>3, Others DEF Inv, Step
    <2>5. op[q].at = "bind" => rec'[op[q].job].mode = rec[op[q].job].mode
      BY <2>1, <2>3 DEF OpOk, JobStep, Goes
    <2>6. QED BY <2>4, <2>5 DEF Launcher
  <1>2. OpInv'
    <2> SUFFICES ASSUME NEW q \in Process PROVE OpOk(q)'
      BY DEF OpInv
    <2>1. CASE q = p BY <2>1 DEF Step
    <2>2. CASE q # p /\ op'[q] = op[q] BY <2>2, <1>1
    <2>3. CASE q # p /\ op'[q] # op[q] BY <2>3 DEF Step
    <2>4. QED BY <2>1, <2>2, <2>3
  <1>3. OneLauncher'
    <2> SUFFICES ASSUME NEW q \in Process, NEW r \in Process, Launcher(q)', Launcher(r)',
                        op'[q].job = op'[r].job
                 PROVE  q = r
      BY DEF OneLauncher
    <2>1. \A s \in Process : s # p /\ Launcher(s)' => op'[s] = op[s] /\ Launcher(s)
      BY <1>1 DEF Step
    <2>2. CASE q # p /\ r # p
      <3>1. op'[q] = op[q] /\ Launcher(q) BY <1>1, <2>2 DEF Step, Launcher
      <3>2. op'[r] = op[r] /\ Launcher(r) BY <1>1, <2>2 DEF Step, Launcher
      <3>3. QED BY <3>1, <3>2 DEF Inv, OneLauncher
    <2>3. CASE q = p /\ r # p
      <3>2. op'[r] = op[r] /\ Launcher(r) BY <1>1, <2>3 DEF Step, Launcher
      <3>3. QED BY <2>3, <3>2 DEF Step, Launcher
    <2>4. CASE q # p /\ r = p
      <3>2. op'[q] = op[q] /\ Launcher(q) BY <1>1, <2>4 DEF Step, Launcher
      <3>3. QED BY <2>4, <3>2 DEF Step, Launcher
    <2>5. QED BY <2>2, <2>3, <2>4
  <1>4. Typed' /\ JobInv' BY DEF Step, JobInv
  <1>5. Going BY DEF Step, JobStep, Goes, Going
  <1> QED BY <1>2, <1>3, <1>4, <1>5 DEF Inv

\* A step of p on one job.
LEMMA OneJob ==
    ASSUME Inv, NEW p \in Process, NEW j \in Job, Typed', external' = external, up' = up,
           \A i \in Job : i # j => /\ rec'[i] = rec[i] /\ work'[i] = work[i]
                                   /\ reservation'[i] = reservation[i]
                                   /\ i \in reconciling' <=> i \in reconciling,
           \A i \in Job : lock[i] \notin {p, None} => lock'[i] = lock[i],
           JobStep(p, j), JobOk(j)', OpOk(p)',
           \A q \in Process : q # p => op'[q] = op[q],
           Launcher(p)' => Launcher(p) /\ op'[p].job = op[p].job
    PROVE  Step(p)
  <1>1. \A i \in Job : JobStep(p, i) /\ JobOk(i)'
    <2> SUFFICES ASSUME NEW i \in Job, i # j PROVE JobStep(p, i) /\ JobOk(i)'
      OBVIOUS
    <2>1. JobOk(i) BY DEF Inv, JobInv
    <2>2. QED BY <2>1, JobSame
  <1>2. Launcher(p)' => \A q \in Process : q # p /\ Launcher(q) => op[q].job # op'[p].job
    <2> SUFFICES ASSUME Launcher(p)', NEW q \in Process, q # p, Launcher(q)
                 PROVE  op[q].job # op'[p].job
      OBVIOUS
    <2>1. Launcher(p) /\ op'[p].job = op[p].job OBVIOUS
    <2>2. QED BY <2>1 DEF Inv, OneLauncher
  <1> QED BY <1>1, <1>2 DEF Step

\* Goto moves one operation and keeps what it read.
LEMMA GotoShape ==
    ASSUME Typed, NEW p \in Process, NEW label \in Label, Goto(p, label)
    PROVE  /\ op' \in [Process -> OpRec]
           /\ op'[p].at = label /\ op'[p].job = op[p].job /\ op'[p].kind = op[p].kind
           /\ op'[p].saw = op[p].saw /\ op'[p].was = op[p].was
           /\ \A q \in Process : q # p => op'[q] = op[q]
  <1>1. op[p] \in OpRec BY DEF Typed
  <1> DEFINE r == [op[p] EXCEPT !.at = label]
  <1>2. r \in OpRec BY <1>1 DEF OpRec
  <1>3. /\ r.at = label /\ r.job = op[p].job /\ r.kind = op[p].kind
        /\ r.saw = op[p].saw /\ r.was = op[p].was
    BY <1>1 DEF OpRec
  <1>4. op' = [op EXCEPT ![p] = r] BY DEF Goto
  <1> HIDE DEF r
  <1> QED BY <1>2, <1>3, <1>4 DEF Typed

\* Begin gives one process a new operation.
LEMMA BeginShape ==
    ASSUME Typed, NEW p \in Process, NEW kind \in Kind, NEW j \in Job, NEW label \in Label,
           Begin(p, kind, j, label)
    PROVE  /\ op' \in [Process -> OpRec]
           /\ op'[p].at = label /\ op'[p].job = j /\ op'[p].kind = kind
           /\ \A q \in Process : q # p => op'[q] = op[q]
  <1>1. PICK r : r = [Idle EXCEPT !.at = label, !.kind = kind, !.job = j] OBVIOUS
  <1>2. r \in OpRec /\ r.at = label /\ r.kind = kind /\ r.job = j
    <2>1. r \in OpRec BY <1>1, IdleValues DEF OpRec
    <2>2. r.at = label /\ r.kind = kind /\ r.job = j
      BY <1>1, IdleValues DEF OpRec
    <2>3. QED BY <2>1, <2>2
  <1>3. op' = [op EXCEPT ![p] = r] BY <1>1 DEF Begin
  <1>4. op' \in [Process -> OpRec] /\ op'[p] = r /\ \A q \in Process : q # p => op'[q] = op[q]
    BY <1>2, <1>3 DEF Typed
  <1> QED BY <1>2, <1>4

\* Return leaves the process idle.
LEMMA ReturnShape ==
    ASSUME Typed, NEW p \in Process, Return(p)
    PROVE  /\ op' \in [Process -> OpRec]
           /\ op'[p].at = "idle"
           /\ \A q \in Process : q # p => op'[q] = op[q]
  BY IdleValues DEF Return, Typed

\* Leave returns, and releases no lock of another process.
LEMMA LeaveShape ==
    ASSUME Typed, NEW p \in Process, NEW j \in Job, Leave(p, j)
    PROVE  /\ op' \in [Process -> OpRec]
           /\ op'[p].at = "idle"
           /\ \A q \in Process : q # p => op'[q] = op[q]
           /\ lock' \in [Job -> Process \cup {None}]
           /\ \A i \in Job : lock[i] \notin {p, None} => lock'[i] = lock[i]
  <1>1. Return(p) /\ lock' = Unlocked(p, j) BY DEF Leave
  <1>2. /\ lock' \in [Job -> Process \cup {None}]
        /\ \A i \in Job : lock[i] \notin {p, None} => lock'[i] = lock[i]
    BY <1>1 DEF Unlocked, Typed
  <1> QED BY <1>1, <1>2, ReturnShape

\* A process that is idle claims nothing.
LEMMA IdleOk ==
    ASSUME NEW p \in Process, op'[p].at = "idle"
    PROVE  OpOk(p)' /\ ~Launcher(p)'
  BY DEF OpOk, Launcher, Working, Guarded, Executing

\* A record with another status.
LEMMA RecChange ==
    ASSUME Typed, NEW j \in Job, NEW r \in JobRec, rec' = [rec EXCEPT ![j] = r]
    PROVE  /\ rec' \in [Job -> JobRec] /\ rec'[j] = r
           /\ \A i \in Job : i # j => rec'[i] = rec[i]
  BY DEF Typed

\* A step of p that moves only its operation and its locks.
LEMMA OpOnly ==
    ASSUME Inv, NEW p \in Process, Typed',
           UNCHANGED <<external, up, rec, reservation, work, reconciling>>,
           \A i \in Job : lock[i] \notin {p, None} => lock'[i] = lock[i],
           OpOk(p)', \A q \in Process : q # p => op'[q] = op[q],
           ~Launcher(p)'
    PROVE  Step(p)
  <1>1. \A i \in Job : JobStep(p, i) /\ JobOk(i)'
    <2> SUFFICES ASSUME NEW i \in Job PROVE JobStep(p, i) /\ JobOk(i)'
      OBVIOUS
    <2>1. JobOk(i) BY DEF Inv, JobInv
    <2>2. QED BY <2>1, JobSame
  <1> QED BY <1>1 DEF Step

\* A step that no operation takes.
LEMMA NoOp ==
    ASSUME Inv, Typed', UNCHANGED <<external, up, op>>,
           \A p \in Process, i \in Job : JobStep(p, i), \A i \in Job : JobOk(i)'
    PROVE  Inv' /\ Going
  <1>1. \A q \in Process : \E p \in Process : p # q
    BY ProcessAssumption DEF Process
  <1>2. ASSUME NEW q \in Process PROVE OpOk(q)' /\ (Launcher(q)' => Launcher(q))
    <2>1. PICK p \in Process : p # q BY <1>1
    <2>2. OpOk(q) /\ op'[q] = op[q] BY DEF Inv, OpInv
    <2>3. op[q].at # "idle" => op[q].job \in Job BY <2>2 DEF OpOk
    <2>4. op[q].at # "idle" => JobStep(p, op[q].job) BY <2>3
    <2>5. OpOk(q)' BY <2>1, <2>2, <2>4, Others DEF Inv
    <2>6. op[q].at = "bind" => rec'[op[q].job].mode = rec[op[q].job].mode
      BY <2>2, <2>4 DEF OpOk, JobStep, Goes
    <2>7. QED BY <2>5, <2>6 DEF Launcher
  <1>3. OpInv' BY <1>2 DEF OpInv
  <1>4. OneLauncher'
    <2> SUFFICES ASSUME NEW q \in Process, NEW r \in Process, Launcher(q)', Launcher(r)',
                        op'[q].job = op'[r].job
                 PROVE  q = r
      BY DEF OneLauncher
    <2>1. Launcher(q) /\ Launcher(r) BY <1>2
    <2>2. QED BY <2>1 DEF Inv, OneLauncher
  <1>5. Going BY DEF JobStep, Going, Process
  <1> QED BY <1>3, <1>4, <1>5 DEF Inv, JobInv

\* An operation under way has a job and is where it may be.
LEMMA Underway ==
    ASSUME Inv, NEW p \in Process, op[p].at # "idle"
    PROVE  /\ op[p].job \in Job /\ OpOk(p) /\ op[p] \in OpRec /\ rec[op[p].job] \in JobRec
           /\ JobOk(op[p].job)
  <1>1. OpOk(p) BY DEF Inv, OpInv
  <1>2. op[p].job \in Job BY <1>1 DEF OpOk
  <1> QED BY <1>1, <1>2 DEF Inv, Typed, JobInv

\* A cancellation goes on when the execution it awaits has ended.
LEMMA AwaitStep == ASSUME Inv, NEW p \in Process, Await(p) PROVE Step(p)
  <1>1. /\ op[p].at = "await" /\ op[p].at # "idle" /\ Goto(p, "end")
        /\ UNCHANGED <<external, up, rec, reservation, work, reconciling, lock>>
    BY DEF Await, At, store
  <1>2. OpOk(p) BY <1>1, Underway
  <1>3. /\ op' \in [Process -> OpRec]
        /\ op'[p].at = "end" /\ op'[p].job = op[p].job /\ op'[p].kind = op[p].kind
        /\ \A q \in Process : q # p => op'[q] = op[q]
    BY <1>1, GotoShape, Labels DEF Inv
  <1>4. OpOk(p)' /\ ~Launcher(p)'
    BY <1>1, <1>2, <1>3 DEF OpOk, Working, Guarded, Executing, Ending, Past, Launcher
  <1>5. Typed' BY <1>1, <1>3 DEF Inv, Typed
  <1> QED BY <1>1, <1>3, <1>4, <1>5, OpOnly

\* An operation that moves and notes what it saw.
LEMMA SawShape ==
    ASSUME Typed, NEW p \in Process, NEW label \in Label, NEW s \in Seen,
           op' = [op EXCEPT ![p].at = label, ![p].saw = s]
    PROVE  /\ op' \in [Process -> OpRec]
           /\ op'[p].at = label /\ op'[p].job = op[p].job /\ op'[p].kind = op[p].kind
           /\ op'[p].saw = s /\ op'[p].was = op[p].was
           /\ \A q \in Process : q # p => op'[q] = op[q]
  <1>1. op[p] \in OpRec BY DEF Typed
  <1>2. PICK r : r = [op[p] EXCEPT !.at = label, !.saw = s] OBVIOUS
  <1>3. r \in OpRec BY <1>1, <1>2 DEF OpRec
  <1>4. /\ r.at = label /\ r.job = op[p].job /\ r.kind = op[p].kind
        /\ r.saw = s /\ r.was = op[p].was
    BY <1>1, <1>2 DEF OpRec
  <1>5. op' = [op EXCEPT ![p] = r] BY <1>2 DEF Typed
  <1> QED BY <1>3, <1>4, <1>5 DEF Typed

\* Enter takes the lock of the job and notes its status.
LEMMA EnterShape ==
    ASSUME Typed, NEW p \in Process, NEW kind \in Kind, NEW j \in Job, NEW label \in Label,
           Enter(p, kind, j, label)
    PROVE  /\ op' \in [Process -> OpRec]
           /\ op'[p].at = label /\ op'[p].job = j /\ op'[p].kind = kind
           /\ op'[p].was = rec[j].status
           /\ \A q \in Process : q # p => op'[q] = op[q]
           /\ lock' \in [Job -> Process \cup {None}] /\ lock'[j] = p
           /\ \A i \in Job : lock[i] \notin {p, None} => lock'[i] = lock[i]
  <1>1. PICK r : r = [at |-> label, kind |-> kind, job |-> j, saw |-> "none",
                      was |-> rec[j].status, wasMarked |-> rec[j].marked]
    OBVIOUS
  <1>2. rec[j] \in JobRec BY DEF Typed
  <1>3. rec[j].status \in Seen /\ rec[j].marked \in BOOLEAN
    BY <1>2, RecValues DEF Seen
  <1>4. r \in OpRec BY <1>1, <1>3, Strings DEF OpRec
  <1>5. r.at = label /\ r.job = j /\ r.kind = kind /\ r.was = rec[j].status BY <1>1
  <1>6. op' = [op EXCEPT ![p] = r] /\ Free(j) /\ lock' = [lock EXCEPT ![j] = p]
    BY <1>1 DEF Enter
  <1>7. /\ op' \in [Process -> OpRec] /\ op'[p] = r
        /\ \A q \in Process : q # p => op'[q] = op[q]
    BY <1>4, <1>6 DEF Typed
  <1>8. /\ lock' \in [Job -> Process \cup {None}] /\ lock'[j] = p
        /\ \A i \in Job : lock[i] \notin {p, None} => lock'[i] = lock[i]
    BY <1>6 DEF Typed, Free
  <1> QED BY <1>5, <1>7, <1>8

\* Unlocked releases no lock of another process.
LEMMA UnlockedShape ==
    ASSUME Typed, NEW p \in Process, NEW j \in Job, lock' = Unlocked(p, j)
    PROVE  /\ lock' \in [Job -> Process \cup {None}]
           /\ \A i \in Job : lock[i] \notin {p, None} => lock'[i] = lock[i]
  BY DEF Unlocked, Typed

\* What an observation finds agrees with the job it read under the lock.
LEMMA LookStep == ASSUME Inv, NEW p \in Process, Look(p) PROVE Step(p)
  <1> DEFINE j == op[p].job
  <1>1. /\ op[p].at = "look" /\ op[p].at # "idle"
        /\ UNCHANGED <<external, up, rec, reservation, work, reconciling, lock>>
    BY DEF Look, At, store
  <1>2. OpOk(p) /\ j \in Job /\ op[p] \in OpRec /\ JobOk(j) BY <1>1, Underway
  <1>3. /\ external /\ up /\ lock[j] = p /\ p \notin Job /\ j \in Job
        /\ op[p].kind = "execute" => p \in Job
        /\ op[p].was \in Busy \cup Ending
        /\ Honest /\ op[p].was \in Ending => rec[j].status \in Ending
        /\ Honest /\ op[p].was \in Busy
             => \/ rec[j].status \in Busy
                \/ rec[j].status \in Ending /\ work[j] = "none"
        /\ rec[j].status \in Past
    BY <1>1, <1>2 DEF OpOk, Executing, Guarded, Working
  <1>4. work[j] \in {"none", "queued", "running"} \cup Ending BY <1>2, <1>3 DEF JobOk
  <1>5. op[p].was \in Seen /\ work[j] \in Seen
    BY <1>2, IdleValues DEF Inv, Typed, Seen
  <1>6. \/ /\ work[j] = "none" /\ op' = [op EXCEPT ![p].at = "deliver", ![p].saw = op[p].was]
        \/ /\ work[j] # "none" /\ op[p].was \in Ending /\ work[j] \notin Ending
           /\ op' = [op EXCEPT ![p].at = "finish", ![p].saw = op[p].was]
        \/ /\ work[j] # "none" /\ ~(op[p].was \in Ending /\ work[j] \notin Ending)
           /\ op' = [op EXCEPT ![p].at = "apply", ![p].saw = work[j]]
    BY DEF Look
  <1>7. /\ op' \in [Process -> OpRec] /\ \A q \in Process : q # p => op'[q] = op[q]
        /\ op'[p].job = j /\ op'[p].kind = op[p].kind
        /\ \/ op'[p].at = "deliver" /\ op'[p].saw = op[p].was
           \/ op'[p].at = "finish" /\ op'[p].saw = op[p].was
           \/ /\ work[j] # "none" /\ ~(op[p].was \in Ending /\ work[j] \notin Ending)
              /\ op'[p].at = "apply" /\ op'[p].saw = work[j]
    BY <1>5, <1>6, SawShape, Labels DEF Inv
  <1> HIDE DEF j
  <1>8. OpOk(p)' /\ ~Launcher(p)'
    <2>1. CASE op'[p].at \in {"deliver", "finish"}
      <3>1. /\ op'[p].saw = op[p].was /\ op'[p].job = j /\ op'[p].kind = op[p].kind
            /\ rec' = rec /\ external' = external /\ up' = up /\ lock' = lock
        BY <1>1, <1>7, <2>1
      <3>2. QED
        BY <1>3, <2>1, <3>1 DEF OpOk, Working, Guarded, Executing, Launcher
    <2>2. CASE op'[p].at = "apply"
      <3>1. work[j] # "none" /\ ~(op[p].was \in Ending /\ work[j] \notin Ending) /\ op'[p].saw = work[j]
        BY <1>7, <2>2
      <3>2. work[j] \in Busy \cup Ending BY <3>1, <1>4 DEF Busy
      <3>3. Honest /\ work[j] \in Busy => rec[j].status \in Busy
        BY <3>1, <1>3 DEF Busy, Ending
      <3>4. /\ op'[p].job = j /\ op'[p].kind = op[p].kind /\ work' = work
            /\ rec' = rec /\ external' = external /\ up' = up /\ lock' = lock
        BY <1>1, <1>7
      <3>5. QED
        BY <1>3, <2>2, <3>1, <3>2, <3>3, <3>4 DEF OpOk, Working, Guarded, Executing, Launcher
    <2>3. QED BY <2>1, <2>2, <1>7
  <1>9. Typed' BY <1>1, <1>7 DEF Inv, Typed
  <1> QED BY <1>1, <1>7, <1>8, <1>9, OpOnly

\* Announcing changes nothing the invariant is about.
LEMMA DeliverStep == ASSUME Inv, NEW p \in Process, Deliver(p) PROVE Step(p)
  <1>1. /\ op[p].at = "deliver" /\ op[p].at # "idle" /\ (Goto(p, "ack") \/ Goto(p, "finish"))
        /\ UNCHANGED <<external, up, rec, reservation, work, reconciling, lock>>
    BY DEF Deliver, At, store
  <1>2. OpOk(p) BY <1>1, Underway
  <1>3. /\ op' \in [Process -> OpRec] /\ op'[p].at \in {"ack", "finish"}
        /\ op'[p].job = op[p].job /\ op'[p].kind = op[p].kind /\ op'[p].saw = op[p].saw
        /\ \A q \in Process : q # p => op'[q] = op[q]
    BY <1>1, GotoShape, Labels DEF Inv
  <1>4. op'[p].at = "ack" => op'[p].saw \in Ending
    <2>1. op[p].saw \in Ending \/ Goto(p, "finish") BY DEF Deliver
    <2>2. Goto(p, "finish") => op'[p].at = "finish" BY GotoShape, Labels DEF Inv
    <2>3. QED BY <1>3, <2>1, <2>2
  <1>5. OpOk(p)' /\ ~Launcher(p)'
    BY <1>1, <1>2, <1>3, <1>4 DEF OpOk, Working, Guarded, Executing, Launcher
  <1>6. Typed' BY <1>1, <1>3 DEF Inv, Typed
  <1> QED BY <1>1, <1>3, <1>5, <1>6, OpOnly

\* An observation or cancellation goes on to the admission only after an ending.
LEMMA FinishStep == ASSUME Inv, NEW p \in Process, Finish(p) PROVE Step(p)
  <1> DEFINE j == op[p].job
  <1>1. /\ op[p].at = "finish" /\ op[p].at # "idle"
        /\ UNCHANGED <<external, up, rec, reservation, work, reconciling>>
    BY DEF Finish, At, store
  <1>2. OpOk(p) /\ j \in Job BY <1>1, Underway
  <1>3. \/ op[p].saw \in Ending /\ Goto(p, "end") /\ (UNCHANGED lock \/ lock' = Unlocked(p, j))
        \/ Leave(p, j)
    BY DEF Finish
  <1>4. CASE op[p].saw \in Ending /\ Goto(p, "end") /\ (UNCHANGED lock \/ lock' = Unlocked(p, j))
    <2>1. /\ op' \in [Process -> OpRec] /\ op'[p].at = "end"
          /\ op'[p].job = op[p].job /\ op'[p].kind = op[p].kind
          /\ \A q \in Process : q # p => op'[q] = op[q]
      BY <1>4, GotoShape, Labels DEF Inv
    <2>2. OpOk(p)' /\ ~Launcher(p)'
      BY <1>1, <1>2, <1>4, <2>1 DEF OpOk, Working, Guarded, Executing, Launcher, Ending, Past
    <2>3. /\ lock' \in [Job -> Process \cup {None}]
          /\ \A i \in Job : lock[i] \notin {p, None} => lock'[i] = lock[i]
      BY <1>2, <1>4, UnlockedShape DEF Inv, Typed
    <2>4. Typed' BY <1>1, <2>1, <2>3 DEF Inv, Typed
    <2>5. QED BY <1>1, <2>1, <2>2, <2>3, <2>4, OpOnly
  <1>5. CASE Leave(p, j)
    <2>1. /\ op' \in [Process -> OpRec] /\ op'[p].at = "idle"
          /\ \A q \in Process : q # p => op'[q] = op[q]
          /\ lock' \in [Job -> Process \cup {None}]
          /\ \A i \in Job : lock[i] \notin {p, None} => lock'[i] = lock[i]
      BY <1>2, <1>5, LeaveShape DEF Inv
    <2>2. Typed' BY <1>1, <2>1 DEF Inv, Typed
    <2>3. QED BY <1>1, <2>1, <2>2, IdleOk, OpOnly
  <1> QED BY <1>3, <1>4, <1>5

\* An operation that returns and releases its locks.
LEMMA LeaveStep ==
    ASSUME Inv, NEW p \in Process, NEW j \in Job, Leave(p, j),
           UNCHANGED <<external, up, rec, reservation, work, reconciling>>
    PROVE  Step(p)
  <1>1. /\ op' \in [Process -> OpRec] /\ op'[p].at = "idle"
        /\ \A q \in Process : q # p => op'[q] = op[q]
        /\ lock' \in [Job -> Process \cup {None}]
        /\ \A i \in Job : lock[i] \notin {p, None} => lock'[i] = lock[i]
    BY LeaveShape DEF Inv
  <1>2. Typed' BY <1>1 DEF Inv, Typed
  <1> QED BY <1>1, <1>2, IdleOk, OpOnly

\* A critical section about a job that is past its approval.
LEMMA EnterStep ==
    ASSUME Inv, NEW p \in Caller \cup {Poller}, NEW j \in Job, NEW kind \in Kind, kind # "execute",
           NEW label \in {"ask", "look"}, Enter(p, kind, j, label), external, up,
           rec[j].status \in Busy \cup Ending,
           UNCHANGED <<external, up, rec, reservation, work, reconciling>>
    PROVE  Step(p)
  <1>1. p \in Process /\ p \notin Job BY ProcessAssumption DEF Process
  <1>2. label \in Label BY Labels
  <1>3. /\ op' \in [Process -> OpRec]
        /\ op'[p].at = label /\ op'[p].job = j /\ op'[p].kind = kind
        /\ op'[p].was = rec[j].status
        /\ \A q \in Process : q # p => op'[q] = op[q]
        /\ lock' \in [Job -> Process \cup {None}] /\ lock'[j] = p
        /\ \A i \in Job : lock[i] \notin {p, None} => lock'[i] = lock[i]
    BY <1>1, <1>2, EnterShape DEF Inv
  <1>4. OpOk(p)' /\ ~Launcher(p)'
    BY <1>1, <1>3 DEF OpOk, Working, Guarded, Executing, Launcher, Past
  <1>5. Typed' BY <1>3 DEF Inv, Typed
  <1> QED BY <1>1, <1>3, <1>4, <1>5, OpOnly

\* observe, by a request or by the timer, takes the lock.
LEMMA ObserveStep ==
    ASSUME Inv, NEW p \in Caller \cup {Poller}, NEW j \in Job, Observe(p, j) PROVE Step(p)
  BY EnterStep, Labels DEF Observe, At, store

\* cancel of a job at a worker takes the lock.
LEMMA CancelExternalStep ==
    ASSUME Inv, NEW c \in Caller, NEW j \in Job, CancelExternal(c, j) PROVE Step(c)
  <1>1. PICK label \in {"ask", "look"} : Enter(c, "cancel", j, label)
    BY DEF CancelExternal
  <1>2. /\ external /\ up /\ rec[j].status \in Busy \cup Ending
        /\ UNCHANGED <<external, up, rec, reservation, work, reconciling>>
    BY DEF CancelExternal, At, store
  <1> QED BY <1>1, <1>2, EnterStep, Labels

\* The worker is asked to stop; its task stays known.
LEMMA AskStep == ASSUME Inv, NEW p \in Process, Ask(p) PROVE Step(p)
  <1> DEFINE j == op[p].job
  <1>1. /\ op[p].at = "ask" /\ op[p].at # "idle"
        /\ (Goto(p, "asked") /\ UNCHANGED lock) \/ Leave(p, j)
        /\ UNCHANGED <<external, up, rec, reservation, work, reconciling>>
    BY DEF Ask, At, store
  <1>2. OpOk(p) /\ j \in Job BY <1>1, Underway
  <1>3. CASE Goto(p, "asked") /\ UNCHANGED lock
    <2>1. /\ op' \in [Process -> OpRec] /\ op'[p].at = "asked"
          /\ op'[p].job = op[p].job /\ op'[p].kind = op[p].kind
          /\ op'[p].saw = op[p].saw /\ op'[p].was = op[p].was
          /\ \A q \in Process : q # p => op'[q] = op[q]
      BY <1>3, GotoShape, Labels DEF Inv
    <2>2. OpOk(p)' /\ ~Launcher(p)'
      BY <1>1, <1>2, <1>3, <2>1 DEF OpOk, Working, Guarded, Executing, Launcher
    <2>3. Typed' BY <1>1, <1>3, <2>1 DEF Inv, Typed
    <2>4. QED BY <1>1, <1>3, <2>1, <2>2, <2>3, OpOnly
  <1>4. CASE Leave(p, j) BY <1>1, <1>2, <1>4, LeaveStep
  <1> QED BY <1>1, <1>3, <1>4

\* An execution takes the lock of the workspace.
LEMMA TakeTreeStep == ASSUME Inv, NEW j \in Job, TakeTree(j) PROVE Step(j)
  <1>1. /\ op[j].at = "start" /\ op[j].at # "idle" /\ Goto(j, "claim") /\ j \in Process
        /\ UNCHANGED <<external, up, rec, reservation, work, reconciling, lock>>
    BY DEF TakeTree, At, store, Process
  <1>2. OpOk(j) BY <1>1, Underway
  <1>3. /\ op' \in [Process -> OpRec] /\ op'[j].at = "claim"
        /\ op'[j].job = op[j].job /\ op'[j].kind = op[j].kind
        /\ \A q \in Process : q # j => op'[q] = op[q]
    BY <1>1, GotoShape, Labels DEF Inv
  <1>4. OpOk(j)' /\ ~Launcher(j)'
    BY <1>1, <1>2, <1>3 DEF OpOk, Working, Guarded, Executing, Launcher
  <1>5. Typed' BY <1>1, <1>3 DEF Inv, Typed
  <1> QED BY <1>1, <1>3, <1>4, <1>5, OpOnly

\* commit begins; it works on no admission.
LEMMA CommitEnterStep ==
    ASSUME Inv, NEW c \in Caller, NEW j \in Job, CommitEnter(c, j) PROVE Step(c)
  <1>1. /\ up /\ Begin(c, "commit", j, "enter") /\ c \in Process /\ c \notin Job
        /\ UNCHANGED <<external, up, rec, reservation, work, reconciling, lock>>
    BY ProcessAssumption DEF CommitEnter, At, store, Process
  <1>2. /\ op' \in [Process -> OpRec]
        /\ op'[c].at = "enter" /\ op'[c].job = j /\ op'[c].kind = "commit"
        /\ \A q \in Process : q # c => op'[q] = op[q]
    BY <1>1, BeginShape, Labels DEF Inv
  <1>3. OpOk(c)' /\ ~Launcher(c)'
    BY <1>1, <1>2 DEF OpOk, Working, Guarded, Executing, Launcher
  <1>4. Typed' BY <1>1, <1>2 DEF Inv, Typed
  <1> QED BY <1>1, <1>2, <1>3, <1>4, OpOnly

\* commit takes its locks and releases them.
LEMMA CommitStep == ASSUME Inv, NEW c \in Caller, Commit(c) PROVE Step(c)
  <1>1. /\ c \in Process /\ op[c].at \in {"enter", "commit"} /\ op[c].at # "idle"
        /\ (op[c].at = "enter" /\ Goto(c, "commit") /\ UNCHANGED lock) \/ Leave(c, op[c].job)
        /\ UNCHANGED <<external, up, rec, reservation, work, reconciling>>
    BY DEF Commit, CommitLocks, At, store, Process
  <1>2. OpOk(c) /\ op[c].job \in Job BY <1>1, Underway
  <1>3. CASE op[c].at = "enter" /\ Goto(c, "commit") /\ UNCHANGED lock
    <2>1. /\ op' \in [Process -> OpRec] /\ op'[c].at = "commit"
          /\ op'[c].job = op[c].job /\ op'[c].kind = op[c].kind
          /\ \A q \in Process : q # c => op'[q] = op[q]
      BY <1>1, <1>3, GotoShape, Labels DEF Inv
    <2>2. OpOk(c)' /\ ~Launcher(c)'
      BY <1>1, <1>2, <1>3, <2>1 DEF OpOk, Working, Guarded, Executing, Launcher
    <2>3. Typed' BY <1>1, <1>3, <2>1 DEF Inv, Typed
    <2>4. QED BY <1>1, <1>3, <2>1, <2>2, <2>3, OpOnly
  <1>4. CASE Leave(c, op[c].job) BY <1>1, <1>2, <1>4, LeaveStep
  <1> QED BY <1>1, <1>3, <1>4

\* What runs goes on or ends; a failure may turn out a cancellation.
LEMMA WorkOnly ==
    ASSUME Inv, NEW j \in Job, NEW w \in Work, w # "none", work[j] # "none",
           \/ work[j] \notin Ending
           \/ "belated" \in Fault /\ external /\ work[j] = "failed" /\ w = "cancelled",
           w \notin {"queued", "prepared"},
           external => w \in {"queued", "running"} \cup Ending,
           work' = [work EXCEPT ![j] = w],
           UNCHANGED <<external, up, rec, reservation, reconciling, lock, op>>
    PROVE  Inv' /\ Going
  <1>1. /\ work' \in [Job -> Work] /\ work'[j] = w
        /\ \A i \in Job : i # j => work'[i] = work[i]
    BY DEF Inv, Typed
  <1>2. Typed' BY <1>1 DEF Inv, Typed
  <1>3. ASSUME NEW p \in Process, NEW i \in Job PROVE JobStep(p, i) /\ JobOk(i)'
    <2>1. JobOk(i) BY DEF Inv, JobInv
    <2>2. CASE i # j BY <1>1, <2>1, <2>2, JobSame
    <2>3. CASE i = j
      <3>0. external /\ work[j] = "failed" => rec[j].status \in Open
        <4>1. rec[j] \in JobRec BY DEF Inv, Typed
        <4>2. rec[j].status \in Status BY <4>1, RecValues
        <4>3. QED BY <2>1, <2>3, <4>2 DEF JobOk, Open, Busy, Status, Active, Ending
      <3>1. JobStep(p, j) BY <1>1, <2>1, <2>3, <3>0 DEF JobStep, Goes
      <3>2. JobOk(j)'
        <4>1. external /\ work[j] \notin Ending
                => rec[j].status \notin {"completed", "cancelled"}
          BY <2>1, <2>3 DEF JobOk, Ending
        <4>2. external => rec[j].status \notin {"completed", "cancelled"}
          BY <3>0, <4>1 DEF Open, Busy
        <4>3. QED BY <1>1, <2>1, <2>3, <4>2 DEF JobOk, Active, Busy
      <3>3. QED BY <2>3, <3>1, <3>2
    <2>4. QED BY <2>2, <2>3
  <1>4. \E p \in Process : TRUE BY DEF Process
  <1> QED BY <1>2, <1>3, <1>4, NoOp

\* The command is invoked, or refused for a cancelled job.
LEMMA InvokeStep == ASSUME Inv, NEW j \in Job, Invoke(j) PROVE Inv' /\ Going
  <1>1. /\ work[j] = "prepared" /\ work[j] # "none" /\ work[j] \notin Ending
        /\ UNCHANGED <<external, up, rec, reservation, reconciling, lock, op>>
    BY DEF Invoke, store, memory, Ending
  <1>2. PICK w \in {"running", "failed"} : work' = [work EXCEPT ![j] = w]
    BY DEF Invoke
  <1>3. w \in Work /\ w # "none" /\ w \notin {"queued", "prepared"} /\ w \in {"queued", "running"} \cup Ending
    BY <1>2 DEF Work, Ending
  <1> QED BY <1>1, <1>2, <1>3, WorkOnly

\* The command ends.
LEMMA RunnerEndsStep == ASSUME Inv, NEW j \in Job, RunnerEnds(j) PROVE Inv' /\ Going
  <1>1. /\ work[j] = "running" /\ work[j] # "none" /\ work[j] \notin Ending
        /\ UNCHANGED <<external, up, rec, reservation, reconciling, lock, op>>
    BY DEF RunnerEnds, store, memory, Ending
  <1>2. PICK w \in {"completed", "failed"} : work' = [work EXCEPT ![j] = w]
    BY DEF RunnerEnds
  <1>3. w \in Work /\ w # "none" /\ w \notin {"queued", "prepared"} /\ w \in {"queued", "running"} \cup Ending
    BY <1>2 DEF Work, Ending
  <1> QED BY <1>1, <1>2, <1>3, WorkOnly

\* The worker behind the dispatcher claims, ends or cancels its task.
LEMMA WorkerStepStep == ASSUME Inv, NEW j \in Job, WorkerStep(j) PROVE Inv' /\ Going
  <1>1. external /\ UNCHANGED <<external, up, rec, reservation, reconciling, lock, op>>
    BY DEF WorkerStep, store, memory
  <1>2. PICK w \in Dispatcher!After(work[j], j \in stop) : work' = [work EXCEPT ![j] = w]
    BY DEF WorkerStep
  <1>4. /\ w \in {"running", "completed", "failed", "cancelled"}
        /\ work[j] \in {"queued", "running", "failed"}
        /\ work[j] = "failed" => w = "cancelled" /\ "belated" \in Fault
    BY <1>2 DEF Dispatcher!After, WorkerStep, Fails
  <1>5. /\ work[j] # "none"
        /\ \/ work[j] \notin Ending
           \/ "belated" \in Fault /\ external /\ work[j] = "failed" /\ w = "cancelled"
    BY <1>1, <1>4 DEF Ending
  <1>3. w \in Work /\ w # "none" /\ w \notin {"queued", "prepared"} /\ w \in {"queued", "running"} \cup Ending
    BY <1>4 DEF Work, Ending
  <1> QED BY <1>1, <1>2, <1>3, <1>5, WorkOnly

\* Nothing the invariant is about changes.
LEMMA NothingStep ==
    ASSUME Inv, UNCHANGED <<external, up, rec, reservation, reconciling, lock, op, work>>
    PROVE  Inv' /\ Going
  <1>1. Typed' BY DEF Inv, Typed
  <1>2. ASSUME NEW p \in Process, NEW i \in Job PROVE JobStep(p, i) /\ JobOk(i)'
    <2>1. JobOk(i) BY DEF Inv, JobInv
    <2>2. QED BY <2>1, JobSame
  <1>3. \E p \in Process : TRUE BY DEF Process
  <1> QED BY <1>1, <1>2, <1>3, NoOp

\* A deadline that passes changes no job.
LEMMA DeadlineStep == ASSUME Inv, NEW j \in Job, DeadlinePasses(j) PROVE Inv' /\ Going
  <1>1. UNCHANGED <<external, up, rec, reservation, reconciling, lock, op, work>>
    BY DEF DeadlinePasses, memory
  <1> QED BY <1>1, NothingStep

\* A job whose status, approval and mode a step leaves alone.
LEMMA KeepsStatus ==
    ASSUME NEW p, NEW j \in Job, JobOk(j), rec[j].status # "absent",
           rec'[j].status = rec[j].status, rec'[j].approval = rec[j].approval,
           rec'[j].mode = rec[j].mode, work'[j] = work[j], external' = external,
           lock[j] \notin {p, None} => lock'[j] = lock[j],
           Counted /\ rec[j].status \in Active => reservation'[j] # "none",
           j \in reconciling' => j \in reconciling \/ (~external /\ rec[j].status \in Past)
    PROVE  JobStep(p, j) /\ JobOk(j)'
  <1>1. JobStep(p, j) BY DEF JobStep, Goes
  <1>2. JobOk(j)' BY DEF JobOk
  <1> QED BY <1>1, <1>2

\* The same as a step: it changes the reservation, the mark or what was told.
LEMMA KeepsStatusStep ==
    ASSUME Inv, NEW p \in Process, NEW j \in Job, Typed', external' = external, up' = up,
           rec[j].status # "absent",
           rec'[j].status = rec[j].status, rec'[j].approval = rec[j].approval,
           rec'[j].mode = rec[j].mode, work' = work,
           Counted /\ rec[j].status \in Active => reservation'[j] # "none",
           j \in reconciling' => j \in reconciling \/ (~external /\ rec[j].status \in Past),
           \A i \in Job : i # j => /\ rec'[i] = rec[i] /\ reservation'[i] = reservation[i]
                                   /\ i \in reconciling' <=> i \in reconciling,
           \A i \in Job : lock[i] \notin {p, None} => lock'[i] = lock[i],
           OpOk(p)', ~Launcher(p)', \A q \in Process : q # p => op'[q] = op[q]
    PROVE  Step(p)
  <1>1. JobOk(j) BY DEF Inv, JobInv
  <1>2. JobStep(p, j) /\ JobOk(j)' BY <1>1, KeepsStatus
  <1>3. \A i \in Job : i # j => /\ rec'[i] = rec[i] /\ work'[i] = work[i]
                                /\ reservation'[i] = reservation[i]
                                /\ i \in reconciling' <=> i \in reconciling
    OBVIOUS
  <1> QED BY <1>2, <1>3, OneJob

\* The mark of a missing cleanup changes nothing else.
LEMMA MarkChange ==
    ASSUME Typed, NEW j \in Job, NEW b \in BOOLEAN, rec' = [rec EXCEPT ![j].marked = b]
    PROVE  /\ rec' \in [Job -> JobRec] /\ rec'[j].status = rec[j].status
           /\ rec'[j].approval = rec[j].approval /\ rec'[j].mode = rec[j].mode
           /\ \A i \in Job : i # j => rec'[i] = rec[i]
  <1>1. PICK r : r = [rec[j] EXCEPT !.marked = b] OBVIOUS
  <1>2. rec[j] \in JobRec BY DEF Typed
  <1>3. /\ r \in JobRec /\ r.status = rec[j].status
        /\ r.approval = rec[j].approval /\ r.mode = rec[j].mode
    BY <1>1, <1>2, MarkValues
  <1>4. rec' = [rec EXCEPT ![j] = r] BY <1>1
  <1>5. /\ rec' \in [Job -> JobRec] /\ rec'[j] = r
        /\ \A i \in Job : i # j => rec'[i] = rec[i]
    BY <1>3, <1>4, RecChange
  <1> QED BY <1>3, <1>5

\* The mark of a missing cleanup is set, taken off, or left alone.
LEMMA MarkedOrNot ==
    ASSUME Typed, NEW j \in Job,
           rec' = rec \/ \E b \in BOOLEAN : rec' = [rec EXCEPT ![j].marked = b]
    PROVE  /\ rec' \in [Job -> JobRec] /\ rec'[j].status = rec[j].status
           /\ rec'[j].approval = rec[j].approval /\ rec'[j].mode = rec[j].mode
           /\ \A i \in Job : i # j => rec'[i] = rec[i]
  <1>1. CASE rec' = rec BY <1>1 DEF Typed
  <1>2. CASE \E b \in BOOLEAN : rec' = [rec EXCEPT ![j].marked = b]
    BY <1>2, MarkChange
  <1> QED BY <1>1, <1>2

\* The end of an admission: the job is over, or its task was sent by a dispatch
\* that threw.
LEMMA EndingStep ==
    ASSUME Inv, NEW p \in Process, NEW j \in Job, rec[j].status \in Past,
           Honest => rec[j].status \in Ending,
           UNCHANGED <<external, up, work, reconciling>>,
           rec' = rec \/ \E b \in BOOLEAN : rec' = [rec EXCEPT ![j].marked = b],
           NEW s \in Phase, reservation' = [reservation EXCEPT ![j] = s],
           \/ Leave(p, j)
           \/ /\ \E label \in Label : Goto(p, label)
              /\ UNCHANGED lock /\ OpOk(p)' /\ ~Launcher(p)'
    PROVE  Step(p)
  <1>1. /\ rec' \in [Job -> JobRec] /\ rec'[j].status = rec[j].status
        /\ rec'[j].approval = rec[j].approval /\ rec'[j].mode = rec[j].mode
        /\ \A i \in Job : i # j => rec'[i] = rec[i]
    BY MarkedOrNot DEF Inv
  <1>2. /\ reservation' \in [Job -> Phase]
        /\ \A i \in Job : i # j => reservation'[i] = reservation[i]
    BY DEF Inv, Typed
  <1>3. rec[j].status # "absent" /\ (Honest => rec[j].status \notin Active)
    BY DEF Past, Busy, Ending, Active
  <1>4. /\ op' \in [Process -> OpRec] /\ OpOk(p)' /\ ~Launcher(p)'
        /\ \A q \in Process : q # p => op'[q] = op[q]
        /\ lock' \in [Job -> Process \cup {None}]
        /\ \A i \in Job : lock[i] \notin {p, None} => lock'[i] = lock[i]
    <2>1. CASE Leave(p, j) BY <2>1, LeaveShape, IdleOk DEF Inv
    <2>2. CASE ~Leave(p, j) BY <2>2, GotoShape DEF Inv, Typed
    <2>3. QED BY <2>1, <2>2
  <1>5. Typed' BY <1>1, <1>2, <1>4 DEF Inv, Typed
  <1> QED BY <1>1, <1>2, <1>3, <1>4, <1>5, KeepsStatusStep, CountedHonest

\* finalizeAdmission, for a job without resources here: it releases or fails.
LEMMA EndStep == ASSUME Inv, NEW p \in Process, End(p) PROVE Step(p)
  <1> DEFINE j == op[p].job
  <1>1. /\ op[p].at = "end" /\ op[p].at # "idle"
        /\ UNCHANGED <<external, up, work, reconciling>>
    BY DEF End, At
  <1>2. OpOk(p) /\ j \in Job BY <1>1, Underway
  <1>3. rec[j].status \in Past /\ (Honest => rec[j].status \in Ending)
    BY <1>1, <1>2 DEF OpOk, Working
  <1>4. reservation[j] \in Phase /\ "none" \in Phase BY <1>2 DEF Inv, Typed, Phase
  <1>5. reservation' = reservation => reservation' = [reservation EXCEPT ![j] = reservation[j]]
    BY <1>2 DEF Inv, Typed
  <1>6. CASE /\ \E label \in {"mark", "error"} : Goto(p, label)
             /\ UNCHANGED <<rec, reservation, lock, tree, notices>>
    <2>1. PICK label \in {"mark", "error"} : Goto(p, label) BY <1>6
    <2>2. /\ op'[p].at = label /\ op'[p].job = j /\ op'[p].kind = op[p].kind
          /\ op'[p].saw = op[p].saw /\ label \in Label
      BY <2>1, GotoShape, Labels DEF Inv
    <2>3. OpOk(p)' /\ ~Launcher(p)'
      BY <1>1, <1>2, <1>3, <1>6, <2>2 DEF OpOk, Working, Guarded, Executing, Launcher
    <2>4. QED BY <1>1, <1>2, <1>3, <1>4, <1>5, <1>6, <2>1, <2>2, <2>3, EndingStep
  <1>7. CASE ReleaseJob(j) /\ Done(p, j)
    <2>1. Leave(p, j) /\ (rec' = rec \/ \E b \in BOOLEAN : rec' = [rec EXCEPT ![j].marked = b])
      BY <1>7 DEF Done
    <2>2. PICK s \in Phase : reservation' = [reservation EXCEPT ![j] = s]
      <3>1. CASE reservation[j] = "reserved"
        BY <1>2, <1>4, <1>7, <3>1 DEF ReleaseJob, Inv, Typed
      <3>2. CASE reservation[j] # "reserved"
        BY <1>2, <1>4, <1>7, <3>2 DEF ReleaseJob, Inv, Typed
      <3>3. QED BY <3>1, <3>2
    <2>3. QED BY <1>1, <1>2, <1>3, <2>1, <2>2, EndingStep
  <1>8. \/ /\ \E label \in {"mark", "error"} : Goto(p, label)
           /\ UNCHANGED <<rec, reservation, lock, tree, notices>>
        \/ ReleaseJob(j) /\ Done(p, j)
    BY DEF End
  <1> QED BY <1>6, <1>7, <1>8

\* markTerminalPending.
LEMMA MarkStep == ASSUME Inv, NEW p \in Process, Mark(p) PROVE Step(p)
  <1> DEFINE j == op[p].job
  <1>1. /\ op[p].at = "mark" /\ op[p].at # "idle"
        /\ UNCHANGED <<external, up, work, reconciling, rec, lock>>
    BY DEF Mark, At
  <1>2. OpOk(p) /\ j \in Job BY <1>1, Underway
  <1>3. rec[j].status \in Past /\ (Honest => rec[j].status \in Ending)
    BY <1>1, <1>2 DEF OpOk, Working
  <1>4. PICK s \in Phase : reservation' = [reservation EXCEPT ![j] = s]
    <2>1. reservation[j] \in Phase /\ "terminal_pending" \in Phase BY <1>2 DEF Inv, Typed, Phase
    <2>2. \/ reservation' = reservation
          \/ reservation' = [reservation EXCEPT ![j] = IF @ = "unresolved" THEN @ ELSE "terminal_pending"]
      BY DEF Mark
    <2>3. CASE reservation[j] = "unresolved" BY <1>2, <2>1, <2>2, <2>3 DEF Inv, Typed
    <2>4. CASE reservation[j] # "unresolved" BY <1>2, <2>1, <2>2, <2>4 DEF Inv, Typed
    <2>5. QED BY <2>3, <2>4
  <1>5. PICK label \in {"release", "error"} : Goto(p, label) BY DEF Mark
  <1>6. /\ op'[p].at = label /\ op'[p].job = j /\ op'[p].kind = op[p].kind
        /\ op'[p].saw = op[p].saw /\ label \in Label
    BY <1>5, GotoShape, Labels DEF Inv
  <1>7. OpOk(p)' /\ ~Launcher(p)'
    BY <1>1, <1>2, <1>3, <1>6 DEF OpOk, Working, Guarded, Executing, Launcher
  <1> QED BY <1>1, <1>2, <1>3, <1>4, <1>5, <1>6, <1>7, EndingStep

\* The workspace is disposed of and the reservation released.
LEMMA ReleaseStep == ASSUME Inv, NEW p \in Process, Release(p) PROVE Step(p)
  <1> DEFINE j == op[p].job
  <1>1. /\ op[p].at = "release" /\ op[p].at # "idle"
        /\ UNCHANGED <<external, up, work, reconciling>>
    BY DEF Release, At
  <1>2. OpOk(p) /\ j \in Job BY <1>1, Underway
  <1>3. rec[j].status \in Past /\ (Honest => rec[j].status \in Ending)
    BY <1>1, <1>2 DEF OpOk, Working
  <1>4. reservation[j] \in Phase /\ "none" \in Phase BY <1>2 DEF Inv, Typed, Phase
  <1>5. reservation' = reservation => reservation' = [reservation EXCEPT ![j] = reservation[j]]
    BY <1>2 DEF Inv, Typed
  <1>6. CASE Goto(p, "error") /\ UNCHANGED <<rec, reservation, held, lock, tree, notices>>
    <2>2. /\ op'[p].at = "error" /\ op'[p].job = j /\ op'[p].kind = op[p].kind
          /\ "error" \in Label
      BY <1>6, GotoShape, Labels DEF Inv
    <2>3. OpOk(p)' /\ ~Launcher(p)'
      BY <1>1, <1>2, <1>3, <1>6, <2>2 DEF OpOk, Working, Guarded, Executing, Launcher
    <2>4. QED BY <1>1, <1>2, <1>3, <1>4, <1>5, <1>6, <2>2, <2>3, EndingStep
  <1>7. CASE reservation' = [reservation EXCEPT ![j] = "none"] /\ Done(p, j)
    <2>1. Leave(p, j) /\ (rec' = rec \/ \E b \in BOOLEAN : rec' = [rec EXCEPT ![j].marked = b])
      BY <1>7 DEF Done
    <2>2. QED BY <1>1, <1>2, <1>3, <1>4, <1>7, <2>1, EndingStep
  <1> QED BY <1>6, <1>7 DEF Release

\* markReconciliationRequired keeps the capacity that is held.
LEMMA UnresolveShape ==
    ASSUME Typed, NEW j \in Job, Unresolve(j)
    PROVE  /\ reservation' \in [Job -> Phase]
           /\ reservation[j] # "none" => reservation'[j] # "none"
           /\ \A i \in Job : i # j => reservation'[i] = reservation[i]
  <1>1. "none" \in Phase /\ "unresolved" \in Phase BY DEF Phase
  <1>2. CASE ~Bound(j) BY <1>1, <1>2 DEF Unresolve, Typed
  <1>3. CASE Bound(j) BY <1>1, <1>3 DEF Unresolve, Bound, Typed
  <1> QED BY <1>2, <1>3

\* A failed end of an admission is marked; the capacity stays.
LEMMA ErrorStep == ASSUME Inv, NEW p \in Process, Error(p) PROVE Step(p)
  <1> DEFINE j == op[p].job
  <1>1. /\ op[p].at = "error" /\ op[p].at # "idle" /\ Unresolve(j)
        /\ UNCHANGED <<external, up, work, reconciling>>
        /\ rec' = rec \/ \E b \in BOOLEAN : rec' = [rec EXCEPT ![j].marked = b]
    BY DEF Error, At
  <1>2. OpOk(p) /\ j \in Job /\ JobOk(j) BY <1>1, Underway
  <1>3. rec[j].status \in Past BY <1>1, <1>2 DEF OpOk, Working
  <1>4. /\ rec' \in [Job -> JobRec] /\ rec'[j].status = rec[j].status
        /\ rec'[j].approval = rec[j].approval /\ rec'[j].mode = rec[j].mode
        /\ \A i \in Job : i # j => rec'[i] = rec[i]
    BY <1>1, <1>2, MarkedOrNot DEF Inv
  <1>5. /\ reservation' \in [Job -> Phase]
        /\ Counted /\ rec[j].status \in Active => reservation'[j] # "none"
        /\ \A i \in Job : i # j => reservation'[i] = reservation[i]
    BY <1>1, <1>2, UnresolveShape DEF Inv, JobOk
  <1>6. /\ op' \in [Process -> OpRec] /\ OpOk(p)' /\ ~Launcher(p)'
        /\ \A q \in Process : q # p => op'[q] = op[q]
        /\ lock' \in [Job -> Process \cup {None}]
        /\ \A i \in Job : lock[i] \notin {p, None} => lock'[i] = lock[i]
    <2>1. CASE Leave(p, j) BY <1>2, <2>1, LeaveShape, IdleOk DEF Inv
    <2>2. CASE op[p].kind = "execute" /\ Goto(p, "unrecorded") /\ UNCHANGED lock
      <3>1. /\ op' \in [Process -> OpRec] /\ op'[p].at = "unrecorded" /\ op'[p].job = j
            /\ op'[p].kind = op[p].kind
            /\ \A q \in Process : q # p => op'[q] = op[q]
        BY <2>2, GotoShape, Labels DEF Inv
      <3>2. OpOk(p)' /\ ~Launcher(p)'
        BY <1>1, <1>2, <1>3, <1>4, <2>2, <3>1 DEF OpOk, Working, Guarded, Executing, Launcher
      <3>3. QED BY <2>2, <3>1, <3>2 DEF Inv, Typed
    <2>3. QED BY <2>1, <2>2 DEF Error
  <1>7. Typed' BY <1>1, <1>4, <1>5, <1>6 DEF Inv, Typed
  <1>8. rec[j].status # "absent" BY <1>3 DEF Past, Busy, Ending
  <1> QED BY <1>1, <1>2, <1>4, <1>5, <1>6, <1>7, <1>8, KeepsStatusStep

\* A result that could not be stored is left to an operator.
LEMMA UnrecordedStep == ASSUME Inv, NEW j \in Job, Unrecorded(j) PROVE Step(j)
  <1>1. /\ j \in Process /\ op[j].at = "unrecorded" /\ op[j].at # "idle" /\ Unresolve(j) /\ Leave(j, j)
        /\ UNCHANGED <<external, up, work>> /\ reconciling' = reconciling \cup {j}
        /\ rec' = rec \/ \E b \in BOOLEAN : rec' = [rec EXCEPT ![j].marked = b]
    BY DEF Unrecorded, At, Process
  <1>2. OpOk(j) /\ JobOk(j) BY <1>1, Underway DEF OpOk
  <1>3. rec[j].status \in Past /\ ~external /\ op[j].job = j
    BY <1>1, <1>2 DEF OpOk, Working
  <1>4. /\ rec' \in [Job -> JobRec] /\ rec'[j].status = rec[j].status
        /\ rec'[j].approval = rec[j].approval /\ rec'[j].mode = rec[j].mode
        /\ \A i \in Job : i # j => rec'[i] = rec[i]
    BY <1>1, MarkedOrNot DEF Inv
  <1>5. /\ reservation' \in [Job -> Phase]
        /\ \A i \in Job : i # j => reservation'[i] = reservation[i]
        /\ reservation[j] # "none" => reservation'[j] # "none"
    BY <1>1, UnresolveShape DEF Inv
  <1>6. JobOk(j) BY DEF Inv, JobInv
  <1>7. Counted /\ rec[j].status \in Active => reservation'[j] # "none" BY <1>5, <1>6 DEF JobOk
  <1>8. /\ op' \in [Process -> OpRec] /\ OpOk(j)' /\ ~Launcher(j)'
        /\ \A q \in Process : q # j => op'[q] = op[q]
        /\ lock' \in [Job -> Process \cup {None}]
        /\ \A i \in Job : lock[i] \notin {j, None} => lock'[i] = lock[i]
    BY <1>1, LeaveShape, IdleOk DEF Inv
  <1>9. Typed' BY <1>1, <1>4, <1>5, <1>8 DEF Inv, Typed
  <1>10. rec[j].status # "absent" BY <1>3 DEF Past, Busy, Ending
  <1> QED BY <1>1, <1>3, <1>4, <1>5, <1>7, <1>8, <1>9, <1>10, KeepsStatusStep

\* The request to cancel is noted, or the critical section ends.
LEMMA AskedStep == ASSUME Inv, NEW p \in Process, Asked(p) PROVE Step(p)
  <1> DEFINE j == op[p].job
  <1>1. /\ op[p].at = "asked" /\ op[p].at # "idle"
        /\ UNCHANGED <<external, up, work, reconciling, reservation>>
    BY DEF Asked, At
  <1>2. OpOk(p) /\ j \in Job /\ JobOk(j) BY <1>1, Underway
  <1>3. rec[j].status \in Past /\ rec[j].status # "absent"
    BY <1>1, <1>2 DEF OpOk, Working, Past, Busy, Ending
  <1>4. CASE rec' = [rec EXCEPT ![j].asked = TRUE] /\ Goto(p, "look") /\ UNCHANGED lock
    <2>1. PICK r : r = [rec[j] EXCEPT !.asked = TRUE] OBVIOUS
    <2>2. rec[j] \in JobRec BY <1>2 DEF Inv, Typed
    <2>3. /\ r \in JobRec /\ r.status = rec[j].status
          /\ r.approval = rec[j].approval /\ r.mode = rec[j].mode
      BY <2>1, <2>2, AskedValues
    <2>4. rec' = [rec EXCEPT ![j] = r] BY <1>4, <2>1
    <2>5. /\ rec' \in [Job -> JobRec] /\ rec'[j] = r
          /\ \A i \in Job : i # j => rec'[i] = rec[i]
      BY <1>2, <2>3, <2>4, RecChange DEF Inv
    <2>6. /\ op' \in [Process -> OpRec] /\ op'[p].at = "look" /\ op'[p].job = j
          /\ op'[p].kind = op[p].kind /\ op'[p].was = op[p].was
          /\ \A q \in Process : q # p => op'[q] = op[q]
      BY <1>4, GotoShape, Labels DEF Inv
    <2>7. OpOk(p)' /\ ~Launcher(p)'
      BY <1>1, <1>2, <1>3, <1>4, <2>3, <2>5, <2>6 DEF OpOk, Working, Guarded, Executing, Launcher
    <2>8. Typed' BY <1>1, <1>4, <2>5, <2>6 DEF Inv, Typed
    <2> HIDE DEF j
    <2>9. Counted /\ rec[j].status \in Active => reservation'[j] # "none" BY <1>1, <1>2 DEF JobOk
    <2>10. QED BY <1>1, <1>2, <1>3, <1>4, <2>3, <2>5, <2>6, <2>7, <2>8, <2>9, KeepsStatusStep
  <1>5. CASE Leave(p, j) /\ UNCHANGED rec BY <1>1, <1>2, <1>5, LeaveStep
  <1> QED BY <1>4, <1>5 DEF Asked

\* The acknowledgement of an announcement leaves the status alone.
LEMMA AckStep == ASSUME Inv, NEW p \in Process, Ack(p) PROVE Step(p)
  <1> DEFINE j == op[p].job
  <1>1. /\ op[p].at = "ack" /\ op[p].at # "idle"
        /\ UNCHANGED <<external, up, work, reconciling, reservation>>
    BY DEF Ack, At
  <1>2. OpOk(p) /\ j \in Job /\ JobOk(j) /\ op[p] \in OpRec /\ rec[j] \in JobRec
    BY <1>1, Underway
  <1>3. rec[j].status \in Past /\ rec[j].status # "absent"
    BY <1>1, <1>2 DEF OpOk, Working, Past, Busy, Ending
  <1>4. CASE /\ rec' = [rec EXCEPT ![j].delivered = @ \cup {op[p].saw}]
             /\ op' = [op EXCEPT ![p].at = "finish", ![p].saw = rec[j].status]
             /\ UNCHANGED lock
    <2>1. PICK r : r = [rec[j] EXCEPT !.delivered = @ \cup {op[p].saw}] OBVIOUS
    <2>2. op[p].saw \in Ending /\ rec[j].status \in Seen
      BY <1>1, <1>2, RecValues DEF Seen, OpOk
    <2>3. /\ r \in JobRec /\ r.status = rec[j].status
          /\ r.approval = rec[j].approval /\ r.mode = rec[j].mode
      BY <1>2, <2>1, <2>2, DeliveredValues
    <2>4. rec' = [rec EXCEPT ![j] = r] BY <1>4, <2>1
    <2>5. /\ rec' \in [Job -> JobRec] /\ rec'[j] = r
          /\ \A i \in Job : i # j => rec'[i] = rec[i]
      BY <1>2, <2>3, <2>4, RecChange DEF Inv
    <2>6. /\ op' \in [Process -> OpRec] /\ op'[p].at = "finish" /\ op'[p].job = j
          /\ op'[p].kind = op[p].kind /\ op'[p].saw = rec[j].status
          /\ \A q \in Process : q # p => op'[q] = op[q]
      <3>1. PICK s \in Seen : s = rec[j].status BY <2>2
      <3>2. op' = [op EXCEPT ![p].at = "finish", ![p].saw = s] BY <1>4, <3>1
      <3>3. "finish" \in Label BY Labels
      <3>4. /\ op' \in [Process -> OpRec] /\ op'[p].at = "finish" /\ op'[p].job = op[p].job
            /\ op'[p].kind = op[p].kind /\ op'[p].saw = s
            /\ \A q \in Process : q # p => op'[q] = op[q]
        <4>1. PICK o : o = [op[p] EXCEPT !.at = "finish", !.saw = s] OBVIOUS
        <4>2. /\ o \in OpRec /\ o.at = "finish" /\ o.job = op[p].job
              /\ o.kind = op[p].kind /\ o.saw = s
          BY <1>2, <3>1, <3>3, <4>1 DEF OpRec
        <4>3. op' = [op EXCEPT ![p] = o] BY <3>2, <4>1 DEF Inv, Typed
        <4>4. QED BY <4>2, <4>3 DEF Inv, Typed
      <3>5. QED BY <3>1, <3>4
    <2>7. OpOk(p)' /\ ~Launcher(p)'
      BY <1>1, <1>2, <1>3, <1>4, <2>3, <2>5, <2>6 DEF OpOk, Working, Guarded, Executing, Launcher
    <2>8. Typed' BY <1>1, <1>4, <2>5, <2>6 DEF Inv, Typed
    <2> HIDE DEF j
    <2>9. Counted /\ rec[j].status \in Active => reservation'[j] # "none" BY <1>1, <1>2 DEF JobOk
    <2>10. QED BY <1>1, <1>2, <1>3, <1>4, <2>3, <2>5, <2>6, <2>7, <2>8, <2>9, KeepsStatusStep
  <1>5. CASE Leave(p, j) /\ UNCHANGED rec BY <1>1, <1>2, <1>5, LeaveStep
  <1> QED BY <1>4, <1>5 DEF Ack

\* What an update to another status leaves of the record.
LEMMA UpdateShape ==
    ASSUME Typed, NEW j \in Job, NEW r \in JobRec, rec' = [rec EXCEPT ![j] = Settled(r, j)]
    PROVE  /\ rec' \in [Job -> JobRec] /\ rec'[j].status = r.status /\ rec'[j].mode = r.mode
           /\ r.status # "cancelled" => rec'[j].approval = r.approval
           /\ rec'[j].approval \in {r.approval, "expired", "denied"}
           /\ r.status = "cancelled" => rec'[j].approval # "pending"
           /\ \A i \in Job : i # j => rec'[i] = rec[i]
  <1>1. Settled(r, j) \in JobRec BY SettledValues
  <1>2. /\ rec' \in [Job -> JobRec] /\ rec'[j] = Settled(r, j)
        /\ \A i \in Job : i # j => rec'[i] = rec[i]
    BY <1>1, RecChange
  <1> QED BY <1>2, SettledValues

\* What an observation makes of the record.
LEMMA ObservedValues ==
    ASSUME NEW r \in JobRec, NEW o \in OpRec, o.saw \in Busy \cup Ending
    PROVE  /\ Observed(r, o) \in JobRec /\ Observed(r, o).status = o.saw
           /\ Observed(r, o).approval = r.approval /\ Observed(r, o).mode = r.mode
  <1>1. o.saw \in Status BY DEF Status, Active, Busy
  <1>2. o.wasMarked \in BOOLEAN /\ r.marked \in BOOLEAN BY DEF OpRec, JobRec
  <1>3. PICK b : b = IF o.saw \in Ending THEN o.was \in Ending /\ o.wasMarked ELSE r.marked
    OBVIOUS
  <1>4. b \in BOOLEAN BY <1>2, <1>3
  <1>5. Observed(r, o) = [r EXCEPT !.status = o.saw, !.marked = b]
    BY <1>3 DEF Observed, JobRec
  <1>6. [r EXCEPT !.status = o.saw, !.marked = b] \in JobRec BY <1>1, <1>4 DEF JobRec
  <1>7. /\ [r EXCEPT !.status = o.saw, !.marked = b].status = o.saw
        /\ [r EXCEPT !.status = o.saw, !.marked = b].approval = r.approval
        /\ [r EXCEPT !.status = o.saw, !.marked = b].mode = r.mode
    BY DEF JobRec
  <1> QED BY <1>5, <1>6, <1>7

\* The status of the worker is stored: an ending for good, or a job still busy.
LEMMA ApplyStep == ASSUME Inv, NEW p \in Process, Apply(p) PROVE Step(p)
  <1>0. PICK j : j = op[p].job OBVIOUS
  <1> DEFINE r == Observed(rec[j], op[p])
  <1>1. /\ op[p].at = "apply" /\ op[p].at # "idle"
        /\ UNCHANGED <<external, up, work, reconciling, reservation>>
    BY DEF Apply, At
  <1>2. OpOk(p) /\ j \in Job /\ JobOk(j) /\ op[p] \in OpRec /\ rec[j] \in JobRec
    BY <1>0, <1>1, Underway
  <1>3. /\ external /\ up /\ lock[j] = p /\ p \notin Job /\ j \in Job
        /\ op[p].kind = "execute" => p \in Job
        /\ work[j] # "none" /\ op[p].saw \in Busy \cup Ending
        /\ Honest /\ op[p].saw \in Busy => rec[j].status \in Busy
        /\ op[p].saw \in Ending => work[j] = op[p].saw \/ Belated(op[p].saw, j)
        /\ rec[j].status \in Past
    BY <1>0, <1>1, <1>2 DEF OpOk, Working, Guarded, Executing
  <1>4. CASE rec' = [rec EXCEPT ![j] = Settled(r, j)] /\ Goto(p, "deliver") /\ UNCHANGED lock
    <2>1. /\ r \in JobRec /\ r.status = op[p].saw
          /\ r.approval = rec[j].approval /\ r.mode = rec[j].mode
      BY <1>2, <1>3, ObservedValues
    <2> HIDE DEF r
    <2>2. /\ rec' \in [Job -> JobRec] /\ rec'[j].status = op[p].saw /\ rec'[j].mode = rec[j].mode
          /\ rec'[j].approval \in {rec[j].approval, "expired", "denied"}
          /\ \A i \in Job : i # j => rec'[i] = rec[i]
      BY <1>2, <1>4, <2>1, UpdateShape DEF Inv
    <2>3. /\ op' \in [Process -> OpRec] /\ op'[p].at = "deliver" /\ op'[p].job = j
          /\ op'[p].kind = op[p].kind /\ op'[p].saw = op[p].saw
          /\ \A q \in Process : q # p => op'[q] = op[q]
      BY <1>0, <1>4, GotoShape, Labels DEF Inv
    <2>4. rec'[j].status \in Past /\ (Honest /\ rec[j].status \in Ending => rec'[j].status \in Ending)
      BY <1>3, <2>2 DEF Past, Busy, Ending
    <2>5. OpOk(p)' /\ ~Launcher(p)'
      BY <1>1, <1>3, <1>4, <2>2, <2>3, <2>4 DEF OpOk, Working, Guarded, Executing, Launcher
    <2>6. Typed' BY <1>1, <1>4, <2>2, <2>3 DEF Inv, Typed
    <2>7. JobStep(p, j)
      <3>1. /\ lock[j] \in {p, None} /\ rec'[j].status = op[p].saw
            /\ rec[j].status # "absent"
            /\ rec[j].status # "queued" \/ work[j] # "none"
        BY <1>3, <2>2 DEF Past, Busy, Ending
      <3>2. Goes(j)
        <4>1. Honest /\ rec[j].status \in Ending /\ rec'[j].status # rec[j].status
                => op[p].saw \in Ending /\ work[j] = op[p].saw
          BY <1>3, <2>2, <2>4 DEF Belated, Open, Busy, Ending
        <4>2. QED BY <1>1, <1>3, <2>2, <2>4, <4>1 DEF Goes
      <3>3. QED BY <1>1, <1>3, <2>2, <2>4, <3>1, <3>2 DEF JobStep, Past, Busy, Ending
    <2>8. JobOk(j)'
      <3>1. rec[j].approval # "pending" BY <1>2, <1>3 DEF JobOk, Past, Busy, Ending
      <3>2. rec'[j].approval # "pending" BY <2>2, <3>1
      <3>3. rec'[j].status # "absent" /\ rec'[j].status # "awaiting_approval"
        BY <2>4 DEF Past, Busy, Ending
      <3>4. Counted /\ rec'[j].status \in Active => rec[j].status \in Active
        BY <1>3, <2>2, CountedHonest DEF Active, Busy, Ending
      <3>5. /\ external' /\ work'[j] \in {"none", "queued", "running"} \cup Ending
            /\ j \notin reconciling'
            /\ Counted /\ rec[j].status \in Active => reservation'[j] # "none"
        BY <1>1, <1>2, <1>3 DEF JobOk
      <3>7. rec'[j].status \in {"completed", "cancelled"} => work'[j] = rec'[j].status
        BY <1>1, <1>3, <2>2 DEF Belated, Ending, Busy
      <3>6. QED BY <3>2, <3>3, <3>4, <3>5, <3>7 DEF JobOk
    <2>9. \A i \in Job : i # j => /\ rec'[i] = rec[i] /\ work'[i] = work[i]
                                  /\ reservation'[i] = reservation[i]
                                  /\ i \in reconciling' <=> i \in reconciling
      BY <1>1, <2>2
    <2>10. QED BY <1>1, <1>3, <1>4, <2>2, <2>3, <2>5, <2>6, <2>7, <2>8, <2>9, OneJob
  <1>5. CASE Leave(p, j) /\ UNCHANGED rec BY <1>1, <1>2, <1>5, LeaveStep
  <1> QED BY <1>0, <1>4, <1>5 DEF Apply, Update

\* A step of p on one job, which may hand the job to its execution.
LEMMA OneJobStep ==
    ASSUME Inv, NEW p \in Process, NEW j \in Job, Typed', external' = external, up' = up,
           \A i \in Job : i # j => /\ rec'[i] = rec[i] /\ work'[i] = work[i]
                                   /\ reservation'[i] = reservation[i]
                                   /\ i \in reconciling' <=> i \in reconciling,
           \A i \in Job : lock[i] \notin {p, None} => lock'[i] = lock[i],
           JobStep(p, j), JobOk(j)', OpOk(p)',
           \A q \in Process : q # p => op'[q] = op[q] \/ (OpOk(q)' /\ ~Launcher(q)'),
           Launcher(p)' => \A q \in Process : q # p /\ Launcher(q) => op[q].job # op'[p].job
    PROVE  Step(p)
  <1>1. \A i \in Job : JobStep(p, i) /\ JobOk(i)'
    <2> SUFFICES ASSUME NEW i \in Job, i # j PROVE JobStep(p, i) /\ JobOk(i)'
      OBVIOUS
    <2>1. JobOk(i) BY DEF Inv, JobInv
    <2>2. QED BY <2>1, JobSame
  <1> QED BY <1>1 DEF Step

\* tryAcquire reserves for a job that is not there yet.
LEMMA SubmitStep == ASSUME Inv, NEW c \in Caller, NEW j \in Job, Submit(c, j) PROVE Step(c)
  <1>1. /\ up /\ rec[j] = NoJob /\ reservation[j] = "none" /\ c \in Process /\ c \notin Job
        /\ reservation' = [reservation EXCEPT ![j] = "reserved"]
        /\ Begin(c, "submit", j, "create")
        /\ UNCHANGED <<external, up, rec, reconciling, lock, work>>
    BY ProcessAssumption DEF Submit, At, Process
  <1>2. /\ op' \in [Process -> OpRec]
        /\ op'[c].at = "create" /\ op'[c].job = j /\ op'[c].kind = "submit"
        /\ \A q \in Process : q # c => op'[q] = op[q]
    BY <1>1, BeginShape, Labels DEF Inv
  <1>3. /\ reservation' \in [Job -> Phase] /\ reservation'[j] = "reserved"
        /\ \A i \in Job : i # j => reservation'[i] = reservation[i]
    BY <1>1 DEF Inv, Typed, Phase
  <1>4. rec[j].status = "absent" /\ JobOk(j) BY <1>1, RecValues DEF Inv, JobInv
  <1>5. OpOk(c)'
    BY <1>1, <1>2, <1>3 DEF OpOk, Working, Guarded, Executing
  <1>6. ASSUME NEW q \in Process, q # c, Launcher(q) PROVE op[q].job # op'[c].job
    <2> SUFFICES ASSUME op[q].job = j PROVE FALSE BY <1>2
    <2>1. OpOk(q) /\ op[q].at # "idle" BY <1>6 DEF Inv, OpInv, Launcher
    <2>2. rec[j].status \notin Past BY <1>4 DEF Past, Busy, Ending
    <2>3. QED BY <1>1, <1>4, <1>6, <2>1, <2>2 DEF OpOk, Launcher, Working
  <1>7. JobStep(c, j) BY <1>1, <1>4 DEF JobStep, Goes, Past, Busy, Ending
  <1>8. JobOk(j)' BY <1>1, <1>3, <1>4 DEF JobOk
  <1>9. Typed' BY <1>1, <1>2, <1>3 DEF Inv, Typed
  <1> QED BY <1>1, <1>2, <1>3, <1>5, <1>6, <1>7, <1>8, <1>9, OneJobStep

\* The job is created with its reservation, or the reservation released.
LEMMA CreateStep == ASSUME Inv, NEW p \in Process, Create(p) PROVE Step(p)
  <1>0. PICK j : j = op[p].job OBVIOUS
  <1>1. /\ op[p].at = "create" /\ op[p].at # "idle"
        /\ UNCHANGED <<external, up, work, reconciling, lock>>
    BY DEF Create, At
  <1>2. OpOk(p) /\ j \in Job /\ JobOk(j) BY <1>0, <1>1, Underway
  <1>3. /\ up /\ p \notin Job /\ op[p].kind # "execute"
        /\ rec[j] = NoJob /\ reservation[j] = "reserved"
    BY <1>0, <1>1, <1>2 DEF OpOk, Executing
  <1>4. rec[j].status = "absent" /\ work[j] = "none" /\ j \notin reconciling
    BY <1>2, <1>3, RecValues DEF JobOk, Past, Busy, Ending
  <1>5. CASE /\ \/ rec' = [rec EXCEPT ![j].status = "queued"]
                \/ rec' = [rec EXCEPT ![j].mode = "workspace-write",
                        ![j].status = "awaiting_approval", ![j].approval = "pending"]
             /\ Goto(p, "bind") /\ UNCHANGED reservation
    <2>1. PICK r : /\ rec' = [rec EXCEPT ![j] = r]
                   /\ \/ r = [NoJob EXCEPT !.status = "queued"]
                      \/ r = [NoJob EXCEPT !.mode = "workspace-write",
                                 !.status = "awaiting_approval", !.approval = "pending"]
      <3>1. CASE rec' = [rec EXCEPT ![j].status = "queued"]
        BY <1>3, <3>1
      <3>2. CASE rec' = [rec EXCEPT ![j].mode = "workspace-write",
                        ![j].status = "awaiting_approval", ![j].approval = "pending"]
        <4>1. rec' = [rec EXCEPT ![j] = [rec[j] EXCEPT !.mode = "workspace-write",
                        !.status = "awaiting_approval", !.approval = "pending"]]
          BY <1>2, <3>2 DEF Inv, Typed
        <4>2. QED BY <1>3, <4>1
      <3>3. QED BY <1>5, <3>1, <3>2
    <2>2. r \in JobRec
      BY <2>1, RecValues DEF JobRec, Status, Active, Mode, Approval
    <2>3. \/ r.status = "queued" /\ r.approval = "none"
          \/ r.status = "awaiting_approval" /\ r.approval = "pending" /\ r.mode = "workspace-write"
      BY <2>1, RecValues DEF JobRec, NoJob
    <2>4. /\ rec' \in [Job -> JobRec] /\ rec'[j] = r
          /\ \A i \in Job : i # j => rec'[i] = rec[i]
      BY <1>2, <2>1, <2>2, RecChange DEF Inv
    <2>5. /\ op' \in [Process -> OpRec] /\ op'[p].at = "bind" /\ op'[p].job = j
          /\ op'[p].kind = op[p].kind
          /\ \A q \in Process : q # p => op'[q] = op[q]
      BY <1>0, <1>5, GotoShape, Labels DEF Inv
    <2>6. OpOk(p)'
      BY <1>1, <1>2, <1>3, <1>4, <2>3, <2>4, <2>5 DEF OpOk, Working, Guarded, Executing
    <2>7. Typed' BY <1>1, <1>5, <2>4, <2>5 DEF Inv, Typed
    <2>8. JobStep(p, j)
      BY <1>0, <1>1, <1>4, <2>4 DEF JobStep, Goes, Past, Busy, Ending
    <2>9. JobOk(j)'
      <3>1. reservation'[j] # "none" /\ work'[j] = "none" /\ j \notin reconciling'
        BY <1>1, <1>3, <1>4, <1>5
      <3>2. QED BY <2>3, <2>4, <3>1 DEF JobOk
    <2>10. Launcher(p) /\ op'[p].job = op[p].job BY <1>0, <1>1, <2>5 DEF Launcher
    <2>11. \A i \in Job : i # j => /\ rec'[i] = rec[i] /\ work'[i] = work[i]
                                   /\ reservation'[i] = reservation[i]
                                   /\ i \in reconciling' <=> i \in reconciling
      BY <1>1, <1>5, <2>4
    <2>12. QED BY <1>1, <1>2, <2>5, <2>6, <2>7, <2>8, <2>9, <2>10, <2>11, OneJob
  <1>6. CASE Withdraw(j) /\ Return(p) /\ UNCHANGED rec
    <2>1. /\ op' \in [Process -> OpRec] /\ op'[p].at = "idle"
          /\ \A q \in Process : q # p => op'[q] = op[q]
      BY <1>6, ReturnShape DEF Inv
    <2>2. /\ reservation' \in [Job -> Phase]
          /\ \A i \in Job : i # j => reservation'[i] = reservation[i]
      BY <1>6 DEF Withdraw, Inv, Typed, Phase
    <2>3. OpOk(p)' /\ ~Launcher(p)' BY <2>1, IdleOk
    <2>4. Typed' BY <1>1, <1>6, <2>1, <2>2 DEF Inv, Typed
    <2>5. JobStep(p, j)
      BY <1>0, <1>1, <1>4, <1>6 DEF JobStep, Goes, Past, Busy, Ending
    <2>6. JobOk(j)' BY <1>1, <1>2, <1>4, <1>6 DEF JobOk, Active
    <2>7. \A i \in Job : i # j => /\ rec'[i] = rec[i] /\ work'[i] = work[i]
                                  /\ reservation'[i] = reservation[i]
                                  /\ i \in reconciling' <=> i \in reconciling
      BY <1>1, <1>6, <2>2
    <2>8. QED BY <1>1, <1>2, <2>1, <2>3, <2>4, <2>5, <2>6, <2>7, OneJob
  <1> QED BY <1>0, <1>5, <1>6 DEF Create

\* An update that ends the job.
LEMMA EndUpdate ==
    ASSUME Inv, NEW p \in Process, NEW j \in Job, NEW r \in JobRec,
           r.status \in Ending, r.mode = rec[j].mode,
           r.status # "cancelled" => r.approval # "pending",
           rec' = [rec EXCEPT ![j] = Settled(r, j)],
           rec[j].status # "absent", UNCHANGED <<external, work>>,
           Honest /\ external /\ rec[j].status \in Busy => lock[j] \in {p, None} \/ work[j] = "none",
           external /\ rec[j].status = "queued" /\ work[j] = "none"
             => Launcher(p) /\ op[p].job = j,
           j \in reconciling' => j \in reconciling,
           lock[j] \notin {p, None} => lock'[j] = lock[j],
           Honest /\ rec[j].status \in Ending => j \in reconciling,
           external => r.status = "failed" \/ work[j] = "none"
    PROVE  /\ JobStep(p, j) /\ JobOk(j)'
           /\ rec' \in [Job -> JobRec] /\ rec'[j].status = r.status
           /\ \A i \in Job : i # j => rec'[i] = rec[i]
  <1>1. /\ rec' \in [Job -> JobRec] /\ rec'[j].status = r.status /\ rec'[j].mode = rec[j].mode
        /\ rec'[j].approval # "pending"
        /\ \A i \in Job : i # j => rec'[i] = rec[i]
    BY UpdateShape DEF Inv
  <1>2. /\ rec'[j].status \in Past /\ rec'[j].status \notin Active /\ rec'[j].status # "absent"
        /\ rec'[j].status \notin Busy /\ rec'[j].status \in Ending
        /\ rec'[j].status # "awaiting_approval"
    BY <1>1 DEF Past, Busy, Ending, Active
  <1>3. JobOk(j) BY DEF Inv, JobInv
  <1>4. JobStep(p, j)
    <2>1. external /\ work[j] # "none" => rec'[j].status \in Open BY <1>1 DEF Open
    <2>2. QED BY <1>1, <1>2, <2>1 DEF JobStep, Goes
  <1>5. JobOk(j)'
    <2>1. rec'[j].status # "queued" BY <1>2 DEF Busy
    <2>2. QED BY <1>1, <1>2, <1>3, <2>1 DEF JobOk
  <1> QED BY <1>1, <1>4, <1>5

\* A dispatch that failed ends the job; the worker never got it, if it is honest.
LEMMA UndispatchedStep == ASSUME Inv, NEW p \in Process, Undispatched(p) PROVE Step(p)
  <1>0. PICK j : j = op[p].job OBVIOUS
  <1>1. /\ op[p].at = "undispatched" /\ op[p].at # "idle"
        /\ UNCHANGED <<external, up, reservation, reconciling, lock, work>>
    BY DEF Undispatched, At
  <1>2. OpOk(p) /\ j \in Job /\ JobOk(j) /\ rec[j] \in JobRec BY <1>0, <1>1, Underway
  <1>3. /\ up /\ p \notin Job /\ op[p].kind # "execute" /\ external
        /\ rec[j].status \in Past
        /\ Honest => (rec[j].status = "queued" /\ work[j] = "none")
    BY <1>0, <1>1, <1>2 DEF OpOk, Executing, Working
  <1>4. CASE Update(j, [rec[j] EXCEPT !.status = "failed"]) /\ Goto(p, "end")
    <2>1. PICK r : r = [rec[j] EXCEPT !.status = "failed"] OBVIOUS
    <2>2. "failed" \in Status /\ "failed" \in Ending BY DEF Status, Ending
    <2>3. /\ r \in JobRec /\ r.status = "failed" /\ r.mode = rec[j].mode
          /\ r.approval = rec[j].approval
      BY <1>2, <2>1, <2>2, StatusValues
    <2>4. r.approval # "pending" /\ rec[j].status # "absent"
      BY <1>2, <1>3, <2>3 DEF JobOk, Past, Busy, Ending
    <2>5. rec' = [rec EXCEPT ![j] = Settled(r, j)] BY <1>4, <2>1 DEF Update
    <2>6. Launcher(p) /\ op[p].job = j BY <1>0, <1>1 DEF Launcher
    <2>7. /\ JobStep(p, j) /\ JobOk(j)'
          /\ rec' \in [Job -> JobRec] /\ rec'[j].status = "failed"
          /\ \A i \in Job : i # j => rec'[i] = rec[i]
      <3>1. /\ r.status \in Ending /\ r.mode = rec[j].mode
            /\ r.status # "cancelled" => r.approval # "pending"
            /\ rec[j].status # "absent" /\ external' = external /\ work' = work
            /\ Honest /\ external /\ rec[j].status \in Busy => lock[j] \in {p, None} \/ work[j] = "none"
            /\ external /\ rec[j].status = "queued" /\ work[j] = "none"
                 => Launcher(p) /\ op[p].job = j
            /\ j \in reconciling' => j \in reconciling
            /\ lock[j] \notin {p, None} => lock'[j] = lock[j]
            /\ Honest /\ rec[j].status \in Ending => j \in reconciling
        BY <1>1, <1>3, <2>2, <2>3, <2>4, <2>6 DEF Ending
      <3>2. /\ JobStep(p, j) /\ JobOk(j)'
            /\ rec' \in [Job -> JobRec] /\ rec'[j].status = r.status
            /\ \A i \in Job : i # j => rec'[i] = rec[i]
        BY <1>2, <2>3, <2>5, <3>1, EndUpdate
      <3>3. QED BY <2>3, <3>2
    <2>8. /\ op' \in [Process -> OpRec] /\ op'[p].at = "end" /\ op'[p].job = j
          /\ op'[p].kind = op[p].kind
          /\ \A q \in Process : q # p => op'[q] = op[q]
      BY <1>0, <1>4, GotoShape, Labels DEF Inv
    <2>9. OpOk(p)' /\ ~Launcher(p)'
      BY <1>1, <1>2, <1>3, <2>2, <2>7, <2>8 DEF OpOk, Working, Guarded, Executing, Launcher, Past
    <2>10. Typed' BY <1>1, <2>7, <2>8 DEF Inv, Typed
    <2>11. \A i \in Job : i # j => /\ rec'[i] = rec[i] /\ work'[i] = work[i]
                                   /\ reservation'[i] = reservation[i]
                                   /\ i \in reconciling' <=> i \in reconciling
      BY <1>1, <2>7
    <2>12. QED BY <1>1, <1>2, <2>7, <2>8, <2>9, <2>10, <2>11, OneJob
  <1>5. CASE Return(p) /\ UNCHANGED rec
    <2>1. /\ op' \in [Process -> OpRec] /\ op'[p].at = "idle"
          /\ \A q \in Process : q # p => op'[q] = op[q]
      BY <1>5, ReturnShape DEF Inv
    <2>2. Typed' BY <1>1, <1>5, <2>1 DEF Inv, Typed
    <2>3. QED BY <1>1, <1>5, <2>1, <2>2, IdleOk, OpOnly
  <1> QED BY <1>0, <1>4, <1>5 DEF Undispatched

\* The worker gets a job that was not handed over before, whatever the dispatch
\* answers.
LEMMA DispatchStep == ASSUME Inv, NEW p \in Process, Dispatch(p) PROVE Step(p)
  <1>0. PICK j : j = op[p].job OBVIOUS
  <1>1. /\ op[p].at = "dispatch" /\ op[p].at # "idle"
        /\ UNCHANGED <<external, up, rec, reservation, reconciling, lock>>
    BY DEF Dispatch, At, store
  <1>2. OpOk(p) /\ j \in Job /\ JobOk(j) /\ rec[j] \in JobRec BY <1>0, <1>1, Underway
  <1>3. /\ up /\ p \notin Job /\ op[p].kind # "execute" /\ external
        /\ rec[j].status = "queued" /\ work[j] = "none"
    BY <1>0, <1>1, <1>2 DEF OpOk, Executing
  <1>4. Launcher(p) /\ op[p].job = j BY <1>0, <1>1 DEF Launcher
  <1>5. CASE work' = [work EXCEPT ![j] = "queued"]
             /\ (Return(p) \/ (Goto(p, "undispatched") /\ ~Honest))
    <2>1. /\ op' \in [Process -> OpRec] /\ \A q \in Process : q # p => op'[q] = op[q]
          /\ \/ op'[p].at = "idle"
             \/ /\ op'[p].at = "undispatched" /\ ~Honest /\ op'[p].job = j
                /\ op'[p].kind = op[p].kind
      <3>1. CASE Return(p) BY <3>1, ReturnShape DEF Inv
      <3>2. CASE Goto(p, "undispatched") /\ ~Honest
        BY <1>0, <3>2, GotoShape, Labels DEF Inv
      <3>3. QED BY <1>5, <3>1, <3>2
    <2>2. /\ work' \in [Job -> Work] /\ work'[j] = "queued"
          /\ \A i \in Job : i # j => work'[i] = work[i]
      BY <1>2, <1>5 DEF Inv, Typed, Work
    <2>3. OpOk(p)' /\ (Launcher(p)' => op'[p].job = op[p].job)
      <3>1. CASE op'[p].at = "idle" BY <3>1, IdleOk
      <3>2. CASE op'[p].at = "undispatched" /\ ~Honest /\ op'[p].job = j /\ op'[p].kind = op[p].kind
        BY <1>0, <1>1, <1>2, <1>3, <3>2 DEF OpOk, Working, Guarded, Executing, Past, Busy
      <3>3. QED BY <2>1, <3>1, <3>2
    <2>4. Typed' BY <1>1, <2>1, <2>2 DEF Inv, Typed
    <2>5. JobStep(p, j) BY <1>1, <1>3, <1>4, <2>2 DEF JobStep, Goes, Busy, Ending
    <2>6. JobOk(j)' BY <1>1, <1>2, <1>3, <2>2 DEF JobOk
    <2>7. \A i \in Job : i # j => /\ rec'[i] = rec[i] /\ work'[i] = work[i]
                                  /\ reservation'[i] = reservation[i]
                                  /\ i \in reconciling' <=> i \in reconciling
      BY <1>1, <2>2
    <2>8. QED BY <1>1, <1>2, <1>4, <2>1, <2>3, <2>4, <2>5, <2>6, <2>7, OneJob
  <1>6. CASE Goto(p, "undispatched") /\ UNCHANGED work
    <2>1. /\ op' \in [Process -> OpRec] /\ op'[p].at = "undispatched" /\ op'[p].job = j
          /\ op'[p].kind = op[p].kind
          /\ \A q \in Process : q # p => op'[q] = op[q]
      BY <1>0, <1>6, GotoShape, Labels DEF Inv
    <2>2. OpOk(p)'
      BY <1>1, <1>2, <1>3, <1>6, <2>1 DEF OpOk, Working, Guarded, Executing, Past, Busy
    <2>3. Typed' BY <1>1, <1>6, <2>1 DEF Inv, Typed
    <2>4. JobStep(p, j) /\ JobOk(j)' BY <1>1, <1>2, <1>6, JobSame
    <2>5. QED BY <1>1, <1>2, <1>4, <1>6, <2>1, <2>2, <2>3, <2>4, OneJob
  <1> QED BY <1>0, <1>5, <1>6 DEF Dispatch, Fails, Honest

\* launchExecution gives the job's own process its operation.
LEMMA LaunchedShape ==
    ASSUME NEW f \in [Process -> OpRec], NEW j \in Job, op' = Launched(f, j)
    PROVE  /\ op' \in [Process -> OpRec] /\ op'[j].at = "start" /\ op'[j].job = j
           /\ op'[j].kind = "execute"
           /\ \A q \in Process : q # j => op'[q] = f[q]
  <1>1. PICK r : r = [Idle EXCEPT !.at = "start", !.kind = "execute", !.job = j] OBVIOUS
  <1>2. "start" \in Label /\ "execute" \in Kind BY Labels
  <1>3. r \in OpRec /\ r.at = "start" /\ r.job = j /\ r.kind = "execute"
    BY <1>1, <1>2, IdleValues DEF OpRec
  <1>4. op' = [f EXCEPT ![j] = r] BY <1>1 DEF Launched
  <1> QED BY <1>3, <1>4 DEF Process

\* An execution that starts has nothing to its name yet.
LEMMA StartOk ==
    ASSUME NEW j \in Job, op'[j].at = "start", op'[j].job = j, up', ~external',
           rec'[j].status \in Past
    PROVE  OpOk(j)' /\ ~Launcher(j)'
  BY DEF OpOk, Working, Guarded, Executing, Launcher

\* bindJob, and the hand-over to the dispatcher or to an execution.
LEMMA BindStep == ASSUME Inv, NEW p \in Process, Bind(p) PROVE Step(p)
  <1>0. PICK j : j = op[p].job OBVIOUS
  <1>1. /\ op[p].at = "bind" /\ op[p].at # "idle"
        /\ \/ reservation' = [reservation EXCEPT ![j] = "bound"]
           \/ Withdraw(j) /\ ~Counted
        /\ UNCHANGED <<external, up, rec, reconciling, lock, work>>
    BY <1>0 DEF Bind, At, Fails, Counted
  <1>2. OpOk(p) /\ j \in Job /\ JobOk(j) /\ rec[j] \in JobRec BY <1>0, <1>1, Underway
  <1>3. /\ up /\ p \notin Job /\ op[p].kind # "execute" /\ rec[j].status # "absent"
        /\ external /\ rec[j].mode = "read-only" => rec[j].status = "queued" /\ work[j] = "none"
    BY <1>0, <1>1, <1>2 DEF OpOk, Executing
  <1>4. /\ reservation' \in [Job -> Phase] /\ (Counted => reservation'[j] # "none")
        /\ \A i \in Job : i # j => reservation'[i] = reservation[i]
    BY <1>1, <1>2 DEF Withdraw, Inv, Typed, Phase
  <1>5. JobStep(p, j) /\ JobOk(j)' BY <1>1, <1>2, <1>3, <1>4, KeepsStatus DEF JobOk
  <1>6. \A i \in Job : i # j => /\ rec'[i] = rec[i] /\ work'[i] = work[i]
                                /\ reservation'[i] = reservation[i]
                                /\ i \in reconciling' <=> i \in reconciling
    BY <1>1, <1>4
  <1>7. CASE rec[j].mode = "read-only" /\ external /\ Goto(p, "dispatch")
    <2>1. /\ op' \in [Process -> OpRec] /\ op'[p].at = "dispatch" /\ op'[p].job = j
          /\ op'[p].kind = op[p].kind
          /\ \A q \in Process : q # p => op'[q] = op[q]
      BY <1>0, <1>7, GotoShape, Labels DEF Inv
    <2>2. OpOk(p)'
      BY <1>1, <1>2, <1>3, <1>7, <2>1 DEF OpOk, Working, Guarded, Executing, Past, Busy
    <2>3. Launcher(p) /\ op'[p].job = op[p].job BY <1>0, <1>1, <1>7, <2>1 DEF Launcher
    <2>4. Typed' BY <1>1, <1>4, <2>1 DEF Inv, Typed
    <2>5. QED BY <1>1, <1>2, <1>5, <1>6, <2>1, <2>2, <2>3, <2>4, OneJob
  <1>8. CASE rec[j].mode = "read-only" /\ ~external /\ op' = Launched([op EXCEPT ![p] = Idle], j)
    <2>1. PICK f : f = [op EXCEPT ![p] = Idle] OBVIOUS
    <2>2. /\ f \in [Process -> OpRec] /\ f[p] = Idle
          /\ \A q \in Process : q # p => f[q] = op[q]
      BY <2>1, IdleValues DEF Inv, Typed
    <2>3. /\ op' \in [Process -> OpRec] /\ op'[j].at = "start" /\ op'[j].job = j
          /\ \A q \in Process : q # j => op'[q] = f[q]
      <3>1. op' = Launched(f, j) BY <1>8, <2>1
      <3>2. QED BY <1>2, <2>2, <3>1, LaunchedShape
    <2>4. op'[p].at = "idle" BY <1>2, <1>3, <2>2, <2>3, IdleValues
    <2>5. OpOk(p)' /\ ~Launcher(p)' BY <2>4, IdleOk
    <2>6. rec[j].status \in Past
      <3>1. rec[j].status # "awaiting_approval" BY <1>2, <1>8 DEF JobOk
      <3>2. rec[j].status \in Status BY <1>2, RecValues
      <3>3. QED BY <1>3, <3>1, <3>2 DEF Status, Active, Past, Busy, Ending
    <2>7. OpOk(j)' /\ ~Launcher(j)' BY <1>1, <1>2, <1>3, <1>8, <2>3, <2>6, StartOk
    <2>8. \A q \in Process : q # p => op'[q] = op[q] \/ (OpOk(q)' /\ ~Launcher(q)')
      <3> SUFFICES ASSUME NEW q \in Process, q # p
                   PROVE  op'[q] = op[q] \/ (OpOk(q)' /\ ~Launcher(q)')
        OBVIOUS
      <3>1. CASE q = j BY <3>1, <2>7
      <3>2. CASE q # j BY <3>2, <2>2, <2>3
      <3>3. QED BY <3>1, <3>2
    <2>9. Typed' BY <1>1, <1>4, <2>3 DEF Inv, Typed
    <2>10. QED BY <1>1, <1>2, <1>5, <1>6, <2>5, <2>8, <2>9, OneJobStep
  <1>9. CASE Return(p)
    <2>1. /\ op' \in [Process -> OpRec] /\ op'[p].at = "idle"
          /\ \A q \in Process : q # p => op'[q] = op[q]
      BY <1>9, ReturnShape DEF Inv
    <2>2. OpOk(p)' /\ ~Launcher(p)' BY <2>1, IdleOk
    <2>3. Typed' BY <1>1, <1>4, <2>1 DEF Inv, Typed
    <2>4. QED BY <1>1, <1>2, <1>5, <1>6, <2>1, <2>2, <2>3, OneJob
  <1> QED BY <1>0, <1>7, <1>8, <1>9 DEF Bind

\* Only a queued job starts, and its work has not begun.
LEMMA ClaimStep == ASSUME Inv, NEW j \in Job, Claim(j) PROVE Step(j)
  <1>1. /\ j \in Process /\ op[j].at = "claim" /\ op[j].at # "idle"
        /\ UNCHANGED <<external, up, reservation, reconciling>>
    BY DEF Claim, At, Process
  <1>2. OpOk(j) /\ JobOk(j) /\ rec[j] \in JobRec
    BY <1>1, Underway DEF Inv, Typed, JobInv
  <1>3. up /\ ~external /\ op[j].job = j BY <1>1, <1>2 DEF OpOk
  <1>4. CASE /\ rec[j].status = "queued"
             /\ rec' = [rec EXCEPT ![j].status = "running"]
             /\ Goto(j, "run") /\ UNCHANGED lock
             /\ UNCHANGED work \/ work' = [work EXCEPT ![j] = "prepared"]
    <2>1. PICK r : r = [rec[j] EXCEPT !.status = "running"] OBVIOUS
    <2>2. "running" \in Status /\ "running" \in Past /\ "running" \notin Ending
          /\ "running" \in Busy /\ "queued" \in Active
      BY DEF Status, Active, Past, Busy, Ending
    <2>3. /\ r \in JobRec /\ r.status = "running" /\ r.mode = rec[j].mode
          /\ r.approval = rec[j].approval
      BY <1>2, <2>1, <2>2, StatusValues
    <2>4. rec' = [rec EXCEPT ![j] = r] BY <1>4, <2>1
    <2>5. /\ rec' \in [Job -> JobRec] /\ rec'[j] = r
          /\ \A i \in Job : i # j => rec'[i] = rec[i]
      BY <2>3, <2>4, RecChange DEF Inv
    <2>6. /\ work' \in [Job -> Work] /\ work'[j] \in {work[j], "prepared"}
          /\ \A i \in Job : i # j => work'[i] = work[i]
      BY <1>4 DEF Inv, Typed, Work
    <2>7. /\ op' \in [Process -> OpRec] /\ op'[j].at = "run" /\ op'[j].job = j
          /\ op'[j].kind = op[j].kind
          /\ \A q \in Process : q # j => op'[q] = op[q]
      BY <1>1, <1>3, <1>4, GotoShape, Labels DEF Inv
    <2>8. OpOk(j)' /\ ~Launcher(j)'
      BY <1>1, <1>3, <2>2, <2>3, <2>5, <2>7 DEF OpOk, Working, Guarded, Executing, Launcher
    <2>9. Typed' BY <1>1, <1>4, <2>5, <2>6, <2>7 DEF Inv, Typed
    <2>10. JobStep(j, j)
      <3>1. work[j] = "none" BY <1>2, <1>3, <1>4 DEF JobOk
      <3>2. QED
        BY <1>1, <1>3, <1>4, <2>2, <2>3, <2>5, <2>6, <3>1 DEF JobStep, Goes, Ending
    <2>11. JobOk(j)'
      <3>1. rec[j].approval # "pending" /\ (Counted => reservation[j] # "none")
        BY <1>2, <1>4, <2>2 DEF JobOk
      <3>2. QED BY <1>1, <1>2, <1>3, <2>2, <2>3, <2>5, <3>1 DEF JobOk
    <2>12. \A i \in Job : i # j => /\ rec'[i] = rec[i] /\ work'[i] = work[i]
                                   /\ reservation'[i] = reservation[i]
                                   /\ i \in reconciling' <=> i \in reconciling
      BY <1>1, <2>5, <2>6
    <2>13. QED BY <1>1, <1>4, <2>7, <2>8, <2>9, <2>10, <2>11, <2>12, OneJob
  <1>5. CASE Leave(j, j) /\ UNCHANGED <<rec, work>> BY <1>1, <1>5, LeaveStep
  <1> QED BY <1>4, <1>5 DEF Claim, Works, Fails

\* The result of the runner is stored only while the job runs.
LEMMA RecordStep == ASSUME Inv, NEW j \in Job, Record(j) PROVE Step(j)
  <1>1. /\ j \in Process /\ op[j].at = "run" /\ op[j].at # "idle"
        /\ UNCHANGED <<external, up, reservation, reconciling, work>>
    BY DEF Record, At, Process
  <1>2. OpOk(j) /\ JobOk(j) /\ rec[j] \in JobRec
    BY <1>1, Underway DEF Inv, Typed, JobInv
  <1>3. up /\ ~external /\ op[j].job = j /\ rec[j].status \in Past
    BY <1>1, <1>2 DEF OpOk, Working
  <1>4. ASSUME NEW e \in {"completed", "failed"}, StillRunning(j),
               Update(j, [rec[j] EXCEPT !.status = e]),
               op' = [op EXCEPT ![j].at = "end", ![j].saw = e], UNCHANGED lock
        PROVE  Step(j)
    <2>1. PICK r : r = [rec[j] EXCEPT !.status = e] OBVIOUS
    <2>2. e \in Status /\ e \in Ending /\ e \in Seen /\ e # "cancelled"
      BY DEF Status, Ending, Seen
    <2>3. /\ r \in JobRec /\ r.status = e /\ r.mode = rec[j].mode
          /\ r.approval = rec[j].approval
      BY <1>2, <2>1, <2>2, StatusValues
    <2>4. rec[j].status = "running" BY <1>4 DEF StillRunning
    <2>5. r.approval # "pending" BY <1>2, <2>3, <2>4 DEF JobOk
    <2>6. rec' = [rec EXCEPT ![j] = Settled(r, j)] BY <1>4, <2>1 DEF Update
    <2>7. /\ r.status \in Ending /\ r.mode = rec[j].mode
          /\ r.status # "cancelled" => r.approval # "pending"
          /\ rec[j].status # "absent" /\ external' = external /\ work' = work
          /\ Honest /\ external /\ rec[j].status \in Busy => lock[j] \in {j, None} \/ work[j] = "none"
          /\ external /\ rec[j].status = "queued" /\ work[j] = "none"
               => Launcher(j) /\ op[j].job = j
          /\ j \in reconciling' => j \in reconciling
          /\ lock[j] \notin {j, None} => lock'[j] = lock[j]
          /\ rec[j].status \in Ending => j \in reconciling
          /\ external => r.status = "failed" \/ work[j] = "none"
      BY <1>1, <1>3, <1>4, <2>2, <2>3, <2>4, <2>5 DEF Ending
    <2>8. /\ JobStep(j, j) /\ JobOk(j)'
          /\ rec' \in [Job -> JobRec] /\ rec'[j].status = r.status
          /\ \A i \in Job : i # j => rec'[i] = rec[i]
      BY <1>1, <2>3, <2>6, <2>7, EndUpdate
    <2>9. /\ op' \in [Process -> OpRec] /\ op'[j].at = "end" /\ op'[j].job = j
          /\ op'[j].kind = op[j].kind /\ op'[j].saw = e
          /\ \A q \in Process : q # j => op'[q] = op[q]
      <3>1. PICK o : o = [op[j] EXCEPT !.at = "end", !.saw = e] OBVIOUS
      <3>2. op[j] \in OpRec /\ "end" \in Label BY <1>1, Labels DEF Inv, Typed
      <3>3. /\ o \in OpRec /\ o.at = "end" /\ o.job = op[j].job /\ o.kind = op[j].kind
            /\ o.saw = e
        BY <2>2, <3>1, <3>2 DEF OpRec
      <3>4. op' = [op EXCEPT ![j] = o] BY <1>1, <1>4, <3>1 DEF Inv, Typed
      <3>5. QED BY <1>1, <1>3, <3>3, <3>4 DEF Inv, Typed
    <2>10. OpOk(j)' /\ ~Launcher(j)'
      BY <1>1, <1>3, <2>2, <2>3, <2>8, <2>9 DEF OpOk, Working, Guarded, Executing, Launcher, Past
    <2>11. Typed' BY <1>1, <1>4, <2>8, <2>9 DEF Inv, Typed
    <2>12. \A i \in Job : i # j => /\ rec'[i] = rec[i] /\ work'[i] = work[i]
                                   /\ reservation'[i] = reservation[i]
                                   /\ i \in reconciling' <=> i \in reconciling
      BY <1>1, <2>8
    <2>13. QED BY <1>1, <1>4, <2>8, <2>9, <2>10, <2>11, <2>12, OneJob
  <1>5. CASE Goto(j, "unrecorded") /\ UNCHANGED <<rec, lock>>
    <2>1. /\ op' \in [Process -> OpRec] /\ op'[j].at = "unrecorded" /\ op'[j].job = j
          /\ op'[j].kind = op[j].kind
          /\ \A q \in Process : q # j => op'[q] = op[q]
      BY <1>1, <1>3, <1>5, GotoShape, Labels DEF Inv
    <2>2. OpOk(j)' /\ ~Launcher(j)'
      BY <1>1, <1>3, <1>5, <2>1 DEF OpOk, Working, Guarded, Executing, Launcher
    <2>3. Typed' BY <1>1, <1>5, <2>1 DEF Inv, Typed
    <2>4. QED BY <1>1, <1>5, <2>1, <2>2, <2>3, OpOnly
  <1>6. CASE Leave(j, j) /\ UNCHANGED rec BY <1>1, <1>6, LeaveStep
  <1>7. PICK e \in {"completed", "failed"} :
             \/ /\ StillRunning(j) /\ Update(j, [rec[j] EXCEPT !.status = e])
                /\ op' = [op EXCEPT ![j].at = "end", ![j].saw = e] /\ UNCHANGED lock
             \/ Goto(j, "unrecorded") /\ UNCHANGED <<rec, lock>>
             \/ Leave(j, j) /\ UNCHANGED rec
    BY DEF Record
  <1> QED BY <1>4, <1>5, <1>6, <1>7

\* The request that found the job over goes on to the end of its admission.
LEMMA BeginEnd ==
    ASSUME Inv, NEW p \in Process, p \notin Job, NEW kind \in Kind, kind # "execute",
           NEW j \in Job, NEW label \in {"await", "end"}, Begin(p, kind, j, label),
           up', rec'[j].status \in Ending
    PROVE  /\ op' \in [Process -> OpRec] /\ OpOk(p)' /\ ~Launcher(p)'
           /\ \A q \in Process : q # p => op'[q] = op[q]
  <1>1. label \in Label BY Labels
  <1>2. /\ op' \in [Process -> OpRec]
        /\ op'[p].at = label /\ op'[p].job = j /\ op'[p].kind = kind
        /\ \A q \in Process : q # p => op'[q] = op[q]
    BY <1>1, BeginShape DEF Inv
  <1>3. OpOk(p)' /\ ~Launcher(p)'
    BY <1>2 DEF OpOk, Working, Guarded, Executing, Launcher, Past
  <1> QED BY <1>2, <1>3

\* A request that ends a job that waits, runs, or is left to an operator.
LEMMA EndRequest ==
    ASSUME Inv, NEW p \in Process, p \notin Job, NEW kind \in Kind, kind # "execute",
           NEW j \in Job, NEW label \in {"await", "end"}, Begin(p, kind, j, label), up,
           NEW r \in JobRec, r.status \in Ending, r.mode = rec[j].mode,
           r.status # "cancelled" => r.approval # "pending",
           rec' = [rec EXCEPT ![j] = Settled(r, j)],
           rec[j].status # "absent", UNCHANGED <<external, up, work, reservation>>, Free(j),
           external => rec[j].status # "queued",
           rec[j].status \in Ending => j \in reconciling,
           external => r.status = "failed" \/ work[j] = "none",
           reconciling' \in {reconciling, reconciling \ {j}},
           lock' = lock \/ lock' = [lock EXCEPT ![j] = p]
    PROVE  Step(p)
  <1>1. lock[j] = None BY DEF Free
  <1>2. /\ JobStep(p, j) /\ JobOk(j)'
        /\ rec' \in [Job -> JobRec] /\ rec'[j].status = r.status
        /\ \A i \in Job : i # j => rec'[i] = rec[i]
    BY <1>1, EndUpdate
  <1>3. /\ op' \in [Process -> OpRec] /\ OpOk(p)' /\ ~Launcher(p)'
        /\ \A q \in Process : q # p => op'[q] = op[q]
    BY <1>2, BeginEnd
  <1>4. /\ lock' \in [Job -> Process \cup {None}]
        /\ \A i \in Job : lock[i] \notin {p, None} => lock'[i] = lock[i]
    BY <1>1 DEF Inv, Typed
  <1>5. Typed' BY <1>2, <1>3, <1>4 DEF Inv, Typed
  <1>6. \A i \in Job : i # j => /\ rec'[i] = rec[i] /\ work'[i] = work[i]
                                /\ reservation'[i] = reservation[i]
                                /\ i \in reconciling' <=> i \in reconciling
    BY <1>2
  <1> QED BY <1>2, <1>3, <1>4, <1>5, <1>6, OneJob

\* cancel of a job here.
LEMMA CancelStep == ASSUME Inv, NEW c \in Caller, NEW j \in Job, Cancel(c, j) PROVE Inv' /\ Going
  <1>1. /\ up /\ Free(j) /\ c \in Process /\ c \notin Job
        /\ rec[j].status \in IF external THEN {"awaiting_approval"} ELSE Active
        /\ UNCHANGED <<external, up, reservation, reconciling, lock, work>>
    BY ProcessAssumption DEF Cancel, At, Process
  <1>2. /\ rec[j].status # "absent" /\ (external => rec[j].status # "queued")
        /\ rec[j].status \notin Ending
    BY <1>1 DEF Active, Ending
  <1>6. external => work[j] = "none" BY <1>1 DEF Inv, JobInv, JobOk
  <1>3. rec[j] \in JobRec BY DEF Inv, Typed
  <1>4. CASE \E label \in {"await", "end"} :
               /\ Update(j, Cancelled(rec[j], rec[j].approval))
               /\ Begin(c, "cancel", j, label)
    <2>1. PICK label \in {"await", "end"} :
               /\ Update(j, Cancelled(rec[j], rec[j].approval))
               /\ Begin(c, "cancel", j, label)
      BY <1>4
    <2>2. PICK r : r = Cancelled(rec[j], rec[j].approval) OBVIOUS
    <2>3. "cancelled" \in Status /\ "cancelled" \in Ending BY DEF Status, Ending
    <2>4. rec[j].approval \in Approval BY <1>3, RecValues
    <2>5. /\ r \in JobRec /\ r.status = "cancelled" /\ r.mode = rec[j].mode
      BY <1>3, <2>2, <2>3, <2>4 DEF Cancelled, JobRec
    <2>6. rec' = [rec EXCEPT ![j] = Settled(r, j)] BY <2>1, <2>2 DEF Update
    <2>7. Step(c)
      BY <1>1, <1>2, <1>6, <2>1, <2>3, <2>5, <2>6, Labels, EndRequest
    <2>8. QED BY <1>1, <2>7, Combine
  <1>5. CASE UNCHANGED <<rec, op>> BY <1>1, <1>5, NothingStep
  <1> QED BY <1>4, <1>5 DEF Cancel

\* An operator settles an open job or cleans up after an ending.
LEMMA ReconcileStep == ASSUME Inv, NEW c \in Caller, NEW j \in Job, Reconcile(c, j) PROVE Step(c)
  <1>1. /\ up /\ Free(j) /\ c \in Process /\ c \notin Job
        /\ UNCHANGED <<external, up, reservation, work>>
        /\ lock' = [lock EXCEPT ![j] = c]
    BY ProcessAssumption DEF Reconcile, At, Process
  <1>2. rec[j] \in JobRec /\ JobOk(j) BY DEF Inv, Typed, JobInv
  <1>3. CASE /\ j \in reconciling \/ rec[j].status = "running"
             /\ Update(j, [rec[j] EXCEPT !.status = "failed", !.marked = FALSE])
             /\ reconciling' = reconciling \ {j}
             /\ Begin(c, "settle", j, "end")
    <2>1. PICK r : r = [rec[j] EXCEPT !.status = "failed", !.marked = FALSE] OBVIOUS
    <2>2. "failed" \in Status /\ "failed" \in Ending BY DEF Status, Ending
    <2>3. /\ r \in JobRec /\ r.status = "failed" /\ r.mode = rec[j].mode
          /\ r.approval = rec[j].approval
      BY <1>2, <2>1, <2>2 DEF JobRec
    <2>4. rec' = [rec EXCEPT ![j] = Settled(r, j)] BY <1>3, <2>1 DEF Update
    <2>5. rec[j].status \in Past /\ (external => rec[j].status = "running")
      BY <1>2, <1>3 DEF JobOk, Past, Busy
    <2>6. rec[j].status # "absent" /\ rec[j].status # "awaiting_approval"
      BY <2>5 DEF Past, Busy, Ending
    <2>9. rec[j].status \in Ending => j \in reconciling BY <1>3 DEF Ending
    <2>7. r.approval # "pending" BY <1>2, <2>3, <2>6 DEF JobOk
    <2>8. QED BY <1>1, <1>3, <2>2, <2>3, <2>4, <2>5, <2>6, <2>7, <2>9, Labels, EndRequest
  <1>4. CASE /\ rec[j].status \in Ending /\ UNCHANGED <<rec, reconciling>>
             /\ Begin(c, "cleanup", j, "end")
    <2>1. /\ op' \in [Process -> OpRec] /\ OpOk(c)' /\ ~Launcher(c)'
          /\ \A q \in Process : q # c => op'[q] = op[q]
      BY <1>1, <1>4, Labels, BeginEnd
    <2>2. /\ lock' \in [Job -> Process \cup {None}]
          /\ \A i \in Job : lock[i] \notin {c, None} => lock'[i] = lock[i]
      BY <1>1 DEF Inv, Typed, Free
    <2>3. Typed' BY <1>1, <1>4, <2>1, <2>2 DEF Inv, Typed
    <2>4. QED BY <1>1, <1>4, <2>1, <2>2, <2>3, OpOnly
  <1> QED BY <1>3, <1>4 DEF Reconcile

\* An approval puts the job in the queue, where nobody else launches it.
LEMMA AcceptStep ==
    ASSUME Inv, NEW p \in Caller \cup {Expirer}, NEW j \in Job, op[p].at = "idle", up, Accept(p, j),
           UNCHANGED <<external, up, reservation, reconciling, lock, work>>
    PROVE  Step(p)
  <1>1. p \in Process /\ p \notin Job BY ProcessAssumption DEF Process
  <1>2. rec[j] \in JobRec /\ JobOk(j) BY DEF Inv, Typed, JobInv
  <1>3. /\ rec[j].approval = "pending" /\ rec' = [rec EXCEPT ![j] = Accepted(rec[j])]
        /\ \/ external /\ Begin(p, "decide", j, "dispatch")
           \/ ~external /\ op' = Launched(op, j)
    BY DEF Accept, Approve
  <1>4. /\ rec[j].status = "awaiting_approval" /\ rec[j].mode = "workspace-write"
        /\ work[j] = "none"
    BY <1>2, <1>3 DEF JobOk
  <1>5. /\ rec[j].status # "absent" /\ rec[j].status \notin Past /\ rec[j].status \notin Ending
        /\ rec[j].status # "queued" /\ rec[j].status \notin Busy /\ rec[j].status \in Active
    BY <1>4 DEF Past, Busy, Ending, Active
  <1>6. PICK r : r = Accepted(rec[j]) OBVIOUS
  <1>7. /\ r \in JobRec /\ r.status = "queued" /\ r.approval = "accepted"
        /\ r.mode = "workspace-write"
    BY <1>2, <1>4, <1>6, Strings DEF Accepted, JobRec, Approval
  <1>8. rec' = [rec EXCEPT ![j] = r] BY <1>3, <1>6
  <1>9. /\ rec' \in [Job -> JobRec] /\ rec'[j] = r
        /\ \A i \in Job : i # j => rec'[i] = rec[i]
    BY <1>7, <1>8, RecChange DEF Inv
  <1>10. "queued" \in Past BY DEF Past, Busy
  <1>11. JobStep(p, j)
    BY <1>4, <1>5, <1>7, <1>9, <1>10 DEF JobStep, Goes
  <1>12. JobOk(j)'
    <2>1. j \notin reconciling BY <1>2, <1>5 DEF JobOk
    <2>2. Counted => reservation[j] # "none" BY <1>2, <1>5 DEF JobOk
    <2>3. QED BY <1>2, <1>4, <1>7, <1>9, <2>1, <2>2 DEF JobOk
  <1>13. \A q \in Process : q # p /\ Launcher(q) => op[q].job # j
    <2> SUFFICES ASSUME NEW q \in Process, Launcher(q), op[q].job = j PROVE FALSE
      OBVIOUS
    <2>1. OpOk(q) /\ op[q].at # "idle" BY DEF Inv, OpInv, Launcher
    <2>2. op[q].at = "create" => rec[j].status = "absent" BY <2>1, RecValues DEF OpOk
    <2>3. QED BY <1>4, <1>5, <2>1, <2>2 DEF OpOk, Launcher, Working
  <1>14. \A i \in Job : i # j => /\ rec'[i] = rec[i] /\ work'[i] = work[i]
                                 /\ reservation'[i] = reservation[i]
                                 /\ i \in reconciling' <=> i \in reconciling
    BY <1>9
  <1>15. CASE external /\ Begin(p, "decide", j, "dispatch")
    <2>1. /\ op' \in [Process -> OpRec]
          /\ op'[p].at = "dispatch" /\ op'[p].job = j /\ op'[p].kind = "decide"
          /\ \A q \in Process : q # p => op'[q] = op[q]
      BY <1>1, <1>15, BeginShape, Labels DEF Inv
    <2>2. OpOk(p)'
      BY <1>1, <1>4, <1>7, <1>9, <1>10, <1>15, <2>1 DEF OpOk, Working, Guarded, Executing
    <2>3. Typed' BY <1>9, <2>1 DEF Inv, Typed
    <2>4. QED BY <1>1, <1>11, <1>12, <1>13, <1>14, <2>1, <2>2, <2>3, OneJobStep
  <1>16. CASE ~external /\ op' = Launched(op, j)
    <2>1. op \in [Process -> OpRec] BY DEF Inv, Typed
    <2>2. /\ op' \in [Process -> OpRec] /\ op'[j].at = "start" /\ op'[j].job = j
          /\ \A q \in Process : q # j => op'[q] = op[q]
      BY <1>16, <2>1, LaunchedShape
    <2>3. op'[p].at = "idle" BY <1>1, <2>2
    <2>4. OpOk(p)' /\ ~Launcher(p)' BY <1>1, <2>3, IdleOk
    <2>5. OpOk(j)' /\ ~Launcher(j)' BY <1>7, <1>9, <1>10, <1>16, <2>2, StartOk
    <2>6. \A q \in Process : q # p => op'[q] = op[q] \/ (OpOk(q)' /\ ~Launcher(q)')
      <3> SUFFICES ASSUME NEW q \in Process, q # p
                   PROVE  op'[q] = op[q] \/ (OpOk(q)' /\ ~Launcher(q)')
        OBVIOUS
      <3>1. CASE q = j BY <3>1, <2>5
      <3>2. CASE q # j BY <3>2, <2>2
      <3>3. QED BY <3>1, <3>2
    <2>7. Typed' BY <1>9, <2>2 DEF Inv, Typed
    <2>8. QED BY <1>1, <1>11, <1>12, <1>14, <2>4, <2>6, <2>7, OneJobStep
  <1> QED BY <1>3, <1>15, <1>16

\* A decision accepts, refuses, or is answered again.
LEMMA DecideStep ==
    ASSUME Inv, NEW p \in Caller \cup {Expirer}, NEW j \in Job, NEW d, Decide(p, j, d)
    PROVE  Step(p)
  <1>1. /\ up /\ op[p].at = "idle" /\ Free(j) /\ p \in Process /\ p \notin Job
        /\ UNCHANGED <<external, up, reservation, reconciling, lock, work>>
    BY ProcessAssumption DEF Decide, At, Process
  <1>2. rec[j] \in JobRec /\ JobOk(j) BY DEF Inv, Typed, JobInv
  <1>3. CASE Accept(p, j) BY <1>1, <1>3, AcceptStep
  <1>4. CASE Refuse(p, j, d)
    <2>1. /\ rec[j].status = "awaiting_approval" /\ rec[j].status \notin Ending
          /\ work[j] = "none"
      BY <1>2, <1>4 DEF Refuse, JobOk, Ending
    <2>2. PICK kind \in {"expire", "decide"} : Begin(p, kind, j, "end")
      BY <1>4 DEF Refuse
    <2>3. PICK r : r = Cancelled(rec[j], "pending") OBVIOUS
    <2>4. /\ "cancelled" \in Status /\ "cancelled" \in Ending /\ "pending" \in Approval
      BY DEF Status, Ending, Approval
    <2>5. /\ r \in JobRec /\ r.status = "cancelled" /\ r.mode = rec[j].mode
      BY <1>2, <2>3, <2>4 DEF Cancelled, JobRec
    <2>6. rec' = [rec EXCEPT ![j] = Settled(r, j)] BY <1>4, <2>3 DEF Refuse
    <2>7. kind \in Kind /\ kind # "execute" BY <2>2, Labels
    <2>8. QED BY <1>1, <2>1, <2>2, <2>4, <2>5, <2>6, <2>7, EndRequest
  <1>5. CASE Replay(p, j, d)
    <2>1. rec[j].status \in Ending /\ rec' = rec /\ Begin(p, "replay", j, "end")
      BY <1>5 DEF Replay, Ending
    <2>2. /\ op' \in [Process -> OpRec] /\ OpOk(p)' /\ ~Launcher(p)'
          /\ \A q \in Process : q # p => op'[q] = op[q]
      BY <1>1, <2>1, Labels, BeginEnd
    <2>3. Typed' BY <1>1, <2>1, <2>2 DEF Inv, Typed
    <2>4. QED BY <1>1, <2>1, <2>2, <2>3, OpOnly
  <1> QED BY <1>3, <1>4, <1>5 DEF Decide

\* Without operations under way the invariant is one of jobs.
LEMMA AllIdle ==
    ASSUME Typed', JobInv', \A p \in Process : op'[p].at = "idle"
    PROVE  Inv'
  <1>1. \A p \in Process : OpOk(p)' /\ ~Launcher(p)' BY IdleOk
  <1>2. OpInv' BY <1>1 DEF OpInv
  <1>3. OneLauncher' BY <1>1 DEF OneLauncher
  <1> QED BY <1>2, <1>3 DEF Inv

\* A crash ends every operation and what runs in this process.
LEMMA CrashStep == ASSUME Inv, Crash PROVE Inv' /\ Going
  <1>1. /\ up' = FALSE /\ op' = [p \in Process |-> Idle]
        /\ lock' = [j \in Job |-> None] /\ reconciling' = {}
        /\ UNCHANGED <<external, rec, reservation>>
        /\ \/ external /\ UNCHANGED work
           \/ ~external /\ work' = [j \in Job |-> IF work[j] = "none" THEN "none" ELSE "failed"]
    BY DEF Crash, store
  <1>2. work' \in [Job -> Work] /\ \A j \in Job : work[j] = "none" => work'[j] = "none"
    BY <1>1 DEF Inv, Typed, Work, Ending
  <1>3. \A p \in Process : op'[p].at = "idle" BY <1>1, IdleValues
  <1>4. op' \in [Process -> OpRec] BY <1>1, IdleValues
  <1>5. lock' \in [Job -> Process \cup {None}] BY <1>1
  <1>6. Typed' BY <1>1, <1>2, <1>4, <1>5 DEF Inv, Typed
  <1>7. JobInv'
    <2> SUFFICES ASSUME NEW j \in Job PROVE JobOk(j)' BY DEF JobInv
    <2>1. JobOk(j) BY DEF Inv, JobInv
    <2>2. external => work'[j] = work[j] BY <1>1
    <2>3. QED BY <1>1, <1>2, <2>1, <2>2 DEF JobOk
  <1>8. Going
    <2>1. \A j \in Job : work'[j] = work[j] \/ work'[j] \in {"none", "failed"} BY <1>1
    <2>2. QED BY <1>1, <2>1 DEF Going, Goes
  <1> QED BY <1>3, <1>6, <1>7, <1>8, AllIdle

\* What a recovery makes of the record of a job.
LEMMA RecoveredValues ==
    ASSUME Inv, NEW j \in Job
    PROVE  /\ Recovered(j) \in JobRec
           /\ Recovered(j).approval = rec[j].approval /\ Recovered(j).mode = rec[j].mode
           /\ \/ Recovered(j) = rec[j] /\ (external \/ rec[j].status \notin Busy)
              \/ ~external /\ rec[j].status \in Busy /\ Recovered(j).status = "failed"
  <1>1. rec[j] \in JobRec BY DEF Inv, Typed
  <1>2. CASE ~external /\ rec[j].status \in Busy
    <2>1. Recovered(j) = [rec[j] EXCEPT !.status = "failed"] BY <1>2 DEF Recovered
    <2>2. "failed" \in Status BY DEF Status, Ending
    <2>3. QED BY <1>1, <1>2, <2>1, <2>2, StatusValues
  <1>3. CASE ~(~external /\ rec[j].status \in Busy)
    BY <1>1, <1>3 DEF Recovered
  <1> QED BY <1>2, <1>3

\* reconstructAdmissionFromStore counts whatever waits or runs.
LEMMA ReconstructedValues ==
    ASSUME Inv, NEW j \in Job
    PROVE  /\ Reconstructed(j) \in Phase
           /\ Recovered(j).status \in Active => Reconstructed(j) = "bound"
  <1>1. reservation[j] \in Phase /\ "bound" \in Phase /\ "unresolved" \in Phase
    BY DEF Inv, Typed, Phase
  <1>2. Active \cap Ending = {} BY DEF Active, Ending
  <1>3. CASE Recovered(j).status \in Active
    BY <1>1, <1>2, <1>3 DEF Reconstructed
  <1>4. CASE Recovered(j).status \notin Active /\ Recovered(j).status \in Ending /\ reservation[j] = "bound"
    BY <1>1, <1>4 DEF Reconstructed
  <1>5. CASE /\ Recovered(j).status \notin Active
             /\ ~(Recovered(j).status \in Ending /\ reservation[j] = "bound")
    BY <1>1, <1>5 DEF Reconstructed
  <1> QED BY <1>3, <1>4, <1>5

\* A recovery fails what ran here and counts the rest.
LEMMA InitializeStep == ASSUME Inv, Initialize PROVE Inv' /\ Going
  <1>1. /\ ~up /\ up' = TRUE
        /\ reservation' = [j \in Job |-> Reconstructed(j)]
        /\ rec' = [j \in Job |->
             IF /\ Recovered(j).status \in {"completed", "cancelled"}
                /\ Reconstructed(j) \in {"unresolved", "terminal_pending"}
             THEN [Recovered(j) EXCEPT !.marked = TRUE] ELSE Recovered(j)]
        /\ UNCHANGED <<external, reconciling, lock, op, work>>
    BY DEF Initialize, memory
  <1>2. \A p \in Process : op'[p].at = "idle"
    <2> SUFFICES ASSUME NEW p \in Process PROVE op[p].at = "idle" BY <1>1
    <2>1. OpOk(p) BY DEF Inv, OpInv
    <2>2. QED BY <1>1, <2>1 DEF OpOk
  <1>3. ASSUME NEW j \in Job
        PROVE  /\ rec'[j] \in JobRec /\ rec'[j].status = Recovered(j).status
               /\ rec'[j].approval = rec[j].approval /\ rec'[j].mode = rec[j].mode
               /\ Recovered(j).status = "absent" => rec'[j] = Recovered(j)
    <2>1. PICK r : r = Recovered(j) OBVIOUS
    <2>2. r \in JobRec /\ r.approval = rec[j].approval /\ r.mode = rec[j].mode
      BY <2>1, RecoveredValues
    <2>3. CASE /\ r.status \in {"completed", "cancelled"}
               /\ Reconstructed(j) \in {"unresolved", "terminal_pending"}
      <3>1. rec'[j] = [r EXCEPT !.marked = TRUE] BY <1>1, <2>1, <2>3
      <3>2. QED BY <2>1, <2>2, <2>3, <3>1, MarkValues
    <2>4. CASE ~ /\ r.status \in {"completed", "cancelled"}
                 /\ Reconstructed(j) \in {"unresolved", "terminal_pending"}
      <3>1. rec'[j] = r BY <1>1, <2>1, <2>4
      <3>2. QED BY <2>1, <2>2, <3>1
    <2>5. QED BY <2>3, <2>4
  <1>4. rec' \in [Job -> JobRec]
    <2>1. \A j \in Job : rec'[j] \in JobRec BY <1>3
    <2>2. rec' = [j \in Job |-> rec'[j]] BY <1>1
    <2>3. QED BY <2>1, <2>2
  <1>5. reservation' \in [Job -> Phase] BY <1>1, ReconstructedValues
  <1>6. Typed' BY <1>1, <1>4, <1>5 DEF Inv, Typed
  <1>7. JobInv'
    <2> SUFFICES ASSUME NEW j \in Job PROVE JobOk(j)' BY DEF JobInv
    <2>1. JobOk(j) BY DEF Inv, JobInv
    <2>2. /\ rec'[j].status = Recovered(j).status
          /\ rec'[j].approval = rec[j].approval /\ rec'[j].mode = rec[j].mode
          /\ Recovered(j).status = "absent" => rec'[j] = Recovered(j)
      BY <1>3
    <2>3. rec'[j].status \in Active => reservation'[j] # "none"
      BY <1>1, <2>2, ReconstructedValues
    <2>4. CASE Recovered(j) = rec[j] /\ (external \/ rec[j].status \notin Busy)
      BY <1>1, <2>1, <2>2, <2>3, <2>4 DEF JobOk, Busy
    <2>5. CASE ~external /\ rec[j].status \in Busy /\ Recovered(j).status = "failed"
      <3>1. rec[j].approval # "pending" /\ "failed" \in Past
        BY <2>1, <2>5 DEF JobOk, Busy, Past, Ending
      <3>2. QED BY <1>1, <2>1, <2>2, <2>3, <2>5, <3>1 DEF JobOk
    <2>6. QED BY <2>4, <2>5, RecoveredValues
  <1>8. Going
    <2> SUFFICES ASSUME NEW j \in Job PROVE Goes(j) BY DEF Going
    <2>1. rec[j].status \in Ending => rec[j].status \notin Busy BY DEF Busy, Ending
    <2>2. rec[j].status \in Ending => rec'[j].status = rec[j].status
      BY <1>3, <2>1, RecoveredValues
    <2>3. QED BY <1>1, <2>2 DEF Goes
  <1> QED BY <1>2, <1>6, <1>7, <1>8, AllIdle

\* The invariant holds at the start.
LEMMA InitInv == ASSUME Init PROVE Inv
  <1>1. /\ external \in BOOLEAN /\ up = TRUE /\ rec = [j \in Job |-> NoJob]
        /\ reservation = [j \in Job |-> "none"] /\ reconciling = {}
        /\ work = [j \in Job |-> "none"] /\ lock = [j \in Job |-> None]
        /\ op = [p \in Process |-> Idle]
    BY DEF Init
  <1>2. "none" \in Phase /\ "none" \in Work BY DEF Phase, Work
  <1>3. rec \in [Job -> JobRec] /\ op \in [Process -> OpRec]
    BY <1>1, RecValues, IdleValues
  <1>4. Typed BY <1>1, <1>2, <1>3 DEF Typed
  <1>5. JobInv
    <2> SUFFICES ASSUME NEW j \in Job PROVE JobOk(j) BY DEF JobInv
    <2>1. rec[j] = NoJob /\ rec[j].status = "absent" /\ rec[j].approval = "none" /\ work[j] = "none"
      BY <1>1, RecValues
    <2>2. QED BY <1>1, <2>1 DEF JobOk, Active
  <1>6. \A p \in Process : op[p].at = "idle" BY <1>1, IdleValues
  <1>7. OpInv BY <1>6 DEF OpInv, OpOk, Working, Guarded, Executing
  <1>8. OneLauncher BY <1>6 DEF OneLauncher, Launcher
  <1> QED BY <1>4, <1>5, <1>7, <1>8 DEF Inv

\* Every step of an operation under way.
LEMMA ContinueStep ==
    ASSUME Inv, NEW p \in Process, Continue(p) PROVE Step(p)
  BY CreateStep, BindStep, DispatchStep, UndispatchedStep, AwaitStep, AskStep, AskedStep,
     LookStep, ApplyStep, DeliverStep, AckStep, FinishStep, EndStep, MarkStep, ReleaseStep,
     ErrorStep DEF Continue

\* Every step preserves the invariant, and no job goes back.
LEMMA NextInv ==
    ASSUME Inv, [Next]_vars PROVE Inv' /\ Going
  <1>1. ASSUME NEW p \in Process, Continue(p) PROVE Inv' /\ Going
    BY <1>1, ContinueStep, Combine
  <1>2. ASSUME NEW c \in Caller, Commit(c) PROVE Inv' /\ Going
    BY <1>2, CommitStep, Combine DEF Process
  <1>3. ASSUME NEW c \in Caller, NEW j \in Job, Request(c, j) PROVE Inv' /\ Going
    <2>1. c \in Process BY DEF Process
    <2>2. CASE Cancel(c, j) BY <2>2, CancelStep
    <2>3. CASE Submit(c, j) \/ CancelExternal(c, j) \/ Reconcile(c, j) \/ CommitEnter(c, j)
      BY <2>1, <2>3, SubmitStep, CancelExternalStep, ReconcileStep, CommitEnterStep, Combine
    <2>4. CASE \E d \in {"accept", "deny"} : Decide(c, j, d)
      BY <2>1, <2>4, DecideStep, Combine
    <2>5. QED BY <1>3, <2>2, <2>3, <2>4 DEF Request
  <1>4. ASSUME NEW j \in Job, Execute(j) PROVE Inv' /\ Going
    BY <1>4, TakeTreeStep, ClaimStep, RecordStep, UnrecordedStep, Combine DEF Execute, Process
  <1>5. ASSUME NEW j \in Job,
               Invoke(j) \/ RunnerEnds(j) \/ WorkerStep(j) \/ DeadlinePasses(j)
        PROVE  Inv' /\ Going
    BY <1>5, InvokeStep, RunnerEndsStep, WorkerStepStep, DeadlineStep
  <1>6. ASSUME NEW j \in Job, Decide(Expirer, j, "expire") PROVE Inv' /\ Going
    <2>1. Step(Expirer) BY <1>6, DecideStep
    <2>2. QED BY <2>1, Combine DEF Process
  <1>7. ASSUME NEW j \in Job, NEW p \in Caller \cup {Poller}, Observe(p, j) PROVE Inv' /\ Going
    BY <1>7, ObserveStep, Combine DEF Process
  <1>8. CASE UNCHANGED vars BY <1>8, NothingStep DEF vars, store, memory
  <1> QED
    BY <1>1, <1>2, <1>3, <1>4, <1>5, <1>6, <1>7, <1>8, CrashStep, InitializeStep DEF Next

-----------------------------------------------------------------------------
(* What no proof above relies on: which jobs the sets of the service hold,  *)
(* who holds the locks, and that only endings are announced.               *)

Kept == /\ held \subseteq Job /\ reconciling \subseteq Job
        /\ stop \subseteq Job /\ late \subseteq Job
        /\ lock \in [Job -> Server \cup {None}]
        /\ tree \in Process \cup {None}
        /\ notices \in [Job -> SUBSET Ending]

\* Leaving gives locks back and takes none.
LEMMA LeaveKept ==
    ASSUME Kept, NEW p, NEW j, Leave(p, j)
    PROVE  lock' \in [Job -> Server \cup {None}] /\ tree' \in Process \cup {None}
  BY DEF Kept, Leave, Unlocked

\* What is announced when an admission is over is an ending: that of the
\* execution, or a cancellation.
LEMMA DoneKept ==
    ASSUME Inv, Kept, NEW p \in Process, op[p].at \in {"end", "release"}, Done(p, op[p].job)
    PROVE  /\ lock' \in [Job -> Server \cup {None}] /\ tree' \in Process \cup {None}
           /\ notices' \in [Job -> SUBSET Ending]
  <1>0. PICK j : j = op[p].job OBVIOUS
  <1>1. OpOk(p) BY DEF Inv, OpInv
  <1>2. op[p].kind = "execute" => op[p].saw \in Ending BY <1>1 DEF OpOk
  <1>3. \/ notices' = notices
        \/ \E s \in Ending : notices' = [notices EXCEPT ![j] = @ \cup {s}]
    BY <1>0, <1>2 DEF Done, Ending
  <1>4. notices' \in [Job -> SUBSET Ending] BY <1>3 DEF Kept
  <1>5. Leave(p, j) BY <1>0 DEF Done
  <1> QED BY <1>4, <1>5, LeaveKept

\* The awaits of a request, up to the admission.
LEMMA RequestKept ==
    ASSUME Inv, Kept, NEW p \in Process,
           \/ Create(p) \/ Bind(p) \/ Dispatch(p) \/ Undispatched(p) \/ Await(p)
           \/ Ask(p) \/ Asked(p)
    PROVE  Kept'
  <1>1. CASE Create(p) \/ Dispatch(p) \/ Undispatched(p) \/ Await(p)
    BY <1>1 DEF Kept, Create, Dispatch, Undispatched, Await, store, bounds
  <1>2. CASE Bind(p)
    <2>1. op[p].job \in Job BY <1>2, Underway DEF Bind, At
    <2>2. QED BY <1>2, <2>1 DEF Kept, Bind, bounds
  <1>3. CASE Ask(p)
    <2>1. op[p].job \in Job BY <1>3, Underway DEF Ask, At
    <2>2. stop' \subseteq Job BY <1>3, <2>1 DEF Ask, Kept
    <2>3. lock' \in [Job -> Server \cup {None}] /\ tree' \in Process \cup {None}
      BY <1>3, LeaveKept DEF Ask, Kept
    <2>4. QED BY <1>3, <2>2, <2>3 DEF Kept, Ask, store, bounds
  <1>4. CASE Asked(p)
    <2>1. lock' \in [Job -> Server \cup {None}] /\ tree' \in Process \cup {None}
      BY <1>4, LeaveKept DEF Asked, Kept
    <2>2. QED BY <1>4, <2>1 DEF Kept, Asked
  <1> QED BY <1>1, <1>2, <1>3, <1>4

\* The awaits of an observation.
LEMMA ObservationKept ==
    ASSUME Inv, Kept, NEW p \in Process,
           Look(p) \/ Apply(p) \/ Deliver(p) \/ Ack(p) \/ Finish(p)
    PROVE  Kept'
  <1>1. CASE Look(p) BY <1>1 DEF Kept, Look, store, bounds
  <1>2. CASE Apply(p)
    <2>1. lock' \in [Job -> Server \cup {None}] /\ tree' \in Process \cup {None}
      BY <1>2, LeaveKept DEF Apply, Kept
    <2>2. QED BY <1>2, <2>1 DEF Kept, Apply
  <1>3. CASE Deliver(p)
    <2>1. notices' \in [Job -> SUBSET Ending] BY <1>3 DEF Deliver, Kept
    <2>2. QED BY <1>3, <2>1 DEF Kept, Deliver, store
  <1>4. CASE Ack(p)
    <2>1. lock' \in [Job -> Server \cup {None}] /\ tree' \in Process \cup {None}
      BY <1>4, LeaveKept DEF Ack, Kept
    <2>2. QED BY <1>4, <2>1 DEF Kept, Ack
  <1>5. CASE Finish(p)
    <2>1. lock' \in [Job -> Server \cup {None}] /\ tree' \in Process \cup {None}
      BY <1>5, LeaveKept DEF Finish, Unlocked, Kept
    <2>2. QED BY <1>5, <2>1 DEF Kept, Finish, store, bounds
  <1> QED BY <1>1, <1>2, <1>3, <1>4, <1>5

\* finalizeAdmission.
LEMMA AdmissionKept ==
    ASSUME Inv, Kept, NEW p \in Process, End(p) \/ Mark(p) \/ Release(p) \/ Error(p)
    PROVE  Kept'
  <1>1. CASE End(p)
    <2>1. /\ lock' \in [Job -> Server \cup {None}] /\ tree' \in Process \cup {None}
          /\ notices' \in [Job -> SUBSET Ending]
      BY <1>1, DoneKept DEF End, At, Kept
    <2>2. QED BY <1>1, <2>1 DEF Kept, End
  <1>2. CASE Mark(p) BY <1>2 DEF Kept, Mark, bounds
  <1>3. CASE Release(p)
    <2>1. /\ lock' \in [Job -> Server \cup {None}] /\ tree' \in Process \cup {None}
          /\ notices' \in [Job -> SUBSET Ending]
      BY <1>3, DoneKept DEF Release, At, Kept
    <2>2. held' \subseteq Job BY <1>3 DEF Release, Kept
    <2>3. QED BY <1>3, <2>1, <2>2 DEF Kept, Release
  <1>4. CASE Error(p)
    <2>1. lock' \in [Job -> Server \cup {None}] /\ tree' \in Process \cup {None}
      BY <1>4, LeaveKept DEF Error, Kept
    <2>2. QED BY <1>4, <2>1 DEF Kept, Error
  <1> QED BY <1>1, <1>2, <1>3, <1>4

\* An execution in this process.
LEMMA ExecuteKept == ASSUME Inv, Kept, NEW j \in Job, Execute(j) PROVE Kept'
  <1>1. CASE TakeTree(j) BY <1>1 DEF Kept, TakeTree, store, bounds, Process
  <1>2. CASE Claim(j) \/ Record(j) \/ Unrecorded(j)
    <2>1. lock' \in [Job -> Server \cup {None}] /\ tree' \in Process \cup {None}
      BY <1>2, LeaveKept DEF Claim, Record, Unrecorded, Kept
    <2>2. reconciling' \subseteq Job BY <1>2 DEF Claim, Record, Unrecorded, Kept
    <2>3. QED BY <1>2, <2>1, <2>2 DEF Kept, Claim, Record, Unrecorded
  <1> QED BY <1>1, <1>2 DEF Execute

\* A request begins, a decision is taken, or a commit takes its locks.
LEMMA BeginKept ==
    ASSUME Kept, NEW c \in Caller, NEW j \in Job, Request(c, j) \/ Commit(c) PROVE Kept'
  <1>0. c \in Server /\ c \in Process BY DEF Server, Process
  <1>1. CASE Submit(c, j) BY <1>1 DEF Kept, Submit, bounds
  <1>2. CASE Cancel(c, j)
    <2>1. stop' \subseteq Job BY <1>2 DEF Cancel, Kept
    <2>2. QED BY <1>2, <2>1 DEF Kept, Cancel
  <1>3. CASE CancelExternal(c, j) BY <1>0, <1>3 DEF Kept, CancelExternal, Enter, store, bounds
  <1>4. CASE Reconcile(c, j)
    <2>1. reconciling' \subseteq Job /\ lock' \in [Job -> Server \cup {None}]
      BY <1>0, <1>4 DEF Reconcile, Kept
    <2>2. QED BY <1>4, <2>1 DEF Kept, Reconcile
  <1>5. CASE CommitEnter(c, j) BY <1>5 DEF Kept, CommitEnter, store, bounds
  <1>6. CASE \E d \in {"accept", "deny"} : Decide(c, j, d) BY <1>6 DEF Kept, Decide
  <1>7. CASE Commit(c)
    <2>1. lock' \in [Job -> Server \cup {None}] /\ tree' \in Process \cup {None}
      BY <1>0, <1>7, LeaveKept DEF Commit, CommitLocks, Kept
    <2>2. QED BY <1>7, <2>1 DEF Kept, Commit, store, bounds
  <1> QED BY <1>1, <1>2, <1>3, <1>4, <1>5, <1>6, <1>7 DEF Request

\* The runner, the worker, the timers, a crash and a restart.
LEMMA ElsewhereKept ==
    ASSUME Kept, NEW j \in Job,
           \/ Invoke(j) \/ RunnerEnds(j) \/ WorkerStep(j) \/ DeadlinePasses(j)
           \/ Decide(Expirer, j, "expire") \/ \E p \in Caller \cup {Poller} : Observe(p, j)
    PROVE  Kept'
  <1>1. CASE Invoke(j) \/ RunnerEnds(j) \/ WorkerStep(j)
    BY <1>1 DEF Kept, Invoke, RunnerEnds, WorkerStep, store, memory, bounds
  <1>2. CASE DeadlinePasses(j) BY <1>2 DEF Kept, DeadlinePasses, memory, bounds
  <1>3. CASE Decide(Expirer, j, "expire") BY <1>3 DEF Kept, Decide
  <1>4. CASE \E p \in Caller \cup {Poller} : Observe(p, j)
    BY <1>4 DEF Kept, Observe, Enter, Server, store, bounds
  <1> QED BY <1>1, <1>2, <1>3, <1>4

LEMMA RestartKept == ASSUME Kept, Crash \/ Initialize PROVE Kept'
  <1>1. CASE Crash BY <1>1 DEF Kept, Crash, store
  <1>2. CASE Initialize BY <1>2 DEF Kept, Initialize, memory, bounds
  <1> QED BY <1>1, <1>2

LEMMA NextKept == ASSUME Inv, Kept, [Next]_vars PROVE Kept'
  <1>1. CASE UNCHANGED vars BY <1>1 DEF Kept, vars, store, memory, bounds
  <1>2. ASSUME NEW p \in Process, Continue(p) PROVE Kept'
    BY <1>2, RequestKept, ObservationKept, AdmissionKept DEF Continue
  <1>3. ASSUME NEW c \in Caller, Commit(c) PROVE Kept'
    <2>1. At(c, "enter") \/ At(c, "commit") BY <1>3 DEF Commit, CommitLocks
    <2>2. op[c].job \in Job BY <2>1, Underway DEF At, Process
    <2>3. QED BY <1>3, <2>2, BeginKept
  <1> QED BY <1>1, <1>2, <1>3, BeginKept, ExecuteKept, ElsewhereKept, RestartKept DEF Next

\* The invariant holds at every step of every behaviour, whatever fails.
THEOREM InvHolds == Spec => []Inv
  <1>1. Init => Inv BY InitInv
  <1>2. Inv /\ [Next]_vars => Inv' BY NextInv
  <1> QED BY <1>1, <1>2, PTL DEF Spec

\* Every variable has its type: the sets of the service name jobs, a lock has
\* an owner that can hold it, and what is announced is an ending.
THEOREM TypeCorrect == Spec => []TypeOK
  <1>1. Spec => []Inv BY InvHolds
  <1>2. Init => Kept BY DEF Init, Kept
  <1>3. Inv /\ Kept /\ [Next]_vars => Kept' BY NextKept
  <1>4. Inv /\ Kept => TypeOK
    <2> SUFFICES ASSUME Inv, Kept PROVE TypeOK OBVIOUS
    <2>1. rec \in [Job -> JobRec] /\ reservation \in [Job -> Phase] /\ work \in [Job -> Work]
      BY DEF Inv, Typed
    <2>2. DOMAIN op = Process /\ \A p \in Process : op[p].job \in Job \cup {None}
      BY DEF Inv, Typed, OpRec
    <2>3. QED
      BY <2>1, <2>2 DEF TypeOK, Kept, Inv, Typed, JobRec, Mode, Status, Approval, Phase, Work
  <1> QED BY <1>1, <1>2, <1>3, <1>4, PTL DEF Spec

\* Whatever waits for approval, is queued or runs holds a reservation of the
\* admission controller: no path of the service releases the capacity of a job
\* that is not over.
THEOREM CapacityIsCounted ==
    {"sent", "bind"} \cap Fault = {} => (Spec => []ActiveJobsAreCounted)
  <1> SUFFICES ASSUME Counted PROVE Spec => []ActiveJobsAreCounted
    BY DEF Counted, Honest
  <1>1. Spec => []Inv BY InvHolds
  <1>2. Inv => ActiveJobsAreCounted BY DEF Inv, JobInv, JobOk, ActiveJobsAreCounted
  <1> QED BY <1>1, <1>2, PTL

\* The work of a job starts at most once, however often the job is approved,
\* cancelled, observed, replayed or recovered, and whatever fails: also when a
\* dispatch throws although the worker got the task.
THEOREM WorkStartsOnce == Spec => StartsOnce
  <1>1. Spec => []Inv BY InvHolds
  <1>2. Inv /\ [Next]_vars
          => [\A j \in Job : work[j] # "none"
                => work'[j] = work[j] \/ work'[j] \notin {"queued", "prepared"}]_vars
    BY NextInv DEF Going, Goes
  <1> QED BY <1>1, <1>2, PTL DEF Spec, StartsOnce

\* A stored ending is taken back by nothing, and replaced only by the report of
\* the worker or by an operator.
THEOREM EndingsStand == "sent" \notin Fault => (Spec => EndingStands)
  <1> SUFFICES ASSUME Honest PROVE Spec => EndingStands
    BY DEF Honest
  <1>1. Spec => []Inv BY InvHolds
  <1>2. Inv /\ [Next]_vars
          => [\A j \in Job : (rec[j].status \in Ending /\ rec'[j].status # rec[j].status)
                => /\ rec'[j].status \in Ending
                   /\ j \in reconciling \/ (external /\ rec'[j].status = work[j])]_vars
    BY NextInv DEF Going, Goes
  <1> QED BY <1>1, <1>2, PTL DEF Spec, EndingStands
-----------------------------------------------------------------------------
(* What the service sees of its admissions is what the controller promises  *)
(* (Admissions; AgentAdmissionProofs shows that the controller keeps it).   *)

\* A submission holds a reservation that is not bound yet; who marks and
\* releases an admission does so to one that was bound.
Binding(p, j) == op[p].at \in {"create", "bind"} /\ op[p].job = j
Closing(p, j) == op[p].at \in {"mark", "release"} /\ op[p].job = j

AdmOk(j) ==
    /\ \A p \in Process : Binding(p, j) => reservation[j] = "reserved"
    /\ \A p, q \in Process : Binding(p, j) /\ Binding(q, j) => p = q
    /\ \A p \in Process : Closing(p, j) => reservation[j] # "reserved"
    /\ j \in held => reservation[j] # "reserved" /\ rec[j].status # "absent"
    /\ rec[j].status = "absent" => reservation[j] \in {"none", "reserved"}
AdmInv == \A j \in Job : AdmOk(j)

\* Jobs stay in the store.
Stored == \A j \in Job : rec[j].status # "absent" => rec'[j].status # "absent"

\* An operation goes where it neither binds nor ends an admission.
Away == Label \ {"create", "bind", "mark", "release"}
Aside(q) == op'[q] = op[q] \/ op'[q].at \in Away
Turns(p) ==
    \/ op' = op \/ Return(p)
    \/ \E label \in Away : Goto(p, label)
    \/ \E label \in Away, s \in Seen : op' = [op EXCEPT ![p].at = label, ![p].saw = s]
    \/ \E label \in Away, kind \in Kind, j \in Job :
         Begin(p, kind, j, label) \/ Enter(p, kind, j, label)
    \/ \E j \in Job : Leave(p, j) \/ op' = Launched(op, j)

\* The awaits that neither bind nor end an admission.
LEMMA AwayLabels ==
    \A l \in {"idle", "enter", "commit", "dispatch", "undispatched", "await", "ask", "asked",
              "look", "apply", "deliver", "ack", "finish", "end", "error", "start", "claim",
              "run", "unrecorded"} : l \in Away
  BY Labels, Strings DEF Away

\* Such a turn leaves every operation aside, that of a launched job included.
LEMMA TurnsAside ==
    ASSUME Typed, NEW p \in Process, Turns(p), NEW q \in Process
    PROVE  Aside(q)
  <1>0. \A l \in Away : l \in Label BY DEF Away
  <1>1. CASE op' = op BY <1>1 DEF Aside
  <1>2. CASE Return(p) BY <1>2, ReturnShape, AwayLabels DEF Aside
  <1>3. ASSUME NEW label \in Away, Goto(p, label) PROVE Aside(q)
    BY <1>0, <1>3, GotoShape DEF Aside
  <1>4. ASSUME NEW label \in Away, NEW s \in Seen,
               op' = [op EXCEPT ![p].at = label, ![p].saw = s]
        PROVE  Aside(q)
    <2>1. op'[p].at = label /\ \A i \in Process : i # p => op'[i] = op[i]
      BY <1>0, <1>4, SawShape
    <2>2. QED BY <2>1 DEF Aside
  <1>5. ASSUME NEW label \in Away, NEW kind \in Kind, NEW j \in Job,
               Begin(p, kind, j, label) \/ Enter(p, kind, j, label)
        PROVE  Aside(q)
    BY <1>0, <1>5, BeginShape, EnterShape DEF Aside
  <1>6. ASSUME NEW j \in Job, Leave(p, j) PROVE Aside(q)
    BY <1>6, LeaveShape, AwayLabels DEF Aside
  <1>7. ASSUME NEW j \in Job, op' = Launched(op, j) PROVE Aside(q)
    <2>1. op \in [Process -> OpRec] BY DEF Typed
    <2>2. op'[j].at = "start" /\ \A i \in Process : i # j => op'[i] = op[i]
      BY <1>7, <2>1, LaunchedShape
    <2>3. QED BY <2>2, AwayLabels DEF Aside
  <1> QED BY <1>1, <1>2, <1>3, <1>4, <1>5, <1>6, <1>7 DEF Turns

\* A job the step does not touch.
LEMMA AdmSame ==
    ASSUME NEW j \in Job, AdmOk(j), Stored, reservation'[j] = reservation[j],
           j \in held' => j \in held,
           \A q \in Process : /\ Binding(q, j)' => Binding(q, j)
                              /\ Closing(q, j)' => Closing(q, j)
    PROVE  AdmOk(j)'
  BY DEF AdmOk, Stored

\* A step that leaves the reservations alone.
LEMMA QuietStep ==
    ASSUME AdmInv, Stored, reservation' = reservation, held' \subseteq held,
           \A q \in Process : Aside(q)
    PROVE  AdmInv'
  <1> SUFFICES ASSUME NEW j \in Job PROVE AdmOk(j)' BY DEF AdmInv
  <1>1. ASSUME NEW q \in Process
        PROVE  (Binding(q, j)' => Binding(q, j)) /\ (Closing(q, j)' => Closing(q, j))
    <2>1. Aside(q) OBVIOUS
    <2>2. QED BY <2>1 DEF Aside, Away, Binding, Closing
  <1>2. AdmOk(j) BY DEF AdmInv
  <1> QED BY <1>1, <1>2, AdmSame

\* A step of p that may move the reservation of one job.
LEMMA OneAdmission ==
    ASSUME Inv, AdmInv, Stored, NEW p \in Process, NEW j \in Job,
           \A i \in Job : i # j => reservation'[i] = reservation[i],
           held' \subseteq held \cup {j},
           \A q \in Process : q # p => Aside(q),
           reservation[j] = "reserved" => reservation'[j] = "reserved" \/ Binding(p, j),
           reservation'[j] = "reserved" => reservation[j] = "reserved" \/ rec[j].status = "absent",
           j \in held' => reservation'[j] # "reserved" /\ rec'[j].status # "absent",
           rec'[j].status = "absent" => reservation'[j] \in {"none", "reserved"},
           op'[p].at \in {"create", "bind"}
             => /\ op'[p].job = j /\ reservation'[j] = "reserved"
                /\ Binding(p, j) \/ reservation[j] = "none",
           op'[p].at \in {"mark", "release"} => op'[p].job = j /\ reservation'[j] # "reserved"
    PROVE  AdmInv'
  <1>1. ASSUME NEW q \in Process, q # p, NEW i \in Job
        PROVE  (Binding(q, i)' => Binding(q, i)) /\ (Closing(q, i)' => Closing(q, i))
    <2>1. Aside(q) BY <1>1
    <2>2. QED BY <2>1 DEF Aside, Away, Binding, Closing
  <1>2. ASSUME NEW i \in Job, i # j PROVE AdmOk(i)'
    <2>1. ~Binding(p, i)' /\ ~Closing(p, i)' BY <1>2 DEF Binding, Closing
    <2>2. AdmOk(i) BY DEF AdmInv
    <2>3. \A q \in Process : /\ Binding(q, i)' => Binding(q, i)
                             /\ Closing(q, i)' => Closing(q, i)
      BY <1>1, <2>1
    <2>4. reservation'[i] = reservation[i] /\ (i \in held' => i \in held) BY <1>2
    <2>5. QED BY <2>2, <2>3, <2>4, AdmSame
  <1>3. AdmOk(j) BY DEF AdmInv
  <1>4. ASSUME NEW q \in Process, q # p, Binding(q, j)'
        PROVE  reservation'[j] = "reserved" /\ ~Binding(p, j)'
    <2>1. Binding(q, j) BY <1>1, <1>4
    <2>2. reservation[j] = "reserved" /\ ~Binding(p, j) BY <1>3, <1>4, <2>1 DEF AdmOk
    <2>3. QED BY <2>2 DEF Binding
  <1>5. ASSUME NEW q \in Process, q # p, Closing(q, j)'
        PROVE  reservation'[j] # "reserved"
    <2>1. Closing(q, j) BY <1>1, <1>5
    <2>2. reservation[j] # "reserved" BY <1>3, <2>1 DEF AdmOk
    <2>3. op[q].at # "idle" /\ op[q].at \in Working /\ op[q].job = j
      BY <2>1 DEF Closing, Working
    <2>4. OpOk(q) BY DEF Inv, OpInv
    <2>5. rec[j].status \in Past BY <2>3, <2>4 DEF OpOk
    <2>6. rec[j].status # "absent" BY <2>5 DEF Past, Busy, Ending
    <2>7. QED BY <2>2, <2>6
  <1>6. Binding(p, j)' => reservation'[j] = "reserved" BY DEF Binding
  <1>7. Closing(p, j)' => reservation'[j] # "reserved" BY DEF Closing
  <1>8. AdmOk(j)'
    <2>1. \A q \in Process : Binding(q, j)' => reservation'[j] = "reserved"
      BY <1>4, <1>6
    <2>2. \A q, r \in Process : Binding(q, j)' /\ Binding(r, j)' => q = r
      <3> SUFFICES ASSUME NEW q \in Process, NEW r \in Process, q # r,
                          Binding(q, j)', Binding(r, j)'
                   PROVE  FALSE
        OBVIOUS
      <3>1. CASE q = p \/ r = p BY <1>4, <3>1
      <3>2. CASE q # p /\ r # p
        <4>1. Binding(q, j) /\ Binding(r, j) BY <1>1, <3>2
        <4>2. QED BY <1>3, <4>1 DEF AdmOk
      <3>3. QED BY <3>1, <3>2
    <2>3. \A q \in Process : Closing(q, j)' => reservation'[j] # "reserved"
      BY <1>5, <1>7
    <2>4. QED BY <2>1, <2>2, <2>3 DEF AdmOk
  <1> QED BY <1>2, <1>8 DEF AdmInv

\* What a step does to the phases the contract speaks of.
Agrees == [Contract!Next]_(Contract!admissionsVars)
Phases == [j \in Job |-> PhaseOf(j)]

\* The reservation of a job moves as the contract allows, or not at all.
Allowed(a, b) ==
    \/ b = a \/ b = "none"
    \/ a = "none" /\ b = "reserved"
    \/ a \in {"none", "reserved"} /\ b = "bound"
    \/ a = "bound" /\ b = "terminal_pending"
    \/ a \in {"bound", "terminal_pending"} /\ b = "unresolved"

\* A step that leaves the reservations and the server alone stutters.
LEMMA QuietAgrees ==
    ASSUME reservation' = reservation, up' = up PROVE Agrees
  BY DEF Agrees, Contract!admissionsVars, PhaseOf

\* One reservation that moves as it may is one step of the contract, or none.
LEMMA MoveAgrees ==
    ASSUME Typed, up, up' = up, NEW j \in Job, Allowed(reservation[j], reservation'[j]),
           \A i \in Job : i # j => reservation'[i] = reservation[i]
    PROVE  Agrees
  <1>1. PICK f : f = Phases OBVIOUS
  <1>2. PICK b : b = PhaseOf(j)' OBVIOUS
  <1>3. Phases' = [f EXCEPT ![j] = b]
    <2>1. \A i \in Job : i # j => PhaseOf(i)' = PhaseOf(i) BY DEF PhaseOf
    <2>2. QED BY <1>1, <1>2, <2>1 DEF Phases
  <1>4. f[j] = PhaseOf(j) BY <1>1 DEF Phases
  <1>5. CASE b = f[j]
    <2>1. Phases' = Phases BY <1>1, <1>3, <1>5 DEF Phases
    <2>2. QED BY <2>1 DEF Agrees, Contract!admissionsVars, Phases
  <1>6. CASE f[j] = "none" /\ b = "bound"
    <2>1. Contract!Bind(j) BY <1>1, <1>3, <1>6 DEF Contract!Bind, Phases
    <2>2. QED BY <2>1 DEF Agrees, Contract!Next
  <1>7. CASE f[j] = "bound" /\ b = "terminal_pending"
    <2>1. Contract!MarkTerminalPending(j)
      BY <1>1, <1>3, <1>7 DEF Contract!MarkTerminalPending, Phases
    <2>2. QED BY <2>1 DEF Agrees, Contract!Next
  <1>8. CASE f[j] \in {"bound", "terminal_pending"} /\ b = "unresolved"
    <2>1. Contract!MarkUnresolved(j)
      BY <1>1, <1>3, <1>8 DEF Contract!MarkUnresolved, Phases
    <2>2. QED BY <2>1 DEF Agrees, Contract!Next
  <1>9. CASE f[j] # "none" /\ b = "none"
    <2>1. Contract!Release(j) BY <1>1, <1>3, <1>9 DEF Contract!Release, Phases
    <2>2. QED BY <2>1 DEF Agrees, Contract!Next
  <1>10. \/ b = f[j]
         \/ f[j] = "none" /\ b = "bound"
         \/ f[j] = "bound" /\ b = "terminal_pending"
         \/ f[j] \in {"bound", "terminal_pending"} /\ b = "unresolved"
         \/ f[j] # "none" /\ b = "none"
    BY <1>2, <1>4 DEF Allowed, PhaseOf
  <1> QED BY <1>5, <1>6, <1>7, <1>8, <1>9, <1>10

\* The steps of the operations take no job out of the store.
LEMMA StepStored == ASSUME NEW p, Step(p) PROVE Stored
  BY DEF Step, JobStep, Stored

\* A step of p that has nothing to do with admissions.
LEMMA TurnsAdm ==
    ASSUME Inv, AdmInv, NEW p \in Process, Stored, Turns(p),
           UNCHANGED <<reservation, held, up>>
    PROVE  AdmInv' /\ Agrees
  <1>1. \A q \in Process : Aside(q) BY TurnsAside DEF Inv
  <1> QED BY <1>1, QuietStep, QuietAgrees

\* What the steps of an observation or a cancellation may keep as seen.
LEMMA SeenValues ==
    ASSUME Inv, NEW p \in Process, op[p].at # "idle"
    PROVE  /\ op[p].job \in Job /\ op[p].was \in Seen /\ work[op[p].job] \in Seen
           /\ rec[op[p].job].status \in Seen
  <1>1. op[p].job \in Job /\ op[p] \in OpRec /\ rec[op[p].job] \in JobRec BY Underway
  <1>2. work[op[p].job] \in Work BY <1>1 DEF Inv, Typed
  <1> QED BY <1>1, <1>2, IdleValues, RecValues DEF Seen

\* Dispatch, observation and the wait of a cancellation.
LEMMA ObservationAdm ==
    ASSUME Inv, AdmInv, NEW p \in Process,
           \/ Dispatch(p) \/ Undispatched(p) \/ Await(p) \/ Ask(p) \/ Asked(p)
           \/ Look(p) \/ Apply(p) \/ Deliver(p) \/ Ack(p) \/ Finish(p)
    PROVE  AdmInv' /\ Agrees
  <1>1. op[p].at # "idle"
    BY DEF Dispatch, Undispatched, Await, Ask, Asked, Look, Apply, Deliver, Ack, Finish, At
  <1>2. /\ op[p].job \in Job /\ op[p].was \in Seen /\ work[op[p].job] \in Seen
        /\ rec[op[p].job].status \in Seen
    BY <1>1, SeenValues
  <1>3. CASE Dispatch(p) \/ Undispatched(p) \/ Await(p)
    BY <1>3, AwayLabels, DispatchStep, UndispatchedStep, AwaitStep, StepStored, TurnsAdm
       DEF Dispatch, Undispatched, Await, Turns, store
  <1>4. CASE Ask(p) \/ Asked(p)
    BY <1>2, <1>4, AwayLabels, AskStep, AskedStep, StepStored, TurnsAdm
       DEF Ask, Asked, Turns, store
  <1>5. CASE Look(p)
    <2>1. \E label \in Away, s \in Seen : op' = [op EXCEPT ![p].at = label, ![p].saw = s]
      BY <1>2, <1>5, AwayLabels DEF Look
    <2>2. QED BY <1>5, <2>1, LookStep, StepStored, TurnsAdm DEF Look, Turns, store
  <1>6. CASE Apply(p) \/ Deliver(p)
    BY <1>2, <1>6, AwayLabels, ApplyStep, DeliverStep, StepStored, TurnsAdm
       DEF Apply, Deliver, Turns, store
  <1>7. CASE Ack(p)
    <2>1. \/ \E label \in Away, s \in Seen : op' = [op EXCEPT ![p].at = label, ![p].saw = s]
          \/ Leave(p, op[p].job)
      BY <1>2, <1>7, AwayLabels DEF Ack
    <2>2. QED BY <1>2, <1>7, <2>1, AckStep, StepStored, TurnsAdm DEF Ack, Turns, store
  <1>8. CASE Finish(p)
    BY <1>2, <1>8, AwayLabels, FinishStep, StepStored, TurnsAdm DEF Finish, Turns, store
  <1> QED BY <1>3, <1>4, <1>5, <1>6, <1>7, <1>8

\* An execution, up to the end of its admission.
LEMMA ExecutionAdm ==
    ASSUME Inv, AdmInv, NEW j \in Job, TakeTree(j) \/ Claim(j) \/ Record(j)
    PROVE  AdmInv' /\ Agrees
  <1>0. j \in Process BY DEF Process
  <1>1. CASE TakeTree(j)
    BY <1>0, <1>1, AwayLabels, TakeTreeStep, StepStored, TurnsAdm DEF TakeTree, Turns, store
  <1>2. CASE Claim(j)
    BY <1>0, <1>2, AwayLabels, ClaimStep, StepStored, TurnsAdm DEF Claim, Turns
  <1>3. CASE Record(j)
    <2>1. "completed" \in Seen /\ "failed" \in Seen BY DEF Seen, Work, Ending
    <2>2. Turns(j) BY <1>3, <2>1, AwayLabels DEF Record, Turns
    <2>3. QED BY <1>0, <1>3, <2>2, RecordStep, StepStored, TurnsAdm DEF Record
  <1> QED BY <1>1, <1>2, <1>3

\* Requests but for submissions, and observations that begin.
LEMMA RequestAdm ==
    ASSUME Inv, AdmInv, NEW p \in Caller \cup {Poller, Expirer}, NEW j \in Job,
           \/ p \in Caller /\ (CancelExternal(p, j) \/ Reconcile(p, j) \/ CommitEnter(p, j))
           \/ p \in Caller /\ Cancel(p, j)
           \/ p \in Caller /\ Commit(p)
           \/ p \in Caller \cup {Expirer} /\ \E d \in {"accept", "deny", "expire"} : Decide(p, j, d)
           \/ p \in Caller \cup {Poller} /\ Observe(p, j)
    PROVE  AdmInv' /\ Agrees
  <1>0. p \in Process BY DEF Process
  <1>1. CASE p \in Caller /\ (CancelExternal(p, j) \/ Reconcile(p, j) \/ CommitEnter(p, j))
    <2>1. Stored
      BY <1>1, CancelExternalStep, ReconcileStep, CommitEnterStep, StepStored
    <2>2. Turns(p)
      BY <1>1, AwayLabels, Labels DEF CancelExternal, Reconcile, CommitEnter, Turns
    <2>3. QED
      BY <1>0, <1>1, <2>1, <2>2, TurnsAdm DEF CancelExternal, Reconcile, CommitEnter, store
  <1>2. CASE p \in Caller /\ Cancel(p, j)
    <2>1. Stored
      <3>1. rec[j] \in JobRec BY DEF Inv, Typed
      <3>2. PICK r : r = Cancelled(rec[j], rec[j].approval) OBVIOUS
      <3>3. r \in JobRec /\ r.status = "cancelled"
        BY <3>1, <3>2 DEF Cancelled, JobRec, Status, Ending
      <3>4. rec' = rec \/ rec' = [rec EXCEPT ![j] = Settled(r, j)]
        BY <1>2, <3>2 DEF Cancel, Update
      <3>5. CASE rec' = rec BY <3>5 DEF Stored
      <3>6. CASE rec' = [rec EXCEPT ![j] = Settled(r, j)]
        BY <3>3, <3>6, UpdateShape DEF Stored, Inv
      <3>7. QED BY <3>4, <3>5, <3>6
    <2>2. Turns(p) BY <1>2, AwayLabels, Labels DEF Cancel, Turns
    <2>3. QED BY <1>0, <1>2, <2>1, <2>2, TurnsAdm DEF Cancel
  <1>3. CASE p \in Caller /\ Commit(p)
    <2>1. op[p].at # "idle" BY <1>3 DEF Commit, CommitLocks, At
    <2>2. op[p].job \in Job BY <1>0, <2>1, Underway
    <2>3. Turns(p) BY <1>3, <2>2, AwayLabels DEF Commit, CommitLocks, Turns
    <2>4. QED BY <1>0, <1>3, <2>3, CommitStep, StepStored, TurnsAdm DEF Commit, store
  <1>4. CASE p \in Caller \cup {Expirer}
             /\ \E d \in {"accept", "deny", "expire"} : Decide(p, j, d)
    <2>1. PICK d \in {"accept", "deny", "expire"} : Decide(p, j, d) BY <1>4
    <2>2. Stored BY <1>4, <2>1, DecideStep, StepStored
    <2>3. Turns(p)
      BY <2>1, AwayLabels, Labels DEF Decide, Accept, Approve, Refuse, Replay, Turns
    <2>4. QED BY <1>0, <2>1, <2>2, <2>3, TurnsAdm DEF Decide
  <1>5. CASE p \in Caller \cup {Poller} /\ Observe(p, j)
    <2>1. Turns(p) BY <1>5, AwayLabels, Labels DEF Observe, Turns
    <2>2. QED BY <1>0, <1>5, <2>1, ObserveStep, StepStored, TurnsAdm DEF Observe, store
  <1> QED BY <1>1, <1>2, <1>3, <1>4, <1>5

\* The work at the runner or the worker, and the deadlines of approvals.
LEMMA ElsewhereAdm ==
    ASSUME Inv, AdmInv, NEW j \in Job,
           Invoke(j) \/ RunnerEnds(j) \/ WorkerStep(j) \/ DeadlinePasses(j)
    PROVE  AdmInv' /\ Agrees
  <1>1. UNCHANGED <<up, rec, reservation, held, op>>
    BY DEF Invoke, RunnerEnds, WorkerStep, DeadlinePasses, store, memory
  <1>2. Stored /\ \A q \in Process : Aside(q) BY <1>1 DEF Stored, Aside
  <1> QED BY <1>1, <1>2, QuietStep, QuietAgrees

\* tryAcquire reserves for a job nobody submits.
LEMMA SubmitAdm ==
    ASSUME Inv, AdmInv, NEW c \in Caller, NEW j \in Job, Submit(c, j)
    PROVE  AdmInv' /\ Agrees
  <1>1. /\ up /\ rec[j] = NoJob /\ reservation[j] = "none" /\ c \in Process
        /\ reservation' = [reservation EXCEPT ![j] = "reserved"]
        /\ Begin(c, "submit", j, "create")
        /\ UNCHANGED <<up, rec, held>>
    BY DEF Submit, At, Process
  <1>2. /\ op'[c].at = "create" /\ op'[c].job = j
        /\ \A q \in Process : q # c => op'[q] = op[q]
    BY <1>1, BeginShape, Labels DEF Inv
  <1>3. /\ reservation'[j] = "reserved"
        /\ \A i \in Job : i # j => reservation'[i] = reservation[i]
    BY <1>1 DEF Inv, Typed
  <1>4. rec[j].status = "absent" /\ Stored BY <1>1, RecValues DEF Stored
  <1>5. j \notin held BY <1>4 DEF AdmInv, AdmOk
  <1>6. \A q \in Process : q # c => Aside(q) BY <1>2 DEF Aside
  <1>7. AdmInv' BY <1>1, <1>2, <1>3, <1>4, <1>5, <1>6, OneAdmission
  <1>8. Allowed(reservation[j], reservation'[j]) BY <1>1, <1>3 DEF Allowed
  <1> QED BY <1>1, <1>3, <1>7, <1>8, MoveAgrees DEF Inv

\* A reservation that is given back, or stays if that cannot be written.
LEMMA WithdrawShape ==
    ASSUME Typed, NEW j \in Job, Withdraw(j)
    PROVE  /\ reservation'[j] \in {"none", reservation[j]}
           /\ \A i \in Job : i # j => reservation'[i] = reservation[i]
  BY DEF Withdraw, Typed

\* create: the job is stored with its reservation, or the reservation given back.
LEMMA CreateAdm ==
    ASSUME Inv, AdmInv, NEW p \in Process, Create(p) PROVE AdmInv' /\ Agrees
  <1>0. PICK j : j = op[p].job OBVIOUS
  <1>1. op[p].at = "create" /\ op[p].at # "idle" /\ UNCHANGED <<up, held>>
    BY DEF Create, At
  <1>2. j \in Job /\ OpOk(p) BY <1>0, <1>1, Underway
  <1>3. up /\ reservation[j] = "reserved" BY <1>0, <1>1, <1>2 DEF OpOk
  <1>4. AdmOk(j) /\ Binding(p, j) BY <1>0, <1>1, <1>2 DEF AdmInv, Binding
  <1>5. j \notin held BY <1>3, <1>4 DEF AdmOk
  <1>6. Stored BY CreateStep, StepStored
  <1>7. CASE Goto(p, "bind") /\ UNCHANGED reservation
    <2>1. /\ op'[p].at = "bind" /\ op'[p].job = j
          /\ \A q \in Process : q # p => op'[q] = op[q]
      BY <1>0, <1>7, GotoShape, Labels DEF Inv
    <2>2. \A q \in Process : q # p => Aside(q) BY <2>1 DEF Aside
    <2>3. AdmInv'
      BY <1>1, <1>2, <1>3, <1>4, <1>5, <1>6, <1>7, <2>1, <2>2, OneAdmission
    <2>4. QED BY <1>1, <1>7, <2>3, QuietAgrees
  <1>8. CASE Withdraw(j) /\ Return(p)
    <2>1. op'[p].at = "idle" /\ \A q \in Process : q # p => op'[q] = op[q]
      BY <1>8, ReturnShape DEF Inv
    <2>2. \A q \in Process : q # p => Aside(q) BY <2>1 DEF Aside
    <2>3. /\ reservation'[j] \in {"none", "reserved"}
          /\ \A i \in Job : i # j => reservation'[i] = reservation[i]
      BY <1>2, <1>3, <1>8, WithdrawShape DEF Inv
    <2>4. AdmInv'
      BY <1>1, <1>2, <1>3, <1>4, <1>5, <1>6, <2>1, <2>2, <2>3, OneAdmission
    <2>5. Allowed(reservation[j], reservation'[j]) BY <1>3, <2>3 DEF Allowed
    <2>6. QED BY <1>1, <1>2, <1>3, <2>3, <2>4, <2>5, MoveAgrees DEF Inv
  <1> QED BY <1>0, <1>7, <1>8 DEF Create

\* bindJob, or the reservation given back.
LEMMA BindAdm ==
    ASSUME Inv, AdmInv, NEW p \in Process, Bind(p) PROVE AdmInv' /\ Agrees
  <1>0. PICK j : j = op[p].job OBVIOUS
  <1>1. op[p].at = "bind" /\ op[p].at # "idle" /\ UNCHANGED <<up, rec>>
    BY DEF Bind, At
  <1>2. j \in Job /\ OpOk(p) BY <1>0, <1>1, Underway
  <1>3. up /\ p \notin Job /\ rec[j].status # "absent"
    BY <1>0, <1>1, <1>2 DEF OpOk, Executing
  <1>4. Binding(p, j) /\ AdmOk(j) BY <1>0, <1>1, <1>2 DEF AdmInv, Binding
  <1>5. reservation[j] = "reserved" /\ j \notin held BY <1>4 DEF AdmOk
  <1>6. Stored BY <1>1 DEF Stored
  <1>7. /\ op'[p].at \in Away
        /\ \A q \in Process : q # p => Aside(q)
    <2>1. CASE Goto(p, "dispatch") \/ Return(p)
      BY <2>1, GotoShape, ReturnShape, Labels, AwayLabels DEF Aside, Inv
    <2>2. CASE op' = Launched([op EXCEPT ![p] = Idle], j)
      <3>1. PICK f : f = [op EXCEPT ![p] = Idle] OBVIOUS
      <3>2. /\ f \in [Process -> OpRec] /\ f[p] = Idle
            /\ \A q \in Process : q # p => f[q] = op[q]
        BY <3>1, IdleValues DEF Inv, Typed
      <3>3. op' = Launched(f, j) BY <2>2, <3>1
      <3>4. op'[j].at = "start" /\ \A q \in Process : q # j => op'[q] = f[q]
        BY <1>2, <3>2, <3>3, LaunchedShape
      <3>5. p # j BY <1>2, <1>3
      <3>6. QED BY <3>2, <3>4, <3>5, IdleValues, AwayLabels DEF Aside
    <2>3. QED BY <1>0, <2>1, <2>2 DEF Bind
  <1>8. op'[p].at \notin {"create", "bind", "mark", "release"} BY <1>7 DEF Away
  <1>9. CASE reservation' = [reservation EXCEPT ![j] = "bound"] /\ held' = held \cup {j}
    <2>1. /\ reservation'[j] = "bound"
          /\ \A i \in Job : i # j => reservation'[i] = reservation[i]
      BY <1>2, <1>9 DEF Inv, Typed
    <2>2. AdmInv'
      BY <1>1, <1>2, <1>3, <1>4, <1>6, <1>7, <1>8, <1>9, <2>1, OneAdmission
    <2>3. Allowed(reservation[j], reservation'[j]) BY <1>5, <2>1 DEF Allowed
    <2>4. QED BY <1>1, <1>2, <1>3, <2>1, <2>2, <2>3, MoveAgrees DEF Inv
  <1>10. CASE Withdraw(j) /\ held' = held
    <2>1. /\ reservation'[j] \in {"none", "reserved"}
          /\ \A i \in Job : i # j => reservation'[i] = reservation[i]
      BY <1>2, <1>5, <1>10, WithdrawShape DEF Inv
    <2>2. AdmInv'
      BY <1>1, <1>2, <1>4, <1>5, <1>6, <1>7, <1>8, <1>10, <2>1, OneAdmission
    <2>3. Allowed(reservation[j], reservation'[j]) BY <1>5, <2>1 DEF Allowed
    <2>4. QED BY <1>1, <1>2, <1>3, <2>1, <2>2, <2>3, MoveAgrees DEF Inv
  <1> QED BY <1>0, <1>9, <1>10 DEF Bind

\* The admission of a job that is over moves, and whoever ends it stays off the
\* submissions.
LEMMA EndingAdm ==
    ASSUME Inv, AdmInv, NEW p \in Process, NEW j \in Job, Stored, up, up' = up,
           rec[j].status \in Past, held' \subseteq held,
           \A i \in Job : i # j => reservation'[i] = reservation[i],
           Allowed(reservation[j], reservation'[j]),
           reservation[j] = "reserved" <=> reservation'[j] = "reserved",
           \A q \in Process : q # p => op'[q] = op[q],
           op'[p].at \notin {"create", "bind"},
           op'[p].at \in {"mark", "release"}
             => op'[p].job = j /\ reservation[j] # "reserved"
    PROVE  AdmInv' /\ Agrees
  <1>1. rec[j].status # "absent" /\ rec'[j].status # "absent"
    BY DEF Past, Busy, Ending, Stored
  <1>2. \A q \in Process : q # p => Aside(q) BY DEF Aside
  <1>3. j \in held' => reservation'[j] # "reserved" BY DEF AdmInv, AdmOk
  <1>4. AdmInv' BY <1>1, <1>2, <1>3, OneAdmission
  <1> QED BY <1>4, MoveAgrees DEF Inv

\* finalizeAdmission, from its first look at the resources held here to the mark.
LEMMA EndAdm ==
    ASSUME Inv, AdmInv, NEW p \in Process, End(p) PROVE AdmInv' /\ Agrees
  <1>0. PICK j : j = op[p].job OBVIOUS
  <1>1. /\ up /\ op[p].at = "end" /\ op[p].at # "idle" /\ UNCHANGED <<up, held>>
    BY DEF End, At
  <1>2. j \in Job /\ OpOk(p) BY <1>0, <1>1, Underway
  <1>3. rec[j].status \in Past BY <1>0, <1>1, <1>2 DEF OpOk, Working
  <1>4. Stored BY EndStep, StepStored
  <1>5. CASE j \in held /\ Goto(p, "mark") /\ UNCHANGED reservation
    <2>1. op'[p].at = "mark" /\ op'[p].job = j /\ \A q \in Process : q # p => op'[q] = op[q]
      BY <1>0, <1>5, GotoShape, Labels DEF Inv
    <2>2. reservation[j] # "reserved" BY <1>2, <1>5 DEF AdmInv, AdmOk
    <2>3. QED BY <1>1, <1>2, <1>3, <1>4, <1>5, <2>1, <2>2, EndingAdm DEF Allowed
  <1>6. CASE ReleaseJob(j) /\ Leave(p, j)
    <2>1. op'[p].at = "idle" /\ \A q \in Process : q # p => op'[q] = op[q]
      BY <1>2, <1>6, LeaveShape DEF Inv
    <2>2. /\ reservation'[j] = IF Bound(j) THEN "none" ELSE reservation[j]
          /\ \A i \in Job : i # j => reservation'[i] = reservation[i]
      BY <1>2, <1>6 DEF ReleaseJob, Inv, Typed
    <2>3. /\ Allowed(reservation[j], reservation'[j])
          /\ reservation[j] = "reserved" <=> reservation'[j] = "reserved"
      BY <2>2 DEF Allowed, Bound
    <2>4. QED BY <1>1, <1>2, <1>3, <1>4, <2>1, <2>2, <2>3, EndingAdm
  <1>7. CASE Goto(p, "error") /\ UNCHANGED reservation
    <2>1. op'[p].at = "error" /\ \A q \in Process : q # p => op'[q] = op[q]
      BY <1>7, GotoShape, Labels DEF Inv
    <2>2. QED BY <1>1, <1>2, <1>3, <1>4, <1>7, <2>1, EndingAdm DEF Allowed
  <1> QED BY <1>0, <1>5, <1>6, <1>7 DEF End, Done

\* markTerminalPending is called for a reservation that is bound.
LEMMA MarkAdm ==
    ASSUME Inv, AdmInv, NEW p \in Process, Mark(p) PROVE AdmInv' /\ Agrees
  <1>0. PICK j : j = op[p].job OBVIOUS
  <1>1. /\ up /\ op[p].at = "mark" /\ op[p].at # "idle" /\ UNCHANGED <<up, held>>
    BY DEF Mark, At
  <1>2. j \in Job /\ OpOk(p) BY <1>0, <1>1, Underway
  <1>3. rec[j].status \in Past BY <1>0, <1>1, <1>2 DEF OpOk, Working
  <1>4. Stored BY MarkStep, StepStored
  <1>5. reservation[j] # "reserved" BY <1>0, <1>1, <1>2 DEF AdmInv, AdmOk, Closing
  <1>6. CASE /\ reservation[j] # "none" /\ Goto(p, "release")
             /\ reservation' = [reservation EXCEPT
                  ![j] = IF @ = "unresolved" THEN @ ELSE "terminal_pending"]
    <2>1. op'[p].at = "release" /\ op'[p].job = j /\ \A q \in Process : q # p => op'[q] = op[q]
      BY <1>0, <1>6, GotoShape, Labels DEF Inv
    <2>2. /\ reservation'[j] = IF reservation[j] = "unresolved" THEN "unresolved"
                               ELSE "terminal_pending"
          /\ \A i \in Job : i # j => reservation'[i] = reservation[i]
      BY <1>2, <1>6 DEF Inv, Typed
    <2>3. reservation[j] \in {"bound", "terminal_pending", "unresolved"}
      BY <1>2, <1>5, <1>6 DEF Inv, Typed, Phase
    <2>4. /\ Allowed(reservation[j], reservation'[j])
          /\ reservation[j] = "reserved" <=> reservation'[j] = "reserved"
      BY <2>2, <2>3 DEF Allowed
    <2>5. QED BY <1>1, <1>2, <1>3, <1>4, <1>5, <2>1, <2>2, <2>4, EndingAdm
  <1>7. CASE Goto(p, "error") /\ UNCHANGED reservation
    <2>1. op'[p].at = "error" /\ \A q \in Process : q # p => op'[q] = op[q]
      BY <1>7, GotoShape, Labels DEF Inv
    <2>2. QED BY <1>1, <1>2, <1>3, <1>4, <1>7, <2>1, EndingAdm DEF Allowed
  <1> QED BY <1>0, <1>6, <1>7 DEF Mark

\* release frees it.
LEMMA ReleaseAdm ==
    ASSUME Inv, AdmInv, NEW p \in Process, Release(p) PROVE AdmInv' /\ Agrees
  <1>0. PICK j : j = op[p].job OBVIOUS
  <1>1. up /\ op[p].at = "release" /\ op[p].at # "idle" /\ UNCHANGED up
    BY DEF Release, At
  <1>2. j \in Job /\ OpOk(p) BY <1>0, <1>1, Underway
  <1>3. rec[j].status \in Past BY <1>0, <1>1, <1>2 DEF OpOk, Working
  <1>4. Stored BY ReleaseStep, StepStored
  <1>5. reservation[j] # "reserved" BY <1>0, <1>1, <1>2 DEF AdmInv, AdmOk, Closing
  <1>6. CASE /\ reservation' = [reservation EXCEPT ![j] = "none"]
             /\ held' = held \ {j} /\ Leave(p, j)
    <2>1. op'[p].at = "idle" /\ \A q \in Process : q # p => op'[q] = op[q]
      BY <1>2, <1>6, LeaveShape DEF Inv
    <2>2. /\ reservation'[j] = "none"
          /\ \A i \in Job : i # j => reservation'[i] = reservation[i]
      BY <1>2, <1>6 DEF Inv, Typed
    <2>3. /\ Allowed(reservation[j], reservation'[j])
          /\ reservation[j] = "reserved" <=> reservation'[j] = "reserved"
      BY <1>5, <2>2 DEF Allowed
    <2>4. QED BY <1>1, <1>2, <1>3, <1>4, <1>6, <2>1, <2>2, <2>3, EndingAdm
  <1>7. CASE Goto(p, "error") /\ UNCHANGED <<reservation, held>>
    <2>1. op'[p].at = "error" /\ \A q \in Process : q # p => op'[q] = op[q]
      BY <1>7, GotoShape, Labels DEF Inv
    <2>2. QED BY <1>1, <1>2, <1>3, <1>4, <1>7, <2>1, EndingAdm DEF Allowed
  <1> QED BY <1>0, <1>6, <1>7 DEF Release, Done

\* What markUnresolved does to the reservation of the job.
LEMMA UnresolveMoves ==
    ASSUME Typed, NEW j \in Job, Unresolve(j)
    PROVE  /\ Allowed(reservation[j], reservation'[j])
           /\ reservation[j] = "reserved" <=> reservation'[j] = "reserved"
           /\ \A i \in Job : i # j => reservation'[i] = reservation[i]
  <1>1. reservation[j] \in Phase BY DEF Typed
  <1>2. CASE reservation' = reservation BY <1>2 DEF Allowed
  <1>3. CASE reservation' = [reservation EXCEPT ![j] = IF Bound(j) THEN "unresolved" ELSE @]
    <2>1. /\ reservation'[j] = IF Bound(j) THEN "unresolved" ELSE reservation[j]
          /\ \A i \in Job : i # j => reservation'[i] = reservation[i]
      BY <1>3 DEF Typed
    <2>2. QED BY <1>1, <2>1 DEF Allowed, Bound, Phase
  <1> QED BY <1>2, <1>3 DEF Unresolve

\* A failed end marks what is bound.
LEMMA ErrorAdm ==
    ASSUME Inv, AdmInv, NEW p \in Process, Error(p) PROVE AdmInv' /\ Agrees
  <1>0. PICK j : j = op[p].job OBVIOUS
  <1>1. /\ up /\ op[p].at = "error" /\ op[p].at # "idle" /\ UNCHANGED <<up, held>>
        /\ Unresolve(j) /\ (Goto(p, "unrecorded") \/ Leave(p, j))
    BY <1>0 DEF Error, At
  <1>2. j \in Job /\ OpOk(p) BY <1>0, <1>1, Underway
  <1>3. rec[j].status \in Past BY <1>0, <1>1, <1>2 DEF OpOk, Working
  <1>4. Stored BY ErrorStep, StepStored
  <1>5. op'[p].at \in {"unrecorded", "idle"} /\ \A q \in Process : q # p => op'[q] = op[q]
    BY <1>1, <1>2, GotoShape, LeaveShape, Labels DEF Inv
  <1>6. /\ Allowed(reservation[j], reservation'[j])
        /\ reservation[j] = "reserved" <=> reservation'[j] = "reserved"
        /\ \A i \in Job : i # j => reservation'[i] = reservation[i]
    BY <1>1, <1>2, UnresolveMoves DEF Inv
  <1> QED BY <1>1, <1>2, <1>3, <1>4, <1>5, <1>6, EndingAdm

\* So does an execution whose result could not be stored.
LEMMA UnrecordedAdm ==
    ASSUME Inv, AdmInv, NEW j \in Job, Unrecorded(j) PROVE AdmInv' /\ Agrees
  <1>1. /\ j \in Process /\ up /\ op[j].at = "unrecorded" /\ op[j].at # "idle"
        /\ UNCHANGED <<up, held>> /\ Unresolve(j) /\ Leave(j, j)
    BY DEF Unrecorded, At, Process
  <1>2. OpOk(j) /\ op[j].job = j BY <1>1, Underway DEF OpOk
  <1>3. rec[j].status \in Past BY <1>1, <1>2 DEF OpOk, Working
  <1>4. Stored BY UnrecordedStep, StepStored
  <1>5. op'[j].at = "idle" /\ \A q \in Process : q # j => op'[q] = op[q]
    BY <1>1, LeaveShape DEF Inv
  <1>6. /\ Allowed(reservation[j], reservation'[j])
        /\ reservation[j] = "reserved" <=> reservation'[j] = "reserved"
        /\ \A i \in Job : i # j => reservation'[i] = reservation[i]
    BY <1>1, UnresolveMoves DEF Inv
  <1> QED BY <1>1, <1>3, <1>4, <1>5, <1>6, EndingAdm

\* A crash changes no reservation.
LEMMA CrashAdm == ASSUME Inv, AdmInv, Crash PROVE AdmInv' /\ Agrees
  <1>1. /\ up /\ up' = FALSE /\ held' = {} /\ UNCHANGED <<rec, reservation>>
        /\ op' = [p \in Process |-> Idle]
    BY DEF Crash, store
  <1>2. Stored /\ \A q \in Process : Aside(q)
    BY <1>1, IdleValues, AwayLabels DEF Stored, Aside
  <1>3. Contract!Crash BY <1>1 DEF Contract!Crash, PhaseOf
  <1>4. Agrees BY <1>3 DEF Agrees, Contract!Next
  <1> QED BY <1>1, <1>2, <1>4, QuietStep

\* reconstructAdmissionFromStore binds the active jobs and frees nothing.
LEMMA InitializeAdm == ASSUME Inv, AdmInv, Initialize PROVE AdmInv' /\ Agrees
  <1>1. /\ ~up /\ up' = TRUE
        /\ reservation' = [j \in Job |-> Reconstructed(j)]
        /\ rec' = [j \in Job |->
             IF /\ Recovered(j).status \in {"completed", "cancelled"}
                /\ Reconstructed(j) \in {"unresolved", "terminal_pending"}
             THEN [Recovered(j) EXCEPT !.marked = TRUE] ELSE Recovered(j)]
        /\ UNCHANGED <<op, held>>
    BY DEF Initialize, memory
  <1>2. ASSUME NEW q \in Process PROVE op'[q].at = "idle"
    BY <1>1 DEF Inv, OpInv, OpOk
  <1>3. ASSUME NEW j \in Job
        PROVE  /\ rec[j].status = "absent" <=> rec'[j].status = "absent"
               /\ rec[j].status = "absent" <=> Recovered(j).status = "absent"
               /\ Recovered(j).status \in Status
    <2>1. /\ Recovered(j) \in JobRec
          /\ \/ Recovered(j) = rec[j]
             \/ rec[j].status \in Busy /\ Recovered(j).status = "failed"
      BY RecoveredValues
    <2>2. rec'[j] = [Recovered(j) EXCEPT !.marked = TRUE] \/ rec'[j] = Recovered(j)
      BY <1>1
    <2>3. rec'[j].status = Recovered(j).status
      <3>1. PICK r \in JobRec : r = Recovered(j) BY <2>1
      <3>2. [r EXCEPT !.marked = TRUE].status = r.status BY <3>1, MarkValues
      <3>3. QED BY <2>2, <3>1, <3>2
    <2>4. QED BY <2>1, <2>3, RecValues DEF Busy
  <1>4. ASSUME NEW j \in Job
        PROVE  /\ reservation'[j] = IF Recovered(j).status \in Active THEN "bound"
                                    ELSE IF reservation[j] = "bound" THEN "unresolved"
                                    ELSE reservation[j]
               /\ PhaseOf(j)' = IF Recovered(j).status \in Active THEN "bound"
                                ELSE IF PhaseOf(j) = "bound" THEN "unresolved"
                                ELSE PhaseOf(j)
    <2>1. AdmOk(j) BY DEF AdmInv
    <2>2. reservation'[j] = Reconstructed(j) BY <1>1
    <2>3. Recovered(j).status \in Active \/ Recovered(j).status \in Ending
            \/ Recovered(j).status = "absent"
      BY <1>3 DEF Status
    <2>4. Recovered(j).status = "absent" => reservation[j] \in {"none", "reserved"}
      BY <1>3, <2>1 DEF AdmOk
    <2>5. reservation'[j] = IF Recovered(j).status \in Active THEN "bound"
                            ELSE IF reservation[j] = "bound" THEN "unresolved"
                            ELSE reservation[j]
      <3>1. CASE Recovered(j).status \in Active BY <2>2, <3>1, ReconstructedValues
      <3>2. CASE Recovered(j).status \notin Active /\ reservation[j] = "bound"
        <4>1. Recovered(j).status \in Ending BY <2>3, <2>4, <3>2
        <4>2. QED BY <2>2, <3>2, <4>1 DEF Reconstructed
      <3>3. CASE Recovered(j).status \notin Active /\ reservation[j] # "bound"
        BY <2>2, <3>3 DEF Reconstructed
      <3>4. QED BY <3>1, <3>2, <3>3
    <2>6. QED BY <2>5 DEF PhaseOf
  <1>5. AdmInv'
    <2> SUFFICES ASSUME NEW j \in Job PROVE AdmOk(j)' BY DEF AdmInv
    <2>1. AdmOk(j) BY DEF AdmInv
    <2>2. \A q \in Process : ~Binding(q, j)' /\ ~Closing(q, j)'
      BY <1>2 DEF Binding, Closing
    <2>3. j \in held' => reservation'[j] # "reserved" /\ rec'[j].status # "absent"
      BY <1>1, <1>3, <1>4, <2>1 DEF AdmOk
    <2>4. rec'[j].status = "absent" => reservation'[j] \in {"none", "reserved"}
      BY <1>3, <1>4, <2>1 DEF AdmOk, Active
    <2>5. QED BY <2>2, <2>3, <2>4 DEF AdmOk
  <1>6. PICK active \in SUBSET Job : active = {j \in Job : Recovered(j).status \in Active}
    OBVIOUS
  <1>7. Contract!Reconstruct(active)
    <2>1. PICK f : f = Phases OBVIOUS
    <2>2. Phases' = [j \in Job |-> IF j \in active THEN "bound"
                                   ELSE IF f[j] = "bound" THEN "unresolved" ELSE f[j]]
      BY <1>4, <1>6, <2>1 DEF Phases
    <2>3. QED BY <1>1, <2>1, <2>2 DEF Contract!Reconstruct, Phases
  <1>8. Agrees BY <1>7 DEF Agrees, Contract!Next
  <1> QED BY <1>5, <1>8

\* Every step of the service is a step of the contract, or none.
LEMMA NextAdm ==
    ASSUME Inv, AdmInv, [Next]_vars PROVE AdmInv' /\ Agrees
  <1>1. ASSUME NEW p \in Process, Continue(p) PROVE AdmInv' /\ Agrees
    BY <1>1, CreateAdm, BindAdm, ObservationAdm, EndAdm, MarkAdm, ReleaseAdm, ErrorAdm
       DEF Continue
  <1>2. ASSUME NEW c \in Caller, Commit(c) PROVE AdmInv' /\ Agrees
    <2>1. c \in Process /\ op[c].at # "idle" BY <1>2 DEF Commit, CommitLocks, At, Process
    <2>2. op[c].job \in Job BY <2>1, Underway
    <2>3. QED BY <1>2, <2>2, RequestAdm
  <1>3. ASSUME NEW c \in Caller, NEW j \in Job, Request(c, j) PROVE AdmInv' /\ Agrees
    BY <1>3, SubmitAdm, RequestAdm DEF Request
  <1>4. ASSUME NEW j \in Job, Execute(j) PROVE AdmInv' /\ Agrees
    BY <1>4, ExecutionAdm, UnrecordedAdm DEF Execute
  <1>5. ASSUME NEW j \in Job,
               \/ Invoke(j) \/ RunnerEnds(j) \/ WorkerStep(j) \/ DeadlinePasses(j)
               \/ Decide(Expirer, j, "expire")
               \/ \E p \in Caller \cup {Poller} : Observe(p, j)
        PROVE  AdmInv' /\ Agrees
    BY <1>5, ElsewhereAdm, RequestAdm
  <1>6. CASE UNCHANGED vars
    <2>1. UNCHANGED <<up, rec, reservation, held, op>> BY <1>6 DEF vars, store, memory
    <2>2. Stored /\ \A q \in Process : Aside(q) BY <2>1 DEF Stored, Aside
    <2>3. QED BY <2>1, <2>2, QuietStep, QuietAgrees
  <1> QED BY <1>1, <1>2, <1>3, <1>4, <1>5, <1>6, CrashAdm, InitializeAdm DEF Next

\* The service starts without jobs and reservations.
LEMMA InitAdm == ASSUME Init PROVE AdmInv /\ Contract!Init
  <1>1. /\ up = TRUE /\ held = {} /\ reservation = [j \in Job |-> "none"]
        /\ op = [p \in Process |-> Idle]
    BY DEF Init
  <1>2. AdmInv BY <1>1, IdleValues DEF AdmInv, AdmOk, Binding, Closing
  <1>3. Contract!Init BY <1>1 DEF Contract!Init, PhaseOf
  <1> QED BY <1>2, <1>3

\* Submissions, repeated and concurrent endings, failed calls, crashes and
\* restarts included, the service treats the admission of every job as the
\* controller promises to keep it: it binds once, marks only what is bound, and
\* a restart binds the active jobs again and frees nothing.
THEOREM AdmissionsHonoured == Spec => ImplementsAdmissions
  <1>1. Spec => []Inv BY InvHolds
  <1>2. Init => AdmInv /\ Contract!Init BY InitAdm
  <1>3. Inv /\ AdmInv /\ [Next]_vars => AdmInv' /\ Agrees BY NextAdm
  <1>4. Agrees => [Contract!Next]_(Contract!admissionsVars) BY DEF Agrees
  <1> QED
    BY <1>1, <1>2, <1>3, <1>4, PTL DEF Spec, ImplementsAdmissions, Contract!Spec
=============================================================================
