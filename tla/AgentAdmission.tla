--------------------------- MODULE AgentAdmission ---------------------------
(***************************************************************************)
(* The admission controller of the agent service                           *)
(* (src/server/agent-admission-controller.ts): a reservation per admitted  *)
(* agent job, three nested limits, and a journal file that outlives the    *)
(* process.                                                                *)
(*                                                                         *)
(* Every mutation goes through one promise chain: the operation changes    *)
(* the maps in place, the journal is then written, and a failed write (or  *)
(* an operation that throws) restores the maps.  A request is therefore    *)
(* three steps here: Call appends it to the chain, Run applies the head to *)
(* the maps, and WriteOk or WriteFail settles it; other callers read the   *)
(* maps in between.  Crash may fall anywhere; Load reads the journal back. *)
(***************************************************************************)
EXTENDS Integers, Sequences, FiniteSets

CONSTANTS
    Requester, Tenant,   \* who submits, and the tenants they belong to
    Job, Uuid,           \* job ids, and the draws of crypto.randomUUID()
    TenantOf, OwnerOf,   \* the tenant of a requester, the requester of a job
    GlobalLimit, PerTenantLimit, PerRequesterLimit,
    None,                \* the absent value
    MaxChain             \* bound: requests outstanding at once

ASSUME LimitsNested ==
    /\ {GlobalLimit, PerTenantLimit, PerRequesterLimit} \subseteq Nat \ {0}
    /\ PerRequesterLimit <= PerTenantLimit
    /\ PerTenantLimit <= GlobalLimit

ASSUME DirectoryTyped ==
    /\ TenantOf \in [Requester -> Tenant]
    /\ OwnerOf \in [Job -> Requester]
    /\ None \notin Requester \cup Job
    /\ IsFiniteSet(Uuid) /\ IsFiniteSet(Job)
    /\ MaxChain \in Nat \ {0}

Fresh(u) == <<"admission", u>>
Recovered(j) == <<"recovered", j>>
FreshToken == {Fresh(u) : u \in Uuid}
Token == FreshToken \cup {Recovered(j) : j \in Job}
NoToken == <<"none", None>>

Phase == {"reserved", "bound", "terminal_pending", "unresolved"}
Reservation == [phase: Phase \cup {"absent"},
                requester: Requester \cup {None},
                job: Job \cup {None}]
Absent == [phase |-> "absent", requester |-> None, job |-> None]

Op == {"acquire", "bind", "terminalPending", "unresolved", "release",
       "reconstruct", "close"}
Request == [op: Op, token: Token \cup {NoToken},
            requester: Requester \cup {None}, job: Job \cup {None},
            active: SUBSET Job]
Bare(op) == [op |-> op, token |-> NoToken, requester |-> None,
             job |-> None, active |-> {}]

VARIABLES
    reservations,  \* token -> reservation, Absent when the map has no such key
    jobTokens,     \* job -> token of the reservation bound to it
    closing,       \* set by close(), refuses every later acquire
    journal,       \* the file: the reservations and the closing flag
    chain,         \* journalChain: requests whose turn has not ended
    writing,       \* the head of the chain awaits its journal write
    saved,         \* the maps as they were before that operation
    grant,         \* the token that operation hands out
    leases,        \* tokens held by callers as AgentAdmissionLease objects
    drawnFor,      \* uuid -> the requester it was drawn for (uuids are fresh)
    up             \* the process runs and its journal is loaded

memory == <<reservations, jobTokens, closing>>
vars == <<reservations, jobTokens, closing, journal, chain, writing, saved,
          grant, leases, drawnFor, up>>

Maps == [reservations: [Token -> Reservation],
         jobTokens: [Job -> Token \cup {NoToken}],
         closing: BOOLEAN]
NoReservations == [t \in Token |-> Absent]
NoJobTokens == [j \in Job |-> NoToken]
NothingSaved == [reservations |-> NoReservations, jobTokens |-> NoJobTokens,
                 closing |-> FALSE]

(***************************************************************************)
(* What the operations do to the maps.                                     *)
(***************************************************************************)
Live(t) == reservations[t].phase # "absent"
OccupiedBy(q) == {t \in Token : reservations[t].requester = q}
OccupiedIn(n) == {t \in Token : \E q \in Requester :
                      TenantOf[q] = n /\ reservations[t].requester = q}
Occupied == {t \in Token : Live(t)}

\* Mutated Admits: the count of the requester is compared with <=.
AdmitsOneMore(q) ==
    /\ ~closing
    /\ Cardinality(OccupiedBy(q)) <= PerRequesterLimit
    /\ Cardinality(OccupiedIn(TenantOf[q])) < PerTenantLimit
    /\ Cardinality(Occupied) < GlobalLimit

\* The checks of tryAcquire.
Admits(q) ==
    /\ ~closing
    /\ Cardinality(OccupiedBy(q)) < PerRequesterLimit
    /\ Cardinality(OccupiedIn(TenantOf[q])) < PerTenantLimit
    /\ Cardinality(Occupied) < GlobalLimit

TryAcquire(q) ==
    \/ /\ Admits(q)
       /\ \E u \in {v \in Uuid : drawnFor[v] = None} :
            /\ reservations' = [reservations EXCEPT ![Fresh(u)] =
                    [phase |-> "reserved", requester |-> q, job |-> None]]
            /\ drawnFor' = [drawnFor EXCEPT ![u] = q]
            /\ grant' = Fresh(u)
       /\ UNCHANGED <<jobTokens, closing>>
    \/ /\ ~Admits(q)
       /\ grant' = NoToken
       /\ UNCHANGED <<memory, drawnFor>>

BindFails(t, j) ==
    \/ ~Live(t)
    \/ /\ reservations[t].job # j
       /\ reservations[t].job # None \/ jobTokens[j] # NoToken

BindJob(t, j) ==
    /\ ~BindFails(t, j)
    /\ IF reservations[t].job = j
       THEN UNCHANGED <<reservations, jobTokens>>
       ELSE /\ reservations' = [reservations EXCEPT ![t].job = j,
                                                    ![t].phase = "bound"]
            /\ jobTokens' = [jobTokens EXCEPT ![j] = t]
    /\ UNCHANGED closing

\* Mutated MarkTerminalPending: no early return for an unresolved reservation.
MarkTerminalPendingAnyway(t) ==
    /\ Live(t)
    /\ reservations' = [reservations EXCEPT ![t].phase = "terminal_pending"]
    /\ UNCHANGED <<jobTokens, closing>>

MarkTerminalPending(t) ==
    /\ Live(t)
    /\ reservations' =
         IF reservations[t].phase = "unresolved" THEN reservations
         ELSE [reservations EXCEPT ![t].phase = "terminal_pending"]
    /\ UNCHANGED <<jobTokens, closing>>

MarkUnresolved(t) ==
    /\ Live(t)
    /\ reservations' = [reservations EXCEPT ![t].phase = "unresolved"]
    /\ UNCHANGED <<jobTokens, closing>>

\* Mutated ReleaseToken: the job index keeps the released token.
ReleaseTokenLeavesIndex(t) ==
    /\ reservations' = [reservations EXCEPT ![t] = Absent]
    /\ UNCHANGED <<jobTokens, closing>>

\* A token that is gone is released already: the call returns quietly.
ReleaseToken(t) ==
    /\ reservations' = [reservations EXCEPT ![t] = Absent]
    /\ jobTokens' = [j \in Job |->
         IF Live(t) /\ reservations[t].job = j /\ jobTokens[j] = t
         THEN NoToken ELSE jobTokens[j]]
    /\ UNCHANGED closing

\* Mutated Reconstruct: reservations of jobs that are not active are freed.
ReconstructFrees(active) ==
    LET indexed == {j \in active : jobTokens[j] # NoToken /\ Live(jobTokens[j])}
        kept(t) == \E j \in indexed : jobTokens[j] = t
        added(t) == {j \in active \ indexed : Recovered(j) = t}
        freed(t) == reservations[t].job # None /\ ~kept(t)
    IN /\ reservations' = [t \in Token |->
            IF added(t) # {}
            THEN LET j == CHOOSE k \in added(t) : TRUE
                 IN [phase |-> "bound", requester |-> OwnerOf[j], job |-> j]
            ELSE IF kept(t) THEN [reservations[t] EXCEPT !.phase = "bound"]
            ELSE IF freed(t) THEN Absent ELSE reservations[t]]
       /\ jobTokens' = [j \in Job |->
            IF j \in indexed THEN jobTokens[j]
            ELSE IF j \in active THEN Recovered(j) ELSE NoToken]
       /\ UNCHANGED closing

\* The jobs the store says are active get their reservation back, or a
\* recovered one; a bound reservation of any other job needs an operator.
Reconstruct(active) ==
    LET indexed == {j \in active : jobTokens[j] # NoToken /\ Live(jobTokens[j])}
        stale(t) == /\ reservations[t].phase = "bound"
                    /\ reservations[t].job \notin active \cup {None}
        bound(j) == [phase |-> "bound", requester |-> OwnerOf[j], job |-> j]
        kept(t) == {j \in indexed : jobTokens[j] = t}
        added(t) == {j \in active \ indexed : Recovered(j) = t}
    IN /\ reservations' = [t \in Token |->
            IF added(t) # {} THEN bound(CHOOSE j \in added(t) : TRUE)
            ELSE IF kept(t) # {}
            THEN [reservations[t] EXCEPT !.phase = "bound",
                     !.requester = OwnerOf[CHOOSE j \in kept(t) : TRUE]]
            ELSE IF stale(t) THEN [reservations[t] EXCEPT !.phase = "unresolved"]
            ELSE reservations[t]]
       /\ jobTokens' = [j \in Job |->
            IF j \in active \ indexed THEN Recovered(j) ELSE jobTokens[j]]
       /\ UNCHANGED closing

Close == closing' = TRUE /\ UNCHANGED <<reservations, jobTokens>>

(***************************************************************************)
(* The operation throws, so nothing is written and the maps stay as they   *)
(* were.                                                                   *)
(***************************************************************************)
Throws(r) ==
    \/ r.op = "bind" /\ BindFails(r.token, r.job)
    \/ r.op \in {"terminalPending", "unresolved"} /\ ~Live(r.token)

Apply(r) ==
    \/ r.op = "acquire" /\ TryAcquire(r.requester)
    \/ /\ \/ r.op = "bind" /\ BindJob(r.token, r.job)
          \/ r.op = "terminalPending" /\ MarkTerminalPending(r.token)
          \/ r.op = "unresolved" /\ MarkUnresolved(r.token)
          \/ r.op = "release" /\ ReleaseToken(r.token)
          \/ r.op = "reconstruct" /\ Reconstruct(r.active)
          \/ r.op = "close" /\ Close
       /\ grant' = NoToken
       /\ UNCHANGED drawnFor

(***************************************************************************)
(* The chain.                                                              *)
(***************************************************************************)
Init ==
    /\ reservations = NoReservations
    /\ jobTokens = NoJobTokens
    /\ closing = FALSE
    /\ journal = [entries |-> NoReservations, closing |-> FALSE]
    /\ chain = <<>>
    /\ writing = FALSE
    /\ saved = NothingSaved
    /\ grant = NoToken
    /\ leases = {}
    /\ drawnFor = [u \in Uuid |-> None]
    /\ up = TRUE

Enqueue(r) ==
    /\ up
    /\ Len(chain) < MaxChain
    /\ chain' = Append(chain, r)
    /\ UNCHANGED <<memory, journal, writing, saved, grant, leases, drawnFor, up>>

\* Bound: no more acquires are called than there are uuids left to draw.
UuidsLeft ==
    Cardinality({u \in Uuid : drawnFor[u] = None})
        > Cardinality({i \in DOMAIN chain : chain[i].op = "acquire"})

CallAcquire(q) ==
    /\ UuidsLeft
    /\ Enqueue([Bare("acquire") EXCEPT !.requester = q])

\* Through the lease object: the caller binds the job it has just created for
\* the requester it acquired for.
CallBind(u, j) ==
    /\ Fresh(u) \in leases
    /\ OwnerOf[j] = drawnFor[u]
    /\ Enqueue([Bare("bind") EXCEPT !.token = Fresh(u), !.job = j])

CallByLease(op, t) ==
    /\ t \in leases
    /\ Enqueue([Bare(op) EXCEPT !.token = t])

\* By job id: the token is looked up now, outside the chain, so it may have
\* been released by the time the request has its turn.
CallByJob(op, j) ==
    /\ jobTokens[j] # NoToken
    /\ Enqueue([Bare(op) EXCEPT !.token = jobTokens[j]])

CallClose == ~closing /\ Enqueue(Bare("close"))

\* Mutated Run: an operation that throws stays at the head of the chain.
RunKeepsThrower ==
    /\ up /\ ~writing /\ chain # <<>> /\ ~Throws(Head(chain))
    /\ saved' = [reservations |-> reservations, jobTokens |-> jobTokens,
                 closing |-> closing]
    /\ Apply(Head(chain))
    /\ writing' = TRUE
    /\ UNCHANGED <<chain, journal, leases, up>>

Run ==
    /\ up /\ ~writing /\ chain # <<>>
    /\ IF Throws(Head(chain))
       THEN /\ chain' = Tail(chain)
            /\ UNCHANGED <<memory, writing, saved, grant, drawnFor>>
       ELSE /\ saved' = [reservations |-> reservations,
                         jobTokens |-> jobTokens, closing |-> closing]
            /\ Apply(Head(chain))
            /\ writing' = TRUE
            /\ UNCHANGED chain
    /\ UNCHANGED <<journal, leases, up>>

Settle ==
    /\ up /\ writing
    /\ chain' = Tail(chain)
    /\ writing' = FALSE
    /\ saved' = NothingSaved
    /\ grant' = NoToken

\* Mutated WriteOk: a refused acquire gets a lease object as well.
WriteOkGrantsAlways ==
    /\ Settle
    /\ journal' = [entries |-> reservations, closing |-> closing]
    /\ leases' = leases \cup {grant}
    /\ UNCHANGED <<memory, drawnFor, up>>

WriteOk ==
    /\ Settle
    /\ journal' = [entries |-> reservations, closing |-> closing]
    /\ leases' = IF grant # NoToken THEN leases \cup {grant} ELSE leases
    /\ UNCHANGED <<memory, drawnFor, up>>

\* Mutated WriteFail: the maps are not restored.
WriteFailKeepsMaps ==
    /\ Settle
    /\ UNCHANGED <<memory, journal, leases, drawnFor, up>>

WriteFail ==
    /\ Settle
    /\ reservations' = saved.reservations
    /\ jobTokens' = saved.jobTokens
    /\ closing' = saved.closing
    /\ UNCHANGED <<journal, leases, drawnFor, up>>

\* Nothing but the journal and the uuids already drawn survives.  A crash just
\* after the rename of a write is WriteOk followed by Crash.
Crash ==
    /\ up
    /\ up' = FALSE
    /\ reservations' = NoReservations
    /\ jobTokens' = NoJobTokens
    /\ closing' = FALSE
    /\ chain' = <<>>
    /\ writing' = FALSE
    /\ saved' = NothingSaved
    /\ grant' = NoToken
    /\ leases' = {}
    /\ UNCHANGED <<journal, drawnFor>>

IndexOf(entries) == [j \in Job |->
    IF \E t \in Token : entries[t].job = j
    THEN CHOOSE t \in Token : entries[t].job = j
    ELSE NoToken]

\* A new process: the journal is loaded and reopened, and the service calls
\* reconstruct with the jobs of its store before it accepts a submission.  A
\* job is created before it is bound, so any job may be active.
Load(active) ==
    /\ ~up
    /\ up' = TRUE
    /\ reservations' = journal.entries
    /\ jobTokens' = IndexOf(journal.entries)
    /\ closing' = FALSE
    /\ journal' = [journal EXCEPT !.closing = FALSE]
    /\ chain' = <<[Bare("reconstruct") EXCEPT !.active = active]>>
    /\ UNCHANGED <<writing, saved, grant, leases, drawnFor>>

Next ==
    \/ \E q \in Requester : CallAcquire(q)
    \/ \E u \in Uuid, j \in Job : CallBind(u, j)
    \/ \E op \in {"terminalPending", "unresolved", "release"} :
          \/ \E t \in FreshToken : CallByLease(op, t)
          \/ \E j \in Job : CallByJob(op, j)
    \/ CallClose
    \/ Run
    \/ WriteOk
    \/ WriteFail
    \/ Crash
    \/ \E active \in SUBSET Job : Load(active)

Spec == Init /\ [][Next]_vars

\* Promises run and file writes end, one way or the other.
FairSpec == Spec /\ WF_vars(Run) /\ WF_vars(WriteOk \/ WriteFail)
-----------------------------------------------------------------------------
(***************************************************************************)
(* Properties.                                                             *)
(***************************************************************************)

\* Every variable has its type; uncommitted grants are tokens.
TypeOK ==
    /\ [reservations |-> reservations, jobTokens |-> jobTokens,
        closing |-> closing] \in Maps
    /\ journal \in [entries: [Token -> Reservation], closing: BOOLEAN]
    /\ chain \in Seq(Request)
    /\ writing \in BOOLEAN
    /\ saved \in Maps
    /\ grant \in FreshToken \cup {NoToken}
    /\ leases \subseteq FreshToken
    /\ drawnFor \in [Uuid -> Requester \cup {None}]
    /\ up \in BOOLEAN

\* The job index and the reservations name each other: a job holds at most one
\* reservation, so it is never counted twice, and releaseJob (which goes
\* through the index) always reaches the reservation the job occupies.
JobIndexExact ==
    \A j \in Job, t \in Token : jobTokens[j] = t <=> reservations[t].job = j

\* The reservations handed out by tryAcquire never exceed a limit, whatever
\* interleaving of acquires, failed writes, rollbacks and restarts produced
\* them (only reconstruct, which does not ask, may add recovered ones on top).
WithinLimits ==
    /\ \A q \in Requester : Cardinality(OccupiedBy(q) \cap FreshToken) <= PerRequesterLimit
    /\ \A n \in Tenant : Cardinality(OccupiedIn(n) \cap FreshToken) <= PerTenantLimit
    /\ Cardinality(Occupied \cap FreshToken) <= GlobalLimit

\* Between writes the file and the maps agree: what a caller was told has
\* happened survives a crash, and what it was told failed does not come back.
JournalAgrees ==
    up /\ ~writing =>
        journal = [entries |-> reservations, closing |-> closing]

\* A journalled reservation goes away only through an explicit release of its
\* own token: no restart, reconstruction, rollback or other caller frees the
\* capacity of a job that may still be running.
FreedOnlyByRelease ==
    [][\A t \in Token :
         journal.entries[t] # Absent /\ journal'.entries[t] = Absent
         => Head(chain).op = "release" /\ Head(chain).token = t]_vars

\* A job's reservation marked for operator reconciliation stays so until it
\* is released or its job turns out to be active again after a restart: a late
\* markTerminalPending of the normal cleanup does not clear the mark.
UnresolvedSticks ==
    [][\A t \in Token :
         /\ journal.entries[t].phase = "unresolved"
         /\ journal.entries[t].job # None
         /\ journal'.entries[t].phase # "unresolved"
         => \/ Head(chain).op = "release"
            \/ /\ Head(chain).op = "reconstruct"
               /\ journal.entries[t].job \in Head(chain).active]_vars

\* A full chain drains: a request that throws, or whose write fails, does not
\* block the ones queued behind it.
ChainDrains == Len(chain) = MaxChain ~> Len(chain) < MaxChain

\* What the agent service relies on (Admissions): the journal holds the phase of
\* each job, and no call is served before the reconstruction a start begins with.
PhaseOf(entries) ==
    [j \in Job |-> IF IndexOf(entries)[j] = NoToken THEN "none"
                   ELSE entries[IndexOf(entries)[j]].phase]
Serving == up /\ (chain # <<>> => Head(chain).op # "reconstruct")
Contract == INSTANCE Admissions WITH
    phase <- PhaseOf(journal.entries), open <- Serving
ImplementsAdmissions == Contract!Spec
=============================================================================
