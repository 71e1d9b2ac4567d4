------------------------- MODULE AgentAdmissionProofs -------------------------
(***************************************************************************)
(* Proofs about AgentAdmission, for every set of requesters, tenants, jobs *)
(* and uuids and every nested choice of limits.                            *)
(*                                                                         *)
(* The inductive invariant says the same of the three copies of the maps   *)
(* (in memory, saved for a rollback, in the journal): each is Sound.       *)
(*                                                                         *)
(* The last part shows that the journal implements what the agent service  *)
(* relies on (Admissions): the write in flight is one step of the contract *)
(* on the phase of one job, or the reconstruction (Promised).              *)
(***************************************************************************)
EXTENDS AgentAdmission, FiniteSetTheorems, TLAPS

FreshBy(R, q) == {t \in FreshToken : R[t].requester = q}
FreshIn(R, n) == {t \in FreshToken : \E q \in Requester :
                      TenantOf[q] = n /\ R[t].requester = q}
FreshLive(R) == {t \in FreshToken : R[t].phase # "absent"}

Within(R) ==
    /\ \A q \in Requester : Cardinality(FreshBy(R, q)) <= PerRequesterLimit
    /\ \A n \in Tenant : Cardinality(FreshIn(R, n)) <= PerTenantLimit
    /\ Cardinality(FreshLive(R)) <= GlobalLimit

\* The shape of a reservation map, given who each uuid was drawn for.
Shape(R, d) ==
    /\ R \in [Token -> Reservation]
    /\ \A t \in Token : R[t].phase = "absent" => R[t] = Absent
    /\ \A u \in Uuid : R[Fresh(u)].phase # "absent" =>
         /\ d[u] # None
         /\ R[Fresh(u)].requester = d[u]
         /\ R[Fresh(u)].job # None => OwnerOf[R[Fresh(u)].job] = d[u]
    /\ \A j \in Job : R[Recovered(j)].phase # "absent" =>
         R[Recovered(j)].job = j /\ R[Recovered(j)].requester = OwnerOf[j]

JobsDistinct(R) ==
    \A s, t \in Token : R[s].job = R[t].job /\ R[s].job # None => s = t

Sound(R, d) == Shape(R, d) /\ JobsDistinct(R) /\ Within(R)

Index(R, J) == \A j \in Job, t \in Token : J[j] = t <=> R[t].job = j

WellFormed(r, d) ==
    /\ r \in Request
    /\ r.op = "acquire" => r.requester \in Requester
    /\ r.op = "bind" => /\ r.job \in Job
                        /\ \E u \in Uuid : /\ r.token = Fresh(u)
                                           /\ OwnerOf[r.job] = d[u]
    /\ r.op \in {"terminalPending", "unresolved", "release"} => r.token \in Token

ChainOK == \A i \in 1..Len(chain) : WellFormed(chain[i], drawnFor)

Agreement ==
    /\ writing => up
    /\ up /\ ~writing => journal = [entries |-> reservations, closing |-> closing]
    /\ writing => /\ journal.entries = saved.reservations
                  /\ journal.closing = saved.closing
                  /\ chain # <<>>

\* What the write in flight is about to commit.
Effect ==
    writing => \A t \in Token :
        /\ saved.reservations[t] # Absent /\ reservations[t] = Absent
             => Head(chain).op = "release" /\ Head(chain).token = t
        /\ (/\ saved.reservations[t].phase = "unresolved"
            /\ saved.reservations[t].job # None
            /\ reservations[t].phase # "unresolved")
             => \/ Head(chain).op = "release"
                \/ /\ Head(chain).op = "reconstruct"
                   /\ saved.reservations[t].job \in Head(chain).active

IInv ==
    /\ TypeOK
    /\ Sound(reservations, drawnFor) /\ Index(reservations, jobTokens)
    /\ Sound(saved.reservations, drawnFor)
    /\ Index(saved.reservations, saved.jobTokens)
    /\ Sound(journal.entries, drawnFor)
    /\ ChainOK
    /\ Agreement
    /\ Effect

-----------------------------------------------------------------------------
(***************************************************************************)
(* Tokens and counting.                                                    *)
(***************************************************************************)
LEMMA TokenFacts ==
    /\ NoToken \notin Token
    /\ \A u, v \in Uuid : Fresh(u) = Fresh(v) <=> u = v
    /\ \A i, j \in Job : Recovered(i) = Recovered(j) <=> i = j
    /\ \A u \in Uuid, j \in Job : Fresh(u) # Recovered(j)
    /\ \A u \in Uuid : Fresh(u) \in FreshToken
    /\ FreshToken \subseteq Token
    /\ \A j \in Job : Recovered(j) \in Token
BY DEF Token, FreshToken, NoToken, Fresh, Recovered

LEMMA FreshFinite == IsFiniteSet(FreshToken)
<1> DEFINE f == [u \in Uuid |-> Fresh(u)]
<1>1. f \in Surjection(Uuid, FreshToken)
  BY DEF Surjection, FreshToken
<1>2. QED
  BY <1>1, FS_Surjection, DirectoryTyped

LEMMA RecoveredFinite == IsFiniteSet({Recovered(j) : j \in Job})
<1> DEFINE f == [j \in Job |-> Recovered(j)]
           S == {Recovered(j) : j \in Job}
<1>1. f \in Surjection(Job, S)
  BY DEF Surjection
<1>2. QED
  BY <1>1, FS_Surjection, DirectoryTyped

LEMMA TokenFinite == IsFiniteSet(Token)
BY FreshFinite, RecoveredFinite, FS_Union DEF Token

\* A subset of the tokens has no more members than a set that contains it.
LEMMA Counting ==
    ASSUME NEW S \in SUBSET Token, NEW T \in SUBSET S
    PROVE  /\ Cardinality(T) \in Nat /\ Cardinality(S) \in Nat
           /\ Cardinality(T) <= Cardinality(S)
<1>1. IsFiniteSet(S)
  BY TokenFinite, FS_Subset
<1>2. IsFiniteSet(T) /\ Cardinality(T) <= Cardinality(S)
  BY <1>1, FS_Subset
<1>3. QED
  BY <1>1, <1>2, FS_CardinalityType

LEMMA CountingOneMore ==
    ASSUME NEW S \in SUBSET Token, NEW T \in SUBSET Token, NEW t, T \subseteq S \cup {t}
    PROVE  Cardinality(T) <= Cardinality(S) + 1
<1>1. IsFiniteSet(S) /\ IsFiniteSet(T)
  BY TokenFinite, FS_Subset
<1>2. Cardinality(S) \in Nat
  BY <1>1, FS_CardinalityType
<1>3. /\ IsFiniteSet(S \cup {t})
      /\ Cardinality(S \cup {t}) =
           IF t \in S THEN Cardinality(S) ELSE Cardinality(S) + 1
  BY <1>1, FS_AddElement
<1>4. Cardinality(T) <= Cardinality(S \cup {t})
  BY <1>3, FS_Subset
<1>5. Cardinality(T) \in Nat
  BY <1>1, FS_CardinalityType
<1>6. QED
  BY <1>2, <1>3, <1>4, <1>5

\* Freeing reservations, or changing anything but who holds them, keeps the
\* limits.
LEMMA WithinShrinks ==
    ASSUME NEW R, NEW Q, Within(R),
           \A t \in FreshToken :
              /\ Q[t].requester \in {None, R[t].requester}
              /\ Q[t].phase # "absent" => R[t].phase # "absent"
    PROVE  Within(Q)
<1>1. /\ \A q \in Requester : FreshBy(Q, q) \subseteq FreshBy(R, q)
      /\ \A n \in Tenant : FreshIn(Q, n) \subseteq FreshIn(R, n)
      /\ FreshLive(Q) \subseteq FreshLive(R)
  BY DirectoryTyped DEF FreshBy, FreshIn, FreshLive
<1>2. /\ \A q \in Requester : FreshBy(R, q) \in SUBSET Token
      /\ \A n \in Tenant : FreshIn(R, n) \in SUBSET Token
      /\ FreshLive(R) \in SUBSET Token
  BY TokenFacts DEF FreshBy, FreshIn, FreshLive
<1>3. /\ \A q \in Requester : /\ Cardinality(FreshBy(Q, q)) <= Cardinality(FreshBy(R, q))
                              /\ Cardinality(FreshBy(Q, q)) \in Nat
                              /\ Cardinality(FreshBy(R, q)) \in Nat
      /\ \A n \in Tenant : /\ Cardinality(FreshIn(Q, n)) <= Cardinality(FreshIn(R, n))
                           /\ Cardinality(FreshIn(Q, n)) \in Nat
                           /\ Cardinality(FreshIn(R, n)) \in Nat
      /\ Cardinality(FreshLive(Q)) <= Cardinality(FreshLive(R))
      /\ Cardinality(FreshLive(Q)) \in Nat
      /\ Cardinality(FreshLive(R)) \in Nat
  BY <1>1, <1>2, Counting
<1>4. QED
  BY <1>3, LimitsNested DEF Within
-----------------------------------------------------------------------------
(***************************************************************************)
(* Each operation keeps the maps in memory sound.                          *)
(***************************************************************************)
MemoryOK ==
    /\ reservations \in [Token -> Reservation]
    /\ jobTokens \in [Job -> Token \cup {NoToken}]
    /\ closing \in BOOLEAN
    /\ drawnFor \in [Uuid -> Requester \cup {None}]
    /\ Sound(reservations, drawnFor)
    /\ Index(reservations, jobTokens)

LEMMA SoundMonotone ==
    ASSUME NEW R, NEW d, NEW e, Sound(R, d),
           \A u \in Uuid : d[u] # None => e[u] = d[u]
    PROVE  Sound(R, e)
BY DEF Sound, Shape

LEMMA WellFormedMonotone ==
    ASSUME NEW r, NEW d, NEW e, WellFormed(r, d),
           \A u \in Uuid : d[u] # None => e[u] = d[u]
    PROVE  WellFormed(r, e)
BY DirectoryTyped DEF WellFormed

LEMMA AcquireKeeps ==
    ASSUME MemoryOK, NEW q \in Requester, TryAcquire(q)
    PROVE  /\ MemoryOK'
           /\ \A u \in Uuid : drawnFor[u] # None => drawnFor'[u] = drawnFor[u]
           /\ grant' \in FreshToken \cup {NoToken}
<1>1. CASE ~Admits(q)
  BY <1>1 DEF TryAcquire, MemoryOK, memory
<1>2. CASE Admits(q)
  <2>1. PICK v \in Uuid :
           /\ drawnFor[v] = None
           /\ reservations' = [reservations EXCEPT ![Fresh(v)] =
                   [phase |-> "reserved", requester |-> q, job |-> None]]
           /\ drawnFor' = [drawnFor EXCEPT ![v] = q]
           /\ grant' = Fresh(v)
           /\ UNCHANGED <<jobTokens, closing>>
    BY <1>2 DEF TryAcquire
  <2>2. q # None
    BY DirectoryTyped
  <2>3. /\ reservations[Fresh(v)] = Absent
        /\ Fresh(v) \in Token
    BY <2>1, TokenFacts DEF MemoryOK, Sound, Shape
  <2>4. /\ reservations' \in [Token -> Reservation]
        /\ drawnFor' \in [Uuid -> Requester \cup {None}]
    BY <2>1, <2>3 DEF MemoryOK, Reservation, Phase
  <2>5. \A u \in Uuid : drawnFor[u] # None => drawnFor'[u] = drawnFor[u]
    BY <2>1 DEF MemoryOK
  <2>6. Shape(reservations, drawnFor)
    BY DEF MemoryOK, Sound
  <2>7. Shape(reservations', drawnFor')
    <3>1. \A t \in Token : reservations'[t].phase = "absent" => reservations'[t] = Absent
      BY <2>1, <2>3, <2>6 DEF Shape
    <3>2. ASSUME NEW u \in Uuid, reservations'[Fresh(u)].phase # "absent"
          PROVE  /\ drawnFor'[u] # None
                 /\ reservations'[Fresh(u)].requester = drawnFor'[u]
                 /\ reservations'[Fresh(u)].job # None =>
                      OwnerOf[reservations'[Fresh(u)].job] = drawnFor'[u]
      <4>1. CASE u = v
        BY <4>1, <2>1, <2>2, <2>3 DEF MemoryOK
      <4>2. CASE u # v
        <5>1. Fresh(u) \in Token /\ Fresh(u) # Fresh(v)
          BY <4>2, TokenFacts
        <5>2. reservations'[Fresh(u)] = reservations[Fresh(u)] /\ drawnFor'[u] = drawnFor[u]
          BY <5>1, <4>2, <2>1 DEF MemoryOK
        <5>3. QED
          BY <5>2, <3>2, <2>6 DEF Shape
      <4>3. QED
        BY <4>1, <4>2
    <3>3. ASSUME NEW j \in Job
          PROVE  reservations'[Recovered(j)] = reservations[Recovered(j)]
      BY <2>1, TokenFacts DEF MemoryOK
    <3>4. QED
      BY <3>1, <3>2, <3>3, <2>4, <2>6 DEF Shape
  <2>8. \A t \in Token : reservations'[t].job = reservations[t].job
    BY <2>1, <2>3 DEF MemoryOK, Absent
  <2>9. JobsDistinct(reservations') /\ Index(reservations', jobTokens')
    BY <2>1, <2>8 DEF MemoryOK, Sound, JobsDistinct, Index
  <2>10. Within(reservations')
    <3>1. \A t \in FreshToken : t # Fresh(v) => reservations'[t] = reservations[t]
      BY <2>1, TokenFacts DEF MemoryOK
    <3>2. reservations'[Fresh(v)].requester = q
      BY <2>1, <2>3 DEF MemoryOK
    <3>3. ASSUME NEW p \in Requester
          PROVE  Cardinality(FreshBy(reservations', p)) <= PerRequesterLimit
      <4>1. CASE p = q
        <5>1. /\ FreshBy(reservations, q) \subseteq OccupiedBy(q)
              /\ OccupiedBy(q) \in SUBSET Token
              /\ FreshBy(reservations', q) \in SUBSET Token
              /\ FreshBy(reservations', q) \subseteq FreshBy(reservations, q) \cup {Fresh(v)}
          BY <3>1, TokenFacts DEF FreshBy, OccupiedBy
        <5>2. /\ Cardinality(FreshBy(reservations, q)) <= Cardinality(OccupiedBy(q))
              /\ Cardinality(OccupiedBy(q)) \in Nat
              /\ Cardinality(FreshBy(reservations, q)) \in Nat
              /\ Cardinality(FreshBy(reservations', q)) \in Nat
          BY <5>1, Counting
        <5>3. Cardinality(FreshBy(reservations', q)) <= Cardinality(FreshBy(reservations, q)) + 1
          BY <5>1, CountingOneMore
        <5>4. Cardinality(OccupiedBy(q)) < PerRequesterLimit
          BY <1>2 DEF Admits
        <5>5. QED
          BY <4>1, <5>2, <5>3, <5>4, LimitsNested
      <4>2. CASE p # q
        <5>1. FreshBy(reservations', p) = FreshBy(reservations, p)
          BY <4>2, <3>1, <3>2, <2>3, DirectoryTyped DEF FreshBy, Absent
        <5>2. QED
          BY <5>1 DEF MemoryOK, Sound, Within
      <4>3. QED
        BY <4>1, <4>2
    <3>4. ASSUME NEW n \in Tenant
          PROVE  Cardinality(FreshIn(reservations', n)) <= PerTenantLimit
      <4>1. CASE n = TenantOf[q]
        <5>1. /\ FreshIn(reservations, n) \subseteq OccupiedIn(n)
              /\ OccupiedIn(n) \in SUBSET Token
              /\ FreshIn(reservations', n) \in SUBSET Token
              /\ FreshIn(reservations', n) \subseteq FreshIn(reservations, n) \cup {Fresh(v)}
          BY <3>1, TokenFacts DEF FreshIn, OccupiedIn
        <5>2. /\ Cardinality(FreshIn(reservations, n)) <= Cardinality(OccupiedIn(n))
              /\ Cardinality(OccupiedIn(n)) \in Nat
              /\ Cardinality(FreshIn(reservations, n)) \in Nat
              /\ Cardinality(FreshIn(reservations', n)) \in Nat
          BY <5>1, Counting
        <5>3. Cardinality(FreshIn(reservations', n)) <= Cardinality(FreshIn(reservations, n)) + 1
          BY <5>1, CountingOneMore
        <5>4. Cardinality(OccupiedIn(n)) < PerTenantLimit
          BY <4>1, <1>2 DEF Admits
        <5>5. QED
          BY <5>2, <5>3, <5>4, LimitsNested
      <4>2. CASE n # TenantOf[q]
        <5>1. FreshIn(reservations', n) = FreshIn(reservations, n)
          BY <4>2, <3>1, <3>2, <2>3, DirectoryTyped DEF FreshIn, Absent
        <5>2. QED
          BY <5>1 DEF MemoryOK, Sound, Within
      <4>3. QED
        BY <4>1, <4>2
    <3>5. Cardinality(FreshLive(reservations')) <= GlobalLimit
      <4>1. /\ FreshLive(reservations) \subseteq Occupied
            /\ Occupied \in SUBSET Token
            /\ FreshLive(reservations') \in SUBSET Token
            /\ FreshLive(reservations') \subseteq FreshLive(reservations) \cup {Fresh(v)}
        BY <3>1, TokenFacts DEF FreshLive, Occupied, Live
      <4>2. /\ Cardinality(FreshLive(reservations)) <= Cardinality(Occupied)
            /\ Cardinality(Occupied) \in Nat
            /\ Cardinality(FreshLive(reservations)) \in Nat
            /\ Cardinality(FreshLive(reservations')) \in Nat
        BY <4>1, Counting
      <4>3. Cardinality(FreshLive(reservations')) <= Cardinality(FreshLive(reservations)) + 1
        BY <4>1, CountingOneMore
      <4>4. Cardinality(Occupied) < GlobalLimit
        BY <1>2 DEF Admits
      <4>5. QED
        BY <4>2, <4>3, <4>4, LimitsNested
    <3>6. QED
      BY <3>3, <3>4, <3>5 DEF Within
  <2>11. grant' \in FreshToken
    BY <2>1, TokenFacts
  <2>12. QED
    BY <2>1, <2>4, <2>5, <2>7, <2>9, <2>10, <2>11 DEF MemoryOK, Sound
<1>3. QED
  BY <1>1, <1>2
LEMMA BindKeeps ==
    ASSUME MemoryOK, NEW u \in Uuid, NEW j \in Job, OwnerOf[j] = drawnFor[u],
           BindJob(Fresh(u), j), UNCHANGED drawnFor
    PROVE  MemoryOK'
<1>1. CASE reservations[Fresh(u)].job = j
  BY <1>1 DEF BindJob, MemoryOK
<1>2. CASE reservations[Fresh(u)].job # j
  <2> DEFINE t == Fresh(u)
  <2>1. t \in Token /\ None # j
    BY TokenFacts, DirectoryTyped
  <2>2. /\ Live(t) /\ reservations[t].job = None /\ jobTokens[j] = NoToken
        /\ reservations' = [reservations EXCEPT ![t].job = j, ![t].phase = "bound"]
        /\ jobTokens' = [jobTokens EXCEPT ![j] = t]
        /\ UNCHANGED closing
    BY <1>2 DEF BindJob, BindFails
  <2>3. reservations[t] \in Reservation
    BY <2>1 DEF MemoryOK
  <2>4. /\ reservations'[t] = [phase |-> "bound", job |-> j,
                               requester |-> reservations[t].requester]
        /\ \A s \in Token : s # t => reservations'[s] = reservations[s]
    BY <2>1, <2>2, <2>3 DEF MemoryOK, Reservation
  <2>5. /\ reservations' \in [Token -> Reservation]
        /\ jobTokens' \in [Job -> Token \cup {NoToken}]
    BY <2>1, <2>2, <2>3 DEF MemoryOK, Reservation, Phase
  <2>6. Shape(reservations', drawnFor')
    <3>1. \A s \in Token : reservations'[s].phase = "absent" => reservations'[s] = Absent
      BY <2>4 DEF MemoryOK, Sound, Shape
    <3>2. ASSUME NEW v \in Uuid, reservations'[Fresh(v)].phase # "absent"
          PROVE  /\ drawnFor'[v] # None
                 /\ reservations'[Fresh(v)].requester = drawnFor'[v]
                 /\ reservations'[Fresh(v)].job # None =>
                      OwnerOf[reservations'[Fresh(v)].job] = drawnFor'[v]
      BY <3>2, <2>2, <2>4, TokenFacts DEF MemoryOK, Sound, Shape, Live
    <3>3. ASSUME NEW i \in Job
          PROVE  reservations'[Recovered(i)] = reservations[Recovered(i)]
      BY <2>4, TokenFacts
    <3>4. QED
      BY <3>1, <3>2, <3>3, <2>5 DEF MemoryOK, Sound, Shape
  <2>7. /\ \A s \in Token : reservations[s].job # j
        /\ JobsDistinct(reservations')
    BY <2>1, <2>2, <2>4, TokenFacts DEF MemoryOK, Sound, JobsDistinct, Index
  <2>8. Index(reservations', jobTokens')
    <3>1. ASSUME NEW i \in Job, NEW s \in Token
          PROVE  jobTokens'[i] = s <=> reservations'[s].job = i
      <4>1. jobTokens'[i] = IF i = j THEN t ELSE jobTokens[i]
        BY <2>2 DEF MemoryOK
      <4>2. jobTokens[i] = s <=> reservations[s].job = i
        BY DEF MemoryOK, Index
      <4>3. reservations'[s].job = IF s = t THEN j ELSE reservations[s].job
        BY <2>4
      <4>4. i # None /\ reservations[t].job = None /\ reservations[s].job # j
        BY <2>2, <2>7, DirectoryTyped
      <4>5. QED
        BY <4>1, <4>2, <4>3, <4>4
    <3>2. QED
      BY <3>1 DEF Index
  <2>9. Within(reservations')
    <3>1. ASSUME NEW s \in FreshToken
          PROVE  /\ reservations'[s].requester = reservations[s].requester
                 /\ reservations'[s].phase # "absent" => reservations[s].phase # "absent"
      <4>1. s \in Token
        BY TokenFacts
      <4>2. CASE s = t
        <5>1. reservations[s].phase # "absent"
          BY <4>2, <2>2 DEF Live
        <5>2. QED
          BY <4>2, <2>4, <5>1
      <4>3. CASE s # t
        BY <4>1, <4>3, <2>4
      <4>4. QED
        BY <4>2, <4>3
    <3>2. QED
      BY <3>1, WithinShrinks DEF MemoryOK, Sound
  <2>10. QED
    BY <2>2, <2>5, <2>6, <2>7, <2>8, <2>9 DEF MemoryOK, Sound
<1>3. QED
  BY <1>1, <1>2

\* A mark changes the phase of one live reservation and nothing else.
LEMMA PhaseKeeps ==
    ASSUME MemoryOK, NEW t \in Token, Live(t), NEW ph \in Phase,
           reservations' = [reservations EXCEPT ![t].phase = ph],
           UNCHANGED <<jobTokens, closing, drawnFor>>
    PROVE  MemoryOK'
<1>1. reservations[t] \in Reservation /\ ph # "absent"
  BY DEF MemoryOK, Phase
<1>2. /\ reservations'[t] = [phase |-> ph, job |-> reservations[t].job,
                             requester |-> reservations[t].requester]
      /\ \A s \in Token : s # t => reservations'[s] = reservations[s]
  BY <1>1 DEF MemoryOK, Reservation
<1>3. reservations' \in [Token -> Reservation]
  BY <1>1 DEF MemoryOK, Reservation
<1>4. \A s \in Token : /\ reservations'[s].job = reservations[s].job
                       /\ reservations'[s].requester = reservations[s].requester
                       /\ reservations'[s].phase = "absent" <=>
                            reservations[s].phase = "absent"
  BY <1>1, <1>2 DEF Live
<1>5. Shape(reservations', drawnFor')
  <2>1. \A s \in Token : reservations'[s].phase = "absent" => reservations'[s] = Absent
    BY <1>1, <1>2, <1>4 DEF MemoryOK, Sound, Shape
  <2>2. /\ \A u \in Uuid : Fresh(u) \in Token
        /\ \A j \in Job : Recovered(j) \in Token
    BY TokenFacts
  <2>3. QED
    BY <1>3, <1>4, <2>1, <2>2 DEF MemoryOK, Sound, Shape
<1>6. JobsDistinct(reservations') /\ Index(reservations', jobTokens')
  BY <1>4 DEF MemoryOK, Sound, JobsDistinct, Index
<1>7. Within(reservations')
  BY <1>4, TokenFacts, WithinShrinks DEF MemoryOK, Sound
<1>8. QED
  BY <1>3, <1>5, <1>6, <1>7 DEF MemoryOK, Sound

LEMMA ReleaseKeeps ==
    ASSUME MemoryOK, NEW t \in Token, ReleaseToken(t), UNCHANGED drawnFor
    PROVE  MemoryOK'
<1>1. /\ reservations'[t] = Absent
      /\ \A s \in Token : s # t => reservations'[s] = reservations[s]
      /\ reservations' \in [Token -> Reservation]
      /\ jobTokens' \in [Job -> Token \cup {NoToken}]
  BY DEF MemoryOK, ReleaseToken, Reservation, Absent
<1>2. Shape(reservations', drawnFor')
  BY <1>1, TokenFacts DEF MemoryOK, Sound, Shape, Absent
<1>3. JobsDistinct(reservations')
  BY <1>1 DEF MemoryOK, Sound, JobsDistinct, Absent
<1>4. ASSUME NEW j \in Job, NEW s \in Token
      PROVE  jobTokens'[j] = s <=> reservations'[s].job = j
  <2>1. j # None /\ NoToken \notin Token
    BY DirectoryTyped, TokenFacts
  <2>2. jobTokens[j] = t => reservations[t].job = j /\ Live(t)
    BY <2>1 DEF MemoryOK, Sound, Shape, Index, Live, Absent
  <2>3. jobTokens'[j] = IF jobTokens[j] = t THEN NoToken ELSE jobTokens[j]
    BY <2>2 DEF ReleaseToken
  <2>4. CASE s = t
    BY <2>1, <2>3, <2>4, <1>1 DEF Absent
  <2>5. CASE s # t
    BY <2>1, <2>3, <2>5, <1>1 DEF MemoryOK, Index
  <2>6. QED
    BY <2>4, <2>5
<1>5. Within(reservations')
  BY <1>1, TokenFacts, WithinShrinks DEF MemoryOK, Sound, Absent
<1>6. QED
  BY <1>1, <1>2, <1>3, <1>4, <1>5 DEF MemoryOK, Sound, Index, ReleaseToken
\* What reconstruct makes of one token: a recovered reservation where the job
\* had none, else the reservation it had, bound again, unresolved, or as it was.
LEMMA ReconstructToken ==
    ASSUME MemoryOK, NEW active \in SUBSET Job, Reconstruct(active)
    PROVE  /\ \A j \in active : jobTokens[j] = NoToken =>
                 /\ reservations[Recovered(j)] = Absent
                 /\ jobTokens'[j] = Recovered(j)
                 /\ reservations'[Recovered(j)] =
                       [phase |-> "bound", requester |-> OwnerOf[j], job |-> j]
           /\ \A j \in Job : (j \in active => jobTokens[j] # NoToken) =>
                 jobTokens'[j] = jobTokens[j]
           /\ \A t \in Token :
                 (\A j \in active : jobTokens[j] = NoToken => t # Recovered(j)) =>
                   /\ reservations'[t].job = reservations[t].job
                   /\ reservations'[t] \in Reservation
                   /\ reservations'[t].requester = reservations[t].requester
                   /\ reservations'[t].phase = "absent" <=> reservations[t].phase = "absent"
                   /\ reservations[t].phase = "absent" => reservations'[t] = reservations[t]
<1> DEFINE indexed == {j \in active : jobTokens[j] # NoToken /\ Live(jobTokens[j])}
           stale(t) == /\ reservations[t].phase = "bound"
                       /\ reservations[t].job \notin active \cup {None}
           bound(j) == [phase |-> "bound", requester |-> OwnerOf[j], job |-> j]
           kept(t) == {j \in indexed : jobTokens[j] = t}
           added(t) == {j \in active \ indexed : Recovered(j) = t}
<1>1. \A t \in Token : reservations'[t] =
         IF added(t) # {} THEN bound(CHOOSE j \in added(t) : TRUE)
         ELSE IF kept(t) # {}
         THEN [reservations[t] EXCEPT !.phase = "bound",
                  !.requester = OwnerOf[CHOOSE j \in kept(t) : TRUE]]
         ELSE IF stale(t) THEN [reservations[t] EXCEPT !.phase = "unresolved"]
         ELSE reservations[t]
  BY DEF Reconstruct
<1>2. \A j \in Job : jobTokens'[j] = IF j \in active \ indexed THEN Recovered(j)
                                     ELSE jobTokens[j]
  BY DEF Reconstruct
<1>3. \A j \in Job : jobTokens[j] # NoToken =>
         /\ jobTokens[j] \in Token
         /\ reservations[jobTokens[j]].job = j
         /\ Live(jobTokens[j])
  BY DirectoryTyped DEF MemoryOK, Sound, Shape, Index, Live, Absent
<1>4. indexed = {j \in active : jobTokens[j] # NoToken}
  BY <1>3
<1>5. ASSUME NEW j \in active, jobTokens[j] = NoToken
      PROVE  /\ reservations[Recovered(j)] = Absent
             /\ added(Recovered(j)) = {j}
  <2>1. reservations[Recovered(j)].job # j
    BY <1>5, TokenFacts DEF MemoryOK, Index
  <2>2. reservations[Recovered(j)].phase = "absent"
    BY <2>1, TokenFacts DEF MemoryOK, Sound, Shape
  <2>3. reservations[Recovered(j)] = Absent
    BY <2>2, TokenFacts DEF MemoryOK, Sound, Shape
  <2>4. j \in active \ indexed
    BY <1>4, <1>5
  <2>5. \A i \in active : Recovered(i) = Recovered(j) => i = j
    BY TokenFacts
  <2>6. QED
    BY <2>3, <2>4, <2>5
<1>6. ASSUME NEW j \in active, jobTokens[j] = NoToken
      PROVE  /\ jobTokens'[j] = Recovered(j)
             /\ reservations'[Recovered(j)] = bound(j)
  <2>1. Recovered(j) \in Token /\ j \in active \ indexed
    BY <1>4, <1>6, TokenFacts
  <2>2. (CHOOSE i \in added(Recovered(j)) : TRUE) = j
    BY <1>5, <1>6
  <2>3. reservations'[Recovered(j)] = bound(CHOOSE i \in added(Recovered(j)) : TRUE)
    BY <1>1, <1>5, <1>6, <2>1
  <2>4. QED
    BY <1>2, <2>1, <2>2, <2>3
<1>7. ASSUME NEW t \in Token,
             \A j \in active : jobTokens[j] = NoToken => t # Recovered(j)
      PROVE  /\ reservations'[t].job = reservations[t].job
             /\ reservations'[t] \in Reservation
             /\ reservations'[t].requester = reservations[t].requester
             /\ reservations'[t].phase = "absent" <=> reservations[t].phase = "absent"
             /\ reservations[t].phase = "absent" => reservations'[t] = reservations[t]
  <2>1. added(t) = {}
    BY <1>4, <1>7
  <2>2. reservations[t] \in Reservation
    BY DEF MemoryOK
  <2>3. CASE kept(t) # {}
    <3>1. PICK k \in kept(t) : k = (CHOOSE j \in kept(t) : TRUE)
      BY <2>3
    <3>2. k \in Job /\ reservations[t].job = k /\ reservations[t].phase # "absent"
      BY <3>1, <1>3, <1>4 DEF Live
    <3>3. reservations'[t] = [reservations[t] EXCEPT !.phase = "bound",
                                                     !.requester = OwnerOf[k]]
      BY <1>1, <2>1, <2>3, <3>1
    <3>4. OwnerOf[k] \in Requester
      BY <3>2, DirectoryTyped
    <3>5. ASSUME NEW u \in Uuid, t = Fresh(u)
          PROVE  reservations[t].requester = OwnerOf[k]
      BY <3>2, <3>5, DirectoryTyped DEF MemoryOK, Sound, Shape
    <3>6. ASSUME NEW j \in Job, t = Recovered(j)
          PROVE  reservations[t].requester = OwnerOf[k]
      BY <3>2, <3>6 DEF MemoryOK, Sound, Shape
    <3>7. reservations[t].requester = OwnerOf[k]
      BY <3>5, <3>6 DEF Token, FreshToken
    <3>8. QED
      BY <2>2, <3>2, <3>3, <3>4, <3>7 DEF Reservation, Phase
  <2>4. CASE kept(t) = {} /\ stale(t)
    <3>1. reservations'[t] = [reservations[t] EXCEPT !.phase = "unresolved"]
      BY <1>1, <2>1, <2>4
    <3>2. QED
      BY <2>2, <2>4, <3>1 DEF Reservation, Phase
  <2>5. CASE kept(t) = {} /\ ~stale(t)
    BY <1>1, <2>1, <2>2, <2>5
  <2>6. QED
    BY <2>3, <2>4, <2>5
<1>8. \A j \in Job : (j \in active => jobTokens[j] # NoToken) =>
         jobTokens'[j] = jobTokens[j]
  BY <1>2, <1>4
<1>9. QED
  BY <1>5, <1>6, <1>7, <1>8
LEMMA ReconstructKeeps ==
    ASSUME MemoryOK, NEW active \in SUBSET Job, Reconstruct(active),
           UNCHANGED drawnFor
    PROVE  MemoryOK'
<1> DEFINE Added(t) == \E j \in active : jobTokens[j] = NoToken /\ t = Recovered(j)
<1>1. \A j \in active : jobTokens[j] = NoToken =>
         /\ reservations[Recovered(j)] = Absent
         /\ jobTokens'[j] = Recovered(j)
         /\ reservations'[Recovered(j)] =
               [phase |-> "bound", requester |-> OwnerOf[j], job |-> j]
  BY ReconstructToken
<1>1a. ASSUME NEW t \in Token, Added(t)
       PROVE  \E j \in active : /\ jobTokens[j] = NoToken /\ t = Recovered(j)
                                /\ jobTokens'[j] = t
                                /\ reservations[t].job = None
                                /\ reservations'[t].phase = "bound"
                                /\ reservations'[t].requester = OwnerOf[j]
                                /\ reservations'[t].job = j
                                /\ reservations'[t] \in Reservation
  <2>1. PICK i \in active : jobTokens[i] = NoToken /\ t = Recovered(i)
    BY <1>1a
  <2>2. /\ reservations[Recovered(i)] = Absent
        /\ jobTokens'[i] = Recovered(i)
        /\ reservations'[Recovered(i)] =
               [phase |-> "bound", requester |-> OwnerOf[i], job |-> i]
    BY <2>1, <1>1
  <2>3. OwnerOf[i] \in Requester /\ i \in Job
    BY DirectoryTyped
  <2>4. [phase |-> "bound", requester |-> OwnerOf[i], job |-> i] \in Reservation
    BY <2>3 DEF Reservation, Phase
  <2>5. QED
    BY <2>1, <2>2, <2>4 DEF Absent
<1>2. \A j \in Job : (j \in active => jobTokens[j] # NoToken) =>
         jobTokens'[j] = jobTokens[j]
  BY ReconstructToken
<1>3. \A t \in Token : ~Added(t) =>
         /\ reservations'[t].job = reservations[t].job
         /\ reservations'[t] \in Reservation
         /\ reservations'[t].requester = reservations[t].requester
         /\ reservations'[t].phase = "absent" <=> reservations[t].phase = "absent"
         /\ reservations[t].phase = "absent" => reservations'[t] = reservations[t]
  BY ReconstructToken
<1>4. reservations' \in [Token -> Reservation]
  <2>1. \A t \in Token : Added(t) => reservations'[t] \in Reservation
    BY <1>1a
  <2>2. \A t \in Token : reservations'[t] \in Reservation
    BY <2>1, <1>3
  <2>3. DOMAIN reservations' = Token /\ reservations' = [t \in Token |-> reservations'[t]]
    BY DEF Reconstruct
  <2>4. QED
    BY <2>2, <2>3
<1>5. jobTokens' \in [Job -> Token \cup {NoToken}]
  BY TokenFacts DEF Reconstruct, MemoryOK
<1>6. \A u \in Uuid : ~Added(Fresh(u))
  BY TokenFacts
<1>7. Shape(reservations', drawnFor')
  <2>1. \A t \in Token : reservations'[t].phase = "absent" => reservations'[t] = Absent
    <3>1. ASSUME NEW t \in Token, Added(t) PROVE reservations'[t].phase # "absent"
      BY <3>1, <1>1a
    <3>2. QED
      BY <3>1, <1>3 DEF MemoryOK, Sound, Shape
  <2>2. ASSUME NEW u \in Uuid, reservations'[Fresh(u)].phase # "absent"
        PROVE  /\ drawnFor'[u] # None
               /\ reservations'[Fresh(u)].requester = drawnFor'[u]
               /\ reservations'[Fresh(u)].job # None =>
                    OwnerOf[reservations'[Fresh(u)].job] = drawnFor'[u]
    <3>1. Fresh(u) \in Token
      BY TokenFacts
    <3>2. QED
      BY <3>1, <2>2, <1>3, <1>6 DEF MemoryOK, Sound, Shape
  <2>3. ASSUME NEW j \in Job, reservations'[Recovered(j)].phase # "absent"
        PROVE  /\ reservations'[Recovered(j)].job = j
               /\ reservations'[Recovered(j)].requester = OwnerOf[j]
    <3>1. CASE Added(Recovered(j))
      <4>1. Recovered(j) \in Token
        BY TokenFacts
      <4>2. PICK i \in active : /\ Recovered(j) = Recovered(i)
                                 /\ reservations'[Recovered(j)].job = i
                                 /\ reservations'[Recovered(j)].requester = OwnerOf[i]
        BY <3>1, <4>1, <1>1a
      <4>3. i = j
        BY <4>2, TokenFacts
      <4>4. QED
        BY <4>2, <4>3
    <3>2. CASE ~Added(Recovered(j))
      <4>1. Recovered(j) \in Token
        BY TokenFacts
      <4>2. QED
        BY <4>1, <3>2, <2>3, <1>3 DEF MemoryOK, Sound, Shape
    <3>3. QED
      BY <3>1, <3>2
  <2>4. QED
    BY <1>4, <2>1, <2>2, <2>3 DEF Shape
<1>8. Index(reservations', jobTokens')
  <2>1. ASSUME NEW j \in Job, NEW t \in Token
        PROVE  jobTokens'[j] = t <=> reservations'[t].job = j
    <3>1. jobTokens[j] = t <=> reservations[t].job = j
      BY DEF MemoryOK, Index
    <3>2. CASE Added(t)
      <4>1. PICK i \in active : /\ jobTokens[i] = NoToken /\ t = Recovered(i)
                                 /\ jobTokens'[i] = t
                                 /\ reservations'[t].job = i
                                 /\ reservations[t].job = None
        BY <3>2, <1>1a
      <4>2. /\ jobTokens'[i] = t
            /\ reservations'[t].job = i
            /\ reservations[t].job = None
        BY <4>1
      <4>3. CASE j = i
        BY <4>2, <4>3
      <4>4. CASE j # i
        <5>1. jobTokens[j] # t
          BY <3>1, <4>2, DirectoryTyped
        <5>2. jobTokens'[j] # t
          <6>1. CASE j \in active /\ jobTokens[j] = NoToken
            <7>1. jobTokens'[j] = Recovered(j)
              BY <6>1, <1>1
            <7>2. Recovered(j) # Recovered(i)
              BY <4>4, TokenFacts
            <7>3. QED
              BY <7>1, <7>2, <4>1
          <6>2. CASE j \in active => jobTokens[j] # NoToken
            BY <6>2, <5>1, <1>2
          <6>3. QED
            BY <6>1, <6>2
        <5>3. QED
          BY <5>2, <4>2, <4>4
      <4>5. QED
        BY <4>3, <4>4
    <3>3. CASE ~Added(t)
      <4>1. reservations'[t].job = reservations[t].job
        BY <3>3, <1>3
      <4>2. CASE j \in active /\ jobTokens[j] = NoToken
        <5>1. jobTokens'[j] = Recovered(j) /\ t # Recovered(j)
          BY <4>2, <3>3, <1>1
        <5>2. jobTokens[j] # t
          BY <4>2, TokenFacts
        <5>3. QED
          BY <5>1, <5>2, <3>1, <4>1
      <4>3. CASE j \in active => jobTokens[j] # NoToken
        BY <4>3, <1>2, <3>1, <4>1
      <4>4. QED
        BY <4>2, <4>3
    <3>4. QED
      BY <3>2, <3>3
  <2>2. QED
    BY <2>1 DEF Index
<1>9. JobsDistinct(reservations')
  \* Two tokens with the same job are both the one the index names.
  <2>1. ASSUME NEW s \in Token, NEW t \in Token,
               reservations'[s].job = reservations'[t].job,
               reservations'[s].job # None
        PROVE  s = t
    <3>1. reservations'[s].job \in Job
      BY <1>4, <2>1 DEF Reservation
    <3>2. QED
      BY <3>1, <2>1, <1>8 DEF Index
  <2>2. QED
    BY <2>1 DEF JobsDistinct
<1>10. Within(reservations')
  <2>1. ASSUME NEW t \in FreshToken
        PROVE  /\ reservations'[t].requester = reservations[t].requester
               /\ reservations'[t].phase # "absent" => reservations[t].phase # "absent"
    <3>1. t \in Token /\ ~Added(t)
      BY TokenFacts, <1>6 DEF FreshToken
    <3>2. QED
      BY <3>1, <1>3
  <2>2. QED
    BY <2>1, WithinShrinks DEF MemoryOK, Sound
<1>11. closing' \in BOOLEAN
  BY DEF Reconstruct, MemoryOK
<1>12. QED
  BY <1>4, <1>5, <1>7, <1>8, <1>9, <1>10, <1>11 DEF MemoryOK, Sound
-----------------------------------------------------------------------------
(***************************************************************************)
(* The empty maps, and the index a restart builds.                         *)
(***************************************************************************)
LEMMA EmptySound ==
    ASSUME NEW d
    PROVE  /\ NoReservations \in [Token -> Reservation]
           /\ NoJobTokens \in [Job -> Token \cup {NoToken}]
           /\ Sound(NoReservations, d)
           /\ Index(NoReservations, NoJobTokens)
<1>1. NoReservations \in [Token -> Reservation]
  BY DEF NoReservations, Reservation, Absent
<1>2. Shape(NoReservations, d) /\ JobsDistinct(NoReservations)
  BY <1>1, TokenFacts DEF Shape, JobsDistinct, NoReservations, Absent
<1>3. /\ \A q \in Requester : FreshBy(NoReservations, q) = {}
      /\ \A n \in Tenant : FreshIn(NoReservations, n) = {}
      /\ FreshLive(NoReservations) = {}
  BY TokenFacts, DirectoryTyped
     DEF FreshBy, FreshIn, FreshLive, NoReservations, Absent
<1>4. Within(NoReservations)
  BY <1>3, FS_EmptySet, LimitsNested DEF Within
<1>5. Index(NoReservations, NoJobTokens)
  BY TokenFacts, DirectoryTyped DEF Index, NoReservations, NoJobTokens, Absent
<1>6. NoJobTokens \in [Job -> Token \cup {NoToken}]
  BY DEF NoJobTokens
<1>7. QED
  BY <1>1, <1>2, <1>4, <1>5, <1>6 DEF Sound

LEMMA IndexOfExact ==
    ASSUME NEW R, JobsDistinct(R)
    PROVE  /\ IndexOf(R) \in [Job -> Token \cup {NoToken}]
           /\ Index(R, IndexOf(R))
<1>1. ASSUME NEW j \in Job, NEW t \in Token
      PROVE  IndexOf(R)[j] = t <=> R[t].job = j
  <2>1. CASE \E s \in Token : R[s].job = j
    <3>1. PICK s \in Token : s = (CHOOSE x \in Token : R[x].job = j) /\ R[s].job = j
      BY <2>1
    <3>2. IndexOf(R)[j] = s
      BY <2>1, <3>1 DEF IndexOf
    <3>3. R[t].job = j => t = s
      BY <3>1, DirectoryTyped DEF JobsDistinct
    <3>4. QED
      BY <3>1, <3>2, <3>3
  <2>2. CASE ~\E s \in Token : R[s].job = j
    BY <2>2, TokenFacts DEF IndexOf
  <2>3. QED
    BY <2>1, <2>2
<1>2. \A j \in Job : IndexOf(R)[j] \in Token \cup {NoToken}
  BY DEF IndexOf
<1>3. IndexOf(R) \in [Job -> Token \cup {NoToken}]
  BY <1>2 DEF IndexOf
<1>4. QED
  BY <1>1, <1>3 DEF Index

\* The operation at the head of the chain, as Run applies it.
LEMMA ApplyKeeps ==
    ASSUME MemoryOK, NEW r, WellFormed(r, drawnFor), ~Throws(r), Apply(r)
    PROVE  /\ MemoryOK'
           /\ \A u \in Uuid : drawnFor[u] # None => drawnFor'[u] = drawnFor[u]
           /\ grant' \in FreshToken \cup {NoToken}
<1>1. CASE r.op = "acquire" /\ TryAcquire(r.requester)
  BY <1>1, AcquireKeeps DEF WellFormed
<1>2. CASE r.op # "acquire" /\ grant' = NoToken /\ UNCHANGED drawnFor
  <2>1. CASE r.op = "bind" /\ BindJob(r.token, r.job)
    <3>1. PICK u \in Uuid : r.token = Fresh(u) /\ OwnerOf[r.job] = drawnFor[u]
      BY <2>1 DEF WellFormed
    <3>2. r.job \in Job /\ BindJob(Fresh(u), r.job)
      BY <2>1, <3>1 DEF WellFormed
    <3>3. MemoryOK'
      BY <1>2, <3>1, <3>2, BindKeeps
    <3>4. QED
      BY <1>2, <3>3
  <2>2. CASE r.op = "terminalPending" /\ MarkTerminalPending(r.token)
    <3>1. r.token \in Token /\ Live(r.token)
      BY <2>2 DEF WellFormed, MarkTerminalPending
    <3>2. CASE reservations[r.token].phase = "unresolved"
      BY <2>2, <1>2, <3>2 DEF MarkTerminalPending, MemoryOK
    <3>3. CASE reservations[r.token].phase # "unresolved"
      <4>1. MemoryOK'
        BY <2>2, <1>2, <3>1, <3>3, PhaseKeeps DEF MarkTerminalPending, Phase
      <4>2. QED
        BY <4>1, <1>2
    <3>4. QED
      BY <3>2, <3>3
  <2>3. CASE r.op = "unresolved" /\ MarkUnresolved(r.token)
    <3>1. r.token \in Token /\ Live(r.token)
      BY <2>3 DEF WellFormed, MarkUnresolved
    <3>2. MemoryOK'
      BY <2>3, <1>2, <3>1, PhaseKeeps DEF MarkUnresolved, Phase
    <3>3. QED
      BY <3>2, <1>2
  <2>4. CASE r.op = "release" /\ ReleaseToken(r.token)
    <3>1. r.token \in Token
      BY <2>4 DEF WellFormed
    <3>2. MemoryOK'
      BY <2>4, <1>2, <3>1, ReleaseKeeps
    <3>3. QED
      BY <3>2, <1>2
  <2>5. CASE r.op = "reconstruct" /\ Reconstruct(r.active)
    <3>1. r.active \in SUBSET Job
      BY DEF WellFormed, Request
    <3>2. MemoryOK'
      BY <2>5, <1>2, <3>1, ReconstructKeeps
    <3>3. QED
      BY <3>2, <1>2
  <2>6. CASE r.op = "close" /\ Close
    BY <2>6, <1>2 DEF Close, MemoryOK
  <2>7. QED
    BY <1>2, <2>1, <2>2, <2>3, <2>4, <2>5, <2>6, Zenon DEF Apply
<1>3. QED
  BY <1>1, <1>2, Zenon DEF Apply
\* What an operation may do to one reservation: only a release of the token
\* frees it, and only a release, or a reconstruct that finds the job active,
\* takes a job's reservation out of "unresolved".
LEMMA ApplyEffect ==
    ASSUME MemoryOK, NEW r, WellFormed(r, drawnFor), ~Throws(r), Apply(r),
           NEW t \in Token
    PROVE  /\ reservations[t] # Absent /\ reservations'[t] = Absent
                => r.op = "release" /\ r.token = t
           /\ (/\ reservations[t].phase = "unresolved"
               /\ reservations[t].job # None
               /\ reservations'[t].phase # "unresolved")
                => \/ r.op = "release"
                   \/ r.op = "reconstruct" /\ reservations[t].job \in r.active
<1>1. CASE r.op = "acquire" /\ TryAcquire(r.requester)
  <2>1. CASE UNCHANGED reservations
    BY <2>1
  <2>2. CASE \E u \in Uuid :
               /\ drawnFor[u] = None
               /\ reservations' = [reservations EXCEPT ![Fresh(u)] =
                    [phase |-> "reserved", requester |-> r.requester, job |-> None]]
    <3>1. PICK u \in Uuid :
               /\ drawnFor[u] = None
               /\ reservations' = [reservations EXCEPT ![Fresh(u)] =
                    [phase |-> "reserved", requester |-> r.requester, job |-> None]]
      BY <2>2
    <3>2. Fresh(u) \in Token /\ reservations[Fresh(u)] = Absent
      BY <3>1, TokenFacts DEF MemoryOK, Sound, Shape
    <3>3. CASE t = Fresh(u)
      BY <3>1, <3>2, <3>3 DEF MemoryOK, Absent
    <3>4. CASE t # Fresh(u)
      BY <3>1, <3>4 DEF MemoryOK
    <3>5. QED
      BY <3>3, <3>4
  <2>3. QED
    BY <1>1, <2>1, <2>2 DEF TryAcquire, memory
<1>2. CASE r.op = "bind" /\ BindJob(r.token, r.job)
  <2>1. r.job # None /\ r.token \in Token
    BY <1>2, DirectoryTyped, TokenFacts DEF WellFormed
  <2>2. CASE reservations[r.token].job = r.job
    BY <1>2, <2>2 DEF BindJob
  <2>3. CASE reservations[r.token].job # r.job
    <3>1. /\ reservations[r.token].job = None
          /\ reservations' = [reservations EXCEPT ![r.token].job = r.job,
                                                  ![r.token].phase = "bound"]
      BY <1>2, <2>3 DEF BindJob, BindFails
    <3>2. CASE t = r.token
      BY <3>1, <3>2, <2>1 DEF MemoryOK, Absent, Reservation
    <3>3. CASE t # r.token
      BY <3>1, <3>3 DEF MemoryOK
    <3>4. QED
      BY <3>2, <3>3
  <2>4. QED
    BY <2>2, <2>3
<1>3. CASE r.op = "terminalPending" /\ MarkTerminalPending(r.token)
  <2>1. r.token \in Token /\ Live(r.token)
    BY <1>3 DEF WellFormed, MarkTerminalPending
  <2>2. CASE reservations[r.token].phase = "unresolved"
    BY <1>3, <2>2 DEF MarkTerminalPending
  <2>3. CASE reservations[r.token].phase # "unresolved"
    BY <1>3, <2>1, <2>3 DEF MarkTerminalPending, MemoryOK, Absent, Reservation
  <2>4. QED
    BY <2>2, <2>3
<1>4. CASE r.op = "unresolved" /\ MarkUnresolved(r.token)
  <2>1. r.token \in Token /\ Live(r.token)
    BY <1>4 DEF WellFormed, MarkUnresolved
  <2>2. QED
    BY <1>4, <2>1 DEF MarkUnresolved, MemoryOK, Absent, Reservation
<1>5. CASE r.op = "release" /\ ReleaseToken(r.token)
  BY <1>5 DEF ReleaseToken, MemoryOK
<1>6. CASE r.op = "reconstruct" /\ Reconstruct(r.active)
  <2> DEFINE indexed == {j \in r.active : jobTokens[j] # NoToken /\ Live(jobTokens[j])}
             stale(x) == /\ reservations[x].phase = "bound"
                         /\ reservations[x].job \notin r.active \cup {None}
             bound(j) == [phase |-> "bound", requester |-> OwnerOf[j], job |-> j]
             kept(x) == {j \in indexed : jobTokens[j] = x}
             added(x) == {j \in r.active \ indexed : Recovered(j) = x}
  <2>1. reservations'[t] =
         IF added(t) # {} THEN bound(CHOOSE j \in added(t) : TRUE)
         ELSE IF kept(t) # {}
         THEN [reservations[t] EXCEPT !.phase = "bound",
                  !.requester = OwnerOf[CHOOSE j \in kept(t) : TRUE]]
         ELSE IF stale(t) THEN [reservations[t] EXCEPT !.phase = "unresolved"]
         ELSE reservations[t]
    BY <1>6 DEF Reconstruct
  <2>2. r.active \in SUBSET Job
    BY DEF WellFormed, Request
  <2>3. reservations[t] \in Reservation
    BY DEF MemoryOK
  <2>4. CASE added(t) # {}
    <3>1. PICK j \in added(t) : TRUE
      BY <2>4
    <3>2. /\ j \in Job /\ t = Recovered(j)
          /\ jobTokens[j] = NoToken \/ ~Live(jobTokens[j])
      BY <3>1, <2>2
    <3>3. jobTokens[j] = NoToken \/ jobTokens[j] \in Token
      BY <3>2 DEF MemoryOK
    <3>4. reservations[t].job # j
      BY <3>2, <3>3, TokenFacts, DirectoryTyped
         DEF MemoryOK, Index, Live, Sound, Shape, Absent
    <3>5. reservations[t].phase = "absent"
      BY <3>2, <3>4 DEF MemoryOK, Sound, Shape
    <3>6. reservations[t] = Absent
      BY <3>5 DEF MemoryOK, Sound, Shape
    <3>7. QED
      BY <3>6 DEF Absent
  <2>5. CASE added(t) = {} /\ kept(t) # {}
    <3>1. PICK j \in kept(t) : TRUE
      BY <2>5
    <3>2. j \in r.active /\ reservations[t].job = j
      BY <3>1, <2>2 DEF MemoryOK, Index
    <3>3. reservations'[t].phase = "bound"
      BY <2>1, <2>3, <2>5 DEF Reservation
    <3>4. QED
      BY <1>6, <3>2, <3>3 DEF Absent
  <2>6. CASE added(t) = {} /\ kept(t) = {} /\ stale(t)
    BY <2>1, <2>3, <2>6 DEF Reservation, Absent
  <2>7. CASE added(t) = {} /\ kept(t) = {} /\ ~stale(t)
    BY <2>1, <2>7
  <2>8. QED
    BY <2>4, <2>5, <2>6, <2>7
<1>7. CASE r.op = "close" /\ Close
  BY <1>7 DEF Close
<1>8. QED
  BY <1>1, <1>2, <1>3, <1>4, <1>5, <1>6, <1>7, Zenon DEF Apply
-----------------------------------------------------------------------------
(***************************************************************************)
(* The steps of the chain.                                                 *)
(***************************************************************************)
LEMMA IInvMemory == IInv => MemoryOK
BY DEF IInv, TypeOK, Maps, MemoryOK

LEMMA InitKeeps == Init => IInv
<1> SUFFICES ASSUME Init PROVE IInv
  OBVIOUS
<1>1. TypeOK
  <2>1. /\ NoReservations \in [Token -> Reservation]
        /\ NoJobTokens \in [Job -> Token \cup {NoToken}]
    BY EmptySound
  <2>2. [reservations |-> reservations, jobTokens |-> jobTokens,
         closing |-> closing] \in Maps
    BY <2>1 DEF Init, Maps
  <2>3. saved \in Maps
    BY <2>1 DEF Init, Maps, NothingSaved
  <2>4. journal \in [entries: [Token -> Reservation], closing: BOOLEAN]
    BY <2>1 DEF Init
  <2>5. chain \in Seq(Request)
    BY DEF Init
  <2>6. drawnFor \in [Uuid -> Requester \cup {None}]
    BY DEF Init
  <2>7. QED
    BY <2>2, <2>3, <2>4, <2>5, <2>6 DEF Init, TypeOK
<1>2. /\ Sound(reservations, drawnFor) /\ Index(reservations, jobTokens)
      /\ Sound(saved.reservations, drawnFor)
      /\ Index(saved.reservations, saved.jobTokens)
      /\ Sound(journal.entries, drawnFor)
  BY EmptySound DEF Init, NothingSaved
<1>3. ChainOK
  <2>1. 1..Len(chain) = {}
    BY DEF Init
  <2>2. QED
    BY <2>1 DEF ChainOK
<1>4. Agreement /\ Effect
  BY DEF Init, Agreement, Effect
<1>5. QED
  BY <1>1, <1>2, <1>3, <1>4 DEF IInv

LEMMA EnqueueKeeps ==
    ASSUME IInv, NEW r, WellFormed(r, drawnFor), Enqueue(r)
    PROVE  IInv'
<1>1. /\ chain \in Seq(Request) /\ r \in Request
      /\ chain' = Append(chain, r)
      /\ UNCHANGED <<memory, journal, writing, saved, grant, leases, drawnFor, up>>
      /\ up
  BY DEF IInv, TypeOK, WellFormed, Enqueue
<1>2. /\ chain' \in Seq(Request)
      /\ chain # <<>> => chain' # <<>> /\ Head(chain') = Head(chain)
      /\ \A i \in 1..Len(chain') : chain'[i] = r \/ (i \in 1..Len(chain) /\ chain'[i] = chain[i])
  BY <1>1
<1>3. TypeOK'
  BY <1>1, <1>2 DEF IInv, TypeOK, memory
<1>4. ChainOK'
  BY <1>1, <1>2 DEF IInv, ChainOK
<1>5. Agreement' /\ Effect'
  BY <1>1, <1>2 DEF IInv, Agreement, Effect, memory
<1>6. QED
  BY <1>1, <1>3, <1>4, <1>5 DEF IInv, memory

LEMMA CallsKeep ==
    ASSUME IInv
    PROVE  /\ \A q \in Requester : CallAcquire(q) => IInv'
           /\ \A u \in Uuid, j \in Job : CallBind(u, j) => IInv'
           /\ \A op \in {"terminalPending", "unresolved", "release"} :
                /\ \A t \in FreshToken : CallByLease(op, t) => IInv'
                /\ \A j \in Job : CallByJob(op, j) => IInv'
           /\ CallClose => IInv'
<1>1. ASSUME NEW q \in Requester, CallAcquire(q) PROVE IInv'
  <2>1. WellFormed([Bare("acquire") EXCEPT !.requester = q], drawnFor)
    BY DEF WellFormed, Bare, Request, Op
  <2>2. QED
    BY <1>1, <2>1, EnqueueKeeps DEF CallAcquire
<1>2. ASSUME NEW u \in Uuid, NEW j \in Job, CallBind(u, j) PROVE IInv'
  <2>1. Fresh(u) \in Token /\ OwnerOf[j] = drawnFor[u]
    BY <1>2, TokenFacts DEF CallBind
  <2>2. WellFormed([Bare("bind") EXCEPT !.token = Fresh(u), !.job = j], drawnFor)
    BY <2>1 DEF WellFormed, Bare, Request, Op
  <2>3. QED
    BY <1>2, <2>2, EnqueueKeeps DEF CallBind
<1>3. ASSUME NEW op \in {"terminalPending", "unresolved", "release"}, NEW t \in Token
      PROVE  WellFormed([Bare(op) EXCEPT !.token = t], drawnFor)
  BY DEF WellFormed, Bare, Request, Op
<1>4. ASSUME NEW op \in {"terminalPending", "unresolved", "release"},
             NEW t \in FreshToken, CallByLease(op, t)
      PROVE  IInv'
  BY <1>3, <1>4, TokenFacts, EnqueueKeeps DEF CallByLease
<1>5. ASSUME NEW op \in {"terminalPending", "unresolved", "release"},
             NEW j \in Job, CallByJob(op, j)
      PROVE  IInv'
  <2>1. jobTokens[j] \in Token
    BY <1>5 DEF IInv, TypeOK, Maps, CallByJob
  <2>2. QED
    BY <1>3, <1>5, <2>1, EnqueueKeeps DEF CallByJob
<1>6. ASSUME CallClose PROVE IInv'
  <2>1. WellFormed(Bare("close"), drawnFor)
    BY DEF WellFormed, Bare, Request, Op
  <2>2. QED
    BY <1>6, <2>1, EnqueueKeeps DEF CallClose
<1>7. QED
  BY <1>1, <1>2, <1>4, <1>5, <1>6

LEMMA TailOK ==
    ASSUME IInv, chain # <<>>, chain' = Tail(chain),
           \A u \in Uuid : drawnFor[u] # None => drawnFor'[u] = drawnFor[u]
    PROVE  chain' \in Seq(Request) /\ ChainOK'
<1>1. chain \in Seq(Request)
  BY DEF IInv, TypeOK
<1>2. /\ chain' \in Seq(Request)
      /\ Len(chain') = Len(chain) - 1
      /\ \A i \in 1..Len(chain') : i+1 \in 1..Len(chain) /\ chain'[i] = chain[i+1]
  BY <1>1
<1>3. ASSUME NEW i \in 1..Len(chain') PROVE WellFormed(chain'[i], drawnFor')
  BY <1>2, WellFormedMonotone DEF IInv, ChainOK
<1>4. QED
  BY <1>2, <1>3 DEF ChainOK

LEMMA RunKeeps ==
    ASSUME IInv, Run
    PROVE  IInv'
<1> DEFINE r == Head(chain)
<1>1. /\ up /\ ~writing /\ chain # <<>> /\ chain \in Seq(Request)
      /\ UNCHANGED <<journal, leases, up>>
      /\ MemoryOK
  BY IInvMemory DEF Run, IInv, TypeOK
<1>2. WellFormed(r, drawnFor)
  BY <1>1 DEF IInv, ChainOK
<1>3. CASE Throws(r)
  <2>1. /\ chain' = Tail(chain)
        /\ UNCHANGED <<memory, writing, saved, grant, drawnFor>>
    BY <1>3 DEF Run
  <2>2. chain' \in Seq(Request) /\ ChainOK'
    BY <1>1, <2>1, TailOK
  <2>3. TypeOK'
    BY <1>1, <2>1, <2>2 DEF IInv, TypeOK, memory
  <2>4. Agreement' /\ Effect'
    BY <1>1, <2>1 DEF IInv, Agreement, Effect, memory
  <2>5. QED
    BY <1>1, <2>1, <2>2, <2>3, <2>4 DEF IInv, memory
<1>4. CASE ~Throws(r)
  <2>1. /\ saved' = [reservations |-> reservations,
                     jobTokens |-> jobTokens, closing |-> closing]
        /\ Apply(r)
        /\ writing' = TRUE
        /\ UNCHANGED chain
    BY <1>4 DEF Run
  <2>2. /\ MemoryOK'
        /\ \A u \in Uuid : drawnFor[u] # None => drawnFor'[u] = drawnFor[u]
        /\ grant' \in FreshToken \cup {NoToken}
    BY <1>1, <1>2, <1>4, <2>1, ApplyKeeps
  <2>3. TypeOK'
    BY <1>1, <2>1, <2>2 DEF IInv, TypeOK, MemoryOK, Maps
  <2>4. Sound(saved'.reservations, drawnFor') /\ Index(saved'.reservations, saved'.jobTokens)
    BY <2>1, <2>2, SoundMonotone DEF IInv
  <2>5. Sound(journal'.entries, drawnFor')
    BY <1>1, <2>2, SoundMonotone DEF IInv
  <2>6. ChainOK'
    <3>1. ASSUME NEW i \in 1..Len(chain') PROVE WellFormed(chain'[i], drawnFor')
      BY <2>1, <2>2, WellFormedMonotone DEF IInv, ChainOK
    <3>2. QED
      BY <3>1 DEF ChainOK
  <2>7. Agreement'
    BY <1>1, <2>1 DEF IInv, Agreement
  <2>8. Effect'
    <3>1. ASSUME NEW t \in Token
          PROVE  /\ reservations[t] # Absent /\ reservations'[t] = Absent
                     => r.op = "release" /\ r.token = t
                 /\ (/\ reservations[t].phase = "unresolved"
                     /\ reservations[t].job # None
                     /\ reservations'[t].phase # "unresolved")
                     => \/ r.op = "release"
                        \/ r.op = "reconstruct" /\ reservations[t].job \in r.active
      BY <1>1, <1>2, <1>4, <2>1, ApplyEffect
    <3>2. saved'.reservations = reservations /\ Head(chain') = r
      BY <2>1
    <3>3. QED
      BY <3>1, <3>2 DEF Effect
  <2>9. QED
    BY <2>2, <2>3, <2>4, <2>5, <2>6, <2>7, <2>8 DEF IInv, MemoryOK
<1>5. QED
  BY <1>3, <1>4
LEMMA SettleFacts ==
    ASSUME IInv, Settle, UNCHANGED drawnFor
    PROVE  /\ up /\ writing /\ writing' = FALSE
           /\ chain' \in Seq(Request) /\ ChainOK'
           /\ saved' \in Maps /\ grant' = NoToken
           /\ Sound(saved'.reservations, drawnFor')
           /\ Index(saved'.reservations, saved'.jobTokens)
           /\ Effect'
<1>1. up /\ writing /\ chain # <<>> /\ chain' = Tail(chain) /\ writing' = FALSE
  BY DEF Settle, IInv, Agreement
<1>2. chain' \in Seq(Request) /\ ChainOK'
  BY <1>1, TailOK
<1>3. saved' = NothingSaved /\ grant' = NoToken
  BY DEF Settle
<1>4. saved' \in Maps
  BY <1>3, EmptySound DEF NothingSaved, Maps
<1>5. /\ Sound(saved'.reservations, drawnFor')
      /\ Index(saved'.reservations, saved'.jobTokens)
  BY <1>3, EmptySound DEF NothingSaved
<1>6. QED
  BY <1>1, <1>2, <1>3, <1>4, <1>5 DEF Effect

LEMMA WriteOkKeeps ==
    ASSUME IInv, WriteOk
    PROVE  IInv'
<1>1. /\ Settle
      /\ journal' = [entries |-> reservations, closing |-> closing]
      /\ leases' = IF grant # NoToken THEN leases \cup {grant} ELSE leases
      /\ UNCHANGED <<memory, drawnFor, up>>
  BY DEF WriteOk
<1>2. /\ up /\ writing /\ writing' = FALSE
      /\ chain' \in Seq(Request) /\ ChainOK'
      /\ saved' \in Maps /\ grant' = NoToken
      /\ Sound(saved'.reservations, drawnFor')
      /\ Index(saved'.reservations, saved'.jobTokens)
      /\ Effect'
  BY <1>1, SettleFacts
<1>3. TypeOK'
  BY <1>1, <1>2 DEF IInv, TypeOK, Maps, memory
<1>4. Agreement'
  BY <1>1, <1>2 DEF Agreement, memory
<1>5. Sound(journal'.entries, drawnFor')
  BY <1>1 DEF IInv
<1>6. QED
  BY <1>1, <1>2, <1>3, <1>4, <1>5 DEF IInv, memory

LEMMA WriteFailKeeps ==
    ASSUME IInv, WriteFail
    PROVE  IInv'
<1>1. /\ Settle
      /\ reservations' = saved.reservations
      /\ jobTokens' = saved.jobTokens
      /\ closing' = saved.closing
      /\ UNCHANGED <<journal, leases, drawnFor, up>>
  BY DEF WriteFail
<1>2. /\ up /\ writing /\ writing' = FALSE
      /\ chain' \in Seq(Request) /\ ChainOK'
      /\ saved' \in Maps /\ grant' = NoToken
      /\ Sound(saved'.reservations, drawnFor')
      /\ Index(saved'.reservations, saved'.jobTokens)
      /\ Effect'
  BY <1>1, SettleFacts
<1>3. TypeOK'
  BY <1>1, <1>2 DEF IInv, TypeOK, Maps
<1>4. Agreement'
  <2>1. journal.entries = saved.reservations /\ journal.closing = saved.closing
    BY <1>2 DEF IInv, Agreement
  <2>2. journal = [entries |-> journal.entries, closing |-> journal.closing]
    BY DEF IInv, TypeOK
  <2>3. QED
    BY <1>1, <1>2, <2>1, <2>2 DEF Agreement
<1>5. QED
  BY <1>1, <1>2, <1>3, <1>4 DEF IInv

LEMMA CrashKeeps ==
    ASSUME IInv, Crash
    PROVE  IInv'
<1>1. /\ reservations' = NoReservations /\ jobTokens' = NoJobTokens
      /\ closing' = FALSE /\ chain' = <<>> /\ writing' = FALSE
      /\ saved' = NothingSaved /\ grant' = NoToken /\ leases' = {}
      /\ up' = FALSE /\ UNCHANGED <<journal, drawnFor>>
  BY DEF Crash
<1>2. NothingSaved \in Maps
  BY EmptySound DEF NothingSaved, Maps
<1>3. [reservations |-> NoReservations, jobTokens |-> NoJobTokens,
       closing |-> FALSE] \in Maps
  BY <1>2 DEF NothingSaved
<1>4. chain' \in Seq(Request) /\ 1..Len(chain') = {}
  BY <1>1
<1>5. TypeOK'
  BY <1>1, <1>2, <1>3, <1>4 DEF IInv, TypeOK
<1>6. /\ Sound(reservations', drawnFor') /\ Index(reservations', jobTokens')
      /\ Sound(saved'.reservations, drawnFor')
      /\ Index(saved'.reservations, saved'.jobTokens)
  BY <1>1, EmptySound DEF NothingSaved
<1>7. ChainOK'
  BY <1>4 DEF ChainOK
<1>8. Agreement' /\ Effect'
  BY <1>1 DEF Agreement, Effect
<1>9. QED
  BY <1>1, <1>5, <1>6, <1>7, <1>8 DEF IInv

LEMMA LoadKeeps ==
    ASSUME IInv, NEW active \in SUBSET Job, Load(active)
    PROVE  IInv'
<1> DEFINE r == [Bare("reconstruct") EXCEPT !.active = active]
<1>1. /\ ~up /\ up' = TRUE
      /\ reservations' = journal.entries
      /\ jobTokens' = IndexOf(journal.entries)
      /\ closing' = FALSE
      /\ journal' = [journal EXCEPT !.closing = FALSE]
      /\ chain' = <<r>>
      /\ UNCHANGED <<writing, saved, grant, leases, drawnFor>>
  BY DEF Load
<1>2. ~writing
  BY <1>1 DEF IInv, Agreement
<1>3. WellFormed(r, drawnFor)
  BY DEF WellFormed, Bare, Request, Op
<1>4. journal' = [entries |-> journal.entries, closing |-> FALSE]
  BY <1>1 DEF IInv, TypeOK
<1>5. /\ IndexOf(journal.entries) \in [Job -> Token \cup {NoToken}]
      /\ Index(journal.entries, IndexOf(journal.entries))
  BY IndexOfExact DEF IInv, Sound
<1>6. journal.entries \in [Token -> Reservation]
  BY DEF IInv, TypeOK
<1>7. /\ chain' \in Seq(Request)
      /\ \A i \in 1..Len(chain') : chain'[i] = r
  BY <1>1, <1>3 DEF WellFormed
<1>8. ChainOK'
  BY <1>1, <1>3, <1>7 DEF ChainOK
<1>9. TypeOK'
  BY <1>1, <1>4, <1>5, <1>6, <1>7 DEF IInv, TypeOK, Maps
<1>10. Agreement' /\ Effect'
  BY <1>1, <1>2, <1>4 DEF Agreement, Effect
<1>11. QED
  BY <1>1, <1>4, <1>5, <1>8, <1>9, <1>10 DEF IInv

LEMMA StepKeeps == IInv /\ [Next]_vars => IInv'
<1> SUFFICES ASSUME IInv, [Next]_vars PROVE IInv'
  OBVIOUS
<1>1. CASE \/ \E q \in Requester : CallAcquire(q)
           \/ \E u \in Uuid, j \in Job : CallBind(u, j)
           \/ \E op \in {"terminalPending", "unresolved", "release"} :
                \/ \E t \in FreshToken : CallByLease(op, t)
                \/ \E j \in Job : CallByJob(op, j)
           \/ CallClose
  BY <1>1, CallsKeep
<1>2. CASE Run
  BY <1>2, RunKeeps
<1>3. CASE WriteOk
  BY <1>3, WriteOkKeeps
<1>4. CASE WriteFail
  BY <1>4, WriteFailKeeps
<1>5. CASE Crash
  BY <1>5, CrashKeeps
<1>6. CASE \E active \in SUBSET Job : Load(active)
  BY <1>6, LoadKeeps
<1>7. CASE UNCHANGED vars
  BY <1>7 DEF vars, memory, IInv, TypeOK, ChainOK, Agreement, Effect
<1>8. QED
  BY <1>1, <1>2, <1>3, <1>4, <1>5, <1>6, <1>7 DEF Next

-----------------------------------------------------------------------------
(***************************************************************************)
(* The theorems.                                                           *)
(***************************************************************************)

\* The inductive invariant holds of every behaviour of the controller.
THEOREM Inductive == Spec => []IInv
BY InitKeeps, StepKeeps, PTL DEF Spec

\* Type correctness of the controller's maps, chain and journal.
THEOREM TypeCorrect == Spec => []TypeOK
<1>1. IInv => TypeOK
  BY DEF IInv
<1>2. QED
  BY <1>1, Inductive, PTL

\* A job occupies at most one reservation and releaseJob finds it, through
\* every interleaving of calls, failed journal writes, crashes and restarts.
THEOREM JobIndexAlwaysExact == Spec => []JobIndexExact
<1>1. IInv => JobIndexExact
  BY DEF IInv, Index, JobIndexExact
<1>2. QED
  BY <1>1, Inductive, PTL

\* tryAcquire never hands out more than a limit allows, for all limits.
THEOREM LimitsAlwaysHold == Spec => []WithinLimits
<1>1. IInv => WithinLimits
  <2> SUFFICES ASSUME IInv PROVE WithinLimits
    OBVIOUS
  <2>1. /\ \A q \in Requester : OccupiedBy(q) \cap FreshToken = FreshBy(reservations, q)
        /\ \A n \in Tenant : OccupiedIn(n) \cap FreshToken = FreshIn(reservations, n)
        /\ Occupied \cap FreshToken = FreshLive(reservations)
    BY TokenFacts DEF OccupiedBy, OccupiedIn, Occupied, Live, FreshBy, FreshIn, FreshLive
  <2>2. Within(reservations)
    BY DEF IInv, Sound
  <2>3. QED
    BY <2>1, <2>2 DEF Within, WithinLimits
<1>2. QED
  BY <1>1, Inductive, PTL

\* Acknowledged means durable, refused means undone: between writes the
\* journal is exactly the maps.
THEOREM JournalAlwaysAgrees == Spec => []JournalAgrees
<1>1. IInv => JournalAgrees
  BY DEF IInv, Agreement, JournalAgrees
<1>2. QED
  BY <1>1, Inductive, PTL

\* The journal changes its reservations only when a write lands, and then by
\* the operation at the head of the chain.
LEMMA JournalSteps ==
    ASSUME IInv, [Next]_vars
    PROVE  \/ journal'.entries = journal.entries
           \/ /\ writing
              /\ journal.entries = saved.reservations
              /\ journal'.entries = reservations
<1>1. CASE WriteOk
  BY <1>1 DEF WriteOk, Settle, IInv, Agreement
<1>2. CASE \E active \in SUBSET Job : Load(active)
  BY <1>2 DEF Load, IInv, TypeOK
<1>3. CASE UNCHANGED journal
  BY <1>3
<1>4. QED
  BY <1>1, <1>2, <1>3
     DEF Next, vars, CallAcquire, CallBind, CallByLease, CallByJob, CallClose,
         Enqueue, Run, WriteFail, Crash

\* Only an explicit release gives back journalled capacity.
THEOREM CapacityFreedOnlyByRelease == Spec => FreedOnlyByRelease
<1>1. IInv /\ [Next]_vars =>
        [\A t \in Token :
           journal.entries[t] # Absent /\ journal'.entries[t] = Absent
           => Head(chain).op = "release" /\ Head(chain).token = t]_vars
  BY JournalSteps DEF IInv, Effect
<1>2. QED
  BY <1>1, Inductive, PTL DEF Spec, FreedOnlyByRelease

\* The operator's mark is not cleared by a late step of the normal cleanup.
THEOREM UnresolvedAlwaysSticks == Spec => UnresolvedSticks
<1>1. IInv /\ [Next]_vars =>
        [\A t \in Token :
           /\ journal.entries[t].phase = "unresolved"
           /\ journal.entries[t].job # None
           /\ journal'.entries[t].phase # "unresolved"
           => \/ Head(chain).op = "release"
              \/ /\ Head(chain).op = "reconstruct"
                 /\ journal.entries[t].job \in Head(chain).active]_vars
  BY JournalSteps DEF IInv, Effect
<1>2. QED
  BY <1>1, Inductive, PTL DEF Spec, UnresolvedSticks

-----------------------------------------------------------------------------
(***************************************************************************)
(* The journal implements the contract with the agent service, Admissions. *)
(***************************************************************************)
BoundPhase == {"bound", "terminal_pending", "unresolved"}

\* What a call does to the phase of the job it is about.
Moves(a, b) ==
    \/ a = "none" /\ b = "bound"
    \/ a = "bound" /\ b = "terminal_pending"
    \/ a \in {"bound", "terminal_pending"} /\ b = "unresolved"
    \/ a # "none" /\ b = "none"
With(f, j, b) == [i \in Job |-> IF i = j THEN b ELSE f[i]]
Called(f, g) ==
    g = f \/ \E j \in Job, b \in BoundPhase \cup {"none"} :
                Moves(f[j], b) /\ g = With(f, j, b)
Reconstructed(f, g, active) ==
    g = [j \in Job |-> IF j \in active THEN "bound"
                       ELSE IF f[j] = "bound" THEN "unresolved" ELSE f[j]]

\* A job has a reservation only once it was bound.
Phased(R) == \A t \in Token : R[t].job # None => R[t].phase \in BoundPhase

\* What the write in flight will do to the jobs, and that only the first
\* request of a new process reconstructs.
Promised ==
    /\ \A i \in 1..Len(chain) : chain[i].op = "reconstruct" => i = 1
    /\ Phased(reservations) /\ Phased(saved.reservations) /\ Phased(journal.entries)
    /\ writing =>
         IF Head(chain).op = "reconstruct"
         THEN Reconstructed(PhaseOf(saved.reservations), PhaseOf(reservations),
                            Head(chain).active)
         ELSE Called(PhaseOf(saved.reservations), PhaseOf(reservations))

\* The phase of a job is that of its one reservation.
LEMMA PhaseOfJob ==
    ASSUME NEW R, JobsDistinct(R), NEW j \in Job
    PROVE  /\ \A t \in Token : R[t].job = j => PhaseOf(R)[j] = R[t].phase
           /\ (\A t \in Token : R[t].job # j) => PhaseOf(R)[j] = "none"
<1>1. /\ IndexOf(R)[j] \in Token \cup {NoToken}
      /\ \A t \in Token : IndexOf(R)[j] = t <=> R[t].job = j
  BY IndexOfExact DEF Index
<1>2. PhaseOf(R)[j] = IF IndexOf(R)[j] = NoToken THEN "none" ELSE R[IndexOf(R)[j]].phase
  BY DEF PhaseOf
<1>3. CASE IndexOf(R)[j] = NoToken
  BY <1>1, <1>2, <1>3, TokenFacts
<1>4. CASE IndexOf(R)[j] \in Token
  <2>1. R[IndexOf(R)[j]].job = j /\ PhaseOf(R)[j] = R[IndexOf(R)[j]].phase
    BY <1>1, <1>2, <1>4, TokenFacts
  <2>2. QED
    BY <1>1, <1>4, <2>1
<1>5. QED
  BY <1>1, <1>3, <1>4

\* Where the reservations of a job keep their phase, so does the job.
LEMMA SamePhase ==
    ASSUME NEW R, NEW Q, JobsDistinct(R), JobsDistinct(Q), NEW j \in Job,
           \A t \in Token : /\ Q[t].job = j <=> R[t].job = j
                            /\ R[t].job = j => Q[t].phase = R[t].phase
    PROVE  PhaseOf(Q)[j] = PhaseOf(R)[j]
<1>1. CASE \E t \in Token : R[t].job = j
  BY <1>1, PhaseOfJob
<1>2. CASE \A t \in Token : R[t].job # j
  BY <1>2, PhaseOfJob
<1>3. QED
  BY <1>1, <1>2

LEMMA PhaseOfIs == ASSUME NEW R PROVE PhaseOf(R) = [j \in Job |-> PhaseOf(R)[j]]
BY DEF PhaseOf

\* A call that leaves the reservations of all jobs but one alone.
LEMMA OnePhase ==
    ASSUME NEW R, NEW Q, JobsDistinct(R), JobsDistinct(Q), NEW j \in Job,
           NEW b \in BoundPhase \cup {"none"},
           PhaseOf(Q)[j] = b, PhaseOf(R)[j] = b \/ Moves(PhaseOf(R)[j], b),
           \A i \in Job \ {j} : \A t \in Token :
              /\ Q[t].job = i <=> R[t].job = i
              /\ R[t].job = i => Q[t].phase = R[t].phase
    PROVE  Called(PhaseOf(R), PhaseOf(Q))
<1>1. \A i \in Job \ {j} : PhaseOf(Q)[i] = PhaseOf(R)[i]
  BY SamePhase
<1>2. /\ PhaseOf(R) = [i \in Job |-> PhaseOf(R)[i]]
      /\ PhaseOf(Q) = [i \in Job |-> PhaseOf(Q)[i]]
  BY PhaseOfIs
<1>3. PhaseOf(Q) = With(PhaseOf(R), j, b)
  <2>1. \A i \in Job : PhaseOf(Q)[i] = IF i = j THEN b ELSE PhaseOf(R)[i]
    BY <1>1
  <2>2. [i \in Job |-> PhaseOf(Q)[i]] = [i \in Job |-> IF i = j THEN b ELSE PhaseOf(R)[i]]
    BY <2>1
  <2>3. QED
    BY <1>2, <2>2 DEF With
<1>4. CASE PhaseOf(R)[j] = b
  <2>1. \A i \in Job : PhaseOf(Q)[i] = PhaseOf(R)[i]
    BY <1>1, <1>4
  <2>2. [i \in Job |-> PhaseOf(Q)[i]] = [i \in Job |-> PhaseOf(R)[i]]
    BY <2>1
  <2>3. QED
    BY <1>2, <2>2 DEF Called
<1>5. CASE Moves(PhaseOf(R)[j], b)
  BY <1>3, <1>5 DEF Called
<1>6. QED
  BY <1>4, <1>5

\* A call that leaves the reservations of all jobs alone.
LEMMA NoPhase ==
    ASSUME NEW R, NEW Q, JobsDistinct(R), JobsDistinct(Q),
           \A j \in Job : \A t \in Token :
              /\ Q[t].job = j <=> R[t].job = j
              /\ R[t].job = j => Q[t].phase = R[t].phase
    PROVE  Called(PhaseOf(R), PhaseOf(Q))
<1>1. \A j \in Job : PhaseOf(Q)[j] = PhaseOf(R)[j]
  BY SamePhase
<1>2. PhaseOf(Q) = PhaseOf(R)
  <2>1. [j \in Job |-> PhaseOf(Q)[j]] = [j \in Job |-> PhaseOf(R)[j]]
    BY <1>1
  <2>2. QED
    BY <2>1, PhaseOfIs
<1>3. QED
  BY <1>2 DEF Called

\* One reservation gets another phase, or is gone, as its job is marked or
\* released.
LEMMA MarkCalled ==
    ASSUME MemoryOK, MemoryOK', Phased(reservations), NEW t \in Token,
           \A s \in Token : s # t => reservations'[s] = reservations[s],
           \/ reservations'[t] = Absent
           \/ /\ reservations'[t].job = reservations[t].job
              /\ reservations[t].job # None =>
                   /\ reservations'[t].phase \in BoundPhase
                   /\ \/ reservations'[t].phase = reservations[t].phase
                      \/ Moves(reservations[t].phase, reservations'[t].phase)
    PROVE  /\ Called(PhaseOf(reservations), PhaseOf(reservations'))
           /\ Phased(reservations')
<1>1. JobsDistinct(reservations) /\ JobsDistinct(reservations')
  BY DEF MemoryOK, Sound
<1>2. Phased(reservations')
  BY DEF Phased, Absent
<1>3. reservations[t].job \in Job \cup {None} /\ None \notin Job
  BY DirectoryTyped DEF MemoryOK, Reservation
<1>4. CASE reservations[t].job = None
  <2>1. reservations'[t].job = None
    BY <1>4 DEF Absent
  <2>2. QED
    BY <1>1, <1>2, <1>3, <1>4, <2>1, NoPhase
<1>5. CASE reservations[t].job # None
  <2>1. PICK j \in Job : j = reservations[t].job
    BY <1>3, <1>5
  <2>2. \A s \in Token : s # t => reservations[s].job # j /\ reservations'[s].job # j
    BY <1>1, <1>5, <2>1 DEF JobsDistinct
  <2>3. PhaseOf(reservations)[j] = reservations[t].phase /\ reservations[t].phase \in BoundPhase
    BY <1>1, <1>5, <2>1, PhaseOfJob DEF Phased
  <2>4. \A i \in Job \ {j} : \A s \in Token :
           /\ reservations'[s].job = i <=> reservations[s].job = i
           /\ reservations[s].job = i => reservations'[s].phase = reservations[s].phase
    BY <1>3, <2>1 DEF Absent
  <2>5. CASE reservations'[t] = Absent
    <3>1. \A s \in Token : reservations'[s].job # j
      BY <1>3, <2>1, <2>2, <2>5 DEF Absent
    <3>2. PhaseOf(reservations')[j] = "none"
      BY <1>1, <3>1, PhaseOfJob
    <3>3. Moves(PhaseOf(reservations)[j], "none")
      BY <2>3 DEF Moves, BoundPhase
    <3>4. QED
      BY <1>1, <1>2, <2>4, <3>2, <3>3, OnePhase
  <2>6. CASE reservations'[t].job = j
    <3>1. PhaseOf(reservations')[j] = reservations'[t].phase
      BY <1>1, <2>6, PhaseOfJob
    <3>2. /\ reservations'[t].phase \in BoundPhase
          /\ \/ PhaseOf(reservations)[j] = reservations'[t].phase
             \/ Moves(PhaseOf(reservations)[j], reservations'[t].phase)
      BY <1>3, <1>5, <2>1, <2>3, <2>6 DEF Absent
    <3>3. QED
      BY <1>1, <1>2, <2>4, <3>1, <3>2, OnePhase
  <2>7. QED
    BY <2>1, <2>5, <2>6
<1>6. QED
  BY <1>4, <1>5

\* A reservation is handed out: it belongs to no job yet.
LEMMA AcquireCalled ==
    ASSUME MemoryOK, MemoryOK', Phased(reservations), NEW q \in Requester, TryAcquire(q)
    PROVE  /\ Called(PhaseOf(reservations), PhaseOf(reservations'))
           /\ Phased(reservations')
<1>1. CASE UNCHANGED reservations
  BY <1>1 DEF Called, Phased
<1>2. CASE \E u \in Uuid :
             /\ drawnFor[u] = None
             /\ reservations' = [reservations EXCEPT ![Fresh(u)] =
                  [phase |-> "reserved", requester |-> q, job |-> None]]
  <2>1. PICK u \in Uuid :
             /\ drawnFor[u] = None
             /\ reservations' = [reservations EXCEPT ![Fresh(u)] =
                  [phase |-> "reserved", requester |-> q, job |-> None]]
    BY <1>2
  <2>2. Fresh(u) \in Token /\ reservations[Fresh(u)] = Absent
    BY <2>1, TokenFacts DEF MemoryOK, Sound, Shape
  <2>3. /\ reservations[Fresh(u)].job = None /\ reservations'[Fresh(u)].job = None
        /\ \A t \in Token : t # Fresh(u) => reservations'[t] = reservations[t]
    BY <2>1, <2>2 DEF MemoryOK, Absent
  <2>4. JobsDistinct(reservations) /\ JobsDistinct(reservations')
    BY DEF MemoryOK, Sound
  <2>5. Phased(reservations')
    BY <2>3 DEF Phased
  <2>6. QED
    BY <2>3, <2>4, <2>5, NoPhase, DirectoryTyped
<1>3. QED
  BY <1>1, <1>2 DEF TryAcquire, memory

\* A job is bound that no reservation was bound to.
LEMMA BindCalled ==
    ASSUME MemoryOK, MemoryOK', Phased(reservations), NEW t \in Token, NEW j \in Job,
           BindJob(t, j)
    PROVE  /\ Called(PhaseOf(reservations), PhaseOf(reservations'))
           /\ Phased(reservations')
<1>1. CASE reservations[t].job = j
  BY <1>1 DEF BindJob, Called, Phased
<1>2. CASE reservations[t].job # j
  <2>1. /\ reservations[t].job = None /\ jobTokens[j] = NoToken
        /\ reservations' = [reservations EXCEPT ![t].job = j, ![t].phase = "bound"]
    BY <1>2 DEF BindJob, BindFails
  <2>2. /\ reservations'[t].job = j /\ reservations'[t].phase = "bound"
        /\ \A s \in Token : s # t => reservations'[s] = reservations[s]
    BY <2>1 DEF MemoryOK, Reservation
  <2>3. JobsDistinct(reservations) /\ JobsDistinct(reservations') /\ j # None
    BY DirectoryTyped DEF MemoryOK, Sound
  <2>4. \A s \in Token : reservations[s].job # j
    BY <2>1, TokenFacts DEF MemoryOK, Index
  <2>5. PhaseOf(reservations)[j] = "none" /\ PhaseOf(reservations')[j] = "bound"
    BY <2>2, <2>3, <2>4, PhaseOfJob
  <2>6. Moves("none", "bound") /\ "bound" \in BoundPhase
    BY DEF Moves, BoundPhase
  <2>7. \A i \in Job \ {j} : \A s \in Token :
           /\ reservations'[s].job = i <=> reservations[s].job = i
           /\ reservations[s].job = i => reservations'[s].phase = reservations[s].phase
    BY <2>1, <2>2, DirectoryTyped
  <2>8. Phased(reservations')
    BY <2>2, <2>6 DEF Phased
  <2>9. Called(PhaseOf(reservations), PhaseOf(reservations'))
    <3>1. \/ PhaseOf(reservations)[j] = "bound"
          \/ Moves(PhaseOf(reservations)[j], "bound")
      BY <2>5, <2>6
    <3>2. QED
      BY <2>3, <2>5, <2>6, <2>7, <3>1, OnePhase
  <2>10. QED
    BY <2>8, <2>9
<1>3. QED
  BY <1>1, <1>2

\* What reconstruct makes of the phase of one reservation.
LEMMA ReconstructPhase ==
    ASSUME MemoryOK, NEW active \in SUBSET Job, Reconstruct(active), NEW t \in Token
    PROVE  \/ \E j \in active :
                 /\ jobTokens[j] = NoToken /\ reservations[t].job = None
                 /\ reservations'[t].job = j /\ reservations'[t].phase = "bound"
           \/ /\ reservations'[t].job = reservations[t].job
              /\ reservations[t].job # None => reservations'[t].phase =
                    IF reservations[t].job \in active THEN "bound"
                    ELSE IF reservations[t].phase = "bound" THEN "unresolved"
                    ELSE reservations[t].phase
<1> DEFINE indexed == {j \in active : jobTokens[j] # NoToken /\ Live(jobTokens[j])}
           stale(x) == /\ reservations[x].phase = "bound"
                       /\ reservations[x].job \notin active \cup {None}
           bound(j) == [phase |-> "bound", requester |-> OwnerOf[j], job |-> j]
           kept(x) == {j \in indexed : jobTokens[j] = x}
           added(x) == {j \in active \ indexed : Recovered(j) = x}
<1>1. reservations'[t] =
         IF added(t) # {} THEN bound(CHOOSE j \in added(t) : TRUE)
         ELSE IF kept(t) # {}
         THEN [reservations[t] EXCEPT !.phase = "bound",
                  !.requester = OwnerOf[CHOOSE j \in kept(t) : TRUE]]
         ELSE IF stale(t) THEN [reservations[t] EXCEPT !.phase = "unresolved"]
         ELSE reservations[t]
  BY DEF Reconstruct
<1>2. reservations[t] \in Reservation
  BY DEF MemoryOK
<1>3. CASE \E j \in active : jobTokens[j] = NoToken /\ t = Recovered(j)
  <2>1. PICK j \in active : jobTokens[j] = NoToken /\ t = Recovered(j)
    BY <1>3
  <2>2. reservations[t] = Absent /\ reservations'[t] = bound(j)
    BY <2>1, ReconstructToken
  <2>3. QED
    BY <2>1, <2>2 DEF Absent
<1>4. CASE \A j \in active : jobTokens[j] = NoToken => t # Recovered(j)
  <2>1. reservations'[t].job = reservations[t].job
    BY <1>4, ReconstructToken
  <2>2. \A j \in Job : jobTokens[j] = t <=> reservations[t].job = j
    BY DEF MemoryOK, Index
  <2>3. \A j \in Job : jobTokens[j] # NoToken =>
           jobTokens[j] \in Token /\ Live(jobTokens[j])
    BY DirectoryTyped DEF MemoryOK, Sound, Shape, Index, Live, Absent
  <2>4. added(t) = {}
    BY <1>4, <2>3
  <2>5. CASE reservations[t].job \in active
    <3>1. reservations[t].job \in kept(t)
      BY <2>2, <2>3, <2>5, TokenFacts
    <3>2. reservations'[t].phase = "bound"
      BY <1>1, <1>2, <2>4, <3>1 DEF Reservation
    <3>3. QED
      BY <2>1, <2>5, <3>2
  <2>6. CASE reservations[t].job \notin active
    <3>1. kept(t) = {}
      BY <2>2, <2>6
    <3>2. CASE stale(t)
      <4>1. reservations'[t].phase = "unresolved"
        BY <1>1, <1>2, <2>4, <3>1, <3>2 DEF Reservation
      <4>2. QED
        BY <2>1, <2>6, <3>2, <4>1
    <3>3. CASE ~stale(t)
      <4>1. reservations'[t] = reservations[t]
        BY <1>1, <2>4, <3>1, <3>3
      <4>2. QED
        BY <2>1, <2>6, <3>3, <4>1
    <3>4. QED
      BY <3>2, <3>3
  <2>7. QED
    BY <2>5, <2>6
<1>5. QED
  BY <1>3, <1>4

\* Active jobs are bound, what others had bound is left to an operator.
LEMMA ReconstructCalled ==
    ASSUME MemoryOK, MemoryOK', Phased(reservations),
           NEW active \in SUBSET Job, Reconstruct(active)
    PROVE  /\ Reconstructed(PhaseOf(reservations), PhaseOf(reservations'), active)
           /\ Phased(reservations')
<1>0. JobsDistinct(reservations) /\ JobsDistinct(reservations') /\ None \notin Job
  BY DirectoryTyped DEF MemoryOK, Sound
<1>1. Phased(reservations')
  <2> SUFFICES ASSUME NEW t \in Token, reservations'[t].job # None
               PROVE  reservations'[t].phase \in BoundPhase
    BY DEF Phased
  <2>1. QED
    BY ReconstructPhase DEF Phased, BoundPhase
<1>2. ASSUME NEW j \in Job
      PROVE  PhaseOf(reservations')[j] =
                IF j \in active THEN "bound"
                ELSE IF PhaseOf(reservations)[j] = "bound" THEN "unresolved"
                ELSE PhaseOf(reservations)[j]
  <2>1. CASE \E t \in Token : reservations[t].job = j
    <3>1. PICK t \in Token : reservations[t].job = j
      BY <2>1
    <3>2. /\ reservations'[t].job = j
          /\ reservations'[t].phase =
                IF j \in active THEN "bound"
                ELSE IF reservations[t].phase = "bound" THEN "unresolved"
                ELSE reservations[t].phase
      BY <1>0, <3>1, ReconstructPhase
    <3>3. /\ PhaseOf(reservations)[j] = reservations[t].phase
          /\ PhaseOf(reservations')[j] = reservations'[t].phase
      BY <1>0, <3>1, <3>2, PhaseOfJob
    <3>4. QED
      BY <3>2, <3>3
  <2>2. CASE \A t \in Token : reservations[t].job # j
    <3>1. PhaseOf(reservations)[j] = "none"
      BY <1>0, <2>2, PhaseOfJob
    <3>2. CASE j \in active
      <4>1. jobTokens[j] = NoToken
        BY <2>2 DEF MemoryOK, Index
      <4>2. /\ Recovered(j) \in Token /\ reservations'[Recovered(j)].job = j
            /\ reservations'[Recovered(j)].phase = "bound"
        <5>1. reservations'[Recovered(j)] =
                 [phase |-> "bound", requester |-> OwnerOf[j], job |-> j]
          BY <3>2, <4>1, ReconstructToken
        <5>2. QED
          BY <5>1, TokenFacts
      <4>3. PhaseOf(reservations')[j] = "bound"
        BY <1>0, <4>2, PhaseOfJob
      <4>4. QED
        BY <3>2, <4>3
    <3>3. CASE j \notin active
      <4>1. \A t \in Token : reservations'[t].job # j
        BY <2>2, <3>3, ReconstructPhase
      <4>2. PhaseOf(reservations')[j] = "none"
        BY <1>0, <4>1, PhaseOfJob
      <4>3. QED
        BY <3>1, <3>3, <4>2
    <3>4. QED
      BY <3>2, <3>3
  <2>3. QED
    BY <2>1, <2>2
<1>3. [j \in Job |-> PhaseOf(reservations')[j]] =
        [j \in Job |-> IF j \in active THEN "bound"
                       ELSE IF PhaseOf(reservations)[j] = "bound" THEN "unresolved"
                       ELSE PhaseOf(reservations)[j]]
  BY <1>2
<1>4. QED
  BY <1>1, <1>3, PhaseOfIs DEF Reconstructed

\* What the operation at the head of the chain does to the jobs.
LEMMA ApplyCalled ==
    ASSUME MemoryOK, MemoryOK', Phased(reservations),
           NEW r, WellFormed(r, drawnFor), ~Throws(r), Apply(r)
    PROVE  /\ IF r.op = "reconstruct"
              THEN Reconstructed(PhaseOf(reservations), PhaseOf(reservations'), r.active)
              ELSE Called(PhaseOf(reservations), PhaseOf(reservations'))
           /\ Phased(reservations')
<1>1. CASE r.op = "acquire" /\ TryAcquire(r.requester)
  BY <1>1, AcquireCalled DEF WellFormed
<1>2. CASE r.op = "bind" /\ BindJob(r.token, r.job)
  <2>1. r.token \in Token /\ r.job \in Job
    BY <1>2, TokenFacts DEF WellFormed
  <2>2. QED
    BY <1>2, <2>1, BindCalled
<1>3. CASE r.op = "terminalPending" /\ MarkTerminalPending(r.token)
  <2>1. r.token \in Token
    BY <1>3 DEF WellFormed
  <2>2. reservations[r.token] \in Reservation
    BY <2>1 DEF MemoryOK
  <2>3. /\ \A s \in Token : s # r.token => reservations'[s] = reservations[s]
        /\ reservations'[r.token].job = reservations[r.token].job
        /\ reservations'[r.token].phase = IF reservations[r.token].phase = "unresolved"
                                          THEN "unresolved" ELSE "terminal_pending"
    BY <1>3, <2>1, <2>2 DEF MarkTerminalPending, MemoryOK, Reservation
  <2>4. reservations[r.token].job # None =>
           /\ reservations'[r.token].phase \in BoundPhase
           /\ \/ reservations'[r.token].phase = reservations[r.token].phase
              \/ Moves(reservations[r.token].phase, reservations'[r.token].phase)
    BY <2>1, <2>3 DEF Phased, BoundPhase, Moves
  <2>5. QED
    BY <1>3, <2>1, <2>3, <2>4, MarkCalled
<1>4. CASE r.op = "unresolved" /\ MarkUnresolved(r.token)
  <2>1. r.token \in Token
    BY <1>4 DEF WellFormed
  <2>2. reservations[r.token] \in Reservation
    BY <2>1 DEF MemoryOK
  <2>3. /\ \A s \in Token : s # r.token => reservations'[s] = reservations[s]
        /\ reservations'[r.token].job = reservations[r.token].job
        /\ reservations'[r.token].phase = "unresolved"
    BY <1>4, <2>1, <2>2 DEF MarkUnresolved, MemoryOK, Reservation
  <2>4. reservations[r.token].job # None =>
           /\ reservations'[r.token].phase \in BoundPhase
           /\ \/ reservations'[r.token].phase = reservations[r.token].phase
              \/ Moves(reservations[r.token].phase, reservations'[r.token].phase)
    BY <2>1, <2>3 DEF Phased, BoundPhase, Moves
  <2>5. QED
    BY <1>4, <2>1, <2>3, <2>4, MarkCalled
<1>5. CASE r.op = "release" /\ ReleaseToken(r.token)
  <2>1. r.token \in Token
    BY <1>5 DEF WellFormed
  <2>2. /\ reservations'[r.token] = Absent
        /\ \A s \in Token : s # r.token => reservations'[s] = reservations[s]
    BY <1>5, <2>1 DEF ReleaseToken, MemoryOK
  <2>3. QED
    BY <1>5, <2>1, <2>2, MarkCalled
<1>6. CASE r.op = "reconstruct" /\ Reconstruct(r.active)
  BY <1>6, ReconstructCalled DEF WellFormed, Request
<1>7. CASE r.op = "close" /\ Close
  BY <1>7 DEF Close, Called, Phased
<1>8. QED
  BY <1>1, <1>2, <1>3, <1>4, <1>5, <1>6, <1>7, Zenon DEF Apply

-----------------------------------------------------------------------------
LEMMA InitPromised == Init => Promised
BY DEF Init, Promised, Phased, NothingSaved, NoReservations, Absent

\* A call joins the chain; only a new process asks to reconstruct.
LEMMA EnqueuePromised ==
    ASSUME IInv, Promised, NEW r, r \in Request, r.op # "reconstruct", Enqueue(r)
    PROVE  Promised' /\ UNCHANGED <<journal, Serving>>
<1>1. /\ chain \in Seq(Request) /\ chain' = Append(chain, r)
      /\ UNCHANGED <<reservations, journal, writing, saved, up>>
  BY DEF IInv, TypeOK, Enqueue, memory
<1>2. /\ chain # <<>> => chain' # <<>> /\ Head(chain') = Head(chain)
      /\ chain = <<>> => Head(chain') = r
      /\ \A i \in 1..Len(chain') : chain'[i] = r \/ (i \in 1..Len(chain) /\ chain'[i] = chain[i])
  BY <1>1
<1>3. writing => chain # <<>>
  BY DEF IInv, Agreement
<1>4. Promised'
  BY <1>1, <1>2, <1>3 DEF Promised
<1>5. Serving' = Serving
  BY <1>1, <1>2 DEF Serving
<1>6. QED
  BY <1>1, <1>4, <1>5

\* All the calls there are.
LEMMA CallsPromised ==
    ASSUME IInv, Promised,
           \/ \E q \in Requester : CallAcquire(q)
           \/ \E u \in Uuid, j \in Job : CallBind(u, j)
           \/ \E op \in {"terminalPending", "unresolved", "release"} :
                 \/ \E t \in FreshToken : CallByLease(op, t)
                 \/ \E j \in Job : CallByJob(op, j)
           \/ CallClose
    PROVE  Promised' /\ UNCHANGED <<journal, Serving>>
<1>1. PICK r \in Request : r.op # "reconstruct" /\ Enqueue(r)
  <2>1. ASSUME NEW q \in Requester, CallAcquire(q)
        PROVE  \E r \in Request : r.op # "reconstruct" /\ Enqueue(r)
    <3>1. /\ [Bare("acquire") EXCEPT !.requester = q] \in Request
          /\ [Bare("acquire") EXCEPT !.requester = q].op # "reconstruct"
      BY DEF Bare, Request, Op
    <3>2. QED
      BY <2>1, <3>1 DEF CallAcquire
  <2>2. ASSUME NEW u \in Uuid, NEW j \in Job, CallBind(u, j)
        PROVE  \E r \in Request : r.op # "reconstruct" /\ Enqueue(r)
    <3>1. /\ [Bare("bind") EXCEPT !.token = Fresh(u), !.job = j] \in Request
          /\ [Bare("bind") EXCEPT !.token = Fresh(u), !.job = j].op # "reconstruct"
      BY TokenFacts DEF Bare, Request, Op
    <3>2. QED
      BY <2>2, <3>1 DEF CallBind
  <2>3. ASSUME NEW op \in {"terminalPending", "unresolved", "release"}, NEW t \in Token
        PROVE  /\ [Bare(op) EXCEPT !.token = t] \in Request
               /\ [Bare(op) EXCEPT !.token = t].op # "reconstruct"
    BY DEF Bare, Request, Op
  <2>4. ASSUME NEW op \in {"terminalPending", "unresolved", "release"},
               \/ \E t \in FreshToken : CallByLease(op, t)
               \/ \E j \in Job : CallByJob(op, j)
        PROVE  \E r \in Request : r.op # "reconstruct" /\ Enqueue(r)
    <3>1. jobTokens \in [Job -> Token \cup {NoToken}]
      BY DEF IInv, TypeOK, Maps
    <3>2. PICK t \in Token : Enqueue([Bare(op) EXCEPT !.token = t])
      BY <2>4, <3>1, TokenFacts DEF CallByLease, CallByJob
    <3>3. QED
      BY <2>3, <3>2
  <2>5. ASSUME CallClose
        PROVE  \E r \in Request : r.op # "reconstruct" /\ Enqueue(r)
    <3>1. Bare("close") \in Request /\ Bare("close").op # "reconstruct"
      BY DEF Bare, Request, Op
    <3>2. QED
      BY <2>5, <3>1 DEF CallClose
  <2>6. QED
    BY <2>1, <2>2, <2>4, <2>5
<1>2. QED
  BY <1>1, EnqueuePromised

\* The next request of the chain does not reconstruct.
LEMMA TailPromised ==
    ASSUME IInv, Promised, chain # <<>>, chain' = Tail(chain)
    PROVE  /\ \A i \in 1..Len(chain') : chain'[i].op # "reconstruct"
           /\ chain' # <<>> => Head(chain').op # "reconstruct"
<1>1. chain \in Seq(Request)
  BY DEF IInv, TypeOK
<1>2. /\ \A i \in 1..Len(chain') : i+1 \in 1..Len(chain) /\ i+1 # 1 /\ chain'[i] = chain[i+1]
      /\ chain' # <<>> => 1 \in 1..Len(chain') /\ Head(chain') = chain'[1]
  BY <1>1
<1>3. QED
  BY <1>2 DEF Promised

\* The operation at the head is applied, or throws.
LEMMA RunPromised ==
    ASSUME IInv, IInv', Promised, Run
    PROVE  Promised' /\ UNCHANGED <<journal, Serving>>
<1> DEFINE r == Head(chain)
<1>1. /\ up /\ ~writing /\ chain # <<>> /\ chain \in Seq(Request)
      /\ UNCHANGED <<journal, up>> /\ MemoryOK /\ MemoryOK'
  BY IInvMemory DEF Run, IInv, TypeOK, MemoryOK, Maps
<1>2. WellFormed(r, drawnFor)
  BY <1>1 DEF IInv, ChainOK
<1>3. CASE Throws(r)
  <2>1. chain' = Tail(chain) /\ UNCHANGED <<reservations, writing, saved>>
    BY <1>3 DEF Run, memory
  <2>2. r.op # "reconstruct"
    BY <1>3 DEF Throws
  <2>3. Promised'
    BY <1>1, <2>1, TailPromised DEF Promised
  <2>4. Serving' = Serving
    BY <1>1, <2>1, <2>2, TailPromised DEF Serving
  <2>5. QED
    BY <1>1, <2>3, <2>4
<1>4. CASE ~Throws(r)
  <2>1. /\ saved'.reservations = reservations /\ Apply(r) /\ UNCHANGED chain
    BY <1>4 DEF Run
  <2>2. /\ IF r.op = "reconstruct"
           THEN Reconstructed(PhaseOf(reservations), PhaseOf(reservations'), r.active)
           ELSE Called(PhaseOf(reservations), PhaseOf(reservations'))
        /\ Phased(reservations')
    BY <1>1, <1>2, <1>4, <2>1, ApplyCalled DEF Promised
  <2>3. Promised'
    BY <1>1, <2>1, <2>2 DEF Promised
  <2>4. Serving' = Serving
    BY <1>1, <2>1 DEF Serving
  <2>5. QED
    BY <1>1, <2>3, <2>4
<1>5. QED
  BY <1>3, <1>4

\* A write that ends, either way, leaves nothing in flight.
LEMMA SettlePromised ==
    ASSUME IInv, IInv', Promised, Settle,
           \/ journal'.entries = reservations /\ reservations' = reservations
           \/ journal'.entries = journal.entries /\ reservations' = saved.reservations
    PROVE  Promised'
<1>1. /\ chain # <<>> /\ chain' = Tail(chain) /\ writing' = FALSE
      /\ saved'.reservations = NoReservations
  BY DEF Settle, IInv, Agreement, NothingSaved
<1>2. Phased(NoReservations)
  BY DEF Phased, NoReservations, Absent
<1>3. Phased(reservations') /\ Phased(journal'.entries)
  BY DEF Promised
<1>4. QED
  BY <1>1, <1>2, <1>3, TailPromised DEF Promised

\* The invariant Promised adds to IInv.
LEMMA StepPromised ==
    ASSUME IInv, IInv', Promised, [Next]_vars
    PROVE  Promised'
<1>1. CASE \/ \E q \in Requester : CallAcquire(q)
           \/ \E u \in Uuid, j \in Job : CallBind(u, j)
           \/ \E op \in {"terminalPending", "unresolved", "release"} :
                \/ \E t \in FreshToken : CallByLease(op, t)
                \/ \E j \in Job : CallByJob(op, j)
           \/ CallClose
  BY <1>1, CallsPromised
<1>2. CASE Run
  BY <1>2, RunPromised
<1>3. CASE WriteOk
  BY <1>3, SettlePromised DEF WriteOk, memory
<1>4. CASE WriteFail
  BY <1>4, SettlePromised DEF WriteFail
<1>5. CASE Crash
  <2>1. /\ reservations' = NoReservations /\ saved' = NothingSaved /\ journal' = journal
        /\ 1..Len(chain') = {} /\ writing' = FALSE
    BY <1>5 DEF Crash
  <2>2. Phased(reservations') /\ Phased(saved'.reservations)
    BY <2>1 DEF Phased, NothingSaved, NoReservations, Absent
  <2>3. QED
    BY <2>1, <2>2 DEF Promised
<1>6. CASE \E active \in SUBSET Job : Load(active)
  <2>1. /\ reservations' = journal.entries /\ journal'.entries = journal.entries
        /\ 1..Len(chain') = {1} /\ UNCHANGED <<writing, saved>> /\ ~writing
    BY <1>6 DEF Load, IInv, TypeOK, Agreement
  <2>2. QED
    BY <2>1 DEF Promised
<1>7. CASE UNCHANGED vars
  BY <1>7 DEF vars, memory, Promised
<1>8. QED
  BY <1>1, <1>2, <1>3, <1>4, <1>5, <1>6, <1>7 DEF Next

\* What a step of the controller is to the agent service.
Served == [Contract!Next]_(Contract!admissionsVars)

\* A call, once it is journalled, is one step on the phase of a job.
LEMMA CalledServed ==
    ASSUME Serving, Serving',
           Called(PhaseOf(journal.entries), PhaseOf(journal'.entries))
    PROVE  Served
<1>1. PICK f : f = PhaseOf(journal.entries)
  OBVIOUS
<1>2. f = [i \in Job |-> f[i]]
  BY <1>1, PhaseOfIs
<1>3. CASE PhaseOf(journal'.entries) = f
  BY <1>1, <1>3 DEF Served, Contract!admissionsVars
<1>4. CASE \E j \in Job, b \in BoundPhase \cup {"none"} :
             Moves(f[j], b) /\ PhaseOf(journal'.entries) = With(f, j, b)
  <2>1. PICK j \in Job, b \in BoundPhase \cup {"none"} :
             Moves(f[j], b) /\ PhaseOf(journal'.entries) = With(f, j, b)
    BY <1>4
  <2>2. PhaseOf(journal'.entries) = [f EXCEPT ![j] = b]
    BY <1>2, <2>1 DEF With
  <2>3. CASE f[j] = "none" /\ b = "bound"
    <3>1. Contract!Bind(j) BY <1>1, <2>2, <2>3 DEF Contract!Bind
    <3>2. QED BY <3>1 DEF Served, Contract!Next
  <2>4. CASE f[j] = "bound" /\ b = "terminal_pending"
    <3>1. Contract!MarkTerminalPending(j)
      BY <1>1, <2>2, <2>4 DEF Contract!MarkTerminalPending
    <3>2. QED BY <3>1 DEF Served, Contract!Next
  <2>5. CASE f[j] \in {"bound", "terminal_pending"} /\ b = "unresolved"
    <3>1. Contract!MarkUnresolved(j)
      BY <1>1, <2>2, <2>5 DEF Contract!MarkUnresolved
    <3>2. QED BY <3>1 DEF Served, Contract!Next
  <2>6. CASE f[j] # "none" /\ b = "none"
    <3>1. Contract!Release(j) BY <1>1, <2>2, <2>6 DEF Contract!Release
    <3>2. QED BY <3>1 DEF Served, Contract!Next
  <2>7. QED
    BY <2>1, <2>3, <2>4, <2>5, <2>6 DEF Moves
<1>5. QED
  BY <1>1, <1>3, <1>4 DEF Called

\* The write that lands is the step; only that of a reconstruction begins to serve.
LEMMA WriteServed ==
    ASSUME IInv, Promised, WriteOk
    PROVE  Served
<1>1. /\ up /\ up' /\ writing /\ chain # <<>> /\ chain' = Tail(chain)
      /\ journal'.entries = reservations /\ journal.entries = saved.reservations
  BY DEF WriteOk, Settle, IInv, Agreement
<1>2. Serving'
  BY <1>1, TailPromised DEF Serving
<1>3. CASE Head(chain).op = "reconstruct"
  <2>1. PICK active : active = Head(chain).active
    OBVIOUS
  <2>2. active \in SUBSET Job
    <3>1. Head(chain) \in Request
      BY <1>1 DEF IInv, TypeOK
    <3>2. QED
      BY <2>1, <3>1 DEF Request
  <2>3. Reconstructed(PhaseOf(journal.entries), PhaseOf(journal'.entries), active)
    BY <1>1, <1>3, <2>1 DEF Promised
  <2>4. ~Serving
    BY <1>1, <1>3 DEF Serving
  <2>5. Contract!Reconstruct(active)
    BY <1>2, <2>3, <2>4 DEF Contract!Reconstruct, Reconstructed
  <2>6. QED
    BY <2>2, <2>5 DEF Served, Contract!Next
<1>4. CASE Head(chain).op # "reconstruct"
  <2>1. Serving
    BY <1>1, <1>4 DEF Serving
  <2>2. Called(PhaseOf(journal.entries), PhaseOf(journal'.entries))
    BY <1>1, <1>4 DEF Promised
  <2>3. QED
    BY <1>2, <2>1, <2>2, CalledServed
<1>5. QED
  BY <1>3, <1>4

\* Every step of the controller is a step of the contract or none.
LEMMA StepServed ==
    ASSUME IInv, IInv', Promised, [Next]_vars
    PROVE  Served
<1>0. ASSUME journal'.entries = journal.entries, Serving' = Serving PROVE Served
  BY <1>0 DEF Served, Contract!admissionsVars
<1>1. CASE \/ \E q \in Requester : CallAcquire(q)
           \/ \E u \in Uuid, j \in Job : CallBind(u, j)
           \/ \E op \in {"terminalPending", "unresolved", "release"} :
                \/ \E t \in FreshToken : CallByLease(op, t)
                \/ \E j \in Job : CallByJob(op, j)
           \/ CallClose
  BY <1>0, <1>1, CallsPromised
<1>2. CASE Run
  BY <1>0, <1>2, RunPromised
<1>3. CASE WriteOk
  BY <1>3, WriteServed
<1>4. CASE WriteFail
  <2>1. /\ up /\ up' /\ chain # <<>> /\ chain' = Tail(chain) /\ journal' = journal
    BY <1>4 DEF WriteFail, Settle, IInv, Agreement
  <2>2. Serving'
    BY <2>1, TailPromised DEF Serving
  <2>3. CASE Serving
    BY <1>0, <2>1, <2>2, <2>3
  <2>4. CASE ~Serving
    <3>1. Contract!ReconstructFails
      BY <2>1, <2>2, <2>4 DEF Contract!ReconstructFails
    <3>2. QED BY <3>1 DEF Served, Contract!Next
  <2>5. QED
    BY <2>3, <2>4
<1>5. CASE Crash
  <2>1. ~Serving' /\ journal' = journal
    BY <1>5 DEF Crash, Serving
  <2>2. CASE Serving
    <3>1. Contract!Crash
      BY <2>1, <2>2 DEF Contract!Crash
    <3>2. QED BY <3>1 DEF Served, Contract!Next
  <2>3. CASE ~Serving
    BY <1>0, <2>1, <2>3 DEF Serving
  <2>4. QED
    BY <2>2, <2>3
<1>6. CASE \E active \in SUBSET Job : Load(active)
  <2>1. PICK active \in SUBSET Job : Load(active)
    BY <1>6
  <2>2. /\ ~up /\ journal'.entries = journal.entries
        /\ chain' = <<[Bare("reconstruct") EXCEPT !.active = active]>>
    BY <2>1 DEF Load, IInv, TypeOK
  <2>3. chain' # <<>> /\ Head(chain').op = "reconstruct"
    BY <2>2 DEF Bare
  <2>4. ~Serving /\ ~Serving'
    BY <2>2, <2>3 DEF Serving
  <2>5. QED
    BY <1>0, <2>2, <2>4 DEF Serving
<1>7. CASE UNCHANGED vars
  BY <1>0, <1>7 DEF vars, Serving
<1>8. QED
  BY <1>1, <1>2, <1>3, <1>4, <1>5, <1>6, <1>7 DEF Next

\* The controller starts without reservations.
LEMMA InitServed == Init => Contract!Init
<1> SUFFICES ASSUME Init PROVE Contract!Init
  OBVIOUS
<1>1. JobsDistinct(NoReservations) /\ journal.entries = NoReservations /\ Serving
  BY EmptySound DEF Init, Sound, Serving
<1>2. \A j \in Job : PhaseOf(journal.entries)[j] = "none"
  <2>1. \A t \in Token : NoReservations[t].job = None
    BY DEF NoReservations, Absent
  <2>2. QED
    BY <1>1, <2>1, PhaseOfJob, DirectoryTyped
<1>3. [j \in Job |-> PhaseOf(journal.entries)[j]] = [j \in Job |-> "none"]
  BY <1>2
<1>4. QED
  BY <1>1, <1>3, PhaseOfIs DEF Contract!Init

\* Queued calls, failed writes, rollbacks and crashes included, the journal of
\* the controller gives the agent service what Admissions promises: each call
\* takes effect at once or not at all, a crash loses none that was answered, and
\* nothing but its release frees the reservation of a job.
THEOREM AdmissionsImplemented == Spec => ImplementsAdmissions
<1>1. IInv /\ Promised /\ [Next]_vars => Promised'
  BY StepKeeps, StepPromised
<1>2. IInv /\ Promised /\ [Next]_vars => [Contract!Next]_(Contract!admissionsVars)
  BY StepKeeps, StepServed DEF Served
<1>3. QED
  BY <1>1, <1>2, InitPromised, InitServed, Inductive, PTL
     DEF Spec, ImplementsAdmissions, Contract!Spec
=============================================================================
