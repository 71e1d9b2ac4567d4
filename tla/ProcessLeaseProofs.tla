------------------------- MODULE ProcessLeaseProofs -------------------------
(***************************************************************************)
(* Theorems about ProcessLease for every set of processes and any number   *)
(* of stores.  LiveLeaseKept is made inductive with three facts: which     *)
(* calls a process makes while it works on a quarantine (AsideInv), that a *)
(* process that has not started stands at the first store (FreshInv), and  *)
(* that a process inside the private home owns it (HomeInv).               *)
(* SomeoneGetsTheStores follows from an invariant of its own, RaceInv.     *)
(***************************************************************************)
EXTENDS ProcessLease, TLAPS

\* The calls a process makes with a directory in its quarantine.
Carrying == {"verify", "restore", "putback", "dropVerify", "dropRestore", "dropPutback",
             "releaseVerify", "releaseRestore", "releasePutback"}

\* The calls a process makes between mkdir and rmdir of the private home.
AtHome == {"name", "reserved", "unlink", "rmdir"}

AsideInv == \A p \in Process : aside[p] # None <=> pc[p] \in Carrying

HomeInv == \A p \in Process : pc[p] \in AtHome => home.owner = p

FreshInv == \A p \in Process : pc[p] = "off" => at[p] = 1

IInv == /\ TypeOK
        /\ AsideInv
        /\ HomeInv
        /\ FreshInv
        /\ LiveLeaseKept

\* The stores are numbered without gaps.
LEMMA StoreFacts ==
    /\ NStores \in Store /\ 1 \in Store
    /\ \A s \in Store : /\ s < NStores => s + 1 \in Store
                        /\ s > 1 => s - 1 \in Store
                        /\ s \in Nat /\ s >= 1 /\ s <= NStores
  BY NStoresAssumption, SMT DEF Store

\* A step of process p.
Act(p) == \/ Start(p) \/ AcquireStep(p) \/ Release(p)
          \/ ReleaseStep(p) \/ HomeStep(p) \/ Crash(p)

HomeType == [owner : Process \cup {None}, named : BOOLEAN]

\* The records that home is assigned.
LEMMA HomeValues ==
    /\ [owner |-> None, named |-> FALSE] \in HomeType
    /\ \A p \in Process : [owner |-> p, named |-> FALSE] \in HomeType
  BY DEF HomeType

\* Every call of process-lease.ts leaves every variable in its type.
LEMMA TypeStep ==
    ASSUME TypeOK, AsideInv, NEW p \in Process, Act(p)
    PROVE  TypeOK'
  <1> USE StoreFacts, NoneAssumption
  <1> USE DEF TypeOK, AsideInv, Carrying, StoreOf, Goto, PC, Acquiring, Holding, Refusing,
              Releasing, Ended, Alive
  <1>1. CASE Start(p) BY <1>1 DEF Start
  <1>2. CASE Commit(p) BY <1>2 DEF Commit
  <1>3. CASE Blocked(p) BY <1>3 DEF Blocked
  <1>4. CASE Look(p) BY <1>4 DEF Look
  <1>5. CASE Read(p) BY <1>5 DEF Read, Conflict
  <1>6. CASE Judge(p) BY <1>6 DEF Judge, Conflict
  <1>7. CASE Move(p) BY <1>7 DEF Move, MoveAside
  <1>8. CASE Verify(p) BY <1>8 DEF Verify
  <1>9. CASE Restore(p) BY <1>9 DEF Restore, LeaveStray, Conflict
  <1>10. CASE Putback(p) BY <1>10 DEF Putback, PutBack, LeaveStray, Conflict
  <1>11. CASE Release(p) BY <1>11 DEF Release
  <1>12. CASE ReleaseMove(p) BY <1>12 DEF ReleaseMove, MoveAside, NextRelease, Ending
  <1>13. CASE ReleaseVerify(p) BY <1>13 DEF ReleaseVerify, NextRelease, Ending
  <1>14. CASE ReleaseRestore(p) BY <1>14 DEF ReleaseRestore, LeaveStray, NextRelease, Ending
  <1>15. CASE ReleasePutback(p) BY <1>15 DEF ReleasePutback, PutBack, LeaveStray, NextRelease, Ending
  <1>16. CASE Reserve(p) BY <1>16 DEF Reserve, HomeSame
  <1>17. CASE MakeHome(p)
    <2>1. home' \in HomeType
      <3>1. home \in HomeType BY DEF HomeType
      <3>2. home' = home \/ home' = [owner |-> p, named |-> FALSE]
        BY <1>17 DEF MakeHome
      <3>3. QED BY <3>1, <3>2, HomeValues
    <2>2. QED BY <2>1, <1>17 DEF MakeHome, HomeSame, HomeType
  <1>18. CASE NameHome(p) BY <1>18 DEF NameHome, HomeSame
  <1>19. CASE Dispose(p) BY <1>19 DEF Dispose, HomeSame
  <1>20. CASE UnlinkHome(p) BY <1>20 DEF UnlinkHome, HomeSame
  <1>21. CASE RmdirHome(p)
    <2>1. home' \in HomeType
      <3>1. home \in HomeType BY DEF HomeType
      <3>2. home' = home \/ home' = [owner |-> None, named |-> FALSE]
        BY <1>21 DEF RmdirHome, NoHome
      <3>3. QED BY <3>1, <3>2, HomeValues
    <2>2. QED BY <2>1, <1>21 DEF RmdirHome, HomeSame, HomeType
  <1>22. CASE Crash(p) BY <1>22 DEF Crash, LeaveStray
  <1> QED BY <1>1, <1>2, <1>3, <1>4, <1>5, <1>6, <1>7, <1>8, <1>9, <1>10, <1>11, <1>12,
             <1>13, <1>14, <1>15, <1>16, <1>17, <1>18, <1>19, <1>20, <1>21, <1>22
          DEF Act, AcquireStep, ReleaseStep, HomeStep

\* A process works on a quarantine exactly between the rename that made it and
\* the call that deletes it, puts it back or gives up on it.
LEMMA AsideStep ==
    ASSUME TypeOK, AsideInv, NEW p \in Process, Act(p)
    PROVE  AsideInv'
  <1> USE StoreFacts, NoneAssumption
  <1> USE DEF TypeOK, AsideInv, Carrying, StoreOf, Goto, PC, Acquiring, Holding, Refusing,
              Releasing, Ended, Alive
  <1>1. CASE Start(p) BY <1>1 DEF Start
  <1>2. CASE Commit(p) BY <1>2 DEF Commit
  <1>3. CASE Blocked(p) BY <1>3 DEF Blocked
  <1>4. CASE Look(p) BY <1>4 DEF Look
  <1>5. CASE Read(p) BY <1>5 DEF Read, Conflict
  <1>6. CASE Judge(p) BY <1>6 DEF Judge, Conflict
  <1>7. CASE Move(p) BY <1>7 DEF Move, MoveAside
  <1>8. CASE Verify(p) BY <1>8 DEF Verify
  <1>9. CASE Restore(p) BY <1>9 DEF Restore, LeaveStray, Conflict
  <1>10. CASE Putback(p) BY <1>10 DEF Putback, PutBack, LeaveStray, Conflict
  <1>11. CASE Release(p) BY <1>11 DEF Release
  <1>12. CASE ReleaseMove(p) BY <1>12 DEF ReleaseMove, MoveAside, NextRelease, Ending
  <1>13. CASE ReleaseVerify(p) BY <1>13 DEF ReleaseVerify, NextRelease, Ending
  <1>14. CASE ReleaseRestore(p) BY <1>14 DEF ReleaseRestore, LeaveStray, NextRelease, Ending
  <1>15. CASE ReleasePutback(p) BY <1>15 DEF ReleasePutback, PutBack, LeaveStray, NextRelease, Ending
  <1>16. CASE HomeStep(p)
    BY <1>16 DEF HomeStep, Reserve, MakeHome, NameHome, Dispose, UnlinkHome, RmdirHome, HomeSame
  <1>17. CASE Crash(p) BY <1>17 DEF Crash, LeaveStray
  <1> QED BY <1>1, <1>2, <1>3, <1>4, <1>5, <1>6, <1>7, <1>8, <1>9, <1>10, <1>11, <1>12,
             <1>13, <1>14, <1>15, <1>16, <1>17
          DEF Act, AcquireStep, ReleaseStep

\* The directory of q for store s is at the final path or in a quarantine.
Kept(s, q) == \/ final[s] = q
              \/ \E r \in Process : aside[r] = q /\ at[r] = s
              \/ <<s, q>> \in strays

\* A step that moves no directory keeps every one.
LEMMA KeptFrame ==
    ASSUME NEW s \in Store, NEW q \in Process, Kept(s, q), strays' = strays,
           final[s] = q => final'[s] = q, aside' = aside,
           \A r \in Process : aside[r] # None => at'[r] = at[r]
    PROVE  Kept(s, q)'
  BY NoneAssumption DEF Kept

\* No call deletes the directory of a live process, except the release of that
\* store by the process itself.
LEMMA KeptStep ==
    ASSUME TypeOK, AsideInv, NEW p \in Process, Act(p),
           NEW s \in Store, NEW q \in Process, Kept(s, q), pc[q] # "dead",
           ~(ReleaseVerify(p) /\ p = q /\ s = at[p])
    PROVE  Kept(s, q)'
  <1> USE StoreFacts, NoneAssumption
  <1> USE DEF TypeOK, AsideInv, Carrying, StoreOf, Goto, PC, Acquiring, Holding, Refusing,
              Releasing, Ended, Alive
  <1>1. CASE Start(p) BY <1>1, KeptFrame DEF Start
  <1>2. CASE Commit(p)
    <2>1. final[s] = q => final'[s] = q BY <1>2 DEF Commit
    <2>2. \A r \in Process : aside[r] # None => at'[r] = at[r] BY <1>2 DEF Commit
    <2>3. aside' = aside /\ strays' = strays BY <1>2 DEF Commit
    <2>4. QED BY <2>1, <2>2, <2>3, KeptFrame
  <1>3. CASE Blocked(p) BY <1>3, KeptFrame DEF Blocked
  <1>4. CASE Look(p) BY <1>4, KeptFrame DEF Look
  <1>5. CASE Read(p)
    <2>2. \A r \in Process : aside[r] # None => at'[r] = at[r] BY <1>5 DEF Read, Conflict
    <2>3. aside' = aside /\ strays' = strays /\ final' = final BY <1>5 DEF Read
    <2>4. QED BY <2>2, <2>3, KeptFrame
  <1>6. CASE Judge(p)
    <2>2. \A r \in Process : aside[r] # None => at'[r] = at[r] BY <1>6 DEF Judge, Conflict
    <2>3. aside' = aside /\ strays' = strays /\ final' = final BY <1>6 DEF Judge
    <2>4. QED BY <2>2, <2>3, KeptFrame
  <1>7. CASE Move(p) \/ ReleaseMove(p)
    <2>1. CASE final[at[p]] # None
      <3>1. MoveAside(p) /\ at' = at /\ strays' = strays
        BY <1>7, <2>1 DEF Move, ReleaseMove, NextRelease
      <3>0. aside[p] = None BY <1>7 DEF Move, ReleaseMove
      <3>2. CASE final[s] = q /\ s = at[p]
        <4>1. aside'[p] = q /\ at'[p] = s BY <3>1, <3>2 DEF MoveAside
        <4>2. QED BY <4>1 DEF Kept
      <3>3. CASE final[s] = q /\ s # at[p]
        <4>1. final'[s] = q BY <3>1, <3>3 DEF MoveAside
        <4>2. QED BY <4>1 DEF Kept
      <3>4. CASE \E r \in Process : aside[r] = q /\ at[r] = s
        <4>1. PICK r \in Process : aside[r] = q /\ at[r] = s BY <3>4
        <4>2. aside'[r] = q /\ at'[r] = s BY <3>0, <3>1, <4>1 DEF MoveAside
        <4>3. QED BY <4>2 DEF Kept
      <3>5. CASE <<s, q>> \in strays BY <3>1, <3>5 DEF Kept
      <3>6. QED BY <3>2, <3>3, <3>4, <3>5 DEF Kept
    <2>2. CASE final[at[p]] = None
      <3>1. aside' = aside /\ strays' = strays /\ final' = final
        BY <1>7, <2>2 DEF Move, ReleaseMove
      <3>2. \A r \in Process : aside[r] # None => at'[r] = at[r]
        BY <1>7, <2>2 DEF Move, ReleaseMove, NextRelease
      <3>3. QED BY <3>1, <3>2, KeptFrame
    <2>3. QED BY <2>1, <2>2
  <1>8. CASE Verify(p) BY <1>8 DEF Verify, Reclaims, DemonstrablyStale, Kept
  <1>9. CASE Restore(p) \/ Putback(p) \/ ReleaseRestore(p) \/ ReleasePutback(p)
    <2>1. \A r \in Process \ {p} : at'[r] = at[r] /\ aside'[r] = aside[r]
      BY <1>9 DEF Restore, Putback, ReleaseRestore, ReleasePutback, PutBack, LeaveStray,
                  Conflict, NextRelease
    <2>2. \/ LeaveStray(p)
          \/ final[at[p]] = None /\ PutBack(p)
          \/ aside' = aside /\ at' = at /\ final' = final /\ strays' = strays
      BY <1>9 DEF Restore, Putback, ReleaseRestore, ReleasePutback
    <2>3. strays \subseteq strays' /\ (final[s] = q => final'[s] = q)
      BY <2>2 DEF LeaveStray, PutBack
    <2>4. CASE aside[p] = q /\ at[p] = s BY <2>2, <2>4 DEF LeaveStray, PutBack, Kept
    <2>5. CASE \E r \in Process \ {p} : aside[r] = q /\ at[r] = s BY <2>1, <2>5 DEF Kept
    <2>6. QED BY <2>3, <2>4, <2>5 DEF Kept
  <1>11. CASE Release(p)
    <2>1. \A r \in Process : aside[r] # None => at'[r] = at[r] BY <1>11 DEF Release
    <2>2. QED BY <2>1, <1>11, KeptFrame DEF Release
  <1>13. CASE ReleaseVerify(p) BY <1>13 DEF ReleaseVerify, NextRelease, Kept
  <1>16. CASE HomeStep(p)
    BY <1>16, KeptFrame
       DEF HomeStep, Reserve, MakeHome, NameHome, Dispose, UnlinkHome, RmdirHome, HomeSame
  <1>17. CASE Crash(p) BY <1>17 DEF Crash, LeaveStray, Kept
  <1> QED BY <1>1, <1>2, <1>3, <1>4, <1>5, <1>6, <1>7, <1>8, <1>9, <1>11, <1>13, <1>16, <1>17
          DEF Act, AcquireStep, ReleaseStep

\* A process comes to count on a store only by its own commit, on none when it
\* is dead, and no longer on the one it releases.
LEMMA LeasedStep ==
    ASSUME TypeOK, FreshInv, NEW p \in Process, Act(p), NEW q \in Process
    PROVE  /\ \/ Leased(q)' \subseteq Leased(q)
              \/ /\ p = q /\ Commit(p)
                 /\ Leased(q)' \subseteq Leased(q) \cup {at[p]}
           /\ pc[q] = "dead" => Leased(q)' = {}
           /\ ReleaseVerify(p) => at[p] \notin Leased(p)'
           /\ (pc[q] = "off" => at[q] = 1)'
  <1> USE StoreFacts
  <1> USE DEF TypeOK, FreshInv, StoreOf, Goto, PC, Acquiring, Holding, Refusing,
              Releasing, Ended, Alive, Leased, Store
  <1>0. CASE p # q
    <2>1. pc'[q] = pc[q] /\ at'[q] = at[q]
      BY <1>0 DEF Act, AcquireStep, ReleaseStep, HomeStep, Start, Commit, Blocked, Look, Read, Judge, Move,
           Verify, Restore, Putback, Release, ReleaseMove, ReleaseVerify, ReleaseRestore,
           ReleasePutback, Crash, Conflict, NextRelease, Reserve, MakeHome, NameHome, Dispose,
           UnlinkHome, RmdirHome, HomeSame
    <2>2. ReleaseVerify(p) => at[p] \notin Leased(p)'
      BY DEF ReleaseVerify, NextRelease, Ending
    <2>3. QED BY <1>0, <2>1, <2>2
  <1>1. CASE p = q
    <2> USE <1>1
    <2>1. CASE Start(p) BY <2>1 DEF Start
    <2>2. CASE Commit(p)
      <3>1. pc[p] = "stage" /\ at[p] \in Nat /\ Leased(p) = 1..(at[p] - 1)
        BY <2>2 DEF Commit
      <3>2. CASE at[p] < NStores /\ at'[p] = at[p] + 1 /\ pc'[p] = "stage"
        <4>1. Leased(p)' = 1..at[p] BY <3>1, <3>2
        <4>2. QED BY <2>2, <3>1, <3>2, <4>1 DEF ReleaseVerify
      <3>3. CASE at[p] = NStores /\ pc'[p] = "hold"
        <4>1. Leased(p)' = 1..at[p] BY <3>3
        <4>2. QED BY <2>2, <3>1, <3>3, <4>1 DEF ReleaseVerify
      <3>4. QED BY <2>2, <3>1, <3>2, <3>3 DEF Commit
    <2>3. CASE Blocked(p) \/ Look(p) BY <2>3 DEF Blocked, Look
    <2>4. CASE Read(p) BY <2>4 DEF Read, Conflict
    <2>5. CASE Judge(p) BY <2>5 DEF Judge, Conflict
    <2>6. CASE Move(p) \/ Verify(p) BY <2>6 DEF Move, Verify
    <2>7. CASE Restore(p) BY <2>7 DEF Restore, Conflict
    <2>8. CASE Putback(p) BY <2>8 DEF Putback, Conflict
    <2>9. CASE Release(p)
      <3>1. pc[p] \in Holding /\ pc'[p] = "release" /\ at'[p] = NStores BY <2>9 DEF Release
      <3>2. Leased(p)' = Store /\ Leased(p) = Store BY <3>1
      <3>3. QED BY <2>9, <3>1, <3>2 DEF Release, ReleaseVerify
    <2>10. CASE ReleaseMove(p) BY <2>10 DEF ReleaseMove, NextRelease, Ending
    <2>11. CASE ReleaseVerify(p) BY <2>11 DEF ReleaseVerify, NextRelease, Ending
    <2>12. CASE ReleaseRestore(p) BY <2>12 DEF ReleaseRestore, NextRelease, Ending
    <2>13. CASE ReleasePutback(p) BY <2>13 DEF ReleasePutback, NextRelease, Ending
    <2>14. CASE HomeStep(p)
      <3>1. pc[p] \in Holding /\ pc'[p] \in Holding /\ ~ReleaseVerify(p)
        BY <2>14 DEF HomeStep, Reserve, MakeHome, NameHome, Dispose, UnlinkHome, RmdirHome,
                     ReleaseVerify
      <3>2. Leased(p)' = Store /\ Leased(p) = Store BY <3>1
      <3>3. QED BY <2>14, <3>1, <3>2
    <2>15. CASE Crash(p) BY <2>15 DEF Crash
    <2> QED BY <2>1, <2>2, <2>3, <2>4, <2>5, <2>6, <2>7, <2>8, <2>9, <2>10, <2>11, <2>12,
               <2>13, <2>14, <2>15 DEF Act, AcquireStep, ReleaseStep
  <1> QED BY <1>0, <1>1

\* A process is inside the private home from its own mkdir to its own rmdir.
LEMMA HomeSteps ==
    ASSUME TypeOK, HomeInv, NEW p \in Process, Act(p)
    PROVE  HomeInv'
  <1> USE NoneAssumption
  <1> USE DEF TypeOK, HomeInv, AtHome, Goto
  <1>1. CASE ~HomeStep(p)
    <2>1. home' = home /\ \A q \in Process : q # p => pc'[q] = pc[q]
      BY <1>1 DEF Act, AcquireStep, ReleaseStep, Start, Commit, Blocked, Look, Read, Judge, Move,
           Verify, Restore, Putback, Release, ReleaseMove, ReleaseVerify, ReleaseRestore,
           ReleasePutback, Crash, Conflict, NextRelease
    <2>2. pc'[p] \notin AtHome
      BY <1>1 DEF Act, AcquireStep, ReleaseStep, Start, Commit, Blocked, Look, Read, Judge, Move,
           Verify, Restore, Putback, Release, ReleaseMove, ReleaseVerify, ReleaseRestore,
           ReleasePutback, Crash, Conflict, NextRelease, Ending
    <2>3. QED BY <2>1, <2>2
  <1>2. CASE MakeHome(p) BY <1>2 DEF MakeHome, NoHome
  <1>3. CASE RmdirHome(p) BY <1>3 DEF RmdirHome, NoHome
  <1>4. CASE Reserve(p) \/ NameHome(p) \/ Dispose(p) \/ UnlinkHome(p)
    BY <1>4 DEF Reserve, NameHome, Dispose, UnlinkHome
  <1> QED BY <1>1, <1>2, <1>3, <1>4 DEF HomeStep

\* What a process counts on after a step it counted on before, or has committed.
LEMMA LiveLeaseStep ==
    ASSUME TypeOK, AsideInv, FreshInv, LiveLeaseKept, NEW p \in Process, Act(p)
    PROVE  LiveLeaseKept'
  <1> SUFFICES ASSUME NEW q \in Process, NEW s \in Leased(q)'
               PROVE  Kept(s, q)'
    BY DEF LiveLeaseKept, Kept
  <1>1. s \in Store
    <2>1. TypeOK' BY TypeStep
    <2>2. QED BY <2>1, StoreFacts DEF TypeOK, Leased, Store
  <1>2. /\ \/ Leased(q)' \subseteq Leased(q)
           \/ /\ p = q /\ Commit(p)
              /\ Leased(q)' \subseteq Leased(q) \cup {at[p]}
        /\ pc[q] = "dead" => Leased(q)' = {}
        /\ ReleaseVerify(p) => at[p] \notin Leased(p)'
    BY LeasedStep DEF Leased
  <1>3. CASE s \in Leased(q)
    <2>1. Kept(s, q) BY <1>3 DEF LiveLeaseKept, Kept
    <2>2. pc[q] # "dead" /\ ~(ReleaseVerify(p) /\ p = q /\ s = at[p]) BY <1>2
    <2>3. QED BY <1>1, <2>1, <2>2, KeptStep
  <1>4. CASE p = q /\ Commit(p) /\ s = at[p]
    <2>1. final'[s] = q BY <1>1, <1>4 DEF Commit, StoreOf, TypeOK
    <2>2. QED BY <2>1 DEF Kept
  <1> QED BY <1>2, <1>3, <1>4

\* The invariant holds whatever leases earlier processes left on the disk.
LEMMA InitInductive == Init => IInv
  <1> SUFFICES ASSUME Init PROVE IInv
    OBVIOUS
  <1> USE StoreFacts, NoneAssumption, EarlierAssumption DEF Init
  <1>1. home \in HomeType BY HomeValues DEF NoHome
  <1>2. TypeOK BY <1>1 DEF TypeOK, PC, HomeType
  <1>3. AsideInv /\ HomeInv /\ FreshInv BY DEF AsideInv, HomeInv, AtHome, FreshInv, Carrying
  <1>4. LiveLeaseKept BY DEF LiveLeaseKept, Leased
  <1> QED BY <1>2, <1>3, <1>4 DEF IInv

\* Every step of every process preserves the invariant.
LEMMA StepInductive == IInv /\ [Next]_vars => IInv'
  <1> SUFFICES ASSUME IInv, [Next]_vars PROVE IInv'
    OBVIOUS
  <1>1. CASE Next
    <2>1. PICK p \in Process : Act(p) BY <1>1 DEF Next, Act
    <2>2. TypeOK' BY <2>1, TypeStep DEF IInv
    <2>3. AsideInv' BY <2>1, AsideStep DEF IInv
    <2>4. HomeInv' BY <2>1, HomeSteps DEF IInv
    <2>5. FreshInv' BY <2>1, LeasedStep DEF IInv, FreshInv
    <2>6. LiveLeaseKept' BY <2>1, LiveLeaseStep DEF IInv
    <2>7. QED BY <2>2, <2>3, <2>4, <2>5, <2>6 DEF IInv
  <1>2. CASE UNCHANGED vars
    BY <1>2 DEF vars, IInv, TypeOK, AsideInv, HomeInv, FreshInv, LiveLeaseKept, Leased
  <1> QED BY <1>1, <1>2

\* The inductive invariant holds in every behaviour.
LEMMA Inductive == Spec => []IInv
  BY InitInductive, StepInductive, PTL DEF Spec

\* The state of the leases is well typed, for any processes and stores.
THEOREM TypeCorrect == Spec => []TypeOK
  <1>1. IInv => TypeOK BY DEF IInv
  <1> QED BY Inductive, <1>1, PTL

\* However the file system calls of acquisitions, reclaims, releases and crashes
\* interleave, the directory of a lease whose owner counts on it is never
\* deleted: it is at its final path or in a quarantine of its store.
THEOREM LiveLeaseAlwaysKept == Spec => []LiveLeaseKept
  <1>1. IInv => LiveLeaseKept BY DEF IInv
  <1> QED BY Inductive, <1>1, PTL

\* The reservation of the private home passes from a process only by its own
\* rmdir, whatever the other processes do and wherever a call fails.
THEOREM HomeIsExclusive == Spec => HomeExclusive
  <1> DEFINE A == home.owner # None
                    => \/ home'.owner = home.owner
                       \/ home' = NoHome /\ pc[home.owner] = "rmdir"
  <1>1. IInv /\ [Next]_vars => [A]_vars
    <2> SUFFICES ASSUME IInv, Next PROVE A
      OBVIOUS
    <2> USE DEF IInv, TypeOK
    <2>1. PICK p \in Process : Act(p) BY DEF Next, Act
    <2>2. CASE ~HomeStep(p)
      <3>1. home' = home
        BY <2>1, <2>2 DEF Act, AcquireStep, ReleaseStep, Start, Commit, Blocked, Look, Read, Judge,
             Move, Verify, Restore, Putback, Release, ReleaseMove, ReleaseVerify,
             ReleaseRestore, ReleasePutback, Crash
      <3>2. QED BY <3>1
    <2>3. CASE MakeHome(p) BY <2>3 DEF MakeHome, NoHome
    <2>4. CASE RmdirHome(p) BY <2>4 DEF RmdirHome, HomeInv, AtHome
    <2>5. CASE Reserve(p) \/ NameHome(p) \/ Dispose(p) \/ UnlinkHome(p)
      BY <2>5 DEF Reserve, NameHome, Dispose, UnlinkHome
    <2> QED BY <2>2, <2>3, <2>4, <2>5 DEF HomeStep
  <1> HIDE DEF A
  <1>2. Spec => [][A]_vars BY Inductive, <1>1, PTL DEF Spec
  <1> QED BY <1>2 DEF HomeExclusive, A

-----------------------------------------------------------------------------
(* SomeoneGetsTheStores.  While every process runs and none gives back what *)
(* it got (Calm), a process is turned away at a store only by one that has  *)
(* got further than it, or is about to (Race).                              *)

EarlierInv == \A p \in Earlier : pc[p] = "dead"

Calm == \A p \in Process \ Earlier : pc[p] \notin {"dead", "released"} \cup Releasing

Seeing == {"judge", "move", "verify", "restore", "putback"}

\* The directory of q for store s is in sight: on the path, judged or moved.
Item(s, q) == \/ final[s] = q
              \/ \E r \in Process : at[r] = s /\ (seen[r] = q \/ aside[r] = q)

\* A process has store s and is still in the race, or is about to take it.
Past(s) == \E x \in Process : pc[x] \in Holding \/ (pc[x] \in Acquiring /\ at[x] > s)
About(s) == \E x \in Process : at[x] = s /\ pc[x] \in {"stage", "verify"}

ProcOk(p) ==
    /\ seen[p] # None <=> pc[p] \in Seeing
    /\ pc[p] \in Seeing \ {"judge"} => seen[p] \in Earlier
    /\ pc[p] \in {"restore", "putback"} => aside[p] \notin Earlier
    /\ pc[p] \in Refusing => Past(at[p])
    /\ pc[p] = "refused" => Past(0)
    /\ pc[p] = "read" /\ final[at[p]] = None => Past(at[p]) \/ About(at[p])

StoreOk(s) ==
    /\ \A q, r \in Earlier : Item(s, q) /\ Item(s, r) => q = r
    /\ \A q \in Process \ Earlier : Item(s, q) => Past(s)

Race == (\A p \in Process : ProcOk(p)) /\ (\A s \in Store : StoreOk(s))

RaceInv == EarlierInv /\ (Calm => Race)

\* What a step of p is taken from.
Racing(p) == TypeOK /\ AsideInv /\ EarlierInv /\ Calm /\ Race /\ p \notin Earlier

\* Who has a store has, or still acquires, those before it.
LEMMA PastBelow ==
    ASSUME TypeOK, NEW s \in Nat, NEW t \in Nat, s <= t, Past(t)
    PROVE  Past(s)
  <1>1. PICK x \in Process : pc[x] \in Holding \/ (pc[x] \in Acquiring /\ at[x] > t)
    BY DEF Past
  <1>2. at[x] \in Nat BY StoreFacts DEF TypeOK
  <1>3. pc[x] \in Holding \/ (pc[x] \in Acquiring /\ at[x] > s) BY <1>1, <1>2
  <1> QED BY <1>3 DEF Past

\* The other processes stand where they stood.
Alone(p) == \A q \in Process \ {p} :
               pc'[q] = pc[q] /\ at'[q] = at[q] /\ seen'[q] = seen[q] /\ aside'[q] = aside[q]

\* Nobody falls back.
PastKept == \A s \in Nat : Past(s) => Past(s)'

\* No directory comes into sight but the one a process puts at its store.
ItemsKept == \A s \in Store, q \in Process : Item(s, q)' => Item(s, q) \/ (q \notin Earlier /\ Past(s)')

\* A path is empty only under the hands of a process that is there or further.
GapKept == \A s \in Store : final'[s] = None /\ (final[s] # None \/ Past(s) \/ About(s))
                                => Past(s)' \/ About(s)'

\* A step keeps Race when it keeps these and the facts about its own process.
LEMMA RaceFrame ==
    ASSUME NEW p \in Process, Racing(p), TypeOK', Alone(p),
           PastKept, ItemsKept, GapKept, ProcOk(p)'
    PROVE  Race'
  <1>1. ASSUME NEW q \in Process PROVE ProcOk(q)'
    <2>1. CASE q = p BY <2>1
    <2>2. CASE q # p
      <3>1. pc'[q] = pc[q] /\ at'[q] = at[q] /\ seen'[q] = seen[q] /\ aside'[q] = aside[q]
        BY <2>2 DEF Alone
      <3>2. PICK t \in Store : t = at[q] BY DEF Racing, TypeOK
      <3>3. ProcOk(q) /\ t \in Nat BY StoreFacts DEF Racing, Race
      <3>4. pc[q] \in Refusing => Past(t)' BY <3>2, <3>3 DEF ProcOk, PastKept
      <3>5. pc[q] = "refused" => Past(0)' BY <3>3 DEF ProcOk, PastKept
      <3>6. pc[q] = "read" /\ final'[t] = None => Past(t)' \/ About(t)'
        BY <3>2, <3>3 DEF ProcOk, GapKept
      <3> QED BY <3>1, <3>2, <3>3, <3>4, <3>5, <3>6 DEF ProcOk
    <2> QED BY <2>1, <2>2
  <1>2. ASSUME NEW s \in Store PROVE StoreOk(s)'
    <2>1. StoreOk(s) /\ s \in Nat BY StoreFacts DEF Racing, Race
    <2>2. ASSUME NEW q \in Earlier, NEW r \in Earlier, Item(s, q)', Item(s, r)' PROVE q = r
      BY <2>1, <2>2, EarlierAssumption DEF ItemsKept, StoreOk
    <2>3. ASSUME NEW q \in Process \ Earlier, Item(s, q)' PROVE Past(s)'
      BY <2>1, <2>3 DEF ItemsKept, StoreOk, PastKept
    <2> QED BY <2>2, <2>3 DEF StoreOk
  <1> QED BY <1>1, <1>2 DEF Race

\* A process that is not in the race, or that stays in it, takes nobody back.
LEMMA PastStays ==
    ASSUME NEW p \in Process, TypeOK, TypeOK', Alone(p),
           pc[p] \in Holding => pc'[p] \in Holding,
           pc[p] \in Acquiring => pc'[p] \in Holding \/ (pc'[p] \in Acquiring /\ at'[p] >= at[p])
    PROVE  PastKept
  <1> SUFFICES ASSUME NEW s \in Nat, Past(s) PROVE Past(s)'
    BY DEF PastKept
  <1>1. PICK x \in Process : pc[x] \in Holding \/ (pc[x] \in Acquiring /\ at[x] > s)
    BY DEF Past
  <1>2. at[x] \in Nat /\ at'[x] \in Nat BY StoreFacts DEF TypeOK
  <1>3. pc'[x] \in Holding \/ (pc'[x] \in Acquiring /\ at'[x] > s)
    BY <1>1, <1>2 DEF Alone
  <1> QED BY <1>3 DEF Past

\* A process that leaves the race at a store leaves somebody in it who has got
\* this far.
LEMMA PastConflict ==
    ASSUME NEW p \in Process, TypeOK, TypeOK', Alone(p), pc[p] \in Acquiring,
           \/ Past(at[p])
           \/ \E x \in Process \ {p} : at[x] = at[p] /\ pc[x] \in {"stage", "verify"}
    PROVE  PastKept /\ \A s \in Nat : s < at[p] => Past(s)'
  <1>0. at[p] \in Nat /\ \A x \in Process : at[x] \in Nat BY StoreFacts DEF TypeOK
  <1>1. PICK x \in Process \ {p} : \/ pc[x] \in Holding
                                   \/ pc[x] \in Acquiring /\ at[x] >= at[p]
    <2>1. CASE Past(at[p])
      <3>1. PICK x \in Process : pc[x] \in Holding \/ (pc[x] \in Acquiring /\ at[x] > at[p])
        BY <2>1 DEF Past
      <3>2. x # p BY <3>1, <1>0 DEF Acquiring, Holding
      <3> QED BY <3>1, <3>2, <1>0
    <2>2. CASE \E x \in Process \ {p} : at[x] = at[p] /\ pc[x] \in {"stage", "verify"}
      BY <2>2, <1>0 DEF Acquiring
    <2> QED BY <2>1, <2>2
  <1>2. pc'[x] = pc[x] /\ at'[x] = at[x] BY <1>1 DEF Alone
  <1>3. ASSUME NEW s \in Nat, s < at[p] PROVE Past(s)'
    <2>1. pc'[x] \in Holding \/ (pc'[x] \in Acquiring /\ at'[x] > s)
      BY <1>0, <1>1, <1>2, <1>3
    <2> QED BY <2>1 DEF Past
  <1>4. ASSUME NEW s \in Nat, Past(s) PROVE Past(s)'
    <2>1. CASE s < at[p] BY <2>1, <1>3
    <2>2. CASE ~(s < at[p])
      <3>1. PICK y \in Process : pc[y] \in Holding \/ (pc[y] \in Acquiring /\ at[y] > s)
        BY <1>4 DEF Past
      <3>2. y # p BY <3>1, <2>2, <1>0 DEF Acquiring, Holding
      <3>3. pc'[y] = pc[y] /\ at'[y] = at[y] BY <3>2 DEF Alone
      <3> QED BY <3>1, <3>3 DEF Past
    <2> QED BY <2>1, <2>2
  <1> QED BY <1>3, <1>4 DEF PastKept

\* A path that nobody empties, left by nobody who is about to take it.
LEMMA GapStays ==
    ASSUME NEW p \in Process, TypeOK, Alone(p), PastKept,
           \A s \in Store : final[s] # None => final'[s] # None,
           pc[p] \in {"stage", "verify"} =>
              \/ pc'[p] \in {"stage", "verify"} /\ at'[p] = at[p]
              \/ final'[at[p]] # None
              \/ Past(at[p])
    PROVE  GapKept
  <1> SUFFICES ASSUME NEW s \in Store, final'[s] = None, Past(s) \/ About(s)
               PROVE  Past(s)' \/ About(s)'
    BY DEF GapKept
  <1>1. CASE Past(s) BY <1>1, StoreFacts DEF PastKept
  <1>2. CASE About(s)
    <2>1. PICK x \in Process : at[x] = s /\ pc[x] \in {"stage", "verify"}
      BY <1>2 DEF About
    <2>2. CASE x # p BY <2>1, <2>2 DEF Alone, About
    <2>3. CASE x = p /\ Past(at[p]) BY <2>1, <2>3, StoreFacts DEF PastKept
    <2>4. CASE x = p /\ ~Past(at[p]) BY <2>1, <2>4 DEF About
    <2> QED BY <2>2, <2>3, <2>4
  <1> QED BY <1>1, <1>2

\* A process brings into sight only what stands at its store or lies in its
\* quarantine, and moves on with empty hands.
LEMMA ItemsStay ==
    ASSUME NEW p \in Process, TypeOK, Alone(p),
           \A s \in Store : \/ final'[s] = final[s] \/ final'[s] = None
                            \/ s = at[p] /\ final'[s] = aside[p],
           seen'[p] \in {None, seen[p], final[at[p]]},
           aside'[p] \in {None, aside[p], final[at[p]]},
           at'[p] = at[p] \/ (seen'[p] = None /\ aside'[p] = None)
    PROVE  ItemsKept
  <1> SUFFICES ASSUME NEW s \in Store, NEW q \in Process, Item(s, q)' PROVE Item(s, q)
    BY DEF ItemsKept
  <1>0. q # None BY NoneAssumption
  <1>1. CASE final'[s] = q BY <1>1, <1>0 DEF Item
  <1>2. CASE \E r \in Process : at'[r] = s /\ (seen'[r] = q \/ aside'[r] = q)
    <2>1. PICK r \in Process : at'[r] = s /\ (seen'[r] = q \/ aside'[r] = q)
      BY <1>2
    <2>2. CASE r # p BY <2>1, <2>2 DEF Alone, Item
    <2>3. CASE r = p BY <2>1, <2>3, <1>0 DEF Item
    <2> QED BY <2>2, <2>3
  <1> QED BY <1>1, <1>2 DEF Item

\* A conflict gives the race to somebody else.
LEMMA ConflictRace ==
    ASSUME NEW p \in Process, Racing(p), TypeOK', Alone(p), Conflict(p),
           pc[p] \in Acquiring \ {"stage", "verify"},
           \/ Past(at[p])
           \/ \E x \in Process \ {p} : at[x] = at[p] /\ pc[x] \in {"stage", "verify"},
           aside'[p] = None,
           \A s \in Store : \/ final'[s] = final[s]
                            \/ s = at[p] /\ final[s] = None /\ final'[s] = aside[p]
    PROVE  Race'
  <1>0. TypeOK /\ pc[p] \in Acquiring BY DEF Racing
  <1>1. PICK c \in Store : c = at[p] BY <1>0 DEF TypeOK
  <1>2. c \in Nat /\ c >= 1 BY StoreFacts
  <1>3. PastKept /\ \A s \in Nat : s < c => Past(s)' BY <1>0, <1>1, PastConflict
  <1>4. /\ seen'[p] = None
        /\ \/ c = 1 /\ pc'[p] = "refused"
           \/ c > 1 /\ pc'[p] = "drop" /\ at'[p] = c - 1
    BY <1>0, <1>1 DEF Conflict, Goto, TypeOK
  <1>5. Past(0)' BY <1>2, <1>3
  <1>6. c > 1 => Past(c - 1)' BY <1>2, <1>3
  <1>7. ProcOk(p)' BY <1>4, <1>5, <1>6 DEF ProcOk, Seeing, Refusing
  <1>8. ItemsKept
    <2>1. \/ at'[p] = at[p]
          \/ seen'[p] = None /\ aside'[p] = None BY <1>4
    <2>2. \A s \in Store : \/ final'[s] = final[s] \/ final'[s] = None
                           \/ s = at[p] /\ final'[s] = aside[p] OBVIOUS
    <2> QED BY <1>0, <1>4, <2>1, <2>2, ItemsStay
  <1>9. GapKept BY <1>0, <1>3, GapStays
  <1> QED BY <1>3, <1>7, <1>8, <1>9, RaceFrame

\* The release of the stores before the conflict.
LEMMA RefusingRace ==
    ASSUME NEW p \in Process, Racing(p), TypeOK', Alone(p), NextRelease(p),
           pc[p] \in Refusing, seen'[p] = seen[p], aside'[p] = None,
           \A s \in Store : \/ final'[s] = final[s]
                            \/ s = at[p] /\ final[s] = None /\ final'[s] = aside[p]
    PROVE  Race'
  <1>0. TypeOK /\ ProcOk(p) BY DEF Racing, Race
  <1>1. PICK c \in Store : c = at[p] BY <1>0 DEF TypeOK
  <1>2. c \in Nat /\ c >= 1 BY StoreFacts
  <1>3. pc[p] \notin Acquiring \cup Holding BY DEF Refusing, Acquiring, Holding
  <1>4. seen'[p] = None BY <1>0 DEF ProcOk, Refusing, Seeing
  <1>5. \/ c = 1 /\ pc'[p] = "refused"
        \/ c > 1 /\ pc'[p] = "drop" /\ at'[p] = c - 1
    BY <1>0, <1>1 DEF NextRelease, Goto, TypeOK, Ending
  <1>6. PastKept BY <1>0, <1>3, PastStays
  <1>7. Past(c) BY <1>0, <1>1 DEF ProcOk
  <1>8. Past(0)' BY <1>0, <1>2, <1>6, <1>7, PastBelow DEF PastKept
  <1>9. c > 1 => Past(c - 1)' BY <1>0, <1>2, <1>6, <1>7, PastBelow DEF PastKept
  <1>10. ProcOk(p)' BY <1>4, <1>5, <1>8, <1>9 DEF ProcOk, Seeing, Refusing
  <1>11. ItemsKept
    <2>1. \A s \in Store : \/ final'[s] = final[s] \/ final'[s] = None
                           \/ s = at[p] /\ final'[s] = aside[p] OBVIOUS
    <2> QED BY <1>0, <1>4, <2>1, ItemsStay
  <1>12. GapKept BY <1>0, <1>3, <1>6, GapStays DEF Acquiring
  <1> QED BY <1>6, <1>10, <1>11, <1>12, RaceFrame

\* A call of an acquisition that stays in the race at its store.
LEMMA StayingRace ==
    ASSUME NEW p \in Process, Racing(p), TypeOK', Alone(p),
           pc[p] \in Acquiring, pc'[p] \in Acquiring, at'[p] = at[p],
           \A s \in Store : \/ final'[s] = final[s]
                            \/ s = at[p] /\ final'[s] = None /\ pc'[p] = "verify",
           seen'[p] \in {None, seen[p], final[at[p]]},
           aside'[p] \in {None, aside[p], final[at[p]]},
           pc[p] \in {"stage", "verify"} =>
              \/ pc'[p] \in {"stage", "verify"}
              \/ final[at[p]] # None
              \/ Past(at[p]),
           seen'[p] # None <=> pc'[p] \in Seeing,
           pc'[p] \in Seeing \ {"judge"} => seen'[p] \in Earlier,
           pc'[p] \in {"restore", "putback"} => aside'[p] \notin Earlier,
           pc'[p] = "read" => final'[at[p]] # None
    PROVE  Race'
  <1>0. TypeOK BY DEF Racing
  <1>1. PICK c \in Store : c = at[p] BY <1>0 DEF TypeOK
  <1>2. c \in Nat /\ at'[p] >= at[p] BY <1>1, StoreFacts
  <1>3. pc[p] \notin Holding BY DEF Acquiring, Holding
  <1>4. PastKept BY <1>0, <1>2, <1>3, PastStays
  <1>5. pc'[p] \notin Refusing \cup {"refused"} BY DEF Acquiring, Refusing
  <1>6. ProcOk(p)' BY <1>5 DEF ProcOk
  <1>7. ItemsKept BY <1>0, ItemsStay
  <1>8. ASSUME NEW s \in Store, final'[s] = None, final[s] # None \/ Past(s) \/ About(s)
        PROVE  Past(s)' \/ About(s)'
    <2>1. CASE pc'[p] = "verify" /\ s = at[p] BY <2>1 DEF About
    <2>2. CASE Past(s) BY <2>2, <1>4, StoreFacts DEF PastKept
    <2>3. CASE About(s) /\ ~(pc'[p] = "verify" /\ s = at[p]) /\ ~Past(s)
      <3>1. PICK x \in Process : at[x] = s /\ pc[x] \in {"stage", "verify"}
        BY <2>3 DEF About
      <3>2. CASE x # p BY <3>1, <3>2 DEF Alone, About
      <3>3. CASE x = p
        <4>1. pc'[p] \in {"stage", "verify"} BY <3>1, <3>3, <2>3, <1>8
        <4> QED BY <4>1, <3>1, <3>3 DEF About
      <3> QED BY <3>2, <3>3
    <2>4. CASE final[s] # None /\ ~(pc'[p] = "verify" /\ s = at[p]) BY <2>4, <1>8
    <2> QED BY <2>1, <2>2, <2>3, <2>4, <1>8
  <1>9. GapKept BY <1>8 DEF GapKept
  <1> QED BY <1>4, <1>6, <1>7, <1>9, RaceFrame

\* Who is in the way and is not of an earlier run has got past the store.
LEMMA InTheWay ==
    ASSUME NEW p \in Process, Racing(p),
           \/ seen[p] # None /\ seen[p] \notin Earlier
           \/ aside[p] # None /\ aside[p] \notin Earlier
    PROVE  Past(at[p])
  <1>1. PICK c \in Store : c = at[p] BY DEF Racing, TypeOK
  <1>2. PICK q \in Process \ Earlier : seen[p] = q \/ aside[p] = q
    BY DEF Racing, TypeOK
  <1>3. Item(c, q) BY <1>1, <1>2 DEF Item
  <1>4. StoreOk(c) BY DEF Racing, Race
  <1> QED BY <1>1, <1>3, <1>4 DEF StoreOk

\* A process that reads an owner, judges it, moves the directory, verifies it.
LEMMA AcquireRace ==
    ASSUME NEW p \in Process, Racing(p), TypeOK', Alone(p), AcquireStep(p)
    PROVE  Race'
  <1>0. /\ TypeOK /\ ProcOk(p) /\ pc[p] \in PC /\ (aside[p] # None <=> pc[p] \in Carrying)
        /\ \A q \in Process : DemonstrablyStale(q) <=> q \in Earlier
    BY DEF Racing, Race, AsideInv, DemonstrablyStale, EarlierInv, Calm, TypeOK
  <1>1. at[p] \in Store /\ final[at[p]] \in Process \cup {None} BY <1>0 DEF TypeOK
  <1> USE DEF StoreOf, Goto
  <1>2. CASE Commit(p)
    <2>1. /\ pc[p] = "stage" /\ seen[p] = None /\ aside[p] = None /\ final[at[p]] = None
          /\ seen' = seen /\ aside' = aside
          /\ final'[at[p]] = p /\ \A s \in Store : s # at[p] => final'[s] = final[s]
      BY <1>0, <1>1, <1>2, NoneAssumption DEF Commit, ProcOk, Seeing, Carrying, TypeOK
    <2>2. PICK c \in Store : c = at[p] BY <1>1
    <2>3. c \in Nat BY StoreFacts
    <2>4. \/ pc'[p] = "stage" /\ at'[p] = c + 1
          \/ pc'[p] = "hold" /\ at'[p] = c
      BY <1>0, <1>2, <2>1, <2>2 DEF Commit, TypeOK
    <2>5. PastKept BY <1>0, <2>1, <2>2, <2>3, <2>4, PastStays DEF Acquiring, Holding
    <2>6. Past(c)' BY <2>3, <2>4 DEF Past, Acquiring, Holding
    <2>7. ItemsKept
      <3> SUFFICES ASSUME NEW s \in Store, NEW q \in Process, Item(s, q)', ~Item(s, q)
                   PROVE  q \notin Earlier /\ Past(s)'
        BY DEF ItemsKept
      <3>1. ~ \E r \in Process : at'[r] = s /\ (seen'[r] = q \/ aside'[r] = q)
        <4> SUFFICES ASSUME NEW r \in Process, at'[r] = s, seen'[r] = q \/ aside'[r] = q
                     PROVE  FALSE
          OBVIOUS
        <4>1. r # p BY <2>1, NoneAssumption
        <4> QED BY <4>1 DEF Alone, Item
      <3>2. final'[s] = q BY <3>1 DEF Item
      <3>3. s = c /\ q = p BY <3>2, <2>1, <2>2 DEF Item
      <3> QED BY <3>3, <2>6 DEF Racing
    <2>8. GapKept
      <3>1. \A s \in Store : final[s] # None => final'[s] # None BY <2>1, NoneAssumption
      <3>2. final'[at[p]] # None BY <2>1, NoneAssumption
      <3> QED BY <1>0, <2>5, <3>1, <3>2, GapStays
    <2>9. ProcOk(p)' BY <2>1, <2>4 DEF ProcOk, Seeing, Refusing
    <2> QED BY <2>5, <2>7, <2>8, <2>9, RaceFrame
  <1>3. CASE Blocked(p)
    <2>1. /\ pc[p] = "stage" /\ pc'[p] = "look" /\ final[at[p]] # None
          /\ UNCHANGED <<final, at, seen, aside>> /\ seen[p] = None
      BY <1>0, <1>3 DEF Blocked, ProcOk, Seeing, TypeOK
    <2> QED BY <2>1, StayingRace DEF Acquiring, Seeing
  <1>4. CASE Look(p)
    <2>1. /\ pc[p] = "look" /\ pc'[p] \in {"stage", "read"}
          /\ pc'[p] = "read" => final[at[p]] # None
          /\ UNCHANGED <<final, at, seen, aside>> /\ seen[p] = None
      BY <1>0, <1>4 DEF Look, ProcOk, Seeing, TypeOK
    <2> QED BY <2>1, StayingRace DEF Acquiring, Seeing
  <1>5. CASE Read(p) /\ final[at[p]] # None
    <2>1. /\ pc[p] = "read" /\ pc'[p] = "judge" /\ seen'[p] = final[at[p]]
          /\ UNCHANGED <<final, at, aside>>
      BY <1>0, <1>5 DEF Read, TypeOK
    <2> QED BY <1>5, <2>1, StayingRace DEF Acquiring, Seeing
  <1>6. CASE Read(p) /\ final[at[p]] = None
    <2>1. pc[p] = "read" /\ Conflict(p) /\ UNCHANGED <<final, aside>> /\ aside[p] = None
      BY <1>0, <1>6 DEF Read, Carrying
    <2>2. Past(at[p]) \/ About(at[p]) BY <1>0, <1>6, <2>1 DEF ProcOk
    <2>3. About(at[p]) => \E x \in Process \ {p} : at[x] = at[p] /\ pc[x] \in {"stage", "verify"}
      BY <2>1 DEF About
    <2> QED BY <2>1, <2>2, <2>3, ConflictRace DEF Acquiring
  <1>7. CASE Judge(p)
    <2>1. pc[p] = "judge" /\ UNCHANGED <<final, aside>> /\ aside[p] = None /\ seen[p] \in Process
      BY <1>0, <1>7 DEF Judge, Carrying, ProcOk, Seeing, TypeOK
    <2>2. CASE seen[p] \in Earlier
      <3>1. pc'[p] = "move" /\ UNCHANGED <<at, seen>>
        BY <1>0, <1>7, <2>1, <2>2 DEF Judge, TypeOK
      <3> QED BY <2>1, <2>2, <3>1, EarlierAssumption, NoneAssumption, StayingRace DEF Acquiring, Seeing
    <2>3. CASE seen[p] \notin Earlier
      <3>1. Conflict(p) BY <1>0, <1>7, <2>1, <2>3 DEF Judge
      <3>2. Past(at[p]) BY <2>1, <2>3, NoneAssumption, InTheWay
      <3> QED BY <2>1, <3>1, <3>2, ConflictRace DEF Acquiring
    <2> QED BY <2>2, <2>3
  <1>8. CASE Move(p)
    <2>1. pc[p] = "move" /\ UNCHANGED at /\ seen[p] \in Earlier /\ aside[p] = None
      BY <1>0, <1>8 DEF Move, Carrying, ProcOk, Seeing
    <2>2. CASE final[at[p]] # None
      <3>1. /\ pc'[p] = "verify" /\ UNCHANGED seen /\ aside'[p] = final[at[p]]
            /\ final'[at[p]] = None /\ \A s \in Store : s # at[p] => final'[s] = final[s]
        BY <1>0, <1>1, <1>8, <2>2 DEF Move, MoveAside, TypeOK
      <3> QED BY <2>1, <3>1, EarlierAssumption, NoneAssumption, StayingRace DEF Acquiring, Seeing
    <2>3. CASE final[at[p]] = None
      <3>1. pc'[p] = "stage" /\ seen'[p] = None /\ UNCHANGED <<final, aside>>
        BY <1>0, <1>8, <2>3 DEF Move, MoveAside, TypeOK
      <3> QED BY <2>1, <3>1, StayingRace DEF Acquiring, Seeing
    <2> QED BY <2>2, <2>3
  <1>9. CASE Verify(p)
    <2>1. /\ pc[p] = "verify" /\ UNCHANGED <<final, at>>
          /\ seen[p] \in Earlier /\ aside[p] \in Process
      BY <1>0, <1>9 DEF Verify, Carrying, ProcOk, Seeing, TypeOK
    <2>2. CASE Reclaims(p)
      <3>1. pc'[p] = "stage" /\ seen'[p] = None /\ aside'[p] = None
        BY <1>0, <1>9, <2>2 DEF Verify, TypeOK
      <3> QED BY <2>1, <3>1, StayingRace DEF Acquiring, Seeing
    <2>3. CASE ~Reclaims(p)
      <3>1. pc'[p] = "restore" /\ UNCHANGED <<seen, aside>>
        BY <1>0, <1>9, <2>3 DEF Verify, TypeOK
      <3>2. aside[p] \notin Earlier
        <4> SUFFICES ASSUME aside[p] \in Earlier PROVE FALSE
          OBVIOUS
        <4>1. PICK c \in Store : c = at[p] BY <1>1
        <4>2. Item(c, seen[p]) /\ Item(c, aside[p]) BY <4>1 DEF Item
        <4>3. StoreOk(c) BY DEF Racing, Race
        <4>4. seen[p] = aside[p] BY <2>1, <4>2, <4>3 DEF StoreOk
        <4> QED BY <1>0, <2>1, <2>3, <4>4 DEF Reclaims
      <3>3. Past(at[p]) BY <2>1, <3>2, NoneAssumption, InTheWay
      <3> QED BY <2>1, <3>1, <3>2, <3>3, EarlierAssumption, NoneAssumption, StayingRace
          DEF Acquiring, Seeing
    <2> QED BY <2>2, <2>3
  <1>10. CASE Restore(p)
    <2>1. /\ pc[p] = "restore" /\ UNCHANGED final /\ seen[p] \in Earlier
          /\ aside[p] \in Process /\ aside[p] \notin Earlier
      BY <1>0, <1>10 DEF Restore, LeaveStray, Carrying, ProcOk, Seeing, TypeOK
    <2>2. Past(at[p]) BY <2>1, NoneAssumption, InTheWay
    <2>3. CASE final[at[p]] # None
      <3>1. Conflict(p) /\ aside'[p] = None
        BY <1>0, <1>10, <2>3 DEF Restore, LeaveStray, TypeOK
      <3> QED BY <2>1, <2>2, <3>1, ConflictRace DEF Acquiring
    <2>4. CASE final[at[p]] = None
      <3>1. pc'[p] = "putback" /\ UNCHANGED <<at, seen, aside>>
        BY <1>0, <1>10, <2>4 DEF Restore, TypeOK
      <3> QED BY <2>1, <2>2, <3>1, EarlierAssumption, NoneAssumption, StayingRace DEF Acquiring, Seeing
    <2> QED BY <2>3, <2>4
  <1>11. CASE Putback(p)
    <2>1. /\ pc[p] = "putback" /\ Conflict(p) /\ aside'[p] = None
          /\ aside[p] \in Process /\ aside[p] \notin Earlier
          /\ \A s \in Store : \/ final'[s] = final[s]
                              \/ s = at[p] /\ final[s] = None /\ final'[s] = aside[p]
      BY <1>0, <1>1, <1>11 DEF Putback, PutBack, LeaveStray, Carrying, ProcOk, Seeing, TypeOK
    <2>2. Past(at[p]) BY <2>1, NoneAssumption, InTheWay
    <2> QED BY <2>1, <2>2, ConflictRace DEF Acquiring
  <1> QED BY <1>2, <1>3, <1>4, <1>5, <1>6, <1>7, <1>8, <1>9, <1>10, <1>11 DEF AcquireStep

\* A process that gives back what it got after a conflict.
LEMMA ReleaseRace ==
    ASSUME NEW p \in Process, Racing(p), TypeOK', Alone(p), ReleaseStep(p), pc[p] \in Refusing
    PROVE  Race'
  <1>0. /\ TypeOK /\ ProcOk(p) /\ (aside[p] # None <=> pc[p] \in Carrying)
        /\ seen' = seen /\ seen[p] = None
        /\ pc[p] \notin Acquiring \cup Holding
    BY DEF Racing, Race, AsideInv, ProcOk, Seeing, Refusing, Acquiring, Holding, ReleaseStep,
           ReleaseMove, ReleaseVerify, ReleaseRestore, ReleasePutback
  <1>1. PICK c \in Store : c = at[p] BY <1>0 DEF TypeOK
  <1>2. c \in Nat BY StoreFacts
  <1> USE DEF StoreOf, Goto
  \* A call that leaves the process at its store.
  <1>3. ASSUME pc'[p] \in Refusing, at'[p] = at[p], aside'[p] \in {aside[p], final[at[p]]},
               \A s \in Store : \/ final'[s] = final[s]
                                \/ s = at[p] /\ final'[s] = None
        PROVE  Race'
    <2>1. PastKept BY <1>0, PastStays
    <2>2. Past(c)' BY <1>0, <1>1, <1>2, <2>1 DEF ProcOk, PastKept
    <2>3. ProcOk(p)' BY <1>0, <1>1, <1>3, <2>2 DEF ProcOk, Seeing, Refusing
    <2>4. ItemsKept BY <1>0, <1>3, ItemsStay
    <2>5. ASSUME NEW s \in Store, final'[s] = None, final[s] # None \/ Past(s) \/ About(s)
          PROVE  Past(s)' \/ About(s)'
      <3>1. CASE s = c BY <3>1, <2>2
      <3>2. CASE Past(s) BY <3>2, <2>1, StoreFacts DEF PastKept
      <3>3. CASE About(s) /\ s # c
        <4>1. PICK x \in Process : at[x] = s /\ pc[x] \in {"stage", "verify"}
          BY <3>3 DEF About
        <4>2. x # p BY <4>1, <3>3, <1>1
        <4> QED BY <4>1, <4>2 DEF Alone, About
      <3>4. CASE final[s] # None /\ s # c BY <3>4, <2>5, <1>3, <1>1
      <3> QED BY <3>1, <3>2, <3>3, <3>4, <2>5
    <2>6. GapKept BY <2>5 DEF GapKept
    <2> QED BY <2>1, <2>3, <2>4, <2>6, RaceFrame
  <1>4. CASE ReleaseMove(p)
    <2>1. pc[p] = "drop" /\ aside[p] = None
      BY <1>0, <1>4 DEF ReleaseMove, Refusing, Carrying
    <2>2. CASE final[at[p]] # None
      <3>1. /\ pc'[p] = "dropVerify" /\ UNCHANGED at /\ aside'[p] = final[at[p]]
            /\ \A s \in Store : final'[s] = final[s] \/ (s = at[p] /\ final'[s] = None)
        BY <1>0, <1>4, <2>1, <2>2 DEF ReleaseMove, MoveAside, Ending, Refusing, TypeOK
      <3> QED BY <3>1, <1>3 DEF Refusing
    <2>3. CASE final[at[p]] = None
      <3>1. NextRelease(p) /\ UNCHANGED <<final, aside>> BY <1>4, <2>3 DEF ReleaseMove
      <3> QED BY <1>0, <2>1, <3>1, RefusingRace
    <2> QED BY <2>2, <2>3
  <1>5. CASE ReleaseVerify(p)
    <2>1. pc[p] = "dropVerify" /\ UNCHANGED final BY <1>5 DEF ReleaseVerify, Refusing
    <2>2. CASE aside[p] = p
      <3>1. NextRelease(p) /\ aside'[p] = None BY <1>0, <1>5, <2>2 DEF ReleaseVerify, TypeOK
      <3> QED BY <1>0, <2>1, <3>1, RefusingRace
    <2>3. CASE aside[p] # p
      <3>1. pc'[p] = "dropRestore" /\ UNCHANGED <<at, aside>>
        BY <1>0, <1>5, <2>1, <2>3 DEF ReleaseVerify, Ending, Refusing, TypeOK
      <3> QED BY <2>1, <3>1, <1>3 DEF Refusing
    <2> QED BY <2>2, <2>3
  <1>6. CASE ReleaseRestore(p)
    <2>1. pc[p] = "dropRestore" /\ UNCHANGED final
      BY <1>6 DEF ReleaseRestore, LeaveStray, Refusing
    <2>2. CASE final[at[p]] # None
      <3>1. NextRelease(p) /\ aside'[p] = None
        BY <1>0, <1>6, <2>2 DEF ReleaseRestore, LeaveStray, TypeOK
      <3> QED BY <1>0, <2>1, <3>1, RefusingRace
    <2>3. CASE final[at[p]] = None
      <3>1. pc'[p] = "dropPutback" /\ UNCHANGED <<at, aside>>
        BY <1>0, <1>6, <2>1, <2>3 DEF ReleaseRestore, Ending, Refusing, TypeOK
      <3> QED BY <2>1, <3>1, <1>3 DEF Refusing
    <2> QED BY <2>2, <2>3
  <1>7. CASE ReleasePutback(p)
    <2>1. /\ NextRelease(p) /\ aside'[p] = None
          /\ \A s \in Store : \/ final'[s] = final[s]
                              \/ s = at[p] /\ final[s] = None /\ final'[s] = aside[p]
      BY <1>0, <1>7 DEF ReleasePutback, PutBack, LeaveStray, TypeOK
    <2> QED BY <1>0, <2>1, RefusingRace
  <1> QED BY <1>4, <1>5, <1>6, <1>7 DEF ReleaseStep

\* Starting, and working with the private home.
LEMMA OtherRace ==
    ASSUME NEW p \in Process, Racing(p), TypeOK', Alone(p), Start(p) \/ HomeStep(p)
    PROVE  Race'
  <1>0. TypeOK /\ ProcOk(p) BY DEF Racing, Race
  <1>1. /\ UNCHANGED <<final, at, seen, aside>>
        /\ \/ pc[p] = "off" /\ pc'[p] = "stage"
           \/ pc[p] \in Holding /\ pc'[p] \in Holding
    BY <1>0 DEF Start, HomeStep, Reserve, MakeHome, NameHome, Dispose, UnlinkHome, RmdirHome,
           HomeSame, Goto, Holding, TypeOK
  <1>2. pc[p] \notin Acquiring BY <1>1 DEF Acquiring, Holding
  <1>3. PastKept BY <1>0, <1>1, <1>2, PastStays DEF Holding
  <1>4. seen'[p] = None BY <1>0, <1>1 DEF ProcOk, Seeing, Holding
  <1>5. ProcOk(p)' BY <1>1, <1>4 DEF ProcOk, Seeing, Refusing, Holding
  <1>6. ItemsKept BY <1>0, <1>1, ItemsStay
  <1>7. GapKept BY <1>0, <1>1, <1>2, <1>3, GapStays DEF Acquiring
  <1> QED BY <1>3, <1>5, <1>6, <1>7, RaceFrame

\* A step is of one process, and only of one that has not ended before.
LEMMA ActAlone ==
    ASSUME TypeOK, NEW p \in Process, Act(p)
    PROVE  Alone(p) /\ pc[p] # "dead" /\ (pc[p] = "released" => pc'[p] = "dead")
  <1> USE DEF Alone, Goto, TypeOK
  <1>1. CASE Start(p) BY <1>1 DEF Start
  <1>2. CASE AcquireStep(p)
    BY <1>2 DEF AcquireStep, Commit, Blocked, Look, Read, Judge, Move, MoveAside, Verify, Restore,
                Putback, PutBack, LeaveStray, Conflict
  <1>3. CASE Release(p) BY <1>3 DEF Release, Holding
  <1>4. CASE ReleaseStep(p)
    BY <1>4 DEF ReleaseStep, ReleaseMove, ReleaseVerify, ReleaseRestore, ReleasePutback,
                MoveAside, PutBack, LeaveStray, NextRelease
  <1>5. CASE HomeStep(p)
    BY <1>5 DEF HomeStep, Reserve, MakeHome, NameHome, Dispose, UnlinkHome, RmdirHome, HomeSame
  <1>6. CASE Crash(p) BY <1>6 DEF Crash, LeaveStray, Alive
  <1> QED BY <1>1, <1>2, <1>3, <1>4, <1>5, <1>6 DEF Act

\* A step after which all is calm begins in a calm state; it is no crash, and no
\* release at the end of a process.
LEMMA CalmBefore ==
    ASSUME TypeOK, EarlierInv, NEW p \in Process, Act(p), Calm'
    PROVE  /\ Calm /\ p \notin Earlier /\ ~Crash(p) /\ ~Release(p)
           /\ ReleaseStep(p) => pc[p] \in Refusing
  <1>1. Alone(p) /\ pc[p] # "dead" /\ (pc[p] = "released" => pc'[p] = "dead") BY ActAlone
  <1>2. p \in Process \ Earlier BY <1>1 DEF EarlierInv
  <1>3. pc'[p] \notin {"dead", "released"} \cup Releasing BY <1>2 DEF Calm
  <1>4. ~Crash(p) /\ ~Release(p)
    BY <1>3 DEF Crash, Release, Goto, TypeOK, Releasing
  <1>5. ReleaseStep(p) => pc[p] \in Refusing
    BY <1>3 DEF ReleaseStep, ReleaseMove, ReleaseVerify, ReleaseRestore, ReleasePutback,
                NextRelease, Ending, Goto, TypeOK, Releasing, Refusing
  <1>6. pc[p] \notin {"dead", "released"} \cup Releasing
    <2>1. CASE Start(p) BY <2>1 DEF Start, Releasing
    <2>2. CASE AcquireStep(p)
      BY <2>2 DEF AcquireStep, Commit, Blocked, Look, Read, Judge, Move, Verify, Restore, Putback,
                  Releasing
    <2>3. CASE ReleaseStep(p) BY <2>3, <1>5 DEF Refusing, Releasing
    <2>4. CASE HomeStep(p)
      BY <2>4 DEF HomeStep, Reserve, MakeHome, NameHome, Dispose, UnlinkHome, RmdirHome, Releasing
    <2> QED BY <1>4, <2>1, <2>2, <2>3, <2>4 DEF Act
  <1>7. Calm BY <1>1, <1>6, <1>3 DEF Calm, Alone
  <1> QED BY <1>2, <1>4, <1>5, <1>7

\* Every step preserves RaceInv.
LEMMA RaceStep == IInv /\ RaceInv /\ [Next]_vars => RaceInv'
  <1> SUFFICES ASSUME IInv, RaceInv, [Next]_vars PROVE RaceInv'
    OBVIOUS
  <1>1. CASE Next
    <2>1. PICK p \in Process : Act(p) BY <1>1 DEF Next, Act
    <2>2. TypeOK /\ AsideInv /\ EarlierInv BY DEF IInv, RaceInv
    <2>3. TypeOK' BY <2>1, <2>2, TypeStep
    <2>4. Alone(p) /\ pc[p] # "dead" BY <2>1, <2>2, ActAlone
    <2>5. EarlierInv' BY <2>2, <2>4, EarlierAssumption DEF EarlierInv, Alone
    <2>6. ASSUME Calm' PROVE Race'
      <3>1. /\ Calm /\ p \notin Earlier /\ ~Crash(p) /\ ~Release(p)
            /\ ReleaseStep(p) => pc[p] \in Refusing
        BY <2>1, <2>2, <2>6, CalmBefore
      <3>2. Racing(p) BY <2>2, <3>1 DEF Racing, RaceInv
      <3>3. CASE AcquireStep(p) BY <2>3, <2>4, <3>2, <3>3, AcquireRace
      <3>4. CASE ReleaseStep(p) BY <2>3, <2>4, <3>1, <3>2, <3>4, ReleaseRace
      <3>5. CASE Start(p) \/ HomeStep(p) BY <2>3, <2>4, <3>2, <3>5, OtherRace
      <3> QED BY <2>1, <3>1, <3>3, <3>4, <3>5 DEF Act
    <2> QED BY <2>5, <2>6 DEF RaceInv
  <1>2. CASE UNCHANGED vars
    BY <1>2 DEF vars, RaceInv, EarlierInv, Calm, Race, ProcOk, StoreOk, Past, About, Item
  <1> QED BY <1>1, <1>2

\* Only leases of earlier processes are in sight when the first one starts.
LEMMA InitRace == Init => RaceInv
  <1> SUFFICES ASSUME Init PROVE RaceInv
    OBVIOUS
  <1> USE EarlierAssumption, NoneAssumption DEF Init
  <1>1. EarlierInv BY DEF EarlierInv
  <1>2. \A p \in Process : ProcOk(p) BY DEF ProcOk, Seeing, Refusing
  <1>3. ASSUME NEW s \in Store, NEW q \in Process, Item(s, q) PROVE final[s] = q /\ q \in Earlier
    BY <1>3 DEF Item
  <1>4. \A s \in Store : StoreOk(s) BY <1>3 DEF StoreOk
  <1> QED BY <1>1, <1>2, <1>4 DEF RaceInv, Race

\* Of any number of processes that start together over any number of stores,
\* whatever leases earlier ones left behind, one gets all the stores, once the
\* acquisitions have ended and if none has died or stopped meanwhile.
THEOREM SomeoneAlwaysGetsTheStores == Spec => []SomeoneGetsTheStores
  <1>1. Spec => []RaceInv BY Inductive, InitRace, RaceStep, PTL DEF Spec
  <1>2. IInv /\ RaceInv => SomeoneGetsTheStores
    <2> SUFFICES ASSUME IInv, RaceInv,
                        NEW p \in Process, pc[p] = "refused",
                        \A q \in Process \ Earlier : pc[q] \in {"off", "refused"} \cup Holding
                 PROVE  \E q \in Process : pc[q] \in Holding
      BY DEF SomeoneGetsTheStores
    <2>1. Calm BY DEF Calm, Releasing, Holding
    <2>2. Past(0) BY <2>1 DEF RaceInv, Race, ProcOk
    <2>3. \A q \in Process : pc[q] \notin Acquiring
      BY DEF RaceInv, EarlierInv, Acquiring, Holding
    <2> QED BY <2>2, <2>3 DEF Past
  <1> QED BY Inductive, <1>1, <1>2, PTL
=============================================================================
