---------------------------- MODULE ProcessLease ----------------------------
(***************************************************************************)
(* The directory leases of src/server/process-lease.ts.  A server process  *)
(* leases every file-backed store before it opens one, and reserves the    *)
(* private home of the Codex service while a job uses it.                  *)
(*                                                                         *)
(* One step is one file system call, since processes share nothing else.   *)
(* A lease directory holds the file owner.json from the moment it stands   *)
(* at its final path, so a directory is represented by the process that    *)
(* wrote it; the directories a process stages are private to it, and only  *)
(* one of them ever reaches the final path of a store.                     *)
(***************************************************************************)
EXTENDS Naturals, FiniteSets

CONSTANTS
    Process,    \* operating system processes; a pid is not used again
    Earlier,    \* those of them that had ended before the others start
    NStores,    \* the stores of one process, numbered in the order of their paths
    None        \* no process

ASSUME NStoresAssumption == NStores \in Nat \ {0}
ASSUME NoneAssumption == None \notin Process
ASSUME EarlierAssumption == Earlier \subseteq Process

VARIABLES
    final,      \* final[s]: whose directory is at the final path of store s
    pc,         \* pc[p]: the next file system call of p
    at,         \* at[p]: the store p is acquiring or releasing
    seen,       \* seen[p]: the owner p read in a directory it found in its way
    aside,      \* aside[p]: whose directory p has renamed to its quarantine
    strays,     \* the quarantines nobody works on: <<store, whose>>
    home        \* the reservation of the private home: whose, and is it named

vars == <<final, pc, at, seen, aside, strays, home>>

Store == 1..NStores
Acquiring == {"stage", "look", "read", "judge", "move", "verify", "restore", "putback"}
Holding == {"hold", "reserve", "name", "reserved", "unlink", "rmdir"}
\* Giving back after a conflict, and at the end of the process.
Refusing == {"drop", "dropVerify", "dropRestore", "dropPutback"}
Releasing == {"release", "releaseVerify", "releaseRestore", "releasePutback"}
Ended == {"refused", "released"}
PC == {"off", "dead"} \cup Acquiring \cup Holding \cup Refusing \cup Releasing \cup Ended

Alive(p) == pc[p] \notin {"off", "dead"}
NoHome == [owner |-> None, named |-> FALSE]

\* The stores whose lease p counts on.
Leased(p) == CASE pc[p] \in Holding -> Store
               [] pc[p] \in {"drop", "release"} -> 1..at[p]
               [] pc[p] \in {"off", "dead"} \cup Ended -> {}
               [] OTHER -> 1..(at[p] - 1)

\* Leases of processes that crashed may be on the disk.
Init == /\ final \in [Store -> Earlier \cup {None}]
        /\ pc = [p \in Process |-> IF p \in Earlier THEN "dead" ELSE "off"]
        /\ at = [p \in Process |-> 1]
        /\ seen = [p \in Process |-> None]
        /\ aside = [p \in Process |-> None]
        /\ strays = {}
        /\ home = NoHome

Goto(p, label) == pc' = [pc EXCEPT ![p] = label]

-----------------------------------------------------------------------------
(* acquireStoreProcessLease: the stores one after another, in the order of *)
(* their paths.                                                            *)

\* Mutated StoreOf: one process takes the stores in the opposite order.
StoreUnsorted(p) == IF p = CHOOSE q \in Process \ Earlier : TRUE
                    THEN NStores + 1 - at[p] ELSE at[p]

StoreOf(p) == at[p]

Start(p) == /\ pc[p] = "off"
            /\ Goto(p, "stage")
            /\ UNCHANGED <<final, at, seen, aside, strays, home>>

\* The rename of a staged directory succeeds where no directory stands.
Commit(p) == /\ pc[p] = "stage"
             /\ final[StoreOf(p)] = None
             /\ final' = [final EXCEPT ![StoreOf(p)] = p]
             /\ \/ at[p] < NStores /\ at' = [at EXCEPT ![p] = @ + 1] /\ UNCHANGED pc
                \/ at[p] = NStores /\ Goto(p, "hold") /\ UNCHANGED at
             /\ UNCHANGED <<seen, aside, strays, home>>

Blocked(p) == /\ pc[p] = "stage"
              /\ final[StoreOf(p)] # None
              /\ Goto(p, "look")
              /\ UNCHANGED <<final, at, seen, aside, strays, home>>

\* A conflict ends the acquisition and gives back the stores before this one.
Conflict(p) == /\ \/ at[p] = 1 /\ Goto(p, "refused") /\ UNCHANGED at
                  \/ at[p] > 1 /\ Goto(p, "drop") /\ at' = [at EXCEPT ![p] = @ - 1]
               /\ seen' = [seen EXCEPT ![p] = None]

\* The directory is there, or the next round starts.
Look(p) == /\ pc[p] = "look"
           /\ Goto(p, IF final[StoreOf(p)] = None THEN "stage" ELSE "read")
           /\ UNCHANGED <<final, at, seen, aside, strays, home>>

\* An owner that cannot be read counts as a conflict.
Read(p) == /\ pc[p] = "read"
           /\ \/ /\ final[StoreOf(p)] # None
                 /\ seen' = [seen EXCEPT ![p] = final[StoreOf(p)]]
                 /\ Goto(p, "judge")
                 /\ UNCHANGED at
              \/ final[StoreOf(p)] = None /\ Conflict(p)
           /\ UNCHANGED <<final, aside, strays, home>>

DemonstrablyStale(q) == pc[q] = "dead"

\* Mutated Judge: a lease of a live owner is waited for.
JudgeWaits(p) == /\ pc[p] = "judge"
                 /\ Goto(p, IF DemonstrablyStale(seen[p]) THEN "move" ELSE "look")
                 /\ UNCHANGED <<final, at, seen, aside, strays, home>>

\* The pid of the owner is looked up after the file was read.
Judge(p) == /\ pc[p] = "judge"
            /\ \/ DemonstrablyStale(seen[p]) /\ Goto(p, "move") /\ UNCHANGED <<at, seen>>
               \/ ~DemonstrablyStale(seen[p]) /\ Conflict(p)
            /\ UNCHANGED <<final, aside, strays, home>>

\* Renaming moves whatever directory stands at the final path by now.
MoveAside(p) == /\ aside' = [aside EXCEPT ![p] = final[StoreOf(p)]]
                /\ final' = [final EXCEPT ![StoreOf(p)] = None]

Move(p) == /\ pc[p] = "move"
           /\ \/ final[StoreOf(p)] # None /\ MoveAside(p) /\ Goto(p, "verify") /\ UNCHANGED seen
              \/ /\ final[StoreOf(p)] = None
                 /\ Goto(p, "stage")
                 /\ seen' = [seen EXCEPT ![p] = None]
                 /\ UNCHANGED <<aside, final>>
           /\ UNCHANGED <<at, strays, home>>

\* Mutated Reclaims: the token of the quarantine is not compared.
ReclaimsAnything(p) == DemonstrablyStale(seen[p])

\* Only the lease that was judged may be deleted.
Reclaims(p) == aside[p] = seen[p] /\ DemonstrablyStale(aside[p])

Verify(p) == /\ pc[p] = "verify"
             /\ \/ /\ Reclaims(p)
                   /\ aside' = [aside EXCEPT ![p] = None]
                   /\ seen' = [seen EXCEPT ![p] = None]
                   /\ Goto(p, "stage")
                \/ ~Reclaims(p) /\ Goto(p, "restore") /\ UNCHANGED <<aside, seen>>
             /\ UNCHANGED <<final, at, strays, home>>

\* The quarantine stays where it is when another directory took the final path.
LeaveStray(p) == /\ strays' = strays \cup {<<StoreOf(p), aside[p]>>}
                 /\ aside' = [aside EXCEPT ![p] = None]
                 /\ UNCHANGED final

PutBack(p) == /\ final' = [final EXCEPT ![StoreOf(p)] = aside[p]]
              /\ aside' = [aside EXCEPT ![p] = None]
              /\ UNCHANGED strays

\* restoreQuarantine looks at the final path and then renames.
Restore(p) == /\ pc[p] = "restore"
              /\ \/ final[StoreOf(p)] # None /\ LeaveStray(p) /\ Conflict(p)
                 \/ /\ final[StoreOf(p)] = None
                    /\ Goto(p, "putback")
                    /\ UNCHANGED <<final, at, seen, aside, strays>>
              /\ UNCHANGED home

Putback(p) == /\ pc[p] = "putback"
              /\ \/ final[StoreOf(p)] # None /\ LeaveStray(p)
                 \/ final[StoreOf(p)] = None /\ PutBack(p)
              /\ Conflict(p)
              /\ UNCHANGED home

-----------------------------------------------------------------------------
(* release and releaseSync: the stores in the opposite order.  The labels  *)
(* of a release that follows a conflict differ only in where it ends.      *)

Ending(label, refusing, releasing) == IF label \in Refusing THEN refusing ELSE releasing

\* Mutated NextRelease: one store too many.
NextReleaseFromZero(p) == /\ at' = [at EXCEPT ![p] = @ - 1]
                          /\ Goto(p, Ending(pc[p], "drop", "release"))

\* The release of this store has ended; failures are ignored.
NextRelease(p) ==
    \/ /\ at[p] > 1
       /\ at' = [at EXCEPT ![p] = @ - 1]
       /\ Goto(p, Ending(pc[p], "drop", "release"))
    \/ /\ at[p] = 1
       /\ Goto(p, Ending(pc[p], "refused", "released"))
       /\ UNCHANGED at

\* release() at shutdown, or releaseSync() when the process exits: the sync
\* form leaves a reservation of the private home where it is.
Release(p) == /\ pc[p] \in Holding
              /\ Goto(p, "release")
              /\ at' = [at EXCEPT ![p] = NStores]
              /\ UNCHANGED <<final, seen, aside, strays, home>>

ReleaseMove(p) ==
    /\ pc[p] \in {"drop", "release"}
    /\ \/ /\ final[StoreOf(p)] # None
          /\ MoveAside(p)
          /\ Goto(p, Ending(pc[p], "dropVerify", "releaseVerify"))
          /\ UNCHANGED at
       \/ final[StoreOf(p)] = None /\ NextRelease(p) /\ UNCHANGED <<final, aside>>
    /\ UNCHANGED <<seen, strays, home>>

\* A directory with another token is put back.
ReleaseVerify(p) ==
    /\ pc[p] \in {"dropVerify", "releaseVerify"}
    /\ \/ aside[p] = p /\ NextRelease(p) /\ aside' = [aside EXCEPT ![p] = None]
       \/ /\ aside[p] # p
          /\ Goto(p, Ending(pc[p], "dropRestore", "releaseRestore"))
          /\ UNCHANGED <<at, aside>>
    /\ UNCHANGED <<final, seen, strays, home>>

ReleaseRestore(p) ==
    /\ pc[p] \in {"dropRestore", "releaseRestore"}
    /\ \/ final[StoreOf(p)] # None /\ LeaveStray(p) /\ NextRelease(p)
       \/ /\ final[StoreOf(p)] = None
          /\ Goto(p, Ending(pc[p], "dropPutback", "releasePutback"))
          /\ UNCHANGED <<final, at, aside, strays>>
    /\ UNCHANGED <<seen, home>>

ReleasePutback(p) ==
    /\ pc[p] \in {"dropPutback", "releasePutback"}
    /\ \/ final[StoreOf(p)] # None /\ LeaveStray(p)
       \/ final[StoreOf(p)] = None /\ PutBack(p)
    /\ NextRelease(p)
    /\ UNCHANGED <<seen, home>>

-----------------------------------------------------------------------------
(* acquirePrivateDirectoryProcessLease: the codex isolation provider       *)
(* reserves the home of its service for one job at a time.                 *)

HomeSame == UNCHANGED <<final, at, seen, aside, strays>>

Reserve(p) == pc[p] = "hold" /\ Goto(p, "reserve") /\ HomeSame /\ UNCHANGED home

\* Mutated MakeHome: a rename, which overwrites an empty directory.
MakeHomeByRename(p) ==
    /\ pc[p] = "reserve"
    /\ \/ ~home.named /\ home' = [owner |-> p, named |-> FALSE] /\ Goto(p, "name")
       \/ home.named /\ Goto(p, "hold") /\ UNCHANGED home
    /\ HomeSame

\* mkdir fails where a directory stands, even an empty one.
MakeHome(p) == /\ pc[p] = "reserve"
               /\ \/ /\ home = NoHome
                     /\ home' = [owner |-> p, named |-> FALSE]
                     /\ Goto(p, "name")
                  \/ home # NoHome /\ Goto(p, "hold") /\ UNCHANGED home
               /\ HomeSame

\* owner.json is written; when that fails the directory is kept, and nobody
\* reserves the home any more.
NameHome(p) == /\ pc[p] = "name"
               /\ \/ home' = [home EXCEPT !.named = TRUE] /\ Goto(p, "reserved")
                  \/ UNCHANGED home /\ Goto(p, "hold")
               /\ HomeSame

\* The strict release deletes owner.json once it has verified that it is its
\* own, then the directory; when a call fails the rest is kept.
Dispose(p) == pc[p] = "reserved" /\ Goto(p, "unlink") /\ HomeSame /\ UNCHANGED home

UnlinkHome(p) == /\ pc[p] = "unlink"
                 /\ \/ /\ home = [owner |-> p, named |-> TRUE]
                       /\ home' = [home EXCEPT !.named = FALSE]
                       /\ Goto(p, "rmdir")
                    \/ UNCHANGED home /\ Goto(p, "hold")
                 /\ HomeSame

RmdirHome(p) == /\ pc[p] = "rmdir"
                /\ \/ ~home.named /\ home' = NoHome
                   \/ UNCHANGED home
                /\ Goto(p, "hold")
                /\ HomeSame

\* A killed process leaves everything as it is on the disk.
Crash(p) == /\ Alive(p)
            /\ Goto(p, "dead")
            /\ IF aside[p] = None THEN UNCHANGED <<aside, strays, final>> ELSE LeaveStray(p)
            /\ UNCHANGED <<final, at, seen, home>>

AcquireStep(p) == \/ Commit(p) \/ Blocked(p) \/ Look(p) \/ Read(p) \/ Judge(p)
                  \/ Move(p) \/ Verify(p) \/ Restore(p) \/ Putback(p)
ReleaseStep(p) == \/ ReleaseMove(p) \/ ReleaseVerify(p) \/ ReleaseRestore(p)
                  \/ ReleasePutback(p)
HomeStep(p) == \/ Reserve(p) \/ MakeHome(p) \/ NameHome(p)
               \/ Dispose(p) \/ UnlinkHome(p) \/ RmdirHome(p)

Next == \E p \in Process : \/ Start(p) \/ AcquireStep(p) \/ Release(p)
                           \/ ReleaseStep(p) \/ HomeStep(p) \/ Crash(p)

Spec == Init /\ [][Next]_vars

\* A process that runs makes the calls of an acquisition or release it began.
FairSpec == Spec /\ \A p \in Process : WF_vars(AcquireStep(p) \/ ReleaseStep(p))

-----------------------------------------------------------------------------
TypeOK == /\ final \in [Store -> Process \cup {None}]
          /\ pc \in [Process -> PC]
          /\ at \in [Process -> Store]
          /\ seen \in [Process -> Process \cup {None}]
          /\ aside \in [Process -> Process \cup {None}]
          /\ strays \subseteq Store \X Process
          /\ home \in [owner : Process \cup {None}, named : BOOLEAN]

\* "Acquire one exclusive directory lease for every file-backed store"
\* (process-lease.ts:32): two running processes never have the stores at once.
Exclusive == \A p, q \in Process : pc[p] \in Holding /\ pc[q] \in Holding => p = q

\* A process that reclaims or releases may move a lease that is not the one it
\* looked at, but it never deletes it: as long as its owner counts on it, the
\* directory is at the final path or in a quarantine of that store.
LiveLeaseKept ==
    \A p \in Process : \A s \in Leased(p) :
        \/ final[s] = p
        \/ \E q \in Process : aside[q] = p /\ at[q] = s
        \/ <<s, p>> \in strays

\* Processes that start together do not turn each other away: when none has
\* died or stopped since and all acquisitions have ended, one has the stores.
\* It takes the common order of the stores.
SomeoneGetsTheStores ==
    /\ \E p \in Process : pc[p] = "refused"
    /\ \A p \in Process \ Earlier : pc[p] \in {"off", "refused"} \cup Holding
    => \E p \in Process : pc[p] \in Holding

\* The private home changes hands only through its owner: a process that finds
\* the directory, empty because its maker has not written owner.json yet or
\* died before it could, or because its owner is half through its release,
\* never takes it over, however the stores were reclaimed meanwhile.
HomeExclusive ==
    [][home.owner # None
         => \/ home'.owner = home.owner
            \/ home' = NoHome /\ pc[home.owner] = "rmdir"]_vars

\* The loop of acquireOne ends: whoever starts gets the stores, is refused or
\* dies, however long others reclaim and release under it.
AcquisitionEnds == \A p \in Process : pc[p] = "stage" ~> pc[p] \notin Acquiring
=============================================================================
