-------------------------- MODULE SchedulerProofs --------------------------
(***************************************************************************)
(* Proofs about Scheduler, for any jobs, any actions and any personality:  *)
(* what is confirmed is in the file, what is in the file is what a restart *)
(* loads, and what is removed is in neither.                               *)
(***************************************************************************)
EXTENDS Scheduler, TLAPS

\* A confirmed job no interrupted write erased is saved, and nothing has made its
\* memory differ since.
Saved ==
    \A n \in Name \ wiped : confirmed[n] # NoJob =>
        /\ file # Corrupt
        /\ file[n] = confirmed[n]
        /\ n \notin drift

\* A removed job is not in the file either.
Erased == \A n \in removed : Yaml[n] = NoJob => Stored[n] = NoJob

\* The inductive invariant.
Inv ==
    /\ TypeOK
    /\ Saved
    /\ Erased
    /\ RemovedStaysRemoved
    /\ MemoryMatchesFile

\* What the file holds are jobs, and so is what is loaded from it.
LEMMA StoredType ==
    ASSUME TypeOK
    PROVE  /\ Stored \in Jobs
           /\ Merge(Stored) \in Jobs
  BY SchedulerAssumption DEF TypeOK, Stored, Merge, Jobs, NoJobs

\* A file that holds jobs is not corrupt, and is read as it was written.
LEMMA JobsReadBack ==
    ASSUME file' \in Jobs
    PROVE  file' # Corrupt /\ Stored' = file'
  BY SchedulerAssumption DEF Stored, Jobs

\* A corrupt file is read as an empty one.
LEMMA CorruptReadBack ==
    ASSUME file' = Corrupt
    PROVE  Stored' = NoJobs
  BY DEF Stored

\* The invariant holds before the first start.
LEMMA InvInit == Init => Inv
<1> SUFFICES ASSUME Init PROVE Inv
    OBVIOUS
<1> USE SchedulerAssumption DEF Init, NoJobs
<1>1. TypeOK
    BY DEF TypeOK, Jobs, Own
<1>2. Saved /\ Erased /\ RemovedStaysRemoved /\ MemoryMatchesFile
    BY DEF Saved, Erased, RemovedStaysRemoved, MemoryMatchesFile
<1> QED
    BY <1>1, <1>2 DEF Inv

\* Loading: after a start or a reload, memory is what the file and the YAML say.
LEMMA LoadKeepsInv ==
    ASSUME Inv,
           live' = Merge(Stored), drift' = {},
           UNCHANGED <<file, confirmed, removed, wiped>>
    PROVE  (Saved /\ Erased /\ RemovedStaysRemoved /\ MemoryMatchesFile)'
<1>1. Stored' = Stored /\ Merge(Stored)' = Merge(Stored)
    BY DEF Stored, Merge
<1>2. Saved'
    BY DEF Inv, Saved
<1>3. Erased'
    BY <1>1 DEF Inv, Erased
<1>4. RemovedStaysRemoved'
    BY <1>3, <1>1 DEF RemovedStaysRemoved, Erased, Merge, Inv, TypeOK
<1>5. MemoryMatchesFile'
    BY <1>1 DEF MemoryMatchesFile
<1> QED
    BY <1>2, <1>3, <1>4, <1>5

\* Start loads into an idle process.
LEMMA StartKeepsInv == Inv /\ Start => Inv'
<1> SUFFICES ASSUME Inv, Start PROVE Inv'
    OBVIOUS
<1>1. TypeOK'
    BY StoredType DEF Inv, Start, TypeOK, Own
<1> QED
    BY <1>1, LoadKeepsInv DEF Start, Inv

\* Reload loads into a running one.
LEMMA ReloadKeepsInv == Inv /\ Reload => Inv'
<1> SUFFICES ASSUME Inv, Reload PROVE Inv'
    OBVIOUS
<1>1. TypeOK'
    BY StoredType DEF Inv, Reload, TypeOK, Own
<1> QED
    BY <1>1, LoadKeepsInv DEF Reload, Inv

\* Stop leaves the file, and an idle process runs nothing.
LEMMA StopKeepsInv == Inv /\ Stop => Inv'
<1> SUFFICES ASSUME Inv, Stop PROVE Inv'
    OBVIOUS
<1> USE DEF Stop, Gone
<1>1. TypeOK'
    BY SchedulerAssumption DEF Inv, TypeOK, Jobs, NoJobs, Own
<1>2. Stored' = Stored
    BY DEF Stored
<1>3. Saved' /\ Erased'
    BY <1>2 DEF Inv, Saved, Erased
<1>4. RemovedStaysRemoved' /\ MemoryMatchesFile'
    BY DEF Inv, TypeOK, RemovedStaysRemoved, MemoryMatchesFile, NoJobs
<1> QED
    BY <1>1, <1>3, <1>4 DEF Inv

\* A confirmed job is in memory and in the file.
LEMMA AddKeepsInv ==
    ASSUME Inv, NEW n \in Name, NEW a \in Action, Add(n, a)
    PROVE  Inv'
<1> USE DEF Add, AddLive, Inv
<1>1. Stored \in Jobs
    BY StoredType
<1>2. Persist(n, a) \in Jobs
    BY <1>1 DEF Persist, Jobs
<1>3. Stored' = Persist(n, a) /\ file' # Corrupt /\ file' \in Jobs
    BY <1>2, JobsReadBack
<1>4. TypeOK'
    BY <1>3 DEF TypeOK, Jobs, Own
<1>5. /\ Stored'[n] = a
      /\ \A m \in Name \ {n} : Stored'[m] = Stored[m]
    BY <1>1, <1>3 DEF Persist, Jobs
<1>6. Saved'
    BY <1>3, <1>5 DEF Saved, TypeOK, Jobs, Stored
<1>7. Erased'
    BY <1>5 DEF Erased, TypeOK
<1>8. RemovedStaysRemoved'
    BY DEF RemovedStaysRemoved, TypeOK, Jobs
<1>9. MemoryMatchesFile'
  <2>1. \A m \in Name \ {n} : Merge(Stored)'[m] = Merge(Stored)[m]
    BY <1>5 DEF Merge
  <2>2. Merge(Stored)'[n] = a
    BY <1>5, SchedulerAssumption DEF Merge
  <2> QED
    BY <2>1, <2>2 DEF MemoryMatchesFile, TypeOK, Jobs
<1> QED
    BY <1>4, <1>6, <1>7, <1>8, <1>9

\* What a failed or interrupted write leaves behind.
LEMMA WriteFailsKeeps ==
    ASSUME Inv, NEW n \in Name, WriteFails(n),
           removed' \subseteq removed
    PROVE  /\ Saved' /\ Erased'
           /\ confirmed' \in Jobs /\ drift' \in SUBSET Name
           /\ wiped' \in SUBSET Name
           /\ file' \in Jobs \cup {Corrupt}
<1> USE DEF Inv, WriteFails
<1>1. CASE /\ UNCHANGED <<file, wiped>>
           /\ drift' = drift \cup {n}
  <2>1. Stored' = Stored
    BY <1>1 DEF Stored
  <2> QED
    BY <1>1, <2>1 DEF Saved, Erased, TypeOK, Jobs
<1>2. CASE Torn
    BY <1>2, CorruptReadBack DEF Torn, Saved, Erased, TypeOK, Jobs, NoJobs
<1> QED
    BY <1>1, <1>2 DEF WriteFails

\* ... and that the jobs not marked as drifting are as they were, when memory
\* has changed for n only.
LEMMA WriteFailsVisible ==
    ASSUME Inv, NEW n \in Name, WriteFails(n), up,
           \A m \in Name \ {n} : live'[m] = live[m]
    PROVE  MemoryMatchesFile'
<1> USE DEF Inv
<1>1. CASE UNCHANGED file /\ drift' = drift \cup {n}
  <2>1. Merge(Stored)' = Merge(Stored)
    BY <1>1 DEF Merge, Stored
  <2> QED
    BY <1>1, <2>1 DEF MemoryMatchesFile
<1>2. CASE Torn
    BY <1>2 DEF Torn, MemoryMatchesFile
<1> QED
    BY <1>1, <1>2 DEF WriteFails

\* A job whose confirmation failed runs, and is marked as drifting.
LEMMA AddFailsKeepsInv ==
    ASSUME Inv, NEW n \in Name, NEW a \in Action, AddFails(n, a)
    PROVE  Inv'
<1> USE DEF AddFails, AddLive
<1>1. /\ Saved' /\ Erased'
      /\ confirmed' \in Jobs /\ drift' \in SUBSET Name
      /\ wiped' \in SUBSET Name
      /\ file' \in Jobs \cup {Corrupt}
    BY WriteFailsKeeps
<1>2. TypeOK'
    BY <1>1 DEF Inv, TypeOK, Jobs, Own
<1>3. RemovedStaysRemoved'
    BY DEF Inv, RemovedStaysRemoved, TypeOK, Jobs
<1>4. MemoryMatchesFile'
    BY WriteFailsVisible DEF Inv, TypeOK, Jobs
<1> QED
    BY <1>1, <1>2, <1>3, <1>4 DEF Inv

\* An unscheduled job is in neither place; what the YAML says of it drifts.
LEMMA RemoveKeepsInv ==
    ASSUME Inv, NEW n \in Name, Remove(n)
    PROVE  Inv'
<1> USE DEF Remove, RemoveLive, RemoveStored, Inv
<1>1. Stored \in Jobs
    BY StoredType
<1>2. /\ Stored'[n] = NoJob
      /\ \A m \in Name \ {n} : Stored'[m] = Stored[m]
      /\ file' \in Jobs \cup {Corrupt}
  <2>1. CASE Stored[n] = NoJob
    BY <2>1 DEF Stored, TypeOK
  <2>2. CASE Stored[n] # NoJob
    <3>1. file' \in Jobs
      BY <1>1, <2>2 DEF Jobs
    <3> QED
      BY <1>1, <2>2, <3>1, JobsReadBack DEF Jobs
  <2> QED
    BY <2>1, <2>2
<1>3. TypeOK'
    BY <1>2, SchedulerAssumption DEF TypeOK, Jobs, Own
<1>4. Saved'
  <2> SUFFICES ASSUME NEW m \in Name \ wiped, confirmed'[m] # NoJob
               PROVE  file' # Corrupt /\ file'[m] = confirmed'[m] /\ m \notin drift'
    BY DEF Saved
  <2>1. m # n /\ confirmed'[m] = confirmed[m]
    BY DEF TypeOK, Jobs
  <2>2. file # Corrupt /\ file[m] = confirmed[m] /\ m \notin drift
    BY <2>1 DEF Saved
  <2>3. file \in Jobs /\ Stored = file
    BY <2>2 DEF TypeOK, Stored
  <2>4. file' \in Jobs
    BY <2>3 DEF Jobs
  <2>5. Stored' = file' /\ file' # Corrupt
    BY <2>4, JobsReadBack
  <2> QED
    BY <1>2, <2>1, <2>2, <2>3, <2>5
<1>5. Erased'
    BY <1>2 DEF Erased, TypeOK
<1>6. RemovedStaysRemoved'
    BY DEF RemovedStaysRemoved, TypeOK, Jobs
<1>7. MemoryMatchesFile'
  <2>1. \A m \in Name \ {n} : Merge(Stored)'[m] = Merge(Stored)[m]
    BY <1>2 DEF Merge
  <2>2. Merge(Stored)'[n] = Yaml[n]
    BY <1>2 DEF Merge
  <2> QED
    BY <2>1, <2>2 DEF MemoryMatchesFile, TypeOK, Jobs
<1> QED
    BY <1>3, <1>4, <1>5, <1>6, <1>7

\* A job whose removal failed is gone from memory, and drifts.
LEMMA RemoveFailsKeepsInv ==
    ASSUME Inv, NEW n \in Name, RemoveFails(n)
    PROVE  Inv'
<1> USE DEF RemoveFails, RemoveLive
<1>1. /\ Saved' /\ Erased'
      /\ confirmed' \in Jobs /\ drift' \in SUBSET Name
      /\ wiped' \in SUBSET Name
      /\ file' \in Jobs \cup {Corrupt}
    BY WriteFailsKeeps
<1>2. TypeOK'
    BY <1>1, SchedulerAssumption DEF Inv, TypeOK, Jobs, Own
<1>3. RemovedStaysRemoved'
    BY DEF Inv, RemovedStaysRemoved, TypeOK, Jobs
<1>4. MemoryMatchesFile'
    BY WriteFailsVisible DEF Inv, TypeOK, Jobs
<1> QED
    BY <1>1, <1>2, <1>3, <1>4 DEF Inv

\* A process that ends while it writes leaves a corrupt file.
LEMMA DieWritingKeepsInv ==
    ASSUME Inv, NEW n \in Name, DieWriting(n)
    PROVE  Inv'
<1> USE DEF DieWriting, Gone, Torn
<1>1. Stored' = NoJobs
    BY CorruptReadBack
<1>2. TypeOK'
    BY SchedulerAssumption DEF Inv, TypeOK, Jobs, NoJobs, Own
<1>3. Saved' /\ Erased'
    BY <1>1 DEF Inv, TypeOK, Saved, Erased, NoJobs
<1>4. RemovedStaysRemoved' /\ MemoryMatchesFile'
    BY DEF Inv, TypeOK, RemovedStaysRemoved, MemoryMatchesFile, NoJobs
<1> QED
    BY <1>2, <1>3, <1>4 DEF Inv

\* Every step, and a step that changes nothing, keeps the invariant.
LEMMA InvNext == Inv /\ [Next]_vars => Inv'
<1> SUFFICES ASSUME Inv, [Next]_vars PROVE Inv'
    OBVIOUS
<1>1. CASE UNCHANGED vars
    BY <1>1 DEF vars, Inv, TypeOK, Saved, Erased, Stored, RemovedStaysRemoved,
                MemoryMatchesFile, Merge, Own
<1>2. CASE Start \/ Reload \/ Stop
    BY <1>2, StartKeepsInv, ReloadKeepsInv, StopKeepsInv
<1>3. CASE \E n \in Name, a \in Action : Add(n, a) \/ AddFails(n, a)
    BY <1>3, AddKeepsInv, AddFailsKeepsInv
<1>4. CASE \E n \in Name : Remove(n) \/ RemoveFails(n) \/ DieWriting(n)
    BY <1>4, RemoveKeepsInv, RemoveFailsKeepsInv, DieWritingKeepsInv
<1> QED
    BY <1>1, <1>2, <1>3, <1>4 DEF Next

\* In the invariant, a confirmed job runs: it is saved, and its action is the one
\* a restart would load; its callback follows from when it was added.
LEMMA InvConfirmed == Inv => ConfirmedJobsRun
<1> SUFFICES ASSUME Inv, up, NEW n \in Name \ wiped, confirmed[n] # NoJob
             PROVE  /\ live[n] = confirmed[n]
                    /\ n \in bound <=> (confirmed[n] \in AgentOwn /\ n \notin early)
    BY DEF ConfirmedJobsRun
<1>1. file # Corrupt /\ file[n] = confirmed[n] /\ n \notin drift
    BY DEF Inv, Saved
<1>2. Merge(Stored)[n] = confirmed[n]
    BY <1>1 DEF Merge, Stored
<1>3. live[n] = confirmed[n]
    BY <1>1, <1>2 DEF Inv, MemoryMatchesFile
<1>4. bound = Own(live) \ early
    BY DEF Inv, TypeOK
<1> QED
    BY <1>3, <1>4 DEF Own

\* The invariant holds in every reachable state.
LEMMA InvAlways == Spec => []Inv
  BY InvInit, InvNext, PTL DEF Spec

\* The scheduler's memory, the file and the history variables keep their shape.
THEOREM JobsTypeCorrect == Spec => []TypeOK
<1>1. Inv => TypeOK
    BY DEF Inv
<1> QED
    BY <1>1, InvAlways, PTL

\* A confirmed job runs with its action until it is replaced, removed or erased by
\* an interrupted write, across restarts, reloads and failed changes of other
\* jobs; its callback is the agent's until the next restart, and no longer.
THEOREM ConfirmedJobsSafety == Spec => []ConfirmedJobsRun
  BY InvConfirmed, InvAlways, PTL

\* A removed job does not come back from the file.
THEOREM RemovalSafety == Spec => []RemovedStaysRemoved
<1>1. Inv => RemovedStaysRemoved
    BY DEF Inv
<1> QED
    BY <1>1, InvAlways, PTL

\* The actions in memory and those the next start would load differ only for
\* names whose last change was not saved, or removed a job of the personality.
THEOREM FileSafety == Spec => []MemoryMatchesFile
<1>1. Inv => MemoryMatchesFile
    BY DEF Inv
<1> QED
    BY <1>1, InvAlways, PTL
=============================================================================
