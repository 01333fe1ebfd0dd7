----------------------------- MODULE Scheduler -----------------------------
(***************************************************************************)
(* The scheduled jobs of one agent: AgentScheduler                         *)
(* (scheduling/scheduler.py), the tools schedule_task and unschedule_task  *)
(* (agents/tools.py) and _start_scheduler (agents/base.py).                *)
(*                                                                         *)
(* A job exists twice: in APScheduler's memory, and, if it was added at    *)
(* run time, in <agent>_schedules.json.  Jobs of the personality's YAML    *)
(* are only read at start.  Nothing below awaits, so every operation is    *)
(* one step; a step may end in an error of the file system, or with the    *)
(* process.  Triggers are left out: a job without a valid one is added     *)
(* neither to the memory nor to the file.                                  *)
(***************************************************************************)
CONSTANTS
    Name,      \* names of jobs
    Action,
    AgentOwn,  \* actions with a handler of the agent: heartbeat, send_message
    Yaml,      \* Yaml[n]: the action the personality schedules as n, or NoJob
    NoJob,
    Corrupt    \* a file that is not a JSON list

ASSUME SchedulerAssumption ==
    /\ NoJob \notin Action
    /\ AgentOwn \subseteq Action
    /\ Yaml \in [Name -> Action \cup {NoJob}]
    /\ Corrupt \notin [Name -> Action \cup {NoJob}]

VARIABLES
    up,         \* the process runs and its scheduler is started
    live,       \* action of each job in APScheduler
    bound,      \* jobs in APScheduler whose callback is a handler of the agent
    file,       \* the JSON file; one that does not exist is empty
    confirmed,  \* history variable: what schedule_task confirmed, and nobody
                \* has tried to replace or remove since
    removed,    \* history variable: names unscheduled, and not added since
    drift,      \* history variable: names whose memory and file may differ
    wiped,      \* history variable: names an interrupted write of the file
                \* has erased, and that were not added since
    early       \* history variable: names not added since the start, whose
                \* callbacks were chosen before the agent had registered its

vars == <<up, live, bound, file, confirmed, removed, drift, wiped, early>>

Jobs == [Name -> Action \cup {NoJob}]
NoJobs == [n \in Name |-> NoJob]

----------------------------------------------------------------------------
\* Loading.

\* _load_json_schedules and _load_json_schedules_raw.
Stored == IF file = Corrupt THEN NoJobs ELSE file

\* Faulty: the YAML wins over the file.
MergeYamlFirst(stored) ==
    [n \in Name |-> IF Yaml[n] # NoJob THEN Yaml[n] ELSE stored[n]]

\* _merge_jobs: the file wins over the YAML.
Merge(stored) ==
    [n \in Name |-> IF stored[n] # NoJob THEN stored[n] ELSE Yaml[n]]

\* Names whose callback is the agent's once the agent has registered handlers.
Own(jobs) == {n \in Name : jobs[n] \in AgentOwn}

Init ==
    /\ up = FALSE
    /\ live = NoJobs
    /\ bound = {}
    /\ file = NoJobs
    /\ confirmed = NoJobs
    /\ removed = {}
    /\ drift = {}
    /\ wiped = {}
    /\ early = {}

\* start() adds every job before _start_scheduler registers the handlers of the
\* agent: heartbeat gets the builtin that logs, send_message gets "custom".
Start ==
    /\ ~ up
    /\ up' = TRUE
    /\ live' = Merge(Stored)
    /\ bound' = {}
    /\ early' = Name
    /\ drift' = {}
    /\ UNCHANGED <<file, confirmed, removed, wiped>>

\* reload(): from scratch, with what is registered now.
Reload ==
    /\ up
    /\ live' = Merge(Stored)
    /\ bound' = Own(Merge(Stored))
    /\ early' = {}
    /\ drift' = {}
    /\ UNCHANGED <<up, file, confirmed, removed, wiped>>

----------------------------------------------------------------------------
\* _write_json_file for a change of job n; it opens the file, which empties it,
\* and then writes it.

\* Interrupted by a full disk or the end of the process: every job is lost.
Torn ==
    /\ file' = Corrupt
    /\ drift' = Name
    /\ wiped' = Name

\* It raises, before the file was opened or after.
WriteFails(n) ==
    /\ confirmed' = [confirmed EXCEPT ![n] = NoJob]
    /\ \/ /\ drift' = drift \cup {n}
          /\ UNCHANGED <<file, wiped>>
       \/ Torn

----------------------------------------------------------------------------
\* schedule_task: in APScheduler first, which replaces a job of that name.

\* Faulty: the file is written anew with this one job.
PersistAlone(n, a) == [NoJobs EXCEPT ![n] = a]

\* _persist_json_job
Persist(n, a) == [Stored EXCEPT ![n] = a]

AddLive(n, a) ==
    /\ up
    /\ live' = [live EXCEPT ![n] = a]
    /\ bound' = IF a \in AgentOwn THEN bound \cup {n} ELSE bound \ {n}
    /\ early' = early \ {n}
    /\ removed' = removed \ {n}

\* Confirmed to the user.
Add(n, a) ==
    /\ AddLive(n, a)
    /\ file' = Persist(n, a)
    /\ confirmed' = [confirmed EXCEPT ![n] = a]
    /\ drift' = drift \ {n}
    /\ wiped' = wiped \ {n}
    /\ UNCHANGED up

\* Reported as failed, and yet the job runs until the process ends.
AddFails(n, a) ==
    /\ AddLive(n, a)
    /\ WriteFails(n)
    /\ UNCHANGED up

----------------------------------------------------------------------------
\* unschedule_task

\* Faulty: the job stays in the file.
RemoveStoredNothing(n) ==
    /\ UNCHANGED file
    /\ confirmed' = [confirmed EXCEPT ![n] = NoJob]
    /\ removed' = removed \cup {n}
    /\ drift' = drift \cup {n}
    /\ UNCHANGED wiped

\* _remove_json_job writes only if the job is in the file.  What the YAML
\* schedules as n is back after a restart or a reload.
RemoveStored(n) ==
    /\ file' = IF Stored[n] = NoJob THEN file ELSE [Stored EXCEPT ![n] = NoJob]
    /\ confirmed' = [confirmed EXCEPT ![n] = NoJob]
    /\ removed' = removed \cup {n}
    /\ drift' = IF Yaml[n] = NoJob THEN drift \ {n} ELSE drift \cup {n}
    /\ UNCHANGED wiped

RemoveLive(n) ==
    /\ up
    /\ live' = [live EXCEPT ![n] = NoJob]
    /\ bound' = bound \ {n}
    /\ UNCHANGED <<up, early>>

\* "Unscheduled", whether there was such a job or not.
Remove(n) == RemoveLive(n) /\ RemoveStored(n)

\* The exception of the write comes out of the tool.
RemoveFails(n) ==
    /\ RemoveLive(n)
    /\ Stored[n] # NoJob
    /\ WriteFails(n)
    /\ UNCHANGED removed

----------------------------------------------------------------------------
\* Faulty: the jobs run on when the scheduler is stopped.
GoneKeepsJobs == up /\ up' = FALSE /\ UNCHANGED <<live, bound, early>>

\* APScheduler's MemoryJobStore goes with the process.
Gone ==
    /\ up
    /\ up' = FALSE
    /\ live' = NoJobs
    /\ bound' = {}
    /\ early' = {}

\* Between two operations.
Stop == Gone /\ UNCHANGED <<file, confirmed, removed, drift, wiped>>

\* While it writes the file; the user hears nothing.
DieWriting(n) ==
    /\ Gone
    /\ Torn
    /\ confirmed' = [confirmed EXCEPT ![n] = NoJob]
    /\ removed' = removed \ {n}

Next ==
    \/ Start \/ Reload \/ Stop
    \/ \E n \in Name, a \in Action : Add(n, a) \/ AddFails(n, a)
    \/ \E n \in Name : Remove(n) \/ RemoveFails(n) \/ DieWriting(n)

Spec == Init /\ [][Next]_vars

----------------------------------------------------------------------------
(***************************************************************************)
(* Properties.                                                             *)
(***************************************************************************)

\* The shape of the state; nothing runs while the process is down.
TypeOK ==
    /\ up \in BOOLEAN
    /\ live \in Jobs
    /\ bound \in SUBSET Name
    /\ file \in Jobs \cup {Corrupt}
    /\ confirmed \in Jobs
    /\ removed \in SUBSET Name
    /\ drift \in SUBSET Name
    /\ wiped \in SUBSET Name
    /\ early \in SUBSET Name
    /\ ~ up => live = NoJobs
    /\ bound = Own(live) \ early

\* What schedule_task confirmed runs with the action it was given, through any
\* number of restarts and reloads and whatever happens to other jobs, unless an
\* interrupted write erased it.  Its callback is the agent's handler of that
\* action, if the agent has one, until the next restart: from then on it is
\* what the scheduler had before the agent registered its handlers.
ConfirmedJobsRun ==
    up => \A n \in Name \ wiped : confirmed[n] # NoJob =>
        /\ live[n] = confirmed[n]
        /\ n \in bound <=> (confirmed[n] \in AgentOwn /\ n \notin early)

\* What unschedule_task removed never runs again, unless it is scheduled anew
\* or the personality has a job of that name.
RemovedStaysRemoved ==
    \A n \in removed : Yaml[n] = NoJob => live[n] = NoJob

\* The actions that run are those the next start would load, but for the names
\* whose last change was not saved, or removed a job of the personality, and
\* for all names once a write was interrupted.
MemoryMatchesFile ==
    up => \A n \in Name \ drift : live[n] = Merge(Stored)[n]
=============================================================================
