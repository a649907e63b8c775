----------------------------- MODULE JobCleanup -----------------------------
(***************************************************************************)
(* The retention cleanup, scripts/run_cleanup.py, next to a backend that   *)
(* keeps running.  It is a process of its own: it lists the jobs to clean  *)
(* with one query and then goes through the list without looking at their  *)
(* Status again, first for the uploaded files and then for the staging     *)
(* tables.  Its two other passes touch nothing the lifecycle of a job      *)
(* depends on: that over report output is in ReportFiles, that over temp   *)
(* folders is left out.                                                    *)
(***************************************************************************)
EXTENDS JobLifecycle

CONSTANT MaxCleanups   \* bound: times the scheduler starts the cleanup

ASSUME CleanupAssumption == MaxCleanups \in Nat

VARIABLES
    age,       \* 1: created before the upload cutoff, 2: before the report cutoff
    cleaner,   \* the pass going on, the jobs it has still to clean, and those of
               \* them that had a staging table when they were listed
    cleanups   \* cleanups started so far

cleanVars == <<age, cleaner, cleanups>>
allVars   == <<vars, cleanVars>>

NoPass == [pass |-> "idle", todo |-> {}, had |-> {}]

CleanupInit ==
    /\ Init
    /\ age = [j \in Jobs |-> 0]
    /\ cleaner = NoPass
    /\ cleanups = 0

\* CreatedAt, not EndTime, is compared with the cutoffs: a job ages whatever it
\* is doing, and UPLOAD_RETENTION_DAYS is not longer than REPORT_RETENTION_DAYS.
GrowOld(j) ==
    /\ status[j] # "ABSENT"
    /\ age[j] < 2
    /\ age' = [age EXCEPT ![j] = @ + 1]
    /\ UNCHANGED <<vars, cleaner, cleanups>>

\* A mutant of TerminalJobs: a cancellation that is under way counts as ended.
SettledJobs(minAge) ==
    {j \in Jobs : status[j] \in Terminal \cup {"CANCELLING"} /\ age[j] >= minAge}

TerminalJobs(minAge) == {j \in Jobs : status[j] \in Terminal /\ age[j] >= minAge}

SelectInputs ==
    /\ cleaner.pass = "idle"
    /\ cleanups < MaxCleanups
    /\ cleanups' = cleanups + 1
    /\ cleaner' = [pass |-> "inputs", todo |-> TerminalJobs(1), had |-> {}]
    /\ UNCHANGED <<vars, age>>

RemoveInput(j) ==
    /\ cleaner.pass = "inputs"
    /\ j \in cleaner.todo
    /\ filePath' = [filePath EXCEPT ![j] = FALSE]
    /\ cleaner' = [cleaner EXCEPT !.todo = @ \ {j}]
    /\ UNCHANGED <<status, hasOptions, columns, staging, results, queue, run,
                   request, ghostVars, boundVars, age, cleanups>>

SelectTables ==
    /\ cleaner.pass = "inputs" /\ cleaner.todo = {}
    /\ cleaner' = [pass |-> "tables", todo |-> TerminalJobs(2),
                   had |-> {j \in TerminalJobs(2) : staging[j]}]
    /\ UNCHANGED <<vars, age, cleanups>>

DropStaging(j) ==
    /\ cleaner.pass = "tables"
    /\ j \in cleaner.todo
    /\ staging' = [staging EXCEPT ![j] = FALSE]
    /\ cleaner' = [cleaner EXCEPT !.todo = @ \ {j}]
    /\ UNCHANGED <<status, hasOptions, filePath, columns, results, queue, run,
                   request, ghostVars, boundVars, age, cleanups>>

EndCleanup ==
    /\ cleaner.pass = "tables" /\ cleaner.todo = {}
    /\ cleaner' = NoPass
    /\ UNCHANGED <<vars, age, cleanups>>

\* The cleanup may die, or its connection: the rest of the list is left.
CleanupDies ==
    /\ cleaner.pass # "idle"
    /\ cleaner' = NoPass
    /\ UNCHANGED <<vars, age, cleanups>>

CleanStep ==
    \/ \E j \in Jobs : GrowOld(j) \/ RemoveInput(j) \/ DropStaging(j)
    \/ SelectInputs \/ SelectTables \/ EndCleanup \/ CleanupDies

CleanupNext == (Next /\ UNCHANGED cleanVars) \/ CleanStep

CleanupSpec == CleanupInit /\ [][CleanupNext]_allVars

-----------------------------------------------------------------------------
(* Properties.                                                             *)

\* With the default pool of one thread, a table that was there when the cleanup listed
\* its job is not dropped under a run, although the list may be stale by then: until
\* the drop every new run of the job stops at CREATE TABLE (cleanup_service.py:80-90,
\* csv_importer.py:79).  A table created after the listing has no such protection.
LeftoverDropIsSafe ==
    [][\A j \in Jobs :
         staging[j] /\ ~staging'[j] /\ j \in cleaner.had =>
             \A t \in Threads : Owner(t) = j => run[t].pc \notin Staged]_allVars

\* "never drops a staging table for a job that is still QUEUED/IMPORTING/PROCESSING"
\* (cleanup_service.py:5-6).
DropOnlyTerminal ==
    [][\A j \in Jobs :
         staging[j] /\ ~staging'[j] =>
             status[j] \notin {"QUEUED", "IMPORTING", "PROCESSING"}]_allVars

-----------------------------------------------------------------------------
(* The inductive invariant behind the properties.                          *)

CleanerTypeOK ==
    /\ age \in [Jobs -> 0..2]
    /\ cleaner \in [pass : {"idle", "inputs", "tables"}, todo : SUBSET Jobs, had : SUBSET Jobs]
    /\ cleanups \in Nat

\* A file is still to be saved for the job, or has been refused or removed for good:
\* a run that gets there fails to read it.
Saving(j)   == \E h \in Handlers : request[h].pc = "save" /\ request[h].job = j
Rejected(j) == ~filePath[j] /\ ~Saving(j)

\* Only what has a row is asked for, queued or run.
RowsExist ==
    /\ \A h \in Handlers : request[h].pc # "idle" => status[request[h].job] # "ABSENT"
    /\ \A i \in 1..Len(queue) : status[queue[i]] # "ABSENT"
    /\ \A t \in Threads : run[t].pc # "idle" => status[Owner(t)] # "ABSENT"
    /\ \A j \in Jobs : filePath[j] => status[j] # "ABSENT"

\* A job is uploaded once, and no run has read its file before that.
UploadedOnce ==
    /\ \A h \in Handlers : request[h].pc = "save" =>
           /\ ~filePath[request[h].job]
           /\ \A g \in Handlers : request[g].pc = "save" /\ request[g].job = request[h].job
                                  => g = h
    /\ \A t \in Threads : run[t].pc \in {"mapped"} \cup Staged => ~Saving(Owner(t))

\* With one thread nothing but a refused upload ends a job while it is being run: the
\* Status the listing has seen as ended is not that of a job at work.
RunsOnlyUnended ==
    \A t \in Threads :
        LET ended == status[Owner(t)] \in Terminal IN
        /\ At(t, "loaded") /\ run[t].seen = "IMPORTING" => ~ended \/ Rejected(Owner(t))
        /\ At(t, "claimed") => ~ended \/ Rejected(Owner(t))
        /\ run[t].pc \in {"mapped"} \cup Staged => ~ended

\* A table the cleanup has yet to drop, and had seen when it listed the job, is there and
\* is nobody's.
ListedIsLeftover ==
    \A j \in cleaner.todo \cap cleaner.had :
        cleaner.pass = "tables" =>
            /\ staging[j]
            /\ \A t \in Threads : Owner(t) = j => run[t].pc \notin Staged

CleanupInv ==
    /\ TypeOK /\ CleanerTypeOK
    /\ RowsExist /\ UploadedOnce /\ RunsOnlyUnended
    /\ ListedIsLeftover
=============================================================================
