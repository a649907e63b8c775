---------------------------- MODULE JobLifecycle ----------------------------
(***************************************************************************)
(* The life of a filtration job: the HTTP handlers of routers/jobs.py, the *)
(* thread pool of workers/job_worker.py and the rows of FT_Jobs,           *)
(* FT_JobColumns and FT_JobResults they share.                             *)
(*                                                                         *)
(* A handler runs in a thread of its own, reads the job row, checks its    *)
(* Status and only later writes it: no lock and no row version lies        *)
(* between the two, so each handler is several steps that interleave with  *)
(* the other handlers and with the runs.  A run is one call of             *)
(* _run_job_safe by a pool thread; its steps are the places where it       *)
(* writes Status, touches the staging table or looks for a cancellation.   *)
(*                                                                         *)
(* The names of the program counters are those of the code to come: a      *)
(* thread at "import" has created the staging table and imports next.      *)
(***************************************************************************)
EXTENDS Naturals, Sequences, FiniteSets

CONSTANTS
    Jobs,         \* job ids that uploads may allocate
    Threads,      \* the pool: max(1, MAX_CONCURRENT_JOBS) threads
    Handlers,     \* request handlers that may be in progress together
    NoJob,        \* the job of a thread or a handler that has none
    NumSteps,     \* pipeline steps that end in on_step: 2 to 13 in the code
    MaxCalls,     \* bound: requests made of the API
    MaxCrashes    \* bound: deaths of the backend process

ASSUME NoJobAssumption == NoJob \notin Jobs
ASSUME BoundsAssumption ==
    /\ NumSteps \in Nat \ {0}
    /\ MaxCalls \in Nat
    /\ MaxCrashes \in Nat

VARIABLES
    status,       \* FT_Jobs.Status, "ABSENT" while the row does not exist
    hasOptions,   \* FT_Jobs.OptionsJson is set
    filePath,     \* FT_Jobs.OriginalFilePath names the saved upload, still there
    columns,      \* copies of the column map in FT_JobColumns
    staging,      \* the table FT_Staging_<JobID> exists
    results,      \* FT_JobResults: none, counted, or reported (with files)
    queue,        \* the executor's queue of submitted runs
    run,          \* what each pool thread is doing
    request,      \* what each handler is doing
    merges,       \* times rows of the job were merged into Master
    completions,  \* times the job was marked COMPLETED
    abandoned,    \* jobs whose run ended without writing a Status
    calls,        \* requests made so far
    crashes       \* deaths of the process so far

dbVars     == <<status, hasOptions, filePath, columns, staging, results>>
ghostVars  == <<merges, completions, abandoned>>
boundVars  == <<calls, crashes>>
vars == <<dbVars, queue, run, request, ghostVars, boundVars>>

-----------------------------------------------------------------------------
Active   == {"IMPORTING", "PROCESSING"}
Terminal == {"COMPLETED", "FAILED", "CANCELLED"}
Statuses == {"ABSENT", "QUEUED", "CANCELLING"} \cup Active \cup Terminal

Startable   == {"QUEUED", "FAILED", "CANCELLED"}
Retryable   == {"FAILED", "CANCELLED"}
Cancellable == {"QUEUED", "IMPORTING", "PROCESSING"}

\* The stretch of _run_job between the creation of the staging table and the
\* write of COMPLETED: the run reads or writes the table, or reports on it.
BeforeMerge == {"import", "check", "count", "filter", "summarise", "insert",
                "columns", "merge"}
Staged  == BeforeMerge \cup {"report", "complete"}
\* ... and its unwinding by a cancellation, up to the write of CANCELLED.
Held    == Staged \cup {"cancelled"}
\* The run has not claimed the job yet, or has done with it.
Aside   == {"idle", "taken", "loaded", "log"}
Working == {"taken", "loaded", "claimed", "mapped", "log"} \cup Staged
RunPCs  == {"idle", "failing", "cancelled"} \cup Working

NoRun     == [pc |-> "idle", job |-> NoJob, seen |-> "expired", left |-> 0, cols |-> 0]
NoRequest == [pc |-> "idle", kind |-> "none", job |-> NoJob, seen |-> "ABSENT"]

RunRecord == [pc : RunPCs, job : Jobs \cup {NoJob}, seen : Statuses \cup {"expired"},
              left : Nat, cols : Nat]

RequestRecord == [pc : {"idle", "save", "write", "submit"},
                  kind : {"none", "upload", "start", "retry", "cancel"},
                  job : Jobs \cup {NoJob}, seen : Statuses]

DbTypeOK ==
    /\ status \in [Jobs -> Statuses]
    /\ hasOptions \in [Jobs -> BOOLEAN]
    /\ filePath \in [Jobs -> BOOLEAN]
    /\ columns \in [Jobs -> Nat]
    /\ staging \in [Jobs -> BOOLEAN]
    /\ results \in [Jobs -> {"none", "counted", "reported"}]

RunTypeOK ==
    /\ run \in [Threads -> RunRecord]
    /\ \A t \in Threads : /\ run[t].pc # "idle" => run[t].job \in Jobs
                          /\ run[t].pc = "filter" => run[t].left > 0

RequestTypeOK ==
    /\ request \in [Handlers -> RequestRecord]
    /\ \A h \in Handlers : request[h].pc # "idle" => request[h].job \in Jobs

GhostTypeOK ==
    /\ merges \in [Jobs -> Nat]
    /\ completions \in [Jobs -> Nat]
    /\ abandoned \subseteq Jobs

TypeOK ==
    /\ DbTypeOK /\ RunTypeOK /\ RequestTypeOK /\ GhostTypeOK
    /\ queue \in Seq(Jobs)
    /\ calls \in Nat /\ crashes \in Nat

Init ==
    /\ status = [j \in Jobs |-> "ABSENT"]
    /\ hasOptions = [j \in Jobs |-> FALSE]
    /\ filePath = [j \in Jobs |-> FALSE]
    /\ columns = [j \in Jobs |-> 0]
    /\ staging = [j \in Jobs |-> FALSE]
    /\ results = [j \in Jobs |-> "none"]
    /\ queue = <<>>
    /\ run = [t \in Threads |-> NoRun]
    /\ request = [h \in Handlers |-> NoRequest]
    /\ merges = [j \in Jobs |-> 0]
    /\ completions = [j \in Jobs |-> 0]
    /\ abandoned = {}
    /\ calls = 0
    /\ crashes = 0

-----------------------------------------------------------------------------
(* The request handlers.                                                   *)

\* A free handler takes a request about job j and keeps the Status it read.
Accept(h, kind, j, pc, seen) ==
    /\ request[h] = NoRequest
    /\ calls < MaxCalls
    /\ calls' = calls + 1
    /\ request' = [request EXCEPT ![h] =
                     [pc |-> pc, kind |-> kind, job |-> j, seen |-> seen]]

Respond(h) == request' = [request EXCEPT ![h] = NoRequest]

\* POST /upload: the row is created QUEUED before the file is saved ...
UploadCreate(h, j) ==
    /\ status[j] = "ABSENT"
    /\ Accept(h, "upload", j, "save", "QUEUED")
    /\ status' = [status EXCEPT ![j] = "QUEUED"]
    /\ UNCHANGED <<hasOptions, filePath, columns, staging, results, queue, run,
                   ghostVars, crashes>>

\* ... then its path is recorded,
UploadSave(h) ==
    /\ request[h].pc = "save"
    /\ filePath' = [filePath EXCEPT ![request[h].job] = TRUE]
    /\ Respond(h)
    /\ UNCHANGED <<status, hasOptions, columns, staging, results, queue, run,
                   ghostVars, boundVars>>

\* or the file turns out to be larger than MAX_FILE_SIZE_GB.
UploadTooLarge(h) ==
    /\ request[h].pc = "save"
    /\ status' = [status EXCEPT ![request[h].job] = "FAILED"]
    /\ Respond(h)
    /\ UNCHANGED <<hasOptions, filePath, columns, staging, results, queue, run,
                   ghostVars, boundVars>>

\* POST /{id}/start, /retry and /cancel read the row and check the Status.
ReadAndCheck(h, kind, j) ==
    /\ CASE kind = "start"  -> status[j] \in Startable
         [] kind = "retry"  -> status[j] \in Retryable /\ hasOptions[j]
         [] kind = "cancel" -> status[j] \in Cancellable
    /\ Accept(h, kind, j, "write", status[j])
    /\ UNCHANGED <<dbVars, queue, run, ghostVars, crashes>>

\* update_job of start_job.  The ORM sends only the attributes that differ from
\* the values it loaded: a Status read as QUEUED is not written again, whatever
\* it has become meanwhile.
StartWrite(h) ==
    /\ request[h].pc = "write" /\ request[h].kind = "start"
    /\ status' = IF request[h].seen = "QUEUED" THEN status
                 ELSE [status EXCEPT ![request[h].job] = "QUEUED"]
    /\ hasOptions' = [hasOptions EXCEPT ![request[h].job] = TRUE]
    /\ request' = [request EXCEPT ![h].pc = "submit"]
    /\ UNCHANGED <<filePath, columns, staging, results, queue, run, ghostVars,
                   boundVars>>

\* update_job of retry_job.
RetryWrite(h) ==
    /\ request[h].pc = "write" /\ request[h].kind = "retry"
    /\ status' = [status EXCEPT ![request[h].job] = "QUEUED"]
    /\ request' = [request EXCEPT ![h].pc = "submit"]
    /\ UNCHANGED <<hasOptions, filePath, columns, staging, results, queue, run,
                   ghostVars, boundVars>>

\* submit_job, called by start_job and retry_job after the commit.
Submit(h) ==
    /\ request[h].pc = "submit"
    /\ queue' = Append(queue, request[h].job)
    /\ Respond(h)
    /\ UNCHANGED <<dbVars, run, ghostVars, boundVars>>

\* update_job of cancel_job.
CancelWrite(h) ==
    /\ request[h].pc = "write" /\ request[h].kind = "cancel"
    /\ status' = [status EXCEPT ![request[h].job] = "CANCELLING"]
    /\ Respond(h)
    /\ UNCHANGED <<hasOptions, filePath, columns, staging, results, queue, run,
                   ghostVars, boundVars>>

\* The database or the disk fails a handler between two of its steps: the client
\* gets an error and what the handler has already committed stays.
HandlerFails(h) ==
    /\ request[h].pc # "idle"
    /\ Respond(h)
    /\ UNCHANGED <<dbVars, queue, run, ghostVars, boundVars>>

HandlerStep(h) ==
    \/ \E j \in Jobs : \/ UploadCreate(h, j)
                       \/ \E kind \in {"start", "retry", "cancel"} : ReadAndCheck(h, kind, j)
    \/ UploadSave(h) \/ UploadTooLarge(h)
    \/ StartWrite(h) \/ RetryWrite(h) \/ Submit(h) \/ CancelWrite(h)
    \/ HandlerFails(h)

-----------------------------------------------------------------------------
(* The runs.                                                               *)

Owner(t) == run[t].job

At(t, pc) == run[t].pc = pc

Goto(t, pc) == run' = [run EXCEPT ![t].pc = pc]

\* update_job.  The session of a run keeps the job row it has loaded until the next
\* commit, and reloads it after its own; the ORM leaves out of the UPDATE what
\* equals the loaded value, whatever the row says by now.  `seen` is the Status
\* loaded last, or "expired" if a commit has forgotten it.
Saved(t, value) ==
    IF run[t].seen = value THEN status ELSE [status EXCEPT ![Owner(t)] = value]

\* A run goes on with a Status just loaded, or with none after a commit without a
\* reload.  What it does not always do: load it for an update_job of other columns.
\* Reading any column of a job that a commit has forgotten loads the whole row.
Loaded(t, pc, value) == run' = [run EXCEPT ![t].pc = pc, ![t].seen = value]
Expire(t, pc)  == Loaded(t, pc, "expired")
MayLoad(t)     == {run[t].seen, status[Owner(t)]}
Reloaded(t)    == IF run[t].seen = "expired" THEN status[Owner(t)] ELSE run[t].seen

\* A pool thread takes the oldest submission.
Dequeue(t) ==
    /\ At(t, "idle")
    /\ queue # <<>>
    /\ queue' = Tail(queue)
    /\ run' = [run EXCEPT ![t] =
                 [NoRun EXCEPT !.pc = "taken", !.job = Head(queue)]]
    /\ UNCHANGED <<dbVars, request, ghostVars, boundVars>>

\* get_job.
LoadJob(t) ==
    /\ At(t, "taken")
    /\ Loaded(t, "loaded", status[Owner(t)])
    /\ UNCHANGED <<dbVars, queue, request, ghostVars, boundVars>>

\* The job is claimed whatever its Status is.
Claim(t) ==
    /\ At(t, "loaded")
    /\ status' = Saved(t, "IMPORTING")
    /\ abandoned' = abandoned \ {Owner(t)}
    /\ Loaded(t, "claimed", status'[Owner(t)])
    /\ UNCHANGED <<hasOptions, filePath, columns, staging, results, queue,
                   request, merges, completions, boundVars>>

\* The header is read from the saved file; set_job_columns adds its map to the
\* maps that earlier runs of the job have left.
MapColumns(t) ==
    /\ At(t, "claimed")
    /\ filePath[Owner(t)]
    /\ columns' = [columns EXCEPT ![Owner(t)] = @ + 1]
    /\ Expire(t, "mapped")
    /\ UNCHANGED <<status, hasOptions, filePath, staging, results, queue,
                   request, ghostVars, boundVars>>

\* A mutant of CreateStaging: a CREATE TABLE IF NOT EXISTS.
CreateStagingIfMissing(t) ==
    /\ At(t, "mapped")
    /\ staging' = [staging EXCEPT ![Owner(t)] = TRUE]
    /\ Goto(t, "import")
    /\ UNCHANGED <<status, hasOptions, filePath, columns, results, queue,
                   request, ghostVars, boundVars>>

\* CREATE TABLE, committed at once.
CreateStaging(t) ==
    /\ At(t, "mapped")
    /\ ~staging[Owner(t)]
    /\ staging' = [staging EXCEPT ![Owner(t)] = TRUE]
    /\ Goto(t, "import")
    /\ UNCHANGED <<status, hasOptions, filePath, columns, results, queue,
                   request, ghostVars, boundVars>>

\* CREATE TABLE raises if the table is there already.
CreateConflict(t) ==
    /\ At(t, "mapped")
    /\ staging[Owner(t)]
    /\ Goto(t, "failing")
    /\ UNCHANGED <<dbVars, queue, request, ghostVars, boundVars>>

\* Rows, working columns and index: the table's content, not its existence.
\* This step and the later ones that query the table raise if it is gone, which
\* only the retention cleanup can bring about.
Import(t) ==
    /\ At(t, "import")
    /\ staging[Owner(t)]
    /\ \E s \in MayLoad(t) : Loaded(t, "check", s)
    /\ UNCHANGED <<dbVars, queue, request, ghostVars, boundVars>>

\* _raise_if_cancelled finds no request, after the import ...
CheckAfterImport(t) ==
    /\ At(t, "check")
    /\ status[Owner(t)] # "CANCELLING"
    /\ Goto(t, "count")
    /\ UNCHANGED <<dbVars, queue, request, ghostVars, boundVars>>

SetProcessing(t) ==
    /\ At(t, "count")
    /\ staging[Owner(t)]
    /\ status' = Saved(t, "PROCESSING")
    /\ run' = [run EXCEPT ![t].pc = "filter", ![t].left = NumSteps,
                          ![t].seen = status'[Owner(t)]]
    /\ UNCHANGED <<hasOptions, filePath, columns, staging, results, queue,
                   request, ghostVars, boundVars>>

\* A mutant of FilterStep: on_step without the check.
FilterStepUnchecked(t) ==
    /\ At(t, "filter")
    /\ staging[Owner(t)]
    /\ \E s \in MayLoad(t) :
         run' = [run EXCEPT ![t].pc = IF run[t].left = 1 THEN "summarise" ELSE "filter",
                            ![t].left = @ - 1, ![t].seen = s]
    /\ UNCHANGED <<dbVars, queue, request, ghostVars, boundVars>>

\* ... and after each pipeline step: the procedure, then on_step.
FilterStep(t) ==
    /\ At(t, "filter")
    /\ staging[Owner(t)]
    /\ status[Owner(t)] # "CANCELLING"
    /\ \E s \in MayLoad(t) :
         run' = [run EXCEPT ![t].pc = IF run[t].left = 1 THEN "summarise" ELSE "filter",
                            ![t].left = @ - 1, ![t].seen = s]
    /\ UNCHANGED <<dbVars, queue, request, ghostVars, boundVars>>

\* A mutant of CancelDetected: the table is dropped when the run unwinds.
CancelDetectedDrops(t) ==
    /\ run[t].pc \in {"check", "filter"}
    /\ status[Owner(t)] = "CANCELLING"
    /\ staging' = [staging EXCEPT ![Owner(t)] = FALSE]
    /\ Goto(t, "cancelled")
    /\ UNCHANGED <<status, hasOptions, filePath, columns, results, queue,
                   request, ghostVars, boundVars>>

\* At either place the request is seen and JobCancelledException unwinds the run.
CancelDetected(t) ==
    /\ run[t].pc \in {"check", "filter"}
    /\ status[Owner(t)] = "CANCELLING"
    /\ Goto(t, "cancelled")
    /\ UNCHANGED <<dbVars, queue, request, ghostVars, boundVars>>

\* save_job_results deletes and commits, then inserts and commits.
ClearResults(t) ==
    /\ At(t, "summarise")
    /\ staging[Owner(t)]
    /\ results' = [results EXCEPT ![Owner(t)] = "none"]
    /\ Expire(t, "insert")
    /\ UNCHANGED <<status, hasOptions, filePath, columns, staging, queue,
                   request, ghostVars, boundVars>>

InsertResults(t) ==
    /\ At(t, "insert")
    /\ results' = [results EXCEPT ![Owner(t)] = "counted"]
    /\ Expire(t, "columns")
    /\ UNCHANGED <<status, hasOptions, filePath, columns, staging, queue,
                   request, ghostVars, boundVars>>

\* update_job with the counts, then get_job_columns: the map that the merge and the
\* reports will use.
ReadColumns(t) ==
    /\ At(t, "columns")
    /\ run' = [run EXCEPT ![t].pc = "merge", ![t].seen = status[Owner(t)],
                          ![t].cols = columns[Owner(t)]]
    /\ UNCHANGED <<dbVars, queue, request, ghostVars, boundVars>>

\* merge_job_into_master, if the request asked for it and JobType allows it.
\* Its first commit puts rows into Master; what follows it may still raise.
MergeInto(t) ==
    /\ At(t, "merge")
    /\ staging[Owner(t)]
    /\ merges' = [merges EXCEPT ![Owner(t)] = @ + 1]
    /\ UNCHANGED <<dbVars, queue, request, completions, abandoned, boundVars>>

Merge(t)       == MergeInto(t) /\ Expire(t, "report")
MergePartly(t) == MergeInto(t) /\ Goto(t, "failing")

\* A mutant of SkipMerge: the reports are skipped too.
SkipMergeAndReports(t) ==
    /\ At(t, "merge")
    /\ Goto(t, "complete")
    /\ UNCHANGED <<dbVars, queue, request, ghostVars, boundVars>>

SkipMerge(t) ==
    /\ At(t, "merge")
    /\ Goto(t, "report")
    /\ UNCHANGED <<dbVars, queue, request, ghostVars, boundVars>>

\* A mutant of WriteReports: the paths are not recorded.
WriteReportsUnrecorded(t) ==
    /\ At(t, "report")
    /\ staging[Owner(t)]
    /\ Loaded(t, "complete", Reloaded(t))
    /\ UNCHANGED <<dbVars, queue, request, ghostVars, boundVars>>

\* The output files are written, with the job's FileName in one of them, and their
\* paths recorded in FT_JobResults, if there are any.
WriteReports(t) ==
    /\ At(t, "report")
    /\ staging[Owner(t)]
    /\ results' = [results EXCEPT ![Owner(t)] = "reported"]
    /\ \E s \in {Reloaded(t), "expired"} : Loaded(t, "complete", s)
    /\ UNCHANGED <<status, hasOptions, filePath, columns, staging, queue,
                   request, ghostVars, boundVars>>

\* COMPLETED is written without another look at Status.
Complete(t) ==
    /\ At(t, "complete")
    /\ status' = Saved(t, "COMPLETED")
    /\ completions' = [completions EXCEPT ![Owner(t)] = @ + 1]
    /\ Loaded(t, "log", status'[Owner(t)])
    /\ UNCHANGED <<hasOptions, filePath, columns, staging, results, queue,
                   request, merges, abandoned, boundVars>>

Retire(t) == run' = [run EXCEPT ![t] = NoRun]

LogCompleted(t) ==
    /\ At(t, "log")
    /\ Retire(t)
    /\ UNCHANGED <<dbVars, queue, request, ghostVars, boundVars>>

\* Any statement of _run_job may raise: SQL Server, the disk, the file itself.
\* log_activity after COMPLETED is inside the same try.
Raise(t) ==
    /\ run[t].pc \in Working
    /\ Goto(t, "failing")
    /\ UNCHANGED <<dbVars, queue, request, ghostVars, boundVars>>

\* Mutants of PersistFailed: no write, and a retry nobody asked for.
PersistFailedUnwritten(t) ==
    /\ At(t, "failing")
    /\ Retire(t)
    /\ UNCHANGED <<dbVars, queue, request, ghostVars, boundVars>>

PersistFailedResubmits(t) ==
    /\ At(t, "failing")
    /\ status' = Saved(t, "QUEUED")
    /\ queue' = Append(queue, Owner(t))
    /\ Retire(t)
    /\ UNCHANGED <<hasOptions, filePath, columns, staging, results, request,
                   ghostVars, boundVars>>

\* The except clauses of _run_job_safe.
PersistFailed(t) ==
    /\ At(t, "failing")
    /\ status' = Saved(t, "FAILED")
    /\ Retire(t)
    /\ UNCHANGED <<hasOptions, filePath, columns, staging, results, queue,
                   request, ghostVars, boundVars>>

PersistCancelled(t) ==
    /\ At(t, "cancelled")
    /\ status' = Saved(t, "CANCELLED")
    /\ Retire(t)
    /\ UNCHANGED <<hasOptions, filePath, columns, staging, results, queue,
                   request, ghostVars, boundVars>>

\* Either write may itself raise, which is logged and forgotten.
PersistLost(t) ==
    /\ run[t].pc \in {"failing", "cancelled"}
    /\ abandoned' = abandoned \cup {Owner(t)}
    /\ Retire(t)
    /\ UNCHANGED <<dbVars, queue, request, merges, completions, boundVars>>

RunStep(t) ==
    \/ Dequeue(t) \/ LoadJob(t) \/ Claim(t) \/ MapColumns(t)
    \/ CreateStaging(t) \/ CreateConflict(t) \/ Import(t)
    \/ CheckAfterImport(t) \/ SetProcessing(t) \/ FilterStep(t) \/ CancelDetected(t)
    \/ ClearResults(t) \/ InsertResults(t) \/ ReadColumns(t)
    \/ Merge(t) \/ MergePartly(t) \/ SkipMerge(t)
    \/ WriteReports(t) \/ Complete(t) \/ LogCompleted(t)
    \/ Raise(t) \/ PersistFailed(t) \/ PersistCancelled(t) \/ PersistLost(t)

\* The backend dies and is started again: what it held in memory is gone, the
\* database stays, and lifespan looks at no job.
Crash ==
    /\ crashes < MaxCrashes
    /\ crashes' = crashes + 1
    /\ queue' = <<>>
    /\ run' = [t \in Threads |-> NoRun]
    /\ request' = [h \in Handlers |-> NoRequest]
    /\ abandoned' = abandoned \cup {Owner(t) : t \in {u \in Threads : run[u].pc # "idle"}}
    /\ UNCHANGED <<dbVars, merges, completions, calls>>

Next ==
    \/ \E h \in Handlers : HandlerStep(h)
    \/ \E t \in Threads : RunStep(t)
    \/ Crash

Spec == Init /\ [][Next]_vars

\* Pool threads are never blocked: a thread with work to do goes on.  Nobody is
\* obliged to make a request, nor a handler to be scheduled.
Fairness == \A t \in Threads : WF_vars(RunStep(t))
LiveSpec == Spec /\ Fairness

-----------------------------------------------------------------------------
(* Properties.                                                             *)

\* Two runs of one job, submitted twice, never work on its staging table
\* together, nor does one while the other is being unwound by a cancellation:
\* CREATE TABLE without a DROP is the lock (csv_importer.py:63-80).
StagingExclusive ==
    \A t, u \in Threads :
        /\ run[t].pc \in Held /\ run[u].pc \in Held
        /\ Owner(t) = Owner(u)
        => t = u

\* A job shown as running is being run, or its run died without a word: no
\* interleaving of claims, failures and handlers leaves IMPORTING or PROCESSING
\* behind (job_worker.py:78-100).
ActiveHasOwner ==
    \A j \in Jobs :
        status[j] \in Active =>
            \/ j \in abandoned
            \/ \E t \in Threads : Owner(t) = j /\ run[t].pc \notin Aside

\* While a job is COMPLETED its results and files are all there and no other
\* run of it can touch them, or is on its way to CANCELLED (job_worker.py:201-243).
CompletedIsQuiet ==
    \A j \in Jobs :
        status[j] = "COMPLETED" =>
            /\ results[j] = "reported"
            /\ \A t \in Threads : Owner(t) = j => run[t].pc \notin Held

\* However often a job is started, retried or caught by a crash, its rows are
\* merged into Master at most once by the worker, and it completes at most once.
AtMostOnce == \A j \in Jobs : merges[j] <= 1 /\ completions[j] <= 1

\* A job whose run has nothing more to do is never turned into a cancelled one,
\* nor set back to PROCESSING: a late cancel cannot disown finished work.
CompletedNotUndone ==
    [][\A j \in Jobs : status[j] = "COMPLETED" => status'[j] \notin {"CANCELLED", "PROCESSING"}]_vars

\* The refinement mapping to OneShot.
InUse(j) == \E t \in Threads : Owner(t) = j /\ run[t].pc \in Staged

PhaseOf(j) ==
    IF ~staging[j] THEN "fresh"
    ELSE IF completions[j] > 0 THEN "done"
    ELSE IF InUse(j) THEN "inuse"
    ELSE "spoiled"

Shot == INSTANCE OneShot WITH
            phase  <- [j \in Jobs |-> PhaseOf(j)],
            merged <- {j \in Jobs : merges[j] > 0}

\* The worker gives each job one attempt at its rows, and no more.
OneShotRefinement == Shot!Spec

\* One run of j is between two of its checks, and no other is on its way, nor has
\* this one loaded the FAILED of another, which would keep it from writing its own.
SoleRun(j) ==
    /\ \E t \in Threads : /\ Owner(t) = j
                          /\ run[t].pc \in {"check", "filter"}
                          /\ run[t].seen # "FAILED"
                          /\ \A u \in Threads \ {t} : Owner(u) # j
    /\ \A i \in 1..Len(queue) : queue[i] # j
    /\ \A h \in Handlers : request[h].job = j => request[h].kind = "cancel"

\* A cancellation requested while the only run of the job is importing or has a
\* pipeline step to go ends in CANCELLED or FAILED, and never in COMPLETED: the
\* cooperative check works in the stretch it covers (job_worker.py:103-108, 189).
CancelSettles ==
    \A j \in Jobs :
        (status[j] = "CANCELLING" /\ SoleRun(j))
            ~> (status[j] \in {"CANCELLED", "FAILED"} \/ j \in abandoned)

\* Every submission is taken by the pool and its run comes to an end: no request,
\* failure, cancellation or crash wedges a pool thread (job_worker.py:66-100).
WorkDrains == <>[](queue = <<>> /\ \A t \in Threads : At(t, "idle"))

-----------------------------------------------------------------------------
(* The inductive invariant behind the safety properties.                   *)

\* A run works on a table that is there.
HeldHasTable == \A t \in Threads : run[t].pc \in Held => staging[Owner(t)]

\* Nothing has been merged or completed before the table is created, nor, once a
\* run has it, before that run gets there.
CountsFollowRuns ==
    /\ \A j \in Jobs : ~staging[j] => merges[j] = 0 /\ completions[j] = 0
    /\ \A t \in Threads :
        /\ run[t].pc \in BeforeMerge => merges[Owner(t)] = 0
        /\ run[t].pc \in Staged => completions[Owner(t)] = 0

\* A run about to write COMPLETED has reported, and a COMPLETED job keeps its table.
ReportedBeforeCompleted ==
    /\ \A t \in Threads : At(t, "complete") => results[Owner(t)] = "reported"
    /\ \A j \in Jobs : status[j] = "COMPLETED" => staging[j]

\* One of the runs that account for an active job will write its end, not having
\* loaded the end of another run.
ActiveOwnerWrites ==
    \A j \in Jobs :
        status[j] \in Active =>
            \/ j \in abandoned
            \/ \E t \in Threads : /\ Owner(t) = j /\ run[t].pc \notin Aside
                                  /\ run[t].seen \in Active \cup {"expired"}

LifecycleInv ==
    /\ TypeOK
    /\ HeldHasTable /\ StagingExclusive
    /\ CountsFollowRuns /\ AtMostOnce
    /\ ReportedBeforeCompleted /\ CompletedIsQuiet
    /\ ActiveOwnerWrites
=============================================================================
