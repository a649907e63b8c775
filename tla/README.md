# A verification project for FT, the Filtration Tool (SQL Server edition)

FT takes an uploaded CSV or Excel file of contacts, copies it into a staging
table of its own, runs a pipeline of stored procedures that give a *reason
code* to every row to be left out, merges the rows that are kept into a master
list of addresses, and writes one output file per category. A FastAPI backend
orchestrates; SQL Server is the only authoritative store. No lock, no row
version and no state machine lies between the request handlers, the runs of the
thread pool, the cleanup script and the database: what keeps them apart is a
handful of commits, one `CREATE TABLE` and one unique index. This directory
states what that is enough for, checks it with TLC on small instances, and
proves most of it with TLAPS for instances of any size.

Paths below are relative to `src/`; `jobs.py:71` is line 71 of a file named in
the inventory.

## 1. Inventory

| Component | State | Operations | Talks to |
|---|---|---|---|
| **Job API** `routers/jobs.py`, `services/job_service.py` | rows of `FT_Jobs` (Status, OptionsJson, OriginalFilePath), `FT_JobColumns` | upload, start, retry, cancel (each: read, check, write, perhaps submit) | database; `submit_job` of the pool |
| **Worker pool** `workers/job_worker.py` | the executor's queue and threads (in memory), the session of each run, `FT_Staging_<JobID>`, `FT_JobResults` | `_run_job_safe`: claim, map columns, create the table, import, 2 to 13 steps with a look for a cancellation after each, summary, merge, reports, COMPLETED; FAILED and CANCELLED | all of the others |
| **Retention cleanup** `services/cleanup_service.py`, `scripts/run_cleanup.py` | none: a process of its own | remove old inputs, drop old staging tables, remove old reports and temp folders | database, disk; *not* the backend |
| **Pipeline** `filtration/pipeline.py`, `sql/procedures/` | ReasonCode and IsOtherTLD of the staging rows | 13 steps in an order, most of them optional; summary | reference lists, Master (read) |
| **Master merge** `services/master_service.py`, `routers/master.py`, `sp_FT_MergeTo*` | `FT_MasterEmails` (unique index on Email), `FT_OtherTLDMaster`, `FT_MasterFiles` | merge by a run, merge by an administrator, soft delete of an entry | staging tables |
| **Reports** `services/report_service.py` | output files, `FT_JobResults` | counts, a CSV file and Excel sheets per category, the paths of the files | staging table, column map |
| **Reference lists** `services/reference_service.py`, `routers/reference.py` | seven lists, each with a unique index on Value | create, paste, update (value, on or off), delete | read by the pipeline |
| **Import** `filtration/csv_importer.py`, `filtration/excel_reader.py` | the content of the staging table | BULK INSERT, or chunks as a fallback; the sheets of a workbook combined | disk, database |
| **Python rules** `filtration/normalization.py`, `tld.py`, `keywords.py`, `username_rules.py` | none | the rules once more, for tests and previews | |
| **Column detection, identifiers** `filtration/column_detection.py`, `utils/identifiers.py` | none | guess the e-mail column, name SQL columns | import, pipeline |
| **Accounts** `routers/users.py`, `services/auth_service.py`, `database.py` | `FT_Users`, `FT_Roles`, unique indexes on user name, e-mail and role | create, update, get or create a role, let a request in; the first account at the start of a backend | every router |
| **Upload, settings, activity log** | files, `FT_Settings`, `FT_ActivityLogs` | saving, key/value, append | |
| **Frontend, Windows scripts** | | | the API |

What makes each of them correct, and why it is hard:

* **Job API and pool.** One job is one run at a time on one staging table; rows
  reach Master at most once; a job shown as active is being worked on; what is
  COMPLETED stays so; a cancellation comes to an end. Hard, because every
  handler checks a Status it read in another transaction than it writes it in,
  because the ORM leaves out of an UPDATE what equals the value it *loaded*,
  because a job can be submitted twice, and because the queue dies with the
  process.
* **Cleanup.** Never take a table from under a run. Hard, because its list is
  stale from the moment it is read, and because age is counted from CreatedAt.
* **Pipeline.** The set-based steps agree with a row-by-row reading of the
  rules; the first verdict stands; the files hold what the summary counts. Hard,
  because lists and Master change while the steps run and any step may be off.
* **Master merge.** Addresses are unique and keep their origin; the counts of
  `FT_MasterFiles` tell what happened. Hard, because the check reads a snapshot
  and the merge commits three times.
* **Import and reports.** Every row of the file is in the table once, under its
  headers, and reaches the user once; a file that is offered is whole. Hard,
  because two ways of importing are tried one after the other, because a file is
  written in one place and offered from another, and because a run may stop
  anywhere and be made again over what it has left.
* **Reference lists.** A value is in a list once, whatever its spelling, and all
  that an administrator has asked for is there. Hard, because each request looks
  first and writes later, and because SQL Server and Python do not mean the same
  by equal.
* **Accounts.** The first account is made once; an update is made or refused;
  there is somebody left to administer. Hard for the same reason, and because a
  helper commits what its caller has not finished.
* **Python rules, identifiers.** Both versions of a rule agree; the names of two
  columns differ. Hard, because an odd character in a value is enough.

`PROJECT.json` lists the hazards at their lines, with the property that watches
each of them.

## 2. Modules

| Module | What it is |
|---|---|
| `OneShot` | abstract specification: the rows of a job are taken by one run, merged at most once, and never touched again |
| `JobLifecycle` | handlers, queue, pool threads, database rows; implements `OneShot` |
| `JobCleanup` | extends `JobLifecycle` with the cleanup process |
| `Pipeline` | the thirteen steps, the list edits and merges around them, summary and report predicates |
| `MasterBook` | abstract specification: a book of addresses that is only added to, a job at a time |
| `MasterMerge` | merges row by row, with the index, three commits, failures; implements `MasterBook` |
| `Requests` | handlers of requests, as far as lists and accounts need them |
| `KeySet` | abstract specification: a set of keys, each on or off |
| `ReferenceLists` | extends `Requests`: a list, its index, the requests that edit it; implements `KeySet` |
| `Accounts` | extends `Requests`: accounts, roles, and backends that start |
| `SourceFiles` | operators: what the rows of an uploaded file are |
| `StagingImport` | the import of such a file into its table |
| `ReportFiles` | extends `StagingImport` to what a user downloads, with the cleanup of reports |
| `Rules` | operators: each rule in SQL and in Python, names of columns |
| `RuleTwins` | grows the words that `Rules` is compared on |
| `JobProofs`, `PipelineProofs`, `MasterMergeProofs`, `ReferenceListsProofs`, `AccountsProofs`, `ReportFilesProofs`, `RuleProofs` | theorems |
| `FoldFacts` | facts about folds, sums and recursion that the proofs share |
| `MCJobLifecycle`, `MCJobCleanup`, `MCPipeline`, `MCMasterMerge`, `MCReferenceLists`, `MCAccounts`, `MCFiles`, `MCRules` | instances for TLC |

### JobLifecycle

`status`, `hasOptions`, `filePath`, `columns`, `staging`, `results` are the
database: a row of `FT_Jobs`, how many copies of the column map are in
`FT_JobColumns`, whether the staging table exists, what is in `FT_JobResults`.
`queue` is the executor's. `run[t]` is what pool thread `t` is doing: `pc` names
the code to come, `seen` is the Status its session holds, `left` the pipeline
steps to go, `cols` the column maps it has read for the merge and the reports.
`request[h]` is a handler in progress with the Status it read. `merges`,
`completions` and `abandoned` only record history, `calls` and `crashes` are
counters for the bounds.

A handler is up to three steps: `ReadAndCheck`, `StartWrite` / `RetryWrite` /
`CancelWrite`, and `Submit`; an upload is `UploadCreate` and then `UploadSave` or
`UploadTooLarge`. `HandlerFails` may end any of them in between. A run is the
sequence `Dequeue`, `LoadJob`, `Claim`, `MapColumns`, `CreateStaging` (or
`CreateConflict`), `Import`, `CheckAfterImport`, `SetProcessing`, `FilterStep`
(repeated), `ClearResults`, `InsertResults`, `ReadColumns`, `Merge` (or
`SkipMerge`), `WriteReports`, `Complete`, `LogCompleted`. `Raise` may take any
working run to `PersistFailed`, `CancelDetected` takes it to `PersistCancelled`;
either write may itself fail, `PersistLost`. `Crash` empties memory and keeps
the database: nothing in `main.py`'s lifespan looks at jobs left active.

The session. SQLAlchemy omits from an UPDATE the attributes that equal the
loaded value, and forgets loaded values at every commit. A run's `update_job` is
load, assign, commit and refresh; since a row loaded since the last commit is
not loaded again, a Status written by somebody else may be missed by the
comparison. `seen` carries this: `Saved` writes nothing when `seen` is the value
to be written. Where the code may or may not have loaded the row (a progress
update that is only made for some files, an output path that is only recorded
for some categories) the next `seen` is chosen from both outcomes; where it reads
another column of a row it has forgotten (`job.FileName` after the merge has
committed) the whole row is loaded again (`Reloaded`). Of the
handlers only `start_job` can meet the case (it may read QUEUED and write
QUEUED); what retry and cancel write always differs from what they have read.
One `update_job` of a run is one step: between its load and its commit nothing
is decided, so what can go wrong is all in `seen`.

Abstracted: what is imported (`Import` keeps the table's existence only),
`NumSteps` for the number of steps that end in `on_step`, timestamps, messages,
counters, activity log. A merge is one step here, `Merge`, or `MergePartly` when
it raises after its first commit; what goes on inside it is `MasterMerge`.

### JobCleanup

The cleanup reads its list (`SelectInputs`, `SelectTables`) and then goes
through it (`RemoveInput`, `DropStaging`) without another look. `age` stands for
CreatedAt against the two cutoffs; `GrowOld` is enabled whatever the job is
doing. `had` records, for the property, which of the listed jobs had a table.

### Pipeline

A step is one stored procedure, hence one transaction: it reads the lists and
Master as they are at its start and tags rows. `On` and `Skip` give the
conditions of `run_full_pipeline`; `separate_tld` and `normalize` are always on,
as in the code. Text is abstracted: a value of the e-mail column has an address,
and the rules are sets of values or addresses (`RawInvalid`, `Unsplittable`,
`Malformed`, `Numeric`, ...), a list is the set of what its active entries
match. `SameAsDomain` is a constant set although the procedure cuts the domain
at the TLD; the sets are independent of each other, so that no property leans
on how the text looks. `Unsplittable` is there because `LEFT(x, CHARINDEX('@',
x) - 1)` raises on a value without `@`: `NormalizeRaises`.

### MasterMerge

`ReadMissing` is the `NOT EXISTS` of the INSERT, over what is committed at that
moment (the database has READ_COMMITTED_SNAPSHOT on,
`000_create_database.sql:22`); `InsertRow` puts one key into the unique index and
locks it; `CommitMaster` commits with the counts; `CopyOther` and `RecordFile`
are the second and third commit. `DuplicateKey` is the index refusing a row,
`MergeFails` everything else that may raise, a deadlock victim included.
`state` is what the module needs of a job: `WorkerBegins` once in its life (that
it is only once is `AtMostOnce` of `JobLifecycle`), `AdminBegins` as often as the
bound allows. `unlisted` records the addresses of merges that ended before
their entry.

### Requests, ReferenceLists, Accounts

A request of a handler is a record; its field `at` names the step to come, and
`Move`, `Answer` and `RequestFails` are what can happen to it. A step is a
statement or a commit: what the code has read in one of them is in the record
when it takes the next. The session of a request ends with it, committed or not
(`get_db`).

`ReferenceLists` has `entries`, the table by identity number, so that an entry
keeps its identity when its value changes and a number is never used again.
`KeyOf` is the collation: two spellings of one key are one value to `WHERE` and
to the index and two to a Python set. `CreateFound`, `CreateAbsent`,
`PasteCheck` and `LoadEntry` are the reads of the four methods; `CommitAdd`,
`AddRefused`, `CommitUpdate`, `UpdateRefused` and `CommitDelete` are what the
commit can do. `Updated` leaves out of the UPDATE what equals the value loaded,
as the ORM does. `Respond` is the activity log, another transaction, and the
answer. `added` and `removed` only record what others have done to the values of
a request since its check.

`Accounts` has `accounts` by user name, which never changes and is never
deleted. `LetIn` is `require_super_admin`; it is part of the step that makes the
request, because nothing of the request has happened before. An update holds its
changes in the session (`Pending`) until `get_or_create_role` commits them with
a role that is new (`AddRole`), or its own commit does (`WriteUser`).
`AccountInit` has accounts that earlier requests may have left, or none. `Count`
and `InsertDefault` are the two statements of `_ensure_default_superadmin`.

### SourceFiles, StagingImport, ReportFiles

A file is a record: its kind, and its sheets with a header row and rows of
cells; how a library splits text into cells is left out. `UnifiedHeaders` and
`Aligned` are the two passes over a workbook. In `StagingImport` `table` is what
is committed and `open` what is not; `reading` is the iterator with its batch.
`BulkFails` may happen at any row, since the server may not see the file at
all; `BulkPassOver` is the server's default for MAXERRORS, which the statement
does not set, with the bound `MaxErrors` in place of ten: a row of another width,
or with a cell too long for NVARCHAR(4000) (`TooLong`, `Loads`). The batches cut
or pad the former, and raise on the latter. `Fail` is an error, a
cancellation or the end of the process, at any step; `DropStaging` the cleanup,
without which there is no second import.

`ReportFiles` takes over from there: `CountRows`, any tags at all (`Filter`),
`ClearResults` and `InsertResults`, each CSV file row by row, the workbook
(`Torn` while it is saved), the paths one by one. The disk is `csvs` and `book`;
it survives failures, and what a run had in memory does not. `Split` is the loop
over the rows of a category, and `Put` its body with the counter. Neither SELECT has an ORDER BY:
`AddPipelineColumns` numbers the rows in any order, and the workbook scans them
in any other (`Orders`). The cleanup of reports lists the job once it has ended
(`ListOutput`) and removes its files at any later moment (`RemoveFile`), in any
order, since it may be slow: also those a retry has written since. `FT_JobResults`
and the downloads do not hear of it.

### Rules, RuleTwins

A word is a sequence of characters of an alphabet that has one of each kind a
rule distinguishes. Line breaks are not among them: what `.` and `$` of a regular
expression make of one is not modelled. `Like` is what LIKE means, as a table: for
each place of the pattern the places of the value it matches from (`LikeFrom`).
`KeywordMatches` is what the regular expression means: places for the parts
between the stars. The translations
`WildcardToLike`, `StripDigits` (with the `#` it goes through), the checks of
the stored procedures and the functions in Python are operators of the same
words.

Case. A keyword and what it is held against are in one case here, as the
collation and `re.IGNORECASE` both disregard it. Addresses are made lower case by
both sides; a listed TLD is not, T-SQL compares with it by the collation and
Python with its lower case in one place (`tld.py:31`) and as it is listed in
another (`username_rules.py:33`). So TLDs have both cases, `LowerOf` leads from one
to the other, and it is applied where the code, or the collation, applies it.
Characters beyond ASCII, for which a collation and Python's `lower` may part, are
not among the words.

Lengths. What is assigned to the NVARCHAR(300) of `fn_FT_WildcardToLike` is cut in
silence (`Assigned`, `PatternLimit`); a name is cut to `_MAX_IDENTIFIER_LEN` and
an identifier to 128 (`NameLimit`, `IdentifierLimit`). The limits are constants.

`RuleTwins` lets two words grow, so that every pair up to a length is a state; it
has no behaviour of its own to model.

## 3. Runs

Deadlock is not checked in any run: requests, edits and attempts are bounded,
nobody must make one, and a system without requests rests.

| Run | Instance | Distinct states |
|---|---|---|
| `lifecycle` | 2 jobs, 2 threads, 2 handlers, 2 filter steps, 5 requests, 1 crash | 1,161,706 |
| `lifecycle_live` | 1 job, 2 threads, 2 handlers, 4 requests, 1 crash | 163,436 |
| `cleanup` | 1 job, 1 thread, 2 handlers, 4 requests, 2 cleanups, 1 crash | 789,246 |
| `verdicts` | every file of 3 rows over 9 values, each filter off in turn | 2.6 million |
| `list_edits` | 2 rows, 2 edits at any moment | 702,286 |
| `master_merge` | 2 jobs over 3 addresses, 2 mergers, 2 manual merges, 1 crash | 334,436 |
| `reference_lists` | 3 values of 2 keys, 3 identity numbers, 2 handlers, 3 requests | 363,452 |
| `files` | 14 files, 2 attempts, batches and sheets of 2 rows, 2 rows passed over | 1,378,998 |
| `accounts` | 2 names, 2 addresses, 3 roles, 2 handlers, 2 requests, 2 backends | 277,694 |
| `rules` | words of 3 to 6 characters over alphabets of 3 to 6 | 562,978 |

**lifecycle** -- Five requests allow an upload, two starts that overlap, a
cancellation and a retry of one job, or both jobs to be started and one of them
retried; two threads let two runs of one job overlap, and a crash may fall
anywhere. It checks:
`StagingExclusive` (no two runs of a job between the creation of its table and
their end: `CREATE TABLE` without a drop is the lock), `ActiveHasOwner`
(IMPORTING and PROCESSING are never left behind, unless a run died without
writing), `CompletedIsQuiet` (COMPLETED means reported, with no run that could
still touch the table or cancel), `AtMostOnce`, `CompletedNotUndone`,
`OneShotRefinement`, and the invariant the proofs use, `LifecycleInv`.

**lifecycle_live** -- Fairness is `WF` of each pool thread's steps and nothing
else: a `ThreadPoolExecutor` thread with work goes on, and no statement of a run
waits for another actor's good will. No request is ever due, and handlers need
not finish. `WorkDrains`: the queue empties and the threads come to rest.
`CancelSettles`: a cancellation requested while the *only* run of the job is
importing or has a step to go ends in CANCELLED or FAILED. Without "only" it is
false, see the list of disagreements below.

**cleanup** -- One thread, as MAX_CONCURRENT_JOBS is by default.
`LeftoverDropIsSafe`: a table that existed when the cleanup listed its job is not
dropped under a run, although the list is stale: until the drop, every new run
stops at `CREATE TABLE`. With two threads it is false, because a run may fail and
let its twin go on. `ActiveHasOwner` holds with the cleanup too; `AtMostOnce`
does not: after a drop the job has a fresh table and may be merged again.

**verdicts, list_edits** -- `AgreesWithRowByRow` compares the whole pipeline
with the first rule that applies, row by row; three rows are what "the first of
its address that is still in the pipeline" needs. `KeptIsWellFormed` holds
whichever filters are off. While lists and Master change: `FilesMatchSummary`,
`VerdictStands`, `OneRowPerAddress`; they are about one row, or two with the
same address, and one or two edits, so two rows are enough.

**master_merge** -- Files that overlap in each order, one that repeats an
address and an empty one. `EntriesAddUp`, `RowsAccounted`, `RecordedIsMerged`,
`BookRefinement` and the invariant `MergeInv`. An address in three places is
enough for every pair of merges to block, overtake or refuse each other.

**reference_lists** -- Two requests race and a third comes after them, or
between; the list starts as anything the index allows.
`AddRefusedWithCause`: the index is there for a race, and refuses nobody else,
but for a paste that brings another spelling. `AddLeavesNothingOut`: what an
addition has found at its check and left out is still there when it commits,
unless somebody has taken it out. `EditsDoNotOverwrite`, `ListRefinement` and
the invariant of the proofs, `ListInv`. A paste of three values is one more than
`MaxParameters`.

**files** -- Rows that fill a batch and rows that do not, short and long rows, a
blank line, cells too long for their column, the same row twice, columns in
another order on another sheet, headers that differ in case, empty or repeated headers, no header; four rows in
a category and two to a sheet. A first attempt may stop anywhere, with its table
dropped or not, and a second one follows. `TableIsEmptyOrWhole`,
`CellsUnderTheirHeaders` and `EveryRowDelivered` compare the table and the
downloads with the file, cell by cell and row by row; `RecordedIsWhole` holds at
every moment in between, and what is offered and not there has been removed by
the cleanup; `SheetsHoldCategory` is about the boundary of a sheet.

**accounts** -- `DefaultOnlyWhenEmpty`: the count is old when the account is
inserted, and yet it never goes into a table with users, because whoever made
them was let in by an account of the default name. `LockOutTakesARace`: two
admins who take each other's role at one moment can leave none; nothing else
can, but an admin that does it to itself. `UpdateIsWhole`: an update is
committed in two halves for a role that is new, and only then. A third request would add nothing that two
do not do to each other: the properties are about a request and one that comes
between its steps.

**rules** -- Each pair of words up to the bounds. Three characters in a value
against four in a pattern let two stars with a letter between them meet each
other and every escaped character; an address of six characters has two `@`, a
dot and both kinds of white space; headers with a position are as long as an
identifier may be here, and keywords of three or four special characters, twelve
when escaped, outgrow a pattern of eight. The second word of a domain is a listed
TLD in either case, beside one that is always listed. Where twins differ the
property says how: `NumericAgrees` (SQL takes `#` for a digit), `AddressesAgree`
(SQL removes blanks only), `WildcardsAgree` (a keyword that is too long once
escaped loses its end in SQL), `DomainsAgree` (a listed TLD is a LIKE pattern; one
with an upper-case letter, or one that is the whole domain, is not taken off in
Python).

Two runs show the code at odds with what it says of itself; each checks one
property that quotes a comment, and TLC finds a run of the program that breaks
it (`PROJECT.json`, findings):

* `drop_only_terminal` -- the cleanup drops the table of a job queued again.
* `recheck_protects` -- the re-check of the merge reads a snapshot, and does not
  protect against a concurrent merge; the unique index does, by failing the job.

Other disagreements met while modelling, visible in the modules and without a
run:

* The next Status of a run overwrites CANCELLING (`job_worker.py:121`, `177`,
  `241`), although a cancellation is said to unwind the job (`job_worker.py:58`).
* A CANCELLING written when no run is left to read it stays (`jobs.py:96`).
* A retry meets the table its predecessor left and fails, every time
  (`csv_importer.py:79`), although tables are "created fresh per job"
  (`030_indexes.sql:8`).
* A retry of a run that failed before that point merges and reports with two
  column maps (`job_service.py:57`).
* Two starts that both read QUEUED let a COMPLETED job be claimed again and end
  FAILED (`jobs.py:71`).
* `allowed_tld` is offered as a filter to switch off (`constants.js:12`) and
  `run_full_pipeline` never looks at it.
* With the invalid e-mail filter off a value without `@` raises before the
  re-check meant for it (`sp_FT_NormalizeEmails.sql:42`).
* A merge that fails after its first commit leaves rows in Master without an
  entry (`master_service.py:133`).
* `bulk_create` "de-duplicates against existing values"
  (`reference_service.py:45-47`) as Python compares them: one value in another
  case than the list has it, and the index refuses the whole paste.
* `normalization.py:4` mirrors the T-SQL "exactly", but for tabs and other white
  space (`normalization.py:25`).
* `username_rules.py:2-4` mirrors two procedures, but for `#`, and but for a TLD
  listed with an upper-case letter: with `.COM` listed `sales@sales.com` is
  USERNAME_EQUALS_DOMAIN in SQL only (`username_rules.py:33`).
* `fn_FT_WildcardToLike` is called the "equivalent SQL-side" helper
  (`keywords.py:8`), but a keyword that escapes to more than 300 characters
  loses its end there (`000_helper_functions.sql:56-60`).

Every property of a passing run has a mutant: a definition changed as a
plausible bug would change it, under which TLC finds that property violated.

## 4. Theorems

For any sets of jobs, threads, handlers, addresses and mergers, files of any
size, sheets and batches of any length, any number of requests, edits, cleanups
and crashes. The only assumptions are those the modules declare:

* `NoJob` is no job, `NoEntry` no entry, `NoTable` and `NoFile` are neither a
  table nor a file; the bounds are naturals, a batch and a sheet hold at least
  one row;
* the addresses, the mergers and the categories are finitely many;
* the collation gives every value a key, and the seed script has entered
  SUPER_ADMIN;
* the files of a job are sequences of addresses, and what may be uploaded is
  sheets of cells, one sheet for a CSV file, a missing cell being a cell;
* the position of a column is written with digits, and fits an identifier
  together with the longest name;
* what a character is in lower case is in lower case, and no wildcard of LIKE;
  the lengths of a pattern, a name and an identifier are naturals;
* a cell that is too long for its column is neither empty nor missing;
* what is invalid as it stands has no well-formed address, and what cannot be
  split at its `@` is invalid as it stands.

`JobProofs`, the lifecycle. The safety properties are not inductive by themselves: that
two runs do not share a table follows from the table *existing* while one has it
(`HeldHasTable`); that a job is merged once follows from nothing being merged
before the table exists nor, once a run has it, before the run gets there
(`CountsFollowRuns`); that COMPLETED is quiet needs that a run about to complete
has reported, and that a completed job keeps its table
(`ReportedBeforeCompleted`); and that an active job has an owner needs that one
of its owners will really *write* the end, not having loaded the FAILED of a twin
(`ActiveOwnerWrites`). Together they are `LifecycleInv`. The proof goes by the
effect a step can have on the state (`RunStepEffect`, `HandlerEffect`,
`CrashEffect`), so that each part of the invariant is proved against a few effects
and not against twenty-four actions.

* `TypeCorrect`, `LifecycleInvariant`, `StagingIsExclusive`, `ActiveIsOwned`,
  `CompletedStaysQuiet`, `MergedAtMostOnce`
* `CompletedStandsFirm`: the action property, from the invariant
* `ImplementsOneShot`: `JobLifecycle` implements `OneShot`; a crash is `Spoil` of
  all jobs in use at once

`JobProofs`, the cleanup. `ActiveHasOwner` survives the cleanup with any number of
threads, since the cleanup never writes a Status. That a table is not dropped
under a run is a matter of one thread (`OneThread`, the default of
MAX_CONCURRENT_JOBS, is a hypothesis of the theorem; with two it is false).
`CleanupInv` says why the stale list does no harm: whatever the list has seen
with a table still has it and is nobody's (`ListedIsLeftover`), as a run that
would take it stops at `CREATE TABLE`. For the moment of the listing that needs
that an ended job is not being run (`RunsOnlyUnended`), which an upload refused
as too large seems to break: it writes FAILED at any time, but then the file is
not there and the run stops before it has a table (`UploadedOnce`, `Rejected`).

* `ActiveIsOwnedBesideCleanup`, `ListStaysRight`, `LeftoverDropSafe`

`PipelineProofs`. Every step is quiet or one of the thirteen, which only tag rows
that have no tag and in the order of the steps (`StepEffect`). From it the
invariant: a row set aside is tagged (`AsideIsTagged`), what is untagged after the
normalisation is well-formed (`UntaggedIsWellFormed`), nothing is tagged as a
duplicate too early (`NoDuplicateYet`), and the property itself. That an address is
not lost rests on every set of rows having a first one (`FirstRow`, from the
well-foundedness of the naturals).

* `PipelineTypeCorrect`, `FilesMatch`, `KeptWellFormed`, `AddressOnce`
* `FirstVerdictStands`: the action property
* `VerdictsAgree`: with lists that stand still, what the steps do to the table as a
  whole is what `ClassifyRow` finds row by row. The invariant (`JudgedSoFar`)
  counts rules, not steps: the first two steps apply one rule between them, the
  step for user names two, a step that is off none that any row can break; and a
  row is untagged exactly when none of the rules counted so far applies to it. For
  the rule on duplicates all rows of an address must be in the pipeline together or
  not at all when it comes.

`MasterMergeProofs`. The index keeps uncommitted keys apart (`LocksDisjoint`), what
an INSERT has read as missing is inserted, to be inserted, or in Master
(`NothingForgotten`), and a merge past a commit has it behind (`NothingBehind`).
The rows of Master that came from a job are divided without remainder: those a
merge has committed and not listed yet are as many as it will claim, no two
merges have the same (`MineCounted`), and of the others the entries claim each
(`ListedCounted`). Together they are `MergeInv`. From it:

* `MergeInvariant`
* `CountsAreComplete`: added + duplicate is the number of kept rows, although the
  duplicates are counted after the insert, by subtraction, next to other merges
* `EveryRowClaimedOnce`: a row of Master is claimed by an entry, by a merge under
  way, or by none when the merge has failed before its entry, and never twice
* `RecordedMeansMerged`: an entry implies that everything of its job is there
* `ImplementsBook`: concurrent merges implement the serial book, the commit being
  the point where a merge takes effect

`ReferenceListsProofs`. That the index holds (`OneEntryPerKey`) is not enough:
what is left out of an insertion must be in the list at the commit, and what is
inserted must not be there but for other requests. So the invariant says what
each request has found at its check and that it stands (`Stands`): values left
out are listed or have been taken out since, values to be inserted are absent or
have been written since. Every commit of one request must keep this for all of
the others, which take note of it.

* `ListInvariant`, and from it `RefusalsHaveACause`, `AdditionsAreComplete`,
  `UpdatesKeepTheRest`
* `ImplementsKeySet`: a commit enters its keys at once, edits one or takes one
  out, and every other step leaves the set as it is

`AccountsProofs`. The argument is about what is there for good: accounts stay, so
whoever made a request is still there when it writes, and as the first of all
accounts has the default name (`DefaultFirst`), a backend that inserts it finds
it or finds nobody. `AccountInv` is these two, distinct addresses, and what a
request has in its fields (`AccountFits`). The proof shows one `Effect` for all
steps of a request.

* `AccountInvariant`, and from it `DefaultOnlyIfEmpty`,
  `UpdatesAreWhole`, `LockOutNeedsARace`

`ReportFilesProofs`. `FilesInv` has two parts. For the import: what a run has on
its hands belongs to the table it made (`NothingLeftOpen`), the rows read so far
are inserted, in the batch or passed over (`ReadIsKept`), so that the table a
commit leaves is whole (`ImportedIsWhole`). For the reports: the numbers are those
of the table (`Counted`), a category with rows has its file to come, in hand or
behind (`WorkLeft`), no path is there before all files are (`PathsLast`), a file
that is closed is whole (`ClosedIsWhole`), and the workbook has been made of the
table in some order (`BookKept`). That counts and files add up to the rows of the
file is then a sum over disjoint sets; that a sheet holds what its file holds goes
by where each row of a scan comes from: two scans of one category differ by a
bijection.

* `FilesStayInOrder` (the invariant), and from it `ImportIsWhole`,
  `PathsLeadToWholeFiles`, `NoRowLost`, `SheetsAreWhole`
* `CellsStayUnderHeaders`: its invariant is `RowsAreDrawn`, whichever way the rows
  go, those of the table are rows of the stream, each at most once, and none
  that could be loaded is missing (`RowsStayDrawn`). The rest is about the file
  alone: its rows and those of the stream are the same, one for one, and each
  keeps what it says under which header, as every header of a sheet is among the
  columns (`HeaderIsThere`: the first spelling is not dropped) and no sheet has it
  twice (`AlignedFacts`)

`RuleProofs`. The words are of any length over any alphabet, the limits any
naturals, and the invariant is
only their type (`TwinsType`): the work is in the operators. Most of it is one
induction, over words that get a character more (`WordInduction`), as taking out
or replacing characters goes character by character (`WithoutAppend`,
`ReplaceAppend`).

* `AddressesAlwaysAgree`, `NumericAlwaysAgrees`
* `DomainsAlwaysAgree`: LIKE with a `%` and a word without special characters
  after it is the test for the end of a value (`LikeEnd`, an induction over the
  table of `Like` from its last entry on), and what either side then takes off
  depends on the case the TLD is listed in
* `ColumnNamesAlwaysDistinct`: two names are equal up to the end of the shorter
  position only if a digit is the underscore that follows it
* `WildcardsAlwaysAgree`, for keywords that fit the pattern once escaped, where
  no assignment cuts anything (`EscapedIs`): the table of `Like` and the places of the regular
  expression are two ways of reading a keyword character by character
  (`ReadsTo`). For LIKE, each character becomes one piece of the pattern whatever
  comes before and after it (`EscapedAppend`: the order of the four REPLACEs is
  right), and each piece leads through the table as the character reads
  (`PieceEntry`); for the regular expression, the place of a character is counted
  from the last star before it (`KeywordReads`). A keyword with stars at its ends
  has a core without stars (`ShapeOf`), which is read where it is found
  (`ReadsShape`), as documented (`DocumentedIs`)

`FoldFacts`. What `SumFunctionOnSet`, `FlattenSeq` and `FoldLeft` compute is an
induction over their input. The induction theorems of the library cannot be used
with the provers at hand, since they take an operator as a parameter; but an
induction over the *members of a set* of naturals (`NatSetInduction`, from the
well-foundedness of the naturals) or of a set of subsets (`SubsetInduction`) is
first-order, and so is the existence of the function that a recursive definition
chooses (`RecursionExists`, `RecursionUnique`).

Only model-checked: the liveness properties `CancelSettles` and `WorkDrains`, as
fairness is out of the prover's reach. Every other property of a passing run is
the statement of a theorem.

## 5. Not modelled, and the plan

Not modelled, and not planned: passwords, tokens, settings, activity log,
backup, the removal of temp folders, the frontend, the Windows scripts. They compute, read, append, or change
one row in one step, and nothing that runs with them depends on it; that logging
may fail is part of the runs and requests (`Raise` after COMPLETED,
`RequestFails` at the step `log`). The choice of the e-mail column by its header
is a ranking of words whose outcome any user may overrule. What SQL Server and
the libraries do inside (the parsing of CSV text, `PARSENAME`, lock escalation)
is taken for what the code relies on.

Left to do: a composition of runs, steps and merges, in which the counts of a job
through the pipeline, the merge and the reports add up.
