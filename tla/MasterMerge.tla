----------------------------- MODULE MasterMerge -----------------------------
(***************************************************************************)
(* Merging jobs into the Master tables: merge_job_into_master of           *)
(* services/master_service.py, sp_FT_MergeToMaster and                     *)
(* sp_FT_MergeToOtherTLDMaster, called by the worker once in a job's life  *)
(* and by administrators (routers/master.py) as often as they like.        *)
(*                                                                         *)
(* A merge commits three times: the kept rows, the rows of other TLDs, and *)
(* the FT_MasterFiles entry.  The first is one INSERT ... SELECT.  The     *)
(* database has READ_COMMITTED_SNAPSHOT on (000_create_database.sql:22):   *)
(* the statement reads which addresses are missing from what is committed  *)
(* when it begins, without waiting for anybody, and then inserts them one  *)
(* by one, each locked in the unique index until the commit.               *)
(***************************************************************************)
EXTENDS Naturals, Sequences, FiniteSets, Functions

CONSTANTS
    Jobs, Addresses,
    Mergers,        \* threads that may be merging: the pool's and the handlers'
    NoJob,          \* the job of a merger that has none, and of an address not there
    KeptFiles,      \* the addresses of the kept rows a job may end with, in order
    OtherRows,      \* rows of another TLD of each job
    MaxRequests,    \* bound: merges requested by administrators
    MaxCrashes      \* bound: deaths of the backend process

ASSUME MergeAssumption ==
    /\ NoJob \notin Jobs
    /\ KeptFiles \subseteq Seq(Addresses)
    /\ IsFiniteSet(Addresses) /\ IsFiniteSet(Mergers)
    /\ OtherRows \in [Jobs -> Nat]
    /\ MaxRequests \in Nat /\ MaxCrashes \in Nat

VARIABLES
    kept,         \* of each job: the addresses of its kept rows, in order
    state,        \* running, merging (by the worker), merged, completed or failed
    source,       \* FT_MasterEmails: the job each address came from
    otherMaster,  \* FT_OtherTLDMaster: the number of rows from each job
    files,        \* FT_MasterFiles, in the order of the inserts
    merger,       \* what each merger is doing
    unlisted,     \* addresses put into Master by a merge that ended without an entry
    requests,     \* merges requested so far
    crashes       \* deaths of the process so far

vars == <<kept, state, source, otherMaster, files, merger, unlisted, requests, crashes>>

NoMerge == [pc |-> "idle", job |-> NoJob, by |-> "nobody", missing |-> {}, locked |-> {},
            mine |-> {}, added |-> 0, duplicate |-> 0]

\* `locked` is inserted and not committed, `mine` is committed and in no entry yet.
MergeRecord ==
    [pc : {"idle", "read", "insert", "other", "record"}, job : Jobs \cup {NoJob},
     by : {"nobody", "worker", "admin"}, missing : SUBSET Addresses,
     locked : SUBSET Addresses, mine : SUBSET Addresses, added : Nat, duplicate : Nat]

FileRecord == [job : Jobs, added : Nat, duplicate : Nat, deleted : BOOLEAN]

TypeOK ==
    /\ kept \in [Jobs -> KeptFiles]
    /\ state \in [Jobs -> {"running", "merging", "merged", "completed", "failed"}]
    /\ source \in [Addresses -> Jobs \cup {NoJob}]
    /\ otherMaster \in [Jobs -> Nat]
    /\ files \in Seq(FileRecord)
    /\ merger \in [Mergers -> MergeRecord]
    /\ \A m \in Mergers : merger[m].pc # "idle" => merger[m].job \in Jobs
    /\ unlisted \subseteq Addresses
    /\ requests \in Nat /\ crashes \in Nat

Init ==
    /\ kept \in [Jobs -> KeptFiles]
    /\ state = [j \in Jobs |-> "running"]
    /\ source = [a \in Addresses |-> NoJob]
    /\ otherMaster = [j \in Jobs |-> 0]
    /\ files = <<>>
    /\ merger = [m \in Mergers |-> NoMerge]
    /\ unlisted = {}
    /\ requests = 0
    /\ crashes = 0

-----------------------------------------------------------------------------
Kept(j)     == {kept[j][i] : i \in DOMAIN kept[j]}
Repeated(j) == {a \in Kept(j) : \E i, k \in DOMAIN kept[j] :
                                   i # k /\ kept[j][i] = a /\ kept[j][k] = a}

Master == {a \in Addresses : source[a] # NoJob}

Job(m)   == merger[m].job
At(m, pc) == merger[m].pc = pc

LockedByOthers(m) == UNION {merger[n].locked : n \in Mergers \ {m}}

Begin(m, j, by) ==
    /\ At(m, "idle")
    /\ merger' = [merger EXCEPT ![m] = [NoMerge EXCEPT !.pc = "read", !.job = j, !.by = by]]

\* Step 22 of _run_job, if merge_to_master is set: once in the life of a job.
WorkerBegins(m, j) ==
    /\ state[j] = "running"
    /\ Begin(m, j, "worker")
    /\ state' = [state EXCEPT ![j] = "merging"]
    /\ UNCHANGED <<kept, source, otherMaster, files, unlisted, requests, crashes>>

\* POST /api/master/merge: the Status is checked, and nothing else.
AdminBegins(m, j) ==
    /\ state[j] = "completed"
    /\ requests < MaxRequests
    /\ Begin(m, j, "admin")
    /\ requests' = requests + 1
    /\ UNCHANGED <<kept, state, source, otherMaster, files, unlisted, crashes>>

\* The INSERT begins: NOT EXISTS is about the rows committed by now.
ReadMissing(m) ==
    /\ At(m, "read")
    /\ merger' = [merger EXCEPT ![m].pc = "insert", ![m].missing = Kept(Job(m)) \ Master]
    /\ UNCHANGED <<kept, state, source, otherMaster, files, unlisted, requests, crashes>>

\* A mutant of InsertRow: a connection with autocommit.
InsertRowAutocommits(m, a) ==
    /\ At(m, "insert")
    /\ a \in merger[m].missing \ (Master \cup LockedByOthers(m))
    /\ merger' = [merger EXCEPT ![m].missing = @ \ {a}, ![m].locked = @ \cup {a}]
    /\ source' = [source EXCEPT ![a] = Job(m)]
    /\ UNCHANGED <<kept, state, otherMaster, files, unlisted, requests, crashes>>

\* A row is inserted if its key is free; the insert waits while another
\* transaction has the key locked.
InsertRow(m, a) ==
    /\ At(m, "insert")
    /\ a \in merger[m].missing \ (Master \cup LockedByOthers(m))
    /\ merger' = [merger EXCEPT ![m].missing = @ \ {a}, ![m].locked = @ \cup {a}]
    /\ UNCHANGED <<kept, state, source, otherMaster, files, unlisted, requests, crashes>>

\* The merge is over: what it has not committed is rolled back, and what it has
\* put into Master is listed nowhere.
GiveUp(m) ==
    /\ merger' = [merger EXCEPT ![m] = NoMerge]
    /\ unlisted' = unlisted \cup merger[m].mine
    /\ state' = IF merger[m].by = "worker" THEN [state EXCEPT ![Job(m)] = "failed"] ELSE state
    /\ UNCHANGED <<kept, source, otherMaster, files, requests, crashes>>

\* A mutant of DuplicateKey: a CATCH without a THROW.
DuplicateKeySwallowed(m) ==
    /\ At(m, "insert")
    /\ \/ merger[m].missing \cap Master # {}
       \/ merger[m].locked \cap Repeated(Job(m)) # {}
    /\ merger' = [merger EXCEPT ![m] =
                     [@ EXCEPT !.pc = "other", !.missing = {}, !.locked = {}]]
    /\ UNCHANGED <<kept, state, source, otherMaster, files, unlisted, requests, crashes>>

\* The unique index refuses a row: another merge has committed its address since
\* the read, or the job keeps it twice, the duplicate filter having been off.
DuplicateKey(m) ==
    /\ At(m, "insert")
    /\ \/ merger[m].missing \cap Master # {}
       \/ merger[m].locked \cap Repeated(Job(m)) # {}
    /\ GiveUp(m)

\* Any statement may fail, the one picked as a deadlock victim among them.
MergeFails(m) == ~At(m, "idle") /\ GiveUp(m)

\* Mutants of CommitMaster: the duplicates counted against Master as it was before the
\* insert, and an upsert in the place of the insert.
CommitMasterCountsEarly(m) ==
    /\ At(m, "insert")
    /\ merger[m].missing = {} /\ merger[m].locked \cap Repeated(Job(m)) = {}
    /\ LET inserted == Cardinality(merger[m].locked)
           found    == Cardinality({i \in DOMAIN kept[Job(m)] : kept[Job(m)][i] \in Master})
       IN merger' = [merger EXCEPT ![m] =
                       [@ EXCEPT !.pc = "other", !.locked = {}, !.mine = merger[m].locked,
                                 !.added = inserted,
                                 !.duplicate = IF found < inserted THEN 0 ELSE found - inserted]]
    /\ source' = [a \in Addresses |-> IF a \in merger[m].locked THEN Job(m) ELSE source[a]]
    /\ UNCHANGED <<kept, state, otherMaster, files, unlisted, requests, crashes>>

CommitMasterUpserts(m) ==
    /\ At(m, "insert")
    /\ merger[m].missing = {} /\ merger[m].locked \cap Repeated(Job(m)) = {}
    /\ merger' = [merger EXCEPT ![m] =
                     [@ EXCEPT !.pc = "other", !.locked = {}, !.mine = merger[m].locked,
                                 !.added = Len(kept[Job(m)])]]
    /\ source' = [a \in Addresses |-> IF a \in Kept(Job(m)) THEN Job(m) ELSE source[a]]
    /\ UNCHANGED <<kept, state, otherMaster, files, unlisted, requests, crashes>>

\* The statement is done and its counts are taken: @@ROWCOUNT, and the kept rows
\* found in Master less those; the commit follows.
CommitMaster(m) ==
    /\ At(m, "insert")
    /\ merger[m].missing = {} /\ merger[m].locked \cap Repeated(Job(m)) = {}
    /\ LET present  == Master \cup merger[m].locked
           inserted == Cardinality(merger[m].locked)
           found    == Cardinality({i \in DOMAIN kept[Job(m)] : kept[Job(m)][i] \in present})
       IN merger' = [merger EXCEPT ![m] =
                       [@ EXCEPT !.pc = "other", !.locked = {}, !.mine = merger[m].locked,
                                 !.added = inserted,
                                 !.duplicate = IF found < inserted THEN 0 ELSE found - inserted]]
    /\ source' = [a \in Addresses |-> IF a \in merger[m].locked THEN Job(m) ELSE source[a]]
    /\ UNCHANGED <<kept, state, otherMaster, files, unlisted, requests, crashes>>

\* sp_FT_MergeToOtherTLDMaster and its commit: no check, no unique index.
CopyOther(m) ==
    /\ At(m, "other")
    /\ otherMaster' = [otherMaster EXCEPT ![Job(m)] = @ + OtherRows[Job(m)]]
    /\ merger' = [merger EXCEPT ![m].pc = "record"]
    /\ UNCHANGED <<kept, state, source, files, unlisted, requests, crashes>>

\* A mutant of RecordFile: the two counts change places.
RecordFileSwapped(m) ==
    /\ At(m, "record")
    /\ files' = Append(files, [job |-> Job(m), added |-> merger[m].duplicate,
                               duplicate |-> merger[m].added, deleted |-> FALSE])
    /\ state' = IF merger[m].by = "worker" THEN [state EXCEPT ![Job(m)] = "merged"] ELSE state
    /\ merger' = [merger EXCEPT ![m] = NoMerge]
    /\ UNCHANGED <<kept, source, otherMaster, unlisted, requests, crashes>>

\* The entry, and its commit.
RecordFile(m) ==
    /\ At(m, "record")
    /\ files' = Append(files, [job |-> Job(m), added |-> merger[m].added,
                               duplicate |-> merger[m].duplicate, deleted |-> FALSE])
    /\ state' = IF merger[m].by = "worker" THEN [state EXCEPT ![Job(m)] = "merged"] ELSE state
    /\ merger' = [merger EXCEPT ![m] = NoMerge]
    /\ UNCHANGED <<kept, source, otherMaster, unlisted, requests, crashes>>

\* The rest of the run, before a merge that is not wanted or after one that is:
\* it ends in COMPLETED or FAILED.
RunEnds(j, outcome) ==
    /\ state[j] \in {"running", "merged"}
    /\ state' = [state EXCEPT ![j] = outcome]
    /\ UNCHANGED <<kept, source, otherMaster, files, merger, unlisted, requests, crashes>>

\* DELETE /api/master/files/{id} hides an entry; the rows stay.
DeleteFile(i) ==
    /\ i \in DOMAIN files /\ ~files[i].deleted
    /\ files' = [files EXCEPT ![i].deleted = TRUE]
    /\ UNCHANGED <<kept, state, source, otherMaster, merger, unlisted, requests, crashes>>

\* All merges are cut off; a job the worker was merging stays PROCESSING for good.
Crash ==
    /\ crashes < MaxCrashes
    /\ crashes' = crashes + 1
    /\ merger' = [m \in Mergers |-> NoMerge]
    /\ unlisted' = unlisted \cup UNION {merger[m].mine : m \in Mergers}
    /\ UNCHANGED <<kept, state, source, otherMaster, files, requests>>

MergeStep(m) ==
    \/ \E j \in Jobs : WorkerBegins(m, j) \/ AdminBegins(m, j)
    \/ ReadMissing(m) \/ \E a \in Addresses : InsertRow(m, a)
    \/ DuplicateKey(m) \/ MergeFails(m)
    \/ CommitMaster(m) \/ CopyOther(m) \/ RecordFile(m)

Next ==
    \/ \E m \in Mergers : MergeStep(m)
    \/ \E j \in Jobs, outcome \in {"completed", "failed"} : RunEnds(j, outcome)
    \/ \E i \in DOMAIN files : DeleteFile(i)
    \/ Crash

Spec == Init /\ [][Next]_vars

-----------------------------------------------------------------------------
(* Properties.                                                             *)

RowsFrom(j) == {a \in Addresses : source[a] = j}

\* What the entries of a job, and the merges of it under way, claim to have added.
Entries(j)        == {i \in DOMAIN files : files[i].job = j}
Merging(j)        == {m \in Mergers : Job(m) = j}
AddedByEntries(j) == SumFunctionOnSet([i \in DOMAIN files |-> files[i].added], Entries(j))
AddedByMerges(j)  == SumFunctionOnSet([m \in Mergers |-> merger[m].added], Merging(j))

\* An entry of FT_MasterFiles accounts for every kept row of its job, as added or as a
\* duplicate, however the merge interleaved with others: the duplicates are counted
\* after the insert and by subtraction (sp_FT_MergeToMaster.sql:69-83).
EntriesAddUp ==
    \A i \in DOMAIN files : files[i].added + files[i].duplicate = Len(kept[files[i].job])

\* Every row of Master is credited to one merge, once: a job's rows there are those its
\* entries claim, those of merges still under way, and those whose merge ended before
\* its entry (master_service.py:133, 155-166).
RowsAccounted ==
    \A j \in Jobs :
        Cardinality(RowsFrom(j) \ unlisted) = AddedByEntries(j) + AddedByMerges(j)

\* A merge that has got as far as its entry has left nothing behind: all kept addresses
\* of the job are in Master and its other rows in the Other-TLD table, whoever merged
\* them and whatever else failed (master_service.py:85-166).
RecordedIsMerged ==
    \A i \in DOMAIN files :
        LET j == files[i].job IN Kept(j) \subseteq Master /\ otherMaster[j] >= OtherRows[j]

\* Merges are serialised by the index: each commit enters exactly the addresses of one
\* job that are missing at that moment, and no entry of Master ever changes hands.
Book == INSTANCE MasterBook WITH book <- source, content <- [j \in Jobs |-> Kept(j)]
BookRefinement == Book!Spec

-----------------------------------------------------------------------------
(* The inductive invariant behind the properties above.                    *)

\* The index keeps uncommitted rows apart from each other and from Master.
LocksDisjoint ==
    \A m \in Mergers : merger[m].locked \cap (Master \cup LockedByOthers(m)) = {}

\* What an INSERT has read as missing it has inserted, or has still to insert, or
\* somebody else has meanwhile.
NothingForgotten ==
    \A m \in Mergers :
        IF At(m, "insert")
        THEN /\ merger[m].missing \cup merger[m].locked \subseteq Kept(Job(m))
             /\ Kept(Job(m)) \subseteq Master \cup merger[m].missing \cup merger[m].locked
        ELSE merger[m].missing = {} /\ merger[m].locked = {}

\* A merge past a commit has what it committed behind it, and its counts add up.
NothingBehind ==
    \A m \in Mergers :
        /\ merger[m].pc \in {"other", "record"} =>
              /\ Kept(Job(m)) \subseteq Master
              /\ merger[m].added + merger[m].duplicate = Len(kept[Job(m)])
        /\ At(m, "record") => otherMaster[Job(m)] >= OtherRows[Job(m)]

\* What a merge has committed and not listed yet are as many rows of its job as it will
\* claim; no other merge has them, and none of those that gave up.
MineCounted ==
    \A m \in Mergers :
        /\ merger[m].mine \subseteq RowsFrom(Job(m)) \ unlisted
        /\ merger[m].added = Cardinality(merger[m].mine)
        /\ merger[m].pc \notin {"other", "record"} => merger[m].mine = {}
        /\ \A n \in Mergers \ {m} : merger[m].mine \cap merger[n].mine = {}

\* The rows of a job that are listed: neither given up nor some merge's still.
Listed(j) == RowsFrom(j) \ (unlisted \cup UNION {merger[m].mine : m \in Mergers})

\* The entries of a job claim its listed rows and no others.
ListedCounted ==
    /\ unlisted \subseteq Master
    /\ \A j \in Jobs : Cardinality(Listed(j)) = AddedByEntries(j)

MergeInv ==
    /\ TypeOK /\ LocksDisjoint /\ NothingForgotten /\ NothingBehind
    /\ MineCounted /\ ListedCounted

-----------------------------------------------------------------------------
(* What comments of the code say, and the code does not do.                *)

\* "Re-checks Email uniqueness at insert time (NOT EXISTS) as a safety net ... protects
\* against another job concurrently merging the same address"
\* (sp_FT_MergeToMaster.sql:4-7): what an INSERT is about to insert is still missing.
RecheckProtects == \A m \in Mergers : merger[m].missing \cap Master = {}
=============================================================================
