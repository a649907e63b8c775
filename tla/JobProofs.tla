------------------------------ MODULE JobProofs ------------------------------
(***************************************************************************)
(* Proofs about the lifecycle of jobs, for every set of jobs, threads and  *)
(* handlers and every bound; and about the cleanup next to it: what        *)
(* survives with any number of threads, and what the default pool of one   *)
(* thread makes true.                                                      *)
(***************************************************************************)
EXTENDS JobCleanup, SequenceTheorems, TLAPS

-----------------------------------------------------------------------------
(* Types.                                                                  *)

\* The queue operations keep a sequence of jobs one.
LEMMA QueueType ==
    ASSUME NEW q \in Seq(Jobs), NEW j \in Jobs
    PROVE  /\ Append(q, j) \in Seq(Jobs)
           /\ q # <<>> => Head(q) \in Jobs /\ Tail(q) \in Seq(Jobs)
BY AppendProperties, HeadTailProperties

\* Only records that are runs are put into run.
LEMMA RunUpdate ==
    ASSUME RunTypeOK, NEW t \in Threads, NEW r \in RunRecord,
           run' = [run EXCEPT ![t] = r],
           r.pc # "idle" => r.job \in Jobs,
           r.pc = "filter" => r.left > 0
    PROVE  RunTypeOK'
BY DEF RunTypeOK

\* A thread with a job that moves on is still running that job.
LEMMA GotoType ==
    ASSUME RunTypeOK, NEW t \in Threads, NEW pc \in RunPCs \ {"filter"},
           run[t].pc # "idle", Goto(t, pc)
    PROVE  RunTypeOK'
BY DEF RunTypeOK, RunRecord, Goto

LEMMA LoadedType ==
    ASSUME RunTypeOK, NEW t \in Threads, NEW pc \in RunPCs \ {"filter"},
           NEW value \in Statuses \cup {"expired"}, run[t].pc # "idle", Loaded(t, pc, value)
    PROVE  RunTypeOK'
BY DEF RunTypeOK, RunRecord, Loaded

LEMMA FilterType ==
    ASSUME RunTypeOK, NEW t \in Threads, run[t].pc # "idle", NEW n \in Nat, n > 0,
           NEW value \in Statuses \cup {"expired"}, "filter" \in RunPCs,
           run' = [run EXCEPT ![t].pc = "filter", ![t].left = n, ![t].seen = value]
    PROVE  RunTypeOK'
<1> DEFINE r == [run[t] EXCEPT !.pc = "filter", !.left = n, !.seen = value]
<1>0. run[t] \in RunRecord
  BY DEF RunTypeOK
<1>a. r \in RunRecord
  BY <1>0 DEF RunRecord
<1>b. run' = [run EXCEPT ![t] = r]
  OBVIOUS
<1> HIDE DEF r
<1>1. run' \in [Threads -> RunRecord]
  BY <1>a, <1>b DEF RunTypeOK
<1>2. \A u \in Threads \ {t} : run'[u] = run[u]
  BY DEF RunTypeOK
<1>3. run'[t].left = n /\ run'[t].job = run[t].job
  BY DEF RunTypeOK, RunRecord
<1> QED
  BY <1>1, <1>2, <1>3 DEF RunTypeOK

LEMMA ColumnsType ==
    ASSUME RunTypeOK, NEW t \in Threads, run[t].pc # "idle", NEW n \in Nat,
           NEW value \in Statuses \cup {"expired"}, "merge" \in RunPCs,
           run' = [run EXCEPT ![t].pc = "merge", ![t].seen = value, ![t].cols = n]
    PROVE  RunTypeOK'
BY DEF RunTypeOK, RunRecord

\* The Status a run has loaded is one, and so is what update_job leaves in the row.
LEMMA SeenType ==
    ASSUME TypeOK, NEW t \in Threads, run[t].pc # "idle", NEW value \in Statuses
    PROVE  /\ status[Owner(t)] \in Statuses
           /\ run[t].seen \in Statuses \cup {"expired"}
           /\ Saved(t, value) \in [Jobs -> Statuses]
           /\ Saved(t, value)[Owner(t)] \in Statuses
BY DEF TypeOK, DbTypeOK, RunTypeOK, RunRecord, Owner, Saved

\* The job of a thread that is not idle.
LEMMA OwnerType ==
    ASSUME RunTypeOK, NEW t \in Threads, run[t].pc # "idle"
    PROVE  Owner(t) \in Jobs
BY DEF RunTypeOK, Owner

LEMMA RetireType ==
    ASSUME RunTypeOK, NEW t \in Threads, Retire(t)
    PROVE  RunTypeOK'
<1>1. NoRun \in RunRecord
  BY DEF NoRun, RunRecord, RunPCs
<1> QED
  BY <1>1, RunUpdate DEF Retire, NoRun

\* A handler that is answered, accepts a request or goes on is well-typed.
LEMMA RespondType ==
    ASSUME RequestTypeOK, NEW h \in Handlers, Respond(h)
    PROVE  RequestTypeOK'
BY DEF RequestTypeOK, RequestRecord, Respond, NoRequest, Statuses

LEMMA InitType == Init => TypeOK
BY BoundsAssumption
   DEF Init, TypeOK, DbTypeOK, RunTypeOK, RequestTypeOK, GhostTypeOK, RunRecord,
       RequestRecord, NoRun, NoRequest, RunPCs, Statuses

LEMMA HandlerType ==
    ASSUME TypeOK, NEW h \in Handlers, HandlerStep(h) PROVE TypeOK'
<1> USE DEF TypeOK, Statuses, Active, Terminal
<1>0. UNCHANGED run => RunTypeOK'
  BY DEF RunTypeOK
<1>1. ASSUME NEW j \in Jobs, UploadCreate(h, j) PROVE TypeOK'
  BY <1>0, <1>1 DEF UploadCreate, Accept, ghostVars, DbTypeOK, RequestTypeOK, RequestRecord, GhostTypeOK
<1>2. ASSUME NEW j \in Jobs, NEW kind \in {"start", "retry", "cancel"},
             ReadAndCheck(h, kind, j)
      PROVE  TypeOK'
  BY <1>0, <1>2 DEF ReadAndCheck, Accept, dbVars, ghostVars, DbTypeOK, RequestTypeOK, RequestRecord, GhostTypeOK
<1>3. CASE UploadSave(h)
  BY <1>0, <1>3, RespondType DEF UploadSave, ghostVars, boundVars, DbTypeOK, GhostTypeOK
<1>4. CASE UploadTooLarge(h)
  BY <1>0, <1>4, RespondType DEF UploadTooLarge, ghostVars, boundVars, DbTypeOK, GhostTypeOK
<1>5. CASE StartWrite(h)
  BY <1>0, <1>5 DEF StartWrite, ghostVars, boundVars, DbTypeOK, RequestTypeOK, RequestRecord, GhostTypeOK
<1>6. CASE RetryWrite(h)
  BY <1>0, <1>6 DEF RetryWrite, ghostVars, boundVars, DbTypeOK, RequestTypeOK, RequestRecord, GhostTypeOK
<1>7. CASE Submit(h)
  <2>1. request[h].job \in Jobs
    BY <1>7 DEF Submit, RequestTypeOK
  <2>2. queue' \in Seq(Jobs)
    BY <1>7, <2>1, QueueType DEF Submit
  <2> QED
    BY <1>0, <1>7, <2>2, RespondType DEF Submit, dbVars, ghostVars, boundVars, DbTypeOK, GhostTypeOK
<1>8. CASE CancelWrite(h)
  BY <1>0, <1>8, RespondType DEF CancelWrite, ghostVars, boundVars, DbTypeOK, GhostTypeOK
<1>9. CASE HandlerFails(h)
  BY <1>0, <1>9, RespondType DEF HandlerFails, dbVars, ghostVars, boundVars, DbTypeOK, GhostTypeOK
<1> QED
  BY <1>1, <1>2, <1>3, <1>4, <1>5, <1>6, <1>7, <1>8, <1>9 DEF HandlerStep

LEMMA RunStepRunType ==
    ASSUME TypeOK, NEW t \in Threads, RunStep(t) PROVE RunTypeOK'
<1> USE DEF RunPCs, Working, Staged, BeforeMerge
<1>a. RunTypeOK /\ DbTypeOK /\ queue \in Seq(Jobs)
  BY DEF TypeOK
<1>b. "IMPORTING" \in Statuses /\ "PROCESSING" \in Statuses /\ "COMPLETED" \in Statuses
  BY DEF Statuses, Active, Terminal
<1>1. CASE Dequeue(t)
  <2> DEFINE r == [NoRun EXCEPT !.pc = "taken", !.job = Head(queue)]
  <2>1. Head(queue) \in Jobs
    BY <1>a, <1>1, QueueType DEF Dequeue
  <2>2. r \in RunRecord /\ r.pc = "taken" /\ r.job \in Jobs
    BY <2>1 DEF RunRecord, NoRun
  <2>3. run' = [run EXCEPT ![t] = r]
    BY <1>1 DEF Dequeue
  <2> HIDE DEF r
  <2> QED
    BY <1>a, <2>2, <2>3, RunUpdate
<1>2. CASE Claim(t)
  <2>1. status'[Owner(t)] \in Statuses
    BY <1>b, <1>2, SeenType DEF Claim, At
  <2> QED
    BY <1>a, <1>2, <2>1, LoadedType DEF Claim, At
<1>24. CASE LoadJob(t)
  <2>1. status[Owner(t)] \in Statuses
    BY <1>b, <1>24, SeenType DEF LoadJob, At
  <2> QED
    BY <1>a, <1>24, <2>1, LoadedType DEF LoadJob, At
<1>3. CASE MapColumns(t)
  BY <1>a, <1>3, LoadedType DEF MapColumns, Expire, At
<1>4. CASE CreateStaging(t)
  BY <1>a, <1>4, GotoType DEF CreateStaging, At
<1>5. CASE CreateConflict(t)
  BY <1>a, <1>5, GotoType DEF CreateConflict, At
<1>6. CASE Import(t)
  <2>1. MayLoad(t) \subseteq Statuses \cup {"expired"}
    BY <1>b, <1>6, SeenType DEF Import, At, MayLoad
  <2> QED
    BY <1>a, <1>6, <2>1, LoadedType DEF Import, At
<1>7. CASE CheckAfterImport(t)
  BY <1>a, <1>7, GotoType DEF CheckAfterImport, At
<1>8. CASE SetProcessing(t)
  <2>1. status'[Owner(t)] \in Statuses
    BY <1>b, <1>8, SeenType DEF SetProcessing, At
  <2>2. NumSteps \in Nat /\ NumSteps > 0
    BY BoundsAssumption
  <2> QED
    BY <1>a, <1>8, <2>1, <2>2, FilterType DEF SetProcessing, At
<1>9. CASE FilterStep(t)
  <2> DEFINE p == IF run[t].left = 1 THEN "summarise" ELSE "filter"
  <2>1. PICK s \in MayLoad(t) :
          run' = [run EXCEPT ![t].pc = p, ![t].left = @ - 1, ![t].seen = s]
    BY <1>9 DEF FilterStep
  <2>2. s \in Statuses \cup {"expired"}
    BY <1>b, <1>9, SeenType DEF FilterStep, At, MayLoad
  <2>3. run[t].left - 1 \in Nat /\ (p = "filter" => run[t].left - 1 > 0)
    BY <1>a, <1>9 DEF FilterStep, At, RunTypeOK, RunRecord
  <2>4. p \in RunPCs
    OBVIOUS
  <2> HIDE DEF p
  <2> QED
    BY <1>a, <1>9, <2>1, <2>2, <2>3, <2>4 DEF FilterStep, At, RunTypeOK, RunRecord
<1>10. CASE CancelDetected(t)
  BY <1>a, <1>10, GotoType DEF CancelDetected, At
<1>11. CASE ClearResults(t)
  BY <1>a, <1>11, LoadedType DEF ClearResults, Expire, At
<1>12. CASE InsertResults(t)
  BY <1>a, <1>12, LoadedType DEF InsertResults, Expire, At
<1>13. CASE ReadColumns(t)
  <2>1. columns[Owner(t)] \in Nat /\ status[Owner(t)] \in Statuses
    BY <1>a, <1>13, OwnerType DEF ReadColumns, At, DbTypeOK
  <2> QED
    BY <1>a, <1>13, <2>1, ColumnsType DEF ReadColumns, At
<1>14. CASE Merge(t)
  BY <1>a, <1>14, LoadedType DEF Merge, MergeInto, Expire, At
<1>15. CASE MergePartly(t)
  BY <1>a, <1>15, GotoType DEF MergePartly, MergeInto, At
<1>16. CASE SkipMerge(t)
  BY <1>a, <1>16, GotoType DEF SkipMerge, At
<1>17. CASE WriteReports(t)
  <2>1. Reloaded(t) \in Statuses \cup {"expired"}
    BY <1>b, <1>17, SeenType DEF WriteReports, At, Reloaded
  <2> QED
    BY <1>a, <1>17, <2>1, LoadedType DEF WriteReports, At
<1>18. CASE Complete(t)
  <2>1. status'[Owner(t)] \in Statuses
    BY <1>b, <1>18, SeenType DEF Complete, At
  <2> QED
    BY <1>a, <1>18, <2>1, LoadedType DEF Complete, At
<1>19. CASE LogCompleted(t)
  BY <1>a, <1>19, RetireType DEF LogCompleted, At
<1>20. CASE Raise(t)
  BY <1>a, <1>20, GotoType DEF Raise, At
<1>21. CASE PersistFailed(t)
  BY <1>a, <1>21, RetireType DEF PersistFailed, At
<1>22. CASE PersistCancelled(t)
  BY <1>a, <1>22, RetireType DEF PersistCancelled, At
<1>23. CASE PersistLost(t)
  BY <1>a, <1>23, RetireType DEF PersistLost, At
<1> QED
  BY <1>1, <1>2, <1>3, <1>4, <1>5, <1>6, <1>7, <1>8, <1>9, <1>10, <1>11, <1>12, <1>13, <1>14, <1>15, <1>16, <1>17, <1>18, <1>19, <1>20, <1>21, <1>22, <1>23, <1>24 DEF RunStep

LEMMA RunStepType ==
    ASSUME TypeOK, NEW t \in Threads, RunStep(t) PROVE TypeOK'
<1> USE DEF TypeOK, Statuses, Active, Terminal, At, Owner, Saved, dbVars, ghostVars, boundVars,
            DbTypeOK, GhostTypeOK
<1>a. RunTypeOK'
  BY RunStepRunType
<1>b. UNCHANGED request => RequestTypeOK'
  BY DEF RequestTypeOK
<1>c. run[t].pc # "idle" => run[t].job \in Jobs
  BY OwnerType
<1>1. CASE Dequeue(t)
  <2>1. queue' \in Seq(Jobs)
    BY <1>1, QueueType DEF Dequeue
  <2> QED
    BY <1>a, <1>b, <1>1, <2>1 DEF Dequeue
<1>2. CASE Claim(t)
  BY <1>a, <1>b, <1>c, <1>2 DEF Claim
<1>24. CASE LoadJob(t)
  BY <1>a, <1>b, <1>c, <1>24 DEF LoadJob
<1>3. CASE MapColumns(t)
  BY <1>a, <1>b, <1>c, <1>3 DEF MapColumns
<1>4. CASE CreateStaging(t)
  BY <1>a, <1>b, <1>c, <1>4 DEF CreateStaging
<1>5. CASE CreateConflict(t)
  BY <1>a, <1>b, <1>c, <1>5 DEF CreateConflict
<1>6. CASE Import(t)
  BY <1>a, <1>b, <1>c, <1>6 DEF Import
<1>7. CASE CheckAfterImport(t)
  BY <1>a, <1>b, <1>c, <1>7 DEF CheckAfterImport
<1>8. CASE SetProcessing(t)
  BY <1>a, <1>b, <1>c, <1>8 DEF SetProcessing
<1>9. CASE FilterStep(t)
  BY <1>a, <1>b, <1>c, <1>9 DEF FilterStep
<1>10. CASE CancelDetected(t)
  BY <1>a, <1>b, <1>c, <1>10 DEF CancelDetected
<1>11. CASE ClearResults(t)
  BY <1>a, <1>b, <1>c, <1>11 DEF ClearResults
<1>12. CASE InsertResults(t)
  BY <1>a, <1>b, <1>c, <1>12 DEF InsertResults
<1>13. CASE ReadColumns(t)
  BY <1>a, <1>b, <1>c, <1>13 DEF ReadColumns
<1>14. CASE Merge(t)
  BY <1>a, <1>b, <1>c, <1>14 DEF Merge, MergeInto
<1>15. CASE MergePartly(t)
  BY <1>a, <1>b, <1>c, <1>15 DEF MergePartly, MergeInto
<1>16. CASE SkipMerge(t)
  BY <1>a, <1>b, <1>c, <1>16 DEF SkipMerge
<1>17. CASE WriteReports(t)
  BY <1>a, <1>b, <1>c, <1>17 DEF WriteReports
<1>18. CASE Complete(t)
  BY <1>a, <1>b, <1>c, <1>18 DEF Complete
<1>19. CASE LogCompleted(t)
  BY <1>a, <1>b, <1>c, <1>19 DEF LogCompleted
<1>20. CASE Raise(t)
  BY <1>a, <1>b, <1>c, <1>20 DEF Raise
<1>21. CASE PersistFailed(t)
  BY <1>a, <1>b, <1>c, <1>21 DEF PersistFailed
<1>22. CASE PersistCancelled(t)
  BY <1>a, <1>b, <1>c, <1>22 DEF PersistCancelled
<1>23. CASE PersistLost(t)
  BY <1>a, <1>b, <1>c, <1>23 DEF PersistLost
<1> QED
  BY <1>1, <1>2, <1>3, <1>4, <1>5, <1>6, <1>7, <1>8, <1>9, <1>10, <1>11, <1>12, <1>13, <1>14, <1>15, <1>16, <1>17, <1>18, <1>19, <1>20, <1>21, <1>22, <1>23, <1>24 DEF RunStep

LEMMA TypeInductive == TypeOK /\ [Next]_vars => TypeOK'
<1> SUFFICES ASSUME TypeOK, [Next]_vars PROVE TypeOK'
  OBVIOUS
<1>1. CASE Crash
  <2>1. RunTypeOK'
    BY <1>1 DEF Crash, RunTypeOK, RunRecord, NoRun, RunPCs
  <2>2. RequestTypeOK'
    BY <1>1 DEF Crash, RequestTypeOK, RequestRecord, NoRequest, Statuses
  <2>3. abandoned' \subseteq Jobs
    BY <1>1, OwnerType DEF Crash, TypeOK, GhostTypeOK
  <2>4. DbTypeOK' /\ merges' \in [Jobs -> Nat] /\ completions' \in [Jobs -> Nat]
    BY <1>1 DEF Crash, dbVars, TypeOK, DbTypeOK, GhostTypeOK
  <2>5. queue' \in Seq(Jobs) /\ calls' \in Nat /\ crashes' \in Nat
    BY <1>1 DEF Crash, TypeOK
  <2> QED
    BY <2>1, <2>2, <2>3, <2>4, <2>5 DEF TypeOK, GhostTypeOK
<1>2. CASE UNCHANGED vars
  BY <1>2 DEF vars, dbVars, ghostVars, boundVars, TypeOK, DbTypeOK, RunTypeOK, RequestTypeOK,
              GhostTypeOK
<1> QED
  BY <1>1, <1>2, HandlerType, RunStepType DEF Next

\* The state variables stay in their types: the program counters of the runs, the phases
\* of the handlers and the Status column hold only values the code gives them.
THEOREM TypeCorrect == Spec => []TypeOK
BY InitType, TypeInductive, PTL DEF Spec

-----------------------------------------------------------------------------
(* What one step does to the parts of the state the invariants relate.     *)

\* How a run may be seen by the others: at a place from which it will still write the
\* Status of its job.
Responsible == RunPCs \ Aside

\* ... and has not loaded a Status that would keep it from doing so.
Knows(r) == r.seen \in Active \cup {"expired"}

LEMMA GotoFacts ==
    ASSUME RunTypeOK, NEW t \in Threads, NEW pc, Goto(t, pc)
    PROVE  /\ run'[t].pc = pc /\ run'[t].job = run[t].job /\ run'[t].seen = run[t].seen
           /\ \A u \in Threads \ {t} : run'[u] = run[u]
BY DEF RunTypeOK, RunRecord, Goto

LEMMA LoadedFacts ==
    ASSUME RunTypeOK, NEW t \in Threads, NEW pc, NEW value, Loaded(t, pc, value)
    PROVE  /\ run'[t].pc = pc /\ run'[t].job = run[t].job /\ run'[t].seen = value
           /\ \A u \in Threads \ {t} : run'[u] = run[u]
BY DEF RunTypeOK, RunRecord, Loaded

LEMMA RetireFacts ==
    ASSUME RunTypeOK, NEW t \in Threads, Retire(t)
    PROVE  /\ run'[t].pc = "idle"
           /\ \A u \in Threads \ {t} : run'[u] = run[u]
BY DEF RunTypeOK, Retire, NoRun

\* The staging table, and how far the run has got with it.
TableEffect(t) ==
    \/ /\ run[t].pc = "mapped" /\ run'[t].pc = "import" /\ run'[t].job = Owner(t)
       /\ ~staging[Owner(t)]
       /\ staging' = [staging EXCEPT ![Owner(t)] = TRUE]
    \/ /\ UNCHANGED staging
       /\ run'[t].pc \in Held => run[t].pc \in Held /\ run'[t].job = Owner(t)
       /\ run'[t].pc \in Staged => run[t].pc \in Staged
       /\ run'[t].pc \in BeforeMerge => run[t].pc \in BeforeMerge

\* The merges and completions it counts.
CountEffect(t) ==
    /\ \/ UNCHANGED merges
       \/ /\ run[t].pc = "merge" /\ run'[t].pc \notin BeforeMerge
          /\ merges' = [merges EXCEPT ![Owner(t)] = @ + 1]
    /\ \/ UNCHANGED completions
       \/ /\ run[t].pc = "complete" /\ run'[t].pc = "log"
          /\ completions' = [completions EXCEPT ![Owner(t)] = @ + 1]

\* The results it writes, and the Status COMPLETED.
ResultEffect(t) ==
    /\ \/ UNCHANGED results
       \/ /\ run[t].pc \in Staged \ {"complete"}
          /\ \A j \in Jobs \ {Owner(t)} : results'[j] = results[j]
    /\ run'[t].pc = "complete" => results'[Owner(t)] = "reported"
    /\ \A j \in Jobs : status'[j] = "COMPLETED" =>
          \/ status[j] = "COMPLETED"
          \/ j = Owner(t) /\ run[t].pc = "complete" /\ run'[t].pc = "log"

\* The Status IMPORTING and PROCESSING.
ActiveEffect(t) ==
    \A j \in Jobs : status'[j] \in Active =>
        \/ /\ j = Owner(t) /\ run'[t].job = j /\ run'[t].pc \in Responsible
           /\ Knows(run'[t])
        \/ j \in abandoned'
        \/ /\ status[j] \in Active /\ j \notin abandoned
           /\ j # Owner(t) \/ run[t].pc \notin Responsible \/ ~Knows(run[t])

RunEffect(t) ==
    /\ \A u \in Threads \ {t} : run'[u] = run[u]
    /\ TableEffect(t) /\ CountEffect(t) /\ ResultEffect(t) /\ ActiveEffect(t)

LEMMA RunStepEffect ==
    ASSUME TypeOK, NEW t \in Threads, RunStep(t) PROVE RunEffect(t)
<1> USE DEF RunEffect, TableEffect, CountEffect, ResultEffect, ActiveEffect, Responsible,
            Aside, Knows, RunPCs, Working, Held, Staged, BeforeMerge, Active, At, Owner, Saved,
            dbVars, ghostVars
<1>a. RunTypeOK /\ DbTypeOK
  BY DEF TypeOK
<1>1. CASE Dequeue(t)
  <2>1. run'[t].pc = "taken" /\ \A u \in Threads \ {t} : run'[u] = run[u]
    BY <1>a, <1>1 DEF Dequeue, RunTypeOK
  <2> QED
    BY <1>a, <1>1, <2>1 DEF Dequeue
<1>24. CASE LoadJob(t)
  BY <1>a, <1>24, LoadedFacts DEF LoadJob, DbTypeOK
<1>2. CASE Claim(t)
  BY <1>a, <1>2, LoadedFacts DEF Claim, DbTypeOK
<1>3. CASE MapColumns(t)
  BY <1>a, <1>3, LoadedFacts DEF MapColumns, Expire, DbTypeOK
<1>4. CASE CreateStaging(t)
  BY <1>a, <1>4, GotoFacts DEF CreateStaging, DbTypeOK
<1>5. CASE CreateConflict(t)
  BY <1>a, <1>5, GotoFacts DEF CreateConflict, DbTypeOK
<1>6. CASE Import(t)
  BY <1>a, <1>6, LoadedFacts DEF Import, MayLoad, DbTypeOK
<1>7. CASE CheckAfterImport(t)
  BY <1>a, <1>7, GotoFacts DEF CheckAfterImport, DbTypeOK
<1>8. CASE SetProcessing(t)
  <2>1. /\ run'[t].pc = "filter"
        /\ run'[t].job = run[t].job /\ run'[t].seen = status'[Owner(t)]
        /\ \A u \in Threads \ {t} : run'[u] = run[u]
    BY <1>a, <1>8 DEF SetProcessing, RunTypeOK, RunRecord
  <2> QED
    BY <1>a, <1>8, <2>1 DEF SetProcessing, DbTypeOK
<1>9. CASE FilterStep(t)
  <2>1. /\ run'[t].pc = (IF run[t].left = 1 THEN "summarise" ELSE "filter")
        /\ run'[t].job = run[t].job /\ run'[t].seen \in {run[t].seen, status[Owner(t)]}
        /\ \A u \in Threads \ {t} : run'[u] = run[u]
    BY <1>a, <1>9 DEF FilterStep, MayLoad, RunTypeOK, RunRecord
  <2> QED
    BY <1>a, <1>9, <2>1 DEF FilterStep, DbTypeOK
<1>10. CASE CancelDetected(t)
  BY <1>a, <1>10, GotoFacts DEF CancelDetected, DbTypeOK
<1>11. CASE ClearResults(t)
  BY <1>a, <1>11, LoadedFacts DEF ClearResults, Expire, DbTypeOK
<1>12. CASE InsertResults(t)
  BY <1>a, <1>12, LoadedFacts DEF InsertResults, Expire, DbTypeOK
<1>13. CASE ReadColumns(t)
  <2>1. /\ run'[t].pc = "merge"
        /\ run'[t].job = run[t].job /\ run'[t].seen = status[Owner(t)]
        /\ \A u \in Threads \ {t} : run'[u] = run[u]
    BY <1>a, <1>13 DEF ReadColumns, RunTypeOK, RunRecord
  <2> QED
    BY <1>a, <1>13, <2>1 DEF ReadColumns, DbTypeOK
<1>14. CASE Merge(t)
  BY <1>a, <1>14, LoadedFacts DEF Merge, MergeInto, Expire, DbTypeOK
<1>15. CASE MergePartly(t)
  BY <1>a, <1>15, GotoFacts DEF MergePartly, MergeInto, DbTypeOK
<1>16. CASE SkipMerge(t)
  BY <1>a, <1>16, GotoFacts DEF SkipMerge, DbTypeOK
<1>17. CASE WriteReports(t)
  <2>1. Owner(t) \in Jobs
    BY <1>a, <1>17, OwnerType DEF WriteReports
  <2>2. PICK s \in {Reloaded(t), "expired"} : Loaded(t, "complete", s)
    BY <1>17 DEF WriteReports
  <2>3. /\ run'[t].pc = "complete" /\ run'[t].job = run[t].job /\ run'[t].seen = s
        /\ \A u \in Threads \ {t} : run'[u] = run[u]
    BY <1>a, <2>2, LoadedFacts
  <2>4. s \in {run[t].seen, status[Owner(t)], "expired"}
    BY <2>2 DEF Reloaded
  <2> HIDE DEF Owner
  <2>5. status' = status /\ results'[Owner(t)] = "reported"
    BY <1>a, <1>17, <2>1 DEF WriteReports, DbTypeOK
  <2> USE DEF Owner
  <2> QED
    BY <1>a, <1>17, <2>1, <2>3, <2>4, <2>5 DEF WriteReports, DbTypeOK
<1>18. CASE Complete(t)
  BY <1>a, <1>18, LoadedFacts DEF Complete, DbTypeOK
<1>19. CASE LogCompleted(t)
  BY <1>a, <1>19, RetireFacts DEF LogCompleted, DbTypeOK
<1>20. CASE Raise(t)
  BY <1>a, <1>20, GotoFacts DEF Raise, DbTypeOK
<1>21. CASE PersistFailed(t)
  BY <1>a, <1>21, RetireFacts DEF PersistFailed, DbTypeOK
<1>22. CASE PersistCancelled(t)
  BY <1>a, <1>22, RetireFacts DEF PersistCancelled, DbTypeOK
<1>23. CASE PersistLost(t)
  BY <1>a, <1>23, RetireFacts DEF PersistLost, DbTypeOK
<1> QED
  BY <1>1, <1>2, <1>3, <1>4, <1>5, <1>6, <1>7, <1>8, <1>9, <1>10, <1>11, <1>12, <1>13, <1>14, <1>15, <1>16, <1>17, <1>18, <1>19, <1>20, <1>21, <1>22, <1>23, <1>24 DEF RunStep

\* A handler touches no run, no table and no result, and writes no Status of a run.
LEMMA HandlerEffect ==
    ASSUME TypeOK, NEW h \in Handlers, HandlerStep(h)
    PROVE  /\ UNCHANGED <<run, staging, results, merges, completions, abandoned>>
           /\ \A j \in Jobs : status'[j] = status[j] \/ status'[j] \in {"QUEUED", "FAILED", "CANCELLING"}
BY DEF TypeOK, DbTypeOK, HandlerStep, UploadCreate, UploadSave, UploadTooLarge, ReadAndCheck,
       StartWrite, RetryWrite, Submit, CancelWrite, HandlerFails, dbVars, ghostVars

\* In a crash every run is forgotten, and its job is noted as abandoned.
LEMMA CrashEffect ==
    ASSUME TypeOK, Crash
    PROVE  /\ \A t \in Threads : run'[t].pc = "idle"
           /\ UNCHANGED <<status, staging, results, merges, completions>>
           /\ \A t \in Threads : run[t].pc # "idle" => Owner(t) \in abandoned'
           /\ abandoned \subseteq abandoned'
BY DEF Crash, NoRun, dbVars

-----------------------------------------------------------------------------
(* The invariants, one after the other.                                    *)

TableInv == HeldHasTable /\ StagingExclusive

\* Two runs cannot share a table: the one that finds it created stops.
LEMMA TableInductive == TypeOK /\ TableInv /\ [Next]_vars => TableInv'
<1> SUFFICES ASSUME TypeOK, TableInv, [Next]_vars PROVE TableInv'
  OBVIOUS
<1> USE DEF TableInv, HeldHasTable, StagingExclusive, Owner
<1>1. ASSUME NEW h \in Handlers, HandlerStep(h) PROVE TableInv'
  BY <1>1, HandlerEffect
<1>2. ASSUME NEW t \in Threads, RunStep(t) PROVE TableInv'
  <2>1. RunEffect(t)
    BY <1>2, RunStepEffect
  <2>2. \A u \in Threads \ {t} : run'[u] = run[u]
    BY <2>1 DEF RunEffect
  <2>3. TableEffect(t)
    BY <2>1 DEF RunEffect
  <2>4. CASE /\ UNCHANGED staging
             /\ run'[t].pc \in Held => run[t].pc \in Held /\ run'[t].job = Owner(t)
    <3>1. \A u \in Threads :
            run'[u].pc \in Held => run[u].pc \in Held /\ run'[u].job = run[u].job
      BY <2>2, <2>4
    <3> QED
      BY <2>4, <3>1
  <2>5. CASE /\ run[t].pc = "mapped" /\ run'[t].job = Owner(t) /\ ~staging[Owner(t)]
             /\ staging' = [staging EXCEPT ![Owner(t)] = TRUE]
    <3>1. Owner(t) \in Jobs
      BY <2>5, OwnerType DEF TypeOK
    <3>2. staging \in [Jobs -> BOOLEAN]
      BY DEF TypeOK, DbTypeOK
    <3>3. \A u \in Threads : run[u].pc \in Held => run[u].job \in Jobs
      BY OwnerType DEF TypeOK, Held, Staged, BeforeMerge
    <3>4. staging'[run[t].job] /\ \A j \in Jobs : staging[j] => staging'[j]
      BY <2>5, <3>1, <3>2
    <3>5. HeldHasTable'
      BY <2>2, <2>5, <3>3, <3>4
    <3>6. \A u \in Threads : run[u].pc \in Held => run[u].job # run[t].job
      BY <2>5
    <3>7. StagingExclusive'
      BY <2>2, <2>5, <3>6
    <3> QED
      BY <3>5, <3>7
  <2> QED
    BY <2>3, <2>4, <2>5 DEF TableEffect
<1>3. CASE Crash
  BY <1>3, CrashEffect DEF Held, Staged, BeforeMerge
<1>4. CASE UNCHANGED vars
  BY <1>4 DEF vars, dbVars
<1> QED
  BY <1>1, <1>2, <1>3, <1>4 DEF Next

CountInv == CountsFollowRuns /\ AtMostOnce

\* Only the run that has the table merges and completes, each at most once.
LEMMA CountInductive ==
    TypeOK /\ TableInv /\ CountInv /\ [Next]_vars => CountInv'
<1> SUFFICES ASSUME TypeOK, TableInv, CountInv, [Next]_vars PROVE CountInv'
  OBVIOUS
<1> USE DEF CountInv, CountsFollowRuns, AtMostOnce, Owner
<1>1. ASSUME NEW h \in Handlers, HandlerStep(h) PROVE CountInv'
  BY <1>1, HandlerEffect
<1>2. ASSUME NEW t \in Threads, RunStep(t) PROVE CountInv'
  <2>1. RunEffect(t)
    BY <1>2, RunStepEffect
  <2>2. \A u \in Threads \ {t} : run'[u] = run[u]
    BY <2>1 DEF RunEffect
  <2>3. TableEffect(t) /\ CountEffect(t)
    BY <2>1 DEF RunEffect
  <2>4. /\ staging \in [Jobs -> BOOLEAN]
        /\ merges \in [Jobs -> Nat] /\ completions \in [Jobs -> Nat]
    BY DEF TypeOK, DbTypeOK, GhostTypeOK
  <2>5. \A u \in Threads : run[u].pc \in Staged \cup {"mapped"} => run[u].job \in Jobs
    BY OwnerType DEF TypeOK, Staged, BeforeMerge
  <2>6. \A u \in Threads \ {t} :
           run[t].pc \in Staged /\ run[u].pc \in Staged => run[u].job # run[t].job
    BY DEF TableInv, StagingExclusive, Held
  <2>7. BeforeMerge \subseteq Staged /\ Staged \subseteq Held
    BY DEF Held, Staged
  <2>8. run[t].pc \in {"merge", "complete"} => run[t].pc \in Staged /\ staging[run[t].job]
    BY DEF TableInv, HeldHasTable, Held, Staged, BeforeMerge
  \* What happens to the owner's own counters, and that no others change.
  <2>9. \A j \in Jobs : /\ merges'[j] = merges[j] \/ (run[t].pc = "merge" /\ j = run[t].job)
                        /\ completions'[j] = completions[j] \/ (run[t].pc = "complete" /\ j = run[t].job)
    BY <2>3, <2>4 DEF CountEffect
  <2>10. \A j \in Jobs : staging[j] => staging'[j]
    BY <2>3, <2>4 DEF TableEffect
  <2>11. \A j \in Jobs : ~staging'[j] => merges'[j] = 0 /\ completions'[j] = 0
    BY <2>8, <2>9, <2>10
  <2>12. \A j \in Jobs : merges'[j] <= 1
    <3>1. run[t].pc = "merge" => run[t].job \in Jobs /\ merges[run[t].job] = 0
      BY <2>5 DEF Staged, BeforeMerge
    <3> QED
      BY <2>3, <2>4, <3>1 DEF CountEffect
  <2>13. \A j \in Jobs : completions'[j] <= 1
    <3>1. run[t].pc = "complete" => run[t].job \in Jobs /\ completions[run[t].job] = 0
      BY <2>5 DEF Staged, BeforeMerge
    <3> QED
      BY <2>3, <2>4, <3>1 DEF CountEffect
  <2>14. ASSUME NEW u \in Threads
         PROVE  /\ run'[u].pc \in BeforeMerge => merges'[run'[u].job] = 0
                /\ run'[u].pc \in Staged => completions'[run'[u].job] = 0
    <3>1. CASE u # t
      BY <2>2, <2>5, <2>6, <2>7, <2>8, <2>9, <3>1
    <3>2. CASE u = t
      <4>1. CASE run[t].pc = "mapped" /\ run'[t].job = run[t].job /\ ~staging[run[t].job]
        <5>1. run[t].job \in Jobs
          BY <2>5, <4>1
        <5> QED
          BY <2>9, <3>2, <4>1, <5>1
      <4>2. CASE /\ run'[t].pc \in Staged => run[t].pc \in Staged
                 /\ run'[t].pc \in Held => run'[t].job = run[t].job
                 /\ run'[t].pc \in BeforeMerge => run[t].pc \in BeforeMerge
        <5>1. run'[t].pc \in BeforeMerge => UNCHANGED merges
          BY <2>3 DEF CountEffect
        <5>2. run'[t].pc \in Staged => UNCHANGED completions
          BY <2>3 DEF CountEffect, Staged, BeforeMerge
        <5> QED
          BY <2>7, <3>2, <4>2, <5>1, <5>2
      <4> QED
        BY <2>3, <4>1, <4>2 DEF TableEffect
    <3> QED
      BY <3>1, <3>2
  <2> QED
    BY <2>11, <2>12, <2>13, <2>14
<1>3. CASE Crash
  BY <1>3, CrashEffect DEF Staged, BeforeMerge
<1>4. CASE UNCHANGED vars
  BY <1>4 DEF vars, dbVars, ghostVars
<1> QED
  BY <1>1, <1>2, <1>3, <1>4 DEF Next

QuietInv == ReportedBeforeCompleted /\ CompletedIsQuiet

\* COMPLETED is written by the owner of the table, which has reported and is through.
LEMMA QuietInductive ==
    TypeOK /\ TableInv /\ QuietInv /\ [Next]_vars => QuietInv'
<1> SUFFICES ASSUME TypeOK, TableInv, QuietInv, [Next]_vars PROVE QuietInv'
  OBVIOUS
<1> USE DEF QuietInv, ReportedBeforeCompleted, CompletedIsQuiet, Owner, At
<1>1. ASSUME NEW h \in Handlers, HandlerStep(h) PROVE QuietInv'
  BY <1>1, HandlerEffect
<1>2. ASSUME NEW t \in Threads, RunStep(t) PROVE QuietInv'
  <2>1. RunEffect(t)
    BY <1>2, RunStepEffect
  <2>2. \A u \in Threads \ {t} : run'[u] = run[u]
    BY <2>1 DEF RunEffect
  <2>3. \A u \in Threads : run[u].pc \in Held => run[u].job \in Jobs
    BY OwnerType DEF Held, Staged, BeforeMerge, TypeOK
  <2>4. \A u \in Threads : run'[u].pc = "complete" => results'[run'[u].job] = "reported"
    BY <2>1, <2>2, <2>3
       DEF RunEffect, TableEffect, ResultEffect, TableInv, StagingExclusive, Held, Staged, BeforeMerge
  <2>5. \A j \in Jobs : status'[j] = "COMPLETED" => staging'[j]
    BY <2>1, <2>3 DEF RunEffect, TableEffect, ResultEffect, TableInv, HeldHasTable, Held, Staged,
                      BeforeMerge, TypeOK, DbTypeOK
  <2>6. ASSUME NEW j \in Jobs, status'[j] = "COMPLETED"
        PROVE  /\ results'[j] = "reported"
               /\ \A u \in Threads : run'[u].job = j => run'[u].pc \notin Held
    <3>1. CASE status[j] = "COMPLETED"
      BY <2>1, <2>2, <3>1 DEF RunEffect, TableEffect, ResultEffect, Held, Staged, BeforeMerge
    <3>2. CASE j = Owner(t) /\ run[t].pc = "complete" /\ run'[t].pc = "log"
      BY <2>1, <2>2, <3>2
         DEF RunEffect, TableEffect, ResultEffect, TableInv, StagingExclusive, Held, Staged, BeforeMerge
    <3> QED
      BY <2>1, <2>6, <3>1, <3>2 DEF RunEffect, ResultEffect
  <2> QED
    BY <2>4, <2>5, <2>6
<1>3. CASE Crash
  BY <1>3, CrashEffect DEF Held, Staged, BeforeMerge
<1>4. CASE UNCHANGED vars
  BY <1>4 DEF vars, dbVars
<1> QED
  BY <1>1, <1>2, <1>3, <1>4 DEF Next

\* Whoever wrote IMPORTING or PROCESSING last is still there, or was noted as lost.
LEMMA ActiveInductive ==
    TypeOK /\ ActiveOwnerWrites /\ [Next]_vars => ActiveOwnerWrites'
<1> SUFFICES ASSUME TypeOK, ActiveOwnerWrites, [Next]_vars PROVE ActiveOwnerWrites'
  OBVIOUS
<1> USE DEF ActiveOwnerWrites, Owner, Active, Aside, Knows
<1>1. ASSUME NEW h \in Handlers, HandlerStep(h) PROVE ActiveOwnerWrites'
  BY <1>1, HandlerEffect
<1>2. ASSUME NEW t \in Threads, RunStep(t) PROVE ActiveOwnerWrites'
  <2>1. RunEffect(t)
    BY <1>2, RunStepEffect
  <2>2. \A u \in Threads : run[u].pc \in RunPCs
    BY DEF TypeOK, RunTypeOK, RunRecord
  <2>3. SUFFICES ASSUME NEW j \in Jobs, status'[j] \in Active, j \notin abandoned'
                 PROVE  \E u \in Threads : /\ run'[u].job = j /\ run'[u].pc \notin Aside
                                             /\ Knows(run'[u])
    OBVIOUS
  <2>4. CASE j = Owner(t) /\ run'[t].job = j /\ run'[t].pc \in Responsible /\ Knows(run'[t])
    BY <2>4 DEF Responsible
  <2>5. CASE /\ status[j] \in Active /\ j \notin abandoned
             /\ j # Owner(t) \/ run[t].pc \notin Responsible \/ ~Knows(run[t])
    <3>1. PICK u \in Threads : run[u].job = j /\ run[u].pc \notin Aside /\ Knows(run[u])
      BY <2>5
    <3>2. u # t
      BY <2>2, <2>5, <3>1 DEF Responsible
    <3> QED
      BY <2>1, <3>1, <3>2 DEF RunEffect
  <2> QED
    BY <2>1, <2>3, <2>4, <2>5 DEF RunEffect, ActiveEffect
<1>3. CASE Crash
  BY <1>3, CrashEffect
<1>4. CASE UNCHANGED vars
  BY <1>4 DEF vars, dbVars, ghostVars
<1> QED
  BY <1>1, <1>2, <1>3, <1>4 DEF Next

-----------------------------------------------------------------------------
(* The theorems.                                                           *)

LEMMA InitInv == Init => LifecycleInv
<1> SUFFICES ASSUME Init PROVE LifecycleInv
  OBVIOUS
<1>1. TypeOK
  BY InitType
<1>2. \A t \in Threads : run[t].pc = "idle"
  BY DEF Init, NoRun
<1>3. \A j \in Jobs : status[j] = "ABSENT" /\ merges[j] = 0 /\ completions[j] = 0
  BY DEF Init
<1> QED
  BY <1>1, <1>2, <1>3
     DEF LifecycleInv, HeldHasTable, StagingExclusive, CountsFollowRuns, AtMostOnce,
         ReportedBeforeCompleted, CompletedIsQuiet, ActiveOwnerWrites, Held, Staged, BeforeMerge,
         Active, At

LEMMA LifecycleInductive == LifecycleInv /\ [Next]_vars => LifecycleInv'
BY TypeInductive, TableInductive, CountInductive, QuietInductive, ActiveInductive
   DEF LifecycleInv, TableInv, CountInv, QuietInv

\* The invariant the other theorems rest on: who may work on a staging table, what has been
\* merged, reported and completed by then, and who answers for a Status shown as active.
THEOREM LifecycleInvariant == Spec => []LifecycleInv
BY InitInv, LifecycleInductive, PTL DEF Spec

\* Two runs of one job never work on its staging table together, however many threads the
\* pool has and however often the job is submitted (csv_importer.py:63-80).
THEOREM StagingIsExclusive == Spec => []StagingExclusive
<1>1. LifecycleInv => StagingExclusive
  BY DEF LifecycleInv
<1> QED
  BY <1>1, LifecycleInvariant, PTL

\* A job shown as IMPORTING or PROCESSING is being run, or its run was lost in a crash or
\* could not write its last Status (job_worker.py:78-100).
THEOREM ActiveIsOwned == Spec => []ActiveHasOwner
<1>1. LifecycleInv => ActiveHasOwner
  BY DEF LifecycleInv, ActiveOwnerWrites, ActiveHasOwner
<1> QED
  BY <1>1, LifecycleInvariant, PTL

\* The results and files of a COMPLETED job are all recorded, and no run of the job is left
\* that could touch them (job_worker.py:201-243).
THEOREM CompletedStaysQuiet == Spec => []CompletedIsQuiet
<1>1. LifecycleInv => CompletedIsQuiet
  BY DEF LifecycleInv
<1> QED
  BY <1>1, LifecycleInvariant, PTL

\* The worker merges the rows of a job into Master at most once and completes it at most
\* once, whatever is started, retried, cancelled or lost (job_worker.py:211-243).
THEOREM MergedAtMostOnce == Spec => []AtMostOnce
<1>1. LifecycleInv => AtMostOnce
  BY DEF LifecycleInv
<1> QED
  BY <1>1, LifecycleInvariant, PTL

\* Only the run that holds the table writes PROCESSING and CANCELLED.
LEMMA StatusEffect ==
    ASSUME TypeOK, NEW t \in Threads, RunStep(t), NEW j \in Jobs,
           status[j] = "COMPLETED", status'[j] \in {"CANCELLED", "PROCESSING"}
    PROVE  j = Owner(t) /\ run[t].pc \in Held
BY DEF TypeOK, DbTypeOK, RunStep, Dequeue, LoadJob, Claim, MapColumns, CreateStaging, CreateConflict, Import,
       CheckAfterImport, SetProcessing, FilterStep, CancelDetected, ClearResults, InsertResults,
       ReadColumns, Merge, MergePartly, MergeInto, SkipMerge, WriteReports, Complete, LogCompleted,
       Raise, PersistFailed, PersistCancelled, PersistLost, At, Saved, dbVars, Held, Staged,
       BeforeMerge

\* A COMPLETED job never becomes CANCELLED, nor PROCESSING again: a late cancellation, or a
\* second run of the job, cannot disown the work that is done (job_worker.py:88-97, 177).
THEOREM CompletedStandsFirm == Spec => CompletedNotUndone
<1> DEFINE Firm == \A j \in Jobs :
                     status[j] = "COMPLETED" => status'[j] \notin {"CANCELLED", "PROCESSING"}
<1>1. LifecycleInv /\ [Next]_vars => [Firm]_vars
  <2> SUFFICES ASSUME LifecycleInv, Next, NEW j \in Jobs, status[j] = "COMPLETED",
                      status'[j] \in {"CANCELLED", "PROCESSING"}
               PROVE  FALSE
    OBVIOUS
  <2>1. ASSUME NEW h \in Handlers, HandlerStep(h) PROVE FALSE
    BY <2>1, HandlerEffect DEF LifecycleInv
  <2>2. ASSUME NEW t \in Threads, RunStep(t) PROVE FALSE
    BY <2>2, StatusEffect DEF LifecycleInv, CompletedIsQuiet
  <2>3. CASE Crash
    BY <2>3, CrashEffect DEF LifecycleInv
  <2> QED
    BY <2>1, <2>2, <2>3 DEF Next
<1> QED
  BY <1>1, LifecycleInvariant, PTL DEF Spec, CompletedNotUndone

-----------------------------------------------------------------------------
(* JobLifecycle implements OneShot.                                        *)

\* PhaseOf looks at nothing else.
LEMMA SamePhase ==
    ASSUME NEW j \in Jobs, staging'[j] = staging[j], completions'[j] = completions[j],
           InUse(j)' <=> InUse(j)
    PROVE  PhaseOf(j)' = PhaseOf(j)
BY DEF PhaseOf

\* If no phase changes and nothing is merged, OneShot stutters.
LEMMA ShotStutters ==
    ASSUME \A j \in Jobs : PhaseOf(j)' = PhaseOf(j), UNCHANGED merges
    PROVE  UNCHANGED Shot!vars
BY DEF Shot!vars

\* A step of a run that has not got the table and does not get it, or keeps it and merges
\* nothing, is a stutter; each of the others is a step of OneShot.
LEMMA RunSimulates ==
    ASSUME LifecycleInv, NEW t \in Threads, RunStep(t)
    PROVE  Shot!Next \/ UNCHANGED Shot!vars
\* A value, not an expression of the state: PhaseOf(o)' is about the same job as PhaseOf(o).
<1>0. PICK o : o = Owner(t)
  OBVIOUS
<1> USE <1>0
<1>1. RunEffect(t) /\ TableEffect(t) /\ CountEffect(t)
  BY RunStepEffect DEF LifecycleInv, RunEffect
<1>2. \A u \in Threads \ {t} : run'[u] = run[u]
  BY <1>1 DEF RunEffect
<1>3. /\ staging \in [Jobs -> BOOLEAN]
      /\ merges \in [Jobs -> Nat] /\ completions \in [Jobs -> Nat]
  BY DEF LifecycleInv, TypeOK, DbTypeOK, GhostTypeOK
<1>4. run[t].pc \in Staged \cup {"mapped"} => o \in Jobs
  BY OwnerType DEF LifecycleInv, TypeOK, Staged, BeforeMerge
<1>5. BeforeMerge \subseteq Staged /\ Staged \subseteq Held /\ "mapped" \notin Held
      /\ "import" \in Staged /\ "merge" \in BeforeMerge /\ "complete" \in Staged
      /\ "log" \notin Staged
  BY DEF Held, Staged, BeforeMerge
\* The runs of other jobs are where they were.
<1>6. ASSUME NEW j \in Jobs, run[t].pc \in Staged => j # o,
             run'[t].pc \in Staged => run'[t].job # j
      PROVE  InUse(j)' <=> InUse(j)
  BY <1>2, <1>6 DEF InUse, Owner
<1>7. CASE /\ run[t].pc = "mapped" /\ run'[t].pc = "import" /\ run'[t].job = o
           /\ ~staging[o] /\ staging' = [staging EXCEPT ![o] = TRUE]
  <2>1. o \in Jobs /\ UNCHANGED <<merges, completions>>
    BY <1>1, <1>4, <1>7 DEF CountEffect
  <2>2. PhaseOf(o) = "fresh"
    BY <1>7 DEF PhaseOf
  <2>3. PhaseOf(o)' = "inuse"
    <3>1. completions[o] = 0
      BY <1>7, <2>1 DEF LifecycleInv, CountsFollowRuns
    <3>2. InUse(o)'
      BY <1>5, <1>7 DEF InUse, Owner
    <3> QED
      BY <1>3, <1>7, <2>1, <3>1, <3>2 DEF PhaseOf
  <2>4. ASSUME NEW j \in Jobs, j # o PROVE PhaseOf(j)' = PhaseOf(j)
    BY <1>3, <1>5, <1>6, <1>7, <2>1, <2>4, SamePhase
  <2>5. Shot!Take(o)
    BY <2>1, <2>2, <2>3, <2>4 DEF Shot!Take
  <2> QED
    BY <2>1, <2>5 DEF Shot!Next
<1>8. CASE /\ UNCHANGED staging
           /\ run'[t].pc \in Staged => run[t].pc \in Staged /\ run'[t].job = o
  <2>1. CASE run[t].pc \notin Staged
    <3>1. UNCHANGED <<merges, completions>>
      BY <1>1, <1>5, <2>1 DEF CountEffect
    <3>2. \A j \in Jobs : PhaseOf(j)' = PhaseOf(j)
      BY <1>6, <1>8, <2>1, <3>1, SamePhase
    <3> QED
      BY <3>1, <3>2, ShotStutters
  <2>2. CASE run[t].pc \in Staged
    <3> o \in Jobs
      BY <1>4, <2>2
    <3>1. staging[o] /\ completions[o] = 0
      BY <1>5, <2>2 DEF LifecycleInv, HeldHasTable, CountsFollowRuns
    <3>2. PhaseOf(o) = "inuse"
      BY <2>2, <3>1 DEF PhaseOf, InUse
    <3>3. \A j \in Jobs \ {o} : merges'[j] = merges[j] /\ completions'[j] = completions[j]
      BY <1>1, <1>3 DEF CountEffect
    <3>4. \A j \in Jobs \ {o} : PhaseOf(j)' = PhaseOf(j)
      BY <1>6, <1>8, <3>3, SamePhase
    <3>5. run[t].pc = "merge" => merges[o] = 0
      BY <1>5 DEF LifecycleInv, CountsFollowRuns
    <3>6. \/ UNCHANGED merges
          \/ merges[o] = 0 /\ merges'[o] = 1 /\ UNCHANGED completions
      BY <1>1, <1>3, <3>5 DEF CountEffect
    <3>7. CASE run'[t].pc \in Staged
      <4>1. PhaseOf(o)' = "inuse"
        <5>1. UNCHANGED completions
          BY <1>1, <1>5, <3>7 DEF CountEffect
        <5>2. InUse(o)'
          BY <1>8, <3>7 DEF InUse, Owner
        <5> QED
          BY <1>8, <3>1, <5>1, <5>2 DEF PhaseOf
      <4>2. CASE UNCHANGED merges
        BY <3>2, <3>4, <4>1, <4>2, ShotStutters
      <4>3. CASE merges[o] = 0 /\ merges'[o] = 1
        <5>1. Shot!MergeRows(o, FALSE)
          BY <3>2, <3>3, <3>4, <4>1, <4>3 DEF Shot!MergeRows
        <5> QED
          BY <5>1 DEF Shot!Next
      <4> QED
        BY <3>6, <4>2, <4>3
    <3>8. CASE run'[t].pc \notin Staged
      <4>1. ~InUse(o)'
        <5>1. \A u \in Threads \ {t} : run[u].job = o => run[u].pc \notin Staged
          BY <1>5, <2>2 DEF LifecycleInv, StagingExclusive, Owner
        <5> QED
          BY <1>2, <3>8, <5>1 DEF InUse, Owner
      <4>2. CASE UNCHANGED completions
        <5>1. PhaseOf(o)' = "spoiled"
          BY <1>8, <3>1, <4>1, <4>2 DEF PhaseOf
        <5>2. CASE UNCHANGED merges
          <6>1. Shot!Spoil({o})
            BY <3>2, <3>4, <5>1, <5>2 DEF Shot!Spoil
          <6> QED
            BY <6>1 DEF Shot!Next
        <5>3. CASE merges[o] = 0 /\ merges'[o] = 1
          <6>1. Shot!MergeRows(o, TRUE)
            <7>1. [j \in Jobs |-> PhaseOf(j)]' = [[j \in Jobs |-> PhaseOf(j)] EXCEPT ![o] = "spoiled"]
              BY <3>4, <5>1
            <7>2. {j \in Jobs : merges[j] > 0}' = {j \in Jobs : merges[j] > 0} \cup {o}
              BY <3>3, <5>3
            <7> QED
              BY <3>2, <5>3, <7>1, <7>2 DEF Shot!MergeRows
          <6> QED
            BY <6>1 DEF Shot!Next
        <5> QED
          BY <3>6, <5>2, <5>3
      <4>3. CASE ~UNCHANGED completions
        <5>1. UNCHANGED merges /\ completions'[o] > 0
          BY <1>1, <1>3, <3>1, <4>3 DEF CountEffect
        <5>2. PhaseOf(o)' = "done"
          BY <1>8, <3>1, <5>1 DEF PhaseOf
        <5>3. Shot!Finish(o)
          BY <3>2, <3>4, <5>1, <5>2 DEF Shot!Finish
        <5> QED
          BY <5>3 DEF Shot!Next
      <4> QED
        BY <4>2, <4>3
    <3> QED
      BY <3>7, <3>8
  <2> QED
    BY <2>1, <2>2
<1> QED
  BY <1>1, <1>5, <1>7, <1>8 DEF TableEffect

\* A crash spoils all the jobs that are in use.
LEMMA CrashSimulates ==
    ASSUME LifecycleInv, Crash
    PROVE  Shot!Next \/ UNCHANGED Shot!vars
<1> DEFINE S == {j \in Jobs : PhaseOf(j) = "inuse"}
<1>1. UNCHANGED <<staging, merges, completions>> /\ \A j \in Jobs : ~InUse(j)'
  BY CrashEffect DEF LifecycleInv, InUse, Staged, BeforeMerge
<1>2. \A j \in Jobs : PhaseOf(j)' = IF j \in S THEN "spoiled" ELSE PhaseOf(j)
  BY <1>1 DEF PhaseOf
<1>3. CASE S = {}
  BY <1>1, <1>2, <1>3, ShotStutters
<1>4. CASE S # {}
  <2>1. Shot!Spoil(S)
    BY <1>1, <1>2, <1>4 DEF Shot!Spoil
  <2> QED
    BY <2>1 DEF Shot!Next
<1> QED
  BY <1>3, <1>4

\* The worker gives every uploaded file one attempt: the first run to create its staging
\* table owns the rows, and when that run is over no other ever gets at them, merges them or
\* completes the job (csv_importer.py:63-80 is the only place that creates the table, and
\* drop_staging_table, lines 94-97, is never called by a run).
THEOREM ImplementsOneShot == Spec => OneShotRefinement
<1>1. Init => Shot!Init
  BY DEF Init, Shot!Init, PhaseOf
<1>2. LifecycleInv /\ [Next]_vars => [Shot!Next]_(Shot!vars)
  <2> SUFFICES ASSUME LifecycleInv, [Next]_vars
               PROVE  Shot!Next \/ UNCHANGED Shot!vars
    OBVIOUS
  <2>1. ASSUME NEW h \in Handlers, HandlerStep(h) PROVE UNCHANGED Shot!vars
    <3>1. UNCHANGED <<run, staging, merges, completions>>
      BY <2>1, HandlerEffect DEF LifecycleInv
    <3>2. \A j \in Jobs : PhaseOf(j)' = PhaseOf(j)
      BY <3>1 DEF PhaseOf, InUse, Owner
    <3> QED
      BY <3>1, <3>2, ShotStutters
  <2>2. ASSUME NEW t \in Threads, RunStep(t) PROVE Shot!Next \/ UNCHANGED Shot!vars
    BY <2>2, RunSimulates
  <2>3. CASE Crash
    BY <2>3, CrashSimulates
  <2>4. CASE UNCHANGED vars
    <3>1. UNCHANGED <<run, staging, merges, completions>>
      BY <2>4 DEF vars, dbVars, ghostVars
    <3>2. \A j \in Jobs : PhaseOf(j)' = PhaseOf(j)
      BY <3>1 DEF PhaseOf, InUse, Owner
    <3> QED
      BY <3>1, <3>2, ShotStutters
  <2> QED
    BY <2>1, <2>2, <2>3, <2>4 DEF Next
<1> QED
  BY <1>1, <1>2, LifecycleInvariant, PTL DEF Spec, Shot!Spec, OneShotRefinement

-----------------------------------------------------------------------------
(* The cleanup: types, and who accounts for an active job.                 *)

LEMMA CleanStepType ==
    ASSUME TypeOK, CleanerTypeOK, CleanStep PROVE TypeOK' /\ CleanerTypeOK'
<1> USE DEF TypeOK, CleanerTypeOK, RunTypeOK, RequestTypeOK, GhostTypeOK, DbTypeOK, vars, dbVars,
            ghostVars, boundVars
<1>1. ASSUME NEW j \in Jobs, GrowOld(j) PROVE TypeOK' /\ CleanerTypeOK'
  <2>1. TypeOK'
    BY <1>1 DEF GrowOld
  <2>2. age[j] \in 0..2 /\ age[j] < 2
    BY <1>1 DEF GrowOld
  <2>3. age[j] + 1 \in 0..2
    BY <2>2
  <2>4. age' \in [Jobs -> 0..2]
    BY <1>1, <2>3 DEF GrowOld
  <2> QED
    BY <1>1, <2>1, <2>4 DEF GrowOld
<1>2. ASSUME NEW j \in Jobs, RemoveInput(j) PROVE TypeOK' /\ CleanerTypeOK'
  BY <1>2 DEF RemoveInput
<1>3. ASSUME NEW j \in Jobs, DropStaging(j) PROVE TypeOK' /\ CleanerTypeOK'
  BY <1>3 DEF DropStaging
<1>4. CASE SelectInputs
  BY <1>4 DEF SelectInputs, TerminalJobs
<1>5. CASE SelectTables
  BY <1>5 DEF SelectTables, TerminalJobs
<1>6. CASE EndCleanup \/ CleanupDies
  BY <1>6 DEF EndCleanup, CleanupDies, NoPass
<1> QED
  BY <1>1, <1>2, <1>3, <1>4, <1>5, <1>6 DEF CleanStep

CleanupTypes == TypeOK /\ CleanerTypeOK

LEMMA CleanupTypesInductive == CleanupTypes /\ [CleanupNext]_allVars => CleanupTypes'
<1> SUFFICES ASSUME CleanupTypes, [CleanupNext]_allVars PROVE CleanupTypes'
  OBVIOUS
<1> USE DEF CleanupTypes
<1>1. CASE CleanStep
  BY <1>1, CleanStepType
<1>2. CASE [Next]_vars /\ UNCHANGED cleanVars
  <2>1. TypeOK'
    BY <1>2, TypeInductive
  <2> QED
    BY <1>2, <2>1 DEF CleanerTypeOK, cleanVars
<1> QED
  BY <1>1, <1>2 DEF CleanupNext, allVars

LEMMA CleanupInitTypes == CleanupInit => CleanupTypes
  BY InitType DEF CleanupInit, CleanupTypes, CleanerTypeOK, NoPass

\* The cleanup writes no Status and knows of no run.
LEMMA CleanEffect ==
    ASSUME DbTypeOK, CleanStep
    PROVE  /\ UNCHANGED <<status, run, request, queue, abandoned>>
           /\ \A j \in Jobs : filePath'[j] => filePath[j]
  BY DEF DbTypeOK, CleanStep, GrowOld, RemoveInput, DropStaging, SelectInputs, SelectTables, EndCleanup,
         CleanupDies, vars, dbVars, ghostVars, boundVars

LEMMA CleanupActiveInductive ==
    CleanupTypes /\ ActiveOwnerWrites /\ [CleanupNext]_allVars => ActiveOwnerWrites'
<1> SUFFICES ASSUME CleanupTypes, ActiveOwnerWrites, [CleanupNext]_allVars
             PROVE  ActiveOwnerWrites'
  OBVIOUS
<1>1. CASE CleanStep
  BY <1>1, CleanEffect DEF ActiveOwnerWrites, Owner, CleanupTypes, TypeOK
<1>2. CASE [Next]_vars
  BY <1>2, ActiveInductive DEF CleanupTypes
<1> QED
  BY <1>1, <1>2 DEF CleanupNext, allVars

\* A job shown as IMPORTING or PROCESSING is being run, or its run was lost, also while the
\* cleanup takes files and tables away under the runs (job_worker.py:78-100).
THEOREM ActiveIsOwnedBesideCleanup == CleanupSpec => []ActiveHasOwner
<1>1. CleanupInit => CleanupTypes /\ ActiveOwnerWrites
  BY CleanupInitTypes DEF CleanupInit, Init, ActiveOwnerWrites, Active
<1>2. CleanupTypes /\ ActiveOwnerWrites /\ [CleanupNext]_allVars
        => (CleanupTypes /\ ActiveOwnerWrites)'
  BY CleanupTypesInductive, CleanupActiveInductive
<1>3. ActiveOwnerWrites => ActiveHasOwner
  BY DEF ActiveOwnerWrites, ActiveHasOwner
<1> QED
  BY <1>1, <1>2, <1>3, PTL DEF CleanupSpec
-----------------------------------------------------------------------------
(* Rows, uploads, and how a job ends while it is being run.                *)

\* What a step of a run has to do with the end of its job.
EndEffect(t) ==
    /\ UNCHANGED <<request, filePath>>
    /\ \A u \in Threads \ {t} : run'[u] = run[u]
    /\ \A j \in Jobs : /\ j # Owner(t) => status'[j] = status[j]
                       /\ status[j] # "ABSENT" => status'[j] # "ABSENT"
    /\ \/ /\ run'[t].pc = "taken" /\ run'[t].job = Head(queue)
          /\ queue # <<>> /\ queue' = Tail(queue)
       \/ /\ UNCHANGED queue
          /\ run[t].pc # "idle"
          /\ run'[t].pc # "idle" => run'[t].job = Owner(t)
          /\ status'[Owner(t)] \in Terminal =>
                status[Owner(t)] \in Terminal \/ run'[t].pc \in {"idle", "log"}
          /\ run'[t].pc = "loaded" => run'[t].seen = status'[Owner(t)]
          /\ run'[t].pc = "claimed" =>
                /\ run[t].pc = "loaded"
                /\ run[t].seen # "IMPORTING" => status'[Owner(t)] = "IMPORTING"
          /\ run'[t].pc = "mapped" => run[t].pc = "claimed" /\ filePath[Owner(t)]
          /\ run'[t].pc \in Staged => run[t].pc \in {"mapped"} \cup Staged

LEMMA RunStepEnds ==
    ASSUME TypeOK, NEW t \in Threads, RunStep(t) PROVE EndEffect(t)
<1> USE DEF EndEffect, Working, Staged, BeforeMerge, At, Owner, Saved, Terminal, dbVars, ghostVars
<1>a. /\ RunTypeOK /\ DbTypeOK
      /\ status \in [Jobs -> Statuses]
      /\ run[t].pc # "idle" => run[t].job \in Jobs
  BY DEF TypeOK, DbTypeOK, RunTypeOK
<1>1. CASE Dequeue(t)
  <2>1. /\ run'[t].pc = "taken" /\ run'[t].job = Head(queue)
        /\ \A u \in Threads \ {t} : run'[u] = run[u]
    BY <1>a, <1>1 DEF Dequeue, RunTypeOK, NoRun
  <2> QED
    BY <1>a, <1>1, <2>1 DEF Dequeue
<1>2. CASE LoadJob(t)
  BY <1>a, <1>2, LoadedFacts DEF LoadJob
<1>3. CASE Claim(t)
  BY <1>a, <1>3, LoadedFacts DEF Claim
<1>4. CASE MapColumns(t)
  BY <1>a, <1>4, LoadedFacts DEF MapColumns, Expire
<1>5. CASE CreateStaging(t)
  BY <1>a, <1>5, GotoFacts DEF CreateStaging
<1>6. CASE CreateConflict(t)
  BY <1>a, <1>6, GotoFacts DEF CreateConflict
<1>7. CASE Import(t)
  BY <1>a, <1>7, LoadedFacts DEF Import
<1>8. CASE CheckAfterImport(t)
  BY <1>a, <1>8, GotoFacts DEF CheckAfterImport
<1>9. CASE SetProcessing(t)
  <2>1. /\ run'[t].pc = "filter" /\ run'[t].job = run[t].job
        /\ \A u \in Threads \ {t} : run'[u] = run[u]
    BY <1>a, <1>9 DEF SetProcessing, RunTypeOK, RunRecord
  <2> QED
    BY <1>a, <1>9, <2>1 DEF SetProcessing
<1>10. CASE FilterStep(t)
  <2>1. /\ run'[t].pc \in {"summarise", "filter"} /\ run'[t].job = run[t].job
        /\ \A u \in Threads \ {t} : run'[u] = run[u]
    BY <1>a, <1>10 DEF FilterStep, RunTypeOK, RunRecord
  <2> QED
    BY <1>a, <1>10, <2>1 DEF FilterStep
<1>11. CASE CancelDetected(t)
  BY <1>a, <1>11, GotoFacts DEF CancelDetected
<1>12. CASE ClearResults(t)
  BY <1>a, <1>12, LoadedFacts DEF ClearResults, Expire
<1>13. CASE InsertResults(t)
  BY <1>a, <1>13, LoadedFacts DEF InsertResults, Expire
<1>14. CASE ReadColumns(t)
  <2>1. /\ run'[t].pc = "merge" /\ run'[t].job = run[t].job
        /\ \A u \in Threads \ {t} : run'[u] = run[u]
    BY <1>a, <1>14 DEF ReadColumns, RunTypeOK, RunRecord
  <2> QED
    BY <1>a, <1>14, <2>1 DEF ReadColumns
<1>15. CASE Merge(t)
  BY <1>a, <1>15, LoadedFacts DEF Merge, MergeInto, Expire
<1>16. CASE MergePartly(t)
  BY <1>a, <1>16, GotoFacts DEF MergePartly, MergeInto
<1>17. CASE SkipMerge(t)
  BY <1>a, <1>17, GotoFacts DEF SkipMerge
<1>18. CASE WriteReports(t)
  BY <1>a, <1>18, LoadedFacts DEF WriteReports
<1>19. CASE Complete(t)
  BY <1>a, <1>19, LoadedFacts DEF Complete
<1>20. CASE LogCompleted(t)
  BY <1>a, <1>20, RetireFacts DEF LogCompleted
<1>21. CASE Raise(t)
  BY <1>a, <1>21, GotoFacts DEF Raise
<1>22. CASE PersistFailed(t)
  BY <1>a, <1>22, RetireFacts DEF PersistFailed
<1>23. CASE PersistCancelled(t)
  BY <1>a, <1>23, RetireFacts DEF PersistCancelled
<1>24. CASE PersistLost(t)
  BY <1>a, <1>24, RetireFacts DEF PersistLost
<1> QED
  BY <1>1, <1>2, <1>3, <1>4, <1>5, <1>6, <1>7, <1>8, <1>9, <1>10, <1>11, <1>12,
     <1>13, <1>14, <1>15, <1>16, <1>17, <1>18, <1>19, <1>20, <1>21, <1>22, <1>23, <1>24 DEF RunStep

\* No row disappears.
LEMMA RowsStay ==
    ASSUME CleanupTypes, [CleanupNext]_allVars
    PROVE  \A j \in Jobs : status[j] # "ABSENT" => status'[j] # "ABSENT"
<1>1. CASE CleanStep
  BY <1>1, CleanEffect DEF CleanupTypes, TypeOK
<1>2. ASSUME NEW h \in Handlers, HandlerStep(h)
      PROVE  \A j \in Jobs : status[j] # "ABSENT" => status'[j] # "ABSENT"
  BY <1>2, HandlerEffect DEF CleanupTypes
<1>3. ASSUME NEW t \in Threads, RunStep(t)
      PROVE  \A j \in Jobs : status[j] # "ABSENT" => status'[j] # "ABSENT"
  BY <1>3, RunStepEnds DEF CleanupTypes, EndEffect
<1>4. CASE Crash
  BY <1>4, CrashEffect DEF CleanupTypes
<1>5. CASE UNCHANGED vars
  BY <1>5 DEF vars, dbVars
<1> QED
  BY <1>1, <1>2, <1>3, <1>4, <1>5 DEF CleanupNext, Next, allVars

\* What a handler does to the requests, the queue and the files.
HandlerRows(h) ==
    /\ \A g \in Handlers \ {h} : request'[g] = request[g]
    /\ \/ /\ request'[h].pc = "idle"
          /\ \A j \in Jobs :
                filePath'[j] => filePath[j] \/ (request[h].pc = "save" /\ request[h].job = j)
       \/ /\ UNCHANGED filePath /\ request'[h].pc \in {"write", "submit"}
          /\ \/ status[request'[h].job] # "ABSENT"
             \/ request'[h].job = request[h].job /\ request[h].pc # "idle"
       \/ /\ UNCHANGED filePath /\ request'[h].pc = "save"
          /\ status[request'[h].job] = "ABSENT" /\ status'[request'[h].job] # "ABSENT"

LEMMA HandlerRowsEffect ==
    ASSUME TypeOK, NEW h \in Handlers, HandlerStep(h) PROVE HandlerRows(h)
<1> USE DEF HandlerRows, TypeOK, DbTypeOK, RequestTypeOK, RequestRecord, Respond, NoRequest, dbVars,
            ghostVars, boundVars
<1>1. ASSUME NEW j \in Jobs, UploadCreate(h, j) PROVE HandlerRows(h)
  BY <1>1 DEF UploadCreate, Accept
<1>2. ASSUME NEW j \in Jobs, NEW kind \in {"start", "retry", "cancel"},
             ReadAndCheck(h, kind, j)
      PROVE  HandlerRows(h)
  <2>1. status[j] # "ABSENT"
    BY <1>2 DEF ReadAndCheck, Startable, Retryable, Cancellable
  <2> QED
    BY <1>2, <2>1 DEF ReadAndCheck, Accept
<1>3. CASE UploadSave(h)
  BY <1>3 DEF UploadSave
<1>4. CASE UploadTooLarge(h)
  BY <1>4 DEF UploadTooLarge
<1>5. CASE StartWrite(h)
  BY <1>5 DEF StartWrite
<1>6. CASE RetryWrite(h)
  BY <1>6 DEF RetryWrite
<1>7. CASE Submit(h)
  BY <1>7 DEF Submit
<1>8. CASE CancelWrite(h)
  BY <1>8 DEF CancelWrite
<1>9. CASE HandlerFails(h)
  BY <1>9 DEF HandlerFails
<1> QED
  BY <1>1, <1>2, <1>3, <1>4, <1>5, <1>6, <1>7, <1>8, <1>9 DEF HandlerStep

\* Handlers put into the queue only what they hold.
LEMMA HandlerQueue ==
    ASSUME TypeOK, NEW h \in Handlers, HandlerStep(h)
    PROVE  \/ UNCHANGED queue
           \/ request[h].pc # "idle" /\ queue' = Append(queue, request[h].job)
  BY DEF HandlerStep, UploadCreate, ReadAndCheck, Accept, UploadSave, UploadTooLarge,
         StartWrite, RetryWrite, Submit, CancelWrite, HandlerFails

LEMMA RowsInductive ==
    CleanupTypes /\ RowsExist /\ [CleanupNext]_allVars => RowsExist'
<1> SUFFICES ASSUME CleanupTypes, RowsExist, [CleanupNext]_allVars PROVE RowsExist'
  OBVIOUS
<1> USE DEF RowsExist, Owner
<1>a. TypeOK /\ DbTypeOK /\ RunTypeOK /\ RequestTypeOK /\ queue \in Seq(Jobs)
  BY DEF CleanupTypes, TypeOK
<1>b. \A j \in Jobs : status[j] # "ABSENT" => status'[j] # "ABSENT"
  BY RowsStay
<1>c. TypeOK'
  BY CleanupTypesInductive DEF CleanupTypes
<1>1. CASE CleanStep
  BY <1>1, <1>a, CleanEffect
<1>2. ASSUME NEW h \in Handlers, HandlerStep(h) PROVE RowsExist'
  <2>1. HandlerRows(h) /\ UNCHANGED run
    BY <1>2, <1>a, HandlerRowsEffect, HandlerEffect
  <2>2. \A g \in Handlers : request'[g].pc # "idle" => status'[request'[g].job] # "ABSENT"
    BY <2>1, <1>a, <1>b, <1>c DEF HandlerRows, RequestTypeOK, TypeOK
  <2>3. \A i \in 1..Len(queue') : status'[queue'[i]] # "ABSENT"
    BY <1>2, <1>a, <1>b, HandlerQueue, AppendProperties DEF RequestTypeOK
  <2>4. \A t \in Threads : run'[t].pc # "idle" => status'[run'[t].job] # "ABSENT"
    BY <2>1, <1>a, <1>b DEF RunTypeOK
  <2>5. \A j \in Jobs : filePath'[j] => status'[j] # "ABSENT"
    BY <2>1, <1>a, <1>b DEF HandlerRows, RequestTypeOK
  <2> QED
    BY <2>2, <2>3, <2>4, <2>5
<1>3. ASSUME NEW t \in Threads, RunStep(t) PROVE RowsExist'
  <2>1. EndEffect(t)
    BY <1>3, <1>a, RunStepEnds
  <2>2. queue # <<>> => \A i \in 1..Len(Tail(queue)) : status'[Tail(queue)[i]] # "ABSENT"
    BY <1>a, <1>b, HeadTailProperties
  <2>3. queue # <<>> => Head(queue) \in Jobs /\ status[Head(queue)] # "ABSENT"
    BY <1>a, HeadTailProperties
  <2>4. \A i \in 1..Len(queue') : status'[queue'[i]] # "ABSENT"
    BY <2>1, <2>2, <1>a, <1>b DEF EndEffect
  <2>5. \A u \in Threads : run'[u].pc # "idle" => status'[run'[u].job] # "ABSENT"
    BY <2>1, <2>3, <1>a, <1>b DEF EndEffect, RunTypeOK
  <2> QED
    BY <2>1, <2>4, <2>5, <1>a, <1>b DEF EndEffect, RequestTypeOK
<1>4. CASE Crash
  BY <1>4 DEF Crash, NoRun, NoRequest, dbVars
<1>5. CASE UNCHANGED vars
  BY <1>5 DEF vars, dbVars
<1> QED
  BY <1>1, <1>2, <1>3, <1>4, <1>5 DEF CleanupNext, Next, allVars

LEMMA UploadedInductive ==
    CleanupTypes /\ RowsExist /\ UploadedOnce /\ [CleanupNext]_allVars => UploadedOnce'
<1> SUFFICES ASSUME CleanupTypes, RowsExist, UploadedOnce, [CleanupNext]_allVars
             PROVE  UploadedOnce'
  OBVIOUS
<1> USE DEF UploadedOnce, Saving, Owner
<1>a. TypeOK /\ DbTypeOK /\ RunTypeOK /\ RequestTypeOK
  BY DEF CleanupTypes, TypeOK
<1>c. RequestTypeOK' /\ RunTypeOK'
  BY CleanupTypesInductive DEF CleanupTypes, TypeOK
<1>1. CASE CleanStep
  BY <1>1, <1>a, CleanEffect DEF RequestTypeOK
<1>2. ASSUME NEW h \in Handlers, HandlerStep(h) PROVE UploadedOnce'
  <2>1. HandlerRows(h) /\ UNCHANGED run
    BY <1>2, <1>a, HandlerRowsEffect, HandlerEffect
  <2>2. CASE request'[h].pc # "save"
    BY <2>1, <2>2, <1>a DEF HandlerRows, RequestTypeOK
  <2>3. CASE request'[h].pc = "save"
    <3>1. /\ UNCHANGED filePath /\ status[request'[h].job] = "ABSENT"
          /\ request'[h].job \in Jobs
      BY <2>1, <2>3, <1>c DEF HandlerRows, RequestTypeOK
    <3>2. \A g \in Handlers \ {h} : request'[g] = request[g]
      BY <2>1 DEF HandlerRows
    <3>3. \A g \in Handlers \ {h} : request[g].pc = "save" => request[g].job # request'[h].job
      BY <3>1 DEF RowsExist
    <3>4. ~filePath[request'[h].job]
      BY <3>1 DEF RowsExist
    <3>5. \A t \in Threads : run[t].pc # "idle" => run[t].job # request'[h].job
      BY <3>1 DEF RowsExist
    <3>6. "idle" \notin {"mapped"} \cup Staged
      BY DEF Staged, BeforeMerge
    <3> QED
      BY <2>1, <3>1, <3>2, <3>3, <3>4, <3>5, <3>6
  <2> QED
    BY <2>2, <2>3
<1>3. ASSUME NEW t \in Threads, RunStep(t) PROVE UploadedOnce'
  <2>1. EndEffect(t)
    BY <1>3, <1>a, RunStepEnds
  <2>2. run'[t].pc \in {"mapped"} \cup Staged =>
           run'[t].job = Owner(t) /\ (filePath[Owner(t)] \/ run[t].pc \in {"mapped"} \cup Staged)
    BY <2>1 DEF EndEffect, Staged, BeforeMerge
  <2>3. run'[t].pc \in {"mapped"} \cup Staged => ~Saving(Owner(t))
    BY <2>2
  <2> QED
    BY <2>1, <2>2, <2>3 DEF EndEffect
<1>4. CASE Crash
  BY <1>4 DEF Crash, NoRun, NoRequest, dbVars, Staged, BeforeMerge
<1>5. CASE UNCHANGED vars
  BY <1>5 DEF vars, dbVars
<1> QED
  BY <1>1, <1>2, <1>3, <1>4, <1>5 DEF CleanupNext, Next, allVars

\* A handler ends a job only by refusing its upload, which leaves no file and none to come.
LEMMA HandlerEnds ==
    ASSUME TypeOK, UploadedOnce, NEW h \in Handlers, HandlerStep(h), NEW j \in Jobs,
           status'[j] \in Terminal
    PROVE  \/ status'[j] = status[j]
           \/ /\ request[h].pc = "save" /\ request[h].job = j
              /\ ~filePath'[j] /\ ~Saving(j)'
<1>1. CASE UploadTooLarge(h)
  <2>1. CASE request[h].job = j
    <3>1. ~filePath'[j] /\ request'[h].pc = "idle"
      BY <1>1, <2>1 DEF UploadTooLarge, Respond, NoRequest, UploadedOnce, TypeOK, RequestTypeOK
    <3>2. \A g \in Handlers \ {h} : request'[g] = request[g]
      BY <1>1 DEF UploadTooLarge, Respond, TypeOK, RequestTypeOK
    <3>3. request[h].pc = "save"
      BY <1>1 DEF UploadTooLarge
    <3>4. ~Saving(j)'
      BY <2>1, <3>1, <3>2, <3>3 DEF UploadedOnce, Saving
    <3> QED
      BY <2>1, <3>1, <3>3, <3>4
  <2>2. CASE request[h].job # j
    BY <1>1, <2>2 DEF UploadTooLarge, TypeOK, DbTypeOK
  <2> QED
    BY <2>1, <2>2
<1>2. CASE ~UploadTooLarge(h)
  BY <1>2 DEF HandlerStep, UploadCreate, ReadAndCheck, Accept, UploadSave, StartWrite, RetryWrite,
         Submit, CancelWrite, HandlerFails, Terminal, TypeOK, DbTypeOK, dbVars
<1> QED
  BY <1>1, <1>2

\* What is rejected stays so, and what a handler saves was not ended while it was run.
LEMMA RejectedStays ==
    ASSUME TypeOK, RowsExist, NEW h \in Handlers, HandlerStep(h), NEW j \in Jobs,
           status[j] # "ABSENT", Rejected(j)
    PROVE  Rejected(j)'
<1>1. HandlerRows(h)
  BY HandlerRowsEffect
<1> QED
  BY <1>1 DEF HandlerRows, Rejected, Saving, TypeOK, DbTypeOK, RequestTypeOK

-----------------------------------------------------------------------------
(* The pool of one thread.                                                 *)

OneThread == \A t, u \in Threads : t = u

LEMMA UnendedInductive ==
    ASSUME OneThread
    PROVE  /\ CleanupTypes /\ RowsExist /\ UploadedOnce /\ RunsOnlyUnended
           /\ [CleanupNext]_allVars
           => RunsOnlyUnended'
<1> SUFFICES ASSUME CleanupTypes, RowsExist, UploadedOnce, RunsOnlyUnended,
                    [CleanupNext]_allVars
             PROVE  RunsOnlyUnended'
  OBVIOUS
<1> USE DEF RunsOnlyUnended, Owner, At
<1>a. TypeOK /\ DbTypeOK /\ RunTypeOK /\ RequestTypeOK
  BY DEF CleanupTypes, TypeOK
<1>1. CASE CleanStep
  <2>1. \A j \in Jobs : Rejected(j) => Rejected(j)'
    BY <1>1, <1>a, CleanEffect DEF Rejected, Saving
  <2> QED
    BY <1>1, <1>a, <2>1, CleanEffect DEF RunTypeOK, Staged, BeforeMerge
<1>2. ASSUME NEW h \in Handlers, HandlerStep(h) PROVE RunsOnlyUnended'
  <2>1. UNCHANGED run
    BY <1>2, <1>a, HandlerEffect
  <2>2. SUFFICES ASSUME NEW t \in Threads, NEW j \in Jobs, run[t].job = j, run[t].pc # "idle",
                        status'[j] \in Terminal
                 PROVE  /\ run[t].pc \notin {"mapped"} \cup Staged
                        /\ run[t].pc = "loaded" /\ run[t].seen = "IMPORTING" => Rejected(j)'
                        /\ run[t].pc = "claimed" => Rejected(j)'
    BY <2>1, <1>a DEF RunTypeOK, Staged, BeforeMerge
  <2>3. CASE status'[j] = status[j]
    BY <1>2, <1>a, <2>2, <2>3, RejectedStays DEF RowsExist
  <2>4. CASE status'[j] # status[j]
    <3>1. /\ request[h].pc = "save" /\ request[h].job = j
          /\ ~filePath'[j] /\ ~Saving(j)'
      BY <1>2, <1>a, <2>2, <2>4, HandlerEnds
    <3>2. run[t].pc \notin {"mapped"} \cup Staged
      BY <2>2, <3>1 DEF UploadedOnce, Saving
    <3> QED
      BY <3>1, <3>2 DEF Rejected
  <2> QED
    BY <2>3, <2>4
<1>3. ASSUME NEW t \in Threads, RunStep(t) PROVE RunsOnlyUnended'
  <2>1. EndEffect(t)
    BY <1>3, <1>a, RunStepEnds
  <2>2. PICK o : o = run[t].job
    OBVIOUS
  <2>4. \A u \in Threads : u = t
    BY DEF OneThread
  <2>3. SUFFICES ASSUME NEW p, p = run'[t].job
                 PROVE  /\ run'[t].pc = "loaded" /\ run'[t].seen = "IMPORTING"
                             => status'[p] \notin Terminal \/ Rejected(p)'
                        /\ run'[t].pc = "claimed" => status'[p] \notin Terminal \/ Rejected(p)'
                        /\ run'[t].pc \in {"mapped"} \cup Staged => status'[p] \notin Terminal
    BY <2>4
  <2>5. \A j : Rejected(j) => Rejected(j)'
    BY <2>1 DEF EndEffect, Rejected, Saving
  <2>6. CASE run'[t].pc = "taken"
    BY <2>6 DEF Staged, BeforeMerge
  <2>7. CASE run'[t].pc # "taken" /\ run'[t].pc \in {"loaded", "claimed", "mapped"} \cup Staged
    <3>1. /\ run[t].pc # "idle"
          /\ run'[t].job = o
          /\ status'[o] \in Terminal => status[o] \in Terminal
      BY <2>1, <2>2, <2>7 DEF EndEffect, Staged, BeforeMerge
    <3>2. CASE run'[t].pc = "loaded"
      <4>1. run'[t].seen = status'[o]
        BY <2>1, <2>2, <2>7, <3>2 DEF EndEffect
      <4>2. "IMPORTING" \notin Terminal
        BY DEF Terminal
      <4> QED
        BY <4>1, <4>2, <2>3, <3>1, <3>2 DEF Staged, BeforeMerge
    <3>3. CASE run'[t].pc = "claimed"
      <4>1. /\ run[t].pc = "loaded"
            /\ run[t].seen # "IMPORTING" => status'[o] = "IMPORTING"
        BY <2>1, <2>2, <2>7, <3>3 DEF EndEffect
      <4>2. run[t].seen = "IMPORTING" => status[o] \notin Terminal \/ Rejected(o)
        BY <4>1, <2>2
      <4>3. status'[o] \notin Terminal \/ Rejected(o)'
        BY <4>1, <4>2, <3>1, <2>5 DEF Terminal
      <4> QED
        BY <4>3, <3>1, <3>3, <2>3 DEF Staged, BeforeMerge
    <3>4. CASE run'[t].pc = "mapped"
      <4>1. run[t].pc = "claimed" /\ filePath[o]
        BY <2>1, <2>2, <2>7, <3>4 DEF EndEffect
      <4>2. status[o] \notin Terminal
        BY <4>1, <2>2 DEF Rejected
      <4> QED
        BY <4>2, <3>1, <3>4, <2>3
    <3>5. CASE run'[t].pc \in Staged
      <4>1. run[t].pc \in {"mapped"} \cup Staged
        BY <2>1, <2>7, <3>5 DEF EndEffect
      <4>2. status[o] \notin Terminal
        BY <4>1, <2>2
      <4> QED
        BY <4>2, <3>1, <3>5, <2>3 DEF Staged, BeforeMerge
    <3> QED
      BY <2>7, <3>2, <3>3, <3>4, <3>5
  <2> QED
    BY <2>6, <2>7
<1>4. CASE Crash
  BY <1>4 DEF Crash, NoRun, Staged, BeforeMerge
<1>5. CASE UNCHANGED vars
  BY <1>5 DEF vars, dbVars, Rejected, Saving
<1> QED
  BY <1>1, <1>2, <1>3, <1>4, <1>5 DEF CleanupNext, Next, allVars

\* A step of the backend drops no table.
LEMMA BackendKeepsTables ==
    ASSUME TypeOK, [Next]_vars
    PROVE  \A j \in Jobs : staging[j] => staging'[j]
<1>1. ASSUME NEW t \in Threads, RunStep(t) PROVE \A j \in Jobs : staging[j] => staging'[j]
  BY <1>1, RunStepEffect DEF RunEffect, TableEffect, TypeOK, DbTypeOK
<1> QED
  BY <1>1, HandlerEffect, CrashEffect DEF Next, vars, dbVars

\* A step of the backend brings no run into the stretch that works on a table that is there.
LEMMA NobodyEnters ==
    ASSUME TypeOK, [Next]_vars, NEW j \in Jobs, staging[j],
           \A t \in Threads : run[t].job = j => run[t].pc \notin Staged
    PROVE  \A t \in Threads : run'[t].job = j => run'[t].pc \notin Staged
<1>1. ASSUME NEW t \in Threads, RunStep(t)
      PROVE  \A u \in Threads : run'[u].job = j => run'[u].pc \notin Staged
  <2>1. /\ \A u \in Threads \ {t} : run'[u] = run[u]
        /\ TableEffect(t)
    BY <1>1, RunStepEffect DEF RunEffect
  <2>2. run'[t].job = j => run'[t].pc \notin Staged
    BY <2>1 DEF TableEffect, Owner, Held, Staged, BeforeMerge
  <2> QED
    BY <2>1, <2>2
<1>2. CASE Crash
  BY <1>2, CrashEffect DEF Staged, BeforeMerge
<1>3. ASSUME NEW h \in Handlers, HandlerStep(h)
      PROVE  \A u \in Threads : run'[u].job = j => run'[u].pc \notin Staged
  BY <1>3, HandlerEffect
<1> QED
  BY <1>1, <1>2, <1>3 DEF Next, vars

LEMMA LeftoverInductive ==
    CleanupTypes /\ RunsOnlyUnended /\ ListedIsLeftover /\ [CleanupNext]_allVars
        => ListedIsLeftover'
<1> SUFFICES ASSUME CleanupTypes, RunsOnlyUnended, ListedIsLeftover, [CleanupNext]_allVars
             PROVE  ListedIsLeftover'
  OBVIOUS
<1> USE DEF ListedIsLeftover, Owner
<1>a. TypeOK /\ CleanerTypeOK /\ DbTypeOK
  BY DEF CleanupTypes, TypeOK
<1>1. CASE [Next]_vars /\ UNCHANGED cleanVars
  BY <1>1, <1>a, BackendKeepsTables, NobodyEnters DEF cleanVars, CleanerTypeOK
<1>2. CASE SelectTables
  <2>1. UNCHANGED <<staging, run>>
    BY <1>2 DEF SelectTables, vars, dbVars
  <2>2. ASSUME NEW j \in Jobs, status[j] \in Terminal, NEW t \in Threads, run[t].job = j
        PROVE  run[t].pc \notin Staged
    BY <2>2 DEF RunsOnlyUnended
  <2> QED
    BY <1>2, <2>1, <2>2 DEF SelectTables, TerminalJobs
<1>3. ASSUME NEW i \in Jobs, DropStaging(i) PROVE ListedIsLeftover'
  BY <1>3, <1>a DEF DropStaging, CleanerTypeOK, DbTypeOK
<1>4. ASSUME NEW i \in Jobs, GrowOld(i) \/ RemoveInput(i) PROVE ListedIsLeftover'
  BY <1>4, <1>a DEF GrowOld, RemoveInput, CleanerTypeOK, vars, dbVars
<1>5. CASE SelectInputs \/ EndCleanup \/ CleanupDies
  BY <1>5 DEF SelectInputs, EndCleanup, CleanupDies, NoPass
<1> QED
  BY <1>1, <1>2, <1>3, <1>4, <1>5 DEF CleanupNext, CleanStep, allVars

LEMMA CleanupInvInit == CleanupInit => CleanupInv
<1> SUFFICES ASSUME CleanupInit PROVE CleanupInv
  OBVIOUS
<1>1. CleanupTypes
  BY CleanupInitTypes
<1>2. RowsExist /\ UploadedOnce /\ RunsOnlyUnended
  BY DEF CleanupInit, Init, NoRun, NoRequest, RowsExist, UploadedOnce, RunsOnlyUnended, At, Staged,
         BeforeMerge
<1>3. ListedIsLeftover
  BY DEF CleanupInit, NoPass, ListedIsLeftover
<1> QED
  BY <1>1, <1>2, <1>3 DEF CleanupInv, CleanupTypes

\* With one thread the cleanup's list is right about every table that was there when the job
\* was listed, up to the drop, whatever the backend does meanwhile (cleanup_service.py:65-90).
THEOREM ListStaysRight == ASSUME OneThread PROVE CleanupSpec => []CleanupInv
<1>1. CleanupInv /\ [CleanupNext]_allVars => CleanupInv'
  BY CleanupTypesInductive, RowsInductive, UploadedInductive, UnendedInductive, LeftoverInductive
     DEF CleanupInv, CleanupTypes
<1> QED
  BY <1>1, CleanupInvInit, PTL DEF CleanupSpec

\* With the default pool of one thread no run is at work on a table that the cleanup drops and
\* that was there when it listed the job (cleanup_service.py:80-90, csv_importer.py:79).
THEOREM LeftoverDropSafe == ASSUME OneThread PROVE CleanupSpec => LeftoverDropIsSafe
<1> DEFINE Safe == \A j \in Jobs :
                     staging[j] /\ ~staging'[j] /\ j \in cleaner.had =>
                         \A t \in Threads : Owner(t) = j => run[t].pc \notin Staged
<1>1. CleanupInv /\ [CleanupNext]_allVars => [Safe]_allVars
  <2> SUFFICES ASSUME CleanupInv, CleanupNext, NEW j \in Jobs, staging[j], ~staging'[j],
                      j \in cleaner.had, NEW t \in Threads, Owner(t) = j
               PROVE  run[t].pc \notin Staged
    OBVIOUS
  <2>1. ~Next
    BY BackendKeepsTables DEF CleanupInv
  <2>2. DropStaging(j)
    BY <2>1 DEF CleanupInv, TypeOK, DbTypeOK, CleanupNext, CleanStep, GrowOld, RemoveInput,
                DropStaging, SelectInputs, SelectTables, EndCleanup, CleanupDies, vars, dbVars
  <2> QED
    BY <2>2 DEF DropStaging, CleanupInv, ListedIsLeftover
<1>2. CleanupSpec => []CleanupInv
  BY ListStaysRight
<1> QED
  BY <1>1, <1>2, PTL DEF CleanupSpec, LeftoverDropIsSafe
=============================================================================
