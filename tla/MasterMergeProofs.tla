-------------------------- MODULE MasterMergeProofs --------------------------
(***************************************************************************)
(* Proofs about MasterMerge, for every set of jobs, addresses and mergers, *)
(* whatever rows the jobs keep.                                            *)
(***************************************************************************)
EXTENDS MasterMerge, FoldFacts, SequenceTheorems, FiniteSetTheorems, TLAPS

-----------------------------------------------------------------------------
(* Types.                                                                  *)

LEMMA KeptType ==
    ASSUME TypeOK, NEW j \in Jobs
    PROVE  /\ kept[j] \in Seq(Addresses)
           /\ Kept(j) \subseteq Addresses
BY MergeAssumption DEF TypeOK, Kept

LEMMA JobType ==
    ASSUME TypeOK, NEW m \in Mergers, merger[m].pc # "idle"
    PROVE  Job(m) \in Jobs
BY DEF TypeOK, Job

LEMMA NoMergeType == NoMerge \in MergeRecord
BY DEF NoMerge, MergeRecord

\* Only records that are merges are put into merger.
LEMMA MergerUpdate ==
    ASSUME TypeOK, NEW m \in Mergers, NEW r \in MergeRecord,
           merger' = [merger EXCEPT ![m] = r],
           r.pc # "idle" => r.job \in Jobs
    PROVE  /\ merger' \in [Mergers -> MergeRecord]
           /\ \A n \in Mergers : merger'[n].pc # "idle" => merger'[n].job \in Jobs
BY DEF TypeOK

LEMMA InitType == Init => TypeOK
BY MergeAssumption, NoMergeType DEF Init, TypeOK, NoMerge

\* What a step of a merge makes of merger.
LEMMA MergerType ==
    ASSUME TypeOK, NEW m \in Mergers, MergeStep(m)
    PROVE  /\ merger' \in [Mergers -> MergeRecord]
           /\ \A n \in Mergers : merger'[n].pc # "idle" => merger'[n].job \in Jobs
<1>a. merger[m] \in MergeRecord /\ merger \in [Mergers -> MergeRecord]
  BY DEF TypeOK
<1>1. ASSUME NEW j \in Jobs, WorkerBegins(m, j) \/ AdminBegins(m, j)
      PROVE  /\ merger' \in [Mergers -> MergeRecord]
             /\ \A n \in Mergers : merger'[n].pc # "idle" => merger'[n].job \in Jobs
  <2>1. PICK by \in {"worker", "admin"} : Begin(m, j, by)
    BY <1>1 DEF WorkerBegins, AdminBegins
  <2> DEFINE r == [NoMerge EXCEPT !.pc = "read", !.job = j, !.by = by]
  <2>2. r \in MergeRecord /\ r.job = j
    BY DEF NoMerge, MergeRecord
  <2>3. merger' = [merger EXCEPT ![m] = r]
    BY <2>1 DEF Begin
  <2> HIDE DEF r
  <2> QED
    BY <2>2, <2>3, MergerUpdate
<1>2. CASE ReadMissing(m)
  <2> DEFINE S == Kept(Job(m)) \ Master
             r == [merger[m] EXCEPT !.pc = "insert", !.missing = S]
  <2>1. S \subseteq Addresses
    BY <1>2, JobType, KeptType DEF ReadMissing, At
  <2>2. merger' = [merger EXCEPT ![m] = r]
    BY <1>a, <1>2 DEF ReadMissing, MergeRecord
  <2> HIDE DEF S
  <2>3. r \in MergeRecord /\ r.job = merger[m].job
    BY <1>a, <2>1 DEF MergeRecord
  <2> HIDE DEF r
  <2> QED
    BY <1>2, <2>2, <2>3, JobType, MergerUpdate DEF ReadMissing, At, Job
<1>3. ASSUME NEW a \in Addresses, InsertRow(m, a)
      PROVE  /\ merger' \in [Mergers -> MergeRecord]
             /\ \A n \in Mergers : merger'[n].pc # "idle" => merger'[n].job \in Jobs
  <2> DEFINE r == [merger[m] EXCEPT !.missing = @ \ {a}, !.locked = @ \cup {a}]
  <2>1. merger' = [merger EXCEPT ![m] = r]
    BY <1>a, <1>3 DEF InsertRow, MergeRecord
  <2>2. r \in MergeRecord /\ r.job = merger[m].job
    BY <1>a DEF MergeRecord
  <2> HIDE DEF r
  <2> QED
    BY <1>3, <2>1, <2>2, JobType, MergerUpdate DEF InsertRow, At, Job
<1>4. CASE DuplicateKey(m) \/ MergeFails(m) \/ RecordFile(m)
  <2>1. merger' = [merger EXCEPT ![m] = NoMerge]
    BY <1>4 DEF DuplicateKey, MergeFails, GiveUp, RecordFile
  <2> QED
    BY <2>1, NoMergeType, MergerUpdate DEF NoMerge
<1>5. CASE CommitMaster(m)
  <2>1. PICK i, d : merger' = [merger EXCEPT ![m] =
                      [@ EXCEPT !.pc = "other", !.locked = {}, !.mine = merger[m].locked,
                                  !.added = i, !.duplicate = d]]
                    /\ i \in Nat /\ d \in Nat
    <3>1. Cardinality(merger[m].locked) \in Nat
      BY <1>a, MergeAssumption, FS_Subset, FS_CardinalityType DEF MergeRecord
    <3> DEFINE F == {k \in DOMAIN kept[Job(m)] :
                      kept[Job(m)][k] \in Master \cup merger[m].locked}
    <3>2. Cardinality(F) \in Nat
      <4>0. kept[Job(m)] \in Seq(Addresses)
        BY <1>5, JobType, KeptType DEF CommitMaster, At
      <4>1. IsFiniteSet(1..Len(kept[Job(m)]))
        <5>1. Len(kept[Job(m)]) \in Int
          BY <4>0, LenProperties
        <5> QED
          BY <5>1, FS_Interval
      <4>2. F \subseteq 1..Len(kept[Job(m)])
        BY <4>0, LenProperties
      <4> QED
        BY <4>1, <4>2, FS_Subset, FS_CardinalityType
    <3> DEFINE inserted == Cardinality(merger[m].locked)
               found    == Cardinality(F)
    <3>3. merger' = [merger EXCEPT ![m] =
                       [@ EXCEPT !.pc = "other", !.locked = {}, !.mine = merger[m].locked,
                                 !.added = inserted,
                                 !.duplicate = IF found < inserted THEN 0 ELSE found - inserted]]
      BY <1>5 DEF CommitMaster
    <3>4. inserted \in Nat /\ found \in Nat
      BY <3>1, <3>2
    <3> HIDE DEF inserted, found
    <3>5. (IF found < inserted THEN 0 ELSE found - inserted) \in Nat
      BY <3>4
    <3> QED
      BY <3>3, <3>4, <3>5
  <2> DEFINE r == [merger[m] EXCEPT !.pc = "other", !.locked = {}, !.mine = merger[m].locked,
                              !.added = i, !.duplicate = d]
  <2>2. r \in MergeRecord /\ r.job = merger[m].job
    BY <1>a, <2>1 DEF MergeRecord
  <2>3. merger' = [merger EXCEPT ![m] = r]
    BY <2>1
  <2> HIDE DEF r
  <2> QED
    BY <1>5, <2>2, <2>3, JobType, MergerUpdate DEF CommitMaster, At, Job
<1>6. CASE CopyOther(m)
  <2> DEFINE r == [merger[m] EXCEPT !.pc = "record"]
  <2>1. r \in MergeRecord /\ r.job = merger[m].job
    BY <1>a DEF MergeRecord
  <2>2. merger' = [merger EXCEPT ![m] = r]
    BY <1>a, <1>6 DEF CopyOther, MergeRecord
  <2> HIDE DEF r
  <2> QED
    BY <1>6, <2>1, <2>2, JobType, MergerUpdate DEF CopyOther, At, Job
<1> QED
  BY <1>1, <1>2, <1>3, <1>4, <1>5, <1>6 DEF MergeStep

LEMMA MergeStepType ==
    ASSUME TypeOK, NEW m \in Mergers, MergeStep(m)
    PROVE  TypeOK'
<1> USE JobType DEF At
<1>a. merger[m] \in MergeRecord
  BY DEF TypeOK
<1>b. /\ merger' \in [Mergers -> MergeRecord]
      /\ \A n \in Mergers : merger'[n].pc # "idle" => merger'[n].job \in Jobs
  BY MergerType
<1>1. ASSUME NEW j \in Jobs, WorkerBegins(m, j) PROVE TypeOK'
  BY <1>b, <1>1 DEF TypeOK, WorkerBegins
<1>8. ASSUME NEW j \in Jobs, AdminBegins(m, j) PROVE TypeOK'
  BY <1>b, <1>8 DEF TypeOK, AdminBegins
<1>2. CASE ReadMissing(m)
  BY <1>b, <1>2 DEF TypeOK, ReadMissing
<1>3. ASSUME NEW a \in Addresses, InsertRow(m, a) PROVE TypeOK'
  BY <1>b, <1>3 DEF TypeOK, InsertRow
<1>4. CASE DuplicateKey(m) \/ MergeFails(m)
  <2>1. GiveUp(m) /\ Job(m) \in Jobs
    BY <1>4 DEF DuplicateKey, MergeFails
  <2>2. merger[m].mine \subseteq Addresses
    BY <1>a DEF MergeRecord
  <2> QED
    BY <1>b, <2>1, <2>2 DEF TypeOK, GiveUp
<1>5. CASE CommitMaster(m)
  <2>1. source' \in [Addresses -> Jobs \cup {NoJob}]
    BY <1>5 DEF TypeOK, CommitMaster
  <2> QED
    BY <1>b, <1>5, <2>1 DEF TypeOK, CommitMaster
<1>6. CASE CopyOther(m)
  <2>1. Job(m) \in Jobs /\ OtherRows[Job(m)] \in Nat
    BY <1>6, MergeAssumption DEF CopyOther
  <2> DEFINE n == otherMaster[Job(m)] + OtherRows[Job(m)]
  <2>2. n \in Nat
    BY <2>1 DEF TypeOK
  <2>3. otherMaster' = [otherMaster EXCEPT ![Job(m)] = n]
    BY <1>6 DEF CopyOther
  <2> HIDE DEF n
  <2>4. otherMaster' \in [Jobs -> Nat]
    BY <2>1, <2>2, <2>3 DEF TypeOK
  <2> QED
    BY <1>b, <1>6, <2>4 DEF TypeOK, CopyOther
<1>7. CASE RecordFile(m)
  <2> DEFINE e == [job |-> Job(m), added |-> merger[m].added,
                   duplicate |-> merger[m].duplicate, deleted |-> FALSE]
  <2>1. e \in FileRecord
    BY <1>a, <1>7 DEF FileRecord, RecordFile, MergeRecord
  <2>2. files' = Append(files, e)
    BY <1>7 DEF RecordFile
  <2> HIDE DEF e
  <2>3. files' \in Seq(FileRecord)
    BY <2>1, <2>2, AppendProperties DEF TypeOK
  <2> QED
    BY <1>b, <1>7, <2>3 DEF TypeOK, RecordFile
<1> QED
  BY <1>1, <1>2, <1>3, <1>4, <1>5, <1>6, <1>7, <1>8 DEF MergeStep

LEMMA TypeInductive ==
    ASSUME TypeOK, [Next]_vars
    PROVE  TypeOK'
<1>1. ASSUME NEW m \in Mergers, MergeStep(m) PROVE TypeOK'
  BY <1>1, MergeStepType
<1>2. ASSUME NEW j \in Jobs, NEW outcome \in {"completed", "failed"}, RunEnds(j, outcome)
      PROVE  TypeOK'
  BY <1>2 DEF TypeOK, RunEnds
<1>3. ASSUME NEW i \in DOMAIN files, DeleteFile(i) PROVE TypeOK'
  <2> DEFINE e == [files[i] EXCEPT !.deleted = TRUE]
  <2>1. files \in Seq(FileRecord) /\ files[i] \in FileRecord
    <3>1. files \in Seq(FileRecord) /\ i \in 1..Len(files)
      BY LenProperties DEF TypeOK
    <3> QED
      BY <3>1, ElementOfSeq
  <2>2. e \in FileRecord
    BY <2>1 DEF FileRecord
  <2>3. files' = [files EXCEPT ![i] = e]
    BY <1>3 DEF DeleteFile
  <2> HIDE DEF e
  <2>4. files' \in Seq(FileRecord)
    <3>1. i \in 1..Len(files)
      BY <2>1, LenProperties
    <3> QED
      BY <2>1, <2>2, <2>3, <3>1, ExceptSeq
  <2> QED
    BY <1>3, <2>4 DEF TypeOK, DeleteFile
<1>4. CASE Crash
  <2>1. merger' \in [Mergers -> MergeRecord]
    BY <1>4, NoMergeType DEF Crash
  <2>2. \A m \in Mergers : merger[m].mine \subseteq Addresses
    BY DEF TypeOK, MergeRecord
  <2>3. unlisted' \subseteq Addresses
    BY <1>4, <2>2 DEF Crash, TypeOK
  <2>4. \A m \in Mergers : merger'[m].pc = "idle"
    BY <1>4 DEF Crash, NoMerge
  <2>5. crashes' \in Nat /\ UNCHANGED <<kept, state, source, otherMaster, files, requests>>
    BY <1>4 DEF Crash, TypeOK
  <2> QED
    BY <2>1, <2>3, <2>4, <2>5 DEF TypeOK
<1>5. CASE UNCHANGED vars
  BY <1>5 DEF TypeOK, vars
<1> QED
  BY <1>1, <1>2, <1>3, <1>4, <1>5 DEF Next

-----------------------------------------------------------------------------
(* The index and the inserts.                                              *)

\* LocksDisjoint, two mergers at a time.
LEMMA LocksPairwise ==
    LocksDisjoint <=>
        \A m \in Mergers : /\ merger[m].locked \cap Master = {}
                           /\ \A n \in Mergers \ {m} : merger[n].locked \cap merger[m].locked = {}
BY DEF LocksDisjoint, LockedByOthers

LEMMA LocksPairwiseNext ==
    LocksDisjoint' <=>
        \A m \in Mergers : /\ merger'[m].locked \cap Master' = {}
                           /\ \A n \in Mergers \ {m} : merger'[n].locked \cap merger'[m].locked = {}
BY DEF LocksDisjoint, LockedByOthers

\* A step that locks nothing new and leaves Master alone.
LEMMA LocksShrink ==
    ASSUME LocksDisjoint, UNCHANGED source,
           \A n \in Mergers : merger'[n].locked \subseteq merger[n].locked
    PROVE  LocksDisjoint'
<1>1. Master' = Master
  BY DEF Master
<1> QED
  BY <1>1, LocksPairwise, LocksPairwiseNext

\* The commit of an insert moves its locked rows into Master.
LEMMA CommitEnters ==
    ASSUME TypeOK, NEW m \in Mergers, CommitMaster(m)
    PROVE  /\ Master' = Master \cup merger[m].locked
           /\ merger'[m].locked = {} /\ merger'[m].missing = {}
           /\ merger'[m].pc = "other" /\ merger'[m].job = merger[m].job
           /\ \A n \in Mergers \ {m} : merger'[n] = merger[n]
<1>1. merger[m] \in MergeRecord /\ merger \in [Mergers -> MergeRecord]
  BY DEF TypeOK
<1>2. PICK i, d : merger' = [merger EXCEPT ![m] =
                    [@ EXCEPT !.pc = "other", !.locked = {}, !.mine = merger[m].locked,
                              !.added = i, !.duplicate = d]]
  BY DEF CommitMaster
<1>3. /\ merger'[m].locked = {} /\ merger'[m].missing = merger[m].missing
      /\ merger'[m].pc = "other" /\ merger'[m].job = merger[m].job
      /\ \A n \in Mergers \ {m} : merger'[n] = merger[n]
  BY <1>1, <1>2 DEF MergeRecord
<1>4. source' = [a \in Addresses |-> IF a \in merger[m].locked THEN Job(m) ELSE source[a]]
  BY DEF CommitMaster
<1>5. Job(m) # NoJob /\ merger[m].locked \subseteq Addresses /\ merger[m].missing = {}
  BY <1>1, JobType, MergeAssumption DEF CommitMaster, At, MergeRecord
<1> QED
  BY <1>3, <1>4, <1>5 DEF Master

LEMMA LocksInductive ==
    ASSUME TypeOK, LocksDisjoint, [Next]_vars
    PROVE  LocksDisjoint'
<1>a. merger \in [Mergers -> MergeRecord]
  BY DEF TypeOK
<1>1. ASSUME NEW m \in Mergers, MergeStep(m) PROVE LocksDisjoint'
  <2>1. ASSUME NEW j \in Jobs, WorkerBegins(m, j) \/ AdminBegins(m, j) PROVE LocksDisjoint'
    BY <1>a, <2>1, LocksShrink DEF WorkerBegins, AdminBegins, Begin, NoMerge
  <2>2. CASE ReadMissing(m)
    BY <1>a, <2>2, LocksShrink DEF ReadMissing, MergeRecord
  <2>3. ASSUME NEW a \in Addresses, InsertRow(m, a) PROVE LocksDisjoint'
    <3>1. /\ merger'[m].locked = merger[m].locked \cup {a}
          /\ \A n \in Mergers \ {m} : merger'[n] = merger[n]
      BY <1>a, <2>3 DEF InsertRow, MergeRecord
    <3>2. Master' = Master /\ a \notin Master /\ \A n \in Mergers \ {m} : a \notin merger[n].locked
      BY <2>3 DEF InsertRow, Master, LockedByOthers
    <3> QED
      BY <3>1, <3>2, LocksPairwise, LocksPairwiseNext
  <2>4. CASE DuplicateKey(m) \/ MergeFails(m) \/ RecordFile(m)
    BY <1>a, <2>4, LocksShrink DEF DuplicateKey, MergeFails, GiveUp, RecordFile, NoMerge
  <2>5. CASE CommitMaster(m)
    BY <2>5, CommitEnters, LocksPairwise, LocksPairwiseNext
  <2>6. CASE CopyOther(m)
    BY <1>a, <2>6, LocksShrink DEF CopyOther, MergeRecord
  <2> QED
    BY <1>1, <2>1, <2>2, <2>3, <2>4, <2>5, <2>6 DEF MergeStep
<1>2. ASSUME NEW j \in Jobs, NEW outcome \in {"completed", "failed"}, RunEnds(j, outcome)
      PROVE  LocksDisjoint'
  BY <1>2, LocksShrink DEF RunEnds
<1>3. ASSUME NEW i \in DOMAIN files, DeleteFile(i) PROVE LocksDisjoint'
  BY <1>3, LocksShrink DEF DeleteFile
<1>4. CASE Crash
  BY <1>4, LocksShrink DEF Crash, NoMerge
<1>5. CASE UNCHANGED vars
  BY <1>5, LocksShrink DEF vars
<1> QED
  BY <1>1, <1>2, <1>3, <1>4, <1>5 DEF Next
-----------------------------------------------------------------------------
(* Nothing is forgotten.                                                   *)

\* A merger that does not move forgets nothing while Master only grows.
LEMMA StandingMerger ==
    ASSUME NothingForgotten, NEW n \in Mergers,
           merger'[n] = merger[n], kept' = kept, Master \subseteq Master'
    PROVE  IF At(n, "insert")'
           THEN /\ merger'[n].missing \cup merger'[n].locked \subseteq Kept(Job(n))'
                /\ Kept(Job(n))' \subseteq Master' \cup merger'[n].missing \cup merger'[n].locked
           ELSE merger'[n].missing = {} /\ merger'[n].locked = {}
BY DEF NothingForgotten, At, Kept, Job

\* A step of m alone keeps NothingForgotten if it is kept for m.
LEMMA OthersForgetNothing ==
    ASSUME NothingForgotten, NEW m \in Mergers,
           \A n \in Mergers \ {m} : merger'[n] = merger[n],
           kept' = kept, Master \subseteq Master',
           IF merger'[m].pc = "insert"
           THEN /\ merger'[m].missing \cup merger'[m].locked \subseteq Kept(Job(m))'
                /\ Kept(Job(m))' \subseteq Master' \cup merger'[m].missing \cup merger'[m].locked
           ELSE merger'[m].missing = {} /\ merger'[m].locked = {}
    PROVE  NothingForgotten'
<1>1. ASSUME NEW n \in Mergers
      PROVE IF At(n, "insert")'
            THEN /\ merger'[n].missing \cup merger'[n].locked \subseteq Kept(Job(n))'
                 /\ Kept(Job(n))' \subseteq Master' \cup merger'[n].missing \cup merger'[n].locked
            ELSE merger'[n].missing = {} /\ merger'[n].locked = {}
  <2>1. CASE n = m
    BY <2>1 DEF At
  <2>2. CASE n # m
    BY <2>2, StandingMerger
  <2> QED
    BY <2>1, <2>2
<1> QED
  BY <1>1 DEF NothingForgotten

LEMMA ForgottenInductive ==
    ASSUME TypeOK, NothingForgotten, [Next]_vars
    PROVE  NothingForgotten'
<1>a. merger \in [Mergers -> MergeRecord]
  BY DEF TypeOK
<1>b. ASSUME UNCHANGED source PROVE Master' = Master
  BY <1>b DEF Master
<1>1. ASSUME NEW m \in Mergers, MergeStep(m) PROVE NothingForgotten'
  <2>1. ASSUME NEW j \in Jobs, WorkerBegins(m, j) \/ AdminBegins(m, j)
        PROVE  NothingForgotten'
    <3>1. /\ merger'[m].pc = "read" /\ merger'[m].missing = {} /\ merger'[m].locked = {}
          /\ \A n \in Mergers \ {m} : merger'[n] = merger[n]
      BY <1>a, <2>1 DEF WorkerBegins, AdminBegins, Begin, NoMerge
    <3>2. UNCHANGED <<kept, source>>
      BY <2>1 DEF WorkerBegins, AdminBegins
    <3> QED
      BY <1>b, <3>1, <3>2, OthersForgetNothing
  <2>2. CASE ReadMissing(m)
    <3>1. /\ merger'[m].pc = "insert" /\ merger'[m].job = merger[m].job
          /\ merger'[m].missing = Kept(Job(m)) \ Master
          /\ merger'[m].locked = merger[m].locked
          /\ \A n \in Mergers \ {m} : merger'[n] = merger[n]
      BY <1>a, <2>2 DEF ReadMissing, MergeRecord
    <3>2. merger[m].locked = {}
      BY <2>2 DEF ReadMissing, NothingForgotten, At
    <3>3. UNCHANGED <<kept, source>>
      BY <2>2 DEF ReadMissing
    <3>4. Kept(Job(m))' = Kept(Job(m))
      BY <3>1, <3>3 DEF Kept, Job
    <3> QED
      BY <1>b, <3>1, <3>2, <3>3, <3>4, OthersForgetNothing
  <2>3. ASSUME NEW a \in Addresses, InsertRow(m, a) PROVE NothingForgotten'
    <3>1. /\ merger'[m].pc = merger[m].pc /\ merger'[m].job = merger[m].job
          /\ merger'[m].missing = merger[m].missing \ {a}
          /\ merger'[m].locked = merger[m].locked \cup {a}
          /\ \A n \in Mergers \ {m} : merger'[n] = merger[n]
      BY <1>a, <2>3 DEF InsertRow, MergeRecord
    <3>2. merger[m].pc = "insert" /\ a \in merger[m].missing /\ UNCHANGED <<kept, source>>
      BY <2>3 DEF InsertRow, At
    <3>3. /\ merger[m].missing \cup merger[m].locked \subseteq Kept(Job(m))
          /\ Kept(Job(m)) \subseteq Master \cup merger[m].missing \cup merger[m].locked
      BY <3>2 DEF NothingForgotten, At
    <3>4. Kept(Job(m))' = Kept(Job(m))
      BY <3>1, <3>2 DEF Kept, Job
    <3> QED
      BY <1>b, <3>1, <3>2, <3>3, <3>4, OthersForgetNothing
  <2>4. CASE DuplicateKey(m) \/ MergeFails(m) \/ RecordFile(m)
    <3>1. /\ merger'[m].pc = "idle" /\ merger'[m].missing = {} /\ merger'[m].locked = {}
          /\ \A n \in Mergers \ {m} : merger'[n] = merger[n]
          /\ UNCHANGED <<kept, source>>
      BY <1>a, <2>4 DEF DuplicateKey, MergeFails, GiveUp, RecordFile, NoMerge
    <3> QED
      BY <1>b, <3>1, OthersForgetNothing
  <2>5. CASE CommitMaster(m)
    <3>1. UNCHANGED kept
      BY <2>5 DEF CommitMaster
    <3> QED
      BY <2>5, <3>1, CommitEnters, OthersForgetNothing
  <2>6. CASE CopyOther(m)
    <3>1. /\ merger'[m].pc = "record"
          /\ merger'[m].missing = merger[m].missing /\ merger'[m].locked = merger[m].locked
          /\ \A n \in Mergers \ {m} : merger'[n] = merger[n]
      BY <1>a, <2>6 DEF CopyOther, MergeRecord
    <3>2. UNCHANGED <<kept, source>> /\ merger[m].missing = {} /\ merger[m].locked = {}
      BY <2>6 DEF CopyOther, NothingForgotten, At
    <3> QED
      BY <1>b, <3>1, <3>2, OthersForgetNothing
  <2> QED
    BY <1>1, <2>1, <2>2, <2>3, <2>4, <2>5, <2>6 DEF MergeStep
<1>2. CASE UNCHANGED <<kept, source, merger>>
  BY <1>b, <1>2, StandingMerger DEF NothingForgotten
<1>3. ASSUME NEW j \in Jobs, NEW outcome \in {"completed", "failed"}, RunEnds(j, outcome)
      PROVE  UNCHANGED <<kept, source, merger>>
  BY <1>3 DEF RunEnds
<1>4. ASSUME NEW i \in DOMAIN files, DeleteFile(i) PROVE UNCHANGED <<kept, source, merger>>
  BY <1>4 DEF DeleteFile
<1>5. CASE Crash
  BY <1>5 DEF Crash, NoMerge, NothingForgotten, At
<1>6. CASE UNCHANGED vars
  BY <1>2, <1>6 DEF vars
<1> QED
  BY <1>1, <1>2, <1>3, <1>4, <1>5, <1>6 DEF Next

-----------------------------------------------------------------------------
(* Nothing is left behind, and the counts of an entry add up.              *)

\* A commit counts every kept row, as added or as a duplicate.
LEMMA CountsAddUp ==
    ASSUME TypeOK, LocksDisjoint, NothingForgotten, NEW m \in Mergers, CommitMaster(m)
    PROVE  merger'[m].added + merger'[m].duplicate = Len(kept[Job(m)])
<1> DEFINE s == kept[Job(m)]
           locked == merger[m].locked
           F == {i \in DOMAIN s : s[i] \in Master \cup locked}
           inserted == Cardinality(locked)
           found == Cardinality(F)
<1>1. merger[m] \in MergeRecord /\ merger \in [Mergers -> MergeRecord]
  BY DEF TypeOK
<1>2. Job(m) \in Jobs
  BY JobType DEF CommitMaster, At
<1>3. s \in Seq(Addresses) /\ Len(s) \in Nat /\ DOMAIN s = 1..Len(s)
  BY <1>2, KeptType, LenProperties
<1>4. locked \subseteq Kept(Job(m)) /\ Kept(Job(m)) \subseteq Master \cup locked
  BY DEF NothingForgotten, CommitMaster, At
<1>5. F = 1..Len(s)
  BY <1>3, <1>4 DEF Kept
<1>6. IsFiniteSet(1..Len(s)) /\ found = Len(s)
  <2>1. Len(s) \in Int
    BY <1>3
  <2>2. IsFiniteSet(1..Len(s)) /\ Cardinality(1..Len(s)) = IF 1 > Len(s) THEN 0 ELSE Len(s) - 1 + 1
    BY <2>1, FS_Interval
  <2> HIDE DEF s, F
  <2> QED
    BY <1>3, <1>5, <2>2
<1>7. inserted \in Nat /\ inserted <= Len(s)
  <2>1. s \in Surjection(1..Len(s), Kept(Job(m)))
    BY <1>3 DEF Surjection, Kept
  <2>2. IsFiniteSet(Kept(Job(m))) /\ Cardinality(Kept(Job(m))) <= Cardinality(1..Len(s))
    BY <1>6, <2>1, FS_Surjection
  <2>3. IsFiniteSet(locked) /\ inserted <= Cardinality(Kept(Job(m)))
    BY <1>4, <2>2, FS_Subset
  <2>4. inserted \in Nat /\ Cardinality(Kept(Job(m))) \in Nat
    BY <2>2, <2>3, FS_CardinalityType
  <2>5. Cardinality(1..Len(s)) = Len(s)
    BY <1>5, <1>6
  <2> HIDE DEF inserted, s
  <2> QED
    BY <1>3, <2>2, <2>3, <2>4, <2>5
<1>8. merger' = [merger EXCEPT ![m] =
                   [@ EXCEPT !.pc = "other", !.locked = {}, !.mine = merger[m].locked,
                             !.added = inserted,
                             !.duplicate = IF found < inserted THEN 0 ELSE found - inserted]]
  BY DEF CommitMaster
<1> HIDE DEF inserted, found
<1>9. merger'[m].added = inserted
      /\ merger'[m].duplicate = IF found < inserted THEN 0 ELSE found - inserted
  BY <1>1, <1>8 DEF MergeRecord
<1> HIDE DEF s
<1>10. merger'[m].added + merger'[m].duplicate = Len(s)
  <2>1. inserted \in Nat /\ inserted <= found
    BY <1>6, <1>7
  <2>2. found \in Nat /\ found = Len(s)
    BY <1>3, <1>6
  <2> QED
    BY <1>9, <2>1, <2>2
<1> QED
  BY <1>10 DEF s

\* Neither Master nor the other table ever loses a row.
LEMMA OnlyGrows ==
    ASSUME TypeOK, [Next]_vars
    PROVE  /\ kept' = kept /\ Master \subseteq Master'
           /\ \A j \in Jobs : otherMaster'[j] >= otherMaster[j]
<1>a. \A j \in Jobs : otherMaster[j] \in Nat /\ OtherRows[j] \in Nat
  BY MergeAssumption DEF TypeOK
<1>b. (UNCHANGED source) => Master' = Master
  BY DEF Master
<1> DEFINE Goal == /\ kept' = kept /\ Master \subseteq Master'
                   /\ \A j \in Jobs : otherMaster'[j] >= otherMaster[j]
<1>c. ASSUME UNCHANGED <<kept, source, otherMaster>> PROVE Goal
  BY <1>a, <1>b, <1>c
<1>1. ASSUME NEW m \in Mergers, CopyOther(m) PROVE Goal
  <2>1. Job(m) \in Jobs
    BY <1>1, JobType DEF CopyOther, At
  <2>2. otherMaster' = [otherMaster EXCEPT ![Job(m)] = @ + OtherRows[Job(m)]]
        /\ UNCHANGED <<kept, source>>
    BY <1>1 DEF CopyOther
  <2>3. otherMaster \in [Jobs -> Nat]
    BY DEF TypeOK
  <2>4. ASSUME NEW j \in Jobs PROVE otherMaster'[j] >= otherMaster[j]
    BY <1>a, <2>1, <2>2, <2>3
  <2> QED
    BY <1>b, <2>2, <2>4
<1>2. ASSUME NEW m \in Mergers, CommitMaster(m) PROVE Goal
  <2>1. UNCHANGED <<kept, otherMaster>>
    BY <1>2 DEF CommitMaster
  <2>2. Master \subseteq Master'
    BY <1>2, CommitEnters
  <2> QED
    BY <1>a, <2>1, <2>2
<1>3. ASSUME NEW m \in Mergers, MergeStep(m), ~CommitMaster(m), ~CopyOther(m)
      PROVE  UNCHANGED <<kept, source, otherMaster>>
  BY <1>3 DEF MergeStep, WorkerBegins, AdminBegins, ReadMissing, InsertRow, DuplicateKey,
              MergeFails, GiveUp, RecordFile
<1>4. ASSUME NEW j \in Jobs, NEW outcome \in {"completed", "failed"}, RunEnds(j, outcome)
      PROVE  UNCHANGED <<kept, source, otherMaster>>
  BY <1>4 DEF RunEnds
<1>5. ASSUME NEW i \in DOMAIN files, DeleteFile(i) PROVE UNCHANGED <<kept, source, otherMaster>>
  BY <1>5 DEF DeleteFile
<1>6. ASSUME Crash \/ UNCHANGED vars PROVE UNCHANGED <<kept, source, otherMaster>>
  BY <1>6 DEF Crash, vars
<1> HIDE DEF Goal
<1>7. Goal
  BY <1>c, <1>1, <1>2, <1>3, <1>4, <1>5, <1>6 DEF Next
<1> QED
  BY <1>7 DEF Goal

\* What a merger has behind it stays there while others move.
LEMMA StandingBehind ==
    ASSUME TypeOK, NothingBehind, [Next]_vars, NEW n \in Mergers, merger'[n] = merger[n]
    PROVE  /\ merger'[n].pc \in {"other", "record"} =>
                 /\ Kept(Job(n))' \subseteq Master'
                 /\ merger'[n].added + merger'[n].duplicate = Len(kept[Job(n)])'
           /\ At(n, "record")' => otherMaster'[Job(n)'] >= OtherRows[Job(n)']
<1>1. /\ kept' = kept /\ Master \subseteq Master'
      /\ \A j \in Jobs : otherMaster'[j] >= otherMaster[j]
  BY OnlyGrows
<1>2. Kept(Job(n))' = Kept(Job(n)) /\ Job(n)' = Job(n) /\ kept[Job(n)]' = kept[Job(n)]
  BY <1>1 DEF Kept, Job
<1>3. merger'[n].pc \in {"other", "record"} =>
         /\ Kept(Job(n))' \subseteq Master'
         /\ merger'[n].added + merger'[n].duplicate = Len(kept[Job(n)])'
  BY <1>1, <1>2 DEF NothingBehind
<1>4. ASSUME At(n, "record")' PROVE otherMaster'[Job(n)'] >= OtherRows[Job(n)']
  <2>1. Job(n) \in Jobs /\ otherMaster[Job(n)] >= OtherRows[Job(n)]
    BY <1>4, JobType DEF At, NothingBehind
  <2>2. otherMaster[Job(n)] \in Nat /\ OtherRows[Job(n)] \in Nat
        /\ otherMaster'[Job(n)] >= otherMaster[Job(n)] /\ otherMaster' \in [Jobs -> Nat]
    BY <1>1, <2>1, TypeInductive, MergeAssumption DEF TypeOK
  <2>3. otherMaster'[Job(n)] \in Nat
    BY <2>1, <2>2
  <2>4. otherMaster'[Job(n)] >= OtherRows[Job(n)]
    BY <2>1, <2>2, <2>3
  <2> QED
    BY <1>2, <2>4
<1> QED
  BY <1>3, <1>4

LEMMA BehindInductive ==
    ASSUME TypeOK, LocksDisjoint, NothingForgotten, NothingBehind, [Next]_vars
    PROVE  NothingBehind'
<1>a. merger \in [Mergers -> MergeRecord]
  BY DEF TypeOK
<1>b. kept' = kept /\ Master \subseteq Master'
  BY OnlyGrows
<1> DEFINE Behind(n) ==
             /\ merger'[n].pc \in {"other", "record"} =>
                   /\ Kept(Job(n))' \subseteq Master'
                   /\ merger'[n].added + merger'[n].duplicate = Len(kept[Job(n)])'
             /\ At(n, "record")' => otherMaster'[Job(n)'] >= OtherRows[Job(n)']
<1>c. ASSUME NEW n \in Mergers, merger'[n].pc \notin {"other", "record"} PROVE Behind(n)
  BY <1>c DEF At
<1>1. ASSUME NEW m \in Mergers, MergeStep(m) PROVE Behind(m)
  <2>1. ASSUME NEW j \in Jobs, WorkerBegins(m, j) \/ AdminBegins(m, j) PROVE Behind(m)
    BY <1>a, <1>c, <2>1 DEF WorkerBegins, AdminBegins, Begin, NoMerge
  <2>2. CASE ReadMissing(m)
    BY <1>a, <1>c, <2>2 DEF ReadMissing, MergeRecord
  <2>3. ASSUME NEW a \in Addresses, InsertRow(m, a) PROVE Behind(m)
    BY <1>a, <1>c, <2>3 DEF InsertRow, At, MergeRecord
  <2>4. CASE DuplicateKey(m) \/ MergeFails(m) \/ RecordFile(m)
    BY <1>a, <1>c, <2>4 DEF DuplicateKey, MergeFails, GiveUp, RecordFile, NoMerge
  <2>5. CASE CommitMaster(m)
    <3>1. merger'[m].pc = "other" /\ Job(m)' = Job(m) /\ Master' = Master \cup merger[m].locked
      BY <2>5, CommitEnters DEF Job
    <3>2. Kept(Job(m))' = Kept(Job(m)) /\ kept[Job(m)]' = kept[Job(m)]
      BY <1>b, <3>1 DEF Kept
    <3>3. Kept(Job(m)) \subseteq Master \cup merger[m].locked
      BY <2>5 DEF CommitMaster, At, NothingForgotten
    <3>4. merger'[m].added + merger'[m].duplicate = Len(kept[Job(m)])
      BY <2>5, CountsAddUp
    <3> QED
      BY <3>1, <3>2, <3>3, <3>4 DEF At
  <2>6. CASE CopyOther(m)
    <3>1. /\ merger'[m].pc = "record" /\ merger'[m].job = merger[m].job
          /\ merger'[m].added = merger[m].added /\ merger'[m].duplicate = merger[m].duplicate
      BY <1>a, <2>6 DEF CopyOther, MergeRecord
    <3>2. Job(m) \in Jobs /\ Job(m)' = Job(m)
      BY <2>6, <3>1, JobType DEF CopyOther, At, Job
    <3>3. Kept(Job(m))' = Kept(Job(m)) /\ kept[Job(m)]' = kept[Job(m)]
      BY <1>b, <3>2 DEF Kept
    <3>4. Kept(Job(m)) \subseteq Master /\ merger[m].added + merger[m].duplicate = Len(kept[Job(m)])
      BY <2>6 DEF CopyOther, At, NothingBehind
    <3>5. otherMaster'[Job(m)] >= OtherRows[Job(m)]
      <4>1. otherMaster[Job(m)] \in Nat /\ OtherRows[Job(m)] \in Nat
        BY <3>2, MergeAssumption DEF TypeOK
      <4>2. otherMaster'[Job(m)] = otherMaster[Job(m)] + OtherRows[Job(m)]
        BY <2>6, <3>2 DEF CopyOther, TypeOK
      <4> QED
        BY <4>1, <4>2
    <3> QED
      BY <1>b, <3>1, <3>2, <3>3, <3>4, <3>5
  <2> QED
    BY <1>1, <2>1, <2>2, <2>3, <2>4, <2>5, <2>6 DEF MergeStep
<1>2. ASSUME NEW m \in Mergers, MergeStep(m), NEW n \in Mergers \ {m}
      PROVE  merger'[n] = merger[n]
  <2>1. CASE CommitMaster(m)
    BY <1>2, <2>1, CommitEnters
  <2>2. CASE ~CommitMaster(m)
    BY <1>a, <1>2, <2>2 DEF MergeStep, WorkerBegins, AdminBegins, Begin, ReadMissing, InsertRow,
                            DuplicateKey, MergeFails, GiveUp, CopyOther, RecordFile
  <2> QED
    BY <2>1, <2>2
<1>3. ASSUME NEW j \in Jobs, NEW outcome \in {"completed", "failed"}, RunEnds(j, outcome)
      PROVE  UNCHANGED merger
  BY <1>3 DEF RunEnds
<1>4. ASSUME NEW i \in DOMAIN files, DeleteFile(i) PROVE UNCHANGED merger
  BY <1>4 DEF DeleteFile
<1>5. ASSUME UNCHANGED vars PROVE UNCHANGED merger
  BY <1>5 DEF vars
<1>6. ASSUME NEW n \in Mergers, merger'[n] = merger[n] PROVE Behind(n)
  BY <1>6, StandingBehind
<1>7. ASSUME Crash, NEW n \in Mergers PROVE Behind(n)
  BY <1>c, <1>7 DEF Crash, NoMerge
<1> HIDE DEF Behind
<1>8. \A n \in Mergers : Behind(n)
  BY <1>1, <1>2, <1>3, <1>4, <1>5, <1>6, <1>7 DEF Next
<1> QED
  BY <1>8 DEF NothingBehind, Behind

-----------------------------------------------------------------------------
(* The rows and who claims them.                                           *)

\* The rows no entry claims yet, or ever will.
Out == unlisted \cup UNION {merger[m].mine : m \in Mergers}

LEMMA ListedIsNotOut ==
    \A j : Listed(j) = RowsFrom(j) \ Out /\ Listed(j)' = RowsFrom(j)' \ Out'
BY DEF Listed, Out

\* What a merge has is of a job, and in Master.
LEMMA MineInMaster ==
    ASSUME TypeOK, MineCounted, NEW m \in Mergers
    PROVE  /\ merger[m].mine \subseteq Master
           /\ merger[m].mine # {} => Job(m) \in Jobs
<1>1. ASSUME merger[m].mine # {} PROVE Job(m) \in Jobs /\ Job(m) # NoJob
  <2>1. merger[m].pc # "idle"
    BY <1>1 DEF MineCounted
  <2> QED
    BY <2>1, JobType, MergeAssumption
<1>2. merger[m].mine \subseteq RowsFrom(Job(m))
  BY DEF MineCounted
<1> QED
  BY <1>1, <1>2 DEF RowsFrom, Master

\* The rows of a merge's job, after a step.
LEMMA RowsOfJobNext ==
    ASSUME NEW n \in Mergers, NEW j, j = merger'[n].job
    PROVE  RowsFrom(Job(n))' = RowsFrom(j)'
BY DEF RowsFrom, Job

\* A merger is left as it was, as far as its rows go, or has none afterwards.
Keeps(n) ==
    /\ merger'[n].mine = merger[n].mine /\ merger'[n].added = merger[n].added
    /\ merger'[n].job = merger[n].job
    /\ merger'[n].pc \in {"other", "record"} \/ merger'[n].mine = {}
    /\ merger[n].mine \cap unlisted' = {}

Drops(n) == merger'[n].mine = {} /\ merger'[n].added = 0

LEMMA MineKeptOrDropped ==
    ASSUME MineCounted, UNCHANGED source, \A n \in Mergers : Keeps(n) \/ Drops(n)
    PROVE  MineCounted'
<1>1. ASSUME NEW n \in Mergers
      PROVE  merger'[n].mine \subseteq RowsFrom(Job(n))' \ unlisted'
  <2>1. CASE Drops(n)
    BY <2>1 DEF Drops
  <2>2. CASE Keeps(n)
    <3>1. Job(n)' = Job(n) /\ RowsFrom(Job(n))' = RowsFrom(Job(n))
      BY <2>2 DEF Keeps, Job, RowsFrom
    <3>2. merger[n].mine \subseteq RowsFrom(Job(n))
      BY DEF MineCounted
    <3> QED
      BY <2>2, <3>1, <3>2 DEF Keeps
  <2> QED
    BY <2>1, <2>2
<1>2. ASSUME NEW n \in Mergers PROVE merger'[n].added = Cardinality(merger'[n].mine)
  BY FS_EmptySet DEF MineCounted, Keeps, Drops
<1>3. ASSUME NEW n \in Mergers, merger'[n].pc \notin {"other", "record"}
      PROVE  merger'[n].mine = {}
  BY <1>3 DEF Keeps, Drops
<1>4. ASSUME NEW n \in Mergers, NEW k \in Mergers \ {n}
      PROVE  merger'[n].mine \cap merger'[k].mine = {}
  <2>1. merger[n].mine \cap merger[k].mine = {}
    BY DEF MineCounted
  <2>2. /\ merger'[n].mine = merger[n].mine \/ merger'[n].mine = {}
        /\ merger'[k].mine = merger[k].mine \/ merger'[k].mine = {}
    BY DEF Keeps, Drops
  <2> QED
    BY <2>1, <2>2
<1> QED
  BY <1>1, <1>2, <1>3, <1>4 DEF MineCounted

\* What a commit enters is new: it is in no other merge's rows and not given up.
LEMMA CommitIsMine ==
    ASSUME TypeOK, LocksDisjoint, MineCounted, unlisted \subseteq Master,
           NEW m \in Mergers, CommitMaster(m)
    PROVE  /\ merger'[m].mine = merger[m].locked /\ merger[m].mine = {}
           /\ merger'[m].added = Cardinality(merger[m].locked)
           /\ merger[m].locked \cap (Master \cup Out) = {}
           /\ \A j \in Jobs : RowsFrom(j)' = RowsFrom(j) \cup
                                 (IF j = Job(m) THEN merger[m].locked ELSE {})
<1>1. merger[m] \in MergeRecord /\ merger \in [Mergers -> MergeRecord]
  BY DEF TypeOK
<1>2. merger'[m].mine = merger[m].locked
  BY <1>1 DEF CommitMaster, MergeRecord
<1>3. merger'[m].added = Cardinality(merger[m].locked)
  BY <1>1 DEF CommitMaster, MergeRecord
<1>4. merger[m].mine = {}
  BY DEF CommitMaster, At, MineCounted
<1>5. merger[m].locked \cap Master = {}
  BY DEF LocksDisjoint
<1>6. Out \subseteq Master
  BY MineInMaster DEF Out
<1>7. source' = [a \in Addresses |-> IF a \in merger[m].locked THEN Job(m) ELSE source[a]]
  BY DEF CommitMaster
<1>8. ASSUME NEW j \in Jobs
      PROVE  RowsFrom(j)' = RowsFrom(j) \cup (IF j = Job(m) THEN merger[m].locked ELSE {})
  <2>1. \A a \in merger[m].locked : a \in Addresses /\ source[a] = NoJob
    BY <1>1, <1>5 DEF Master, MergeRecord
  <2>2. j # NoJob
    BY MergeAssumption
  <2> QED
    BY <1>7, <2>1, <2>2 DEF RowsFrom
<1> QED
  BY <1>2, <1>3, <1>4, <1>5, <1>6, <1>8

LEMMA MineInductive ==
    ASSUME TypeOK, LocksDisjoint, MineCounted, ListedCounted, [Next]_vars
    PROVE  MineCounted'
<1>a. merger \in [Mergers -> MergeRecord]
  BY DEF TypeOK
<1>b. \A n \in Mergers : /\ merger[n].mine \cap unlisted = {}
                         /\ merger[n].pc \in {"other", "record"} \/ merger[n].mine = {}
  BY DEF MineCounted
<1>c. ASSUME NEW n \in Mergers, merger'[n] = merger[n], merger[n].mine \cap unlisted' = {}
      PROVE  Keeps(n)
  BY <1>b, <1>c DEF Keeps
<1>d. ASSUME NEW m \in Mergers, UNCHANGED <<source, unlisted>>, Keeps(m) \/ Drops(m),
             \A n \in Mergers \ {m} : merger'[n] = merger[n]
      PROVE  MineCounted'
  <2>1. \A n \in Mergers : Keeps(n) \/ Drops(n)
    BY <1>b, <1>c, <1>d
  <2> QED
    BY <1>d, <2>1, MineKeptOrDropped
<1>1. ASSUME NEW m \in Mergers, MergeStep(m) PROVE MineCounted'
  <2>1. ASSUME NEW j \in Jobs, WorkerBegins(m, j) \/ AdminBegins(m, j) PROVE MineCounted'
    <3>1. Drops(m) /\ UNCHANGED <<source, unlisted>>
      BY <1>a, <2>1 DEF WorkerBegins, AdminBegins, Begin, NoMerge, Drops
    <3>2. \A n \in Mergers \ {m} : merger'[n] = merger[n]
      BY <1>a, <2>1 DEF WorkerBegins, AdminBegins, Begin
    <3> QED
      BY <1>d, <3>1, <3>2
  <2>2. CASE ReadMissing(m)
    <3>1. Keeps(m) /\ UNCHANGED <<source, unlisted>>
      BY <1>a, <1>b, <2>2 DEF ReadMissing, At, MergeRecord, Keeps
    <3> QED
      BY <1>a, <1>d, <2>2, <3>1 DEF ReadMissing
  <2>3. ASSUME NEW a \in Addresses, InsertRow(m, a) PROVE MineCounted'
    <3>1. Keeps(m) /\ UNCHANGED <<source, unlisted>>
      BY <1>a, <1>b, <2>3 DEF InsertRow, At, MergeRecord, Keeps
    <3> QED
      BY <1>a, <1>d, <2>3, <3>1 DEF InsertRow
  <2>4. CASE GiveUp(m)
    <3>1. Drops(m) /\ UNCHANGED source
      BY <1>a, <2>4 DEF GiveUp, Drops, NoMerge
    <3>2. ASSUME NEW n \in Mergers \ {m} PROVE Keeps(n)
      <4>1. merger'[n] = merger[n] /\ unlisted' = unlisted \cup merger[m].mine
        BY <1>a, <2>4 DEF GiveUp
      <4>2. merger[n].mine \cap merger[m].mine = {}
        BY DEF MineCounted
      <4> QED
        BY <1>b, <1>c, <4>1, <4>2
    <3> QED
      BY <3>1, <3>2, MineKeptOrDropped
  <2>5. CASE CommitMaster(m)
    <3>1. /\ merger'[m].mine = merger[m].locked
          /\ merger'[m].added = Cardinality(merger[m].locked)
          /\ merger[m].locked \cap (Master \cup Out) = {}
          /\ \A j \in Jobs : RowsFrom(j)' = RowsFrom(j) \cup
                                (IF j = Job(m) THEN merger[m].locked ELSE {})
      BY <2>5, CommitIsMine DEF ListedCounted
    <3>2. /\ merger'[m].pc = "other" /\ merger'[m].job = merger[m].job
          /\ \A n \in Mergers \ {m} : merger'[n] = merger[n]
      BY <2>5, CommitEnters
    <3>3. Job(m) \in Jobs /\ UNCHANGED unlisted
      BY <2>5, JobType DEF CommitMaster, At
    <3>4. \A n \in Mergers : \A j : j = Job(n) => RowsFrom(Job(n))' = RowsFrom(j)'
      BY <3>2, RowsOfJobNext DEF Job
    <3>5. merger'[m].mine \subseteq RowsFrom(Job(m))' \ unlisted'
      <4>1. PICK j \in Jobs : j = Job(m)
        BY <3>3
      <4>2. merger[m].locked \subseteq RowsFrom(j)'
        BY <3>1, <4>1
      <4>3. RowsFrom(Job(m))' = RowsFrom(j)'
        BY <3>4, <4>1
      <4> QED
        BY <3>1, <3>3, <4>2, <4>3 DEF Out
    <3>6. ASSUME NEW n \in Mergers \ {m}
          PROVE  merger[n].mine \subseteq RowsFrom(Job(n))' \ unlisted'
      <4>1. merger[n].mine \subseteq RowsFrom(Job(n)) \ unlisted
        BY DEF MineCounted
      <4>2. ASSUME merger[n].mine # {} PROVE RowsFrom(Job(n)) \subseteq RowsFrom(Job(n))'
        <5>1. PICK j \in Jobs : j = Job(n)
          BY <4>2, MineInMaster
        <5>2. RowsFrom(j) \subseteq RowsFrom(j)' /\ RowsFrom(Job(n))' = RowsFrom(j)'
          BY <3>1, <3>4, <5>1
        <5> QED
          BY <5>1, <5>2
      <4> QED
        BY <3>3, <4>1, <4>2
    <3>7. ASSUME NEW n \in Mergers \ {m} PROVE merger'[m].mine \cap merger[n].mine = {}
      BY <3>1 DEF Out
    <3>8. \A n \in Mergers \ {m} :
             /\ merger'[n].mine \subseteq RowsFrom(Job(n))' \ unlisted'
             /\ merger'[n].added = Cardinality(merger'[n].mine)
             /\ merger'[n].pc \notin {"other", "record"} => merger'[n].mine = {}
             /\ \A k \in Mergers \ {n} : merger'[n].mine \cap merger'[k].mine = {}
      BY <3>2, <3>6, <3>7 DEF MineCounted
    <3>9. /\ merger'[m].added = Cardinality(merger'[m].mine)
          /\ merger'[m].pc \notin {"other", "record"} => merger'[m].mine = {}
          /\ \A k \in Mergers \ {m} : merger'[m].mine \cap merger'[k].mine = {}
      BY <3>1, <3>2, <3>7
    <3> QED
      BY <3>5, <3>8, <3>9 DEF MineCounted
  <2>6. CASE CopyOther(m)
    <3>1. Keeps(m) /\ UNCHANGED <<source, unlisted>>
      BY <1>a, <1>b, <2>6 DEF CopyOther, At, MergeRecord, Keeps
    <3> QED
      BY <1>a, <1>d, <2>6, <3>1 DEF CopyOther
  <2>7. CASE RecordFile(m)
    <3>1. Drops(m) /\ UNCHANGED <<source, unlisted>>
      BY <1>a, <2>7 DEF RecordFile, NoMerge, Drops
    <3> QED
      BY <1>a, <1>d, <2>7, <3>1 DEF RecordFile
  <2> QED
    BY <1>1, <2>1, <2>2, <2>3, <2>4, <2>5, <2>6, <2>7 DEF MergeStep, DuplicateKey, MergeFails
<1>2. ASSUME UNCHANGED <<source, merger, unlisted>> PROVE MineCounted'
  <2>1. \A n \in Mergers : Keeps(n)
    BY <1>b, <1>c, <1>2
  <2> QED
    BY <1>2, <2>1, MineKeptOrDropped
<1>3. ASSUME NEW j \in Jobs, NEW outcome \in {"completed", "failed"}, RunEnds(j, outcome)
      PROVE  UNCHANGED <<source, merger, unlisted>>
  BY <1>3 DEF RunEnds
<1>4. ASSUME NEW i \in DOMAIN files, DeleteFile(i) PROVE UNCHANGED <<source, merger, unlisted>>
  BY <1>4 DEF DeleteFile
<1>5. CASE Crash
  <2>1. \A n \in Mergers : Drops(n)
    BY <1>5 DEF Crash, NoMerge, Drops
  <2>2. UNCHANGED source
    BY <1>5 DEF Crash
  <2> QED
    BY <2>1, <2>2, MineKeptOrDropped
<1>6. ASSUME UNCHANGED vars PROVE UNCHANGED <<source, merger, unlisted>>
  BY <1>6 DEF vars
<1> QED
  BY <1>1, <1>2, <1>3, <1>4, <1>5, <1>6 DEF Next

\* The entries of a job are finitely many, and their counts numbers.
LEMMA EntriesType ==
    ASSUME TypeOK, NEW j
    PROVE  /\ IsFiniteSet(Entries(j))
           /\ \A i \in DOMAIN files : files[i] \in FileRecord /\ files[i].added \in Nat
<1>1. DOMAIN files = 1..Len(files) /\ Len(files) \in Nat
  BY LenProperties DEF TypeOK
<1>2. IsFiniteSet(1..Len(files))
  BY <1>1, FS_Interval
<1>3. Entries(j) \subseteq 1..Len(files)
  BY <1>1 DEF Entries
<1>4. IsFiniteSet(Entries(j))
  BY <1>2, <1>3, FS_Subset
<1>5. \A i \in DOMAIN files : files[i] \in FileRecord
  BY <1>1, ElementOfSeq DEF TypeOK
<1> QED
  BY <1>4, <1>5 DEF FileRecord

\* A step that moves no row in or out, and changes no entry's claim.
LEMMA ListedStays ==
    ASSUME ListedCounted, UNCHANGED source, Out' = Out, unlisted' \subseteq Master,
           \A j \in Jobs : AddedByEntries(j)' = AddedByEntries(j)
    PROVE  ListedCounted'
<1>1. Master' = Master
  BY DEF Master
<1>2. \A j : RowsFrom(j)' = RowsFrom(j)
  BY DEF RowsFrom
<1>3. \A j : Listed(j)' = Listed(j)
  BY <1>2, ListedIsNotOut
<1> QED
  BY <1>1, <1>3 DEF ListedCounted

\* A new entry claims what its merge has put into Master, and the merge has it no more.
LEMMA RecordClaims ==
    ASSUME TypeOK, MineCounted, ListedCounted, NEW m \in Mergers, RecordFile(m)
    PROVE  ListedCounted'
<1> DEFINE e == [job |-> Job(m), added |-> merger[m].added,
                 duplicate |-> merger[m].duplicate, deleted |-> FALSE]
           f == [i \in DOMAIN files |-> files[i].added]
           g == [i \in DOMAIN files' |-> files'[i].added]
           last == Len(files) + 1
<1>1. merger[m] \in MergeRecord /\ Job(m) \in Jobs /\ merger \in [Mergers -> MergeRecord]
  BY JobType DEF RecordFile, At, TypeOK
<1>2. e \in FileRecord /\ files \in Seq(FileRecord)
  BY <1>1 DEF FileRecord, MergeRecord, TypeOK
<1>3. files' = Append(files, e)
  BY DEF RecordFile
<1>4. /\ DOMAIN files' = 1..last /\ DOMAIN files = 1..Len(files) /\ Len(files) \in Nat
      /\ \A i \in 1..Len(files) : files'[i] = files[i]
      /\ files'[last] = e
  <2> HIDE DEF e
  <2> QED
    BY <1>2, <1>3, AppendProperties, LenProperties
<1>e. /\ DOMAIN files' = DOMAIN files \cup {last} /\ last \notin DOMAIN files
      /\ files'[last].job = Job(m)
      /\ \A i \in DOMAIN files : files'[i].job = files[i].job
  BY <1>4
<1>s. \A i \in DOMAIN files : f[i] \in Nat /\ g[i] = f[i]
  <2>1. \A i \in DOMAIN files : files[i].added \in Nat
    BY EntriesType
  <2>2. \A i \in DOMAIN files : i \in DOMAIN files' /\ files'[i] = files[i]
    BY <1>4, <1>e
  <2> QED
    BY <2>1, <2>2
<1>5. UNCHANGED <<source, unlisted>> /\ merger' = [merger EXCEPT ![m] = NoMerge]
  BY DEF RecordFile
<1>6. Out = Out' \cup merger[m].mine
  <2>1. merger'[m].mine = {} /\ \A n \in Mergers \ {m} : merger'[n].mine = merger[n].mine
    BY <1>1, <1>5 DEF NoMerge
  <2> QED
    BY <1>5, <2>1 DEF Out
<1>7. Out' \cap merger[m].mine = {}
  <2>1. merger'[m].mine = {} /\ \A n \in Mergers \ {m} : merger'[n].mine = merger[n].mine
    BY <1>1, <1>5 DEF NoMerge
  <2>2. \A n \in Mergers : merger'[n].mine \cap merger[m].mine = {}
    BY <2>1 DEF MineCounted
  <2>3. unlisted' \cap merger[m].mine = {}
    BY <1>5 DEF MineCounted
  <2> QED
    BY <2>2, <2>3 DEF Out
<1>8. \A j : RowsFrom(j)' = RowsFrom(j)
  BY <1>5 DEF RowsFrom
<1>9. merger[m].mine \subseteq RowsFrom(Job(m)) /\ merger[m].added = Cardinality(merger[m].mine)
  BY DEF MineCounted
<1>10. ASSUME NEW j \in Jobs, j # Job(m) PROVE Cardinality(Listed(j)') = AddedByEntries(j)'
  <2>1. RowsFrom(j) \cap merger[m].mine = {}
    BY <1>9, <1>10 DEF RowsFrom
  <2>2. Listed(j)' = Listed(j)
    BY <1>6, <1>8, <2>1, ListedIsNotOut
  <2>3. Entries(j)' = Entries(j)
    <3> HIDE DEF last
    <3> QED
      BY <1>e, <1>10 DEF Entries
  <2>4. \A i \in Entries(j) : f[i] \in Nat /\ g[i] = f[i]
    BY <1>s DEF Entries
  <2>5. IsFiniteSet(Entries(j))
    BY EntriesType
  <2> HIDE DEF f, g
  <2>6. SumFunctionOnSet(f, Entries(j)) = SumFunctionOnSet(g, Entries(j))
    BY <2>4, <2>5, SumSame
  <2>7. AddedByEntries(j)' = AddedByEntries(j)
    BY <2>3, <2>6 DEF AddedByEntries, f, g
  <2> QED
    BY <2>2, <2>7 DEF ListedCounted
<1>11. ASSUME NEW j \in Jobs, j = Job(m) PROVE Cardinality(Listed(j)') = AddedByEntries(j)'
  <2>1. Entries(j)' = Entries(j) \cup {last} /\ last \notin Entries(j)
    <3> HIDE DEF last
    <3> QED
      BY <1>e, <1>11 DEF Entries
  <2>2. \A i \in Entries(j) : f[i] \in Nat /\ g[i] = f[i]
    BY <1>s DEF Entries
  <2>3. IsFiniteSet(Entries(j))
    BY EntriesType
  <2>4. g[last] = merger[m].added /\ merger[m].added \in Nat
    BY <1>1, <1>4 DEF MergeRecord
  <2> HIDE DEF f, g, last
  <2>5. SumFunctionOnSet(f, Entries(j)) = SumFunctionOnSet(g, Entries(j))
    BY <2>2, <2>3, SumSame
  <2>6. SumFunctionOnSet(g, Entries(j) \cup {last}) = g[last] + SumFunctionOnSet(g, Entries(j))
    BY <2>1, <2>2, <2>3, <2>4, SumAdd
  <2>7. SumFunctionOnSet(f, Entries(j)) = AddedByEntries(j)
    BY DEF AddedByEntries, f
  <2>8. SumFunctionOnSet(g, Entries(j) \cup {last}) = AddedByEntries(j)'
    BY <2>1 DEF AddedByEntries, g
  <2>9. AddedByEntries(j)' = merger[m].added + AddedByEntries(j)
    BY <2>4, <2>5, <2>6, <2>7, <2>8
  <2>10. Listed(j)' = Listed(j) \cup merger[m].mine /\ Listed(j) \cap merger[m].mine = {}
    BY <1>6, <1>7, <1>8, <1>9, <1>11, ListedIsNotOut
  <2>11. IsFiniteSet(Listed(j)) /\ IsFiniteSet(merger[m].mine)
    <3>1. Listed(j) \subseteq Addresses /\ merger[m].mine \subseteq Addresses
      BY <1>1 DEF Listed, RowsFrom, MergeRecord
    <3> QED
      BY <3>1, MergeAssumption, FS_Subset
  <2>12. /\ Cardinality(Listed(j) \cup merger[m].mine) =
              Cardinality(Listed(j)) + Cardinality(merger[m].mine) - Cardinality({})
         /\ Cardinality({}) = 0
         /\ Cardinality(Listed(j)) \in Nat /\ Cardinality(merger[m].mine) \in Nat
    BY <2>10, <2>11, FS_Union, FS_EmptySet, FS_CardinalityType
  <2>13. Cardinality(Listed(j)) = AddedByEntries(j)
    BY <1>1, <1>11 DEF ListedCounted
  <2>14. Cardinality(Listed(j) \cup merger[m].mine) = AddedByEntries(j)'
    BY <1>9, <2>9, <2>12, <2>13
  <2> QED
    BY <2>10, <2>14
<1>12. unlisted' \subseteq Master'
  BY <1>5 DEF Master, ListedCounted
<1> QED
  BY <1>10, <1>11, <1>12 DEF ListedCounted

LEMMA ListedInductive ==
    ASSUME TypeOK, LocksDisjoint, MineCounted, ListedCounted, [Next]_vars
    PROVE  ListedCounted'
<1>a. merger \in [Mergers -> MergeRecord]
  BY DEF TypeOK
<1>b. UNCHANGED files => \A j \in Jobs : AddedByEntries(j)' = AddedByEntries(j)
  BY DEF AddedByEntries, Entries
<1>c. unlisted \subseteq Master
  BY DEF ListedCounted
<1>1. ASSUME NEW m \in Mergers, MergeStep(m) PROVE ListedCounted'
  <2>1. ASSUME UNCHANGED <<source, files, unlisted>>, merger'[m].mine = merger[m].mine,
               \A n \in Mergers \ {m} : merger'[n] = merger[n]
        PROVE  ListedCounted'
    <3>1. Out' = Out
      BY <2>1 DEF Out
    <3> QED
      BY <1>b, <1>c, <2>1, <3>1, ListedStays
  <2>2. ASSUME NEW j \in Jobs, WorkerBegins(m, j) \/ AdminBegins(m, j) PROVE ListedCounted'
    <3>1. merger[m].mine = {} /\ merger'[m].mine = {}
      BY <1>a, <2>2 DEF WorkerBegins, AdminBegins, Begin, At, NoMerge, MineCounted
    <3> QED
      BY <1>a, <2>1, <2>2, <3>1 DEF WorkerBegins, AdminBegins, Begin
  <2>3. CASE ReadMissing(m)
    BY <1>a, <2>1, <2>3 DEF ReadMissing, MergeRecord
  <2>4. ASSUME NEW a \in Addresses, InsertRow(m, a) PROVE ListedCounted'
    BY <1>a, <2>1, <2>4 DEF InsertRow, MergeRecord
  <2>5. CASE CopyOther(m)
    BY <1>a, <2>1, <2>5 DEF CopyOther, MergeRecord
  <2>6. CASE GiveUp(m)
    <3>1. /\ merger'[m].mine = {} /\ unlisted' = unlisted \cup merger[m].mine
          /\ \A n \in Mergers \ {m} : merger'[n] = merger[n]
          /\ UNCHANGED <<source, files>>
      BY <1>a, <2>6 DEF GiveUp, NoMerge
    <3>2. Out' = Out
      BY <3>1 DEF Out
    <3>3. unlisted' \subseteq Master
      BY <1>c, <3>1, MineInMaster
    <3> QED
      BY <1>b, <3>1, <3>2, <3>3, ListedStays
  <2>7. CASE CommitMaster(m)
    <3>1. /\ merger'[m].mine = merger[m].locked /\ merger[m].mine = {}
          /\ merger[m].locked \cap (Master \cup Out) = {}
          /\ \A j \in Jobs : RowsFrom(j)' = RowsFrom(j) \cup
                                (IF j = Job(m) THEN merger[m].locked ELSE {})
      BY <1>c, <2>7, CommitIsMine
    <3>2. \A n \in Mergers \ {m} : merger'[n] = merger[n]
      BY <2>7, CommitEnters
    <3>3. UNCHANGED <<files, unlisted>> /\ Master \subseteq Master'
      BY <2>7, CommitEnters DEF CommitMaster
    <3>4. Out' = Out \cup merger[m].locked
      BY <3>1, <3>2, <3>3 DEF Out
    <3>5. ASSUME NEW j \in Jobs PROVE Listed(j)' = Listed(j)
      <4>1. RowsFrom(j) \subseteq Master
        BY MergeAssumption DEF RowsFrom, Master
      <4>2. RowsFrom(j)' \ (Out \cup merger[m].locked) = RowsFrom(j) \ Out
        BY <3>1, <4>1
      <4> QED
        BY <3>4, <4>2, ListedIsNotOut
    <3> QED
      BY <1>b, <1>c, <3>3, <3>5 DEF ListedCounted
  <2>8. CASE RecordFile(m)
    BY <2>8, RecordClaims
  <2> QED
    BY <1>1, <2>2, <2>3, <2>4, <2>5, <2>6, <2>7, <2>8 DEF MergeStep, DuplicateKey, MergeFails
<1>2. ASSUME UNCHANGED <<source, files, merger, unlisted>> PROVE ListedCounted'
  <2>1. Out' = Out
    BY <1>2 DEF Out
  <2> QED
    BY <1>b, <1>c, <1>2, <2>1, ListedStays
<1>3. ASSUME NEW j \in Jobs, NEW outcome \in {"completed", "failed"}, RunEnds(j, outcome)
      PROVE  UNCHANGED <<source, files, merger, unlisted>>
  BY <1>3 DEF RunEnds
<1>4. ASSUME NEW k \in DOMAIN files, DeleteFile(k) PROVE ListedCounted'
  <2>1. files' = [files EXCEPT ![k].deleted = TRUE] /\ UNCHANGED <<source, merger, unlisted>>
    BY <1>4 DEF DeleteFile
  <2>2. DOMAIN files' = DOMAIN files
    BY <2>1
  <2>3. ASSUME NEW i \in DOMAIN files
        PROVE  files'[i].job = files[i].job /\ files'[i].added = files[i].added
    <3>1. files[i] \in FileRecord /\ files[k] \in FileRecord
      BY <1>4, EntriesType
    <3> QED
      BY <2>1, <3>1 DEF FileRecord
  <2>4. [i \in DOMAIN files' |-> files'[i].added] = [i \in DOMAIN files |-> files[i].added]
    BY <2>2, <2>3
  <2>5. \A j : Entries(j)' = Entries(j)
    BY <2>2, <2>3 DEF Entries
  <2>6. \A j \in Jobs : AddedByEntries(j)' = AddedByEntries(j)
    BY <2>4, <2>5 DEF AddedByEntries
  <2>7. Out' = Out
    BY <2>1 DEF Out
  <2> QED
    BY <1>c, <2>1, <2>6, <2>7, ListedStays
<1>5. CASE Crash
  <2>1. /\ unlisted' = unlisted \cup UNION {merger[m].mine : m \in Mergers}
        /\ \A m \in Mergers : merger'[m].mine = {}
        /\ UNCHANGED <<source, files>>
    BY <1>5 DEF Crash, NoMerge
  <2>2. Out' = Out
    BY <2>1 DEF Out
  <2>3. unlisted' \subseteq Master
    BY <1>c, <2>1, MineInMaster
  <2> QED
    BY <1>b, <2>1, <2>2, <2>3, ListedStays
<1>6. ASSUME UNCHANGED vars PROVE UNCHANGED <<source, files, merger, unlisted>>
  BY <1>6 DEF vars
<1> QED
  BY <1>1, <1>2, <1>3, <1>4, <1>5, <1>6 DEF Next

-----------------------------------------------------------------------------
(* Theorems.                                                               *)

LEMMA InitMergeInv == Init => MergeInv
<1> SUFFICES ASSUME Init PROVE MergeInv
  OBVIOUS
<1>1. \A m \in Mergers : merger[m] = NoMerge
  BY DEF Init
<1>2. NothingForgotten /\ LocksDisjoint
  BY <1>1 DEF NothingForgotten, LocksDisjoint, At, NoMerge
<1>3. NothingBehind
  BY <1>1 DEF NothingBehind, At, NoMerge
<1>4. MineCounted
  BY <1>1, FS_EmptySet DEF MineCounted, NoMerge
<1>5. ListedCounted
  <2>1. \A j \in Jobs : Entries(j) = {} /\ Listed(j) = {}
    BY MergeAssumption DEF Init, Entries, Listed, RowsFrom
  <2>2. \A j \in Jobs : AddedByEntries(j) = 0
    BY <2>1, SumEmpty DEF AddedByEntries
  <2> QED
    BY <2>1, <2>2, FS_EmptySet DEF Init, ListedCounted
<1> QED
  BY <1>2, <1>3, <1>4, <1>5, InitType DEF MergeInv

LEMMA MergeInvInductive == MergeInv /\ [Next]_vars => MergeInv'
BY TypeInductive, LocksInductive, ForgottenInductive, BehindInductive, MineInductive,
   ListedInductive DEF MergeInv

\* Uncommitted rows stay apart, and an INSERT is about to have, or others have, every
\* address its job keeps (MasterMerge!MergeInv; sp_FT_MergeToMaster.sql:55-66).
THEOREM MergeInvariant == Spec => []MergeInv
<1>1. Init => MergeInv
  BY InitMergeInv
<1>2. MergeInv /\ [Next]_vars => MergeInv'
  BY MergeInvInductive
<1> QED
  BY <1>1, <1>2, PTL DEF Spec

\* The rows of a job are the listed ones and those its merges still have.
LEMMA CountsAddToRows == MergeInv => RowsAccounted
<1> SUFFICES ASSUME MergeInv, NEW j \in Jobs
             PROVE  Cardinality(RowsFrom(j) \ unlisted) = AddedByEntries(j) + AddedByMerges(j)
  BY DEF RowsAccounted
<1> DEFINE D == [m \in Mergers |-> merger[m].mine]
           f == [m \in Mergers |-> merger[m].added]
           M == UNION {D[m] : m \in Merging(j)}
<1>a. merger \in [Mergers -> MergeRecord]
  BY DEF MergeInv, TypeOK
<1>1. IsFiniteSet(Merging(j)) /\ Merging(j) \subseteq Mergers
  BY MergeAssumption, FS_Subset DEF Merging
<1>2. \A m \in Merging(j) : IsFiniteSet(D[m])
  BY <1>a, <1>1, MergeAssumption, FS_Subset DEF MergeRecord
<1>3. \A m, n \in Merging(j) : m # n => D[m] \cap D[n] = {}
  BY <1>1 DEF MergeInv, MineCounted
<1>4. \A m \in Merging(j) : f[m] = Cardinality(D[m])
  BY <1>1 DEF MergeInv, MineCounted
<1>5. IsFiniteSet(M) /\ Cardinality(M) = AddedByMerges(j)
  <2>1. AddedByMerges(j) = SumFunctionOnSet(f, Merging(j))
    BY DEF AddedByMerges
  <2> HIDE DEF D, f
  <2> QED
    BY <1>1, <1>2, <1>3, <1>4, <2>1, SumOfSizes
<1>6. RowsFrom(j) \ unlisted = Listed(j) \cup M
  BY DEF MergeInv, MineCounted, Listed, Merging, RowsFrom
<1>7. Listed(j) \cap M = {}
  BY <1>1 DEF Listed
<1>8. IsFiniteSet(Listed(j))
  <2>1. Listed(j) \subseteq Addresses
    BY DEF Listed, RowsFrom
  <2> QED
    BY <2>1, MergeAssumption, FS_Subset
<1> HIDE DEF M
<1>9. /\ Cardinality(Listed(j) \cup M) =
            Cardinality(Listed(j)) + Cardinality(M) - Cardinality({})
      /\ Cardinality({}) = 0 /\ Cardinality(Listed(j)) \in Nat /\ Cardinality(M) \in Nat
  BY <1>5, <1>7, <1>8, FS_Union, FS_EmptySet, FS_CardinalityType
<1>10. Cardinality(Listed(j)) = AddedByEntries(j)
  BY DEF MergeInv, ListedCounted
<1>11. Cardinality(Listed(j) \cup M) = AddedByEntries(j) + AddedByMerges(j)
  BY <1>5, <1>9, <1>10
<1> QED
  BY <1>6, <1>11

\* Every row of Master is claimed once: by an entry, by a merge still under way, or by
\* none since its merge gave up (MasterMerge!RowsAccounted; master_service.py:133-166).
THEOREM EveryRowClaimedOnce == Spec => []RowsAccounted
BY CountsAddToRows, MergeInvariant, PTL

\* A commit enters the addresses of its job that are missing, and nothing else.
LEMMA CommitIsEnter ==
    ASSUME MergeInv, NEW m \in Mergers, CommitMaster(m)
    PROVE  Job(m) \in Jobs /\ Book!Enter(Job(m))
<1>1. Job(m) \in Jobs /\ Job(m) # NoJob
  BY JobType, MergeAssumption DEF MergeInv, CommitMaster, At
<1>2. merger[m].locked = Kept(Job(m)) \ Master
  BY LocksPairwise DEF MergeInv, NothingForgotten, CommitMaster, At
<1>3. source' = [a \in Addresses |-> IF a \in merger[m].locked THEN Job(m) ELSE source[a]]
      /\ kept' = kept
  BY DEF CommitMaster
<1>4. \A a \in Addresses : a \in merger[m].locked <=> source[a] = NoJob /\ a \in Kept(Job(m))
  BY <1>2 DEF Master
<1>5. Kept(Job(m)) = [j \in Jobs |-> Kept(j)][Job(m)]
  BY <1>1
<1>6. source' = [a \in Addresses |->
                   IF source[a] = NoJob /\ a \in [j \in Jobs |-> Kept(j)][Job(m)]
                   THEN Job(m) ELSE source[a]]
  BY <1>3, <1>4, <1>5
<1>7. UNCHANGED [j \in Jobs |-> Kept(j)]
  BY <1>3 DEF Kept
<1> QED
  BY <1>1, <1>6, <1>7 DEF Book!Enter

LEMMA BookStep ==
    ASSUME MergeInv, [Next]_vars
    PROVE  [Book!Next]_<<source, [j \in Jobs |-> Kept(j)]>>
<1>a. ASSUME UNCHANGED <<source, kept>> PROVE UNCHANGED <<source, [j \in Jobs |-> Kept(j)]>>
  BY <1>a DEF Kept
<1>1. ASSUME NEW m \in Mergers, CommitMaster(m) PROVE Book!Next
  BY <1>1, CommitIsEnter DEF Book!Next
<1>2. ASSUME NEW m \in Mergers, MergeStep(m), ~CommitMaster(m) PROVE UNCHANGED <<source, kept>>
  BY <1>2 DEF MergeStep, WorkerBegins, AdminBegins, ReadMissing, InsertRow, DuplicateKey,
              MergeFails, GiveUp, CopyOther, RecordFile
<1>3. ASSUME NEW j \in Jobs, NEW outcome \in {"completed", "failed"}, RunEnds(j, outcome)
      PROVE  UNCHANGED <<source, kept>>
  BY <1>3 DEF RunEnds
<1>4. ASSUME NEW i \in DOMAIN files, DeleteFile(i) PROVE UNCHANGED <<source, kept>>
  BY <1>4 DEF DeleteFile
<1>5. ASSUME Crash PROVE UNCHANGED <<source, kept>>
  BY <1>5 DEF Crash
<1>6. ASSUME UNCHANGED vars PROVE UNCHANGED <<source, kept>>
  BY <1>6 DEF vars
<1> QED
  BY <1>a, <1>1, <1>2, <1>3, <1>4, <1>5, <1>6 DEF Next

\* However merges interleave, fail and die, each adds exactly the addresses that are
\* missing when it commits (MasterMerge!BookRefinement).
THEOREM ImplementsBook == Spec => BookRefinement
<1>1. Init => Book!Init
  <2>1. ASSUME Init PROVE [j \in Jobs |-> Kept(j)] \in [Jobs -> SUBSET Addresses]
    BY <2>1, InitType, KeptType
  <2> QED
    BY <2>1 DEF Init, Book!Init
<1>2. MergeInv /\ [Next]_vars => [Book!Next]_<<source, [j \in Jobs |-> Kept(j)]>>
  BY BookStep
<1> QED
  BY <1>1, <1>2, MergeInvariant, PTL DEF Spec, BookRefinement, Book!Spec
\* An entry added to the list says of its job what NothingBehind says of the merge.
LEMMA EntriesStep ==
    ASSUME MergeInv, EntriesAddUp, RecordedIsMerged, [Next]_vars
    PROVE  EntriesAddUp' /\ RecordedIsMerged'
<1>a. /\ TypeOK /\ TypeOK' /\ files \in Seq(FileRecord)
      /\ \A i \in DOMAIN files : files[i] \in FileRecord
  BY TypeInductive, ElementOfSeq, LenProperties DEF MergeInv, TypeOK
<1>b. /\ kept' = kept /\ Master \subseteq Master'
      /\ \A j \in Jobs : otherMaster'[j] >= otherMaster[j]
  BY <1>a, OnlyGrows
<1>c. \A j \in Jobs : otherMaster[j] \in Nat /\ otherMaster'[j] \in Nat /\ OtherRows[j] \in Nat
  BY <1>a, MergeAssumption DEF TypeOK
<1> DEFINE True(e) == /\ e.added + e.duplicate = Len(kept[e.job])
                      /\ Kept(e.job) \subseteq Master /\ otherMaster[e.job] >= OtherRows[e.job]
           TrueNext(e) == /\ e.added + e.duplicate = Len(kept[e.job])
                          /\ Kept(e.job) \subseteq Master'
                          /\ otherMaster'[e.job] >= OtherRows[e.job]
<1>d. \A i \in DOMAIN files : True(files[i])
  BY DEF EntriesAddUp, RecordedIsMerged
<1>e. ASSUME NEW e \in FileRecord, True(e) PROVE TrueNext(e)
  <2>1. e.job \in Jobs
    BY DEF FileRecord
  <2> QED
    BY <1>b, <1>c, <1>e, <2>1
<1>f. SUFFICES \A i \in DOMAIN files' : TrueNext(files'[i])
  BY <1>b DEF EntriesAddUp, RecordedIsMerged, Kept
<1> HIDE DEF True, TrueNext
<1>1. ASSUME NEW m \in Mergers, RecordFile(m) PROVE \A i \in DOMAIN files' : TrueNext(files'[i])
  <2> DEFINE e == [job |-> Job(m), added |-> merger[m].added,
                   duplicate |-> merger[m].duplicate, deleted |-> FALSE]
  <2>1. merger[m] \in MergeRecord /\ Job(m) \in Jobs
    BY <1>1, <1>a, JobType DEF RecordFile, At, TypeOK
  <2>2. e \in FileRecord
    BY <2>1 DEF FileRecord, MergeRecord
  <2>3. True(e)
    BY <1>1 DEF True, RecordFile, At, MergeInv, NothingBehind
  <2>4. files' = Append(files, e)
    BY <1>1 DEF RecordFile
  <2> HIDE DEF e
  <2>5. DOMAIN files' = 1..(Len(files) + 1) /\ DOMAIN files = 1..Len(files) /\ Len(files) \in Nat
    BY <1>a, <2>2, <2>4, AppendProperties, LenProperties
  <2>6. /\ \A i \in 1..Len(files) : files'[i] = files[i]
        /\ files'[Len(files) + 1] = e
    BY <1>a, <2>2, <2>4, AppendProperties
  <2>7. \A i \in DOMAIN files' : i \in DOMAIN files \/ i = Len(files) + 1
    BY <2>5
  <2> QED
    BY <1>a, <1>d, <1>e, <2>2, <2>3, <2>5, <2>6, <2>7
<1>2. ASSUME NEW k \in DOMAIN files, DeleteFile(k)
      PROVE  \A i \in DOMAIN files' : TrueNext(files'[i])
  <2>1. files' = [files EXCEPT ![k].deleted = TRUE]
    BY <1>2 DEF DeleteFile
  <2>2. DOMAIN files' = DOMAIN files
    BY <2>1
  <2>3. ASSUME NEW i \in DOMAIN files
        PROVE  /\ files'[i].job = files[i].job /\ files'[i].added = files[i].added
               /\ files'[i].duplicate = files[i].duplicate
    <3>1. files[i] \in FileRecord /\ files[k] \in FileRecord
      BY <1>a
    <3> QED
      BY <2>1, <3>1 DEF FileRecord
  <2>4. ASSUME NEW i \in DOMAIN files PROVE TrueNext(files'[i])
    <3>1. TrueNext(files[i])
      BY <1>a, <1>d, <1>e
    <3> QED
      BY <2>3, <3>1 DEF TrueNext
  <2> QED
    BY <2>2, <2>4
<1>3. ASSUME UNCHANGED files PROVE \A i \in DOMAIN files' : TrueNext(files'[i])
  BY <1>3, <1>a, <1>d, <1>e
<1>4. ASSUME NEW m \in Mergers, MergeStep(m), ~RecordFile(m) PROVE UNCHANGED files
  BY <1>4 DEF MergeStep, WorkerBegins, AdminBegins, ReadMissing, InsertRow, DuplicateKey,
              MergeFails, GiveUp, CommitMaster, CopyOther
<1>5. ASSUME NEW j \in Jobs, NEW outcome \in {"completed", "failed"}, RunEnds(j, outcome)
      PROVE  UNCHANGED files
  BY <1>5 DEF RunEnds
<1>6. ASSUME Crash \/ UNCHANGED vars PROVE UNCHANGED files
  BY <1>6 DEF Crash, vars
<1> QED
  BY <1>1, <1>2, <1>3, <1>4, <1>5, <1>6 DEF Next

LEMMA EntriesInvariant == Spec => [](EntriesAddUp /\ RecordedIsMerged)
<1>1. Init => EntriesAddUp /\ RecordedIsMerged
  BY DEF Init, EntriesAddUp, RecordedIsMerged
<1>2. MergeInv /\ EntriesAddUp /\ RecordedIsMerged /\ [Next]_vars
        => EntriesAddUp' /\ RecordedIsMerged'
  BY EntriesStep
<1> QED
  BY <1>1, <1>2, MergeInvariant, PTL DEF Spec

\* An entry's two counts are the kept rows of its job, whatever other merges did in
\* between (MasterMerge!EntriesAddUp; sp_FT_MergeToMaster.sql:69-83).
THEOREM CountsAreComplete == Spec => []EntriesAddUp
BY EntriesInvariant, PTL

\* An entry is the last thing a merge writes: all the rows of its job are in the two
\* tables by then (MasterMerge!RecordedIsMerged; master_service.py:85-166).
THEOREM RecordedMeansMerged == Spec => []RecordedIsMerged
BY EntriesInvariant, PTL
=============================================================================
