----------------------------- MODULE ReportFiles -----------------------------
(***************************************************************************)
(* From the imported table to the files a user downloads: the counts in    *)
(* FT_JobResults, a CSV file for each category, the workbook, and the      *)
(* paths that make the CSV files available.  The disk keeps whatever a run *)
(* has written when it fails; FT_JobResults keeps what it has committed.   *)
(* The cleanup lists jobs that have ended and removes their files later,   *)
(* whatever has become of the job, and leaves FT_JobResults alone.         *)
(*                                                                         *)
(* Which category a row gets is the matter of Pipeline, and that a file    *)
(* selects the rows its count has counted: FilesMatchSummary there.        *)
(***************************************************************************)
EXTENDS StagingImport

CONSTANTS
    Categories,         \* the reason codes, and KEPT
    MaxRowsPerSheet,    \* EXCEL_MAX_ROWS_PER_SHEET
    NoFile, Torn        \* no file; a workbook that is not written to its end

ASSUME CategoriesAssumption == IsFiniteSet(Categories)
ASSUME NoFileAssumption == NoFile \notin Categories \cup Seq(Seq(Cells))
ASSUME MaxRowsAssumption == MaxRowsPerSheet \in Nat \ {0}

VARIABLES
    reason,         \* of each row of the table, its category
    totalRows,      \* of the job
    results,        \* FT_JobResults: of each category, count and whether a path is recorded
    csvs,           \* of each category, the CSV file on disk
    book,           \* Report.xlsx on disk: of each category, its sheets
    writing,        \* the categories to go, the one in hand, and the files written
    cleaning        \* whether a cleanup has put the job on its list

reportVars == <<reason, totalRows, results, csvs, book, writing>>
fileVars   == <<source, table, open, pc, reading, attempts, reportVars, cleaning>>

Rested == [left |-> {}, category |-> NoFile, files |-> {}]
NoResult == [count |-> 0, path |-> FALSE]

FilesInit ==
    /\ ImportInit
    /\ reason = <<>>
    /\ totalRows = 0
    /\ results = [c \in Categories |-> NoResult]
    /\ csvs = [c \in Categories |-> NoFile]
    /\ book = NoFile
    /\ writing = Rested
    /\ cleaning = FALSE

RowsIn(c) == {i \in DOMAIN table : reason[i] = c}
\* The rows of a category, as a scan of the table in some order finds them.
Scanned(c, order) ==
    LET is == Only(order, {k \in DOMAIN order : order[k] \in RowsIn(c)}) IN [k \in DOMAIN is |-> table[is[k]]]

Selected(c) == Scanned(c, [i \in DOMAIN table |-> i])
Listed == {c \in Categories : results[c].count > 0}

-----------------------------------------------------------------------------
CountRows ==
    /\ pc = "count"
    /\ totalRows' = Len(table)
    /\ Goto("filter")
    /\ UNCHANGED <<reason, results, csvs, book, writing>>

Filter ==
    /\ pc = "filter"
    /\ reason' \in [DOMAIN table -> Categories]
    /\ Goto("clear")
    /\ UNCHANGED <<totalRows, results, csvs, book, writing>>

ClearResults ==
    /\ pc = "clear"
    /\ results' = [c \in Categories |-> NoResult]
    /\ Goto("insert")
    /\ UNCHANGED <<reason, totalRows, csvs, book, writing>>

\* A mutant of InsertResults: the group without a reason code is left out.
InsertResultsTagged ==
    /\ pc = "insert"
    /\ results' = [c \in Categories |->
                      [NoResult EXCEPT !.count = IF c = "KEPT" THEN 0 ELSE Cardinality(RowsIn(c))]]
    /\ writing' = [Rested EXCEPT !.left = {c \in Categories : RowsIn(c) # {}}]
    /\ Goto("csvs")
    /\ UNCHANGED <<reason, totalRows, csvs, book>>

InsertResults ==
    /\ pc = "insert"
    /\ results' = [c \in Categories |-> [NoResult EXCEPT !.count = Cardinality(RowsIn(c))]]
    /\ writing' = [Rested EXCEPT !.left = {c \in Categories : RowsIn(c) # {}}]
    /\ Goto("csvs")
    /\ UNCHANGED <<reason, totalRows, csvs, book>>

-----------------------------------------------------------------------------
(* The files.  Opening one for writing empties it.                         *)

\* A mutant of OpenCsv: the path is recorded before the file is written.
OpenCsvRecords ==
    /\ pc = "csvs"
    /\ \E c \in writing.left :
        /\ csvs' = [csvs EXCEPT ![c] = <<>>]
        /\ results' = [results EXCEPT ![c].path = TRUE]
        /\ writing' = [writing EXCEPT !.left = @ \ {c}, !.category = c]
    /\ Goto("rows")
    /\ UNCHANGED <<reason, totalRows, book>>

OpenCsv ==
    /\ pc = "csvs"
    /\ \E c \in writing.left :
        /\ csvs' = [csvs EXCEPT ![c] = <<>>]
        /\ writing' = [writing EXCEPT !.left = @ \ {c}, !.category = c]
    /\ Goto("rows")
    /\ UNCHANGED <<reason, totalRows, results, book>>

WriteCsvRow ==
    LET c == writing.category IN
    /\ pc = "rows"
    /\ Len(csvs[c]) < Len(Selected(c))
    /\ csvs' = [csvs EXCEPT ![c] = Append(@, Selected(c)[Len(@) + 1])]
    /\ Goto("rows")
    /\ UNCHANGED <<reason, totalRows, results, book, writing>>

CloseCsv ==
    LET c == writing.category IN
    /\ pc = "rows"
    /\ csvs[c] = Selected(c)
    /\ IF csvs[c] = <<>>
       THEN /\ csvs' = [csvs EXCEPT ![c] = NoFile]
            /\ writing' = [writing EXCEPT !.category = NoFile]
       ELSE /\ writing' = [writing EXCEPT !.category = NoFile, !.files = @ \cup {c}]
            /\ UNCHANGED csvs
    /\ Goto("csvs")
    /\ UNCHANGED <<reason, totalRows, results, book>>

\* A mutant of Put: the row that opens a new sheet is forgotten.
PutDropsRow(sheets, row) ==
    IF Len(Last(sheets)) >= MaxRowsPerSheet
    THEN Append(sheets, <<>>)
    ELSE Append(Front(sheets), Append(Last(sheets), row))

\* A new sheet is begun when there is a row and the sheet has no place for it.
Put(sheets, row) ==
    IF Len(Last(sheets)) >= MaxRowsPerSheet
    THEN Append(sheets, << row >>)
    ELSE Append(Front(sheets), Append(Last(sheets), row))

Split(rows) == FoldLeft(Put, << <<>> >>, rows)

\* The workbook is put together in memory and then saved over the old one.
BeginSave ==
    /\ pc = "csvs"
    /\ writing.left = {}
    /\ book' = Torn
    /\ Goto("save")
    /\ UNCHANGED <<reason, totalRows, results, csvs, writing>>

\* Its rows are selected anew, and no ORDER BY makes that the order of the CSV files.
EndSave ==
    /\ pc = "save"
    /\ \E order \in Orders(table) : book' = [c \in Listed |-> Split(Scanned(c, order))]
    /\ writing' = [writing EXCEPT !.left = writing.files]
    /\ Goto("paths")
    /\ UNCHANGED <<reason, totalRows, results, csvs>>

RecordPath ==
    /\ pc = "paths"
    /\ \E c \in writing.left :
        /\ results' = [results EXCEPT ![c].path = results[c].count > 0]
        /\ writing' = [writing EXCEPT !.left = @ \ {c}]
    /\ Goto("paths")
    /\ UNCHANGED <<reason, totalRows, csvs, book>>

Complete ==
    /\ pc = "paths"
    /\ writing.left = {}
    /\ Goto("done")
    /\ UNCHANGED reportVars

ReportStep ==
    \/ CountRows
    \/ Filter
    \/ ClearResults
    \/ InsertResults
    \/ OpenCsv
    \/ WriteCsvRow
    \/ CloseCsv
    \/ BeginSave
    \/ EndSave
    \/ RecordPath
    \/ Complete

\* The tags go with the table; what the run has in memory goes with the run.
ImportLeaves ==
    /\ reason' = IF table' = NoTable THEN <<>> ELSE reason
    /\ writing' = IF pc' = "failed" THEN Rested ELSE writing
    /\ UNCHANGED <<totalRows, results, csvs, book>>

-----------------------------------------------------------------------------
(* The cleanup of reports.  It may be slow to remove what it has on its    *)
(* list; what is open for writing cannot be removed.                       *)

ListOutput ==
    /\ ~cleaning
    /\ pc \in {"failed", "done"}
    /\ cleaning' = TRUE
    /\ UNCHANGED <<importVars, reportVars>>

RemoveFile ==
    /\ cleaning
    /\ \/ \E c \in Categories \ {writing.category} :
            csvs[c] # NoFile /\ csvs' = [csvs EXCEPT ![c] = NoFile] /\ UNCHANGED book
       \/ pc # "save" /\ book # NoFile /\ book' = NoFile /\ UNCHANGED csvs
    /\ UNCHANGED <<importVars, reason, totalRows, results, writing, cleaning>>

FilesNext ==
    \/ ImportStep /\ ImportLeaves /\ UNCHANGED cleaning
    \/ ReportStep /\ UNCHANGED <<table, open, reading, cleaning>>
    \/ ListOutput
    \/ RemoveFile

FilesSpec == FilesInit /\ [][FilesNext]_fileVars

-----------------------------------------------------------------------------
(* Properties.                                                             *)

(* A file that FT_JobResults offers is there with as many rows as its      *)
(* count says, or the cleanup has removed it: at every moment, while a     *)
(* later run of the job rewrites the files, and after a run that has       *)
(* failed between two of them.                                             *)
RecordedIsWhole ==
    \A c \in Categories : results[c].path =>
        IF csvs[c] = NoFile THEN cleaning ELSE Len(csvs[c]) = results[c].count

(* Once the job is done, the sheets of a category hold the rows of its CSV *)
(* file, each of them once, in whatever order; no sheet exceeds what Excel *)
(* can hold, and none is empty.                                            *)
SheetsHoldCategory ==
    (pc = "done" /\ book # NoFile) =>
        /\ DOMAIN book = {c \in Categories : results[c].path}
        /\ \A c \in DOMAIN book :
            /\ csvs[c] # NoFile => \E order \in Orders(csvs[c]) :
                    FlattenSeq(book[c]) = [i \in DOMAIN csvs[c] |-> csvs[c][order[i]]]
            /\ \A k \in DOMAIN book[c] : Len(book[c][k]) \in 1..MaxRowsPerSheet

(* Once the job is done, the counts of its categories add up to the rows   *)
(* of the file that was uploaded, and so do the rows of the files that are *)
(* offered, while the cleanup leaves them there: but for what BULK INSERT  *)
(* has passed over, no row has been lost, and none is delivered twice, on  *)
(* the way through two connections, a fallback, batches and failed runs.   *)
EveryRowDelivered ==
    pc = "done" =>
        LET offered == {c \in Categories : results[c].path} IN
        /\ totalRows \in Cardinality(Sure)..Cardinality(Positions(source))
        /\ totalRows = SumFunction([c \in Categories |-> results[c].count])
        /\ (\A c \in offered : csvs[c] # NoFile) =>
               totalRows = SumFunction([c \in offered |-> Len(csvs[c])])

-----------------------------------------------------------------------------
(* The inductive invariant behind the properties.                          *)

Tagging   == {"clear", "insert"}
Writing   == {"csvs", "rows", "save", "paths", "done"}

ReportTypeOK ==
    /\ totalRows \in Nat
    /\ results \in [Categories -> [count : Nat, path : BOOLEAN]]
    /\ csvs \in [Categories -> Rows \cup {NoFile}]
    /\ writing \in [left : SUBSET Categories, category : Categories \cup {NoFile},
                    files : SUBSET Categories]
    /\ cleaning \in BOOLEAN

\* The numbers are those of the table, which nobody touches any more.
Counted ==
    /\ pc \in {"filter"} \cup Tagging \cup Writing => totalRows = Len(table)
    /\ pc \in Tagging \cup Writing => reason \in [DOMAIN table -> Categories]
    /\ pc \in Writing => \A c \in Categories : results[c].count = Cardinality(RowsIn(c))

\* A category with rows has its file to come, in hand, or behind it.
Filled == {c \in Categories : RowsIn(c) # {}}

WorkLeft ==
    /\ pc \in {"csvs", "rows"} => writing.left \cap writing.files = {}
    /\ pc = "csvs" => writing.category = NoFile /\ Filled = writing.left \cup writing.files
    /\ pc = "rows" =>
          /\ writing.category \in Filled \ (writing.left \cup writing.files)
          /\ csvs[writing.category] # NoFile
          /\ Filled = writing.left \cup {writing.category} \cup writing.files
    /\ pc \in {"save", "paths", "done"} => Filled = writing.files /\ writing.left \subseteq Filled
    /\ pc = "done" => writing.left = {}

\* No path leads to a file while the files are made; then there are paths to those
\* that are not left.
PathsLast ==
    /\ pc \in {"insert", "csvs", "rows", "save"} => \A c \in Categories : ~results[c].path
    /\ pc \in {"paths", "done"} =>
          \A c \in Categories : results[c].path <=> c \in Filled \ writing.left

\* A file that is closed has all its rows, unless the cleanup has removed it.
ClosedIsWhole ==
    pc \in Writing =>
        \A c \in writing.files : IF csvs[c] = NoFile THEN cleaning ELSE csvs[c] = Selected(c)

\* The workbook that is saved has been made of the table, read in some order.
BookKept ==
    (pc \in {"paths", "done"} /\ book # NoFile) =>
        \E order \in Orders(table) : book = [c \in Filled |-> Split(Scanned(c, order))]

FilesInv ==
    /\ ImportInv /\ ReportTypeOK /\ Counted /\ WorkLeft /\ PathsLast /\ ClosedIsWhole
    /\ BookKept /\ RecordedIsWhole
=============================================================================
