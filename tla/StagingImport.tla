---------------------------- MODULE StagingImport ----------------------------
(***************************************************************************)
(* The import of one job's file into its staging table: CREATE TABLE, for  *)
(* a CSV file BULK INSERT, else or after its failure batches of rows, one  *)
(* transaction for all of them, and the columns of the pipeline.  Who runs *)
(* the job and what its Status is, is the matter of JobLifecycle; here the *)
(* run may fail or die at every step and be made again.                    *)
(***************************************************************************)
EXTENDS SourceFiles

CONSTANTS
    Files,          \* the files that may be uploaded
    ChunkSize,      \* rows in a batch
    TooLong,        \* cells that do not fit into NVARCHAR(4000)
    MaxErrors,      \* rows BULK INSERT passes over before it gives up (MAXERRORS)
    MaxAttempts,    \* bound: how often the job is run
    NoTable

ASSUME FilesAssumption == Files \subseteq SourceFile
ASSUME NoTableAssumption == NoTable \notin Seq(Seq(Cells))
ASSUME ChunkSizeAssumption == ChunkSize \in Nat \ {0}
ASSUME TooLongAssumption == TooLong \subseteq Cells \ {Null, Empty}
ASSUME MaxErrorsAssumption == MaxErrors \in Nat
ASSUME MaxAttemptsAssumption == MaxAttempts \in Nat

VARIABLES
    source,         \* the file; never changed
    table,          \* the rows of the staging table as committed, or NoTable
    open,           \* rows inserted and not committed
    pc,             \* what the run does next
    reading,        \* the next row of the file, and the batch read so far
    attempts

importVars == <<source, table, open, pc, reading, attempts>>

Width == Len(Headers(source))
Stream == DataRows(source)
AtStart == [next |-> 1, batch |-> <<>>]

ImportInit ==
    /\ source \in Files
    /\ table = NoTable
    /\ open = <<>>
    /\ pc = "idle"
    /\ reading = AtStart
    /\ attempts = 0

\* No cell of a row is too long for its column.
Fitting(row) == \A c \in DOMAIN row : row[c] \notin TooLong

\* BULK INSERT, to which only CSV files come, loads the rows that fit the table.
Loads(file, row) == file.kind = "csv" => Len(row) = Len(Headers(file)) /\ Fitting(row)

Goto(next) == pc' = next /\ UNCHANGED <<source, attempts>>

Begin ==
    /\ pc \in {"idle", "failed"}
    /\ attempts < MaxAttempts
    /\ attempts' = attempts + 1
    /\ pc' = "create"
    /\ reading' = AtStart
    /\ UNCHANGED <<source, table, open>>

\* Without a column, or over a table that exists, CREATE TABLE fails: Fail.
CreateStaging ==
    /\ pc = "create"
    /\ table = NoTable
    /\ Width > 0
    /\ table' = <<>>
    /\ Goto(IF source.kind = "csv" THEN "bulk" ELSE "stream")
    /\ UNCHANGED <<open, reading>>

-----------------------------------------------------------------------------
(* BULK INSERT reads the file by itself, a row for a row.  The statement   *)
(* sets no MAXERRORS, so that a few rows of another width than the table,  *)
(* or with a cell too long for it, are passed over in silence.  It may     *)
(* fail at any row, if only because the file is out of its sight.          *)

BulkRow ==
    /\ pc = "bulk"
    /\ reading.next \in DOMAIN Stream
    /\ Loads(source, Stream[reading.next])
    /\ open' = Append(open, Stream[reading.next])
    /\ reading' = [reading EXCEPT !.next = @ + 1]
    /\ Goto("bulk")
    /\ UNCHANGED table

BulkPassOver ==
    /\ pc = "bulk"
    /\ reading.next \in DOMAIN Stream
    /\ ~Loads(source, Stream[reading.next])
    /\ reading.next - 1 - Len(open) < MaxErrors
    /\ reading' = [reading EXCEPT !.next = @ + 1]
    /\ Goto("bulk")
    /\ UNCHANGED <<table, open>>

BulkCommit ==
    /\ pc = "bulk"
    /\ reading.next > Len(Stream)
    /\ table' = table \o open
    /\ open' = <<>>
    /\ Goto("columns")
    /\ UNCHANGED reading

\* A mutant of BulkFails: the rollback is forgotten.
BulkFailsUndone ==
    /\ pc = "bulk"
    /\ reading' = AtStart
    /\ Goto("stream")
    /\ UNCHANGED <<table, open>>

\* The fallback begins anew, in a new transaction.
BulkFails ==
    /\ pc = "bulk"
    /\ open' = <<>>
    /\ reading' = AtStart
    /\ Goto("stream")
    /\ UNCHANGED table

-----------------------------------------------------------------------------
\* A row is read; a batch that is full is inserted, unless a cell is too long: Fail.
ReadRow ==
    /\ pc = "stream"
    /\ reading.next \in DOMAIN Stream
    /\ LET batch == Append(reading.batch, Fit(Width, Stream[reading.next])) IN
       IF Len(batch) >= ChunkSize
       THEN /\ \A i \in DOMAIN batch : Fitting(batch[i])
            /\ open' = open \o batch
            /\ reading' = [next |-> reading.next + 1, batch |-> <<>>]
       ELSE /\ reading' = [next |-> reading.next + 1, batch |-> batch]
            /\ UNCHANGED open
    /\ Goto("stream")
    /\ UNCHANGED table

\* The rest, and the commit of it all.
EndOfFile ==
    /\ pc = "stream"
    /\ reading.next > Len(Stream)
    /\ \A i \in DOMAIN reading.batch : Fitting(reading.batch[i])
    /\ table' = table \o open \o reading.batch
    /\ open' = <<>>
    /\ reading' = [reading EXCEPT !.batch = <<>>]
    /\ Goto("columns")

\* RowID is given to rows that are there already, in whatever order.
AddPipelineColumns ==
    /\ pc = "columns"
    /\ \E place \in Orders(table) : table' = [i \in DOMAIN table |-> table[place[i]]]
    /\ Goto("count")
    /\ UNCHANGED <<open, reading>>

\* An error, a cancellation, or the death of the process: the connection is
\* closed, and what it has not committed is undone.
Fail ==
    /\ pc \notin {"idle", "failed", "done"}
    /\ open' = <<>>
    /\ reading' = AtStart
    /\ Goto("failed")
    /\ UNCHANGED table

\* The retention cleanup: the only way to a second import.
DropStaging ==
    /\ pc = "failed"
    /\ table # NoTable
    /\ table' = NoTable
    /\ Goto(pc)
    /\ UNCHANGED <<open, reading>>

ImportStep ==
    \/ Begin
    \/ CreateStaging
    \/ BulkRow
    \/ BulkPassOver
    \/ BulkCommit
    \/ BulkFails
    \/ ReadRow
    \/ EndOfFile
    \/ AddPipelineColumns
    \/ Fail
    \/ DropStaging

-----------------------------------------------------------------------------
(* Properties.                                                             *)

FactsOfEntry(row) == {<<IF source.kind = "csv" THEN c ELSE KeyOf[Headers(source)[c]], row[c]>> :
                          c \in {d \in DOMAIN row : row[d] # Null}}

SourceFacts(at) ==
    LET sheet == source.sheets[at[1]] IN FactsOfRow(source, sheet.header, sheet.rows[at[2]])

\* The rows that BULK INSERT cannot pass over.
Sure ==
    {at \in Positions(source) : Loads(source, source.sheets[at[1]].rows[at[2]])}

(* Whenever somebody looks, the table of a job has no row at all or one    *)
(* row for each row of the file, but for those that BULK INSERT cannot     *)
(* load and has passed over: whichever of BULK INSERT, the fallback and the  *)
(* batches have been tried, wherever the batches end, and wherever a run   *)
(* has failed.                                                             *)
TableIsEmptyOrWhole ==
    table \in {NoTable, <<>>} \/ Len(table) \in Cardinality(Sure)..Cardinality(Positions(source))

(* An imported row has each of its cells under the header its own sheet    *)
(* gives it, and no other cells: as often as the file has a row with just  *)
(* these cells, the table has one, but for those passed over.  (Of two     *)
(* columns of a sheet with the same header only the last is kept, so such  *)
(* files are left out.)                                                    *)
CellsUnderTheirHeaders ==
    (table \notin {NoTable, <<>>} /\ HeadersDiffer(source)) =>
        \A facts \in {FactsOfEntry(table[i]) : i \in DOMAIN table} \cup {SourceFacts(at) : at \in Sure} :
            Cardinality({i \in DOMAIN table : FactsOfEntry(table[i]) = facts})
              \in Cardinality({at \in Sure : SourceFacts(at) = facts})
                 ..Cardinality({at \in Positions(source) : SourceFacts(at) = facts})

-----------------------------------------------------------------------------
(* The inductive invariant behind the properties.                          *)

Rows == Seq(Seq(Cells))

ImportTypeOK ==
    /\ source \in Files
    /\ table \in Rows \cup {NoTable}
    /\ open \in Rows
    /\ reading \in [next : 1..(Len(Stream) + 1), batch : Rows]
    /\ attempts \in Nat

\* What a run has on its hands belongs to its import.
NothingLeftOpen ==
    /\ pc \notin {"bulk", "stream"} => open = <<>>
    /\ pc \in {"bulk", "stream"} => table = <<>>
    /\ pc = "create" => reading = AtStart

\* The rows read so far are inserted, in the batch, or passed over.
ReadIsKept ==
    /\ pc = "bulk" =>
          /\ source.kind = "csv"
          /\ Len(open) = Cardinality({i \in 1..(reading.next - 1) : Loads(source, Stream[i])})
    /\ pc = "stream" => Len(open) + Len(reading.batch) = reading.next - 1

\* After its import a run works on a table that is whole.
Imported == pc \notin {"idle", "create", "bulk", "stream", "failed"}

ImportedIsWhole ==
    Imported => table \in Rows /\ Len(table) \in Cardinality(Sure)..Cardinality(Positions(source))

ImportInv ==
    ImportTypeOK /\ NothingLeftOpen /\ ReadIsKept /\ ImportedIsWhole /\ TableIsEmptyOrWhole

\* Rows that stem from the first n of the stream, each from another one, and none that
\* can be loaded is left out.
Drawn(rows, n) ==
    \E from \in Injection(DOMAIN rows, 1..n) :
        /\ \A k \in DOMAIN rows : rows[k] = Fit(Width, Stream[from[k]])
        /\ \A i \in 1..n : Loads(source, Stream[i]) => \E k \in DOMAIN rows : from[k] = i

\* So do the rows inserted and in the batch, and in the end those of the table.
RowsAreDrawn ==
    /\ pc = "bulk" => Drawn(open, reading.next - 1)
    /\ pc = "stream" => Drawn(open \o reading.batch, reading.next - 1)
    /\ table \notin {NoTable, <<>>} => Drawn(table, Len(Stream))
=============================================================================
