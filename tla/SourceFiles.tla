----------------------------- MODULE SourceFiles -----------------------------
(***************************************************************************)
(* What the import takes an uploaded file to be: a CSV file, read as one   *)
(* sheet, or a workbook whose sheets are combined under the union of their *)
(* headers.  A sheet is a header row and rows of cells, of any length.     *)
(***************************************************************************)
EXTENDS Naturals, SequencesExt

CONSTANTS
    Cells,          \* what a cell may hold
    Null, Empty,    \* a cell that is not there, the empty string
    Blanks,         \* header cells with nothing but white space, Empty among them
    KeyOf           \* what is left of a header's case and white space (_normalize_header)

ASSUME CellsAssumption == Null \in Cells

\* What is uploaded: a CSV file counts as one sheet.
SourceFile ==
    {file \in [kind : {"csv", "excel"},
               sheets : Seq([header : Seq(Cells), rows : Seq(Seq(Cells))])] :
        file.kind = "csv" => Len(file.sheets) = 1}

\* The elements of a sequence at the places given, in their order.
Only(s, places) ==
    FlattenSeq([i \in DOMAIN s |-> IF i \in places THEN << s[i] >> ELSE <<>>])

\* The orders in which the elements of a sequence may come.
Orders(s) == Bijection(DOMAIN s, DOMAIN s)

Named(cell) == cell # Null /\ cell \notin Blanks

\* The first spelling of every header that some sheet has.
UnifiedHeaders(sheets) ==
    LET cells == FlattenSeq([s \in DOMAIN sheets |-> sheets[s].header])
        Seen(i) == \E k \in 1..(i - 1) : Named(cells[k]) /\ KeyOf[cells[k]] = KeyOf[cells[i]]
    IN Only(cells, {i \in DOMAIN cells : Named(cells[i]) /\ ~Seen(i)})

Headers(file) ==
    IF file.kind = "csv" THEN file.sheets[1].header ELSE UnifiedHeaders(file.sheets)

\* A mutant of Aligned: cells go by their position in the row.
AlignedByPosition(headers, header, row) ==
    [u \in DOMAIN headers |-> IF u \in DOMAIN row THEN row[u] ELSE Null]

\* A cell goes under the header its own sheet gives it; of two columns with one
\* header the last one wins, be it empty or not.
Aligned(headers, header, row) ==
    [u \in DOMAIN headers |->
        LET columns == {c \in DOMAIN header \cap DOMAIN row :
                            Named(header[c]) /\ KeyOf[header[c]] = KeyOf[headers[u]]}
        IN IF columns = {} THEN Null ELSE row[Max(columns)]]

SheetRows(headers, sheet) ==
    LET HasCell(row) == \E c \in DOMAIN row : row[c] # Null
        rows == Only(sheet.rows, {r \in DOMAIN sheet.rows : HasCell(sheet.rows[r])})
    IN [r \in DOMAIN rows |-> Aligned(headers, sheet.header, rows[r])]

CsvRows(sheet) ==
    [r \in DOMAIN sheet.rows |->
        [c \in DOMAIN sheet.rows[r] |-> IF sheet.rows[r][c] = Empty THEN Null ELSE sheet.rows[r][c]]]

\* The rows in the order in which they are streamed into the table.
DataRows(file) ==
    IF file.kind = "csv" THEN CsvRows(file.sheets[1])
    ELSE FlattenSeq([s \in DOMAIN file.sheets |-> SheetRows(Headers(file), file.sheets[s])])

\* A row is padded or cut to n columns.
Fit(n, row) == [c \in 1..n |-> IF c \in DOMAIN row THEN row[c] ELSE Null]

-----------------------------------------------------------------------------
(* For the properties: what the file says, cell by cell, with no row of    *)
(* the table in mind.  A fact is the name of a column and a cell under it; *)
(* the columns of a CSV file go by their position.                         *)

NameOf(file, header, c) == IF file.kind = "csv" THEN c ELSE KeyOf[header[c]]

FactsOfRow(file, header, row) ==
    {<<NameOf(file, header, c), row[c]>> :
        c \in {d \in DOMAIN header \cap DOMAIN row :
                   /\ row[d] # Null
                   /\ IF file.kind = "csv" THEN row[d] # Empty ELSE Named(header[d])}}

\* A row of the file counts unless it is a row of a workbook without a cell.
Positions(file) ==
    UNION {{<<s, r>> : r \in {q \in DOMAIN file.sheets[s].rows :
                file.kind = "csv" \/ \E c \in DOMAIN file.sheets[s].rows[q] :
                                         file.sheets[s].rows[q][c] # Null}} :
           s \in DOMAIN file.sheets}

\* No sheet of a workbook gives two columns one header.
HeadersDiffer(file) ==
    file.kind = "csv" \/
    \A s \in DOMAIN file.sheets : LET header == file.sheets[s].header IN
        \A c, d \in DOMAIN header :
            Named(header[c]) /\ Named(header[d]) /\ KeyOf[header[c]] = KeyOf[header[d]] => c = d
=============================================================================
