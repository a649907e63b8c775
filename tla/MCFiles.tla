------------------------------- MODULE MCFiles -------------------------------
(* Files of ReportFiles for TLC.                                           *)
EXTENDS ReportFiles

MCCells  == {Null, "", " ", "a", "b", "long", "E-mail", "Name", "name"}
MCBlanks == {"", " "}
MCKeyOf  == [h \in {"", " ", "E-mail", "Name", "name"} |->
                CASE h \in {"Name", "name"} -> "name" [] OTHER -> h]

Csv(header, rows)    == [kind |-> "csv", sheets |-> << [header |-> header, rows |-> rows] >>]
Workbook(sheets)     == [kind |-> "excel", sheets |-> sheets]
Sheet(header, rows)  == [header |-> header, rows |-> rows]

CsvFiles == {
    \* no row; one; a full batch and a rest, one row twice; two full batches
    Csv(<<"E-mail">>, <<>>),
    Csv(<<"E-mail", "Name">>, << <<"a", "">> >>),
    Csv(<<"E-mail", "Name">>, << <<"a", "b">>, <<"b", "">>, <<"a", "b">> >>),
    Csv(<<"E-mail">>, << <<"a">>, <<"a">>, <<"a">>, <<"a">> >>),
    \* rows that are too short, too long, and a blank line
    Csv(<<"E-mail", "Name">>, << <<"a">>, <<"a", "b", "b">>, <<>> >>),
    \* a cell that is too long for its column, and one that is cut off
    Csv(<<"E-mail">>, << <<"a">>, <<"long">>, <<"a", "long">> >>),
    \* the same header twice, and none
    Csv(<<"Name", "Name">>, << <<"a", "b">>, <<"", "b">> >>),
    Csv(<<"", "Name">>, << <<"a", "b">> >>),
    Csv(<<>>, << <<"a">> >>) }

Workbooks == {
    \* two sheets with their columns in another order and another spelling,
    \* a column without a header, a row without a cell
    Workbook(<< Sheet(<<"E-mail", "Name">>, << <<"a", "b">>, <<Null, Null>> >>),
                Sheet(<<"name", " ", "E-mail">>, << <<"b", "a", "b">>, <<"b", Null, Null>> >>) >>),
    \* an empty sheet, then one with a column of its own, and a short row
    Workbook(<< Sheet(<<>>, <<>>),
                Sheet(<<"Name">>, << <<"b">> >>),
                Sheet(<<Null, "E-mail">>, << <<"b">>, <<"b", "">> >>) >>),
    \* a sheet with the same header twice
    Workbook(<< Sheet(<<"Name", "name">>, << <<"a", "b">>, <<"a", Null>> >>) >>),
    \* a cell that is too long, and one under no header
    Workbook(<< Sheet(<<"E-mail", "">>, << <<"a", "long">>, <<"long", Null>> >>) >>),
    \* no header at all
    Workbook(<< Sheet(<<"">>, << <<"a">> >>) >>) }

AllFiles == CsvFiles \cup Workbooks
=============================================================================
