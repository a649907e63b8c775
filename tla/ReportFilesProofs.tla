-------------------------- MODULE ReportFilesProofs --------------------------
(***************************************************************************)
(* Proofs about the import and the files of a job, for every file that can *)
(* be uploaded, every size of a batch and a sheet, and any categories:     *)
(* wherever runs fail, the table is empty or whole, the counts and the     *)
(* files add up to it, and no path leads to a part of a file.              *)
(***************************************************************************)
EXTENDS ReportFiles, FoldFacts, SequenceTheorems, FiniteSetTheorems, TLAPS

-----------------------------------------------------------------------------
(* The elements at some places of a sequence.                              *)

\* Elements taken at some places are as many as the places.
LEMMA OnlyFacts ==
    ASSUME NEW S, NEW s \in Seq(S), NEW places \in SUBSET DOMAIN s
    PROVE  /\ Only(s, places) \in Seq(S)
           /\ IsFiniteSet(places) /\ Len(Only(s, places)) = Cardinality(places)
<1> DEFINE n == Len(s)
           seqs == [i \in DOMAIN s |-> IF i \in places THEN << s[i] >> ELSE <<>>]
           f == [i \in 1..n |-> Len(seqs[i])]
           D == [i \in 1..n |-> IF i \in places THEN {i} ELSE {}]
<1>1. n \in Nat /\ DOMAIN s = 1..n /\ \A i \in 1..n : s[i] \in S
  BY ElementOfSeq, LenProperties
<1>2. ASSUME NEW i \in 1..n PROVE seqs[i] \in Seq(S) /\ Len(seqs[i]) = Cardinality(D[i])
  <2>1. s[i] \in S
    BY <1>1
  <2>2. << s[i] >> \in Seq(S) /\ Len(<< s[i] >>) = 1 /\ <<>> \in Seq(S) /\ Len(<<>>) = 0
    BY <2>1
  <2>3. Cardinality({i}) = 1 /\ Cardinality({}) = 0
    BY FS_Singleton, FS_EmptySet
  <2> QED
    BY <1>1, <2>2, <2>3
<1>3. seqs \in Seq(Seq(S)) /\ Len(seqs) = n
  <2>1. seqs \in [1..n -> Seq(S)]
    BY <1>1, <1>2
  <2> HIDE DEF seqs
  <2> QED
    BY <1>1, <2>1, SeqIs
<1>4. FlattenSeq(seqs) \in Seq(S) /\ Len(FlattenSeq(seqs)) = SumFunctionOnSet(f, 1..n)
  <2>1. \A i \in 1..Len(seqs) : f[i] = Len(seqs[i])
    BY <1>3
  <2> HIDE DEF seqs, f
  <2>2. FlattenSeq(seqs) \in Seq(S) /\ Len(FlattenSeq(seqs)) = SumFunctionOnSet(f, 1..Len(seqs))
    BY <1>3, <2>1, FlattenFacts
  <2> QED
    BY <1>3, <2>2
<1>5. /\ IsFiniteSet(UNION {D[i] : i \in 1..n})
      /\ Cardinality(UNION {D[i] : i \in 1..n}) = SumFunctionOnSet(f, 1..n)
  <2>1. IsFiniteSet(1..n)
    BY <1>1, FS_Interval
  <2>2. \A i \in 1..n : IsFiniteSet(D[i])
    BY FS_Singleton, FS_EmptySet
  <2>3. \A i, k \in 1..n : i # k => D[i] \cap D[k] = {}
    OBVIOUS
  <2>4. \A i \in 1..n : f[i] = Cardinality(D[i])
    BY <1>2
  <2> HIDE DEF D, f
  <2> QED
    BY <2>1, <2>2, <2>3, <2>4, SumOfSizes
<1>6. UNION {D[i] : i \in 1..n} = places
  BY <1>1
<1>7. Only(s, places) = FlattenSeq(seqs)
  BY DEF Only
<1> QED
  BY <1>4, <1>5, <1>6, <1>7

\* b tells where the elements at some places of s have gone, each of them once.
Keeps(b, s, places, part) ==
    /\ b \in Bijection(places, 1..Len(part))
    /\ \A i \in places : part[b[i]] = s[i]

LEMMA OnlyKeeps ==
    ASSUME NEW S, NEW s \in Seq(S), NEW places \in SUBSET DOMAIN s
    PROVE  \E b : Keeps(b, s, places, Only(s, places))
<1> DEFINE n == Len(s)
           seqs == [i \in DOMAIN s |-> IF i \in places THEN << s[i] >> ELSE <<>>]
           all == Places(seqs, n)
<1>1. n \in Nat /\ DOMAIN s = 1..n /\ \A i \in 1..n : s[i] \in S
  BY ElementOfSeq, LenProperties
<1>2. ASSUME NEW i \in 1..n
      PROVE  /\ seqs[i] \in Seq(S)
             /\ i \in places => Len(seqs[i]) = 1 /\ seqs[i][1] = s[i]
             /\ i \notin places => Len(seqs[i]) = 0
  <2>1. s[i] \in S
    BY <1>1
  <2>2. /\ << s[i] >> \in Seq(S) /\ Len(<< s[i] >>) = 1 /\ << s[i] >>[1] = s[i]
        /\ <<>> \in Seq(S) /\ Len(<<>>) = 0
    BY <2>1
  <2> QED
    BY <1>1, <2>2
<1>3. seqs \in Seq(Seq(S)) /\ Len(seqs) = n
  <2>1. seqs \in [1..n -> Seq(S)]
    BY <1>1, <1>2
  <2> HIDE DEF seqs
  <2> QED
    BY <1>1, <2>1, SeqIs
<1>4. all = {<<i, 1>> : i \in places}
  <2> HIDE DEF seqs
  <2>1. 1..1 = {1} /\ 1..0 = {}
    OBVIOUS
  <2>2. ASSUME NEW i \in places PROVE <<i, 1>> \in all
    <3>1. i \in 1..n /\ 1 \in 1..Len(seqs[i])
      BY <1>1, <1>2, <2>1
    <3> QED
      BY <3>1 DEF Places
  <2>3. ASSUME NEW i \in 1..n, NEW j \in 1..Len(seqs[i]) PROVE i \in places /\ j = 1
    <3>1. i \notin places => Len(seqs[i]) = 0
      BY <1>2
    <3>2. i \in places
      BY <2>1, <3>1
    <3>3. Len(seqs[i]) = 1
      BY <1>2, <3>2
    <3> QED
      BY <2>1, <3>2, <3>3
  <2>4. \A p \in all : \E i \in 1..n : \E j \in 1..Len(seqs[i]) : p = <<i, j>>
    BY DEF Places
  <2> HIDE DEF all
  <2>5. ASSUME NEW p \in all PROVE \E i \in places : p = <<i, 1>>
    <3>1. PICK i \in 1..n : \E j \in 1..Len(seqs[i]) : p = <<i, j>>
      BY <2>4
    <3>2. PICK j \in 1..Len(seqs[i]) : p = <<i, j>>
      BY <3>1
    <3>3. i \in places /\ j = 1
      BY <2>3
    <3> QED
      BY <3>2, <3>3
  <2> QED
    BY <2>2, <2>5
<1>5. Only(s, places) = FlattenSeq(seqs)
  BY DEF Only
<1>6. PICK d : Leads(d, all, seqs, Only(s, places))
  <2> HIDE DEF seqs
  <2> QED
    BY <1>3, <1>5, FlattenLeads
<1> DEFINE b == [i \in places |-> d[<<i, 1>>]]
           m == Len(Only(s, places))
<1> HIDE DEF all
<1>7. b \in [places -> 1..m]
  BY <1>4, <1>6 DEF Leads
<1>8. \A i, k \in places : b[i] = b[k] => i = k
  BY <1>4, <1>6 DEF Leads
<1>9. ASSUME NEW k \in 1..m PROVE \E i \in places : b[i] = k
  <2>1. PICK p \in all : d[p] = k
    BY <1>6 DEF Leads
  <2>2. PICK i \in places : p = <<i, 1>>
    BY <1>4
  <2> QED
    BY <2>1, <2>2
<1>10. ASSUME NEW i \in places PROVE Only(s, places)[b[i]] = s[i]
  <2>1. <<i, 1>> \in all /\ <<i, 1>>[1] = i /\ <<i, 1>>[2] = 1 /\ seqs[i][1] = s[i]
    BY <1>1, <1>2, <1>4
  <2> HIDE DEF seqs
  <2>2. Only(s, places)[d[<<i, 1>>]] = seqs[i][1]
    BY <1>6, <2>1 DEF Leads
  <2> QED
    BY <2>1, <2>2
<1> HIDE DEF b
<1>11. b \in Bijection(places, 1..m)
  BY <1>7, <1>8, <1>9 DEF Bijection, Injection, Surjection, IsInjective
<1>12. Keeps(b, s, places, Only(s, places))
  BY <1>10, <1>11 DEF Keeps
<1> QED
  BY <1>12

-----------------------------------------------------------------------------
(* What a file holds.                                                      *)

LEMMA PairsCount ==
    ASSUME NEW s, NEW T, IsFiniteSet(T)
    PROVE  /\ IsFiniteSet({<<s, r>> : r \in T})
           /\ Cardinality({<<s, r>> : r \in T}) = Cardinality(T)
<1> DEFINE P == {<<s, r>> : r \in T}
           f == [r \in T |-> <<s, r>>]
<1>1. f \in Bijection(T, P)
  BY DEF Bijection, Injection, Surjection, IsInjective
<1>2. ExistsBijection(T, P)
  BY <1>1 DEF ExistsBijection
<1> HIDE DEF P
<1>3. IsFiniteSet(P) /\ Cardinality(P) = Cardinality(T)
  BY <1>2, FS_Bijection
<1> QED
  BY <1>3 DEF P

LEMMA SheetType ==
    ASSUME NEW file \in SourceFile, NEW s \in DOMAIN file.sheets
    PROVE  /\ file.sheets[s].header \in Seq(Cells)
           /\ file.sheets[s].rows \in Rows
<1> DEFINE Sheet == [header : Seq(Cells), rows : Seq(Seq(Cells))]
<1>1. file.sheets \in Seq(Sheet)
  BY DEF SourceFile
<1> HIDE DEF Sheet
<1>2. file.sheets[s] \in Sheet
  BY <1>1, ElementOfSeq, LenProperties
<1> QED
  BY <1>2 DEF Sheet, Rows

LEMMA SheetsType ==
    ASSUME NEW file \in SourceFile
    PROVE  /\ Len(file.sheets) \in Nat /\ DOMAIN file.sheets = 1..Len(file.sheets)
           /\ file.kind \in {"csv", "excel"}
           /\ file.kind = "csv" => DOMAIN file.sheets = {1}
<1> DEFINE Sheet == [header : Seq(Cells), rows : Seq(Seq(Cells))]
<1>1. file.sheets \in Seq(Sheet)
  BY DEF SourceFile
<1> HIDE DEF Sheet
<1>2. Len(file.sheets) \in Nat /\ DOMAIN file.sheets = 1..Len(file.sheets)
  BY <1>1, LenProperties
<1>3. file.kind \in {"csv", "excel"} /\ (file.kind = "csv" => Len(file.sheets) = 1)
  BY DEF SourceFile
<1>4. ASSUME file.kind = "csv" PROVE DOMAIN file.sheets = {1}
  <2>1. Len(file.sheets) = 1 /\ 1..1 = {1}
    BY <1>3, <1>4
  <2> QED
    BY <1>2, <2>1
<1> QED
  BY <1>2, <1>3, <1>4

LEMMA HeadersType ==
    ASSUME NEW file \in SourceFile
    PROVE  Headers(file) \in Seq(Cells)
<1>1. CASE file.kind = "csv"
  BY <1>1, SheetType, SheetsType DEF Headers
<1>2. CASE file.kind # "csv"
  <2> DEFINE n == Len(file.sheets)
             heads == [s \in DOMAIN file.sheets |-> file.sheets[s].header]
             f == [s \in 1..n |-> Len(heads[s])]
             cells == FlattenSeq(heads)
  <2>1. n \in Nat /\ DOMAIN file.sheets = 1..n
    BY SheetsType
  <2>2. heads \in [1..n -> Seq(Cells)]
    BY <2>1, SheetType
  <2>3. cells \in Seq(Cells)
    <3> HIDE DEF heads, f
    <3>1. heads \in Seq(Seq(Cells)) /\ Len(heads) = n
      BY <2>1, <2>2, SeqIs
    <3>2. \A i \in 1..Len(heads) : f[i] = Len(heads[i])
      BY <3>1 DEF f
    <3> QED
      BY <3>1, <3>2, FlattenFacts
  <2> HIDE DEF cells
  <2>4. \A places \in SUBSET DOMAIN cells : Only(cells, places) \in Seq(Cells)
    BY <2>3, OnlyFacts
  <2>5. UnifiedHeaders(file.sheets) \in Seq(Cells)
    BY <2>4 DEF UnifiedHeaders, cells
  <2> QED
    BY <1>2, <2>5 DEF Headers
<1> QED
  BY <1>1, <1>2

LEMMA AlignedType ==
    ASSUME NEW headers \in Seq(Cells), NEW header, NEW row \in Seq(Cells)
    PROVE  Aligned(headers, header, row) \in Seq(Cells)
<1>1. /\ DOMAIN headers = 1..Len(headers) /\ Len(headers) \in Nat
      /\ DOMAIN row = 1..Len(row) /\ Len(row) \in Nat /\ \A c \in DOMAIN row : row[c] \in Cells
  BY ElementOfSeq, LenProperties
<1>2. ASSUME NEW columns \in SUBSET DOMAIN row
      PROVE  (IF columns = {} THEN Null ELSE row[Max(columns)]) \in Cells
  BY <1>1, MaxIsThere, CellsAssumption
<1>3. ASSUME NEW u \in DOMAIN headers PROVE Aligned(headers, header, row)[u] \in Cells
  <2> DEFINE columns == {c \in DOMAIN header \cap DOMAIN row :
                            Named(header[c]) /\ KeyOf[header[c]] = KeyOf[headers[u]]}
  <2>1. columns \in SUBSET DOMAIN row
    OBVIOUS
  <2>2. Aligned(headers, header, row)[u] = IF columns = {} THEN Null ELSE row[Max(columns)]
    BY DEF Aligned
  <2> HIDE DEF columns
  <2> QED
    BY <1>2, <2>1, <2>2
<1>4. Aligned(headers, header, row) \in [1..Len(headers) -> Cells]
  BY <1>1, <1>3 DEF Aligned
<1> QED
  BY <1>1, <1>4, SeqIs

\* The rows of a sheet that have a cell.
WithCell(sheet) == {r \in DOMAIN sheet.rows : \E c \in DOMAIN sheet.rows[r] : sheet.rows[r][c] # Null}

LEMMA SheetRowsFacts ==
    ASSUME NEW headers \in Seq(Cells), NEW sheet, sheet.rows \in Rows
    PROVE  /\ SheetRows(headers, sheet) \in Rows
           /\ IsFiniteSet(WithCell(sheet))
           /\ Len(SheetRows(headers, sheet)) = Cardinality(WithCell(sheet))
<1> DEFINE rows == Only(sheet.rows, WithCell(sheet))
<1>1. /\ rows \in Rows /\ IsFiniteSet(WithCell(sheet))
      /\ Len(rows) = Cardinality(WithCell(sheet))
  BY OnlyFacts DEF Rows, WithCell
<1>2. SheetRows(headers, sheet) = [r \in DOMAIN rows |-> Aligned(headers, sheet.header, rows[r])]
  BY DEF SheetRows, WithCell
<1> HIDE DEF rows
<1>3. DOMAIN rows = 1..Len(rows) /\ Len(rows) \in Nat /\ \A r \in DOMAIN rows : rows[r] \in Seq(Cells)
  BY <1>1, ElementOfSeq, LenProperties DEF Rows
<1>4. SheetRows(headers, sheet) \in [1..Len(rows) -> Seq(Cells)]
  BY <1>2, <1>3, AlignedType
<1>5. SheetRows(headers, sheet) \in Rows /\ Len(SheetRows(headers, sheet)) = Len(rows)
  BY <1>3, <1>4, SeqIs DEF Rows
<1> QED
  BY <1>1, <1>5

\* Each row of the file that counts is one of the rows streamed into the table.
LEMMA DataRowsFacts ==
    ASSUME NEW file \in SourceFile
    PROVE  /\ DataRows(file) \in Rows
           /\ IsFiniteSet(Positions(file))
           /\ Len(DataRows(file)) = Cardinality(Positions(file))
<1>1. CASE file.kind = "csv"
  <2> DEFINE rows == file.sheets[1].rows
             stream == CsvRows(file.sheets[1])
  <2>1. 1 \in DOMAIN file.sheets /\ DOMAIN file.sheets = {1}
    BY <1>1, SheetsType
  <2>2. rows \in Rows
    BY <2>1, SheetType
  <2> HIDE DEF rows
  <2>3. /\ DOMAIN rows = 1..Len(rows) /\ Len(rows) \in Nat
        /\ \A r \in DOMAIN rows : rows[r] \in Seq(Cells)
    BY <2>2, ElementOfSeq, LenProperties DEF Rows
  <2>4. ASSUME NEW r \in DOMAIN rows
        PROVE  [c \in DOMAIN rows[r] |-> IF rows[r][c] = Empty THEN Null ELSE rows[r][c]]
                 \in Seq(Cells)
    <3>1. /\ DOMAIN rows[r] = 1..Len(rows[r]) /\ Len(rows[r]) \in Nat
          /\ \A c \in DOMAIN rows[r] : rows[r][c] \in Cells
      BY <2>3, ElementOfSeq, LenProperties
    <3> DEFINE row == [c \in DOMAIN rows[r] |-> IF rows[r][c] = Empty THEN Null ELSE rows[r][c]]
    <3>2. row \in [1..Len(rows[r]) -> Cells]
      BY <3>1, CellsAssumption
    <3> HIDE DEF row
    <3>3. row \in Seq(Cells)
      BY <3>1, <3>2, SeqIs
    <3> QED
      BY <3>3 DEF row
  <2>5. stream \in [1..Len(rows) -> Seq(Cells)]
    BY <2>3, <2>4 DEF CsvRows, rows
  <2>6. stream \in Rows /\ Len(stream) = Len(rows)
    BY <2>3, <2>5, SeqIs DEF Rows
  <2>7. Positions(file) = {<<1, r>> : r \in 1..Len(rows)}
    BY <1>1, <2>1, <2>3 DEF Positions, rows
  <2>8. IsFiniteSet(1..Len(rows)) /\ Cardinality(1..Len(rows)) = Len(rows)
    BY <2>3, FS_Interval
  <2>9. IsFiniteSet(Positions(file)) /\ Cardinality(Positions(file)) = Len(rows)
    BY <2>7, <2>8, PairsCount
  <2> QED
    BY <1>1, <2>6, <2>9 DEF DataRows
<1>2. CASE file.kind # "csv"
  <2> DEFINE n == Len(file.sheets)
             seqs == [s \in DOMAIN file.sheets |-> SheetRows(Headers(file), file.sheets[s])]
             f == [s \in 1..n |-> Len(seqs[s])]
             D == [s \in 1..n |-> {<<s, r>> : r \in WithCell(file.sheets[s])}]
  <2>1. n \in Nat /\ DOMAIN file.sheets = 1..n
    BY SheetsType
  <2>2. ASSUME NEW s \in 1..n
        PROVE  /\ seqs[s] \in Rows
               /\ IsFiniteSet(D[s]) /\ Len(seqs[s]) = Cardinality(D[s])
    <3>1. PICK sheet : sheet = file.sheets[s] /\ sheet.rows \in Rows
      BY <2>1, SheetType
    <3>2. PICK headers \in Seq(Cells) : headers = Headers(file)
      BY HeadersType
    <3>3. /\ SheetRows(headers, sheet) \in Rows /\ IsFiniteSet(WithCell(sheet))
          /\ Len(SheetRows(headers, sheet)) = Cardinality(WithCell(sheet))
      BY <3>1, SheetRowsFacts
    <3>4. /\ IsFiniteSet({<<s, r>> : r \in WithCell(sheet)})
          /\ Cardinality({<<s, r>> : r \in WithCell(sheet)}) = Cardinality(WithCell(sheet))
      BY <3>3, PairsCount
    <3>5. seqs[s] = SheetRows(headers, sheet) /\ D[s] = {<<s, r>> : r \in WithCell(sheet)}
      BY <2>1, <3>1, <3>2
    <3> QED
      BY <3>3, <3>4, <3>5
  <2>3. seqs \in [1..n -> Seq(Seq(Cells))]
    BY <2>1, <2>2 DEF Rows
  <2>4. \A s \in 1..n : f[s] = Len(seqs[s]) /\ f[s] = Cardinality(D[s]) /\ IsFiniteSet(D[s])
    BY <2>2
  <2>5. \A s, t \in 1..n : s # t => D[s] \cap D[t] = {}
    OBVIOUS
  <2>6. Positions(file) = UNION {D[s] : s \in 1..n}
    <3>1. \A s \in 1..n : D[s] =
             {<<s, r>> : r \in {q \in DOMAIN file.sheets[s].rows :
                file.kind = "csv" \/ \E c \in DOMAIN file.sheets[s].rows[q] :
                                         file.sheets[s].rows[q][c] # Null}}
      BY <1>2 DEF WithCell
    <3> HIDE DEF D
    <3> QED
      BY <2>1, <3>1 DEF Positions
  <2> HIDE DEF seqs, f, D
  <2>7. seqs \in Seq(Seq(Seq(Cells))) /\ Len(seqs) = n
    BY <2>1, <2>3, SeqIs
  <2>8. /\ FlattenSeq(seqs) \in Seq(Seq(Cells))
        /\ Len(FlattenSeq(seqs)) = SumFunctionOnSet(f, 1..n)
    <3>1. \A s \in 1..Len(seqs) : f[s] = Len(seqs[s])
      BY <2>4, <2>7
    <3>2. /\ FlattenSeq(seqs) \in Seq(Seq(Cells))
          /\ Len(FlattenSeq(seqs)) = SumFunctionOnSet(f, 1..Len(seqs))
      BY <2>7, <3>1, FlattenFacts
    <3> QED
      BY <2>7, <3>2
  <2>9. /\ IsFiniteSet(UNION {D[s] : s \in 1..n})
        /\ Cardinality(UNION {D[s] : s \in 1..n}) = SumFunctionOnSet(f, 1..n)
    <3>1. IsFiniteSet(1..n)
      BY <2>1, FS_Interval
    <3> QED
      BY <2>4, <2>5, <3>1, SumOfSizes
  <2>10. DataRows(file) = FlattenSeq(seqs)
    BY <1>2 DEF DataRows, seqs
  <2> QED
    BY <2>6, <2>8, <2>9, <2>10 DEF Rows
<1> QED
  BY <1>1, <1>2

-----------------------------------------------------------------------------
(* The import.                                                             *)

LEMMA StreamFacts ==
    ASSUME ImportTypeOK
    PROVE  /\ source \in SourceFile /\ Stream \in Rows /\ Len(Stream) \in Nat
           /\ DOMAIN Stream = 1..Len(Stream) /\ Width \in Nat
           /\ \A i \in DOMAIN Stream : Stream[i] \in Seq(Cells)
           /\ IsFiniteSet(Positions(source)) /\ Len(Stream) = Cardinality(Positions(source))
<1>1. source \in SourceFile
  BY FilesAssumption DEF ImportTypeOK
<1>2. /\ Stream \in Rows /\ IsFiniteSet(Positions(source))
      /\ Len(Stream) = Cardinality(Positions(source))
  BY <1>1, DataRowsFacts DEF Stream
<1>3. Headers(source) \in Seq(Cells)
  BY <1>1, HeadersType
<1>4. Width \in Nat
  BY <1>3, LenProperties DEF Width
<1> QED
  BY <1>1, <1>2, <1>4, ElementOfSeq, LenProperties DEF Rows

\* What the file says stays the same while the file does.
LEMMA SameFile ==
    ASSUME UNCHANGED source
    PROVE  Stream' = Stream /\ Width' = Width /\ Sure' = Sure /\ Positions(source)' = Positions(source)
BY DEF Stream, Width, Sure

\* A row can be loaded whether its empty cells have been made NULL or not.
LEMMA LoadsAlike ==
    ASSUME NEW file, NEW raw, NEW read, DOMAIN read = DOMAIN raw, Len(read) = Len(raw),
           \A c \in DOMAIN raw : read[c] = IF raw[c] = Empty THEN Null ELSE raw[c]
    PROVE  Loads(file, read) <=> Loads(file, raw)
<1>1. Empty \notin TooLong /\ Null \notin TooLong
  BY TooLongAssumption
<1>2. Fitting(read) <=> Fitting(raw)
  BY <1>1 DEF Fitting
<1> QED
  BY <1>2 DEF Loads


\* The rows that cannot be passed over: in a CSV file those that fit the table.
LEMMA SureFacts ==
    ASSUME ImportTypeOK
    PROVE  /\ IsFiniteSet(Sure) /\ Cardinality(Sure) \in Nat
           /\ Cardinality(Sure) <= Cardinality(Positions(source))
           /\ source.kind = "csv" =>
                 Cardinality(Sure) = Cardinality({i \in 1..Len(Stream) : Loads(source, Stream[i])})
<1>1. Sure \in SUBSET Positions(source)
  BY DEF Sure
<1>2. IsFiniteSet(Sure) /\ Cardinality(Sure) <= Cardinality(Positions(source))
  BY <1>1, StreamFacts, FS_Subset
<1>3. ASSUME source.kind = "csv"
      PROVE  Cardinality(Sure) = Cardinality({i \in 1..Len(Stream) : Loads(source, Stream[i])})
  <2> DEFINE rows == source.sheets[1].rows
             T == {i \in 1..Len(rows) : Loads(source, rows[i])}
  <2>1. source \in SourceFile /\ DOMAIN source.sheets = {1}
    BY <1>3, StreamFacts, SheetsType
  <2>2. rows \in Rows
    BY <2>1, SheetType
  <2>3. Stream = CsvRows(source.sheets[1])
    BY <1>3 DEF Stream, DataRows
  <2>4. /\ DOMAIN rows = 1..Len(rows) /\ Len(rows) \in Nat
        /\ \A i \in 1..Len(rows) : rows[i] \in Seq(Cells)
    BY <2>2, ElementOfSeq, LenProperties DEF Rows
  <2>5. DOMAIN Stream = DOMAIN rows /\ \A i \in DOMAIN rows : DOMAIN Stream[i] = DOMAIN rows[i]
    BY <2>3 DEF CsvRows
  <2>6. Len(Stream) = Len(rows)
    BY <2>4, <2>5, StreamFacts
  <2>7. ASSUME NEW i \in 1..Len(rows) PROVE Len(Stream[i]) = Len(rows[i])
    <3>1. Stream[i] \in Seq(Cells) /\ rows[i] \in Seq(Cells) /\ DOMAIN Stream[i] = DOMAIN rows[i]
      BY <2>4, <2>5, <2>6, StreamFacts
    <3>2. /\ Len(Stream[i]) \in Nat /\ Len(rows[i]) \in Nat
          /\ 1..Len(Stream[i]) = 1..Len(rows[i])
      BY <3>1, LenProperties
    <3>3. \A k, l \in Nat : 1..k = 1..l => k = l
      BY SameInterval
    <3> QED
      BY <3>2, <3>3
  <2>8. {i \in 1..Len(Stream) : Loads(source, Stream[i])} = T
    <3>1. ASSUME NEW i \in 1..Len(rows) PROVE Loads(source, Stream[i]) <=> Loads(source, rows[i])
      <4>1. \A c \in DOMAIN rows[i] :
                Stream[i][c] = IF rows[i][c] = Empty THEN Null ELSE rows[i][c]
        BY <2>3, <2>4 DEF CsvRows
      <4> QED
        BY <2>4, <2>5, <2>7, <4>1, LoadsAlike
    <3> QED
      BY <2>6, <3>1
  <2>9. Sure = {<<1, i>> : i \in T}
    BY <1>3, <2>1, <2>4 DEF Sure, Positions
  <2>10. IsFiniteSet(T)
    <3>1. IsFiniteSet(1..Len(rows))
      BY <2>4, FS_Interval
    <3> QED
      BY <3>1, FS_Subset
  <2> HIDE DEF T
  <2>11. Cardinality({<<1, i>> : i \in T}) = Cardinality(T)
    BY <2>10, PairsCount
  <2> QED
    BY <2>8, <2>9, <2>11
<1> QED
  BY <1>2, <1>3, FS_CardinalityType

LEMMA ImportBegins ==
    ASSUME ImportInit, pc = "idle" PROVE ImportInv
<1>1. DataRows(source) \in Rows
  BY FilesAssumption, DataRowsFacts DEF ImportInit
<1>2. Len(Stream) \in Nat
  BY <1>1, LenProperties DEF Stream, Rows
<1>3. <<>> \in Rows
  BY EmptySeq DEF Rows
<1>4. ImportTypeOK
  BY <1>2, <1>3 DEF ImportInit, ImportTypeOK, AtStart
<1> QED
  BY <1>4 DEF ImportInit, ImportInv, NothingLeftOpen, ReadIsKept, ImportedIsWhole, Imported,
              TableIsEmptyOrWhole

\* A step that leaves the table and the reading, and goes on or fails.
LEMMA ImportStands ==
    ASSUME ImportInv, Imported, pc' \notin {"idle", "create", "bulk", "stream", "failed"},
           UNCHANGED <<source, table, open, reading, attempts>>
    PROVE  ImportInv'
<1>1. Stream' = Stream /\ Sure' = Sure /\ Positions(source)' = Positions(source)
  BY SameFile
<1>2. ImportTypeOK'
  BY <1>1 DEF ImportInv, ImportTypeOK
<1>3. NothingLeftOpen' /\ ReadIsKept'
  BY DEF ImportInv, NothingLeftOpen, ReadIsKept, Imported
<1>4. ImportedIsWhole' /\ TableIsEmptyOrWhole'
  BY <1>1 DEF ImportInv, ImportedIsWhole, Imported, TableIsEmptyOrWhole
<1> QED
  BY <1>2, <1>3, <1>4 DEF ImportInv

LEMMA BeginInv == ASSUME ImportInv, Begin PROVE ImportInv'
<1>1. Stream' = Stream /\ Sure' = Sure /\ Positions(source)' = Positions(source)
  BY SameFile DEF Begin
<1>2. ImportTypeOK'
  BY <1>1, StreamFacts, EmptySeq DEF ImportInv, ImportTypeOK, Begin, AtStart, Rows
<1>3. NothingLeftOpen' /\ ReadIsKept' /\ ImportedIsWhole'
  BY DEF ImportInv, NothingLeftOpen, ReadIsKept, ImportedIsWhole, Imported, Begin, AtStart
<1>4. TableIsEmptyOrWhole'
  BY <1>1 DEF ImportInv, TableIsEmptyOrWhole, Begin
<1> QED
  BY <1>2, <1>3, <1>4 DEF ImportInv

LEMMA CreateInv == ASSUME ImportInv, CreateStaging PROVE ImportInv'
<1>1. Stream' = Stream /\ Sure' = Sure /\ Positions(source)' = Positions(source)
  BY SameFile DEF CreateStaging, Goto
<1>2. open = <<>> /\ reading = [next |-> 1, batch |-> <<>>]
  BY DEF ImportInv, NothingLeftOpen, CreateStaging, AtStart
<1>3. pc' = IF source.kind = "csv" THEN "bulk" ELSE "stream"
  BY DEF CreateStaging, Goto
<1>4. /\ UNCHANGED <<source, attempts, open, reading>> /\ table' = <<>>
  BY DEF CreateStaging, Goto
<1>5. ImportTypeOK'
  BY <1>1, <1>4, EmptySeq DEF ImportInv, ImportTypeOK, Rows
<1>6. NothingLeftOpen' /\ ImportedIsWhole' /\ TableIsEmptyOrWhole'
  BY <1>3, <1>4 DEF NothingLeftOpen, ImportedIsWhole, Imported, TableIsEmptyOrWhole
<1>7. ReadIsKept'
  <2>1. reading'.next - 1 = 0 /\ open' = <<>> /\ reading'.batch = <<>> /\ source' = source
    BY <1>2, <1>4
  <2>2. {i \in 1..(reading'.next - 1) : Loads(source', Stream'[i])} = {}
    BY <2>1
  <2>3. Cardinality({i \in 1..(reading'.next - 1) : Loads(source', Stream'[i])}) = 0
    BY <2>2, FS_EmptySet
  <2>4. Len(open') = 0 /\ Len(reading'.batch) = 0
    BY <2>1
  <2>5. pc' = "bulk" => source'.kind = "csv"
    BY <1>3, <2>1
  <2>6. pc' = "stream" => Len(open') + Len(reading'.batch) = reading'.next - 1
    BY <2>1, <2>4
  <2> QED
    BY <2>3, <2>4, <2>5, <2>6 DEF ReadIsKept
<1> QED
  BY <1>5, <1>6, <1>7 DEF ImportInv

-----------------------------------------------------------------------------
(* BULK INSERT.                                                            *)

\* The rows before row n of the file that can be loaded.
Loaded(n) == {i \in 1..(n - 1) : Loads(source, Stream[i])}

LEMMA LoadedGrows ==
    ASSUME ImportTypeOK, NEW n \in 1..Len(Stream)
    PROVE  /\ Cardinality(Loaded(n)) \in Nat
           /\ Loads(source, Stream[n]) => Cardinality(Loaded(n + 1)) = Cardinality(Loaded(n)) + 1
           /\ ~Loads(source, Stream[n]) => Loaded(n + 1) = Loaded(n)
<1>1. n \in Nat /\ (n + 1) - 1 = n /\ n \notin 1..(n - 1) /\ 1..n = (1..(n - 1)) \cup {n}
  BY StreamFacts
<1>2. IsFiniteSet(1..(n - 1))
  BY <1>1, FS_Interval
<1>3. IsFiniteSet(Loaded(n)) /\ n \notin Loaded(n)
  BY <1>1, <1>2, FS_Subset DEF Loaded
<1>4. Cardinality(Loaded(n) \cup {n}) = Cardinality(Loaded(n)) + 1
  BY <1>3, FS_AddElement
<1>5. Loads(source, Stream[n]) => Loaded(n + 1) = Loaded(n) \cup {n}
  BY <1>1 DEF Loaded
<1>6. ~Loads(source, Stream[n]) => Loaded(n + 1) = Loaded(n)
  BY <1>1 DEF Loaded
<1> QED
  BY <1>3, <1>4, <1>5, <1>6, FS_CardinalityType

\* ReadIsKept after a step, when BULK INSERT is at row n.
LEMMA BulkIsKept ==
    ASSUME NEW n, reading'.next = n, UNCHANGED source, pc' = "bulk", source.kind = "csv",
           Len(open') = Cardinality(Loaded(n))
    PROVE  ReadIsKept'
<1>1. Stream' = Stream /\ Width' = Width
  BY SameFile
<1>2. {i \in 1..(reading'.next - 1) : Loads(source', Stream'[i])} = Loaded(n)
  BY <1>1 DEF Loaded
<1>3. Len(open') = Cardinality({i \in 1..(reading'.next - 1) : Loads(source', Stream'[i])})
  BY <1>2
<1> QED
  BY <1>3 DEF ReadIsKept

LEMMA BulkRowInv == ASSUME ImportInv, BulkRow PROVE ImportInv'
<1> DEFINE n == reading.next
<1>0. ImportTypeOK /\ UNCHANGED <<source, attempts, table>> /\ pc = "bulk" /\ pc' = "bulk"
  BY DEF ImportInv, BulkRow, Goto
<1>1. Stream' = Stream /\ Sure' = Sure /\ Positions(source)' = Positions(source)
  BY <1>0, SameFile
<1>2. n \in 1..Len(Stream) /\ Stream[n] \in Seq(Cells) /\ Loads(source, Stream[n])
  BY <1>0, StreamFacts DEF BulkRow
<1>3. /\ reading \in [next : 1..(Len(Stream) + 1), batch : Rows] /\ open \in Rows
      /\ reading' = [reading EXCEPT !.next = @ + 1] /\ open' = Append(open, Stream[n])
  BY <1>0 DEF ImportTypeOK, BulkRow
<1>4. open' \in Rows /\ Len(open') = Len(open) + 1
  BY <1>2, <1>3, AppendProperties DEF Rows
<1>5. reading'.next = n + 1 /\ reading' \in [next : 1..(Len(Stream) + 1), batch : Rows]
  BY <1>0, <1>2, <1>3, StreamFacts
<1>6. ImportTypeOK'
  BY <1>0, <1>1, <1>4, <1>5 DEF ImportTypeOK
<1>7. Len(open) = Cardinality(Loaded(n)) /\ source.kind = "csv" /\ table = <<>>
  BY <1>0 DEF ImportInv, ReadIsKept, NothingLeftOpen, Loaded
<1>8. Len(open') = Cardinality(Loaded(n + 1))
  BY <1>0, <1>2, <1>4, <1>7, LoadedGrows
<1>9. ReadIsKept'
  BY <1>0, <1>5, <1>7, <1>8, BulkIsKept
<1>10. NothingLeftOpen' /\ ImportedIsWhole' /\ TableIsEmptyOrWhole'
  BY <1>0, <1>7 DEF NothingLeftOpen, ImportedIsWhole, Imported, TableIsEmptyOrWhole
<1> QED
  BY <1>6, <1>9, <1>10 DEF ImportInv

LEMMA BulkPassOverInv == ASSUME ImportInv, BulkPassOver PROVE ImportInv'
<1> DEFINE n == reading.next
<1>0. ImportTypeOK /\ UNCHANGED <<source, attempts, table, open>> /\ pc = "bulk" /\ pc' = "bulk"
  BY DEF ImportInv, BulkPassOver, Goto
<1>1. Stream' = Stream
  BY <1>0, SameFile
<1>2. n \in 1..Len(Stream) /\ ~Loads(source, Stream[n])
  BY <1>0, StreamFacts DEF BulkPassOver
<1>3. /\ reading \in [next : 1..(Len(Stream) + 1), batch : Rows]
      /\ reading' = [reading EXCEPT !.next = @ + 1]
  BY <1>0 DEF ImportTypeOK, BulkPassOver
<1>4. reading'.next = n + 1 /\ reading' \in [next : 1..(Len(Stream) + 1), batch : Rows]
  BY <1>0, <1>2, <1>3, StreamFacts
<1>5. ImportTypeOK'
  BY <1>0, <1>1, <1>4 DEF ImportTypeOK
<1>6. Len(open) = Cardinality(Loaded(n)) /\ source.kind = "csv" /\ table = <<>>
  BY <1>0 DEF ImportInv, ReadIsKept, NothingLeftOpen, Loaded
<1>7. Len(open') = Cardinality(Loaded(n + 1))
  BY <1>0, <1>2, <1>6, LoadedGrows
<1>8. ReadIsKept'
  BY <1>0, <1>4, <1>6, <1>7, BulkIsKept
<1>9. NothingLeftOpen' /\ ImportedIsWhole' /\ TableIsEmptyOrWhole'
  BY <1>0, <1>6 DEF NothingLeftOpen, ImportedIsWhole, Imported, TableIsEmptyOrWhole
<1> QED
  BY <1>5, <1>8, <1>9 DEF ImportInv

\* A table that is filled at once is filled with the rows there are.
LEMMA FilledAtOnce ==
    ASSUME ImportInv, UNCHANGED <<source, attempts>>, pc' = "columns", open' = <<>>,
           reading' \in [next : 1..(Len(Stream) + 1), batch : Rows], table' \in Rows,
           Len(table') \in Cardinality(Sure)..Cardinality(Positions(source))
    PROVE  ImportInv'
<1>1. Stream' = Stream /\ Sure' = Sure /\ Positions(source)' = Positions(source)
  BY SameFile
<1>2. <<>> \in Rows
  BY EmptySeq DEF Rows
<1>3. ImportTypeOK'
  BY <1>1, <1>2 DEF ImportInv, ImportTypeOK
<1>4. NothingLeftOpen' /\ ReadIsKept'
  BY DEF NothingLeftOpen, ReadIsKept
<1>5. ImportedIsWhole' /\ TableIsEmptyOrWhole'
  BY <1>1 DEF ImportedIsWhole, TableIsEmptyOrWhole
<1> QED
  BY <1>3, <1>4, <1>5 DEF ImportInv

LEMMA BulkCommitInv == ASSUME ImportInv, BulkCommit PROVE ImportInv'
<1>0. /\ ImportTypeOK /\ UNCHANGED <<source, attempts, reading>> /\ pc = "bulk"
      /\ pc' = "columns" /\ open' = <<>> /\ table' = table \o open /\ reading.next > Len(Stream)
  BY DEF ImportInv, BulkCommit, Goto
<1>1. /\ reading \in [next : 1..(Len(Stream) + 1), batch : Rows] /\ open \in Rows
      /\ Len(Stream) \in Nat
  BY <1>0, StreamFacts DEF ImportTypeOK
<1>2. reading.next - 1 = Len(Stream)
  BY <1>0, <1>1
<1>3. /\ Len(open) = Cardinality({i \in 1..(reading.next - 1) : Loads(source, Stream[i])})
      /\ source.kind = "csv" /\ table = <<>>
  BY <1>0 DEF ImportInv, ReadIsKept, NothingLeftOpen
<1>4. table' = open
  BY <1>0, <1>1, <1>3, ConcatEmptySeq DEF Rows
<1>5. Len(open) = Cardinality(Sure) /\ Cardinality(Sure) \in Nat
  BY <1>0, <1>2, <1>3, SureFacts
<1>6. Len(open) \in Cardinality(Sure)..Cardinality(Positions(source))
  BY <1>0, <1>1, <1>5, SureFacts, StreamFacts
<1> QED
  BY <1>0, <1>1, <1>4, <1>6, FilledAtOnce

\* A run that begins to stream, or stops, with the table empty or as it was.
LEMMA SetBack ==
    ASSUME ImportInv, UNCHANGED <<source, attempts, table>>, open' = <<>>, reading' = AtStart,
           \/ pc' = "failed"
           \/ pc' = "stream" /\ table = <<>>
    PROVE  ImportInv'
<1>1. Stream' = Stream /\ Sure' = Sure /\ Positions(source)' = Positions(source)
  BY SameFile
<1>2. ImportTypeOK'
  BY <1>1, StreamFacts, EmptySeq DEF ImportInv, ImportTypeOK, AtStart, Rows
<1>3. NothingLeftOpen' /\ ImportedIsWhole'
  BY DEF NothingLeftOpen, ImportedIsWhole, Imported
<1>4. ReadIsKept'
  BY DEF ReadIsKept, AtStart
<1>5. TableIsEmptyOrWhole'
  BY <1>1 DEF ImportInv, TableIsEmptyOrWhole
<1> QED
  BY <1>2, <1>3, <1>4, <1>5 DEF ImportInv

LEMMA BulkFailsInv == ASSUME ImportInv, BulkFails PROVE ImportInv'
<1>1. table = <<>>
  BY DEF ImportInv, NothingLeftOpen, BulkFails
<1> QED
  BY <1>1, SetBack DEF BulkFails, Goto

LEMMA FailInv == ASSUME ImportInv, Fail PROVE ImportInv'
BY SetBack DEF Fail, Goto

-----------------------------------------------------------------------------
(* The batches.                                                            *)

LEMMA FitType == ASSUME NEW n \in Nat, NEW row \in Seq(Cells) PROVE Fit(n, row) \in Seq(Cells)
<1>1. \A c \in DOMAIN row : row[c] \in Cells
  BY ElementOfSeq, LenProperties
<1>2. Fit(n, row) \in [1..n -> Cells]
  BY <1>1, CellsAssumption DEF Fit
<1> QED
  BY <1>2, SeqIs

LEMMA ReadRowInv == ASSUME ImportInv, ReadRow PROVE ImportInv'
<1> DEFINE n == reading.next
           batch == Append(reading.batch, Fit(Width, Stream[n]))
<1>0. /\ ImportTypeOK /\ UNCHANGED <<source, attempts, table>>
      /\ pc = "stream" /\ pc' = "stream" /\ n \in 1..Len(Stream)
  BY StreamFacts DEF ImportInv, ReadRow, Goto
<1>1. Stream' = Stream
  BY <1>0, SameFile
<1>2. /\ reading \in [next : 1..(Len(Stream) + 1), batch : Rows] /\ open \in Rows
      /\ Len(Stream) \in Nat /\ Fit(Width, Stream[n]) \in Seq(Cells)
  BY <1>0, StreamFacts, FitType DEF ImportTypeOK
<1>3. batch \in Rows /\ Len(batch) = Len(reading.batch) + 1
  BY <1>2, AppendProperties DEF Rows
<1>4. \/ open' = open \o batch /\ reading' = [next |-> n + 1, batch |-> <<>>]
      \/ open' = open /\ reading' = [next |-> n + 1, batch |-> batch]
  BY DEF ReadRow
<1>5. Len(open) + Len(reading.batch) = n - 1 /\ table = <<>>
  BY <1>0 DEF ImportInv, ReadIsKept, NothingLeftOpen
<1> HIDE DEF batch
<1>6. open \o batch \in Rows /\ Len(open \o batch) = Len(open) + Len(batch)
  BY <1>2, <1>3, ConcatProperties DEF Rows
<1>7. /\ Len(open) \in Nat /\ Len(reading.batch) \in Nat /\ n + 1 \in 1..(Len(Stream) + 1)
      /\ <<>> \in Rows /\ Len(<<>>) = 0
  BY <1>0, <1>2, EmptySeq, LenProperties DEF Rows
<1>8. /\ open' \in Rows /\ reading' \in [next : 1..(Len(Stream) + 1), batch : Rows]
      /\ Len(open') + Len(reading'.batch) = reading'.next - 1
  <2>1. n \in Nat /\ Len(batch) \in Nat
    BY <1>0, <1>2, <1>3, <1>7
  <2>2. CASE open' = open \o batch /\ reading' = [next |-> n + 1, batch |-> <<>>]
    <3>1. Len(open') = Len(open) + Len(reading.batch) + 1
      BY <1>3, <1>6, <1>7, <2>2
    <3>2. reading'.next = n + 1 /\ reading'.batch = <<>>
      BY <2>2
    <3>3. open' \in Rows /\ reading' \in [next : 1..(Len(Stream) + 1), batch : Rows]
      BY <1>6, <1>7, <2>2
    <3>4. Len(open') + 0 = (n + 1) - 1
      <4>1. PICK a \in Nat, b \in Nat : a = Len(open) /\ b = Len(reading.batch)
        BY <1>7
      <4>2. a + b = n - 1 /\ Len(open') = a + b + 1
        BY <1>5, <3>1, <4>1
      <4>3. a + b + 1 = (n + 1) - 1 /\ (a + b + 1) + 0 = a + b + 1
        BY <2>1, <4>2
      <4> QED
        BY <4>2, <4>3
    <3> QED
      BY <1>7, <3>2, <3>3, <3>4
  <2>3. CASE open' = open /\ reading' = [next |-> n + 1, batch |-> batch]
    <3>1. reading'.next = n + 1 /\ reading'.batch = batch
      BY <2>3
    <3> QED
      BY <1>2, <1>3, <1>5, <1>7, <2>1, <2>3, <3>1
  <2> QED
    BY <1>4, <2>2, <2>3
<1>9. ImportTypeOK'
  BY <1>0, <1>1, <1>8 DEF ImportTypeOK
<1>10. NothingLeftOpen' /\ ReadIsKept' /\ ImportedIsWhole' /\ TableIsEmptyOrWhole'
  BY <1>0, <1>5, <1>8
     DEF NothingLeftOpen, ReadIsKept, ImportedIsWhole, Imported, TableIsEmptyOrWhole
<1> QED
  BY <1>9, <1>10 DEF ImportInv

LEMMA EndOfFileInv == ASSUME ImportInv, EndOfFile PROVE ImportInv'
<1>0. /\ ImportTypeOK /\ UNCHANGED <<source, attempts>> /\ pc = "stream" /\ pc' = "columns"
      /\ open' = <<>> /\ table' = table \o open \o reading.batch /\ reading.next > Len(Stream)
      /\ reading' = [reading EXCEPT !.batch = <<>>]
  BY DEF ImportInv, EndOfFile, Goto
<1>1. /\ reading \in [next : 1..(Len(Stream) + 1), batch : Rows] /\ open \in Rows
      /\ Len(Stream) \in Nat /\ <<>> \in Rows
  BY <1>0, StreamFacts, EmptySeq DEF ImportTypeOK, Rows
<1>2. reading' \in [next : 1..(Len(Stream) + 1), batch : Rows] /\ reading.next - 1 = Len(Stream)
  BY <1>0, <1>1
<1>3. Len(open) + Len(reading.batch) = Len(Stream) /\ table = <<>>
  BY <1>0, <1>2 DEF ImportInv, ReadIsKept, NothingLeftOpen
<1>4. table' = open \o reading.batch
  BY <1>0, <1>1, <1>3, ConcatEmptySeq DEF Rows
<1>5. table' \in Rows /\ Len(table') = Len(Stream)
  BY <1>1, <1>3, <1>4, ConcatProperties DEF Rows
<1>6. Len(table') \in Cardinality(Sure)..Cardinality(Positions(source))
  BY <1>0, <1>1, <1>5, SureFacts, StreamFacts
<1> QED
  BY <1>0, <1>2, <1>5, <1>6, FilledAtOnce

\* Rows in another order are as many.
LEMMA PermutedType ==
    ASSUME NEW S, NEW s \in Seq(S), NEW place \in Orders(s)
    PROVE  [i \in DOMAIN s |-> s[place[i]]] \in Seq(S) /\ Len([i \in DOMAIN s |-> s[place[i]]]) = Len(s)
<1>1. DOMAIN s = 1..Len(s) /\ Len(s) \in Nat /\ \A i \in DOMAIN s : s[i] \in S
  BY ElementOfSeq, LenProperties
<1>2. \A i \in DOMAIN s : place[i] \in DOMAIN s
  BY DEF Orders, Bijection, Injection
<1>3. [i \in DOMAIN s |-> s[place[i]]] \in [1..Len(s) -> S]
  BY <1>1, <1>2
<1> QED
  BY <1>1, <1>3, SeqIs

LEMMA AddPipelineColumnsInv == ASSUME ImportInv, AddPipelineColumns PROVE ImportInv'
<1>0. /\ UNCHANGED <<source, attempts, open, reading>> /\ pc = "columns" /\ pc' = "count"
  BY DEF AddPipelineColumns, Goto
<1>1. table \in Rows /\ Len(table) \in Cardinality(Sure)..Cardinality(Positions(source))
  BY <1>0 DEF ImportInv, ImportedIsWhole, Imported
<1>2. table' \in Rows /\ Len(table') = Len(table)
  BY <1>1, PermutedType DEF AddPipelineColumns, Rows
<1>3. Stream' = Stream /\ Sure' = Sure /\ Positions(source)' = Positions(source)
  BY <1>0, SameFile
<1>4. ImportTypeOK'
  BY <1>0, <1>2, <1>3 DEF ImportInv, ImportTypeOK
<1>5. NothingLeftOpen' /\ ReadIsKept'
  BY <1>0 DEF ImportInv, NothingLeftOpen, ReadIsKept
<1>6. ImportedIsWhole' /\ TableIsEmptyOrWhole'
  BY <1>1, <1>2, <1>3 DEF ImportedIsWhole, TableIsEmptyOrWhole
<1> QED
  BY <1>4, <1>5, <1>6 DEF ImportInv

LEMMA DropStagingInv == ASSUME ImportInv, DropStaging PROVE ImportInv'
<1>0. /\ UNCHANGED <<source, attempts, open, reading>> /\ pc = "failed" /\ pc' = "failed"
      /\ table' = NoTable
  BY DEF DropStaging, Goto
<1>1. Stream' = Stream
  BY <1>0, SameFile
<1>2. ImportTypeOK'
  BY <1>0, <1>1 DEF ImportInv, ImportTypeOK
<1>3. NothingLeftOpen' /\ ReadIsKept' /\ ImportedIsWhole' /\ TableIsEmptyOrWhole'
  BY <1>0 DEF ImportInv, NothingLeftOpen, ReadIsKept, ImportedIsWhole, Imported, TableIsEmptyOrWhole
<1> QED
  BY <1>2, <1>3 DEF ImportInv

\* No step of the import breaks its invariant.
LEMMA ImportStepInv == ASSUME ImportInv, ImportStep PROVE ImportInv'
BY BeginInv, CreateInv, BulkRowInv, BulkPassOverInv, BulkCommitInv, BulkFailsInv, ReadRowInv,
   EndOfFileInv, AddPipelineColumnsInv, FailInv, DropStagingInv DEF ImportStep

-----------------------------------------------------------------------------
(* The counts and the files.                                               *)

\* The state at which a run works on a table that is there.
LEMMA TableFacts ==
    ASSUME FilesInv, Imported
    PROVE  /\ table \in Rows /\ Len(table) \in Nat /\ DOMAIN table = 1..Len(table)
           /\ \A c : /\ RowsIn(c) \in SUBSET DOMAIN table
                     /\ IsFiniteSet(RowsIn(c)) /\ Cardinality(RowsIn(c)) \in Nat
                     /\ RowsIn(c) # {} => Cardinality(RowsIn(c)) > 0
<1>1. table \in Rows
  BY DEF FilesInv, ImportInv, ImportedIsWhole
<1>2. Len(table) \in Nat /\ DOMAIN table = 1..Len(table)
  BY <1>1, LenProperties DEF Rows
<1>3. ASSUME NEW c
      PROVE  /\ RowsIn(c) \in SUBSET DOMAIN table
             /\ IsFiniteSet(RowsIn(c)) /\ Cardinality(RowsIn(c)) \in Nat
             /\ RowsIn(c) # {} => Cardinality(RowsIn(c)) > 0
  <2>1. RowsIn(c) \in SUBSET DOMAIN table
    BY DEF RowsIn
  <2>2. IsFiniteSet(DOMAIN table)
    BY <1>2, FS_Interval
  <2>3. IsFiniteSet(RowsIn(c))
    BY <2>1, <2>2, FS_Subset
  <2>4. Cardinality(RowsIn(c)) \in Nat /\ (Cardinality(RowsIn(c)) = 0 <=> RowsIn(c) = {})
    BY <2>3, FS_CardinalityType, FS_EmptySet
  <2>5. RowsIn(c) # {} => Cardinality(RowsIn(c)) > 0
    BY <2>4
  <2> QED
    BY <2>1, <2>3, <2>4, <2>5
<1> QED
  BY <1>1, <1>2, <1>3

\* A scan for a category finds as many rows as are counted.
LEMMA SelectedFacts ==
    ASSUME FilesInv, Imported, NEW c
    PROVE  Selected(c) \in Rows /\ Len(Selected(c)) = Cardinality(RowsIn(c))
<1> DEFINE n == Len(table)
           order == [i \in DOMAIN table |-> i]
           places == {k \in DOMAIN order : order[k] \in RowsIn(c)}
           is == Only(order, places)
<1>1. n \in Nat /\ DOMAIN table = 1..n /\ RowsIn(c) \in SUBSET DOMAIN table /\ table \in Seq(Seq(Cells))
  BY TableFacts DEF Rows
<1>2. places = RowsIn(c)
  BY <1>1
<1>3. order \in Seq(1..n)
  BY <1>1, SeqIs
<1>4. is \in Seq(1..n) /\ Len(is) = Cardinality(RowsIn(c))
  <2> HIDE DEF order
  <2>1. places \in SUBSET DOMAIN order
    OBVIOUS
  <2> HIDE DEF places
  <2> QED
    BY <1>2, <1>3, <2>1, OnlyFacts
<1>5. Selected(c) = [k \in DOMAIN is |-> table[is[k]]]
  BY DEF Selected, Scanned
<1> HIDE DEF is
<1>6. DOMAIN is = 1..Len(is) /\ Len(is) \in Nat /\ \A k \in DOMAIN is : is[k] \in 1..n
  BY <1>4, ElementOfSeq, LenProperties
<1>7. \A i \in 1..n : table[i] \in Seq(Cells)
  BY <1>1, ElementOfSeq
<1>8. Selected(c) \in [1..Len(is) -> Seq(Cells)]
  BY <1>5, <1>6, <1>7
<1> QED
  BY <1>4, <1>6, <1>8, SeqIs DEF Rows

LEMMA SameRows ==
    ASSUME UNCHANGED <<table, reason>>
    PROVE  /\ \A c : RowsIn(c)' = RowsIn(c)
           /\ Filled' = Filled
           /\ \A c, order : Scanned(c, order)' = Scanned(c, order)
           /\ \A c : Selected(c)' = Selected(c)
<1>1. \A c : RowsIn(c)' = RowsIn(c)
  BY DEF RowsIn
<1>2. Filled' = Filled
  BY <1>1 DEF Filled
<1>3. \A c, order : Scanned(c, order)' = Scanned(c, order)
  BY <1>1 DEF Scanned
<1>4. \A c : Selected(c)' = Selected(c)
  BY <1>3 DEF Selected
<1> QED
  BY <1>1, <1>2, <1>3, <1>4

\* The workbook stays what it is, or goes.
LEMMA BookStands ==
    ASSUME FilesInv, UNCHANGED <<table, reason>>, book' = book \/ book' = NoFile,
           pc' \in {"paths", "done"} => pc \in {"paths", "done"}
    PROVE  BookKept'
<1> SUFFICES ASSUME pc' \in {"paths", "done"}, book' # NoFile PROVE BookKept'
  BY DEF BookKept
<1>1. PICK order \in Orders(table) : book = [c \in Filled |-> Split(Scanned(c, order))]
  BY DEF FilesInv, BookKept
<1>2. Filled' = Filled /\ Orders(table)' = Orders(table) /\ \A c : Scanned(c, order)' = Scanned(c, order)
  BY SameRows
<1>3. book' = [c \in Filled' |-> Split(Scanned(c, order)')]
  BY <1>1, <1>2
<1> QED
  BY <1>2, <1>3 DEF BookKept

\* A step of a report leaves the import as it is.
LEMMA ReportImport ==
    ASSUME FilesInv, ReportStep, UNCHANGED <<table, open, reading>>
    PROVE  Imported /\ ImportInv'
<1>1. /\ Imported /\ UNCHANGED <<source, attempts>>
      /\ pc' \notin {"idle", "create", "bulk", "stream", "failed"}
  BY DEF ReportStep, CountRows, Filter, ClearResults, InsertResults, OpenCsv, WriteCsvRow,
         CloseCsv, BeginSave, EndSave, RecordPath, Complete, Goto, Imported
<1> QED
  BY <1>1, ImportStands DEF FilesInv

LEMMA CountRowsInv ==
    ASSUME FilesInv, CountRows, UNCHANGED <<table, open, reading, cleaning>> PROVE FilesInv'
<1>1. Imported /\ ImportInv'
  BY ReportImport DEF ReportStep
<1>2. /\ pc' = "filter" /\ totalRows' = Len(table)
      /\ UNCHANGED <<table, cleaning, reason, results, csvs, book, writing>>
  BY DEF CountRows, Goto
<1>3. ReportTypeOK'
  BY <1>1, <1>2, TableFacts DEF FilesInv, ReportTypeOK, Rows
<1>4. Counted' /\ WorkLeft' /\ PathsLast' /\ ClosedIsWhole' /\ BookKept'
  BY <1>2 DEF Counted, WorkLeft, PathsLast, ClosedIsWhole, BookKept, Tagging, Writing
<1>5. RecordedIsWhole'
  BY <1>2 DEF FilesInv, RecordedIsWhole
<1> QED
  BY <1>1, <1>3, <1>4, <1>5 DEF FilesInv

LEMMA FilterInv ==
    ASSUME FilesInv, Filter, UNCHANGED <<table, open, reading, cleaning>> PROVE FilesInv'
<1>1. ImportInv'
  BY ReportImport DEF ReportStep
<1>2. /\ pc = "filter" /\ pc' = "clear" /\ reason' \in [DOMAIN table -> Categories]
      /\ UNCHANGED <<table, cleaning, totalRows, results, csvs, book, writing>>
  BY DEF Filter, Goto
<1>3. ReportTypeOK'
  BY <1>2 DEF FilesInv, ReportTypeOK, Rows
<1>4. Counted' /\ WorkLeft' /\ PathsLast' /\ ClosedIsWhole' /\ BookKept'
  BY <1>2 DEF FilesInv, Counted, WorkLeft, PathsLast, ClosedIsWhole, BookKept, Tagging, Writing
<1>5. RecordedIsWhole'
  BY <1>2 DEF FilesInv, RecordedIsWhole
<1> QED
  BY <1>1, <1>3, <1>4, <1>5 DEF FilesInv

LEMMA ClearResultsInv ==
    ASSUME FilesInv, ClearResults, UNCHANGED <<table, open, reading, cleaning>> PROVE FilesInv'
<1>1. ImportInv'
  BY ReportImport DEF ReportStep
<1>2. /\ pc = "clear" /\ pc' = "insert" /\ results' = [c \in Categories |-> NoResult]
      /\ UNCHANGED <<table, reason, cleaning, totalRows, csvs, book, writing>>
  BY DEF ClearResults, Goto
<1>3. ReportTypeOK'
  BY <1>2 DEF FilesInv, ReportTypeOK, Rows, NoResult
<1>4. Counted' /\ WorkLeft' /\ ClosedIsWhole' /\ BookKept'
  BY <1>2 DEF FilesInv, Counted, WorkLeft, ClosedIsWhole, BookKept, Tagging, Writing
<1>5. PathsLast' /\ RecordedIsWhole'
  BY <1>2 DEF PathsLast, RecordedIsWhole, NoResult
<1> QED
  BY <1>1, <1>3, <1>4, <1>5 DEF FilesInv

LEMMA InsertResultsInv ==
    ASSUME FilesInv, InsertResults, UNCHANGED <<table, open, reading, cleaning>> PROVE FilesInv'
<1>1. Imported /\ ImportInv'
  BY ReportImport DEF ReportStep
<1>2. /\ pc = "insert" /\ pc' = "csvs"
      /\ \A c \in Categories : results'[c].count = Cardinality(RowsIn(c)) /\ ~results'[c].path
      /\ \A c \in Categories : Cardinality(RowsIn(c)) \in Nat
      /\ results' \in [Categories -> [count : Nat, path : BOOLEAN]]
      /\ writing' = [left |-> Filled, category |-> NoFile, files |-> {}]
      /\ UNCHANGED <<table, reason, cleaning, totalRows, csvs, book>>
  <2>1. \A k \in Nat : /\ [NoResult EXCEPT !.count = k] \in [count : Nat, path : BOOLEAN]
                        /\ [NoResult EXCEPT !.count = k].count = k /\ ~[NoResult EXCEPT !.count = k].path
    BY DEF NoResult
  <2>2. \A c \in Categories : Cardinality(RowsIn(c)) \in Nat
    BY <1>1, TableFacts
  <2>3. \A F : [Rested EXCEPT !.left = F] = [left |-> F, category |-> NoFile, files |-> {}]
    BY DEF Rested
  <2> QED
    BY <2>1, <2>2, <2>3 DEF InsertResults, Goto, Filled
<1>3. (\A c : RowsIn(c)' = RowsIn(c) /\ Selected(c)' = Selected(c)) /\ Filled' = Filled
  BY <1>2, SameRows
<1>4. ReportTypeOK'
  BY <1>2 DEF FilesInv, ReportTypeOK, Rows, Filled
<1>5. Counted'
  BY <1>2, <1>3 DEF FilesInv, Counted, Tagging, Writing
<1>6. WorkLeft' /\ ClosedIsWhole' /\ BookKept'
  BY <1>2, <1>3 DEF WorkLeft, ClosedIsWhole, BookKept
<1>7. PathsLast' /\ RecordedIsWhole'
  BY <1>2 DEF PathsLast, RecordedIsWhole
<1> QED
  BY <1>1, <1>4, <1>5, <1>6, <1>7 DEF FilesInv

\* While the files are made, the numbers stay what they are.
LEMMA StaysCounted ==
    ASSUME FilesInv, pc \in Writing, pc' \in Writing, UNCHANGED <<table, reason, totalRows>>,
           \A c \in Categories : results'[c].count = results[c].count
    PROVE  Counted'
<1>1. \A c : RowsIn(c)' = RowsIn(c)
  BY SameRows
<1> QED
  BY <1>1 DEF FilesInv, Counted, Tagging, Writing

LEMMA OpenCsvInv ==
    ASSUME FilesInv, OpenCsv, UNCHANGED <<table, open, reading, cleaning>> PROVE FilesInv'
<1>1. ImportInv'
  BY ReportImport DEF ReportStep
<1>2. PICK c \in writing.left :
        /\ csvs' = [csvs EXCEPT ![c] = <<>>]
        /\ writing' = [writing EXCEPT !.left = @ \ {c}, !.category = c]
  BY DEF OpenCsv
<1>3. /\ pc = "csvs" /\ pc' = "rows"
      /\ UNCHANGED <<table, reason, cleaning, totalRows, results, book>>
  BY DEF OpenCsv, Goto
<1>4. /\ writing \in [left : SUBSET Categories, category : Categories \cup {NoFile},
                      files : SUBSET Categories]
      /\ csvs \in [Categories -> Rows \cup {NoFile}] /\ c \in Categories
  BY DEF FilesInv, ReportTypeOK
<1>5. /\ writing'.left = writing.left \ {c} /\ writing'.category = c
      /\ writing'.files = writing.files
      /\ writing' \in [left : SUBSET Categories, category : Categories \cup {NoFile},
                       files : SUBSET Categories]
  BY <1>2, <1>4
<1>6. <<>> \in Rows
  BY EmptySeq DEF Rows
<1>7. ReportTypeOK'
  BY <1>2, <1>3, <1>4, <1>5, <1>6 DEF FilesInv, ReportTypeOK, Rows
<1>8. Filled' = Filled /\ \A d : Selected(d)' = Selected(d)
  BY <1>3, SameRows
<1>9. Counted' /\ BookKept'
  BY <1>3, StaysCounted DEF Writing, BookKept
<1>10. /\ writing.left \cap writing.files = {} /\ Filled = writing.left \cup writing.files
  BY <1>3 DEF FilesInv, WorkLeft
<1>11. csvs'[c] = <<>> /\ <<>> # NoFile /\ \A d \in Categories : d # c => csvs'[d] = csvs[d]
  BY <1>2, <1>4, <1>6, NoFileAssumption DEF Rows
<1>12. WorkLeft'
  BY <1>2, <1>3, <1>5, <1>8, <1>10, <1>11 DEF WorkLeft
<1>13. \A d \in Categories : ~results[d].path
  BY <1>3 DEF FilesInv, PathsLast
<1>14. PathsLast' /\ RecordedIsWhole'
  BY <1>3, <1>13 DEF PathsLast, RecordedIsWhole
<1>15. ClosedIsWhole'
  BY <1>3, <1>4, <1>5, <1>8, <1>10, <1>11 DEF FilesInv, ClosedIsWhole, Writing
<1> QED
  BY <1>1, <1>7, <1>9, <1>12, <1>14, <1>15 DEF FilesInv

LEMMA WriteCsvRowInv ==
    ASSUME FilesInv, WriteCsvRow, UNCHANGED <<table, open, reading, cleaning>> PROVE FilesInv'
<1> DEFINE c == writing.category
<1>1. Imported /\ ImportInv'
  BY ReportImport DEF ReportStep
<1>2. /\ csvs' = [csvs EXCEPT ![c] = Append(csvs[c], Selected(c)[Len(csvs[c]) + 1])]
      /\ pc = "rows" /\ pc' = "rows" /\ Len(csvs[c]) < Len(Selected(c))
      /\ UNCHANGED <<table, reason, cleaning, totalRows, results, book, writing>>
  BY DEF FilesInv, ReportTypeOK, WriteCsvRow, Goto
<1>3. /\ csvs \in [Categories -> Rows \cup {NoFile}]
      /\ c \in Filled \ (writing.left \cup writing.files) /\ csvs[c] # NoFile
  BY <1>2 DEF FilesInv, ReportTypeOK, WorkLeft
<1>4. c \in Categories /\ csvs[c] \in Rows
  BY <1>3 DEF Filled
<1> DEFINE grown == Append(csvs[c], Selected(c)[Len(csvs[c]) + 1])
<1>5. grown \in Rows
  <2>1. Selected(c) \in Seq(Seq(Cells))
    BY <1>1, SelectedFacts DEF Rows
  <2>2. Len(csvs[c]) \in Nat /\ Len(Selected(c)) \in Nat
    BY <1>4, <2>1, LenProperties DEF Rows
  <2>3. Selected(c)[Len(csvs[c]) + 1] \in Seq(Cells)
    BY <1>2, <2>1, <2>2, ElementOfSeq
  <2> QED
    BY <1>4, <2>3, AppendProperties DEF Rows
<1>6. csvs' = [csvs EXCEPT ![c] = grown]
  BY <1>2
<1> HIDE DEF grown
<1>7. ReportTypeOK'
  <2>1. csvs' \in [Categories -> Rows \cup {NoFile}]
    BY <1>3, <1>5, <1>6
  <2> QED
    BY <1>2, <2>1 DEF FilesInv, ReportTypeOK, Rows
<1>8. Filled' = Filled /\ \A d : Selected(d)' = Selected(d)
  BY <1>2, SameRows
<1>9. Counted' /\ BookKept'
  BY <1>2, StaysCounted DEF Writing, BookKept
<1>10. grown # NoFile
  BY <1>5, NoFileAssumption DEF Rows
<1>11. csvs'[c] = grown /\ \A d \in Categories : d # c => csvs'[d] = csvs[d]
  BY <1>3, <1>4, <1>6
<1>12. WorkLeft'
  BY <1>2, <1>8, <1>10, <1>11 DEF FilesInv, WorkLeft
<1>13. \A d \in Categories : ~results[d].path
  BY <1>2 DEF FilesInv, PathsLast
<1>14. PathsLast' /\ RecordedIsWhole'
  BY <1>2, <1>13 DEF PathsLast, RecordedIsWhole
<1>15. ClosedIsWhole'
  <2>1. ASSUME NEW d \in writing.files
        PROVE  IF csvs'[d] = NoFile THEN cleaning ELSE csvs'[d] = Selected(d)
    <3>1. d \in Categories /\ d # c
      BY <1>3, <2>1 DEF FilesInv, ReportTypeOK
    <3>2. csvs'[d] = csvs[d]
      BY <1>11, <3>1
    <3> QED
      BY <1>2, <2>1, <3>2 DEF FilesInv, ClosedIsWhole, Writing
  <2> QED
    BY <1>2, <1>8, <2>1 DEF ClosedIsWhole
<1> QED
  BY <1>1, <1>7, <1>9, <1>12, <1>14, <1>15 DEF FilesInv

LEMMA CloseCsvInv ==
    ASSUME FilesInv, CloseCsv, UNCHANGED <<table, open, reading, cleaning>> PROVE FilesInv'
<1> DEFINE c == writing.category
<1>1. Imported /\ ImportInv'
  BY ReportImport DEF ReportStep
<1>2. /\ pc = "rows" /\ pc' = "csvs" /\ csvs[c] = Selected(c)
      /\ UNCHANGED <<table, reason, cleaning, totalRows, results, book>>
  BY DEF CloseCsv, Goto
<1>3. /\ writing \in [left : SUBSET Categories, category : Categories \cup {NoFile},
                      files : SUBSET Categories]
      /\ c \in Filled \ (writing.left \cup writing.files) /\ c \in Categories
      /\ writing.left \cap writing.files = {}
      /\ Filled = writing.left \cup {c} \cup writing.files
  BY <1>2 DEF FilesInv, ReportTypeOK, WorkLeft, Filled
<1>4. /\ Len(csvs[c]) = Cardinality(RowsIn(c)) /\ csvs[c] \in Rows
      /\ Cardinality(RowsIn(c)) > 0
  BY <1>1, <1>2, <1>3, SelectedFacts, TableFacts DEF Filled
<1>5. csvs[c] # <<>> /\ csvs[c] # NoFile
  BY <1>4, EmptySeq, NoFileAssumption DEF Rows
<1>6. writing' = [writing EXCEPT !.category = NoFile, !.files = @ \cup {c}] /\ UNCHANGED csvs
  BY <1>5 DEF CloseCsv
<1>7. /\ writing'.left = writing.left /\ writing'.category = NoFile
      /\ writing'.files = writing.files \cup {c}
      /\ writing' \in [left : SUBSET Categories, category : Categories \cup {NoFile},
                       files : SUBSET Categories]
  BY <1>3, <1>6
<1>8. ReportTypeOK'
  BY <1>2, <1>6, <1>7 DEF FilesInv, ReportTypeOK, Rows
<1>9. Filled' = Filled /\ \A d : Selected(d)' = Selected(d)
  BY <1>2, SameRows
<1>10. Counted' /\ BookKept'
  BY <1>2, StaysCounted DEF Writing, BookKept
<1>11. WorkLeft'
  BY <1>2, <1>3, <1>7, <1>9 DEF WorkLeft
<1>12. \A d \in Categories : ~results[d].path
  BY <1>2 DEF FilesInv, PathsLast
<1>13. PathsLast' /\ RecordedIsWhole'
  BY <1>2, <1>12 DEF PathsLast, RecordedIsWhole
<1>14. ClosedIsWhole'
  BY <1>2, <1>5, <1>6, <1>7, <1>9 DEF FilesInv, ClosedIsWhole, Writing
<1> QED
  BY <1>1, <1>8, <1>10, <1>11, <1>13, <1>14 DEF FilesInv

LEMMA BeginSaveInv ==
    ASSUME FilesInv, BeginSave, UNCHANGED <<table, open, reading, cleaning>> PROVE FilesInv'
<1>1. ImportInv'
  BY ReportImport DEF ReportStep
<1>2. /\ pc = "csvs" /\ pc' = "save" /\ writing.left = {}
      /\ UNCHANGED <<table, reason, cleaning, totalRows, results, csvs, writing>>
  BY DEF BeginSave, Goto
<1>3. ReportTypeOK'
  BY <1>2 DEF FilesInv, ReportTypeOK, Rows
<1>4. Filled' = Filled /\ \A d : Selected(d)' = Selected(d)
  BY <1>2, SameRows
<1>5. Counted' /\ BookKept'
  BY <1>2, StaysCounted DEF Writing, BookKept
<1>6. WorkLeft'
  BY <1>2, <1>4 DEF FilesInv, WorkLeft
<1>7. PathsLast' /\ RecordedIsWhole'
  BY <1>2 DEF FilesInv, PathsLast, RecordedIsWhole
<1>8. ClosedIsWhole'
  BY <1>2, <1>4 DEF FilesInv, ClosedIsWhole, Writing
<1> QED
  BY <1>1, <1>3, <1>5, <1>6, <1>7, <1>8 DEF FilesInv

LEMMA EndSaveInv ==
    ASSUME FilesInv, EndSave, UNCHANGED <<table, open, reading, cleaning>> PROVE FilesInv'
<1>1. Imported /\ ImportInv'
  BY ReportImport DEF ReportStep
<1>2. /\ pc = "save" /\ pc' = "paths" /\ writing' = [writing EXCEPT !.left = writing.files]
      /\ UNCHANGED <<table, reason, cleaning, totalRows, results, csvs>>
  BY DEF EndSave, Goto
<1>3. /\ writing \in [left : SUBSET Categories, category : Categories \cup {NoFile},
                      files : SUBSET Categories]
      /\ Filled = writing.files
  BY <1>2 DEF FilesInv, ReportTypeOK, WorkLeft
<1>4. /\ writing'.left = Filled /\ writing'.files = writing.files
      /\ writing' \in [left : SUBSET Categories, category : Categories \cup {NoFile},
                       files : SUBSET Categories]
  BY <1>2, <1>3
<1>5. ReportTypeOK'
  BY <1>2, <1>4 DEF FilesInv, ReportTypeOK, Rows
<1>6. Filled' = Filled /\ \A d : Selected(d)' = Selected(d)
  BY <1>2, SameRows
<1>7. Counted'
  BY <1>2, StaysCounted DEF Writing
<1>8. WorkLeft'
  BY <1>2, <1>3, <1>4, <1>6 DEF WorkLeft
<1>9. \A c \in Categories : ~results[c].path
  BY <1>2 DEF FilesInv, PathsLast
<1>10. PathsLast' /\ RecordedIsWhole'
  BY <1>2, <1>4, <1>6, <1>9 DEF PathsLast, RecordedIsWhole
<1>11. ClosedIsWhole'
  BY <1>2, <1>4, <1>6 DEF FilesInv, ClosedIsWhole, Writing
<1>12. BookKept'
  <2>1. PICK order \in Orders(table) : book' = [c \in Listed |-> Split(Scanned(c, order))]
    BY DEF EndSave
  <2>2. Listed = Filled
    <3>1. \A c \in Categories : results[c].count = Cardinality(RowsIn(c))
      BY <1>2 DEF FilesInv, Counted, Writing
    <3>2. \A c \in Categories : results[c].count > 0 <=> RowsIn(c) # {}
      BY <1>1, <3>1, TableFacts, FS_EmptySet
    <3> QED
      BY <3>2 DEF Listed, Filled
  <2>3. Orders(table)' = Orders(table) /\ \A c : Scanned(c, order)' = Scanned(c, order)
    BY <1>2, SameRows
  <2>4. book' = [c \in Filled' |-> Split(Scanned(c, order)')]
    BY <1>6, <2>1, <2>2, <2>3
  <2> QED
    BY <2>3, <2>4 DEF BookKept
<1> QED
  BY <1>1, <1>5, <1>7, <1>8, <1>10, <1>11, <1>12 DEF FilesInv

LEMMA RecordPathInv ==
    ASSUME FilesInv, RecordPath, UNCHANGED <<table, open, reading, cleaning>> PROVE FilesInv'
<1>1. Imported /\ ImportInv'
  BY ReportImport DEF ReportStep
<1>2. PICK c \in writing.left :
        /\ results' = [results EXCEPT ![c].path = results[c].count > 0]
        /\ writing' = [writing EXCEPT !.left = @ \ {c}]
  BY DEF RecordPath
<1>3. /\ pc = "paths" /\ pc' = "paths"
      /\ UNCHANGED <<table, reason, cleaning, totalRows, csvs, book>>
  BY DEF RecordPath, Goto
<1>4. /\ writing \in [left : SUBSET Categories, category : Categories \cup {NoFile},
                      files : SUBSET Categories]
      /\ results \in [Categories -> [count : Nat, path : BOOLEAN]]
      /\ Filled = writing.files /\ writing.left \subseteq Filled /\ c \in Categories /\ c \in Filled
  BY <1>3 DEF FilesInv, ReportTypeOK, WorkLeft
<1>5. /\ writing'.left = writing.left \ {c} /\ writing'.files = writing.files
      /\ writing' \in [left : SUBSET Categories, category : Categories \cup {NoFile},
                       files : SUBSET Categories]
  BY <1>2, <1>4
<1>6. results[c].count > 0
  BY <1>1, <1>3, <1>4, TableFacts DEF FilesInv, Counted, Writing, Filled
<1>7. /\ results'[c].count = results[c].count /\ results'[c].path
      /\ \A d \in Categories : d # c => results'[d] = results[d]
      /\ results' \in [Categories -> [count : Nat, path : BOOLEAN]]
  <2>1. (results[c].count > 0) = TRUE
    BY <1>6
  <2>2. results[c] \in [count : Nat, path : BOOLEAN]
    BY <1>4
  <2>3. results' = [results EXCEPT ![c] = [results[c] EXCEPT !.path = TRUE]]
    BY <1>2, <1>4, <2>1
  <2>4. /\ [results[c] EXCEPT !.path = TRUE] \in [count : Nat, path : BOOLEAN]
        /\ [results[c] EXCEPT !.path = TRUE].count = results[c].count
        /\ [results[c] EXCEPT !.path = TRUE].path
    BY <2>2
  <2> QED
    BY <1>4, <2>2, <2>3, <2>4
<1>8. \A d \in Categories : results'[d].count = results[d].count
  BY <1>7
<1>9. ReportTypeOK'
  BY <1>3, <1>5, <1>7 DEF FilesInv, ReportTypeOK, Rows
<1>10. Filled' = Filled /\ \A d : Selected(d)' = Selected(d)
  BY <1>3, SameRows
<1>11. Counted' /\ BookKept'
  BY <1>3, <1>8, StaysCounted, BookStands DEF Writing
<1>12. WorkLeft'
  BY <1>3, <1>4, <1>5, <1>10 DEF WorkLeft
<1>13. PathsLast'
  <2>1. \A d \in Categories : results[d].path <=> d \in Filled \ writing.left
    BY <1>3 DEF FilesInv, PathsLast
  <2>2. \A d \in Categories : results'[d].path <=> d \in Filled \ writing'.left
    BY <1>4, <1>5, <1>7, <2>1
  <2> QED
    BY <1>3, <1>10, <2>2 DEF PathsLast
<1>14. ClosedIsWhole'
  BY <1>3, <1>4, <1>5, <1>10 DEF FilesInv, ClosedIsWhole, Writing
<1>15. RecordedIsWhole'
  <2>1. IF csvs[c] = NoFile THEN cleaning ELSE Len(csvs[c]) = results[c].count
    <3>1. Len(Selected(c)) = results[c].count
      BY <1>1, <1>3, <1>4, SelectedFacts DEF FilesInv, Counted, Writing
    <3> QED
      BY <1>3, <1>4, <3>1 DEF FilesInv, ClosedIsWhole, Writing
  <2> QED
    BY <1>3, <1>7, <1>8, <2>1 DEF FilesInv, RecordedIsWhole
<1> QED
  BY <1>1, <1>9, <1>11, <1>12, <1>13, <1>14, <1>15 DEF FilesInv

LEMMA CompleteInv ==
    ASSUME FilesInv, Complete, UNCHANGED <<table, open, reading, cleaning>> PROVE FilesInv'
<1>1. ImportInv'
  BY ReportImport DEF ReportStep
<1>2. /\ pc = "paths" /\ pc' = "done" /\ writing.left = {}
      /\ UNCHANGED <<table, reason, cleaning, totalRows, results, csvs, book, writing>>
  BY DEF Complete, Goto, reportVars
<1>3. ReportTypeOK'
  BY <1>2 DEF FilesInv, ReportTypeOK, Rows
<1>4. Filled' = Filled /\ \A d : Selected(d)' = Selected(d)
  BY <1>2, SameRows
<1>5. Counted' /\ BookKept'
  BY <1>2, StaysCounted, BookStands DEF Writing
<1>6. WorkLeft'
  BY <1>2, <1>4 DEF FilesInv, WorkLeft
<1>7. PathsLast' /\ RecordedIsWhole'
  BY <1>2, <1>4 DEF FilesInv, PathsLast, RecordedIsWhole
<1>8. ClosedIsWhole'
  BY <1>2, <1>4 DEF FilesInv, ClosedIsWhole, Writing
<1> QED
  BY <1>1, <1>3, <1>5, <1>6, <1>7, <1>8 DEF FilesInv

-----------------------------------------------------------------------------
(* The other steps.                                                        *)

\* The import makes no file, and a run that fails makes no more of them.
LEMMA ImportLeavesInv ==
    ASSUME FilesInv, ImportStep, ImportLeaves, UNCHANGED cleaning PROVE FilesInv'
<1>1. ImportInv'
  BY ImportStepInv DEF FilesInv
<1>2. pc' \notin {"filter"} \cup Tagging \cup Writing
  <2>1. CASE DropStaging
    BY <2>1 DEF DropStaging, Goto, Tagging, Writing
  <2>2. CASE CreateStaging
    BY <2>2 DEF CreateStaging, Goto, Tagging, Writing
  <2> QED
    BY <2>1, <2>2 DEF ImportStep, Begin, BulkRow, BulkPassOver, BulkCommit, BulkFails, ReadRow,
       EndOfFile, AddPipelineColumns, Fail, Goto, Tagging, Writing
<1>3. /\ writing' = IF pc' = "failed" THEN Rested ELSE writing
      /\ UNCHANGED <<totalRows, results, csvs, book>>
  BY DEF ImportLeaves
<1>4. ReportTypeOK'
  BY <1>3 DEF FilesInv, ReportTypeOK, Rested, Rows
<1>5. Counted' /\ WorkLeft' /\ PathsLast' /\ ClosedIsWhole' /\ BookKept'
  BY <1>2 DEF Counted, WorkLeft, PathsLast, ClosedIsWhole, BookKept, Tagging, Writing
<1>6. RecordedIsWhole'
  BY <1>3 DEF FilesInv, RecordedIsWhole
<1> QED
  BY <1>1, <1>4, <1>5, <1>6 DEF FilesInv

\* What the cleanup leaves alone.
LEMMA ImportSame == ASSUME ImportInv, UNCHANGED importVars PROVE ImportInv'
<1>1. Stream' = Stream /\ Width' = Width /\ Sure' = Sure /\ Positions(source)' = Positions(source)
  BY SameFile DEF importVars
<1>2. ImportTypeOK' /\ NothingLeftOpen'
  BY <1>1 DEF ImportInv, ImportTypeOK, NothingLeftOpen, importVars
<1>3. ImportedIsWhole' /\ TableIsEmptyOrWhole'
  BY <1>1 DEF ImportInv, ImportedIsWhole, Imported, TableIsEmptyOrWhole, importVars
<1>4. ReadIsKept'
  BY <1>1 DEF ImportInv, ReadIsKept, importVars
<1> QED
  BY <1>2, <1>3, <1>4 DEF ImportInv

LEMMA ListOutputInv == ASSUME FilesInv, ListOutput PROVE FilesInv'
<1>0. UNCHANGED <<importVars, reportVars>> /\ cleaning' = TRUE
  BY DEF ListOutput
<1>1. ImportInv'
  BY <1>0, ImportSame DEF FilesInv
<1>2. UNCHANGED <<table, pc, reason, totalRows, results, csvs, book, writing>>
  BY <1>0 DEF importVars, reportVars
<1>3. (\A c : RowsIn(c)' = RowsIn(c) /\ Selected(c)' = Selected(c)) /\ Filled' = Filled
  BY <1>2, SameRows
<1>4. ReportTypeOK'
  BY <1>0, <1>2 DEF FilesInv, ReportTypeOK, Rows
<1>5. Counted' /\ WorkLeft' /\ PathsLast'
  BY <1>2, <1>3 DEF FilesInv, Counted, WorkLeft, PathsLast
<1>6. ClosedIsWhole' /\ RecordedIsWhole' /\ BookKept'
  BY <1>0, <1>2, <1>3, BookStands DEF FilesInv, ClosedIsWhole, RecordedIsWhole
<1> QED
  BY <1>1, <1>4, <1>5, <1>6 DEF FilesInv

LEMMA RemoveFileInv == ASSUME FilesInv, RemoveFile PROVE FilesInv'
<1>0. /\ UNCHANGED importVars /\ cleaning /\ UNCHANGED <<reason, totalRows, results, writing, cleaning>>
  BY DEF RemoveFile
<1>1. ImportInv'
  BY <1>0, ImportSame DEF FilesInv
<1>2. UNCHANGED <<table, pc>>
  BY <1>0 DEF importVars
<1>3. (\A c : RowsIn(c)' = RowsIn(c) /\ Selected(c)' = Selected(c)) /\ Filled' = Filled
  BY <1>0, <1>2, SameRows
<1>4. /\ csvs' \in [Categories -> Rows \cup {NoFile}]
      /\ \A c \in Categories : csvs'[c] = csvs[c] \/ (csvs'[c] = NoFile /\ c # writing.category)
  <2>1. csvs \in [Categories -> Rows \cup {NoFile}]
    BY DEF FilesInv, ReportTypeOK
  <2>2. CASE UNCHANGED csvs
    BY <2>1, <2>2
  <2>3. CASE \E c \in Categories \ {writing.category} : csvs' = [csvs EXCEPT ![c] = NoFile]
    BY <2>1, <2>3
  <2> QED
    BY <2>2, <2>3 DEF RemoveFile
<1>5. ReportTypeOK'
  BY <1>0, <1>4 DEF FilesInv, ReportTypeOK, Rows
<1>6. Counted' /\ PathsLast'
  BY <1>0, <1>2, <1>3 DEF FilesInv, Counted, PathsLast
<1>7. WorkLeft'
  <2>1. pc = "rows" => csvs'[writing.category] # NoFile
    BY <1>4 DEF FilesInv, WorkLeft, Filled
  <2> QED
    BY <1>0, <1>2, <1>3, <2>1 DEF FilesInv, WorkLeft
<1>8. ClosedIsWhole' /\ RecordedIsWhole'
  <2>1. writing.files \subseteq Categories
    BY DEF FilesInv, ReportTypeOK
  <2> QED
    BY <1>0, <1>2, <1>3, <1>4, <2>1 DEF FilesInv, ClosedIsWhole, RecordedIsWhole
<1>9. BookKept'
  BY <1>0, <1>2, BookStands DEF RemoveFile
<1> QED
  BY <1>1, <1>5, <1>6, <1>7, <1>8, <1>9 DEF FilesInv

LEMMA FilesSame == ASSUME FilesInv, UNCHANGED fileVars PROVE FilesInv'
<1>0. UNCHANGED <<importVars, reportVars, cleaning>>
  BY DEF fileVars, importVars
<1>1. ImportInv'
  BY <1>0, ImportSame DEF FilesInv
<1>2. UNCHANGED <<table, pc, reason, totalRows, results, csvs, book, writing>>
  BY <1>0 DEF importVars, reportVars
<1>3. (\A c : RowsIn(c)' = RowsIn(c) /\ Selected(c)' = Selected(c)) /\ Filled' = Filled
  BY <1>2, SameRows
<1>4. ReportTypeOK'
  BY <1>0, <1>2 DEF FilesInv, ReportTypeOK, Rows
<1>5. Counted' /\ WorkLeft' /\ PathsLast'
  BY <1>2, <1>3 DEF FilesInv, Counted, WorkLeft, PathsLast
<1>6. ClosedIsWhole' /\ RecordedIsWhole' /\ BookKept'
  BY <1>0, <1>2, <1>3, BookStands DEF FilesInv, ClosedIsWhole, RecordedIsWhole
<1> QED
  BY <1>1, <1>4, <1>5, <1>6 DEF FilesInv

LEMMA FilesBegin == ASSUME FilesInit PROVE FilesInv
<1>1. ImportInv /\ pc = "idle"
  BY ImportBegins DEF FilesInit, ImportInit
<1>2. ReportTypeOK
  BY DEF FilesInit, ReportTypeOK, NoResult, Rested
<1>3. Counted /\ WorkLeft /\ PathsLast /\ ClosedIsWhole /\ BookKept
  BY <1>1 DEF Counted, WorkLeft, PathsLast, ClosedIsWhole, BookKept, Tagging, Writing
<1>4. RecordedIsWhole
  BY DEF FilesInit, RecordedIsWhole, NoResult
<1> QED
  BY <1>1, <1>2, <1>3, <1>4 DEF FilesInv

LEMMA FilesNextInv == ASSUME FilesInv, [FilesNext]_fileVars PROVE FilesInv'
<1>1. CASE ReportStep /\ UNCHANGED <<table, open, reading, cleaning>>
  BY <1>1, CountRowsInv, FilterInv, ClearResultsInv, InsertResultsInv, OpenCsvInv, WriteCsvRowInv,
     CloseCsvInv, BeginSaveInv, EndSaveInv, RecordPathInv, CompleteInv DEF ReportStep
<1> QED
  BY <1>1, ImportLeavesInv, ListOutputInv, RemoveFileInv, FilesSame DEF FilesNext

-----------------------------------------------------------------------------
(* The sheets.                                                             *)

LEMMA LastOfAppend ==
    ASSUME NEW S, NEW s \in Seq(S), NEW e \in S
    PROVE  Last(Append(s, e)) = e /\ Front(Append(s, e)) = s
<1>1. /\ Append(s, e) \in Seq(S) /\ Len(Append(s, e)) = Len(s) + 1 /\ Len(s) \in Nat
      /\ (\A i \in 1..Len(s) : Append(s, e)[i] = s[i]) /\ Append(s, e)[Len(s) + 1] = e
  BY AppendProperties, LenProperties
<1>2. Last(Append(s, e)) = e
  BY <1>1 DEF Last
<1>3. (Len(s) + 1) - 1 = Len(s)
  BY <1>1
<1>4. Front(Append(s, e)) = SubSeq(Append(s, e), 1, Len(s))
  BY <1>1, <1>3 DEF Front
<1>5. \A i \in 1..Len(s) : Append(s, e)[i] \in S
  BY <1>1, ElementOfSeq
<1>6. /\ SubSeq(Append(s, e), 1, Len(s)) \in Seq(S)
      /\ Len(SubSeq(Append(s, e), 1, Len(s))) = Len(s)
      /\ \A i \in 1..Len(s) : SubSeq(Append(s, e), 1, Len(s))[i] = s[i]
  <2>1. PICK m \in Nat : m = 1
    OBVIOUS
  <2>0. PICK n \in Nat : n = Len(s)
    BY <1>1
  <2>a. PICK t : t = Append(s, e)
    OBVIOUS
  <2>2. \A i \in m..n : t[i] \in S
    BY <1>5, <2>1, <2>0, <2>a
  <2>3. /\ SubSeq(t, m, n) \in Seq(S)
        /\ Len(SubSeq(t, m, n)) = IF m <= n THEN n - m + 1 ELSE 0
        /\ \A i \in 1..(n - m + 1) : SubSeq(t, m, n)[i] = t[m + i - 1]
    BY <2>2, SubSeqProperties
  <2>4. Len(SubSeq(t, m, n)) = n /\ n - m + 1 = n /\ \A i \in 1..n : m + i - 1 = i
    BY <2>1, <2>3
  <2>5. \A i \in 1..n : SubSeq(t, m, n)[i] = t[i]
    BY <2>3, <2>4
  <2> QED
    BY <1>1, <2>0, <2>1, <2>a, <2>3, <2>4, <2>5
<1>7. SubSeq(Append(s, e), 1, Len(s)) = s
  BY <1>6, SeqEqual
<1> QED
  BY <1>2, <1>4, <1>7

\* Sheets as they are filled: none too long, and none but the last empty.
Filling(sheets, S) ==
    /\ sheets \in Seq(Seq(S)) /\ sheets # <<>>
    /\ \A k \in 1..Len(sheets) : Len(sheets[k]) <= MaxRowsPerSheet
    /\ \A k \in 1..Len(sheets) : k < Len(sheets) => Len(sheets[k]) > 0

\* A row is put behind all of the others.
LEMMA PutFacts ==
    ASSUME NEW S, NEW sheets, Filling(sheets, S), NEW row \in S
    PROVE  /\ Filling(Put(sheets, row), S)
           /\ Len(Last(Put(sheets, row))) > 0
           /\ FlattenSeq(Put(sheets, row)) = FlattenSeq(sheets) \o << row >>
<1>1. PICK front \in Seq(Seq(S)), last \in Seq(S) : sheets = Append(front, last)
  <2>1. PICK T : T = Seq(S)
    OBVIOUS
  <2>2. sheets \in Seq(T) /\ sheets # <<>>
    BY <2>1 DEF Filling
  <2>3. \E front \in Seq(T), last \in T : sheets = Append(front, last)
    BY <2>2, SequenceEmptyOrAppend
  <2> QED
    BY <2>1, <2>3
<1> DEFINE n == Len(front)
           grown == Append(last, row)
<1>2. /\ n \in Nat /\ Len(last) \in Nat /\ Len(sheets) = n + 1 /\ sheets[n + 1] = last
      /\ \A k \in 1..n : sheets[k] = front[k]
  BY <1>1, AppendProperties, LenProperties
<1>3. Last(sheets) = last /\ Front(sheets) = front
  BY <1>1, LastOfAppend
<1>4. /\ Len(last) <= MaxRowsPerSheet
      /\ \A k \in 1..n : Len(front[k]) <= MaxRowsPerSheet /\ Len(front[k]) > 0
  <2>1. n + 1 \in 1..Len(sheets) /\ \A k \in 1..n : k \in 1..Len(sheets) /\ k < Len(sheets)
    BY <1>2
  <2> QED
    BY <1>2, <2>1 DEF Filling
<1>5. << row >> \in Seq(S) /\ Len(<< row >>) = 1
  OBVIOUS
<1>6. CASE Len(last) >= MaxRowsPerSheet
  <2>1. Put(sheets, row) = Append(sheets, << row >>)
    BY <1>3, <1>6 DEF Put
  <2>2. sheets \in Seq(Seq(S))
    BY DEF Filling
  <2>3. /\ Append(sheets, << row >>) \in Seq(Seq(S)) /\ Append(sheets, << row >>) # <<>>
        /\ Len(Append(sheets, << row >>)) = n + 2 /\ Append(sheets, << row >>)[n + 2] = << row >>
        /\ \A k \in 1..(n + 1) : Append(sheets, << row >>)[k] = sheets[k]
    <3>1. (n + 1) + 1 = n + 2
      BY <1>2
    <3>2. PICK T : T = Seq(S)
      OBVIOUS
    <3>3. PICK one \in T : one = << row >>
      BY <1>5, <3>2
    <3> HIDE DEF n
    <3>4. sheets \in Seq(T)
      BY <2>2, <3>2
    <3>5. /\ Append(sheets, one) \in Seq(T) /\ Append(sheets, one) # <<>>
          /\ Len(Append(sheets, one)) = Len(sheets) + 1
          /\ \A k \in 1..Len(sheets) : Append(sheets, one)[k] = sheets[k]
          /\ Append(sheets, one)[Len(sheets) + 1] = one
      BY <3>4, AppendProperties
    <3> QED
      BY <1>2, <3>1, <3>2, <3>3, <3>5
  <2>4. Len(last) > 0
    BY <1>2, <1>6, MaxRowsAssumption
  <2>5. /\ \A k \in 1..(n + 2) : Len(Append(sheets, << row >>)[k]) <= MaxRowsPerSheet
        /\ \A k \in 1..(n + 2) : k < n + 2 => Len(Append(sheets, << row >>)[k]) > 0
    <3>1. ASSUME NEW k \in 1..(n + 2), k # n + 2
          PROVE  /\ Len(Append(sheets, << row >>)[k]) <= MaxRowsPerSheet
                 /\ Len(Append(sheets, << row >>)[k]) > 0
      <4>1. k \in 1..n \/ k = n + 1
        BY <1>2, <3>1
      <4>2. k \in 1..(n + 1)
        BY <1>2, <3>1
      <4> QED
        BY <1>2, <1>4, <2>3, <2>4, <4>1, <4>2
    <3>2. Len(Append(sheets, << row >>)[n + 2]) <= MaxRowsPerSheet
      BY <1>5, <2>3, MaxRowsAssumption
    <3>3. \A k \in 1..(n + 2) : k < n + 2 => k # n + 2
      BY <1>2
    <3> HIDE DEF n
    <3> QED
      BY <3>1, <3>2, <3>3
  <2>6. Filling(Append(sheets, << row >>), S)
    BY <2>3, <2>5 DEF Filling
  <2>7. Last(Append(sheets, << row >>)) = << row >>
    BY <1>5, <2>2, LastOfAppend
  <2>8. FlattenSeq(Append(sheets, << row >>)) = FlattenSeq(sheets) \o << row >>
    BY <1>5, <2>2, FlattenAppend
  <2>9. Len(Last(Append(sheets, << row >>))) > 0
    <3>1. PICK one : one = << row >> /\ Len(one) = 1
      BY <1>5
    <3>2. Len(Last(Append(sheets, << row >>))) = 1
      BY <2>7, <3>1
    <3>3. 1 > 0
      OBVIOUS
    <3> QED
      BY <3>2, <3>3, Zenon
  <2> QED
    BY <2>1, <2>6, <2>8, <2>9
<1>7. CASE ~(Len(last) >= MaxRowsPerSheet)
  <2>1. Put(sheets, row) = Append(front, grown)
    BY <1>3, <1>7 DEF Put
  <2>2. grown \in Seq(S) /\ Len(grown) = Len(last) + 1 /\ grown = last \o << row >>
    BY AppendProperties, AppendIsConcat
  <2>3. Len(grown) > 0 /\ Len(grown) <= MaxRowsPerSheet
    BY <1>2, <1>7, <2>2, MaxRowsAssumption
  <2> HIDE DEF grown
  <2>4. /\ Append(front, grown) \in Seq(Seq(S)) /\ Append(front, grown) # <<>>
        /\ Len(Append(front, grown)) = n + 1 /\ Append(front, grown)[n + 1] = grown
        /\ \A k \in 1..n : Append(front, grown)[k] = front[k]
    <3>1. PICK T : T = Seq(S)
      OBVIOUS
    <3>2. front \in Seq(T) /\ grown \in T
      BY <2>2, <3>1
    <3>3. /\ Append(front, grown) \in Seq(T) /\ Append(front, grown) # <<>>
          /\ Len(Append(front, grown)) = Len(front) + 1
          /\ \A k \in 1..Len(front) : Append(front, grown)[k] = front[k]
          /\ Append(front, grown)[Len(front) + 1] = grown
      BY <3>2, AppendProperties
    <3> QED
      BY <3>1, <3>3
  <2>5. /\ \A k \in 1..(n + 1) : Len(Append(front, grown)[k]) <= MaxRowsPerSheet
        /\ \A k \in 1..(n + 1) : k < n + 1 => Len(Append(front, grown)[k]) > 0
    <3>1. \A k \in 1..(n + 1) : k = n + 1 \/ k \in 1..n
      BY <1>2
    <3>2. \A k \in 1..(n + 1) : k < n + 1 => k \in 1..n
      BY <1>2
    <3> QED
      BY <1>4, <2>3, <2>4, <3>1, <3>2
  <2>6. Filling(Append(front, grown), S)
    BY <2>4, <2>5 DEF Filling
  <2>7. Last(Append(front, grown)) = grown
    BY <2>2, LastOfAppend
  <2>8. FlattenSeq(Append(front, grown)) = FlattenSeq(front) \o grown
    BY <2>2, FlattenAppend
  <2>9. FlattenSeq(sheets) = FlattenSeq(front) \o last
    BY <1>1, FlattenAppend
  <2>10. FlattenSeq(front) \in Seq(S)
    <3>1. PICK f : f = [i \in 1..Len(front) |-> Len(front[i])]
      OBVIOUS
    <3>2. \A i \in 1..Len(front) : f[i] = Len(front[i])
      BY <3>1
    <3> QED
      BY <3>2, FlattenFacts
  <2>11. FlattenSeq(front) \o grown = FlattenSeq(sheets) \o << row >>
    BY <1>5, <2>2, <2>9, <2>10, ConcatAssociative
  <2> QED
    BY <2>1, <2>3, <2>6, <2>7, <2>8, <2>11
<1> QED
  BY <1>6, <1>7

LEMMA FillingBegins ==
    ASSUME NEW S
    PROVE  Filling(<< <<>> >>, S) /\ FlattenSeq(<< <<>> >>) = <<>>
<1> DEFINE base == << <<>> >>
<1>1. <<>> \in Seq(S) /\ Len(<<>>) = 0
  BY EmptySeq
<1>2. base \in Seq(Seq(S)) /\ Len(base) = 1 /\ base[1] = <<>> /\ base # <<>>
  BY <1>1
<1>3. \A k \in 1..Len(base) : k = 1
  BY <1>2
<1>4. \A k \in 1..Len(base) : Len(base[k]) <= MaxRowsPerSheet
  BY <1>1, <1>2, <1>3, MaxRowsAssumption
<1>5. \A k \in 1..Len(base) : k < Len(base) => Len(base[k]) > 0
  BY <1>2, <1>3
<1>6. Filling(base, S)
  BY <1>2, <1>4, <1>5 DEF Filling
<1>7. PICK none : none = <<>> /\ none \in Seq(S)
  BY <1>1
<1>8. PICK T : T = Seq(S)
  OBVIOUS
<1>9. << none >> \in Seq(T) /\ none \in Seq(T)
  BY <1>7, <1>8, EmptySeq
<1>10. Append(<<>>, none) = << none >>
  <2>1. <<>> \in Seq(T)
    BY EmptySeq
  <2>2. none \in T
    BY <1>7, <1>8
  <2>3. Append(<<>>, none) = <<>> \o << none >>
    BY <2>1, <2>2, AppendIsConcat
  <2> QED
    BY <1>9, <2>3, ConcatEmptySeq
<1>11. FlattenSeq(Append(none, none)) = FlattenSeq(none) \o none
  BY <1>7, <1>8, <1>9, FlattenAppend
<1>12. FlattenSeq(none) = <<>>
  BY <1>1, <1>7 DEF FlattenSeq
<1>13. FlattenSeq(base) = <<>>
  BY <1>7, <1>10, <1>11, <1>12, ConcatEmptySeq
<1> QED
  BY <1>6, <1>13

\* The sheets while a category is written, a row at a time.
Fills(g, rows) ==
    /\ g[0] = << <<>> >>
    /\ \A k \in 1..Len(rows) : g[k] = Put(g[k - 1], rows[k])

\* The fold does what its definition says.
LEMMA SplitSteps ==
    ASSUME NEW S, NEW rows \in Seq(S)
    PROVE  \E g : Fills(g, rows) /\ g[Len(rows)] = Split(rows)
<1> DEFINE n == Len(rows)
           D == 1..n
           base == << <<>> >>
           V == {sheets \in Seq(Seq(S)) : Filling(sheets, S)}
           ch == [s \in SUBSET D |-> Max(s)]
           F == [p \in D \X V |-> Put(p[2], rows[p[1]])]
           Body(h) == [s \in SUBSET D |->
                         IF s = {} THEN base ELSE Put(h[s \ {Max(s)}], rows[Max(s)])]
           it == CHOOSE h : h = Body(h)
<1>1. n \in Nat /\ DOMAIN rows = D /\ (\A i \in D : rows[i] \in S) /\ IsFiniteSet(D)
  BY ElementOfSeq, LenProperties, FS_Interval
<1>2. Picks(ch, D)
  <2>1. \A s \in SUBSET D : s # {} => Max(s) \in s
    BY <1>1, MaxIsThere
  <2> QED
    BY <2>1 DEF Picks
<1>3. base \in V
  BY FillingBegins DEF Filling
<1>4. F \in [D \X V -> V]
  <2>1. ASSUME NEW i \in D, NEW sheets \in V PROVE Put(sheets, rows[i]) \in V
    <3>1. Filling(Put(sheets, rows[i]), S)
      BY <1>1, PutFacts
    <3> QED
      BY <3>1 DEF Filling
  <2> HIDE DEF V, D
  <2> QED
    BY <2>1
<1>5. PICK g : Recurs(g, D, V, base, F, ch)
  <2> HIDE DEF D, V, base, ch, F
  <2> QED
    BY <1>1, <1>2, <1>3, <1>4, RecursionExists
<1>6. g = Body(g)
  <2> HIDE DEF V, base
  <2>1. g \in [SUBSET D -> V] /\ \A s \in SUBSET D : g[s] = IF s = {} THEN base ELSE F[<<ch[s], g[s \ {ch[s]}]>>]
    BY <1>5 DEF Recurs
  <2>2. ASSUME NEW s \in SUBSET D, s # {} PROVE g[s] = Put(g[s \ {Max(s)}], rows[Max(s)])
    <3>1. ch[s] = Max(s) /\ Max(s) \in D
      BY <1>2, <2>2 DEF Picks
    <3>2. g[s \ {Max(s)}] \in V
      BY <2>1
    <3>3. <<Max(s), g[s \ {Max(s)}]>> \in D \X V
      BY <3>1, <3>2
    <3>4. g[s] = F[<<Max(s), g[s \ {Max(s)}]>>]
      BY <2>1, <2>2, <3>1
    <3> HIDE DEF D
    <3> QED
      BY <3>3, <3>4
  <2> QED
    BY <2>1, <2>2
<1>7. it = Body(it)
  BY <1>6
<1>8. Split(rows) = it[D]
  BY <1>1 DEF Split, FoldLeft, MapThenFoldSet
<1>9. \A s \in SUBSET D : it[s] = g[s]
  <2>1. ASSUME NEW h, h = Body(h) PROVE \A s \in SUBSET D : h[s] = g[s]
    <3>1. \A s \in SUBSET D :
            /\ h[s] = IF s = {} THEN base ELSE Put(h[s \ {ch[s]}], rows[ch[s]])
            /\ g[s] = IF s = {} THEN base ELSE Put(g[s \ {ch[s]}], rows[ch[s]])
      BY <2>1, <1>6
    <3>2. h[{}] = g[{}]
      BY <3>1
    <3>3. \A s \in SUBSET D :
              s # {} /\ h[s \ {ch[s]}] = g[s \ {ch[s]}] => h[s] = g[s]
      BY <3>1
    <3>4. SameWay(h, g, D, ch)
      BY <3>2, <3>3 DEF SameWay
    <3> HIDE DEF ch, D
    <3> QED
      BY <1>1, <1>2, <3>4, RecursionUnique
  <2> QED
    BY <1>7, <2>1
<1> DEFINE r == [k \in 0..n |-> g[1..k]]
<1>10. r[0] = base
  <2>1. 1..0 = {} /\ 0 \in 0..n
    BY <1>1
  <2>2. g[{}] = base
    BY <1>6
  <2> QED
    BY <2>1, <2>2
<1>11. ASSUME NEW k \in 1..n PROVE r[k] = Put(r[k - 1], rows[k])
  <2>1. k \in 0..n /\ k - 1 \in 0..n /\ 1..k \in SUBSET D /\ 1..k # {} /\ k \in 1..k
    <3> HIDE DEF r, V, base, ch, F, it, Body
    <3>1. PICK m \in Nat : m = n
      BY <1>1
    <3>2. k \in 1..m
      BY <3>1
    <3>3. k \in 0..m /\ k - 1 \in 0..m /\ k \in 1..k
      BY <3>2
    <3>4. \A i \in 1..k : i \in 1..m
      BY <3>2
    <3> QED
      BY <3>1, <3>3, <3>4
  <2>2. Max(1..k) = k
    <3>1. Max(1..k) = CHOOSE x \in 1..k : \A y \in 1..k : x >= y
      BY DEF Max
    <3>2. \A x \in 1..k : (\A y \in 1..k : x >= y) <=> x = k
      BY <1>1
    <3> QED
      BY <2>1, <3>1, <3>2
  <2>3. (1..k) \ {k} = 1..(k - 1)
    BY <1>1
  <2>4. g[1..k] = Put(g[(1..k) \ {Max(1..k)}], rows[Max(1..k)])
    BY <1>6, <2>1
  <2> QED
    BY <2>1, <2>2, <2>3, <2>4
<1>12. r[n] = Split(rows)
  <2>1. n \in 0..n /\ D \in SUBSET D
    BY <1>1
  <2> HIDE DEF it
  <2> QED
    BY <1>8, <1>9, <2>1
<1> HIDE DEF r
<1>13. Fills(r, rows)
  BY <1>10, <1>11 DEF Fills
<1> QED
  BY <1>12, <1>13

\* A category split into sheets is the category, and no sheet is too long or empty.
LEMMA SplitFacts ==
    ASSUME NEW S, NEW rows \in Seq(S)
    PROVE  /\ FlattenSeq(Split(rows)) = rows
           /\ Len(rows) > 0 => \A k \in DOMAIN Split(rows) : Len(Split(rows)[k]) \in 1..MaxRowsPerSheet
<1> DEFINE n == Len(rows)
<1>1. n \in Nat /\ \A i \in 1..n : rows[i] \in S
  BY ElementOfSeq, LenProperties
<1>2. PICK g : Fills(g, rows) /\ g[n] = Split(rows)
  BY SplitSteps
<1> DEFINE A == {k \in Nat : k <= n => /\ Filling(g[k], S)
                                       /\ FlattenSeq(g[k]) = SubSeq(rows, 1, k)
                                       /\ k > 0 => Len(Last(g[k])) > 0}
<1>3. 0 \in A
  <2>1. g[0] = << <<>> >>
    BY <1>2 DEF Fills
  <2>2. SubSeq(rows, 1, 0) = <<>>
    <3>1. PICK m \in Int : m = 1
      OBVIOUS
    <3>2. PICK z \in Int : z = 0
      OBVIOUS
    <3>3. z < m
      BY <3>1, <3>2
    <3>4. SubSeq(rows, m, z) = <<>>
      BY <3>3, SubSeqEmpty
    <3> QED
      BY <3>1, <3>2, <3>4
  <2>3. Filling(g[0], S) /\ FlattenSeq(g[0]) = SubSeq(rows, 1, 0)
    BY <2>1, <2>2, FillingBegins
  <2>4. ~(0 > 0)
    OBVIOUS
  <2> QED
    BY <2>3, <2>4
<1>4. ASSUME NEW k \in Nat, k \in A PROVE k + 1 \in A
  <2> SUFFICES ASSUME k + 1 <= n
               PROVE  /\ Filling(g[k + 1], S)
                      /\ FlattenSeq(g[k + 1]) = SubSeq(rows, 1, k + 1)
                      /\ Len(Last(g[k + 1])) > 0
    OBVIOUS
  <2>1. PICK i \in 1..n : i = k + 1 /\ i - 1 = k
    BY <1>1
  <2>2. Filling(g[k], S) /\ FlattenSeq(g[k]) = SubSeq(rows, 1, k)
    <3>1. k <= n
      BY <1>1, <2>1
    <3> QED
      BY <1>4, <3>1
  <2>3. g[i] = Put(g[k], rows[i])
    BY <1>2, <2>1 DEF Fills
  <2>4. rows[i] \in S
    BY <1>1
  <2> HIDE DEF A, n
  <2>5. /\ Filling(g[i], S) /\ Len(Last(g[i])) > 0
        /\ FlattenSeq(g[i]) = FlattenSeq(g[k]) \o << rows[i] >>
    BY <2>2, <2>3, <2>4, PutFacts
  <2>6. SubSeq(rows, 1, i) = SubSeq(rows, 1, k) \o << rows[i] >>
    <3>1. PICK m \in 1..Len(rows) : m = 1
      BY <1>1 DEF n
    <3>2. i \in m..Len(rows)
      BY <1>1, <3>1 DEF n
    <3>3. SubSeq(rows, m, i) = SubSeq(rows, m, i - 1) \o << rows[i] >>
      BY <3>2, SubSeqRecursiveSecond
    <3> QED
      BY <2>1, <3>1, <3>3
  <2> QED
    BY <2>1, <2>2, <2>5, <2>6
<1> HIDE DEF A
<1>5. \A k \in Nat : k \in A
  BY <1>3, <1>4, NatSetInduction
<1>6. /\ Filling(Split(rows), S) /\ FlattenSeq(Split(rows)) = SubSeq(rows, 1, n)
      /\ n > 0 => Len(Last(Split(rows))) > 0
  <2>1. n <= n /\ n \in A
    BY <1>1, <1>5
  <2> QED
    BY <1>2, <2>1 DEF A
<1>7. SubSeq(rows, 1, n) = rows
  BY SubSeqFull
<1>8. ASSUME n > 0, NEW k \in DOMAIN Split(rows) PROVE Len(Split(rows)[k]) \in 1..MaxRowsPerSheet
  <2>1. PICK sheets \in Seq(Seq(S)) : sheets = Split(rows)
    BY <1>6 DEF Filling
  <2>2. DOMAIN sheets = 1..Len(sheets) /\ Len(sheets) \in Nat /\ Len(sheets[k]) \in Nat
    <3>1. DOMAIN sheets = 1..Len(sheets) /\ Len(sheets) \in Nat
      BY LenProperties
    <3>2. sheets[k] \in Seq(S)
      BY <1>8, <2>1, <3>1, ElementOfSeq
    <3> QED
      BY <3>1, <3>2, LenProperties
  <2>3. k \in 1..Len(sheets)
    BY <1>8, <2>1, <2>2
  <2>4. Len(sheets[k]) <= MaxRowsPerSheet /\ (k < Len(sheets) => Len(sheets[k]) > 0)
    BY <1>6, <2>1, <2>3 DEF Filling
  <2>5. Len(sheets[Len(sheets)]) > 0
    BY <1>6, <1>8, <2>1 DEF Last
  <2>6. k < Len(sheets) \/ k = Len(sheets)
    BY <2>2, <2>3
  <2>7. Len(sheets[k]) > 0
    BY <2>4, <2>5, <2>6
  <2>8. Len(sheets[k]) \in 1..MaxRowsPerSheet
    BY <2>2, <2>4, <2>7, MaxRowsAssumption
  <2> QED
    BY <2>1, <2>8
<1> QED
  BY <1>6, <1>7, <1>8

\* at tells which row of the table each row of a scan is; none of the category is left out.
Fetches(at, c, rows) ==
    /\ at \in Bijection(1..Len(rows), RowsIn(c))
    /\ \A k \in 1..Len(rows) : rows[k] = table[at[k]]

LEMMA ScannedFacts ==
    ASSUME FilesInv, Imported, NEW c, NEW order \in Orders(table)
    PROVE  /\ Scanned(c, order) \in Rows
           /\ \E at : Fetches(at, c, Scanned(c, order))
<1> DEFINE n == Len(table)
           places == {k \in DOMAIN order : order[k] \in RowsIn(c)}
           is == Only(order, places)
           m == Len(is)
           at == [k \in 1..m |-> is[k]]
<1>1. n \in Nat /\ DOMAIN table = 1..n /\ RowsIn(c) \in SUBSET DOMAIN table /\ table \in Seq(Seq(Cells))
  BY TableFacts DEF Rows
<1>2. order \in Bijection(1..n, 1..n)
  BY <1>1 DEF Orders
<1>3. /\ order \in [1..n -> 1..n]
      /\ \A i, k \in 1..n : order[i] = order[k] => i = k
      /\ \A r \in 1..n : \E i \in 1..n : order[i] = r
  BY <1>2 DEF Bijection, Injection, Surjection, IsInjective
<1>4. order \in Seq(1..n) /\ DOMAIN order = 1..n
  BY <1>1, <1>3, SeqIs
<1>5. is \in Seq(1..n) /\ \E b : Keeps(b, order, places, is)
  <2>1. places \in SUBSET DOMAIN order
    OBVIOUS
  <2> HIDE DEF places
  <2> QED
    BY <1>4, <2>1, OnlyFacts, OnlyKeeps
<1>6. PICK b : Keeps(b, order, places, is)
  BY <1>5
<1> HIDE DEF is
<1>7. /\ b \in [places -> 1..m]
      /\ \A i, k \in places : b[i] = b[k] => i = k
      /\ \A k \in 1..m : \E i \in places : b[i] = k
      /\ \A i \in places : is[b[i]] = order[i]
  BY <1>6 DEF Keeps, Bijection, Injection, Surjection, IsInjective
<1>8. m \in Nat /\ DOMAIN is = 1..m /\ \A k \in 1..m : is[k] \in 1..n
  BY <1>5, ElementOfSeq, LenProperties
<1>9. \A k \in 1..m : is[k] \in RowsIn(c)
  BY <1>7
<1>10. \A k, l \in 1..m : is[k] = is[l] => k = l
  <2> SUFFICES ASSUME NEW k \in 1..m, NEW l \in 1..m, is[k] = is[l] PROVE k = l
    OBVIOUS
  <2>1. PICK i \in places : b[i] = k
    BY <1>7
  <2>2. PICK j \in places : b[j] = l
    BY <1>7
  <2>3. order[i] = order[j] /\ i \in 1..n /\ j \in 1..n
    BY <1>4, <1>7, <2>1, <2>2
  <2> QED
    BY <1>3, <2>1, <2>2, <2>3
<1>11. \A r \in RowsIn(c) : \E k \in 1..m : is[k] = r
  <2> SUFFICES ASSUME NEW r \in RowsIn(c) PROVE \E k \in 1..m : is[k] = r
    OBVIOUS
  <2>1. PICK i \in 1..n : order[i] = r
    BY <1>1, <1>3
  <2>2. i \in places
    BY <1>4, <2>1
  <2> QED
    BY <1>7, <2>1, <2>2
<1>12. at \in Bijection(1..m, RowsIn(c))
  <2>1. at \in [1..m -> RowsIn(c)]
    BY <1>9
  <2>2. \A k, l \in 1..m : at[k] = at[l] => k = l
    BY <1>10
  <2>3. \A r \in RowsIn(c) : \E k \in 1..m : at[k] = r
    BY <1>11
  <2> HIDE DEF at, m
  <2> QED
    BY <2>1, <2>2, <2>3 DEF Bijection, Injection, Surjection, IsInjective
<1>13. Scanned(c, order) = [k \in 1..m |-> table[is[k]]]
  BY <1>8 DEF Scanned, is
<1>14. \A i \in 1..n : table[i] \in Seq(Cells)
  BY <1>1, ElementOfSeq
<1>15. Scanned(c, order) \in [1..m -> Seq(Cells)]
  BY <1>8, <1>13, <1>14
<1>16. Scanned(c, order) \in Rows /\ Len(Scanned(c, order)) = m
  <2> HIDE DEF m
  <2> QED
    BY <1>8, <1>15, SeqIs DEF Rows
<1>17. \A k \in 1..m : Scanned(c, order)[k] = table[at[k]]
  BY <1>13
<1>18. Fetches(at, c, Scanned(c, order))
  <2> HIDE DEF at, m
  <2> QED
    BY <1>12, <1>16, <1>17 DEF Fetches
<1> QED
  BY <1>16, <1>18

InOrder(s, order) == [i \in DOMAIN s |-> s[order[i]]]

\* Two scans for a category find the same rows, in whatever order.
LEMMA SameButForOrder ==
    ASSUME FilesInv, Imported, NEW c, NEW one \in Rows, NEW other \in Rows,
           NEW at, Fetches(at, c, one), NEW to, Fetches(to, c, other)
    PROVE  /\ Len(one) = Cardinality(RowsIn(c))
           /\ \E order \in Orders(one) : other = InOrder(one, order)
<1> DEFINE m == Len(one)
           l == Len(other)
           o == [k \in 1..l |-> CHOOSE i \in 1..m : at[i] = to[k]]
<1>1. m \in Nat /\ l \in Nat /\ DOMAIN one = 1..m /\ DOMAIN other = 1..l
  BY LenProperties DEF Rows
<1>2. at \in Bijection(1..m, RowsIn(c)) /\ \A k \in 1..m : one[k] = table[at[k]]
  BY DEF Fetches
<1>3. to \in Bijection(1..l, RowsIn(c)) /\ \A k \in 1..l : other[k] = table[to[k]]
  BY DEF Fetches
<1>4. m = Cardinality(RowsIn(c)) /\ l = Cardinality(RowsIn(c))
  <2>1. ExistsBijection(1..m, RowsIn(c)) /\ ExistsBijection(1..l, RowsIn(c))
    BY <1>2, <1>3 DEF ExistsBijection
  <2> HIDE DEF m, l
  <2> QED
    BY <1>1, <2>1, FS_CountingElements
<1>5. /\ at \in [1..m -> RowsIn(c)]
      /\ \A i, k \in 1..m : at[i] = at[k] => i = k
      /\ \A r \in RowsIn(c) : \E i \in 1..m : at[i] = r
  BY <1>2 DEF Bijection, Injection, Surjection, IsInjective
<1>6. /\ to \in [1..l -> RowsIn(c)]
      /\ \A i, k \in 1..l : to[i] = to[k] => i = k
      /\ \A r \in RowsIn(c) : \E i \in 1..l : to[i] = r
  BY <1>3 DEF Bijection, Injection, Surjection, IsInjective
<1>7. ASSUME NEW k \in 1..l PROVE o[k] \in 1..m /\ at[o[k]] = to[k]
  <2>1. \E i \in 1..m : at[i] = to[k]
    BY <1>5, <1>6
  <2>2. o[k] = CHOOSE i \in 1..m : at[i] = to[k]
    OBVIOUS
  <2> HIDE DEF o, m
  <2> QED
    BY <2>1, <2>2
<1>8. o = [k \in 1..l |-> o[k]]
  OBVIOUS
<1> HIDE DEF o, m, l
<1>9. o \in [1..m -> 1..m]
  BY <1>4, <1>7, <1>8
<1>10. \A i, k \in 1..m : o[i] = o[k] => i = k
  BY <1>4, <1>6, <1>7
<1>11. \A i \in 1..m : \E k \in 1..m : o[k] = i
  <2> SUFFICES ASSUME NEW i \in 1..m PROVE \E k \in 1..m : o[k] = i
    OBVIOUS
  <2>1. PICK k \in 1..l : to[k] = at[i]
    BY <1>5, <1>6
  <2>2. o[k] \in 1..m /\ at[o[k]] = at[i]
    BY <1>7, <2>1
  <2> QED
    BY <1>4, <1>5, <2>2
<1>12. o \in Bijection(1..m, 1..m)
  BY <1>9, <1>10, <1>11 DEF Bijection, Injection, Surjection, IsInjective
<1>13. o \in Orders(one)
  BY <1>1, <1>12 DEF Orders
<1>14. \A i \in 1..m : other[i] = one[o[i]]
  BY <1>2, <1>3, <1>4, <1>7
<1>15. other = [i \in 1..l |-> other[i]]
  BY <1>1 DEF Rows
<1>16. other = InOrder(one, o)
  BY <1>1, <1>4, <1>14, <1>15 DEF InOrder
<1> QED
  BY <1>4, <1>13, <1>16 DEF m

-----------------------------------------------------------------------------
(* What follows.                                                           *)

\* Categories that have all the rows between them: their numbers add up.
LEMMA RowsAddUp ==
    ASSUME FilesInv, pc = "done", NEW C \in SUBSET Categories, Filled \subseteq C,
           NEW f, DOMAIN f = C, \A c \in C : f[c] = Cardinality(RowsIn(c))
    PROVE  totalRows = SumFunction(f)
<1> DEFINE D == [c \in C |-> RowsIn(c)]
<1>1. Imported /\ totalRows = Len(table) /\ reason \in [DOMAIN table -> Categories]
  BY DEF FilesInv, Counted, Imported, Tagging, Writing
<1>2. IsFiniteSet(C)
  BY CategoriesAssumption, FS_Subset
<1>3. (\A c \in C : IsFiniteSet(D[c])) /\ (\A c \in C : f[c] = Cardinality(D[c]))
  BY <1>1, TableFacts
<1>4. \A c, d \in C : c # d => D[c] \cap D[d] = {}
  BY DEF RowsIn
<1>5. UNION {D[c] : c \in C} = DOMAIN table
  <2>1. ASSUME NEW i \in DOMAIN table PROVE \E c \in C : i \in D[c]
    <3>1. reason[i] \in Categories /\ i \in RowsIn(reason[i])
      BY <1>1 DEF RowsIn
    <3>2. reason[i] \in C
      BY <3>1 DEF Filled
    <3> QED
      BY <3>1, <3>2
  <2>2. \A c \in C : D[c] \subseteq DOMAIN table
    BY DEF RowsIn
  <2> QED
    BY <2>1, <2>2
<1> HIDE DEF D
<1>6. Cardinality(UNION {D[c] : c \in C}) = SumFunctionOnSet(f, C)
  BY <1>2, <1>3, <1>4, SumOfSizes
<1>7. Cardinality(DOMAIN table) = Len(table)
  <2>1. PICK n \in Nat : n = Len(table) /\ DOMAIN table = 1..n
    BY <1>1, TableFacts
  <2>2. Cardinality(1..n) = n
    BY FS_Interval
  <2> QED
    BY <2>1, <2>2
<1>8. SumFunction(f) = SumFunctionOnSet(f, C)
  BY DEF SumFunction
<1> QED
  BY <1>1, <1>5, <1>6, <1>7, <1>8

LEMMA DeliveredFollows == ASSUME FilesInv PROVE EveryRowDelivered
<1> SUFFICES ASSUME pc = "done" PROVE EveryRowDelivered
  BY DEF EveryRowDelivered
<1> DEFINE offered == {c \in Categories : results[c].path}
           counts == [c \in Categories |-> results[c].count]
           lengths == [c \in offered |-> Len(csvs[c])]
<1>1. /\ totalRows = Len(table)
      /\ \A c \in Categories : results[c].count = Cardinality(RowsIn(c))
  BY DEF FilesInv, Counted, Writing
<1>2. Len(table) \in Cardinality(Sure)..Cardinality(Positions(source))
  BY DEF FilesInv, ImportInv, ImportedIsWhole, Imported
<1>3. totalRows = SumFunction(counts)
  <2>1. DOMAIN counts = Categories /\ \A c \in Categories : counts[c] = Cardinality(RowsIn(c))
    BY <1>1
  <2>2. Categories \in SUBSET Categories /\ Filled \subseteq Categories
    BY DEF Filled
  <2> HIDE DEF counts
  <2> QED
    BY <2>1, <2>2, RowsAddUp
<1>4. offered = Filled
  BY DEF FilesInv, PathsLast, WorkLeft, Filled
<1>5. ASSUME \A c \in offered : csvs[c] # NoFile PROVE totalRows = SumFunction(lengths)
  <2>1. \A c \in offered : Len(csvs[c]) = Cardinality(RowsIn(c))
    BY <1>1, <1>5 DEF FilesInv, RecordedIsWhole
  <2>2. DOMAIN lengths = offered /\ \A c \in offered : lengths[c] = Cardinality(RowsIn(c))
    BY <2>1
  <2>3. offered \in SUBSET Categories
    OBVIOUS
  <2> HIDE DEF lengths, offered
  <2> QED
    BY <1>4, <2>2, <2>3, RowsAddUp
<1> QED
  BY <1>1, <1>2, <1>3, <1>5 DEF EveryRowDelivered

LEMMA SheetsFollow == ASSUME FilesInv PROVE SheetsHoldCategory
<1> SUFFICES ASSUME pc = "done", book # NoFile
             PROVE  /\ DOMAIN book = {c \in Categories : results[c].path}
                    /\ \A c \in DOMAIN book :
                        /\ csvs[c] # NoFile => \E order \in Orders(csvs[c]) :
                                FlattenSeq(book[c]) = [i \in DOMAIN csvs[c] |-> csvs[c][order[i]]]
                        /\ \A k \in DOMAIN book[c] : Len(book[c][k]) \in 1..MaxRowsPerSheet
  BY DEF SheetsHoldCategory
<1>1. Imported
  BY DEF Imported
<1>2. PICK order \in Orders(table) : book = [c \in Filled |-> Split(Scanned(c, order))]
  BY DEF FilesInv, BookKept
<1>3. DOMAIN book = Filled /\ Filled \subseteq Categories /\ Filled = writing.files /\ writing.left = {}
  BY <1>2 DEF FilesInv, WorkLeft, Filled
<1>4. DOMAIN book = {c \in Categories : results[c].path}
  BY <1>3 DEF FilesInv, PathsLast
<1>5. ASSUME NEW c \in DOMAIN book
      PROVE  /\ csvs[c] # NoFile => \E o \in Orders(csvs[c]) :
                     FlattenSeq(book[c]) = [i \in DOMAIN csvs[c] |-> csvs[c][o[i]]]
             /\ \A k \in DOMAIN book[c] : Len(book[c][k]) \in 1..MaxRowsPerSheet
  <2>1. PICK rows \in Rows : rows = Scanned(c, order) /\ \E at : Fetches(at, c, rows)
    BY <1>1, ScannedFacts
  <2>2. PICK to : Fetches(to, c, rows)
    BY <2>1
  <2>3. book[c] = Split(rows)
    BY <1>2, <1>3, <2>1
  <2>4. Len(rows) > 0
    <3>1. Len(rows) = Cardinality(RowsIn(c))
      BY <1>1, <2>2, SameButForOrder
    <3>2. Cardinality(RowsIn(c)) > 0
      BY <1>1, <1>3, TableFacts DEF Filled
    <3> QED
      BY <3>1, <3>2
  <2>5. /\ FlattenSeq(book[c]) = rows
        /\ \A k \in DOMAIN book[c] : Len(book[c][k]) \in 1..MaxRowsPerSheet
    BY <2>3, <2>4, SplitFacts DEF Rows
  <2>6. ASSUME csvs[c] # NoFile
        PROVE  \E o \in Orders(csvs[c]) : rows = [i \in DOMAIN csvs[c] |-> csvs[c][o[i]]]
    <3>1. csvs[c] = Selected(c)
      BY <1>3, <2>6 DEF FilesInv, ClosedIsWhole, Writing
    <3>2. [i \in DOMAIN table |-> i] \in Orders(table)
      <4>1. PICK D : D = DOMAIN table
        OBVIOUS
      <4>2. [i \in D |-> i] \in Bijection(D, D)
        BY DEF Bijection, Injection, Surjection, IsInjective
      <4> QED
        BY <4>1, <4>2 DEF Orders
    <3>3. PICK file \in Rows : file = Selected(c) /\ \E at : Fetches(at, c, file)
      BY <1>1, <3>2, ScannedFacts DEF Selected
    <3>4. PICK at : Fetches(at, c, file)
      BY <3>3
    <3>5. \E o \in Orders(file) : rows = InOrder(file, o)
      BY <1>1, <2>2, <3>4, SameButForOrder
    <3> QED
      BY <3>1, <3>3, <3>5 DEF InOrder
  <2> QED
    BY <2>5, <2>6
<1> QED
  BY <1>4, <1>5

-----------------------------------------------------------------------------
(* The rows of the table and those of the stream.                          *)

\* from tells of each row which of the first n of the stream it has been made of.
Draws(from, rows, n) ==
    /\ from \in [1..Len(rows) -> 1..n]
    /\ \A k, l \in 1..Len(rows) : from[k] = from[l] => k = l
    /\ \A k \in 1..Len(rows) : rows[k] = Fit(Width, Stream[from[k]])
    /\ \A i \in 1..n : Loads(source, Stream[i]) => \E k \in 1..Len(rows) : from[k] = i

LEMMA DrawnIs ==
    ASSUME NEW rows \in Rows, NEW n
    PROVE  Drawn(rows, n) <=> \E from : Draws(from, rows, n)
<1>1. DOMAIN rows = 1..Len(rows)
  BY LenProperties DEF Rows
<1>2. Drawn(rows, n) => \E from : Draws(from, rows, n)
  BY <1>1 DEF Drawn, Draws, Injection, IsInjective
<1>3. ASSUME NEW from, Draws(from, rows, n) PROVE Drawn(rows, n)
  <2>1. from \in Injection(DOMAIN rows, 1..n)
    BY <1>1, <1>3 DEF Draws, Injection, IsInjective
  <2> QED
    BY <1>1, <1>3, <2>1 DEF Drawn, Draws
<1> QED
  BY <1>2, <1>3

LEMMA DrawnNone == Drawn(<<>>, 0)
<1>1. <<>> \in Rows /\ Len(<<>>) = 0 /\ 1..0 = {}
  BY EmptySeq DEF Rows
<1>2. Draws(<<>>, <<>>, 0)
  BY <1>1 DEF Draws
<1> QED
  BY <1>1, <1>2, DrawnIs

LEMMA DrawnNext ==
    ASSUME ImportTypeOK, NEW rows \in Rows, NEW n \in 1..Len(Stream), Drawn(rows, n - 1)
    PROVE  Drawn(Append(rows, Fit(Width, Stream[n])), n)
<1> DEFINE e == Fit(Width, Stream[n])
           more == Append(rows, e)
           m == Len(rows)
<1>1. e \in Seq(Cells) /\ m \in Nat /\ Len(Stream) \in Nat
  BY StreamFacts, FitType, LenProperties DEF Rows
<1> HIDE DEF e
<1>2. /\ more \in Rows /\ Len(more) = m + 1 /\ more[m + 1] = e
      /\ \A k \in 1..m : more[k] = rows[k]
  BY <1>1, AppendProperties DEF Rows
<1>3. PICK from : Draws(from, rows, n - 1)
  BY DrawnIs
<1>4. /\ from \in [1..m -> 1..(n - 1)]
      /\ \A k, l \in 1..m : from[k] = from[l] => k = l
      /\ \A k \in 1..m : rows[k] = Fit(Width, Stream[from[k]])
      /\ \A i \in 1..(n - 1) : Loads(source, Stream[i]) => \E k \in 1..m : from[k] = i
  BY <1>3 DEF Draws
<1> HIDE DEF more, m
<1> DEFINE on == [k \in 1..(m + 1) |-> IF k = m + 1 THEN n ELSE from[k]]
<1>5. /\ \A k \in 1..(m + 1) : k = m + 1 \/ (k \in 1..m /\ k # m + 1)
      /\ \A k \in 1..m : k \in 1..(m + 1) /\ k # m + 1
      /\ \A i \in 1..n : i = n \/ i \in 1..(n - 1)
      /\ \A i \in 1..(n - 1) : i \in 1..n /\ i # n
      /\ n \in 1..n /\ m + 1 \in 1..(m + 1)
  BY <1>1
<1>6. on[m + 1] = n /\ \A k \in 1..m : on[k] = from[k] /\ on[k] \in 1..(n - 1)
  BY <1>4, <1>5
<1>7. on \in [1..(m + 1) -> 1..n]
  BY <1>4, <1>5
<1> HIDE DEF on
<1>8. \A k, l \in 1..(m + 1) : on[k] = on[l] => k = l
  BY <1>4, <1>5, <1>6
<1>9. \A k \in 1..(m + 1) : more[k] = Fit(Width, Stream[on[k]])
  BY <1>2, <1>4, <1>5, <1>6 DEF e
<1>10. \A i \in 1..n : Loads(source, Stream[i]) => \E k \in 1..(m + 1) : on[k] = i
  BY <1>4, <1>5, <1>6
<1>11. Draws(on, more, n)
  BY <1>2, <1>7, <1>8, <1>9, <1>10 DEF Draws
<1> QED
  BY <1>2, <1>11, DrawnIs DEF more, e

\* A row that does not fit the table may be passed over.
LEMMA DrawnOver ==
    ASSUME NEW rows \in Rows, NEW n \in Nat \ {0}, Drawn(rows, n - 1), ~Loads(source, Stream[n])
    PROVE  Drawn(rows, n)
<1>1. PICK from : Draws(from, rows, n - 1)
  BY DrawnIs
<1>2. \A i \in 1..n : i = n \/ i \in 1..(n - 1)
  OBVIOUS
<1>3. \A i \in 1..(n - 1) : i \in 1..n
  OBVIOUS
<1>4. Draws(from, rows, n)
  BY <1>1, <1>2, <1>3 DEF Draws
<1> QED
  BY <1>4, DrawnIs

\* The same rows in another order.
LEMMA DrawnPlaced ==
    ASSUME NEW rows \in Rows, NEW n, Drawn(rows, n), NEW place \in Orders(rows)
    PROVE  Drawn([i \in DOMAIN rows |-> rows[place[i]]], n)
<1> DEFINE m == Len(rows)
           other == [i \in DOMAIN rows |-> rows[place[i]]]
<1>1. DOMAIN rows = 1..m /\ m \in Nat
  BY LenProperties DEF Rows
<1>2. other \in Rows /\ Len(other) = m /\ \A i \in 1..m : other[i] = rows[place[i]]
  BY <1>1, PermutedType DEF Rows
<1>3. PICK from : Draws(from, rows, n)
  BY DrawnIs
<1> HIDE DEF other
<1>4. PICK M, N : M = 1..m /\ N = 1..n
  OBVIOUS
<1>5. /\ place \in [M -> M]
      /\ \A k, l \in M : place[k] = place[l] => k = l
      /\ \A k \in M : \E l \in M : place[l] = k
  BY <1>1, <1>4 DEF Orders, Bijection, Injection, Surjection, IsInjective
<1>6. /\ from \in [M -> N]
      /\ \A k, l \in M : from[k] = from[l] => k = l
      /\ \A k \in M : rows[k] = Fit(Width, Stream[from[k]])
      /\ \A i \in N : Loads(source, Stream[i]) => \E k \in M : from[k] = i
  BY <1>3, <1>4 DEF Draws
<1>7. \A i \in M : other[i] = rows[place[i]]
  BY <1>2, <1>4
<1> HIDE DEF m
<1> DEFINE to == [i \in M |-> from[place[i]]]
<1>8. to \in [M -> N] /\ \A i \in M : to[i] = from[place[i]]
  BY <1>5, <1>6
<1> HIDE DEF to
<1>9. \A k, l \in M : to[k] = to[l] => k = l
  <2> TAKE k, l \in M
  <2>1. place[k] \in M /\ place[l] \in M
    BY <1>5
  <2>2. to[k] = from[place[k]] /\ to[l] = from[place[l]]
    BY <1>8, Zenon
  <2>3. from[place[k]] = from[place[l]] => place[k] = place[l]
    BY <1>6, <2>1, Zenon
  <2>4. place[k] = place[l] => k = l
    BY <1>5, Zenon
  <2> QED
    BY <2>2, <2>3, <2>4, Zenon
<1>11. \A k \in M : other[k] = Fit(Width, Stream[to[k]])
  <2> TAKE k \in M
  <2>1. other[k] = rows[place[k]] /\ place[k] \in M /\ to[k] = from[place[k]]
    BY <1>5, <1>7, <1>8, Zenon
  <2> QED
    BY <1>6, <2>1, Zenon
<1>12. \A i \in N : Loads(source, Stream[i]) => \E k \in M : to[k] = i
  <2> TAKE i \in N
  <2> HAVE Loads(source, Stream[i])
  <2>1. PICK l \in M : from[l] = i
    BY <1>6, Zenon
  <2>2. PICK k \in M : place[k] = l
    BY <1>5, <2>1, Zenon
  <2> QED
    BY <1>8, <2>1, <2>2, Zenon
<1>13. Draws(to, other, n)
  BY <1>2, <1>4, <1>8, <1>9, <1>11, <1>12 DEF Draws
<1> QED
  BY <1>2, <1>13, DrawnIs DEF other

LEMMA SameDrawn ==
    ASSUME UNCHANGED source
    PROVE  \A rows, n : Drawn(rows, n)' = Drawn(rows, n)
<1>1. Stream' = Stream /\ Width' = Width
  BY SameFile
<1> QED
  BY <1>1 DEF Drawn

LEMMA FitSame ==
    ASSUME NEW n \in Nat, NEW row \in Seq(Cells), Len(row) = n PROVE Fit(n, row) = row
BY LenProperties DEF Fit

LEMMA RowsDrawnNext == ASSUME ImportInv, RowsAreDrawn, ImportStep PROVE RowsAreDrawn'
<1>0. UNCHANGED source /\ ImportTypeOK /\ ImportTypeOK'
  BY ImportStepInv DEF ImportInv, ImportStep, Begin, CreateStaging, BulkRow, BulkPassOver, BulkCommit,
     BulkFails, ReadRow, EndOfFile, AddPipelineColumns, Fail, DropStaging, Goto
<1>1. /\ table \in Rows \cup {NoTable} /\ open \in Rows /\ Len(Stream) \in Nat /\ <<>> \in Rows
      /\ reading \in [next : 1..(Len(Stream) + 1), batch : Rows]
      /\ Stream' = Stream /\ Width' = Width /\ Width \in Nat
      /\ \A i \in 1..Len(Stream) : Stream[i] \in Seq(Cells)
  BY <1>0, SameFile, StreamFacts, EmptySeq DEF ImportTypeOK, Rows
<1>2. ASSUME table' \in {table, NoTable, <<>>}, pc' \notin {"bulk", "stream"} PROVE RowsAreDrawn'
  BY <1>0, <1>1, <1>2, SameDrawn DEF RowsAreDrawn
<1>3. CASE Begin \/ Fail \/ DropStaging
  <2>1. table' \in {table, NoTable, <<>>} /\ pc' \notin {"bulk", "stream"}
    BY <1>3 DEF Begin, Fail, DropStaging, Goto
  <2> QED
    BY <1>2, <2>1
\* At the start of a table nothing has been read.
<1>4. ASSUME pc' \in {"bulk", "stream"}, table' = <<>>, open' = <<>>, reading' = AtStart
      PROVE  RowsAreDrawn'
  <2>1. reading'.next - 1 = 0 /\ reading'.batch = <<>>
    BY <1>4 DEF AtStart
  <2>2. open' \o reading'.batch = <<>>
    BY <1>1, <1>4, <2>1, ConcatEmptySeq DEF Rows
  <2>3. Drawn(<<>>, 0)'
    BY <1>0, DrawnNone, SameDrawn
  <2> QED
    BY <1>4, <2>1, <2>2, <2>3 DEF RowsAreDrawn
<1>5. CASE CreateStaging
  <2>1. open' = <<>> /\ table' = <<>> /\ reading' = AtStart /\ pc' \in {"bulk", "stream"}
    BY <1>5 DEF CreateStaging, Goto, ImportInv, NothingLeftOpen
  <2> QED
    BY <1>4, <2>1
<1>6. CASE BulkFails
  <2>1. open' = <<>> /\ table' = <<>> /\ reading' = AtStart /\ pc' \in {"bulk", "stream"}
    BY <1>6 DEF BulkFails, Goto, ImportInv, NothingLeftOpen
  <2> QED
    BY <1>4, <2>1
<1>7. CASE BulkRow
  <2>1. PICK n \in 1..Len(Stream) : n = reading.next
    BY <1>0, <1>7, StreamFacts DEF BulkRow
  <2>2. /\ pc = "bulk" /\ pc' = "bulk" /\ Loads(source, Stream[n]) /\ open' = Append(open, Stream[n])
        /\ reading'.next = n + 1 /\ table' = table /\ table = <<>>
    BY <1>1, <1>7, <2>1 DEF BulkRow, Goto, ImportInv, NothingLeftOpen
  <2>3. Drawn(open, n - 1)
    BY <2>1, <2>2 DEF RowsAreDrawn
  <2>4. Fit(Width, Stream[n]) = Stream[n]
    <3>1. Len(Stream[n]) = Width
      BY <1>0, <2>2 DEF Loads, Width, ImportInv, ReadIsKept
    <3> QED
      BY <1>1, <3>1, FitSame
  <2>5. Drawn(Append(open, Stream[n]), n)
    BY <1>0, <1>1, <2>3, <2>4, DrawnNext
  <2>6. reading'.next - 1 = n
    BY <2>2
  <2> QED
    BY <1>0, <2>2, <2>5, <2>6, SameDrawn DEF RowsAreDrawn
<1>8. CASE BulkPassOver
  <2>1. PICK n \in 1..Len(Stream) : n = reading.next
    BY <1>0, <1>8, StreamFacts DEF BulkPassOver
  <2>2. /\ pc = "bulk" /\ pc' = "bulk" /\ ~Loads(source, Stream[n]) /\ open' = open
        /\ reading'.next = n + 1 /\ table' = table /\ table = <<>>
    BY <1>1, <1>8, <2>1 DEF BulkPassOver, Goto, ImportInv, NothingLeftOpen
  <2>3. Drawn(open, n - 1)
    BY <2>1, <2>2 DEF RowsAreDrawn
  <2>4. n \in Nat \ {0} /\ reading'.next - 1 = n
    BY <2>2
  <2>5. Drawn(open, n)
    BY <1>1, <2>2, <2>3, <2>4, DrawnOver
  <2> QED
    BY <1>0, <2>2, <2>4, <2>5, SameDrawn DEF RowsAreDrawn
<1>9. CASE BulkCommit
  <2>1. /\ pc = "bulk" /\ pc' = "columns" /\ table' = table \o open /\ table = <<>>
        /\ reading.next - 1 = Len(Stream)
    BY <1>1, <1>9 DEF BulkCommit, Goto, ImportInv, NothingLeftOpen
  <2>2. table' = open
    BY <1>1, <2>1, ConcatEmptySeq DEF Rows
  <2>3. Drawn(open, Len(Stream))
    BY <2>1 DEF RowsAreDrawn
  <2> QED
    BY <1>0, <1>1, <2>1, <2>2, <2>3, SameDrawn DEF RowsAreDrawn
<1>10. CASE ReadRow
  <2>1. PICK n \in 1..Len(Stream) : n = reading.next
    BY <1>0, <1>10, StreamFacts DEF ReadRow
  <2>2. PICK e \in Seq(Cells) : e = Fit(Width, Stream[n])
    BY <1>1, FitType
  <2>3. PICK batch \in Rows : batch = reading.batch
    BY <1>1
  <2>4. /\ pc = "stream" /\ pc' = "stream" /\ table' = table /\ table = <<>>
        /\ reading'.next = n + 1
        /\ \/ open' = open \o Append(batch, e) /\ reading'.batch = <<>>
           \/ open' = open /\ reading'.batch = Append(batch, e)
    <3>1. pc = "stream" /\ pc' = "stream" /\ table' = table /\ table = <<>>
      BY <1>10 DEF ReadRow, Goto, ImportInv, NothingLeftOpen
    <3>2. PICK more : more = Append(batch, e)
      OBVIOUS
    <3>3. \/ open' = open \o more /\ reading' = [next |-> n + 1, batch |-> <<>>]
          \/ open' = open /\ reading' = [next |-> n + 1, batch |-> more]
      BY <1>10, <2>1, <2>2, <2>3, <3>2, Zenon DEF ReadRow
    <3>4. \/ open' = open \o more /\ reading'.next = n + 1 /\ reading'.batch = <<>>
          \/ open' = open /\ reading'.next = n + 1 /\ reading'.batch = more
      BY <3>3
    <3> QED
      BY <3>1, <3>2, <3>4, Zenon
  <2>5. Drawn(open \o batch, n - 1)
    BY <2>1, <2>3, <2>4 DEF RowsAreDrawn
  <2>6. open \o batch \in Rows
    BY <1>1, ConcatProperties DEF Rows
  <2>7. Drawn(Append(open \o batch, e), n)
    BY <1>0, <2>2, <2>5, <2>6, DrawnNext
  <2>8. Append(open \o batch, e) = open \o Append(batch, e) /\ Append(batch, e) \in Rows
    <3>1. PICK T : T = Seq(Cells)
      OBVIOUS
    <3>2. open \in Seq(T) /\ batch \in Seq(T) /\ e \in T /\ open \o batch \in Seq(T)
      BY <1>1, <2>6, <3>1 DEF Rows
    <3>3. << e >> \in Seq(T)
      BY <3>2
    <3>4. Append(open \o batch, e) = (open \o batch) \o << e >>
      BY <3>2, AppendIsConcat
    <3>5. Append(batch, e) = batch \o << e >> /\ Append(batch, e) \in Seq(T)
      BY <3>2, AppendIsConcat, AppendProperties
    <3>6. (open \o batch) \o << e >> = open \o (batch \o << e >>)
      BY <3>2, <3>3, ConcatAssociative
    <3> QED
      BY <3>1, <3>4, <3>5, <3>6 DEF Rows
  <2>9. open' \o reading'.batch = open \o Append(batch, e)
    <3>1. open \o Append(batch, e) \in Rows
      BY <1>1, <2>8, ConcatProperties DEF Rows
    <3> QED
      BY <2>4, <3>1, ConcatEmptySeq DEF Rows
  <2>10. reading'.next - 1 = n
    BY <2>4
  <2>11. Drawn(open \o Append(batch, e), n)
    BY <2>7, <2>8
  <2> QED
    BY <1>0, <2>4, <2>9, <2>10, <2>11, SameDrawn DEF RowsAreDrawn
<1>11. CASE EndOfFile
  <2>1. /\ pc = "stream" /\ pc' = "columns" /\ table' = table \o open \o reading.batch /\ table = <<>>
        /\ reading.next - 1 = Len(Stream)
    BY <1>1, <1>11 DEF EndOfFile, Goto, ImportInv, NothingLeftOpen
  <2>2. table' = open \o reading.batch
    BY <1>1, <2>1, ConcatEmptySeq DEF Rows
  <2>3. Drawn(open \o reading.batch, Len(Stream))
    BY <2>1 DEF RowsAreDrawn
  <2> QED
    BY <1>0, <1>1, <2>1, <2>2, <2>3, SameDrawn DEF RowsAreDrawn
<1>12. CASE AddPipelineColumns
  <2>1. PICK place \in Orders(table) : table' = [i \in DOMAIN table |-> table[place[i]]]
    BY <1>12 DEF AddPipelineColumns
  <2>2. pc = "columns" /\ pc' = "count" /\ table \in Rows
    BY <1>12 DEF AddPipelineColumns, Goto, ImportInv, ImportedIsWhole, Imported
  <2>3. CASE table = <<>>
    <3>1. table' \in Rows /\ Len(table') = Len(table)
      BY <2>1, <2>2, PermutedType DEF Rows
    <3>2. Len(table') = 0
      BY <2>3, <3>1, EmptySeq
    <3>3. table' = <<>>
      BY <3>1, <3>2, EmptySeq DEF Rows
    <3> QED
      BY <1>2, <2>2, <3>3
  <2>4. CASE table # <<>>
    <3>1. Drawn(table, Len(Stream))
      BY <2>2, <2>4, NoTableAssumption DEF RowsAreDrawn, Rows
    <3>2. Drawn(table', Len(Stream))
      BY <2>1, <2>2, <3>1, DrawnPlaced
    <3>3. PICK rows : rows = table'
      OBVIOUS
    <3>4. Drawn(rows, Len(Stream))'
      BY <1>0, <1>1, <3>2, <3>3, SameDrawn
    <3> QED
      BY <2>2, <3>3, <3>4 DEF RowsAreDrawn
  <2> QED
    BY <2>3, <2>4
<1> QED
  BY <1>3, <1>5, <1>6, <1>7, <1>8, <1>9, <1>10, <1>11, <1>12 DEF ImportStep

-----------------------------------------------------------------------------
(* The rows of the stream and those of the file.                           *)

\* A header that some sheet has is one of the columns.
LEMMA HeaderIsThere ==
    ASSUME NEW file \in SourceFile, file.kind # "csv", NEW s \in DOMAIN file.sheets,
           NEW c \in DOMAIN file.sheets[s].header, Named(file.sheets[s].header[c])
    PROVE  \E u \in DOMAIN Headers(file) : KeyOf[Headers(file)[u]] = KeyOf[file.sheets[s].header[c]]
<1> DEFINE n == Len(file.sheets)
           heads == [t \in DOMAIN file.sheets |-> file.sheets[t].header]
           cells == FlattenSeq(heads)
           key == KeyOf[file.sheets[s].header[c]]
           Same == {i \in DOMAIN cells : Named(cells[i]) /\ KeyOf[cells[i]] = key}
           Seen(i) == \E k \in 1..(i - 1) : Named(cells[k]) /\ KeyOf[cells[k]] = KeyOf[cells[i]]
           places == {i \in DOMAIN cells : Named(cells[i]) /\ ~Seen(i)}
<1>1. n \in Nat /\ DOMAIN file.sheets = 1..n
  BY SheetsType
<1>2. heads \in [1..n -> Seq(Cells)] /\ heads[s] = file.sheets[s].header
  BY <1>1, SheetType
<1>3. heads \in Seq(Seq(Cells)) /\ Len(heads) = n
  <2> HIDE DEF heads
  <2> QED
    BY <1>1, <1>2, SeqIs
<1>4. c \in 1..Len(heads[s]) /\ s \in 1..n
  BY <1>1, <1>2, LenProperties
<1> HIDE DEF heads
<1>5. PICK b : Leads(b, Places(heads, n), heads, cells)
  BY <1>3, FlattenLeads
<1>6. cells \in Seq(Cells)
  <2> DEFINE f == [i \in 1..n |-> Len(heads[i])]
  <2>1. \A i \in 1..Len(heads) : f[i] = Len(heads[i])
    BY <1>3
  <2> HIDE DEF f
  <2> QED
    BY <1>3, <2>1, FlattenFacts
<1> HIDE DEF cells
<1>7. DOMAIN cells = 1..Len(cells) /\ Len(cells) \in Nat
  BY <1>6, LenProperties
<1>8. <<s, c>> \in Places(heads, n)
  BY <1>4 DEF Places
<1>9. b[<<s, c>>] \in DOMAIN cells /\ cells[b[<<s, c>>]] = file.sheets[s].header[c]
  BY <1>2, <1>5, <1>7, <1>8 DEF Leads
<1>10. PICK m \in Same : \A k \in Same : m <= k
  <2>1. Same \in SUBSET Nat /\ b[<<s, c>>] \in Same
    BY <1>7, <1>9
  <2> HIDE DEF Same
  <2> QED
    BY <2>1, LeastIsThere
<1>11. m \in places
  <2>1. ~Seen(m)
    BY <1>7, <1>10
  <2> QED
    BY <1>10, <2>1
<1>12. Headers(file) = Only(cells, places)
  BY DEF Headers, UnifiedHeaders, cells, heads
<1>13. KeyOf[cells[m]] = key
  BY <1>10
<1> HIDE DEF places, Same, key
<1>14. PICK d : Keeps(d, cells, places, Only(cells, places))
  <2>1. places \in SUBSET DOMAIN cells
    BY DEF places
  <2> QED
    BY <1>6, <2>1, OnlyKeeps
<1>15. Only(cells, places) \in Seq(Cells)
  <2>1. places \in SUBSET DOMAIN cells
    BY DEF places
  <2> QED
    BY <1>6, <2>1, OnlyFacts
<1>16. DOMAIN Only(cells, places) = 1..Len(Only(cells, places))
  BY <1>15, LenProperties
<1>17. d[m] \in DOMAIN Only(cells, places) /\ Only(cells, places)[d[m]] = cells[m]
  BY <1>11, <1>14, <1>16 DEF Keeps, Bijection, Injection
<1> QED
  BY <1>12, <1>13, <1>17 DEF key

\* A row of a workbook keeps its facts under the columns of the table.
LEMMA AlignedFacts ==
    ASSUME NEW file \in SourceFile, file.kind # "csv", HeadersDiffer(file), NEW s \in DOMAIN file.sheets,
           NEW row \in Seq(Cells), source = file
    PROVE  FactsOfEntry(Aligned(Headers(file), file.sheets[s].header, row))
              = FactsOfRow(file, file.sheets[s].header, row)
<1> DEFINE headers == Headers(file)
           header == file.sheets[s].header
           entry == Aligned(headers, header, row)
           Columns(u) == {c \in DOMAIN header \cap DOMAIN row :
                            Named(header[c]) /\ KeyOf[header[c]] = KeyOf[headers[u]]}
<1>1. /\ DOMAIN row = 1..Len(row) /\ Len(row) \in Nat
      /\ \A c, d \in DOMAIN header :
            Named(header[c]) /\ Named(header[d]) /\ KeyOf[header[c]] = KeyOf[header[d]] => c = d
  BY LenProperties DEF HeadersDiffer
<1>2. ASSUME NEW c \in DOMAIN header, Named(header[c])
      PROVE  \E u \in DOMAIN headers : KeyOf[headers[u]] = KeyOf[header[c]]
  BY <1>2, HeaderIsThere
<1>3. /\ DOMAIN entry = DOMAIN headers
      /\ \A u \in DOMAIN headers : entry[u] = IF Columns(u) = {} THEN Null ELSE row[Max(Columns(u))]
  BY DEF Aligned
<1>4. FactsOfEntry(entry) = {<<KeyOf[headers[u]], entry[u]>> : u \in {v \in DOMAIN entry : entry[v] # Null}}
  BY DEF FactsOfEntry
<1>5. FactsOfRow(file, header, row)
        = {<<KeyOf[header[c]], row[c]>> :
               c \in {d \in DOMAIN header \cap DOMAIN row : row[d] # Null /\ Named(header[d])}}
  BY DEF FactsOfRow, NameOf
<1> HIDE DEF entry, header, headers
<1>6. ASSUME NEW u \in DOMAIN headers, Columns(u) # {}
      PROVE  Max(Columns(u)) \in Columns(u)
  <2>1. Columns(u) \in SUBSET (1..Len(row))
    BY <1>1
  <2> HIDE DEF Columns
  <2> QED
    BY <1>1, <1>6, <2>1, MaxIsThere
<1>7. ASSUME NEW u \in DOMAIN entry, entry[u] # Null
      PROVE  \E c \in DOMAIN header \cap DOMAIN row :
                /\ row[c] # Null /\ Named(header[c])
                /\ <<KeyOf[headers[u]], entry[u]>> = <<KeyOf[header[c]], row[c]>>
  <2>1. Columns(u) # {} /\ entry[u] = row[Max(Columns(u))] /\ u \in DOMAIN headers
    BY <1>3, <1>7
  <2>2. PICK c : c = Max(Columns(u)) /\ c \in Columns(u)
    BY <1>6, <2>1
  <2> QED
    BY <1>7, <2>1, <2>2
<1>8. ASSUME NEW c \in DOMAIN header \cap DOMAIN row, row[c] # Null, Named(header[c])
      PROVE  \E u \in DOMAIN entry :
                entry[u] # Null /\ <<KeyOf[headers[u]], entry[u]>> = <<KeyOf[header[c]], row[c]>>
  <2>1. PICK u \in DOMAIN headers : KeyOf[headers[u]] = KeyOf[header[c]]
    BY <1>2, <1>8
  <2>2. c \in Columns(u)
    BY <1>8, <2>1
  <2>3. Max(Columns(u)) \in Columns(u)
    BY <1>6, <2>1, <2>2
  <2>4. \A d \in Columns(u) : d = c
    BY <1>1, <1>8, <2>1
  <2>5. Max(Columns(u)) = c
    BY <2>3, <2>4
  <2>6. entry[u] = row[c]
    BY <1>3, <2>1, <2>2, <2>5
  <2> QED
    BY <1>3, <1>8, <2>1, <2>6
<1>9. FactsOfEntry(entry) = FactsOfRow(file, header, row)
  <2>1. \A f \in FactsOfEntry(entry) : f \in FactsOfRow(file, header, row)
    BY <1>4, <1>5, <1>7
  <2>2. \A f \in FactsOfRow(file, header, row) : f \in FactsOfEntry(entry)
    BY <1>4, <1>5, <1>8
  <2> QED
    BY <2>1, <2>2
<1> QED
  BY <1>9 DEF entry, header, headers

\* to tells of each row of the file which of the stream it has become.
Becomes(to) ==
    /\ to \in [Positions(source) -> 1..Len(Stream)]
    /\ \A p, q \in Positions(source) : to[p] = to[q] => p = q
    /\ \A i \in 1..Len(Stream) : \E p \in Positions(source) : to[p] = i
    /\ \A p \in Positions(source) : FactsOfEntry(Fit(Width, Stream[to[p]])) = SourceFacts(p)
    /\ \A p \in Sure : Loads(source, Stream[to[p]])

\* A row of a CSV file stays where it is.
LEMMA CsvBecomes == ASSUME ImportTypeOK, source.kind = "csv" PROVE \E to : Becomes(to)
<1> DEFINE rows == source.sheets[1].rows
           header == source.sheets[1].header
           to == [p \in Positions(source) |-> p[2]]
<1>1. source \in SourceFile /\ DOMAIN source.sheets = {1} /\ 1 \in DOMAIN source.sheets
  BY StreamFacts, SheetsType
<1>2. rows \in Rows /\ header \in Seq(Cells)
  BY <1>1, SheetType
<1>3. Stream = CsvRows(source.sheets[1]) /\ Headers(source) = header
  BY DEF Stream, DataRows, Headers
<1>4. /\ DOMAIN rows = 1..Len(rows) /\ Len(rows) \in Nat
      /\ \A i \in 1..Len(rows) : rows[i] \in Seq(Cells)
      /\ DOMAIN header = 1..Width /\ Width \in Nat
  BY <1>2, <1>3, ElementOfSeq, LenProperties DEF Rows, Width
<1>5. /\ DOMAIN Stream = DOMAIN rows
      /\ \A i \in DOMAIN rows :
            /\ DOMAIN Stream[i] = DOMAIN rows[i]
            /\ \A c \in DOMAIN rows[i] :
                  Stream[i][c] = IF rows[i][c] = Empty THEN Null ELSE rows[i][c]
  BY <1>3 DEF CsvRows
<1>6. 1..Len(Stream) = DOMAIN rows
  BY <1>4, <1>5, StreamFacts
<1>7. Positions(source) = {<<1, r>> : r \in DOMAIN rows}
  BY <1>1 DEF Positions
<1> HIDE DEF rows, header
<1>8. ASSUME NEW i \in DOMAIN rows PROVE Len(Stream[i]) = Len(rows[i])
  <2>1. Stream[i] \in Seq(Cells) /\ rows[i] \in Seq(Cells) /\ DOMAIN Stream[i] = DOMAIN rows[i]
    BY <1>4, <1>5, <1>6, StreamFacts
  <2>2. /\ Len(Stream[i]) \in Nat /\ Len(rows[i]) \in Nat
        /\ 1..Len(Stream[i]) = 1..Len(rows[i])
    BY <2>1, LenProperties
  <2>3. \A k, l \in Nat : 1..k = 1..l => k = l
    BY SameInterval
  <2> QED
    BY <2>2, <2>3
<1>9. ASSUME NEW i \in DOMAIN rows
      PROVE  FactsOfEntry(Fit(Width, Stream[i])) = FactsOfRow(source, header, rows[i])
  <2> DEFINE entry == Fit(Width, Stream[i])
  <2>1. /\ DOMAIN entry = 1..Width
        /\ \A c \in 1..Width : entry[c] = IF c \in DOMAIN rows[i] THEN Stream[i][c] ELSE Null
    BY <1>5 DEF Fit
  <2> HIDE DEF entry
  <2>2. \A c \in 1..Width : entry[c] # Null <=>
            c \in DOMAIN rows[i] /\ rows[i][c] # Null /\ rows[i][c] # Empty
    BY <1>5, <2>1
  <2>3. \A c \in 1..Width : entry[c] # Null => entry[c] = rows[i][c]
    BY <1>5, <2>1
  <2>4. {d \in DOMAIN entry : entry[d] # Null}
          = {d \in DOMAIN header \cap DOMAIN rows[i] : rows[i][d] # Null /\ rows[i][d] # Empty}
    BY <1>4, <2>1, <2>2
  <2>5. FactsOfEntry(entry) = {<<c, entry[c]>> : c \in {d \in DOMAIN entry : entry[d] # Null}}
    BY DEF FactsOfEntry
  <2>6. FactsOfRow(source, header, rows[i])
          = {<<c, rows[i][c]>> :
                c \in {d \in DOMAIN header \cap DOMAIN rows[i] : rows[i][d] # Null /\ rows[i][d] # Empty}}
    BY DEF FactsOfRow, NameOf
  <2>7. FactsOfEntry(entry) = FactsOfRow(source, header, rows[i])
    <3>1. PICK D : D = {d \in DOMAIN entry : entry[d] # Null}
      OBVIOUS
    <3>2. \A c \in D : entry[c] = rows[i][c]
      BY <2>1, <2>3, <3>1
    <3>3. /\ FactsOfEntry(entry) = {<<c, entry[c]>> : c \in D}
          /\ FactsOfRow(source, header, rows[i]) = {<<c, rows[i][c]>> : c \in D}
      BY <2>4, <2>5, <2>6, <3>1, Zenon
    <3> QED
      BY <3>2, <3>3
  <2> QED
    BY <2>7 DEF entry
<1>10. \A p \in Positions(source) : p[2] \in DOMAIN rows /\ p = <<1, p[2]>>
  BY <1>7
<1>11. \A p \in Positions(source) : SourceFacts(p) = FactsOfRow(source, header, rows[p[2]])
  BY <1>10 DEF SourceFacts, header, rows
<1>12. \A p \in Positions(source) : p \in Sure <=> Loads(source, rows[p[2]])
  BY <1>7 DEF Sure, rows
<1>13. Sure \subseteq Positions(source)
  BY DEF Sure
<1>14. \A p \in Positions(source) : to[p] = p[2]
  OBVIOUS
<1>15. to \in [Positions(source) -> 1..Len(Stream)]
  BY <1>6, <1>10
<1> HIDE DEF to
<1>16. \A p, q \in Positions(source) : to[p] = to[q] => p = q
  BY <1>10, <1>14
<1>17. \A i \in 1..Len(Stream) : \E p \in Positions(source) : to[p] = i
  <2> TAKE i \in 1..Len(Stream)
  <2>1. <<1, i>> \in Positions(source) /\ <<1, i>>[2] = i
    BY <1>6, <1>7
  <2> QED
    BY <1>14, <2>1
<1>18. \A p \in Positions(source) : FactsOfEntry(Fit(Width, Stream[to[p]])) = SourceFacts(p)
  BY <1>9, <1>10, <1>11, <1>14
<1>19. \A p \in Sure : Loads(source, Stream[to[p]])
  <2>1. ASSUME NEW i \in DOMAIN rows PROVE Loads(source, Stream[i]) <=> Loads(source, rows[i])
    BY <1>5, <1>8, LoadsAlike
  <2> QED
    BY <1>10, <1>12, <1>13, <1>14, <2>1
<1> QED
  BY <1>15, <1>16, <1>17, <1>18, <1>19 DEF Becomes

\* The rows of a sheet that have a cell follow one another, under the table's columns.
LEMMA SheetBecomes ==
    ASSUME NEW file \in SourceFile, file.kind # "csv", HeadersDiffer(file), NEW s \in DOMAIN file.sheets,
           source = file
    PROVE  \E b : LET sheet == file.sheets[s]
                      part == SheetRows(Headers(file), sheet) IN
              /\ b \in Bijection(WithCell(sheet), 1..Len(part))
              /\ \A r \in WithCell(sheet) :
                    /\ FactsOfEntry(part[b[r]]) = FactsOfRow(file, sheet.header, sheet.rows[r])
                    /\ Len(part[b[r]]) = Len(Headers(file))
<1> DEFINE sheet == file.sheets[s]
           rows == Only(sheet.rows, WithCell(sheet))
           part == SheetRows(Headers(file), sheet)
<1>1. sheet.rows \in Rows /\ sheet.header \in Seq(Cells) /\ Headers(file) \in Seq(Cells)
  BY SheetType, HeadersType
<1>2. /\ rows \in Rows /\ part \in Rows
      /\ Len(rows) = Cardinality(WithCell(sheet)) /\ Len(part) = Cardinality(WithCell(sheet))
  BY <1>1, OnlyFacts, SheetRowsFacts DEF Rows, WithCell
<1>3. PICK b : Keeps(b, sheet.rows, WithCell(sheet), rows)
  BY <1>1, OnlyKeeps DEF Rows, WithCell
<1>4. part = [r \in DOMAIN rows |-> Aligned(Headers(file), sheet.header, rows[r])]
  BY DEF SheetRows, WithCell
<1>5. DOMAIN rows = 1..Len(rows) /\ Len(rows) = Len(part)
  BY <1>2, LenProperties DEF Rows
<1>6. b \in Bijection(WithCell(sheet), 1..Len(part))
  BY <1>3, <1>5 DEF Keeps
<1>7. ASSUME NEW r \in WithCell(sheet)
      PROVE  /\ FactsOfEntry(part[b[r]]) = FactsOfRow(file, sheet.header, sheet.rows[r])
             /\ Len(part[b[r]]) = Len(Headers(file))
  <2>1. b[r] \in DOMAIN rows /\ rows[b[r]] = sheet.rows[r]
    <3> HIDE DEF rows, part, sheet
    <3> QED
      BY <1>3, <1>5, <1>6 DEF Keeps, Bijection, Injection
  <2>2. sheet.rows[r] \in Seq(Cells)
    BY <1>1, ElementOfSeq, LenProperties DEF Rows, WithCell
  <2>3. part[b[r]] = Aligned(Headers(file), sheet.header, sheet.rows[r])
    BY <1>4, <2>1
  <2>4. FactsOfEntry(Aligned(Headers(file), sheet.header, sheet.rows[r]))
          = FactsOfRow(file, sheet.header, sheet.rows[r])
    BY <2>2, AlignedFacts
  <2>5. Len(Aligned(Headers(file), sheet.header, sheet.rows[r])) = Len(Headers(file))
    <3>1. PICK row \in Seq(Cells) : row = sheet.rows[r]
      BY <2>2
    <3>2. PICK headers \in Seq(Cells) : headers = Headers(file)
      BY <1>1
    <3>3. PICK header : header = sheet.header
      OBVIOUS
    <3>4. Aligned(headers, header, row) \in Seq(Cells)
      BY AlignedType
    <3>5. DOMAIN Aligned(headers, header, row) = DOMAIN headers
      BY DEF Aligned
    <3>6. /\ Len(Aligned(headers, header, row)) \in Nat /\ Len(headers) \in Nat
          /\ 1..Len(Aligned(headers, header, row)) = 1..Len(headers)
      BY <3>4, <3>5, LenProperties
    <3>7. \A k, l \in Nat : 1..k = 1..l => k = l
      BY SameInterval
    <3>8. Len(Aligned(headers, header, row)) = Len(headers)
      BY <3>6, <3>7
    <3> QED
      BY <3>1, <3>2, <3>3, <3>8
  <2> QED
    BY <2>3, <2>4, <2>5
<1> QED
  BY <1>6, <1>7

\* The rows of a workbook come sheet by sheet.
LEMMA WorkbookBecomes ==
    ASSUME ImportTypeOK, source.kind # "csv", HeadersDiffer(source) PROVE \E to : Becomes(to)
<1> DEFINE n == Len(source.sheets)
           seqs == [s \in DOMAIN source.sheets |-> SheetRows(Headers(source), source.sheets[s])]
           sheet(s) == source.sheets[s]
           Good(b, s) == /\ b \in Bijection(WithCell(sheet(s)), 1..Len(seqs[s]))
                         /\ \A r \in WithCell(sheet(s)) :
                               /\ FactsOfEntry(seqs[s][b[r]])
                                    = FactsOfRow(source, sheet(s).header, sheet(s).rows[r])
                               /\ Len(seqs[s][b[r]]) = Width
<1>1. source \in SourceFile /\ n \in Nat /\ DOMAIN source.sheets = 1..n /\ Headers(source) \in Seq(Cells)
  BY StreamFacts, SheetsType, HeadersType
<1>2. seqs \in Seq(Rows) /\ Len(seqs) = n
  <2>1. ASSUME NEW s \in 1..n PROVE seqs[s] \in Rows
    <3>1. sheet(s).rows \in Rows
      BY <1>1, SheetType
    <3> QED
      BY <1>1, <3>1, SheetRowsFacts
  <2>2. seqs \in [1..n -> Rows]
    BY <1>1, <2>1
  <2> HIDE DEF seqs
  <2> QED
    BY <1>1, <2>2, SeqIs
<1>3. \A s \in 1..n : \E b : Good(b, s)
  <2> TAKE s \in 1..n
  <2>1. seqs[s] = SheetRows(Headers(source), sheet(s)) /\ Width = Len(Headers(source))
    BY <1>1 DEF Width
  <2>2. \E b : LET part == SheetRows(Headers(source), sheet(s)) IN
              /\ b \in Bijection(WithCell(sheet(s)), 1..Len(part))
              /\ \A r \in WithCell(sheet(s)) :
                    /\ FactsOfEntry(part[b[r]]) = FactsOfRow(source, sheet(s).header, sheet(s).rows[r])
                    /\ Len(part[b[r]]) = Len(Headers(source))
    BY <1>1, SheetBecomes
  <2> HIDE DEF seqs, sheet
  <2> QED
    BY <2>1, <2>2
<1>4. Stream = FlattenSeq(seqs)
  BY DEF Stream, DataRows
<1> DEFINE at == [s \in 1..n |-> CHOOSE b : Good(b, s)]
<1>5. \A s \in 1..n : Good(at[s], s)
  <2> HIDE DEF Good
  <2> QED
    BY <1>3
<1>6. \A p \in Positions(source) : p[1] \in 1..n /\ p[2] \in WithCell(sheet(p[1])) /\ p = <<p[1], p[2]>>
  BY <1>1 DEF Positions, WithCell
<1>7. \A s \in 1..n : \A r \in WithCell(sheet(s)) : <<s, r>> \in Positions(source)
  BY <1>1 DEF Positions, WithCell
<1>8. \A p \in Positions(source) :
         SourceFacts(p) = FactsOfRow(source, sheet(p[1]).header, sheet(p[1]).rows[p[2]])
  BY DEF SourceFacts
<1>9. \A i \in 1..Len(Stream) : Stream[i] \in Seq(Cells)
  BY StreamFacts
<1> HIDE DEF at, seqs, sheet
<1>10. PICK d : Leads(d, Places(seqs, n), seqs, Stream)
  BY <1>2, <1>4, FlattenLeads DEF Rows
<1>11. PICK P : P = Places(seqs, n)
  OBVIOUS
<1>12. /\ d \in [P -> 1..Len(Stream)]
       /\ \A p, q \in P : d[p] = d[q] => p = q
       /\ \A i \in 1..Len(Stream) : \E p \in P : d[p] = i
       /\ \A p \in P : Stream[d[p]] = seqs[p[1]][p[2]]
  BY <1>10, <1>11 DEF Leads
<1>13. /\ \A p \in P : p[1] \in 1..n /\ p[2] \in 1..Len(seqs[p[1]]) /\ p = <<p[1], p[2]>>
       /\ \A s \in 1..n : \A j \in 1..Len(seqs[s]) : <<s, j>> \in P
  BY <1>11 DEF Places
<1>14. \A s \in 1..n : /\ at[s] \in [WithCell(sheet(s)) -> 1..Len(seqs[s])]
                       /\ \A q, r \in WithCell(sheet(s)) : at[s][q] = at[s][r] => q = r
                       /\ \A j \in 1..Len(seqs[s]) : \E r \in WithCell(sheet(s)) : at[s][r] = j
  BY <1>5 DEF Bijection, Injection, Surjection, IsInjective
<1> DEFINE place(p) == <<p[1], at[p[1]][p[2]]>>
           to == [p \in Positions(source) |-> d[place(p)]]
<1>15. ASSUME NEW p \in Positions(source)
       PROVE  place(p) \in P /\ place(p)[1] = p[1] /\ place(p)[2] = at[p[1]][p[2]]
  <2>1. p[1] \in 1..n /\ p[2] \in WithCell(sheet(p[1]))
    BY <1>6
  <2>2. at[p[1]][p[2]] \in 1..Len(seqs[p[1]])
    BY <1>14, <2>1
  <2> QED
    BY <1>13, <2>1, <2>2
<1>16. \A p \in Positions(source) : to[p] = d[place(p)]
  OBVIOUS
<1> HIDE DEF place
<1>17. to \in [Positions(source) -> 1..Len(Stream)]
  BY <1>12, <1>15
<1> HIDE DEF to
<1>18. \A p, q \in Positions(source) : to[p] = to[q] => p = q
  <2> SUFFICES ASSUME NEW p \in Positions(source), NEW q \in Positions(source), to[p] = to[q]
               PROVE  p = q
    OBVIOUS
  <2>1. place(p) = place(q)
    BY <1>12, <1>15, <1>16
  <2>2. p[1] = q[1] /\ at[p[1]][p[2]] = at[q[1]][q[2]]
    BY <1>15, <2>1
  <2>3. p[2] = q[2]
    BY <1>6, <1>14, <2>2
  <2> QED
    BY <1>6, <2>2, <2>3
<1>19. \A i \in 1..Len(Stream) : \E p \in Positions(source) : to[p] = i
  <2> TAKE i \in 1..Len(Stream)
  <2>1. PICK x \in P : d[x] = i
    BY <1>12
  <2>2. PICK s, j : s = x[1] /\ j = x[2]
    OBVIOUS
  <2>3. s \in 1..n /\ j \in 1..Len(seqs[s]) /\ x = <<s, j>>
    BY <1>13, <2>2
  <2>4. PICK r \in WithCell(sheet(s)) : at[s][r] = j
    BY <1>14, <2>3
  <2>5. PICK p : p = <<s, r>>
    OBVIOUS
  <2>6. p \in Positions(source) /\ p[1] = s /\ p[2] = r
    BY <1>7, <2>3, <2>5
  <2>7. place(p) = x
    BY <2>3, <2>4, <2>6 DEF place
  <2> QED
    BY <1>16, <2>1, <2>6, <2>7
<1>20. ASSUME NEW p \in Positions(source)
       PROVE  /\ FactsOfEntry(Fit(Width, Stream[to[p]])) = SourceFacts(p)
              /\ Loads(source, Stream[to[p]])
  <2>1. PICK s, r : s = p[1] /\ r = p[2]
    OBVIOUS
  <2>2. s \in 1..n /\ r \in WithCell(sheet(s))
    BY <1>6, <2>1
  <2>3. Stream[to[p]] = seqs[s][at[s][r]]
    BY <1>12, <1>15, <1>16, <2>1
  <2>4. /\ FactsOfEntry(seqs[s][at[s][r]]) = FactsOfRow(source, sheet(s).header, sheet(s).rows[r])
        /\ Len(seqs[s][at[s][r]]) = Width
    BY <1>5, <2>2
  <2>5. Stream[to[p]] \in Seq(Cells)
    BY <1>9, <1>17
  <2>6. Fit(Width, Stream[to[p]]) = Stream[to[p]]
    <3>1. PICK row \in Seq(Cells) : row = Stream[to[p]]
      BY <2>5
    <3>2. Len(row) = Width
      BY <2>3, <2>4, <3>1
    <3>3. Fit(Width, row) = row
      BY <3>2, StreamFacts, FitSame
    <3> QED
      BY <3>1, <3>3
  <2>7. Loads(source, Stream[to[p]])
    BY DEF Loads
  <2> QED
    BY <1>8, <2>1, <2>3, <2>4, <2>6, <2>7
<1>21. Sure \subseteq Positions(source)
  BY DEF Sure
<1> QED
  BY <1>17, <1>18, <1>19, <1>20, <1>21 DEF Becomes

-----------------------------------------------------------------------------
(* The rows of the table and those of the file.                            *)

\* g tells of each row of the table which of the file it is.
Traces(g) ==
    /\ g \in [DOMAIN table -> Positions(source)]
    /\ \A i, k \in DOMAIN table : g[i] = g[k] => i = k
    /\ \A i \in DOMAIN table : FactsOfEntry(table[i]) = SourceFacts(g[i])
    /\ \A p \in Sure : \E i \in DOMAIN table : g[i] = p

LEMMA TableTraces ==
    ASSUME ImportTypeOK, HeadersDiffer(source), table \in Rows, Drawn(table, Len(Stream))
    PROVE  \E g : Traces(g)
<1>1. PICK to : Becomes(to)
  BY CsvBecomes, WorkbookBecomes
<1>2. PICK from : Draws(from, table, Len(Stream))
  BY DrawnIs
<1>3. PICK D, N, P : D = DOMAIN table /\ N = 1..Len(Stream) /\ P = Positions(source)
  OBVIOUS
<1>4. DOMAIN table = 1..Len(table)
  BY LenProperties DEF Rows
<1>5. /\ from \in [D -> N]
      /\ \A i, k \in D : from[i] = from[k] => i = k
      /\ \A i \in D : table[i] = Fit(Width, Stream[from[i]])
      /\ \A j \in N : Loads(source, Stream[j]) => \E i \in D : from[i] = j
  BY <1>2, <1>3, <1>4 DEF Draws
<1>6. /\ to \in [P -> N]
      /\ \A p, q \in P : to[p] = to[q] => p = q
      /\ \A j \in N : \E p \in P : to[p] = j
      /\ \A p \in P : FactsOfEntry(Fit(Width, Stream[to[p]])) = SourceFacts(p)
      /\ \A p \in Sure : Loads(source, Stream[to[p]])
      /\ Sure \subseteq P
  BY <1>1, <1>3 DEF Becomes, Sure
<1> DEFINE g == [i \in D |-> CHOOSE p \in P : to[p] = from[i]]
<1>7. ASSUME NEW i \in D PROVE g[i] \in P /\ to[g[i]] = from[i]
  BY <1>5, <1>6
<1>8. g \in [D -> P]
  BY <1>7
<1> HIDE DEF g
<1>9. \A i, k \in D : g[i] = g[k] => i = k
  BY <1>5, <1>7
<1>10. \A i \in D : FactsOfEntry(table[i]) = SourceFacts(g[i])
  <2> TAKE i \in D
  <2>1. g[i] \in P /\ to[g[i]] = from[i]
    BY <1>7
  <2>2. FactsOfEntry(Fit(Width, Stream[to[g[i]]])) = SourceFacts(g[i])
    BY <1>6, <2>1
  <2>3. table[i] = Fit(Width, Stream[from[i]])
    BY <1>5
  <2> QED
    BY <2>1, <2>2, <2>3
<1>11. \A p \in Sure : \E i \in D : g[i] = p
  <2> TAKE p \in Sure
  <2>1. p \in P /\ to[p] \in N /\ Loads(source, Stream[to[p]])
    BY <1>6
  <2>2. PICK i \in D : from[i] = to[p]
    BY <1>5, <2>1
  <2>3. g[i] \in P /\ to[g[i]] = to[p]
    BY <1>7, <2>2
  <2> QED
    BY <1>6, <2>1, <2>3
<1> QED
  BY <1>3, <1>8, <1>9, <1>10, <1>11 DEF Traces

LEMMA CellsFollow == ASSUME FilesInv, RowsAreDrawn PROVE CellsUnderTheirHeaders
<1> SUFFICES ASSUME table \notin {NoTable, <<>>}, HeadersDiffer(source), NEW facts
             PROVE  Cardinality({i \in DOMAIN table : FactsOfEntry(table[i]) = facts})
                      \in Cardinality({at \in Sure : SourceFacts(at) = facts})
                          ..Cardinality({at \in Positions(source) : SourceFacts(at) = facts})
  BY DEF CellsUnderTheirHeaders
<1>1. ImportTypeOK /\ table \in Rows /\ Drawn(table, Len(Stream))
  BY DEF FilesInv, ImportInv, ImportTypeOK, RowsAreDrawn
<1>2. PICK g : Traces(g)
  BY <1>1, TableTraces
<1> DEFINE Is == {i \in DOMAIN table : FactsOfEntry(table[i]) = facts}
           Are == {g[i] : i \in Is}
           Must == {at \in Sure : SourceFacts(at) = facts}
           May == {at \in Positions(source) : SourceFacts(at) = facts}
           h == [i \in Is |-> g[i]]
<1>3. h \in Bijection(Is, Are)
  BY <1>2 DEF Traces, Bijection, Injection, Surjection, IsInjective
<1>4. Are \subseteq May
  BY <1>2 DEF Traces
<1>5. Must \subseteq Are
  <2> SUFFICES ASSUME NEW p \in Sure, SourceFacts(p) = facts PROVE p \in Are
    OBVIOUS
  <2>1. PICK i \in DOMAIN table : g[i] = p
    BY <1>2 DEF Traces
  <2>2. FactsOfEntry(table[i]) = facts
    BY <1>2, <2>1 DEF Traces
  <2> QED
    BY <2>1, <2>2
<1>6. IsFiniteSet(DOMAIN table) /\ IsFiniteSet(May)
  <2>1. DOMAIN table = 1..Len(table) /\ Len(table) \in Nat
    BY <1>1, LenProperties DEF Rows
  <2>2. IsFiniteSet(1..Len(table))
    BY <2>1, FS_Interval
  <2>3. IsFiniteSet(Positions(source)) /\ May \in SUBSET Positions(source)
    BY <1>1, StreamFacts
  <2> HIDE DEF May
  <2> QED
    BY <2>1, <2>2, <2>3, FS_Subset
<1>7. Is \in SUBSET DOMAIN table
  OBVIOUS
<1> HIDE DEF Is, Are, Must, May, h
<1>8. IsFiniteSet(Is)
  BY <1>6, <1>7, FS_Subset
<1>9. ExistsBijection(Is, Are)
  BY <1>3 DEF ExistsBijection
<1>10. IsFiniteSet(Are) /\ Cardinality(Are) = Cardinality(Is)
  BY <1>8, <1>9, FS_Bijection
<1>11. Cardinality(Must) <= Cardinality(Are) /\ Cardinality(Are) <= Cardinality(May) /\ IsFiniteSet(Must)
  BY <1>4, <1>5, <1>6, <1>10, FS_Subset
<1>12. Cardinality(Is) \in Nat /\ Cardinality(Must) \in Nat /\ Cardinality(May) \in Nat
  BY <1>6, <1>8, <1>11, FS_CardinalityType
<1>13. Cardinality(Is) \in Cardinality(Must)..Cardinality(May)
  BY <1>10, <1>11, <1>12
<1> QED
  BY <1>13 DEF Is, Must, May

LEMMA SameDrawing ==
    ASSUME RowsAreDrawn, UNCHANGED <<source, table, open, reading>>,
           pc' = pc \/ pc' \notin {"bulk", "stream"}
    PROVE  RowsAreDrawn'
<1>1. Stream' = Stream /\ Width' = Width
  BY SameFile
<1> QED
  BY <1>1 DEF RowsAreDrawn, Drawn

LEMMA FilesDrawnNext == ASSUME FilesInv, RowsAreDrawn, [FilesNext]_fileVars PROVE RowsAreDrawn'
<1>1. CASE ImportStep
  BY <1>1, RowsDrawnNext DEF FilesInv
<1>2. CASE ReportStep /\ UNCHANGED <<table, open, reading, cleaning>>
  <2>1. UNCHANGED source /\ pc' \notin {"bulk", "stream"}
    BY <1>2 DEF ReportStep, CountRows, Filter, ClearResults, InsertResults, OpenCsv, WriteCsvRow,
                CloseCsv, BeginSave, EndSave, RecordPath, Complete, Goto
  <2> QED
    BY <1>2, <2>1, SameDrawing
<1>3. CASE ListOutput \/ RemoveFile \/ UNCHANGED fileVars
  <2>1. UNCHANGED <<source, table, open, reading, pc>>
    BY <1>3 DEF ListOutput, RemoveFile, fileVars, importVars
  <2> QED
    BY <2>1, SameDrawing
<1> QED
  BY <1>1, <1>2, <1>3 DEF FilesNext

-----------------------------------------------------------------------------
\* The invariant holds from the first upload on.
THEOREM FilesStayInOrder == FilesSpec => []FilesInv
<1>1. FilesInit => FilesInv
  BY FilesBegin
<1>2. FilesInv /\ [FilesNext]_fileVars => FilesInv'
  BY FilesNextInv
<1> QED
  BY <1>1, <1>2, PTL DEF FilesSpec

(* Whichever of BULK INSERT, the fallback and the batches have been tried, *)
(* wherever the batches end and a run has failed: the staging table has no *)
(* row, or one for each row of the file but those passed over.             *)
THEOREM ImportIsWhole == FilesSpec => []TableIsEmptyOrWhole
<1>1. FilesInv => TableIsEmptyOrWhole
  BY DEF FilesInv, ImportInv
<1> QED
  BY <1>1, FilesStayInOrder, PTL

(* A path in FT_JobResults leads to a file with as many rows as its count  *)
(* says, or to one that the cleanup has removed: never to a file that is   *)
(* being written, or that a failed run has left behind.                    *)
THEOREM PathsLeadToWholeFiles == FilesSpec => []RecordedIsWhole
<1>1. FilesInv => RecordedIsWhole
  BY DEF FilesInv
<1> QED
  BY <1>1, FilesStayInOrder, PTL

(* The counts of a job that is done add up to the rows of its file, and so *)
(* do the files that are offered, while they are there.                    *)
THEOREM NoRowLost == FilesSpec => []EveryRowDelivered
<1>1. FilesInv => EveryRowDelivered
  BY DeliveredFollows
<1> QED
  BY <1>1, FilesStayInOrder, PTL

(* The workbook of a job that is done: in the sheets of a category are the *)
(* rows of its CSV file, each of them once, in the order in which another  *)
(* scan has found them, and no sheet is too long for Excel or empty.       *)
THEOREM SheetsAreWhole == FilesSpec => []SheetsHoldCategory
<1>1. FilesInv => SheetsHoldCategory
  BY SheetsFollow
<1> QED
  BY <1>1, FilesStayInOrder, PTL

\* Every row of the table is one of the stream, each at most once, and none that
\* can be loaded is left out.
THEOREM RowsStayDrawn == FilesSpec => []RowsAreDrawn
<1>1. FilesInit => RowsAreDrawn
  BY DEF FilesInit, ImportInit, RowsAreDrawn
<1>2. FilesInv /\ RowsAreDrawn /\ [FilesNext]_fileVars => RowsAreDrawn'
  BY FilesDrawnNext
<1> QED
  BY <1>1, <1>2, FilesStayInOrder, PTL DEF FilesSpec

(* An imported row has each of its cells under the header its own sheet    *)
(* gives it, and no other cells: as often as the file has a row with just  *)
(* these cells, the table has one, but for those passed over.              *)
THEOREM CellsStayUnderHeaders == FilesSpec => []CellsUnderTheirHeaders
<1>1. FilesInv /\ RowsAreDrawn => CellsUnderTheirHeaders
  BY CellsFollow
<1> QED
  BY <1>1, FilesStayInOrder, RowsStayDrawn, PTL
=============================================================================
