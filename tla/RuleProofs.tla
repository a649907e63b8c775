------------------------------ MODULE RuleProofs ------------------------------
(***************************************************************************)
(* Proofs about the rules that look into the text of a value: that T-SQL   *)
(* and Python agree on words over any alphabet, and as far as they do.     *)
(***************************************************************************)
EXTENDS RuleTwins, FoldFacts

-----------------------------------------------------------------------------
(* Words.                                                                  *)

\* A set with the empty word and with every continuation of its members has all words.
LEMMA WordInduction ==
    ASSUME NEW S, NEW A, <<>> \in A,
           \A word \in Seq(S) : \A c \in S : word \in A => Append(word, c) \in A
    PROVE  \A word \in Seq(S) : word \in A
<1> DEFINE B == {n \in Nat : \A word \in Seq(S) : Len(word) = n => word \in A}
<1>1. 0 \in B
  BY EmptySeq
<1>2. ASSUME NEW n \in Nat, n \in B PROVE n + 1 \in B
  <2> SUFFICES ASSUME NEW word \in Seq(S), Len(word) = n + 1 PROVE word \in A
    OBVIOUS
  <2>1. word # <<>>
    BY EmptySeq
  <2>2. PICK front \in Seq(S) : \E c \in S : word = Append(front, c)
    BY <2>1, SequenceEmptyOrAppend
  <2>3. PICK c \in S : word = Append(front, c)
    BY <2>2
  <2>4. Len(front) = n
    BY <2>3, AppendProperties, LenProperties
  <2> QED
    BY <1>2, <2>3, <2>4
<1> HIDE DEF B
<1>3. \A n \in Nat : n \in B
  BY <1>1, <1>2, NatSetInduction
<1> QED
  BY <1>3, LenProperties DEF B

LEMMA EmptyHas == \A c : ~Has(<<>>, c)
<1>1. DOMAIN <<>> = {}
  BY EmptySeq, LenProperties
<1> QED
  BY <1>1 DEF Has, Range

LEMMA AppendHas ==
    ASSUME NEW S, NEW word \in Seq(S), NEW c \in S, NEW d
    PROVE  Has(Append(word, c), d) <=> Has(word, d) \/ d = c
<1> DEFINE more == Append(word, c)
           n == Len(word)
<1>1. n \in Nat /\ DOMAIN word = 1..n
  BY LenProperties
<1>2. /\ more \in Seq(S) /\ Len(more) = n + 1 /\ more[n + 1] = c
      /\ \A i \in 1..n : more[i] = word[i]
  BY AppendProperties
<1>3. DOMAIN more = 1..(n + 1)
  BY <1>2, LenProperties
<1> HIDE DEF more, n
<1>4. \A i \in 1..(n + 1) : i \in 1..n \/ i = n + 1
  BY <1>1
<1>5. \A i \in 1..n : i \in 1..(n + 1)
  BY <1>1
<1>6. n + 1 \in 1..(n + 1)
  BY <1>1
<1>7. Range(more) = Range(word) \cup {c}
  BY <1>1, <1>2, <1>3, <1>4, <1>5, <1>6 DEF Range
<1> QED
  BY <1>7 DEF Has, more

\* A word with something in the place of each of its characters.
Spread(pieces, word) == FlattenSeq([i \in DOMAIN word |-> pieces[word[i]]])

LEMMA SpreadNone == \A pieces : Spread(pieces, <<>>) = <<>>
<1> TAKE pieces
<1>1. DOMAIN <<>> = {}
  BY EmptySeq, LenProperties
<1>2. PICK none : none = [i \in DOMAIN <<>> |-> pieces[<<>>[i]]]
  OBVIOUS
<1>3. none \in [1..0 -> {}]
  BY <1>1, <1>2
<1>4. none \in Seq({}) /\ Len(none) = 0
  BY <1>3, SeqIs
<1>5. none = <<>>
  BY <1>4, EmptySeq
<1>6. FlattenSeq(none) = none
  BY <1>4 DEF FlattenSeq
<1> QED
  BY <1>2, <1>5, <1>6 DEF Spread

\* A whole of two parts.
IsWhole(whole, front, rest) == whole = front \o rest

LEMMA SpreadAppend ==
    ASSUME NEW S, NEW word \in Seq(S), NEW c \in S, NEW more, more = Append(word, c),
           NEW R, NEW pieces \in [S -> Seq(R)]
    PROVE  /\ Spread(pieces, word) \in Seq(R)
           /\ IsWhole(Spread(pieces, more), Spread(pieces, word), pieces[c])
<1> DEFINE n == Len(word)
           some == [i \in DOMAIN word |-> pieces[word[i]]]
           all == [i \in DOMAIN more |-> pieces[more[i]]]
<1>1. n \in Nat /\ DOMAIN word = 1..n /\ \A i \in 1..n : word[i] \in S
  BY LenProperties, ElementOfSeq
<1>2. /\ more \in Seq(S) /\ Len(more) = n + 1 /\ more[n + 1] = c
      /\ \A i \in 1..n : more[i] = word[i]
  BY AppendProperties
<1>3. DOMAIN more = 1..(n + 1)
  BY <1>2, LenProperties
<1> HIDE DEF n
<1>4. PICK T : T = Seq(R)
  OBVIOUS
<1>5. some \in [1..n -> T] /\ all \in [1..(n + 1) -> T]
  <2>1. \A i \in 1..(n + 1) : more[i] \in S
    BY <1>2, ElementOfSeq
  <2> QED
    BY <1>1, <1>3, <1>4, <2>1
<1>6. /\ \A i \in 1..n : all[i] = some[i]
      /\ all[n + 1] = pieces[c]
  <2>1. \A i \in 1..n : i \in 1..(n + 1)
    BY <1>1
  <2>2. n + 1 \in 1..(n + 1)
    BY <1>1
  <2> QED
    BY <1>1, <1>2, <1>3, <2>1, <2>2
<1> HIDE DEF some, all
<1>7. some \in Seq(T) /\ Len(some) = n /\ all \in Seq(T) /\ Len(all) = n + 1
  BY <1>1, <1>5, SeqIs
<1>8. PICK p \in T : p = pieces[c]
  BY <1>4
<1>9. all = Append(some, p)
  <2>1. /\ Append(some, p) \in Seq(T) /\ Len(Append(some, p)) = n + 1
        /\ \A i \in 1..n : Append(some, p)[i] = some[i]
        /\ Append(some, p)[n + 1] = p
    BY <1>7, AppendProperties
  <2>2. \A i \in 1..(n + 1) : all[i] = Append(some, p)[i]
    <3>1. \A i \in 1..(n + 1) : i \in 1..n \/ i = n + 1
      BY <1>1
    <3> QED
      BY <1>6, <1>8, <2>1, <3>1
  <2> QED
    BY <1>7, <2>1, <2>2, SeqEqual
<1>10. FlattenSeq(Append(some, p)) = FlattenSeq(some) \o p
  BY <1>4, <1>7, <1>8, FlattenAppend
<1>11. Spread(pieces, word) = FlattenSeq(some) /\ Spread(pieces, more) = FlattenSeq(all)
  BY DEF Spread, some, all
<1>12. FlattenSeq(some) \in Seq(R)
  <2> DEFINE f == [i \in 1..n |-> Len(some[i])]
  <2>1. \A i \in 1..Len(some) : f[i] = Len(some[i])
    BY <1>7
  <2> HIDE DEF f
  <2> QED
    BY <1>4, <1>7, <2>1, FlattenFacts
<1> QED
  BY <1>8, <1>9, <1>10, <1>11, <1>12 DEF IsWhole

LEMMA SpreadType ==
    ASSUME NEW S, NEW word \in Seq(S), NEW R, NEW pieces \in [S -> Seq(R)]
    PROVE  Spread(pieces, word) \in Seq(R)
<1>1. CASE word = <<>>
  BY <1>1, SpreadNone, EmptySeq
<1>2. CASE word # <<>>
  <2>1. PICK c \in S : TRUE
    BY <1>2, SequenceEmptyOrAppend
  <2>2. PICK more : more = Append(word, c)
    OBVIOUS
  <2> QED
    BY <2>2, SpreadAppend
<1> QED
  BY <1>1, <1>2

\* Both ways of taking a word apart are of this kind.
WithoutPieces(S, chars) == [c \in S |-> IF c \in chars THEN <<>> ELSE <<c>>]
ReplacePieces(S, d, by) == [c \in S |-> IF c = d THEN by ELSE <<c>>]

LEMMA WithoutSpreads ==
    ASSUME NEW S, NEW word \in Seq(S), NEW chars
    PROVE  /\ WithoutPieces(S, chars) \in [S -> Seq(S)]
           /\ Without(chars, word) = Spread(WithoutPieces(S, chars), word)
<1>1. DOMAIN word = 1..Len(word) /\ \A i \in DOMAIN word : word[i] \in S
  BY LenProperties, ElementOfSeq
<1>2. \A c \in S : <<c>> \in Seq(S) /\ <<>> \in Seq(S)
  BY EmptySeq
<1>3. WithoutPieces(S, chars) \in [S -> Seq(S)]
  BY <1>2 DEF WithoutPieces
<1>4. [i \in DOMAIN word |-> IF word[i] \in chars THEN <<>> ELSE <<word[i]>>]
        = [i \in DOMAIN word |-> WithoutPieces(S, chars)[word[i]]]
  BY <1>1 DEF WithoutPieces
<1> QED
  BY <1>3, <1>4 DEF Without, Spread

LEMMA ReplaceSpreads ==
    ASSUME NEW S, NEW word \in Seq(S), NEW d, NEW by \in Seq(S)
    PROVE  /\ ReplacePieces(S, d, by) \in [S -> Seq(S)]
           /\ Replace(word, d, by) = Spread(ReplacePieces(S, d, by), word)
<1>1. DOMAIN word = 1..Len(word) /\ \A i \in DOMAIN word : word[i] \in S
  BY LenProperties, ElementOfSeq
<1>2. \A c \in S : <<c>> \in Seq(S)
  OBVIOUS
<1>3. ReplacePieces(S, d, by) \in [S -> Seq(S)]
  BY <1>2 DEF ReplacePieces
<1>4. [i \in DOMAIN word |-> IF word[i] = d THEN by ELSE <<word[i]>>]
        = [i \in DOMAIN word |-> ReplacePieces(S, d, by)[word[i]]]
  BY <1>1 DEF ReplacePieces
<1> QED
  BY <1>3, <1>4 DEF Replace, Spread

LEMMA WithoutNone == \A chars : Without(chars, <<>>) = <<>>
<1> TAKE chars
<1>1. <<>> \in Seq({})
  BY EmptySeq
<1> QED
  BY <1>1, WithoutSpreads, SpreadNone

LEMMA WithoutAppend ==
    ASSUME NEW S, NEW word \in Seq(S), NEW c \in S, NEW chars
    PROVE  /\ Without(chars, word) \in Seq(S)
           /\ Without(chars, Append(word, c))
                 = IF c \in chars THEN Without(chars, word) ELSE Append(Without(chars, word), c)
<1>1. PICK pieces : pieces = WithoutPieces(S, chars)
  OBVIOUS
<1>2. PICK more \in Seq(S) : more = Append(word, c)
  BY AppendProperties
<1>3. /\ pieces \in [S -> Seq(S)] /\ Without(chars, word) = Spread(pieces, word)
      /\ Without(chars, more) = Spread(pieces, more)
  BY <1>1, WithoutSpreads
<1>4. Spread(pieces, word) \in Seq(S) /\ IsWhole(Spread(pieces, more), Spread(pieces, word), pieces[c])
  BY <1>2, <1>3, SpreadAppend
<1>5. pieces[c] = IF c \in chars THEN <<>> ELSE <<c>>
  BY <1>1 DEF WithoutPieces
<1>6. PICK w \in Seq(S) : w = Spread(pieces, word)
  BY <1>4
<1>7. w \o pieces[c] = IF c \in chars THEN w ELSE Append(w, c)
  BY <1>5, ConcatEmptySeq, AppendIsConcat
<1> QED
  BY <1>2, <1>3, <1>4, <1>6, <1>7 DEF IsWhole

LEMMA WithoutType ==
    ASSUME NEW S, NEW word \in Seq(S), NEW chars PROVE Without(chars, word) \in Seq(S)
<1>1. CASE word = <<>>
  BY <1>1, WithoutNone
<1>2. CASE word # <<>>
  <2>1. PICK c \in S : TRUE
    BY <1>2, SequenceEmptyOrAppend
  <2> QED
    BY WithoutAppend
<1> QED
  BY <1>1, <1>2

\* Taking characters out twice is taking them all out.
LEMMA WithoutTwice ==
    ASSUME NEW S, NEW one, NEW two
    PROVE  \A word \in Seq(S) : Without(one, Without(two, word)) = Without(one \cup two, word)
<1> DEFINE A == {word \in Seq(S) : Without(one, Without(two, word)) = Without(one \cup two, word)}
<1>1. <<>> \in A
  BY WithoutNone, EmptySeq
<1>2. ASSUME NEW word \in Seq(S), NEW c \in S, word \in A PROVE Append(word, c) \in A
  <2>1. PICK rest \in Seq(S) : rest = Without(two, word)
    BY WithoutAppend
  <2>2. Append(word, c) \in Seq(S)
    BY AppendProperties
  <2>3. Without(two, Append(word, c)) = IF c \in two THEN rest ELSE Append(rest, c)
    BY <2>1, WithoutAppend
  <2>4. Without(one, Append(rest, c)) = IF c \in one THEN Without(one, rest) ELSE Append(Without(one, rest), c)
    BY WithoutAppend
  <2>5. Without(one \cup two, Append(word, c))
          = IF c \in one \cup two THEN Without(one \cup two, word) ELSE Append(Without(one \cup two, word), c)
    BY WithoutAppend
  <2>6. Without(one, rest) = Without(one \cup two, word)
    BY <1>2, <2>1
  <2> QED
    BY <2>2, <2>3, <2>4, <2>5, <2>6
<1> HIDE DEF A
<1>3. \A word \in Seq(S) : word \in A
  BY <1>1, <1>2, WordInduction
<1> QED
  BY <1>3 DEF A

\* What is left are the characters that have not been taken out.
LEMMA WithoutHas ==
    ASSUME NEW S, NEW chars
    PROVE  \A word \in Seq(S) : \A d : Has(Without(chars, word), d) <=> Has(word, d) /\ d \notin chars
<1> DEFINE A == {word \in Seq(S) : \A d : Has(Without(chars, word), d) <=> Has(word, d) /\ d \notin chars}
<1>1. <<>> \in A
  BY WithoutNone, EmptySeq, EmptyHas
<1>2. ASSUME NEW word \in Seq(S), NEW c \in S, word \in A PROVE Append(word, c) \in A
  <2>1. PICK rest \in Seq(S) : rest = Without(chars, word)
    BY WithoutAppend
  <2>2. Append(word, c) \in Seq(S)
    BY AppendProperties
  <2>3. Without(chars, Append(word, c)) = IF c \in chars THEN rest ELSE Append(rest, c)
    BY <2>1, WithoutAppend
  <2>4. \A d : Has(rest, d) <=> Has(word, d) /\ d \notin chars
    BY <1>2, <2>1
  <2>5. \A d : Has(Append(rest, c), d) <=> Has(rest, d) \/ d = c
    BY AppendHas
  <2>6. \A d : Has(Append(word, c), d) <=> Has(word, d) \/ d = c
    BY AppendHas
  <2>7. \A d : Has(Without(chars, Append(word, c)), d) <=> Has(Append(word, c), d) /\ d \notin chars
    BY <2>3, <2>4, <2>5, <2>6
  <2> QED
    BY <2>2, <2>7
<1> HIDE DEF A
<1>3. \A word \in Seq(S) : word \in A
  BY <1>1, <1>2, WordInduction
<1> QED
  BY <1>3 DEF A

LEMMA HasNone ==
    ASSUME NEW S, NEW word \in Seq(S) PROVE word = <<>> <=> \A d : ~Has(word, d)
<1>1. ASSUME word # <<>> PROVE \E d : Has(word, d)
  <2>1. 1 \in DOMAIN word
    BY <1>1, EmptySeq, LenProperties
  <2> QED
    BY <2>1 DEF Has, Range
<1> QED
  BY <1>1, EmptyHas

-----------------------------------------------------------------------------
(* User names of digits.                                                   *)

LEMMA StripDigitsFacts ==
    ASSUME NEW S, NEW word \in Seq(S)
    PROVE  StripDigits(word) = <<>> <=> \A d : Has(word, d) => d \in Digits \cup {"#"}
<1> DEFINE marked == [i \in DOMAIN word |-> IF word[i] \in Digits THEN "#" ELSE word[i]]
           T == S \cup {"#"}
<1>1. DOMAIN word = 1..Len(word) /\ Len(word) \in Nat /\ \A i \in 1..Len(word) : word[i] \in S
  BY LenProperties, ElementOfSeq
<1>2. marked \in [1..Len(word) -> T]
  BY <1>1
<1>3. marked \in Seq(T)
  <2> HIDE DEF marked, T
  <2> QED
    BY <1>1, <1>2, SeqIs
<1>4. \A d : Has(marked, d) <=> IF d = "#" THEN \E e : Has(word, e) /\ e \in Digits \cup {"#"}
                                ELSE Has(word, d) /\ d \notin Digits
  BY DEF Has, Range, Digits
<1>5. StripDigits(word) = Without({"#"}, marked)
  BY DEF StripDigits
<1> HIDE DEF marked, T
<1>6. Without({"#"}, marked) \in Seq(T)
  BY <1>3, WithoutType
<1>7. Without({"#"}, marked) = <<>> <=> \A d : ~Has(Without({"#"}, marked), d)
  BY <1>6, HasNone
<1>8. \A d : Has(Without({"#"}, marked), d) <=> Has(marked, d) /\ d \notin {"#"}
  BY <1>3, WithoutHas
<1> QED
  BY <1>4, <1>5, <1>7, <1>8

LEMMA NumericFollows == ASSUME TwinsTypeOK PROVE NumericAgrees
<1>1. PICK S : S = Alphabet[subject]
  OBVIOUS
<1>2. value \in Seq(S)
  BY <1>1 DEF TwinsTypeOK
<1>3. StripDigits(value) = <<>> <=> \A d : Has(value, d) => d \in Digits \cup {"#"}
  BY <1>2, StripDigitsFacts
<1>4. Without(Digits, value) = <<>> <=> \A d : Has(value, d) => d \in Digits
  <2>1. Without(Digits, value) \in Seq(S)
    BY <1>2, WithoutType
  <2>2. Without(Digits, value) = <<>> <=> \A d : ~Has(Without(Digits, value), d)
    BY <2>1, HasNone
  <2>3. \A d : Has(Without(Digits, value), d) <=> Has(value, d) /\ d \notin Digits
    BY <1>2, WithoutHas
  <2> QED
    BY <2>2, <2>3
<1> QED
  BY <1>3, <1>4 DEF NumericAgrees, PyNumeric, SqlNumeric

-----------------------------------------------------------------------------
(* Addresses.                                                              *)

LEMMA FirstAtFacts ==
    ASSUME NEW S, NEW word \in Seq(S)
    PROVE  FirstAt(word) \in 0..Len(word) /\ (Has(word, "@") <=> FirstAt(word) > 0)
<1> DEFINE I == {i \in 1..Len(word) : word[i] = "@"}
<1>1. DOMAIN word = 1..Len(word) /\ Len(word) \in Nat
  BY LenProperties
<1>2. FirstAt(word) = IF I # {} THEN Min(I) ELSE 0
  BY DEF FirstAt, SelectInSeq
<1>3. Has(word, "@") <=> I # {}
  BY <1>1 DEF Has, Range
<1>4. ASSUME I # {} PROVE Min(I) \in I
  <2>1. I \in SUBSET Nat
    OBVIOUS
  <2>2. PICK m \in I : \A k \in I : m <= k
    <3> HIDE DEF I
    <3> QED
      BY <1>4, <2>1, LeastIsThere
  <2> QED
    BY <2>2 DEF Min
<1>5. I # {} => Min(I) \in 1..Len(word)
  BY <1>4
<1> HIDE DEF I
<1> QED
  BY <1>1, <1>2, <1>3, <1>5

LEMMA AddressesFollow == ASSUME TwinsTypeOK PROVE AddressesAgree
<1>1. PICK S : S = Alphabet[subject]
  OBVIOUS
<1>2. value \in Seq(S)
  BY <1>1 DEF TwinsTypeOK
<1>3. PICK word \in Seq(S) : word = Without({Tab}, value)
  BY <1>2, WithoutType
<1>4. PICK address \in Seq(S) : address = Without({" "}, word)
  BY WithoutType
<1>5. address = Without({" ", Tab}, value)
  <2>1. PICK one, two : one = {" "} /\ two = {Tab}
    OBVIOUS
  <2>2. Without(one, Without(two, value)) = Without(one \cup two, value)
    BY <1>2, WithoutTwice
  <2>3. one \cup two = {" ", Tab}
    BY <2>1
  <2> QED
    BY <1>3, <1>4, <2>1, <2>2, <2>3
<1>6. (Has(word, "@") <=> Has(value, "@")) /\ (Has(word, ".") <=> Has(value, "."))
  BY <1>2, <1>3, WithoutHas DEF Tab
<1>7. Has(address, "@") <=> Has(word, "@")
  BY <1>4, WithoutHas
<1>8. /\ FirstAt(address) \in 0..Len(address)
      /\ Has(address, "@") <=> FirstAt(address) > 0
      /\ Len(address) \in Nat
  BY FirstAtFacts, LenProperties
<1>9. SubSeq(address, 1, FirstAt(address) - 1) = <<>> <=> FirstAt(address) <= 1
  <2>1. \A i \in 1..(FirstAt(address) - 1) : address[i] \in S
    BY <1>8, ElementOfSeq
  <2>2. FirstAt(address) - 1 \in Int
    BY <1>8
  <2>3. /\ SubSeq(address, 1, FirstAt(address) - 1) \in Seq(S)
        /\ Len(SubSeq(address, 1, FirstAt(address) - 1))
              = IF 1 <= FirstAt(address) - 1 THEN FirstAt(address) - 1 - 1 + 1 ELSE 0
    BY <2>1, <2>2, SubSeqProperties
  <2> QED
    BY <1>8, <2>3, EmptySeq
<1>10. /\ Split(address).local = SubSeq(address, 1, FirstAt(address) - 1)
       /\ Split(address).domain = After(address, FirstAt(address))
  BY DEF Split
<1>11. Has(address, "@") =>
          (ValidNormalized(address) <=> FirstAt(address) > 1 /\ Has(After(address, FirstAt(address)), "."))
  BY <1>8, <1>9, <1>10 DEF ValidNormalized
<1>12. PyAddress(value)
         = IF Has(value, "@") /\ Has(value, ".") /\ address # <<>> /\ ValidNormalized(address)
           THEN Split(address) ELSE Invalid
  BY <1>5 DEF PyAddress
<1>13. SqlAddress(word)
         = IF ~Has(word, "@") \/ ~Has(word, ".") \/ address = <<>> THEN Invalid
           ELSE IF FirstAt(address) <= 1 \/ ~Has(After(address, FirstAt(address)), ".") THEN Invalid
           ELSE Split(address)
  BY <1>4 DEF SqlAddress
<1>14. PyAddress(value) = SqlAddress(word)
  BY <1>6, <1>7, <1>8, <1>11, <1>12, <1>13
<1> QED
  BY <1>3, <1>14 DEF AddressesAgree

LEMMA PartOfWord ==
    ASSUME NEW S, NEW word \in Seq(S), NEW m \in 1..(Len(word) + 1), NEW n \in 0..Len(word)
    PROVE  SubSeq(word, m, n) \in Seq(S)
<1>1. Len(word) \in Nat
  BY LenProperties
<1>2. m \in Int /\ n \in Int /\ \A i \in m..n : i \in 1..Len(word)
  BY <1>1
<1>3. \A i \in m..n : word[i] \in S
  BY <1>2, ElementOfSeq
<1> QED
  BY <1>2, <1>3, SubSeqProperties

\* A word of two parts, of which the first ends at k.
PartsAt(word, s, t, k) ==
    /\ Len(word) = k + Len(t)
    /\ \A i \in 1..k : word[i] = s[i]
    /\ \A i \in 1..Len(t) : word[k + i] = t[i]

LEMMA ConcatPlaces ==
    ASSUME NEW S, NEW s \in Seq(S), NEW t \in Seq(S), NEW m \in Nat, Len(s) = m
    PROVE  s \o t \in Seq(S) /\ PartsAt(s \o t, s, t, m)
<1>0. PICK n \in Nat : n = Len(t)
  BY LenProperties
<1>1. PICK st : st = s \o t
  OBVIOUS
<1>2. /\ st \in Seq(S) /\ Len(st) = m + n
      /\ \A i \in 1..(m + n) : st[i] = IF i <= m THEN s[i] ELSE t[i - m]
  BY <1>0, <1>1, ConcatProperties
<1>3. \A i \in 1..m : i \in 1..(m + n) /\ i <= m
  OBVIOUS
<1>4. \A i \in 1..n : m + i \in 1..(m + n) /\ ~(m + i <= m) /\ (m + i) - m = i
  OBVIOUS
<1>5. /\ \A i \in 1..m : st[i] = s[i]
      /\ \A i \in 1..n : st[m + i] = t[i]
  BY <1>2, <1>3, <1>4
<1> QED
  BY <1>0, <1>1, <1>2, <1>5 DEF PartsAt

-----------------------------------------------------------------------------
(* LIKE.                                                                   *)

IsTable(word, pattern, from) ==
    from = [j \in 1..Len(pattern) + 1 |-> LikeFrom(word, pattern, from, j)]

\* An entry of the table depends on the later ones only.
LEMMA LikeFromLater ==
    ASSUME NEW word, NEW pattern, NEW n \in Nat, n = Len(pattern), NEW j \in 1..n + 1, NEW f, NEW g,
           \A k \in j + 1..n + 1 : f[k] = g[k]
    PROVE  LikeFrom(word, pattern, f, j) = LikeFrom(word, pattern, g, j)
<1>1. CASE j > n
  BY <1>1 DEF LikeFrom
<1>2. CASE j <= n
  <2>1. f[j + 1] = g[j + 1]
    BY <1>2
  <2>2. \A k \in j + 1..n : f[k + 1] = g[k + 1]
    <3> TAKE k \in j + 1..n
    <3>1. k + 1 \in j + 1..n + 1
      OBVIOUS
    <3> QED
      BY <3>1
  <2>3. ~(j > Len(pattern))
    BY <1>2
  <2> QED
    BY <2>1, <2>2, <2>3 DEF LikeFrom
<1> QED
  BY <1>1, <1>2

LEMMA LikeTable ==
    ASSUME NEW word, NEW pattern, Len(pattern) \in Nat
    PROVE  \E from : IsTable(word, pattern, from) /\ (Like(word, pattern) <=> 1 \in from[1])
<1> DEFINE n == Len(pattern)
           Fits(f, j) == f[j] = LikeFrom(word, pattern, f, j)
           A == {a \in Nat : \E f : \A j \in 1..n + 1 : n + 1 - j <= a => Fits(f, j)}
           chosen == CHOOSE from : IsTable(word, pattern, from)
<1>1. \E f : \A j \in 1..n + 1 : n + 1 - j <= 0 => Fits(f, j)
  <2> DEFINE f == [j \in 1..n + 1 |-> {Len(word) + 1}]
  <2>1. ASSUME NEW j \in 1..n + 1, n + 1 - j <= 0 PROVE Fits(f, j)
    <3>1. j > n
      BY <2>1
    <3>2. f[j] = {Len(word) + 1}
      OBVIOUS
    <3> HIDE DEF f
    <3>3. LikeFrom(word, pattern, f, j) = {Len(word) + 1}
      BY <3>1 DEF LikeFrom
    <3> QED
      BY <3>2, <3>3
  <2> QED
    BY <2>1
<1>2. ASSUME NEW a \in Nat, NEW f, \A j \in 1..n + 1 : n + 1 - j <= a => Fits(f, j)
      PROVE  \E g : \A j \in 1..n + 1 : n + 1 - j <= a + 1 => Fits(g, j)
  <2> DEFINE g == [j \in 1..n + 1 |-> IF n + 1 - j <= a THEN f[j] ELSE LikeFrom(word, pattern, f, j)]
  <2>1. ASSUME NEW j \in 1..n + 1, n + 1 - j <= a + 1 PROVE Fits(g, j)
    <3>1. \A k \in j + 1..n + 1 : k \in 1..n + 1 /\ n + 1 - k <= a
      BY <2>1
    <3>2. \A k \in j + 1..n + 1 : g[k] = f[k]
      BY <3>1
    <3>3. g[j] = LikeFrom(word, pattern, f, j)
      BY <1>2
    <3> HIDE DEF g
    <3>4. LikeFrom(word, pattern, g, j) = LikeFrom(word, pattern, f, j)
      BY <3>2, LikeFromLater
    <3> QED
      BY <3>3, <3>4
  <2> QED
    BY <2>1
<1> HIDE DEF Fits
<1>3. 0 \in A
  BY <1>1
<1>4. ASSUME NEW a \in Nat, a \in A PROVE a + 1 \in A
  <2>1. PICK f : \A j \in 1..n + 1 : n + 1 - j <= a => Fits(f, j)
    BY <1>4
  <2>2. PICK g : \A j \in 1..n + 1 : n + 1 - j <= a + 1 => Fits(g, j)
    BY <1>2, <2>1
  <2> QED
    BY <2>2
<1> HIDE DEF A
<1>5. n \in A
  BY <1>3, <1>4, NatSetInduction
<1>6. \E f : \A j \in 1..n + 1 : Fits(f, j)
  BY <1>5 DEF A
<1>7. \E from : IsTable(word, pattern, from)
  <2>1. PICK f : \A j \in 1..n + 1 : Fits(f, j)
    BY <1>6
  <2> DEFINE g == [j \in 1..n + 1 |-> f[j]]
  <2>2. ASSUME NEW j \in 1..n + 1 PROVE g[j] = LikeFrom(word, pattern, g, j)
    <3>1. \A k \in j + 1..n + 1 : k \in 1..n + 1
      OBVIOUS
    <3>2. \A k \in j + 1..n + 1 : g[k] = f[k]
      BY <3>1
    <3>3. g[j] = LikeFrom(word, pattern, f, j)
      BY <2>1 DEF Fits
    <3> HIDE DEF g
    <3> QED
      BY <3>2, <3>3, LikeFromLater
  <2>3. g = [j \in 1..n + 1 |-> g[j]]
    OBVIOUS
  <2> HIDE DEF g
  <2>4. g = [j \in 1..n + 1 |-> LikeFrom(word, pattern, g, j)]
    BY <2>2, <2>3
  <2> QED
    BY <2>4 DEF IsTable
<1>8. IsTable(word, pattern, chosen)
  BY <1>7, Zenon
<1>9. Like(word, pattern) <=> 1 \in chosen[1]
  BY DEF Like, IsTable
<1> QED
  BY <1>8, <1>9

LEMMA TableAt ==
    ASSUME NEW word, NEW pattern, NEW from, IsTable(word, pattern, from),
           NEW j \in 1..Len(pattern) + 1
    PROVE  from[j] = LikeFrom(word, pattern, from, j)
<1>1. PICK T : T = 1..Len(pattern) + 1
  OBVIOUS
<1>2. from = [k \in T |-> LikeFrom(word, pattern, from, k)]
  BY <1>1 DEF IsTable
<1> QED
  BY <1>1, <1>2

\* A character that LIKE takes for itself.
Plain(c) == c \notin {"%", "_", "["}

\* What its entries are: past the pattern, for a %, for a plain character and for a set.
LEMMA EntryPast ==
    ASSUME NEW word, NEW pattern, NEW v \in Nat, v = Len(word), NEW n \in Nat, n = Len(pattern),
           NEW from, IsTable(word, pattern, from), NEW j, j = n + 1
    PROVE  \A i : i \in from[j] <=> i = v + 1
<1>1. j \in 1..n + 1 /\ j > n
  OBVIOUS
<1>2. from[j] = LikeFrom(word, pattern, from, j)
  BY <1>1, TableAt
<1>3. from[j] = {v + 1}
  BY <1>1, <1>2 DEF LikeFrom
<1> QED
  BY <1>3

LEMMA EntryAny ==
    ASSUME NEW word, NEW pattern, NEW v \in Nat, v = Len(word), NEW n \in Nat, n = Len(pattern),
           NEW from, IsTable(word, pattern, from), NEW j \in 1..n, pattern[j] = "%"
    PROVE  \A i : i \in from[j] <=> i \in 1..v + 1 /\ \E k \in from[j + 1] : i <= k
<1>1. j \in 1..n + 1 /\ ~(j > n)
  OBVIOUS
<1>2. from[j] = LikeFrom(word, pattern, from, j)
  BY <1>1, TableAt
<1>3. from[j] = {i \in 1..v + 1 : \E k \in from[j + 1] : i <= k}
  BY <1>1, <1>2 DEF LikeFrom
<1> QED
  BY <1>3

LEMMA EntryPlain ==
    ASSUME NEW word, NEW pattern, NEW v \in Nat, v = Len(word), NEW n \in Nat, n = Len(pattern),
           NEW from, IsTable(word, pattern, from), NEW j \in 1..n, Plain(pattern[j])
    PROVE  \A i : i \in from[j] <=> i \in 1..v /\ word[i] = pattern[j] /\ i + 1 \in from[j + 1]
<1>1. j \in 1..n + 1 /\ ~(j > n)
  OBVIOUS
<1>2. from[j] = LikeFrom(word, pattern, from, j)
  BY <1>1, TableAt
<1>3. from[j] = {i \in 1..v : word[i] = pattern[j] /\ i + 1 \in from[j + 1]}
  BY <1>1, <1>2 DEF LikeFrom, Plain
<1> QED
  BY <1>3

-----------------------------------------------------------------------------
(* Top-level domains.                                                      *)

\* The last a characters of both words are the same.
SameEnd(word, v, t, n, a) == v >= a /\ \A l \in 1..a : word[(v - a) + l] = t[(n - a) + l]

LEMMA EndsWithIs ==
    ASSUME NEW S, NEW word \in Seq(S), NEW t \in Seq(S), NEW v \in Nat, v = Len(word),
           NEW n \in Nat, n = Len(t)
    PROVE  EndsWith(word, t) <=> SameEnd(word, v, t, n, n)
<1>1. ASSUME v >= n PROVE After(word, v - n) = t <=> \A l \in 1..n : word[(v - n) + l] = t[l]
  <2>1. PICK e : e = SubSeq(word, (v - n) + 1, v)
    OBVIOUS
  <2>2. \A i \in (v - n) + 1..v : i \in 1..v
    BY <1>1
  <2>3. \A i \in (v - n) + 1..v : word[i] \in S
    BY <2>2, ElementOfSeq
  <2>4. PICK m \in Int : m = (v - n) + 1
    BY <1>1
  <2>5. /\ e \in Seq(S) /\ Len(e) = (IF m <= v THEN (v - m) + 1 ELSE 0)
        /\ \A i \in 1..(v - m) + 1 : e[i] = word[(m + i) - 1]
    BY <2>1, <2>3, <2>4, SubSeqProperties
  <2>6. Len(e) = n
    BY <1>1, <2>4, <2>5
  <2>7. \A i \in 1..n : i \in 1..(v - m) + 1 /\ (m + i) - 1 = (v - n) + i
    BY <1>1, <2>4
  <2>8. \A i \in 1..n : e[i] = word[(v - n) + i]
    BY <2>5, <2>7
  <2>9. e = t <=> \A i \in 1..n : e[i] = t[i]
    BY <2>5, <2>6, SeqEqual
  <2> QED
    BY <2>1, <2>8, <2>9 DEF After
<1>2. \A l \in 1..n : (n - n) + l = l
  OBVIOUS
<1> QED
  BY <1>1, <1>2 DEF EndsWith, SameEnd

LEMMA SameEndStep ==
    ASSUME NEW word, NEW v \in Nat, NEW t, NEW n \in Nat, NEW a \in Nat
    PROVE  SameEnd(word, v, t, n, a + 1)
             <=> v >= a + 1 /\ word[v - a] = t[n - a] /\ SameEnd(word, v, t, n, a)
<1>1. ASSUME SameEnd(word, v, t, n, a + 1)
      PROVE  v >= a + 1 /\ word[v - a] = t[n - a] /\ SameEnd(word, v, t, n, a)
  <2>1. v >= a + 1 /\ \A l \in 1..a + 1 : word[(v - (a + 1)) + l] = t[(n - (a + 1)) + l]
    BY <1>1 DEF SameEnd
  <2>2. 1 \in 1..a + 1 /\ (v - (a + 1)) + 1 = v - a /\ (n - (a + 1)) + 1 = n - a
    OBVIOUS
  <2>3. word[v - a] = t[n - a]
    BY <2>1, <2>2
  <2>4. \A l \in 1..a : /\ l + 1 \in 1..a + 1 /\ (v - (a + 1)) + (l + 1) = (v - a) + l
                        /\ (n - (a + 1)) + (l + 1) = (n - a) + l
    OBVIOUS
  <2>5. \A l \in 1..a : word[(v - a) + l] = t[(n - a) + l]
    BY <2>1, <2>4
  <2> QED
    BY <2>1, <2>3, <2>5 DEF SameEnd
<1>2. ASSUME v >= a + 1, word[v - a] = t[n - a], SameEnd(word, v, t, n, a)
      PROVE  SameEnd(word, v, t, n, a + 1)
  <2>1. \A l \in 1..a : word[(v - a) + l] = t[(n - a) + l]
    BY <1>2 DEF SameEnd
  <2>2. ASSUME NEW l \in 1..a + 1 PROVE word[(v - (a + 1)) + l] = t[(n - (a + 1)) + l]
    <3>1. CASE l = 1
      <4>1. (v - (a + 1)) + l = v - a /\ (n - (a + 1)) + l = n - a
        BY <3>1
      <4> QED
        BY <1>2, <4>1
    <3>2. CASE l # 1
      <4>1. PICK k \in 1..a : k = l - 1
        BY <3>2
      <4>2. (v - (a + 1)) + l = (v - a) + k /\ (n - (a + 1)) + l = (n - a) + k
        BY <4>1
      <4> QED
        BY <2>1, <4>2
    <3> QED
      BY <3>1, <3>2
  <2> QED
    BY <1>2, <2>2 DEF SameEnd
<1> QED
  BY <1>1, <1>2

\* A LIKE for the end of a word, without a character that means anything to LIKE.
LEMMA LikeEnd ==
    ASSUME NEW S, NEW word \in Seq(S), NEW t \in Seq(S), \A c : Has(t, c) => Plain(c)
    PROVE  Like(word, <<"%">> \o t) <=> EndsWith(word, t)
<1>1. PICK v, n \in Nat : v = Len(word) /\ n = Len(t)
  BY LenProperties
<1>2. PICK R : R = S \cup {"%"}
  OBVIOUS
<1>3. t \in Seq(R)
  <2>1. S \subseteq R
    BY <1>2
  <2> QED
    BY <2>1, SeqMonotonic
<1>4. PICK x \in R : x = "%"
  BY <1>2
<1>5. PICK s : s = <<x>>
  OBVIOUS
<1>6. s \in Seq(R) /\ Len(s) = 1 /\ s[1] = x
  BY <1>5
<1>7. PICK k \in Nat : k = 1
  OBVIOUS
<1>8. PICK p : p = s \o t
  OBVIOUS
<1>9. p \in Seq(R) /\ PartsAt(p, s, t, k)
  BY <1>3, <1>6, <1>7, <1>8, ConcatPlaces
<1>10. Len(p) = 1 + n /\ p[1] = "%" /\ \A i \in 1..n : p[1 + i] = t[i]
  <2>1. 1 \in 1..k
    BY <1>7
  <2> QED
    BY <1>1, <1>4, <1>6, <1>7, <1>9, <2>1 DEF PartsAt
<1>11. \A i \in 1..n : Plain(t[i])
  <2>1. DOMAIN t = 1..n
    BY <1>1, LenProperties
  <2>2. \A i \in 1..n : Has(t, t[i])
    BY <2>1 DEF Has, Range
  <2> QED
    BY <2>2
<1>12. PICK m \in Nat : m = 1 + n /\ Len(p) = m
  BY <1>10
<1>13. PICK from : IsTable(word, p, from) /\ (Like(word, p) <=> 1 \in from[1])
  BY <1>12, LikeTable
<1> DEFINE A == {a \in Nat : a <= n => \A i : i \in from[(n + 2) - a] <=> i = (v + 1) - a /\ SameEnd(word, v, t, n, a)}
<1>14. 0 \in A
  <2>1. (n + 2) - 0 \in 1..m + 1 /\ (n + 2) - 0 = m + 1
    BY <1>12
  <2>2. \A i : i \in from[m + 1] <=> i = v + 1
    BY <1>1, <1>12, <1>13, EntryPast
  <2>3. SameEnd(word, v, t, n, 0) /\ (v + 1) - 0 = v + 1
    BY DEF SameEnd
  <2> QED
    BY <2>1, <2>2, <2>3
<1>15. ASSUME NEW a \in Nat, a \in A PROVE a + 1 \in A
  <2> SUFFICES ASSUME a + 1 <= n, NEW i
               PROVE  i \in from[(n + 2) - (a + 1)] <=> i = (v + 1) - (a + 1) /\ SameEnd(word, v, t, n, a + 1)
    OBVIOUS
  <2>1. PICK j \in 1..m : j = (n + 1) - a /\ j = (n + 2) - (a + 1) /\ j + 1 = (n + 2) - a
    BY <1>12
  <2>2. n - a \in 1..n /\ j = 1 + (n - a)
    BY <2>1
  <2>3. p[j] = t[n - a] /\ Plain(p[j])
    BY <1>10, <1>11, <2>2
  <2>4. Plain(p[j])
    BY <2>3
  <2>5. \A h : h \in from[j] <=> h \in 1..v /\ word[h] = p[j] /\ h + 1 \in from[j + 1]
    BY <1>1, <1>12, <1>13, <2>4, EntryPlain
  <2>6. \A h : h \in from[j + 1] <=> h = (v + 1) - a /\ SameEnd(word, v, t, n, a)
    BY <1>15, <2>1
  <2>7. i \in from[j] <=> i \in 1..v /\ word[i] = t[n - a] /\ i + 1 = (v + 1) - a /\ SameEnd(word, v, t, n, a)
    BY <2>3, <2>5, <2>6
  <2>8. i \in 1..v /\ i + 1 = (v + 1) - a <=> i = v - a /\ v >= a + 1
    OBVIOUS
  <2>9. i \in from[j] <=> i = v - a /\ v >= a + 1 /\ word[v - a] = t[n - a] /\ SameEnd(word, v, t, n, a)
    BY <2>7, <2>8
  <2>10. (v + 1) - (a + 1) = v - a
    OBVIOUS
  <2>11. SameEnd(word, v, t, n, a + 1)
           <=> v >= a + 1 /\ word[v - a] = t[n - a] /\ SameEnd(word, v, t, n, a)
    BY SameEndStep
  <2>12. i \in from[j] <=> i = v - a /\ SameEnd(word, v, t, n, a + 1)
    BY <2>9, <2>11
  <2> QED
    BY <2>1, <2>10, <2>12
<1> HIDE DEF A
<1>16. n \in A
  BY <1>14, <1>15, NatSetInduction
<1>17. \A i : i \in from[2] <=> i = (v + 1) - n /\ SameEnd(word, v, t, n, n)
  <2>1. (n + 2) - n = 2
    OBVIOUS
  <2> QED
    BY <1>16, <2>1 DEF A
<1>18. 1 \in from[1] <=> \E h \in from[2] : 1 <= h
  <2>1. PICK j \in 1..m : j = 1 /\ j + 1 = 2
    BY <1>12
  <2>2. p[j] = "%"
    BY <1>10, <2>1
  <2>3. IsTable(word, p, from)
    BY <1>13
  <2>4. \A i : i \in from[j] <=> i \in 1..v + 1 /\ \E h \in from[j + 1] : i <= h
    BY <1>1, <1>12, <2>2, <2>3, EntryAny
  <2>5. 1 \in 1..v + 1
    OBVIOUS
  <2> QED
    BY <2>1, <2>4, <2>5
<1>19. 1 \in from[1] <=> SameEnd(word, v, t, n, n)
  <2>1. SameEnd(word, v, t, n, n) => 1 <= (v + 1) - n
    BY DEF SameEnd
  <2>2. PICK e : e = (v + 1) - n
    OBVIOUS
  <2>3. \A i : i \in from[2] <=> i = e /\ SameEnd(word, v, t, n, n)
    BY <1>17, <2>2
  <2>4. SameEnd(word, v, t, n, n) => 1 <= e
    BY <2>1, <2>2
  <2> QED
    BY <1>18, <2>3, <2>4
<1>20. EndsWith(word, t) <=> SameEnd(word, v, t, n, n)
  BY <1>1, EndsWithIs
<1> QED
  BY <1>4, <1>5, <1>8, <1>13, <1>19, <1>20

LEMMA CutFits ==
    ASSUME NEW S, NEW word \in Seq(S), NEW n \in Nat, Len(word) <= n PROVE CutTo(n, word) = word
<1>1. PICK l \in Nat : l = Len(word)
  BY LenProperties
<1>2. \E m \in {n, l} : \A k \in {n, l} : m <= k
  BY <1>1
<1>3. Min({n, l}) \in {n, l} /\ Min({n, l}) <= l /\ Min({n, l}) <= n
  BY <1>2 DEF Min
<1>4. Min({n, l}) = l
  BY <1>1, <1>3
<1>5. CutTo(n, word) = SubSeq(word, 1, Len(word))
  BY <1>1, <1>4, Zenon DEF CutTo
<1> QED
  BY <1>5, SubSeqFull

LEMMA LowerLower == \A c : Lower(Lower(c)) = Lower(c)
<1> TAKE c
<1>1. CASE c \in DOMAIN LowerOf
  <2>1. LowerOf[c] \notin DOMAIN LowerOf
    BY <1>1, LowerOfAssumption, Zenon
  <2> QED
    BY <1>1, <2>1 DEF Lower
<1>2. CASE c \notin DOMAIN LowerOf
  BY <1>2 DEF Lower
<1> QED
  BY <1>1, <1>2

LEMMA LowerWord ==
    ASSUME NEW S, \A c \in S : Lower(c) \in S, NEW word \in Seq(S)
    PROVE  /\ LowerCase(word) \in Seq(S) /\ Len(LowerCase(word)) = Len(word)
           /\ \A i \in 1..Len(word) : LowerCase(word)[i] = Lower(word[i])
<1>1. PICK n \in Nat : n = Len(word) /\ DOMAIN word = 1..n
  BY LenProperties
<1>2. \A i \in 1..n : word[i] \in S
  BY <1>1, ElementOfSeq
<1>3. PICK low : low = [i \in 1..n |-> Lower(word[i])]
  OBVIOUS
<1>4. low \in [1..n -> S]
  BY <1>2, <1>3
<1>5. LowerCase(word) = low
  BY <1>1, <1>3 DEF LowerCase
<1> QED
  BY <1>1, <1>3, <1>4, <1>5, SeqIs

\* A word in lower case has none but lower-case characters.
IsLower(word) == \A i \in DOMAIN word : Lower(word[i]) = word[i]

LEMMA LowerIs ==
    ASSUME NEW S, NEW word \in Seq(S), \A c \in S : Lower(c) \in S
    PROVE  IsLower(LowerCase(word)) /\ (IsLower(word) <=> LowerCase(word) = word)
<1>1. PICK n \in Nat : n = Len(word) /\ DOMAIN word = 1..n
  BY LenProperties
<1>2. PICK low \in Seq(S) : low = LowerCase(word)
  BY LowerWord
<1>3. Len(low) = n /\ DOMAIN low = 1..n /\ \A i \in 1..n : low[i] = Lower(word[i])
  BY <1>1, <1>2, LowerWord, LenProperties
<1>4. IsLower(low)
  BY <1>3, LowerLower DEF IsLower
<1>5. IsLower(word) <=> \A i \in 1..n : low[i] = word[i]
  BY <1>1, <1>3 DEF IsLower
<1>6. low = word <=> \A i \in 1..n : low[i] = word[i]
  BY <1>1, <1>3, SeqEqual
<1> QED
  BY <1>2, <1>4, <1>5, <1>6

\* No character gets a meaning in LIKE by being made lower case.
LEMMA LowerPlain ==
    ASSUME NEW word, \A c : Has(word, c) => Plain(c) PROVE \A c : Has(LowerCase(word), c) => Plain(c)
<1> SUFFICES ASSUME NEW c, Has(LowerCase(word), c) PROVE Plain(c)
  OBVIOUS
<1>1. PICK i \in DOMAIN word : c = Lower(word[i])
  BY DEF Has, Range, LowerCase
<1>2. Plain(word[i])
  BY DEF Has, Range
<1>3. CASE word[i] \in DOMAIN LowerOf
  <2>1. PICK d : d = LowerOf[word[i]] /\ d \notin {"_", "%", "["}
    BY <1>3, LowerOfAssumption, Zenon
  <2>2. Plain(d)
    BY <2>1, Zenon DEF Plain
  <2> QED
    BY <1>1, <1>3, <2>1, <2>2, Zenon DEF Lower
<1>4. CASE word[i] \notin DOMAIN LowerOf
  BY <1>1, <1>2, <1>4, Zenon DEF Lower
<1> QED
  BY <1>3, <1>4

\* Both sides find the same values at the end of a domain.
LEMMA FittingIsSame ==
    ASSUME NEW S, \A c \in S : Lower(c) \in S,
           NEW domain \in Seq(S), LowerCase(domain) = domain, NEW allowed \in SUBSET Seq(S),
           \A t \in allowed : \A c : Has(t, c) => Plain(c)
    PROVE  SqlTld(domain, allowed) = PyTld(domain, allowed)
<1>1. \A t \in allowed : EndsLike(domain, t) <=> EndsWith(LowerCase(domain), LowerCase(t))
  <2> TAKE t \in allowed
  <2>1. t \in Seq(S) /\ \A c : Has(t, c) => Plain(c)
    OBVIOUS
  <2>2. PICK low \in Seq(S) : low = LowerCase(t)
    BY <2>1, LowerWord
  <2>3. \A c : Has(low, c) => Plain(c)
    BY <2>1, <2>2, LowerPlain
  <2>4. Like(domain, <<"%">> \o low) <=> EndsWith(domain, low)
    BY <2>3, LikeEnd
  <2> QED
    BY <2>2, <2>4, Zenon DEF EndsLike
<1>2. {t \in allowed : EndsLike(domain, t)} = {t \in allowed : EndsWith(LowerCase(domain), LowerCase(t))}
  BY <1>1
<1> QED
  BY <1>2 DEF SqlTld, PyTld

\* The first n characters of a word.
IsFront(front, word, n) == Len(front) = n /\ \A i \in 1..n : front[i] = word[i]

LEMMA FrontIs ==
    ASSUME NEW S, NEW word \in Seq(S), NEW n \in 0..Len(word)
    PROVE  SubSeq(word, 1, n) \in Seq(S) /\ IsFront(SubSeq(word, 1, n), word, n)
<1>1. PICK v \in Nat : v = Len(word)
  BY LenProperties
<1>2. PICK m \in Nat : m = n /\ m <= v
  BY <1>1
<1>3. \A i \in 1..m : i \in 1..v
  BY <1>2
<1>4. \A i \in 1..m : word[i] \in S
  BY <1>1, <1>3, ElementOfSeq
<1>5. PICK front : front = SubSeq(word, 1, m)
  OBVIOUS
<1>6. /\ front \in Seq(S) /\ Len(front) = (IF 1 <= m THEN m - 1 + 1 ELSE 0)
      /\ \A i \in 1..m - 1 + 1 : front[i] = word[1 + i - 1]
  BY <1>4, <1>5, SubSeqProperties
<1>7. Len(front) = m
  BY <1>6
<1>8. \A i \in 1..m : i \in 1..m - 1 + 1 /\ 1 + i - 1 = i
  OBVIOUS
<1>9. \A i \in 1..m : front[i] = word[i]
  BY <1>6, <1>8
<1> QED
  BY <1>2, <1>5, <1>6, <1>7, <1>9 DEF IsFront

LEMMA FrontLower ==
    ASSUME NEW S, \A c \in S : Lower(c) \in S, NEW word \in Seq(S), LowerCase(word) = word,
           NEW n \in 0..Len(word)
    PROVE  LowerCase(SubSeq(word, 1, n)) = SubSeq(word, 1, n)
<1>1. PICK v \in Nat : v = Len(word) /\ DOMAIN word = 1..v
  BY LenProperties
<1>2. PICK m \in Nat : m = n /\ m <= v
  BY <1>1
<1>3. PICK front \in Seq(S) : front = SubSeq(word, 1, n) /\ IsFront(front, word, m)
  BY <1>2, FrontIs
<1>4. DOMAIN front = 1..m
  BY <1>3, LenProperties DEF IsFront
<1>5. \A i \in 1..v : Lower(word[i]) = word[i]
  <2>1. IsLower(word)
    BY LowerIs
  <2> QED
    BY <1>1, <2>1 DEF IsLower
<1>6. \A i \in 1..m : i \in 1..v
  BY <1>2
<1>7. IsLower(front)
  BY <1>3, <1>4, <1>5, <1>6 DEF IsFront, IsLower
<1>8. LowerCase(front) = front
  BY <1>7, LowerIs
<1> QED
  BY <1>3, <1>8

\* A front and an end are the whole word if they meet.
Meets(front, t, word, n, d) == front \o t = word <=> n = d

LEMMA FrontMeetsEnd ==
    ASSUME NEW S, NEW word \in Seq(S), NEW v \in Nat, v = Len(word), NEW t \in Seq(S), NEW l \in Nat, l = Len(t),
           EndsWith(word, t), NEW front \in Seq(S), NEW n \in 0..v, IsFront(front, word, n)
    PROVE  Meets(front, t, word, n, v - l)
<1>1. v >= l /\ \A i \in 1..l : word[(v - l) + i] = t[i]
  <2>1. SameEnd(word, v, t, l, l)
    BY EndsWithIs
  <2>2. \A i \in 1..l : (l - l) + i = i
    OBVIOUS
  <2> QED
    BY <2>1, <2>2 DEF SameEnd
<1>2. PICK m \in Nat : m = n /\ m <= v
  OBVIOUS
<1>3. Len(front) = m /\ \A i \in 1..m : front[i] = word[i]
  BY <1>2 DEF IsFront
<1>4. PICK both \in Seq(S) : both = front \o t /\ PartsAt(both, front, t, m)
  BY <1>3, ConcatPlaces
<1>5. /\ Len(both) = m + l /\ \A i \in 1..m : both[i] = front[i]
      /\ \A i \in 1..l : both[m + i] = t[i]
  BY <1>4 DEF PartsAt
<1>6. ASSUME both = word PROVE m = v - l
  <2>1. Len(both) = v
    BY <1>6
  <2>2. m + l = v
    BY <1>5, <2>1
  <2> QED
    BY <2>2
<1>7. ASSUME m = v - l PROVE both = word
  <2>1. Len(both) = v
    BY <1>1, <1>5, <1>7
  <2>2. ASSUME NEW i \in 1..v PROVE both[i] = word[i]
    <3>1. CASE i <= m
      <4>1. i \in 1..m
        BY <3>1
      <4> QED
        BY <1>3, <1>5, <4>1
    <3>2. CASE i > m
      <4>1. PICK k : k = i - m
        OBVIOUS
      <4>2. k \in 1..l /\ m + k = i /\ (v - l) + k = i
        BY <1>7, <3>2, <4>1
      <4> QED
        BY <1>1, <1>5, <4>2
    <3> QED
      BY <3>1, <3>2
  <2> QED
    BY <2>1, <2>2, SeqEqual
<1> QED
  BY <1>2, <1>4, <1>6, <1>7 DEF Meets

\* Two fronts are the same if they are of one length.
LEMMA FrontsSame ==
    ASSUME NEW S, NEW word \in Seq(S), NEW n \in 0..Len(word), NEW m \in 0..Len(word)
    PROVE  SubSeq(word, 1, n) = SubSeq(word, 1, m) <=> n = m
<1>1. IsFront(SubSeq(word, 1, n), word, n) /\ IsFront(SubSeq(word, 1, m), word, m)
  BY FrontIs
<1> QED
  BY <1>1 DEF IsFront

\* A domain that ends with a value and is another one has something before it.
LEMMA SomethingBefore ==
    ASSUME NEW S, NEW domain \in Seq(S), NEW t \in Seq(S), EndsWith(domain, t), t # domain
    PROVE  Len(domain) > Len(t)
<1>1. PICK v, n \in Nat : v = Len(domain) /\ n = Len(t)
  BY LenProperties
<1>2. v >= n /\ \A l \in 1..n : domain[(v - n) + l] = t[(n - n) + l]
  <2>1. SameEnd(domain, v, t, n, n)
    BY <1>1, EndsWithIs
  <2> QED
    BY <2>1 DEF SameEnd
<1>3. ASSUME v = n PROVE FALSE
  <2>1. \A l \in 1..n : (v - n) + l = l /\ (n - n) + l = l
    BY <1>3
  <2>2. \A l \in 1..n : domain[l] = t[l]
    BY <1>2, <2>1
  <2>3. domain = t
    BY <1>1, <1>3, <2>2, SeqEqual
  <2> QED
    BY <2>3
<1> QED
  BY <1>1, <1>2, <1>3

LEMMA DotWord ==
    ASSUME NEW S, "." \in S, "a" \in S
    PROVE  <<".", "a">> \in Seq(S) /\ <<".", "a">> # <<>> /\ \A c : Has(<<".", "a">>, c) => Plain(c)
<1>1. PICK x, y \in S : x = "." /\ y = "a"
  OBVIOUS
<1>2. PICK dot : dot = <<x, y>>
  OBVIOUS
<1>3. dot \in Seq(S) /\ DOMAIN dot = 1..2 /\ dot[1] = x /\ dot[2] = y /\ dot # <<>>
  BY <1>2
<1>4. \A i \in 1..2 : i = 1 \/ i = 2
  OBVIOUS
<1>5. \A c : Has(dot, c) => c = x \/ c = y
  BY <1>3, <1>4 DEF Has, Range
<1>6. Plain(x) /\ Plain(y)
  BY <1>1 DEF Plain
<1> QED
  BY <1>1, <1>2, <1>3, <1>5, <1>6

\* What each side makes of a user name, given a TLD that fits.
Takes(local, domain, tld) ==
    /\ SqlEqualsDomain(local, domain, tld) <=> local # <<>> /\ local \o LowerCase(tld) = domain
    /\ PyEqualsDomain(local, domain, tld) <=>
          IF tld = LowerCase(tld) /\ tld # domain
          THEN SqlEqualsDomain(local, domain, tld) ELSE local = domain

LEMMA WhatIsTaken ==
    ASSUME NEW S, \A c \in S : Lower(c) \in S, NEW domain \in Seq(S), LowerCase(domain) = domain,
           NEW tld \in Seq(S), tld # <<>>, EndsWith(domain, LowerCase(tld)),
           NEW n \in 0..Len(domain), NEW local, local = SubSeq(domain, 1, n)
    PROVE  Takes(local, domain, tld)
<1>1. PICK v, l \in Nat : v = Len(domain) /\ l = Len(tld)
  BY LenProperties
<1>2. PICK low \in Seq(S) : low = LowerCase(tld) /\ Len(low) = l
  BY <1>1, LowerWord
<1>3. EndsWith(domain, low)
  BY <1>2
<1>4. v >= l /\ After(domain, v - l) = low
  BY <1>1, <1>2, <1>3 DEF EndsWith
<1>5. local \in Seq(S) /\ IsFront(local, domain, n)
  BY FrontIs
<1>6. local # <<>> <=> n # 0
  <2>1. Len(local) = n
    BY <1>5 DEF IsFront
  <2>2. local = <<>> <=> Len(local) = 0
    BY <1>5, EmptySeq, SeqEqual
  <2> QED
    BY <2>1, <2>2
<1>7. PICK d : d = v - l
  OBVIOUS
<1>8. d \in 0..v /\ d \in 0..Len(domain) /\ (v > l <=> d # 0)
  BY <1>1, <1>4, <1>7
<1>9. PICK front : front = SubSeq(domain, 1, d)
  OBVIOUS
<1>10. front = local <=> d = n
  BY <1>8, <1>9, FrontsSame
<1>11. local \o low = domain <=> n = d
  <2>1. n \in 0..v
    BY <1>1
  <2>2. local \in Seq(S)
    BY <1>5
  <2>3. Meets(local, low, domain, n, v - l)
    BY <1>1, <1>2, <1>3, <1>5, <2>1, <2>2, FrontMeetsEnd
  <2> QED
    BY <1>7, <2>3 DEF Meets
<1>12. LowerCase(front) = front /\ LowerCase(local) = local
  BY <1>8, <1>9, FrontLower
<1>13. SqlEqualsDomain(local, domain, tld) <=> v > l /\ front = local
  BY <1>1, <1>7, <1>9, <1>12 DEF SqlEqualsDomain
<1>14. SqlEqualsDomain(local, domain, tld) <=> local # <<>> /\ local \o low = domain
  BY <1>6, <1>8, <1>10, <1>11, <1>13
<1>15. PyEqualsDomain(local, domain, tld) <=> BeforeTld(domain, tld) = local
  BY DEF PyEqualsDomain
<1>16. CASE tld = low /\ tld # domain
  <2>1. v > l
    BY <1>1, <1>3, <1>16, SomethingBefore
  <2>2. BeforeTld(domain, tld) = front
    BY <1>1, <1>3, <1>7, <1>9, <1>16, <2>1 DEF BeforeTld
  <2>3. PyEqualsDomain(local, domain, tld) <=> SqlEqualsDomain(local, domain, tld)
    BY <1>13, <1>15, <2>1, <2>2
  <2> QED
    BY <1>2, <1>14, <1>16, <2>3 DEF Takes
<1>17. CASE ~(tld = low /\ tld # domain)
  <2>1. ~(EndsWith(domain, tld) /\ v > l)
    <3>1. CASE tld = domain
      BY <1>1, <3>1
    <3>2. CASE tld # low
      <4>1. EndsWith(domain, tld) => After(domain, v - l) = tld
        BY <1>1 DEF EndsWith
      <4> QED
        BY <1>4, <3>2, <4>1
    <3> QED
      BY <1>17, <3>1, <3>2
  <2>2. BeforeTld(domain, tld) = domain
    BY <1>1, <2>1 DEF BeforeTld
  <2>3. PyEqualsDomain(local, domain, tld) <=> local = domain
    BY <1>15, <2>2
  <2> QED
    BY <1>2, <1>14, <1>17, <2>3 DEF Takes
<1> QED
  BY <1>16, <1>17

LEMMA DomainsFollow == ASSUME TwinsTypeOK PROVE DomainsAgree
<1>0. PICK domain, allowed, dot : domain = LowerCase(value) /\ dot = <<".", "a">> /\ allowed = {other, dot}
  OBVIOUS
<1> SUFFICES ASSUME subject = "domain", other # <<>>, \A c \in {"_", "%", "["} : ~Has(other, c)
             PROVE  /\ SqlTld(domain, allowed) = PyTld(domain, allowed)
                    /\ \A tld \in PyTld(domain, allowed) : \A n \in 0..Len(domain) :
                           Takes(SubSeq(domain, 1, n), domain, tld)
  BY <1>0, Zenon DEF DomainsAgree, Takes
<1>1. PICK S : S = Alphabet[subject] \cup {".", "a"} \cup {LowerOf[c] : c \in DOMAIN LowerOf}
  OBVIOUS
<1>2. \A c \in S : Lower(c) \in S
  BY <1>1, Zenon DEF Lower
<1>3. value \in Seq(S) /\ other \in Seq(S)
  <2>1. Alphabet[subject] \subseteq S
    BY <1>1
  <2> QED
    BY <2>1, SeqMonotonic DEF TwinsTypeOK
<1>4. domain \in Seq(S) /\ LowerCase(domain) = domain
  <2>1. domain \in Seq(S)
    BY <1>0, <1>2, <1>3, LowerWord
  <2>2. IsLower(domain)
    BY <1>0, <1>2, <1>3, LowerIs
  <2> QED
    BY <1>2, <2>1, <2>2, LowerIs
<1>5. dot \in Seq(S) /\ dot # <<>> /\ \A c : Has(dot, c) => Plain(c)
  <2>1. "." \in S /\ "a" \in S
    BY <1>1, Zenon
  <2> QED
    BY <1>0, <2>1, DotWord, Zenon
<1>6. \A c : Has(other, c) => Plain(c)
  BY Zenon DEF Plain
<1>7. /\ allowed \in SUBSET Seq(S)
      /\ \A t \in allowed : t # <<>> /\ \A c : Has(t, c) => Plain(c)
  BY <1>0, <1>3, <1>5, <1>6
<1>8. SqlTld(domain, allowed) = PyTld(domain, allowed)
  BY <1>2, <1>4, <1>7, FittingIsSame
<1>9. ASSUME NEW tld \in PyTld(domain, allowed), NEW n \in 0..Len(domain)
      PROVE  Takes(SubSeq(domain, 1, n), domain, tld)
  <2>1. tld \in allowed /\ EndsWith(domain, LowerCase(tld))
    BY <1>4 DEF PyTld, Longest
  <2>2. tld \in Seq(S) /\ tld # <<>>
    BY <1>7, <2>1
  <2> QED
    BY <1>2, <1>4, <2>1, <2>2, WhatIsTaken
<1> QED
  BY <1>8, <1>9

-----------------------------------------------------------------------------
(* Wildcards: what the pattern for LIKE is made of.                        *)

LEMMA ReplaceNone == ASSUME NEW d, NEW S, NEW by \in Seq(S) PROVE Replace(<<>>, d, by) = <<>>
<1>1. <<>> \in Seq(S)
  BY EmptySeq
<1> QED
  <2>1. Replace(<<>>, d, by) = Spread(ReplacePieces(S, d, by), <<>>)
    BY <1>1, ReplaceSpreads
  <2> QED
    BY <2>1, SpreadNone

LEMMA ReplaceType ==
    ASSUME NEW S, NEW word \in Seq(S), NEW d, NEW by \in Seq(S) PROVE Replace(word, d, by) \in Seq(S)
BY ReplaceSpreads, SpreadType

\* .. of one more character.
PieceOf(c, d, by) == IF c = d THEN by ELSE <<c>>

LEMMA PieceType == ASSUME NEW S, NEW c \in S, NEW d, NEW by \in Seq(S) PROVE PieceOf(c, d, by) \in Seq(S)
<1>1. <<c>> \in Seq(S)
  OBVIOUS
<1> QED
  BY <1>1 DEF PieceOf

LEMMA ReplaceAppend ==
    ASSUME NEW S, NEW word \in Seq(S), NEW c \in S, NEW d, NEW by \in Seq(S)
    PROVE  \A more : more = Append(word, c)
              => IsWhole(Replace(more, d, by), Replace(word, d, by), PieceOf(c, d, by))
<1> SUFFICES ASSUME NEW more, more = Append(word, c)
             PROVE  IsWhole(Replace(more, d, by), Replace(word, d, by), PieceOf(c, d, by))
  OBVIOUS
<1>1. PICK pieces : pieces = ReplacePieces(S, d, by)
  OBVIOUS
<1>2. more \in Seq(S)
  BY AppendProperties
<1>3. /\ pieces \in [S -> Seq(S)] /\ Replace(word, d, by) = Spread(pieces, word)
      /\ Replace(more, d, by) = Spread(pieces, more)
  <2>1. PICK m \in Seq(S) : m = more
    BY <1>2
  <2>2. Replace(m, d, by) = Spread(pieces, m)
    BY <1>1, ReplaceSpreads
  <2>3. pieces \in [S -> Seq(S)] /\ Replace(word, d, by) = Spread(pieces, word)
    BY <1>1, ReplaceSpreads
  <2> QED
    BY <2>1, <2>2, <2>3
<1>4. IsWhole(Spread(pieces, more), Spread(pieces, word), pieces[c])
  BY <1>3, SpreadAppend
<1>5. pieces[c] = PieceOf(c, d, by)
  BY <1>1 DEF ReplacePieces, PieceOf
<1> QED
  BY <1>3, <1>4, <1>5

Associates(s, t, u) == (s \o t) \o u = s \o (t \o u)

LEMMA AssociatesAlways ==
    ASSUME NEW S, NEW s \in Seq(S), NEW t \in Seq(S), NEW u \in Seq(S) PROVE Associates(s, t, u)
BY ConcatAssociative DEF Associates

LEMMA AppendToJoined ==
    ASSUME NEW S, NEW u \in Seq(S), NEW word \in Seq(S), NEW c \in S
    PROVE  u \o Append(word, c) = Append(u \o word, c)
<1>1. PICK one : one = <<c>>
  OBVIOUS
<1>2. one \in Seq(S)
  BY <1>1
<1>3. PICK uw \in Seq(S) : uw = u \o word
  BY ConcatProperties
<1>4. Append(word, c) = word \o one /\ Append(uw, c) = uw \o one
  BY <1>1, AppendIsConcat
<1>5. Associates(u, word, one)
  BY <1>2, AssociatesAlways
<1> QED
  BY <1>3, <1>4, <1>5 DEF Associates

\* It is done piece by piece.
IsJoined(u, word, d, by) == Replace(u \o word, d, by) = Replace(u, d, by) \o Replace(word, d, by)

LEMMA ReplaceConcatStep ==
    ASSUME NEW S, NEW d, NEW by \in Seq(S), NEW u \in Seq(S), NEW word \in Seq(S), NEW c \in S,
           IsJoined(u, word, d, by)
    PROVE  IsJoined(u, Append(word, c), d, by)
<1>1. PICK p \in Seq(S) : p = PieceOf(c, d, by)
  BY PieceType
<1>2. PICK uw \in Seq(S) : uw = u \o word
  BY ConcatProperties
<1>3. PICK ru, rw \in Seq(S) : ru = Replace(u, d, by) /\ rw = Replace(word, d, by)
  BY ReplaceType
<1>4. PICK wc : wc = Append(word, c) /\ Replace(wc, d, by) = rw \o p
  <2>1. PICK wc : wc = Append(word, c)
    OBVIOUS
  <2>2. IsWhole(Replace(wc, d, by), rw, p)
    BY <1>1, <1>3, <2>1, ReplaceAppend
  <2> QED
    BY <2>1, <2>2 DEF IsWhole
<1>5. PICK uwc : uwc = Append(uw, c) /\ Replace(uwc, d, by) = Replace(uw, d, by) \o p
  <2>1. PICK uwc : uwc = Append(uw, c)
    OBVIOUS
  <2>2. IsWhole(Replace(uwc, d, by), Replace(uw, d, by), p)
    BY <1>1, <2>1, ReplaceAppend
  <2> QED
    BY <2>1, <2>2 DEF IsWhole
<1>6. Replace(uw, d, by) = ru \o rw
  BY <1>2, <1>3 DEF IsJoined
<1>7. u \o wc = uwc
  BY <1>2, <1>4, <1>5, AppendToJoined
<1>8. (ru \o rw) \o p = ru \o (rw \o p)
  <2>1. Associates(ru, rw, p)
    BY AssociatesAlways
  <2> QED
    BY <2>1 DEF Associates
<1>9. Replace(u \o wc, d, by) = Replace(u, d, by) \o Replace(wc, d, by)
  BY <1>3, <1>4, <1>5, <1>6, <1>7, <1>8
<1> QED
  BY <1>4, <1>9 DEF IsJoined

LEMMA ReplaceConcat ==
    ASSUME NEW S, NEW d, NEW by \in Seq(S), NEW u \in Seq(S)
    PROVE  \A word \in Seq(S) : IsJoined(u, word, d, by)
<1> DEFINE A == {word \in Seq(S) : IsJoined(u, word, d, by)}
<1>1. <<>> \in A
  <2>1. Replace(u, d, by) \in Seq(S)
    BY ReplaceType
  <2>2. u \o <<>> = u /\ Replace(u, d, by) \o <<>> = Replace(u, d, by) /\ <<>> \in Seq(S)
    BY <2>1, ConcatEmptySeq, EmptySeq
  <2> QED
    BY <2>2, ReplaceNone DEF IsJoined
<1>2. ASSUME NEW word \in Seq(S), NEW c \in S, word \in A PROVE Append(word, c) \in A
  <2>1. Append(word, c) \in Seq(S)
    BY AppendProperties
  <2>2. IsJoined(u, word, d, by)
    BY <1>2
  <2>3. IsJoined(u, Append(word, c), d, by)
    BY <2>2, ReplaceConcatStep
  <2> QED
    BY <2>1, <2>3
<1> HIDE DEF A
<1>3. \A word \in Seq(S) : word \in A
  BY <1>1, <1>2, WordInduction
<1> QED
  BY <1>3 DEF A

\* It does nothing to a word that has not the character.
LEMMA ReplaceAbsent ==
    ASSUME NEW S, NEW d, NEW by \in Seq(S)
    PROVE  \A word \in Seq(S) : ~Has(word, d) => Replace(word, d, by) = word
<1> DEFINE A == {word \in Seq(S) : ~Has(word, d) => Replace(word, d, by) = word}
<1>1. <<>> \in A
  BY ReplaceNone, EmptySeq
<1>2. ASSUME NEW word \in Seq(S), NEW c \in S, word \in A PROVE Append(word, c) \in A
  <2>1. Append(word, c) \in Seq(S)
    BY AppendProperties
  <2>2. Replace(Append(word, c), d, by) = Replace(word, d, by) \o PieceOf(c, d, by)
    <3>1. PICK more : more = Append(word, c)
      OBVIOUS
    <3>2. IsWhole(Replace(more, d, by), Replace(word, d, by), PieceOf(c, d, by))
      BY <3>1, ReplaceAppend
    <3> QED
      BY <3>1, <3>2 DEF IsWhole
  <2>3. Has(Append(word, c), d) <=> Has(word, d) \/ d = c
    BY AppendHas
  <2>4. Append(word, c) = word \o <<c>>
    BY AppendIsConcat
  <2> QED
    BY <1>2, <2>1, <2>2, <2>3, <2>4 DEF PieceOf
<1> HIDE DEF A
<1>3. \A word \in Seq(S) : word \in A
  BY <1>1, <1>2, WordInduction
<1> QED
  BY <1>3 DEF A

LEMMA OneWord == ASSUME NEW S, NEW c \in S PROVE <<c>> \in Seq(S) /\ Len(<<c>>) = 1 /\ <<c>>[1] = c
OBVIOUS

LEMMA ThreeWord ==
    ASSUME NEW S, NEW a \in S, NEW b \in S, NEW c \in S, NEW w, w = <<a, b, c>>
    PROVE  w \in Seq(S) /\ Len(w) = 3 /\ w[1] = a /\ w[2] = b /\ w[3] = c
OBVIOUS

LEMMA HasOne == ASSUME NEW c, NEW d PROVE Has(<<c>>, d) <=> d = c
<1>0. PICK w : w = <<c>>
  OBVIOUS
<1>1. w = <<c>> /\ DOMAIN w = 1..1 /\ w[1] = c
  BY <1>0
<1>2. \A i \in 1..1 : i = 1
  OBVIOUS
<1>3. Has(w, d) <=> d = c
  BY <1>1, <1>2 DEF Has, Range
<1> QED
  BY <1>1, <1>3

LEMMA HasThree == ASSUME NEW a, NEW b, NEW c, NEW d PROVE Has(<<a, b, c>>, d) <=> d = a \/ d = b \/ d = c
<1>0. PICK w : w = <<a, b, c>>
  OBVIOUS
<1>1. w = <<a, b, c>> /\ DOMAIN w = 1..3 /\ w[1] = a /\ w[2] = b /\ w[3] = c
  BY <1>0
<1>2. \A i \in 1..3 : i = 1 \/ i = 2 \/ i = 3
  OBVIOUS
<1>3. 1 \in 1..3 /\ 2 \in 1..3 /\ 3 \in 1..3
  OBVIOUS
<1>4. Has(w, d) <=> d = a \/ d = b \/ d = c
  BY <1>1, <1>2, <1>3 DEF Has, Range
<1> QED
  BY <1>1, <1>4

LEMMA ReplaceOne ==
    ASSUME NEW S, NEW c \in S, NEW d, NEW by \in Seq(S) PROVE Replace(<<c>>, d, by) = PieceOf(c, d, by)
<1>1. PICK none \in Seq(S) : none = <<>>
  BY EmptySeq
<1>2. PICK p \in Seq(S) : p = PieceOf(c, d, by)
  BY PieceType
<1>3. PICK one : one = Append(none, c)
  OBVIOUS
<1>4. IsWhole(Replace(one, d, by), Replace(none, d, by), p)
  BY <1>2, <1>3, ReplaceAppend
<1>5. Replace(none, d, by) = <<>>
  BY <1>1, ReplaceNone
<1>6. <<>> \o p = p
  BY ConcatEmptySeq
<1>7. one = <<c>>
  BY <1>1, <1>3
<1> QED
  BY <1>2, <1>4, <1>5, <1>6, <1>7 DEF IsWhole

\* The characters of a pattern that are not taken for themselves, and the one that ends
\* a set.  (They have names here, so that the steps below do not depend on spelling.)
Marks(o, p, u, s, e) == o = "[" /\ p = "%" /\ u = "_" /\ s = "*" /\ e = "]"

AreMarks(o, p, u, s, e) ==
    /\ o # p /\ o # u /\ o # s /\ p # u /\ p # s /\ u # s
    /\ e # o /\ e # p /\ e # u /\ e # s
    /\ \A c : Plain(c) <=> c # o /\ c # p /\ c # u

LEMMA MarksDiffer == ASSUME NEW o, NEW p, NEW u, NEW s, NEW e, Marks(o, p, u, s, e) PROVE AreMarks(o, p, u, s, e)
<1>1. o # p /\ o # u /\ o # s /\ p # u /\ p # s /\ u # s
  BY Zenon DEF Marks
<1>2. e # o /\ e # p /\ e # u /\ e # s
  BY Zenon DEF Marks
<1>3. \A c : Plain(c) <=> c # o /\ c # p /\ c # u
  BY Zenon DEF Marks, Plain
<1> QED
  BY <1>1, <1>2, <1>3 DEF AreMarks

Escaped(word, o, p, u, s, e) ==
    Replace(Replace(Replace(Replace(word, o, <<o, o, e>>), p, <<o, p, e>>), u, <<o, u, e>>), s, <<p>>)

\* What a character of a keyword becomes.
LikePiece(c, o, p, u, s, e) ==
    IF c = o \/ c = p \/ c = u THEN <<o, c, e>> ELSE IF c = s THEN <<p>> ELSE <<c>>

LEMMA EscapedOne ==
    ASSUME NEW R, NEW o \in R, NEW p \in R, NEW u \in R, NEW s \in R, NEW e \in R,
           AreMarks(o, p, u, s, e), NEW c \in R
    PROVE  Escaped(<<c>>, o, p, u, s, e) = LikePiece(c, o, p, u, s, e)
<1>1. PICK oo, op, ou, os : oo = <<o, o, e>> /\ op = <<o, p, e>> /\ ou = <<o, u, e>> /\ os = <<p>>
  OBVIOUS
<1>2. oo \in Seq(R) /\ op \in Seq(R) /\ ou \in Seq(R) /\ os \in Seq(R)
  BY <1>1, ThreeWord, OneWord
<1>3. PICK one \in Seq(R) : one = <<c>>
  BY OneWord
<1>4. \A d : \A by \in Seq(R) : Replace(one, d, by) = IF c = d THEN by ELSE one
  BY <1>3, ReplaceOne DEF PieceOf
<1>5. \A d : \A by, w \in Seq(R) : ~Has(w, d) => Replace(w, d, by) = w
  BY ReplaceAbsent
<1>6. /\ \A d : Has(oo, d) <=> d = o \/ d = e
      /\ \A d : Has(op, d) <=> d = o \/ d = p \/ d = e
      /\ \A d : Has(ou, d) <=> d = o \/ d = u \/ d = e
  BY <1>1, HasThree
<1>7. Escaped(one, o, p, u, s, e) = Replace(Replace(Replace(Replace(one, o, oo), p, op), u, ou), s, os)
  BY <1>1 DEF Escaped
<1>8. /\ o # p /\ o # u /\ o # s /\ p # u /\ p # s /\ u # s
      /\ e # o /\ e # p /\ e # u /\ e # s
  BY DEF AreMarks
<1>9. CASE c = o
  <2>1. Replace(one, o, oo) = oo
    BY <1>2, <1>4, <1>9
  <2>2. Replace(oo, p, op) = oo /\ Replace(oo, u, ou) = oo /\ Replace(oo, s, os) = oo
    BY <1>2, <1>5, <1>6, <1>8
  <2> QED
    BY <1>1, <1>3, <1>7, <1>9, <2>1, <2>2 DEF LikePiece
<1>10. CASE c = p
  <2>1. Replace(one, o, oo) = one /\ Replace(one, p, op) = op
    BY <1>2, <1>4, <1>8, <1>10
  <2>2. Replace(op, u, ou) = op /\ Replace(op, s, os) = op
    BY <1>2, <1>5, <1>6, <1>8
  <2> QED
    BY <1>1, <1>3, <1>7, <1>10, <2>1, <2>2 DEF LikePiece
<1>11. CASE c = u
  <2>1. Replace(one, o, oo) = one /\ Replace(one, p, op) = one /\ Replace(one, u, ou) = ou
    BY <1>2, <1>4, <1>8, <1>11
  <2>2. Replace(ou, s, os) = ou
    BY <1>2, <1>5, <1>6, <1>8
  <2> QED
    BY <1>1, <1>3, <1>7, <1>11, <2>1, <2>2 DEF LikePiece
<1>12. CASE c # o /\ c # p /\ c # u
  <2>1. Replace(one, o, oo) = one /\ Replace(one, p, op) = one /\ Replace(one, u, ou) = one
    BY <1>2, <1>4, <1>12
  <2>2. Replace(one, s, os) = IF c = s THEN os ELSE one
    BY <1>2, <1>4
  <2> QED
    BY <1>1, <1>3, <1>7, <1>12, <2>1, <2>2 DEF LikePiece
<1> QED
  BY <1>9, <1>10, <1>11, <1>12

LEMMA EscapedAppend ==
    ASSUME NEW R, NEW o \in R, NEW p \in R, NEW u \in R, NEW s \in R, NEW e \in R,
           AreMarks(o, p, u, s, e), NEW word \in Seq(R), NEW c \in R
    PROVE  /\ Escaped(word, o, p, u, s, e) \in Seq(R)
           /\ LikePiece(c, o, p, u, s, e) \in Seq(R)
           /\ \A more : more = Append(word, c) =>
                 IsWhole(Escaped(more, o, p, u, s, e), Escaped(word, o, p, u, s, e), LikePiece(c, o, p, u, s, e))
<1>1. PICK oo, op, ou, os : oo = <<o, o, e>> /\ op = <<o, p, e>> /\ ou = <<o, u, e>> /\ os = <<p>>
  OBVIOUS
<1>2. oo \in Seq(R) /\ op \in Seq(R) /\ ou \in Seq(R) /\ os \in Seq(R)
  BY <1>1, ThreeWord, OneWord
<1>3. \A w : Escaped(w, o, p, u, s, e) = Replace(Replace(Replace(Replace(w, o, oo), p, op), u, ou), s, os)
  BY <1>1 DEF Escaped
<1>4. PICK one \in Seq(R) : one = <<c>>
  BY OneWord
<1>5. PICK w1, p1 \in Seq(R) : w1 = Replace(word, o, oo) /\ p1 = Replace(one, o, oo)
  BY <1>2, ReplaceType
<1>6. PICK w2, p2 \in Seq(R) : w2 = Replace(w1, p, op) /\ p2 = Replace(p1, p, op)
  BY <1>2, ReplaceType
<1>7. PICK w3, p3 \in Seq(R) : w3 = Replace(w2, u, ou) /\ p3 = Replace(p2, u, ou)
  BY <1>2, ReplaceType
<1>8. PICK w4, p4 \in Seq(R) : w4 = Replace(w3, s, os) /\ p4 = Replace(p3, s, os)
  BY <1>2, ReplaceType
<1>9. Escaped(word, o, p, u, s, e) = w4 /\ Escaped(one, o, p, u, s, e) = p4
  BY <1>3, <1>5, <1>6, <1>7, <1>8
<1>10. LikePiece(c, o, p, u, s, e) = p4
  BY <1>4, <1>9, EscapedOne
<1>11. /\ IsJoined(word, one, o, oo) /\ IsJoined(w1, p1, p, op)
       /\ IsJoined(w2, p2, u, ou) /\ IsJoined(w3, p3, s, os)
  BY <1>2, ReplaceConcat
<1>12. Escaped(word \o one, o, p, u, s, e) = w4 \o p4
  BY <1>3, <1>5, <1>6, <1>7, <1>8, <1>11 DEF IsJoined
<1>13. Append(word, c) = word \o one
  BY <1>4, AppendIsConcat
<1> QED
  BY <1>9, <1>10, <1>12, <1>13 DEF IsWhole

LEMMA EscapedNone ==
    ASSUME NEW R, NEW o \in R, NEW p \in R, NEW u \in R, NEW s \in R, NEW e \in R
    PROVE  Escaped(<<>>, o, p, u, s, e) = <<>>
<1>1. PICK oo, op, ou, os : oo = <<o, o, e>> /\ op = <<o, p, e>> /\ ou = <<o, u, e>> /\ os = <<p>>
  OBVIOUS
<1>2. oo \in Seq(R) /\ op \in Seq(R) /\ ou \in Seq(R) /\ os \in Seq(R)
  BY <1>1, ThreeWord, OneWord
<1>3. /\ Replace(<<>>, o, oo) = <<>> /\ Replace(<<>>, p, op) = <<>>
      /\ Replace(<<>>, u, ou) = <<>> /\ Replace(<<>>, s, os) = <<>>
  BY <1>2, ReplaceNone
<1>4. Escaped(<<>>, o, p, u, s, e) = Replace(Replace(Replace(Replace(<<>>, o, oo), p, op), u, ou), s, os)
  BY <1>1 DEF Escaped
<1> QED
  BY <1>3, <1>4

-----------------------------------------------------------------------------
(* Wildcards: what fits into the pattern's variable is not cut.            *)

\* A word gets no shorter when characters are replaced by words that are not empty.
Grows(word, d, by) == Len(Replace(word, d, by)) >= Len(word)

LEMMA ReplaceGrows ==
    ASSUME NEW S, NEW d, NEW by \in Seq(S), Len(by) >= 1 PROVE \A word \in Seq(S) : Grows(word, d, by)
<1> DEFINE A == {word \in Seq(S) : Grows(word, d, by)}
<1>1. <<>> \in A
  <2>1. Replace(<<>>, d, by) = <<>> /\ <<>> \in Seq(S) /\ Len(<<>>) = 0
    BY ReplaceNone, EmptySeq
  <2> QED
    BY <2>1 DEF Grows
<1>2. ASSUME NEW word \in Seq(S), NEW c \in S, word \in A PROVE Append(word, c) \in A
  <2>1. PICK more \in Seq(S) : more = Append(word, c) /\ Len(more) = Len(word) + 1
    BY AppendProperties
  <2>2. PICK piece \in Seq(S) : piece = PieceOf(c, d, by)
    BY PieceType
  <2>3. Len(piece) >= 1
    BY <2>2 DEF PieceOf
  <2>4. PICK w \in Seq(S) : w = Replace(word, d, by)
    BY ReplaceType
  <2>5. Replace(more, d, by) = w \o piece
    <3>1. IsWhole(Replace(more, d, by), w, piece)
      BY <2>1, <2>2, <2>4, ReplaceAppend
    <3> QED
      BY <3>1 DEF IsWhole
  <2>6. PICK k, l, m \in Nat : k = Len(w) /\ l = Len(piece) /\ m = Len(word)
    BY LenProperties
  <2>7. Len(w \o piece) = k + l
    BY <2>6, ConcatProperties
  <2>8. k >= m
    BY <1>2, <2>4, <2>6 DEF Grows
  <2>9. Len(Replace(more, d, by)) >= Len(more)
    BY <2>1, <2>3, <2>5, <2>6, <2>7, <2>8
  <2> QED
    BY <2>1, <2>9 DEF Grows
<1> HIDE DEF A
<1>3. \A word \in Seq(S) : word \in A
  BY <1>1, <1>2, WordInduction
<1> QED
  BY <1>3 DEF A

\* The characters with a meaning in LIKE become three, all others stay one.
IsLong(escaped, key, chars) == Len(escaped) = Len(key) + 2 * (Len(key) - Len(Without(chars, key)))

LEMMA EscapedIsLong ==
    ASSUME NEW R, NEW o \in R, NEW p \in R, NEW u \in R, NEW s \in R, NEW e \in R,
           AreMarks(o, p, u, s, e), NEW chars, chars = {o, p, u}
    PROVE  \A key \in Seq(R) : IsLong(Escaped(key, o, p, u, s, e), key, chars)
<1> DEFINE Esc(w) == Escaped(w, o, p, u, s, e)
           A == {key \in Seq(R) : IsLong(Esc(key), key, chars)}
<1>1. <<>> \in A
  <2>1. PICK none \in Seq(R) : none = <<>> /\ Len(none) = 0
    BY EmptySeq
  <2>2. Without(chars, none) = none
    BY <2>1, WithoutNone
  <2>3. Esc(none) = none
    BY <2>1, EscapedNone
  <2> QED
    BY <2>1, <2>2, <2>3 DEF IsLong
<1>2. ASSUME NEW key \in Seq(R), NEW c \in R, key \in A PROVE Append(key, c) \in A
  <2>1. PICK more \in Seq(R) : more = Append(key, c) /\ Len(more) = Len(key) + 1
    BY AppendProperties
  <2>2. PICK w, piece \in Seq(R) : w = Esc(key) /\ piece = LikePiece(c, o, p, u, s, e)
    BY EscapedAppend
  <2>3. IsWhole(Esc(more), w, piece)
    BY <2>1, <2>2, EscapedAppend
  <2>4. Len(piece) = IF c \in chars THEN 3 ELSE 1
    BY <2>2, ThreeWord, OneWord DEF LikePiece
  <2>5. PICK rest \in Seq(R) : rest = Without(chars, key)
    BY WithoutAppend
  <2>6. Without(chars, more) = IF c \in chars THEN rest ELSE Append(rest, c)
    <3>1. Without(chars, Append(key, c))
            = IF c \in chars THEN Without(chars, key) ELSE Append(Without(chars, key), c)
      BY WithoutAppend
    <3> QED
      BY <2>1, <2>5, <3>1, Zenon
  <2>7. PICK k, l, m, r \in Nat : k = Len(w) /\ l = Len(piece) /\ m = Len(key) /\ r = Len(rest)
    BY LenProperties
  <2>8. Len(Append(rest, c)) = r + 1
    BY <2>7, AppendProperties
  <2>9. Len(Without(chars, more)) = IF c \in chars THEN r ELSE r + 1
    BY <2>6, <2>7, <2>8
  <2>10. Len(w \o piece) = k + l
    BY <2>7, ConcatProperties
  <2>11. Len(Esc(more)) = k + l
    BY <2>3, <2>10 DEF IsWhole
  <2>12. k = m + 2 * (m - r)
    <3>1. IsLong(w, key, chars)
      BY <1>2, <2>2
    <3> QED
      BY <2>5, <2>7, <3>1 DEF IsLong
  <2>13. k + l = (m + 1) + 2 * ((m + 1) - (IF c \in chars THEN r ELSE r + 1))
    <3>1. CASE c \in chars
      <4>1. l = 3
        BY <2>4, <2>7, <3>1
      <4> QED
        BY <2>12, <3>1, <4>1
    <3>2. CASE c \notin chars
      <4>1. l = 1
        BY <2>4, <2>7, <3>2
      <4> QED
        BY <2>12, <3>2, <4>1
    <3> QED
      BY <3>1, <3>2
  <2>14. IsLong(Esc(more), more, chars)
    BY <2>1, <2>7, <2>9, <2>11, <2>13 DEF IsLong
  <2> QED
    BY <2>1, <2>14
<1> HIDE DEF A
<1>3. \A key \in Seq(R) : key \in A
  BY <1>1, <1>2, WordInduction
<1> QED
  BY <1>3 DEF A

\* A keyword that fits when it is escaped is escaped whole.
LEMMA EscapedIs ==
    ASSUME NEW R, NEW o \in R, NEW p \in R, NEW u \in R, NEW s \in R, NEW e \in R,
           Marks(o, p, u, s, e), NEW key \in Seq(R), LikeLength(key) <= PatternLimit
    PROVE  WildcardToLike(key) = Escaped(key, o, p, u, s, e)
<1>1. PICK limit \in Nat : limit = PatternLimit
  BY LimitsAssumption
<1>2. PICK oo, op, ou, os : oo = <<o, o, e>> /\ op = <<o, p, e>> /\ ou = <<o, u, e>> /\ os = <<p>>
  OBVIOUS
<1>3. oo \in Seq(R) /\ op \in Seq(R) /\ ou \in Seq(R) /\ os \in Seq(R)
  BY <1>2, ThreeWord, OneWord
<1>4. Len(oo) >= 1 /\ Len(op) >= 1 /\ Len(ou) >= 1 /\ Len(os) >= 1
  BY <1>2, ThreeWord, OneWord
<1>5. PICK w1 \in Seq(R) : w1 = Replace(key, o, oo)
  BY <1>3, ReplaceType
<1>6. PICK w2 \in Seq(R) : w2 = Replace(w1, p, op)
  BY <1>3, ReplaceType
<1>7. PICK w3 \in Seq(R) : w3 = Replace(w2, u, ou)
  BY <1>3, ReplaceType
<1>8. PICK w4 \in Seq(R) : w4 = Replace(w3, s, os)
  BY <1>3, ReplaceType
<1>9. Escaped(key, o, p, u, s, e) = w4
  BY <1>2, <1>5, <1>6, <1>7, <1>8 DEF Escaped
<1>10. PICK chars : chars = {o, p, u}
  OBVIOUS
<1>11. LikeLength(key) = Len(key) + 2 * (Len(key) - Len(Without(chars, key)))
  BY <1>10, Zenon DEF Marks, LikeLength
<1>12. Len(w4) = LikeLength(key)
  <2>1. IsLong(w4, key, chars)
    BY <1>9, <1>10, MarksDiffer, EscapedIsLong
  <2> QED
    BY <1>11, <2>1 DEF IsLong
<1>13. PICK n, n1, n2, n3, n4 \in Nat :
          n = Len(key) /\ n1 = Len(w1) /\ n2 = Len(w2) /\ n3 = Len(w3) /\ n4 = Len(w4)
  BY LenProperties
<1>14. n1 >= n /\ n2 >= n1 /\ n3 >= n2 /\ n4 >= n3
  <2>1. Grows(key, o, oo) /\ Grows(w1, p, op) /\ Grows(w2, u, ou) /\ Grows(w3, s, os)
    BY <1>3, <1>4, ReplaceGrows
  <2> QED
    BY <1>5, <1>6, <1>7, <1>8, <1>13, <2>1 DEF Grows
<1>15. n4 <= limit
  BY <1>1, <1>12, <1>13
<1>16. n <= limit /\ n1 <= limit /\ n2 <= limit /\ n3 <= limit
  BY <1>14, <1>15
<1>17. /\ Assigned(key) = key /\ Assigned(w1) = w1 /\ Assigned(w2) = w2
       /\ Assigned(w3) = w3 /\ Assigned(w4) = w4
  BY <1>1, <1>13, <1>15, <1>16, CutFits DEF Assigned
<1>18. WildcardToLike(key) =
          Assigned(Replace(Assigned(Replace(Assigned(Replace(Assigned(Replace(Assigned(key),
              o, oo)), p, op)), u, ou)), s, os))
  BY <1>2, Zenon DEF Marks, WildcardToLike, Bracketed
<1> QED
  BY <1>5, <1>6, <1>7, <1>8, <1>9, <1>17, <1>18, Zenon

-----------------------------------------------------------------------------
(* Wildcards: what LIKE makes of that pattern.                             *)

LEMMA TableType ==
    ASSUME NEW word, NEW pattern, NEW v \in Nat, v = Len(word), NEW n \in Nat, n = Len(pattern),
           NEW from, IsTable(word, pattern, from), NEW j \in 1..n + 1
    PROVE  from[j] \subseteq 1..v + 1
<1>1. from[j] = LikeFrom(word, pattern, from, j)
  BY TableAt
<1>2. 1..v \subseteq 1..v + 1 /\ v + 1 \in 1..v + 1
  OBVIOUS
<1>3. LikeFrom(word, pattern, from, j) \subseteq 1..v + 1
  BY <1>2, Zenon DEF LikeFrom
<1> QED
  BY <1>1, <1>3

\* A set of one character.
LEMMA EntryOfOne ==
    ASSUME NEW word, NEW pattern, NEW v \in Nat, v = Len(word), NEW n \in Nat, n = Len(pattern),
           NEW from, IsTable(word, pattern, from), NEW j \in 1..n, j + 2 <= n,
           pattern[j] = "[", pattern[j + 1] # "]", pattern[j + 2] = "]"
    PROVE  \A i : i \in from[j] <=> i \in 1..v /\ word[i] = pattern[j + 1] /\ i + 1 \in from[j + 3]
<1> DEFINE Ends(i, k) == /\ pattern[k] = "]" /\ \A l \in j + 1..k - 1 : pattern[l] # "]"
                         /\ \E l \in j + 1..k - 1 : word[i] = pattern[l]
                         /\ i + 1 \in from[k + 1]
<1>1. j \in 1..n + 1 /\ ~(j > n)
  OBVIOUS
<1>2. from[j] = LikeFrom(word, pattern, from, j)
  BY <1>1, TableAt
<1>3. from[j] = {i \in 1..v : \E k \in j + 1..n : Ends(i, k)}
  BY <1>1, <1>2 DEF LikeFrom
<1>4. ASSUME NEW i \in 1..v, NEW k \in j + 1..n, Ends(i, k)
      PROVE  word[i] = pattern[j + 1] /\ i + 1 \in from[j + 3]
  <2>1. k # j + 1
    BY <1>4
  <2>2. ~(k > j + 2)
    <3>1. k > j + 2 => j + 2 \in j + 1..k - 1
      OBVIOUS
    <3> QED
      BY <1>4, <3>1
  <2>3. k = j + 2
    BY <2>1, <2>2
  <2>4. \A l \in j + 1..k - 1 : l = j + 1
    BY <2>3
  <2>5. k + 1 = j + 3
    BY <2>3
  <2> QED
    BY <1>4, <2>4, <2>5
<1>5. ASSUME NEW i \in 1..v, word[i] = pattern[j + 1], i + 1 \in from[j + 3]
      PROVE  \E k \in j + 1..n : Ends(i, k)
  <2>1. PICK k \in j + 1..n : k = j + 2 /\ k + 1 = j + 3 /\ k - 1 = j + 1
    OBVIOUS
  <2>2. \A l : l \in j + 1..k - 1 <=> l = j + 1
    BY <2>1
  <2>3. Ends(i, k)
    BY <1>5, <2>1, <2>2
  <2> QED
    BY <2>3
<1> HIDE DEF Ends
<1> QED
  BY <1>3, <1>4, <1>5

\* A character of a keyword at place i of a value leads to place k.
Reads(c, s, word, v, i, k) ==
    IF c = s THEN i \in 1..v + 1 /\ i <= k ELSE i \in 1..v /\ word[i] = c /\ k = i + 1

\* A word has another one after its m-th character.
HasAfter(p, m, piece) == m + Len(piece) <= Len(p) /\ \A h \in 1..Len(piece) : p[m + h] = piece[h]

\* The places from which a character leads into a set of places.
LeadsInto(c, s, word, v, T, U) == \A j : j \in T <=> \E k \in U : Reads(c, s, word, v, j, k)

LEMMA PieceEntry ==
    ASSUME NEW word, NEW pattern, NEW v \in Nat, v = Len(word), NEW n \in Nat, n = Len(pattern),
           NEW from, IsTable(word, pattern, from),
           NEW o, NEW p, NEW u, NEW s, NEW e, Marks(o, p, u, s, e), AreMarks(o, p, u, s, e),
           NEW c, NEW piece, piece = LikePiece(c, o, p, u, s, e), NEW l \in Nat, l = Len(piece),
           NEW m \in Nat, HasAfter(pattern, m, piece)
    PROVE  LeadsInto(c, s, word, v, from[m + 1], from[(m + l) + 1])
<1> SUFFICES \A i : i \in from[m + 1] <=> \E k \in from[(m + l) + 1] : Reads(c, s, word, v, i, k)
  BY DEF LeadsInto
<1>0. m + l <= n /\ \A h \in 1..l : pattern[m + h] = piece[h]
  BY DEF HasAfter
<1>1. CASE c = o \/ c = p \/ c = u
  <2>1. piece = <<o, c, e>>
    BY <1>1 DEF LikePiece
  <2>2. l = 3 /\ piece[1] = o /\ piece[2] = c /\ piece[3] = e
    BY <2>1
  <2>3. 1 \in 1..l /\ 2 \in 1..l /\ 3 \in 1..l
    BY <2>2
  <2>4. pattern[m + 1] = o /\ pattern[m + 2] = c /\ pattern[m + 3] = e
    BY <1>0, <2>2, <2>3
  <2>5. PICK j \in 1..n : /\ j = m + 1 /\ j + 1 = m + 2 /\ j + 2 = m + 3 /\ j + 2 <= n
                          /\ j + 3 = (m + l) + 1
    BY <1>0, <2>2
  <2>6. c # e /\ c # s
    BY <1>1 DEF AreMarks
  <2>7. pattern[j] = "[" /\ pattern[j + 1] # "]" /\ pattern[j + 2] = "]"
    <3>1. o = "[" /\ e = "]"
      BY Zenon DEF Marks
    <3>2. pattern[j] = o /\ pattern[j + 1] # e /\ pattern[j + 2] = e
      BY <2>4, <2>5, <2>6
    <3> QED
      BY <3>1, <3>2, Zenon
  <2>8. \A i : i \in from[j] <=> i \in 1..v /\ word[i] = pattern[j + 1] /\ i + 1 \in from[j + 3]
    <3>1. j + 2 <= n
      BY <2>5
    <3> QED
      BY <2>7, <3>1, EntryOfOne
  <2> QED
    BY <2>4, <2>5, <2>6, <2>8 DEF Reads
<1>2. CASE c = s
  <2>1. piece = <<p>>
    BY <1>2 DEF LikePiece, AreMarks
  <2>2. l = 1 /\ piece[1] = p
    BY <2>1
  <2>3. PICK j \in 1..n : j = m + 1 /\ j + 1 = (m + l) + 1
    BY <1>0, <2>2
  <2>4. pattern[j] = "%"
    <3>1. p = "%"
      BY Zenon DEF Marks
    <3>2. pattern[j] = p
      BY <1>0, <2>2, <2>3
    <3> QED
      BY <3>1, <3>2, Zenon
  <2>5. \A i : i \in from[j] <=> i \in 1..v + 1 /\ \E k \in from[j + 1] : i <= k
    BY <2>4, EntryAny
  <2> QED
    BY <1>2, <2>3, <2>5 DEF Reads
<1>3. CASE c # o /\ c # p /\ c # u /\ c # s
  <2>1. piece = <<c>>
    BY <1>3 DEF LikePiece
  <2>2. l = 1 /\ piece[1] = c
    BY <2>1
  <2>3. PICK j \in 1..n : j = m + 1 /\ j + 1 = (m + l) + 1
    BY <1>0, <2>2
  <2>4. pattern[j] = c /\ Plain(c)
    BY <1>0, <1>3, <2>2, <2>3 DEF AreMarks
  <2>5. \A i : i \in from[j] <=> i \in 1..v /\ word[i] = c /\ i + 1 \in from[j + 1]
    BY <2>4, EntryPlain
  <2> QED
    BY <1>3, <2>3, <2>5 DEF Reads
<1> QED
  BY <1>1, <1>2, <1>3

\* Where in a value the m characters of a keyword are read, one after the other.
Aligned(at, word, v, key, m, s) ==
    /\ at \in [1..m + 1 -> 1..v + 1]
    /\ \A k \in 1..m : Reads(key[k], s, word, v, at[k], at[k + 1])

\* They are read from place i on, up to a place of T.
ReadsTo(word, v, key, m, s, i, T) == \E at : Aligned(at, word, v, key, m, s) /\ at[1] = i /\ at[m + 1] \in T

LEMMA ReadsNone ==
    ASSUME NEW word, NEW v \in Nat, NEW key, NEW s, NEW T \in SUBSET (1..v + 1), NEW i
    PROVE  ReadsTo(word, v, key, 0, s, i, T) <=> i \in T
<1>1. ASSUME i \in T PROVE ReadsTo(word, v, key, 0, s, i, T)
  <2>1. PICK at : at = [k \in 1..0 + 1 |-> i]
    OBVIOUS
  <2>2. at \in [1..0 + 1 -> 1..v + 1] /\ at[1] = i /\ at[0 + 1] = i
    BY <1>1, <2>1
  <2> QED
    BY <1>1, <2>2 DEF ReadsTo, Aligned
<1>2. ASSUME ReadsTo(word, v, key, 0, s, i, T) PROVE i \in T
  BY <1>2 DEF ReadsTo
<1> QED
  BY <1>1, <1>2

LEMMA ReadsMore ==
    ASSUME NEW word, NEW v \in Nat, NEW s, NEW R, NEW key \in Seq(R), NEW m \in Nat, m = Len(key), NEW c \in R,
           NEW more, more = Append(key, c), NEW T, NEW U \in SUBSET (1..v + 1),
           LeadsInto(c, s, word, v, T, U), NEW i
    PROVE  ReadsTo(word, v, key, m, s, i, T) <=> ReadsTo(word, v, more, m + 1, s, i, U)
<1>1. more[m + 1] = c /\ \A k \in 1..m : more[k] = key[k]
  BY AppendProperties
<1>2. ASSUME NEW at, Aligned(at, word, v, key, m, s), at[1] = i, at[m + 1] \in T
      PROVE  ReadsTo(word, v, more, m + 1, s, i, U)
  <2>1. PICK b \in U : Reads(c, s, word, v, at[m + 1], b)
    BY <1>2 DEF LeadsInto
  <2>2. PICK then : then = [k \in 1..(m + 1) + 1 |-> IF k <= m + 1 THEN at[k] ELSE b]
    OBVIOUS
  <2>3. /\ at \in [1..m + 1 -> 1..v + 1]
        /\ \A k \in 1..m : Reads(key[k], s, word, v, at[k], at[k + 1])
    BY <1>2 DEF Aligned
  <2>4. then \in [1..(m + 1) + 1 -> 1..v + 1]
    <3>1. \A k \in 1..(m + 1) + 1 : k <= m + 1 => k \in 1..m + 1
      OBVIOUS
    <3> QED
      BY <2>2, <2>3, <3>1
  <2>5. \A k \in 1..m + 1 : then[k] = at[k]
    BY <2>2
  <2>6. then[(m + 1) + 1] = b
    BY <2>2
  <2>7. ASSUME NEW k \in 1..m + 1 PROVE Reads(more[k], s, word, v, then[k], then[k + 1])
    <3>1. CASE k \in 1..m
      <4>1. k + 1 \in 1..m + 1
        BY <3>1
      <4> QED
        BY <1>1, <2>3, <2>5, <3>1, <4>1
    <3>2. CASE k = m + 1
      BY <1>1, <2>1, <2>5, <2>6, <3>2
    <3>3. k \in 1..m \/ k = m + 1
      OBVIOUS
    <3> QED
      BY <3>1, <3>2, <3>3
  <2>8. 1 \in 1..m + 1
    OBVIOUS
  <2>9. Aligned(then, word, v, more, m + 1, s)
    BY <2>4, <2>7 DEF Aligned
  <2>10. then[1] = i /\ then[(m + 1) + 1] \in U
    BY <1>2, <2>5, <2>6, <2>8
  <2> QED
    BY <2>9, <2>10 DEF ReadsTo
<1>3. ASSUME NEW at, Aligned(at, word, v, more, m + 1, s), at[1] = i, at[(m + 1) + 1] \in U
      PROVE  ReadsTo(word, v, key, m, s, i, T)
  <2>1. PICK then : then = [k \in 1..m + 1 |-> at[k]]
    OBVIOUS
  <2>2. /\ at \in [1..(m + 1) + 1 -> 1..v + 1]
        /\ \A k \in 1..m + 1 : Reads(more[k], s, word, v, at[k], at[k + 1])
    BY <1>3 DEF Aligned
  <2>3. then \in [1..m + 1 -> 1..v + 1]
    <3>1. \A k \in 1..m + 1 : k \in 1..(m + 1) + 1
      OBVIOUS
    <3> QED
      BY <2>1, <2>2, <3>1
  <2>4. ASSUME NEW k \in 1..m PROVE Reads(key[k], s, word, v, then[k], then[k + 1])
    <3>1. k \in 1..m + 1 /\ k + 1 \in 1..m + 1
      OBVIOUS
    <3>2. then[k] = at[k] /\ then[k + 1] = at[k + 1]
      BY <2>1, <3>1
    <3> QED
      BY <1>1, <2>2, <3>1, <3>2
  <2>5. m + 1 \in 1..m + 1 /\ 1 \in 1..m + 1
    OBVIOUS
  <2>6. Reads(c, s, word, v, at[m + 1], at[(m + 1) + 1])
    BY <1>1, <2>2, <2>5
  <2>7. then[m + 1] \in T
    BY <1>3, <2>1, <2>5, <2>6 DEF LeadsInto
  <2>8. then[1] = i
    BY <1>3, <2>1, <2>5
  <2>9. Aligned(then, word, v, key, m, s)
    BY <2>3, <2>4 DEF Aligned
  <2> QED
    BY <2>7, <2>8, <2>9 DEF ReadsTo
<1> QED
  BY <1>2, <1>3 DEF ReadsTo

\* A word that starts with another one.
Begins(p, w) == Len(w) <= Len(p) /\ \A i \in 1..Len(w) : p[i] = w[i]

LEMMA BeginsBoth ==
    ASSUME NEW R, NEW w \in Seq(R), NEW piece \in Seq(R), NEW whole, IsWhole(whole, w, piece),
           NEW p \in Seq(R), Begins(p, whole), NEW m \in Nat, m = Len(w), NEW l \in Nat, l = Len(piece)
    PROVE  Begins(p, w) /\ HasAfter(p, m, piece) /\ Len(whole) = m + l
<1>1. whole = w \o piece
  BY DEF IsWhole
<1>2. PartsAt(whole, w, piece, m)
  BY <1>1, ConcatPlaces
<1>3. PICK n \in Nat : n = Len(p)
  BY LenProperties
<1>4. /\ Len(whole) = m + l
      /\ \A i \in 1..m : whole[i] = w[i]
      /\ \A i \in 1..l : whole[m + i] = piece[i]
  BY <1>2 DEF PartsAt
<1>5. m + l <= n /\ \A i \in 1..m + l : p[i] = whole[i]
  BY <1>3, <1>4 DEF Begins
<1>6. \A i \in 1..m : i \in 1..m + l
  OBVIOUS
<1>7. \A h \in 1..l : m + h \in 1..m + l
  OBVIOUS
<1>8. Begins(p, w)
  <2>1. m <= n
    BY <1>5
  <2> QED
    BY <1>3, <1>4, <1>5, <1>6, <2>1 DEF Begins
<1> QED
  BY <1>3, <1>4, <1>5, <1>7, <1>8 DEF HasAfter

\* What holds of a table of any pattern that starts with an escaped keyword.
TableReads(word, v, key, p, s, escaped) ==
    \A from : IsTable(word, p, from) /\ Begins(p, escaped) =>
        \A i : i \in from[1] <=> ReadsTo(word, v, key, Len(key), s, i, from[Len(escaped) + 1])

LEMMA TableReadsNone ==
    ASSUME NEW word, NEW v \in Nat, v = Len(word), NEW R, NEW p \in Seq(R), NEW s
    PROVE  TableReads(word, v, <<>>, p, s, <<>>)
<1> SUFFICES ASSUME NEW from, IsTable(word, p, from), NEW i
             PROVE  i \in from[1] <=> ReadsTo(word, v, <<>>, Len(<<>>), s, i, from[Len(<<>>) + 1])
  BY DEF TableReads
<1>1. PICK n \in Nat : n = Len(p)
  BY LenProperties
<1>2. PICK none : none = <<>> /\ Len(none) = 0
  BY EmptySeq
<1>3. 1 \in 1..n + 1 /\ 0 + 1 = 1
  OBVIOUS
<1>4. from[1] \in SUBSET (1..v + 1)
  BY <1>1, <1>3, TableType
<1>5. ReadsTo(word, v, none, 0, s, i, from[1]) <=> i \in from[1]
  BY <1>4, ReadsNone
<1> QED
  BY <1>2, <1>3, <1>5

LEMMA TableReadsMore ==
    ASSUME NEW R, NEW word, NEW v \in Nat, v = Len(word), NEW p \in Seq(R),
           NEW o \in R, NEW pc \in R, NEW u \in R, NEW s \in R, NEW e \in R,
           Marks(o, pc, u, s, e), AreMarks(o, pc, u, s, e),
           NEW key \in Seq(R), NEW c \in R, NEW more, more = Append(key, c),
           TableReads(word, v, key, p, s, Escaped(key, o, pc, u, s, e))
    PROVE  TableReads(word, v, more, p, s, Escaped(more, o, pc, u, s, e))
<1>1. PICK w, piece \in Seq(R) : w = Escaped(key, o, pc, u, s, e) /\ piece = LikePiece(c, o, pc, u, s, e)
  BY EscapedAppend
<1>2. PICK whole : whole = Escaped(more, o, pc, u, s, e)
  OBVIOUS
<1>3. IsWhole(whole, w, piece)
  BY <1>1, <1>2, EscapedAppend
<1>4. PICK m, l, n, k \in Nat : m = Len(w) /\ l = Len(piece) /\ n = Len(p) /\ k = Len(key)
  BY LenProperties
<1>5. Len(more) = k + 1
  BY <1>4, AppendProperties
<1>6. ASSUME NEW from, IsTable(word, p, from), Begins(p, whole), NEW i
      PROVE  i \in from[1] <=> ReadsTo(word, v, more, Len(more), s, i, from[Len(whole) + 1])
  <2>1. Begins(p, w) /\ HasAfter(p, m, piece) /\ Len(whole) = m + l
    <3>1. Begins(p, whole)
      BY <1>6
    <3> QED
      BY <1>3, <1>4, <3>1, BeginsBoth
  <2>2. i \in from[1] <=> ReadsTo(word, v, key, k, s, i, from[m + 1])
    BY <1>1, <1>4, <1>6, <2>1 DEF TableReads
  <2>3. IsTable(word, p, from) /\ HasAfter(p, m, piece)
    BY <1>6, <2>1
  <2>4. LeadsInto(c, s, word, v, from[m + 1], from[(m + l) + 1])
    BY <1>1, <1>4, <2>3, PieceEntry
  <2>5. PICK U \in SUBSET (1..v + 1) : U = from[(m + l) + 1]
    <3>1. (m + l) + 1 \in 1..n + 1
      BY <1>4, <2>1 DEF HasAfter
    <3> QED
      BY <1>4, <2>3, <3>1, TableType
  <2>6. PICK T : T = from[m + 1]
    OBVIOUS
  <2>7. LeadsInto(c, s, word, v, T, U)
    BY <2>4, <2>5, <2>6
  <2>8. ReadsTo(word, v, key, k, s, i, T) <=> ReadsTo(word, v, more, k + 1, s, i, U)
    BY <1>4, <2>7, ReadsMore
  <2> QED
    BY <1>5, <2>1, <2>2, <2>5, <2>6, <2>8
<1>7. TableReads(word, v, more, p, s, whole)
  BY <1>6 DEF TableReads
<1> QED
  BY <1>2, <1>7

\* LIKE with the escaped keyword: the keyword is read from the start to the end.
LEMMA LikeReads ==
    ASSUME NEW R, NEW word \in Seq(R), NEW v \in Nat, v = Len(word), NEW key \in Seq(R),
           NEW o \in R, NEW pc \in R, NEW u \in R, NEW s \in R, NEW e \in R, Marks(o, pc, u, s, e),
           LikeLength(key) <= PatternLimit
    PROVE  Like(word, WildcardToLike(key)) <=> ReadsTo(word, v, key, Len(key), s, 1, {v + 1})
<1>1. AreMarks(o, pc, u, s, e)
  BY MarksDiffer
<1> DEFINE Esc(w) == Escaped(w, o, pc, u, s, e)
<1>2. \A w \in Seq(R) : Esc(w) \in Seq(R)
  BY <1>1, EscapedAppend
<1>3. PICK p \in Seq(R) : p = Esc(key)
  BY <1>2
<1> DEFINE A == {w \in Seq(R) : TableReads(word, v, w, p, s, Esc(w))}
<1>4. <<>> \in A
  <2>1. PICK none \in Seq(R) : none = <<>>
    BY EmptySeq
  <2>2. Esc(none) = <<>>
    BY <2>1, EscapedNone
  <2>3. TableReads(word, v, <<>>, p, s, <<>>)
    BY TableReadsNone
  <2> QED
    BY <2>1, <2>2, <2>3
<1>5. ASSUME NEW w \in Seq(R), NEW c \in R, w \in A PROVE Append(w, c) \in A
  <2>1. PICK more : more = Append(w, c)
    OBVIOUS
  <2>2. more \in Seq(R)
    BY <2>1, AppendProperties
  <2>3. TableReads(word, v, w, p, s, Escaped(w, o, pc, u, s, e))
    BY <1>5
  <2>4. TableReads(word, v, more, p, s, Escaped(more, o, pc, u, s, e))
    BY <1>1, <2>1, <2>3, TableReadsMore
  <2> QED
    BY <2>1, <2>2, <2>4
<1> HIDE DEF A, Esc
<1>6. key \in A
  BY <1>4, <1>5, WordInduction
<1>7. TableReads(word, v, key, p, s, p)
  BY <1>3, <1>6 DEF A
<1>8. PICK n \in Nat : n = Len(p)
  BY LenProperties
<1>9. PICK from : IsTable(word, p, from) /\ (Like(word, p) <=> 1 \in from[1])
  BY <1>8, LikeTable
<1>10. Begins(p, p)
  BY <1>8 DEF Begins
<1>11. 1 \in from[1] <=> ReadsTo(word, v, key, Len(key), s, 1, from[n + 1])
  BY <1>7, <1>8, <1>9, <1>10 DEF TableReads
<1>12. from[n + 1] = {v + 1}
  <2>1. PICK j : j = n + 1
    OBVIOUS
  <2>2. IsTable(word, p, from)
    BY <1>9
  <2>3. \A i : i \in from[j] <=> i = v + 1
    BY <1>8, <2>1, <2>2, EntryPast
  <2> QED
    BY <2>1, <2>3
<1>13. WildcardToLike(key) = p
  <2>1. WildcardToLike(key) = Escaped(key, o, pc, u, s, e)
    BY EscapedIs
  <2> QED
    BY <1>3, <2>1 DEF Esc
<1> QED
  BY <1>9, <1>11, <1>12, <1>13

-----------------------------------------------------------------------------
(* Wildcards: what the regular expression makes of the keyword.            *)

\* The last star before each character of a keyword, or 0.
IsBefore(before, stars, n) ==
    /\ before \in [1..n + 1 -> {0} \cup stars]
    /\ before[1] = 0
    /\ \A k \in 1..n : before[k + 1] = IF k \in stars THEN k ELSE before[k]
    /\ \A k \in 1..n + 1 : before[k] < k

StarsBefore(stars, k) == {0} \cup {h \in stars : h < k}

LEMMA BeforeFacts ==
    ASSUME NEW n \in Nat, NEW stars \in SUBSET (1..n)
    PROVE  IsBefore([k \in 1..n + 1 |-> Max(StarsBefore(stars, k))], stars, n)
<1> DEFINE M(k) == Max(StarsBefore(stars, k))
           A == {a \in Nat : a <= n => M(a + 1) \in StarsBefore(stars, a + 1)}
<1>1. M(1) = 0
  <2>1. StarsBefore(stars, 1) = {0}
    <3>1. \A h \in stars : ~(h < 1)
      OBVIOUS
    <3> QED
      BY <3>1 DEF StarsBefore
  <2>2. Max({0}) = 0
    BY DEF Max
  <2> QED
    BY <2>1, <2>2
<1>2. ASSUME NEW k \in 1..n PROVE M(k + 1) = IF k \in stars THEN k ELSE M(k)
  <2>1. CASE k \in stars
    <3>1. PICK T : T = StarsBefore(stars, k + 1)
      OBVIOUS
    <3>2. k \in T
      BY <2>1, <3>1 DEF StarsBefore
    <3>3. \A h \in T : h \in Int /\ h <= k
      BY <3>1 DEF StarsBefore
    <3>4. PICK x : x = Max(T)
      OBVIOUS
    <3>5. x \in T /\ \A y \in T : x >= y
      BY <3>2, <3>3, <3>4 DEF Max
    <3>6. x >= k /\ x <= k /\ x \in Int
      BY <3>2, <3>3, <3>5
    <3>7. x = k
      BY <3>6
    <3> QED
      BY <2>1, <3>1, <3>4, <3>7
  <2>2. CASE k \notin stars
    <3>1. \A h \in stars : h < k + 1 <=> h < k
      BY <2>2
    <3>2. StarsBefore(stars, k + 1) = StarsBefore(stars, k)
      BY <3>1 DEF StarsBefore
    <3> QED
      BY <2>2, <3>2
  <2> QED
    BY <2>1, <2>2
<1> HIDE DEF M
<1>3. 0 \in A
  BY <1>1 DEF StarsBefore
<1>4. ASSUME NEW a \in Nat, a \in A PROVE a + 1 \in A
  <2> SUFFICES ASSUME a + 1 <= n PROVE M((a + 1) + 1) \in StarsBefore(stars, (a + 1) + 1)
    OBVIOUS
  <2>1. PICK k \in 1..n : k = a + 1
    OBVIOUS
  <2>2. M(k) \in StarsBefore(stars, k)
    BY <1>4, <2>1
  <2>3. M(k + 1) = IF k \in stars THEN k ELSE M(k)
    BY <1>2
  <2>4. StarsBefore(stars, k) \subseteq StarsBefore(stars, k + 1)
    <3>1. \A h \in stars : h < k => h < k + 1
      OBVIOUS
    <3> QED
      BY <3>1, Zenon DEF StarsBefore
  <2>5. k \in stars => k \in StarsBefore(stars, k + 1)
    BY DEF StarsBefore
  <2> QED
    BY <2>1, <2>2, <2>3, <2>4, <2>5
<1> HIDE DEF A
<1>5. \A a \in Nat : a \in A
  BY <1>3, <1>4, NatSetInduction
<1>6. ASSUME NEW k \in 1..n + 1 PROVE M(k) \in {0} \cup stars /\ M(k) < k
  <2>1. PICK a \in Nat : a + 1 = k /\ a <= n
    <3>1. k - 1 \in Nat /\ (k - 1) + 1 = k /\ k - 1 <= n
      OBVIOUS
    <3> QED
      BY <3>1
  <2>2. M(k) \in StarsBefore(stars, k)
    BY <1>5, <2>1 DEF A
  <2> QED
    BY <2>2 DEF StarsBefore
<1>7. PICK before : before = [k \in 1..n + 1 |-> M(k)]
  OBVIOUS
<1>8. before \in [1..n + 1 -> {0} \cup stars] /\ \A k \in 1..n + 1 : before[k] = M(k) /\ before[k] < k
  BY <1>6, <1>7
<1>9. before[1] = 0
  <2>1. 1 \in 1..n + 1
    OBVIOUS
  <2> QED
    BY <1>1, <1>8, <2>1
<1>10. \A k \in 1..n : before[k + 1] = IF k \in stars THEN k ELSE before[k]
  <2> TAKE k \in 1..n
  <2>1. k \in 1..n + 1 /\ k + 1 \in 1..n + 1
    OBVIOUS
  <2> QED
    BY <1>2, <1>8, <2>1
<1>11. IsBefore(before, stars, n)
  BY <1>8, <1>9, <1>10 DEF IsBefore
<1> QED
  BY <1>7, <1>11 DEF M

\* What KeywordMatches asks of the places where the parts begin.
PartsFit(at, before, stars, word, v, key, n) ==
    /\ at[0] = 1
    /\ at[before[n + 1]] + ((n + 1) - before[n + 1] - 1) = v + 1
    /\ \A k \in 1..n :
          IF k \in stars THEN at[before[k]] + (k - before[k] - 1) <= at[k]
          ELSE /\ at[before[k]] + (k - before[k] - 1) <= v
               /\ word[at[before[k]] + (k - before[k] - 1)] = key[k]

Stars(key) == {k \in 1..Len(key) : key[k] = "*"}

\* The definition, with names for what it is put together of.
LEMMA MatchesMeans ==
    ASSUME NEW word, NEW key
    PROVE  KeywordMatches(word, key) <=>
              \E at \in [{0} \cup Stars(key) -> 1..Len(word) + 1] :
                 /\ at[0] = 1
                 /\ at[Max(StarsBefore(Stars(key), Len(key) + 1))]
                       + ((Len(key) + 1) - Max(StarsBefore(Stars(key), Len(key) + 1)) - 1) = Len(word) + 1
                 /\ \A k \in 1..Len(key) :
                       IF k \in Stars(key)
                       THEN at[Max(StarsBefore(Stars(key), k))] + (k - Max(StarsBefore(Stars(key), k)) - 1) <= at[k]
                       ELSE /\ at[Max(StarsBefore(Stars(key), k))]
                                  + (k - Max(StarsBefore(Stars(key), k)) - 1) <= Len(word)
                            /\ word[at[Max(StarsBefore(Stars(key), k))]
                                    + (k - Max(StarsBefore(Stars(key), k)) - 1)] = key[k]
BY Zenon DEF KeywordMatches, Stars, StarsBefore

LEMMA MatchesIs ==
    ASSUME NEW word, NEW key, NEW v, NEW n \in Nat, v = Len(word), n = Len(key),
           NEW stars, stars = Stars(key)
    PROVE  \E before : /\ IsBefore(before, stars, n)
                       /\ KeywordMatches(word, key) <=>
                             \E at \in [{0} \cup stars -> 1..v + 1] : PartsFit(at, before, stars, word, v, key, n)
<1>1. PICK before : before = [k \in 1..n + 1 |-> Max(StarsBefore(stars, k))]
  OBVIOUS
<1>2. IsBefore(before, stars, n)
  <2>1. PICK T \in SUBSET (1..n) : T = stars
    BY DEF Stars
  <2>2. IsBefore([k \in 1..n + 1 |-> Max(StarsBefore(T, k))], T, n)
    BY BeforeFacts
  <2> QED
    BY <1>1, <2>1, <2>2
<1>3. \A k \in 1..n + 1 : before[k] = Max(StarsBefore(stars, k))
  BY <1>1
<1>4. n + 1 \in 1..n + 1 /\ \A k \in 1..n : k \in 1..n + 1
  OBVIOUS
<1>5. ASSUME NEW at
      PROVE  PartsFit(at, before, stars, word, v, key, n) <=>
                /\ at[0] = 1
                /\ at[Max(StarsBefore(stars, n + 1))] + ((n + 1) - Max(StarsBefore(stars, n + 1)) - 1) = v + 1
                /\ \A k \in 1..n :
                      IF k \in stars
                      THEN at[Max(StarsBefore(stars, k))] + (k - Max(StarsBefore(stars, k)) - 1) <= at[k]
                      ELSE /\ at[Max(StarsBefore(stars, k))] + (k - Max(StarsBefore(stars, k)) - 1) <= v
                           /\ word[at[Max(StarsBefore(stars, k))]
                                   + (k - Max(StarsBefore(stars, k)) - 1)] = key[k]
  BY <1>3, <1>4, Zenon DEF PartsFit
<1>6. KeywordMatches(word, key) <=>
         \E at \in [{0} \cup stars -> 1..v + 1] : PartsFit(at, before, stars, word, v, key, n)
  BY <1>5, MatchesMeans, Zenon
<1> QED
  BY <1>2, <1>6

\* The place of the k-th character, when the parts begin at those of `starts`.
PlaceOf(starts, before, k) == starts[before[k]] + (k - before[k] - 1)

PlacesGoOn(starts, before, stars, n) ==
    /\ PlaceOf(starts, before, 1) = starts[0]
    /\ \A k \in 1..n + 1 : PlaceOf(starts, before, k) \in Int /\ PlaceOf(starts, before, k) >= 1
    /\ \A k \in 1..n : PlaceOf(starts, before, k + 1)
                          = IF k \in stars THEN starts[k] ELSE PlaceOf(starts, before, k) + 1

LEMMA PlaceFacts ==
    ASSUME NEW n \in Nat, NEW stars \in SUBSET (1..n), NEW before, IsBefore(before, stars, n),
           NEW v \in Nat, NEW starts \in [{0} \cup stars -> 1..v + 1]
    PROVE  PlacesGoOn(starts, before, stars, n)
<1>1. /\ before \in [1..n + 1 -> {0} \cup stars] /\ before[1] = 0
      /\ \A k \in 1..n : before[k + 1] = IF k \in stars THEN k ELSE before[k]
      /\ \A k \in 1..n + 1 : before[k] < k
  BY DEF IsBefore
<1>2. ASSUME NEW k \in 1..n + 1
      PROVE  before[k] \in Nat /\ starts[before[k]] \in 1..v + 1 /\ before[k] < k
  <2>1. PICK D : D = {0} \cup stars
    OBVIOUS
  <2>2. \A h \in D : h \in Nat /\ starts[h] \in 1..v + 1
    BY <2>1
  <2>3. before[k] \in D /\ before[k] < k
    BY <1>1, <2>1
  <2> QED
    BY <2>2, <2>3
<1>3. PlaceOf(starts, before, 1) = starts[0]
  <2>1. PICK x \in Int : x = starts[0]
    OBVIOUS
  <2>2. x + (1 - 0 - 1) = x
    OBVIOUS
  <2> QED
    BY <1>1, <2>1, <2>2 DEF PlaceOf
<1>4. ASSUME NEW k \in 1..n + 1 PROVE PlaceOf(starts, before, k) \in Int /\ PlaceOf(starts, before, k) >= 1
  <2>1. PICK b \in Nat, x \in 1..v + 1 : b = before[k] /\ x = starts[b] /\ b < k
    BY <1>2
  <2> QED
    BY <2>1 DEF PlaceOf
<1>5. ASSUME NEW k \in 1..n
      PROVE  PlaceOf(starts, before, k + 1) = IF k \in stars THEN starts[k] ELSE PlaceOf(starts, before, k) + 1
  <2>1. k \in 1..n + 1
    OBVIOUS
  <2>2. CASE k \in stars
    <3>1. before[k + 1] = k
      BY <1>1, <2>2
    <3>2. PICK x \in Int : x = starts[k]
      BY <2>2
    <3>3. x + ((k + 1) - k - 1) = x
      OBVIOUS
    <3> QED
      BY <2>2, <3>1, <3>2, <3>3 DEF PlaceOf
  <2>3. CASE k \notin stars
    <3>1. before[k + 1] = before[k]
      BY <1>1, <2>3
    <3>2. PICK b \in Nat, x \in 1..v + 1 : b = before[k] /\ x = starts[b]
      BY <1>2, <2>1
    <3>3. x + ((k + 1) - b - 1) = (x + (k - b - 1)) + 1
      OBVIOUS
    <3> QED
      BY <2>3, <3>1, <3>2, <3>3 DEF PlaceOf
  <2> QED
    BY <2>2, <2>3
<1> QED
  BY <1>3, <1>4, <1>5 DEF PlacesGoOn

\* The regular expression: the keyword is read from the start to the end.
LEMMA KeywordReads ==
    ASSUME NEW word, NEW v \in Nat, v = Len(word), NEW key, NEW n \in Nat, n = Len(key), NEW s, s = "*"
    PROVE  KeywordMatches(word, key) <=> ReadsTo(word, v, key, n, s, 1, {v + 1})
<1>1. PICK stars \in SUBSET (1..n) : stars = Stars(key)
  BY DEF Stars
<1>2. \A k \in 1..n : k \in stars <=> key[k] = s
  BY <1>1 DEF Stars
<1>3. PICK before : /\ IsBefore(before, stars, n)
                    /\ KeywordMatches(word, key) <=>
                          \E starts \in [{0} \cup stars -> 1..v + 1] :
                             PartsFit(starts, before, stars, word, v, key, n)
  BY <1>1, MatchesIs
<1>4. ASSUME NEW starts \in [{0} \cup stars -> 1..v + 1]
      PROVE  PartsFit(starts, before, stars, word, v, key, n) <=>
                /\ starts[0] = 1 /\ PlaceOf(starts, before, n + 1) = v + 1
                /\ \A k \in 1..n : IF k \in stars THEN PlaceOf(starts, before, k) <= starts[k]
                                   ELSE /\ PlaceOf(starts, before, k) <= v
                                        /\ word[PlaceOf(starts, before, k)] = key[k]
  BY Zenon DEF PartsFit, PlaceOf
<1>5. ASSUME NEW starts \in [{0} \cup stars -> 1..v + 1], PartsFit(starts, before, stars, word, v, key, n)
      PROVE  ReadsTo(word, v, key, n, s, 1, {v + 1})
  <2> DEFINE P(k) == PlaceOf(starts, before, k)
  <2>1. /\ starts[0] = 1 /\ P(n + 1) = v + 1
        /\ \A k \in 1..n : IF k \in stars THEN P(k) <= starts[k] ELSE P(k) <= v /\ word[P(k)] = key[k]
    BY <1>4, <1>5
  <2>2. /\ P(1) = starts[0] /\ \A k \in 1..n + 1 : P(k) \in Int /\ P(k) >= 1
        /\ \A k \in 1..n : P(k + 1) = IF k \in stars THEN starts[k] ELSE P(k) + 1
    <3>1. IsBefore(before, stars, n)
      BY <1>3
    <3>2. PlacesGoOn(starts, before, stars, n)
      BY <3>1, PlaceFacts
    <3> QED
      BY <3>2 DEF PlacesGoOn
  <2> HIDE DEF P
  <2>3. \A k \in 1..n + 1 : P(k) \in 1..v + 1
    <3> TAKE k \in 1..n + 1
    <3>1. CASE k = n + 1
      BY <2>1, <3>1
    <3>2. CASE k \in 1..n /\ k \in stars
      <4>1. P(k) <= starts[k] /\ starts[k] \in 1..v + 1
        BY <2>1, <3>2
      <4> QED
        BY <2>2, <4>1
    <3>3. CASE k \in 1..n /\ k \notin stars
      <4>1. P(k) <= v
        BY <2>1, <3>3
      <4> QED
        BY <2>2, <4>1
    <3>4. k = n + 1 \/ k \in 1..n
      OBVIOUS
    <3> QED
      BY <3>1, <3>2, <3>3, <3>4
  <2>4. PICK at : at = [k \in 1..n + 1 |-> P(k)]
    OBVIOUS
  <2>5. at \in [1..n + 1 -> 1..v + 1] /\ \A k \in 1..n + 1 : at[k] = P(k)
    BY <2>3, <2>4
  <2>6. ASSUME NEW k \in 1..n PROVE Reads(key[k], s, word, v, at[k], at[k + 1])
    <3>1. k \in 1..n + 1 /\ k + 1 \in 1..n + 1
      OBVIOUS
    <3>2. at[k] = P(k) /\ at[k + 1] = P(k + 1) /\ at[k] \in 1..v + 1
      BY <2>5, <3>1
    <3>3. CASE k \in stars
      <4>1. key[k] = s /\ P(k) <= starts[k] /\ P(k + 1) = starts[k]
        BY <1>2, <2>1, <2>2, <3>3
      <4> QED
        BY <3>2, <4>1 DEF Reads
    <3>4. CASE k \notin stars
      <4>1. key[k] # s /\ P(k) <= v /\ word[P(k)] = key[k] /\ P(k + 1) = P(k) + 1
        BY <1>2, <2>1, <2>2, <3>4
      <4>2. at[k] \in 1..v
        BY <3>2, <4>1
      <4> QED
        BY <3>2, <4>1, <4>2 DEF Reads
    <3> QED
      BY <3>3, <3>4
  <2>7. Aligned(at, word, v, key, n, s)
    BY <2>5, <2>6 DEF Aligned
  <2>8. at[1] = 1 /\ at[n + 1] \in {v + 1}
    <3>1. 1 \in 1..n + 1 /\ n + 1 \in 1..n + 1
      OBVIOUS
    <3> QED
      BY <2>1, <2>2, <2>5, <3>1
  <2> QED
    BY <2>7, <2>8 DEF ReadsTo
<1>6. ASSUME NEW at, Aligned(at, word, v, key, n, s), at[1] = 1, at[n + 1] = v + 1
      PROVE  \E starts \in [{0} \cup stars -> 1..v + 1] : PartsFit(starts, before, stars, word, v, key, n)
  <2>1. /\ at \in [1..n + 1 -> 1..v + 1]
        /\ \A k \in 1..n : Reads(key[k], s, word, v, at[k], at[k + 1])
    BY <1>6 DEF Aligned
  <2>2. PICK starts : starts = [h \in {0} \cup stars |-> at[h + 1]]
    OBVIOUS
  <2>3. starts \in [{0} \cup stars -> 1..v + 1] /\ starts[0] = 1 /\ \A k \in stars : starts[k] = at[k + 1]
    <3>1. \A h \in {0} \cup stars : h + 1 \in 1..n + 1
      OBVIOUS
    <3>2. 0 + 1 = 1
      OBVIOUS
    <3> QED
      BY <1>6, <2>1, <2>2, <3>1, <3>2
  <2> DEFINE P(k) == PlaceOf(starts, before, k)
  <2>4. /\ P(1) = starts[0]
        /\ \A k \in 1..n : P(k + 1) = IF k \in stars THEN starts[k] ELSE P(k) + 1
    <3>1. IsBefore(before, stars, n)
      BY <1>3
    <3>2. PlacesGoOn(starts, before, stars, n)
      BY <2>3, <3>1, PlaceFacts
    <3> QED
      BY <3>2 DEF PlacesGoOn
  <2> HIDE DEF P
  <2>5. ASSUME NEW k \in 1..n
        PROVE  IF k \in stars THEN at[k] <= at[k + 1]
               ELSE at[k] \in 1..v /\ word[at[k]] = key[k] /\ at[k + 1] = at[k] + 1
    BY <1>2, <2>1 DEF Reads
  <2> DEFINE B == {a \in Nat : a <= n => P(a + 1) = at[a + 1]}
  <2>6. 0 \in B
    BY <1>6, <2>3, <2>4
  <2>7. ASSUME NEW a \in Nat, a \in B PROVE a + 1 \in B
    <3> SUFFICES ASSUME a + 1 <= n PROVE P((a + 1) + 1) = at[(a + 1) + 1]
      OBVIOUS
    <3>1. PICK k \in 1..n : k = a + 1
      OBVIOUS
    <3>2. P(k) = at[k]
      BY <2>7, <3>1
    <3>3. P(k + 1) = at[k + 1]
      BY <2>3, <2>4, <2>5, <3>2
    <3> QED
      BY <3>1, <3>3
  <2> HIDE DEF B
  <2>8. \A a \in Nat : a \in B
    BY <2>6, <2>7, NatSetInduction
  <2>9. \A k \in 1..n + 1 : P(k) = at[k]
    <3> TAKE k \in 1..n + 1
    <3>1. PICK a \in Nat : k = a + 1 /\ a <= n
      <4>1. k - 1 \in Nat /\ k = (k - 1) + 1 /\ k - 1 <= n
        OBVIOUS
      <4> QED
        BY <4>1
    <3> QED
      BY <2>8, <3>1 DEF B
  <2>10. \A k \in 1..n : IF k \in stars THEN P(k) <= starts[k] ELSE P(k) <= v /\ word[P(k)] = key[k]
    <3> TAKE k \in 1..n
    <3>1. k \in 1..n + 1
      OBVIOUS
    <3>2. P(k) = at[k]
      BY <2>9, <3>1
    <3>3. CASE k \in stars
      BY <2>3, <2>5, <3>2, <3>3
    <3>4. CASE k \notin stars
      <4>1. at[k] \in 1..v /\ word[at[k]] = key[k]
        BY <2>5, <3>4
      <4>2. at[k] <= v
        BY <4>1
      <4> QED
        BY <3>2, <3>4, <4>1, <4>2
    <3> QED
      BY <3>3, <3>4
  <2>11. n + 1 \in 1..n + 1
    OBVIOUS
  <2>12. starts[0] = 1 /\ P(n + 1) = v + 1
    BY <1>6, <2>3, <2>9, <2>11
  <2>13. PartsFit(starts, before, stars, word, v, key, n)
    BY <1>4, <2>3, <2>10, <2>12 DEF P
  <2> QED
    BY <2>3, <2>13
<1>7. ReadsTo(word, v, key, n, s, 1, {v + 1})
        <=> \E at : Aligned(at, word, v, key, n, s) /\ at[1] = 1 /\ at[n + 1] = v + 1
  BY DEF ReadsTo
<1> QED
  BY <1>3, <1>5, <1>6, <1>7

-----------------------------------------------------------------------------
(* Wildcards: keywords with stars at their ends only.                      *)

\* A word is found in another one at its place b.
Stands(word, v, core, m, b) == b >= 1 /\ b + m <= v + 1 /\ \A l \in 1..m : word[(b - 1) + l] = core[l]

\* A keyword of f stars, a core without stars, and g stars.
Shape(key, n, s, f, g, m, core) ==
    /\ f \in {0, 1} /\ g \in {0, 1} /\ n = (f + m) + g
    /\ m = Len(core) /\ \A l \in 1..m : core[l] = key[f + l] /\ key[f + l] # s
    /\ f = 1 <=> n > 0 /\ key[1] = s
    /\ g = 1 <=> n > 0 /\ key[n] = s

Plainly(at, word, key, f, a) ==
    /\ at[(f + 1) + a] = at[f + 1] + a
    /\ \A l \in 1..a : word[(at[f + 1] - 1) + l] = key[f + l]

NoStar(key, s, f, m) == \A l \in 1..m : key[f + l] # s

\* Characters that are not stars are read one after the other.
LEMMA Straight ==
    ASSUME NEW word, NEW v \in Nat, NEW key, NEW n \in Nat, NEW s, NEW at, Aligned(at, word, v, key, n, s),
           NEW f \in Nat, NEW m \in Nat, f + m <= n, NoStar(key, s, f, m)
    PROVE  Plainly(at, word, key, f, m)
<1> DEFINE A == {a \in Nat : a <= m => Plainly(at, word, key, f, a)}
<1>1. /\ at \in [1..n + 1 -> 1..v + 1]
      /\ \A k \in 1..n : Reads(key[k], s, word, v, at[k], at[k + 1])
  BY DEF Aligned
<1>2. PICK b \in 1..v + 1 : b = at[f + 1]
  <2>1. f + 1 \in 1..n + 1
    OBVIOUS
  <2> QED
    BY <1>1, <2>1
<1>3. 0 \in A
  BY <1>2 DEF Plainly
<1>4. ASSUME NEW a \in Nat, a \in A PROVE a + 1 \in A
  <2> SUFFICES ASSUME a + 1 <= m
               PROVE  /\ at[(f + 1) + (a + 1)] = at[f + 1] + (a + 1)
                      /\ \A l \in 1..a + 1 : word[(at[f + 1] - 1) + l] = key[f + l]
    BY DEF Plainly
  <2>1. at[(f + 1) + a] = b + a /\ \A l \in 1..a : word[(b - 1) + l] = key[f + l]
    BY <1>2, <1>4 DEF Plainly
  <2>2. PICK k \in 1..n : k = (f + 1) + a /\ k = f + (a + 1) /\ k + 1 = (f + 1) + (a + 1)
    OBVIOUS
  <2>3. key[k] # s
    BY <2>2 DEF NoStar
  <2>4. word[b + a] = key[k] /\ at[k + 1] = (b + a) + 1
    BY <1>1, <2>1, <2>2, <2>3 DEF Reads
  <2>5. (b - 1) + (a + 1) = b + a /\ (b + a) + 1 = b + (a + 1)
    OBVIOUS
  <2>6. \A l \in 1..a + 1 : l \in 1..a \/ l = a + 1
    OBVIOUS
  <2> QED
    BY <1>2, <2>1, <2>2, <2>4, <2>5, <2>6
<1> HIDE DEF A
<1>5. \A a \in Nat : a \in A
  BY <1>3, <1>4, NatSetInduction
<1> QED
  BY <1>5 DEF A

\* The core is in the word, at the ends that have no star.
Found(word, v, core, m, f, g) ==
    \E b \in 1..v + 1 : /\ Stands(word, v, core, m, b)
                        /\ f = 0 => b = 1
                        /\ g = 0 => b + m = v + 1

\* Read from the start to the end: the core is found, at the ends that have no star.
LEMMA ReadsShape ==
    ASSUME NEW word, NEW v \in Nat, NEW key, NEW n \in Nat, NEW s, NEW f, NEW g, NEW m \in Nat, NEW core,
           Shape(key, n, s, f, g, m, core)
    PROVE  ReadsTo(word, v, key, n, s, 1, {v + 1}) <=> Found(word, v, core, m, f, g)
<1>1. /\ f \in {0, 1} /\ g \in {0, 1} /\ n = (f + m) + g
      /\ \A l \in 1..m : core[l] = key[f + l] /\ key[f + l] # s
      /\ f = 1 => key[1] = s
      /\ g = 1 => key[n] = s
  BY DEF Shape
<1>2. ASSUME NEW at, Aligned(at, word, v, key, n, s), at[1] = 1, at[n + 1] = v + 1
      PROVE  \E b \in 1..v + 1 : /\ Stands(word, v, core, m, b)
                                 /\ f = 0 => b = 1
                                 /\ g = 0 => b + m = v + 1
  <2>1. at \in [1..n + 1 -> 1..v + 1]
    BY <1>2 DEF Aligned
  <2>2. f + 1 \in 1..n + 1 /\ (f + 1) + m \in 1..n + 1 /\ f \in Nat /\ f + m <= n
    BY <1>1
  <2>3. PICK b \in 1..v + 1 : b = at[f + 1]
    BY <2>1, <2>2
  <2>4. Plainly(at, word, key, f, m)
    <3>1. Aligned(at, word, v, key, n, s)
      BY <1>2
    <3>2. NoStar(key, s, f, m)
      BY <1>1 DEF NoStar
    <3> QED
      BY <2>2, <3>1, <3>2, Straight
  <2>6. at[(f + 1) + m] = b + m /\ \A l \in 1..m : word[(b - 1) + l] = key[f + l]
    BY <2>3, <2>4 DEF Plainly
  <2>7. b + m <= v + 1
    BY <2>1, <2>2, <2>6
  <2>8. Stands(word, v, core, m, b)
    BY <1>1, <2>6, <2>7 DEF Stands
  <2>9. f = 0 => b = 1
    BY <1>2, <2>3
  <2>10. g = 0 => b + m = v + 1
    <3>1. g = 0 => (f + 1) + m = n + 1
      BY <1>1
    <3> QED
      BY <1>2, <2>6, <3>1
  <2> QED
    BY <2>8, <2>9, <2>10
<1>3. ASSUME NEW b \in 1..v + 1, Stands(word, v, core, m, b), f = 0 => b = 1, g = 0 => b + m = v + 1
      PROVE  \E at : Aligned(at, word, v, key, n, s) /\ at[1] = 1 /\ at[n + 1] = v + 1
  <2> DEFINE P(k) == IF k <= f THEN 1 ELSE IF k <= (f + m) + 1 THEN b + ((k - f) - 1) ELSE v + 1
  <2>1. b + m <= v + 1 /\ \A l \in 1..m : word[(b - 1) + l] = core[l]
    BY <1>3 DEF Stands
  <2>2. PICK at : at = [k \in 1..n + 1 |-> P(k)]
    OBVIOUS
  <2>3. \A k \in 1..n + 1 : at[k] = P(k)
    BY <2>2
  <2>4. \A k \in 1..n + 1 : P(k) \in 1..v + 1
    BY <1>1, <2>1
  <2>5. at \in [1..n + 1 -> 1..v + 1]
    BY <2>2, <2>4
  <2>6. ASSUME NEW k \in 1..n PROVE Reads(key[k], s, word, v, P(k), P(k + 1))
    <3>1. CASE k <= f
      <4>1. f = 1 /\ k = 1 /\ P(k) = 1 /\ P(k + 1) = b /\ key[k] = s
        BY <1>1, <3>1
      <4>2. 1 \in 1..v + 1 /\ 1 <= b
        OBVIOUS
      <4> QED
        BY <4>1, <4>2 DEF Reads
    <3>2. CASE ~(k <= f) /\ k <= f + m
      <4>1. PICK l \in 1..m : l = k - f /\ f + l = k
        BY <1>1, <3>2
      <4>2. P(k) = (b - 1) + l /\ P(k + 1) = ((b - 1) + l) + 1
        BY <1>1, <3>2, <4>1
      <4>3. (b - 1) + l \in 1..v
        BY <2>1
      <4>4. key[k] # s /\ word[(b - 1) + l] = key[k]
        BY <1>1, <2>1, <4>1
      <4> HIDE DEF P
      <4> QED
        BY <4>2, <4>3, <4>4 DEF Reads
    <3>3. CASE ~(k <= f + m)
      <4>1. g = 1 /\ k = n /\ k = (f + m) + 1
        BY <1>1, <3>3
      <4>2. P(k) = b + m /\ P(k + 1) = v + 1
        BY <1>1, <4>1
      <4>3. key[k] = s
        BY <1>1, <4>1
      <4>4. b + m \in 1..v + 1
        BY <2>1
      <4> HIDE DEF P
      <4> QED
        BY <4>2, <4>3, <4>4 DEF Reads
    <3> QED
      BY <3>1, <3>2, <3>3
  <2>7. \A k \in 1..n : k \in 1..n + 1 /\ k + 1 \in 1..n + 1
    OBVIOUS
  <2>8. P(1) = 1 /\ P(n + 1) = v + 1
    BY <1>1, <1>3
  <2>9. 1 \in 1..n + 1 /\ n + 1 \in 1..n + 1
    OBVIOUS
  <2> HIDE DEF P
  <2>10. Aligned(at, word, v, key, n, s)
    <3>1. \A k \in 1..n : Reads(key[k], s, word, v, at[k], at[k + 1])
      BY <2>3, <2>6, <2>7
    <3> QED
      BY <2>5, <3>1 DEF Aligned
  <2> QED
    BY <2>3, <2>8, <2>9, <2>10
<1>4. ReadsTo(word, v, key, n, s, 1, {v + 1})
        <=> \E at : Aligned(at, word, v, key, n, s) /\ at[1] = 1 /\ at[n + 1] = v + 1
  BY DEF ReadsTo
<1> QED
  BY <1>2, <1>3, <1>4 DEF Found

\* A word without its first f characters.
Rest(core, word, f) ==
    /\ f + Len(core) = Len(word)
    /\ \A l \in 1..Len(core) : core[l] = word[f + l]

\* The number of stars a keyword starts with.
First(word, s) == IF word # <<>> /\ word[1] = s THEN 1 ELSE 0

NoStarLater(word, s) == \A i \in 2..Len(word) : word[i] # s

LEMMA CoreOfMore ==
    ASSUME NEW S, NEW word \in Seq(S), NEW c \in S, NEW more, more = Append(word, c), NEW s,
           NoStarLater(more, s), NEW core, core = Without({s}, word), NoStarLater(word, s) => Rest(core, word, First(word, s))
    PROVE  Rest(Without({s}, more), more, First(more, s))
<1>1. PICK n \in Nat : n = Len(word)
  BY LenProperties
<1>2. /\ more \in Seq(S) /\ Len(more) = n + 1 /\ more[n + 1] = c
      /\ \A i \in 1..n : more[i] = word[i]
  BY <1>1, AppendProperties
<1>3. /\ core \in Seq(S)
      /\ Without({s}, more) = IF c \in {s} THEN core ELSE Append(core, c)
  BY WithoutAppend
<1>4. PICK m \in Nat : m = Len(core)
  BY <1>3, LenProperties
<1>5. NoStarLater(word, s)
  <2>1. \A i \in 2..n : i \in 2..n + 1 /\ i \in 1..n
    OBVIOUS
  <2> QED
    BY <1>1, <1>2, <2>1 DEF NoStarLater
<1>6. PICK f \in {0, 1} : f = First(word, s)
  BY DEF First
<1>7. f + m = n /\ \A l \in 1..m : core[l] = word[f + l]
  BY <1>1, <1>4, <1>5, <1>6 DEF Rest
<1>8. more # <<>>
  <2>1. Len(more) # 0
    BY <1>2
  <2> QED
    BY <2>1, EmptySeq
<1>9. n = 0 <=> word = <<>>
  BY <1>1, EmptySeq
<1>10. CASE c = s
  <2>1. n = 0
    <3>1. n # 0 => n + 1 \in 2..n + 1
      OBVIOUS
    <3> QED
      BY <1>2, <1>10, <3>1 DEF NoStarLater
  <2>2. First(more, s) = 1
    BY <1>2, <1>8, <1>10, <2>1 DEF First
  <2>3. m = 0 /\ Without({s}, more) = core
    BY <1>3, <1>7, <1>10, <2>1
  <2>4. Rest(core, more, 1)
    <3>1. 1 + Len(core) = Len(more)
      BY <1>2, <1>4, <2>1, <2>3
    <3>2. \A l \in 1..Len(core) : FALSE
      BY <1>4, <2>3
    <3> QED
      BY <3>1, <3>2 DEF Rest
  <2> QED
    BY <2>2, <2>3, <2>4
<1>11. CASE c # s
  <2>1. PICK end : end = Append(core, c)
    OBVIOUS
  <2>2. /\ Len(end) = m + 1 /\ end[m + 1] = c
        /\ \A l \in 1..m : end[l] = core[l]
    BY <1>3, <1>4, <2>1, AppendProperties
  <2>3. Without({s}, more) = end
    BY <1>3, <1>11, <2>1
  <2>4. First(more, s) = f
    <3>1. CASE n = 0
      BY <1>2, <1>6, <1>8, <1>9, <1>11, <3>1 DEF First
    <3>2. CASE n # 0
      <4>1. 1 \in 1..n
        BY <3>2
      <4> QED
        BY <1>2, <1>6, <1>8, <1>9, <3>2, <4>1 DEF First
    <3> QED
      BY <3>1, <3>2
  <2>5. f + (m + 1) = n + 1
    BY <1>7
  <2>6. \A l \in 1..m + 1 : end[l] = more[f + l]
    <3> TAKE l \in 1..m + 1
    <3>1. CASE l \in 1..m
      <4>1. f + l \in 1..n
        BY <1>7, <3>1
      <4> QED
        BY <1>2, <1>7, <2>2, <3>1, <4>1
    <3>2. CASE l = m + 1
      BY <1>2, <2>2, <2>5, <3>2
    <3>3. l \in 1..m \/ l = m + 1
      OBVIOUS
    <3> QED
      BY <3>1, <3>2, <3>3
  <2> QED
    BY <1>2, <2>2, <2>3, <2>4, <2>5, <2>6 DEF Rest
<1> QED
  BY <1>10, <1>11

LEMMA CoreOf ==
    ASSUME NEW S, NEW word \in Seq(S), NEW s, NoStarLater(word, s)
    PROVE  Rest(Without({s}, word), word, First(word, s))
<1> DEFINE A == {w \in Seq(S) : NoStarLater(w, s) => Rest(Without({s}, w), w, First(w, s))}
<1>1. <<>> \in A
  <2>1. PICK none \in Seq(S) : none = <<>> /\ Len(none) = 0
    BY EmptySeq
  <2>2. Without({s}, none) = none
    BY <2>1, WithoutNone
  <2>3. First(none, s) = 0
    BY <2>1 DEF First
  <2>4. Rest(none, none, 0)
    BY <2>1 DEF Rest
  <2> QED
    BY <2>1, <2>2, <2>3, <2>4
<1>2. ASSUME NEW w \in Seq(S), NEW c \in S, w \in A PROVE Append(w, c) \in A
  <2>1. PICK more \in Seq(S) : more = Append(w, c)
    BY AppendProperties
  <2>2. NoStarLater(more, s) => Rest(Without({s}, more), more, First(more, s))
    <3>1. NoStarLater(w, s) => Rest(Without({s}, w), w, First(w, s))
      BY <1>2
    <3> QED
      BY <2>1, <3>1, CoreOfMore
  <2> QED
    BY <2>1, <2>2
<1> HIDE DEF A
<1>3. word \in A
  BY <1>1, <1>2, WordInduction
<1> QED
  BY <1>3 DEF A

\* A keyword with stars at its ends only, unless it is just a star, has a core.
LEMMA ShapeOf ==
    ASSUME NEW S, NEW key \in Seq(S), NEW n \in Nat, n = Len(key), NEW s,
           \A i \in 2..n - 1 : key[i] # s, ~(n = 1 /\ key[1] = s),
           NEW core, core = Without({s}, key)
    PROVE  core \in Seq(S) /\ \E f, g : Shape(key, n, s, f, g, Len(core), core)
<1>1. core \in Seq(S)
  BY WithoutType
<1>2. PICK m \in Nat : m = Len(core)
  BY <1>1, LenProperties
<1>3. n = 0 <=> key = <<>>
  BY EmptySeq
<1>4. PICK f \in {0, 1} : f = First(key, s)
  BY DEF First
<1>5. f = 1 <=> n > 0 /\ key[1] = s
  BY <1>3, <1>4 DEF First
<1>6. CASE n > 0 /\ key[n] = s
  <2>1. n > 1
    BY <1>6
  <2>2. PICK front \in Seq(S) : \E c \in S : key = Append(front, c)
    BY <1>3, <1>6, SequenceEmptyOrAppend
  <2>3. PICK c \in S : key = Append(front, c)
    BY <2>2
  <2>4. PICK k \in Nat : k = Len(front)
    BY LenProperties
  <2>5. n = k + 1 /\ key[k + 1] = c /\ \A i \in 1..k : key[i] = front[i]
    BY <2>3, <2>4, AppendProperties
  <2>6. c \in {s}
    BY <1>6, <2>5
  <2>7. core = Without({s}, front)
    BY <2>3, <2>6, WithoutAppend
  <2>8. \A i \in 2..k : i \in 1..k /\ i \in 2..n - 1
    BY <2>5
  <2>9. NoStarLater(front, s)
    BY <2>4, <2>5, <2>8 DEF NoStarLater
  <2>10. Rest(core, front, First(front, s))
    BY <2>7, <2>9, CoreOf
  <2>11. First(front, s) = f
    <3>1. 1 \in 1..k /\ k # 0
      BY <2>1, <2>5
    <3>2. front # <<>>
      BY <2>4, <3>1, EmptySeq
    <3>3. front[1] = key[1]
      BY <2>5, <3>1
    <3> QED
      BY <1>4, <1>5, <1>6, <3>2, <3>3 DEF First
  <2>12. f + m = k /\ \A l \in 1..m : core[l] = front[f + l]
    BY <1>2, <2>4, <2>10, <2>11 DEF Rest
  <2>13. \A l \in 1..m : f + l \in 1..k /\ (f + l = 1 => f = 0)
    BY <2>12
  <2>14. \A l \in 1..m : core[l] = key[f + l]
    BY <2>5, <2>12, <2>13
  <2>15. \A l \in 1..m : key[f + l] # s
    <3> TAKE l \in 1..m
    <3>1. CASE f + l = 1
      BY <1>5, <1>6, <2>13, <3>1
    <3>2. CASE f + l # 1
      <4>1. f + l \in 2..n - 1
        BY <2>5, <2>13, <3>2
      <4> QED
        BY <4>1
    <3> QED
      BY <3>1, <3>2
  <2>16. n = (f + m) + 1
    BY <2>5, <2>12
  <2>17. Shape(key, n, s, f, 1, m, core)
    BY <1>2, <1>5, <1>6, <2>14, <2>15, <2>16 DEF Shape
  <2> QED
    BY <1>1, <1>2, <2>17
<1>7. CASE ~(n > 0 /\ key[n] = s)
  <2>1. \A i \in 2..n : key[i] # s
    <3> TAKE i \in 2..n
    <3>1. i \in 2..n - 1 \/ (i = n /\ n > 0)
      OBVIOUS
    <3> QED
      BY <1>7, <3>1
  <2>2. NoStarLater(key, s)
    BY <2>1 DEF NoStarLater
  <2>3. Rest(core, key, f)
    BY <1>4, <2>2, CoreOf
  <2>4. f + m = n /\ \A l \in 1..m : core[l] = key[f + l]
    BY <1>2, <2>3 DEF Rest
  <2>5. \A l \in 1..m : key[f + l] # s
    <3> TAKE l \in 1..m
    <3>1. f + l \in 1..n /\ (f + l = 1 => f = 0 /\ n > 0)
      <4>1. f + m = n /\ f \in Nat
        BY <2>4
      <4> QED
        BY <4>1
    <3>2. CASE f + l = 1
      BY <1>5, <3>1, <3>2
    <3>3. CASE f + l # 1
      <4>1. f + l \in 2..n
        BY <3>1, <3>3
      <4> QED
        BY <2>1, <4>1
    <3> QED
      BY <3>2, <3>3
  <2>6. PICK g \in {0, 1} : g = 0 /\ n = (f + m) + g
    BY <2>4
  <2>7. g = 1 <=> n > 0 /\ key[n] = s
    BY <1>7, <2>6
  <2>8. Shape(key, n, s, f, g, m, core)
    BY <1>2, <1>5, <2>4, <2>5, <2>6, <2>7 DEF Shape
  <2> QED
    BY <1>1, <1>2, <2>8
<1> QED
  BY <1>6, <1>7

\* Where a core is found: at the start, at the end, as the whole of a word, or anywhere.
LEMMA StandsFirst ==
    ASSUME NEW S, NEW word \in Seq(S), NEW core \in Seq(S), NEW v \in Nat, v = Len(word), NEW m \in Nat, m = Len(core)
    PROVE  v >= m /\ SubSeq(word, 1, m) = core <=> Stands(word, v, core, m, 1)
<1>1. (1 - 1) = 0 /\ (1 + m <= v + 1 <=> v >= m)
  OBVIOUS
<1>2. ASSUME v >= m PROVE SubSeq(word, 1, m) = core <=> \A l \in 1..m : word[l] = core[l]
  <2>1. PICK e : e = SubSeq(word, 1, m)
    OBVIOUS
  <2>2. \A i \in 1..m : i \in 1..v
    BY <1>2
  <2>3. \A i \in 1..m : word[i] \in S
    BY <2>2, ElementOfSeq
  <2>4. PICK one \in Int : one = 1
    OBVIOUS
  <2>5. /\ e \in Seq(S) /\ Len(e) = (IF one <= m THEN (m - one) + 1 ELSE 0)
        /\ \A i \in 1..(m - one) + 1 : e[i] = word[(one + i) - 1]
    BY <2>1, <2>3, <2>4, SubSeqProperties
  <2>6. Len(e) = m
    BY <2>4, <2>5
  <2>7. \A i \in 1..m : i \in 1..(m - one) + 1 /\ (one + i) - 1 = i
    BY <2>4
  <2>8. \A i \in 1..m : e[i] = word[i]
    BY <2>5, <2>7
  <2>9. e = core <=> \A i \in 1..m : e[i] = core[i]
    BY <2>5, <2>6, SeqEqual
  <2> QED
    BY <2>1, <2>8, <2>9
<1>3. \A l \in 1..m : (1 - 1) + l = l
  OBVIOUS
<1> QED
  BY <1>1, <1>2, <1>3 DEF Stands

LEMMA StandsLast ==
    ASSUME NEW S, NEW word \in Seq(S), NEW core \in Seq(S), NEW v \in Nat, v = Len(word), NEW m \in Nat, m = Len(core)
    PROVE  EndsWith(word, core) <=> Stands(word, v, core, m, (v + 1) - m)
<1>1. EndsWith(word, core) <=> SameEnd(word, v, core, m, m)
  BY EndsWithIs
<1>2. ((v + 1) - m) - 1 = v - m /\ ((v + 1) - m) + m <= v + 1 /\ ((v + 1) - m >= 1 <=> v >= m)
  OBVIOUS
<1>3. \A l \in 1..m : (m - m) + l = l
  OBVIOUS
<1> QED
  BY <1>1, <1>2, <1>3 DEF SameEnd, Stands

LEMMA StandsAlone ==
    ASSUME NEW S, NEW word \in Seq(S), NEW core \in Seq(S), NEW v \in Nat, v = Len(word), NEW m \in Nat, m = Len(core)
    PROVE  word = core <=> v = m /\ Stands(word, v, core, m, 1)
<1>1. word = core <=> v = m /\ \A i \in 1..m : word[i] = core[i]
  BY SeqEqual
<1>2. \A l \in 1..m : (1 - 1) + l = l
  OBVIOUS
<1> QED
  BY <1>1, <1>2 DEF Stands

LEMMA StandsSomewhere ==
    ASSUME NEW S, NEW word \in Seq(S), NEW core \in Seq(S), NEW v \in Nat, v = Len(word), NEW m \in Nat, m = Len(core)
    PROVE  (\E i \in 0..v : EndsWith(SubSeq(word, 1, i), core)) <=> \E b \in 1..v + 1 : Stands(word, v, core, m, b)
<1>1. ASSUME NEW i \in 0..v
      PROVE  EndsWith(SubSeq(word, 1, i), core) <=> Stands(word, v, core, m, (i + 1) - m)
  <2>1. PICK e : e = SubSeq(word, 1, i)
    OBVIOUS
  <2>2. \A k \in 1..i : k \in 1..v
    OBVIOUS
  <2>3. \A k \in 1..i : word[k] \in S
    BY <2>2, ElementOfSeq
  <2>4. PICK one \in Int : one = 1
    OBVIOUS
  <2>5. /\ e \in Seq(S) /\ Len(e) = (IF one <= i THEN (i - one) + 1 ELSE 0)
        /\ \A k \in 1..(i - one) + 1 : e[k] = word[(one + k) - 1]
    BY <2>1, <2>3, <2>4, SubSeqProperties
  <2>6. i = Len(e)
    BY <2>4, <2>5
  <2>7. \A k \in 1..i : k \in 1..(i - one) + 1 /\ (one + k) - 1 = k
    BY <2>4
  <2>8. \A k \in 1..i : e[k] = word[k]
    BY <2>5, <2>7
  <2>9. i \in Nat
    OBVIOUS
  <2>10. EndsWith(e, core) <=> Stands(e, i, core, m, (i + 1) - m)
    BY <2>5, <2>6, <2>9, StandsLast
  <2>11. Stands(e, i, core, m, (i + 1) - m) <=> Stands(word, v, core, m, (i + 1) - m)
    <3>1. PICK b : b = (i + 1) - m
      OBVIOUS
    <3>2. b \in Int /\ b + m <= i + 1 /\ b + m <= v + 1
      BY <3>1
    <3>3. b >= 1 => \A l \in 1..m : (b - 1) + l \in 1..i
      BY <3>1, <3>2
    <3>4. b >= 1 => \A l \in 1..m : e[(b - 1) + l] = word[(b - 1) + l]
      BY <2>8, <3>3
    <3> QED
      BY <3>1, <3>2, <3>4 DEF Stands
  <2> QED
    BY <2>1, <2>10, <2>11
<1>2. ASSUME NEW i \in 0..v, Stands(word, v, core, m, (i + 1) - m)
      PROVE  \E b \in 1..v + 1 : Stands(word, v, core, m, b)
  <2>1. PICK b : b = (i + 1) - m
    OBVIOUS
  <2>2. Stands(word, v, core, m, b)
    BY <1>2, <2>1
  <2>3. b \in Int /\ b >= 1
    BY <2>1, <2>2 DEF Stands
  <2> QED
    BY <2>1, <2>2, <2>3
<1>3. ASSUME NEW b \in 1..v + 1, Stands(word, v, core, m, b)
      PROVE  \E i \in 0..v : Stands(word, v, core, m, (i + 1) - m)
  <2>1. b + m <= v + 1
    BY <1>3 DEF Stands
  <2>2. PICK i : i = (b + m) - 1
    OBVIOUS
  <2>3. i \in 0..v /\ (i + 1) - m = b
    BY <2>1, <2>2
  <2> QED
    BY <1>3, <2>3
<1> QED
  BY <1>1, <1>2, <1>3

\* What is documented of a keyword with a core.
LEMMA DocumentedIs ==
    ASSUME NEW S, NEW word \in Seq(S), NEW v \in Nat, v = Len(word), NEW key \in Seq(S), NEW n \in Nat, n = Len(key),
           NEW s, s = "*", NEW core \in Seq(S), core = Without({s}, key), NEW m \in Nat, m = Len(core),
           NEW f, NEW g, Shape(key, n, s, f, g, m, core)
    PROVE  Documented(word, key) <=> Found(word, v, core, m, f, g)
<1> DEFINE starts == Len(key) > 0 /\ key[Len(key)] = "*"
           ends   == Len(key) > 0 /\ key[1] = "*"
<1>1. /\ starts /\ ends => (Documented(word, key) <=> \E i \in 0..v : EndsWith(SubSeq(word, 1, i), core))
      /\ starts /\ ~ends => (Documented(word, key) <=> v >= m /\ SubSeq(word, 1, m) = core)
      /\ ~starts /\ ends => (Documented(word, key) <=> EndsWith(word, core))
      /\ ~starts /\ ~ends => (Documented(word, key) <=> word = core)
  <2>1. /\ starts /\ ends => (Documented(word, key) <=> \E i \in 0..Len(word) : EndsWith(SubSeq(word, 1, i), core))
        /\ starts /\ ~ends => (Documented(word, key) <=> Len(word) >= Len(core) /\ SubSeq(word, 1, Len(core)) = core)
        /\ ~starts /\ ends => (Documented(word, key) <=> EndsWith(word, core))
        /\ ~starts /\ ~ends => (Documented(word, key) <=> word = core)
    <3>1. core = Without({"*"}, key)
      OBVIOUS
    <3>2. ASSUME starts, ends
          PROVE  Documented(word, key) <=> \E i \in 0..Len(word) : EndsWith(SubSeq(word, 1, i), core)
      BY <3>1, <3>2, Zenon DEF Documented
    <3>3. ASSUME starts, ~ends
          PROVE  Documented(word, key) <=> Len(word) >= Len(core) /\ SubSeq(word, 1, Len(core)) = core
      BY <3>1, <3>3, Zenon DEF Documented
    <3>4. ASSUME ~starts, ends PROVE Documented(word, key) <=> EndsWith(word, core)
      BY <3>1, <3>4, Zenon DEF Documented
    <3>5. ASSUME ~starts, ~ends PROVE Documented(word, key) <=> word = core
      BY <3>1, <3>5, Zenon DEF Documented
    <3> HIDE DEF starts, ends
    <3> QED
      BY <3>2, <3>3, <3>4, <3>5
  <2> HIDE DEF starts, ends
  <2> QED
    BY <2>1
<1>2. /\ f \in {0, 1} /\ g \in {0, 1}
      /\ f = 1 <=> ends
      /\ g = 1 <=> starts
  BY DEF Shape
<1> HIDE DEF starts, ends
<1>3. CASE f = 1 /\ g = 1
  <2>1. Documented(word, key) <=> \E b \in 1..v + 1 : Stands(word, v, core, m, b)
    BY <1>1, <1>2, <1>3, StandsSomewhere
  <2> QED
    BY <1>3, <2>1 DEF Found
<1>4. CASE f = 0 /\ g = 1
  <2>1. Documented(word, key) <=> v >= m /\ SubSeq(word, 1, m) = core
    BY <1>1, <1>2, <1>4
  <2>2. v >= m /\ SubSeq(word, 1, m) = core <=> Stands(word, v, core, m, 1)
    BY StandsFirst
  <2>3. 1 \in 1..v + 1
    OBVIOUS
  <2> QED
    BY <1>4, <2>1, <2>2, <2>3 DEF Found
<1>5. CASE f = 1 /\ g = 0
  <2>1. PICK c \in Int : c = (v + 1) - m
    OBVIOUS
  <2>2. Documented(word, key) <=> Stands(word, v, core, m, c)
    BY <1>1, <1>2, <1>5, <2>1, StandsLast
  <2>3. \A b \in 1..v + 1 : b + m = v + 1 <=> b = c
    BY <2>1
  <2>4. Stands(word, v, core, m, c) => c \in 1..v + 1
    BY <2>1 DEF Stands
  <2> QED
    BY <1>5, <2>2, <2>3, <2>4 DEF Found
<1>6. CASE f = 0 /\ g = 0
  <2>1. Documented(word, key) <=> v = m /\ Stands(word, v, core, m, 1)
    BY <1>1, <1>2, <1>6, StandsAlone
  <2>2. 1 \in 1..v + 1 /\ (1 + m = v + 1 <=> v = m)
    OBVIOUS
  <2> QED
    BY <1>6, <2>1, <2>2 DEF Found
<1> QED
  BY <1>2, <1>3, <1>4, <1>5, <1>6

\* A keyword of stars only, one of them.
LEMMA JustStar ==
    ASSUME NEW S, NEW word \in Seq(S), NEW v \in Nat, v = Len(word), NEW key \in Seq(S), 1 = Len(key),
           NEW s, s = "*", key[1] = s
    PROVE  /\ ReadsTo(word, v, key, 1, s, 1, {v + 1})
           /\ Documented(word, key)
<1>1. ReadsTo(word, v, key, 1, s, 1, {v + 1})
  <2>1. PICK at : at = [k \in 1..1 + 1 |-> IF k = 1 THEN 1 ELSE v + 1]
    OBVIOUS
  <2>2. at \in [1..1 + 1 -> 1..v + 1] /\ at[1] = 1 /\ at[1 + 1] = v + 1
    BY <2>1
  <2>3. Reads(key[1], s, word, v, at[1], at[1 + 1])
    BY <2>2 DEF Reads
  <2> QED
    BY <2>2, <2>3 DEF ReadsTo, Aligned
<1>2. Documented(word, key)
  <2>1. PICK core : core = Without({"*"}, key)
    OBVIOUS
  <2>2. core \in Seq(S)
    BY <2>1, WithoutType
  <2>3. core = <<>>
    <3>1. key # <<>>
      <4>1. PICK none, zero : none = <<>> /\ zero = 0 /\ Len(none) = zero
        BY EmptySeq
      <4>2. zero # 1
        BY <4>1
      <4> QED
        BY <4>1, <4>2, Zenon
    <3>2. PICK front \in Seq(S) : \E c \in S : key = Append(front, c)
      BY <3>1, SequenceEmptyOrAppend
    <3>3. PICK c \in S : key = Append(front, c)
      BY <3>2
    <3>4. PICK k \in Nat : k = Len(front)
      BY LenProperties
    <3>5. 1 = k + 1 /\ key[k + 1] = c
      BY <3>3, <3>4, AppendProperties
    <3>6. k = 0 /\ c \in {"*"}
      BY <3>5
    <3>7. front = <<>>
      BY <3>4, <3>6, EmptySeq
    <3>8. Without({"*"}, key) = Without({"*"}, front)
      BY <3>3, <3>6, WithoutAppend
    <3> QED
      BY <2>1, <3>7, <3>8, WithoutNone
  <2>4. PICK i : i = 0
    OBVIOUS
  <2>5. i \in 0..Len(word) /\ EndsWith(SubSeq(word, 1, i), core)
    <3>1. i \in 0..Len(word)
      BY <2>4
    <3>2. PICK m \in Nat : m = 0 /\ m = Len(core)
      BY <2>3, EmptySeq
    <3>3. SubSeq(word, 1, i) = <<>>
      BY <2>4, SubSeqEmpty
    <3>4. PICK none \in Seq(S) : none = <<>> /\ Len(none) = m
      BY <3>2, EmptySeq
    <3>5. Stands(none, m, core, m, (m + 1) - m)
      BY <3>2 DEF Stands
    <3>6. EndsWith(none, core)
      BY <2>2, <3>2, <3>4, <3>5, StandsLast
    <3> QED
      BY <3>1, <3>3, <3>4, <3>6
  <2>6. Len(key) > 0 /\ key[Len(key)] = "*" /\ key[1] = "*"
    <3>1. PICK n : n = Len(key)
      OBVIOUS
    <3>2. n > 0 /\ key[n] = s /\ key[1] = s
      BY <3>1
    <3> QED
      BY <3>1, <3>2
  <2>7. \E j \in 0..Len(word) : EndsWith(SubSeq(word, 1, j), Without({"*"}, key))
    BY <2>1, <2>5
  <2> QED
    BY <2>6, <2>7, Zenon DEF Documented
<1> QED
  BY <1>1, <1>2

\* With stars at its ends only, a keyword matches what is documented of it.
LEMMA DocumentedReads ==
    ASSUME NEW S, NEW word \in Seq(S), NEW v \in Nat, v = Len(word), NEW key \in Seq(S), NEW n \in Nat, n = Len(key),
           NEW s, s = "*", \A i \in 2..n - 1 : key[i] # s
    PROVE  ReadsTo(word, v, key, n, s, 1, {v + 1}) <=> Documented(word, key)
<1>1. CASE n = 1 /\ key[1] = s
  <2>1. 1 = Len(key) /\ key[1] = s
    BY <1>1
  <2>2. ReadsTo(word, v, key, 1, s, 1, {v + 1}) /\ Documented(word, key)
    BY <2>1, JustStar
  <2> QED
    BY <1>1, <2>2
<1>2. CASE ~(n = 1 /\ key[1] = s)
  <2>1. PICK core : core = Without({s}, key)
    OBVIOUS
  <2>2. core \in Seq(S) /\ \E f, g : Shape(key, n, s, f, g, Len(core), core)
    BY <1>2, <2>1, ShapeOf
  <2>3. PICK m \in Nat : m = Len(core)
    BY <2>2, LenProperties
  <2>4. PICK f, g : Shape(key, n, s, f, g, m, core)
    BY <2>2, <2>3
  <2>5. ReadsTo(word, v, key, n, s, 1, {v + 1}) <=> Found(word, v, core, m, f, g)
    BY <2>4, ReadsShape
  <2>6. Documented(word, key) <=> Found(word, v, core, m, f, g)
    BY <2>1, <2>2, <2>3, <2>4, DocumentedIs
  <2> QED
    BY <2>5, <2>6
<1> QED
  BY <1>1, <1>2

LEMMA LikeIsBoolean == ASSUME NEW word, NEW pattern PROVE Like(word, pattern) \in BOOLEAN
  BY DEF Like

LEMMA MatchesIsBoolean == ASSUME NEW word, NEW pattern PROVE KeywordMatches(word, pattern) \in BOOLEAN
  BY DEF KeywordMatches

LEMMA WildcardsFollow == ASSUME TwinsTypeOK PROVE WildcardsAgree
<1> SUFFICES ASSUME subject = "wildcard"
             PROVE  /\ LikeLength(other) <= PatternLimit =>
                           Like(value, WildcardToLike(other)) = KeywordMatches(value, other)
                    /\ (\A i \in 2..Len(other) - 1 : other[i] # "*") =>
                           KeywordMatches(value, other) = Documented(value, other)
  BY Zenon DEF WildcardsAgree
<1>1. PICK o, pc, u, s, e : Marks(o, pc, u, s, e)
  BY Zenon DEF Marks
<1>2. PICK R : R = Alphabet[subject] \cup {o, pc, u, s, e}
  OBVIOUS
<1>3. value \in Seq(R) /\ other \in Seq(R)
  <2>1. Alphabet[subject] \subseteq R
    BY <1>2
  <2> QED
    BY <2>1, SeqMonotonic DEF TwinsTypeOK
<1>4. o \in R /\ pc \in R /\ u \in R /\ s \in R /\ e \in R
  BY <1>2
<1>5. s = "*"
  BY <1>1, Zenon DEF Marks
<1>6. PICK v \in Nat : v = Len(value)
  BY <1>3, LenProperties
<1>7. PICK n \in Nat : n = Len(other)
  BY <1>3, LenProperties
<1>8. PICK reads : reads <=> ReadsTo(value, v, other, n, s, 1, {v + 1})
  OBVIOUS
<1>9. ASSUME LikeLength(other) <= PatternLimit PROVE Like(value, WildcardToLike(other)) <=> reads
  BY <1>1, <1>3, <1>4, <1>6, <1>7, <1>8, <1>9, LikeReads
<1>10. KeywordMatches(value, other) <=> reads
  BY <1>5, <1>6, <1>7, <1>8, KeywordReads
<1>11. ASSUME \A i \in 2..n - 1 : other[i] # s PROVE Documented(value, other) <=> reads
  BY <1>3, <1>5, <1>6, <1>7, <1>8, <1>11, DocumentedReads
<1>12. /\ Like(value, WildcardToLike(other)) \in BOOLEAN
       /\ KeywordMatches(value, other) \in BOOLEAN
  BY LikeIsBoolean, MatchesIsBoolean
<1>13. Documented(value, other) \in BOOLEAN
  BY Zenon DEF Documented, EndsWith
<1> QED
  BY <1>5, <1>7, <1>9, <1>10, <1>11, <1>12, <1>13

-----------------------------------------------------------------------------
(* Names of columns.                                                       *)

LEMMA CandidateType ==
    ASSUME NEW S, NEW header \in Seq(S) PROVE Candidate(header) \in Seq(WordChars)
<1> DEFINE ascii == Without(Foreign, header)
           mapped == [i \in DOMAIN ascii |-> IF ascii[i] \in WordChars THEN ascii[i] ELSE "_"]
           kept == {i \in DOMAIN mapped : mapped[i] \notin {"_"}}
<1>1. ascii \in Seq(S)
  BY WithoutType
<1>2. DOMAIN ascii = 1..Len(ascii) /\ Len(ascii) \in Nat
  BY <1>1, LenProperties
<1>3. "_" \in WordChars
  BY DEF WordChars
<1>4. mapped \in [1..Len(ascii) -> WordChars]
  BY <1>2, <1>3
<1>5. Candidate(header) = IF kept = {} THEN <<>> ELSE SubSeq(mapped, Min(kept), Max(kept))
  BY DEF Candidate, Trimmed
<1>6. mapped \in Seq(WordChars) /\ Len(mapped) = Len(ascii)
  <2> HIDE DEF mapped, ascii
  <2> QED
    BY <1>2, <1>4, SeqIs
<1>7. PICK n \in Nat : n = Len(mapped) /\ DOMAIN mapped = 1..n
  BY <1>6, LenProperties
<1>8. kept \in SUBSET (1..n) /\ kept \in SUBSET Nat
  <2>1. PICK places : places = DOMAIN mapped /\ places = 1..n
    BY <1>7
  <2>2. \A i \in kept : i \in places
    BY <2>1
  <2>3. \A i \in kept : i \in 1..n /\ i \in Nat
    <3> HIDE DEF kept
    <3> QED
      BY <2>1, <2>2
  <2> HIDE DEF kept
  <2> QED
    BY <2>3
<1> HIDE DEF mapped, kept, ascii
<1>9. ASSUME kept # {} PROVE SubSeq(mapped, Min(kept), Max(kept)) \in Seq(WordChars)
  <2>1. \E m \in kept : \A k \in kept : m <= k
    BY <1>8, <1>9, LeastIsThere
  <2>2. Min(kept) \in kept
    BY <2>1 DEF Min
  <2>3. Max(kept) \in kept
    BY <1>8, <1>9, MaxIsThere
  <2>4. PICK m, l \in 1..n : m = Min(kept) /\ l = Max(kept)
    BY <1>8, <2>2, <2>3
  <2>5. m \in 1..(n + 1) /\ l \in 0..n
    OBVIOUS
  <2>6. SubSeq(mapped, m, l) \in Seq(WordChars)
    BY <1>6, <1>7, <2>5, PartOfWord
  <2> QED
    BY <2>4, <2>6
<1> QED
  BY <1>5, <1>9, EmptySeq

LEMMA CutToType ==
    ASSUME NEW S, NEW word \in Seq(S), NEW n \in Nat
    PROVE  CutTo(n, word) \in Seq(S) /\ Len(CutTo(n, word)) <= n
<1>1. PICK l \in Nat : l = Len(word)
  BY LenProperties
<1>2. \E m \in {n, l} : \A k \in {n, l} : m <= k
  BY <1>1
<1>3. Min({n, l}) \in {n, l} /\ Min({n, l}) <= l /\ Min({n, l}) <= n
  BY <1>2 DEF Min
<1>4. PICK m \in 0..Len(word) : m = Min({n, l}) /\ m <= n
  BY <1>1, <1>3
<1>5. SubSeq(word, 1, m) \in Seq(S) /\ IsFront(SubSeq(word, 1, m), word, m)
  BY FrontIs
<1>6. CutTo(n, word) = SubSeq(word, 1, m)
  BY <1>1, <1>4, Zenon DEF CutTo
<1> QED
  BY <1>4, <1>5, <1>6 DEF IsFront

\* What a name is put together of.
Spelled(name, ordinal, rest) == name = <<"c", "_">> \o ordinal \o <<"_">> \o rest

\* Its characters, as far as the position goes.
IsNamed(name, ordinal, rest) ==
    /\ name \in Seq(WordChars) /\ Len(name) >= 2 /\ Len(name) \in Nat /\ name[1] = "c"
    /\ \A i \in 1..Len(ordinal) : name[2 + i] = ordinal[i]
    /\ name[3 + Len(ordinal)] = "_"
    /\ Len(name) = (3 + Len(ordinal)) + Len(rest)

LEMMA NameFacts ==
    ASSUME NEW ordinal \in Ordinals, NEW rest \in Seq(WordChars), NEW name, Spelled(name, ordinal, rest)
    PROVE  IsNamed(name, ordinal, rest)
<1>1. PICK W : W = WordChars
  OBVIOUS
<1>2. PICK x, y \in W : x = "c" /\ y = "_"
  BY <1>1 DEF WordChars, Letters
<1>3. PICK c, u : c = << x, y >> /\ u = << y >>
  OBVIOUS
<1>4. c \in Seq(W) /\ Len(c) = 2 /\ c[1] = x /\ u \in Seq(W) /\ Len(u) = 1 /\ u[1] = y
  BY <1>3
<1>5. ordinal \in Seq(W)
  <2>1. ordinal \in Seq(Digits)
    BY OrdinalsAssumption
  <2>2. Digits \subseteq W
    BY <1>1 DEF WordChars
  <2> QED
    BY <2>1, <2>2, SeqMonotonic
<1>6. PICK n, m \in Nat : n = Len(ordinal) /\ m = Len(rest) /\ rest \in Seq(W)
  BY <1>1, <1>5, LenProperties
<1>7. PICK one \in Seq(W) : one = c \o ordinal
  BY <1>4, <1>5, ConcatProperties
<1>8. PICK two \in Seq(W) : two = one \o u
  BY <1>4, ConcatProperties
<1>9. name = two \o rest
  BY <1>2, <1>3, <1>7, <1>8 DEF Spelled
<1>10. Len(one) = 2 + n /\ one[1] = x /\ \A i \in 1..n : one[2 + i] = ordinal[i]
  <2>1. PICK k \in Nat : k = 2
    OBVIOUS
  <2>2. Len(c) = k
    BY <1>4, <2>1
  <2>3. PartsAt(one, c, ordinal, k)
    BY <1>4, <1>5, <1>7, <2>2, ConcatPlaces
  <2>4. /\ Len(one) = k + n /\ \A i \in 1..k : one[i] = c[i]
        /\ \A i \in 1..n : one[k + i] = ordinal[i]
    BY <1>6, <2>3 DEF PartsAt
  <2>5. 1 \in 1..k
    BY <2>1
  <2> QED
    BY <1>4, <2>1, <2>4, <2>5
<1>11. /\ Len(two) = 3 + n /\ two[3 + n] = y
       /\ \A i \in 1..(2 + n) : two[i] = one[i]
  <2>1. PICK k \in Nat : k = 2 + n
    OBVIOUS
  <2>2. Len(one) = k
    BY <1>10, <2>1
  <2>3. PartsAt(two, one, u, k)
    BY <1>4, <1>8, <2>2, ConcatPlaces
  <2>4. /\ Len(two) = k + 1 /\ \A i \in 1..k : two[i] = one[i]
        /\ \A i \in 1..1 : two[k + i] = u[i]
    BY <1>4, <2>3 DEF PartsAt
  <2>5. k + 1 = 3 + n /\ 1 \in 1..1
    BY <2>1
  <2>6. two[k + 1] = y
    BY <1>4, <2>4, <2>5
  <2> QED
    BY <2>1, <2>4, <2>5, <2>6
<1>12. /\ name \in Seq(W) /\ Len(name) = (3 + n) + m
       /\ \A i \in 1..(3 + n) : name[i] = two[i]
  <2>1. PICK k \in Nat : k = 3 + n
    OBVIOUS
  <2>2. Len(two) = k
    BY <1>11, <2>1
  <2>3. name \in Seq(W) /\ PartsAt(name, two, rest, k)
    BY <1>6, <1>9, <2>2, ConcatPlaces
  <2> QED
    BY <1>6, <2>1, <2>3 DEF PartsAt
<1>13. /\ \A i \in 1..n : 2 + i \in 1..(3 + n) /\ 2 + i \in 1..(2 + n)
       /\ 1 \in 1..(3 + n) /\ 1 \in 1..(2 + n) /\ 3 + n \in 1..(3 + n)
       /\ (3 + n) + m >= 2 /\ (3 + n) + m \in Nat
  OBVIOUS
<1>14. /\ name[1] = x /\ name[3 + n] = y /\ \A i \in 1..n : name[2 + i] = ordinal[i]
  BY <1>10, <1>11, <1>12, <1>13
<1>15. Len(name) >= 2 /\ Len(name) \in Nat /\ name \in Seq(WordChars)
  BY <1>1, <1>12, <1>13
<1> QED
  BY <1>2, <1>6, <1>12, <1>14, <1>15, Zenon DEF IsNamed

\* It fits into an identifier, which cuts nothing of it.
LEMMA NameIs ==
    ASSUME NEW S, NEW header \in Seq(S), NEW ordinal \in Ordinals
    PROVE  \E rest \in Seq(WordChars) : /\ Spelled(SanitizeColumnName(header, ordinal), ordinal, rest)
                                        /\ Len(SanitizeColumnName(header, ordinal)) <= IdentifierLimit
<1> DEFINE named == Candidate(header) # <<>> /\ Candidate(header)[1] \notin Digits
           name == IF named THEN Candidate(header) ELSE <<"c", "o", "l", "_">> \o ordinal
<1>1. ordinal \in Seq(WordChars)
  <2>1. ordinal \in Seq(Digits)
    BY OrdinalsAssumption
  <2>2. Digits \subseteq WordChars
    BY DEF WordChars
  <2> QED
    BY <2>1, <2>2, SeqMonotonic
<1>2. <<"c", "o", "l", "_">> \in Seq(WordChars)
  BY DEF WordChars, Letters
<1>3. <<"c", "o", "l", "_">> \o ordinal \in Seq(WordChars)
  <2>1. PICK col \in Seq(WordChars) : col = <<"c", "o", "l", "_">>
    BY <1>2
  <2>2. col \o ordinal \in Seq(WordChars)
    BY <1>1, ConcatProperties
  <2> QED
    BY <2>1, <2>2
<1>4. name \in Seq(WordChars)
  BY <1>3, CandidateType
<1>5. PICK rest, whole : rest = CutTo(NameLimit, name) /\ whole = <<"c", "_">> \o ordinal \o <<"_">> \o rest
  OBVIOUS
<1>6. SanitizeColumnName(header, ordinal) = CutTo(IdentifierLimit, whole)
  BY <1>5 DEF SanitizeColumnName
<1> HIDE DEF name
<1>7. PICK limit, most \in Nat : limit = IdentifierLimit /\ most = NameLimit
  BY LimitsAssumption
<1>8. rest \in Seq(WordChars) /\ Len(rest) <= most
  BY <1>4, <1>5, <1>7, CutToType
<1>9. Spelled(whole, ordinal, rest)
  BY <1>5 DEF Spelled
<1>10. whole \in Seq(WordChars) /\ Len(whole) = (3 + Len(ordinal)) + Len(rest)
  <2>1. IsNamed(whole, ordinal, rest)
    BY <1>8, <1>9, NameFacts
  <2> QED
    BY <2>1, Zenon DEF IsNamed
<1>11. PICK l, m \in Nat : l = Len(ordinal) /\ m = Len(rest)
  BY <1>1, <1>8, LenProperties
<1>12. l + 3 + most <= limit
  BY <1>7, <1>11, OrdinalsAssumption
<1>13. Len(whole) <= limit
  BY <1>8, <1>10, <1>11, <1>12
<1>14. CutTo(limit, whole) = whole
  BY <1>10, <1>13, CutFits
<1> QED
  BY <1>6, <1>7, <1>8, <1>9, <1>13, <1>14

LEMMA ColumnNamesFollow == ASSUME TwinsTypeOK PROVE ColumnNamesDistinct
<1> SUFFICES ASSUME NEW o \in Ordinals, NEW p \in Ordinals
             PROVE  /\ SafeIdentifier(SanitizeColumnName(value, o))
                    /\ o # p => SanitizeColumnName(value, o) # SanitizeColumnName(other, p)
  BY DEF ColumnNamesDistinct
<1>1. PICK S : S = Alphabet[subject] /\ value \in Seq(S) /\ other \in Seq(S)
  BY DEF TwinsTypeOK
<1>2. PICK name : name = SanitizeColumnName(value, o)
  OBVIOUS
<1>3. PICK rival : rival = SanitizeColumnName(other, p)
  OBVIOUS
<1>4. /\ name \in Seq(WordChars) /\ Len(name) >= 2 /\ Len(name) \in Nat /\ name[1] = "c"
      /\ \A i \in 1..Len(o) : name[2 + i] = o[i]
      /\ name[3 + Len(o)] = "_" /\ Len(name) <= IdentifierLimit
  <2>1. PICK more \in Seq(WordChars) : Spelled(name, o, more) /\ Len(name) <= IdentifierLimit
    BY <1>1, <1>2, NameIs
  <2>2. IsNamed(name, o, more)
    BY <2>1, NameFacts
  <2> QED
    BY <2>1, <2>2, Zenon DEF IsNamed
<1>5. /\ rival \in Seq(WordChars) /\ Len(rival) >= 2 /\ Len(rival) \in Nat /\ rival[1] = "c"
      /\ \A i \in 1..Len(p) : rival[2 + i] = p[i]
      /\ rival[3 + Len(p)] = "_"
  <2>1. PICK more \in Seq(WordChars) : Spelled(rival, p, more) /\ Len(rival) <= IdentifierLimit
    BY <1>1, <1>3, NameIs
  <2>2. IsNamed(rival, p, more)
    BY <2>1, NameFacts
  <2> QED
    BY <2>1, <2>2, Zenon DEF IsNamed
<1>6. SafeIdentifier(name)
  <2>1. name # <<>>
    <3>1. PICK k \in Nat : k = Len(name) /\ k >= 2
      BY <1>4
    <3>2. Len(name) # 0
      BY <3>1
    <3>3. Len(<<>>) = 0
      BY EmptySeq
    <3> QED
      BY <3>2, <3>3, Zenon
  <2>2. \A i \in DOMAIN name : name[i] \in WordChars
    BY <1>4, ElementOfSeq, LenProperties
  <2>3. name[1] \notin Digits
    BY <1>4 DEF Digits
  <2> QED
    BY <1>4, <2>1, <2>2, <2>3 DEF SafeIdentifier
<1>7. PICK D : D = Digits
  OBVIOUS
<1>8. o \in Seq(D) /\ p \in Seq(D)
  BY <1>7, OrdinalsAssumption
<1>9. PICK m, n \in Nat : m = Len(o) /\ n = Len(p)
  BY <1>8, LenProperties
<1>10. /\ \A i \in 1..m : o[i] \in D
       /\ \A i \in 1..n : p[i] \in D
  BY <1>8, <1>9, ElementOfSeq
<1>11. "_" \notin D
  BY <1>7 DEF Digits
\* Of two positions the shorter ends where the other still has a digit.
<1>12. ASSUME name = rival PROVE o = p
  <2>1. /\ \A i \in 1..m : name[2 + i] = o[i]
        /\ \A i \in 1..n : name[2 + i] = p[i]
        /\ name[3 + m] = "_" /\ name[3 + n] = "_"
    BY <1>4, <1>5, <1>9, <1>12
  <2>2. CASE m = n
    <3>1. \A i \in 1..m : o[i] = p[i]
      BY <2>1, <2>2
    <3> QED
      BY <1>8, <1>9, <2>2, <3>1, SeqEqual
  <2>3. CASE m < n
    <3>1. 1 + m \in 1..n /\ 2 + (1 + m) = 3 + m
      BY <2>3
    <3>2. name[3 + m] = p[1 + m]
      BY <2>1, <3>1
    <3> QED
      BY <1>10, <1>11, <2>1, <3>1, <3>2
  <2>4. CASE n < m
    <3>1. 1 + n \in 1..m /\ 2 + (1 + n) = 3 + n
      BY <2>4
    <3>2. name[3 + n] = o[1 + n]
      BY <2>1, <3>1
    <3> QED
      BY <1>10, <1>11, <2>1, <3>1, <3>2
  <2>5. m = n \/ m < n \/ n < m
    OBVIOUS
  <2> QED
    BY <2>2, <2>3, <2>4, <2>5
<1> QED
  BY <1>2, <1>3, <1>6, <1>12

-----------------------------------------------------------------------------
(* The theorems.                                                           *)

\* Both words are of the characters of their subject (RuleTwins!TwinsTypeOK).
THEOREM TwinsType == TwinsSpec => []TwinsTypeOK
<1>1. TwinsInit => TwinsTypeOK
  <2> SUFFICES ASSUME TwinsInit PROVE TwinsTypeOK
    OBVIOUS
  <2>1. <<>> \in Seq(Alphabet[subject])
    BY EmptySeq
  <2> QED
    BY <2>1 DEF TwinsInit, TwinsTypeOK
<1>2. TwinsTypeOK /\ [TwinsNext]_twinVars => TwinsTypeOK'
  <2> SUFFICES ASSUME TwinsTypeOK, [TwinsNext]_twinVars PROVE TwinsTypeOK'
    OBVIOUS
  <2>1. CASE GrowValue
    <3>1. PICK c \in Alphabet[subject] : value' = Append(value, c)
      BY <2>1 DEF GrowValue
    <3>2. Append(value, c) \in Seq(Alphabet[subject])
      BY AppendProperties DEF TwinsTypeOK
    <3> QED
      BY <2>1, <3>1, <3>2 DEF GrowValue, TwinsTypeOK
  <2>2. CASE GrowOther
    <3>1. PICK c \in Alphabet[subject] : other' = Append(other, c)
      BY <2>2 DEF GrowOther
    <3>2. Append(other, c) \in Seq(Alphabet[subject])
      BY AppendProperties DEF TwinsTypeOK
    <3> QED
      BY <2>2, <3>1, <3>2 DEF GrowOther, TwinsTypeOK
  <2>3. CASE UNCHANGED twinVars
    BY <2>3 DEF twinVars, TwinsTypeOK
  <2> QED
    BY <2>1, <2>2, <2>3 DEF TwinsNext
<1> QED
  BY <1>1, <1>2, PTL DEF TwinsSpec

\* A keyword, escaped for LIKE and turned into a regular expression, matches the same
\* values, as long as it fits into the NVARCHAR(300) when it is escaped; and Python does
\* what keywords.py:11-14 promises where its stars are at its ends
\* (RuleTwins!WildcardsAgree; 000_helper_functions.sql:46-62, keywords.py:22-33).
THEOREM WildcardsAlwaysAgree == TwinsSpec => []WildcardsAgree
BY TwinsType, WildcardsFollow, PTL

\* SQL and Python normalise a value to the same address, or both call it invalid, but
\* for white space that only Python takes out (RuleTwins!AddressesAgree;
\* sp_FT_NormalizeEmails.sql, normalization.py).
THEOREM AddressesAlwaysAgree == TwinsSpec => []AddressesAgree
BY TwinsType, AddressesFollow, PTL

\* A user name of digits is one for both sides, and # is the only character SQL takes
\* for a digit besides (RuleTwins!NumericAgrees;
\* sp_FT_FilterNumericUsernames.sql, username_rules.py).
THEOREM NumericAlwaysAgrees == TwinsSpec => []NumericAgrees
BY TwinsType, NumericFollows, PTL

\* Both sides find the same allowed TLD, however it is listed; and a user name equals
\* the rest of the domain in Python where it does in SQL, but for a TLD that is listed with
\* an upper-case letter or is all of the domain, which Python does not take off
\* (RuleTwins!DomainsAgree; sp_FT_SeparateTLD.sql, sp_FT_FilterUsernameEqualsDomain.sql,
\* tld.py, username_rules.py:32-41).
THEOREM DomainsAlwaysAgree == TwinsSpec => []DomainsAgree
BY TwinsType, DomainsFollow, PTL

\* The columns of a table get safe names, no two of them the same, whatever the headers
\* are (RuleTwins!ColumnNamesDistinct; identifiers.py:70-82).
THEOREM ColumnNamesAlwaysDistinct == TwinsSpec => []ColumnNamesDistinct
BY TwinsType, ColumnNamesFollow, PTL
=============================================================================
