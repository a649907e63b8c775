-------------------------------- MODULE Rules --------------------------------
(***************************************************************************)
(* The rules that look into the text of a value, twice as the code has     *)
(* them: in T-SQL, which filters, and in Python, which the tests and the   *)
(* preview use.  A word is a sequence of characters.  Keywords and what    *)
(* they are held against are in one case, which both sides disregard; an   *)
(* address is made lower case by both, a listed top-level domain by none.  *)
(***************************************************************************)
EXTENDS Naturals, SequencesExt

CONSTANTS
    LowerOf,            \* the lower-case character of each upper-case one
    PatternLimit,       \* the length of @p in fn_FT_WildcardToLike, 300
    NameLimit,          \* _MAX_IDENTIFIER_LEN, 116
    IdentifierLimit     \* the length of an identifier in SQL Server, 128

ASSUME LowerOfAssumption ==
    \A c \in DOMAIN LowerOf : LowerOf[c] \notin DOMAIN LowerOf \cup {"_", "%", "["}

ASSUME LimitsAssumption ==
    PatternLimit \in Nat /\ NameLimit \in Nat /\ IdentifierLimit \in Nat

Digits == {"0", "1"}
Tab    == "tab"         \* stands for white space that is not a blank

Has(word, c)         == c \in Range(word)
Without(chars, word) ==
    FlattenSeq([i \in DOMAIN word |-> IF word[i] \in chars THEN <<>> ELSE <<word[i]>>])
Replace(word, c, by) ==
    FlattenSeq([i \in DOMAIN word |-> IF word[i] = c THEN by ELSE <<word[i]>>])
FirstAt(word)        == SelectInSeq(word, LAMBDA c : c = "@")
After(word, i)       == SubSeq(word, i + 1, Len(word))
CutTo(n, word)       == SubSeq(word, 1, Min({n, Len(word)}))

Lower(c)        == IF c \in DOMAIN LowerOf THEN LowerOf[c] ELSE c
LowerCase(word) == [i \in DOMAIN word |-> Lower(word[i])]

-----------------------------------------------------------------------------
(* Wildcards.                                                              *)

\* What LIKE means: % is any characters, _ one, [..] one of those in it.  The places of
\* the value from which the pattern matches it from its j-th character on, to the end.
LikeFrom(value, pattern, from, j) ==
    LET places == 1..Len(value)
        Goes(i, next) == i + 1 \in from[next]
    IN IF j > Len(pattern) THEN {Len(value) + 1}
       ELSE CASE pattern[j] = "%" -> {i \in 1..Len(value) + 1 : \E k \in from[j + 1] : i <= k}
              [] pattern[j] = "_" -> {i \in places : Goes(i, j + 1)}
              [] pattern[j] = "[" ->
                     {i \in places : \E k \in j + 1..Len(pattern) :
                         /\ pattern[k] = "]" /\ \A l \in j + 1..k - 1 : pattern[l] # "]"
                         /\ \E l \in j + 1..k - 1 : value[i] = pattern[l]
                         /\ Goes(i, k + 1)}
              [] OTHER -> {i \in places : value[i] = pattern[j] /\ Goes(i, j + 1)}

Like(value, pattern) ==
    LET from[j \in 1..Len(pattern) + 1] == LikeFrom(value, pattern, from, j)
    IN 1 \in from[1]

Bracketed(c) == <<"[", c, "]">>

\* What is assigned to a variable is cut to its length, and nobody is told.
Assigned(word) == CutTo(PatternLimit, word)

\* A mutant of WildcardToLike: the bracket is escaped last.
WildcardToLikeReordered(pattern) ==
    LET underscored == Assigned(Replace(Assigned(pattern), "_", Bracketed("_")))
        percented   == Assigned(Replace(underscored, "%", Bracketed("%")))
        bracketed   == Assigned(Replace(percented, "[", Bracketed("[")))
    IN Assigned(Replace(bracketed, "*", <<"%">>))

\* Its parameter cuts nothing: it is as long as the columns the keywords are from.
WildcardToLike(pattern) ==
    LET bracketed   == Assigned(Replace(Assigned(pattern), "[", Bracketed("[")))
        percented   == Assigned(Replace(bracketed, "%", Bracketed("%")))
        underscored == Assigned(Replace(percented, "_", Bracketed("_")))
    IN Assigned(Replace(underscored, "*", <<"%">>))

\* The regular expression looks for the parts of a pattern between its stars, one after
\* the other, the first at the start of the value and the last at its end.  A part begins
\* after a star, or at the start: at[s] is the place of the value where it begins.
KeywordMatches(value, pattern) ==
    LET stars == {k \in 1..Len(pattern) : pattern[k] = "*"}
        Before(k) == Max({0} \cup {s \in stars : s < k})
    IN \E at \in [{0} \cup stars -> 1..Len(value) + 1] :
        LET Place(k) == at[Before(k)] + (k - Before(k) - 1) IN
        /\ at[0] = 1
        /\ Place(Len(pattern) + 1) = Len(value) + 1
        /\ \A k \in 1..Len(pattern) :
            IF k \in stars THEN Place(k) <= at[k]
            ELSE Place(k) <= Len(value) /\ value[Place(k)] = pattern[k]

-----------------------------------------------------------------------------
(* Addresses: what a value is normalised to, or that it is invalid.        *)

Invalid == [valid |-> FALSE, local |-> <<>>, domain |-> <<>>]
Split(address) ==
    [valid |-> TRUE, local |-> SubSeq(address, 1, FirstAt(address) - 1),
     domain |-> After(address, FirstAt(address))]

\* sp_FT_RemoveInvalidEmails, and sp_FT_NormalizeEmails with its re-check.
SqlAddress(value) ==
    LET address == Without({" "}, value) IN
    IF ~Has(value, "@") \/ ~Has(value, ".") \/ address = <<>> THEN Invalid
    ELSE IF FirstAt(address) <= 1 \/ ~Has(After(address, FirstAt(address)), ".") THEN Invalid
    ELSE Split(address)

\* is_valid_after_normalization
ValidNormalized(address) ==
    /\ Has(address, "@")
    /\ Split(address).local # <<>>
    /\ Has(Split(address).domain, ".")

\* A mutant of PyAddress: only blanks are taken out, as REPLACE does.
PyAddressTrims(value) ==
    LET address == Without({" "}, value) IN
    IF ValidNormalized(address) THEN Split(address) ELSE Invalid

PyAddress(value) ==
    LET address == Without({" ", Tab}, value) IN
    IF Has(value, "@") /\ Has(value, ".") /\ address # <<>> /\ ValidNormalized(address)
    THEN Split(address) ELSE Invalid

-----------------------------------------------------------------------------
(* User names of digits only.                                              *)

\* A mutant of StripDigits: TRANSLATE has been given one digit less.
StripDigitsButOne(word) ==
    Without({"#"}, [i \in DOMAIN word |-> IF word[i] \in Digits \ {"1"} THEN "#" ELSE word[i]])

\* TRANSLATE makes every digit a #, and REPLACE removes them.
StripDigits(word) ==
    Without({"#"}, [i \in DOMAIN word |-> IF word[i] \in Digits THEN "#" ELSE word[i]])

SqlNumeric(local) == Len(local) > 0 /\ StripDigits(local) = <<>>
PyNumeric(local)  == Len(local) > 0 /\ Without(Digits, local) = <<>>

-----------------------------------------------------------------------------
(* Top-level domains, and user names that equal the domain before it.      *)

EndsWith(word, suffix) ==
    Len(word) >= Len(suffix) /\ After(word, Len(word) - Len(suffix)) = suffix

Longest(words) == {w \in words : \A v \in words : Len(v) <= Len(w)}

\* LIKE compares by the collation, which disregards case.
EndsLike(domain, tld) == Like(LowerCase(domain), <<"%">> \o LowerCase(tld))

\* A mutant of SqlTld: the shortest value that fits, ORDER BY without DESC.
SqlTldShortest(domain, allowed) ==
    LET fitting == {t \in allowed : EndsLike(domain, t)}
    IN {w \in fitting : \A v \in fitting : Len(w) <= Len(v)}

\* The allowed value, as it is listed, that is taken to be the TLD of a domain; none if
\* it has another.
SqlTld(domain, allowed) == Longest({t \in allowed : EndsLike(domain, t)})
PyTld(domain, allowed)  ==
    Longest({t \in allowed : EndsWith(LowerCase(domain), LowerCase(t))})

\* .. and so does the equality of T-SQL.
SqlEqualsDomain(local, domain, tld) ==
    /\ Len(domain) > Len(tld)
    /\ LowerCase(SubSeq(domain, 1, Len(domain) - Len(tld))) = LowerCase(local)

\* domain_name_before_tld: endswith does not disregard case.
BeforeTld(domain, tld) ==
    IF EndsWith(domain, tld) /\ Len(domain) > Len(tld)
    THEN SubSeq(domain, 1, Len(domain) - Len(tld))
    ELSE domain

PyEqualsDomain(local, domain, tld) == tld # <<>> /\ BeforeTld(domain, tld) = local

-----------------------------------------------------------------------------
(* Names of columns.                                                       *)

Letters  == {"a", "b", "c", "l", "o"}
WordChars == Letters \cup Digits \cup {"_"}
Foreign  == {"accent"}      \* characters that ASCII has not

Trimmed(chars, word) ==
    LET kept == {i \in DOMAIN word : word[i] \notin chars}
    IN IF kept = {} THEN <<>> ELSE SubSeq(word, Min(kept), Max(kept))

Candidate(header) ==
    LET ascii == Without(Foreign, header)
    IN Trimmed({"_"}, [i \in DOMAIN ascii |-> IF ascii[i] \in WordChars THEN ascii[i] ELSE "_"])

\* A mutant of SanitizeColumnName: the position is only there to fall back to.
SanitizeWithoutPosition(header, ordinal) ==
    LET name == IF Candidate(header) # <<>> /\ Candidate(header)[1] \notin Digits
                THEN Candidate(header) ELSE <<"c", "o", "l", "_">> \o ordinal
    IN CutTo(IdentifierLimit, <<"c", "_">> \o CutTo(NameLimit, name))

\* `ordinal` is the position of the column, as the word of its digits.
SanitizeColumnName(header, ordinal) ==
    LET name == IF Candidate(header) # <<>> /\ Candidate(header)[1] \notin Digits
                THEN Candidate(header) ELSE <<"c", "o", "l", "_">> \o ordinal
    IN CutTo(IdentifierLimit,
             <<"c", "_">> \o ordinal \o <<"_">> \o CutTo(NameLimit, name))

\* ^[A-Za-z_][A-Za-z0-9_]*$
SafeIdentifier(word) ==
    /\ word # <<>> /\ Len(word) <= IdentifierLimit
    /\ word[1] \notin Digits
    /\ \A i \in DOMAIN word : word[i] \in WordChars
=============================================================================
