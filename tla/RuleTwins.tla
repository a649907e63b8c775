------------------------------ MODULE RuleTwins ------------------------------
(***************************************************************************)
(* The rules of Rules on every word up to a length: two words that grow, a *)
(* character at a time, about one subject.                                 *)
(***************************************************************************)
EXTENDS Rules

CONSTANTS
    Subjects,       \* what the words are about
    Alphabet,       \* of each subject: the characters that tell cases apart
    MaxValue,       \* of each subject: how long the first word gets (bound)
    MaxOther,       \* .. and the second (bound)
    Ordinals        \* positions of columns, as words

\* A name of the greatest length and a position of nine digits are still an identifier.
ASSUME OrdinalsAssumption ==
    /\ Ordinals \subseteq Seq(Digits)
    /\ \A o \in Ordinals : Len(o) + 3 + NameLimit <= IdentifierLimit

VARIABLES subject, value, other

twinVars == <<subject, value, other>>

TwinsInit ==
    /\ subject \in Subjects
    /\ value = <<>>
    /\ other = <<>>

GrowValue ==
    /\ Len(value) < MaxValue[subject]
    /\ \E c \in Alphabet[subject] : value' = Append(value, c)
    /\ UNCHANGED <<subject, other>>

GrowOther ==
    /\ Len(other) < MaxOther[subject]
    /\ \E c \in Alphabet[subject] : other' = Append(other, c)
    /\ UNCHANGED <<subject, value>>

TwinsNext == GrowValue \/ GrowOther

TwinsSpec == TwinsInit /\ [][TwinsNext]_twinVars

-----------------------------------------------------------------------------
(* Properties.                                                             *)

\* What the comment on keywords.py says of a keyword with stars at its ends only.
Documented(word, pattern) ==
    LET n == Len(pattern)
        key == Without({"*"}, pattern)
        starts == n > 0 /\ pattern[n] = "*"
        ends   == n > 0 /\ pattern[1] = "*"
    IN CASE starts /\ ends  -> \E i \in 0..Len(word) : EndsWith(SubSeq(word, 1, i), key)
         [] starts /\ ~ends -> Len(word) >= Len(key) /\ SubSeq(word, 1, Len(key)) = key
         [] ends /\ ~starts -> EndsWith(word, key)
         [] OTHER           -> word = key

\* The length of a keyword with %, _ and [ in brackets.
LikeLength(pattern) ==
    Len(pattern) + 2 * (Len(pattern) - Len(Without({"[", "%", "_"}, pattern)))

(* A keyword matches the same values in a stored procedure, where it has   *)
(* become a LIKE pattern with %, _ and [ escaped, as in Python, where it   *)
(* has become a regular expression, unless the pattern is longer than the  *)
(* NVARCHAR(300) it is built in, where it loses its end; and where its     *)
(* stars are at its ends, Python does what keywords.py:11-14 promises.     *)
WildcardsAgree ==
    subject = "wildcard" =>
        /\ LikeLength(other) <= PatternLimit =>
               Like(value, WildcardToLike(other)) = KeywordMatches(value, other)
        /\ (\A i \in 2..Len(other) - 1 : other[i] # "*") =>
               KeywordMatches(value, other) = Documented(value, other)

(* SQL and Python agree on which values are addresses and on their two     *)
(* parts, but for white space other than blanks: Python reads a value as   *)
(* SQL reads it with that taken out.                                       *)
AddressesAgree ==
    subject = "address" => PyAddress(value) = SqlAddress(Without({Tab}, value))

(* A user name of digits is one for both; SQL also takes # for a digit,    *)
(* and nothing else.                                                       *)
NumericAgrees ==
    subject = "local" =>
        /\ PyNumeric(value) => SqlNumeric(value)
        /\ SqlNumeric(value) /\ ~PyNumeric(value) => Has(value, "#")

(* Both sides give a normalised domain the same allowed TLD, the longest,  *)
(* in any case, or none, as long as no value of the list has a character   *)
(* with a meaning in LIKE.  In SQL a user name equals the domain when it   *)
(* is what there is before that TLD; in Python too, unless the TLD is      *)
(* listed with an upper-case letter or is all of the domain: then it is    *)
(* not taken off, and the user name is compared with the whole domain.     *)
DomainsAgree ==
    (subject = "domain" /\ other # <<>> /\ \A c \in {"_", "%", "["} : ~Has(other, c)) =>
        LET domain  == LowerCase(value)
            allowed == {other, <<".", "a">>}
        IN
        /\ SqlTld(domain, allowed) = PyTld(domain, allowed)
        /\ \A tld \in PyTld(domain, allowed) : \A n \in 0..Len(domain) :
               LET local == SubSeq(domain, 1, n) IN
               /\ SqlEqualsDomain(local, domain, tld) <=>
                      local # <<>> /\ local \o LowerCase(tld) = domain
               /\ PyEqualsDomain(local, domain, tld) <=>
                      IF tld = LowerCase(tld) /\ tld # domain
                      THEN SqlEqualsDomain(local, domain, tld) ELSE local = domain

(* Whatever the headers are, the columns of a table have names that are    *)
(* safe identifiers, and no two of them one name.                          *)
ColumnNamesDistinct ==
    subject = "header" =>
        \A o, p \in Ordinals :
            LET name == SanitizeColumnName(value, o) IN
            /\ SafeIdentifier(name)
            /\ o # p => name # SanitizeColumnName(other, p)

-----------------------------------------------------------------------------
\* For the proofs.
TwinsTypeOK ==
    /\ subject \in Subjects
    /\ value \in Seq(Alphabet[subject])
    /\ other \in Seq(Alphabet[subject])
=============================================================================
