------------------------------- MODULE MCRules -------------------------------
(* Alphabets and lengths of RuleTwins for TLC.                             *)
EXTENDS RuleTwins

MCSubjects == {"wildcard", "address", "local", "domain", "header"}

MCAlphabet == [s \in MCSubjects |->
    CASE s = "wildcard" -> {"a", "b", "*", "%", "_", "["}
      [] s = "address"  -> {"a", "@", ".", " ", Tab}
      [] s = "local"    -> {"a", "0", "1", "#"}
      [] s = "domain"   -> {"a", "A", "b", "."}
      [] s = "header"   -> {"a", "1", "_", " ", "accent"}]

MCMaxValue == [s \in MCSubjects |->
    CASE s = "wildcard" -> 3 [] s = "address" -> 6 [] s = "local" -> 4
      [] s = "domain" -> 5 [] s = "header" -> 3]

MCMaxOther == [s \in MCSubjects |->
    CASE s = "wildcard" -> 4 [] s = "domain" -> 3 [] s = "header" -> 3 [] OTHER -> 0]

MCLowerOf == [c \in {"A"} |-> "a"]

\* 1 and 11: one a prefix of the other.
MCOrdinals == {<<"0">>, <<"1">>, <<"1", "1">>}
=============================================================================
