-------------------------- MODULE MCReferenceLists --------------------------
(* Instances of ReferenceLists for TLC.                                    *)
EXTENDS ReferenceLists, TLC

\* Two spellings of one value, as a case-insensitive collation has them.
MCValues == {"gmail.com", "Gmail.com", "aol.com"}
MCKeyOf  == [v \in MCValues |-> IF v = "aol.com" THEN "AOL" ELSE "GMAIL"]
MCPastes == {{}, {"gmail.com", "aol.com"}, {"Gmail.com"}, {"gmail.com", "Gmail.com"}, MCValues}

Symmetry == Permutations(Ids) \cup Permutations(Handlers)
=============================================================================
