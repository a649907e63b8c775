----------------------------- MODULE MCPipeline -----------------------------
(* Instances of Pipeline for TLC: a few telling files, filters and lists    *)
(* instead of all of them.                                                  *)
EXTENDS Pipeline

MCValues == {"null", "info", "no@dot", "@acme.com", "Bob@ACME.com", "bob@acme.com",
             "7@acme.com", "acme@acme.com", "joe@shop.io"}
MCAddresses == {"none", "no@dot", "@acme.com", "bob@acme.com", "7@acme.com",
                "acme@acme.com", "joe@shop.io"}
MCAddressOf == [v \in MCValues |-> CASE v \in {"null", "info"} -> "none"
                                     [] v = "Bob@ACME.com"     -> "bob@acme.com"
                                     [] OTHER                  -> v]
MCRawInvalid == {"null", "info", "no@dot"}
MCMalformed  == {"none", "no@dot", "@acme.com"}

\* The restricted title and industry go with these addresses.
MCRow(v) == [email    |-> v,
             title    |-> IF v = "7@acme.com" THEN "intern" ELSE "cto",
             industry |-> IF v \in {"Bob@ACME.com", "joe@shop.io"} THEN "staffing" ELSE "tech"]

AllButOne == {Toggles} \cup {Toggles \ {f} : f \in Toggles}

\* Lists that overlap, so that the order of the steps matters.
MCListed == [list \in Lists |->
    CASE list = "allowed_tld"         -> Addresses \ {"joe@shop.io"}
      [] list = "restricted_title"    -> {"intern"}
      [] list = "restricted_industry" -> {"staffing"}
      [] list = "personal_email"      -> {"acme@acme.com"}
      [] list = "spam_domain"         -> {"7@acme.com", "acme@acme.com"}
      [] OTHER                        -> {}]
Unlisted == [list \in Lists |-> IF list = "allowed_tld" THEN Addresses ELSE {}]

\* Every file of these values, every filter off by itself, and none on.
VerdictsInit ==
    /\ rows \in [Rows -> {MCRow(v) : v \in Values}]
    /\ toggles \in AllButOne \cup {{}, {"duplicate_email", "spam_domain"}}
    /\ columns \in {{"title", "industry"}, {"industry"}}
    /\ listed \in {MCListed, Unlisted}
    /\ master \in {{}, {"bob@acme.com"}}
    /\ Init
VerdictsSpec == VerdictsInit /\ [][Next]_vars

\* Fewer files, while the lists and Master change.
EditsInit ==
    /\ rows \in [Rows -> {MCRow(v) : v \in {"bob@acme.com", "Bob@ACME.com", "7@acme.com"}}]
    /\ toggles \in {Toggles, Toggles \ {"duplicate_email"}}
    /\ columns = {"title", "industry"}
    /\ listed = MCListed
    /\ master = {}
    /\ Init
EditsSpec == EditsInit /\ [][Next]_vars
=============================================================================
