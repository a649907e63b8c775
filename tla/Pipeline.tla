------------------------------ MODULE Pipeline ------------------------------
(***************************************************************************)
(* The filtration pipeline of one job: run_full_pipeline of                *)
(* filtration/pipeline.py and the stored procedures it calls, one action   *)
(* for each.  A procedure is one set-based UPDATE of the staging table, or *)
(* two in one transaction, and gives a ReasonCode to rows that have none.  *)
(*                                                                         *)
(* Between two procedures the rest of the system goes on: administrators   *)
(* edit the reference lists, other jobs merge into Master, and a           *)
(* cancellation or an error ends the run.                                  *)
(*                                                                         *)
(* Text is abstracted to what the procedures ask of it.  A value of the    *)
(* e-mail column has an address, its normal form, and the rules are sets   *)
(* of values or addresses; a reference list is the set of addresses (or    *)
(* titles, or industries) that its active entries match.                   *)
(***************************************************************************)
EXTENDS Naturals, Sequences

CONSTANTS
    NumRows,        \* rows of the uploaded file
    Values,         \* values of the e-mail column, NULL included
    Addresses,      \* their normal forms
    AddressOf,      \* NormalizedEmail of each value; where it cannot be had, a malformed one
    RawInvalid,     \* values that are NULL or blank, or lack an '@' or a '.'
    Unsplittable,   \* values other than NULL without '@': LEFT(.., -1) raises on them
    Malformed,      \* addresses with no local part, or no '.' in the domain
    OneCharacter,   \* addresses whose local part has length 1,
    Numeric,        \* only digits,
    SameAsDomain,   \* or is the domain before its TLD
    Titles,         \* values of the title column, NULL included
    Industries,     \* values of the industry column, NULL included
    MaxEdits        \* bound: list edits and merges of other jobs during the run

Rows == 1..NumRows

Toggles ==   \* FilterToggles
    {"allowed_tld", "invalid_email", "duplicate_email", "duplicate_vs_master",
     "personal_email", "restricted_domain", "restricted_keyword", "restricted_title",
     "restricted_industry", "one_character_username", "numeric_username",
     "username_equals_domain", "spam_domain"}

AddressLists == {"allowed_tld", "personal_email", "restricted_domain", "restricted_keyword",
                 "spam_domain"}
Lists == AddressLists \cup {"restricted_title", "restricted_industry"}

\* What the entries of a list are compared with.
Subjects(list) == CASE list \in AddressLists       -> Addresses
                    [] list = "restricted_title"    -> Titles
                    [] list = "restricted_industry" -> Industries

ASSUME PipelineAssumption ==
    /\ NumRows \in Nat /\ MaxEdits \in Nat
    /\ AddressOf \in [Values -> Addresses]
    /\ Unsplittable \subseteq RawInvalid /\ RawInvalid \subseteq Values
    /\ \A v \in RawInvalid : AddressOf[v] \in Malformed

\* The steps in their order, each named for what turns it off.
Steps == <<"invalid_email", "normalize", "separate_tld", "duplicate_email",
           "duplicate_vs_master", "personal_email", "restricted_domain",
           "restricted_keyword", "restricted_title", "restricted_industry",
           "username_rules", "username_equals_domain", "spam_domain">>

\* A reason code is named for the filter that gives it.
ReasonCodes == (Toggles \ {"allowed_tld"}) \cup {"other_tld"}
Null == "NULL"

VARIABLES
    rows,        \* the uploaded rows: e-mail, title and industry
    toggles,     \* the filters that are on
    columns,     \* the optional columns the file has: title, industry
    listed,      \* the subjects each reference list matches
    master,      \* the addresses in FT_MasterEmails
    next,        \* the number of the step that comes next
    outcome,     \* running, done, raised or stopped
    reason,      \* ReasonCode of each row
    isOtherTLD,  \* IsOtherTLD of each row
    edits        \* edits made so far

input   == <<rows, toggles, columns>>
outside == <<listed, master, edits>>
vars    == <<input, outside, next, outcome, reason, isOtherTLD>>

RowRecord == [email : Values, title : Titles, industry : Industries]

TypeOK ==
    /\ rows \in [Rows -> RowRecord]
    /\ toggles \subseteq Toggles
    /\ columns \subseteq {"title", "industry"}
    /\ listed \in [Lists -> SUBSET (Addresses \cup Titles \cup Industries)]
    /\ \A list \in Lists : listed[list] \subseteq Subjects(list)
    /\ master \subseteq Addresses
    /\ next \in 1..(Len(Steps) + 1)
    /\ outcome \in {"running", "done", "raised", "stopped"}
    /\ reason \in [Rows -> ReasonCodes \cup {Null}]
    /\ isOtherTLD \in [Rows -> BOOLEAN]
    /\ edits \in Nat

\* Any file, any choice of filters, any lists.
Init ==
    /\ rows \in [Rows -> RowRecord]
    /\ toggles \in SUBSET Toggles
    /\ columns \in SUBSET {"title", "industry"}
    /\ listed \in [Lists -> SUBSET (Addresses \cup Titles \cup Industries)]
    /\ \A list \in Lists : listed[list] \subseteq Subjects(list)
    /\ master \in SUBSET Addresses
    /\ next = 1
    /\ outcome = "running"
    /\ reason = [r \in Rows |-> Null]
    /\ isOtherTLD = [r \in Rows |-> FALSE]
    /\ edits = 0

-----------------------------------------------------------------------------
(* The steps.                                                              *)

On(step) ==
    CASE step \in {"normalize", "separate_tld"} -> TRUE
      [] step = "restricted_title"    -> step \in toggles /\ "title" \in columns
      [] step = "restricted_industry" -> step \in toggles /\ "industry" \in columns
      [] step = "username_rules" ->
             toggles \cap {"one_character_username", "numeric_username"} # {}
      [] OTHER -> step \in toggles

At(step) ==
    /\ outcome = "running"
    /\ next <= Len(Steps) /\ Steps[next] = step

\* The step that comes next is run, and on_step called after it.
Run(step) ==
    /\ At(step) /\ On(step)
    /\ next' = next + 1
    /\ UNCHANGED <<input, outside, outcome>>

Skip(step) ==
    /\ At(step) /\ ~On(step)
    /\ next' = next + 1
    /\ UNCHANGED <<input, outside, outcome, reason, isOtherTLD>>

Address(r) == AddressOf[rows[r].email]

Untagged == {r \in Rows : reason[r] = Null}
Live     == {r \in Untagged : ~isOtherTLD[r]}

Tag(hits, code) == reason' = [r \in Rows |-> IF r \in hits THEN code ELSE reason[r]]

RemoveInvalidEmails ==
    /\ Run("invalid_email")
    /\ Tag({r \in Untagged : rows[r].email \in RawInvalid}, "invalid_email")
    /\ UNCHANGED isOtherTLD

\* A mutant of NormalizeEmails: no second look at what is malformed.
NormalizeWithoutRecheck ==
    /\ Run("normalize")
    /\ \A r \in Untagged : rows[r].email \notin Unsplittable
    /\ UNCHANGED <<reason, isOtherTLD>>

\* The local part is cut off at the '@', then what is malformed is tagged ...
NormalizeEmails ==
    /\ Run("normalize")
    /\ \A r \in Untagged : rows[r].email \notin Unsplittable
    /\ Tag({r \in Untagged : Address(r) \in Malformed}, "invalid_email")
    /\ UNCHANGED isOtherTLD

\* ... if every untagged row has an '@': else LEFT raises, and the job fails.
NormalizeRaises ==
    /\ At("normalize")
    /\ \E r \in Untagged : rows[r].email \in Unsplittable
    /\ outcome' = "raised"
    /\ UNCHANGED <<input, outside, next, reason, isOtherTLD>>

\* A mutant of SeparateTLD: the flag without the reason code.
SeparateTLDUntagged ==
    /\ Run("separate_tld")
    /\ isOtherTLD' = [r \in Rows |->
                      isOtherTLD[r] \/ (r \in Untagged /\ Address(r) \notin listed["allowed_tld"])]
    /\ UNCHANGED reason

\* Rows whose domain ends in no allowed TLD leave the pipeline here.
SeparateTLD ==
    /\ Run("separate_tld")
    /\ LET other == {r \in Untagged : Address(r) \notin listed["allowed_tld"]} IN
         /\ Tag(other, "other_tld")
         /\ isOtherTLD' = [r \in Rows |-> IF r \in other THEN TRUE ELSE isOtherTLD[r]]

\* A mutant of DeduplicateEmails: PARTITION BY without the ROW_NUMBER.
DeduplicateEveryCopy ==
    /\ Run("duplicate_email")
    /\ Tag({r \in Live : \E q \in Live : q # r /\ Address(q) = Address(r)},
           "duplicate_email")
    /\ UNCHANGED isOtherTLD

\* All rows of an address but the first.
DeduplicateEmails ==
    /\ Run("duplicate_email")
    /\ Tag({r \in Live : \E q \in Live : q < r /\ Address(q) = Address(r)},
           "duplicate_email")
    /\ UNCHANGED isOtherTLD

CheckDuplicateVsMaster ==
    /\ Run("duplicate_vs_master")
    /\ Tag({r \in Live : Address(r) \in master}, "duplicate_vs_master")
    /\ UNCHANGED isOtherTLD

\* What a filter compares with its list.
Subject(list, r) == CASE list = "restricted_title"    -> rows[r].title
                      [] list = "restricted_industry" -> rows[r].industry
                      [] OTHER                        -> Address(r)

\* A mutant of FilterListed: without the WHERE ReasonCode IS NULL.
FilterListedAnyRow(list) ==
    /\ Run(list)
    /\ Tag({r \in Rows : ~isOtherTLD[r] /\ Subject(list, r) \in listed[list]}, list)
    /\ UNCHANGED isOtherTLD

\* FilterPersonalEmails, FilterRestrictedDomains, FilterRestrictedKeywords,
\* FilterRestrictedTitles, FilterRestrictedIndustries and FilterSpamDomains.
FilterListed(list) ==
    /\ Run(list)
    /\ Tag({r \in Live : Subject(list, r) \in listed[list]}, list)
    /\ UNCHANGED isOtherTLD

\* A mutant of FilterNumericUsernames: the two rules change places.
FilterNumericFirst ==
    /\ Run("username_rules")
    /\ LET num == IF "numeric_username" \in toggles
                  THEN {r \in Live : Address(r) \in Numeric} ELSE {}
           one == IF "one_character_username" \in toggles
                  THEN {r \in Live \ num : Address(r) \in OneCharacter} ELSE {}
       IN reason' = [r \in Rows |-> CASE r \in one -> "one_character_username"
                                      [] r \in num -> "numeric_username"
                                      [] OTHER     -> reason[r]]
    /\ UNCHANGED isOtherTLD

\* Two rules in one procedure: the second sees the tags of the first.
FilterNumericUsernames ==
    /\ Run("username_rules")
    /\ LET one == IF "one_character_username" \in toggles
                  THEN {r \in Live : Address(r) \in OneCharacter} ELSE {}
           num == IF "numeric_username" \in toggles
                  THEN {r \in Live \ one : Address(r) \in Numeric} ELSE {}
       IN reason' = [r \in Rows |-> CASE r \in one -> "one_character_username"
                                      [] r \in num -> "numeric_username"
                                      [] OTHER     -> reason[r]]
    /\ UNCHANGED isOtherTLD

FilterUsernameEqualsDomain ==
    /\ Run("username_equals_domain")
    /\ Tag({r \in Live : Address(r) \in SameAsDomain}, "username_equals_domain")
    /\ UNCHANGED isOtherTLD

\* job_summary, after the last step: the counts are final.
Summarise ==
    /\ outcome = "running" /\ next = Len(Steps) + 1
    /\ outcome' = "done"
    /\ UNCHANGED <<input, outside, next, reason, isOtherTLD>>

\* A cancellation seen by on_step, or an error of SQL Server, after the import or
\* any step: the run ends and the staging table stays as it is.
Stop ==
    /\ outcome = "running"
    /\ outcome' = "stopped"
    /\ UNCHANGED <<input, outside, next, reason, isOtherTLD>>

Step ==
    \/ RemoveInvalidEmails \/ NormalizeEmails \/ NormalizeRaises
    \/ SeparateTLD \/ DeduplicateEmails \/ CheckDuplicateVsMaster
    \/ \E list \in Lists \ {"allowed_tld"} : FilterListed(list)
    \/ FilterNumericUsernames \/ FilterUsernameEqualsDomain
    \/ \E i \in 1..Len(Steps) : Skip(Steps[i])
    \/ Summarise \/ Stop

-----------------------------------------------------------------------------
(* The rest of the system.                                                 *)

\* An entry is added, deleted, enabled, disabled or changed.
EditList(list, s) ==
    /\ edits < MaxEdits
    /\ edits' = edits + 1
    /\ listed' = [listed EXCEPT ![list] = IF s \in @ THEN @ \ {s} ELSE @ \cup {s}]
    /\ UNCHANGED <<input, master, next, outcome, reason, isOtherTLD>>

\* Another job merges an address.
OtherJobMerges(a) ==
    /\ edits < MaxEdits
    /\ edits' = edits + 1
    /\ master' = master \cup {a}
    /\ UNCHANGED <<input, listed, next, outcome, reason, isOtherTLD>>

Environment ==
    \/ \E list \in Lists : \E s \in Subjects(list) : EditList(list, s)
    \/ \E a \in Addresses : OtherJobMerges(a)

Next == Step \/ Environment

Spec == Init /\ [][Next]_vars

-----------------------------------------------------------------------------
(* What the worker and the reports make of the table.                      *)

\* The rows counted under a code in the summary: GROUP BY of GetJobSummary ...
SummaryRows(code) ==
    {r \in Rows : (IF reason[r] = Null THEN "kept" ELSE reason[r]) = code}

\* ... and those written to its file and sheet: _where_clause_for_reason.
ReportRows(code) == IF code = "kept" THEN Live ELSE {r \in Rows : reason[r] = code}

-----------------------------------------------------------------------------
(* Properties.                                                             *)

\* The file of a category holds exactly the rows its count promises, whatever step the
\* run stopped at: the summary goes by ReasonCode alone, the file of kept rows also by
\* IsOtherTLD (sp_FT_GetJobSummary.sql:22-26, report_service.py:40-43).
FilesMatchSummary ==
    \A code \in ReasonCodes \cup {"kept"} : ReportRows(code) = SummaryRows(code)

\* The first verdict on a row is the last, although the lists it came from change under
\* the run: no later step takes a row over or sets it free.
VerdictStands ==
    [][\A r \in Rows : reason[r] # Null => reason'[r] = reason[r]]_vars

\* Once duplicates have been looked for, rows still in the pipeline are of different
\* addresses, and a row tagged as a duplicate has an earlier row of its address that is
\* not one: the address is judged once, and not lost (sp_FT_DeduplicateEmails.sql:4-5).
OneRowPerAddress ==
    ("duplicate_email" \in toggles /\ next > 4) =>
        /\ \A q, r \in Live : Address(q) = Address(r) => q = r
        /\ \A r \in SummaryRows("duplicate_email") :
             \E q \in Rows : /\ q < r /\ Address(q) = Address(r)
                             /\ reason[q] \notin {"invalid_email", "other_tld", "duplicate_email"}

\* A kept row is well-formed, whichever filters were on: what comes out as kept has a
\* local part and a domain (sp_FT_NormalizeEmails.sql:42-54).
KeptIsWellFormed ==
    next > 2 => \A r \in Live : /\ rows[r].email \notin RawInvalid
                                /\ Address(r) \notin Malformed

\* The rules in the order in which run_full_pipeline takes them.  To those of the test's
\* classify_row it adds the toggles, the addresses that are malformed once normalised
\* (sp_FT_NormalizeEmails.sql:45-54), and Master.
Rules(r) ==
    LET a == Address(r) IN <<
      <<"invalid_email", \/ a \in Malformed
                         \/ ("invalid_email" \in toggles /\ rows[r].email \in RawInvalid)>>,
      <<"other_tld", a \notin listed["allowed_tld"]>>,
      <<"duplicate_email", /\ "duplicate_email" \in toggles
                           /\ \E q \in Rows : q < r /\ Address(q) = a>>,
      <<"duplicate_vs_master", "duplicate_vs_master" \in toggles /\ a \in master>>,
      <<"personal_email", "personal_email" \in toggles /\ a \in listed["personal_email"]>>,
      <<"restricted_domain",
          "restricted_domain" \in toggles /\ a \in listed["restricted_domain"]>>,
      <<"restricted_keyword",
          "restricted_keyword" \in toggles /\ a \in listed["restricted_keyword"]>>,
      <<"restricted_title", /\ "restricted_title" \in toggles /\ "title" \in columns
                            /\ rows[r].title \in listed["restricted_title"]>>,
      <<"restricted_industry", /\ "restricted_industry" \in toggles /\ "industry" \in columns
                               /\ rows[r].industry \in listed["restricted_industry"]>>,
      <<"one_character_username", "one_character_username" \in toggles /\ a \in OneCharacter>>,
      <<"numeric_username", "numeric_username" \in toggles /\ a \in Numeric>>,
      <<"username_equals_domain", "username_equals_domain" \in toggles /\ a \in SameAsDomain>>,
      <<"spam_domain", "spam_domain" \in toggles /\ a \in listed["spam_domain"]>> >>

\* Row by row, as classify_row does: the first rule that applies gives the verdict.
ClassifyRow(r) ==
    LET rules == Rules(r)
        hits  == {i \in DOMAIN rules : rules[i][2]}
    IN IF hits = {} THEN Null
       ELSE rules[CHOOSE i \in hits : \A k \in hits : i <= k][1]

\* With lists that stand still, the set-based steps give each row the verdict that a
\* row-by-row reading of the rules gives it (test_sample_data_pipeline_simulation.py:37-73).
AgreesWithRowByRow ==
    (outcome = "done" /\ edits = 0) => \A r \in Rows : reason[r] = ClassifyRow(r)

==============================================================================
