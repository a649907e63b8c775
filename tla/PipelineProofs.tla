--------------------------- MODULE PipelineProofs ---------------------------
(***************************************************************************)
(* What the pipeline does to any file, with any filters on, while the      *)
(* lists and Master change in any way.                                     *)
(*                                                                         *)
(* Every step of the module is quiet, or is one of the thirteen steps and  *)
(* tags rows that had no tag.  The proofs of the invariants go by this     *)
(* effect (StepEffect), and look into an action only where it matters:     *)
(* into NormalizeEmails for what is well-formed and into DeduplicateEmails *)
(* for what is there once.                                                 *)
(*                                                                         *)
(* That the steps agree with a reading of the rules row by row goes by how *)
(* far they have got: the verdict of a row is the first rule behind that   *)
(* applies to it, and after the last step no rule is left.                 *)
(***************************************************************************)
EXTENDS Pipeline, WellFoundedInduction, TLAPS

\* The thirteen steps, spelled out for the provers.
LEMMA StepsFacts ==
    /\ Len(Steps) = 13
    /\ Steps[1] = "invalid_email" /\ Steps[2] = "normalize"
    /\ Steps[3] = "separate_tld" /\ Steps[4] = "duplicate_email"
    /\ \A i \in 5..13 : Steps[i] \notin
           {"invalid_email", "normalize", "separate_tld", "duplicate_email", "allowed_tld"}
  BY DEF Steps

LEMMA ListCodes == \A list \in Lists \ {"allowed_tld"} : list \in ReasonCodes
  BY DEF Lists, AddressLists, ReasonCodes, Toggles

LEMMA CodesAreNotNull == Null \notin ReasonCodes /\ Null # "kept" /\ "kept" \notin ReasonCodes
  BY DEF ReasonCodes, Toggles, Null

-----------------------------------------------------------------------------
(* What a step can do.                                                     *)

\* The run stands still, though its surroundings may not.
Quiet == UNCHANGED <<next, reason, isOtherTLD>>

\* A row keeps the tag it has; it is set aside only with a tag, and stays so.
TagsStand ==
    \A r \in Rows :
        /\ reason[r] # Null => reason'[r] = reason[r]
        /\ isOtherTLD[r] => isOtherTLD'[r]
        /\ isOtherTLD'[r] => isOtherTLD[r] \/ reason'[r] # Null

\* Before the step that looks for them no row is tagged as a duplicate, and after it
\* none is tagged as what only earlier steps find.
TagsInOrder ==
    \A r \in Rows :
        \/ reason'[r] = reason[r]
        \/ reason'[r] = "duplicate_email" /\ next = 4
        \/ reason'[r] \in {"invalid_email", "other_tld"} /\ next < 4
        \/ reason'[r] \in ReasonCodes \ {"invalid_email", "other_tld", "duplicate_email"}

Advance ==
    /\ next \in 1..13 /\ next' = next + 1
    /\ TagsStand /\ TagsInOrder
    /\ next = 2 => NormalizeEmails
    /\ next = 4 /\ "duplicate_email" \in toggles => DeduplicateEmails

\* What a procedure does when it tags some of the untagged rows with one code.
LEMMA TagEffect ==
    ASSUME TypeOK, NEW hits \in SUBSET Untagged, NEW code \in ReasonCodes, Tag(hits, code)
    PROVE  /\ reason' \in [Rows -> ReasonCodes \cup {Null}]
           /\ \A r \in Rows : /\ reason'[r] \in {reason[r], code}
                              /\ reason[r] # Null => reason'[r] = reason[r]
                              /\ r \in hits => reason'[r] = code
                              /\ r \notin hits => reason'[r] = reason[r]
  BY DEF TypeOK, Tag, Untagged

\* The two rules of one procedure, likewise.
LEMMA UsernameEffect ==
    ASSUME TypeOK, FilterNumericUsernames
    PROVE  /\ reason' \in [Rows -> ReasonCodes \cup {Null}]
           /\ \A r \in Rows :
                /\ reason'[r] \in {reason[r], "one_character_username", "numeric_username"}
                /\ reason[r] # Null => reason'[r] = reason[r]
<1>1. {"one_character_username", "numeric_username"} \subseteq ReasonCodes
  BY DEF ReasonCodes, Toggles
<1>  DEFINE oneOn == "one_character_username" \in toggles
            numOn == "numeric_username" \in toggles
            one == IF oneOn THEN {r \in Live : Address(r) \in OneCharacter} ELSE {}
            num == IF numOn THEN {r \in Live \ one : Address(r) \in Numeric} ELSE {}
<1>2. /\ reason' = [r \in Rows |-> CASE r \in one -> "one_character_username"
                                     [] r \in num -> "numeric_username"
                                     [] OTHER     -> reason[r]]
      /\ one \subseteq Live /\ num \subseteq Live
  BY DEF FilterNumericUsernames
<1>  HIDE DEF one, num
<1>3. ASSUME NEW r \in Rows
      PROVE  \/ r \in one /\ reason'[r] = "one_character_username"
             \/ r \in num /\ reason'[r] = "numeric_username"
             \/ reason'[r] = reason[r]
  BY <1>2
<1>4. \A r \in Rows : reason[r] \in ReasonCodes \cup {Null}
  BY DEF TypeOK
<1>5. \A r \in Live : reason[r] = Null
  BY DEF Live, Untagged
<1>6. \A r \in Rows : reason'[r] \in ReasonCodes \cup {Null}
  BY <1>1, <1>3, <1>4
<1>. QED  BY <1>2, <1>3, <1>5, <1>6

\* Every non-empty set of rows has a first one.
LEMMA FirstRow ==
    ASSUME NumRows \in Nat, NEW S, S \subseteq Rows, S # {}
    PROVE  \E q \in S : \A r \in S : q <= r
<1>1. S \subseteq Nat
  BY DEF Rows
<1>2. PICK q \in S : \A r \in S : ~ (<<r, q>> \in OpToRel(<, Nat))
  BY <1>1, NatLessThanWellFounded, WFMin
<1>3. \A r \in S : ~ (r < q)
  BY <1>1, <1>2 DEF OpToRel
<1>. QED  BY <1>1, <1>3

\* A step of the pipeline is at the place its name has in the order.
LEMMA RunPlace ==
    ASSUME TypeOK, NEW step, At(step)
    PROVE  next \in 1..13 /\ Steps[next] = step /\ next + 1 \in 1..14
  BY StepsFacts DEF TypeOK, At

\* A step that tags some untagged rows with one code and sets none aside.
LEMMA TagAdvances ==
    ASSUME TypeOK, NEW step, Run(step), NEW hits \in SUBSET Untagged,
           NEW code \in ReasonCodes, Tag(hits, code), UNCHANGED isOtherTLD,
           \/ code = "duplicate_email" /\ next = 4
           \/ code = "invalid_email" /\ next < 4
           \/ code \notin {"invalid_email", "other_tld", "duplicate_email"},
           next = 2 => NormalizeEmails,
           next = 4 /\ "duplicate_email" \in toggles => DeduplicateEmails
    PROVE  TypeOK' /\ Advance
<1>1. next \in 1..13 /\ next' = next + 1 /\ next' \in 1..14
  BY RunPlace DEF Run
<1>2. /\ reason' \in [Rows -> ReasonCodes \cup {Null}]
      /\ \A r \in Rows : /\ reason'[r] \in {reason[r], code}
                         /\ reason[r] # Null => reason'[r] = reason[r]
  BY TagEffect
<1>3. TypeOK'
  BY <1>1, <1>2, StepsFacts DEF TypeOK, Run, input, outside
<1>4. TagsStand
  BY <1>2 DEF TagsStand
<1>5. TagsInOrder
  BY <1>2 DEF TagsInOrder
<1>. QED  BY <1>1, <1>3, <1>4, <1>5 DEF Advance

LEMMA SomeCodes ==
    /\ {"invalid_email", "other_tld", "duplicate_email", "duplicate_vs_master",
        "one_character_username", "numeric_username", "username_equals_domain"}
         \subseteq ReasonCodes
    /\ Lists \ {"allowed_tld"} \subseteq
         ReasonCodes \ {"invalid_email", "other_tld", "duplicate_email"}
  BY DEF ReasonCodes, Toggles, Lists, AddressLists

\* One case for each action: every step advances the run or leaves it as it is.
LEMMA StepEffect ==
    ASSUME TypeOK, Next
    PROVE  TypeOK' /\ UNCHANGED input /\ (Advance \/ Quiet)
<1>. USE DEF Advance, Quiet
<1>a. UNCHANGED input
  BY DEF Next, Step, Environment, RemoveInvalidEmails, NormalizeEmails, NormalizeRaises,
         SeparateTLD, DeduplicateEmails, CheckDuplicateVsMaster, FilterListed,
         FilterNumericUsernames, FilterUsernameEqualsDomain, Run, Skip, Summarise, Stop,
         EditList, OtherJobMerges
<1>1. CASE RemoveInvalidEmails
  <2>1. next = 1
    BY <1>1, RunPlace, StepsFacts DEF RemoveInvalidEmails, Run
  <2>. QED  BY <1>1, <1>a, <2>1, TagAdvances, SomeCodes DEF RemoveInvalidEmails
<1>2. CASE NormalizeEmails
  <2>1. next = 2
    BY <1>2, RunPlace, StepsFacts DEF NormalizeEmails, Run
  <2>. QED  BY <1>2, <1>a, <2>1, TagAdvances, SomeCodes DEF NormalizeEmails
<1>3. CASE NormalizeRaises
  BY <1>3 DEF NormalizeRaises, TypeOK, input, outside
<1>4. CASE SeparateTLD
  <2>1. next = 3
    BY <1>4, RunPlace, StepsFacts DEF SeparateTLD, Run
  <2>2. PICK other \in SUBSET Untagged :
          /\ Tag(other, "other_tld")
          /\ isOtherTLD' = [r \in Rows |-> IF r \in other THEN TRUE ELSE isOtherTLD[r]]
    BY <1>4 DEF SeparateTLD
  <2>3. /\ reason' \in [Rows -> ReasonCodes \cup {Null}]
        /\ \A r \in Rows : /\ reason'[r] \in {reason[r], "other_tld"}
                           /\ reason[r] # Null => reason'[r] = reason[r]
                           /\ r \in other => reason'[r] = "other_tld"
    BY <2>2, TagEffect, SomeCodes
  <2>4. isOtherTLD' \in [Rows -> BOOLEAN]
    BY <2>2 DEF TypeOK
  <2>5. next' = 4 /\ UNCHANGED <<input, outside, outcome>>
    BY <1>4, <2>1 DEF SeparateTLD, Run
  <2>6. TypeOK'
    BY <2>3, <2>4, <2>5, StepsFacts DEF TypeOK, input, outside
  <2>7. TagsStand
    BY <2>2, <2>3, CodesAreNotNull, SomeCodes DEF TagsStand
  <2>8. TagsInOrder
    BY <2>1, <2>3 DEF TagsInOrder
  <2>. QED  BY <1>a, <2>1, <2>5, <2>6, <2>7, <2>8
<1>5. CASE DeduplicateEmails
  <2>1. next = 4
    BY <1>5, RunPlace, StepsFacts DEF DeduplicateEmails, Run
  <2>. QED  BY <1>5, <1>a, <2>1, TagAdvances, SomeCodes DEF DeduplicateEmails, Live
<1>6. CASE CheckDuplicateVsMaster
  <2>1. next \in 5..13
    BY <1>6, RunPlace, StepsFacts DEF CheckDuplicateVsMaster, Run
  <2>. QED  BY <1>6, <1>a, <2>1, TagAdvances, SomeCodes DEF CheckDuplicateVsMaster, Live
<1>7. ASSUME NEW list \in Lists \ {"allowed_tld"}, FilterListed(list)
      PROVE  TypeOK' /\ UNCHANGED input /\ (Advance \/ Quiet)
  <2>1. list \notin {"invalid_email", "normalize", "separate_tld", "duplicate_email"}
    BY DEF Lists, AddressLists
  <2>2. next \in 5..13
    BY <1>7, <2>1, RunPlace, StepsFacts DEF FilterListed, Run
  <2>. QED  BY <1>7, <1>a, <2>2, TagAdvances, SomeCodes DEF FilterListed, Live
<1>8. CASE FilterNumericUsernames
  <2>1. next \in 5..13 /\ next' = next + 1
    BY <1>8, RunPlace, StepsFacts DEF FilterNumericUsernames, Run
  <2>2. UNCHANGED isOtherTLD
    BY <1>8 DEF FilterNumericUsernames
  <2>3. TypeOK'
    BY <1>8, <2>1, <2>2, UsernameEffect, StepsFacts
       DEF TypeOK, FilterNumericUsernames, Run, input, outside
  <2>4. TagsStand /\ TagsInOrder
    BY <1>8, <2>2, UsernameEffect, SomeCodes DEF TagsStand, TagsInOrder
  <2>. QED  BY <1>a, <2>1, <2>3, <2>4
<1>9. CASE FilterUsernameEqualsDomain
  <2>1. next \in 5..13
    BY <1>9, RunPlace, StepsFacts DEF FilterUsernameEqualsDomain, Run
  <2>. QED  BY <1>9, <1>a, <2>1, TagAdvances, SomeCodes DEF FilterUsernameEqualsDomain, Live
<1>10. ASSUME NEW i \in 1..Len(Steps), Skip(Steps[i])
       PROVE  TypeOK' /\ UNCHANGED input /\ (Advance \/ Quiet)
  <2>1. next \in 1..13 /\ next' = next + 1 /\ Steps[next] = Steps[i] /\ next' \in 1..14
    BY <1>10, RunPlace DEF Skip
  <2>2. next # 2
    BY <1>10, <2>1, StepsFacts DEF Skip, On
  <2>3. next = 4 => "duplicate_email" \notin toggles
    BY <1>10, <2>1, StepsFacts DEF Skip, On
  <2>4. TypeOK'
    BY <1>10, <2>1, StepsFacts DEF TypeOK, Skip, input, outside
  <2>5. TagsStand /\ TagsInOrder
    BY <1>10 DEF TagsStand, TagsInOrder, Skip
  <2>. QED  BY <1>a, <2>1, <2>2, <2>3, <2>4, <2>5
<1>11. CASE Summarise \/ Stop
  BY <1>11 DEF Summarise, Stop, TypeOK, input, outside
<1>12. ASSUME NEW list \in Lists, NEW s \in Subjects(list), EditList(list, s)
       PROVE  TypeOK' /\ UNCHANGED input /\ (Advance \/ Quiet)
  <2>1. s \in Addresses \cup Titles \cup Industries
    BY DEF Subjects, Lists, AddressLists
  <2>2. listed' \in [Lists -> SUBSET (Addresses \cup Titles \cup Industries)]
    BY <1>12, <2>1 DEF EditList, TypeOK
  <2>3. ASSUME NEW l \in Lists
        PROVE  listed'[l] \subseteq Subjects(l)
    BY <1>12 DEF EditList, TypeOK
  <2>. QED  BY <1>12, <1>a, <2>2, <2>3 DEF EditList, TypeOK, input
<1>13. ASSUME NEW a \in Addresses, OtherJobMerges(a)
       PROVE  TypeOK' /\ UNCHANGED input /\ (Advance \/ Quiet)
  BY <1>13 DEF OtherJobMerges, TypeOK, input
<1>. QED
  BY <1>1, <1>2, <1>3, <1>4, <1>5, <1>6, <1>7, <1>8, <1>9, <1>10, <1>11, <1>12, <1>13
     DEF Next, Step, Environment

-----------------------------------------------------------------------------
(* The invariants.                                                         *)

LEMMA InitType == Init => TypeOK
  BY StepsFacts DEF Init, TypeOK

LEMMA Stuttering ==
    ASSUME TypeOK, UNCHANGED vars
    PROVE  TypeOK' /\ UNCHANGED input /\ Quiet
  BY DEF TypeOK, vars, input, outside, Quiet

\* Every step of the specification, stuttering included.
LEMMA AnyStep ==
    ASSUME TypeOK, [Next]_vars
    PROVE  TypeOK' /\ UNCHANGED input /\ (Advance \/ Quiet)
  BY StepEffect, Stuttering

\* The variables keep their types whatever the file, the filters, the lists and the
\* edits of the lists (pipeline.py:125-244).
THEOREM PipelineTypeCorrect == Spec => []TypeOK
<1>1. TypeOK /\ [Next]_vars => TypeOK'
  BY AnyStep
<1>. QED  BY <1>1, InitType, PTL DEF Spec

\* A row that has been set aside carries a tag: what the report asks of a row beyond
\* the summary is never the difference.
AsideIsTagged == \A r \in Rows : isOtherTLD[r] => reason[r] # Null

\* Once the addresses have been normalised, an untagged row has a well-formed one.
UntaggedIsWellFormed ==
    next > 2 => \A r \in Untagged : /\ rows[r].email \notin RawInvalid
                                    /\ Address(r) \notin Malformed

\* The tag for duplicates is not given before the step that looks for them.
NoDuplicateYet == next <= 4 => \A r \in Rows : reason[r] # "duplicate_email"

PipelineInv ==
    /\ TypeOK
    /\ AsideIsTagged
    /\ UntaggedIsWellFormed
    /\ NoDuplicateYet
    /\ OneRowPerAddress

LEMMA AsideInductive ==
    ASSUME TypeOK, AsideIsTagged, Advance \/ Quiet
    PROVE  AsideIsTagged'
<1>1. CASE Advance
  BY <1>1 DEF Advance, TagsStand, AsideIsTagged, Rows
<1>2. CASE Quiet
  BY <1>2 DEF Quiet, AsideIsTagged, Rows
<1>. QED  BY <1>1, <1>2

LEMMA WellFormedInductive ==
    ASSUME TypeOK, UntaggedIsWellFormed, UNCHANGED input, Advance \/ Quiet
    PROVE  UntaggedIsWellFormed'
<1>1. UNCHANGED rows /\ next \in Nat
  BY DEF input, TypeOK
<1>2. CASE Quiet
  BY <1>1, <1>2 DEF Quiet, UntaggedIsWellFormed, Untagged, Address, Rows
<1>3. CASE Advance /\ next # 2
  <2>1. next' > 2 => next > 2
    BY <1>1, <1>3 DEF Advance
  <2>2. Untagged' \subseteq Untagged
    BY <1>3 DEF Advance, TagsStand, Untagged, Rows, Null
  <2>. QED  BY <1>1, <2>1, <2>2 DEF UntaggedIsWellFormed, Address
<1>4. CASE Advance /\ next = 2
  <2>1. NormalizeEmails
    BY <1>4 DEF Advance
  <2>2. ASSUME NEW r \in Untagged'
        PROVE  /\ rows[r].email \notin RawInvalid
               /\ Address(r) \notin Malformed
    <3>1. r \in Rows /\ reason'[r] = Null
      BY <2>2 DEF Untagged, Rows
    <3>2. r \in Untagged
      BY <1>4, <3>1 DEF Advance, TagsStand, Untagged
    <3>3. rows[r].email \notin Unsplittable
      BY <2>1, <3>2 DEF NormalizeEmails
    <3>4. Address(r) \notin Malformed
      BY <2>1, <3>1, <3>2, SomeCodes, CodesAreNotNull DEF NormalizeEmails, Tag
    <3>. QED  BY <3>3, <3>4, PipelineAssumption DEF Address
  <2>. QED  BY <1>1, <2>2 DEF UntaggedIsWellFormed, Address
<1>. QED  BY <1>2, <1>3, <1>4

LEMMA NoDuplicateInductive ==
    ASSUME TypeOK, NoDuplicateYet, Advance \/ Quiet
    PROVE  NoDuplicateYet'
<1>1. next \in Nat
  BY DEF TypeOK
<1>2. CASE Advance
  BY <1>1, <1>2 DEF Advance, TagsInOrder, NoDuplicateYet, Rows
<1>3. CASE Quiet
  BY <1>3 DEF Quiet, NoDuplicateYet, Rows
<1>. QED  BY <1>2, <1>3

LEMMA Duplicates == SummaryRows("duplicate_email") = {r \in Rows : reason[r] = "duplicate_email"}
  BY DEF SummaryRows, Null

\* Of the rows of one address that are in the pipeline the step leaves the first.
LEMMA FirstCopyStays ==
    ASSUME TypeOK, NoDuplicateYet, next = 4, DeduplicateEmails, UNCHANGED rows,
           TagsStand
    PROVE  /\ \A q, r \in Live' : Address(q) = Address(r) => q = r
           /\ \A r \in Rows : reason'[r] = "duplicate_email" =>
                \E q \in Rows : /\ q < r /\ Address(q) = Address(r)
                                /\ reason'[q] = Null
<1>  DEFINE hits == {r \in Live : \E q \in Live : q < r /\ Address(q) = Address(r)}
<1>1. Rows \subseteq Nat /\ NumRows \in Nat
  BY PipelineAssumption DEF Rows
<1>2. /\ Tag(hits, "duplicate_email")
      /\ hits \in SUBSET Untagged
      /\ "duplicate_email" \in ReasonCodes
      /\ UNCHANGED isOtherTLD
  BY SomeCodes DEF DeduplicateEmails, Live
<1>  HIDE DEF hits
<1>3. \A r \in Rows : /\ r \in hits => reason'[r] = "duplicate_email"
                      /\ r \notin hits => reason'[r] = reason[r]
  BY <1>2, TagEffect
<1>4. ASSUME NEW q \in Live', NEW r \in Live', Address(q) = Address(r)
      PROVE  q = r
  <2>1. ASSUME NEW p \in Live'
        PROVE  p \in Live /\ p \notin hits
    <3>1. p \in Rows /\ reason'[p] = Null /\ ~isOtherTLD[p]
      BY <1>2 DEF Live, Untagged, Rows
    <3>2. p \notin hits
      BY <1>3, <3>1 DEF Null
    <3>. QED  BY <1>3, <3>1, <3>2 DEF Live, Untagged
  <2>2. q \in Nat /\ r \in Nat /\ q \in Live \ hits /\ r \in Live \ hits
    BY <1>1, <2>1 DEF Live, Untagged
  <2>3. ~ (q < r) /\ ~ (r < q)
    BY <1>4, <2>2 DEF hits
  <2>. QED  BY <2>2, <2>3
<1>5. ASSUME NEW r \in Rows, reason'[r] = "duplicate_email"
      PROVE  \E q \in Rows : /\ q < r /\ Address(q) = Address(r)
                             /\ reason'[q] = Null
  <2>1. r \in hits
    BY <1>3, <1>5 DEF NoDuplicateYet
  <2>  DEFINE copies == {q \in Live : Address(q) = Address(r)}
  <2>2. copies \subseteq Rows
    BY DEF Live, Untagged
  <2>3. PICK second \in copies : second < r
    BY <2>1 DEF hits
  <2>4. PICK first \in copies : \A q \in copies : first <= q
    BY <1>1, <2>2, <2>3, FirstRow
  <2>5. first < r /\ first \notin hits
    <3>1. first \in Nat /\ second \in Nat /\ r \in Nat
      BY <1>1, <2>2
    <3>2. first < r
      BY <2>3, <2>4, <3>1
    <3>3. ASSUME NEW q \in Live, Address(q) = Address(first)
          PROVE  ~ (q < first)
      <4>1. q \in copies /\ q \in Nat
        BY <1>1, <2>2, <3>3
      <4>. QED  BY <2>4, <3>1, <4>1
    <3>. QED  BY <3>2, <3>3 DEF hits
  <2>6. first \in Rows /\ reason[first] = Null /\ Address(first) = Address(r)
    BY DEF Live, Untagged
  <2>. QED  BY <1>3, <2>5, <2>6
<1>. QED  BY <1>4, <1>5

LEMMA OneRowInductive ==
    ASSUME TypeOK, OneRowPerAddress, NoDuplicateYet, UNCHANGED input, Advance \/ Quiet
    PROVE  OneRowPerAddress'
<1>1. UNCHANGED <<rows, toggles>> /\ next \in Nat /\ Rows' = Rows
  BY DEF input, TypeOK, Rows
<1>2. \A r \in Rows : Address(r)' = Address(r)
  BY <1>1 DEF Address
<1>3. SummaryRows("duplicate_email")' = {r \in Rows : reason'[r] = "duplicate_email"}
  BY <1>1 DEF SummaryRows, Null
<1>4. CASE Quiet
  BY <1>1, <1>2, <1>3, <1>4, Duplicates DEF Quiet, OneRowPerAddress, Live, Untagged
<1>5. CASE Advance /\ next < 4
  BY <1>1, <1>5 DEF Advance, OneRowPerAddress
<1>6. CASE Advance /\ next = 4
  <2>. SUFFICES ASSUME "duplicate_email" \in toggles
                PROVE  OneRowPerAddress'
    BY <1>1 DEF OneRowPerAddress
  <2>1. /\ \A q, r \in Live' : Address(q) = Address(r) => q = r
        /\ \A r \in Rows : reason'[r] = "duplicate_email" =>
             \E q \in Rows : /\ q < r /\ Address(q) = Address(r)
                             /\ reason'[q] = Null
    BY <1>1, <1>6, FirstCopyStays DEF Advance
  <2>2. Live' \subseteq Rows
    BY <1>1 DEF Live, Untagged
  <2>. QED  BY <1>1, <1>2, <1>3, <2>1, <2>2 DEF OneRowPerAddress, Null
<1>7. CASE Advance /\ next > 4
  <2>. SUFFICES ASSUME "duplicate_email" \in toggles
                PROVE  OneRowPerAddress'
    BY <1>1 DEF OneRowPerAddress
  <2>1. /\ \A q, r \in Live : Address(q) = Address(r) => q = r
        /\ \A r \in Rows : reason[r] = "duplicate_email" =>
             \E q \in Rows :
                 /\ q < r /\ Address(q) = Address(r)
                 /\ reason[q] \notin {"invalid_email", "other_tld", "duplicate_email"}
    BY <1>7, Duplicates DEF OneRowPerAddress
  <2>2. Live' \subseteq Live
    BY <1>1, <1>7 DEF Advance, TagsStand, Live, Untagged
  <2>3. \A r \in Rows :
            \/ reason'[r] = reason[r]
            \/ reason'[r] \notin {"invalid_email", "other_tld", "duplicate_email"}
    BY <1>1, <1>7 DEF Advance, TagsInOrder
  <2>4. Live \subseteq Rows
    BY DEF Live, Untagged
  <2>5. \A q, r \in Live' : Address(q)' = Address(r)' => q = r
    BY <1>2, <2>1, <2>2, <2>4
  <2>6. ASSUME NEW r \in Rows, reason'[r] = "duplicate_email"
        PROVE  \E q \in Rows :
                   /\ q < r /\ Address(q)' = Address(r)'
                   /\ reason'[q] \notin {"invalid_email", "other_tld", "duplicate_email"}
    <3>1. reason[r] = "duplicate_email"
      BY <2>3, <2>6
    <3>. QED  BY <1>2, <2>1, <2>3, <3>1
  <2>. QED  BY <1>1, <1>3, <2>5, <2>6 DEF OneRowPerAddress
<1>. QED  BY <1>1, <1>4, <1>5, <1>6, <1>7

LEMMA InitPipelineInv == Init => PipelineInv
<1>. SUFFICES ASSUME Init PROVE PipelineInv
  OBVIOUS
<1>1. /\ next = 1 /\ \A r \in Rows : reason[r] = Null /\ ~isOtherTLD[r]
  BY DEF Init
<1>2. AsideIsTagged /\ UntaggedIsWellFormed /\ OneRowPerAddress
  BY <1>1 DEF AsideIsTagged, UntaggedIsWellFormed, OneRowPerAddress
<1>3. NoDuplicateYet
  BY <1>1 DEF NoDuplicateYet, Null
<1>. QED  BY InitType, <1>2, <1>3 DEF PipelineInv

LEMMA PipelineInductive == PipelineInv /\ [Next]_vars => PipelineInv'
<1>. SUFFICES ASSUME PipelineInv, [Next]_vars PROVE PipelineInv'
  OBVIOUS
<1>1. TypeOK' /\ UNCHANGED input /\ (Advance \/ Quiet)
  BY AnyStep DEF PipelineInv
<1>. QED
  BY <1>1, AsideInductive, WellFormedInductive, NoDuplicateInductive, OneRowInductive
     DEF PipelineInv

LEMMA PipelineInvariant == Spec => []PipelineInv
  BY InitPipelineInv, PipelineInductive, PTL DEF Spec

-----------------------------------------------------------------------------
(* The properties.                                                         *)

\* The file of a category and its count in the summary are about the same rows, at
\* every step the run may stop at (sp_FT_GetJobSummary.sql:22-26,
\* report_service.py:40-43).
THEOREM FilesMatch == Spec => []FilesMatchSummary
<1>1. PipelineInv => FilesMatchSummary
  <2>. SUFFICES ASSUME PipelineInv, NEW code \in ReasonCodes \cup {"kept"}
                PROVE  ReportRows(code) = SummaryRows(code)
    BY DEF FilesMatchSummary
  <2>1. CASE code = "kept"
    <3>1. \A r \in Rows : reason[r] \in ReasonCodes \cup {Null} /\ reason[r] # "kept"
      BY CodesAreNotNull DEF PipelineInv, TypeOK
    <3>2. Live = {r \in Rows : reason[r] = Null}
      BY DEF PipelineInv, AsideIsTagged, Live, Untagged
    <3>. QED  BY <2>1, <3>1, <3>2 DEF ReportRows, SummaryRows
  <2>2. CASE code # "kept"
    BY <2>2, CodesAreNotNull DEF ReportRows, SummaryRows
  <2>. QED  BY <2>1, <2>2
<1>. QED  BY <1>1, PipelineInvariant, PTL

\* What is still in the pipeline after the normalisation is well-formed, whichever
\* filters are on (sp_FT_NormalizeEmails.sql:42-54).
THEOREM KeptWellFormed == Spec => []KeptIsWellFormed
<1>1. PipelineInv => KeptIsWellFormed
  BY DEF PipelineInv, UntaggedIsWellFormed, KeptIsWellFormed, Live
<1>. QED  BY <1>1, PipelineInvariant, PTL

\* An address that is in the file more than once is kept once, and not lost
\* (sp_FT_DeduplicateEmails.sql:4-5).
THEOREM AddressOnce == Spec => []OneRowPerAddress
<1>1. PipelineInv => OneRowPerAddress
  BY DEF PipelineInv
<1>. QED  BY <1>1, PipelineInvariant, PTL

\* No later step, and no edit of a list, takes a tag back or changes it
\* (the WHERE ReasonCode IS NULL of every procedure).
THEOREM FirstVerdictStands == Spec => VerdictStands
<1>1. TypeOK /\ [Next]_vars => [\A r \in Rows : reason[r] # Null => reason'[r] = reason[r]]_vars
  <2>. SUFFICES ASSUME TypeOK, [Next]_vars
                PROVE  \A r \in Rows : reason[r] # Null => reason'[r] = reason[r]
    OBVIOUS
  <2>. QED  BY AnyStep DEF Advance, Quiet, TagsStand
<1>. QED  BY <1>1, PipelineTypeCorrect, PTL DEF Spec, VerdictStands

-----------------------------------------------------------------------------
(* The verdicts, rule by rule.  Rules are numbered as in Rules; with lists *)
(* that stand still, the rules that the steps so far stand for have been   *)
(* applied to every row, and no other.                                     *)

Hit(i, r) == Rules(r)[i][2]

RuleCode == <<"invalid_email", "other_tld", "duplicate_email", "duplicate_vs_master",
              "personal_email", "restricted_domain", "restricted_keyword",
              "restricted_title", "restricted_industry", "one_character_username",
              "numeric_username", "username_equals_domain", "spam_domain">>

\* How many rules have been applied when a step comes next: the first two steps apply
\* one between them, and username_rules applies two.
Applied(step) == IF step <= 2 THEN 0 ELSE IF step <= 11 THEN step - 2 ELSE step - 1

\* The first rule that applies to the row is the i-th.
FirstHit(i, r) == Hit(i, r) /\ \A k \in 1..(i - 1) : ~Hit(k, r)

Judged(n) ==
    \A r \in Rows :
        \/ reason[r] = Null /\ \A i \in 1..n : ~Hit(i, r)
        \/ \E i \in 1..n : reason[r] = RuleCode[i] /\ FirstHit(i, r)

\* Until the second step is over, the first rule has been applied to some rows.
JudgedInvalid ==
    \A r \in Rows : reason[r] # Null => reason[r] = "invalid_email" /\ Hit(1, r)

JudgedSoFar ==
    edits = 0 => IF next <= 2 THEN JudgedInvalid ELSE Judged(Applied(next))

LEMMA RuleLength ==
    ASSUME NEW r \in Rows
    PROVE  Len(Rules(r)) = 13 /\ DOMAIN Rules(r) = 1..13
  BY DEF Rules

LEMMA RuleCodes ==
    ASSUME NEW r \in Rows, NEW i \in 1..13
    PROVE  Rules(r)[i][1] = RuleCode[i]
  BY DEF Rules, RuleCode

LEMMA RuleHits ==
    ASSUME NEW r \in Rows
    PROVE  /\ Hit(1, r) <=> \/ Address(r) \in Malformed
                            \/ "invalid_email" \in toggles /\ rows[r].email \in RawInvalid
           /\ Hit(2, r) <=> Address(r) \notin listed["allowed_tld"]
           /\ Hit(3, r) <=> /\ "duplicate_email" \in toggles
                            /\ \E q \in Rows : q < r /\ Address(q) = Address(r)
           /\ Hit(4, r) <=> "duplicate_vs_master" \in toggles /\ Address(r) \in master
           /\ Hit(5, r) <=> /\ "personal_email" \in toggles
                            /\ Address(r) \in listed["personal_email"]
           /\ Hit(6, r) <=> /\ "restricted_domain" \in toggles
                            /\ Address(r) \in listed["restricted_domain"]
           /\ Hit(7, r) <=> /\ "restricted_keyword" \in toggles
                            /\ Address(r) \in listed["restricted_keyword"]
           /\ Hit(8, r) <=> /\ "restricted_title" \in toggles /\ "title" \in columns
                            /\ rows[r].title \in listed["restricted_title"]
           /\ Hit(9, r) <=> /\ "restricted_industry" \in toggles /\ "industry" \in columns
                            /\ rows[r].industry \in listed["restricted_industry"]
           /\ Hit(10, r) <=> "one_character_username" \in toggles /\ Address(r) \in OneCharacter
           /\ Hit(11, r) <=> "numeric_username" \in toggles /\ Address(r) \in Numeric
           /\ Hit(12, r) <=> "username_equals_domain" \in toggles /\ Address(r) \in SameAsDomain
           /\ Hit(13, r) <=> "spam_domain" \in toggles /\ Address(r) \in listed["spam_domain"]
  BY DEF Hit, Rules

\* The first rule that applies, as ClassifyRow finds it.
LEMMA ClassifiedByFirst ==
    ASSUME NEW r \in Rows, NEW i \in 1..13, FirstHit(i, r)
    PROVE  ClassifyRow(r) = RuleCode[i]
<1>  DEFINE hits == {k \in DOMAIN Rules(r) : Rules(r)[k][2]}
<1>1. i \in hits /\ hits \subseteq 1..13
  BY RuleLength DEF FirstHit, Hit
<1>2. \A k \in hits : i <= k
  BY RuleLength DEF FirstHit, Hit
<1>3. \A j \in hits : (\A k \in hits : j <= k) => j = i
  BY <1>1, <1>2
<1>  HIDE DEF hits
<1>4. (CHOOSE j \in hits : \A k \in hits : j <= k) = i
  BY <1>1, <1>2, <1>3
<1>5. ClassifyRow(r) = Rules(r)[i][1]
  BY <1>1, <1>4 DEF ClassifyRow, hits
<1>. QED  BY <1>5, RuleCodes

LEMMA ClassifiedByNone ==
    ASSUME NEW r \in Rows, \A i \in 1..13 : ~Hit(i, r)
    PROVE  ClassifyRow(r) = Null
  BY RuleLength DEF ClassifyRow, Hit

-----------------------------------------------------------------------------
\* The rules stand while the file, the filters, the lists and Master do.
LEMMA HitsStand ==
    ASSUME UNCHANGED <<input, listed, master>>, NEW r \in Rows, NEW i
    PROVE  Hit(i, r)' <=> Hit(i, r)
  BY DEF Hit, Rules, Address, input

\* A step that applies the next rule to the rows without a tag.
LEMMA OneRule ==
    ASSUME NEW n \in 0..12, Judged(n), UNCHANGED <<input, listed, master>>,
           \A r \in Rows : IF r \in Untagged /\ Hit(n + 1, r)
                           THEN reason'[r] = RuleCode[n + 1]
                           ELSE reason'[r] = reason[r]
    PROVE  Judged(n + 1)'
<1>. SUFFICES ASSUME NEW r \in Rows
              PROVE  \/ reason'[r] = Null /\ \A i \in 1..(n + 1) : ~Hit(i, r)
                     \/ \E i \in 1..(n + 1) : reason'[r] = RuleCode[i] /\ FirstHit(i, r)
  BY HitsStand DEF Judged, FirstHit
<1>1. CASE reason[r] = Null /\ \A i \in 1..n : ~Hit(i, r)
  <2>1. CASE Hit(n + 1, r)
    <3>1. FirstHit(n + 1, r)
      BY <1>1, <2>1 DEF FirstHit
    <3>2. reason'[r] = RuleCode[n + 1]
      BY <1>1, <2>1 DEF Untagged
    <3>. QED  BY <3>1, <3>2
  <2>2. CASE ~Hit(n + 1, r)
    <3>1. reason'[r] = Null
      BY <1>1, <2>2
    <3>2. \A i \in 1..(n + 1) : i \in 1..n \/ i = n + 1
      OBVIOUS
    <3>. QED  BY <1>1, <2>2, <3>1, <3>2
  <2>. QED  BY <2>1, <2>2
<1>2. ASSUME NEW i \in 1..n, reason[r] = RuleCode[i], FirstHit(i, r)
      PROVE  \E k \in 1..(n + 1) : reason'[r] = RuleCode[k] /\ FirstHit(k, r)
  <2>1. RuleCode[i] # Null
    BY DEF RuleCode, Null
  <2>2. reason'[r] = RuleCode[i] /\ i \in 1..(n + 1)
    BY <1>2, <2>1 DEF Untagged
  <2>. QED  BY <1>2, <2>2
<1>. QED  BY <1>1, <1>2 DEF Judged

\* A step that applies two rules, the second to what the first has left.
LEMMA TwoRules ==
    ASSUME NEW n \in 0..11, Judged(n), UNCHANGED <<input, listed, master>>,
           \A r \in Rows : IF r \in Untagged /\ Hit(n + 1, r)
                           THEN reason'[r] = RuleCode[n + 1]
                           ELSE IF r \in Untagged /\ Hit(n + 2, r)
                           THEN reason'[r] = RuleCode[n + 2]
                           ELSE reason'[r] = reason[r]
    PROVE  Judged(n + 2)'
<1>. SUFFICES ASSUME NEW r \in Rows
              PROVE  \/ reason'[r] = Null /\ \A i \in 1..(n + 2) : ~Hit(i, r)
                     \/ \E i \in 1..(n + 2) : reason'[r] = RuleCode[i] /\ FirstHit(i, r)
  BY HitsStand DEF Judged, FirstHit
<1>1. CASE reason[r] = Null /\ \A i \in 1..n : ~Hit(i, r)
  <2>1. CASE Hit(n + 1, r)
    <3>1. FirstHit(n + 1, r)
      BY <1>1, <2>1 DEF FirstHit
    <3>2. reason'[r] = RuleCode[n + 1] /\ n + 1 \in 1..(n + 2)
      BY <1>1, <2>1 DEF Untagged
    <3>. QED  BY <3>1, <3>2
  <2>2. CASE ~Hit(n + 1, r) /\ Hit(n + 2, r)
    <3>1. \A k \in 1..(n + 2 - 1) : k \in 1..n \/ k = n + 1
      OBVIOUS
    <3>2. FirstHit(n + 2, r)
      BY <1>1, <2>2, <3>1 DEF FirstHit
    <3>3. reason'[r] = RuleCode[n + 2] /\ n + 2 \in 1..(n + 2)
      BY <1>1, <2>2 DEF Untagged
    <3>. QED  BY <3>2, <3>3
  <2>3. CASE ~Hit(n + 1, r) /\ ~Hit(n + 2, r)
    <3>1. reason'[r] = Null
      BY <1>1, <2>3
    <3>2. \A i \in 1..(n + 2) : i \in 1..n \/ i = n + 1 \/ i = n + 2
      OBVIOUS
    <3>. QED  BY <1>1, <2>3, <3>1, <3>2
  <2>. QED  BY <2>1, <2>2, <2>3
<1>2. ASSUME NEW i \in 1..n, reason[r] = RuleCode[i], FirstHit(i, r)
      PROVE  \E k \in 1..(n + 2) : reason'[r] = RuleCode[k] /\ FirstHit(k, r)
  <2>1. RuleCode[i] # Null
    BY DEF RuleCode, Null
  <2>2. reason'[r] = RuleCode[i] /\ i \in 1..(n + 2)
    BY <1>2, <2>1 DEF Untagged
  <2>. QED  BY <1>2, <2>2
<1>. QED  BY <1>1, <1>2 DEF Judged

\* A step that is left out, its rule applying to no row.
LEMMA NoRule ==
    ASSUME NEW n \in 0..12, Judged(n), UNCHANGED <<input, listed, master, reason>>,
           \A r \in Rows : ~Hit(n + 1, r)
    PROVE  Judged(n + 1)'
  BY OneRule

\* Where each step is, and how many rules have been applied before it.
LEMMA StepPlaces ==
    /\ Steps[5] = "duplicate_vs_master" /\ Steps[6] = "personal_email"
    /\ Steps[7] = "restricted_domain" /\ Steps[8] = "restricted_keyword"
    /\ Steps[9] = "restricted_title" /\ Steps[10] = "restricted_industry"
    /\ Steps[11] = "username_rules" /\ Steps[12] = "username_equals_domain"
    /\ Steps[13] = "spam_domain"
  BY DEF Steps

\* A step that tags the rows in the pipeline to which the next rule applies.
LEMMA RuleApplied ==
    ASSUME AsideIsTagged, NEW n \in 0..12, Judged(n), UNCHANGED <<input, listed, master>>,
           NEW hits \in SUBSET Rows, Tag(hits, RuleCode[n + 1]),
           \A r \in Rows : r \in hits <=> r \in Live /\ Hit(n + 1, r)
    PROVE  Judged(n + 1)'
<1>1. Live = Untagged
  BY DEF AsideIsTagged, Live, Untagged
<1>2. \A r \in Rows : IF r \in Untagged /\ Hit(n + 1, r)
                      THEN reason'[r] = RuleCode[n + 1]
                      ELSE reason'[r] = reason[r]
  BY <1>1 DEF Tag
<1>. QED  BY <1>2, OneRule

\* The lists stand still as long as nobody has edited them.
LEMMA ListsStand ==
    ASSUME TypeOK, Next, edits' = 0
    PROVE  edits = 0 /\ UNCHANGED <<input, listed, master>>
<1>1. edits \in Nat /\ edits + 1 # 0
  BY DEF TypeOK
<1>2. CASE Step
  BY <1>2 DEF Step, RemoveInvalidEmails, NormalizeEmails, NormalizeRaises, SeparateTLD,
     DeduplicateEmails, CheckDuplicateVsMaster, FilterListed, FilterNumericUsernames,
     FilterUsernameEqualsDomain, Run, Skip, Summarise, Stop, outside
<1>3. CASE Environment
  BY <1>1, <1>3 DEF Environment, EditList, OtherJobMerges
<1>. QED  BY <1>2, <1>3 DEF Next

\* The first rule is applied by two steps: what is blank or has no '@' or no '.', then
\* what turns out malformed.
LEMMA InvalidJudged ==
    ASSUME TypeOK, JudgedInvalid, UNCHANGED <<input, listed, master>>
    PROVE  /\ RemoveInvalidEmails => JudgedInvalid'
           /\ NormalizeEmails => Judged(1)'
<1>1. ASSUME RemoveInvalidEmails
      PROVE  JudgedInvalid'
  <2>1. "invalid_email" \in toggles
    BY <1>1 DEF RemoveInvalidEmails, Run, On
  <2>2. ASSUME NEW r \in Rows, reason'[r] # Null
        PROVE  reason'[r] = "invalid_email" /\ Hit(1, r)
    BY <1>1, <2>1, <2>2, RuleHits DEF RemoveInvalidEmails, Tag, Untagged, JudgedInvalid
  <2>. QED  BY <2>2, HitsStand DEF JudgedInvalid
<1>2. ASSUME NormalizeEmails
      PROVE  Judged(1)'
  <2>1. \A r \in Rows : Hit(1, r) <=>
          Address(r) \in Malformed \/ ("invalid_email" \in toggles /\ rows[r].email \in RawInvalid)
    BY RuleHits
  <2>2. \A r \in Rows : rows[r].email \in RawInvalid => Address(r) \in Malformed
    BY PipelineAssumption DEF Address
  <2>3. ASSUME NEW r \in Rows
        PROVE  \/ reason'[r] = Null /\ ~Hit(1, r)
               \/ reason'[r] = "invalid_email" /\ Hit(1, r)
    <3>1. CASE r \in Untagged
      BY <1>2, <2>1, <2>2, <3>1 DEF NormalizeEmails, Tag, Untagged
    <3>2. CASE r \notin Untagged
      BY <1>2, <3>2 DEF NormalizeEmails, Tag, Untagged, JudgedInvalid
    <3>. QED  BY <3>1, <3>2
  <2>4. RuleCode[1] = "invalid_email" /\ \A r : FirstHit(1, r) <=> Hit(1, r)
    BY DEF RuleCode, FirstHit
  <2>5. \A r \in Rows : \/ reason'[r] = Null /\ \A i \in 1..1 : ~Hit(i, r)
                        \/ \E i \in 1..1 : reason'[r] = RuleCode[i] /\ FirstHit(i, r)
    BY <2>3, <2>4
  <2>. QED  BY <2>5, HitsStand DEF Judged, FirstHit
<1>. QED  BY <1>1, <1>2

\* Of the rows of one address all are in the pipeline or none is, when duplicates are
\* looked for.
LEMMA DuplicatesJudged ==
    ASSUME TypeOK, AsideIsTagged, Judged(2), UNCHANGED <<input, listed, master>>,
           DeduplicateEmails
    PROVE  Judged(3)'
<1>1. Live = Untagged
  BY DEF AsideIsTagged, Live, Untagged
<1>2. \A q \in Rows : q \in Untagged <=> ~Hit(1, q) /\ ~Hit(2, q)
  <2>. SUFFICES ASSUME NEW q \in Rows
                PROVE  q \in Untagged <=> ~Hit(1, q) /\ ~Hit(2, q)
    OBVIOUS
  <2>1. CASE reason[q] = Null /\ \A i \in 1..2 : ~Hit(i, q)
    BY <2>1 DEF Untagged
  <2>2. ASSUME NEW i \in 1..2, reason[q] = RuleCode[i], FirstHit(i, q)
        PROVE  reason[q] # Null /\ (Hit(1, q) \/ Hit(2, q))
    <3>1. i = 1 \/ i = 2
      OBVIOUS
    <3>. QED  BY <2>2, <3>1 DEF RuleCode, Null, FirstHit
  <2>. QED  BY <2>1, <2>2 DEF Judged, Untagged
<1>3. \A q \in Rows : Hit(1, q) <=> Address(q) \in Malformed
  <2>. SUFFICES ASSUME NEW q \in Rows
                PROVE  Hit(1, q) <=> Address(q) \in Malformed
    OBVIOUS
  <2>1. rows[q].email \in RawInvalid => Address(q) \in Malformed
    BY PipelineAssumption DEF Address
  <2>. QED  BY <2>1, RuleHits
<1>4. \A q, r \in Rows : Address(q) = Address(r) => (q \in Untagged <=> r \in Untagged)
  <2>1. \A q \in Rows : Hit(2, q) <=> Address(q) \notin listed["allowed_tld"]
    BY RuleHits
  <2>. QED  BY <1>2, <1>3, <2>1
<1>5. "duplicate_email" \in toggles
  BY DEF DeduplicateEmails, Run, On
<1>  DEFINE hits == {r \in Live : \E q \in Live : q < r /\ Address(q) = Address(r)}
<1>6. \A r \in Rows : r \in hits <=> r \in Live /\ Hit(3, r)
  <2>1. \A r \in Rows : Hit(3, r) <=> \E q \in Rows : q < r /\ Address(q) = Address(r)
    BY <1>5, RuleHits
  <2>2. Live \subseteq Rows
    BY DEF Live, Untagged
  <2>. QED  BY <1>1, <1>4, <2>1, <2>2
<1>7. Tag(hits, RuleCode[3]) /\ hits \in SUBSET Rows
  BY DEF DeduplicateEmails, RuleCode, Live, Untagged
<1>  HIDE DEF hits
<1>8. Judged(2 + 1)'
  BY <1>6, <1>7, RuleApplied, 2 + 1 = 3
<1>. QED  BY <1>8, 2 + 1 = 3

\* The filters with a list, each at its place and for its rule.
LEMMA ListRules ==
    /\ \A list \in Lists \ {"allowed_tld"} :
         list \in {"personal_email", "restricted_domain", "restricted_keyword",
                   "restricted_title", "restricted_industry", "spam_domain"}
    /\ \A i \in 1..13 : /\ Steps[i] = "personal_email" => i = 6
                        /\ Steps[i] = "restricted_domain" => i = 7
                        /\ Steps[i] = "restricted_keyword" => i = 8
                        /\ Steps[i] = "restricted_title" => i = 9
                        /\ Steps[i] = "restricted_industry" => i = 10
                        /\ Steps[i] = "spam_domain" => i = 13
                        /\ Steps[i] = "duplicate_vs_master" => i = 5
                        /\ Steps[i] = "username_rules" => i = 11
                        /\ Steps[i] = "username_equals_domain" => i = 12
  BY DEF Lists, AddressLists, Steps

LEMMA ListedJudged ==
    ASSUME TypeOK, AsideIsTagged, next \in 5..13, NEW n \in 0..12, n = Applied(next),
           Judged(n), UNCHANGED <<input, listed, master>>,
           NEW list \in Lists \ {"allowed_tld"}, FilterListed(list)
    PROVE  Judged(n + 1)'
<1>1. next \in 1..13 /\ Steps[next] = list /\ On(list)
  BY RunPlace DEF FilterListed, Run
<1>  DEFINE hits == {r \in Live : Subject(list, r) \in listed[list]}
<1>2. hits \in SUBSET Rows /\ Tag(hits, list)
  BY DEF FilterListed, Live, Untagged
<1>3. RuleCode[n + 1] = list /\ \A r \in Rows : Hit(n + 1, r) <=> Subject(list, r) \in listed[list]
  <2>1. CASE list = "personal_email"
    <3>1. n + 1 = 5 /\ list \in toggles
      BY <1>1, <2>1, ListRules DEF On, Applied
    <3>. QED  BY <2>1, <3>1, RuleHits DEF Subject, RuleCode
  <2>2. CASE list = "restricted_domain"
    <3>1. n + 1 = 6 /\ list \in toggles
      BY <1>1, <2>2, ListRules DEF On, Applied
    <3>. QED  BY <2>2, <3>1, RuleHits DEF Subject, RuleCode
  <2>3. CASE list = "restricted_keyword"
    <3>1. n + 1 = 7 /\ list \in toggles
      BY <1>1, <2>3, ListRules DEF On, Applied
    <3>. QED  BY <2>3, <3>1, RuleHits DEF Subject, RuleCode
  <2>4. CASE list = "restricted_title"
    <3>1. n + 1 = 8 /\ list \in toggles /\ "title" \in columns
      BY <1>1, <2>4, ListRules DEF On, Applied
    <3>. QED  BY <2>4, <3>1, RuleHits DEF Subject, RuleCode
  <2>5. CASE list = "restricted_industry"
    <3>1. n + 1 = 9 /\ list \in toggles /\ "industry" \in columns
      BY <1>1, <2>5, ListRules DEF On, Applied
    <3>. QED  BY <2>5, <3>1, RuleHits DEF Subject, RuleCode
  <2>6. CASE list = "spam_domain"
    <3>1. n + 1 = 13 /\ list \in toggles
      BY <1>1, <2>6, ListRules DEF On, Applied
    <3>. QED  BY <2>6, <3>1, RuleHits DEF Subject, RuleCode
  <2>. QED  BY <2>1, <2>2, <2>3, <2>4, <2>5, <2>6, ListRules
<1>4. \A r \in Rows : r \in hits <=> r \in Live /\ Hit(n + 1, r)
  BY <1>3
<1>  HIDE DEF hits
<1>. QED  BY <1>2, <1>3, <1>4, RuleApplied

\* The three filters that have a rule of their own and no list.
LEMMA OwnRuleJudged ==
    ASSUME TypeOK, AsideIsTagged, next \in 5..13, Judged(Applied(next)),
           UNCHANGED <<input, listed, master>>
    PROVE  /\ CheckDuplicateVsMaster => next = 5 /\ Judged(4)'
           /\ FilterNumericUsernames => next = 11 /\ Judged(11)'
           /\ FilterUsernameEqualsDomain => next = 12 /\ Judged(12)'
<1>1. ASSUME CheckDuplicateVsMaster
      PROVE  next = 5 /\ Judged(4)'
  <2>1. next = 5 /\ "duplicate_vs_master" \in toggles
    BY <1>1, RunPlace, ListRules DEF CheckDuplicateVsMaster, Run, On
  <2>  DEFINE hits == {r \in Live : Address(r) \in master}
  <2>2. \A r \in Rows : Hit(4, r) <=> Address(r) \in master
    BY <2>1, RuleHits
  <2>3. hits \in SUBSET Rows /\ Tag(hits, RuleCode[4])
    BY <1>1 DEF CheckDuplicateVsMaster, RuleCode, Live, Untagged
  <2>4. \A r \in Rows : r \in hits <=> r \in Live /\ Hit(4, r)
    BY <2>2
  <2>5. Judged(3)
    BY <2>1 DEF Applied
  <2>  HIDE DEF hits
  <2>6. Judged(3 + 1)'
    BY <2>3, <2>4, <2>5, RuleApplied, 3 + 1 = 4
  <2>. QED  BY <2>1, <2>6, 3 + 1 = 4
<1>2. ASSUME FilterUsernameEqualsDomain
      PROVE  next = 12 /\ Judged(12)'
  <2>1. next = 12 /\ "username_equals_domain" \in toggles
    BY <1>2, RunPlace, ListRules DEF FilterUsernameEqualsDomain, Run, On
  <2>  DEFINE hits == {r \in Live : Address(r) \in SameAsDomain}
  <2>2. \A r \in Rows : Hit(12, r) <=> Address(r) \in SameAsDomain
    BY <2>1, RuleHits
  <2>3. hits \in SUBSET Rows /\ Tag(hits, RuleCode[12])
    BY <1>2 DEF FilterUsernameEqualsDomain, RuleCode, Live, Untagged
  <2>4. \A r \in Rows : r \in hits <=> r \in Live /\ Hit(12, r)
    BY <2>2
  <2>5. Judged(11)
    BY <2>1 DEF Applied
  <2>  HIDE DEF hits
  <2>6. Judged(11 + 1)'
    BY <2>3, <2>4, <2>5, RuleApplied, 11 + 1 = 12
  <2>. QED  BY <2>1, <2>6, 11 + 1 = 12
<1>3. ASSUME FilterNumericUsernames
      PROVE  next = 11 /\ Judged(11)'
  <2>1. next = 11
    BY <1>3, RunPlace, ListRules DEF FilterNumericUsernames, Run
  <2>  DEFINE oneOn == "one_character_username" \in toggles
              numOn == "numeric_username" \in toggles
              one == IF oneOn THEN {r \in Live : Address(r) \in OneCharacter} ELSE {}
              num == IF numOn THEN {r \in Live \ one : Address(r) \in Numeric} ELSE {}
  <2>2. reason' = [r \in Rows |-> CASE r \in one -> "one_character_username"
                                    [] r \in num -> "numeric_username"
                                    [] OTHER     -> reason[r]]
    BY <1>3 DEF FilterNumericUsernames
  <2>3. Live = Untagged
    BY DEF AsideIsTagged, Live, Untagged
  <2>4. \A r \in Rows : r \in one <=> r \in Untagged /\ Hit(10, r)
    <3>1. \A r \in Rows : r \in one <=> oneOn /\ r \in Live /\ Address(r) \in OneCharacter
      OBVIOUS
    <3>2. \A r \in Rows : Hit(10, r) <=> oneOn /\ Address(r) \in OneCharacter
      BY RuleHits
    <3>  HIDE DEF one
    <3>. QED  BY <2>3, <3>1, <3>2
  <2>5. \A r \in Rows : r \in num <=> r \in Untagged /\ Hit(11, r) /\ ~Hit(10, r)
    <3>1. \A r \in Rows : r \in num <=> numOn /\ r \in Live /\ r \notin one /\ Address(r) \in Numeric
      OBVIOUS
    <3>2. \A r \in Rows : Hit(11, r) <=> numOn /\ Address(r) \in Numeric
      BY RuleHits
    <3>  HIDE DEF one, num
    <3>. QED  BY <2>3, <2>4, <3>1, <3>2
  <2>  HIDE DEF one, num
  <2>6. ASSUME NEW r \in Rows
        PROVE  IF r \in Untagged /\ Hit(10, r)
               THEN reason'[r] = RuleCode[10]
               ELSE IF r \in Untagged /\ Hit(11, r)
               THEN reason'[r] = RuleCode[11]
               ELSE reason'[r] = reason[r]
    <3>1. RuleCode[10] = "one_character_username" /\ RuleCode[11] = "numeric_username"
      BY DEF RuleCode
    <3>. QED  BY <2>2, <2>4, <2>5, <3>1
  <2>7. Judged(9) /\ 9 + 1 = 10 /\ 9 + 2 = 11
    BY <2>1 DEF Applied
  <2>8. Judged(9 + 2)'
    BY <2>6, <2>7, TwoRules
  <2>. QED  BY <2>1, <2>7, <2>8
<1>. QED  BY <1>1, <1>2, <1>3

\* A run is done after its last step only.
SummarisedAtEnd == outcome = "done" => next = 14

LEMMA SummarisedInvariant == Spec => []SummarisedAtEnd
<1>1. Init => SummarisedAtEnd
  BY DEF Init, SummarisedAtEnd
<1>2. TypeOK /\ SummarisedAtEnd /\ [Next]_vars => SummarisedAtEnd'
  <2>. SUFFICES ASSUME TypeOK, SummarisedAtEnd, [Next]_vars, outcome' = "done"
                PROVE  next' = 14
    BY DEF SummarisedAtEnd
  <2>1. CASE UNCHANGED vars
    BY <2>1 DEF vars, SummarisedAtEnd
  <2>2. CASE Step
    <3>1. CASE Summarise
      BY <3>1, StepsFacts DEF Summarise
    <3>2. CASE NormalizeRaises \/ Stop
      BY <3>2 DEF NormalizeRaises, Stop
    <3>3. ASSUME NEW step, Run(step) \/ Skip(step)
          PROVE  FALSE
      BY <3>3 DEF Run, Skip, At
    <3>. QED
      BY <2>2, <3>1, <3>2, <3>3
         DEF Step, RemoveInvalidEmails, NormalizeEmails, SeparateTLD, DeduplicateEmails,
             CheckDuplicateVsMaster, FilterListed, FilterNumericUsernames,
             FilterUsernameEqualsDomain
  <2>3. CASE Environment
    BY <2>3 DEF Environment, EditList, OtherJobMerges, SummarisedAtEnd
  <2>. QED  BY <2>1, <2>2, <2>3 DEF Next
<1>. QED  BY <1>1, <1>2, PipelineTypeCorrect, PTL DEF Spec

\* A step that is left out stands for rules that no row can break.
LEMMA SkipJudged ==
    ASSUME TypeOK, next \in 3..13, NEW n, n = Applied(next), Judged(n),
           UNCHANGED <<input, listed, master>>, NEW i \in 1..Len(Steps), Skip(Steps[i]),
           NEW m, m = Applied(next + 1)
    PROVE  Judged(m)'
<1>1. Steps[next] = Steps[i] /\ ~On(Steps[next]) /\ UNCHANGED reason
  BY RunPlace DEF Skip
<1>2. next # 3
  BY <1>1, StepsFacts DEF On
<1>3. CASE next = 11
  <2>1. \A r \in Rows : ~Hit(10, r) /\ ~Hit(11, r)
    BY <1>1, <1>3, RuleHits, StepPlaces DEF On
  <2>2. Judged(9) /\ m = 11 /\ 9 + 1 = 10 /\ 9 + 2 = 11
    BY <1>3 DEF Applied
  <2>3. Judged(9 + 2)'
    BY <1>1, <2>1, <2>2, TwoRules
  <2>. QED  BY <2>2, <2>3
<1>4. CASE next # 11
  <2>1. n \in 0..12 /\ m = n + 1
    BY <1>2, <1>4 DEF Applied
  <2>2. \A r \in Rows : ~Hit(n + 1, r)
    <3>. SUFFICES ASSUME NEW r \in Rows PROVE ~Hit(n + 1, r)
      OBVIOUS
    <3>1. CASE next = 4
      BY <1>1, <3>1, RuleHits, StepsFacts DEF On, Applied
    <3>2. CASE next = 5
      BY <1>1, <3>2, RuleHits, StepPlaces DEF On, Applied
    <3>3. CASE next = 6
      BY <1>1, <3>3, RuleHits, StepPlaces DEF On, Applied
    <3>4. CASE next = 7
      BY <1>1, <3>4, RuleHits, StepPlaces DEF On, Applied
    <3>5. CASE next = 8
      BY <1>1, <3>5, RuleHits, StepPlaces DEF On, Applied
    <3>6. CASE next = 9
      BY <1>1, <3>6, RuleHits, StepPlaces DEF On, Applied
    <3>7. CASE next = 10
      BY <1>1, <3>7, RuleHits, StepPlaces DEF On, Applied
    <3>8. CASE next = 12
      BY <1>1, <3>8, RuleHits, StepPlaces DEF On, Applied
    <3>9. CASE next = 13
      BY <1>1, <3>9, RuleHits, StepPlaces DEF On, Applied
    <3>. QED
      BY <1>2, <1>4, <3>1, <3>2, <3>3, <3>4, <3>5, <3>6, <3>7, <3>8, <3>9
  <2>. QED  BY <1>1, <2>1, <2>2, NoRule
<1>. QED  BY <1>3, <1>4

\* A step that leaves the tags alone leaves the verdicts alone.
LEMMA QuietJudged ==
    ASSUME JudgedSoFar, edits = 0, Quiet, UNCHANGED <<input, listed, master>>
    PROVE  JudgedSoFar'
  BY HitsStand DEF JudgedSoFar, Judged, JudgedInvalid, FirstHit, Quiet

LEMMA JudgedInductive ==
    ASSUME TypeOK, AsideIsTagged, JudgedSoFar, [Next]_vars
    PROVE  JudgedSoFar'
<1>. SUFFICES ASSUME edits' = 0 PROVE JudgedSoFar'
  BY DEF JudgedSoFar
<1>1. CASE UNCHANGED vars
  <2>1. edits = 0 /\ Quiet /\ UNCHANGED <<input, listed, master>>
    BY <1>1 DEF vars, outside, Quiet
  <2>. QED  BY <2>1, QuietJudged
<1>2. ASSUME Next
      PROVE  JudgedSoFar'
  <2>1. edits = 0 /\ UNCHANGED <<input, listed, master>>
    BY <1>2, ListsStand
  <2>2. CASE Environment
    BY <2>1, <2>2, TypeOK DEF Environment, EditList, OtherJobMerges, TypeOK
  <2>3. CASE NormalizeRaises \/ Summarise \/ Stop
    BY <2>1, <2>3, QuietJudged DEF NormalizeRaises, Summarise, Stop, Quiet
  <2>4. CASE RemoveInvalidEmails
    <3>1. next = 1 /\ next' = 2
      BY <2>4, RunPlace, StepsFacts DEF RemoveInvalidEmails, Run
    <3>. QED  BY <2>1, <2>4, <3>1, InvalidJudged DEF JudgedSoFar
  <2>5. CASE NormalizeEmails
    <3>1. next = 2 /\ next' = 3
      BY <2>5, RunPlace, StepsFacts DEF NormalizeEmails, Run
    <3>. QED  BY <2>1, <2>5, <3>1, InvalidJudged DEF JudgedSoFar, Applied
  <2>6. CASE SeparateTLD
    <3>1. next = 3 /\ next' = 4 /\ Judged(1)
      BY <2>1, <2>6, RunPlace, StepsFacts DEF SeparateTLD, Run, JudgedSoFar, Applied
    <3>  DEFINE other == {r \in Untagged : Address(r) \notin listed["allowed_tld"]}
    <3>2. Tag(other, RuleCode[1 + 1]) /\ other \in SUBSET Rows
      BY <2>6 DEF SeparateTLD, RuleCode, Untagged
    <3>3. Live = Untagged
      BY DEF AsideIsTagged, Live, Untagged
    <3>4. \A r \in Rows : r \in other <=> r \in Live /\ Hit(1 + 1, r)
      BY <3>3, RuleHits
    <3>  HIDE DEF other
    <3>5. Judged(1 + 1)'
      BY <2>1, <3>1, <3>2, <3>4, RuleApplied
    <3>. QED  BY <3>1, <3>5 DEF JudgedSoFar, Applied
  <2>7. CASE DeduplicateEmails
    <3>1. next = 4 /\ next' = 5 /\ Judged(2)
      BY <2>1, <2>7, RunPlace, StepsFacts DEF DeduplicateEmails, Run, JudgedSoFar, Applied
    <3>. QED  BY <2>1, <2>7, <3>1, DuplicatesJudged DEF JudgedSoFar, Applied
  <2>8. ASSUME NEW list \in Lists \ {"allowed_tld"}, FilterListed(list)
        PROVE  JudgedSoFar'
    <3>1. next \in {6, 7, 8, 9, 10, 13} /\ next' = next + 1
      BY <2>8, RunPlace, ListRules DEF FilterListed, Run
    <3>2. PICK n \in 0..12 : n = Applied(next) /\ n + 1 = Applied(next + 1)
      BY <3>1 DEF Applied
    <3>3. Judged(n)
      BY <2>1, <3>1, <3>2 DEF JudgedSoFar
    <3>4. Judged(n + 1)'
      BY <2>1, <2>8, <3>1, <3>2, <3>3, ListedJudged
    <3>5. Applied(next)' = n + 1
      BY <3>1, <3>2 DEF Applied
    <3>. QED  BY <3>1, <3>4, <3>5 DEF JudgedSoFar
  <2>9. CASE CheckDuplicateVsMaster \/ FilterNumericUsernames \/ FilterUsernameEqualsDomain
    <3>1. next \in {5, 11, 12} /\ next' = next + 1
      BY <2>9, RunPlace, ListRules
         DEF CheckDuplicateVsMaster, FilterNumericUsernames, FilterUsernameEqualsDomain, Run
    <3>2. Judged(Applied(next))
      BY <2>1, <3>1 DEF JudgedSoFar
    <3>3. /\ CheckDuplicateVsMaster => next = 5 /\ Judged(4)'
          /\ FilterNumericUsernames => next = 11 /\ Judged(11)'
          /\ FilterUsernameEqualsDomain => next = 12 /\ Judged(12)'
      BY <2>1, <3>1, <3>2, OwnRuleJudged
    <3>. QED  BY <2>9, <3>1, <3>3 DEF JudgedSoFar, Applied
  <2>10. ASSUME NEW i \in 1..Len(Steps), Skip(Steps[i])
         PROVE  JudgedSoFar'
    <3>1. next \in 1..13 /\ next' = next + 1 /\ UNCHANGED reason
      BY <2>10, RunPlace DEF Skip
    <3>2. CASE next = 1
      BY <2>1, <3>1, <3>2, HitsStand DEF JudgedSoFar, JudgedInvalid
    <3>3. next # 2
      BY <2>10, RunPlace, StepsFacts DEF Skip, On
    <3>4. CASE next \in 3..13
      <4>1. PICK n, m : n = Applied(next) /\ m = Applied(next + 1)
        OBVIOUS
      <4>2. Judged(n)
        BY <2>1, <3>4, <4>1 DEF JudgedSoFar
      <4>3. Judged(m)'
        BY <2>1, <2>10, <3>4, <4>1, <4>2, SkipJudged
      <4>4. Applied(next)' = m
        BY <3>1, <4>1 DEF Applied
      <4>. QED  BY <3>1, <3>4, <4>3, <4>4 DEF JudgedSoFar
    <3>. QED  BY <3>1, <3>2, <3>3, <3>4
  <2>. QED
    BY <1>2, <2>2, <2>3, <2>4, <2>5, <2>6, <2>7, <2>8, <2>9, <2>10 DEF Next, Step
<1>. QED  BY <1>1, <1>2

LEMMA JudgedInvariant == Spec => []JudgedSoFar
<1>1. Init => JudgedSoFar
  BY DEF Init, JudgedSoFar, JudgedInvalid
<1>2. PipelineInv /\ JudgedSoFar /\ [Next]_vars => JudgedSoFar'
  BY JudgedInductive DEF PipelineInv
<1>. QED  BY <1>1, <1>2, PipelineInvariant, PTL DEF Spec

\* With lists that stand still, thirteen procedures over the whole table give each row
\* the verdict of the first rule that applies to it, whatever the file and the filters
\* (pipeline.py:125-244, test_sample_data_pipeline_simulation.py:37-73).
THEOREM VerdictsAgree == Spec => []AgreesWithRowByRow
<1>1. PipelineInv /\ JudgedSoFar /\ SummarisedAtEnd => AgreesWithRowByRow
  <2>. SUFFICES ASSUME TypeOK, JudgedSoFar, SummarisedAtEnd, outcome = "done", edits = 0,
                       NEW r \in Rows
                PROVE  reason[r] = ClassifyRow(r)
    BY DEF AgreesWithRowByRow, PipelineInv
  <2>1. Judged(13)
    BY StepsFacts DEF JudgedSoFar, SummarisedAtEnd, Applied
  <2>2. CASE reason[r] = Null /\ \A i \in 1..13 : ~Hit(i, r)
    BY <2>2, ClassifiedByNone
  <2>3. CASE \E i \in 1..13 : reason[r] = RuleCode[i] /\ FirstHit(i, r)
    BY <2>3, ClassifiedByFirst
  <2>. QED  BY <2>1, <2>2, <2>3 DEF Judged
<1>. QED  BY <1>1, PipelineInvariant, JudgedInvariant, SummarisedInvariant, PTL
=============================================================================
