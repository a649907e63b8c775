----------------------------- MODULE MasterBook -----------------------------
(***************************************************************************)
(* What FT_MasterEmails promises, with the transactions left out: a book   *)
(* of addresses that is only ever added to.  A merge of a job enters, in   *)
(* one go, all of the job's addresses that are not in the book yet, under  *)
(* the name of that job; an entry is never changed or taken out.           *)
(*                                                                         *)
(* MasterMerge implements this: see BookRefinement there.                  *)
(***************************************************************************)
CONSTANTS Addresses, Jobs, NoJob

VARIABLES
    book,       \* the job each address was entered by, NoJob if it is not there
    content     \* the addresses each job has to enter

Init ==
    /\ book = [a \in Addresses |-> NoJob]
    /\ content \in [Jobs -> SUBSET Addresses]

Enter(j) ==
    /\ book' = [a \in Addresses |-> IF book[a] = NoJob /\ a \in content[j] THEN j ELSE book[a]]
    /\ UNCHANGED content

Next == \E j \in Jobs : Enter(j)

Spec == Init /\ [][Next]_<<book, content>>
=============================================================================
