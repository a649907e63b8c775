--------------------------- MODULE ReferenceLists ---------------------------
(***************************************************************************)
(* A reference list and the requests that edit it: one of the seven that   *)
(* ReferenceService manages alike.  Every request reads first and commits  *)
(* later, in a session of its own; nothing but the unique index on Value   *)
(* lies between two of them.  The index compares values as the collation   *)
(* of the database does, the service compares them as Python strings.      *)
(***************************************************************************)
EXTENDS Requests, FiniteSets

CONSTANTS
    Ids,            \* identity numbers: as many as entries are ever made (bound)
    Values,         \* stripped values, as they are spelled
    Keys, KeyOf,    \* what the collation makes of a value: equal keys are one value
    Pastes,         \* the sets of values that are pasted
    MaxParameters,  \* how many values one statement can carry (2100 in SQL Server)
    NoEntry, Gone   \* an identity number not given yet, one whose entry is deleted

ASSUME KeyOfAssumption == KeyOf \in [Values -> Keys]
ASSUME PastesAssumption == Pastes \subseteq SUBSET Values
ASSUME MaxParametersAssumption == MaxParameters \in Nat

VARIABLE entries    \* the table: of each identity number, its entry

listVars == <<entries, request, made>>

States == {"on", "off"}
Entry  == [value : Values, state : States]

ASSUME NoEntryAssumption == NoEntry \notin Entry /\ Gone \notin Entry /\ NoEntry # Gone

Present   == {i \in Ids : entries[i] \in Entry}
KeyAt(i)  == KeyOf[entries[i].value]
Listed    == {KeyAt(i) : i \in Present}
KeysOf(S) == {KeyOf[v] : v \in S}
HasKey(k) == {i \in Present : KeyAt(i) = k}

ListOps == {"create", "paste", "update", "delete"}

(* `put` are the values asked for, `state` on, off or keep.  The check of  *)
(* the request fills in `adding` or `loaded`.  `added` and `removed` only  *)
(* record, for the properties, the keys of its values that others have     *)
(* written, or taken out, since the check.                                 *)
Asked(op, put, id, state) ==
    [op |-> op, at |-> "check", put |-> put, id |-> id, state |-> state,
     adding |-> {}, loaded |-> NoEntry, added |-> {}, removed |-> {}, answer |-> "none"]

ListRequest ==
    [op : ListOps, at : {"check", "commit", "log"}, put : SUBSET Values,
     id : Ids \cup {NoEntry}, state : States \cup {"keep"}, adding : SUBSET Values,
     loaded : Entry \cup {NoEntry}, added : SUBSET Keys, removed : SUBSET Keys, answer : {"none"}]

ListAnswers == {"ok", "missing", "conflict", "error", "outage", "too_many"}

ListTypeOK ==
    /\ entries \in [Ids -> Entry \cup {NoEntry, Gone}]
    /\ request \in [Handlers -> {Idle} \cup ListRequest \cup {Answered(a) : a \in ListAnswers}]
    /\ made \in 0..MaxRequests

\* Any list that the index allows: what the seed and earlier requests have left.
ListInit ==
    /\ entries \in [Ids -> Entry \cup {NoEntry}]
    /\ \A k \in Keys : \A i, j \in HasKey(k) : i = j
    /\ RequestsInit

-----------------------------------------------------------------------------
AskCreate(h) ==
    \E v \in Values, s \in States : Accept(h, Asked("create", {v}, NoEntry, s))

AskPaste(h) == \E S \in Pastes : Accept(h, Asked("paste", S, NoEntry, "on"))

AskUpdate(h) ==
    \E i \in Ids, S \in {{}} \cup {{v} : v \in Values}, s \in States \cup {"keep"} :
        /\ entries[i] # NoEntry
        /\ Accept(h, Asked("update", S, i, s))

AskDelete(h) ==
    \E i \in Ids :
        /\ entries[i] # NoEntry
        /\ Accept(h, Asked("delete", {}, i, "keep"))

Ask(h) == AskCreate(h) \/ AskPaste(h) \/ AskUpdate(h) \/ AskDelete(h)

-----------------------------------------------------------------------------
(* The reads.                                                              *)

\* The value is there, on or off: the entry is returned as it is.
CreateFound(h) ==
    /\ At(h, {"create"}, "check")
    /\ \E i \in Present :
        /\ KeyAt(i) \in KeysOf(request[h].put)
        /\ Move(h, [request[h] EXCEPT !.at = "log", !.id = i])

\* A mutant of CreateAbsent: entries that are off are overlooked.
CreateAbsentActive(h) ==
    /\ At(h, {"create"}, "check")
    /\ KeysOf(request[h].put) \cap {KeyAt(i) : i \in {j \in Present : entries[j].state = "on"}} = {}
    /\ Move(h, [request[h] EXCEPT !.at = "commit", !.adding = request[h].put])

CreateAbsent(h) ==
    /\ At(h, {"create"}, "check")
    /\ KeysOf(request[h].put) \cap Listed = {}
    /\ Move(h, [request[h] EXCEPT !.at = "commit", !.adding = request[h].put])

\* IN finds the entries as the index would; the difference of sets is Python's.
ToInsert(put) ==
    put \ {entries[i].value : i \in {j \in Present : KeyAt(j) \in KeysOf(put)}}

PasteCheck(h) ==
    /\ At(h, {"paste"}, "check")
    /\ Cardinality(request[h].put) <= MaxParameters
    /\ IF request[h].put = {}
       THEN Move(h, [request[h] EXCEPT !.at = "log"])
       ELSE Move(h, [request[h] EXCEPT !.at = "commit", !.adding = ToInsert(request[h].put)])

\* The values are the parameters of one IN.
PasteTooLarge(h) ==
    /\ At(h, {"paste"}, "check")
    /\ Cardinality(request[h].put) > MaxParameters
    /\ Answer(h, "too_many")

\* A mutant of LoadEntry: without the answer 404.
LoadEntryUnchecked(h) ==
    /\ At(h, {"update", "delete"}, "check")
    /\ Move(h, [request[h] EXCEPT !.at = "commit", !.loaded = entries[request[h].id]])

LoadEntry(h) ==
    /\ At(h, {"update", "delete"}, "check")
    /\ IF request[h].id \in Present
       THEN Move(h, [request[h] EXCEPT !.at = "commit", !.loaded = entries[request[h].id]])
       ELSE Answer(h, "missing")

-----------------------------------------------------------------------------
(* The commits.                                                            *)

\* The request of h goes on with r; the others that have checked take note.
Noted(h, r, written, gone) ==
    [g \in Handlers |->
        LET own == KeysOf(request[g].put) IN
        IF g = h THEN r
        ELSE IF At(g, {"create", "paste"}, "commit")
        THEN [request[g] EXCEPT !.added = @ \cup (written \cap own), !.removed = @ \cup (gone \cap own)]
        ELSE request[g]]

\* A mutant of IndexAllows: an index that is not unique.
IndexIgnoresTable(S) == \A v, w \in S : KeyOf[v] = KeyOf[w] => v = w

IndexAllows(S) ==
    /\ \A v, w \in S : KeyOf[v] = KeyOf[w] => v = w
    /\ KeysOf(S) \cap Listed = {}

\* Every value as an entry of its own, all of them in one transaction.
CommitAdd(h) ==
    LET r == request[h] IN
    /\ At(h, {"create", "paste"}, "commit")
    /\ IndexAllows(r.adding)
    /\ \E place \in [r.adding -> {i \in Ids : entries[i] = NoEntry}] :
        /\ \A v, w \in r.adding : place[v] = place[w] => v = w
        /\ entries' = [i \in Ids |->
                          IF \E v \in r.adding : place[v] = i
                          THEN [value |-> CHOOSE v \in r.adding : place[v] = i, state |-> r.state]
                          ELSE entries[i]]
        /\ request' = Noted(h, [r EXCEPT !.at = "log",
                                         !.id = IF r.op = "create"
                                                THEN place[CHOOSE v \in r.adding : TRUE]
                                                ELSE NoEntry],
                            KeysOf(r.adding), {})
    /\ UNCHANGED made

\* A mutant of AddRefused: the error is caught and the request goes on.
AddRefusedSwallowed(h) ==
    /\ At(h, {"create", "paste"}, "commit")
    /\ ~IndexAllows(request[h].adding)
    /\ Move(h, [request[h] EXCEPT !.at = "log"])
    /\ UNCHANGED entries

\* One value that is there already undoes the whole insert.
AddRefused(h) ==
    /\ At(h, {"create", "paste"}, "commit")
    /\ ~IndexAllows(request[h].adding)
    /\ Answer(h, "conflict")
    /\ UNCHANGED entries

\* A mutant of Updated: every column is written.
UpdatedWhole(r) ==
    [value |-> IF r.put = {} THEN r.loaded.value ELSE CHOOSE v \in r.put : TRUE,
     state |-> IF r.state = "keep" THEN r.loaded.state ELSE r.state]

\* What equals the loaded value is left out of the UPDATE.
Updated(r) ==
    LET now == entries[r.id] IN
    [value |-> IF r.put \subseteq {r.loaded.value} THEN now.value ELSE CHOOSE v \in r.put : TRUE,
     state |-> IF r.state \in {"keep", r.loaded.state} THEN now.state ELSE r.state]

UpdateAllowed(r) ==
    \A j \in Present \ {r.id} : KeyAt(j) # KeyOf[Updated(r).value]

CommitUpdate(h) ==
    LET r == request[h] IN
    /\ At(h, {"update"}, "commit")
    /\ r.id \in Present
    /\ UpdateAllowed(r)
    /\ entries' = [entries EXCEPT ![r.id] = Updated(r)]
    /\ request' = Noted(h, [r EXCEPT !.at = "log"], {KeyOf[Updated(r).value]},
                        {KeyAt(r.id)} \ {KeyOf[Updated(r).value]})
    /\ UNCHANGED made

UpdateRefused(h) ==
    LET r == request[h] IN
    /\ At(h, {"update"}, "commit")
    /\ IF r.id \in Present
       THEN ~UpdateAllowed(r) /\ Answer(h, "conflict")
       ELSE Answer(h, "error")
    /\ UNCHANGED entries

\* To delete an entry that is gone is no error.
CommitDelete(h) ==
    LET r == request[h] IN
    /\ At(h, {"delete"}, "commit")
    /\ entries' = [entries EXCEPT ![r.id] = Gone]
    /\ request' = Noted(h, [r EXCEPT !.at = "log"], {}, {KeyAt(i) : i \in Present \cap {r.id}})
    /\ UNCHANGED made

\* The change is logged, in another transaction, and the entry read for the answer.
Respond(h) ==
    LET r == request[h] IN
    /\ At(h, ListOps, "log")
    /\ Answer(h, IF r.op \in {"paste", "delete"} \/ r.id \in Present THEN "ok" ELSE "error")

-----------------------------------------------------------------------------
ListStep(h) ==
    \/ (CreateFound(h) \/ CreateAbsent(h) \/ PasteCheck(h)
        \/ PasteTooLarge(h) \/ LoadEntry(h)) /\ UNCHANGED entries
    \/ CommitAdd(h)
    \/ AddRefused(h)
    \/ CommitUpdate(h)
    \/ UpdateRefused(h)
    \/ CommitDelete(h)
    \/ (Respond(h) \/ RequestFails(h, ListOps)) /\ UNCHANGED entries

ListNext == \E h \in Handlers : (Ask(h) /\ UNCHANGED entries) \/ ListStep(h)

ListSpec == ListInit /\ [][ListNext]_listVars

-----------------------------------------------------------------------------
(* Properties.                                                             *)

Commits(h, ops) == At(h, ops, "commit") /\ request'[h].at = "log"
Refuses(h, ops) == At(h, ops, "commit") /\ request'[h].answer = "conflict"

\* Somebody has written one of the values since this request has checked.
Overtaken(h) == request[h].added \cap KeysOf(request[h].put) # {}

\* A pasted value has another spelling, next to it or in the list.
Respelled(h) ==
    \E v \in request[h].put : \E w \in request[h].put \cup {entries[i].value : i \in Present} :
        v # w /\ KeyOf[v] = KeyOf[w]

(* create and bulk_create look before they insert, so that the index       *)
(* refuses them only if another request has committed one of their values  *)
(* in between; a paste also if it brings another spelling of a value,      *)
(* because it takes the difference of the values as Python strings.        *)
AddRefusedWithCause ==
    [][\A h \in Handlers : Refuses(h, {"create", "paste"}) =>
            Overtaken(h) \/ (request[h].op = "paste" /\ Respelled(h))]_listVars

(* When a creation or a paste is done, all it was asked for is in the list *)
(* -- what it has inserted, and what it had found and left out -- but for  *)
(* values that others have taken out since it checked.                     *)
AddLeavesNothingOut ==
    [][\A h \in Handlers : Commits(h, {"create", "paste"}) =>
            KeysOf(request[h].put) \subseteq Listed' \cup request[h].removed]_listVars

(* An update changes what it was asked to change and keeps the rest, even  *)
(* if that has become something else since it was loaded: switching an     *)
(* entry off does not take back a correction made in the meantime.         *)
EditsDoNotOverwrite ==
    [][\A h \in Handlers : Commits(h, {"update"}) =>
            LET r == request[h] IN
            /\ r.put = {} => entries'[r.id].value = entries[r.id].value
            /\ r.state = "keep" => entries'[r.id].state = entries[r.id].state
            /\ \A j \in Ids \ {r.id} : entries'[j] = entries[j]]_listVars

(* With its rows, spellings and races, the list is the set of keys the     *)
(* pipeline takes it for: one row for each key, entered and taken out      *)
(* whole.                                                                  *)
AbstractList ==
    [k \in Keys |-> IF HasKey(k) = {} THEN "absent" ELSE entries[CHOOSE i \in HasKey(k) : TRUE].state]
Abstract == INSTANCE KeySet WITH listed <- AbstractList
ListRefinement == Abstract!Spec

-----------------------------------------------------------------------------
(* The inductive invariant behind these properties.                        *)

OneEntryPerKey == \A i, j \in Present : KeyAt(i) = KeyAt(j) => i = j

\* What a request of each kind has in its fields.
Fits(r) ==
    /\ r.op \in {"create", "paste"} => r.state \in States /\ r.added \subseteq KeysOf(r.put)
    /\ r.op = "create" => \E v \in Values : r.put = {v}
    /\ r.op = "create" /\ r.at = "commit" => r.adding = r.put
    /\ r.op \in {"update", "delete"} => r.id \in Ids
    /\ r.op = "update" /\ r.at = "commit" => r.loaded \in Entry

RequestsFit == \A h \in Handlers : Fits(request[h])

(* What the addition r has found at its check is still so, but for what    *)
(* others have written or taken out since: the values it does not insert   *)
(* are listed, and those it does insert are not.                           *)
Stands(r) ==
    /\ r.adding \subseteq r.put
    /\ KeysOf(r.put) \subseteq KeysOf(r.adding) \cup Listed \cup r.removed
    /\ \A i \in Present : entries[i].value \in r.adding => KeyAt(i) \in r.added
    /\ r.op = "create" => KeysOf(r.adding) \cap Listed \subseteq r.added

ChecksStand ==
    \A h \in Handlers : At(h, {"create", "paste"}, "commit") => Stands(request[h])

ListInv == ListTypeOK /\ OneEntryPerKey /\ RequestsFit /\ ChecksStand
=============================================================================
