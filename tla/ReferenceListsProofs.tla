------------------------ MODULE ReferenceListsProofs ------------------------
(***************************************************************************)
(* Proofs about ReferenceLists, for every set of values, whatever the      *)
(* collation makes of them, and any number of handlers and requests.       *)
(***************************************************************************)
EXTENDS ReferenceLists, TLAPS

RequestRecord == {Idle} \cup ListRequest \cup {Answered(a) : a \in ListAnswers}

-----------------------------------------------------------------------------
(* Types.                                                                  *)

LEMMA RequestType ==
    ASSUME ListTypeOK, NEW h \in Handlers
    PROVE  request[h] \in RequestRecord
BY DEF ListTypeOK, RequestRecord

LEMMA AnsweredType ==
    ASSUME NEW a \in ListAnswers
    PROVE  /\ Answered(a) \in RequestRecord
           /\ Answered(a).op = "none" /\ Answered(a).at = "answered" /\ Answered(a).answer = a
BY DEF RequestRecord, Answered, Idle

\* A request that is on its way has all the fields.
LEMMA AtType ==
    ASSUME ListTypeOK, NEW h \in Handlers, NEW ops,
           NEW step \in {"check", "commit", "log"}, At(h, ops, step)
    PROVE  /\ request[h] \in ListRequest
           /\ request[h].op \in ops
           /\ request[h].at = step
<1>1. Idle.at \notin {"check", "commit", "log"}
  BY DEF Idle
<1>2. \A a \in ListAnswers : Answered(a).at \notin {"check", "commit", "log"}
  BY AnsweredType
<1> QED
  BY <1>1, <1>2, RequestType DEF At, RequestRecord

LEMMA KeysType ==
    ASSUME NEW S \in SUBSET Values
    PROVE  KeysOf(S) \in SUBSET Keys
BY KeyOfAssumption DEF KeysOf

LEMMA PresentType ==
    ASSUME ListTypeOK, NEW i \in Present
    PROVE  /\ i \in Ids
           /\ entries[i] \in Entry
           /\ entries[i].value \in Values
           /\ entries[i].state \in States
           /\ KeyAt(i) \in Keys
           /\ KeyAt(i) \in Listed
BY KeyOfAssumption DEF ListTypeOK, Present, Entry, KeyAt, Listed

LEMMA AskedType ==
    ASSUME NEW op \in ListOps, NEW put \in SUBSET Values, NEW id \in Ids \cup {NoEntry},
           NEW state \in States \cup {"keep"}
    PROVE  Asked(op, put, id, state) \in ListRequest
BY DEF Asked, ListRequest

-----------------------------------------------------------------------------
(* Steps that leave the table as it is: h has r for a request after them.  *)

Quiet(h, r) ==
    /\ entries' = entries
    /\ request' = [request EXCEPT ![h] = r]
    /\ made' \in 0..MaxRequests
    /\ r \in RequestRecord
    /\ Fits(r)
    /\ r.op \in {"create", "paste"} /\ r.at = "commit" => Stands(r)
    /\ request[h].at = "commit" => r.at = "answered"

LEMMA AnswerIsQuiet ==
    ASSUME ListTypeOK, NEW h \in Handlers, NEW a \in ListAnswers, Answer(h, a), UNCHANGED entries
    PROVE  Quiet(h, Answered(a))
BY AnsweredType DEF Answer, Move, Quiet, Fits, ListTypeOK

LEMMA AskIsQuiet ==
    ASSUME ListTypeOK, NEW h \in Handlers, Ask(h), UNCHANGED entries
    PROVE  \E r : Quiet(h, r)
<1>1. ASSUME NEW op \in ListOps, NEW put \in SUBSET Values, NEW id \in Ids \cup {NoEntry},
             NEW state \in States \cup {"keep"},
             Accept(h, Asked(op, put, id, state)),
             op \in {"create", "paste"} => state \in States,
             op = "create" => \E v \in Values : put = {v},
             op \in {"update", "delete"} => id \in Ids
      PROVE  \E r : Quiet(h, r)
  <2> DEFINE r == Asked(op, put, id, state)
  <2>1. r \in ListRequest
    BY AskedType
  <2>2. r.op = op /\ r.put = put /\ r.id = id /\ r.state = state /\ r.added = {} /\ r.at = "check"
    BY DEF Asked
  <2>3. Free(h) /\ made' \in 0..MaxRequests /\ request' = [request EXCEPT ![h] = r]
    BY <1>1, MaxRequestsAssumption DEF Accept, ListTypeOK
  <2> HIDE DEF r
  <2>4. Fits(r)
    BY <1>1, <2>2 DEF Fits
  <2> QED
    BY <1>1, <2>1, <2>2, <2>3, <2>4 DEF Quiet, RequestRecord, Free
<1>2. CASE AskCreate(h)
  <2>1. PICK v \in Values, s \in States : Accept(h, Asked("create", {v}, NoEntry, s))
    BY <1>2 DEF AskCreate
  <2> QED
    BY <1>1, <2>1 DEF ListOps
<1>3. CASE AskPaste(h)
  <2>1. PICK S \in Pastes : Accept(h, Asked("paste", S, NoEntry, "on"))
    BY <1>3 DEF AskPaste
  <2> QED
    BY <1>1, <2>1, PastesAssumption DEF ListOps, States
<1>4. CASE AskUpdate(h)
  <2>1. PICK i \in Ids, S \in {{}} \cup {{v} : v \in Values}, s \in States \cup {"keep"} :
            Accept(h, Asked("update", S, i, s))
    BY <1>4 DEF AskUpdate
  <2> QED
    BY <1>1, <2>1 DEF ListOps
<1>5. CASE AskDelete(h)
  <2>1. PICK i \in Ids : Accept(h, Asked("delete", {}, i, "keep"))
    BY <1>5 DEF AskDelete
  <2> QED
    BY <1>1, <2>1 DEF ListOps
<1> QED
  BY <1>2, <1>3, <1>4, <1>5 DEF Ask

LEMMA MoveIsQuiet ==
    ASSUME ListTypeOK, NEW h \in Handlers, NEW r \in ListRequest, Move(h, r), UNCHANGED entries,
           Fits(r), r.op \in {"create", "paste"} /\ r.at = "commit" => Stands(r),
           request[h].at # "commit"
    PROVE  Quiet(h, r)
BY DEF Move, Quiet, RequestRecord, ListTypeOK

LEMMA CreateFoundIsQuiet ==
    ASSUME ListTypeOK, RequestsFit, NEW h \in Handlers, CreateFound(h), UNCHANGED entries
    PROVE  \E r : Quiet(h, r)
<1>1. request[h] \in ListRequest /\ request[h].op = "create" /\ request[h].at = "check"
  BY AtType DEF CreateFound
<1>2. PICK i \in Present : Move(h, [request[h] EXCEPT !.at = "log", !.id = i])
  BY DEF CreateFound
<1> DEFINE r == [request[h] EXCEPT !.at = "log", !.id = i]
<1>3. i \in Ids
  BY PresentType
<1>4. r \in ListRequest /\ r.at = "log" /\ r.op = "create"
  BY <1>1, <1>3 DEF ListRequest
<1>5. Fits(r)
  BY <1>1 DEF Fits, RequestsFit, ListRequest
<1> HIDE DEF r
<1>6. Move(h, r)
  BY <1>2 DEF r
<1> QED
  BY <1>1, <1>4, <1>5, <1>6, MoveIsQuiet

LEMMA CreateAbsentIsQuiet ==
    ASSUME ListTypeOK, RequestsFit, NEW h \in Handlers, CreateAbsent(h), UNCHANGED entries
    PROVE  \E r : Quiet(h, r)
<1>1. request[h] \in ListRequest /\ request[h].op = "create" /\ request[h].at = "check"
  BY AtType DEF CreateAbsent
<1> DEFINE r == [request[h] EXCEPT !.at = "commit", !.adding = request[h].put]
<1>2. r \in ListRequest /\ r.at = "commit" /\ r.op = "create" /\ r.adding = r.put
      /\ r.put = request[h].put
  BY <1>1 DEF ListRequest
<1>3. Fits(r)
  BY <1>1 DEF Fits, RequestsFit, ListRequest
<1>4. Move(h, r) /\ KeysOf(r.put) \cap Listed = {}
  BY <1>2 DEF CreateAbsent
<1> HIDE DEF r
<1>5. Stands(r)
  <2>1. \A i \in Present : entries[i].value \notin r.adding
    BY <1>2, <1>4, PresentType DEF KeysOf, KeyAt
  <2> QED
    BY <1>2, <1>4, <2>1 DEF Stands
<1> QED
  BY <1>1, <1>2, <1>3, <1>4, <1>5, MoveIsQuiet

LEMMA PasteCheckIsQuiet ==
    ASSUME ListTypeOK, RequestsFit, NEW h \in Handlers, PasteCheck(h), UNCHANGED entries
    PROVE  \E r : Quiet(h, r)
<1>1. request[h] \in ListRequest /\ request[h].op = "paste" /\ request[h].at = "check"
  BY AtType DEF PasteCheck
<1>2. CASE request[h].put = {}
  <2> DEFINE r == [request[h] EXCEPT !.at = "log"]
  <2>1. r \in ListRequest /\ r.at = "log"
    BY <1>1 DEF ListRequest
  <2>2. Fits(r)
    BY <1>1 DEF Fits, RequestsFit, ListRequest
  <2>3. Move(h, r)
    BY <1>2 DEF PasteCheck
  <2> HIDE DEF r
  <2> QED
    BY <1>1, <2>1, <2>2, <2>3, MoveIsQuiet
<1>3. CASE request[h].put # {}
  <2> DEFINE put == request[h].put
             r   == [request[h] EXCEPT !.at = "commit", !.adding = ToInsert(put)]
  <2>1. r \in ListRequest /\ r.at = "commit" /\ r.op = "paste" /\ r.put = put
        /\ r.adding = ToInsert(put) /\ r.removed = request[h].removed
    BY <1>1 DEF ListRequest, ToInsert
  <2>2. Fits(r)
    BY <1>1 DEF Fits, RequestsFit, ListRequest
  <2>3. Move(h, r)
    BY <1>3 DEF PasteCheck
  <2>4. put \subseteq Values
    BY <1>1 DEF ListRequest
  <2> HIDE DEF r, put
  <2>5. Stands(r)
    <3>1. \A i \in Present : entries[i].value \notin r.adding
      BY <2>1, <2>4 DEF ToInsert, KeysOf, KeyAt
    <3>2. KeysOf(put) \subseteq KeysOf(ToInsert(put)) \cup Listed
      BY <2>4 DEF ToInsert, KeysOf, Listed, KeyAt
    <3> QED
      BY <2>1, <3>1, <3>2 DEF Stands, ToInsert
  <2> QED
    BY <1>1, <2>1, <2>2, <2>3, <2>5, MoveIsQuiet
<1> QED
  BY <1>2, <1>3

LEMMA LoadEntryIsQuiet ==
    ASSUME ListTypeOK, RequestsFit, NEW h \in Handlers, LoadEntry(h), UNCHANGED entries
    PROVE  \E r : Quiet(h, r)
<1>1. /\ request[h] \in ListRequest
      /\ request[h].op \in {"update", "delete"} /\ request[h].at = "check"
  BY AtType DEF LoadEntry
<1>2. CASE request[h].id \in Present
  <2> DEFINE r == [request[h] EXCEPT !.at = "commit", !.loaded = entries[request[h].id]]
  <2>1. entries[request[h].id] \in Entry
    BY <1>2, PresentType
  <2>2. r \in ListRequest /\ r.op \in {"update", "delete"}
    BY <1>1, <2>1 DEF ListRequest
  <2>3. Fits(r)
    BY <1>1, <2>1 DEF Fits, RequestsFit, ListRequest
  <2>4. Move(h, r)
    BY <1>2 DEF LoadEntry
  <2> HIDE DEF r
  <2> QED
    BY <1>1, <2>2, <2>3, <2>4, MoveIsQuiet
<1>3. CASE request[h].id \notin Present
  BY <1>3, AnswerIsQuiet DEF LoadEntry, ListAnswers
<1> QED
  BY <1>2, <1>3

\* All steps but the three that write.
LEMMA QuietSteps ==
    ASSUME ListTypeOK, RequestsFit, NEW h \in Handlers,
           (Ask(h) /\ UNCHANGED entries) \/ ListStep(h),
           ~CommitAdd(h), ~CommitUpdate(h), ~CommitDelete(h)
    PROVE  \E r : Quiet(h, r)
<1>1. CASE AddRefused(h) \/ UpdateRefused(h) \/ (PasteTooLarge(h) /\ UNCHANGED entries)
           \/ ((Respond(h) \/ RequestFails(h, ListOps)) /\ UNCHANGED entries)
  <2>1. UNCHANGED entries /\ \E a \in ListAnswers : Answer(h, a)
    BY <1>1 DEF AddRefused, UpdateRefused, PasteTooLarge, Respond, RequestFails, ListAnswers
  <2> QED
    BY <2>1, AnswerIsQuiet
<1> QED
  BY <1>1, AskIsQuiet, CreateFoundIsQuiet, CreateAbsentIsQuiet, PasteCheckIsQuiet, LoadEntryIsQuiet
  DEF ListStep
-----------------------------------------------------------------------------
(* The three steps that write: W are the keys that are written, G those    *)
(* that are taken out, and the others take note of them.                   *)

Writes(h, r, W, G) ==
    /\ request' = Noted(h, r, W, G)
    /\ made' = made
    /\ r \in ListRequest /\ r.at = "log" /\ Fits(r)
    /\ W \subseteq Keys /\ G \subseteq Keys
    /\ entries' \in [Ids -> Entry \cup {NoEntry, Gone}]
    /\ Listed' \subseteq Listed \cup W
    /\ Listed \subseteq Listed' \cup G
    /\ \A i \in Present' : KeyAt(i)' \in W \/ (i \in Present /\ entries'[i] = entries[i])
    /\ OneEntryPerKey'

\* Where the values of an addition are put, and what is there then.
Placed(h, place) ==
    LET r == request[h] IN
    /\ place \in [r.adding -> {i \in Ids : entries[i] = NoEntry}]
    /\ \A v, w \in r.adding : place[v] = place[w] => v = w
    /\ entries' \in [Ids -> Entry \cup {NoEntry, Gone}]
    /\ \A v \in r.adding : entries'[place[v]] = [value |-> v, state |-> r.state]
    /\ \A i \in Ids : (\A v \in r.adding : place[v] # i) => entries'[i] = entries[i]
    /\ request' = Noted(h, [r EXCEPT !.at = "log",
                                     !.id = IF r.op = "create"
                                            THEN place[CHOOSE v \in r.adding : TRUE]
                                            ELSE NoEntry],
                        KeysOf(r.adding), {})

LEMMA AddIsPlaced ==
    ASSUME ListTypeOK, RequestsFit, NEW h \in Handlers, CommitAdd(h)
    PROVE  \E place : Placed(h, place)
<1> DEFINE r == request[h]
<1>1. r \in ListRequest /\ r.op \in {"create", "paste"} /\ r.state \in States
  BY AtType DEF CommitAdd, RequestsFit, Fits
<1>2. PICK place \in [r.adding -> {i \in Ids : entries[i] = NoEntry}] :
        /\ \A v, w \in r.adding : place[v] = place[w] => v = w
        /\ entries' = [i \in Ids |->
                          IF \E v \in r.adding : place[v] = i
                          THEN [value |-> CHOOSE v \in r.adding : place[v] = i, state |-> r.state]
                          ELSE entries[i]]
        /\ request' = Noted(h, [r EXCEPT !.at = "log",
                                         !.id = IF r.op = "create"
                                                THEN place[CHOOSE v \in r.adding : TRUE]
                                                ELSE NoEntry],
                            KeysOf(r.adding), {})
  BY DEF CommitAdd
<1>3. ASSUME NEW v \in r.adding
      PROVE  entries'[place[v]] = [value |-> v, state |-> r.state]
  <2>1. (CHOOSE w \in r.adding : place[w] = place[v]) = v
    BY <1>2
  <2>2. place[v] \in Ids
    BY <1>2
  <2> QED
    BY <1>2, <2>1, <2>2
<1>4. \A i \in Ids : (\A v \in r.adding : place[v] # i) => entries'[i] = entries[i]
  BY <1>2
<1>5. entries' \in [Ids -> Entry \cup {NoEntry, Gone}]
  <2>1. ASSUME NEW i \in Ids
        PROVE  entries'[i] \in Entry \cup {NoEntry, Gone}
    <3>1. CASE \E v \in r.adding : place[v] = i
      <4>1. PICK v \in r.adding : place[v] = i
        BY <3>1
      <4>2. entries'[i] = [value |-> v, state |-> r.state] /\ v \in Values
        BY <1>1, <1>3, <4>1 DEF ListRequest
      <4> QED
        BY <1>1, <4>2 DEF Entry
    <3>2. CASE \A v \in r.adding : place[v] # i
      BY <1>4, <3>2 DEF ListTypeOK
    <3> QED
      BY <3>1, <3>2
  <2>2. entries' = [i \in Ids |-> entries'[i]]
    BY <1>2
  <2> QED
    BY <2>1, <2>2
<1>6. Placed(h, place)
  BY <1>2, <1>3, <1>4, <1>5 DEF Placed
<1> QED
  BY <1>6

\* Who is there after an addition: one of its values, or an entry of before.
LEMMA PlacedPresent ==
    ASSUME ListTypeOK, NEW h \in Handlers, NEW place, Placed(h, place),
           request[h] \in ListRequest, request[h].state \in States
    PROVE  /\ \A v \in request[h].adding :
                 place[v] \in Present' /\ KeyAt(place[v])' = KeyOf[v] /\ place[v] \notin Present
           /\ \A i \in Present : i \in Present' /\ entries'[i] = entries[i]
           /\ \A i \in Present' :
                 (\E v \in request[h].adding : i = place[v]) \/ i \in Present
<1> DEFINE r == request[h]
<1>1. ASSUME NEW v \in r.adding
      PROVE  place[v] \in Present' /\ KeyAt(place[v])' = KeyOf[v] /\ place[v] \notin Present
  <2>1. place[v] \in Ids /\ entries[place[v]] = NoEntry
        /\ entries'[place[v]] = [value |-> v, state |-> r.state]
    BY DEF Placed
  <2>2. entries'[place[v]] \in Entry
    BY <2>1 DEF Entry, ListRequest
  <2> QED
    BY <2>1, <2>2, NoEntryAssumption DEF Present, KeyAt
<1>2. ASSUME NEW i \in Present
      PROVE  i \in Present' /\ entries'[i] = entries[i]
  <2>1. i \in Ids /\ \A v \in r.adding : place[v] # i
    BY <1>1 DEF Present
  <2>2. entries'[i] = entries[i]
    BY <2>1 DEF Placed
  <2> QED
    BY <2>1, <2>2 DEF Present
<1>3. ASSUME NEW i \in Present', \A v \in r.adding : i # place[v]
      PROVE  i \in Present
  BY <1>3 DEF Placed, Present
<1> QED
  BY <1>1, <1>2, <1>3

LEMMA AddWrites ==
    ASSUME ListTypeOK, OneEntryPerKey, RequestsFit, NEW h \in Handlers, CommitAdd(h)
    PROVE  \E r : Writes(h, r, KeysOf(request[h].adding), {})
<1> DEFINE q == request[h]
           W == KeysOf(q.adding)
<1>1. q \in ListRequest /\ q.op \in {"create", "paste"} /\ q.state \in States
      /\ q.at = "commit" /\ q.adding \subseteq Values
  BY AtType DEF CommitAdd, RequestsFit, Fits, ListRequest
<1>2. PICK place : Placed(h, place)
  BY AddIsPlaced
<1> DEFINE r == [q EXCEPT !.at = "log", !.id = IF q.op = "create"
                                               THEN place[CHOOSE v \in q.adding : TRUE]
                                               ELSE NoEntry]
<1>3. r \in ListRequest /\ r.at = "log" /\ Fits(r)
  <2>1. CASE q.op = "create"
    <3>1. PICK v : q.adding = {v}
      BY <1>1, <2>1 DEF RequestsFit, Fits
    <3>2. place[CHOOSE w \in q.adding : TRUE] \in Ids
      BY <1>2, <3>1 DEF Placed
    <3> QED
      BY <1>1, <2>1, <3>2 DEF ListRequest, Fits, RequestsFit
  <2>2. CASE q.op = "paste"
    BY <1>1, <2>2 DEF ListRequest, Fits, RequestsFit
  <2> QED
    BY <1>1, <2>1, <2>2
<1>4. request' = Noted(h, r, W, {})
  BY <1>2 DEF Placed
<1> HIDE DEF r
<1>5. /\ \A v \in q.adding :
            place[v] \in Present' /\ KeyAt(place[v])' = KeyOf[v] /\ place[v] \notin Present
      /\ \A i \in Present : i \in Present' /\ entries'[i] = entries[i]
      /\ \A i \in Present' : (\E v \in q.adding : i = place[v]) \/ i \in Present
  BY <1>1, <1>2, PlacedPresent
<1>6. IndexAllows(q.adding)
  BY DEF CommitAdd
<1>7. \A i \in Present : KeyAt(i)' = KeyAt(i)
  BY <1>5 DEF KeyAt
<1>8. Listed' \subseteq Listed \cup W /\ Listed \subseteq Listed'
  <2>1. \A i \in Present' : KeyAt(i)' \in Listed \cup W
    BY <1>5, <1>7 DEF Listed, KeysOf
  <2>2. \A i \in Present : KeyAt(i) \in Listed'
    BY <1>5, <1>7 DEF Listed
  <2> QED
    BY <2>1, <2>2 DEF Listed
<1>9. \A i \in Present' : KeyAt(i)' \in W \/ (i \in Present /\ entries'[i] = entries[i])
  BY <1>5 DEF KeysOf
<1>10. OneEntryPerKey'
  <2>1. ASSUME NEW i \in Present', NEW j \in Present', KeyAt(i)' = KeyAt(j)'
        PROVE  i = j
    <3>1. CASE i \in Present /\ j \in Present
      BY <1>7, <2>1, <3>1 DEF OneEntryPerKey
    <3>2. ASSUME NEW v \in q.adding, NEW k \in Present, KeyOf[v] = KeyAt(k)
          PROVE  FALSE
      BY <1>6, <3>2 DEF IndexAllows, KeysOf, Listed
    <3>3. CASE i \in Present /\ j \notin Present
      BY <1>5, <1>7, <2>1, <3>2, <3>3
    <3>4. CASE i \notin Present /\ j \in Present
      BY <1>5, <1>7, <2>1, <3>2, <3>4
    <3>5. CASE i \notin Present /\ j \notin Present
      BY <1>5, <1>6, <2>1, <3>5 DEF IndexAllows
    <3> QED
      BY <3>1, <3>3, <3>4, <3>5
  <2> QED
    BY <2>1 DEF OneEntryPerKey
<1>11. W \subseteq Keys
  BY <1>1, KeysType
<1>12. made' = made
  BY DEF CommitAdd
<1>13. entries' \in [Ids -> Entry \cup {NoEntry, Gone}]
  BY <1>2 DEF Placed
<1>14. Writes(h, r, W, {})
  BY <1>3, <1>4, <1>8, <1>9, <1>10, <1>11, <1>12, <1>13 DEF Writes
<1> QED
  BY <1>14

LEMMA UpdatedType ==
    ASSUME ListTypeOK, NEW r \in ListRequest, r.id \in Present, r.loaded \in Entry
    PROVE  Updated(r) \in Entry
<1>1. entries[r.id].value \in Values /\ entries[r.id].state \in States
  BY PresentType
<1>2. ~(r.put \subseteq {r.loaded.value}) => (CHOOSE v \in r.put : TRUE) \in Values
  BY DEF ListRequest
<1>3. r.state \notin {"keep", r.loaded.state} => r.state \in States
  BY DEF ListRequest
<1> QED
  BY <1>1, <1>2, <1>3 DEF Updated, Entry

\* The keys an update writes and takes out.
NewKey(h) == KeyOf[Updated(request[h]).value]
OldKeys(h) == {KeyAt(request[h].id)} \ {NewKey(h)}

LEMMA UpdateWrites ==
    ASSUME ListTypeOK, OneEntryPerKey, RequestsFit, NEW h \in Handlers, CommitUpdate(h)
    PROVE  \E r : Writes(h, r, {NewKey(h)}, OldKeys(h))
<1> DEFINE q == request[h]
           e == Updated(q)
           r == [q EXCEPT !.at = "log"]
<1>1. q \in ListRequest /\ q.op = "update" /\ q.at = "commit" /\ q.loaded \in Entry
      /\ q.id \in Present
  BY AtType DEF CommitUpdate, RequestsFit, Fits
<1>n. PICK n \in Ids : n = q.id /\ n \in Present
  BY <1>1, PresentType
<1>w. PICK k : k = NewKey(h)
  OBVIOUS
<1>2. e \in Entry /\ e.value \in Values
  BY <1>1, UpdatedType DEF Entry
<1>3. r \in ListRequest /\ r.at = "log" /\ Fits(r)
  BY <1>1 DEF ListRequest, Fits, RequestsFit
<1>4. request' = Noted(h, r, {NewKey(h)}, OldKeys(h)) /\ made' = made
  BY DEF CommitUpdate, NewKey, OldKeys
<1>5. entries' = [entries EXCEPT ![n] = e]
  BY <1>n DEF CommitUpdate
<1>6. \A j \in Present \ {n} : KeyAt(j) # KeyOf[e.value]
  BY <1>n DEF CommitUpdate, UpdateAllowed
<1> HIDE DEF r, e
<1>7. entries' \in [Ids -> Entry \cup {NoEntry, Gone}]
  BY <1>2, <1>5 DEF ListTypeOK
<1>8. Present' = Present /\ n \in Present /\ entries'[n] = e
      /\ \A i \in Present \ {n} : entries'[i] = entries[i]
  BY <1>n, <1>2, <1>5 DEF ListTypeOK, Present
<1>9. KeyAt(n)' = k /\ k \in Keys
      /\ \A i \in Present \ {n} : KeyAt(i)' = KeyAt(i)
  BY <1>w, <1>2, <1>8, KeyOfAssumption DEF KeyAt, NewKey, e
<1>10. OldKeys(h) \subseteq Keys
  BY <1>1, PresentType DEF OldKeys
<1>o. PICK G : G = OldKeys(h) /\ G = {KeyAt(n)} \ {k}
  BY <1>n, <1>w DEF OldKeys
<1>11. Listed' \subseteq Listed \cup {k} /\ Listed \subseteq Listed' \cup G
  <2>1. \A i \in Present' : KeyAt(i)' \in Listed \cup {k}
    BY <1>8, <1>9 DEF Listed
  <2>2. \A i \in Present : KeyAt(i) \in Listed' \cup G
    BY <1>o, <1>8, <1>9 DEF Listed
  <2> QED
    BY <2>1, <2>2 DEF Listed
<1>12. \A i \in Present' : KeyAt(i)' \in {k} \/ (i \in Present /\ entries'[i] = entries[i])
  BY <1>8, <1>9
<1>13. OneEntryPerKey'
  BY <1>w, <1>6, <1>8, <1>9 DEF OneEntryPerKey, NewKey, e
<1>14. Writes(h, r, {k}, G)
  BY <1>w, <1>o, <1>3, <1>4, <1>7, <1>9, <1>10, <1>11, <1>12, <1>13 DEF Writes
<1> QED
  BY <1>w, <1>o, <1>14

LEMMA DeleteWrites ==
    ASSUME ListTypeOK, OneEntryPerKey, RequestsFit, NEW h \in Handlers, CommitDelete(h)
    PROVE  \E r : Writes(h, r, {}, {KeyAt(i) : i \in Present \cap {request[h].id}})
<1> DEFINE q == request[h]
           r == [q EXCEPT !.at = "log"]
           G == {KeyAt(i) : i \in Present \cap {q.id}}
<1>1. q \in ListRequest /\ q.op = "delete" /\ q.at = "commit" /\ q.id \in Ids
  BY AtType DEF CommitDelete, RequestsFit, Fits
<1>2. r \in ListRequest /\ r.at = "log" /\ Fits(r)
  BY <1>1 DEF ListRequest, Fits, RequestsFit
<1>3. request' = Noted(h, r, {}, G) /\ made' = made
  BY DEF CommitDelete
<1>4. entries' = [entries EXCEPT ![q.id] = Gone]
  BY DEF CommitDelete
<1> HIDE DEF r
<1>5. entries' \in [Ids -> Entry \cup {NoEntry, Gone}]
  BY <1>4 DEF ListTypeOK
<1>6. Present' = Present \ {q.id} /\ \A i \in Present' : entries'[i] = entries[i]
  BY <1>1, <1>4, NoEntryAssumption DEF ListTypeOK, Present
<1>7. \A i \in Present' : KeyAt(i)' = KeyAt(i)
  BY <1>6 DEF KeyAt
<1>8. Listed' \subseteq Listed /\ Listed \subseteq Listed' \cup G
  BY <1>6, <1>7 DEF Listed
<1>9. G \subseteq Keys
  BY PresentType
<1> HIDE DEF G
<1>10. OneEntryPerKey'
  BY <1>6, <1>7 DEF OneEntryPerKey
<1>11. \A i \in Present' : i \in Present /\ entries'[i] = entries[i]
  BY <1>6
<1>12. Writes(h, r, {}, G)
  BY <1>2, <1>3, <1>5, <1>8, <1>9, <1>10, <1>11 DEF Writes
<1> QED
  BY <1>12 DEF G

-----------------------------------------------------------------------------
(* What a step does: it is quiet, or it writes.                            *)

LEMMA EffectOf ==
    ASSUME ListInv, NEW h \in Handlers, (Ask(h) /\ UNCHANGED entries) \/ ListStep(h)
    PROVE  \E r : Quiet(h, r) \/ \E W, G : Writes(h, r, W, G)
<1>2. ListTypeOK /\ OneEntryPerKey /\ RequestsFit
  BY DEF ListInv
<1>3. CASE CommitAdd(h)
  BY <1>2, <1>3, AddWrites
<1>4. CASE CommitUpdate(h)
  BY <1>2, <1>4, UpdateWrites
<1>5. CASE CommitDelete(h)
  BY <1>2, <1>5, DeleteWrites
<1>6. CASE ~CommitAdd(h) /\ ~CommitUpdate(h) /\ ~CommitDelete(h)
  BY <1>2, <1>6, QuietSteps
<1> QED
  BY <1>3, <1>4, <1>5, <1>6

LEMMA StepEffect ==
    ASSUME ListInv, ListNext
    PROVE  \E h \in Handlers : \E r : Quiet(h, r) \/ \E W, G : Writes(h, r, W, G)
BY EffectOf DEF ListNext

\* What the request x of another handler becomes when h writes.
Noting(x, W, G) ==
    IF x.op \in {"create", "paste"} /\ x.at = "commit"
    THEN [x EXCEPT !.added = @ \cup (W \cap KeysOf(x.put)), !.removed = @ \cup (G \cap KeysOf(x.put))]
    ELSE x

LEMMA OthersNote ==
    ASSUME NEW h \in Handlers, NEW r, NEW W, NEW G, Writes(h, r, W, G)
    PROVE  /\ request'[h] = r
           /\ \A g \in Handlers \ {h} : request'[g] = Noting(request[g], W, G)
BY DEF Writes, Noted, Noting, At

LEMMA NotingType ==
    ASSUME NEW x \in RequestRecord, NEW W \in SUBSET Keys, NEW G \in SUBSET Keys
    PROVE  /\ Noting(x, W, G) \in RequestRecord
           /\ Noting(x, W, G).at = x.at
           /\ Noting(x, W, G).answer = x.answer
<1>1. CASE x.op \in {"create", "paste"} /\ x.at = "commit"
  <2>1. Idle.op = "none" /\ \A a \in ListAnswers : Answered(a).op = "none"
    BY AnsweredType DEF Idle
  <2>2. x \in ListRequest
    BY <1>1, <2>1 DEF RequestRecord
  <2>3. Noting(x, W, G) \in ListRequest
    BY <1>1, <2>2 DEF Noting, ListRequest
  <2>4. Noting(x, W, G).at = x.at /\ Noting(x, W, G).answer = x.answer
    BY <1>1, <2>2 DEF Noting, ListRequest
  <2> QED
    BY <2>3, <2>4 DEF RequestRecord
<1>2. CASE ~(x.op \in {"create", "paste"} /\ x.at = "commit")
  BY <1>2 DEF Noting
<1> QED
  BY <1>1, <1>2

LEMMA NotingFits ==
    ASSUME NEW x \in RequestRecord, NEW W \in SUBSET Keys, NEW G \in SUBSET Keys, Fits(x)
    PROVE  Fits(Noting(x, W, G))
<1>1. CASE x.op \in {"create", "paste"} /\ x.at = "commit"
  <2>1. Idle.op = "none" /\ \A a \in ListAnswers : Answered(a).op = "none"
    BY AnsweredType DEF Idle
  <2>2. x \in ListRequest
    BY <1>1, <2>1 DEF RequestRecord
  <2> DEFINE y == Noting(x, W, G)
  <2>3. /\ y.op = x.op /\ y.at = x.at /\ y.put = x.put /\ y.state = x.state
        /\ y.adding = x.adding /\ y.id = x.id /\ y.loaded = x.loaded
        /\ y.added = x.added \cup (W \cap KeysOf(x.put))
    BY <1>1, <2>2 DEF Noting, ListRequest
  <2> HIDE DEF y
  <2>4. Fits(y)
    BY <1>1, <2>3 DEF Fits
  <2> QED
    BY <2>4 DEF y
<1>2. CASE ~(x.op \in {"create", "paste"} /\ x.at = "commit")
  BY <1>2 DEF Noting
<1> QED
  BY <1>1, <1>2

LEMMA TypeStep == ListInv /\ [ListNext]_listVars => ListTypeOK'
<1> SUFFICES ASSUME ListInv, [ListNext]_listVars PROVE ListTypeOK'
  OBVIOUS
<1>0. ListTypeOK
  BY DEF ListInv
<1>1. CASE UNCHANGED listVars
  BY <1>0, <1>1 DEF listVars, ListTypeOK
<1>2. CASE ListNext
  <2>0. PICK h \in Handlers : \E r : Quiet(h, r) \/ \E W, G : Writes(h, r, W, G)
    BY <1>2, StepEffect
  <2>1. PICK r : Quiet(h, r) \/ \E W, G : Writes(h, r, W, G)
    BY <2>0
  <2>2. CASE Quiet(h, r)
    BY <1>0, <2>2 DEF Quiet, ListTypeOK, RequestRecord
  <2>3. CASE \E W, G : Writes(h, r, W, G)
    <3>1. PICK W, G : Writes(h, r, W, G)
      BY <2>3
    <3>2. W \in SUBSET Keys /\ G \in SUBSET Keys /\ r \in RequestRecord
      BY <3>1 DEF Writes, RequestRecord
    <3>3. \A g \in Handlers : request'[g] \in RequestRecord
      BY <1>0, <3>1, <3>2, OthersNote, NotingType, RequestType
    <3>4. request' = [g \in Handlers |-> request'[g]]
      BY <3>1 DEF Writes, Noted
    <3>5. request' \in [Handlers -> RequestRecord]
      BY <3>3, <3>4
    <3> QED
      BY <1>0, <3>1, <3>5 DEF Writes, ListTypeOK, RequestRecord
  <2> QED
    BY <2>1, <2>2, <2>3
<1> QED
  BY <1>1, <1>2

LEMMA FitsStep == ListInv /\ [ListNext]_listVars => RequestsFit'
<1> SUFFICES ASSUME ListInv, [ListNext]_listVars PROVE RequestsFit'
  OBVIOUS
<1>0. ListTypeOK /\ RequestsFit
  BY DEF ListInv
<1>1. CASE UNCHANGED listVars
  BY <1>0, <1>1 DEF listVars, RequestsFit, Fits, At
<1>2. CASE ListNext
  <2>0. PICK h \in Handlers : \E r : Quiet(h, r) \/ \E W, G : Writes(h, r, W, G)
    BY <1>2, StepEffect
  <2>1. PICK r : Quiet(h, r) \/ \E W, G : Writes(h, r, W, G)
    BY <2>0
  <2>2. ASSUME NEW g \in Handlers
        PROVE  Fits(request'[g])
    <3>1. CASE Quiet(h, r)
      BY <1>0, <3>1 DEF Quiet, RequestsFit, ListTypeOK
    <3>2. CASE \E W, G : Writes(h, r, W, G)
      <4>1. PICK W, G : Writes(h, r, W, G)
        BY <3>2
      <4>2. W \in SUBSET Keys /\ G \in SUBSET Keys /\ Fits(r)
        BY <4>1 DEF Writes
      <4>3. CASE g = h
        BY <4>1, <4>2, <4>3, OthersNote
      <4>4. CASE g # h
        BY <1>0, <4>1, <4>2, <4>4, OthersNote, NotingFits, RequestType DEF RequestsFit
      <4> QED
        BY <4>3, <4>4
    <3> QED
      BY <2>1, <3>1, <3>2
  <2> QED
    BY <2>2 DEF RequestsFit, Fits
<1> QED
  BY <1>1, <1>2

LEMMA KeyStep == ListInv /\ [ListNext]_listVars => OneEntryPerKey'
<1> SUFFICES ASSUME ListInv, [ListNext]_listVars PROVE OneEntryPerKey'
  OBVIOUS
<1>0. OneEntryPerKey
  BY DEF ListInv
<1>1. ASSUME entries' = entries
      PROVE  OneEntryPerKey'
  BY <1>0, <1>1 DEF OneEntryPerKey, Present, KeyAt
<1>2. CASE ListNext
  BY <1>1, <1>2, StepEffect DEF Quiet, Writes
<1> QED
  BY <1>1, <1>2 DEF listVars

\* What x has found at its check stands through what another request writes.
LEMMA StandsNoted ==
    ASSUME NEW x \in ListRequest, x.op \in {"create", "paste"}, x.at = "commit", Stands(x),
           NEW h, NEW r, NEW W, NEW G, Writes(h, r, W, G)
    PROVE  Stands(Noting(x, W, G))'
<1> DEFINE own == KeysOf(x.put)
           y == Noting(x, W, G)
<1>1. /\ y.op = x.op /\ y.put = x.put /\ y.adding = x.adding
      /\ y.added = x.added \cup (W \cap own) /\ y.removed = x.removed \cup (G \cap own)
  BY DEF Noting, ListRequest
<1>2. x.adding \subseteq x.put /\ KeysOf(x.adding) \subseteq own
  BY DEF Stands, KeysOf
<1> HIDE DEF own, y
<1>3. own \subseteq KeysOf(x.adding) \cup Listed' \cup (x.removed \cup (G \cap own))
  BY DEF Stands, Writes, own
<1>4. ASSUME NEW i \in Present', entries'[i].value \in x.adding
      PROVE  KeyAt(i)' \in x.added \cup (W \cap own)
  <2>1. KeyAt(i)' \in own
    BY <1>2, <1>4 DEF KeyAt, KeysOf
  <2>2. CASE KeyAt(i)' \in W
    BY <2>1, <2>2
  <2>3. CASE i \in Present /\ entries'[i] = entries[i]
    BY <1>4, <2>3 DEF Stands, KeyAt
  <2> QED
    BY <2>2, <2>3 DEF Writes
<1>5. x.op = "create" => KeysOf(x.adding) \cap Listed' \subseteq x.added \cup (W \cap own)
  BY <1>2 DEF Stands, Writes
<1>6. Stands(y)'
  BY <1>1, <1>2, <1>3, <1>4, <1>5 DEF Stands, own
<1> QED
  BY <1>6 DEF y

LEMMA StandStep == ListInv /\ [ListNext]_listVars => ChecksStand'
<1> SUFFICES ASSUME ListInv, [ListNext]_listVars,
                    NEW g \in Handlers, At(g, {"create", "paste"}, "commit")'
             PROVE  Stands(request[g])'
  BY DEF ChecksStand
<1>0. ListTypeOK /\ ChecksStand
  BY DEF ListInv
<1>y. PICK y : y = request'[g] /\ y.op \in {"create", "paste"} /\ y.at = "commit"
  BY DEF At
<1>1. ASSUME entries' = entries, Stands(y)
      PROVE  Stands(y)'
  BY <1>1 DEF Stands, Listed, Present, KeyAt
<1>2. ASSUME request'[g] = request[g]
      PROVE  Stands(y)
  BY <1>0, <1>y, <1>2 DEF ChecksStand, At, Stands
<1>3. ASSUME UNCHANGED listVars
      PROVE  Stands(y)'
  BY <1>1, <1>2, <1>3 DEF listVars
<1>4. ASSUME ListNext
      PROVE  Stands(y)'
  <2>0. PICK h \in Handlers : \E r : Quiet(h, r) \/ \E W, G : Writes(h, r, W, G)
    BY <1>4, StepEffect
  <2>1. PICK r : Quiet(h, r) \/ \E W, G : Writes(h, r, W, G)
    BY <2>0
  <2>2. CASE Quiet(h, r)
    <3>1. request'[h] = r /\ (g # h => request'[g] = request[g])
      BY <1>0, <2>2 DEF Quiet, ListTypeOK
    <3>2. Stands(y)
      <4>1. CASE g = h
        BY <1>y, <2>2, <3>1, <4>1 DEF Quiet, Stands
      <4>2. CASE g # h
        BY <1>2, <3>1, <4>2
      <4> QED
        BY <4>1, <4>2
    <3> QED
      BY <1>1, <2>2, <3>2 DEF Quiet
  <2>3. CASE \E W, G : Writes(h, r, W, G)
    <3>1. PICK W, G : Writes(h, r, W, G)
      BY <2>3
    <3>2. g # h
      BY <1>y, <3>1, OthersNote DEF Writes
    <3>3. PICK x : x = request[g]
      OBVIOUS
    <3>4. y = Noting(x, W, G) /\ x \in RequestRecord
      BY <1>0, <1>y, <3>1, <3>2, <3>3, OthersNote, RequestType
    <3>5. x.op \in {"create", "paste"} /\ x.at = "commit"
      <4>1. CASE ~(x.op \in {"create", "paste"} /\ x.at = "commit")
        BY <1>y, <3>4, <4>1 DEF Noting
      <4> QED
        BY <4>1
    <3>6. x \in ListRequest
      BY <1>0, <3>3, <3>5, AtType DEF At
    <3>7. Stands(x)
      BY <1>0, <3>3, <3>5 DEF ChecksStand, At, Stands
    <3>8. Stands(Noting(x, W, G))'
      BY <3>1, <3>5, <3>6, <3>7, StandsNoted
    <3> QED
      BY <3>4, <3>8
  <2> QED
    BY <2>1, <2>2, <2>3
<1>5. Stands(y)'
  BY <1>3, <1>4 DEF listVars
<1> QED
  BY <1>y, <1>5 DEF Stands

-----------------------------------------------------------------------------
(* The list keeps its types and one entry for each key, and what a request *)
(* has found at its check stands: whatever the collation and the order of  *)
(* the requests.                                                           *)
THEOREM ListInvariant == ListSpec => []ListInv
<1>1. ListInit => ListInv
  <2> SUFFICES ASSUME ListInit PROVE ListInv
    OBVIOUS
  <2>1. entries \in [Ids -> Entry \cup {NoEntry, Gone}] /\ request = [h \in Handlers |-> Idle] /\ made = 0
    BY DEF ListInit, RequestsInit
  <2>2. ListTypeOK
    BY <2>1, MaxRequestsAssumption DEF ListTypeOK
  <2>3. OneEntryPerKey
    BY <2>2, PresentType DEF ListInit, OneEntryPerKey, HasKey
  <2>4. RequestsFit /\ ChecksStand
    BY <2>1 DEF RequestsFit, Fits, ChecksStand, At, Idle
  <2> QED
    BY <2>2, <2>3, <2>4 DEF ListInv
<1>2. ListInv /\ [ListNext]_listVars => ListInv'
  BY TypeStep, FitsStep, KeyStep, StandStep DEF ListInv
<1> QED
  BY <1>1, <1>2, PTL DEF ListSpec

-----------------------------------------------------------------------------
(* The action properties.                                                  *)

\* A request that is about to commit is only taken on by its own handler.
LEMMA OwnCommit ==
    ASSUME ListInv, ListNext, NEW h \in Handlers,
           request[h].at = "commit", request'[h].at # "commit"
    PROVE  ListStep(h)
<1>0. ListTypeOK
  BY DEF ListInv
<1>1. PICK g \in Handlers : (Ask(g) /\ UNCHANGED entries) \/ ListStep(g)
  BY DEF ListNext
<1>2. CASE g # h
  <2>1. PICK r : Quiet(g, r) \/ \E W, G : Writes(g, r, W, G)
    BY <1>1, EffectOf
  <2>2. CASE Quiet(g, r)
    BY <1>0, <1>2, <2>2 DEF Quiet, ListTypeOK
  <2>3. CASE \E W, G : Writes(g, r, W, G)
    <3>1. PICK W, G : Writes(g, r, W, G)
      BY <2>3
    <3>2. W \in SUBSET Keys /\ G \in SUBSET Keys
      BY <3>1 DEF Writes
    <3>3. request'[h].at = request[h].at
      BY <1>0, <1>2, <3>1, <3>2, OthersNote, NotingType, RequestType
    <3> QED
      BY <3>3
  <2> QED
    BY <2>1, <2>2, <2>3
<1>3. CASE g = h
  <2>1. ~Ask(h)
    BY DEF Ask, AskCreate, AskPaste, AskUpdate, AskDelete, Accept, Free
  <2> QED
    BY <1>1, <1>3, <2>1
<1> QED
  BY <1>2, <1>3

\* How an addition that was about to commit goes on.
LEMMA AddOutcome ==
    ASSUME ListInv, NEW h \in Handlers, ListStep(h), At(h, {"create", "paste"}, "commit")
    PROVE  CommitAdd(h) \/ AddRefused(h) \/ RequestFails(h, ListOps)
BY DEF ListStep, CreateFound, CreateAbsent, PasteCheck, PasteTooLarge, LoadEntry, CommitUpdate,
       UpdateRefused, CommitDelete, Respond, At

LEMMA AnswerEnds ==
    ASSUME ListTypeOK, NEW h \in Handlers, NEW a \in ListAnswers, Answer(h, a)
    PROVE  request'[h].at = "answered" /\ request'[h].answer = a
BY AnsweredType DEF Answer, Move, ListTypeOK

(* The index refuses an addition only for a reason: another request has    *)
(* been faster, or a pasted value has another spelling.                    *)
THEOREM RefusalsHaveACause == ListSpec => AddRefusedWithCause
<1>1. ListInv /\ [ListNext]_listVars =>
        [\A h \in Handlers : Refuses(h, {"create", "paste"}) =>
            Overtaken(h) \/ (request[h].op = "paste" /\ Respelled(h))]_listVars
  <2> SUFFICES ASSUME ListInv, ListNext, NEW h \in Handlers, Refuses(h, {"create", "paste"})
               PROVE  Overtaken(h) \/ (request[h].op = "paste" /\ Respelled(h))
    OBVIOUS
  <2> DEFINE r == request[h]
  <2>1. ListTypeOK /\ RequestsFit /\ ChecksStand /\ ListTypeOK'
    BY TypeStep DEF ListInv
  <2>2. r \in ListRequest /\ r.op \in {"create", "paste"} /\ r.at = "commit" /\ Stands(r) /\ Fits(r)
    BY <2>1, AtType DEF Refuses, RequestsFit, ChecksStand
  <2>3. request'[h].at # "commit"
    <3>1. request'[h] \in {Idle} \cup ListRequest \cup {Answered(a) : a \in ListAnswers}
      BY <2>1 DEF ListTypeOK
    <3>2. \A a \in ListAnswers : Answered(a).at = "answered"
      BY AnsweredType
    <3> QED
      BY <3>1, <3>2 DEF Refuses, ListRequest, Idle
  <2>4. AddRefused(h)
    <3>1. CASE CommitAdd(h)
      <4>1. PICK x : Writes(h, x, KeysOf(request[h].adding), {})
        BY <2>1, <3>1, AddWrites DEF ListInv
      <4> QED
        BY <4>1, OthersNote DEF Writes, ListRequest, Refuses
    <3>2. CASE RequestFails(h, ListOps)
      BY <2>1, <3>2, AnswerEnds DEF RequestFails, Refuses, ListAnswers
    <3> QED
      BY <2>2, <2>3, <3>1, <3>2, OwnCommit, AddOutcome DEF Refuses
  <2>5. ~IndexAllows(r.adding)
    BY <2>4 DEF AddRefused
  <2>6. CASE \E v, w \in r.adding : KeyOf[v] = KeyOf[w] /\ v # w
    <3>1. PICK v \in r.adding, w \in r.adding : KeyOf[v] = KeyOf[w] /\ v # w
      BY <2>6
    <3>2. v \in r.put /\ w \in r.put
      BY <2>2 DEF Stands
    <3>3. r.op = "paste"
      BY <2>2, <3>1, <3>2 DEF Fits
    <3> QED
      BY <3>1, <3>2, <3>3 DEF Respelled
  <2>7. CASE \E k : k \in KeysOf(r.adding) \cap Listed
    <3>1. PICK v \in r.adding, i \in Present : KeyOf[v] = KeyAt(i)
      BY <2>7 DEF KeysOf, Listed
    <3>2. v \in r.put /\ KeyAt(i) \in KeysOf(r.put) /\ KeyAt(i) \in KeysOf(r.adding) \cap Listed
      BY <2>2, <3>1 DEF Stands, KeysOf, Listed
    <3>3. CASE r.op = "create"
      BY <2>2, <3>2, <3>3 DEF Stands, Overtaken
    <3>4. CASE r.op = "paste" /\ entries[i].value = v
      BY <2>2, <3>1, <3>2, <3>4 DEF Stands, Overtaken
    <3>5. CASE r.op = "paste" /\ entries[i].value # v
      <4>1. entries[i].value \in {entries[j].value : j \in Present}
        OBVIOUS
      <4> QED
        BY <3>1, <3>2, <3>5, <4>1 DEF Respelled, KeyAt
    <3> QED
      BY <2>2, <3>3, <3>4, <3>5
  <2> QED
    BY <2>5, <2>6, <2>7 DEF IndexAllows
<1> QED
  BY <1>1, ListInvariant, PTL DEF ListSpec, AddRefusedWithCause

(* A creation or a paste that is done has left nothing out of what it was  *)
(* asked for, but for what others have taken out meanwhile.                *)
THEOREM AdditionsAreComplete == ListSpec => AddLeavesNothingOut
<1>1. ListInv /\ [ListNext]_listVars =>
        [\A h \in Handlers : Commits(h, {"create", "paste"}) =>
            KeysOf(request[h].put) \subseteq Listed' \cup request[h].removed]_listVars
  <2> SUFFICES ASSUME ListInv, ListNext, NEW h \in Handlers, Commits(h, {"create", "paste"})
               PROVE  KeysOf(request[h].put) \subseteq Listed' \cup request[h].removed
    OBVIOUS
  <2>1. ListTypeOK /\ OneEntryPerKey /\ RequestsFit /\ ChecksStand
    BY DEF ListInv
  <2>2. At(h, {"create", "paste"}, "commit") /\ request'[h].at = "log"
    BY DEF Commits
  <2>3. CommitAdd(h)
    <3>1. ~AddRefused(h)
      BY <2>1, <2>2, AnswerEnds DEF AddRefused, ListAnswers
    <3>2. ~RequestFails(h, ListOps)
      BY <2>1, <2>2, AnswerEnds DEF RequestFails, ListAnswers
    <3> QED
      BY <2>2, <3>1, <3>2, OwnCommit, AddOutcome DEF At
  <2>4. PICK q : q = request[h] /\ q \in ListRequest /\ q.state \in States /\ q.at = "commit"
    BY <2>1, <2>2, AtType DEF RequestsFit, Fits
  <2>5. PICK place : Placed(h, place)
    BY <2>1, <2>3, AddIsPlaced
  <2>6. /\ \A v \in q.adding : place[v] \in Present' /\ KeyAt(place[v])' = KeyOf[v]
        /\ \A i \in Present : i \in Present' /\ entries'[i] = entries[i]
    BY <2>1, <2>4, <2>5, PlacedPresent
  <2>7. Listed \subseteq Listed' /\ KeysOf(q.adding) \subseteq Listed'
    BY <2>6 DEF Listed, KeysOf, KeyAt
  <2> QED
    BY <2>1, <2>2, <2>4, <2>7 DEF ChecksStand, Stands
<1> QED
  BY <1>1, ListInvariant, PTL DEF ListSpec, AddLeavesNothingOut

(* An update leaves alone what it was not asked to change, whatever the    *)
(* entry has become since it was loaded.                                   *)
THEOREM UpdatesKeepTheRest == ListSpec => EditsDoNotOverwrite
<1>1. ListInv /\ [ListNext]_listVars =>
        [\A h \in Handlers : Commits(h, {"update"}) =>
            LET r == request[h] IN
            /\ r.put = {} => entries'[r.id].value = entries[r.id].value
            /\ r.state = "keep" => entries'[r.id].state = entries[r.id].state
            /\ \A j \in Ids \ {r.id} : entries'[j] = entries[j]]_listVars
  <2> SUFFICES ASSUME ListInv, ListNext, NEW h \in Handlers, Commits(h, {"update"})
               PROVE  LET r == request[h] IN
                      /\ r.put = {} => entries'[r.id].value = entries[r.id].value
                      /\ r.state = "keep" => entries'[r.id].state = entries[r.id].state
                      /\ \A j \in Ids \ {r.id} : entries'[j] = entries[j]
    OBVIOUS
  <2>1. ListTypeOK
    BY DEF ListInv
  <2>2. At(h, {"update"}, "commit") /\ request'[h].at = "log"
    BY DEF Commits
  <2>3. ListStep(h)
    BY <2>2, OwnCommit DEF At
  <2>4. CommitUpdate(h) \/ UpdateRefused(h) \/ RequestFails(h, ListOps)
    BY <2>2, <2>3 DEF ListStep, CreateFound, CreateAbsent, PasteCheck, PasteTooLarge, LoadEntry,
                      CommitAdd, AddRefused, CommitDelete, Respond, At
  <2>5. ~UpdateRefused(h)
    BY <2>1, <2>2, AnswerEnds DEF UpdateRefused, ListAnswers
  <2>6. ~RequestFails(h, ListOps)
    BY <2>1, <2>2, AnswerEnds DEF RequestFails, ListAnswers
  <2>7. CommitUpdate(h)
    BY <2>4, <2>5, <2>6
  <2>8. request[h].id \in Ids /\ entries' = [entries EXCEPT ![request[h].id] = Updated(request[h])]
    BY <2>7, PresentType, <2>1 DEF CommitUpdate
  <2> QED
    BY <2>1, <2>8 DEF Updated, ListTypeOK
<1> QED
  BY <1>1, ListInvariant, PTL DEF ListSpec, EditsDoNotOverwrite

-----------------------------------------------------------------------------
(* The refinement of KeySet.                                               *)

\* A table f, and what it is as a set of keys, m.
OneEach(f) ==
    \A i, j \in {k \in Ids : f[k] \in Entry} : KeyOf[f[i].value] = KeyOf[f[j].value] => i = j

AbstractOf(f) ==
    [k \in Keys |->
        LET is == {i \in {j \in Ids : f[j] \in Entry} : KeyOf[f[i].value] = k} IN
        IF is = {} THEN "absent" ELSE f[CHOOSE i \in is : TRUE].state]

LEMMA AbstractDef == AbstractList = AbstractOf(entries) /\ AbstractList' = AbstractOf(entries')
BY DEF AbstractList, AbstractOf, HasKey, Present, KeyAt

LEMMA OneEachDef == (OneEntryPerKey <=> OneEach(entries)) /\ (OneEntryPerKey' <=> OneEach(entries'))
BY DEF OneEntryPerKey, OneEach, Present, KeyAt

LEMMA AbstractAt ==
    ASSUME NEW f \in [Ids -> Entry \cup {NoEntry, Gone}], OneEach(f), NEW i \in Ids, f[i] \in Entry
    PROVE  AbstractOf(f)[KeyOf[f[i].value]] = f[i].state
<1> DEFINE k  == KeyOf[f[i].value]
           is == {n \in {j \in Ids : f[j] \in Entry} : KeyOf[f[n].value] = k}
<1>1. is = {i}
  BY DEF OneEach
<1>2. k \in Keys
  BY KeyOfAssumption DEF Entry
<1>3. (CHOOSE n \in is : TRUE) = i
  BY <1>1
<1>4. AbstractOf(f)[k] = IF is = {} THEN "absent" ELSE f[CHOOSE n \in is : TRUE].state
  BY <1>2 DEF AbstractOf
<1> QED
  BY <1>1, <1>3, <1>4

LEMMA AbstractOff ==
    ASSUME NEW f, NEW k \in Keys, \A i \in Ids : f[i] \in Entry => KeyOf[f[i].value] # k
    PROVE  AbstractOf(f)[k] = "absent"
BY DEF AbstractOf

LEMMA AbstractType ==
    ASSUME NEW f \in [Ids -> Entry \cup {NoEntry, Gone}], OneEach(f)
    PROVE  AbstractOf(f) \in [Keys -> {"absent", "on", "off"}]
<1>1. ASSUME NEW k \in Keys
      PROVE  AbstractOf(f)[k] \in {"absent", "on", "off"}
  <2>1. CASE \A i \in Ids : f[i] \in Entry => KeyOf[f[i].value] # k
    BY <2>1, AbstractOff
  <2>2. ASSUME NEW i \in Ids, f[i] \in Entry, KeyOf[f[i].value] = k
        PROVE  AbstractOf(f)[k] \in {"absent", "on", "off"}
    BY <2>2, AbstractAt DEF Entry, States
  <2> QED
    BY <2>1, <2>2
<1> QED
  BY <1>1 DEF AbstractOf

LEMMA AbstractIsMap ==
    ASSUME NEW f
    PROVE  AbstractOf(f) = [k \in Keys |-> AbstractOf(f)[k]]
BY DEF AbstractOf

LEMMA AddEnters ==
    ASSUME ListInv, ListInv', NEW h \in Handlers, CommitAdd(h)
    PROVE  \E S \in SUBSET Keys, s \in {"on", "off"} : Abstract!Enter(S, s)
<1>1. ListTypeOK /\ RequestsFit /\ OneEach(entries) /\ OneEach(entries')
      /\ entries \in [Ids -> Entry \cup {NoEntry, Gone}]
      /\ entries' \in [Ids -> Entry \cup {NoEntry, Gone}]
  BY OneEachDef DEF ListInv, ListTypeOK
<1>2. PICK q : /\ q = request[h] /\ q \in ListRequest /\ q.state \in States
               /\ q.adding \subseteq Values
  BY <1>1, AtType DEF CommitAdd, RequestsFit, Fits, ListRequest
<1>3. PICK place : Placed(h, place)
  BY <1>1, AddIsPlaced
<1> DEFINE S == KeysOf(q.adding)
           m == AbstractOf(entries)
           n == AbstractOf(entries')
<1>4. /\ \A v \in q.adding : place[v] \in Present' /\ KeyAt(place[v])' = KeyOf[v]
      /\ \A i \in Present : i \in Present' /\ entries'[i] = entries[i]
      /\ \A i \in Present' : (\E v \in q.adding : i = place[v]) \/ i \in Present
  BY <1>1, <1>2, <1>3, PlacedPresent
<1>5. \A k \in S : k \in Keys /\ m[k] = "absent"
  <2>1. ASSUME NEW k \in S
        PROVE  k \in Keys /\ \A i \in Ids : entries[i] \in Entry => KeyOf[entries[i].value] # k
    <3>1. IndexAllows(q.adding)
      BY <1>2 DEF CommitAdd
    <3>2. k \in Keys /\ k \notin Listed
      BY <1>2, <3>1, KeysType DEF IndexAllows
    <3> QED
      BY <3>2 DEF Listed, Present, KeyAt
  <2> QED
    BY <2>1, AbstractOff
<1>6. \A k \in S : n[k] = q.state
  <2>1. ASSUME NEW v \in q.adding
        PROVE  n[KeyOf[v]] = q.state
    <3>1. place[v] \in Ids /\ entries'[place[v]] = [value |-> v, state |-> q.state]
          /\ entries'[place[v]] \in Entry
      BY <1>2, <1>3, <1>4 DEF Placed, Present
    <3> QED
      BY <1>1, <3>1, AbstractAt
  <2> QED
    BY <2>1 DEF KeysOf
<1>7. ASSUME NEW k \in Keys \ S
      PROVE  n[k] = m[k]
  <2>1. CASE \E i \in Present : KeyAt(i) = k
    <3>1. PICK i \in Ids : entries[i] \in Entry /\ KeyOf[entries[i].value] = k
                          /\ entries'[i] = entries[i]
      BY <1>4, <2>1 DEF Present, KeyAt
    <3> QED
      BY <1>1, <3>1, AbstractAt
  <2>2. CASE \A i \in Present : KeyAt(i) # k
    <3>1. ASSUME NEW i \in Ids, entries'[i] \in Entry
          PROVE  KeyOf[entries'[i].value] # k
      <4>1. i \in Present'
        BY <3>1 DEF Present
      <4>2. CASE i \in Present
        BY <1>4, <2>2, <4>2 DEF KeyAt
      <4>3. ASSUME NEW v \in q.adding, i = place[v]
            PROVE  KeyOf[entries'[i].value] # k
        BY <1>4, <4>3 DEF KeyAt, KeysOf
      <4> QED
        BY <1>4, <4>1, <4>2, <4>3
    <3>2. n[k] = "absent"
      BY <3>1, AbstractOff
    <3>3. m[k] = "absent"
      BY <2>2, AbstractOff DEF Present, KeyAt
    <3> QED
      BY <3>2, <3>3
  <2> QED
    BY <2>1, <2>2
<1>8. S \in SUBSET Keys
  BY <1>5
<1>m. n = [k \in Keys |-> n[k]]
  BY AbstractIsMap
<1> HIDE DEF S, m, n
<1>9. n = [k \in Keys |-> IF k \in S THEN q.state ELSE m[k]]
  BY <1>6, <1>7, <1>8, <1>m
<1>10. Abstract!Enter(S, q.state)
  BY <1>5, <1>9, AbstractDef DEF Abstract!Enter, m, n
<1> QED
  BY <1>2, <1>8, <1>10 DEF States

LEMMA UpdateEdits ==
    ASSUME ListInv, ListInv', NEW h \in Handlers, CommitUpdate(h)
    PROVE  \E k, new \in Keys, s \in {"on", "off"} : Abstract!Edit(k, new, s)
<1>1. ListTypeOK /\ RequestsFit /\ OneEach(entries) /\ OneEach(entries')
      /\ entries \in [Ids -> Entry \cup {NoEntry, Gone}]
      /\ entries' \in [Ids -> Entry \cup {NoEntry, Gone}]
  BY OneEachDef DEF ListInv, ListTypeOK
<1>2. request[h] \in ListRequest /\ request[h].loaded \in Entry /\ request[h].id \in Present
  BY <1>1, AtType DEF CommitUpdate, RequestsFit, Fits
<1>3. PICK n \in Ids, e \in Entry :
        /\ entries[n] \in Entry
        /\ entries' = [entries EXCEPT ![n] = e]
        /\ \A j \in Present \ {n} : KeyAt(j) # KeyOf[e.value]
  <2>1. Updated(request[h]) \in Entry
    BY <1>1, <1>2, UpdatedType
  <2>2. request[h].id \in Ids /\ entries[request[h].id] \in Entry
    BY <1>1, <1>2, PresentType
  <2> QED
    BY <2>1, <2>2 DEF CommitUpdate, UpdateAllowed
<1> DEFINE old == KeyOf[entries[n].value]
           new == KeyOf[e.value]
           m == AbstractOf(entries)
           l == AbstractOf(entries')
<1>4. old \in Keys /\ new \in Keys /\ e.state \in {"on", "off"} /\ entries[n].state \in {"on", "off"}
  BY <1>3, KeyOfAssumption DEF Entry, States
<1>5. entries'[n] = e /\ \A i \in Ids \ {n} : entries'[i] = entries[i]
  BY <1>1, <1>3
<1>6. m[old] = entries[n].state
  BY <1>1, <1>3, AbstractAt
<1>7. l[new] = e.state
  BY <1>1, <1>5, AbstractAt
<1>8. new = old \/ m[new] = "absent"
  <2>1. CASE new # old
    <3>1. \A i \in Ids : entries[i] \in Entry => KeyOf[entries[i].value] # new
      BY <1>3, <2>1 DEF Present, KeyAt
    <3> QED
      BY <1>4, <3>1, AbstractOff
  <2> QED
    BY <2>1
<1>9. ASSUME NEW k \in Keys \ {new}
      PROVE  l[k] = IF k = old THEN "absent" ELSE m[k]
  <2>1. CASE k = old
    <3>1. \A i \in Ids : entries'[i] \in Entry => KeyOf[entries'[i].value] # k
      BY <1>1, <1>3, <1>5, <2>1 DEF OneEach
    <3> QED
      BY <2>1, <3>1, AbstractOff
  <2>2. CASE k # old /\ \E i \in Ids : entries[i] \in Entry /\ KeyOf[entries[i].value] = k
    <3>1. PICK i \in Ids : entries[i] \in Entry /\ KeyOf[entries[i].value] = k
      BY <2>2
    <3>2. entries'[i] = entries[i]
      BY <1>5, <2>2, <3>1
    <3> QED
      BY <1>1, <2>2, <3>1, <3>2, AbstractAt
  <2>3. CASE k # old /\ \A i \in Ids : entries[i] \in Entry => KeyOf[entries[i].value] # k
    <3>1. \A i \in Ids : entries'[i] \in Entry => KeyOf[entries'[i].value] # k
      BY <1>5, <2>3
    <3>2. m[k] = "absent" /\ l[k] = "absent"
      BY <2>3, <3>1, AbstractOff
    <3> QED
      BY <2>3, <3>2
  <2> QED
    BY <2>1, <2>2, <2>3
<1>m. l = [k \in Keys |-> l[k]] /\ m = [k \in Keys |-> m[k]]
  BY AbstractIsMap
<1>d. m = AbstractList /\ l = AbstractList'
  BY AbstractDef
<1> HIDE DEF old, new, m, l
<1>10. l = [m EXCEPT ![old] = "absent", ![new] = e.state]
  BY <1>4, <1>7, <1>9, <1>m
<1>11. Abstract!Edit(old, new, e.state)
  BY <1>4, <1>6, <1>8, <1>10, <1>d DEF Abstract!Edit
<1> QED
  BY <1>4, <1>11

LEMMA DeleteTakesOut ==
    ASSUME ListInv, ListInv', NEW h \in Handlers, CommitDelete(h)
    PROVE  (\E k \in Keys : Abstract!TakeOut(k)) \/ AbstractList' = AbstractList
<1>1. ListTypeOK /\ RequestsFit /\ OneEach(entries) /\ OneEach(entries')
      /\ entries \in [Ids -> Entry \cup {NoEntry, Gone}]
      /\ entries' \in [Ids -> Entry \cup {NoEntry, Gone}]
  BY OneEachDef DEF ListInv, ListTypeOK
<1>2. PICK n \in Ids : entries' = [entries EXCEPT ![n] = Gone]
  <2>1. request[h].op = "delete" /\ entries' = [entries EXCEPT ![request[h].id] = Gone]
    BY DEF CommitDelete, At
  <2>2. request[h].id \in Ids
    BY <1>1, <2>1 DEF RequestsFit, Fits
  <2> QED
    BY <2>1, <2>2
<1>3. entries'[n] \notin Entry /\ \A i \in Ids \ {n} : entries'[i] = entries[i]
  BY <1>1, <1>2, NoEntryAssumption
<1> DEFINE m == AbstractOf(entries)
           l == AbstractOf(entries')
<1>4. ASSUME NEW k \in Keys, entries[n] \in Entry => k # KeyOf[entries[n].value]
      PROVE  l[k] = m[k]
  <2>1. CASE \E i \in Ids : entries[i] \in Entry /\ KeyOf[entries[i].value] = k
    <3>1. PICK i \in Ids : entries[i] \in Entry /\ KeyOf[entries[i].value] = k
      BY <2>1
    <3>2. entries'[i] = entries[i]
      BY <1>3, <1>4, <3>1
    <3> QED
      BY <1>1, <3>1, <3>2, AbstractAt
  <2>2. CASE \A i \in Ids : entries[i] \in Entry => KeyOf[entries[i].value] # k
    <3>1. \A i \in Ids : entries'[i] \in Entry => KeyOf[entries'[i].value] # k
      BY <1>3, <2>2
    <3> QED
      BY <2>2, <3>1, AbstractOff
  <2> QED
    BY <2>1, <2>2
<1>m. l = [k \in Keys |-> l[k]] /\ m = [k \in Keys |-> m[k]]
  BY AbstractIsMap
<1>d. m = AbstractList /\ l = AbstractList'
  BY AbstractDef
<1>5. CASE entries[n] \notin Entry
  <2>1. \A k \in Keys : l[k] = m[k]
    BY <1>4, <1>5
  <2> HIDE DEF m, l
  <2> QED
    BY <1>m, <1>d, <2>1
<1>6. CASE entries[n] \in Entry
  <2> DEFINE old == KeyOf[entries[n].value]
  <2>1. old \in Keys /\ m[old] = entries[n].state /\ entries[n].state \in {"on", "off"}
    BY <1>1, <1>6, AbstractAt, KeyOfAssumption DEF Entry, States
  <2>2. l[old] = "absent"
    <3>1. \A i \in Ids : entries'[i] \in Entry => KeyOf[entries'[i].value] # old
      BY <1>1, <1>3, <1>6 DEF OneEach
    <3> QED
      BY <2>1, <3>1, AbstractOff
  <2>3. \A k \in Keys \ {old} : l[k] = m[k]
    BY <1>4
  <2> HIDE DEF m, l, old
  <2>4. l = [m EXCEPT ![old] = "absent"]
    BY <1>m, <2>1, <2>2, <2>3
  <2>5. Abstract!TakeOut(old)
    BY <1>d, <2>1, <2>4 DEF Abstract!TakeOut
  <2> QED
    BY <2>1, <2>5
<1> QED
  BY <1>5, <1>6

(* The list implements the set of keys: no two requests, whatever they     *)
(* have read, make of it anything that one after the other could not.      *)
THEOREM ImplementsKeySet == ListSpec => ListRefinement
<1>1. ListInv => Abstract!Init
  BY OneEachDef, AbstractDef, AbstractType DEF ListInv, ListTypeOK, Abstract!Init
<1>2. ListInv /\ ListInv' /\ [ListNext]_listVars => [Abstract!Next]_AbstractList
  <2> SUFFICES ASSUME ListInv, ListInv', [ListNext]_listVars
               PROVE  Abstract!Next \/ AbstractList' = AbstractList
    OBVIOUS
  <2>1. ASSUME entries' = entries
        PROVE  AbstractList' = AbstractList
    BY <2>1, AbstractDef
  <2>2. CASE ListNext
    <3>1. PICK h \in Handlers : (Ask(h) /\ UNCHANGED entries) \/ ListStep(h)
      BY <2>2 DEF ListNext
    <3>2. CASE CommitAdd(h)
      BY <3>2, AddEnters DEF Abstract!Next
    <3>3. CASE CommitUpdate(h)
      BY <3>3, UpdateEdits DEF Abstract!Next
    <3>4. CASE CommitDelete(h)
      BY <3>4, DeleteTakesOut DEF Abstract!Next
    <3>5. CASE ~CommitAdd(h) /\ ~CommitUpdate(h) /\ ~CommitDelete(h)
      BY <2>1, <3>1, <3>5, QuietSteps DEF ListInv, Quiet
    <3> QED
      BY <3>2, <3>3, <3>4, <3>5
  <2> QED
    BY <2>1, <2>2 DEF listVars
<1> QED
  BY <1>1, <1>2, ListInvariant, PTL DEF ListSpec, ListRefinement, Abstract!Spec

=============================================================================
