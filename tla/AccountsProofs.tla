--------------------------- MODULE AccountsProofs ---------------------------
(***************************************************************************)
(* Proofs about Accounts, for every set of names, addresses, roles and     *)
(* backends, and any number of handlers and requests.                      *)
(***************************************************************************)
EXTENDS Accounts, TLAPS

RequestRecord == {Idle} \cup AccountRequest \cup {Answered(a) : a \in AccountAnswers}

Distinct(f) ==
    \A m, n \in {k \in Names : f[k] # NoAccount} : f[m].email = f[n].email => m = n

-----------------------------------------------------------------------------
(* Types.                                                                  *)

LEMMA AnsweredType ==
    ASSUME NEW a \in AccountAnswers
    PROVE  /\ Answered(a) \in RequestRecord
           /\ Answered(a).op = "none" /\ Answered(a).at = "answered" /\ Answered(a).answer = a
BY DEF RequestRecord, Answered, Idle

LEMMA RequestType ==
    ASSUME AccountTypeOK, NEW h \in Handlers
    PROVE  request[h] \in RequestRecord
BY DEF AccountTypeOK, RequestRecord

\* A request that is on its way has all the fields.
LEMMA AtType ==
    ASSUME AccountTypeOK, NEW h \in Handlers, NEW ops,
           NEW step \in {"check", "role", "add_role", "write", "log"}, At(h, ops, step)
    PROVE  /\ request[h] \in AccountRequest
           /\ request[h].op \in ops
           /\ request[h].at = step
<1>1. Idle.at \notin {"check", "role", "add_role", "write", "log"}
  BY DEF Idle
<1>2. \A a \in AccountAnswers : Answered(a).at \notin {"check", "role", "add_role", "write", "log"}
  BY AnsweredType
<1> QED
  BY <1>1, <1>2, RequestType DEF At, RequestRecord

\* An account that is there is an account.
LEMMA UserType ==
    ASSUME AccountTypeOK, NEW n \in Users
    PROVE  /\ n \in Names /\ accounts[n] \in Account
           /\ accounts[n].email \in Emails /\ accounts[n].role \in Roles
           /\ accounts[n].active \in BOOLEAN
BY DEF AccountTypeOK, Users, Account

LEMMA DistinctDef ==
    AccountTypeOK => Distinct(accounts)
BY DEF AccountTypeOK, Distinct, Users

\* An account entered or changed, with an address no other account has.
LEMMA AccountUpdate ==
    ASSUME AccountTypeOK, NEW n \in Names, NEW a \in Account,
           \A m \in Users \ {n} : accounts[m].email # a.email,
           accounts' = [accounts EXCEPT ![n] = a]
    PROVE  /\ accounts' \in [Names -> Account \cup {NoAccount}]
           /\ Distinct(accounts')
           /\ Users' = Users \cup {n}
           /\ accounts'[n] = a
           /\ \A m \in Names \ {n} : accounts'[m] = accounts[m]
<1>1. /\ accounts' \in [Names -> Account \cup {NoAccount}]
      /\ accounts'[n] = a
      /\ \A m \in Names \ {n} : accounts'[m] = accounts[m]
  BY DEF AccountTypeOK
<1>2. Users' = Users \cup {n}
  BY <1>1, NoAccountAssumption DEF Users
<1>3. Distinct(accounts')
  BY <1>1, DistinctDef, NoAccountAssumption DEF Distinct, Users
<1> QED
  BY <1>1, <1>2, <1>3

LEMMA FitsMonotone ==
    ASSUME NEW r, NEW U, NEW V, U \subseteq V, AccountFits(r, U)
    PROVE  AccountFits(r, V)
BY DEF AccountFits

-----------------------------------------------------------------------------
(* What a step of h does: r is its request after it.                       *)

Effect(h, r) ==
    /\ request' = [request EXCEPT ![h] = r] /\ r \in RequestRecord
    /\ made' \in 0..MaxRequests
    /\ AccountFits(r, Users')
    /\ accounts' \in [Names -> Account \cup {NoAccount}] /\ Distinct(accounts')
    /\ Users \subseteq Users'
    /\ Users' # Users => Users # {}
    /\ Seeded \subseteq roles' /\ roles' \subseteq Roles

LEMMA MoveEffect ==
    ASSUME AccountTypeOK, NEW h \in Handlers, NEW r \in RequestRecord, Move(h, r),
           AccountFits(r, Users), UNCHANGED accounts, Seeded \subseteq roles', roles' \subseteq Roles
    PROVE  Effect(h, r)
<1>1. Users' = Users
  BY DEF Users
<1> QED
  BY <1>1, DistinctDef DEF Move, Effect, AccountTypeOK

LEMMA AnswerEffect ==
    ASSUME AccountTypeOK, NEW h \in Handlers, NEW a \in AccountAnswers, Answer(h, a),
           UNCHANGED <<accounts, roles>>
    PROVE  \E r : Effect(h, r)
<1>1. AccountFits(Answered(a), Users)
  BY AnsweredType DEF AccountFits, UserOps
<1> QED
  BY <1>1, AnsweredType, MoveEffect DEF Answer, AccountTypeOK

LEMMA AskEffect ==
    ASSUME AccountTypeOK, NEW h \in Handlers, AskCreate(h) \/ AskUpdate(h),
           UNCHANGED <<accounts, roles>>
    PROVE  \E r : Effect(h, r)
<1>1. ASSUME NEW op \in UserOps, NEW by \in Names, NEW n \in Names, NEW e \in Emails \cup {Keep},
             NEW ro \in Roles \cup {Keep}, NEW ac \in BOOLEAN \cup {Keep},
             op = "create" => e \in Emails /\ ro \in Roles,
             IsAdmin(by), Accept(h, Asked(op, by, n, e, ro, ac))
      PROVE  \E r : Effect(h, r)
  <2> DEFINE r == Asked(op, by, n, e, ro, ac)
  <2>1. r \in AccountRequest
    BY <1>1 DEF Asked, AccountRequest, IsAdmin
  <2>2. r.op = op /\ r.by = by /\ r.at = "check" /\ r.email = e /\ r.role = ro
        /\ r.admin = TRUE
    BY <1>1 DEF Asked, IsAdmin
  <2> HIDE DEF r
  <2>3. AccountFits(r, Users)
    BY <1>1, <2>2 DEF AccountFits, IsAdmin
  <2>4. request' = [request EXCEPT ![h] = r] /\ made' \in 0..MaxRequests
    BY <1>1, MaxRequestsAssumption DEF Accept, AccountTypeOK, r
  <2>5. Users' = Users
    BY DEF Users
  <2>6. Effect(h, r)
    BY <2>1, <2>3, <2>4, <2>5, DistinctDef DEF Effect, AccountTypeOK, RequestRecord
  <2> QED
    BY <2>6
<1>2. CASE AskCreate(h)
  <2>1. PICK by \in Names, n \in Names, e \in Emails, ro \in Roles :
            LetIn(by) /\ Accept(h, Asked("create", by, n, e, ro, TRUE))
    BY <1>2 DEF AskCreate
  <2> QED
    BY <1>1, <2>1 DEF UserOps, LetIn
<1>3. CASE AskUpdate(h)
  <2>1. PICK by \in Names, n \in Names, u \in Updates :
            LetIn(by) /\ Accept(h, Asked("update", by, n, u.email, u.role, u.active))
    BY <1>3 DEF AskUpdate
  <2>2. u.email \in Emails \cup {Keep} /\ u.role \in Roles \cup {Keep} /\ u.active \in BOOLEAN \cup {Keep}
    BY UpdatesAssumption
  <2> QED
    BY <1>1, <2>1, <2>2 DEF UserOps, LetIn
<1> QED
  BY <1>2, <1>3

LEMMA CheckNameEffect ==
    ASSUME AccountTypeOK, NEW h \in Handlers, AccountFits(request[h], Users), CheckName(h),
           UNCHANGED roles
    PROVE  \E r : Effect(h, r)
<1>1. request[h] \in AccountRequest /\ request[h].op = "create" /\ UNCHANGED accounts
  BY AtType DEF CheckName
<1>2. CASE request[h].name \in Users
  BY <1>1, <1>2, AnswerEffect DEF CheckName, AccountAnswers
<1>3. CASE request[h].name \notin Users
  <2> DEFINE r == [request[h] EXCEPT !.at = "role"]
  <2>1. r \in AccountRequest
    BY <1>1 DEF AccountRequest
  <2>2. AccountFits(r, Users)
    BY <1>1 DEF AccountFits, AccountRequest, UserOps
  <2>3. Move(h, r)
    BY <1>3 DEF CheckName
  <2> HIDE DEF r
  <2> QED
    BY <1>1, <2>1, <2>2, <2>3, MoveEffect DEF RequestRecord, AccountTypeOK
<1> QED
  BY <1>2, <1>3

LEMMA LoadUserEffect ==
    ASSUME AccountTypeOK, NEW h \in Handlers, AccountFits(request[h], Users), LoadUser(h),
           UNCHANGED roles
    PROVE  \E r : Effect(h, r)
<1>1. request[h] \in AccountRequest /\ request[h].op = "update" /\ UNCHANGED accounts
  BY AtType DEF LoadUser
<1>2. CASE request[h].name \notin Users
  BY <1>1, <1>2, AnswerEffect DEF LoadUser, AccountAnswers
<1>3. CASE request[h].name \in Users
  <2> DEFINE r == [request[h] EXCEPT !.at = IF request[h].role = Keep THEN "write" ELSE "role",
                                     !.loaded = accounts[request[h].name]]
  <2>1. accounts[request[h].name] \in Account
    BY <1>3, UserType
  <2>2. r \in AccountRequest
    BY <1>1, <2>1 DEF AccountRequest
  <2>3. AccountFits(r, Users)
    BY <1>1, <1>3, <2>1 DEF AccountFits, AccountRequest, UserOps
  <2>4. Move(h, r)
    BY <1>3 DEF LoadUser
  <2> HIDE DEF r
  <2> QED
    BY <1>1, <2>2, <2>3, <2>4, MoveEffect DEF RequestRecord, AccountTypeOK
<1> QED
  BY <1>2, <1>3

LEMMA FindRoleEffect ==
    ASSUME AccountTypeOK, NEW h \in Handlers, AccountFits(request[h], Users), FindRole(h),
           UNCHANGED roles
    PROVE  \E r : Effect(h, r)
<1> DEFINE r == [request[h] EXCEPT !.at = IF request[h].role \in roles THEN "write" ELSE "add_role"]
<1>1. request[h] \in AccountRequest /\ request[h].op \in UserOps /\ request[h].at = "role"
      /\ UNCHANGED accounts /\ Move(h, r)
  BY AtType DEF FindRole
<1>2. r \in AccountRequest
  BY <1>1 DEF AccountRequest
<1>3. AccountFits(r, Users)
  BY <1>1 DEF AccountFits, AccountRequest
<1> HIDE DEF r
<1> QED
  BY <1>1, <1>2, <1>3, MoveEffect DEF RequestRecord, AccountTypeOK

LEMMA PendingType ==
    ASSUME AccountTypeOK, NEW r \in AccountRequest, r.name \in Users, r.loaded \in Account
    PROVE  /\ Pending(r) \in Account
           /\ Pending(r).role = accounts[r.name].role
<1>1. /\ accounts[r.name] \in Account /\ accounts[r.name].email \in Emails
      /\ accounts[r.name].role \in Roles /\ accounts[r.name].active \in BOOLEAN
  BY UserType
<1>2. r.email \in Emails \cup {Keep} /\ r.active \in BOOLEAN \cup {Keep}
  BY DEF AccountRequest
<1> QED
  BY <1>1, <1>2 DEF Pending, Account

\* A change of an account that is there, by an update.
LEMMA ChangeEffect ==
    ASSUME AccountTypeOK, NEW h \in Handlers, NEW q, q = request[h], q \in AccountRequest,
           NEW a \in Account, q.name \in Users, EmailFree(q, a.email),
           accounts' = [accounts EXCEPT ![q.name] = a],
           NEW r \in AccountRequest, Move(h, r), AccountFits(r, Users),
           Seeded \subseteq roles', roles' \subseteq Roles
    PROVE  Effect(h, r)
<1>0. PICK n : n = q.name
  OBVIOUS
<1>1. \A m \in Users \ {n} : accounts[m].email # a.email
  BY <1>0 DEF EmailFree
<1>2. n \in Names /\ n \in Users /\ accounts' = [accounts EXCEPT ![n] = a]
  BY <1>0, UserType
<1>3. /\ accounts' \in [Names -> Account \cup {NoAccount}] /\ Distinct(accounts')
      /\ Users' = Users \cup {n}
  BY <1>1, <1>2, AccountUpdate
<1>4. Users' = Users
  BY <1>2, <1>3
<1> QED
  BY <1>3, <1>4 DEF Move, Effect, AccountTypeOK, RequestRecord

LEMMA AddRoleEffect ==
    ASSUME AccountTypeOK, NEW h \in Handlers, AccountFits(request[h], Users), AddRole(h)
    PROVE  \E r : Effect(h, r)
<1>1. PICK q : /\ q = request[h] /\ q \in AccountRequest /\ q.op \in UserOps
               /\ q.at = "add_role" /\ AccountFits(q, Users)
  BY AtType DEF AddRole
<1>2. q.role \in Roles /\ Seeded \subseteq roles /\ roles \subseteq Roles
  BY <1>1 DEF AccountFits, AccountTypeOK
<1>3. CASE q.role \in roles \/ (q.op = "update" /\ ~EmailFree(q, Pending(q).email))
  BY <1>1, <1>3, AnswerEffect DEF AddRole, AccountAnswers
<1>4. CASE ~(q.role \in roles \/ (q.op = "update" /\ ~EmailFree(q, Pending(q).email)))
  <2>1. roles' = roles \cup {q.role} /\ q.role \notin Seeded
    BY <1>1, <1>2, <1>4 DEF AddRole
  <2>2. CASE q.op = "create"
    <3> DEFINE r == [q EXCEPT !.at = "write"]
    <3>1. Move(h, r) /\ UNCHANGED accounts
      BY <1>1, <1>4, <2>2 DEF AddRole
    <3>2. r \in AccountRequest /\ AccountFits(r, Users)
      BY <1>1, <2>2 DEF AccountRequest, AccountFits
    <3> HIDE DEF r
    <3> QED
      BY <1>2, <2>1, <3>1, <3>2, MoveEffect DEF RequestRecord
  <2>3. CASE q.op = "update"
    <3>0. q.name \in Users /\ q.loaded \in Account
      BY <1>1, <2>3 DEF AccountFits
    <3> DEFINE r == [q EXCEPT !.at = "write", !.email = Keep, !.active = Keep]
    <3>2. /\ accounts' = [accounts EXCEPT ![q.name] = Pending(q)]
          /\ Move(h, r)
      BY <1>1, <1>4, <2>3 DEF AddRole
    <3>3. r \in AccountRequest
      BY <1>1 DEF AccountRequest
    <3>4. AccountFits(r, Users)
      BY <1>1, <2>1, <2>3, <3>0 DEF AccountRequest, AccountFits
    <3> HIDE DEF r
    <3>5. Pending(q) \in Account /\ EmailFree(q, Pending(q).email)
      BY <1>1, <1>4, <2>3, <3>0, PendingType
    <3> QED
      BY <1>1, <1>2, <2>1, <3>0, <3>2, <3>3, <3>4, <3>5, ChangeEffect
  <2> QED
    BY <1>1, <2>2, <2>3 DEF UserOps
<1> QED
  BY <1>3, <1>4

LEMMA InsertUserEffect ==
    ASSUME AccountTypeOK, NEW h \in Handlers, AccountFits(request[h], Users), InsertUser(h),
           UNCHANGED roles
    PROVE  \E r : Effect(h, r)
<1>1. PICK q : /\ q = request[h] /\ q \in AccountRequest /\ q.op = "create"
               /\ AccountFits(q, Users)
  BY AtType DEF InsertUser
<1>2. CASE q.name \in Users \/ q.email \in Taken
  BY <1>1, <1>2, AnswerEffect DEF InsertUser, AccountAnswers
<1>3. CASE ~(q.name \in Users \/ q.email \in Taken)
  <2> DEFINE r == [q EXCEPT !.at = "log"]
             a == [email |-> q.email, role |-> q.role, active |-> TRUE]
  <2>1. a \in Account /\ q.name \in Names
    BY <1>1 DEF AccountFits, UserOps, Account, AccountRequest
  <2>2. accounts' = [accounts EXCEPT ![q.name] = a] /\ Move(h, r)
    BY <1>1, <1>3 DEF InsertUser
  <2>3. \A m \in Users \ {q.name} : accounts[m].email # a.email
    BY <1>3 DEF Taken
  <2>4. r \in AccountRequest
    BY <1>1 DEF AccountRequest
  <2>5. AccountFits(r, Users)
    BY <1>1 DEF AccountRequest, AccountFits
  <2>6. Users # {}
    BY <1>1 DEF AccountFits, UserOps
  <2> HIDE DEF r, a
  <2>7. /\ accounts' \in [Names -> Account \cup {NoAccount}] /\ Distinct(accounts')
        /\ Users \subseteq Users'
    BY <2>1, <2>2, <2>3, AccountUpdate
  <2>8. AccountFits(r, Users')
    BY <2>5, <2>7, FitsMonotone
  <2>9. Effect(h, r)
    BY <2>2, <2>4, <2>6, <2>7, <2>8 DEF Effect, Move, AccountTypeOK, RequestRecord
  <2> QED
    BY <2>9
<1> QED
  BY <1>2, <1>3

LEMMA WriteUserEffect ==
    ASSUME AccountTypeOK, NEW h \in Handlers, AccountFits(request[h], Users), WriteUser(h),
           UNCHANGED roles
    PROVE  \E r : Effect(h, r)
<1>1. PICK q : /\ q = request[h] /\ q \in AccountRequest /\ q.op = "update" /\ q.at = "write"
               /\ AccountFits(q, Users)
  BY AtType DEF WriteUser
<1>2. q.name \in Users /\ q.loaded \in Account
  BY <1>1 DEF AccountFits, UserOps
<1> DEFINE after == [Pending(q) EXCEPT !.role = IF q.role \in {Keep, q.loaded.role} THEN @ ELSE q.role]
           r == [q EXCEPT !.at = "log"]
<1>3. after \in Account
  <2>1. Pending(q) \in Account
    BY <1>1, <1>2, PendingType
  <2> QED
    BY <1>1, <2>1 DEF Account, AccountRequest
<1>4. r \in AccountRequest
  BY <1>1 DEF AccountRequest
<1>5. AccountFits(r, Users)
  BY <1>1 DEF AccountRequest, AccountFits
<1>6. CASE EmailFree(q, after.email)
  <2>1. accounts' = [accounts EXCEPT ![q.name] = after] /\ Move(h, r)
    BY <1>1, <1>6 DEF WriteUser
  <2> HIDE DEF r, after
  <2> QED
    BY <1>1, <1>2, <1>3, <1>4, <1>5, <1>6, <2>1, ChangeEffect DEF AccountTypeOK
<1>7. CASE ~EmailFree(q, after.email)
  <2>1. Answer(h, "conflict") /\ UNCHANGED accounts
    BY <1>1, <1>7 DEF WriteUser
  <2> QED
    BY <2>1, AnswerEffect DEF AccountAnswers
<1> QED
  BY <1>6, <1>7

LEMMA StepEffect ==
    ASSUME AccountTypeOK, NEW h \in Handlers, AccountFits(request[h], Users), AccountStep(h)
    PROVE  \E r : Effect(h, r)
<1>1. CASE (AskCreate(h) \/ AskUpdate(h)) /\ UNCHANGED <<accounts, roles>>
  BY <1>1, AskEffect
<1>2. CASE (Log(h) \/ RequestFails(h, UserOps)) /\ UNCHANGED <<accounts, roles>>
  BY <1>2, AnswerEffect DEF Log, RequestFails, AccountAnswers
<1> QED
  BY <1>1, <1>2, CheckNameEffect, LoadUserEffect, FindRoleEffect, InsertUserEffect,
     WriteUserEffect, AddRoleEffect DEF AccountStep
-----------------------------------------------------------------------------
(* The invariant.                                                          *)

\* What a step of a backend does.
LEMMA StartEffect ==
    ASSUME AccountTypeOK, DefaultFirst, NEW b \in Backends, Count(b) \/ InsertDefault(b)
    PROVE  /\ UNCHANGED <<roles, request, made>>
           /\ starting' \in [Backends -> {"off", "none_found", "up", "died"}]
           /\ accounts' \in [Names -> Account \cup {NoAccount}] /\ Distinct(accounts')
           /\ Users \subseteq Users'
           /\ Users' # {} => DefaultName \in Users'
           /\ accounts' # accounts => Users = {}
           /\ \A c \in Backends : starting[c] = "none_found" /\ starting'[c] = "up" => Users = {}
<1>1. UNCHANGED <<roles, request, made>>
  BY DEF Count, InsertDefault
<1>2. starting' \in [Backends -> {"off", "none_found", "up", "died"}]
  BY DEF Count, InsertDefault, AccountTypeOK
<1>3. CASE UNCHANGED accounts
  <2>1. Users' = Users
    BY <1>3 DEF Users
  <2>2. \A c \in Backends : starting[c] = "none_found" /\ starting'[c] = "up" => Users = {}
    <3>1. CASE Count(b)
      BY <3>1 DEF Count, AccountTypeOK
    <3>2. CASE InsertDefault(b) /\ (DefaultName \in Users \/ DefaultEmail \in Taken)
      BY <3>2 DEF InsertDefault, AccountTypeOK
    <3>3. CASE InsertDefault(b) /\ ~(DefaultName \in Users \/ DefaultEmail \in Taken)
      BY <3>3 DEF DefaultFirst
    <3> QED
      BY <3>1, <3>2, <3>3
  <2> QED
    BY <1>1, <1>2, <1>3, <2>1, <2>2, DistinctDef DEF AccountTypeOK, DefaultFirst
<1>4. CASE ~UNCHANGED accounts
  <2>1. PICK a : a = [email |-> DefaultEmail, role |-> "SUPER_ADMIN", active |-> TRUE]
    OBVIOUS
  <2>2. DefaultName \notin Users /\ accounts' = [accounts EXCEPT ![DefaultName] = a]
    BY <1>4, <2>1 DEF Count, InsertDefault
  <2>3. a \in Account /\ DefaultName \in Names
    BY <2>1, DefaultAssumption, RolesAssumption DEF Account
  <2>4. Users = {}
    BY <2>2 DEF DefaultFirst
  <2>5. /\ accounts' \in [Names -> Account \cup {NoAccount}] /\ Distinct(accounts')
        /\ Users' = Users \cup {DefaultName}
    BY <2>2, <2>3, <2>4, AccountUpdate
  <2> QED
    BY <1>1, <1>2, <2>4, <2>5
<1> QED
  BY <1>3, <1>4

LEMMA DistinctNext ==
    ASSUME Distinct(accounts')
    PROVE  \A m, n \in Users' : accounts'[m].email = accounts'[n].email => m = n
BY DEF Distinct, Users

LEMMA AccountInvInit ==
    AccountInit => AccountInv
<1> SUFFICES ASSUME AccountInit
             PROVE  AccountInv
  OBVIOUS
<1>1. accounts \in [Names -> Account \cup {NoAccount}]
  BY RolesAssumption DEF AccountInit, Account
<1>2. AccountTypeOK
  BY <1>1, MaxRequestsAssumption, RolesAssumption DEF AccountInit, AccountTypeOK, RequestsInit
<1>3. \A h \in Handlers : AccountFits(request[h], Users)
  BY DEF AccountInit, RequestsInit, AccountFits, Idle, UserOps
<1> QED
  BY <1>2, <1>3 DEF AccountInv, DefaultFirst, AccountInit

LEMMA AccountInvNext ==
    AccountInv /\ [AccountNext]_accountVars => AccountInv'
<1> SUFFICES ASSUME AccountInv, [AccountNext]_accountVars
             PROVE  AccountInv'
  OBVIOUS
<1>0. AccountTypeOK /\ DefaultFirst /\ \A h \in Handlers : AccountFits(request[h], Users)
  BY DEF AccountInv
<1>1. CASE UNCHANGED accountVars
  BY <1>0, <1>1 DEF accountVars, AccountInv, AccountTypeOK, DefaultFirst, Users
<1>2. CASE \E b \in Backends : Count(b) \/ InsertDefault(b)
  <2>1. PICK b \in Backends : Count(b) \/ InsertDefault(b)
    BY <1>2
  <2>2. /\ UNCHANGED <<roles, request, made>>
        /\ starting' \in [Backends -> {"off", "none_found", "up", "died"}]
        /\ accounts' \in [Names -> Account \cup {NoAccount}] /\ Distinct(accounts')
        /\ Users \subseteq Users'
        /\ Users' # {} => DefaultName \in Users'
    BY <1>0, <2>1, StartEffect
  <2>3. AccountTypeOK'
    BY <1>0, <2>2, DistinctNext DEF AccountTypeOK
  <2>4. \A h \in Handlers : AccountFits(request'[h], Users')
    BY <1>0, <2>2, FitsMonotone
  <2> QED
    BY <2>2, <2>3, <2>4 DEF AccountInv, DefaultFirst
<1>3. CASE \E h \in Handlers : AccountStep(h) /\ UNCHANGED starting
  <2>1. PICK h \in Handlers : AccountStep(h) /\ UNCHANGED starting
    BY <1>3
  <2>2. PICK r : Effect(h, r)
    BY <1>0, <2>1, StepEffect
  <2>3. /\ request' = [request EXCEPT ![h] = r] /\ r \in RequestRecord
        /\ made' \in 0..MaxRequests
        /\ AccountFits(r, Users')
        /\ accounts' \in [Names -> Account \cup {NoAccount}] /\ Distinct(accounts')
        /\ Users \subseteq Users'
        /\ Users' # Users => Users # {}
        /\ Seeded \subseteq roles' /\ roles' \subseteq Roles
    BY <2>2 DEF Effect
  <2>4. request' \in [Handlers -> RequestRecord]
    BY <1>0, <2>3 DEF AccountTypeOK, RequestRecord
  <2>5. AccountTypeOK'
    BY <1>0, <2>1, <2>3, <2>4, DistinctNext DEF AccountTypeOK, RequestRecord
  <2>6. ASSUME NEW k \in Handlers
        PROVE  AccountFits(request'[k], Users')
    <3>1. CASE k = h
      BY <1>0, <2>3, <3>1 DEF AccountTypeOK
    <3>2. CASE k # h
      <4>1. request'[k] = request[k]
        BY <1>0, <2>3, <3>2 DEF AccountTypeOK
      <4>2. AccountFits(request[k], Users')
        BY <1>0, <2>3, FitsMonotone
      <4> QED
        BY <4>1, <4>2
    <3> QED
      BY <3>1, <3>2
  <2>7. Users' # {} => DefaultName \in Users'
    BY <1>0, <2>3 DEF DefaultFirst
  <2> QED
    BY <2>5, <2>6, <2>7 DEF AccountInv, DefaultFirst
<1> QED
  BY <1>1, <1>2, <1>3 DEF AccountNext

(* The accounts have distinct addresses, no accounts are there without the *)
(* one of the default name, and the maker of a request and the account it  *)
(* has loaded are there for as long as the request runs: whatever requests *)
(* and starting backends do between its steps.                             *)
THEOREM AccountInvariant == AccountSpec => []AccountInv
<1>1. AccountInit => AccountInv
  BY AccountInvInit
<1>2. AccountInv /\ [AccountNext]_accountVars => AccountInv'
  BY AccountInvNext
<1> QED
  BY <1>1, <1>2, PTL DEF AccountSpec

LEMMA DefaultStep ==
    AccountInv /\ [AccountNext]_accountVars =>
        [\A b \in Backends :
            (starting[b] = "none_found" /\ starting'[b] = "up") => Users = {}]_accountVars
<1> SUFFICES ASSUME AccountInv, AccountNext, NEW b \in Backends,
                    starting[b] = "none_found", starting'[b] = "up"
             PROVE  Users = {}
  OBVIOUS
<1>1. CASE \E c \in Backends : Count(c) \/ InsertDefault(c)
  BY <1>1, StartEffect DEF AccountInv
<1>2. CASE UNCHANGED starting
  BY <1>2
<1> QED
  BY <1>1, <1>2 DEF AccountNext

(* _ensure_default_superadmin counts the users and inserts later; even so  *)
(* it inserts only into a table without users.                             *)
THEOREM DefaultOnlyIfEmpty == AccountSpec => DefaultOnlyWhenEmpty
BY AccountInvariant, DefaultStep, PTL DEF AccountSpec, DefaultOnlyWhenEmpty

-----------------------------------------------------------------------------
(* Who leaves the accounts without an admin.                               *)

\* Only the two steps that write change an account, and only the one they name.
LEMMA WritersChange ==
    ASSUME AccountTypeOK, NEW h \in Handlers, AccountStep(h), NEW n \in Names,
           accounts'[n] # accounts[n]
    PROVE  /\ request[h].at \in {"write", "add_role"}
           /\ request[h].op \in UserOps
           /\ request[h].name = n
           /\ request'[h] # request[h]
           /\ request'[h].at = "log" \/ request[h].role \notin Seeded
<1>1. PICK q : q = request[h]
  OBVIOUS
<1>2. CASE InsertUser(h)
  <2>1. q \in AccountRequest /\ q.op = "create" /\ q.at = "write"
    BY <1>1, <1>2, AtType DEF InsertUser
  <2>2. PICK a : accounts' = [accounts EXCEPT ![q.name] = a]
    BY <1>1, <1>2 DEF InsertUser
  <2>3. Move(h, [q EXCEPT !.at = "log"])
    BY <1>1, <1>2, <2>2 DEF InsertUser
  <2>4. request'[h].at = "log"
    BY <2>1, <2>3 DEF Move, AccountTypeOK, AccountRequest
  <2> QED
    BY <1>1, <2>1, <2>2, <2>4 DEF UserOps, AccountTypeOK
<1>3. CASE WriteUser(h)
  <2>1. q \in AccountRequest /\ q.op = "update" /\ q.at = "write"
    BY <1>1, <1>3, AtType DEF WriteUser
  <2>2. PICK a : accounts' = [accounts EXCEPT ![q.name] = a]
    BY <1>1, <1>3 DEF WriteUser
  <2>3. Move(h, [q EXCEPT !.at = "log"])
    BY <1>1, <1>3, <2>2 DEF WriteUser
  <2>4. request'[h].at = "log"
    BY <2>1, <2>3 DEF Move, AccountTypeOK, AccountRequest
  <2> QED
    BY <1>1, <2>1, <2>2, <2>4 DEF UserOps, AccountTypeOK
<1>4. CASE AddRole(h)
  <2>1. q \in AccountRequest /\ q.op \in UserOps /\ q.at = "add_role"
    BY <1>1, <1>4, AtType DEF AddRole
  <2>2. PICK a : /\ accounts' = [accounts EXCEPT ![q.name] = a]
                 /\ Move(h, [q EXCEPT !.at = "write", !.email = Keep, !.active = Keep])
                 /\ q.role \notin roles
    BY <1>1, <1>4 DEF AddRole
  <2>3. request'[h].at = "write"
    BY <2>1, <2>2 DEF Move, AccountTypeOK, AccountRequest
  <2> QED
    BY <1>1, <2>1, <2>2, <2>3 DEF AccountTypeOK
<1> QED
  BY <1>2, <1>3, <1>4 DEF AccountStep, CheckName, LoadUser, FindRole

LEMMA LockOutStep ==
    AccountInv /\ [AccountNext]_accountVars =>
        [(Admins # {} /\ Admins' = {}) =>
            \E h \in Handlers :
                /\ request[h].at \in {"write", "add_role"}
                /\ request'[h] # request[h]
                /\ \/ request[h].by = request[h].name
                   \/ request[h].admin /\ request[h].by \notin Admins]_accountVars
<1> SUFFICES ASSUME AccountInv, AccountNext, Admins # {}, Admins' = {}
             PROVE  \E h \in Handlers :
                        /\ request[h].at \in {"write", "add_role"}
                        /\ request'[h] # request[h]
                        /\ \/ request[h].by = request[h].name
                           \/ request[h].admin /\ request[h].by \notin Admins
  OBVIOUS
<1>1. \A n \in Admins : n \in Users /\ n \in Names /\ accounts'[n] # accounts[n]
  BY DEF Admins, IsAdmin, Users
<1>2. CASE \E b \in Backends : Count(b) \/ InsertDefault(b)
  <2>1. accounts' # accounts
    BY <1>1
  <2>2. Users = {}
    BY <1>2, <2>1, StartEffect DEF AccountInv
  <2> QED
    BY <1>1, <2>2
<1>3. CASE \E h \in Handlers : AccountStep(h) /\ UNCHANGED starting
  <2>1. PICK h \in Handlers : AccountStep(h)
    BY <1>3
  <2>2. PICK q : q = request[h]
    OBVIOUS
  <2>3. /\ q.at \in {"write", "add_role"} /\ q.op \in UserOps /\ request'[h] # q
        /\ \A n \in Admins : n = q.name
    BY <1>1, <2>1, <2>2, WritersChange DEF AccountInv
  <2>4. q.admin
    BY <2>2, <2>3 DEF AccountInv, AccountFits
  <2> QED
    BY <2>2, <2>3, <2>4
<1> QED
  BY <1>2, <1>3 DEF AccountNext

(* The last active SUPER_ADMIN is taken away only by itself, or by a       *)
(* request that require_super_admin let in before its maker lost the role. *)
THEOREM LockOutNeedsARace == AccountSpec => LockOutTakesARace
BY AccountInvariant, LockOutStep, PTL DEF AccountSpec, LockOutTakesARace
\* A request changes by its own steps only.
LEMMA OwnStep ==
    ASSUME AccountInv, NEW h \in Handlers, AccountStep(h), NEW g \in Handlers, request'[g] # request[g]
    PROVE  g = h
<1>1. AccountTypeOK /\ AccountFits(request[h], Users)
  BY DEF AccountInv
<1>2. PICK r : request' = [request EXCEPT ![h] = r]
  BY <1>1, StepEffect DEF Effect
<1> QED
  BY <1>1, <1>2 DEF AccountTypeOK

LEMMA UpdateStep ==
    AccountInv /\ [AccountNext]_accountVars =>
        [\A h \in Handlers :
            (request[h].op = "update" /\ request'[h] # request[h] /\ accounts' # accounts)
            => request'[h].at = "log" \/ request[h].role \notin Seeded]_accountVars
<1> SUFFICES ASSUME AccountInv, AccountNext, NEW h \in Handlers,
                    request'[h] # request[h], accounts' # accounts
             PROVE  request'[h].at = "log" \/ request[h].role \notin Seeded
  OBVIOUS
<1>1. ~\E b \in Backends : Count(b) \/ InsertDefault(b)
  BY StartEffect DEF AccountInv
<1>2. PICK g \in Handlers : AccountStep(g)
  BY <1>1 DEF AccountNext
<1>3. g = h
  BY <1>2, OwnStep
<1>4. \E r : Effect(h, r)
  BY <1>2, <1>3, StepEffect DEF AccountInv
<1>5. PICK n \in Names : accounts'[n] # accounts[n]
  BY <1>4 DEF Effect, AccountInv, AccountTypeOK
<1> QED
  BY <1>2, <1>3, <1>5, WritersChange DEF AccountInv

(* An update changes the account in the step that completes it, unless it  *)
(* names a role that the seed script has not entered (get_or_create_role   *)
(* commits what its caller has pending).                                   *)
THEOREM UpdatesAreWhole == AccountSpec => UpdateIsWhole
BY AccountInvariant, UpdateStep, PTL DEF AccountSpec, UpdateIsWhole
=============================================================================
