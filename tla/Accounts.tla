------------------------------ MODULE Accounts ------------------------------
(***************************************************************************)
(* The accounts, the requests that edit them, and the backends that make   *)
(* the first account when they start.  An account is never deleted and its *)
(* user name never changes.  Users and roles are looked up before they are *)
(* inserted; between the look and the insert lies only a unique index.     *)
(***************************************************************************)
EXTENDS Requests, FiniteSets

CONSTANTS
    Names, Emails,
    Seeded,         \* role names that the seed script has entered
    Roles,          \* role names a request may give
    Updates,        \* what updates may ask for (bound)
    DefaultName,    \* DEFAULT_SUPERADMIN_USERNAME
    DefaultEmail,
    Backends,       \* processes that start; each of them once (bound)
    NoAccount, Keep

ASSUME DefaultAssumption == DefaultName \in Names /\ DefaultEmail \in Emails
ASSUME RolesAssumption == "SUPER_ADMIN" \in Seeded /\ Seeded \subseteq Roles /\ Keep \notin Roles

VARIABLES
    accounts,       \* FT_Users, by user name
    roles,          \* FT_Roles
    starting        \* of each backend, how far it has come in its start

accountVars == <<accounts, roles, starting, request, made>>

Account == [email : Emails, role : Roles, active : BOOLEAN]

ASSUME NoAccountAssumption == NoAccount \notin Account
ASSUME UpdatesAssumption ==
    Updates \subseteq [email : Emails \cup {Keep}, role : Roles \cup {Keep}, active : BOOLEAN \cup {Keep}]

Users     == {n \in Names : accounts[n] # NoAccount}
Taken     == {accounts[n].email : n \in Users}
IsAdmin(n) == n \in Users /\ accounts[n].active /\ accounts[n].role = "SUPER_ADMIN"
Admins    == {n \in Names : IsAdmin(n)}

UserOps == {"create", "update"}

\* `by` has made the request; an update may leave a field as it is.  For the
\* properties only, `admin` records what the maker was when it was let in.
Asked(op, by, name, email, role, active) ==
    [op |-> op, at |-> "check", by |-> by, name |-> name, email |-> email, role |-> role,
     active |-> active, loaded |-> NoAccount,
     admin |-> IsAdmin(by), answer |-> "none"]

AccountRequest ==
    [op : UserOps, at : {"check", "role", "add_role", "write", "log"}, by : Names, name : Names,
     email : Emails \cup {Keep}, role : Roles \cup {Keep}, active : BOOLEAN \cup {Keep},
     loaded : Account \cup {NoAccount},
     admin : BOOLEAN, answer : {"none"}]

AccountAnswers == {"ok", "taken", "missing", "conflict", "outage"}

AccountTypeOK ==
    /\ accounts \in [Names -> Account \cup {NoAccount}]
    /\ Seeded \subseteq roles /\ roles \subseteq Roles
    /\ starting \in [Backends -> {"off", "none_found", "up", "died"}]
    /\ request \in [Handlers -> {Idle} \cup AccountRequest \cup {Answered(a) : a \in AccountAnswers}]
    /\ made \in 0..MaxRequests
    /\ \A m, n \in Users : accounts[m].email = accounts[n].email => m = n

\* No account at all, or what earlier requests have left.
AccountInit ==
    /\ accounts \in [Names -> [email : Emails, role : Seeded, active : BOOLEAN] \cup {NoAccount}]
    /\ \A m, n \in Users : accounts[m].email = accounts[n].email => m = n
    /\ Users # {} => DefaultName \in Users
    /\ roles = Seeded
    /\ starting = [b \in Backends |-> "off"]
    /\ RequestsInit

-----------------------------------------------------------------------------
(* A backend starts: it counts the users, and inserts if there are none.   *)

Count(b) ==
    /\ starting[b] = "off"
    /\ starting' = [starting EXCEPT ![b] = IF Users = {} THEN "none_found" ELSE "up"]
    /\ UNCHANGED <<accounts, roles, request, made>>

\* A mutant of InsertDefault: the account is put in place whatever is there.
InsertDefaultAnyway(b) ==
    /\ starting[b] = "none_found"
    /\ accounts' = [accounts EXCEPT ![DefaultName] =
                       [email |-> DefaultEmail, role |-> "SUPER_ADMIN", active |-> TRUE]]
    /\ starting' = [starting EXCEPT ![b] = "up"]
    /\ UNCHANGED <<roles, request, made>>

\* An index refuses the row if another backend was faster; nothing catches that.
InsertDefault(b) ==
    /\ starting[b] = "none_found"
    /\ IF DefaultName \in Users \/ DefaultEmail \in Taken
       THEN /\ starting' = [starting EXCEPT ![b] = "died"]
            /\ UNCHANGED accounts
       ELSE /\ accounts' = [accounts EXCEPT ![DefaultName] =
                               [email |-> DefaultEmail, role |-> "SUPER_ADMIN", active |-> TRUE]]
            /\ starting' = [starting EXCEPT ![b] = "up"]
    /\ UNCHANGED <<roles, request, made>>

-----------------------------------------------------------------------------
(* A request.  require_super_admin looks at the account of its maker.      *)

\* A mutant of LetIn: any account that is active will do.
LetInActive(n) == n \in Users /\ accounts[n].active

LetIn(n) == IsAdmin(n)

AskCreate(h) ==
    \E by, n \in Names, e \in Emails, r \in Roles :
        LetIn(by) /\ Accept(h, Asked("create", by, n, e, r, TRUE))

AskUpdate(h) ==
    \E by, n \in Names, u \in Updates :
        LetIn(by) /\ Accept(h, Asked("update", by, n, u.email, u.role, u.active))

CheckName(h) ==
    /\ At(h, {"create"}, "check")
    /\ IF request[h].name \in Users
       THEN Answer(h, "taken")
       ELSE Move(h, [request[h] EXCEPT !.at = "role"])
    /\ UNCHANGED accounts

LoadUser(h) ==
    LET r == request[h] IN
    /\ At(h, {"update"}, "check")
    /\ IF r.name \in Users
       THEN Move(h, [r EXCEPT !.at = IF r.role = Keep THEN "write" ELSE "role",
                              !.loaded = accounts[r.name]])
       ELSE Answer(h, "missing")
    /\ UNCHANGED accounts

\* What the session has pending for the account but the role: what differs from
\* what it has loaded.
Pending(r) ==
    LET now == accounts[r.name] IN
    [now EXCEPT !.email  = IF r.email  \in {Keep, r.loaded.email}  THEN @ ELSE r.email,
                !.active = IF r.active \in {Keep, r.loaded.active} THEN @ ELSE r.active]

\* A mutant of FindRole: the look commits.
FindRoleCommits(h) ==
    LET r == request[h] IN
    /\ At(h, UserOps, "role")
    /\ accounts' = IF r.op = "update" THEN [accounts EXCEPT ![r.name] = Pending(r)] ELSE accounts
    /\ Move(h, [r EXCEPT !.at = IF r.role \in roles THEN "write" ELSE "add_role"])

FindRole(h) ==
    /\ At(h, UserOps, "role")
    /\ Move(h, [request[h] EXCEPT !.at = IF request[h].role \in roles THEN "write" ELSE "add_role"])
    /\ UNCHANGED accounts

\* A mutant of EmailFree: no unique index on Email.
EmailFreeAlways(r, email) == TRUE

EmailFree(r, email) == email \notin {accounts[n].email : n \in Users \ {r.name}}

(* get_or_create_role commits, and with the role whatever else its caller  *)
(* has pending: of an update the new address and whether it is active.     *)
AddRole(h) ==
    LET r == request[h] IN
    /\ At(h, UserOps, "add_role")
    /\ IF r.role \in roles \/ (r.op = "update" /\ ~EmailFree(r, Pending(r).email))
       THEN Answer(h, "conflict") /\ UNCHANGED <<accounts, roles>>
       ELSE /\ roles' = roles \cup {r.role}
            /\ IF r.op = "create"
               THEN /\ Move(h, [r EXCEPT !.at = "write"])
                    /\ UNCHANGED accounts
               ELSE /\ accounts' = [accounts EXCEPT ![r.name] = Pending(r)]
                    /\ Move(h, [r EXCEPT !.at = "write", !.email = Keep, !.active = Keep])

InsertUser(h) ==
    LET r == request[h] IN
    /\ At(h, {"create"}, "write")
    /\ IF r.name \in Users \/ r.email \in Taken
       THEN Answer(h, "conflict") /\ UNCHANGED accounts
       ELSE /\ accounts' = [accounts EXCEPT ![r.name] =
                               [email |-> r.email, role |-> r.role, active |-> TRUE]]
            /\ Move(h, [r EXCEPT !.at = "log"])

WriteUser(h) ==
    LET r == request[h]
        after == [Pending(r) EXCEPT !.role = IF r.role \in {Keep, r.loaded.role} THEN @ ELSE r.role]
    IN
    /\ At(h, {"update"}, "write")
    /\ IF EmailFree(r, after.email)
       THEN /\ accounts' = [accounts EXCEPT ![r.name] = after]
            /\ Move(h, [r EXCEPT !.at = "log"])
       ELSE Answer(h, "conflict") /\ UNCHANGED accounts

Log(h) == At(h, UserOps, "log") /\ Answer(h, "ok")

AccountStep(h) ==
    \/ /\ AskCreate(h) \/ AskUpdate(h) \/ Log(h) \/ RequestFails(h, UserOps)
       /\ UNCHANGED <<accounts, roles>>
    \/ /\ CheckName(h) \/ LoadUser(h) \/ FindRole(h) \/ InsertUser(h) \/ WriteUser(h)
       /\ UNCHANGED roles
    \/ AddRole(h)

AccountNext ==
    \/ \E b \in Backends : Count(b) \/ InsertDefault(b)
    \/ \E h \in Handlers : AccountStep(h) /\ UNCHANGED starting

AccountSpec == AccountInit /\ [][AccountNext]_accountVars

-----------------------------------------------------------------------------
(* Properties.                                                             *)

(* "Creates the default SUPER_ADMIN user only if no users exist yet"       *)
(* (_ensure_default_superadmin), although the count is old by the time of  *)
(* the insert: an account made in the meantime was made by somebody the    *)
(* default name had been given to.                                         *)
DefaultOnlyWhenEmpty ==
    [][\A b \in Backends :
            (starting[b] = "none_found" /\ starting'[b] = "up") => Users = {}]_accountVars

(* The accounts are left without an active SUPER_ADMIN -- and nothing would *)
(* bring one back, the backends count users and not admins -- only by an    *)
(* admin who does it to itself, or by a request whose maker has lost its    *)
(* rights since it was let in.                                              *)
LockOutTakesARace ==
    [][(Admins # {} /\ Admins' = {}) =>
            \E h \in Handlers :
                /\ request[h].at \in {"write", "add_role"}
                /\ request'[h] # request[h]
                /\ \/ request[h].by = request[h].name
                   \/ request[h].admin /\ request[h].by \notin Admins]_accountVars

(* An update changes the account in the step that completes it, so that    *)
(* one that is refused or fails has changed nothing; unless it names a     *)
(* role that is new: get_or_create_role then commits half of it.           *)
UpdateIsWhole ==
    [][\A h \in Handlers :
            (request[h].op = "update" /\ request'[h] # request[h] /\ accounts' # accounts)
            => request'[h].at = "log" \/ request[h].role \notin Seeded]_accountVars

-----------------------------------------------------------------------------
(* The inductive invariant behind these properties.                        *)

DefaultFirst == Users # {} => DefaultName \in Users

\* What a request has in its fields: its maker was let in, and is there for good,
\* as is the account it has loaded.
AccountFits(r, users) ==
    r.op \in UserOps =>
        /\ r.admin /\ r.by \in users
        /\ r.op = "create" => r.email \in Emails /\ r.role \in Roles
        /\ r.op = "update" /\ r.at # "check" => r.name \in users /\ r.loaded \in Account
        /\ r.at \in {"role", "add_role"} => r.role \in Roles

AccountInv ==
    /\ AccountTypeOK
    /\ DefaultFirst
    /\ \A h \in Handlers : AccountFits(request[h], Users)
=============================================================================
