------------------------------ MODULE Accounts ------------------------------
(***************************************************************************)
(* Users, roles and sessions: the login through Google                     *)
(* (auth/google/google.go), the management of users (admin/users.go), the  *)
(* middlewares RootAuth and RoleAuth (admin/admin.go) and the queries of   *)
(* models/user.go.                                                         *)
(*                                                                         *)
(* A request is a sequence of calls to the database, each atomic, between  *)
(* which other requests run; the pool has one connection (db/db.go:46). A  *)
(* request that the code refuses before its first call, and the reads that *)
(* only format an answer, are left out. The reading of the users'          *)
(* names and pictures is too: nothing depends on them.                     *)
(***************************************************************************)
EXTENDS Naturals, FiniteSets

CONSTANTS
    People,      \* those with a Google account; an email is its owner
    Requests,    \* goroutines that serve a request
    Nobody,
    GrantSets,   \* bound: the sets of roles asked for
    MaxUsers,    \* bound: rows ever inserted in users
    MaxFaults    \* bound: calls of the database that fail

Roles == {"dev", "admin", "acl", "manager"}

\* RoleLevelNum: the lower, the more powerful.
RoleLevelNum ==
    [r \in Roles |-> CASE r = "dev" -> 1 [] r = "admin" -> 2 [] r = "acl" -> 3
                       [] r = "manager" -> 4]

ASSUME AccountsAssumption ==
    /\ Nobody \notin People \cup Requests
    /\ GrantSets \subseteq SUBSET Roles
    /\ MaxUsers \in Nat /\ MaxFaults \in Nat

Ids == 1..MaxUsers
Root == 0   \* ROOT_TOKEN, and granted_by NULL

VARIABLES
    email,     \* users: the owner of each row, Nobody without one
    grants,    \* user_roles: [role, by] of each user
    next,      \* AUTOINCREMENT: the next id
    cookie,    \* the user in a person's session cookie, 0 without a valid one
    req,       \* each request: program point, who asks, and what for
    conn,      \* the holder of the connection between calls: a transaction
    faults

table == << email, grants, next >>
vars == << table, cookie, req, conn, faults >>

Idle == [at |-> "idle", op |-> "none", who |-> Root, mail |-> Nobody, id |-> 0,
         set |-> {}]

Points == {"idle", "count", "owner", "lookup", "cookie", "role", "mail", "validate",
           "insert", "grant", "exists", "delete", "begin", "clear"}

Grant == [role : Roles, by : Ids \cup {Root}]
Step == [at : Points, op : {"none", "login", "create", "delete", "roles"},
         who : Ids \cup {Root}, mail : People \cup {Nobody}, id : Ids \cup {0},
         set : SUBSET Roles]

TypeOK ==
    /\ email \in [Ids -> People \cup {Nobody}]
    /\ grants \in [Ids -> SUBSET Grant]
    /\ next \in 1..(MaxUsers + 1)
    /\ \A u \in Ids : u >= next => email[u] = Nobody
    /\ \A u \in Ids : email[u] = Nobody => grants[u] = {}
    /\ cookie \in [People -> Ids \cup {0}]
    /\ req \in [Requests -> Step]
    /\ conn \in Requests \cup {Nobody}
    /\ faults \in 0..MaxFaults

-----------------------------------------------------------------------------
Users == {u \in Ids : email[u] # Nobody}
RolesOf(u) == {g.role : g \in grants[u]}

\* EffectiveLevel: 99 without a role.
EffectiveLevel(u) ==
    IF grants[u] = {} THEN 99
    ELSE CHOOSE n \in 1..4 : /\ \E r \in RolesOf(u) : RoleLevelNum[r] = n
                             /\ \A r \in RolesOf(u) : RoleLevelNum[r] >= n

CanGrantRole(level, r) == level <= RoleLevelNum[r]

\* A call of the database by q waits for the connection.
Call(q, at) == req[q].at = at /\ conn = Nobody

Goto(q, at) == req' = [req EXCEPT ![q].at = at]
End(q) == req' = [req EXCEPT ![q] = Idle]

\* Bug: the id of a deleted row is given again, as without AUTOINCREMENT.
Bug_InsertUserRow(m) ==
    LET u == CHOOSE i \in Ids : email[i] = Nobody /\ \A j \in 1..(i-1) : email[j] # Nobody IN
    /\ \A v \in Users : email[v] # m
    /\ next <= MaxUsers
    /\ email' = [email EXCEPT ![u] = m]
    /\ next' = u + 1

\* InsertUser: emails are unique. The bound ends the run's insertions.
InsertUserRow(m) ==
    /\ \A u \in Users : email[u] # m
    /\ next <= MaxUsers
    /\ email' = [email EXCEPT ![next] = m]
    /\ next' = next + 1

-----------------------------------------------------------------------------
(* HandleCallback                                                          *)

\* Google says who p is; a state or a code that does not match ends here.
Callback(q, p) ==
    /\ req[q].at = "idle"
    /\ req' = [req EXCEPT ![q] = [Idle EXCEPT !.at = "count", !.op = "login", !.mail = p]]
    /\ UNCHANGED << table, cookie, conn, faults >>

CountUsers(q) ==
    /\ Call(q, "count")
    /\ Goto(q, IF Users = {} THEN "insert" ELSE "lookup")
    /\ UNCHANGED << table, cookie, conn, faults >>

\* The row of the first user; its role is written next.
BootstrapUser(q) ==
    /\ Call(q, "insert") /\ req[q].op = "login"
    /\ \/ /\ InsertUserRow(req[q].mail)
          /\ req' = [req EXCEPT ![q].at = "owner", ![q].id = next]
       \/ /\ \E u \in Users : email[u] = req[q].mail
          /\ End(q)
          /\ UNCHANGED << email, next >>
    /\ UNCHANGED << grants, cookie, conn, faults >>

\* Bug: the role of the first user is written whether the row is there or not.
Bug_BootstrapRole(q) ==
    LET u == req[q].id IN
    /\ Call(q, "owner")
    /\ grants' = [grants EXCEPT ![u] = @ \cup {[role |-> "dev", by |-> Root]}]
    /\ cookie' = [cookie EXCEPT ![req[q].mail] = u]
    /\ End(q)
    /\ UNCHANGED << email, next, conn, faults >>

\* InsertUserRole, whose user_id must exist, and the cookie.
BootstrapRole(q) ==
    LET u == req[q].id IN
    /\ Call(q, "owner")
    /\ IF u \in Users
       THEN /\ grants' = [grants EXCEPT ![u] = @ \cup {[role |-> "dev", by |-> Root]}]
            /\ cookie' = [cookie EXCEPT ![req[q].mail] = u]
       ELSE UNCHANGED << grants, cookie >>
    /\ End(q)
    /\ UNCHANGED << email, next, conn, faults >>

\* GetUserByEmail and UpdateUser: an unknown email is refused.
LookupUser(q) ==
    /\ Call(q, "lookup")
    /\ \/ \E u \in Users : email[u] = req[q].mail
                           /\ req' = [req EXCEPT ![q].at = "cookie", ![q].id = u]
       \/ (\A u \in Users : email[u] # req[q].mail) /\ End(q)
    /\ UNCHANGED << table, cookie, conn, faults >>

\* GetUserRoles and the cookie, which is of no use without a role in it.
IssueSession(q) ==
    /\ Call(q, "cookie")
    /\ cookie' = [cookie EXCEPT ![req[q].mail] =
                    IF grants[req[q].id] = {} THEN 0 ELSE req[q].id]
    /\ End(q)
    /\ UNCHANGED << table, conn, faults >>

\* A cookie expires, or HandleSessionLogout clears it.
SessionEnds(p) ==
    /\ cookie[p] # 0
    /\ cookie' = [cookie EXCEPT ![p] = 0]
    /\ UNCHANGED << table, req, conn, faults >>

-----------------------------------------------------------------------------
(* RootAuth and RoleAuth                                                   *)

Allowed(op) == IF op = "delete" THEN {"dev", "admin"} ELSE {"dev", "admin", "acl"}

FirstPoint(op) ==
    CASE op = "create" -> "mail" [] op = "delete" -> "exists" [] op = "roles" -> "validate"

\* ValidateSessionTokenWithUser: a cookie that the server issued, still valid.
InSession(u) == \E p \in People : cookie[p] = u

\* RootAuth lets the root token in, and a session for the user it names.
\* HandleDeleteUser refuses that a user deletes itself.
Request(q, who, op, mail, id, set) ==
    /\ req[q].at = "idle"
    /\ who = Root \/ InSession(who)
    /\ op = "delete" => who # id
    /\ req' = [req EXCEPT ![q] =
                [at |-> IF who = Root THEN FirstPoint(op) ELSE "role", op |-> op,
                 who |-> who, mail |-> mail, id |-> id, set |-> set]]
    /\ UNCHANGED << table, cookie, conn, faults >>

\* RoleAuth reads the roles of the user as they are now.
RoleAuth(q) ==
    /\ Call(q, "role")
    /\ IF RolesOf(req[q].who) \cap Allowed(req[q].op) # {}
       THEN Goto(q, FirstPoint(req[q].op)) ELSE End(q)
    /\ UNCHANGED << table, cookie, conn, faults >>

-----------------------------------------------------------------------------
(* HandleCreateUser, HandleUpdateUserRoles and HandleDeleteUser            *)

CheckEmail(q) ==
    /\ Call(q, "mail")
    /\ IF \E u \in Users : email[u] = req[q].mail THEN End(q)
       ELSE Goto(q, IF req[q].set = {} THEN "insert" ELSE "validate")
    /\ UNCHANGED << table, cookie, conn, faults >>

\* validateRoleGrants: the level of the granter, from its roles as they are now.
ValidateRoleGrants(q) ==
    /\ Call(q, "validate")
    /\ IF \/ req[q].who = Root
          \/ \A r \in req[q].set : CanGrantRole(EffectiveLevel(req[q].who), r)
       THEN Goto(q, IF req[q].op = "create" THEN "insert" ELSE "begin")
       ELSE End(q)
    /\ UNCHANGED << table, cookie, conn, faults >>

CreateUser(q) ==
    /\ Call(q, "insert") /\ req[q].op = "create"
    /\ \/ /\ InsertUserRow(req[q].mail)
          /\ req' = [req EXCEPT ![q] = IF req[q].set = {} THEN Idle
                                       ELSE [@ EXCEPT !.at = "grant", !.id = next]]
       \/ /\ \E u \in Users : email[u] = req[q].mail
          /\ End(q)
          /\ UNCHANGED << email, next >>
    /\ UNCHANGED << grants, cookie, conn, faults >>

\* InsertUserRole, for the next role of the list: both users must exist.
GrantRole(q, r) ==
    LET u == req[q].id  by == req[q].who  rest == req[q].set \ {r} IN
    /\ Call(q, "grant") /\ r \in req[q].set
    /\ IF u \in Users /\ by \in Users \cup {Root}
       THEN /\ grants' = [grants EXCEPT ![u] = @ \cup {[role |-> r, by |-> by]}]
            /\ req' = [req EXCEPT ![q] = IF rest = {} THEN Idle ELSE [@ EXCEPT !.set = rest]]
       ELSE End(q) /\ UNCHANGED grants
    /\ UNCHANGED << email, next, cookie, conn, faults >>

CheckUser(q) ==
    /\ Call(q, "exists")
    /\ IF req[q].id \in Users THEN Goto(q, "delete") ELSE End(q)
    /\ UNCHANGED << table, cookie, conn, faults >>

\* Bug: the roles are deleted with the user, and the grants by it left behind, as
\* without PRAGMA foreign_keys.
Bug_DeleteUser(q) ==
    LET u == req[q].id IN
    /\ Call(q, "delete")
    /\ email' = [email EXCEPT ![u] = Nobody]
    /\ grants' = [grants EXCEPT ![u] = {}]
    /\ End(q)
    /\ UNCHANGED << next, cookie, conn, faults >>

\* DeleteUser: its roles go with it (ON DELETE CASCADE), but roles it granted to
\* others keep it (granted_by REFERENCES users).
DeleteUser(q) ==
    LET u == req[q].id
        kept == \E v \in Ids \ {u} : \E g \in grants[v] : g.by = u
    IN
    /\ Call(q, "delete")
    /\ IF kept THEN UNCHANGED << email, grants >>
       ELSE /\ email' = [email EXCEPT ![u] = Nobody]
            /\ grants' = [grants EXCEPT ![u] = {}]
    /\ End(q)
    /\ UNCHANGED << next, cookie, conn, faults >>

\* SetUserRoles: Begin takes the connection for the transaction, and the calls
\* that follow are made on the pool, not on the transaction.
SetUserRoles(q) ==
    LET u == req[q].id
        new == {[role |-> r, by |-> req[q].who] : r \in req[q].set}
    IN
    /\ Call(q, "begin") \/ Call(q, "clear")
    /\ IF req[q].at = "begin"
       THEN Goto(q, "clear") /\ conn' = q /\ UNCHANGED grants
       ELSE End(q) /\ conn' = Nobody /\ grants' = [grants EXCEPT ![u] = new]
    /\ UNCHANGED << email, next, cookie, faults >>

\* A call fails (or, asked with the root token, a role has no level): the answer
\* is an error, and what was written stays.
Fault(q) ==
    /\ req[q].at # "idle" /\ conn = Nobody
    /\ faults < MaxFaults
    /\ faults' = faults + 1
    /\ End(q)
    /\ UNCHANGED << table, cookie, conn >>

-----------------------------------------------------------------------------
Init ==
    /\ email = [u \in Ids |-> Nobody]
    /\ grants = [u \in Ids |-> {}]
    /\ next = 1
    /\ cookie = [p \in People |-> 0]
    /\ req = [q \in Requests |-> Idle]
    /\ conn = Nobody
    /\ faults = 0

Login(q) ==
    \/ CountUsers(q) \/ BootstrapUser(q) \/ BootstrapRole(q)
    \/ LookupUser(q) \/ IssueSession(q)

Manage(q) ==
    \/ RoleAuth(q) \/ CheckEmail(q) \/ ValidateRoleGrants(q) \/ CreateUser(q)
    \/ \E r \in Roles : GrantRole(q, r)
    \/ CheckUser(q) \/ DeleteUser(q) \/ SetUserRoles(q)

Next ==
    \/ \E q \in Requests :
        \/ \E p \in People : Callback(q, p)
        \/ Login(q)
        \/ \E who \in Ids \cup {Root} :
            \/ \E p \in People, set \in GrantSets : Request(q, who, "create", p, 0, set)
            \/ \E u \in Ids : Request(q, who, "delete", Nobody, u, {})
            \/ \E u \in Ids, set \in GrantSets : Request(q, who, "roles", Nobody, u, set)
        \/ Manage(q)
        \/ Fault(q)
    \/ \E p \in People : SessionEnds(p)

Spec == Init /\ [][Next]_vars

\* net/http gives every request a goroutine, and a call that can get the
\* connection returns.
FairSpec == Spec /\ \A q \in Requests : WF_vars(Login(q) \/ Manage(q))

-----------------------------------------------------------------------------
(* Properties                                                              *)

\* Every role a user holds was granted by the root token, at the first login, or
\* by a user who is still there and at least as powerful as the role, although
\* the granter's level is read calls before the role is written and the granter
\* may be deleted between (users.go:141-162, 268-283; the foreign keys of
\* migration 0004 decide). It rests on no role ever being taken away: the one
\* operation that would, SetUserRoles, does not get that far.
GrantsAreBacked ==
    \A u \in Ids : \A g \in grants[u] :
        /\ u \in Users
        /\ g.by # Root => g.by \in Users /\ CanGrantRole(EffectiveLevel(g.by), g.role)

\* A session outlives the row of its user, but never acts for somebody else: the
\* id in the cookie is that of its holder or of nobody, also after the holder was
\* deleted and others were created (google.go:297-311, admin.go:79-88).
SessionsKeepTheirOwner ==
    \A p \in People : cookie[p] # 0 => email[cookie[p]] \in {p, Nobody}

\* A change of roles that was admitted gets its answer (users.go:181-188:
\* "Substitui todas as roles ... Usa models.SetUserRoles para a operação
\* transacional").
RoleUpdateAnswers ==
    \A q \in Requests : req[q].at = "begin" ~> req[q].at = "idle"
=============================================================================
