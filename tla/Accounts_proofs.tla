--------------------------- MODULE Accounts_proofs ---------------------------
(***************************************************************************)
(* Proofs about module Accounts, for every set of people and requests, and *)
(* every sets of roles asked for.                                          *)
(***************************************************************************)
EXTENDS Accounts, TLAPS

-----------------------------------------------------------------------------
(* Types                                                                   *)

\* A transaction keeps the connection for the request that is in it, and what
\* goes through RoleAuth is a request to manage users.
InTransaction ==
    \A q \in Requests :
        /\ req[q].at = "clear" => conn = q
        /\ req[q].at = "role" => req[q].op \in {"create", "delete", "roles"}

TInv == TypeOK /\ InTransaction

LEMMA IdleType == Idle \in Step /\ Idle.at = "idle"
  BY DEF Idle, Step, Points, Root

\* A request moves alone, to another point or to the end.
LEMMA RequestMoves ==
    ASSUME TypeOK, NEW q \in Requests, NEW x \in Step, req' = [req EXCEPT ![q] = x]
    PROVE  /\ req' \in [Requests -> Step]
           /\ req'[q] = x /\ \A p \in Requests \ {q} : req'[p] = req[p]
  BY DEF TypeOK

\* What Goto and End leave of a request.
LEMMA GotoMoves ==
    ASSUME TypeOK, NEW q \in Requests, NEW at \in Points, Goto(q, at)
    PROVE  /\ req' \in [Requests -> Step]
           /\ req'[q].at = at /\ req'[q].op = req[q].op /\ req'[q].who = req[q].who
           /\ req'[q].mail = req[q].mail /\ req'[q].id = req[q].id
           /\ req'[q].set = req[q].set
           /\ \A p \in Requests \ {q} : req'[p] = req[p]
  <1>1. req[q] \in Step
    BY DEF TypeOK
  <1>2. [req[q] EXCEPT !.at = at] \in Step
    BY <1>1 DEF Step
  <1>3. req' = [req EXCEPT ![q] = [req[q] EXCEPT !.at = at]]
    BY DEF Goto, TypeOK
  <1>4. req'[q] = [req[q] EXCEPT !.at = at]
    BY <1>2, <1>3, RequestMoves
  <1> QED
    BY <1>1, <1>2, <1>3, <1>4, RequestMoves DEF Step

LEMMA EndMoves ==
    ASSUME TypeOK, NEW q \in Requests, End(q)
    PROVE  /\ req' \in [Requests -> Step]
           /\ req'[q] = Idle /\ req'[q].at = "idle"
           /\ \A p \in Requests \ {q} : req'[p] = req[p]
  BY IdleType, RequestMoves DEF End

LEMMA StepType ==
    ASSUME TypeOK, NEW q \in Requests
    PROVE  /\ req[q] \in Step /\ req[q].who \in Ids \cup {Root}
           /\ req[q].mail \in People \cup {Nobody} /\ req[q].id \in Ids \cup {0}
           /\ req[q].set \in SUBSET Roles
  BY DEF TypeOK, Step

LEMMA InsertType ==
    ASSUME TypeOK, NEW m \in People \cup {Nobody}, InsertUserRow(m)
    PROVE  /\ next \in Ids
           /\ email' \in [Ids -> People \cup {Nobody}]
           /\ next' \in 1..(MaxUsers + 1)
           /\ \A u \in Ids : u >= next' => email'[u] = Nobody
           /\ \A u \in Ids : email'[u] = Nobody => email[u] = Nobody
           /\ \A u \in Ids : u < next => email'[u] = email[u]
           /\ email'[next] = m
  BY AccountsAssumption DEF TypeOK, InsertUserRow, Ids, Users

LEMMA InitType == Init => TInv
  BY IdleType, AccountsAssumption DEF Init, TInv, TypeOK, InTransaction, Ids

\* Where a step goes other than that of Request and SetUserRoles.
Later == Points \ {"clear", "role"}

LEMMA FirstPointType ==
    ASSUME NEW op \in {"create", "delete", "roles"}
    PROVE  FirstPoint(op) \in Later
  BY DEF FirstPoint, Later, Points

\* The requests after the steps that neither write a table nor touch the connection.
LEMMA ReadSteps ==
    ASSUME TInv, NEW q \in Requests,
           \/ CountUsers(q) \/ IssueSession(q) \/ RoleAuth(q) \/ CheckEmail(q)
           \/ ValidateRoleGrants(q) \/ CheckUser(q) \/ DeleteUser(q) \/ BootstrapRole(q)
           \/ Fault(q)
    PROVE  /\ req' \in [Requests -> Step]
           /\ \/ End(q)
              \/ \E at \in Later : Goto(q, at) /\ req'[q].at = at
           /\ conn' = conn
           /\ \A p \in Requests \ {q} : req'[p] = req[p]
  <1>0. TypeOK /\ InTransaction
    BY DEF TInv
  <1>1. CASE CountUsers(q) \/ IssueSession(q) \/ CheckEmail(q) \/ ValidateRoleGrants(q)
             \/ CheckUser(q) \/ DeleteUser(q) \/ BootstrapRole(q) \/ Fault(q)
    <2>1. End(q) \/ \E at \in Later : Goto(q, at)
      BY <1>1
      DEF CountUsers, IssueSession, CheckEmail, ValidateRoleGrants, CheckUser, DeleteUser,
          BootstrapRole, Fault, Later, Points
    <2>2. conn' = conn
      BY <1>1
      DEF CountUsers, IssueSession, CheckEmail, ValidateRoleGrants, CheckUser, DeleteUser,
          BootstrapRole, Fault
    <2> QED
      BY <1>0, <2>1, <2>2, EndMoves, GotoMoves DEF Later
  <1>2. CASE RoleAuth(q)
    <2>1. End(q) \/ \E at \in Later : Goto(q, at)
      BY <1>0, <1>2, FirstPointType DEF RoleAuth, InTransaction, Call
    <2> QED
      BY <1>0, <1>2, <2>1, EndMoves, GotoMoves DEF Later, RoleAuth
  <1> QED
    BY <1>1, <1>2

LEMMA NextType ==
    ASSUME TInv, [Next]_vars
    PROVE  TInv'
  <1>0. TypeOK /\ InTransaction
    BY DEF TInv
  <1>1. ASSUME NEW q \in Requests, req' \in [Requests -> Step], req'[q].at \notin {"clear", "role"},
               conn' = conn, \A p \in Requests \ {q} : req'[p] = req[p]
        PROVE  InTransaction'
    BY <1>0, <1>1 DEF InTransaction
  <1>2. ASSUME NEW q \in Requests, NEW p \in People, Callback(q, p)
        PROVE  TInv'
    <2> DEFINE x == [Idle EXCEPT !.at = "count", !.op = "login", !.mail = p]
    <2>1. x \in Step /\ x.at = "count"
      BY DEF Step, Idle, Points, Root
    <2> QED
      BY <1>0, <1>1, <1>2, <2>1, RequestMoves DEF Callback, TInv, TypeOK, table
  <1>3. ASSUME NEW q \in Requests, CountUsers(q) \/ RoleAuth(q) \/ CheckEmail(q)
                 \/ ValidateRoleGrants(q) \/ CheckUser(q) \/ Fault(q)
        PROVE  TInv'
    <2>1. InTransaction'
      BY <1>0, <1>1, <1>3, ReadSteps, EndMoves DEF Later
    <2>2. UNCHANGED << email, grants, next, cookie, conn >> /\ faults' \in 0..MaxFaults
      BY <1>0, <1>3, AccountsAssumption
      DEF CountUsers, RoleAuth, CheckEmail, ValidateRoleGrants, CheckUser, Fault, table,
          TypeOK
    <2> QED
      BY <1>0, <1>3, <2>1, <2>2, ReadSteps DEF TInv, TypeOK
  <1>4. ASSUME NEW q \in Requests, IssueSession(q)
        PROVE  TInv'
    <2>1. InTransaction' /\ req' \in [Requests -> Step]
      BY <1>0, <1>1, <1>4, ReadSteps, EndMoves DEF Later
    <2>2. cookie' \in [People -> Ids \cup {0}]
      BY <1>0, <1>4, StepType DEF IssueSession, TypeOK
    <2> QED
      BY <1>0, <1>4, <2>1, <2>2 DEF IssueSession, TInv, TypeOK, table
  <1>5. ASSUME NEW q \in Requests, BootstrapRole(q)
        PROVE  TInv'
    <2>1. InTransaction' /\ req' \in [Requests -> Step]
      BY <1>0, <1>1, <1>5, ReadSteps, EndMoves DEF Later
    <2>2. cookie' \in [People -> Ids \cup {0}]
      BY <1>0, <1>5, StepType DEF BootstrapRole, TypeOK, Users
    <2>3. /\ grants' \in [Ids -> SUBSET Grant]
          /\ \A u \in Ids : email[u] = Nobody => grants'[u] = {}
      BY <1>0, <1>5 DEF BootstrapRole, TypeOK, Users, Grant, Roles, Root
    <2> QED
      BY <1>0, <1>5, <2>1, <2>2, <2>3 DEF BootstrapRole, TInv, TypeOK
  <1>6. ASSUME NEW q \in Requests, DeleteUser(q)
        PROVE  TInv'
    <2>1. InTransaction' /\ req' \in [Requests -> Step]
      BY <1>0, <1>1, <1>6, ReadSteps, EndMoves DEF Later
    <2>2. /\ email' \in [Ids -> People \cup {Nobody}]
          /\ grants' \in [Ids -> SUBSET Grant]
          /\ \A u \in Ids : email'[u] = Nobody => grants'[u] = {}
          /\ \A u \in Ids : u >= next => email'[u] = Nobody
      BY <1>0, <1>6 DEF DeleteUser, TypeOK
    <2> QED
      BY <1>0, <1>6, <2>1, <2>2 DEF DeleteUser, TInv, TypeOK
  <1>7. ASSUME NEW q \in Requests, LookupUser(q)
        PROVE  TInv'
    <2>1. CASE End(q)
      BY <1>0, <1>1, <1>7, <2>1, EndMoves DEF LookupUser, TInv, TypeOK, table
    <2>2. ASSUME NEW u \in Users, req' = [req EXCEPT ![q].at = "cookie", ![q].id = u]
          PROVE  TInv'
      <3> DEFINE x == [req[q] EXCEPT !.at = "cookie", !.id = u]
      <3>1. x \in Step /\ x.at = "cookie"
        BY <1>0, StepType DEF Step, Points, Users
      <3>2. req' = [req EXCEPT ![q] = x]
        BY <1>0, <2>2 DEF TypeOK
      <3> QED
        BY <1>0, <1>1, <1>7, <3>1, <3>2, RequestMoves DEF LookupUser, TInv, TypeOK, table
    <2> QED
      BY <1>7, <2>1, <2>2 DEF LookupUser
  <1>8. ASSUME NEW q \in Requests, BootstrapUser(q) \/ CreateUser(q)
        PROVE  TInv'
    <2>1. CASE End(q) /\ UNCHANGED << email, next >>
      BY <1>0, <1>1, <1>8, <2>1, EndMoves DEF BootstrapUser, CreateUser, TInv, TypeOK
    <2>2. CASE InsertUserRow(req[q].mail)
      <3> DEFINE x == IF req[q].op = "login" THEN [req[q] EXCEPT !.at = "owner", !.id = next]
                      ELSE IF req[q].set = {} THEN Idle
                      ELSE [req[q] EXCEPT !.at = "grant", !.id = next]
      <3>0. /\ next \in Ids
            /\ email' \in [Ids -> People \cup {Nobody}] /\ next' \in 1..(MaxUsers + 1)
            /\ \A u \in Ids : u >= next' => email'[u] = Nobody
            /\ \A u \in Ids : email'[u] = Nobody => email[u] = Nobody
        BY <1>0, <2>2, StepType, InsertType
      <3>1. x \in Step /\ x.at \in {"owner", "idle", "grant"}
        BY <1>0, <3>0, StepType, IdleType DEF Step, Points
      <3>2. req' = [req EXCEPT ![q] = x]
        BY <1>0, <1>8, <2>2, StepType
        DEF BootstrapUser, CreateUser, Call, InsertUserRow, Users, TypeOK
      <3>3. /\ req' \in [Requests -> Step] /\ req'[q].at \notin {"clear", "role"}
            /\ \A p \in Requests \ {q} : req'[p] = req[p]
        BY <1>0, <3>1, <3>2, RequestMoves
      <3>4. InTransaction'
        BY <1>1, <1>8, <3>3 DEF BootstrapUser, CreateUser
      <3> QED
        BY <1>0, <1>8, <3>0, <3>3, <3>4 DEF BootstrapUser, CreateUser, TInv, TypeOK
    <2> QED
      BY <1>8, <2>1, <2>2 DEF BootstrapUser, CreateUser
  <1>9. ASSUME NEW q \in Requests, NEW r \in Roles, GrantRole(q, r)
        PROVE  TInv'
    <2>1. CASE End(q) /\ UNCHANGED grants
      BY <1>0, <1>1, <1>9, <2>1, EndMoves DEF GrantRole, TInv, TypeOK
    <2>2. CASE ~(End(q) /\ UNCHANGED grants)
      <3> DEFINE x == IF req[q].set \ {r} = {} THEN Idle
                      ELSE [req[q] EXCEPT !.set = req[q].set \ {r}]
      <3>1. x \in Step /\ x.at \in {"idle", "grant"}
        BY <1>0, <1>9, StepType, IdleType DEF Step, GrantRole, Call
      <3>2. req' = [req EXCEPT ![q] = x]
        BY <1>0, <1>9, <2>2 DEF GrantRole, TypeOK
      <3>3. /\ req' \in [Requests -> Step] /\ req'[q].at \notin {"clear", "role"}
            /\ \A p \in Requests \ {q} : req'[p] = req[p]
        BY <1>0, <3>1, <3>2, RequestMoves
      <3>4. InTransaction'
        BY <1>1, <1>9, <3>3 DEF GrantRole
      <3>5. [role |-> r, by |-> req[q].who] \in Grant
        BY <1>0, StepType DEF Grant
      <3>6. /\ grants' \in [Ids -> SUBSET Grant]
            /\ \A u \in Ids : email[u] = Nobody => grants'[u] = {}
        BY <1>0, <1>9, <2>2, <3>5 DEF GrantRole, TypeOK, Users
      <3> QED
        BY <1>0, <1>9, <3>3, <3>4, <3>6 DEF GrantRole, TInv, TypeOK
    <2> QED
      BY <2>1, <2>2
  <1>10. ASSUME NEW q \in Requests, SetUserRoles(q)
         PROVE  TInv'
    <2>1. req[q].at = "begin" /\ conn = Nobody
      BY <1>0, <1>10, AccountsAssumption DEF SetUserRoles, Call, InTransaction
    <2>2. Goto(q, "clear") /\ conn' = q /\ UNCHANGED << table, cookie, faults >>
      BY <1>10, <2>1 DEF SetUserRoles, table
    <2>3. /\ req' \in [Requests -> Step] /\ req'[q].at = "clear"
          /\ \A p \in Requests \ {q} : req'[p] = req[p]
      BY <1>0, <2>2, GotoMoves DEF Points
    <2>4. InTransaction'
      BY <1>0, <2>1, <2>2, <2>3, AccountsAssumption DEF InTransaction
    <2> QED
      BY <1>0, <2>2, <2>3, <2>4 DEF TInv, TypeOK, table
  <1>11. ASSUME NEW q \in Requests, NEW who \in Ids \cup {Root},
                NEW op \in {"create", "delete", "roles"}, NEW m \in People \cup {Nobody},
                NEW id \in Ids \cup {0}, NEW set \in SUBSET Roles,
                Request(q, who, op, m, id, set)
         PROVE  TInv'
    <2> DEFINE x == [at |-> IF who = Root THEN FirstPoint(op) ELSE "role", op |-> op,
                     who |-> who, mail |-> m, id |-> id, set |-> set]
    <2>1. x \in Step /\ x.at # "clear" /\ x.op = op
      BY FirstPointType DEF Step, Later, Points
    <2>2. req' = [req EXCEPT ![q] = x]
      BY <1>11 DEF Request
    <2>3. /\ req' \in [Requests -> Step] /\ req'[q] = x
          /\ \A p \in Requests \ {q} : req'[p] = req[p]
      BY <1>0, <2>1, <2>2, RequestMoves
    <2>4. InTransaction'
      BY <1>0, <1>11, <2>1, <2>3 DEF InTransaction, Request
    <2> QED
      BY <1>0, <1>11, <2>3, <2>4 DEF Request, TInv, TypeOK, table
  <1>12. CASE \E p \in People : SessionEnds(p)
    BY <1>0, <1>12 DEF SessionEnds, TInv, TypeOK, InTransaction, table
  <1>13. CASE UNCHANGED vars
    BY <1>0, <1>13 DEF vars, table, TInv, TypeOK, InTransaction
  <1> QED
    BY <1>2, <1>3, <1>4, <1>5, <1>6, <1>7, <1>8, <1>9, <1>10, <1>11, <1>12, <1>13,
       AccountsAssumption
    DEF Next, Login, Manage

\* The types hold for every set of people, requests and sets of roles.
THEOREM TypeCorrect == Spec => []TypeOK
  BY InitType, NextType, PTL DEF Spec, TInv

-----------------------------------------------------------------------------
(* Sessions.                                                               *)

\* What a step may do to the tables: ids are given in order and never again, and a
\* user loses a role only with the row.
LEMMA TablesGrow ==
    ASSUME TInv, [Next]_vars
    PROVE  /\ next' \in Nat /\ next \in Nat /\ next' >= next
           /\ \A u \in Ids : u < next =>
                /\ email'[u] \in {email[u], Nobody}
                /\ email'[u] # Nobody => grants[u] \subseteq grants'[u]
  <1>0. TypeOK /\ TypeOK' /\ InTransaction
    BY NextType DEF TInv
  <1>1. next' \in Nat /\ next \in Nat
    BY <1>0, AccountsAssumption DEF TypeOK
  <1>2. ASSUME NEW q \in Requests, NEW m \in People \cup {Nobody}, InsertUserRow(m),
               UNCHANGED grants
        PROVE  /\ next' >= next
               /\ \A u \in Ids : u < next => email'[u] = email[u] /\ grants'[u] = grants[u]
    BY <1>0, <1>1, <1>2, InsertType DEF InsertUserRow
  <1>3. ASSUME NEW q \in Requests, BootstrapUser(q) \/ CreateUser(q)
        PROVE  (InsertUserRow(req[q].mail) /\ UNCHANGED grants) \/ UNCHANGED table
    BY <1>3 DEF BootstrapUser, CreateUser, table
  <1>4. ASSUME NEW q \in Requests, DeleteUser(q)
        PROVE  next' = next /\ \A u \in Ids : /\ email'[u] \in {email[u], Nobody}
                                              /\ email'[u] # Nobody => grants'[u] = grants[u]
    BY <1>0, <1>4 DEF DeleteUser, TypeOK
  <1>5. ASSUME NEW q \in Requests, BootstrapRole(q) \/ \E r \in Roles : GrantRole(q, r)
        PROVE  UNCHANGED << email, next >> /\ \A u \in Ids : grants[u] \subseteq grants'[u]
    BY <1>0, <1>5 DEF BootstrapRole, GrantRole, TypeOK
  <1>6. ASSUME NEW q \in Requests, SetUserRoles(q)
        PROVE  UNCHANGED table
    BY <1>0, <1>6, AccountsAssumption DEF SetUserRoles, Call, InTransaction, table
  <1>7. ASSUME NEW q \in Requests,
               \/ CountUsers(q) \/ LookupUser(q) \/ IssueSession(q) \/ RoleAuth(q)
               \/ CheckEmail(q) \/ ValidateRoleGrants(q) \/ CheckUser(q) \/ Fault(q)
        PROVE  UNCHANGED table
    BY <1>7
    DEF CountUsers, LookupUser, IssueSession, RoleAuth, CheckEmail, ValidateRoleGrants,
        CheckUser, Fault, table
  <1>8. ASSUME NEW q \in Requests, NEW who, NEW op, NEW m, NEW id, NEW set,
               Request(q, who, op, m, id, set)
        PROVE  UNCHANGED table
    BY <1>8 DEF Request, table
  <1>9. ASSUME \/ \E p \in People : SessionEnds(p)
               \/ \E p \in People, q \in Requests : Callback(q, p)
               \/ UNCHANGED vars
        PROVE  UNCHANGED table
    BY <1>9 DEF SessionEnds, Callback, vars, table
  <1>10. CASE UNCHANGED table
    BY <1>1, <1>10 DEF table
  <1>11. ASSUME NEW q \in Requests, Login(q)
         PROVE  /\ next' >= next
                /\ \A u \in Ids : u < next =>
                     /\ email'[u] \in {email[u], Nobody}
                     /\ email'[u] # Nobody => grants[u] \subseteq grants'[u]
    BY <1>0, <1>1, <1>2, <1>3, <1>5, <1>7, <1>10, <1>11, StepType DEF Login
  <1>12. ASSUME NEW q \in Requests, Manage(q)
         PROVE  /\ next' >= next
                /\ \A u \in Ids : u < next =>
                     /\ email'[u] \in {email[u], Nobody}
                     /\ email'[u] # Nobody => grants[u] \subseteq grants'[u]
    BY <1>0, <1>1, <1>2, <1>3, <1>4, <1>5, <1>6, <1>7, <1>10, <1>12, StepType DEF Manage
  <1> QED
    BY <1>1, <1>7, <1>8, <1>9, <1>10, <1>11, <1>12 DEF Next

\* What request x, if it is at a point where it carries a user, knows of it.
Knows(x) ==
    /\ x.who # Root => x.who < next
    /\ x.at \in {"owner", "cookie"} =>
        /\ x.id \in Ids /\ x.id < next
        /\ email[x.id] \in {x.mail, Nobody}

\* The inductive invariant: the id of a session, and of a login about to make one,
\* was given to its owner and to nobody since.
OwnersOnly ==
    /\ TInv
    /\ \A p \in People : cookie[p] # 0 =>
        cookie[p] < next /\ email[cookie[p]] \in {p, Nobody}
    /\ \A q \in Requests : Knows(req[q])

LEMMA OwnersStay ==
    ASSUME OwnersOnly, [Next]_vars
    PROVE  OwnersOnly'
  <1>0. /\ TInv /\ TInv' /\ TypeOK /\ TypeOK'
        /\ \A p \in People : cookie[p] # 0 =>
             cookie[p] < next /\ email[cookie[p]] \in {p, Nobody}
        /\ \A q \in Requests : Knows(req[q])
    BY NextType DEF OwnersOnly, TInv
  <1>a. Ids \subseteq Nat /\ \A p \in People : cookie[p] \in Ids \cup {0}
    BY <1>0, AccountsAssumption DEF TypeOK, Ids
  <1>b. \A q \in Requests : req[q].who \in Ids \cup {0}
    BY <1>0, StepType DEF Root
  <1>c. /\ \A u \in Ids : u < next => u < next' /\ email'[u] \in {email[u], Nobody}
        /\ \A n \in Nat : n < next => n < next'
    <2>1. /\ next' \in Nat /\ next \in Nat /\ next' >= next
          /\ \A u \in Ids : u < next => email'[u] \in {email[u], Nobody}
      BY <1>0, TablesGrow
    <2>2. \A n \in Nat : n < next => n < next'
      BY <2>1
    <2> QED
      BY <1>a, <2>1, <2>2
  \* The tables alone disturb nothing.
  <1>1. ASSUME NEW p \in People, cookie'[p] = cookie[p]
        PROVE  cookie'[p] # 0 => cookie'[p] < next' /\ email'[cookie'[p]] \in {p, Nobody}
    BY <1>0, <1>a, <1>c, <1>1
  <1>2. ASSUME NEW q \in Requests, req'[q] = req[q]
        PROVE  Knows(req[q])'
    BY <1>0, <1>a, <1>b, <1>c, <1>2 DEF Knows, Root
  \* A login makes a session of the id it carries.
  <1>3. ASSUME NEW q \in Requests, BootstrapRole(q) \/ IssueSession(q)
        PROVE  OwnersOnly'
    <2>1. /\ \A p \in People : cookie'[p] \in {cookie[p], 0}
                                 \/ (p = req[q].mail /\ cookie'[p] = req[q].id)
          /\ UNCHANGED << email, next >>
      <3>1. CASE BootstrapRole(q)
        BY <1>0, <3>1 DEF BootstrapRole, TypeOK
      <3>2. CASE IssueSession(q)
        BY <1>0, <3>2 DEF IssueSession, TypeOK, table
      <3> QED
        BY <1>3, <3>1, <3>2
    <2>2. \A p \in People : cookie'[p] # 0 =>
            cookie'[p] < next' /\ email'[cookie'[p]] \in {p, Nobody}
      BY <1>0, <1>3, <2>1 DEF BootstrapRole, IssueSession, Call, Knows
    <2>3. req'[q] = Idle /\ \A p \in Requests \ {q} : req'[p] = req[p]
      <3>1. End(q)
        BY <1>3 DEF BootstrapRole, IssueSession
      <3> QED
        BY <1>0, <3>1, EndMoves
    <2>4. \A p \in Requests : Knows(req[p])'
      BY <1>2, <2>3 DEF Knows, Idle, Root
    <2> QED
      BY <1>0, <2>2, <2>4 DEF OwnersOnly
  \* Every other step of a request leaves the sessions alone.
  <1>4. ASSUME NEW q \in Requests, UNCHANGED cookie, Knows(req[q])',
               \A p \in Requests \ {q} : req'[p] = req[p]
        PROVE  OwnersOnly'
    BY <1>0, <1>1, <1>2, <1>4 DEF OwnersOnly
  <1>5. ASSUME NEW q \in Requests, LookupUser(q)
        PROVE  OwnersOnly'
    <2>1. CASE End(q)
      BY <1>0, <1>4, <1>5, <2>1, EndMoves DEF LookupUser, Knows, Idle, Root
    <2>2. ASSUME NEW u \in Users, email[u] = req[q].mail,
                 req' = [req EXCEPT ![q].at = "cookie", ![q].id = u]
          PROVE  OwnersOnly'
      <3>1. /\ req'[q].id = u /\ req'[q].mail = req[q].mail /\ req'[q].who = req[q].who
            /\ \A p \in Requests \ {q} : req'[p] = req[p]
        BY <1>0, <2>2, StepType DEF Step, TypeOK
      <3>2. u \in Ids /\ u < next
        BY <1>0, AccountsAssumption DEF Users, TypeOK, Ids
      <3> QED
        BY <1>0, <1>4, <1>5, <2>2, <3>1, <3>2 DEF LookupUser, Knows, table
    <2> QED
      BY <1>5, <2>1, <2>2 DEF LookupUser
  <1>6. ASSUME NEW q \in Requests, BootstrapUser(q) \/ CreateUser(q)
        PROVE  OwnersOnly'
    <2>1. CASE End(q)
      BY <1>0, <1>4, <1>6, <2>1, EndMoves DEF BootstrapUser, CreateUser, Knows, Idle, Root
    <2>2. CASE InsertUserRow(req[q].mail) /\ ~End(q)
      <3>1. /\ next \in Ids /\ next < next' /\ email'[next] = req[q].mail
        BY <1>0, <1>a, <2>2, StepType, InsertType, AccountsAssumption DEF InsertUserRow, TypeOK
      <3>2. \/ req' = [req EXCEPT ![q].at = "owner", ![q].id = next]
            \/ req' = [req EXCEPT ![q] = [@ EXCEPT !.at = "grant", !.id = next]]
        BY <1>0, <1>6, <2>2 DEF BootstrapUser, CreateUser, End
      <3>3. /\ req'[q].id = next /\ req'[q].mail = req[q].mail /\ req'[q].who = req[q].who
            /\ \A p \in Requests \ {q} : req'[p] = req[p]
        <4>1. req[q] \in Step
          BY <1>0, StepType
        <4>2. CASE req' = [req EXCEPT ![q].at = "owner", ![q].id = next]
          BY <1>0, <4>1, <4>2 DEF Step, TypeOK
        <4>3. CASE req' = [req EXCEPT ![q] = [@ EXCEPT !.at = "grant", !.id = next]]
          BY <1>0, <4>1, <4>3 DEF Step, TypeOK
        <4> QED
          BY <3>2, <4>2, <4>3
      <3>4. Knows(req[q])'
        BY <1>0, <1>a, <1>b, <1>c, <3>1, <3>3 DEF Knows, Root
      <3> QED
        BY <1>4, <1>6, <3>3, <3>4 DEF BootstrapUser, CreateUser
    <2> QED
      BY <1>6, <2>1, <2>2 DEF BootstrapUser, CreateUser
  <1>7. ASSUME NEW q \in Requests, NEW who \in Ids \cup {Root}, NEW op, NEW m, NEW id,
               NEW set, op \in {"create", "delete", "roles"},
               Request(q, who, op, m, id, set)
        PROVE  OwnersOnly'
    <2>1. who # Root => who < next
      BY <1>0, <1>7 DEF Request, InSession, Root
    <2>2. /\ req'[q].who = who /\ req'[q].at \notin {"owner", "cookie"}
          /\ UNCHANGED << table, cookie >>
          /\ \A p \in Requests \ {q} : req'[p] = req[p]
      BY <1>0, <1>7, FirstPointType DEF Request, TypeOK, FirstPoint
    <2> QED
      BY <1>4, <2>1, <2>2 DEF Knows, table
  <1>8. ASSUME NEW q \in Requests, NEW p \in People, Callback(q, p)
        PROVE  OwnersOnly'
    <2>1. /\ req'[q].who = Root /\ req'[q].at = "count"
          /\ \A r \in Requests \ {q} : req'[r] = req[r]
      BY <1>0, <1>8 DEF Callback, TypeOK, Idle
    <2> QED
      BY <1>4, <1>8, <2>1 DEF Knows, Callback
  <1>9. ASSUME NEW q \in Requests, NEW at \in Points \ {"owner", "cookie"}, Goto(q, at),
               UNCHANGED cookie
        PROVE  OwnersOnly'
    <2>1. Knows(req[q])'
      BY <1>0, <1>a, <1>b, <1>c, <1>9, GotoMoves DEF Knows, Root
    <2> QED
      BY <1>0, <1>4, <1>9, <2>1, GotoMoves
  <1>10. ASSUME NEW q \in Requests, End(q), UNCHANGED cookie
         PROVE  OwnersOnly'
    BY <1>0, <1>4, <1>10, EndMoves DEF Knows, Idle, Root
  <1>11. ASSUME NEW q \in Requests,
                \/ CountUsers(q) \/ CheckEmail(q) \/ ValidateRoleGrants(q)
                \/ CheckUser(q) \/ DeleteUser(q) \/ SetUserRoles(q) \/ Fault(q)
         PROVE  OwnersOnly'
    <2>1. End(q) \/ \E at \in Points \ {"owner", "cookie"} : Goto(q, at)
      BY <1>11
      DEF CountUsers, CheckEmail, ValidateRoleGrants, CheckUser, DeleteUser, SetUserRoles,
          Fault, Points
    <2>2. UNCHANGED cookie
      BY <1>11
      DEF CountUsers, CheckEmail, ValidateRoleGrants, CheckUser, DeleteUser, SetUserRoles,
          Fault
    <2> QED
      BY <1>9, <1>10, <2>1, <2>2
  <1>12. ASSUME NEW q \in Requests, RoleAuth(q)
         PROVE  OwnersOnly'
    <2>1. End(q) \/ \E at \in Points \ {"owner", "cookie"} : Goto(q, at)
      BY <1>0, <1>12 DEF RoleAuth, TInv, InTransaction, Call, FirstPoint, Points
    <2> QED
      BY <1>9, <1>10, <1>12, <2>1 DEF RoleAuth
  <1>13. ASSUME NEW q \in Requests, NEW r \in Roles, GrantRole(q, r)
         PROVE  OwnersOnly'
    <2>1. CASE End(q)
      BY <1>10, <1>13, <2>1 DEF GrantRole
    <2>2. CASE ~End(q)
      <3>1. /\ req' = [req EXCEPT ![q] = [@ EXCEPT !.set = req[q].set \ {r}]]
               \/ req' = [req EXCEPT ![q] = Idle]
            /\ UNCHANGED cookie /\ req[q].at = "grant"
        BY <1>13, <2>2 DEF GrantRole, Call
      <3>2. /\ (req'[q].who = req[q].who /\ req'[q].at = "grant") \/ req'[q] = Idle
            /\ \A p \in Requests \ {q} : req'[p] = req[p]
        BY <1>0, <3>1, StepType DEF Step, TypeOK
      <3>3. Knows(req[q])'
        <4>1. CASE req'[q] = Idle
          BY <4>1 DEF Knows, Idle, Root
        <4>2. CASE req'[q].who = req[q].who /\ req'[q].at = "grant"
          BY <1>0, <1>a, <1>b, <1>c, <4>2 DEF Knows, Root
        <4> QED
          BY <3>2, <4>1, <4>2
      <3> QED
        BY <1>4, <3>1, <3>2, <3>3
    <2> QED
      BY <2>1, <2>2
  <1>14. CASE \E p \in People : SessionEnds(p)
    <2>1. UNCHANGED << email, next, req >> /\ \A p \in People : cookie'[p] \in {cookie[p], 0}
      BY <1>0, <1>14 DEF SessionEnds, table, TypeOK
    <2> QED
      BY <1>0, <2>1, <1>2 DEF OwnersOnly
  <1>15. CASE UNCHANGED vars
    BY <1>0, <1>1, <1>2, <1>15 DEF vars, OwnersOnly
  <1> QED
    BY <1>3, <1>5, <1>6, <1>7, <1>8, <1>11, <1>12, <1>13, <1>14, <1>15
    DEF Next, Login, Manage

\* The id in a session is that of its holder or of nobody, however many users are
\* deleted and created meanwhile (AUTOINCREMENT).
THEOREM SessionsAreTheirOwners == Spec => []SessionsKeepTheirOwner
  <1>1. Init => OwnersOnly
    BY InitType DEF Init, OwnersOnly, Knows, Idle
  <1>2. OwnersOnly => SessionsKeepTheirOwner
    BY DEF OwnersOnly, SessionsKeepTheirOwner
  <1> QED
    BY <1>1, <1>2, OwnersStay, PTL DEF Spec

-----------------------------------------------------------------------------
(* Grants.                                                                 *)

\* Somebody among G's roles is at least as powerful as r.
Above(G, r) == \E g \in G : RoleLevelNum[g.role] <= RoleLevelNum[r]

LEMMA Levels ==
    /\ \A r \in Roles : RoleLevelNum[r] \in 1..4
    /\ RoleLevelNum["dev"] = 1 /\ RoleLevelNum["admin"] = 2
    /\ RoleLevelNum["acl"] = 3 /\ RoleLevelNum["manager"] = 4
  BY DEF RoleLevelNum, Roles

\* The level CanGrantRole compares is that of the most powerful role.
LEMMA EffectiveLevelIsTheLowest ==
    ASSUME TypeOK, NEW u \in Ids, NEW r \in Roles
    PROVE  CanGrantRole(EffectiveLevel(u), r) <=> Above(grants[u], r)
  <1>1. CASE grants[u] = {}
    BY <1>1, Levels DEF CanGrantRole, EffectiveLevel, Above
  <1>2. CASE grants[u] # {}
    <2> DEFINE Lowest(n) == /\ \E x \in RolesOf(u) : RoleLevelNum[x] = n
                            /\ \A x \in RolesOf(u) : RoleLevelNum[x] >= n
    <2>1. RolesOf(u) \subseteq Roles /\ RolesOf(u) # {}
      BY <1>2 DEF TypeOK, RolesOf, Grant
    <2>2. \A x \in RolesOf(u) : x \in {"dev", "admin", "acl", "manager"}
      BY <2>1 DEF Roles
    <2>3. \E n \in 1..4 : Lowest(n)
      <3>1. CASE "dev" \in RolesOf(u)
        <4>1. Lowest(1)
          BY <3>1, <2>2, Levels
        <4> QED
          BY <4>1
      <3>2. CASE "dev" \notin RolesOf(u) /\ "admin" \in RolesOf(u)
        <4>1. Lowest(2)
          BY <3>2, <2>2, Levels
        <4> QED
          BY <4>1
      <3>3. CASE {"dev", "admin"} \cap RolesOf(u) = {} /\ "acl" \in RolesOf(u)
        <4>1. Lowest(3)
          BY <3>3, <2>2, Levels
        <4> QED
          BY <4>1
      <3>4. CASE {"dev", "admin", "acl"} \cap RolesOf(u) = {}
        <4>1. Lowest(4)
          BY <3>4, <2>1, <2>2, Levels
        <4> QED
          BY <4>1
      <3> QED
        BY <3>1, <3>2, <3>3, <3>4
    <2>4. EffectiveLevel(u) = CHOOSE n \in 1..4 : Lowest(n)
      BY <1>2 DEF EffectiveLevel
    <2>5. EffectiveLevel(u) \in 1..4 /\ Lowest(EffectiveLevel(u))
      BY <2>3, <2>4
    <2>6. Above(grants[u], r) <=> \E x \in RolesOf(u) : RoleLevelNum[x] <= RoleLevelNum[r]
      BY DEF Above, RolesOf
    <2> QED
      BY <2>1, <2>5, <2>6, Levels DEF CanGrantRole
  <1> QED
    BY <1>1, <1>2

\* What request x may still grant, it may grant: its user is above, or gone.
Entitled(x) ==
    /\ x.at = "count" => x.who = Root
    /\ x.at \in {"insert", "grant"} /\ x.who # Root =>
        x.who \notin Users \/ \A r \in x.set : Above(grants[x.who], r)

BackedIn(u, g) == g.by # Root => g.by \in Users /\ Above(grants[g.by], g.role)

\* The inductive invariant.
AllBacked ==
    /\ OwnersOnly
    /\ \A u \in Ids : \A g \in grants[u] : BackedIn(u, g)
    /\ \A q \in Requests : Entitled(req[q])

LEMMA BackingStays ==
    ASSUME AllBacked, [Next]_vars
    PROVE  AllBacked'
  <1>0. /\ OwnersOnly /\ OwnersOnly' /\ TInv /\ TypeOK /\ TypeOK'
        /\ \A u \in Ids : \A g \in grants[u] : BackedIn(u, g)
        /\ \A q \in Requests : Entitled(req[q])
    BY OwnersStay DEF AllBacked, OwnersOnly, TInv
  \* A user who was there and still is has every role it had.
  <1>1. \A u \in Ids : u < next /\ u \in Users' =>
          u \in Users /\ grants[u] \subseteq grants'[u]
    BY <1>0, TablesGrow DEF Users
  <1>2. \A r : \A u \in Ids : u < next /\ u \in Users' /\ Above(grants[u], r) =>
          Above(grants'[u], r)
    BY <1>1 DEF Above
  <1>3. \A u \in Users : u \in Ids /\ u < next
    BY <1>0, AccountsAssumption DEF Users, TypeOK, Ids
  <1>4. \A q \in Requests :
          req[q].who \in Ids \cup {Root} /\ (req[q].who # Root => req[q].who < next)
    BY <1>0, StepType DEF OwnersOnly, Knows
  \* Requests that go on with what they were asked for, or with less of it.
  <1>5. ASSUME NEW q \in Requests, req'[q].who = req[q].who, req'[q].set \subseteq req[q].set,
               req'[q].at \in {"insert", "grant"} => req[q].at \in {"insert", "grant"},
               req'[q].at = "count" => req[q].at = "count"
        PROVE  Entitled(req[q])'
    BY <1>0, <1>1, <1>2, <1>4, <1>5 DEF Entitled
  \* Grants while no user is deleted.
  <1>6. ASSUME Users \subseteq Users', NEW u \in Ids, NEW g \in grants[u]
        PROVE  BackedIn(u, g)'
    BY <1>0, <1>2, <1>3, <1>6 DEF BackedIn
  <1>7. ASSUME Users \subseteq Users', UNCHANGED grants, \A q \in Requests : Entitled(req[q])'
        PROVE  AllBacked'
    BY <1>0, <1>6, <1>7 DEF AllBacked
  <1>8. ASSUME NEW q \in Requests, Entitled(req[q])',
               \A p \in Requests \ {q} : req'[p] = req[p]
        PROVE  \A p \in Requests : Entitled(req[p])'
    BY <1>5, <1>8
  <1>9. ASSUME NEW q \in Requests, End(q)
        PROVE  \A p \in Requests : Entitled(req[p])'
    BY <1>0, <1>8, <1>9, EndMoves DEF Entitled, Idle
  <1>10. ASSUME NEW q \in Requests, NEW at \in Points \ {"count", "insert", "grant"}, Goto(q, at)
         PROVE  \A p \in Requests : Entitled(req[p])'
    BY <1>0, <1>8, <1>10, GotoMoves DEF Entitled
  <1>11. UNCHANGED email => Users \subseteq Users'
    BY DEF Users
  <1>12. ASSUME NEW q \in Requests, CheckUser(q) \/ IssueSession(q) \/ Fault(q) \/ SetUserRoles(q)
         PROVE  AllBacked'
    <2>1. End(q) \/ \E at \in Points \ {"count", "insert", "grant"} : Goto(q, at)
      BY <1>12 DEF CheckUser, IssueSession, Fault, SetUserRoles, Points
    <2>2. UNCHANGED << email, grants >>
      BY <1>0, <1>12, AccountsAssumption
      DEF CheckUser, IssueSession, Fault, SetUserRoles, TInv, InTransaction, Call, table
    <2> QED
      BY <1>7, <1>9, <1>10, <1>11, <2>1, <2>2
  <1>13. ASSUME NEW q \in Requests, RoleAuth(q)
         PROVE  AllBacked'
    <2>1. End(q) \/ \E at \in Points \ {"count", "insert", "grant"} : Goto(q, at)
      BY <1>0, <1>13 DEF RoleAuth, TInv, InTransaction, Call, FirstPoint, Points
    <2> QED
      BY <1>7, <1>9, <1>10, <1>11, <1>13, <2>1 DEF RoleAuth, table
  <1>14. ASSUME NEW q \in Requests, CountUsers(q)
         PROVE  AllBacked'
    <2>1. req[q].who = Root
      BY <1>0, <1>14 DEF CountUsers, Call, Entitled
    <2>2. \E at \in {"insert", "lookup"} : Goto(q, at)
      BY <1>14 DEF CountUsers
    <2>3. \A p \in Requests : Entitled(req[p])'
      BY <1>0, <1>8, <2>1, <2>2, GotoMoves DEF Entitled, Points
    <2> QED
      BY <1>7, <1>11, <1>14, <2>3 DEF CountUsers, table
  <1>15. ASSUME NEW q \in Requests, CheckEmail(q)
         PROVE  AllBacked'
    <2>1. \/ End(q)
          \/ Goto(q, "insert") /\ req[q].set = {}
          \/ Goto(q, "validate")
      BY <1>15 DEF CheckEmail
    <2>2. \A p \in Requests : Entitled(req[p])'
      BY <1>0, <1>8, <1>9, <1>10, <2>1, GotoMoves DEF Entitled, Points
    <2> QED
      BY <1>7, <1>11, <1>15, <2>2 DEF CheckEmail, table
  <1>16. ASSUME NEW q \in Requests, ValidateRoleGrants(q)
         PROVE  AllBacked'
    <2>1. CASE End(q)
      BY <1>7, <1>9, <1>11, <1>16, <2>1 DEF ValidateRoleGrants, table
    <2>2. CASE ~End(q)
      <3>1. /\ req[q].who # Root => \A r \in req[q].set : Above(grants[req[q].who], r)
            /\ \E at \in {"insert", "begin"} : Goto(q, at)
            /\ UNCHANGED << email, grants >>
        <4>1. /\ req[q].who # Root =>
                   \A r \in req[q].set : CanGrantRole(EffectiveLevel(req[q].who), r)
              /\ \E at \in {"insert", "begin"} : Goto(q, at)
              /\ UNCHANGED << email, grants >>
          BY <1>16, <2>2 DEF ValidateRoleGrants, table
        <4> QED
          BY <1>0, <4>1, StepType, EffectiveLevelIsTheLowest
      <3>2. Entitled(req[q])'
        BY <1>0, <3>1, GotoMoves DEF Entitled, Points
      <3> QED
        BY <1>0, <1>7, <1>8, <1>11, <3>1, <3>2, GotoMoves DEF Points
    <2> QED
      BY <2>1, <2>2
  <1>17. ASSUME NEW q \in Requests, LookupUser(q)
         PROVE  AllBacked'
    <2>1. CASE End(q)
      BY <1>7, <1>9, <1>11, <1>17, <2>1 DEF LookupUser, table
    <2>2. ASSUME NEW u \in Users, req' = [req EXCEPT ![q].at = "cookie", ![q].id = u]
          PROVE  AllBacked'
      <3>1. req'[q].at = "cookie" /\ \A p \in Requests \ {q} : req'[p] = req[p]
        BY <1>0, <2>2, StepType DEF Step, TypeOK
      <3>2. Entitled(req[q])'
        BY <3>1 DEF Entitled
      <3> QED
        BY <1>7, <1>8, <1>11, <1>17, <3>1, <3>2 DEF LookupUser, table
    <2> QED
      BY <1>17, <2>1, <2>2 DEF LookupUser
  <1>18. ASSUME NEW q \in Requests, BootstrapUser(q) \/ CreateUser(q)
         PROVE  AllBacked'
    <2>0. Users \subseteq Users' /\ UNCHANGED grants
      <3>1. CASE UNCHANGED email
        BY <1>11, <1>18, <3>1 DEF BootstrapUser, CreateUser
      <3>2. CASE InsertUserRow(req[q].mail)
        BY <1>0, <1>18, <3>2, StepType, InsertType DEF BootstrapUser, CreateUser, Users
      <3> QED
        BY <1>18, <3>1, <3>2 DEF BootstrapUser, CreateUser
    <2>1. CASE End(q)
      BY <1>7, <1>9, <2>0, <2>1
    <2>2. CASE ~End(q)
      <3>1. \/ req' = [req EXCEPT ![q].at = "owner", ![q].id = next]
            \/ /\ req' = [req EXCEPT ![q] = [@ EXCEPT !.at = "grant", !.id = next]]
               /\ req[q].at = "insert"
        BY <1>0, <1>18, <2>2 DEF BootstrapUser, CreateUser, End, Call
      <3>2. CASE req' = [req EXCEPT ![q].at = "owner", ![q].id = next]
        <4>1. req'[q].at = "owner" /\ \A p \in Requests \ {q} : req'[p] = req[p]
          BY <1>0, <3>2, StepType DEF Step, TypeOK
        <4>2. Entitled(req[q])'
          BY <4>1 DEF Entitled
        <4> QED
          BY <1>7, <1>8, <2>0, <4>1, <4>2
      <3>3. CASE /\ req' = [req EXCEPT ![q] = [@ EXCEPT !.at = "grant", !.id = next]]
                 /\ req[q].at = "insert"
        <4>0. req[q] \in Step
          BY <1>0, StepType
        <4>1. /\ req'[q].at = "grant" /\ req'[q].who = req[q].who /\ req'[q].set = req[q].set
              /\ \A p \in Requests \ {q} : req'[p] = req[p]
          BY <1>0, <3>3, <4>0 DEF Step, TypeOK
        <4>2. Entitled(req[q])'
          BY <1>5, <3>3, <4>1
        <4> QED
          BY <1>7, <1>8, <2>0, <4>1, <4>2
      <3> QED
        BY <3>1, <3>2, <3>3
    <2> QED
      BY <2>1, <2>2
  <1>19. ASSUME NEW q \in Requests, BootstrapRole(q)
         PROVE  AllBacked'
    <2>1. \A u \in Ids : \A g \in grants'[u] : g \in grants[u] \/ g.by = Root
      BY <1>0, <1>19 DEF BootstrapRole, TypeOK
    <2>2. Users \subseteq Users'
      BY <1>11, <1>19 DEF BootstrapRole
    <2>3. \A p \in Requests : Entitled(req[p])'
      BY <1>9, <1>19 DEF BootstrapRole
    <2> QED
      BY <1>0, <1>6, <2>1, <2>2, <2>3 DEF AllBacked, BackedIn
  <1>20. ASSUME NEW q \in Requests, NEW r \in Roles, GrantRole(q, r)
         PROVE  AllBacked'
    <2>0. /\ UNCHANGED email /\ Users \subseteq Users'
          /\ req[q].at = "grant" /\ r \in req[q].set
      BY <1>11, <1>20 DEF GrantRole, Call
    <2>1. CASE UNCHANGED grants /\ End(q)
      BY <1>7, <1>9, <2>0, <2>1
    <2>2. CASE ~(UNCHANGED grants /\ End(q))
      <3>1. /\ req[q].who \in Users \cup {Root}
            /\ grants' = [grants EXCEPT ![req[q].id] =
                            @ \cup {[role |-> r, by |-> req[q].who]}]
            /\ \/ End(q)
               \/ req' = [req EXCEPT ![q] = [@ EXCEPT !.set = req[q].set \ {r}]]
        BY <1>20, <2>2 DEF GrantRole, End
      <3>2. \A u \in Ids : \A g \in grants'[u] :
              g \in grants[u] \/ (g.by = req[q].who /\ g.role = r)
        BY <1>0, <3>1 DEF TypeOK
      <3>3. req[q].who # Root => req[q].who \in Users /\ Above(grants[req[q].who], r)
        BY <1>0, <2>0, <3>1 DEF Entitled
      <3>4. req[q].who # Root => req[q].who \in Users' /\ Above(grants'[req[q].who], r)
        BY <1>2, <1>3, <2>0, <3>3
      <3>5. \A u \in Ids : \A g \in grants'[u] : BackedIn(u, g)'
        BY <1>6, <2>0, <3>2, <3>4 DEF BackedIn
      <3>6. \A p \in Requests : Entitled(req[p])'
        <4>1. CASE End(q)
          BY <1>9, <4>1
        <4>2. CASE req' = [req EXCEPT ![q] = [@ EXCEPT !.set = req[q].set \ {r}]]
          <5>0. req[q] \in Step
            BY <1>0, StepType
          <5>1. /\ req'[q].at = req[q].at /\ req'[q].who = req[q].who
                /\ req'[q].set \subseteq req[q].set
                /\ \A p \in Requests \ {q} : req'[p] = req[p]
            BY <1>0, <4>2, <5>0 DEF Step, TypeOK
          <5> QED
            BY <1>5, <1>8, <5>1
        <4> QED
          BY <3>1, <4>1, <4>2
      <3> QED
        BY <1>0, <3>5, <3>6 DEF AllBacked
    <2> QED
      BY <2>1, <2>2
  \* Whoever granted a role that somebody else holds is not deleted.
  <1>21. ASSUME NEW q \in Requests, DeleteUser(q)
         PROVE  AllBacked'
    <2>0. \A p \in Requests : Entitled(req[p])'
      BY <1>9, <1>21 DEF DeleteUser
    <2>1. CASE UNCHANGED << email, grants >>
      BY <1>7, <1>11, <2>0, <2>1
    <2>2. CASE ~UNCHANGED << email, grants >>
      <3>1. /\ email' = [email EXCEPT ![req[q].id] = Nobody]
            /\ grants' = [grants EXCEPT ![req[q].id] = {}]
            /\ \A v \in Ids \ {req[q].id} : \A g \in grants[v] : g.by # req[q].id
        BY <1>21, <2>2 DEF DeleteUser
      <3>2. \A u \in Ids : \A g \in grants'[u] : g \in grants[u] /\ g.by # req[q].id
        BY <1>0, <3>1 DEF TypeOK
      <3>3. \A u \in Ids : u # req[q].id => email'[u] = email[u] /\ grants'[u] = grants[u]
        BY <1>0, <3>1 DEF TypeOK
      <3>4. \A u \in Ids : \A g \in grants'[u] : BackedIn(u, g)'
        BY <1>0, <3>2, <3>3 DEF BackedIn, Users
      <3> QED
        BY <1>0, <2>0, <3>4 DEF AllBacked
    <2> QED
      BY <2>1, <2>2
  <1>22. ASSUME NEW q \in Requests, NEW who \in Ids \cup {Root}, NEW op, NEW m, NEW id,
                NEW set, op \in {"create", "delete", "roles"},
                Request(q, who, op, m, id, set)
         PROVE  AllBacked'
    <2>1. /\ req'[q].at \in Points \ {"count", "insert", "grant"}
          /\ UNCHANGED << email, grants >>
          /\ \A p \in Requests \ {q} : req'[p] = req[p]
      BY <1>0, <1>22 DEF Request, TypeOK, FirstPoint, Points, table
    <2>2. Entitled(req[q])'
      BY <2>1 DEF Entitled
    <2> QED
      BY <1>7, <1>8, <1>11, <2>1, <2>2
  <1>23. ASSUME NEW q \in Requests, NEW p \in People, Callback(q, p)
         PROVE  AllBacked'
    <2>1. /\ req'[q].who = Root /\ req'[q].at = "count"
          /\ \A r \in Requests \ {q} : req'[r] = req[r]
      BY <1>0, <1>23 DEF Callback, TypeOK, Idle
    <2>2. Entitled(req[q])'
      BY <2>1 DEF Entitled
    <2> QED
      BY <1>7, <1>8, <1>11, <1>23, <2>1, <2>2 DEF Callback, table
  <1>24. CASE (\E p \in People : SessionEnds(p)) \/ UNCHANGED vars
    <2>1. UNCHANGED << email, grants, req >>
      BY <1>24 DEF SessionEnds, vars, table
    <2> QED
      BY <1>5, <1>7, <1>11, <2>1
  <1> QED
    BY <1>12, <1>13, <1>14, <1>15, <1>16, <1>17, <1>18, <1>19, <1>20, <1>21, <1>22,
       <1>23, <1>24
    DEF Next, Login, Manage

\* No role is held that whoever granted it, and is still there, could not grant now,
\* for any number of requests that read levels and write roles at the same time.
THEOREM GrantsStayBacked == Spec => []GrantsAreBacked
  <1>1. Init => AllBacked
    <2>1. Init => OwnersOnly
      BY InitType DEF Init, OwnersOnly, Knows, Idle
    <2> QED
      BY <2>1 DEF Init, AllBacked, Entitled, Idle
  <1>2. AllBacked => GrantsAreBacked
    <2> SUFFICES ASSUME AllBacked, NEW u \in Ids, NEW g \in grants[u]
                 PROVE  /\ u \in Users
                        /\ g.by # Root =>
                             g.by \in Users /\ CanGrantRole(EffectiveLevel(g.by), g.role)
      BY DEF GrantsAreBacked
    <2>1. TypeOK /\ BackedIn(u, g)
      BY DEF AllBacked, OwnersOnly, TInv
    <2>2. g \in Grant /\ u \in Users
      BY <2>1 DEF TypeOK, Users
    <2>3. g.by \in Users => g.by \in Ids
      BY DEF Users
    <2> QED
      BY <2>1, <2>2, <2>3, EffectiveLevelIsTheLowest DEF BackedIn, Grant
  <1> QED
    BY <1>1, <1>2, BackingStays, PTL DEF Spec

-----------------------------------------------------------------------------
(* The transaction that waits for its own connection.                      *)

\* No step takes a role from a user but the deletion of the user: SetUserRoles, the
\* only operation meant to, never writes (models/user.go).
RolesOnlyGrow ==
    [][\A u \in Ids : email'[u] = email[u] => grants[u] \subseteq grants'[u]]_vars

THEOREM RolesAreNotTakenAway == Spec => RolesOnlyGrow
  <1>1. ASSUME TInv, [Next]_vars, NEW u \in Ids, email'[u] = email[u]
        PROVE  grants[u] \subseteq grants'[u]
    <2>1. TypeOK /\ next \in Nat
      BY <1>1, TablesGrow DEF TInv
    <2>2. CASE email[u] = Nobody
      BY <2>1, <2>2 DEF TypeOK
    <2>3. CASE email[u] # Nobody
      <3>1. u < next
        BY <2>1, <2>3 DEF TypeOK, Ids
      <3> QED
        BY <1>1, <2>3, <3>1, TablesGrow
    <2> QED
      BY <2>2, <2>3
  <1>2. TInv /\ [Next]_vars =>
          (\A u \in Ids : email'[u] = email[u] => grants[u] \subseteq grants'[u])
    BY <1>1
  <1> QED
    BY <1>2, InitType, NextType, PTL DEF Spec, RolesOnlyGrow

\* Once a request holds the connection it keeps it, and from then on nothing is
\* written and no request that has begun gets any further, its own included: every
\* call waits for the connection that only the end of SetUserRoles would return.
HangIsForEver ==
    [][/\ conn # Nobody =>
            /\ UNCHANGED << conn, table >>
            /\ \A q \in Requests : req[q].at # "idle" => req'[q] = req[q]
       /\ \A q \in Requests : req[q].at = "clear" => req'[q] = req[q]]_vars

\* With the connection held only what needs no call goes on: requests arrive, and
\* sessions end.
LEMMA OnlyArrivals ==
    ASSUME [Next]_vars, conn # Nobody
    PROVE  \/ UNCHANGED vars
           \/ \E p \in People : SessionEnds(p)
           \/ \E q \in Requests : \E x :
                 /\ req[q].at = "idle" /\ req' = [req EXCEPT ![q] = x]
                 /\ UNCHANGED << table, cookie, conn, faults >>
  <1>1. \A q \in Requests : ~Login(q) /\ ~Manage(q) /\ ~Fault(q)
    BY DEF Login, Manage, Fault, CountUsers, BootstrapUser, BootstrapRole, LookupUser,
           IssueSession, RoleAuth, CheckEmail, ValidateRoleGrants, CreateUser, GrantRole,
           CheckUser, DeleteUser, SetUserRoles, Call
  <1>2. ASSUME NEW q \in Requests, NEW p \in People, Callback(q, p)
        PROVE  \E x : /\ req[q].at = "idle" /\ req' = [req EXCEPT ![q] = x]
                      /\ UNCHANGED << table, cookie, conn, faults >>
    BY <1>2 DEF Callback
  <1>3. ASSUME NEW q \in Requests, NEW who, NEW op, NEW m, NEW id, NEW set,
               Request(q, who, op, m, id, set)
        PROVE  \E x : /\ req[q].at = "idle" /\ req' = [req EXCEPT ![q] = x]
                      /\ UNCHANGED << table, cookie, conn, faults >>
    BY <1>3 DEF Request
  <1> QED
    BY <1>1, <1>2, <1>3 DEF Next

\* The run roles_hang shows one request without an answer; that there is none, for
\* any number of requests and whatever they ask for, is this.
THEOREM ConnectionIsNeverReturned == Spec => HangIsForEver
  <1>1. ASSUME TInv, [Next]_vars, conn # Nobody
        PROVE  /\ UNCHANGED << conn, table >>
               /\ \A q \in Requests : req[q].at # "idle" => req'[q] = req[q]
    <2>1. req \in [Requests -> Step]
      BY <1>1 DEF TInv, TypeOK
    <2>2. CASE UNCHANGED vars \/ \E p \in People : SessionEnds(p)
      BY <2>2 DEF vars, SessionEnds
    <2>3. ASSUME NEW q \in Requests, NEW x, req[q].at = "idle",
                 req' = [req EXCEPT ![q] = x], UNCHANGED << table, cookie, conn, faults >>
          PROVE  /\ UNCHANGED << conn, table >>
                 /\ \A p \in Requests : req[p].at # "idle" => req'[p] = req[p]
      BY <2>1, <2>3
    <2> QED
      BY <1>1, <2>2, <2>3, OnlyArrivals
  <1>2. ASSUME TInv, NEW q \in Requests, req[q].at = "clear"
        PROVE  conn # Nobody
    BY <1>2, AccountsAssumption DEF TInv, InTransaction
  <1>3. TInv /\ [Next]_vars =>
          (/\ conn # Nobody =>
                /\ UNCHANGED << conn, table >>
                /\ \A q \in Requests : req[q].at # "idle" => req'[q] = req[q]
           /\ \A q \in Requests : req[q].at = "clear" => req'[q] = req[q])
    BY <1>1, <1>2
  <1> QED
    BY <1>3, InitType, NextType, PTL DEF Spec, HangIsForEver

=============================================================================
