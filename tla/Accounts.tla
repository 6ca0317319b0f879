------------------------------ MODULE Accounts ------------------------------
(***************************************************************************)
(* Users, logins and the gate every API request passes (internal/auth,     *)
(* internal/permission, internal/server permission.go and users.go).       *)
(* Logins live in the process; rows of users are read whole and written    *)
(* whole, by requests that overlap.                                        *)
(***************************************************************************)
EXTENDS Naturals, FiniteSets

CONSTANTS
  Users,      \* ids a user may have, one for each user name
  Builtin,    \* the id of the user named "admin", if there is one
  Starts,     \* bound: the users there are at first, with their roles
  LoggedIn,   \* bound: who holds which token at first
  Callers,    \* requests that may be in flight together
  Tokens,     \* login tokens that may be issued
  MaxRequests \* bound: requests begun, logins included

Roles == {"admin", "operator"}
NoUser == [role |-> "none", active |-> FALSE, password |-> 0]
None == "none"

ASSUME AccountsAssumption ==
  /\ None \notin Users \cup Tokens
  /\ \A p \in Starts : DOMAIN p \subseteq Users /\ \A u \in DOMAIN p : p[u] \in Roles

(* The first administrator has the name "admin", which is the default of   *)
(* platform.auth.admin_username; under another name no rule protects him.  *)
AdministratorIsNamed ==
  \A p \in Starts : Builtin \in DOMAIN p /\ p[Builtin] = "admin"

VARIABLES
  users,    \* the users table
  ever,     \* ids that have been given out
  tokens,   \* the process's map of tokens: the user, and whether in its TTL
  req,      \* each caller's request
  held,     \* history: what a request's caller has held since it began:
            \* its login, the administrator's role
  requests

accountVars == <<users, ever>>
gateVars == <<tokens, req, requests>>

Exists(u) == users[u] # NoUser

NoToken == [user |-> None, live |-> FALSE]
NoReq == [pc |-> "idle", token |-> None, user |-> None, op |-> None,
          target |-> None, row |-> NoUser, want |-> NoUser]
NoneHeld == [login |-> FALSE, role |-> FALSE]

AccountsInit ==
  /\ \E p \in Starts :
       /\ users = [u \in Users |-> IF u \in DOMAIN p
                                   THEN [role |-> p[u], active |-> TRUE, password |-> 1]
                                   ELSE NoUser]
       /\ ever = DOMAIN p
       /\ tokens = [t \in Tokens |->
                      IF t \in DOMAIN LoggedIn /\ LoggedIn[t] \in DOMAIN p
                      THEN [user |-> LoggedIn[t], live |-> TRUE] ELSE NoToken]
  /\ req = [c \in Callers |-> NoReq] /\ held = [c \in Callers |-> NoneHeld]
  /\ requests = 0

(* Every step lets the history see what it leaves.                         *)
Observe ==
  held' = [c \in Callers |->
    LET r == req'[c] IN
    IF r.pc = "idle" THEN NoneHeld
    ELSE LET u == IF r.token = None THEN None ELSE tokens'[r.token].user
             user == IF r.user = None THEN u ELSE r.user
         IN  [login |-> held[c].login \/ (u # None /\ tokens'[r.token].live),
              role |-> held[c].role \/ (user # None /\ users'[user].role = "admin")]]

Begin(c, r) == /\ req[c].pc = "idle" /\ requests < MaxRequests
               /\ requests' = requests + 1 /\ req' = [req EXCEPT ![c] = r]
Answer(c) == req' = [req EXCEPT ![c] = NoReq]

---------------------------------------------------------------------------
(* Logins.                                                                 *)

(* Authenticate: an account that is not active, or another password, is    *)
(* one refusal.                                                            *)
Authenticate(c, u, password) ==
  /\ Begin(c, IF Exists(u) /\ users[u].active /\ users[u].password = password
              THEN [NoReq EXCEPT !.pc = "login", !.user = u] ELSE NoReq)
  /\ UNCHANGED <<accountVars, tokens>>

Login(c) ==
  /\ req[c].pc = "login"
  /\ \E t \in Tokens : /\ tokens[t] = NoToken
                       /\ tokens' = [tokens EXCEPT ![t] = [user |-> req[c].user, live |-> TRUE]]
  /\ Answer(c) /\ UNCHANGED <<accountVars, requests>>

(* SessionTTL passes: the entry stays until it is next looked up.          *)
Lapse(t) ==
  /\ tokens[t].live /\ tokens' = [tokens EXCEPT ![t].live = FALSE]
  /\ UNCHANGED <<accountVars, req, requests>>

(* The process ends: what is in memory is gone.                            *)
Restart ==
  /\ tokens # [t \in Tokens |-> NoToken]
  /\ tokens' = [t \in Tokens |-> NoToken] /\ req' = [c \in Callers |-> NoReq]
  /\ UNCHANGED <<accountVars, requests>>

---------------------------------------------------------------------------
(* The gate: the token, the user's row, the role's permissions.            *)

Arrive(c, t, op) ==
  /\ tokens[t] # NoToken
  /\ Begin(c, [NoReq EXCEPT !.pc = "token", !.token = t, !.op = op])
  /\ UNCHANGED <<accountVars, tokens>>

LookUpToken(c) ==
  /\ req[c].pc = "token"
  /\ LET t == req[c].token
     IN  IF tokens[t].live
         THEN /\ req' = [req EXCEPT ![c].pc = "user", ![c].user = tokens[t].user]
              /\ UNCHANGED tokens
         ELSE Answer(c) /\ tokens' = [tokens EXCEPT ![t] = NoToken]
  /\ UNCHANGED <<accountVars, requests>>

Authenticated == {"changePassword", "logout", "scope"}  \* routes for any login

Has(role, op) == role = "admin" \/ op \in Authenticated

(* Mutant: who has logged in may do what an administrator may. *)
GateUserLoggedIn(c) ==
  /\ req[c].pc = "user"
  /\ IF Exists(req[c].user)
     THEN req' = [req EXCEPT ![c].pc = req[c].op, ![c].row = users[req[c].user]]
     ELSE Answer(c)
  /\ UNCHANGED <<accountVars, tokens, requests>>

(* Whether the account is still active is not asked.                       *)
permissionGate(c) ==
  /\ req[c].pc = "user"
  /\ IF Exists(req[c].user) /\ Has(users[req[c].user].role, req[c].op)
     THEN req' = [req EXCEPT ![c].pc = req[c].op, ![c].row = users[req[c].user]]
     ELSE Answer(c)
  /\ UNCHANGED <<accountVars, tokens, requests>>

Logout(c) ==
  /\ req[c].pc = "logout"
  /\ tokens' = [tokens EXCEPT ![req[c].token] = NoToken]
  /\ Answer(c) /\ UNCHANGED <<accountVars, requests>>

---------------------------------------------------------------------------
(* User management.                                                        *)

CreateUser(c) ==
  /\ req[c].pc = "createUser"
  /\ \/ \E u \in Users \ ever, role \in Roles, active \in BOOLEAN :
          /\ users' = [users EXCEPT ![u] = [role |-> role, active |-> active, password |-> 1]]
          /\ ever' = ever \cup {u}
     \/ UNCHANGED accountVars          \* the name is taken, the request invalid
  /\ Answer(c) /\ UNCHANGED <<tokens, requests>>

(* What an administrator may want a user's row to say. *)
Changes == [role : Roles, active : BOOLEAN, password : {1, 2}]

(* Nobody disables himself, or asks for himself for another role than the  *)
(* one he had at the gate.                                                 *)
SelfAllowed(c, u, row, want) == req[c].user = u =>
  /\ want.active \/ row.active = want.active
  /\ want.role \in {row.role, req[c].row.role}

(* Mutant: the built-in account is protected from others only by the rule  *)
(* about oneself. *)
UnprotectedAllowed(u, row, want) == TRUE

(* Nobody disables or demotes the user named "admin".                      *)
BuiltinAllowed(u, row, want) == u = Builtin =>
  /\ want.active \/ row.active = want.active
  /\ want.role \in {row.role, "admin"}

(* UpdateUser reads the row, changes what is asked, and holds it until it  *)
(* is written back whole.                                                  *)
ReadToUpdate(c) ==
  /\ req[c].pc = "updateUser"
  /\ \E u \in ever :
       IF ~Exists(u) THEN Answer(c)
       ELSE \E want \in Changes :
              IF SelfAllowed(c, u, users[u], want) /\ BuiltinAllowed(u, users[u], want)
              THEN req' = [req EXCEPT ![c].pc = "write", ![c].target = u, ![c].want = want]
              ELSE Answer(c)
  /\ UNCHANGED <<accountVars, tokens, requests>>

(* ChangePassword likewise, for the caller, who knows the old password.    *)
ReadToChange(c) ==
  /\ req[c].pc = "changePassword"
  /\ LET u == req[c].user
     IN  IF ~Exists(u) THEN Answer(c)
         ELSE \/ req' = [req EXCEPT ![c].pc = "write", ![c].target = u,
                                    ![c].want = [users[u] EXCEPT !.password = 3 - @]]
              \/ Answer(c)
  /\ UNCHANGED <<accountVars, tokens, requests>>

(* UPDATE touches a row that is there.                                     *)
WriteUser(c) ==
  /\ req[c].pc = "write"
  /\ LET u == req[c].target
     IN  users' = [users EXCEPT ![u] = IF Exists(u) THEN req[c].want ELSE NoUser]
  /\ Answer(c) /\ UNCHANGED <<ever, tokens, requests>>

DeleteUser(c) ==
  /\ req[c].pc = "deleteUser"
  /\ \E u \in ever :
       IF Exists(u) /\ u # Builtin /\ u # req[c].user
       THEN users' = [users EXCEPT ![u] = NoUser] ELSE UNCHANGED users
  /\ Answer(c) /\ UNCHANGED <<ever, tokens, requests>>

UserOps == {"createUser", "updateUser", "deleteUser", "changePassword", "logout"}

Gate(c) == LookUpToken(c) \/ permissionGate(c)
UserStep(c) ==
  \/ Logout(c) \/ CreateUser(c) \/ ReadToUpdate(c) \/ ReadToChange(c)
  \/ WriteUser(c) \/ DeleteUser(c)

---------------------------------------------------------------------------
(* There is always an active administrator, where the first one has the    *)
(* name "admin" (AdministratorIsNamed): no interleaving of updates,        *)
(* deletions and password changes written back late leaves none.           *)
AdminRemains == \E u \in Users : users[u].role = "admin" /\ users[u].active

(* A request that is past the gate came with a login that was good, and    *)
(* (but for the routes open to every login) for a user who was an          *)
(* administrator, at a moment since the request began.                     *)
ActsWithAuthority ==
  \A c \in Callers : req[c].pc \notin {"idle", "login", "token", "user"} =>
    /\ held[c].login
    /\ req[c].op \in Authenticated \/ held[c].role
=============================================================================
