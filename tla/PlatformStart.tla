--------------------------- MODULE PlatformStart ---------------------------
(***************************************************************************)
(* The start of the platform: upgrade Jobs (`db migrate`, cli/db.go) and   *)
(* servers (cli/server.go), each of which migrates the schema and, a       *)
(* server, then sets up the accounts (auth/service.go BootstrapWithName)   *)
(* before it listens.  Any of them may die at any step, or have a call     *)
(* fail, and is started again by Kubernetes.                               *)
(***************************************************************************)
EXTENDS SchemaMigration

CONSTANTS
  Servers,     \* server processes, by the replica they are
  Jobs,        \* upgrade Jobs
  Deployments, \* bound: the sets of them that may be started together
  Releases,    \* bound: the versions an earlier release may have left
  MaxCrashes   \* bound: deaths and failed calls in a behaviour

ASSUME PlatformAssumption ==
  /\ Processes = Servers \cup Jobs /\ Servers \cap Jobs = {}
  /\ Releases \subseteq 1..schemaVersion

VARIABLES
  phase,      \* what each server, or Job, does
  roles,      \* the roles table, by name (the column is unique)
  admin,      \* the role_id of the first administrator, 0 before the user exists
  next,       \* the role of defaultRoles a server has got to
  own,        \* the ids a bootstrap has given the roles it created
  seen,       \* the roles as a reconciliation listed them
  password,   \* K8S_AI_ADMIN_PASSWORD is set
  crashes

accountVars == <<roles, admin>>
serverVars == <<next, own, seen>>
vars == <<migrationVars, phase, accountVars, serverVars, password, crashes>>

defaultRoles == <<"admin", "user", "operator">>
RoleName == {defaultRoles[i] : i \in 1..Len(defaultRoles)}

(* A row of roles: its id, and whether its permissions are those of this   *)
(* release.                                                                *)
RoleRow == [id : Nat \ {0}, current : BOOLEAN]
NoRole == [id |-> 0, current |-> FALSE]
Missing == [n \in RoleName |-> NoRole]
HasRole(table, n) == table[n] # NoRole

newId == CHOOSE i \in 1..(Len(defaultRoles) + 1) :
           \A n \in RoleName : roles[n].id # i

(* A role an earlier release made; all but the administrator's have since  *)
(* been given other permissions.                                           *)
Numbered(n) == CHOOSE i \in 1..Len(defaultRoles) : defaultRoles[i] = n
OlderRole(n) == [id |-> Numbered(n), current |-> (n = "admin")]

(* The database a release finds: none, or an earlier release's, whose      *)
(* roles may be fewer or permit other things.                              *)
Init ==
  /\ dialect \in Dialects
  /\ \/ versions = {} /\ roles = Missing /\ admin = 0
     \/ /\ \E v \in Releases : versions = 1..v
        /\ \E older \in {{"admin", "user"}, RoleName} :
             roles = [n \in RoleName |->
                        IF n \in older
                        THEN OlderRole(n) ELSE NoRole]
        /\ admin = 1
  /\ schema = UNION {Statements(v) : v \in versions}
  /\ at = [p \in Processes |-> Idle]
  /\ \E present \in Deployments :
       phase = [p \in Processes |-> IF p \in present THEN "down" ELSE "absent"]
  /\ next = [s \in Servers |-> 1]
  /\ own = [s \in Servers |-> Missing]
  /\ seen = [s \in Servers |-> Missing]
  /\ password \in BOOLEAN
  /\ crashes = 0

Enter(p, ph) == phase' = [phase EXCEPT ![p] = ph]

(* The process ends; what it knew is lost with it.                         *)
Exit(p) == Enter(p, "down") /\ at' = [at EXCEPT ![p] = Idle]

(* openPlatformStore; from here the steps of Migrate.                      *)
Open(p) ==
  /\ phase[p] = "down"
  /\ Enter(p, "migrate")
  /\ UNCHANGED <<migrationVars, accountVars, serverVars, password, crashes>>

MigrateStep(p) ==
  /\ phase[p] = "migrate"
  /\ Migrate(p)
  /\ UNCHANGED <<phase, accountVars, serverVars, password, crashes>>

MigrateFailed(p) ==
  /\ phase[p] = "migrate" /\ at[p].step = "failed"
  /\ Exit(p)
  /\ UNCHANGED <<dialect, versions, schema, accountVars, serverVars, password, crashes>>

(* `db migrate` reads the version it has reached and reports it.           *)
JobEnds(j) ==
  /\ phase[j] = "migrate" /\ at[j].step = "done"
  /\ IF IsReady THEN Enter(j, "succeeded") /\ UNCHANGED at ELSE Exit(j)
  /\ UNCHANGED <<dialect, versions, schema, accountVars, serverVars, password, crashes>>

(* BootstrapWithName lists the users: an account there means a platform    *)
(* whose roles are to be brought up to date; none, a first start, which    *)
(* needs the password.                                                     *)
Bootstrap(s) ==
  /\ phase[s] = "migrate" /\ at[s].step = "done"
  /\ IF admin # 0 THEN Enter(s, "list") /\ UNCHANGED at
     ELSE IF password THEN Enter(s, "create") /\ UNCHANGED at
     ELSE Exit(s)
  /\ next' = [next EXCEPT ![s] = 1]
  /\ own' = [own EXCEPT ![s] = Missing]
  /\ UNCHANGED <<dialect, versions, schema, accountVars, seen, password, crashes>>

(* INSERT INTO roles: the name is unique.                                  *)
Insert(table, n, id) ==
  IF HasRole(table, n) THEN table
  ELSE [table EXCEPT ![n] = [id |-> id, current |-> TRUE]]

(* Mutant: a role that is already there is left as it is, and gone on.     *)
AcceptedOrThere(n) == n \in RoleName

Accepted(n) == ~HasRole(roles, n)

(* The first start creates the three roles, one write each.                *)
CreateRole(s) ==
  LET n == defaultRoles[next[s]] IN
  /\ phase[s] = "create" /\ next[s] <= Len(defaultRoles)
  /\ IF Accepted(n)
     THEN /\ roles' = Insert(roles, n, newId)
          /\ own' = [own EXCEPT ![s][n] = [id |-> newId, current |-> TRUE]]
          /\ next' = [next EXCEPT ![s] = @ + 1]
          /\ UNCHANGED <<phase, at>>
     ELSE Exit(s) /\ UNCHANGED <<roles, own, next>>
  /\ UNCHANGED <<dialect, versions, schema, admin, seen, password, crashes>>

(* Then the administrator, with the id it gave the role "admin".  Its name *)
(* is unique too.                                                          *)
CreateAdmin(s) ==
  /\ phase[s] = "create" /\ next[s] > Len(defaultRoles)
  /\ IF admin = 0
     THEN admin' = own[s]["admin"].id /\ Enter(s, "seed") /\ UNCHANGED at
     ELSE Exit(s) /\ UNCHANGED admin
  /\ UNCHANGED <<dialect, versions, schema, roles, serverVars, password, crashes>>

(* reconcileRoles: List, then for each role of defaultRoles a Create if it *)
(* was not listed, an Update by id if its permissions differ.              *)
ListRoles(s) ==
  /\ phase[s] = "list"
  /\ seen' = [seen EXCEPT ![s] = roles]
  /\ Enter(s, "reconcile")
  /\ UNCHANGED <<migrationVars, accountVars, next, own, password, crashes>>

ToNormalize(s, n) == ~seen[s][n].current

ReconcileRole(s) ==
  LET n == defaultRoles[next[s]]
      done == next[s] > Len(defaultRoles)
      clash == ~HasRole(seen[s], n) /\ HasRole(roles, n)
  IN
  /\ phase[s] = "reconcile" /\ ~done
  /\ IF clash THEN Exit(s) /\ UNCHANGED <<roles, next>>
     ELSE /\ roles' = IF ~HasRole(seen[s], n) THEN Insert(roles, n, newId)
                      ELSE IF ToNormalize(s, n) THEN [roles EXCEPT ![n].current = TRUE]
                      ELSE roles
          /\ next' = [next EXCEPT ![s] = @ + 1]
          /\ UNCHANGED <<phase, at>>
  /\ UNCHANGED <<dialect, versions, schema, admin, own, seen, password, crashes>>

Reconciled(s) ==
  /\ phase[s] = "reconcile" /\ next[s] > Len(defaultRoles)
  /\ Enter(s, "seed")
  /\ UNCHANGED <<migrationVars, accountVars, serverVars, password, crashes>>

(* Built-in skills, the services, the handlers; then it listens.           *)
Serve(s) ==
  /\ phase[s] = "seed"
  /\ Enter(s, "serving")
  /\ UNCHANGED <<migrationVars, accountVars, serverVars, password, crashes>>

(* A process is killed, or a call of it fails.  Its transaction goes with  *)
(* it; what MySQL, or another statement, has committed stays.              *)
Crash(p) ==
  /\ phase[p] \notin {"absent", "down", "succeeded"} /\ crashes < MaxCrashes
  /\ Exit(p)
  /\ crashes' = crashes + 1
  /\ UNCHANGED <<dialect, versions, schema, accountVars, serverVars, password>>

(* The operator may set the variable the first start asks for.             *)
SetPassword ==
  /\ ~password /\ password' = TRUE
  /\ UNCHANGED <<migrationVars, phase, accountVars, serverVars, crashes>>

ServerStep(s) ==
  \/ Open(s) \/ MigrateStep(s) \/ MigrateFailed(s) \/ Bootstrap(s)
  \/ CreateRole(s) \/ CreateAdmin(s)
  \/ ListRoles(s) \/ ReconcileRole(s) \/ Reconciled(s) \/ Serve(s)

JobStep(j) == Open(j) \/ MigrateStep(j) \/ MigrateFailed(j) \/ JobEnds(j)

Next ==
  \/ \E s \in Servers : ServerStep(s) \/ Crash(s)
  \/ \E j \in Jobs : JobStep(j) \/ Crash(j)
  \/ SetPassword

(* Kubernetes restarts what ended, and a process that runs gets on.        *)
Fairness == \A s \in Servers : WF_vars(ServerStep(s))

Spec == Init /\ [][Next]_vars /\ Fairness
-----------------------------------------------------------------------------
TypeOK ==
  /\ dialect \in Dialects
  /\ versions \subseteq 1..schemaVersion /\ schema \subseteq Whole
  /\ phase \in [Processes -> {"absent", "down", "migrate", "succeeded", "create", "list",
                              "reconcile", "seed", "serving"}]
  /\ roles \in [RoleName -> RoleRow \cup {NoRole}] /\ admin \in Nat
  /\ next \in [Servers -> 1..(Len(defaultRoles) + 1)]
  /\ own \in [Servers -> [RoleName -> RoleRow \cup {NoRole}]]
  /\ seen \in [Servers -> [RoleName -> RoleRow \cup {NoRole}]]
  /\ password \in BOOLEAN /\ crashes \in 0..MaxCrashes

(* What /readyz and the Job's success are read from, the highest version   *)
(* recorded, can be trusted: once it is the last, every statement of every *)
(* version has taken effect, whoever ran or died running them.             *)
ReadyIsWhole == IsReady => schema = Whole

(* A server that listens has the whole schema under it, the three roles    *)
(* with this release's permissions, and an administrator who is one: the   *)
(* role_id of that user is the id of the role "admin".                     *)
ServingIsComplete ==
  \A s \in Servers : phase[s] = "serving" =>
    /\ IsReady
    /\ \A n \in RoleName : roles[n] # NoRole /\ roles[n].current
    /\ admin = roles["admin"].id

(* A first start that died between its first role and its user.            *)
HalfBootstrapped ==
  /\ admin = 0 /\ roles # Missing
  /\ \A s \in Servers : phase[s] # "create" \/ own[s] = Missing

(* Every server comes to serve, for good, however many processes died or   *)
(* clashed on the way: a start is refused for ever in two cases only, no   *)
(* password for a first start and a bootstrap cut short.                   *)
ServerServes ==
  \/ \A s \in Servers : phase[s] # "absent" => <>[](phase[s] = "serving")
  \/ <>[]HalfBootstrapped
  \/ <>[](admin = 0 /\ ~password)
=============================================================================
