------------------------ MODULE PlatformStart_proofs ------------------------
(***************************************************************************)
(* What a start leaves behind, for any servers, Jobs, earlier releases and *)
(* number of deaths.  The inductive invariant has two halves: Ordered says *)
(* that versions are recorded from the first on, each after its            *)
(* statements, whoever ran them; Accounts, that what a server has set up   *)
(* so far stays set up while it goes on with the next role.                *)
(***************************************************************************)
EXTENDS PlatformStart, TLAPS

Phases == {"absent", "down", "migrate", "succeeded", "create", "list",
           "reconcile", "seed", "serving"}

(* Where a process stands in Migrate, and what that place implies of the   *)
(* versions recorded, vs, and the statements that have taken effect, sc.   *)
Standing(place, vs, sc) ==
  \/ place.step \in {"idle", "failed"}
  \/ /\ place.step = "done" /\ vs = 1..schemaVersion
  \/ /\ place.step = "check" /\ place.v \in 1..(schemaVersion + 1)
     /\ 1..(place.v - 1) \subseteq vs
  \/ /\ place.step = "up" /\ place.v \in 1..schemaVersion
     /\ 1..(place.v - 1) \subseteq vs
     /\ place.k \in 1..Len(migrations[place.v])
     /\ \A j \in 1..(place.k - 1) : <<place.v, j>> \in sc
  \/ /\ place.step = "record" /\ place.v \in 1..schemaVersion
     /\ 1..(place.v - 1) \subseteq vs
     /\ Statements(place.v) \subseteq sc

Prefix == \E n \in 0..schemaVersion : versions = 1..n

Applied == \A v \in versions : Statements(v) \subseteq schema

Ordered ==
  /\ Prefix /\ Applied /\ schema \subseteq Whole
  /\ \A p \in Processes : Standing(at[p], versions, schema)

Shaped ==
  /\ DOMAIN at = Processes
  /\ phase \in [Processes -> Phases]
  /\ roles \in [RoleName -> RoleRow \cup {NoRole}]
  /\ own \in [Servers -> [RoleName -> RoleRow \cup {NoRole}]]
  /\ seen \in [Servers -> [RoleName -> RoleRow \cup {NoRole}]]
  /\ next \in [Servers -> 1..4]

UpToDate(n) == HasRole(roles, n) /\ roles[n].current

(* What each server has done to the accounts so far.                       *)
Rooted == admin # 0 => HasRole(roles, "admin") /\ admin = roles["admin"].id

Progress(s) ==
  /\ phase[s] \in {"create", "list", "reconcile", "seed", "serving"} => versions = 1..schemaVersion
  /\ phase[s] = "create" =>
       \A i \in 1..(next[s] - 1) :
         UpToDate(defaultRoles[i]) /\ own[s][defaultRoles[i]].id = roles[defaultRoles[i]].id
  /\ phase[s] \in {"list", "reconcile", "seed", "serving"} => admin # 0
  /\ phase[s] = "list" => next[s] = 1
  /\ phase[s] = "reconcile" =>
       /\ \A n \in RoleName : HasRole(seen[s], n) =>
            HasRole(roles, n) /\ (seen[s][n].current => roles[n].current)
       /\ \A i \in 1..(next[s] - 1) : UpToDate(defaultRoles[i])
  /\ phase[s] \in {"seed", "serving"} => \A n \in RoleName : UpToDate(n)

Accounts == Rooted /\ \A s \in Servers : Progress(s)

IInv == Shaped /\ Ordered /\ Accounts
-----------------------------------------------------------------------------
(* The plan has eight versions of at least one statement each.             *)
LEMMA Plan ==
  /\ schemaVersion = 8
  /\ \A v \in 1..schemaVersion : Len(migrations[v]) \in Nat \ {0}
<1>1. schemaVersion = 8
  BY DEF schemaVersion, migrations
<1>2. ASSUME NEW v \in 1..8 PROVE Len(migrations[v]) \in Nat \ {0}
  <2>1. CASE v = 1
    BY <2>1 DEF migrations, migrateV1
  <2>2. CASE v = 2
    BY <2>2 DEF migrations, migrateV2
  <2>3. CASE v = 3
    BY <2>3 DEF migrations, migrateV3
  <2>4. CASE v = 4
    BY <2>4 DEF migrations, migrateV4
  <2>5. CASE v = 5
    BY <2>5 DEF migrations, migrateV5
  <2>6. CASE v = 6
    BY <2>6 DEF migrations, migrateV6
  <2>7. CASE v = 7
    BY <2>7 DEF migrations, migrateV7
  <2>8. CASE v = 8
    BY <2>8 DEF migrations, migrateV8
  <2>q. QED
    BY <1>2, <2>1, <2>2, <2>3, <2>4, <2>5, <2>6, <2>7, <2>8
<1>q. QED
  BY <1>1, <1>2

LEMMA Size == schemaVersion = 8
  BY Plan

(* A place in the list with everything before it recorded.                 *)
LEMMA Reached ==
  ASSUME NEW v \in 1..(schemaVersion + 1), NEW vs, 1..(v - 1) \subseteq vs,
         vs \subseteq 1..schemaVersion
  PROVE  /\ v > schemaVersion => vs = 1..schemaVersion
         /\ v \in vs => v + 1 \in 1..(schemaVersion + 1) /\ 1..((v + 1) - 1) \subseteq vs
         /\ ~(v > schemaVersion) => v \in 1..schemaVersion
<1>1. v > 8 => v - 1 = 8
  BY Size
<1>2. v + 1 - 1 = v /\ 1..v = 1..(v - 1) \cup {v}
  BY Size
<1>3. v > schemaVersion => vs = 1..schemaVersion
  BY <1>1, Size
<1>4. v \in vs => v + 1 \in 1..(schemaVersion + 1) /\ 1..((v + 1) - 1) \subseteq vs
  BY <1>2, Size
<1>5. ~(v > schemaVersion) => v \in 1..schemaVersion
  BY Size
<1>q. QED
  BY <1>3, <1>4, <1>5

LEMMA NextOfPrefix ==
  ASSUME NEW v \in 1..schemaVersion, NEW n \in 0..schemaVersion,
         1..(v - 1) \subseteq 1..n, v \notin 1..n
  PROVE  /\ (1..n) \cup {v} = 1..v
         /\ v + 1 \in 1..(schemaVersion + 1) /\ 1..((v + 1) - 1) \subseteq 1..v
<1>1. n < v
  BY Size
<1>2. v - 1 <= n
  <2>1. CASE v = 1
    BY <2>1, Size
  <2>2. CASE v # 1
    <3>1. v - 1 \in 1..(v - 1)
      BY <2>2, Size
    <3>q. QED
      BY <3>1, Size
  <2>q. QED
    BY <2>1, <2>2
<1>3. n = v - 1
  BY <1>1, <1>2, Size
<1>q. QED
  BY <1>3, Size

LEMMA Names ==
  /\ Len(defaultRoles) = 3
  /\ defaultRoles[1] = "admin" /\ defaultRoles[2] = "user" /\ defaultRoles[3] = "operator"
  /\ RoleName = {"admin", "user", "operator"}
<1>1. /\ Len(defaultRoles) = 3
      /\ defaultRoles[1] = "admin" /\ defaultRoles[2] = "user" /\ defaultRoles[3] = "operator"
  BY DEF defaultRoles
<1>2. 1..Len(defaultRoles) = {1, 2, 3}
  BY <1>1
<1>3. RoleName = {"admin", "user", "operator"}
  BY <1>1, <1>2 DEF RoleName
<1>q. QED
  BY <1>1, <1>3

(* The number read as the state of the schema is that of the prefix.       *)
LEMMA StatusOfPrefix ==
  ASSUME NEW n \in 0..schemaVersion, versions = 1..n
  PROVE  MigrationStatus = n
<1>1. CASE n = 0
  BY <1>1, Plan DEF MigrationStatus
<1>2. CASE n # 0
  <2>1. n \in versions /\ \A w \in versions : w <= n
    BY <1>2, Plan
  <2> DEFINE Highest == CHOOSE v \in versions : \A w \in versions : w <= v
  <2>2. Highest \in versions /\ \A w \in versions : w <= Highest
    BY <2>1
  <2>3. versions # {}
    BY <2>1
  <2>4. MigrationStatus = Highest
    BY <2>3 DEF MigrationStatus
  <2>5. n <= Highest /\ Highest <= n /\ Highest \in Nat
    BY <2>1, <2>2, Plan
  <2> HIDE DEF Highest
  <2>q. QED
    BY <2>4, <2>5, Plan
<1>q. QED
  BY <1>1, <1>2

LEMMA WholeIsApplied ==
  ASSUME Applied, schema \subseteq Whole, versions = 1..schemaVersion
  PROVE  schema = Whole
  BY DEF Applied, Whole
-----------------------------------------------------------------------------
LEMMA Start == Init => IInv
<1> SUFFICES ASSUME Init PROVE IInv
  OBVIOUS
<1>1. Shaped
  <2>1. \A i \in 1..3 : [id |-> i, current |-> TRUE] \in RoleRow /\ [id |-> i, current |-> FALSE] \in RoleRow
    BY DEF RoleRow
  <2>2. Missing \in [RoleName -> RoleRow \cup {NoRole}]
    BY DEF Missing
  <2>3. roles \in [RoleName -> RoleRow \cup {NoRole}]
    <3>1. CASE roles = Missing
      BY <3>1, <2>2
    <3>2. CASE \E older \in {{"admin", "user"}, RoleName} :
             roles = [n \in RoleName |->
                        IF n \in older
                        THEN OlderRole(n) ELSE NoRole]
      <4>1. \A n \in RoleName : Numbered(n) \in Nat \ {0}
        BY Names DEF Numbered
      <4>2. \A n \in RoleName : OlderRole(n) \in RoleRow
        BY <4>1 DEF RoleRow, OlderRole
      <4>q. QED
        BY <3>2, <4>2
    <3>q. QED
      BY <3>1, <3>2 DEF Init
  <2>4. next \in [Servers -> 1..4]
    BY DEF Init
  <2>5. phase \in [Processes -> Phases]
    BY DEF Init, Phases
  <2>q. QED
    BY <2>2, <2>3, <2>4, <2>5 DEF Init, Shaped
<1>2. Ordered
  <2>1. Prefix
    <3>1. CASE versions = {}
      <4>1. versions = 1..0
        BY <3>1
      <4>q. QED
        BY <4>1, Plan DEF Prefix
    <3>2. CASE \E v \in Releases : versions = 1..v
      <4>1. PICK v \in Releases : versions = 1..v
        BY <3>2
      <4>2. v \in 0..schemaVersion
        BY PlatformAssumption, Plan
      <4>q. QED
        BY <4>1, <4>2 DEF Prefix
    <3>q. QED
      BY <3>1, <3>2 DEF Init
  <2>2. versions \subseteq 1..schemaVersion
    BY <2>1, Plan DEF Prefix
  <2>3. schema = UNION {Statements(v) : v \in versions}
    BY DEF Init
  <2>4. Applied /\ schema \subseteq Whole
    BY <2>2, <2>3 DEF Applied, Whole
  <2>5. \A p \in Processes : Standing(at[p], versions, schema)
    BY DEF Init, Standing, Idle, At
  <2>q. QED
    BY <2>1, <2>4, <2>5 DEF Ordered
<1>3. Accounts
  <2>1. Rooted
    <3>1. CASE admin = 0
      BY <3>1 DEF Rooted
    <3>2. CASE /\ admin = 1
               /\ \E older \in {{"admin", "user"}, RoleName} :
                    roles = [n \in RoleName |->
                               IF n \in older
                               THEN OlderRole(n) ELSE NoRole]
      <4>1. Numbered("admin") = 1
        BY Names DEF Numbered
      <4>2. roles["admin"] = [id |-> 1, current |-> TRUE]
        BY <3>2, <4>1, Names DEF OlderRole
      <4>q. QED
        BY <3>2, <4>2 DEF Rooted, HasRole, NoRole
    <3>q. QED
      BY <3>1, <3>2 DEF Init
  <2>2. \A s \in Servers : phase[s] \in {"down", "absent"}
    BY PlatformAssumption DEF Init
  <2>q. QED
    BY <2>1, <2>2 DEF Accounts, Progress
<1>q. QED
  BY <1>1, <1>2, <1>3 DEF IInv
-----------------------------------------------------------------------------
(* What a place implies stays true as rows and statements are added.       *)
LEMMA StandingGrows ==
  ASSUME NEW place, NEW vs, NEW sc, NEW vs2, NEW sc2,
         Standing(place, vs, sc), vs \subseteq vs2, sc \subseteq sc2,
         vs2 \subseteq 1..schemaVersion
  PROVE  Standing(place, vs2, sc2)
<1>1. vs = 1..schemaVersion => vs2 = 1..schemaVersion
  OBVIOUS
<1>q. QED
  BY <1>1 DEF Standing

LEMMA PrefixBounds ==
  ASSUME Prefix PROVE versions \subseteq 1..schemaVersion
  BY Plan DEF Prefix

(* One process moves, and what is recorded grows or stays.                 *)
LEMMA OrderedByMove ==
  ASSUME Ordered, DOMAIN at = Processes, NEW p \in Processes, NEW place,
         at' = [at EXCEPT ![p] = place],
         versions \subseteq versions', schema \subseteq schema',
         Prefix', Applied', (schema \subseteq Whole)',
         Standing(place, versions', schema')
  PROVE  Ordered'
<1>1. versions' \subseteq 1..schemaVersion
  BY Plan DEF Prefix
<1>2. ASSUME NEW q \in Processes PROVE Standing(at'[q], versions', schema')
  <2>1. CASE q = p
    BY <2>1
  <2>2. CASE q # p
    <3>1. at'[q] = at[q] /\ Standing(at[q], versions, schema)
      BY <2>2 DEF Ordered
    <3>2. Standing(at[q], versions', schema')
      BY <3>1, <1>1, StandingGrows
    <3>q. QED
      BY <3>1, <3>2
  <2>q. QED
    BY <2>1, <2>2
<1>q. QED
  BY <1>2 DEF Ordered

LEMMA MigrateKeepsOrder ==
  ASSUME Ordered, DOMAIN at = Processes, NEW p \in Processes, Migrate(p)
  PROVE  Ordered' /\ DOMAIN at' = Processes /\ versions \subseteq versions'
<1> DEFINE v == at[p].v
           k == at[p].k
<1>1. Standing(at[p], versions, schema) /\ Prefix /\ Applied /\ schema \subseteq Whole
  BY DEF Ordered
<1>2. versions \subseteq 1..schemaVersion
  BY <1>1, PrefixBounds
<1>3. CASE MigrateAtOnce(p)
  <2>1. versions' = 1..schemaVersion /\ schema' = Whole /\ at' = [at EXCEPT ![p] = At("done", 0, 0)]
    BY <1>3 DEF MigrateAtOnce, Move
  <2>2. Prefix' /\ Applied' /\ (schema \subseteq Whole)'
    BY <2>1, Plan DEF Prefix, Applied, Whole
  <2>3. Standing(At("done", 0, 0), versions', schema')
    BY <2>1 DEF Standing, At
  <2>q. QED
    BY <1>1, <1>2, <2>1, <2>2, <2>3, OrderedByMove
<1>4. CASE BeginMigrate(p)
  <2>1. UNCHANGED <<versions, schema>> /\ at' = [at EXCEPT ![p] = At("check", 1, 0)]
    BY <1>4 DEF BeginMigrate, Move
  <2>2. Standing(At("check", 1, 0), versions', schema')
    BY Plan DEF Standing, At
  <2>3. Prefix' /\ Applied' /\ (schema \subseteq Whole)'
    BY <1>1, <2>1 DEF Prefix, Applied
  <2>q. QED
    BY <2>1, <2>2, <2>3, OrderedByMove
<1>5. CASE Check(p)
  <2> DEFINE place == IF v > schemaVersion THEN At("done", 0, 0)
                      ELSE IF Needed(v) THEN At("up", v, 1)
                      ELSE At("check", v + 1, 0)
  <2>1. UNCHANGED <<versions, schema>> /\ at' = [at EXCEPT ![p] = place] /\ at[p].step = "check"
    BY <1>5 DEF Check, Move
  <2>2. v \in 1..(schemaVersion + 1) /\ 1..(v - 1) \subseteq versions
    BY <1>1, <2>1 DEF Standing
  <2> HIDE DEF v
  <2>3. Standing(place, versions, schema)
    <3>1. CASE v > schemaVersion
      <4>1. versions = 1..schemaVersion
        BY <3>1, <2>2, <1>2, Reached
      <4>q. QED
        BY <3>1, <4>1 DEF Standing, At
    <3>2. CASE ~(v > schemaVersion) /\ Needed(v)
      <4>1. v \in 1..schemaVersion /\ 1 \in 1..Len(migrations[v])
        <5>1. v \in 1..schemaVersion
          BY <3>2, <2>2, <1>2, Reached
        <5>q. QED
          BY <5>1, Plan
      <4>q. QED
        BY <3>2, <4>1, <2>2 DEF Standing, At
    <3>3. CASE ~(v > schemaVersion) /\ ~Needed(v)
      <4>1. v \in versions /\ v + 1 \in 1..(schemaVersion + 1)
        BY <3>3, <2>2, <1>2, Reached DEF Needed
      <4>2. 1..((v + 1) - 1) \subseteq versions
        BY <4>1, <2>2, <1>2, Reached
      <4>q. QED
        BY <3>3, <4>1, <4>2 DEF Standing, At
    <3>q. QED
      BY <3>1, <3>2, <3>3
  <2>4. Prefix' /\ Applied' /\ (schema \subseteq Whole)'
    BY <1>1, <2>1 DEF Prefix, Applied
  <2> HIDE DEF place
  <2>q. QED
    BY <2>1, <2>3, <2>4, OrderedByMove
<1>6. CASE Execute(p)
  <2>1. at[p].step = "up" /\ versions' = versions
    BY <1>6 DEF Execute
  <2>2. /\ v \in 1..schemaVersion /\ 1..(v - 1) \subseteq versions
        /\ k \in 1..Len(migrations[v]) /\ \A j \in 1..(k - 1) : <<v, j>> \in schema
        /\ Len(migrations[v]) \in Nat \ {0}
    BY <1>1, <2>1, Plan DEF Standing
  <2>3. CASE ~Succeeds(v, k)
    <3>1. schema' = schema /\ at' = [at EXCEPT ![p] = At("failed", 0, 0)]
      BY <1>6, <2>3 DEF Execute, Move
    <3>2. Standing(At("failed", 0, 0), versions', schema')
      BY DEF Standing, At
    <3>3. Prefix' /\ Applied' /\ (schema \subseteq Whole)'
      BY <1>1, <2>1, <3>1 DEF Prefix, Applied
    <3>q. QED
      BY <2>1, <3>1, <3>2, <3>3, OrderedByMove
  <2>4. CASE Succeeds(v, k)
    <3> DEFINE place == IF k = Len(migrations[v]) THEN At("record", v, 0) ELSE At("up", v, k + 1)
    <3>1. schema' = schema \cup {<<v, k>>} /\ at' = [at EXCEPT ![p] = place]
      BY <1>6, <2>4 DEF Execute, Move
    <3>2. \A j \in 1..k : <<v, j>> \in schema'
      BY <2>2, <3>1
    <3>3. Standing(place, versions', schema')
      <4>1. CASE k = Len(migrations[v])
        <5>1. Statements(v) \subseteq schema'
          BY <4>1, <3>2 DEF Statements
        <5>q. QED
          BY <4>1, <5>1, <2>1, <2>2 DEF Standing, At
      <4>2. CASE k # Len(migrations[v])
        <5>1. k + 1 \in 1..Len(migrations[v]) /\ (k + 1) - 1 = k
          BY <4>2, <2>2
        <5>q. QED
          BY <4>2, <5>1, <3>2, <2>1, <2>2 DEF Standing, At
      <4>q. QED
        BY <4>1, <4>2
    <3>4. <<v, k>> \in Whole
      BY <2>2 DEF Whole, Statements
    <3>5. Prefix' /\ Applied' /\ (schema \subseteq Whole)'
      BY <1>1, <2>1, <3>1, <3>4 DEF Prefix, Applied
    <3> HIDE DEF place
    <3>q. QED
      BY <2>1, <3>1, <3>3, <3>5, OrderedByMove
  <2>q. QED
    BY <2>3, <2>4
<1>7. CASE Record(p)
  <2>1. at[p].step = "record" /\ schema' = schema
    BY <1>7 DEF Record
  <2>2. v \in 1..schemaVersion /\ 1..(v - 1) \subseteq versions /\ Statements(v) \subseteq schema
    BY <1>1, <2>1 DEF Standing
  <2>3. CASE v \in versions
    <3>1. versions' = versions /\ at' = [at EXCEPT ![p] = At("failed", 0, 0)]
      BY <1>7, <2>3 DEF Record, Move
    <3>2. Standing(At("failed", 0, 0), versions', schema')
      BY DEF Standing, At
    <3>3. Prefix' /\ Applied' /\ (schema \subseteq Whole)'
      BY <1>1, <2>1, <3>1 DEF Prefix, Applied
    <3>q. QED
      BY <2>1, <3>1, <3>2, <3>3, OrderedByMove
  <2>4. CASE v \notin versions
    <3>1. versions' = versions \cup {v} /\ at' = [at EXCEPT ![p] = At("check", v + 1, 0)]
      BY <1>7, <2>4 DEF Record, Move
    <3>2. PICK n \in 0..schemaVersion : versions = 1..n
      BY <1>1 DEF Prefix
    <3> HIDE DEF v
    <3>4. /\ versions' = 1..v
          /\ v + 1 \in 1..(schemaVersion + 1) /\ 1..((v + 1) - 1) \subseteq versions'
      BY <3>1, <3>2, <2>2, <2>4, NextOfPrefix
    <3>5. Prefix'
      <4>1. v \in 0..schemaVersion
        BY <2>2, Size
      <4>q. QED
        BY <3>4, <4>1, Size DEF Prefix
    <3>6. Applied' /\ (schema \subseteq Whole)'
      BY <1>1, <2>1, <2>2, <3>1 DEF Applied
    <3>8. Standing(At("check", v + 1, 0), versions', schema')
      BY <3>4 DEF Standing, At
    <3>q. QED
      BY <2>1, <3>1, <3>5, <3>6, <3>8, OrderedByMove
  <2>q. QED
    BY <2>3, <2>4
<1>q. QED
  BY <1>3, <1>4, <1>5, <1>6, <1>7 DEF Migrate
-----------------------------------------------------------------------------
(* Steps that leave a server alone: roles are added and brought up to      *)
(* date, never taken away.                                                 *)
RolesGrow ==
  /\ \A n \in RoleName : HasRole(roles, n) =>
       HasRole(roles', n) /\ roles'[n].id = roles[n].id /\ (roles[n].current => roles'[n].current)
  /\ admin # 0 => admin' = admin
  /\ versions = 1..schemaVersion => versions' = 1..schemaVersion

LEMMA ProgressKept ==
  ASSUME NEW s \in Servers, Progress(s), RolesGrow, next[s] \in 1..4,
         phase'[s] = phase[s], next'[s] = next[s], own'[s] = own[s], seen'[s] = seen[s]
  PROVE  Progress(s)'
<1>1. \A i \in 1..(next[s] - 1) : defaultRoles[i] \in RoleName
  BY Names
<1>2. \A n \in RoleName : UpToDate(n) => UpToDate(n)'
  BY DEF RolesGrow, UpToDate
<1>3. phase[s] = "create" =>
        \A i \in 1..(next[s] - 1) :
          UpToDate(defaultRoles[i])' /\ own[s][defaultRoles[i]].id = roles'[defaultRoles[i]].id
  BY <1>1, <1>2 DEF Progress, RolesGrow, UpToDate
<1>4. phase[s] = "reconcile" =>
       /\ \A n \in RoleName : HasRole(seen[s], n) =>
            HasRole(roles', n) /\ (seen[s][n].current => roles'[n].current)
       /\ \A i \in 1..(next[s] - 1) : UpToDate(defaultRoles[i])'
  BY <1>1, <1>2 DEF Progress, RolesGrow
<1>5. phase[s] \in {"seed", "serving"} => \A n \in RoleName : UpToDate(n)'
  BY <1>2 DEF Progress
<1>6. /\ phase[s] \in {"create", "list", "reconcile", "seed", "serving"} => versions' = 1..schemaVersion
      /\ phase[s] \in {"list", "reconcile", "seed", "serving"} => admin' # 0
      /\ phase[s] = "list" => next[s] = 1
  BY DEF Progress, RolesGrow
<1>q. QED
  BY <1>3, <1>4, <1>5, <1>6 DEF Progress

LEMMA RootedKept ==
  ASSUME Rooted, RolesGrow, admin' = admin
  PROVE  Rooted'
  BY Names DEF Rooted, RolesGrow

(* One process p moves; if it is a server, what it has set up is shown.    *)
LEMMA AccountsByMove ==
  ASSUME Accounts, Shaped, RolesGrow, Rooted', NEW p,
         p \in Servers => Progress(p)',
         \A q \in Servers : q # p =>
           phase'[q] = phase[q] /\ next'[q] = next[q] /\ own'[q] = own[q] /\ seen'[q] = seen[q]
  PROVE  Accounts'
<1>1. ASSUME NEW q \in Servers PROVE Progress(q)'
  <2>1. CASE q = p
    BY <2>1
  <2>2. CASE q # p
    <3>1. Progress(q) /\ next[q] \in 1..4
      BY DEF Accounts, Shaped
    <3>q. QED
      BY <2>2, <3>1, ProgressKept
  <2>q. QED
    BY <2>1, <2>2
<1>q. QED
  BY <1>1 DEF Accounts

LEMMA Unchanging ==
  ASSUME UNCHANGED <<roles, admin>>, versions = 1..schemaVersion => versions' = 1..schemaVersion
  PROVE  RolesGrow
  BY DEF RolesGrow

(* A process that is in none of the phases Progress speaks of.             *)
LEMMA NoProgress ==
  ASSUME NEW s \in Servers, phase'[s] \in {"absent", "down", "migrate", "succeeded"}
  PROVE  Progress(s)'
  BY DEF Progress

LEMMA OrderStays ==
  ASSUME Ordered, UNCHANGED <<versions, schema>>, at' = at
  PROVE  Ordered'
  BY DEF Ordered, Prefix, Applied

LEMMA OrderAfterExit ==
  ASSUME Ordered, DOMAIN at = Processes, NEW p \in Processes,
         UNCHANGED <<versions, schema>>, at' = [at EXCEPT ![p] = Idle]
  PROVE  Ordered'
<1>1. Prefix' /\ Applied' /\ (schema \subseteq Whole)'
  BY DEF Ordered, Prefix, Applied
<1>2. Standing(Idle, versions', schema')
  BY DEF Standing, Idle, At
<1>q. QED
  BY <1>1, <1>2, OrderedByMove

LEMMA DoneIsMigrated ==
  ASSUME Ordered, NEW p \in Processes, at[p].step = "done"
  PROVE  versions = 1..schemaVersion
  BY DEF Ordered, Standing

(* A process ends, and nothing else changes.                               *)
LEMMA ExitKeeps ==
  ASSUME IInv, NEW p \in Processes, Exit(p),
         UNCHANGED <<versions, schema, roles, admin>>,
         next' \in [Servers -> 1..4], own' \in [Servers -> [RoleName -> RoleRow \cup {NoRole}]],
         seen' = seen,
         \A q \in Servers : q # p => next'[q] = next[q] /\ own'[q] = own[q]
  PROVE  IInv'
<1>1. phase' = [phase EXCEPT ![p] = "down"] /\ at' = [at EXCEPT ![p] = Idle]
  BY DEF Exit, Enter
<1>2. Shaped'
  BY <1>1 DEF IInv, Shaped, Phases
<1>3. Ordered'
  BY <1>1, OrderAfterExit DEF IInv, Shaped
<1>4. RolesGrow
  BY Unchanging
<1>5. p \in Servers => Progress(p)'
  <2>1. phase'[p] = "down"
    BY <1>1 DEF IInv, Shaped
  <2>q. QED
    BY <2>1, NoProgress
<1>6. \A q \in Servers : q # p => phase'[q] = phase[q]
  BY <1>1, PlatformAssumption DEF IInv, Shaped
<1>7. Accounts'
  BY <1>4, <1>5, <1>6, AccountsByMove, RootedKept DEF IInv, Accounts
<1>q. QED
  BY <1>2, <1>3, <1>7 DEF IInv

(* A process enters a phase, and what it knows and the accounts stay.      *)
LEMMA EnterKeeps ==
  ASSUME IInv, NEW p \in Processes, NEW ph \in Phases, Enter(p, ph),
         UNCHANGED <<versions, schema, at, roles, admin, next, own, seen>>,
         p \in Servers => Progress(p)'
  PROVE  IInv'
<1>1. phase' = [phase EXCEPT ![p] = ph]
  BY DEF Enter
<1>2. Shaped'
  BY <1>1 DEF IInv, Shaped
<1>3. Ordered'
  BY OrderStays DEF IInv
<1>4. RolesGrow
  BY Unchanging
<1>6. \A q \in Servers : q # p => phase'[q] = phase[q]
  BY <1>1, PlatformAssumption DEF IInv, Shaped
<1>7. Accounts'
  BY <1>4, <1>6, AccountsByMove, RootedKept DEF IInv, Accounts
<1>q. QED
  BY <1>2, <1>3, <1>7 DEF IInv
-----------------------------------------------------------------------------
LEMMA MigrateStepKeeps ==
  ASSUME IInv, NEW p \in Processes, MigrateStep(p) PROVE IInv'
<1>1. Migrate(p) /\ UNCHANGED <<phase, roles, admin, next, own, seen>>
  BY DEF MigrateStep, accountVars, serverVars
<1>2. Ordered' /\ DOMAIN at' = Processes /\ versions \subseteq versions'
  BY <1>1, MigrateKeepsOrder DEF IInv, Shaped
<1>3. Shaped'
  BY <1>1, <1>2 DEF IInv, Shaped
<1>4. versions' \subseteq 1..schemaVersion
  BY <1>2, Size DEF Ordered, Prefix
<1>5. RolesGrow
  BY <1>1, <1>2, <1>4, Unchanging
<1>6. \A q \in Servers : Progress(q)'
  BY <1>1, <1>5, ProgressKept DEF IInv, Accounts, Shaped
<1>7. Rooted'
  BY <1>1, <1>5, RootedKept DEF IInv, Accounts
<1>q. QED
  BY <1>2, <1>3, <1>6, <1>7 DEF IInv, Accounts

LEMMA JobEndsKeeps ==
  ASSUME IInv, NEW j \in Jobs, JobEnds(j) PROVE IInv'
<1>1. j \in Processes /\ j \notin Servers
  BY PlatformAssumption
<1>2. UNCHANGED <<versions, schema, roles, admin, next, own, seen>>
  BY DEF JobEnds, accountVars, serverVars
<1>3. CASE IsReady
  <2>1. Enter(j, "succeeded") /\ UNCHANGED at
    BY <1>3 DEF JobEnds
  <2>q. QED
    BY <1>1, <1>2, <2>1, EnterKeeps DEF Phases
<1>4. CASE ~IsReady
  <2>1. Exit(j)
    BY <1>4 DEF JobEnds
  <2>q. QED
    BY <1>1, <1>2, <2>1, ExitKeeps DEF IInv, Shaped
<1>q. QED
  BY <1>3, <1>4

LEMMA BootstrapKeeps ==
  ASSUME IInv, NEW s \in Servers, Bootstrap(s) PROVE IInv'
<1>1. s \in Processes
  BY PlatformAssumption
<1>2. /\ at[s].step = "done" /\ UNCHANGED <<versions, schema, roles, admin, seen>>
      /\ next' = [next EXCEPT ![s] = 1] /\ own' = [own EXCEPT ![s] = Missing]
  BY DEF Bootstrap, accountVars
<1>3. versions = 1..schemaVersion
  BY <1>1, <1>2, DoneIsMigrated DEF IInv
<1>4. /\ next' \in [Servers -> 1..4] /\ next'[s] = 1
      /\ own' \in [Servers -> [RoleName -> RoleRow \cup {NoRole}]]
      /\ \A q \in Servers : q # s => next'[q] = next[q] /\ own'[q] = own[q]
  BY <1>2 DEF IInv, Shaped, Missing
<1>5. CASE Exit(s)
  BY <1>1, <1>2, <1>4, <1>5, ExitKeeps
<1>6. ASSUME NEW ph \in {"list", "create"}, Enter(s, ph), UNCHANGED at, ph = "list" => admin # 0
      PROVE  IInv'
  <2>1. phase' = [phase EXCEPT ![s] = ph] /\ phase'[s] = ph
    BY <1>1, <1>6 DEF Enter, IInv, Shaped
  <2>2. Shaped'
    BY <2>1, <1>2, <1>4, <1>6 DEF IInv, Shaped, Phases
  <2>3. Ordered'
    BY <1>2, <1>6, OrderStays DEF IInv
  <2>4. RolesGrow
    BY <1>2, Unchanging
  <2>5. Progress(s)'
    BY <2>1, <1>2, <1>3, <1>4, <1>6 DEF Progress
  <2>6. \A q \in Servers : q # s => phase'[q] = phase[q]
    BY <2>1, PlatformAssumption DEF IInv, Shaped
  <2>7. Accounts'
    BY <1>2, <1>4, <2>4, <2>5, <2>6, AccountsByMove, RootedKept DEF IInv, Accounts
  <2>q. QED
    BY <2>2, <2>3, <2>7 DEF IInv
<1>q. QED
  BY <1>5, <1>6 DEF Bootstrap

(* There is always an id no role has.                                      *)
LEMMA FreshId == newId \in Nat \ {0}
<1> DEFINE Free(i) == \A n \in RoleName : roles[n].id # i
<1>1. \E i \in 1..4 : Free(i)
  <2>1. \A i \in 1..4 : ~Free(i) =>
          roles["admin"].id = i \/ roles["user"].id = i \/ roles["operator"].id = i
    BY Names
  <2> HIDE DEF Free
  <2>2. 1 \in 1..4 /\ 2 \in 1..4 /\ 3 \in 1..4 /\ 4 \in 1..4
    OBVIOUS
  <2>q. QED
    BY <2>1, <2>2
<1>2. newId = CHOOSE i \in 1..4 : Free(i)
  BY Names DEF newId
<1> HIDE DEF Free
<1>q. QED
  BY <1>1, <1>2

LEMMA NewRow ==
  /\ [id |-> newId, current |-> TRUE] \in RoleRow
  /\ [id |-> newId, current |-> TRUE] # NoRole
  BY FreshId DEF RoleRow, NoRole

LEMMA CreateRoleKeeps ==
  ASSUME IInv, NEW s \in Servers, CreateRole(s) PROVE IInv'
<1> DEFINE n == defaultRoles[next[s]]
           row == [id |-> newId, current |-> TRUE]
<1>1. s \in Processes
  BY PlatformAssumption
<1>2. /\ phase[s] = "create" /\ next[s] <= 3 /\ next[s] \in 1..4
      /\ UNCHANGED <<versions, schema, admin, seen>>
  BY Names DEF CreateRole, IInv, Shaped
<1>3. n \in RoleName /\ row \in RoleRow /\ row # NoRole
  BY <1>2, Names, NewRow
<1>4. CASE ~Accepted(n)
  <2>1. Exit(s) /\ UNCHANGED <<roles, own, next>>
    BY <1>4 DEF CreateRole
  <2>q. QED
    BY <1>1, <1>2, <2>1, ExitKeeps DEF IInv, Shaped
<1>5. CASE Accepted(n)
  <2>1. /\ roles' = Insert(roles, n, newId) /\ own' = [own EXCEPT ![s][n] = row]
        /\ next' = [next EXCEPT ![s] = next[s] + 1] /\ UNCHANGED <<phase, at>>
    BY <1>5 DEF CreateRole
  <2>2. ~HasRole(roles, n) /\ roles' = [roles EXCEPT ![n] = row]
    BY <1>5, <2>1 DEF Accepted, Insert
  <2> HIDE DEF n, row
  <2>3. /\ roles'[n] = row /\ \A m \in RoleName : m # n => roles'[m] = roles[m]
        /\ roles' \in [RoleName -> RoleRow \cup {NoRole}]
    BY <1>3, <2>2 DEF IInv, Shaped
  <2>4. /\ own'[s][n] = row /\ \A m \in RoleName : m # n => own'[s][m] = own[s][m]
        /\ own' \in [Servers -> [RoleName -> RoleRow \cup {NoRole}]]
        /\ \A q \in Servers : q # s => own'[q] = own[q]
    BY <1>3, <2>1 DEF IInv, Shaped
  <2>5. /\ next'[s] = next[s] + 1 /\ next' \in [Servers -> 1..4]
        /\ \A q \in Servers : q # s => next'[q] = next[q]
    BY <1>2, <2>1 DEF IInv, Shaped
  <2>6. row.current = TRUE /\ row.id = newId
    BY DEF row
  <2>7. RolesGrow
    <3>1. ASSUME NEW m \in RoleName, HasRole(roles, m)
          PROVE  HasRole(roles', m) /\ roles'[m].id = roles[m].id /\ (roles[m].current => roles'[m].current)
      <4>1. m # n
        BY <3>1, <2>2
      <4>q. QED
        BY <3>1, <4>1, <2>3 DEF HasRole
    <3>q. QED
      BY <3>1, <1>2 DEF RolesGrow
  <2>8. Progress(s)'
    <3>1. Progress(s)
      BY DEF IInv, Accounts
    <3>2. ASSUME NEW i \in 1..(next'[s] - 1)
          PROVE  UpToDate(defaultRoles[i])' /\ own'[s][defaultRoles[i]].id = roles'[defaultRoles[i]].id
      <4>1. CASE i = next[s]
        <5>1. defaultRoles[i] = n
          BY <4>1 DEF n
        <5>2. HasRole(roles', n) /\ roles'[n].current
          BY <1>3, <2>3, <2>6 DEF HasRole
        <5>q. QED
          BY <5>1, <5>2, <2>3, <2>4 DEF UpToDate
      <4>2. CASE i # next[s]
        <5>1. i \in 1..(next[s] - 1) /\ defaultRoles[i] \in RoleName
          BY <4>2, <1>2, <2>5, Names
        <5>2. UpToDate(defaultRoles[i]) /\ own[s][defaultRoles[i]].id = roles[defaultRoles[i]].id
          BY <5>1, <3>1, <1>2 DEF Progress
        <5>3. defaultRoles[i] # n
          BY <5>2, <2>2 DEF UpToDate
        <5>q. QED
          BY <5>1, <5>2, <5>3, <2>3, <2>4 DEF UpToDate, HasRole
      <4>q. QED
        BY <4>1, <4>2
    <3>3. versions' = 1..schemaVersion
      BY <3>1, <1>2 DEF Progress
    <3>4. phase'[s] = "create"
      BY <1>2, <2>1
    <3>q. QED
      BY <3>2, <3>3, <3>4 DEF Progress
  <2>9. Accounts'
    BY <1>2, <2>1, <2>4, <2>5, <2>7, <2>8, AccountsByMove, RootedKept DEF IInv, Accounts
  <2>10. Ordered'
    BY <1>2, <2>1, OrderStays DEF IInv
  <2>11. Shaped'
    BY <1>2, <2>1, <2>3, <2>4, <2>5 DEF IInv, Shaped
  <2>q. QED
    BY <2>9, <2>10, <2>11 DEF IInv
<1>q. QED
  BY <1>4, <1>5

LEMMA CreateAdminKeeps ==
  ASSUME IInv, NEW s \in Servers, CreateAdmin(s) PROVE IInv'
<1>1. s \in Processes
  BY PlatformAssumption
<1>2. /\ phase[s] = "create" /\ next[s] > 3 /\ next[s] \in 1..4
      /\ UNCHANGED <<versions, schema, roles, next, own, seen>>
  BY Names DEF CreateAdmin, IInv, Shaped, serverVars
<1>3. CASE admin # 0
  <2>1. Exit(s) /\ UNCHANGED admin
    BY <1>3 DEF CreateAdmin
  <2>q. QED
    BY <1>1, <1>2, <2>1, ExitKeeps DEF IInv, Shaped
<1>4. CASE admin = 0
  <2>1. admin' = own[s]["admin"].id /\ Enter(s, "seed") /\ UNCHANGED at
    BY <1>4 DEF CreateAdmin
  <2>2. phase' = [phase EXCEPT ![s] = "seed"] /\ phase'[s] = "seed"
    BY <1>1, <2>1 DEF Enter, IInv, Shaped
  <2>3. \A i \in 1..3 : UpToDate(defaultRoles[i]) /\ own[s][defaultRoles[i]].id = roles[defaultRoles[i]].id
    BY <1>2 DEF IInv, Accounts, Progress
  <2>4. /\ \A n \in RoleName : UpToDate(n)
        /\ own[s]["admin"].id = roles["admin"].id
    <3>1. 1 \in 1..3 /\ 2 \in 1..3 /\ 3 \in 1..3
      OBVIOUS
    <3>q. QED
      BY <2>3, <3>1, Names
  <2>5. roles["admin"].id # 0
    BY <2>4, Names DEF UpToDate, HasRole, IInv, Shaped, RoleRow
  <2>6. RolesGrow
    BY <1>2, <1>4 DEF RolesGrow
  <2>7. Rooted'
    BY <1>2, <2>1, <2>4, Names DEF Rooted, UpToDate
  <2>8. Progress(s)'
    <3>1. versions = 1..schemaVersion
      BY <1>2 DEF IInv, Accounts, Progress
    <3>2. \A n \in RoleName : UpToDate(n)'
      BY <1>2, <2>4 DEF UpToDate
    <3>3. admin' # 0
      BY <2>1, <2>4, <2>5
    <3>4. versions' = 1..schemaVersion
      BY <1>2, <3>1
    <3>q. QED
      BY <2>2, <3>2, <3>3, <3>4 DEF Progress
  <2>9. \A q \in Servers : q # s => phase'[q] = phase[q]
    BY <2>2, PlatformAssumption DEF IInv, Shaped
  <2>10. Accounts'
    BY <1>2, <2>6, <2>7, <2>8, <2>9, AccountsByMove DEF IInv
  <2>11. Ordered'
    BY <1>2, <2>1, OrderStays DEF IInv
  <2>12. Shaped'
    BY <1>2, <2>1, <2>2 DEF IInv, Shaped, Phases
  <2>q. QED
    BY <2>10, <2>11, <2>12 DEF IInv
<1>q. QED
  BY <1>3, <1>4

LEMMA ListRolesKeeps ==
  ASSUME IInv, NEW s \in Servers, ListRoles(s) PROVE IInv'
<1>1. /\ s \in Processes /\ phase[s] = "list" /\ phase' = [phase EXCEPT ![s] = "reconcile"]
      /\ seen' = [seen EXCEPT ![s] = roles]
      /\ UNCHANGED <<versions, schema, at, roles, admin, next, own>>
  BY PlatformAssumption DEF ListRoles, Enter, migrationVars, accountVars
<1>2. phase'[s] = "reconcile" /\ seen'[s] = roles /\ next'[s] = next[s]
  BY <1>1 DEF IInv, Shaped
<1>3. versions = 1..schemaVersion /\ admin # 0 /\ next[s] = 1
  BY <1>1 DEF IInv, Accounts, Progress
<1>4. Progress(s)'
  <2>1. versions' = 1..schemaVersion /\ admin' # 0 /\ next'[s] = 1
    BY <1>1, <1>2, <1>3
  <2>2. \A n \in RoleName : HasRole(seen'[s], n) =>
           HasRole(roles', n) /\ (seen'[s][n].current => roles'[n].current)
    BY <1>1, <1>2
  <2>3. 1..(next'[s] - 1) = {}
    BY <2>1
  <2>q. QED
    BY <1>2, <2>1, <2>2, <2>3 DEF Progress
<1>5. RolesGrow
  BY <1>1, Unchanging
<1>6. \A q \in Servers : q # s => phase'[q] = phase[q] /\ seen'[q] = seen[q]
  BY <1>1, PlatformAssumption DEF IInv, Shaped
<1>7. Accounts'
  BY <1>1, <1>4, <1>5, <1>6, AccountsByMove, RootedKept DEF IInv, Accounts
<1>8. Ordered'
  BY <1>1, OrderStays DEF IInv
<1>9. Shaped'
  BY <1>1 DEF IInv, Shaped, Phases
<1>q. QED
  BY <1>7, <1>8, <1>9 DEF IInv

LEMMA ReconcileRoleKeeps ==
  ASSUME IInv, NEW s \in Servers, ReconcileRole(s) PROVE IInv'
<1> DEFINE n == defaultRoles[next[s]]
           row == [id |-> newId, current |-> TRUE]
<1>1. s \in Processes
  BY PlatformAssumption
<1>2. /\ phase[s] = "reconcile" /\ next[s] <= 3 /\ next[s] \in 1..4
      /\ UNCHANGED <<versions, schema, admin, own, seen>>
  BY Names DEF ReconcileRole, IInv, Shaped
<1>3. n \in RoleName /\ row \in RoleRow /\ row # NoRole
  BY <1>2, Names, NewRow
<1>4. CASE ~HasRole(seen[s], n) /\ HasRole(roles, n)
  <2>1. Exit(s) /\ UNCHANGED <<roles, next>>
    BY <1>4 DEF ReconcileRole
  <2>q. QED
    BY <1>1, <1>2, <2>1, ExitKeeps DEF IInv, Shaped
<1>5. CASE ~(~HasRole(seen[s], n) /\ HasRole(roles, n))
  <2>1. /\ roles' = IF ~HasRole(seen[s], n) THEN Insert(roles, n, newId)
                     ELSE IF ToNormalize(s, n) THEN [roles EXCEPT ![n].current = TRUE]
                     ELSE roles
        /\ next' = [next EXCEPT ![s] = next[s] + 1] /\ UNCHANGED <<phase, at>>
    BY <1>5 DEF ReconcileRole
  <2>2. /\ HasRole(roles', n) /\ roles'[n].current
        /\ HasRole(roles, n) => roles'[n].id = roles[n].id
        /\ \A m \in RoleName : m # n => roles'[m] = roles[m]
        /\ roles' \in [RoleName -> RoleRow \cup {NoRole}]
    <3> HIDE DEF n
    <3>1. CASE ~HasRole(seen[s], n)
      <4>1. ~HasRole(roles, n) /\ roles' = [roles EXCEPT ![n] = row]
        BY <1>5, <2>1, <3>1 DEF Insert
      <4>2. row.current
        OBVIOUS
      <4> HIDE DEF row
      <4>3. roles'[n] = row /\ \A m \in RoleName : m # n => roles'[m] = roles[m]
        BY <4>1, <1>3 DEF IInv, Shaped
      <4>4. roles' \in [RoleName -> RoleRow \cup {NoRole}]
        BY <4>1, <1>3 DEF IInv, Shaped
      <4>q. QED
        BY <4>1, <4>2, <4>3, <4>4, <1>3 DEF HasRole
    <3>2. CASE HasRole(seen[s], n)
      <4>1. HasRole(roles, n) /\ (seen[s][n].current => roles[n].current)
        BY <3>2, <1>2, <1>3 DEF IInv, Accounts, Progress
      <4>2. roles[n] \in RoleRow
        BY <4>1, <1>3 DEF HasRole, IInv, Shaped
      <4>3. CASE ToNormalize(s, n)
        <5>1. roles' = [roles EXCEPT ![n] = [roles[n] EXCEPT !.current = TRUE]]
          BY <2>1, <3>2, <4>3
        <5>2. /\ [roles[n] EXCEPT !.current = TRUE] \in RoleRow
              /\ [roles[n] EXCEPT !.current = TRUE].current = TRUE
              /\ [roles[n] EXCEPT !.current = TRUE].id = roles[n].id
          BY <4>2 DEF RoleRow
        <5>3. roles'[n] = [roles[n] EXCEPT !.current = TRUE]
          BY <5>1, <1>3 DEF IInv, Shaped
        <5>4. /\ \A m \in RoleName : m # n => roles'[m] = roles[m]
              /\ roles' \in [RoleName -> RoleRow \cup {NoRole}]
          BY <5>1, <5>2, <1>3 DEF IInv, Shaped
        <5>q. QED
          BY <5>2, <5>3, <5>4 DEF HasRole, NoRole
      <4>4. CASE ~ToNormalize(s, n)
        BY <2>1, <3>2, <4>1, <4>4 DEF ToNormalize, IInv, Shaped
      <4>q. QED
        BY <4>3, <4>4
    <3>q. QED
      BY <3>1, <3>2
  <2> HIDE DEF n, row
  <2>3. /\ next'[s] = next[s] + 1 /\ next' \in [Servers -> 1..4]
        /\ \A q \in Servers : q # s => next'[q] = next[q]
    BY <1>2, <2>1 DEF IInv, Shaped
  <2>4. RolesGrow
    <3>1. ASSUME NEW m \in RoleName, HasRole(roles, m)
          PROVE  HasRole(roles', m) /\ roles'[m].id = roles[m].id /\ (roles[m].current => roles'[m].current)
      BY <3>1, <2>2 DEF HasRole
    <3>q. QED
      BY <3>1, <1>2 DEF RolesGrow
  <2>5. Progress(s)'
    <3>1. Progress(s)
      BY DEF IInv, Accounts
    <3>2. ASSUME NEW i \in 1..(next'[s] - 1) PROVE UpToDate(defaultRoles[i])'
      <4>1. CASE i = next[s]
        <5>1. defaultRoles[i] = n
          BY <4>1 DEF n
        <5>q. QED
          BY <5>1, <2>2 DEF UpToDate
      <4>2. CASE i # next[s]
        <5>1. i \in 1..(next[s] - 1) /\ defaultRoles[i] \in RoleName
          BY <4>2, <1>2, <2>3, Names
        <5>2. UpToDate(defaultRoles[i])
          BY <5>1, <3>1, <1>2 DEF Progress
        <5>q. QED
          BY <5>1, <5>2, <2>4 DEF UpToDate, RolesGrow
      <4>q. QED
        BY <4>1, <4>2
    <3>3. \A m \in RoleName : HasRole(seen'[s], m) =>
             HasRole(roles', m) /\ (seen'[s][m].current => roles'[m].current)
      BY <3>1, <1>2, <2>4 DEF Progress, RolesGrow
    <3>4. versions' = 1..schemaVersion /\ admin' # 0 /\ phase'[s] = "reconcile"
      BY <3>1, <1>2, <2>1 DEF Progress
    <3>q. QED
      BY <3>2, <3>3, <3>4 DEF Progress
  <2>6. Accounts'
    BY <1>2, <2>1, <2>3, <2>4, <2>5, AccountsByMove, RootedKept DEF IInv, Accounts
  <2>7. Ordered'
    BY <1>2, <2>1, OrderStays DEF IInv
  <2>8. Shaped'
    BY <1>2, <2>1, <2>2, <2>3 DEF IInv, Shaped
  <2>q. QED
    BY <2>6, <2>7, <2>8 DEF IInv
<1>q. QED
  BY <1>4, <1>5
-----------------------------------------------------------------------------
LEMMA ReconciledKeeps ==
  ASSUME IInv, NEW s \in Servers, Reconciled(s) PROVE IInv'
<1>1. /\ s \in Processes /\ phase[s] = "reconcile" /\ next[s] > 3 /\ next[s] \in 1..4
      /\ Enter(s, "seed") /\ UNCHANGED <<versions, schema, at, roles, admin, next, own, seen>>
  BY PlatformAssumption, Names DEF Reconciled, migrationVars, accountVars, serverVars, IInv, Shaped
<1>2. Progress(s) /\ phase'[s] = "seed"
  BY <1>1 DEF Enter, IInv, Shaped, Accounts
<1>3. \A n \in RoleName : UpToDate(n)
  <2>1. \A i \in 1..3 : UpToDate(defaultRoles[i])
    BY <1>1, <1>2 DEF Progress
  <2>2. 1 \in 1..3 /\ 2 \in 1..3 /\ 3 \in 1..3
    OBVIOUS
  <2>q. QED
    BY <2>1, <2>2, Names
<1>4. \A n \in RoleName : UpToDate(n)'
  BY <1>1, <1>3 DEF UpToDate
<1>5. versions' = 1..schemaVersion /\ admin' # 0
  BY <1>1, <1>2 DEF Progress
<1>6. Progress(s)'
  BY <1>2, <1>4, <1>5 DEF Progress
<1>q. QED
  BY <1>1, <1>6, EnterKeeps DEF Phases

LEMMA ServeKeeps ==
  ASSUME IInv, NEW s \in Servers, Serve(s) PROVE IInv'
<1>1. /\ s \in Processes /\ phase[s] = "seed" /\ Enter(s, "serving")
      /\ UNCHANGED <<versions, schema, at, roles, admin, next, own, seen>>
  BY PlatformAssumption DEF Serve, migrationVars, accountVars, serverVars
<1>2. Progress(s) /\ phase'[s] = "serving"
  BY <1>1 DEF Enter, IInv, Shaped, Accounts
<1>3. versions' = 1..schemaVersion /\ admin' # 0 /\ \A n \in RoleName : UpToDate(n)'
  BY <1>1, <1>2 DEF Progress, UpToDate
<1>4. Progress(s)'
  BY <1>2, <1>3 DEF Progress
<1>q. QED
  BY <1>1, <1>4, EnterKeeps DEF Phases

LEMMA OpenKeeps ==
  ASSUME IInv, NEW p \in Processes, Open(p) PROVE IInv'
<1>1. Enter(p, "migrate") /\ UNCHANGED <<versions, schema, at, roles, admin, next, own, seen>>
  BY DEF Open, migrationVars, accountVars, serverVars
<1>2. phase'[p] = "migrate"
  BY <1>1 DEF Enter, IInv, Shaped
<1>q. QED
  BY <1>1, <1>2, EnterKeeps, NoProgress DEF Phases

LEMMA ProcessExits ==
  ASSUME IInv, NEW p \in Processes, MigrateFailed(p) \/ Crash(p) PROVE IInv'
<1>1. Exit(p) /\ UNCHANGED <<versions, schema, roles, admin, next, own, seen>>
  BY DEF MigrateFailed, Crash, accountVars, serverVars
<1>q. QED
  BY <1>1, ExitKeeps DEF IInv, Shaped

LEMMA Stuttering ==
  ASSUME IInv, UNCHANGED vars \/ SetPassword PROVE IInv'
<1>1. UNCHANGED <<versions, schema, at, phase, roles, admin, next, own, seen>>
  BY DEF vars, SetPassword, migrationVars, accountVars, serverVars
<1>2. Ordered'
  BY <1>1, OrderStays DEF IInv
<1>3. RolesGrow /\ Rooted'
  BY <1>1, Unchanging, RootedKept DEF IInv, Accounts
<1>4. \A q \in Servers : Progress(q)'
  BY <1>1, <1>3, ProgressKept DEF IInv, Accounts, Shaped
<1>5. Shaped'
  BY <1>1 DEF IInv, Shaped
<1>q. QED
  BY <1>2, <1>3, <1>4, <1>5 DEF IInv, Accounts

LEMMA Step == IInv /\ [Next]_vars => IInv'
<1> SUFFICES ASSUME IInv, [Next]_vars PROVE IInv'
  OBVIOUS
<1>1. ASSUME NEW s \in Servers, ServerStep(s) PROVE IInv'
  <2>1. s \in Processes
    BY PlatformAssumption
  <2>q. QED
    BY <1>1, <2>1, OpenKeeps, MigrateStepKeeps, ProcessExits, BootstrapKeeps, CreateRoleKeeps,
       CreateAdminKeeps, ListRolesKeeps, ReconcileRoleKeeps, ReconciledKeeps, ServeKeeps DEF ServerStep
<1>2. ASSUME NEW j \in Jobs, JobStep(j) PROVE IInv'
  <2>1. j \in Processes
    BY PlatformAssumption
  <2>q. QED
    BY <1>2, <2>1, OpenKeeps, MigrateStepKeeps, ProcessExits, JobEndsKeeps DEF JobStep
<1>3. ASSUME NEW p \in Servers \cup Jobs, Crash(p) PROVE IInv'
  BY <1>3, ProcessExits, PlatformAssumption
<1>4. CASE UNCHANGED vars \/ SetPassword
  BY <1>4, Stuttering
<1>q. QED
  BY <1>1, <1>2, <1>3, <1>4 DEF Next
-----------------------------------------------------------------------------
(* The strengthening holds in every reachable state.                       *)
THEOREM Invariant == Spec => []IInv
  BY Start, Step, PTL DEF Spec

(* What /readyz and the upgrade Job conclude from the highest recorded     *)
(* version is so: every statement of every version has taken effect,       *)
(* whichever of any number of processes ran it and wherever they died.     *)
THEOREM Whole_when_ready == Spec => []ReadyIsWhole
<1>1. IInv => ReadyIsWhole
  <2> SUFFICES ASSUME IInv, IsReady PROVE schema = Whole
    BY DEF ReadyIsWhole
  <2>1. PICK n \in 0..schemaVersion : versions = 1..n
    BY DEF IInv, Ordered, Prefix
  <2>2. n >= schemaVersion
    BY <2>1, StatusOfPrefix DEF IsReady
  <2>3. versions = 1..schemaVersion
    BY <2>1, <2>2, Size
  <2>q. QED
    BY <2>3, WholeIsApplied DEF IInv, Ordered
<1>q. QED
  BY <1>1, Invariant, PTL

(* A server that listens found, or made, everything it needs: the schema,  *)
(* the three roles as this release has them, an administrator whose role   *)
(* is the role "admin"; whatever earlier starts left and others do.        *)
THEOREM Complete_when_serving == Spec => []ServingIsComplete
<1>1. IInv => ServingIsComplete
  <2> SUFFICES ASSUME IInv, NEW s \in Servers, phase[s] = "serving"
               PROVE  /\ IsReady
                      /\ \A n \in RoleName : roles[n] # NoRole /\ roles[n].current
                      /\ admin = roles["admin"].id
    BY DEF ServingIsComplete
  <2>1. versions = 1..schemaVersion /\ admin # 0 /\ \A n \in RoleName : UpToDate(n)
    BY DEF IInv, Accounts, Progress
  <2>2. schemaVersion \in 0..schemaVersion
    BY Size
  <2>3. IsReady
    BY <2>1, <2>2, StatusOfPrefix, Size DEF IsReady
  <2>4. \A n \in RoleName : roles[n] # NoRole /\ roles[n].current
    BY <2>1 DEF UpToDate, HasRole
  <2>5. admin = roles["admin"].id
    BY <2>1 DEF IInv, Accounts, Rooted
  <2>q. QED
    BY <2>3, <2>4, <2>5
<1>q. QED
  BY <1>1, Invariant, PTL
=============================================================================
