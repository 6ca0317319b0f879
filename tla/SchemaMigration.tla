-------------------------- MODULE SchemaMigration --------------------------
(***************************************************************************)
(* The schema of the platform's database and Migrate, which every server   *)
(* runs as it starts and the upgrade Job runs before (store/migrate.go).   *)
(* A version is a list of statements; it is recorded in schema_migrations  *)
(* once they have all run.  MySQL commits every statement on its own, so a *)
(* process that dies leaves a version half applied and the next one runs   *)
(* it again from its first statement; SQLite undoes what was not committed *)
(* and lets one process write at a time.                                   *)
(*                                                                         *)
(* The statements of one kind and version that follow one another (one per *)
(* table, index or column) are one statement here: running them again      *)
(* after a part of them is running that one again.                         *)
(***************************************************************************)
EXTENDS Naturals, Sequences

CONSTANT Processes   \* those that run Migrate: servers and upgrade Jobs

VARIABLES
  dialect,   \* "mysql" or "sqlite": which driver the store was opened with
  versions,  \* the rows of schema_migrations
  schema,    \* <<v, k>>: statement k of version v has taken effect
  at         \* where each process is in Migrate

migrationVars == <<dialect, versions, schema, at>>

Dialects == {"mysql", "sqlite"}

(* "table" and "index" create, "column" adds to a table that exists,       *)
(* "widen" redefines columns, "fill" computes new columns from old ones;   *)
(* "on" names the versions whose tables the statement touches.             *)
Statement(kind, on) == [kind |-> kind, on |-> on]

(* The versions whose tables hold long texts and bytes, to be widened.     *)
longTextColumns == {1, 2, 4}
bytesColumns == {1, 2, 4, 6}

backfillAuditEventType == Statement("fill", {1})
backfillSessionIndexColumns == Statement("fill", {1})

schemaV1 == Statement("table", {})
schemaV1Indexes == Statement("index", {1})
schemaV2 == Statement("table", {})
schemaV2Indexes == Statement("index", {2})
auditV4Columns == Statement("column", {1})
schemaV3Indexes == Statement("index", {1})
schemaV4 == Statement("table", {})
schemaV4Indexes == Statement("index", {4})
schemaV6 == Statement("table", {})
schemaV6Indexes == Statement("index", {6})
schemaV6SessionColumns == Statement("column", {1})
schemaV7SessionColumns == Statement("column", {1})
schemaV8ReportColumns == Statement("column", {6})
schemaV8ReportIndexes == Statement("index", {6})

migrateV1 == <<schemaV1, schemaV1Indexes>>
migrateV2 == <<schemaV2, schemaV2Indexes>>
migrateV3 == <<auditV4Columns, schemaV3Indexes, backfillAuditEventType>>
migrateV4 == <<schemaV4, schemaV4Indexes>>
migrateV5 == <<Statement("widen", longTextColumns)>>
migrateV6 == <<schemaV6, schemaV6Indexes, schemaV6SessionColumns, Statement("widen", bytesColumns)>>
migrateV7 == <<schemaV7SessionColumns, backfillSessionIndexColumns>>
migrateV8 == <<schemaV8ReportColumns, schemaV8ReportIndexes>>

migrations == <<migrateV1, migrateV2, migrateV3, migrateV4,
                migrateV5, migrateV6, migrateV7, migrateV8>>

schemaVersion == Len(migrations)

Statements(v) == {v} \X (1..Len(migrations[v]))
Whole == UNION {Statements(v) : v \in 1..schemaVersion}

(* MAX(version) FROM schema_migrations; 0 without the table or any row.    *)
MigrationStatus ==
  IF versions = {} THEN 0
  ELSE CHOOSE v \in versions : \A w \in versions : w <= v

IsReady == MigrationStatus >= schemaVersion

(* Where a process is: about to look a version up, at a statement of it,   *)
(* about to record it; "idle" before Migrate, "done" and "failed" after.   *)
At(step, v, k) == [step |-> step, v |-> v, k |-> k]
Idle == At("idle", 0, 0)

Move(p, place) == at' = [at EXCEPT ![p] = place]

(* Statements that answer with an error when what they make is there:      *)
(* tables, and SQLite's indexes, are made IF NOT EXISTS.                   *)
Conflicts(v, k) ==
  /\ <<v, k>> \in schema
  /\ migrations[v][k].kind \in (IF dialect = "mysql" THEN {"index", "column"} ELSE {"column"})

(* Mutant: a duplicate index is taken for a failure.                       *)
ToleratedColumns(v, k) == migrations[v][k].kind = "column"

(* isDuplicateIndexErr, isDuplicateColumnErr: the step goes on.            *)
Tolerated(v, k) == migrations[v][k].kind \in {"index", "column"}

TablesExist(v, k) ==
  \A t \in migrations[v][k].on : <<t, 1>> \in schema

Succeeds(v, k) == TablesExist(v, k) /\ (Conflicts(v, k) => Tolerated(v, k))

(* SQLite: everything in one transaction, seen by the others at its end.   *)
MigrateAtOnce(p) ==
  /\ at[p].step = "idle" /\ dialect = "sqlite"
  /\ schema' = Whole
  /\ versions' = 1..schemaVersion
  /\ Move(p, At("done", 0, 0))
  /\ UNCHANGED dialect

BeginMigrate(p) ==
  /\ at[p].step = "idle" /\ dialect = "mysql"
  /\ Move(p, At("check", 1, 0))
  /\ UNCHANGED <<dialect, versions, schema>>

(* Mutant: a version whose first table or column is there is skipped.      *)
NeededByTable(v) == <<v, 1>> \notin schema

(* SELECT COUNT ... WHERE version = v.                                     *)
Needed(v) == v \notin versions

Check(p) ==
  LET v == at[p].v IN
  /\ at[p].step = "check"
  /\ Move(p, IF v > schemaVersion THEN At("done", 0, 0)
             ELSE IF Needed(v) THEN At("up", v, 1)
             ELSE At("check", v + 1, 0))
  /\ UNCHANGED <<dialect, versions, schema>>

(* One statement of up, committed as it ends.                              *)
Execute(p) ==
  LET v == at[p].v
      k == at[p].k
  IN
  /\ at[p].step = "up"
  /\ IF Succeeds(v, k)
     THEN /\ schema' = schema \cup {<<v, k>>}
          /\ Move(p, IF k = Len(migrations[v]) THEN At("record", v, 0) ELSE At("up", v, k + 1))
     ELSE /\ Move(p, At("failed", 0, 0))
          /\ UNCHANGED schema
  /\ UNCHANGED <<dialect, versions>>

(* INSERT INTO schema_migrations: the version is its primary key, so the   *)
(* slower of two processes fails here.                                     *)
Record(p) ==
  LET v == at[p].v IN
  /\ at[p].step = "record"
  /\ IF v \in versions
     THEN Move(p, At("failed", 0, 0)) /\ UNCHANGED versions
     ELSE Move(p, At("check", v + 1, 0)) /\ versions' = versions \cup {v}
  /\ UNCHANGED <<dialect, schema>>

Migrate(p) == MigrateAtOnce(p) \/ BeginMigrate(p) \/ Check(p) \/ Execute(p) \/ Record(p)
=============================================================================
