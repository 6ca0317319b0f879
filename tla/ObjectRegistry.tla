--------------------------- MODULE ObjectRegistry ---------------------------
(***************************************************************************)
(* The object subsystem's shared state: the `objects` table of the         *)
(* platform database, the report rows that cite it, and the content each   *)
(* storage backend (db, dir, s3) really holds.  The operators below are    *)
(* the SQL statements and backend calls every component uses; the          *)
(* components that interleave them are ReportPlatform, BlobGC, BlobVerify  *)
(* and BlobMigrate, composed in BlobSystem.                                *)
(*                                                                         *)
(* Keys are content addresses (the sha256 is part of the key), so one key  *)
(* stands for one content and the content of a key never changes.          *)
(***************************************************************************)
EXTENDS Integers, FiniteSets

CONSTANTS
  Keys,      \* content-addressed blob keys
  Reports,   \* report ids; newReportID draws a fresh one for every row
  Starts,    \* drivers platform.blobs.driver may be set to at the start
  Backends,  \* drivers an operator may migrate to and switch to later
  Grace,     \* platform.blobs.gc_grace_period, in ticks of the clock
  MaxTime    \* bound of the clock in model checking

Drivers == {"db", "dir", "s3"}

ASSUME RegistryAssumption ==
  /\ IsFiniteSet(Reports)
  /\ Starts \subseteq Drivers /\ Backends \subseteq Drivers
  /\ Grace \in Nat \ {0}
  /\ MaxTime \in Nat

VARIABLES
  rows,      \* objects table: key -> row (state "absent" when there is none)
  reports,   \* key -> ids of the live report rows whose blob_key is the key
  issued,    \* report ids drawn so far
  content,   \* driver -> keys whose content that backend holds
  driver,    \* the driver the server and the tools are configured with
  lock,      \* holder of the dir backend's root lock
  now        \* clock

registry == <<rows, reports, issued, content, driver, lock, now>>

Never == -1    \* deleted_at IS NULL

Row == [state : {"absent", "ready", "orphaned", "missing", "deleting"},
        ref : Nat, deletedAt : Nat \cup {Never}, driver : Drivers \cup {"none"}]

NoRow == [state |-> "absent", ref |-> 0, deletedAt |-> Never, driver |-> "none"]

NewRow(d, refs) == [state |-> "ready", ref |-> refs, deletedAt |-> Never, driver |-> d]

HasRow(k) == rows[k].state # "absent"

Cited == {k \in Keys : reports[k] # {}}

(***************************************************************************)
(* Statements on one row.  Collectable is the WHERE clause ListCollectable *)
(* and ClaimDeleting share.  A definition that stands before another and   *)
(* extends its name (CollectableAtCutoff, AcquirableAlways) is that one     *)
(* with a bug in it; the README says which property each bug breaks.        *)
(***************************************************************************)
CollectableAtCutoff(row, cutoff) ==
  /\ row.ref = 0
  /\ row.deletedAt # Never /\ row.deletedAt <= cutoff
  /\ row.state \in {"orphaned", "missing"}

CollectableIfMissing(row, cutoff) ==
  /\ row.ref = 0
  /\ row.deletedAt # Never /\ row.deletedAt < cutoff
  /\ row.state = "missing"

Collectable(row, cutoff) ==
  /\ row.ref = 0
  /\ row.deletedAt # Never /\ row.deletedAt < cutoff
  /\ row.state \in {"orphaned", "missing"}

AcquirableAlways(row) == TRUE

Acquirable(row) == row.state # "deleting"

AcquiredUncounted(row, d) ==
  IF row.state = "absent" THEN NewRow(d, 1) ELSE NewRow(row.driver, row.ref)

Acquired(row, d) ==
  IF row.state = "absent" THEN NewRow(d, 1) ELSE NewRow(row.driver, row.ref + 1)

Releasable(row) == row.ref > 0

ReleasedTwice(row, t) == [row EXCEPT !.ref = @ - 2]

ReleasedUndated(row, t) ==
  IF row.ref = 1 /\ row.state = "ready"
  THEN [row EXCEPT !.ref = 0, !.state = "orphaned"]
  ELSE [row EXCEPT !.ref = @ - 1]

Released(row, t) ==
  IF row.ref = 1 /\ row.state = "ready"
  THEN [state |-> "orphaned", ref |-> 0, deletedAt |-> t, driver |-> row.driver]
  ELSE [row EXCEPT !.ref = @ - 1]

MarkedMissingIfOrphaned(row) ==
  IF row.state = "orphaned" THEN [row EXCEPT !.state = "missing"] ELSE row

MarkedMissing(row) ==
  IF row.state \in {"ready", "orphaned"} THEN [row EXCEPT !.state = "missing"] ELSE row

Adoptable(row, from) == row.driver = from /\ row.state \notin {"absent", "deleting"}

AdoptedAfresh(row, to) == NewRow(to, 0)

Adopted(row, to) ==
  [row EXCEPT !.driver = to,
              !.state = IF to = "db" /\ @ = "missing" THEN "ready" ELSE @]

(***************************************************************************)
(* Backend calls.  The db backend keeps the content in the row itself      *)
(* (objects.payload), so its Put and Delete also write the row; dir and s3 *)
(* hold content the table knows nothing about.                             *)
(***************************************************************************)
PutAccepted(d, k) == d = "db" => rows[k].state = "absent" \/ rows[k].driver = "db"

PutRow(row) ==
  CASE row.state = "absent"  -> NewRow("db", 0)
    [] row.state = "missing" -> [row EXCEPT !.state = "ready"]
    [] OTHER                 -> row

Put(d, k) ==
  /\ PutAccepted(d, k)
  /\ content' = [content EXCEPT ![d] = @ \cup {k}]
  /\ rows' = IF d = "db" THEN [rows EXCEPT ![k] = PutRow(@)] ELSE rows

DropPayload(row) ==
  [row EXCEPT !.deletedAt = IF @ = Never THEN now ELSE @,
              !.state = IF @ = "ready" THEN "missing" ELSE @]

DeleteContent(d, k) ==
  /\ content' = [content EXCEPT ![d] = @ \ {k}]
  /\ rows' = IF d = "db" /\ k \in content["db"]
             THEN [rows EXCEPT ![k] = DropPayload(@)] ELSE rows

(* Forget: the row goes, and with it the payload the db backend kept there. *)
ForgetRow(k) ==
  /\ rows' = [rows EXCEPT ![k] = IF @.state = "deleting" THEN NoRow ELSE @]
  /\ content' = IF rows[k].state = "deleting"
                THEN [content EXCEPT !["db"] = @ \ {k}] ELSE content

(***************************************************************************)
(* The dir backend's root lock: Ensure takes it without waiting, Close or  *)
(* the death of the process gives it back.  db and s3 have no such lock.   *)
(***************************************************************************)
CanOpenAlways(ds) == TRUE

CanOpen(ds) == "dir" \in ds => lock = "free"

Opened(p, ds) == IF "dir" \in ds THEN p ELSE lock

Closed(p) == IF lock = p THEN "free" ELSE lock

HoldsAlways(p, d) == TRUE

Holds(p, d) == d = "dir" => lock = p

RegistryInit ==
  /\ rows = [k \in Keys |-> NoRow]
  /\ reports = [k \in Keys |-> {}]
  /\ issued = {}
  /\ content = [d \in Drivers |-> {}]
  /\ driver \in Starts
  /\ lock = "free"
  /\ now = 0

Tick ==
  /\ now < MaxTime
  /\ now' = now + 1
  /\ UNCHANGED <<rows, reports, issued, content, driver, lock>>

RegistryTypeOK ==
  /\ rows \in [Keys -> Row]
  /\ reports \in [Keys -> SUBSET Reports]
  /\ issued \in SUBSET Reports
  /\ content \in [Drivers -> SUBSET Keys]
  /\ driver \in Drivers
  /\ lock \in {"free", "server", "gc", "verify", "migrate", "put"}
  /\ now \in Nat
=============================================================================
