---------------------------- MODULE BlobMigrate ----------------------------
(***************************************************************************)
(* `k8s-ai blobs migrate --to DRIVER [--prune-source]`: for every row of    *)
(* the configured driver, copy the content to the target, flip the row's    *)
(* driver with a compare-and-set, and only then delete the source copy.     *)
(* Also `k8s-ai blobs put`, which registers content by hand, and the        *)
(* operator's change of platform.blobs.driver that a migration prepares.    *)
(***************************************************************************)
EXTENDS ObjectRegistry

VARIABLES
  migrate,   \* the migration's progress
  putting    \* the key `blobs put` has written and not yet registered ({} or {k})

MigrateState == [pc : {"idle", "next", "read", "write", "adopt", "prune"},
                 to : Drivers \cup {"none"}, prune : BOOLEAN,
                 todo : SUBSET Keys, hand : SUBSET Keys]

MigrateIdle ==
  [pc |-> "idle", to |-> "none", prune |-> FALSE, todo |-> {}, hand |-> {}]

MigrateInit == migrate = MigrateIdle /\ putting = {}

MigrateTypeOK == migrate \in MigrateState /\ putting \subseteq Keys

NextRow == [migrate EXCEPT !.pc = "next", !.hand = {}]

MigrateStart(to, prune) ==
  /\ migrate.pc = "idle"
  /\ driver # to /\ CanOpen({driver, to})
  /\ lock' = Opened("migrate", {driver, to})
  /\ migrate' = [pc |-> "next", to |-> to, prune |-> prune, hand |-> {},
                 todo |-> {k \in Keys : /\ rows[k].state \notin {"absent", "deleting"}
                                        /\ rows[k].driver = driver}]
  /\ UNCHANGED <<rows, reports, issued, content, driver, now, putting>>

(* Content already on the target owes only the flip, except that a row can
   only be flipped to db together with its content. *)
MigrateStat(k) ==
  /\ migrate.pc = "next" /\ k \in migrate.todo
  /\ migrate' = [migrate EXCEPT
       !.pc = IF k \in content[migrate.to] /\ migrate.to # "db" THEN "adopt" ELSE "read",
       !.todo = @ \ {k}, !.hand = {k}]
  /\ UNCHANGED <<registry, putting>>

MigrateReadOnly ==
  /\ migrate.pc = "read"
  /\ migrate' = IF migrate.hand \subseteq content[driver]
                THEN [migrate EXCEPT !.pc = "adopt"] ELSE NextRow
  /\ UNCHANGED <<registry, putting>>

MigrateRead ==
  /\ migrate.pc = "read"
  /\ migrate' = IF migrate.hand \subseteq content[driver]
                THEN [migrate EXCEPT !.pc = IF migrate.to = "db" THEN "adopt" ELSE "write"]
                ELSE NextRow
  /\ UNCHANGED <<registry, putting>>

MigrateWrite ==
  /\ migrate.pc = "write"
  /\ content' = [content EXCEPT ![migrate.to] = @ \cup migrate.hand]
  /\ migrate' = [migrate EXCEPT !.pc = "adopt"]
  /\ UNCHANGED <<rows, reports, issued, driver, lock, now, putting>>

(* AdoptObject: the flip, the payload written with it (to db) and the payload
   dropped with it (from db, --prune-source) are one UPDATE. *)
MigrateAdopt ==
  /\ migrate.pc = "adopt"
  /\ \E k \in migrate.hand :
       /\ Adoptable(rows[k], driver)
       /\ rows' = [rows EXCEPT ![k] = Adopted(@, migrate.to)]
       /\ content' = [content EXCEPT !["db"] =
            CASE migrate.to = "db"               -> @ \cup {k}
              [] driver = "db" /\ migrate.prune  -> @ \ {k}
              [] OTHER                           -> @]
  /\ migrate' = IF migrate.prune /\ driver # "db"
                THEN [migrate EXCEPT !.pc = "prune"] ELSE NextRow
  /\ UNCHANGED <<reports, issued, driver, lock, now, putting>>

MigrateConflict ==
  /\ migrate.pc = "adopt"
  /\ \E k \in migrate.hand : ~Adoptable(rows[k], driver)
  /\ migrate' = NextRow
  /\ UNCHANGED <<registry, putting>>

MigratePrune ==
  /\ migrate.pc = "prune"
  /\ \E k \in migrate.hand : DeleteContent(driver, k)
  /\ migrate' = NextRow
  /\ UNCHANGED <<reports, issued, driver, lock, now, putting>>

(* A write or prune that is refused is counted as a failure and the run goes
   on; so is a read that breaks off or does not match its digest, which has a
   step of its own where the target is db and the content is read whole. *)
MigrateSkip ==
  /\ \/ migrate.pc \in {"write", "prune"}
     \/ migrate.pc = "read" /\ migrate.to = "db"
  /\ migrate' = NextRow
  /\ UNCHANGED <<registry, putting>>

(* Done, aborted by a database or backend error, interrupted, or dead. *)
MigrateEnd ==
  /\ migrate.pc # "idle"
  /\ migrate' = MigrateIdle
  /\ lock' = Closed("migrate")
  /\ UNCHANGED <<rows, reports, issued, content, driver, now, putting>>

(***************************************************************************)
(* `blobs put`: content first, then one transaction that acquires the       *)
(* object and releases it again, so that an uncited row is left orphaned    *)
(* and dated, in GC's sight.                                                *)
(***************************************************************************)
CliPut(k) ==
  /\ putting = {} /\ CanOpen({driver})
  /\ Put(driver, k)
  /\ lock' = Opened("put", {driver})
  /\ putting' = {k}
  /\ UNCHANGED <<reports, issued, driver, now, migrate>>

CliRegister(k) ==
  /\ k \in putting
  /\ Acquirable(rows[k])
  /\ rows' = [rows EXCEPT ![k] = Released(Acquired(@, driver), now)]
  /\ putting' = {}
  /\ lock' = Closed("put")
  /\ UNCHANGED <<reports, issued, content, driver, now, migrate>>

CliFail ==
  /\ putting # {}
  /\ putting' = {}
  /\ lock' = Closed("put")
  /\ UNCHANGED <<rows, reports, issued, content, driver, now, migrate>>

MigrateNext ==
  \/ \E to \in Backends, prune \in BOOLEAN : MigrateStart(to, prune)
  \/ \E k \in Keys : MigrateStat(k)
  \/ MigrateRead \/ MigrateWrite \/ MigrateAdopt \/ MigrateConflict
  \/ MigratePrune \/ MigrateSkip \/ MigrateEnd

CliPutNext == (\E k \in Keys : CliPut(k) \/ CliRegister(k)) \/ CliFail
=============================================================================
