----------------------------- MODULE BlobSystem -----------------------------
(***************************************************************************)
(* The object subsystem as it is deployed: one server and the operators'    *)
(* tools, separate processes over one database and one storage backend.     *)
(* Only the dir backend's root lock keeps a tool out while the server is    *)
(* serving, so over db and s3 everything interleaves.                       *)
(***************************************************************************)
EXTENDS ReportPlatform, BlobGC, BlobVerify, BlobMigrate

CONSTANT Active   \* the parts that take steps in this instance

Parts == {"server", "gc", "verify", "migrate", "put", "switch", "loss"}

ASSUME ActiveAssumption == Active \subseteq Parts

vars == <<registry, platform, gc, verify, migrate, putting>>

Init ==
  /\ RegistryInit
  /\ PlatformInit
  /\ GCInit
  /\ VerifyInit
  /\ MigrateInit

(* The operator edits platform.blobs.driver and restarts everything. *)
SwitchDriver(to) ==
  /\ ~Busy /\ lock = "free"
  /\ gc.pc = "idle" /\ verify.pc = "idle" /\ migrate.pc = "idle" /\ putting = {}
  /\ driver # to
  /\ driver' = to
  /\ UNCHANGED <<rows, reports, issued, content, lock, now,
                 platform, gc, verify, migrate, putting>>

(* Content disappears behind the system's back: a file removed by hand, a
   bucket restored from an older backup.  It is what verify is for. *)
ContentLost(k) ==
  /\ driver # "db" /\ k \in content[driver]
  /\ content' = [content EXCEPT ![driver] = @ \ {k}]
  /\ UNCHANGED <<rows, reports, issued, driver, lock, now,
                 platform, gc, verify, migrate, putting>>

ServerStep == PlatformNext /\ UNCHANGED <<gc, verify, migrate, putting>>
CollectStep == GCNext /\ UNCHANGED <<platform, verify, migrate, putting>>
VerifyStep == VerifyNext /\ UNCHANGED <<platform, gc, migrate, putting>>
MigrateStep == MigrateNext /\ UNCHANGED <<platform, gc, verify>>
PutStep == CliPutNext /\ UNCHANGED <<platform, gc, verify>>
ClockStep == Tick /\ UNCHANGED <<platform, gc, verify, migrate, putting>>

Next ==
  \/ "server" \in Active /\ ServerStep
  \/ "gc" \in Active /\ CollectStep
  \/ "verify" \in Active /\ VerifyStep
  \/ "migrate" \in Active /\ MigrateStep
  \/ "put" \in Active /\ PutStep
  \/ "switch" \in Active /\ \E to \in Backends : SwitchDriver(to)
  \/ "loss" \in Active /\ \E k \in Keys : ContentLost(k)
  \/ ClockStep

Spec == Init /\ [][Next]_vars

(***************************************************************************)
(* Fairness.  Time passes; a tool is run again and again, and although any  *)
(* run may be interrupted, not every run is interrupted at the same point.  *)
(* Nothing is assumed of the server's users.                                *)
(***************************************************************************)
Collecting(A) == A /\ UNCHANGED <<platform, verify, migrate, putting>>
Verifying(A) == A /\ UNCHANGED <<platform, gc, migrate, putting>>

CollectFairness ==
  /\ WF_vars(ClockStep)
  /\ WF_vars(Collecting(GCStep))
  /\ SF_vars(Collecting(GCReadRegistry))
  /\ SF_vars(Collecting(GCScan))
  /\ \A k \in Keys : /\ SF_vars(Collecting(GCClaim(k)))
                     /\ SF_vars(Collecting(GCSweep(k)))

VerifyFairness ==
  /\ WF_vars(Verifying(VerifyNext))
  /\ SF_vars(Verifying(VerifyScanned))
  /\ \A k \in Keys : /\ SF_vars(Verifying(VerifyStat(k)))
                     /\ SF_vars(Verifying(VerifyMark(k)))

CollectSpec == Spec /\ CollectFairness

MaintainSpec == Spec /\ CollectFairness /\ VerifyFairness

TypeOK ==
  /\ RegistryTypeOK
  /\ PlatformTypeOK
  /\ GCTypeOK
  /\ VerifyTypeOK
  /\ MigrateTypeOK

(***************************************************************************)
(* Safety.                                                                  *)
(***************************************************************************)
(* The reference count of an object is the number of report rows that cite
   it, whatever archives, deletes, uploads, collections and migrations
   interleave: InsertReport/Acquire and DeleteReport/Release stay paired. *)
RefCountMatches == \A k \in Keys : rows[k].ref = Cardinality(reports[k])

(* A report row is deleted without a release only when it is already gone: the
   decision DeleteProbe takes before the transaction never goes stale. *)
SkippedReleaseIsGone ==
  \A q \in deletes : q.phase = "skip" => q.report \notin reports[q.key]

(* An object GC has claimed is uncited and has been out of use for longer than
   the grace period, and stays so until it is forgotten. *)
ClaimedIsExpired ==
  \A k \in Keys : rows[k].state = "deleting" =>
    reports[k] = {} /\ rows[k].deletedAt # Never /\ rows[k].deletedAt + Grace < now

(* The db backend keeps content nowhere but in the object's row. *)
PayloadHasRow == \A k \in content["db"] : HasRow(k)

(* What these need to be inductive: an absent row is a row of defaults, a
   report id is drawn before it is used anywhere, a collection's cutoff lies a
   grace period back, and a migration to db writes no content on its own. *)
Inductive ==
  /\ TypeOK
  /\ \A k \in Keys : ~HasRow(k) => rows[k] = NoRow
  /\ \A k \in Keys : reports[k] \subseteq issued
  /\ \A q \in deletes : q.report \in issued
  /\ gc.pc # "idle" => gc.cutoff + Grace <= now
  /\ migrate.pc = "write" => migrate.to # "db"
  /\ PayloadHasRow
  /\ RefCountMatches
  /\ SkippedReleaseIsGone
  /\ ClaimedIsExpired

(* The dir backend: while a tool holds the root, the server serves nothing, so
   no archive or download is between two steps against that root. *)
DirExclusive ==
  (driver = "dir" /\ lock \notin {"free", "server"}) =>
    /\ \A w \in Writers : inflight[w] = {}
    /\ \A g \in downloads : g.phase = "get"

(* The operator keeps gc, verify and put for the time the driver is dir, whose
   root lock keeps them and the server apart; migrations and changes of driver
   go on between any two drivers.  The code does not ask for this: it is what
   NoDangling below needs of the operator. *)
LockedTools ==
  gc.pc # "idle" \/ verify.pc # "idle" \/ putting # {} => driver = "dir"

(* No dangling reference: the content of every cited object is in the backend
   its row names, or the row says that it is missing. *)
NoDangling ==
  \A k \in Cited : rows[k].state = "missing" \/ k \in content[rows[k].driver]

(* A row is marked missing only while its content really is not in the backend
   the row names: verify's and the download path's verdict is never stale.
   The code does not keep this (README, section 4). *)
MissingIsReal ==
  [][\A k \in Keys :
       (rows'[k].state = "missing" /\ rows[k].state # "missing")
         => k \notin content'[rows'[k].driver]]_vars

(* Every row nothing cites, and nothing is about to cite, is one GC will see,
   now or after the grace period.  The code does not keep this where a cited
   row was marked missing first, nor on db, where the put itself makes the row
   and an archive that ends before its transaction leaves it undated. *)
UncitedIsCollectable ==
  \A k \in Keys : /\ HasRow(k) /\ reports[k] = {}
                  /\ k \notin putting /\ \A w \in Writers : k \notin inflight[w]
    =>
    /\ rows[k].state \in {"orphaned", "missing", "deleting"}
    /\ rows[k].deletedAt # Never

(***************************************************************************)
(* Liveness.                                                                *)
(***************************************************************************)
(* An orphaned row is cited again or claimed, however often GC is interrupted
   (rows orphaned too late for the bounded clock to expire them excepted). *)
OrphanIsCollected ==
  \A k \in Keys :
    (rows[k].state = "orphaned" /\ rows[k].deletedAt + Grace < MaxTime)
      ~> (rows[k].state # "orphaned" \/ rows[k].deletedAt + Grace >= MaxTime)

(* Content no row names is deleted or gets a row: what an interrupted run
   leaves behind in the backend, a later run's inventory finds. *)
StrayContentIsSwept ==
  \A k \in Keys :
    (k \in content[driver] /\ ~HasRow(k)) ~> (k \notin content[driver] \/ HasRow(k))

(* A claimed row is eventually forgotten.
   The code does not keep this (README, section 4). *)
ClaimedIsForgotten ==
  \A k \in Keys : rows[k].state = "deleting" ~> rows[k].state # "deleting"

(* Lost content of a cited object is reported on its row, unless it is put
   again or the citations go first. *)
LossIsReported ==
  \A k \in Keys :
    (k \in Cited /\ k \notin content[rows[k].driver])
      ~> (k \notin Cited \/ rows[k].state = "missing" \/ k \in content[driver])

(***************************************************************************)
(* What the registry promises: CitedObjects.                                *)
(***************************************************************************)
Promise == INSTANCE CitedObjects WITH
  cites <- reports,
  held <- {k \in Keys : HasRow(k)},
  claimed <- {k \in Keys : rows[k].state = "deleting"}

ImplementsPromise == Promise!Spec
=============================================================================
