-------------------------- MODULE BlobSystem_proofs --------------------------
(***************************************************************************)
(* Theorems about BlobSystem, for every set of keys, finite set of report   *)
(* ids, set of writers, grace period, pair of drivers and choice of active  *)
(* parts.                                                                   *)
(***************************************************************************)
EXTENDS BlobSystem, FiniteSetTheorems, TLAPS

(***************************************************************************)
(* Statements on one row.                                                   *)
(***************************************************************************)
LEMMA NoRowType == NoRow \in Row
BY DEF NoRow, Row, Never

LEMMA NewRowType ==
  ASSUME NEW d \in Drivers \cup {"none"}, NEW n \in Nat
  PROVE  NewRow(d, n) \in Row /\ NewRow(d, n).ref = n /\ NewRow(d, n).state = "ready"
BY DEF NewRow, Row

LEMMA AcquiredRow ==
  ASSUME NEW row \in Row, NEW d \in Drivers, row.state = "absent" => row.ref = 0
  PROVE  /\ Acquired(row, d) \in Row
         /\ Acquired(row, d).ref = row.ref + 1
         /\ Acquired(row, d).state = "ready"
<1>1. row.ref + 1 \in Nat /\ row.driver \in Drivers \cup {"none"}
  BY DEF Row
<1>2. QED
  BY <1>1, NewRowType DEF Acquired

LEMMA ReleasedRow ==
  ASSUME NEW row \in Row, NEW t \in Nat, Releasable(row)
  PROVE  /\ Released(row, t) \in Row
         /\ Released(row, t).ref = row.ref - 1
         /\ Released(row, t).state = row.state \/ Released(row, t).state = "orphaned"
<1>1. row.ref - 1 \in Nat /\ row.driver \in Drivers \cup {"none"}
  BY DEF Releasable, Row
<1>2. CASE row.ref = 1 /\ row.state = "ready"
  BY <1>1, <1>2 DEF Released, Row
<1>3. CASE ~(row.ref = 1 /\ row.state = "ready")
  BY <1>1, <1>3 DEF Released, Row
<1>4. QED
  BY <1>2, <1>3

LEMMA MarkedMissingRow ==
  ASSUME NEW row \in Row
  PROVE  /\ MarkedMissing(row) \in Row
         /\ MarkedMissing(row).ref = row.ref
         /\ MarkedMissing(row).state = row.state \/ MarkedMissing(row).state = "missing"
         /\ row.state \in {"absent", "deleting"} => MarkedMissing(row) = row
BY DEF MarkedMissing, Row, Never

LEMMA AdoptedRow ==
  ASSUME NEW row \in Row, NEW d \in Drivers \cup {"none"}
  PROVE  /\ Adopted(row, d) \in Row
         /\ Adopted(row, d).ref = row.ref
         /\ Adopted(row, d).state = row.state \/ Adopted(row, d).state = "ready"
BY DEF Adopted, Row, Never

LEMMA PutRowRow ==
  ASSUME NEW row \in Row, row.state = "absent" => row.ref = 0
  PROVE  /\ PutRow(row) \in Row
         /\ PutRow(row).ref = row.ref
         /\ PutRow(row).state # "absent"
         /\ PutRow(row).state = "deleting" => PutRow(row) = row
BY DEF PutRow, NewRow, Row, Never, Drivers

LEMMA DropPayloadRow ==
  ASSUME NEW row \in Row, now \in Nat
  PROVE  /\ DropPayload(row) \in Row
         /\ DropPayload(row).ref = row.ref
         /\ DropPayload(row).state = row.state \/ DropPayload(row).state = "missing"
         /\ row.deletedAt # Never => DropPayload(row).deletedAt = row.deletedAt
BY DEF DropPayload, Row, Never

(***************************************************************************)
(* The inductive invariant in four parts: one over the registry, one over   *)
(* the server's requests, one over the collection's cutoff, one over the    *)
(* content and the tools.                                                   *)
(***************************************************************************)
RegistryPart ==
  /\ rows \in [Keys -> Row]
  /\ reports \in [Keys -> SUBSET Reports]
  /\ issued \in SUBSET Reports
  /\ now \in Nat
  /\ \A k \in Keys : ~HasRow(k) => rows[k] = NoRow
  /\ \A k \in Keys : reports[k] \subseteq issued
  /\ RefCountMatches
  /\ ClaimedIsExpired

RequestPart ==
  /\ PlatformTypeOK
  /\ \A q \in deletes : q.report \in issued
  /\ SkippedReleaseIsGone

CutoffPart == GCTypeOK /\ (gc.pc # "idle" => gc.cutoff + Grace <= now)

ContentPart ==
  /\ content \in [Drivers -> SUBSET Keys]
  /\ driver \in Drivers
  /\ lock \in {"free", "server", "gc", "verify", "migrate", "put"}
  /\ VerifyTypeOK
  /\ MigrateTypeOK
  /\ migrate.pc = "write" => migrate.to # "db"
  /\ PayloadHasRow

LEMMA InductiveParts ==
  Inductive <=> RegistryPart /\ RequestPart /\ CutoffPart /\ ContentPart
BY DEF Inductive, RegistryPart, RequestPart, CutoffPart, ContentPart, TypeOK,
       RegistryTypeOK, PlatformTypeOK, GCTypeOK, VerifyTypeOK, MigrateTypeOK

(* What a statement that is not about references may do to a row. *)
Kept(old, new) ==
  /\ new \in Row
  /\ new.ref = old.ref
  /\ new.state = "absent" => new = NoRow
  /\ new.state = "deleting" => old.state = "deleting" /\ new.deletedAt = old.deletedAt

LEMMA RowsKept ==
  ASSUME RegistryPart,
         DOMAIN rows' = Keys, rows' = [k \in Keys |-> rows'[k]],
         \A k \in Keys : Kept(rows[k], rows'[k]),
         UNCHANGED <<reports, issued, now>>
  PROVE  RegistryPart'
<1>1. rows' \in [Keys -> Row]
  BY DEF Kept
<1>2. (\A k \in Keys : ~HasRow(k) => rows[k] = NoRow)'
  BY DEF Kept, HasRow
<1>3. RefCountMatches'
  BY DEF RegistryPart, RefCountMatches, Kept
<1>4. ClaimedIsExpired'
  BY DEF RegistryPart, ClaimedIsExpired, Kept
<1>5. QED
  BY <1>1, <1>2, <1>3, <1>4 DEF RegistryPart

LEMMA RowsUnchanged ==
  ASSUME RegistryPart, UNCHANGED <<rows, reports, issued>>, now' \in Nat, now <= now'
  PROVE  RegistryPart'
<1>1. ClaimedIsExpired'
  <2> SUFFICES ASSUME NEW k \in Keys, rows[k].state = "deleting"
               PROVE  rows[k].deletedAt + Grace < now'
    BY DEF RegistryPart, ClaimedIsExpired
  <2>1. rows[k].deletedAt \in Nat /\ rows[k].deletedAt + Grace < now /\ now \in Nat
    BY DEF RegistryPart, ClaimedIsExpired, Row
  <2>2. QED
    BY <2>1, RegistryAssumption
<1>2. QED
  BY <1>1 DEF RegistryPart, RefCountMatches, HasRow

LEMMA RequestsUnchanged ==
  ASSUME RequestPart, UNCHANGED <<platform, reports, issued>>
  PROVE  RequestPart'
BY DEF RequestPart, PlatformTypeOK, SkippedReleaseIsGone, platform

LEMMA UncitedHasNoReference ==
  ASSUME RegistryPart, NEW k \in Keys
  PROVE  /\ IsFiniteSet(reports[k])
         /\ rows[k].ref \in Nat
         /\ rows[k].ref = 0 <=> reports[k] = {}
<1>1. reports[k] \subseteq Reports
  BY DEF RegistryPart
<1>2. IsFiniteSet(reports[k])
  BY <1>1, FS_Subset, RegistryAssumption
<1>3. Cardinality(reports[k]) = 0 <=> reports[k] = {}
  BY <1>2, FS_EmptySet
<1>4. QED
  BY <1>2, <1>3 DEF RegistryPart, RefCountMatches, Row

LEMMA KeptItself ==
  ASSUME RegistryPart, NEW k \in Keys
  PROVE  Kept(rows[k], rows[k])
BY DEF RegistryPart, Kept, HasRow

(* The registry starts in a state of the inductive invariant. *)
THEOREM InitInductive == Init => Inductive
<1> SUFFICES ASSUME Init PROVE RegistryPart /\ RequestPart /\ CutoffPart /\ ContentPart
  BY InductiveParts
<1> USE DEF Init, RegistryInit, PlatformInit, GCInit, VerifyInit, MigrateInit
<1>1. rows \in [Keys -> Row] /\ \A k \in Keys : rows[k] = NoRow
  BY NoRowType
<1>2. RefCountMatches
  BY <1>1, FS_EmptySet DEF RefCountMatches, NoRow
<1>3. RegistryPart
  BY <1>1, <1>2 DEF RegistryPart, ClaimedIsExpired, NoRow
<1>4. RequestPart
  BY DEF RequestPart, PlatformTypeOK, SkippedReleaseIsGone
<1>5. CutoffPart
  BY DEF CutoffPart, GCTypeOK, GCState, GCIdle
<1>6. ContentPart
  BY RegistryAssumption
     DEF ContentPart, PayloadHasRow, Drivers, VerifyTypeOK, VerifyState, VerifyIdle, MigrateTypeOK, MigrateState, MigrateIdle
<1>7. QED
  BY <1>3, <1>4, <1>5, <1>6

(***************************************************************************)
(* Every step preserves the invariant.  First the pieces that are shared:   *)
(* a backend call keeps the rows' references, and so does the clock.        *)
(***************************************************************************)
LEMMA OneRowKept ==
  ASSUME RegistryPart, NEW k \in Keys, NEW row, Kept(rows[k], row),
         rows' = [rows EXCEPT ![k] = row], UNCHANGED <<reports, issued, now>>
  PROVE  RegistryPart'
<1>1. rows \in [Keys -> Row]
  BY DEF RegistryPart
<1>2. \A j \in Keys : Kept(rows[j], rows'[j])
  BY <1>1, KeptItself
<1>3. QED
  BY <1>1, <1>2, RowsKept

LEMMA AbsentRef ==
  ASSUME RegistryPart, NEW k \in Keys
  PROVE  rows[k].state = "absent" => rows[k].ref = 0 /\ rows[k] = NoRow
BY DEF RegistryPart, HasRow, NoRow

LEMMA PutKeeps ==
  ASSUME RegistryPart, ContentPart, NEW k \in Keys, NEW d \in Drivers, Put(d, k),
         UNCHANGED <<reports, issued, now>>
  PROVE  RegistryPart' /\ content' \in [Drivers -> SUBSET Keys] /\ PayloadHasRow'
<1>1. content' \in [Drivers -> SUBSET Keys]
  BY DEF Put, ContentPart
<1>2. rows[k] \in Row /\ now \in Nat /\ now <= now' /\ rows \in [Keys -> Row]
  BY DEF RegistryPart
<1>3. content \in [Drivers -> SUBSET Keys] /\ PayloadHasRow
  BY DEF ContentPart
<1>4. CASE d = "db"
  <2>1. rows' = [rows EXCEPT ![k] = PutRow(rows[k])]
    BY <1>4 DEF Put
  <2>2. Kept(rows[k], PutRow(rows[k])) /\ PutRow(rows[k]).state # "absent"
    BY <1>2, AbsentRef, PutRowRow DEF Kept
  <2>3. PayloadHasRow'
    BY <1>2, <1>3, <1>4, <2>1, <2>2 DEF PayloadHasRow, HasRow, Put, Drivers
  <2>4. QED
    BY <1>1, <2>1, <2>2, <2>3, OneRowKept
<1>5. CASE d # "db"
  <2>1. PayloadHasRow'
    BY <1>3, <1>5 DEF PayloadHasRow, HasRow, Put, Drivers
  <2>2. QED
    BY <1>1, <1>2, <1>5, <2>1, RowsUnchanged DEF Put
<1>6. QED
  BY <1>4, <1>5

LEMMA DeleteContentKeeps ==
  ASSUME RegistryPart, ContentPart, NEW k \in Keys, NEW d \in Drivers, DeleteContent(d, k),
         UNCHANGED <<reports, issued, now>>
  PROVE  RegistryPart' /\ content' \in [Drivers -> SUBSET Keys] /\ PayloadHasRow'
<1>1. content' \in [Drivers -> SUBSET Keys]
  BY DEF DeleteContent, ContentPart
<1>2. rows[k] \in Row /\ now \in Nat /\ now <= now' /\ rows \in [Keys -> Row]
  BY DEF RegistryPart
<1>3. content \in [Drivers -> SUBSET Keys] /\ PayloadHasRow
  BY DEF ContentPart
<1>4. CASE d = "db" /\ k \in content["db"]
  <2>1. rows' = [rows EXCEPT ![k] = DropPayload(rows[k])]
    BY <1>4 DEF DeleteContent
  <2>2. rows[k].state # "absent"
    BY <1>3, <1>4 DEF PayloadHasRow, HasRow
  <2>3. rows[k].state = "deleting" => rows[k].deletedAt # Never
    BY DEF RegistryPart, ClaimedIsExpired
  <2>4. Kept(rows[k], DropPayload(rows[k])) /\ DropPayload(rows[k]).state # "absent"
    BY <1>2, <2>2, <2>3, DropPayloadRow DEF Kept
  <2>5. PayloadHasRow'
    BY <1>2, <1>3, <1>4, <2>1, <2>4 DEF PayloadHasRow, HasRow, DeleteContent, Drivers
  <2>6. QED
    BY <1>1, <2>1, <2>4, <2>5, OneRowKept
<1>5. CASE ~(d = "db" /\ k \in content["db"])
  <2>1. PayloadHasRow'
    BY <1>3, <1>5 DEF PayloadHasRow, HasRow, DeleteContent, Drivers
  <2>2. QED
    BY <1>1, <1>2, <1>5, <2>1, RowsUnchanged DEF DeleteContent
<1>6. QED
  BY <1>4, <1>5

LEMMA ContentUnchanged ==
  ASSUME ContentPart, UNCHANGED <<content, driver>>,
         lock' \in {"free", "server", "gc", "verify", "migrate", "put"},
         \A k \in Keys : HasRow(k) => HasRow(k)',
         UNCHANGED <<verify, migrate, putting>>
  PROVE  ContentPart'
BY DEF ContentPart, PayloadHasRow, VerifyTypeOK, MigrateTypeOK, Drivers

LEMMA LockType ==
  ASSUME ContentPart, NEW p \in {"server", "gc", "verify", "migrate", "put"}, NEW ds
  PROVE  /\ Closed(p) \in {"free", "server", "gc", "verify", "migrate", "put"}
         /\ Opened(p, ds) \in {"free", "server", "gc", "verify", "migrate", "put"}
BY DEF ContentPart, Closed, Opened

(***************************************************************************)
(* The collector.                                                           *)
(***************************************************************************)
LEMMA CollectStepInductive ==
  ASSUME Inductive, CollectStep
  PROVE  Inductive'
<1> USE DEF registry
<1>0. RegistryPart /\ RequestPart /\ CutoffPart /\ ContentPart
  BY InductiveParts
<1>1. RequestPart'
  BY <1>0, RequestsUnchanged DEF CollectStep, GCNext, GCStep, GCStart, GCClaim, GCRevived,
     GCSweep, GCForget, GCDelete, GCReadRegistry, GCScan, GCFinish, GCFail
<1>a. UNCHANGED <<reports, issued, driver, now>>
  BY DEF CollectStep, GCNext, GCStep, GCStart, GCClaim, GCRevived,
     GCSweep, GCForget, GCDelete, GCReadRegistry, GCScan, GCFinish, GCFail
<1>2. now \in Nat /\ now <= now' /\ now' = now /\ UNCHANGED <<reports, issued, driver>>
  BY <1>0, <1>a DEF RegistryPart
<1>3. driver \in Drivers /\ rows \in [Keys -> Row]
  BY <1>0 DEF ContentPart, RegistryPart
<1>4. UNCHANGED <<verify, migrate, putting>>
  BY DEF CollectStep
<1> DEFINE Others == /\ driver' \in Drivers /\ VerifyTypeOK' /\ MigrateTypeOK'
                     /\ migrate'.pc = "write" => migrate'.to # "db"
<1>5. Others
  BY <1>0, <1>2, <1>3, <1>4 DEF ContentPart, VerifyTypeOK, MigrateTypeOK
<1> SUFFICES RegistryPart' /\ CutoffPart' /\ ContentPart'
  BY <1>1, InductiveParts, PTL
<1>6. CASE GCStart
  <2>1. now - Grace + Grace <= now /\ now - Grace \in Int
    BY <1>2, RegistryAssumption
  <2>2. CutoffPart'
    BY <1>2, <1>6, <2>1 DEF CutoffPart, GCTypeOK, GCState, GCStart
  <2>3. QED
    BY <1>0, <1>2, <1>4, <1>6, <2>2, RowsUnchanged, ContentUnchanged, LockType DEF GCStart, HasRow
<1>7. ASSUME NEW k \in Keys, GCClaim(k)
      PROVE  RegistryPart' /\ CutoffPart' /\ ContentPart'
  <2>1. CutoffPart'
    BY <1>0, <1>2, <1>7 DEF CutoffPart, GCTypeOK, GCState, GCClaim
  <2>2. rows' = [rows EXCEPT ![k] = [rows[k] EXCEPT !.state = "deleting"]]
    BY <1>7 DEF GCClaim
  <2>3. rows[k] \in Row /\ rows[k].ref = 0 /\ rows[k].state # "absent"
    BY <1>3, <1>7 DEF GCClaim, Collectable
  <2>4. rows[k].deletedAt \in Nat /\ rows[k].deletedAt + Grace < now
    BY <1>0, <1>2, <1>3, <1>7, <2>3, RegistryAssumption
    DEF GCClaim, Collectable, CutoffPart, GCTypeOK, GCState, Row
  <2>5. reports[k] = {}
    BY <1>0, <2>3, UncitedHasNoReference
  <2>6. [rows[k] EXCEPT !.state = "deleting"] \in Row
    BY <2>3 DEF Row
  <2>7. RegistryPart'
    <3>1. rows' \in [Keys -> Row] /\ \A j \in Keys : rows'[j].ref = rows[j].ref
      BY <1>3, <2>2, <2>3, <2>6 DEF Row
    <3>2. ClaimedIsExpired'
      BY <1>0, <1>2, <1>3, <2>2, <2>3, <2>4, <2>5 DEF RegistryPart, ClaimedIsExpired, Never, Row
    <3>3. (\A j \in Keys : ~HasRow(j) => rows[j] = NoRow)'
      BY <1>0, <1>3, <2>2, <2>3 DEF RegistryPart, HasRow, Row
    <3>4. RefCountMatches'
      BY <1>0, <1>2, <3>1 DEF RegistryPart, RefCountMatches
    <3>5. QED
      BY <1>0, <1>2, <3>1, <3>2, <3>3, <3>4 DEF RegistryPart
  <2>8. \A j \in Keys : HasRow(j) => HasRow(j)'
    BY <1>3, <2>2, <2>3 DEF HasRow, Row
  <2>9. QED
    BY <1>0, <1>4, <1>7, <2>1, <2>7, <2>8, ContentUnchanged DEF GCClaim, ContentPart
<1>8. ASSUME NEW k \in Keys, GCRevived(k)
      PROVE  RegistryPart' /\ CutoffPart' /\ ContentPart'
  <2>1. CutoffPart'
    BY <1>0, <1>2, <1>8 DEF CutoffPart, GCTypeOK, GCState, GCRevived
  <2>2. QED
    BY <1>0, <1>2, <1>4, <1>8, <2>1, RowsUnchanged, ContentUnchanged DEF GCRevived, HasRow, ContentPart
<1>9. ASSUME NEW k \in Keys, GCSweep(k)
      PROVE  RegistryPart' /\ CutoffPart' /\ ContentPart'
  <2>1. CutoffPart'
    BY <1>0, <1>2, <1>9 DEF CutoffPart, GCTypeOK, GCState, GCSweep
  <2>2. RegistryPart' /\ content' \in [Drivers -> SUBSET Keys] /\ PayloadHasRow'
    BY <1>0, <1>2, <1>3, <1>9, DeleteContentKeeps DEF GCSweep
  <2>3. QED
    BY <1>0, <1>5, <1>9, <2>1, <2>2 DEF ContentPart, GCSweep
<1>10. CASE GCForget
  <2>1. PICK k \in gc.hand : ForgetRow(k)
    BY <1>10 DEF GCForget
  <2>2. k \in Keys /\ content \in [Drivers -> SUBSET Keys] /\ PayloadHasRow
    BY <1>0 DEF CutoffPart, GCTypeOK, GCState, ContentPart
  <2>3. CutoffPart'
    BY <1>0, <1>2, <1>10 DEF CutoffPart, GCTypeOK, GCState, GCForget
  <2>4. content' \in [Drivers -> SUBSET Keys]
    BY <2>1, <2>2 DEF ForgetRow
  <2>5. CASE rows[k].state = "deleting"
    <3>1. rows' = [rows EXCEPT ![k] = NoRow]
      BY <2>1, <2>5 DEF ForgetRow
    <3>2. rows[k].ref = 0
      BY <1>0, <2>2, <2>5, UncitedHasNoReference DEF RegistryPart, ClaimedIsExpired
    <3>3. Kept(rows[k], NoRow)
      BY <3>2, NoRowType DEF Kept, NoRow
    <3>4. PayloadHasRow'
      BY <1>3, <2>1, <2>2, <2>5, <3>1 DEF PayloadHasRow, HasRow, ForgetRow, Drivers
    <3>5. QED
      BY <1>0, <1>2, <1>5, <1>10, <2>2, <2>3, <2>4, <3>1, <3>3, <3>4, OneRowKept
      DEF ContentPart, GCForget
  <2>6. CASE rows[k].state # "deleting"
    <3>1. UNCHANGED <<rows, content>>
      BY <1>3, <2>1, <2>2, <2>6 DEF ForgetRow
    <3>2. QED
      BY <1>0, <1>2, <1>4, <1>10, <2>3, <3>1, RowsUnchanged, ContentUnchanged
      DEF HasRow, GCForget, ContentPart
  <2>7. QED
    BY <2>5, <2>6
<1>11. CASE GCDelete
  <2>1. PICK k \in gc.hand : DeleteContent(driver, k)
    BY <1>11 DEF GCDelete
  <2>2. k \in Keys
    BY <1>0 DEF CutoffPart, GCTypeOK, GCState
  <2>3. CutoffPart'
    BY <1>0, <1>2, <1>11 DEF CutoffPart, GCTypeOK, GCState, GCDelete
  <2>4. RegistryPart' /\ content' \in [Drivers -> SUBSET Keys] /\ PayloadHasRow'
    BY <1>0, <1>2, <1>3, <2>1, <2>2, DeleteContentKeeps
  <2>5. QED
    BY <1>0, <1>5, <1>11, <2>3, <2>4 DEF ContentPart, GCDelete
<1>12. CASE GCReadRegistry
  <2>1. CutoffPart'
    BY <1>0, <1>2, <1>12 DEF CutoffPart, GCTypeOK, GCState, GCReadRegistry
  <2>2. QED
    BY <1>0, <1>2, <1>4, <1>12, <2>1, RowsUnchanged, ContentUnchanged
    DEF GCReadRegistry, HasRow, ContentPart
<1>13. CASE GCScan
  <2>1. content[driver] \subseteq Keys
    BY <1>0 DEF ContentPart
  <2>2. CutoffPart'
    BY <1>0, <1>2, <1>13, <2>1 DEF CutoffPart, GCTypeOK, GCState, GCScan
  <2>3. QED
    BY <1>0, <1>2, <1>4, <1>13, <2>2, RowsUnchanged, ContentUnchanged DEF GCScan, HasRow, ContentPart
<1>14. CASE GCFinish \/ GCFail
  <2>1. CutoffPart'
    BY <1>14 DEF CutoffPart, GCTypeOK, GCState, GCIdle, GCFinish, GCFail
  <2>2. QED
    BY <1>0, <1>2, <1>4, <1>14, <2>1, RowsUnchanged, ContentUnchanged, LockType
    DEF GCFinish, GCFail, HasRow
<1>15. QED
  BY <1>6, <1>7, <1>8, <1>9, <1>10, <1>11, <1>12, <1>13, <1>14 DEF CollectStep, GCNext, GCStep

(***************************************************************************)
(* The server.                                                              *)
(***************************************************************************)
LEMMA ServerStepInductive ==
  ASSUME Inductive, ServerStep
  PROVE  Inductive'
<1> USE DEF registry
<1>0. RegistryPart /\ RequestPart /\ CutoffPart /\ ContentPart
  BY InductiveParts
<1>1. UNCHANGED <<gc, verify, migrate, putting>>
  BY DEF ServerStep
<1>2. UNCHANGED <<driver, now>>
  BY DEF ServerStep, PlatformNext, ServerOpen, ServerStop, ArchivePut, ArchiveCommit, ArchiveAbort,
     DeleteLookup, DeleteProbe, DeleteCommit, DeleteGiveUp, DownloadResolve, DownloadGet, DownloadMark
<1>3. now \in Nat /\ now <= now' /\ now' = now
  BY <1>0, <1>2 DEF RegistryPart
<1>4. driver \in Drivers /\ rows \in [Keys -> Row] /\ reports \in [Keys -> SUBSET Reports]
  BY <1>0 DEF ContentPart, RegistryPart
<1>5. CutoffPart'
  BY <1>0, <1>1, <1>3 DEF CutoffPart, GCTypeOK
<1>6. driver' \in Drivers /\ VerifyTypeOK' /\ MigrateTypeOK' /\ (migrate'.pc = "write" => migrate'.to # "db")
  BY <1>0, <1>1, <1>2, <1>4 DEF ContentPart, VerifyTypeOK, MigrateTypeOK
<1> SUFFICES RegistryPart' /\ RequestPart' /\ ContentPart'
  BY <1>5, InductiveParts, PTL
<1>7. CASE ServerOpen \/ ServerStop
  <2>1. RequestPart'
    BY <1>0, <1>7 DEF RequestPart, PlatformTypeOK, SkippedReleaseIsGone, ServerOpen, ServerStop, platform
  <2>2. QED
    BY <1>0, <1>1, <1>3, <1>7, <2>1, RowsUnchanged, ContentUnchanged, LockType
    DEF ServerOpen, ServerStop, HasRow
<1>8. ASSUME NEW w \in Writers, NEW k \in Keys, ArchivePut(w, k)
      PROVE  RegistryPart' /\ RequestPart' /\ ContentPart'
  <2>1. RegistryPart' /\ content' \in [Drivers -> SUBSET Keys] /\ PayloadHasRow'
    BY <1>0, <1>3, <1>4, <1>8, PutKeeps DEF ArchivePut
  <2>2. issued' = issued /\ reports' = reports /\ deletes' = deletes /\ downloads' = downloads
    BY <1>8 DEF ArchivePut, Put
  <2>3. RequestPart'
    BY <1>0, <1>8, <2>2 DEF RequestPart, PlatformTypeOK, SkippedReleaseIsGone, ArchivePut
  <2>4. QED
    BY <1>0, <1>6, <1>8, <2>1, <2>3 DEF ContentPart, ArchivePut
<1>9. ASSUME NEW w \in Writers, NEW k \in Keys, NEW r \in Reports, ArchiveCommit(w, k, r)
      PROVE  RegistryPart' /\ RequestPart' /\ ContentPart'
  <2>1. rows' = [rows EXCEPT ![k] = Acquired(rows[k], driver)]
    BY <1>9 DEF ArchiveCommit
  <2>2. /\ rows[k] \in Row /\ rows[k].state # "deleting"
        /\ Acquired(rows[k], driver) \in Row
        /\ Acquired(rows[k], driver).ref = rows[k].ref + 1
        /\ Acquired(rows[k], driver).state = "ready"
    BY <1>0, <1>4, <1>9, AcquiredRow, AbsentRef DEF ArchiveCommit, Acquirable
  <2>3. reports' = [reports EXCEPT ![k] = reports[k] \cup {r}] /\ issued' = issued \cup {r} /\ r \notin issued
    BY <1>9 DEF ArchiveCommit
  <2>4. r \notin reports[k] /\ IsFiniteSet(reports[k])
    BY <1>0, <2>3, UncitedHasNoReference DEF RegistryPart
  <2>5. Cardinality(reports[k] \cup {r}) = Cardinality(reports[k]) + 1
    BY <2>4, FS_AddElement
  <2>6. RefCountMatches'
    BY <1>0, <1>4, <2>1, <2>2, <2>3, <2>5 DEF RegistryPart, RefCountMatches
  <2>7. rows' \in [Keys -> Row] /\ reports' \in [Keys -> SUBSET Reports] /\ issued' \in SUBSET Reports
    BY <1>0, <1>4, <2>1, <2>2, <2>3 DEF RegistryPart
  <2>8. ClaimedIsExpired'
    BY <1>0, <1>3, <1>4, <2>1, <2>2, <2>3 DEF RegistryPart, ClaimedIsExpired
  <2>9. (\A j \in Keys : ~HasRow(j) => rows[j] = NoRow)' /\ (\A j \in Keys : HasRow(j) => HasRow(j)')
    BY <1>0, <1>4, <2>1, <2>2 DEF RegistryPart, HasRow
  <2>10. (\A j \in Keys : reports[j] \subseteq issued)'
    BY <1>0, <1>4, <2>3 DEF RegistryPart
  <2>11. RegistryPart'
    BY <1>3, <2>6, <2>7, <2>8, <2>9, <2>10 DEF RegistryPart
  <2>12. RequestPart'
    BY <1>0, <1>4, <1>9, <2>3 DEF RequestPart, PlatformTypeOK, SkippedReleaseIsGone, ArchiveCommit,
       DeleteRequest
  <2>13. QED
    BY <1>0, <1>1, <1>9, <2>9, <2>11, <2>12, ContentUnchanged DEF ArchiveCommit, ContentPart
<1>10. ASSUME NEW w \in Writers, ArchiveAbort(w)
       PROVE  RegistryPart' /\ RequestPart' /\ ContentPart'
  <2>1. RequestPart'
    BY <1>0, <1>10 DEF RequestPart, PlatformTypeOK, SkippedReleaseIsGone, ArchiveAbort
  <2>2. QED
    BY <1>0, <1>1, <1>3, <1>10, <2>1, RowsUnchanged, ContentUnchanged DEF ArchiveAbort, HasRow, ContentPart
<1>11. ASSUME NEW k \in Keys, NEW r \in Reports, DeleteLookup(k, r)
       PROVE  RegistryPart' /\ RequestPart' /\ ContentPart'
  <2>1. r \in issued
    BY <1>0, <1>11 DEF RegistryPart, DeleteLookup
  <2>2. RequestPart'
    BY <1>0, <1>11, <2>1 DEF RequestPart, PlatformTypeOK, SkippedReleaseIsGone, DeleteLookup, DeleteRequest
  <2>3. QED
    BY <1>0, <1>1, <1>3, <1>11, <2>2, RowsUnchanged, ContentUnchanged DEF DeleteLookup, HasRow, ContentPart
<1>12. ASSUME NEW q \in deletes, DeleteProbe(q)
       PROVE  RegistryPart' /\ RequestPart' /\ ContentPart'
  <2>1. q \in DeleteRequest /\ q.key \in Keys
    BY <1>0 DEF RequestPart, PlatformTypeOK, DeleteRequest
  <2>2. PICK p \in {"release", "skip"} :
          /\ deletes' = (deletes \ {q}) \cup {[q EXCEPT !.phase = p]}
          /\ p = "skip" => ~(HasRow(q.key) /\ rows[q.key].ref > 0)
    BY <1>12 DEF DeleteProbe
  <2>3. p = "skip" => reports[q.key] = {}
    <3>1. ~HasRow(q.key) => rows[q.key].ref = 0
      BY <1>0, <2>1, AbsentRef DEF HasRow
    <3>2. rows[q.key].ref \in Nat
      BY <1>0, <2>1, UncitedHasNoReference
    <3>3. QED
      BY <1>0, <2>1, <2>2, <3>1, <3>2, UncitedHasNoReference
  <2>4. [q EXCEPT !.phase = p] \in DeleteRequest
    BY <2>1 DEF DeleteRequest
  <2>5. RequestPart'
    BY <1>0, <1>12, <2>1, <2>2, <2>3, <2>4
    DEF RequestPart, PlatformTypeOK, SkippedReleaseIsGone, DeleteProbe, DeleteRequest
  <2>6. QED
    BY <1>0, <1>1, <1>3, <1>12, <2>5, RowsUnchanged, ContentUnchanged DEF DeleteProbe, HasRow, ContentPart
<1>13. ASSUME NEW q \in deletes, DeleteCommit(q)
       PROVE  RegistryPart' /\ RequestPart' /\ ContentPart'
  <2> DEFINE k == q.key
             r == q.report
  <2>1. k \in Keys /\ r \in reports[k]
    BY <1>0, <1>13 DEF RequestPart, PlatformTypeOK, DeleteRequest, DeleteCommit
  <2>2. q.phase = "release" /\ Releasable(rows[k])
    BY <1>0, <1>13, <2>1 DEF RequestPart, PlatformTypeOK, DeleteRequest, DeleteCommit, SkippedReleaseIsGone
  <2>3. rows' = [rows EXCEPT ![k] = Released(rows[k], now)]
    BY <1>13, <2>2 DEF DeleteCommit
  <2>4. /\ rows[k] \in Row
        /\ Released(rows[k], now) \in Row
        /\ Released(rows[k], now).ref = rows[k].ref - 1
        /\ Released(rows[k], now).state = rows[k].state \/ Released(rows[k], now).state = "orphaned"
    BY <1>3, <1>4, <2>1, <2>2, ReleasedRow
  <2>5. rows[k].state \notin {"absent", "deleting"}
    BY <1>0, <2>1, <2>2, AbsentRef DEF RegistryPart, ClaimedIsExpired, Releasable
  <2>6. reports' = [reports EXCEPT ![k] = reports[k] \ {r}] /\ UNCHANGED issued
    BY <1>13 DEF DeleteCommit
  <2>7. Cardinality(reports[k] \ {r}) = Cardinality(reports[k]) - 1
    BY <1>0, <2>1, UncitedHasNoReference, FS_RemoveElement
  <2>8. RefCountMatches'
    BY <1>0, <1>4, <2>1, <2>3, <2>4, <2>6, <2>7 DEF RegistryPart, RefCountMatches
  <2>9. rows' \in [Keys -> Row] /\ reports' \in [Keys -> SUBSET Reports]
    BY <1>4, <2>1, <2>3, <2>4, <2>6
  <2>10. ClaimedIsExpired'
    BY <1>0, <1>3, <1>4, <2>1, <2>3, <2>4, <2>5, <2>6 DEF RegistryPart, ClaimedIsExpired
  <2>11. (\A j \in Keys : ~HasRow(j) => rows[j] = NoRow)' /\ (\A j \in Keys : HasRow(j) => HasRow(j)')
    BY <1>0, <1>4, <2>1, <2>3, <2>4, <2>5 DEF RegistryPart, HasRow
  <2>12. (\A j \in Keys : reports[j] \subseteq issued)'
    BY <1>0, <1>4, <2>6 DEF RegistryPart
  <2>13. RegistryPart'
    BY <1>0, <1>3, <2>6, <2>8, <2>9, <2>10, <2>11, <2>12 DEF RegistryPart
  <2>14. RequestPart'
    BY <1>0, <1>4, <1>13, <2>1, <2>6
    DEF RequestPart, PlatformTypeOK, SkippedReleaseIsGone, DeleteCommit, DeleteRequest
  <2>15. QED
    BY <1>0, <1>1, <1>13, <2>11, <2>13, <2>14, ContentUnchanged DEF DeleteCommit, ContentPart
<1>14. ASSUME NEW q \in deletes, DeleteGiveUp(q)
       PROVE  RegistryPart' /\ RequestPart' /\ ContentPart'
  <2>1. RequestPart'
    BY <1>0, <1>14 DEF RequestPart, PlatformTypeOK, SkippedReleaseIsGone, DeleteGiveUp
  <2>2. QED
    BY <1>0, <1>1, <1>3, <1>14, <2>1, RowsUnchanged, ContentUnchanged DEF DeleteGiveUp, HasRow, ContentPart
<1>15. ASSUME NEW k \in Keys, DownloadResolve(k)
       PROVE  RegistryPart' /\ RequestPart' /\ ContentPart'
  <2>1. RequestPart'
    BY <1>0, <1>15 DEF RequestPart, PlatformTypeOK, SkippedReleaseIsGone, DownloadResolve, Download
  <2>2. QED
    BY <1>0, <1>1, <1>3, <1>15, <2>1, RowsUnchanged, ContentUnchanged DEF DownloadResolve, HasRow, ContentPart
<1>16. ASSUME NEW g \in downloads, DownloadGet(g)
       PROVE  RegistryPart' /\ RequestPart' /\ ContentPart'
  <2>1. downloads' \subseteq Download
    BY <1>0, <1>16 DEF RequestPart, PlatformTypeOK, DownloadGet, Download
  <2>2. RequestPart'
    BY <1>0, <1>16, <2>1 DEF RequestPart, PlatformTypeOK, SkippedReleaseIsGone, DownloadGet
  <2>3. QED
    BY <1>0, <1>1, <1>3, <1>16, <2>2, RowsUnchanged, ContentUnchanged DEF DownloadGet, HasRow, ContentPart
<1>17. ASSUME NEW g \in downloads, DownloadMark(g)
       PROVE  RegistryPart' /\ RequestPart' /\ ContentPart'
  <2>1. g.key \in Keys
    BY <1>0 DEF RequestPart, PlatformTypeOK, Download
  <2>2. rows' = [rows EXCEPT ![g.key] = MarkedMissing(rows[g.key])] /\ UNCHANGED <<reports, issued>>
    BY <1>17 DEF DownloadMark
  <2>3. Kept(rows[g.key], MarkedMissing(rows[g.key]))
        /\ (HasRow(g.key) => MarkedMissing(rows[g.key]).state # "absent")
    BY <1>0, <1>4, <2>1, AbsentRef, MarkedMissingRow DEF Kept, HasRow
  <2>4. RegistryPart'
    BY <1>0, <1>3, <2>1, <2>2, <2>3, OneRowKept
  <2>5. \A j \in Keys : HasRow(j) => HasRow(j)'
    BY <1>4, <2>1, <2>2, <2>3 DEF HasRow
  <2>6. RequestPart'
    BY <1>0, <1>17 DEF RequestPart, PlatformTypeOK, SkippedReleaseIsGone, DownloadMark
  <2>7. QED
    BY <1>0, <1>1, <1>17, <2>4, <2>5, <2>6, ContentUnchanged DEF DownloadMark, ContentPart
<1>18. QED
  BY <1>7, <1>8, <1>9, <1>10, <1>11, <1>12, <1>13, <1>14, <1>15, <1>16, <1>17 DEF ServerStep, PlatformNext

(***************************************************************************)
(* The other tools, the clock and the environment.                          *)
(***************************************************************************)
LEMMA MarkKeeps ==
  ASSUME RegistryPart, NEW k \in Keys, rows' = [rows EXCEPT ![k] = MarkedMissing(rows[k])],
         UNCHANGED <<reports, issued, now>>
  PROVE  RegistryPart' /\ \A j \in Keys : HasRow(j) => HasRow(j)'
<1>1. rows \in [Keys -> Row]
  BY DEF RegistryPart
<1>2. Kept(rows[k], MarkedMissing(rows[k]))
      /\ (HasRow(k) => MarkedMissing(rows[k]).state # "absent")
  BY <1>1, AbsentRef, MarkedMissingRow DEF Kept, HasRow
<1>3. QED
  BY <1>1, <1>2, OneRowKept DEF HasRow

LEMMA VerifyStepInductive ==
  ASSUME Inductive, VerifyStep
  PROVE  Inductive'
<1> USE DEF registry
<1>0. RegistryPart /\ RequestPart /\ CutoffPart /\ ContentPart
  BY InductiveParts
<1>1. UNCHANGED <<platform, gc, migrate, putting, reports, issued, content, driver, now>>
  BY DEF VerifyStep, VerifyNext, VerifyStart, VerifyScanned, VerifyEnd, VerifyStat, VerifyMark
<1>2. now \in Nat /\ now <= now' /\ now' = now
  BY <1>0, <1>1 DEF RegistryPart
<1>3. RequestPart' /\ CutoffPart'
  BY <1>0, <1>1, <1>2, RequestsUnchanged DEF CutoffPart, GCTypeOK
<1>4. /\ content' \in [Drivers -> SUBSET Keys] /\ driver' \in Drivers /\ MigrateTypeOK'
      /\ migrate'.pc = "write" => migrate'.to # "db"
  BY <1>0, <1>1 DEF ContentPart, MigrateTypeOK
<1>5. VerifyTypeOK' /\ lock' \in {"free", "server", "gc", "verify", "migrate", "put"}
  <2>1. lock' \in {"free", "server", "gc", "verify", "migrate", "put"}
    BY <1>0, LockType DEF ContentPart, VerifyStep, VerifyNext, VerifyStart, VerifyScanned,
       VerifyEnd, VerifyStat, VerifyMark
  <2>2. verify \in VerifyState
    BY <1>0 DEF ContentPart, VerifyTypeOK
  <2> SUFFICES VerifyTypeOK'
    BY <2>1
  <2>3. CASE VerifyStart \/ VerifyEnd
    BY <2>3 DEF VerifyStart, VerifyEnd, VerifyIdle, VerifyState, VerifyTypeOK
  <2>4. ASSUME NEW k \in Keys, VerifyStat(k) \/ VerifyMark(k) PROVE VerifyTypeOK'
    <3>1. verify.todo \ {k} \in SUBSET Keys /\ verify.lost \ {k} \in SUBSET Keys
          /\ verify.lost \cup {k} \in SUBSET Keys
      BY <2>2 DEF VerifyState
    <3>2. CASE VerifyStat(k)
      BY <2>2, <3>1, <3>2 DEF VerifyStat, VerifyState, VerifyTypeOK
    <3>3. CASE VerifyMark(k)
      BY <2>2, <3>1, <3>3 DEF VerifyMark, VerifyState, VerifyTypeOK
    <3>4. QED
      BY <2>4, <3>2, <3>3
  <2>5. CASE VerifyScanned
    BY <2>2, <2>5 DEF VerifyScanned, VerifyState, VerifyTypeOK
  <2>6. QED
    BY <2>3, <2>4, <2>5 DEF VerifyStep, VerifyNext
<1>6. RegistryPart' /\ \A j \in Keys : HasRow(j) => HasRow(j)'
  <2>1. CASE \E k \in Keys : VerifyMark(k)
    BY <1>0, <1>1, <2>1, MarkKeeps DEF VerifyMark
  <2>2. CASE UNCHANGED rows
    BY <1>0, <1>1, <1>2, <2>2, RowsUnchanged DEF HasRow
  <2>3. QED
    BY <2>1, <2>2 DEF VerifyStep, VerifyNext, VerifyStart, VerifyScanned, VerifyEnd, VerifyStat
<1>7. ContentPart'
  BY <1>0, <1>1, <1>4, <1>5, <1>6 DEF ContentPart, PayloadHasRow, Drivers
<1>8. QED
  BY <1>3, <1>6, <1>7, InductiveParts, PTL

LEMMA MigrateStepInductive ==
  ASSUME Inductive, MigrateStep
  PROVE  Inductive'
<1> USE DEF registry
<1>0. RegistryPart /\ RequestPart /\ CutoffPart /\ ContentPart
  BY InductiveParts
<1>1. UNCHANGED <<platform, gc, verify, putting, reports, issued, driver, now>>
  BY DEF MigrateStep, MigrateNext, MigrateStart, MigrateStat, MigrateRead, MigrateWrite, MigrateAdopt,
     MigrateConflict, MigratePrune, MigrateSkip, MigrateEnd
<1>2. now \in Nat /\ now <= now' /\ now' = now /\ rows \in [Keys -> Row]
  BY <1>0, <1>1 DEF RegistryPart
<1>3. RequestPart' /\ CutoffPart'
  BY <1>0, <1>1, <1>2, RequestsUnchanged DEF CutoffPart, GCTypeOK
<1>4. /\ driver \in Drivers /\ driver' \in Drivers /\ VerifyTypeOK' /\ migrate.hand \subseteq Keys
      /\ content \in [Drivers -> SUBSET Keys] /\ PayloadHasRow /\ migrate.to \in Drivers \cup {"none"}
  BY <1>0, <1>1, RegistryAssumption
  DEF ContentPart, VerifyTypeOK, MigrateTypeOK, MigrateState
<1>5. MigrateTypeOK'
  <2>1. migrate \in MigrateState /\ putting' = putting /\ putting \subseteq Keys
    BY <1>0, <1>1 DEF ContentPart, MigrateTypeOK
  <2>2. NextRow \in MigrateState
    BY <2>1 DEF NextRow, MigrateState
  <2>3. MigrateIdle \in MigrateState
    BY DEF MigrateIdle, MigrateState
  <2>4. ASSUME NEW to \in Backends, NEW prune \in BOOLEAN, MigrateStart(to, prune)
        PROVE  migrate' \in MigrateState
    BY <2>4, RegistryAssumption DEF MigrateStart, MigrateState
  <2>5. ASSUME NEW k \in Keys, MigrateStat(k) PROVE migrate' \in MigrateState
    BY <2>1, <2>5 DEF MigrateStat, MigrateState
  <2>6. CASE MigrateRead
    BY <2>1, <2>2, <2>6 DEF MigrateRead, MigrateState, MigrateTypeOK
  <2>7. CASE MigrateWrite \/ MigrateAdopt
    BY <2>1, <2>2, <2>7 DEF MigrateWrite, MigrateAdopt, MigrateState, MigrateTypeOK
  <2>8. CASE MigrateConflict \/ MigratePrune \/ MigrateSkip \/ MigrateEnd
    BY <2>1, <2>2, <2>3, <2>8 DEF MigrateConflict, MigratePrune, MigrateSkip, MigrateEnd, MigrateTypeOK
  <2>9. QED
    BY <2>1, <2>4, <2>5, <2>6, <2>7, <2>8 DEF MigrateStep, MigrateNext, MigrateTypeOK
<1>6. lock' \in {"free", "server", "gc", "verify", "migrate", "put"}
  BY <1>0, LockType DEF ContentPart, MigrateStep, MigrateNext, MigrateStart, MigrateStat, MigrateRead,
     MigrateWrite, MigrateAdopt, MigrateConflict, MigratePrune, MigrateSkip, MigrateEnd
<1>7. migrate'.pc = "write" => migrate'.to # "db"
  <2>1. migrate \in MigrateState /\ NextRow.pc = "next"
    BY <1>0 DEF ContentPart, MigrateTypeOK, MigrateState, NextRow
  <2>2. CASE MigrateRead
    BY <2>1, <2>2 DEF MigrateRead, MigrateState
  <2>3. ASSUME NEW to \in Backends, NEW prune \in BOOLEAN, MigrateStart(to, prune)
        PROVE  migrate'.pc # "write"
    BY <2>3 DEF MigrateStart
  <2>4. CASE MigrateEnd
    BY <2>4 DEF MigrateEnd, MigrateIdle
  <2>5. CASE \E k \in Keys : MigrateStat(k)
    BY <2>1, <2>5 DEF MigrateStat, MigrateState
  <2>6. CASE MigrateWrite \/ MigrateAdopt
    BY <2>1, <2>6 DEF MigrateWrite, MigrateAdopt, MigrateState
  <2>7. CASE MigrateConflict \/ MigratePrune \/ MigrateSkip
    BY <2>1, <2>7 DEF MigrateConflict, MigratePrune, MigrateSkip
  <2>8. QED
    BY <2>2, <2>3, <2>5, <2>6, <2>7, <2>4 DEF MigrateStep, MigrateNext
<1>8. RegistryPart' /\ content' \in [Drivers -> SUBSET Keys] /\ PayloadHasRow'
  <2>1. CASE UNCHANGED <<rows, content>>
    BY <1>0, <1>1, <1>2, <1>4, <2>1, RowsUnchanged DEF PayloadHasRow, HasRow
  <2>2. CASE MigrateWrite
    <3>1. /\ content' = [content EXCEPT ![migrate.to] = content[migrate.to] \cup migrate.hand]
          /\ migrate.to # "db" /\ UNCHANGED rows
      BY <1>0, <2>2 DEF MigrateWrite, ContentPart
    <3>2. content' \in [Drivers -> SUBSET Keys] /\ content'["db"] = content["db"]
      BY <1>4, <3>1 DEF Drivers
    <3>3. QED
      BY <1>0, <1>1, <1>2, <1>4, <3>1, <3>2, RowsUnchanged DEF PayloadHasRow, HasRow
  <2>3. CASE MigrateAdopt
    <3>1. PICK k \in migrate.hand :
            /\ Adoptable(rows[k], driver)
            /\ rows' = [rows EXCEPT ![k] = Adopted(rows[k], migrate.to)]
            /\ content' = [content EXCEPT !["db"] =
                 CASE migrate.to = "db"               -> content["db"] \cup {k}
                   [] driver = "db" /\ migrate.prune  -> content["db"] \ {k}
                   [] OTHER                           -> content["db"]]
      BY <2>3 DEF MigrateAdopt
    <3>2. k \in Keys /\ rows[k] \in Row
      BY <1>2, <1>4
    <3>3. Kept(rows[k], Adopted(rows[k], migrate.to)) /\ Adopted(rows[k], migrate.to).state # "absent"
      BY <1>4, <3>1, <3>2, AdoptedRow DEF Kept, Adoptable
    <3>4. content' \in [Drivers -> SUBSET Keys] /\ content'["db"] \subseteq content["db"] \cup {k}
      BY <1>4, <3>1, <3>2 DEF Drivers
    <3>5. PayloadHasRow'
      BY <1>2, <1>4, <3>1, <3>2, <3>3, <3>4 DEF PayloadHasRow, HasRow, Drivers
    <3>6. QED
      BY <1>0, <1>1, <3>1, <3>2, <3>3, <3>4, <3>5, OneRowKept
  <2>4. CASE MigratePrune
    BY <1>0, <1>1, <1>4, <2>4, DeleteContentKeeps DEF MigratePrune
  <2>5. QED
    BY <2>1, <2>2, <2>3, <2>4 DEF MigrateStep, MigrateNext, MigrateStart, MigrateStat, MigrateRead,
       MigrateConflict, MigrateSkip, MigrateEnd
<1>9. ContentPart'
  BY <1>4, <1>5, <1>6, <1>7, <1>8 DEF ContentPart
<1>10. QED
  BY <1>3, <1>8, <1>9, InductiveParts, PTL

LEMMA PutStepInductive ==
  ASSUME Inductive, PutStep
  PROVE  Inductive'
<1>0. RegistryPart /\ RequestPart /\ CutoffPart /\ ContentPart
  BY InductiveParts
<1>1. UNCHANGED <<platform, gc, verify, migrate, reports, issued, driver, now>>
  BY DEF PutStep, CliPutNext, CliPut, CliRegister, CliFail
<1>2. now \in Nat /\ now <= now' /\ now' = now /\ rows \in [Keys -> Row]
  BY <1>0, <1>1 DEF RegistryPart
<1>3. RequestPart' /\ CutoffPart'
  BY <1>0, <1>1, <1>2, RequestsUnchanged DEF CutoffPart, GCTypeOK
<1>4. driver \in Drivers /\ content \in [Drivers -> SUBSET Keys] /\ PayloadHasRow
  BY <1>0 DEF ContentPart
<1>5. /\ driver' \in Drivers /\ VerifyTypeOK' /\ MigrateTypeOK'
      /\ migrate'.pc = "write" => migrate'.to # "db"
      /\ lock' \in {"free", "server", "gc", "verify", "migrate", "put"}
  BY <1>0, <1>1, LockType DEF ContentPart, VerifyTypeOK, MigrateTypeOK, PutStep, CliPutNext, CliPut,
     CliRegister, CliFail
<1>6. RegistryPart' /\ content' \in [Drivers -> SUBSET Keys] /\ PayloadHasRow'
  <2>1. ASSUME NEW k \in Keys, CliPut(k)
        PROVE  RegistryPart' /\ content' \in [Drivers -> SUBSET Keys] /\ PayloadHasRow'
    BY <1>0, <1>1, <1>4, <2>1, PutKeeps DEF CliPut
  <2>2. ASSUME NEW k \in Keys, CliRegister(k)
        PROVE  RegistryPart' /\ content' \in [Drivers -> SUBSET Keys] /\ PayloadHasRow'
    <3> DEFINE acq == Acquired(rows[k], driver)
               row == Released(acq, now)
    <3>1. rows' = [rows EXCEPT ![k] = row] /\ UNCHANGED content /\ rows[k].state # "deleting"
      BY <2>2 DEF CliRegister, Acquirable
    <3>2. acq \in Row /\ acq.ref = rows[k].ref + 1 /\ acq.state = "ready" /\ rows[k].ref \in Nat
      BY <1>0, <1>2, <1>4, AcquiredRow, AbsentRef, UncitedHasNoReference
    <3>3. Releasable(acq)
      BY <3>2 DEF Releasable
    <3>4. row \in Row /\ row.ref = rows[k].ref /\ row.state \in {"ready", "orphaned"}
      BY <1>2, <3>2, <3>3, ReleasedRow
    <3>5. Kept(rows[k], row)
      BY <3>4 DEF Kept
    <3>6. PayloadHasRow'
      BY <1>2, <1>4, <3>1, <3>4 DEF PayloadHasRow, HasRow
    <3>7. QED
      BY <1>0, <1>1, <1>4, <3>1, <3>5, <3>6, OneRowKept
  <2>3. CASE CliFail
    BY <1>0, <1>1, <1>2, <1>4, <2>3, RowsUnchanged DEF CliFail, PayloadHasRow, HasRow
  <2>4. QED
    BY <2>1, <2>2, <2>3 DEF PutStep, CliPutNext
<1>7. ContentPart'
  BY <1>5, <1>6 DEF ContentPart
<1>8. QED
  BY <1>3, <1>6, <1>7, InductiveParts, PTL

LEMMA OtherStepInductive ==
  ASSUME Inductive,
         ClockStep \/ (\E to \in Backends : SwitchDriver(to)) \/ (\E k \in Keys : ContentLost(k)) \/ UNCHANGED vars
  PROVE  Inductive'
<1>0. RegistryPart /\ RequestPart /\ CutoffPart /\ ContentPart
  BY InductiveParts
<1>1. UNCHANGED <<rows, reports, issued, lock, platform, gc, verify, migrate, putting>>
  BY DEF ClockStep, Tick, SwitchDriver, ContentLost, vars, registry
<1>2. now \in Nat /\ now' \in Nat /\ now <= now'
  <2>1. now' = now \/ now' = now + 1
    BY DEF ClockStep, Tick, SwitchDriver, ContentLost, vars, registry
  <2>2. QED
    BY <1>0, <2>1 DEF RegistryPart
<1>3. RegistryPart' /\ RequestPart'
  BY <1>0, <1>1, <1>2, RowsUnchanged, RequestsUnchanged
<1>4. CutoffPart'
  <2>1. gc.pc # "idle" => gc.cutoff \in Int /\ gc.cutoff + Grace <= now
    BY <1>0 DEF CutoffPart, GCTypeOK, GCState
  <2>2. gc.pc # "idle" => gc.cutoff + Grace <= now'
    BY <1>2, <2>1, RegistryAssumption
  <2>3. QED
    BY <1>0, <1>1, <2>2 DEF CutoffPart, GCTypeOK
<1>5. driver' \in Drivers /\ content' \in [Drivers -> SUBSET Keys] /\ content'["db"] \subseteq content["db"]
  BY <1>0, RegistryAssumption
  DEF ContentPart, ClockStep, Tick, SwitchDriver, ContentLost, vars, registry, Drivers
<1>6. ContentPart'
  BY <1>0, <1>1, <1>5 DEF ContentPart, PayloadHasRow, HasRow, VerifyTypeOK, MigrateTypeOK
<1>7. QED
  BY <1>3, <1>4, <1>6, InductiveParts, PTL

(***************************************************************************)
(* The theorems.                                                            *)
(***************************************************************************)
(* The inductive invariant holds of every behaviour: whatever requests, tools,
   crashes and clock ticks interleave. *)
THEOREM SpecInductive == Spec => []Inductive
<1>1. Inductive /\ [Next]_vars => Inductive'
  BY CollectStepInductive, ServerStepInductive, VerifyStepInductive, MigrateStepInductive,
     PutStepInductive, OtherStepInductive
  DEF Next
<1>2. QED
  BY InitInductive, <1>1, PTL DEF Spec

(* Every variable keeps its type. *)
THEOREM TypeCorrect == Spec => []TypeOK
<1>1. Inductive => TypeOK
  BY DEF Inductive
<1>2. QED
  BY <1>1, SpecInductive, PTL

(* Tx.Acquire and Tx.Release stay paired with the report rows: ref_count is the
   number of rows that cite the object. *)
THEOREM RefCountCorrect == Spec => []RefCountMatches
<1>1. Inductive => RefCountMatches
  BY DEF Inductive
<1>2. QED
  BY <1>1, SpecInductive, PTL

(* ReportPlatform.Delete's decision to skip the release, taken outside the
   transaction, is never stale. *)
THEOREM SkippedReleaseCorrect == Spec => []SkippedReleaseIsGone
<1>1. Inductive => SkippedReleaseIsGone
  BY DEF Inductive
<1>2. QED
  BY <1>1, SpecInductive, PTL

(* A row in `deleting` is uncited and past its grace period: ClaimDeleting's
   compare-and-set and Acquire's refusal together close the race. *)
THEOREM ClaimCorrect == Spec => []ClaimedIsExpired
<1>1. Inductive => ClaimedIsExpired
  BY DEF Inductive
<1>2. QED
  BY <1>1, SpecInductive, PTL

-----------------------------------------------------------------------------
(* BlobSystem implements CitedObjects: initial states map to initial states
   and every step of every part maps to a step of the promise or to none. *)

Held == {k \in Keys : HasRow(k)}
Claimed == {k \in Keys : rows[k].state = "deleting"}

PromiseStep == [Promise!Next]_<<reports, Held, Claimed>>

LEMMA PromiseVars == Promise!cited = <<reports, Held, Claimed>>
BY DEF Promise!cited, Held, Claimed

LEMMA Stutters ==
  ASSUME reports' = reports, Held' = Held, Claimed' = Claimed
  PROVE  PromiseStep
BY DEF PromiseStep

LEMMA SameRowsStutter ==
  ASSUME UNCHANGED <<rows, reports>>
  PROVE  PromiseStep
<1>1. Held' = Held /\ Claimed' = Claimed
  BY DEF Held, Claimed, HasRow
<1>2. QED
  BY <1>1, Stutters

LEMMA OneRow ==
  ASSUME rows \in [Keys -> Row], NEW k \in Keys, NEW row, rows' = [rows EXCEPT ![k] = row]
  PROVE  /\ row.state = "absent" => Held' = Held \ {k}
         /\ row.state # "absent" => Held' = Held \cup {k}
         /\ row.state = "deleting" => Claimed' = Claimed \cup {k}
         /\ row.state # "deleting" => Claimed' = Claimed \ {k}
BY DEF Held, Claimed, HasRow

(* A statement that creates the row if there was none, and neither claims a row
   nor touches a claimed one, holds the key at most. *)
LEMMA HoldsAtMost ==
  ASSUME rows \in [Keys -> Row], NEW k \in Keys, NEW row, rows' = [rows EXCEPT ![k] = row],
         reports' = reports, row.state # "absent",
         row.state = "deleting" <=> rows[k].state = "deleting"
  PROVE  PromiseStep
<1>1. Held' = Held \cup {k} /\ Claimed' = Claimed
  BY OneRow DEF Claimed
<1>2. CASE k \in Held
  BY <1>1, <1>2, Stutters
<1>3. CASE k \notin Held
  BY <1>1, <1>3 DEF PromiseStep, Promise!Next, Promise!Hold, Held, Claimed
<1>4. QED
  BY <1>2, <1>3

LEMMA PutPromise ==
  ASSUME Inductive, NEW k \in Keys, NEW d \in Drivers, Put(d, k), reports' = reports
  PROVE  PromiseStep
<1>0. RegistryPart /\ rows \in [Keys -> Row]
  BY InductiveParts DEF RegistryPart
<1>1. CASE d = "db"
  <2>1. rows' = [rows EXCEPT ![k] = PutRow(rows[k])]
    BY <1>1 DEF Put
  <2>2. /\ PutRow(rows[k]).state # "absent"
        /\ PutRow(rows[k]).state = "deleting" => PutRow(rows[k]) = rows[k]
    BY <1>0, PutRowRow, AbsentRef
  <2>3. rows[k].state = "deleting" => PutRow(rows[k]) = rows[k]
    BY DEF PutRow
  <2>4. QED
    BY <1>0, <2>1, <2>2, <2>3, HoldsAtMost
<1>2. CASE d # "db"
  BY <1>2, SameRowsStutter DEF Put
<1>3. QED
  BY <1>1, <1>2

LEMMA DeleteContentPromise ==
  ASSUME Inductive, NEW k \in Keys, NEW d \in Drivers, DeleteContent(d, k), reports' = reports
  PROVE  PromiseStep
<1>0. RegistryPart /\ ContentPart /\ rows \in [Keys -> Row] /\ now \in Nat
  BY InductiveParts DEF RegistryPart
<1>1. CASE d = "db" /\ k \in content["db"]
  <2>1. rows' = [rows EXCEPT ![k] = DropPayload(rows[k])]
    BY <1>1 DEF DeleteContent
  <2>2. rows[k].state # "absent"
    BY <1>0, <1>1 DEF ContentPart, PayloadHasRow, HasRow
  <2>3. DropPayload(rows[k]).state = IF rows[k].state = "ready" THEN "missing" ELSE rows[k].state
    BY <1>0 DEF DropPayload, Row
  <2>4. QED
    BY <1>0, <2>1, <2>2, <2>3, HoldsAtMost
<1>2. CASE ~(d = "db" /\ k \in content["db"])
  BY <1>2, SameRowsStutter DEF DeleteContent
<1>3. QED
  BY <1>1, <1>2

LEMMA MarkPromise ==
  ASSUME Inductive, NEW k \in Keys, rows' = [rows EXCEPT ![k] = MarkedMissing(rows[k])],
         reports' = reports
  PROVE  PromiseStep
<1>0. rows \in [Keys -> Row]
  BY InductiveParts DEF RegistryPart
<1>1. CASE rows[k].state \in {"absent", "deleting"}
  <2>1. rows' = rows
    BY <1>0, <1>1, MarkedMissingRow
  <2>2. QED
    BY <2>1, SameRowsStutter
<1>2. CASE rows[k].state \notin {"absent", "deleting"}
  BY <1>0, <1>2, MarkedMissingRow, HoldsAtMost
<1>3. QED
  BY <1>1, <1>2

LEMMA CollectPromise ==
  ASSUME Inductive, CollectStep
  PROVE  PromiseStep
<1> USE DEF registry
<1>0. /\ RegistryPart /\ rows \in [Keys -> Row] /\ driver \in Drivers
      /\ gc.hand \subseteq Keys
  BY InductiveParts DEF RegistryPart, ContentPart, CutoffPart, GCTypeOK, GCState
<1>1. ASSUME NEW k \in Keys, GCClaim(k) PROVE PromiseStep
  <2>1. rows' = [rows EXCEPT ![k] = [rows[k] EXCEPT !.state = "deleting"]] /\ reports' = reports
    BY <1>1 DEF GCClaim
  <2>2. /\ [rows[k] EXCEPT !.state = "deleting"].state = "deleting"
        /\ rows[k].state # "absent" /\ rows[k].ref = 0
    BY <1>0, <1>1 DEF GCClaim, Collectable, Row
  <2>3. Claimed' = Claimed \cup {k} /\ Held' = Held /\ k \in Held
    BY <1>0, <2>1, <2>2, OneRow DEF Held, HasRow
  <2>4. reports[k] = {}
    BY <1>0, <2>2, UncitedHasNoReference
  <2>5. QED
    BY <2>1, <2>3, <2>4 DEF PromiseStep, Promise!Next, Promise!Claim, Held, Claimed
<1>2. ASSUME NEW k \in Keys, GCSweep(k) PROVE PromiseStep
  BY <1>0, <1>2, DeleteContentPromise DEF GCSweep
<1>3. CASE GCForget
  <2>1. PICK k \in gc.hand : ForgetRow(k)
    BY <1>3 DEF GCForget
  <2>2. k \in Keys /\ reports' = reports
    BY <1>0, <1>3 DEF GCForget
  <2>3. CASE rows[k].state = "deleting"
    <3>1. rows' = [rows EXCEPT ![k] = NoRow]
      BY <2>1, <2>3 DEF ForgetRow
    <3>2. Held' = Held \ {k} /\ Claimed' = Claimed \ {k} /\ k \in Claimed
      BY <1>0, <2>2, <2>3, <3>1, OneRow DEF NoRow, Claimed
    <3>3. QED
      BY <2>2, <3>2 DEF PromiseStep, Promise!Next, Promise!Drop, Held, Claimed
  <2>4. CASE rows[k].state # "deleting"
    <3>1. rows' = rows
      BY <1>0, <2>1, <2>2, <2>4 DEF ForgetRow
    <3>2. QED
      BY <2>2, <3>1, SameRowsStutter
  <2>5. QED
    BY <2>3, <2>4
<1>4. CASE GCDelete
  BY <1>0, <1>4, DeleteContentPromise DEF GCDelete
<1>5. CASE UNCHANGED <<rows, reports>>
  BY <1>5, SameRowsStutter
<1>6. QED
  BY <1>1, <1>2, <1>3, <1>4, <1>5
  DEF CollectStep, GCNext, GCStep, GCStart, GCRevived, GCReadRegistry, GCScan, GCFinish, GCFail

LEMMA ServerPromise ==
  ASSUME Inductive, ServerStep
  PROVE  PromiseStep
<1> USE DEF registry
<1>0. RegistryPart /\ RequestPart /\ rows \in [Keys -> Row] /\ driver \in Drivers
  BY InductiveParts DEF RegistryPart, ContentPart
<1>1. ASSUME NEW w \in Writers, NEW k \in Keys, ArchivePut(w, k) PROVE PromiseStep
  BY <1>0, <1>1, PutPromise DEF ArchivePut
<1>2. ASSUME NEW w \in Writers, NEW k \in Keys, NEW r \in Reports, ArchiveCommit(w, k, r)
      PROVE  PromiseStep
  <2>1. /\ rows' = [rows EXCEPT ![k] = Acquired(rows[k], driver)]
        /\ reports' = [reports EXCEPT ![k] = reports[k] \cup {r}]
        /\ rows[k].state # "deleting" /\ r \notin issued
    BY <1>2 DEF ArchiveCommit, Acquirable
  <2>2. Acquired(rows[k], driver).state = "ready"
    BY <1>0, AcquiredRow, AbsentRef
  <2>3. Held' = Held \cup {k} /\ Claimed' = Claimed /\ k \notin Claimed
    BY <1>0, <2>1, <2>2, OneRow DEF Claimed
  <2>4. \A j \in Keys : r \notin reports[j]
    BY <1>0, <2>1 DEF RegistryPart
  <2>5. QED
    BY <2>1, <2>3, <2>4 DEF PromiseStep, Promise!Next, Promise!Cite, Held, Claimed
<1>3. ASSUME NEW q \in deletes, DeleteCommit(q) PROVE PromiseStep
  <2> DEFINE k == q.key
  <2>1. /\ k \in Keys /\ q.report \in Reports /\ q.report \in reports[k]
        /\ reports' = [reports EXCEPT ![k] = reports[k] \ {q.report}]
    BY <1>0, <1>3 DEF RequestPart, PlatformTypeOK, DeleteRequest, DeleteCommit
  <2>2. q.phase = "release" /\ Releasable(rows[k])
    BY <1>0, <1>3, <2>1
    DEF RequestPart, PlatformTypeOK, DeleteRequest, DeleteCommit, SkippedReleaseIsGone
  <2>3. rows' = [rows EXCEPT ![k] = Released(rows[k], now)]
    BY <1>3, <2>2 DEF DeleteCommit
  <2>4. rows[k].state \notin {"absent", "deleting"}
    BY <1>0, <2>1, <2>2, AbsentRef DEF RegistryPart, ClaimedIsExpired, Releasable
  <2>5. Released(rows[k], now).state \notin {"absent", "deleting"}
    BY <1>0, <2>1, <2>2, <2>4, ReleasedRow DEF RegistryPart
  <2>6. Held' = Held /\ Claimed' = Claimed
    BY <1>0, <2>1, <2>3, <2>4, <2>5, OneRow DEF Held, Claimed, HasRow
  <2>7. QED
    BY <2>1, <2>6 DEF PromiseStep, Promise!Next, Promise!Uncite, Held, Claimed
<1>4. ASSUME NEW g \in downloads, DownloadMark(g) PROVE PromiseStep
  <2>1. g.key \in Keys
    BY <1>0 DEF RequestPart, PlatformTypeOK, Download
  <2>2. QED
    BY <1>4, <2>1, MarkPromise DEF DownloadMark
<1>5. CASE UNCHANGED <<rows, reports>>
  BY <1>5, SameRowsStutter
<1>6. QED
  BY <1>1, <1>2, <1>3, <1>4, <1>5
  DEF ServerStep, PlatformNext, ServerOpen, ServerStop, ArchiveAbort, DeleteLookup, DeleteProbe,
      DeleteGiveUp, DownloadResolve, DownloadGet

LEMMA ToolPromise ==
  ASSUME Inductive, VerifyStep \/ MigrateStep \/ PutStep
  PROVE  PromiseStep
<1> USE DEF registry
<1>0. /\ RegistryPart /\ rows \in [Keys -> Row] /\ driver \in Drivers /\ migrate.to \in Drivers \cup {"none"}
      /\ migrate.hand \subseteq Keys
  BY InductiveParts, RegistryAssumption
  DEF RegistryPart, ContentPart, MigrateTypeOK, MigrateState
<1>1. ASSUME NEW k \in Keys, VerifyMark(k) PROVE PromiseStep
  BY <1>1, MarkPromise DEF VerifyMark
<1>2. CASE MigrateAdopt
  <2>1. PICK k \in migrate.hand : Adoptable(rows[k], driver)
                                  /\ rows' = [rows EXCEPT ![k] = Adopted(rows[k], migrate.to)]
    BY <1>2 DEF MigrateAdopt
  <2>2. /\ k \in Keys /\ reports' = reports
        /\ Adopted(rows[k], migrate.to).state \notin {"absent", "deleting"}
        /\ rows[k].state # "deleting"
    BY <1>0, <1>2, <2>1, AdoptedRow DEF Adoptable, MigrateAdopt
  <2>3. QED
    BY <1>0, <2>1, <2>2, HoldsAtMost
<1>3. CASE MigratePrune
  BY <1>0, <1>3, DeleteContentPromise DEF MigratePrune
<1>4. ASSUME NEW k \in Keys, CliPut(k) PROVE PromiseStep
  BY <1>0, <1>4, PutPromise DEF CliPut
<1>5. ASSUME NEW k \in Keys, CliRegister(k) PROVE PromiseStep
  <2> DEFINE acq == Acquired(rows[k], driver)
             row == Released(acq, now)
  <2>1. rows' = [rows EXCEPT ![k] = row] /\ reports' = reports /\ rows[k].state # "deleting"
    BY <1>5 DEF CliRegister, Acquirable
  <2>2. acq \in Row /\ acq.ref = rows[k].ref + 1 /\ acq.state = "ready" /\ rows[k].ref \in Nat
    BY <1>0, AcquiredRow, AbsentRef, UncitedHasNoReference
  <2>3. Releasable(acq) /\ now \in Nat
    BY <1>0, <2>2 DEF Releasable, RegistryPart
  <2>4. row.state \in {"ready", "orphaned"}
    BY <2>2, <2>3, ReleasedRow
  <2>5. QED
    BY <1>0, <2>1, <2>4, HoldsAtMost
<1>6. CASE UNCHANGED <<rows, reports>>
  BY <1>6, SameRowsStutter
<1>7. QED
  BY <1>1, <1>2, <1>3, <1>4, <1>5, <1>6
  DEF VerifyStep, VerifyNext, VerifyStart, VerifyScanned, VerifyEnd, VerifyStat,
      MigrateStep, MigrateNext, MigrateStart, MigrateStat, MigrateRead, MigrateWrite, MigrateConflict,
      MigrateSkip, MigrateEnd, PutStep, CliPutNext, CliFail

(* The registry keeps its promise to everything that cites objects: a cited key
   is held, only an uncited key is claimed, a claimed key is never cited. *)
THEOREM RegistryImplementsPromise == Spec => ImplementsPromise
<1>1. Init => Promise!Init
  BY DEF Init, RegistryInit, Promise!Init, HasRow, NoRow
<1>2. Inductive /\ [Next]_vars => PromiseStep
  <2> SUFFICES ASSUME Inductive, [Next]_vars PROVE PromiseStep
    OBVIOUS
  <2>1. CASE CollectStep \/ ServerStep \/ VerifyStep \/ MigrateStep \/ PutStep
    BY <2>1, CollectPromise, ServerPromise, ToolPromise
  <2>2. CASE ClockStep \/ (\E to \in Backends : SwitchDriver(to)) \/ (\E k \in Keys : ContentLost(k)) \/ UNCHANGED vars
    BY <2>2, SameRowsStutter DEF ClockStep, Tick, SwitchDriver, ContentLost, vars, registry
  <2>3. QED
    BY <2>1, <2>2 DEF Next
<1>3. Inductive /\ [Next]_vars => [Promise!Next]_(Promise!cited)
  BY <1>2 DEF PromiseStep, Promise!cited, Held, Claimed
<1>4. QED
  BY <1>1, <1>3, SpecInductive, PTL DEF Spec, ImplementsPromise, Promise!Spec
-----------------------------------------------------------------------------
(* The root lock of the dir backend, and the content that rows name *)

(* While the driver is dir, a tool at work holds its root, and so does a
   server between two steps against the backend. *)
Locked ==
  driver = "dir" =>
    /\ gc.pc # "idle" => lock = "gc"
    /\ migrate.pc # "idle" => lock = "migrate"
    /\ putting # {} => lock = "put"
    /\ lock # "server" => /\ \A w \in Writers : inflight[w] = {}
                         /\ \A g \in downloads : g.phase = "get"

(* Every row names a backend that has its content, and content on its way to
   a row is in the backend the row will name. *)
Stored(k) == rows[k].driver \in Drivers /\ k \in content[rows[k].driver]
OnItsWay(k) == k \in putting \/ \E w \in Writers : k \in inflight[w]
Backed ==
  /\ \A k \in Keys : HasRow(k) => Stored(k)
  /\ \A k \in Keys : OnItsWay(k) /\ ~HasRow(k) => k \in content[driver]

(* What a collection is about to delete has no row: it has just forgotten it,
   or it read the registry before it listed the backend. *)
CollectsUnnamed ==
  /\ gc.pc \in {"forget", "delete"} => \E k \in Keys : gc.hand = {k}
  /\ gc.pc = "forget" => \A k \in gc.hand : rows[k].state = "deleting"
  /\ gc.pc = "delete" => \A k \in gc.hand : ~HasRow(k)
  /\ gc.pc = "scan" => \A k \in Keys : HasRow(k) => k \in gc.hand
  /\ gc.pc = "sweep" => \A k \in gc.todo : ~HasRow(k)

(* A migration flips a row to content that is there, and prunes what a row it
   flipped no longer names. *)
MigratesCopied ==
  /\ migrate.pc # "idle" => migrate.to \in Drivers /\ migrate.to # driver
  /\ migrate.pc \notin {"idle", "next"} => \E k \in Keys : migrate.hand = {k}
  /\ migrate.pc = "adopt" /\ migrate.to # "db" => migrate.hand \subseteq content[migrate.to]
  /\ migrate.pc = "prune" => driver # "db"
  /\ migrate.pc = "prune" =>
       \A k \in migrate.hand : HasRow(k) /\ rows[k].driver = migrate.to

Sound == Backed /\ CollectsUnnamed /\ MigratesCopied

LEMMA ToolTypes ==
  ASSUME Inductive
  PROVE  /\ gc \in GCState /\ migrate \in MigrateState /\ putting \subseteq Keys
         /\ driver \in Drivers /\ content \in [Drivers -> SUBSET Keys] /\ rows \in [Keys -> Row]
         /\ inflight \in [Writers -> SUBSET Keys] /\ downloads \subseteq Download
BY DEF Inductive, TypeOK, GCTypeOK, MigrateTypeOK, RegistryTypeOK, PlatformTypeOK

LEMMA ServerLocked ==
  ASSUME Inductive, Locked, ServerStep
  PROVE  Locked'
<1> USE ToolTypes DEF Locked
<1>1. UNCHANGED <<gc, migrate, putting>> /\ UNCHANGED driver
  BY DEF ServerStep, PlatformNext, ServerOpen, ServerStop, ArchivePut, ArchiveCommit,
         ArchiveAbort, DeleteLookup, DeleteProbe, DeleteCommit, DeleteGiveUp, DownloadResolve,
         DownloadGet, DownloadMark, registry
<1>2. CASE ServerOpen
  BY <1>1, <1>2 DEF ServerOpen
<1>3. CASE ServerStop
  BY <1>1, <1>3 DEF ServerStop, Closed
<1>4. ASSUME NEW w \in Writers, NEW k \in Keys, ArchivePut(w, k)
      PROVE  Locked'
  BY <1>1, <1>4 DEF ArchivePut, Serving, Holds
<1>5. CASE lock' = lock /\ (\A w \in Writers : inflight'[w] = inflight[w] \/ inflight'[w] = {})
           /\ \A g \in downloads' : g \in downloads \/ g.phase = "get" \/ Serving
  BY <1>1, <1>5 DEF Serving, Holds
<1>6. ASSUME NEW w \in Writers, ArchiveAbort(w) \/ \E k \in Keys, r \in Reports : ArchiveCommit(w, k, r)
      PROVE  Locked'
  <2>1. lock' = lock /\ inflight' = [inflight EXCEPT ![w] = {}] /\ downloads' = downloads
    BY <1>6 DEF ArchiveAbort, ArchiveCommit, registry
  <2> QED BY <1>5, <2>1
<1>7. ASSUME NEW g \in downloads, DownloadGet(g)
      PROVE  Locked'
  <2>1. Serving /\ lock' = lock /\ inflight' = inflight
    BY <1>7 DEF DownloadGet, registry
  <2> QED BY <1>5, <2>1
<1>8. CASE (\E g \in downloads : DownloadMark(g)) \/ \E k \in Keys : DownloadResolve(k)
  <2>1. lock' = lock /\ inflight' = inflight
    BY <1>8 DEF DownloadResolve, DownloadMark, registry
  <2>2. \A g \in downloads' : g \in downloads \/ g.phase = "get"
    BY <1>8 DEF DownloadResolve, DownloadMark
  <2> QED BY <1>5, <2>1, <2>2
<1>9. CASE UNCHANGED <<lock, inflight, downloads>>
  BY <1>5, <1>9
<1> QED
  BY <1>2, <1>3, <1>4, <1>6, <1>7, <1>8, <1>9
  DEF ServerStep, PlatformNext, DeleteLookup, DeleteProbe, DeleteCommit, DeleteGiveUp, registry

LEMMA ToolsLocked ==
  ASSUME Inductive, Locked, CollectStep \/ VerifyStep \/ MigrateStep \/ PutStep
  PROVE  Locked'
<1> USE ToolTypes DEF Locked
<1>1. UNCHANGED <<inflight, downloads, driver>>
  BY DEF CollectStep, GCNext, GCStep, GCStart, GCClaim, GCRevived, GCForget, GCDelete,
         GCReadRegistry, GCScan, GCSweep, GCFinish, GCFail,
         VerifyStep, VerifyNext, VerifyStart, VerifyScanned, VerifyEnd, VerifyStat, VerifyMark,
         MigrateStep, MigrateNext, MigrateStart, MigrateStat, MigrateRead, MigrateWrite,
         MigrateAdopt, MigrateConflict, MigratePrune, MigrateSkip, MigrateEnd,
         PutStep, CliPutNext, CliPut, CliRegister, CliFail, registry, platform
<1>2. CASE CollectStep
  <2>1. UNCHANGED <<migrate, putting>>
    BY <1>2 DEF CollectStep
  <2>2. CASE GCStart
    BY <1>1, <2>1, <2>2 DEF GCStart, CanOpen, Opened
  <2>3. CASE GCFinish \/ GCFail
    BY <1>1, <2>1, <2>3 DEF GCFinish, GCFail, Closed, GCIdle
  <2>4. CASE lock' = lock /\ gc.pc # "idle"
    BY <1>1, <2>1, <2>4
  <2> QED
    BY <1>2, <2>2, <2>3, <2>4
    DEF CollectStep, GCNext, GCStep, GCClaim, GCRevived, GCForget, GCDelete, GCReadRegistry,
        GCScan, GCSweep, registry
<1>3. CASE VerifyStep
  <2>1. UNCHANGED <<gc, migrate, putting>>
    BY <1>3 DEF VerifyStep
  <2>2. CASE VerifyStart
    BY <1>1, <2>1, <2>2 DEF VerifyStart, CanOpen, Opened
  <2>3. CASE VerifyEnd
    BY <1>1, <2>1, <2>3 DEF VerifyEnd, Closed
  <2>4. CASE lock' = lock
    BY <1>1, <2>1, <2>4
  <2> QED
    BY <1>3, <2>2, <2>3, <2>4
    DEF VerifyStep, VerifyNext, VerifyScanned, VerifyStat, VerifyMark, registry
<1>4. CASE MigrateStep
  <2>1. UNCHANGED <<gc, putting>>
    BY <1>4
    DEF MigrateStep, MigrateNext, MigrateStart, MigrateStat, MigrateRead, MigrateWrite,
        MigrateAdopt, MigrateConflict, MigratePrune, MigrateSkip, MigrateEnd
  <2>2. CASE \E to \in Backends, prune \in BOOLEAN : MigrateStart(to, prune)
    BY <1>1, <2>1, <2>2 DEF MigrateStart, CanOpen, Opened
  <2>3. CASE MigrateEnd
    BY <1>1, <2>1, <2>3 DEF MigrateEnd, Closed, MigrateIdle
  <2>4. CASE lock' = lock /\ migrate.pc # "idle"
    BY <1>1, <2>1, <2>4
  <2> QED
    BY <1>4, <2>2, <2>3, <2>4
    DEF MigrateStep, MigrateNext, MigrateStat, MigrateRead, MigrateWrite, MigrateAdopt,
        MigrateConflict, MigratePrune, MigrateSkip, registry
<1>5. CASE PutStep
  <2>1. UNCHANGED <<gc, migrate>>
    BY <1>5 DEF PutStep, CliPutNext, CliPut, CliRegister, CliFail
  <2>2. ASSUME NEW k \in Keys, CliPut(k)
        PROVE  Locked'
    BY <1>1, <2>1, <2>2 DEF CliPut, CanOpen, Opened
  <2>3. CASE (\E k \in Keys : CliRegister(k)) \/ CliFail
    <3>1. putting' = {} /\ lock' = Closed("put")
      BY <2>3 DEF CliRegister, CliFail
    <3>2. lock' = IF lock = "put" THEN "free" ELSE lock
      BY <3>1 DEF Closed
    <3> QED BY <1>1, <2>1, <3>1, <3>2
  <2> QED
    BY <1>5, <2>2, <2>3 DEF PutStep, CliPutNext
<1> QED BY <1>2, <1>3, <1>4, <1>5

LEMMA LockedKept == Inductive /\ Locked /\ [Next]_vars => Locked'
<1> SUFFICES ASSUME Inductive, Locked, [Next]_vars PROVE Locked'
  OBVIOUS
<1>1. CASE \E to \in Backends : SwitchDriver(to)
  BY <1>1 DEF SwitchDriver, Busy, platform, Locked
<1>2. CASE ClockStep \/ (\E k \in Keys : ContentLost(k)) \/ UNCHANGED vars
  BY <1>2 DEF ClockStep, Tick, ContentLost, vars, registry, platform, Locked
<1> QED BY <1>1, <1>2, ServerLocked, ToolsLocked DEF Next

LEMMA LockedHolds == Spec => [](Inductive /\ Locked)
<1>1. Init => Locked
  BY DEF Init, RegistryInit, PlatformInit, GCInit, GCIdle, MigrateInit, MigrateIdle, Locked
<1> QED BY <1>1, LockedKept, SpecInductive, PTL DEF Spec

(* The root lock of the dir backend keeps its promise: while a tool holds the
   root, no archive is between its put and its transaction and no download
   between the backend's answer and the mark. *)
THEOREM DirExclusiveCorrect == Spec => []DirExclusive
<1>1. Locked => DirExclusive
  BY DEF Locked, DirExclusive
<1> QED BY <1>1, LockedHolds, PTL

-----------------------------------------------------------------------------
(* Content is where its row says, as long as nothing is lost behind the
   system's back and the tools are run as LockedTools has it. *)

(* While a collection runs nothing else is between two steps. *)
LEMMA CollectsAlone ==
  ASSUME Inductive, Locked, LockedTools, gc.pc # "idle"
  PROVE  /\ driver = "dir" /\ migrate.pc = "idle"
         /\ \A k \in Keys : ~OnItsWay(k)
BY ToolTypes DEF Locked, LockedTools, OnItsWay

(* What leaves content and the tools alone, and no row comes, goes or moves. *)
LEMMA QuietSound ==
  ASSUME Inductive, Sound, UNCHANGED <<content, driver, gc, migrate>>,
         \A k \in Keys : /\ rows'[k].driver = rows[k].driver
                         /\ rows'[k].state = "absent" <=> rows[k].state = "absent"
                         /\ rows[k].state = "deleting" => rows'[k].state = "deleting",
         \A k \in Keys : OnItsWay(k)' => OnItsWay(k)
  PROVE  Sound'
<1>1. \A k \in Keys : HasRow(k)' <=> HasRow(k)
  BY DEF HasRow
<1>2. \A k \in Keys : Stored(k)' <=> Stored(k)
  BY DEF Stored
<1>3. Backed'
  BY <1>1, <1>2 DEF Sound, Backed
<1>4. CollectsUnnamed'
  <2>1. gc.pc = "forget" => \A k \in gc.hand : k \in Keys
    BY DEF Sound, CollectsUnnamed
  <2>2. gc.pc = "delete" => \A k \in gc.hand : k \in Keys
    BY DEF Sound, CollectsUnnamed
  <2>3. gc.todo \subseteq Keys
    BY ToolTypes DEF GCState
  <2> QED BY <1>1, <2>1, <2>2, <2>3 DEF Sound, CollectsUnnamed
<1>5. MigratesCopied'
  BY <1>1 DEF Sound, MigratesCopied
<1> QED BY <1>3, <1>4, <1>5 DEF Sound

LEMMA PutSound ==
  ASSUME Inductive, Sound, gc.pc = "idle", NEW k \in Keys, Put(driver, k),
         UNCHANGED <<driver, gc, migrate>>,
         \A j \in Keys : OnItsWay(j)' => OnItsWay(j) \/ j = k
  PROVE  Sound'
<1> USE ToolTypes
<1>1. /\ content'[driver] = content[driver] \cup {k}
      /\ \A d \in Drivers : content[d] \subseteq content'[d]
  BY DEF Put
<1>2. CASE driver = "db"
  <2>1. rows' = [rows EXCEPT ![k] = PutRow(rows[k])]
    BY <1>2 DEF Put
  <2>2. PutRow(rows[k]).state # "absent" /\ PutRow(rows[k]).driver = "db"
    BY <1>2 DEF Put, PutAccepted, PutRow, NewRow, Row
  <2>3. \A j \in Keys : j # k => rows'[j] = rows[j]
    BY <2>1
  <2>4. rows'[k] = PutRow(rows[k])
    BY <2>1
  <2>5. Backed'
    <3>1. Stored(k)'
      BY <1>1, <1>2, <2>2, <2>4 DEF Stored, Drivers
    <3>2. \A j \in Keys : j # k => (HasRow(j)' <=> HasRow(j)) /\ (Stored(j) => Stored(j)')
      BY <1>1, <2>3 DEF HasRow, Stored
    <3>3. HasRow(k)'
      BY <2>2, <2>4 DEF HasRow
    <3> QED BY <1>1, <3>1, <3>2, <3>3 DEF Sound, Backed
  <2>6. MigratesCopied'
    BY <1>1, <1>2 DEF Sound, MigratesCopied
  <2> QED BY <2>5, <2>6 DEF Sound, CollectsUnnamed
<1>3. CASE driver # "db"
  <2>1. rows' = rows
    BY <1>3 DEF Put
  <2>2. \A j \in Keys : (HasRow(j)' <=> HasRow(j)) /\ (Stored(j) => Stored(j)')
    BY <1>1, <2>1 DEF HasRow, Stored
  <2>3. Backed'
    BY <1>1, <2>2 DEF Sound, Backed
  <2>4. MigratesCopied'
    BY <1>1, <2>1 DEF Sound, MigratesCopied, HasRow
  <2> QED BY <2>3, <2>4 DEF Sound, CollectsUnnamed
<1> QED BY <1>2, <1>3

LEMMA AcquireSound ==
  ASSUME Inductive, Sound, gc.pc = "idle", NEW k \in Keys, OnItsWay(k),
         UNCHANGED <<content, driver, gc, migrate>>,
         NEW row, rows' = [rows EXCEPT ![k] = row], row.state # "absent",
         row.driver = IF HasRow(k) THEN rows[k].driver ELSE driver,
         \A j \in Keys : OnItsWay(j)' => OnItsWay(j)
  PROVE  Sound'
<1> USE ToolTypes
<1>1. rows'[k] = row /\ \A j \in Keys : j # k => rows'[j] = rows[j]
  OBVIOUS
<1>2. HasRow(k)' /\ Stored(k)'
  BY <1>1 DEF HasRow, Stored, Sound, Backed
<1>3. \A j \in Keys : j # k => (HasRow(j)' <=> HasRow(j)) /\ (Stored(j)' <=> Stored(j))
  BY <1>1 DEF HasRow, Stored
<1>4. Backed'
  BY <1>2, <1>3 DEF Sound, Backed
<1>5. MigratesCopied'
  <2>1. \A j \in Keys : HasRow(j) => HasRow(j)' /\ rows'[j].driver = rows[j].driver
    BY <1>1, <1>2, <1>3
  <2> QED BY <2>1 DEF Sound, MigratesCopied
<1> QED BY <1>4, <1>5 DEF Sound, CollectsUnnamed

LEMMA AcquiredWhere ==
  ASSUME NEW row \in Row, NEW d
  PROVE  /\ Acquired(row, d).state = "ready"
         /\ Acquired(row, d).driver = IF row.state # "absent" THEN row.driver ELSE d
BY DEF Acquired, NewRow

LEMMA ReleasedWhere ==
  ASSUME NEW row \in Row, NEW t
  PROVE  /\ Released(row, t).driver = row.driver
         /\ Released(row, t).state = "absent" <=> row.state = "absent"
         /\ row.state = "deleting" => Released(row, t).state = "deleting"
BY DEF Released, Row

LEMMA MarkedWhere ==
  ASSUME NEW row \in Row
  PROVE  /\ MarkedMissing(row).driver = row.driver
         /\ MarkedMissing(row).state = "absent" <=> row.state = "absent"
         /\ row.state = "deleting" => MarkedMissing(row).state = "deleting"
BY DEF MarkedMissing, Row

LEMMA ServerSound ==
  ASSUME Inductive, Locked, LockedTools, Sound, ServerStep
  PROVE  Sound'
<1> USE ToolTypes
<1>1. UNCHANGED <<gc, migrate, putting>> /\ UNCHANGED driver
  BY DEF ServerStep, PlatformNext, ServerOpen, ServerStop, ArchivePut, ArchiveCommit,
         ArchiveAbort, DeleteLookup, DeleteProbe, DeleteCommit, DeleteGiveUp, DownloadResolve,
         DownloadGet, DownloadMark, registry
<1>2. ASSUME NEW w \in Writers, NEW k \in Keys, ArchivePut(w, k)
      PROVE  Sound'
  <2>1. gc.pc = "idle"
    BY <1>2 DEF ArchivePut, Serving, Holds, Locked, LockedTools
  <2>2. Put(driver, k) /\ inflight' = [inflight EXCEPT ![w] = {k}]
    BY <1>2 DEF ArchivePut
  <2>3. \A j \in Keys : OnItsWay(j)' => OnItsWay(j) \/ j = k
    BY <1>1, <2>2 DEF OnItsWay
  <2> QED BY <1>1, <2>1, <2>2, <2>3, PutSound
<1>3. ASSUME NEW w \in Writers, NEW k \in Keys, NEW r \in Reports, ArchiveCommit(w, k, r)
      PROVE  Sound'
  <2> DEFINE row == Acquired(rows[k], driver)
  <2>1. OnItsWay(k)
    BY <1>3 DEF ArchiveCommit, OnItsWay
  <2>2. gc.pc = "idle"
    BY <2>1, CollectsAlone
  <2>3. rows' = [rows EXCEPT ![k] = row] /\ content' = content
    BY <1>3 DEF ArchiveCommit
  <2>4. row.state # "absent" /\ row.driver = IF HasRow(k) THEN rows[k].driver ELSE driver
    BY AcquiredWhere DEF HasRow
  <2>5. inflight' = [inflight EXCEPT ![w] = {}]
    BY <1>3 DEF ArchiveCommit
  <2>6. \A j \in Keys : OnItsWay(j)' => OnItsWay(j)
    BY <1>1, <2>5 DEF OnItsWay
  <2> HIDE DEF row
  <2> QED BY <1>1, <2>1, <2>2, <2>3, <2>4, <2>6, AcquireSound
<1>4. CASE /\ content' = content /\ (\A w \in Writers : inflight'[w] = inflight[w] \/ inflight'[w] = {})
           /\ \A k \in Keys : \/ rows'[k] = rows[k]
                              \/ rows'[k] = MarkedMissing(rows[k])
                              \/ \E t : rows'[k] = Released(rows[k], t)
  <2>1. \A k \in Keys : OnItsWay(k)' => OnItsWay(k)
    BY <1>1, <1>4 DEF OnItsWay
  <2>2. \A k \in Keys : /\ rows'[k].driver = rows[k].driver
                        /\ rows'[k].state = "absent" <=> rows[k].state = "absent"
                        /\ rows[k].state = "deleting" => rows'[k].state = "deleting"
    BY <1>4, MarkedWhere, ReleasedWhere
  <2> QED BY <1>1, <1>4, <2>1, <2>2, QuietSound
<1>5. ASSUME NEW w \in Writers, ArchiveAbort(w)
      PROVE  Sound'
  BY <1>4, <1>5 DEF ArchiveAbort, registry
<1>6. ASSUME NEW q \in deletes, DeleteCommit(q)
      PROVE  Sound'
  <2>1. content' = content /\ inflight' = inflight
    BY <1>6 DEF DeleteCommit
  <2>2. \A k \in Keys : rows'[k] = rows[k] \/ rows'[k] = Released(rows[k], now)
    BY <1>6 DEF DeleteCommit
  <2> QED BY <1>4, <2>1, <2>2
<1>7. ASSUME NEW g \in downloads, DownloadMark(g)
      PROVE  Sound'
  <2>1. content' = content /\ inflight' = inflight
    BY <1>7 DEF DownloadMark
  <2>2. \A k \in Keys : rows'[k] = rows[k] \/ rows'[k] = MarkedMissing(rows[k])
    BY <1>7 DEF DownloadMark
  <2> QED BY <1>4, <2>1, <2>2
<1>8. CASE ServerStop
  BY <1>4, <1>8 DEF ServerStop
<1>9. CASE UNCHANGED <<rows, content, inflight>>
  BY <1>4, <1>9
<1> QED
  BY <1>2, <1>3, <1>5, <1>6, <1>7, <1>8, <1>9
  DEF ServerStep, PlatformNext, ServerOpen, DeleteLookup, DeleteProbe, DeleteGiveUp,
      DownloadResolve, DownloadGet, registry, platform

LEMMA CollectSound ==
  ASSUME Inductive, Locked, LockedTools, LockedTools', Sound, CollectStep
  PROVE  Sound'
<1> USE ToolTypes
<1>1. UNCHANGED <<driver, migrate, putting, inflight>>
  BY DEF CollectStep, GCNext, GCStep, GCStart, GCClaim, GCRevived, GCForget, GCDelete,
         GCReadRegistry, GCScan, GCSweep, GCFinish, GCFail, registry, platform
<1>2. \A k \in Keys : OnItsWay(k)' <=> OnItsWay(k)
  BY <1>1 DEF OnItsWay
<1>3. CASE UNCHANGED <<rows, content>> /\ CollectsUnnamed'
  <2>1. Backed'
    BY <1>1, <1>2, <1>3 DEF Sound, Backed, HasRow, Stored
  <2>2. MigratesCopied'
    BY <1>1, <1>3 DEF Sound, MigratesCopied, HasRow
  <2> QED BY <1>3, <2>1, <2>2 DEF Sound
<1>4. CASE GCStart \/ GCFinish \/ GCFail \/ \E k \in Keys : GCRevived(k)
  <2>1. UNCHANGED <<rows, content>>
    BY <1>4 DEF GCStart, GCFinish, GCFail, GCRevived, registry
  <2>2. gc'.pc \in {"idle", "claim"}
    BY <1>4 DEF GCStart, GCFinish, GCFail, GCRevived, GCIdle, GCState
  <2> QED BY <1>3, <2>1, <2>2 DEF CollectsUnnamed
<1>5. CASE GCReadRegistry
  <2>1. UNCHANGED <<rows, content>> /\ gc'.pc = "scan" /\ gc'.hand = {k \in Keys : HasRow(k)}
    BY <1>5 DEF GCReadRegistry, registry, GCState
  <2> QED BY <1>3, <2>1 DEF CollectsUnnamed, HasRow
<1>6. CASE GCScan
  <2>1. /\ UNCHANGED <<rows, content>> /\ gc'.pc = "sweep" /\ gc'.todo = content[driver] \ gc.hand
        /\ gc.pc = "scan"
    BY <1>6 DEF GCScan, registry, GCState
  <2> QED BY <1>3, <2>1 DEF Sound, CollectsUnnamed, HasRow
<1>7. ASSUME NEW k \in Keys, GCClaim(k)
      PROVE  Sound'
  <2>1. /\ rows' = [rows EXCEPT ![k].state = "deleting"] /\ content' = content
        /\ gc'.pc = "forget" /\ gc'.hand = {k} /\ HasRow(k)
    BY <1>7 DEF GCClaim, Collectable, HasRow, GCState
  <2>2. \A j \in Keys : rows'[j].driver = rows[j].driver /\ (HasRow(j)' <=> HasRow(j))
    BY <2>1 DEF HasRow, Row
  <2>3. rows'[k].state = "deleting"
    BY <2>1 DEF Row
  <2>4. Backed'
    BY <1>1, <1>2, <2>1, <2>2 DEF Sound, Backed, Stored
  <2>5. MigratesCopied'
    BY <1>1, <2>1, <2>2 DEF Sound, MigratesCopied
  <2>6. CollectsUnnamed'
    BY <2>1, <2>3 DEF CollectsUnnamed
  <2> QED BY <2>4, <2>5, <2>6 DEF Sound
<1>8. CASE gc.pc # "idle" /\ CollectsUnnamed'
           /\ (\A j \in Keys : HasRow(j)' => HasRow(j) /\ rows'[j] = rows[j])
           /\ (\A j \in Keys : HasRow(j)' => \A d \in Drivers : j \in content[d] => j \in content'[d])
  <2>1. migrate.pc = "idle" /\ \A k \in Keys : ~OnItsWay(k)
    BY <1>8, CollectsAlone
  <2>2. Backed'
    BY <1>1, <1>2, <1>8, <2>1 DEF Sound, Backed, Stored
  <2>3. MigratesCopied'
    BY <1>1, <2>1 DEF Sound, MigratesCopied
  <2> QED BY <1>8, <2>2, <2>3 DEF Sound
<1>9. CASE GCForget
  <2>1. PICK k \in Keys : gc.hand = {k} /\ rows[k].state = "deleting"
    BY <1>9 DEF GCForget, Sound, CollectsUnnamed
  <2>2. /\ rows' = [rows EXCEPT ![k] = NoRow] /\ content' = [content EXCEPT !["db"] = @ \ {k}]
        /\ gc'.pc = "delete" /\ gc'.hand = {k} /\ gc.pc = "forget"
    BY <1>9, <2>1 DEF GCForget, ForgetRow, GCState
  <2>3. ~HasRow(k)'
    BY <2>2 DEF HasRow, NoRow
  <2>4. \A j \in Keys : HasRow(j)' => j # k /\ HasRow(j) /\ rows'[j] = rows[j]
    BY <2>2, <2>3 DEF HasRow
  <2>5. \A j \in Keys : j # k => \A d \in Drivers : j \in content[d] => j \in content'[d]
    BY <2>2
  <2>6. CollectsUnnamed'
    BY <2>2, <2>3 DEF CollectsUnnamed
  <2> QED BY <1>8, <2>2, <2>4, <2>5, <2>6
<1>10. ASSUME NEW k \in Keys, ~HasRow(k), DeleteContent(driver, k), gc.pc # "idle", CollectsUnnamed'
       PROVE  Sound'
  <2>1. driver = "dir"
    BY <1>10, CollectsAlone
  <2>2. rows' = rows /\ content' = [content EXCEPT ![driver] = @ \ {k}]
    BY <1>10, <2>1 DEF DeleteContent
  <2>3. \A j \in Keys : HasRow(j)' => HasRow(j) /\ rows'[j] = rows[j] /\ j # k
    BY <1>10, <2>2 DEF HasRow
  <2>4. \A j \in Keys : j # k => \A d \in Drivers : j \in content[d] => j \in content'[d]
    BY <2>2
  <2> QED BY <1>8, <1>10, <2>3, <2>4
<1>11. CASE GCDelete
  <2>1. PICK k \in Keys : gc.hand = {k} /\ ~HasRow(k)
    BY <1>11 DEF GCDelete, Sound, CollectsUnnamed
  <2>2. DeleteContent(driver, k) /\ gc.pc = "delete" /\ gc'.pc = "claim"
    BY <1>11, <2>1 DEF GCDelete, GCState
  <2> QED BY <1>10, <2>1, <2>2 DEF CollectsUnnamed
<1>12. ASSUME NEW k \in Keys, GCSweep(k)
       PROVE  Sound'
  <2>1. /\ DeleteContent(driver, k) /\ gc.pc = "sweep" /\ gc'.pc = "sweep" /\ k \in gc.todo
        /\ gc'.todo = gc.todo \ {k}
    BY <1>12 DEF GCSweep, GCState
  <2>2. ~HasRow(k) /\ \A j \in gc.todo : ~HasRow(j)
    BY <2>1 DEF Sound, CollectsUnnamed
  <2>3. rows' = rows
    BY <2>1, CollectsAlone DEF DeleteContent
  <2>4. CollectsUnnamed'
    BY <2>1, <2>2, <2>3 DEF CollectsUnnamed, HasRow
  <2> QED BY <1>10, <2>1, <2>2, <2>4
<1> QED
  BY <1>4, <1>5, <1>6, <1>7, <1>9, <1>11, <1>12 DEF CollectStep, GCNext, GCStep

LEMMA VerifySound ==
  ASSUME Inductive, Sound, VerifyStep
  PROVE  Sound'
<1> USE ToolTypes
<1>1. UNCHANGED <<content, driver, gc, migrate, putting, inflight>>
  BY DEF VerifyStep, VerifyNext, VerifyStart, VerifyScanned, VerifyEnd, VerifyStat, VerifyMark,
         registry, platform
<1>2. \A k \in Keys : rows'[k] = rows[k] \/ rows'[k] = MarkedMissing(rows[k])
  BY DEF VerifyStep, VerifyNext, VerifyStart, VerifyScanned, VerifyEnd, VerifyStat, VerifyMark,
         registry
<1>3. \A k \in Keys : /\ rows'[k].driver = rows[k].driver
                      /\ rows'[k].state = "absent" <=> rows[k].state = "absent"
                      /\ rows[k].state = "deleting" => rows'[k].state = "deleting"
  BY <1>2, MarkedWhere
<1>4. \A k \in Keys : OnItsWay(k)' => OnItsWay(k)
  BY <1>1 DEF OnItsWay
<1> QED BY <1>1, <1>3, <1>4, QuietSound

LEMMA AdoptedWhere ==
  ASSUME NEW row \in Row, NEW d \in Drivers, row.state \notin {"absent", "deleting"}
  PROVE  Adopted(row, d).driver = d /\ Adopted(row, d).state \notin {"absent", "deleting"}
BY DEF Adopted, Row

LEMMA MigrateSound ==
  ASSUME Inductive, Locked, LockedTools, Sound, MigrateStep
  PROVE  Sound'
<1> USE ToolTypes
<1>1. UNCHANGED <<driver, gc, putting, inflight>>
  BY DEF MigrateStep, MigrateNext, MigrateStart, MigrateStat, MigrateRead, MigrateWrite,
         MigrateAdopt, MigrateConflict, MigratePrune, MigrateSkip, MigrateEnd, registry, platform
<1>2. \A k \in Keys : OnItsWay(k)' <=> OnItsWay(k)
  BY <1>1 DEF OnItsWay
<1>3. CASE UNCHANGED <<rows, content>> /\ MigratesCopied'
  <2>1. Backed' /\ CollectsUnnamed'
    BY <1>1, <1>2, <1>3 DEF Sound, Backed, CollectsUnnamed, HasRow, Stored
  <2> QED BY <1>3, <2>1 DEF Sound
<1>4. ASSUME NEW to \in Backends, NEW prune \in BOOLEAN, MigrateStart(to, prune)
      PROVE  Sound'
  <2>1. /\ UNCHANGED <<rows, content>> /\ migrate'.pc = "next" /\ migrate'.to = to
        /\ to # driver /\ to \in Drivers
    BY <1>4, RegistryAssumption DEF MigrateStart
  <2> QED BY <1>1, <1>3, <2>1 DEF MigratesCopied
<1>5. ASSUME NEW k \in Keys, MigrateStat(k)
      PROVE  Sound'
  <2>1. /\ UNCHANGED <<rows, content>> /\ migrate.pc = "next" /\ migrate'.to = migrate.to
        /\ migrate'.hand = {k}
        /\ migrate'.pc \in {"adopt", "read"}
        /\ migrate'.pc = "adopt" => k \in content[migrate.to]
    BY <1>5 DEF MigrateStat, registry, MigrateState
  <2> QED BY <1>1, <1>3, <2>1 DEF Sound, MigratesCopied
<1>6. CASE migrate.pc # "idle" /\ UNCHANGED <<rows, content>> /\ migrate' = NextRow
  <2>1. migrate'.pc = "next" /\ migrate'.to = migrate.to
    BY <1>6 DEF NextRow, MigrateState
  <2> QED BY <1>1, <1>3, <1>6, <2>1 DEF Sound, MigratesCopied
<1>7. CASE MigrateRead
  <2>1. CASE ~(migrate.hand \subseteq content[driver])
    BY <1>6, <1>7, <2>1 DEF MigrateRead, registry
  <2>2. CASE migrate.hand \subseteq content[driver]
    <3>1. /\ UNCHANGED <<rows, content>> /\ migrate.pc = "read" /\ migrate'.to = migrate.to
          /\ migrate'.hand = migrate.hand
          /\ migrate'.pc = IF migrate.to = "db" THEN "adopt" ELSE "write"
      BY <1>7, <2>2 DEF MigrateRead, registry, MigrateState
    <3> QED BY <1>1, <1>3, <3>1 DEF Sound, MigratesCopied
  <2> QED BY <2>1, <2>2
<1>8. CASE MigrateConflict \/ MigrateSkip
  BY <1>6, <1>8 DEF MigrateConflict, MigrateSkip, registry
<1>9. CASE MigrateEnd
  BY <1>1, <1>3, <1>9 DEF MigrateEnd, MigrateIdle, MigratesCopied
<1>10. CASE MigrateWrite
  <2>1. /\ rows' = rows /\ migrate.pc = "write" /\ migrate'.pc = "adopt"
        /\ migrate'.to = migrate.to /\ migrate'.hand = migrate.hand
        /\ content' = [content EXCEPT ![migrate.to] = @ \cup migrate.hand]
        /\ migrate.to \in Drivers /\ migrate.to # driver
        /\ \E k \in Keys : migrate.hand = {k}
    BY <1>10 DEF MigrateWrite, MigrateState, Sound, MigratesCopied
  <2>2. /\ \A d \in Drivers : content[d] \subseteq content'[d]
        /\ migrate.hand \subseteq content'[migrate.to]
    BY <2>1
  <2>3. Backed'
    BY <1>1, <1>2, <2>1, <2>2 DEF Sound, Backed, Stored, HasRow
  <2>4. MigratesCopied'
    BY <1>1, <2>1, <2>2 DEF MigratesCopied
  <2>5. CollectsUnnamed'
    BY <1>1, <2>1 DEF Sound, CollectsUnnamed, HasRow
  <2> QED BY <2>3, <2>4, <2>5 DEF Sound
<1>11. CASE MigrateAdopt
  <2>1. PICK k \in Keys :
          /\ migrate.hand = {k} /\ Adoptable(rows[k], driver)
          /\ rows' = [rows EXCEPT ![k] = Adopted(rows[k], migrate.to)]
          /\ content' = [content EXCEPT !["db"] =
               CASE migrate.to = "db"               -> @ \cup {k}
                 [] driver = "db" /\ migrate.prune  -> @ \ {k}
                 [] OTHER                           -> @]
    BY <1>11 DEF MigrateAdopt, Sound, MigratesCopied
  <2>2. /\ migrate.pc = "adopt" /\ migrate.to \in Drivers /\ migrate.to # driver
        /\ migrate.to # "db" => k \in content[migrate.to]
        /\ migrate' = IF migrate.prune /\ driver # "db"
                      THEN [migrate EXCEPT !.pc = "prune"] ELSE NextRow
    BY <1>11, <2>1 DEF MigrateAdopt, Sound, MigratesCopied
  <2>3. gc.pc = "idle"
    BY <2>2, CollectsAlone
  <2>4. /\ rows'[k].driver = migrate.to /\ HasRow(k)' /\ HasRow(k)
        /\ \A j \in Keys : j # k => rows'[j] = rows[j]
    BY <2>1, <2>2, AdoptedWhere DEF Adoptable, HasRow
  <2>5. k \in content'[migrate.to]
    <3>1. CASE migrate.to = "db"
      <4> DEFINE payload == CASE migrate.to = "db"              -> content["db"] \cup {k}
                              [] driver = "db" /\ migrate.prune -> content["db"] \ {k}
                              [] OTHER                          -> content["db"]
      <4>1. content' = [content EXCEPT !["db"] = payload]
        BY <2>1
      <4>2. payload = content["db"] \cup {k}
        BY <2>2, <3>1
      <4> HIDE DEF payload
      <4> QED BY <3>1, <4>1, <4>2 DEF Drivers
    <3>2. CASE migrate.to # "db"
      <4>1. \E payload : content' = [content EXCEPT !["db"] = payload]
        BY <2>1
      <4> QED BY <2>2, <3>2, <4>1
    <3> QED BY <3>1, <3>2
  <2>6. \A j \in Keys : j # k => \A d \in Drivers : j \in content[d] => j \in content'[d]
    BY <2>1
  <2>7. Backed'
    <3>1. Stored(k)'
      BY <2>2, <2>4, <2>5 DEF Stored
    <3>2. \A j \in Keys : j # k => (HasRow(j)' <=> HasRow(j)) /\ (Stored(j) => Stored(j)')
      BY <2>4, <2>6 DEF HasRow, Stored
    <3> QED BY <1>1, <1>2, <2>4, <2>6, <3>1, <3>2 DEF Sound, Backed
  <2>8. MigratesCopied'
    <3>1. CASE migrate.prune /\ driver # "db"
      <4>1. migrate'.pc = "prune" /\ migrate'.to = migrate.to /\ migrate'.hand = {k}
        BY <2>1, <2>2, <3>1 DEF MigrateState
      <4> QED BY <1>1, <2>2, <2>4, <3>1, <4>1 DEF MigratesCopied
    <3>2. CASE ~(migrate.prune /\ driver # "db")
      <4>1. migrate'.pc = "next" /\ migrate'.to = migrate.to
        BY <2>2, <3>2 DEF NextRow, MigrateState
      <4> QED BY <1>1, <2>2, <4>1 DEF MigratesCopied
    <3> QED BY <3>1, <3>2
  <2>9. CollectsUnnamed'
    BY <1>1, <2>3 DEF CollectsUnnamed
  <2> QED BY <2>7, <2>8, <2>9 DEF Sound
<1>12. CASE MigratePrune
  <2>1. PICK k \in Keys : migrate.hand = {k} /\ HasRow(k) /\ rows[k].driver = migrate.to
    BY <1>12 DEF MigratePrune, Sound, MigratesCopied
  <2>2. /\ DeleteContent(driver, k) /\ migrate.pc = "prune" /\ driver # "db"
        /\ migrate.to \in Drivers /\ migrate.to # driver /\ migrate' = NextRow
    BY <1>12, <2>1 DEF MigratePrune, Sound, MigratesCopied
  <2>3. rows' = rows /\ content' = [content EXCEPT ![driver] = @ \ {k}]
    BY <2>2 DEF DeleteContent
  <2>4. Backed'
    <3>1. \A j \in Keys : HasRow(j)' <=> HasRow(j)
      BY <2>3 DEF HasRow
    <3>2. Stored(k)'
      BY <2>1, <2>2, <2>3 DEF Sound, Backed, Stored
    <3>3. \A j \in Keys : j # k => \A d \in Drivers : j \in content[d] => j \in content'[d]
      BY <2>3
    <3>4. \A j \in Keys : j # k => (Stored(j) => Stored(j)')
      BY <2>3, <3>3 DEF Stored
    <3> QED BY <1>1, <1>2, <2>1, <3>1, <3>2, <3>3, <3>4 DEF Sound, Backed
  <2>5. MigratesCopied'
    <3>1. migrate'.pc = "next" /\ migrate'.to = migrate.to
      BY <2>2 DEF NextRow, MigrateState
    <3> QED BY <1>1, <2>2, <3>1 DEF MigratesCopied
  <2>6. CollectsUnnamed'
    BY <1>1, <2>3 DEF Sound, CollectsUnnamed, HasRow
  <2> QED BY <2>4, <2>5, <2>6 DEF Sound
<1> QED
  BY <1>4, <1>5, <1>7, <1>8, <1>9, <1>10, <1>11, <1>12 DEF MigrateStep, MigrateNext

LEMMA PutStepSound ==
  ASSUME Inductive, Locked, LockedTools, LockedTools', Sound, PutStep
  PROVE  Sound'
<1> USE ToolTypes
<1>1. UNCHANGED <<driver, gc, migrate, inflight>>
  BY DEF PutStep, CliPutNext, CliPut, CliRegister, CliFail, platform
<1>2. ASSUME NEW k \in Keys, CliPut(k)
      PROVE  Sound'
  <2>1. putting' = {k} /\ Put(driver, k)
    BY <1>2 DEF CliPut
  <2>2. gc.pc = "idle"
    BY <1>2 DEF CliPut, CanOpen, Locked, LockedTools
  <2>3. \A j \in Keys : OnItsWay(j)' => OnItsWay(j) \/ j = k
    BY <1>1, <2>1 DEF OnItsWay
  <2> QED BY <1>1, <2>1, <2>2, <2>3, PutSound
<1>3. ASSUME NEW k \in Keys, CliRegister(k)
      PROVE  Sound'
  <2> DEFINE acq == Acquired(rows[k], driver)
             row == Released(acq, now)
  <2>1. OnItsWay(k) /\ putting' = {} /\ content' = content /\ rows' = [rows EXCEPT ![k] = row]
    BY <1>3 DEF CliRegister, OnItsWay
  <2>2. gc.pc = "idle"
    BY <2>1, CollectsAlone
  <2>3. acq \in Row
    BY InductiveParts, AcquiredRow, AbsentRef DEF ContentPart
  <2>4. row.state # "absent" /\ row.driver = IF HasRow(k) THEN rows[k].driver ELSE driver
    BY <2>3, AcquiredWhere, ReleasedWhere DEF HasRow
  <2>5. \A j \in Keys : OnItsWay(j)' => OnItsWay(j)
    BY <1>1, <2>1 DEF OnItsWay
  <2> HIDE DEF row
  <2> QED BY <1>1, <2>1, <2>2, <2>4, <2>5, AcquireSound
<1>4. CASE CliFail
  <2>1. UNCHANGED <<rows, content>> /\ putting' = {}
    BY <1>4 DEF CliFail
  <2>2. \A j \in Keys : OnItsWay(j)' => OnItsWay(j)
    BY <1>1, <2>1 DEF OnItsWay
  <2> QED BY <1>1, <2>1, <2>2, QuietSound
<1> QED BY <1>2, <1>3, <1>4 DEF PutStep, CliPutNext

LEMMA SoundKept ==
  ASSUME "loss" \notin Active
  PROVE  Inductive /\ Locked /\ LockedTools /\ LockedTools' /\ Sound /\ [Next]_vars => Sound'
<1> SUFFICES ASSUME Inductive, Locked, LockedTools, LockedTools', Sound, [Next]_vars
             PROVE  Sound'
  OBVIOUS
<1>1. CASE \E to \in Backends : SwitchDriver(to)
  <2>1. /\ UNCHANGED <<rows, content, gc, migrate, putting, inflight>>
        /\ gc.pc = "idle" /\ migrate.pc = "idle"
        /\ \A k \in Keys : ~OnItsWay(k)
    BY <1>1 DEF SwitchDriver, Busy, OnItsWay, platform
  <2>2. \A k \in Keys : (OnItsWay(k)' <=> OnItsWay(k)) /\ (Stored(k)' <=> Stored(k))
    BY <2>1 DEF OnItsWay, Stored
  <2> QED BY <2>1, <2>2 DEF Sound, Backed, CollectsUnnamed, MigratesCopied, HasRow
<1>2. CASE ClockStep \/ UNCHANGED vars
  <2>1. UNCHANGED <<rows, content, driver, gc, migrate, putting, inflight>>
    BY <1>2 DEF ClockStep, Tick, vars, registry, platform
  <2>2. \A k \in Keys : OnItsWay(k)' <=> OnItsWay(k)
    BY <2>1 DEF OnItsWay
  <2> QED BY <2>1, <2>2, QuietSound
<1> QED
  BY <1>1, <1>2, ServerSound, CollectSound, VerifySound, MigrateSound, PutStepSound DEF Next

(* No dangling reference, in an instance where nothing destroys content behind
   the system's back and the operator keeps to LockedTools: whatever archives,
   deletes, downloads, collections, verifications, migrations and changes of
   driver interleave, a cited object's content is in the backend its row names.
   The stronger fact behind it is that it is there even where the row says
   that it is missing. *)
THEOREM NoDanglingCorrect ==
  ASSUME "loss" \notin Active
  PROVE  Spec /\ []LockedTools => []NoDangling
<1>1. Init => Sound
  BY DEF Init, RegistryInit, PlatformInit, GCInit, GCIdle, MigrateInit, MigrateIdle, Sound,
         Backed, CollectsUnnamed, MigratesCopied, HasRow, NoRow, OnItsWay
<1>2. Inductive /\ Locked /\ LockedTools /\ LockedTools' /\ Sound /\ [Next]_vars => Sound'
  BY SoundKept
<1>3. Inductive /\ Sound => NoDangling
  <2> SUFFICES ASSUME Inductive, Sound, NEW k \in Cited
               PROVE  k \in content[rows[k].driver]
    BY DEF NoDangling
  <2>1. k \in Keys /\ reports[k] # {}
    BY DEF Cited
  <2>2. rows[k].ref # 0
    BY <2>1, InductiveParts, UncitedHasNoReference
  <2>3. HasRow(k)
    BY <2>1, <2>2 DEF Inductive, NoRow
  <2> QED BY <2>1, <2>3 DEF Sound, Backed, Stored
<1> QED BY <1>1, <1>2, <1>3, LockedHolds, PTL DEF Spec

=============================================================================
