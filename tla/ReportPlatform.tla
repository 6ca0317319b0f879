--------------------------- MODULE ReportPlatform ---------------------------
(***************************************************************************)
(* The server's side of the object subsystem: archiving a finished scan,   *)
(* deleting report rows, downloading report content.  Each is a short       *)
(* sequence of database statements and backend calls with other requests,   *)
(* and the operators' tools, running in between.                            *)
(***************************************************************************)
EXTENDS ObjectRegistry

CONSTANTS
  Writers,       \* scans that may be archiving at the same time
  MaxDeletes,    \* bound on the delete requests in flight
  MaxDownloads   \* bound on the download requests in flight

ASSUME PlatformAssumption == MaxDeletes \in Nat /\ MaxDownloads \in Nat

VARIABLES
  inflight,   \* writer -> the key it has put and not yet committed ({} or {k})
  deletes,    \* DELETE requests in flight
  downloads   \* content requests in flight

platform == <<inflight, deletes, downloads>>

DeleteRequest == [report : Reports, key : Keys, phase : {"probe", "skip", "release"}]
Download == [key : Keys, phase : {"get", "mark"}]

PlatformInit ==
  /\ inflight = [w \in Writers |-> {}]
  /\ deletes = {}
  /\ downloads = {}

PlatformTypeOK ==
  /\ inflight \in [Writers -> SUBSET Keys]
  /\ deletes \subseteq DeleteRequest
  /\ downloads \subseteq Download

Serving == Holds("server", driver)

Busy ==
  \/ deletes # {} \/ downloads # {}
  \/ \E w \in Writers : inflight[w] # {}

(* The gateway opens the dir backend once, and keeps its root locked until the
   process ends: a stop or a crash, which also loses every request in flight. *)
ServerOpen ==
  /\ driver = "dir" /\ lock = "free"
  /\ lock' = "server"
  /\ UNCHANGED <<rows, reports, issued, content, driver, now, platform>>

ServerStop ==
  /\ Busy \/ lock = "server"
  /\ lock' = Closed("server")
  /\ inflight' = [w \in Writers |-> {}]
  /\ deletes' = {} /\ downloads' = {}
  /\ UNCHANGED <<rows, reports, issued, content, driver, now>>

(***************************************************************************)
(* Archiving one artifact: the content first, then the report row and its  *)
(* reference in one transaction.                                            *)
(***************************************************************************)
ArchivePut(w, k) ==
  /\ Serving
  /\ inflight[w] = {}
  /\ Put(driver, k)
  /\ inflight' = [inflight EXCEPT ![w] = {k}]
  /\ UNCHANGED <<reports, issued, driver, lock, now, deletes, downloads>>

ArchiveCommit(w, k, r) ==
  /\ k \in inflight[w]
  /\ r \notin issued
  /\ Acquirable(rows[k])
  /\ rows' = [rows EXCEPT ![k] = Acquired(@, driver)]
  /\ reports' = [reports EXCEPT ![k] = @ \cup {r}]
  /\ issued' = issued \cup {r}
  /\ inflight' = [inflight EXCEPT ![w] = {}]
  /\ UNCHANGED <<content, driver, lock, now, deletes, downloads>>

(* The transaction fails (the row is being collected, or the database is
   unreachable) and rolls back; the put stays. *)
ArchiveAbort(w) ==
  /\ inflight[w] # {}
  /\ inflight' = [inflight EXCEPT ![w] = {}]
  /\ UNCHANGED <<registry, deletes, downloads>>

(***************************************************************************)
(* Deleting a report: find the row, ask the object row whether there is a  *)
(* reference to release, then delete the row and release in one            *)
(* transaction.  The three steps are separate statements.                   *)
(***************************************************************************)
DeleteLookup(k, r) ==
  /\ r \in reports[k]
  /\ Cardinality(deletes) < MaxDeletes
  /\ deletes' = deletes \cup {[report |-> r, key |-> k, phase |-> "probe"]}
  /\ UNCHANGED <<registry, inflight, downloads>>

DeleteProbeOffByOne(q) ==
  /\ q.phase = "probe"
  /\ LET found == HasRow(q.key) /\ rows[q.key].ref > 1
     IN deletes' = (deletes \ {q})
          \cup {[q EXCEPT !.phase = IF found THEN "release" ELSE "skip"]}
  /\ UNCHANGED <<registry, inflight, downloads>>

DeleteProbe(q) ==
  /\ q.phase = "probe"
  /\ LET found == HasRow(q.key) /\ rows[q.key].ref > 0
     IN deletes' = (deletes \ {q})
          \cup {[q EXCEPT !.phase = IF found THEN "release" ELSE "skip"]}
  /\ UNCHANGED <<registry, inflight, downloads>>

DeleteCommit(q) ==
  /\ q.phase # "probe"
  /\ deletes' = deletes \ {q}
  /\ q.report \in reports[q.key]
  /\ q.phase = "release" => Releasable(rows[q.key])
  /\ reports' = [reports EXCEPT ![q.key] = @ \ {q.report}]
  /\ rows' = IF q.phase = "release"
             THEN [rows EXCEPT ![q.key] = Released(@, now)] ELSE rows
  /\ UNCHANGED <<issued, content, driver, lock, now, inflight, downloads>>

(* Another request deleted the row first, the reference is gone under the
   transaction, or the request dies: nothing is written. *)
DeleteGiveUp(q) ==
  /\ deletes' = deletes \ {q}
  /\ UNCHANGED <<registry, inflight, downloads>>

(***************************************************************************)
(* Downloading: resolve the report to a row of the current driver, ask the *)
(* backend, and mark the row missing when the backend says "not found".     *)
(***************************************************************************)
DownloadResolve(k) ==
  /\ k \in Cited
  /\ Cardinality(downloads) < MaxDownloads
  /\ HasRow(k) /\ rows[k].driver = driver
  /\ downloads' = downloads \cup {[key |-> k, phase |-> "get"]}
  /\ UNCHANGED <<registry, inflight, deletes>>

DownloadGet(g) ==
  /\ g.phase = "get"
  /\ Serving
  /\ downloads' = (downloads \ {g})
       \cup (IF g.key \in content[driver] THEN {} ELSE {[g EXCEPT !.phase = "mark"]})
  /\ UNCHANGED <<registry, inflight, deletes>>

DownloadMark(g) ==
  /\ g.phase = "mark"
  /\ downloads' = downloads \ {g}
  /\ rows' = [rows EXCEPT ![g.key] = MarkedMissing(@)]
  /\ UNCHANGED <<reports, issued, content, driver, lock, now, inflight, deletes>>

PlatformNext ==
  \/ ServerOpen
  \/ ServerStop
  \/ \E w \in Writers :
       \/ \E k \in Keys : ArchivePut(w, k)
       \/ \E k \in Keys, r \in Reports : ArchiveCommit(w, k, r)
       \/ ArchiveAbort(w)
  \/ \E k \in Keys, r \in Reports : DeleteLookup(k, r)
  \/ \E q \in deletes : DeleteProbe(q) \/ DeleteCommit(q) \/ DeleteGiveUp(q)
  \/ \E k \in Keys : DownloadResolve(k)
  \/ \E g \in downloads : DownloadGet(g) \/ DownloadMark(g)
=============================================================================
