----------------------------- MODULE ScanArchive -----------------------------
(***************************************************************************)
(* Scan jobs and the object storage gateway of one server: the last stage   *)
(* of a scan puts its report through the gateway that other requests use,   *)
(* with the scan's context, which a cancel or the deadline may have ended.  *)
(***************************************************************************)
EXTENDS ScanJobs, BlobGateway

CONSTANT MaxGone \* requests whose client leaves before the answer

ASSUME ArchiveAssumption == Scans \subseteq Requests \ Probers /\ MaxGone \in Nat

Others == Requests \ Scans

VARIABLES
  gone, \* other requests whose client has left
  left  \* how many have so far

archiveVars == <<vars, gatewayVars, gone, left>>

ArchiveTypeOK ==
  /\ TypeOK /\ GatewayTypeOK
  /\ gone \subseteq Others /\ left \in 0..MaxGone

ArchiveInit == Init /\ GatewayInit /\ gone = {} /\ left = 0

InArchive(s) == pc[s] = "inside" /\ at[s] = Archive
Ended(s) == ctx[s] # "open"

-----------------------------------------------------------------------------
(* ReportArchiveWriter.Archive through the gateway ... *)
PutStep(s) ==
  /\ InArchive(s) /\ GateStep(s, Ended(s))
  /\ UNCHANGED <<vars, gone, left>>

(* ... and its transaction, which an ended context or the database may fail. *)
ArchiveStored(s) ==
  /\ InArchive(s) /\ call[s] = "served" /\ ~Ended(s)
  /\ Answer(s) /\ StageDone(s)
  /\ UNCHANGED <<gone, left>>

ArchiveAgain(s) ==
  /\ InArchive(s) /\ call[s] # "served" /\ Answer(s)
  /\ UNCHANGED <<vars, gone, left>>

ArchiveMissed(s) ==
  /\ InArchive(s) /\ Answer(s) /\ ArchiveFails(s)
  /\ UNCHANGED <<gone, left>>

ScanStep(s) ==
  \/ ~InArchive(s) /\ JobStep(s) /\ UNCHANGED <<gatewayVars, gone, left>>
  \/ PutStep(s) \/ ArchiveStored(s) \/ ArchiveMissed(s)

(* Another request, a download or a look at the storage's health. *)
OtherStep(c) ==
  \/ GateStep(c, c \in gone) /\ UNCHANGED <<vars, gone, left>>
  \/ Answer(c) /\ gone' = gone \ {c} /\ UNCHANGED <<vars, left>>

ClientLeaves(c) ==
  /\ call[c] # "idle" /\ c \notin gone /\ left < MaxGone
  /\ gone' = gone \cup {c} /\ left' = left + 1
  /\ UNCHANGED <<vars, gatewayVars>>

UserStep ==
  \/ \E s \in Scans, u \in Users : CreateScan(s, u) \/ CancelScan(s, u)
  \/ \E s \in Scans : StopContext(s) \/ Expire(s)

Weather == Tick \/ GoDown \/ ComeUp

ArchiveNext ==
  \/ UserStep /\ UNCHANGED <<gatewayVars, gone, left>>
  \/ Weather /\ UNCHANGED <<vars, gone, left>>
  \/ \E s \in Scans : ScanStep(s)
  \/ \E c \in Others : OtherStep(c) \/ ClientLeaves(c)

ArchiveSpec == ArchiveInit /\ [][ArchiveNext]_archiveVars

(* As in FairSpec; the clock runs, and other requests keep coming: the gateway
   recovers only when it is asked. *)
ArchiveFairSpec ==
  /\ ArchiveSpec
  /\ \A s \in Scans : /\ WF_archiveVars(ScanStep(s))
                      /\ WF_archiveVars(Expire(s) /\ UNCHANGED <<gatewayVars, gone, left>>)
  /\ \A c \in Others : WF_archiveVars(OtherStep(c))
  /\ WF_archiveVars(Tick /\ UNCHANGED <<vars, gone, left>>)
=============================================================================
