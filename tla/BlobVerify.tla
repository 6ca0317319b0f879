----------------------------- MODULE BlobVerify -----------------------------
(***************************************************************************)
(* `k8s-ai blobs verify`: list the registry once, Stat every row of the     *)
(* current driver, and only after the whole pass mark the rows whose        *)
(* content was not found.                                                   *)
(***************************************************************************)
EXTENDS ObjectRegistry

VARIABLE verify

VerifyState == [pc : {"idle", "stat", "mark"}, todo : SUBSET Keys, lost : SUBSET Keys]

VerifyIdle == [pc |-> "idle", todo |-> {}, lost |-> {}]

VerifyInit == verify = VerifyIdle

VerifyTypeOK == verify \in VerifyState

VerifyStart ==
  /\ verify.pc = "idle" /\ CanOpen({driver})
  /\ lock' = Opened("verify", {driver})
  /\ verify' = [pc |-> "stat", lost |-> {},
                todo |-> {k \in Keys : /\ rows[k].state \notin {"absent", "deleting"}
                                       /\ rows[k].driver = driver}]
  /\ UNCHANGED <<rows, reports, issued, content, driver, now>>

VerifyStat(k) ==
  /\ verify.pc = "stat" /\ k \in verify.todo
  /\ verify' = [verify EXCEPT !.todo = @ \ {k},
                              !.lost = IF k \in content[driver] THEN @ ELSE @ \cup {k}]
  /\ UNCHANGED registry

VerifyScanned ==
  /\ verify.pc = "stat" /\ verify.todo = {}
  /\ verify' = [verify EXCEPT !.pc = "mark"]
  /\ UNCHANGED registry

VerifyMark(k) ==
  /\ verify.pc = "mark" /\ k \in verify.lost
  /\ HasRow(k)
  /\ rows' = [rows EXCEPT ![k] = MarkedMissing(@)]
  /\ verify' = [verify EXCEPT !.lost = @ \ {k}]
  /\ UNCHANGED <<reports, issued, content, driver, lock, now>>

(* Done; or MarkMissing found a row gone and aborts with the rest unmarked; or
   a database or backend error, or the process dies. *)
VerifyEnd ==
  /\ verify.pc # "idle"
  /\ verify' = VerifyIdle
  /\ lock' = Closed("verify")
  /\ UNCHANGED <<rows, reports, issued, content, driver, now>>

VerifyNext ==
  \/ VerifyStart \/ VerifyScanned \/ VerifyEnd
  \/ \E k \in Keys : VerifyStat(k) \/ VerifyMark(k)
=============================================================================
