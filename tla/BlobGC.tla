------------------------------- MODULE BlobGC -------------------------------
(***************************************************************************)
(* `k8s-ai blobs gc`: claim each expired row with a compare-and-set, forget *)
(* the row, delete its content; then list the backend and delete the        *)
(* content no row names.  A process of its own beside the server, so every  *)
(* statement and every backend call is a step, and it may die after any.    *)
(***************************************************************************)
EXTENDS ObjectRegistry

VARIABLE gc

GCState == [pc : {"idle", "claim", "forget", "delete", "scan", "sweep"},
            cutoff : Int, todo : SUBSET Keys, hand : SUBSET Keys]

GCIdle == [pc |-> "idle", cutoff |-> 0, todo |-> {}, hand |-> {}]

GCInit == gc = GCIdle

GCTypeOK == gc \in GCState

GCStart ==
  /\ gc.pc = "idle" /\ CanOpen({driver})
  /\ lock' = Opened("gc", {driver})
  /\ LET cutoff == now - Grace
     IN gc' = [pc |-> "claim", cutoff |-> cutoff, hand |-> {},
               todo |-> {k \in Keys : /\ Collectable(rows[k], cutoff)
                                      /\ rows[k].driver = driver}]
  /\ UNCHANGED <<rows, reports, issued, content, driver, now>>

GCClaimListed(k) ==
  /\ gc.pc = "claim" /\ k \in gc.todo
  /\ rows' = [rows EXCEPT ![k].state = "deleting"]
  /\ gc' = [gc EXCEPT !.pc = "forget", !.todo = @ \ {k}, !.hand = {k}]
  /\ UNCHANGED <<reports, issued, content, driver, lock, now>>

GCClaim(k) ==
  /\ gc.pc = "claim" /\ k \in gc.todo
  /\ Collectable(rows[k], gc.cutoff)
  /\ rows' = [rows EXCEPT ![k].state = "deleting"]
  /\ gc' = [gc EXCEPT !.pc = "forget", !.todo = @ \ {k}, !.hand = {k}]
  /\ UNCHANGED <<reports, issued, content, driver, lock, now>>

(* The compare-and-set misses: the row was cited again since it was listed. *)
GCRevived(k) ==
  /\ gc.pc = "claim" /\ k \in gc.todo
  /\ ~Collectable(rows[k], gc.cutoff)
  /\ gc' = [gc EXCEPT !.todo = @ \ {k}]
  /\ UNCHANGED registry

GCForget ==
  /\ gc.pc = "forget"
  /\ \E k \in gc.hand : ForgetRow(k)
  /\ gc' = [gc EXCEPT !.pc = "delete"]
  /\ UNCHANGED <<reports, issued, driver, lock, now>>

GCDelete ==
  /\ gc.pc = "delete"
  /\ \E k \in gc.hand : DeleteContent(driver, k)
  /\ gc' = [gc EXCEPT !.pc = "claim", !.hand = {}]
  /\ UNCHANGED <<reports, issued, driver, lock, now>>

(* BuildInventory reads the whole registry, then lists the backend. *)
GCReadRegistry ==
  /\ gc.pc = "claim" /\ gc.todo = {}
  /\ gc' = [gc EXCEPT !.pc = "scan", !.hand = {k \in Keys : HasRow(k)}]
  /\ UNCHANGED registry

GCScanReversed ==
  /\ gc.pc = "scan"
  /\ gc' = [gc EXCEPT !.pc = "sweep", !.todo = gc.hand \ content[driver], !.hand = {}]
  /\ UNCHANGED registry

GCScan ==
  /\ gc.pc = "scan"
  /\ gc' = [gc EXCEPT !.pc = "sweep", !.todo = content[driver] \ gc.hand, !.hand = {}]
  /\ UNCHANGED registry

GCSweep(k) ==
  /\ gc.pc = "sweep" /\ k \in gc.todo
  /\ DeleteContent(driver, k)
  /\ gc' = [gc EXCEPT !.todo = @ \ {k}]
  /\ UNCHANGED <<reports, issued, driver, lock, now>>

GCFinish ==
  /\ gc.pc = "sweep" /\ gc.todo = {}
  /\ gc' = GCIdle
  /\ lock' = Closed("gc")
  /\ UNCHANGED <<rows, reports, issued, content, driver, now>>

(* A database or backend error aborts the run, or the process dies: what was
   done stays done and the next run starts from the tables. *)
GCFail ==
  /\ gc.pc # "idle"
  /\ gc' = GCIdle
  /\ lock' = Closed("gc")
  /\ UNCHANGED <<rows, reports, issued, content, driver, now>>

GCStep ==
  \/ GCStart
  \/ \E k \in Keys : GCClaim(k) \/ GCRevived(k) \/ GCSweep(k)
  \/ GCForget \/ GCDelete \/ GCReadRegistry \/ GCScan \/ GCFinish

GCNext == GCStep \/ GCFail
=============================================================================
