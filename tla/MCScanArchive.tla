---------------------------- MODULE MCScanArchive ----------------------------
(***************************************************************************)
(* Small instances of ScanArchive for TLC.                                  *)
(***************************************************************************)
EXTENDS ScanArchive, TLC

CONSTANT s1

(* One scan, of a healthy cluster: there is nothing to diagnose. *)
MCHealthy == s1 :> {}
MCNothing == {[i \in Incidents |-> None]}

WithLogs == {{Evidence}}
=============================================================================
