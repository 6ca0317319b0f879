------------------------------ MODULE MCScanJobs ------------------------------
(***************************************************************************)
(* Small instances of ScanJobs for TLC.                                     *)
(***************************************************************************)
EXTENDS ScanJobs, TLC

CONSTANTS i1, i2, s1, s2

(* What the program knows of the incidents before the model is asked. *)
Found(root, cited) == [used |-> FALSE, passed |-> TRUE, cited |-> cited, root |-> root]
MCFindings == {i1 :> Found("confirmed", TRUE) @@ i2 :> None}

(* Two scans, the second of a healthy cluster: its job meets the end of the
   first, or its cancel. *)
MCIncidentsOf == s1 :> {i1, i2} @@ s2 :> {}
InTurn == status'[s2] # "none" => status[s1] # "none"

WithModel == {{LLM}}
=============================================================================
