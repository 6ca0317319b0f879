---------------------------- MODULE CitedObjects ----------------------------
(***************************************************************************)
(* What the object registry promises its users, and nothing about how: a    *)
(* key is held while anything cites it, only an uncited key is ever claimed *)
(* for collection, and a claimed key can no longer be cited; it can only    *)
(* be dropped, after which it may be held afresh.                           *)
(***************************************************************************)
CONSTANTS Keys, Reports

VARIABLES
  cites,     \* key -> the reports that cite it
  held,      \* keys the registry has a row for
  claimed    \* keys being collected

cited == <<cites, held, claimed>>

Init ==
  /\ cites = [k \in Keys |-> {}]
  /\ held = {}
  /\ claimed = {}

Hold(k) ==
  /\ k \notin held
  /\ held' = held \cup {k}
  /\ UNCHANGED <<cites, claimed>>

Cite(k, r) ==
  /\ k \notin claimed
  /\ \A j \in Keys : r \notin cites[j]
  /\ cites' = [cites EXCEPT ![k] = @ \cup {r}]
  /\ held' = held \cup {k}
  /\ UNCHANGED claimed

Uncite(k, r) ==
  /\ r \in cites[k]
  /\ cites' = [cites EXCEPT ![k] = @ \ {r}]
  /\ UNCHANGED <<held, claimed>>

Claim(k) ==
  /\ k \in held /\ cites[k] = {}
  /\ claimed' = claimed \cup {k}
  /\ UNCHANGED <<cites, held>>

Drop(k) ==
  /\ k \in claimed
  /\ claimed' = claimed \ {k}
  /\ held' = held \ {k}
  /\ UNCHANGED cites

Next ==
  \E k \in Keys :
    \/ Hold(k) \/ Claim(k) \/ Drop(k)
    \/ \E r \in Reports : Cite(k, r) \/ Uncite(k, r)

Spec == Init /\ [][Next]_cited

(* A cited key is held and is not being collected. *)
CitedIsHeld == \A k \in Keys : cites[k] # {} => k \in held \ claimed
=============================================================================
