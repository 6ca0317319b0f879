---------------------------- MODULE SessionRows ----------------------------
(***************************************************************************)
(* What the platform database keeps of one chat session: its row (name and  *)
(* conversation in one document) and the turn and step rows written while a *)
(* send runs.  Sessions share nothing but the code, so one id is modelled.  *)
(* An id may be deleted and taken again: handleCreateSession accepts one.   *)
(***************************************************************************)
EXTENDS Integers

CONSTANTS
  Sends,  \* the send-message requests, one run each
  Edits,  \* the rename requests; an edit is also the name it sets
  Lives,  \* how often the id may be created
  Unnamed    \* the name a session is created with

ASSUME RowsAssumption == Lives \in Nat \ {0} /\ Unnamed \notin Edits

VARIABLES row, lives, trace, edit

rowVars == <<row, lives, trace, edit>>

Row == [state : {"live", "gone"}, name : Edits \cup {Unnamed}, talks : SUBSET Sends]

FreshRow == [state |-> "live", name |-> Unnamed, talks |-> {}]
NoRow == [state |-> "gone", name |-> Unnamed, talks |-> {}]

Exists == row.state = "live"

RowsTypeOK ==
  /\ row \in Row
  /\ lives \in 1..Lives
  /\ trace \subseteq Sends
  /\ edit \in [Edits -> [pc : {"idle", "read", "saved", "refused"}, copy : Row]]

RowsInit ==
  /\ row = FreshRow /\ lives = 1
  /\ trace = {}
  /\ edit = [e \in Edits |-> [pc |-> "idle", copy |-> NoRow]]

(* The end-of-turn write written as an upsert. *)
UpsertedRow(copy) == [copy EXCEPT !.state = "live"]

(* UPDATE ... WHERE id = ?: the whole row is replaced, an absent one is not
   inserted. *)
SavedRow(copy) == IF Exists THEN copy ELSE row

(* What the lifecycle observer stores of send r: INSERTs under the run's own
   context, which ask nothing of the session's row. *)
Traced(r, ctx) == IF ctx = "open" THEN trace \cup {r} ELSE trace

CreateRow ==
  /\ ~Exists /\ lives < Lives
  /\ row' = FreshRow /\ lives' = lives + 1
  /\ UNCHANGED <<trace, edit>>

(* Row, turns and steps go in one transaction. *)
DropRow ==
  /\ Exists
  /\ row' = NoRow
  /\ trace' = {}
  /\ UNCHANGED <<lives, edit>>

(* The read without its ErrNotFound return. *)
EditReadUnchecked(e) ==
  /\ edit[e].pc = "idle"
  /\ edit' = [edit EXCEPT ![e] = [pc |-> "read", copy |-> row]]
  /\ UNCHANGED <<row, lives, trace>>

(* RenameSession reads the row, changes its own field and writes all of it
   back; PinSession does the same to another field. *)
EditRead(e) ==
  /\ edit[e].pc = "idle" /\ Exists
  /\ edit' = [edit EXCEPT ![e] = [pc |-> "read", copy |-> row]]
  /\ UNCHANGED <<row, lives, trace>>

EditWrite(e) ==
  /\ edit[e].pc = "read"
  /\ row' = SavedRow([edit[e].copy EXCEPT !.name = e])
  /\ edit' = [edit EXCEPT ![e] = [pc |-> IF Exists THEN "saved" ELSE "refused", copy |-> NoRow]]
  /\ UNCHANGED <<lives, trace>>

EditNext == \E e \in Edits : EditRead(e) \/ EditWrite(e)
=============================================================================
