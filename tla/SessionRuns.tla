---------------------------- MODULE SessionRuns ----------------------------
(***************************************************************************)
(* The chat runs of one session: the handlers of sessionapi.Server, which   *)
(* share the maps pending and runs under one mutex, the run each accepted   *)
(* message starts, and the channel that carries approvals into it.          *)
(***************************************************************************)
EXTENDS SessionRows

CONSTANTS
  Posts,      \* the approve requests
  MaxPrompts, \* confirmations one run may ask for
  None

ASSUME RunsAssumption == MaxPrompts \in Nat /\ None \notin Sends \cup Posts

VARIABLES
  slot,     \* the run registered in pending[id] and runs[id], which are set
            \* and deleted together; or None
  deleting, \* delete requests between the store and the maps
  run,      \* [Sends -> run]
  post      \* [Posts -> approve request]

chatVars == <<slot, deleting, run, post>>
sessionVars == <<rowVars, chatVars>>

Prompts == Sends \X (1..MaxPrompts)

(* ctx: may the run's context still be used; box: the respond channel, one
   place; asked: prompts raised; wrote: those whose write was executed. *)
Run == [pc : {"idle", "owned", "admitted", "opened", "working", "asking",
              "stopped", "saved", "over"},
        ctx : {"open", "done"}, box : Posts \cup {None}, asked : 0..MaxPrompts,
        wrote : SUBSET (0..MaxPrompts), copy : Row]

Post == [pc : {"idle", "owned", "holding", "accepted", "taken", "refused"},
         saw : Prompts \cup {<<>>}, choice : {"yes", "no"}, to : Sends \cup {None}]

NoPost == [pc |-> "idle", saw |-> <<>>, choice |-> "no", to |-> None]
Refused == [NoPost EXCEPT !.pc = "refused"]

RunsTypeOK ==
  /\ RowsTypeOK
  /\ slot \in Sends \cup {None}
  /\ deleting \in Nat
  /\ run \in [Sends -> Run]
  /\ post \in [Posts -> Post]

RunsInit ==
  /\ RowsInit
  /\ slot = None /\ deleting = 0
  /\ run = [r \in Sends |-> [pc |-> "idle", ctx |-> "open", box |-> None,
                             asked |-> 0, wrote |-> {}, copy |-> NoRow]]
  /\ post = [a \in Posts |-> NoPost]

(* Has a copy of the session's row, from Chat's read to the end-of-turn write;
   works until its events are drained; is active from its admission. *)
Copied(r) == run[r].pc \in {"opened", "working", "asking", "stopped"}
Working(r) == Copied(r) \/ run[r].pc = "saved"
Active(r) == run[r].pc = "admitted" \/ Working(r)

-----------------------------------------------------------------------------
(* handleSendMessage *)

SendOwned(r) ==
  /\ run[r].pc = "idle" /\ Exists
  /\ run' = [run EXCEPT ![r].pc = "owned"]
  /\ UNCHANGED <<rowVars, slot, deleting, post>>

SendRefused(r) ==
  /\ run[r].pc = "owned" /\ slot # None
  /\ run' = [run EXCEPT ![r].pc = "over"]
  /\ UNCHANGED <<rowVars, slot, deleting, post>>

AdmitUnchecked(r) ==
  /\ run[r].pc = "owned"
  /\ slot' = r
  /\ run' = [run EXCEPT ![r].pc = "admitted"]
  /\ UNCHANGED <<rowVars, deleting, post>>

Admit(r) ==
  /\ run[r].pc = "owned" /\ slot = None
  /\ slot' = r
  /\ run' = [run EXCEPT ![r].pc = "admitted"]
  /\ UNCHANGED <<rowVars, deleting, post>>

(* service.Chat reads the session and starts the run's goroutine ... *)
ChatOpened(r) ==
  /\ run[r].pc = "admitted" /\ Exists
  /\ run' = [run EXCEPT ![r] = [run[r] EXCEPT !.pc = "opened", !.copy = row]]
  /\ UNCHANGED <<rowVars, slot, deleting, post>>

ChatFailedKept(r) ==
  /\ run[r].pc = "admitted"
  /\ run' = [run EXCEPT ![r] = [run[r] EXCEPT !.pc = "over", !.ctx = "done"]]
  /\ UNCHANGED <<rowVars, slot, deleting, post>>

(* ... or fails: no such session, no model, no tools, an unknown skill. *)
ChatFailed(r) ==
  /\ run[r].pc = "admitted"
  /\ slot' = None
  /\ run' = [run EXCEPT ![r] = [run[r] EXCEPT !.pc = "over", !.ctx = "done"]]
  /\ UNCHANGED <<rowVars, deleting, post>>

-----------------------------------------------------------------------------
(* Agent.Chat under runChat.  Every step of the loop stores turn and step
   rows while the context lasts. *)

Step(r, pc) ==
  /\ trace' = Traced(r, run[r].ctx)
  /\ run' = [run EXCEPT ![r].pc = pc]
  /\ UNCHANGED <<row, lives, edit, slot, deleting, post>>

TurnStart(r) == run[r].pc = "opened" /\ Step(r, "working")

AskOnceMore(r) ==
  /\ run[r].pc = "working" /\ run[r].asked <= MaxPrompts
  /\ trace' = Traced(r, run[r].ctx)
  /\ run' = [run EXCEPT ![r] = [run[r] EXCEPT !.pc = "asking", !.asked = run[r].asked + 1]]
  /\ UNCHANGED <<row, lives, edit, slot, deleting, post>>

(* A call that needs consent.  A dead context does not keep a batch's next
   call from asking. *)
Ask(r) ==
  /\ run[r].pc = "working" /\ run[r].asked < MaxPrompts
  /\ trace' = Traced(r, run[r].ctx)
  /\ run' = [run EXCEPT ![r] = [run[r] EXCEPT !.pc = "asking", !.asked = run[r].asked + 1]]
  /\ UNCHANGED <<row, lives, edit, slot, deleting, post>>

(* confirm's select: an answer in the channel.  A yes executes the write,
   which a dead context stops before it starts. *)
TakeAnswer(r) ==
  /\ run[r].pc = "asking" /\ run[r].box # None
  /\ LET a == run[r].box
     IN /\ run' = [run EXCEPT ![r] = [run[r] EXCEPT !.pc = "working", !.box = None,
                      !.wrote = IF post[a].choice = "yes" /\ run[r].ctx = "open"
                                THEN run[r].wrote \cup {run[r].asked} ELSE run[r].wrote]]
        /\ post' = [post EXCEPT ![a].pc = "taken"]
  /\ trace' = Traced(r, run[r].ctx)
  /\ UNCHANGED <<row, lives, edit, slot, deleting>>

(* A confirm that sees the dead context only after an answer. *)
WaitForAnswer(r) ==
  /\ run[r].pc = "asking" /\ run[r].ctx = "done" /\ run[r].box # None
  /\ run' = [run EXCEPT ![r].pc = "working"]
  /\ UNCHANGED <<rowVars, slot, deleting, post>>

(* confirm's select: the context is done. *)
GiveUp(r) ==
  /\ run[r].pc = "asking" /\ run[r].ctx = "done"
  /\ run' = [run EXCEPT ![r].pc = "working"]
  /\ UNCHANGED <<rowVars, slot, deleting, post>>

(* A final answer, an LLM error or an exhausted budget. *)
Finish(r) == run[r].pc = "working" /\ Step(r, "stopped")

(* agent.timeout *)
Expire(r) ==
  /\ run[r].pc \in {"working", "asking"} /\ run[r].ctx = "open"
  /\ run' = [run EXCEPT ![r].ctx = "done"]
  /\ UNCHANGED <<rowVars, slot, deleting, post>>

(* persistTurnSession writes the copy read by Chat, with the turn's messages. *)
SaveTurn(r) ==
  /\ run[r].pc = "stopped"
  /\ row' = SavedRow([run[r].copy EXCEPT !.talks = @ \cup {r}])
  /\ run' = [run EXCEPT ![r] = [run[r] EXCEPT !.pc = "saved", !.copy = NoRow]]
  /\ UNCHANGED <<lives, trace, edit, slot, deleting, post>>

(* The row is over its size limit, or the database is away. *)
SaveFailed(r) ==
  /\ run[r].pc = "stopped"
  /\ run' = [run EXCEPT ![r] = [run[r] EXCEPT !.pc = "saved", !.copy = NoRow]]
  /\ UNCHANGED <<rowVars, slot, deleting, post>>

UnwindBeforeSave(r) ==
  /\ run[r].pc \in {"stopped", "saved"}
  /\ slot' = None
  /\ run' = [run EXCEPT ![r] = IF run[r].pc = "saved"
                              THEN [run[r] EXCEPT !.pc = "over", !.ctx = "done"] ELSE run[r]]
  /\ UNCHANGED <<rowVars, deleting, post>>

(* The events are drained: the entries of this id go, whosever they are. *)
Unwind(r) ==
  /\ run[r].pc = "saved"
  /\ slot' = None
  /\ run' = [run EXCEPT ![r] = [run[r] EXCEPT !.pc = "over", !.ctx = "done"]]
  /\ UNCHANGED <<rowVars, deleting, post>>

-----------------------------------------------------------------------------
(* handleCreateSession, handleCancel, handleDeleteSession *)

Create == CreateRow /\ UNCHANGED chatVars

(* Calling the function after the lock is released changes nothing: it is
   bound to the run it was read for. *)
Cancel ==
  /\ Exists /\ slot # None
  /\ run' = [run EXCEPT ![slot].ctx = "done"]
  /\ UNCHANGED <<rowVars, slot, deleting, post>>

DeleteRow ==
  /\ DropRow
  /\ deleting' = deleting + 1
  /\ UNCHANGED <<slot, run, post>>

DeleteRunsQuietly ==
  /\ deleting > 0
  /\ slot' = None
  /\ deleting' = deleting - 1
  /\ UNCHANGED <<rowVars, run, post>>

DeleteRuns ==
  /\ deleting > 0
  /\ run' = [r \in Sends |-> IF r = slot THEN [run[r] EXCEPT !.ctx = "done"] ELSE run[r]]
  /\ slot' = None
  /\ deleting' = deleting - 1
  /\ UNCHANGED <<rowVars, post>>

(* handleApprove: a user answers a prompt that was shown to them. *)
PostOwned(a) ==
  /\ post[a].pc = "idle" /\ Exists
  /\ \E r \in Sends, choice \in {"yes", "no"} : \E k \in 1..run[r].asked :
       post' = [post EXCEPT ![a] = [pc |-> "owned", saw |-> <<r, k>>, choice |-> choice, to |-> None]]
  /\ UNCHANGED <<rowVars, slot, deleting, run>>

PostLookup(a) ==
  /\ post[a].pc = "owned"
  /\ post' = [post EXCEPT ![a] = IF slot = None THEN Refused
                                 ELSE [@ EXCEPT !.pc = "holding", !.to = slot]]
  /\ UNCHANGED <<rowVars, slot, deleting, run>>

(* The send never blocks: a full channel means the prompt is answered. *)
PostSend(a) ==
  /\ post[a].pc = "holding"
  /\ LET r == post[a].to
     IN IF run[r].box = None
        THEN /\ run' = [run EXCEPT ![r].box = a]
             /\ post' = [post EXCEPT ![a].pc = "accepted"]
        ELSE /\ post' = [post EXCEPT ![a] = Refused]
             /\ UNCHANGED run
  /\ UNCHANGED <<rowVars, slot, deleting>>

-----------------------------------------------------------------------------
RunStep(r) ==
  \/ Admit(r) \/ SendRefused(r) \/ ChatOpened(r) \/ ChatFailed(r)
  \/ TurnStart(r) \/ Ask(r) \/ TakeAnswer(r) \/ GiveUp(r) \/ Finish(r)
  \/ SaveTurn(r) \/ SaveFailed(r) \/ Unwind(r)

RunsNext ==
  \/ \E r \in Sends : SendOwned(r) \/ RunStep(r) \/ Expire(r)
  \/ \E a \in Posts : PostOwned(a) \/ PostLookup(a) \/ PostSend(a)
  \/ EditNext /\ UNCHANGED chatVars
  \/ Create \/ Cancel \/ DeleteRow \/ DeleteRuns

RunsSpec == RunsInit /\ [][RunsNext]_sessionVars

(* Goroutines are scheduled and agent.timeout, which must be positive, runs
   out; nobody has to answer, cancel or delete. *)
FairSpec ==
  /\ RunsSpec
  /\ \A r \in Sends : WF_sessionVars(RunStep(r)) /\ WF_sessionVars(Expire(r))

-----------------------------------------------------------------------------
(* A session's registration never outlives its run, whichever error path,
   delete or unwinding it goes through: a registration nobody will remove
   would answer 409 to every later message. *)
SlotIsHeld == slot # None => Active(slot)

(* "No concurrent Chat in one session": while the id has not been taken
   again, two runs never hold the session's row at the same time, although a
   delete empties the maps under a run that is still unwinding. *)
OneRunAtATime ==
  lives = 1 => \A r, q \in Sends : Working(r) /\ Working(q) => r = q

(* When the delete of a session is over, whatever still runs in it has been
   cancelled: no message that raced the delete goes on unattended. *)
DeletedRunIsStopped ==
  lives = 1 /\ ~Exists /\ deleting = 0 =>
    \A r \in Sends : Working(r) => run[r].ctx = "done"

(* What the three need to be kept by every step: while the id has not been
   taken again one delete at most is under way, and only after the row is
   gone; until that delete has emptied the maps every active run is the one
   registered; a copy in anyone's hands is of a live row, and without renames
   it still has every turn of the row it will overwrite. *)
NobodyRenames == \A e \in Edits : edit[e].pc = "idle"

OneDelete == lives = 1 => deleting <= 1 /\ (Exists => deleting = 0)

ActiveIsRegistered ==
  lives = 1 /\ (Exists \/ deleting > 0) => \A r \in Sends : Active(r) => slot = r

CopiesAreLive ==
  /\ \A r \in Sends : Copied(r) => run[r].copy.state = "live"
  /\ \A e \in Edits : edit[e].pc = "read" => edit[e].copy.state = "live"

CopiesAreCurrent ==
  lives = 1 /\ Exists /\ NobodyRenames =>
    \A r \in Sends : Copied(r) => run[r].copy.talks = row.talks

Inductive ==
  /\ SlotIsHeld /\ OneRunAtATime /\ DeletedRunIsStopped
  /\ OneDelete /\ ActiveIsRegistered /\ CopiesAreLive /\ CopiesAreCurrent

(* A turn is written back over the row that was read when it began; as long
   as nobody renames, that never takes away the turn of another message. *)
TurnsAreKept ==
  [][Exists /\ Exists' /\ lives' = 1 /\ NobodyRenames
       => row.talks \subseteq row'.talks]_sessionVars

(* A deleted session comes back only when its id is created again: the late
   write of a run or of a rename does not restore it. *)
DeletedStaysDeleted == [][~Exists /\ lives' = lives => ~Exists']_sessionVars

(* Every message that is admitted ends and frees its session, even when the
   confirmation it waits for is never answered. *)
RunEnds == \A r \in Sends : run[r].pc = "admitted" ~> run[r].pc = "over"

(* A write is executed only on a yes given to its own prompt.
   The code does not keep this (README, section 4). *)
WriteWasApproved ==
  \A r \in Sends : \A k \in run[r].wrote :
    \E a \in Posts : post[a].pc = "taken" /\ post[a].choice = "yes" /\ post[a].saw = <<r, k>>

(* The name of a live session changes only when a rename is stored, and to
   the name that rename gives.
   The code does not keep this (README, section 4). *)
OnlyEditsRename ==
  [][Exists /\ Exists' /\ row'.name # row.name =>
       \E e \in Edits : /\ edit[e].pc = "read" /\ edit'[e].pc = "saved"
                        /\ row'.name = e]_sessionVars

(* Once a session is deleted and its runs are over, no turn or step row of it
   is left in the database.
   The code does not keep this (README, section 4). *)
DeleteLeavesNothing ==
  ~Exists /\ deleting = 0 /\ (\A r \in Sends : ~Active(r)) => trace = {}
=============================================================================
