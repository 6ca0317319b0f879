----------------------------- MODULE AgentTurn -----------------------------
(***************************************************************************)
(* The turns of one session's agent: what the model asks for, what the user *)
(* is asked, what is executed, and the memory of the user's answers that    *)
(* the session carries from turn to turn.  Turns of a session never overlap *)
(* (SessionRuns), and the approver is always there: the chat service passes *)
(* one to every agent it makes.                                             *)
(***************************************************************************)
EXTENDS Naturals, Sequences, FiniteSets

CONSTANTS
  Calls,         \* the tool calls the model may ask for
  Rounds,        \* the lists of calls one answer of the model may hold
  NoName,        \* the empty name of a call on every object of a kind
  RequireApproval, SkipPermissions,     \* the policy's two switches
  MaxIterations, MaxToolCalls, MaxTurns \* the last bounds the model only

(* A call, reduced to what decides about it.  key: its name and arguments
   normalized; op, name: what a grant is given for (kind, namespace and
   cluster are compared the same way as name); allowed: within the user's
   scope and not refused by the code guard. *)
Risk == 0..4
Eligible == {1, 2}
Ceiling == 2
Keys == {c.key : c \in Calls}
Names == {c.name : c \in Calls}
Grant == [op : {c.op : c \in Calls}, name : Names, ceiling : {Ceiling}]

ASSUME AgentAssumption ==
  /\ \A c \in Calls :
       /\ c.risk \in Risk
       /\ {c.shell, c.single, c.readOnly, c.allowed} \subseteq BOOLEAN
       /\ c.shell => ~c.readOnly
  /\ Rounds \subseteq Seq(Calls) \ {<<>>}
  /\ {RequireApproval, SkipPermissions} \subseteq BOOLEAN
  /\ {MaxIterations, MaxToolCalls} \subseteq Nat \ {0} /\ MaxTurns \in Nat

VARIABLES
  pc,     \* where the agent's goroutine is
  turn,   \* the locals of Agent.Chat
  round,  \* those of the iteration: the calls of one answer of the model
  mem,    \* the session object in memory
  saved,  \* its stored row
  row,    \* the stored status of the turn
  open,   \* the stored steps of the turn that are not closed
  told    \* what the user has answered, as the user knows it

vars == <<pc, turn, round, mem, saved, row, open, told>>

(* results: the messages hold results of native tool calls; refused: the
   prompts answered with no, by key, as far as the session remembers. *)
Memory == [approved : SUBSET Keys, grants : SUBSET Grant,
           declined : [Keys -> Nat], results : BOOLEAN, refused : [Keys -> Nat]]

Turn == [n : 0..MaxTurns, iter : Nat, total : 0..MaxToolCalls, failed : SUBSET Calls,
         native : BOOLEAN, full : BOOLEAN, live : BOOLEAN,
         status : {"running", "completed", "failed"}]

(* prompt, passed, barred: the places of the calls asked about, agreed to in a
   batch and refused in a batch. *)
Round == [calls : Rounds \cup {<<>>}, at : Nat \ {0},
          prompt : SUBSET Nat, passed : SUBSET Nat, barred : SUBSET Nat]

(* A stored step: what it is of, its iteration and its call's place. *)
Step == {"reason", "tool", "approval"} \X Nat \X Nat

(* always: the calls answered with do-not-ask-again since the last no to them;
   yes: the calls of this round the user agreed to; halted: a call of this
   round was refused or a write of it failed. *)
Told == [always : SUBSET Calls, yes : SUBSET Nat, halted : BOOLEAN]

NoTurn == [n |-> 0, iter |-> 0, total |-> 0, failed |-> {}, native |-> TRUE,
           full |-> FALSE, live |-> TRUE, status |-> "running"]
NoRound == [calls |-> <<>>, at |-> 1, prompt |-> {}, passed |-> {}, barred |-> {}]

TypeOK ==
  /\ pc \in {"idle", "thinking", "askingAll", "calling", "asking", "running", "over"}
  /\ turn \in Turn /\ round \in Round
  /\ {mem, saved} \subseteq Memory
  /\ row \in {"none", "running", "completed", "failed"}
  /\ open \subseteq Step
  /\ told \in Told

Init ==
  /\ pc = "idle" /\ turn = NoTurn /\ round = NoRound /\ row = "none" /\ open = {}
  /\ mem = [approved |-> {}, grants |-> {}, declined |-> [k \in Keys |-> 0],
            results |-> FALSE, refused |-> [k \in Keys |-> 0]]
  /\ saved = mem
  /\ told = [always |-> {}, yes |-> {}, halted |-> FALSE]

-----------------------------------------------------------------------------
(* Policy, grants and the decision about a call *)

Evaluate(c) == c.shell \/ (~c.readOnly /\ ~SkipPermissions /\ RequireApproval)

(* Mutant: a grant is not asked for its ceiling. *)
MatchesAnyRisk(g, c) == ~c.shell /\ c.single /\ g.op = c.op /\ g.name \in {NoName, c.name}

Matches(g, c) ==
  /\ ~c.shell /\ c.single
  /\ c.risk <= g.ceiling
  /\ g.op = c.op
  /\ g.name \in {NoName, c.name}

(* Mutant: a grant for whatever risk the user agreed to. *)
NewGrantsOfAnyRisk(S) ==
  {[op |-> c.op, name |-> c.name, ceiling |-> c.risk] : c \in {d \in S : ~d.shell /\ d.single}}

NewGrants(S) ==
  {[op |-> c.op, name |-> c.name, ceiling |-> Ceiling] :
     c \in {d \in S : ~d.shell /\ d.single /\ d.risk \in Eligible}}

NeedsApproval(c) == Evaluate(c) /\ ~\E g \in mem.grants : Matches(g, c)

Blocked(c) == mem.declined[c.key] >= 2

(* The session after an answer to a prompt that names the calls at places P of
   the round. *)
At(P) == {round.calls[i] : i \in P}

Remember(P) ==
  [mem EXCEPT !.approved = @ \cup {c.key : c \in At(P)}, !.grants = @ \cup NewGrants(At(P))]

Decline(P) ==
  LET places(k) == {i \in P : round.calls[i].key = k}
      keys == {c.key : c \in At(P)}
  IN  [approved |-> mem.approved \ keys,
       grants |-> {g \in mem.grants : ~\E c \in At(P) : Matches(g, c)},
       declined |-> [k \in Keys |-> mem.declined[k] + Cardinality(places(k))],
       results |-> mem.results,
       refused |-> [k \in Keys |-> mem.refused[k] + (IF k \in keys THEN 1 ELSE 0)]]

(* Whether consent to c given for good is consent to d: the same operation on
   the same object by its key, or, for a risk that can be granted, by what a
   reader of the prompt for c agreed to. *)
Covers(c, d) ==
  \/ c.key = d.key
  \/ /\ c.risk \in Eligible /\ d.risk <= Ceiling
     /\ ~c.shell /\ ~d.shell /\ c.single /\ d.single
     /\ c.op = d.op /\ c.name \in {NoName, d.name}

-----------------------------------------------------------------------------
(* The loop's next iteration, and the end of a call *)

(* The steps of these kinds that belong to call i of an iteration, and the
   stored steps after some are closed and some are begun: a write on a context
   that has ended is lost. *)
Steps(kinds, iter, i) == kinds \X {iter} \X {i}
Here(kinds) == Steps(kinds, turn.iter, round.at)
Stored(closed, opened) == IF turn.live THEN (open \ closed) \cup opened ELSE open

Over(t, status) == [NoTurn EXCEPT !.n = t.n, !.live = t.live, !.status = status]
Later(t) == [t EXCEPT !.iter = @ + 1]

Ends(t, status, closed) ==
  /\ pc' = "over" /\ turn' = Over(t, status)
  /\ round' = NoRound
  /\ row' = IF t.live THEN status ELSE row
  /\ open' = Stored(Here(closed), {})

Iterate(t, closed) ==
  IF t.iter + 1 = MaxIterations THEN Ends(t, "failed", closed)
  ELSE /\ pc' = "thinking"
       /\ turn' = Later(t) /\ round' = NoRound
       /\ open' = Stored(Here(closed), Steps({"reason"}, t.iter + 1, 1))
       /\ UNCHANGED row

Call == round.calls[round.at]
(* The turn with one more call behind it. *)
Spent(full, fuse) ==
  [turn EXCEPT !.total = @ + 1, !.full = full,
               !.failed = IF fuse THEN @ \cup {Call} ELSE @]

Closing == IF pc = "asking" THEN {"tool", "approval"} ELSE {"tool"}

(* Mutant: a refusal does not end the round. *)
EndCallOnly(ok, executed, fuse, m, always) ==
  LET t == Spent(turn.full, fuse)
  IN  /\ mem' = [m EXCEPT !.results = @ \/ turn.native]
      /\ told' = [told EXCEPT !.halted = @ \/ (~ok /\ ~executed), !.always = always]
      /\ IF round.at = Len(round.calls) THEN Iterate(t, Closing)
         ELSE /\ pc' = "calling" /\ turn' = t
              /\ round' = [round EXCEPT !.at = @ + 1, !.prompt = {}]
              /\ open' = Stored(Here(Closing), {})
              /\ UNCHANGED row
      /\ UNCHANGED saved

(* ok: the call's result; executed: it is a read that reached its tool; fuse:
   the same call is not to be tried again in this turn; m, always: what the
   session and the user now remember. *)
EndCall(ok, executed, fuse, m, always) ==
  \E full \in {turn.full, TRUE} :
    LET t == Spent(full, fuse)
        halt == ~ok /\ ~executed
    IN  /\ mem' = [m EXCEPT !.results = @ \/ turn.native]
        /\ told' = [told EXCEPT !.halted = @ \/ halt, !.always = always]
        /\ IF halt \/ full \/ round.at = Len(round.calls)
           THEN Iterate(t, Closing)
           ELSE /\ pc' = "calling" /\ turn' = t
                /\ round' = [round EXCEPT !.at = @ + 1, !.prompt = {}]
                /\ open' = Stored(Here(Closing), {})
                /\ UNCHANGED row
        /\ UNCHANGED saved

-----------------------------------------------------------------------------
(* A turn begins, and the model answers *)

StartTurn ==
  /\ pc = "idle" /\ turn.n < MaxTurns
  /\ pc' = "thinking"
  /\ turn' = [NoTurn EXCEPT !.n = turn.n + 1]
  /\ row' = "running" /\ open' = Steps({"reason"}, 0, 1)
  /\ UNCHANGED <<round, mem, saved, told>>

ModelFails ==
  /\ pc = "thinking"
  /\ Ends(turn, "failed", {"reason"})
  /\ UNCHANGED <<mem, saved, told>>

(* Mutant: the step of the failed question is left as it is. *)
DowngradeOnly ==
  /\ pc = "thinking" /\ turn.native
  /\ Iterate([turn EXCEPT !.native = FALSE], {})
  /\ UNCHANGED <<mem, saved, told>>

(* The gateway has no native tool calls; the next iteration asks for JSON. *)
Downgrade ==
  /\ pc = "thinking" /\ turn.native
  /\ Iterate([turn EXCEPT !.native = FALSE], {"reason"})
  /\ UNCHANGED <<mem, saved, told>>

ModelAnswers ==
  /\ pc = "thinking" /\ turn.live
  /\ Ends(turn, "completed", {"reason"})
  /\ UNCHANGED <<mem, saved, told>>

(* A native answer with neither text nor calls uses up an iteration. *)
ModelSaysNothing ==
  /\ pc = "thinking" /\ turn.live /\ turn.native
  /\ Iterate(turn, {"reason"})
  /\ UNCHANGED <<mem, saved, told>>

(* Mutant: a batch names blocked calls too. *)
BatchOfAll(calls, reach) ==
  {i \in reach : LET c == calls[i] IN c.allowed /\ NeedsApproval(c) /\ c.key \notin mem.approved}

BatchPending(calls, reach) ==
  {i \in reach : LET c == calls[i] IN
     c.allowed /\ NeedsApproval(c) /\ c.key \notin mem.approved /\ ~Blocked(c)}

(* reach: the calls the cluster's own access check lets through. *)
ModelCalls ==
  /\ pc = "thinking" /\ turn.live
  /\ \E calls \in Rounds : \E reach \in SUBSET DOMAIN calls :
       LET pending == BatchPending(calls, reach)
           batch == Cardinality(pending) >= 2
       IN  /\ turn.native \/ Len(calls) = 1
           /\ round' = [NoRound EXCEPT !.calls = calls,
                                       !.prompt = IF batch THEN pending ELSE {}]
           /\ pc' = IF batch THEN "askingAll" ELSE "calling"
  /\ open' = Stored(Here({"reason"}), {})
  /\ told' = [told EXCEPT !.yes = {}, !.halted = FALSE]
  /\ UNCHANGED <<turn, mem, saved, row>>

-----------------------------------------------------------------------------
(* The user's answer to a batch; a prompt ends with an answer or the context *)

AgreeToAll(always) ==
  /\ pc = "askingAll"
  /\ pc' = "calling"
  /\ round' = [round EXCEPT !.passed = round.prompt, !.prompt = {}]
  /\ mem' = IF always THEN Remember(round.prompt) ELSE mem
  /\ told' = [told EXCEPT !.yes = round.prompt,
                          !.always = IF always THEN @ \cup At(round.prompt) ELSE @]
  /\ UNCHANGED <<turn, saved, row, open>>

Forget(P) == {c \in told.always : ~\E d \in At(P) : Covers(c, d)}

RefuseAll ==
  /\ pc = "askingAll"
  /\ pc' = "calling"
  /\ round' = [round EXCEPT !.barred = round.prompt, !.prompt = {}]
  /\ mem' = Decline(round.prompt)
  /\ told' = [told EXCEPT !.always = Forget(round.prompt)]
  /\ UNCHANGED <<turn, saved, row, open>>

AskingAllFails ==
  /\ pc = "askingAll" /\ ~turn.live
  /\ pc' = "calling"
  /\ round' = [round EXCEPT !.prompt = {}]
  /\ UNCHANGED <<turn, mem, saved, row, open, told>>

-----------------------------------------------------------------------------
(* One call of the round *)

TooManyCalls ==
  /\ pc = "calling" /\ turn.total = MaxToolCalls
  /\ Ends(turn, "failed", {})
  /\ UNCHANGED <<mem, saved, told>>

Calling == pc = "calling" /\ turn.total < MaxToolCalls

Fused == Call \in turn.failed
Barred == round.at \in round.barred

SkipCall ==
  /\ Calling /\ (Fused \/ Barred)
  /\ EndCall(FALSE, FALSE, FALSE, mem, told.always)

(* Refused by the scope or the guard; or, for a write, by the cluster. *)
RefuseCall ==
  /\ Calling /\ ~Fused /\ ~Barred
  /\ \/ ~Call.allowed /\ EndCall(FALSE, Call.readOnly, Call.readOnly, mem, told.always)
     \/ ~Call.readOnly /\ EndCall(FALSE, FALSE, TRUE, mem, told.always)

Decided == Calling /\ ~Fused /\ ~Barred /\ Call.allowed

RefuseBlocked ==
  /\ Decided /\ NeedsApproval(Call) /\ Blocked(Call)
  /\ EndCall(FALSE, FALSE, FALSE, mem, told.always)

MustAsk ==
  /\ NeedsApproval(Call) /\ ~Blocked(Call)
  /\ round.at \notin round.passed /\ Call.key \notin mem.approved

AskUser ==
  /\ Decided /\ MustAsk
  /\ pc' = "asking"
  /\ round' = [round EXCEPT !.prompt = {round.at}]
  /\ open' = Stored({}, Here({"tool", "approval"}))
  /\ UNCHANGED <<turn, mem, saved, row, told>>

Proceed ==
  /\ Decided /\ ~MustAsk /\ ~(NeedsApproval(Call) /\ Blocked(Call))
  /\ pc' = "running"
  /\ open' = Stored({}, Here({"tool"}))
  /\ UNCHANGED <<turn, round, mem, saved, row, told>>

Agree(always) ==
  /\ pc = "asking"
  /\ always => Call.risk \in Eligible
  /\ pc' = "running"
  /\ round' = [round EXCEPT !.prompt = {}]
  /\ mem' = IF always THEN Remember(round.prompt) ELSE mem
  /\ told' = [told EXCEPT !.yes = @ \cup round.prompt,
                          !.always = IF always THEN @ \cup At(round.prompt) ELSE @]
  /\ open' = Stored(Here({"approval"}), {})
  /\ UNCHANGED <<turn, saved, row>>

Refuse ==
  /\ pc = "asking"
  /\ EndCall(FALSE, FALSE, FALSE, Decline(round.prompt), Forget(round.prompt))

(* Mutant: a prompt waits for its answer only. *)
AskingWaits == pc = "asking" /\ ~turn.live /\ UNCHANGED vars

AskingFails ==
  /\ pc = "asking" /\ ~turn.live
  /\ EndCall(FALSE, FALSE, FALSE, mem, told.always)

(* A read that fails is fused, and so is a write that the cluster denies. *)
Executed ==
  /\ pc = "running"
  /\ \/ EndCall(TRUE, Call.readOnly, FALSE, mem, told.always)
     \/ \E fuse \in {TRUE, Call.readOnly} :
          EndCall(FALSE, Call.readOnly, fuse, mem, told.always)

-----------------------------------------------------------------------------
(* The context ends: the time is up or the user cancels *)

Expire ==
  /\ pc \notin {"idle", "over"} /\ turn.live
  /\ turn' = [turn EXCEPT !.live = FALSE]
  /\ UNCHANGED <<pc, round, mem, saved, row, open, told>>

(* The session is written back at the end of the turn; a write that fails, or
   a process that stops, leaves the row as it was.  The next turn reads the row
   and has a turn row and steps of its own. *)
Leaves ==
  /\ pc' = "idle" /\ turn' = [NoTurn EXCEPT !.n = turn.n] /\ round' = NoRound
  /\ mem' = saved'
  /\ row' = "none" /\ open' = {}
  /\ told' = [told EXCEPT !.yes = {}, !.halted = FALSE]

SaveSession == pc = "over" /\ saved' \in {mem, saved} /\ Leaves
Crash == pc # "idle" /\ saved' = saved /\ Leaves

Answer ==
  \/ RefuseAll \/ Refuse
  \/ \E always \in BOOLEAN : AgreeToAll(always) \/ Agree(always)
Think == ModelFails \/ Downgrade \/ ModelAnswers \/ ModelSaysNothing \/ ModelCalls
HandleCall ==
  \/ TooManyCalls \/ SkipCall \/ RefuseCall \/ RefuseBlocked
  \/ AskUser \/ Proceed \/ Executed
GiveUp == AskingAllFails \/ AskingFails
AgentStep == Think \/ HandleCall \/ GiveUp \/ SaveSession

Next == StartTurn \/ AgentStep \/ Answer \/ Expire \/ Crash

(* The goroutine is scheduled, the model's client and the tools return, and the
   context ends by its timeout; no user has to answer. *)
Spec == Init /\ [][Next]_vars
FairSpec == Spec /\ WF_vars(AgentStep) /\ WF_vars(Expire)

-----------------------------------------------------------------------------
(* Properties *)

(* A call that changes something runs only if the user said yes to it in this
   round, or said do-not-ask-again to a call that covers it and has not refused
   such a call since: whatever the batches, the three memories, lost saves and
   restarts do in between. *)
WritesAreConsented ==
  pc = "running" /\ Evaluate(Call) =>
    \/ round.at \in told.yes
    \/ \E c \in told.always : Covers(c, Call)

(* An operation refused in two prompts is in no third one, single or batch. *)
NeverAskedThrice ==
  pc \in {"asking", "askingAll"} => \A c \in At(round.prompt) : mem.refused[c.key] < 2

(* Once a call of a round was refused or a write of it failed, nothing else of
   the round runs or is asked for, a batch the user agreed to included. *)
RefusalEndsTheRound == pc \in {"asking", "running"} => ~told.halted

(* A turn that ends before its context leaves its row in the status it ended
   with and none of its steps open. *)
EndedTurnIsRecorded ==
  pc = "over" /\ turn.live => row = turn.status /\ row # "running" /\ open = {}

(* Every turn ends, however the model and the user behave. *)
TurnEnds == (pc # "idle") ~> (pc = "idle")

(* An operation is blocked after two refusals: code and messages say that the
   user has said no twice.
   The code does not keep this (README, section 4). *)
BlockedAfterTwoNoes == \A k \in Keys : mem.declined[k] >= 2 => mem.refused[k] >= 2

(* The results of tool calls the model is sent follow the calls they belong to:
   those of earlier turns are in the session, and the calls are not.
   The code does not keep this (README, section 4). *)
ResultsFollowCalls == pc = "thinking" /\ turn.iter = 0 => ~mem.results

=============================================================================
