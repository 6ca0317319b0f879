------------------------- MODULE AgentTurn_proofs --------------------------
(***************************************************************************)
(* The safety of an agent's turns for every set of calls and every policy:  *)
(* what runs was consented to, and what was refused twice is not asked.     *)
(***************************************************************************)
EXTENDS AgentTurn, FiniteSetTheorems, TLAPS

Grantable(c) == ~c.shell /\ c.single /\ c.risk \in Eligible
GrantOf(c) == [op |-> c.op, name |-> c.name, ceiling |-> Ceiling]

(* What a session remembers comes from an answer that still stands, and of one
   answer it remembers the key and the grant, if there can be one. *)
Rooted(m, always) ==
  /\ \A k \in m.approved : \E c \in always :
       c.key = k /\ (Grantable(c) => GrantOf(c) \in m.grants)
  /\ \A g \in m.grants : \E c \in always :
       Grantable(c) /\ GrantOf(c) = g /\ c.key \in m.approved

Counted(m) == \A k \in Keys : m.refused[k] <= m.declined[k]

(* Nothing remembered speaks for a call the user is being asked about. *)
Unanswered(c) == c.key \notin mem.approved /\ NeedsApproval(c) /\ ~Blocked(c)

Within ==
  /\ pc \in {"askingAll", "calling", "asking", "running"} =>
       round.calls \in Rounds /\ round.at \in DOMAIN round.calls
  /\ pc \in {"asking", "running"} => turn.total < MaxToolCalls
  /\ pc = "asking" => round.prompt = {round.at}
  /\ IF pc \in {"askingAll", "asking"} THEN round.prompt \subseteq DOMAIN round.calls
     ELSE round.prompt = {}
  /\ pc \in {"askingAll", "asking"} => \A c \in At(round.prompt) : Unanswered(c)

Agreed ==
  /\ pc \in {"askingAll", "calling", "asking", "running"} => round.passed \subseteq told.yes
  /\ pc = "running" /\ Evaluate(Call) =>
       \/ round.at \in told.yes
       \/ Call.key \in mem.approved
       \/ \E g \in mem.grants : Matches(g, Call)

(* While its context lives, a turn's open steps are those of where it is. *)
Traced ==
  /\ pc \in {"idle", "thinking"} => round = NoRound
  /\ turn.live =>
       /\ pc = "thinking" => open = Here({"reason"})
       /\ pc \in {"askingAll", "calling"} => open = {}
       /\ pc = "asking" => open = Here({"tool", "approval"})
       /\ pc = "running" => open = Here({"tool"})

(* The stored row remembers no more than the session read from it. *)
Grown == saved.approved \subseteq mem.approved /\ saved.grants \subseteq mem.grants

IInv ==
  /\ TypeOK
  /\ Within
  /\ Agreed
  /\ Traced
  /\ Grown
  /\ Rooted(mem, told.always) /\ Rooted(saved, told.always)
  /\ Counted(mem) /\ Counted(saved)
  /\ pc \in {"askingAll", "calling", "asking", "running"} => ~told.halted
  /\ EndedTurnIsRecorded

-----------------------------------------------------------------------------
(* The helpers on the session's memory *)

Busy == pc \in {"askingAll", "calling", "asking", "running"}

LEMMA RoundType ==
  ASSUME TypeOK, Within, Busy
  PROVE  /\ round.calls \in Seq(Calls) /\ Call \in Calls
         /\ DOMAIN round.calls = 1..Len(round.calls) /\ Len(round.calls) \in Nat
         /\ At(round.prompt) \subseteq Calls /\ At({round.at}) = {Call}
  BY AgentAssumption DEF Within, Busy, Call, At

LEMMA RememberKeeps ==
  ASSUME NEW P, At(P) \subseteq Calls, mem \in Memory, Rooted(mem, told.always),
         Counted(mem), Grown
  PROVE  /\ Remember(P) \in Memory /\ Counted(Remember(P))
         /\ Rooted(Remember(P), told.always \cup At(P))
         /\ mem.approved \subseteq Remember(P).approved
         /\ mem.grants \subseteq Remember(P).grants
         /\ \A c \in At(P) : c.key \in Remember(P).approved
<1> DEFINE m == Remember(P)
<1>1. NewGrants(At(P)) = {GrantOf(c) : c \in {d \in At(P) : Grantable(d)}}
  BY DEF NewGrants, GrantOf, Grantable
<1>2. /\ m.approved = mem.approved \cup {c.key : c \in At(P)}
      /\ m.grants = mem.grants \cup NewGrants(At(P))
      /\ m.declined = mem.declined /\ m.refused = mem.refused /\ m.results = mem.results
  BY DEF Remember, Memory
<1>3. NewGrants(At(P)) \subseteq Grant
  BY <1>1 DEF Grant, GrantOf, Names
<1>4. m \in Memory
  BY <1>2, <1>3 DEF Remember, Memory, Keys
<1>5. Counted(m)
  BY <1>2 DEF Counted
<1>6. \A k \in m.approved : \E c \in told.always \cup At(P) :
        c.key = k /\ (Grantable(c) => GrantOf(c) \in m.grants)
  <2> SUFFICES ASSUME NEW k \in m.approved
               PROVE  \E c \in told.always \cup At(P) :
                        c.key = k /\ (Grantable(c) => GrantOf(c) \in m.grants)
    OBVIOUS
  <2>1. CASE k \in mem.approved
    BY <2>1, <1>2 DEF Rooted
  <2>2. CASE k \in {c.key : c \in At(P)}
    BY <2>2, <1>1, <1>2
  <2> QED BY <2>1, <2>2, <1>2
<1>7. \A g \in m.grants : \E c \in told.always \cup At(P) :
        Grantable(c) /\ GrantOf(c) = g /\ c.key \in m.approved
  BY <1>1, <1>2 DEF Rooted
<1> QED BY <1>2, <1>4, <1>5, <1>6, <1>7 DEF Rooted

(* A refusal takes nothing from what the session remembers, as nothing in it
   spoke for the calls it refuses; so it leaves every answer that does stand. *)
LEMMA ForgetKeeps ==
  ASSUME NEW P, At(P) \subseteq Calls, mem \in Memory, saved \in Memory,
         \A c \in At(P) : Unanswered(c), told.always \subseteq Calls,
         NEW m \in Memory, m.approved \subseteq mem.approved, m.grants \subseteq mem.grants,
         Rooted(m, told.always)
  PROVE  Rooted(m, Forget(P))
<1>1. ASSUME NEW c \in told.always, c.key \in mem.approved,
             Grantable(c) => GrantOf(c) \in mem.grants
      PROVE  c \in Forget(P)
  <2> SUFFICES ASSUME NEW d \in At(P), Covers(c, d) PROVE FALSE
    BY DEF Forget
  <2>1. c.key # d.key
    BY <1>1 DEF Unanswered
  <2>2. Grantable(c) /\ Matches(GrantOf(c), d)
    <3>1. /\ GrantOf(c).op = c.op /\ GrantOf(c).name = c.name
          /\ GrantOf(c).ceiling = Ceiling
      BY DEF GrantOf
    <3> QED BY <2>1, <3>1, Zenon DEF Covers, Grantable, Matches
  <2>3. ~\E g \in mem.grants : Matches(g, d)
    BY DEF Unanswered, NeedsApproval
  <2> QED BY <1>1, <2>2, <2>3
<1>2. \A k \in m.approved : \E c \in Forget(P) :
        c.key = k /\ (Grantable(c) => GrantOf(c) \in m.grants)
  BY <1>1 DEF Rooted
<1>3. \A g \in m.grants : \E c \in Forget(P) :
        Grantable(c) /\ GrantOf(c) = g /\ c.key \in m.approved
  BY <1>1 DEF Rooted
<1> QED BY <1>2, <1>3 DEF Rooted

LEMMA DeclineKeeps ==
  ASSUME NEW P \in SUBSET DOMAIN round.calls, round.calls \in Seq(Calls), mem \in Memory,
         \A c \in At(P) : Unanswered(c), Counted(mem)
  PROVE  /\ Decline(P) \in Memory /\ Counted(Decline(P))
         /\ Decline(P).approved = mem.approved /\ Decline(P).grants = mem.grants
<1> DEFINE m == Decline(P)
           places(k) == {i \in P : round.calls[i].key = k}
           keys == {c.key : c \in At(P)}
<1>1. /\ m.approved = mem.approved \ keys
      /\ m.grants = {g \in mem.grants : ~\E c \in At(P) : Matches(g, c)}
      /\ m.declined = [k \in Keys |-> mem.declined[k] + Cardinality(places(k))]
      /\ m.refused = [k \in Keys |-> mem.refused[k] + (IF k \in keys THEN 1 ELSE 0)]
      /\ m.results = mem.results
      /\ m = [approved |-> m.approved, grants |-> m.grants, declined |-> m.declined,
              results |-> m.results, refused |-> m.refused]
  BY DEF Decline
<1>2. m.approved = mem.approved
  BY <1>1 DEF Unanswered
<1>3. m.grants = mem.grants
  BY <1>1 DEF Unanswered, NeedsApproval
<1>4. ASSUME NEW k \in Keys
      PROVE  /\ Cardinality(places(k)) \in Nat
             /\ k \in keys => Cardinality(places(k)) # 0
  <2>1. IsFiniteSet(DOMAIN round.calls)
    BY FS_Interval
  <2>2. IsFiniteSet(places(k))
    BY <2>1, FS_Subset
  <2>3. k \in keys => places(k) # {}
    BY DEF At
  <2> QED BY <2>2, <2>3, FS_CardinalityType, FS_EmptySet
<1>5. m.declined \in [Keys -> Nat] /\ m.refused \in [Keys -> Nat]
  BY <1>1, <1>4 DEF Memory
<1>6. m \in Memory
  BY <1>1, <1>2, <1>3, <1>5 DEF Memory
<1>7. Counted(m)
  BY <1>1, <1>4 DEF Counted, Memory
<1> QED BY <1>2, <1>3, <1>6, <1>7

-----------------------------------------------------------------------------
(* The updates of a turn's locals, each by itself *)

LEMMA TurnMoves ==
  ASSUME NEW t \in Turn, NEW i \in Nat
  PROVE  /\ [t EXCEPT !.iter = i] \in Turn /\ [t EXCEPT !.iter = i].live = t.live /\ [t EXCEPT !.iter = i].iter = i
         /\ [t EXCEPT !.live = FALSE] \in Turn /\ [t EXCEPT !.live = FALSE].live = FALSE
         /\ [t EXCEPT !.live = FALSE].total = t.total
         /\ [t EXCEPT !.live = FALSE].iter = t.iter /\ [t EXCEPT !.live = FALSE].status = t.status
         /\ [t EXCEPT !.native = FALSE] \in Turn /\ [t EXCEPT !.native = FALSE].live = t.live
         /\ [t EXCEPT !.native = FALSE].iter = t.iter
<1>1. [t EXCEPT !.iter = i] \in Turn /\ [t EXCEPT !.iter = i].live = t.live /\ [t EXCEPT !.iter = i].iter = i
  BY DEF Turn
<1>2. [t EXCEPT !.live = FALSE] \in Turn /\ [t EXCEPT !.live = FALSE].live = FALSE
  BY DEF Turn
<1>3. /\ [t EXCEPT !.live = FALSE].iter = t.iter /\ [t EXCEPT !.live = FALSE].status = t.status
      /\ [t EXCEPT !.live = FALSE].total = t.total
  BY DEF Turn
<1>4. [t EXCEPT !.native = FALSE] \in Turn /\ [t EXCEPT !.native = FALSE].live = t.live
         /\ [t EXCEPT !.native = FALSE].iter = t.iter
  BY DEF Turn
<1> QED BY <1>1, <1>2, <1>3, <1>4

LEMMA TurnLater ==
  ASSUME NEW t \in Turn
  PROVE  Later(t) \in Turn /\ Later(t).iter = t.iter + 1 /\ Later(t).live = t.live
<1>1. t.iter + 1 \in Nat
  BY DEF Turn
<1>2. [t EXCEPT !.iter = t.iter + 1] \in Turn
  BY <1>1 DEF Turn
<1>3. [t EXCEPT !.iter = t.iter + 1].iter = t.iter + 1
  BY DEF Turn
<1>4. [t EXCEPT !.iter = t.iter + 1].live = t.live
  BY DEF Turn
<1> QED BY <1>2, <1>3, <1>4, Zenon DEF Later

LEMMA TurnSpends ==
  ASSUME turn \in Turn, turn.total < MaxToolCalls, Call \in Calls,
         NEW full \in BOOLEAN, NEW fuse \in BOOLEAN
  PROVE  Spent(full, fuse) \in Turn /\ Spent(full, fuse).live = turn.live
<1> DEFINE failed == IF fuse THEN turn.failed \cup {Call} ELSE turn.failed
           t == [turn EXCEPT !.total = turn.total + 1, !.full = full, !.failed = failed]
<1>1. turn.total + 1 \in 0..MaxToolCalls
  BY AgentAssumption DEF Turn
<1>2. failed \in SUBSET Calls
  BY DEF Turn
<1>3. Spent(full, fuse) = t
  BY Zenon DEF Spent
<1> HIDE DEF failed
<1>4. t \in Turn
  BY <1>1, <1>2 DEF Turn
<1>5. t.live = turn.live
  BY DEF Turn
<1> HIDE DEF t
<1> QED BY <1>3, <1>4, <1>5, Zenon

LEMMA TurnOver ==
  ASSUME NEW t \in Turn, NEW status \in {"running", "completed", "failed"}
  PROVE  /\ Over(t, status) \in Turn
         /\ Over(t, status).live = t.live /\ Over(t, status).status = status
<1>0. NoTurn \in Turn
  BY AgentAssumption DEF NoTurn, Turn
<1> DEFINE u == [NoTurn EXCEPT !.n = t.n, !.live = t.live, !.status = status]
<1>1. u \in Turn
  BY <1>0 DEF Turn
<1>2. u.live = t.live
  BY <1>0 DEF Turn
<1>3. u.status = status
  BY <1>0 DEF Turn
<1>4. Over(t, status) = u
  BY Zenon DEF Over
<1> HIDE DEF u
<1> QED BY <1>1, <1>2, <1>3, <1>4, Zenon

LEMMA TurnNew ==
  ASSUME NEW n \in 0..MaxTurns
  PROVE  /\ [NoTurn EXCEPT !.n = n] \in Turn /\ [NoTurn EXCEPT !.n = n].iter = 0
<1>0. NoTurn \in Turn
  BY AgentAssumption DEF NoTurn, Turn
<1>1. [NoTurn EXCEPT !.n = n] \in Turn
  BY <1>0 DEF Turn
<1>2. [NoTurn EXCEPT !.n = n].iter = 0
  BY <1>0 DEF NoTurn, Turn
<1> QED BY <1>1, <1>2

-----------------------------------------------------------------------------
(* The ways out of a call *)

LEMMA StepTypes ==
  ASSUME NEW kinds \in SUBSET {"reason", "tool", "approval"}, NEW iter \in Nat, NEW i \in Nat
  PROVE  Steps(kinds, iter, i) \subseteq Step
<1>1. \A a \in kinds : a \in {"reason", "tool", "approval"}
  OBVIOUS
<1> QED BY <1>1 DEF Steps, Step

LEMMA HereTypes ==
  ASSUME TypeOK, NEW kinds \in SUBSET {"reason", "tool", "approval"}
  PROVE  Here(kinds) \subseteq Step
<1>1. turn.iter \in Nat /\ round.at \in Nat
  BY DEF TypeOK, Turn, Round
<1> QED BY <1>1, StepTypes DEF Here

LEMMA EndsKeeps ==
  ASSUME TypeOK, NEW t \in Turn, t.live = turn.live,
         NEW closed \in SUBSET {"reason", "tool", "approval"},
         turn.live => open \subseteq Here(closed),
         NEW status \in {"completed", "failed"}, Ends(t, status, closed)
  PROVE  /\ pc' = "over" /\ turn' \in Turn /\ round' = NoRound
         /\ row' \in {"none", "running", "completed", "failed"}
         /\ open' \subseteq Step
         /\ EndedTurnIsRecorded'
<1>1. /\ pc' = "over" /\ round' = NoRound
      /\ turn' = Over(t, status)
      /\ row' = IF t.live THEN status ELSE row
      /\ open' = Stored(Here(closed), {})
  BY DEF Ends
<1>2. status \in {"running", "completed", "failed"}
  OBVIOUS
<1>3. turn' \in Turn /\ turn'.live = t.live /\ turn'.status = status
  BY <1>1, <1>2, TurnOver
<1>4. open \subseteq Step /\ row \in {"none", "running", "completed", "failed"}
  BY DEF TypeOK
<1>5. open' \subseteq Step /\ (turn.live => open' = {})
  BY <1>1, <1>4 DEF Stored
<1> QED BY <1>1, <1>3, <1>4, <1>5 DEF EndedTurnIsRecorded

LEMMA IterateKeeps ==
  ASSUME TypeOK, NEW t \in Turn, t.live = turn.live,
         NEW closed \in SUBSET {"reason", "tool", "approval"},
         turn.live => open \subseteq Here(closed), Iterate(t, closed)
  PROVE  /\ pc' \in {"thinking", "over"} /\ turn' \in Turn /\ round' = NoRound
         /\ row' \in {"none", "running", "completed", "failed"}
         /\ open' \subseteq Step
         /\ EndedTurnIsRecorded' /\ Traced'
<1>1. CASE t.iter + 1 = MaxIterations
  <2>1. Ends(t, "failed", closed)
    BY <1>1 DEF Iterate
  <2> QED BY <2>1, EndsKeeps DEF Traced
<1>2. CASE t.iter + 1 # MaxIterations
  <2>1. /\ pc' = "thinking" /\ row' = row /\ round' = NoRound
        /\ turn' = Later(t)
        /\ open' = Stored(Here(closed), Steps({"reason"}, t.iter + 1, 1))
    BY <1>2 DEF Iterate
  <2>2. turn' \in Turn /\ turn'.iter = t.iter + 1 /\ turn'.live = turn.live
    BY <2>1, TurnLater
  <2>3. Steps({"reason"}, t.iter + 1, 1) \subseteq Step
    <3>1. t.iter + 1 \in Nat /\ 1 \in Nat /\ {"reason"} \in SUBSET {"reason", "tool", "approval"}
      BY DEF Turn
    <3> QED BY <3>1, StepTypes
  <2>4. open' \subseteq Step
    BY <2>1, <2>3 DEF TypeOK, Stored
  <2>5. Here({"reason"})' = Steps({"reason"}, t.iter + 1, 1)
    BY <2>1, <2>2 DEF Here, NoRound
  <2>6. turn'.live => open' = Here({"reason"})'
    BY <2>1, <2>2, <2>5 DEF Stored
  <2> QED BY <2>1, <2>2, <2>4, <2>6 DEF TypeOK, EndedTurnIsRecorded, Traced
<1> QED BY <1>1, <1>2

LEMMA Consents ==
  ASSUME IInv, pc = "running", Evaluate(Call)
  PROVE  round.at \in told.yes \/ \E c \in told.always : Covers(c, Call)
<1>1. CASE Call.key \in mem.approved
  BY <1>1 DEF IInv, Rooted, Covers
<1>2. ASSUME NEW g \in mem.grants, Matches(g, Call)
      PROVE  \E c \in told.always : Covers(c, Call)
  <2>1. PICK c \in told.always : Grantable(c) /\ GrantOf(c) = g
    BY DEF IInv, Rooted
  <2>2. g.op = c.op /\ g.name = c.name /\ g.ceiling = Ceiling
    BY <2>1 DEF GrantOf
  <2>3. Covers(c, Call)
    BY <1>2, <2>1, <2>2, Zenon DEF Covers, Grantable, Matches
  <2> QED BY <2>3
<1> QED BY <1>1, <1>2 DEF IInv, Agreed

LEMMA EndCallKeeps ==
  ASSUME IInv, pc \in {"calling", "asking", "running"}, turn.total < MaxToolCalls,
         NEW ok \in BOOLEAN, NEW executed \in BOOLEAN, NEW fuse \in BOOLEAN,
         NEW m \in Memory, NEW always \in SUBSET Calls,
         Counted(m), Rooted(m, always), Rooted(saved, always),
         saved.approved \subseteq m.approved, saved.grants \subseteq m.grants,
         EndCall(ok, executed, fuse, m, always)
  PROVE  IInv'
<1> USE DEF IInv
<1>1. PICK full \in {turn.full, TRUE} :
        LET t == Spent(full, fuse)
            halt == ~ok /\ ~executed
        IN  /\ mem' = [m EXCEPT !.results = @ \/ turn.native]
            /\ told' = [told EXCEPT !.halted = @ \/ halt, !.always = always]
            /\ IF halt \/ full \/ round.at = Len(round.calls)
               THEN Iterate(t, Closing)
               ELSE /\ pc' = "calling" /\ turn' = t
                    /\ round' = [round EXCEPT !.at = @ + 1, !.prompt = {}]
                    /\ open' = Stored(Here(Closing), {})
                    /\ UNCHANGED row
            /\ UNCHANGED saved
  BY DEF EndCall
<1> DEFINE t == Spent(full, fuse)
           halt == ~ok /\ ~executed
<1>2. /\ turn \in Turn /\ round \in Round /\ round.calls \in Seq(Calls) /\ Call \in Calls
      /\ round.calls \in Rounds /\ round.at \in 1..Len(round.calls)
      /\ DOMAIN round.calls = 1..Len(round.calls) /\ Len(round.calls) \in Nat
  BY RoundType DEF Busy, TypeOK, Within
<1>3. t \in Turn /\ t.live = turn.live
  <2>1. full \in BOOLEAN
    BY <1>2 DEF Turn
  <2> QED BY <1>2, <2>1, TurnSpends
<1>4. /\ mem' \in Memory /\ mem'.approved = m.approved /\ mem'.grants = m.grants
      /\ mem'.declined = m.declined /\ mem'.refused = m.refused
  BY <1>1, <1>2 DEF Memory, Turn
<1>5. /\ told' \in Told /\ told'.always = always /\ told'.yes = told.yes
      /\ told'.halted = (told.halted \/ halt)
  BY <1>1 DEF Told, TypeOK
<1>6. saved' = saved
  BY <1>1
<1>7. Grown' /\ Counted(mem)' /\ Counted(saved)' /\ Rooted(mem, told.always)'
      /\ Rooted(saved, told.always)'
  BY <1>4, <1>5, <1>6 DEF Grown, Counted, Rooted
<1>8. /\ Closing \in SUBSET {"reason", "tool", "approval"}
      /\ turn.live => Stored(Here(Closing), {}) = {}
  BY DEF Closing, Traced, Stored
<1>9. CASE halt \/ full \/ round.at = Len(round.calls)
  <2>1. Iterate(t, Closing)
    BY <1>1, <1>9
  <2>2. turn.live => open \subseteq Here(Closing)
    BY DEF Traced, Closing, Within
  <2>3. /\ pc' \in {"thinking", "over"} /\ turn' \in Turn /\ round' = NoRound
        /\ row' \in {"none", "running", "completed", "failed"} /\ open' \subseteq Step
        /\ EndedTurnIsRecorded' /\ Traced'
    BY <1>3, <1>8, <2>1, <2>2, IterateKeeps
  <2>4. TypeOK'
    BY <1>2, <1>4, <1>5, <1>6, <2>3 DEF TypeOK, NoRound, Round
  <2>5. Within' /\ Agreed'
    BY <2>3 DEF Within, Agreed, NoRound
  <2> QED BY <1>7, <2>3, <2>4, <2>5
<1>10. CASE ~(halt \/ full \/ round.at = Len(round.calls))
  <2>1. /\ pc' = "calling" /\ turn' = t /\ row' = row
        /\ round' = [round EXCEPT !.at = @ + 1, !.prompt = {}]
        /\ open' = Stored(Here(Closing), {})
    BY <1>1, <1>10
  <2>2. /\ round' \in Round /\ round'.calls = round.calls /\ round'.at = round.at + 1
        /\ round'.prompt = {} /\ round'.passed = round.passed
    <3> DEFINE r == [round EXCEPT !.at = round.at + 1, !.prompt = {}]
    <3>1. round.at + 1 \in Nat \ {0}
      BY <1>2 DEF Round
    <3>2. r \in Round
      BY <1>2, <3>1 DEF Round
    <3>3. r.calls = round.calls /\ r.at = round.at + 1
      BY <1>2 DEF Round
    <3>4. r.prompt = {} /\ r.passed = round.passed
      BY <1>2 DEF Round
    <3>5. round' = r
      BY <2>1
    <3> HIDE DEF r
    <3> QED BY <3>2, <3>3, <3>4, <3>5
  <2>3. TypeOK'
    BY <1>2, <1>3, <1>4, <1>5, <1>6, <2>1, <2>2 DEF TypeOK, Stored
  <2>4. Within' /\ Agreed'
    BY <1>2, <1>5, <1>10, <2>1, <2>2 DEF Within, Agreed
  <2>5. Traced' /\ EndedTurnIsRecorded' /\ ~told'.halted
    BY <1>3, <1>5, <1>8, <1>10, <2>1 DEF Traced, EndedTurnIsRecorded
  <2> QED BY <1>7, <2>1, <2>3, <2>4, <2>5
<1> QED BY <1>9, <1>10

(* The end of a round, without a change of what is remembered. *)
LEMMA RoundEnds ==
  ASSUME IInv, pc' \in {"thinking", "over"}, turn' \in Turn, round' = NoRound,
         row' \in {"none", "running", "completed", "failed"}, open' \subseteq Step,
         EndedTurnIsRecorded', Traced', UNCHANGED <<mem, saved, told>>
  PROVE  IInv'
<1> USE DEF IInv
<1>1. TypeOK'
  BY DEF TypeOK, NoRound, Round
<1>2. Within' /\ Agreed'
  BY DEF Within, Agreed, NoRound
<1>3. Grown' /\ Counted(mem)' /\ Counted(saved)'
  BY DEF Grown, Counted
<1>4. Rooted(mem, told.always)' /\ Rooted(saved, told.always)'
  BY DEF Rooted
<1> QED BY <1>1, <1>2, <1>3, <1>4

-----------------------------------------------------------------------------
(* The invariant is kept by every action *)

LEMMA InitKeeps ==
  ASSUME Init
  PROVE  IInv
<1>1. NoTurn \in Turn /\ NoRound \in Round
  BY AgentAssumption DEF NoTurn, Turn, NoRound, Round
<1>2. mem \in Memory /\ mem.approved = {} /\ mem.grants = {} /\ saved = mem
  BY DEF Init, Memory
<1>3. Counted(mem) /\ Counted(saved)
  BY DEF Init, Counted
<1>4. Rooted(mem, told.always) /\ Rooted(saved, told.always)
  BY <1>2 DEF Rooted
<1>5. TypeOK
  BY <1>1, <1>2 DEF Init, TypeOK, Told
<1>6. Within /\ Agreed /\ Traced /\ Grown /\ EndedTurnIsRecorded
  BY <1>2 DEF Init, Within, Agreed, Traced, Grown, EndedTurnIsRecorded, NoRound
<1> QED BY <1>3, <1>4, <1>5, <1>6 DEF IInv, Init

LEMMA StartKeeps ==
  ASSUME IInv, StartTurn
  PROVE  IInv'
<1>1. /\ pc' = "thinking" /\ round = NoRound /\ round' = NoRound /\ row' = "running"
      /\ open' = Steps({"reason"}, 0, 1)
      /\ UNCHANGED <<mem, saved, told>>
  BY DEF StartTurn, IInv, Traced
<1>2. turn' \in Turn /\ turn'.iter = 0
  <2>1. turn.n + 1 \in 0..MaxTurns /\ turn' = [NoTurn EXCEPT !.n = turn.n + 1]
    BY AgentAssumption DEF StartTurn, IInv, TypeOK, Turn
  <2> QED BY <2>1, TurnNew
<1>3. open' \subseteq Step
  BY <1>1, StepTypes
<1>4. Here({"reason"})' = Steps({"reason"}, 0, 1)
  BY <1>1, <1>2 DEF Here, NoRound
<1>5. Traced' /\ EndedTurnIsRecorded'
  BY <1>1, <1>4 DEF Traced, EndedTurnIsRecorded
<1> QED BY <1>1, <1>2, <1>3, <1>5, RoundEnds

LEMMA ThinkEnds ==
  ASSUME IInv, pc = "thinking", NEW status \in {"completed", "failed"},
         Ends(turn, status, {"reason"}), UNCHANGED <<mem, saved, told>>
  PROVE  IInv'
<1>1. turn \in Turn /\ (turn.live => open \subseteq Here({"reason"}))
  BY DEF IInv, TypeOK, Traced
<1>2. /\ pc' = "over" /\ turn' \in Turn /\ round' = NoRound
      /\ row' \in {"none", "running", "completed", "failed"} /\ open' \subseteq Step
      /\ EndedTurnIsRecorded'
  BY <1>1, EndsKeeps DEF IInv
<1>3. Traced'
  BY <1>2 DEF Traced
<1> QED BY <1>2, <1>3, RoundEnds

LEMMA ThinkAgain ==
  ASSUME IInv, pc = "thinking", NEW t \in Turn, t.live = turn.live,
         Iterate(t, {"reason"}), UNCHANGED <<mem, saved, told>>
  PROVE  IInv'
<1>1. turn.live => open \subseteq Here({"reason"})
  BY DEF IInv, Traced
<1>2. /\ pc' \in {"thinking", "over"} /\ turn' \in Turn /\ round' = NoRound
      /\ row' \in {"none", "running", "completed", "failed"} /\ open' \subseteq Step
      /\ EndedTurnIsRecorded' /\ Traced'
  BY <1>1, IterateKeeps DEF IInv
<1> QED BY <1>2, RoundEnds

LEMMA ThinkKeeps ==
  ASSUME IInv, ModelFails \/ Downgrade \/ ModelAnswers \/ ModelSaysNothing
  PROVE  IInv'
<1>1. turn \in Turn
  BY DEF IInv, TypeOK
<1>2. CASE ModelFails
  BY <1>2, ThinkEnds DEF ModelFails
<1>3. CASE ModelAnswers
  BY <1>3, ThinkEnds DEF ModelAnswers
<1>4. CASE ModelSaysNothing
  BY <1>1, <1>4, ThinkAgain DEF ModelSaysNothing
<1>5. CASE Downgrade
  <2>1. [turn EXCEPT !.native = FALSE] \in Turn /\ [turn EXCEPT !.native = FALSE].live = turn.live
    BY <1>1, TurnMoves
  <2> QED BY <1>5, <2>1, ThinkAgain DEF Downgrade
<1> QED BY <1>2, <1>3, <1>4, <1>5

LEMMA CallsKeeps ==
  ASSUME IInv, ModelCalls
  PROVE  IInv'
<1> USE DEF IInv
<1>0. PICK calls \in Rounds : \E reach \in SUBSET DOMAIN calls :
        LET pending == BatchPending(calls, reach)
            batch == Cardinality(pending) >= 2
        IN  /\ round' = [NoRound EXCEPT !.calls = calls,
                                        !.prompt = IF batch THEN pending ELSE {}]
            /\ pc' = IF batch THEN "askingAll" ELSE "calling"
  BY DEF ModelCalls
<1>1. PICK reach \in SUBSET DOMAIN calls :
        LET pending == BatchPending(calls, reach)
            batch == Cardinality(pending) >= 2
        IN  /\ round' = [NoRound EXCEPT !.calls = calls,
                                        !.prompt = IF batch THEN pending ELSE {}]
            /\ pc' = IF batch THEN "askingAll" ELSE "calling"
  BY <1>0
<1> DEFINE pending == BatchPending(calls, reach)
           prompt == IF Cardinality(pending) >= 2 THEN pending ELSE {}
<1>2. /\ pc = "thinking" /\ turn.live /\ UNCHANGED <<turn, mem, saved, row>>
      /\ open' = Stored(Here({"reason"}), {})
      /\ told' = [told EXCEPT !.yes = {}, !.halted = FALSE]
  BY DEF ModelCalls
<1>3. calls \in Seq(Calls) /\ calls # <<>> /\ 1 \in DOMAIN calls /\ DOMAIN calls \subseteq Nat
  BY AgentAssumption
<1>4. prompt \subseteq DOMAIN calls
  BY DEF BatchPending
<1>5. /\ round' = [calls |-> calls, at |-> 1, prompt |-> prompt, passed |-> {}, barred |-> {}]
      /\ pc' = IF Cardinality(pending) >= 2 THEN "askingAll" ELSE "calling"
  BY <1>1 DEF NoRound
<1> HIDE DEF prompt
<1>6. /\ round' \in Round /\ round'.calls = calls /\ round'.at = 1
      /\ round'.prompt = prompt /\ round'.passed = {}
  BY <1>3, <1>4, <1>5 DEF Round
<1>7. /\ told' \in Told /\ told'.always = told.always /\ told'.yes = {} /\ told'.halted = FALSE
  BY <1>2 DEF TypeOK, Told
<1>8. open' = {}
  BY <1>2 DEF Traced, Stored
<1>9. TypeOK'
  BY <1>2, <1>5, <1>6, <1>7, <1>8 DEF TypeOK
<1>10. ASSUME NEW i \in prompt PROVE Unanswered(calls[i])
  BY DEF prompt, BatchPending, Unanswered
<1>11. ASSUME NEW c \in At(round.prompt)' PROVE Unanswered(c)'
  <2>1. PICK i \in prompt : c = calls[i]
    BY <1>6 DEF At
  <2> QED BY <1>2, <1>10, <2>1 DEF Unanswered, NeedsApproval, Blocked
<1>12. pc' = "askingAll" \/ prompt = {}
  BY <1>5 DEF prompt
<1>13. Within'
  BY <1>2, <1>3, <1>4, <1>5, <1>6, <1>11, <1>12 DEF Within
<1>14. Agreed' /\ Traced'
  BY <1>2, <1>5, <1>6, <1>8 DEF Agreed, Traced
<1>15. Grown' /\ Counted(mem)' /\ Counted(saved)'
  BY <1>2 DEF Grown, Counted
<1>16. Rooted(mem, told.always)' /\ Rooted(saved, told.always)'
  BY <1>2, <1>7 DEF Rooted
<1>17. EndedTurnIsRecorded'
  BY <1>5 DEF EndedTurnIsRecorded
<1> QED BY <1>7, <1>9, <1>13, <1>14, <1>15, <1>16, <1>17

(* The locals of the round after a batch's answer, and after a call's. *)
LEMMA RoundAnswered ==
  ASSUME round \in Round, NEW P \in SUBSET Nat
  PROVE  /\ [round EXCEPT !.passed = P, !.prompt = {}] \in Round
         /\ [round EXCEPT !.barred = P, !.prompt = {}] \in Round
         /\ [round EXCEPT !.prompt = P] \in Round
<1>1. [round EXCEPT !.passed = P, !.prompt = {}] \in Round
  BY DEF Round
<1>2. [round EXCEPT !.barred = P, !.prompt = {}] \in Round
  BY DEF Round
<1>3. [round EXCEPT !.prompt = P] \in Round
  BY DEF Round
<1> QED BY <1>1, <1>2, <1>3

LEMMA RoundFields ==
  ASSUME round \in Round, NEW P \in SUBSET Nat
  PROVE  LET passed == [round EXCEPT !.passed = P, !.prompt = {}]
             barred == [round EXCEPT !.barred = P, !.prompt = {}]
             prompt == [round EXCEPT !.prompt = P]
         IN  /\ \A r \in {passed, barred, prompt} : r.calls = round.calls /\ r.at = round.at
             /\ passed.passed = P /\ passed.prompt = {}
             /\ barred.passed = round.passed /\ barred.prompt = {}
             /\ prompt.passed = round.passed /\ prompt.prompt = P
  BY DEF Round

(* The memory after an answer: what it keeps of the row and of the user's word. *)
LEMMA Agreeing ==
  ASSUME IInv, Busy, NEW always \in BOOLEAN,
         mem' = IF always THEN Remember(round.prompt) ELSE mem, saved' = saved,
         told'.always = IF always THEN told.always \cup At(round.prompt) ELSE told.always
  PROVE  /\ mem' \in Memory /\ Grown' /\ Counted(mem)' /\ Counted(saved)'
         /\ Rooted(mem, told.always)' /\ Rooted(saved, told.always)'
         /\ told'.always \subseteq Calls
<1> USE DEF IInv
<1>1. At(round.prompt) \subseteq Calls /\ mem \in Memory /\ told.always \subseteq Calls
  BY RoundType DEF TypeOK, Told
<1>2. Rooted(saved, told.always)'
  BY DEF Rooted
<1>3. Counted(saved)'
  BY DEF Counted
<1>4. CASE always
  <2>1. /\ mem' \in Memory /\ Counted(mem') /\ Rooted(mem', told'.always)
        /\ mem.approved \subseteq mem'.approved /\ mem.grants \subseteq mem'.grants
    BY <1>1, <1>4, RememberKeeps
  <2>2. Grown'
    BY <2>1 DEF Grown
  <2>3. Counted(mem)' /\ Rooted(mem, told.always)'
    BY <2>1 DEF Counted, Rooted
  <2> QED BY <1>1, <1>2, <1>3, <1>4, <2>1, <2>2, <2>3
<1>5. CASE ~always
  BY <1>1, <1>2, <1>3, <1>5 DEF Grown, Counted, Rooted
<1> QED BY <1>4, <1>5

LEMMA Refusing ==
  ASSUME IInv, pc \in {"askingAll", "asking"}
  PROVE  /\ Decline(round.prompt) \in Memory /\ Counted(Decline(round.prompt))
         /\ Rooted(Decline(round.prompt), Forget(round.prompt))
         /\ Rooted(saved, Forget(round.prompt))
         /\ saved.approved \subseteq Decline(round.prompt).approved
         /\ saved.grants \subseteq Decline(round.prompt).grants
         /\ Forget(round.prompt) \in SUBSET Calls
<1> USE DEF IInv
<1> DEFINE P == round.prompt
           m == Decline(P)
<1>1. /\ At(P) \subseteq Calls /\ mem \in Memory /\ saved \in Memory
      /\ told.always \subseteq Calls /\ round.calls \in Seq(Calls)
  BY RoundType DEF Busy, TypeOK, Told
<1>2. P \in SUBSET DOMAIN round.calls /\ \A c \in At(P) : Unanswered(c)
  BY DEF Within
<1>3. m \in Memory /\ Counted(m) /\ m.approved = mem.approved /\ m.grants = mem.grants
  BY <1>1, <1>2, DeclineKeeps
<1>4. Rooted(m, told.always)
  BY <1>3 DEF Rooted
<1> HIDE DEF m
<1>5. Rooted(m, Forget(P))
  BY <1>1, <1>2, <1>3, <1>4, ForgetKeeps
<1>6. Rooted(saved, Forget(P))
  BY <1>1, <1>2, ForgetKeeps DEF Grown
<1>7. Forget(P) \in SUBSET Calls
  BY <1>1 DEF Forget
<1> QED BY <1>3, <1>5, <1>6, <1>7 DEF Grown, m

LEMMA BatchKeeps ==
  ASSUME IInv, RefuseAll \/ AskingAllFails \/ \E always \in BOOLEAN : AgreeToAll(always)
  PROVE  IInv'
<1> USE DEF IInv
<1>1. /\ pc = "askingAll" /\ pc' = "calling" /\ UNCHANGED <<turn, saved, row, open>>
  BY DEF RefuseAll, AskingAllFails, AgreeToAll
<1>2. /\ round \in Round /\ round.prompt \in SUBSET Nat /\ told \in Told
      /\ round.calls \in Rounds /\ round.at \in DOMAIN round.calls
      /\ ~told.halted /\ mem \in Memory /\ saved \in Memory /\ {} \in SUBSET Nat
  BY <1>1 DEF TypeOK, Within, Round
<1>3. ASSUME round' \in Round, round'.calls = round.calls, round'.at = round.at,
             round'.prompt = {}, mem' \in Memory, told' \in Told, ~told'.halted,
             round'.passed \subseteq told'.yes, Grown', Counted(mem)', Counted(saved)',
             Rooted(mem, told.always)', Rooted(saved, told.always)'
      PROVE  IInv'
  <2>1. TypeOK'
    BY <1>1, <1>3 DEF TypeOK
  <2>2. Within' /\ Agreed'
    BY <1>1, <1>2, <1>3 DEF Within, Agreed
  <2>3. Traced' /\ EndedTurnIsRecorded'
    BY <1>1 DEF Traced, EndedTurnIsRecorded
  <2> QED BY <1>3, <2>1, <2>2, <2>3
<1>4. CASE AskingAllFails
  <2>1. /\ round' = [round EXCEPT !.prompt = {}] /\ mem' = mem /\ told' = told
    BY <1>4 DEF AskingAllFails
  <2>2. round' \in Round
    BY <1>2, <2>1, RoundAnswered
  <2>3. /\ round'.calls = round.calls /\ round'.at = round.at /\ round'.prompt = {}
        /\ round'.passed = round.passed
    BY <1>2, <2>1 DEF Round
  <2>4. /\ Grown' /\ Counted(mem)' /\ Counted(saved)'
        /\ Rooted(mem, told.always)' /\ Rooted(saved, told.always)'
    BY <1>1, <2>1 DEF Grown, Counted, Rooted
  <2> QED BY <1>1, <1>2, <1>3, <2>1, <2>2, <2>3, <2>4 DEF Agreed
<1>5. CASE RefuseAll
  <2>1. /\ round' = [round EXCEPT !.barred = round.prompt, !.prompt = {}]
        /\ mem' = Decline(round.prompt)
        /\ told' = [told EXCEPT !.always = Forget(round.prompt)]
    BY <1>5 DEF RefuseAll
  <2>2. round' \in Round
    BY <1>2, <2>1, RoundAnswered
  <2>3. /\ round'.calls = round.calls /\ round'.at = round.at /\ round'.prompt = {}
        /\ round'.passed = round.passed
    BY <1>2, <2>1 DEF Round
  <2>4. /\ told' \in Told /\ told'.always = Forget(round.prompt)
        /\ told'.yes = told.yes /\ told'.halted = told.halted
    BY <1>1, <1>2, <2>1, Refusing DEF Told
  <2>5. /\ mem' \in Memory /\ Grown' /\ Counted(mem') /\ Counted(saved')
        /\ Rooted(mem', told'.always) /\ Rooted(saved', told'.always)
    BY <1>1, <2>1, <2>4, Refusing DEF Grown
  <2>6. /\ Counted(mem)' /\ Counted(saved)'
        /\ Rooted(mem, told.always)' /\ Rooted(saved, told.always)'
    BY <2>5 DEF Counted, Rooted
  <2> QED BY <1>1, <1>2, <1>3, <2>2, <2>3, <2>4, <2>5, <2>6 DEF Agreed
<1>6. ASSUME NEW always \in BOOLEAN, AgreeToAll(always)
      PROVE  IInv'
  <2>1. /\ round' = [round EXCEPT !.passed = round.prompt, !.prompt = {}]
        /\ mem' = IF always THEN Remember(round.prompt) ELSE mem
        /\ told' = [told EXCEPT !.yes = round.prompt,
                      !.always = IF always THEN @ \cup At(round.prompt) ELSE @]
    BY <1>6 DEF AgreeToAll
  <2>2. round' \in Round
    BY <1>2, <2>1, RoundAnswered
  <2>3. /\ round'.calls = round.calls /\ round'.at = round.at /\ round'.prompt = {}
        /\ round'.passed = round.prompt
    BY <1>2, <2>1 DEF Round
  <2>4. /\ told'.always = IF always THEN told.always \cup At(round.prompt) ELSE told.always
        /\ told'.yes = round.prompt /\ told'.halted = told.halted
    BY <1>2, <2>1 DEF Told
  <2>5. /\ mem' \in Memory /\ Grown' /\ Counted(mem)' /\ Counted(saved)'
        /\ Rooted(mem, told.always)' /\ Rooted(saved, told.always)'
        /\ told'.always \subseteq Calls
    BY <1>1, <2>1, <2>4, Agreeing DEF Busy
  <2>6. told' \in Told
    BY <1>2, <2>1, <2>4, <2>5 DEF Told
  <2> QED BY <1>2, <1>3, <2>2, <2>3, <2>4, <2>5, <2>6
<1> QED BY <1>4, <1>5, <1>6

(* The steps within one call: the question, its answer, the start of the tool. *)
LEMMA CallKeeps ==
  ASSUME IInv, AskUser \/ Proceed \/ \E always \in BOOLEAN : Agree(always)
  PROVE  IInv'
<1> USE DEF IInv
<1>1. /\ pc \in {"calling", "asking"} /\ Busy /\ turn.total < MaxToolCalls
      /\ UNCHANGED <<turn, saved, row>>
  BY DEF AskUser, Proceed, Agree, Decided, Calling, Within, Busy
<1>2. /\ round \in Round /\ round.prompt \in SUBSET Nat /\ told \in Told
      /\ round.calls \in Rounds /\ round.at \in DOMAIN round.calls
      /\ ~told.halted /\ mem \in Memory /\ saved \in Memory /\ {} \in SUBSET Nat
      /\ round.at \in Nat /\ open \subseteq Step
  BY <1>1 DEF TypeOK, Within, Round
<1>3. /\ Here({"tool"}) \subseteq Step /\ Here({"tool", "approval"}) \subseteq Step
  BY HereTypes
<1>4. CASE AskUser
  <2>1. /\ pc = "calling" /\ pc' = "asking" /\ round' = [round EXCEPT !.prompt = {round.at}]
        /\ open' = Stored({}, Here({"tool", "approval"})) /\ UNCHANGED <<mem, told>> /\ MustAsk
    BY <1>4 DEF AskUser, Decided, Calling
  <2>2. round' \in Round
    BY <1>2, <2>1, RoundAnswered
  <2>3. /\ round'.calls = round.calls /\ round'.at = round.at /\ round'.prompt = {round.at}
        /\ round'.passed = round.passed
    BY <1>2, <2>1 DEF Round
  <2>4. TypeOK'
    BY <1>1, <1>2, <1>3, <2>1, <2>2 DEF TypeOK, Stored
  <2>5. \A c \in At(round.prompt)' : Unanswered(c)'
    BY <2>1, <2>3 DEF At, Unanswered, MustAsk, NeedsApproval, Blocked, Call
  <2>6. Within'
    BY <1>1, <1>2, <2>1, <2>3, <2>5 DEF Within
  <2>7. Agreed'
    BY <2>1, <2>3 DEF Agreed
  <2>8. Here({"tool", "approval"})' = Here({"tool", "approval"})
    BY <1>1, <2>3 DEF Here
  <2>9. Traced' /\ EndedTurnIsRecorded'
    BY <1>1, <2>1, <2>8 DEF Traced, Stored, EndedTurnIsRecorded
  <2>10. Grown' /\ Counted(mem)' /\ Counted(saved)' /\ Rooted(mem, told.always)'
         /\ Rooted(saved, told.always)'
    BY <1>1, <2>1 DEF Grown, Counted, Rooted
  <2> QED BY <1>2, <2>1, <2>4, <2>6, <2>7, <2>9, <2>10
<1>5. CASE Proceed
  <2>1. /\ pc = "calling" /\ pc' = "running" /\ round' = round /\ UNCHANGED <<mem, told>>
        /\ open' = Stored({}, Here({"tool"}))
        /\ ~MustAsk /\ ~(NeedsApproval(Call) /\ Blocked(Call))
    BY <1>5 DEF Proceed, Decided, Calling
  <2>2. TypeOK'
    BY <1>1, <1>2, <1>3, <2>1 DEF TypeOK, Stored
  <2>3. Within'
    BY <1>1, <1>2, <2>1 DEF Within
  <2>4. Evaluate(Call) => \/ round.at \in told.yes
                          \/ Call.key \in mem.approved
                          \/ \E g \in mem.grants : Matches(g, Call)
    BY <2>1 DEF MustAsk, NeedsApproval, Agreed
  <2>5. Agreed'
    BY <1>1, <2>1, <2>4 DEF Agreed, Call
  <2>6. Here({"tool"})' = Here({"tool"})
    BY <1>1, <2>1 DEF Here
  <2>7. Traced' /\ EndedTurnIsRecorded'
    BY <1>1, <2>1, <2>6 DEF Traced, Stored, EndedTurnIsRecorded
  <2>8. Grown' /\ Counted(mem)' /\ Counted(saved)' /\ Rooted(mem, told.always)'
         /\ Rooted(saved, told.always)'
    BY <1>1, <2>1 DEF Grown, Counted, Rooted
  <2> QED BY <1>2, <2>1, <2>2, <2>3, <2>5, <2>7, <2>8
<1>6. ASSUME NEW always \in BOOLEAN, Agree(always)
      PROVE  IInv'
  <2>1. /\ pc = "asking" /\ pc' = "running" /\ round' = [round EXCEPT !.prompt = {}]
        /\ mem' = IF always THEN Remember(round.prompt) ELSE mem
        /\ told' = [told EXCEPT !.yes = @ \cup round.prompt,
                      !.always = IF always THEN @ \cup At(round.prompt) ELSE @]
        /\ open' = Stored(Here({"approval"}), {})
    BY <1>6 DEF Agree
  <2>2. round' \in Round
    BY <1>2, <2>1, RoundAnswered
  <2>3. /\ round'.calls = round.calls /\ round'.at = round.at /\ round'.prompt = {}
        /\ round'.passed = round.passed
    BY <1>2, <2>1 DEF Round
  <2>4. /\ told'.always = IF always THEN told.always \cup At(round.prompt) ELSE told.always
        /\ told'.yes = told.yes \cup round.prompt /\ told'.halted = told.halted
    BY <1>2, <2>1 DEF Told
  <2>5. /\ mem' \in Memory /\ Grown' /\ Counted(mem)' /\ Counted(saved)'
        /\ Rooted(mem, told.always)' /\ Rooted(saved, told.always)'
        /\ told'.always \subseteq Calls
    BY <1>1, <2>1, <2>4, Agreeing
  <2>6. told' \in Told
    BY <1>2, <2>1, <2>4, <2>5 DEF Told
  <2>7. TypeOK'
    BY <1>1, <1>2, <2>1, <2>2, <2>5, <2>6 DEF TypeOK, Stored
  <2>8. Within'
    BY <1>1, <1>2, <2>1, <2>3 DEF Within
  <2>9. round.at \in told'.yes
    BY <2>1, <2>4 DEF Within
  <2>10. Agreed'
    BY <1>1, <2>1, <2>3, <2>4, <2>9 DEF Agreed
  <2>11. Traced' /\ EndedTurnIsRecorded'
    <3>1. turn.live => open = Here({"tool", "approval"})
      BY <2>1 DEF Traced
    <3>2. Here({"tool", "approval"}) \ Here({"approval"}) = Here({"tool"})
      BY DEF Here, Steps
    <3>3. Here({"tool"})' = Here({"tool"})
      BY <1>1, <2>3 DEF Here
    <3> QED BY <1>1, <2>1, <3>1, <3>2, <3>3 DEF Traced, Stored, EndedTurnIsRecorded
  <2> QED BY <2>1, <2>4, <2>5, <2>7, <2>8, <2>10, <2>11, <1>2
<1> QED BY <1>4, <1>5, <1>6

LEMMA EndsKeepIt ==
  ASSUME IInv, SkipCall \/ RefuseCall \/ RefuseBlocked \/ Refuse \/ AskingFails \/ Executed
  PROVE  IInv'
<1> USE DEF IInv
<1>1. /\ pc \in {"calling", "asking", "running"} /\ turn.total < MaxToolCalls /\ Busy
  BY DEF SkipCall, RefuseCall, RefuseBlocked, Refuse, AskingFails, Executed, Decided, Calling,
         Within, Busy
<1>2. /\ mem \in Memory /\ told.always \in SUBSET Calls /\ Counted(mem)
      /\ Rooted(mem, told.always) /\ Rooted(saved, told.always)
      /\ saved.approved \subseteq mem.approved /\ saved.grants \subseteq mem.grants
      /\ Call.readOnly \in BOOLEAN
  BY <1>1, RoundType, AgentAssumption DEF TypeOK, Told, Grown
<1>3. ASSUME NEW ok \in BOOLEAN, NEW executed \in BOOLEAN, NEW fuse \in BOOLEAN,
             EndCall(ok, executed, fuse, mem, told.always)
      PROVE  IInv'
  BY <1>1, <1>2, <1>3, EndCallKeeps
<1>4. CASE SkipCall
  BY <1>3, <1>4 DEF SkipCall
<1>5. CASE RefuseCall
  BY <1>2, <1>3, <1>5 DEF RefuseCall
<1>6. CASE RefuseBlocked
  BY <1>3, <1>6 DEF RefuseBlocked
<1>7. CASE AskingFails
  BY <1>3, <1>7 DEF AskingFails
<1>8. CASE Executed
  BY <1>2, <1>3, <1>8 DEF Executed
<1>9. CASE Refuse
  <2>1. EndCall(FALSE, FALSE, FALSE, Decline(round.prompt), Forget(round.prompt)) /\ pc = "asking"
    BY <1>9 DEF Refuse
  <2> QED BY <1>1, <2>1, Refusing, EndCallKeeps
<1> QED BY <1>4, <1>5, <1>6, <1>7, <1>8, <1>9

LEMMA OtherKeeps ==
  ASSUME IInv, TooManyCalls \/ Expire \/ SaveSession \/ Crash \/ UNCHANGED vars
  PROVE  IInv'
<1> USE DEF IInv
<1>1. turn \in Turn /\ mem \in Memory /\ saved \in Memory /\ told \in Told
  BY DEF TypeOK
<1>2. CASE TooManyCalls
  <2>1. /\ Ends(turn, "failed", {}) /\ pc = "calling" /\ UNCHANGED <<mem, saved, told>>
    BY <1>2 DEF TooManyCalls
  <2>2. turn.live => open \subseteq Here({})
    BY <2>1 DEF Traced
  <2>3. /\ pc' = "over" /\ turn' \in Turn /\ round' = NoRound
        /\ row' \in {"none", "running", "completed", "failed"} /\ open' \subseteq Step
        /\ EndedTurnIsRecorded'
    BY <1>1, <2>1, <2>2, EndsKeeps
  <2>4. Traced'
    BY <2>3 DEF Traced
  <2> QED BY <2>1, <2>3, <2>4, RoundEnds
<1>3. CASE Expire
  <2>1. /\ turn' = [turn EXCEPT !.live = FALSE]
        /\ UNCHANGED <<pc, round, mem, saved, row, open, told>>
    BY <1>3 DEF Expire
  <2>2. turn' \in Turn /\ turn'.live = FALSE /\ turn'.total = turn.total
    BY <1>1, <2>1, TurnMoves
  <2>3. TypeOK'
    BY <2>1, <2>2 DEF TypeOK
  <2>4. Within' /\ Agreed'
    BY <2>1, <2>2 DEF Within, Agreed, At, Unanswered, NeedsApproval, Blocked, Call
  <2>5. Traced' /\ EndedTurnIsRecorded'
    BY <2>1, <2>2 DEF Traced, EndedTurnIsRecorded
  <2>6. Grown' /\ Counted(mem)' /\ Counted(saved)' /\ Rooted(mem, told.always)'
        /\ Rooted(saved, told.always)'
    BY <2>1 DEF Grown, Counted, Rooted
  <2> QED BY <2>1, <2>3, <2>4, <2>5, <2>6
<1>4. ASSUME saved' \in {mem, saved}, Leaves
      PROVE  IInv'
  <2>1. /\ pc' = "idle" /\ turn' = [NoTurn EXCEPT !.n = turn.n] /\ round' = NoRound
        /\ mem' = saved' /\ row' = "none" /\ open' = {}
        /\ told' = [told EXCEPT !.yes = {}, !.halted = FALSE]
    BY <1>4 DEF Leaves
  <2>2. turn' \in Turn
    BY <1>1, <2>1, TurnNew DEF Turn
  <2>3. told' \in Told /\ told'.always = told.always
    BY <1>1, <2>1 DEF Told
  <2>4. /\ saved' \in Memory /\ Counted(saved') /\ Rooted(saved', told'.always)
    BY <1>1, <1>4, <2>3
  <2>5. Grown' /\ Counted(mem)' /\ Counted(saved)' /\ Rooted(mem, told.always)'
        /\ Rooted(saved, told.always)'
    BY <2>1, <2>4 DEF Grown, Counted, Rooted
  <2>6. TypeOK'
    BY <2>1, <2>2, <2>3, <2>4 DEF TypeOK, NoRound, Round
  <2>7. Within' /\ Agreed' /\ Traced' /\ EndedTurnIsRecorded'
    BY <2>1 DEF Within, Agreed, Traced, EndedTurnIsRecorded, NoRound
  <2> QED BY <2>1, <2>5, <2>6, <2>7
<1>5. CASE SaveSession \/ Crash
  BY <1>4, <1>5 DEF SaveSession, Crash
<1>6. CASE UNCHANGED vars
  <2>1. UNCHANGED <<pc, turn, round, mem, saved, row, open, told>>
    BY <1>6 DEF vars
  <2>2. TypeOK' /\ Within' /\ Agreed'
    BY <2>1 DEF TypeOK, Within, Agreed, At, Unanswered, NeedsApproval, Blocked, Call
  <2>3. Traced' /\ EndedTurnIsRecorded'
    BY <2>1 DEF Traced, EndedTurnIsRecorded, Here
  <2>4. Grown' /\ Counted(mem)' /\ Counted(saved)' /\ Rooted(mem, told.always)'
        /\ Rooted(saved, told.always)'
    BY <2>1 DEF Grown, Counted, Rooted
  <2> QED BY <2>1, <2>2, <2>3, <2>4
<1> QED BY <1>2, <1>3, <1>5, <1>6

LEMMA StepKeeps ==
  ASSUME IInv, [Next]_vars
  PROVE  IInv'
<1>1. CASE StartTurn
  BY <1>1, StartKeeps
<1>2. CASE AgentStep
  BY <1>2, ThinkKeeps, CallsKeeps, BatchKeeps, CallKeeps, EndsKeepIt, OtherKeeps
     DEF AgentStep, Think, HandleCall, GiveUp
<1>3. CASE Answer
  BY <1>3, BatchKeeps, CallKeeps, EndsKeepIt DEF Answer
<1>4. CASE Expire \/ Crash \/ UNCHANGED vars
  BY <1>4, OtherKeeps
<1> QED BY <1>1, <1>2, <1>3, <1>4 DEF Next

(* The invariant holds of every run, whatever the model, the user and the
   clock do (loop.go:20-217). *)
THEOREM Invariant == Spec => []IInv
<1>1. Init => IInv
  BY InitKeeps
<1>2. IInv /\ [Next]_vars => IInv'
  BY StepKeeps
<1> QED BY <1>1, <1>2, PTL DEF Spec

-----------------------------------------------------------------------------
(* What the runs check *)

(* Every variable keeps its type, for every set of calls and every bound: no
   turn spends more calls than it may (loop.go:128). *)
THEOREM Typed == Spec => []TypeOK
<1>1. IInv => TypeOK
  BY DEF IInv
<1> QED BY <1>1, Invariant, PTL

(* No call that changes something runs without the user's word, given in the
   round or for good and not taken back (loop.go:722-890, session.go:122-209). *)
THEOREM Consented == Spec => []WritesAreConsented
<1>1. IInv => WritesAreConsented
  BY Consents DEF WritesAreConsented
<1> QED BY <1>1, Invariant, PTL

(* No prompt, single or batch, names an operation refused in two prompts
   (loop.go:375-376, 617-720, 788). *)
THEOREM AskedTwice == Spec => []NeverAskedThrice
<1>1. ASSUME IInv, pc \in {"asking", "askingAll"}, NEW c \in At(round.prompt)
      PROVE  mem.refused[c.key] < 2
  <2>1. c \in Calls /\ c.key \in Keys
    BY <1>1, RoundType DEF IInv, Busy, Keys
  <2>2. ~(mem.declined[c.key] >= 2)
    BY <1>1 DEF IInv, Within, Unanswered, Blocked
  <2>3. mem.declined[c.key] \in Nat /\ mem.refused[c.key] \in Nat
    BY <1>1, <2>1 DEF IInv, TypeOK, Memory
  <2> QED BY <1>1, <2>1, <2>2, <2>3 DEF IInv, Counted
<1>2. IInv => NeverAskedThrice
  BY <1>1 DEF NeverAskedThrice
<1> QED BY <1>2, Invariant, PTL

(* A refusal ends its round: nothing else of it runs or is asked for
   (loop.go:186-211). *)
THEOREM Halts == Spec => []RefusalEndsTheRound
<1>1. IInv => RefusalEndsTheRound
  BY DEF IInv, RefusalEndsTheRound
<1> QED BY <1>1, Invariant, PTL

(* A turn that ends in time leaves its row closed and its steps too
   (loop.go:45-58, trace.go:41-80). *)
THEOREM Recorded == Spec => []EndedTurnIsRecorded
<1>1. IInv => EndedTurnIsRecorded
  BY DEF IInv
<1> QED BY <1>1, Invariant, PTL
=============================================================================
