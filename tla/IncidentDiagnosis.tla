-------------------------- MODULE IncidentDiagnosis --------------------------
(***************************************************************************)
(* The LLM diagnosis of a scan's incidents: one goroutine per incident, at  *)
(* most MaxConcurrent of them calling the model, a shared account of calls  *)
(* and outcomes, and the merge with what the program found out by itself.   *)
(***************************************************************************)
EXTENDS Integers, FiniteSets

CONSTANTS
  Scans,         \* the scan jobs
  Incidents,     \* the incidents a scan may meet
  IncidentsOf,   \* [Scans -> those it does meet]
  MaxConcurrent, \* llmConcurrency
  Findings       \* what deterministic diagnosis may find

(* used: an answer of the model, passed: not refuted by its validation,
   cited: refers to collected evidence. *)
Conclusion == [used : BOOLEAN, passed : BOOLEAN, cited : BOOLEAN,
               root : {"confirmed", "probable", "unknown"}]
None == [used |-> FALSE, passed |-> FALSE, cited |-> FALSE, root |-> "none"]
Degraded == [used |-> FALSE, passed |-> TRUE, cited |-> FALSE, root |-> "unknown"]

Conclusions == [Incidents -> Conclusion \cup {None}]

ASSUME DiagnosisAssumption ==
  /\ IsFiniteSet(Incidents) /\ MaxConcurrent \in Nat \ {0}
  /\ IncidentsOf \in [Scans -> SUBSET Incidents]
  /\ Findings \subseteq Conclusions
  /\ \A f \in Findings : \A i \in Incidents : ~f[i].used

VARIABLES
  ctx,    \* [Scans -> state of the scan's context]; the first end counts
  known,  \* [Scans -> deterministic conclusions]
  worker, \* [Scans -> [Incidents -> where its goroutine is]]
  answer, \* [Scans -> conclusions of the goroutines]
  tally,  \* [Scans -> summaryCounters and LLMSummary.Degraded]
  final   \* [Scans -> the conclusions of the report]

diagnosisVars == <<ctx, known, worker, answer, tally, final>>

Account == [calls : Nat, failed : Nat, succeeded : Nat, explained : Nat, degraded : Nat]
NoAccount == [calls |-> 0, failed |-> 0, succeeded |-> 0, explained |-> 0, degraded |-> 0]

DiagnosisTypeOK ==
  /\ ctx \in [Scans -> {"open", "cancelled", "expired"}]
  /\ known \in [Scans -> Conclusions]
  /\ worker \in [Scans -> [Incidents -> {"idle", "queued", "asked", "asked again",
                                         "done", "empty"}]]
  /\ answer \in [Scans -> Conclusions]
  /\ tally \in [Scans -> Account]
  /\ final \in [Scans -> Conclusions]

Unknown == [i \in Incidents |-> None]
AllAre(pc) == [i \in Incidents |-> pc]

DiagnosisInit ==
  /\ ctx = [s \in Scans |-> "open"]
  /\ known = [s \in Scans |-> Unknown]
  /\ worker = [s \in Scans |-> AllAre("idle")]
  /\ answer = [s \in Scans |-> Unknown]
  /\ tally = [s \in Scans |-> NoAccount]
  /\ final = [s \in Scans |-> Unknown]

Calling(s) == {i \in Incidents : worker[s][i] \in {"asked", "asked again"}}
Left(s) == {i \in Incidents : worker[s][i] = "empty"}
Joined(s) == \A i \in Incidents : worker[s][i] \in {"idle", "done", "empty"}

-----------------------------------------------------------------------------
(* finishIncidentDiagnosis: what is kept of a conclusion d of incident i ... *)
KeptBlindly(s, i, d) ==
  IF d.used /\ d.passed THEN d ELSE [known[s][i] EXCEPT !.passed = d.passed]

Kept(s, i, d) ==
  IF (d.used /\ d.passed) \/ known[s][i] = None THEN d
  ELSE [known[s][i] EXCEPT !.passed = d.passed]

(* ... and how the account of the scan grows. *)
BookedTwice(t, d, kept) ==
  [t EXCEPT !.succeeded = @ + IF d.used THEN 1 ELSE 0,
            !.explained = @ + IF d.used /\ d.passed THEN 0 ELSE 1,
            !.degraded = @ + IF kept.used THEN 0 ELSE 1]

Booked(t, d, kept) ==
  [t EXCEPT !.succeeded = @ + IF d.used /\ d.passed THEN 1 ELSE 0,
            !.explained = @ + IF d.used /\ d.passed THEN 0 ELSE 1,
            !.degraded = @ + IF kept.used THEN 0 ELSE 1]

(* The goroutine of incident i ends with d, on an account t. *)
Conclude(s, i, d, t) ==
  /\ answer' = [answer EXCEPT ![s][i] = Kept(s, i, d)]
  /\ tally' = [tally EXCEPT ![s] = Booked(t, d, Kept(s, i, d))]
  /\ worker' = [worker EXCEPT ![s][i] = "done"]
  /\ UNCHANGED <<ctx, known, final>>

AcquireUnbounded(s, i) ==
  /\ worker[s][i] = "queued"
  /\ worker' = [worker EXCEPT ![s][i] = "asked"]
  /\ tally' = [tally EXCEPT ![s].calls = @ + 1]
  /\ UNCHANGED <<ctx, known, answer, final>>

(* The select may take a free place although the context is done. *)
Acquire(s, i) ==
  /\ worker[s][i] = "queued" /\ Cardinality(Calling(s)) < MaxConcurrent
  /\ worker' = [worker EXCEPT ![s][i] = "asked"]
  /\ tally' = [tally EXCEPT ![s].calls = @ + 1]
  /\ UNCHANGED <<ctx, known, answer, final>>

LeaveQueue(s, i) ==
  /\ worker[s][i] = "queued" /\ ctx[s] # "open"
  /\ worker' = [worker EXCEPT ![s][i] = "empty"]
  /\ UNCHANGED <<ctx, known, answer, tally, final>>

(* The request fails, or the context ended it. *)
CallFails(s, i) ==
  /\ i \in Calling(s)
  /\ Conclude(s, i, Degraded, [tally[s] EXCEPT !.failed = @ + 1])

AskForEver(s, i) ==
  /\ i \in Calling(s)
  /\ worker' = [worker EXCEPT ![s][i] = IF @ = "asked" THEN "asked again" ELSE "asked"]
  /\ UNCHANGED <<ctx, known, answer, tally, final>>

(* Not the JSON that was asked for: one repair request. *)
AskAgain(s, i) ==
  /\ worker[s][i] = "asked"
  /\ worker' = [worker EXCEPT ![s][i] = "asked again"]
  /\ tally' = [tally EXCEPT ![s].calls = @ + 1]
  /\ UNCHANGED <<ctx, known, answer, final>>

(* Unreadable again, or readable without a cause or a summary. *)
AnswerIsUseless(s, i) == i \in Calling(s) /\ Conclude(s, i, Degraded, tally[s])

(* validateIncidentDiagnosis: invented evidence or resources refute it; it is
   never more than probable. *)
AnswerIsRead(s, i) ==
  /\ i \in Calling(s)
  /\ \E passed, cited \in BOOLEAN, root \in {"probable", "unknown"} :
       /\ ~passed => root = "probable"
       /\ Conclude(s, i, [used |-> TRUE, passed |-> passed, cited |-> cited, root |-> root],
                   tally[s])

WorkerStep(s) ==
  \E i \in Incidents :
    \/ Acquire(s, i) \/ LeaveQueue(s, i) \/ CallFails(s, i) \/ AskAgain(s, i)
    \/ AnswerIsUseless(s, i) \/ AnswerIsRead(s, i)

-----------------------------------------------------------------------------
(* The pipeline's side. *)

Recognize(s) ==
  /\ known' \in {[known EXCEPT ![s] = [i \in Incidents |->
                     IF i \in IncidentsOf[s] THEN f[i] ELSE None]] : f \in Findings}
  /\ UNCHANGED <<ctx, worker, answer, tally, final>>

FanOut(s) ==
  /\ worker' = [worker EXCEPT ![s] = [i \in Incidents |->
                  IF i \in IncidentsOf[s] THEN "queued" ELSE "idle"]]
  /\ UNCHANGED <<ctx, known, answer, tally, final>>

FillQuietly(s) ==
  /\ answer' = [answer EXCEPT ![s] = [i \in Incidents |->
                  IF i \in Left(s) THEN Kept(s, i, Degraded) ELSE answer[s][i]]]
  /\ UNCHANGED <<ctx, known, worker, tally, final>>

(* The deadline left places empty: they are degraded and booked as well. *)
Fill(s) ==
  /\ answer' = [answer EXCEPT ![s] = [i \in Incidents |->
                  IF i \in Left(s) THEN Kept(s, i, Degraded) ELSE answer[s][i]]]
  /\ tally' = [tally EXCEPT ![s].explained = @ + Cardinality(Left(s)),
                            ![s].degraded = @ + Cardinality(Left(s))]
  /\ UNCHANGED <<ctx, known, worker, final>>

(* mergeHybrid: the model's words, the stronger of the two statuses; the
   program's evidence is not taken over. *)
Hybrid(d, k) == IF k # None /\ k.root = "confirmed" THEN [d EXCEPT !.root = "confirmed"]
                ELSE IF k # None /\ k.root = "probable" THEN [d EXCEPT !.root = "probable"]
                ELSE d

(* enforceDiagnosisInvariants: nothing confirmed without evidence. *)
AsClaimed(c) == c
Enforced(c) == IF c.root = "confirmed" /\ ~c.cited THEN [c EXCEPT !.root = "probable"] ELSE c

(* The conclusion of incident i after both lines; asked: the model was. *)
Merged(s, i, asked) ==
  LET d == answer[s][i]
      k == known[s][i]
  IN IF asked /\ d # None
     THEN Enforced(IF d.used /\ d.passed THEN Hybrid(d, k) ELSE d)
     ELSE IF k # None THEN Enforced(k) ELSE None

(* The account goes into the report and is not touched any more. *)
Merge(s, asked) ==
  /\ final' = [final EXCEPT ![s] = [i \in Incidents |-> Merged(s, i, asked)]]
  /\ worker' = [worker EXCEPT ![s] = AllAre("idle")]
  /\ answer' = [answer EXCEPT ![s] = Unknown]
  /\ tally' = [tally EXCEPT ![s] = NoAccount]
  /\ UNCHANGED <<ctx, known>>

(* The locals of a finished scan are gone. *)
Forget(s) ==
  /\ known' = [known EXCEPT ![s] = Unknown]
  /\ worker' = [worker EXCEPT ![s] = AllAre("idle")]
  /\ answer' = [answer EXCEPT ![s] = Unknown]
  /\ tally' = [tally EXCEPT ![s] = NoAccount]
  /\ final' = [final EXCEPT ![s] = Unknown]

EndContext(s, how) == ctx' = [ctx EXCEPT ![s] = IF @ = "open" THEN how ELSE @]

-----------------------------------------------------------------------------
(* The account of one diagnosis: no incident is counted twice or not at all,
   however the deadline, the failures and the repairs interleave; a failure
   is the failure of a call, and there are at most two calls an incident. *)
AccountBalances(s) ==
  /\ tally[s].succeeded + tally[s].explained =
       Cardinality({i \in Incidents : answer[s][i] # None})
  /\ tally[s].degraded =
       Cardinality({i \in Incidents : answer[s][i] # None /\ ~answer[s][i].used})
  /\ tally[s].failed <= tally[s].calls
  /\ tally[s].calls <= 2 * Cardinality(Incidents)

(* A cause is reported as confirmed only if the program confirmed it and the
   reported conclusion cites evidence. *)
ConfirmedIsProven(s) ==
  \A i \in Incidents : final[s][i].root = "confirmed" =>
    known[s][i].root = "confirmed" /\ final[s][i].cited

(* What the program confirmed on evidence the report calls less than
   confirmed only when the model's accepted answer cites none. *)
ConfirmedIsKept(s) ==
  \A i \in Incidents :
    /\ final[s][i] # None
    /\ known[s][i].root = "confirmed" /\ known[s][i].cited
    => final[s][i].root = "confirmed" \/ (final[s][i].used /\ ~final[s][i].cited)
=============================================================================
