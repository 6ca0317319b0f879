------------------------------- MODULE ScanJobs -------------------------------
(***************************************************************************)
(* The scan jobs of the server: the handlers that start and cancel one, the *)
(* goroutine that runs the pipeline of stages, the snapshots of its stages, *)
(* and the critical sections in which the three meet.                       *)
(***************************************************************************)
EXTENDS IncidentDiagnosis

CONSTANTS
  Users, Admins,
  Nobody,
  Presets,       \* the optional stages a request may ask for
  Archiving      \* is the archive wired

(* stageSpec *)
Connect == 1        Collect == 2        Evidence == 4
Deterministic == 8  LLM == 9            Validate == 10
Write == 12         Archive == 13
Stage == 1..13

ASSUME JobsAssumption ==
  /\ Archiving \in BOOLEAN /\ Admins \subseteq Users /\ Nobody \notin Users
  /\ Presets \subseteq SUBSET {Evidence, LLM}

VARIABLES
  status,   \* [Scans -> job.Status]
  owner,    \* [Scans -> job.Owner]
  shown,    \* [Scans -> job.Stages]
  result,   \* jobs with a result
  running,  \* s.running
  cancels,  \* jobs with a registered cancel function
  stopping, \* cancel requests between the unlock and the call
  at,       \* [Scans -> the stage the pipeline is at]
  pc,       \* [Scans -> where the job's goroutine is]
  wants,    \* [Scans -> optional stages of its options]
  account   \* [Scans -> the pipeline's own record of its stages]

jobVars == <<status, owner, shown, result, running, cancels, stopping>>
pipeVars == <<at, pc, wants, account>>
vars == <<jobVars, pipeVars, diagnosisVars>>

Record == [Stage -> {"absent", "running", "done", "failed", "stopped", "skipped"}]
NothingYet == [k \in Stage |-> "absent"]

TypeOK ==
  /\ DiagnosisTypeOK
  /\ status \in [Scans -> {"none", "running", "cancelled", "failed", "succeeded"}]
  /\ owner \in [Scans -> Users \cup {Nobody}]
  /\ shown \in [Scans -> Record]
  /\ result \subseteq Scans
  /\ running \in BOOLEAN
  /\ cancels \subseteq Scans
  /\ stopping \subseteq Scans
  /\ at \in [Scans -> 1..14]
  /\ pc \in [Scans -> {"idle", "between", "inside", "returned", "failed", "noting",
                       "clearing", "over"}]
  /\ wants \in [Scans -> SUBSET {Evidence, LLM}]
  /\ account \in [Scans -> Record]

Init ==
  /\ DiagnosisInit
  /\ status = [s \in Scans |-> "none"] /\ owner = [s \in Scans |-> Nobody]
  /\ shown = [s \in Scans |-> NothingYet] /\ account = [s \in Scans |-> NothingYet]
  /\ result = {} /\ running = FALSE /\ cancels = {} /\ stopping = {}
  /\ at = [s \in Scans |-> 1] /\ pc = [s \in Scans |-> "idle"]
  /\ wants = [s \in Scans |-> {}]

(* From the start of the goroutine to the end of service.Run. *)
InRun(s) == pc[s] \in {"between", "inside", "returned", "failed"}

-----------------------------------------------------------------------------
(* handleCreateScan: the preset gives the optional stages, the LLM's only if a
   model is configured. *)

CreateUnchecked(s, u) ==
  /\ pc[s] = "idle"
  /\ status' = [status EXCEPT ![s] = "running"] /\ owner' = [owner EXCEPT ![s] = u]
  /\ running' = TRUE /\ cancels' = cancels \cup {s}
  /\ pc' = [pc EXCEPT ![s] = "between"]
  /\ wants' \in {[wants EXCEPT ![s] = w] : w \in Presets}
  /\ UNCHANGED <<shown, result, stopping, at, account, diagnosisVars>>

CreateScan(s, u) ==
  /\ pc[s] = "idle" /\ ~running
  /\ status' = [status EXCEPT ![s] = "running"] /\ owner' = [owner EXCEPT ![s] = u]
  /\ running' = TRUE /\ cancels' = cancels \cup {s}
  /\ pc' = [pc EXCEPT ![s] = "between"]
  /\ wants' \in {[wants EXCEPT ![s] = w] : w \in Presets}
  /\ UNCHANGED <<shown, result, stopping, at, account, diagnosisVars>>

-----------------------------------------------------------------------------
(* service.Run: stageRecorder and StagesUpdated.  Only the pipeline writes its
   record, so a change and its publication are one step. *)

Wanted(s, k) ==
  /\ k \in {Evidence, LLM} => k \in wants[s]
  /\ k = LLM => IncidentsOf[s] # {}
  /\ k # Write                       \* buildScanOptions: no local copy
  /\ k = Archive => Archiving

Publish(s, k, how) ==
  /\ account' = [account EXCEPT ![s][k] = how]
  /\ shown' = [shown EXCEPT ![s] = account'[s]]

StageStart(s) ==
  /\ pc[s] = "between" /\ at[s] \in Stage /\ Wanted(s, at[s])
  /\ Publish(s, at[s], "running")
  /\ pc' = [pc EXCEPT ![s] = "inside"]
  /\ IF at[s] = LLM THEN FanOut(s) ELSE UNCHANGED diagnosisVars
  /\ UNCHANGED <<status, owner, result, running, cancels, stopping, at, wants>>

(* No archive is wired: not even a record. *)
StageSkip(s) ==
  /\ pc[s] = "between" /\ at[s] \in Stage /\ ~Wanted(s, at[s])
  /\ IF at[s] = Archive THEN UNCHANGED <<account, shown>> ELSE Publish(s, at[s], "skipped")
  /\ at' = [at EXCEPT ![s] = @ + 1]
  /\ UNCHANGED <<status, owner, result, running, cancels, stopping, pc, wants, diagnosisVars>>

(* What a stage leaves behind when it ends well. *)
StageEffect(s) ==
  CASE at[s] = Deterministic -> Recognize(s)
    [] at[s] = LLM -> Joined(s) /\ ctx[s] # "cancelled" /\ Fill(s)
    [] at[s] = Validate -> Merge(s, Wanted(s, LLM))
    [] OTHER -> UNCHANGED diagnosisVars

(* A degraded diagnosis and a failed archive are marked; the scan goes on. *)
StageDone(s) ==
  /\ pc[s] = "inside" /\ StageEffect(s)
  /\ Publish(s, at[s], IF at[s] = LLM /\ tally[s].failed > 0 THEN "failed" ELSE "done")
  /\ at' = [at EXCEPT ![s] = @ + 1] /\ pc' = [pc EXCEPT ![s] = "between"]
  /\ UNCHANGED <<status, owner, result, running, cancels, stopping, wants>>

ArchiveFails(s) ==
  /\ pc[s] = "inside" /\ at[s] = Archive
  /\ Publish(s, Archive, "failed")
  /\ at' = [at EXCEPT ![s] = @ + 1] /\ pc' = [pc EXCEPT ![s] = "between"]
  /\ UNCHANGED <<status, owner, result, running, cancels, stopping, wants, diagnosisVars>>

Fails(s) ==
  \/ at[s] \in {Connect, Collect}
  \/ at[s] = Evidence /\ ctx[s] # "open"
  \/ at[s] = LLM /\ Joined(s) /\ ctx[s] = "cancelled"

StageLost(s) ==
  /\ pc[s] = "inside" /\ Fails(s)
  /\ pc' = [pc EXCEPT ![s] = "failed"]
  /\ UNCHANGED <<jobVars, at, wants, account, diagnosisVars>>

(* The errors that end the scan. *)
StageFails(s) ==
  /\ pc[s] = "inside" /\ Fails(s)
  /\ Publish(s, at[s], "failed")
  /\ pc' = [pc EXCEPT ![s] = "failed"]
  /\ UNCHANGED <<status, owner, result, running, cancels, stopping, at, wants, diagnosisVars>>

Return(s) ==
  /\ pc[s] = "between" /\ at[s] = 14
  /\ pc' = [pc EXCEPT ![s] = "returned"]
  /\ UNCHANGED <<jobVars, at, wants, account, diagnosisVars>>

-----------------------------------------------------------------------------
(* runJob after Run: two critical sections and the deferred third. *)

JobEndsOver(s) ==
  /\ pc[s] \in {"returned", "failed"}
  /\ running' = FALSE
  /\ status' = [status EXCEPT ![s] = IF pc[s] = "failed" THEN "failed" ELSE "succeeded"]
  /\ result' = IF pc[s] = "returned" THEN result \cup {s} ELSE result
  /\ pc' = [pc EXCEPT ![s] = IF pc[s] = "returned" THEN "noting" ELSE "clearing"]
  /\ Forget(s)
  /\ UNCHANGED <<owner, shown, cancels, stopping, at, wants, account, ctx>>

JobEnds(s) ==
  /\ pc[s] \in {"returned", "failed"}
  /\ running' = FALSE
  /\ status' = [status EXCEPT ![s] = IF @ = "cancelled" THEN @
                                     ELSE IF pc[s] = "failed" THEN "failed" ELSE "succeeded"]
  /\ result' = IF status'[s] = "succeeded" THEN result \cup {s} ELSE result
  /\ pc' = [pc EXCEPT ![s] = IF pc[s] = "returned" THEN "noting" ELSE "clearing"]
  /\ Forget(s)
  /\ UNCHANGED <<owner, shown, cancels, stopping, at, wants, account, ctx>>

(* setScanStages *)
JobNotes(s) ==
  /\ pc[s] = "noting"
  /\ shown' = [shown EXCEPT ![s] = account[s]]
  /\ pc' = [pc EXCEPT ![s] = "clearing"]
  /\ UNCHANGED <<status, owner, result, running, cancels, stopping, at, wants, account,
                 diagnosisVars>>

(* clearScanCancel; the deferred cancel ends the context if nothing else has. *)
JobClears(s) ==
  /\ pc[s] = "clearing"
  /\ cancels' = cancels \ {s}
  /\ account' = [account EXCEPT ![s] = NothingYet]
  /\ wants' = [wants EXCEPT ![s] = {}]
  /\ ctx' = [ctx EXCEPT ![s] = "cancelled"]
  /\ pc' = [pc EXCEPT ![s] = "over"]
  /\ UNCHANGED <<status, owner, shown, result, running, stopping, at, known, worker, answer,
                 tally, final>>

-----------------------------------------------------------------------------
(* handleCancelScan *)

Frozen(stages) == [k \in Stage |-> IF stages[k] = "running" THEN "stopped" ELSE stages[k]]

CancelAdmitting(s, u) ==
  /\ status[s] = "running" /\ u \in {owner[s]} \cup Admins
  /\ status' = [status EXCEPT ![s] = "cancelled"]
  /\ shown' = [shown EXCEPT ![s] = Frozen(@)]
  /\ stopping' = IF s \in cancels THEN stopping \cup {s} ELSE stopping
  /\ running' = FALSE
  /\ UNCHANGED <<owner, result, cancels, pipeVars, diagnosisVars>>

CancelScan(s, u) ==
  /\ status[s] = "running" /\ u \in {owner[s]} \cup Admins
  /\ status' = [status EXCEPT ![s] = "cancelled"]
  /\ shown' = [shown EXCEPT ![s] = Frozen(@)]
  /\ stopping' = IF s \in cancels THEN stopping \cup {s} ELSE stopping
  /\ UNCHANGED <<owner, result, running, cancels, pipeVars, diagnosisVars>>

StopContext(s) ==
  /\ s \in stopping
  /\ stopping' = stopping \ {s}
  /\ EndContext(s, "cancelled")
  /\ UNCHANGED <<status, owner, shown, result, running, cancels, pipeVars, known, worker,
                 answer, tally, final>>

(* The preset's limit, which is positive. *)
Expire(s) ==
  /\ InRun(s) /\ ctx[s] = "open"
  /\ EndContext(s, "expired")
  /\ UNCHANGED <<jobVars, pipeVars, known, worker, answer, tally, final>>

-----------------------------------------------------------------------------
LLMWork(s) == WorkerStep(s) /\ UNCHANGED <<jobVars, pipeVars>>

JobStep(s) ==
  \/ StageStart(s) \/ StageSkip(s) \/ StageDone(s) \/ ArchiveFails(s) \/ StageFails(s)
  \/ Return(s) \/ JobEnds(s) \/ JobNotes(s) \/ JobClears(s) \/ LLMWork(s)

Next ==
  \/ \E s \in Scans, u \in Users : CreateScan(s, u) \/ CancelScan(s, u)
  \/ \E s \in Scans : JobStep(s) \/ StopContext(s) \/ Expire(s)

Spec == Init /\ [][Next]_vars

(* Some goroutine that can go on does (a job has finitely many steps, so none
   waits for ever): stages and calls return, by themselves or as the context
   they use ends.  Nobody has to cancel. *)
FairSpec == Spec /\ WF_vars(\E s \in Scans : JobStep(s))

-----------------------------------------------------------------------------
(* One scan collects from the cluster at a time, and the flag that refuses
   the next one is set exactly as long: a cancel does not admit a second scan
   while the first still winds down, and no end is missed or counted twice. *)
OneScanAtATime ==
  /\ running <=> \E s \in Scans : InRun(s)
  /\ \A s, q \in Scans : InRun(s) /\ InRun(q) => s = q

(* A job that can still be cancelled has its cancel function registered. *)
CancelReachesTheJob == \A s \in Scans : status[s] = "running" => s \in cancels /\ InRun(s)

(* A final status is final: the end of the job does not overwrite a cancel,
   nor a late cancel an end. *)
FinalStatusStays ==
  [][\A s \in Scans : status[s] \in {"cancelled", "failed", "succeeded"} =>
       status'[s] = status[s]]_vars

(* Only a job that ended well, and was not cancelled before, has a result. *)
ResultIsOfSuccess == \A s \in Scans : s \in result <=> status[s] = "succeeded"

(* Whatever stage snapshots and freezes overtook each other: a job whose
   goroutine has left the pipeline shows no stage that still runs. *)
NothingRunsForEver ==
  \A s \in Scans : ~InRun(s) => \A k \in Stage : shown[s][k] # "running"

(* The account of the diagnosis balances at every moment, and when the report
   is put together every incident has its conclusion. *)
DiagnosisIsAccounted ==
  \A s \in Scans : /\ AccountBalances(s)
                   /\ Cardinality(Calling(s)) <= MaxConcurrent
                   /\ at[s] = Validate /\ LLM \in wants[s] =>
                        \A i \in IncidentsOf[s] : answer[s][i] # None

ReportIsHonest == \A s \in Scans : ConfirmedIsProven(s) /\ ConfirmedIsKept(s)

(* A cause the program confirmed on evidence is reported as confirmed: the
   model explains it and never lowers it.
   The code does not keep this (README, section 4). *)
ConfirmedIsNeverLowered ==
  \A s \in Scans : \A i \in Incidents :
    final[s][i] # None /\ known[s][i].root = "confirmed" /\ known[s][i].cited
      => final[s][i].root = "confirmed"

(* Every job ends and lets the next one in, cancelled or not. *)
EveryJobEnds == \A s \in Scans : pc[s] = "between" ~> pc[s] = "over"
=============================================================================
