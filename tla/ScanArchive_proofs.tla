-------------------------- MODULE ScanArchive_proofs --------------------------
(***************************************************************************)
(* Proofs about the scan jobs, for any jobs, users and incidents: types, the *)
(* life cycle of a job, the stages it shows, the honesty of its report; and *)
(* about their composition with the gateway, which is still a server of     *)
(* scan jobs and checks the backend once at a time.                         *)
(***************************************************************************)
EXTENDS ScanArchive, FiniteSetTheorems, TLAPS

(* A job in the pipeline is running or was cancelled; one not yet created has
   no status. *)
StatusFollows ==
  \A s \in Scans : /\ InRun(s) => status[s] \in {"running", "cancelled"}
                   /\ pc[s] = "idle" => status[s] = "none"

(* Only the stage the pipeline is inside of runs in its own record, and what
   is shown as running does run there. *)
StagesSettle ==
  \A s \in Scans : \A k \in Stage :
    /\ account[s][k] = "running" => pc[s] = "inside" /\ k = at[s]
    /\ shown[s][k] = "running" => account[s][k] = "running"

Lifecycle ==
  /\ OneScanAtATime /\ CancelReachesTheJob /\ ResultIsOfSuccess
  /\ StatusFollows /\ StagesSettle

(* Before the program has its conclusions nobody was asked; before the merge
   there is no report. *)
InOrder(s) ==
  /\ at[s] <= Deterministic => answer[s] = Unknown /\ worker[s] = AllAre("idle")
  /\ at[s] <= Validate => final[s] = Unknown

(* What a goroutine leaves is the model's accepted word, or the program's own
   conclusion if there is one; the model's word never says confirmed. *)
AnswerIsFounded(s) ==
  \A i \in Incidents : answer[s][i] # None =>
    /\ answer[s][i].used => answer[s][i].root # "confirmed"
    /\ \/ answer[s][i].used /\ answer[s][i].passed
       \/ known[s][i] = None /\ answer[s][i].root # "confirmed"
       \/ known[s][i] # None /\ answer[s][i] = [known[s][i] EXCEPT !.passed = answer[s][i].passed]

(* The program's own conclusions are not the model's. *)
KnownIsOwn(s) == \A i \in Incidents : ~known[s][i].used

Founded == \A s \in Scans : InOrder(s) /\ AnswerIsFounded(s) /\ KnownIsOwn(s)

-----------------------------------------------------------------------------
(* Types. *)

LEMMA ConclusionFacts ==
  /\ None \notin Conclusion /\ Degraded \in Conclusion
  /\ \A d \in Conclusion : /\ \A b \in BOOLEAN : [d EXCEPT !.passed = b] \in Conclusion
                           /\ \A r \in {"confirmed", "probable"} :
                                [d EXCEPT !.root = r] \in Conclusion
  /\ Unknown \in Conclusions
  BY DEF None, Degraded, Conclusion, Conclusions, Unknown

LEMMA KeptTyped ==
  ASSUME DiagnosisTypeOK, NEW s \in Scans, NEW i \in Incidents, NEW d \in Conclusion
  PROVE  Kept(s, i, d) \in Conclusion
<1>1. known[s][i] \in Conclusion \cup {None}
  BY DEF DiagnosisTypeOK, Conclusions
<1>2. d.passed \in BOOLEAN
  BY DEF Conclusion
<1> QED
  BY <1>1, <1>2, ConclusionFacts DEF Kept

LEMMA BookedTyped ==
  ASSUME NEW t \in Account, NEW d, NEW k
  PROVE  Booked(t, d, k) \in Account
<1> DEFINE a == IF d.used /\ d.passed THEN 1 ELSE 0
           b == IF d.used /\ d.passed THEN 0 ELSE 1
           c == IF k.used THEN 0 ELSE 1
<1>1. a \in Nat /\ b \in Nat /\ c \in Nat
  OBVIOUS
<1>2. [t EXCEPT !.succeeded = @ + a, !.explained = @ + b, !.degraded = @ + c] \in Account
  <2> HIDE DEF a, b, c
  <2>1. t.succeeded + a \in Nat /\ t.explained + b \in Nat /\ t.degraded + c \in Nat
    BY <1>1 DEF Account
  <2> QED
    BY <2>1 DEF Account
<1> QED
  BY <1>2 DEF Booked

LEMMA MergedTyped ==
  ASSUME DiagnosisTypeOK, NEW s \in Scans, NEW i \in Incidents, NEW asked
  PROVE  Merged(s, i, asked) \in Conclusion \cup {None}
<1> DEFINE d == answer[s][i]
           k == known[s][i]
<1>1. d \in Conclusion \cup {None} /\ k \in Conclusion \cup {None}
  BY DEF DiagnosisTypeOK, Conclusions
<1>2. \A c \in Conclusion : Enforced(c) \in Conclusion /\ Hybrid(c, k) \in Conclusion
  BY ConclusionFacts DEF Enforced, Hybrid
<1> QED
  BY <1>1, <1>2 DEF Merged

LEMMA ConcludeTyped ==
  ASSUME DiagnosisTypeOK, NEW s \in Scans, NEW i \in Incidents, NEW d \in Conclusion,
         NEW t \in Account, Conclude(s, i, d, t)
  PROVE  DiagnosisTypeOK'
<1>1. Kept(s, i, d) \in Conclusion
  BY KeptTyped
<1>2. Booked(t, d, Kept(s, i, d)) \in Account
  BY BookedTyped
<1>3. answer' \in [Scans -> Conclusions]
  BY <1>1 DEF Conclude, DiagnosisTypeOK, Conclusions
<1>4. tally' \in [Scans -> Account]
  BY <1>2 DEF Conclude, DiagnosisTypeOK
<1> QED
  BY <1>3, <1>4 DEF Conclude, DiagnosisTypeOK

LEMMA WorkerTyped ==
  ASSUME DiagnosisTypeOK, NEW s \in Scans, WorkerStep(s)
  PROVE  DiagnosisTypeOK'
<1> PICK i \in Incidents :
      \/ Acquire(s, i) \/ LeaveQueue(s, i) \/ CallFails(s, i) \/ AskAgain(s, i)
      \/ AnswerIsUseless(s, i) \/ AnswerIsRead(s, i)
  BY DEF WorkerStep
<1> DEFINE more == [tally[s] EXCEPT !.calls = @ + 1]
<1>1. tally[s] \in Account /\ [tally[s] EXCEPT !.failed = @ + 1] \in Account
      /\ more \in Account
  <2>1. tally[s] \in Account
    BY DEF DiagnosisTypeOK
  <2>2. tally[s].failed + 1 \in Nat /\ tally[s].calls + 1 \in Nat
    BY <2>1 DEF Account
  <2> QED
    BY <2>1, <2>2 DEF Account
<1>2. CASE Acquire(s, i) \/ AskAgain(s, i)
  <2>1. tally' = [tally EXCEPT ![s] = more]
    BY <1>2 DEF Acquire, AskAgain, DiagnosisTypeOK
  <2> HIDE DEF more
  <2>2. tally' \in [Scans -> Account]
    BY <1>1, <2>1 DEF DiagnosisTypeOK
  <2>3. worker' \in [Scans -> [Incidents -> {"idle", "queued", "asked", "asked again",
                                             "done", "empty"}]]
    <3> PICK x \in {"asked", "asked again"} : worker' = [worker EXCEPT ![s][i] = x]
      BY <1>2 DEF Acquire, AskAgain
    <3> QED
      BY DEF DiagnosisTypeOK
  <2> QED
    BY <1>2, <2>2, <2>3 DEF Acquire, AskAgain, DiagnosisTypeOK
<1>3. CASE LeaveQueue(s, i)
  BY <1>3 DEF LeaveQueue, DiagnosisTypeOK
<1>4. CASE CallFails(s, i)
  BY <1>1, <1>4, ConcludeTyped, ConclusionFacts DEF CallFails
<1>5. CASE AnswerIsUseless(s, i)
  BY <1>1, <1>5, ConcludeTyped, ConclusionFacts DEF AnswerIsUseless
<1>6. CASE AnswerIsRead(s, i)
  <2> PICK passed \in BOOLEAN, cited \in BOOLEAN, root \in {"probable", "unknown"} :
        Conclude(s, i, [used |-> TRUE, passed |-> passed, cited |-> cited, root |-> root],
                 tally[s])
    BY <1>6 DEF AnswerIsRead
  <2>1. [used |-> TRUE, passed |-> passed, cited |-> cited, root |-> root] \in Conclusion
    BY DEF Conclusion
  <2> QED
    BY <1>1, <2>1, ConcludeTyped
<1> QED
  BY <1>2, <1>3, <1>4, <1>5, <1>6

LEMMA RecognizeTyped ==
  ASSUME DiagnosisTypeOK, NEW s \in Scans, Recognize(s)
  PROVE  DiagnosisTypeOK'
<1> PICK f \in Findings :
      known' = [known EXCEPT ![s] = [i \in Incidents |->
                  IF i \in IncidentsOf[s] THEN f[i] ELSE None]]
  BY DEF Recognize
<1>1. [i \in Incidents |-> IF i \in IncidentsOf[s] THEN f[i] ELSE None] \in Conclusions
  BY DiagnosisAssumption DEF Conclusions
<1> QED
  BY <1>1 DEF Recognize, DiagnosisTypeOK

LEMMA FillTyped ==
  ASSUME DiagnosisTypeOK, NEW s \in Scans, Fill(s)
  PROVE  DiagnosisTypeOK'
<1>1. IsFiniteSet(Left(s)) /\ Cardinality(Left(s)) \in Nat
  BY FS_Subset, FS_CardinalityType, DiagnosisAssumption DEF Left
<1> DEFINE more == [tally[s] EXCEPT !.explained = @ + Cardinality(Left(s)),
                                    !.degraded = @ + Cardinality(Left(s))]
<1>2. tally' \in [Scans -> Account]
  <2>1. tally[s] \in Account
    BY DEF DiagnosisTypeOK
  <2>2. tally[s].explained + Cardinality(Left(s)) \in Nat
        /\ tally[s].degraded + Cardinality(Left(s)) \in Nat
    BY <1>1, <2>1 DEF Account
  <2>3. more \in Account
    BY <2>1, <2>2 DEF Account
  <2>4. tally' = [tally EXCEPT ![s] = more]
    BY DEF Fill, DiagnosisTypeOK
  <2> HIDE DEF more
  <2> QED
    BY <2>3, <2>4 DEF DiagnosisTypeOK
<1>3. \A i \in Incidents : Kept(s, i, Degraded) \in Conclusion
  BY KeptTyped, ConclusionFacts
<1>4. answer' \in [Scans -> Conclusions]
  BY <1>3 DEF Fill, DiagnosisTypeOK, Conclusions
<1> QED
  BY <1>2, <1>4 DEF Fill, DiagnosisTypeOK

LEMMA MergeTyped ==
  ASSUME DiagnosisTypeOK, NEW s \in Scans, NEW asked, Merge(s, asked)
  PROVE  DiagnosisTypeOK'
<1>1. [i \in Incidents |-> Merged(s, i, asked)] \in Conclusions
  BY MergedTyped DEF Conclusions
<1> QED
  BY <1>1, ConclusionFacts DEF Merge, DiagnosisTypeOK, AllAre, NoAccount, Account

LEMMA ForgetTyped ==
  ASSUME DiagnosisTypeOK, NEW s \in Scans, Forget(s), UNCHANGED ctx
  PROVE  DiagnosisTypeOK'
  BY ConclusionFacts DEF Forget, DiagnosisTypeOK, AllAre, NoAccount, Account

LEMMA StageEffectTyped ==
  ASSUME DiagnosisTypeOK, NEW s \in Scans, StageEffect(s)
  PROVE  DiagnosisTypeOK'
<1>1. \/ Recognize(s) \/ Fill(s) \/ Merge(s, Wanted(s, LLM)) \/ UNCHANGED diagnosisVars
  BY DEF StageEffect, Deterministic, LLM, Validate
<1>2. UNCHANGED diagnosisVars => DiagnosisTypeOK'
  BY DEF diagnosisVars, DiagnosisTypeOK
<1> QED
  BY <1>1, <1>2, RecognizeTyped, FillTyped, MergeTyped

LEMMA PublishTyped ==
  ASSUME TypeOK, NEW s \in Scans, NEW k \in Stage,
         NEW how \in {"absent", "running", "done", "failed", "stopped", "skipped"},
         Publish(s, k, how)
  PROVE  /\ account' \in [Scans -> Record] /\ shown' \in [Scans -> Record]
         /\ account'[s] = [account[s] EXCEPT ![k] = how] /\ shown'[s] = account'[s]
         /\ \A q \in Scans \ {s} : account'[q] = account[q] /\ shown'[q] = shown[q]
<1>1. account[s] \in Record
  BY DEF TypeOK
<1>2. [account[s] EXCEPT ![k] = how] \in Record
  BY <1>1 DEF Record
<1>3. account' = [account EXCEPT ![s] = [account[s] EXCEPT ![k] = how]]
  BY DEF Publish
<1> QED
  BY <1>2, <1>3 DEF Publish, TypeOK

LEMMA StageFacts ==
  /\ {Connect, Collect, Evidence, Deterministic, LLM, Validate, Write, Archive} \subseteq Stage
  /\ \A k \in Stage : k \in 1..14 /\ k + 1 \in 1..14
  BY DEF Connect, Collect, Evidence, Deterministic, LLM, Validate, Write, Archive, Stage

(* A goroutine inside a stage is inside one there is. *)
Inside == \A s \in Scans : pc[s] = "inside" => at[s] \in Stage

(* Which stage a goroutine is at changes only as it enters and leaves one. *)
LEMMA InsideKept ==
  ASSUME TypeOK, Inside, [Next]_vars
  PROVE  Inside'
<1> USE DEF TypeOK, Inside
<1>1. ASSUME NEW s \in Scans, NEW u \in Users, CreateScan(s, u) \/ CancelScan(s, u)
      PROVE  Inside'
  BY <1>1 DEF CreateScan, CancelScan, pipeVars
<1>2. ASSUME NEW s \in Scans,
             StageStart(s) \/ StageSkip(s) \/ StageDone(s) \/ ArchiveFails(s)
      PROVE  Inside'
  BY <1>2 DEF StageStart, StageSkip, StageDone, ArchiveFails
<1>3. ASSUME NEW s \in Scans,
             \/ StageFails(s) \/ Return(s) \/ JobEnds(s) \/ JobNotes(s) \/ JobClears(s)
             \/ LLMWork(s) \/ StopContext(s) \/ Expire(s)
      PROVE  Inside'
  BY <1>3 DEF StageFails, Return, JobEnds, JobNotes, JobClears, LLMWork, StopContext, Expire,
     pipeVars
<1>4. UNCHANGED vars => Inside'
  BY DEF vars, pipeVars
<1> QED
  BY <1>1, <1>2, <1>3, <1>4 DEF Next, JobStep

(* Every variable keeps its shape, whatever the users and the cluster do. *)
THEOREM Typed == Spec => []TypeOK
<1> DEFINE Shape == TypeOK /\ Inside
<1>1. Init => Shape
  <2> SUFFICES ASSUME Init PROVE Shape
    OBVIOUS
  <2>1. NoAccount \in Account /\ NothingYet \in Record
    BY DEF NoAccount, Account, NothingYet, Record
  <2>2. AllAre("idle") \in [Incidents -> {"idle", "queued", "asked", "asked again",
                                         "done", "empty"}]
    BY DEF AllAre
  <2>3. DiagnosisTypeOK
    BY <2>1, <2>2, ConclusionFacts DEF Init, DiagnosisInit, DiagnosisTypeOK
  <2>4. TypeOK
    <3>1. 1 \in 1..14
      OBVIOUS
    <3>2. status \in [Scans -> {"none", "running", "cancelled", "failed", "succeeded"}]
          /\ owner \in [Scans -> Users \cup {Nobody}]
      BY DEF Init
    <3>3. shown \in [Scans -> Record] /\ account \in [Scans -> Record]
      BY <2>1 DEF Init
    <3>4. at \in [Scans -> 1..14] /\ wants \in [Scans -> SUBSET {Evidence, LLM}]
      BY <3>1 DEF Init
    <3> QED
      BY <2>3, <3>2, <3>3, <3>4 DEF Init, TypeOK
  <2>5. Inside
    BY DEF Init, Inside
  <2> QED
    BY <2>4, <2>5
<1>2. TypeOK /\ Inside /\ [Next]_vars => TypeOK'
  <2> SUFFICES ASSUME TypeOK, Inside, [Next]_vars PROVE TypeOK'
    OBVIOUS
  <2>a. UNCHANGED diagnosisVars => DiagnosisTypeOK'
    BY DEF diagnosisVars, TypeOK, DiagnosisTypeOK
  <2>1. ASSUME NEW s \in Scans, NEW u \in Users, CreateScan(s, u) PROVE TypeOK'
    <3>1. wants' \in [Scans -> SUBSET {Evidence, LLM}]
      BY <2>1, JobsAssumption DEF CreateScan, TypeOK
    <3> QED
      BY <2>1, <2>a, <3>1 DEF CreateScan, TypeOK
  <2>2. ASSUME NEW s \in Scans, NEW u \in Users, CancelScan(s, u) PROVE TypeOK'
    <3>1. Frozen(shown[s]) \in Record
      BY DEF Frozen, TypeOK, Record
    <3> QED
      BY <2>2, <2>a, <3>1 DEF CancelScan, TypeOK, pipeVars
  <2>3. ASSUME NEW s \in Scans, StageStart(s) PROVE TypeOK'
    <3>1. DiagnosisTypeOK'
      <4>1. ASSUME FanOut(s) PROVE DiagnosisTypeOK'
        <5>1. [i \in Incidents |-> IF i \in IncidentsOf[s] THEN "queued" ELSE "idle"]
                \in [Incidents -> {"idle", "queued", "asked", "asked again", "done", "empty"}]
          OBVIOUS
        <5> QED
          BY <4>1, <5>1 DEF FanOut, TypeOK, DiagnosisTypeOK
      <4> QED
        BY <2>3, <2>a, <4>1 DEF StageStart
    <3>2. account' \in [Scans -> Record] /\ shown' \in [Scans -> Record]
      BY <2>3, PublishTyped DEF StageStart
    <3> QED
      BY <2>3, <3>1, <3>2 DEF StageStart, TypeOK
  <2>4. ASSUME NEW s \in Scans, StageSkip(s) PROVE TypeOK'
    <3>1. account' \in [Scans -> Record] /\ shown' \in [Scans -> Record]
      <4>1. CASE at[s] = Archive
        BY <2>4, <4>1 DEF StageSkip, TypeOK
      <4>2. CASE at[s] # Archive
        BY <2>4, <4>2, PublishTyped DEF StageSkip
      <4> QED
        BY <4>1, <4>2
    <3>2. at' \in [Scans -> 1..14]
      BY <2>4, StageFacts DEF StageSkip, TypeOK
    <3> QED
      BY <2>4, <2>a, <3>1, <3>2 DEF StageSkip, TypeOK
  <2>5. ASSUME NEW s \in Scans, StageDone(s) PROVE TypeOK'
    <3> DEFINE how == IF at[s] = LLM /\ tally[s].failed > 0 THEN "failed" ELSE "done"
    <3>1. at[s] \in Stage
      BY <2>5 DEF StageDone, Inside
    <3>2. how \in {"done", "failed"} /\ Publish(s, at[s], how)
      BY <2>5 DEF StageDone
    <3> HIDE DEF how
    <3>3. account' \in [Scans -> Record] /\ shown' \in [Scans -> Record]
      BY <3>1, <3>2, PublishTyped
    <3>4. DiagnosisTypeOK'
      BY <2>5, StageEffectTyped DEF StageDone, TypeOK
    <3>5. at' \in [Scans -> 1..14]
      BY <2>5, <3>1, StageFacts DEF StageDone, TypeOK
    <3> QED
      BY <2>5, <3>3, <3>4, <3>5 DEF StageDone, TypeOK
  <2>6. ASSUME NEW s \in Scans, ArchiveFails(s) PROVE TypeOK'
    <3>1. account' \in [Scans -> Record] /\ shown' \in [Scans -> Record]
      BY <2>6, StageFacts, PublishTyped DEF ArchiveFails
    <3>2. at' \in [Scans -> 1..14]
      BY <2>6, StageFacts DEF ArchiveFails, TypeOK
    <3> QED
      BY <2>6, <2>a, <3>1, <3>2 DEF ArchiveFails, TypeOK
  <2>7. ASSUME NEW s \in Scans, StageFails(s) PROVE TypeOK'
    <3>1. at[s] \in Stage
      BY <2>7, StageFacts DEF StageFails, Fails
    <3>2. account' \in [Scans -> Record] /\ shown' \in [Scans -> Record]
      BY <2>7, <3>1, PublishTyped DEF StageFails
    <3> QED
      BY <2>7, <2>a, <3>2 DEF StageFails, TypeOK
  <2>8. ASSUME NEW s \in Scans, Return(s) PROVE TypeOK'
    BY <2>8, <2>a DEF Return, TypeOK, jobVars
  <2>9. ASSUME NEW s \in Scans, JobEnds(s) PROVE TypeOK'
    <3>1. DiagnosisTypeOK'
      BY <2>9, ForgetTyped DEF JobEnds, TypeOK
    <3> QED
      BY <2>9, <3>1 DEF JobEnds, TypeOK
  <2>10. ASSUME NEW s \in Scans, JobNotes(s) PROVE TypeOK'
    BY <2>10, <2>a DEF JobNotes, TypeOK
  <2>11. ASSUME NEW s \in Scans, JobClears(s) PROVE TypeOK'
    <3>1. NothingYet \in Record
      BY DEF NothingYet, Record
    <3> QED
      BY <2>11, <3>1 DEF JobClears, TypeOK, DiagnosisTypeOK
  <2>12. ASSUME NEW s \in Scans, LLMWork(s) PROVE TypeOK'
    BY <2>12, WorkerTyped DEF LLMWork, TypeOK, jobVars, pipeVars
  <2>13. ASSUME NEW s \in Scans, StopContext(s) PROVE TypeOK'
    BY <2>13 DEF StopContext, EndContext, TypeOK, DiagnosisTypeOK, pipeVars
  <2>14. ASSUME NEW s \in Scans, Expire(s) PROVE TypeOK'
    BY <2>14 DEF Expire, EndContext, TypeOK, DiagnosisTypeOK, jobVars, pipeVars
  <2>15. UNCHANGED vars => TypeOK'
    BY <2>a DEF vars, TypeOK, jobVars, pipeVars
  <2> QED
    BY <2>1, <2>2, <2>3, <2>4, <2>5, <2>6, <2>7, <2>8, <2>9, <2>10, <2>11, <2>12, <2>13,
       <2>14, <2>15 DEF Next, JobStep
<1>3. TypeOK /\ Inside /\ [Next]_vars => Inside'
  BY InsideKept
<1>4. Shape /\ [Next]_vars => Shape'
  BY <1>2, <1>3
<1>5. Shape => TypeOK
  OBVIOUS
<1> HIDE DEF Shape
<1> QED
  BY <1>1, <1>4, <1>5, PTL DEF Spec

-----------------------------------------------------------------------------
(* The life cycle of a job. *)

LEMMA LifecycleKept ==
  ASSUME TypeOK, Lifecycle, [Next]_vars
  PROVE  /\ (OneScanAtATime /\ CancelReachesTheJob /\ ResultIsOfSuccess /\ StatusFollows)'
         /\ \A s \in Scans :
              status[s] \in {"cancelled", "failed", "succeeded"} => status'[s] = status[s]
<1> DEFINE Goal == /\ (OneScanAtATime /\ CancelReachesTheJob /\ ResultIsOfSuccess
                         /\ StatusFollows)'
                   /\ \A s \in Scans :
                        status[s] \in {"cancelled", "failed", "succeeded"} =>
                          status'[s] = status[s]
<1> USE DEF TypeOK, Lifecycle, OneScanAtATime, CancelReachesTheJob, ResultIsOfSuccess,
            StatusFollows, InRun
<1>1. ASSUME NEW s \in Scans, NEW u \in Users, CreateScan(s, u) PROVE Goal
  BY <1>1 DEF CreateScan
<1>2. ASSUME NEW s \in Scans, NEW u \in Users, CancelScan(s, u) PROVE Goal
  BY <1>2 DEF CancelScan, pipeVars
<1>3. ASSUME NEW s \in Scans,
             StageStart(s) \/ StageSkip(s) \/ StageDone(s) \/ ArchiveFails(s) \/ StageFails(s)
      PROVE  Goal
  BY <1>3 DEF StageStart, StageSkip, StageDone, ArchiveFails, StageFails
<1>4. ASSUME NEW s \in Scans, Return(s) PROVE Goal
  BY <1>4 DEF Return, jobVars
<1>5. ASSUME NEW s \in Scans, JobEnds(s) PROVE Goal
  BY <1>5 DEF JobEnds
<1>6. ASSUME NEW s \in Scans, JobNotes(s) \/ JobClears(s) PROVE Goal
  BY <1>6 DEF JobNotes, JobClears
<1>7. ASSUME NEW s \in Scans, LLMWork(s) \/ StopContext(s) \/ Expire(s) PROVE Goal
  BY <1>7 DEF LLMWork, StopContext, Expire, jobVars, pipeVars
<1>8. UNCHANGED vars => Goal
  BY DEF vars, jobVars, pipeVars
<1> QED
  BY <1>1, <1>2, <1>3, <1>4, <1>5, <1>6, <1>7, <1>8 DEF Next, JobStep

LEMMA Published ==
  ASSUME TypeOK, NEW s \in Scans, NEW k \in Stage,
         NEW how \in {"absent", "running", "done", "failed", "stopped", "skipped"},
         Publish(s, k, how)
  PROVE  \A q \in Scans : \A j \in Stage :
           /\ account'[q][j] = IF q = s /\ j = k THEN how ELSE account[q][j]
           /\ shown'[q][j] = IF q = s THEN account'[s][j] ELSE shown[q][j]
<1>1. account[s] \in Record
  BY DEF TypeOK
<1>2. account' = [account EXCEPT ![s] = [account[s] EXCEPT ![k] = how]]
      /\ shown' = [shown EXCEPT ![s] = account'[s]]
  BY DEF Publish
<1>3. \A j \in Stage : account'[s][j] = IF j = k THEN how ELSE account[s][j]
  BY <1>1, <1>2 DEF Record, TypeOK
<1> QED
  BY <1>2, <1>3 DEF TypeOK

(* A published change settles the stages unless it starts a stage the
   goroutine is not inside of. *)
LEMMA PublishSettles ==
  ASSUME TypeOK, StagesSettle, NEW s \in Scans, NEW k \in Stage,
         NEW how \in {"running", "done", "failed", "skipped"},
         Publish(s, k, how), k = at[s],
         NEW to \in {"between", "inside", "failed"}, pc' = [pc EXCEPT ![s] = to],
         how = "running" <=> to = "inside", to = "inside" => at' = at,
         \A q \in Scans \ {s} : at'[q] = at[q]
  PROVE  StagesSettle'
<1>1. \A q \in Scans : \A j \in Stage :
        /\ account'[q][j] = IF q = s /\ j = k THEN how ELSE account[q][j]
        /\ shown'[q][j] = IF q = s THEN account'[s][j] ELSE shown[q][j]
  BY Published
<1>2. pc'[s] = to /\ \A q \in Scans \ {s} : pc'[q] = pc[q]
  BY DEF TypeOK
<1>3. ASSUME NEW q \in Scans, NEW j \in Stage
      PROVE  /\ account'[q][j] = "running" => pc'[q] = "inside" /\ j = at'[q]
             /\ shown'[q][j] = "running" => account'[q][j] = "running"
  <2>1. CASE q # s
    BY <1>1, <1>2, <2>1 DEF StagesSettle
  <2>2. CASE q = s
    BY <1>1, <1>2, <2>2 DEF StagesSettle
  <2> QED
    BY <2>1, <2>2
<1> QED
  BY <1>3 DEF StagesSettle

LEMMA StagesKept ==
  ASSUME TypeOK, Inside, StagesSettle, [Next]_vars
  PROVE  StagesSettle'
<1> USE DEF TypeOK
<1>1. ASSUME NEW s \in Scans, NEW u \in Users, CreateScan(s, u) PROVE StagesSettle'
  BY <1>1 DEF CreateScan, StagesSettle
<1>2. ASSUME NEW s \in Scans, NEW u \in Users, CancelScan(s, u) PROVE StagesSettle'
  <2>1. \A k \in Stage : Frozen(shown[s])[k] # "running"
    BY DEF Frozen
  <2> QED
    BY <1>2, <2>1 DEF CancelScan, pipeVars, StagesSettle
<1>3. ASSUME NEW s \in Scans, StageStart(s) PROVE StagesSettle'
  BY <1>3, PublishSettles DEF StageStart
<1>4. ASSUME NEW s \in Scans, StageSkip(s) PROVE StagesSettle'
  <2>1. CASE at[s] = Archive
    BY <1>4, <2>1 DEF StageSkip, StagesSettle
  <2>2. CASE at[s] # Archive
    <3>1. pc' = [pc EXCEPT ![s] = "between"]
      BY <1>4 DEF StageSkip
    <3> QED
      BY <1>4, <2>2, <3>1, PublishSettles DEF StageSkip
  <2> QED
    BY <2>1, <2>2
<1>5. ASSUME NEW s \in Scans, StageDone(s) \/ ArchiveFails(s) PROVE StagesSettle'
  <2>1. PICK how \in {"done", "failed"} : Publish(s, at[s], how)
    BY <1>5 DEF StageDone, ArchiveFails
  <2>2. at[s] \in Stage /\ pc' = [pc EXCEPT ![s] = "between"]
        /\ \A q \in Scans \ {s} : at'[q] = at[q]
    BY <1>5 DEF StageDone, ArchiveFails, Inside
  <2> QED
    BY <2>1, <2>2, PublishSettles
<1>6. ASSUME NEW s \in Scans, StageFails(s) PROVE StagesSettle'
  BY <1>6, PublishSettles DEF StageFails, Inside
<1>7. ASSUME NEW s \in Scans, Return(s) \/ JobEnds(s) \/ JobNotes(s) PROVE StagesSettle'
  BY <1>7 DEF Return, JobEnds, JobNotes, jobVars, StagesSettle
<1>8. ASSUME NEW s \in Scans, JobClears(s) PROVE StagesSettle'
  <2>1. \A k \in Stage : NothingYet[k] # "running"
    BY DEF NothingYet
  <2> QED
    BY <1>8, <2>1 DEF JobClears, StagesSettle
<1>9. ASSUME NEW s \in Scans, LLMWork(s) \/ StopContext(s) \/ Expire(s) PROVE StagesSettle'
  BY <1>9 DEF LLMWork, StopContext, Expire, jobVars, pipeVars, StagesSettle
<1>10. UNCHANGED vars => StagesSettle'
  BY DEF vars, jobVars, pipeVars, StagesSettle
<1> QED
  BY <1>1, <1>2, <1>3, <1>4, <1>5, <1>6, <1>7, <1>8, <1>9, <1>10 DEF Next, JobStep

LEMMA LifecycleHolds == Spec => [](TypeOK /\ Inside /\ Lifecycle)
<1>1. Init => Inside /\ Lifecycle
  BY DEF Init, Inside, Lifecycle, OneScanAtATime, CancelReachesTheJob, ResultIsOfSuccess,
     StatusFollows, StagesSettle, InRun, NothingYet
<1>2. TypeOK /\ Inside /\ Lifecycle /\ [Next]_vars => Inside' /\ Lifecycle'
  BY InsideKept, LifecycleKept, StagesKept DEF Lifecycle
<1> QED
  BY <1>1, <1>2, Typed, PTL DEF Spec

(* However creates, cancels, ends and failures of the pipeline interleave, one
   scan at a time is in the cluster, and the flag says exactly that. *)
THEOREM OneAtATime == Spec => []OneScanAtATime
<1>1. Lifecycle => OneScanAtATime
  BY DEF Lifecycle
<1> QED
  BY <1>1, LifecycleHolds, PTL

(* The page of a job that is over shows no stage that still runs. *)
THEOREM StagesEnd == Spec => []NothingRunsForEver
<1>1. Lifecycle => NothingRunsForEver
  BY DEF Lifecycle, StagesSettle, NothingRunsForEver, InRun
<1> QED
  BY <1>1, LifecycleHolds, PTL

(* The first final status of a job is its last. *)
THEOREM FinalStays == Spec => FinalStatusStays
<1>1. TypeOK /\ Lifecycle /\ [Next]_vars =>
        [\A s \in Scans : status[s] \in {"cancelled", "failed", "succeeded"} =>
           status'[s] = status[s]]_vars
  BY LifecycleKept
<1> QED
  BY <1>1, LifecycleHolds, PTL DEF Spec, FinalStatusStays

-----------------------------------------------------------------------------
(* The honesty of the report. *)

LEMMA KeptIsFounded ==
  ASSUME DiagnosisTypeOK, NEW s \in Scans, KnownIsOwn(s), NEW i \in Incidents,
         NEW d \in Conclusion, d.root # "confirmed"
  PROVE  LET a == Kept(s, i, d) IN
           /\ a.used => a.root # "confirmed"
           /\ \/ a.used /\ a.passed
              \/ known[s][i] = None /\ a.root # "confirmed"
              \/ known[s][i] # None /\ a = [known[s][i] EXCEPT !.passed = a.passed]
<1> DEFINE k == known[s][i]
<1>1. k \in Conclusion \cup {None} /\ ~k.used
  BY DEF DiagnosisTypeOK, Conclusions, KnownIsOwn
<1>2. CASE (d.used /\ d.passed) \/ k = None
  BY <1>2 DEF Kept
<1>3. CASE ~(d.used /\ d.passed) /\ k # None
  <2>1. Kept(s, i, d) = [k EXCEPT !.passed = d.passed] /\ k \in Conclusion
    BY <1>1, <1>3 DEF Kept
  <2>2. [k EXCEPT !.passed = d.passed].used = k.used
        /\ [k EXCEPT !.passed = d.passed].passed = d.passed
    BY <2>1 DEF Conclusion
  <2> QED
    BY <1>1, <1>3, <2>1, <2>2
<1> QED
  BY <1>2, <1>3

LEMMA ConcludeFounded ==
  ASSUME DiagnosisTypeOK, NEW s \in Scans, AnswerIsFounded(s), KnownIsOwn(s),
         NEW i \in Incidents, NEW d \in Conclusion, d.root # "confirmed", NEW t,
         Conclude(s, i, d, t)
  PROVE  AnswerIsFounded(s)'
<1>1. answer'[s][i] = Kept(s, i, d)
      /\ \A j \in Incidents \ {i} : answer'[s][j] = answer[s][j]
  BY DEF Conclude, DiagnosisTypeOK, Conclusions
<1>2. UNCHANGED known
  BY DEF Conclude
<1> QED
  BY <1>1, <1>2, KeptIsFounded DEF AnswerIsFounded

LEMMA WorkerFounded ==
  ASSUME DiagnosisTypeOK, NEW s \in Scans, Founded, WorkerStep(s), UNCHANGED at
  PROVE  Founded'
<1> PICK i \in Incidents :
      \/ Acquire(s, i) \/ LeaveQueue(s, i) \/ CallFails(s, i) \/ AskAgain(s, i)
      \/ AnswerIsUseless(s, i) \/ AnswerIsRead(s, i)
  BY DEF WorkerStep
<1>1. worker[s][i] # "idle"
  BY DEF Acquire, LeaveQueue, CallFails, AskAgain, AnswerIsUseless, AnswerIsRead, Calling
<1>2. ~(at[s] <= Deterministic)
  BY <1>1 DEF Founded, InOrder, AllAre
<1>3. UNCHANGED <<known, final>>
      /\ \A q \in Scans \ {s} : answer'[q] = answer[q] /\ worker'[q] = worker[q]
  BY DEF Acquire, LeaveQueue, CallFails, AskAgain, AnswerIsUseless, AnswerIsRead, Conclude,
     DiagnosisTypeOK
<1>4. AnswerIsFounded(s)'
  <2>1. AnswerIsFounded(s) /\ KnownIsOwn(s)
    BY DEF Founded
  <2>2. CASE Acquire(s, i) \/ LeaveQueue(s, i) \/ AskAgain(s, i)
    BY <2>1, <2>2 DEF Acquire, LeaveQueue, AskAgain, AnswerIsFounded
  <2>3. CASE CallFails(s, i)
    <3>1. Degraded.root # "confirmed"
      BY DEF Degraded
    <3> QED
      BY <2>1, <2>3, <3>1, ConclusionFacts, ConcludeFounded DEF CallFails
  <2>4. CASE AnswerIsUseless(s, i)
    <3>1. Degraded.root # "confirmed"
      BY DEF Degraded
    <3> QED
      BY <2>1, <2>4, <3>1, ConclusionFacts, ConcludeFounded DEF AnswerIsUseless
  <2>5. CASE AnswerIsRead(s, i)
    <3> PICK passed \in BOOLEAN, cited \in BOOLEAN, root \in {"probable", "unknown"} :
          Conclude(s, i, [used |-> TRUE, passed |-> passed, cited |-> cited, root |-> root],
                   tally[s])
      BY <2>5 DEF AnswerIsRead
    <3> DEFINE d == [used |-> TRUE, passed |-> passed, cited |-> cited, root |-> root]
    <3>1. d \in Conclusion /\ d.root # "confirmed"
      BY DEF Conclusion
    <3>2. Conclude(s, i, d, tally[s])
      OBVIOUS
    <3> HIDE DEF d
    <3> QED
      BY <2>1, <3>1, <3>2, ConcludeFounded
  <2> QED
    BY <2>2, <2>3, <2>4, <2>5
<1>5. ASSUME NEW q \in Scans \ {s}
      PROVE  (InOrder(q) /\ AnswerIsFounded(q) /\ KnownIsOwn(q))'
  BY <1>3 DEF Founded, InOrder, AnswerIsFounded, KnownIsOwn
<1>6. (InOrder(s) /\ KnownIsOwn(s))'
  BY <1>2, <1>3 DEF Founded, InOrder, KnownIsOwn
<1> QED
  BY <1>4, <1>5, <1>6 DEF Founded

(* What the merge puts into the report. *)
LEMMA MergedIsHonest ==
  ASSUME DiagnosisTypeOK, NEW s \in Scans, AnswerIsFounded(s), NEW i \in Incidents,
         NEW asked \in BOOLEAN
  PROVE  LET m == Merged(s, i, asked)
             k == known[s][i]
         IN /\ m.root = "confirmed" => k.root = "confirmed" /\ m.cited
            /\ m # None /\ k.root = "confirmed" /\ k.cited =>
                 m.root = "confirmed" \/ (m.used /\ ~m.cited)
<1> DEFINE d == answer[s][i]
           k == known[s][i]
           m == Merged(s, i, asked)
<1>1. d \in Conclusion \cup {None} /\ k \in Conclusion \cup {None}
  BY DEF DiagnosisTypeOK, Conclusions
<1>2. ASSUME NEW c \in Conclusion
      PROVE  /\ Enforced(c).root = "confirmed" <=> c.root = "confirmed" /\ c.cited
             /\ Enforced(c).cited = c.cited /\ Enforced(c).used = c.used
  BY DEF Enforced, Conclusion
<1>3. None.root # "confirmed"
  BY DEF None
<1>4. CASE ~(asked /\ d # None)
  BY <1>1, <1>2, <1>3, <1>4 DEF Merged
<1>5. CASE asked /\ d # None /\ d.used /\ d.passed
  <2>1. d \in Conclusion /\ d.root # "confirmed"
    BY <1>1, <1>5 DEF AnswerIsFounded
  <2>2. /\ Hybrid(d, k) \in Conclusion
        /\ Hybrid(d, k).root = "confirmed" <=> k.root = "confirmed"
        /\ Hybrid(d, k).cited = d.cited /\ Hybrid(d, k).used = d.used
    BY <2>1, <1>3 DEF Hybrid, Conclusion
  <2>3. m = Enforced(Hybrid(d, k))
    BY <1>5 DEF Merged
  <2>4. m.used = d.used /\ (m.root = "confirmed" <=> k.root = "confirmed" /\ m.cited)
    <3> DEFINE h == Hybrid(d, k)
    <3>1. h \in Conclusion /\ h.used = d.used /\ (h.root = "confirmed" <=> k.root = "confirmed")
      BY <2>2
    <3>2. m = Enforced(h)
      BY <2>3
    <3> HIDE DEF h, m
    <3> QED
      BY <1>2, <3>1, <3>2
  <2> QED
    BY <1>5, <2>4
<1>6. CASE asked /\ d # None /\ ~(d.used /\ d.passed)
  <2>1. d \in Conclusion /\ m = Enforced(d)
    BY <1>1, <1>6 DEF Merged
  <2>2. CASE k = None
    BY <1>2, <1>3, <1>6, <2>1, <2>2 DEF AnswerIsFounded
  <2>3. CASE k # None
    <3>1. k \in Conclusion /\ d = [k EXCEPT !.passed = d.passed]
      BY <1>1, <1>6, <2>3 DEF AnswerIsFounded
    <3>2. d.root = k.root /\ d.cited = k.cited
      BY <3>1 DEF Conclusion
    <3> QED
      BY <1>2, <2>1, <3>2
  <2> QED
    BY <2>2, <2>3
<1> QED
  BY <1>4, <1>5, <1>6

LEMMA FoundedKept ==
  ASSUME TypeOK, Founded, [Next]_vars
  PROVE  Founded'
<1>a. Unknown \in Conclusions /\ (\A i \in Incidents : Unknown[i] = None) /\ ~None.used
  BY ConclusionFacts DEF Unknown, None
<1>b. UNCHANGED <<known, worker, answer, final, at>> => Founded'
  BY DEF Founded, InOrder, AnswerIsFounded, KnownIsOwn
<1>1. ASSUME NEW s \in Scans, NEW u \in Users, CreateScan(s, u) \/ CancelScan(s, u)
      PROVE  Founded'
  BY <1>1, <1>b DEF CreateScan, CancelScan, diagnosisVars, pipeVars
<1>2. ASSUME NEW s \in Scans, StageStart(s) PROVE Founded'
  <2>1. CASE at[s] = LLM
    <3>1. UNCHANGED <<known, answer, final, at>>
          /\ \A q \in Scans \ {s} : worker'[q] = worker[q]
      BY <1>2, <2>1 DEF StageStart, FanOut, TypeOK, DiagnosisTypeOK
    <3>2. ~(at[s] <= Deterministic)
      BY <2>1 DEF LLM, Deterministic
    <3> QED
      BY <3>1, <3>2 DEF Founded, InOrder, AnswerIsFounded, KnownIsOwn
  <2>2. CASE at[s] # LLM
    BY <1>2, <2>2, <1>b DEF StageStart, diagnosisVars
  <2> QED
    BY <2>1, <2>2
<1>c. ASSUME NEW s \in Scans, at' = [at EXCEPT ![s] = @ + 1], UNCHANGED diagnosisVars
      PROVE  Founded'
  <2>1. at[s] \in Int /\ at'[s] = at[s] + 1 /\ \A q \in Scans \ {s} : at'[q] = at[q]
    BY <1>c DEF TypeOK
  <2>2. UNCHANGED <<known, worker, answer, final>>
    BY <1>c DEF diagnosisVars
  <2>3. \A q \in Scans : InOrder(q)'
    BY <2>1, <2>2 DEF Founded, InOrder, Deterministic, Validate
  <2> QED
    BY <2>2, <2>3 DEF Founded, AnswerIsFounded, KnownIsOwn
<1>3. ASSUME NEW s \in Scans, StageSkip(s) \/ ArchiveFails(s) PROVE Founded'
  BY <1>3, <1>c DEF StageSkip, ArchiveFails
<1>4. ASSUME NEW s \in Scans, StageDone(s) PROVE Founded'
  <2>1. at[s] \in Int /\ at' = [at EXCEPT ![s] = @ + 1] /\ at'[s] = at[s] + 1
        /\ \A q \in Scans \ {s} : at'[q] = at[q]
    BY <1>4 DEF StageDone, TypeOK
  <2>a. DiagnosisTypeOK
    BY DEF TypeOK
  <2>2. CASE at[s] = Deterministic
    <3>1. Recognize(s)
      BY <1>4, <2>2 DEF StageDone, StageEffect, Deterministic, LLM, Validate
    <3>2. PICK f \in Findings :
            known' = [known EXCEPT ![s] = [i \in Incidents |->
                        IF i \in IncidentsOf[s] THEN f[i] ELSE None]]
      BY <3>1 DEF Recognize
    <3>3. answer[s] = Unknown /\ final[s] = Unknown
      BY <2>2 DEF Founded, InOrder, Deterministic, Validate
    <3>4. UNCHANGED <<worker, answer, final>>
          /\ \A q \in Scans \ {s} : known'[q] = known[q]
      BY <3>1, <3>2 DEF Recognize, TypeOK, DiagnosisTypeOK
    <3>5. KnownIsOwn(s)'
      BY <1>a, <3>2, DiagnosisAssumption DEF KnownIsOwn, TypeOK, DiagnosisTypeOK
    <3>6. (InOrder(s) /\ AnswerIsFounded(s))'
      BY <1>a, <2>1, <2>2, <3>3, <3>4 DEF InOrder, AnswerIsFounded, Deterministic
    <3> QED
      BY <2>1, <3>4, <3>5, <3>6 DEF Founded, InOrder, AnswerIsFounded, KnownIsOwn
  <2>3. CASE at[s] = LLM
    <3>1. Fill(s)
      BY <1>4, <2>3 DEF StageDone, StageEffect, Deterministic, LLM, Validate
    <3>2. UNCHANGED <<known, worker, final>>
          /\ \A q \in Scans \ {s} : answer'[q] = answer[q]
      BY <3>1 DEF Fill, TypeOK, DiagnosisTypeOK
    <3>3. \A i \in Incidents :
            answer'[s][i] = IF i \in Left(s) THEN Kept(s, i, Degraded) ELSE answer[s][i]
      BY <3>1 DEF Fill, TypeOK, DiagnosisTypeOK
    <3>4. AnswerIsFounded(s)'
      <4>1. Degraded \in Conclusion /\ Degraded.root # "confirmed"
        BY ConclusionFacts DEF Degraded
      <4>2. KnownIsOwn(s) /\ AnswerIsFounded(s)
        BY DEF Founded
      <4> QED
        BY <2>a, <3>2, <3>3, <4>1, <4>2, KeptIsFounded DEF AnswerIsFounded
    <3>5. (InOrder(s) /\ KnownIsOwn(s))'
      BY <2>1, <2>3, <3>2 DEF Founded, InOrder, KnownIsOwn, LLM, Deterministic, Validate
    <3> QED
      BY <2>1, <3>2, <3>4, <3>5 DEF Founded, InOrder, AnswerIsFounded, KnownIsOwn
  <2>4. CASE at[s] = Validate
    <3>1. Merge(s, Wanted(s, LLM))
      BY <1>4, <2>4 DEF StageDone, StageEffect, Deterministic, LLM, Validate
    <3>2. UNCHANGED known /\ answer'[s] = Unknown
          /\ \A q \in Scans \ {s} :
               answer'[q] = answer[q] /\ worker'[q] = worker[q] /\ final'[q] = final[q]
      BY <3>1 DEF Merge, TypeOK, DiagnosisTypeOK
    <3>3. (InOrder(s) /\ AnswerIsFounded(s) /\ KnownIsOwn(s))'
      BY <1>a, <2>1, <2>4, <3>2
      DEF Founded, InOrder, AnswerIsFounded, KnownIsOwn, Deterministic, Validate
    <3> QED
      BY <2>1, <3>2, <3>3 DEF Founded, InOrder, AnswerIsFounded, KnownIsOwn
  <2>5. CASE at[s] \notin {Deterministic, LLM, Validate}
    BY <1>4, <1>c, <2>5 DEF StageDone, StageEffect
  <2> QED
    BY <2>2, <2>3, <2>4, <2>5
<1>5. ASSUME NEW s \in Scans, StageFails(s) \/ Return(s) \/ JobNotes(s) PROVE Founded'
  BY <1>5, <1>b DEF StageFails, Return, JobNotes, diagnosisVars
<1>6. ASSUME NEW s \in Scans, JobClears(s) \/ StopContext(s) \/ Expire(s) PROVE Founded'
  BY <1>6, <1>b DEF JobClears, StopContext, Expire, pipeVars
<1>7. ASSUME NEW s \in Scans, JobEnds(s) PROVE Founded'
  <2>1. /\ known'[s] = Unknown /\ answer'[s] = Unknown /\ final'[s] = Unknown
        /\ worker'[s] = AllAre("idle") /\ UNCHANGED at
        /\ \A q \in Scans \ {s} : /\ known'[q] = known[q] /\ answer'[q] = answer[q]
                                  /\ final'[q] = final[q] /\ worker'[q] = worker[q]
    BY <1>7 DEF JobEnds, Forget, TypeOK, DiagnosisTypeOK
  <2> QED
    BY <1>a, <2>1 DEF Founded, InOrder, AnswerIsFounded, KnownIsOwn
<1>8. ASSUME NEW s \in Scans, LLMWork(s) PROVE Founded'
  BY <1>8, WorkerFounded DEF LLMWork, pipeVars, TypeOK
<1>9. UNCHANGED vars => Founded'
  BY <1>b DEF vars, diagnosisVars, pipeVars
<1> QED
  BY <1>1, <1>2, <1>3, <1>4, <1>5, <1>6, <1>7, <1>8, <1>9 DEF Next, JobStep

LEMMA HonestyKept ==
  ASSUME TypeOK, Founded, ReportIsHonest, [Next]_vars
  PROVE  ReportIsHonest'
<1>a. (\A i \in Incidents : Unknown[i] = None) /\ None.root # "confirmed"
  BY DEF Unknown, None
<1>b. UNCHANGED <<known, final>> => ReportIsHonest'
  BY DEF ReportIsHonest, ConfirmedIsProven, ConfirmedIsKept
<1>c. ASSUME NEW s \in Scans, final'[s] = Unknown,
             \A q \in Scans \ {s} : known'[q] = known[q] /\ final'[q] = final[q]
      PROVE  ReportIsHonest'
  BY <1>a, <1>c DEF ReportIsHonest, ConfirmedIsProven, ConfirmedIsKept
<1>1. ASSUME NEW s \in Scans, NEW u \in Users, CreateScan(s, u) \/ CancelScan(s, u)
      PROVE  ReportIsHonest'
  BY <1>1, <1>b DEF CreateScan, CancelScan, diagnosisVars
<1>2. ASSUME NEW s \in Scans,
             \/ StageStart(s) \/ StageSkip(s) \/ ArchiveFails(s) \/ StageFails(s) \/ Return(s)
             \/ JobNotes(s) \/ JobClears(s) \/ StopContext(s) \/ Expire(s)
      PROVE  ReportIsHonest'
  BY <1>2, <1>b DEF StageStart, StageSkip, ArchiveFails, StageFails, Return, JobNotes,
     JobClears, StopContext, Expire, FanOut, diagnosisVars
<1>3. ASSUME NEW s \in Scans, StageDone(s) PROVE ReportIsHonest'
  <2>1. CASE at[s] = Deterministic
    <3>1. Recognize(s)
      BY <1>3, <2>1 DEF StageDone, StageEffect, Deterministic, LLM, Validate
    <3>2. final[s] = Unknown
      BY <2>1 DEF Founded, InOrder, Deterministic, Validate
    <3>3. UNCHANGED final /\ \A q \in Scans \ {s} : known'[q] = known[q]
      BY <3>1 DEF Recognize, TypeOK, DiagnosisTypeOK
    <3> QED
      BY <1>c, <3>2, <3>3
  <2>2. CASE at[s] = Validate
    <3>1. PICK asked \in BOOLEAN : Merge(s, asked)
      <4>1. Wanted(s, LLM) \in BOOLEAN
        BY DEF Wanted
      <4> QED
        BY <1>3, <2>2, <4>1 DEF StageDone, StageEffect, Deterministic, LLM, Validate
    <3>2. /\ UNCHANGED known /\ \A i \in Incidents : final'[s][i] = Merged(s, i, asked)
          /\ \A q \in Scans \ {s} : final'[q] = final[q]
      BY <3>1 DEF Merge, TypeOK, DiagnosisTypeOK
    <3>3. (ConfirmedIsProven(s) /\ ConfirmedIsKept(s))'
      <4>1. DiagnosisTypeOK /\ AnswerIsFounded(s)
        BY DEF TypeOK, Founded
      <4> QED
        BY <3>2, <4>1, MergedIsHonest DEF ConfirmedIsProven, ConfirmedIsKept
    <3> QED
      BY <3>2, <3>3 DEF ReportIsHonest, ConfirmedIsProven, ConfirmedIsKept
  <2>3. CASE at[s] \notin {Deterministic, Validate}
    <3>1. UNCHANGED <<known, final>>
      BY <1>3, <2>3 DEF StageDone, StageEffect, Fill, diagnosisVars
    <3> QED
      BY <1>b, <3>1
  <2> QED
    BY <2>1, <2>2, <2>3
<1>4. ASSUME NEW s \in Scans, JobEnds(s) PROVE ReportIsHonest'
  <2>1. final'[s] = Unknown
        /\ \A q \in Scans \ {s} : known'[q] = known[q] /\ final'[q] = final[q]
    BY <1>4 DEF JobEnds, Forget, TypeOK, DiagnosisTypeOK
  <2> QED
    BY <1>c, <2>1
<1>5. ASSUME NEW s \in Scans, LLMWork(s) PROVE ReportIsHonest'
  <2>1. UNCHANGED <<known, final>>
    BY <1>5 DEF LLMWork, WorkerStep, Acquire, LeaveQueue, CallFails, AskAgain, AnswerIsUseless,
       AnswerIsRead, Conclude
  <2> QED
    BY <1>b, <2>1
<1>6. UNCHANGED vars => ReportIsHonest'
  BY <1>b DEF vars, diagnosisVars
<1> QED
  BY <1>1, <1>2, <1>3, <1>4, <1>5, <1>6 DEF Next, JobStep

LEMMA FoundedHolds == Spec => [](TypeOK /\ Founded /\ ReportIsHonest)
<1>1. Init => Founded /\ ReportIsHonest
  <2> SUFFICES ASSUME Init PROVE Founded /\ ReportIsHonest
    OBVIOUS
  <2>1. \A s \in Scans : /\ known[s] = Unknown /\ answer[s] = Unknown /\ final[s] = Unknown
                         /\ worker[s] = AllAre("idle")
    BY DEF Init, DiagnosisInit
  <2>2. (\A i \in Incidents : Unknown[i] = None) /\ ~None.used /\ None.root # "confirmed"
    BY DEF Unknown, None
  <2> QED
    BY <2>1, <2>2 DEF Founded, InOrder, AnswerIsFounded, KnownIsOwn, ReportIsHonest,
       ConfirmedIsProven, ConfirmedIsKept
<1>2. TypeOK /\ Founded /\ ReportIsHonest /\ [Next]_vars => Founded' /\ ReportIsHonest'
  BY FoundedKept, HonestyKept
<1> QED
  BY <1>1, <1>2, Typed, PTL DEF Spec

(* Whatever the model answers and whenever the scan is ended, a cause is
   reported as confirmed only if the program confirmed it and the report cites
   evidence, and one the program confirmed on evidence is reported as less
   only with an accepted answer that cites none. *)
THEOREM Honest == Spec => []ReportIsHonest
  BY FoundedHolds, PTL

-----------------------------------------------------------------------------
(* The account of the diagnosis. *)

Waiting(s) == {i \in Incidents : worker[s][i] \in {"idle", "queued"}}
Once(s) == {i \in Incidents : worker[s][i] = "asked"}
Answers(s) == {i \in Incidents : answer[s][i] # None}
Poor(s) == {i \in Incidents : answer[s][i] # None /\ ~answer[s][i].used}

(* Nobody is asked before the stage, and everybody of the scan in it. *)
AskedInTime(s) ==
  /\ at[s] < LLM \/ (at[s] = LLM /\ pc[s] = "between") =>
       answer[s] = Unknown /\ worker[s] = AllAre("idle") /\ tally[s] = NoAccount
  /\ at[s] = LLM /\ pc[s] = "inside" => \A i \in IncidentsOf[s] : worker[s][i] # "idle"
  /\ at[s] = Validate => pc[s] \in {"between", "inside"}
  /\ pc[s] = "idle" => at[s] = Connect

(* A goroutine has left its conclusion when it is done, not while it waits or
   asks, and where it has left without one the stage puts one. *)
AnsweredWhenDone(s) ==
  /\ \A i \in Incidents : worker[s][i] = "done" => answer[s][i] # None
  /\ \A i \in Incidents :
       worker[s][i] \in {"queued", "asked", "asked again"} => answer[s][i] = None
  /\ at[s] <= LLM => \A i \in Left(s) : answer[s][i] = None
  /\ at[s] = Validate /\ LLM \in wants[s] => \A i \in IncidentsOf[s] : answer[s][i] # None

(* Who waits may still make two calls, who has asked once one more; the call
   under way has not failed yet. *)
CallsLeft(s) ==
  /\ tally[s].calls + 2 * Cardinality(Waiting(s)) + Cardinality(Once(s))
       <= 2 * Cardinality(Incidents)
  /\ tally[s].failed + Cardinality(Calling(s)) <= tally[s].calls
  /\ Cardinality(Calling(s)) <= MaxConcurrent

Books(s) ==
  /\ tally[s].succeeded + tally[s].explained = Cardinality(Answers(s))
  /\ tally[s].degraded = Cardinality(Poor(s))

Accounted(s) == AskedInTime(s) /\ AnsweredWhenDone(s) /\ CallsLeft(s) /\ Books(s)

LEMMA Sizes ==
  ASSUME NEW s \in Scans
  PROVE  /\ IsFiniteSet(Waiting(s)) /\ Cardinality(Waiting(s)) \in Nat
         /\ IsFiniteSet(Once(s)) /\ Cardinality(Once(s)) \in Nat
         /\ IsFiniteSet(Calling(s)) /\ Cardinality(Calling(s)) \in Nat
         /\ IsFiniteSet(Answers(s)) /\ Cardinality(Answers(s)) \in Nat
         /\ IsFiniteSet(Poor(s)) /\ Cardinality(Poor(s)) \in Nat
         /\ IsFiniteSet(Left(s)) /\ Cardinality(Left(s)) \in Nat
         /\ Cardinality(Incidents) \in Nat
<1>1. /\ Waiting(s) \subseteq Incidents /\ Once(s) \subseteq Incidents
      /\ Calling(s) \subseteq Incidents /\ Answers(s) \subseteq Incidents
      /\ Poor(s) \subseteq Incidents /\ Left(s) \subseteq Incidents
  BY DEF Waiting, Once, Calling, Answers, Poor, Left
<1>2. \A S \in SUBSET Incidents : IsFiniteSet(S) /\ Cardinality(S) \in Nat
  BY DiagnosisAssumption, FS_Subset, FS_CardinalityType
<1> QED BY <1>1, <1>2

LEMMA InAndOut ==
  ASSUME NEW S, IsFiniteSet(S), NEW i
  PROVE  /\ i \notin S => Cardinality(S \cup {i}) = Cardinality(S) + 1
         /\ i \in S => Cardinality(S \ {i}) = Cardinality(S) - 1
         /\ i \notin S => Cardinality(S \ {i}) = Cardinality(S)
BY FS_AddElement, FS_RemoveElement

(* What leaves the goroutines and the account alone, and the pipeline too. *)
LEMMA SameAccount ==
  ASSUME NEW s \in Scans, Accounted(s),
         worker'[s] = worker[s], answer'[s] = answer[s], tally'[s] = tally[s]
  PROVE  /\ CallsLeft(s)' /\ Books(s)'
         /\ at'[s] = at[s] /\ pc'[s] = pc[s] /\ wants'[s] = wants[s] => Accounted(s)'
<1>1. /\ Waiting(s)' = Waiting(s) /\ Once(s)' = Once(s) /\ Calling(s)' = Calling(s)
      /\ Answers(s)' = Answers(s) /\ Poor(s)' = Poor(s) /\ Left(s)' = Left(s)
  BY DEF Waiting, Once, Calling, Answers, Poor, Left
<1>2. CallsLeft(s)' /\ Books(s)'
  BY <1>1 DEF Accounted, CallsLeft, Books
<1>3. ASSUME at'[s] = at[s], pc'[s] = pc[s], wants'[s] = wants[s]
      PROVE  Accounted(s)'
  BY <1>1, <1>2, <1>3 DEF Accounted, AskedInTime, AnsweredWhenDone
<1> QED BY <1>2, <1>3

LEMMA BookedCounts ==
  ASSUME NEW t \in Account, NEW d, NEW k
  PROVE  LET b == Booked(t, d, k) IN
           /\ b.calls = t.calls /\ b.failed = t.failed
           /\ b.succeeded + b.explained = t.succeeded + t.explained + 1
           /\ b.degraded = t.degraded + IF k.used THEN 0 ELSE 1
<1> DEFINE x == IF d.used /\ d.passed THEN 1 ELSE 0
           y == IF d.used /\ d.passed THEN 0 ELSE 1
           z == IF k.used THEN 0 ELSE 1
<1>1. x \in Nat /\ y \in Nat /\ z \in Nat /\ x + y = 1
  OBVIOUS
<1>2. Booked(t, d, k) = [t EXCEPT !.succeeded = @ + x, !.explained = @ + y, !.degraded = @ + z]
  BY DEF Booked
<1> HIDE DEF x, y, z
<1>3. /\ Booked(t, d, k).calls = t.calls /\ Booked(t, d, k).failed = t.failed
      /\ Booked(t, d, k).succeeded = t.succeeded + x
      /\ Booked(t, d, k).explained = t.explained + y
      /\ Booked(t, d, k).degraded = t.degraded + z
  BY <1>2 DEF Account
<1>4. t.succeeded \in Nat /\ t.explained \in Nat
  BY DEF Account
<1>5. t.succeeded + x + (t.explained + y) = t.succeeded + t.explained + 1
  BY <1>1, <1>4
<1> QED BY <1>3, <1>5 DEF z

(* A goroutine ends: its call is over, its conclusion counted once. *)
LEMMA ConcludeAccounted ==
  ASSUME DiagnosisTypeOK, NEW s \in Scans, Accounted(s), NEW i \in Calling(s),
         NEW d \in Conclusion, NEW t \in Account,
         t.calls = tally[s].calls, t.succeeded = tally[s].succeeded,
         t.explained = tally[s].explained, t.degraded = tally[s].degraded,
         t.failed \in {tally[s].failed, tally[s].failed + 1},
         Conclude(s, i, d, t), at'[s] = at[s], pc'[s] = pc[s], wants'[s] = wants[s]
  PROVE  Accounted(s)'
<1> DEFINE kept == Kept(s, i, d)
<1>1. i \in Incidents /\ worker[s][i] \in {"asked", "asked again"} /\ answer[s][i] = None
  BY DEF Calling, Accounted, AnsweredWhenDone
<1>2. kept \in Conclusion /\ kept # None
  BY <1>1, KeptTyped, ConclusionFacts
<1>3. /\ worker'[s][i] = "done" /\ \A j \in Incidents \ {i} : worker'[s][j] = worker[s][j]
      /\ answer'[s][i] = kept /\ \A j \in Incidents \ {i} : answer'[s][j] = answer[s][j]
      /\ tally'[s] = Booked(t, d, kept)
  BY <1>1 DEF Conclude, DiagnosisTypeOK, Conclusions
<1> HIDE DEF kept
<1>0. IncidentsOf[s] \subseteq Incidents
  BY DiagnosisAssumption
<1>4. AskedInTime(s)'
  <2>1. ~(at[s] < LLM \/ (at[s] = LLM /\ pc[s] = "between"))
    BY <1>1 DEF Accounted, AskedInTime, AllAre
  <2> QED BY <1>0, <1>3, <2>1 DEF Accounted, AskedInTime
<1>5. AnsweredWhenDone(s)'
  <2>1. \A j \in Incidents : j \in Left(s)' => j \in Left(s) /\ j # i
    BY <1>3 DEF Left
  <2>2. Left(s)' \subseteq Incidents
    BY DEF Left
  <2> QED BY <1>0, <1>2, <1>3, <2>1, <2>2 DEF Accounted, AnsweredWhenDone
<1>6. CallsLeft(s)'
  <2>1. Waiting(s)' = Waiting(s)
    BY <1>1, <1>3 DEF Waiting
  <2>2. Once(s)' = Once(s) \ {i}
    BY <1>1, <1>3 DEF Once
  <2>3. Calling(s)' = Calling(s) \ {i}
    BY <1>1, <1>3 DEF Calling
  <2>4. Cardinality(Once(s)') <= Cardinality(Once(s)) /\ Cardinality(Once(s)') \in Nat
    BY <2>2, Sizes, FS_Subset, FS_CardinalityType
  <2>5. Cardinality(Calling(s)') = Cardinality(Calling(s)) - 1
    BY <2>3, Sizes, InAndOut
  <2>6. tally'[s].calls = tally[s].calls /\ tally'[s].failed = t.failed
    BY <1>3, BookedCounts
  <2>7. tally[s].calls \in Nat /\ tally[s].failed \in Nat
    BY DEF DiagnosisTypeOK, Account
  <2> QED
    BY <2>1, <2>4, <2>5, <2>6, <2>7, Sizes, DiagnosisAssumption DEF Accounted, CallsLeft
<1>7. Books(s)'
  <2>1. Answers(s)' = Answers(s) \cup {i} /\ i \notin Answers(s)
    BY <1>1, <1>2, <1>3 DEF Answers
  <2>2. Cardinality(Answers(s)') = Cardinality(Answers(s)) + 1
    BY <2>1, Sizes, InAndOut
  <2>3. Cardinality(Poor(s)') = Cardinality(Poor(s)) + IF kept.used THEN 0 ELSE 1
    <3>1. CASE kept.used
      <4>1. Poor(s)' = Poor(s)
        BY <1>1, <1>2, <1>3, <3>1 DEF Poor
      <4> QED BY <3>1, <4>1, Sizes
    <3>2. CASE ~kept.used
      <4>1. Poor(s)' = Poor(s) \cup {i} /\ i \notin Poor(s)
        BY <1>1, <1>2, <1>3, <3>2 DEF Poor
      <4> QED BY <3>2, <4>1, Sizes, InAndOut
    <3> QED BY <3>1, <3>2
  <2>4. /\ tally'[s].succeeded + tally'[s].explained = tally[s].succeeded + tally[s].explained + 1
        /\ tally'[s].degraded = tally[s].degraded + IF kept.used THEN 0 ELSE 1
    BY <1>3, BookedCounts
  <2> QED BY <2>2, <2>3, <2>4 DEF Accounted, Books
<1> QED BY <1>4, <1>5, <1>6, <1>7 DEF Accounted

(* A goroutine in the queue, or asking, that does not end. *)
LEMMA GoesOn ==
  ASSUME TypeOK, NEW s \in Scans, Accounted(s), NEW i \in Incidents,
         worker[s][i] \in {"queued", "asked"}, NEW to \in {"asked", "asked again", "empty"},
         worker' = [worker EXCEPT ![s][i] = to],
         UNCHANGED <<answer, at, pc, wants>>
  PROVE  /\ AskedInTime(s)' /\ AnsweredWhenDone(s)'
         /\ worker'[s][i] = to /\ \A j \in Incidents \ {i} : worker'[s][j] = worker[s][j]
         /\ Answers(s)' = Answers(s) /\ Poor(s)' = Poor(s)
<1>1. IncidentsOf[s] \subseteq Incidents
  BY DiagnosisAssumption
<1>2. worker'[s][i] = to /\ \A j \in Incidents \ {i} : worker'[s][j] = worker[s][j]
  BY DEF TypeOK, DiagnosisTypeOK
<1>3. ~(at[s] < LLM \/ (at[s] = LLM /\ pc[s] = "between"))
  BY DEF Accounted, AskedInTime, AllAre
<1>4. AskedInTime(s)'
  BY <1>1, <1>2, <1>3 DEF Accounted, AskedInTime
<1>5. answer[s][i] = None /\ \A j \in Incidents : j \in Left(s)' => j \in Left(s) \/ j = i
  BY <1>2 DEF Left, Accounted, AnsweredWhenDone
<1>6. Left(s)' \subseteq Incidents
  BY DEF Left
<1>7. AnsweredWhenDone(s)'
  BY <1>2, <1>5, <1>6 DEF Accounted, AnsweredWhenDone
<1> QED BY <1>2, <1>4, <1>7 DEF Answers, Poor

LEMMA WorkerAccounted ==
  ASSUME TypeOK, NEW s \in Scans, Accounted(s), WorkerStep(s), UNCHANGED <<at, pc, wants>>
  PROVE  Accounted(s)'
<1> PICK i \in Incidents :
      \/ Acquire(s, i) \/ LeaveQueue(s, i) \/ CallFails(s, i) \/ AskAgain(s, i)
      \/ AnswerIsUseless(s, i) \/ AnswerIsRead(s, i)
  BY DEF WorkerStep
<1>1. DiagnosisTypeOK /\ tally[s] \in Account
      /\ tally[s].calls \in Nat /\ tally[s].failed \in Nat
  BY DEF TypeOK, DiagnosisTypeOK, Account
<1>2. /\ at'[s] = at[s] /\ pc'[s] = pc[s] /\ wants'[s] = wants[s]
      /\ CallsLeft(s) /\ Books(s)
  BY DEF Accounted
<1>3. ASSUME tally' = [tally EXCEPT ![s].calls = @ + 1]
      PROVE  /\ tally'[s].calls = tally[s].calls + 1 /\ tally'[s].failed = tally[s].failed
             /\ tally'[s].succeeded = tally[s].succeeded
             /\ tally'[s].explained = tally[s].explained
             /\ tally'[s].degraded = tally[s].degraded
  BY <1>1, <1>3 DEF DiagnosisTypeOK, Account
<1>4. CASE Acquire(s, i)
  <2>1. /\ worker[s][i] = "queued" /\ Cardinality(Calling(s)) < MaxConcurrent
        /\ worker' = [worker EXCEPT ![s][i] = "asked"] /\ UNCHANGED answer
        /\ tally' = [tally EXCEPT ![s].calls = @ + 1]
    BY <1>4 DEF Acquire
  <2>2. /\ AskedInTime(s)' /\ AnsweredWhenDone(s)'
        /\ worker'[s][i] = "asked" /\ \A j \in Incidents \ {i} : worker'[s][j] = worker[s][j]
        /\ Answers(s)' = Answers(s) /\ Poor(s)' = Poor(s)
    BY <2>1, GoesOn
  <2>3. /\ Waiting(s)' = Waiting(s) \ {i} /\ i \in Waiting(s)
        /\ Once(s)' = Once(s) \cup {i} /\ i \notin Once(s)
        /\ Calling(s)' = Calling(s) \cup {i} /\ i \notin Calling(s)
    BY <2>1, <2>2 DEF Waiting, Once, Calling
  <2>4. /\ Cardinality(Waiting(s)') = Cardinality(Waiting(s)) - 1
        /\ Cardinality(Once(s)') = Cardinality(Once(s)) + 1
        /\ Cardinality(Calling(s)') = Cardinality(Calling(s)) + 1
    BY <2>3, Sizes, InAndOut
  <2>5. CallsLeft(s)'
    BY <1>1, <1>2, <1>3, <2>1, <2>4, Sizes, DiagnosisAssumption DEF CallsLeft
  <2>6. Books(s)'
    BY <1>2, <1>3, <2>1, <2>2 DEF Books
  <2> QED BY <2>2, <2>5, <2>6 DEF Accounted
<1>5. CASE AskAgain(s, i)
  <2>1. /\ worker[s][i] = "asked"
        /\ worker' = [worker EXCEPT ![s][i] = "asked again"] /\ UNCHANGED answer
        /\ tally' = [tally EXCEPT ![s].calls = @ + 1]
    BY <1>5 DEF AskAgain
  <2>2. /\ AskedInTime(s)' /\ AnsweredWhenDone(s)'
        /\ worker'[s][i] = "asked again"
        /\ \A j \in Incidents \ {i} : worker'[s][j] = worker[s][j]
        /\ Answers(s)' = Answers(s) /\ Poor(s)' = Poor(s)
    BY <2>1, GoesOn
  <2>3. /\ Waiting(s)' = Waiting(s) /\ Calling(s)' = Calling(s)
        /\ Once(s)' = Once(s) \ {i} /\ i \in Once(s)
    BY <2>1, <2>2 DEF Waiting, Once, Calling
  <2>4. /\ Cardinality(Once(s)') = Cardinality(Once(s)) - 1
        /\ Cardinality(Waiting(s)') = Cardinality(Waiting(s))
        /\ Cardinality(Calling(s)') = Cardinality(Calling(s))
        /\ tally'[s].calls = tally[s].calls + 1 /\ tally'[s].failed = tally[s].failed
    BY <1>3, <2>1, <2>3, Sizes, InAndOut
  <2>5. CallsLeft(s)'
    BY <1>1, <1>2, <2>4, Sizes, DiagnosisAssumption DEF CallsLeft
  <2>6. Books(s)'
    BY <1>2, <1>3, <2>1, <2>2 DEF Books
  <2> QED BY <2>2, <2>5, <2>6 DEF Accounted
<1>6. CASE LeaveQueue(s, i)
  <2>1. /\ worker[s][i] = "queued" /\ UNCHANGED <<answer, tally>>
        /\ worker' = [worker EXCEPT ![s][i] = "empty"]
    BY <1>6 DEF LeaveQueue
  <2>2. /\ AskedInTime(s)' /\ AnsweredWhenDone(s)'
        /\ worker'[s][i] = "empty" /\ \A j \in Incidents \ {i} : worker'[s][j] = worker[s][j]
        /\ Answers(s)' = Answers(s) /\ Poor(s)' = Poor(s)
    BY <2>1, GoesOn
  <2>3. /\ Waiting(s)' = Waiting(s) \ {i} /\ i \in Waiting(s)
        /\ Once(s)' = Once(s) /\ Calling(s)' = Calling(s)
    BY <2>1, <2>2 DEF Waiting, Once, Calling
  <2>4. /\ Cardinality(Waiting(s)') = Cardinality(Waiting(s)) - 1
        /\ Cardinality(Once(s)') = Cardinality(Once(s))
        /\ Cardinality(Calling(s)') = Cardinality(Calling(s))
        /\ tally'[s].calls = tally[s].calls /\ tally'[s].failed = tally[s].failed
    BY <2>1, <2>3, Sizes, InAndOut
  <2>5. CallsLeft(s)'
    BY <1>1, <1>2, <2>4, Sizes, DiagnosisAssumption DEF CallsLeft
  <2>6. Books(s)'
    BY <1>2, <2>1, <2>2 DEF Books
  <2> QED BY <2>2, <2>5, <2>6 DEF Accounted
<1>7. CASE CallFails(s, i)
  <2> DEFINE t == [tally[s] EXCEPT !.failed = @ + 1]
  <2>1. /\ t \in Account /\ t.calls = tally[s].calls /\ t.succeeded = tally[s].succeeded
        /\ t.explained = tally[s].explained /\ t.degraded = tally[s].degraded
        /\ t.failed = tally[s].failed + 1
    BY <1>1 DEF Account
  <2>2. i \in Calling(s) /\ Conclude(s, i, Degraded, t)
    BY <1>7 DEF CallFails
  <2> HIDE DEF t
  <2> QED BY <1>1, <1>2, <2>1, <2>2, ConclusionFacts, ConcludeAccounted
<1>8. CASE AnswerIsUseless(s, i)
  BY <1>1, <1>2, <1>8, ConclusionFacts, ConcludeAccounted DEF AnswerIsUseless
<1>9. CASE AnswerIsRead(s, i)
  <2>1. PICK passed \in BOOLEAN, cited \in BOOLEAN, root \in {"probable", "unknown"} :
          Conclude(s, i, [used |-> TRUE, passed |-> passed, cited |-> cited, root |-> root],
                   tally[s])
    BY <1>9 DEF AnswerIsRead
  <2> DEFINE d == [used |-> TRUE, passed |-> passed, cited |-> cited, root |-> root]
  <2>2. d \in Conclusion
    BY DEF Conclusion
  <2>3. i \in Calling(s) /\ Conclude(s, i, d, tally[s])
    BY <1>9, <2>1 DEF AnswerIsRead
  <2> HIDE DEF d
  <2> QED BY <1>1, <1>2, <2>2, <2>3, ConcludeAccounted
<1> QED BY <1>4, <1>5, <1>6, <1>7, <1>8, <1>9

(* Nothing asked, nothing left, nothing counted. *)
LEMMA FreshAccount ==
  ASSUME NEW s \in Scans, answer'[s] = Unknown, tally'[s] = NoAccount,
         \A i \in Incidents : worker'[s][i] \in {"idle", "queued"}
  PROVE  CallsLeft(s)' /\ Books(s)'
<1>1. \A i \in Incidents : answer'[s][i] = None
  BY DEF Unknown
<1>2. /\ Waiting(s)' = Incidents /\ Once(s)' = {} /\ Calling(s)' = {}
      /\ Answers(s)' = {} /\ Poor(s)' = {}
  BY <1>1 DEF Waiting, Once, Calling, Answers, Poor
<1>3. /\ Cardinality(Waiting(s)') = Cardinality(Incidents)
      /\ Cardinality(Once(s)') = 0 /\ Cardinality(Calling(s)') = 0
      /\ Cardinality(Answers(s)') = 0 /\ Cardinality(Poor(s)') = 0
  BY <1>2, FS_EmptySet
<1>4. /\ tally'[s].calls = 0 /\ tally'[s].failed = 0 /\ tally'[s].succeeded = 0
      /\ tally'[s].explained = 0 /\ tally'[s].degraded = 0
  BY DEF NoAccount
<1> QED BY <1>3, <1>4, Sizes, DiagnosisAssumption DEF CallsLeft, Books

(* The end of the stage: the places left empty are filled and booked. *)
LEMMA FillAccounted ==
  ASSUME TypeOK, NEW s \in Scans, Accounted(s), KnownIsOwn(s), Joined(s), Fill(s),
         at[s] = LLM, pc[s] = "inside", at'[s] = Validate, pc'[s] = "between",
         wants'[s] = wants[s]
  PROVE  Accounted(s)'
<1>1. DiagnosisTypeOK /\ tally[s] \in Account /\ IncidentsOf[s] \subseteq Incidents
  BY DiagnosisAssumption DEF TypeOK, DiagnosisTypeOK
<1>2. /\ worker' = worker
      /\ \A i \in Incidents :
           answer'[s][i] = IF i \in Left(s) THEN Kept(s, i, Degraded) ELSE answer[s][i]
  BY <1>1 DEF Fill, DiagnosisTypeOK
<1>3. \A i \in Left(s) : i \in Incidents /\ answer[s][i] = None
  <2>1. at[s] <= LLM
    BY DEF LLM
  <2>2. \A i \in Left(s) : answer[s][i] = None
    BY <2>1 DEF Accounted, AnsweredWhenDone
  <2> QED BY <2>2 DEF Left
<1>4. \A i \in Incidents : Kept(s, i, Degraded) # None /\ ~Kept(s, i, Degraded).used
  <2> SUFFICES ASSUME NEW i \in Incidents
               PROVE  Kept(s, i, Degraded) # None /\ ~Kept(s, i, Degraded).used
    OBVIOUS
  <2>1. known[s][i] \in Conclusion \cup {None} /\ ~known[s][i].used
    BY <1>1 DEF DiagnosisTypeOK, Conclusions, KnownIsOwn
  <2>2. Kept(s, i, Degraded) # None
    BY <1>1, KeptTyped, ConclusionFacts
  <2>3. ~Degraded.used /\ Degraded.passed
    BY DEF Degraded
  <2>4. CASE known[s][i] = None
    BY <2>2, <2>3, <2>4 DEF Kept
  <2>5. CASE known[s][i] # None
    <3>1. Kept(s, i, Degraded) = [known[s][i] EXCEPT !.passed = Degraded.passed]
      BY <2>3, <2>5 DEF Kept
    <3>2. [known[s][i] EXCEPT !.passed = Degraded.passed].used = known[s][i].used
      BY <2>1, <2>5 DEF Conclusion
    <3> QED BY <2>1, <2>2, <3>1, <3>2
  <2> QED BY <2>4, <2>5
<1>5. /\ tally'[s].calls = tally[s].calls /\ tally'[s].failed = tally[s].failed
      /\ tally'[s].succeeded = tally[s].succeeded
      /\ tally'[s].explained = tally[s].explained + Cardinality(Left(s))
      /\ tally'[s].degraded = tally[s].degraded + Cardinality(Left(s))
  <2> DEFINE n == Cardinality(Left(s))
             more == [tally[s] EXCEPT !.explained = @ + n, !.degraded = @ + n]
  <2>1. tally' = [tally EXCEPT ![s] = more]
    BY <1>1 DEF Fill, DiagnosisTypeOK
  <2>2. tally'[s] = more
    BY <1>1, <2>1 DEF DiagnosisTypeOK
  <2> HIDE DEF n
  <2> QED BY <1>1, <2>2 DEF Account, n
<1>6. AskedInTime(s)'
  BY DEF AskedInTime, LLM, Validate, Connect
<1>7. AnsweredWhenDone(s)'
  <2>1. \A i \in Incidents : worker[s][i] \notin {"queued", "asked", "asked again"}
    BY DEF Joined
  <2>2. \A i \in Incidents : worker[s][i] = "done" => answer'[s][i] # None
    BY <1>2, <1>4 DEF Accounted, AnsweredWhenDone
  <2>3. \A i \in IncidentsOf[s] : answer'[s][i] # None
    <3>1. \A i \in IncidentsOf[s] : worker[s][i] # "idle"
      BY DEF Accounted, AskedInTime
    <3>2. \A i \in IncidentsOf[s] : worker[s][i] = "done" \/ i \in Left(s)
      BY <1>1, <3>1 DEF Joined, Left
    <3> QED BY <1>1, <1>2, <1>4, <2>2, <3>2
  <2>4. ~(at'[s] <= LLM)
    BY DEF LLM, Validate
  <2> QED BY <1>2, <2>1, <2>2, <2>3, <2>4 DEF AnsweredWhenDone
<1>8. CallsLeft(s)'
  <2>1. Waiting(s)' = Waiting(s) /\ Once(s)' = Once(s) /\ Calling(s)' = Calling(s)
    BY <1>2 DEF Waiting, Once, Calling
  <2> QED BY <1>5, <2>1 DEF Accounted, CallsLeft
<1>9. Books(s)'
  <2>1. /\ Answers(s)' = Answers(s) \cup Left(s) /\ Answers(s) \cap Left(s) = {}
        /\ Poor(s)' = Poor(s) \cup Left(s) /\ Poor(s) \cap Left(s) = {}
    BY <1>2, <1>3, <1>4 DEF Answers, Poor
  <2>2. /\ Cardinality(Answers(s)') = Cardinality(Answers(s)) + Cardinality(Left(s))
        /\ Cardinality(Poor(s)') = Cardinality(Poor(s)) + Cardinality(Left(s))
    <3>1. /\ Cardinality(Answers(s) \cup Left(s)) =
                Cardinality(Answers(s)) + Cardinality(Left(s)) - Cardinality(Answers(s) \cap Left(s))
          /\ Cardinality(Poor(s) \cup Left(s)) =
                Cardinality(Poor(s)) + Cardinality(Left(s)) - Cardinality(Poor(s) \cap Left(s))
      BY Sizes, FS_Union
    <3>2. Cardinality(Answers(s) \cap Left(s)) = 0 /\ Cardinality(Poor(s) \cap Left(s)) = 0
      BY <2>1, FS_EmptySet, Zenon
    <3> QED BY <2>1, <3>1, <3>2, Sizes
  <2>3. tally[s].succeeded \in Nat /\ tally[s].explained \in Nat
    BY <1>1 DEF Account
  <2> QED BY <1>5, <2>2, <2>3, Sizes DEF Accounted, Books
<1> QED BY <1>6, <1>7, <1>8, <1>9 DEF Accounted

AllAccounted == \A s \in Scans : Accounted(s)

LEMMA AccountedKept ==
  ASSUME TypeOK, Founded, AllAccounted, [Next]_vars
  PROVE  AllAccounted'
<1> USE DEF AllAccounted
<1>a. ASSUME NEW s \in Scans, Accounted(s)',
             \A q \in Scans \ {s} :
               /\ worker'[q] = worker[q] /\ answer'[q] = answer[q] /\ tally'[q] = tally[q]
               /\ at'[q] = at[q] /\ pc'[q] = pc[q] /\ wants'[q] = wants[q]
      PROVE  AllAccounted'
  BY <1>a, SameAccount
<1>b. UNCHANGED <<worker, answer, tally, at, pc, wants>> => AllAccounted'
  BY SameAccount
<1>c. Validate = 10 /\ LLM = 9 /\ Connect = 1 /\ \A s \in Scans : at[s] \in 1..14
  BY DEF Validate, LLM, Connect, TypeOK
(* A step of the pipeline that leaves the diagnosis alone. *)
<1>d. ASSUME NEW s \in Scans, UNCHANGED <<worker, answer, tally>>,
             \A q \in Scans \ {s} : at'[q] = at[q] /\ pc'[q] = pc[q] /\ wants'[q] = wants[q],
             AskedInTime(s)',
             at'[s] <= LLM => at[s] <= LLM,
             at'[s] = Validate /\ LLM \in wants'[s] =>
               \A i \in IncidentsOf[s] : answer[s][i] # None
      PROVE  AllAccounted'
  <2>1. CallsLeft(s)' /\ Books(s)'
    BY <1>d, SameAccount
  <2>2. AnsweredWhenDone(s)'
    BY <1>d DEF Accounted, AnsweredWhenDone, Left
  <2> QED BY <1>a, <1>d, <2>1, <2>2 DEF Accounted
<1>1. ASSUME NEW s \in Scans, NEW u \in Users, CreateScan(s, u)
      PROVE  AllAccounted'
  <2>1. /\ UNCHANGED <<worker, answer, tally>> /\ at' = at
        /\ pc[s] = "idle" /\ pc'[s] = "between"
        /\ \A q \in Scans \ {s} : at'[q] = at[q] /\ pc'[q] = pc[q] /\ wants'[q] = wants[q]
    BY <1>1 DEF CreateScan, diagnosisVars, TypeOK
  <2>2. at[s] = Connect
    BY <2>1 DEF Accounted, AskedInTime
  <2>3. AskedInTime(s)'
    BY <1>c, <2>1, <2>2 DEF Accounted, AskedInTime
  <2> QED BY <1>c, <1>d, <2>1, <2>2, <2>3
<1>2. ASSUME NEW s \in Scans, NEW u \in Users, CancelScan(s, u)
      PROVE  AllAccounted'
  BY <1>2, <1>b DEF CancelScan, diagnosisVars, pipeVars
<1>3. ASSUME NEW s \in Scans, StageStart(s)
      PROVE  AllAccounted'
  <2>1. /\ UNCHANGED <<answer, tally, at, wants>> /\ pc[s] = "between" /\ pc'[s] = "inside"
        /\ \A q \in Scans \ {s} : pc'[q] = pc[q]
    BY <1>3 DEF StageStart, FanOut, diagnosisVars, TypeOK
  <2>2. CASE at[s] # LLM
    <3>1. UNCHANGED worker
      BY <1>3, <2>2 DEF StageStart, diagnosisVars
    <3>2. AskedInTime(s)'
      BY <1>c, <2>1, <2>2, <3>1 DEF Accounted, AskedInTime
    <3> QED BY <1>d, <2>1, <3>1, <3>2 DEF Accounted, AnsweredWhenDone
  <2>3. CASE at[s] = LLM
    <3>1. /\ \A q \in Scans \ {s} : worker'[q] = worker[q]
          /\ \A i \in Incidents : worker'[s][i] = IF i \in IncidentsOf[s] THEN "queued" ELSE "idle"
      <4> DEFINE all == [i \in Incidents |-> IF i \in IncidentsOf[s] THEN "queued" ELSE "idle"]
      <4>1. worker' = [worker EXCEPT ![s] = all]
        BY <1>3, <2>3 DEF StageStart, FanOut
      <4>2. \A i \in Incidents : all[i] = IF i \in IncidentsOf[s] THEN "queued" ELSE "idle"
        OBVIOUS
      <4> HIDE DEF all
      <4>3. worker'[s] = all /\ \A q \in Scans \ {s} : worker'[q] = worker[q]
        BY <4>1 DEF TypeOK, DiagnosisTypeOK
      <4> QED BY <4>2, <4>3
    <3>2. answer[s] = Unknown /\ tally[s] = NoAccount
      BY <2>1, <2>3 DEF Accounted, AskedInTime
    <3>3. CallsLeft(s)' /\ Books(s)'
      BY <2>1, <3>1, <3>2, FreshAccount
    <3>4. AskedInTime(s)'
      BY <1>c, <2>1, <2>3, <3>1, DiagnosisAssumption DEF AskedInTime
    <3>5. AnsweredWhenDone(s)'
      <4>1. Left(s)' = {} /\ \A i \in Incidents : answer'[s][i] = None /\ worker'[s][i] # "done"
        BY <2>1, <3>1, <3>2 DEF Left, Unknown
      <4>2. at'[s] # Validate
        BY <1>c, <2>1, <2>3
      <4> QED BY <4>1, <4>2 DEF AnsweredWhenDone
    <3> QED BY <1>a, <2>1, <3>1, <3>3, <3>4, <3>5 DEF Accounted
  <2> QED BY <2>2, <2>3
(* On to the next stage, with the diagnosis as it is. *)
<1>e. ASSUME NEW s \in Scans, pc[s] \in {"between", "inside"}, pc'[s] = "between",
             at' = [at EXCEPT ![s] = @ + 1], wants' = wants,
             UNCHANGED <<worker, answer, tally>>,
             \A q \in Scans \ {s} : pc'[q] = pc[q],
             at[s] = LLM => LLM \notin wants[s] \/ IncidentsOf[s] = {}
      PROVE  AllAccounted'
  <2>1. at'[s] = at[s] + 1 /\ \A q \in Scans \ {s} : at'[q] = at[q]
    BY <1>e DEF TypeOK
  <2>2. at'[s] < LLM \/ at'[s] = LLM => at[s] < LLM
    BY <1>c, <2>1
  <2>3. AskedInTime(s)'
    BY <1>c, <1>e, <2>1, <2>2 DEF Accounted, AskedInTime
  <2> QED BY <1>c, <1>d, <1>e, <2>1, <2>3
<1>4. ASSUME NEW s \in Scans, StageSkip(s)
      PROVE  AllAccounted'
  <2>1. /\ pc[s] = "between" /\ pc' = pc /\ at' = [at EXCEPT ![s] = @ + 1] /\ wants' = wants
        /\ UNCHANGED <<worker, answer, tally>> /\ ~Wanted(s, at[s])
    BY <1>4 DEF StageSkip, diagnosisVars
  <2>2. at[s] = LLM => LLM \notin wants[s] \/ IncidentsOf[s] = {}
    BY <2>1 DEF Wanted, LLM, Write, Archive, Evidence
  <2> QED BY <1>e, <2>1, <2>2
<1>5. ASSUME NEW s \in Scans, StageDone(s) \/ ArchiveFails(s)
      PROVE  AllAccounted'
  <2>1. /\ pc[s] = "inside" /\ pc'[s] = "between" /\ at' = [at EXCEPT ![s] = @ + 1]
        /\ wants' = wants /\ \A q \in Scans \ {s} : pc'[q] = pc[q]
    BY <1>5 DEF StageDone, ArchiveFails, TypeOK
  <2>2. at'[s] = at[s] + 1 /\ \A q \in Scans \ {s} : at'[q] = at[q]
    BY <2>1 DEF TypeOK
  <2>3. CASE at[s] \notin {LLM, Validate}
    <3>1. UNCHANGED <<worker, answer, tally>>
      BY <1>5, <2>3 DEF StageDone, ArchiveFails, StageEffect, Recognize, diagnosisVars
    <3> QED BY <1>e, <2>1, <2>3, <3>1
  <2>4. CASE at[s] = LLM
    <3>1. Joined(s) /\ Fill(s)
      BY <1>5, <2>4
      DEF StageDone, ArchiveFails, StageEffect, LLM, Deterministic, Validate, Archive
    <3>2. \A q \in Scans \ {s} :
            worker'[q] = worker[q] /\ answer'[q] = answer[q] /\ tally'[q] = tally[q]
      BY <3>1 DEF Fill, TypeOK, DiagnosisTypeOK
    <3>3. at'[s] = Validate /\ KnownIsOwn(s)
      BY <1>c, <2>2, <2>4 DEF Founded
    <3>4. Accounted(s)'
      BY <2>1, <2>4, <3>1, <3>3, FillAccounted
    <3> QED BY <1>a, <2>1, <2>2, <3>2, <3>4
  <2>5. CASE at[s] = Validate
    <3>1. Merge(s, Wanted(s, LLM))
      BY <1>5, <2>5
      DEF StageDone, ArchiveFails, StageEffect, LLM, Deterministic, Validate, Archive
    <3>2. /\ worker'[s] = AllAre("idle") /\ answer'[s] = Unknown /\ tally'[s] = NoAccount
          /\ \A q \in Scans \ {s} :
               worker'[q] = worker[q] /\ answer'[q] = answer[q] /\ tally'[q] = tally[q]
      BY <3>1 DEF Merge, TypeOK, DiagnosisTypeOK
    <3>3. \A i \in Incidents : worker'[s][i] = "idle"
      BY <3>2 DEF AllAre
    <3>4. CallsLeft(s)' /\ Books(s)'
      BY <3>2, <3>3, FreshAccount
    <3>5. at'[s] = 11
      BY <1>c, <2>2, <2>5
    <3>6. AskedInTime(s)'
      BY <1>c, <2>1, <3>5 DEF AskedInTime
    <3>7. AnsweredWhenDone(s)'
      <4>1. at'[s] # Validate
        BY <1>c, <3>5
      <4> QED BY <3>3, <4>1 DEF AnsweredWhenDone, Left
    <3> QED BY <1>a, <2>1, <2>2, <3>2, <3>4, <3>6, <3>7 DEF Accounted
  <2> QED BY <2>3, <2>4, <2>5
<1>6. ASSUME NEW s \in Scans, StageFails(s) \/ Return(s)
      PROVE  AllAccounted'
  <2>1. /\ UNCHANGED <<worker, answer, tally, at, wants>>
        /\ pc'[s] \in {"failed", "returned"} /\ \A q \in Scans \ {s} : pc'[q] = pc[q]
    BY <1>6 DEF StageFails, Return, diagnosisVars, TypeOK
  <2>2. at[s] # Validate /\ (at[s] = LLM => pc[s] = "inside")
    BY <1>6 DEF StageFails, Return, Fails, Connect, Collect, Evidence, LLM, Validate
  <2>3. AskedInTime(s)'
    BY <2>1, <2>2 DEF Accounted, AskedInTime
  <2> QED BY <1>d, <2>1, <2>2, <2>3
<1>7. ASSUME NEW s \in Scans, JobEnds(s)
      PROVE  AllAccounted'
  <2>1. /\ UNCHANGED <<at, wants>> /\ pc[s] \in {"returned", "failed"}
        /\ pc'[s] \in {"noting", "clearing"} /\ \A q \in Scans \ {s} : pc'[q] = pc[q]
    BY <1>7 DEF JobEnds, TypeOK
  <2>2. /\ worker'[s] = AllAre("idle") /\ answer'[s] = Unknown /\ tally'[s] = NoAccount
        /\ \A q \in Scans \ {s} :
             worker'[q] = worker[q] /\ answer'[q] = answer[q] /\ tally'[q] = tally[q]
    BY <1>7 DEF JobEnds, Forget, TypeOK, DiagnosisTypeOK
  <2>3. \A i \in Incidents : worker'[s][i] = "idle" /\ answer'[s][i] = None
    BY <2>2 DEF AllAre, Unknown
  <2>4. CallsLeft(s)' /\ Books(s)'
    BY <2>2, <2>3, FreshAccount
  <2>5. at[s] # Validate
    BY <2>1 DEF Accounted, AskedInTime
  <2>6. AskedInTime(s)'
    BY <2>1, <2>2, <2>5 DEF AskedInTime
  <2>7. AnsweredWhenDone(s)'
    BY <2>1, <2>3, <2>5 DEF AnsweredWhenDone, Left
  <2> QED BY <1>a, <2>1, <2>2, <2>4, <2>6, <2>7 DEF Accounted
<1>8. ASSUME NEW s \in Scans, JobNotes(s) \/ JobClears(s)
      PROVE  AllAccounted'
  <2>1. /\ UNCHANGED <<worker, answer, tally, at>>
        /\ pc[s] \in {"noting", "clearing"} /\ pc'[s] \in {"clearing", "over"}
        /\ \A q \in Scans \ {s} : pc'[q] = pc[q] /\ wants'[q] = wants[q]
    BY <1>8 DEF JobNotes, JobClears, diagnosisVars, TypeOK
  <2>2. at[s] # Validate
    BY <2>1 DEF Accounted, AskedInTime
  <2>3. AskedInTime(s)'
    BY <2>1, <2>2 DEF Accounted, AskedInTime
  <2> QED BY <1>d, <2>1, <2>2, <2>3
<1>9. ASSUME NEW s \in Scans, StopContext(s) \/ Expire(s)
      PROVE  AllAccounted'
  BY <1>9, <1>b DEF StopContext, Expire, pipeVars
<1>10. ASSUME NEW s \in Scans, LLMWork(s)
       PROVE  AllAccounted'
  <2>1. WorkerStep(s) /\ UNCHANGED <<at, pc, wants>>
    BY <1>10 DEF LLMWork, pipeVars
  <2>2. \A q \in Scans \ {s} :
          worker'[q] = worker[q] /\ answer'[q] = answer[q] /\ tally'[q] = tally[q]
    <3> PICK i \in Incidents :
          \/ Acquire(s, i) \/ LeaveQueue(s, i) \/ CallFails(s, i) \/ AskAgain(s, i)
          \/ AnswerIsUseless(s, i) \/ AnswerIsRead(s, i)
      BY <2>1 DEF WorkerStep
    <3>1. \E to : worker' = [worker EXCEPT ![s] = to]
      <4>1. \E w : worker' = [worker EXCEPT ![s][i] = w]
        BY DEF Acquire, LeaveQueue, CallFails, AskAgain, AnswerIsUseless, AnswerIsRead, Conclude
      <4> QED BY <4>1
    <3>2. answer' = answer \/ \E d : answer' = [answer EXCEPT ![s][i] = d]
      BY DEF Acquire, LeaveQueue, CallFails, AskAgain, AnswerIsUseless, AnswerIsRead, Conclude
    <3>3. \/ tally' = tally
          \/ tally' = [tally EXCEPT ![s].calls = @ + 1]
          \/ \E t : tally' = [tally EXCEPT ![s] = t]
      BY DEF Acquire, LeaveQueue, CallFails, AskAgain, AnswerIsUseless, AnswerIsRead, Conclude
    <3>4. \A q \in Scans \ {s} : tally'[q] = tally[q]
      BY <3>3 DEF TypeOK, DiagnosisTypeOK
    <3>5. \A q \in Scans \ {s} : answer'[q] = answer[q]
      BY <3>2 DEF TypeOK, DiagnosisTypeOK
    <3> QED BY <3>1, <3>4, <3>5 DEF TypeOK, DiagnosisTypeOK
  <2> QED BY <1>a, <2>1, <2>2, WorkerAccounted
<1>11. UNCHANGED vars => AllAccounted'
  BY <1>b DEF vars, diagnosisVars, pipeVars
<1> QED
  BY <1>1, <1>2, <1>3, <1>4, <1>5, <1>6, <1>7, <1>8, <1>9, <1>10, <1>11 DEF Next, JobStep

(* The account of the diagnosis balances at every moment: no incident is
   counted twice or not at all, whatever fails, is repaired or is cut off by
   the deadline; no more goroutines call the model at once than the limit
   allows; and when the report is put together every incident of a diagnosed
   scan has its conclusion. *)
THEOREM DiagnosisAccounted == Spec => []DiagnosisIsAccounted
<1>1. Init => AllAccounted
  <2> SUFFICES ASSUME Init, NEW s \in Scans PROVE Accounted(s)
    BY DEF AllAccounted
  <2>1. /\ answer[s] = Unknown /\ tally[s] = NoAccount /\ worker[s] = AllAre("idle")
        /\ at[s] = 1 /\ pc[s] = "idle"
    BY DEF Init, DiagnosisInit
  <2>2. \A i \in Incidents : answer[s][i] = None /\ worker[s][i] = "idle"
    BY <2>1 DEF Unknown, AllAre
  <2>3. /\ Waiting(s) = Incidents /\ Once(s) = {} /\ Calling(s) = {}
        /\ Answers(s) = {} /\ Poor(s) = {}
    BY <2>2 DEF Waiting, Once, Calling, Answers, Poor
  <2>4. Cardinality({}) = 0
    BY FS_EmptySet
  <2>5. CallsLeft(s) /\ Books(s)
    BY <2>1, <2>3, <2>4, Sizes, DiagnosisAssumption DEF CallsLeft, Books, NoAccount
  <2>6. AskedInTime(s)
    BY <2>1 DEF AskedInTime, LLM, Validate, Connect
  <2>7. AnsweredWhenDone(s)
    <3>1. at[s] # Validate
      BY <2>1 DEF Validate
    <3> QED BY <2>2, <3>1 DEF AnsweredWhenDone, Left
  <2> QED BY <2>5, <2>6, <2>7 DEF Accounted
<1>2. TypeOK /\ Founded /\ AllAccounted /\ [Next]_vars => AllAccounted'
  BY AccountedKept
<1>3. TypeOK /\ AllAccounted => DiagnosisIsAccounted
  <2> SUFFICES ASSUME TypeOK, AllAccounted, NEW s \in Scans
               PROVE  /\ AccountBalances(s) /\ Cardinality(Calling(s)) <= MaxConcurrent
                      /\ at[s] = Validate /\ LLM \in wants[s] =>
                           \A i \in IncidentsOf[s] : answer[s][i] # None
    BY DEF DiagnosisIsAccounted
  <2>1. CallsLeft(s) /\ Books(s) /\ AnsweredWhenDone(s)
    BY DEF AllAccounted, Accounted
  <2>2. tally[s].calls \in Nat /\ tally[s].failed \in Nat
    BY DEF TypeOK, DiagnosisTypeOK, Account
  <2>3. AccountBalances(s)
    <3>1. /\ tally[s].succeeded + tally[s].explained =
               Cardinality({i \in Incidents : answer[s][i] # None})
          /\ tally[s].degraded =
               Cardinality({i \in Incidents : answer[s][i] # None /\ ~answer[s][i].used})
      BY <2>1 DEF Books, Answers, Poor
    <3>2. tally[s].failed <= tally[s].calls
      BY <2>1, <2>2, Sizes DEF CallsLeft
    <3>3. tally[s].calls <= 2 * Cardinality(Incidents)
      BY <2>1, <2>2, Sizes DEF CallsLeft
    <3> QED BY <3>1, <3>2, <3>3 DEF AccountBalances
  <2> QED BY <2>1, <2>3 DEF CallsLeft, AnsweredWhenDone
<1> QED BY <1>1, <1>2, <1>3, FoundedHolds, PTL DEF Spec

-----------------------------------------------------------------------------
(* The jobs and the gateway *)

(* With the archive put through a gateway that other requests use, mark and
   refuse, the scan jobs do what ScanJobs says and nothing else. *)
THEOREM ArchiveImplementsJobs == ArchiveSpec => Spec
<1>1. ArchiveInit => Init
  BY DEF ArchiveInit
<1>2. [ArchiveNext]_archiveVars => [Next]_vars
  <2>1. UserStep => Next
    BY DEF UserStep, Next
  <2>2. ASSUME NEW s \in Scans, ScanStep(s) PROVE [Next]_vars
    <3>1. JobStep(s) => Next
      BY DEF Next
    <3>2. StageDone(s) \/ ArchiveFails(s) => JobStep(s)
      BY DEF JobStep
    <3>3. PutStep(s) => UNCHANGED vars
      BY DEF PutStep
    <3> QED
      BY <2>2, <3>1, <3>2, <3>3 DEF ScanStep, ArchiveStored, ArchiveMissed
  <2>3. ASSUME NEW c \in Others, OtherStep(c) \/ ClientLeaves(c) PROVE UNCHANGED vars
    BY <2>3 DEF OtherStep, ClientLeaves
  <2>4. UNCHANGED archiveVars => UNCHANGED vars
    BY DEF archiveVars
  <2> QED
    BY <2>1, <2>2, <2>3, <2>4 DEF ArchiveNext
<1> QED
  BY <1>1, <1>2, PTL DEF ArchiveSpec, Spec

-----------------------------------------------------------------------------
Checkers == {c \in Requests : Checking(c)}

(* The caller moves on and nobody else does. *)
LEMMA GoFacts ==
  ASSUME GatewayTypeOK, NEW c \in Requests, NEW to, Go(c, to),
         to \in {"idle", "checking", "found up", "found down", "using", "broken", "served",
                 "failed", "refused"}
  PROVE  /\ call' \in [Requests -> {"idle", "checking", "found up", "found down", "using",
                                    "broken", "served", "failed", "refused"}]
         /\ \A d \in Requests : call'[d] = IF d = c THEN to ELSE call[d]
  BY DEF GatewayTypeOK, Go

(* What a step of a request may do to the gate: leave its flags alone, leave
   an error behind, begin a check or end one. *)
Idles == UNCHANGED <<gateVars, Checkers>>
Leaves == lastErr' = TRUE /\ ready' = FALSE /\ since' = 0 /\ UNCHANGED <<inflight, Checkers>>
Begins(c) == /\ ~inflight /\ inflight' = TRUE /\ since' = 0 /\ Checkers' = Checkers \cup {c}
             /\ UNCHANGED <<ready, lastErr>>
Ends(c) == /\ c \in Checkers /\ inflight' = FALSE /\ since' = 0 /\ Checkers' = Checkers \ {c}
           /\ (ready' = TRUE /\ lastErr' = FALSE) \/ (ready' = FALSE /\ lastErr' = TRUE)

LEMMA GateStepShape ==
  ASSUME GatewayTypeOK, NEW c \in Requests, NEW dead, GateStep(c, dead) \/ Answer(c)
  PROVE  /\ Idles \/ Leaves \/ Begins(c) \/ Ends(c)
         /\ up' = up /\ outages' = outages
         /\ call' \in [Requests -> {"idle", "checking", "found up", "found down", "using",
                                    "broken", "served", "failed", "refused"}]
<1> DEFINE Goal ==
      /\ Idles \/ Leaves \/ Begins(c) \/ Ends(c)
      /\ up' = up /\ outages' = outages
      /\ call' \in [Requests -> {"idle", "checking", "found up", "found down", "using",
                                 "broken", "served", "failed", "refused"}]
<1>a. call[c] \in {"idle", "checking", "found up", "found down", "using", "broken", "served",
                   "failed", "refused"}
  BY DEF GatewayTypeOK
<1>1. CASE Pass(c) \/ Refuse(c) \/ Use(c, dead) \/ Probe(c, dead) \/ Observe(c, dead) \/ Answer(c)
  <2>1. PICK to \in {"idle", "found up", "found down", "using", "broken", "served",
                     "failed", "refused"} :
          Go(c, to) /\ (to \in {"found up", "found down"} <=> Checking(c))
    BY <1>1 DEF Pass, Refuse, Use, Probe, Observe, Answer, Checking
  <2>2. Checkers' = Checkers
    BY <2>1, GoFacts DEF Checkers, Checking
  <2>3. UNCHANGED <<up, outages, gateVars>>
    BY <1>1 DEF Pass, Refuse, Use, Probe, Observe, Answer
  <2> QED
    BY <2>1, <2>2, <2>3, GoFacts DEF Idles
<1>2. CASE StartCheck(c)
  <2>1. Go(c, "checking") /\ ~Checking(c)
    BY <1>2 DEF StartCheck, Checking
  <2>2. Checkers' = Checkers \cup {c}
    BY <2>1, GoFacts DEF Checkers, Checking
  <2> QED
    BY <1>2, <2>1, <2>2, GoFacts DEF StartCheck, Begins
<1>3. CASE EndCheck(c)
  <2>1. PICK to \in {"using", "refused"} : Go(c, to) /\ Checking(c)
    BY <1>3 DEF EndCheck, Checking
  <2>2. Checkers' = Checkers \ {c} /\ c \in Checkers
    BY <2>1, GoFacts DEF Checkers, Checking
  <2>3. (ready' = TRUE /\ lastErr' = FALSE) \/ (ready' = FALSE /\ lastErr' = TRUE)
    BY <1>3 DEF EndCheck
  <2> QED
    BY <1>3, <2>1, <2>2, <2>3, GoFacts DEF EndCheck, Ends
<1>4. CASE Mark(c)
  <2>1. Go(c, "failed") /\ ~Checking(c)
    BY <1>4 DEF Mark, Checking
  <2>2. Checkers' = Checkers
    BY <2>1, GoFacts DEF Checkers, Checking
  <2> QED
    BY <1>4, <2>1, <2>2, GoFacts DEF Mark, Leaves
<1> QED
  BY <1>1, <1>2, <1>3, <1>4 DEF GateStep

LEMMA Bounds ==
  /\ 0 \in 0..Retry /\ Retry \in 0..Retry /\ 0 \in 0..MaxOutages
  /\ \A n \in 0..Retry : n < Retry => n + 1 \in 0..Retry
  /\ \A n \in 0..MaxOutages : n < MaxOutages => n + 1 \in 0..MaxOutages
<1>1. Retry \in Nat \ {0} /\ MaxOutages \in Nat
  BY GatewayAssumption
<1> QED
  BY <1>1

(* OneCheckAtATime, in terms of the set of checkers. *)
Gate ==
  /\ GatewayTypeOK
  /\ inflight = TRUE => Checkers # {}
  /\ Checkers # {} => inflight = TRUE
  /\ \A c, d \in Checkers : c = d
  /\ ready = FALSE /\ inflight = FALSE /\ since < Retry => lastErr = TRUE

LEMMA GateStepKeeps ==
  ASSUME Gate, NEW c \in Requests, NEW dead, GateStep(c, dead) \/ Answer(c)
  PROVE  Gate'
<1>1. /\ Idles \/ Leaves \/ Begins(c) \/ Ends(c)
      /\ up' = up /\ outages' = outages
      /\ call' \in [Requests -> {"idle", "checking", "found up", "found down", "using",
                                 "broken", "served", "failed", "refused"}]
  BY GateStepShape DEF Gate
<1>2. GatewayTypeOK'
  <2>1. GatewayTypeOK
    BY DEF Gate
  <2>2. since' \in 0..Retry /\ outages' \in 0..MaxOutages /\ up' \in BOOLEAN
    BY <1>1, <2>1, Bounds DEF GatewayTypeOK, Idles, Leaves, Begins, Ends, gateVars
  <2>3. ready' \in BOOLEAN /\ inflight' \in BOOLEAN /\ lastErr' \in BOOLEAN
    BY <1>1, <2>1 DEF GatewayTypeOK, Idles, Leaves, Begins, Ends, gateVars
  <2> QED
    BY <1>1, <2>2, <2>3 DEF GatewayTypeOK
<1>3. CASE Idles
  BY <1>2, <1>3 DEF Gate, Idles, gateVars
<1>4. CASE Leaves
  BY <1>2, <1>4 DEF Gate, Leaves
<1>5. CASE Begins(c)
  <2>1. Checkers = {}
    BY <1>5 DEF Gate, Begins
  <2> QED
    BY <1>2, <1>5, <2>1 DEF Gate, Begins
<1>6. CASE Ends(c)
  <2>1. Checkers' = {}
    BY <1>6 DEF Gate, Ends
  <2> QED
    BY <1>2, <1>6, <2>1 DEF Gate, Ends
<1> QED
  BY <1>1, <1>3, <1>4, <1>5, <1>6

LEMMA WeatherKeeps ==
  ASSUME Gate, Weather
  PROVE  Gate'
<1>1. UNCHANGED <<ready, inflight, lastErr, call>> /\ Checkers' = Checkers
  BY DEF Weather, Tick, GoDown, ComeUp, Checkers, Checking
<1>a. since \in 0..Retry /\ outages \in 0..MaxOutages /\ up \in BOOLEAN
  BY DEF Gate, GatewayTypeOK
<1>2. since' \in 0..Retry /\ (since' < Retry => since < Retry)
  <2>1. CASE Tick
    BY <1>a, <2>1, Bounds DEF Tick
  <2>2. CASE GoDown \/ ComeUp
    BY <1>a, <2>2 DEF GoDown, ComeUp
  <2> QED
    BY <2>1, <2>2 DEF Weather
<1>3. up' \in BOOLEAN /\ outages' \in 0..MaxOutages
  BY <1>a, Bounds DEF Weather, Tick, GoDown, ComeUp
<1> QED
  BY <1>1, <1>2, <1>3 DEF Gate, GatewayTypeOK

(* For any requests, retry window and outages: at most one readiness check is
   under way, the flag that says so is given back on every way out, and a
   request is refused for a recent attempt only if that attempt failed. *)
THEOREM OneCheck == ArchiveSpec => []OneCheckAtATime
<1>1. ArchiveInit => Gate
  <2> SUFFICES ASSUME ArchiveInit PROVE Gate
    OBVIOUS
  <2>1. GatewayTypeOK
    BY Bounds DEF ArchiveInit, GatewayInit, GatewayTypeOK
  <2>2. Checkers = {}
    BY DEF ArchiveInit, GatewayInit, Checkers, Checking
  <2>3. since = Retry /\ inflight = FALSE
    BY DEF ArchiveInit, GatewayInit
  <2> QED
    BY <2>1, <2>2, <2>3, GatewayAssumption DEF Gate
<1>2. Gate /\ [ArchiveNext]_archiveVars => Gate'
  <2> SUFFICES ASSUME Gate, [ArchiveNext]_archiveVars PROVE Gate'
    OBVIOUS
  <2>1. ASSUME UNCHANGED gatewayVars PROVE Gate'
    <3>1. Checkers' = Checkers
      BY <2>1 DEF gatewayVars, Checkers, Checking
    <3> QED
      BY <2>1, <3>1 DEF gatewayVars, gateVars, Gate, GatewayTypeOK
  <2>2. ASSUME NEW s \in Scans, ScanStep(s) PROVE Gate'
    <3>1. s \in Requests
      BY ArchiveAssumption
    <3> QED
      BY <2>1, <2>2, <3>1, GateStepKeeps DEF ScanStep, PutStep, ArchiveStored, ArchiveMissed
  <2>3. ASSUME NEW c \in Others, OtherStep(c) \/ ClientLeaves(c) PROVE Gate'
    <3>1. c \in Requests
      BY DEF Others
    <3> QED
      BY <2>1, <2>3, <3>1, GateStepKeeps DEF OtherStep, ClientLeaves
  <2> QED
    BY <2>1, <2>2, <2>3, WeatherKeeps DEF ArchiveNext, archiveVars
<1>3. Gate => OneCheckAtATime
  BY DEF Gate, GatewayTypeOK, OneCheckAtATime, Checkers
<1> QED
  BY <1>1, <1>2, <1>3, PTL DEF ArchiveSpec
=============================================================================
