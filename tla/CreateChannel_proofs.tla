------------------------ MODULE CreateChannel_proofs ------------------------
(***************************************************************************)
(* What create_resource submits, for every manifest, bound of the store,    *)
(* lifetime of a proposal and policy: nothing that was not rehearsed, and   *)
(* nothing but what the user saw; and below, of the runs of the chat        *)
(* session in whose turns it is called.                                     *)
(***************************************************************************)
EXTENDS CreateChannel, SessionRuns, FiniteSetTheorems, TLAPS

(* Every proposal is a rehearsal and goes by an id of the past. *)
Stored ==
  \A p \in proposals :
    /\ p.id <= runs
    /\ \E r \in rehearsed : r.docs = p.docs /\ r.at <= now /\ p.expires = r.at + TTL

Distinct == \A p, q \in proposals : p.id = q.id => p = q

(* Whatever becomes of the proposals, what a call stands for can only be what
   the card showed, or nothing any more. *)
Fixed ==
  call.phase # "none" /\ call.asked =>
    IF call.manifest # Omitted
      THEN call.shown = call.manifest \/ HasErrors(call.manifest)
      ELSE call.id <= runs /\ Get(call.id) \in {Omitted, call.shown}

Covered ==
  Submitting =>
    /\ call.docs \in Manifests
    /\ Pending(call.docs) \subseteq call.values
    /\ call.phase = "patch" => Len(call.results) < Len(call.docs)

IInv ==
  /\ TypeOK
  /\ Stored
  /\ Distinct
  /\ Fixed
  /\ Covered
  /\ AppliedWasRehearsed
  /\ AgreedIsSubmitted
  /\ NoValueIsMissing

-----------------------------------------------------------------------------
(* The store *)

LEMMA Numbers ==
  ASSUME TypeOK
  PROVE  /\ now \in Nat /\ runs \in Nat /\ {TTL, MaxPerSession} \subseteq Nat \ {0}
         /\ \A p \in proposals : p.id \in Nat /\ p.expires \in Nat /\ p.docs \in Manifests
         /\ \A r \in rehearsed : r.id \in Nat /\ r.at \in Nat /\ r.docs \in Manifests
         /\ Omitted \notin Manifests
  BY CreateAssumption DEF TypeOK, Proposal, Rehearsal

LEMMA KeptIsPart ==
  ASSUME NEW ps
  PROVE  Kept(ps) \subseteq ps
  BY DEF Kept

LEMMA GetMeaning ==
  ASSUME NEW id, Get(id) # Omitted
  PROVE  \E p \in proposals : p.id = id /\ Live(p) /\ p.docs = Get(id)
  BY DEF Get

LEMMA GetMeaningNext ==
  ASSUME NEW id, Get(id)' # Omitted
  PROVE  \E p \in proposals' : p.id = id /\ Live(p)' /\ p.docs = Get(id)'
  BY DEF Get, Live

LEMMA GetFinds ==
  ASSUME Distinct, NEW p \in proposals, Live(p)
  PROVE  Get(p.id) = p.docs
  BY DEF Get, Distinct

LEMMA ResolveMeaning ==
  ASSUME TypeOK, NEW id, NEW m \in Manifests \cup {Omitted}, Resolve(id, m) # Omitted
  PROVE  /\ Resolve(id, m) \in Manifests
         /\ \E p \in proposals : Live(p) /\ p.docs = Resolve(id, m)
         /\ IF m = Omitted THEN Resolve(id, m) = Get(id)
            ELSE Resolve(id, m) = m /\ ~HasErrors(m)
<1>1. CASE Get(id) # Omitted
  <2>1. PICK p \in proposals : p.id = id /\ Live(p) /\ p.docs = Get(id)
    BY <1>1, GetMeaning
  <2> QED BY <1>1, <2>1, Numbers DEF Resolve
<1>2. CASE Get(id) = Omitted
  BY <1>2, Numbers DEF Resolve, Match
<1> QED BY <1>1, <1>2

(* A proposal is never replaced by another under its id. *)
LEMMA GetLater ==
  ASSUME IInv, NEW id \in Nat, id <= runs, now' \in Nat, now <= now',
         \A p \in proposals' : p \in proposals \/ p.id = runs + 1
  PROVE  Get(id)' \in {Omitted, Get(id)}
<1> SUFFICES ASSUME Get(id)' # Omitted PROVE Get(id)' = Get(id)
  OBVIOUS
<1>1. PICK p \in proposals' : p.id = id /\ Live(p)' /\ p.docs = Get(id)'
  BY GetMeaningNext
<1>2. p \in proposals
  BY <1>1, Numbers DEF IInv
<1>3. Live(p)
  BY <1>1, <1>2, Numbers DEF IInv, Live
<1>4. Get(p.id) = p.docs
  BY <1>2, <1>3, GetFinds DEF IInv
<1> QED BY <1>1, <1>4

-----------------------------------------------------------------------------
(* The steps around a call *)

LEMMA StoreStep ==
  ASSUME IInv, NEW m \in Manifests, DryRun(m)
  PROVE  /\ runs' = runs + 1 /\ runs < MaxDryRuns
         /\ UNCHANGED <<now, denied, call, cluster>>
         /\ rehearsed \subseteq rehearsed'
         /\ rehearsed' \subseteq Rehearsal
         /\ proposals' \subseteq Proposal
         /\ \A p \in proposals' : p \in proposals \/
              /\ p.id = runs + 1
              /\ \E r \in rehearsed' : r.docs = p.docs /\ r.at = now /\ p.expires = r.at + TTL
         /\ \A p, q \in proposals' \ proposals : p = q
<1> DEFINE new == [id |-> runs + 1, docs |-> m, expires |-> now + TTL]
           done == [id |-> runs + 1, docs |-> m, at |-> now]
<1>1. PICK refused \in SUBSET DOMAIN m :
        /\ proposals' = Recorded(m, refused)
        /\ rehearsed' = IF refused # {} THEN rehearsed ELSE rehearsed \cup {done}
  BY DEF DryRun
<1>2. /\ new \in Proposal /\ new.id = runs + 1 /\ new.docs = m /\ new.expires = now + TTL
      /\ done \in Rehearsal /\ done.docs = m /\ done.at = now
  BY Numbers DEF IInv, Proposal, Rehearsal
<1>3. CASE refused # {}
  BY <1>1, <1>3 DEF Recorded, DryRun, IInv, TypeOK
<1>4. CASE refused = {}
  <2>1. proposals' \subseteq proposals \cup {new} /\ rehearsed' = rehearsed \cup {done}
    BY <1>1, <1>4, KeptIsPart DEF Recorded
  <2> HIDE DEF new, done
  <2> QED BY <2>1, <1>2 DEF DryRun, IInv, TypeOK
<1> QED BY <1>3, <1>4

LEMMA DryRunStep ==
  ASSUME IInv, NEW m \in Manifests, DryRun(m)
  PROVE  IInv'
<1> USE StoreStep
<1>1. TypeOK'
  BY Numbers, CreateAssumption DEF IInv, TypeOK
<1>2. Stored'
  BY Numbers DEF IInv, Stored
<1>3. Distinct'
  BY Numbers DEF IInv, Stored, Distinct
<1>4. Fixed'
  <2>1. CASE call.phase # "none" /\ call.asked /\ call.manifest = Omitted
    <3>1. call.id \in Nat /\ call.id <= runs /\ Get(call.id) \in {Omitted, call.shown}
      BY <2>1 DEF IInv, Fixed, TypeOK, Call
    <3>2. Get(call.id)' \in {Omitted, Get(call.id)}
      <4>1. now' \in Nat /\ now <= now' /\ call' = call
        BY Numbers DEF IInv
      <4>2. \A p \in proposals' : p \in proposals \/ p.id = runs + 1
        OBVIOUS
      <4>3. \A id \in Nat : id <= runs => Get(id)' \in {Omitted, Get(id)}
        BY <4>1, <4>2, GetLater
      <4> QED BY <3>1, <4>1, <4>3
    <3>3. call' = call /\ call.id <= runs'
      BY <3>1, Numbers DEF IInv
    <3> QED BY <2>1, <3>1, <3>2, <3>3 DEF Fixed
  <2>2. CASE ~(call.phase # "none" /\ call.asked /\ call.manifest = Omitted)
    BY <2>2 DEF IInv, Fixed, HasErrors
  <2> QED BY <2>1, <2>2
<1>5. Covered'
  BY DEF IInv, Covered, Submitting
<1>6. AppliedWasRehearsed'
  BY DEF IInv, AppliedWasRehearsed, Submitting
<1>7. AgreedIsSubmitted' /\ NoValueIsMissing'
  BY DEF IInv, AgreedIsSubmitted, NoValueIsMissing, Submitting
<1> QED BY <1>1, <1>2, <1>3, <1>4, <1>5, <1>6, <1>7 DEF IInv

LEMMA TickStep ==
  ASSUME IInv, Tick
  PROVE  IInv'
<1> USE DEF Tick
<1>1. TypeOK'
  BY CreateAssumption DEF IInv, TypeOK
<1>2. Stored'
  BY Numbers DEF IInv, Stored
<1>3. Distinct'
  BY DEF IInv, Distinct
<1>4. Fixed'
  <2>1. CASE call.phase # "none" /\ call.asked /\ call.manifest = Omitted
    <3>1. call.id \in Nat /\ call.id <= runs /\ Get(call.id) \in {Omitted, call.shown}
      BY <2>1 DEF IInv, Fixed, TypeOK, Call
    <3>2. \A id \in Nat : id <= runs => Get(id)' \in {Omitted, Get(id)}
      BY Numbers, GetLater DEF IInv
    <3> QED BY <2>1, <3>1, <3>2 DEF Fixed
  <2>2. CASE ~(call.phase # "none" /\ call.asked /\ call.manifest = Omitted)
    BY <2>2 DEF IInv, Fixed, HasErrors
  <2> QED BY <2>1, <2>2
<1>5. Covered'
  BY DEF IInv, Covered, Submitting
<1>6. AppliedWasRehearsed'
  BY DEF IInv, AppliedWasRehearsed, Submitting
<1>7. AgreedIsSubmitted' /\ NoValueIsMissing'
  BY DEF IInv, AgreedIsSubmitted, NoValueIsMissing, Submitting
<1> QED BY <1>1, <1>2, <1>3, <1>4, <1>5, <1>6, <1>7 DEF IInv

LEMMA AroundStep ==
  ASSUME IInv, NewTurn \/ \E o \in Objects : Others(o)
  PROVE  IInv'
<1>1. /\ UNCHANGED <<now, runs, proposals, call, rehearsed>>
      /\ call.phase = "none" \/ denied' = denied
      /\ denied' \in Policies
  BY DEF NewTurn, Others, IInv, TypeOK
<1>2. cluster' \in [Objects -> {"absent", "theirs", "ours"}]
  BY DEF NewTurn, Others, IInv, TypeOK
<1>3. TypeOK'
  BY <1>1, <1>2 DEF IInv, TypeOK
<1>4. Stored' /\ Distinct'
  BY <1>1 DEF IInv, Stored, Distinct
<1>5. Fixed'
  BY <1>1 DEF IInv, Fixed, Get, Live, HasErrors
<1>6. Covered' /\ AppliedWasRehearsed' /\ AgreedIsSubmitted' /\ NoValueIsMissing'
  BY <1>1 DEF IInv, Covered, AppliedWasRehearsed, AgreedIsSubmitted, NoValueIsMissing,
     Submitting
<1> QED BY <1>3, <1>4, <1>5, <1>6 DEF IInv

-----------------------------------------------------------------------------
(* The steps of a call: they leave the store alone *)

Still == UNCHANGED <<now, denied, proposals, runs, rehearsed>>

LEMMA CallStep ==
  ASSUME IInv, Still, call' \in Call,
         cluster' \in [Objects -> {"absent", "theirs", "ours"}],
         Fixed', Covered', AppliedWasRehearsed', AgreedIsSubmitted', NoValueIsMissing'
  PROVE  IInv'
<1>1. TypeOK'
  BY DEF IInv, TypeOK, Still
<1>2. Stored' /\ Distinct'
  BY DEF IInv, Stored, Distinct, Still
<1> QED BY <1>1, <1>2 DEF IInv

LEMMA NoCallType == NoCall \in Call
<1>1. <<>> \in Seq(Result)
  OBVIOUS
<1> QED BY <1>1 DEF NoCall, Call

LEMMA ReturnStep ==
  ASSUME IInv, Still, UNCHANGED cluster, Return
  PROVE  IInv'
<1>1. call'.phase = "none" /\ call'.results = <<>> /\ call' \in Call
  BY NoCallType DEF Return, NoCall
<1>2. Fixed'
  BY <1>1 DEF Fixed
<1>3. Covered' /\ AppliedWasRehearsed' /\ AgreedIsSubmitted' /\ NoValueIsMissing'
  BY <1>1 DEF Covered, AppliedWasRehearsed, AgreedIsSubmitted, NoValueIsMissing, Submitting
<1>4. cluster' \in [Objects -> {"absent", "theirs", "ours"}]
  BY DEF IInv, TypeOK
<1> QED BY <1>1, <1>2, <1>3, <1>4, CallStep

LEMMA ApplyStep ==
  ASSUME IInv, NEW id \in 0..runs, NEW m \in Manifests \cup {Omitted},
         Apply(id, m) \/ ApplyUnasked(id, m)
  PROVE  IInv'
<1>1. Still /\ UNCHANGED cluster
  BY DEF Apply, ApplyUnasked, Still
<1>2. id \in Nat /\ id <= runs
  BY Numbers DEF IInv
<1>3. Described(id, m) \in Manifests \cup {Omitted}
  BY ResolveMeaning DEF IInv, Described
<1>4. /\ call' \in Call
      /\ call'.phase \in {"prompt", "agreed"} /\ call'.results = <<>>
      /\ call'.id = id /\ call'.manifest = m
      /\ call'.asked => call'.shown = Described(id, m)
  <2>1. CASE Apply(id, m)
    <3>1. call' = [NoCall EXCEPT !.phase = "prompt", !.id = id, !.manifest = m,
                                 !.asked = TRUE, !.shown = Described(id, m)]
      BY <2>1 DEF Apply
    <3> DEFINE shown == Described(id, m)
    <3>2. shown \in Manifests \cup {Omitted}
      BY <1>3
    <3> HIDE DEF shown
    <3> QED BY <3>1, <3>2, <1>2, NoCallType DEF NoCall, Call, shown
  <2>2. CASE ApplyUnasked(id, m)
    BY <2>2, <1>2, NoCallType DEF ApplyUnasked, NoCall, Call
  <2> QED BY <2>1, <2>2
<1>5. Fixed'
  <2>1. CASE m # Omitted
    <3>1. Described(id, m) = m \/ HasErrors(m)
      BY <2>1, ResolveMeaning DEF IInv, Described
    <3> QED BY <1>1, <1>4, <2>1, <3>1 DEF Fixed, HasErrors, Still
  <2>2. CASE m = Omitted
    <3>1. Get(id) \in {Omitted, Described(id, m)}
      BY <2>2 DEF Described, Resolve
    <3>2. Get(id)' = Get(id)
      BY <1>1 DEF Get, Live, Still
    <3> QED BY <1>1, <1>2, <1>4, <2>2, <3>1, <3>2 DEF Fixed, Still
  <2> QED BY <2>1, <2>2
<1>6. Covered' /\ AppliedWasRehearsed' /\ AgreedIsSubmitted' /\ NoValueIsMissing'
  BY <1>4 DEF Covered, AppliedWasRehearsed, AgreedIsSubmitted, NoValueIsMissing, Submitting
<1>7. cluster' \in [Objects -> {"absent", "theirs", "ours"}]
  BY <1>1 DEF IInv, TypeOK
<1> QED BY <1>1, <1>4, <1>5, <1>6, <1>7, CallStep

(* A call that goes on and is not yet submitted. *)
LEMMA WaitStep ==
  ASSUME IInv, Still, UNCHANGED cluster, call' \in Call, call.phase # "none",
         call'.phase \in {"agreed", "asking", "ready"},
         call'.id = call.id, call'.manifest = call.manifest,
         call'.asked = call.asked, call'.shown = call.shown,
         call'.results = call.results
  PROVE  IInv'
<1>1. Fixed'
  BY DEF IInv, Fixed, Get, Live, HasErrors, Still
<1>2. Covered' /\ AppliedWasRehearsed' /\ AgreedIsSubmitted' /\ NoValueIsMissing'
  BY DEF IInv, Covered, AppliedWasRehearsed, AgreedIsSubmitted, NoValueIsMissing, Submitting
<1>3. cluster' \in [Objects -> {"absent", "theirs", "ours"}]
  BY DEF IInv, TypeOK
<1> QED BY <1>1, <1>2, <1>3, CallStep

LEMMA PendingType ==
  ASSUME NEW m \in Manifests \cup {Omitted}
  PROVE  Pending(m) \subseteq Objects
<1>1. CASE m = Omitted
  BY <1>1 DEF Pending, Omitted
<1>2. CASE m \in Manifests
  <2>1. m \in Seq(Doc)
    BY <1>2, CreateAssumption
  <2>2. \A i \in DOMAIN m : m[i] \in Doc
    BY <2>1
  <2>3. \A d \in Doc : d.object \in Objects
    BY DEF Doc
  <2> QED BY <2>2, <2>3 DEF Pending
<1> QED BY <1>1, <1>2

LEMMA AskStep ==
  ASSUME IInv, Agree \/ AskValues \/ \E o \in Objects : GiveValue(o)
  PROVE  IInv'
<1>1. Still /\ UNCHANGED cluster /\ call.phase # "none" /\ call \in Call
  BY DEF Agree, AskValues, GiveValue, Still, IInv, TypeOK
<1>2. CASE Agree
  <2>1. call' \in Call
    BY <1>1, <1>2 DEF Agree, Call
  <2>2. /\ call'.phase = "agreed" /\ call'.results = call.results
        /\ call'.id = call.id /\ call'.manifest = call.manifest
        /\ call'.asked = call.asked /\ call'.shown = call.shown
    BY <1>1, <1>2 DEF Agree, Call
  <2> QED BY <1>1, <2>1, <2>2, WaitStep
<1>3. CASE AskValues
  <2> DEFINE wanted == Pending(Resolve(call.id, call.manifest))
             phase == IF wanted = {} THEN "ready" ELSE "asking"
  <2>1. wanted \subseteq Objects /\ phase \in {"ready", "asking"}
    BY <1>1, PendingType, ResolveMeaning DEF IInv, Call
  <2>2. call' = [call EXCEPT !.wanted = wanted, !.phase = phase]
    BY <1>3 DEF AskValues
  <2> HIDE DEF wanted, phase
  <2>3. call' \in Call
    BY <1>1, <2>1, <2>2 DEF Call
  <2>4. /\ call'.phase \in {"ready", "asking"} /\ call'.results = call.results
        /\ call'.id = call.id /\ call'.manifest = call.manifest
        /\ call'.asked = call.asked /\ call'.shown = call.shown
    BY <1>1, <2>1, <2>2 DEF Call
  <2> QED BY <1>1, <2>3, <2>4, WaitStep
<1>4. CASE \E o \in Objects : GiveValue(o)
  <2>1. PICK o \in Objects : GiveValue(o)
    BY <1>4
  <2> DEFINE values == call.values \cup {o}
             phase == IF values = call.wanted THEN "ready" ELSE call.phase
  <2>2. values \subseteq Objects /\ phase \in {"ready", "asking"}
    BY <1>1, <2>1 DEF GiveValue, Call
  <2>3. call' = [call EXCEPT !.values = values, !.phase = phase]
    BY <2>1 DEF GiveValue
  <2> HIDE DEF values, phase
  <2>4. call' \in Call
    BY <1>1, <2>2, <2>3 DEF Call
  <2>5. /\ call'.phase \in {"ready", "asking"} /\ call'.results = call.results
        /\ call'.id = call.id /\ call'.manifest = call.manifest
        /\ call'.asked = call.asked /\ call'.shown = call.shown
    BY <1>1, <2>2, <2>3 DEF Call
  <2> QED BY <1>1, <2>4, <2>5, WaitStep
<1> QED BY <1>2, <1>3, <1>4

LEMMA BeginStep ==
  ASSUME IInv, Begin
  PROVE  IInv'
<1> DEFINE docs == Resolve(call.id, call.manifest)
<1>1. Still /\ UNCHANGED cluster /\ call \in Call /\ call.phase = "ready"
  BY DEF Begin, Still, IInv, TypeOK
<1>2. CASE docs = Omitted \/ ~(Pending(docs) \subseteq call.values)
  BY <1>1, <1>2, ReturnStep DEF Begin
<1>3. CASE docs # Omitted /\ Pending(docs) \subseteq call.values
  <2>1. call' = [call EXCEPT !.phase = "check", !.docs = docs, !.at = now]
    BY <1>3 DEF Begin
  <2>2. /\ docs \in Manifests
        /\ \E p \in proposals : Live(p) /\ p.docs = docs
        /\ IF call.manifest = Omitted THEN docs = Get(call.id)
           ELSE docs = call.manifest /\ ~HasErrors(call.manifest)
    BY <1>1, <1>3, ResolveMeaning DEF IInv, Call
  <2>3. call.asked => docs = call.shown
    BY <1>1, <1>3, <2>2 DEF IInv, Fixed
  <2>4. \E r \in rehearsed : r.docs = docs /\ r.at <= now /\ now < r.at + TTL
    BY <2>2 DEF IInv, Stored, Live
  <2> HIDE DEF docs
  <2>5. call' \in Call
    BY <1>1, <2>1, <2>2, Numbers DEF Call, IInv
  <2>6. /\ call'.phase = "check" /\ call'.docs = docs /\ call'.at = now
        /\ call'.results = call.results /\ call'.values = call.values
        /\ call'.id = call.id /\ call'.manifest = call.manifest
        /\ call'.asked = call.asked /\ call'.shown = call.shown
    BY <1>1, <2>1 DEF Call
  <2>7. Fixed'
    BY <1>1, <2>6 DEF IInv, Fixed, Get, Live, HasErrors, Still
  <2>8. Covered'
    BY <1>3, <2>2, <2>6 DEF Covered, Pending
  <2>9. AppliedWasRehearsed'
    BY <1>1, <2>4, <2>6 DEF AppliedWasRehearsed, Still
  <2>10. AgreedIsSubmitted' /\ NoValueIsMissing'
    BY <2>3, <2>6 DEF IInv, AgreedIsSubmitted, NoValueIsMissing
  <2>11. cluster' \in [Objects -> {"absent", "theirs", "ours"}]
    BY <1>1 DEF IInv, TypeOK
  <2> QED BY <1>1, <2>5, <2>7, <2>8, <2>9, <2>10, <2>11, CallStep
<1> QED BY <1>2, <1>3

(* A call that is being submitted and has one more result, or none. *)
LEMMA SubmitStep ==
  ASSUME IInv, Still, Submitting, call' \in Call,
         cluster' \in [Objects -> {"absent", "theirs", "ours"}],
         Submitting', NoValueIsMissing',
         call'.phase = "patch" => Len(call'.results) < Len(call.docs),
         call'.id = call.id, call'.manifest = call.manifest,
         call'.asked = call.asked, call'.shown = call.shown,
         call'.docs = call.docs, call'.at = call.at, call'.values = call.values
  PROVE  IInv'
<1>1. Fixed'
  BY DEF IInv, Fixed, Get, Live, HasErrors, Still, Submitting
<1>2. Covered'
  BY DEF IInv, Covered, Pending, Submitting
<1>3. AppliedWasRehearsed' /\ AgreedIsSubmitted'
  BY DEF IInv, AppliedWasRehearsed, AgreedIsSubmitted, Submitting, Still
<1> QED BY <1>1, <1>2, <1>3, CallStep

LEMMA AppendMeaning ==
  ASSUME NEW S, NEW s \in Seq(S), NEW e \in S
  PROVE  Append(s, e) \in Seq(S)
  OBVIOUS

LEMMA AppendAvoids ==
  ASSUME NEW S, NEW s \in Seq(S), NEW out, NEW e \in S \ {out},
         \A i \in DOMAIN s : s[i] # out
  PROVE  \A i \in DOMAIN Append(s, e) : Append(s, e)[i] # out
  OBVIOUS

LEMMA AnswerStep ==
  ASSUME IInv, Still, Submitting, NEW result \in Result \ {"no value"}, Answered(result),
         cluster' \in [Objects -> {"absent", "theirs", "ours"}]
  PROVE  IInv'
<1>1. call \in Call /\ call.results \in Seq(Result)
  BY DEF IInv, TypeOK, Call
<1>2. call' \in Call
  <2>1. Append(call.results, result) \in Seq(Result)
    BY <1>1, AppendMeaning
  <2> QED BY <1>1, <2>1 DEF Answered, Call
<1>3. /\ call'.phase = "check" /\ call'.results = Append(call.results, result)
      /\ call'.id = call.id /\ call'.manifest = call.manifest
      /\ call'.asked = call.asked /\ call'.shown = call.shown
      /\ call'.docs = call.docs /\ call'.at = call.at /\ call'.values = call.values
  BY <1>1 DEF Answered, Call
<1>4. NoValueIsMissing'
  <2>1. \A i \in DOMAIN call.results : call.results[i] # "no value"
    BY DEF IInv, NoValueIsMissing
  <2>2. \A i \in DOMAIN Append(call.results, result) :
          Append(call.results, result)[i] # "no value"
    BY <1>1, <2>1, AppendAvoids
  <2> QED BY <1>3, <2>2, Zenon DEF NoValueIsMissing
<1>5. Submitting'
  BY <1>3 DEF Submitting
<1> QED BY <1>2, <1>3, <1>4, <1>5, SubmitStep

LEMMA PrecheckStep ==
  ASSUME IInv, Precheck
  PROVE  IInv'
<1>1. /\ Still /\ Submitting /\ call \in Call /\ call.phase = "check"
      /\ Len(call.results) < Len(call.docs)
      /\ cluster' \in [Objects -> {"absent", "theirs", "ours"}]
  BY DEF Precheck, Still, IInv, TypeOK, Submitting
<1>2. CASE call' = [call EXCEPT !.phase = "patch"]
  <2>1. call' \in Call
    BY <1>1, <1>2 DEF Call
  <2>2. /\ call'.phase = "patch" /\ call'.results = call.results
        /\ call'.id = call.id /\ call'.manifest = call.manifest
        /\ call'.asked = call.asked /\ call'.shown = call.shown
        /\ call'.docs = call.docs /\ call'.at = call.at /\ call'.values = call.values
    BY <1>1, <1>2 DEF Call
  <2>3. Submitting' /\ NoValueIsMissing'
    BY <2>2 DEF Submitting, NoValueIsMissing, IInv
  <2> QED BY <1>1, <2>1, <2>2, <2>3, SubmitStep
<1>3. CASE Answered("exists")
  BY <1>1, <1>3, AnswerStep DEF Result
<1>4. CASE Answered("no namespace")
  BY <1>1, <1>4, AnswerStep DEF Result
<1> QED BY <1>2, <1>3, <1>4 DEF Precheck

LEMMA PatchStep ==
  ASSUME IInv, Patch
  PROVE  IInv'
<1>1. Still /\ Submitting /\ call \in Call /\ call.phase = "patch"
  BY DEF Patch, Still, IInv, TypeOK, Submitting
<1>2. Len(call.results) + 1 \in DOMAIN call.docs
  <2>1. call.docs \in Seq(Doc) /\ call.results \in Seq(Result)
    BY <1>1, CreateAssumption DEF IInv, Covered, Call
  <2>2. Len(call.results) < Len(call.docs)
    BY <1>1 DEF IInv, Covered
  <2> QED BY <2>1, <2>2
<1>3. Current.ask => Current.object \in call.values
  BY <1>1, <1>2 DEF IInv, Covered, Pending, Current
<1>4. PICK result \in {"failed", "created"} : Refuse(result) \/ Land(result)
  BY <1>3 DEF Patch
<1>5. cluster' \in [Objects -> {"absent", "theirs", "ours"}]
  BY <1>4 DEF Refuse, Land, IInv, TypeOK
<1>6. Answered(result)
  BY <1>4 DEF Refuse, Land
<1> QED BY <1>1, <1>4, <1>5, <1>6, AnswerStep DEF Result

-----------------------------------------------------------------------------
LEMMA Starts == Init => IInv
<1> SUFFICES ASSUME Init PROVE IInv
  OBVIOUS
<1>1. TypeOK
  BY NoCallType, CreateAssumption DEF Init, TypeOK
<1>2. call.phase = "none" /\ call.results = <<>>
  BY DEF Init, NoCall
<1> QED
  BY <1>1, <1>2 DEF Init, IInv, Stored, Distinct, Fixed, Covered, AppliedWasRehearsed,
     AgreedIsSubmitted, NoValueIsMissing, Submitting

LEMMA Keeps == IInv /\ [Next]_vars => IInv'
<1> SUFFICES ASSUME IInv, [Next]_vars PROVE IInv'
  OBVIOUS
<1>1. CASE \E m \in Manifests : DryRun(m)
  BY <1>1, DryRunStep
<1>2. CASE \E id \in 0..runs, m \in Manifests \cup {Omitted} :
             Apply(id, m) \/ ApplyUnasked(id, m)
  BY <1>2, ApplyStep
<1>3. CASE Agree \/ AskValues \/ \E o \in Objects : GiveValue(o)
  BY <1>3, AskStep
<1>4. CASE Decline \/ WithholdValue \/ Report
  BY <1>4, ReturnStep DEF Decline, WithholdValue, Report, Still
<1>5. CASE Begin
  BY <1>5, BeginStep
<1>6. CASE Precheck
  BY <1>6, PrecheckStep
<1>7. CASE Patch
  BY <1>7, PatchStep
<1>8. CASE Tick
  BY <1>8, TickStep
<1>9. CASE NewTurn \/ \E o \in Objects : Others(o)
  BY <1>9, AroundStep
<1>10. CASE UNCHANGED vars
  BY <1>10 DEF vars, IInv, TypeOK, Stored, Distinct, Fixed, Covered, AppliedWasRehearsed,
     AgreedIsSubmitted, NoValueIsMissing, Submitting, Get, Live, HasErrors
<1> QED
  BY <1>1, <1>2, <1>3, <1>4, <1>5, <1>6, <1>7, <1>8, <1>9, <1>10 DEF Next

(* The inductive invariant holds of every behaviour. *)
THEOREM Invariant == Spec => []IInv
  BY Starts, Keeps, PTL DEF Spec

(* The variables of the channel have their types. *)
THEOREM Typed == Spec => []TypeOK
<1>1. IInv => TypeOK
  BY DEF IInv
<1> QED BY <1>1, Invariant, PTL

(* What mode apply submits is a manifest all of whose documents passed one dry
   run less than TTL earlier. *)
THEOREM Rehearsed == Spec => []AppliedWasRehearsed
<1>1. IInv => AppliedWasRehearsed
  BY DEF IInv
<1> QED BY <1>1, Invariant, PTL

(* What mode apply submits after a prompt is what the prompt showed. *)
THEOREM Agreed == Spec => []AgreedIsSubmitted
<1>1. IInv => AgreedIsSubmitted
  BY DEF IInv
<1> QED BY <1>1, Invariant, PTL

(* No document is refused for want of a Secret's value. *)
THEOREM ValuesFirst == Spec => []NoValueIsMissing
<1>1. IInv => NoValueIsMissing
  BY DEF IInv
<1> QED BY <1>1, Invariant, PTL

-----------------------------------------------------------------------------
(* The store answers as if it held the latest of the recent rehearsals *)

(* Rehearsals go by ids of the past, in the order of their time. *)
Chronicle ==
  /\ IsFiniteSet(rehearsed)
  /\ \A r \in rehearsed : r.id <= runs /\ r.at <= now
  /\ \A r, q \in rehearsed : /\ r.id < q.id => r.at <= q.at
                             /\ r.id = q.id => r = q

AsProposal(r) == [id |-> r.id, docs |-> r.docs, expires |-> r.at + TTL]
Young == {r \in rehearsed : now < r.at + TTL}
Later(r) == {q \in Young : q.id > r.id}
Latest == {r \in Young : Cardinality(Later(r)) < MaxPerSession}

(* The live proposals are those of the latest rehearsals, one each. *)
Recent == {p \in proposals : Live(p)} = {AsProposal(r) : r \in Latest}

StoreInv == Chronicle /\ Recent

LEMMA ProposalOf ==
  ASSUME TypeOK, Chronicle, NEW r \in rehearsed
  PROVE  /\ AsProposal(r).id = r.id /\ AsProposal(r).docs = r.docs
         /\ AsProposal(r).expires = r.at + TTL
         /\ \A q \in rehearsed : AsProposal(q) = AsProposal(r) => q = r
  BY DEF AsProposal, Chronicle

LEMMA SameCount ==
  ASSUME TypeOK, Chronicle, NEW S, S \subseteq rehearsed
  PROVE  /\ IsFiniteSet(S) /\ IsFiniteSet({AsProposal(r) : r \in S})
         /\ Cardinality({AsProposal(r) : r \in S}) = Cardinality(S)
<1> DEFINE f == [r \in S |-> AsProposal(r)]
           T == {AsProposal(r) : r \in S}
<1>1. IsFiniteSet(S)
  BY FS_Subset DEF Chronicle
<1>2. \A r, q \in S : AsProposal(q) = AsProposal(r) => q = r
  BY ProposalOf
<1>3. f \in Bijection(S, T)
  BY <1>2 DEF Bijection, Injection, Surjection, IsInjective
<1>4. ExistsBijection(S, T)
  BY <1>3 DEF ExistsBijection
<1> QED BY <1>1, <1>4, FS_Bijection

(* What is later than a late rehearsal is late. *)
LEMMA LaterIsLatest ==
  ASSUME TypeOK, Chronicle, NEW r \in Young, Cardinality(Later(r)) < MaxPerSession
  PROVE  Later(r) \subseteq Latest
<1> SUFFICES ASSUME NEW q \in Later(r)
             PROVE  Cardinality(Later(q)) < MaxPerSession
  BY DEF Latest, Later
<1>1. Later(q) \subseteq Later(r)
  BY Numbers DEF Later, Young
<1>2. IsFiniteSet(Later(r))
  BY FS_Subset DEF Later, Young, Chronicle
<1>3. Cardinality(Later(q)) <= Cardinality(Later(r))
  BY <1>1, <1>2, FS_Subset
<1>4. Cardinality(Later(q)) \in Nat /\ Cardinality(Later(r)) \in Nat
  BY <1>1, <1>2, FS_Subset, FS_CardinalityType
<1> QED BY <1>3, <1>4, CreateAssumption

(* The clock takes the oldest of the recent rehearsals away, and the same of
   the proposals. *)
LEMMA TimePasses ==
  ASSUME TypeOK, TypeOK', StoreInv, now <= now', runs <= runs',
         UNCHANGED <<proposals, rehearsed>>
  PROVE  StoreInv'
<1> USE DEF StoreInv
<1>1. Chronicle'
  BY Numbers DEF Chronicle, TypeOK
<1>2. Young' \subseteq Young
  BY Numbers DEF Young, TypeOK
<1>3. \A r \in Young' : Later(r)' = Later(r)
  BY Numbers DEF Young, Later, Chronicle, TypeOK
<1>4. Latest' = {r \in Latest : now' < r.at + TTL}
  BY <1>2, <1>3 DEF Latest, Young
<1>5. {p \in proposals' : Live(p)'} = {p \in {q \in proposals : Live(q)} : now' < p.expires}
  BY Numbers DEF Live, TypeOK
<1>6. \A r \in Latest : now' < AsProposal(r).expires <=> now' < r.at + TTL
  BY DEF AsProposal
<1>7. Recent'
  <2>1. {p \in proposals' : Live(p)'} = {p \in {AsProposal(r) : r \in Latest} : now' < p.expires}
    BY <1>5 DEF Recent
  <2>2. \A r : AsProposal(r)' = AsProposal(r)
    BY DEF AsProposal
  <2> HIDE DEF AsProposal
  <2> QED BY <1>4, <1>6, <2>1, <2>2 DEF Recent
<1> QED BY <1>1, <1>7

(* A rehearsal that passes comes in as the latest. *)
LEMMA OneMore ==
  ASSUME TypeOK, StoreInv, NEW m \in Manifests, NEW done, UNCHANGED now, runs' = runs + 1,
         done = [id |-> runs + 1, docs |-> m, at |-> now],
         rehearsed' = rehearsed \cup {done},
         proposals' = Kept(proposals \cup {AsProposal(done)})
  PROVE  StoreInv'
<1> DEFINE new == AsProposal(done)
           held == {p \in proposals : Live(p)}
           Higher(S, p) == {q \in S : q.id > p.id}
<1> USE DEF StoreInv
<1>1. /\ done.id = runs + 1 /\ done.docs = m /\ done.at = now /\ rehearsed' = rehearsed \cup {done}
      /\ new = [id |-> runs + 1, docs |-> m, expires |-> now + TTL]
      /\ new.id = runs + 1 /\ new.expires = now + TTL
      /\ \A r \in rehearsed : r.id < done.id /\ r # done
  BY Numbers DEF AsProposal, Chronicle
<1>2. Chronicle'
  <2>1. IsFiniteSet(rehearsed')
    BY <1>1, FS_AddElement DEF Chronicle
  <2> QED BY <1>1, <2>1, Numbers DEF Chronicle
<1>3. Young' = Young \cup {done} /\ done \notin Young
  BY <1>1, Numbers DEF Young
<1>4. \A r \in Young : /\ Later(r)' = Later(r) \cup {done} /\ done \notin Later(r)
                       /\ IsFiniteSet(Later(r))
                       /\ Cardinality(Later(r)') = Cardinality(Later(r)) + 1
                       /\ Cardinality(Later(r)) \in Nat
  <2> SUFFICES ASSUME NEW r \in Young
               PROVE  /\ Later(r)' = Later(r) \cup {done} /\ done \notin Later(r)
                      /\ IsFiniteSet(Later(r))
                      /\ Cardinality(Later(r)') = Cardinality(Later(r)) + 1
                      /\ Cardinality(Later(r)) \in Nat
    OBVIOUS
  <2>1. Later(r)' = Later(r) \cup {done} /\ done \notin Later(r)
    BY <1>1, <1>3, Numbers DEF Later, Young
  <2>2. IsFiniteSet(Later(r))
    BY FS_Subset DEF Later, Young, Chronicle
  <2> QED BY <2>1, <2>2, FS_AddElement, FS_CardinalityType
<1>5. Later(done)' = {}
  BY <1>1, <1>3, Numbers DEF Later, Young
<1>6. Latest' = {r \in Latest : Cardinality(Later(r)) + 1 < MaxPerSession} \cup {done}
  <2>1. Cardinality(Later(done)') < MaxPerSession
    <3>1. Cardinality(Later(done)') = 0
      BY <1>5, FS_EmptySet, Zenon
    <3>2. 0 < MaxPerSession
      BY Numbers
    <3> QED BY <3>1, <3>2
  <2>2. \A r \in Young : Cardinality(Later(r)') < MaxPerSession
                          <=> Cardinality(Later(r)) + 1 < MaxPerSession
    BY <1>4
  <2>3. \A r \in Young : Cardinality(Later(r)) + 1 < MaxPerSession
                          => Cardinality(Later(r)) < MaxPerSession
    BY <1>4, Numbers
  <2> QED BY <1>3, <2>1, <2>2, <2>3 DEF Latest
<1>7. held = {AsProposal(r) : r \in Latest}
  BY DEF Recent
<1>8. /\ {p \in proposals \cup {new} : Live(p)} = held \cup {new}
      /\ proposals' = {p \in held \cup {new} : Cardinality(Higher(held \cup {new}, p)) < MaxPerSession}
  <2>1. Live(new)
    BY <1>1, Numbers DEF Live
  <2>2. {p \in proposals \cup {new} : Live(p)} = held \cup {new}
    BY <2>1
  <2>3. proposals' = Kept(proposals \cup {new})
    BY <1>1
  <2> HIDE DEF new
  <2> QED BY <2>2, <2>3 DEF Kept
<1>9. ASSUME NEW r \in Latest
      PROVE  Cardinality(Higher(held \cup {new}, AsProposal(r))) = Cardinality(Later(r)) + 1
  <2> DEFINE p == AsProposal(r)
  <2>1. Higher(held, p) = {AsProposal(q) : q \in Later(r)}
    <3>1. Later(r) \subseteq Latest
      BY LaterIsLatest DEF Latest
    <3>2. Higher(held, p) = {AsProposal(q) : q \in {s \in Latest : s.id > r.id}}
      <4>1. \A s \in Latest : AsProposal(s).id = s.id
        BY DEF AsProposal
      <4> QED BY <1>7, <4>1
    <3>3. {s \in Latest : s.id > r.id} = Later(r)
      BY <3>1 DEF Later, Latest
    <3> QED BY <3>2, <3>3
  <2>2. IsFiniteSet(Higher(held, p)) /\ Cardinality(Higher(held, p)) = Cardinality(Later(r))
    <3>1. Later(r) \subseteq rehearsed
      BY DEF Later, Young
    <3> HIDE DEF p
    <3> QED BY <2>1, <3>1, SameCount
  <2>3. Higher(held \cup {new}, p) = Higher(held, p) \cup {new} /\ new \notin held
    <3>1. r \in rehearsed /\ p.id = r.id
      BY DEF Latest, Young, AsProposal
    <3>2. new.id > p.id
      BY <1>1, <3>1, Numbers
    <3>3. \A q \in held : q.id # new.id
      <4>1. \A s \in Latest : AsProposal(s).id < new.id
        BY <1>1, Numbers DEF AsProposal, Latest, Young
      <4> QED BY <1>7, <4>1, Numbers
    <3> HIDE DEF new, p, held
    <3> QED BY <3>2, <3>3
  <2>4. new \notin Higher(held, p)
    BY <2>3
  <2> HIDE DEF new, held, Higher
  <2>5. Cardinality(Higher(held \cup {new}, p)) = Cardinality(Later(r)) + 1
    BY <2>2, <2>3, <2>4, FS_AddElement
  <2> QED BY <2>5
<1>10. Cardinality(Higher(held \cup {new}, new)) = 0
  <2>1. \A s \in Latest : ~(AsProposal(s).id > new.id)
    BY <1>1, Numbers DEF AsProposal, Latest, Young
  <2>2. ~(new.id > new.id)
    BY <1>1, Numbers
  <2>3. Higher(held \cup {new}, new) = {}
    BY <1>7, <2>1, <2>2
  <2> QED BY <2>3, FS_EmptySet
<1>11. proposals' = {AsProposal(r) : r \in Latest'}
  <2> HIDE DEF new, Higher, held
  <2>1. new \in proposals'
    <3>1. 0 < MaxPerSession
      BY Numbers
    <3> QED BY <1>8, <1>10, <3>1
  <2>2. \A r \in Latest : AsProposal(r) \in proposals' <=> Cardinality(Later(r)) + 1 < MaxPerSession
    BY <1>7, <1>8, <1>9
  <2>3. proposals' \subseteq {AsProposal(r) : r \in Latest} \cup {new}
    BY <1>7, <1>8
  <2>4. new = AsProposal(done)
    BY DEF new
  <2> QED BY <1>6, <2>1, <2>2, <2>3, <2>4
<1>12. Recent'
  <2>1. \A p \in proposals' : Live(p)'
    <3>1. \A p \in held \cup {new} : Live(p)
      BY <1>8
    <3>2. \A p : Live(p)' <=> Live(p)
      BY DEF Live
    <3> QED BY <1>8, <3>1, <3>2
  <2>2. \A r : AsProposal(r)' = AsProposal(r)
    BY DEF AsProposal
  <2>3. {p \in proposals' : Live(p)'} = proposals'
    BY <2>1
  <2> HIDE DEF AsProposal
  <2> QED BY <1>11, <2>2, <2>3 DEF Recent
<1> QED BY <1>2, <1>12

LEMMA StoreMoves ==
  ASSUME IInv, IInv', StoreInv, [Next]_vars
  PROVE  StoreInv'
<1>1. TypeOK /\ TypeOK'
  BY DEF IInv
<1>2. ASSUME NEW m \in Manifests, DryRun(m)
      PROVE  StoreInv'
  <2> DEFINE done == [id |-> runs + 1, docs |-> m, at |-> now]
  <2>1. UNCHANGED now /\ runs' = runs + 1
    BY <1>2 DEF DryRun
  <2>2. PICK refused \in SUBSET DOMAIN m :
          /\ proposals' = Recorded(m, refused)
          /\ rehearsed' = IF refused # {} THEN rehearsed ELSE rehearsed \cup {done}
    BY <1>2 DEF DryRun
  <2>3. CASE refused # {}
    <3>1. UNCHANGED <<proposals, rehearsed>> /\ now <= now' /\ runs <= runs'
      BY <1>1, <2>1, <2>2, <2>3, Numbers DEF Recorded
    <3> QED BY <1>1, <3>1, TimePasses
  <2>4. CASE refused = {}
    <3>1. AsProposal(done) = [id |-> runs + 1, docs |-> m, expires |-> now + TTL]
      BY DEF AsProposal
    <3>2. /\ rehearsed' = rehearsed \cup {done}
          /\ proposals' = Kept(proposals \cup {AsProposal(done)})
      BY <2>2, <2>4, <3>1 DEF Recorded
    <3> QED BY <1>1, <2>1, <3>2, OneMore
  <2> QED BY <2>3, <2>4
<1>3. CASE Tick
  <2>1. UNCHANGED <<proposals, rehearsed>> /\ now <= now' /\ runs <= runs'
    BY <1>1, <1>3, Numbers DEF Tick
  <2> QED BY <1>1, <2>1, TimePasses
<1>4. CASE UNCHANGED <<now, proposals, runs, rehearsed>>
  <2>1. UNCHANGED <<proposals, rehearsed>> /\ now <= now' /\ runs <= runs'
    BY <1>1, <1>4, Numbers
  <2> QED BY <1>1, <2>1, TimePasses
<1>5. (\E m \in Manifests : DryRun(m)) \/ Tick \/ UNCHANGED <<now, proposals, runs, rehearsed>>
  BY DEF Next, vars, Apply, ApplyUnasked, Agree, Decline, AskValues, GiveValue, WithholdValue,
         Begin, Precheck, Patch, Report, NewTurn, Others
<1> QED BY <1>2, <1>3, <1>4, <1>5

(* The store, swept only as proposals come in, answers as if it held the
   latest MaxPerSession rehearsals that are not older than TTL: a proposal is
   pushed out by later ones and by nothing else. *)
THEOREM StoreRecent == Spec => []StoreIsRecent
<1>1. Init => StoreInv
  <2>1. ASSUME Init PROVE rehearsed = {} /\ proposals = {}
    BY <2>1 DEF Init
  <2> QED BY <2>1, FS_EmptySet DEF StoreInv, Chronicle, Recent, Latest, Young
<1>2. IInv /\ IInv' /\ StoreInv /\ [Next]_vars => StoreInv'
  BY StoreMoves
<1>3. ASSUME StoreInv PROVE StoreIsRecent
  <2> DEFINE held == {p \in proposals : Live(p)}
  <2>1. held = {AsProposal(r) : r \in Latest}
    BY <1>3 DEF StoreInv, Recent
  <2>2. \A r : AsProposal(r).id = r.id /\ AsProposal(r).docs = r.docs
    BY DEF AsProposal
  <2> HIDE DEF AsProposal, held
  <2>3. {<<p.id, p.docs>> : p \in held} = {<<r.id, r.docs>> : r \in Latest}
    BY <2>1, <2>2
  <2> USE DEF held
  <2> QED BY <2>3 DEF StoreIsRecent, Latest, Later, Young
<1> QED BY <1>1, <1>2, <1>3, Invariant, PTL DEF Spec

-----------------------------------------------------------------------------
(***************************************************************************)
(* The runs of a chat session, for any number of messages, answers, renames *)
(* and prompts and however often the id of the session is taken again.      *)
(***************************************************************************)

(* What the updates of a row and of a run leave them.                       *)
LEMMA RowFacts ==
  /\ NoRow \in Row /\ FreshRow \in Row
  /\ \A c \in Row, n \in Edits : [c EXCEPT !.name = n] \in Row
  /\ \A c \in Row, r \in Sends : [c EXCEPT !.talks = @ \cup {r}] \in Row
  BY DEF Row, NoRow, FreshRow

LEMMA RunFacts ==
  ASSUME NEW q \in Run
  PROVE  /\ \A c \in Row : [q EXCEPT !.pc = "opened", !.copy = c] \in Run
         /\ \A c \in Row : [q EXCEPT !.pc = "saved", !.copy = c] \in Run
         /\ \A n \in 0..MaxPrompts : [q EXCEPT !.pc = "asking", !.asked = n] \in Run
         /\ \A w \in SUBSET (0..MaxPrompts) :
              [q EXCEPT !.pc = "working", !.box = None, !.wrote = w] \in Run
         /\ [q EXCEPT !.pc = "over", !.ctx = "done"] \in Run
  BY Zenon DEF Run

(* Every variable keeps its shape, whatever the requests do. *)
THEOREM RunsTyped == RunsSpec => []RunsTypeOK
<1> USE RowsAssumption, RunsAssumption
<1>1. RunsInit => RunsTypeOK
  BY RowFacts DEF RunsInit, RowsInit, RunsTypeOK, RowsTypeOK, Run, Post, NoPost
<1>2. RunsTypeOK /\ [RunsNext]_sessionVars => RunsTypeOK'
  <2> SUFFICES ASSUME RunsTypeOK, [RunsNext]_sessionVars PROVE RunsTypeOK'
    OBVIOUS
  <2> USE DEF RunsTypeOK, RowsTypeOK
  <2>1. \A r \in Sends : SendOwned(r) => RunsTypeOK'
    BY DEF SendOwned, rowVars, Run
  <2>2. \A r \in Sends : SendRefused(r) => RunsTypeOK'
    BY DEF SendRefused, rowVars, Run
  <2>3. \A r \in Sends : Admit(r) => RunsTypeOK'
    BY DEF Admit, rowVars, Run
  <2>4. \A r \in Sends : ChatOpened(r) => RunsTypeOK'
    <3> SUFFICES ASSUME NEW r \in Sends, ChatOpened(r) PROVE RunsTypeOK'
      OBVIOUS
    <3>1. [run[r] EXCEPT !.pc = "opened", !.copy = row] \in Run
      BY RunFacts
    <3> QED
      BY <3>1 DEF ChatOpened, rowVars
  <2>5. \A r \in Sends : ChatFailed(r) => RunsTypeOK'
    <3> SUFFICES ASSUME NEW r \in Sends, ChatFailed(r) PROVE RunsTypeOK'
      OBVIOUS
    <3>1. [run[r] EXCEPT !.pc = "over", !.ctx = "done"] \in Run
      BY RunFacts
    <3> QED
      BY <3>1 DEF ChatFailed, rowVars
  <2>6. \A r \in Sends : TurnStart(r) => RunsTypeOK'
    BY DEF TurnStart, Step, Traced, Run
  <2>7. \A r \in Sends : Ask(r) => RunsTypeOK'
    <3> SUFFICES ASSUME NEW r \in Sends, Ask(r) PROVE RunsTypeOK'
      OBVIOUS
    <3>1. run[r].asked + 1 \in 0..MaxPrompts
      BY DEF Ask, Run
    <3>2. [run[r] EXCEPT !.pc = "asking", !.asked = run[r].asked + 1] \in Run
      BY <3>1, RunFacts
    <3>3. run' = [run EXCEPT ![r] = [run[r] EXCEPT !.pc = "asking", !.asked = run[r].asked + 1]]
      BY Zenon DEF Ask
    <3> QED
      BY <3>2, <3>3 DEF Ask, Traced
  <2>8. \A r \in Sends : TakeAnswer(r) => RunsTypeOK'
    <3> SUFFICES ASSUME NEW r \in Sends, TakeAnswer(r) PROVE RunsTypeOK'
      OBVIOUS
    <3>1. run[r].box \in Posts
      BY DEF TakeAnswer, Run
    <3>2. run[r].wrote \subseteq 0..MaxPrompts /\ run[r].asked \in 0..MaxPrompts
      BY DEF Run
    <3> DEFINE w == IF post[run[r].box].choice = "yes" /\ run[r].ctx = "open"
                    THEN run[r].wrote \cup {run[r].asked} ELSE run[r].wrote
    <3>3. [run[r] EXCEPT !.pc = "working", !.box = None, !.wrote = w] \in Run
      BY <3>2, RunFacts
    <3>4. run' = [run EXCEPT ![r] = [run[r] EXCEPT !.pc = "working", !.box = None, !.wrote = w]]
      BY Zenon DEF TakeAnswer
    <3> HIDE DEF w
    <3>6. run' \in [Sends -> Run]
      BY <3>3, <3>4
    <3>5. post' \in [Posts -> Post]
      BY <3>1 DEF TakeAnswer, Post
    <3> QED
      BY <3>5, <3>6 DEF TakeAnswer, Traced
  <2>9. \A r \in Sends : GiveUp(r) => RunsTypeOK'
    BY DEF GiveUp, rowVars, Run
  <2>10. \A r \in Sends : Finish(r) => RunsTypeOK'
    BY DEF Finish, Step, Traced, Run
  <2>11. \A r \in Sends : SaveTurn(r) => RunsTypeOK'
    <3> SUFFICES ASSUME NEW r \in Sends, SaveTurn(r) PROVE RunsTypeOK'
      OBVIOUS
    <3>1. [run[r] EXCEPT !.pc = "saved", !.copy = NoRow] \in Run
      BY RowFacts, RunFacts
    <3>2. run[r].copy \in Row
      BY DEF Run
    <3>3. row' \in Row
      BY <3>2, RowFacts DEF SaveTurn, SavedRow
    <3> QED
      BY <3>1, <3>3 DEF SaveTurn
  <2>12. \A r \in Sends : SaveFailed(r) => RunsTypeOK'
    <3> SUFFICES ASSUME NEW r \in Sends, SaveFailed(r) PROVE RunsTypeOK'
      OBVIOUS
    <3>1. [run[r] EXCEPT !.pc = "saved", !.copy = NoRow] \in Run
      BY RowFacts, RunFacts
    <3> QED
      BY <3>1 DEF SaveFailed, rowVars
  <2>13. \A r \in Sends : Unwind(r) => RunsTypeOK'
    <3> SUFFICES ASSUME NEW r \in Sends, Unwind(r) PROVE RunsTypeOK'
      OBVIOUS
    <3>1. [run[r] EXCEPT !.pc = "over", !.ctx = "done"] \in Run
      BY RunFacts
    <3> QED
      BY <3>1 DEF Unwind, rowVars
  <2>14. \A r \in Sends : Expire(r) => RunsTypeOK'
    BY DEF Expire, rowVars, Run
  <2>15. \A a \in Posts : PostOwned(a) => RunsTypeOK'
    BY DEF PostOwned, rowVars, Post, Prompts, Run
  <2>16. \A a \in Posts : PostLookup(a) => RunsTypeOK'
    <3> SUFFICES ASSUME NEW a \in Posts, PostLookup(a) PROVE RunsTypeOK'
      OBVIOUS
    <3>1. Refused \in Post /\ [post[a] EXCEPT !.pc = "holding", !.to = slot] \in Post
      BY DEF Post, Refused, NoPost
    <3> QED
      BY <3>1 DEF PostLookup, rowVars
  <2>17. \A a \in Posts : PostSend(a) => RunsTypeOK'
    <3> SUFFICES ASSUME NEW a \in Posts, PostSend(a) PROVE RunsTypeOK'
      OBVIOUS
    <3>1. Refused \in Post /\ [post[a] EXCEPT !.pc = "accepted"] \in Post
      BY DEF Post, Refused, NoPost
    <3>2. post[a].to \in Sends => [run[post[a].to] EXCEPT !.box = a] \in Run
      BY DEF Run
    <3> QED
      BY <3>1, <3>2 DEF PostSend, rowVars
  <2>18. \A e \in Edits : EditRead(e) /\ UNCHANGED chatVars => RunsTypeOK'
    BY DEF EditRead, chatVars
  <2>19. \A e \in Edits : EditWrite(e) /\ UNCHANGED chatVars => RunsTypeOK'
    BY RowFacts DEF EditWrite, chatVars, SavedRow
  <2>20. Create => RunsTypeOK'
    BY RowFacts DEF Create, CreateRow, chatVars
  <2>21. Cancel => RunsTypeOK'
    BY DEF Cancel, rowVars, Run
  <2>22. DeleteRow => RunsTypeOK'
    BY RowFacts DEF DeleteRow, DropRow
  <2>23. DeleteRuns => RunsTypeOK'
    BY DEF DeleteRuns, rowVars, Run
  <2>24. UNCHANGED sessionVars => RunsTypeOK'
    BY DEF sessionVars, rowVars, chatVars
  <2> QED
    BY <2>1, <2>2, <2>3, <2>4, <2>5, <2>6, <2>7, <2>8, <2>9, <2>10, <2>11, <2>12, <2>13, <2>14, <2>15, <2>16, <2>17, <2>18, <2>19, <2>20, <2>21, <2>22, <2>23, <2>24
      DEF RunsNext, RunStep, EditNext
<1> QED
  BY <1>1, <1>2, PTL DEF RunsSpec

(* A step of one run that touches neither the session's row nor the maps, and
   neither begins to work nor takes a copy nor wakes its context. *)
LEMMA QuietStep ==
  ASSUME RunsTypeOK, Inductive, NEW r \in Sends,
         UNCHANGED <<row, lives, edit, slot, deleting>>,
         run' = [run EXCEPT ![r] = run'[r]],
         Active(r)' <=> Active(r), Working(r)' => Working(r),
         Copied(r)' => Copied(r) /\ run'[r].copy = run[r].copy,
         run[r].ctx = "done" => run'[r].ctx = "done"
  PROVE  Inductive'
<1>1. \A q \in Sends : q # r => run'[q] = run[q]
  BY DEF RunsTypeOK
<1>2. \A q \in Sends : /\ Active(q)' <=> Active(q)
                       /\ Working(q)' => Working(q)
                       /\ Copied(q)' => Copied(q) /\ run'[q].copy = run[q].copy
                       /\ run[q].ctx = "done" => run'[q].ctx = "done"
  BY <1>1 DEF Active, Working, Copied
<1>3. Exists' <=> Exists
  BY DEF Exists
<1>4. SlotIsHeld' /\ ActiveIsRegistered'
  BY <1>2, <1>3, RunsAssumption DEF Inductive, SlotIsHeld, ActiveIsRegistered, RunsTypeOK
<1>5. OneRunAtATime' /\ OneDelete'
  BY <1>2, <1>3 DEF Inductive, OneRunAtATime, OneDelete
<1>6. DeletedRunIsStopped'
  BY <1>2, <1>3 DEF Inductive, DeletedRunIsStopped
<1>7. CopiesAreLive' /\ CopiesAreCurrent'
  BY <1>2, <1>3 DEF Inductive, CopiesAreLive, CopiesAreCurrent, NobodyRenames
<1> QED
  BY <1>4, <1>5, <1>6, <1>7 DEF Inductive

(* A registration is never left behind; until the id is taken again one run at
   most holds the session's row, and a finished delete has cancelled it. *)
THEOREM RunsSafe == RunsSpec => []Inductive
<1> USE RowsAssumption, RunsAssumption
<1>1. RunsInit => Inductive
  BY DEF RunsInit, RowsInit, Inductive, SlotIsHeld, OneRunAtATime, DeletedRunIsStopped, OneDelete,
     ActiveIsRegistered, CopiesAreLive, CopiesAreCurrent, Active, Working, Copied, Exists, FreshRow
<1>2. RunsTypeOK /\ Inductive /\ [RunsNext]_sessionVars => Inductive'
  <2> SUFFICES ASSUME RunsTypeOK, Inductive, [RunsNext]_sessionVars PROVE Inductive'
    OBVIOUS
  <2> USE DEF RunsTypeOK, RowsTypeOK
  <2>1. \A r \in Sends : SendOwned(r) => Inductive'
    <3> SUFFICES ASSUME NEW r \in Sends, SendOwned(r) PROVE Inductive'
      OBVIOUS
    <3>1. /\ run' = [run EXCEPT ![r] = run'[r]]
          /\ Active(r)' <=> Active(r)
          /\ Working(r)' => Working(r)
          /\ Copied(r)' => Copied(r) /\ run'[r].copy = run[r].copy
          /\ run[r].ctx = "done" => run'[r].ctx = "done"
      BY DEF SendOwned, Active, Working, Copied, Run
    <3> QED
      BY <3>1, QuietStep DEF SendOwned, rowVars
  <2>2. \A r \in Sends : SendRefused(r) => Inductive'
    <3> SUFFICES ASSUME NEW r \in Sends, SendRefused(r) PROVE Inductive'
      OBVIOUS
    <3>1. /\ run' = [run EXCEPT ![r] = run'[r]]
          /\ Active(r)' <=> Active(r)
          /\ Working(r)' => Working(r)
          /\ Copied(r)' => Copied(r) /\ run'[r].copy = run[r].copy
          /\ run[r].ctx = "done" => run'[r].ctx = "done"
      BY DEF SendRefused, Active, Working, Copied, Run
    <3> QED
      BY <3>1, QuietStep DEF SendRefused, rowVars
  <2>6. \A r \in Sends : TurnStart(r) => Inductive'
    <3> SUFFICES ASSUME NEW r \in Sends, TurnStart(r) PROVE Inductive'
      OBVIOUS
    <3>1. /\ run' = [run EXCEPT ![r] = run'[r]]
          /\ Active(r)' <=> Active(r)
          /\ Working(r)' => Working(r)
          /\ Copied(r)' => Copied(r) /\ run'[r].copy = run[r].copy
          /\ run[r].ctx = "done" => run'[r].ctx = "done"
      BY DEF TurnStart, Step, Active, Working, Copied, Run
    <3> QED
      BY <3>1, QuietStep DEF TurnStart, Step, rowVars
  <2>7. \A r \in Sends : Ask(r) => Inductive'
    <3> SUFFICES ASSUME NEW r \in Sends, Ask(r) PROVE Inductive'
      OBVIOUS
    <3>1. /\ run' = [run EXCEPT ![r] = run'[r]]
          /\ Active(r)' <=> Active(r)
          /\ Working(r)' => Working(r)
          /\ Copied(r)' => Copied(r) /\ run'[r].copy = run[r].copy
          /\ run[r].ctx = "done" => run'[r].ctx = "done"
      BY DEF Ask, Active, Working, Copied, Run
    <3> QED
      BY <3>1, QuietStep DEF Ask, rowVars
  <2>8. \A r \in Sends : TakeAnswer(r) => Inductive'
    <3> SUFFICES ASSUME NEW r \in Sends, TakeAnswer(r) PROVE Inductive'
      OBVIOUS
    <3>1. /\ run' = [run EXCEPT ![r] = run'[r]]
          /\ Active(r)' <=> Active(r)
          /\ Working(r)' => Working(r)
          /\ Copied(r)' => Copied(r) /\ run'[r].copy = run[r].copy
          /\ run[r].ctx = "done" => run'[r].ctx = "done"
      BY DEF TakeAnswer, Active, Working, Copied, Run
    <3> QED
      BY <3>1, QuietStep DEF TakeAnswer, rowVars
  <2>9. \A r \in Sends : GiveUp(r) => Inductive'
    <3> SUFFICES ASSUME NEW r \in Sends, GiveUp(r) PROVE Inductive'
      OBVIOUS
    <3>1. /\ run' = [run EXCEPT ![r] = run'[r]]
          /\ Active(r)' <=> Active(r)
          /\ Working(r)' => Working(r)
          /\ Copied(r)' => Copied(r) /\ run'[r].copy = run[r].copy
          /\ run[r].ctx = "done" => run'[r].ctx = "done"
      BY DEF GiveUp, Active, Working, Copied, Run
    <3> QED
      BY <3>1, QuietStep DEF GiveUp, rowVars
  <2>10. \A r \in Sends : Finish(r) => Inductive'
    <3> SUFFICES ASSUME NEW r \in Sends, Finish(r) PROVE Inductive'
      OBVIOUS
    <3>1. /\ run' = [run EXCEPT ![r] = run'[r]]
          /\ Active(r)' <=> Active(r)
          /\ Working(r)' => Working(r)
          /\ Copied(r)' => Copied(r) /\ run'[r].copy = run[r].copy
          /\ run[r].ctx = "done" => run'[r].ctx = "done"
      BY DEF Finish, Step, Active, Working, Copied, Run
    <3> QED
      BY <3>1, QuietStep DEF Finish, Step, rowVars
  <2>12. \A r \in Sends : SaveFailed(r) => Inductive'
    <3> SUFFICES ASSUME NEW r \in Sends, SaveFailed(r) PROVE Inductive'
      OBVIOUS
    <3>1. /\ run' = [run EXCEPT ![r] = run'[r]]
          /\ Active(r)' <=> Active(r)
          /\ Working(r)' => Working(r)
          /\ Copied(r)' => Copied(r) /\ run'[r].copy = run[r].copy
          /\ run[r].ctx = "done" => run'[r].ctx = "done"
      BY DEF SaveFailed, Active, Working, Copied, Run
    <3> QED
      BY <3>1, QuietStep DEF SaveFailed, rowVars
  <2>14. \A r \in Sends : Expire(r) => Inductive'
    <3> SUFFICES ASSUME NEW r \in Sends, Expire(r) PROVE Inductive'
      OBVIOUS
    <3>1. /\ run' = [run EXCEPT ![r] = run'[r]]
          /\ Active(r)' <=> Active(r)
          /\ Working(r)' => Working(r)
          /\ Copied(r)' => Copied(r) /\ run'[r].copy = run[r].copy
          /\ run[r].ctx = "done" => run'[r].ctx = "done"
      BY DEF Expire, Active, Working, Copied, Run
    <3> QED
      BY <3>1, QuietStep DEF Expire, rowVars
  <2> USE DEF Inductive, SlotIsHeld, OneRunAtATime, DeletedRunIsStopped, OneDelete,
             ActiveIsRegistered, CopiesAreLive, CopiesAreCurrent, NobodyRenames, Active, Working, Copied
  <2>3. \A r \in Sends : Admit(r) => Inductive'
    BY DEF Admit, rowVars, Exists, Run
  <2>4. \A r \in Sends : ChatOpened(r) => Inductive'
    BY DEF ChatOpened, rowVars, Exists, Run
  <2>5. \A r \in Sends : ChatFailed(r) => Inductive'
    BY DEF ChatFailed, rowVars, Exists, Run
  <2>11. \A r \in Sends : SaveTurn(r) => Inductive'
    BY DEF SaveTurn, SavedRow, Exists, Run
  <2>13. \A r \in Sends : Unwind(r) => Inductive'
    BY DEF Unwind, rowVars, Exists, Run
  <2>15. \A a \in Posts : PostOwned(a) => Inductive'
    BY DEF PostOwned, rowVars, Exists
  <2>16. \A a \in Posts : PostLookup(a) => Inductive'
    BY DEF PostLookup, rowVars, Exists
  <2>17. \A a \in Posts : PostSend(a) => Inductive'
    <3> SUFFICES ASSUME NEW a \in Posts, PostSend(a) PROVE Inductive'
      OBVIOUS
    <3>1. \A r \in Sends : /\ run'[r].pc = run[r].pc /\ run'[r].ctx = run[r].ctx
                           /\ run'[r].copy = run[r].copy
      BY DEF PostSend, Run
    <3>2. UNCHANGED <<row, lives, edit, slot, deleting>>
      BY DEF PostSend, rowVars
    <3> QED
      BY <3>1, <3>2 DEF Exists
  <2>18. \A e \in Edits : EditRead(e) /\ UNCHANGED chatVars => Inductive'
    BY DEF EditRead, chatVars, Exists
  <2>19. \A e \in Edits : EditWrite(e) /\ UNCHANGED chatVars => Inductive'
    BY DEF EditWrite, chatVars, SavedRow, Exists
  <2>20. Create => Inductive'
    BY DEF Create, CreateRow, chatVars
  <2>21. Cancel => Inductive'
    BY DEF Cancel, rowVars, Exists, Run
  <2>22. DeleteRow => Inductive'
    BY DEF DeleteRow, DropRow, Exists, NoRow
  <2>23. DeleteRuns => Inductive'
    BY DEF DeleteRuns, rowVars, Exists, Run
  <2>24. UNCHANGED sessionVars => Inductive'
    BY DEF sessionVars, rowVars, chatVars, Exists
  <2> HIDE DEF Inductive
  <2> QED
    BY <2>1, <2>2, <2>3, <2>4, <2>5, <2>6, <2>7, <2>8, <2>9, <2>10, <2>11, <2>12, <2>13, <2>14, <2>15, <2>16, <2>17, <2>18, <2>19, <2>20, <2>21, <2>22, <2>23, <2>24
      DEF RunsNext, RunStep, EditNext
<1> QED
  BY <1>1, <1>2, RunsTyped, PTL DEF RunsSpec

(* A session's registration never outlives its run: none is left behind to
   answer 409 to every later message. *)
COROLLARY SlotHeld == RunsSpec => []SlotIsHeld
<1>1. Inductive => SlotIsHeld
  BY DEF Inductive
<1> QED
  BY <1>1, RunsSafe, PTL

(* Until the id of a session is taken again, one run at a time works on it. *)
COROLLARY OneRun == RunsSpec => []OneRunAtATime
<1>1. Inductive => OneRunAtATime
  BY DEF Inductive
<1> QED
  BY <1>1, RunsSafe, PTL

(* When the delete of a session is over, what still runs in it is cancelled. *)
COROLLARY DeletedStopped == RunsSpec => []DeletedRunIsStopped
<1>1. Inductive => DeletedRunIsStopped
  BY DEF Inductive
<1> QED
  BY <1>1, RunsSafe, PTL

(* As long as nobody renames, the turn of one message never takes away the
   turn of another. *)
THEOREM TurnsKept == RunsSpec => TurnsAreKept
<1> USE RowsAssumption, RunsAssumption
<1>1. RunsTypeOK /\ Inductive /\ [RunsNext]_sessionVars
        => (Exists /\ Exists' /\ lives' = 1 /\ NobodyRenames => row.talks \subseteq row'.talks)
  <2> SUFFICES ASSUME RunsTypeOK, Inductive, [RunsNext]_sessionVars, Exists, lives' = 1, NobodyRenames, Exists'
               PROVE  row.talks \subseteq row'.talks
    OBVIOUS
  <2>1. CASE row' = row
    BY <2>1
  <2>2. ASSUME NEW r \in Sends, SaveTurn(r) PROVE row.talks \subseteq row'.talks
    <3>1. run[r].copy \in Row /\ run[r].copy.talks = row.talks
      BY <2>2 DEF SaveTurn, Inductive, CopiesAreCurrent, Copied, RunsTypeOK, Run
    <3> QED
      BY <2>2, <3>1 DEF SaveTurn, SavedRow, Row
  <2>3. ~Create /\ ~DeleteRow /\ \A e \in Edits : ~EditWrite(e)
    BY DEF Create, CreateRow, DeleteRow, DropRow, Exists, NoRow, EditWrite, NobodyRenames
  <2>4. row' = row \/ \E r \in Sends : SaveTurn(r)
    BY <2>3 DEF RunsNext, RunStep, EditNext, sessionVars, rowVars, SendOwned, SendRefused, Admit, ChatOpened,
       ChatFailed, TurnStart, Step, Ask, TakeAnswer, GiveUp, Finish, Expire, SaveFailed, Unwind,
       PostOwned, PostLookup, PostSend, EditRead, Cancel, DeleteRuns
  <2> QED
    BY <2>1, <2>2, <2>4
<1> QED
  BY <1>1, RunsTyped, RunsSafe, PTL DEF RunsSpec, TurnsAreKept

(* Nothing but a new create brings a deleted session back. *)
THEOREM StaysDeleted == RunsSpec => DeletedStaysDeleted
<1>1. RunsTypeOK /\ [RunsNext]_sessionVars => (~Exists /\ lives' = lives => ~Exists')
  <2> SUFFICES ASSUME RunsTypeOK, [RunsNext]_sessionVars, ~Exists, lives' = lives PROVE row' = row
    BY DEF Exists
  <2>1. ~DeleteRow
    BY DEF DeleteRow, DropRow
  <2>2. ~Create
    BY RowsAssumption DEF Create, CreateRow, RunsTypeOK, RowsTypeOK
  <2> QED
    BY <2>1, <2>2 DEF RunsNext, RunStep, EditNext, sessionVars, rowVars, SendOwned, SendRefused, Admit, ChatOpened,
       ChatFailed, TurnStart, Step, Ask, TakeAnswer, GiveUp, Finish, Expire, SaveTurn, SavedRow,
       SaveFailed, Unwind, PostOwned, PostLookup, PostSend, EditRead, EditWrite, Cancel, DeleteRuns
<1> QED
  BY <1>1, RunsTyped, PTL DEF RunsSpec, DeletedStaysDeleted
=============================================================================
