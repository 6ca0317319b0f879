--------------------------- MODULE CreateChannel ---------------------------
(***************************************************************************)
(* The create_resource tool of one session: a manifest is rehearsed by the  *)
(* API server (dry run) and kept as a proposal; a later call, in another    *)
(* turn or further down the same round, asks the user and submits it object *)
(* by object.  Around it the clock runs, other people work on the cluster   *)
(* and administrators change the policy, which a turn reads as it starts.   *)
(***************************************************************************)
EXTENDS Naturals, Sequences, FiniteSets

CONSTANTS
  Objects,       \* the objects of the cluster a manifest can name
  Manifests,     \* what the model may write: sequences of documents
  Policies,      \* the sets of objects whose kind may be forbidden
  TTL,           \* how long a proposal holds
  MaxPerSession, \* how many of them a session keeps
  MaxTime, MaxDryRuns   \* bounds of the model only

(* A document after parsing; body stands for the rest of its content, so
   that equal fingerprints are equal documents.  ask: a Secret with a $ASK
   value, which only the user can give. *)
Doc == [object : Objects, body : Nat, secret : BOOLEAN, ask : BOOLEAN]
Omitted == <<>>      \* an empty manifest argument, and no objects at all

ASSUME CreateAssumption ==
  /\ Manifests \subseteq Seq(Doc) \ {Omitted}
  /\ \A m \in Manifests : \A i \in DOMAIN m : m[i].ask => m[i].secret
  /\ {} \in Policies /\ Policies \subseteq SUBSET Objects
  /\ {TTL, MaxPerSession} \subseteq Nat \ {0}
  /\ {MaxTime, MaxDryRuns} \subseteq Nat

VARIABLES
  now,        \* the clock
  denied,     \* the objects whose kind this turn's policy forbids
  proposals,  \* the session's proposals, oldest first by id
  runs,       \* dry runs so far: the next one's id is a later time
  call,       \* the call of mode apply under way
  cluster,    \* whose each object is
  rehearsed   \* the dry runs in which every object passed

vars == <<now, denied, proposals, runs, call, cluster, rehearsed>>

Proposal == [id : Nat, docs : Manifests, expires : Nat]
Rehearsal == [id : Nat, docs : Manifests, at : Nat]
Result == {"created", "exists", "no namespace", "no value", "failed"}
(* id, manifest: the arguments; shown: the objects of the approval card (none
   when it could not tell or there was no card); wanted: the
   documents the user is asked a value for; values: those with one; docs:
   what is submitted, and at: when it was resolved. *)
Call ==
  [phase : {"none", "prompt", "agreed", "asking", "ready", "check", "patch"},
   id : Nat, manifest : Manifests \cup {Omitted}, asked : BOOLEAN,
   shown : Manifests \cup {Omitted}, wanted : SUBSET Objects,
   values : SUBSET Objects, docs : Manifests \cup {Omitted}, at : Nat,
   results : Seq(Result)]
NoCall ==
  [phase |-> "none", id |-> 0, manifest |-> Omitted, asked |-> FALSE,
   shown |-> Omitted, wanted |-> {}, values |-> {}, docs |-> Omitted, at |-> 0,
   results |-> <<>>]

Init ==
  /\ now = 0 /\ runs = 0
  /\ denied = {}
  /\ proposals = {} /\ rehearsed = {}
  /\ call = NoCall
  /\ cluster \in [Objects -> {"absent", "theirs"}]

-----------------------------------------------------------------------------
(* The proposal store. *)
(* Mutant: a proposal holds a moment too long. *)
LiveOld(p) == now <= p.expires
Live(p) == now < p.expires

(* Mutant: the earliest ones are kept. *)
KeptOld(ps) ==
  LET live == {p \in ps : Live(p)}
  IN  {p \in live : Cardinality({q \in live : q.id < p.id}) < MaxPerSession}
(* Only the latest MaxPerSession of the live ones are kept. *)
Kept(ps) ==
  LET live == {p \in ps : Live(p)}
  IN  {p \in live : Cardinality({q \in live : q.id > p.id}) < MaxPerSession}

Match(docs) == \E p \in proposals : Live(p) /\ p.docs = docs
Get(id) ==
  IF \E p \in proposals : p.id = id /\ Live(p)
    THEN (CHOOSE p \in proposals : p.id = id /\ Live(p)).docs
    ELSE Omitted

(* The policy's findings on a parsed manifest; a stored proposal keeps those
   of its own dry run, which were none. *)
HasErrors(m) == \E i \in DOMAIN m : m[i].object \in denied

(* Mutant: the manifest is not compared with the proposal. *)
ResolveTrusting(id, m) ==
  IF Get(id) # Omitted THEN Get(id)
  ELSE IF m # Omitted /\ ~HasErrors(m) /\ Match(m) THEN m ELSE Omitted
(* What a call of mode apply stands for: the stored objects of its proposal,
   or else the manifest itself if it was rehearsed. *)
Resolve(id, m) ==
  IF Get(id) # Omitted
    THEN IF m = Omitted \/ (~HasErrors(m) /\ m = Get(id)) THEN Get(id) ELSE Omitted
    ELSE IF m # Omitted /\ ~HasErrors(m) /\ Match(m) THEN m ELSE Omitted

(* What the approval card shows: failing that, the manifest as it is. *)
Described(id, m) ==
  IF Resolve(id, m) # Omitted THEN Resolve(id, m)
  ELSE IF ~HasErrors(m) THEN m ELSE Omitted

(* Mutant: only the first such Secret is asked for. *)
PendingFirst(docs) ==
  {docs[i].object : i \in {j \in DOMAIN docs : docs[j].ask /\
                             \A k \in DOMAIN docs : docs[k].ask => j <= k}}
Pending(docs) == {docs[i].object : i \in {j \in DOMAIN docs : docs[j].ask}}

-----------------------------------------------------------------------------
(* Mode dry_run.  It is read-only, so it also runs between the answer to a
   batch of calls and the call of mode apply further down the same round. *)
(* Mutant: recorded although an object was refused. *)
RecordedAnyway(m, refused) ==
  Kept(proposals \cup {[id |-> runs + 1, docs |-> m, expires |-> now + TTL]})
Recorded(m, refused) ==
  IF refused # {} THEN proposals
  ELSE Kept(proposals \cup {[id |-> runs + 1, docs |-> m, expires |-> now + TTL]})

DryRun(m) ==
  /\ call.phase \in {"none", "agreed"} /\ runs < MaxDryRuns
  /\ ~HasErrors(m)
  /\ runs' = runs + 1
  /\ \E refused \in SUBSET DOMAIN m :
       /\ proposals' = Recorded(m, refused)
       /\ rehearsed' =
            IF refused # {} THEN rehearsed
            ELSE rehearsed \cup {[id |-> runs + 1, docs |-> m, at |-> now]}
  /\ UNCHANGED <<now, denied, call, cluster>>

-----------------------------------------------------------------------------
(* Mode apply: the card, the answer, the Secrets' values, the objects. *)
Return == call' = NoCall

Apply(id, m) ==
  /\ call.phase = "none"
  /\ call' = [NoCall EXCEPT !.phase = "prompt", !.id = id, !.manifest = m,
                            !.asked = TRUE, !.shown = Described(id, m)]
  /\ UNCHANGED <<now, denied, proposals, runs, cluster, rehearsed>>

(* No card: a session grant covers the call (a single object, no Secret), or
   an earlier "do not ask again" the same call, or the deployment asks for
   nothing (require_approval false, skip_permissions), be it a batch or a
   Secret.  The last is possible for any call, and so this step is. *)
ApplyUnasked(id, m) ==
  /\ call.phase = "none"
  /\ call' = [NoCall EXCEPT !.phase = "agreed", !.id = id, !.manifest = m]
  /\ UNCHANGED <<now, denied, proposals, runs, cluster, rehearsed>>

Agree ==
  /\ call.phase = "prompt"
  /\ call' = [call EXCEPT !.phase = "agreed"]
  /\ UNCHANGED <<now, denied, proposals, runs, cluster, rehearsed>>

Decline ==
  /\ call.phase = "prompt" /\ Return
  /\ UNCHANGED <<now, denied, proposals, runs, cluster, rehearsed>>

AskValues ==
  /\ call.phase = "agreed"
  /\ LET wanted == Pending(Resolve(call.id, call.manifest))
     IN  call' = [call EXCEPT !.wanted = wanted,
                              !.phase = IF wanted = {} THEN "ready" ELSE "asking"]
  /\ UNCHANGED <<now, denied, proposals, runs, cluster, rehearsed>>

GiveValue(o) ==
  /\ call.phase = "asking" /\ o \in call.wanted \ call.values
  /\ LET values == call.values \cup {o}
     IN  call' = [call EXCEPT !.values = values,
                              !.phase = IF values = call.wanted THEN "ready" ELSE @]
  /\ UNCHANGED <<now, denied, proposals, runs, cluster, rehearsed>>

WithholdValue ==
  /\ call.phase = "asking" /\ Return
  /\ UNCHANGED <<now, denied, proposals, runs, cluster, rehearsed>>

(* The tool itself resolves once more: the proposal may be gone by now. *)
Begin ==
  /\ call.phase = "ready"
  /\ LET docs == Resolve(call.id, call.manifest)
     IN  IF docs = Omitted \/ ~(Pending(docs) \subseteq call.values)
           THEN Return
           ELSE call' = [call EXCEPT !.phase = "check", !.docs = docs, !.at = now]
  /\ UNCHANGED <<now, denied, proposals, runs, cluster, rehearsed>>

Current == call.docs[Len(call.results) + 1]
Answered(result) ==
  call' = [call EXCEPT !.phase = "check", !.results = Append(@, result)]

(* A Secret is never read, and a read that fails decides nothing. *)
Precheck ==
  /\ call.phase = "check" /\ Len(call.results) < Len(call.docs)
  /\ \/ call' = [call EXCEPT !.phase = "patch"]  \* a Secret, absent or unread
     \/ ~Current.secret /\ cluster[Current.object] # "absent" /\ Answered("exists")
     \/ ~Current.secret /\ cluster[Current.object] = "absent" /\ Answered("no namespace")
  /\ UNCHANGED <<now, denied, proposals, runs, cluster, rehearsed>>

(* The executor puts the values in, reads once more without deciding by what
   it finds, and patches.  A patch that lands may still be reported failed. *)
Refuse(result) == Answered(result) /\ UNCHANGED cluster
Land(result) ==
  /\ cluster' = [cluster EXCEPT ![Current.object] = "ours"]
  /\ Answered(result)
Patch ==
  /\ call.phase = "patch"
  /\ IF Current.ask /\ Current.object \notin call.values
       THEN Refuse("no value")
       ELSE Refuse("failed") \/ Land("created") \/ Land("failed")
  /\ UNCHANGED <<now, denied, proposals, runs, rehearsed>>

Report ==
  /\ call.phase = "check" /\ Len(call.results) = Len(call.docs)
  /\ Return
  /\ UNCHANGED <<now, denied, proposals, runs, cluster, rehearsed>>

-----------------------------------------------------------------------------
Tick ==
  /\ now < MaxTime
  /\ now' = now + 1
  /\ UNCHANGED <<denied, proposals, runs, call, cluster, rehearsed>>

Others(o) ==
  /\ \E owner \in {"absent", "theirs"} \ {cluster[o]} :
       cluster' = [cluster EXCEPT ![o] = owner]
  /\ UNCHANGED <<now, denied, proposals, runs, call, rehearsed>>

(* The options of the tool are made anew for each turn. *)
NewTurn ==
  /\ call.phase = "none"
  /\ denied' \in Policies
  /\ UNCHANGED <<now, proposals, runs, call, cluster, rehearsed>>

Next ==
  \/ \E m \in Manifests : DryRun(m)
  \/ \E id \in 0..runs, m \in Manifests \cup {Omitted} :  \* a time not yet come is no id
       Apply(id, m) \/ ApplyUnasked(id, m)
  \/ Agree \/ Decline
  \/ AskValues \/ WithholdValue \/ \E o \in Objects : GiveValue(o)
  \/ Begin \/ Precheck \/ Patch \/ Report
  \/ Tick \/ NewTurn
  \/ \E o \in Objects : Others(o)

Spec == Init /\ [][Next]_vars

-----------------------------------------------------------------------------
(* Every variable has its type. *)
TypeOK ==
  /\ now \in 0..MaxTime /\ runs \in 0..MaxDryRuns
  /\ denied \in Policies
  /\ proposals \subseteq Proposal
  /\ call \in Call
  /\ cluster \in [Objects -> {"absent", "theirs", "ours"}]
  /\ rehearsed \subseteq Rehearsal

Submitting == call.phase \in {"check", "patch"}

(* No object is submitted unless all documents of the very same manifest
   passed one dry run of the session, less than TTL before the tool set out
   to submit them: not one that failed for a part, not an expired one, not a
   manifest that resembles it (create.go's rule that an apply repeats a dry
   run, across the prompts and the turns in between). *)
AppliedWasRehearsed ==
  Submitting =>
    \E r \in rehearsed : r.docs = call.docs /\ r.at <= call.at /\ call.at < r.at + TTL

(* What the user agreed to on the card is what is submitted, though both are
   resolved apart, with the user's time and further dry runs in between, and a
   proposal may expire or be pushed out meanwhile. *)
AgreedIsSubmitted == Submitting /\ call.asked => call.docs = call.shown

(* No batch stops half-way because a Secret's value is missing: the values are
   all there before the first object is submitted ("缺一个就整批不提交"). *)
NoValueIsMissing == \A i \in DOMAIN call.results : call.results[i] # "no value"

(* The store, bounded and swept only as proposals come in, answers as if it
   held the latest MaxPerSession rehearsals that are not older than TTL. *)
StoreIsRecent ==
  LET young == {r \in rehearsed : now < r.at + TTL}
      latest == {r \in young : Cardinality({q \in young : q.id > r.id}) < MaxPerSession}
  IN  {<<p.id, p.docs>> : p \in {q \in proposals : Live(q)}} = {<<r.id, r.docs>> : r \in latest}

(* "deny_kinds 黑名单始终生效": no object of a kind the policy forbids is created.
   The code does not keep this (README, section 4). *)
DeniedIsNotCreated ==
  [][\A o \in denied : cluster'[o] = "ours" => cluster[o] = "ours"]_vars
=============================================================================
