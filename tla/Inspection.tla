----------------------------- MODULE Inspection -----------------------------
(***************************************************************************)
(* One inspection of a cluster (scanService.Run, internal/service): the    *)
(* resources are listed one kind at a time while the cluster goes on       *)
(* changing, each list may fail, and the deadline may pass; then the rules *)
(* are evaluated, logs fetched for the pods that call for them, findings   *)
(* gathered into incidents, the incidents diagnosed, and the report's      *)
(* level, score and account of the collection derived. An inspection of    *)
(* the whole cluster without the model: what the model adds is in          *)
(* IncidentDiagnosis.                                                      *)
(***************************************************************************)
EXTENDS Diagnosers

CONSTANTS
  Worlds,  (* what an inspection may meet: [clusters, flaky, slow, logs, events]   *)
           (*   clusters  the names of the states the cluster goes through         *)
           (*   flaky     the operations that may fail                             *)
           (*   slow      whether the deadline may pass                            *)
           (*   logs, events   the options CollectLogs and CollectEvents           *)
  ClusterOf(_),  (* the cluster [obj, events] in a state of that name              *)
  MayAnswer(_, _),  (* bound: of the lists in todo in a world, those that may be   *)
           (*   answered next; todo itself is no bound                             *)
  Cuts     (* after how many rules the deadline may stop their evaluation          *)

ASSUME CutsAssumption == Cuts \subseteq 0..34

(* What the API itself guarantees of a cluster: its names, and the kinds    *)
(* that a reference may name. An owner or what an HPA scales may be of any. *)
Reference(kinds) == (kinds \X Nat) \cup {None}
ObjectsTyped(obj) ==
  /\ IsFiniteSet(DOMAIN obj) /\ DOMAIN obj \subseteq STRING \X Nat
  /\ \A r \in DOMAIN obj : LET a == obj[r] IN
       /\ Kind(r) = "Pod" => /\ IsFiniteSet(a.configs) /\ a.configs \subseteq {"ConfigMap", "Secret"} \X Nat
                             /\ a.node \in Reference({"Node"}) /\ a.pvc \in Reference({"PVC"})
       /\ Kind(r) = "PVC" => /\ a.volume \in Reference({"PV"})
                             /\ a.class \in Reference({"StorageClass"})
       /\ Kind(r) = "PV" => a.class \in Reference({"StorageClass"})
       /\ Kind(r) = "Ingress" => a.backends \in Seq({"Service"} \X Nat)
ClusterTyped(c) == ObjectsTyped(c.obj) /\ <<"Namespace", 1>> \in DOMAIN c.obj
ASSUME WorldsAssumption ==
  \A w \in Worlds : /\ Len(w.clusters) \in Nat \ {0}
                    /\ \A i \in 1..Len(w.clusters) : ClusterTyped(ClusterOf(w.clusters[i]))

VARIABLES
  world,      \* the surroundings; chosen once
  now,        \* where in world.clusters the cluster is
  ctx,        \* "live", or "done" once the deadline has passed
  pc,         \* the stage
  todo,       \* the lists, then the pods whose logs, still to be fetched
  snap,       \* the snapshot
  findings,   \* the findings
  targets,    \* how many pods had their logs asked for
  incidents,  \* the incidents
  report      \* [level, score, integrity, failed]; level "none" until it is written

vars == <<world, now, ctx, pc, todo, snap, findings, targets, incidents, report>>

(* resourceTasks: one list per kind, in this order, and the report's group  *)
(* that each is accounted under.                                            *)
ListOf == [
  list_pods |-> "Pod", list_nodes |-> "Node", list_services |-> "Service",
  list_endpoint_slices |-> "EndpointSlice", list_deployments |-> "Deployment",
  list_replica_sets |-> "ReplicaSet", list_stateful_sets |-> "StatefulSet",
  list_daemon_sets |-> "DaemonSet", list_jobs |-> "Job", list_cron_jobs |-> "CronJob",
  list_pvcs |-> "PVC", list_pvs |-> "PV", list_storage_classes |-> "StorageClass",
  list_volume_attachments |-> "VolumeAttachment", list_ingresses |-> "Ingress",
  list_network_policies |-> "NetworkPolicy", list_hpa |-> "HPA", list_pdb |-> "PDB",
  list_roles |-> "Role", list_role_bindings |-> "RoleBinding", list_cluster_roles |-> "ClusterRole",
  list_cluster_role_bindings |-> "ClusterRoleBinding", list_config_maps |-> "ConfigMap",
  list_secret_meta |-> "Secret", list_namespaces |-> "Namespace"]
ResourceTasks == DOMAIN ListOf \ {"list_namespaces"}

GroupOf(op) ==
  CASE op \in {"list_deployments", "list_replica_sets", "list_stateful_sets", "list_daemon_sets",
               "list_jobs", "list_cron_jobs"} -> "workloads"
    [] op \in {"list_pvcs", "list_pvs", "list_storage_classes", "list_volume_attachments"} -> "storage"
    [] op \in {"list_roles", "list_role_bindings", "list_cluster_roles",
               "list_cluster_role_bindings"} -> "rbac"
    [] op = "list_events" -> "events"
    [] op = "get_logs" -> "logs"
    [] OTHER -> ListOf[op]

Cluster == ClusterOf(world.clusters[now])
NoReport == [level |-> "none", score |-> 0, integrity |-> "none", failed |-> {}]

Init ==
  /\ world \in Worlds
  /\ now = 1 /\ ctx = "live" /\ pc = "connect" /\ todo = {}
  /\ snap = [obj |-> <<>>, events |-> <<>>, logs |-> {}, failed |-> {}]
  /\ findings = {} /\ targets = 0 /\ incidents = {} /\ report = NoReport

(* The surroundings: the cluster moves on, the deadline passes.             *)
ClusterChanges ==
  /\ now < Len(world.clusters) /\ pc \in {"namespaces", "collect"}
  /\ now' = now + 1
  /\ UNCHANGED <<world, ctx, pc, todo, snap, findings, targets, incidents, report>>
Deadline ==
  /\ world.slow /\ ctx = "live" /\ pc \in {"namespaces", "collect", "logs"}
  /\ ctx' = "done"
  /\ UNCHANGED <<world, now, pc, todo, snap, findings, targets, incidents, report>>

Fails(op) == op \in world.flaky
Unrecorded(s, op, scope) == s
(* addError: the operation, and for logs the pod.                           *)
AddError(s, op, scope) == [s EXCEPT !.failed = @ \cup {<<op, scope>>}]

Connect ==
  /\ pc = "connect"
  /\ pc' = "namespaces" \/ (Fails("connect") /\ pc' = "failed")
  /\ UNCHANGED <<world, now, ctx, todo, snap, findings, targets, incidents, report>>

(* snapCollector.add: the list as the cluster is at this moment.            *)
Add(s, kind) ==
  LET got == {r \in DOMAIN Cluster.obj : Kind(r) = kind}
  IN [s EXCEPT !.obj = [r \in DOMAIN @ \cup got |-> IF r \in got THEN Cluster.obj[r] ELSE @[r]]]

(* The namespaces come first: events are listed for each namespace found.   *)
ListNamespaces ==
  /\ pc = "namespaces" /\ ctx = "live"
  /\ \/ snap' = Add(snap, "Namespace")
     \/ Fails("list_namespaces") /\ snap' = AddError(snap, "list_namespaces", None)
  /\ todo' = ResourceTasks \cup (IF world.events /\ Of(snap', "Namespace") # {} THEN {"list_events"} ELSE {})
  /\ pc' = "collect"
  /\ UNCHANGED <<world, now, ctx, findings, targets, incidents, report>>

Collected(op) ==
  IF op = "list_events" THEN [snap EXCEPT !.events = Cluster.events] ELSE Add(snap, ListOf[op])
List(op) ==
  /\ pc = "collect" /\ ctx = "live" /\ op \in todo
  /\ \/ snap' = Collected(op)
     \/ Fails(op) /\ snap' = AddError(snap, op, None)
  /\ todo' = todo \ {op}
  /\ UNCHANGED <<world, now, ctx, pc, findings, targets, incidents, report>>

(* Phase1 and Phase2 give the error of a context that is done, and the      *)
(* inspection ends without a report.                                        *)
GiveUp ==
  /\ pc \in {"namespaces", "collect", "logs"} /\ ctx = "done"
  /\ pc' = "failed"
  /\ UNCHANGED <<world, now, ctx, todo, snap, findings, targets, incidents, report>>

(* engine.Evaluate: a deadline between two rules returns what there is, and *)
(* leaves out the marks that are set at the end.                            *)
Marked(s, fs) ==
  {[f EXCEPT !.corr = f \in MarkCorrelated(s, fs), !.advice = f.rule \in Suggestions] : f \in fs}
LogTargets(s, fs) ==
  UNION {IF Kind(f.res) = "Pod" THEN {f.res} ELSE PodsOfWorkload(s, f.res) :
           f \in {x \in fs : x.rule \in LogRules}}
Evaluate ==
  /\ pc = "collect" /\ ctx = "live" /\ todo = {}
  /\ \/ findings' = Marked(snap, Evaluated(snap, 35)) /\ ctx' = ctx
     \/ /\ world.slow
        /\ \E n \in Cuts : findings' = Evaluated(snap, n)
        /\ ctx' = "done"
  /\ todo' = IF world.logs THEN LogTargets(snap, findings') ELSE {}
  /\ targets' = Cardinality(todo')
  /\ pc' = IF todo' = {} THEN "diagnose" ELSE "logs"
  /\ UNCHANGED <<world, now, snap, incidents, report>>

(* collectPodLogs: what could be read is kept beside the error.             *)
Logs(p) ==
  /\ pc = "logs" /\ ctx = "live" /\ p \in todo
  /\ \/ snap' = [snap EXCEPT !.logs = @ \cup {p}]
     \/ /\ Fails("get_logs")
        /\ \E got \in {{}, {p}} : snap' = AddError([snap EXCEPT !.logs = @ \cup got], "get_logs", p)
  /\ todo' = todo \ {p}
  /\ pc' = IF todo' = {} THEN "diagnose" ELSE "logs"
  /\ UNCHANGED <<world, now, ctx, findings, targets, incidents, report>>

(* attachLogEvidence, enrichRelatedEvidence: findings that ask for logs get *)
(* those of their pods; the others the first faulty pod they affect.        *)
AttachLogs(s, f) ==
  LET read == {<<"log", "logs/current", p>> : p \in s.logs \cap LogTargets(s, {f})}
  IN IF f.rule \in LogRules THEN [f EXCEPT !.ev = @ \o SetToSeq(read)] ELSE f
Enrich(s, fs, f) ==
  LET affected == CASE Kind(f.res) \in Workloads -> PodsOfWorkload(s, f.res)
                    [] Kind(f.res) = "Service" -> PodsOfService(s, f.res)
                    [] Kind(f.res) = "Node" -> PodsOfNode(s, f.res)
                    [] OTHER -> {}
      faulty == affected \cap {x.res : x \in fs}
      named == IF Kind(f.res) = "Pod" THEN At(s, f.res).configs ELSE {}
  IN [f EXCEPT !.ev = @ \o (IF faulty = {} THEN <<>>
                            ELSE <<Derived("affectedPod", CHOOSE p \in faulty : \A q \in faulty : p[2] <= q[2])>>)
                        \o (IF named = {} THEN <<>> ELSE <<Derived("configs", named)>>)]

DiagnoseAll ==
  /\ pc = "diagnose"
  /\ LET logged == {AttachLogs(snap, f) : f \in findings}
         fs == {Enrich(snap, logged, f) : f \in logged}
         g == Graph(snap)
     IN /\ findings' = fs
        /\ incidents' = {Diagnose(snap, g, fs, inc) : inc \in Relate(g, fs, Build(snap, fs))}
  /\ pc' = "report"
  /\ UNCHANGED <<world, now, ctx, todo, snap, targets, report>>

(* CollectionQuality: each group's calls, planned and failed. With no       *)
(* namespace known, listing events counts as one call that did not fail.    *)
KindGroups == {GroupOf(op) : op \in DOMAIN ListOf} \cup {"events", "logs"}
Planned(s, group) ==
  CASE group = "events" -> IF ~world.events THEN 0 ELSE Max({1, Cardinality(Of(s, "Namespace"))})
    [] group = "logs" -> targets
    [] OTHER -> Cardinality({op \in DOMAIN ListOf : GroupOf(op) = group})
FailedIn(s, group) == Cardinality({e \in s.failed : GroupOf(e[1]) = group})
WhollyFailedKinds(s) == {k \in KindGroups : Planned(s, k) > 0 /\ FailedIn(s, k) >= Planned(s, k)}
FailedKinds(s) == {k \in KindGroups : Planned(s, k) > 0 /\ FailedIn(s, k) > 0}
CriticalKinds == {"Pod", "Node", "workloads", "Namespace", "events"}
Integrity(s) ==
  IF \E k \in FailedKinds(s) \cap CriticalKinds : FailedIn(s, k) >= Planned(s, k) THEN "insufficient"
  ELSE IF FailedKinds(s) # {} THEN "partial"
  ELSE "complete"

(* ComputeHealthScoreWithQuality: of the findings that are no incident's    *)
(* member, lowered by what was not collected.                               *)
Members(incs) == UNION {{inc.items[i].id : i \in 2..Len(inc.items)} : inc \in incs}
Roots(incs) == {inc.root.id : inc \in incs}
Penalty(f) == CASE f.sev = 5 -> 30 [] f.sev = 4 -> 15 [] f.sev = 3 -> 5 [] f.sev = 2 -> 1 [] OTHER -> 0
Least(a, b) == IF a < b THEN a ELSE b
Score(s, fs, incs) ==
  LET counted == {f \in fs : ~f.corr /\ f.id \notin Members(incs)}
      base == IF \E f \in counted : f.sev >= 4 THEN 70 ELSE 100
      score == Max({0, base - MapThenSumSet(Penalty, counted)})
      cap == CASE Integrity(s) = "insufficient" -> 60
               [] Integrity(s) = "partial" -> 85
               [] OTHER -> IF world.events /\ targets > 0 THEN 100 ELSE 99
  IN Least(score, cap)

(* BuildConclusion: the level, of the findings that nothing else explains.  *)
Level(integrity, fs, incs) ==
  LET shown == {f \in fs : ~f.corr /\ (f.id \in Members(incs) => f.id \in Roots(incs))}
      business == {f \in shown : ~f.advice}
  IN IF \E f \in business : f.sev = 5 THEN "critical"
     ELSE IF business # {} THEN "attention"
     ELSE IF integrity = "insufficient" THEN "unknown"
     ELSE IF shown # {} THEN "attention"
     ELSE "healthy"

Conclude ==
  /\ pc = "report"
  /\ report' = [level |-> Level(Integrity(snap), findings, incidents),
                score |-> Score(snap, findings, incidents),
                integrity |-> Integrity(snap), failed |-> FailedKinds(snap)]
  /\ pc' = "done"
  /\ UNCHANGED <<world, now, ctx, todo, snap, findings, targets, incidents>>

Answering == IF pc = "collect" THEN todo \cap MayAnswer(world, todo) ELSE {}
Next ==
  \/ ClusterChanges \/ Deadline
  \/ Connect \/ ListNamespaces \/ GiveUp \/ Evaluate \/ DiagnoseAll \/ Conclude
  \/ \E op \in Answering : List(op)
  \/ \E p \in todo : Logs(p)

Spec == Init /\ [][Next]_vars

(***************************************************************************)
(* Properties                                                              *)
(***************************************************************************)
Done == pc = "done"

(* What a report says does not exist was missing at some moment of the      *)
(* inspection, or the report names its group among those not collected: an  *)
(* object that was not listed is never passed off as one that is not there  *)
(* (the lookups of the rules and diagnosers in a partial snapshot). This is *)
(* of the kinds the inspection lists; for others see TargetIsMissing.       *)
Listed == {ListOf[op] : op \in DOMAIN ListOf}
Denied ==
  {f.ev[1][3] : f \in {x \in findings : x.rule \in {"ConfigRefNotFound", "IngressBackend",
                                                    "HpaScaleTargetMissing"}}}
    \cup UNION {inc.denied : inc \in incidents}
Present(r) == \A i \in 1..now : r \in DOMAIN ClusterOf(world.clusters[i]).obj
AbsenceIsAccounted ==
  Done => \A r \in {x \in Denied : Kind(x) \in Listed /\ Present(x)} :
            \E op \in DOMAIN ListOf : ListOf[op] = Kind(r) /\ GroupOf(op) \in report.failed

(* The rule HpaScaleTargetMissing is said to report an HPA whose scale      *)
(* target does not exist. It looks the target up among the workloads it     *)
(* collected, so that a target of another kind is never found there.        *)
(* The code does not keep this.                                             *)
TargetIsMissing ==
  Done => \A f \in findings : f.rule = "HpaScaleTargetMissing" /\ report.failed = {} =>
            ~Present(f.ev[1][3])

(* A report that calls the cluster healthy, with nothing missing and the    *)
(* rules all evaluated, is of a cluster on which no rule holds: what a      *)
(* finding is left out for (an incident's root, a node at fault) is always  *)
(* itself in the report (BuildConclusion, markCorrelated). One case escapes *)
(* the code: a node short of process ids, which is never taken for the root *)
(* though it takes its pods' findings out.                                  *)
Whole == [obj |-> [r \in {x \in DOMAIN Cluster.obj : Kind(x) \in Listed} |-> Cluster.obj[r]],
          events |-> Cluster.events, logs |-> {}, failed |-> {}]
HealthyIsEarned ==
  Done /\ report.level = "healthy" /\ report.failed = {} /\ ctx = "live" /\ world.events
       /\ Len(world.clusters) = 1
    => Evaluated(Whole, 35) = {} \/ NodePIDPressure(Whole) # {}

(* The causal edges of an incident join its own findings, give each at most *)
(* one cause, and never run in a circle: of any of them, one starts at a    *)
(* finding that none of them explains.                                      *)
TreeIsSound ==
  \A inc \in incidents :
    LET ids == {inc.items[i].id : i \in DOMAIN inc.items}
    IN /\ \A e \in inc.edges : e.source \in ids /\ e.target \in ids /\ e.source # e.target
       /\ \A e, d \in inc.edges : e.target = d.target => e = d
       /\ \A some \in (SUBSET inc.edges) \ {{}} :
            \E e \in some : \A d \in some : d.target # e.source

(* The root of an incident is not itself explained by another finding of    *)
(* it: the table of causes has no chain longer than the search follows.     *)
RootIsUnexplained ==
  \A inc \in incidents : \A i \in DOMAIN inc.items :
    inc.items[i].rule \notin ToSet(CausalCauses(inc.root.rule))
=============================================================================
