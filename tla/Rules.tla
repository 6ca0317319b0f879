------------------------------- MODULE Rules -------------------------------
(***************************************************************************)
(* The rule engine (internal/rule): thirty-five rules over a snapshot.     *)
(* A finding is [rule, res, sev, ev, id, corr, advice]: ev is the sequence *)
(* of evidence <<class, key, value>> in the order the rule adds it, sev is *)
(* 1 (info) to 5 (critical), id its fingerprint; corr (Correlated) and     *)
(* advice (Suggestion) are set once all rules have run. Findings are a     *)
(* set; where the code takes the first of a slice, the order is rule, then *)
(* name.                                                                   *)
(***************************************************************************)
EXTENDS Snapshot

Field(key, val) == <<"field", key, val>>
Derived(key, val) == <<"derived", key, val>>

(* podEventEvidence *)
EventEvidence(s, r) ==
  [i \in DOMAIN EventsFor(s, r) |-> <<"event", EventsFor(s, r)[i].reason, EventsFor(s, r)[i].msg>>]

Clamp(n) == IF n \in 1..5 THEN n ELSE IF n < 1 THEN 1 ELSE 5

(* SeverityPolicy.Adjust: the namespace's class, then what is affected: a   *)
(* pod behind a service, a pod of a large workload that lacks replicas.     *)
ReplicaThreshold == 3
Adjust(s, base, r) ==
  LET ns == <<"Namespace", 1>>
      class == IF Has(s, ns) /\ Kind(r) \notin {"Node", "PV", "StorageClass", "VolumeAttachment",
                                  "ClusterRole", "ClusterRoleBinding", "Namespace"}
               THEN At(s, ns).class ELSE "plain"
      env == CASE class = "prod" -> 1 [] class = "test" -> -1 [] OTHER -> 0
      isPod == Kind(r) = "Pod" /\ Has(s, r)
      served == isPod /\ ServicesOfPod(s, r) # {}
      short == isPod /\ OwnerChain(s, r) # <<>>
                 /\ LET w == At(s, OwnerChain(s, r)[1])
                    IN w.desired >= ReplicaThreshold /\ w.ready < w.desired
      one(b) == IF b THEN 1 ELSE 0
  IN Clamp(base + env + one(served) + one(short))

(* Fingerprint: the nearest owner stands for the pod, and the first three   *)
(* evidences that are not log lines stand for the rest.                     *)
Signature(ev) ==
  LET kept == SelectSeq(ev, LAMBDA e : e[1] # "log")
  IN {<<kept[i][2], kept[i][3]>> : i \in 1..(IF Len(kept) < 3 THEN Len(kept) ELSE 3)}
Fingerprint(s, rule, r, ev) ==
  <<IF Kind(r) = "Pod" /\ OwnerChain(s, r) # <<>> THEN OwnerChain(s, r)[1] ELSE r, rule, Signature(ev)>>

Finding(s, rule, r, base, ev) ==
  [rule |-> rule, res |-> r, sev |-> Adjust(s, base, r), ev |-> ev,
   id |-> Fingerprint(s, rule, r, ev), corr |-> FALSE, advice |-> FALSE]

(* One finding for each object that shows the sign: shown maps it to the    *)
(* rule's base severity and evidence.                                       *)
ForObject(s, rule, shown) == {Finding(s, rule, r, shown[r][1], shown[r][2]) : r \in DOMAIN shown}
ForPod(s, rule, shown) ==
  ForObject(s, rule, [p \in DOMAIN shown |-> <<shown[p][1], shown[p][2] \o EventEvidence(s, p)>>])

(* Of the containers of one pod that show it the first counts: init         *)
(* containers come first.                                                   *)
Containers(s) == UNION {{p} \X DOMAIN At(s, p).cons : p \in Of(s, "Pod")}
Con(s, x) == At(s, x[1]).cons[x[2]]
ForContainer(s, rule, shown) ==
  ForPod(s, rule, [p \in {x[1] : x \in DOMAIN shown} |->
                     shown[<<p, Min({i \in DOMAIN At(s, p).cons : <<p, i>> \in DOMAIN shown})>>]])

MemoryLimit(c) == IF c.limit THEN <<Field("memory.limit", TRUE)>> ELSE <<>>
ConfigsOf(s, p) == SetToSeq({Derived("config", c) : c \in At(s, p).configs})
Waiting(c, reasons) == c.state = "Waiting" /\ c.reason \in reasons
AllWaiting(s, reasons) == {x \in Containers(s) : Waiting(Con(s, x), reasons)}

(* pod_rules.go *)
CrashLoopBackOff(s) == ForContainer(s, "CrashLoopBackOff",
  [x \in AllWaiting(s, {"CrashLoopBackOff"}) |-> LET c == Con(s, x) IN
     <<3, <<Field("restartCount", c.restarts), Field("lastState.reason", c.last),
            Field("lastState.exitCode", c.lastExit)>> \o MemoryLimit(c)>>])
OOMKilled(s) == ForContainer(s, "OOMKilled",
  [x \in {y \in Containers(s) : \/ Con(s, y).last = "OOMKilled"
                                \/ Con(s, y).state = "Terminated" /\ Con(s, y).reason = "OOMKilled"} |->
     LET c == Con(s, x) IN
     <<3, <<Field("lastState.reason", c.last), Field("lastState.exitCode", c.lastExit)>> \o MemoryLimit(c)>>])
ImagePullBackOff(s) == ForContainer(s, "ImagePullBackOff",
  [x \in AllWaiting(s, {"ImagePullBackOff", "ErrImagePull"}) |-> LET c == Con(s, x) IN
     <<3, <<Field("waiting.reason", c.reason), Field("waiting.message", c.msg), Field("image", "image")>>>>])
HighRestartThreshold == 5
HighRestartCount(s) == ForContainer(s, "HighRestartCount",
  [x \in {y \in Containers(s) : Con(s, y).restarts >= HighRestartThreshold /\ Con(s, y).state = "Running"} |->
     LET c == Con(s, x) IN
     <<2, <<Field("restartCount", c.restarts), Field("state", c.state)>>
            \o (IF c.last = "" THEN <<>> ELSE <<Field("lastState.reason", c.last)>>)
            \o <<Field("lastState.exitCode", c.lastExit)>>>>])
PendingMinAge == 1
PendingPod(s) == ForPod(s, "PendingPod",
  [p \in {q \in Of(s, "Pod") : At(s, q).phase = "Pending" /\ At(s, q).age >= PendingMinAge} |->
     <<3, <<Field("phase", "Pending")>>
            \o (IF At(s, p).scheduled = "" THEN <<>> ELSE <<Field("PodScheduled", At(s, p).scheduled)>>)>>])
TerminatingMinAge == 5
PodTerminating(s) == ForPod(s, "PodTerminating",
  [p \in {q \in Of(s, "Pod") : At(s, q).dying >= TerminatingMinAge} |->
     <<3, <<Field("deletionTimestamp", At(s, p).dying), Field("terminatingFor", At(s, p).dying)>>
            \o (IF At(s, p).held THEN <<Field("finalizers", TRUE)>> ELSE <<>>)>>])
EvictedPod(s) == ForPod(s, "EvictedPod",
  [p \in {q \in Of(s, "Pod") : At(s, q).phase = "Failed" /\ At(s, q).reason = "Evicted"} |->
     <<3, <<Field("phase", "Failed"), Field("reason", "Evicted")>>>>])

(* container_rules.go, unhealthy_rules.go: a missing ConfigMap or Secret    *)
(* raises the severity of what it stops.                                    *)
ConfigMissing(msg) == msg = "config not found"
ContainerCreateError(s) == ForContainer(s, "ContainerCreateError",
  [x \in AllWaiting(s, {"CreateContainerConfigError", "CreateContainerError"}) |-> LET c == Con(s, x) IN
     <<IF ConfigMissing(c.msg) THEN 4 ELSE 3,
       <<Field("waiting.reason", c.reason), Field("waiting.message", c.msg)>> \o ConfigsOf(s, x[1])>>])
NotReady(c) == ~c.init /\ c.state = "Running" /\ ~c.ready
ContainerHealthMinAge == 3
ContainerHealthTimeout(s) == ForContainer(s, "ContainerHealthTimeout",
  [x \in {y \in Containers(s) : At(s, y[1]).age >= ContainerHealthMinAge /\ NotReady(Con(s, y))} |->
     <<2, <<Field("ready", FALSE)>> \o ConfigsOf(s, x[1])>>])
HasEvent(s, r, reasons) == \E i \in DOMAIN EventsFor(s, r) : EventsFor(s, r)[i].reason \in reasons
Unhealthy(s) == ForContainer(s, "Unhealthy",
  [x \in {y \in Containers(s) : HasEvent(s, y[1], {"Unhealthy"}) /\ NotReady(Con(s, y))} |->
     <<3, <<Field("ready", FALSE)>>
            \o (IF Con(s, x).probed THEN <<Field("readinessProbe", TRUE)>> ELSE <<>>) \o ConfigsOf(s, x[1])>>])

(* node_rules.go *)
OfNodes(s, rule, base, nodes) == ForObject(s, rule,
  [n \in nodes |-> <<base, <<Field(rule, TRUE), Derived("affectedPods", Cardinality(PodsOfNode(s, n)))>>
                             \o EventEvidence(s, n)>>])
NodeNotReady(s) == OfNodes(s, "NodeNotReady", 5, {n \in Of(s, "Node") : ~At(s, n).ready})
NodeDiskPressure(s) == OfNodes(s, "NodeDiskPressure", 4, {n \in Of(s, "Node") : At(s, n).disk})
NodeMemoryPressure(s) == OfNodes(s, "NodeMemoryPressure", 4, {n \in Of(s, "Node") : At(s, n).memory})
NodePIDPressure(s) == OfNodes(s, "NodePIDPressure", 4, {n \in Of(s, "Node") : At(s, n).pid})

(* storage_rules.go *)
PVCPending(s) == ForObject(s, "PVCPending",
  [c \in {x \in Of(s, "PVC") : At(s, x).status \in {"Pending", "Lost"}} |->
     <<4, <<Field("phase", At(s, c).status), Derived("affectedPods", Cardinality(PodsOfPVC(s, c)))>>
            \o EventEvidence(s, c)>>])
PVFailed(s) == ForObject(s, "PVFailed",
  [v \in {x \in Of(s, "PV") : At(s, x).status \in {"Failed", "Released"}} |->
     <<IF At(s, v).status = "Failed" THEN 4 ELSE 2, <<Field("phase", At(s, v).status)>> \o EventEvidence(s, v)>>])
MountReasons == {"FailedMount", "FailedAttachVolume"}
MountEvents(s, p) == SelectSeq(EventsFor(s, p), LAMBDA e : e.reason \in MountReasons)
FailedMount(s) == ForObject(s, "FailedMount",
  [p \in {q \in Of(s, "Pod") : MountEvents(s, q) # <<>>} |->
     <<IF \E i \in DOMAIN MountEvents(s, p) : ConfigMissing(MountEvents(s, p)[i].msg) THEN 4 ELSE 3,
       [i \in DOMAIN MountEvents(s, p) |-> <<"event", MountEvents(s, p)[i].reason, MountEvents(s, p)[i].msg>>]
         \o [i \in DOMAIN StorageChain(s, p) |-> Derived("storage", StorageChain(s, p)[i])]>>])
VolumeAttachStuckAge == 2
VolumeAttachmentStuck(s) == ForObject(s, "VolumeAttachmentStuck",
  [a \in {x \in Of(s, "VolumeAttachment") :
            ~At(s, x).attached /\ (At(s, x).error \/ At(s, x).age >= VolumeAttachStuckAge)} |->
     <<3, <<Field("attached", FALSE)>> \o EventEvidence(s, a)>>])
StorageClassNoProvisioner(s) == ForObject(s, "StorageClassNoProvisioner",
  [k \in {x \in Of(s, "StorageClass") : ~At(s, x).provisioner} |-> <<2, <<Field("provisioner", "missing")>>>>])

(* network_rules.go, ingress_rules.go *)
EndpointGracePeriod == 2
AllMatchingPodsFresh(s, v) ==
  PodsOfService(s, v) # {} /\ \A p \in PodsOfService(s, v) : At(s, p).age < EndpointGracePeriod
ReadyEndpoints(s, v) == \E e \in SlicesOfService(s, v) : At(s, e).ready > 0
ServiceNoEndpoint(s) == ForObject(s, "ServiceNoEndpoint",
  [v \in {x \in Of(s, "Service") :
            At(s, x).selects # 0 /\ ~ReadyEndpoints(s, x) /\ ~AllMatchingPodsFresh(s, x)} |->
     <<3, <<Field("selector", At(s, v).selects), Field("readyEndpoints", 0),
            Derived("matchingPods", Cardinality(PodsOfService(s, v)))>>>>])
NetworkPolicyNoDefaultDeny(s) ==
  IF /\ Of(s, "NetworkPolicy") # {} /\ Of(s, "Pod") # {}
     /\ \A n \in Of(s, "NetworkPolicy") : At(s, n).selects # 0
  THEN {Finding(s, "NetworkPolicyNoDefaultDeny", <<"Namespace", 1>>, 2, <<Derived("defaultDeny", "missing")>>)}
  ELSE {}
LostBackends(s, i) == {v \in BackendsOf(s, i) : ~Has(s, v)}
IngressBackend(s) == ForObject(s, "IngressBackend",
  [i \in {x \in Of(s, "Ingress") : LostBackends(s, x) # {}} |->
     LET lost == FirstOf(At(s, i).backends, LostBackends(s, i))
     IN <<3, <<Field("backend", lost), Derived("missingService", lost)>>>>])
IngressHostConflict(s) == ForObject(s, "IngressHostConflict",
  [i \in {x \in Of(s, "Ingress") : At(s, x).conflict} |-> <<3, <<Field("conflict", TRUE)>>>>])

(* workload_rules.go, hpa_*.go, pdb_blocking.go *)
ReplicaShort(s, rule, kind) == ForObject(s, rule,
  [w \in {x \in Of(s, kind) : At(s, x).desired > 0 /\ At(s, x).ready < At(s, x).desired} |->
     <<4, <<Field("desiredReplicas", At(s, w).desired), Field("readyReplicas", At(s, w).ready)>>>>])
DeploymentReplica(s) == ReplicaShort(s, "DeploymentReplica", "Deployment")
StatefulSetReplica(s) == ReplicaShort(s, "StatefulSetReplica", "StatefulSet")
DaemonSetReplica(s) == ReplicaShort(s, "DaemonSetReplica", "DaemonSet")
DeploymentProgressDeadline(s) == ForObject(s, "DeploymentProgressDeadline",
  [w \in {x \in Of(s, "Deployment") : At(s, x).stalled} |-> <<3, <<Field("Progressing", FALSE)>>>>])
JobFailed(s) == ForObject(s, "JobFailed",
  [w \in {x \in Of(s, "Job") : At(s, x).failed} |-> <<4, <<Field("Failed", TRUE)>>>>])
CronJobSuspended(s) == ForObject(s, "CronJobSuspended",
  [w \in {x \in Of(s, "CronJob") : At(s, x).suspend} |-> <<2, <<Field("suspend", TRUE)>>>>])
DeploymentOverReplicas(s) == ForObject(s, "DeploymentOverReplicas",
  [w \in {x \in Of(s, "Deployment") : /\ At(s, x).desired > 0
                                       /\ Cardinality(PodsOfWorkload(s, x)) > At(s, x).desired} |->
     <<2, <<Field("desiredReplicas", At(s, w).desired),
            Derived("runningPods", Cardinality(PodsOfWorkload(s, w)))>>>>])
HpaReplicasMismatch(s) == ForObject(s, "HpaReplicasMismatch",
  [h \in {x \in Of(s, "HPA") : At(s, x).desired # 0 /\ At(s, x).desired # At(s, x).current} |->
     <<3, <<Field("desiredReplicas", At(s, h).desired), Field("currentReplicas", At(s, h).current)>>>>])
HpaScaleTargetMissing(s) == ForObject(s, "HpaScaleTargetMissing",
  [h \in {x \in Of(s, "HPA") : At(s, x).target # None /\ ~Has(s, At(s, x).target)} |->
     <<4, <<Field("scaleTargetRef", At(s, h).target)>>>>])
PdbBlocking(s) == ForObject(s, "PdbBlocking",
  [b \in {x \in Of(s, "PDB") : At(s, x).allowed = 0 /\ At(s, x).selects # 0} |->
     <<4, <<Field("disruptionsAllowed", 0)>>>>])

(* configref_not_found.go: one finding per missing reference. *)
LostConfigs(s) == UNION {{p} \X {c \in At(s, p).configs : ~Has(s, c)} : p \in Of(s, "Pod")}
ConfigRefNotFound(s) ==
  {Finding(s, "ConfigRefNotFound", x[1], 2, <<Field("config", x[2])>>) : x \in LostConfigs(s)}

(* rbac_over_privileged.go: the risk of a role is that of its riskiest      *)
(* rule; a rule is the set of its dimensions that are "*", and "named" when *)
(* it is limited to resource names.                                         *)
WildcardRisk(rule) ==
  CASE {"verbs", "urls"} \subseteq rule -> 2
    [] {"verbs", "resources", "groups"} \subseteq rule /\ "named" \notin rule -> 2
    [] rule \cap {"verbs", "resources", "groups", "urls"} # {} -> 1
    [] OTHER -> 0
RiskOf(s, role) == Max({0} \cup {WildcardRisk(At(s, role).rules[i]) : i \in DOMAIN At(s, role).rules})
RbacOverPrivileged(s) ==
  LET bindings == {b \in OfKinds(s, {"ClusterRoleBinding", "RoleBinding"}) :
                     /\ At(s, b).subjects /\ Has(s, At(s, b).role)
                     /\ Kind(b) = "ClusterRoleBinding" => Kind(At(s, b).role) = "ClusterRole"}
      granted == {At(s, b).role : b \in bindings}
      scope(b) == IF Kind(b) = "ClusterRoleBinding" THEN 2 ELSE 1
      unbound(r) == /\ r \notin granted /\ RiskOf(s, r) = 2
                    /\ <<IF Kind(r) = "ClusterRole" THEN "list_cluster_role_bindings"
                        ELSE "list_role_bindings", None>> \notin s.failed
  IN {Finding(s, "RbacOverPrivileged", b, RiskOf(s, At(s, b).role) + scope(b),
              <<Derived("rule", RiskOf(s, At(s, b).role)), Derived("roleRef", At(s, b).role),
                Derived("binding", b)>>) : b \in {x \in bindings : RiskOf(s, At(s, x).role) > 0}}
     \cup {Finding(s, "RbacOverPrivileged", r, 2,
              <<Derived("rule", 2), Derived("roleRef", r), Derived("binding", None)>>) :
             r \in {x \in OfKinds(s, {"ClusterRole", "Role"}) : unbound(x)}}

(* The registry's order. The code orders findings by rule and then as the   *)
(* API lists them; ids are hashes, so where it orders by id any fixed order *)
(* stands for it.                                                           *)
RuleOrder == <<"CrashLoopBackOff", "OOMKilled", "ImagePullBackOff", "PendingPod", "PodTerminating",
  "EvictedPod", "HighRestartCount", "ContainerCreateError", "Unhealthy", "IngressBackend",
  "NodeNotReady", "NodeDiskPressure", "NodeMemoryPressure", "NodePIDPressure", "PVCPending",
  "PVFailed", "FailedMount", "ServiceNoEndpoint", "DeploymentReplica", "StatefulSetReplica",
  "DaemonSetReplica", "DeploymentProgressDeadline", "JobFailed", "CronJobSuspended",
  "DeploymentOverReplicas", "NetworkPolicyNoDefaultDeny", "IngressHostConflict",
  "VolumeAttachmentStuck", "StorageClassNoProvisioner", "ContainerHealthTimeout",
  "HpaReplicasMismatch", "HpaScaleTargetMissing", "PdbBlocking", "RbacOverPrivileged",
  "ConfigRefNotFound">>
Place(rule) == CHOOSE i \in DOMAIN RuleOrder : RuleOrder[i] = rule
Earlier(f, g) == \/ Place(f.rule) < Place(g.rule)
                 \/ f.rule = g.rule /\ f.res[2] < g.res[2]

(* default_meta.go: the rules that advise, and those that ask for logs.     *)
Suggestions == {"NetworkPolicyNoDefaultDeny", "StorageClassNoProvisioner", "ConfigRefNotFound"}
LogRules == {"CrashLoopBackOff", "OOMKilled", "ImagePullBackOff", "HighRestartCount", "Unhealthy",
             "ContainerHealthTimeout", "JobFailed"}

(* engine.Evaluate runs the rules in that order, to the first n of them.    *)
Outcomes(s) ==
  <<CrashLoopBackOff(s), OOMKilled(s), ImagePullBackOff(s), PendingPod(s), PodTerminating(s),
    EvictedPod(s), HighRestartCount(s), ContainerCreateError(s), Unhealthy(s), IngressBackend(s),
    NodeNotReady(s), NodeDiskPressure(s), NodeMemoryPressure(s), NodePIDPressure(s),
    PVCPending(s), PVFailed(s), FailedMount(s), ServiceNoEndpoint(s), DeploymentReplica(s),
    StatefulSetReplica(s), DaemonSetReplica(s), DeploymentProgressDeadline(s), JobFailed(s),
    CronJobSuspended(s), DeploymentOverReplicas(s), NetworkPolicyNoDefaultDeny(s),
    IngressHostConflict(s), VolumeAttachmentStuck(s), StorageClassNoProvisioner(s),
    ContainerHealthTimeout(s), HpaReplicasMismatch(s), HpaScaleTargetMissing(s), PdbBlocking(s),
    RbacOverPrivileged(s), ConfigRefNotFound(s)>>
Evaluated(s, n) == LET all == Outcomes(s) IN UNION {all[i] : i \in 1..n}

(* markCorrelated: findings on the pods of a node that is itself at fault.  *)
NodeRules == {"NodeNotReady", "NodeDiskPressure", "NodeMemoryPressure", "NodePIDPressure"}
MarkCorrelated(s, fs) ==
  LET nodes == {f.res : f \in {x \in fs : x.rule \in NodeRules}}
  IN {f \in fs : Kind(f.res) = "Pod" /\ At(s, f.res).node \in nodes}
=============================================================================
