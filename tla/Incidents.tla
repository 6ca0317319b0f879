----------------------------- MODULE Incidents -----------------------------
(***************************************************************************)
(* Findings grouped into incidents (internal/incident): findings that      *)
(* touch a common resource belong together, each group gets a root, and a  *)
(* tree of causal edges is grown from it over the relation graph.          *)
(*                                                                         *)
(* An incident is [root, items, edges, ...]: root a finding, items the     *)
(* root and then the findings of the group whose id is not the root's, the *)
(* most severe first; edges are records                                    *)
(* [source, target, from, to, confidence] between finding ids.             *)
(***************************************************************************)
EXTENDS Rules

First(fs) == CHOOSE f \in fs : \A g \in fs : ~Earlier(g, f)
ByRule(fs, rule) == {f \in fs : f.rule = rule}

(* touchKeys: what a finding's resource brings into the group.              *)
TouchKeys(s, f) ==
  LET r == f.res
      users(c) == {c} \cup PodsOfPVC(s, c)
  IN {r} \cup
     CASE Kind(r) = "Pod" /\ Has(s, r) ->
            (ToSet(OwnerChain(s, r)) \cup {At(s, r).node, At(s, r).pvc} \cup ServicesOfPod(s, r)) \ {None}
       [] Kind(r) \in Workloads -> PodsOfWorkload(s, r)
       [] Kind(r) = "Service" -> PodsOfService(s, r) \cup IngressesOfService(s, r)
       [] Kind(r) = "Ingress" -> BackendsOf(s, r)
       [] Kind(r) = "Node" -> PodsOfNode(s, r)
       [] Kind(r) = "PVC" -> PodsOfPVC(s, r)
       [] Kind(r) = "PV" -> UNION {users(c) : c \in {x \in Of(s, "PVC") : At(s, x).volume = r}}
       [] Kind(r) = "StorageClass" ->
            UNION {users(c) : c \in {x \in OfKinds(s, {"PVC", "PV"}) : At(s, x).class = r}}
       [] OTHER -> {}

(* Build's union-find: the classes of the relation "touch a common key".    *)
Touching(s, fs) ==
  LET keys == [f \in fs |-> TouchKeys(s, f)]
  IN [f \in fs |-> {g \in fs : keys[f] \cap keys[g] # {}}]
Grown(near, f, n) ==
  LET grown[i \in Nat] == IF i = 0 THEN {f} ELSE UNION {near[g] : g \in grown[i - 1]}
  IN grown[n]
Groups(s, fs) ==
  LET near == Touching(s, fs) IN {Grown(near, f, Cardinality(fs)) : f \in fs}

(* causalCauses: the rules that may explain a rule, most likely first.      *)
CausalCauses(rule) ==
  CASE rule = "PendingPod" ->
         <<"NodeNotReady", "NodeDiskPressure", "NodeMemoryPressure", "NodePIDPressure", "PVCPending",
           "FailedMount", "StorageClassNoProvisioner", "PdbBlocking", "ImagePullBackOff",
           "ConfigRefNotFound">>
    [] rule = "FailedMount" ->
         <<"PVCPending", "PVFailed", "StorageClassNoProvisioner", "VolumeAttachmentStuck">>
    [] rule = "ContainerCreateError" -> <<"PVCPending", "FailedMount", "NodeNotReady">>
    [] rule = "CrashLoopBackOff" -> <<"OOMKilled", "Unhealthy", "ConfigRefNotFound">>
    [] rule = "ContainerHealthTimeout" -> <<"ConfigRefNotFound", "NodeNotReady">>
    [] rule = "HighRestartCount" -> <<"OOMKilled", "CrashLoopBackOff", "Unhealthy">>
    [] rule = "EvictedPod" ->
         <<"NodeDiskPressure", "NodeMemoryPressure", "NodePIDPressure", "NodeNotReady">>
    [] rule = "DeploymentReplica" ->
         <<"PendingPod", "CrashLoopBackOff", "ImagePullBackOff", "Unhealthy", "ConfigRefNotFound",
           "PdbBlocking", "NodeNotReady", "ContainerCreateError">>
    [] rule = "StatefulSetReplica" ->
         <<"PendingPod", "CrashLoopBackOff", "ImagePullBackOff", "PVCPending", "Unhealthy",
           "ContainerCreateError">>
    [] rule = "DaemonSetReplica" -> <<"NodeNotReady", "PendingPod", "ImagePullBackOff", "Unhealthy">>
    [] rule = "JobFailed" ->
         <<"OOMKilled", "ImagePullBackOff", "PendingPod", "FailedMount", "ConfigRefNotFound">>
    [] rule = "ServiceNoEndpoint" ->
         <<"PendingPod", "CrashLoopBackOff", "Unhealthy", "ImagePullBackOff", "DeploymentReplica",
           "StatefulSetReplica", "ContainerHealthTimeout">>
    [] rule = "IngressBackend" -> <<"ServiceNoEndpoint", "ConfigRefNotFound">>
    [] rule = "HpaReplicasMismatch" ->
         <<"PendingPod", "CrashLoopBackOff", "ImagePullBackOff", "DeploymentReplica">>
    [] rule = "HpaScaleTargetMissing" -> <<"ConfigRefNotFound">>
    [] rule = "PVCPending" -> <<"StorageClassNoProvisioner">>
    [] rule = "PVFailed" -> <<"StorageClassNoProvisioner", "VolumeAttachmentStuck">>
    [] rule = "VolumeAttachmentStuck" -> <<"NodeNotReady">>
    [] rule = "Unhealthy" -> <<"ConfigRefNotFound", "OOMKilled">>
    [] OTHER -> <<>>

(* pickRootByDomain: storage, node, pod, workload, service; then whatever   *)
(* is most severe.                                                          *)
DomainOrder == <<"PVCPending", "NodeNotReady", "NodeDiskPressure", "NodeMemoryPressure",
  "PendingPod", "ContainerCreateError", "CrashLoopBackOff", "OOMKilled", "ImagePullBackOff",
  "FailedMount", "Unhealthy", "DeploymentReplica", "StatefulSetReplica", "JobFailed",
  "ServiceNoEndpoint">>
RulesOf(fs) == {f.rule : f \in fs}
PickRootByDomain(fs) ==
  IF ToSet(DomainOrder) \cap RulesOf(fs) # {}
  THEN First(ByRule(fs, FirstOf(DomainOrder, RulesOf(fs))))
  ELSE First({f \in fs : \A g \in fs : f.sev >= g.sev})

(* pickRoot: from that candidate down the table of causes, to a limit.      *)
OneCausalHop == 1
MaxCausalHops == 2
Hop(fs, best, seen) ==
  LET causes == ToSet(CausalCauses(best.rule)) \cap (RulesOf(fs) \ seen)
      cause == FirstOf(CausalCauses(best.rule), causes)
  IN IF causes = {} THEN <<best, seen>> ELSE <<First(ByRule(fs, cause)), seen \cup {cause}>>
PickRoot(fs) ==
  LET start == PickRootByDomain(fs)
      at[n \in Nat] == IF n = 0 THEN <<start, {start.rule}>>
                       ELSE LET before == at[n - 1] IN Hop(fs, before[1], before[2])
  IN at[MaxCausalHops + 1][1]

(* Relate and Diagnose look the findings of an incident up by their ids: of *)
(* two of the scan with one id they get the later.                          *)
Restored(fs, items) ==
  LET byID(id) == CHOOSE f \in fs : f.id = id /\ \A h \in fs : h.id = id => ~Earlier(f, h)
  IN [i \in DOMAIN items |-> byID(items[i].id)]

(* growCausalTree: in passes over the members, each not yet explained gets  *)
(* one edge from the likeliest cause among those explained, if the relation *)
(* graph joins the two resources in at most MaxCausalHops edges. As many    *)
(* passes as members are enough. Of causes equally likely the first counts, *)
(* where an id has the last of its places.                                  *)
IndexIn(q, x) == CHOOSE i \in DOMAIN q : q[i] = x
CausesOf(g, all, seen, t) ==
  {i \in DOMAIN all : /\ all[i].id \in seen
                      /\ all[i].rule \in ToSet(CausalCauses(t.rule))
                      /\ Near(g, all[i].res, t.res)}
Likeliest(all, t, is) ==
  LET at(i) == IndexIn(CausalCauses(t.rule), all[i].rule)
      place(i) == Max({k \in DOMAIN all : all[k].id = all[i].id})
  IN CHOOSE i \in is : \A j \in is : at(i) < at(j) \/ (at(i) = at(j) /\ place(i) <= place(j))
Visit(g, all, tree, t) ==
  LET causes == CausesOf(g, all, tree.seen, t)
      cause == all[Likeliest(all, t, causes)]
  IN IF t.id \in tree.seen \/ causes = {} THEN tree
     ELSE [seen |-> tree.seen \cup {t.id},
           edges |-> tree.edges \cup {[source |-> cause.id, target |-> t.id, from |-> cause.res,
                                       to |-> t.res, confidence |-> "probable"]}]
GrowCausalTree(g, all) ==
  LET n == Len(all) - 1
      tree[k \in Nat] ==
        IF k = 0 THEN [seen |-> {all[1].id}, edges |-> {}]
        ELSE Visit(g, all, tree[k - 1], all[2 + ((k - 1) % n)])
  IN tree[n * n].edges

(* Build and Relate *)
Worst(fs) ==
  CHOOSE f \in fs : \A g \in fs : g.sev < f.sev \/ (g.sev = f.sev /\ ~Earlier(g, f))
MembersFirst(fs) ==
  LET taken[n \in Nat] ==
        IF n = 0 THEN [list |-> <<>>, rest |-> fs]
        ELSE LET before == taken[n - 1]
                 f == Worst(before.rest)
             IN [list |-> Append(before.list, f), rest |-> before.rest \ {f}]
  IN taken[Cardinality(fs)].list
Build(s, fs) ==
  {LET root == PickRoot(grp)
   IN [root |-> root, items |-> <<root>> \o MembersFirst({f \in grp : f.id # root.id}),
       edges |-> {}, status |-> "unknown", cause |-> "none", denied |-> {}] : grp \in Groups(s, fs)}
Relate(g, fs, incs) ==
  {[inc EXCEPT !.edges = GrowCausalTree(g, Restored(fs, inc.items))] : inc \in incs}
=============================================================================
