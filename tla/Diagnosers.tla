----------------------------- MODULE Diagnosers -----------------------------
(***************************************************************************)
(* The deterministic diagnosers (internal/deterministic): twenty-four      *)
(* scenarios tried on every incident. Each reads the incident's findings   *)
(* and the snapshot and gives at most one result:                          *)
(*   [id, status, conf, refs, denied, edges]                               *)
(* refs the evidence it cites, denied the resources its text says do not   *)
(* exist, edges the causal edges it adds, by numbers that give their       *)
(* order, conf hundredths of the confidence ladder. What a result leaves   *)
(* open (its gaps) is text: every result that is not confirmed has one.    *)
(*                                                                         *)
(* A case c is [s, g, items, all]: the snapshot, its relation graph, the   *)
(* incident's findings with the root first, and the findings of the scan.  *)
(* A finding's own object is always in the snapshot it was found in, so    *)
(* the branches for an object that is missing there are left out.          *)
(***************************************************************************)
EXTENDS Incidents

CaseOf(s, g, fs, inc) == [s |-> s, g |-> g, all |-> fs, items |-> Restored(fs, inc.items)]
Places(c, rules) == {i \in DOMAIN c.items : c.items[i].rule \in rules}
HasRule(c, rules) == Places(c, rules) # {}
FirstAt(c, is) == c.items[Min(is)]
OfRule(c, rule) == FirstAt(c, Places(c, {rule}))
FirstRule(c, rules) == OfRule(c, FirstOf(rules, {r \in ToSet(rules) : HasRule(c, {r})}))

(* FindingOn looks in the incident first, then in the whole scan.           *)
FindingOn(c, r, rules) ==
  LET here == {i \in Places(c, rules) : c.items[i].res = r}
      any == {f \in c.all : f.res = r /\ f.rule \in rules}
  IN IF here # {} THEN {FirstAt(c, here)} ELSE IF any # {} THEN {First(any)} ELSE {}

Refs(f) == {<<f.id, i>> : i \in DOMAIN f.ev}
RefsOfKind(f, class) == {<<f.id, i>> : i \in {j \in DOMAIN f.ev : f.ev[j][1] = class}}
(* EventWith: the first event with such a reason or message; its message.   *)
EventWith(c, r, reasons, msgs) ==
  LET found == SelectSeq(EventsFor(c.s, r), LAMBDA e : e.reason \in reasons \/ e.msg \in msgs)
  IN IF found = <<>> THEN "no event" ELSE found[1].msg
Mentions(c, r, reasons, msgs) == EventWith(c, r, reasons, msgs) # "no event"

(* CausalEdge refuses an edge the relation graph cannot justify. What       *)
(* diagnosers join are one finding and others, by their places in c.items.  *)
Justified(c, src, dst) == src.id # dst.id /\ Connected(c.g, src.res, dst.res)
Edge(src, dst, confidence) ==
  [source |-> src.id, target |-> dst.id, from |-> src.res, to |-> dst.res, confidence |-> confidence]
CausalEdge(c, src, dst, confidence) ==
  IF Justified(c, src, dst) THEN <<Edge(src, dst, confidence)>> ELSE <<>>
Explains(c, f, is, confidence) ==
  [i \in {j \in is : Justified(c, f, c.items[j])} |-> Edge(f, c.items[i], confidence)]
ExplainedBy(c, f, is, confidence) ==
  [i \in {j \in is : Justified(c, c.items[j], f)} |-> Edge(c.items[i], f, confidence)]
OfKind(c, kinds) ==
  {i \in DOMAIN c.items : Kind(c.items[i].res) \in kinds /\ Has(c.s, c.items[i].res)}
OnPods(c, pods) == {i \in OfKind(c, {"Pod"}) : c.items[i].res \in pods}

Result(id, status, conf, refs) ==
  [id |-> id, status |-> status, conf |-> conf, refs |-> refs, denied |-> {}, edges |-> <<>>]
Confirmed(id, conf, refs) == Result(id, "confirmed", conf, refs)
Probable(id, conf, refs) == Result(id, "probable", conf, refs)
Unknown(id, conf, refs) == Result(id, "unknown", conf, refs)
When(b, r) == IF b THEN {r} ELSE {}

(* pod.go *)
ContainersOf(s, p) ==
  SelectSeq(At(s, p).cons, LAMBDA k : ~k.init) \o SelectSeq(At(s, p).cons, LAMBDA k : k.init)
PodsIn(c, Shows(_)) ==
  {i \in OfKind(c, {"Pod"}) : \E k \in ToSet(ContainersOf(c.s, c.items[i].res)) : Shows(k)}
Crashing(k) ==
  \/ k.state = "Waiting" /\ k.reason \in {"CrashLoopBackOff", "CreateContainerError", "RunContainerError"}
  \/ k.restarts > 0 /\ (k.state = "Terminated" \/ k.last # "")
FailedReasons == {"BackOff", "Failed", "FailedScheduling", "Unhealthy"} \cup MountReasons
CrashLoop(c) ==
  LET its == PodsIn(c, Crashing)
      f == FirstAt(c, its)
      p == At(c.s, f.res)
      k == FirstOf(ContainersOf(c.s, f.res), {x \in ToSet(ContainersOf(c.s, f.res)) : Crashing(x)})
      exit == IF k.lastExit # 0 THEN k.lastExit ELSE k.exit
      fields == RefsOfKind(f, "field")
      logs == RefsOfKind(f, "log")
      event == Mentions(c, f.res, FailedReasons, {})
      id == "POD_CRASHLOOP"
      lost == p.node # None /\ Has(c.s, p.node) /\ ~At(c.s, p.node).ready
  IN When(HasRule(c, {"CrashLoopBackOff", "HighRestartCount", "ContainerCreateError"}) /\ its # {},
          CASE lost -> Probable(id, 60, Refs(f))
            [] ~lost /\ exit = 0 -> Probable(id, 85, Refs(f))
            [] ~lost /\ exit # 0 /\ fields # {} /\ (logs # {} \/ event) ->
                 Confirmed(id, 95, fields \cup logs \cup RefsOfKind(f, "event"))
            [] ~lost /\ exit # 0 /\ fields # {} /\ logs = {} /\ ~event -> Probable(id, 85, Refs(f))
            [] OTHER -> Probable(id, 60, Refs(f)))

OOM(c) ==
  LET killed(k) == "OOMKilled" \in {k.last, k.reason}
      its == PodsIn(c, killed)
      f == FirstAt(c, its)
      fields == RefsOfKind(f, "field")
      events == RefsOfKind(f, "event")
      told == events # {} \/ Mentions(c, f.res, {"OOMKilling"}, {})
      id == "POD_OOMKILLED"
  IN When(its # {},
          IF fields = {} THEN Probable(id, 60, Refs(f))
          ELSE IF told THEN Confirmed(id, 95, fields \cup events)
          ELSE Confirmed(id, 85, fields))

ImagePull(c) ==
  LET f == OfRule(c, "ImagePullBackOff")
      events == RefsOfKind(f, "event")
      id == "POD_IMAGEPULL"
  IN When(HasRule(c, {"ImagePullBackOff"}),
          IF Mentions(c, f.res, {"ErrImagePull", "ImagePullBackOff"}, {"image refused"})
          THEN IF events # {} THEN Confirmed(id, 75, events \cup RefsOfKind(f, "field"))
               ELSE Probable(id, 60, Refs(f))
          ELSE Probable(id, 45, Refs(f)))

Unschedulable(c) ==
  LET f == OfRule(c, "PendingPod")
      claim == OfRule(c, "PVCPending")
      id == "POD_UNSCHEDULABLE"
      said == EventWith(c, f.res, {"FailedScheduling"}, {})
      refs == RefsOfKind(f, "event") \cup RefsOfKind(f, "field")
  IN When(HasRule(c, {"PendingPod"}),
          IF HasRule(c, {"PVCPending"})
          THEN [Confirmed(id, 95, Refs(f) \cup Refs(claim)) EXCEPT
                  !.edges = CausalEdge(c, claim, f, "confirmed")]
          ELSE IF said \in {"no capacity", "tainted"} THEN Confirmed(id, 75, refs)
          ELSE IF said = "no event" THEN Unknown(id, 45, Refs(f))
          ELSE Probable(id, 75, refs))

MountFails(c) ==
  LET f == OfRule(c, "FailedMount")
      id == "POD_FAILEDMOUNT"
      said == EventWith(c, f.res, {"FailedMount"}, {"config not found", "timed out"})
      from(rule, conf, refs) ==
        [Confirmed(id, conf, refs) EXCEPT !.edges = CausalEdge(c, OfRule(c, rule), f, "confirmed")]
  IN When(HasRule(c, {"FailedMount"}),
          IF HasRule(c, {"PVCPending"}) THEN from("PVCPending", 95, Refs(f))
          ELSE IF HasRule(c, {"VolumeAttachmentStuck"})
          THEN from("VolumeAttachmentStuck", 85, Refs(f) \cup Refs(OfRule(c, "VolumeAttachmentStuck")))
          ELSE IF HasRule(c, {"ConfigRefNotFound"}) /\ said = "config not found"
          THEN from("ConfigRefNotFound", 95, Refs(f) \cup Refs(OfRule(c, "ConfigRefNotFound")))
          ELSE IF said = "timed out" THEN Confirmed(id, 75, Refs(f))
          ELSE Probable(id, IF said = "no event" THEN 45 ELSE 75, Refs(f)))

PressureRules == <<"NodeDiskPressure", "NodeMemoryPressure", "NodePIDPressure">>
Evicted(c) ==
  LET f == OfRule(c, "EvictedPod")
      n == At(c.s, f.res).node
      pressed == n # None /\ Has(c.s, n) /\ (At(c.s, n).disk \/ At(c.s, n).memory \/ At(c.s, n).pid)
      on == FindingOn(c, n, NodeRules)
  IN When(HasRule(c, {"EvictedPod"}),
          IF pressed
          THEN [Confirmed("POD_EVICTED", 95, Refs(f) \cup UNION {Refs(h) : h \in on}) EXCEPT
                  !.edges = IF on = {} THEN <<>>
                            ELSE CausalEdge(c, CHOOSE h \in on : TRUE, f, "confirmed")]
          ELSE Probable("POD_EVICTED", 85, Refs(f)))

ProbeFails(c) ==
  LET f == FirstRule(c, <<"Unhealthy", "ContainerHealthTimeout">>)
      said == EventWith(c, f.res, {"Unhealthy"}, {})
  IN When(HasRule(c, {"Unhealthy", "ContainerHealthTimeout"}),
          Probable("POD_PROBE_FAILING",
                   IF said = "status 404" THEN 95
                   ELSE IF Mentions(c, f.res, {}, {"refused"}) \/ said = "timed out" THEN 75
                   ELSE IF said # "no event" THEN 85 ELSE 45,
                   Refs(f)))

ConfigMissingRef(c) ==
  LET f == OfRule(c, "ConfigRefNotFound")
  IN When(HasRule(c, {"ConfigRefNotFound"}),
          [Confirmed("WORKLOAD_CONFIG_REF_MISSING", 85, Refs(f)) EXCEPT
             !.denied = {f.ev[1][3]},
             !.edges = IF HasRule(c, {"FailedMount"})
                       THEN CausalEdge(c, f, OfRule(c, "FailedMount"), "confirmed") ELSE <<>>])

(* network.go *)
PodReady(s, p) == IF At(s, p).cons = <<>> THEN At(s, p).phase = "Running"
                  ELSE \A i \in DOMAIN At(s, p).cons : At(s, p).cons[i].ready
NotReadyEndpoints(s, v) == \E e \in SlicesOfService(s, v) : At(s, e).notReady > 0
ReadyBehind(s, v) == {p \in PodsOfService(s, v) : PodReady(s, p)}
ServiceDown(c) ==
  LET f == OfRule(c, "ServiceNoEndpoint")
      v == f.res
      id == "NETWORK_SERVICE_NO_ENDPOINT"
      r == IF PodsOfService(c.s, v) = {} THEN Confirmed(id, 85, Refs(f))
           ELSE IF ReadyBehind(c.s, v) # {} THEN Probable(id, 60, Refs(f))
           ELSE IF NotReadyEndpoints(c.s, v) THEN Probable(id, 75, Refs(f))
           ELSE Probable(id, 60, Refs(f))
  IN When(HasRule(c, {"ServiceNoEndpoint"}),
          [r EXCEPT !.edges = ExplainedBy(c, f, OnPods(c, PodsOfService(c.s, v)), "probable")])

SliceInconsistent(c) ==
  LET f == OfRule(c, "ServiceNoEndpoint")
      v == f.res
  IN When(/\ HasRule(c, {"ServiceNoEndpoint"})
          /\ ReadyBehind(c.s, v) # {}
          /\ NotReadyEndpoints(c.s, v) \/ SlicesOfService(c.s, v) = {},
          [Probable("NETWORK_ENDPOINTSLICE_INCONSISTENT", 60, Refs(f)) EXCEPT
             !.edges = ExplainedBy(c, f, OnPods(c, ReadyBehind(c.s, v)), "probable")])

IngressDown(c) ==
  LET f == FirstRule(c, <<"IngressBackend", "IngressHostConflict">>)
      id == "NETWORK_INGRESS_BACKEND_UNAVAILABLE"
      r == IF f.rule = "IngressBackend"
           THEN [Confirmed(id, 85, Refs(f)) EXCEPT !.denied = {f.ev[1][3]}]
           ELSE Probable(id, 60, Refs(f))
      down == OfKind(c, {"Service"}) \cap Places(c, {"ServiceNoEndpoint"})
  IN When(HasRule(c, {"IngressBackend", "IngressHostConflict"}),
          [r EXCEPT !.edges = ExplainedBy(c, f, down, "confirmed")])

(* The search ends at an event; the first log ahead of it is cited as well. *)
DnsAbnormal(c) ==
  LET pods == {i \in DOMAIN c.items : Kind(c.items[i].res) = "Pod"}
      told == {i \in pods : Mentions(c, c.items[i].res, {}, {"no such host"})}
      logged == {i \in pods : c.items[i].res \in c.s.logs /\ At(c.s, c.items[i].res).unresolved}
      ahead == {i \in logged : \A j \in told : i < j}
      id == "PLATFORM_DNS_ABNORMAL"
  IN When(told \cup logged # {} \/ ~DnsReady(c.s),
          IF told \cup logged # {}
          THEN Probable(id, 75, UNION {Refs(FirstAt(c, is)) : is \in {told, ahead} \ {{}}})
          ELSE Probable(id, IF DnsPods(c.s) = {} THEN 60 ELSE 85, {}))

PolicyPosture(c) ==
  When(HasRule(c, {"NetworkPolicyNoDefaultDeny"}),
       Probable("NETWORK_POLICY_POSTURE", 60, Refs(OfRule(c, "NetworkPolicyNoDefaultDeny"))))

(* node.go *)
OnNode(c, f) == OnPods(c, PodsOfNode(c.s, f.res))
NodeDown(c) ==
  LET f == OfRule(c, "NodeNotReady")
      why == At(c.s, f.res).why
      lost == Mentions(c, f.res, {"NodeStatusUnknown", "Rebooted"}, {})
  IN When(HasRule(c, {"NodeNotReady"}),
          [Result("NODE_NOTREADY", IF why THEN "confirmed" ELSE "probable",
                  IF lost THEN 95 ELSE 85, Refs(f)) EXCEPT
             !.edges = Explains(c, f, OnNode(c, f), "confirmed")])

NodePressed(c) ==
  LET f == FirstRule(c, PressureRules)
  IN When(HasRule(c, ToSet(PressureRules)),
          [Confirmed("NODE_PRESSURE", 85, Refs(f)) EXCEPT
             !.edges = Explains(c, f, OnNode(c, f), "confirmed")])

(* storage.go *)
ClaimPending(c) ==
  LET f == OfRule(c, "PVCPending")
      claim == At(c.s, f.res)
      k == claim.class
      onClass == FindingOn(c, k, {"StorageClassNoProvisioner"})
      id == "STORAGE_PVC_PENDING"
      conf == IF RefsOfKind(f, "event") # {} THEN 95 ELSE 85
      r == IF claim.status = "Lost" THEN Confirmed(id, conf, Refs(f))
           ELSE IF k # None /\ ~Has(c.s, k) THEN [Confirmed(id, conf, Refs(f)) EXCEPT !.denied = {k}]
           ELSE IF onClass # {} /\ ~At(c.s, k).provisioner
           THEN Confirmed(id, conf, Refs(f) \cup UNION {Refs(h) : h \in onClass})
           ELSE Probable(id, 60, Refs(f))
  IN When(HasRule(c, {"PVCPending"}),
          [r EXCEPT !.edges =
             Explains(c, f, OnPods(c, {p \in Of(c.s, "Pod") : At(c.s, p).pvc = f.res}), "confirmed")])

VolumeDown(c) ==
  LET f == OfRule(c, "PVFailed")
  IN When(HasRule(c, {"PVFailed"}),
          [Confirmed("STORAGE_PV_UNAVAILABLE", 85, Refs(f)) EXCEPT
             !.edges = Explains(c, f, {i \in OfKind(c, {"PVC"}) : At(c.s, c.items[i].res).volume = f.res},
                                "confirmed")])

ClassInvalid(c) ==
  LET f == OfRule(c, "StorageClassNoProvisioner")
  IN When(HasRule(c, {"StorageClassNoProvisioner"}),
          [Confirmed("STORAGE_CLASS_INVALID", 85, Refs(f)) EXCEPT
             !.edges = Explains(c, f, {i \in OfKind(c, {"PVC"}) \cap Places(c, {"PVCPending"}) :
                                         At(c.s, c.items[i].res).class = f.res}, "confirmed")])

AttachmentStuck(c) ==
  LET f == OfRule(c, "VolumeAttachmentStuck")
      id == "STORAGE_VOLUME_ATTACHMENT_STUCK"
  IN When(HasRule(c, {"VolumeAttachmentStuck"}),
          IF At(c.s, f.res).error THEN Confirmed(id, 85, Refs(f)) ELSE Probable(id, 60, Refs(f)))

(* workload.go: the pods of a workload by the state of their containers.    *)
PodClass(s, p) ==
  LET a == At(s, p)
      crashed(k) == \/ k.state = "Waiting"
                         /\ k.reason \in {"CrashLoopBackOff", "CreateContainerError", "RunContainerError",
                                          "CreateContainerConfigError"}
                    \/ k.state = "Terminated" /\ k.exit # 0
  IN CASE a.phase = "Failed" \/ a.reason = "Evicted" -> "dead"
       [] a.phase = "Pending" /\ a.reason # "Evicted" -> "pending"
       [] a.phase = "Running" /\ a.reason # "Evicted" /\ PodReady(s, p) -> "healthy"
       [] OTHER -> IF \E i \in DOMAIN a.cons : crashed(a.cons[i]) THEN "crashing" ELSE "notReady"

ReplicasMissing(c) ==
  LET f == FirstRule(c, <<"DeploymentReplica", "StatefulSetReplica", "DeploymentProgressDeadline">>)
      pods == PodsOfWorkload(c.s, f.res)
      are(class) == {p \in pods : PodClass(c.s, p) = class}
      lowest(ps) == CHOOSE p \in ps : \A q \in ps : p[2] <= q[2]
      blamed == {class \in {"crashing", "pending", "notReady"} : are(class) # {}}
      most == FirstOf(<<"crashing", "pending", "notReady">>, blamed)
      id == "WORKLOAD_REPLICAS_UNAVAILABLE"
      r == IF blamed # {}
           THEN Probable(id, 85, Refs(f) \cup UNION {Refs(h) : h \in
                  FindingOn(c, lowest(are(most)), ToSet(RuleOrder))})
           ELSE IF pods # {} /\ At(c.s, f.res).desired = 0 THEN Confirmed(id, 85, Refs(f))
           ELSE Probable(id, 60, Refs(f))
  IN When(HasRule(c, {"DeploymentReplica", "StatefulSetReplica", "DeploymentProgressDeadline"}),
          [r EXCEPT !.edges = ExplainedBy(c, f, OnPods(c, pods), "probable")])

(* A node counts as unavailable only when it is cordoned: the branch for    *)
(* nodes that are not ready tests a condition already known to be true.     *)
DaemonSetGap(c) ==
  LET f == OfRule(c, "DaemonSetReplica")
      cordoned == {n \in Of(c.s, "Node") : At(c.s, n).cordoned}
      id == "WORKLOAD_DAEMONSET_GAP"
  IN When(HasRule(c, {"DaemonSetReplica"}),
          IF cordoned = {} THEN Probable(id, 60, Refs(f))
          ELSE [Probable(id, 85, Refs(f)) EXCEPT
                  !.edges = ExplainedBy(c, f, OfKind(c, {"Node"}), "probable")])

JobFails(c) ==
  LET f == OfRule(c, "JobFailed")
      pods == PodsOfWorkload(c.s, f.res)
      lowest(ps) == CHOOSE p \in ps : \A q \in ps : p[2] <= q[2]
      exited == {p \in pods : \E i \in DOMAIN At(c.s, p).cons :
                   At(c.s, p).cons[i].state = "Terminated" /\ At(c.s, p).cons[i].exit # 0}
      logged == pods \cap c.s.logs
      on(p) == FindingOn(c, p, ToSet(RuleOrder))
      cited == Refs(f) \cup UNION {Refs(h) : h \in on(lowest(exited))}
      id == "WORKLOAD_JOB_FAILED"
  IN When(HasRule(c, {"JobFailed"}),
          IF exited = {} THEN Unknown(id, 45, Refs(f))
          ELSE IF logged = {} THEN Probable(id, 85, cited)
          ELSE Confirmed(id, 95, cited \cup UNION {RefsOfKind(h, "log") : h \in on(lowest(logged))}))

NotScaling(c) ==
  LET f == FirstRule(c, <<"HpaScaleTargetMissing", "HpaReplicasMismatch">>)
      h == At(c.s, f.res)
      id == "WORKLOAD_HPA_NOT_SCALING"
      r == IF f.rule = "HpaScaleTargetMissing"
           THEN [Confirmed(id, 85, Refs(f)) EXCEPT !.denied = {f.ev[1][3]}]
           ELSE IF h.max > 0 /\ h.current >= h.max /\ h.desired >= h.max THEN Confirmed(id, 85, Refs(f))
           ELSE Probable(id, 60, Refs(f))
  IN When(HasRule(c, {"HpaScaleTargetMissing", "HpaReplicasMismatch"}),
          [r EXCEPT !.edges = Explains(c, f, DOMAIN c.items, "probable")])

BudgetBlocks(c) ==
  When(HasRule(c, {"PdbBlocking"}),
       Confirmed("WORKLOAD_PDB_BLOCKING", 85, Refs(OfRule(c, "PdbBlocking"))))

(* deterministic.go. normalize: a result may only cite evidence of its own  *)
(* incident, and with none left it is neither confirmed nor confident.      *)
Normalize(c, r) ==
  LET known == UNION {Refs(c.items[i]) : i \in DOMAIN c.items}
      refs == r.refs \cap known
  IN IF refs # {} THEN [r EXCEPT !.refs = refs]
     ELSE [r EXCEPT !.refs = {},
                    !.status = IF r.status = "confirmed" THEN "probable" ELSE r.status,
                    !.conf = IF r.conf > 45 THEN 45 ELSE r.conf]

Diagnoses(c) ==
  {Normalize(c, r) : r \in
     CrashLoop(c) \cup OOM(c) \cup ImagePull(c) \cup Unschedulable(c) \cup MountFails(c) \cup Evicted(c)
       \cup ProbeFails(c) \cup ConfigMissingRef(c) \cup ServiceDown(c) \cup SliceInconsistent(c)
       \cup IngressDown(c) \cup DnsAbnormal(c) \cup PolicyPosture(c) \cup NodeDown(c) \cup NodePressed(c)
       \cup ClaimPending(c) \cup VolumeDown(c) \cup ClassInvalid(c) \cup AttachmentStuck(c)
       \cup ReplicasMissing(c) \cup DaemonSetGap(c) \cup JobFails(c) \cup NotScaling(c) \cup BudgetBlocks(c)}

(* The order of the results: status, confidence, then the diagnosers' ids   *)
(* as strings.                                                              *)
DiagnoserOrder == <<"NETWORK_ENDPOINTSLICE_INCONSISTENT", "NETWORK_INGRESS_BACKEND_UNAVAILABLE",
  "NETWORK_POLICY_POSTURE", "NETWORK_SERVICE_NO_ENDPOINT", "NODE_NOTREADY", "NODE_PRESSURE",
  "PLATFORM_DNS_ABNORMAL", "POD_CRASHLOOP", "POD_EVICTED", "POD_FAILEDMOUNT", "POD_IMAGEPULL",
  "POD_OOMKILLED", "POD_PROBE_FAILING", "POD_UNSCHEDULABLE", "STORAGE_CLASS_INVALID",
  "STORAGE_PVC_PENDING", "STORAGE_PV_UNAVAILABLE", "STORAGE_VOLUME_ATTACHMENT_STUCK",
  "WORKLOAD_CONFIG_REF_MISSING", "WORKLOAD_DAEMONSET_GAP", "WORKLOAD_HPA_NOT_SCALING",
  "WORKLOAD_JOB_FAILED", "WORKLOAD_PDB_BLOCKING", "WORKLOAD_REPLICAS_UNAVAILABLE">>
Rank(status) == CASE status = "confirmed" -> 3 [] status = "probable" -> 2 [] OTHER -> 1
Ahead(r, q) ==
  LET at(x) == CHOOSE i \in DOMAIN DiagnoserOrder : DiagnoserOrder[i] = x.id
  IN \/ Rank(r.status) > Rank(q.status)
     \/ Rank(r.status) = Rank(q.status) /\ (r.conf > q.conf \/ (r.conf = q.conf /\ at(r) < at(q)))

JoinEdges(base, add) == base \cup {add[i] : i \in DOMAIN add}
(* mergeEdges keeps one edge per target, the surest and of those the first: *)
(* those there already come before the added ones.                          *)
MergeEdges(base, add) ==
  LET beats(e, d) == e.target = d.target /\ Rank(e.confidence) >= Rank(d.confidence)
      better(j, i) == IF j < i THEN beats(add[j], add[i]) ELSE beats(add[j], add[i]) /\ ~beats(add[i], add[j])
  IN {e \in base : \A i \in DOMAIN add : beats(add[i], e) => beats(e, add[i])}
       \cup {add[i] : i \in {k \in DOMAIN add : /\ ~\E e \in base : beats(e, add[k])
                                               /\ ~\E j \in DOMAIN add : better(j, k)}}

(* Apply: only the first result is written into the incident.               *)
Diagnose(s, g, fs, inc) ==
  LET c == CaseOf(s, g, fs, inc)
      rs == Diagnoses(c)
      best == CHOOSE r \in rs : \A q \in rs : ~Ahead(q, r)
  IN IF rs = {} THEN inc
     ELSE [inc EXCEPT !.status = best.status, !.cause = best.id, !.denied = best.denied,
                      !.edges = MergeEdges(@, best.edges)]
=============================================================================
