---------------------------- MODULE MCInspection ----------------------------
(***************************************************************************)
(* Instances of Inspection for TLC: one small cluster in which all is      *)
(* well, some forty faults that strike it alone or a few at a time, and    *)
(* longer stories: chains of causes, a list that fails, a cluster that     *)
(* changes while it is listed, a deadline.                                 *)
(***************************************************************************)
EXTENDS Inspection, TLC

(* The cluster: a Deployment's two pods behind a service and an ingress,    *)
(* the first with a claim and a ConfigMap; a StatefulSet's, a Job's and the *)
(* DNS pod.                                                                 *)
P(n) == <<"Pod", n>>
N(n) == <<"Node", n>>
D == <<"Deployment", 1>>
RS == <<"ReplicaSet", 1>>
SS == <<"StatefulSet", 1>>
DS == <<"DaemonSet", 1>>
JB == <<"Job", 1>>
SV == <<"Service", 1>>
ES == <<"EndpointSlice", 1>>
IG == <<"Ingress", 1>>
PC == <<"PVC", 1>>
VO == <<"PV", 1>>
SC == <<"StorageClass", 1>>
VA == <<"VolumeAttachment", 1>>
CM == <<"ConfigMap", 1>>
CR == <<"ClusterRole", 1>>
CB == <<"ClusterRoleBinding", 1>>

WellObjects ==
  <<"Namespace", 1>> :> Namespace @@ N(1) :> Node @@ N(2) :> Node
  @@ D :> [Workload EXCEPT !.desired = 2, !.ready = 2]
  @@ RS :> [Workload EXCEPT !.owner = D, !.desired = 2, !.ready = 2]
  @@ SS :> Workload @@ DS :> Workload @@ JB :> Workload @@ <<"CronJob", 1>> :> Workload
  @@ P(1) :> [Pod EXCEPT !.node = N(1), !.owner = RS, !.pvc = PC, !.configs = {CM}, !.app = 1]
  @@ P(2) :> [Pod EXCEPT !.node = N(1), !.owner = RS, !.app = 1]
  @@ P(3) :> [Pod EXCEPT !.node = N(2), !.owner = JB, !.phase = "Succeeded",
                          !.cons[1] = [@ EXCEPT !.state = "Terminated", !.reason = "Completed"]]
  @@ P(4) :> [Pod EXCEPT !.node = N(2), !.owner = DS, !.app = DnsLabel]
  @@ P(5) :> [Pod EXCEPT !.node = N(2), !.owner = SS]
  @@ SV :> [Service EXCEPT !.selects = 1]
  @@ ES :> [EndpointSlice EXCEPT !.service = SV, !.ready = 2, !.pods = {P(1), P(2)}]
  @@ IG :> [Ingress EXCEPT !.backends = <<SV>>]
  @@ PC :> [Claim EXCEPT !.volume = VO, !.class = SC] @@ VO :> [Volume EXCEPT !.class = SC]
  @@ SC :> StorageClass @@ VA :> VolumeAttachment
  @@ <<"HPA", 1>> :> [Hpa EXCEPT !.target = D] @@ <<"PDB", 1>> :> [Pdb EXCEPT !.selects = 1]
  @@ <<"NetworkPolicy", 1>> :> NetworkPolicy @@ CM :> Named @@ <<"Secret", 1>> :> Named
  @@ CR :> Role @@ CB :> [Binding EXCEPT !.role = CR, !.subjects = TRUE]
  @@ <<"Role", 1>> :> Role @@ <<"RoleBinding", 1>> :> [Binding EXCEPT !.role = <<"Role", 1>>, !.subjects = TRUE]
Well == [obj |-> WellObjects, events |-> <<>>]

Gone(c, r) == [c EXCEPT !.obj = [x \in DOMAIN @ \ {r} |-> @[x]]]
Told(c, r, reason, msg) ==
  [c EXCEPT !.events = (r :> Append(EventsFor(c, r), [reason |-> reason, msg |-> msg])) @@ @]
Stuck(c, p, why, msg) ==
  [c EXCEPT !.obj[p].cons = <<[Container EXCEPT !.state = "Waiting", !.reason = why, !.msg = msg,
                                                !.ready = FALSE]>>]

(* The faults, each as it shows in the API. *)
Strike(c, fault) ==
  CASE fault = "crash" ->
         [c EXCEPT !.obj[P(1)].cons = <<[Container EXCEPT !.state = "Waiting", !.reason = "CrashLoopBackOff",
            !.restarts = 6, !.last = "Error", !.lastExit = 1, !.ready = FALSE]>>]
    [] fault = "oom" ->
         Told([c EXCEPT !.obj[P(1)].cons = <<[Container EXCEPT !.restarts = 6, !.last = "OOMKilled",
            !.lastExit = 137, !.limit = TRUE]>>], N(1), "OOMKilling", "other")
    [] fault = "oom2" ->
         [c EXCEPT !.obj[P(2)].cons = <<[Container EXCEPT !.restarts = 1, !.last = "OOMKilled", !.lastExit = 137]>>]
    [] fault = "image" -> Told(Stuck(c, P(2), "ImagePullBackOff", "other"), P(2), "BackOff", "image refused")
    [] fault = "configError" -> Stuck(c, P(1), "CreateContainerConfigError", "config not found")
    [] fault = "pending" ->
         Told([c EXCEPT !.obj[P(1)].phase = "Pending", !.obj[P(1)].node = None, !.obj[P(1)].cons = <<>>,
                        !.obj[P(1)].scheduled = "Unschedulable"], P(1), "FailedScheduling", "no capacity")
    [] fault = "dying" -> [c EXCEPT !.obj[P(1)].dying = 6, !.obj[P(1)].held = TRUE]
    [] fault = "evicted" ->
         [c EXCEPT !.obj[P(1)].phase = "Failed", !.obj[P(1)].reason = "Evicted", !.obj[P(1)].cons = <<>>]
    [] fault = "unhealthy" ->
         Told([c EXCEPT !.obj[P(1)].cons = <<[Container EXCEPT !.ready = FALSE, !.probed = TRUE]>>],
              P(1), "Unhealthy", "status 404")
    [] fault = "slow" -> [c EXCEPT !.obj[P(2)].cons[1].ready = FALSE, !.obj[P(2)].unresolved = TRUE]
    [] fault = "mount" ->
         Told([c EXCEPT !.obj[P(1)].phase = "Pending",
                        !.obj[P(1)].cons = <<[Container EXCEPT !.state = "Waiting", !.ready = FALSE]>>],
              P(1), "FailedMount", "timed out")
    [] fault = "mountConfig" -> Told(c, P(1), "FailedMount", "config not found")
    [] fault = "nodeDown" -> [c EXCEPT !.obj[N(1)].ready = FALSE]
    [] fault = "disk" -> [c EXCEPT !.obj[N(1)].disk = TRUE]
    [] fault = "memory2" -> [c EXCEPT !.obj[N(2)].memory = TRUE]
    [] fault = "pid" -> [c EXCEPT !.obj[N(1)].pid = TRUE]
    [] fault = "cordoned" -> [c EXCEPT !.obj[N(2)].cordoned = TRUE]
    [] fault = "claimPending" -> [c EXCEPT !.obj[PC].status = "Pending", !.obj[PC].volume = None]
    [] fault = "claimLost" -> [c EXCEPT !.obj[PC].status = "Lost"]
    [] fault = "volume" -> [c EXCEPT !.obj[VO].status = "Failed"]
    [] fault = "class" -> [c EXCEPT !.obj[SC].provisioner = FALSE]
    [] fault = "noClass" -> Gone(c, SC)
    [] fault = "attach" -> [c EXCEPT !.obj[VA].attached = FALSE, !.obj[VA].error = TRUE]
    [] fault = "noEndpoint" -> [c EXCEPT !.obj[ES].ready = 0, !.obj[ES].notReady = 2]
    [] fault = "noSlice" -> Gone(c, ES)
    [] fault = "noService" -> Gone(c, SV)
    [] fault = "conflict" -> [c EXCEPT !.obj[IG].conflict = TRUE]
    [] fault = "short" -> [c EXCEPT !.obj[D].ready = 1]
    [] fault = "stalled" -> [c EXCEPT !.obj[D].stalled = TRUE]
    [] fault = "over" -> [c EXCEPT !.obj[D].desired = 1, !.obj[D].ready = 1]
    [] fault = "setShort" -> [c EXCEPT !.obj[SS].ready = 0]
    [] fault = "daemonShort" -> [c EXCEPT !.obj[DS].ready = 0]
    [] fault = "job" ->
         [c EXCEPT !.obj[JB].failed = TRUE, !.obj[P(3)].phase = "Failed",
                   !.obj[P(3)].cons[1].reason = "Error", !.obj[P(3)].cons[1].exit = 1]
    [] fault = "suspended" -> [c EXCEPT !.obj[<<"CronJob", 1>>].suspend = TRUE]
    [] fault = "hpa" -> [c EXCEPT !.obj[<<"HPA", 1>>].desired = 3]
    [] fault = "hpaTarget" -> [c EXCEPT !.obj[<<"HPA", 1>>].target = <<"Deployment", 2>>]
    [] fault = "budget" -> [c EXCEPT !.obj[<<"PDB", 1>>].allowed = 0]
    [] fault = "open" -> [c EXCEPT !.obj[<<"NetworkPolicy", 1>>].selects = 1]
    [] fault = "wildcard" -> [c EXCEPT !.obj[CR].rules = <<{"verbs", "resources", "groups"}>>]
    [] fault = "unbound" -> Gone([c EXCEPT !.obj[CR].rules = <<{"verbs", "urls"}>>], CB)
    [] fault = "noConfig" -> Gone(c, CM)
    [] fault = "dns" -> [c EXCEPT !.obj[P(4)].cons[1].ready = FALSE]
    [] fault = "lookup" -> Told(c, P(2), "Failed", "no such host")
    [] fault = "prod" -> [c EXCEPT !.obj[<<"Namespace", 1>>].class = "prod"]
    [] fault = "test" -> [c EXCEPT !.obj[<<"Namespace", 1>>].class = "test"]
    [] fault = "rollout" ->
         [c EXCEPT !.obj = <<"Rollout", 1>> :> Named @@ [@ EXCEPT ![<<"HPA", 1>>].target = <<"Rollout", 1>>]]
(* Those that remove an object come last, so that no other strikes it;      *)
(* "rollout" has worlds of its own.                                         *)
Faults == <<"crash", "oom", "oom2", "image", "configError", "pending", "dying", "evicted", "unhealthy",
  "slow", "mount", "mountConfig", "nodeDown", "disk", "memory2", "pid", "cordoned", "claimPending",
  "claimLost", "volume", "class", "attach", "noEndpoint", "conflict", "short", "stalled", "over",
  "setShort", "daemonShort", "job", "suspended", "hpa", "hpaTarget", "budget", "open", "wildcard",
  "dns", "lookup", "prod", "test", "unbound", "noConfig", "noClass", "noSlice", "noService">>
Fault == ToSet(Faults)

(* A state of the cluster is named by the faults that have struck it.       *)
Struck(faults) == FoldLeft(Strike, Well, faults)
World(clusters, flaky, slow) ==
  [clusters |-> clusters, flaky |-> flaky, slow |-> slow, logs |-> TRUE, events |-> TRUE]
Calm(faults) == World(<<faults>>, {}, FALSE)

Pairs == {Calm(<<Faults[x[1]], Faults[x[2]]>>) : x \in {y \in (DOMAIN Faults) \X (DOMAIN Faults) : y[1] < y[2]}}
(* Three at a time of those that may cause one another.                     *)
Linked == SelectSeq(Faults, LAMBDA f : f \in {"crash", "oom2", "image", "configError", "pending", "evicted",
  "unhealthy", "slow", "mount", "mountConfig", "nodeDown", "disk", "pid", "claimPending", "volume",
  "class", "noEndpoint", "short", "job", "hpaTarget", "noConfig", "noClass", "noService"})
Triples == {Calm(<<Linked[x[1]], Linked[x[2]], Linked[x[3]]>>) :
              x \in {y \in (DOMAIN Linked) \X (DOMAIN Linked) \X (DOMAIN Linked) : y[1] < y[2] /\ y[2] < y[3]}}
(* Longer chains of causes, and several causes of one effect.               *)
Stories == {
  <<"pending", "mountConfig", "volume", "class">>, <<"mount", "volume", "class">>,
  <<"evicted", "disk", "short", "noEndpoint">>, <<"evicted", "nodeDown", "disk", "crash">>,
  <<"crash", "oom2", "short", "noEndpoint">>, <<"unhealthy", "short", "noConfig">>,
  <<"claimPending", "class", "pending", "short">>, <<"claimPending", "nodeDown", "mount">>,
  <<"claimLost", "volume", "mount">>, <<"job", "memory2", "daemonShort", "dns">>,
  <<"image", "nodeDown", "noService">>, <<"pid", "slow", "short", "lookup">>}
(* What fails while each fault is there to be seen, or missed.              *)
Refused == {"list_services", "list_deployments", "list_storage_classes", "list_config_maps",
            "list_hpa", "list_events", "list_namespaces", "list_nodes"}
Outages == {World(<<<<a>>>>, {op}, FALSE) : a \in Fault, op \in Refused}
  \cup {World(<<<<"crash", "job", "claimPending", "class", "unbound">>>>, ops, FALSE) :
          ops \in {{"connect", "get_logs"}, {"list_cluster_role_bindings", "list_pvcs"},
                   {"list_jobs", "list_replica_sets"}, {"list_pods", "list_endpoint_slices"}}}
(* The cluster changes while it is listed.                                  *)
Changing == UNION {{World(<<<<"crash">>, <<b>>>>, {}, FALSE), World(<<<<b>>, <<"crash">>>>, {}, FALSE)} :
               b \in {"noService", "noConfig", "nodeDown", "noClass"}}
(* The deadline passes; logs or events are not wanted.                      *)
Late == {[World(<<<<a, b>>>>, {}, TRUE) EXCEPT !.logs = l] :
           a \in {"job", "pid"}, b \in {"crash", "noConfig"}, l \in BOOLEAN}
Frugal == {[Calm(<<a>>) EXCEPT !.events = FALSE, !.logs = l] : a \in Fault, l \in BOOLEAN}

MCWorlds == {Calm(<<>>)} \cup Pairs \cup Triples \cup {Calm(x) : x \in Stories} \cup Outages \cup Changing \cup Late
              \cup Frugal
MCCuts == {0, 1, 11, 23}

(* All is well: the autoscaler scales an object that is there, of a kind    *)
(* the inspection does not list. With these Worlds TargetIsMissing fails.   *)
RolloutWorlds == {Calm(<<"rollout">>)}

(* The lists are answered in one order, but those that matter to what       *)
(* changes in any.                                                          *)
Watched == {"list_pods", "list_nodes", "list_services", "list_ingresses", "list_config_maps"}
MCMayAnswer(w, lists) ==
  LET free == IF Len(w.clusters) = 1 THEN {} ELSE lists \cap Watched
  IN free \cup (IF lists \ free = {} THEN {} ELSE {CHOOSE op \in lists \ free : TRUE})
=============================================================================
