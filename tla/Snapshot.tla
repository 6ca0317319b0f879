------------------------------ MODULE Snapshot ------------------------------
(***************************************************************************)
(* What one inspection has collected of a cluster, and the two indices it  *)
(* builds over it: the correlation index (correlation/build.go) that the   *)
(* rules and the incident builder query, and the relation graph            *)
(* (relations/build.go) without which no causal edge may be drawn.         *)
(*                                                                         *)
(* A resource is <<kind, n>>, n its place in the API's name order; one     *)
(* ordinary namespace is modelled. A snapshot s has                        *)
(*   s.obj     the collected resources, each with the attributes its       *)
(*             normalizer keeps (a reference is a resource, or None);      *)
(*   s.events  the collected events, a sequence per involved resource;     *)
(*   s.logs    the pods whose container logs were fetched;                 *)
(*   s.failed  the operations recorded as failed.                          *)
(* Ages are whole minutes; messages are classes.                           *)
(***************************************************************************)
EXTENDS Integers, Sequences, SequencesExt, FiniteSets, FiniteSetsExt

None == <<"None", 0>>
Kind(r) == r[1]

(* The first element of a sequence that is one of S.                        *)
FirstOf(q, S) == q[CHOOSE i \in DOMAIN q : q[i] \in S /\ \A j \in 1..(i - 1) : q[j] \notin S]
Workloads == {"Deployment", "ReplicaSet", "StatefulSet", "DaemonSet", "Job", "CronJob"}

(* scanner/normalize.go: the attributes kept of each kind. A container has  *)
(* its current state and reason, the reason and exit code of its last       *)
(* termination, its restarts, readiness, memory limit and probes. Of what a *)
(* pod logs only whether a name could not be resolved is kept.              *)
Container == [init |-> FALSE, state |-> "Running", reason |-> "", msg |-> "", exit |-> 0,
              last |-> "", lastExit |-> 0, restarts |-> 0, ready |-> TRUE, limit |-> FALSE,
              probed |-> FALSE]
Pod == [phase |-> "Running", reason |-> "", scheduled |-> "", age |-> 9, dying |-> -1,
        held |-> FALSE, node |-> None, owner |-> None, pvc |-> None, configs |-> {},
        app |-> 0, unresolved |-> FALSE, cons |-> <<Container>>]
Node == [ready |-> TRUE, why |-> TRUE, disk |-> FALSE, memory |-> FALSE, pid |-> FALSE, cordoned |-> FALSE]
Workload == [owner |-> None, desired |-> 1, ready |-> 1, stalled |-> FALSE, failed |-> FALSE,
             suspend |-> FALSE]
Service == [selects |-> 0]
EndpointSlice == [service |-> None, ready |-> 0, notReady |-> 0, pods |-> {}]
Claim == [status |-> "Bound", volume |-> None, class |-> None]
Volume == [status |-> "Bound", class |-> None]
StorageClass == [provisioner |-> TRUE]
VolumeAttachment == [attached |-> TRUE, error |-> FALSE, age |-> 9]
Ingress == [backends |-> <<>>, conflict |-> FALSE]
Hpa == [desired |-> 1, current |-> 1, max |-> 0, target |-> None]
Pdb == [allowed |-> 1, selects |-> 0]
NetworkPolicy == [selects |-> 0]
Namespace == [class |-> "plain"]
Named == [named |-> TRUE]
Role == [rules |-> <<>>]
Binding == [role |-> None, subjects |-> FALSE]

Has(s, r) == r \in DOMAIN s.obj
At(s, r) == s.obj[r]
Of(s, kind) == {r \in DOMAIN s.obj : Kind(r) = kind}
OfKinds(s, kinds) == {r \in DOMAIN s.obj : Kind(r) \in kinds}

(* The correlation index. *)
EventsFor(s, r) == IF r \in DOMAIN s.events THEN s.events[r] ELSE <<>>

(* OwnerChain follows owner references through collected workloads only;    *)
(* Kubernetes' own controllers nest no deeper than two.                     *)
OwnerChain(s, p) ==
  LET up(r) == IF At(s, r).owner \in OfKinds(s, Workloads) THEN <<At(s, r).owner>> ELSE <<>>
      first == up(p)
  IN IF first = <<>> THEN <<>> ELSE first \o up(first[1])

PodsOfWorkload(s, w) == {p \in Of(s, "Pod") : w \in ToSet(OwnerChain(s, p))}
PodsOfNode(s, n) == {p \in Of(s, "Pod") : At(s, p).node = n}
Selected(s, p, label) == label # 0 /\ At(s, p).app = label
PodsOfService(s, v) == {p \in Of(s, "Pod") : Selected(s, p, At(s, v).selects)}
ServicesOfPod(s, p) == {v \in Of(s, "Service") : Selected(s, p, At(s, v).selects)}
SlicesOfService(s, v) == {e \in Of(s, "EndpointSlice") : At(s, e).service = v}
PodsOfPVC(s, c) == {p \in Of(s, "Pod") : At(s, p).pvc = c /\ Has(s, c)}
BackendsOf(s, i) == ToSet(At(s, i).backends)
IngressesOfService(s, v) == {i \in Of(s, "Ingress") : v \in BackendsOf(s, i)}

(* Pod -> PVC -> PV -> StorageClass as far as each link was collected.      *)
StorageChain(s, p) ==
  LET c == At(s, p).pvc
      v == At(s, c).volume
      k == At(s, v).class
  IN IF c = None \/ ~Has(s, c) THEN <<>>
     ELSE IF v = None \/ ~Has(s, v) THEN <<c>>
     ELSE IF k = None \/ ~Has(s, k) THEN <<c, v>>
     ELSE <<c, v, k>>

(* The relation graph: each edge is read from a field of a collected        *)
(* object. References to owners, claims, volumes, classes and configuration *)
(* are drawn whether or not their target was collected; nodes, back ends    *)
(* and scale targets only when it was.                                      *)
References(s, r) ==
  LET a == At(s, r) IN
  CASE Kind(r) = "Pod" ->
         {<<"ownedBy", a.owner>>, <<"mounts", a.pvc>>}
           \cup {<<"runsOn", n>> : n \in {a.node} \cap DOMAIN s.obj}
           \cup {<<"configRef", c>> : c \in a.configs}
    [] Kind(r) \in Workloads -> {<<"ownedBy", a.owner>>}
    [] Kind(r) = "PVC" -> {<<"boundTo", a.volume>>, <<"provisionedBy", a.class>>}
    [] Kind(r) = "PV" -> {<<"provisionedBy", a.class>>}
    [] Kind(r) = "Service" -> {<<"selectedBy", p>> : p \in PodsOfService(s, r)}
    [] Kind(r) = "EndpointSlice" ->
         {<<"endpointOf", a.service>>} \cup {<<"hasEndpoint", p>> : p \in a.pods}
    [] Kind(r) = "Ingress" -> {<<"routesTo", v>> : v \in BackendsOf(s, r) \cap DOMAIN s.obj}
    [] Kind(r) = "HPA" -> {<<"targets", w>> : w \in {a.target} \cap DOMAIN s.obj}
    [] Kind(r) = "PDB" -> {<<"protects", p>> : p \in {q \in Of(s, "Pod") : Selected(s, q, a.selects)}}
    [] Kind(r) = "NetworkPolicy" ->
         {<<"appliesTo", p>> : p \in {q \in Of(s, "Pod") : Selected(s, q, a.selects)}}
    [] OTHER -> {}

Edges(s) == UNION {{<<r, e[1], e[2]>> : e \in {x \in References(s, r) : x[2] # None}} :
                     r \in DOMAIN s.obj}

(* A graph maps every resource an edge or an object names to its            *)
(* neighbours: all its users are blind to an edge's direction.              *)
Graph(s) ==
  LET es == Edges(s)
      nodes == DOMAIN s.obj \cup UNION {{e[1], e[3]} : e \in es}
  IN [r \in nodes |-> {e[3] : e \in {x \in es : x[1] = r}} \cup {e[1] : e \in {x \in es : x[3] = r}}]

Near(g, a, b) == \/ a = b
                 \/ /\ {a, b} \subseteq DOMAIN g
                    /\ b \in g[a] \/ g[a] \cap g[b] # {}

(* Graph.Path: breadth first, to any length.                                *)
Connected(g, a, b) ==
  LET grow(reached, i) == reached \cup UNION {g[r] : r \in reached}
  IN \/ Near(g, a, b)
     \/ /\ {a, b} \subseteq DOMAIN g
        /\ b \in FoldLeft(grow, {a}, [i \in 1..Cardinality(DOMAIN g) |-> i])

(* detectComponents: of the system components only CoreDNS is used later.   *)
DnsLabel == 53
AllReady(s, p) ==
  LET main == SelectSeq(At(s, p).cons, LAMBDA k : ~k.init)
  IN main # <<>> /\ \A i \in DOMAIN main : main[i].ready
DnsPods(s) == {p \in Of(s, "Pod") : At(s, p).app = DnsLabel}
DnsReady(s) == \E p \in DnsPods(s) : At(s, p).phase = "Running" /\ AllReady(s, p)
=============================================================================
