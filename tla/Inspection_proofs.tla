-------------------------- MODULE Inspection_proofs --------------------------
(***************************************************************************)
(* Proofs about an inspection, for any cluster, however it changes, any    *)
(* lists that fail and any order of their answers: what a report denies    *)
(* was not there or was not collected, a healthy report is of a healthy    *)
(* cluster, the causal edges of an incident form a forest of its own       *)
(* findings, and nothing of an incident explains its root.                 *)
(***************************************************************************)
EXTENDS Inspection, FiniteSetTheorems, WellFoundedInduction, TLAPS

(*****************************************************************************)
(* Arithmetic and finite sets. A least element of every set of naturals is   *)
(* what stands in for induction here: of the counterexamples there is a least. *)
(*****************************************************************************)

(* A set of naturals has a least element; one closed under successor has    *)
(* them all.                                                                *)
LEMMA Smallest ==
  ASSUME NEW T, T \subseteq Nat, T # {}
  PROVE  \E n \in T : \A m \in T : n <= m
<1>1. PICK x \in T : \A y \in T : ~(<<y, x>> \in OpToRel(<, Nat))
  BY NatLessThanWellFounded, WFMin
<1>2. \A y \in T : ~(y < x)
  BY <1>1 DEF OpToRel
<1> QED
  BY <1>2

(* Induction over the naturals, with the set of those that have it.         *)
LEMMA Induct ==
  ASSUME NEW T, 0 \in T, \A n \in Nat : n \in T => n + 1 \in T
  PROVE  Nat \subseteq T
<1> SUFFICES ASSUME Nat \ T # {} PROVE FALSE
  OBVIOUS
<1>1. PICK n \in Nat \ T : \A m \in Nat \ T : n <= m
  BY Smallest
<1>2. n # 0 /\ n - 1 \in Nat
  OBVIOUS
<1>3. n - 1 \in T
  BY <1>1, <1>2
<1> QED
  BY <1>2, <1>3

(* Min and Max of bounded sets of integers.                                 *)
LEMMA MinFact ==
  ASSUME NEW T, T \subseteq Nat, T # {}
  PROVE  Min(T) \in T /\ \A m \in T : Min(T) <= m
  BY Smallest DEF Min

(* A bounded set of naturals has a largest element.                         *)
LEMMA LargestBelow ==
  ASSUME NEW T, NEW b \in Nat, T \subseteq 0..b, T # {}
  PROVE  \E n \in T : \A m \in T : m <= n
<1> DEFINE U == {b - n : n \in T}
<1>0. \A n \in T : b - n \in Nat
  OBVIOUS
<1>1. U \subseteq Nat /\ U # {}
  BY <1>0
<1>2. PICK u \in U : \A v \in U : u <= v
  BY <1>1, Smallest
<1>3. PICK n \in T : u = b - n
  OBVIOUS
<1>4. \A m \in T : m <= n
  <2> SUFFICES ASSUME NEW m \in T PROVE m <= n
    OBVIOUS
  <2>1. b - m \in U
    OBVIOUS
  <2>2. b - n <= b - m
    BY <2>1, <1>2, <1>3
  <2>3. m \in Int /\ n \in Int
    OBVIOUS
  <2> HIDE DEF U
  <2> QED
    BY <2>2, <2>3
<1> QED
  BY <1>4

(* So has a finite one.                                                     *)
LEMMA Largest ==
  ASSUME NEW T, T \subseteq Nat, T # {}, IsFiniteSet(T)
  PROVE  \E n \in T : \A m \in T : m <= n
<1> DEFINE c == Cardinality(T)
<1>1. c \in Nat /\ \E g : g \in Surjection(1..c, T)
  BY FS_CardinalityType DEF ExistsBijection, Bijection
<1>2. PICK g : g \in Surjection(1..c, T)
  BY <1>1
<1> HIDE DEF c
<1>3. g \in [1..c -> T] /\ \A x \in T : \E i \in 1..c : g[i] = x
  BY <1>2 DEF Surjection
<1> DEFINE Bounded == {k \in Nat : \E n \in Nat : \A i \in 1..c : i <= k => g[i] <= n}
<1>4. 0 \in Bounded
  <2>1. \A i \in 1..c : ~(i <= 0)
    BY <1>1
  <2> QED
    BY <2>1
<1>5. ASSUME NEW k \in Nat, k \in Bounded PROVE k + 1 \in Bounded
  <2>1. PICK n \in Nat : \A i \in 1..c : i <= k => g[i] <= n
    BY <1>5
  <2>2. CASE k + 1 \in 1..c
    <3>1. g[k + 1] \in Nat
      BY <2>2, <1>3
    <3>2. PICK m \in Nat : n <= m /\ g[k + 1] <= m
      BY <3>1
    <3>3. \A i \in 1..c : i <= k + 1 => g[i] <= m
      <4> SUFFICES ASSUME NEW i \in 1..c, i <= k + 1 PROVE g[i] <= m
        OBVIOUS
      <4>1. g[i] \in Nat
        BY <1>3
      <4>2. i = k + 1 \/ i <= k
        BY <1>1
      <4> QED
        BY <4>1, <4>2, <3>2, <2>1
    <3> QED
      BY <3>3
  <2>3. CASE k + 1 \notin 1..c
    <3>1. \A i \in 1..c : i <= k + 1 => i <= k
      BY <2>3, <1>1
    <3> QED
      BY <3>1, <2>1
  <2> QED
    BY <2>2, <2>3
<1>6. c \in Bounded
  <2> HIDE DEF Bounded
  <2> QED
    BY <1>1, <1>4, <1>5, Induct
<1>7. PICK n \in Nat : \A i \in 1..c : i <= c => g[i] <= n
  BY <1>6
<1>8. T \subseteq 0..n
  BY <1>3, <1>7, <1>1
<1> QED
  BY <1>8, LargestBelow

(* The image of a finite set.                                               *)
LEMMA ImageIsFinite ==
  ASSUME NEW T, IsFiniteSet(T), NEW h
  PROVE  IsFiniteSet({h[x] : x \in T})
<1> DEFINE g == [x \in T |-> h[x]]
           U == {h[x] : x \in T}
<1>1. g \in [T -> U] /\ \A u \in U : \E x \in T : g[x] = u
  OBVIOUS
<1>2. g \in Surjection(T, U)
  BY <1>1 DEF Surjection
<1> HIDE DEF g, U
<1>3. IsFiniteSet(U)
  BY <1>2, FS_Surjection
<1> QED
  BY <1>3 DEF U

(* What FirstOf chooses is in the set.                                      *)
LEMMA FirstOfFact ==
  ASSUME NEW q, NEW T, DOMAIN q \subseteq Nat \ {0}, \E i \in DOMAIN q : q[i] \in T,
         \A i \in DOMAIN q : 1..i \subseteq DOMAIN q
  PROVE  \E i \in DOMAIN q : /\ FirstOf(q, T) = q[i] /\ q[i] \in T
                             /\ \A j \in 1..(i - 1) : q[j] \notin T
<1> DEFINE is == {i \in DOMAIN q : q[i] \in T}
<1>1. is \subseteq Nat /\ is # {}
  OBVIOUS
<1>2. PICK m \in is : \A k \in is : m <= k
  BY <1>1, Smallest
<1>3. \A j \in 1..(m - 1) : j \in DOMAIN q /\ j \notin is
  BY <1>2
<1>4. m \in DOMAIN q /\ q[m] \in T /\ \A j \in 1..(m - 1) : q[j] \notin T
  BY <1>3
<1> QED
  BY <1>4 DEF FirstOf

(*****************************************************************************)
(* The rules: what every finding is like, and whose it is.                   *)
(*****************************************************************************)

(* What every finding of a scan is like, whatever is appended to its        *)
(* evidence: its severity, and in its id the resource it stands for and the *)
(* rule.                                                                    *)
StandsFor(s, r) == IF Kind(r) = "Pod" /\ OwnerChain(s, r) # <<>> THEN OwnerChain(s, r)[1] ELSE r
FindingTyped(s, f) ==
  /\ f = [rule |-> f.rule, res |-> f.res, sev |-> f.sev, ev |-> f.ev, id |-> f.id,
          corr |-> f.corr, advice |-> f.advice]
  /\ f.sev \in 1..5
  /\ f.id[1] = StandsFor(s, f.res) /\ f.id[2] = f.rule
IsThere(s, r) == r \in DOMAIN s.obj \/ r = <<"Namespace", 1>>
FindingsOf(s, fs, rule, kinds) ==
  /\ IsFiniteSet(fs)
  /\ \A f \in fs : FindingTyped(s, f) /\ f.rule = rule /\ Kind(f.res) \in kinds /\ IsThere(s, f.res)

(* Whatever is added for a namespace or a busy resource, a severity is 1 to 5. *)
LEMMA SeverityBound == ASSUME NEW s, NEW base, NEW r PROVE Adjust(s, base, r) \in 1..5
<1>1. \A n : Clamp(n) \in 1..5
  BY DEF Clamp
<1> HIDE DEF Clamp
<1> QED
  BY <1>1 DEF Adjust

(* What Finding makes.                                                      *)
LEMMA FindingShape ==
  ASSUME NEW s, NEW rule, NEW r, NEW base, NEW ev
  PROVE  /\ FindingTyped(s, Finding(s, rule, r, base, ev))
         /\ Finding(s, rule, r, base, ev).rule = rule
         /\ Finding(s, rule, r, base, ev).res = r
         /\ Finding(s, rule, r, base, ev).ev = ev
<1>1. Adjust(s, base, r) \in 1..5
  BY SeverityBound
<1>2. Fingerprint(s, rule, r, ev)[1] = StandsFor(s, r) /\ Fingerprint(s, rule, r, ev)[2] = rule
  BY DEF Fingerprint, StandsFor
<1> QED
  BY <1>1, <1>2 DEF Finding, FindingTyped

(* The findings of a rule on objects of a kind, on pods, on containers.     *)
LEMMA ObjectFindings ==
  ASSUME NEW s, IsFiniteSet(DOMAIN s.obj), NEW rule, NEW kinds, NEW shown,
         DOMAIN shown \subseteq OfKinds(s, kinds)
  PROVE  FindingsOf(s, ForObject(s, rule, shown), rule, kinds)
<1>1. \A f \in ForObject(s, rule, shown) : FindingTyped(s, f) /\ f.rule = rule
                                               /\ Kind(f.res) \in kinds /\ IsThere(s, f.res)
  BY FindingShape DEF ForObject, OfKinds, IsThere
<1> DEFINE h == [r \in DOMAIN shown |-> Finding(s, rule, r, shown[r][1], shown[r][2])]
<1>2. IsFiniteSet(DOMAIN shown)
  BY FS_Subset DEF OfKinds
<1>3. ForObject(s, rule, shown) = {h[r] : r \in DOMAIN shown}
  BY DEF ForObject
<1> HIDE DEF h
<1>4. IsFiniteSet(ForObject(s, rule, shown))
  BY <1>2, <1>3, ImageIsFinite
<1> QED
  BY <1>1, <1>4 DEF FindingsOf

LEMMA PodFindings ==
  ASSUME NEW s, IsFiniteSet(DOMAIN s.obj), NEW rule, NEW shown,
         DOMAIN shown \subseteq Of(s, "Pod")
  PROVE  FindingsOf(s, ForPod(s, rule, shown), rule, {"Pod"})
<1> DEFINE full == [p \in DOMAIN shown |-> <<shown[p][1], shown[p][2] \o EventEvidence(s, p)>>]
<1>1. DOMAIN full \subseteq OfKinds(s, {"Pod"})
  BY DEF Of, OfKinds
<1> HIDE DEF full
<1>2. FindingsOf(s, ForObject(s, rule, full), rule, {"Pod"})
  BY <1>1, ObjectFindings
<1> QED
  BY <1>2 DEF ForPod, full

LEMMA ContainerFindings ==
  ASSUME NEW s, IsFiniteSet(DOMAIN s.obj), NEW rule, NEW shown,
         DOMAIN shown \subseteq Containers(s)
  PROVE  FindingsOf(s, ForContainer(s, rule, shown), rule, {"Pod"})
<1> DEFINE is(p) == {i \in DOMAIN At(s, p).cons : <<p, i>> \in DOMAIN shown}
           first == [p \in {x[1] : x \in DOMAIN shown} |-> shown[<<p, Min(is(p))>>]]
<1>1. DOMAIN first \subseteq Of(s, "Pod")
  BY DEF Containers
<1> HIDE DEF first
<1>3. FindingsOf(s, ForPod(s, rule, first), rule, {"Pod"})
  BY <1>1, PodFindings
<1> QED
  BY <1>3 DEF ForContainer, first

(* The kinds of resource that a rule finds fault with.                      *)
PodRules == {"CrashLoopBackOff", "OOMKilled", "ImagePullBackOff", "PendingPod", "PodTerminating",
  "EvictedPod", "HighRestartCount", "ContainerCreateError", "Unhealthy", "FailedMount",
  "ContainerHealthTimeout", "ConfigRefNotFound"}
KindsOf(rule) ==
  CASE rule \in PodRules -> {"Pod"}
    [] rule \in NodeRules -> {"Node"}
    [] rule \in {"IngressBackend", "IngressHostConflict"} -> {"Ingress"}
    [] rule = "PVCPending" -> {"PVC"}
    [] rule = "PVFailed" -> {"PV"}
    [] rule = "StorageClassNoProvisioner" -> {"StorageClass"}
    [] rule = "VolumeAttachmentStuck" -> {"VolumeAttachment"}
    [] rule = "ServiceNoEndpoint" -> {"Service"}
    [] rule \in {"DeploymentReplica", "DeploymentProgressDeadline",
        "DeploymentOverReplicas"} -> {"Deployment"}
    [] rule = "StatefulSetReplica" -> {"StatefulSet"}
    [] rule = "DaemonSetReplica" -> {"DaemonSet"}
    [] rule = "JobFailed" -> {"Job"}
    [] rule = "CronJobSuspended" -> {"CronJob"}
    [] rule \in {"HpaReplicasMismatch", "HpaScaleTargetMissing"} -> {"HPA"}
    [] rule = "PdbBlocking" -> {"PDB"}
    [] rule = "NetworkPolicyNoDefaultDeny" -> {"Namespace"}
    [] OTHER -> {"ClusterRole", "ClusterRoleBinding", "Role", "RoleBinding"}

(* The rules that are not of that form.                                     *)
LEMMA NoDefaultDenyFindings ==
  ASSUME NEW s
  PROVE  FindingsOf(s, NetworkPolicyNoDefaultDeny(s), "NetworkPolicyNoDefaultDeny", {"Namespace"})
<1> DEFINE f == Finding(s, "NetworkPolicyNoDefaultDeny", <<"Namespace", 1>>, 2, <<Derived("defaultDeny",
    "missing")>>)
<1>1. FindingTyped(s, f) /\ f.rule = "NetworkPolicyNoDefaultDeny" /\ f.res = <<"Namespace", 1>>
  BY FindingShape
<1> HIDE DEF f
<1>2. IsFiniteSet({f}) /\ IsFiniteSet({})
  BY FS_Singleton, FS_EmptySet
<1>3. NetworkPolicyNoDefaultDeny(s) \in {{}, {f}}
  BY DEF NetworkPolicyNoDefaultDeny, f
<1> QED
  BY <1>1, <1>2, <1>3 DEF FindingsOf, Kind, IsThere

LEMMA ConfigRefFindings ==
  ASSUME NEW s, IsFiniteSet(DOMAIN s.obj), \A p \in Of(s, "Pod") : IsFiniteSet(At(s, p).configs)
  PROVE  FindingsOf(s, ConfigRefNotFound(s), "ConfigRefNotFound", {"Pod"})
<1> DEFINE h == [x \in LostConfigs(s) |-> Finding(s, "ConfigRefNotFound", x[1], 2, <<Field("config",
    x[2])>>)]
           each == [p \in Of(s, "Pod") |-> {p} \X {c \in At(s, p).configs : ~Has(s, c)}]
<1>1. \A x \in LostConfigs(s) : x[1] \in Of(s, "Pod")
  BY DEF LostConfigs
<1>2. \A f \in ConfigRefNotFound(s) :
        FindingTyped(s, f) /\ f.rule = "ConfigRefNotFound" /\ Kind(f.res) \in {"Pod"} /\ IsThere(s,
            f.res)
  <2> SUFFICES ASSUME NEW x \in LostConfigs(s)
               PROVE  /\ FindingTyped(s, h[x]) /\ h[x].rule = "ConfigRefNotFound"
                      /\ Kind(h[x].res) \in {"Pod"} /\ IsThere(s, h[x].res)
    BY DEF ConfigRefNotFound
  <2>1. FindingTyped(s, h[x]) /\ h[x].rule = "ConfigRefNotFound" /\ h[x].res = x[1]
    BY FindingShape
  <2> HIDE DEF h
  <2> QED
    BY <1>1, <2>1 DEF Of, IsThere
<1>3. ASSUME NEW p \in Of(s, "Pod") PROVE IsFiniteSet(each[p])
  <2>1. IsFiniteSet({c \in At(s, p).configs : ~Has(s, c)}) /\ IsFiniteSet({p})
    BY FS_Subset, FS_Singleton
  <2> QED
    BY <2>1, FS_Product
<1>4. LostConfigs(s) = UNION {each[p] : p \in Of(s, "Pod")}
  BY DEF LostConfigs
<1>5. ConfigRefNotFound(s) = {h[x] : x \in LostConfigs(s)}
  BY DEF ConfigRefNotFound
<1> HIDE DEF h, each
<1>6. IsFiniteSet({each[p] : p \in Of(s, "Pod")})
  <2>1. IsFiniteSet(Of(s, "Pod"))
    BY FS_Subset DEF Of
  <2> QED
    BY <2>1, ImageIsFinite
<1>7. IsFiniteSet(LostConfigs(s))
  BY <1>3, <1>4, <1>6, FS_UNION
<1>8. IsFiniteSet(ConfigRefNotFound(s))
  BY <1>5, <1>7, ImageIsFinite
<1> QED
  BY <1>2, <1>8 DEF FindingsOf

LEMMA RbacFindings ==
  ASSUME NEW s, IsFiniteSet(DOMAIN s.obj)
  PROVE  FindingsOf(s, RbacOverPrivileged(s), "RbacOverPrivileged",
                    {"ClusterRole", "ClusterRoleBinding", "Role", "RoleBinding"})
<1> DEFINE kinds == {"ClusterRole", "ClusterRoleBinding", "Role", "RoleBinding"}
           scope(b) == IF Kind(b) = "ClusterRoleBinding" THEN 2 ELSE 1
           bound == [b \in OfKinds(s, kinds) |->
              Finding(s, "RbacOverPrivileged", b, RiskOf(s, At(s, b).role) + scope(b),
                <<Derived("rule", RiskOf(s, At(s, b).role)), Derived("roleRef", At(s, b).role),
                  Derived("binding", b)>>)]
           loose == [r \in OfKinds(s, kinds) |->
              Finding(s, "RbacOverPrivileged", r, 2,
                <<Derived("rule", 2), Derived("roleRef", r), Derived("binding", None)>>)]
<1>1. \A f \in RbacOverPrivileged(s) :
        \E b \in OfKinds(s, kinds) : f = bound[b] \/ f = loose[b]
  BY DEF RbacOverPrivileged, OfKinds
<1>2. \A b \in OfKinds(s, kinds) :
        /\ FindingTyped(s, bound[b]) /\ bound[b].rule = "RbacOverPrivileged" /\ bound[b].res = b
        /\ FindingTyped(s, loose[b]) /\ loose[b].rule = "RbacOverPrivileged" /\ loose[b].res = b
  BY FindingShape
<1> HIDE DEF bound, loose
<1>3. IsFiniteSet(OfKinds(s, kinds))
  BY FS_Subset DEF OfKinds
<1>4. IsFiniteSet({bound[b] : b \in OfKinds(s, kinds)} \cup {loose[b] : b \in OfKinds(s, kinds)})
  <2> HIDE DEF kinds
  <2>1. IsFiniteSet({bound[b] : b \in OfKinds(s, kinds)})
    BY <1>3, ImageIsFinite
  <2>2. IsFiniteSet({loose[b] : b \in OfKinds(s, kinds)})
    BY <1>3, ImageIsFinite
  <2> QED
    BY <2>1, <2>2, FS_Union
<1>5. IsFiniteSet(RbacOverPrivileged(s))
  BY <1>1, <1>4, FS_Subset
<1>6. \A b \in OfKinds(s, kinds) : Kind(b) \in kinds /\ IsThere(s, b)
  BY DEF OfKinds, IsThere
<1> QED
  BY <1>1, <1>2, <1>5, <1>6 DEF FindingsOf

(* Each rule's findings are of that rule, on resources of its kind.         *)
Findable(s) == /\ IsFiniteSet(DOMAIN s.obj)
               /\ \A p \in Of(s, "Pod") : IsFiniteSet(At(s, p).configs)

LEMMA EachRule ==
  ASSUME NEW s, Findable(s)
  PROVE  \A i \in 1..35 : FindingsOf(s, Outcomes(s)[i], RuleOrder[i], KindsOf(RuleOrder[i]))
<1> USE DEF Findable
<1>1. FindingsOf(s, CrashLoopBackOff(s), "CrashLoopBackOff", {"Pod"})
  BY ContainerFindings DEF CrashLoopBackOff, AllWaiting
<1>2. FindingsOf(s, OOMKilled(s), "OOMKilled", {"Pod"})
  BY ContainerFindings DEF OOMKilled, AllWaiting
<1>3. FindingsOf(s, ImagePullBackOff(s), "ImagePullBackOff", {"Pod"})
  BY ContainerFindings DEF ImagePullBackOff, AllWaiting
<1>4. FindingsOf(s, PendingPod(s), "PendingPod", {"Pod"})
  BY PodFindings DEF PendingPod
<1>5. FindingsOf(s, PodTerminating(s), "PodTerminating", {"Pod"})
  BY PodFindings DEF PodTerminating
<1>6. FindingsOf(s, EvictedPod(s), "EvictedPod", {"Pod"})
  BY PodFindings DEF EvictedPod
<1>7. FindingsOf(s, HighRestartCount(s), "HighRestartCount", {"Pod"})
  BY ContainerFindings DEF HighRestartCount, AllWaiting
<1>8. FindingsOf(s, ContainerCreateError(s), "ContainerCreateError", {"Pod"})
  BY ContainerFindings DEF ContainerCreateError, AllWaiting
<1>9. FindingsOf(s, Unhealthy(s), "Unhealthy", {"Pod"})
  BY ContainerFindings DEF Unhealthy, AllWaiting
<1>10. FindingsOf(s, IngressBackend(s), "IngressBackend", {"Ingress"})
  BY ObjectFindings DEF IngressBackend, Of, OfKinds
<1>11. FindingsOf(s, NodeNotReady(s), "NodeNotReady", {"Node"})
  BY ObjectFindings DEF NodeNotReady, OfNodes, Of, OfKinds
<1>12. FindingsOf(s, NodeDiskPressure(s), "NodeDiskPressure", {"Node"})
  BY ObjectFindings DEF NodeDiskPressure, OfNodes, Of, OfKinds
<1>13. FindingsOf(s, NodeMemoryPressure(s), "NodeMemoryPressure", {"Node"})
  BY ObjectFindings DEF NodeMemoryPressure, OfNodes, Of, OfKinds
<1>14. FindingsOf(s, NodePIDPressure(s), "NodePIDPressure", {"Node"})
  BY ObjectFindings DEF NodePIDPressure, OfNodes, Of, OfKinds
<1>15. FindingsOf(s, PVCPending(s), "PVCPending", {"PVC"})
  BY ObjectFindings DEF PVCPending, Of, OfKinds
<1>16. FindingsOf(s, PVFailed(s), "PVFailed", {"PV"})
  BY ObjectFindings DEF PVFailed, Of, OfKinds
<1>17. FindingsOf(s, FailedMount(s), "FailedMount", {"Pod"})
  BY ObjectFindings DEF FailedMount, Of, OfKinds
<1>18. FindingsOf(s, ServiceNoEndpoint(s), "ServiceNoEndpoint", {"Service"})
  BY ObjectFindings DEF ServiceNoEndpoint, Of, OfKinds
<1>19. FindingsOf(s, DeploymentReplica(s), "DeploymentReplica", {"Deployment"})
  BY ObjectFindings DEF DeploymentReplica, ReplicaShort, Of, OfKinds
<1>20. FindingsOf(s, StatefulSetReplica(s), "StatefulSetReplica", {"StatefulSet"})
  BY ObjectFindings DEF StatefulSetReplica, ReplicaShort, Of, OfKinds
<1>21. FindingsOf(s, DaemonSetReplica(s), "DaemonSetReplica", {"DaemonSet"})
  BY ObjectFindings DEF DaemonSetReplica, ReplicaShort, Of, OfKinds
<1>22. FindingsOf(s, DeploymentProgressDeadline(s), "DeploymentProgressDeadline", {"Deployment"})
  BY ObjectFindings DEF DeploymentProgressDeadline, Of, OfKinds
<1>23. FindingsOf(s, JobFailed(s), "JobFailed", {"Job"})
  BY ObjectFindings DEF JobFailed, Of, OfKinds
<1>24. FindingsOf(s, CronJobSuspended(s), "CronJobSuspended", {"CronJob"})
  BY ObjectFindings DEF CronJobSuspended, Of, OfKinds
<1>25. FindingsOf(s, DeploymentOverReplicas(s), "DeploymentOverReplicas", {"Deployment"})
  BY ObjectFindings DEF DeploymentOverReplicas, Of, OfKinds
<1>26. FindingsOf(s, NetworkPolicyNoDefaultDeny(s), "NetworkPolicyNoDefaultDeny", {"Namespace"})
  BY NoDefaultDenyFindings
<1>27. FindingsOf(s, IngressHostConflict(s), "IngressHostConflict", {"Ingress"})
  BY ObjectFindings DEF IngressHostConflict, Of, OfKinds
<1>28. FindingsOf(s, VolumeAttachmentStuck(s), "VolumeAttachmentStuck", {"VolumeAttachment"})
  BY ObjectFindings DEF VolumeAttachmentStuck, Of, OfKinds
<1>29. FindingsOf(s, StorageClassNoProvisioner(s), "StorageClassNoProvisioner", {"StorageClass"})
  BY ObjectFindings DEF StorageClassNoProvisioner, Of, OfKinds
<1>30. FindingsOf(s, ContainerHealthTimeout(s), "ContainerHealthTimeout", {"Pod"})
  BY ContainerFindings DEF ContainerHealthTimeout, AllWaiting
<1>31. FindingsOf(s, HpaReplicasMismatch(s), "HpaReplicasMismatch", {"HPA"})
  BY ObjectFindings DEF HpaReplicasMismatch, Of, OfKinds
<1>32. FindingsOf(s, HpaScaleTargetMissing(s), "HpaScaleTargetMissing", {"HPA"})
  BY ObjectFindings DEF HpaScaleTargetMissing, Of, OfKinds
<1>33. FindingsOf(s, PdbBlocking(s), "PdbBlocking", {"PDB"})
  BY ObjectFindings DEF PdbBlocking, Of, OfKinds
<1>34. FindingsOf(s, RbacOverPrivileged(s), "RbacOverPrivileged", {"ClusterRole", "ClusterRoleBinding",
    "Role", "RoleBinding"})
  BY RbacFindings
<1>35. FindingsOf(s, ConfigRefNotFound(s), "ConfigRefNotFound", {"Pod"})
  BY ConfigRefFindings
<1> QED
  <2> SUFFICES ASSUME NEW i \in 1..35
               PROVE  FindingsOf(s, Outcomes(s)[i], RuleOrder[i], KindsOf(RuleOrder[i]))
    OBVIOUS
  <2>1. CASE i \in 1..5
    BY <2>1, <1>1, <1>2, <1>3, <1>4, <1>5 DEF Outcomes, RuleOrder, KindsOf, PodRules, NodeRules
  <2>2. CASE i \in 6..10
    BY <2>2, <1>6, <1>7, <1>8, <1>9, <1>10 DEF Outcomes, RuleOrder, KindsOf, PodRules, NodeRules
  <2>3. CASE i \in 11..15
    BY <2>3, <1>11, <1>12, <1>13, <1>14, <1>15 DEF Outcomes, RuleOrder, KindsOf, PodRules, NodeRules
  <2>4. CASE i \in 16..20
    BY <2>4, <1>16, <1>17, <1>18, <1>19, <1>20 DEF Outcomes, RuleOrder, KindsOf, PodRules, NodeRules
  <2>5. CASE i \in 21..25
    BY <2>5, <1>21, <1>22, <1>23, <1>24, <1>25 DEF Outcomes, RuleOrder, KindsOf, PodRules, NodeRules
  <2>6. CASE i \in 26..30
    BY <2>6, <1>26, <1>27, <1>28, <1>29, <1>30 DEF Outcomes, RuleOrder, KindsOf, PodRules, NodeRules
  <2>7. CASE i \in 31..35
    BY <2>7, <1>31, <1>32, <1>33, <1>34, <1>35 DEF Outcomes, RuleOrder, KindsOf, PodRules, NodeRules
  <2> QED
    BY <2>1, <2>2, <2>3, <2>4, <2>5, <2>6, <2>7

(*****************************************************************************)
(* The scan of a snapshot, and what happens to its findings afterwards.      *)
(*****************************************************************************)

(* The scan. What a finding of these rules denies is not in the snapshot.   *)
DenyingRules == {"ConfigRefNotFound", "IngressBackend", "HpaScaleTargetMissing"}
Denies(s, f) ==
  f.rule \in DenyingRules =>
    (\E T : f.ev \in Seq(T)) /\ f.ev # <<>> /\ f.ev[1][3] \notin DOMAIN s.obj
RuleNames == {RuleOrder[i] : i \in 1..35}
Scanned(s, f) == /\ FindingTyped(s, f) /\ f.rule \in RuleNames
                 /\ Kind(f.res) \in KindsOf(f.rule) /\ IsThere(s, f.res)
Scan(s, fs) == IsFiniteSet(fs) /\ \A f \in fs : Scanned(s, f) /\ Denies(s, f)

(* In a snapshot as the API gives it every rule finds finitely many.        *)
LEMMA TypedIsFindable ==
  ASSUME NEW s, ObjectsTyped(s.obj)
  PROVE  Findable(s)
  BY DEF ObjectsTyped, Findable, Of, At

(* What the three rules that deny an object deny is not in the snapshot.    *)
LEMMA ConfigRefDenies ==
  ASSUME NEW s
  PROVE  \A f \in ConfigRefNotFound(s) : (\E T : f.ev \in Seq(T)) /\ f.ev # <<>>
           /\ f.ev[1][3] \notin DOMAIN s.obj
<1> SUFFICES ASSUME NEW x \in LostConfigs(s), NEW f, f = Finding(s, "ConfigRefNotFound", x[1], 2,
    <<Field("config", x[2])>>)
             PROVE  (\E T : f.ev \in Seq(T)) /\ f.ev # <<>> /\ f.ev[1][3] \notin DOMAIN s.obj
  BY DEF ConfigRefNotFound
<1> DEFINE e == Field("config", x[2])
<1>1. f.ev = <<e>>
  BY FindingShape
<1>2. e[3] \notin DOMAIN s.obj
  BY DEF LostConfigs, Has, Field
<1> HIDE DEF e
<1>3. <<e>> \in Seq({e}) /\ <<e>> # <<>> /\ <<e>>[1] = e
  OBVIOUS
<1> QED
  BY <1>1, <1>2, <1>3

LEMMA HpaDenies ==
  ASSUME NEW s
  PROVE  \A f \in HpaScaleTargetMissing(s) : (\E T : f.ev \in Seq(T)) /\ f.ev # <<>>
           /\ f.ev[1][3] \notin DOMAIN s.obj
<1> DEFINE shown == [h \in {x \in Of(s, "HPA") : At(s, x).target # None /\ ~Has(s, At(s, x).target)} |->
                       <<4, <<Field("scaleTargetRef", At(s, h).target)>>>>]
<1> SUFFICES ASSUME NEW h \in DOMAIN shown, NEW f, f = Finding(s, "HpaScaleTargetMissing", h,
    shown[h][1], shown[h][2])
             PROVE  (\E T : f.ev \in Seq(T)) /\ f.ev # <<>> /\ f.ev[1][3] \notin DOMAIN s.obj
  BY DEF HpaScaleTargetMissing, ForObject
<1>1. f.ev = shown[h][2]
  BY FindingShape
<1> DEFINE e == Field("scaleTargetRef", At(s, h).target)
<1>2. shown[h][2] = <<e>>
  OBVIOUS
<1>3. e[3] \notin DOMAIN s.obj
  BY DEF Has, Field
<1> HIDE DEF shown, e
<1>4. <<e>> \in Seq({e}) /\ <<e>> # <<>> /\ <<e>>[1] = e
  OBVIOUS
<1> QED
  BY <1>1, <1>2, <1>3, <1>4

LEMMA IngressDenies ==
  ASSUME NEW s, ObjectsTyped(s.obj)
  PROVE  \A f \in IngressBackend(s) : (\E T : f.ev \in Seq(T)) /\ f.ev # <<>>
           /\ f.ev[1][3] \notin DOMAIN s.obj
<1> DEFINE lost(i) == FirstOf(At(s, i).backends, LostBackends(s, i))
           shown == [i \in {x \in Of(s, "Ingress") : LostBackends(s, x) # {}} |->
                       <<3, <<Field("backend", lost(i)), Derived("missingService", lost(i))>>>>]
<1> SUFFICES ASSUME NEW i \in DOMAIN shown, NEW f, f = Finding(s, "IngressBackend", i, shown[i][1],
    shown[i][2])
             PROVE  (\E T : f.ev \in Seq(T)) /\ f.ev # <<>> /\ f.ev[1][3] \notin DOMAIN s.obj
  BY DEF IngressBackend, ForObject
<1>1. f.ev = shown[i][2]
  BY FindingShape
<1>2. shown[i][2] = <<Field("backend", lost(i)), Derived("missingService", lost(i))>>
      /\ i \in Of(s, "Ingress") /\ LostBackends(s, i) # {}
  OBVIOUS
<1> HIDE DEF shown
<1>3. At(s, i).backends \in Seq({"Service"} \X Nat)
  BY <1>2 DEF ObjectsTyped, Of, At
<1>4. lost(i) \in LostBackends(s, i)
  <2> DEFINE q == At(s, i).backends
  <2>1. DOMAIN q \subseteq Nat \ {0} /\ \A j \in DOMAIN q : 1..j \subseteq DOMAIN q
    BY <1>3
  <2>2. \E j \in DOMAIN q : q[j] \in LostBackends(s, i)
    BY <1>2, <1>3 DEF LostBackends, BackendsOf, ToSet
  <2> HIDE DEF q
  <2>3. FirstOf(q, LostBackends(s, i)) \in LostBackends(s, i)
    BY <2>1, <2>2, FirstOfFact
  <2> QED
    BY <2>3 DEF q
<1>5. lost(i) \notin DOMAIN s.obj
  BY <1>4 DEF LostBackends, Has
<1> DEFINE e == Field("backend", lost(i))
           d == Derived("missingService", lost(i))
<1>6. shown[i][2] = <<e, d>>
  BY <1>2
<1>7. e[3] \notin DOMAIN s.obj
  BY <1>5 DEF Field
<1> HIDE DEF shown, e, d
<1>8. <<e, d>> \in Seq({e, d}) /\ <<e, d>> # <<>> /\ <<e, d>>[1] = e
  OBVIOUS
<1> QED
  BY <1>1, <1>6, <1>7, <1>8

(* Evaluation, whole or cut off after n rules, gives findings of the rules, *)
(* each denying at most what the snapshot does not hold.                    *)
THEOREM EvaluatedScan ==
  ASSUME NEW s, ObjectsTyped(s.obj), NEW n \in 0..35
  PROVE  Scan(s, Evaluated(s, n))
<1>1. \A i \in 1..35 : FindingsOf(s, Outcomes(s)[i], RuleOrder[i], KindsOf(RuleOrder[i]))
  BY TypedIsFindable, EachRule
<1>2. Outcomes(s)[35] = ConfigRefNotFound(s) /\ Outcomes(s)[10] = IngressBackend(s)
      /\ Outcomes(s)[32] = HpaScaleTargetMissing(s)
  BY DEF Outcomes
<1>3. \A i \in 1..35 : RuleOrder[i] \in DenyingRules => i \in {10, 32, 35}
  BY DEF RuleOrder, DenyingRules
<1> DEFINE all == Outcomes(s)
<1>4. Evaluated(s, n) = UNION {all[i] : i \in 1..n}
  BY DEF Evaluated
<1> HIDE DEF all
<1>5. IsFiniteSet({all[i] : i \in 1..n})
  <2>1. IsFiniteSet(1..n)
    BY FS_Interval
  <2> QED
    BY <2>1, ImageIsFinite
<1>6. \A i \in 1..n : IsFiniteSet(all[i])
  BY <1>1 DEF FindingsOf, all
<1>7. IsFiniteSet(Evaluated(s, n))
  BY <1>4, <1>5, <1>6, FS_UNION
<1>8. ASSUME NEW i \in 1..35, NEW f \in Outcomes(s)[i] PROVE Scanned(s, f) /\ Denies(s, f)
  <2>1. Scanned(s, f)
    BY <1>1 DEF FindingsOf, Scanned, RuleNames
  <2>2. f.rule = RuleOrder[i]
    BY <1>1 DEF FindingsOf
  <2>3. Denies(s, f)
    <3>1. CASE i \in {10, 32, 35}
      BY <3>1, <1>2, ConfigRefDenies, HpaDenies, IngressDenies DEF Denies
    <3>2. CASE i \notin {10, 32, 35}
      BY <3>2, <2>2, <1>3 DEF Denies
    <3> QED
      BY <3>1, <3>2
  <2> QED
    BY <2>1, <2>3
<1>9. \A f \in Evaluated(s, n) : Scanned(s, f) /\ Denies(s, f)
  BY <1>4, <1>8 DEF all
<1> QED
  BY <1>7, <1>9 DEF Scan

(* What happens to a finding afterwards: its marks, and more evidence.      *)
SameBut(f, h) ==
  /\ h.rule = f.rule /\ h.res = f.res /\ h.sev = f.sev /\ h.id = f.id
  /\ h = [rule |-> h.rule, res |-> h.res, sev |-> h.sev, ev |-> h.ev, id |-> h.id,
          corr |-> h.corr, advice |-> h.advice]

(* Marks and further evidence leave a finding what it is.                   *)
LEMMA StillScanned ==
  ASSUME NEW s, NEW f, NEW h, Scanned(s, f), SameBut(f, h)
  PROVE  Scanned(s, h)
  BY DEF Scanned, SameBut, FindingTyped

LEMMA MoreEvidence ==
  ASSUME NEW f, NEW x, NEW h, h = [f EXCEPT !.ev = x],
         f = [rule |-> f.rule, res |-> f.res, sev |-> f.sev, ev |-> f.ev, id |-> f.id,
              corr |-> f.corr, advice |-> f.advice]
  PROVE  SameBut(f, h) /\ h.ev = x /\ h.corr = f.corr
<1>1. PICK a, b, c, d, e, u, v : f = [rule |-> a, res |-> b, sev |-> c, ev |-> d, id |-> e, corr |-> u,
    advice |-> v]
  OBVIOUS
<1>2. h = [rule |-> a, res |-> b, sev |-> c, ev |-> x, id |-> e, corr |-> u, advice |-> v]
  BY <1>1
<1> QED
  BY <1>1, <1>2 DEF SameBut

LEMMA MarkedScan ==
  ASSUME NEW s, NEW fs, Scan(s, fs)
  PROVE  /\ Scan(s, Marked(s, fs))
         /\ \A h \in Marked(s, fs) : \E f \in fs : SameBut(f, h) /\ (h.corr <=> f \in MarkCorrelated(s,
             fs))
         /\ \A f \in fs : \E h \in Marked(s, fs) : SameBut(f, h)
<1> DEFINE mark == [f \in fs |-> [f EXCEPT !.corr = f \in MarkCorrelated(s, fs),
    !.advice = f.rule \in Suggestions]]
<1>1. Marked(s, fs) = {mark[f] : f \in fs}
  BY DEF Marked
<1>2. ASSUME NEW f \in fs
      PROVE  SameBut(f, mark[f]) /\ mark[f].ev = f.ev /\ (mark[f].corr <=> f \in MarkCorrelated(s, fs))
  <2>1. f = [rule |-> f.rule, res |-> f.res, sev |-> f.sev, ev |-> f.ev, id |-> f.id,
             corr |-> f.corr, advice |-> f.advice]
    BY DEF Scan, Scanned, FindingTyped
  <2>2. PICK a, b, c, d, e, u, v :
          f = [rule |-> a, res |-> b, sev |-> c, ev |-> d, id |-> e, corr |-> u, advice |-> v]
    BY <2>1
  <2> DEFINE x == f \in MarkCorrelated(s, fs)
             y == f.rule \in Suggestions
  <2>3. mark[f] = [rule |-> a, res |-> b, sev |-> c, ev |-> d, id |-> e, corr |-> x, advice |-> y]
    BY <2>2
  <2> HIDE DEF mark
  <2>4. mark[f].corr <=> f \in MarkCorrelated(s, fs)
    <3>1. mark[f].corr = x
      BY <2>3
    <3> QED
      BY <3>1, Zenon
  <2>5. SameBut(f, mark[f]) /\ mark[f].ev = f.ev
    BY <2>2, <2>3 DEF SameBut
  <2> QED
    BY <2>4, <2>5
<1> HIDE DEF mark
<1>3. IsFiniteSet(Marked(s, fs))
  BY <1>1, ImageIsFinite DEF Scan
<1>4. ASSUME NEW f \in fs PROVE Scanned(s, mark[f]) /\ Denies(s, mark[f])
  <2>1. Scanned(s, mark[f])
    BY <1>2, StillScanned DEF Scan
  <2>2. mark[f].rule = f.rule /\ mark[f].ev = f.ev /\ Denies(s, f)
    BY <1>2 DEF Scan, SameBut
  <2> QED
    BY <2>1, <2>2 DEF Denies
<1> QED
  BY <1>1, <1>2, <1>3, <1>4 DEF Scan

(* Evidence is only added, after what the rule found.                       *)
LEMMA LoggedScan ==
  ASSUME NEW s, NEW f, Scanned(s, f), Denies(s, f)
  PROVE  LET h == AttachLogs(s, f)
         IN Scanned(s, h) /\ Denies(s, h) /\ SameBut(f, h) /\ h.corr = f.corr
<1> DEFINE h == AttachLogs(s, f)
<1>1. f = [rule |-> f.rule, res |-> f.res, sev |-> f.sev, ev |-> f.ev, id |-> f.id,
           corr |-> f.corr, advice |-> f.advice]
  BY DEF Scanned, FindingTyped
<1>2. CASE f.rule \in LogRules
  <2>1. \E x : h = [f EXCEPT !.ev = x]
    BY <1>2 DEF AttachLogs
  <2> HIDE DEF h
  <2>2. SameBut(f, h) /\ h.corr = f.corr
    BY <1>1, <2>1, MoreEvidence
  <2>3. h.rule \notin DenyingRules
    BY <1>2, <2>2 DEF SameBut, LogRules, DenyingRules
  <2>4. Scanned(s, h) /\ Denies(s, h)
    BY <2>2, <2>3, StillScanned DEF Denies
  <2> QED
    BY <2>2, <2>4 DEF h
<1>3. CASE f.rule \notin LogRules
  <2>1. h = f
    BY <1>3 DEF AttachLogs
  <2> QED
    BY <1>1, <2>1 DEF SameBut
<1> QED
  BY <1>2, <1>3

(* Neither attached logs nor enrichment touch the first piece of evidence.  *)
LEMMA HeadStays ==
  ASSUME NEW T, NEW a \in Seq(T), a # <<>>, NEW b, NEW U, b \in Seq(U)
  PROVE  (\E V : a \o b \in Seq(V)) /\ a \o b # <<>> /\ (a \o b)[1] = a[1]
<1>1. a \in Seq(T \cup U) /\ b \in Seq(T \cup U)
  OBVIOUS
<1>2. a \o b \in Seq(T \cup U) /\ Len(a) \in Nat \ {0} /\ Len(a \o b) = Len(a) + Len(b)
    /\ Len(b) \in Nat
  BY <1>1
<1>3. (a \o b)[1] = a[1] /\ a \o b # <<>>
  BY <1>1, <1>2
<1> QED
  BY <1>2, <1>3

LEMMA EnrichedScan ==
  ASSUME NEW s, NEW fs, NEW f, Scanned(s, f), Denies(s, f)
  PROVE  LET h == Enrich(s, fs, f)
         IN Scanned(s, h) /\ Denies(s, h) /\ SameBut(f, h) /\ h.corr = f.corr
<1> DEFINE h == Enrich(s, fs, f)
<1>1. f = [rule |-> f.rule, res |-> f.res, sev |-> f.sev, ev |-> f.ev, id |-> f.id,
           corr |-> f.corr, advice |-> f.advice]
  BY DEF Scanned, FindingTyped
<1>2. PICK a, b, T, U : h = [f EXCEPT !.ev = f.ev \o a \o b] /\ a \in Seq(T) /\ b \in Seq(U)
  <2> DEFINE affected == CASE Kind(f.res) \in Workloads -> PodsOfWorkload(s, f.res)
                    [] Kind(f.res) = "Service" -> PodsOfService(s, f.res)
                    [] Kind(f.res) = "Node" -> PodsOfNode(s, f.res)
                    [] OTHER -> {}
             faulty == affected \cap {x.res : x \in fs}
             named == IF Kind(f.res) = "Pod" THEN At(s, f.res).configs ELSE {}
             x == Derived("affectedPod", CHOOSE p \in faulty : \A q \in faulty : p[2] <= q[2])
             y == Derived("configs", named)
             a == IF faulty = {} THEN <<>> ELSE <<x>>
             b == IF named = {} THEN <<>> ELSE <<y>>
  <2>1. h = [f EXCEPT !.ev = f.ev \o a \o b]
    BY DEF Enrich
  <2> HIDE DEF faulty, named, x, y, h
  <2>2. /\ <<>> \in Seq({x}) /\ <<x>> \in Seq({x})
        /\ <<>> \in Seq({y}) /\ <<y>> \in Seq({y})
    OBVIOUS
  <2>3. a \in Seq({x}) /\ b \in Seq({y})
    BY <2>2
  <2> HIDE DEF a, b
  <2> QED
    BY <2>1, <2>3
<1> HIDE DEF h
<1>3. SameBut(f, h) /\ h.corr = f.corr /\ h.ev = f.ev \o a \o b
  BY <1>1, <1>2, MoreEvidence
<1>4. Scanned(s, h)
  BY <1>3, StillScanned
<1>5. Denies(s, h)
  <2> SUFFICES ASSUME f.rule \in DenyingRules
               PROVE  (\E V : h.ev \in Seq(V)) /\ h.ev # <<>> /\ h.ev[1] = f.ev[1]
    BY <1>3 DEF Denies, SameBut
  <2>1. PICK V : f.ev \in Seq(V)
    BY DEF Denies
  <2>2. f.ev # <<>>
    BY DEF Denies
  <2>3. PICK W : f.ev \o a \in Seq(W)
    BY <1>2, <2>1, <2>2, HeadStays
  <2>4. f.ev \o a # <<>> /\ (f.ev \o a)[1] = f.ev[1]
    BY <1>2, <2>1, <2>2, HeadStays
  <2>5. (\E X : (f.ev \o a) \o b \in Seq(X)) /\ (f.ev \o a) \o b # <<>>
      /\ ((f.ev \o a) \o b)[1] = (f.ev \o a)[1]
    BY <1>2, <2>3, <2>4, HeadStays
  <2> QED
    BY <2>4, <2>5, <1>3
<1> QED
  BY <1>3, <1>4, <1>5 DEF h

(*****************************************************************************)
(* The collection: what the snapshot may hold and what its failures mean.    *)
(*****************************************************************************)

(* The collection. What a snapshot holds of each kind that was listed comes *)
(* from the cluster as it was at some moment so far.                        *)
Stages == {"connect", "namespaces", "collect", "logs", "diagnose", "report", "done", "failed"}
Listing == {"collect", "logs", "diagnose", "report", "done"}
Surroundings ==
  /\ world \in Worlds /\ now \in 1..Len(world.clusters) /\ Len(world.clusters) \in Nat
  /\ ctx \in {"live", "done"} /\ pc \in Stages
ObjOf(i) == ClusterOf(world.clusters[i]).obj
SnapTyped ==
  /\ snap = [obj |-> snap.obj, events |-> snap.events, logs |-> snap.logs, failed |-> snap.failed]
  /\ IsFiniteSet(snap.failed) /\ IsFiniteSet(DOMAIN snap.obj)
Seen == \A r \in DOMAIN snap.obj :
          Kind(r) \in Listed /\ \E i \in 1..now : r \in DOMAIN ObjOf(i) /\ snap.obj[r] = ObjOf(i)[r]
Answered(op) ==
  \/ <<op, None>> \in snap.failed
  \/ \A r : Kind(r) = ListOf[op] /\ Present(r) => r \in DOMAIN snap.obj
ListsAnswered ==
  pc \in Listing => \A op \in DOMAIN ListOf : (op \in todo /\ pc = "collect") \/ Answered(op)
EventsAnswered ==
  pc \in Listing /\ world.events /\ Of(snap, "Namespace") # {} =>
    \/ pc = "collect" /\ "list_events" \in todo
    \/ <<"list_events", None>> \in snap.failed
    \/ \E i \in 1..now : snap.events = ClusterOf(world.clusters[i]).events
NotYetLogged ==
  /\ pc \in {"connect", "namespaces", "collect"} => snap.logs = {}
  /\ pc \in {"connect", "namespaces", "collect"} =>
       \A e \in snap.failed : e[2] = None /\ e[1] \in DOMAIN ListOf \cup {"list_events"}
  /\ pc = "collect" => todo \subseteq ResourceTasks \cup {"list_events"}
Collection == Surroundings /\ SnapTyped /\ Seen /\ ListsAnswered /\ EventsAnswered /\ NotYetLogged

(* The cluster is always in one of the world's states.                      *)
LEMMA ClusterAt ==
  ASSUME Surroundings, NEW i \in 1..now
  PROVE  ClusterTyped(ClusterOf(world.clusters[i]))
  BY WorldsAssumption DEF Surroundings

LEMMA SnapIsTyped ==
  ASSUME Surroundings, SnapTyped, Seen
  PROVE  ObjectsTyped(snap.obj)
<1>1. ASSUME NEW r \in DOMAIN snap.obj
      PROVE  \E i \in 1..now : ObjectsTyped(ObjOf(i)) /\ r \in DOMAIN ObjOf(i)
               /\ snap.obj[r] = ObjOf(i)[r]
  BY ClusterAt DEF Seen, ClusterTyped, ObjOf
<1>2. DOMAIN snap.obj \subseteq STRING \X Nat
  BY <1>1 DEF ObjectsTyped
<1> QED
  BY <1>1, <1>2 DEF ObjectsTyped, SnapTyped

(* What the three outcomes of a list do to the snapshot.                    *)
LEMMA AddFacts ==
  ASSUME Surroundings, SnapTyped, NEW kind
  PROVE  LET t == Add(snap, kind) IN
         /\ t = [obj |-> t.obj, events |-> snap.events, logs |-> snap.logs, failed |-> snap.failed]
         /\ IsFiniteSet(DOMAIN t.obj)
         /\ \A r : r \in DOMAIN t.obj <=> r \in DOMAIN snap.obj \/ (r \in DOMAIN Cluster.obj
             /\ Kind(r) = kind)
         /\ \A r \in DOMAIN t.obj :
              t.obj[r] = IF r \in DOMAIN Cluster.obj
                  /\ Kind(r) = kind THEN Cluster.obj[r] ELSE snap.obj[r]
<1> DEFINE got == {r \in DOMAIN Cluster.obj : Kind(r) = kind}
           new == [r \in DOMAIN snap.obj \cup got |-> IF r \in got THEN Cluster.obj[r] ELSE snap.obj[r]]
           t == Add(snap, kind)
<1>1. PICK a, b, c, d : snap = [obj |-> a, events |-> b, logs |-> c, failed |-> d]
  BY DEF SnapTyped
<1>2. t = [snap EXCEPT !.obj = new]
  BY DEF Add
<1>3. IsFiniteSet(DOMAIN Cluster.obj)
  BY ClusterAt DEF ClusterTyped, ObjectsTyped, Cluster, Surroundings
<1>4. IsFiniteSet(got)
  BY <1>3, FS_Subset
<1>5. DOMAIN new = DOMAIN snap.obj \cup got
  OBVIOUS
<1>6. IsFiniteSet(DOMAIN new)
  BY <1>4, <1>5, FS_Union DEF SnapTyped
<1>7. \A r \in DOMAIN new : new[r] = IF r \in got THEN Cluster.obj[r] ELSE snap.obj[r]
  OBVIOUS
<1> HIDE DEF new, t
<1>8. t = [obj |-> new, events |-> b, logs |-> c, failed |-> d]
  BY <1>1, <1>2
<1>9. t.obj = new /\ t = [obj |-> t.obj, events |-> snap.events, logs |-> snap.logs,
    failed |-> snap.failed]
  BY <1>1, <1>8
<1> QED
  BY <1>5, <1>6, <1>7, <1>9 DEF t

LEMMA ErrorFacts ==
  ASSUME SnapTyped, NEW op, NEW scope
  PROVE  AddError(snap, op, scope) =
           [obj |-> snap.obj, events |-> snap.events, logs |-> snap.logs,
               failed |-> snap.failed \cup {<<op, scope>>}]
<1>1. PICK a, b, c, d : snap = [obj |-> a, events |-> b, logs |-> c, failed |-> d]
  BY DEF SnapTyped
<1> QED
  BY <1>1 DEF AddError

LEMMA EventsFacts ==
  ASSUME SnapTyped
  PROVE  [snap EXCEPT !.events = Cluster.events] =
           [obj |-> snap.obj, events |-> Cluster.events, logs |-> snap.logs, failed |-> snap.failed]
<1>1. PICK a, b, c, d : snap = [obj |-> a, events |-> b, logs |-> c, failed |-> d]
  BY DEF SnapTyped
<1> QED
  BY <1>1

LEMMA CollectionInit == Init => Collection
<1> SUFFICES ASSUME Init PROVE Collection
  OBVIOUS
<1>1. snap = [obj |-> <<>>, events |-> <<>>, logs |-> {}, failed |-> {}] /\ DOMAIN <<>> = {}
  BY DEF Init
<1>2. Len(world.clusters) \in Nat \ {0}
  BY WorldsAssumption DEF Init
<1>3. SnapTyped
  BY <1>1, FS_EmptySet DEF SnapTyped
<1> QED
  BY <1>1, <1>2, <1>3 DEF Init, Collection, Surroundings, Stages, Seen, ListsAnswered, Listing,
      EventsAnswered, NotYetLogged

(* A list that is answered, or fails, is answered from then on.             *)
LEMMA AddAnswers ==
  ASSUME Surroundings, SnapTyped, Seen, NEW op \in DOMAIN ListOf, snap' = Add(snap, ListOf[op]),
         UNCHANGED <<world, now>>
  PROVE  /\ SnapTyped' /\ Seen' /\ Answered(op)'
         /\ \A o : Answered(o) => Answered(o)'
         /\ snap'.events = snap.events /\ snap'.logs = snap.logs /\ snap'.failed = snap.failed
<1> DEFINE t == Add(snap, ListOf[op])
<1>1. /\ t = [obj |-> t.obj, events |-> snap.events, logs |-> snap.logs, failed |-> snap.failed]
      /\ IsFiniteSet(DOMAIN t.obj)
      /\ \A r : r \in DOMAIN t.obj <=> r \in DOMAIN snap.obj \/ (r \in DOMAIN Cluster.obj
          /\ Kind(r) = ListOf[op])
      /\ \A r \in DOMAIN t.obj :
           t.obj[r] = IF r \in DOMAIN Cluster.obj /\ Kind(r) = ListOf[op] THEN Cluster.obj[r] ELSE snap.obj[r]
  BY AddFacts
<1>2. t = snap'
  OBVIOUS
<1> HIDE DEF t
<1>3. snap'.events = snap.events /\ snap'.logs = snap.logs /\ snap'.failed = snap.failed
  BY <1>1, <1>2
<1>4. SnapTyped'
  BY <1>1, <1>2, <1>3 DEF SnapTyped
<1>5. ListOf[op] \in Listed /\ now \in 1..now /\ Cluster.obj = ObjOf(now)
  BY DEF Listed, Surroundings, Cluster, ObjOf
<1>6. Seen'
  <2> SUFFICES ASSUME NEW r \in DOMAIN t.obj
               PROVE  Kind(r) \in Listed /\ \E i \in 1..now : r \in DOMAIN ObjOf(i)
                        /\ t.obj[r] = ObjOf(i)[r]
    BY <1>2 DEF Seen, ObjOf
  <2>1. CASE r \in DOMAIN Cluster.obj /\ Kind(r) = ListOf[op]
    BY <2>1, <1>1, <1>5
  <2>2. CASE ~(r \in DOMAIN Cluster.obj /\ Kind(r) = ListOf[op])
    BY <2>2, <1>1 DEF Seen
  <2> QED
    BY <2>1, <2>2
<1>7. Answered(op)'
  BY <1>1, <1>2, <1>5 DEF Answered, Present, ObjOf
<1>8. \A o : Answered(o) => Answered(o)'
  BY <1>1, <1>2, <1>3 DEF Answered, Present
<1> QED
  BY <1>3, <1>4, <1>6, <1>7, <1>8

LEMMA ErrorAnswers ==
  ASSUME Surroundings, SnapTyped, Seen, NEW op, NEW scope, snap' = AddError(snap, op, scope),
         UNCHANGED <<world, now>>
  PROVE  /\ SnapTyped' /\ Seen' /\ (scope = None => Answered(op)')
         /\ \A o : Answered(o) => Answered(o)'
         /\ snap'.obj = snap.obj /\ snap'.events = snap.events /\ snap'.logs = snap.logs
         /\ snap'.failed = snap.failed \cup {<<op, scope>>}
<1>1. snap' = [obj |-> snap.obj, events |-> snap.events, logs |-> snap.logs,
    failed |-> snap.failed \cup {<<op, scope>>}]
  BY ErrorFacts
<1>2. snap'.obj = snap.obj /\ snap'.events = snap.events /\ snap'.logs = snap.logs
      /\ snap'.failed = snap.failed \cup {<<op, scope>>}
  BY <1>1
<1>3. IsFiniteSet(snap'.failed)
  <2>1. IsFiniteSet({<<op, scope>>}) /\ IsFiniteSet(snap.failed)
    BY FS_Singleton DEF SnapTyped
  <2>2. IsFiniteSet(snap.failed \cup {<<op, scope>>})
    BY <2>1, FS_Union
  <2> QED
    BY <1>2, <2>2
<1>4. SnapTyped'
  BY <1>1, <1>2, <1>3 DEF SnapTyped
<1> QED
  BY <1>2, <1>4 DEF Seen, ObjOf, Answered, Present

(* A later cluster, or a snapshot with the same objects and no fewer        *)
(* failures, leaves answered what was.                                      *)
LEMMA StaysAnswered ==
  ASSUME Surroundings, world' = world, now' \in 1..Len(world.clusters), now <= now',
         snap'.obj = snap.obj, snap.failed \subseteq snap'.failed, Seen
  PROVE  Seen' /\ \A op : Answered(op) => Answered(op)'
<1>1. now \in Nat /\ now' \in Nat /\ 1..now \subseteq 1..now'
  BY DEF Surroundings
<1>2. Seen'
  BY <1>1 DEF Seen, ObjOf
<1>3. \A r : Present(r)' => Present(r)
  BY <1>1 DEF Present
<1> QED
  BY <1>2, <1>3 DEF Answered

(* Reading a pod's log leaves the objects and events alone.                 *)
LEMMA LogsStep ==
  ASSUME Collection, NEW p, Logs(p)
  PROVE  /\ SnapTyped' /\ snap'.obj = snap.obj /\ snap'.events = snap.events
         /\ snap.failed \subseteq snap'.failed /\ snap'.failed \subseteq snap.failed \cup {<<"get_logs",
             p>>}
<1>1. PICK a, b, c, d : snap = [obj |-> a, events |-> b, logs |-> c, failed |-> d]
  BY DEF Collection, SnapTyped
<1>2. PICK e, f : snap' = [obj |-> a, events |-> b, logs |-> e, failed |-> f]
                  /\ d \subseteq f /\ f \subseteq d \cup {<<"get_logs", p>>}
  <2>1. CASE snap' = [snap EXCEPT !.logs = @ \cup {p}]
    <3>1. snap' = [obj |-> a, events |-> b, logs |-> c \cup {p}, failed |-> d]
      BY <1>1, <2>1
    <3> QED
      BY <3>1
  <2>2. CASE \E got \in {{}, {p}} : snap' = AddError([snap EXCEPT !.logs = @ \cup got], "get_logs", p)
    <3>1. PICK got : snap' = AddError([snap EXCEPT !.logs = @ \cup got], "get_logs", p)
      BY <2>2
    <3> DEFINE m == [snap EXCEPT !.logs = @ \cup got]
    <3>2. m = [obj |-> a, events |-> b, logs |-> c \cup got, failed |-> d]
      BY <1>1
    <3>3. snap' = [m EXCEPT !.failed = @ \cup {<<"get_logs", p>>}]
      BY <3>1 DEF AddError
    <3> HIDE DEF m
    <3>4. snap' = [obj |-> a, events |-> b, logs |-> c \cup got, failed |-> d \cup {<<"get_logs", p>>}]
      BY <3>2, <3>3
    <3> QED
      BY <3>4
  <2> QED
    BY <2>1, <2>2 DEF Logs
<1>3. snap'.obj = snap.obj /\ snap'.events = snap.events /\ snap.failed = d /\ snap'.failed = f
      /\ snap' = [obj |-> snap'.obj, events |-> snap'.events, logs |-> snap'.logs,
          failed |-> snap'.failed]
  BY <1>1, <1>2
<1>4. IsFiniteSet(f)
  <2>1. IsFiniteSet(d \cup {<<"get_logs", p>>})
    BY <1>3, FS_Singleton, FS_Union DEF Collection, SnapTyped
  <2> QED
    BY <2>1, <1>2, FS_Subset
<1> QED
  BY <1>2, <1>3, <1>4 DEF Collection, SnapTyped

(* Every step keeps the collection as it should be.                         *)
LEMMA CollectionStep ==
  ASSUME Collection, [Next]_vars
  PROVE  Collection'
<1> USE DEF Collection
<1>1. CASE UNCHANGED vars
  BY <1>1 DEF vars, Surroundings, SnapTyped, Seen, ObjOf, ListsAnswered, Answered, Present,
              EventsAnswered, NotYetLogged
<1>2. CASE ClusterChanges
  <2>1. now' = now + 1 /\ now' \in 1..Len(world.clusters) /\ UNCHANGED <<world, ctx, pc, todo, snap>>
    BY <1>2 DEF ClusterChanges, Surroundings
  <2>2. Surroundings' /\ SnapTyped' /\ NotYetLogged' /\ now <= now'
    BY <2>1 DEF Surroundings, SnapTyped, NotYetLogged
  <2>3. Seen' /\ \A op : Answered(op) => Answered(op)'
    BY <2>1, <2>2, StaysAnswered
  <2>4. ListsAnswered'
    BY <2>1, <2>3 DEF ListsAnswered
  <2>5. EventsAnswered'
    <3>1. 1..now \subseteq 1..now'
      BY <2>1 DEF Surroundings
    <3> QED
      BY <2>1, <3>1 DEF EventsAnswered
  <2> QED
    BY <2>2, <2>3, <2>4, <2>5
<1>3. CASE Deadline \/ Connect \/ GiveUp \/ DiagnoseAll \/ Conclude \/ Evaluate
  <2>1. /\ UNCHANGED <<world, now, snap>> /\ ctx' \in {"live", "done"} /\ pc' \in Stages
        /\ pc' \in Listing => pc \in Listing
        /\ pc' = "collect" => pc = "collect" /\ todo' = todo
        /\ pc = "collect" /\ pc' \in Listing => pc' = "collect" \/ todo = {}
        /\ pc' \in {"connect", "namespaces", "collect"} => pc \in {"connect", "namespaces", "collect"}
    BY <1>3 DEF Deadline, Connect, GiveUp, DiagnoseAll, Conclude, Evaluate, Surroundings, Stages,
        Listing
  <2>2. Surroundings' /\ SnapTyped' /\ Seen' /\ \A op : Answered(op) => Answered(op)'
    BY <2>1 DEF Surroundings, SnapTyped, Seen, ObjOf, Answered, Present
  <2>3. NotYetLogged'
    BY <2>1 DEF NotYetLogged
  <2>4. ListsAnswered'
    BY <2>1, <2>2 DEF ListsAnswered
  <2>5. EventsAnswered'
    BY <2>1 DEF EventsAnswered, Of
  <2> QED
    BY <2>2, <2>3, <2>4, <2>5
<1>4. CASE ListNamespaces
  <2>1. /\ pc = "namespaces" /\ pc' = "collect" /\ UNCHANGED <<world, now, ctx>>
        /\ snap' = Add(snap, "Namespace") \/ snap' = AddError(snap, "list_namespaces", None)
        /\ todo' = ResourceTasks \cup (IF world.events /\ Of(snap',
            "Namespace") # {} THEN {"list_events"} ELSE {})
    BY <1>4 DEF ListNamespaces
  <2>2. "list_namespaces" \in DOMAIN ListOf /\ ListOf["list_namespaces"] = "Namespace"
        /\ \A op \in DOMAIN ListOf : op \in ResourceTasks \/ op = "list_namespaces"
    BY DEF ListOf, ResourceTasks
  <2>3. /\ SnapTyped' /\ Seen' /\ Answered("list_namespaces")' /\ snap'.logs = snap.logs
        /\ snap'.failed \in {snap.failed, snap.failed \cup {<<"list_namespaces", None>>}}
    BY <2>1, <2>2, AddAnswers, ErrorAnswers
  <2>4. Surroundings'
    BY <2>1 DEF Surroundings, Stages
  <2>5. ListsAnswered'
    BY <2>1, <2>2, <2>3 DEF ListsAnswered
  <2>6. EventsAnswered'
    BY <2>1 DEF EventsAnswered
  <2>7. NotYetLogged'
    BY <2>1, <2>2, <2>3 DEF NotYetLogged
  <2> QED
    BY <2>3, <2>4, <2>5, <2>6, <2>7
<1>5. ASSUME NEW op \in Answering, List(op) PROVE Collection'
  <2>1. /\ pc = "collect" /\ pc' = "collect" /\ op \in todo /\ todo' = todo \ {op}
        /\ UNCHANGED <<world, now, ctx>> /\ op \in DOMAIN ListOf \cup {"list_events"}
        /\ snap' = Collected(op) \/ snap' = AddError(snap, op, None)
    BY <1>5 DEF List, NotYetLogged, ResourceTasks
  <2>2. Surroundings'
    BY <2>1 DEF Surroundings
  <2>3. CASE snap' = AddError(snap, op, None)
    <3>1. /\ SnapTyped' /\ Seen' /\ Answered(op)' /\ \A o : Answered(o) => Answered(o)'
          /\ snap'.obj = snap.obj /\ snap'.events = snap.events /\ snap'.logs = snap.logs
          /\ snap'.failed = snap.failed \cup {<<op, None>>}
      BY <2>1, <2>3, ErrorAnswers
    <3>2. ListsAnswered'
      BY <2>1, <3>1 DEF ListsAnswered, Listing
    <3>3. EventsAnswered'
      BY <2>1, <3>1 DEF EventsAnswered, Listing, Of
    <3>4. NotYetLogged'
      BY <2>1, <3>1 DEF NotYetLogged
    <3> QED
      BY <2>2, <3>1, <3>2, <3>3, <3>4
  <2>4. CASE snap' = Collected(op) /\ op # "list_events"
    <3>1. snap' = Add(snap, ListOf[op]) /\ op \in DOMAIN ListOf
      BY <2>1, <2>4 DEF Collected
    <3>2. /\ SnapTyped' /\ Seen' /\ Answered(op)' /\ \A o : Answered(o) => Answered(o)'
          /\ snap'.events = snap.events /\ snap'.logs = snap.logs /\ snap'.failed = snap.failed
      BY <2>1, <3>1, AddAnswers
    <3>3. ListsAnswered'
      BY <2>1, <3>2 DEF ListsAnswered, Listing
    <3>4. NotYetLogged'
      BY <2>1, <3>2 DEF NotYetLogged
    <3>5. Of(snap', "Namespace") \subseteq Of(snap, "Namespace")
      <4>1. ListOf[op] # "Namespace"
        BY <2>1, <2>4 DEF NotYetLogged, ResourceTasks, ListOf
      <4>2. \A r \in DOMAIN snap'.obj : r \in DOMAIN snap.obj \/ Kind(r) = ListOf[op]
        BY <3>1, AddFacts
      <4> QED
        BY <4>1, <4>2 DEF Of
    <3>6. EventsAnswered'
      BY <2>1, <2>4, <3>2, <3>5 DEF EventsAnswered, Listing
    <3> QED
      BY <2>2, <3>2, <3>3, <3>4, <3>6
  <2>5. CASE snap' = Collected(op) /\ op = "list_events"
    <3>1. snap' = [obj |-> snap.obj, events |-> Cluster.events, logs |-> snap.logs,
        failed |-> snap.failed]
      BY <2>5, EventsFacts DEF Collected
    <3>2. snap'.obj = snap.obj /\ snap'.events = Cluster.events /\ snap'.logs = snap.logs
        /\ snap'.failed = snap.failed
      BY <3>1
    <3>3. SnapTyped'
      BY <3>1, <3>2 DEF SnapTyped
    <3>4. Seen' /\ \A o : Answered(o) => Answered(o)'
      BY <2>1, <3>2 DEF Seen, ObjOf, Answered, Present
    <3>5. "list_events" \notin DOMAIN ListOf
      BY DEF ListOf
    <3>6. ListsAnswered'
      BY <2>1, <2>5, <3>4, <3>5 DEF ListsAnswered, Listing
    <3>7. EventsAnswered'
      <4>1. now \in 1..now /\ now' = now
        BY <2>1 DEF Surroundings
      <4> QED
        BY <2>1, <3>2, <4>1 DEF EventsAnswered, Cluster
    <3>8. NotYetLogged'
      BY <2>1, <3>2 DEF NotYetLogged
    <3> QED
      BY <2>2, <3>3, <3>4, <3>6, <3>7, <3>8
  <2> QED
    BY <2>1, <2>3, <2>4, <2>5
<1>6. ASSUME NEW p, Logs(p) PROVE Collection'
  <2>1. /\ pc = "logs" /\ pc' \in {"logs", "diagnose"} /\ UNCHANGED <<world, now, ctx>>
    BY <1>6 DEF Logs
  <2>2. /\ SnapTyped' /\ snap'.obj = snap.obj /\ snap'.events = snap.events
           /\ snap.failed \subseteq snap'.failed
    BY <1>6, LogsStep
  <2>3. Surroundings' /\ NotYetLogged'
    BY <2>1 DEF Surroundings, Stages, NotYetLogged
  <2>4. Seen' /\ \A op : Answered(op) => Answered(op)'
    <3>1. now' \in 1..Len(world.clusters) /\ now <= now'
      BY <2>1 DEF Surroundings
    <3> QED
      BY <2>1, <2>2, <3>1, StaysAnswered
  <2>5. ListsAnswered' /\ EventsAnswered'
    BY <2>1, <2>2, <2>4 DEF ListsAnswered, EventsAnswered, Listing, Of
  <2> QED
    BY <2>2, <2>3, <2>4, <2>5
<1> QED
  BY <1>1, <1>2, <1>3, <1>4, <1>5, <1>6 DEF Next

(*****************************************************************************)
(* Orders among findings: the first, the most severe.                        *)
(*****************************************************************************)

(* The order of findings: by rule, then by name.                            *)
Ordered(f) == f.rule \in RuleNames /\ f.res[2] \in Nat /\ f.sev \in 1..5

(* Every rule has a place in the order.                                     *)
LEMMA PlaceFact ==
  \A rule \in RuleNames : Place(rule) \in 1..35
<1> SUFFICES ASSUME NEW rule \in RuleNames PROVE Place(rule) \in 1..35
  OBVIOUS
<1>1. DOMAIN RuleOrder = 1..35
  BY DEF RuleOrder
<1>2. \E i \in DOMAIN RuleOrder : RuleOrder[i] = rule
  BY <1>1 DEF RuleNames
<1> QED
  BY <1>1, <1>2 DEF Place

(* Of pairs of naturals one is least, of finitely many one is greatest.     *)
LEMMA LexLeast ==
  ASSUME NEW T, T # {}, NEW a, NEW b, \A x \in T : a[x] \in Nat /\ b[x] \in Nat
  PROVE  \E x \in T : \A y \in T : a[x] < a[y] \/ (a[x] = a[y] /\ b[x] <= b[y])
<1>1. PICK m \in {a[x] : x \in T} : \A n \in {a[x] : x \in T} : m <= n
  <2>1. {a[x] : x \in T} \subseteq Nat /\ {a[x] : x \in T} # {}
    OBVIOUS
  <2> QED
    BY <2>1, Smallest
<1> DEFINE U == {x \in T : a[x] = m}
<1>2. PICK k \in {b[x] : x \in U} : \A n \in {b[x] : x \in U} : k <= n
  <2>1. {b[x] : x \in U} \subseteq Nat /\ {b[x] : x \in U} # {}
    OBVIOUS
  <2> QED
    BY <2>1, Smallest
<1>3. PICK x \in U : b[x] = k
  OBVIOUS
<1>4. ASSUME NEW y \in T PROVE a[x] < a[y] \/ (a[x] = a[y] /\ b[x] <= b[y])
  <2>1. a[x] <= a[y] /\ a[x] = m
    BY <1>1
  <2>2. a[y] = m => b[x] <= b[y]
    BY <1>2, <1>3
  <2> QED
    BY <2>1, <2>2
<1> QED
  BY <1>4

LEMMA LexGreatest ==
  ASSUME NEW T, T # {}, IsFiniteSet(T), NEW a, NEW b, \A x \in T : a[x] \in Nat /\ b[x] \in Nat
  PROVE  \E x \in T : \A y \in T : a[y] < a[x] \/ (a[x] = a[y] /\ b[y] <= b[x])
<1>1. PICK m \in {a[x] : x \in T} : \A n \in {a[x] : x \in T} : n <= m
  <2>1. {a[x] : x \in T} \subseteq Nat /\ {a[x] : x \in T} # {} /\ IsFiniteSet({a[x] : x \in T})
    BY ImageIsFinite
  <2> QED
    BY <2>1, Largest
<1> DEFINE U == {x \in T : a[x] = m}
<1>2. PICK k \in {b[x] : x \in U} : \A n \in {b[x] : x \in U} : n <= k
  <2>1. IsFiniteSet(U)
    BY FS_Subset
  <2>2. {b[x] : x \in U} \subseteq Nat /\ {b[x] : x \in U} # {}
    OBVIOUS
  <2>3. IsFiniteSet({b[x] : x \in U})
    <3> HIDE DEF U
    <3> QED
      BY <2>1, ImageIsFinite
  <2> QED
    BY <2>2, <2>3, Largest
<1>3. PICK x \in U : b[x] = k
  OBVIOUS
<1>4. ASSUME NEW y \in T PROVE a[y] < a[x] \/ (a[x] = a[y] /\ b[y] <= b[x])
  <2>1. a[y] <= a[x] /\ a[x] = m
    BY <1>1
  <2>2. a[y] = m => b[y] <= b[x]
    BY <1>2, <1>3
  <2> QED
    BY <2>1, <2>2
<1> QED
  BY <1>4

(* So there is a first finding, a most severe, a worst, a last.             *)
LEMMA FirstFact ==
  ASSUME NEW fs, fs # {}, \A f \in fs : Ordered(f)
  PROVE  First(fs) \in fs
<1> DEFINE a == [f \in fs |-> Place(f.rule)]
           b == [f \in fs |-> f.res[2]]
<1>1. \A f \in fs : a[f] = Place(f.rule) /\ b[f] = f.res[2]
  OBVIOUS
<1>2. \A f \in fs : a[f] \in Nat /\ b[f] \in Nat
  BY PlaceFact DEF Ordered
<1> HIDE DEF a, b
<1>3. PICK f \in fs : \A g \in fs : a[f] < a[g] \/ (a[f] = a[g] /\ b[f] <= b[g])
  BY <1>2, LexLeast
<1>4. \A g \in fs : ~Earlier(g, f)
  <2> SUFFICES ASSUME NEW g \in fs, Earlier(g, f) PROVE FALSE
    OBVIOUS
  <2>1. a[f] < a[g] \/ (a[f] = a[g] /\ b[f] <= b[g])
    BY <1>3
  <2>2. a[g] < a[f] \/ (a[g] = a[f] /\ b[g] < b[f])
    BY <1>1 DEF Earlier
  <2>3. a[f] \in Nat /\ a[g] \in Nat /\ b[f] \in Nat /\ b[g] \in Nat
    BY <1>2
  <2> QED
    BY <2>1, <2>2, <2>3
<1> QED
  BY <1>4 DEF First

LEMMA SeverestFact ==
  ASSUME NEW fs, fs # {}, \A f \in fs : Ordered(f)
  PROVE  \E f \in fs : \A g \in fs : f.sev >= g.sev
<1> DEFINE T == {f.sev : f \in fs}
<1>1. T \subseteq 0..5 /\ T # {}
  BY DEF Ordered
<1>2. PICK n \in T : \A m \in T : m <= n
  BY <1>1, LargestBelow
<1>3. PICK f \in fs : f.sev = n
  OBVIOUS
<1>4. \A g \in fs : f.sev >= g.sev
  <2> SUFFICES ASSUME NEW g \in fs PROVE f.sev >= g.sev
    OBVIOUS
  <2>1. g.sev <= f.sev
    BY <1>2, <1>3
  <2> QED
    BY <2>1 DEF Ordered
<1> QED
  BY <1>4

LEMMA WorstFact ==
  ASSUME NEW fs, fs # {}, \A f \in fs : Ordered(f)
  PROVE  Worst(fs) \in fs
<1> DEFINE top == {f \in fs : \A g \in fs : f.sev >= g.sev}
<1>1. top # {} /\ \A f \in top : Ordered(f)
  BY SeverestFact
<1>3. PICK f \in top : \A g \in top : ~Earlier(g, f)
  <2> DEFINE a == [h \in top |-> Place(h.rule)]
             b == [h \in top |-> h.res[2]]
  <2>1. \A h \in top : a[h] = Place(h.rule) /\ b[h] = h.res[2]
    OBVIOUS
  <2>2. \A h \in top : a[h] \in Nat /\ b[h] \in Nat
    BY PlaceFact DEF Ordered
  <2> HIDE DEF a, b
  <2>3. PICK h \in top : \A g \in top : a[h] < a[g] \/ (a[h] = a[g] /\ b[h] <= b[g])
    BY <1>1, <2>2, LexLeast
  <2>4. ASSUME NEW g \in top, Earlier(g, h) PROVE FALSE
    <3>1. a[h] < a[g] \/ (a[h] = a[g] /\ b[h] <= b[g])
      BY <2>3
    <3>2. a[g] < a[h] \/ (a[g] = a[h] /\ b[g] < b[h])
      BY <2>1, <2>4 DEF Earlier
    <3>3. a[h] \in Nat /\ a[g] \in Nat /\ b[h] \in Nat /\ b[g] \in Nat
      BY <2>2
    <3> QED
      BY <3>1, <3>2, <3>3
  <2> QED
    BY <2>4
<1>4. \A g \in fs : g.sev < f.sev \/ (g.sev = f.sev /\ ~Earlier(g, f))
  <2> SUFFICES ASSUME NEW g \in fs, ~(g.sev < f.sev) PROVE g.sev = f.sev /\ ~Earlier(g, f)
    OBVIOUS
  <2>1. f.sev \in Int /\ g.sev \in Int /\ f.sev >= g.sev
    BY DEF Ordered
  <2>2. g.sev = f.sev
    BY <2>1
  <2>3. g \in top
    BY <2>2
  <2> QED
    BY <2>2, <2>3, <1>3
<1> QED
  BY <1>4 DEF Worst

LEMMA LastFact ==
  ASSUME NEW fs, fs # {}, IsFiniteSet(fs), \A f \in fs : Ordered(f)
  PROVE  \E f \in fs : \A h \in fs : ~Earlier(f, h)
<1> DEFINE a == [h \in fs |-> Place(h.rule)]
           b == [h \in fs |-> h.res[2]]
<1>1. \A h \in fs : a[h] = Place(h.rule) /\ b[h] = h.res[2]
  OBVIOUS
<1>2. \A h \in fs : a[h] \in Nat /\ b[h] \in Nat
  BY PlaceFact DEF Ordered
<1> HIDE DEF a, b
<1>3. PICK f \in fs : \A h \in fs : a[h] < a[f] \/ (a[f] = a[h] /\ b[h] <= b[f])
  BY <1>2, LexGreatest
<1>4. ASSUME NEW h \in fs, Earlier(f, h) PROVE FALSE
  <2>1. a[h] < a[f] \/ (a[f] = a[h] /\ b[h] <= b[f])
    BY <1>3
  <2>2. a[f] < a[h] \/ (a[f] = a[h] /\ b[f] < b[h])
    BY <1>1, <1>4 DEF Earlier
  <2>3. a[f] \in Nat /\ a[h] \in Nat /\ b[f] \in Nat /\ b[h] \in Nat
    BY <1>2
  <2> QED
    BY <2>1, <2>2, <2>3
<1> QED
  BY <1>4

(*****************************************************************************)
(* The groups of findings that touch one another.                            *)
(*****************************************************************************)

(* What a step repeated from a first value gives exists: so the recursive   *)
(* functions over the naturals are what their definitions say.              *)
StepsIn(step, V) == \A n \in Nat, v \in V : step[<<n, v>>] \in V
Repeats(h, V, v0, step) == h \in [Nat -> V] /\ h[0] = v0 /\ \A n \in Nat : h[n + 1] = step[<<n, h[n]>>]

(* A value for each round: the function exists.                             *)
LEMMA Iterates ==
  ASSUME NEW V, NEW v0 \in V, NEW step, StepsIn(step, V)
  PROVE  \E h : Repeats(h, V, v0, step)
<1> DEFINE Upto(n) == {g \in [0..n -> V] : g[0] = v0 /\ \A i \in 0..(n - 1) : g[i + 1] = step[<<i,
    g[i]>>]}
           Some == {n \in Nat : Upto(n) # {}}
           Agree == {i \in Nat : \A n, m \in Nat : \A g \in Upto(n), h \in Upto(m) :
                                   i <= n /\ i <= m => g[i] = h[i]}
<1> \A n \in Nat, v \in V : step[<<n, v>>] \in V
  BY DEF StepsIn
<1>1. 0 \in Some
  <2>1. [i \in 0..0 |-> v0] \in Upto(0)
    OBVIOUS
  <2> QED
    BY <2>1
<1>2. ASSUME NEW n \in Nat, n \in Some PROVE n + 1 \in Some
  <2>1. PICK g \in Upto(n) : TRUE
    BY <1>2
  <2> DEFINE h == [i \in 0..(n + 1) |-> IF i <= n THEN g[i] ELSE step[<<n, g[n]>>]]
  <2>2. g[n] \in V /\ step[<<n, g[n]>>] \in V
    OBVIOUS
  <2>3. h \in [0..(n + 1) -> V]
    BY <2>2
  <2>4. h[0] = v0
    OBVIOUS
  <2>5. ASSUME NEW i \in 0..n PROVE h[i + 1] = step[<<i, h[i]>>]
    <3>1. i \in 0..(n + 1) /\ i + 1 \in 0..(n + 1) /\ h[i] = g[i]
      OBVIOUS
    <3>2. CASE i = n
      BY <3>1, <3>2
    <3>3. CASE i # n
      <4>1. i \in 0..(n - 1) /\ i + 1 <= n
        BY <3>3
      <4>2. g[i + 1] = step[<<i, g[i]>>]
        BY <4>1
      <4> QED
        BY <3>1, <4>1, <4>2
    <3> QED
      BY <3>2, <3>3
  <2> HIDE DEF h
  <2>6. h \in Upto(n + 1)
    BY <2>3, <2>4, <2>5
  <2> QED
    BY <2>6
<1>3. 0 \in Agree
  OBVIOUS
<1>4. ASSUME NEW i \in Nat, i \in Agree PROVE i + 1 \in Agree
  <2> SUFFICES ASSUME NEW n \in Nat, NEW m \in Nat, NEW g \in Upto(n), NEW h \in Upto(m),
                      i + 1 <= n, i + 1 <= m
               PROVE  g[i + 1] = h[i + 1]
    OBVIOUS
  <2>1. i \in 0..(n - 1) /\ i \in 0..(m - 1) /\ i <= n /\ i <= m
    OBVIOUS
  <2>2. g[i] = h[i]
    BY <1>4, <2>1
  <2>3. g[i + 1] = step[<<i, g[i]>>] /\ h[i + 1] = step[<<i, h[i]>>]
    BY <2>1
  <2> QED
    BY <2>2, <2>3
<1>5. Nat \subseteq Some /\ Nat \subseteq Agree
  <2> HIDE DEF Some, Agree
  <2> QED
    BY <1>1, <1>2, <1>3, <1>4, Induct
<1>10. \A n \in Nat : \E g : g \in Upto(n)
  BY <1>5
<1>11. \A i, n, m \in Nat : \A g \in Upto(n), k \in Upto(m) : i <= n /\ i <= m => g[i] = k[i]
  BY <1>5
<1> HIDE DEF Some, Agree
<1> DEFINE h == [n \in Nat |-> (CHOOSE g \in Upto(n) : TRUE)[n]]
<1>6. ASSUME NEW n \in Nat, NEW g \in Upto(n) PROVE h[n] = g[n] /\ h[n] \in V
  <2> DEFINE k == CHOOSE k \in Upto(n) : TRUE
  <2>1. k \in Upto(n)
    OBVIOUS
  <2>2. k[n] = g[n]
    <3> HIDE DEF k, Upto
    <3> QED
      BY <1>11, <2>1
  <2>3. g[n] \in V
    OBVIOUS
  <2> QED
    BY <2>2, <2>3
<1>7. h \in [Nat -> V]
  <2> HIDE DEF Upto
  <2>1. \A n \in Nat : h[n] \in V
    BY <1>6, <1>10
  <2> QED
    BY <2>1
<1>8. h[0] = v0
  <2>1. PICK g : g \in Upto(0)
    BY <1>10
  <2>2. g[0] = v0
    BY <2>1
  <2> HIDE DEF Upto, h
  <2> QED
    BY <1>6, <2>1, <2>2
<1>9. ASSUME NEW n \in Nat PROVE h[n + 1] = step[<<n, h[n]>>]
  <2>1. n + 1 \in Nat
    OBVIOUS
  <2>2. PICK g : g \in Upto(n + 1)
    BY <1>10, <2>1
  <2>3. PICK k : k \in Upto(n)
    BY <1>10
  <2>4. n \in 0..((n + 1) - 1) /\ n <= n + 1 /\ n <= n
    OBVIOUS
  <2>5. g[n + 1] = step[<<n, g[n]>>]
    BY <2>2, <2>4
  <2> HIDE DEF Upto, h
  <2>6. g[n] = k[n]
    BY <1>11, <2>1, <2>2, <2>3, <2>4
  <2>7. h[n + 1] = g[n + 1] /\ h[n] = k[n]
    BY <1>6, <2>1, <2>2, <2>3
  <2> QED
    BY <2>5, <2>6, <2>7
<1> HIDE DEF h
<1>12. Repeats(h, V, v0, step)
  BY <1>7, <1>8, <1>9 DEF Repeats
<1> QED
  BY <1>12

(* Groups: the findings reached from one.                                   *)
LEMMA GrownFact ==
  ASSUME NEW fs, NEW near, \A g \in fs : near[g] \subseteq fs, NEW f \in fs
  PROVE  /\ Grown(near, f, 0) = {f}
         /\ \A n \in Nat : /\ Grown(near, f, n) \subseteq fs
                           /\ Grown(near, f, n + 1) = UNION {near[g] : g \in Grown(near, f, n)}
<1> DEFINE V == SUBSET fs
           step == [x \in Nat \X V |-> UNION {near[g] : g \in x[2]}]
<1>1. \A n \in Nat, v \in V : step[<<n, v>>] = UNION {near[g] : g \in v}
  OBVIOUS
<1>2. {f} \in V /\ StepsIn(step, V)
  BY DEF StepsIn
<1> HIDE DEF step, V
<1>3. PICK h : Repeats(h, V, {f}, step)
  BY <1>2, Iterates
<1>4. h = [i \in Nat |-> IF i = 0 THEN {f} ELSE UNION {near[g] : g \in h[i - 1]}]
  <2>1. ASSUME NEW i \in Nat PROVE h[i] = IF i = 0 THEN {f} ELSE UNION {near[g] : g \in h[i - 1]}
    <3>1. CASE i = 0
      BY <1>3, <3>1 DEF Repeats
    <3>2. CASE i # 0
      <4>1. i - 1 \in Nat /\ (i - 1) + 1 = i
        BY <3>2
      <4>2. h[i] = step[<<i - 1, h[i - 1]>>] /\ h[i - 1] \in V
        BY <1>3, <4>1 DEF Repeats
      <4> QED
        BY <1>1, <3>2, <4>1, <4>2
    <3> QED
      BY <3>1, <3>2
  <2> QED
    BY <2>1, <1>3 DEF Repeats
<1> DEFINE grown[i \in Nat] == IF i = 0 THEN {f} ELSE UNION {near[g] : g \in grown[i - 1]}
<1>5. grown = [i \in Nat |-> IF i = 0 THEN {f} ELSE UNION {near[g] : g \in grown[i - 1]}]
  BY <1>4
<1>6. \A n : Grown(near, f, n) = grown[n]
  BY DEF Grown
<1> HIDE DEF grown
<1>7. grown[0] = {f} /\ \A n \in Nat : grown[n + 1] = UNION {near[g] : g \in grown[n]}
  <2>1. \A i \in Nat : grown[i] = IF i = 0 THEN {f} ELSE UNION {near[g] : g \in grown[i - 1]}
    BY <1>5
  <2>2. \A n \in Nat : n + 1 \in Nat /\ n + 1 # 0 /\ (n + 1) - 1 = n
    OBVIOUS
  <2> QED
    BY <2>1, <2>2
<1> DEFINE T == {n \in Nat : grown[n] \subseteq fs}
<1>8. 0 \in T /\ \A n \in Nat : n \in T => n + 1 \in T
  BY <1>7
<1>9. Nat \subseteq T
  <2> HIDE DEF T
  <2> QED
    BY <1>8, Induct
<1> QED
  BY <1>6, <1>7, <1>9

(* Within as many rounds as there are findings nothing more is reached.     *)
LEMMA GrownIsClosed ==
  ASSUME NEW fs, IsFiniteSet(fs), NEW near, \A g \in fs : near[g] \subseteq fs /\ g \in near[g],
      NEW f \in fs
  PROVE  LET grp == Grown(near, f, Cardinality(fs))
         IN f \in grp /\ grp \subseteq fs /\ \A g \in grp : near[g] \subseteq grp
<1> DEFINE at == [n \in Nat |-> Grown(near, f, n)]
           Closed(n) == \A g \in at[n] : near[g] \subseteq at[n]
           T == {n \in Nat : Closed(n) \/ Cardinality(at[n]) >= n + 1}
           U == {n \in Nat : f \in at[n]}
<1>0. \A g \in fs : near[g] \subseteq fs
  OBVIOUS
<1>1. at[0] = {f} /\ \A n \in Nat : at[n] \subseteq fs /\ at[n + 1] = UNION {near[g] : g \in at[n]}
  <2>1. \A n \in Nat : at[n] = Grown(near, f, n) /\ n + 1 \in Nat
    OBVIOUS
  <2>2. 0 \in Nat
    OBVIOUS
  <2> HIDE DEF at
  <2>3. /\ Grown(near, f, 0) = {f}
        /\ \A n \in Nat : /\ Grown(near, f, n) \subseteq fs
                          /\ Grown(near, f, n + 1) = UNION {near[g] : g \in Grown(near, f, n)}
    BY <1>0, GrownFact
  <2> QED
    BY <2>1, <2>2, <2>3
<1> HIDE DEF at
<1>2. \A n \in Nat : IsFiniteSet(at[n]) /\ Cardinality(at[n]) \in Nat
    /\ Cardinality(at[n]) <= Cardinality(fs)
  BY <1>1, FS_Subset, FS_CardinalityType
<1>3. \A n \in Nat : at[n] \subseteq at[n + 1]
  BY <1>1
<1>4. 0 \in T
  BY <1>1, FS_Singleton
<1>5. ASSUME NEW n \in Nat, n \in T PROVE n + 1 \in T
  <2>1. CASE Closed(n)
    <3>1. at[n + 1] \subseteq at[n]
      <4>1. at[n + 1] = UNION {near[g] : g \in at[n]}
        BY <1>1
      <4>2. \A g \in at[n] : near[g] \subseteq at[n]
        BY <2>1
      <4> QED
        BY <4>1, <4>2
    <3>2. at[n + 1] = at[n]
      BY <1>3, <3>1
    <3> QED
      BY <2>1, <3>2
  <2>2. CASE ~Closed(n)
    <3>1. PICK g \in at[n] : \E x \in near[g] : x \notin at[n]
      BY <2>2
    <3>2. PICK x \in near[g] : x \notin at[n]
      BY <3>1
    <3>3. x \in at[n + 1]
      BY <1>1
    <3>4. at[n] \cup {x} \subseteq at[n + 1]
      BY <1>3, <3>3
    <3>5. Cardinality(at[n] \cup {x}) = Cardinality(at[n]) + 1
      BY <1>2, <3>2, FS_AddElement
    <3>6. Cardinality(at[n] \cup {x}) <= Cardinality(at[n + 1])
      <4>1. n + 1 \in Nat
        OBVIOUS
      <4>2. IsFiniteSet(at[n + 1])
        BY <1>2, <4>1
      <4> QED
        BY <3>4, <4>2, FS_Subset
    <3>7. Cardinality(at[n]) \in Nat /\ Cardinality(at[n + 1]) \in Nat /\ Cardinality(at[n]) >= n + 1
      BY <1>2, <1>5, <2>2
    <3>8. Cardinality(at[n + 1]) >= (n + 1) + 1
      BY <3>5, <3>6, <3>7
    <3> QED
      BY <3>8
  <2> QED
    BY <2>1, <2>2
<1>6. Nat \subseteq T
  <2> HIDE DEF T
  <2> QED
    BY <1>4, <1>5, Induct
<1>7. 0 \in U /\ \A n \in Nat : n \in U => n + 1 \in U
  BY <1>1, <1>3
<1>8. Nat \subseteq U
  <2> HIDE DEF U
  <2> QED
    BY <1>7, Induct
<1> DEFINE N == Cardinality(fs)
<1>9. N \in Nat
  BY FS_CardinalityType
<1>10. Closed(N)
  <2>1. Closed(N) \/ Cardinality(at[N]) >= N + 1
    BY <1>6, <1>9
  <2>2. Cardinality(at[N]) \in Nat /\ Cardinality(at[N]) <= N
    BY <1>2, <1>9
  <2> QED
    BY <2>1, <2>2, <1>9
<1>11. f \in at[N] /\ at[N] \subseteq fs
  BY <1>1, <1>8, <1>9
<1>12. at[N] = Grown(near, f, N)
  BY <1>9 DEF at
<1> QED
  BY <1>10, <1>11, <1>12

(* A set closed under "near" is not left.                                   *)
LEMMA GrownStaysIn ==
  ASSUME NEW fs, NEW near, \A g \in fs : near[g] \subseteq fs, NEW f \in fs,
         NEW Q \in SUBSET fs, f \in Q, \A g \in Q : near[g] \subseteq Q
  PROVE  \A n \in Nat : Grown(near, f, n) \subseteq Q
<1> DEFINE T == {n \in Nat : Grown(near, f, n) \subseteq Q}
<1>1. 0 \in T /\ \A n \in Nat : n \in T => n + 1 \in T
  BY GrownFact
<1>2. Nat \subseteq T
  <2> HIDE DEF T
  <2> QED
    BY <1>1, Induct
<1> QED
  BY <1>2

(* Touching is mutual.                                                      *)
LEMMA TouchingFact ==
  ASSUME NEW s, NEW fs
  PROVE  \A f \in fs : /\ Touching(s, fs)[f] = {g \in fs : TouchKeys(s, f) \cap TouchKeys(s, g) # {}}
                       /\ Touching(s, fs)[f] \subseteq fs /\ f \in Touching(s, fs)[f]
<1>1. \A f : f.res \in TouchKeys(s, f)
  BY DEF TouchKeys
<1> QED
  BY <1>1 DEF Touching

(* The groups: not empty, within the findings, closed under touching.       *)
LEMMA GroupFacts ==
  ASSUME NEW s, NEW fs, IsFiniteSet(fs), NEW grp \in Groups(s, fs)
  PROVE  /\ grp \subseteq fs /\ grp # {} /\ IsFiniteSet(grp)
         /\ \A f \in grp, g \in fs : TouchKeys(s, f) \cap TouchKeys(s, g) # {} => g \in grp
<1> DEFINE near == Touching(s, fs)
<1>1. PICK f \in fs : grp = Grown(near, f, Cardinality(fs))
  BY DEF Groups
<1>2. \A g \in fs : /\ near[g] = {h \in fs : TouchKeys(s, g) \cap TouchKeys(s, h) # {}}
                    /\ near[g] \subseteq fs /\ g \in near[g]
  BY TouchingFact
<1> HIDE DEF near
<1>3. f \in grp /\ grp \subseteq fs /\ \A g \in grp : near[g] \subseteq grp
  BY <1>1, <1>2, GrownIsClosed
<1>4. IsFiniteSet(grp)
  BY <1>3, FS_Subset
<1> QED
  BY <1>2, <1>3, <1>4

(* Whatever is touched is of one of these kinds, or the finding's own.      *)
LEMMA KeysOf ==
  ASSUME NEW s, ObjectsTyped(s.obj), NEW f, IsThere(s, f.res), NEW k \in TouchKeys(s, f)
  PROVE  k = f.res \/ Kind(k) \in Workloads \cup {"Pod", "Node", "PVC", "PV", "Service", "Ingress"}
<1> DEFINE r == f.res
           kinds == Workloads \cup {"Pod", "Node", "PVC", "PV", "Service", "Ingress"}
           users(c) == {c} \cup PodsOfPVC(s, c)
<1> SUFFICES ASSUME k # r PROVE Kind(k) \in kinds
  OBVIOUS
<1>1. \A p \in Of(s, "Pod") : p \in DOMAIN s.obj /\ Kind(p) = "Pod"
  BY DEF Of
<1>2. CASE Kind(r) = "Pod" /\ Has(s, r)
  <2>1. k \in (ToSet(OwnerChain(s, r)) \cup {At(s, r).node, At(s, r).pvc} \cup ServicesOfPod(s,
      r)) \ {None}
    <3> DEFINE mine == (ToSet(OwnerChain(s, r)) \cup {At(s, r).node, At(s, r).pvc} \cup ServicesOfPod(s,
        r)) \ {None}
    <3>1. TouchKeys(s, f) = {r} \cup mine
      BY <1>2 DEF TouchKeys, Workloads
    <3> HIDE DEF mine
    <3>2. k \in mine
      BY <3>1
    <3> QED
      BY <3>2 DEF mine
  <2>2. At(s, r).node \in Reference({"Node"}) /\ At(s, r).pvc \in Reference({"PVC"})
    BY <1>2 DEF ObjectsTyped, Has, At
  <2>3. CASE k \in ToSet(OwnerChain(s, r))
    <3> DEFINE up(x) == IF At(s, x).owner \in OfKinds(s, Workloads) THEN <<At(s, x).owner>> ELSE <<>>
    <3>1. \A x : up(x) = <<>> \/ (At(s, x).owner \in OfKinds(s, Workloads) /\ up(x) = <<At(s,
        x).owner>>)
      OBVIOUS
    <3>2. OwnerChain(s, r) = IF up(r) = <<>> THEN <<>> ELSE up(r) \o up(up(r)[1])
      BY DEF OwnerChain
    <3> HIDE DEF up
    <3>3. \A x : up(x) \in Seq(OfKinds(s, Workloads))
      <4> DEFINE W == OfKinds(s, Workloads)
      <4>1. \A y \in W : <<y>> \in Seq(W)
        OBVIOUS
      <4>2. <<>> \in Seq(W)
        OBVIOUS
      <4> QED
        BY <3>1, <4>1, <4>2
    <3>5. OwnerChain(s, r) \in Seq(OfKinds(s, Workloads))
      <4> DEFINE a == up(r)
                 b == up(up(r)[1])
      <4>1. a \in Seq(OfKinds(s, Workloads)) /\ b \in Seq(OfKinds(s, Workloads))
        BY <3>3
      <4>2. OwnerChain(s, r) = IF a = <<>> THEN <<>> ELSE a \o b
        BY <3>2
      <4> HIDE DEF a, b
      <4> QED
        BY <4>1, <4>2
    <3>4. k \in OfKinds(s, Workloads)
      BY <2>3, <3>5 DEF ToSet
    <3> QED
      BY <3>4 DEF OfKinds
  <2>4. CASE k \in {At(s, r).node, At(s, r).pvc} \ {None}
    BY <2>2, <2>4 DEF Reference, Kind
  <2>5. CASE k \in ServicesOfPod(s, r)
    BY <2>5 DEF ServicesOfPod, Of
  <2> QED
    BY <2>1, <2>3, <2>4, <2>5
<1>3. CASE Kind(r) \in Workloads
  <2>1. k \in PodsOfWorkload(s, r)
    BY <1>3 DEF TouchKeys, Workloads
  <2> QED
    BY <2>1 DEF PodsOfWorkload, Of
<1>4. CASE Kind(r) = "Service"
  <2>1. k \in PodsOfService(s, r) \cup IngressesOfService(s, r)
    BY <1>4 DEF TouchKeys, Workloads
  <2> QED
    BY <2>1 DEF PodsOfService, IngressesOfService, Of
<1>5. CASE Kind(r) = "Ingress"
  <2>1. k \in BackendsOf(s, r)
    BY <1>5 DEF TouchKeys, Workloads
  <2>2. At(s, r).backends \in Seq({"Service"} \X Nat)
    BY <1>5 DEF ObjectsTyped, At, IsThere, Kind
  <2>3. k \in {"Service"} \X Nat
    BY <2>1, <2>2 DEF BackendsOf, ToSet
  <2> QED
    BY <2>3 DEF Kind
<1>6. CASE Kind(r) = "Node"
  <2>1. k \in PodsOfNode(s, r)
    BY <1>6 DEF TouchKeys, Workloads
  <2> QED
    BY <2>1 DEF PodsOfNode, Of
<1>7. CASE Kind(r) = "PVC"
  <2>1. k \in PodsOfPVC(s, r)
    BY <1>7 DEF TouchKeys, Workloads
  <2> QED
    BY <2>1 DEF PodsOfPVC, Of
<1>8. CASE Kind(r) = "PV"
  <2>1. PICK c \in Of(s, "PVC") : k \in users(c)
    BY <1>8 DEF TouchKeys, Workloads
  <2> QED
    BY <2>1 DEF PodsOfPVC, Of
<1>9. CASE Kind(r) = "StorageClass"
  <2>1. PICK c \in OfKinds(s, {"PVC", "PV"}) : k \in users(c)
    BY <1>9 DEF TouchKeys, Workloads
  <2> QED
    BY <2>1 DEF PodsOfPVC, Of, OfKinds
<1>10. CASE /\ ~(Kind(r) = "Pod" /\ Has(s, r))
            /\ Kind(r) \notin Workloads \cup {"Service", "Ingress", "Node", "PVC", "PV", "StorageClass"}
  BY <1>10 DEF TouchKeys
<1> QED
  BY <1>2, <1>3, <1>4, <1>5, <1>6, <1>7, <1>8, <1>9, <1>10

(* The group of an HPA's finding has findings on that HPA only.             *)
LEMMA HpaGroup ==
  ASSUME NEW s, ObjectsTyped(s.obj), NEW fs, IsFiniteSet(fs), \A f \in fs : IsThere(s, f.res),
         NEW grp \in Groups(s, fs), NEW f \in grp, Kind(f.res) = "HPA"
  PROVE  \A g \in grp : g.res = f.res
<1> DEFINE near == Touching(s, fs)
           Q == {g \in fs : g.res = f.res}
           R == {g \in fs : g.res # f.res}
<1>1. PICK h \in fs : grp = Grown(near, h, Cardinality(fs))
  BY DEF Groups
<1>2. \A g \in fs : /\ near[g] = {x \in fs : TouchKeys(s, g) \cap TouchKeys(s, x) # {}}
                    /\ near[g] \subseteq fs /\ g \in near[g]
  BY TouchingFact
<1>3. ASSUME NEW g \in Q PROVE TouchKeys(s, g) = {f.res}
  BY <1>3 DEF TouchKeys, Workloads
<1>4. ASSUME NEW x \in fs, f.res \in TouchKeys(s, x) PROVE x \in Q
  BY <1>4, KeysOf DEF Workloads
<1>5. \A g \in Q : near[g] \subseteq Q
  BY <1>2, <1>3, <1>4
<1>6. \A g \in R : near[g] \subseteq R
  BY <1>2, <1>3, <1>4
<1>7. Cardinality(fs) \in Nat /\ f \in fs
  BY FS_CardinalityType, GroupFacts
<1> HIDE DEF near
<1>8. CASE h \in Q
  <2>1. Q \in SUBSET fs
    OBVIOUS
  <2> HIDE DEF Q
  <2>2. grp \subseteq Q
    BY <1>1, <1>2, <1>5, <1>7, <1>8, <2>1, GrownStaysIn
  <2> QED
    BY <2>2 DEF Q
<1>9. CASE h \notin Q
  <2>1. R \in SUBSET fs /\ h \in R
    BY <1>9
  <2> HIDE DEF R
  <2>2. grp \subseteq R
    BY <1>1, <1>2, <1>6, <1>7, <2>1, GrownStaysIn
  <2> QED
    BY <2>2 DEF R
<1> QED
  BY <1>8, <1>9

(*****************************************************************************)
(* The table of causes, and the root of a group: MaxCausalHops hops and the  *)
(* one at the end of PickRoot are enough, whatever the findings.             *)
(*****************************************************************************)

(* The table of causes, as sets.                                            *)
CauseSet(rule) == ToSet(CausalCauses(rule))

LEMMA CauseTable ==
  /\ \A rule : CausalCauses(rule) \in Seq(RuleNames)
  /\ CauseSet("PendingPod") = {"NodeNotReady", "NodeDiskPressure", "NodeMemoryPressure",
      "NodePIDPressure", "PVCPending", "FailedMount", "StorageClassNoProvisioner", "PdbBlocking",
      "ImagePullBackOff", "ConfigRefNotFound"}
  /\ CauseSet("FailedMount") = {"PVCPending", "PVFailed", "StorageClassNoProvisioner",
      "VolumeAttachmentStuck"}
  /\ CauseSet("ContainerCreateError") = {"PVCPending", "FailedMount", "NodeNotReady"}
  /\ CauseSet("CrashLoopBackOff") = {"OOMKilled", "Unhealthy", "ConfigRefNotFound"}
  /\ CauseSet("ContainerHealthTimeout") = {"ConfigRefNotFound", "NodeNotReady"}
  /\ CauseSet("HighRestartCount") = {"OOMKilled", "CrashLoopBackOff", "Unhealthy"}
  /\ CauseSet("EvictedPod") = {"NodeDiskPressure", "NodeMemoryPressure", "NodePIDPressure",
      "NodeNotReady"}
  /\ CauseSet("DeploymentReplica") = {"PendingPod", "CrashLoopBackOff", "ImagePullBackOff", "Unhealthy",
      "ConfigRefNotFound", "PdbBlocking", "NodeNotReady", "ContainerCreateError"}
  /\ CauseSet("StatefulSetReplica") = {"PendingPod", "CrashLoopBackOff", "ImagePullBackOff",
      "PVCPending", "Unhealthy", "ContainerCreateError"}
  /\ CauseSet("DaemonSetReplica") = {"NodeNotReady", "PendingPod", "ImagePullBackOff", "Unhealthy"}
  /\ CauseSet("JobFailed") = {"OOMKilled", "ImagePullBackOff", "PendingPod", "FailedMount",
      "ConfigRefNotFound"}
  /\ CauseSet("ServiceNoEndpoint") = {"PendingPod", "CrashLoopBackOff", "Unhealthy", "ImagePullBackOff",
      "DeploymentReplica", "StatefulSetReplica", "ContainerHealthTimeout"}
  /\ CauseSet("IngressBackend") = {"ServiceNoEndpoint", "ConfigRefNotFound"}
  /\ CauseSet("HpaReplicasMismatch") = {"PendingPod", "CrashLoopBackOff", "ImagePullBackOff",
      "DeploymentReplica"}
  /\ CauseSet("HpaScaleTargetMissing") = {"ConfigRefNotFound"}
  /\ CauseSet("PVCPending") = {"StorageClassNoProvisioner"}
  /\ CauseSet("PVFailed") = {"StorageClassNoProvisioner", "VolumeAttachmentStuck"}
  /\ CauseSet("VolumeAttachmentStuck") = {"NodeNotReady"}
  /\ CauseSet("Unhealthy") = {"ConfigRefNotFound", "OOMKilled"}
  /\ \A rule : rule \notin {"PendingPod", "FailedMount", "ContainerCreateError", "CrashLoopBackOff",
      "ContainerHealthTimeout", "HighRestartCount", "EvictedPod", "DeploymentReplica",
      "StatefulSetReplica", "DaemonSetReplica", "JobFailed", "ServiceNoEndpoint", "IngressBackend",
      "HpaReplicasMismatch", "HpaScaleTargetMissing", "PVCPending", "PVFailed", "VolumeAttachmentStuck",
      "Unhealthy"}
       => CauseSet(rule) = {}
<1>0. RuleNames = {"CrashLoopBackOff", "OOMKilled", "ImagePullBackOff", "PendingPod", "PodTerminating",
    "EvictedPod", "HighRestartCount", "ContainerCreateError", "Unhealthy", "IngressBackend",
    "NodeNotReady", "NodeDiskPressure", "NodeMemoryPressure", "NodePIDPressure", "PVCPending",
    "PVFailed", "FailedMount", "ServiceNoEndpoint", "DeploymentReplica", "StatefulSetReplica",
    "DaemonSetReplica", "DeploymentProgressDeadline", "JobFailed", "CronJobSuspended",
    "DeploymentOverReplicas", "NetworkPolicyNoDefaultDeny", "IngressHostConflict",
    "VolumeAttachmentStuck", "StorageClassNoProvisioner", "ContainerHealthTimeout",
    "HpaReplicasMismatch", "HpaScaleTargetMissing", "PdbBlocking", "RbacOverPrivileged",
    "ConfigRefNotFound"}
  BY DEF RuleNames, RuleOrder
<1>1. CausalCauses("PendingPod") \in Seq(RuleNames) /\ CauseSet("PendingPod") = {"NodeNotReady",
    "NodeDiskPressure", "NodeMemoryPressure", "NodePIDPressure", "PVCPending", "FailedMount",
    "StorageClassNoProvisioner", "PdbBlocking", "ImagePullBackOff", "ConfigRefNotFound"}
  <2>1. CausalCauses("PendingPod") = <<"NodeNotReady", "NodeDiskPressure", "NodeMemoryPressure",
      "NodePIDPressure", "PVCPending", "FailedMount", "StorageClassNoProvisioner", "PdbBlocking",
      "ImagePullBackOff", "ConfigRefNotFound">>
    BY DEF CausalCauses
  <2>2. <<"NodeNotReady", "NodeDiskPressure", "NodeMemoryPressure", "NodePIDPressure", "PVCPending",
      "FailedMount", "StorageClassNoProvisioner", "PdbBlocking", "ImagePullBackOff",
      "ConfigRefNotFound">> \in Seq(RuleNames)
    BY <1>0
  <2>3. ToSet(<<"NodeNotReady", "NodeDiskPressure", "NodeMemoryPressure", "NodePIDPressure",
      "PVCPending", "FailedMount", "StorageClassNoProvisioner", "PdbBlocking", "ImagePullBackOff",
      "ConfigRefNotFound">>) = {"NodeNotReady", "NodeDiskPressure", "NodeMemoryPressure",
      "NodePIDPressure", "PVCPending", "FailedMount", "StorageClassNoProvisioner", "PdbBlocking",
      "ImagePullBackOff", "ConfigRefNotFound"}
    BY DEF ToSet
  <2> QED
    BY <2>1, <2>2, <2>3 DEF CauseSet
<1>2. CausalCauses("FailedMount") \in Seq(RuleNames) /\ CauseSet("FailedMount") = {"PVCPending",
    "PVFailed", "StorageClassNoProvisioner", "VolumeAttachmentStuck"}
  <2>1. CausalCauses("FailedMount") = <<"PVCPending", "PVFailed", "StorageClassNoProvisioner",
      "VolumeAttachmentStuck">>
    BY DEF CausalCauses
  <2>2. <<"PVCPending", "PVFailed", "StorageClassNoProvisioner",
      "VolumeAttachmentStuck">> \in Seq(RuleNames)
    BY <1>0
  <2>3. ToSet(<<"PVCPending", "PVFailed", "StorageClassNoProvisioner",
      "VolumeAttachmentStuck">>) = {"PVCPending", "PVFailed", "StorageClassNoProvisioner",
      "VolumeAttachmentStuck"}
    BY DEF ToSet
  <2> QED
    BY <2>1, <2>2, <2>3 DEF CauseSet
<1>3. CausalCauses("ContainerCreateError") \in Seq(RuleNames)
    /\ CauseSet("ContainerCreateError") = {"PVCPending", "FailedMount", "NodeNotReady"}
  <2>1. CausalCauses("ContainerCreateError") = <<"PVCPending", "FailedMount", "NodeNotReady">>
    BY DEF CausalCauses
  <2>2. <<"PVCPending", "FailedMount", "NodeNotReady">> \in Seq(RuleNames)
    BY <1>0
  <2>3. ToSet(<<"PVCPending", "FailedMount", "NodeNotReady">>) = {"PVCPending", "FailedMount",
      "NodeNotReady"}
    BY DEF ToSet
  <2> QED
    BY <2>1, <2>2, <2>3 DEF CauseSet
<1>4. CausalCauses("CrashLoopBackOff") \in Seq(RuleNames)
    /\ CauseSet("CrashLoopBackOff") = {"OOMKilled", "Unhealthy", "ConfigRefNotFound"}
  <2>1. CausalCauses("CrashLoopBackOff") = <<"OOMKilled", "Unhealthy", "ConfigRefNotFound">>
    BY DEF CausalCauses
  <2>2. <<"OOMKilled", "Unhealthy", "ConfigRefNotFound">> \in Seq(RuleNames)
    BY <1>0
  <2>3. ToSet(<<"OOMKilled", "Unhealthy", "ConfigRefNotFound">>) = {"OOMKilled", "Unhealthy",
      "ConfigRefNotFound"}
    BY DEF ToSet
  <2> QED
    BY <2>1, <2>2, <2>3 DEF CauseSet
<1>5. CausalCauses("ContainerHealthTimeout") \in Seq(RuleNames)
    /\ CauseSet("ContainerHealthTimeout") = {"ConfigRefNotFound", "NodeNotReady"}
  <2>1. CausalCauses("ContainerHealthTimeout") = <<"ConfigRefNotFound", "NodeNotReady">>
    BY DEF CausalCauses
  <2>2. <<"ConfigRefNotFound", "NodeNotReady">> \in Seq(RuleNames)
    BY <1>0
  <2>3. ToSet(<<"ConfigRefNotFound", "NodeNotReady">>) = {"ConfigRefNotFound", "NodeNotReady"}
    BY DEF ToSet
  <2> QED
    BY <2>1, <2>2, <2>3 DEF CauseSet
<1>6. CausalCauses("HighRestartCount") \in Seq(RuleNames)
    /\ CauseSet("HighRestartCount") = {"OOMKilled", "CrashLoopBackOff", "Unhealthy"}
  <2>1. CausalCauses("HighRestartCount") = <<"OOMKilled", "CrashLoopBackOff", "Unhealthy">>
    BY DEF CausalCauses
  <2>2. <<"OOMKilled", "CrashLoopBackOff", "Unhealthy">> \in Seq(RuleNames)
    BY <1>0
  <2>3. ToSet(<<"OOMKilled", "CrashLoopBackOff", "Unhealthy">>) = {"OOMKilled", "CrashLoopBackOff",
      "Unhealthy"}
    BY DEF ToSet
  <2> QED
    BY <2>1, <2>2, <2>3 DEF CauseSet
<1>7. CausalCauses("EvictedPod") \in Seq(RuleNames) /\ CauseSet("EvictedPod") = {"NodeDiskPressure",
    "NodeMemoryPressure", "NodePIDPressure", "NodeNotReady"}
  <2>1. CausalCauses("EvictedPod") = <<"NodeDiskPressure", "NodeMemoryPressure", "NodePIDPressure",
      "NodeNotReady">>
    BY DEF CausalCauses
  <2>2. <<"NodeDiskPressure", "NodeMemoryPressure", "NodePIDPressure",
      "NodeNotReady">> \in Seq(RuleNames)
    BY <1>0
  <2>3. ToSet(<<"NodeDiskPressure", "NodeMemoryPressure", "NodePIDPressure",
      "NodeNotReady">>) = {"NodeDiskPressure", "NodeMemoryPressure", "NodePIDPressure", "NodeNotReady"}
    BY DEF ToSet
  <2> QED
    BY <2>1, <2>2, <2>3 DEF CauseSet
<1>8. CausalCauses("DeploymentReplica") \in Seq(RuleNames)
    /\ CauseSet("DeploymentReplica") = {"PendingPod", "CrashLoopBackOff", "ImagePullBackOff",
       "Unhealthy", "ConfigRefNotFound", "PdbBlocking", "NodeNotReady", "ContainerCreateError"}
  <2>1. CausalCauses("DeploymentReplica") = <<"PendingPod", "CrashLoopBackOff", "ImagePullBackOff",
      "Unhealthy", "ConfigRefNotFound", "PdbBlocking", "NodeNotReady", "ContainerCreateError">>
    BY DEF CausalCauses
  <2>2. <<"PendingPod", "CrashLoopBackOff", "ImagePullBackOff", "Unhealthy", "ConfigRefNotFound",
      "PdbBlocking", "NodeNotReady", "ContainerCreateError">> \in Seq(RuleNames)
    BY <1>0
  <2>3. ToSet(<<"PendingPod", "CrashLoopBackOff", "ImagePullBackOff", "Unhealthy", "ConfigRefNotFound",
      "PdbBlocking", "NodeNotReady", "ContainerCreateError">>) = {"PendingPod", "CrashLoopBackOff",
      "ImagePullBackOff", "Unhealthy", "ConfigRefNotFound", "PdbBlocking", "NodeNotReady",
      "ContainerCreateError"}
    BY DEF ToSet
  <2> QED
    BY <2>1, <2>2, <2>3 DEF CauseSet
<1>9. CausalCauses("StatefulSetReplica") \in Seq(RuleNames)
    /\ CauseSet("StatefulSetReplica") = {"PendingPod", "CrashLoopBackOff", "ImagePullBackOff",
       "PVCPending", "Unhealthy", "ContainerCreateError"}
  <2>1. CausalCauses("StatefulSetReplica") = <<"PendingPod", "CrashLoopBackOff", "ImagePullBackOff",
      "PVCPending", "Unhealthy", "ContainerCreateError">>
    BY DEF CausalCauses
  <2>2. <<"PendingPod", "CrashLoopBackOff", "ImagePullBackOff", "PVCPending", "Unhealthy",
      "ContainerCreateError">> \in Seq(RuleNames)
    BY <1>0
  <2>3. ToSet(<<"PendingPod", "CrashLoopBackOff", "ImagePullBackOff", "PVCPending", "Unhealthy",
      "ContainerCreateError">>) = {"PendingPod", "CrashLoopBackOff", "ImagePullBackOff", "PVCPending",
      "Unhealthy", "ContainerCreateError"}
    BY DEF ToSet
  <2> QED
    BY <2>1, <2>2, <2>3 DEF CauseSet
<1>10. CausalCauses("DaemonSetReplica") \in Seq(RuleNames)
    /\ CauseSet("DaemonSetReplica") = {"NodeNotReady", "PendingPod", "ImagePullBackOff", "Unhealthy"}
  <2>1. CausalCauses("DaemonSetReplica") = <<"NodeNotReady", "PendingPod", "ImagePullBackOff",
      "Unhealthy">>
    BY DEF CausalCauses
  <2>2. <<"NodeNotReady", "PendingPod", "ImagePullBackOff", "Unhealthy">> \in Seq(RuleNames)
    BY <1>0
  <2>3. ToSet(<<"NodeNotReady", "PendingPod", "ImagePullBackOff", "Unhealthy">>) = {"NodeNotReady",
      "PendingPod", "ImagePullBackOff", "Unhealthy"}
    BY DEF ToSet
  <2> QED
    BY <2>1, <2>2, <2>3 DEF CauseSet
<1>11. CausalCauses("JobFailed") \in Seq(RuleNames) /\ CauseSet("JobFailed") = {"OOMKilled",
    "ImagePullBackOff", "PendingPod", "FailedMount", "ConfigRefNotFound"}
  <2>1. CausalCauses("JobFailed") = <<"OOMKilled", "ImagePullBackOff", "PendingPod", "FailedMount",
      "ConfigRefNotFound">>
    BY DEF CausalCauses
  <2>2. <<"OOMKilled", "ImagePullBackOff", "PendingPod", "FailedMount",
      "ConfigRefNotFound">> \in Seq(RuleNames)
    BY <1>0
  <2>3. ToSet(<<"OOMKilled", "ImagePullBackOff", "PendingPod", "FailedMount",
      "ConfigRefNotFound">>) = {"OOMKilled", "ImagePullBackOff", "PendingPod", "FailedMount",
      "ConfigRefNotFound"}
    BY DEF ToSet
  <2> QED
    BY <2>1, <2>2, <2>3 DEF CauseSet
<1>12. CausalCauses("ServiceNoEndpoint") \in Seq(RuleNames)
    /\ CauseSet("ServiceNoEndpoint") = {"PendingPod", "CrashLoopBackOff", "Unhealthy",
       "ImagePullBackOff", "DeploymentReplica", "StatefulSetReplica", "ContainerHealthTimeout"}
  <2>1. CausalCauses("ServiceNoEndpoint") = <<"PendingPod", "CrashLoopBackOff", "Unhealthy",
      "ImagePullBackOff", "DeploymentReplica", "StatefulSetReplica", "ContainerHealthTimeout">>
    BY DEF CausalCauses
  <2>2. <<"PendingPod", "CrashLoopBackOff", "Unhealthy", "ImagePullBackOff", "DeploymentReplica",
      "StatefulSetReplica", "ContainerHealthTimeout">> \in Seq(RuleNames)
    BY <1>0
  <2>3. ToSet(<<"PendingPod", "CrashLoopBackOff", "Unhealthy", "ImagePullBackOff", "DeploymentReplica",
      "StatefulSetReplica", "ContainerHealthTimeout">>) = {"PendingPod", "CrashLoopBackOff",
      "Unhealthy", "ImagePullBackOff", "DeploymentReplica", "StatefulSetReplica",
      "ContainerHealthTimeout"}
    BY DEF ToSet
  <2> QED
    BY <2>1, <2>2, <2>3 DEF CauseSet
<1>13. CausalCauses("IngressBackend") \in Seq(RuleNames)
    /\ CauseSet("IngressBackend") = {"ServiceNoEndpoint", "ConfigRefNotFound"}
  <2>1. CausalCauses("IngressBackend") = <<"ServiceNoEndpoint", "ConfigRefNotFound">>
    BY DEF CausalCauses
  <2>2. <<"ServiceNoEndpoint", "ConfigRefNotFound">> \in Seq(RuleNames)
    BY <1>0
  <2>3. ToSet(<<"ServiceNoEndpoint", "ConfigRefNotFound">>) = {"ServiceNoEndpoint", "ConfigRefNotFound"}
    BY DEF ToSet
  <2> QED
    BY <2>1, <2>2, <2>3 DEF CauseSet
<1>14. CausalCauses("HpaReplicasMismatch") \in Seq(RuleNames)
    /\ CauseSet("HpaReplicasMismatch") = {"PendingPod", "CrashLoopBackOff", "ImagePullBackOff",
       "DeploymentReplica"}
  <2>1. CausalCauses("HpaReplicasMismatch") = <<"PendingPod", "CrashLoopBackOff", "ImagePullBackOff",
      "DeploymentReplica">>
    BY DEF CausalCauses
  <2>2. <<"PendingPod", "CrashLoopBackOff", "ImagePullBackOff", "DeploymentReplica">> \in Seq(RuleNames)
    BY <1>0
  <2>3. ToSet(<<"PendingPod", "CrashLoopBackOff", "ImagePullBackOff",
      "DeploymentReplica">>) = {"PendingPod", "CrashLoopBackOff", "ImagePullBackOff",
      "DeploymentReplica"}
    BY DEF ToSet
  <2> QED
    BY <2>1, <2>2, <2>3 DEF CauseSet
<1>15. CausalCauses("HpaScaleTargetMissing") \in Seq(RuleNames)
    /\ CauseSet("HpaScaleTargetMissing") = {"ConfigRefNotFound"}
  <2>1. CausalCauses("HpaScaleTargetMissing") = <<"ConfigRefNotFound">>
    BY DEF CausalCauses
  <2>2. <<"ConfigRefNotFound">> \in Seq(RuleNames)
    BY <1>0
  <2>3. ToSet(<<"ConfigRefNotFound">>) = {"ConfigRefNotFound"}
    BY DEF ToSet
  <2> QED
    BY <2>1, <2>2, <2>3 DEF CauseSet
<1>16. CausalCauses("PVCPending") \in Seq(RuleNames)
    /\ CauseSet("PVCPending") = {"StorageClassNoProvisioner"}
  <2>1. CausalCauses("PVCPending") = <<"StorageClassNoProvisioner">>
    BY DEF CausalCauses
  <2>2. <<"StorageClassNoProvisioner">> \in Seq(RuleNames)
    BY <1>0
  <2>3. ToSet(<<"StorageClassNoProvisioner">>) = {"StorageClassNoProvisioner"}
    BY DEF ToSet
  <2> QED
    BY <2>1, <2>2, <2>3 DEF CauseSet
<1>17. CausalCauses("PVFailed") \in Seq(RuleNames)
    /\ CauseSet("PVFailed") = {"StorageClassNoProvisioner", "VolumeAttachmentStuck"}
  <2>1. CausalCauses("PVFailed") = <<"StorageClassNoProvisioner", "VolumeAttachmentStuck">>
    BY DEF CausalCauses
  <2>2. <<"StorageClassNoProvisioner", "VolumeAttachmentStuck">> \in Seq(RuleNames)
    BY <1>0
  <2>3. ToSet(<<"StorageClassNoProvisioner", "VolumeAttachmentStuck">>) = {"StorageClassNoProvisioner",
      "VolumeAttachmentStuck"}
    BY DEF ToSet
  <2> QED
    BY <2>1, <2>2, <2>3 DEF CauseSet
<1>18. CausalCauses("VolumeAttachmentStuck") \in Seq(RuleNames)
    /\ CauseSet("VolumeAttachmentStuck") = {"NodeNotReady"}
  <2>1. CausalCauses("VolumeAttachmentStuck") = <<"NodeNotReady">>
    BY DEF CausalCauses
  <2>2. <<"NodeNotReady">> \in Seq(RuleNames)
    BY <1>0
  <2>3. ToSet(<<"NodeNotReady">>) = {"NodeNotReady"}
    BY DEF ToSet
  <2> QED
    BY <2>1, <2>2, <2>3 DEF CauseSet
<1>19. CausalCauses("Unhealthy") \in Seq(RuleNames) /\ CauseSet("Unhealthy") = {"ConfigRefNotFound",
    "OOMKilled"}
  <2>1. CausalCauses("Unhealthy") = <<"ConfigRefNotFound", "OOMKilled">>
    BY DEF CausalCauses
  <2>2. <<"ConfigRefNotFound", "OOMKilled">> \in Seq(RuleNames)
    BY <1>0
  <2>3. ToSet(<<"ConfigRefNotFound", "OOMKilled">>) = {"ConfigRefNotFound", "OOMKilled"}
    BY DEF ToSet
  <2> QED
    BY <2>1, <2>2, <2>3 DEF CauseSet
<1>20. ASSUME NEW rule, rule \notin {"PendingPod", "FailedMount", "ContainerCreateError",
    "CrashLoopBackOff", "ContainerHealthTimeout", "HighRestartCount", "EvictedPod", "DeploymentReplica",
    "StatefulSetReplica", "DaemonSetReplica", "JobFailed", "ServiceNoEndpoint", "IngressBackend",
    "HpaReplicasMismatch", "HpaScaleTargetMissing", "PVCPending", "PVFailed", "VolumeAttachmentStuck",
    "Unhealthy"}
       PROVE CausalCauses(rule) \in Seq(RuleNames) /\ CauseSet(rule) = {}
  <2>1. CausalCauses(rule) = <<>>
    BY <1>20 DEF CausalCauses
  <2> QED
    BY <2>1 DEF CauseSet, ToSet
<1> QED
  BY <1>1, <1>2, <1>3, <1>4, <1>5, <1>6, <1>7, <1>8, <1>9, <1>10, <1>11, <1>12, <1>13, <1>14, <1>15,
      <1>16, <1>17, <1>18, <1>19, <1>20

(* One hop down the table: to a cause among the findings, if there is one.  *)
LEMMA HopFact ==
  ASSUME NEW fs, \A f \in fs : Ordered(f), NEW best \in fs, NEW seen \in SUBSET RulesOf(fs)
  PROVE  LET hop == Hop(fs, best, seen)
             causes == CauseSet(best.rule) \cap (RulesOf(fs) \ seen)
         IN \/ causes = {} /\ hop = <<best, seen>>
            \/ /\ hop[1] \in fs /\ hop[1].rule \in causes
               /\ hop = <<hop[1], seen \cup {hop[1].rule}>>
<1> DEFINE q == CausalCauses(best.rule)
           causes == CauseSet(best.rule) \cap (RulesOf(fs) \ seen)
           cause == FirstOf(q, causes)
           hop == Hop(fs, best, seen)
<1>1. hop = IF causes = {} THEN <<best, seen>> ELSE <<First(ByRule(fs, cause)), seen \cup {cause}>>
  BY DEF Hop, CauseSet
<1>2. CASE causes = {}
  BY <1>1, <1>2
<1>3. CASE causes # {}
  <2>1. q \in Seq(RuleNames)
    BY CauseTable
  <2>2. \E i \in DOMAIN q : q[i] \in causes
    BY <1>3 DEF CauseSet, ToSet
  <2>3. cause \in causes
    <3>1. DOMAIN q \subseteq Nat \ {0} /\ \A i \in DOMAIN q : 1..i \subseteq DOMAIN q
      BY <2>1
    <3> HIDE DEF q, causes
    <3> QED
      BY <2>2, <3>1, FirstOfFact
  <2> HIDE DEF cause
  <2>4. ByRule(fs, cause) # {} /\ ByRule(fs, cause) \subseteq fs /\ \A f \in ByRule(fs,
      cause) : f.rule = cause
    BY <2>3 DEF ByRule, RulesOf
  <2>5. First(ByRule(fs, cause)) \in ByRule(fs, cause)
    BY <2>4, FirstFact
  <2> DEFINE f == First(ByRule(fs, cause))
  <2>6. f \in fs /\ f.rule = cause
    BY <2>4, <2>5
  <2> HIDE DEF f
  <2>7. hop = <<f, seen \cup {cause}>>
    BY <1>1, <1>3 DEF f
  <2> QED
    BY <2>3, <2>6, <2>7
<1> QED
  BY <1>2, <1>3

(* The search starts at a finding of the first rule of DomainOrder there is, *)
(* else at the worst.                                                       *)
LEMMA StartFact ==
  ASSUME NEW fs, fs # {}, \A f \in fs : Ordered(f)
  PROVE  LET start == PickRootByDomain(fs)
         IN /\ start \in fs
            /\ \/ RulesOf(fs) \cap {DomainOrder[i] : i \in 1..15} = {}
               \/ \E i \in 1..15 : start.rule = DomainOrder[i]
                   /\ \A j \in 1..(i - 1) : DomainOrder[j] \notin RulesOf(fs)
<1> DEFINE start == PickRootByDomain(fs)
           q == DomainOrder
           rule == FirstOf(q, RulesOf(fs))
           top == {f \in fs : \A g \in fs : f.sev >= g.sev}
<1>1. q \in Seq(RuleNames) /\ DOMAIN q = 1..15
  BY DEF DomainOrder, RuleNames, RuleOrder
<1>2. ToSet(q) = {q[i] : i \in 1..15}
  BY <1>1 DEF ToSet
<1>3. start = IF ToSet(q) \cap RulesOf(fs) # {} THEN First(ByRule(fs, rule)) ELSE First(top)
  BY DEF PickRootByDomain
<1> HIDE DEF q
<1>4. CASE ToSet(q) \cap RulesOf(fs) = {}
  <2>1. top # {} /\ \A f \in top : Ordered(f)
    BY SeverestFact
  <2>2. First(top) \in top
    BY <2>1, FirstFact
  <2> QED
    BY <1>2, <1>3, <1>4, <2>2 DEF q
<1>5. CASE ToSet(q) \cap RulesOf(fs) # {}
  <2>1. PICK i \in DOMAIN q : rule = q[i] /\ q[i] \in RulesOf(fs)
      /\ \A j \in 1..(i - 1) : q[j] \notin RulesOf(fs)
    <3>1. \E i \in DOMAIN q : q[i] \in RulesOf(fs)
      BY <1>1, <1>2, <1>5
    <3>2. DOMAIN q \subseteq Nat \ {0} /\ \A i \in DOMAIN q : 1..i \subseteq DOMAIN q
      BY <1>1
    <3> QED
      BY <3>1, <3>2, FirstOfFact
  <2> HIDE DEF rule
  <2>2. ByRule(fs, rule) # {} /\ ByRule(fs, rule) \subseteq fs /\ \A f \in ByRule(fs,
      rule) : f.rule = rule
    BY <2>1 DEF ByRule, RulesOf
  <2>3. First(ByRule(fs, rule)) \in ByRule(fs, rule)
    BY <2>2, FirstFact
  <2>4. start \in fs /\ start.rule = rule
    BY <1>3, <1>5, <2>2, <2>3
  <2> HIDE DEF start
  <2>5. i \in 1..15
    BY <1>1
  <2> QED
    BY <2>1, <2>4, <2>5 DEF q, start
<1> QED
  BY <1>4, <1>5 DEF start

(* The root is reached in three hops from there.                            *)
LEMMA RootFact ==
  ASSUME NEW fs, fs # {}, \A f \in fs : Ordered(f)
  PROVE  \E a, b, c : LET start == PickRootByDomain(fs)
                          x == <<start, {start.rule}>>
                      IN /\ a = Hop(fs, x[1], x[2]) /\ b = Hop(fs, a[1], a[2]) /\ c = Hop(fs, b[1],
                          b[2])
                         /\ PickRoot(fs) = c[1]
<1> DEFINE start == PickRootByDomain(fs)
           V == fs \X SUBSET RulesOf(fs)
           x == <<start, {start.rule}>>
           step == [y \in Nat \X V |-> Hop(fs, y[2][1], y[2][2])]
<1>1. x \in V
  BY StartFact DEF RulesOf
<1>2. ASSUME NEW v \in V PROVE Hop(fs, v[1], v[2]) \in V
  <2>1. v[1] \in fs /\ v[2] \in SUBSET RulesOf(fs)
    OBVIOUS
  <2> DEFINE hop == Hop(fs, v[1], v[2])
  <2>2. hop = <<v[1], v[2]>> \/ (hop[1] \in fs /\ hop[1].rule \in RulesOf(fs) /\ hop = <<hop[1],
      v[2] \cup {hop[1].rule}>>)
    BY <2>1, HopFact
  <2> HIDE DEF hop
  <2>3. hop \in V
    BY <2>1, <2>2
  <2> QED
    BY <2>3 DEF hop
<1>3. \A n \in Nat, v \in V : step[<<n, v>>] = Hop(fs, v[1], v[2])
  OBVIOUS
<1>4. StepsIn(step, V)
  BY <1>2, <1>3 DEF StepsIn
<1> HIDE DEF step, V, x
<1>5. PICK h : Repeats(h, V, x, step)
  BY <1>1, <1>4, Iterates
<1> DEFINE body(g, i) == IF i = 0 THEN x ELSE LET before == g[i - 1] IN Hop(fs, before[1], before[2])
<1>6. h = [i \in Nat |-> body(h, i)]
  <2>1. ASSUME NEW i \in Nat PROVE h[i] = body(h, i)
    <3>1. CASE i = 0
      BY <1>5, <3>1 DEF Repeats
    <3>2. CASE i # 0
      <4>1. i - 1 \in Nat /\ (i - 1) + 1 = i
        BY <3>2
      <4>2. h[i] = step[<<i - 1, h[i - 1]>>] /\ h[i - 1] \in V
        BY <1>5, <4>1 DEF Repeats
      <4> QED
        BY <1>3, <3>2, <4>1, <4>2
    <3> QED
      BY <3>1, <3>2
  <2> HIDE DEF body
  <2> QED
    BY <2>1, <1>5 DEF Repeats
<1> DEFINE at[n \in Nat] == IF n = 0 THEN <<start, {start.rule}>>
                            ELSE LET before == at[n - 1] IN Hop(fs, before[1], before[2])
<1>7. at = [n \in Nat |-> IF n = 0 THEN <<start, {start.rule}>>
                          ELSE LET before == at[n - 1] IN Hop(fs, before[1], before[2])]
  BY <1>6 DEF x
<1>8. PickRoot(fs) = at[3][1]
  BY DEF PickRoot, MaxCausalHops
<1> HIDE DEF at
<1>9. at[0] = <<start, {start.rule}>>
  BY <1>7
<1>13. \A n \in Nat : n # 0 => at[n] = Hop(fs, at[n - 1][1], at[n - 1][2])
  BY <1>7
<1>14. 1 - 1 = 0 /\ 2 - 1 = 1 /\ 3 - 1 = 2
  OBVIOUS
<1>10. at[1] = Hop(fs, at[0][1], at[0][2])
  BY <1>13, <1>14
<1>11. at[2] = Hop(fs, at[1][1], at[1][2])
  BY <1>13, <1>14
<1>12. at[3] = Hop(fs, at[2][1], at[2][2])
  BY <1>13, <1>14
<1> QED
  BY <1>8, <1>9, <1>10, <1>11, <1>12

(* A table of heights that fall along the causes that occur in S, and from  *)
(* which no more than MaxCausalHops + 1 hops go down.                       *)
Falls(S, H) == \A r \in S : H[r] \in Nat /\ \A c \in CauseSet(r) \cap S : H[c] < H[r]

Tall ==
  [r \in RuleNames |->
         IF r \in {"IngressBackend"} THEN 7
         ELSE IF r \in {"ServiceNoEndpoint", "HpaReplicasMismatch"} THEN 6
         ELSE IF r \in {"DeploymentReplica", "StatefulSetReplica", "DaemonSetReplica",
             "JobFailed"} THEN 5
         ELSE IF r \in {"PendingPod", "ContainerCreateError"} THEN 4
         ELSE IF r \in {"HighRestartCount", "FailedMount"} THEN 3
         ELSE IF r \in {"CrashLoopBackOff", "PVFailed"} THEN 2
         ELSE IF r \in {"EvictedPod", "Unhealthy", "PVCPending", "VolumeAttachmentStuck",
             "ContainerHealthTimeout", "HpaScaleTargetMissing"} THEN 1 ELSE 0]

(* Three tables, for a start in the first, second and third part of         *)
(* DomainOrder or at none.                                                  *)
LEMMA TallFalls ==
  ASSUME NEW S \in SUBSET RuleNames
  PROVE  Falls(S, Tall)
<1>1. ASSUME NEW r \in RuleNames PROVE Tall[r] \in Nat
  BY DEF Tall
<1>2. ASSUME NEW r \in S, NEW c \in CauseSet(r) \cap S PROVE Tall[c] < Tall[r]
  BY CauseTable DEF Tall
<1> QED
  BY <1>1, <1>2 DEF Falls

Middle ==
  [r \in RuleNames |->
         IF r \in {"IngressBackend"} THEN 6
         ELSE IF r \in {"ServiceNoEndpoint", "HpaReplicasMismatch"} THEN 5
         ELSE IF r \in {"DeploymentReplica", "StatefulSetReplica", "DaemonSetReplica",
             "JobFailed"} THEN 4
         ELSE IF r \in {"PendingPod", "HighRestartCount", "ContainerCreateError"} THEN 3
         ELSE IF r \in {"CrashLoopBackOff", "FailedMount"} THEN 2
         ELSE IF r \in {"EvictedPod", "Unhealthy", "PVFailed", "ContainerHealthTimeout",
             "HpaScaleTargetMissing"} THEN 1 ELSE 0]

LEMMA MiddleFalls ==
  ASSUME NEW S \in SUBSET RuleNames, S \cap {"PVCPending", "NodeNotReady", "NodeDiskPressure",
      "NodeMemoryPressure"} = {}
  PROVE  Falls(S, Middle)
<1>1. ASSUME NEW r \in RuleNames PROVE Middle[r] \in Nat
  BY DEF Middle
<1>2. ASSUME NEW r \in S, NEW c \in CauseSet(r) \cap S PROVE Middle[c] < Middle[r]
  BY CauseTable DEF Middle
<1> QED
  BY <1>1, <1>2 DEF Falls

Low ==
  [r \in RuleNames |->
         IF r \in {"IngressBackend"} THEN 3
         ELSE IF r \in {"ServiceNoEndpoint", "HpaReplicasMismatch"} THEN 2
         ELSE IF r \in {"EvictedPod", "PVFailed", "DeploymentReplica", "JobFailed",
             "ContainerHealthTimeout", "HpaScaleTargetMissing"} THEN 1 ELSE 0]

LEMMA LowFalls ==
  ASSUME NEW S \in SUBSET RuleNames, S \cap {"PVCPending", "NodeNotReady", "NodeDiskPressure",
      "NodeMemoryPressure", "PendingPod", "ContainerCreateError", "CrashLoopBackOff", "OOMKilled",
      "ImagePullBackOff", "FailedMount", "Unhealthy"} = {}
  PROVE  Falls(S, Low)
<1>1. ASSUME NEW r \in RuleNames PROVE Low[r] \in Nat
  BY DEF Low
<1>2. ASSUME NEW r \in S, NEW c \in CauseSet(r) \cap S PROVE Low[c] < Low[r]
  BY CauseTable DEF Low
<1> QED
  BY <1>1, <1>2 DEF Falls

(* A hop goes down, or there is nowhere to go.                              *)
Settled(fs, f) == CauseSet(f.rule) \cap RulesOf(fs) = {}
Descent(fs, H, v, k) ==
  /\ v[1] \in fs /\ v[2] \in SUBSET RulesOf(fs) /\ \A r \in v[2] : H[r] >= H[v[1].rule]
  /\ Settled(fs, v[1]) \/ H[v[1].rule] <= k

LEMMA HopDown ==
  ASSUME NEW fs, \A f \in fs : Ordered(f), NEW H, Falls(RulesOf(fs), H),
         NEW k \in Nat, NEW v, Descent(fs, H, v, k)
  PROVE  Descent(fs, H, Hop(fs, v[1], v[2]), k - 1)
<1> DEFINE hop == Hop(fs, v[1], v[2])
           S == RulesOf(fs)
<1>1. v[1] \in fs /\ v[2] \in SUBSET S /\ \A r \in v[2] : H[r] >= H[v[1].rule]
  BY DEF Descent
<1>2. v[1].rule \in S /\ H[v[1].rule] \in Nat /\ \A r \in S : H[r] \in Nat
  BY <1>1 DEF RulesOf, Falls
<1>3. \A c \in CauseSet(v[1].rule) \cap S : H[c] < H[v[1].rule]
  BY <1>2 DEF Falls
<1>4. CauseSet(v[1].rule) \cap (S \ v[2]) = CauseSet(v[1].rule) \cap S
  BY <1>1, <1>2, <1>3
<1>5. \/ CauseSet(v[1].rule) \cap S = {} /\ hop = <<v[1], v[2]>>
      \/ /\ hop[1] \in fs /\ hop[1].rule \in CauseSet(v[1].rule) \cap S
         /\ hop = <<hop[1], v[2] \cup {hop[1].rule}>>
  BY <1>1, <1>4, HopFact
<1> HIDE DEF hop
<1>6. CASE CauseSet(v[1].rule) \cap S = {} /\ hop = <<v[1], v[2]>>
  <2>1. hop[1] = v[1] /\ hop[2] = v[2]
    BY <1>6
  <2> QED
    BY <1>1, <1>6, <2>1 DEF Descent, Settled, hop
<1>7. CASE /\ hop[1] \in fs /\ hop[1].rule \in CauseSet(v[1].rule) \cap S
           /\ hop = <<hop[1], v[2] \cup {hop[1].rule}>>
  <2>1. hop[2] = v[2] \cup {hop[1].rule}
    BY <1>7
  <2>2. H[hop[1].rule] < H[v[1].rule] /\ H[hop[1].rule] \in Nat
    BY <1>2, <1>3, <1>7
  <2>3. hop[2] \in SUBSET S /\ \A r \in hop[2] : H[r] >= H[hop[1].rule]
    BY <1>1, <1>2, <1>7, <2>1, <2>2
  <2>4. H[v[1].rule] <= k
    BY <1>7 DEF Descent, Settled
  <2>5. H[hop[1].rule] <= k - 1
    BY <1>2, <2>2, <2>4
  <2> QED
    BY <1>7, <2>3, <2>5 DEF Descent, hop
<1> QED
  BY <1>5, <1>6, <1>7

(* The root of a group is one of its findings, and none of its causes in the *)
(* table is among the group's rules: the search never stops short.          *)
THEOREM RootSettles ==
  ASSUME NEW fs, fs # {}, \A f \in fs : Ordered(f)
  PROVE  PickRoot(fs) \in fs /\ Settled(fs, PickRoot(fs))
<1> DEFINE start == PickRootByDomain(fs)
           S == RulesOf(fs)
           x == <<start, {start.rule}>>
<1>1. S \in SUBSET RuleNames
  BY DEF RulesOf, Ordered
<1>2. start \in fs
  BY StartFact
<1>3. \E H : Falls(S, H) /\ H[start.rule] <= 3
  <2>1. start.rule \in S
    BY <1>2 DEF RulesOf
  <2>2. CASE S \cap {DomainOrder[i] : i \in 1..15} = {}
    <3>1. S \cap {"PVCPending", "NodeNotReady", "NodeDiskPressure", "NodeMemoryPressure", "PendingPod",
        "ContainerCreateError", "CrashLoopBackOff", "OOMKilled", "ImagePullBackOff", "FailedMount",
        "Unhealthy"} = {}
      BY <2>2 DEF DomainOrder
    <3>2. Falls(S, Low)
      BY <1>1, <3>1, LowFalls
    <3>3. Low[start.rule] <= 3
      BY <1>1, <2>1 DEF Low
    <3> QED
      BY <3>2, <3>3
  <2>3. ASSUME NEW i \in 1..15, start.rule = DomainOrder[i],
      \A j \in 1..(i - 1) : DomainOrder[j] \notin S
        PROVE  \E H : Falls(S, H) /\ H[start.rule] <= 3
    <3>1. CASE i \in 1..4
      <4>1. start.rule \in {"PVCPending", "NodeNotReady", "NodeDiskPressure", "NodeMemoryPressure"}
        BY <2>3, <3>1 DEF DomainOrder
      <4> QED
        <5>1. Falls(S, Tall)
          BY <1>1, TallFalls
        <5>2. Tall[start.rule] <= 3
          BY <1>1, <2>1, <4>1 DEF Tall
        <5> QED
          BY <5>1, <5>2
    <3>2. CASE i \in 5..11
      <4>1. start.rule \in {"PendingPod", "ContainerCreateError", "CrashLoopBackOff", "OOMKilled",
          "ImagePullBackOff", "FailedMount", "Unhealthy"}
        BY <2>3, <3>2 DEF DomainOrder
      <4>2. S \cap {"PVCPending", "NodeNotReady", "NodeDiskPressure", "NodeMemoryPressure"} = {}
        BY <2>3, <3>2 DEF DomainOrder
      <4> QED
        <5>1. Falls(S, Middle)
          BY <1>1, <4>2, MiddleFalls
        <5>2. Middle[start.rule] <= 3
          BY <1>1, <2>1, <4>1 DEF Middle
        <5> QED
          BY <5>1, <5>2
    <3>3. CASE i \in 12..15
      <4>1. start.rule \in {"DeploymentReplica", "StatefulSetReplica", "JobFailed", "ServiceNoEndpoint"}
        BY <2>3, <3>3 DEF DomainOrder
      <4>2. S \cap {"PVCPending", "NodeNotReady", "NodeDiskPressure", "NodeMemoryPressure",
          "PendingPod", "ContainerCreateError", "CrashLoopBackOff", "OOMKilled", "ImagePullBackOff",
          "FailedMount", "Unhealthy"} = {}
        BY <2>3, <3>3 DEF DomainOrder
      <4> QED
        <5>1. Falls(S, Low)
          BY <1>1, <4>2, LowFalls
        <5>2. Low[start.rule] <= 3
          BY <1>1, <2>1, <4>1 DEF Low
        <5> QED
          BY <5>1, <5>2
    <3> QED
      BY <3>1, <3>2, <3>3
  <2> QED
    BY <2>2, <2>3, StartFact
<1>4. PICK H : Falls(S, H) /\ H[start.rule] <= 3
  BY <1>3
<1>5. start.rule \in S /\ H[start.rule] \in Nat
  BY <1>2, <1>4 DEF RulesOf, Falls
<1> HIDE DEF start
<1>6. Descent(fs, H, x, 3)
  BY <1>2, <1>4, <1>5 DEF Descent
<1>7. PICK a, b, c : /\ a = Hop(fs, x[1], x[2]) /\ b = Hop(fs, a[1], a[2]) /\ c = Hop(fs, b[1], b[2])
                     /\ PickRoot(fs) = c[1]
  BY RootFact DEF start
<1> HIDE DEF x
<1>8. Descent(fs, H, a, 2)
  <2>1. Descent(fs, H, Hop(fs, x[1], x[2]), 3 - 1)
    BY <1>4, <1>6, HopDown
  <2> QED
    BY <1>7, <2>1
<1>9. Descent(fs, H, b, 1)
  <2>1. Descent(fs, H, Hop(fs, a[1], a[2]), 2 - 1)
    BY <1>4, <1>8, HopDown
  <2> QED
    BY <1>7, <2>1
<1>10. Descent(fs, H, c, 0)
  <2>1. Descent(fs, H, Hop(fs, b[1], b[2]), 1 - 1)
    BY <1>4, <1>9, HopDown
  <2> QED
    BY <1>7, <2>1
<1>11. c[1] \in fs /\ (Settled(fs, c[1]) \/ H[c[1].rule] <= 0)
  BY <1>10 DEF Descent
<1>12. Settled(fs, c[1])
  <2>1. c[1].rule \in S
    BY <1>11 DEF RulesOf
  <2>2. \A r \in CauseSet(c[1].rule) \cap S : H[r] \in Nat /\ H[r] < H[c[1].rule]
      /\ H[c[1].rule] \in Nat
    BY <1>4, <2>1 DEF Falls
  <2>3. H[c[1].rule] <= 0 => CauseSet(c[1].rule) \cap S = {}
    BY <2>2
  <2> QED
    BY <1>11, <2>3 DEF Settled
<1> QED
  BY <1>7, <1>11, <1>12

(*****************************************************************************)
(* The incidents as they are built.                                          *)
(*****************************************************************************)

(* The members, most severe first, are those of the group.                  *)
LEMMA MembersFact ==
  ASSUME NEW fs, IsFiniteSet(fs), \A f \in fs : Ordered(f)
  PROVE  LET q == MembersFirst(fs) IN q \in Seq(fs) /\ \A f \in fs : \E i \in DOMAIN q : q[i] = f
<1> DEFINE any == Worst({})
           F == fs \cup {any}
           V == [list : Seq(F), rest : SUBSET fs]
           first == [list |-> <<>>, rest |-> fs]
           next(v) == [list |-> Append(v.list, Worst(v.rest)), rest |-> v.rest \ {Worst(v.rest)}]
           step == [y \in Nat \X V |-> next(y[2])]
           N == Cardinality(fs)
<1>1. first \in V
  OBVIOUS
<1>2. ASSUME NEW v \in V PROVE next(v) \in V
  <2>1. Worst(v.rest) \in F
    <3>1. CASE v.rest = {}
      BY <3>1
    <3>2. CASE v.rest # {}
      <4>1. v.rest \subseteq fs /\ \A f \in v.rest : Ordered(f)
        OBVIOUS
      <4> QED
        BY <3>2, <4>1, WorstFact
    <3> QED
      BY <3>1, <3>2
  <2> HIDE DEF F
  <2>2. Append(v.list, Worst(v.rest)) \in Seq(F)
    BY <2>1
  <2> QED
    BY <2>2
<1>3. \A n \in Nat, v \in V : step[<<n, v>>] = next(v)
  OBVIOUS
<1>4. StepsIn(step, V)
  BY <1>2, <1>3 DEF StepsIn
<1> HIDE DEF step, V, first, next
<1>5. PICK h : Repeats(h, V, first, step)
  BY <1>1, <1>4, Iterates
<1> DEFINE body(g, i) == IF i = 0 THEN first ELSE next(g[i - 1])
<1>6. h = [i \in Nat |-> body(h, i)]
  <2>1. ASSUME NEW i \in Nat PROVE h[i] = body(h, i)
    <3>1. CASE i = 0
      BY <1>5, <3>1 DEF Repeats
    <3>2. CASE i # 0
      <4>1. i - 1 \in Nat /\ (i - 1) + 1 = i
        BY <3>2
      <4>2. h[i] = step[<<i - 1, h[i - 1]>>] /\ h[i - 1] \in V
        BY <1>5, <4>1 DEF Repeats
      <4> QED
        BY <1>3, <3>2, <4>1, <4>2
    <3> QED
      BY <3>1, <3>2
  <2> HIDE DEF body
  <2> QED
    BY <2>1, <1>5 DEF Repeats
<1> DEFINE taken[n \in Nat] ==
        IF n = 0 THEN [list |-> <<>>, rest |-> fs]
        ELSE LET before == taken[n - 1]
                 f == Worst(before.rest)
             IN [list |-> Append(before.list, f), rest |-> before.rest \ {f}]
<1>7. taken = [n \in Nat |->
        IF n = 0 THEN [list |-> <<>>, rest |-> fs]
        ELSE LET before == taken[n - 1]
                 f == Worst(before.rest)
             IN [list |-> Append(before.list, f), rest |-> before.rest \ {f}]]
  BY <1>6 DEF first, next
<1>8. MembersFirst(fs) = taken[N].list
  BY DEF MembersFirst
<1> HIDE DEF taken
<1>9. taken[0] = first /\ \A n \in Nat : n # 0 => taken[n] = next(taken[n - 1])
  BY <1>7 DEF first, next
<1>10. N \in Nat
  BY FS_CardinalityType
<1> DEFINE Good(n) == LET t == taken[n] IN
             /\ t.list \in Seq(fs) /\ t.rest \subseteq fs
             /\ \A f \in fs : f \in t.rest \/ \E i \in DOMAIN t.list : t.list[i] = f
             /\ Cardinality(t.rest) = N - n
           T == {n \in Nat : n <= N => Good(n)}
<1>11. 0 \in T
  <2> DEFINE t == taken[0]
  <2>1. t.list = <<>> /\ t.rest = fs
    BY <1>9 DEF first
  <2> HIDE DEF t
  <2>2. <<>> \in Seq(fs) /\ N - 0 = N
    BY <1>10
  <2>3. Good(0)
    BY <2>1, <2>2 DEF t
  <2> QED
    BY <2>3
<1>12. ASSUME NEW n \in Nat, n \in T PROVE n + 1 \in T
  <2> SUFFICES ASSUME n + 1 <= N PROVE Good(n + 1)
    OBVIOUS
  <2> DEFINE t == taken[n]
             f == Worst(t.rest)
             u == taken[n + 1]
  <2>1. Good(n)
    BY <1>10, <1>12
  <2>2. u = next(t)
    <3>1. n + 1 # 0 /\ (n + 1) - 1 = n /\ n + 1 \in Nat
      OBVIOUS
    <3> QED
      BY <1>9, <3>1
  <2>3. u.list = Append(t.list, f) /\ u.rest = t.rest \ {f}
    BY <2>2 DEF next
  <2>4. t.list \in Seq(fs) /\ t.rest \subseteq fs /\ Cardinality(t.rest) = N - n
        /\ \A g \in fs : g \in t.rest \/ \E i \in DOMAIN t.list : t.list[i] = g
    BY <2>1
  <2> HIDE DEF t, u
  <2>5. IsFiniteSet(t.rest)
    BY <2>4, FS_Subset
  <2>6. t.rest # {}
    <3>1. Cardinality({}) = 0
      BY FS_EmptySet
    <3>2. Cardinality(t.rest) = N - n /\ N - n # 0
      BY <1>10, <2>4
    <3> QED
      BY <3>1, <3>2
  <2>7. f \in t.rest
    BY <2>4, <2>6, WorstFact
  <2>8. Cardinality(t.rest \ {f}) = Cardinality(t.rest) - 1
    BY <2>5, <2>7, FS_RemoveElement
  <2> HIDE DEF f
  <2>9. u.list \in Seq(fs) /\ DOMAIN u.list = 1..(Len(t.list) + 1) /\ u.list[Len(t.list) + 1] = f
        /\ \A i \in DOMAIN t.list : i \in DOMAIN u.list /\ u.list[i] = t.list[i]
    BY <2>3, <2>4, <2>7
  <2>10. Cardinality(u.rest) = N - (n + 1)
    BY <1>10, <2>3, <2>4, <2>8
  <2>11. ASSUME NEW g \in fs PROVE g \in u.rest \/ \E i \in DOMAIN u.list : u.list[i] = g
    <3>1. CASE g = f
      <4>1. Len(t.list) + 1 \in DOMAIN u.list
        BY <2>4, <2>9
      <4> QED
        BY <2>9, <3>1, <4>1
    <3>2. CASE g # f
      BY <2>3, <2>4, <2>9, <3>2
    <3> QED
      BY <3>1, <3>2
  <2>12. u.rest \subseteq fs
    BY <2>3, <2>4
  <2> QED
    BY <2>9, <2>10, <2>11, <2>12 DEF u
<1>13. Good(N)
  <2>1. Nat \subseteq T
    <3> HIDE DEF T
    <3> QED
      BY <1>11, <1>12, Induct
  <2> QED
    BY <1>10, <2>1
<1> DEFINE t == taken[N]
<1>14. t.list \in Seq(fs) /\ t.rest \subseteq fs /\ Cardinality(t.rest) = 0
       /\ \A g \in fs : g \in t.rest \/ \E i \in DOMAIN t.list : t.list[i] = g
  BY <1>10, <1>13
<1> HIDE DEF t
<1>15. t.rest = {}
  <2>1. IsFiniteSet(t.rest)
    BY <1>14, FS_Subset
  <2> QED
    BY <1>14, <2>1, FS_EmptySet
<1> QED
  BY <1>8, <1>14, <1>15 DEF t

(* What is built: an incident for each group, of its root and its members.  *)
Gathered(grp, inc) ==
  /\ inc = [root |-> inc.root, items |-> inc.items, edges |-> inc.edges, status |-> inc.status,
            cause |-> inc.cause, denied |-> inc.denied]
  /\ inc.root = PickRoot(grp) /\ inc.root \in grp /\ Settled(grp, inc.root)
  /\ inc.items \in Seq(grp) /\ inc.items # <<>> /\ inc.items[1] = inc.root
  /\ \A f \in grp : \E i \in DOMAIN inc.items : inc.items[i].id = f.id

(* Each group gives an incident, and each incident is a group's.            *)
LEMMA BuildFacts ==
  ASSUME NEW s, NEW fs, IsFiniteSet(fs), \A f \in fs : Ordered(f)
  PROVE  /\ \A inc \in Build(s, fs) : \E grp \in Groups(s, fs) : Gathered(grp, inc) /\ inc.edges = {}
            /\ inc.denied = {}
         /\ \A grp \in Groups(s, fs) : \E inc \in Build(s, fs) : Gathered(grp, inc) /\ inc.edges = {}
             /\ inc.denied = {}
<1> DEFINE rest(grp) == {f \in grp : f.id # PickRoot(grp).id}
           build(grp) == [root |-> PickRoot(grp), items |-> <<PickRoot(grp)>> \o MembersFirst(rest(grp)),
                          edges |-> {}, status |-> "unknown", cause |-> "none", denied |-> {}]
<1>1. Build(s, fs) = {build(grp) : grp \in Groups(s, fs)}
  BY DEF Build
<1>2. ASSUME NEW grp \in Groups(s, fs)
      PROVE  Gathered(grp, build(grp)) /\ build(grp).edges = {} /\ build(grp).denied = {}
  <2> DEFINE root == PickRoot(grp)
             q == MembersFirst(rest(grp))
  <2>1. grp \subseteq fs /\ grp # {} /\ IsFiniteSet(grp)
    BY GroupFacts
  <2>2. root = PickRoot(grp) /\ root \in grp /\ Settled(grp, root)
    BY <2>1, RootSettles
  <2>3. IsFiniteSet(rest(grp)) /\ \A f \in rest(grp) : Ordered(f)
    BY <2>1, FS_Subset
  <2> DEFINE R == rest(grp)
  <2>4. R \subseteq grp /\ \A f \in grp : f \in R \/ f.id = root.id
    OBVIOUS
  <2> HIDE DEF root, R
  <2>5. q \in Seq(R) /\ \A f \in R : \E i \in DOMAIN q : q[i] = f
    BY <2>3, MembersFact DEF R
  <2> HIDE DEF q
  <2> DEFINE items == <<root>> \o q
             inc == [root |-> root, items |-> items, edges |-> {}, status |-> "unknown",
                 cause |-> "none", denied |-> {}]
  <2>6. q \in Seq(grp) /\ <<root>> \in Seq(grp) /\ Len(<<root>>) = 1 /\ <<root>>[1] = root
    BY <2>2, <2>4, <2>5
  <2>7. items \in Seq(grp) /\ Len(items) = 1 + Len(q) /\ Len(q) \in Nat /\ items[1] = root
        /\ \A i \in 1..Len(q) : items[1 + i] = q[i]
    BY <2>6
  <2>8. DOMAIN items = 1..(1 + Len(q)) /\ DOMAIN q = 1..Len(q)
    BY <2>6, <2>7
  <2> HIDE DEF items
  <2>9. ASSUME NEW f \in grp PROVE \E i \in DOMAIN items : items[i].id = f.id
    <3>1. CASE f.id = root.id
      BY <2>7, <2>8, <3>1
    <3>2. CASE f \in R
      <4>1. PICK i \in DOMAIN q : q[i] = f
        BY <2>5, <3>2
      <4>2. 1 + i \in DOMAIN items /\ items[1 + i] = f
        BY <2>7, <2>8, <4>1
      <4> QED
        BY <4>2
    <3> QED
      BY <2>4, <3>1, <3>2
  <2>10. items # <<>>
    BY <2>7
  <2>11. inc = build(grp)
    BY DEF inc, items, root, q, R
  <2>12. Gathered(grp, inc) /\ inc.edges = {} /\ inc.denied = {}
    BY <2>2, <2>7, <2>9, <2>10 DEF Gathered
  <2> QED
    BY <2>11, <2>12
<1> HIDE DEF build
<1> QED
  BY <1>1, <1>2

(*****************************************************************************)
(* The causal edges: they follow an order, so they never run in a circle.    *)
(*****************************************************************************)

(* A cause comes before its effect, in the table of causes and for each     *)
(* edge that a diagnoser draws.                                             *)
Order ==
  [r \in RuleNames |->
     IF r \in NodeRules \cup {"StorageClassNoProvisioner"} THEN 1
     ELSE IF r = "VolumeAttachmentStuck" THEN 2
     ELSE IF r = "PVFailed" THEN 3
     ELSE IF r \in {"PVCPending", "PdbBlocking"} THEN 4
     ELSE IF r = "ConfigRefNotFound" THEN 5
     ELSE IF r \in {"OOMKilled", "ImagePullBackOff", "FailedMount", "EvictedPod",
         "PodTerminating"} THEN 6
     ELSE IF r \in {"Unhealthy", "ContainerHealthTimeout", "PendingPod", "ContainerCreateError"} THEN 7
     ELSE IF r = "CrashLoopBackOff" THEN 8
     ELSE IF r = "HighRestartCount" THEN 9
     ELSE IF r = "ServiceNoEndpoint" THEN 11
     ELSE IF r \in {"IngressBackend", "IngressHostConflict", "HpaScaleTargetMissing"} THEN 12
     ELSE IF r = "HpaReplicasMismatch" THEN 13 ELSE 10]

LEMMA OrderFalls ==
  ASSUME NEW r \in RuleNames
  PROVE  Order[r] \in Nat /\ \A c \in CauseSet(r) : c \in RuleNames /\ Order[c] < Order[r]
<1>1. Order[r] \in Nat
  BY DEF Order
<1>2. CauseSet(r) \subseteq RuleNames
  BY CauseTable DEF CauseSet, ToSet
<1>3. \A c \in CauseSet(r) : Order[c] < Order[r]
  BY <1>2, CauseTable DEF Order, NodeRules
<1> QED
  BY <1>1, <1>2, <1>3

(* An edge from one of the group's findings to another, which it precedes.  *)
Confidence == {"confirmed", "probable"}
EdgeFits(grp, e) ==
  /\ e.confidence \in Confidence
  /\ \E x, y \in grp : e.source = x.id /\ e.target = y.id /\ Order[x.rule] < Order[y.rule]
EdgesFit(grp, es) == DOMAIN es \subseteq Nat /\ \A i \in DOMAIN es : EdgeFits(grp, es[i])
OneCauseEach(es) == \A e, d \in es : e.target = d.target => e = d
Ranked(grp) == \A f \in grp : Ordered(f) /\ f.id[2] = f.rule

(* Merging keeps one cause for each.                                        *)
THEOREM MergeFact ==
  ASSUME NEW grp, NEW base, \A e \in base : EdgeFits(grp, e), OneCauseEach(base),
         NEW add, EdgesFit(grp, add)
  PROVE  LET es == MergeEdges(base, add)
         IN (\A e \in es : EdgeFits(grp, e)) /\ OneCauseEach(es)
<1> DEFINE beats(e, d) == e.target = d.target /\ Rank(e.confidence) >= Rank(d.confidence)
           better(j, i) == IF j < i THEN beats(add[j], add[i]) ELSE beats(add[j], add[i])
               /\ ~beats(add[i], add[j])
           B == {e \in base : \A i \in DOMAIN add : beats(add[i], e) => beats(e, add[i])}
           K == {k \in DOMAIN add : ~(\E e \in base : beats(e, add[k]))
               /\ ~\E j \in DOMAIN add : better(j, k)}
           es == MergeEdges(base, add)
<1>1. es = B \cup {add[i] : i \in K}
  BY DEF MergeEdges
<1>2. \A x : Rank(x) \in Int
  BY DEF Rank
<1>3. \A e \in es : EdgeFits(grp, e)
  BY <1>1 DEF EdgesFit
<1>4. ASSUME NEW e \in B, NEW d \in B, e.target = d.target PROVE e = d
  BY <1>4 DEF OneCauseEach
<1>5. ASSUME NEW e \in B, NEW k \in K, e.target = add[k].target PROVE FALSE
  <2>1. e \in base /\ k \in DOMAIN add /\ ~beats(e, add[k]) /\ (beats(add[k], e) => beats(e, add[k]))
    OBVIOUS
  <2>2. Rank(e.confidence) \in Int /\ Rank(add[k].confidence) \in Int
    BY <1>2
  <2> QED
    BY <1>5, <2>1, <2>2
<1>6. ASSUME NEW j \in K, NEW k \in K, j < k, add[j].target = add[k].target PROVE FALSE
  <2>1. ~better(j, k) /\ ~better(k, j) /\ j \in Nat /\ k \in Nat
    BY DEF EdgesFit
  <2>2. Rank(add[j].confidence) \in Int /\ Rank(add[k].confidence) \in Int
    BY <1>2
  <2> QED
    BY <1>6, <2>1, <2>2
<1>7. ASSUME NEW j \in K, NEW k \in K, add[j].target = add[k].target PROVE add[j] = add[k]
  <2>1. j \in Nat /\ k \in Nat
    BY DEF EdgesFit
  <2>2. j = k \/ j < k \/ k < j
    BY <2>1
  <2> HIDE DEF K
  <2> QED
    BY <1>6, <1>7, <2>2
<1> HIDE DEF B, K, es
<1>8. OneCauseEach(es)
  BY <1>1, <1>4, <1>5, <1>7 DEF OneCauseEach
<1> QED
  BY <1>3, <1>8 DEF es

(* For every edge offered, by the tree or by a diagnosis, the merge keeps   *)
(* one of the same target that is no less sure; it adds none of its own.    *)
THEOREM MergeKeepsBest ==
  ASSUME NEW base, NEW add, DOMAIN add \subseteq Nat
  PROVE  LET es == MergeEdges(base, add)
             offered == base \cup {add[i] : i \in DOMAIN add}
         IN  /\ es \subseteq offered
             /\ \A d \in offered : \E e \in es :
                  e.target = d.target /\ Rank(e.confidence) >= Rank(d.confidence)
<1> DEFINE beats(e, d) == e.target = d.target /\ Rank(e.confidence) >= Rank(d.confidence)
           better(j, i) == IF j < i THEN beats(add[j], add[i]) ELSE beats(add[j], add[i])
               /\ ~beats(add[i], add[j])
           B == {e \in base : \A i \in DOMAIN add : beats(add[i], e) => beats(e, add[i])}
           K == {k \in DOMAIN add : ~(\E e \in base : beats(e, add[k]))
               /\ ~\E j \in DOMAIN add : better(j, k)}
           es == MergeEdges(base, add)
           offered == base \cup {add[i] : i \in DOMAIN add}
<1>1. es = B \cup {add[i] : i \in K}
  BY DEF MergeEdges
<1>2. \A x : Rank(x) \in 1..3
  BY DEF Rank
<1>3. ASSUME NEW d \in offered PROVE \E e \in es : beats(e, d)
  <2> DEFINE G == {x \in offered : x.target = d.target}
             R == {3 - Rank(x.confidence) : x \in G}
  <2>1. R \subseteq Nat
    <3> SUFFICES ASSUME NEW x \in G PROVE 3 - Rank(x.confidence) \in Nat
      OBVIOUS
    <3>1. Rank(x.confidence) \in 1..3
      BY <1>2
    <3> QED
      BY <3>1
  <2>2. 3 - Rank(d.confidence) \in R
    OBVIOUS
  <2>3. PICK n \in R : \A m \in R : n <= m
    BY <2>1, <2>2, Smallest
  <2>4. PICK top \in G : n = 3 - Rank(top.confidence)
    OBVIOUS
  <2>5. ASSUME NEW x \in G PROVE Rank(x.confidence) <= Rank(top.confidence)
    <3>1. n <= 3 - Rank(x.confidence)
      BY <2>3
    <3>2. Rank(x.confidence) \in 1..3 /\ Rank(top.confidence) \in 1..3
      BY <1>2
    <3> QED
      BY <2>4, <3>1, <3>2
  <2>6. ASSUME NEW x \in G, Rank(x.confidence) = Rank(top.confidence)
        PROVE  \A y \in G : beats(x, y)
    <3> SUFFICES ASSUME NEW y \in G PROVE beats(x, y)
      OBVIOUS
    <3>1. Rank(y.confidence) <= Rank(x.confidence)
      BY <2>5, <2>6
    <3>2. Rank(x.confidence) \in 1..3 /\ Rank(y.confidence) \in 1..3
      BY <1>2
    <3>3. x.target = y.target
      OBVIOUS
    <3> QED
      BY <3>1, <3>2, <3>3
  <2>7. ASSUME NEW x \in offered, NEW y \in G, Rank(y.confidence) = Rank(top.confidence), beats(x, y)
        PROVE  x \in G /\ Rank(x.confidence) = Rank(top.confidence)
    <3>1. x \in G
      BY <2>7
    <3>2. Rank(x.confidence) <= Rank(top.confidence)
      BY <2>5, <3>1
    <3>3. Rank(x.confidence) \in 1..3 /\ Rank(top.confidence) \in 1..3
      BY <1>2
    <3> QED
      BY <2>7, <3>1, <3>2, <3>3
  <2>8. d \in G
    OBVIOUS
  <2> DEFINE first == {x \in G : Rank(x.confidence) = Rank(top.confidence)}
  <2>9. CASE \E e \in base : e \in first
    <3>1. PICK e \in base : e \in first
      BY <2>9
    <3>2. beats(e, d)
      BY <2>6, <2>8, <3>1
    <3>3. ASSUME NEW i \in DOMAIN add, beats(add[i], e) PROVE beats(e, add[i])
      <4>1. add[i] \in offered
        OBVIOUS
      <4>2. add[i] \in G
        BY <2>7, <3>1, <3>3, <4>1
      <4> QED
        BY <2>6, <3>1, <4>2
    <3>4. e \in B
      BY <3>1, <3>3
    <3> QED
      BY <1>1, <3>2, <3>4
  <2>10. CASE ~\E e \in base : e \in first
    <3> DEFINE I == {i \in DOMAIN add : add[i] \in first}
    <3>1. I \subseteq Nat
      OBVIOUS
    <3>2. top \in first /\ top \in offered
      OBVIOUS
    <3>3. PICK t \in DOMAIN add : top = add[t]
      BY <2>10, <3>2
    <3>4. t \in I
      BY <3>2, <3>3
    <3>5. PICK k \in I : \A m \in I : k <= m
      BY <3>1, <3>4, Smallest
    <3>6. ASSUME NEW e \in base, beats(e, add[k]) PROVE FALSE
      <4>1. e \in offered /\ add[k] \in G /\ Rank(add[k].confidence) = Rank(top.confidence)
        BY <3>5
      <4>2. e \in first
        BY <2>7, <3>6, <4>1
      <4> QED
        BY <2>10, <4>2
    <3>7. ASSUME NEW j \in DOMAIN add, better(j, k) PROVE FALSE
      <4>1. beats(add[j], add[k])
        BY <3>7
      <4>2. add[j] \in offered /\ add[k] \in G /\ Rank(add[k].confidence) = Rank(top.confidence)
        BY <3>5
      <4>3. add[j] \in G /\ j \in I
        BY <2>7, <4>1, <4>2
      <4>4. k <= j /\ j \in Nat /\ k \in Nat
        BY <3>1, <3>5, <4>3
      <4>5. beats(add[k], add[j])
        BY <2>6, <4>2, <4>3
      <4>6. ~(j < k)
        BY <4>4
      <4> QED
        BY <3>7, <4>5, <4>6
    <3>8. k \in K
      BY <3>5, <3>6, <3>7
    <3>9. beats(add[k], d)
      BY <2>6, <2>8, <3>5
    <3> QED
      BY <1>1, <3>8, <3>9
  <2> QED
    BY <2>9, <2>10
<1> QED
  BY <1>1, <1>3

(* Such edges never run in a circle.                                        *)
THEOREM NoCircle ==
  ASSUME NEW grp, Ranked(grp), NEW es, \A e \in es : EdgeFits(grp, e), NEW some \in SUBSET es, some # {}
  PROVE  \E e \in some : \A d \in some : d.target # e.source
<1> DEFINE T == {Order[e.source[2]] : e \in some}
<1>1. ASSUME NEW e \in some
      PROVE  /\ Order[e.source[2]] \in Nat /\ Order[e.target[2]] \in Nat
             /\ Order[e.source[2]] < Order[e.target[2]]
  <2>1. PICK x \in grp, y \in grp : e.source = x.id /\ e.target = y.id /\ Order[x.rule] < Order[y.rule]
    BY DEF EdgeFits
  <2>2. x.id[2] = x.rule /\ y.id[2] = y.rule /\ x.rule \in RuleNames /\ y.rule \in RuleNames
    BY DEF Ranked, Ordered
  <2> QED
    BY <2>1, <2>2, OrderFalls
<1>2. PICK n \in T : \A m \in T : n <= m
  <2>1. T \subseteq Nat /\ T # {}
    BY <1>1
  <2> QED
    BY <2>1, Smallest
<1>3. PICK e \in some : n = Order[e.source[2]]
  OBVIOUS
<1>4. ASSUME NEW d \in some, d.target = e.source PROVE FALSE
  <2>1. Order[e.source[2]] <= Order[d.source[2]]
    BY <1>2, <1>3
  <2>2. Order[d.source[2]] < Order[e.source[2]] /\ Order[d.source[2]] \in Nat
      /\ Order[e.source[2]] \in Nat
    BY <1>1, <1>4
  <2> QED
    BY <2>1, <2>2
<1> QED
  BY <1>4

(* Some of finitely many numbers is the largest.                            *)
LEMMA LargestFact ==
  ASSUME NEW top \in Nat, NEW S, S \subseteq 1..top, S # {}
  PROVE  Max(S) \in Nat
<1> DEFINE T == {top - k : k \in S}
<1>1. T \subseteq Nat /\ T # {}
  <2>1. ASSUME NEW k \in S PROVE top - k \in Nat
    <3>1. k \in 1..top
      OBVIOUS
    <3> QED
      BY <3>1
  <2>2. T # {}
    OBVIOUS
  <2> QED
    BY <2>1, <2>2
<1>2. PICK n \in T : \A m \in T : n <= m
  BY <1>1, Smallest
<1>3. PICK k \in S : n = top - k
  OBVIOUS
<1>4. ASSUME NEW j \in S PROVE k >= j
  <2>1. top - j \in T
    OBVIOUS
  <2>2. top - k <= top - j
    BY <1>2, <1>3, <2>1
  <2>3. j \in Nat /\ k \in Nat
    OBVIOUS
  <2> QED
    BY <2>2, <2>3
<1>5. Max(S) \in S
  BY <1>4 DEF Max
<1> HIDE DEF T
<1>6. S \subseteq Nat
  OBVIOUS
<1> QED
  BY <1>5, <1>6

(* The likeliest of the causes seen so far is one of them.                  *)
LEMMA LikeliestFact ==
  ASSUME NEW all, NEW top \in Nat, DOMAIN all = 1..top, NEW t, NEW is, is # {}, is \subseteq DOMAIN all,
         \A i \in is : all[i].rule \in CauseSet(t.rule)
  PROVE  Likeliest(all, t, is) \in is
<1> DEFINE q == CausalCauses(t.rule)
           place(i) == Max({k \in DOMAIN all : all[k].id = all[i].id})
           a == [i \in is |-> IndexIn(q, all[i].rule)]
           b == [i \in is |-> place(i)]
<1>5. ASSUME NEW i \in is PROVE place(i) \in Nat
  <2> DEFINE S == {k \in DOMAIN all : all[k].id = all[i].id}
  <2>1. S \subseteq 1..top /\ i \in S
    OBVIOUS
  <2> HIDE DEF S
  <2>2. Max(S) \in Nat
    BY <2>1, LargestFact
  <2> QED
    BY <2>2 DEF S
<1> HIDE DEF place
<1>1. \A i \in is : a[i] = IndexIn(q, all[i].rule) /\ b[i] = place(i)
  OBVIOUS
<1>2. ASSUME NEW i \in is PROVE a[i] \in Nat /\ b[i] \in Nat
  <2>1. q \in Seq(RuleNames)
    BY CauseTable
  <2>2. DOMAIN q \subseteq Nat /\ \E j \in DOMAIN q : q[j] = all[i].rule
    BY <2>1 DEF CauseSet, ToSet
  <2> HIDE DEF q
  <2>3. IndexIn(q, all[i].rule) \in DOMAIN q
    BY <2>2 DEF IndexIn
  <2> QED
    BY <1>1, <1>5, <2>2, <2>3
<1> HIDE DEF a, b, q
<1>3. PICK i \in is : \A j \in is : a[i] < a[j] \/ (a[i] = a[j] /\ b[i] <= b[j])
  BY <1>2, LexLeast
<1> DEFINE at(k) == IndexIn(q, all[k].rule)
<1>4. \A j \in is : at(i) < at(j) \/ (at(i) = at(j) /\ place(i) <= place(j))
  BY <1>1, <1>3
<1> QED
  BY <1>4 DEF Likeliest, q, place

(* A visit adds an edge that fits, to a finding not reached before.         *)
Reached(grp, all, tree) ==
  /\ \A e \in tree.edges : EdgeFits(grp, e) /\ e.target \in tree.seen
  /\ OneCauseEach(tree.edges)

LEMMA VisitFact ==
  ASSUME NEW grp, Ranked(grp), NEW all, NEW top \in Nat, DOMAIN all = 1..top,
         \A i \in DOMAIN all : all[i] \in grp,
         NEW g, NEW tree, NEW t \in grp, Reached(grp, all, tree)
  PROVE  Reached(grp, all, Visit(g, all, tree, t))
<1> DEFINE is == CausesOf(g, all, tree.seen, t)
           cause == all[Likeliest(all, t, is)]
           e == [source |-> cause.id, target |-> t.id, from |-> cause.res, to |-> t.res,
               confidence |-> "probable"]
           next == [seen |-> tree.seen \cup {t.id}, edges |-> tree.edges \cup {e}]
<1>1. Visit(g, all, tree, t) = IF t.id \in tree.seen \/ is = {} THEN tree ELSE next
  BY DEF Visit
<1>2. CASE t.id \in tree.seen \/ is = {}
  BY <1>1, <1>2
<1>3. CASE t.id \notin tree.seen /\ is # {}
  <2>1. is \subseteq DOMAIN all /\ \A i \in is : all[i].rule \in CauseSet(t.rule)
    BY DEF CausesOf, CauseSet
  <2>2. Likeliest(all, t, is) \in is
    BY <1>3, <2>1, LikeliestFact
  <2>3. cause \in grp /\ cause.rule \in CauseSet(t.rule)
    BY <2>1, <2>2
  <2>4. t.rule \in RuleNames
    BY DEF Ranked, Ordered
  <2>5. Order[cause.rule] < Order[t.rule]
    BY <2>3, <2>4, OrderFalls
  <2> HIDE DEF cause
  <2>6. e.source = cause.id /\ e.target = t.id /\ e.confidence = "probable"
    OBVIOUS
  <2> HIDE DEF e
  <2>7. EdgeFits(grp, e)
    BY <2>3, <2>5, <2>6 DEF EdgeFits, Confidence
  <2>8. next.seen = tree.seen \cup {t.id} /\ next.edges = tree.edges \cup {e}
    OBVIOUS
  <2> HIDE DEF next
  <2>9. Reached(grp, all, next)
    <3>1. \A d \in next.edges : EdgeFits(grp, d) /\ d.target \in next.seen
      BY <2>6, <2>7, <2>8 DEF Reached
    <3>2. \A d \in tree.edges : d.target # t.id
      BY <1>3 DEF Reached
    <3>3. OneCauseEach(next.edges)
      BY <2>6, <2>8, <3>2 DEF Reached, OneCauseEach
    <3> QED
      BY <3>1, <3>3 DEF Reached
  <2>10. Visit(g, all, tree, t) = next
    BY <1>1, <1>3
  <2> QED
    BY <2>9, <2>10
<1> QED
  BY <1>2, <1>3

(* The causal tree: its edges fit, and each finding has one cause.          *)
LEMMA TreeFact ==
  ASSUME NEW grp, Ranked(grp), NEW all \in Seq(grp), all # <<>>, NEW g
  PROVE  LET es == GrowCausalTree(g, all) IN (\A e \in es : EdgeFits(grp, e)) /\ OneCauseEach(es)
<1> DEFINE n == Len(all) - 1
           t(k) == all[2 + (k % n)]
           edge(seen, k) ==
             LET cause == all[Likeliest(all, t(k), CausesOf(g, all, seen, t(k)))]
             IN [source |-> cause.id, target |-> t(k).id, from |-> cause.res, to |-> t(k).res,
                 confidence |-> "probable"]
           first == [seen |-> {all[1].id}, edges |-> {}]
           U == {all[1].id} \cup {t(k).id : k \in Nat}
           E == {edge(seen, k) : seen \in SUBSET U, k \in Nat}
           V == [seen : SUBSET U, edges : SUBSET E]
           step == [y \in Nat \X V |-> Visit(g, all, y[2], t(y[1]))]
<1>1. first \in V
  OBVIOUS
<1>2. ASSUME NEW k \in Nat, NEW v \in V PROVE Visit(g, all, v, t(k)) \in V
  <2> DEFINE e == edge(v.seen, k)
             next == [seen |-> v.seen \cup {t(k).id}, edges |-> v.edges \cup {e}]
  <2>1. Visit(g, all, v, t(k)) = v \/ Visit(g, all, v, t(k)) = next
    BY DEF Visit
  <2>2. v.seen \in SUBSET U /\ v.edges \in SUBSET E
    <3> HIDE DEF E, U
    <3> QED
      OBVIOUS
  <2>3. e \in E /\ t(k).id \in U
    <3>1. t(k).id \in U
      OBVIOUS
    <3> HIDE DEF U, edge
    <3>2. v.seen \in SUBSET U
      BY <2>2
    <3>3. e \in E
      BY <3>2
    <3> QED
      BY <3>1, <3>3
  <2> HIDE DEF e, E, U
  <2>4. next \in V
    BY <2>2, <2>3
  <2> HIDE DEF next
  <2> QED
    BY <2>1, <2>4
<1>3. \A k \in Nat, v \in V : step[<<k, v>>] = Visit(g, all, v, t(k))
  <2> HIDE DEF V, t
  <2> QED
    OBVIOUS
<1>4. StepsIn(step, V)
  <2> HIDE DEF V, t, step
  <2> QED
    BY <1>2, <1>3 DEF StepsIn
<1> HIDE DEF step, V, first
<1>5. PICK h : Repeats(h, V, first, step)
  BY <1>1, <1>4, Iterates
<1> DEFINE body(f, k) == IF k = 0 THEN first ELSE Visit(g, all, f[k - 1], t(k - 1))
<1> HIDE DEF t
<1>6. h = [k \in Nat |-> body(h, k)]
  <2>1. ASSUME NEW i \in Nat PROVE h[i] = body(h, i)
    <3>1. CASE i = 0
      BY <1>5, <3>1 DEF Repeats
    <3>2. CASE i # 0
      <4>1. i - 1 \in Nat /\ (i - 1) + 1 = i
        BY <3>2
      <4>2. h[i] = step[<<i - 1, h[i - 1]>>] /\ h[i - 1] \in V
        BY <1>5, <4>1 DEF Repeats
      <4> QED
        BY <1>3, <3>2, <4>1, <4>2
    <3> QED
      BY <3>1, <3>2
  <2> HIDE DEF body
  <2> QED
    BY <2>1, <1>5 DEF Repeats
<1> DEFINE tree[k \in Nat] ==
             IF k = 0 THEN [seen |-> {all[1].id}, edges |-> {}]
             ELSE Visit(g, all, tree[k - 1], all[2 + ((k - 1) % n)])
<1>7. tree = [k \in Nat |-> IF k = 0 THEN [seen |-> {all[1].id}, edges |-> {}]
                            ELSE Visit(g, all, tree[k - 1], all[2 + ((k - 1) % n)])]
  BY <1>6 DEF first, t
<1>8. GrowCausalTree(g, all) = tree[n * n].edges
  BY DEF GrowCausalTree
<1> HIDE DEF tree
<1>9. tree[0] = first /\ \A k \in Nat : k # 0 => tree[k] = Visit(g, all, tree[k - 1], t(k - 1))
  BY <1>7 DEF first, t
<1>10. Len(all) \in Nat /\ Len(all) >= 1 /\ DOMAIN all = 1..Len(all)
    /\ \A i \in DOMAIN all : all[i] \in grp
  OBVIOUS
<1>11. n \in Nat /\ n * n \in Nat
  <2>1. n \in Nat
    BY <1>10
  <2> HIDE DEF n
  <2> QED
    BY <2>1
<1> DEFINE T == {k \in Nat : n # 0 \/ k = 0 => Reached(grp, all, tree[k])}
<1>12. 0 \in T
  BY <1>9 DEF Reached, OneCauseEach, first
<1>13. ASSUME NEW k \in Nat, k \in T PROVE k + 1 \in T
  <2> SUFFICES ASSUME n # 0 PROVE Reached(grp, all, tree[k + 1])
    OBVIOUS
  <2>1. Reached(grp, all, tree[k])
    BY <1>13
  <2>2. k % n \in 0..(n - 1)
    <3> HIDE DEF n
    <3> QED
      BY <1>11
  <2>3. t(k) \in grp
    BY <1>10, <2>2 DEF t
  <2>4. k + 1 \in Nat /\ k + 1 # 0 /\ (k + 1) - 1 = k
    OBVIOUS
  <2>5. tree[k + 1] = Visit(g, all, tree[k], t(k))
    BY <1>9, <2>4
  <2>7. Reached(grp, all, Visit(g, all, tree[k], t(k)))
    BY <1>10, <2>1, <2>3, VisitFact
  <2> QED
    BY <2>5, <2>7
<1>14. Nat \subseteq T
  <2> HIDE DEF T
  <2> QED
    BY <1>12, <1>13, Induct
<1>15. n = 0 => n * n = 0
  <2> SUFFICES ASSUME NEW m, m = 0 PROVE m * m = 0
    BY Zenon
  <2> QED
    OBVIOUS
<1>16. Reached(grp, all, tree[n * n])
  BY <1>11, <1>14, <1>15
<1> HIDE DEF n
<1> QED
  BY <1>8, <1>16 DEF Reached

(*****************************************************************************)
(* The diagnosers: what each may rely on, and what it gives.                 *)
(*****************************************************************************)

(* The findings of a scan have their place in the orders.                   *)
LEMMA ScannedIsOrdered ==
  ASSUME NEW s, ObjectsTyped(s.obj), NEW f, Scanned(s, f)
  PROVE  Ordered(f) /\ f.id[2] = f.rule /\ f.id[1] = StandsFor(s, f.res)
<1>1. f.sev \in 1..5 /\ f.rule \in RuleNames /\ f.id[2] = f.rule /\ f.id[1] = StandsFor(s, f.res)
  BY DEF Scanned, FindingTyped
<1>2. f.res[2] \in Nat
  BY DEF Scanned, IsThere, ObjectsTyped
<1> QED
  BY <1>1, <1>2 DEF Ordered

(* The rules that find fault with a resource of each of these kinds.        *)
LEMMA RulesOfKind ==
  ASSUME NEW s, NEW f, Scanned(s, f)
  PROVE  /\ Kind(f.res) = "Pod" => f.rule \in PodRules
         /\ Kind(f.res) = "PVC" => f.rule = "PVCPending"
         /\ Kind(f.res) = "Node" => f.rule \in NodeRules
         /\ Kind(f.res) = "HPA" => f.rule \in {"HpaScaleTargetMissing", "HpaReplicasMismatch"}
<1>1. Kind(f.res) \in KindsOf(f.rule) /\ f.rule \in RuleNames
  BY DEF Scanned
<1> QED
  BY <1>1 DEF KindsOf, RuleNames, RuleOrder, PodRules, NodeRules

(* What a finding stands for it touches: of two with one id both belong to  *)
(* the same group.                                                          *)
LEMMA StandsForTouched ==
  ASSUME NEW s, NEW f, Scanned(s, f)
  PROVE  StandsFor(s, f.res) \in TouchKeys(s, f)
<1> DEFINE r == f.res
<1>1. CASE Kind(r) = "Pod" /\ OwnerChain(s, r) # <<>>
  <2>1. Has(s, r)
    BY <1>1 DEF Scanned, IsThere, Has, Kind
  <2>2. (ToSet(OwnerChain(s, r)) \cup {At(s, r).node, At(s, r).pvc} \cup ServicesOfPod(s, r)) \ {None}
          \subseteq TouchKeys(s, f)
    <3> DEFINE mine == (ToSet(OwnerChain(s, r)) \cup {At(s, r).node, At(s, r).pvc} \cup ServicesOfPod(s,
        r)) \ {None}
    <3>1. TouchKeys(s, f) = {r} \cup mine
      BY <1>1, <2>1 DEF TouchKeys, Workloads
    <3> HIDE DEF mine
    <3> QED
      BY <3>1 DEF mine
  <2> DEFINE up(x) == IF At(s, x).owner \in OfKinds(s, Workloads) THEN <<At(s, x).owner>> ELSE <<>>
             a == At(s, r).owner
             b == up(up(r)[1])
  <2>3. OwnerChain(s, r) = IF up(r) = <<>> THEN <<>> ELSE up(r) \o b
    BY DEF OwnerChain
  <2>4. a \in OfKinds(s, Workloads) /\ up(r) = <<a>>
    BY <1>1, <2>3
  <2>5. b = <<>> \/ \E y : b = <<y>>
    OBVIOUS
  <2> HIDE DEF a, b, up
  <2>6. OwnerChain(s, r) = <<a>> \o b
    BY <1>1, <2>3, <2>4
  <2>7. OwnerChain(s, r)[1] = a /\ 1 \in DOMAIN OwnerChain(s, r)
    <3>1. CASE b = <<>>
      BY <2>6, <3>1
    <3>2. CASE \E y : b = <<y>>
      BY <2>6, <3>2
    <3> QED
      BY <2>5, <3>1, <3>2
  <2>8. a # None
    BY <2>4 DEF OfKinds, Workloads, Kind, None
  <2>9. a \in ToSet(OwnerChain(s, r))
    BY <2>7 DEF ToSet
  <2> QED
    BY <1>1, <2>2, <2>7, <2>8, <2>9 DEF StandsFor
<1>2. CASE ~(Kind(r) = "Pod" /\ OwnerChain(s, r) # <<>>)
  <2>1. f.res \in TouchKeys(s, f)
    BY DEF TouchKeys
  <2> QED
    BY <1>2, <2>1 DEF StandsFor
<1> QED
  BY <1>1, <1>2

(* What the diagnosers rely on: the findings of a case are of one group,    *)
(* which nothing that touches it is left out of.                            *)
OncePerHpa(fs) == \A f, h \in fs : Kind(f.res) = "HPA" /\ f.rule = h.rule
    /\ f.res = h.res => f.id = h.id
CaseFits(c, grp) ==
  /\ ObjectsTyped(c.s.obj) /\ DOMAIN c.items \subseteq Nat
      /\ \A i \in DOMAIN c.items : c.items[i] \in grp
  /\ \A f \in grp : Scanned(c.s, f) /\ Denies(c.s, f)
  /\ \A f \in c.all : Scanned(c.s, f)
  /\ \A f \in grp, h \in c.all : TouchKeys(c.s, f) \cap TouchKeys(c.s, h) # {} => h \in grp
  /\ \A f, h \in grp : Kind(f.res) = "HPA" => h.res = f.res
  /\ OncePerHpa(grp)

(* What is looked up by the ids of a group's findings is of that group.     *)
LEMMA RestoredFact ==
  ASSUME NEW s, ObjectsTyped(s.obj), NEW fs, Scan(s, fs), NEW grp \in Groups(s, fs),
         NEW items \in Seq(grp)
  PROVE  LET its == Restored(fs, items)
         IN /\ its \in Seq(grp) /\ DOMAIN its = DOMAIN items
            /\ \A i \in DOMAIN its : its[i].id = items[i].id
<1> DEFINE byID(id) == CHOOSE f \in fs : f.id = id /\ \A h \in fs : h.id = id => ~Earlier(f, h)
           its == [i \in DOMAIN items |-> byID(items[i].id)]
<1>1. Restored(fs, items) = its
  BY DEF Restored
<1>2. \A f \in fs : Ordered(f) /\ f.id[2] = f.rule /\ f.id[1] = StandsFor(s, f.res) /\ Scanned(s, f)
  BY ScannedIsOrdered DEF Scan
<1>3. /\ grp \subseteq fs
      /\ \A f \in grp, h \in fs : TouchKeys(s, f) \cap TouchKeys(s, h) # {} => h \in grp
  BY GroupFacts DEF Scan
<1>5. ASSUME NEW i \in DOMAIN items PROVE its[i] \in grp /\ its[i].id = items[i].id
  <2> DEFINE f == items[i]
             T == {h \in fs : h.id = f.id}
  <2>1. f \in grp
    OBVIOUS
  <2>2. T # {} /\ \A h \in T : Ordered(h)
    BY <1>2, <1>3, <2>1
  <2>3. IsFiniteSet(T)
    BY FS_Subset DEF Scan
  <2>4. PICK k \in T : \A h \in T : ~Earlier(k, h)
    <3> HIDE DEF T
    <3> QED
      BY <2>2, <2>3, LastFact
  <2>5. k \in fs /\ k.id = f.id /\ \A h \in fs : h.id = f.id => ~Earlier(k, h)
    BY <2>4
  <2>6. byID(f.id) \in fs /\ byID(f.id).id = f.id
    BY <2>5
  <2> DEFINE x == its[i]
  <2>7. x \in fs /\ x.id = f.id
    BY <2>6
  <2> HIDE DEF x, f
  <2>8. StandsFor(s, x.res) = StandsFor(s, f.res)
    BY <1>2, <1>3, <2>1, <2>7
  <2>9. StandsFor(s, x.res) \in TouchKeys(s, x) /\ StandsFor(s, f.res) \in TouchKeys(s, f)
    BY <1>2, <1>3, <2>1, <2>7, StandsForTouched
  <2>10. x \in grp
    BY <1>3, <2>1, <2>7, <2>8, <2>9
  <2> QED
    BY <2>7, <2>10 DEF x, f
<1>6. DOMAIN its = 1..Len(items) /\ DOMAIN items = 1..Len(items) /\ Len(items) \in Nat
  OBVIOUS
<1> HIDE DEF its
<1>7. its = [i \in 1..Len(items) |-> its[i]]
  BY <1>6 DEF its
<1>8. its \in Seq(grp)
  BY <1>5, <1>6, <1>7
<1> QED
  BY <1>1, <1>5, <1>6, <1>8

(* The case that a diagnoser is given is such a case.                       *)
LEMMA CaseFact ==
  ASSUME NEW s, ObjectsTyped(s.obj), NEW fs, Scan(s, fs), OncePerHpa(fs), NEW g,
         NEW grp \in Groups(s, fs), NEW inc, Gathered(grp, inc)
  PROVE  LET c == CaseOf(s, g, fs, inc)
         IN /\ CaseFits(c, grp) /\ c.s = s /\ DOMAIN c.items = DOMAIN inc.items
            /\ \A i \in DOMAIN c.items : c.items[i].id = inc.items[i].id
<1> DEFINE its == Restored(fs, inc.items)
           c == CaseOf(s, g, fs, inc)
<1>1. c = [s |-> s, g |-> g, all |-> fs, items |-> its]
  BY DEF CaseOf
<1>2. \A f \in fs : Scanned(s, f) /\ Denies(s, f)
  BY DEF Scan
<1>3. /\ grp \subseteq fs
      /\ \A f \in grp, h \in fs : TouchKeys(s, f) \cap TouchKeys(s, h) # {} => h \in grp
  BY GroupFacts DEF Scan
<1>4. inc.items \in Seq(grp)
  BY DEF Gathered
<1>5. its \in Seq(grp) /\ DOMAIN its = DOMAIN inc.items
        /\ \A i \in DOMAIN its : its[i].id = inc.items[i].id
  BY <1>4, RestoredFact
<1> HIDE DEF its, c
<1>6. DOMAIN its \subseteq Nat /\ \A i \in DOMAIN its : its[i] \in grp
  BY <1>5
<1>7. c.s = s /\ c.items = its /\ c.all = fs
  BY <1>1
<1>8. \A f, h \in grp : Kind(f.res) = "HPA" => h.res = f.res
  <2>1. \A f \in fs : IsThere(s, f.res)
    BY <1>2 DEF Scanned
  <2> QED
    BY <2>1, HpaGroup DEF Scan
<1>9. OncePerHpa(grp)
  BY <1>3 DEF OncePerHpa
<1>10. CaseFits(c, grp)
  BY <1>2, <1>3, <1>6, <1>7, <1>8, <1>9 DEF CaseFits
<1> QED
  BY <1>5, <1>7, <1>10 DEF c

(* Results: what every diagnoser gives.                                     *)
Names == {DiagnoserOrder[i] : i \in 1..24}
Statuses == {"confirmed", "probable", "unknown"}
Shaped(r) ==
  /\ r = [id |-> r.id, status |-> r.status, conf |-> r.conf, refs |-> r.refs, denied |-> r.denied,
      edges |-> r.edges]
  /\ r.id \in Names /\ r.status \in Statuses /\ r.conf \in 0..100
Basic(r) == Shaped(r) /\ r.denied = {} /\ r.edges = <<>>
ResultFits(c, grp, r) == Shaped(r) /\ r.denied \cap DOMAIN c.s.obj = {} /\ EdgesFit(grp, r.edges)

(* What fits, from the simplest result to one with edges and denials.       *)
LEMMA ResultIsBasic ==
  ASSUME NEW id \in Names, NEW status \in Statuses, NEW conf \in 0..100, NEW refs
  PROVE  Basic(Result(id, status, conf, refs))
  BY DEF Result, Basic, Shaped

LEMMA KindsOfResult ==
  \A id \in Names, conf \in 0..100 : \A refs :
    Basic(Confirmed(id, conf, refs)) /\ Basic(Probable(id, conf, refs)) /\ Basic(Unknown(id, conf,
        refs))
  BY ResultIsBasic DEF Confirmed, Probable, Unknown, Statuses

LEMMA BasicFits ==
  ASSUME NEW c, NEW grp, NEW r, Basic(r)
  PROVE  ResultFits(c, grp, r)
  BY DEF Basic, ResultFits, EdgesFit

LEMMA WithEdges ==
  ASSUME NEW c, NEW grp, NEW r, Shaped(r), r.denied \cap DOMAIN c.s.obj = {}, NEW es, EdgesFit(grp, es)
  PROVE  ResultFits(c, grp, [r EXCEPT !.edges = es])
<1>1. PICK a, b, d, e, f, h : r = [id |-> a, status |-> b, conf |-> d, refs |-> e, denied |-> f,
    edges |-> h]
  BY DEF Shaped
<1> DEFINE x == [r EXCEPT !.edges = es]
<1>2. x = [id |-> a, status |-> b, conf |-> d, refs |-> e, denied |-> f, edges |-> es]
  BY <1>1
<1> HIDE DEF x
<1>3. Shaped(x) /\ x.denied = r.denied /\ x.edges = es
  BY <1>1, <1>2 DEF Shaped
<1> QED
  BY <1>3 DEF ResultFits, x

LEMMA WithDenied ==
  ASSUME NEW r, Shaped(r), NEW ds
  PROVE  LET x == [r EXCEPT !.denied = ds] IN Shaped(x) /\ x.denied = ds /\ x.edges = r.edges
<1>1. PICK a, b, d, e, f, h : r = [id |-> a, status |-> b, conf |-> d, refs |-> e, denied |-> f,
    edges |-> h]
  BY DEF Shaped
<1> DEFINE x == [r EXCEPT !.denied = ds]
<1>2. x = [id |-> a, status |-> b, conf |-> d, refs |-> e, denied |-> ds, edges |-> h]
  BY <1>1
<1> HIDE DEF x
<1>3. Shaped(x) /\ x.denied = ds /\ x.edges = r.edges
  BY <1>1, <1>2 DEF Shaped
<1> QED
  BY <1>3 DEF x

(* The findings that a diagnoser picks.                                     *)
LEMMA OfRuleFact ==
  ASSUME NEW c, NEW grp, CaseFits(c, grp), NEW rule, HasRule(c, {rule})
  PROVE  OfRule(c, rule) \in grp /\ OfRule(c, rule).rule = rule
<1> DEFINE is == Places(c, {rule})
<1>1. is # {} /\ is \subseteq Nat /\ is \subseteq DOMAIN c.items /\ \A i \in is : c.items[i].rule = rule
  BY DEF HasRule, Places, CaseFits
<1> HIDE DEF is
<1>2. Min(is) \in is
  BY <1>1, MinFact
<1>3. OfRule(c, rule) = c.items[Min(is)]
  BY DEF OfRule, FirstAt, is
<1> QED
  BY <1>1, <1>2, <1>3 DEF CaseFits

LEMMA FirstRuleFact ==
  ASSUME NEW c, NEW grp, CaseFits(c, grp), NEW S, NEW q \in Seq(S), HasRule(c, ToSet(q))
  PROVE  /\ FirstRule(c, q) \in grp /\ HasRule(c, {FirstRule(c, q).rule})
         /\ \E i \in DOMAIN q : FirstRule(c, q).rule = q[i] /\ \A j \in 1..(i - 1) : ~HasRule(c, {q[j]})
<1> DEFINE T == {r \in ToSet(q) : HasRule(c, {r})}
<1>1. \E i \in DOMAIN q : q[i] \in T
  BY DEF HasRule, Places, ToSet
<1>2. DOMAIN q \subseteq Nat \ {0} /\ \A i \in DOMAIN q : 1..i \subseteq DOMAIN q
  OBVIOUS
<1>3. \A j \in DOMAIN q : q[j] \notin T => ~HasRule(c, {q[j]})
  BY DEF ToSet
<1>4. \A r \in T : HasRule(c, {r})
  OBVIOUS
<1> HIDE DEF T
<1>5. PICK i \in DOMAIN q : FirstOf(q, T) = q[i] /\ q[i] \in T /\ \A j \in 1..(i - 1) : q[j] \notin T
  BY <1>1, <1>2, FirstOfFact
<1>6. FirstRule(c, q) = OfRule(c, q[i])
  BY <1>5 DEF FirstRule, T
<1>7. HasRule(c, {q[i]})
  BY <1>4, <1>5
<1>8. OfRule(c, q[i]) \in grp /\ OfRule(c, q[i]).rule = q[i]
  BY <1>7, OfRuleFact
<1>9. \A j \in 1..(i - 1) : j \in DOMAIN q
  OBVIOUS
<1> QED
  BY <1>3, <1>5, <1>6, <1>7, <1>8, <1>9

(* The edges that a diagnoser draws.                                        *)
LEMMA CausalFits ==
  ASSUME NEW grp, NEW c, NEW src \in grp, NEW dst \in grp, Order[src.rule] < Order[dst.rule],
         NEW conf \in Confidence
  PROVE  EdgesFit(grp, CausalEdge(c, src, dst, conf))
<1> DEFINE e == Edge(src, dst, conf)
<1>1. EdgeFits(grp, e)
  BY DEF Edge, EdgeFits
<1> HIDE DEF e
<1>2. EdgesFit(grp, <<>>) /\ EdgesFit(grp, <<e>>)
  <2>1. DOMAIN <<e>> = 1..1 /\ <<e>>[1] = e /\ DOMAIN <<>> = {}
    OBVIOUS
  <2> QED
    BY <1>1, <2>1 DEF EdgesFit
<1>3. CausalEdge(c, src, dst, conf) = <<>> \/ CausalEdge(c, src, dst, conf) = <<e>>
  BY DEF CausalEdge, e
<1> QED
  BY <1>2, <1>3

LEMMA ExplainsFits ==
  ASSUME NEW c, NEW grp, CaseFits(c, grp), NEW f \in grp, NEW is, is \subseteq DOMAIN c.items,
         \A i \in is : Order[f.rule] < Order[c.items[i].rule] \/ c.items[i].id = f.id,
             NEW conf \in Confidence
  PROVE  EdgesFit(grp, Explains(c, f, is, conf))
<1> DEFINE es == Explains(c, f, is, conf)
<1>1. DOMAIN es \subseteq is /\ \A i \in DOMAIN es : es[i] = Edge(f, c.items[i], conf)
    /\ c.items[i].id # f.id
  BY DEF Explains, Justified
<1> HIDE DEF es
<1>2. ASSUME NEW i \in DOMAIN es PROVE EdgeFits(grp, es[i])
  <2>1. c.items[i] \in grp /\ Order[f.rule] < Order[c.items[i].rule]
    BY <1>1 DEF CaseFits
  <2>2. es[i].source = f.id /\ es[i].target = c.items[i].id /\ es[i].confidence = conf
    BY <1>1 DEF Edge
  <2> QED
    BY <2>1, <2>2 DEF EdgeFits
<1>3. DOMAIN es \subseteq Nat
  BY <1>1 DEF CaseFits
<1> QED
  BY <1>2, <1>3 DEF EdgesFit, es

LEMMA ExplainedByFits ==
  ASSUME NEW c, NEW grp, CaseFits(c, grp), NEW f \in grp, NEW is, is \subseteq DOMAIN c.items,
         \A i \in is : Order[c.items[i].rule] < Order[f.rule], NEW conf \in Confidence
  PROVE  EdgesFit(grp, ExplainedBy(c, f, is, conf))
<1> DEFINE es == ExplainedBy(c, f, is, conf)
<1>1. DOMAIN es \subseteq is /\ \A i \in DOMAIN es : es[i] = Edge(c.items[i], f, conf)
  BY DEF ExplainedBy
<1> HIDE DEF es
<1>2. ASSUME NEW i \in DOMAIN es PROVE EdgeFits(grp, es[i])
  <2>1. c.items[i] \in grp /\ Order[c.items[i].rule] < Order[f.rule]
    BY <1>1 DEF CaseFits
  <2>2. es[i].source = c.items[i].id /\ es[i].target = f.id /\ es[i].confidence = conf
    BY <1>1 DEF Edge
  <2> QED
    BY <2>1, <2>2 DEF EdgeFits
<1>3. DOMAIN es \subseteq Nat
  BY <1>1 DEF CaseFits
<1> QED
  BY <1>2, <1>3 DEF EdgesFit, es

LEMMA OnPodsFact ==
  ASSUME NEW c, NEW grp, CaseFits(c, grp), NEW pods
  PROVE  /\ OnPods(c, pods) \subseteq DOMAIN c.items
         /\ \A i \in OnPods(c, pods) : c.items[i].rule \in PodRules /\ Order[c.items[i].rule] \in 5..9
<1>1. OnPods(c, pods) \subseteq DOMAIN c.items /\ \A i \in OnPods(c,
    pods) : Kind(c.items[i].res) = "Pod"
  BY DEF OnPods, OfKind
<1>2. \A i \in OnPods(c, pods) : c.items[i].rule \in PodRules
  BY <1>1, RulesOfKind DEF CaseFits
<1>3. \A r \in PodRules : Order[r] \in 5..9
  BY DEF Order, PodRules, RuleNames, RuleOrder, NodeRules
<1> QED
  BY <1>1, <1>2, <1>3

(* Every diagnoser's result is one: those that draw no edges first.         *)
LEMMA NamesFact ==
  Names = {"NETWORK_ENDPOINTSLICE_INCONSISTENT", "NETWORK_INGRESS_BACKEND_UNAVAILABLE",
    "NETWORK_POLICY_POSTURE", "NETWORK_SERVICE_NO_ENDPOINT", "NODE_NOTREADY", "NODE_PRESSURE",
    "PLATFORM_DNS_ABNORMAL", "POD_CRASHLOOP", "POD_EVICTED", "POD_FAILEDMOUNT", "POD_IMAGEPULL",
    "POD_OOMKILLED", "POD_PROBE_FAILING", "POD_UNSCHEDULABLE", "STORAGE_CLASS_INVALID",
    "STORAGE_PVC_PENDING", "STORAGE_PV_UNAVAILABLE", "STORAGE_VOLUME_ATTACHMENT_STUCK",
    "WORKLOAD_CONFIG_REF_MISSING", "WORKLOAD_DAEMONSET_GAP", "WORKLOAD_HPA_NOT_SCALING",
    "WORKLOAD_JOB_FAILED", "WORKLOAD_PDB_BLOCKING", "WORKLOAD_REPLICAS_UNAVAILABLE"}
  BY DEF Names, DiagnoserOrder

(* What a diagnoser first writes: a result of its name on a step of the     *)
(* confidence ladder.                                                       *)
Given(id, r) ==
  \E conf \in {45, 60, 75, 85, 95} : \E refs :
    r = Confirmed(id, conf, refs) \/ r = Probable(id, conf, refs) \/ r = Unknown(id, conf, refs)

LEMMA GivenIsBasic == ASSUME NEW id \in Names, NEW r, Given(id, r) PROVE Basic(r)
<1>1. PICK conf \in {45, 60, 75, 85, 95} : \E refs :
        r = Confirmed(id, conf, refs) \/ r = Probable(id, conf, refs) \/ r = Unknown(id, conf, refs)
  BY DEF Given
<1>2. PICK refs :
        r = Confirmed(id, conf, refs) \/ r = Probable(id, conf, refs) \/ r = Unknown(id, conf, refs)
  BY <1>1
<1>3. conf \in 0..100
  OBVIOUS
<1>4. Basic(Confirmed(id, conf, refs)) /\ Basic(Probable(id, conf, refs)) /\ Basic(Unknown(id, conf,
    refs))
  BY <1>3, KindsOfResult
<1> QED
  BY <1>2, <1>4, Zenon

LEMMA CrashLoopGiven == ASSUME NEW c, NEW r \in CrashLoop(c) PROVE Given("POD_CRASHLOOP", r)
  BY DEF CrashLoop, When, Given

LEMMA OOMGiven == ASSUME NEW c, NEW r \in OOM(c) PROVE Given("POD_OOMKILLED", r)
  BY DEF OOM, When, Given

LEMMA ImagePullGiven == ASSUME NEW c, NEW r \in ImagePull(c) PROVE Given("POD_IMAGEPULL", r)
  BY DEF ImagePull, When, Given

LEMMA ProbeFailsGiven == ASSUME NEW c, NEW r \in ProbeFails(c) PROVE Given("POD_PROBE_FAILING", r)
  BY DEF ProbeFails, When, Given

LEMMA DnsAbnormalGiven == ASSUME NEW c, NEW r \in DnsAbnormal(c) PROVE Given("PLATFORM_DNS_ABNORMAL", r)
  BY DEF DnsAbnormal, When, Given

LEMMA PolicyPostureGiven == ASSUME NEW c, NEW r \in PolicyPosture(c)
    PROVE Given("NETWORK_POLICY_POSTURE", r)
  BY DEF PolicyPosture, When, Given

LEMMA AttachmentStuckGiven == ASSUME NEW c, NEW r \in AttachmentStuck(c)
    PROVE Given("STORAGE_VOLUME_ATTACHMENT_STUCK", r)
  BY DEF AttachmentStuck, When, Given

LEMMA JobFailsGiven == ASSUME NEW c, NEW r \in JobFails(c) PROVE Given("WORKLOAD_JOB_FAILED", r)
  BY DEF JobFails, When, Given

LEMMA BudgetBlocksGiven == ASSUME NEW c, NEW r \in BudgetBlocks(c) PROVE Given("WORKLOAD_PDB_BLOCKING",
    r)
  BY DEF BudgetBlocks, When, Given

(*****************************************************************************)
(* The diagnosers that draw edges or deny an object, one by one.             *)
(*****************************************************************************)

(* Those that draw edges.                                                   *)
LEMMA OrderTable ==
  /\ Order["StorageClassNoProvisioner"] = 1 /\ \A r \in NodeRules : Order[r] = 1
  /\ Order["VolumeAttachmentStuck"] = 2 /\ Order["PVFailed"] = 3 /\ Order["PVCPending"] = 4
  /\ Order["ConfigRefNotFound"] = 5 /\ Order["FailedMount"] = 6 /\ Order["EvictedPod"] = 6
  /\ Order["PendingPod"] = 7 /\ Order["DeploymentReplica"] = 10 /\ Order["StatefulSetReplica"] = 10
  /\ Order["DeploymentProgressDeadline"] = 10 /\ Order["DaemonSetReplica"] = 10
  /\ Order["ServiceNoEndpoint"] = 11 /\ Order["IngressBackend"] = 12
      /\ Order["IngressHostConflict"] = 12
  /\ Order["HpaScaleTargetMissing"] = 12 /\ Order["HpaReplicasMismatch"] = 13
<1>1. NodeRules \subseteq RuleNames
  BY DEF NodeRules, RuleNames, RuleOrder
<1> QED
  BY <1>1 DEF Order, RuleNames, RuleOrder, NodeRules

LEMMA GivenWithEdges ==
  ASSUME NEW c, NEW grp, NEW id \in Names, NEW b, Given(id, b), NEW es, EdgesFit(grp, es)
  PROVE  ResultFits(c, grp, [b EXCEPT !.edges = es])
<1>1. Basic(b)
  BY GivenIsBasic
<1>2. Shaped(b) /\ b.denied \cap DOMAIN c.s.obj = {}
  BY <1>1 DEF Basic
<1> QED
  BY <1>2, WithEdges

LEMMA GivenFits ==
  ASSUME NEW c, NEW grp, NEW id \in Names, NEW b, Given(id, b)
  PROVE  ResultFits(c, grp, b)
  BY GivenIsBasic, BasicFits

LEMMA UnschedulableFits ==
  ASSUME NEW c, NEW grp, CaseFits(c, grp), NEW r \in Unschedulable(c)
  PROVE  ResultFits(c, grp, r)
<1> DEFINE f == OfRule(c, "PendingPod")
           claim == OfRule(c, "PVCPending")
           id == "POD_UNSCHEDULABLE"
           es == CausalEdge(c, claim, f, "confirmed")
<1>1. HasRule(c, {"PendingPod"})
  BY DEF Unschedulable, When
<1>2. \/ Given(id, r)
      \/ HasRule(c, {"PVCPending"}) /\ \E b : Given(id, b) /\ r = [b EXCEPT !.edges = es]
  BY DEF Unschedulable, When, Given
<1>3. id \in Names
  BY NamesFact
<1> HIDE DEF id
<1>4. CASE HasRule(c, {"PVCPending"}) /\ \E b : Given(id, b) /\ r = [b EXCEPT !.edges = es]
  <2>1. f \in grp /\ f.rule = "PendingPod" /\ claim \in grp /\ claim.rule = "PVCPending"
    BY <1>1, <1>4, OfRuleFact
  <2>2. EdgesFit(grp, es)
    BY <2>1, OrderTable, CausalFits DEF Confidence
  <2> HIDE DEF es
  <2> QED
    BY <1>3, <1>4, <2>2, GivenWithEdges
<1> QED
  BY <1>2, <1>3, <1>4, GivenFits

LEMMA MountFailsFits ==
  ASSUME NEW c, NEW grp, CaseFits(c, grp), NEW r \in MountFails(c)
  PROVE  ResultFits(c, grp, r)
<1> DEFINE f == OfRule(c, "FailedMount")
           id == "POD_FAILEDMOUNT"
           es(rule) == CausalEdge(c, OfRule(c, rule), f, "confirmed")
           from == {"PVCPending", "VolumeAttachmentStuck", "ConfigRefNotFound"}
<1>1. HasRule(c, {"FailedMount"})
  BY DEF MountFails, When
<1>2. \/ Given(id, r)
      \/ \E rule \in from : HasRule(c, {rule}) /\ \E b : Given(id, b)
          /\ r = [b EXCEPT !.edges = es(rule)]
  <2>1. CASE HasRule(c, {"PVCPending"})
    <3>1. r = [Confirmed(id, 95, Refs(f)) EXCEPT !.edges = es("PVCPending")]
      BY <1>1, <2>1 DEF MountFails, When
    <3>2. Given(id, Confirmed(id, 95, Refs(f)))
      BY DEF Given
    <3> HIDE DEF es, id, f
    <3> QED
      BY <2>1, <3>1, <3>2
  <2>2. CASE ~HasRule(c, {"PVCPending"}) /\ HasRule(c, {"VolumeAttachmentStuck"})
    <3> DEFINE b == Confirmed(id, 85, Refs(f) \cup Refs(OfRule(c, "VolumeAttachmentStuck")))
    <3>1. r = [b EXCEPT !.edges = es("VolumeAttachmentStuck")]
      BY <1>1, <2>2 DEF MountFails, When
    <3>2. Given(id, b)
      BY DEF Given
    <3> HIDE DEF es, id, f, b
    <3> QED
      BY <2>2, <3>1, <3>2
  <2>3. CASE ~HasRule(c, {"PVCPending"}) /\ ~HasRule(c, {"VolumeAttachmentStuck"})
    <3> DEFINE b == Confirmed(id, 95, Refs(f) \cup Refs(OfRule(c, "ConfigRefNotFound")))
    <3>1. \/ HasRule(c, {"ConfigRefNotFound"}) /\ r = [b EXCEPT !.edges = es("ConfigRefNotFound")]
          \/ r = Confirmed(id, 75, Refs(f)) \/ r = Probable(id, 45, Refs(f)) \/ r = Probable(id, 75,
              Refs(f))
      BY <1>1, <2>3 DEF MountFails, When
    <3>2. Given(id, b)
      BY DEF Given
    <3>3. Given(id, Confirmed(id, 75, Refs(f)))
      BY DEF Given
    <3>4. Given(id, Probable(id, 45, Refs(f))) /\ Given(id, Probable(id, 75, Refs(f)))
      BY DEF Given
    <3> HIDE DEF es, id, f, b
    <3> QED
      BY <3>1, <3>2, <3>3, <3>4
  <2> QED
    BY <2>1, <2>2, <2>3
<1>3. id \in Names
  BY NamesFact
<1> HIDE DEF id
<1>4. ASSUME NEW rule \in from, HasRule(c, {rule}), NEW b, Given(id, b),
    r = [b EXCEPT !.edges = es(rule)]
      PROVE  ResultFits(c, grp, r)
  <2>1. f \in grp /\ f.rule = "FailedMount" /\ OfRule(c, rule) \in grp /\ OfRule(c, rule).rule = rule
    BY <1>1, <1>4, OfRuleFact
  <2>2. EdgesFit(grp, es(rule))
    BY <2>1, OrderTable, CausalFits DEF Confidence
  <2> HIDE DEF es
  <2> QED
    BY <1>3, <1>4, <2>2, GivenWithEdges
<1> HIDE DEF es, from
<1> QED
  BY <1>2, <1>3, <1>4, GivenFits

LEMMA FindingOnFact ==
  ASSUME NEW c, NEW grp, CaseFits(c, grp), NEW res, NEW rules, NEW h \in FindingOn(c, res, rules)
  PROVE  h.res = res /\ h.rule \in rules /\ (h \in grp \/ h \in c.all)
<1> DEFINE here == {i \in Places(c, rules) : c.items[i].res = res}
           any == {f \in c.all : f.res = res /\ f.rule \in rules}
<1>1. CASE here # {}
  <2>1. here \subseteq Nat /\ \A i \in here : c.items[i] \in grp /\ c.items[i].res = res
      /\ c.items[i].rule \in rules
    BY DEF Places, CaseFits
  <2>2. h = c.items[Min(here)]
    BY <1>1 DEF FindingOn, FirstAt
  <2> HIDE DEF here
  <2>3. Min(here) \in here
    BY <1>1, <2>1, MinFact
  <2> QED
    BY <2>1, <2>2, <2>3
<1>2. CASE here = {}
  <2>1. any # {} /\ h = First(any)
    BY <1>2 DEF FindingOn
  <2>2. \A f \in any : Ordered(f)
    BY ScannedIsOrdered DEF CaseFits
  <2>3. h \in any
    BY <2>1, <2>2, FirstFact
  <2> QED
    BY <2>3
<1> QED
  BY <1>1, <1>2

LEMMA EvictedFits ==
  ASSUME NEW c, NEW grp, CaseFits(c, grp), NEW r \in Evicted(c)
  PROVE  ResultFits(c, grp, r)
<1> DEFINE f == OfRule(c, "EvictedPod")
           id == "POD_EVICTED"
           n == At(c.s, f.res).node
           on == FindingOn(c, n, NodeRules)
           h == CHOOSE x \in on : TRUE
           es == CausalEdge(c, h, f, "confirmed")
<1>1. HasRule(c, {"EvictedPod"})
  BY DEF Evicted, When
<1>2. \/ Given(id, r)
      \/ \E b : Given(id, b) /\ r = [b EXCEPT !.edges = <<>>]
      \/ n # None /\ on # {} /\ \E b : Given(id, b) /\ r = [b EXCEPT !.edges = es]
  BY DEF Evicted, When, Given
<1>3. id \in Names
  BY NamesFact
<1> HIDE DEF id
<1>4. CASE \E b : Given(id, b) /\ r = [b EXCEPT !.edges = <<>>]
  <2>1. EdgesFit(grp, <<>>)
    BY DEF EdgesFit
  <2> QED
    BY <1>3, <1>4, <2>1, GivenWithEdges
<1>5. CASE n # None /\ on # {} /\ \E b : Given(id, b) /\ r = [b EXCEPT !.edges = es]
  <2>1. f \in grp /\ f.rule = "EvictedPod"
    BY <1>1, OfRuleFact
  <2>2. h \in on
    BY <1>5
  <2>3. h.res = n /\ h.rule \in NodeRules /\ (h \in grp \/ h \in c.all)
    BY <2>2, FindingOnFact
  <2>4. Scanned(c.s, f)
    BY <2>1 DEF CaseFits
  <2>5. Kind(f.res) = "Pod" /\ Has(c.s, f.res)
    <3> HIDE DEF f
    <3>1. KindsOf("EvictedPod") = {"Pod"}
      BY DEF KindsOf, PodRules, NodeRules
    <3>2. Kind(f.res) = "Pod" /\ IsThere(c.s, f.res)
      BY <2>1, <2>4, <3>1 DEF Scanned
    <3> QED
      BY <3>2 DEF IsThere, Has, Kind
  <2>6. n \in TouchKeys(c.s, f)
    <3> DEFINE mine == (ToSet(OwnerChain(c.s, f.res)) \cup {At(c.s, f.res).node, At(c.s, f.res).pvc}
                         \cup ServicesOfPod(c.s, f.res)) \ {None}
    <3>1. n \in mine
      BY <1>5
    <3>2. TouchKeys(c.s, f) = {f.res} \cup mine
      <4> HIDE DEF f
      <4> QED
        BY <2>5 DEF TouchKeys, Workloads
    <3> HIDE DEF mine
    <3> QED
      BY <3>1, <3>2
  <2>7. h.res \in TouchKeys(c.s, h)
    BY DEF TouchKeys
  <2> HIDE DEF f, h, n, on
  <2>8. TouchKeys(c.s, f) \cap TouchKeys(c.s, h) # {}
    BY <2>3, <2>6, <2>7
  <2>9. h \in grp
    BY <2>1, <2>3, <2>8 DEF CaseFits
  <2>10. Order[h.rule] < Order[f.rule]
    BY <2>1, <2>3, OrderTable
  <2>11. EdgesFit(grp, es)
    BY <2>1, <2>9, <2>10, CausalFits DEF Confidence
  <2> HIDE DEF es
  <2> QED
    BY <1>3, <1>5, <2>11, GivenWithEdges
<1> QED
  BY <1>2, <1>3, <1>4, <1>5, GivenFits

(* A result that denies what is not in the snapshot fits.                   *)
LEMMA GivenWithDenied ==
  ASSUME NEW c, NEW grp, NEW id \in Names, NEW b, Given(id, b), NEW ds, ds \cap DOMAIN c.s.obj = {},
         NEW es, EdgesFit(grp, es)
  PROVE  ResultFits(c, grp, [[b EXCEPT !.denied = ds] EXCEPT !.edges = es])
<1> DEFINE x == [b EXCEPT !.denied = ds]
<1>1. Shaped(b)
  BY GivenIsBasic DEF Basic
<1>2. Shaped(x) /\ x.denied = ds
  BY <1>1, WithDenied
<1> HIDE DEF x
<1>3. ResultFits(c, grp, [x EXCEPT !.edges = es])
  BY <1>2, WithEdges
<1> QED
  BY <1>3 DEF x

(* The finding that a diagnoser starts from.                                *)
LEMMA TakenFrom ==
  ASSUME NEW c, NEW grp, CaseFits(c, grp), NEW S, NEW q \in Seq(S), HasRule(c, ToSet(q))
  PROVE  FirstRule(c, q) \in grp /\ FirstRule(c, q).rule \in ToSet(q)
<1>1. /\ FirstRule(c, q) \in grp /\ HasRule(c, {FirstRule(c, q).rule})
      /\ \E i \in DOMAIN q : FirstRule(c, q).rule = q[i] /\ \A j \in 1..(i - 1) : ~HasRule(c, {q[j]})
  BY FirstRuleFact
<1> QED
  BY <1>1 DEF ToSet

(* What its first evidence names is not in the snapshot.                    *)
LEMMA EvidenceDenies ==
  ASSUME NEW c, NEW grp, CaseFits(c, grp), NEW f \in grp, f.rule \in DenyingRules
  PROVE  {f.ev[1][3]} \cap DOMAIN c.s.obj = {}
  BY DEF CaseFits, Denies

LEMMA ConfigMissingRefFits ==
  ASSUME NEW c, NEW grp, CaseFits(c, grp), NEW r \in ConfigMissingRef(c)
  PROVE  ResultFits(c, grp, r)
<1> DEFINE f == OfRule(c, "ConfigRefNotFound")
           m == OfRule(c, "FailedMount")
           id == "WORKLOAD_CONFIG_REF_MISSING"
           b == Confirmed(id, 85, Refs(f))
           ds == {f.ev[1][3]}
           es == IF HasRule(c, {"FailedMount"}) THEN CausalEdge(c, f, m, "confirmed") ELSE <<>>
<1>1. HasRule(c, {"ConfigRefNotFound"})
  BY DEF ConfigMissingRef, When
<1>2. r = [[b EXCEPT !.denied = ds] EXCEPT !.edges = es]
  BY DEF ConfigMissingRef, When
<1>3. id \in Names /\ Given(id, b)
  BY NamesFact DEF Given
<1>4. f \in grp /\ f.rule = "ConfigRefNotFound"
  BY <1>1, OfRuleFact
<1>5. ds \cap DOMAIN c.s.obj = {}
  BY <1>4, EvidenceDenies DEF DenyingRules
<1>6. EdgesFit(grp, es)
  <2>1. CASE HasRule(c, {"FailedMount"})
    <3>1. m \in grp /\ m.rule = "FailedMount"
      BY <2>1, OfRuleFact
    <3>2. EdgesFit(grp, CausalEdge(c, f, m, "confirmed"))
      BY <1>4, <3>1, OrderTable, CausalFits DEF Confidence
    <3> QED
      BY <2>1, <3>2
  <2>2. CASE ~HasRule(c, {"FailedMount"})
    <3>1. EdgesFit(grp, <<>>)
      BY DEF EdgesFit
    <3> QED
      BY <2>2, <3>1
  <2> QED
    BY <2>1, <2>2
<1> HIDE DEF b, ds, es, id
<1> QED
  BY <1>2, <1>3, <1>5, <1>6, GivenWithDenied

LEMMA ServiceDownFits ==
  ASSUME NEW c, NEW grp, CaseFits(c, grp), NEW r \in ServiceDown(c)
  PROVE  ResultFits(c, grp, r)
<1> DEFINE f == OfRule(c, "ServiceNoEndpoint")
           id == "NETWORK_SERVICE_NO_ENDPOINT"
           on == OnPods(c, PodsOfService(c.s, f.res))
           es == ExplainedBy(c, f, on, "probable")
<1>1. HasRule(c, {"ServiceNoEndpoint"})
  BY DEF ServiceDown, When
<1>2. \E b : Given(id, b) /\ r = [b EXCEPT !.edges = es]
  <2> HIDE DEF es
  <2> QED
    BY DEF ServiceDown, When, Given, es
<1>3. id \in Names
  BY NamesFact
<1>4. f \in grp /\ f.rule = "ServiceNoEndpoint"
  BY <1>1, OfRuleFact
<1>5. on \subseteq DOMAIN c.items /\ \A i \in on : Order[c.items[i].rule] < Order[f.rule]
  BY <1>4, OnPodsFact, OrderTable
<1> HIDE DEF f, on
<1>6. EdgesFit(grp, es)
  BY <1>4, <1>5, ExplainedByFits DEF Confidence
<1> HIDE DEF es, id
<1> QED
  BY <1>2, <1>3, <1>6, GivenWithEdges

(* Sequences of literals, of three and of two.                              *)
LEMMA ThreeLong ==
  ASSUME NEW S, NEW x \in S, NEW y \in S, NEW z \in S
  PROVE  <<x, y, z>> \in Seq(S) /\ ToSet(<<x, y, z>>) = {x, y, z}
<1> DEFINE q == <<x, y, z>>
<1>1. DOMAIN q = 1..3 /\ q[1] = x /\ q[2] = y /\ q[3] = z
  OBVIOUS
<1>2. Len(q) = 3
  OBVIOUS
<1>3. q \in Seq(S)
  OBVIOUS
<1>4. 1..3 = {1, 2, 3}
  OBVIOUS
<1> HIDE DEF q
<1>5. ToSet(q) = {x, y, z}
  BY <1>1, <1>4 DEF ToSet
<1> QED
  BY <1>3, <1>5 DEF q

LEMMA SliceInconsistentFits ==
  ASSUME NEW c, NEW grp, CaseFits(c, grp), NEW r \in SliceInconsistent(c)
  PROVE  ResultFits(c, grp, r)
<1> DEFINE f == OfRule(c, "ServiceNoEndpoint")
           id == "NETWORK_ENDPOINTSLICE_INCONSISTENT"
           on == OnPods(c, ReadyBehind(c.s, f.res))
           es == ExplainedBy(c, f, on, "probable")
<1>1. HasRule(c, {"ServiceNoEndpoint"})
  BY DEF SliceInconsistent, When
<1>2. \E b : Given(id, b) /\ r = [b EXCEPT !.edges = es]
  <2> HIDE DEF es
  <2> QED
    BY DEF SliceInconsistent, When, Given, es
<1>3. id \in Names
  BY NamesFact
<1>4. f \in grp /\ f.rule = "ServiceNoEndpoint"
  BY <1>1, OfRuleFact
<1>5. on \subseteq DOMAIN c.items /\ \A i \in on : Order[c.items[i].rule] < Order[f.rule]
  BY <1>4, OnPodsFact, OrderTable
<1> HIDE DEF f, on
<1>6. EdgesFit(grp, es)
  BY <1>4, <1>5, ExplainedByFits DEF Confidence
<1> HIDE DEF es, id
<1> QED
  BY <1>2, <1>3, <1>6, GivenWithEdges

LEMMA NodeDownFits ==
  ASSUME NEW c, NEW grp, CaseFits(c, grp), NEW r \in NodeDown(c)
  PROVE  ResultFits(c, grp, r)
<1> DEFINE f == OfRule(c, "NodeNotReady")
           id == "NODE_NOTREADY"
           on == OnNode(c, f)
           es == Explains(c, f, on, "confirmed")
<1>1. HasRule(c, {"NodeNotReady"})
  BY DEF NodeDown, When
<1>2. \E b : Given(id, b) /\ r = [b EXCEPT !.edges = es]
  <2> DEFINE why == At(c.s, f.res).why
             lost == Mentions(c, f.res, {"NodeStatusUnknown", "Rebooted"}, {})
             b == Result(id, IF why THEN "confirmed" ELSE "probable", IF lost THEN 95 ELSE 85, Refs(f))
  <2>1. r = [b EXCEPT !.edges = es]
    BY DEF NodeDown, When
  <2>2. Given(id, b)
    BY DEF Given, Confirmed, Probable
  <2> HIDE DEF b, es
  <2> QED
    BY <2>1, <2>2
<1>3. id \in Names
  BY NamesFact
<1>4. f \in grp /\ f.rule = "NodeNotReady"
  BY <1>1, OfRuleFact
<1>5. on \subseteq DOMAIN c.items /\ \A i \in on : Order[f.rule] < Order[c.items[i].rule] \/ c.items[i].id = f.id
  <2>1. Order[f.rule] = 1
    BY <1>4, OrderTable DEF NodeRules
  <2> HIDE DEF f
  <2> QED
    BY <2>1, OnPodsFact DEF OnNode
<1> HIDE DEF f, on
<1>6. EdgesFit(grp, es)
  BY <1>4, <1>5, ExplainsFits DEF Confidence
<1> HIDE DEF es, id
<1> QED
  BY <1>2, <1>3, <1>6, GivenWithEdges

LEMMA NodePressedFits ==
  ASSUME NEW c, NEW grp, CaseFits(c, grp), NEW r \in NodePressed(c)
  PROVE  ResultFits(c, grp, r)
<1> DEFINE f == FirstRule(c, PressureRules)
           id == "NODE_PRESSURE"
           on == OnNode(c, f)
           es == Explains(c, f, on, "confirmed")
<1>1. HasRule(c, ToSet(PressureRules))
  BY DEF NodePressed, When
<1>2. \E b : Given(id, b) /\ r = [b EXCEPT !.edges = es]
  <2> HIDE DEF es
  <2> QED
    BY DEF NodePressed, When, Given, es
<1>3. id \in Names
  BY NamesFact
<1>4. f \in grp /\ f.rule \in ToSet(PressureRules)
  <2>1. PressureRules \in Seq({"NodeDiskPressure", "NodeMemoryPressure", "NodePIDPressure"})
    BY ThreeLong DEF PressureRules
  <2> QED
    BY <1>1, <2>1, TakenFrom
<1>5. on \subseteq DOMAIN c.items /\ \A i \in on : Order[f.rule] < Order[c.items[i].rule] \/ c.items[i].id = f.id
  <2>1. ToSet(PressureRules) \subseteq NodeRules
    BY DEF PressureRules, ToSet, NodeRules
  <2>2. Order[f.rule] = 1
    BY <1>4, <2>1, OrderTable
  <2> HIDE DEF f
  <2> QED
    BY <2>2, OnPodsFact DEF OnNode
<1> HIDE DEF f, on
<1>6. EdgesFit(grp, es)
  BY <1>4, <1>5, ExplainsFits DEF Confidence
<1> HIDE DEF es, id
<1> QED
  BY <1>2, <1>3, <1>6, GivenWithEdges

LEMMA VolumeDownFits ==
  ASSUME NEW c, NEW grp, CaseFits(c, grp), NEW r \in VolumeDown(c)
  PROVE  ResultFits(c, grp, r)
<1> DEFINE f == OfRule(c, "PVFailed")
           id == "STORAGE_PV_UNAVAILABLE"
           on == {i \in OfKind(c, {"PVC"}) : At(c.s, c.items[i].res).volume = f.res}
           es == Explains(c, f, on, "confirmed")
<1>1. HasRule(c, {"PVFailed"})
  BY DEF VolumeDown, When
<1>2. \E b : Given(id, b) /\ r = [b EXCEPT !.edges = es]
  <2> HIDE DEF es
  <2> QED
    BY DEF VolumeDown, When, Given, es
<1>3. id \in Names
  BY NamesFact
<1>4. f \in grp /\ f.rule = "PVFailed"
  BY <1>1, OfRuleFact
<1>5. on \subseteq DOMAIN c.items /\ \A i \in on : Order[f.rule] < Order[c.items[i].rule]
  <2>1. on \subseteq DOMAIN c.items /\ \A i \in on : Kind(c.items[i].res) = "PVC"
    BY DEF OfKind
  <2>2. \A i \in on : c.items[i].rule = "PVCPending"
    BY <2>1, RulesOfKind DEF CaseFits
  <2> HIDE DEF f, on
  <2> QED
    BY <1>4, <2>1, <2>2, OrderTable
<1> HIDE DEF f, on
<1>6. EdgesFit(grp, es)
  BY <1>4, <1>5, ExplainsFits DEF Confidence
<1> HIDE DEF es, id
<1> QED
  BY <1>2, <1>3, <1>6, GivenWithEdges

LEMMA ClassInvalidFits ==
  ASSUME NEW c, NEW grp, CaseFits(c, grp), NEW r \in ClassInvalid(c)
  PROVE  ResultFits(c, grp, r)
<1> DEFINE f == OfRule(c, "StorageClassNoProvisioner")
           id == "STORAGE_CLASS_INVALID"
           on == {i \in OfKind(c, {"PVC"}) \cap Places(c, {"PVCPending"}) : At(c.s,
               c.items[i].res).class = f.res}
           es == Explains(c, f, on, "confirmed")
<1>1. HasRule(c, {"StorageClassNoProvisioner"})
  BY DEF ClassInvalid, When
<1>2. \E b : Given(id, b) /\ r = [b EXCEPT !.edges = es]
  <2> HIDE DEF es
  <2> QED
    BY DEF ClassInvalid, When, Given, es
<1>3. id \in Names
  BY NamesFact
<1>4. f \in grp /\ f.rule = "StorageClassNoProvisioner"
  BY <1>1, OfRuleFact
<1>5. on \subseteq DOMAIN c.items /\ \A i \in on : Order[f.rule] < Order[c.items[i].rule]
  <2>1. on \subseteq DOMAIN c.items /\ \A i \in on : Kind(c.items[i].res) = "PVC"
    BY DEF OfKind
  <2>2. \A i \in on : c.items[i].rule = "PVCPending"
    BY <2>1, RulesOfKind DEF CaseFits
  <2> HIDE DEF f, on
  <2> QED
    BY <1>4, <2>1, <2>2, OrderTable
<1> HIDE DEF f, on
<1>6. EdgesFit(grp, es)
  BY <1>4, <1>5, ExplainsFits DEF Confidence
<1> HIDE DEF es, id
<1> QED
  BY <1>2, <1>3, <1>6, GivenWithEdges

LEMMA ReplicasMissingFits ==
  ASSUME NEW c, NEW grp, CaseFits(c, grp), NEW r \in ReplicasMissing(c)
  PROVE  ResultFits(c, grp, r)
<1> DEFINE f == FirstRule(c, <<"DeploymentReplica", "StatefulSetReplica",
    "DeploymentProgressDeadline">>)
           id == "WORKLOAD_REPLICAS_UNAVAILABLE"
           on == OnPods(c, PodsOfWorkload(c.s, f.res))
           es == ExplainedBy(c, f, on, "probable")
<1>1. HasRule(c, {"DeploymentReplica", "StatefulSetReplica", "DeploymentProgressDeadline"})
  BY DEF ReplicasMissing, When
<1>2. \E b : Given(id, b) /\ r = [b EXCEPT !.edges = es]
  <2> HIDE DEF es
  <2> QED
    BY DEF ReplicasMissing, When, Given, es
<1>3. id \in Names
  BY NamesFact
<1>4. f \in grp /\ f.rule \in {"DeploymentReplica", "StatefulSetReplica", "DeploymentProgressDeadline"}
  <2> DEFINE q == <<"DeploymentReplica", "StatefulSetReplica", "DeploymentProgressDeadline">>
  <2>1. q \in Seq({"DeploymentReplica", "StatefulSetReplica", "DeploymentProgressDeadline"})
      /\ ToSet(q) = {"DeploymentReplica", "StatefulSetReplica", "DeploymentProgressDeadline"}
    BY ThreeLong
  <2> HIDE DEF q
  <2>2. FirstRule(c, q) \in grp /\ FirstRule(c, q).rule \in ToSet(q)
    BY <1>1, <2>1, TakenFrom
  <2> QED
    BY <2>1, <2>2 DEF q
<1>5. on \subseteq DOMAIN c.items /\ \A i \in on : Order[c.items[i].rule] < Order[f.rule]
  BY <1>4, OnPodsFact, OrderTable
<1> HIDE DEF f, on
<1>6. EdgesFit(grp, es)
  BY <1>4, <1>5, ExplainedByFits DEF Confidence
<1> HIDE DEF es, id
<1> QED
  BY <1>2, <1>3, <1>6, GivenWithEdges

LEMMA TwoLong ==
  ASSUME NEW x, NEW y
  PROVE  <<x, y>> \in Seq({x, y}) /\ DOMAIN <<x, y>> = {1, 2} /\ ToSet(<<x, y>>) = {x, y}
<1> DEFINE q == <<x, y>>
<1>1. DOMAIN q = 1..2 /\ q[1] = x /\ q[2] = y /\ q \in Seq({x, y})
  OBVIOUS
<1>2. 1..2 = {1, 2}
  OBVIOUS
<1> HIDE DEF q
<1>3. DOMAIN q = {1, 2} /\ ToSet(q) = {x, y}
  BY <1>1, <1>2 DEF ToSet
<1> QED
  BY <1>1, <1>3 DEF q

LEMMA IngressDownFits ==
  ASSUME NEW c, NEW grp, CaseFits(c, grp), NEW r \in IngressDown(c)
  PROVE  ResultFits(c, grp, r)
<1> DEFINE q == <<"IngressBackend", "IngressHostConflict">>
           S == {"IngressBackend", "IngressHostConflict"}
           f == FirstRule(c, q)
           id == "NETWORK_INGRESS_BACKEND_UNAVAILABLE"
           down == OfKind(c, {"Service"}) \cap Places(c, {"ServiceNoEndpoint"})
           es == ExplainedBy(c, f, down, "confirmed")
           b == Confirmed(id, 85, Refs(f))
           ds == {f.ev[1][3]}
<1>1. HasRule(c, S)
  BY DEF IngressDown, When
<1>2. \/ f.rule = "IngressBackend" /\ r = [[b EXCEPT !.denied = ds] EXCEPT !.edges = es]
      \/ r = [Probable(id, 60, Refs(f)) EXCEPT !.edges = es]
  BY DEF IngressDown, When
<1>3. id \in Names /\ Given(id, b) /\ Given(id, Probable(id, 60, Refs(f)))
  BY NamesFact DEF Given
<1>4. f \in grp /\ f.rule \in S
  <2>1. q \in Seq(S) /\ ToSet(q) = S
    BY TwoLong
  <2> HIDE DEF q
  <2>2. FirstRule(c, q) \in grp /\ FirstRule(c, q).rule \in ToSet(q)
    BY <1>1, <2>1, TakenFrom
  <2> QED
    BY <2>1, <2>2
<1>5. down \subseteq DOMAIN c.items /\ \A i \in down : Order[c.items[i].rule] < Order[f.rule]
  <2>1. down \subseteq DOMAIN c.items /\ \A i \in down : c.items[i].rule = "ServiceNoEndpoint"
    BY DEF Places
  <2> HIDE DEF f, down
  <2> QED
    BY <1>4, <2>1, OrderTable
<1>6. f.rule = "IngressBackend" => ds \cap DOMAIN c.s.obj = {}
  <2> HIDE DEF f
  <2> QED
    BY <1>4, EvidenceDenies DEF DenyingRules
<1> HIDE DEF f, down
<1>7. EdgesFit(grp, es)
  BY <1>4, <1>5, ExplainedByFits DEF Confidence
<1> DEFINE p == Probable(id, 60, Refs(f))
<1>8. Given(id, p)
  BY <1>3
<1> HIDE DEF es, id, b, ds, p
<1>9. CASE f.rule = "IngressBackend" /\ r = [[b EXCEPT !.denied = ds] EXCEPT !.edges = es]
  BY <1>3, <1>6, <1>7, <1>9, GivenWithDenied
<1>10. CASE r = [p EXCEPT !.edges = es]
  BY <1>3, <1>7, <1>8, <1>10, GivenWithEdges
<1> QED
  BY <1>2, <1>9, <1>10 DEF p

LEMMA ClaimPendingFits ==
  ASSUME NEW c, NEW grp, CaseFits(c, grp), NEW r \in ClaimPending(c)
  PROVE  ResultFits(c, grp, r)
<1> DEFINE f == OfRule(c, "PVCPending")
           k == At(c.s, f.res).class
           id == "STORAGE_PVC_PENDING"
           conf == IF RefsOfKind(f, "event") # {} THEN 95 ELSE 85
           b == Confirmed(id, conf, Refs(f))
           on == OnPods(c, {p \in Of(c.s, "Pod") : At(c.s, p).pvc = f.res})
           es == Explains(c, f, on, "confirmed")
<1>1. HasRule(c, {"PVCPending"})
  BY DEF ClaimPending, When
<1>2. \/ ~Has(c.s, k) /\ r = [[b EXCEPT !.denied = {k}] EXCEPT !.edges = es]
      \/ \E x : Given(id, x) /\ r = [x EXCEPT !.edges = es]
  <2>1. \E x : /\ r = [x EXCEPT !.edges = es]
               /\ \/ x = b
                  \/ ~Has(c.s, k) /\ x = [b EXCEPT !.denied = {k}]
                  \/ \E refs : x = Confirmed(id, conf, refs)
                  \/ x = Probable(id, 60, Refs(f))
    <3> DEFINE claim == At(c.s, f.res)
               onClass == FindingOn(c, k, {"StorageClassNoProvisioner"})
               more == Confirmed(id, conf, Refs(f) \cup UNION {Refs(h) : h \in onClass})
               x == IF claim.status = "Lost" THEN b
                    ELSE IF k # None /\ ~Has(c.s, k) THEN [b EXCEPT !.denied = {k}]
                    ELSE IF onClass # {} /\ ~At(c.s, k).provisioner THEN more
                    ELSE Probable(id, 60, Refs(f))
    <3>1. r = [x EXCEPT !.edges = es]
      BY DEF ClaimPending, When
    <3>2. \E refs : more = Confirmed(id, conf, refs)
      OBVIOUS
    <3> HIDE DEF es, more, b
    <3> QED
      BY <3>1, <3>2
  <2>2. conf \in {85, 95}
    OBVIOUS
  <2>3. Given(id, b) /\ Given(id, Probable(id, 60, Refs(f))) /\ \A refs : Given(id, Confirmed(id, conf,
      refs))
    BY <2>2 DEF Given
  <2> HIDE DEF es, conf, b, id, k, f
  <2> QED
    BY <2>1, <2>3
<1>3. id \in Names /\ Given(id, b)
  BY NamesFact DEF Given
<1>4. f \in grp /\ f.rule = "PVCPending"
  BY <1>1, OfRuleFact
<1>5. on \subseteq DOMAIN c.items /\ \A i \in on : Order[f.rule] < Order[c.items[i].rule]
  BY <1>4, OnPodsFact, OrderTable
<1>6. ~Has(c.s, k) => {k} \cap DOMAIN c.s.obj = {}
  BY DEF Has
<1> HIDE DEF f, on
<1>7. EdgesFit(grp, es)
  BY <1>4, <1>5, ExplainsFits DEF Confidence
<1> HIDE DEF es, id, b, k
<1>8. CASE ~Has(c.s, k) /\ r = [[b EXCEPT !.denied = {k}] EXCEPT !.edges = es]
  BY <1>3, <1>6, <1>7, <1>8, GivenWithDenied
<1>9. CASE \E x : Given(id, x) /\ r = [x EXCEPT !.edges = es]
  BY <1>3, <1>7, <1>9, GivenWithEdges
<1> QED
  BY <1>2, <1>8, <1>9

LEMMA DaemonSetGapFits ==
  ASSUME NEW c, NEW grp, CaseFits(c, grp), NEW r \in DaemonSetGap(c)
  PROVE  ResultFits(c, grp, r)
<1> DEFINE f == OfRule(c, "DaemonSetReplica")
           id == "WORKLOAD_DAEMONSET_GAP"
           on == OfKind(c, {"Node"})
           es == ExplainedBy(c, f, on, "probable")
<1>1. HasRule(c, {"DaemonSetReplica"})
  BY DEF DaemonSetGap, When
<1>2. Given(id, r) \/ \E x : Given(id, x) /\ r = [x EXCEPT !.edges = es]
  <2> HIDE DEF es
  <2> QED
    BY DEF DaemonSetGap, When, Given, es
<1>3. id \in Names
  BY NamesFact
<1>4. f \in grp /\ f.rule = "DaemonSetReplica"
  BY <1>1, OfRuleFact
<1>5. on \subseteq DOMAIN c.items /\ \A i \in on : Order[c.items[i].rule] < Order[f.rule]
  <2>1. on \subseteq DOMAIN c.items /\ \A i \in on : Kind(c.items[i].res) = "Node"
    BY DEF OfKind
  <2>2. \A i \in on : c.items[i].rule \in NodeRules
    BY <2>1, RulesOfKind DEF CaseFits
  <2> HIDE DEF f, on
  <2> QED
    BY <1>4, <2>1, <2>2, OrderTable
<1> HIDE DEF f, on
<1>6. EdgesFit(grp, es)
  BY <1>4, <1>5, ExplainedByFits DEF Confidence
<1> HIDE DEF es, id
<1> QED
  BY <1>2, <1>3, <1>6, GivenWithEdges, GivenFits

LEMMA NotScalingFits ==
  ASSUME NEW c, NEW grp, CaseFits(c, grp), NEW r \in NotScaling(c)
  PROVE  ResultFits(c, grp, r)
<1> DEFINE q == <<"HpaScaleTargetMissing", "HpaReplicasMismatch">>
           S == {"HpaScaleTargetMissing", "HpaReplicasMismatch"}
           f == FirstRule(c, q)
           id == "WORKLOAD_HPA_NOT_SCALING"
           es == Explains(c, f, DOMAIN c.items, "probable")
           b == Confirmed(id, 85, Refs(f))
           p == Probable(id, 60, Refs(f))
           ds == {f.ev[1][3]}
<1>1. HasRule(c, S)
  BY DEF NotScaling, When
<1>2. \/ f.rule = "HpaScaleTargetMissing" /\ r = [[b EXCEPT !.denied = ds] EXCEPT !.edges = es]
      \/ r = [b EXCEPT !.edges = es] \/ r = [p EXCEPT !.edges = es]
  <2> HIDE DEF es, b, p, ds
  <2> QED
    BY DEF NotScaling, When, es, b, p, ds
<1>3. id \in Names /\ Given(id, b) /\ Given(id, p)
  BY NamesFact DEF Given
<1>4. /\ f \in grp /\ f.rule \in S
      /\ f.rule = "HpaReplicasMismatch" => ~HasRule(c, {"HpaScaleTargetMissing"})
  <2>1. q \in Seq(S) /\ ToSet(q) = S /\ DOMAIN q = {1, 2}
    BY TwoLong
  <2>7. q[1] = "HpaScaleTargetMissing" /\ q[2] = "HpaReplicasMismatch"
    OBVIOUS
  <2> HIDE DEF q, f
  <2>8. HasRule(c, ToSet(q))
    BY <1>1, <2>1
  <2>2. /\ FirstRule(c, q) \in grp /\ HasRule(c, {FirstRule(c, q).rule})
        /\ \E i \in DOMAIN q : FirstRule(c, q).rule = q[i] /\ \A j \in 1..(i - 1) : ~HasRule(c, {q[j]})
    BY <2>1, <2>8, FirstRuleFact
  <2>3. PICK i \in {1, 2} : f.rule = q[i] /\ \A j \in 1..(i - 1) : ~HasRule(c, {q[j]})
    BY <2>1, <2>2 DEF f
  <2>4. CASE i = 1
    BY <2>7, <2>2, <2>3, <2>4 DEF f
  <2>5. CASE i = 2
    <3>1. 1 \in 1..(i - 1)
      BY <2>5
    <3> QED
      BY <2>7, <2>2, <2>3, <2>5, <3>1 DEF f
  <2> QED
    BY <2>4, <2>5
<1>5. f.rule = "HpaScaleTargetMissing" => ds \cap DOMAIN c.s.obj = {}
  <2> HIDE DEF f
  <2> QED
    BY <1>4, EvidenceDenies DEF DenyingRules
<1> HIDE DEF f
<1>6. Kind(f.res) = "HPA"
  <2>1. KindsOf("HpaScaleTargetMissing") = {"HPA"} /\ KindsOf("HpaReplicasMismatch") = {"HPA"}
    BY DEF KindsOf, PodRules, NodeRules
  <2>2. Scanned(c.s, f)
    BY <1>4 DEF CaseFits
  <2> QED
    BY <1>4, <2>1, <2>2 DEF Scanned
<1>7. ASSUME NEW i \in DOMAIN c.items
      PROVE  Order[f.rule] < Order[c.items[i].rule] \/ c.items[i].id = f.id
  <2> DEFINE h == c.items[i]
  <2>1. h \in grp /\ Scanned(c.s, h)
    BY DEF CaseFits
  <2>2. h.rule = "HpaScaleTargetMissing" => HasRule(c, {"HpaScaleTargetMissing"})
    BY DEF HasRule, Places
  <2> HIDE DEF h
  <2>3. h.res = f.res
    BY <1>4, <1>6, <2>1 DEF CaseFits
  <2>4. h.rule \in S
    BY <1>6, <2>1, <2>3, RulesOfKind
  <2>5. h.rule = f.rule => h.id = f.id
    BY <1>4, <1>6, <2>1, <2>3 DEF CaseFits, OncePerHpa
  <2>6. Order["HpaScaleTargetMissing"] < Order["HpaReplicasMismatch"]
    BY OrderTable
  <2> QED
    BY <1>4, <2>2, <2>4, <2>5, <2>6 DEF h
<1>8. EdgesFit(grp, es)
  BY <1>4, <1>7, ExplainsFits DEF Confidence
<1> HIDE DEF es, id, b, p, ds
<1>9. CASE f.rule = "HpaScaleTargetMissing" /\ r = [[b EXCEPT !.denied = ds] EXCEPT !.edges = es]
  BY <1>3, <1>5, <1>8, <1>9, GivenWithDenied
<1>10. CASE r = [b EXCEPT !.edges = es] \/ r = [p EXCEPT !.edges = es]
  BY <1>3, <1>8, <1>10, GivenWithEdges
<1> QED
  BY <1>2, <1>9, <1>10

(* Every diagnoser's results fit the case.                                  *)
LEMMA EachFits ==
  ASSUME NEW c, NEW grp, CaseFits(c, grp),
         NEW r \in CrashLoop(c) \cup OOM(c) \cup ImagePull(c) \cup Unschedulable(c) \cup MountFails(c) \cup Evicted(c)
           \cup ProbeFails(c) \cup ConfigMissingRef(c) \cup ServiceDown(c) \cup SliceInconsistent(c)
           \cup IngressDown(c) \cup DnsAbnormal(c) \cup PolicyPosture(c) \cup NodeDown(c) \cup NodePressed(c)
           \cup ClaimPending(c) \cup VolumeDown(c) \cup ClassInvalid(c) \cup AttachmentStuck(c)
           \cup ReplicasMissing(c) \cup DaemonSetGap(c) \cup JobFails(c) \cup NotScaling(c) \cup BudgetBlocks(c)
  PROVE  ResultFits(c, grp, r)
<1>1. CASE r \in CrashLoop(c) \cup OOM(c) \cup ImagePull(c) \cup ProbeFails(c) \cup DnsAbnormal(c)
             \cup PolicyPosture(c) \cup AttachmentStuck(c) \cup JobFails(c) \cup BudgetBlocks(c)
  <2>1. \E id \in Names : Given(id, r)
    BY <1>1, NamesFact, CrashLoopGiven, OOMGiven, ImagePullGiven, ProbeFailsGiven, DnsAbnormalGiven,
       PolicyPostureGiven, AttachmentStuckGiven, JobFailsGiven, BudgetBlocksGiven
  <2> QED
    BY <2>1, GivenFits
<1>2. CASE r \in Unschedulable(c) \cup MountFails(c) \cup Evicted(c) \cup ConfigMissingRef(c)
             \cup ServiceDown(c) \cup SliceInconsistent(c) \cup IngressDown(c) \cup NodeDown(c)
  BY <1>2, UnschedulableFits, MountFailsFits, EvictedFits, ConfigMissingRefFits, ServiceDownFits,
     SliceInconsistentFits, IngressDownFits, NodeDownFits
<1>3. CASE r \in NodePressed(c) \cup ClaimPending(c) \cup VolumeDown(c) \cup ClassInvalid(c)
             \cup ReplicasMissing(c) \cup DaemonSetGap(c) \cup NotScaling(c)
  BY <1>3, NodePressedFits, ClaimPendingFits, VolumeDownFits, ClassInvalidFits, ReplicasMissingFits,
     DaemonSetGapFits, NotScalingFits
<1> QED
  BY <1>1, <1>2, <1>3

(* The confidence normalised, they still do.                                *)
LEMMA NormalizeFits ==
  ASSUME NEW c, NEW grp, NEW r, ResultFits(c, grp, r)
  PROVE  ResultFits(c, grp, Normalize(c, r))
<1>1. PICK a, b, d, e, f, h : r = [id |-> a, status |-> b, conf |-> d, refs |-> e, denied |-> f,
    edges |-> h]
  BY DEF ResultFits, Shaped
<1>2. \E st \in Statuses, co \in 0..100 : \E re :
        Normalize(c, r) = [id |-> a, status |-> st, conf |-> co, refs |-> re, denied |-> f, edges |-> h]
  <2> DEFINE refs == r.refs \cap UNION {Refs(c.items[i]) : i \in DOMAIN c.items}
             st == IF b = "confirmed" THEN "probable" ELSE b
             co == IF d > 45 THEN 45 ELSE d
  <2>1. b \in Statuses /\ d \in 0..100
    BY <1>1 DEF ResultFits, Shaped
  <2>2. st \in Statuses /\ co \in 0..100
    BY <2>1 DEF Statuses
  <2>3. CASE refs # {}
    <3>1. Normalize(c, r) = [r EXCEPT !.refs = refs]
      BY <2>3 DEF Normalize
    <3> HIDE DEF refs
    <3>2. Normalize(c, r) = [id |-> a, status |-> b, conf |-> d, refs |-> refs, denied |-> f,
        edges |-> h]
      BY <1>1, <3>1
    <3> QED
      BY <2>1, <3>2
  <2>4. CASE refs = {}
    <3>1. Normalize(c, r) = [r EXCEPT !.refs = {},
        !.status = IF r.status = "confirmed" THEN "probable" ELSE r.status,
                                      !.conf = IF r.conf > 45 THEN 45 ELSE r.conf]
      BY <2>4 DEF Normalize
    <3>2. Normalize(c, r) = [id |-> a, status |-> st, conf |-> co, refs |-> {}, denied |-> f,
        edges |-> h]
      BY <1>1, <3>1
    <3> HIDE DEF st, co
    <3> QED
      BY <2>2, <3>2
  <2> QED
    BY <2>3, <2>4
<1>3. a \in Names /\ f \cap DOMAIN c.s.obj = {} /\ EdgesFit(grp, h)
  BY <1>1 DEF ResultFits, Shaped
<1> QED
  BY <1>2, <1>3 DEF ResultFits, Shaped

(* What the diagnosers give for a case: statuses of the confidence ladder,  *)
(* denials of what the snapshot does not hold, edges that fit the group.    *)
THEOREM DiagnosesFit ==
  ASSUME NEW c, NEW grp, CaseFits(c, grp)
  PROVE  \A r \in Diagnoses(c) : ResultFits(c, grp, r)
  BY EachFits, NormalizeFits DEF Diagnoses

(* Of the results one is first.                                             *)
LEMMA BestFact ==
  ASSUME NEW rs, rs # {}, \A r \in rs : Shaped(r)
  PROVE  \E r \in rs : \A q \in rs : ~Ahead(q, r)
<1> DEFINE place(x) == CHOOSE i \in DOMAIN DiagnoserOrder : DiagnoserOrder[i] = x.id
           a == [x \in rs |-> 3 - Rank(x.status)]
           b == [x \in rs |-> 100 - x.conf]
           at == [x \in rs |-> place(x)]
<1>1. ASSUME NEW x \in rs
      PROVE  at[x] \in Nat /\ Rank(x.status) = 3 - a[x] /\ x.conf = 100 - b[x] /\ a[x] \in Nat
               /\ b[x] \in Nat
  <2>1. x.id \in Names /\ x.conf \in 0..100 /\ Rank(x.status) \in 1..3
    BY DEF Shaped, Rank
  <2>2. DOMAIN DiagnoserOrder = 1..24
    BY DEF DiagnoserOrder
  <2>3. \E i \in 1..24 : DiagnoserOrder[i] = x.id
    BY <2>1 DEF Names
  <2>4. place(x) \in 1..24
    BY <2>2, <2>3
  <2> HIDE DEF place
  <2> QED
    BY <2>1, <2>4
<1>2. ASSUME NEW x \in rs, NEW y \in rs, Ahead(x, y)
      PROVE  a[x] < a[y] \/ (a[x] = a[y] /\ (b[x] < b[y] \/ (b[x] = b[y] /\ at[x] < at[y])))
  <2>1. \/ Rank(x.status) > Rank(y.status)
        \/ Rank(x.status) = Rank(y.status) /\ (x.conf > y.conf \/ (x.conf = y.conf /\ at[x] < at[y]))
    BY <1>2 DEF Ahead
  <2> HIDE DEF a, b, at
  <2>2. a[x] \in Nat /\ Rank(x.status) = 3 - a[x] /\ b[x] \in Nat /\ x.conf = 100 - b[x]
    BY <1>1
  <2>3. a[y] \in Nat /\ Rank(y.status) = 3 - a[y] /\ b[y] \in Nat /\ y.conf = 100 - b[y]
    BY <1>1
  <2> QED
    BY <2>1, <2>2, <2>3
<1> HIDE DEF a, b, at
<1>3. PICK x \in rs : \A y \in rs : a[x] < a[y] \/ (a[x] = a[y] /\ b[x] <= b[y])
  BY <1>1, LexLeast
<1> DEFINE T == {y \in rs : a[y] = a[x] /\ b[y] = b[x]}
<1>4. PICK z \in T : \A y \in T : at[z] < at[y] \/ (at[z] = at[y] /\ at[z] <= at[y])
  <2>1. T # {} /\ \A y \in T : at[y] \in Nat /\ at[y] \in Nat
    BY <1>1
  <2> HIDE DEF T
  <2> QED
    BY <2>1, LexLeast
<1>5. ASSUME NEW q \in rs, Ahead(q, z) PROVE FALSE
  <2>1. a[q] < a[z] \/ (a[q] = a[z] /\ (b[q] < b[z] \/ (b[q] = b[z] /\ at[q] < at[z])))
    BY <1>2, <1>5
  <2>2. a[z] = a[x] /\ b[z] = b[x]
    OBVIOUS
  <2>3. a[x] < a[q] \/ (a[x] = a[q] /\ b[x] <= b[q])
    BY <1>3
  <2>4. a[x] \in Nat /\ b[x] \in Nat /\ a[q] \in Nat /\ b[q] \in Nat /\ at[q] \in Nat /\ at[z] \in Nat
    BY <1>1
  <2>5. a[q] = a[x] /\ b[q] = b[x] /\ at[q] < at[z]
    BY <2>1, <2>2, <2>3, <2>4
  <2> QED
    BY <1>4, <2>4, <2>5
<1> QED
  BY <1>5

(*****************************************************************************)
(* Incidents as they are reported.                                           *)
(*****************************************************************************)

(* An incident as the inspection reports it.                                *)
Diagnosed(s, g, fs) == {Diagnose(s, g, fs, inc) : inc \in Relate(g, fs, Build(s, fs))}
Sound(s, grp, d) ==
  /\ Gathered(grp, d) /\ d.denied \cap DOMAIN s.obj = {}
  /\ (\A e \in d.edges : EdgeFits(grp, e)) /\ OneCauseEach(d.edges)

(* What the diagnosis replaces leaves root and members alone.               *)
LEMMA GatheredWith ==
  ASSUME NEW grp, NEW inc, Gathered(grp, inc), NEW d, NEW es, NEW st, NEW cause, NEW denied,
         d = [root |-> inc.root, items |-> inc.items, edges |-> es, status |-> st,
              cause |-> cause, denied |-> denied]
  PROVE  Gathered(grp, d) /\ d.edges = es /\ d.denied = denied /\ d.items = inc.items
  BY DEF Gathered

(* A diagnosed incident is sound: of its group, nothing denied that the     *)
(* snapshot holds, edges that fit, one cause for each.                      *)
LEMMA DiagnosedIsSound ==
  ASSUME NEW s, ObjectsTyped(s.obj), NEW fs, Scan(s, fs), OncePerHpa(fs), NEW g,
         NEW grp \in Groups(s, fs), NEW b, Gathered(grp, b), b.denied = {}
  PROVE  Sound(s, grp, Diagnose(s, g, fs, [b EXCEPT !.edges =
                                            GrowCausalTree(g, Restored(fs, b.items))]))
<1> DEFINE inc == [b EXCEPT !.edges = GrowCausalTree(g, Restored(fs, b.items))]
           c == CaseOf(s, g, fs, inc)
           rs == Diagnoses(c)
           best == CHOOSE r \in rs : \A q \in rs : ~Ahead(q, r)
           d == Diagnose(s, g, fs, inc)
           tree == GrowCausalTree(g, Restored(fs, b.items))
<1>1. inc = [root |-> b.root, items |-> b.items, edges |-> tree, status |-> b.status,
             cause |-> b.cause, denied |-> b.denied]
  <2>1. PICK x1, x2, x3, x4, x5, x6 :
          b = [root |-> x1, items |-> x2, edges |-> x3, status |-> x4, cause |-> x5, denied |-> x6]
    BY DEF Gathered
  <2> HIDE DEF tree
  <2>2. inc = [b EXCEPT !.edges = tree]
    BY DEF tree
  <2> HIDE DEF inc
  <2> QED
    BY <2>1, <2>2
<1>2. grp \subseteq fs /\ \A f \in grp : Scanned(s, f)
  BY GroupFacts DEF Scan
<1>3. Ranked(grp)
  BY <1>2, ScannedIsOrdered DEF Ranked
<1>4. (\A e \in tree : EdgeFits(grp, e)) /\ OneCauseEach(tree)
  <2>1. b.items \in Seq(grp) /\ b.items # <<>>
    BY DEF Gathered
  <2> DEFINE all == Restored(fs, b.items)
  <2>2. all \in Seq(grp) /\ DOMAIN all = DOMAIN b.items
    BY <2>1, RestoredFact
  <2> HIDE DEF all
  <2>3. all # <<>>
    BY <2>1, <2>2
  <2>4. LET es == GrowCausalTree(g, all) IN (\A e \in es : EdgeFits(grp, e)) /\ OneCauseEach(es)
    BY <1>3, <2>2, <2>3, TreeFact
  <2> QED
    BY <2>4 DEF all
<1> HIDE DEF tree, inc
<1>5. Gathered(grp, inc) /\ inc.edges = tree /\ inc.denied = {} /\ inc.items = b.items
  BY <1>1, GatheredWith
<1>6. d = IF rs = {} THEN inc
          ELSE [inc EXCEPT !.status = best.status, !.cause = best.id, !.denied = best.denied,
                           !.edges = MergeEdges(@, best.edges)]
  BY DEF Diagnose
<1>7. CaseFits(c, grp) /\ c.s = s
  BY <1>5, CaseFact
<1>8. \A r \in rs : ResultFits(c, grp, r)
  BY <1>7, DiagnosesFit
<1>9. CASE rs = {}
  <2>1. d = inc
    BY <1>6, <1>9
  <2> HIDE DEF d, rs
  <2> QED
    BY <1>4, <1>5, <2>1 DEF Sound, d, inc, tree
<1>10. CASE rs # {}
  <2>1. best \in rs
    <3> HIDE DEF rs
    <3>1. \E r \in rs : \A q \in rs : ~Ahead(q, r)
      BY <1>8, <1>10, BestFact DEF ResultFits
    <3> QED
      BY <3>1
  <2>2. ResultFits(c, grp, best)
    <3> HIDE DEF best, rs
    <3> QED
      BY <1>8, <2>1
  <2> DEFINE es == MergeEdges(tree, best.edges)
  <2>3. best.denied \cap DOMAIN s.obj = {} /\ EdgesFit(grp, best.edges)
    BY <1>7, <2>2 DEF ResultFits
  <2>4. (\A e \in es : EdgeFits(grp, e)) /\ OneCauseEach(es)
    <3> HIDE DEF best
    <3> QED
      BY <1>4, <2>3, MergeFact
  <2> HIDE DEF best, rs, c
  <2>5. d = [inc EXCEPT !.status = best.status, !.cause = best.id, !.denied = best.denied,
                           !.edges = MergeEdges(@, best.edges)]
    BY <1>6, <1>10
  <2>6. PICK x1, x2, x4, x5, x6 : inc = [root |-> x1, items |-> x2, edges |-> tree, status |-> x4,
      cause |-> x5, denied |-> x6]
    BY <1>1
  <2> HIDE DEF d, es
  <2>7. d = [root |-> x1, items |-> x2, edges |-> es, status |-> best.status, cause |-> best.id,
      denied |-> best.denied]
    BY <2>5, <2>6 DEF es
  <2>8. inc.root = x1 /\ inc.items = x2
    BY <2>6
  <2>9. Gathered(grp, d) /\ d.edges = es /\ d.denied = best.denied
    BY <1>5, <2>7, <2>8, GatheredWith
  <2>10. Sound(s, grp, d)
    BY <2>3, <2>4, <2>9 DEF Sound
  <2> QED
    BY <2>10 DEF d, inc, tree
<1> QED
  BY <1>9, <1>10

(* Every reported incident is a group's and sound, and every group has one. *)
THEOREM DiagnosedFact ==
  ASSUME NEW s, ObjectsTyped(s.obj), NEW fs, Scan(s, fs), OncePerHpa(fs), NEW g
  PROVE  /\ \A d \in Diagnosed(s, g, fs) : \E grp \in Groups(s, fs) : Sound(s, grp, d)
         /\ \A grp \in Groups(s, fs) : \E d \in Diagnosed(s, g, fs) : Sound(s, grp, d)
<1>1. IsFiniteSet(fs) /\ \A f \in fs : Ordered(f)
  BY ScannedIsOrdered DEF Scan
<1>2. /\ \A b \in Build(s, fs) : \E grp \in Groups(s, fs) : Gathered(grp, b) /\ b.edges = {}
         /\ b.denied = {}
      /\ \A grp \in Groups(s, fs) : \E b \in Build(s, fs) : Gathered(grp, b) /\ b.edges = {}
          /\ b.denied = {}
  BY <1>1, BuildFacts
<1> DEFINE fin(b) == Diagnose(s, g, fs, [b EXCEPT !.edges = GrowCausalTree(g, Restored(fs, b.items))])
<1>3. Diagnosed(s, g, fs) = {fin(b) : b \in Build(s, fs)}
  BY DEF Diagnosed, Relate
<1>4. ASSUME NEW grp \in Groups(s, fs), NEW b, Gathered(grp, b), b.denied = {}
      PROVE  Sound(s, grp, fin(b))
  BY <1>4, DiagnosedIsSound
<1> HIDE DEF fin
<1> QED
  BY <1>2, <1>3, <1>4

(* The rules for autoscalers report each at most once.                      *)
LEMMA HpaOnce ==
  ASSUME NEW s, ObjectsTyped(s.obj), NEW n \in 0..35
  PROVE  OncePerHpa(Evaluated(s, n))
<1> DEFINE all == Outcomes(s)
<1>1. \A i \in 1..35 : FindingsOf(s, all[i], RuleOrder[i], KindsOf(RuleOrder[i]))
  BY TypedIsFindable, EachRule
<1>2. all[31] = HpaReplicasMismatch(s) /\ all[32] = HpaScaleTargetMissing(s)
  BY DEF Outcomes
<1>3. Evaluated(s, n) = UNION {all[i] : i \in 1..n}
  BY DEF Evaluated
<1>4. ASSUME NEW i \in 1..35, "HPA" \in KindsOf(RuleOrder[i]) PROVE i \in {31, 32}
  BY <1>4 DEF RuleOrder, KindsOf, PodRules, NodeRules
<1>5. RuleOrder[31] = "HpaReplicasMismatch" /\ RuleOrder[32] = "HpaScaleTargetMissing"
  BY DEF RuleOrder
<1>6. ASSUME NEW rule, NEW shown, NEW f \in ForObject(s, rule, shown), NEW h \in ForObject(s, rule,
    shown), f.res = h.res
      PROVE  f = h
  <2>1. PICK r \in DOMAIN shown : f = Finding(s, rule, r, shown[r][1], shown[r][2])
    BY DEF ForObject
  <2>2. PICK q \in DOMAIN shown : h = Finding(s, rule, q, shown[q][1], shown[q][2])
    BY DEF ForObject
  <2>3. f.res = r /\ h.res = q
    BY <2>1, <2>2, FindingShape
  <2> QED
    BY <1>6, <2>1, <2>2, <2>3
<1>7. \A f, h \in HpaReplicasMismatch(s) : f.res = h.res => f = h
  BY <1>6 DEF HpaReplicasMismatch
<1>8. \A f, h \in HpaScaleTargetMissing(s) : f.res = h.res => f = h
  BY <1>6 DEF HpaScaleTargetMissing
<1> HIDE DEF all
<1>9. ASSUME NEW f \in Evaluated(s, n), NEW h \in Evaluated(s, n), Kind(f.res) = "HPA", f.rule = h.rule,
    f.res = h.res
      PROVE  f.id = h.id
  <2>1. PICK i \in 1..35 : f \in all[i]
    BY <1>3
  <2>2. PICK j \in 1..35 : h \in all[j]
    BY <1>3
  <2>3. Kind(f.res) \in KindsOf(RuleOrder[i]) /\ f.rule = RuleOrder[i]
    BY <1>1, <2>1 DEF FindingsOf
  <2>4. Kind(h.res) \in KindsOf(RuleOrder[j]) /\ h.rule = RuleOrder[j]
    BY <1>1, <2>2 DEF FindingsOf
  <2>5. i \in {31, 32} /\ j \in {31, 32}
    BY <1>4, <1>9, <2>3, <2>4
  <2>6. i = j
    BY <1>5, <1>9, <2>3, <2>4, <2>5
  <2> QED
    BY <1>2, <1>7, <1>8, <1>9, <2>1, <2>2, <2>5, <2>6
<1> QED
  BY <1>9 DEF OncePerHpa

(* Marks and evidence change none of that.                                  *)
LEMMA StillOnce ==
  ASSUME NEW fs, OncePerHpa(fs), NEW hs, \A h \in hs : \E f \in fs : SameBut(f, h)
  PROVE  OncePerHpa(hs)
<1> SUFFICES ASSUME NEW x \in hs, NEW y \in hs, Kind(x.res) = "HPA", x.rule = y.rule, x.res = y.res
             PROVE  x.id = y.id
  BY DEF OncePerHpa
<1>1. PICK f \in fs : SameBut(f, x)
  OBVIOUS
<1>2. PICK g \in fs : SameBut(g, y)
  OBVIOUS
<1> QED
  BY <1>1, <1>2 DEF SameBut, OncePerHpa

(* What a finding reports of a snapshot s: it comes from a rule; and if it  *)
(* is correlated, to a node at fault.                                       *)
Faithful(from, s, fs) ==
  /\ \A h \in fs : \E f \in from : SameBut(f, h)
  /\ \A f \in from : \E h \in fs : SameBut(f, h)
  /\ \A h \in fs : h.corr => /\ Kind(h.res) = "Pod"
                             /\ \E g \in fs : g.rule \in NodeRules /\ g.res = At(s, h.res).node

(* The marks, and whatever is added later, keep findings faithful.          *)
LEMMA MarkedIsFaithful ==
  ASSUME NEW s, NEW fs, Scan(s, fs)
  PROVE  Faithful(fs, s, Marked(s, fs))
<1>1. /\ \A h \in Marked(s, fs) : \E f \in fs : SameBut(f, h) /\ (h.corr <=> f \in MarkCorrelated(s,
         fs))
      /\ \A f \in fs : \E h \in Marked(s, fs) : SameBut(f, h)
  BY MarkedScan
<1>2. ASSUME NEW h \in Marked(s, fs), h.corr
      PROVE  /\ Kind(h.res) = "Pod"
             /\ \E g \in Marked(s, fs) : g.rule \in NodeRules /\ g.res = At(s, h.res).node
  <2>1. PICK f \in fs : SameBut(f, h) /\ f \in MarkCorrelated(s, fs)
    BY <1>1, <1>2
  <2>2. PICK x \in fs : x.rule \in NodeRules /\ x.res = At(s, f.res).node /\ Kind(f.res) = "Pod"
    BY <2>1 DEF MarkCorrelated
  <2>3. PICK g \in Marked(s, fs) : SameBut(x, g)
    BY <1>1
  <2> QED
    BY <2>1, <2>2, <2>3 DEF SameBut
<1> QED
  BY <1>1, <1>2 DEF Faithful

LEMMA StaysFaithful ==
  ASSUME NEW from, NEW s, NEW fs, Faithful(from, s, fs), NEW hs,
         \A h \in hs : \E f \in fs : SameBut(f, h) /\ h.corr = f.corr,
         \A f \in fs : \E h \in hs : SameBut(f, h) /\ h.corr = f.corr
  PROVE  Faithful(from, s, hs)
<1>1. \A a, b, c : SameBut(a, b) /\ SameBut(b, c) => SameBut(a, c)
  BY DEF SameBut
<1>2. \A h \in hs : \E f \in from : SameBut(f, h)
  BY <1>1 DEF Faithful
<1>3. \A f \in from : \E h \in hs : SameBut(f, h)
  BY <1>1 DEF Faithful
<1>4. ASSUME NEW h \in hs, h.corr
      PROVE  Kind(h.res) = "Pod" /\ \E g \in hs : g.rule \in NodeRules /\ g.res = At(s, h.res).node
  <2>1. PICK f \in fs : SameBut(f, h) /\ h.corr = f.corr
    OBVIOUS
  <2>2. PICK x \in fs : x.rule \in NodeRules /\ x.res = At(s, f.res).node /\ Kind(f.res) = "Pod"
    BY <1>4, <2>1 DEF Faithful
  <2>3. PICK g \in hs : SameBut(x, g)
    OBVIOUS
  <2> QED
    BY <2>1, <2>2, <2>3 DEF SameBut
<1> QED
  BY <1>2, <1>3, <1>4 DEF Faithful

(* A scan holds of a snapshot whatever was read into it but its objects.    *)
LEMMA SameObjects ==
  ASSUME NEW s, NEW t, s.obj = t.obj, NEW fs, Scan(s, fs)
  PROVE  Scan(t, fs)
<1>1. \A r : StandsFor(t, r) = StandsFor(s, r)
  BY DEF StandsFor, OwnerChain, At, OfKinds
<1> QED
  BY <1>1 DEF Scan, Scanned, Denies, FindingTyped, IsThere

(*****************************************************************************)
(* The invariant of an inspection, and the properties.                       *)
(*****************************************************************************)

(* The stages after the collection. Original is the snapshot as the rules   *)
(* saw it, before any log was read.                                         *)
Original(s) == [obj |-> s.obj, events |-> s.events, logs |-> {},
                failed |-> {e \in s.failed : e[1] # "get_logs"}]
Evaluation(live) ==
  /\ Scan(snap, findings) /\ OncePerHpa(findings)
  /\ live => Faithful(Evaluated(Original(snap), 35), snap, findings)
Reported == report.level = Level(Integrity(snap), findings, incidents)
    /\ report.failed = FailedKinds(snap)
Stage ==
  /\ pc \in {"logs", "diagnose", "report", "done"} => Evaluation(ctx = "live")
  /\ pc \in {"report", "done"} => incidents = Diagnosed(snap, Graph(snap), findings)
  /\ pc \notin {"report", "done"} => incidents = {}
  /\ pc = "done" => Reported

(* The three steps after the collection keep the stages.                    *)
LEMMA EvaluateStep ==
  ASSUME Collection, Stage, Evaluate
  PROVE  Stage'
<1>1. ObjectsTyped(snap.obj) /\ snap' = snap /\ incidents' = incidents /\ pc = "collect"
  BY SnapIsTyped DEF Collection, Evaluate
<1>2. snap = Original(snap)
  <2>1. PICK a, b, d : snap = [obj |-> a, events |-> b, logs |-> {}, failed |-> d]
    BY <1>1 DEF Collection, SnapTyped, NotYetLogged
  <2>2. \A e \in snap.failed : e[1] # "get_logs"
    BY <1>1 DEF Collection, NotYetLogged, ListOf
  <2>3. {e \in snap.failed : e[1] # "get_logs"} = d
    BY <2>1, <2>2
  <2> QED
    BY <2>1, <2>3 DEF Original
<1>3. CASE findings' = Marked(snap, Evaluated(snap, 35))
  <2> DEFINE fs == Evaluated(snap, 35)
             hs == Marked(snap, fs)
  <2>1. Scan(snap, fs) /\ OncePerHpa(fs)
    BY <1>1, EvaluatedScan, HpaOnce
  <2> HIDE DEF fs
  <2>2. Scan(snap, hs) /\ Faithful(fs, snap, hs)
    BY <2>1, MarkedScan, MarkedIsFaithful
  <2>3. OncePerHpa(hs)
    BY <2>1, <2>2, StillOnce DEF Faithful
  <2> HIDE DEF hs
  <2>4. Scan(snap, findings') /\ OncePerHpa(findings') /\ Faithful(Evaluated(Original(snap), 35), snap,
      findings')
    BY <1>2, <1>3, <2>2, <2>3 DEF fs, hs
  <2> QED
    BY <1>1, <2>4 DEF Stage, Evaluation, Evaluate
<1>4. CASE (\E n \in Cuts : findings' = Evaluated(snap, n)) /\ ctx' = "done"
  <2>1. PICK n \in Cuts : findings' = Evaluated(snap, n)
    BY <1>4
  <2>2. n \in 0..35
    BY CutsAssumption
  <2>3. Scan(snap, findings') /\ OncePerHpa(findings')
    BY <1>1, <2>1, <2>2, EvaluatedScan, HpaOnce
  <2> QED
    BY <1>1, <1>4, <2>3 DEF Stage, Evaluation, Evaluate
<1> QED
  BY <1>3, <1>4 DEF Evaluate

LEMMA DiagnoseStep ==
  ASSUME Stage, DiagnoseAll
  PROVE  Stage'
<1> DEFINE logged == {AttachLogs(snap, f) : f \in findings}
           fs == {Enrich(snap, logged, f) : f \in logged}
           log == [f \in findings |-> AttachLogs(snap, f)]
           enrich == [f \in logged |-> Enrich(snap, logged, f)]
<1>1. pc = "diagnose" /\ findings' = fs /\ incidents' = Diagnosed(snap, Graph(snap), fs)
      /\ UNCHANGED <<snap, ctx>> /\ pc' = "report"
  BY DEF DiagnoseAll, Diagnosed
<1>2. Scan(snap, findings) /\ OncePerHpa(findings)
  BY <1>1 DEF Stage, Evaluation
<1>3. ASSUME NEW f \in findings
      PROVE  Scanned(snap, AttachLogs(snap, f)) /\ Denies(snap, AttachLogs(snap, f))
             /\ SameBut(f, AttachLogs(snap, f)) /\ AttachLogs(snap, f).corr = f.corr
  BY <1>2, LoggedScan DEF Scan
<1>4. IsFiniteSet(logged)
  <2>1. IsFiniteSet({log[f] : f \in findings})
    BY <1>2, ImageIsFinite DEF Scan
  <2>2. \A f \in findings : log[f] = AttachLogs(snap, f)
    OBVIOUS
  <2> HIDE DEF log
  <2>3. {log[f] : f \in findings} = logged
    BY <2>2
  <2> QED
    BY <2>1, <2>3
<1>5. ASSUME NEW f \in logged
      PROVE  Scanned(snap, f) /\ Denies(snap, f)
  BY <1>3
<1>6. /\ \A h \in logged : \E f \in findings : SameBut(f, h) /\ h.corr = f.corr
      /\ \A f \in findings : \E h \in logged : SameBut(f, h) /\ h.corr = f.corr
  BY <1>3
<1> HIDE DEF logged
<1>7. ASSUME NEW f \in logged
      PROVE  Scanned(snap, Enrich(snap, logged, f)) /\ Denies(snap, Enrich(snap, logged, f))
             /\ SameBut(f, Enrich(snap, logged, f)) /\ Enrich(snap, logged, f).corr = f.corr
  BY <1>5, EnrichedScan
<1>8. IsFiniteSet(fs)
  <2>1. IsFiniteSet({enrich[f] : f \in logged})
    BY <1>4, ImageIsFinite
  <2>2. \A f \in logged : enrich[f] = Enrich(snap, logged, f)
    OBVIOUS
  <2> HIDE DEF enrich
  <2>3. {enrich[f] : f \in logged} = fs
    BY <2>2
  <2> QED
    BY <2>1, <2>3
<1>9. /\ \A h \in fs : \E f \in logged : SameBut(f, h) /\ h.corr = f.corr
      /\ \A f \in logged : \E h \in fs : SameBut(f, h) /\ h.corr = f.corr
  BY <1>7
<1>10. Scan(snap, fs)
  BY <1>7, <1>8 DEF Scan
<1> HIDE DEF fs
<1>11. OncePerHpa(logged)
  BY <1>2, <1>6, StillOnce
<1>12. OncePerHpa(fs)
  BY <1>9, <1>11, StillOnce
<1>13. ASSUME ctx = "live" PROVE Faithful(Evaluated(Original(snap), 35), snap, fs)
  <2>1. Faithful(Evaluated(Original(snap), 35), snap, findings)
    BY <1>1, <1>13 DEF Stage, Evaluation
  <2>2. Faithful(Evaluated(Original(snap), 35), snap, logged)
    BY <1>6, <2>1, StaysFaithful
  <2> QED
    BY <1>9, <2>2, StaysFaithful
<1> QED
  BY <1>1, <1>10, <1>12, <1>13 DEF Stage, Evaluation

LEMMA LoggedStage ==
  ASSUME Collection, Stage, NEW p, Logs(p)
  PROVE  Stage'
<1>1. /\ snap'.obj = snap.obj /\ snap'.events = snap.events
      /\ snap.failed \subseteq snap'.failed /\ snap'.failed \subseteq snap.failed \cup {<<"get_logs",
          p>>}
  BY LogsStep
<1>2. Original(snap') = Original(snap)
  <2>1. {e \in snap'.failed : e[1] # "get_logs"} = {e \in snap.failed : e[1] # "get_logs"}
    BY <1>1
  <2> QED
    BY <1>1, <2>1 DEF Original
<1>3. pc = "logs" /\ pc' \in {"logs", "diagnose"} /\ UNCHANGED <<ctx, findings, incidents>>
  BY DEF Logs
<1>4. Scan(snap, findings) /\ OncePerHpa(findings)
  BY <1>3 DEF Stage, Evaluation
<1>5. Scan(snap', findings)
  BY <1>1, <1>4, SameObjects
<1>6. ASSUME ctx = "live" PROVE Faithful(Evaluated(Original(snap'), 35), snap', findings)
  <2>1. Faithful(Evaluated(Original(snap), 35), snap, findings)
    BY <1>3, <1>6 DEF Stage, Evaluation
  <2> QED
    BY <1>1, <1>2, <2>1 DEF Faithful, At
<1> QED
  BY <1>3, <1>4, <1>5, <1>6 DEF Stage, Evaluation

LEMMA StageStep ==
  ASSUME Collection, Stage, [Next]_vars
  PROVE  Stage'
<1>1. CASE UNCHANGED vars
  <2>1. Reported => Reported'
    BY <1>1 DEF vars, Reported, Level, Integrity, FailedKinds, FailedIn, Planned, Members, Roots
  <2> QED
    BY <1>1, <2>1 DEF Stage, Evaluation, vars
<1>2. CASE ClusterChanges \/ Connect \/ ListNamespaces \/ GiveUp \/ \E op \in Answering : List(op)
  <2>1. pc' \notin {"logs", "diagnose", "report", "done"} /\ incidents' = incidents
      /\ pc \notin {"report", "done"}
    BY <1>2 DEF ClusterChanges, Connect, ListNamespaces, GiveUp, List
  <2> QED
    BY <2>1 DEF Stage
<1>3. CASE Deadline
  <2>1. ctx = "live" /\ ctx' = "done" /\ UNCHANGED <<pc, snap, findings, incidents>>
      /\ pc \notin {"report", "done"}
    BY <1>3 DEF Deadline
  <2> QED
    BY <2>1 DEF Stage, Evaluation
<1>4. CASE Conclude
  <2>1. /\ pc = "report" /\ pc' = "done" /\ UNCHANGED <<world, ctx, snap, findings, incidents, targets>>
        /\ report' = [level |-> Level(Integrity(snap), findings, incidents),
                      score |-> Score(snap, findings, incidents),
                      integrity |-> Integrity(snap), failed |-> FailedKinds(snap)]
    BY <1>4 DEF Conclude
  <2> DEFINE lv == Level(Integrity(snap), findings, incidents)
             fk == FailedKinds(snap)
             sc == Score(snap, findings, incidents)
             it == Integrity(snap)
  <2>2. lv' = lv /\ fk' = fk
    BY <2>1 DEF Level, Integrity, FailedKinds, FailedIn, Planned, Members, Roots
  <2> HIDE DEF sc, it, lv, fk
  <2>3. report' = [level |-> lv, score |-> sc, integrity |-> it, failed |-> fk]
    BY <2>1 DEF sc, it, lv, fk
  <2>4. report'.level = lv /\ report'.failed = fk
    BY <2>3
  <2>5. Reported'
    BY <2>2, <2>4 DEF Reported, lv, fk
  <2> QED
    BY <2>1, <2>5 DEF Stage, Evaluation
<1> QED
  BY <1>1, <1>2, <1>3, <1>4, EvaluateStep, DiagnoseStep, LoggedStage DEF Next

LEMMA StageInit == Init => Stage
  BY DEF Init, Stage

(* So every incident of a report is sound.                                  *)
LEMMA IncidentIsSound ==
  ASSUME Collection, Stage, NEW inc \in incidents
  PROVE  \E grp \in Groups(snap, findings) : Sound(snap, grp, inc) /\ Ranked(grp)
           /\ grp \subseteq findings
<1>1. pc \in {"report", "done"} /\ incidents = Diagnosed(snap, Graph(snap), findings)
  BY DEF Stage
<1>2. Scan(snap, findings) /\ OncePerHpa(findings) /\ ObjectsTyped(snap.obj)
  BY <1>1, SnapIsTyped DEF Collection, Stage, Evaluation
<1>3. PICK grp \in Groups(snap, findings) : Sound(snap, grp, inc)
  BY <1>1, <1>2, DiagnosedFact
<1>4. grp \subseteq findings
  BY <1>2, GroupFacts DEF Scan
<1>5. Ranked(grp)
  BY <1>2, <1>4, ScannedIsOrdered DEF Ranked, Scan
<1> QED
  BY <1>3, <1>4, <1>5

(* From which the two properties of incidents follow,                       *)
LEMMA Unexplained == Collection /\ Stage => RootIsUnexplained
<1> SUFFICES ASSUME Collection, Stage, NEW inc \in incidents, NEW i \in DOMAIN inc.items,
                    inc.items[i].rule \in ToSet(CausalCauses(inc.root.rule))
             PROVE  FALSE
  BY DEF RootIsUnexplained
<1>1. PICK grp \in Groups(snap, findings) : Sound(snap, grp, inc)
  BY IncidentIsSound
<1>2. inc.items \in Seq(grp) /\ Settled(grp, inc.root)
  BY <1>1 DEF Sound, Gathered
<1>3. inc.items[i] \in grp
  BY <1>2
<1> QED
  BY <1>2, <1>3 DEF Settled, RulesOf, CauseSet

LEMMA TreesSound == Collection /\ Stage => TreeIsSound
<1> SUFFICES ASSUME Collection, Stage, NEW inc \in incidents
             PROVE  LET ids == {inc.items[i].id : i \in DOMAIN inc.items}
                    IN /\ \A e \in inc.edges : e.source \in ids /\ e.target \in ids
                        /\ e.source # e.target
                       /\ \A e, d \in inc.edges : e.target = d.target => e = d
                       /\ \A some \in (SUBSET inc.edges) \ {{}} :
                            \E e \in some : \A d \in some : d.target # e.source
  BY DEF TreeIsSound
<1> DEFINE ids == {inc.items[i].id : i \in DOMAIN inc.items}
<1>1. PICK grp \in Groups(snap, findings) : Sound(snap, grp, inc) /\ Ranked(grp)
  BY IncidentIsSound
<1>2. \A f \in grp : f.id \in ids
  BY <1>1 DEF Sound, Gathered
<1>3. ASSUME NEW e \in inc.edges PROVE e.source \in ids /\ e.target \in ids /\ e.source # e.target
  <2>1. PICK x \in grp, y \in grp : e.source = x.id /\ e.target = y.id /\ Order[x.rule] < Order[y.rule]
    BY <1>1 DEF Sound, EdgeFits
  <2>2. x.id[2] = x.rule /\ y.id[2] = y.rule /\ x.rule \in RuleNames /\ y.rule \in RuleNames
    BY <1>1 DEF Ranked, Ordered
  <2>3. Order[x.rule] \in Nat /\ Order[y.rule] \in Nat
    BY <2>2, OrderFalls
  <2>4. x.rule # y.rule
    BY <2>1, <2>3
  <2> QED
    BY <1>2, <2>1, <2>2, <2>4
<1>4. \A e, d \in inc.edges : e.target = d.target => e = d
  BY <1>1 DEF Sound, OneCauseEach
<1>5. ASSUME NEW some \in (SUBSET inc.edges) \ {{}}
      PROVE  \E e \in some : \A d \in some : d.target # e.source
  <2>1. \A e \in inc.edges : EdgeFits(grp, e)
    BY <1>1 DEF Sound
  <2>2. some \in SUBSET inc.edges /\ some # {}
    OBVIOUS
  <2> QED
    BY <1>1, <2>1, <2>2, NoCircle
<1> QED
  BY <1>3, <1>4, <1>5

(* What is denied is not in the snapshot.                                   *)
LEMMA DeniedIsLost ==
  ASSUME Collection, Stage, NEW r \in Denied, pc = "done"
  PROVE  r \notin DOMAIN snap.obj
<1>1. CASE \E f \in findings : f.rule \in DenyingRules /\ r = f.ev[1][3]
  <2>1. Scan(snap, findings)
    BY DEF Stage, Evaluation
  <2> QED
    BY <1>1, <2>1 DEF Scan, Denies
<1>2. CASE \E inc \in incidents : r \in inc.denied
  <2>1. PICK inc \in incidents : r \in inc.denied
    BY <1>2
  <2>2. PICK grp \in Groups(snap, findings) : Sound(snap, grp, inc)
    BY IncidentIsSound
  <2> QED
    BY <2>1, <2>2 DEF Sound
<1> QED
  BY <1>1, <1>2 DEF Denied, DenyingRules

(* A list that failed is in the report's account.                           *)
LEMMA PlannedOfList ==
  ASSUME NEW op \in DOMAIN ListOf
  PROVE  Planned(snap, GroupOf(op)) \in Nat \ {0} /\ GroupOf(op) \in KindGroups
<1> DEFINE g == GroupOf(op)
           T == {o \in DOMAIN ListOf : GroupOf(o) = g}
<1>1. g # "events" /\ g # "logs"
  BY DEF GroupOf, ListOf
<1>2. Planned(snap, g) = Cardinality(T)
  BY <1>1 DEF Planned
<1>3. IsFiniteSet(DOMAIN ListOf)
  <2>1. \A a, b, c, d, e : IsFiniteSet({a, b, c, d, e})
    <3> TAKE a, b, c, d, e
    <3>1. IsFiniteSet({a}) /\ IsFiniteSet({b}) /\ IsFiniteSet({c}) /\ IsFiniteSet({d})
        /\ IsFiniteSet({e})
      BY FS_Singleton
    <3>2. IsFiniteSet({a} \cup {b})
      BY <3>1, FS_Union
    <3>3. IsFiniteSet(({a} \cup {b}) \cup {c})
      BY <3>1, <3>2, FS_Union
    <3>4. IsFiniteSet((({a} \cup {b}) \cup {c}) \cup {d})
      BY <3>1, <3>3, FS_Union
    <3>5. IsFiniteSet(((({a} \cup {b}) \cup {c}) \cup {d}) \cup {e})
      BY <3>1, <3>4, FS_Union
    <3>6. {a, b, c, d, e} = ((({a} \cup {b}) \cup {c}) \cup {d}) \cup {e}
      OBVIOUS
    <3> QED
      BY <3>5, <3>6
  <2> DEFINE A == {"list_pods", "list_nodes", "list_services", "list_endpoint_slices",
      "list_deployments"}
             B == {"list_replica_sets", "list_stateful_sets", "list_daemon_sets", "list_jobs",
                 "list_cron_jobs"}
             C == {"list_pvcs", "list_pvs", "list_storage_classes", "list_volume_attachments",
                 "list_ingresses"}
             D == {"list_network_policies", "list_hpa", "list_pdb", "list_roles", "list_role_bindings"}
             E == {"list_cluster_roles", "list_cluster_role_bindings", "list_config_maps",
                 "list_secret_meta", "list_namespaces"}
  <2>2. DOMAIN ListOf = (((A \cup B) \cup C) \cup D) \cup E
    BY DEF ListOf
  <2>3. IsFiniteSet(A) /\ IsFiniteSet(B) /\ IsFiniteSet(C) /\ IsFiniteSet(D) /\ IsFiniteSet(E)
    BY <2>1
  <2> HIDE DEF A, B, C, D, E
  <2>4. IsFiniteSet((A \cup B) \cup C)
    BY <2>3, FS_Union
  <2>5. IsFiniteSet((((A \cup B) \cup C) \cup D) \cup E)
    BY <2>3, <2>4, FS_Union
  <2> QED
    BY <2>2, <2>5
<1>4. IsFiniteSet(T) /\ op \in T
  BY <1>3, FS_Subset
<1> HIDE DEF T
<1>5. Cardinality(T) \in Nat /\ T # {}
  BY <1>4, FS_CardinalityType
<1>6. Cardinality(T) # 0
  BY <1>4, <1>5, FS_EmptySet
<1> QED
  BY <1>2, <1>5, <1>6 DEF KindGroups

(* A failure counts in its group.                                           *)
LEMMA FailureCounts ==
  ASSUME SnapTyped, NEW e \in snap.failed
  PROVE  FailedIn(snap, GroupOf(e[1])) \in Nat \ {0}
<1> DEFINE T == {x \in snap.failed : GroupOf(x[1]) = GroupOf(e[1])}
<1>1. IsFiniteSet(T) /\ e \in T
  BY FS_Subset DEF SnapTyped
<1> HIDE DEF T
<1>2. Cardinality(T) \in Nat /\ Cardinality(T) # 0
  BY <1>1, FS_CardinalityType, FS_EmptySet
<1> QED
  BY <1>2 DEF FailedIn, T

(* What is denied though it was there is of a list that failed.             *)
LEMMA Accounted == Collection /\ Stage => AbsenceIsAccounted
<1> SUFFICES ASSUME Collection, Stage, pc = "done", NEW r \in Denied, Kind(r) \in Listed, Present(r)
             PROVE  \E op \in DOMAIN ListOf : ListOf[op] = Kind(r) /\ GroupOf(op) \in report.failed
  BY DEF AbsenceIsAccounted, Done
<1>1. PICK op \in DOMAIN ListOf : ListOf[op] = Kind(r)
  BY DEF Listed
<1>2. Answered(op)
  BY DEF Collection, ListsAnswered, Listing
<1>3. <<op, None>> \in snap.failed
  BY <1>1, <1>2, DeniedIsLost DEF Answered
<1>4. FailedIn(snap, GroupOf(op)) \in Nat \ {0}
  <2>1. SnapTyped /\ <<op, None>>[1] = op
    BY DEF Collection
  <2> QED
    BY <1>3, <2>1, FailureCounts
<1>5. GroupOf(op) \in FailedKinds(snap)
  BY <1>4, PlannedOfList DEF FailedKinds
<1>6. report.failed = FailedKinds(snap)
  BY DEF Stage, Reported
<1> QED
  BY <1>1, <1>5, <1>6

(* What the snapshot is, besides what was found out.                        *)
Known == /\ snap.obj = [r \in DOMAIN snap.obj |-> snap.obj[r]]
         /\ \A e \in snap.failed : e[1] \in DOMAIN ListOf \cup {"list_events", "get_logs"}

LEMMA KnownInit == Init => Known
<1> SUFFICES ASSUME Init PROVE Known
  OBVIOUS
<1>1. snap.obj = <<>> /\ snap.failed = {}
  BY DEF Init
<1>2. <<>> = [r \in DOMAIN <<>> |-> <<>>[r]]
  OBVIOUS
<1> QED
  BY <1>1, <1>2 DEF Known

LEMMA KnownStep ==
  ASSUME Collection, Known, [Next]_vars
  PROVE  Known'
<1>1. CASE snap' = snap
  BY <1>1 DEF Known
<1>2. ASSUME NEW kind, snap' = Add(snap, kind) PROVE Known'
  <2> DEFINE got == {r \in DOMAIN Cluster.obj : Kind(r) = kind}
             new == [r \in DOMAIN snap.obj \cup got |-> IF r \in got THEN Cluster.obj[r] ELSE snap.obj[r]]
  <2>1. PICK a, b, c, d : snap = [obj |-> a, events |-> b, logs |-> c, failed |-> d]
    BY DEF Collection, SnapTyped
  <2>2. snap' = [snap EXCEPT !.obj = new]
    BY <1>2 DEF Add
  <2>3. new = [r \in DOMAIN new |-> new[r]]
    OBVIOUS
  <2> HIDE DEF new
  <2>4. snap' = [obj |-> new, events |-> b, logs |-> c, failed |-> d]
    BY <2>1, <2>2
  <2>5. snap'.obj = new /\ snap'.failed = snap.failed
    BY <2>1, <2>4
  <2> QED
    BY <2>3, <2>5 DEF Known
<1>3. ASSUME NEW op \in DOMAIN ListOf \cup {"list_events"}, NEW scope, snap' = AddError(snap, op,
    scope) PROVE Known'
  <2>1. snap' = [obj |-> snap.obj, events |-> snap.events, logs |-> snap.logs,
      failed |-> snap.failed \cup {<<op, scope>>}]
    BY <1>3, ErrorFacts DEF Collection
  <2>2. snap'.obj = snap.obj /\ snap'.failed = snap.failed \cup {<<op, scope>>}
    BY <2>1
  <2> QED
    BY <2>2 DEF Known
<1>4. CASE UNCHANGED vars \/ ClusterChanges \/ Deadline \/ Connect \/ GiveUp \/ Evaluate \/ DiagnoseAll \/ Conclude
  BY <1>1, <1>4 DEF vars, ClusterChanges, Deadline, Connect, GiveUp, Evaluate, DiagnoseAll, Conclude
<1>5. CASE ListNamespaces
  <2>1. "list_namespaces" \in DOMAIN ListOf
    BY DEF ListOf
  <2>2. snap' = Add(snap, "Namespace") \/ snap' = AddError(snap, "list_namespaces", None)
    BY <1>5 DEF ListNamespaces
  <2> QED
    BY <1>2, <1>3, <2>1, <2>2
<1>6. ASSUME NEW op \in Answering, List(op) PROVE Known'
  <2>1. op \in DOMAIN ListOf \cup {"list_events"}
    BY <1>6 DEF List, Collection, NotYetLogged, ResourceTasks
  <2>2. snap' = Collected(op) \/ snap' = AddError(snap, op, None)
    BY <1>6 DEF List
  <2>3. CASE snap' = Collected(op) /\ op = "list_events"
    <3>1. snap' = [obj |-> snap.obj, events |-> Cluster.events, logs |-> snap.logs,
        failed |-> snap.failed]
      BY <2>3, EventsFacts DEF Collected, Collection
    <3>2. snap'.obj = snap.obj /\ snap'.failed = snap.failed
      BY <3>1
    <3> QED
      BY <3>2 DEF Known
  <2>4. CASE snap' = Collected(op) /\ op # "list_events"
    BY <1>2, <2>4 DEF Collected
  <2> QED
    BY <1>3, <2>1, <2>2, <2>3, <2>4
<1>7. ASSUME NEW p, Logs(p) PROVE Known'
  BY <1>7, LogsStep DEF Known
<1> QED
  BY <1>4, <1>5, <1>6, <1>7 DEF Next

(* A root that could be of a pod is none beside a node at fault.            *)
Above == {"PVCPending", "StorageClassNoProvisioner"} \cup NodeRules

LEMMA AboveHop ==
  ASSUME NEW fs, \A f \in fs : Ordered(f), NEW v, v[1] \in fs, v[2] \in SUBSET RulesOf(fs),
      v[1].rule \in Above
  PROVE  LET h == Hop(fs, v[1], v[2]) IN h[1] \in fs /\ h[2] \in SUBSET RulesOf(fs)
           /\ h[1].rule \in Above
<1> DEFINE h == Hop(fs, v[1], v[2])
           causes == CauseSet(v[1].rule) \cap (RulesOf(fs) \ v[2])
<1>1. \/ causes = {} /\ h = <<v[1], v[2]>>
      \/ h[1] \in fs /\ h[1].rule \in causes /\ h = <<h[1], v[2] \cup {h[1].rule}>>
  BY HopFact
<1>2. CauseSet(v[1].rule) \subseteq {"StorageClassNoProvisioner"}
  BY CauseTable DEF Above, NodeRules
<1> HIDE DEF h
<1>3. ASSUME h = <<v[1], v[2]>>
      PROVE  h[1] \in fs /\ h[2] \in SUBSET RulesOf(fs) /\ h[1].rule \in Above
  <2>1. h[1] = v[1] /\ h[2] = v[2]
    BY <1>3
  <2> QED
    BY <2>1
<1>4. ASSUME h[1] \in fs /\ h[1].rule \in causes /\ h = <<h[1], v[2] \cup {h[1].rule}>>
      PROVE  h[1] \in fs /\ h[2] \in SUBSET RulesOf(fs) /\ h[1].rule \in Above
  <2>1. h[2] = v[2] \cup {h[1].rule} /\ h[1].rule \in RulesOf(fs) /\ h[1].rule \in Above
    BY <1>2, <1>4 DEF Above
  <2> QED
    BY <1>4, <2>1
<1> QED
  BY <1>1, <1>3, <1>4 DEF h

LEMMA NodeTakesRoot ==
  ASSUME NEW fs, \A f \in fs : Ordered(f), NEW g \in fs, g.rule \in NodeRules \ {"NodePIDPressure"}
  PROVE  PickRoot(fs).rule \in Above
<1> DEFINE start == PickRootByDomain(fs)
           x == <<start, {start.rule}>>
<1>1. start \in fs /\ start.rule \in Above
  <2>1. /\ start \in fs
        /\ \/ RulesOf(fs) \cap {DomainOrder[i] : i \in 1..15} = {}
           \/ \E i \in 1..15 : start.rule = DomainOrder[i]
               /\ \A j \in 1..(i - 1) : DomainOrder[j] \notin RulesOf(fs)
    BY StartFact
  <2>2. g.rule \in RulesOf(fs) /\ g.rule \in {DomainOrder[2], DomainOrder[3], DomainOrder[4]}
    BY DEF RulesOf, NodeRules, DomainOrder
  <2>3. PICK k \in 2..4 : g.rule = DomainOrder[k]
    BY <2>2
  <2>4. PICK i \in 1..15 : start.rule = DomainOrder[i]
      /\ \A j \in 1..(i - 1) : DomainOrder[j] \notin RulesOf(fs)
    BY <2>1, <2>2
  <2>5. i \in 1..4
    BY <2>2, <2>3, <2>4
  <2>6. \A n \in 1..4 : DomainOrder[n] \in Above
    BY DEF DomainOrder, Above, NodeRules
  <2> QED
    BY <2>1, <2>4, <2>5, <2>6
<1>2. PICK a, b, c : /\ a = Hop(fs, x[1], x[2]) /\ b = Hop(fs, a[1], a[2]) /\ c = Hop(fs, b[1], b[2])
                     /\ PickRoot(fs) = c[1]
  BY RootFact
<1>3. x[1] \in fs /\ x[2] \in SUBSET RulesOf(fs) /\ x[1].rule \in Above
  BY <1>1 DEF RulesOf
<1> HIDE DEF x
<1>4. a[1] \in fs /\ a[2] \in SUBSET RulesOf(fs) /\ a[1].rule \in Above
  BY <1>2, <1>3, AboveHop
<1>5. b[1] \in fs /\ b[2] \in SUBSET RulesOf(fs) /\ b[1].rule \in Above
  BY <1>2, <1>4, AboveHop
<1>6. c[1] \in fs /\ c[2] \in SUBSET RulesOf(fs) /\ c[1].rule \in Above
  BY <1>2, <1>5, AboveHop
<1> QED
  BY <1>2, <1>6

(* What a pod's node is accused of touches what its pods are.               *)
LEMMA NodeTouchesPod ==
  ASSUME NEW s, NEW f, Scanned(s, f), Kind(f.res) = "Pod", NEW g, g.res = At(s, f.res).node,
      g.res # None
  PROVE  TouchKeys(s, f) \cap TouchKeys(s, g) # {}
<1> DEFINE n == At(s, f.res).node
           mine == (ToSet(OwnerChain(s, f.res)) \cup {At(s, f.res).node, At(s, f.res).pvc}
                         \cup ServicesOfPod(s, f.res)) \ {None}
<1>1. Has(s, f.res)
  BY DEF Scanned, IsThere, Has, Kind
<1>2. n \in mine
  OBVIOUS
<1>3. TouchKeys(s, f) = {f.res} \cup mine
  BY <1>1 DEF TouchKeys, Workloads
<1>4. g.res \in TouchKeys(s, g)
  BY DEF TouchKeys
<1> HIDE DEF mine
<1> QED
  BY <1>2, <1>3, <1>4

(* The root of a group is not left out as a victim of its node.             *)
LEMMA RootIsShown ==
  ASSUME NEW s, ObjectsTyped(s.obj), NEW fs, Scan(s, fs), NEW from, Faithful(from, s, fs),
         \A f \in fs : f.rule # "NodePIDPressure", NEW grp \in Groups(s, fs)
  PROVE  PickRoot(grp) \in fs /\ ~PickRoot(grp).corr
<1> DEFINE r == PickRoot(grp)
<1>1. /\ grp \subseteq fs /\ grp # {} /\ \A f \in grp : Ordered(f) /\ Scanned(s, f)
      /\ \A f \in grp, g \in fs : TouchKeys(s, f) \cap TouchKeys(s, g) # {} => g \in grp
  BY GroupFacts, ScannedIsOrdered DEF Scan
<1>2. r \in grp
  BY <1>1, RootSettles
<1>3. ASSUME r.corr PROVE FALSE
  <2> HIDE DEF r
  <2>1. PICK g \in fs : g.rule \in NodeRules /\ g.res = At(s, r.res).node /\ Kind(r.res) = "Pod"
    BY <1>1, <1>2, <1>3 DEF Faithful
  <2>2. KindsOf(g.rule) = {"Node"}
    BY <2>1 DEF KindsOf, NodeRules, PodRules
  <2>3. g.res # None
    BY <2>2 DEF Scan, Scanned, Kind, None
  <2>4. g \in grp
    BY <1>1, <1>2, <2>1, <2>3, NodeTouchesPod
  <2>5. r.rule \in Above
    BY <1>1, <2>1, <2>4, NodeTakesRoot DEF r
  <2>6. r.rule \in PodRules
    BY <1>1, <1>2, <2>1, RulesOfKind
  <2> QED
    BY <2>5, <2>6 DEF Above, PodRules, NodeRules
<1> QED
  BY <1>1, <1>2, <1>3

(* With one cluster, and nothing that failed, the rules saw all of it.      *)
LEMMA NothingFailed ==
  ASSUME Collection, Stage, Known, pc = "done", report.failed = {}, world.events
  PROVE  \A e \in snap.failed : e[1] = "get_logs"
<1> SUFFICES ASSUME NEW e \in snap.failed, e[1] # "get_logs" PROVE FALSE
  OBVIOUS
<1>1. FailedIn(snap, GroupOf(e[1])) \in Nat \ {0}
  BY FailureCounts DEF Collection
<1>2. FailedKinds(snap) = {}
  BY DEF Stage, Reported
<1>3. CASE e[1] \in DOMAIN ListOf
  BY <1>1, <1>2, <1>3, PlannedOfList DEF FailedKinds
<1>4. CASE e[1] = "list_events"
  <2> DEFINE n == Cardinality(Of(snap, "Namespace"))
  <2>1. n \in Nat
    BY FS_Subset, FS_CardinalityType DEF Collection, SnapTyped, Of
  <2>2. Planned(snap, "events") = Max({1, n})
    BY DEF Planned
  <2>3. GroupOf("list_events") = "events" /\ "events" \in KindGroups
    BY DEF GroupOf, KindGroups
  <2> HIDE DEF n
  <2>4. \E x \in {1, n} : \A y \in {1, n} : x >= y
    BY <2>1
  <2>5. Max({1, n}) > 0
    BY <2>1, <2>4 DEF Max
  <2> QED
    BY <1>1, <1>2, <1>4, <2>2, <2>3, <2>5 DEF FailedKinds
<1> QED
  BY <1>3, <1>4 DEF Known

(* So the snapshot, its logs aside, is the cluster.                         *)
LEMMA SeenWhole ==
  ASSUME Collection, Stage, Known, pc = "done", report.failed = {}, world.events,
      Len(world.clusters) = 1
  PROVE  Original(snap) = Whole
<1>1. now = 1 /\ ObjOf(1) = Cluster.obj /\ \A i \in 1..now : i = 1
  BY DEF Collection, Surroundings, ObjOf, Cluster
<1>2. \A e \in snap.failed : e[1] = "get_logs"
  BY NothingFailed
<1>3. \A r : Present(r) <=> r \in DOMAIN Cluster.obj
  BY <1>1 DEF Present, ObjOf
<1>4. ASSUME NEW r \in DOMAIN Cluster.obj, Kind(r) \in Listed PROVE r \in DOMAIN snap.obj
  <2>1. PICK op \in DOMAIN ListOf : ListOf[op] = Kind(r)
    BY <1>4 DEF Listed
  <2>2. Answered(op)
    BY DEF Collection, ListsAnswered, Listing
  <2>3. <<op, None>> \notin snap.failed
    <3>1. op # "get_logs"
      BY DEF ListOf
    <3> QED
      BY <1>2, <3>1
  <2> QED
    BY <1>3, <2>1, <2>2, <2>3 DEF Answered
<1>5. \A r \in DOMAIN snap.obj : Kind(r) \in Listed /\ r \in DOMAIN Cluster.obj
    /\ snap.obj[r] = Cluster.obj[r]
  BY <1>1 DEF Collection, Seen
<1>6. DOMAIN snap.obj = {x \in DOMAIN Cluster.obj : Kind(x) \in Listed}
  BY <1>4, <1>5
<1>7. snap.obj = [r \in {x \in DOMAIN Cluster.obj : Kind(x) \in Listed} |-> Cluster.obj[r]]
  BY <1>5, <1>6 DEF Known
<1>8. snap.events = Cluster.events
  <2>1. <<"Namespace", 1>> \in DOMAIN Cluster.obj
    BY <1>1, ClusterAt DEF ClusterTyped, Collection, Cluster
  <2>2. Kind(<<"Namespace", 1>>) = "Namespace" /\ "Namespace" \in Listed
    BY DEF Kind, Listed, ListOf
  <2>3. <<"Namespace", 1>> \in Of(snap, "Namespace")
    BY <1>4, <2>1, <2>2 DEF Of
  <2>4. <<"list_events", None>> \notin snap.failed
    BY <1>2
  <2>5. \E i \in 1..now : snap.events = ClusterOf(world.clusters[i]).events
    BY <2>3, <2>4 DEF Collection, EventsAnswered, Listing
  <2> QED
    BY <1>1, <2>5 DEF Cluster
<1>9. {e \in snap.failed : e[1] # "get_logs"} = {}
  BY <1>2
<1> QED
  BY <1>7, <1>8, <1>9 DEF Original, Whole

(* A finding of the cluster has a group, the group a root that is shown.    *)
LEMMA Earned == Collection /\ Stage /\ Known => HealthyIsEarned
<1> SUFFICES ASSUME Collection, Stage, Known, pc = "done", report.level = "healthy", report.failed = {},
                    ctx = "live", world.events, Len(world.clusters) = 1,
                    NodePIDPressure(Whole) = {}, Evaluated(Whole, 35) # {}
             PROVE  FALSE
  BY DEF HealthyIsEarned, Done
<1>1. Original(snap) = Whole
  BY SeenWhole
<1>2. Scan(snap, findings) /\ OncePerHpa(findings) /\ ObjectsTyped(snap.obj)
      /\ Faithful(Evaluated(Whole, 35), snap, findings)
  BY <1>1, SnapIsTyped DEF Collection, Stage, Evaluation
<1>3. \A f \in Evaluated(Whole, 35) : f.rule # "NodePIDPressure"
  <2> DEFINE all == Outcomes(Whole)
  <2>1. ObjectsTyped(Whole.obj)
    BY <1>1, <1>2 DEF Original
  <2>2. \A i \in 1..35 : FindingsOf(Whole, all[i], RuleOrder[i], KindsOf(RuleOrder[i]))
    BY <2>1, TypedIsFindable, EachRule
  <2>3. all[14] = NodePIDPressure(Whole)
    BY DEF Outcomes
  <2>4. \A i \in 1..35 : RuleOrder[i] = "NodePIDPressure" => i = 14
    BY DEF RuleOrder
  <2>5. Evaluated(Whole, 35) = UNION {all[i] : i \in 1..35}
    BY DEF Evaluated
  <2> HIDE DEF all
  <2> QED
    BY <2>2, <2>3, <2>4, <2>5 DEF FindingsOf
<1>4. \A f \in findings : f.rule # "NodePIDPressure"
  BY <1>2, <1>3 DEF Faithful, SameBut
<1>5. PICK grp : grp \in Groups(snap, findings)
  <2>1. findings # {}
    BY <1>2 DEF Faithful
  <2> QED
    BY <2>1 DEF Groups
<1>6. PickRoot(grp) \in findings /\ ~PickRoot(grp).corr
  BY <1>2, <1>4, <1>5, RootIsShown
<1>7. PICK inc \in incidents : Sound(snap, grp, inc)
  BY <1>2, <1>5, DiagnosedFact DEF Stage
<1>8. inc.root = PickRoot(grp)
  BY <1>7 DEF Sound, Gathered
<1>9. report.level = Level(Integrity(snap), findings, incidents)
  BY DEF Stage, Reported
<1> DEFINE shown == {f \in findings : ~f.corr /\ (f.id \in Members(incidents) => f.id \in Roots(incidents))}
<1>10. inc.root \in shown
  BY <1>6, <1>7, <1>8 DEF Roots
<1>11. Level(Integrity(snap), findings, incidents) # "healthy"
  BY <1>10 DEF Level
<1> QED
  BY <1>9, <1>11

(* The invariant of every inspection.                                       *)
THEOREM Inspects == Spec => [](Collection /\ Stage /\ Known)
<1>1. Init => Collection /\ Stage /\ Known
  BY CollectionInit, StageInit, KnownInit
<1>2. Collection /\ Stage /\ Known /\ [Next]_vars => (Collection /\ Stage /\ Known)'
  BY CollectionStep, StageStep, KnownStep
<1> QED
  BY <1>1, <1>2, PTL DEF Spec

(* What a report says does not exist was missing at some moment, or its     *)
(* kind is among those that the report says were not collected.             *)
THEOREM AbsenceAccounted == Spec => []AbsenceIsAccounted
<1>1. Collection /\ Stage /\ Known => AbsenceIsAccounted
  BY Accounted
<1> QED
  BY <1>1, Inspects, PTL

(* A report that calls a cluster healthy, with nothing missing, is of a     *)
(* cluster on which no rule holds, but for a node short of process ids.     *)
THEOREM HealthyEarned == Spec => []HealthyIsEarned
<1>1. Collection /\ Stage /\ Known => HealthyIsEarned
  BY Earned
<1> QED
  BY <1>1, Inspects, PTL

(* The causal edges of an incident join its own findings, give each at most *)
(* one cause and never run in a circle.                                     *)
THEOREM TreesAreSound == Spec => []TreeIsSound
<1>1. Collection /\ Stage /\ Known => TreeIsSound
  BY TreesSound
<1> QED
  BY <1>1, Inspects, PTL

(* No finding of an incident is one of the causes of its root.              *)
THEOREM RootsUnexplained == Spec => []RootIsUnexplained
<1>1. Collection /\ Stage /\ Known => RootIsUnexplained
  BY Unexplained
<1> QED
  BY <1>1, Inspects, PTL
=============================================================================
