--------------------------- MODULE ServicesProofs ---------------------------
(***************************************************************************)
(* The platform services, for every set of namespaces, bundles and groups, *)
(* any combination of the three controllers and any number of user         *)
(* actions.  First the trusted-CA controller in every environment:         *)
(* BundlesSettle speaks of the moments at which nothing is left to do; its *)
(* inductive invariant says, for every moment, who still knows that a      *)
(* namespace is not right.  Then the services put together.  Whoever takes *)
(* a step, what it does to the namespaces, to the DSCI and to the          *)
(* ConfigMaps is one write; from that follow the types, and that the       *)
(* composition implements the trusted-CA component, so that what was shown *)
(* of it alone holds here.                                                 *)
(***************************************************************************)
EXTENDS Services, TLAPS

-----------------------------------------------------------------------------
(* The trusted-CA controller *)

(* An active namespace without an event on its way is in the cache as it is *)
NsKnown ==
  \A n \in Namespaces :
    ns[n].phase = "active" /\ n \notin nsDirty =>
      nsSeen[n].phase = "active" /\ nsSeen[n].optout = ns[n].optout

(* So is the bundle of a DSCI without an event on its way *)
DSCIKnown ==
  dsci.phase # "absent" /\ "bundle" \notin dsciEvents =>
    dsciSeen.phase # "absent" /\ dsciSeen.bundle = dsci.bundle

(* Something will bring namespace n back into the queue, or it is there *)
Announced(n) == n \in nsDirty \/ "bundle" \in dsciEvents \/ n \in caQueue

(* The reconcile in progress does what is right now, or will be repeated *)
WorkRight ==
  \A w \in caWork :
    ns[w.n].phase = "active" =>
      \/ Announced(w.n)
      \/ w.op = Decision(w.n, ns[w.n], dsci)
      \/ Decision(w.n, ns[w.n], dsci) = "keep"

(* Every active namespace is right, announced or being worked on *)
Covered ==
  \A n \in Namespaces :
    ns[n].phase = "active" =>
      \/ Announced(n) \/ n \in cmDirty
      \/ \E w \in caWork : w.n = n
      \/ cm[n] \in Wanted(n)

CAInv == ClusterTypeOK /\ CATypeOK /\ NsKnown /\ DSCIKnown /\ WorkRight /\ Covered

-----------------------------------------------------------------------------
(* Decision has a value of its type, and depends on the phase and annotation
   of the namespace and on the presence and bundle of the DSCI alone. *)
LEMMA DecisionType ==
  ASSUME NEW n \in Namespaces, NEW x \in NsState, NEW d \in DSCIState
  PROVE  Decision(n, x, d) \in {"keep", "delete"} \cup CAs
BY Zenon DEF Decision, NsState, DSCIState, Bundles, IsActiveNamespace, IsReservedNamespace,
       ShouldInjectTrustedCABundle

(* The ConfigMap that the write of decision c leaves is one that is wanted *)
LEMMA WantedByDecision ==
  ASSUME NEW n \in Namespaces, ClusterTypeOK
  PROVE  /\ Decision(n, ns[n], dsci) = "keep" => Wanted(n) = ConfigMaps
         /\ Decision(n, ns[n], dsci) = "delete" => Wanted(n) = {"none", "foreign"}
         /\ Decision(n, ns[n], dsci) \in CAs => Wanted(n) = {Decision(n, ns[n], dsci)}
BY NamespacesAssumption DEF Wanted

(* Initially no DSCI asks for anything *)
LEMMA CAInitInv == CAInit => CAInv
<1> SUFFICES ASSUME CAInit PROVE CAInv
  OBVIOUS
<1> USE DEF CAInit, ClusterInit0
<1>1. NoNs \in NsState /\ NewNs \in NsState
  BY Zenon DEF NoNs, NewNs, NsState, PSA
<1>2. NoDSCI \in DSCIState
  BY Zenon DEF NoDSCI, DSCIState, DSCIStatus, Bundles
<1>3. ClusterTypeOK
  BY <1>1, <1>2 DEF ClusterTypeOK, ConfigMaps
<1>4. CATypeOK
  BY DEF CATypeOK
<1>5. NsKnown /\ WorkRight
  BY DEF NsKnown, WorkRight
<1>6. DSCIKnown
  BY Zenon DEF DSCIKnown, NoDSCI
<1>7. Covered
  <2> SUFFICES ASSUME NEW n \in Namespaces PROVE cm[n] \in Wanted(n)
    BY DEF Covered
  <2>1. Decision(n, ns[n], dsci) = "keep"
    BY Zenon DEF Decision, NoDSCI
  <2> QED
    BY <1>3, <2>1, WantedByDecision DEF ClusterTypeOK
<1> QED
  BY <1>3, <1>4, <1>5, <1>6, <1>7 DEF CAInv

(* A request that starts is worked on with a decision that is right, or that
   an event on its way will have taken again. *)
LEMMA CABeginInv == CAInv /\ CABegin => CAInv'
<1> SUFFICES ASSUME CAInv, CABegin PROVE CAInv'
  OBVIOUS
<1> USE DEF CAInv
<1>1. PICK n \in caQueue : /\ caQueue' = caQueue \ {n}
                           /\ caWork' = {[n |-> n, op |-> Decision(n, nsSeen[n], dsciSeen)]}
  BY DEF CABegin
<1>2. UNCHANGED clusterVars /\ n \in Namespaces /\ caWork = {}
  BY DEF CABegin, CATypeOK
<1> USE <1>2 DEF clusterVars, nsVars, dsciVars
<1>3. ClusterTypeOK' /\ NsKnown' /\ DSCIKnown'
  BY DEF ClusterTypeOK, NsKnown, DSCIKnown
<1>4. CATypeOK'
  <2>1. Decision(n, nsSeen[n], dsciSeen) \in {"keep", "delete"} \cup CAs
    BY DecisionType DEF ClusterTypeOK
  <2> QED
    BY <1>1, <2>1 DEF CATypeOK
<1>5. WorkRight'
  <2> SUFFICES ASSUME ns[n].phase = "active", n \notin nsDirty, "bundle" \notin dsciEvents
               PROVE  \/ Decision(n, nsSeen[n], dsciSeen) = Decision(n, ns[n], dsci)
                      \/ Decision(n, ns[n], dsci) = "keep"
    BY <1>1 DEF WorkRight, Announced, Decision, IsActiveNamespace, IsReservedNamespace,
                ShouldInjectTrustedCABundle
  <2>1. nsSeen[n].phase = "active" /\ nsSeen[n].optout = ns[n].optout
    BY DEF NsKnown
  <2>2. CASE dsci.phase = "absent"
    BY <2>2 DEF Decision
  <2>3. CASE dsci.phase # "absent"
    BY <2>1, <2>3 DEF DSCIKnown, Decision, IsActiveNamespace, ShouldInjectTrustedCABundle
  <2> QED
    BY <2>2, <2>3
<1>6. Covered'
  <2> SUFFICES ASSUME NEW m \in Namespaces, ns[m].phase = "active", m # n
               PROVE  Announced(m)' \/ m \in cmDirty \/ cm[m] \in Wanted(m)'
    BY <1>1, Zenon DEF Covered
  <2>1. Wanted(m)' = Wanted(m)
    BY DEF Wanted, Decision
  <2> QED
    BY <1>1, <2>1 DEF Covered, Announced
<1> QED
  BY <1>3, <1>4, <1>5, <1>6

(* A write leaves the ConfigMap that is wanted, unless someone will correct it *)
LEMMA CAWriteInv == CAInv /\ CAWrite => CAInv'
<1> SUFFICES ASSUME CAInv, CAWrite PROVE CAInv'
  OBVIOUS
<1> USE DEF CAInv
<1>1. PICK w \in caWork :
        /\ caWork' = {}
        /\ \/ w.op = "keep" /\ UNCHANGED <<cm, cmDirty>>
           \/ w.op = "delete" /\ PutConfigMap(w.n, "none")
           \/ w.op \notin {"keep", "delete"} /\ PutConfigMap(w.n, w.op)
        /\ UNCHANGED <<ns, nsSeen, nsDirty, dsciVars, caQueue>>
  BY DEF CAWrite, DeleteOdhTrustedCABundleConfigMap, CreateOdhTrustedCABundleConfigMap
<1>2. w.n \in Namespaces /\ w.op \in {"keep", "delete"} \cup CAs
  BY DEF CATypeOK
<1> USE <1>2 DEF dsciVars
<1>3. /\ cm' \in [Namespaces -> ConfigMaps] /\ cmDirty' \subseteq Namespaces
      /\ \A m \in Namespaces : m # w.n => cm'[m] = cm[m] /\ (m \in cmDirty => m \in cmDirty')
      /\ w.op = "delete" => cm'[w.n] = "none"
      /\ w.op \in CAs => cm'[w.n] = w.op
  BY <1>1, NamespacesAssumption DEF PutConfigMap, ClusterTypeOK, ConfigMaps
<1>4. ClusterTypeOK' /\ NsKnown' /\ DSCIKnown' /\ CATypeOK' /\ WorkRight'
  BY <1>1, <1>3, Zenon DEF ClusterTypeOK, NsKnown, DSCIKnown, CATypeOK, WorkRight
<1>5. Covered'
  <2> SUFFICES ASSUME NEW m \in Namespaces, ns[m].phase = "active", ~Announced(m)
               PROVE  m \in cmDirty' \/ cm'[m] \in Wanted(m)
    BY <1>1, Zenon DEF Covered, Announced, Wanted, Decision
  <2>1. CASE m # w.n
    <3>1. ~ \E x \in caWork : x.n = m
      BY <2>1 DEF CATypeOK
    <3> QED
      BY <1>3, <2>1, <3>1 DEF Covered
  <2>2. CASE m = w.n
    <3>1. w.op = Decision(m, ns[m], dsci) \/ Decision(m, ns[m], dsci) = "keep"
      BY <2>2 DEF WorkRight
    <3>2. Decision(m, ns[m], dsci) \in {"keep", "delete"} \cup CAs
      BY DecisionType DEF ClusterTypeOK
    <3> QED
      BY <1>3, <2>2, <3>1, <3>2, WantedByDecision, SMT, SMTT(60)
  <2> QED
    BY <2>1, <2>2
<1> QED
  BY <1>4, <1>5

(* A failed write puts the request back *)
LEMMA CAFailInv == CAInv /\ CAFail => CAInv'
<1> SUFFICES ASSUME CAInv, CAFail PROVE CAInv'
  OBVIOUS
<1> USE DEF CAInv
<1>1. PICK w \in caWork : caWork' = {} /\ caQueue' = caQueue \cup {w.n} /\ UNCHANGED clusterVars
  BY DEF CAFail
<1>2. w.n \in Namespaces /\ \A x \in caWork : x = w
  BY DEF CATypeOK
<1>3. UNCHANGED <<ns, nsSeen, nsDirty, cm, cmDirty, dsci, dsciSeen, dsciEvents>>
  BY <1>1 DEF clusterVars, nsVars, dsciVars
<1>4. ClusterTypeOK' /\ NsKnown' /\ DSCIKnown' /\ CATypeOK' /\ WorkRight'
  BY <1>1, <1>2, <1>3 DEF ClusterTypeOK, NsKnown, DSCIKnown, CATypeOK, WorkRight
<1>5. \A m \in Namespaces : Wanted(m)' = Wanted(m)
  BY <1>3 DEF Wanted, Decision
<1>6. Covered'
  BY <1>1, <1>2, <1>3, <1>5, Zenon DEF Covered, Announced
<1> QED
  BY <1>4, <1>6

(* Events reach the cache and the queue together *)
LEMMA CASeesInv ==
  ASSUME CAInv,
         CASeesDSCI \/ CARestart
           \/ \E n \in Namespaces : CASeesNamespace(n) \/ CASeesConfigMap(n)
  PROVE  CAInv'
<1> USE DEF CAInv
<1>1. CASE CASeesDSCI
  <2> USE <1>1 DEF CASeesDSCI, CacheDSCI, nsVars, dsciEventHandler
  <2>1. ClusterTypeOK' /\ CATypeOK' /\ NsKnown' /\ DSCIKnown'
    BY DEF ClusterTypeOK, CATypeOK, NsKnown, DSCIKnown
  <2>2. ASSUME NEW m \in Namespaces, ns[m].phase = "active", Announced(m)
        PROVE  Announced(m)'
    BY <2>2, Zenon DEF Announced, NsKnown
  <2>3. WorkRight'
    BY <2>2, Zenon DEF WorkRight, CATypeOK, Announced
  <2>4. \A m \in Namespaces : Wanted(m)' = Wanted(m)
    BY DEF Wanted, Decision
  <2>5. Covered'
    BY <2>2, <2>4, Zenon DEF Covered
  <2> QED
    BY <2>1, <2>3, <2>5
<1>2. CASE CARestart
  <2> USE <1>2 DEF CARestart
  <2>1. ClusterTypeOK' /\ CATypeOK' /\ NsKnown' /\ DSCIKnown' /\ WorkRight'
    BY SMT, SMTT(60) DEF ClusterTypeOK, CATypeOK, NsKnown, DSCIKnown, WorkRight
  <2>2. Covered'
    BY Zenon DEF Covered, Announced
  <2> QED
    BY <2>1, <2>2
<1>3. ASSUME NEW n \in Namespaces, CASeesNamespace(n) PROVE CAInv'
  <2> USE <1>3 DEF CASeesNamespace, CacheNamespace, dsciVars, NamespaceRequests
  <2>1. ClusterTypeOK' /\ CATypeOK' /\ NsKnown' /\ DSCIKnown'
    BY Zenon DEF ClusterTypeOK, CATypeOK, NsKnown, DSCIKnown
  <2>2. ASSUME NEW m \in Namespaces, Announced(m) PROVE Announced(m)'
    BY <2>2 DEF Announced
  <2>3. WorkRight'
    BY <2>2, Zenon DEF WorkRight, CATypeOK, Decision
  <2>4. \A m \in Namespaces : Wanted(m)' = Wanted(m)
    BY DEF Wanted, Decision
  <2>5. Covered'
    BY <2>2, <2>4, Zenon DEF Covered
  <2> QED
    BY <2>1, <2>3, <2>5
<1>4. ASSUME NEW n \in Namespaces, CASeesConfigMap(n) PROVE CAInv'
  <2> USE <1>4 DEF CASeesConfigMap, dsciVars
  <2>1. ClusterTypeOK' /\ CATypeOK' /\ NsKnown' /\ DSCIKnown'
    BY Zenon DEF ClusterTypeOK, CATypeOK, NsKnown, DSCIKnown
  <2>2. ASSUME NEW m \in Namespaces, Announced(m) PROVE Announced(m)'
    BY <2>2 DEF Announced
  <2>3. WorkRight'
    BY <2>2, Zenon DEF WorkRight, CATypeOK, Decision
  <2>4. \A m \in Namespaces : Wanted(m)' = Wanted(m)
    BY DEF Wanted, Decision
  <2>5. Covered'
    BY <2>2, <2>4, Zenon DEF Covered, Announced
  <2> QED
    BY <2>1, <2>3, <2>5
<1> QED
  BY <1>1, <1>2, <1>3, <1>4

(* Whatever anyone else does to a namespace, the DSCI or a ConfigMap announces
   itself, or does not make a namespace wrong. *)
LEMMA CAEnvironmentInv == CAInv /\ CAEnvironment => CAInv'
<1> SUFFICES ASSUME CAInv, CAEnvironment PROVE CAInv'
  OBVIOUS
<1> USE DEF CAInv
<1>0. UNCHANGED <<caQueue, caWork>>
  BY Zenon DEF CAEnvironment, caVars
<1>1. ASSUME NEW n \in Namespaces, NEW v \in NsState,
             ns[n].phase = "terminating" => v.phase # "active",
             Put(n, v), UNCHANGED dsciVars
      PROVE  CAInv'
  <2> USE <1>0, <1>1 DEF Put, dsciVars
  <2>1. ClusterTypeOK'
    BY Zenon DEF ClusterTypeOK, ConfigMaps
  <2>2. CATypeOK' /\ DSCIKnown'
    BY Zenon DEF CATypeOK, DSCIKnown
  <2>3. ns[n].phase \in {"absent", "active", "terminating"}
    BY SMT, SMTT(60) DEF ClusterTypeOK, NsState
  <2>4. ns'[n] = v /\ \A m \in Namespaces : m # n => ns'[m] = ns[m]
    BY SMT, SMTT(60) DEF ClusterTypeOK
  <2>5. NsKnown'
    BY <2>3, <2>4, Zenon DEF NsKnown
  <2>6. ASSUME NEW m \in Namespaces, ns'[m].phase = "active"
        PROVE  \/ m \in nsDirty'
               \/ /\ ns[m].phase = "active" /\ cm'[m] = cm[m]
                  /\ Decision(m, ns'[m], dsci) = Decision(m, ns[m], dsci)
    <3>1. CASE m # n
      BY <2>4, <2>6, <3>1, Zenon DEF ClusterTypeOK
    <3>2. CASE m = n
      BY <2>3, <2>4, <2>6, <3>2, Zenon DEF Decision, IsActiveNamespace, ShouldInjectTrustedCABundle
    <3> QED
      BY <3>1, <3>2, Zenon
  <2>7. nsDirty \subseteq nsDirty' /\ cmDirty \subseteq cmDirty'
    OBVIOUS
  <2>8. WorkRight'
    BY <2>6, <2>7, Zenon DEF WorkRight, CATypeOK, Announced
  <2>9. ASSUME NEW m \in Namespaces, Decision(m, ns'[m], dsci) = Decision(m, ns[m], dsci)
        PROVE  Wanted(m)' = Wanted(m)
    BY <2>9 DEF Wanted
  <2>10. Covered'
    BY <2>6, <2>7, <2>9, Zenon DEF Covered, Announced
  <2> QED
    BY <2>1, <2>2, <2>5, <2>8, <2>10
<1>2. ASSUME NEW d \in DSCIState, PutDSCI(d), UNCHANGED nsVars
      PROVE  CAInv'
  <2> USE <1>0, <1>2 DEF PutDSCI, nsVars
  <2>1. ClusterTypeOK' /\ CATypeOK' /\ NsKnown' /\ DSCIKnown'
    BY Zenon DEF ClusterTypeOK, CATypeOK, NsKnown, DSCIKnown
  <2>2. ASSUME NEW m \in Namespaces, "bundle" \notin dsciEvents'
        PROVE  \/ Decision(m, ns[m], d) = "keep"
               \/ Decision(m, ns[m], d) = Decision(m, ns[m], dsci)
    BY <2>2, Zenon DEF Decision
  <2>3. dsciEvents \subseteq dsciEvents'
    BY Zenon
  <2>4. WorkRight'
    BY <2>2, <2>3, Zenon DEF WorkRight, CATypeOK, Announced
  <2>5. ASSUME NEW m \in Namespaces, "bundle" \notin dsciEvents', cm[m] \in Wanted(m)
        PROVE  cm'[m] \in Wanted(m)'
    <3>1. CASE Decision(m, ns[m], d) = "keep"
      BY <3>1 DEF Wanted, ClusterTypeOK
    <3>2. CASE Decision(m, ns[m], d) = Decision(m, ns[m], dsci)
      BY <2>5, <3>2 DEF Wanted
    <3> QED
      BY <2>2, <2>5, <3>1, <3>2, Zenon
  <2>6. Covered'
    BY <2>3, <2>5, Zenon DEF Covered, Announced
  <2> QED
    BY <2>1, <2>4, <2>6, Zenon
<1>3. ASSUME NEW n \in Namespaces, NEW c \in {"none", "edited", "foreign"},
             (cm[n] = "none") = (c = "foreign"),
             PutConfigMap(n, c), UNCHANGED <<ns, nsSeen, nsDirty, dsciVars>>
      PROVE  CAInv'
  <2> USE <1>0, <1>3 DEF PutConfigMap, dsciVars
  <2>1. ClusterTypeOK' /\ CATypeOK' /\ NsKnown' /\ DSCIKnown' /\ WorkRight'
    BY Zenon DEF ClusterTypeOK, CATypeOK, NsKnown, DSCIKnown, WorkRight, Announced, ConfigMaps
  <2>2. \A m \in Namespaces : Wanted(m)' = Wanted(m) /\ (m # n => cm'[m] = cm[m])
    BY DEF Wanted, Decision, ClusterTypeOK
  <2>3. cmDirty \subseteq cmDirty' /\ cm'[n] = c
    BY DEF ClusterTypeOK
  <2>4. n \notin cmDirty' /\ cm[n] \in Wanted(n) => c \in Wanted(n)
    <3> SUFFICES ASSUME n \notin cmDirty', cm[n] \in Wanted(n) PROVE c \in Wanted(n)
      OBVIOUS
    <3>1. c = cm[n] \/ {cm[n], c} \subseteq {"none", "foreign"}
      OBVIOUS
    <3>2. Decision(n, ns[n], dsci) \in {"keep", "delete"} \cup CAs
      BY DecisionType, Zenon DEF ClusterTypeOK
    <3>3. {"none", "foreign"} \subseteq ConfigMaps /\ "none" \notin CAs /\ "foreign" \notin CAs
      BY NamespacesAssumption DEF ConfigMaps
    <3> QED
      BY <3>1, <3>2, <3>3, WantedByDecision, SMT, SMTT(60)
  <2>5. Covered'
    BY <2>2, <2>3, <2>4, SMT, SMTT(60) DEF Covered, Announced
  <2> QED
    BY <2>1, <2>5
<1>4. CASE \E n \in Namespaces, c \in {"none", "edited"} :
             /\ cm[n] # "none" /\ PutConfigMap(n, c)
             /\ UNCHANGED <<ns, nsSeen, nsDirty, dsciVars>>
  BY <1>3, <1>4
<1>5. CASE \E n \in Namespaces :
             /\ ns[n].phase = "active" /\ cm[n] = "none" /\ PutConfigMap(n, "foreign")
             /\ UNCHANGED <<ns, nsSeen, nsDirty, dsciVars>>
  BY <1>3, <1>5, SMT, SMTT(60)
<1> QED
  BY <1>1, <1>2, <1>4, <1>5, Zenon DEF CAEnvironment

(* The invariant is inductive *)
LEMMA CANextInv == CAInv /\ [CANext]_<<clusterVars, caVars>> => CAInv'
<1>1. CAInv /\ UNCHANGED <<clusterVars, caVars>> => CAInv'
  <2> SUFFICES ASSUME CAInv, UNCHANGED <<clusterVars, caVars>> PROVE CAInv'
    OBVIOUS
  <2> USE DEF clusterVars, nsVars, dsciVars, caVars
  <2>1. \A m \in Namespaces : Wanted(m)' = Wanted(m)
    BY DEF Wanted, Decision
  <2>2. ClusterTypeOK' /\ CATypeOK' /\ NsKnown' /\ DSCIKnown' /\ WorkRight'
    BY Zenon DEF CAInv, ClusterTypeOK, CATypeOK, NsKnown, DSCIKnown, WorkRight, Announced, Decision
  <2>3. Covered'
    BY <2>1, Zenon DEF CAInv, Covered, Announced
  <2> QED
    BY <2>2, <2>3 DEF CAInv
<1> QED
  BY <1>1, CABeginInv, CAWriteInv, CAFailInv, CASeesInv, CAEnvironmentInv DEF CANext

LEMMA CAInvSettles == CAInv => BundlesSettle
<1> SUFFICES ASSUME CAInv, CAAtRest, NEW n \in Namespaces PROVE cm[n] \in Wanted(n)
  BY Zenon DEF BundlesSettle
<1>1. CASE ns[n].phase = "active"
  BY <1>1, SMT, SMTT(60) DEF CAInv, CAAtRest, Covered, Announced
<1>2. CASE ns[n].phase # "active"
  <2>1. Decision(n, ns[n], dsci) = "keep"
    BY <1>2, Zenon DEF Decision, IsActiveNamespace
  <2> QED
    BY <2>1, WantedByDecision, Zenon DEF CAInv, ClusterTypeOK
<1> QED
  BY <1>1, <1>2

(* TrustedCASettles: in every behaviour of the trusted-CA controller, for every
   set of namespaces and bundles and whatever the rest of the cluster does, a
   controller with nothing left to do has left every namespace with the bundle
   that the DSCI asks for. *)
THEOREM TrustedCASettles == CASpec => []BundlesSettle
<1> QED
  BY CAInvSettles, CAInitInv, CANextInv, PTL DEF CASpec

-----------------------------------------------------------------------------
(* The services put together *)

(* A write of someone else than the trusted-CA controller *)
ClusterWrite ==
  \/ \E n \in Namespaces, v \in NsState :
       /\ ns[n].phase = "terminating" => v.phase # "active"
       /\ Put(n, v) /\ UNCHANGED dsciVars
  \/ \E d \in DSCIState : PutDSCI(d) /\ UNCHANGED nsVars
  \/ UNCHANGED clusterVars

LEMMA StepNames ==
  /\ Steps[1] = "appNs" /\ After("appNs") = "monNs" /\ After("monNs") = "NetworkPolicy"
  /\ After("NetworkPolicy") = "objects" /\ After("objects") = "modules"
  /\ After("modules") = "finish"
  /\ {Steps[i] : i \in 1 .. Len(Steps)}
       = {"appNs", "monNs", "NetworkPolicy", "objects", "modules", "finish"}
<1>1. /\ Len(Steps) = 6 /\ Steps[1] = "appNs" /\ Steps[2] = "monNs" /\ Steps[3] = "NetworkPolicy"
      /\ Steps[4] = "objects" /\ Steps[5] = "modules" /\ Steps[6] = "finish"
  BY DEF Steps
<1>2. \A i \in 1 .. 6 : i = 1 \/ i = 2 \/ i = 3 \/ i = 4 \/ i = 5 \/ i = 6
  OBVIOUS
<1> HIDE DEF Steps
<1>3. \A k \in 1 .. 5 : After(Steps[k]) = Steps[1 + k]
  <2> SUFFICES ASSUME NEW k \in 1 .. 5 PROVE After(Steps[k]) = Steps[1 + k]
    OBVIOUS
  <2>1. k \in 1 .. Len(Steps) /\ \A i \in 1 .. Len(Steps) : Steps[i] = Steps[k] => i = k
    BY <1>1, <1>2
  <2>2. (CHOOSE i \in 1 .. Len(Steps) : Steps[i] = Steps[k]) = k
    BY <2>1
  <2> QED
    BY <2>2, Zenon DEF After
<1>4. {Steps[i] : i \in 1 .. Len(Steps)}
        = {"appNs", "monNs", "NetworkPolicy", "objects", "modules", "finish"}
  BY <1>1, <1>2
<1>5. /\ After("appNs") = "monNs" /\ After("monNs") = "NetworkPolicy"
      /\ After("NetworkPolicy") = "objects" /\ After("objects") = "modules"
      /\ After("modules") = "finish"
  BY <1>1, <1>3
<1> QED
  BY <1>1, <1>4, <1>5

(* A write of the DSCI's status writes a DSCI *)
LEMMA StatusWrite ==
  ASSUME ClusterTypeOK, NEW st \in DSCIStatus, UpdateWithRetry(st)
  PROVE  \E d \in DSCIState : PutDSCI(d)
<1>1. [dsci EXCEPT !.status = st] \in DSCIState
  BY DEF ClusterTypeOK, DSCIState
<1> QED
  BY <1>1 DEF UpdateWithRetry

LEMMA StatusTypes ==
  ASSUME ClusterTypeOK
  PROVE  /\ \A p \in {"", "Progressing", "Error", "Ready", "NotReady"} :
              [dsci.status EXCEPT !.phase = p] \in DSCIStatus
         /\ [dsci.status EXCEPT !.ready = "uninstall", !.phase = "NotReady"] \in DSCIStatus
         /\ [CopyMonitoring(dsci.status) EXCEPT !.phase = "Ready"] \in DSCIStatus
<1>1. dsci.status \in DSCIStatus
  BY DEF ClusterTypeOK, DSCIState
<1>2. CopyMonitoring(dsci.status) \in DSCIStatus
  BY <1>1, Zenon DEF CopyMonitoring, DSCIStatus
<1> QED
  BY <1>1, <1>2, Zenon DEF DSCIStatus

(* The labels that CreateOrUpdate sets leave a namespace in its phase *)
LEMMA NamespaceWrite ==
  ASSUME ClusterTypeOK, NEW n \in Namespaces, NEW x,
         x \in {createAppNamespace(Found(n)), MonitoringLabels(Found(n))},
         CreateOrUpdate(n, x), UNCHANGED dsciVars
  PROVE  ClusterWrite
<1>1. Found(n) \in NsState /\ Found(n).phase # "absent"
      /\ (nsSeen[n].phase # "absent" => Found(n).phase = nsSeen[n].phase)
  BY Zenon DEF Found, NewNs, NoNs, ClusterTypeOK, NsState, PSA
<1>2. x \in NsState /\ x.phase = Found(n).phase
  <2>1. createAppNamespace(Found(n)) \in NsState /\ createAppNamespace(Found(n)).phase = Found(n).phase
    BY <1>1, Zenon DEF createAppNamespace, NsState, PSA
  <2>2. MonitoringLabels(Found(n)) \in NsState /\ MonitoringLabels(Found(n)).phase = Found(n).phase
    BY <1>1, Zenon DEF MonitoringLabels, NsState, PSA
  <2> QED
    BY <2>1, <2>2, Zenon
<1>3. CASE UNCHANGED nsVars
  BY <1>3, Zenon DEF ClusterWrite, clusterVars
<1>4. CASE nsSeen[n] = ns[n] /\ Put(n, x)
  <2>1. ns[n].phase = "terminating" => x.phase # "active"
    BY <1>1, <1>2, <1>4, Zenon
  <2> QED
    BY <1>2, <1>4, <2>1, Zenon DEF ClusterWrite
<1> QED
  BY <1>3, <1>4, Zenon DEF CreateOrUpdate

(* What the DSCI controller does in one step *)
LEMMA InitWrites ==
  ASSUME ClusterTypeOK, InitNext
  PROVE  ClusterWrite
<1> USE DEF ClusterWrite, clusterVars
<1>1. CASE InitSkip \/ CreateObjects \/ reconcileDSCIModules
  BY <1>1, Zenon DEF InitSkip, CreateObjects, reconcileDSCIModules
<1>2. CASE InitFinalize
  <2>1. NoDSCI \in DSCIState
    BY Zenon DEF NoDSCI, DSCIState, DSCIStatus, Bundles
  <2> QED
    BY <1>2, <2>1, Zenon DEF InitFinalize
<1>3. CASE InitBegin
  <2>1. [dsci EXCEPT !.fin = TRUE] \in DSCIState
    BY Zenon DEF ClusterTypeOK, DSCIState
  <2> QED
    BY <1>3, <2>1, Zenon DEF InitBegin
<1>4. CASE InitProgress \/ InitFinish
  BY <1>4, StatusTypes, StatusWrite, Zenon DEF InitProgress, InitFinish
<1>5. ASSUME OperatorResourceFails PROVE UNCHANGED dsciVars \/ \E d \in DSCIState : PutDSCI(d)
  BY <1>5, StatusTypes, StatusWrite, Zenon DEF OperatorResourceFails
<1>6. CASE appNamespaceHandler \/ PatchMonitoringNS
  BY <1>5, <1>6, NamespaceWrite, NamespacesAssumption, Zenon DEF appNamespaceHandler, PatchMonitoringNS
<1>7. CASE ReconcileDefaultNetworkPolicy
  BY <1>5, <1>7, Zenon DEF ReconcileDefaultNetworkPolicy
<1> QED
  BY <1>1, <1>2, <1>3, <1>4, <1>6, <1>7, Zenon DEF InitNext

(* What users and the other controllers do in one step *)
LEMMA UserWrites ==
  ASSUME ClusterTypeOK,
         \/ Users \/ AuthUsers
         \/ \E n \in Namespaces : \/ CreateNamespace(n) \/ DeleteNamespace(n)
                                  \/ NamespaceGone(n) \/ EditNamespace(n)
  PROVE  ClusterWrite
<1> USE DEF ClusterWrite, clusterVars
<1>1. CASE Users
  <2>1. NoDSCI \in DSCIState
    BY Zenon DEF NoDSCI, DSCIState, DSCIStatus, Bundles
  <2>2. ASSUME NEW b \in Bundles, NEW m \in BOOLEAN, CreateDefaultDSCI(b, m) PROVE ClusterWrite
    <3>1. [NoDSCI EXCEPT !.phase = "live", !.bundle = b, !.mon = m] \in DSCIState
      BY <2>1, Zenon DEF DSCIState
    <3> QED
      BY <2>2, <3>1 DEF CreateDefaultDSCI
  <2>3. ASSUME NEW b \in Bundles, NEW m \in BOOLEAN, EditDSCI([dsci EXCEPT !.bundle = b, !.mon = m])
        PROVE  ClusterWrite
    <3>1. [dsci EXCEPT !.bundle = b, !.mon = m] \in DSCIState
      BY Zenon DEF ClusterTypeOK, DSCIState
    <3> QED
      BY <2>3, <3>1 DEF EditDSCI
  <2>4. ASSUME DeleteDSCI PROVE ClusterWrite
    <3>1. [dsci EXCEPT !.phase = "deleting"] \in DSCIState
      BY DEF ClusterTypeOK, DSCIState
    <3> QED
      BY <2>1, <2>4, <3>1 DEF DeleteDSCI
  <2>5. ASSUME markUninstallInProgress PROVE ClusterWrite
    BY <2>5, StatusTypes, StatusWrite, Zenon DEF markUninstallInProgress
  <2>6. ASSUME \/ DeleteMonitoring \/ CRDCreated
               \/ (\E k \in Kinds : DeleteObject(k))
               \/ \E c \in {"ready", "notready"} : MonitoringReports(c)
        PROVE  ClusterWrite
    BY <2>6, Zenon DEF DeleteMonitoring, CRDCreated, DeleteObject, MonitoringReports
  <2> QED
    BY <1>1, <2>2, <2>3, <2>4, <2>5, <2>6, Zenon DEF Users
<1>2. CASE AuthUsers
  BY <1>2, Zenon DEF AuthUsers, EditAuth, DeleteAuth, EditBinding
<1>3. ASSUME NEW n \in Namespaces, CreateNamespace(n) \/ NamespaceGone(n) PROVE ClusterWrite
  <2>1. NoNs \in NsState /\ NewNs \in NsState /\ NoNs.phase = "absent"
    BY Zenon DEF NoNs, NewNs, NsState, PSA
  <2> QED
    BY <1>3, <2>1, Zenon DEF CreateNamespace, NamespaceGone
<1>4. ASSUME NEW n \in Namespaces, DeleteNamespace(n) \/ EditNamespace(n) PROVE ClusterWrite
  <2>1. /\ [ns[n] EXCEPT !.phase = "terminating"] \in NsState
        /\ [ns[n] EXCEPT !.phase = "terminating"].phase = "terminating"
    BY DEF ClusterTypeOK, NsState
  <2>2. /\ [ns[n] EXCEPT !.optout = ~@] \in NsState
        /\ [ns[n] EXCEPT !.custom = ~@] \in NsState
        /\ [ns[n] EXCEPT !.psa = "elevated"] \in NsState
    <3>1. /\ [ns[n] EXCEPT !.psa = "elevated"] \in NsState
          /\ \A b \in BOOLEAN : /\ [ns[n] EXCEPT !.optout = b] \in NsState
                               /\ [ns[n] EXCEPT !.custom = b] \in NsState
      BY SMT, SMTT(60) DEF ClusterTypeOK, NsState, PSA
    <3>2. (~ ns[n].optout) \in BOOLEAN /\ (~ ns[n].custom) \in BOOLEAN
      OBVIOUS
    <3> QED
      BY <3>1, <3>2, Zenon
  <2>3. CASE DeleteNamespace(n)
    BY <2>1, <2>3 DEF DeleteNamespace
  <2>4. CASE EditNamespace(n)
    BY <2>2, <2>4 DEF EditNamespace
  <2> QED
    BY <1>4, <2>3, <2>4, Zenon
<1> QED
  BY <1>1, <1>2, <1>3, <1>4, Zenon

-----------------------------------------------------------------------------
(* Types *)

LEMMA ClusterTypes ==
  ASSUME ClusterTypeOK,
         \/ ClusterWrite
         \/ \E n \in Namespaces, c \in ConfigMaps :
              PutConfigMap(n, c) /\ UNCHANGED <<ns, nsSeen, nsDirty, dsciVars>>
         \/ \E n \in Namespaces : CacheNamespace(n) /\ UNCHANGED dsciVars
         \/ CacheDSCI /\ UNCHANGED nsVars
         \/ \E n \in Namespaces :
              cmDirty' = cmDirty \ {n} /\ UNCHANGED <<ns, nsSeen, nsDirty, cm, dsciVars>>
  PROVE  ClusterTypeOK'
<1>1. ASSUME NEW n \in Namespaces, NEW v \in NsState, Put(n, v), UNCHANGED dsciVars PROVE ClusterTypeOK'
  BY <1>1, Zenon DEF Put, ClusterTypeOK, ConfigMaps, dsciVars
<1>2. ASSUME NEW d \in DSCIState, PutDSCI(d), UNCHANGED nsVars PROVE ClusterTypeOK'
  BY <1>2, Zenon DEF PutDSCI, ClusterTypeOK, nsVars
<1>3. ASSUME UNCHANGED clusterVars PROVE ClusterTypeOK'
  BY <1>3, Zenon DEF ClusterTypeOK, clusterVars, nsVars, dsciVars
<1>4. ASSUME NEW n \in Namespaces, NEW c \in ConfigMaps,
             PutConfigMap(n, c), UNCHANGED <<ns, nsSeen, nsDirty, dsciVars>>
      PROVE  ClusterTypeOK'
  BY <1>4, Zenon DEF PutConfigMap, ClusterTypeOK, dsciVars
<1>5. ASSUME NEW n \in Namespaces, CacheNamespace(n), UNCHANGED dsciVars PROVE ClusterTypeOK'
  BY <1>5, Zenon DEF CacheNamespace, ClusterTypeOK, dsciVars
<1>6. ASSUME CacheDSCI, UNCHANGED nsVars PROVE ClusterTypeOK'
  BY <1>6, Zenon DEF CacheDSCI, ClusterTypeOK, nsVars
<1>7. ASSUME NEW n \in Namespaces, cmDirty' = cmDirty \ {n},
             UNCHANGED <<ns, nsSeen, nsDirty, cm, dsciVars>>
      PROVE  ClusterTypeOK'
  BY <1>7, Zenon DEF ClusterTypeOK, dsciVars
<1> QED
  BY <1>1, <1>2, <1>3, <1>4, <1>5, <1>6, <1>7, Zenon DEF ClusterWrite

(* The types of the trusted-CA controller *)
LEMMA CATypes ==
  ASSUME ClusterTypeOK, CATypeOK,
         \/ UNCHANGED caVars
         \/ CABegin \/ CAWrite \/ CAFail
         \/ \E req \in SUBSET Namespaces : caQueue' = caQueue \cup req /\ UNCHANGED caWork
         \/ caQueue' \subseteq Namespaces /\ caWork' = {}
  PROVE  CATypeOK'
<1>1. CASE UNCHANGED caVars
  BY <1>1 DEF CATypeOK, caVars
<1>2. CASE CABegin
  BY <1>2, DecisionType, SMT, SMTT(60) DEF CABegin, CATypeOK, ClusterTypeOK
<1>3. CASE CAWrite \/ CAFail
  BY <1>3 DEF CAWrite, CAFail, CATypeOK
<1>4. CASE \E req \in SUBSET Namespaces : caQueue' = caQueue \cup req /\ UNCHANGED caWork
  BY <1>4 DEF CATypeOK
<1>5. CASE caQueue' \subseteq Namespaces /\ caWork' = {}
  BY <1>5 DEF CATypeOK
<1> QED
  BY <1>1, <1>2, <1>3, <1>4, <1>5

(* What the DSCI controller and its neighbours keep *)
KeptTypeOK ==
  /\ dirty \subseteq {"obj", "auth", "mon"}
  /\ obj \subseteq Kinds /\ objSeen \subseteq Kinds
  /\ auth \subseteq AuthSpec /\ AtMostOne(auth)
  /\ authSeen \subseteq AuthSpec
  /\ crd \in {"absent", "created", "established"}
  /\ {mon, monSeen} \subseteq {"absent", "init", "ready", "notready"}

CtlTypeOK ==
  /\ initQueue \in BOOLEAN /\ watchAdded \in BOOLEAN /\ lost \in BOOLEAN /\ marked \in BOOLEAN
  /\ initPc \in {"idle", "progress", "appNs", "monNs", "NetworkPolicy", "objects", "modules", "finish"}
  /\ inst \in BOOLEAN

LEMMA InitTypesSplit == InitTypeOK <=> KeptTypeOK /\ CtlTypeOK
BY StepNames, Zenon DEF InitTypeOK, KeptTypeOK, CtlTypeOK

LEMMA Singles == AtMostOne({}) /\ \A x : AtMostOne({x})
BY DEF AtMostOne

LEMMA InitTypes ==
  ASSUME ClusterTypeOK, KeptTypeOK, CtlTypeOK, InitNext
  PROVE  KeptTypeOK' /\ CtlTypeOK'
<1> USE DEF keptVars, objVars, authVars, monVars, initCtl
<1>1. ASSUME UNCHANGED keptVars PROVE KeptTypeOK'
  BY <1>1 DEF KeptTypeOK
<1>2. ASSUME NEW pc \in {"idle", "appNs", "monNs", "NetworkPolicy", "objects", "modules", "finish"},
             Goto(pc), initQueue' \in BOOLEAN, watchAdded' \in BOOLEAN, lost' \in BOOLEAN, marked' = marked
      PROVE  CtlTypeOK'
  BY <1>2 DEF Goto, CtlTypeOK
<1>3. ASSUME InitError, UNCHANGED <<watchAdded, lost, marked>> PROVE CtlTypeOK'
  BY <1>2, <1>3 DEF InitError, CtlTypeOK
<1>4. CASE InitSkip
  BY <1>1, <1>4, Zenon DEF InitSkip, CtlTypeOK, ensureMonitoringWatch, WatchLists
<1>5. CASE InitFinalize
  <2>1. CtlTypeOK'
    BY <1>5, Zenon DEF InitFinalize, CtlTypeOK, ensureMonitoringWatch, WatchLists
  <2>2. KeptTypeOK'
    BY <1>5, Zenon DEF InitFinalize, KeptTypeOK
  <2> QED
    BY <2>1, <2>2
<1>6. CASE InitBegin
  <2>1. UNCHANGED <<keptVars, lost, marked>> /\ initQueue' \in BOOLEAN /\ watchAdded' \in BOOLEAN
    BY <1>6, Zenon DEF InitBegin, CtlTypeOK, ensureMonitoringWatch, WatchLists
  <2>2. initPc' \in {"idle", "progress", "appNs"} /\ inst' \in BOOLEAN
    BY <1>6, StepNames, Zenon DEF InitBegin, CtlTypeOK
  <2> QED
    BY <1>1, <2>1, <2>2, Zenon DEF CtlTypeOK
<1>7. CASE InitProgress
  BY <1>1, <1>2, <1>3, <1>7, StepNames DEF InitProgress, CtlTypeOK
<1>8. CASE appNamespaceHandler \/ PatchMonitoringNS
  BY <1>1, <1>2, <1>3, <1>8, StepNames DEF appNamespaceHandler, PatchMonitoringNS, OperatorResourceFails, CtlTypeOK
<1>9. CASE ReconcileDefaultNetworkPolicy
  <2>1. CtlTypeOK'
    BY <1>2, <1>3, <1>9, StepNames DEF ReconcileDefaultNetworkPolicy, OperatorResourceFails, CtlTypeOK
  <2>2. KeptTypeOK'
    BY <1>9, Zenon DEF ReconcileDefaultNetworkPolicy, PutObj, KeptTypeOK, Kinds
  <2> QED
    BY <2>1, <2>2
<1>10. CASE CreateObjects
  <2>1. CtlTypeOK'
    BY <1>2, <1>3, <1>10, StepNames, Zenon DEF CreateObjects, CtlTypeOK
  <2>2. CreateAuth \subseteq AuthSpec /\ AtMostOne(CreateAuth)
    <3>1. BuildDefaultAuth \in AuthSpec
      BY GroupsAssumption DEF BuildDefaultAuth, AuthSpec
    <3> QED
      BY <3>1, Singles DEF CreateAuth, KeptTypeOK
  <2>3. auth' \in {auth, CreateAuth} /\ UNCHANGED <<objSeen, authSeen, crd, mon, monSeen>>
    BY <1>10, Zenon DEF CreateObjects
  <2>4. dirty' \subseteq {"obj", "auth", "mon"}
    BY <1>10, Zenon DEF CreateObjects, KeptTypeOK
  <2>5. obj' \subseteq Kinds
    BY <1>10, Zenon DEF CreateObjects, KeptTypeOK, CreateGatewayConfig, ManageDefaultAndCustomHWProfileCR, Kinds
  <2> QED
    BY <2>1, <2>2, <2>3, <2>4, <2>5 DEF KeptTypeOK
<1>11. CASE reconcileDSCIModules
  <2>1. CtlTypeOK'
    BY <1>2, <1>11, StepNames, Zenon DEF reconcileDSCIModules, CtlTypeOK
  <2>2. KeptTypeOK'
    BY <1>11, Zenon DEF reconcileDSCIModules, PutMon, KeptTypeOK
  <2> QED
    BY <2>1, <2>2
<1>12. CASE InitFinish
  BY <1>1, <1>2, <1>12, Zenon DEF InitFinish, CtlTypeOK
<1> QED
  BY <1>4, <1>5, <1>6, <1>7, <1>8, <1>9, <1>10, <1>11, <1>12 DEF InitNext

(* Events of the caches that the DSCI and Auth controllers share, and users *)
LEMMA NeighbourTypes ==
  ASSUME ClusterTypeOK, KeptTypeOK, CtlTypeOK,
         \/ SeesObjects \/ SeesMonitoring \/ CRDEstablished \/ SeesAuth
         \/ Users \/ AuthUsers
         \/ \E n \in Namespaces : DeleteNamespace(n)
         \/ UNCHANGED <<initCtl, keptVars>>
  PROVE  KeptTypeOK' /\ CtlTypeOK'
<1> USE DEF keptVars, objVars, authVars, monVars, initCtl
<1>1. ASSUME UNCHANGED initCtl PROVE CtlTypeOK'
  BY <1>1, Zenon DEF CtlTypeOK
<1>2. ASSUME UNCHANGED keptVars PROVE KeptTypeOK'
  BY <1>2, Zenon DEF KeptTypeOK
<1>3. CASE SeesObjects \/ SeesMonitoring \/ CRDEstablished \/ SeesAuth
  <2>1. UNCHANGED <<initPc, inst, watchAdded, lost, marked>> /\ initQueue' \in BOOLEAN
    BY <1>3, Zenon DEF SeesObjects, SeesMonitoring, CRDEstablished, SeesAuth
  <2>2. CtlTypeOK'
    BY <2>1, Zenon DEF CtlTypeOK
  <2>3. KeptTypeOK'
    BY <1>3, Zenon DEF SeesObjects, SeesMonitoring, CRDEstablished, SeesAuth, KeptTypeOK
  <2> QED
    BY <2>2, <2>3, Zenon
<1>4. CASE Users
  <2>1. ASSUME NEW k \in Kinds, DeleteObject(k) PROVE KeptTypeOK' /\ CtlTypeOK'
    BY <1>1, <2>1, Zenon DEF DeleteObject, PutObj, KeptTypeOK
  <2>2. ASSUME NEW c \in {"ready", "notready"}, DeleteMonitoring \/ MonitoringReports(c)
        PROVE  KeptTypeOK' /\ CtlTypeOK'
    BY <1>1, <2>2, Zenon DEF DeleteMonitoring, MonitoringReports, PutMon, KeptTypeOK
  <2>3. ASSUME CRDCreated PROVE KeptTypeOK' /\ CtlTypeOK'
    BY <2>3, Zenon DEF CRDCreated, KeptTypeOK, CtlTypeOK
  <2>4. ASSUME UNCHANGED <<initQueue, initPc, inst, watchAdded, lost, keptVars>>, marked' \in BOOLEAN
        PROVE  KeptTypeOK' /\ CtlTypeOK'
    <3>1. CtlTypeOK'
      BY <2>4 DEF CtlTypeOK
    <3> QED
      BY <1>2, <2>4, <3>1, Zenon
  <2>5. marked \in BOOLEAN
    BY DEF CtlTypeOK
  <2> QED
    BY <1>4, <2>5, <2>1, <2>2, <2>3, <2>4, Zenon
       DEF Users, CreateDefaultDSCI, EditDSCI, DeleteDSCI, markUninstallInProgress
<1>5. CASE AuthUsers
  <2>1. ASSUME NEW a \in AuthSpec, EditAuth(a) \/ DeleteAuth PROVE KeptTypeOK' /\ CtlTypeOK'
    BY <1>1, <2>1, Singles, Zenon DEF EditAuth, DeleteAuth, PutAuth, KeptTypeOK
  <2>2. ASSUME UNCHANGED <<initCtl, keptVars>> PROVE KeptTypeOK' /\ CtlTypeOK'
    BY <1>1, <1>2, <2>2, Zenon
  <2>3. ASSUME DeleteAuth PROVE KeptTypeOK' /\ CtlTypeOK'
    BY <1>1, <2>3, Singles, Zenon DEF DeleteAuth, PutAuth, KeptTypeOK
  <2> QED
    BY <1>5, <2>1, <2>2, <2>3, Zenon DEF AuthUsers, EditBinding
<1>6. ASSUME NEW n \in Namespaces, DeleteNamespace(n) PROVE KeptTypeOK' /\ CtlTypeOK'
  BY <1>1, <1>6, Zenon DEF DeleteNamespace, PutObj, KeptTypeOK
<1> QED
  BY <1>1, <1>2, <1>3, <1>4, <1>5, <1>6, Zenon

(* Each target gets one set of groups or no binding *)
LEMMA PermissionsType ==
  ASSUME NEW spec \in AuthSpec, NEW exist \in SUBSET OptionalNs
  PROVE  /\ managePermissions(spec, exist) \in [Targets -> SUBSET SUBSET Groups]
         /\ \A t \in Targets : AtMostOne(managePermissions(spec, exist)[t])
<1>1. /\ GroupsToBind(spec.allowedGroups, FALSE) \subseteq Groups
      /\ GroupsToBind(spec.adminGroups, TRUE) \subseteq Groups
  BY Zenon DEF AuthSpec, GroupsToBind
<1>2. /\ AtMostOne({})
      /\ AtMostOne({GroupsToBind(spec.allowedGroups, FALSE)})
      /\ AtMostOne({GroupsToBind(spec.adminGroups, TRUE)})
  BY Singles, Zenon
<1>3. ASSUME NEW t \in Targets
      PROVE  /\ managePermissions(spec, exist)[t] \in SUBSET SUBSET Groups
             /\ AtMostOne(managePermissions(spec, exist)[t])
  BY <1>1, <1>2, Zenon DEF managePermissions
<1> QED
  BY <1>3, Zenon DEF managePermissions

(* The types of the Auth controller *)
LEMMA RoleTypes ==
  ASSUME ClusterTypeOK, KeptTypeOK, RolesTypeOK,
         \/ UNCHANGED roleVars
         \/ AuthBegin \/ AuthDeploy \/ SeesBindings \/ SeesAuth \/ AuthUsers \/ Restart
         \/ \E n \in Namespaces : SeesNamespace(n) \/ DeleteNamespace(n)
  PROVE  RolesTypeOK'
<1>1. CASE UNCHANGED roleVars
  BY <1>1 DEF RolesTypeOK, roleVars
<1>2. ASSUME UNCHANGED rb, authQueue' \in BOOLEAN, rbDirty' \in BOOLEAN,
             authWork' \subseteq [spec : AuthSpec, exist : SUBSET OptionalNs]
      PROVE  RolesTypeOK'
  BY <1>2, Zenon DEF RolesTypeOK
<1>3. CASE AuthBegin
  <2> DEFINE exist == {n \in OptionalNs : NamespaceExists(nsSeen[n])}
  <2>1. {[spec |-> s, exist |-> exist] : s \in authSeen}
          \subseteq [spec : AuthSpec, exist : SUBSET OptionalNs]
    BY SMT, SMTT(60) DEF KeptTypeOK
  <2>2. authWork' \in {authWork, {[spec |-> s, exist |-> exist] : s \in authSeen}}
    BY <1>3, Zenon DEF AuthBegin
  <2>3. authQueue' \in BOOLEAN /\ UNCHANGED <<rb, rbDirty>>
    BY <1>3, Zenon DEF AuthBegin, RolesTypeOK
  <2> QED
    BY <1>2, <2>1, <2>2, <2>3, Zenon DEF RolesTypeOK
<1>4. CASE AuthDeploy
  <2>1. PICK w \in authWork :
          /\ rb' = [t \in Targets |-> IF t \in Written(w)
                                      THEN managePermissions(w.spec, w.exist)[t] ELSE rb[t]]
          /\ rbDirty' = (rbDirty \/ rb' # rb)
          /\ authWork' = {} /\ authQueue' = (authQueue \/ Retried(w))
    BY <1>4, Zenon DEF AuthDeploy
  <2>2. w.spec \in AuthSpec /\ w.exist \in SUBSET OptionalNs
    BY Zenon DEF RolesTypeOK
  <2>3. rb' \in [Targets -> SUBSET SUBSET Groups] /\ \A t \in Targets : AtMostOne(rb'[t])
    BY <2>1, <2>2, PermissionsType, SMT, SMTT(60) DEF RolesTypeOK
  <2>4. authQueue' \in BOOLEAN /\ rbDirty' \in BOOLEAN
    BY <2>1
  <2> QED
    BY <2>1, <2>3, <2>4, Zenon DEF RolesTypeOK
<1>5. CASE SeesBindings \/ SeesAuth \/ \E n \in Namespaces : SeesNamespace(n)
  BY <1>2, <1>5, Zenon DEF SeesBindings, SeesAuth, SeesNamespace, RolesTypeOK
<1>6. CASE Restart
  BY <1>2, <1>6, Zenon DEF Restart
<1>7. CASE AuthUsers
  <2>1. ASSUME NEW a \in AuthSpec, EditAuth(a) PROVE RolesTypeOK'
    BY <1>1, <2>1 DEF EditAuth
  <2>2. ASSUME DeleteAuth PROVE RolesTypeOK'
    BY <2>2, Singles, Zenon DEF DeleteAuth, RolesTypeOK
  <2>3. ASSUME NEW t \in Targets, NEW b \in {{}, {{}}}, EditBinding(t, b) PROVE RolesTypeOK'
    <3>1. b \in SUBSET SUBSET Groups /\ AtMostOne(b)
      BY Singles, Zenon
    <3> QED
      BY <2>3, <3>1, Zenon DEF EditBinding, RolesTypeOK
  <2> QED
    BY <1>7, <2>1, <2>2, <2>3 DEF AuthUsers
<1>8. ASSUME NEW n \in Namespaces, DeleteNamespace(n) PROVE RolesTypeOK'
  <2>1. /\ rb' = IF n \in Targets THEN [rb EXCEPT ![n] = {}] ELSE rb
        /\ rbDirty' = (rbDirty \/ rb' # rb) /\ UNCHANGED <<authQueue, authWork>>
    BY <1>8 DEF DeleteNamespace
  <2>2. rb' \in [Targets -> SUBSET SUBSET Groups] /\ \A t \in Targets : AtMostOne(rb'[t])
    BY <2>1, Singles, Zenon DEF RolesTypeOK
  <2>3. rbDirty' \in BOOLEAN
    BY <2>1
  <2> QED
    BY <2>1, <2>2, <2>3, Zenon DEF RolesTypeOK
<1> QED
  BY <1>1, <1>3, <1>4, <1>5, <1>6, <1>7, <1>8

LEMMA TypeInit == Init => TypeOK
<1> SUFFICES ASSUME Init PROVE TypeOK
  BY Zenon
<1>1. ClusterTypeOK /\ CATypeOK
  BY CAInitInv, Zenon DEF Init, CAInv
<1>2. KeptTypeOK /\ CtlTypeOK
  BY Singles, Zenon DEF Init, KeptTypeOK, CtlTypeOK
<1>3. RolesTypeOK
  BY Singles, Zenon DEF Init, RolesTypeOK
<1> QED
  BY <1>1, <1>2, <1>3, InitTypesSplit DEF TypeOK

LEMMA TypeStep == TypeOK /\ [Next]_servVars => TypeOK'
<1> SUFFICES ASSUME TypeOK, [Next]_servVars PROVE TypeOK'
  OBVIOUS
<1>0. ClusterTypeOK /\ CATypeOK /\ KeptTypeOK /\ CtlTypeOK /\ RolesTypeOK
  BY InitTypesSplit, Zenon DEF TypeOK
<1>1. ASSUME ClusterTypeOK', CATypeOK', KeptTypeOK' /\ CtlTypeOK', RolesTypeOK' PROVE TypeOK'
  BY <1>1, StepNames, Zenon DEF TypeOK, InitTypeOK, KeptTypeOK, CtlTypeOK
<1> USE DEF initVars
<1>2. CASE UNCHANGED servVars
  BY <1>0, <1>1, <1>2, ClusterTypes, CATypes, NeighbourTypes, RoleTypes, Zenon DEF servVars, ClusterWrite
<1>3. CASE Users
  <2>1. UNCHANGED <<roleVars, caVars>>
    BY <1>3, Zenon DEF Users
  <2> QED
    BY <1>0, <1>1, <1>3, <2>1, UserWrites, ClusterTypes, CATypes, NeighbourTypes, RoleTypes, Zenon
<1>4. CASE AuthUsers
  <2>1. UNCHANGED caVars
    BY <1>4, Zenon DEF AuthUsers
  <2> QED
    BY <1>0, <1>1, <1>4, <2>1, UserWrites, ClusterTypes, CATypes, NeighbourTypes, RoleTypes, Zenon
<1>5. CASE "init" \in running /\ InitNext /\ UNCHANGED <<roleVars, caVars, running>>
  BY <1>0, <1>1, <1>5, InitWrites, InitTypes, ClusterTypes, CATypes, RoleTypes, Zenon
<1>6. CASE "auth" \in running /\ (AuthBegin \/ AuthDeploy) /\ UNCHANGED <<caVars, running>>
  <2>1. UNCHANGED <<clusterVars, initVars>>
    BY <1>6, Zenon DEF AuthBegin, AuthDeploy
  <2> QED
    BY <1>0, <1>1, <1>6, <2>1, ClusterTypes, CATypes, NeighbourTypes, RoleTypes, Zenon DEF ClusterWrite
<1>7. CASE (CABegin \/ CAWrite \/ CAFail) /\ UNCHANGED <<initVars, roleVars, running>>
  <2>1. ClusterTypeOK'
    <3>1. CASE CABegin \/ CAFail
      BY <1>0, <3>1, ClusterTypes, Zenon DEF CABegin, CAFail, ClusterWrite
    <3>2. CASE CAWrite
      <4>1. PICK w \in caWork :
              /\ CASE w.op = "keep"   -> UNCHANGED <<cm, cmDirty>>
                   [] w.op = "delete" -> PutConfigMap(w.n, "none")
                   [] OTHER           -> ns[w.n].phase = "active" /\ PutConfigMap(w.n, w.op)
              /\ UNCHANGED <<ns, nsSeen, nsDirty, dsciVars>>
        BY <3>2, Zenon DEF CAWrite, CreateOdhTrustedCABundleConfigMap, DeleteOdhTrustedCABundleConfigMap
      <4>2. w.n \in Namespaces /\ w.op \in {"keep", "delete"} \cup CAs
        BY <1>0 DEF CATypeOK
      <4>3. CASE w.op = "keep"
        <5>1. UNCHANGED clusterVars
          BY <4>1, <4>3 DEF clusterVars, nsVars
        <5> QED
          BY <1>0, <5>1, ClusterTypes, Zenon DEF ClusterWrite
      <4>4. CASE w.op # "keep"
        <5>1. \E c \in ConfigMaps : PutConfigMap(w.n, c)
          BY <4>1, <4>2, <4>4, Zenon DEF ConfigMaps
        <5> QED
          BY <1>0, <4>1, <4>2, <5>1, ClusterTypes
      <4> QED
        BY <4>3, <4>4
    <3> QED
      BY <1>7, <3>1, <3>2
  <2> QED
    BY <1>0, <1>1, <1>7, <2>1, CATypes, NeighbourTypes, RoleTypes, Zenon
<1>8. CASE SeesDSCI
  <2>1. CacheDSCI /\ UNCHANGED <<nsVars, caWork, roleVars>>
    BY <1>8 DEF SeesDSCI
  <2>2. \E req \in SUBSET Namespaces : caQueue' = caQueue \cup req
    <3>1. dsciEventHandler \in SUBSET Namespaces
      BY DEF dsciEventHandler
    <3>2. {} \in SUBSET Namespaces /\ caQueue = caQueue \cup {}
      BY Zenon
    <3> QED
      BY <1>8, <3>1, <3>2, Zenon DEF SeesDSCI, Requests
  <2>3. KeptTypeOK' /\ CtlTypeOK'
    BY <1>0, <1>8, Zenon DEF SeesDSCI, KeptTypeOK, CtlTypeOK, keptVars, objVars, authVars, monVars
  <2> QED
    BY <1>0, <1>1, <2>1, <2>2, <2>3, ClusterTypes, CATypes, RoleTypes, Zenon
<1>9. ASSUME NEW n \in Namespaces, SeesNamespace(n) PROVE TypeOK'
  <2>1. CacheNamespace(n) /\ UNCHANGED <<dsciVars, caWork, initVars>>
    BY <1>9, Zenon DEF SeesNamespace
  <2>2. \E req \in SUBSET Namespaces : caQueue' = caQueue \cup req
    <3>1. NamespaceRequests(n) \in SUBSET Namespaces
      BY DEF NamespaceRequests
    <3>2. {} \in SUBSET Namespaces /\ caQueue = caQueue \cup {}
      BY Zenon
    <3> QED
      BY <1>9, <3>1, <3>2, Zenon DEF SeesNamespace, Requests
  <2> QED
    BY <1>0, <1>1, <1>9, <2>1, <2>2, ClusterTypes, CATypes, NeighbourTypes, RoleTypes, Zenon
<1>10. ASSUME NEW n \in Namespaces, SeesConfigMap(n) PROVE TypeOK'
  <2>1. /\ cmDirty' = cmDirty \ {n} /\ caQueue' = caQueue \cup {n}
        /\ UNCHANGED <<ns, nsSeen, nsDirty, cm, dsciVars, caWork, initVars, roleVars>>
    BY <1>10, Zenon DEF SeesConfigMap, CASeesConfigMap
  <2>2. {n} \in SUBSET Namespaces
    OBVIOUS
  <2> QED
    BY <1>0, <1>1, <2>1, <2>2, ClusterTypes, CATypes, NeighbourTypes, RoleTypes, Zenon
<1>11. CASE (SeesObjects \/ SeesMonitoring \/ CRDEstablished) /\ UNCHANGED <<roleVars, caVars, running>>
  <2>1. UNCHANGED clusterVars
    BY <1>11, Zenon DEF SeesObjects, SeesMonitoring, CRDEstablished
  <2> QED
    BY <1>0, <1>1, <1>11, <2>1, ClusterTypes, CATypes, NeighbourTypes, RoleTypes, Zenon DEF ClusterWrite
<1>12. CASE (SeesAuth \/ SeesBindings) /\ UNCHANGED <<caVars, running>>
  <2>1. UNCHANGED clusterVars /\ (SeesAuth \/ UNCHANGED initVars)
    BY <1>12, Zenon DEF SeesAuth, SeesBindings
  <2> QED
    BY <1>0, <1>1, <1>12, <2>1, ClusterTypes, CATypes, NeighbourTypes, RoleTypes, Zenon DEF ClusterWrite
<1>13. CASE Restart
  <2>1. ClusterTypeOK'
    BY <1>0, <1>13, Zenon DEF Restart, ClusterTypeOK
  <2>2. caQueue' \subseteq Namespaces /\ caWork' = {}
    BY <1>13, Zenon DEF Restart, Requests
  <2>3. KeptTypeOK' /\ CtlTypeOK'
    BY <1>0, <1>13, Zenon DEF Restart, KeptTypeOK, CtlTypeOK
  <2> QED
    BY <1>0, <1>1, <1>13, <2>1, <2>2, <2>3, CATypes, RoleTypes, Zenon
<1>14. ASSUME NEW n \in Namespaces, CreateNamespace(n) \/ NamespaceGone(n) \/ EditNamespace(n)
       PROVE  TypeOK'
  <2>1. UNCHANGED <<initCtl, keptVars, roleVars, caVars>>
    BY <1>14, Zenon DEF CreateNamespace, NamespaceGone, EditNamespace
  <2> QED
    BY <1>0, <1>1, <1>14, <2>1, UserWrites, ClusterTypes, CATypes, NeighbourTypes, RoleTypes, Zenon
<1>15. ASSUME NEW n \in Namespaces, DeleteNamespace(n) PROVE TypeOK'
  <2>1. UNCHANGED caVars
    BY <1>15, Zenon DEF DeleteNamespace
  <2> QED
    BY <1>0, <1>1, <1>15, <2>1, UserWrites, ClusterTypes, CATypes, NeighbourTypes, RoleTypes, Zenon
<1>16. ASSUME NEW n \in Namespaces, EditConfigMap(n) PROVE TypeOK'
  <2>1. \E c \in ConfigMaps : PutConfigMap(n, c) /\ UNCHANGED <<ns, nsSeen, nsDirty, dsciVars>>
    BY <1>16, Zenon DEF EditConfigMap, ConfigMaps
  <2>2. UNCHANGED <<initCtl, keptVars, roleVars, caVars>>
    BY <1>16, Zenon DEF EditConfigMap
  <2> QED
    BY <1>0, <1>1, <2>1, <2>2, ClusterTypes, CATypes, NeighbourTypes, RoleTypes, Zenon
<1> QED
  BY <1>2, <1>3, <1>4, <1>5, <1>6, <1>7, <1>8, <1>9, <1>10, <1>11, <1>12, <1>13, <1>14, <1>15,
     <1>16, Zenon DEF Next, Controllers, Caches

(* TypesHold: no step of a user, of a cache or of any of the three controllers
   leaves the types of Services, for any bound on the number of edits. *)
THEOREM TypesHold == Spec => []TypeOK
<1> QED
  BY TypeInit, TypeStep, PTL DEF Spec

-----------------------------------------------------------------------------
(* The composition implements the trusted-CA component *)

LEMMA WriteIsEnvironment ==
  ASSUME ClusterWrite, UNCHANGED caVars
  PROVE  [CANext]_<<clusterVars, caVars>>
BY Zenon DEF ClusterWrite, CANext, CAEnvironment

LEMMA CAStep ==
  ASSUME TypeOK, [Next]_servVars, "ca" \in running
  PROVE  [CANext]_<<clusterVars, caVars>>
<1>0. ClusterTypeOK
  BY DEF TypeOK
<1>1. ASSUME UNCHANGED clusterVars, UNCHANGED caVars PROVE [CANext]_<<clusterVars, caVars>>
  BY <1>1
<1>2. CASE UNCHANGED servVars
  BY <1>1, <1>2 DEF servVars
<1>3. CASE \/ Users \/ AuthUsers
           \/ "init" \in running /\ InitNext /\ UNCHANGED <<roleVars, caVars, running>>
  <2>1. UNCHANGED caVars
    BY <1>3, Zenon DEF Users, AuthUsers
  <2> QED
    BY <1>0, <1>3, <2>1, UserWrites, InitWrites, WriteIsEnvironment
<1>4. ASSUME NEW n \in Namespaces, CreateNamespace(n) \/ DeleteNamespace(n) \/ NamespaceGone(n) \/ EditNamespace(n)
      PROVE  [CANext]_<<clusterVars, caVars>>
  <2>1. UNCHANGED caVars
    BY <1>4, Zenon DEF CreateNamespace, DeleteNamespace, NamespaceGone, EditNamespace
  <2> QED
    BY <1>0, <1>4, <2>1, UserWrites, WriteIsEnvironment, Zenon
<1>5. CASE "auth" \in running /\ (AuthBegin \/ AuthDeploy) /\ UNCHANGED <<caVars, running>>
  BY <1>1, <1>5, Zenon DEF AuthBegin, AuthDeploy
<1>6. CASE (CABegin \/ CAWrite \/ CAFail) /\ UNCHANGED <<initVars, roleVars, running>>
  BY <1>6 DEF CANext
<1>7. CASE SeesDSCI
  <2>1. CASeesDSCI
    BY <1>7 DEF SeesDSCI, CASeesDSCI, Requests
  <2> QED
    BY <2>1 DEF CANext
<1>8. ASSUME NEW n \in Namespaces, SeesNamespace(n) PROVE [CANext]_<<clusterVars, caVars>>
  <2>1. CASeesNamespace(n)
    BY <1>8, Zenon DEF SeesNamespace, CASeesNamespace, Requests
  <2> QED
    BY <2>1 DEF CANext
<1>9. ASSUME NEW n \in Namespaces, SeesConfigMap(n) PROVE [CANext]_<<clusterVars, caVars>>
  BY <1>9, Zenon DEF SeesConfigMap, CANext
<1>10. CASE \/ (SeesObjects \/ SeesMonitoring \/ CRDEstablished) /\ UNCHANGED <<roleVars, caVars, running>>
            \/ (SeesAuth \/ SeesBindings) /\ UNCHANGED <<caVars, running>>
  BY <1>1, <1>10, Zenon DEF SeesObjects, SeesMonitoring, CRDEstablished, SeesAuth, SeesBindings
<1>11. CASE Restart
  <2>1. CARestart
    BY <1>11, Zenon DEF Restart, CARestart, Requests
  <2> QED
    BY <2>1 DEF CANext
<1>12. ASSUME NEW n \in Namespaces, EditConfigMap(n) PROVE [CANext]_<<clusterVars, caVars>>
  <2>1. CAEnvironment
    BY <1>12, Zenon DEF EditConfigMap, CAEnvironment
  <2> QED
    BY <2>1 DEF CANext
<1> QED
  BY <1>2, <1>3, <1>4, <1>5, <1>6, <1>7, <1>8, <1>9, <1>10, <1>11, <1>12, Zenon DEF Next, Controllers, Caches

(* CARefined: whoever takes a step of the composed services, the trusted-CA
   component sees one of its own steps or none.  Nothing the DSCI controller,
   the Auth controller, users or a restart do to the namespaces, the DSCI or
   the ConfigMaps falls outside what TrustedCA assumes of its environment. *)
THEOREM CARefined == Spec => CAImplemented
<1>1. TypeOK /\ [Next]_servVars => [("ca" \in running) => CANext]_<<clusterVars, caVars>>
  BY CAStep, Zenon
<1> QED
  BY <1>1, TypesHold, PTL DEF Spec, CAImplemented

LEMMA RunningConstant == [Next]_servVars => UNCHANGED running
<1> SUFFICES ASSUME [Next]_servVars PROVE UNCHANGED running
  OBVIOUS
<1>1. CASE UNCHANGED servVars
  BY <1>1 DEF servVars
<1>2. CASE Users \/ AuthUsers \/ Controllers \/ Restart
  BY <1>2, Zenon DEF Users, AuthUsers, Controllers, Restart
<1>3. CASE Caches
  BY <1>3, Zenon DEF Caches, SeesDSCI, SeesNamespace, SeesConfigMap
<1>4. ASSUME NEW n \in Namespaces, \/ CreateNamespace(n) \/ DeleteNamespace(n) \/ NamespaceGone(n)
                                   \/ EditNamespace(n) \/ EditConfigMap(n)
      PROVE  UNCHANGED running
  BY <1>4 DEF CreateNamespace, DeleteNamespace, NamespaceGone, EditNamespace, EditConfigMap
<1> QED
  BY <1>1, <1>2, <1>3, <1>4 DEF Next

(* BundlesSettleTogether: the settlement shown above of the
   trusted-CA controller alone holds while the other controllers share its
   caches: at rest no namespace is left with a bundle the DSCI does not ask
   for. *)
THEOREM BundlesSettleTogether == Spec => []("ca" \in running => BundlesSettle)
<1> DEFINE I == "ca" \in running => CAInv
<1>1. Init => I
  BY CAInitInv, Zenon DEF Init
<1>2. TypeOK /\ I /\ [Next]_servVars => I'
  BY RunningConstant, CAStep, CANextInv
<1>3. I => ("ca" \in running => BundlesSettle)
  BY CAInvSettles, Zenon
<1> QED
  BY <1>1, <1>2, <1>3, TypesHold, PTL DEF Spec

-----------------------------------------------------------------------------
(* The Auth controller *)

SeenExist == {n \in OptionalNs : NamespaceExists(nsSeen[n])}

(* What the reconcile in progress read is what the caches show, unless another
   request waits; and with no request, no reconcile and no event of a binding
   on its way, the bindings are those of what the caches show. *)
RolesInv ==
  /\ ~authQueue => \A w \in authWork : w.spec \in authSeen /\ w.exist = SeenExist
  /\ ~authQueue /\ authWork = {} /\ ~rbDirty /\ auth # {} /\ authSeen # {} =>
       \E a \in authSeen : rb = managePermissions(a, SeenExist)

LEMMA RolesStep ==
  ASSUME TypeOK, RolesInv, [Next]_servVars, "auth" \in running
  PROVE  RolesInv'
<1>1. ASSUME UNCHANGED <<authQueue, authWork, rb, rbDirty, authSeen, SeenExist>>,
             auth' # {} => auth # {} \/ authSeen = {}
      PROVE  RolesInv'
  BY <1>1, Zenon DEF RolesInv
<1>2. ASSUME UNCHANGED <<authQueue, authWork, authSeen, SeenExist>>, rbDirty' = TRUE PROVE RolesInv'
  BY <1>2 DEF RolesInv
<1>3. ASSUME UNCHANGED nsSeen PROVE UNCHANGED SeenExist
  BY <1>3, Zenon DEF SeenExist
<1>4. ASSUME authQueue' = TRUE PROVE RolesInv'
  BY <1>4, Zenon DEF RolesInv
<1>5. ASSUME ClusterWrite PROVE UNCHANGED nsSeen
  BY <1>5, Zenon DEF ClusterWrite, Put, clusterVars, nsVars
<1>6. ClusterTypeOK /\ RolesTypeOK
  BY Zenon DEF TypeOK
<1> USE DEF roleVars, initVars, keptVars, authVars
<1>7. CASE UNCHANGED servVars
  BY <1>1, <1>3, <1>7, Zenon DEF servVars, clusterVars, nsVars
<1>8. CASE Users
  <2>1. UNCHANGED <<roleVars, authVars>>
    BY <1>8, Zenon DEF Users, CreateDefaultDSCI, EditDSCI, DeleteDSCI, DeleteMonitoring,
                markUninstallInProgress, CRDCreated, DeleteObject, MonitoringReports
  <2> QED
    BY <1>1, <1>3, <1>5, <1>6, <1>8, <2>1, UserWrites, Zenon
<1>9. CASE AuthUsers
  <2>1. UNCHANGED SeenExist
    BY <1>3, <1>5, <1>6, <1>9, UserWrites, Zenon
  <2>2. ASSUME NEW a \in AuthSpec, EditAuth(a) PROVE RolesInv'
    BY <1>1, <2>1, <2>2, Zenon DEF EditAuth, PutAuth
  <2>3. ASSUME DeleteAuth PROVE RolesInv'
    BY <1>2, <2>1, <2>3, Zenon DEF DeleteAuth, PutAuth
  <2>4. ASSUME NEW t \in Targets, NEW b \in {{}, {{}}}, EditBinding(t, b) PROVE RolesInv'
    BY <1>2, <2>1, <2>4, Zenon DEF EditBinding
  <2> QED
    BY <1>9, <2>2, <2>3, <2>4 DEF AuthUsers
<1>10. CASE InitNext /\ UNCHANGED <<roleVars, caVars, running>>
  <2>1. UNCHANGED SeenExist
    BY <1>3, <1>5, <1>6, <1>10, InitWrites
  <2>2. UNCHANGED authSeen /\ (auth' # {} => auth # {} \/ authSeen = {})
    BY <1>10, Zenon DEF InitNext, InitSkip, InitFinalize, InitBegin, InitProgress, appNamespaceHandler,
                 PatchMonitoringNS, ReconcileDefaultNetworkPolicy, CreateObjects, CreateAuth,
                 reconcileDSCIModules, InitFinish
  <2> QED
    BY <1>1, <1>10, <2>1, <2>2
<1>11. CASE AuthBegin
  <2>1. UNCHANGED <<authSeen, auth, rb, rbDirty, SeenExist>>
    BY <1>3, <1>11, Zenon DEF AuthBegin, clusterVars, nsVars
  <2>2. CASE authSeen = {}
    BY <1>11, <2>1, <2>2, Zenon DEF AuthBegin, RolesInv
  <2>3. CASE authSeen # {} /\ dsciSeen.phase = "absent"
    BY <1>4, <1>6, <1>11, <2>3, Zenon DEF AuthBegin, RolesTypeOK
  <2>4. CASE authSeen # {} /\ dsciSeen.phase # "absent"
    <3>1. authWork' = {[spec |-> s, exist |-> SeenExist] : s \in authSeen}
      BY <1>11, <2>4, Zenon DEF AuthBegin, SeenExist
    <3>2. PICK s \in authSeen : TRUE
      BY <2>4, Zenon
    <3>3. [spec |-> s, exist |-> SeenExist] \in authWork'
      BY <3>1, Zenon
    <3>4. \A w \in authWork' : w.spec \in authSeen /\ w.exist = SeenExist
      BY <3>1, SMT, SMTT(60)
    <3> QED
      BY <2>1, <3>3, <3>4, Zenon DEF RolesInv
  <2> QED
    BY <2>2, <2>3, <2>4, Zenon
<1>12. CASE AuthDeploy
  <2>1. PICK w \in authWork :
          /\ rb' = [t \in Targets |-> IF t \in Written(w)
                                      THEN managePermissions(w.spec, w.exist)[t] ELSE rb[t]]
          /\ authWork' = {} /\ authQueue' = (authQueue \/ Retried(w))
          /\ UNCHANGED <<clusterVars, initVars>>
    BY <1>12, Zenon DEF AuthDeploy
  <2>2. UNCHANGED <<authSeen, auth, SeenExist>>
    BY <1>3, <2>1, Zenon DEF clusterVars, nsVars
  <2>3. ASSUME ~authQueue', auth # {} PROVE rb' = managePermissions(w.spec, w.exist)
    <3>1. Failing(w) = {}
      BY <2>1, <2>3, Zenon DEF Retried
    <3>2. Written(w) = Targets
      BY <2>3, <3>1 DEF Written
    <3> QED
      BY <2>1, <3>2, Zenon DEF managePermissions
  <2>4. ASSUME ~authQueue' PROVE w.spec \in authSeen /\ w.exist = SeenExist
    BY <2>1, <2>4, Zenon DEF RolesInv
  <2> QED
    BY <2>1, <2>2, <2>3, <2>4, Zenon DEF RolesInv
<1>13. CASE (CABegin \/ CAWrite \/ CAFail) /\ UNCHANGED <<initVars, roleVars, running>>
  <2>1. UNCHANGED nsSeen
    BY <1>13 DEF CABegin, CAWrite, CAFail, clusterVars, nsVars
  <2> QED
    BY <1>1, <1>3, <1>13, <2>1, Zenon
<1>14. CASE SeesDSCI
  BY <1>1, <1>3, <1>14, Zenon DEF SeesDSCI, nsVars
<1>15. ASSUME NEW n \in Namespaces, SeesNamespace(n) PROVE RolesInv'
  <2>1. CASE n \in OptionalNs
    BY <1>4, <1>15, <2>1, Zenon DEF SeesNamespace
  <2>2. CASE n \notin OptionalNs
    <3>1. \A m \in OptionalNs : nsSeen'[m] = nsSeen[m]
      BY <1>6, <1>15, <2>2, NamespacesAssumption, Zenon DEF SeesNamespace, CacheNamespace, ClusterTypeOK
    <3>2. UNCHANGED SeenExist
      BY <3>1, Zenon DEF SeenExist
    <3>3. UNCHANGED <<authQueue, authWork, rb, rbDirty, auth, authSeen>>
      BY <1>6, <1>15, <2>2, Zenon DEF SeesNamespace, RolesTypeOK
    <3> QED
      BY <1>1, <3>2, <3>3, Zenon
  <2> QED
    BY <2>1, <2>2, Zenon
<1>16. ASSUME NEW n \in Namespaces, SeesConfigMap(n) PROVE RolesInv'
  BY <1>1, <1>3, <1>16, Zenon DEF SeesConfigMap, CASeesConfigMap
<1>17. CASE (SeesObjects \/ SeesMonitoring \/ CRDEstablished) /\ UNCHANGED <<roleVars, caVars, running>>
  BY <1>1, <1>3, <1>17, Zenon DEF SeesObjects, SeesMonitoring, CRDEstablished, clusterVars, nsVars
<1>18. CASE SeesAuth \/ SeesBindings
  BY <1>4, <1>18, Zenon DEF SeesAuth, SeesBindings
<1>19. CASE Restart
  BY <1>19, Zenon DEF Restart, RolesInv
<1>20. ASSUME NEW n \in Namespaces,
              CreateNamespace(n) \/ NamespaceGone(n) \/ EditNamespace(n) \/ EditConfigMap(n)
       PROVE  RolesInv'
  <2>1. UNCHANGED <<roleVars, keptVars, nsSeen>>
    BY <1>20, Zenon DEF CreateNamespace, NamespaceGone, EditNamespace, EditConfigMap, Put
  <2> QED
    BY <1>1, <1>3, <2>1, Zenon
<1>21. ASSUME NEW n \in Namespaces, DeleteNamespace(n) PROVE RolesInv'
  <2>1. /\ UNCHANGED <<nsSeen, authVars, authQueue, authWork>>
        /\ rbDirty' = (rbDirty \/ rb' # rb)
    BY <1>21, Zenon DEF DeleteNamespace, Put
  <2>2. CASE rb' = rb
    BY <1>1, <1>3, <1>6, <2>1, <2>2, SMT, SMTT(60) DEF RolesTypeOK
  <2>3. CASE rb' # rb
    BY <1>2, <1>3, <2>1, <2>3, Zenon
  <2> QED
    BY <2>2, <2>3
<1> QED
  BY <1>7, <1>8, <1>9, <1>10, <1>11, <1>12, <1>13, <1>14, <1>15, <1>16, <1>17, <1>18, <1>19, <1>20,
     <1>21, Zenon DEF Next, Controllers, Caches

(* RolesSettleTogether: for any sets of groups and optional namespaces, and any
   number of edits, whenever the Auth controller is at rest and an Auth exists
   the bindings are exactly those its current groups ask for, in exactly the
   optional namespaces that exist. *)
THEOREM RolesSettleTogether == Spec => []("auth" \in running => RolesSettle)
<1> DEFINE I == "auth" \in running => RolesInv
<1>1. Init => I
  BY Zenon DEF Init, RolesInv
<1>2. TypeOK /\ I /\ [Next]_servVars => I'
  BY RunningConstant, RolesStep, Zenon
<1>3. I => ("auth" \in running => RolesSettle)
  <2> SUFFICES ASSUME RolesInv, AuthAtRest, auth # {}
               PROVE  \E a \in auth :
                        rb = managePermissions(a, {n \in OptionalNs : NamespaceExists(ns[n])})
    BY Zenon DEF RolesSettle
  <2>1. SeenExist = {n \in OptionalNs : NamespaceExists(ns[n])}
    BY Zenon DEF SeenExist, AuthAtRest
  <2> QED
    BY <2>1, Zenon DEF RolesInv, AuthAtRest
<1> QED
  BY <1>1, <1>2, <1>3, TypesHold, PTL DEF Spec

-----------------------------------------------------------------------------
(* The DSCI controller: what its caches and watches can miss *)

(* A cached DSCI that differs where the controller looks has an event coming;
   a mark in the cache is that of this DSCI or of one that is gone. *)
DSCISeenInv ==
  /\ dsciSeen.phase # dsci.phase \/ dsciSeen.mon # dsci.mon => "spec" \in dsciEvents
  /\ isUninstallInProgress(dsci) => marked
  /\ dsci.phase = "live" /\ ~marked /\ isUninstallInProgress(dsciSeen) => "spec" \in dsciEvents

(* A kept object that is gone has an event coming, and so has a changed Auth *)
ObjSeenInv ==
  /\ ~(objSeen \subseteq obj) => "obj" \in dirty
  /\ \A k \in obj : Deploys(k)
  /\ authSeen # auth => "auth" \in dirty

(* There is a Monitoring CR only with its CRD, and then a watch or a request *)
MonSeenInv ==
  /\ mon # "absent" \/ monSeen # "absent" => crd = "established"
  /\ dsci.phase = "live" /\ crd # "absent" /\ ~watchAdded => initQueue \/ "spec" \in dsciEvents

(* A request waits or will come *)
Woken ==
  \/ initQueue \/ "spec" \in dsciEvents \/ "obj" \in dirty
  \/ "mon" \in dirty /\ watchAdded

(* What the reconcile in progress has achieved, if nothing woke it again *)
Achieved ==
  /\ initPc # "idle" => inst = dsci.mon
  /\ initPc \in {"objects", "modules", "finish", "idle"} =>
       ns[AppNs].phase = "active" /\ "NetworkPolicy" \in obj
  /\ initPc \in {"modules", "finish", "idle"} =>
       {k \in Kinds : Deploys(k)} \subseteq obj /\ (auth # {} \/ "auth" \in dirty)
  /\ initPc \in {"finish", "idle"} => (dsci.mon /\ crd = "established" <=> mon # "absent")
  /\ initPc = "idle" /\ ~lost =>
       dsci.status.phase = "Ready" /\ dsci.status.monitoring = CopyMonitoring(dsci.status).monitoring

InitInv ==
  /\ DSCISeenInv /\ ObjSeenInv /\ MonSeenInv
  /\ dsci.phase = "live" /\ ~marked /\ ~Woken => Achieved

ServInitInv == "init" \in running => InitInv

(* What a step may do to the DSCI, its cache and the mark *)
DSCIChange ==
  \/ UNCHANGED <<dsciVars, marked>>
  \/ CacheDSCI /\ UNCHANGED marked
  \/ \E d \in DSCIState :
       /\ PutDSCI(d)
       /\ \/ /\ UNCHANGED marked /\ (isUninstallInProgress(d) => isUninstallInProgress(dsci))
             /\ d.phase = "live" => dsci.phase = "live"
          \/ dsci.phase = "absent" /\ d.phase = "live" /\ ~isUninstallInProgress(d) /\ marked' = FALSE
          \/ marked' = TRUE

LEMMA DSCISeenKeeps ==
  ASSUME ClusterTypeOK, DSCISeenInv, marked \in BOOLEAN, DSCIChange
  PROVE  DSCISeenInv'
<1>1. CASE UNCHANGED <<dsciVars, marked>>
  BY <1>1, Zenon DEF dsciVars, DSCISeenInv, isUninstallInProgress
<1>2. CASE CacheDSCI /\ UNCHANGED marked
  BY <1>2, Zenon DEF CacheDSCI, DSCISeenInv, isUninstallInProgress
<1>3. ASSUME NEW d \in DSCIState, PutDSCI(d),
             \/ /\ UNCHANGED marked /\ (isUninstallInProgress(d) => isUninstallInProgress(dsci))
                /\ d.phase = "live" => dsci.phase = "live"
             \/ dsci.phase = "absent" /\ d.phase = "live" /\ ~isUninstallInProgress(d) /\ marked' = FALSE
             \/ marked' = TRUE
      PROVE  DSCISeenInv'
  <2>1. /\ dsci' = d /\ dsciSeen' = dsciSeen /\ dsciEvents \subseteq dsciEvents'
        /\ dsci.phase # d.phase \/ dsci.mon # d.mon => "spec" \in dsciEvents'
    BY <1>3, Zenon DEF PutDSCI
  <2> QED
    BY <1>3, <2>1 DEF DSCISeenInv, isUninstallInProgress
<1> QED
  BY <1>1, <1>2, <1>3, Zenon DEF DSCIChange

(* A write of the status keeps what the watches look at *)
LEMMA StatusChange ==
  ASSUME ClusterTypeOK, NEW st \in DSCIStatus, UpdateWithRetry(st), UNCHANGED marked,
         st.ready = "uninstall" => dsci.status.ready = "uninstall"
  PROVE  DSCIChange /\ dsci' = [dsci EXCEPT !.status = st] /\ UNCHANGED <<dsciSeen, dsciEvents>>
<1>1. [dsci EXCEPT !.status = st] \in DSCIState
  BY DEF ClusterTypeOK, DSCIState
<1>2. /\ [dsci EXCEPT !.status = st].phase = dsci.phase /\ [dsci EXCEPT !.status = st].mon = dsci.mon
      /\ [dsci EXCEPT !.status = st].bundle = dsci.bundle /\ [dsci EXCEPT !.status = st].status = st
  BY DEF ClusterTypeOK, DSCIState
<1>3. PutDSCI([dsci EXCEPT !.status = st])
  BY DEF UpdateWithRetry
<1>4. DSCIChange
  BY <1>1, <1>2, <1>3, Zenon DEF DSCIChange, isUninstallInProgress
<1> HIDE DEF UpdateWithRetry
<1>5. dsci' = [dsci EXCEPT !.status = st] /\ UNCHANGED <<dsciSeen, dsciEvents>>
  BY <1>2, <1>3 DEF PutDSCI, UpdateWithRetry
<1> QED
  BY <1>4, <1>5

LEMMA StatusReady ==
  ASSUME ClusterTypeOK
  PROVE  /\ \A p \in {"", "Progressing", "Error", "Ready", "NotReady"} :
              [dsci.status EXCEPT !.phase = p].ready = dsci.status.ready
         /\ [CopyMonitoring(dsci.status) EXCEPT !.phase = "Ready"].ready = "uninstall" =>
              dsci.status.ready = "uninstall"
         /\ [CopyMonitoring(dsci.status) EXCEPT !.phase = "Ready"].phase = "Ready"
<1>1. dsci.status \in DSCIStatus
  BY DEF ClusterTypeOK, DSCIState
<1>2. /\ CopyMonitoring(dsci.status) \in DSCIStatus
      /\ (CopyMonitoring(dsci.status).ready = "uninstall" => dsci.status.ready = "uninstall")
  BY <1>1, Zenon DEF CopyMonitoring, DSCIStatus
<1> QED
  BY <1>1, <1>2, Zenon DEF DSCIStatus

LEMMA OperatorFails ==
  ASSUME ClusterTypeOK, OperatorResourceFails, UNCHANGED marked
  PROVE  /\ DSCIChange /\ dsci'.phase = dsci.phase /\ dsci'.mon = dsci.mon
         /\ UNCHANGED dsciEvents /\ initPc' = "idle" /\ initQueue' = TRUE
<1>1. initPc' = "idle" /\ initQueue' = TRUE
  BY DEF OperatorResourceFails, InitError, Goto
<1>2. CASE UNCHANGED dsciVars
  BY <1>1, <1>2, Zenon DEF DSCIChange, dsciVars
<1>3. CASE UpdateWithRetry([dsci.status EXCEPT !.phase = "Error"])
  <2>1. /\ [dsci.status EXCEPT !.phase = "Error"] \in DSCIStatus
        /\ [dsci.status EXCEPT !.phase = "Error"].ready = dsci.status.ready
    BY StatusTypes, StatusReady, Zenon
  <2>2. DSCIChange /\ dsci' = [dsci EXCEPT !.status = [dsci.status EXCEPT !.phase = "Error"]] /\ UNCHANGED dsciEvents
    BY <1>3, <2>1, StatusChange, Zenon
  <2> QED
    BY <1>1, <2>2 DEF ClusterTypeOK, DSCIState
<1> QED
  BY <1>2, <1>3, Zenon DEF OperatorResourceFails

LEMMA InitChangesDSCI ==
  ASSUME TypeOK, InitNext
  PROVE  DSCIChange
<1> USE DEF TypeOK
<1>1. CASE InitSkip \/ CreateObjects \/ reconcileDSCIModules
  BY <1>1, Zenon DEF InitSkip, CreateObjects, reconcileDSCIModules, clusterVars, DSCIChange
<1>2. CASE InitFinalize
  <2>1. NoDSCI \in DSCIState /\ ~isUninstallInProgress(NoDSCI) /\ NoDSCI.phase = "absent"
    BY Zenon DEF NoDSCI, DSCIState, DSCIStatus, Bundles, isUninstallInProgress
  <2>2. UNCHANGED marked /\ (UNCHANGED dsciVars \/ PutDSCI(NoDSCI))
    BY <1>2, Zenon DEF InitFinalize
  <2> QED
    BY <2>1, <2>2, Zenon DEF DSCIChange
<1>3. CASE InitBegin
  <2>1. /\ [dsci EXCEPT !.fin = TRUE] \in DSCIState
        /\ [dsci EXCEPT !.fin = TRUE].status = dsci.status /\ [dsci EXCEPT !.fin = TRUE].phase = dsci.phase
    BY Zenon DEF ClusterTypeOK, DSCIState
  <2>2. UNCHANGED marked /\ (UNCHANGED dsciVars \/ PutDSCI([dsci EXCEPT !.fin = TRUE]))
    BY <1>3, Zenon DEF InitBegin
  <2> QED
    BY <2>1, <2>2, Zenon DEF DSCIChange, isUninstallInProgress
<1>4. CASE InitProgress
  <2>1. /\ [dsci.status EXCEPT !.phase = "Progressing"] \in DSCIStatus
        /\ [dsci.status EXCEPT !.phase = "Progressing"].ready = dsci.status.ready
    BY StatusTypes, StatusReady, Zenon
  <2>2. UNCHANGED marked /\ (UNCHANGED dsciVars \/ UpdateWithRetry([dsci.status EXCEPT !.phase = "Progressing"]))
    BY <1>4 DEF InitProgress
  <2>3. CASE UNCHANGED dsciVars
    BY <2>2, <2>3 DEF DSCIChange
  <2> QED
    BY <2>1, <2>2, <2>3, StatusChange, Zenon
<1>5. CASE InitFinish
  <2>1. /\ UNCHANGED marked
        /\ (UNCHANGED dsciVars \/ UpdateWithRetry([CopyMonitoring(dsci.status) EXCEPT !.phase = "Ready"]))
    BY <1>5 DEF InitFinish
  <2>2. CASE UNCHANGED dsciVars
    BY <2>1, <2>2, Zenon DEF DSCIChange
  <2> QED
    BY <2>1, <2>2, StatusTypes, StatusReady, StatusChange, Zenon
<1>6. CASE appNamespaceHandler \/ PatchMonitoringNS \/ ReconcileDefaultNetworkPolicy
  <2>1. UNCHANGED marked /\ (UNCHANGED dsciVars \/ OperatorResourceFails)
    BY <1>6, Zenon DEF appNamespaceHandler, PatchMonitoringNS, ReconcileDefaultNetworkPolicy
  <2>2. CASE UNCHANGED dsciVars
    BY <2>1, <2>2, Zenon DEF DSCIChange
  <2> QED
    BY <2>1, <2>2, OperatorFails, Zenon
<1> QED
  BY <1>1, <1>2, <1>3, <1>4, <1>5, <1>6 DEF InitNext

LEMMA UsersChangeDSCI ==
  ASSUME TypeOK, Users
  PROVE  DSCIChange
<1> USE DEF TypeOK
<1>1. NoDSCI \in DSCIState /\ ~isUninstallInProgress(NoDSCI) /\ NoDSCI.phase = "absent"
  BY Zenon DEF NoDSCI, DSCIState, DSCIStatus, Bundles, isUninstallInProgress
<1>2. ASSUME NEW b \in Bundles, NEW m \in BOOLEAN, CreateDefaultDSCI(b, m) PROVE DSCIChange
  <2>1. /\ [NoDSCI EXCEPT !.phase = "live", !.bundle = b, !.mon = m] \in DSCIState
        /\ [NoDSCI EXCEPT !.phase = "live", !.bundle = b, !.mon = m].phase = "live"
        /\ [NoDSCI EXCEPT !.phase = "live", !.bundle = b, !.mon = m].status = NoDSCI.status
    BY <1>1, Zenon DEF DSCIState
  <2> QED
    BY <1>1, <1>2, <2>1, Zenon DEF CreateDefaultDSCI, DSCIChange, isUninstallInProgress
<1>3. ASSUME NEW b \in Bundles, NEW m \in BOOLEAN, EditDSCI([dsci EXCEPT !.bundle = b, !.mon = m])
      PROVE  DSCIChange
  <2>1. /\ [dsci EXCEPT !.bundle = b, !.mon = m] \in DSCIState
        /\ [dsci EXCEPT !.bundle = b, !.mon = m].phase = dsci.phase
        /\ [dsci EXCEPT !.bundle = b, !.mon = m].status = dsci.status
    BY Zenon DEF ClusterTypeOK, DSCIState
  <2>2. PutDSCI([dsci EXCEPT !.bundle = b, !.mon = m]) /\ UNCHANGED marked
    BY <1>3 DEF EditDSCI, initCtl
  <2> QED
    BY <2>1, <2>2, Zenon DEF DSCIChange, isUninstallInProgress
<1>4. ASSUME DeleteDSCI PROVE DSCIChange
  <2>1. /\ [dsci EXCEPT !.phase = "deleting"] \in DSCIState
        /\ [dsci EXCEPT !.phase = "deleting"].phase = "deleting"
        /\ [dsci EXCEPT !.phase = "deleting"].status = dsci.status
    BY DEF ClusterTypeOK, DSCIState
  <2>2. UNCHANGED marked /\ (PutDSCI([dsci EXCEPT !.phase = "deleting"]) \/ PutDSCI(NoDSCI))
    BY <1>4 DEF DeleteDSCI, initCtl
  <2> QED
    BY <1>1, <2>1, <2>2, Zenon DEF DSCIChange, isUninstallInProgress
<1>5. ASSUME markUninstallInProgress PROVE DSCIChange
  <2>1. [dsci.status EXCEPT !.ready = "uninstall", !.phase = "NotReady"] \in DSCIStatus
    BY StatusTypes, Zenon
  <2>2. /\ UpdateWithRetry([dsci.status EXCEPT !.ready = "uninstall", !.phase = "NotReady"])
        /\ marked' = TRUE
    BY <1>5 DEF markUninstallInProgress
  <2> QED
    BY <2>1, <2>2, StatusWrite, Zenon DEF DSCIChange
<1>6. ASSUME UNCHANGED <<clusterVars, marked>> PROVE DSCIChange
  BY <1>6 DEF DSCIChange, clusterVars
<1>7. ASSUME \/ DeleteMonitoring \/ CRDCreated
             \/ (\E k \in Kinds : DeleteObject(k))
             \/ \E c \in {"ready", "notready"} : MonitoringReports(c)
      PROVE  UNCHANGED <<clusterVars, marked>>
  BY <1>7, Zenon DEF DeleteMonitoring, CRDCreated, DeleteObject, MonitoringReports, initCtl
<1> QED
  BY <1>2, <1>3, <1>4, <1>5, <1>6, <1>7, Zenon DEF Users

(* The settlement that InitInv promises *)
Promise == dsci.phase = "live" /\ ~marked /\ ~Woken => Achieved

(* A step that takes nothing away from what was achieved *)
Undisturbed ==
  /\ UNCHANGED <<initPc, inst, lost, crd, monSeen, marked>>
  /\ dsci'.phase = dsci.phase /\ dsci'.mon = dsci.mon /\ dsci'.status = dsci.status
  /\ ns[AppNs].phase = "active" => ns'[AppNs].phase = "active"
  /\ obj \subseteq obj'
  /\ auth # {} \/ "auth" \in dirty => auth' # {} \/ "auth" \in dirty'
  /\ mon = "absent" <=> mon' = "absent"
  /\ Woken => Woken'

LEMMA UndisturbedKeeps ==
  ASSUME Promise, Undisturbed
  PROVE  Promise'
<1>1. CopyMonitoring(dsci.status)' = CopyMonitoring(dsci.status)
  BY DEF Undisturbed, CopyMonitoring
<1>2. Achieved => Achieved'
  BY <1>1, Zenon DEF Undisturbed, Achieved, Deploys
<1> QED
  BY <1>2, Zenon DEF Promise, Undisturbed

LEMMA WokenKeeps ==
  ASSUME Woken' \/ dsci'.phase # "live" \/ marked'
  PROVE  Promise'
BY DEF Promise

(* Steps of the Auth and trusted-CA controllers, of the caches and of the users
   of namespaces *)
LEMMA OthersKeep ==
  ASSUME InitInv, UNCHANGED <<initCtl, keptVars, dsciVars>>,
         ns[AppNs].phase = "active" => ns'[AppNs].phase = "active"
  PROVE  InitInv'
<1> USE DEF initCtl, keptVars, objVars, authVars, monVars, dsciVars
<1>1. DSCISeenInv' /\ ObjSeenInv' /\ MonSeenInv'
  BY Zenon DEF InitInv, DSCISeenInv, ObjSeenInv, MonSeenInv, isUninstallInProgress, Deploys
<1>2. Undisturbed
  BY Zenon DEF Undisturbed, Woken
<1> QED
  BY <1>1, <1>2, UndisturbedKeeps, Zenon DEF InitInv, Promise

LEMMA CachesKeepInit ==
  ASSUME TypeOK, InitInv, "init" \in running,
         SeesDSCI \/ SeesObjects \/ SeesMonitoring \/ CRDEstablished \/ SeesAuth \/ Restart
  PROVE  InitInv'
<1> USE DEF keptVars, objVars, authVars, monVars, dsciVars, clusterVars, nsVars
<1>0. /\ DSCISeenInv /\ ObjSeenInv /\ MonSeenInv /\ Promise
      /\ ClusterTypeOK /\ marked \in BOOLEAN /\ crd \in {"absent", "created", "established"}
      /\ initQueue \in BOOLEAN
  BY Zenon DEF InitInv, Promise, TypeOK, InitTypeOK
<1>1. CASE SeesDSCI
  <2>1. DSCISeenInv'
    BY <1>0, <1>1, DSCISeenKeeps, Zenon DEF SeesDSCI, DSCIChange
  <2>2. ObjSeenInv' /\ MonSeenInv'
    BY <1>0, <1>1, Zenon DEF SeesDSCI, CacheDSCI, ObjSeenInv, MonSeenInv, Deploys
  <2>3. CASE "spec" \in dsciEvents
    BY <1>1, <2>1, <2>2, <2>3, WokenKeeps, Zenon DEF SeesDSCI, Woken, InitInv, Promise
  <2>4. CASE "spec" \notin dsciEvents
    <3>1. Undisturbed
      BY <1>1, <2>4, Zenon DEF SeesDSCI, CacheDSCI, Undisturbed, Woken
    <3> QED
      BY <1>0, <2>1, <2>2, <3>1, UndisturbedKeeps, Zenon DEF InitInv, Promise
  <2> QED
    BY <2>3, <2>4, Zenon
<1>2. CASE SeesObjects
  <2>1. DSCISeenInv'
    BY <1>0, <1>2, DSCISeenKeeps, Zenon DEF SeesObjects, DSCIChange
  <2>2. ObjSeenInv' /\ MonSeenInv'
    BY <1>0, <1>2, Zenon DEF SeesObjects, ObjSeenInv, MonSeenInv, Deploys
  <2>3. CASE "obj" \in dirty
    BY <1>2, <2>1, <2>2, <2>3, WokenKeeps, Zenon DEF SeesObjects, Woken, InitInv, Promise
  <2>4. CASE "obj" \notin dirty
    <3>1. Undisturbed
      BY <1>2, <2>4, Zenon DEF SeesObjects, Undisturbed, Woken
    <3> QED
      BY <1>0, <2>1, <2>2, <3>1, UndisturbedKeeps, Zenon DEF InitInv, Promise
  <2> QED
    BY <2>3, <2>4, Zenon
<1>3. CASE SeesMonitoring
  <2>1. DSCISeenInv'
    BY <1>0, <1>3, DSCISeenKeeps, Zenon DEF SeesMonitoring, DSCIChange
  <2>2. ObjSeenInv' /\ MonSeenInv'
    BY <1>0, <1>3, Zenon DEF SeesMonitoring, ObjSeenInv, MonSeenInv, Deploys
  <2>3. CASE watchAdded
    BY <1>3, <2>1, <2>2, <2>3, WokenKeeps, Zenon DEF SeesMonitoring, Woken, InitInv, Promise
  <2>4. CASE ~watchAdded
    <3>1. CASE dsci.phase = "live" /\ crd # "absent"
      <4>1. Woken'
        BY <1>0, <1>3, <2>4, <3>1, Zenon DEF SeesMonitoring, MonSeenInv, Woken
      <4> QED
        BY <2>1, <2>2, <4>1, WokenKeeps, Zenon DEF InitInv, Promise
    <3>2. CASE dsci.phase # "live"
      <4>1. dsci'.phase # "live"
        BY <1>3, <3>2, Zenon DEF SeesMonitoring
      <4> QED
        BY <2>1, <2>2, <4>1, WokenKeeps, Zenon DEF InitInv, Promise
    <3>3. CASE crd = "absent"
      <4>1. monSeen' = monSeen
        BY <1>0, <1>3, <3>3, Zenon DEF SeesMonitoring, MonSeenInv
      <4>2. Undisturbed
        BY <1>3, <2>4, <4>1, Zenon DEF SeesMonitoring, Undisturbed, Woken
      <4> QED
        BY <1>0, <2>1, <2>2, <4>2, UndisturbedKeeps DEF InitInv, Promise
    <3> QED
      BY <3>1, <3>2, <3>3, Zenon
  <2> QED
    BY <2>3, <2>4, Zenon
<1>4. CASE CRDEstablished
  <2>1. DSCISeenInv'
    BY <1>0, <1>4, DSCISeenKeeps, Zenon DEF CRDEstablished, DSCIChange
  <2>2. ObjSeenInv' /\ MonSeenInv' /\ Woken'
    BY <1>0, <1>4, Zenon DEF CRDEstablished, ObjSeenInv, MonSeenInv, Deploys, Woken
  <2> QED
    BY <2>1, <2>2, WokenKeeps, Zenon DEF InitInv, Promise
<1>5. CASE SeesAuth
  <2>1. DSCISeenInv'
    BY <1>0, <1>5, DSCISeenKeeps, Zenon DEF SeesAuth, DSCIChange
  <2>2. ObjSeenInv' /\ MonSeenInv'
    BY <1>0, <1>5, Zenon DEF SeesAuth, ObjSeenInv, MonSeenInv, Deploys
  <2>3. CASE auth = {}
    BY <1>5, <2>1, <2>2, <2>3, WokenKeeps, Zenon DEF SeesAuth, Woken, InitInv, Promise
  <2>4. CASE auth # {}
    <3>1. Undisturbed
      BY <1>5, <2>4, Zenon DEF SeesAuth, Undisturbed, Woken
    <3> QED
      BY <1>0, <2>1, <2>2, <3>1, UndisturbedKeeps DEF InitInv, Promise
  <2> QED
    BY <2>3, <2>4, Zenon
<1>6. CASE Restart
  <2>1. DSCISeenInv'
    BY <1>0, <1>6, DSCISeenKeeps, Zenon DEF Restart, DSCIChange, CacheDSCI
  <2>2. ObjSeenInv'
    BY <1>0, <1>6, Zenon DEF Restart, ObjSeenInv, Deploys
  <2>3. MonSeenInv' /\ (Woken' \/ dsci'.phase # "live")
    BY <1>0, <1>6, Zenon DEF Restart, MonSeenInv, Woken
  <2> QED
    BY <2>1, <2>2, <2>3, WokenKeeps, Zenon DEF InitInv, Promise
<1> QED
  BY <1>1, <1>2, <1>3, <1>4, <1>5, <1>6

LEMMA UsersKeepInit ==
  ASSUME TypeOK, InitInv, Users
  PROVE  InitInv'
<1> USE DEF keptVars, objVars, authVars, monVars, initCtl
<1>0. /\ DSCISeenInv /\ ObjSeenInv /\ MonSeenInv /\ Promise
      /\ ClusterTypeOK /\ marked \in BOOLEAN
  BY Zenon DEF InitInv, Promise, TypeOK, InitTypeOK
<1>1. DSCISeenInv'
  BY <1>0, DSCISeenKeeps, UsersChangeDSCI
<1>2. ASSUME UNCHANGED keptVars PROVE ObjSeenInv'
  BY <1>0, <1>2, Zenon DEF ObjSeenInv, Deploys
<1>3. ASSUME UNCHANGED <<keptVars, initQueue, watchAdded>>, dsciEvents \subseteq dsciEvents',
             dsci'.phase = "live" => dsci.phase = "live" \/ "spec" \in dsciEvents'
      PROVE  MonSeenInv'
  BY <1>0, <1>3, Zenon DEF MonSeenInv
<1>4. ASSUME NEW d, PutDSCI(d)
      PROVE  /\ dsci' = d /\ dsciEvents \subseteq dsciEvents'
             /\ <<dsci.phase, dsci.bundle, dsci.mon>> # <<d.phase, d.bundle, d.mon>> =>
                  "spec" \in dsciEvents'
  BY <1>4, Zenon DEF PutDSCI
<1>5. ASSUME NEW b \in Bundles, NEW m \in BOOLEAN, CreateDefaultDSCI(b, m) PROVE InitInv'
  <2>0. [NoDSCI EXCEPT !.phase = "live", !.bundle = b, !.mon = m].phase = "live"
    BY DEF NoDSCI
  <2>1. "spec" \in dsciEvents' /\ dsciEvents \subseteq dsciEvents'
    BY <1>4, <1>5, <2>0, Zenon DEF CreateDefaultDSCI
  <2>2. UNCHANGED <<keptVars, initQueue, watchAdded>>
    BY <1>5 DEF CreateDefaultDSCI
  <2> QED
    BY <1>1, <1>2, <1>3, <2>1, <2>2, WokenKeeps, Zenon DEF InitInv, Promise, Woken
<1>6. ASSUME NEW b \in Bundles, NEW m \in BOOLEAN, EditDSCI([dsci EXCEPT !.bundle = b, !.mon = m])
      PROVE  InitInv'
  <2>1. b # dsci.bundle \/ m # dsci.mon
    BY <1>0, <1>6, Zenon DEF EditDSCI, ClusterTypeOK, DSCIState
  <2>2. /\ [dsci EXCEPT !.bundle = b, !.mon = m].bundle = b
        /\ [dsci EXCEPT !.bundle = b, !.mon = m].mon = m
    BY <1>0 DEF ClusterTypeOK, DSCIState
  <2>3. "spec" \in dsciEvents' /\ dsciEvents \subseteq dsciEvents'
    BY <1>4, <1>6, <2>1, <2>2, Zenon DEF EditDSCI
  <2>4. UNCHANGED <<keptVars, initQueue, watchAdded>>
    BY <1>6 DEF EditDSCI
  <2> QED
    BY <1>1, <1>2, <1>3, <2>3, <2>4, WokenKeeps, Zenon DEF InitInv, Promise, Woken
<1>7. ASSUME DeleteDSCI PROVE InitInv'
  <2>0. NoDSCI.phase = "absent" /\ [dsci EXCEPT !.phase = "deleting"].phase = "deleting"
    BY <1>0 DEF NoDSCI, ClusterTypeOK, DSCIState
  <2>1. dsciEvents \subseteq dsciEvents' /\ dsci'.phase # "live"
    BY <1>4, <1>7, <2>0, Zenon DEF DeleteDSCI
  <2>2. UNCHANGED <<keptVars, initQueue, watchAdded>>
    BY <1>7 DEF DeleteDSCI
  <2> QED
    BY <1>1, <1>2, <1>3, <2>1, <2>2, WokenKeeps, Zenon DEF InitInv, Promise
<1>8. ASSUME markUninstallInProgress PROVE InitInv'
  <2>1. PutDSCI([dsci EXCEPT !.status = [dsci.status EXCEPT !.ready = "uninstall", !.phase = "NotReady"]])
    BY <1>8 DEF markUninstallInProgress, UpdateWithRetry
  <2>2. dsci'.phase = dsci.phase /\ dsciEvents \subseteq dsciEvents'
    BY <1>0, <1>4, <2>1 DEF ClusterTypeOK, DSCIState
  <2>3. UNCHANGED <<keptVars, initQueue, watchAdded>> /\ marked'
    BY <1>8, Zenon DEF markUninstallInProgress
  <2> QED
    BY <1>1, <1>2, <1>3, <2>2, <2>3, WokenKeeps, Zenon DEF InitInv, Promise
<1> USE DEF clusterVars, dsciVars, nsVars
<1>9. ASSUME NEW k \in Kinds, DeleteObject(k) PROVE InitInv'
  <2>1. ObjSeenInv' /\ MonSeenInv' /\ Woken'
    BY <1>0, <1>9, Zenon DEF DeleteObject, PutObj, ObjSeenInv, MonSeenInv, Woken, Deploys
  <2> QED
    BY <1>1, <2>1, WokenKeeps, Zenon DEF InitInv, Promise
<1>10. ASSUME DeleteMonitoring PROVE InitInv'
  <2>1. ObjSeenInv' /\ MonSeenInv'
    BY <1>0, <1>10, Zenon DEF DeleteMonitoring, PutMon, ObjSeenInv, MonSeenInv, Deploys
  <2>2. Woken' \/ dsci'.phase # "live"
    BY <1>0, <1>10, Zenon DEF DeleteMonitoring, PutMon, MonSeenInv, Woken
  <2> QED
    BY <1>1, <2>1, <2>2, WokenKeeps, Zenon DEF InitInv, Promise
<1>11. ASSUME NEW c \in {"ready", "notready"}, MonitoringReports(c) PROVE InitInv'
  <2>1. ObjSeenInv' /\ MonSeenInv'
    BY <1>0, <1>11, Zenon DEF MonitoringReports, PutMon, ObjSeenInv, MonSeenInv, Deploys
  <2>2. Undisturbed
    BY <1>11, Zenon DEF MonitoringReports, PutMon, Undisturbed, Woken
  <2> QED
    BY <1>0, <1>1, <2>1, <2>2, UndisturbedKeeps, Zenon DEF InitInv, Promise
<1>12. ASSUME CRDCreated PROVE InitInv'
  <2>1. ObjSeenInv' /\ MonSeenInv' /\ Woken'
    BY <1>0, <1>12, Zenon DEF CRDCreated, ObjSeenInv, MonSeenInv, Deploys, Woken
  <2> QED
    BY <1>1, <2>1, WokenKeeps, Zenon DEF InitInv, Promise
<1> QED
  BY <1>5, <1>6, <1>7, <1>8, <1>9, <1>10, <1>11, <1>12, Zenon DEF Users

LEMMA InitKeepsInit ==
  ASSUME TypeOK, InitInv, InitNext
  PROVE  InitInv'
<1> USE DEF keptVars, objVars, authVars, monVars
<1>0. /\ DSCISeenInv /\ ObjSeenInv /\ MonSeenInv /\ Promise
      /\ ClusterTypeOK /\ marked \in BOOLEAN /\ inst \in BOOLEAN /\ watchAdded \in BOOLEAN
      /\ crd \in {"absent", "created", "established"}
  BY Zenon DEF InitInv, Promise, TypeOK, InitTypeOK
<1>1. DSCISeenInv'
  BY <1>0, DSCISeenKeeps, InitChangesDSCI
<1>2. ASSUME NEW pc, Goto(pc), pc # "idle" PROVE initPc' = pc /\ inst' = inst
  BY <1>0, <1>2, Zenon DEF Goto
<1>3. ASSUME ObjSeenInv', MonSeenInv', Promise' PROVE InitInv'
  BY <1>1, <1>3, Zenon DEF InitInv, Promise
<1>4. ASSUME UNCHANGED keptVars PROVE ObjSeenInv'
  BY <1>0, <1>4, Zenon DEF ObjSeenInv, Deploys
<1>5. ASSUME UNCHANGED <<monVars, watchAdded, dsciEvents>>, dsci'.phase = dsci.phase,
             initQueue' = initQueue \/ initQueue' = TRUE
      PROVE  MonSeenInv'
  BY <1>0, <1>5, Zenon DEF MonSeenInv
<1>6. CASE InitSkip
  <2>1. UNCHANGED <<dsciVars, keptVars, marked>>
    BY <1>6, Zenon DEF InitSkip, clusterVars
  <2>2. dsci.phase = "live" /\ ~marked => "spec" \in dsciEvents
    BY <1>0, <1>6, Zenon DEF InitSkip, DSCISeenInv
  <2>3. Promise'
    BY <2>1, <2>2, WokenKeeps, Zenon DEF Woken, dsciVars
  <2>4. CASE dsciSeen.phase = "absent" /\ UNCHANGED watchAdded
    <3>1. dsci.phase = "live" => "spec" \in dsciEvents
      BY <1>0, <2>4, Zenon DEF DSCISeenInv
    <3>2. MonSeenInv'
      BY <1>0, <2>1, <2>4, <3>1, Zenon DEF MonSeenInv, dsciVars
    <3> QED
      BY <1>3, <1>4, <2>1, <2>3, <3>2, Zenon
  <2>5. CASE ensureMonitoringWatch
    <3>1. MonSeenInv'
      BY <1>0, <2>1, <2>5, Zenon DEF MonSeenInv, ensureMonitoringWatch, dsciVars
    <3> QED
      BY <1>3, <1>4, <2>1, <2>3, <3>1
  <2> QED
    BY <1>6, <2>4, <2>5, Zenon DEF InitSkip
<1>7. CASE InitFinalize
  <2>1. ensureMonitoringWatch /\ UNCHANGED <<crd, monSeen, objSeen, authVars, marked>>
    BY <1>7, Zenon DEF InitFinalize
  <2>2. CASE dsciSeen = dsci
    <3>0. NoDSCI.phase = "absent" /\ (PutDSCI(NoDSCI) => dsci' = NoDSCI)
      BY Zenon DEF NoDSCI, PutDSCI
    <3>1. dsci'.phase = "absent" /\ obj' = {} /\ mon' = "absent" /\ dirty' = dirty \cup {"obj", "mon"}
      BY <1>7, <2>2, <3>0, Zenon DEF InitFinalize
    <3>2. ObjSeenInv' /\ MonSeenInv'
      BY <1>0, <2>1, <3>1, Zenon DEF ObjSeenInv, MonSeenInv
    <3> QED
      BY <1>3, <3>1, <3>2, WokenKeeps
  <2>3. CASE dsciSeen # dsci
    <3>1. UNCHANGED <<dsciVars, keptVars>>
      BY <1>7, <2>1, <2>3, Zenon DEF InitFinalize
    <3>2. dsci.phase = "live" => "spec" \in dsciEvents
      BY <1>0, <1>7, Zenon DEF InitFinalize, DSCISeenInv
    <3>3. MonSeenInv'
      BY <1>0, <2>1, <3>1, Zenon DEF MonSeenInv, ensureMonitoringWatch, dsciVars
    <3>4. Promise'
      BY <3>1, <3>2, WokenKeeps, Zenon DEF Woken, dsciVars
    <3> QED
      BY <1>3, <1>4, <3>1, <3>3, <3>4, Zenon
  <2> QED
    BY <2>2, <2>3
<1>8. CASE InitBegin
  <2>1. /\ ensureMonitoringWatch /\ UNCHANGED <<keptVars, marked, lost>>
        /\ dsciSeen.phase = "live" /\ (dsciSeen.fin => ~isUninstallInProgress(dsciSeen))
    BY <1>8, Zenon DEF InitBegin
  <2>2. /\ dsci'.phase = dsci.phase /\ dsci'.mon = dsci.mon /\ dsciEvents' = dsciEvents
    <3>1. UNCHANGED dsciVars \/ PutDSCI([dsci EXCEPT !.fin = TRUE])
      BY <1>8, Zenon DEF InitBegin
    <3>2. LET d == [dsci EXCEPT !.fin = TRUE]
          IN  d.phase = dsci.phase /\ d.mon = dsci.mon /\ d.bundle = dsci.bundle
      BY <1>0 DEF ClusterTypeOK, DSCIState
    <3> QED
      BY <3>1, <3>2, Zenon DEF PutDSCI, dsciVars
  <2>3. MonSeenInv'
    BY <1>0, <2>1, <2>2, Zenon DEF MonSeenInv, ensureMonitoringWatch
  <2>4. CASE ~(dsciSeen.fin \/ dsciSeen = dsci)
    <3>1. initQueue' = TRUE
      BY <1>8, <2>4 DEF InitBegin
    <3> QED
      BY <1>3, <1>4, <2>1, <2>3, <3>1, WokenKeeps, Zenon DEF Woken
  <2>5. CASE isUninstallInProgress(dsciSeen)
    <3>1. dsci.phase = "live" /\ ~marked => "spec" \in dsciEvents
      BY <1>0, <2>5, Zenon DEF DSCISeenInv
    <3>2. Promise'
      BY <2>1, <2>2, <3>1, WokenKeeps, Zenon DEF Woken
    <3> QED
      BY <1>3, <1>4, <2>1, <2>3, <3>2, Zenon
  <2>6. CASE (dsciSeen.fin \/ dsciSeen = dsci) /\ ~isUninstallInProgress(dsciSeen)
    <3>1. initPc' \in {"progress", "appNs"}
      BY <1>8, <2>6, StepNames, Zenon DEF InitBegin
    <3>2. inst' = (dsciSeen.mon /\ initPc' # "idle")
      BY <1>8, <2>6, Zenon DEF InitBegin
    <3>3. inst' = dsciSeen.mon
      BY <1>0, <3>1, <3>2, Zenon DEF ClusterTypeOK, DSCIState
    <3>4. "spec" \in dsciEvents \/ dsciSeen.mon = dsci.mon
      BY <1>0, Zenon DEF DSCISeenInv
    <3>5. Woken' \/ Achieved'
      BY <2>2, <3>1, <3>3, <3>4, Zenon DEF Woken, Achieved
    <3> QED
      BY <1>3, <1>4, <2>1, <2>3, <3>5, Zenon DEF Promise
  <2> QED
    BY <2>4, <2>5, <2>6, Zenon
<1>9. ASSUME initPc \in {"progress", "appNs", "monNs"}, initPc' \in {"appNs", "monNs", "NetworkPolicy"},
             inst' = inst, UNCHANGED <<keptVars, watchAdded, lost, marked, dsciEvents, initQueue>>,
             dsci'.phase = dsci.phase, dsci'.mon = dsci.mon
      PROVE  InitInv'
  <2>1. Woken => Woken'
    BY <1>9, Zenon DEF Woken
  <2>2. Achieved => Achieved'
    BY <1>9, Zenon DEF Achieved
  <2> QED
    BY <1>0, <1>3, <1>4, <1>5, <1>9, <2>1, <2>2, Zenon DEF Promise
<1>10. ASSUME OperatorResourceFails, UNCHANGED <<keptVars, watchAdded, marked>> PROVE InitInv'
  <2>1. dsci'.phase = dsci.phase /\ UNCHANGED dsciEvents /\ initQueue' = TRUE
    BY <1>0, <1>10, OperatorFails, Zenon
  <2> QED
    BY <1>3, <1>4, <1>5, <1>10, <2>1, WokenKeeps, Zenon DEF Woken
<1>11. CASE InitProgress
  <2>1. CASE GivesUp /\ InitError /\ UNCHANGED dsciVars
    <3>1. initQueue' = TRUE /\ UNCHANGED <<dsciVars, keptVars, watchAdded>>
      BY <1>11, <2>1 DEF InitProgress, InitError
    <3> QED
      BY <1>3, <1>4, <1>5, <3>1, WokenKeeps, Zenon DEF Woken, dsciVars
  <2>2. CASE /\ UpdateWithRetry([dsci.status EXCEPT !.phase = "Progressing"])
             /\ Goto(Steps[1]) /\ UNCHANGED initQueue
    <3>1. /\ [dsci.status EXCEPT !.phase = "Progressing"] \in DSCIStatus
          /\ [dsci.status EXCEPT !.phase = "Progressing"].ready = dsci.status.ready
      BY <1>0, StatusTypes, StatusReady, Zenon
    <3>2. UNCHANGED <<keptVars, watchAdded, lost, marked>> /\ initPc = "progress"
      BY <1>11 DEF InitProgress
    <3>3. /\ dsci' = [dsci EXCEPT !.status = [dsci.status EXCEPT !.phase = "Progressing"]]
          /\ UNCHANGED dsciEvents
      BY <1>0, <2>2, <3>1, <3>2, StatusChange, Zenon
    <3>4. dsci'.phase = dsci.phase /\ dsci'.mon = dsci.mon
      BY <1>0, <3>3 DEF ClusterTypeOK, DSCIState
    <3> QED
      BY <1>2, <1>9, <2>2, <3>2, <3>3, <3>4, StepNames
  <2> QED
    BY <1>11, <2>1, <2>2, Zenon DEF InitProgress
<1>12. CASE appNamespaceHandler
  <2>1. CASE Goto(After("appNs")) /\ UNCHANGED <<dsciVars, initQueue>>
    BY <1>2, <1>9, <1>12, <2>1, StepNames, Zenon DEF appNamespaceHandler, dsciVars
  <2> QED
    BY <1>10, <1>12, <2>1, Zenon DEF appNamespaceHandler
<1>13. CASE PatchMonitoringNS
  <2>1. CASE Goto(After("monNs")) /\ UNCHANGED <<dsciVars, initQueue>>
    BY <1>2, <1>9, <1>13, <2>1, StepNames, Zenon DEF PatchMonitoringNS, dsciVars
  <2> QED
    BY <1>10, <1>13, <2>1, Zenon DEF PatchMonitoringNS
<1>14. CASE ReconcileDefaultNetworkPolicy
  <2>1. CASE /\ ns[AppNs].phase = "active" /\ PutObj(obj \cup {"NetworkPolicy"})
             /\ Goto(After("NetworkPolicy")) /\ UNCHANGED <<dsciVars, initQueue>>
    <3>1. /\ initPc' = "objects" /\ inst' = inst /\ initPc = "NetworkPolicy"
          /\ UNCHANGED <<ns, dsciVars, initQueue, watchAdded, marked, authVars, monVars, objSeen>>
      BY <1>2, <1>14, <2>1, StepNames, Zenon DEF ReconcileDefaultNetworkPolicy, PutObj, nsVars
    <3>2. obj' = obj \cup {"NetworkPolicy"} /\ dirty \subseteq dirty'
      BY <2>1, Zenon DEF PutObj
    <3>3. ObjSeenInv'
      BY <1>0, <3>1, <3>2, Zenon DEF ObjSeenInv, Deploys
    <3>4. MonSeenInv'
      BY <1>5, <3>1, Zenon DEF dsciVars
    <3>5. Woken => Woken'
      BY <3>1, <3>2, Zenon DEF Woken, dsciVars
    <3>6. Achieved => Achieved'
      BY <2>1, <3>1, <3>2, Zenon DEF Achieved, dsciVars
    <3> QED
      BY <1>0, <1>3, <3>1, <3>3, <3>4, <3>5, <3>6, Zenon DEF Promise, dsciVars
  <2> QED
    BY <1>10, <1>14, <2>1, Zenon DEF ReconcileDefaultNetworkPolicy
<1>15. CASE CreateObjects
  <2>0. UNCHANGED <<ns, dsciVars, watchAdded, lost, marked, monVars>> /\ initPc = "objects"
    BY <1>15, Zenon DEF CreateObjects, clusterVars, nsVars
  <2> DEFINE fails(k) == Missing(k) /\ ns[AppNs].phase # "active"
  <2>1. CASE fails("Config")
    <3>1. UNCHANGED keptVars /\ initQueue' = TRUE
      BY <1>15, <2>0, <2>1, Zenon DEF CreateObjects, InitError
    <3> QED
      BY <1>3, <1>4, <1>5, <2>0, <3>1, WokenKeeps, Zenon DEF Woken, dsciVars
  <2>2. CASE ~fails("Config")
    <3>1. /\ auth' = CreateAuth /\ UNCHANGED <<objSeen, authSeen>>
          /\ obj' = obj \cup {k \in {"Config"} : Missing(k)} \cup CreateGatewayConfig
                        \cup IF fails("HardwareProfile") THEN {}
                             ELSE ManageDefaultAndCustomHWProfileCR
          /\ dirty' = dirty \cup IF auth' # auth THEN {"auth"} ELSE {}
          /\ IF fails("HardwareProfile") THEN InitError
             ELSE Goto(After("objects")) /\ UNCHANGED initQueue
      BY <1>15, <2>2, Zenon DEF CreateObjects
    <3>2. ObjSeenInv'
      <4>1. obj \subseteq obj' /\ dirty \subseteq dirty' /\ \A k \in obj' \ obj : Deploys(k)
        BY <3>1, Zenon DEF CreateGatewayConfig, ManageDefaultAndCustomHWProfileCR, Missing, Deploys
      <4>2. auth' # auth => "auth" \in dirty'
        BY <3>1, Zenon
      <4> QED
        BY <1>0, <3>1, <4>1, <4>2, Zenon DEF ObjSeenInv, Deploys
    <3>3. initQueue' = initQueue \/ initQueue' = TRUE
      BY <3>1, Zenon DEF InitError
    <3>4. MonSeenInv'
      BY <1>5, <2>0, <3>3, Zenon DEF dsciVars
    <3>5. CASE fails("HardwareProfile")
      <4>1. Woken'
        BY <3>1, <3>5, Zenon DEF InitError, Woken
      <4> QED
        BY <1>3, <3>2, <3>4, <4>1, WokenKeeps, SMT, SMTT(60)
    <3>6. CASE ~fails("HardwareProfile")
      <4>1. initPc' = "modules" /\ inst' = inst /\ UNCHANGED initQueue /\ dirty \subseteq dirty'
        BY <1>2, <3>1, <3>6, StepNames, Zenon
      <4>2. Woken => Woken'
        BY <2>0, <4>1, Zenon DEF Woken, dsciVars
      <4>3. auth' # {} \/ "auth" \in dirty'
        BY <1>0, <3>1, <4>1, Zenon DEF CreateAuth, ObjSeenInv
      <4>4. ASSUME "obj" \notin dirty, "NetworkPolicy" \in obj
            PROVE  {k \in Kinds : Deploys(k)} \subseteq obj'
        <5>1. objSeen \subseteq obj
          BY <1>0, <4>4, Zenon DEF ObjSeenInv
        <5>2. "NetworkPolicy" \in obj' /\ "GatewayConfig" \in obj'
          BY <3>1, <4>4, <5>1, Zenon DEF CreateGatewayConfig
        <5>3. Deploys("Config") => "Config" \in obj'
          BY <3>1, <5>1, Zenon DEF Missing
        <5>4. Deploys("HardwareProfile") => "HardwareProfile" \in obj'
          BY <3>1, <3>6, <5>1, Zenon DEF Missing, ManageDefaultAndCustomHWProfileCR
        <5> QED
          BY <5>2, <5>3, <5>4 DEF Kinds
      <4>5. Achieved /\ ~Woken => Achieved'
        BY <2>0, <3>1, <4>1, <4>3, <4>4, Zenon DEF Achieved, Woken, dsciVars, Deploys
      <4> QED
        BY <1>0, <1>3, <2>0, <3>2, <3>4, <4>2, <4>5, Zenon DEF Promise, dsciVars
    <3> QED
      BY <3>5, <3>6, Zenon
  <2> QED
    BY <2>1, <2>2, SMT, SMTT(60)
<1>16. CASE reconcileDSCIModules
  <2>1. /\ initPc = "modules" /\ initPc' = "finish" /\ inst' = inst
        /\ UNCHANGED <<ns, dsciVars, initQueue, watchAdded, marked, objVars, authVars, crd, monSeen>>
    BY <1>2, <1>16, StepNames, Zenon DEF reconcileDSCIModules, PutMon, clusterVars, nsVars
  <2>2. /\ mon' = IF ~inst THEN "absent"
                  ELSE IF crd = "established" /\ mon = "absent" THEN "init" ELSE mon
        /\ dirty \subseteq dirty'
    BY <1>16, Zenon DEF reconcileDSCIModules, PutMon
  <2>3. ObjSeenInv'
    BY <1>0, <2>1, <2>2, Zenon DEF ObjSeenInv, Deploys
  <2>4. MonSeenInv'
    BY <1>0, <2>1, <2>2, Zenon DEF MonSeenInv, dsciVars
  <2>5. Woken => Woken'
    BY <2>1, <2>2, Zenon DEF Woken, dsciVars
  <2>6. inst /\ crd = "established" <=> mon' # "absent"
    BY <1>0, <2>2 DEF MonSeenInv
  <2>7. Achieved => Achieved'
    BY <2>1, <2>2, <2>6, Zenon DEF Achieved, dsciVars, Deploys
  <2> QED
    BY <1>0, <1>3, <2>1, <2>3, <2>4, <2>5, <2>7, Zenon DEF Promise, dsciVars
<1>17. CASE InitFinish
  <2>1. /\ initPc = "finish" /\ initPc' = "idle"
        /\ UNCHANGED <<ns, initQueue, watchAdded, marked, keptVars>>
    BY <1>17 DEF InitFinish, Goto, nsVars
  <2>2. CASE /\ UpdateWithRetry([CopyMonitoring(dsci.status) EXCEPT !.phase = "Ready"])
             /\ lost' = FALSE
    <3> DEFINE st == [CopyMonitoring(dsci.status) EXCEPT !.phase = "Ready"]
    <3>1. st \in DSCIStatus /\ (st.ready = "uninstall" => dsci.status.ready = "uninstall") /\ st.phase = "Ready"
      BY <1>0, StatusTypes, StatusReady, Zenon
    <3> DEFINE reported == IF monSeen = "absent" THEN "Removed"
                           ELSE IF monSeen = "init" THEN "Initializing" ELSE "Ready"
    <3>2. st.monitoring = reported
      <4>1. dsci.status \in DSCIStatus
        BY <1>0, SMT, SMTT(60) DEF ClusterTypeOK, DSCIState
      <4> QED
        BY <4>1, Zenon DEF CopyMonitoring, DSCIStatus
    <3> HIDE DEF st
    <3>3. dsci' = [dsci EXCEPT !.status = st] /\ UNCHANGED dsciEvents
      BY <1>0, <2>1, <2>2, <3>1, StatusChange, Zenon DEF st
    <3>4. /\ dsci'.phase = dsci.phase /\ dsci'.mon = dsci.mon /\ dsci'.status = st
      BY <1>0, <3>3 DEF ClusterTypeOK, DSCIState
    <3>5. Woken => Woken'
      BY <2>1, <3>3 DEF Woken
    <3>6. CopyMonitoring(dsci.status)'.monitoring = st.monitoring
      BY <2>1, <3>1, <3>2, <3>4, Zenon DEF CopyMonitoring, DSCIStatus
    <3>7. Achieved => Achieved'
      BY <2>1, <3>1, <3>4, <3>6, Zenon DEF Achieved, Deploys
    <3> QED
      BY <1>0, <1>3, <1>4, <1>5, <2>1, <3>3, <3>4, <3>5, <3>7 DEF Promise
  <2>3. CASE lost' = TRUE /\ UNCHANGED dsciVars
    <3>1. Woken => Woken'
      BY <2>1, <2>3, Zenon DEF Woken, dsciVars
    <3>2. Achieved => Achieved'
      BY <2>1, <2>3, Zenon DEF Achieved, Deploys, dsciVars
    <3> QED
      BY <1>0, <1>3, <1>4, <1>5, <2>1, <2>3, <3>1, <3>2, Zenon DEF Promise, dsciVars
  <2> QED
    BY <1>17, <2>2, <2>3, Zenon DEF InitFinish
<1> QED
  BY <1>6, <1>7, <1>8, <1>11, <1>12, <1>13, <1>14, <1>15, <1>16, <1>17 DEF InitNext

LEMMA InitStep ==
  ASSUME TypeOK, InitInv, [Next]_servVars, "init" \in running
  PROVE  InitInv'
<1>0. ClusterTypeOK /\ AppNs \in Namespaces
  BY NamespacesAssumption, Zenon DEF TypeOK
<1>1. ASSUME UNCHANGED <<initCtl, keptVars, dsciVars, ns>> PROVE InitInv'
  BY <1>1, OthersKeep, Zenon
<1> USE DEF initVars, clusterVars, nsVars
<1>2. CASE UNCHANGED servVars
  BY <1>1, <1>2, Zenon DEF servVars
<1>3. CASE Users
  BY <1>3, UsersKeepInit, Zenon
<1>4. CASE AuthUsers
  <2>1. ASSUME NEW A, PutAuth(A), A # auth, UNCHANGED <<clusterVars, initCtl, objVars, monVars>>
        PROVE  InitInv'
    <3>1. /\ UNCHANGED <<ns, dsci, dsciSeen, dsciEvents, initQueue, initPc, inst, watchAdded, lost, marked,
                         obj, objSeen, authSeen, crd, mon, monSeen>>
          /\ dirty' = dirty \cup {"auth"}
      BY <2>1, Zenon DEF PutAuth, dsciVars, initCtl, objVars, monVars
    <3>2. DSCISeenInv' /\ ObjSeenInv' /\ MonSeenInv'
      BY <3>1, Zenon DEF InitInv, DSCISeenInv, ObjSeenInv, MonSeenInv, isUninstallInProgress, Deploys
    <3>3. Undisturbed
      BY <3>1, Zenon DEF Undisturbed, Woken
    <3> QED
      BY <3>2, <3>3, UndisturbedKeeps, Zenon DEF InitInv, Promise
  <2>2. ASSUME NEW a \in AuthSpec, EditAuth(a) PROVE InitInv'
    BY <2>1, <2>2, Zenon DEF EditAuth
  <2>3. ASSUME DeleteAuth PROVE InitInv'
    BY <2>1, <2>3, Zenon DEF DeleteAuth
  <2>4. ASSUME NEW t \in Targets, NEW b \in {{}, {{}}}, EditBinding(t, b) PROVE InitInv'
    BY <1>1, <2>4, SMT, SMTT(60) DEF EditBinding
  <2> QED
    BY <1>4, <2>2, <2>3, <2>4, Zenon DEF AuthUsers
<1>5. CASE InitNext
  BY <1>5, InitKeepsInit
<1>6. CASE AuthBegin \/ AuthDeploy \/ SeesBindings
  BY <1>1, <1>6, Zenon DEF AuthBegin, AuthDeploy, SeesBindings
<1>7. CASE (CABegin \/ CAWrite \/ CAFail) /\ UNCHANGED <<initVars, roleVars, running>>
  <2>1. UNCHANGED <<ns, dsciVars>>
    BY <1>7 DEF CABegin, CAWrite, CAFail
  <2> QED
    BY <1>1, <1>7, <2>1
<1>8. CASE SeesDSCI \/ SeesObjects \/ SeesMonitoring \/ CRDEstablished \/ SeesAuth \/ Restart
  BY <1>8, CachesKeepInit
<1>9. ASSUME NEW n \in Namespaces, SeesNamespace(n) \/ SeesConfigMap(n) \/ EditConfigMap(n)
      PROVE  InitInv'
  BY <1>1, <1>9, Zenon DEF SeesNamespace, CacheNamespace, SeesConfigMap, CASeesConfigMap, EditConfigMap
<1>10. ASSUME NEW n \in Namespaces, CreateNamespace(n) \/ NamespaceGone(n) \/ EditNamespace(n)
       PROVE  InitInv'
  <2>1. UNCHANGED <<initCtl, keptVars, dsciVars>>
    BY <1>10 DEF CreateNamespace, NamespaceGone, EditNamespace
  <2>2. ASSUME NEW v, ns' = [ns EXCEPT ![n] = v], ns[n].phase = "active" => v.phase = "active"
        PROVE  ns[AppNs].phase = "active" => ns'[AppNs].phase = "active"
    BY <1>0, <2>2 DEF ClusterTypeOK
  <2>3. NewNs.phase = "active"
    BY DEF NewNs, NoNs
  <2>4. \A v \in {[ns[n] EXCEPT !.custom = ~@], [ns[n] EXCEPT !.psa = "elevated"],
                  [ns[n] EXCEPT !.optout = ~@]} : v.phase = ns[n].phase
    BY <1>0, Zenon DEF ClusterTypeOK, NsState
  <2>5. ns[AppNs].phase = "active" => ns'[AppNs].phase = "active"
    <3>1. CASE CreateNamespace(n)
      BY <2>2, <2>3, <3>1, Zenon DEF CreateNamespace, Put
    <3>2. CASE NamespaceGone(n)
      BY <2>2, <3>2, Zenon DEF NamespaceGone, Put
    <3>3. CASE EditNamespace(n)
      <4>1. \E v \in {[ns[n] EXCEPT !.custom = ~@], [ns[n] EXCEPT !.psa = "elevated"],
                      [ns[n] EXCEPT !.optout = ~@]} : ns' = [ns EXCEPT ![n] = v]
        BY <3>3, Zenon DEF EditNamespace, Put
      <4> QED
        BY <2>2, <2>4, <4>1, Zenon
    <3> QED
      BY <1>10, <3>1, <3>2, <3>3, Zenon
  <2> QED
    BY <2>1, <2>5, OthersKeep, Zenon
<1>11. ASSUME NEW n \in Namespaces, DeleteNamespace(n) PROVE InitInv'
  <2>1. /\ UNCHANGED <<dsci, dsciSeen, dsciEvents, initQueue, initPc, inst, watchAdded, lost, marked,
                       objSeen, auth, authSeen, crd, mon, monSeen>>
        /\ obj' = (IF n = AppNs THEN obj \ InAppNs ELSE obj)
        /\ dirty' = IF obj \ obj' # {} \/ "NetworkPolicy" \in obj' \ obj THEN dirty \cup {"obj"} ELSE dirty
        /\ ns' = [ns EXCEPT ![n] = [ns[n] EXCEPT !.phase = "terminating"]]
    BY <1>11 DEF DeleteNamespace, Put, PutObj, dsciVars, initCtl, authVars, monVars
  <2>2. DSCISeenInv' /\ ObjSeenInv' /\ MonSeenInv'
    BY <2>1 DEF InitInv, DSCISeenInv, ObjSeenInv, MonSeenInv, isUninstallInProgress, Deploys
  <2>3. CASE obj' = obj /\ n # AppNs
    <3>1. Undisturbed
      BY <1>0, <2>1, <2>3 DEF Undisturbed, Woken, ClusterTypeOK
    <3> QED
      BY <2>2, <3>1, UndisturbedKeeps, SMT, SMTT(60) DEF InitInv, Promise
  <2>4. CASE obj' # obj
    BY <2>1, <2>2, <2>4, WokenKeeps DEF Woken, InitInv, Promise
  <2>5. CASE obj' = obj /\ n = AppNs
    <3>1. "NetworkPolicy" \notin obj
      BY <2>1, <2>5 DEF InAppNs, Kinds
    <3>2. Woken => Woken'
      BY <2>1 DEF Woken
    <3>3. Achieved => Achieved'
      BY <2>1, <3>1, StepNames, Zenon DEF Achieved, TypeOK, InitTypeOK
    <3> QED
      BY <2>1, <2>2, <3>2, <3>3 DEF InitInv
  <2> QED
    BY <2>1, <2>3, <2>4, <2>5
<1> QED
  BY <1>2, <1>3, <1>4, <1>5, <1>6, <1>7, <1>8, <1>9, <1>10, <1>11, Zenon DEF Next, Controllers, Caches

LEMMA InitInvSettles == TypeOK /\ InitInv => InitSettles
<1> SUFFICES ASSUME TypeOK, InitInv, InitAtRest, dsci.phase = "live", ~marked PROVE Initialized
  BY DEF InitSettles
<1>1. ~Woken /\ initPc = "idle" /\ dirty = {}
  BY DEF Woken, InitAtRest
<1>2. Achieved
  BY <1>1, Zenon DEF InitInv
<1>3. obj \subseteq {k \in Kinds : Deploys(k)}
  BY Zenon DEF InitInv, ObjSeenInv, TypeOK, InitTypeOK
<1>4. obj = {k \in Kinds : Deploys(k)} /\ auth # {} /\ ns[AppNs].phase = "active"
  BY <1>1, <1>2, <1>3, Zenon DEF Achieved
<1> QED
  BY <1>1, <1>2, <1>4, Zenon DEF Achieved, Initialized

(* SettledTogether: in every combination of the controllers, for any sets of
   namespaces, groups and certificates and any number of edits and restarts,
   each controller that has nothing left to do has done what its module says:
   the DSCI controller's objects, Monitoring CR and status, the Auth
   controller's bindings and the trusted-CA controller's ConfigMaps. *)
THEOREM SettledTogether == Spec => []ServicesSettled
<1>1. Init => ServInitInv
  <2>1. NoDSCI.phase = "absent" /\ NoDSCI.status.ready = "none"
    BY Zenon DEF NoDSCI
  <2> QED
    BY <2>1, Zenon DEF Init, CAInit, ClusterInit0, ServInitInv, InitInv, DSCISeenInv, ObjSeenInv, MonSeenInv,
                isUninstallInProgress
<1>2. TypeOK /\ ServInitInv /\ [Next]_servVars => ServInitInv'
  BY RunningConstant, InitStep DEF ServInitInv
<1>3. TypeOK /\ ServInitInv => ("init" \in running => InitSettles)
  BY InitInvSettles DEF ServInitInv
<1>4. ("init" \in running => InitSettles) /\ ("auth" \in running => RolesSettle)
        /\ ("ca" \in running => BundlesSettle) => ServicesSettled
  BY DEF ServicesSettled
<1> QED
  BY <1>1, <1>2, <1>3, <1>4, TypesHold, RolesSettleTogether, BundlesSettleTogether, PTL DEF Spec
=============================================================================
