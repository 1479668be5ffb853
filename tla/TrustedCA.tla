----------------------------- MODULE TrustedCA -----------------------------
(***************************************************************************)
(* The cert-configmap-generator controller: it keeps, in every active      *)
(* namespace that is not reserved, the odh-trusted-ca-bundle ConfigMap     *)
(* that the DSCI's spec.trustedCABundle asks for.  One worker takes a      *)
(* namespace from the queue, reads the namespace and the DSCI from the     *)
(* shared cache, and then applies or deletes the ConfigMap with a client   *)
(* that does not cache ConfigMaps: between the two steps anything can      *)
(* happen.                                                                 *)
(***************************************************************************)
EXTENDS ClusterState

VARIABLES caQueue,   \* requests: names of namespaces
          caWork     \* the reconcile in progress: {} or {[n, op]}

caVars == <<caQueue, caWork>>

CATypeOK ==
  /\ caQueue \subseteq Namespaces
  /\ caWork \subseteq [n : Namespaces, op : {"keep", "delete"} \cup CAs]
  /\ \A w, x \in caWork : w = x

ShouldInjectTrustedCABundle(x) == ~x.optout

(* What Reconcile does to a namespace x of name n when the DSCI is d *)
Decision(n, x, d) ==
  IF ~IsActiveNamespace(x) \/ IsReservedNamespace(n) \/ d.phase = "absent" THEN "keep"
  ELSE IF d.bundle = "nil" \/ ~ShouldInjectTrustedCABundle(x) \/ d.bundle = "Removed"
       THEN "delete"
  ELSE IF d.bundle = "Unmanaged" THEN "keep" ELSE d.bundle

(* A request of the queue starts: the namespace and the DSCI are read *)
CABegin ==
  /\ caWork = {}
  /\ \E n \in caQueue :
       /\ caQueue' = caQueue \ {n}
       /\ caWork' = {[n |-> n, op |-> Decision(n, nsSeen[n], dsciSeen)]}
  /\ UNCHANGED clusterVars

CreateOdhTrustedCABundleConfigMap(n, ca) == PutConfigMap(n, ca)

DeleteOdhTrustedCABundleConfigMap(n) == PutConfigMap(n, "none")

(* The write succeeds; a ConfigMap cannot be applied in a namespace that is
   gone or on its way out. *)
CAWrite ==
  \E w \in caWork :
    /\ caWork' = {}
    /\ CASE w.op = "keep"   -> UNCHANGED <<cm, cmDirty>>
         [] w.op = "delete" -> DeleteOdhTrustedCABundleConfigMap(w.n)
         [] OTHER           -> /\ ns[w.n].phase = "active"
                               /\ CreateOdhTrustedCABundleConfigMap(w.n, w.op)
    /\ UNCHANGED <<ns, nsSeen, nsDirty, dsciVars, caQueue>>

(* The write fails: Reconcile returns the error and the request comes back *)
CAFail ==
  \E w \in caWork :
    /\ w.op # "keep"
    /\ caWork' = {} /\ caQueue' = caQueue \cup {w.n}
    /\ UNCHANGED clusterVars

(* The requests that an event of namespace n, or of the DSCI, enqueues;
   dsciEventHandler lists every namespace of the cache. *)
NamespaceRequests(n) == {n} \cap nsDirty

(* Mutant: only namespaces that hold a ConfigMap already are told *)
dsciHandlerForHolders ==
  IF "bundle" \in dsciEvents THEN {n \in Namespaces : cm[n] # "none"} ELSE {}

dsciEventHandler ==
  IF "bundle" \in dsciEvents THEN {n \in Namespaces : nsSeen[n].phase # "absent"} ELSE {}

CASeesNamespace(n) ==
  /\ CacheNamespace(n) /\ caQueue' = caQueue \cup NamespaceRequests(n)
  /\ UNCHANGED <<dsciVars, caWork>>

CASeesDSCI ==
  /\ CacheDSCI /\ caQueue' = caQueue \cup dsciEventHandler
  /\ UNCHANGED <<nsVars, caWork>>

CASeesConfigMap(n) ==
  /\ n \in cmDirty /\ cmDirty' = cmDirty \ {n}
  /\ caQueue' = caQueue \cup {n}
  /\ UNCHANGED <<ns, nsSeen, nsDirty, cm, dsciVars, caWork>>

(* The operator restarts: the queue and the worker are lost, the caches are
   listed anew and every object counts as created. *)
CARestart ==
  /\ nsSeen' = ns /\ nsDirty' = {} /\ cmDirty' = {}
  /\ dsciSeen' = dsci /\ dsciEvents' = {}
  /\ caQueue' = {n \in Namespaces : ns[n].phase # "absent"} /\ caWork' = {}
  /\ UNCHANGED <<ns, cm, dsci>>

(* Anyone else: users, the namespace controller, the DSCI controller *)
CAEnvironment ==
  /\ \/ \E n \in Namespaces, v \in NsState :
          /\ ns[n].phase = "terminating" => v.phase # "active"
          /\ Put(n, v) /\ UNCHANGED dsciVars
     \/ \E d \in DSCIState : PutDSCI(d) /\ UNCHANGED nsVars
     \/ \E n \in Namespaces, c \in {"none", "edited"} :
          /\ cm[n] # "none" /\ PutConfigMap(n, c)
          /\ UNCHANGED <<ns, nsSeen, nsDirty, dsciVars>>
     \/ \E n \in Namespaces :
          /\ ns[n].phase = "active" /\ cm[n] = "none" /\ PutConfigMap(n, "foreign")
          /\ UNCHANGED <<ns, nsSeen, nsDirty, dsciVars>>
  /\ UNCHANGED caVars

CANext ==
  \/ CABegin \/ CAWrite \/ CAFail \/ CASeesDSCI \/ CARestart \/ CAEnvironment
  \/ \E n \in Namespaces : CASeesNamespace(n) \/ CASeesConfigMap(n)

CAInit == ClusterInit0 /\ caQueue = {} /\ caWork = {}

CASpec == CAInit /\ [][CANext]_<<clusterVars, caVars>>

(* What the ConfigMap of namespace n may be once the controller is done *)
Wanted(n) ==
  CASE Decision(n, ns[n], dsci) = "keep"   -> ConfigMaps
    [] Decision(n, ns[n], dsci) = "delete" -> {"none", "foreign"}
    [] OTHER                               -> {Decision(n, ns[n], dsci)}

CAAtRest ==
  /\ caQueue = {} /\ caWork = {} /\ nsDirty = {} /\ cmDirty = {} /\ dsciEvents = {}

(* BundlesSettle: whenever the controller has nothing left to do, every active
   namespace holds exactly the bundle that the DSCI asks for, or none where it
   is refused.  No order of namespace creations, opt-outs, DSCI changes, edits
   of the ConfigMap, failed writes and restarts leaves a namespace with a stale
   bundle that nothing will correct. *)
BundlesSettle == CAAtRest => \A n \in Namespaces : cm[n] \in Wanted(n)
=============================================================================
