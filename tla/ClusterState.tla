---------------------------- MODULE ClusterState ----------------------------
(***************************************************************************)
(* The part of the cluster that the platform services share: namespaces    *)
(* with the trusted-CA ConfigMap they hold, the DSCInitialization (DSCI),  *)
(* and the manager's informer caches of both.  A controller reads a cache  *)
(* and writes the API server, so `ns` and `dsci` are what the server holds *)
(* and `nsSeen` and `dsciSeen` what the controllers see.  The events that  *)
(* have not reached the caches yet are kept by what the watch predicates   *)
(* tell apart.                                                             *)
(***************************************************************************)
EXTENDS Naturals

CONSTANTS Namespaces,    \* namespaces of the cluster
          Reserved,      \* openshift-*, kube-*, default, openshift
          CAs,           \* custom CA bundles a DSCI can carry
          AppNs,         \* spec.applicationsNamespace
          MonNs,         \* spec.monitoring.namespace
          OptionalNs     \* models-as-a-service, kuadrant-system

ASSUME NamespacesAssumption ==
  /\ Reserved \subseteq Namespaces /\ OptionalNs \subseteq Namespaces
  /\ {AppNs, MonNs} \subseteq Namespaces
  /\ CAs \cap {"nil", "Removed", "Unmanaged", "none", "edited", "foreign",
              "keep", "delete"} = {}

VARIABLES ns, nsSeen,    \* namespaces, and the shared cache of them
          nsDirty,       \* create, delete and annotation events on their way
          cm,            \* odh-trusted-ca-bundle of each namespace
          cmDirty,       \* events of the label-filtered ConfigMap cache
          dsci, dsciSeen,
          dsciEvents     \* "spec" and "bundle" events on their way

nsVars == <<ns, nsSeen, nsDirty, cm, cmDirty>>
dsciVars == <<dsci, dsciSeen, dsciEvents>>
clusterVars == <<nsVars, dsciVars>>

(* An object that is there or not is a set of at most one *)
AtMostOne(S) == \A x, y \in S : x = y

(* spec.trustedCABundle: absent, or its managementState and certificate *)
Bundles == {"nil", "Removed", "Unmanaged"} \cup CAs

ConfigMaps == {"none", "foreign", "edited"} \cup CAs

PSA == {"none", "baseline", "elevated"}

NsState == [phase  : {"absent", "active", "terminating"},
            optout : BOOLEAN,      \* inject-trusted-ca-bundle parses as false
            custom : BOOLEAN,      \* application-namespace=true
            owned  : BOOLEAN,      \* the operator may delete it at uninstall
            psa    : PSA]

NoNs == [phase |-> "absent", optout |-> FALSE, custom |-> FALSE,
         owned |-> FALSE, psa |-> "none"]

NewNs == [NoNs EXCEPT !.phase = "active"]

(* The three conditions of the status that the properties tell apart:
   `ready` is the Ready condition, which both the uninstall mark and the copy
   of Monitoring's own Ready condition write. *)
DSCIStatus == [phase      : {"", "Progressing", "Error", "Ready", "NotReady"},
               ready      : {"none", "uninstall", "true", "false"},
               monitoring : {"none", "Removed", "Initializing", "Ready"}]

DSCIState == [phase  : {"absent", "live", "deleting"},
              fin    : BOOLEAN,
              bundle : Bundles,
              mon    : BOOLEAN,      \* spec.monitoring.managementState = Managed
              status : DSCIStatus]

NoDSCI == [phase |-> "absent", fin |-> FALSE, bundle |-> "nil", mon |-> FALSE,
           status |-> [phase |-> "", ready |-> "none", monitoring |-> "none"]]

(* pkg/cluster/cluster_config.go *)
IsActiveNamespace(x) == x.phase = "active"

IsReservedNamespace(n) == n \in Reserved

(* pkg/cluster/resources.go: a terminating namespace does not count *)
NamespaceExists(x) == x.phase = "active"

(* One write of namespace n.  The AnnotationChanged predicate lets creations,
   deletions and changes of the annotation through; the content of a namespace
   that starts to terminate is deleted with it. *)
Put(n, v) ==
  /\ ns' = [ns EXCEPT ![n] = v]
  /\ nsDirty' = IF \/ (ns[n].phase = "absent") # (v.phase = "absent")
                   \/ ns[n].optout # v.optout
                THEN nsDirty \cup {n} ELSE nsDirty
  /\ IF v.phase # "active" /\ cm[n] # "none"
     THEN /\ cm' = [cm EXCEPT ![n] = "none"]
          /\ cmDirty' = IF cm[n] = "foreign" THEN cmDirty ELSE cmDirty \cup {n}
     ELSE UNCHANGED <<cm, cmDirty>>
  /\ UNCHANGED nsSeen

(* One write of the DSCI: "spec" stands for an event that the generation
   predicate lets through, "bundle" for one that dsciPredicates does. *)
PutDSCI(d) ==
  /\ dsci' = d
  /\ dsciEvents' = dsciEvents
       \cup (IF <<dsci.phase, dsci.bundle, dsci.mon>> # <<d.phase, d.bundle, d.mon>>
             THEN {"spec"} ELSE {})
       \cup (IF d.phase # "absent" /\ (dsci.phase = "absent" \/ dsci.bundle # d.bundle)
             THEN {"bundle"} ELSE {})
  /\ UNCHANGED dsciSeen

(* One write of the ConfigMap of namespace n.  A write that changes nothing has
   no event, and the cache ignores a ConfigMap without the operator's label. *)
PutConfigMap(n, c) ==
  /\ cm' = [cm EXCEPT ![n] = c]
  /\ cmDirty' = IF c = cm[n] \/ {cm[n], c} \subseteq {"none", "foreign"} THEN cmDirty
                ELSE cmDirty \cup {n}

(* The shared cache catches up with a namespace, with the DSCI *)
CacheNamespace(n) ==
  /\ nsSeen' = [nsSeen EXCEPT ![n] = ns[n]] /\ nsDirty' = nsDirty \ {n}
  /\ UNCHANGED <<ns, cm, cmDirty>>

CacheDSCI == dsciSeen' = dsci /\ dsciEvents' = {} /\ UNCHANGED dsci

ClusterTypeOK ==
  /\ ns \in [Namespaces -> NsState] /\ nsSeen \in [Namespaces -> NsState]
  /\ nsDirty \subseteq Namespaces /\ cmDirty \subseteq Namespaces
  /\ cm \in [Namespaces -> ConfigMaps]
  /\ dsci \in DSCIState /\ dsciSeen \in DSCIState
  /\ dsciEvents \subseteq {"spec", "bundle"}

ClusterInit0 ==
  /\ ns \in [Namespaces -> {NoNs, NewNs}] /\ nsSeen = ns /\ nsDirty = {}
  /\ cm = [n \in Namespaces |-> "none"] /\ cmDirty = {}
  /\ dsci = NoDSCI /\ dsciSeen = NoDSCI /\ dsciEvents = {}
=============================================================================
