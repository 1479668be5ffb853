----------------------------- MODULE AuthRoles -----------------------------
(***************************************************************************)
(* The Auth controller: it turns the groups of the Auth singleton into     *)
(* role bindings in the applications namespace and, while they exist, in   *)
(* the namespaces of Models-as-a-Service and Kuadrant, and into two        *)
(* cluster role bindings.  It reads the Auth and the namespaces first and  *)
(* deploys afterwards.                                                     *)
(***************************************************************************)
EXTENDS ClusterInit

VARIABLES authQueue,   \* a request waits
          authWork,    \* the reconcile in progress: {} or {what it read}
          rb,          \* bindings: {} or {the groups bound}
          rbDirty      \* events of owned bindings on their way

roleVars == <<authQueue, authWork, rb, rbDirty>>

Targets == {AppNs} \cup OptionalNs \cup {"admingroupcluster", "allowedgroupcluster"}

RolesTypeOK ==
  /\ authQueue \in BOOLEAN /\ rbDirty \in BOOLEAN
  /\ authWork \subseteq [spec : AuthSpec, exist : SUBSET OptionalNs]
  /\ rb \in [Targets -> SUBSET SUBSET Groups]
  /\ \A t \in Targets : AtMostOne(rb[t])

(* The CEL rules of AuthSpec *)
ValidAuth(a) ==
  /\ a.adminGroups # {} /\ a.adminGroups \cap {"", "system:authenticated"} = {}
  /\ "" \notin a.allowedGroups

(* bindRole and bindClusterRole skip groups that must not be bound *)
GroupsToBind(groups, isAdminRole) ==
  groups \ ({""} \cup IF isAdminRole THEN {"system:authenticated"} ELSE {})

(* managePermissions: the bindings a reconcile adds to its resources *)
managePermissions(spec, exist) ==
  [t \in Targets |->
     IF t = "allowedgroupcluster" THEN {GroupsToBind(spec.allowedGroups, FALSE)}
     ELSE IF t \in OptionalNs \ exist THEN {}
     ELSE {GroupsToBind(spec.adminGroups, TRUE)}]

(* initialize, createDefaultGroup and managePermissions: without a DSCI the
   applications namespace is unknown, which is an error. *)
AuthBegin ==
  /\ authQueue /\ authWork = {}
  /\ IF authSeen = {} THEN authQueue' = FALSE /\ UNCHANGED authWork
     ELSE IF dsciSeen.phase = "absent" THEN UNCHANGED <<authQueue, authWork>>
     ELSE /\ authQueue' = FALSE
          /\ authWork' = {[spec |-> s, exist |-> {n \in OptionalNs : NamespaceExists(nsSeen[n])}] :
                          s \in authSeen}
  /\ UNCHANGED <<clusterVars, initVars, rb, rbDirty>>

(* What deploy cannot create in, and what it has written by then: bindings are
   applied one after the other and the first failure ends the reconcile. *)
Failing(w) == {n \in {AppNs} \cup w.exist : ns[n].phase # "active"}

Written(w) == IF AppNs \in Failing(w) \/ auth = {} THEN {}
              ELSE IF Failing(w) # {} THEN {AppNs} ELSE Targets

(* Mutant: a failure is taken for the end of the reconcile *)
NeverRetried(w) == FALSE

Retried(w) == Failing(w) # {}

AuthDeploy ==
  \E w \in authWork :
    /\ rb' = [t \in Targets |-> IF t \in Written(w)
                                THEN managePermissions(w.spec, w.exist)[t] ELSE rb[t]]
    /\ rbDirty' = (rbDirty \/ rb' # rb)
    /\ authWork' = {} /\ authQueue' = (authQueue \/ Retried(w))
    /\ UNCHANGED <<clusterVars, initVars>>

(* Any event of an owned Role or RoleBinding *)
SeesBindings ==
  /\ rbDirty /\ rbDirty' = FALSE /\ authQueue' = TRUE
  /\ UNCHANGED <<clusterVars, initVars, authWork, rb>>

(* The Auth cache: the Auth controller wants every event, the DSCI controller
   the one that leaves no Auth. *)
SeesAuth ==
  /\ "auth" \in dirty /\ dirty' = dirty \ {"auth"} /\ authSeen' = auth
  /\ authQueue' = TRUE /\ initQueue' = (initQueue \/ auth = {})
  /\ UNCHANGED <<clusterVars, initPc, inst, watchAdded, lost, marked, objVars, auth, monVars, edits,
                 authWork, rb, rbDirty>>

EditAuth(a) ==
  /\ auth # {} /\ ValidAuth(a) /\ Edit /\ auth # {a} /\ PutAuth({a})
  /\ UNCHANGED <<clusterVars, initCtl, objVars, monVars, roleVars>>

(* Bindings are owned by the Auth and go with it *)
DeleteAuth ==
  /\ auth # {} /\ Edit /\ PutAuth({})
  /\ rb' = [t \in Targets |-> {}] /\ rbDirty' = TRUE
  /\ UNCHANGED <<clusterVars, initCtl, objVars, monVars, authQueue, authWork>>

EditBinding(t, b) ==
  /\ rb[t] # {} /\ rb[t] # b /\ Edit
  /\ rb' = [rb EXCEPT ![t] = b] /\ rbDirty' = TRUE
  /\ UNCHANGED <<clusterVars, initCtl, keptVars, authQueue, authWork>>

AuthAtRest ==
  /\ ~authQueue /\ authWork = {} /\ ~rbDirty /\ authSeen = auth
  /\ \A n \in OptionalNs : nsSeen[n] = ns[n]

(* RolesSettle: whenever the Auth controller has nothing left to do and an Auth
   exists, the bindings are exactly those of its current groups, also in an
   optional namespace that came, went or came back, and in an applications
   namespace that was deleted and created again by the other controller. *)
RolesSettle ==
  AuthAtRest /\ auth # {} =>
    \E a \in auth :
      rb = managePermissions(a, {n \in OptionalNs : NamespaceExists(ns[n])})
=============================================================================
