---------------------------- MODULE ClusterInit ----------------------------
(***************************************************************************)
(* The DSCInitialization controller and the part of the setup controller   *)
(* that writes the DSCI.  One reconcile is a sequence of API calls: it     *)
(* reads the DSCI once, then works through namespaces, network policy and  *)
(* singletons with that copy and ends with a status write.  Users, the     *)
(* Monitoring module and the setup controller act between any two calls.   *)
(***************************************************************************)
EXTENDS ClusterState, Sequences

CONSTANT Platform,     \* ManagedRhoai, SelfManagedRhoai or OpenDataHub
         Groups        \* user groups an Auth can name

VARIABLES initQueue,   \* a request waits
          initPc,      \* the call the reconcile in progress makes next
          inst,        \* spec.monitoring of the copy of the DSCI it read
          watchAdded,  \* monitoringWatchAdded
          obj, objSeen,      \* objects the controller keeps, and their cache
          auth, authSeen,    \* the Auth singleton: {} or {its spec}
          crd,         \* the Monitoring CRD
          mon, monSeen,      \* the Monitoring CR and the conditions it reports
          dirty,       \* caches with an event on its way that asks for a reconcile
          lost,        \* the last status write was given up
          marked,      \* history: this DSCI was marked as being uninstalled
          edits        \* user actions left

initCtl == <<initQueue, initPc, inst, watchAdded, lost, marked>>
objVars == <<obj, objSeen>>
authVars == <<auth, authSeen>>
monVars == <<crd, mon, monSeen>>
keptVars == <<dirty, objVars, authVars, monVars>>
initVars == <<initCtl, keptVars, edits>>

Kinds == {"NetworkPolicy", "Config", "GatewayConfig", "HardwareProfile"}

(* Namespaced ones go with the applications namespace *)
InAppNs == Kinds \ {"GatewayConfig"}

AuthSpec == [adminGroups : SUBSET Groups, allowedGroups : SUBSET Groups]

Steps == <<"appNs", "monNs", "NetworkPolicy", "objects", "modules", "finish">>

InitTypeOK ==
  /\ initQueue \in BOOLEAN /\ watchAdded \in BOOLEAN /\ lost \in BOOLEAN /\ marked \in BOOLEAN
  /\ initPc \in {"idle", "progress"} \cup {Steps[i] : i \in 1 .. Len(Steps)}
  /\ inst \in BOOLEAN
  /\ dirty \subseteq {"obj", "auth", "mon"}
  /\ obj \subseteq Kinds /\ objSeen \subseteq Kinds
  /\ auth \subseteq AuthSpec /\ AtMostOne(auth)
  /\ authSeen \subseteq AuthSpec
  /\ crd \in {"absent", "created", "established"}
  /\ {mon, monSeen} \subseteq {"absent", "init", "ready", "notready"}

(* Writes of the kept objects, with the events they cause: a deletion of any,
   a creation where the watch has no filter. *)
PutObj(S) ==
  /\ obj' = S /\ UNCHANGED objSeen
  /\ dirty' = IF obj \ S # {} \/ "NetworkPolicy" \in S \ obj THEN dirty \cup {"obj"} ELSE dirty

PutAuth(A) ==
  /\ auth' = A /\ UNCHANGED authSeen
  /\ dirty' = IF A # auth THEN dirty \cup {"auth"} ELSE dirty

PutMon(m) ==
  /\ mon' = m /\ UNCHANGED <<crd, monSeen>>
  /\ dirty' = IF m # mon THEN dirty \cup {"mon"} ELSE dirty

isUninstallInProgress(d) == d.status.ready = "uninstall"

(* A step of the reconcile: it goes on with `pc`, or ends *)
Goto(pc) == initPc' = pc /\ inst' = (inst /\ pc # "idle")

After(pc) == Steps[1 + CHOOSE i \in 1 .. Len(Steps) : Steps[i] = pc]

(* The reconcile returns an error: the request comes back after a back-off *)
InitError == Goto("idle") /\ initQueue' = TRUE

(* Mutant: the watch is only added at manager setup *)
neverAddMonitoringWatch == UNCHANGED watchAdded

(* ensureMonitoringWatch: the CRD is there, so the watch is added; its first
   list is an event of the CR if there is one. *)
ensureMonitoringWatch == watchAdded' = (watchAdded \/ crd # "absent")

WatchLists == ~watchAdded /\ crd # "absent" /\ mon # "absent"

(* Nothing to do: no DSCI, or the uninstall has begun *)
InitSkip ==
  /\ initPc = "idle" /\ initQueue
  /\ \/ dsciSeen.phase = "absent" /\ UNCHANGED watchAdded /\ initQueue' = FALSE
     \/ /\ dsciSeen.phase = "live" /\ dsciSeen.fin /\ isUninstallInProgress(dsciSeen)
        /\ ensureMonitoringWatch /\ initQueue' = WatchLists
  /\ UNCHANGED <<clusterVars, initPc, inst, lost, marked, keptVars, edits>>

(* The DSCI is being deleted: the finalizer goes, on a copy read afresh and
   with retries on conflict; the last finalizer takes the object with it, and
   the garbage collector what it owns. *)
InitFinalize ==
  /\ initPc = "idle" /\ initQueue /\ dsciSeen.phase = "deleting"
  /\ ensureMonitoringWatch
  /\ IF dsciSeen = dsci
     THEN /\ PutDSCI(NoDSCI) /\ initQueue' = WatchLists
          /\ obj' = {} /\ mon' = "absent" /\ dirty' = dirty \cup {"obj", "mon"}
     ELSE /\ UNCHANGED <<dsciVars, obj, mon, dirty>>
          /\ initQueue' = (WatchLists \/ dsci.phase # "absent")
  /\ UNCHANGED <<nsVars, initPc, inst, lost, marked, objSeen, authVars, crd, monSeen, edits>>

(* The reconcile begins.  The finalizer is added with the version that was
   read: on a conflict the reconcile ends with an error. *)
InitBegin ==
  /\ initPc = "idle" /\ initQueue /\ dsciSeen.phase = "live"
  /\ dsciSeen.fin => ~isUninstallInProgress(dsciSeen)
  /\ ensureMonitoringWatch
  /\ IF dsciSeen.fin \/ dsciSeen = dsci
     THEN /\ initQueue' = WatchLists
          /\ initPc' = IF isUninstallInProgress(dsciSeen) THEN "idle"
                       ELSE IF dsciSeen.status.phase = "" THEN "progress" ELSE Steps[1]
          /\ inst' = (dsciSeen.mon /\ initPc' # "idle")
          /\ IF dsciSeen.fin THEN UNCHANGED dsciVars ELSE PutDSCI([dsci EXCEPT !.fin = TRUE])
     ELSE UNCHANGED <<dsciVars, initPc, inst>> /\ initQueue' = TRUE
  /\ UNCHANGED <<nsVars, lost, marked, keptVars, edits>>

(* status.UpdateWithRetry: it reads the object through the cache and gives up
   when its retries do not outlast the cache's delay.  It changes the status
   of whatever object it finds, not of the copy the reconcile works with. *)
UpdateWithRetry(st) ==
  dsciSeen = dsci /\ dsci.phase # "absent" /\ PutDSCI([dsci EXCEPT !.status = st])

GivesUp == dsciSeen # dsci \/ dsci.phase = "absent"

InitProgress ==
  /\ initPc = "progress"
  /\ \/ /\ UpdateWithRetry([dsci.status EXCEPT !.phase = "Progressing"])
        /\ Goto(Steps[1]) /\ UNCHANGED initQueue
     \/ GivesUp /\ InitError /\ UNCHANGED dsciVars
  /\ UNCHANGED <<nsVars, watchAdded, lost, marked, keptVars, edits>>

Customized == {n \in Namespaces : nsSeen[n].phase # "absent" /\ nsSeen[n].custom}

(* controllerutil.CreateOrUpdate of a namespace: the cached object, or a new
   one, gets the labels; nothing is written when it has them already, and a
   write on top of a stale copy is an error. *)
Found(n) == IF nsSeen[n].phase = "absent" THEN NewNs ELSE nsSeen[n]

CreateOrUpdate(n, new) ==
  IF new = nsSeen[n] THEN UNCHANGED nsVars ELSE nsSeen[n] = ns[n] /\ Put(n, new)

StaleNamespace(n) == nsSeen[n] # ns[n]

(* A step of createOperatorResource failed: phase Error, and again *)
OperatorResourceFails ==
  /\ InitError
  /\ \/ UpdateWithRetry([dsci.status EXCEPT !.phase = "Error"])
     \/ GivesUp /\ UNCHANGED dsciVars

(* createAppNamespace: an elevated pod-security level is left to whoever
   raised it. *)
createAppNamespace(x) ==
  [x EXCEPT !.psa = IF @ = "elevated" THEN @ ELSE "baseline",
            !.owned = @ \/ Customized = {}]

appNamespaceHandler ==
  /\ initPc = "appNs"
  /\ \/ /\ Customized \subseteq {AppNs}
        /\ CreateOrUpdate(AppNs, createAppNamespace(Found(AppNs)))
        /\ Goto(After("appNs")) /\ UNCHANGED <<dsciVars, initQueue>>
     \/ /\ ~(Customized \subseteq {AppNs}) \/ StaleNamespace(AppNs)
        /\ OperatorResourceFails /\ UNCHANGED nsVars
  /\ UNCHANGED <<watchAdded, lost, marked, keptVars, edits>>

MonitoringLabels(x) == [x EXCEPT !.psa = "baseline", !.owned = TRUE]

PatchMonitoringNS ==
  /\ initPc = "monNs"
  /\ \/ /\ IF inst /\ MonNs # AppNs THEN CreateOrUpdate(MonNs, MonitoringLabels(Found(MonNs)))
           ELSE UNCHANGED nsVars
        /\ Goto(After("monNs")) /\ UNCHANGED <<dsciVars, initQueue>>
     \/ /\ inst /\ MonNs # AppNs /\ StaleNamespace(MonNs)
        /\ OperatorResourceFails /\ UNCHANGED nsVars
  /\ UNCHANGED <<watchAdded, lost, marked, keptVars, edits>>

(* The default NetworkPolicy; the applications namespace may have begun to
   terminate, and nothing is created in it then. *)
ReconcileDefaultNetworkPolicy ==
  /\ initPc = "NetworkPolicy"
  /\ \/ /\ ns[AppNs].phase = "active"
        /\ PutObj(obj \cup {"NetworkPolicy"})
        /\ Goto(After("NetworkPolicy")) /\ UNCHANGED <<dsciVars, initQueue>>
     \/ ns[AppNs].phase # "active" /\ OperatorResourceFails /\ UNCHANGED <<objVars, dirty>>
  /\ UNCHANGED <<nsVars, watchAdded, lost, marked, authVars, monVars, edits>>

(* osd-configs are applied each time on the managed platform; the segment key
   of the self-managed one and the default HardwareProfile are deployed when
   the cache lacks them. *)
Deploys(k) == k = "Config" => Platform # "OpenDataHub"

Missing(k) ==
  Deploys(k) /\ (k \notin objSeen \/ (k = "Config" /\ Platform = "ManagedRhoai"))

(* adminGroups: an unknown platform gets the Open Data Hub group *)
adminGroup == CASE Platform = "SelfManagedRhoai" -> "rhods-admins"
                [] Platform = "ManagedRhoai" -> "dedicated-admins"
                [] OTHER -> "odh-admins"

(* The groups of the default Auth are among those an Auth can name *)
ASSUME GroupsAssumption == {adminGroup, "system:authenticated"} \subseteq Groups

BuildDefaultAuth == [adminGroups |-> {adminGroup}, allowedGroups |-> {"system:authenticated"}]

(* An Auth that the cache does not show yet is not overwritten: Create fails
   with AlreadyExists, which is ignored. *)
CreateAuth == IF authSeen = {} /\ auth = {} THEN {BuildDefaultAuth} ELSE auth

CreateGatewayConfig == IF "GatewayConfig" \in objSeen THEN {} ELSE {"GatewayConfig"}

ManageDefaultAndCustomHWProfileCR == {k \in {"HardwareProfile"} : Missing(k)}

(* Configuration, Auth, GatewayConfig and HardwareProfile, in this order; what
   goes into the applications namespace fails when it is on its way out, and
   ends the reconcile at that point. *)
CreateObjects ==
  /\ initPc = "objects"
  /\ LET fails(k) == Missing(k) /\ ns[AppNs].phase # "active"
     IN  IF fails("Config") THEN InitError /\ UNCHANGED <<objVars, authVars, dirty>>
         ELSE /\ auth' = CreateAuth /\ UNCHANGED <<objSeen, authSeen>>
              /\ obj' = obj \cup {k \in {"Config"} : Missing(k)} \cup CreateGatewayConfig
                            \cup IF fails("HardwareProfile") THEN {}
                                 ELSE ManageDefaultAndCustomHWProfileCR
              /\ dirty' = dirty \cup IF auth' # auth THEN {"auth"} ELSE {}
              /\ IF fails("HardwareProfile") THEN InitError
                 ELSE Goto(After("objects")) /\ UNCHANGED initQueue
  /\ UNCHANGED <<clusterVars, watchAdded, lost, marked, monVars, edits>>

(* The Monitoring CR: applied when Managed, deleted when not; a CRD that is not
   served yet is not an error. *)
reconcileDSCIModules ==
  /\ initPc = "modules" /\ Goto(After("modules"))
  /\ PutMon(IF ~inst THEN "absent"
            ELSE IF crd = "established" /\ mon = "absent" THEN "init" ELSE mon)
  /\ UNCHANGED <<clusterVars, initQueue, watchAdded, lost, marked, objVars, authVars, edits>>

(* GetMonitoringReadyCondition, copied by SetCondition: conditions are set and
   never taken away, so a Ready condition copied once stays until the
   Monitoring CR reports another. *)
CopyMonitoring(st) ==
  CASE monSeen = "absent" -> [st EXCEPT !.monitoring = "Removed"]
    [] monSeen = "init" -> [st EXCEPT !.monitoring = "Initializing"]
    [] monSeen = "ready" -> [st EXCEPT !.monitoring = "Ready", !.ready = "true"]
    [] OTHER -> [st EXCEPT !.monitoring = "Ready", !.ready = "false"]

(* The last status write: when it is given up that is logged and forgotten *)
InitFinish ==
  /\ initPc = "finish" /\ Goto("idle")
  /\ \/ /\ UpdateWithRetry([CopyMonitoring(dsci.status) EXCEPT !.phase = "Ready"])
        /\ lost' = FALSE
     \/ GivesUp /\ lost' = TRUE /\ UNCHANGED dsciVars
  /\ UNCHANGED <<nsVars, initQueue, watchAdded, marked, keptVars, edits>>

InitNext ==
  \/ InitSkip \/ InitFinalize \/ InitBegin \/ InitProgress \/ appNamespaceHandler
  \/ PatchMonitoringNS \/ ReconcileDefaultNetworkPolicy \/ CreateObjects
  \/ reconcileDSCIModules \/ InitFinish

-----------------------------------------------------------------------------
(* Events of the other caches *)

(* Owns(...) and the mappers of Auth and GatewayConfig, which ask for a
   reconcile only when the list is empty. *)
SeesObjects ==
  /\ objSeen # obj \/ "obj" \in dirty
  /\ objSeen' = obj /\ dirty' = dirty \ {"obj"}
  /\ initQueue' = (initQueue \/ "obj" \in dirty)
  /\ UNCHANGED <<clusterVars, initPc, inst, watchAdded, lost, marked, obj, authVars, monVars, edits>>

(* watchMonitoringResource; the cache follows the CR with or without a watch *)
SeesMonitoring ==
  /\ "mon" \in dirty /\ dirty' = dirty \ {"mon"} /\ monSeen' = mon
  /\ initQueue' = (initQueue \/ watchAdded)
  /\ UNCHANGED <<clusterVars, initPc, inst, watchAdded, lost, marked, objVars, authVars, crd, mon, edits>>

(* The Monitoring CRD is installed, then served: reconcileOnCRDChange *)
CRDCreated ==
  /\ crd = "absent" /\ crd' = "created" /\ initQueue' = TRUE /\ edits > 0 /\ edits' = edits - 1
  /\ UNCHANGED <<clusterVars, initPc, inst, watchAdded, lost, marked, dirty, objVars, authVars, mon, monSeen>>

CRDEstablished ==
  /\ crd = "created" /\ crd' = "established" /\ initQueue' = TRUE
  /\ UNCHANGED <<clusterVars, initPc, inst, watchAdded, lost, marked, dirty, objVars, authVars, mon,
                 monSeen, edits>>

-----------------------------------------------------------------------------
(* Users, the Monitoring module and the setup controller *)

(* initialinstall.CreateDefaultDSCI, or a user: only when there is none *)
CreateDefaultDSCI(b, m) ==
  /\ dsci.phase = "absent"
  /\ PutDSCI([NoDSCI EXCEPT !.phase = "live", !.bundle = b, !.mon = m]) /\ marked' = FALSE
  /\ UNCHANGED <<nsVars, initQueue, initPc, inst, watchAdded, lost, keptVars, edits>>

Edit == edits > 0 /\ edits' = edits - 1

EditDSCI(d) ==
  /\ dsci.phase = "live" /\ Edit /\ d # dsci /\ PutDSCI(d)
  /\ UNCHANGED <<nsVars, initCtl, keptVars>>

(* The object goes at once when the finalizer was never added *)
DeleteDSCI ==
  /\ dsci.phase = "live" /\ Edit
  /\ PutDSCI(IF dsci.fin THEN [dsci EXCEPT !.phase = "deleting"] ELSE NoDSCI)
  /\ UNCHANGED <<nsVars, initCtl, keptVars>>

DeleteObject(k) ==
  /\ k \in obj /\ Edit /\ PutObj(obj \ {k})
  /\ UNCHANGED <<clusterVars, initCtl, authVars, monVars>>

DeleteMonitoring ==
  /\ mon # "absent" /\ Edit /\ PutMon("absent")
  /\ UNCHANGED <<clusterVars, initCtl, objVars, authVars>>

(* The Monitoring module reports conditions on its CR *)
MonitoringReports(c) ==
  /\ mon # "absent" /\ mon # c /\ Edit /\ PutMon(c)
  /\ UNCHANGED <<clusterVars, initCtl, objVars, authVars>>

(* markUninstallInProgress, the DSCI's part *)
markUninstallInProgress ==
  /\ ~isUninstallInProgress(dsci) /\ Edit
  /\ UpdateWithRetry([dsci.status EXCEPT !.ready = "uninstall", !.phase = "NotReady"])
  /\ marked' = TRUE
  /\ UNCHANGED <<nsVars, initQueue, initPc, inst, watchAdded, lost, keptVars>>

-----------------------------------------------------------------------------
InitAtRest ==
  /\ ~initQueue /\ initPc = "idle" /\ dsciEvents = {} /\ dsciSeen = dsci
  /\ objSeen = obj /\ authSeen = auth /\ dirty = {}

(* What a reconciled DSCI promises *)
Initialized ==
  /\ ns[AppNs].phase = "active"
  /\ obj = {k \in Kinds : Deploys(k)} /\ auth # {}
  /\ dsci.mon /\ crd = "established" <=> mon # "absent"
  /\ ~lost => /\ dsci.status.phase = "Ready"
              /\ dsci.status.monitoring = CopyMonitoring(dsci.status).monitoring

(* InitSettles: whenever the DSCI controller has nothing left to do and no
   uninstall was marked, everything it creates exists and the status says what
   the Monitoring CR reports, whatever was deleted or toggled meanwhile.  The
   exception is a last status write that was given up: nothing asks again.  A
   mark that was set counts even if the end of a reconcile has overwritten it:
   the requests that came while it stood were skipped for good. *)
InitSettles ==
  InitAtRest /\ dsci.phase = "live" /\ ~marked => Initialized

(* UninstallMarkKept: once the setup controller has marked the DSCI as being
   uninstalled, the mark stays as long as the DSCI does. *)
UninstallMarkKept ==
  [][isUninstallInProgress(dsci) =>
       isUninstallInProgress(dsci)' \/ dsci'.phase = "absent"]_dsci
=============================================================================
