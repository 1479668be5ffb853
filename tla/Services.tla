------------------------------ MODULE Services ------------------------------
(***************************************************************************)
(* The platform services together: the DSCI controller, the Auth           *)
(* controller and the trusted-CA controller share the manager's caches of  *)
(* namespaces, DSCI and Auth, and each creates objects that wake another.  *)
(* Users create, delete, label and annotate namespaces and edit or delete  *)
(* what the controllers keep; the operator restarts at any point.          *)
(***************************************************************************)
EXTENDS AuthRoles, TrustedCA

CONSTANTS MaxEdits,    \* bound on user actions and restarts, for each mode
          Modes        \* the combinations of controllers put together

VARIABLE running       \* the combination of this behaviour

servVars == <<clusterVars, initVars, roleVars, caVars, running>>

(* Mutant: the requests of the last event replace those that wait *)
RequestsOfLastEvent(c, req, queue) == IF c \in running THEN req ELSE queue

(* The shared cache catches up with a namespace or with the DSCI: the handlers
   of all the controllers that watch it run. *)
Requests(c, req, queue) == IF c \in running THEN queue \cup req ELSE queue

SeesNamespace(n) ==
  /\ nsSeen[n] # ns[n] \/ n \in nsDirty
  /\ CacheNamespace(n)
  /\ caQueue' = Requests("ca", NamespaceRequests(n), caQueue)
  /\ authQueue' = (authQueue \/ (n \in OptionalNs /\ "auth" \in running))
  /\ UNCHANGED <<dsciVars, caWork, initVars, authWork, rb, rbDirty, running>>

SeesDSCI ==
  /\ dsciSeen # dsci \/ dsciEvents # {}
  /\ CacheDSCI
  /\ caQueue' = Requests("ca", dsciEventHandler, caQueue)
  /\ initQueue' = (initQueue \/ ("spec" \in dsciEvents /\ "init" \in running))
  /\ UNCHANGED <<nsVars, caWork, initPc, inst, watchAdded, lost, marked, keptVars, edits, roleVars, running>>

SeesConfigMap(n) == CASeesConfigMap(n) /\ UNCHANGED <<initVars, roleVars, running>>

-----------------------------------------------------------------------------
(* Namespaces, in the hands of users *)

CreateNamespace(n) ==
  /\ ns[n].phase = "absent" /\ Edit /\ Put(n, NewNs)
  /\ UNCHANGED <<dsciVars, initCtl, keptVars, roleVars, caVars, running>>

(* Everything in the namespace is deleted before the namespace is *)
DeleteNamespace(n) ==
  /\ ns[n].phase = "active" /\ Edit
  /\ Put(n, [ns[n] EXCEPT !.phase = "terminating"])
  /\ PutObj(IF n = AppNs THEN obj \ InAppNs ELSE obj)
  /\ rb' = IF n \in Targets THEN [rb EXCEPT ![n] = {}] ELSE rb
  /\ rbDirty' = (rbDirty \/ rb' # rb)
  /\ UNCHANGED <<dsciVars, initCtl, authVars, monVars, authQueue, authWork, caVars, running>>

NamespaceGone(n) ==
  /\ ns[n].phase = "terminating" /\ Put(n, NoNs)
  /\ UNCHANGED <<dsciVars, initVars, roleVars, caVars, running>>

(* Labels matter to the DSCI controller only, the annotation to the trusted-CA
   controller. *)
EditNamespace(n) ==
  /\ ns[n].phase = "active" /\ Edit
  /\ \/ "ca" \in running /\ Put(n, [ns[n] EXCEPT !.optout = ~@])
     \/ /\ "init" \in running
        /\ \E v \in {[ns[n] EXCEPT !.custom = ~@], [ns[n] EXCEPT !.psa = "elevated"]} :
             v # ns[n] /\ Put(n, v)
  /\ UNCHANGED <<dsciVars, initCtl, keptVars, roleVars, caVars, running>>

EditConfigMap(n) ==
  /\ Edit /\ "ca" \in running
  /\ \/ cm[n] # "none" /\ \E c \in {"none", "edited"} : c # cm[n] /\ PutConfigMap(n, c)
     \/ ns[n].phase = "active" /\ cm[n] = "none" /\ PutConfigMap(n, "foreign")
  /\ UNCHANGED <<ns, nsSeen, nsDirty, dsciVars, initCtl, keptVars, roleVars, caVars, running>>

-----------------------------------------------------------------------------
(* A restart lists every cache and forgets every queue, worker and watch *)
Restart ==
  /\ Edit
  /\ nsSeen' = ns /\ nsDirty' = {} /\ cmDirty' = {} /\ dsciSeen' = dsci /\ dsciEvents' = {}
  /\ caQueue' = Requests("ca", {n \in Namespaces : ns[n].phase # "absent"}, {}) /\ caWork' = {}
  /\ initQueue' = (dsci.phase # "absent" /\ "init" \in running)
  /\ initPc' = "idle" /\ inst' = FALSE /\ watchAdded' = FALSE
  /\ objSeen' = obj /\ authSeen' = auth /\ monSeen' = mon /\ dirty' = {}
  /\ authQueue' = (auth # {}) /\ authWork' = {} /\ rbDirty' = FALSE
  /\ UNCHANGED <<ns, cm, dsci, lost, marked, obj, auth, crd, mon, rb, running>>

Users ==
  /\ \/ \E b \in Bundles, m \in BOOLEAN :
          /\ "ca" \notin running => b = "nil"
          /\ running # {"init"} => ~m
          /\ CreateDefaultDSCI(b, m) \/ EditDSCI([dsci EXCEPT !.bundle = b, !.mon = m])
     \/ DeleteDSCI \/ DeleteMonitoring \/ markUninstallInProgress
     \/ running = {"init"} /\ CRDCreated
     \/ \E k \in Kinds : DeleteObject(k)
     \/ \E c \in {"ready", "notready"} : MonitoringReports(c)
  /\ UNCHANGED <<roleVars, caVars, running>>

AuthUsers ==
  /\ "auth" \in running
  /\ \/ \E a \in AuthSpec : EditAuth(a)
     \/ DeleteAuth
     \/ \E t \in Targets, b \in {{}, {{}}} : EditBinding(t, b)
  /\ UNCHANGED <<caVars, running>>

Controllers ==
  \/ "init" \in running /\ InitNext /\ UNCHANGED <<roleVars, caVars, running>>
  \/ "auth" \in running /\ (AuthBegin \/ AuthDeploy) /\ UNCHANGED <<caVars, running>>
  \/ (CABegin \/ CAWrite \/ CAFail) /\ UNCHANGED <<initVars, roleVars, running>>

Caches ==
  \/ SeesDSCI \/ \E n \in Namespaces : SeesNamespace(n) \/ SeesConfigMap(n)
  \/ /\ SeesObjects \/ SeesMonitoring \/ CRDEstablished
     /\ UNCHANGED <<roleVars, caVars, running>>
  \/ (SeesAuth \/ SeesBindings) /\ UNCHANGED <<caVars, running>>

Next ==
  \/ Users \/ AuthUsers \/ Controllers \/ Caches \/ Restart
  \/ \E n \in Namespaces :
       \/ CreateNamespace(n) \/ DeleteNamespace(n) \/ NamespaceGone(n)
       \/ EditNamespace(n) \/ EditConfigMap(n)

Init ==
  /\ running \in Modes
  /\ CAInit /\ (running = {"init"} => ns = [n \in Namespaces |-> NoNs])
  /\ initQueue = FALSE /\ initPc = "idle" /\ inst = FALSE /\ watchAdded = FALSE
  /\ lost = FALSE /\ marked = FALSE /\ dirty = {} /\ obj = {} /\ objSeen = {} /\ auth = {} /\ authSeen = {}
  /\ crd \in (IF running = {"init"} THEN {"absent", "established"} ELSE {"absent"})
  /\ mon = "absent" /\ monSeen = "absent" /\ edits = MaxEdits[running]
  /\ authQueue = FALSE /\ authWork = {} /\ rbDirty = FALSE
  /\ rb = [t \in Targets |-> {}]

Spec == Init /\ [][Next]_servVars

(* TypeOK: the types of the shared cluster state and of the three controllers *)
TypeOK == ClusterTypeOK /\ CATypeOK /\ InitTypeOK /\ RolesTypeOK

(* ServicesSettled: each controller of the instance settles in the sense of its
   own module while the others run and write the namespaces, the DSCI and the
   Auth that it depends on.  The Auth controller needs the DSCI controller for
   the applications namespace and for the Auth itself. *)
ServicesSettled ==
    /\ "init" \in running => InitSettles
    /\ "auth" \in running => RolesSettle
    /\ "ca" \in running => BundlesSettle

(* CAImplemented: every step of the composed system, whoever takes it, is a
   step of the trusted-CA component as its own module specifies it, or leaves
   its state alone.  What is proved there holds here. *)
CAImplemented == [][("ca" \in running) => CANext]_<<clusterVars, caVars>>
=============================================================================
