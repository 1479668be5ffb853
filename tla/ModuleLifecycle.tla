--------------------------- MODULE ModuleLifecycle ---------------------------
(***************************************************************************)
(* How a module is enabled, reported on and removed by two controllers     *)
(* that only run when an event, a timer or a retry wakes them.  The DSC    *)
(* controller projects the enabled modules into the Platform, owns the     *)
(* module CRs and rolls their status up; the Platform controller deploys   *)
(* the module's CRD and operator, removes the operator once the CR is      *)
(* gone, and rolls the same status up for the Platform.  Both register a   *)
(* watch on a module's CRs when a reconcile finds that its CRD exists.     *)
(*                                                                         *)
(* The modules are the ones configured by the DSC.  A module's             *)
(* configuration is a number, 0 for Removed; a user's edit takes a new     *)
(* one, so configurations are ordered like the generations of the CR.      *)
(***************************************************************************)
EXTENDS Naturals

CONSTANTS
    Modules,    \* modules configured by the DSC
    MaxEdits,   \* bound: edits of the DSC
    MaxFaults   \* bound: failed reads and reconciles, restarts, bad reports

ASSUME BoundsAssumption == MaxEdits \in Nat /\ MaxFaults \in Nat

Controllers == {"DSC", "Platform"}
Configs == 0 .. MaxEdits

VARIABLES
    want,       \* per module: its configuration in the DSC
    plat,       \* modules the Platform's spec enables
    crd,        \* per module: its CRD is absent, applied, or established
    op,         \* per module: its operator is absent, deployed, or running
    cr,         \* per module: its CR is absent, alive, or deleting
    conf,       \* per module: the configuration in its CR
    obs,        \* per module: the configuration its operator last observed
    health,     \* per module: the Ready and Degraded conditions of its CR
    queue,      \* controllers with a request for their object
    timer,      \* the DSC's requeue after 30 seconds is armed
    watched,    \* per controller: modules whose CRs it watches
    pc,         \* per controller: the next step of its reconcile
    desired,    \* the configurations the DSC's reconcile read when it began
    enabled,    \* the modules the Platform's reconcile found enabled when it began
    todo,       \* per controller: modules still to evaluate
    eval,       \* per controller: the evaluation so far
    keep,       \* disabled modules whose operator the Platform controller keeps
    shown,      \* per controller: the evaluation its object's conditions show
    edits, faults

crVars == <<cr, conf, obs, health>>
locals == <<desired, enabled, todo, eval, keep>>
vars == <<want, plat, crd, op, cr, conf, obs, health, queue, timer, watched, pc,
          desired, enabled, todo, eval, keep, shown, edits, faults>>

\* What evaluateModulesStatus finds out about a module.  The Err verdicts
\* come from failed reads.
Verdicts == {"removed", "pending", "pendingErr", "notReadyErr", "noCRD", "notFound", "stale",
             "notReady", "degraded", "ready",
             "deletingNotReady", "deletingDegraded", "deletingReady"}
Errors == {"pendingErr", "notReadyErr"}

\* The types of the variables.  CRs and watches need an established CRD, and
\* nothing is left of a CR that is gone.
TypeOK ==
    /\ want \in [Modules -> Configs]
    /\ plat \subseteq Modules
    /\ crd \in [Modules -> {"absent", "applied", "established"}]
    /\ op \in [Modules -> {"absent", "deployed", "running"}]
    /\ cr \in [Modules -> {"absent", "alive", "deleting"}]
    /\ conf \in [Modules -> Configs] /\ obs \in [Modules -> Configs]
    /\ health \in [Modules -> {"none", "notReady", "degraded", "ready"}]
    /\ queue \subseteq Controllers /\ timer \in BOOLEAN
    /\ watched \in [Controllers -> SUBSET Modules]
    /\ pc \in [Controllers -> {"idle", "cleanup", "deploy", "read", "sync", "provision"}]
    /\ desired \in [Modules -> Configs] /\ enabled \subseteq Modules
    /\ todo \in [Controllers -> SUBSET Modules]
    /\ eval \in [Controllers -> [Modules -> Verdicts]]
    /\ keep \subseteq Modules
    /\ shown \in [Controllers -> [Modules -> Verdicts]]
    /\ edits \in 0 .. MaxEdits /\ faults \in 0 .. MaxFaults
    /\ \A m \in Modules :
        /\ crd[m] # "established" => cr[m] = "absent" /\ \A c \in Controllers : m \notin watched[c]
        /\ cr[m] = "absent" => conf[m] = 0 /\ health[m] = "none"
        /\ obs[m] <= conf[m]

Init ==
    /\ want = [m \in Modules |-> 0] /\ plat = {}
    /\ crd = [m \in Modules |-> "absent"] /\ op = [m \in Modules |-> "absent"]
    /\ cr = [m \in Modules |-> "absent"]
    /\ conf = [m \in Modules |-> 0] /\ obs = [m \in Modules |-> 0]
    /\ health = [m \in Modules |-> "none"]
    /\ queue = Controllers /\ timer = FALSE
    /\ watched = [c \in Controllers |-> {}]
    /\ pc = [c \in Controllers |-> "idle"]
    /\ desired = [m \in Modules |-> 0] /\ enabled = {} /\ keep = {}
    /\ todo = [c \in Controllers |-> {}]
    /\ eval = [c \in Controllers |-> [m \in Modules |-> "removed"]]
    /\ shown = [c \in Controllers |-> [m \in Modules |-> "removed"]]
    /\ edits = 0 /\ faults = 0

-----------------------------------------------------------------------------
(***************************************************************************)
(* The status of a module, as both controllers evaluate it.  The two reads *)
(* of a module (its status, then its state) are one: whatever they find    *)
(* apart, one read at some moment between them would have found.           *)
(***************************************************************************)
ReportedVerdict(m) ==
    LET deleting == cr[m] = "deleting" IN
    CASE health[m] = "ready" -> IF deleting THEN "deletingReady" ELSE "ready"
      [] health[m] = "degraded" -> IF deleting THEN "deletingDegraded" ELSE "degraded"
      [] OTHER -> IF deleting THEN "deletingNotReady" ELSE "notReady"

\* As if the generations were not compared.
VerdictIgnoresGeneration(m) ==
    IF crd[m] # "established" THEN "noCRD"
    ELSE IF cr[m] = "absent" THEN "notFound"
    ELSE ReportedVerdict(m)

EnabledVerdict(m) ==
    IF crd[m] # "established" THEN "noCRD"
    ELSE IF cr[m] = "absent" THEN "notFound"
    ELSE IF obs[m] > 0 /\ obs[m] < conf[m] THEN "stale"
    ELSE ReportedVerdict(m)

DisabledVerdict(m) == IF cr[m] = "absent" THEN "removed" ELSE "pending"

Verdict(m, on) == IF m \in on THEN EnabledVerdict(m) ELSE DisabledVerdict(m)

NotReadyVerdicts == {"notReadyErr", "noCRD", "notFound", "stale", "notReady", "deletingNotReady"}

\* The reason of the ModulesReady condition; it is True for the last three.
ModulesReady(view) ==
    LET some(vs) == \E m \in Modules : view[m] \in vs IN
    IF some(NotReadyVerdicts) THEN "NotReady"
    ELSE IF some({"degraded", "deletingDegraded"}) THEN "Degraded"
    ELSE IF some({"pending", "pendingErr"}) THEN "Removed"
    ELSE IF ~some({"ready", "deletingReady"}) THEN "NoManagedModules"
    ELSE "Ready"

\* The condition of one module on the DSC.
ModuleReady(view, m) ==
    CASE view[m] \in {"removed", "pending", "pendingErr"} -> "Removed"
      [] view[m] \in {"deletingNotReady", "deletingDegraded", "deletingReady"} -> "Deleting"
      [] view[m] \in {"degraded", "ready"} -> "True"
      [] OTHER -> "NotReady"

-----------------------------------------------------------------------------
(***************************************************************************)
(* Events.  A change of a module CR wakes the controllers that watch it,   *)
(* except its creation: the predicate of the watches ignores Create.       *)
(***************************************************************************)
Waking(cs, ms) == queue \cup {c \in cs : watched[c] \cap ms # {}}

\* As if only the controller that deploys the operators watched the CRs, or
\* only the one that owns them.
NotifiesPlatform(ms) == Waking({"Platform"}, ms)
NotifiesDSC(ms) == Waking({"DSC"}, ms)

Notified(ms) == Waking(Controllers, ms)

\* As if the DSC controller had no watch on CRDs.
WatchNothing == {}

\* The controllers that an event of a module's CRD wakes.  The mapper of the
\* Platform controller returns requests for the DSCs, which it has no object for.
WatchDataScienceClusters == {"DSC"}

\* As if a CRD were usable as soon as it is applied.
Applied == {m \in Modules : crd[m] # "absent"}

\* The modules a reconcile that begins now watches: the CRDs that exist.
Established == {m \in Modules : crd[m] = "established"}

Begin(c) ==
    /\ pc[c] = "idle" /\ c \in queue
    /\ queue' = queue \ {c}
    /\ watched' = [watched EXCEPT ![c] = @ \cup Established]

-----------------------------------------------------------------------------
(***************************************************************************)
(* Both controllers: updateStatus and updateModuleStatus evaluate one      *)
(* module at a time.  A failed read is logged, and the module counted as   *)
(* not ready or pending; nothing asks for another try.                     *)
(***************************************************************************)
On(c) == IF c = "DSC" THEN {m \in Modules : desired[m] # 0} ELSE enabled

Evaluated(c, m, v) ==
    /\ eval' = [eval EXCEPT ![c][m] = v]
    /\ todo' = [todo EXCEPT ![c] = @ \ {m}]
    /\ UNCHANGED <<want, plat, crd, op, crVars, queue, timer, watched, pc,
                   desired, enabled, keep, shown, edits>>

Evaluate(c, m) ==
    /\ pc[c] = "read" /\ m \in todo[c]
    /\ Evaluated(c, m, Verdict(m, On(c)))
    /\ UNCHANGED faults

EvaluateFails(c, m) ==
    /\ pc[c] = "read" /\ m \in todo[c]
    /\ faults < MaxFaults /\ faults' = faults + 1
    /\ Evaluated(c, m, IF m \in On(c) THEN "notReadyErr" ELSE "pendingErr")

-----------------------------------------------------------------------------
(***************************************************************************)
(* The DSC controller: updateStatus, syncPlatformCR, then                  *)
(* cleanupDisabledModuleCRs and provisionModuleCRs with the deployment of  *)
(* the CRs.  The conditions are written when the chain ends.               *)
(***************************************************************************)
DSCBegins ==
    /\ Begin("DSC")
    /\ timer' = FALSE
    /\ desired' = want
    /\ todo' = [todo EXCEPT !["DSC"] = Modules]
    /\ pc' = [pc EXCEPT !["DSC"] = "read"]
    /\ UNCHANGED <<want, plat, crd, op, crVars, enabled, eval, keep, shown, edits, faults>>

\* The apply wakes the Platform controller if it changes the Platform's spec.
SyncPlatformCR ==
    /\ pc["DSC"] = "read" /\ todo["DSC"] = {}
    /\ plat' = On("DSC")
    /\ queue' = IF plat' = plat THEN queue ELSE queue \cup {"Platform"}
    /\ pc' = [pc EXCEPT !["DSC"] = "provision"]
    /\ UNCHANGED <<want, crd, op, crVars, timer, watched, locals, shown, edits, faults>>

\* The 30 seconds requeue asked for while a module's CRD is absent.
RequeueAfter(view) == \E m \in Modules : view[m] = "noCRD"

\* The end of a reconcile of controller c, which shows what it evaluated.
Finish(c) ==
    /\ shown' = [shown EXCEPT ![c] = eval[c]]
    /\ eval' = [eval EXCEPT ![c] = [m \in Modules |-> "removed"]]
    /\ pc' = [pc EXCEPT ![c] = "idle"]

\* cleanupDisabledModuleCRs deletes the CRs of disabled modules.
DisabledCRs == {m \in Modules \ On("DSC") : cr[m] = "alive"}

\* A CR that its operator has never seen has no finalizer and goes at once.
ProvisionModuleCRs ==
    LET gone == {m \in DisabledCRs : obs[m] = 0}
        applied == {m \in On("DSC") \cap Established : cr[m] # "deleting"}
    IN
    /\ pc["DSC"] = "provision"
    /\ cr' = [m \in Modules |->
                CASE m \in gone -> "absent"
                  [] m \in DisabledCRs \ gone -> "deleting"
                  [] m \in applied -> "alive"
                  [] OTHER -> cr[m]]
    /\ conf' = [m \in Modules |-> IF m \in gone THEN 0
                                  ELSE IF m \in applied THEN desired[m] ELSE conf[m]]
    /\ health' = [m \in Modules |-> IF m \in gone THEN "none" ELSE health[m]]
    /\ queue' = Notified({m \in Modules : cr[m] # "absent" /\ (cr'[m] # cr[m] \/ conf'[m] # conf[m])})
    /\ timer' = RequeueAfter(eval["DSC"])
    /\ desired' = [m \in Modules |-> 0]
    /\ Finish("DSC")
    /\ UNCHANGED <<want, plat, crd, op, obs, watched, enabled, todo, keep, edits, faults>>

RequeueFires ==
    /\ timer
    /\ timer' = FALSE /\ queue' = queue \cup {"DSC"}
    /\ UNCHANGED <<want, plat, crd, op, crVars, watched, pc, locals, shown, edits, faults>>

-----------------------------------------------------------------------------
(***************************************************************************)
(* The Platform controller: cleanupDisabledModules, the walk with the      *)
(* deployment of CRDs and operators, and updateModuleStatus.  The walk is  *)
(* taken as unblocked; module Provisioning models it.                      *)
(***************************************************************************)
PlatformBegins ==
    /\ Begin("Platform")
    /\ enabled' = plat
    /\ pc' = [pc EXCEPT !["Platform"] = "cleanup"]
    /\ UNCHANGED <<want, plat, crd, op, crVars, timer, desired, todo, eval, keep, shown, edits, faults>>

\* As if only a CR that is not being deleted kept its operator.
KeepAliveOnly == {m \in Modules \ enabled : cr[m] = "alive"}

\* The operator of a disabled module stays until the module's CR is gone.
KeptOperators == {m \in Modules \ enabled : cr[m] # "absent"}

CleanupDisabledModules ==
    /\ pc["Platform"] = "cleanup"
    /\ keep' = KeptOperators
    /\ pc' = [pc EXCEPT !["Platform"] = "deploy"]
    /\ UNCHANGED <<want, plat, crd, op, crVars, queue, timer, watched,
                   desired, enabled, todo, eval, shown, edits, faults>>

\* The operators' Deployments are owned: their changes wake the controller.
Deploy ==
    LET rendered == enabled \cup keep IN
    /\ pc["Platform"] = "deploy"
    /\ op' = [m \in Modules |-> CASE m \notin rendered -> "absent"
                                  [] op[m] = "absent" -> "deployed"
                                  [] OTHER -> op[m]]
    /\ crd' = [m \in Modules |-> IF m \in rendered /\ crd[m] = "absent" THEN "applied" ELSE crd[m]]
    /\ queue' = IF op' = op THEN queue ELSE queue \cup {"Platform"}
    /\ keep' = {}
    /\ todo' = [todo EXCEPT !["Platform"] = Modules]
    /\ pc' = [pc EXCEPT !["Platform"] = "read"]
    /\ UNCHANGED <<want, plat, crVars, timer, watched, desired, enabled, eval, shown, edits, faults>>

UpdateModuleStatus ==
    /\ pc["Platform"] = "read" /\ todo["Platform"] = {}
    /\ Finish("Platform")
    /\ enabled' = {}
    /\ UNCHANGED <<want, plat, crd, op, crVars, queue, timer, watched, desired, todo, keep, edits, faults>>

-----------------------------------------------------------------------------
(***************************************************************************)
(* Faults: a reconcile that returns an error is retried, and may or may    *)
(* not have shown a complete evaluation; a restart loses what the process  *)
(* has in memory and lists the objects again.                              *)
(***************************************************************************)
Abandon(cs) ==
    /\ faults < MaxFaults /\ faults' = faults + 1
    /\ queue' = queue \cup cs
    /\ pc' = [c \in Controllers |-> IF c \in cs THEN "idle" ELSE pc[c]]
    /\ todo' = [c \in Controllers |-> IF c \in cs THEN {} ELSE todo[c]]
    /\ eval' = [c \in Controllers |-> IF c \in cs THEN [m \in Modules |-> "removed"] ELSE eval[c]]
    /\ desired' = IF "DSC" \in cs THEN [m \in Modules |-> 0] ELSE desired
    /\ enabled' = IF "Platform" \in cs THEN {} ELSE enabled
    /\ keep' = IF "Platform" \in cs THEN {} ELSE keep
    /\ UNCHANGED <<want, plat, crd, op, crVars, edits>>

ReconcileFails(c) ==
    /\ pc[c] # "idle"
    /\ Abandon({c})
    /\ \/ UNCHANGED shown
       \/ /\ pc[c] \in {"read", "provision"} /\ todo[c] = {}
          /\ shown' = [shown EXCEPT ![c] = eval[c]]
    /\ UNCHANGED <<timer, watched>>

Restart ==
    /\ Abandon(Controllers)
    /\ timer' = FALSE
    /\ watched' = [c \in Controllers |-> {}]
    /\ UNCHANGED shown

-----------------------------------------------------------------------------
(***************************************************************************)
(* The environment: users edit the DSC; the API server establishes CRDs;   *)
(* the modules' operators start, reconcile their CRs and serve their       *)
(* finalizers.                                                             *)
(***************************************************************************)
Edit(m) ==
    /\ edits < MaxEdits /\ edits' = edits + 1
    /\ \E config \in {0, edits'} : config # want[m] /\ want' = [want EXCEPT ![m] = config]
    /\ queue' = queue \cup {"DSC"}
    /\ UNCHANGED <<plat, crd, op, crVars, timer, watched, pc, locals, shown, faults>>

EstablishCRD(m) ==
    /\ crd[m] = "applied"
    /\ crd' = [crd EXCEPT ![m] = "established"]
    /\ queue' = queue \cup WatchDataScienceClusters
    /\ UNCHANGED <<want, plat, op, crVars, timer, watched, pc, locals, shown, edits, faults>>

Rollout(m) ==
    /\ op[m] = "deployed"
    /\ op' = [op EXCEPT ![m] = "running"]
    /\ queue' = queue \cup {"Platform"}
    /\ UNCHANGED <<want, plat, crd, crVars, timer, watched, pc, locals, shown, edits, faults>>

Reports(m, h) ==
    /\ op[m] = "running" /\ cr[m] = "alive"
    /\ health[m] # h \/ obs[m] # conf[m]
    /\ obs' = [obs EXCEPT ![m] = conf[m]]
    /\ health' = [health EXCEPT ![m] = h]
    /\ queue' = Notified({m})
    /\ UNCHANGED <<want, plat, crd, op, cr, conf, timer, watched, pc, locals, shown, edits>>

ReportsReady(m) == Reports(m, "ready") /\ UNCHANGED faults

ReportsTrouble(m) ==
    /\ faults < MaxFaults /\ faults' = faults + 1
    /\ \E h \in {"notReady", "degraded"} : Reports(m, h)

Finalize(m) ==
    /\ op[m] = "running" /\ cr[m] = "deleting"
    /\ cr' = [cr EXCEPT ![m] = "absent"]
    /\ conf' = [conf EXCEPT ![m] = 0] /\ obs' = [obs EXCEPT ![m] = 0]
    /\ health' = [health EXCEPT ![m] = "none"]
    /\ queue' = Notified({m})
    /\ UNCHANGED <<want, plat, crd, op, timer, watched, pc, locals, shown, edits, faults>>

DSCStep ==
    \/ DSCBegins
    \/ \E m \in Modules : Evaluate("DSC", m)
    \/ SyncPlatformCR
    \/ ProvisionModuleCRs

PlatformStep ==
    \/ PlatformBegins
    \/ CleanupDisabledModules
    \/ Deploy
    \/ \E m \in Modules : Evaluate("Platform", m)
    \/ UpdateModuleStatus

OperatorStep(m) ==
    \/ EstablishCRD(m)
    \/ Rollout(m)
    \/ ReportsReady(m)
    \/ Finalize(m)

Next ==
    \/ DSCStep \/ PlatformStep \/ RequeueFires
    \/ \E m \in Modules : OperatorStep(m) \/ Edit(m) \/ ReportsTrouble(m)
    \/ \E c \in Controllers, m \in Modules : EvaluateFails(c, m)
    \/ \E c \in Controllers : ReconcileFails(c)
    \/ Restart

Spec == Init /\ [][Next]_vars

\* The work queues and the timer are served, the API server and the modules'
\* operators make progress.  Users and faults are not fair.
FairSpec ==
    /\ Spec
    /\ WF_vars(DSCStep) /\ WF_vars(PlatformStep) /\ WF_vars(RequeueFires)
    /\ \A m \in Modules : /\ WF_vars(EstablishCRD(m)) /\ WF_vars(Rollout(m))
                          /\ WF_vars(ReportsReady(m)) /\ WF_vars(Finalize(m))

-----------------------------------------------------------------------------
\* A controller that nothing will wake, whose last evaluation had no failed read.
Quiet(c) ==
    /\ pc[c] = "idle" /\ c \notin queue /\ ~(c = "DSC" /\ timer)
    /\ \A m \in Modules : shown[c][m] \notin Errors

Fresh(c, on) ==
    LET now == [m \in Modules |-> Verdict(m, on)] IN
    /\ ModulesReady(shown[c]) = ModulesReady(now)
    /\ \A m \in Modules : ModuleReady(shown[c], m) = ModuleReady(now, m)

\* When nothing will wake the DSC controller, the conditions it last wrote are
\* the ones it would write now, in every order of edits, reports, CRD events,
\* retries and restarts (updateStatus, the watches and the 30 s requeue).
DSCStatusSettles == Quiet("DSC") => Fresh("DSC", {m \in Modules : want[m] # 0})

\* The same for the Platform's ModulesReady, as far as its watches reach: every
\* module whose CRD is established is watched (updateModuleStatus).
PlatformStatusSettles ==
    Quiet("Platform") /\ Established \subseteq watched["Platform"] =>
        LET now == [m \in Modules |-> Verdict(m, plat)]
        IN  ModulesReady(shown["Platform"]) = ModulesReady(now)

\* Neither object is left with stale conditions: both of the above.
StatusSettles == DSCStatusSettles /\ PlatformStatusSettles

\* A DSC at rest that shows a module as ready shows it for the configuration the
\* user asked for, although the status is read before the CR is applied.
ReadyMeansCurrent ==
    Quiet("DSC") => \A m \in Modules : shown["DSC"][m] = "ready" => obs[m] = want[m]

\* Once edits and faults end, every enabled module is shown as ready on the DSC,
\* unless a failed read left it as not ready with nothing to wake the controller.
EnabledBecomesReady ==
    <>[](\A m \in Modules : want[m] # 0 => shown["DSC"][m] \in {"ready", "notReadyErr"})

\* Once edits and faults end, a disabled module has neither a CR nor an operator:
\* the Platform controller always hears of the CR's end (cleanupDisabledModules).
DisabledIsCleaned ==
    <>[](\A m \in Modules : want[m] = 0 => cr[m] = "absent" /\ op[m] = "absent")

\* A CR that waits for its finalizer always finds an operator to serve it, also
\* when the module is enabled and disabled again meanwhile.
DeletionServed == \A m \in Modules : cr[m] = "deleting" ~> cr[m] # "deleting"

\* The comment of addModuleCRDWatches: the creation of a module's CRD triggers a
\* reconcile in which the controller registers the watch on the module's CRs.
CRDIsPickedUp == \A m \in Modules : crd[m] = "established" ~> m \in watched["Platform"]

=============================================================================
