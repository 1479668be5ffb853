---------------------------- MODULE CloudManager ----------------------------
(***************************************************************************)
(* The cloud manager installs the operators the platform depends on from   *)
(* Helm charts and takes them away again when the user no longer wants     *)
(* them managed: first the operator's CR, while the operator is still      *)
(* there to process its finalizers, then the operator, and last the access *)
(* rights a terminating operator needs to give up its lease.               *)
(*                                                                         *)
(* A chart is one workload, one access-control object and one operator CR. *)
(* A pass is taken apart at its reads and writes; objects terminate, users *)
(* edit policies and the process restarts in between.                      *)
(***************************************************************************)
EXTENDS Preconditions

CONSTANTS
    CMDeps,         \* the dependencies with an operator CR that are looked at
    CMEvents        \* bound on what users and the dependencies do

VARIABLE cloud

NoObject == [is |-> "absent", owned |-> FALSE, gen |-> 0]
Parts == {"cr", "workload", "access"}

\* What the charts differ in: Kuadrant has to be opted in and must have its CR,
\* the Gateway API has neither a workload nor a CR.
allChartDefs ==
    [d \in {"gateway-api", "lws", "sail", "rhcl"} |->
        [operatorCR |-> d # "gateway-api", deployments |-> d # "gateway-api",
         optIn |-> d = "rhcl", requireCR |-> d = "rhcl"]]

PolicyOf(d, policy) == IF allChartDefs[d].optIn /\ policy # "Managed" THEN "Unmanaged"
                       ELSE IF policy = "Unmanaged" THEN "Unmanaged" ELSE "Managed"

operatorCROwnedBy(c, d) == c.obj[d].cr.is # "absent" /\ c.obj[d].cr.owned

\* A mistake: the operator is removed together with its CR.
NoFirstPhase(c, d) == IF PolicyOf(d, c.policy[d]) # "Unmanaged" THEN "managed" ELSE "excluded"

makeStateFn(c, d) ==
    CASE PolicyOf(d, c.policy[d]) # "Unmanaged" -> "managed"
      [] allChartDefs[d].operatorCR /\ operatorCROwnedBy(c, d) -> "cleaning"
      [] OTHER -> "excluded"

\* What a pass works with; the rendered resources are cached under the key.
BuildHelmCharts(c) == [d \in CMDeps |-> makeStateFn(c, d)]
RenderKey(c) == [gen |-> c.gen, charts |-> {d \in CMDeps : makeStateFn(c, d) # "excluded"}]
NoKey == [gen |-> 0, charts |-> {}]

CMEnd(c) == [c EXCEPT !.pc = "idle", !.plan = [d \in CMDeps |-> "excluded"], !.run = 0, !.generated = FALSE, !.err = FALSE]

\* An error ends the pass, which is tried again; what only a pass that rendered
\* anew does is not made up for ("cut").
CMFail(c) == [CMEnd(c) EXCEPT !.queued = TRUE, !.ready = "False", !.cut = @ \/ c.generated]

buildCharts ==
    /\ cloud.pc = "idle" /\ cloud.queued /\ cloud.engine = "live"
    /\ cloud' = [cloud EXCEPT !.pc = "deploy", !.queued = FALSE, !.run = cloud.gen, !.unseen = FALSE,
                              !.plan = BuildHelmCharts(cloud), !.key = RenderKey(cloud),
                              !.generated = cloud.key # RenderKey(cloud)]

-----------------------------------------------------------------------------
\* Deploy

Apply(o, gen) == [is |-> IF o.is = "going" THEN "going" ELSE "live", owned |-> TRUE, gen |-> gen]

\* The operator CR of a chart that is being cleaned up is not applied.
filterCRs(plan) ==
    {<<d, p>> \in CMDeps \X Parts : plan[d] = "managed" \/ (plan[d] = "cleaning" /\ p # "cr")}

Applied(c, S) ==
    [c EXCEPT !.obj = [d \in CMDeps |-> [p \in Parts |->
        IF <<d, p>> \in S THEN Apply(c.obj[d][p], c.run) ELSE c.obj[d][p]]]]

\* The kinds of the resources of a pass that goes through are watched.
DynamicOwnership(c) ==
    [c EXCEPT !.watched = @ \cup {d \in CMDeps : c.plan[d] = "managed"}
                            \cup {x \in {"workload"} : \E d \in CMDeps : c.plan[d] # "excluded"}]

\* A hook before, one resource (the others are still applied) or a hook after
\* may fail.
CMDeploy ==
    LET rs == filterCRs(cloud.plan)
    IN  /\ cloud.pc = "deploy"
        /\ \/ cloud' = [DynamicOwnership(Applied(cloud, rs)) EXCEPT !.pc = "cleanup"]
           \/ /\ cloud.faults > 0
              /\ \E S \in {{}, rs} \cup {rs \ {r} : r \in rs} :
                    cloud' = [CMFail(Applied(cloud, S)) EXCEPT !.faults = @ - 1]

-----------------------------------------------------------------------------
\* Removal of the charts that are no longer wanted

CleanupCharts(c) == {d \in CMDeps : c.plan[d] = "excluded" /\ allChartDefs[d].operatorCR}

\* A mistake: whatever has the name of a chart's object is taken.
AnyLive(o) == o.is # "absent"

getOwnedLive(o) == o.is # "absent" /\ o.owned

\* Workloads and CRs go in the foreground: they terminate before they vanish.
deleteOwnedResource(o, p) ==
    IF ~getOwnedLive(o) THEN o
    ELSE IF p = "access" THEN NoObject ELSE [o EXCEPT !.is = "going"]

Deleted(c, S) ==
    [c EXCEPT !.obj = [d \in CMDeps |-> [p \in Parts |->
        IF <<d, p>> \in S THEN deleteOwnedResource(c.obj[d][p], p) ELSE c.obj[d][p]]]]

\* A mistake: only a pass that rendered anew removes charts.
GeneratedOnly(c) == c.generated

\* A pass that rendered nothing new removes charts only to finish a removal.
CleanupDue(c) == c.generated \/ c.deferred

\* Pass A.  A delete may fail; the others are still tried.
cleanupExcludedCharts ==
    LET charts == CleanupCharts(cloud)
        passA  == charts \X {"cr", "workload"}
    IN  /\ cloud.pc = "cleanup"
        /\ IF charts = {} THEN cloud' = [cloud EXCEPT !.deferred = FALSE, !.pc = "monitor"]
           ELSE IF ~CleanupDue(cloud) THEN cloud' = [cloud EXCEPT !.pc = "monitor"]
           ELSE \/ cloud' = [Deleted(cloud, passA) EXCEPT !.pc = "access"]
                \/ /\ cloud.faults > 0
                   /\ \E r \in passA : cloud' = [Deleted(cloud, passA \ {r}) EXCEPT !.pc = "access",
                                                  !.err = TRUE, !.faults = @ - 1]

ownedWorkloadExists(c) == \E d \in CleanupCharts(c) : getOwnedLive(c.obj[d].workload)

\* The gate and pass B.  The wait for a workload does not end the chain, but
\* the health of the dependencies is not looked at.
cleanupAccessControl ==
    LET passB    == CleanupCharts(cloud) \X {"access"}
        deferred == [cloud EXCEPT !.deferred = TRUE]
    IN  /\ cloud.pc = "access"
        /\ IF ownedWorkloadExists(cloud)
           THEN cloud' = IF cloud.err THEN CMFail(deferred) ELSE [deferred EXCEPT !.pc = "gc", !.queued = TRUE]
           ELSE \/ cloud' = IF cloud.err THEN CMFail(Deleted(deferred, passB))
                            ELSE [Deleted(cloud, passB) EXCEPT !.deferred = FALSE, !.pc = "monitor"]
                \/ /\ cloud.faults > 0
                   /\ \E r \in passB : cloud' = [CMFail(Deleted(deferred, passB \ {r})) EXCEPT !.faults = @ - 1]

-----------------------------------------------------------------------------
\* Health of the dependencies, and garbage collection

defaultDegradedConditionFilter == {<<"Degraded", "True">>, <<"Available", "False">>, <<"Ready", "False">>}

\* What the CR of a dependency shows in its conditions.
CRConditions(health) ==
    CASE health = "degraded"   -> <<[type |-> "Degraded", status |-> "True"]>>
      [] health = "unreadable" -> <<[type |-> "Ready", status |-> "True"], [type |-> "Ready", status |-> "False"]>>
      [] OTHER                 -> <<[type |-> "Ready", status |-> "True"]>>

\* The workload first; the CR only when the workload is not known to be bad.
monitorDependencies(c, d) ==
    LET up == c.obj[d].workload.is = "live" /\ c.health[d] # "down"
    IN  IF c.plan[d] # "managed" THEN "True"
        ELSE IF ~up THEN "False"
        ELSE ConditionStatus(CheckOperatorHealth(
                [filter |-> defaultDegradedConditionFilter, required |-> <<>>,
                 requireCR |-> allChartDefs[d].requireCR, noMatchAsUnknown |-> FALSE],
                [read |-> IF c.obj[d].cr.is = "absent" THEN "none" ELSE "found",
                 conditions |-> CRConditions(c.health[d])]))

\* A mistake: what is not known counts as ready.
OnlyFalseCounts(c) == IF \E d \in CMDeps : monitorDependencies(c, d) = "False" THEN "False" ELSE "True"

summarizeDependencyStatus(c) ==
    IF \A d \in CMDeps : monitorDependencies(c, d) = "True" THEN "True" ELSE "False"

CMMonitor ==
    /\ cloud.pc = "monitor"
    /\ cloud' = [cloud EXCEPT !.pc = "gc", !.ready = summarizeDependencyStatus(cloud)]

isStaleOrOrphaned(c, o) == o.gen # 0 /\ o.gen # c.run

\* A mistake: what is stale is collected whatever else is under way.
CollectStale(c, d, p) == c.obj[d][p].is # "absent" /\ c.obj[d][p].owned /\ isStaleOrOrphaned(c, c.obj[d][p])

\* Only what is owned is collected; access rights not while a removal waits.
newGCPredicate(c, d, p) ==
    /\ getOwnedLive(c.obj[d][p]) /\ isStaleOrOrphaned(c, c.obj[d][p])
    /\ ~(p = "access" /\ c.deferred)

NewGCAction ==
    LET stale == {<<d, p>> \in CMDeps \X Parts : newGCPredicate(cloud, d, p)}
    IN  /\ cloud.pc = "gc"
        /\ \/ cloud' = [CMEnd(IF cloud.generated THEN Deleted(cloud, stale) ELSE cloud)
                        EXCEPT !.cut = @ /\ ~cloud.generated]
           \/ /\ cloud.generated /\ cloud.faults > 0
              /\ cloud' = [CMFail(cloud) EXCEPT !.faults = @ - 1]

-----------------------------------------------------------------------------
\* Deletion of the engine

\* Only Istio's CR is waited for; then everything owned goes at once.
FinalizerCleanupTargets == {"sail"}

DeleteAndWait(c) ==
    LET waiting == {d \in FinalizerCleanupTargets \cap CMDeps : getOwnedLive(c.obj[d].cr)}
    IN  IF waiting # {} THEN Deleted(c, waiting \X {"cr"})
        ELSE [Deleted(c, CMDeps \X Parts) EXCEPT !.engine = "gone", !.queued = FALSE]

CMFinalize ==
    cloud.pc = "idle" /\ cloud.queued /\ cloud.engine = "deleting" /\ cloud' = DeleteAndWait(cloud)

-----------------------------------------------------------------------------
\* Users, dependencies and the process

CMMay == cloud.events < CMEvents

CMWake(c, wakes) == [c EXCEPT !.queued = @ \/ (wakes /\ c.engine # "gone")]
CMEvent(c, wakes) == [CMWake(c, wakes) EXCEPT !.events = @ + 1]

EditEngine ==
    /\ CMMay /\ cloud.engine = "live"
    /\ \/ \E d \in CMDeps, p \in {"Managed", "Unmanaged", "unset"} :
            p # cloud.policy[d] /\ cloud' = CMEvent([cloud EXCEPT !.policy[d] = p, !.gen = @ + 1], TRUE)
       \/ cloud' = CMEvent([cloud EXCEPT !.engine = "deleting"], TRUE)

Terminate ==
    \E d \in CMDeps :
       \/ /\ cloud.obj[d].cr.is = "going"
          /\ cloud' = CMWake([cloud EXCEPT !.obj[d].cr = NoObject, !.unseen = @ \/ d \notin cloud.watched],
                             d \in cloud.watched)
       \/ /\ cloud.obj[d].workload.is = "going"
          /\ cloud' = CMWake([cloud EXCEPT !.obj[d].workload = NoObject], "workload" \in cloud.watched)

\* A user makes a CR of their own, or deletes the one that is there.
EditCR ==
    \E d \in CMDeps :
       /\ CMMay
       /\ \/ /\ cloud.obj[d].cr.is = "absent"
             /\ cloud' = CMEvent([cloud EXCEPT !.obj[d].cr = [NoObject EXCEPT !.is = "live"]], FALSE)
          \/ /\ cloud.obj[d].cr.is = "live" /\ cloud.obj[d].workload.is = "live"
             /\ cloud' = CMEvent([cloud EXCEPT !.obj[d].cr.is = "going"], d \in cloud.watched)

DependencyReports ==
    \E d \in CMDeps, h \in {"ok", "down", "degraded", "unreadable"} :
       /\ CMMay /\ cloud.obj[d].workload.is = "live" /\ h # cloud.health[d]
       /\ cloud' = CMEvent([cloud EXCEPT !.health[d] = h], d \in cloud.watched)

\* What is remembered in the process is gone.
CMRestart ==
    /\ CMMay /\ cloud.engine # "gone"
    /\ cloud' = CMEvent([CMEnd(cloud) EXCEPT !.deferred = FALSE, !.key = NoKey, !.watched = {}], TRUE)

CMInit ==
    cloud = [engine |-> "live", policy |-> [d \in CMDeps |-> "unset"], gen |-> 1,
             obj |-> [d \in CMDeps |-> [p \in Parts |-> NoObject]],
             health |-> [d \in CMDeps |-> "ok"], deferred |-> FALSE, key |-> NoKey, watched |-> {},
             queued |-> TRUE, pc |-> "idle", plan |-> [d \in CMDeps |-> "excluded"], run |-> 0,
             generated |-> FALSE, err |-> FALSE, ready |-> "Unknown", cut |-> FALSE, unseen |-> FALSE,
             faults |-> 1, events |-> 0]

CMNext ==
    \/ buildCharts \/ CMDeploy \/ cleanupExcludedCharts \/ cleanupAccessControl \/ CMMonitor
    \/ NewGCAction \/ CMFinalize
    \/ EditEngine \/ Terminate \/ EditCR \/ DependencyReports \/ CMRestart

-----------------------------------------------------------------------------
\* Properties

CMRest ==
    /\ cloud.pc = "idle" /\ ~cloud.queued /\ cloud.engine = "live"
    /\ \A d \in CMDeps, p \in Parts : cloud.obj[d][p].is # "going"

\* An operator is not taken away before its CR, whose finalizers it processes:
\* no workload is deleted while the CR the manager made for it is there, and
\* Istio's not even when the engine is deleted.
OperatorOutlivesCR ==
    [\A d \in CMDeps : cloud'.engine # "gone" \/ d \in FinalizerCleanupTargets =>
         (cloud.obj[d].workload.is = "live" /\ cloud'.obj[d].workload.is # "live" => ~getOwnedLive(cloud.obj[d].cr))]_cloud

\* A terminating operator keeps its access rights until it is gone, whatever
\* restarts, failures and edits come between the passes.
LeaseReleasable ==
    [cloud'.engine # "gone" => \A d \in CMDeps :
         cloud.obj[d].access.is = "live" /\ cloud'.obj[d].access.is # "live" => ~getOwnedLive(cloud.obj[d].workload)]_cloud

\* At rest every managed dependency is installed and nothing the manager owns
\* is left of the others, unless a pass that rendered anew failed or a CR
\* vanished that nobody watched.
CloudSettled ==
    CMRest /\ ~cloud.cut /\ ~cloud.unseen => \A d \in CMDeps, p \in Parts :
        IF PolicyOf(d, cloud.policy[d]) = "Managed"
        THEN cloud.obj[d][p].is = "live" /\ cloud.obj[d][p].gen = cloud.gen
        ELSE ~getOwnedLive(cloud.obj[d][p])

\* Dependencies are reported ready at rest only if every managed one runs and
\* its CR does not say otherwise.
CloudReadyTruthful ==
    CMRest /\ ~cloud.cut /\ ~cloud.unseen =>
    (cloud.ready = "True" <=> \A d \in CMDeps : PolicyOf(d, cloud.policy[d]) = "Managed" => cloud.health[d] = "ok")

\* A CR that a user made is not deleted by the manager as long as it has not
\* been told to manage the dependency.
ForeignCRKept ==
    [cloud'.events = cloud.events => \A d \in CMDeps :
         cloud.obj[d].cr.is = "live" /\ ~cloud.obj[d].cr.owned => cloud'.obj[d].cr.is = "live"]_cloud

\* What is no longer managed is removed, also when a pass fails on the way.
UnmanagedIsRemoved ==
    CMRest /\ ~cloud.unseen => \A d \in CMDeps, p \in Parts :
        PolicyOf(d, cloud.policy[d]) = "Unmanaged" => ~getOwnedLive(cloud.obj[d][p])

=============================================================================
