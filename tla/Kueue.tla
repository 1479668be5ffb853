------------------------------- MODULE Kueue -------------------------------
(***************************************************************************)
(* The Kueue component: it configures an external Kueue operator and       *)
(* creates default queues in the namespaces that opted in.  The queues and *)
(* the operator's CR are created once and then left to their users.        *)
(*                                                                         *)
(* The pass of the controller is taken apart where it reads namespaces,    *)
(* writes them and creates objects.                                        *)
(***************************************************************************)
EXTENDS Preconditions, KueueConfig

CONSTANTS
    Namespaces,
    KueueEvents     \* bound on what users and the external operator do

VARIABLE kueue

KueueLabels == {"managed", "legacy"}

NoKueueNamespace == [phase |-> "none", labels |-> {}, queue |-> "none"]

Opted(ns) == ns.phase # "none" /\ ns.labels # {}

IsEnabled(state) == state \in {"Managed", "Unmanaged"}

NoBinding == {"no binding"}

\* The DSC controller keeps the CR as the DSC asks; the binding goes with it.  A
\* new generation makes the binding of an older one collectable.
NewCRObject(k, state, auto) ==
    [k EXCEPT !.cr = [state |-> state, auto |-> auto], !.stale = TRUE,
              !.binding = IF IsEnabled(state) THEN @ ELSE NoBinding,
              !.ready = IF IsEnabled(state) THEN @ ELSE "none"]

-----------------------------------------------------------------------------
\* A pass

\* A mistake: the operator's conditions are read the wrong way round.
AvailableMeansDegraded == {<<"Degraded", "True">>, <<"Available", "True">>}

kueueDegradedConditionFilter ==
    {<<"Degraded", "True">>, <<"Available", "False">>, <<"CertManagerAvailable", "False">>}

\* Whether the external operator is installed is read twice in a pass.
OperatorExists(k) == k.operator > 0

\* The answer, when the operator can be read or not.
checkPreConditions(k, read) ==
    CASE k.cr.state = "Managed" -> Failed
      [] k.cr.state = "Unmanaged" /\ ~read -> ReadError
      [] k.cr.state = "Unmanaged" /\ ~OperatorExists(k) -> Failed
      [] OTHER -> Passed

KueuePreConditions(k, read) ==
    LET pc(result, stop) == [type |-> "DependenciesAvailable", skip |-> "no", result |-> result,
                             severity |-> "Error", stop |-> stop]
        health == CheckOperatorHealth(
            [filter |-> kueueDegradedConditionFilter, required |-> <<>>, requireCR |-> FALSE,
             noMatchAsUnknown |-> FALSE],
            [read |-> IF k.config = "none" THEN "none" ELSE "found",
             conditions |-> <<[type |-> "Available", status |-> k.available]>>])
    IN  <<pc(health, FALSE), pc(checkPreConditions(k, read), TRUE)>>

\* The status is written while the CR is there.
Report(k, ready) == [k EXCEPT !.ready = IF IsEnabled(k.cr.state) THEN ready ELSE "none"]

KueueEnd(k) == [k EXCEPT !.pc = "idle", !.snap = [n \in Namespaces |-> NoKueueNamespace], !.todo = {}]

\* The pass ends with an error and is retried.
KueueRetry(k) == [KueueEnd(k) EXCEPT !.queued = TRUE]

\* A pass that is stopped is repeated after a while; where nothing has changed
\* the repetition, which finds the same, is left out.
KueueBegin ==
    \E read \in IF kueue.faults > 0 THEN BOOLEAN ELSE {TRUE} :
      LET results == RunAll(KueuePreConditions(kueue, read))
          seen    == [kueue EXCEPT !.queued = ~read, !.faults = IF read THEN @ ELSE @ - 1, !.run = kueue.cr,
                                   !.deps = results["DependenciesAvailable"].status]
      IN  /\ kueue.pc = "idle" /\ kueue.queued /\ IsEnabled(kueue.cr.state)
          /\ kueue' = IF ShouldStop(results) THEN Report(seen, "False") ELSE [seen EXCEPT !.pc = "prepare"]

resolveKueueResourceGVKs(k) == k.crd # "none"

\* A mistake: the legacy label is forgotten.
ManagedLabelOnly(k) == {n \in Namespaces : Opted(k.ns[n]) /\ "managed" \in k.ns[n].labels}

\* Both labels are looked for; a namespace is taken once.
getManagedNamespaces(k) == {n \in Namespaces : Opted(k.ns[n])}

\* createKueueCR, and the namespaces as they are now; a read that fails ends the
\* pass.
manageDefaultKueueResourcesAction ==
    LET queues == kueue.run.auto /\ resolveKueueResourceGVKs(kueue)
    IN  /\ kueue.pc = "prepare"
        /\ \/ /\ kueue.faults > 0
              /\ kueue' = KueueRetry(Report([kueue EXCEPT !.faults = @ - 1], "False"))
           \/ kueue' = IF ~OperatorExists(kueue) THEN KueueRetry(Report(kueue, "False"))
                       ELSE [kueue EXCEPT
                           !.pc = "label", !.queues = queues, !.snap = IF queues THEN kueue.ns ELSE @,
                           !.todo = IF queues THEN {n \in getManagedNamespaces(kueue) : kueue.ns[n].labels # KueueLabels}
                                    ELSE {}]

\* The Update of a namespace that has changed since it was read is a conflict;
\* one that is gone is passed over.
ensureKueueLabelsOnManagedNamespace(n) ==
    kueue' = IF kueue.ns[n].phase = "none" THEN [kueue EXCEPT !.todo = @ \ {n}]
             ELSE IF kueue.ns[n] # kueue.snap[n] THEN KueueRetry(kueue)
             ELSE [kueue EXCEPT !.ns[n].labels = KueueLabels, !.todo = @ \ {n}, !.queued = TRUE]

KueueLabel == \E n \in kueue.todo : kueue.pc = "label" /\ ensureKueueLabelsOnManagedNamespace(n)

validAdminGroups(groups) == groups \ {"", "system:authenticated"}

\* Without an Auth the binding is not rendered, and collected when it is older
\* than the CR; what is applied for a CR that is gone goes too.
manageKueueAdminRoleBinding(k) ==
    IF ~IsEnabled(k.cr.state) THEN k
    ELSE IF k.auth = "none" THEN [k EXCEPT !.binding = IF k.stale THEN NoBinding ELSE @]
    ELSE [k EXCEPT !.binding = validAdminGroups(k.groups), !.stale = FALSE]

\* A mistake: the queue is applied instead of created.
ApplyQueue(old) == "default"

createDefaultLocalQueue(old) == IF old = "none" THEN "default" ELSE old

configureClusterQueueViewerRoleAction(k) ==
    [k EXCEPT !.role = IF @ = "none" THEN @ ELSE "labelled"]

\* The objects that exist stay as they are; a queue cannot be created in a
\* namespace that has begun to go since it was read.
KueueDeploy ==
    LET wanted  == {n \in getManagedNamespaces([kueue EXCEPT !.ns = kueue.snap]) : kueue.snap[n].phase = "active"}
        refused == {n \in wanted : kueue.ns[n].phase # "active"}
        objects == [kueue EXCEPT !.config = IF @ = "none" THEN "default" ELSE @,
                             !.cq = IF kueue.queues /\ @ = "none" THEN "default" ELSE @]
        made(S) == [objects EXCEPT !.ns = [n \in Namespaces |->
                       IF n \in S THEN [objects.ns[n] EXCEPT !.queue = createDefaultLocalQueue(@)]
                       ELSE objects.ns[n]]]
    IN  /\ kueue.pc = "label" /\ kueue.todo = {}
        /\ IF kueue.queues /\ refused # {}
           THEN \E S \in SUBSET (wanted \ refused) : kueue' = KueueRetry(Report(made(S), "False"))
           ELSE LET done == made(IF kueue.queues THEN wanted ELSE {})
                IN  kueue' = KueueEnd(Report([configureClusterQueueViewerRoleAction(manageKueueAdminRoleBinding(done))
                                              EXCEPT !.queued = @ \/ done # kueue], kueue.deps))

-----------------------------------------------------------------------------
\* Users and the external operator

MayHappen == kueue.events < KueueEvents

Wake(k, wakes) == [k EXCEPT !.events = @ + 1, !.queued = @ \/ wakes]

EditDSC ==
    \E s \in {"Removed", "Managed", "Unmanaged"}, a \in BOOLEAN :
      /\ MayHappen /\ [state |-> s, auto |-> a] # kueue.cr
      /\ kueue' = Wake(NewCRObject(kueue, s, a), IsEnabled(s))

\* Only label changes of namespaces that are opted in afterwards are watched.
EditNamespace ==
    \E n \in Namespaces :
      /\ MayHappen
      /\ \/ \E l \in SUBSET KueueLabels \ {kueue.ns[n].labels} :
              /\ kueue.ns[n].phase # "terminating"
              /\ kueue' = Wake([kueue EXCEPT !.ns[n].labels = l, !.ns[n].phase = "active"], l # {})
         \/ /\ kueue.ns[n].phase = "active"
            /\ kueue' = Wake([kueue EXCEPT !.ns[n].phase = "terminating"], FALSE)
         \/ /\ kueue.ns[n].phase = "terminating"
            /\ kueue' = Wake([kueue EXCEPT !.ns[n] = NoKueueNamespace], Opted(kueue.ns[n]))
         \/ /\ kueue.ns[n].queue # "none" /\ kueue.ns[n].phase = "active"
            /\ \E q \in {"none", "edited"} : kueue' = Wake([kueue EXCEPT !.ns[n].queue = q], TRUE)

\* OperatorCondition or ClusterExtension, and the CRD of the operator's CR.
InstallOperator ==
    \E v \in {0, 2, 4} : MayHappen /\ v # kueue.operator /\ kueue' = Wake([kueue EXCEPT !.operator = v], TRUE)

\* The operator serves the queue APIs once it is configured, and says so.
OperatorReports ==
    /\ kueue.operator > 0 /\ kueue.config # "none"
    /\ \/ /\ kueue.crd = "none" \/ kueue.available = "Unknown"
          /\ kueue' = [kueue EXCEPT !.crd = "v1beta2", !.available = "True", !.queued = TRUE]
       \/ /\ MayHappen /\ \E a \in {"True", "False"} \ {kueue.available} :
             kueue' = Wake([kueue EXCEPT !.available = a], TRUE)

EditOthers ==
    /\ MayHappen
    /\ \/ \E g \in SUBSET {"admins", "", "system:authenticated"} :
            g # kueue.groups /\ kueue.auth = "present" /\ kueue' = Wake([kueue EXCEPT !.groups = g], TRUE)
       \/ kueue' = Wake([kueue EXCEPT !.auth = IF @ = "none" THEN "present" ELSE "none"], TRUE)
       \/ \E r \in {"none", "plain"} \ {kueue.role} : kueue' = Wake([kueue EXCEPT !.role = r], r = "plain")

KueueInit ==
    kueue = [cr |-> [state |-> "Removed", auto |-> TRUE], run |-> [state |-> "Removed", auto |-> TRUE], operator |-> 2, config |-> "none",
             available |-> "Unknown", crd |-> "none", cq |-> "none", auth |-> "present",
             groups |-> {"admins"}, binding |-> NoBinding, stale |-> FALSE, role |-> "none",
             ns |-> [n \in Namespaces |-> NoKueueNamespace], deps |-> "Unknown", ready |-> "none",
             queued |-> FALSE, pc |-> "idle", queues |-> FALSE,
             snap |-> [n \in Namespaces |-> NoKueueNamespace], todo |-> {}, faults |-> 1, events |-> 0]

KueueNext ==
    \/ KueueBegin \/ manageDefaultKueueResourcesAction \/ KueueLabel \/ KueueDeploy
    \/ EditDSC \/ EditNamespace \/ InstallOperator \/ OperatorReports \/ EditOthers

-----------------------------------------------------------------------------
\* Properties

KueueRest == kueue.pc = "idle" /\ ~kueue.queued /\ IsEnabled(kueue.cr.state)

\* At rest, with Kueue unmanaged and its operator there, every namespace that
\* opted in by either label has both and a queue, the ClusterQueue it points
\* to exists, the viewer role is labelled and the binding holds the valid
\* admin groups.
KueueSettled ==
    KueueRest /\ kueue.cr.state = "Unmanaged" /\ kueue.operator > 0 =>
    /\ kueue.config # "none"
    /\ kueue.role # "plain"
    /\ kueue.auth = "present" => kueue.binding = validAdminGroups(kueue.groups)
    /\ kueue.cr.auto /\ kueue.crd # "none" =>
       /\ kueue.cq # "none"
       /\ \A n \in Namespaces : kueue.ns[n].phase = "active" /\ kueue.ns[n].labels # {} =>
            kueue.ns[n].labels = KueueLabels /\ kueue.ns[n].queue # "none"

\* Ready is reported at rest exactly when Kueue is unmanaged and its operator
\* is there and does not say that it is unavailable.
KueueReadyTruthful ==
    KueueRest => (kueue.ready = "True" <=> kueue.cr.state = "Unmanaged" /\ kueue.operator > 0 /\ kueue.available # "False")

\* Queues are created once: what their users made of them is never changed, in
\* whatever order labels, deletions and passes interleave.
UserQueuesKept ==
    [kueue'.pc # kueue.pc => \A n \in Namespaces :
         kueue.ns[n].queue = "edited" => kueue'.ns[n].queue = "edited"]_kueue

=============================================================================
