-------------------------- MODULE ClusterDiagnosis --------------------------
(***************************************************************************)
(* The health report of a cluster, and the classifier that tells from a    *)
(* report whether a failed test is the fault of the infrastructure.        *)
(*                                                                         *)
(* A cluster is what the calls of one report read; a list that cannot be   *)
(* read is Unreadable.  Ages are in minutes, -1 for a time that is not     *)
(* set.  Reasons and messages are the patterns they match, if any.  The    *)
(* sections kept by namespace are Go maps, and the classifier walks a map  *)
(* in any order.                                                           *)
(***************************************************************************)
EXTENDS Integers, Sequences, FiniteSets, SequencesExt

Unreadable == [read |-> FALSE, items |-> <<>>]
Listed(items) == [read |-> TRUE, items |-> items]
Unset == -1

Sections == {"nodes", "deployments", "pods", "events", "quotas", "operator", "dsci", "dsc"}
layerSections ==
    [infrastructure |-> {"nodes", "quotas"},
     workload |-> {"deployments", "pods", "events", "operator", "dsci", "dsc"},
     operator |-> {"operator", "dsci", "dsc"}]

\* The name "operator" is a layer and a section; the layer is what it means.
expandSectionList(names) ==
    UNION {IF n \in DOMAIN layerSections THEN layerSections[n] ELSE {n} : n \in names}

sectionsToRun(only, layers) ==
    CASE only # {}   -> expandSectionList(only)
      [] layers # {} -> UNION {layerSections[l] : l \in layers \cap DOMAIN layerSections}
      [] OTHER       -> Sections

\* Namespaces to scan: each once, blanks left out.
NamespaceList(apps, monitoring, extra) ==
    FoldLeft(LAMBDA seen, n : IF n = "" \/ n \in ToSet(seen) THEN seen ELSE Append(seen, n),
             <<>>, <<apps, monitoring>> \o extra)

-----------------------------------------------------------------------------
\* Collecting the sections

Section(error, data) == [error |-> error, data |-> data]
ByNamespace(lists, namespaces) ==
    [n \in {m \in ToSet(namespaces) : lists[m].read} |-> lists[n].items]
PartlyRead(lists, namespaces) == \E n \in ToSet(namespaces) : ~lists[n].read
Items(byNamespace) == UNION {ToSet(byNamespace[n]) : n \in DOMAIN byNamespace}

UnhealthyReason(node) == node.pressure \/ node.ready \in {"False", "Unknown"} \/ node.network

runNodesSection(nodes) ==
    Section(~nodes.read \/ \E n \in ToSet(nodes.items) : UnhealthyReason(n), nodes.items)

podUnhealthyReason(pod) ==
    \/ pod.phase \notin {"Running", "Succeeded"}
    \/ /\ pod.phase = "Running"
       /\ \E c \in ToSet(pod.containers) :
              ~c.ready \/ c.restarts > 0 \/ c.waiting # "" \/ c.terminated.reason # ""

runPodsSection(pods, namespaces) ==
    LET found == ByNamespace(pods, namespaces)
    IN  Section(PartlyRead(pods, namespaces) \/ \E p \in Items(found) : podUnhealthyReason(p), found)

desiredReplicas(d) == IF d.replicas = Unset THEN 1 ELSE d.replicas
deploymentToInfo(d) == [ready |-> d.ready, replicas |-> desiredReplicas(d), age |-> d.age]

runDeploymentsSection(deployments, namespaces) ==
    LET found == ByNamespace(deployments, namespaces)
        infos == [n \in DOMAIN found |-> [k \in DOMAIN found[n] |-> deploymentToInfo(found[n][k])]]
    IN  Section(\/ PartlyRead(deployments, namespaces)
                \/ \E d \in Items(infos) : d.replicas > 0 /\ d.ready # d.replicas,
                infos)

DefaultEventsWindow == 5

\* A time that is not set lies before every cutoff.
listRecentEventsInNamespace(events) ==
    SelectSeq(events, LAMBDA e : e.age # Unset /\ e.age <= DefaultEventsWindow)

collectEvents(events, namespaces) ==
    LET found == ByNamespace(events, namespaces)
        all == FlattenSeq([k \in DOMAIN namespaces |->
                   IF namespaces[k] \in DOMAIN found
                   THEN listRecentEventsInNamespace(found[namespaces[k]]) ELSE <<>>])
    IN  SortSeq(all, LAMBDA a, b : a.age < b.age)

runEventsSection(events, namespaces) ==
    Section(PartlyRead(events, namespaces), collectEvents(events, namespaces))

\* A resource that is used up counts as exceeded, one without a limit does not.
resourceQuotaToInfo(q) == {r \in DOMAIN q.used \cap DOMAIN q.hard : q.used[r] >= q.hard[r]}

runQuotasSection(quotas, namespaces) ==
    LET found == ByNamespace(quotas, namespaces)
    IN  Section(\/ PartlyRead(quotas, namespaces)
                \/ \E q \in Items(found) : resourceQuotaToInfo(q) # {},
                found)

NotReady(d) == d.ready < desiredReplicas(d)

\* The first deployment by name that is called an operator, or else the first.
FindOperatorDeploymentInNamespace(deployments) ==
    LET sorted == SortSeq(deployments, LAMBDA a, b : a.name < b.name)
        named == SelectSeq(sorted, LAMBDA d : d.operator)
    IN  IF named # <<>> THEN Head(named) ELSE Head(sorted)

runDependentOperatorCheck(dep) ==
    \/ ~dep.deployments.read
    \/ /\ dep.deployments.items # <<>>
       /\ LET d == FindOperatorDeploymentInNamespace(dep.deployments.items)
          IN  /\ d.selector
              /\ \/ ~dep.pods.read
                 \/ desiredReplicas(d) > 0 /\ NotReady(d)
                 \/ \E p \in ToSet(dep.pods.items) : p.phase # "Running"

NoOperatorData == [deployment |-> FALSE, replicas |-> 0, ready |-> 0, pods |-> <<>>]

runOperatorSection(op) ==
    IF ~op.configured \/ ~op.found THEN Section(TRUE, NoOperatorData)
    ELSE LET info == deploymentToInfo(op.deployment)
             pods == IF op.deployment.selector /\ op.pods.read THEN op.pods.items ELSE <<>>
         IN  Section(\/ ~op.deployment.selector
                     \/ ~op.pods.read
                     \/ info.replicas = 0
                     \/ NotReady(op.deployment)
                     \/ \E p \in ToSet(pods) : p.phase # "Running"
                     \/ \E d \in ToSet(op.dependents) : runDependentOperatorCheck(d),
                     [deployment |-> TRUE, replicas |-> info.replicas, ready |-> info.ready, pods |-> pods])

-----------------------------------------------------------------------------
\* Conditions of the DSCI and of the DSC

conditionTypeToDSCComponentKeys(type) ==
    CASE type = "KserveReady" -> {"kserve"}
      [] type \in {"AIPipelinesReady", "DataSciencePipelinesReady"} -> {"datasciencepipelines", "aipipelines"}
      [] OTHER -> {}

dscRemovedComponentNames(cr) ==
    {k \in DOMAIN cr.spec : cr.spec[k] = "Removed"} \cup {k \in DOMAIN cr.status : cr.status[k] = "Removed"}

\* removedMessage: the message says Removed, or that the parent is not managed.
dscUnhealthyConditions(cr) ==
    {c \in ToSet(cr.conditions) :
        /\ c.status # "True"
        /\ ~c.removedMessage
        /\ conditionTypeToDSCComponentKeys(c.type) \cap dscRemovedComponentNames(cr) = {}}

dsciUnhealthyConditions(cr) ==
    {c \in ToSet(cr.conditions) :
        CASE c.type \in {"Progressing", "Upgradeable"} -> FALSE
          [] c.type = "Degraded" -> c.status = "True"
          [] OTHER -> c.status # "True"}

getUnhealthyChecker(kind, cr) ==
    IF kind = "DSC" THEN dscUnhealthyConditions(cr) ELSE dsciUnhealthyConditions(cr)

\* A CR that is not there, a kind that is not served and a failed call are alike.
getCRByGVK(cr) == cr.get = "found"

\* The data is whether a CR was found.
runCRConditionsSection(kind, cr) ==
    IF ~getCRByGVK(cr) THEN Section(TRUE, FALSE)
    ELSE Section(~cr.parses \/ getUnhealthyChecker(kind, cr) # {}, TRUE)

NotRun(data) == Section(FALSE, data)
Nothing == [n \in {} |-> <<>>]

Run(cl, run) ==
    [nodes |-> IF "nodes" \in run THEN runNodesSection(cl.nodes) ELSE NotRun(<<>>),
     deployments |-> IF "deployments" \in run
                     THEN runDeploymentsSection(cl.deployments, cl.namespaces) ELSE NotRun(Nothing),
     pods |-> IF "pods" \in run THEN runPodsSection(cl.pods, cl.namespaces) ELSE NotRun(Nothing),
     events |-> IF "events" \in run THEN runEventsSection(cl.events, cl.namespaces) ELSE NotRun(<<>>),
     quotas |-> IF "quotas" \in run THEN runQuotasSection(cl.quotas, cl.namespaces) ELSE NotRun(Nothing),
     operator |-> IF "operator" \in run THEN runOperatorSection(cl.operator) ELSE NotRun(NoOperatorData),
     dsci |-> IF "dsci" \in run THEN runCRConditionsSection("DSCI", cl.dsci) ELSE NotRun(FALSE),
     dsc |-> IF "dsc" \in run THEN runCRConditionsSection("DSC", cl.dsc) ELSE NotRun(FALSE)]

Healthy(report) == \A s \in Sections : ~report[s].error

-----------------------------------------------------------------------------
\* The classifier

PendingThreshold == 1
EventAgeThreshold == 5

Verdict(category, subcategory, confidence) ==
    [category |-> category, subcategory |-> subcategory, confidence |-> confidence]
Infrastructure(subcategory, confidence) == Verdict("infrastructure", subcategory, confidence)
NoVerdict == Verdict("", "", "")
unknown == Verdict("unknown", "unclassifiable", "low")
NoSignal == Verdict("unknown", "no-signal", "low")
FirstOf(verdicts) ==
    LET hits == SelectSeq(verdicts, LAMBDA v : v # NoVerdict)
    IN  IF hits = <<>> THEN NoVerdict ELSE Head(hits)

waitingPatterns ==
    [ImagePullBackOff |-> "image-pull", ErrImagePull |-> "image-pull", InvalidImageName |-> "image-pull",
     CrashLoopBackOff |-> "pod-startup", CreateContainerConfigError |-> "pod-startup",
     CreateContainerError |-> "pod-startup"]

terminatedPatterns(t) ==
    CASE t.reason = "OOMKilled"  -> "container-oom"
      [] t.exit = 2              -> "invalid-cli-flags"
      [] t.exit \in {137, 143}   -> "container-exit"
      [] OTHER                   -> ""

isSuccessfulTermination(t) == t.exit = 0
isGracefulTermination(t) == t.reason = "Completed"
Terminated(c) == c.terminated.reason # ""

ContainerVerdict(c) ==
    CASE c.waiting \in DOMAIN waitingPatterns -> Infrastructure(waitingPatterns[c.waiting], "medium")
      [] /\ Terminated(c) /\ ~isGracefulTermination(c.terminated)
         /\ terminatedPatterns(c.terminated) # "" -> Infrastructure(terminatedPatterns(c.terminated), "medium")
      [] OTHER -> NoVerdict

ContainerDistress(c) ==
    \/ c.waiting # ""
    \/ Terminated(c) /\ ~isSuccessfulTermination(c.terminated) /\ ~isGracefulTermination(c.terminated)

StuckPending(pod, delay) ==
    pod.phase = "Pending" /\ pod.age # Unset /\ pod.age + delay > PendingThreshold

\* The items of a section by namespace, in the order in which the map is walked.
Walk(byNamespace, order) ==
    FlattenSeq([k \in DOMAIN order |->
        IF order[k] \in DOMAIN byNamespace THEN byNamespace[order[k]] ELSE <<>>])

classifyFromPods(report, order, delay) ==
    LET pods == Walk(report.pods.data, order)
        verdicts == FlattenSeq([k \in DOMAIN pods |->
            [j \in DOMAIN pods[k].containers |-> ContainerVerdict(pods[k].containers[j])]
            \o <<IF StuckPending(pods[k], delay) THEN Infrastructure("pod-startup", "high") ELSE NoVerdict>>])
    IN  [specific |-> FirstOf(verdicts),
         distress |-> IF \E p \in ToSet(pods) : \E c \in ToSet(p.containers) : ContainerDistress(c)
                      THEN Infrastructure("cluster-distress", "low") ELSE NoVerdict]

\* In the order in which the patterns are tried on an event.
EventSignals == <<"image-pull", "network", "storage", "probe-failure", "rbac", "dns", "timeout">>

EventVerdict(e) ==
    LET hits == SelectSeq(EventSignals, LAMBDA s : s \in e.signals)
    IN  IF hits = <<>> THEN NoVerdict ELSE Infrastructure(Head(hits), "medium")

classifyFromEvents(report, delay) ==
    LET current == SelectSeq(report.events.data, LAMBDA e : e.age + delay <= EventAgeThreshold)
    IN  FirstOf([k \in DOMAIN current |-> EventVerdict(current[k])])

classifyFromQuotas(report) ==
    IF \E q \in Items(report.quotas.data) : resourceQuotaToInfo(q) # {}
    THEN Infrastructure("quota-oom", "high") ELSE NoVerdict

classifyFromNodes(report) ==
    IF \E n \in ToSet(report.nodes.data) : UnhealthyReason(n)
    THEN Infrastructure("node-pressure", "high") ELSE NoVerdict

\* Here a graceful termination is not told apart.
classifyFromOperator(report) ==
    LET op == report.operator.data
        containers == UNION {ToSet(p.containers) : p \in ToSet(op.pods)}
        down == \/ op.deployment /\ (op.replicas = 0 \/ op.ready < op.replicas)
                \/ \E p \in ToSet(op.pods) : p.phase \notin {"Running", "Succeeded"}
                \/ \E c \in containers : \/ c.waiting \in DOMAIN waitingPatterns
                                         \/ Terminated(c) /\ terminatedPatterns(c.terminated) # ""
        uneasy == \E c \in containers : \/ c.waiting # ""
                                        \/ Terminated(c) /\ ~isSuccessfulTermination(c.terminated)
    IN  [specific |-> IF down THEN Infrastructure("operator", "high") ELSE NoVerdict,
         distress |-> IF ~down /\ uneasy THEN Infrastructure("operator", "low") ELSE NoVerdict]

\* The error of a section may mean that nothing was found.
classifyFromCRConditions(name, section) ==
    IF section.error /\ section.data THEN Infrastructure(name, "medium") ELSE NoVerdict

StartingUp(d, delay) == d.age # Unset /\ d.age + delay < PendingThreshold

classifyClusterDistress(report, podDistress, operatorDistress, delay) ==
    LET unready == {d \in Items(report.deployments.data) : d.ready < d.replicas /\ ~StartingUp(d, delay)}
    IN  FirstOf(<<podDistress, operatorDistress,
                  IF unready # {} THEN Infrastructure("cluster-distress", "low") ELSE NoVerdict>>)

\* A mistake: what is uneasy about the operator is reported at once.
OperatorDistressAtOnce(report, order, delay) ==
    LET pods == classifyFromPods(report, order, delay)
        op == classifyFromOperator(report)
        verdict == FirstOf(<<pods.specific, classifyFromEvents(report, delay), classifyFromQuotas(report),
                             classifyFromNodes(report), op.specific, op.distress,
                             classifyFromCRConditions("dsci-unhealthy", report.dsci),
                             classifyFromCRConditions("dsc-unhealthy", report.dsc),
                             classifyClusterDistress(report, pods.distress, op.distress, delay)>>)
    IN  CASE verdict # NoVerdict -> verdict [] Healthy(report) -> NoSignal [] OTHER -> unknown

Classify(report, order, delay) ==
    LET pods == classifyFromPods(report, order, delay)
        op == classifyFromOperator(report)
        verdict == FirstOf(<<pods.specific, classifyFromEvents(report, delay), classifyFromQuotas(report),
                             classifyFromNodes(report), op.specific,
                             classifyFromCRConditions("dsci-unhealthy", report.dsci),
                             classifyFromCRConditions("dsc-unhealthy", report.dsc),
                             classifyClusterDistress(report, pods.distress, op.distress, delay)>>)
    IN  CASE verdict # NoVerdict -> verdict [] Healthy(report) -> NoSignal [] OTHER -> unknown

-----------------------------------------------------------------------------
\* What the cluster itself shows.  A graceful shutdown (a drain, an eviction, a
\* rolling update) is no symptom, whatever the exit code and whoever's pod it is.

Seen(lists, namespaces) == Items(ByNamespace(lists, namespaces))
Broken(c) ==
    \/ c.waiting \in DOMAIN waitingPatterns
    \/ c.terminated.reason = "OOMKilled"
    \/ c.terminated.reason = "Error" /\ c.terminated.exit \in {2, 137, 143}
Uneasy(c) == c.waiting # "" \/ (c.terminated.reason \in {"OOMKilled", "Error"} /\ c.terminated.exit # 0)

FirmSymptom(cl, run, delay) ==
    \/ "pods" \in run /\ \E p \in Seen(cl.pods, cl.namespaces) :
           StuckPending(p, delay) \/ \E c \in ToSet(p.containers) : Broken(c)
    \/ "events" \in run /\ \E e \in Seen(cl.events, cl.namespaces) :
           e.signals # {} /\ e.age \in 0 .. (5 - delay)
    \/ "quotas" \in run /\ \E q \in Seen(cl.quotas, cl.namespaces) :
           \E r \in DOMAIN q.used \cap DOMAIN q.hard : q.hard[r] <= q.used[r]
    \/ "nodes" \in run /\ \E n \in ToSet(cl.nodes.items) : UnhealthyReason(n)
    \/ /\ "operator" \in run /\ cl.operator.configured /\ cl.operator.found
       /\ LET op == cl.operator IN
          \/ desiredReplicas(op.deployment) = 0 \/ NotReady(op.deployment)
          \/ /\ op.deployment.selector
             /\ \E p \in ToSet(op.pods.items) :
                    \/ p.phase \notin {"Running", "Succeeded"}
                    \/ \E c \in ToSet(p.containers) : Broken(c)
    \/ \E kind \in run \cap {"dsci", "dsc"} :
           LET cr == IF kind = "dsc" THEN cl.dsc ELSE cl.dsci IN
           /\ cr.get = "found"
           /\ \/ ~cr.parses
              \/ IF kind = "dsc" THEN dscUnhealthyConditions(cr) # {} ELSE dsciUnhealthyConditions(cr) # {}

WeakSymptom(cl, run, delay) ==
    \/ "pods" \in run /\ \E p \in Seen(cl.pods, cl.namespaces) : \E c \in ToSet(p.containers) : Uneasy(c)
    \/ /\ "operator" \in run /\ cl.operator.configured /\ cl.operator.found /\ cl.operator.deployment.selector
       /\ \E p \in ToSet(cl.operator.pods.items) : \E c \in ToSet(p.containers) : Uneasy(c)
    \/ "deployments" \in run /\ \E d \in Seen(cl.deployments, cl.namespaces) :
           NotReady(d) /\ (d.age = Unset \/ d.age + delay >= 1)

AllRead(cl, run) ==
    /\ \A s \in run \cap {"pods", "deployments", "events", "quotas"} : \A n \in ToSet(cl.namespaces) : cl[s][n].read
    /\ "nodes" \in run => cl.nodes.read
    /\ "operator" \in run => cl.operator.found /\ cl.operator.pods.read
    /\ \A kind \in run \cap {"dsci", "dsc"} : cl[kind].get = "found"

\* An operator pod was shut down gracefully with an exit code other than zero.
DrainedOperator(cl, run) ==
    /\ "operator" \in run /\ cl.operator.configured /\ cl.operator.found /\ cl.operator.deployment.selector
    /\ \E p \in ToSet(cl.operator.pods.items) : \E c \in ToSet(p.containers) :
           c.terminated.reason = "Completed" /\ c.terminated.exit # 0

\* A symptom in a section of the report is blamed on the infrastructure, and with
\* more than a low confidence if it is a firm one, whatever vague ones other
\* sections show.  Without a symptom nothing is blamed, unless an operator pod was
\* shut down gracefully (GracefulIsNoFailure is about that); no signal is
\* claimed only when everything was read; and the order in which the maps are
\* walked changes neither the category nor whether the confidence is low.
DiagnosisTruthful(cl, only, layers, order, delay) ==
    LET run == sectionsToRun(only, layers)
        report == Run(cl, run)
        v == Classify(report, order, delay)
        w == Classify(report, Reverse(order), delay)
        firm == FirmSymptom(cl, run, delay)
        weak == WeakSymptom(cl, run, delay)
    IN  /\ firm \/ weak => v.category = "infrastructure"
        /\ v.category = "infrastructure" => firm \/ weak \/ DrainedOperator(cl, run)
        /\ v.category = "infrastructure" /\ v.confidence = "low" => ~firm
        /\ v = NoSignal => AllRead(cl, run)
        /\ w.category = v.category /\ (w.confidence = "low" <=> v.confidence = "low")

\* "Must never be classified as failures regardless of exit code"
\* (classifier_test.go): a cluster without a symptom is not blamed for
\* containers that were shut down gracefully, those of the operator included.
GracefulIsNoFailure(cl, only, layers, order, delay) ==
    LET run == sectionsToRun(only, layers)
    IN  Classify(Run(cl, run), order, delay).category = "infrastructure"
            => FirmSymptom(cl, run, delay) \/ WeakSymptom(cl, run, delay)
=============================================================================
