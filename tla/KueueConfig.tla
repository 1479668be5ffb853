----------------------------- MODULE KueueConfig -----------------------------
(***************************************************************************)
(* The translation of the manager configuration of the embedded Kueue into *)
(* the CR of the external Kueue operator, and the default queues.          *)
(***************************************************************************)
EXTENDS Naturals, FiniteSets, FiniteSetsExt, Sequences

\* The frameworks in the spelling of the ConfigMap and of the CR; the ones that
\* differ only in their name are one.
frameworkMapping ==
    [f \in {"pod", "batch/job", "trainer.kubeflow.org/trainjob", "sparkoperator.k8s.io/sparkapplication"} |->
        CASE f = "pod" -> "Pod" [] f = "batch/job" -> "BatchJob"
          [] f = "trainer.kubeflow.org/trainjob" -> "TrainJob" [] OTHER -> "SparkApplication"]

\* Minor versions of Kueue 1.x.
frameworkMinVersion == [f \in {"TrainJob", "SparkApplication"} |-> IF f = "TrainJob" THEN 2 ELSE 4]

isFrameworkSupported(f, version) ==
    f \in DOMAIN frameworkMinVersion => version >= frameworkMinVersion[f]

DefaultFrameworks == {"RayJob", "Pod"}

Converted(names, version) ==
    {f \in {frameworkMapping[n] : n \in names \cap DOMAIN frameworkMapping} : isFrameworkSupported(f, version)}

\* A mistake: only what the ConfigMap asks for is held against the version.
GateConfiguredOnly(config, version) ==
    [frameworks |-> DefaultFrameworks \cup DOMAIN frameworkMinVersion \cup Converted(config.frameworks, version),
     externalFrameworks |-> Converted(config.external, version)]

convertIntegrations(config, version) ==
    [frameworks |-> DefaultFrameworks
                    \cup {f \in DOMAIN frameworkMinVersion : isFrameworkSupported(f, version)}
                    \cup Converted(config.frameworks, version),
     externalFrameworks |-> Converted(config.external, version)]

\* The other sections, "none" where the configuration has none.
convertWorkloadManagement(config) ==
    CASE config.manageJobsWithoutQueueName = "none" -> "none"
      [] config.manageJobsWithoutQueueName = "true" -> "None"
      [] OTHER -> "QueueName"

convertGangScheduling(config) ==
    LET wait == config.waitForPodsReady
    IN  [policy    |-> IF wait.enable THEN "ByWorkload" ELSE "none",
         admission |-> CASE ~wait.enable -> "none" [] wait.blockAdmission -> "Sequential" [] OTHER -> "Parallel",
         timeout   |-> IF wait.enable THEN wait.timeout ELSE "none"]

convertPreemption(config) ==
    CASE config.fairSharing = "none" -> "none" [] config.fairSharing = "true" -> "FairSharing"
      [] OTHER -> "Classical"

\* The spec.config of the Kueue CR: sections that are empty are left out.
createKueueCR(config, version) ==
    [integrations |-> convertIntegrations(config, version),
     workloadManagement |-> convertWorkloadManagement(config),
     gangScheduling |-> convertGangScheduling(config),
     preemption |-> convertPreemption(config)]

-----------------------------------------------------------------------------
\* Default queues

supportedGPUMap == [g \in {"nvidia.com/gpu", "amd.com/gpu"} |->
    IF g = "nvidia.com/gpu" THEN "nvidia-gpu-flavor" ELSE "amd-gpu-flavor"]

\* A mistake: the GPUs are those of the first node.
FirstNodeDecides(nodes) ==
    LET gpus == DOMAIN supportedGPUMap \cap (IF nodes = <<>> THEN {} ELSE DOMAIN nodes[1])
    IN  [r \in {"cpu", "memory"} \cup gpus |->
            MapThenSumSet(LAMBDA k : IF r \in DOMAIN nodes[k] THEN nodes[k][r] ELSE 0, DOMAIN nodes)]

\* What the nodes have together, per resource: a GPU counts only where some node
\* lists it.
getClusterResourceInfo(nodes) ==
    LET listed == UNION {DOMAIN nodes[k] : k \in DOMAIN nodes}
        sum[r \in listed, n \in 0..Len(nodes)] ==
            IF n = 0 THEN 0 ELSE sum[r, n - 1] + (IF r \in DOMAIN nodes[n] THEN nodes[n][r] ELSE 0)
        total(r) == IF r \in listed THEN sum[r, Len(nodes)] ELSE 0
    IN  [r \in {"cpu", "memory"} \cup (listed \cap DOMAIN supportedGPUMap) |-> total(r)]

createDefaultResourceFlavors(info) ==
    {"default-flavor"} \cup {supportedGPUMap[g] : g \in DOMAIN info \cap DOMAIN supportedGPUMap}

\* The quota of each flavor; every group covers exactly its flavor's resources.
createDefaultClusterQueue(info) ==
    [f \in createDefaultResourceFlavors(info) |->
        IF f = "default-flavor" THEN [r \in {"cpu", "memory"} |-> info[r]]
        ELSE [r \in {g \in DOMAIN supportedGPUMap : supportedGPUMap[g] = f} |-> info[r]]]

-----------------------------------------------------------------------------
\* Properties, for every input

\* The Kueue CR asks the operator for no framework its version does not know,
\* for every framework of the old configuration that it does, and a later
\* version loses none (convertIntegrations).
IntegrationsServable(config, version) ==
    LET now == createKueueCR(config, version).integrations
        later == createKueueCR(config, version + 1).integrations
    IN  /\ \A f \in now.frameworks \cup now.externalFrameworks : isFrameworkSupported(f, version)
        /\ \A n \in config.frameworks \cap DOMAIN frameworkMapping :
              isFrameworkSupported(frameworkMapping[n], version) => frameworkMapping[n] \in now.frameworks
        /\ now.frameworks \subseteq later.frameworks
        /\ now.externalFrameworks \subseteq later.externalFrameworks

\* The default cluster queue offers what the nodes have and nothing more: each
\* resource in one flavor, with the sum over the nodes as its quota, and every
\* kind of GPU some node lists (getClusterResourceInfo and the two builders).
QueueMatchesNodes(nodes) ==
    LET queue == createDefaultClusterQueue(getClusterResourceInfo(nodes))
        have(r) == MapThenSumSet(LAMBDA k : IF r \in DOMAIN nodes[k] THEN nodes[k][r] ELSE 0, DOMAIN nodes)
        offered == UNION {DOMAIN queue[f] : f \in DOMAIN queue}
    IN  /\ \A f \in DOMAIN queue : \A r \in DOMAIN queue[f] : queue[f][r] = have(r)
        /\ \A f, g \in DOMAIN queue : f # g => DOMAIN queue[f] \cap DOMAIN queue[g] = {}
        /\ \A k \in DOMAIN nodes : DOMAIN nodes[k] \cap DOMAIN supportedGPUMap \subseteq offered

=============================================================================
