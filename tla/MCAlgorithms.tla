---------------------------- MODULE MCAlgorithms ----------------------------
(***************************************************************************)
(* Bounded inputs for the algorithms that keep no state of their own.  The *)
(* variable input holds the algorithm under test and its arguments; every  *)
(* input is one state.                                                     *)
(***************************************************************************)
EXTENDS Kueue, HWPMigration, ModuleHandlers, ClusterDiagnosis, E2EScope

VARIABLE input

NoInput == [of |-> "none"]
UpTo(S, n) == UNION {[1 .. k -> S] : k \in 0 .. n}
States == {"", "Managed", "Removed"}

-----------------------------------------------------------------------------
\* Preconditions

CRD(read, terminating, established, versions) ==
    [read |-> read, terminating |-> terminating, established |-> established, versions |-> versions]
V1(served) == [v \in {"v1"} |-> served]
CRDs == {CRD("none", FALSE, FALSE, V1(FALSE)), CRD("error", FALSE, FALSE, V1(FALSE)),
         CRD("found", TRUE, TRUE, V1(TRUE)), CRD("found", FALSE, TRUE, V1(FALSE)),
         CRD("found", FALSE, FALSE, V1(TRUE)), CRD("found", FALSE, TRUE, V1(TRUE))}

Outcomes == {<<"no", Passed>>, <<"no", Failed>>, <<"no", Indeterminate>>, <<"no", ReadError>>,
             <<"no", [pass |-> FALSE, status |-> ""]>>, <<"no", [pass |-> TRUE, status |-> "False"]>>,
             <<"skip", Failed>>, <<"error", Passed>>}
PreConditions ==
    {[type |-> "DependenciesAvailable", skip |-> o[1], result |-> o[2], severity |-> s[1], stop |-> s[2]] :
        o \in Outcomes, s \in {<<"Info", FALSE>>, <<"Error", TRUE>>}}
    \cup {[type |-> "Other", skip |-> "no", result |-> Failed, severity |-> "Info", stop |-> TRUE]}

HealthConfigs ==
    [filter : SUBSET {<<"Degraded", "True">>, <<"Available", "False">>},
     required : {[t \in {} |-> ""], [Available |-> "True"], [Available |-> "True", Degraded |-> "False"]},
     noMatchAsUnknown : {TRUE}, requireCR : {TRUE}]
ReadCRs ==
    [read : {"found"}, conditions : UpTo([type : {"Available", "Degraded", ""},
                                          status : {"True", "False", "Unknown", ""}], 2)]

\* Kueue
KueueConfigs ==
    [frameworks : SUBSET (DOMAIN frameworkMapping \cup {"other"}), external : {{}, {"pod"}, {"trainer.kubeflow.org/trainjob"}},
     manageJobsWithoutQueueName : {"none"}, fairSharing : {"none"},
     waitForPodsReady : {[enable |-> FALSE, blockAdmission |-> FALSE, timeout |-> "none"]}]
Nodes ==
    UNION {[{"cpu", "memory"} \cup gpus -> {0, 3}] : gpus \in SUBSET {"nvidia.com/gpu", "amd.com/gpu"}}

\* Accelerator profiles
Migrated ==
    [ap : [enabled : {TRUE}, tolerations : {{}, {"gpu"}}],
     config : [sizes : UpTo([request : 0 .. 2, limit : {1, 3}], 3), controller : {TRUE}, tolerate : BOOLEAN,
               key : {"", "notebooks"}]]

-----------------------------------------------------------------------------
\* Module handlers

Workloads ==
    {"aigateway", "databaseservice", "mcplifecycleoperator", "ogx", "ray", "sparkoperator", "trainer", "trustyai",
     "aipipelines", "argo", "aihub", "mlflowoperator", "kserve", "standard", "maasPortal", "workbenches",
     "featureStore", "dataRegistry"}
\* Those that other modules are told about vary alone, the others together.
Told == {"standard", "maasPortal", "featureStore", "dataRegistry", "workbenches", "aihub"}
Clusters == {[d EXCEPT !["mlflowoperator"] = m] : m \in States, d \in
    {[w \in Workloads |-> IF w \in Told THEN told[w] ELSE rest] : told \in [Told -> States], rest \in {"", "Managed"}}}
PlatformConfigs ==
    {[domain |-> "", apps |-> "apps", notebooks |-> "", platform |-> "odh", ingresses |-> <<>>, auth |-> "", issuer |-> ""],
     [domain |-> "d", apps |-> "apps", notebooks |-> "", platform |-> "rhoai", ingresses |-> <<"i", "incomplete">>,
      auth |-> "oidc", issuer |-> "invalid"]}

Stanzas == {NoStanza} \cup {Stanza(s, e) : s, e \in BOOLEAN}
MonitoringSpecs ==
    [metrics : Stanzas, traces : Stanzas, logs : Stanzas, usageLogs : Stanzas, tls : {"none", "enabled"}, replicas : {0, 3}]

Env(name, value, from) == [name |-> name, value |-> value, from |-> from]
Container(name, env) == [name |-> name, image |-> "rendered", env |-> env]
RenderedEnv == {<<>>, <<Env("A", "old", FALSE)>>, <<Env("X", "own", FALSE), Env("A", "", TRUE)>>,
                <<Env("B", "old", FALSE), Env("X", "", TRUE)>>}
Deployments(config) ==
    [name : {deploymentNameFor(config), "other"},
     containers : {<<>>} \cup {<<Container("manager", e)>> : e \in RenderedEnv}
                  \cup {<<Container("proxy", f), Container("manager", e)>> : e, f \in RenderedEnv},
     init : {<<>>, <<Container("copy-manifests", <<>>)>>, <<Container("setup", <<>>)>>}]
Injections ==
    [config : {r[1] : r \in ToSet(registrations)}, image : {"", "relayed"},
     vars : UpTo([name : {"A"}, value : {"", "a"}], 1) \cup {<<[name |-> "A", value |-> "a"], [name |-> "B", value |-> v]>> : v \in {"", "b"}}]

ModuleConfigMaps ==
    {NoObjectYet} \cup {[data |-> [k \in keys |-> "module"]] : keys \in SUBSET (certManagerKeys \cup {"platformVersion", "own"})}

RawReleases == UpTo([name : {"", "platform", "part"}, version : {"", "1"}], 2)
DSCStatuses ==
    {[common |-> FALSE, state |-> "", releases |-> <<>>, namespace |-> ""]}
    \cup [common : {TRUE}, state : {"Managed"}, releases : {<<>>, <<[name |-> "part", version |-> "0"]>>}, namespace : {"", "old"}]

Subs == [source : {"S"}, on : {"", "yes", "no"}, hasField : BOOLEAN]
RawConditions ==
    {[isMap |-> FALSE, type |-> "", status |-> "", reason |-> "", severity |-> ""]}
    \cup [isMap : {TRUE}, type : {"S", "Ready", ""}, status : {"True", "False", ""}, reason : {"told"}, severity : {"", "Info"}]
Reports ==
    [enabled : BOOLEAN, read : BOOLEAN, observedGeneration : 0 .. 2, generation : {2}, raw : UpTo(RawConditions, 2)]

GatewayInputs ==
    {[domain |-> d, apps |-> "apps", notebooks |-> "", platform |-> "odh", ingresses |-> i, auth |-> a, issuer |-> u] :
        d \in {"", "d", "e"}, i \in {<<>>, <<"i">>, <<"j">>, <<"i", "j">>, <<"j", "i">>, <<"incomplete">>}, a \in {"", "oidc"},
        u \in {"", "invalid", "https"}}

Webhooks == SUBSET {<<TRUE, "p">>, <<TRUE, "q">>, <<TRUE, "">>, <<FALSE, "p">>}

-----------------------------------------------------------------------------
\* Diagnosis: a healthy cluster with up to two deviations

NoEnd == [reason |-> "", exit |-> 0]
Fine == [ready |-> TRUE, restarts |-> 0, waiting |-> "", terminated |-> NoEnd]
Waits(reason) == [Fine EXCEPT !.ready = FALSE, !.waiting = reason]
Ended(reason, exit) == [Fine EXCEPT !.terminated = [reason |-> reason, exit |-> exit]]
Pod(c) == [phase |-> "Running", age |-> 9, containers |-> <<Fine, c>>]
Pending(age) == [phase |-> "Pending", age |-> age, containers |-> <<>>]
Deployment(ready, replicas, age) ==
    [replicas |-> replicas, ready |-> ready, age |-> age, selector |-> TRUE, name |-> 1, operator |-> TRUE]
Quota(used, hard) == [used |-> [r \in {"cpu"} |-> used], hard |-> [r \in {"cpu"} |-> hard]]
Conditions(type, status) == <<[type |-> type, status |-> status, removedMessage |-> FALSE]>>
Scanned == NamespaceList("apps", "monitoring", <<"apps", "">>)
InEach(items) == [n \in {"apps", "monitoring"} |-> Listed(items)]

HealthyCluster ==
    [namespaces |-> Scanned, nodes |-> Listed(<<[pressure |-> FALSE, ready |-> "True", network |-> FALSE]>>),
     pods |-> InEach(<<Pod(Fine)>>), deployments |-> InEach(<<Deployment(1, Unset, 9)>>), events |-> InEach(<<>>),
     quotas |-> InEach(<<Quota(1, 2)>>),
     operator |-> [configured |-> TRUE, found |-> TRUE, deployment |-> Deployment(1, 1, 9), pods |-> Listed(<<Pod(Fine)>>),
                   dependents |-> <<[deployments |-> Listed(<<Deployment(1, 1, 9)>>), pods |-> Listed(<<Pod(Fine)>>)]>>],
     dsci |-> [get |-> "found", parses |-> TRUE, conditions |-> Conditions("Ready", "True"), spec |-> Empty, status |-> Empty],
     dsc |-> [get |-> "found", parses |-> TRUE, conditions |-> Conditions("KserveReady", "True"),
              spec |-> [kserve |-> "Managed"], status |-> Empty]]

Containers == {Waits("ImagePullBackOff"), Waits("ContainerCreating"), Ended("OOMKilled", 137), Ended("Completed", 143),
               Ended("Completed", 0), Ended("Error", 1), Ended("Error", 2)}
Deviations ==
    {<<"pods", c>> : c \in {Pod(d) : d \in Containers} \cup {Pending(0), Pending(1), Pending(2), Pending(Unset)}}
    \cup {<<"operatorPods", Pod(c)>> : c \in Containers} \cup {<<"operatorPods", Pending(0)>>}
    \cup {<<"unread", s>> : s \in {"pods", "deployments", "events", "quotas"}}
    \cup {<<"deployments", Deployment(r, 1, age)>> : r \in {0, 2}, age \in {Unset, 0, 1}}
    \cup {<<"events", [age |-> age, signals |-> s]>> : age \in {Unset, 0, 4, 5, 6}, s \in {{"dns", "storage"}}}
    \cup {<<"events", [age |-> 0, signals |-> {}]>>, <<"quotas", Quota(2, 2)>>, <<"quotas", Quota(0, 0)>>}
    \cup {<<"nodes", Unreadable>>, <<"nodes", Listed(<<[pressure |-> FALSE, ready |-> "Unknown", network |-> FALSE]>>)>>}
    \cup {<<"operator", d>> : d \in {Deployment(0, 1, 9), Deployment(0, 0, 9)}} \cup {<<"noOperator", FALSE>>}
    \cup {<<"dependents", d>> : d \in {Deployment(0, 1, 9)}}
    \cup {<<"dsc", c>> : c \in {Conditions("KserveReady", "False"), Conditions("Ready", "Unknown")}} \cup {<<"removed", "kserve">>}
    \cup {<<"dsci", c>> : c \in {Conditions("Degraded", "True"), Conditions("Progressing", "False")}} \cup {<<"noDSCI", "none">>}

Deviate(cl, d) ==
    CASE d[1] \in {"pods", "deployments", "events", "quotas"} -> [cl EXCEPT ![d[1]]["monitoring"].items = Append(@, d[2])]
      [] d[1] = "unread"       -> [cl EXCEPT ![d[2]]["apps"] = Unreadable]
      [] d[1] = "nodes"        -> [cl EXCEPT !.nodes = d[2]]
      [] d[1] = "operatorPods" -> [cl EXCEPT !.operator.pods.items = Append(@, d[2])]
      [] d[1] = "operator"     -> [cl EXCEPT !.operator.deployment = d[2]]
      [] d[1] = "noOperator"   -> [cl EXCEPT !.operator.found = FALSE]
      [] d[1] = "dependents"   -> [cl EXCEPT !.operator.dependents[1].deployments = Listed(<<d[2]>>)]
      [] d[1] = "dsc"          -> [cl EXCEPT !.dsc.conditions = d[2]]
      [] d[1] = "dsci"         -> [cl EXCEPT !.dsci.conditions = d[2]]
      [] d[1] = "removed"      -> [cl EXCEPT !.dsc.spec = [kserve |-> "Removed"]]
      [] OTHER                 -> [cl EXCEPT !.dsci.get = d[2]]

Selections == {<<{}, {}>>, <<{"pods", "dsc"}, {}>>, <<{"operator"}, {}>>, <<{}, {"infrastructure"}>>, <<{}, {"workload"}>>}

-----------------------------------------------------------------------------
\* Scopes of the end-to-end tests: the components a and b and the services s and
\* t, the aliases x and y, the ignored name i, the framework directory r, and u,
\* which nothing registers; b may be a service as well

RuleEntry(deps, aliases, covered) == [deps |-> deps, aliases |-> aliases, covered |-> covered]
Rules ==
    {[component |-> [a |-> RuleEntry(d, {"x"}, TRUE), b |-> RuleEntry(e, y, c)],
      service |-> [n \in {"s", "t"} \cup n2 |->
                     IF n = "s" THEN RuleEntry(f, {"y"}, TRUE) ELSE RuleEntry(<<>>, {}, n = "t")],
      frameworkDirs |-> {"r"}, ignoredNames |-> {"i"}] :
        d \in {<<>>, <<"b">>, <<"y", "i">>, <<"u">>}, e \in {<<>>, <<"a">>, <<"t", "s">>}, f \in {<<>>, <<"x">>},
        y \in {{}, {"a"}, {"z"}}, c \in BOOLEAN, n2 \in {{}, {"b"}}}

PathOf(ignored, manifest, component, service) ==
    [ignored |-> ignored, manifest |-> manifest, component |-> component, service |-> service]
ConfigPath == PathOf(FALSE, TRUE, NoName, NoName)
Paths ==
    {PathOf(FALSE, FALSE, c, NoName) : c \in {"a", "b", "x", "s", "r"}} \cup {PathOf(FALSE, FALSE, NoName, n) : n \in {"t", "y", "b"}}
    \cup {PathOf(TRUE, FALSE, "a", NoName), PathOf(FALSE, FALSE, NoName, NoName), ConfigPath}

Override(component, digest) == [component |-> component, digest |-> digest]
ManifestsConfig(components, charts, overrides, platform) ==
    [parses |-> TRUE, components |-> components, ccmCharts |-> charts, componentCharts |-> Empty,
     imageOverrides |-> overrides, platformManifests |-> platform]
OldConfig == ManifestsConfig([a |-> 1], Empty, [V |-> Override("a", 1), W |-> Override(NoName, 1)], 1)
NewConfigs ==
    {ManifestsConfig(c, h, o, p) : c \in {[a |-> 1], [x |-> 1]}, h \in {Empty, [i |-> 1]}, p \in {1, 2}, o \in
        {OldConfig.imageOverrides, [V |-> Override("b", 1), W |-> Override(NoName, 1)], [W |-> Override(NoName, 2)],
         [V |-> Override(NoName, 1), W |-> Override("u", 1)]}}
    \cup {[OldConfig EXCEPT !.parses = FALSE]}
Source(component, service, readable, mentions) ==
    [path |-> PathOf(FALSE, FALSE, component, service), searched |-> TRUE, readable |-> readable, mentions |-> mentions]
Repos ==
    {[walkable |-> TRUE, files |-> fs] : fs \in
        {{Source("b", NoName, TRUE, {"V", "W"}), Source(NoName, "t", r, {"W"})} : r \in BOOLEAN} \cup {{}}}
    \cup {[walkable |-> FALSE, files |-> {}]}
Gits(files, config) ==
    {[pullBaseSHA |-> g[1], upstream |-> g[2], origin |-> "c1", head |-> "c3", config |-> config,
      diff |-> [c \in {"c1", "c2", "c3"} |-> [files |-> IF c = "c3" THEN {} ELSE files, config |-> OldConfig]]] :
        g \in {<<"c1", NoBase>>, <<"malformed", "c2">>, <<"", "c3">>, <<"", NoBase>>}}

-----------------------------------------------------------------------------
\* One action per algorithm

Try(name, args) == input' = [of |-> name, args |-> args]

TryAPIs == \E crds \in UpTo(CRDs, 3), version \in {"", "v1"} : Try("apis", <<crds, version>>)
TryHealth == \E config \in HealthConfigs, cr \in ReadCRs : Try("health", <<config, cr>>)
TryAggregate == \E pcs \in UpTo(PreConditions, 3) : Try("aggregate", <<pcs>>)
TryIntegrations == \E config \in KueueConfigs, version \in 0 .. 5 : Try("integrations", <<config, version>>)
TryQueue == \E nodes \in UpTo(Nodes, 2) : Try("queue", <<nodes>>)
TryProfiles == \E m \in Migrated : Try("profiles", <<m.ap, m.config>>)
TryProjections == \E dsc \in Clusters, cfg \in PlatformConfigs : Try("projections", <<dsc, cfg>>)
TryMonitoring == \E spec \in MonitoringSpecs, single \in BOOLEAN : Try("monitoring", <<spec, single>>)
TryEnvironment == \E i \in Injections : \E d \in Deployments(i.config) : Try("environment", <<<<d>>, i>>)
TryPlatformKeys ==
    \E cm \in ModuleConfigMaps, platform \in {"xks", "openshift"}, istio \in BOOLEAN :
        Try("platformKeys", <<cm, "1", platform, istio>>)
TryStatus ==
    \E st \in DSCStatuses, enabled \in BOOLEAN, ns \in {"", "new"}, raw \in RawReleases :
        Try("status", <<st, enabled, ns, raw>>)
TrySubmodules ==
    \E st \in DSCStatuses, report \in Reports, sm \in Subs : Try("submodules", <<st, report, sm>>)
TryGatewayInputs ==
    \E old, new \in GatewayInputs, ms \in States : Try("inputs", <<[w \in Workloads |-> ms], old, new>>)
TryNamespaceChange == \E others, old, new \in Webhooks : Try("webhooks", <<others, old, new>>)
TryDiagnosis ==
    \E a, b \in Deviations, s \in Selections, delay \in {0, 1} :
        Try("diagnosis", <<Deviate(Deviate(HealthyCluster, a), b), s, delay>>)
TryScope ==
    \/ \E rules \in Rules, files \in kSubset(1, Paths) \cup kSubset(2, Paths) : \E git \in Gits(files, OldConfig) :
          git.pullBaseSHA = "c1" /\ Try("scope", <<rules, git, CHOOSE r \in Repos : ~r.walkable>>)
    \/ \E rules \in {r \in Rules : DOMAIN r.service = {"s", "t"}}, new \in NewConfigs, repo \in Repos, n \in {"a", "t"} :
          \E git \in Gits({ConfigPath, PathOf(FALSE, FALSE, NoName, n)}, new) : Try("scope", <<rules, git, repo>>)

AlgorithmsNext ==
    /\ input = NoInput
    /\ \/ TryAPIs \/ TryHealth \/ TryAggregate \/ TryIntegrations \/ TryQueue \/ TryProfiles \/ TryProjections
       \/ TryMonitoring \/ TryEnvironment \/ TryPlatformKeys \/ TryStatus \/ TrySubmodules
       \/ TryGatewayInputs \/ TryNamespaceChange \/ TryDiagnosis \/ TryScope

-----------------------------------------------------------------------------
\* The properties of the algorithms, on every input above

Args == input.args

\* CheckRequiredAPIs answers from what the definitions say, in any order.
APIsAlwaysThere == input.of = "apis" => APIsAreThere(Args[1], Args[2])
\* CheckOperatorHealth answers from what the conditions say.
HealthAlwaysReported == input.of = "health" => HealthIsReported(Args[1], Args[2])
\* RunAll combines the checks of a condition fairly, in any order.
AggregateAlwaysFair == input.of = "aggregate" => AggregateIsFair(Args[1])
\* createKueueCR asks for frameworks the installed version has, and for all of them.
IntegrationsAlwaysServable == input.of = "integrations" => IntegrationsServable(Args[1], Args[2])
\* The default queue offers what the nodes have.
QueueAlwaysMatches == input.of = "queue" => QueueMatchesNodes(Args[1])
\* A migrated accelerator profile admits every configured size.
ProfilesAlwaysAdmit == input.of = "profiles" => ProfileAdmitsSizes(Args[1], Args[2])
\* The module handlers agree with each other about every module.
ProjectionsAlwaysAgree == input.of = "projections" => ProjectionsAgree(Args[1], Args[2])
\* The Monitoring resource carries the signals that have somewhere to go.
SignalsAlwaysArrive == input.of = "monitoring" => SignalsArrive(Args[1], Args[2])
\* A module operator's Deployment has the platform's environment.
EnvironmentAlwaysPlatforms == input.of = "environment" => EnvironmentIsPlatforms(Args[1], Args[2])
\* A module's ConfigMap has the platform's keys.
PlatformKeysAlwaysWin == input.of = "platformKeys" => PlatformKeysAuthoritative(Args[1], Args[2], Args[3], Args[4])
\* The DSC's status of a module is that of its latest report.
StatusAlwaysForgets == input.of = "status" => StatusForgetsThePast(Args[1], Args[2], Args[3], Args[4])
\* The DSC mirrors the conditions of a module's parts.
SubmodulesAlwaysMirrored == input.of = "submodules" => SubmoduleIsMirrored(Args[1], Args[2], Args[3])
\* A change of the gateway reaches the resources of the modules.
GatewayInputsAlwaysSeen == input.of = "inputs" => GatewayInputsAreSeen(Args[1], Args[2], Args[3])
\* A change of the OpenTelemetry namespace raises an event.
NamespaceChangeAlwaysSeen == input.of = "webhooks" => NamespaceChangeIsSeen(Args[1], Args[2], Args[3])
\* The classifier blames the infrastructure for what the cluster shows.
DiagnosisAlwaysTruthful ==
    input.of = "diagnosis" => DiagnosisTruthful(Args[1], Args[2][1], Args[2][2], Scanned, Args[3])
\* The scope of the end-to-end tests covers what the change touches.
ScopeAlwaysSafe == input.of = "scope" => ScopeIsSafe(Args[1], Args[2], Args[3])

\* The classifier never takes a graceful shutdown for a failure
\* (isGracefulTermination: "must not be classified as failures even when the exit
\* code is non-zero"); it is asked for the pods section only.
GracefulNeverBlamed ==
    input.of = "diagnosis" => GracefulIsNoFailure(Args[1], Args[2][1], Args[2][2], Scanned, Args[3])

(* AlgorithmsAgree: every algorithm above agrees with its reference on every
   input of its set. *)
AlgorithmsAgree ==
    /\ APIsAlwaysThere /\ HealthAlwaysReported /\ AggregateAlwaysFair
    /\ IntegrationsAlwaysServable /\ QueueAlwaysMatches /\ ProfilesAlwaysAdmit
    /\ ProjectionsAlwaysAgree /\ SignalsAlwaysArrive /\ EnvironmentAlwaysPlatforms
    /\ PlatformKeysAlwaysWin /\ StatusAlwaysForgets /\ SubmodulesAlwaysMirrored
    /\ GatewayInputsAlwaysSeen /\ NamespaceChangeAlwaysSeen
    /\ DiagnosisAlwaysTruthful /\ ScopeAlwaysSafe

=============================================================================
