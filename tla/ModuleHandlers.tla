---------------------------- MODULE ModuleHandlers ----------------------------
(***************************************************************************)
(* What the module handlers derive from the DataScienceCluster and the     *)
(* DSCInitialization: whether a module's operator runs, the module's       *)
(* resource, the environment of its Deployment, its platform ConfigMap and *)
(* the status copied back.  The cleanup of the shared security context     *)
(* constraint of the database module is a small state machine at the end.  *)
(* Names of images, overlays and titles are left out.                      *)
(***************************************************************************)
EXTENDS Naturals, Sequences, FiniteSets, SequencesExt, TLC

CONSTANT
    SCCEvents       \* bound on what happens to the constraint from outside

VARIABLE scc

Empty == [n \in {} |-> ""]

-----------------------------------------------------------------------------
\* Configurations: the Deployment a module names itself, the Helm release
\* whose name is used otherwise, the init container that shares the image.
\* A module without a chart is rendered by Kustomize.

ModuleConfig(name, deployment, release, init) ==
    [name |-> name, deployment |-> deployment, release |-> release, init |-> init]

aigatewayConfig == ModuleConfig("aigateway", "ai-gateway-operator", "", "copy-manifests")
aihubConfig == ModuleConfig("aihub", "aihub-controller-manager", "", "")
aipipelinesConfig ==
    ModuleConfig("aipipelines", "data-science-pipelines-operator-controller-manager", "", "")
dashboardConfig == ModuleConfig("dashboard", "", "dashboard-operator", "")
dataConfig == ModuleConfig("data", "", "opendatahub-feast-operator", "copy-manifests")
databaseserviceConfig ==
    ModuleConfig("databaseservice", "odh-db-operator-operator", "opendatahub-db-operator", "")
kserveConfig == ModuleConfig("kserve", "kserve-module-controller-manager", "", "")
mcplifecycleoperatorConfig ==
    ModuleConfig("mcplifecycleoperator", "mcp-lifecycle-module-operator-controller-manager", "", "")
mlflowoperatorConfig == ModuleConfig("mlflowoperator", "mlflow-operator-controller-manager", "", "")
monitoringConfig == ModuleConfig("monitoring", "odh-observability", "odh-observability", "")
ogxConfig == ModuleConfig("ogx", "opendatahub-ogx-operator", "", "copy-manifests")
rayConfig == ModuleConfig("ray", "ray-module-operator-controller-manager", "", "")
sparkoperatorConfig ==
    ModuleConfig("sparkoperator", "spark-operator-module-controller-manager", "", "")
trainerConfig == ModuleConfig("trainer", "trainer-operator-controller-manager", "", "")
trustyaiConfig == ModuleConfig("trustyai", "trustyai-operator-module-controller-manager", "", "")
workbenchesConfig == ModuleConfig("workbenches", "workbenches-operator", "workbenches-operator", "")

\* The modules in the order and at the runlevel they are registered with.
registrations ==
    <<<<aipipelinesConfig, 20>>, <<dashboardConfig, 20>>, <<databaseserviceConfig, 20>>,
      <<mcplifecycleoperatorConfig, 20>>, <<aihubConfig, 20>>, <<rayConfig, 20>>,
      <<trainerConfig, 20>>, <<workbenchesConfig, 20>>, <<monitoringConfig, 20>>,
      <<kserveConfig, 31>>, <<aigatewayConfig, 32>>, <<dataConfig, 32>>, <<mlflowoperatorConfig, 32>>,
      <<ogxConfig, 32>>, <<sparkoperatorConfig, 32>>, <<trustyaiConfig, 32>>>>

-----------------------------------------------------------------------------
\* Projections.  dsc maps each workload of the DataScienceCluster to its
\* management state, "" when the field is not set; cfg is the gateway's domain
\* and the platform.  A handler yields the state of its module in the Platform
\* and the resource it builds.

NormalizeManagementState(ms) == IF ms = "" THEN "Removed" ELSE ms
Projection(ms, cr) == [state |-> ms, cr |-> cr]
AnyManaged(dsc, workloads) == IF \E w \in workloads : dsc[w] = "Managed" THEN "Managed" ELSE "Removed"
NoCR == [built |-> FALSE]
WithDomain(cfg) == IF cfg.domain = "" THEN Empty ELSE [domain |-> cfg.domain]

\* The spec is copied as it is.
Copied(ms) == Projection(NormalizeManagementState(ms), Empty)

aigateway(dsc, cfg) == Copied(dsc["aigateway"])
databaseservice(dsc, cfg) == Copied(dsc["databaseservice"])
mcplifecycleoperator(dsc, cfg) == Copied(dsc["mcplifecycleoperator"])
ogx(dsc, cfg) == Copied(dsc["ogx"])
sparkoperator(dsc, cfg) == Copied(dsc["sparkoperator"])
trustyai(dsc, cfg) == Copied(dsc["trustyai"])

\* These two are also told the applications namespace.
ray(dsc, cfg) == Projection(NormalizeManagementState(dsc["ray"]), [namespace |-> cfg.apps])
trainer(dsc, cfg) == Projection(NormalizeManagementState(dsc["trainer"]), [namespace |-> cfg.apps])

\* Argo's controllers are on unless they are removed.
aipipelines(dsc, cfg) ==
    Projection(NormalizeManagementState(dsc["aipipelines"]),
               [argo |-> IF dsc["argo"] = "" THEN "Managed" ELSE dsc["argo"]])

aihub(dsc, cfg) ==
    LET ms == NormalizeManagementState(dsc["aihub"])
    IN  Projection(ms, [self |-> ms, namespace |-> cfg.apps, gateway |-> WithDomain(cfg)])

mlflowoperator(dsc, cfg) ==
    LET ms == NormalizeManagementState(dsc["mlflowoperator"])
    IN  Projection(ms, [self |-> ms, gateway |-> WithDomain(cfg)])

kserve(dsc, cfg) ==
    Projection(NormalizeManagementState(dsc["kserve"]),
               [aihub |-> NormalizeManagementState(dsc["aihub"])])

\* One operator ships the dashboard and the portal.  A mistake: it runs for the
\* dashboard only.
StandardOnly(dsc) == AnyManaged(dsc, {"standard"})
dashboardState(dsc) == AnyManaged(dsc, {"standard", "maasPortal"})

dashboardModuleSpec(dsc) ==
    [standard |-> AnyManaged(dsc, {"standard"}), maasPortal |-> AnyManaged(dsc, {"maasPortal"})]

buildComponentsMap(dsc) ==
    [w \in {"aihub", "mlflowoperator", "trustyai", "aipipelines", "dataRegistry"} |->
        NormalizeManagementState(dsc[w])]

resolveNotebooksNamespace(dsc, cfg) ==
    IF dsc["workbenches"] # "Managed" THEN ""
    ELSE IF cfg.notebooks # "" THEN cfg.notebooks
    ELSE IF cfg.platform = "rhoai" THEN "rhods-notebooks" ELSE "opendatahub"

dashboard(dsc, cfg) ==
    Projection(dashboardState(dsc),
               [spec |-> dashboardModuleSpec(dsc), components |-> buildComponentsMap(dsc),
                notebooks |-> resolveNotebooksNamespace(dsc, cfg), gateway |-> WithDomain(cfg)])

\* The feature store and the data registry share an operator.  It is told the
\* issuer when the cluster signs in through one, and is not built from one
\* that is no https address.
getGatewayOIDCSpec(cfg) == IF cfg.auth = "oidc" THEN cfg.issuer ELSE ""

dataState(dsc) == AnyManaged(dsc, {"featureStore", "dataRegistry"})
dataCR(dsc, cfg) ==
    IF getGatewayOIDCSpec(cfg) = "invalid" THEN NoCR
    ELSE [issuer |-> getGatewayOIDCSpec(cfg),
          featureStore |-> NormalizeManagementState(dsc["featureStore"]),
          dataRegistry |-> NormalizeManagementState(dsc["dataRegistry"])]
data(dsc, cfg) == Projection(dataState(dsc), dataCR(dsc, cfg))

\* The default ingress comes first; an additional one needs a name and a
\* gateway.
gatewayStatusIngresses(cfg) ==
    <<"default">> \o SelectSeq(cfg.ingresses, LAMBDA i : i # "incomplete")

workbenches(dsc, cfg) ==
    Projection(NormalizeManagementState(dsc["workbenches"]),
               [mlflow |-> dsc["mlflowoperator"] = "Managed", gatewayDomain |-> cfg.domain,
                ingresses |-> gatewayStatusIngresses(cfg)])

Handlers(dsc, cfg) ==
    [aigateway |-> aigateway(dsc, cfg), aihub |-> aihub(dsc, cfg), aipipelines |-> aipipelines(dsc, cfg),
     dashboard |-> dashboard(dsc, cfg), data |-> data(dsc, cfg),
     databaseservice |-> databaseservice(dsc, cfg), kserve |-> kserve(dsc, cfg),
     mcplifecycleoperator |-> mcplifecycleoperator(dsc, cfg),
     mlflowoperator |-> mlflowoperator(dsc, cfg), ogx |-> ogx(dsc, cfg), ray |-> ray(dsc, cfg),
     sparkoperator |-> sparkoperator(dsc, cfg), trainer |-> trainer(dsc, cfg),
     trustyai |-> trustyai(dsc, cfg), workbenches |-> workbenches(dsc, cfg)]

\* The workloads a module's resource asks its operator to run.
Ships ==
    [dashboard |-> {"standard", "maasPortal"}, data |-> {"featureStore", "dataRegistry"}]

\* Every module that one resource tells another module about is described as
\* it is itself deployed, and the operator of a module runs exactly while one
\* of the workloads it ships is Managed (BuildModuleCR and
\* PopulatePlatformModule of the handlers are computed separately).
ProjectionsAgree(dsc, cfg) ==
    LET of == Handlers(dsc, cfg)
    IN  /\ \A m \in DOMAIN Ships :
            (of[m].state = "Managed") = (\E w \in Ships[m] : dsc[w] = "Managed")
        /\ \A m \in DOMAIN of \ DOMAIN Ships : of[m].state = NormalizeManagementState(dsc[m])
        /\ of.kserve.cr.aihub = of.aihub.state
        /\ \A m \in {"aihub", "mlflowoperator", "trustyai", "aipipelines"} :
            of.dashboard.cr.components[m] = of[m].state
        /\ of.data.cr # NoCR => of.dashboard.cr.components["dataRegistry"] = of.data.cr.dataRegistry
        /\ of.dashboard.cr.components["dataRegistry"] = "Managed" => of.data.state = "Managed"
        /\ (of.dashboard.cr.notebooks # "") = (of.workbenches.state = "Managed")
        /\ of.workbenches.cr.mlflow = (of.mlflowoperator.state = "Managed")
        /\ \E w \in {"standard", "maasPortal"} : of.dashboard.cr.spec[w] = of.dashboard.state

-----------------------------------------------------------------------------
\* The Monitoring resource.  A stanza is absent or has a storage, exporters,
\* both or neither.

NoStanza == [is |-> "absent"]
Stanza(storage, exporters) == [is |-> "set", storage |-> storage, exporters |-> exporters]
Reaches(s) == s.is = "set" /\ (s.storage \/ s.exporters)
OrNone(s, enabled) == IF enabled THEN s ELSE NoStanza

\* A mistake: usage is dropped where it is only forwarded.
StorageOnly(spec) ==
    [spec EXCEPT !.usageLogs = OrNone(@, @.is = "set" /\ @.storage)]
monitoringUsageLogs(spec) == [spec EXCEPT !.usageLogs = OrNone(@, Reaches(@))]

\* single is whether the cluster has one node.
monitoringCR(spec, single) ==
    LET metrics == Reaches(spec.metrics)
        traces == Reaches(spec.traces)
        kept == [monitoringUsageLogs(spec) EXCEPT !.metrics = OrNone(@, metrics),
                                                 !.traces = OrNone(@, traces),
                                                 !.logs = OrNone(@, @.is = "set" /\ @.storage)]
    IN  [kept EXCEPT !.tls = IF traces /\ @ = "enabled" THEN @ ELSE "none",
                     !.replicas = IF ~metrics /\ ~traces THEN 0
                                  ELSE IF @ # 0 THEN @ ELSE IF single THEN 1 ELSE 2]

\* A signal that has somewhere to go is in the Monitoring resource and one
\* that has not is not; collectors run exactly while there are metrics or
\* traces for them, as many as were asked for (monitoring BuildModuleCR).
SignalsArrive(spec, single) ==
    LET cr == monitoringCR(spec, single)
    IN  /\ \A s \in {"metrics", "traces", "usageLogs"} :
            cr[s] = (IF Reaches(spec[s]) THEN spec[s] ELSE NoStanza)
        /\ cr.logs # NoStanza => cr.logs.storage
        /\ (cr.replicas > 0) = (cr.metrics # NoStanza \/ cr.traces # NoStanza)
        /\ cr.replicas > 0 /\ spec.replicas > 0 => cr.replicas = spec.replicas
        /\ cr.tls = "enabled" => cr.traces # NoStanza
        /\ monitoringCR(cr, single) = cr

-----------------------------------------------------------------------------
\* The environment of a module operator's Deployment.  A Deployment has
\* containers, each with a name, an image and a sequence of variables; a
\* variable has a value or takes it from elsewhere.

NotInjected == [failed |-> TRUE]

deploymentNameFor(config) ==
    IF config.deployment # "" THEN config.deployment
    ELSE IF config.release # "" THEN config.release ELSE config.name

findNamedContainer(containers, name) == SelectInSeq(containers, LAMBDA c : c.name = name)

\* A mistake: the variable is added even when it is there.
AppendEnv(env, name, value) == Append(env, [name |-> name, value |-> value, from |-> FALSE])

setOrOverrideEnv(env, name, value) ==
    LET at == SelectInSeq(env, LAMBDA e : e.name = name)
    IN  IF at = 0 THEN Append(env, [name |-> name, value |-> value, from |-> FALSE])
        ELSE [env EXCEPT ![at] = [@ EXCEPT !.value = value, !.from = FALSE]]

\* The init container must be there as soon as there is any.
injectInitContainerImage(deployment, name, image) ==
    IF name = "" \/ deployment.init = <<>> THEN deployment
    ELSE LET at == findNamedContainer(deployment.init, name)
         IN  IF at = 0 THEN NotInjected ELSE [deployment EXCEPT !.init[at].image = image]

\* The variables an injection sets, in order: related images whose value the
\* operator has, fixed ones and the namespaces and platform that are known.
Wanted(injection) == SelectSeq(injection.vars, LAMBDA v : v.value # "")

injectEnvVarsIntoDeployment(deployment, injection) ==
    LET at == findNamedContainer(deployment.containers, "manager")
        image == injection.image
        named == IF image = "" THEN deployment
                 ELSE injectInitContainerImage([deployment EXCEPT !.containers[at].image = image],
                                               injection.config.init, image)
        env == FoldLeft(LAMBDA e, v : setOrOverrideEnv(e, v.name, v.value),
                        deployment.containers[at].env, Wanted(injection))
    IN  IF deployment.containers = <<>> THEN NotInjected
        ELSE IF deployment.name # deploymentNameFor(injection.config) \/ at = 0 THEN deployment
        ELSE IF named = NotInjected THEN NotInjected
        ELSE [named EXCEPT !.containers[at].env = env]

\* Every Deployment of a pass receives what is meant for it; one that cannot
\* fails the pass.
injectModuleEnv(deployments, injections) ==
    LET into(d) == FoldLeft(LAMBDA o, i : IF o = NotInjected THEN o ELSE injectEnvVarsIntoDeployment(o, i),
                            d, injections)
    IN  [k \in 1 .. Len(deployments) |-> into(deployments[k])]

Values(env, name) == {env[k].value : k \in {j \in 1 .. Len(env) : env[j].name = name /\ ~env[j].from}}
Times(env, name) == Len(SelectSeq(env, LAMBDA e : e.name = name))

\* What a pass injects when every registered module is enabled: the platform's
\* variables for all of them, and for each the image of its own operator.
Injected(injection) ==
    [k \in DOMAIN registrations |->
        LET config == registrations[k][1]
        IN  IF config = injection.config THEN injection
            ELSE [injection EXCEPT !.config = config, !.image = IF @ = "" THEN "" ELSE config.name]]

\* After injection the operator's container has the image of its own module, of
\* all that are registered, and each variable the platform knows once, with the
\* platform's value and from nowhere else; every other variable, container and
\* Deployment is as it was rendered; and the next pass changes nothing more
\* (injectModuleEnv runs on freshly rendered and on cached resources alike).
EnvironmentIsPlatforms(deployments, injection) ==
    LET after == injectModuleEnv(deployments, Injected(injection))
        names == {v.name : v \in {Wanted(injection)[k] : k \in 1 .. Len(Wanted(injection))}}
    IN  \A k \in 1 .. Len(deployments) :
            LET old == deployments[k]
                new == after[k]
                at == findNamedContainer(old.containers, "manager")
            IN  new # NotInjected =>
                /\ (new # old => old.name = deploymentNameFor(injection.config))
                /\ \A c \in 1 .. Len(old.containers) \ {at} : new.containers[c] = old.containers[c]
                /\ old.name = deploymentNameFor(injection.config) /\ at # 0 =>
                    /\ new.containers[at].image = IF injection.image = "" THEN old.containers[at].image ELSE injection.image
                    /\ \A n \in names : /\ Times(new.containers[at].env, n) = 1
                                        /\ Cardinality(Values(new.containers[at].env, n)) = 1
                    /\ \A j \in 1 .. Len(Wanted(injection)) :
                        Wanted(injection)[j].value
                            \in Values(new.containers[at].env, Wanted(injection)[j].name)
                    /\ SelectSeq(new.containers[at].env, LAMBDA e : e.name \notin names)
                        = SelectSeq(old.containers[at].env, LAMBDA e : e.name \notin names)
                /\ injectModuleEnv(<<new>>, Injected(injection)) = <<new>>

-----------------------------------------------------------------------------
\* The ConfigMap of a module: the platform's keys and the module's own.

certManagerKeys == {"issuer", "caSecret", "istioCA"}

\* What the platform says, cert-manager's keys on a cluster without OpenShift
\* only and the path for Istio where it is configured.
buildCertManagerConfigParams(istio) ==
    [k \in {"issuer", "caSecret"} \cup (IF istio THEN {"istioCA"} ELSE {}) |-> "platform"]

buildPlatformConfigMap(version, extra) == extra @@ [platformVersion |-> version]

\* A mistake: keys of an earlier pass are left.
KeepKeys(cm, version, extra) == extra @@ [platformVersion |-> version] @@ cm

mergePlatformKeys(cm, version, extra) ==
    extra @@ [platformVersion |-> version] @@ [k \in DOMAIN cm \ certManagerKeys |-> cm[k]]

\* NoObjectYet when the module renders no ConfigMap of that name.
NoObjectYet == [rendered |-> FALSE]
injectPlatformConfig(rendered, version, platform, istio) ==
    LET extra == IF platform = "xks" THEN buildCertManagerConfigParams(istio) ELSE Empty
    IN  IF rendered = NoObjectYet THEN buildPlatformConfigMap(version, extra)
        ELSE mergePlatformKeys(rendered.data, version, extra)

\* Whatever a module's own manifests put into its ConfigMap, its operator reads
\* the platform's version and exactly the cert-manager keys of the platform,
\* beside every other key of the manifests (mergePlatformKeys).
PlatformKeysAuthoritative(rendered, version, platform, istio) ==
    LET cm == injectPlatformConfig(rendered, version, platform, istio)
        alone == injectPlatformConfig(NoObjectYet, version, platform, istio)
    IN  /\ \A k \in DOMAIN alone : k \in DOMAIN cm /\ cm[k] = alone[k]
        /\ DOMAIN cm \cap certManagerKeys = DOMAIN alone \cap certManagerKeys
        /\ rendered # NoObjectYet =>
            \A k \in DOMAIN rendered.data \ (DOMAIN alone \cup certManagerKeys) :
                k \in DOMAIN cm /\ cm[k] = rendered.data[k]

-----------------------------------------------------------------------------
\* What is copied back into the DataScienceCluster.  common is whether the
\* module's part of the status exists.

setReleasesOnDSCField(st, releases) ==
    IF ~st.common /\ releases = <<>> THEN st
    ELSE [st EXCEPT !.common = TRUE, !.releases = releases]

setDSCComponentField(st, enabled, releases) ==
    setReleasesOnDSCField([st EXCEPT !.state = IF enabled THEN "Managed" ELSE "Removed"], releases)

\* AI Hub and Workbenches report a namespace while they are enabled.  A mistake:
\* nothing is written once the module is disabled.
NeverCleared(st, enabled, namespace) ==
    IF ~enabled \/ namespace = "" THEN st
    ELSE [st EXCEPT !.common = TRUE, !.namespace = namespace]

writeDSCWorkbenchNamespace(st, enabled, namespace) ==
    IF ~enabled \/ namespace = "" THEN IF st.common THEN [st EXCEPT !.namespace = ""] ELSE st
    ELSE [st EXCEPT !.common = TRUE, !.namespace = namespace]

\* A release without a name is skipped.
extractReleases(raw) == SelectSeq(raw, LAMBDA r : r.name # "")
platformReleaseVersion(releases) ==
    LET at == SelectInSeq(releases, LAMBDA r : r.name = "platform")
    IN  IF at = 0 THEN "" ELSE releases[at].version

\* The status a module leaves behind depends on its latest report alone, never
\* on what an earlier pass had written: state, releases and namespace are those
\* of this pass, and are empty when it is disabled or reports nothing
\* (setDSCComponentField, writeDSCWorkbenchNamespace).
StatusForgetsThePast(earlier, enabled, namespace, raw) ==
    LET releases == extractReleases(raw)
        written == writeDSCWorkbenchNamespace(setDSCComponentField(earlier, enabled, releases),
                                              enabled, namespace)
    IN  /\ written.state = IF enabled THEN "Managed" ELSE "Removed"
        /\ written.namespace = IF enabled THEN namespace ELSE ""
        /\ written.releases = releases
        /\ platformReleaseVersion(written.releases) # "" =>
            \E k \in 1 .. Len(raw) : raw[k].name = "platform"

-----------------------------------------------------------------------------
\* The conditions of the parts of a module, mirrored from the module's resource.
\* A part sm names the condition of the resource it comes from, is on by itself
\* ("yes" or "no") or with its module (""), and has a field of the DSC's status
\* or none.  A report is what a pass finds of the module.

SubCondition(st, reason, severity) == [status |-> st, reason |-> reason, severity |-> severity]
RemovedSub == SubCondition("False", "Removed", "Info")

\* An entry that is no map, or lacks its type or status, is skipped.
ParseConditions(raw) == SelectSeq(raw, LAMBDA c : c.isMap /\ c.type # "" /\ c.status # "")

StatusIsStale(report) == report.observedGeneration > 0 /\ report.observedGeneration < report.generation
ModuleStatusKnown(report) == report.enabled /\ report.read /\ ~StatusIsStale(report)
ModuleReason(report) == IF report.enabled THEN "NotReady" ELSE "Removed"

\* The last condition of a type counts.
mirrorSubmoduleConditions(conditions, sm) ==
    LET sources == SelectSeq(conditions, LAMBDA c : c.type = sm.source)
    IN  CASE sm.on = "no"    -> RemovedSub
          [] sources = <<>>  -> SubCondition("False", "AwaitingReadiness", "")
          [] OTHER           -> SubCondition(Last(sources).status, Last(sources).reason, Last(sources).severity)

\* A mistake: a part that is on is not removed with its module.
OwnSwitchOnly(sm, parentDisabled, reason) ==
    IF sm.on = "no" THEN RemovedSub ELSE SubCondition("False", reason, "")

setSubmodulesFallback(sm, parentDisabled, reason) ==
    IF parentDisabled \/ sm.on = "no" THEN RemovedSub ELSE SubCondition("False", reason, "")

writeSubmoduleComponentStatus(st, sm, enabled) ==
    IF sm.hasField THEN setDSCComponentField(st, enabled, <<>>) ELSE st

\* ComputeModulesStatusDetailed, for one part of one module.
WriteSubmodule(st, report, sm) ==
    IF ModuleStatusKnown(report)
    THEN [condition |-> mirrorSubmoduleConditions(ParseConditions(report.raw), sm),
          field |-> writeSubmoduleComponentStatus(st, sm, sm.on # "no")]
    ELSE [condition |-> setSubmodulesFallback(sm, ~report.enabled, ModuleReason(report)),
          field |-> writeSubmoduleComponentStatus(st, sm, report.enabled /\ sm.on # "no")]

\* The DSC calls a part of a module ready only when module and part are on and the
\* module's resource, read and current, says so last; it calls it removed exactly
\* when one of the two is off, the condition and the field of the status agreeing;
\* and what it plays down as information the module did, or it is removed
\* (mirrorSubmoduleConditions, setSubmodulesFallback).
SubmoduleIsMirrored(st, report, sm) ==
    LET written == WriteSubmodule(st, report, sm)
        c == written.condition
        off == ~report.enabled \/ sm.on = "no"
        says(k) == report.raw[k].isMap /\ report.raw[k].type = sm.source /\ report.raw[k].status # ""
        asLast(test(_)) == \E k \in DOMAIN report.raw :
                               says(k) /\ test(report.raw[k]) /\ \A j \in DOMAIN report.raw : says(j) => j <= k
        trusted == report.read /\ report.observedGeneration \in {0, report.generation}
    IN  /\ c.status = "True" => ~off /\ trusted /\ asLast(LAMBDA x : x.status = "True")
        /\ c.reason = "Removed" <=> off
        /\ c.severity = "Info" => off \/ asLast(LAMBDA x : x.severity = "Info")
        /\ written.field.state = IF ~sm.hasField THEN st.state ELSE IF off THEN "Removed" ELSE "Managed"

-----------------------------------------------------------------------------
\* Which changes of the GatewayConfig make the DSC controller build the module
\* resources again.  Creation and deletion always do.  A mistake: the additional
\* ingresses are forgotten.

DomainOnly(old, new) == old.domain # new.domain

GatewayConfigModuleInputsChanged(old, new) == old.domain # new.domain \/ old.ingresses # new.ingresses

\* No change that the predicate lets pass unseen alters a module's resource.  The
\* issuer is exempt: the data module's resource has it and the predicate does not
\* look at it, so it is handed on with the next pass
\* (GatewayConfigModuleInputsChanged).
GatewayInputsAreSeen(dsc, old, new) ==
    ~GatewayConfigModuleInputsChanged(old, new) =>
        \A m \in DOMAIN Handlers(dsc, old) :
            \/ Handlers(dsc, old)[m] = Handlers(dsc, new)[m]
            \/ m = "data" /\ getGatewayOIDCSpec(old) # getGatewayOIDCSpec(new)

-----------------------------------------------------------------------------
\* The namespace of the OpenTelemetry operator, read from the webhooks that
\* validate collectors: a configuration is a set of <<collector?, namespace>>.

isOTelCollectorWebhook(w) == w[1] /\ w[2] # ""
isOTelCollectorWebhookConfiguration(c) == \E w \in c : isOTelCollectorWebhook(w)

resolveOTelOperatorNamespace(configurations) ==
    LET found == {w[2] : w \in {v \in UNION configurations : isOTelCollectorWebhook(v)}}
    IN  IF found = {} THEN "" ELSE IF Cardinality(found) > 1 THEN "ambiguous" ELSE CHOOSE n \in found : TRUE

\* A mistake: an update is judged by the new object.
NewObjectOnly(old, new) == isOTelCollectorWebhookConfiguration(new)
otelCollectorWebhookPredicate(old, new) ==
    isOTelCollectorWebhookConfiguration(old) \/ isOTelCollectorWebhookConfiguration(new)

\* No change of a webhook configuration moves the namespace the chart is
\* rendered with unnoticed ({} is a configuration that does not exist).
NamespaceChangeIsSeen(others, old, new) ==
    resolveOTelOperatorNamespace({others, old}) # resolveOTelOperatorNamespace({others, new})
        => otelCollectorWebhookPredicate(old, new)

-----------------------------------------------------------------------------
\* Cleanup of the database module.  Its chart renders a security context
\* constraint that a standalone installation of the same operator may have put
\* on the cluster.  scc is the live constraint, the uid of the Platform (0 when
\* there is none), whether the module is on, whether a pass is due, and what a
\* running pass has looked up; by is the Platform that applied the constraint.

NoConstraint == [is |-> "absent"]
NoLook == [is |-> "none"]

GetOperatorManifests == {"deployment", "namespace", "crd"}
databaseserviceManifests(openshift) == GetOperatorManifests \cup (IF openshift THEN {"scc"} ELSE {})

\* A mistake: the label alone is asked for.
LabelSuffices(live, platform) == live # NoConstraint /\ live.labelled

hasOwnerReferenceUID(owners, uid) == uid \in owners
deleteOnlyOwnedInternalPostgresSCC(live, platform) ==
    /\ live # NoConstraint
    /\ live.labelled
    /\ platform # 0
    /\ hasOwnerReferenceUID(live.owners, platform)

\* A mistake: the cleanup renders without the override.
RenderedByBase(openshift) == GetOperatorManifests \ {"namespace", "crd"}
\* Definitions and namespaces are never deleted with a module.
DeletedOnCleanup(openshift) == databaseserviceManifests(openshift) \ {"namespace", "crd"}

\* The Platform controller applies what is rendered, as an owner.
DeployDatabase ==
    /\ scc.due /\ scc.on /\ scc.platform # 0 /\ scc.seen = NoLook
    /\ scc' = [scc EXCEPT !.due = FALSE,
                         !.live = IF "scc" \notin databaseserviceManifests(scc.openshift) THEN @
                                  ELSE [is |-> "live", labelled |-> TRUE, by |-> scc.platform,
                                        owners |-> {scc.platform} \cup
                                                   (IF @ = NoConstraint THEN {} ELSE @.owners)]]

\* Ownership is looked up, and the deletion follows; a read or a deletion that
\* fails ends the pass, which is repeated.
LookAtConstraint ==
    /\ scc.due /\ ~scc.on /\ scc.platform # 0 /\ scc.seen = NoLook
    /\ scc' = [scc EXCEPT !.due = FALSE,
                         !.seen = [is |-> "looked", live |-> scc.live, platform |-> scc.platform,
                                   ours |-> /\ "scc" \in DeletedOnCleanup(scc.openshift)
                                            /\ deleteOnlyOwnedInternalPostgresSCC(scc.live, scc.platform)]]

DeleteOperatorResources ==
    /\ scc.seen # NoLook
    /\ scc' = [scc EXCEPT !.seen = NoLook, !.live = IF scc.seen.ours THEN NoConstraint ELSE @]

CleanupFails ==
    /\ scc.seen # NoLook
    /\ scc' = [scc EXCEPT !.seen = NoLook, !.due = TRUE]

SCCEvent(new) ==
    /\ scc.events < SCCEvents
    /\ scc' = [new EXCEPT !.events = @ + 1]

SwitchDatabase == SCCEvent([scc EXCEPT !.on = ~@, !.due = TRUE])

\* Someone else installs or removes the same chart, or one without the label.
StandaloneInstall ==
    /\ scc.live = NoConstraint
    /\ \E labelled \in BOOLEAN :
        SCCEvent([scc EXCEPT !.live = [is |-> "live", labelled |-> labelled, by |-> 0, owners |-> {}]])

\* The Platform is deleted or made anew; what it owned alone is collected.
ReplacePlatform == SCCEvent([scc EXCEPT !.platform = IF @ = 0 THEN scc.events + 2 ELSE 0, !.due = TRUE])
CollectOwned ==
    /\ scc.live # NoConstraint /\ scc.live.owners # {} /\ scc.platform \notin scc.live.owners
    /\ scc' = [scc EXCEPT !.live = NoConstraint]

SCCStarts ==
    {[live |-> NoConstraint, platform |-> 1, on |-> on, due |-> TRUE, seen |-> NoLook,
      openshift |-> openshift, events |-> 0] : openshift, on \in BOOLEAN}

SCCInit == scc \in SCCStarts

SCCNext ==
    \/ DeployDatabase \/ LookAtConstraint \/ DeleteOperatorResources \/ CleanupFails
    \/ SwitchDatabase \/ StandaloneInstall \/ ReplacePlatform \/ CollectOwned

\* A constraint that cleanup decides to delete is one the current Platform
\* applied: one from a standalone installation, or of an earlier Platform, is
\* left alone although it carries the same name and label
\* (deleteOnlyOwnedInternalPostgresSCC).
ForeignConstraintKept ==
    scc.seen # NoLook /\ scc.seen.ours => scc.seen.live.by = scc.seen.platform

\* Once the module is off and no pass is due, no constraint is left that this
\* Platform applied, however often it was switched and whatever failed
\* (DeleteOperatorResources renders what the installation rendered).
ConstraintRemoved ==
    ~scc.on /\ ~scc.due /\ scc.seen = NoLook /\ scc.platform # 0 /\ scc.live # NoConstraint
        => scc.live.by # scc.platform

=============================================================================
