------------------------------ MODULE Gateway ------------------------------
(***************************************************************************)
(* The GatewayConfig controller: one pass of its action chain is five      *)
(* steps, between which users, the cluster and the gateway provider act.   *)
(* It exposes the default Gateway and one Gateway per additional ingress,  *)
(* each behind an EnvoyFilter that asks an auth proxy.                     *)
(*                                                                         *)
(* A "Gateway" stands for the Gateway with its infrastructure ConfigMap, a *)
(* "Deployment" for the auth proxy with its Service, HTTPRoute, HPA,       *)
(* ServiceAccount, OAuthClient and DestinationRule.                        *)
(***************************************************************************)
EXTENDS GatewayStatus, FiniteSets

CONSTANTS
    Ingresses,      \* names of the additional ingresses
    Default,        \* the default Gateway's target
    Platforms,      \* cluster types considered
    SessionKeys,    \* the random cookie keys
    NoKey,
    MaxEdits        \* bound on what users, the cluster and faults may do

Targets == Ingresses \cup {Default}

\* The name of a default Gateway is refused for an additional ingress.
ASSUME DefaultAssumption == Default \notin Ingresses

Kinds == {"Gateway", "Secret", "Deployment", "EnvoyFilter", "NetworkPolicy", "Route"}

VARIABLES
    platform,   \* "OpenShift" or "Kubernetes"
    cluster,    \* what the pass reads and does not own
    spec, gen,  \* the GatewayConfig
    status,
    obj,        \* per kind and target, the object of that name
    late,       \* foreign objects and the auth mode that appeared during the pass
    queued, pc, rr, edits

vars == <<platform, cluster, spec, gen, status, obj, late, queued, pc, rr, edits>>

Blank == [client |-> 0, key |-> NoKey, ca |-> 0, mode |-> ""]

Absent == [owner |-> "none", gen |-> 0, ok |-> FALSE, val |-> Blank]

Exists(k, t) == obj[k][t].owner # "none"

Own(k, t) == obj[k][t].owner = "own"

-----------------------------------------------------------------------------
\* The configuration

IngressModes == {"", "OcpRoute", "LoadBalancer"}

CertTypes == {"", "OpenshiftDefaultIngress", "SelfSigned", "Provided"}

\* "cert" is "nil" when spec.certificate is absent, its type otherwise.
GatewayConfigSpec ==
    [mode : IngressModes, cert : CertTypes \cup {"nil"}, domain : BOOLEAN, oidc : BOOLEAN,
     ca : BOOLEAN, extra : SUBSET Ingresses, clash : SUBSET Ingresses]

KubernetesValidationErrors(s) ==
    \/ s.cert = "OpenshiftDefaultIngress"
    \/ s.mode = "OcpRoute"
    \/ s.extra # {} /\ s.mode = ""

rejectUnsupportedKubernetesGatewaySpec(s) ==
    platform = "Kubernetes" /\ KubernetesValidationErrors(s)

\* Without an OpenShift ingress domain spec.domain is required.
ErrDomainRequired(s) == platform = "Kubernetes" /\ ~s.domain

ValidateAdditionalIngresses(s, mode) == s.extra # {} => mode \in {"", "OcpRoute"}

effectiveCertificateType(s) ==
    IF s.cert \notin {"nil", ""} THEN s.cert
    ELSE IF platform = "Kubernetes" THEN "SelfSigned" ELSE "OpenshiftDefaultIngress"

getGatewayAuthenticationMode(s) ==
    IF platform = "Kubernetes" THEN IF s.oidc THEN "OIDC" ELSE "None" ELSE cluster.auth

OIDCWithoutConfig(s) == getGatewayAuthenticationMode(s) = "OIDC" /\ ~s.oidc

ProxyDesired(s) == getGatewayAuthenticationMode(s) # "None" /\ ~OIDCWithoutConfig(s)

\* The mode of an unset spec.ingressMode is that of the provider's Service.
detectIngressMode ==
    CASE cluster.svc = "LoadBalancer" -> "LoadBalancer"
      [] cluster.svc = "ClusterIP"    -> "OcpRoute"
      [] OTHER -> IF platform = "Kubernetes" THEN "LoadBalancer" ELSE "OcpRoute"

-----------------------------------------------------------------------------
\* A pass

Conflict(r, t) == t # Default /\ additionalIngressHasGatewayConflict(r.ing[t], r.gen)

\* The per-target results of the pass, as conditions.
AuthCondition(reason, g) ==
    Condition(CASE reason = "Ready" -> "True"
                [] reason \in {"ReconciliationPending", "StatusReadFailed"} -> "Unknown"
                [] OTHER -> "False", reason, g)

publishAdditionalIngressAuthConditions(r) ==
    [i \in Ingresses |-> IF i \in r.spec.extra /\ r.ing[i] # NoStatus /\ r.auth[i] # "none"
        THEN [r.ing[i] EXCEPT !["AuthenticationReady"] = AuthCondition(r.auth[i], r.gen)]
        ELSE r.ing[i]]

\* A GatewayConfig with nothing set.
ZeroSpec == [mode |-> "", cert |-> "nil", domain |-> FALSE, oidc |-> FALSE, ca |-> FALSE,
             extra |-> {}, clash |-> {}]

NoPass == [spec |-> ZeroSpec, gen |-> 0, mode |-> "", ing |-> [i \in Ingresses |-> NoStatus],
           config |-> "Unknown", want |-> {}, creds |-> [t \in Targets |-> Blank],
           auth |-> [i \in Ingresses |-> "none"], failed |-> {}, requeue |-> FALSE,
           redirect |-> FALSE]

\* An action failed: the status is written and the request is retried.
EndWithError(r) ==
    /\ status' = [status EXCEPT !.gen = r.gen, !.config = r.config, !.ready = "False",
                                !.ing = publishAdditionalIngressAuthConditions(r)]
    /\ pc' = "idle" /\ queued' = TRUE /\ rr' = NoPass /\ late' = {}

\* Step 1: syncAdditionalIngressStatus and createGatewayInfrastructure.

\* Only the hostname is compared.
HostnameConflictOnly(s, i) == IF i \in s.clash THEN "HostnameConflict" ELSE "none"

ConflictReason(s, i) ==
    IF i \in s.clash THEN "HostnameConflict"
    ELSE IF obj["Gateway"][i].owner = "foreign" THEN "OwnershipConflict" ELSE "none"

\* A conflict that is gone leaves a pending condition; an ingress without an
\* entry in the status gets none.
CheckConflicts(s, ing, g) ==
    [i \in Ingresses |->
        IF i \notin s.extra \/ ing[i] = NoStatus THEN ing[i]
        ELSE IF ConflictReason(s, i) # "none"
        THEN [ing[i] EXCEPT !["GatewayReady"] = Condition("False", ConflictReason(s, i), g)]
        ELSE IF additionalIngressHasGatewayConflict(ing[i], g)
        THEN [ing[i] EXCEPT !["GatewayReady"] = Pending(g)] ELSE ing[i]]

createAdditionalGateways(r) ==
    {<<"Gateway", i>> : i \in {j \in r.spec.extra : ~Conflict(r, j)}}

\* The router's certificate is copied for a load balancer that uses it.
handleCertificates(s, mode) ==
    IF mode # "OcpRoute" /\ effectiveCertificateType(s) = "OpenshiftDefaultIngress"
    THEN cluster.router ELSE cluster.tls

\* A policy from before the GatewayConfig owned policies.
deleteLegacyNetworkPolicy ==
    [obj EXCEPT !["NetworkPolicy"][Default] = IF @.owner = "legacy" THEN Absent ELSE @]

\* detectAndSetIngressMode: a mode that the Service tells is written to the spec.
Detects == ~rejectUnsupportedKubernetesGatewaySpec(spec) /\ spec.mode = ""

ModePinned == Detects /\ cluster.svc # "none"

ModeInForce == IF Detects THEN detectIngressMode ELSE spec.mode

PinnedSpec == [spec EXCEPT !.mode = IF ModePinned THEN ModeInForce ELSE @]

PinnedGen == IF ModePinned THEN gen + 1 ELSE gen

\* syncAdditionalIngressStatus comes first, and the answer to that write brings
\* back the entries that were stored.
StartedPass ==
    LET stored == \E i \in Ingresses : status.ing[i] # NoStatus
    IN  [NoPass EXCEPT !.spec = PinnedSpec, !.gen = PinnedGen, !.mode = ModeInForce,
                       !.ing = IF ModePinned /\ stored THEN status.ing
                               ELSE buildAdditionalIngressStatuses(spec.extra, status.ing, gen),
                       !.config = status.config]

CheckedPass == [StartedPass EXCEPT !.ing = CheckConflicts(PinnedSpec, @, PinnedGen)]

ModeMismatch == Exists("Gateway", Default) /\ obj["Gateway"][Default].val.mode # ModeInForce

createGatewayInfrastructure ==
    LET blocked == rejectUnsupportedKubernetesGatewaySpec(spec)
        valid   == ValidateAdditionalIngresses(PinnedSpec, ModeInForce)
    IN  /\ pc = "idle" /\ queued
        /\ spec' = PinnedSpec /\ gen' = PinnedGen /\ late' = {}
        /\ IF blocked \/ (valid /\ ErrDomainRequired(PinnedSpec))
           THEN /\ rr' = [StartedPass EXCEPT !.config = "False", !.mode = ""]
                /\ obj' = IF blocked THEN obj ELSE deleteLegacyNetworkPolicy
                /\ pc' = "cleanup" /\ queued' = ModePinned
                /\ UNCHANGED <<status, cluster>>
           ELSE IF ~valid THEN EndWithError(StartedPass) /\ UNCHANGED <<obj, cluster>>
           ELSE IF ModeMismatch      \* reconcileGatewayForModeChange
           THEN /\ obj' = [obj EXCEPT !["Gateway"][Default] = Absent]
                /\ EndWithError(CheckedPass) /\ UNCHANGED cluster
           ELSE /\ rr' = [CheckedPass EXCEPT !.want =
                       {<<"Gateway", Default>>} \cup createAdditionalGateways(CheckedPass)]
                /\ cluster' = [cluster EXCEPT !.tls = handleCertificates(PinnedSpec, ModeInForce)]
                /\ pc' = "auth" /\ queued' = ModePinned
                /\ UNCHANGED <<status, obj>>
        /\ UNCHANGED <<platform, edits>>

\* A mistaken rotation: the cookie key is renewed with the client credential.
NewKeyWithClient(mode, t, fresh) ==
    LET old == obj["Secret"][t].val
    IN  IF mode = "IntegratedOAuth" /\ Exists("Secret", t) THEN old
        ELSE [Blank EXCEPT !.client = IF mode = "OIDC" THEN cluster.client[t] ELSE 3,
                           !.key = fresh]

\* Step 2: createKubeAuthProxyInfrastructure.

\* The client credential comes from the administrator's Secret on every pass in
\* OIDC mode; the cookie key of an existing Secret is always kept.
getAuthProxySecretValues(mode, t, fresh) ==
    LET old == obj["Secret"][t].val
    IN  IF mode = "IntegratedOAuth" /\ Exists("Secret", t) THEN old
        ELSE [Blank EXCEPT !.client = IF mode = "OIDC" THEN cluster.client[t] ELSE 3,
                           !.key = IF Exists("Secret", t) THEN old.key ELSE fresh]

\* errInvalidAuthenticationConfig, or a Secret that has another controller.
PreparationFails(s, mode, t) ==
    \/ mode = "OIDC" /\ (~s.oidc \/ cluster.client[t] = 0)
    \/ obj["Secret"][t].owner = "foreign"

\* The proxies of the targets in "ok" get their Secret at once, ahead of deploy.
createSecret(ok, mode, fresh) ==
    [obj EXCEPT !["Secret"] = [t \in Targets |-> IF t \in ok
        THEN [@[t] EXCEPT !.owner = "own", !.val = getAuthProxySecretValues(mode, t, fresh)]
        ELSE @[t]]]

\* A provider CA that is configured and missing stops the pass.
TemplateDataFails(s) == s.ca /\ cluster.ca = 0

\* A mistake: a target whose preparation failed gets nothing at all.
NoPoliciesWhenFailed(live, bad, netpol) ==
    {<<"EnvoyFilter", t>> : t \in live \ bad}
    \cup {<<"NetworkPolicy", t>> : t \in IF netpol THEN live \ bad ELSE {}}

\* A target whose preparation failed still gets its filter, and the default
\* Gateway its NetworkPolicy.
PoliciesOf(live, bad, netpol) ==
    {<<"EnvoyFilter", t>> : t \in live}
    \cup {<<"NetworkPolicy", t>> : t \in IF netpol THEN {u \in live : u \notin bad \/ u = Default} ELSE {}}

\* A default Gateway alone does without authentication when OIDC has no settings.
AuthMode(s) ==
    IF OIDCWithoutConfig(s) /\ s.extra = {} THEN "None" ELSE getGatewayAuthenticationMode(s)

Live(r) == {t \in {Default} \cup r.spec.extra : ~Conflict(r, t)}

Bad(r) == {t \in Live(r) : AuthMode(r.spec) # "None" /\ PreparationFails(r.spec, AuthMode(r.spec), t)}

Prepared(r) == IF AuthMode(r.spec) = "None" THEN {} ELSE Live(r) \ Bad(r)

FailedTargets(r) == IF OIDCWithoutConfig(r.spec) THEN {} ELSE Bad(r)

AuthResult(r, i) ==
    IF i \notin r.spec.extra THEN "none"
    ELSE IF AuthMode(r.spec) = "None" THEN "AuthenticationBlocked"
    ELSE IF i \in Prepared(r) THEN "ReconciliationPending"
    ELSE IF i \in FailedTargets(r) THEN "AuthenticationUnavailable"
    ELSE IF i \in Bad(r) THEN "InvalidAuthenticationConfig" ELSE "none"

ConfigResult(r) ==
    IF OIDCWithoutConfig(r.spec) \/ Default \in Bad(r) THEN "False"
    ELSE IF getGatewayAuthenticationMode(r.spec) = "None" THEN "True" ELSE "Unknown"

PreparedPass(r, fresh) ==
    [r EXCEPT !.config = ConfigResult(r), !.auth = [i \in Ingresses |-> AuthResult(r, i)],
              !.failed = FailedTargets(r), !.requeue = FailedTargets(r) # {},
              !.creds = [t \in Targets |-> IF t \in Prepared(r)
                  THEN getAuthProxySecretValues(AuthMode(r.spec), t, fresh) ELSE Blank],
              !.want = @ \cup PoliciesOf(Live(r), Bad(r), ProxyDesired(r.spec))
                         \cup ({"Secret", "Deployment"} \X Prepared(r))]

InterruptedPass(r, f, seen, config) ==
    [r EXCEPT !.config = config,
              !.auth = [i \in Ingresses |-> IF i \in seen THEN AuthResult(r, i)
                                           ELSE IF i = f THEN "StatusReadFailed" ELSE "none"]]

prepareAuthProxies ==
    /\ pc = "auth"
    /\ IF TemplateDataFails(rr.spec) THEN EndWithError(rr) /\ UNCHANGED <<obj, edits>>
       ELSE IF Bad(rr) = {Default} /\ rr.spec.extra = {} THEN
            EndWithError([rr EXCEPT !.config = ConfigResult(rr)]) /\ UNCHANGED <<obj, edits>>
       ELSE \E fresh \in SessionKeys :
            \/ /\ obj' = createSecret(Prepared(rr), AuthMode(rr.spec), fresh)
               /\ rr' = PreparedPass(rr, fresh)
               /\ pc' = "cleanup" /\ queued' = (queued \/ obj' # obj)
               /\ UNCHANGED <<status, late, edits>>
            \/ \* a read or write for target f fails; the default target comes first
               \E f \in Live(rr), seen \in SUBSET Live(rr) :
               /\ edits < MaxEdits /\ edits' = edits + 1
               /\ ProxyDesired(rr.spec) /\ f \notin seen
               /\ IF f = Default THEN seen = {} ELSE Default \in seen
               /\ obj' = createSecret(seen \cap Prepared(rr), AuthMode(rr.spec), fresh)
               /\ \E config \in IF f = Default THEN {"Unknown", "False"} ELSE {ConfigResult(rr)} :
                    EndWithError(InterruptedPass(rr, f, seen, config))
    /\ UNCHANGED <<platform, cluster, spec, gen>>

\* Step 3: cleanupKubeAuthProxyResources, createOCPRoutes and the redirects.

\* A mistake: whatever has the name.
DeleteByName(o) == Absent

deleteKubeAuthProxyResource(o) == IF o.owner \in {"own", "legacy"} THEN Absent ELSE o

\* The cleanup forgotten: proxies are left to the garbage collection.
LeaveProxies(s) == obj

cleanupKubeAuthProxyResources(s) ==
    IF ProxyDesired(s) THEN obj
    ELSE [k \in DOMAIN obj |-> [t \in Targets |->
            IF k \in {"Deployment", "NetworkPolicy"} /\ t \in {Default} \cup s.extra
            THEN deleteKubeAuthProxyResource(obj[k][t]) ELSE obj[k][t]]]

ForeignRoute(r, i) == i \in r.spec.extra /\ ~Conflict(r, i) /\ obj["Route"][i].owner = "foreign"

createAdditionalIngressRoutes(r) ==
    {<<"Route", i>> : i \in {j \in r.spec.extra : ~Conflict(r, j) /\ ~ForeignRoute(r, j)}}

createOCPRoutes(r) ==
    IF r.mode # "OcpRoute" THEN r
    ELSE [r EXCEPT !.want = @ \cup {<<"Route", Default>>} \cup createAdditionalIngressRoutes(r),
                   !.ing = [i \in Ingresses |-> IF ForeignRoute(r, i) /\ @[i] # NoStatus
                       THEN [@[i] EXCEPT !["RouteAdmitted"] = Condition("False", "OwnershipConflict", r.gen)]
                       ELSE @[i]]]

\* "dashboard": a Dashboard exists and the opt-out annotation is not set.
DashboardRedirectsWanted == cluster.dashboard

cleanupAndRoutes ==
    /\ pc = "cleanup"
    /\ obj' = cleanupKubeAuthProxyResources(rr.spec)
    /\ rr' = [createOCPRoutes(rr) EXCEPT !.redirect = platform = "OpenShift" /\ DashboardRedirectsWanted]
    /\ cluster' = IF platform = "OpenShift" /\ ~DashboardRedirectsWanted
                  THEN [cluster EXCEPT !.redirects = FALSE] ELSE cluster
    /\ pc' = "deploy" /\ queued' = (queued \/ obj' # obj)
    /\ UNCHANGED <<platform, spec, gen, status, late, edits>>

\* Step 4: the render and deploy actions.

DesiredValue(k, t) ==
    CASE k = "Secret"     -> rr.creds[t]
      [] k = "Deployment" -> [rr.creds[t] EXCEPT !.ca = IF rr.spec.ca THEN cluster.ca ELSE 0]
      [] k = "Gateway"    -> [Blank EXCEPT !.mode = IF t = Default THEN rr.mode ELSE "OcpRoute"]
      [] OTHER            -> Blank

Applied(k, t) ==
    [owner |-> "own", gen |-> rr.gen, val |-> DesiredValue(k, t),
     ok |-> Own(k, t) /\ obj[k][t].ok /\ obj[k][t].val = DesiredValue(k, t)]

\* A mistake: routes first.
RoutesFirst(o) == IF o[1] = "Route" THEN 0 ELSE IF o[1] = "Gateway" THEN 1 ELSE 2

\* Objects are applied in the order in which the actions added them: the
\* Gateways, the default one first, then what authenticates each target, the
\* Routes of the additional ingresses and, rendered last, the default Route.
Stage(o) ==
    CASE o[1] = "Gateway" -> IF o[2] = Default THEN 1 ELSE 2
      [] o[1] = "Route"   -> IF o[2] = Default THEN 6 ELSE 5
      [] OTHER            -> IF o[2] = Default THEN 3 ELSE 4

\* Within a target, the Secret and the templates in the order they are listed.
TemplateOrder(k) ==
    CASE k = "Secret" -> 1 [] k = "Deployment" -> 2 [] k = "EnvoyFilter" -> 3 [] OTHER -> 4

AppliedBefore(o, p) ==
    \/ Stage(o) < Stage(p)
    \/ Stage(o) = Stage(p) /\ o[2] = p[2] /\ TemplateOrder(o[1]) < TemplateOrder(p[1])

Apply(done) ==
    [k \in DOMAIN obj |-> [t \in Targets |-> IF <<k, t>> \in done THEN Applied(k, t) ELSE obj[k][t]]]

\* A failed apply ends the pass.  What comes before the object is in place; the
\* order of the additional ingresses among themselves is left open.
deploy ==
    /\ pc = "deploy"
    /\ \/ /\ obj' = Apply(rr.want)
          /\ cluster' = [cluster EXCEPT !.redirects = @ \/ rr.redirect]
          /\ pc' = "status" /\ queued' = (queued \/ obj' # obj)
          /\ UNCHANGED <<status, late, rr, edits>>
       \/ \E p \in rr.want :
          \E more \in SUBSET {o \in rr.want \ {p} : ~AppliedBefore(o, p) /\ ~AppliedBefore(p, o)} :
          /\ edits < MaxEdits /\ edits' = edits + 1
          /\ obj' = Apply({o \in rr.want : AppliedBefore(o, p)} \cup more)
          /\ EndWithError(rr)
          /\ UNCHANGED cluster
    /\ UNCHANGED <<platform, spec, gen>>

\* Step 5: readiness, status and garbage collection.

syncAdditionalIngressRouteReadiness(i, g) ==
    LET o == obj["Route"][i]
    IN  IF o.owner = "none" THEN Pending(g)
        ELSE IF o.owner = "foreign" THEN Condition("False", "OwnershipConflict", g)
        ELSE additionalIngressRouteCondition(
                IF o.ok THEN <<[host |-> i, router |-> "own", type |-> "Admitted", status |-> "True"]>>
                ELSE <<>>, i, "own", g)

checkKubeAuthProxyDeployment(t) == Exists("Deployment", t) /\ obj["Deployment"][t].ok

\* The Deployment is not looked at.
ReadyOncePrepared(r, i) ==
    IF r.auth[i] = "ReconciliationPending" THEN "Ready" ELSE r.auth[i]

syncAdditionalIngressAuthReadiness(r, i) ==
    IF r.auth[i] \in {"AuthenticationBlocked", "InvalidAuthenticationConfig", "AuthenticationUnavailable"}
    THEN r.auth[i]
    ELSE IF checkKubeAuthProxyDeployment(i) THEN "Ready" ELSE "NotReady"

syncAdditionalIngressReadiness(r) ==
    LET live == {i \in r.spec.extra : r.ing[i] # NoStatus /\ ~Conflict(r, i)}
        gatewayReady(i) == IF ~Exists("Gateway", i) THEN Pending(r.gen)
                           ELSE IF obj["Gateway"][i].ok THEN Condition("True", "Ready", r.gen)
                           ELSE Condition("False", "NotReady", r.gen)
        auth == [i \in Ingresses |-> IF i \in live THEN syncAdditionalIngressAuthReadiness(r, i) ELSE r.auth[i]]
    IN  [r EXCEPT !.ing = [i \in Ingresses |-> IF i \in live
                      THEN [@[i] EXCEPT !["GatewayReady"] = gatewayReady(i),
                                        !["RouteAdmitted"] = syncAdditionalIngressRouteReadiness(i, r.gen)]
                      ELSE @[i]],
                  !.auth = auth,
                  !.requeue = @ \/ \E i \in live : auth[i] \in {"NotReady", "AuthenticationUnavailable"}]

\* Read from the Gateway's listener first, from the GatewayConfig otherwise.
GetGatewayDomain ==
    \/ Exists("Gateway", Default) /\ obj["Gateway"][Default].val.mode = "LoadBalancer"
    \/ ~ErrDomainRequired(spec)

checkGatewayAuthentication(s) ==
    platform = "Kubernetes" /\ s.oidc => checkKubeAuthProxyDeployment(Default)

checkCertManagerCertificate(s) ==
    platform = "Kubernetes" /\ s.cert \in {"nil", "", "SelfSigned"} => cluster.issued

syncGatewayConfigStatus(r) ==
    IF rejectUnsupportedKubernetesGatewaySpec(r.spec) \/ ~GetGatewayDomain THEN r.config
    ELSE IF \/ ~Exists("Gateway", Default)
            \/ ~checkCertManagerCertificate(r.spec)
            \/ ~checkGatewayAuthentication(r.spec)
            \/ ~obj["Gateway"][Default].ok THEN "False"
    ELSE IF r.config = "False" THEN "False" ELSE "True"

\* The exception forgotten.
CollectByGeneration(r, k, t) == Own(k, t) /\ obj[k][t].gen \notin {0, r.gen}

\* A target whose preparation failed keeps its authentication resources.
gatewayAuthResourceCollectable(r, k, t) ==
    /\ ~(t \in r.failed /\ k \in {"Secret", "NetworkPolicy", "Deployment", "EnvoyFilter"})
    /\ Own(k, t) /\ obj[k][t].gen \notin {0, r.gen}

Happy(conditions) ==
    IF "False" \in conditions THEN "False" ELSE IF "Unknown" \in conditions THEN "Unknown" ELSE "True"

Collectable(r) == {o \in Kinds \X Targets : gatewayAuthResourceCollectable(r, o[1], o[2])}

Collect(gone) ==
    [k \in DOMAIN obj |-> [t \in Targets |-> IF <<k, t>> \in gone THEN Absent ELSE obj[k][t]]]

\* Objects are collected one by one; an error leaves the rest to the retry.
finish ==
    LET r == syncAdditionalIngressReadiness(rr)
        ing == publishAdditionalIngressAuthConditions(r)
        config == syncGatewayConfigStatus(r)
        written(ready) == [gen |-> r.gen, config |-> config, ing |-> ing, ready |-> ready,
                           domain |-> IF rejectUnsupportedKubernetesGatewaySpec(r.spec)
                                      THEN status.domain ELSE GetGatewayDomain]
    IN  /\ pc = "status"
        /\ \/ /\ obj' = Collect(Collectable(r))
              /\ status' = written(Happy({config, updateAdditionalGatewaysReadyCondition(r.spec.extra, ing, r.gen)}))
              /\ queued' = (queued \/ r.requeue \/ obj' # obj)
              /\ UNCHANGED edits
           \/ \E gone \in SUBSET Collectable(r) :
              /\ edits < MaxEdits /\ edits' = edits + 1
              /\ obj' = Collect(gone) /\ status' = written("False") /\ queued' = TRUE
        /\ pc' = "idle" /\ rr' = NoPass /\ late' = {}
        /\ UNCHANGED <<platform, cluster, spec, gen>>

\* The operator is restarted: every watched object is delivered again.
Restart ==
    /\ pc # "idle" /\ edits < MaxEdits /\ edits' = edits + 1
    /\ pc' = "idle" /\ queued' = TRUE /\ rr' = NoPass /\ late' = {}
    /\ UNCHANGED <<platform, cluster, spec, gen, status, obj>>

-----------------------------------------------------------------------------
\* Users, the cluster and the gateway provider

Edit == edits < MaxEdits /\ edits' = edits + 1

\* One field of the spec; admission rejects ingresses outside OcpRoute mode.
EditSpec(s) ==
    /\ Edit
    /\ s # spec /\ ValidateAdditionalIngresses(s, s.mode)
    /\ platform = "Kubernetes" => s.extra = {}
    /\ spec' = s /\ gen' = gen + 1 /\ queued' = TRUE
    /\ UNCHANGED <<platform, cluster, status, obj, late, pc, rr>>

SpecEdits ==
    {[spec EXCEPT !.mode = m] : m \in IngressModes}
    \cup {[spec EXCEPT !.cert = c] : c \in {"nil", "", "OpenshiftDefaultIngress", "Provided"}}
    \cup {[spec EXCEPT !.oidc = b] : b \in BOOLEAN}
    \cup {[spec EXCEPT !.domain = b] : b \in IF platform = "Kubernetes" THEN BOOLEAN ELSE {}}
    \cup {[spec EXCEPT !.ca = b] : b \in BOOLEAN}
    \cup {[spec EXCEPT !.extra = e, !.clash = @ \cap e] : e \in SUBSET Ingresses}
    \cup {[spec EXCEPT !.clash = c] : c \in SUBSET spec.extra}

IsGatewayReferencedSecret(t) == spec.oidc /\ t \in {Default} \cup spec.extra

\* The watch on the router's certificate ignores an absent spec.certificate.
IsGatewayCertificateSecret ==
    spec.cert # "nil" /\ effectiveCertificateType(spec) = "OpenshiftDefaultIngress"

ChangeOthers ==
    \/ \E t \in Targets, v \in 0..2 :
         /\ v # cluster.client[t] /\ t \in {Default} \cup spec.extra
         /\ cluster' = [cluster EXCEPT !.client[t] = v]
         /\ queued' = (queued \/ IsGatewayReferencedSecret(t))
    \/ \E v \in 0..2 \ {cluster.ca} :
         /\ cluster' = [cluster EXCEPT !.ca = v] /\ queued' = (queued \/ spec.ca)
    \/ /\ platform = "OpenShift"
       /\ cluster' = [cluster EXCEPT !.dashboard = ~@] /\ queued' = TRUE
    \/ /\ platform = "OpenShift" /\ cluster.router = 1
       /\ cluster' = [cluster EXCEPT !.router = 2]
       /\ queued' = (queued \/ IsGatewayCertificateSecret)

ChangeCluster ==
    /\ Edit
    /\ \/ \E a \in {"IntegratedOAuth", "OIDC", "None"} \ {cluster.auth} :
            /\ platform = "OpenShift"
            /\ cluster' = [cluster EXCEPT !.auth = a] /\ queued' = TRUE
            /\ late' = IF pc = "idle" THEN late ELSE late \cup {<<"Auth", Default>>}
       \/ UNCHANGED late /\ ChangeOthers
    /\ UNCHANGED <<platform, spec, gen, status, obj, pc, rr>>

\* An object of somebody else's: readiness is read from Gateways and Deployments,
\* the mode from the Gateway.
Foreign(k) ==
    [owner : {"foreign"}, gen : {0}, ok : IF k \in {"Gateway", "Deployment"} THEN BOOLEAN ELSE {FALSE},
     val : {[Blank EXCEPT !.mode = m] : m \in IF k = "Gateway" THEN IngressModes ELSE {""}}]

\* Objects of these names that are not the operator's raise no event for it.
ForeignObject ==
    /\ Edit
    /\ \E k \in Kinds, t \in Targets :
       \/ /\ ~Exists(k, t)
          /\ \E o \in Foreign(k) : obj' = [obj EXCEPT ![k][t] = o]
          /\ late' = IF pc = "idle" THEN late ELSE late \cup {<<k, t>>}
       \/ /\ obj[k][t].owner = "foreign"
          /\ obj' = [obj EXCEPT ![k][t] = Absent]
          /\ late' = late \ {<<k, t>>}
    /\ UNCHANGED <<platform, cluster, spec, gen, status, queued, pc, rr>>

\* Somebody deletes what the operator deployed.
DeleteOwned ==
    /\ Edit
    /\ \E k \in DOMAIN obj, t \in Targets :
       /\ Own(k, t)
       /\ obj' = [obj EXCEPT ![k][t] = Absent]
    /\ queued' = TRUE
    /\ UNCHANGED <<platform, cluster, spec, gen, status, late, pc, rr>>

\* Gateways are accepted, Deployments available and Routes admitted; Deployments
\* may lag behind, and so does a Gateway or a Route that was deleted.
Progress ==
    /\ \E slow \in {"none", "Deployment"} :
         obj' = [k \in DOMAIN obj |-> [t \in Targets |->
                   IF k \in {"Deployment", "Gateway", "Route"} \ {slow} /\ Own(k, t)
                   THEN [obj[k][t] EXCEPT !.ok = TRUE] ELSE obj[k][t]]]
    /\ obj' # obj
    /\ queued' = TRUE
    /\ UNCHANGED <<platform, cluster, spec, gen, status, late, pc, rr, edits>>

\* The provider's Service follows the default Gateway; cert-manager issues.
Provider ==
    LET type == IF ~Exists("Gateway", Default) THEN "none"
                ELSE IF obj["Gateway"][Default].val.mode = "OcpRoute" THEN "ClusterIP" ELSE "LoadBalancer"
    IN  /\ \/ cluster.svc # type /\ cluster' = [cluster EXCEPT !.svc = type]
           \/ /\ platform = "Kubernetes" /\ ~cluster.issued /\ Exists("Gateway", Default)
              /\ cluster' = [cluster EXCEPT !.issued = TRUE]
        /\ queued' = TRUE
        /\ UNCHANGED <<platform, spec, gen, status, obj, late, pc, rr, edits>>

-----------------------------------------------------------------------------
\* What an installation starts from; the other specs are reached by edits.
InitSpecs ==
    LET s == [mode |-> "", cert |-> "nil", domain |-> TRUE, oidc |-> TRUE, ca |-> FALSE,
              extra |-> {}, clash |-> {}]
    IN  IF platform = "Kubernetes" THEN {[s EXCEPT !.mode = "LoadBalancer"]}
        ELSE {[s EXCEPT !.extra = Ingresses], [s EXCEPT !.mode = "LoadBalancer", !.oidc = FALSE]}

Init ==
    /\ platform \in Platforms
    /\ spec \in InitSpecs
    /\ gen = 1
    /\ cluster = [auth |-> IF spec.oidc THEN "OIDC" ELSE "IntegratedOAuth", svc |-> "none",
                  client |-> [t \in Targets |-> 1], ca |-> 1, dashboard |-> TRUE,
                  redirects |-> FALSE, router |-> 1, tls |-> 0, issued |-> FALSE]
    /\ status = [gen |-> 0, config |-> "Unknown", ready |-> "Unknown", domain |-> FALSE,
                 ing |-> [i \in Ingresses |-> NoStatus]]
    /\ obj = [k \in Kinds |-> [t \in Targets |->
                IF k = "NetworkPolicy" /\ t = Default /\ spec.extra = {}
                THEN [Absent EXCEPT !.owner = "legacy"] ELSE Absent]]
    /\ late = {} /\ queued = TRUE /\ pc = "idle" /\ rr = NoPass /\ edits = 0

Pass == createGatewayInfrastructure \/ prepareAuthProxies \/ cleanupAndRoutes \/ deploy \/ finish

Next ==
    \/ Pass \/ Restart
    \/ (\E s \in SpecEdits : EditSpec(s)) \/ ChangeCluster \/ ForeignObject \/ DeleteOwned
    \/ Progress \/ Provider

Spec == Init /\ [][Next]_vars

-----------------------------------------------------------------------------
\* Properties

\* Every variable keeps its type: objects, conditions and the pass's own state
\* hold what the controller's code can put there.
TypeOK ==
    /\ spec \in GatewayConfigSpec /\ rr.spec \in GatewayConfigSpec
    /\ gen \in Nat /\ status.gen <= gen /\ rr.gen <= gen
    /\ \A k \in DOMAIN obj, t \in Targets :
         /\ obj[k][t].owner \in {"none", "own", "legacy", "foreign"}
         /\ obj[k][t].gen <= gen
         /\ obj[k][t].val.key \in SessionKeys \cup {NoKey} /\ obj[k][t].val.mode \in IngressModes
    /\ \A i \in Ingresses, c \in ConditionTypes :
         status.ing[i][c].status \in Statuses /\ status.ing[i][c].gen <= gen
    /\ status.config \in Statuses /\ status.ready \in Statuses
    /\ pc \in {"idle", "auth", "cleanup", "deploy", "status"}

Rest == pc = "idle" /\ ~queued

Renderable == ~rejectUnsupportedKubernetesGatewaySpec(spec) /\ ~ErrDomainRequired(spec)

\* When nothing is queued the cluster is what the GatewayConfig asks for: the
\* default Gateway has the mode in force, every ingress that is not in
\* conflict its Gateway and filter, the running proxies the current client
\* credential and provider CA, and what the spec no longer names is gone (but
\* for a credentials Secret that no deploy ever reached).
GatewaySettled ==
    Rest =>
    /\ status.gen = gen
    /\ \A k \in DOMAIN obj, i \in Ingresses \ spec.extra : k = "Secret" \/ ~Own(k, i)
    /\ Renderable =>
       LET mode == IF spec.mode = "" THEN detectIngressMode ELSE spec.mode
           live == {Default} \cup {i \in spec.extra :
                       ~additionalIngressHasGatewayConflict(status.ing[i], gen)}
       IN  /\ \A t \in live : Own("Gateway", t) /\ Own("EnvoyFilter", t)
           /\ obj["Gateway"][Default].val.mode = mode
           /\ Own("Route", Default) <=> mode = "OcpRoute"
           /\ \A t \in live : ProxyDesired(spec) =>
                /\ Own("Deployment", t) /\ Own("Secret", t) /\ Own("NetworkPolicy", t)
                /\ obj["Deployment"][t].val.client = obj["Secret"][t].val.client
                /\ obj["Deployment"][t].val.key = obj["Secret"][t].val.key
                /\ obj["Deployment"][t].val.ca = IF spec.ca THEN cluster.ca ELSE 0
                /\ getGatewayAuthenticationMode(spec) = "OIDC" =>
                     obj["Secret"][t].val.client = cluster.client[t]
    /\ ~ProxyDesired(spec) => \A t \in Targets :
         {obj["Deployment"][t].owner, obj["NetworkPolicy"][t].owner} \cap {"own", "legacy"} = {}
    /\ platform = "OpenShift" => (cluster.redirects <=> DashboardRedirectsWanted)

\* Ready is only reported at rest when every Gateway is accepted and every
\* additional ingress is routed and has an available proxy.
ReadyIsTruthful ==
    Rest /\ status.ready = "True" =>
    /\ Own("Gateway", Default) /\ obj["Gateway"][Default].ok
    /\ \A i \in spec.extra, k \in {"Gateway", "Route", "Deployment"} : Own(k, i) /\ obj[k][i].ok

\* The pass deployed no Gateway for the target: what it has may be collected.
GivenUp(t) == pc = "status" /\ <<"Gateway", t>> \notin rr.want

\* No step of the controller takes the authentication filter from a Gateway it
\* still serves, when authentication is switched off or cannot be prepared and
\* when the collection fails part-way; and a Route leads traffic only to a
\* Gateway that is there with its filter, wherever an apply failed.
TrafficStaysFiltered ==
    [][pc' # pc => \A t \in Targets :
         /\ Own("Gateway", t) /\ Own("EnvoyFilter", t) /\ ~GivenUp(t) => Own("EnvoyFilter", t)'
         /\ ~Own("Route", t) /\ Own("Route", t)' => Own("Gateway", t)' /\ Own("EnvoyFilter", t)']_vars

\* While its Secret lives a target's cookie key does not change.
SessionsSurvive ==
    \A t \in Targets : Own("Secret", t) /\ Own("Secret", t)' =>
        obj'["Secret"][t].val.key = obj["Secret"][t].val.key

\* A target loses its auth proxy only when the target or its authentication is
\* no longer asked for.
ProxyOutlivesFailures ==
    \A t \in Targets : Own("Deployment", t) /\ ~Own("Deployment", t)' =>
        \/ ~ProxyDesired(rr.spec) \/ <<"Auth", Default>> \in late
        \/ rejectUnsupportedKubernetesGatewaySpec(rr.spec) \/ ErrDomainRequired(rr.spec)
        \/ t \notin {Default} \cup rr.spec.extra \/ Conflict(rr, t)

\* No step of the controller ends the sessions of signed-in users, through auth
\* mode changes, rotations of the client credential, a missing client Secret, a
\* Secret of another owner and failed passes: the cookie key is kept and so is a
\* working proxy.
AuthenticationSurvives == [][pc' # pc => SessionsSurvive /\ ProxyOutlivesFailures]_vars

\* A conflict is recorded in the ingress's entry of the status.  The answer to
\* the write of a detected mode takes the entry of a new ingress away again.
Unrecorded(k, t) == pc = "deploy" /\ k = "Gateway" /\ rr.ing[t] = NoStatus

\* Objects whose owner is looked up before they are written.
OwnershipChecked(k, t) == k = "Secret" \/ (k \in {"Gateway", "Route"} /\ t # Default)

\* An object another owner holds is never deleted, except a default Gateway of
\* the wrong mode, and where the code looks up the owner it is not overwritten
\* either, unless it appeared after the pass had looked or the pass could not
\* record the conflict.
ForeignObjectsKept ==
    [][pc' # pc => \A k \in DOMAIN obj, t \in Targets : obj[k][t].owner = "foreign" =>
         \/ obj'[k][t] = obj[k][t]
         \/ /\ pc = "deploy" /\ Own(k, t)'
            /\ ~OwnershipChecked(k, t) \/ <<k, t>> \in late \/ Unrecorded(k, t)
         \/ pc = "idle" /\ ModeMismatch /\ <<k, t>> = <<"Gateway", Default>>]_vars

\* A renewed router certificate reaches the default Gateway that uses it.
CertificateIsCurrent ==
    Rest /\ platform = "OpenShift" /\ spec.mode = "LoadBalancer"
         /\ effectiveCertificateType(spec) = "OpenshiftDefaultIngress" => cluster.tls = cluster.router

=============================================================================
