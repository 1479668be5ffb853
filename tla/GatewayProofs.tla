--------------------------- MODULE GatewayProofs ---------------------------
(***************************************************************************)
(* The GatewayConfig controller, for every set of additional ingresses and *)
(* any number of edits and faults.  First the types of all that a pass     *)
(* reads and writes, then an invariant of the pass in progress: what it    *)
(* decided to deploy still fits the objects that it decided on.  The       *)
(* action properties of Gateway follow from it.                            *)
(***************************************************************************)
EXTENDS Gateway, TLAPS

Values == [client : Nat, key : SessionKeys \cup {NoKey}, ca : Nat, mode : IngressModes]

Objects(g) == [owner : {"none", "own", "legacy", "foreign"}, gen : 0 .. g, ok : BOOLEAN, val : Values]

Reasons ==
  {"none", "ReconciliationPending", "Ready", "NotReady", "OwnershipConflict", "HostnameConflict",
   "MultipleIngressControllers", "AuthenticationBlocked", "InvalidAuthenticationConfig",
   "AuthenticationUnavailable", "StatusReadFailed"}

Conditions(g) == [status : Statuses, reason : Reasons, gen : 0 .. g]

Entries(g) == [ConditionTypes -> Conditions(g)]

Clusters ==
  [auth : {"IntegratedOAuth", "OIDC", "None"}, svc : {"none", "ClusterIP", "LoadBalancer"},
   client : [Targets -> Nat], ca : Nat, dashboard : BOOLEAN,
   redirects : BOOLEAN, router : Nat, tls : Nat, issued : BOOLEAN]

GatewayStatuses(g) ==
  [gen : 0 .. g, config : Statuses, ready : Statuses, domain : BOOLEAN, ing : [Ingresses -> Entries(g)]]

Passes(g) ==
  [spec : GatewayConfigSpec, gen : 0 .. g, mode : IngressModes, ing : [Ingresses -> Entries(g)],
   config : Statuses, want : SUBSET (Kinds \X Targets), creds : [Targets -> Values],
   auth : [Ingresses -> Reasons], failed : SUBSET Targets, requeue : BOOLEAN, redirect : BOOLEAN]

ObjectsTyped == obj \in [Kinds -> [Targets -> Objects(gen)]]

Types ==
  /\ cluster \in Clusters
  /\ spec \in GatewayConfigSpec /\ gen \in Nat
  /\ status \in GatewayStatuses(gen)
  /\ ObjectsTyped
  /\ rr \in Passes(gen)
  /\ queued \in BOOLEAN /\ pc \in {"idle", "auth", "cleanup", "deploy", "status"}

-----------------------------------------------------------------------------
(* What the operators return *)

LEMMA BlankType == Blank \in Values
BY DEF Blank, Values, IngressModes

LEMMA AbsentType == ASSUME NEW g \in Nat PROVE Absent \in Objects(g)
BY BlankType DEF Absent, Objects

LEMMA ConditionType ==
  ASSUME NEW g \in Nat, NEW h \in 0 .. g, NEW st \in Statuses, NEW reason \in Reasons
  PROVE  Condition(st, reason, h) \in Conditions(g) /\ Pending(h) \in Conditions(g)
BY DEF Condition, Pending, Conditions, Statuses, Reasons

LEMMA NoStatusType == ASSUME NEW g \in Nat PROVE NoStatus \in Entries(g)
<1>1. Pending(0) \in Conditions(g)
  BY DEF Condition, Pending, Conditions, Statuses, Reasons
<1> QED
  BY <1>1 DEF NoStatus, Entries

(* A later generation only widens the types *)
LEMMA Widening ==
  ASSUME NEW g \in Nat, NEW h \in Nat, g <= h
  PROVE  /\ Objects(g) \subseteq Objects(h) /\ Entries(g) \subseteq Entries(h)
         /\ GatewayStatuses(g) \subseteq GatewayStatuses(h)
         /\ Passes(g) \subseteq Passes(h)
<1>1. 0 .. g \subseteq 0 .. h
  OBVIOUS
<1>2. Objects(g) \subseteq Objects(h)
  BY <1>1 DEF Objects
<1>3. Conditions(g) \subseteq Conditions(h)
  BY <1>1 DEF Conditions
<1>4. Entries(g) \subseteq Entries(h)
  BY <1>3 DEF Entries
<1>5. [Ingresses -> Entries(g)] \subseteq [Ingresses -> Entries(h)]
  BY <1>4
<1>6. GatewayStatuses(g) \subseteq GatewayStatuses(h)
  BY <1>1, <1>5 DEF GatewayStatuses
<1>7. Passes(g) \subseteq Passes(h)
  BY <1>1, <1>5 DEF Passes
<1> QED
  BY <1>2, <1>4, <1>6, <1>7

LEMMA NoPassType == ASSUME NEW g \in Nat PROVE NoPass \in Passes(g)
<1>1. ZeroSpec \in GatewayConfigSpec
  BY DEF ZeroSpec, GatewayConfigSpec, IngressModes, CertTypes
<1>2. [i \in Ingresses |-> NoStatus] \in [Ingresses -> Entries(g)]
  BY NoStatusType
<1>3. [t \in Targets |-> Blank] \in [Targets -> Values]
  BY BlankType
<1>4. [i \in Ingresses |-> "none"] \in [Ingresses -> Reasons]
  BY DEF Reasons
<1>5. 0 \in 0 .. g /\ "" \in IngressModes /\ "Unknown" \in Statuses
  BY DEF IngressModes, Statuses
<1> QED
  BY <1>1, <1>2, <1>3, <1>4, <1>5, Zenon DEF NoPass, Passes

(* The conditions that a pass publishes are those it found, with its results *)
LEMMA PublishType ==
  ASSUME NEW g \in Nat, NEW r \in Passes(g)
  PROVE  publishAdditionalIngressAuthConditions(r) \in [Ingresses -> Entries(g)]
<1> SUFFICES ASSUME NEW i \in Ingresses
             PROVE  publishAdditionalIngressAuthConditions(r)[i] \in Entries(g)
  BY DEF publishAdditionalIngressAuthConditions
<1>1. r.ing[i] \in Entries(g) /\ r.auth[i] \in Reasons /\ r.gen \in 0 .. g
  BY DEF Passes
<1>2. AuthCondition(r.auth[i], r.gen) \in Conditions(g)
  BY <1>1 DEF AuthCondition, Condition, Conditions, Statuses
<1>3. [r.ing[i] EXCEPT !["AuthenticationReady"] = AuthCondition(r.auth[i], r.gen)] \in Entries(g)
  BY <1>1, <1>2, Zenon DEF Entries
<1> QED
  BY <1>1, <1>3 DEF publishAdditionalIngressAuthConditions

LEMMA EndWithErrorTypes ==
  ASSUME Types, gen' \in Nat, gen <= gen', NEW r \in Passes(gen'), EndWithError(r)
  PROVE  /\ status' \in GatewayStatuses(gen') /\ rr' \in Passes(gen')
         /\ queued' \in BOOLEAN /\ pc' \in {"idle", "auth", "cleanup", "deploy", "status"}
<1>1. status \in GatewayStatuses(gen')
  BY Widening DEF Types
<1>2. r.gen \in 0 .. gen' /\ r.config \in Statuses /\ "False" \in Statuses
  BY DEF Passes, Statuses
<1>3. publishAdditionalIngressAuthConditions(r) \in [Ingresses -> Entries(gen')]
  BY PublishType
<1>4. status' \in GatewayStatuses(gen')
  BY <1>1, <1>2, <1>3, Zenon DEF EndWithError, GatewayStatuses
<1> QED
  BY <1>4, NoPassType DEF EndWithError

-----------------------------------------------------------------------------
(* Types of a pass, step by step *)

LEMMA PinnedTypes ==
  ASSUME Types
  PROVE  /\ PinnedSpec \in GatewayConfigSpec /\ PinnedGen \in Nat /\ gen <= PinnedGen
         /\ ModeInForce \in IngressModes /\ ModePinned \in BOOLEAN
<1>1. spec \in GatewayConfigSpec /\ spec.mode \in IngressModes /\ gen \in Nat
  BY DEF Types, GatewayConfigSpec
<1>2. ModeInForce \in IngressModes
  BY <1>1, Zenon DEF ModeInForce, detectIngressMode, IngressModes
<1>3. PinnedSpec \in GatewayConfigSpec
  BY <1>1, <1>2 DEF PinnedSpec, GatewayConfigSpec
<1> QED
  BY <1>1, <1>2, <1>3 DEF PinnedGen, ModePinned

LEMMA CheckConflictsType ==
  ASSUME NEW g \in Nat, NEW s, NEW ing \in [Ingresses -> Entries(g)]
  PROVE  CheckConflicts(s, ing, g) \in [Ingresses -> Entries(g)]
<1> SUFFICES ASSUME NEW i \in Ingresses PROVE CheckConflicts(s, ing, g)[i] \in Entries(g)
  BY DEF CheckConflicts
<1>1. ing[i] \in Entries(g)
  OBVIOUS
<1>2. ConflictReason(s, i) \in Reasons
  BY DEF ConflictReason, Reasons
<1>3. Condition("False", ConflictReason(s, i), g) \in Conditions(g) /\ Pending(g) \in Conditions(g)
  BY <1>2, ConditionType DEF Statuses
<1>4. /\ [ing[i] EXCEPT !["GatewayReady"] = Condition("False", ConflictReason(s, i), g)] \in Entries(g)
      /\ [ing[i] EXCEPT !["GatewayReady"] = Pending(g)] \in Entries(g)
  BY <1>1, <1>3, Zenon DEF Entries
<1> QED
  BY <1>1, <1>4 DEF CheckConflicts

LEMMA StartedTypes ==
  ASSUME Types
  PROVE  StartedPass \in Passes(PinnedGen) /\ CheckedPass \in Passes(PinnedGen)
<1>1. status.ing \in [Ingresses -> Entries(PinnedGen)] /\ status.config \in Statuses
  <2>1. status \in GatewayStatuses(PinnedGen)
    BY PinnedTypes, Widening DEF Types
  <2> QED
    BY <2>1 DEF GatewayStatuses
<1>2. buildAdditionalIngressStatuses(spec.extra, status.ing, gen) \in [Ingresses -> Entries(PinnedGen)]
  <2>1. gen \in 0 .. PinnedGen
    BY PinnedTypes DEF Types
  <2>2. Pending(gen) \in Conditions(PinnedGen)
    BY <2>1, PinnedTypes DEF Condition, Pending, Conditions, Statuses, Reasons
  <2>3. \A i \in Ingresses : currentAdditionalIngressConditions(status.ing[i], gen) \in Entries(PinnedGen)
    BY <1>1, <2>2 DEF currentAdditionalIngressConditions, Entries
  <2> QED
    BY <1>1, <2>3, NoStatusType, PinnedTypes DEF buildAdditionalIngressStatuses
<1>3. StartedPass \in Passes(PinnedGen)
  <2>1. NoPass \in Passes(PinnedGen) /\ PinnedGen \in 0 .. PinnedGen
    BY NoPassType, PinnedTypes
  <2> QED
    BY <1>1, <1>2, <2>1, PinnedTypes, Zenon DEF StartedPass, Passes
<1>4. CheckConflicts(PinnedSpec, StartedPass.ing, PinnedGen) \in [Ingresses -> Entries(PinnedGen)]
  BY <1>3, PinnedTypes, CheckConflictsType DEF Passes
<1> QED
  BY <1>3, <1>4 DEF CheckedPass, Passes

LEMMA InfrastructureTypes ==
  ASSUME Types, createGatewayInfrastructure
  PROVE  Types'
<1>1. /\ spec' = PinnedSpec /\ gen' = PinnedGen
      /\ spec' \in GatewayConfigSpec /\ gen' \in Nat /\ gen <= gen'
  BY PinnedTypes DEF createGatewayInfrastructure
<1>2. /\ obj \in [Kinds -> [Targets -> Objects(gen')]]
      /\ status \in GatewayStatuses(gen') /\ Absent \in Objects(gen')
  <2>1. Objects(gen) \subseteq Objects(gen') /\ GatewayStatuses(gen) \subseteq GatewayStatuses(gen')
    BY <1>1, Widening DEF Types
  <2> QED
    BY <1>1, <2>1, AbsentType DEF Types, ObjectsTyped
<1>3. StartedPass \in Passes(gen') /\ CheckedPass \in Passes(gen')
  BY <1>1, StartedTypes
<1>4. CASE /\ rr' = [StartedPass EXCEPT !.config = "False", !.mode = ""]
           /\ obj' \in {obj, deleteLegacyNetworkPolicy}
           /\ pc' = "cleanup" /\ queued' = ModePinned /\ UNCHANGED <<status, cluster>>
  <2>1. rr' \in Passes(gen')
    BY <1>3, <1>4, Zenon DEF Passes, Statuses, IngressModes
  <2>2. obj' \in [Kinds -> [Targets -> Objects(gen')]]
    BY <1>2, <1>4 DEF deleteLegacyNetworkPolicy, Targets, Kinds
  <2> QED
    BY <1>1, <1>2, <1>4, <2>1, <2>2, PinnedTypes DEF Types, ObjectsTyped
<1>5. CASE EndWithError(StartedPass) /\ UNCHANGED <<obj, cluster>>
  BY <1>1, <1>2, <1>3, <1>5, EndWithErrorTypes DEF Types, ObjectsTyped
<1>6. CASE obj' = [obj EXCEPT !["Gateway"][Default] = Absent] /\ EndWithError(CheckedPass) /\ UNCHANGED cluster
  <2>1. obj' \in [Kinds -> [Targets -> Objects(gen')]]
    BY <1>2, <1>6 DEF Targets, Kinds
  <2> QED
    BY <1>1, <1>3, <1>6, <2>1, EndWithErrorTypes DEF Types, ObjectsTyped
<1>7. CASE /\ rr' = [CheckedPass EXCEPT !.want =
                  {<<"Gateway", Default>>} \cup createAdditionalGateways(CheckedPass)]
           /\ cluster' = [cluster EXCEPT !.tls = handleCertificates(PinnedSpec, ModeInForce)]
           /\ pc' = "auth" /\ queued' = ModePinned /\ UNCHANGED <<status, obj>>
  <2>1. CheckedPass.spec.extra \subseteq Ingresses
    BY <1>3 DEF Passes, GatewayConfigSpec
  <2>2. {<<"Gateway", Default>>} \cup createAdditionalGateways(CheckedPass) \subseteq Kinds \X Targets
    BY <2>1 DEF createAdditionalGateways, Kinds, Targets
  <2>3. rr' \in Passes(gen')
    BY <1>3, <1>7, <2>2 DEF Passes
  <2>4. cluster' \in Clusters
    BY <1>7 DEF Types, Clusters, handleCertificates
  <2> QED
    BY <1>1, <1>2, <1>7, <2>3, <2>4, PinnedTypes DEF Types, ObjectsTyped
<1> QED
  BY <1>4, <1>5, <1>6, <1>7 DEF createGatewayInfrastructure

LEMMA CredentialsType ==
  ASSUME Types, NEW mode, NEW t \in Targets, NEW fresh \in SessionKeys
  PROVE  getAuthProxySecretValues(mode, t, fresh) \in Values
<1>1. obj["Secret"][t].val \in Values
  BY DEF Types, ObjectsTyped, Objects, Kinds
<1>2. cluster.client[t] \in Nat
  BY DEF Types, Clusters
<1> QED
  BY <1>1, <1>2, BlankType, Zenon DEF getAuthProxySecretValues, Values

LEMMA CreateSecretType ==
  ASSUME Types, NEW ok, NEW mode, NEW fresh \in SessionKeys
  PROVE  createSecret(ok, mode, fresh) \in [Kinds -> [Targets -> Objects(gen)]]
<1> DEFINE new(t) == [obj["Secret"][t] EXCEPT !.owner = "own", !.val = getAuthProxySecretValues(mode, t, fresh)]
<1>1. ASSUME NEW t \in Targets PROVE new(t) \in Objects(gen) /\ obj["Secret"][t] \in Objects(gen)
  <2>1. obj["Secret"][t] \in Objects(gen)
    BY DEF Types, ObjectsTyped, Kinds
  <2> QED
    BY <2>1, CredentialsType, Zenon DEF Objects
<1> DEFINE secrets == [t \in Targets |-> IF t \in ok THEN new(t) ELSE obj["Secret"][t]]
<1>2. secrets \in [Targets -> Objects(gen)]
  BY <1>1, Zenon
<1>3. createSecret(ok, mode, fresh) = [obj EXCEPT !["Secret"] = secrets]
  BY DEF createSecret
<1> QED
  BY <1>2, <1>3, Zenon DEF Types, ObjectsTyped

LEMMA LiveTypes ==
  ASSUME Types
  PROVE  /\ Live(rr) \subseteq Targets /\ Bad(rr) \subseteq Live(rr) /\ Prepared(rr) \subseteq Live(rr)
         /\ FailedTargets(rr) \subseteq Bad(rr)
         /\ ConfigResult(rr) \in Statuses
         /\ \A i \in Ingresses : AuthResult(rr, i) \in Reasons
<1>1. rr.spec.extra \subseteq Ingresses
  BY DEF Types, Passes, GatewayConfigSpec
<1> QED
  BY <1>1 DEF Live, Bad, Prepared, FailedTargets, ConfigResult, AuthResult, Statuses, Reasons, Targets

LEMMA PreparedTypes ==
  ASSUME Types, NEW fresh \in SessionKeys
  PROVE  PreparedPass(rr, fresh) \in Passes(gen)
<1> DEFINE creds == [t \in Targets |-> IF t \in Prepared(rr)
                       THEN getAuthProxySecretValues(AuthMode(rr.spec), t, fresh) ELSE Blank]
           want == rr.want \cup PoliciesOf(Live(rr), Bad(rr), ProxyDesired(rr.spec))
                           \cup ({"Secret", "Deployment"} \X Prepared(rr))
           auth == [i \in Ingresses |-> AuthResult(rr, i)]
           requeue == FailedTargets(rr) # {}
<1>1. creds \in [Targets -> Values]
  BY CredentialsType, BlankType
<1>2. want \subseteq Kinds \X Targets
  <2>1. PoliciesOf(Live(rr), Bad(rr), ProxyDesired(rr.spec)) \subseteq Kinds \X Targets
    BY LiveTypes DEF PoliciesOf, Kinds
  <2>2. {"Secret", "Deployment"} \X Prepared(rr) \subseteq Kinds \X Targets
    BY LiveTypes DEF Kinds
  <2> QED
    BY <2>1, <2>2 DEF Types, Passes
<1>3. auth \in [Ingresses -> Reasons]
  BY LiveTypes
<1>4. PreparedPass(rr, fresh) = [rr EXCEPT !.config = ConfigResult(rr), !.auth = auth,
        !.failed = FailedTargets(rr), !.requeue = requeue, !.creds = creds, !.want = want]
  BY DEF PreparedPass
<1>5. /\ FailedTargets(rr) \in SUBSET Targets /\ requeue \in BOOLEAN
      /\ ConfigResult(rr) \in Statuses /\ rr \in Passes(gen)
  BY LiveTypes DEF Types
<1> HIDE DEF creds, want, auth, requeue
<1>6. [rr EXCEPT !.config = ConfigResult(rr), !.auth = auth, !.failed = FailedTargets(rr),
                 !.requeue = requeue, !.creds = creds, !.want = want] \in Passes(gen)
  BY <1>1, <1>2, <1>3, <1>5, Zenon DEF Passes
<1> QED
  BY <1>4, <1>6

LEMMA PrepareTypes ==
  ASSUME Types, prepareAuthProxies
  PROVE  Types'
<1>1. UNCHANGED <<platform, cluster, spec, gen>> /\ gen \in Nat
  BY DEF prepareAuthProxies, Types
<1>2. ASSUME NEW r \in Passes(gen), EndWithError(r), obj' \in [Kinds -> [Targets -> Objects(gen)]]
      PROVE  Types'
  BY <1>1, <1>2, EndWithErrorTypes DEF Types, ObjectsTyped
<1>3. rr \in Passes(gen) /\ obj \in [Kinds -> [Targets -> Objects(gen)]]
  BY DEF Types, ObjectsTyped
<1>4. CASE EndWithError(rr) /\ UNCHANGED obj
  BY <1>2, <1>3, <1>4
<1>5. CASE EndWithError([rr EXCEPT !.config = ConfigResult(rr)]) /\ UNCHANGED obj
  <2>1. [rr EXCEPT !.config = ConfigResult(rr)] \in Passes(gen)
    BY <1>3, LiveTypes, SMT, SMTT(60) DEF Passes
  <2> QED
    BY <1>2, <1>3, <1>5, <2>1
<1>6. ASSUME NEW fresh \in SessionKeys, obj' = createSecret(Prepared(rr), AuthMode(rr.spec), fresh),
             rr' = PreparedPass(rr, fresh), pc' = "cleanup", queued' = (queued \/ obj' # obj), UNCHANGED status
      PROVE  Types'
  <2>1. obj' \in [Kinds -> [Targets -> Objects(gen)]] /\ rr' \in Passes(gen)
    BY <1>6, CreateSecretType, PreparedTypes
  <2>2. queued' \in BOOLEAN
    BY <1>6
  <2> QED
    BY <1>1, <1>6, <2>1, <2>2 DEF Types, ObjectsTyped
<1>7. ASSUME NEW fresh \in SessionKeys, NEW f \in Live(rr), NEW seen \in SUBSET Live(rr),
             NEW config \in IF f = Default THEN {"Unknown", "False"} ELSE {ConfigResult(rr)},
             obj' = createSecret(seen \cap Prepared(rr), AuthMode(rr.spec), fresh),
             EndWithError(InterruptedPass(rr, f, seen, config))
      PROVE  Types'
  <2> DEFINE auth == [i \in Ingresses |-> IF i \in seen THEN AuthResult(rr, i)
                                         ELSE IF i = f THEN "StatusReadFailed" ELSE "none"]
  <2>1. auth \in [Ingresses -> Reasons] /\ config \in Statuses
    BY LiveTypes DEF Reasons, Statuses
  <2>2. InterruptedPass(rr, f, seen, config) = [rr EXCEPT !.config = config, !.auth = auth]
    BY DEF InterruptedPass
  <2> HIDE DEF auth
  <2>3. InterruptedPass(rr, f, seen, config) \in Passes(gen)
    BY <1>3, <2>1, <2>2, ZenonT(60) DEF Passes
  <2>4. seen \cap Prepared(rr) \in SUBSET Prepared(rr)
    OBVIOUS
  <2> QED
    BY <1>2, <1>7, <2>3, <2>4, CreateSecretType
<1> QED
  BY <1>4, <1>5, <1>6, <1>7, Zenon DEF prepareAuthProxies

LEMMA CleanupTypes ==
  ASSUME Types, cleanupAndRoutes
  PROVE  Types'
<1>1. cleanupKubeAuthProxyResources(rr.spec) \in [Kinds -> [Targets -> Objects(gen)]]
  <2>1. ASSUME NEW k \in Kinds, NEW t \in Targets
        PROVE  /\ obj[k][t] \in Objects(gen)
               /\ deleteKubeAuthProxyResource(obj[k][t]) \in Objects(gen)
    BY AbsentType DEF Types, ObjectsTyped, deleteKubeAuthProxyResource
  <2> QED
    BY <2>1 DEF cleanupKubeAuthProxyResources, Types, ObjectsTyped
<1>2. ASSUME NEW b \in BOOLEAN PROVE [createOCPRoutes(rr) EXCEPT !.redirect = b] \in Passes(gen)
  <2>1. rr \in Passes(gen) /\ rr.gen \in 0 .. gen /\ gen \in Nat /\ rr.spec.extra \subseteq Ingresses
    BY DEF Types, Passes, GatewayConfigSpec
  <2> DEFINE want == rr.want \cup {<<"Route", Default>>} \cup createAdditionalIngressRoutes(rr)
             ing == [i \in Ingresses |-> IF ForeignRoute(rr, i) /\ rr.ing[i] # NoStatus
                       THEN [rr.ing[i] EXCEPT !["RouteAdmitted"] = Condition("False", "OwnershipConflict", rr.gen)]
                       ELSE rr.ing[i]]
  <2>2. want \subseteq Kinds \X Targets
    BY <2>1 DEF Passes, createAdditionalIngressRoutes, Kinds, Targets
  <2>3. ing \in [Ingresses -> Entries(gen)]
    <3>1. Condition("False", "OwnershipConflict", rr.gen) \in Conditions(gen)
      BY <2>1, ConditionType DEF Statuses, Reasons
    <3>2. \A i \in Ingresses : rr.ing[i] \in Entries(gen)
      BY <2>1 DEF Passes
    <3>3. \A i \in Ingresses :
            [rr.ing[i] EXCEPT !["RouteAdmitted"] = Condition("False", "OwnershipConflict", rr.gen)] \in Entries(gen)
      BY <3>1, <3>2, Zenon DEF Entries
    <3> QED
      BY <3>2, <3>3
  <2>4. createOCPRoutes(rr) \in {rr, [rr EXCEPT !.want = want, !.ing = ing]}
    BY DEF createOCPRoutes
  <2> HIDE DEF want, ing
  <2>5. createOCPRoutes(rr) \in Passes(gen)
    BY <2>1, <2>2, <2>3, <2>4, ZenonT(60) DEF Passes
  <2> QED
    BY <2>5 DEF Passes
<1>3. cluster' \in Clusters
  BY Zenon DEF cleanupAndRoutes, Types, Clusters
<1>4. (platform = "OpenShift" /\ DashboardRedirectsWanted) \in BOOLEAN
  OBVIOUS
<1>5. rr' \in Passes(gen)
  BY <1>2, <1>4, Zenon DEF cleanupAndRoutes
<1>6. queued' \in BOOLEAN /\ pc' = "deploy" /\ UNCHANGED <<spec, gen, status>>
      /\ obj' = cleanupKubeAuthProxyResources(rr.spec)
  BY DEF cleanupAndRoutes
<1> QED
  BY <1>1, <1>3, <1>5, <1>6 DEF Types, ObjectsTyped

LEMMA AppliedType ==
  ASSUME Types, NEW k \in Kinds, NEW t \in Targets
  PROVE  Applied(k, t) \in Objects(gen)
<1>1. rr.creds[t] \in Values /\ rr.gen \in 0 .. gen /\ rr.mode \in IngressModes /\ cluster.ca \in Nat
  BY DEF Types, Passes, Clusters
<1>2. DesiredValue(k, t) \in Values
  BY <1>1, BlankType, Zenon DEF DesiredValue, Values, IngressModes
<1> QED
  BY <1>1, <1>2 DEF Applied, Objects

LEMMA ApplyType ==
  ASSUME Types, NEW done
  PROVE  Apply(done) \in [Kinds -> [Targets -> Objects(gen)]]
<1>1. \A k \in Kinds, t \in Targets : obj[k][t] \in Objects(gen) /\ Applied(k, t) \in Objects(gen)
  BY AppliedType DEF Types, ObjectsTyped
<1>2. DOMAIN obj = Kinds
  BY DEF Types, ObjectsTyped
<1> QED
  BY <1>1, <1>2 DEF Apply

LEMMA DeployTypes ==
  ASSUME Types, deploy
  PROVE  Types'
<1>1. UNCHANGED <<spec, gen>> /\ gen \in Nat /\ rr \in Passes(gen)
  BY DEF deploy, Types
<1>2. CASE /\ obj' = Apply(rr.want) /\ cluster' = [cluster EXCEPT !.redirects = @ \/ rr.redirect]
           /\ pc' = "status" /\ queued' = (queued \/ obj' # obj) /\ UNCHANGED <<status, rr>>
  <2>1. cluster' \in Clusters
    <3>1. \A b \in BOOLEAN : [cluster EXCEPT !.redirects = b] \in Clusters
      BY DEF Types, Clusters
    <3>2. (cluster.redirects \/ rr.redirect) \in BOOLEAN
      OBVIOUS
    <3> QED
      BY <1>2, <3>1, <3>2, Zenon
  <2>2. queued' \in BOOLEAN
    BY <1>2
  <2> QED
    BY <1>1, <1>2, <2>1, <2>2, ApplyType DEF Types, ObjectsTyped
<1>3. ASSUME NEW done, obj' = Apply(done), EndWithError(rr), UNCHANGED cluster
      PROVE  Types'
  BY <1>1, <1>3, ApplyType, EndWithErrorTypes DEF Types, ObjectsTyped
<1> QED
  BY <1>2, <1>3, Zenon DEF deploy

LEMMA RouteConditionType ==
  ASSUME NEW g \in Nat, NEW h \in 0 .. g, NEW i
  PROVE  syncAdditionalIngressRouteReadiness(i, h) \in Conditions(g)
<1>1. ASSUME NEW entries, NEW host, NEW controller
      PROVE  additionalIngressRouteCondition(entries, host, controller, h) \in Conditions(g)
  BY Zenon DEF additionalIngressRouteCondition, Condition, Pending, Conditions, Statuses, Reasons
<1>2. Pending(h) \in Conditions(g) /\ Condition("False", "OwnershipConflict", h) \in Conditions(g)
  BY ConditionType DEF Statuses, Reasons
<1> QED
  BY <1>1, <1>2 DEF syncAdditionalIngressRouteReadiness

LEMMA ReadinessType ==
  ASSUME Types
  PROVE  syncAdditionalIngressReadiness(rr) \in Passes(gen)
<1> DEFINE live == {i \in rr.spec.extra : rr.ing[i] # NoStatus /\ ~Conflict(rr, i)}
           gatewayReady(i) == IF ~Exists("Gateway", i) THEN Pending(rr.gen)
                              ELSE IF obj["Gateway"][i].ok THEN Condition("True", "Ready", rr.gen)
                              ELSE Condition("False", "NotReady", rr.gen)
           auth == [i \in Ingresses |-> IF i \in live THEN syncAdditionalIngressAuthReadiness(rr, i) ELSE rr.auth[i]]
           ing == [i \in Ingresses |-> IF i \in live
                     THEN [rr.ing[i] EXCEPT !["GatewayReady"] = gatewayReady(i),
                                            !["RouteAdmitted"] = syncAdditionalIngressRouteReadiness(i, rr.gen)]
                     ELSE rr.ing[i]]
           requeue == rr.requeue \/ \E i \in live : auth[i] \in {"NotReady", "AuthenticationUnavailable"}
<1>1. rr \in Passes(gen) /\ rr.gen \in 0 .. gen /\ gen \in Nat
  BY DEF Types, Passes
<1>2. auth \in [Ingresses -> Reasons]
  <2>1. \A i \in Ingresses : rr.auth[i] \in Reasons
    BY <1>1 DEF Passes
  <2>2. \A i \in Ingresses : syncAdditionalIngressAuthReadiness(rr, i) \in Reasons
    BY DEF syncAdditionalIngressAuthReadiness, Reasons
  <2> QED
    BY <2>1, <2>2
<1>3. ing \in [Ingresses -> Entries(gen)]
  <2>1. \A i \in Ingresses : rr.ing[i] \in Entries(gen)
    BY <1>1 DEF Passes
  <2>2. \A i \in Ingresses : gatewayReady(i) \in Conditions(gen)
    BY <1>1, ConditionType DEF Statuses, Reasons
  <2>3. \A i \in Ingresses : syncAdditionalIngressRouteReadiness(i, rr.gen) \in Conditions(gen)
    BY <1>1, RouteConditionType
  <2> HIDE DEF gatewayReady
  <2>4. \A i \in Ingresses :
          [rr.ing[i] EXCEPT !["GatewayReady"] = gatewayReady(i),
                            !["RouteAdmitted"] = syncAdditionalIngressRouteReadiness(i, rr.gen)] \in Entries(gen)
    BY <2>1, <2>2, <2>3, Zenon DEF Entries
  <2> QED
    BY <2>1, <2>4
<1>4. requeue \in BOOLEAN
  OBVIOUS
<1>5. syncAdditionalIngressReadiness(rr) = [rr EXCEPT !.ing = ing, !.auth = auth, !.requeue = requeue]
  BY DEF syncAdditionalIngressReadiness
<1> HIDE DEF ing, auth, requeue
<1>6. [rr EXCEPT !.ing = ing, !.auth = auth, !.requeue = requeue] \in Passes(gen)
  BY <1>1, <1>2, <1>3, <1>4, Zenon DEF Passes
<1> QED
  BY <1>5, <1>6

LEMMA FinishTypes ==
  ASSUME Types, finish
  PROVE  Types'
<1> DEFINE r == syncAdditionalIngressReadiness(rr)
           ing == publishAdditionalIngressAuthConditions(r)
           config == syncGatewayConfigStatus(r)
           happy == Happy({config, updateAdditionalGatewaysReadyCondition(r.spec.extra, ing, r.gen)})
           domain == IF rejectUnsupportedKubernetesGatewaySpec(r.spec) THEN status.domain ELSE GetGatewayDomain
<1>1. r \in Passes(gen) /\ gen \in Nat
  BY ReadinessType DEF Types
<1>2. ing \in [Ingresses -> Entries(gen)]
  BY <1>1, PublishType
<1>3. r.gen \in 0 .. gen /\ r.config \in Statuses
  BY <1>1 DEF Passes
<1>4. config \in Statuses /\ happy \in Statuses /\ "False" \in Statuses
  BY <1>3 DEF syncGatewayConfigStatus, Happy, Statuses
<1>5. domain \in BOOLEAN
  <2>1. status.domain \in BOOLEAN
    BY DEF Types, GatewayStatuses
  <2>2. GetGatewayDomain \in BOOLEAN
    BY DEF GetGatewayDomain
  <2> QED
    BY <2>1, <2>2
<1>6. \E ready \in {happy, "False"} :
        status' = [gen |-> r.gen, config |-> config, ing |-> ing, ready |-> ready, domain |-> domain]
  BY Zenon DEF finish
<1>7. /\ \E gone : obj' = Collect(gone)
      /\ pc' = "idle" /\ queued' \in BOOLEAN /\ rr' = NoPass /\ UNCHANGED <<cluster, spec, gen>>
  BY Zenon DEF finish
<1> HIDE DEF r, ing, config, happy, domain
<1>8. status' \in GatewayStatuses(gen)
  <2>1. PICK ready \in {happy, "False"} :
          status' = [gen |-> r.gen, config |-> config, ing |-> ing, ready |-> ready, domain |-> domain]
    BY <1>6
  <2>2. ready \in Statuses
    BY <1>4
  <2> QED
    BY <1>2, <1>3, <1>4, <1>5, <2>1, <2>2, Zenon DEF GatewayStatuses
<1>9. obj' \in [Kinds -> [Targets -> Objects(gen)]]
  BY <1>1, <1>7, AbsentType DEF Types, ObjectsTyped, Collect
<1> QED
  BY <1>1, <1>7, <1>8, <1>9, NoPassType DEF Types, ObjectsTyped

(* Users, the cluster and the provider *)
LEMMA ForeignType ==
  ASSUME NEW g \in Nat, NEW k, NEW o \in Foreign(k)
  PROVE  o \in Objects(g) /\ o.owner = "foreign" /\ o.gen = 0
<1>1. /\ o \in [owner : {"foreign"}, gen : {0}, ok : BOOLEAN, val : {o.val}]
      /\ \E m \in IngressModes : o.val = [Blank EXCEPT !.mode = m]
  BY DEF Foreign, IngressModes
<1>2. o.val \in Values
  BY <1>1, BlankType, Zenon DEF Values
<1>3. 0 \in 0 .. g
  OBVIOUS
<1> QED
  BY <1>1, <1>2, <1>3, SMT DEF Objects

LEMMA EnvironmentTypes ==
  ASSUME Types,
         \/ Restart \/ (\E s \in SpecEdits : EditSpec(s)) \/ ChangeCluster \/ ForeignObject
         \/ DeleteOwned \/ Progress \/ Provider
  PROVE  Types'
<1>0. gen \in Nat /\ obj \in [Kinds -> [Targets -> Objects(gen)]] /\ cluster \in Clusters
  BY DEF Types, ObjectsTyped
<1>1. CASE Restart
  BY <1>0, <1>1, NoPassType DEF Restart, Types, ObjectsTyped
<1>2. ASSUME NEW s \in SpecEdits, EditSpec(s) PROVE Types'
  <2>1. s \in GatewayConfigSpec
    <3>1. /\ \A m \in IngressModes : [spec EXCEPT !.mode = m] \in GatewayConfigSpec
          /\ \A c \in CertTypes \cup {"nil"} : [spec EXCEPT !.cert = c] \in GatewayConfigSpec
          /\ \A b \in BOOLEAN : [spec EXCEPT !.oidc = b] \in GatewayConfigSpec
          /\ \A b \in BOOLEAN : [spec EXCEPT !.domain = b] \in GatewayConfigSpec
          /\ \A b \in BOOLEAN : [spec EXCEPT !.ca = b] \in GatewayConfigSpec
      BY DEF Types, GatewayConfigSpec
    <3>2. \A e \in SUBSET Ingresses : [spec EXCEPT !.extra = e, !.clash = @ \cap e] \in GatewayConfigSpec
      <4>1. \A e, c \in SUBSET Ingresses : [spec EXCEPT !.extra = e, !.clash = c] \in GatewayConfigSpec
        BY Zenon DEF Types, GatewayConfigSpec
      <4>2. \A e \in SUBSET Ingresses : spec.clash \cap e \in SUBSET Ingresses
        OBVIOUS
      <4> QED
        BY <4>1, <4>2, Zenon
    <3>3. \A c \in SUBSET spec.extra : [spec EXCEPT !.clash = c] \in GatewayConfigSpec
      BY DEF Types, GatewayConfigSpec
    <3>4. {"nil", "", "OpenshiftDefaultIngress", "Provided"} \subseteq CertTypes \cup {"nil"}
      BY DEF CertTypes
    <3> QED
      BY <3>1, <3>2, <3>3, <3>4, Zenon DEF SpecEdits
  <2>2. /\ gen' = gen + 1 /\ spec' = s /\ queued' = TRUE
        /\ UNCHANGED <<cluster, status, obj, pc, rr>>
    BY <1>2 DEF EditSpec
  <2>3. /\ Objects(gen) \subseteq Objects(gen') /\ GatewayStatuses(gen) \subseteq GatewayStatuses(gen')
        /\ Passes(gen) \subseteq Passes(gen')
    BY <1>0, <2>2, Widening
  <2>4. obj' \in [Kinds -> [Targets -> Objects(gen')]]
    BY <1>0, <2>2, <2>3
  <2> QED
    BY <1>0, <2>1, <2>2, <2>3, <2>4 DEF Types, ObjectsTyped
<1>3. CASE ChangeCluster
  <2>1. /\ \A a \in {"IntegratedOAuth", "OIDC", "None"} : [cluster EXCEPT !.auth = a] \in Clusters
        /\ \A t \in Targets, v \in 0..2 : [cluster EXCEPT !.client[t] = v] \in Clusters
        /\ \A v \in 0..2 : [cluster EXCEPT !.ca = v] \in Clusters
        /\ [cluster EXCEPT !.router = 2] \in Clusters
    <3>1. \A a \in {"IntegratedOAuth", "OIDC", "None"} : [cluster EXCEPT !.auth = a] \in Clusters
      BY <1>0 DEF Clusters
    <3>2. \A t \in Targets, v \in 0..2 : [cluster EXCEPT !.client[t] = v] \in Clusters
      <4>1. ASSUME NEW t \in Targets, NEW v \in 0..2 PROVE [cluster.client EXCEPT ![t] = v] \in [Targets -> Nat]
        BY <1>0 DEF Clusters
      <4>2. ASSUME NEW f \in [Targets -> Nat] PROVE [cluster EXCEPT !.client = f] \in Clusters
        BY <1>0 DEF Clusters
      <4> QED
        BY <4>1, <4>2, Zenon
    <3>3. \A v \in 0..2 : [cluster EXCEPT !.ca = v] \in Clusters
      BY <1>0 DEF Clusters
    <3>4. [cluster EXCEPT !.router = 2] \in Clusters
      BY <1>0 DEF Clusters
    <3> QED
      BY <3>1, <3>2, <3>3, <3>4
  <2>2. [cluster EXCEPT !.dashboard = ~@] \in Clusters
    <3>1. \A b \in BOOLEAN : [cluster EXCEPT !.dashboard = b] \in Clusters
      BY <1>0 DEF Clusters
    <3>2. (~ cluster.dashboard) \in BOOLEAN
      OBVIOUS
    <3> QED
      BY <3>1, <3>2, Zenon
  <2>3. cluster' \in Clusters
    <3>1. \/ \E a \in {"IntegratedOAuth", "OIDC", "None"} : cluster' = [cluster EXCEPT !.auth = a]
          \/ ChangeOthers
      BY <1>3 DEF ChangeCluster
    <3>2. ASSUME ChangeOthers PROVE cluster' \in Clusters
      <4>1. CASE \E t \in Targets, v \in 0..2 : cluster' = [cluster EXCEPT !.client[t] = v]
        BY <2>1, <4>1, Zenon
      <4>2. CASE \E v \in 0..2 : cluster' = [cluster EXCEPT !.ca = v]
        BY <2>1, <4>2
      <4>3. CASE cluster' = [cluster EXCEPT !.dashboard = ~@]
        BY <2>2, <4>3
      <4>4. CASE cluster' = [cluster EXCEPT !.router = 2]
        BY <2>1, <4>4
      <4> QED
        BY <3>2, <4>1, <4>2, <4>3, <4>4, Zenon DEF ChangeOthers
    <3> QED
      BY <2>1, <3>1, <3>2
  <2>4. queued' \in BOOLEAN
    BY <1>3, Zenon DEF ChangeCluster, ChangeOthers
  <2> QED
    BY <1>3, <2>3, <2>4 DEF ChangeCluster, Types, ObjectsTyped
<1>4. CASE ForeignObject
  <2>1. PICK k \in Kinds, t \in Targets :
          \/ \E o \in Foreign(k) : obj' = [obj EXCEPT ![k][t] = o]
          \/ obj' = [obj EXCEPT ![k][t] = Absent]
    BY <1>4, Zenon DEF ForeignObject
  <2>2. \E o \in Objects(gen) : obj' = [obj EXCEPT ![k][t] = o]
    BY <1>0, <2>1, AbsentType, ForeignType, Zenon
  <2>3. obj' \in [Kinds -> [Targets -> Objects(gen)]]
    BY <1>0, <2>1, <2>2
  <2> QED
    BY <1>4, <2>3, Zenon DEF ForeignObject, Types, ObjectsTyped
<1>5. CASE DeleteOwned
  <2>1. obj' \in [Kinds -> [Targets -> Objects(gen)]]
    BY <1>0, <1>5, AbsentType DEF DeleteOwned
  <2> QED
    BY <1>5, <2>1 DEF DeleteOwned, Types, ObjectsTyped
<1>6. CASE Progress
  <2>1. \A k \in Kinds, t \in Targets : [obj[k][t] EXCEPT !.ok = TRUE] \in Objects(gen)
    <3>1. ASSUME NEW o \in Objects(gen) PROVE [o EXCEPT !.ok = TRUE] \in Objects(gen)
      BY Zenon DEF Objects
    <3>2. \A k \in Kinds, t \in Targets : obj[k][t] \in Objects(gen)
      BY <1>0
    <3> QED
      BY <3>1, <3>2
  <2>2. obj' \in [Kinds -> [Targets -> Objects(gen)]]
    BY <1>0, <1>6, <2>1 DEF Progress
  <2> QED
    BY <1>6, <2>2 DEF Progress, Types, ObjectsTyped
<1>7. CASE Provider
  <2>1. cluster' \in Clusters
    BY <1>0, <1>7, ZenonT(60) DEF Provider, Clusters
  <2> QED
    BY <1>7, <2>1 DEF Provider, Types, ObjectsTyped
<1> QED
  BY <1>1, <1>2, <1>3, <1>4, <1>5, <1>6, <1>7

LEMMA TypesInit == Init => Types
<1> SUFFICES ASSUME Init PROVE Types
  OBVIOUS
<1>1. spec \in GatewayConfigSpec
  BY Zenon DEF Init, InitSpecs, GatewayConfigSpec, IngressModes, CertTypes
<1>2. cluster \in Clusters
  BY DEF Init, Clusters
<1>3. gen = 1 /\ rr \in Passes(gen)
  BY NoPassType DEF Init
<1>4. status \in GatewayStatuses(gen)
  <2>1. [i \in Ingresses |-> NoStatus] \in [Ingresses -> Entries(gen)] /\ 0 \in 0 .. gen
    BY <1>3, NoStatusType
  <2> QED
    BY <2>1 DEF Init, GatewayStatuses, Statuses
<1>5. obj \in [Kinds -> [Targets -> Objects(gen)]]
  <2>1. Absent \in Objects(gen)
    BY <1>3, AbsentType
  <2>2. [Absent EXCEPT !.owner = "legacy"] \in Objects(gen)
    BY <2>1 DEF Objects
  <2> QED
    BY <2>1, <2>2 DEF Init
<1> QED
  BY <1>1, <1>2, <1>3, <1>4, <1>5 DEF Init, Types, ObjectsTyped

LEMMA TypesStep == Types /\ [Next]_vars => Types'
<1> SUFFICES ASSUME Types, [Next]_vars PROVE Types'
  OBVIOUS
<1>1. CASE UNCHANGED vars
  BY <1>1 DEF vars, Types, ObjectsTyped
<1>2. CASE Pass
  BY <1>2, InfrastructureTypes, PrepareTypes, CleanupTypes, DeployTypes, FinishTypes DEF Pass
<1> QED
  BY <1>1, <1>2, EnvironmentTypes DEF Next

LEMMA TypesHold == Spec => []Types
BY TypesInit, TypesStep, PTL DEF Spec

(* TypeCorrect: whatever users, the cluster and faults do, objects, conditions
   and the state of a pass hold what the code can put there, and nothing the
   controller stored is of a generation that the GatewayConfig has not reached. *)
THEOREM TypeCorrect == Spec => []TypeOK
<1>1. Types => TypeOK
  <2> SUFFICES ASSUME Types PROVE TypeOK
    OBVIOUS
  <2>1. \A k \in Kinds, t \in Targets :
          /\ obj[k][t].owner \in {"none", "own", "legacy", "foreign"}
          /\ obj[k][t].gen <= gen
          /\ obj[k][t].val.key \in SessionKeys \cup {NoKey} /\ obj[k][t].val.mode \in IngressModes
    BY DEF Types, ObjectsTyped, Objects, Values
  <2>2. \A i \in Ingresses, c \in ConditionTypes :
          status.ing[i][c].status \in Statuses /\ status.ing[i][c].gen <= gen
    BY DEF Types, GatewayStatuses, Entries, Conditions
  <2>3. /\ rr.spec \in GatewayConfigSpec /\ status.gen <= gen /\ rr.gen <= gen
        /\ status.config \in Statuses /\ status.ready \in Statuses /\ DOMAIN obj = Kinds
    BY DEF Types, ObjectsTyped, Passes, GatewayStatuses
  <2> QED
    BY <2>1, <2>2, <2>3, Zenon DEF Types, TypeOK
<1> QED
  BY <1>1, TypesHold, PTL

-----------------------------------------------------------------------------
(* The invariant of the pass in progress *)

(* The pass works for a generation that no object is ahead of. *)
PassIsNewest ==
  pc # "idle" => rr.gen >= 1 /\ \A k \in Kinds, t \in Targets : obj[k][t].gen <= rr.gen

(* The filter is deployed with its Gateway, and a Route only with both. *)
FiltersWanted ==
  /\ pc = "auth" =>
       /\ \A w \in rr.want : \E t \in Live(rr) : w = <<"Gateway", t>>
       /\ \A t \in Live(rr) : <<"Gateway", t>> \in rr.want
  /\ pc = "cleanup" => \A t \in Targets :
       /\ <<"Route", t>> \notin rr.want
       /\ rr.mode = "OcpRoute" /\ t \in Live(rr) => <<"Gateway", t>> \in rr.want
  /\ pc \in {"cleanup", "deploy", "status"} => \A t \in Targets :
       /\ <<"Gateway", t>> \in rr.want => <<"EnvoyFilter", t>> \in rr.want
       /\ <<"Route", t>> \in rr.want => <<"Gateway", t>> \in rr.want

(* The credentials a pass carries have the cookie key of the Secret in place. *)
KeysCarried ==
  pc \in {"cleanup", "deploy"} => \A t \in Targets :
     <<"Secret", t>> \in rr.want /\ Own("Secret", t) => rr.creds[t].key = obj["Secret"][t].val.key

(* Why a pass would not deploy the proxy of a target that it serves. *)
ProxyExcused(t) ==
  \/ ~ProxyDesired(rr.spec) \/ <<"Auth", Default>> \in late
  \/ rejectUnsupportedKubernetesGatewaySpec(rr.spec) \/ ErrDomainRequired(rr.spec)
  \/ t \notin {Default} \cup rr.spec.extra \/ Conflict(rr, t)

ProxiesWanted ==
  pc \in {"cleanup", "deploy", "status"} => \A t \in Targets :
     ProxyExcused(t) \/ t \in rr.failed \/ <<"Deployment", t>> \in rr.want

(* What a pass has deployed is of its generation. *)
WantedIsDeployed ==
  pc = "status" => \A k \in Kinds, t \in Targets :
     <<k, t>> \in rr.want /\ Own(k, t) => obj[k][t].gen = rr.gen

(* What is to be deployed was free or the operator's when the pass looked. *)
WantedIsFree ==
  pc # "idle" => \A k \in Kinds, t \in Targets :
     <<k, t>> \in rr.want /\ OwnershipChecked(k, t) /\ obj[k][t].owner = "foreign" =>
       <<k, t>> \in late \/ (k = "Gateway" /\ rr.ing[t] = NoStatus)

PassInv ==
  /\ gen >= 1
  /\ PassIsNewest /\ FiltersWanted /\ KeysCarried /\ ProxiesWanted /\ WantedIsDeployed /\ WantedIsFree

(* Between passes there is nothing to say of a pass. *)
LEMMA NoPassHolds ==
  ASSUME pc' = "idle"
  PROVE  (PassIsNewest /\ FiltersWanted /\ KeysCarried /\ ProxiesWanted /\ WantedIsDeployed /\ WantedIsFree)'
BY Zenon DEF PassIsNewest, FiltersWanted, KeysCarried, ProxiesWanted, WantedIsDeployed, WantedIsFree

(* Step 1 *)
LEMMA InfrastructureKeeps ==
  ASSUME Types, PassInv, createGatewayInfrastructure
  PROVE  PassInv'
<1>0. /\ gen \in Nat /\ gen >= 1 /\ spec \in GatewayConfigSpec /\ status \in GatewayStatuses(gen)
      /\ obj \in [Kinds -> [Targets -> Objects(gen)]]
  BY DEF Types, ObjectsTyped, PassInv
<1>1. PinnedGen \in Nat /\ PinnedGen >= gen /\ PinnedGen >= 1 /\ gen' = PinnedGen /\ platform' = platform
  BY <1>0 DEF createGatewayInfrastructure, PinnedGen
<1>2. /\ StartedPass.want = {} /\ StartedPass.spec = PinnedSpec /\ StartedPass.gen = PinnedGen
      /\ StartedPass \in Passes(PinnedGen) /\ PinnedSpec \in GatewayConfigSpec
  <2>1. StartedPass.want = {} /\ StartedPass.spec = PinnedSpec /\ StartedPass.gen = PinnedGen
    BY DEF StartedPass, NoPass
  <2> QED
    BY <2>1, StartedTypes, PinnedTypes
<1>3. \A k \in Kinds, t \in Targets : obj'[k][t] \in {obj[k][t], Absent}
  <2>1. obj' \in {obj, deleteLegacyNetworkPolicy, [obj EXCEPT !["Gateway"][Default] = Absent]}
    BY DEF createGatewayInfrastructure
  <2> QED
    BY <1>0, <2>1 DEF deleteLegacyNetworkPolicy, Targets, Kinds
<1>5. pc' \in {"idle", "cleanup", "auth"}
  BY DEF createGatewayInfrastructure, EndWithError
<1>6. CASE pc' = "idle"
  BY <1>1, <1>6, NoPassHolds DEF PassInv
<1>7. CASE pc' = "cleanup"
  <2>1. /\ rr' = [StartedPass EXCEPT !.config = "False", !.mode = ""]
        /\ \/ rejectUnsupportedKubernetesGatewaySpec(spec)
           \/ ErrDomainRequired(PinnedSpec)
    BY <1>7 DEF createGatewayInfrastructure, EndWithError
  <2>2. rr'.want = {} /\ rr'.mode = "" /\ rr'.gen = PinnedGen /\ rr'.spec = PinnedSpec
    BY <1>2, <2>1 DEF Passes
  <2>3. PassIsNewest'
    <3>1. ASSUME NEW k \in Kinds, NEW t \in Targets PROVE obj'[k][t].gen <= PinnedGen
      <4>1. obj[k][t].gen \in 0 .. gen /\ Absent.gen = 0
        BY <1>0 DEF Objects, Absent
      <4>2. obj'[k][t].gen = obj[k][t].gen \/ obj'[k][t].gen = Absent.gen
        BY <1>3, Zenon
      <4> QED
        BY <1>0, <1>1, <4>1, <4>2
    <3> QED
      BY <1>1, <2>2, <3>1, Zenon DEF PassIsNewest
  <2>4. \A t \in Targets : ProxyExcused(t)'
    <3>1. CASE rejectUnsupportedKubernetesGatewaySpec(spec)
      <4>1. PinnedSpec = spec
        BY <1>0, <3>1 DEF PinnedSpec, ModePinned, Detects, GatewayConfigSpec
      <4> QED
        BY <1>1, <2>2, <3>1, <4>1, Zenon DEF ProxyExcused, rejectUnsupportedKubernetesGatewaySpec
    <3>2. CASE ErrDomainRequired(PinnedSpec)
      BY <1>1, <2>2, <3>2, Zenon DEF ProxyExcused, ErrDomainRequired
    <3> QED
      BY <2>1, <3>1, <3>2
  <2> QED
    BY <1>1, <1>7, <2>2, <2>3, <2>4, Zenon
       DEF PassInv, FiltersWanted, KeysCarried, ProxiesWanted, WantedIsDeployed, WantedIsFree
<1>8. CASE pc' = "auth"
  <2>1. /\ rr' = [CheckedPass EXCEPT !.want =
                    {<<"Gateway", Default>>} \cup createAdditionalGateways(CheckedPass)]
        /\ obj' = obj
    BY <1>8 DEF createGatewayInfrastructure, EndWithError
  <2>2. /\ CheckedPass \in Passes(PinnedGen) /\ CheckedPass.spec = PinnedSpec /\ CheckedPass.gen = PinnedGen
        /\ CheckedPass.ing = CheckConflicts(PinnedSpec, StartedPass.ing, PinnedGen)
    <3>1. CheckedPass \in Passes(PinnedGen)
      BY StartedTypes
    <3> QED
      BY <1>2, <3>1 DEF CheckedPass, Passes
  <2>3. /\ rr'.gen = PinnedGen /\ rr'.spec = PinnedSpec /\ rr'.ing = CheckedPass.ing
        /\ rr'.want = {<<"Gateway", Default>>} \cup createAdditionalGateways(CheckedPass)
    BY <2>1, <2>2 DEF Passes
  <2>4. \A t : Conflict(rr', t) <=> Conflict(CheckedPass, t)
    BY <2>2, <2>3 DEF Conflict
  <2>5. PassIsNewest'
    BY <1>0, <1>1, <2>1, <2>3 DEF PassIsNewest, Objects
  <2>6. FiltersWanted'
    <3>1. ASSUME NEW w \in rr'.want PROVE \E t \in Live(rr') : w = <<"Gateway", t>>
      <4>1. CASE w = <<"Gateway", Default>>
        <5>1. Default \in Live(rr')
          BY DEF Live, Conflict
        <5> QED
          BY <4>1, <5>1
      <4>2. CASE w \in createAdditionalGateways(CheckedPass)
        <5>1. PICK i \in CheckedPass.spec.extra : ~Conflict(CheckedPass, i) /\ w = <<"Gateway", i>>
          BY <4>2 DEF createAdditionalGateways
        <5>2. i \in Live(rr')
          BY <2>2, <2>3, <2>4, <5>1 DEF Live
        <5> QED
          BY <5>1, <5>2
      <4> QED
        BY <2>3, <3>1, <4>1, <4>2
    <3>2. (Live(rr))' = Live(rr')
      BY DEF Live, Conflict
    <3>3. ASSUME NEW t \in Live(rr') PROVE <<"Gateway", t>> \in rr'.want
      BY <2>2, <2>3, <2>4, Zenon DEF Live, createAdditionalGateways
    <3> QED
      BY <1>8, <3>1, <3>2, <3>3, Zenon DEF FiltersWanted
  <2>7. WantedIsFree'
    <3> SUFFICES ASSUME NEW k \in Kinds, NEW t \in Targets, <<k, t>> \in rr'.want,
                        OwnershipChecked(k, t), obj[k][t].owner = "foreign"
                 PROVE  k = "Gateway" /\ rr'.ing[t] = NoStatus
      BY <2>1, Zenon DEF WantedIsFree, OwnershipChecked
    <3>0. k = "Gateway"
      BY <2>3, Zenon DEF createAdditionalGateways
    <3>1. t \in Ingresses /\ t # Default
      BY <3>0, Zenon DEF OwnershipChecked, Targets
    <3>2. PICK i \in CheckedPass.spec.extra : ~Conflict(CheckedPass, i) /\ <<k, t>> = <<"Gateway", i>>
      BY <2>3, <3>1, Zenon DEF createAdditionalGateways
    <3>3. k = "Gateway" /\ t = i /\ t \in PinnedSpec.extra /\ ~Conflict(CheckedPass, t)
      BY <2>2, <3>2
    <3>4. ConflictReason(PinnedSpec, t) \in {"HostnameConflict", "OwnershipConflict"}
      BY <3>3, Zenon DEF ConflictReason
    <3>5. CASE StartedPass.ing[t] = NoStatus
      BY <2>2, <2>3, <3>1, <3>3, <3>5, Zenon DEF CheckConflicts
    <3>6. CASE StartedPass.ing[t] # NoStatus
      <4>1. CheckedPass.ing[t] = [StartedPass.ing[t] EXCEPT !["GatewayReady"] =
                                    Condition("False", ConflictReason(PinnedSpec, t), PinnedGen)]
        BY <2>2, <3>1, <3>3, <3>4, <3>6, Zenon DEF CheckConflicts
      <4>2. StartedPass.ing[t] \in Entries(PinnedGen)
        BY <1>2, <3>1, Zenon DEF Passes
      <4>3. CheckedPass.ing[t]["GatewayReady"] = Condition("False", ConflictReason(PinnedSpec, t), PinnedGen)
        BY <4>1, <4>2 DEF Entries, ConditionTypes
      <4>4. Conflict(CheckedPass, t)
        BY <2>2, <3>1, <3>4, <4>3, SMT, SMTT(60) DEF Conflict, additionalIngressHasGatewayConflict, Condition
      <4> QED
        BY <3>3, <4>4, Zenon
    <3> QED
      BY <3>3, <3>5, <3>6
  <2> QED
    BY <1>1, <1>8, <2>5, <2>6, <2>7, Zenon DEF PassInv, KeysCarried, ProxiesWanted, WantedIsDeployed
<1> QED
  BY <1>5, <1>6, <1>7, <1>8

(* Preparation writes Secrets only, of names that nobody else holds, and keeps
   the cookie key of a Secret that is there. *)
LEMMA CreateSecretKeeps ==
  ASSUME Types, NEW fresh \in SessionKeys, NEW mode, NEW ok \in SUBSET Targets,
         \A t \in ok : obj["Secret"][t].owner # "foreign",
         obj' = createSecret(ok, mode, fresh)
  PROVE  /\ \A k \in Kinds \ {"Secret"} : obj'[k] = obj[k]
         /\ \A t \in Targets \ ok : obj'["Secret"][t] = obj["Secret"][t]
         /\ \A t \in ok : /\ obj'["Secret"][t].owner = "own"
                          /\ obj'["Secret"][t].gen = obj["Secret"][t].gen
                          /\ obj'["Secret"][t].val = getAuthProxySecretValues(mode, t, fresh)
                          /\ Own("Secret", t) => obj'["Secret"][t].val.key = obj["Secret"][t].val.key
<1>1. obj \in [Kinds -> [Targets -> Objects(gen)]] /\ "Secret" \in Kinds
  BY DEF Types, ObjectsTyped, Kinds
<1>2. obj' = [obj EXCEPT !["Secret"] = [t \in Targets |-> IF t \in ok
                THEN [obj["Secret"][t] EXCEPT !.owner = "own", !.val = getAuthProxySecretValues(mode, t, fresh)]
                ELSE obj["Secret"][t]]]
  BY <1>1, Zenon DEF createSecret
<1>3. /\ \A k \in Kinds \ {"Secret"} : obj'[k] = obj[k]
      /\ \A t \in Targets \ ok : obj'["Secret"][t] = obj["Secret"][t]
  BY <1>1, <1>2, Zenon
<1>4. ASSUME NEW t \in ok
      PROVE  /\ obj'["Secret"][t].owner = "own"
             /\ obj'["Secret"][t].gen = obj["Secret"][t].gen
             /\ obj'["Secret"][t].val = getAuthProxySecretValues(mode, t, fresh)
             /\ Own("Secret", t) => obj'["Secret"][t].val.key = obj["Secret"][t].val.key
  <2>1. obj'["Secret"][t] = [obj["Secret"][t] EXCEPT !.owner = "own", !.val = getAuthProxySecretValues(mode, t, fresh)]
    BY <1>1, <1>2, Zenon
  <2>2. obj["Secret"][t] \in Objects(gen)
    BY <1>1
  <2>3. /\ obj'["Secret"][t].owner = "own"
        /\ obj'["Secret"][t].gen = obj["Secret"][t].gen
        /\ obj'["Secret"][t].val = getAuthProxySecretValues(mode, t, fresh)
    BY <2>1, <2>2 DEF Objects
  <2>4. Own("Secret", t) => getAuthProxySecretValues(mode, t, fresh).key = obj["Secret"][t].val.key
    BY DEF getAuthProxySecretValues, Own, Exists, Blank
  <2> QED
    BY <2>3, <2>4, Zenon
<1> QED
  BY <1>3, <1>4, Zenon

(* Step 2 *)
LEMMA PreparedFree ==
  ASSUME NEW t \in Prepared(rr)
  PROVE  t \in Live(rr) /\ t \notin Bad(rr) /\ AuthMode(rr.spec) # "None" /\ obj["Secret"][t].owner # "foreign"
BY DEF Prepared, Bad, PreparationFails

LEMMA PrepareObjects ==
  ASSUME Types, prepareAuthProxies
  PROVE  \/ UNCHANGED obj /\ pc' = "idle"
         \/ \E fresh \in SessionKeys, done \in SUBSET Prepared(rr) :
              obj' = createSecret(done, AuthMode(rr.spec), fresh) /\ pc' = "idle"
         \/ \E fresh \in SessionKeys :
              /\ obj' = createSecret(Prepared(rr), AuthMode(rr.spec), fresh)
              /\ rr' = PreparedPass(rr, fresh) /\ pc' = "cleanup" /\ late' = late
<1>1. \A seen : seen \cap Prepared(rr) \in SUBSET Prepared(rr)
  OBVIOUS
<1> QED
  BY <1>1, Zenon DEF prepareAuthProxies, EndWithError

LEMMA PrepareKeeps ==
  ASSUME Types, PassInv, prepareAuthProxies
  PROVE  PassInv'
<1>0. UNCHANGED <<platform, cluster, spec, gen>> /\ pc = "auth"
  BY DEF prepareAuthProxies
<1>1. CASE pc' = "idle"
  BY <1>0, <1>1, NoPassHolds DEF PassInv
<1>3. ASSUME NEW fresh \in SessionKeys, obj' = createSecret(Prepared(rr), AuthMode(rr.spec), fresh),
             rr' = PreparedPass(rr, fresh), pc' = "cleanup", late' = late
      PROVE  PassInv'
  <2>1. rr \in Passes(gen) /\ gen \in Nat
    BY DEF Types
  <2>2. /\ rr'.spec = rr.spec /\ rr'.gen = rr.gen /\ rr'.ing = rr.ing /\ rr'.failed = FailedTargets(rr)
        /\ rr'.creds = [t \in Targets |-> IF t \in Prepared(rr)
                          THEN getAuthProxySecretValues(AuthMode(rr.spec), t, fresh) ELSE Blank]
        /\ rr'.want = rr.want \cup PoliciesOf(Live(rr), Bad(rr), ProxyDesired(rr.spec))
                              \cup ({"Secret", "Deployment"} \X Prepared(rr))
    BY <1>3, <2>1, Zenon DEF PreparedPass, Passes
  <2>3. Live(rr) \subseteq Targets /\ Prepared(rr) \subseteq Live(rr)
    BY PreparedFree, Zenon DEF Live, Types, Passes, GatewayConfigSpec, Targets
  <2>4. /\ \A k \in Kinds \ {"Secret"} : obj'[k] = obj[k]
        /\ \A t \in Targets \ Prepared(rr) : obj'["Secret"][t] = obj["Secret"][t]
        /\ \A t \in Prepared(rr) :
             /\ obj'["Secret"][t].owner = "own" /\ obj'["Secret"][t].gen = obj["Secret"][t].gen
             /\ obj'["Secret"][t].val = getAuthProxySecretValues(AuthMode(rr.spec), t, fresh)
    BY <1>3, <2>3, PreparedFree, CreateSecretKeeps, SMT, SMTT(60)
  <2>5. rr'.mode = rr.mode /\ (Live(rr))' = Live(rr)
    <3>1. rr'.mode = rr.mode
      BY <1>3, <2>1, Zenon DEF PreparedPass, Passes
    <3> QED
      BY <2>2, <3>1, Zenon DEF Live, Conflict
  <2>6. PassIsNewest'
    <3>1. \A k \in Kinds, t \in Targets : obj'[k][t].gen = obj[k][t].gen
      BY <2>4, Zenon
    <3> QED
      BY <1>0, <2>2, <3>1, Zenon DEF PassInv, PassIsNewest
  <2>7. ASSUME NEW t \in Targets, <<"Gateway", t>> \in rr'.want
        PROVE  <<"EnvoyFilter", t>> \in rr'.want /\ <<"Gateway", t>> \in rr.want
    <3>1. <<"Gateway", t>> \in rr.want
      BY <2>2, <2>7, SMT, SMTT(60) DEF PoliciesOf
    <3>2. t \in Live(rr)
      BY <1>0, <3>1, Zenon DEF PassInv, FiltersWanted
    <3> QED
      BY <2>2, <3>1, <3>2, Zenon DEF PoliciesOf
  <2>8. FiltersWanted'
    <3>1. \A t \in Targets : <<"Route", t>> \notin rr.want /\ (t \in Live(rr) => <<"Gateway", t>> \in rr.want)
      BY <1>0, Zenon DEF PassInv, FiltersWanted
    <3>2. \A t \in Targets : <<"Route", t>> \notin rr'.want
      <4>1. \A t : <<"Route", t>> \notin PoliciesOf(Live(rr), Bad(rr), ProxyDesired(rr.spec))
        BY Zenon DEF PoliciesOf
      <4>2. \A t : <<"Route", t>> \notin {"Secret", "Deployment"} \X Prepared(rr)
        OBVIOUS
      <4> QED
        BY <2>2, <3>1, <4>1, <4>2, Zenon
    <3>3. \A t \in Live(rr) : t \in Targets => <<"Gateway", t>> \in rr'.want
      BY <2>2, <3>1, Zenon
    <3> QED
      BY <1>3, <2>5, <2>7, <3>2, <3>3, Zenon DEF FiltersWanted
  <2>9. ASSUME NEW t \in Targets, <<"Secret", t>> \in rr'.want PROVE t \in Prepared(rr)
    <3>1. <<"Secret", t>> \notin rr.want
      BY <1>0, Zenon DEF PassInv, FiltersWanted
    <3> QED
      BY <2>2, <2>9, <3>1, SMT, SMTT(60) DEF PoliciesOf
  <2>10. KeysCarried'
    BY <2>2, <2>3, <2>4, <2>9, Zenon DEF KeysCarried
  <2>11. ProxiesWanted'
    <3> SUFFICES ASSUME NEW t \in Targets, ~(ProxyExcused(t))'
                 PROVE  t \in rr'.failed \/ <<"Deployment", t>> \in rr'.want
      BY Zenon DEF ProxiesWanted
    <3>1. ProxyDesired(rr.spec) /\ t \in {Default} \cup rr.spec.extra /\ ~Conflict(rr, t)
      BY <1>0, <2>2, Zenon DEF ProxyExcused, ProxyDesired, getGatewayAuthenticationMode, OIDCWithoutConfig, Conflict
    <3>2. t \in Live(rr)
      BY <3>1, Zenon DEF Live
    <3>3. AuthMode(rr.spec) # "None" /\ ~OIDCWithoutConfig(rr.spec)
      BY <3>1, Zenon DEF AuthMode, ProxyDesired
    <3> QED
      BY <2>2, <3>2, <3>3, Zenon DEF FailedTargets, Prepared
  <2>12. WantedIsFree'
    <3> SUFFICES ASSUME NEW k \in Kinds, NEW t \in Targets, <<k, t>> \in rr'.want,
                        OwnershipChecked(k, t), obj'[k][t].owner = "foreign"
                 PROVE  <<k, t>> \in late \/ (k = "Gateway" /\ rr.ing[t] = NoStatus)
      BY <1>3, <2>2, Zenon DEF WantedIsFree, OwnershipChecked
    <3>1. k \in {"Secret", "Gateway", "Route"}
      BY Zenon DEF OwnershipChecked
    <3>2. k # "Secret"
      BY <2>4, <2>9, Zenon
    <3>3. obj[k][t].owner = "foreign"
      BY <2>4, <3>2, Zenon
    <3>4. <<k, t>> \in rr.want
      BY <2>2, <3>1, <3>2, Zenon DEF PoliciesOf
    <3> QED
      BY <1>0, <3>3, <3>4, Zenon DEF PassInv, WantedIsFree
  <2> QED
    BY <1>0, <1>3, <2>6, <2>8, <2>10, <2>11, <2>12, Zenon DEF PassInv, WantedIsDeployed
<1> QED
  BY <1>1, <1>3, PrepareObjects

(* Step 3 *)
LEMMA CleanupKeeps ==
  ASSUME Types, PassInv, cleanupAndRoutes
  PROVE  PassInv'
<1>0. /\ rr \in Passes(gen) /\ gen \in Nat /\ obj \in [Kinds -> [Targets -> Objects(gen)]]
      /\ pc = "cleanup" /\ pc' = "deploy" /\ UNCHANGED <<platform, spec, gen, late>>
  BY DEF Types, ObjectsTyped, cleanupAndRoutes
<1>1. /\ \A k \in Kinds, t \in Targets : obj'[k][t] \in {obj[k][t], Absent}
      /\ \A k \in Kinds \ {"Deployment", "NetworkPolicy"}, t \in Targets : obj'[k][t] = obj[k][t]
  BY <1>0 DEF cleanupAndRoutes, cleanupKubeAuthProxyResources, deleteKubeAuthProxyResource
<1>3. cluster'.auth = cluster.auth
  BY DEF cleanupAndRoutes, Types, Clusters
<1>4. /\ rr'.spec = rr.spec /\ rr'.gen = rr.gen /\ rr'.failed = rr.failed /\ rr'.creds = rr.creds
      /\ \/ rr'.want = rr.want
         \/ /\ rr.mode = "OcpRoute"
            /\ rr'.want = rr.want \cup {<<"Route", Default>>} \cup createAdditionalIngressRoutes(rr)
      /\ rr'.ing \in {rr.ing, [i \in Ingresses |-> IF ForeignRoute(rr, i) /\ rr.ing[i] # NoStatus
                       THEN [rr.ing[i] EXCEPT !["RouteAdmitted"] = Condition("False", "OwnershipConflict", rr.gen)]
                       ELSE rr.ing[i]]}
  <2>1. rr' = [createOCPRoutes(rr) EXCEPT !.redirect = platform = "OpenShift" /\ DashboardRedirectsWanted]
    BY DEF cleanupAndRoutes
  <2> QED
    BY <1>0, <2>1, Zenon DEF createOCPRoutes, Passes
<1>5. ASSUME NEW i \in Ingresses
      PROVE  /\ rr'.ing[i]["GatewayReady"] = rr.ing[i]["GatewayReady"]
             /\ rr.ing[i] = NoStatus => rr'.ing[i] = NoStatus
  <2>1. rr.ing[i] \in Entries(gen)
    BY <1>0, Zenon DEF Passes
  <2> QED
    BY <1>4, <2>1, Zenon DEF Entries, ConditionTypes
<1>6. \A t \in Targets : Conflict(rr', t) <=> Conflict(rr, t)
  BY <1>4, <1>5, Zenon DEF Conflict, additionalIngressHasGatewayConflict, Targets
<1>7. PassIsNewest'
  <2>1. rr.gen \in Nat /\ rr.gen >= 1 /\ \A k \in Kinds, t \in Targets : obj[k][t].gen <= rr.gen
    BY <1>0 DEF PassInv, PassIsNewest, Passes
  <2>2. \A k \in Kinds, t \in Targets : obj'[k][t].gen <= rr.gen
    BY <1>1, <2>1 DEF Absent
  <2> QED
    BY <1>4, <2>1, <2>2, Zenon DEF PassIsNewest
<1>8. \A k \in Kinds \ {"Route"}, t \in Targets : <<k, t>> \in rr'.want <=> <<k, t>> \in rr.want
  BY <1>4, SMT, SMTT(60) DEF createAdditionalIngressRoutes
<1>9. FiltersWanted'
  <2>1. \A t \in Targets : /\ <<"Gateway", t>> \in rr'.want <=> <<"Gateway", t>> \in rr.want
                           /\ <<"EnvoyFilter", t>> \in rr'.want <=> <<"EnvoyFilter", t>> \in rr.want
    BY <1>8 DEF Kinds
  <2>2. ASSUME NEW t \in Targets, <<"Route", t>> \in rr'.want PROVE <<"Gateway", t>> \in rr.want
    <3>1. <<"Route", t>> \notin rr.want
      BY <1>0, Zenon DEF PassInv, FiltersWanted
    <3>2. rr.mode = "OcpRoute" /\ (t = Default \/ <<"Route", t>> \in createAdditionalIngressRoutes(rr))
      BY <1>4, <2>2, <3>1, Zenon
    <3>3. t \in Live(rr)
      BY <3>2, Zenon DEF createAdditionalIngressRoutes, Live, Conflict
    <3> QED
      BY <1>0, <3>2, <3>3, Zenon DEF PassInv, FiltersWanted
  <2> QED
    BY <1>0, <2>1, <2>2, Zenon DEF PassInv, FiltersWanted
<1>10. KeysCarried'
  <2>1. \A t \in Targets :
          obj'["Secret"][t] = obj["Secret"][t] /\ (<<"Secret", t>> \in rr'.want <=> <<"Secret", t>> \in rr.want)
    BY <1>1, <1>8, Zenon DEF Kinds
  <2> QED
    BY <1>0, <1>4, <2>1, Zenon DEF PassInv, KeysCarried, Own
<1>11. ProxiesWanted'
  <2>1. ASSUME NEW t \in Targets PROVE ProxyExcused(t)' <=> ProxyExcused(t)
    BY <1>0, <1>3, <1>4, <1>6, Zenon DEF ProxyExcused, ProxyDesired, getGatewayAuthenticationMode, OIDCWithoutConfig,
       rejectUnsupportedKubernetesGatewaySpec, ErrDomainRequired, Conflict, KubernetesValidationErrors
  <2>2. \A t \in Targets : <<"Deployment", t>> \in rr'.want <=> <<"Deployment", t>> \in rr.want
    BY <1>8 DEF Kinds
  <2> QED
    BY <1>0, <1>4, <2>1, <2>2, Zenon DEF PassInv, ProxiesWanted
<1>12. WantedIsFree'
  <2> SUFFICES ASSUME NEW k \in Kinds, NEW t \in Targets, <<k, t>> \in rr'.want,
                      OwnershipChecked(k, t), obj'[k][t].owner = "foreign"
               PROVE  <<k, t>> \in late' \/ (k = "Gateway" /\ rr'.ing[t] = NoStatus)
    BY Zenon DEF WantedIsFree, OwnershipChecked
  <2>1. obj[k][t].owner = "foreign"
    BY <1>1, SMT, SMTT(60) DEF Absent
  <2>2. CASE <<k, t>> \in rr.want
    <3>1. k = "Gateway" => t \in Ingresses
      BY Zenon DEF OwnershipChecked, Targets
    <3> QED
      BY <1>0, <1>5, <2>1, <2>2, <3>1, Zenon DEF PassInv, WantedIsFree
  <2>3. CASE <<k, t>> \notin rr.want
    <3>1. <<k, t>> \in createAdditionalIngressRoutes(rr)
      BY <1>4, <2>3, Zenon DEF OwnershipChecked
    <3>2. k = "Route" /\ t \in rr.spec.extra /\ ~Conflict(rr, t) /\ ~ForeignRoute(rr, t)
      BY <3>1, Zenon DEF createAdditionalIngressRoutes
    <3> QED
      BY <2>1, <3>2, Zenon DEF ForeignRoute
  <2> QED
    BY <2>2, <2>3, Zenon
<1> QED
  BY <1>0, <1>7, <1>9, <1>10, <1>11, <1>12, Zenon DEF PassInv, WantedIsDeployed

(* Step 4 *)
LEMMA ApplyResult ==
  ASSUME Types, NEW done, obj' = Apply(done)
  PROVE  \A k \in Kinds, t \in Targets :
           /\ <<k, t>> \notin done => obj'[k][t] = obj[k][t]
           /\ <<k, t>> \in done => obj'[k][t] = Applied(k, t)
           /\ <<k, t>> \in done => obj'[k][t].owner = "own" /\ obj'[k][t].gen = rr.gen
<1>1. DOMAIN obj = Kinds
  BY DEF Types, ObjectsTyped
<1>2. \A k \in Kinds, t \in Targets : obj'[k][t] = IF <<k, t>> \in done THEN Applied(k, t) ELSE obj[k][t]
  BY <1>1, Zenon DEF Apply
<1>3. \A k, t : Applied(k, t).owner = "own" /\ Applied(k, t).gen = rr.gen
  BY Zenon DEF Applied
<1>4. ASSUME NEW k \in Kinds, NEW t \in Targets, <<k, t>> \in done
      PROVE  obj'[k][t] = Applied(k, t) /\ obj'[k][t].owner = "own" /\ obj'[k][t].gen = rr.gen
  <2>1. obj'[k][t] = Applied(k, t)
    BY <1>2, <1>4, Zenon
  <2> QED
    BY <1>3, <2>1, Zenon
<1> QED
  BY <1>2, <1>4, Zenon

LEMMA StageType == ASSUME NEW o PROVE Stage(o) \in Nat
BY DEF Stage

(* A deploy that fails has applied all of the earlier stages. *)
LEMMA DeployResult ==
  ASSUME deploy
  PROVE  /\ pc = "deploy" /\ UNCHANGED <<platform, spec, gen>>
         /\ \/ /\ obj' = Apply(rr.want) /\ pc' = "status" /\ UNCHANGED <<late, rr>>
               /\ cluster' = [cluster EXCEPT !.redirects = @ \/ rr.redirect]
            \/ pc' = "idle" /\ queued' = TRUE
         /\ \E done \in SUBSET rr.want :
              /\ obj' = Apply(done)
              /\ \A o \in rr.want, q \in done : Stage(o) < Stage(q) => o \in done
<1>1. /\ pc = "deploy" /\ UNCHANGED <<platform, spec, gen>>
      /\ \/ /\ obj' = Apply(rr.want) /\ pc' = "status" /\ UNCHANGED <<late, rr>>
            /\ cluster' = [cluster EXCEPT !.redirects = @ \/ rr.redirect]
         \/ pc' = "idle" /\ queued' = TRUE
  BY Zenon DEF deploy, EndWithError
<1>2. CASE obj' = Apply(rr.want)
  BY <1>1, <1>2
<1>3. ASSUME NEW p \in rr.want,
             NEW more \in SUBSET {o \in rr.want \ {p} : ~AppliedBefore(o, p) /\ ~AppliedBefore(p, o)},
             obj' = Apply({o \in rr.want : AppliedBefore(o, p)} \cup more)
      PROVE  \E done \in SUBSET rr.want :
               /\ obj' = Apply(done)
               /\ \A o \in rr.want, q \in done : Stage(o) < Stage(q) => o \in done
  <2> DEFINE done == {o \in rr.want : AppliedBefore(o, p)} \cup more
  <2>1. done \in SUBSET rr.want
    OBVIOUS
  <2>2. ASSUME NEW o \in rr.want, NEW q \in done, Stage(o) < Stage(q) PROVE o \in done
    <3>1. Stage(q) <= Stage(p)
      BY StageType DEF AppliedBefore
    <3>2. Stage(o) < Stage(p)
      BY <2>2, <3>1, StageType
    <3> QED
      BY <3>2 DEF AppliedBefore
  <2> QED
    BY <1>3, <2>1, <2>2
<1> QED
  BY <1>1, <1>2, <1>3, Zenon DEF deploy

LEMMA DeployKeeps ==
  ASSUME Types, PassInv, deploy
  PROVE  PassInv'
<1>0. pc = "deploy" /\ UNCHANGED <<platform, spec, gen>>
  BY DeployResult
<1>1. ASSUME pc' = "idle" PROVE PassInv'
  BY <1>0, <1>1, NoPassHolds, Zenon DEF PassInv
<1>2. ASSUME obj' = Apply(rr.want), pc' = "status", UNCHANGED <<late, rr>>,
             cluster' = [cluster EXCEPT !.redirects = @ \/ rr.redirect]
      PROVE  PassInv'
  <2>1. \A k \in Kinds, t \in Targets :
          /\ <<k, t>> \notin rr.want => obj'[k][t] = obj[k][t]
          /\ <<k, t>> \in rr.want => obj'[k][t].owner = "own" /\ obj'[k][t].gen = rr.gen
    BY <1>2, ApplyResult, Zenon
  <2>2. rr.gen \in Nat /\ rr.gen >= 1 /\ \A k \in Kinds, t \in Targets : obj[k][t].gen <= rr.gen
    BY <1>0, SMT, SMTT(60) DEF Types, PassInv, PassIsNewest, Passes
  <2>3. PassIsNewest'
    <3>1. ASSUME NEW k \in Kinds, NEW t \in Targets PROVE obj'[k][t].gen <= rr.gen
      <4>1. obj'[k][t].gen = obj[k][t].gen \/ obj'[k][t].gen = rr.gen
        BY <2>1, Zenon
      <4> QED
        BY <2>2, <4>1
    <3> QED
      BY <1>2, <2>2, <3>1, Zenon DEF PassIsNewest
  <2>4. ProxiesWanted'
    <3>1. cluster'.auth = cluster.auth
      BY <1>2 DEF Types, Clusters
    <3>2. ASSUME NEW t \in Targets PROVE ProxyExcused(t)' <=> ProxyExcused(t)
      BY <1>0, <1>2, <3>1 DEF ProxyExcused, ProxyDesired, getGatewayAuthenticationMode, OIDCWithoutConfig,
         rejectUnsupportedKubernetesGatewaySpec, ErrDomainRequired, Conflict, KubernetesValidationErrors
    <3> QED
      BY <1>0, <1>2, <3>2, Zenon DEF PassInv, ProxiesWanted
  <2>5. WantedIsDeployed'
    BY <1>2, <2>1, Zenon DEF WantedIsDeployed
  <2>6. WantedIsFree'
    BY <1>2, <2>1, Zenon DEF WantedIsFree
  <2>7. FiltersWanted'
    BY <1>0, <1>2, Zenon DEF PassInv, FiltersWanted
  <2> QED
    BY <1>0, <1>2, <2>3, <2>4, <2>5, <2>6, <2>7 DEF PassInv, KeysCarried
<1> QED
  BY <1>1, <1>2, DeployResult

(* Step 5 *)
LEMMA FinishResult ==
  ASSUME Types, finish
  PROVE  /\ pc = "status" /\ pc' = "idle" /\ gen' = gen
         /\ \A k \in Kinds, t \in Targets :
              \/ obj'[k][t] = obj[k][t]
              \/ gatewayAuthResourceCollectable(rr, k, t) /\ obj'[k][t] = Absent
         /\ \/ queued' = TRUE
            \/ \A k \in Kinds, t \in Targets :
                 gatewayAuthResourceCollectable(rr, k, t) => obj'[k][t] = Absent
<1> DEFINE r == syncAdditionalIngressReadiness(rr)
<1>1. r.gen = rr.gen /\ r.failed = rr.failed
  BY DEF Types, Passes, syncAdditionalIngressReadiness
<1>2. DOMAIN obj = Kinds
  BY DEF Types, ObjectsTyped
<1>3. /\ pc = "status" /\ pc' = "idle" /\ gen' = gen
      /\ \E gone \in SUBSET Collectable(r) :
           obj' = Collect(gone) /\ (queued' = TRUE \/ gone = Collectable(r))
  BY Zenon DEF finish
<1> HIDE DEF r
<1>4. \A k, t : gatewayAuthResourceCollectable(r, k, t) <=> gatewayAuthResourceCollectable(rr, k, t)
  BY <1>1 DEF gatewayAuthResourceCollectable
<1>5. \A k \in Kinds, t \in Targets :
        <<k, t>> \in Collectable(r) <=> gatewayAuthResourceCollectable(rr, k, t)
  BY <1>4 DEF Collectable
<1>6. PICK gone \in SUBSET Collectable(r) :
        obj' = Collect(gone) /\ (queued' = TRUE \/ gone = Collectable(r))
  BY <1>3, Zenon
<1>7. \A k \in Kinds, t \in Targets : obj'[k][t] = IF <<k, t>> \in gone THEN Absent ELSE obj[k][t]
  BY <1>2, <1>6, Zenon DEF Collect
<1> QED
  BY <1>3, <1>5, <1>6, <1>7, Zenon

LEMMA FinishKeeps ==
  ASSUME Types, PassInv, finish
  PROVE  PassInv'
BY FinishResult, NoPassHolds, Zenon DEF PassInv

(* Users, the cluster and the provider: an object stays, is deleted, makes
   progress, or is somebody else's and is noted if a pass is in progress. *)
ObjectsChange ==
  \A k \in Kinds, t \in Targets :
    \/ obj'[k][t] = obj[k][t]
    \/ obj'[k][t] = Absent
    \/ obj'[k][t] = [obj[k][t] EXCEPT !.ok = TRUE]
    \/ /\ obj'[k][t].owner = "foreign" /\ obj'[k][t].gen = 0
       /\ pc = "idle" \/ <<k, t>> \in late'

(* A note is taken back only when the foreign object is gone. *)
NotesKept ==
  \A k, t : <<k, t>> \in late /\ <<k, t>> \notin late' =>
     k \in Kinds /\ obj'[k][t] = Absent

LEMMA ObjectChange ==
  ASSUME Types, ObjectsChange, NEW k \in Kinds, NEW t \in Targets
  PROVE  \/ /\ obj'[k][t].owner = obj[k][t].owner /\ obj'[k][t].gen = obj[k][t].gen
            /\ obj'[k][t].val = obj[k][t].val
         \/ obj'[k][t].owner = "none" /\ obj'[k][t].gen = 0
         \/ /\ obj'[k][t].owner = "foreign" /\ obj'[k][t].gen = 0
            /\ pc = "idle" \/ <<k, t>> \in late'
<1>1. obj[k][t] \in Objects(gen)
  BY DEF Types, ObjectsTyped
<1>2. CASE obj'[k][t] = obj[k][t]
  BY <1>2, Zenon
<1>3. CASE obj'[k][t] = Absent
  BY <1>3, SMT, SMTT(60) DEF Absent
<1>4. CASE obj'[k][t] = [obj[k][t] EXCEPT !.ok = TRUE]
  BY <1>1, <1>4 DEF Objects
<1> QED
  BY <1>2, <1>3, <1>4, Zenon DEF ObjectsChange

LEMMA ChangeKeeps ==
  ASSUME Types, PassInv, ObjectsChange, NotesKept, gen' \in {gen, gen + 1}, UNCHANGED <<platform, pc, rr>>,
         cluster'.auth = cluster.auth \/ pc = "idle" \/ <<"Auth", Default>> \in late'
  PROVE  PassInv'
<1>0. gen \in Nat /\ rr \in Passes(gen) /\ \A k \in Kinds, t \in Targets : obj[k][t] \in Objects(gen)
  BY Zenon DEF Types, ObjectsTyped
<1>1. \A k \in Kinds, t \in Targets : obj'[k][t].gen = obj[k][t].gen \/ obj'[k][t].gen = 0
  BY ObjectChange, Zenon
<1>2. PassIsNewest'
  BY <1>0, <1>1, SMT, SMTT(60) DEF PassInv, PassIsNewest, Passes
<1>3. FiltersWanted'
  BY Zenon DEF PassInv, FiltersWanted, Live, Conflict
<1>4. ASSUME NEW k \in Kinds, NEW t \in Targets, obj'[k][t].owner = "own"
      PROVE  obj[k][t].owner = "own" /\ obj'[k][t].val = obj[k][t].val /\ obj'[k][t].gen = obj[k][t].gen
  BY <1>4, ObjectChange, Zenon
<1>5. KeysCarried'
  <2>1. "Secret" \in Kinds
    BY DEF Kinds
  <2> QED
    BY <1>4, <2>1, Zenon DEF PassInv, KeysCarried, Own
<1>6. ProxiesWanted'
  <2>1. <<"Auth", Default>> \in late => <<"Auth", Default>> \in late'
    BY DEF NotesKept, Kinds
  <2>2. ASSUME NEW t \in Targets, ProxyExcused(t), pc # "idle" PROVE ProxyExcused(t)'
    <3>1. CASE <<"Auth", Default>> \in late'
      BY <3>1, Zenon DEF ProxyExcused
    <3>2. CASE <<"Auth", Default>> \notin late'
      <4>1. cluster'.auth = cluster.auth
        BY <2>2, <3>2, Zenon
      <4> QED
        BY <2>1, <2>2, <3>2, <4>1, Zenon DEF ProxyExcused, ProxyDesired, getGatewayAuthenticationMode, OIDCWithoutConfig,
           rejectUnsupportedKubernetesGatewaySpec, ErrDomainRequired, Conflict, KubernetesValidationErrors
    <3> QED
      BY <3>1, <3>2
  <2> QED
    BY <2>2, Zenon DEF PassInv, ProxiesWanted
<1>7. WantedIsDeployed'
  BY <1>4, Zenon DEF PassInv, WantedIsDeployed, Own
<1>8. WantedIsFree'
  <2> SUFFICES ASSUME NEW k \in Kinds, NEW t \in Targets, <<k, t>> \in rr.want, pc # "idle",
                      OwnershipChecked(k, t), obj'[k][t].owner = "foreign"
               PROVE  <<k, t>> \in late' \/ (k = "Gateway" /\ rr.ing[t] = NoStatus)
    BY Zenon DEF WantedIsFree, OwnershipChecked
  <2>1. obj[k][t].owner = "foreign" \/ <<k, t>> \in late'
    BY ObjectChange, Zenon
  <2>2. <<k, t>> \in late => <<k, t>> \in late'
    BY SMT, SMTT(60) DEF NotesKept, Absent
  <2> QED
    BY <2>1, <2>2, Zenon DEF PassInv, WantedIsFree
<1> QED
  BY <1>0, <1>1, <1>2, <1>3, <1>5, <1>6, <1>7, <1>8, SMT, SMTT(60) DEF PassInv

(* What users, the cluster and the provider may do to a pass in progress. *)
LEMMA EnvironmentChange ==
  ASSUME Types,
         \/ (\E s \in SpecEdits : EditSpec(s)) \/ ChangeCluster \/ ForeignObject
         \/ DeleteOwned \/ Progress \/ Provider
  PROVE  /\ ObjectsChange /\ NotesKept /\ UNCHANGED <<platform, status, pc, rr>>
         /\ (gen' = gen /\ spec' = spec) \/ gen' = gen + 1
         /\ cluster'.auth = cluster.auth \/ pc = "idle" \/ <<"Auth", Default>> \in late'
<1>0. obj \in [Kinds -> [Targets -> Objects(gen)]] /\ cluster \in Clusters
  BY DEF Types, ObjectsTyped
<1>1. CASE \E s \in SpecEdits : EditSpec(s)
  <2>1. UNCHANGED <<platform, cluster, status, obj, late, pc, rr>> /\ gen' = gen + 1
    BY <1>1, Zenon DEF EditSpec
  <2> QED
    BY <2>1, Zenon DEF ObjectsChange, NotesKept
<1>2. CASE ChangeCluster
  <2>1. UNCHANGED <<platform, spec, gen, status, obj, pc, rr>>
    BY <1>2 DEF ChangeCluster
  <2>2. late' \in {late, late \cup {<<"Auth", Default>>}}
    BY <1>2 DEF ChangeCluster
  <2>3. cluster'.auth = cluster.auth \/ pc = "idle" \/ <<"Auth", Default>> \in late'
    <3>1. CASE ChangeOthers
      <4>1. \/ \E t \in Targets, v \in 0..2 : cluster' = [cluster EXCEPT !.client[t] = v]
            \/ \E v \in 0..2 : cluster' = [cluster EXCEPT !.ca = v]
            \/ cluster' = [cluster EXCEPT !.dashboard = ~@]
            \/ cluster' = [cluster EXCEPT !.router = 2]
        BY <3>1, Zenon DEF ChangeOthers
      <4> QED
        BY <1>0, <4>1 DEF Clusters
    <3>2. CASE ~ChangeOthers
      BY <1>2, <3>2 DEF ChangeCluster
    <3> QED
      BY <3>1, <3>2, Zenon
  <2>4. ObjectsChange /\ NotesKept
    BY <2>1, <2>2 DEF ObjectsChange, NotesKept
  <2> QED
    BY <2>1, <2>3, <2>4, SMT, SMTT(60)
<1>3. CASE ForeignObject
  <2>1. UNCHANGED <<platform, cluster, spec, gen, status, pc, rr>>
    BY <1>3 DEF ForeignObject
  <2>2. PICK k \in Kinds, j \in Targets :
          \/ /\ \E o \in Foreign(k) : obj' = [obj EXCEPT ![k][j] = o]
             /\ late' = IF pc = "idle" THEN late ELSE late \cup {<<k, j>>}
          \/ obj' = [obj EXCEPT ![k][j] = Absent] /\ late' = late \ {<<k, j>>}
    BY <1>3, Zenon DEF ForeignObject
  <2>3. \A o : obj' = [obj EXCEPT ![k][j] = o] =>
          /\ obj'[k][j] = o
          /\ \A c \in Kinds, t \in Targets : c # k \/ t # j => obj'[c][t] = obj[c][t]
    BY <1>0
  <2>4. ASSUME NEW o \in Foreign(k), obj' = [obj EXCEPT ![k][j] = o],
               late' = IF pc = "idle" THEN late ELSE late \cup {<<k, j>>}
        PROVE  ObjectsChange /\ NotesKept
    <3>1. o.owner = "foreign" /\ o.gen = 0
      BY ForeignType
    <3>2. ObjectsChange
      BY <2>3, <2>4, <3>1, SMT, SMTT(60) DEF ObjectsChange
    <3> QED
      BY <2>4, <3>2 DEF NotesKept
  <2>5. CASE obj' = [obj EXCEPT ![k][j] = Absent] /\ late' = late \ {<<k, j>>}
    <3>1. ObjectsChange
      BY <2>3, <2>5, SMT, SMTT(60) DEF ObjectsChange
    <3>2. \A c, t : <<c, t>> \in late /\ <<c, t>> \notin late' => c = k /\ t = j
      BY <2>5
    <3>3. k \in Kinds /\ obj'[k][j] = Absent
      BY <2>3, <2>5
    <3>4. NotesKept
      BY <3>2, <3>3 DEF NotesKept
    <3> QED
      BY <2>1, <3>1, <3>4
  <2> QED
    BY <2>1, <2>2, <2>4, <2>5, Zenon
<1>4. CASE DeleteOwned
  <2>1. UNCHANGED <<platform, cluster, spec, gen, status, late, pc, rr>>
    BY <1>4, Zenon DEF DeleteOwned
  <2>2. \A k \in Kinds, t \in Targets : obj'[k][t] \in {obj[k][t], Absent}
    BY <1>0, <1>4, Zenon DEF DeleteOwned
  <2> QED
    BY <2>1, <2>2, Zenon DEF ObjectsChange, NotesKept
<1>5. CASE Progress
  <2>1. UNCHANGED <<platform, cluster, spec, gen, status, late, pc, rr>>
    BY <1>5 DEF Progress
  <2>2. \A k \in Kinds, t \in Targets : obj'[k][t] \in {obj[k][t], [obj[k][t] EXCEPT !.ok = TRUE]}
    BY <1>0, <1>5 DEF Progress
  <2> QED
    BY <2>1, <2>2, Zenon DEF ObjectsChange, NotesKept
<1>6. CASE Provider
  <2>1. UNCHANGED <<platform, spec, gen, status, obj, late, pc, rr>>
    BY <1>6 DEF Provider
  <2>2. cluster'.auth = cluster.auth
    BY <1>0, <1>6 DEF Provider, Clusters
  <2> QED
    BY <2>1, <2>2 DEF ObjectsChange, NotesKept
<1> QED
  BY <1>1, <1>2, <1>3, <1>4, <1>5, <1>6, Zenon

LEMMA EnvironmentKeeps ==
  ASSUME Types, PassInv,
         \/ Restart \/ (\E s \in SpecEdits : EditSpec(s)) \/ ChangeCluster \/ ForeignObject
         \/ DeleteOwned \/ Progress \/ Provider
  PROVE  PassInv'
<1>1. CASE Restart
  <2>1. pc' = "idle" /\ UNCHANGED <<gen, obj>>
    BY <1>1, Zenon DEF Restart
  <2> QED
    BY <2>1, NoPassHolds DEF PassInv
<1>2. CASE \/ (\E s \in SpecEdits : EditSpec(s)) \/ ChangeCluster \/ ForeignObject
           \/ DeleteOwned \/ Progress \/ Provider
  <2>1. /\ ObjectsChange /\ NotesKept /\ gen' \in {gen, gen + 1} /\ UNCHANGED <<platform, pc, rr>>
        /\ cluster'.auth = cluster.auth \/ pc = "idle" \/ <<"Auth", Default>> \in late'
    BY <1>2, EnvironmentChange, Zenon
  <2> QED
    BY <2>1, ChangeKeeps
<1> QED
  BY <1>1, <1>2

LEMMA PassInit == Init => PassInv
<1> SUFFICES ASSUME Init PROVE PassInv
  OBVIOUS
<1>1. gen = 1 /\ pc = "idle"
  BY DEF Init
<1> QED
  BY <1>1, SMT, SMTT(60) DEF PassInv, PassIsNewest, FiltersWanted, KeysCarried, ProxiesWanted,
     WantedIsDeployed, WantedIsFree

LEMMA PassStep == Types /\ PassInv /\ [Next]_vars => PassInv'
<1> SUFFICES ASSUME Types, PassInv, [Next]_vars PROVE PassInv'
  OBVIOUS
<1>1. CASE UNCHANGED vars
  <2>1. UNCHANGED <<platform, cluster, gen, obj, late, pc, rr>>
    BY <1>1 DEF vars
  <2> QED
    BY <2>1, ChangeKeeps, Zenon DEF ObjectsChange, NotesKept
<1>2. CASE Pass
  BY <1>2, InfrastructureKeeps, PrepareKeeps, CleanupKeeps, DeployKeeps, FinishKeeps DEF Pass
<1> QED
  BY <1>1, <1>2, EnvironmentKeeps DEF Next

LEMMA PassHolds == Spec => [](Types /\ PassInv)
BY TypesInit, TypesStep, PassInit, PassStep, PTL DEF Spec

-----------------------------------------------------------------------------
(* The action properties *)

(* Users, the cluster and the provider never move a pass along; a restart does,
   and changes no object. *)
LEMMA PassMoves ==
  ASSUME [Next]_vars, pc' # pc
  PROVE  Pass \/ (Restart /\ obj' = obj)
BY Zenon DEF Next, vars, Restart, EditSpec, ChangeCluster, ForeignObject, DeleteOwned, Progress, Provider

LEMMA FilteredStep ==
  ASSUME Types, PassInv, Pass, NEW t \in Targets
  PROVE  /\ Own("Gateway", t) /\ Own("EnvoyFilter", t) /\ ~GivenUp(t) => Own("EnvoyFilter", t)'
         /\ ~Own("Route", t) /\ Own("Route", t)' => Own("Gateway", t)' /\ Own("EnvoyFilter", t)'
<1>0. /\ "Gateway" \in Kinds /\ "EnvoyFilter" \in Kinds /\ "Route" \in Kinds
      /\ obj \in [Kinds -> [Targets -> Objects(gen)]]
  BY Zenon DEF Types, ObjectsTyped, Kinds
<1>1. ASSUME obj'["EnvoyFilter"][t] = obj["EnvoyFilter"][t], obj'["Route"][t] = obj["Route"][t]
      PROVE  /\ Own("EnvoyFilter", t) => Own("EnvoyFilter", t)'
             /\ Own("Route", t)' => Own("Route", t)
  BY <1>1, Zenon DEF Own
<1>2. CASE createGatewayInfrastructure
  <2>1. obj' \in {obj, deleteLegacyNetworkPolicy, [obj EXCEPT !["Gateway"][Default] = Absent]}
    BY <1>2 DEF createGatewayInfrastructure
  <2>2. obj'["EnvoyFilter"] = obj["EnvoyFilter"] /\ obj'["Route"] = obj["Route"]
    BY <1>0, <2>1 DEF deleteLegacyNetworkPolicy
  <2> QED
    BY <1>1, <2>2, Zenon
<1>3. CASE prepareAuthProxies
  <2>1. obj'["EnvoyFilter"] = obj["EnvoyFilter"] /\ obj'["Route"] = obj["Route"]
    <3>1. ASSUME NEW ok, NEW mode, NEW fresh, obj' = createSecret(ok, mode, fresh)
          PROVE  obj'["EnvoyFilter"] = obj["EnvoyFilter"] /\ obj'["Route"] = obj["Route"]
      BY <1>0, <3>1, Zenon DEF createSecret
    <3> QED
      BY <1>3, <3>1, PrepareObjects
  <2> QED
    BY <1>1, <2>1, Zenon
<1>4. CASE cleanupAndRoutes
  <2>1. obj'["EnvoyFilter"][t] = obj["EnvoyFilter"][t] /\ obj'["Route"][t] = obj["Route"][t]
    BY <1>0, <1>4 DEF cleanupAndRoutes, cleanupKubeAuthProxyResources
  <2> QED
    BY <1>1, <2>1, Zenon
<1>5. CASE deploy
  <2>1. PICK done \in SUBSET rr.want :
          obj' = Apply(done) /\ \A o \in rr.want, q \in done : Stage(o) < Stage(q) => o \in done
    BY <1>5, DeployResult, Zenon
  <2>2. \A k \in Kinds : /\ <<k, t>> \in done => Own(k, t)'
                         /\ <<k, t>> \notin done => (Own(k, t)' <=> Own(k, t))
    BY <2>1, ApplyResult, Zenon DEF Own
  <2>3. ASSUME <<"Route", t>> \in done PROVE <<"Gateway", t>> \in done /\ <<"EnvoyFilter", t>> \in done
    <3>1. pc = "deploy" /\ <<"Route", t>> \in rr.want
      BY <1>5, <2>3, DeployResult, Zenon
    <3>2. <<"Gateway", t>> \in rr.want /\ <<"EnvoyFilter", t>> \in rr.want
      BY <3>1, Zenon DEF PassInv, FiltersWanted
    <3>3. /\ Stage(<<"Gateway", t>>) < Stage(<<"Route", t>>)
          /\ Stage(<<"EnvoyFilter", t>>) < Stage(<<"Route", t>>)
      BY DEF Stage
    <3> QED
      BY <2>1, <2>3, <3>2, <3>3, Zenon
  <2>4. Own("EnvoyFilter", t) => Own("EnvoyFilter", t)'
    BY <1>0, <2>2 DEF Own
  <2>5. ASSUME ~Own("Route", t), Own("Route", t)' PROVE Own("Gateway", t)' /\ Own("EnvoyFilter", t)'
    <3>1. <<"Route", t>> \in done
      BY <1>0, <2>2, <2>5 DEF Own
    <3> QED
      BY <1>0, <2>2, <2>3, <3>1 DEF Own
  <2> QED
    BY <2>4, <2>5, Zenon
<1>6. CASE finish
  <2>1. ASSUME Own("EnvoyFilter", t), <<"Gateway", t>> \in rr.want PROVE Own("EnvoyFilter", t)'
    <3>1. pc = "status"
      BY <1>6, FinishResult, Zenon
    <3>2. obj["EnvoyFilter"][t].gen = rr.gen
      BY <1>0, <2>1, <3>1, Zenon DEF PassInv, FiltersWanted, WantedIsDeployed
    <3>3. ~gatewayAuthResourceCollectable(rr, "EnvoyFilter", t)
      BY <3>2, Zenon DEF gatewayAuthResourceCollectable
    <3> QED
      BY <1>0, <1>6, <2>1, <3>3, FinishResult, Zenon DEF Own
  <2>2. Own("Route", t)' => Own("Route", t)
    BY <1>0, <1>6, FinishResult, SMT, SMTT(60) DEF Own, Absent
  <2>3. ~GivenUp(t) => <<"Gateway", t>> \in rr.want
    BY <1>6, FinishResult, Zenon DEF GivenUp
  <2> QED
    BY <2>1, <2>2, <2>3, Zenon
<1> QED
  BY <1>2, <1>3, <1>4, <1>5, <1>6 DEF Pass

(* ServedGatewaysStayFiltered: with any number of ingresses, edits, failed
   applies, failed collections and restarts, the controller never takes the
   filter of a Gateway it still serves away, and never leads traffic to a
   Gateway that is missing or has no filter. *)
THEOREM ServedGatewaysStayFiltered == Spec => TrafficStaysFiltered
<1>1. Types /\ PassInv /\ [Next]_vars =>
        [pc' # pc => \A t \in Targets :
           /\ Own("Gateway", t) /\ Own("EnvoyFilter", t) /\ ~GivenUp(t) => Own("EnvoyFilter", t)'
           /\ ~Own("Route", t) /\ Own("Route", t)' => Own("Gateway", t)' /\ Own("EnvoyFilter", t)']_vars
  <2> SUFFICES ASSUME Types, PassInv, [Next]_vars, pc' # pc, NEW t \in Targets
               PROVE  /\ Own("Gateway", t) /\ Own("EnvoyFilter", t) /\ ~GivenUp(t) => Own("EnvoyFilter", t)'
                      /\ ~Own("Route", t) /\ Own("Route", t)' => Own("Gateway", t)' /\ Own("EnvoyFilter", t)'
    BY Zenon
  <2>1. CASE Pass
    BY <2>1, FilteredStep, Zenon
  <2>2. CASE Restart /\ obj' = obj
    BY <2>2, Zenon DEF Own
  <2> QED
    BY <2>1, <2>2, PassMoves, Zenon
<1> QED
  BY <1>1, PassHolds, PTL DEF Spec, TrafficStaysFiltered

LEMMA SessionsStep ==
  ASSUME Types, PassInv, Pass, NEW t \in Targets, Own("Secret", t), Own("Secret", t)'
  PROVE  obj'["Secret"][t].val.key = obj["Secret"][t].val.key
<1>0. "Secret" \in Kinds /\ obj \in [Kinds -> [Targets -> Objects(gen)]]
  BY Zenon DEF Types, ObjectsTyped, Kinds
<1>1. CASE createGatewayInfrastructure
  <2>1. obj' \in {obj, deleteLegacyNetworkPolicy, [obj EXCEPT !["Gateway"][Default] = Absent]}
    BY <1>1, Zenon DEF createGatewayInfrastructure
  <2> QED
    BY <1>0, <2>1, Zenon DEF deleteLegacyNetworkPolicy
<1>2. CASE prepareAuthProxies
  <2>1. ASSUME NEW fresh \in SessionKeys, NEW mode, NEW ok \in SUBSET Prepared(rr),
               obj' = createSecret(ok, mode, fresh)
        PROVE  obj'["Secret"][t].val.key = obj["Secret"][t].val.key
    <3>1. ok \in SUBSET Targets /\ \A u \in ok : obj["Secret"][u].owner # "foreign"
      <4>1. Live(rr) \subseteq Targets
        BY Zenon DEF Live, Types, Passes, GatewayConfigSpec, Targets
      <4> QED
        BY <4>1, PreparedFree, Zenon
    <3> QED
      BY <2>1, <3>1, CreateSecretKeeps, Zenon
  <2>2. Prepared(rr) \in SUBSET Prepared(rr)
    OBVIOUS
  <2> QED
    BY <1>2, <2>1, <2>2, PrepareObjects, Zenon
<1>3. CASE cleanupAndRoutes
  BY <1>0, <1>3, Zenon DEF cleanupAndRoutes, cleanupKubeAuthProxyResources
<1>4. CASE deploy
  <2>1. PICK done \in SUBSET rr.want : obj' = Apply(done)
    BY <1>4, DeployResult, Zenon
  <2>2. CASE obj'["Secret"][t] = obj["Secret"][t]
    BY <2>2, Zenon
  <2>3. CASE obj'["Secret"][t] # obj["Secret"][t]
    <3>1. <<"Secret", t>> \in rr.want /\ obj'["Secret"][t] = Applied("Secret", t)
      BY <1>0, <2>1, <2>3, ApplyResult, Zenon
    <3>2. Applied("Secret", t).val = rr.creds[t]
      BY DEF Applied, DesiredValue
    <3>3. rr.creds[t].key = obj["Secret"][t].val.key
      BY <1>4, <3>1, DeployResult DEF PassInv, KeysCarried
    <3> QED
      BY <3>1, <3>2, <3>3, Zenon
  <2> QED
    BY <2>2, <2>3, Zenon
<1>5. CASE finish
  BY <1>0, <1>5, FinishResult, SMT, SMTT(60) DEF Own, Absent
<1> QED
  BY <1>1, <1>2, <1>3, <1>4, <1>5, Zenon DEF Pass

LEMMA ProxyStep ==
  ASSUME Types, PassInv, Pass, NEW t \in Targets, Own("Deployment", t), ~Own("Deployment", t)'
  PROVE  ProxyExcused(t)
<1>0. "Deployment" \in Kinds /\ obj \in [Kinds -> [Targets -> Objects(gen)]]
  BY DEF Types, ObjectsTyped, Kinds
<1>1. CASE createGatewayInfrastructure
  <2>1. obj' \in {obj, deleteLegacyNetworkPolicy, [obj EXCEPT !["Gateway"][Default] = Absent]}
    BY <1>1 DEF createGatewayInfrastructure
  <2>2. obj'["Deployment"] = obj["Deployment"]
    BY <1>0, <2>1 DEF deleteLegacyNetworkPolicy
  <2> QED
    BY <2>2 DEF Own
<1>2. CASE prepareAuthProxies
  <2>1. obj'["Deployment"] = obj["Deployment"]
    <3>1. ASSUME NEW ok, NEW mode, NEW fresh, obj' = createSecret(ok, mode, fresh)
          PROVE  obj'["Deployment"] = obj["Deployment"]
      BY <1>0, <3>1, Zenon DEF createSecret
    <3> QED
      BY <1>2, <3>1, PrepareObjects
  <2> QED
    BY <2>1 DEF Own
<1>3. CASE cleanupAndRoutes
  <2>1. ProxyDesired(rr.spec) => obj' = obj
    BY <1>3, Zenon DEF cleanupAndRoutes, cleanupKubeAuthProxyResources
  <2> QED
    BY <2>1, Zenon DEF ProxyExcused, Own
<1>4. CASE deploy
  <2>1. PICK done \in SUBSET rr.want : obj' = Apply(done)
    BY <1>4, DeployResult, Zenon
  <2>2. Applied("Deployment", t).owner = "own"
    BY Zenon DEF Applied
  <2> QED
    BY <1>0, <2>1, <2>2, ApplyResult, Zenon DEF Own
<1>5. CASE finish
  <2>1. pc = "status" /\ gatewayAuthResourceCollectable(rr, "Deployment", t)
    BY <1>0, <1>5, FinishResult, Zenon DEF Own
  <2>2. t \notin rr.failed /\ obj["Deployment"][t].gen # rr.gen
    BY <2>1, Zenon DEF gatewayAuthResourceCollectable
  <2>3. <<"Deployment", t>> \notin rr.want
    BY <1>0, <2>1, <2>2, Zenon DEF PassInv, WantedIsDeployed
  <2> QED
    BY <2>1, <2>2, <2>3, Zenon DEF PassInv, ProxiesWanted
<1> QED
  BY <1>1, <1>2, <1>3, <1>4, <1>5 DEF Pass

(* SessionsOutlivePasses: no step of the controller changes the cookie key of a
   Secret that stays, nor takes away a proxy that is still asked for, whatever
   failed before and whoever edits what meanwhile. *)
THEOREM SessionsOutlivePasses == Spec => AuthenticationSurvives
<1>1. Types /\ PassInv /\ [Next]_vars => [pc' # pc => SessionsSurvive /\ ProxyOutlivesFailures]_vars
  <2> SUFFICES ASSUME Types, PassInv, [Next]_vars, pc' # pc
               PROVE  SessionsSurvive /\ ProxyOutlivesFailures
    OBVIOUS
  <2>1. CASE Pass
    <3>1. SessionsSurvive
      BY <2>1, SessionsStep, Zenon DEF SessionsSurvive
    <3>2. ProxyOutlivesFailures
      BY <2>1, ProxyStep, Zenon DEF ProxyOutlivesFailures, ProxyExcused
    <3> QED
      BY <3>1, <3>2
  <2>2. CASE Restart /\ obj' = obj
    BY <2>2, Zenon DEF SessionsSurvive, ProxyOutlivesFailures, Own
  <2> QED
    BY <2>1, <2>2, PassMoves
<1> QED
  BY <1>1, PassHolds, PTL DEF Spec, AuthenticationSurvives

LEMMA ForeignStep ==
  ASSUME Types, PassInv, Pass, NEW k \in Kinds, NEW t \in Targets, obj[k][t].owner = "foreign"
  PROVE  \/ obj'[k][t] = obj[k][t]
         \/ /\ pc = "deploy" /\ Own(k, t)'
            /\ ~OwnershipChecked(k, t) \/ <<k, t>> \in late \/ Unrecorded(k, t)
         \/ pc = "idle" /\ ModeMismatch /\ <<k, t>> = <<"Gateway", Default>>
<1>0. obj \in [Kinds -> [Targets -> Objects(gen)]]
  BY Zenon DEF Types, ObjectsTyped
<1>1. CASE createGatewayInfrastructure
  <2>1. /\ pc = "idle"
        /\ \/ obj' \in {obj, deleteLegacyNetworkPolicy}
           \/ ModeMismatch /\ obj' = [obj EXCEPT !["Gateway"][Default] = Absent]
    BY <1>1, Zenon DEF createGatewayInfrastructure
  <2>2. CASE obj' \in {obj, deleteLegacyNetworkPolicy}
    BY <1>0, <2>2, SMT, SMTT(60) DEF deleteLegacyNetworkPolicy
  <2>3. CASE ModeMismatch /\ obj' = [obj EXCEPT !["Gateway"][Default] = Absent]
    <3>1. <<k, t>> # <<"Gateway", Default>> => obj'[k][t] = obj[k][t]
      BY <1>0, <2>3, SMT, SMTT(60)
    <3> QED
      BY <2>1, <2>3, <3>1, Zenon
  <2> QED
    BY <2>1, <2>2, <2>3
<1>2. CASE prepareAuthProxies
  <2>1. ASSUME NEW fresh \in SessionKeys, NEW mode, NEW ok \in SUBSET Prepared(rr),
               obj' = createSecret(ok, mode, fresh)
        PROVE  obj'[k][t] = obj[k][t]
    <3>1. ok \in SUBSET Targets /\ \A u \in ok : obj["Secret"][u].owner # "foreign"
      <4>1. Live(rr) \subseteq Targets
        BY Zenon DEF Live, Types, Passes, GatewayConfigSpec, Targets
      <4> QED
        BY <4>1, PreparedFree, Zenon
    <3>2. k # "Secret" \/ t \notin ok
      BY <3>1, Zenon
    <3>3. /\ \A c \in Kinds \ {"Secret"} : obj'[c] = obj[c]
          /\ \A u \in Targets \ ok : obj'["Secret"][u] = obj["Secret"][u]
      BY <2>1, <3>1, CreateSecretKeeps, Zenon
    <3> QED
      BY <3>2, <3>3, Zenon
  <2>2. Prepared(rr) \in SUBSET Prepared(rr)
    BY Zenon
  <2> QED
    BY <1>2, <2>1, <2>2, PrepareObjects, Zenon
<1>3. CASE cleanupAndRoutes
  <2>1. obj'[k][t] \in {obj[k][t], deleteKubeAuthProxyResource(obj[k][t])}
    BY <1>0, <1>3, Zenon DEF cleanupAndRoutes, cleanupKubeAuthProxyResources
  <2> QED
    BY <2>1, SMT, SMTT(60) DEF deleteKubeAuthProxyResource
<1>4. CASE deploy
  <2>1. PICK done \in SUBSET rr.want : obj' = Apply(done)
    BY <1>4, DeployResult, Zenon
  <2>2. CASE <<k, t>> \notin done
    BY <2>1, <2>2, ApplyResult, Zenon
  <2>3. CASE <<k, t>> \in done
    <3>1. pc = "deploy" /\ Own(k, t)'
      BY <1>4, <2>1, <2>3, ApplyResult, DeployResult, Zenon DEF Own
    <3>2. ~OwnershipChecked(k, t) \/ <<k, t>> \in late \/ Unrecorded(k, t)
      BY <2>3, <3>1, Zenon DEF PassInv, WantedIsFree, Unrecorded
    <3> QED
      BY <3>1, <3>2
  <2> QED
    BY <2>2, <2>3
<1>5. CASE finish
  BY <1>5, FinishResult, Zenon DEF gatewayAuthResourceCollectable, Own
<1> QED
  BY <1>1, <1>2, <1>3, <1>4, <1>5, Zenon DEF Pass

(* OthersAreLeftAlone: whatever the names others take, a pass deletes nothing of
   theirs but a default Gateway of the wrong mode; it writes over what it
   checks the owner of only if that appeared after the pass had looked, or if
   the conflict could not be recorded. *)
THEOREM OthersAreLeftAlone == Spec => ForeignObjectsKept
<1>1. Types /\ PassInv /\ [Next]_vars =>
        [pc' # pc => \A k \in DOMAIN obj, t \in Targets : obj[k][t].owner = "foreign" =>
           \/ obj'[k][t] = obj[k][t]
           \/ /\ pc = "deploy" /\ Own(k, t)'
              /\ ~OwnershipChecked(k, t) \/ <<k, t>> \in late \/ Unrecorded(k, t)
           \/ pc = "idle" /\ ModeMismatch /\ <<k, t>> = <<"Gateway", Default>>]_vars
  <2> SUFFICES ASSUME Types, PassInv, [Next]_vars, pc' # pc, NEW k \in DOMAIN obj, NEW t \in Targets,
                      obj[k][t].owner = "foreign"
               PROVE  \/ obj'[k][t] = obj[k][t]
                      \/ /\ pc = "deploy" /\ Own(k, t)'
                         /\ ~OwnershipChecked(k, t) \/ <<k, t>> \in late \/ Unrecorded(k, t)
                      \/ pc = "idle" /\ ModeMismatch /\ <<k, t>> = <<"Gateway", Default>>
    BY Zenon
  <2>1. DOMAIN obj = Kinds
    BY Zenon DEF Types, ObjectsTyped
  <2>2. CASE Pass
    BY <2>1, <2>2, ForeignStep, Zenon
  <2> QED
    BY <2>2, PassMoves, Zenon
<1> QED
  BY <1>1, PassHolds, PTL DEF Spec, ForeignObjectsKept
=============================================================================
