------------------------ MODULE GatewaySettledProofs ------------------------
(***************************************************************************)
(* What the GatewayConfig controller leaves behind when it has nothing     *)
(* queued, for every set of additional ingresses and any number of edits   *)
(* and faults.  To the invariants of GatewayProofs come where the objects  *)
(* of a generation are from (Origin), and what a pass that nothing has     *)
(* disturbed has established so far, step by step (Calm): the last step of *)
(* such a pass ends in the settled state.  What changes without an event   *)
(* for the controller (Quiet) changes nothing that the state depends on.   *)
(***************************************************************************)
EXTENDS GatewayProofs

(* The invariant of a controller that has nothing queued *)

(* The mode of a spec as long as no Service tells another one. *)
ModeOf(s) ==
  IF s.mode # "" THEN s.mode ELSE IF platform = "Kubernetes" THEN "LoadBalancer" ELSE "OcpRoute"

(* A generation stands for one spec, and what a pass deploys is for targets of
   the spec that it works for. *)
PassOrigin ==
  pc # "idle" =>
    /\ rr.gen = gen => rr.spec = spec
    /\ rr.mode \in {"", ModeOf(rr.spec)}
    /\ \A k \in Kinds, t \in Targets : <<k, t>> \in rr.want => t \in Live(rr)
    /\ <<"Route", Default>> \in rr.want => rr.mode = "OcpRoute"
    /\ rr.failed # {} => rr.requeue

(* An object of the current generation is one that the current spec asks for;
   only a Secret may be there before the first deploy. *)
OriginOf(k, t) ==
  /\ ~Own(k, t) => obj[k][t].gen = 0
  /\ obj[k][t].owner = "legacy" => k = "NetworkPolicy" /\ t = Default
  /\ Own(k, t) /\ k # "Secret" => obj[k][t].gen >= 1
  /\ Own(k, t) /\ obj[k][t].gen = gen =>
       /\ t \in {Default} \cup spec.extra
       /\ k = "Route" /\ t = Default => ModeOf(spec) = "OcpRoute"

Origin == PassOrigin /\ \A k \in Kinds, t \in Targets : OriginOf(k, t)

(* What follows holds while nothing is queued. *)
ModeKnown ==
  ~rejectUnsupportedKubernetesGatewaySpec(spec) /\ spec.mode = "" => cluster.svc = "none"

PassIsCurrent ==
  pc # "idle" =>
    /\ rr.gen = gen
    /\ pc = "auth" => Renderable
    /\ Renderable => rr.mode = ModeOf(spec) /\ \A t \in Live(rr) : <<"Gateway", t>> \in rr.want
    /\ ~Renderable => rr.mode = "" /\ rr.want = {} /\ rr.config = "False"

ProxyPrepared(t) ==
  /\ {<<"Secret", t>>, <<"Deployment", t>>, <<"NetworkPolicy", t>>} \subseteq rr.want
  /\ getGatewayAuthenticationMode(spec) = "OIDC" => rr.creds[t].client = cluster.client[t]

PassIsPrepared ==
  pc \in {"cleanup", "deploy", "status"} =>
    /\ Renderable => \A t \in Live(rr) :
         /\ <<"EnvoyFilter", t>> \in rr.want
         /\ ProxyDesired(spec) => rr.requeue \/ ProxyPrepared(t)
         /\ ~ProxyDesired(spec) /\ t # Default =>
              rr.auth[t] \in {"AuthenticationBlocked", "InvalidAuthenticationConfig"}
    /\ ~ProxyDesired(spec) => \A t \in Targets :
         <<"Deployment", t>> \notin rr.want /\ <<"NetworkPolicy", t>> \notin rr.want

PassIsCleaned ==
  pc \in {"deploy", "status"} =>
    /\ rr.mode = "OcpRoute" => <<"Route", Default>> \in rr.want
    /\ ~ProxyDesired(spec) => \A t \in {Default} \cup spec.extra, k \in {"Deployment", "NetworkPolicy"} :
         obj[k][t].owner \notin {"own", "legacy"}

RedirectsFollow ==
  platform = "OpenShift" =>
    /\ pc = "deploy" => rr.redirect = cluster.dashboard /\ (cluster.redirects => cluster.dashboard)
    /\ pc = "status" => cluster.redirects = cluster.dashboard

PassIsDeployed ==
  pc = "status" => \A k \in Kinds, t \in Targets :
     <<k, t>> \in rr.want => Own(k, t) /\ obj[k][t].val = DesiredValue(k, t)

Calm ==
  ~queued => /\ ModeKnown /\ PassIsCurrent /\ PassIsPrepared /\ PassIsCleaned
             /\ RedirectsFollow /\ PassIsDeployed

SettledInv == Calm /\ GatewaySettled /\ ReadyIsTruthful

(* Who is served depends on the conflicts that the pass found only. *)
LEMMA LiveSame ==
  ASSUME NEW a, NEW b, a.spec = b.spec, a.gen = b.gen, a.spec.extra \subseteq Ingresses,
         \A i \in Ingresses : a.ing[i]["GatewayReady"] = b.ing[i]["GatewayReady"]
  PROVE  Live(a) = Live(b) /\ \A t \in Targets : Conflict(a, t) <=> Conflict(b, t)
<1>1. \A t \in Targets : Conflict(a, t) <=> Conflict(b, t)
  BY DEF Conflict, additionalIngressHasGatewayConflict, Targets
<1> QED
  BY <1>1, Zenon DEF Live, Targets

LEMMA PinnedMode ==
  ASSUME Types
  PROVE  /\ ~ModePinned => PinnedSpec = spec /\ PinnedGen = gen
         /\ ModePinned => PinnedGen = gen + 1
         /\ ~rejectUnsupportedKubernetesGatewaySpec(spec) => ModeInForce = ModeOf(PinnedSpec)
         /\ rejectUnsupportedKubernetesGatewaySpec(spec) => ~ModePinned
<1>1. spec \in GatewayConfigSpec /\ cluster.svc \in {"none", "ClusterIP", "LoadBalancer"}
  BY DEF Types, Clusters
<1>2. ~ModePinned => PinnedSpec = spec
  BY <1>1 DEF PinnedSpec, GatewayConfigSpec
<1>3. PinnedSpec.mode = IF ModePinned THEN ModeInForce ELSE spec.mode
  BY <1>1 DEF PinnedSpec, GatewayConfigSpec
<1>4. ASSUME ~rejectUnsupportedKubernetesGatewaySpec(spec) PROVE ModeInForce = ModeOf(PinnedSpec)
  <2>1. CASE spec.mode # ""
    BY <1>3, <2>1, Zenon DEF ModeInForce, ModeOf, Detects, ModePinned
  <2>2. CASE spec.mode = "" /\ cluster.svc = "none"
    BY <1>3, <1>4, <2>2, Zenon DEF ModeInForce, ModeOf, Detects, ModePinned, detectIngressMode
  <2>3. CASE spec.mode = "" /\ cluster.svc # "none"
    BY <1>1, <1>3, <1>4, <2>3, Zenon DEF ModeInForce, ModeOf, Detects, ModePinned, detectIngressMode
  <2> QED
    BY <2>1, <2>2, <2>3, Zenon
<1>5. /\ ~ModePinned => PinnedGen = gen
      /\ ModePinned => PinnedGen = gen + 1
      /\ rejectUnsupportedKubernetesGatewaySpec(spec) => ~ModePinned
  BY Zenon DEF PinnedGen, ModePinned, Detects
<1> QED
  BY <1>2, <1>4, <1>5

(* Step 1, what there is to know of it *)
LEMMA InfrastructureResult ==
  ASSUME Types, createGatewayInfrastructure
  PROVE  /\ pc = "idle" /\ queued /\ platform' = platform /\ spec' = PinnedSpec /\ gen' = PinnedGen
         /\ cluster'.svc = cluster.svc
         /\ \A k \in Kinds, t \in Targets : obj'[k][t] \in {obj[k][t], Absent}
         /\ \/ pc' = "idle" /\ queued' = TRUE
            \/ /\ pc' = "cleanup" /\ queued' = ModePinned /\ (~ModePinned => ~Renderable')
               /\ rr'.gen = gen' /\ rr'.spec = spec' /\ rr'.mode = "" /\ rr'.want = {}
               /\ rr'.config = "False" /\ rr'.failed = {}
            \/ /\ pc' = "auth" /\ queued' = ModePinned /\ (~ModePinned => Renderable')
               /\ rr'.gen = gen' /\ rr'.spec = spec' /\ rr'.mode = ModeOf(spec)' /\ rr'.failed = {}
               /\ \A t \in Live(rr') : <<"Gateway", t>> \in rr'.want
<1>0. obj \in [Kinds -> [Targets -> Objects(gen)]]
  BY DEF Types, ObjectsTyped
<1>1. pc = "idle" /\ queued /\ platform' = platform /\ spec' = PinnedSpec /\ gen' = PinnedGen
  BY DEF createGatewayInfrastructure
<1>2. cluster'.svc = cluster.svc
  BY DEF createGatewayInfrastructure, Types, Clusters
<1>3. \A k \in Kinds, t \in Targets : obj'[k][t] \in {obj[k][t], Absent}
  <2>1. obj' \in {obj, deleteLegacyNetworkPolicy, [obj EXCEPT !["Gateway"][Default] = Absent]}
    BY DEF createGatewayInfrastructure
  <2> QED
    BY <1>0, <2>1 DEF deleteLegacyNetworkPolicy, Targets, Kinds
<1>4. /\ StartedPass \in Passes(PinnedGen) /\ StartedPass.spec = PinnedSpec /\ StartedPass.gen = PinnedGen
      /\ StartedPass.mode = ModeInForce /\ StartedPass.want = {} /\ StartedPass.failed = {}
  <2>1. /\ StartedPass.spec = PinnedSpec /\ StartedPass.gen = PinnedGen
        /\ StartedPass.mode = ModeInForce /\ StartedPass.want = {} /\ StartedPass.failed = {}
    BY DEF StartedPass, NoPass
  <2> QED
    BY <2>1, StartedTypes
<1>5. /\ CheckedPass \in Passes(PinnedGen) /\ CheckedPass.spec = PinnedSpec /\ CheckedPass.gen = PinnedGen
      /\ CheckedPass.mode = ModeInForce /\ CheckedPass.failed = {}
  <2>1. CheckedPass \in Passes(PinnedGen)
    BY StartedTypes
  <2> QED
    BY <1>4, <2>1 DEF CheckedPass, Passes
<1>6. CASE pc' = "idle"
  <2>1. queued' = TRUE
    BY <1>6 DEF createGatewayInfrastructure, EndWithError
  <2> QED
    BY <1>1, <1>2, <1>3, <1>6, <2>1
<1>7. CASE pc' = "cleanup"
  <2>1. /\ rr' = [StartedPass EXCEPT !.config = "False", !.mode = ""] /\ queued' = ModePinned
        /\ rejectUnsupportedKubernetesGatewaySpec(spec) \/ ErrDomainRequired(PinnedSpec)
    BY <1>7 DEF createGatewayInfrastructure, EndWithError
  <2>2. /\ rr'.gen = gen' /\ rr'.spec = spec' /\ rr'.mode = "" /\ rr'.want = {}
        /\ rr'.config = "False" /\ rr'.failed = {}
    BY <1>1, <1>4, <2>1 DEF Passes
  <2>3. ~ModePinned => ~Renderable'
    BY <1>1, <2>1, PinnedMode DEF Renderable, rejectUnsupportedKubernetesGatewaySpec, ErrDomainRequired
  <2> QED
    BY <1>1, <1>2, <1>3, <1>7, <2>1, <2>2, <2>3
<1>8. CASE pc' = "auth"
  <2>1. /\ rr' = [CheckedPass EXCEPT !.want =
                    {<<"Gateway", Default>>} \cup createAdditionalGateways(CheckedPass)]
        /\ queued' = ModePinned
        /\ ~rejectUnsupportedKubernetesGatewaySpec(spec) /\ ~ErrDomainRequired(PinnedSpec)
    BY <1>8 DEF createGatewayInfrastructure, EndWithError
  <2>2. /\ rr'.gen = gen' /\ rr'.spec = spec' /\ rr'.mode = ModeInForce /\ rr'.ing = CheckedPass.ing /\ rr'.failed = {}
        /\ rr'.want = {<<"Gateway", Default>>} \cup createAdditionalGateways(CheckedPass)
    BY <1>1, <1>5, <2>1 DEF Passes
  <2>3. ModeInForce = ModeOf(spec)'
    BY <1>1, <2>1, PinnedMode, Zenon DEF ModeOf
  <2>4. ~ModePinned => Renderable'
    BY <1>1, <2>1, PinnedMode DEF Renderable, rejectUnsupportedKubernetesGatewaySpec, ErrDomainRequired
  <2>5. \A t \in Live(rr') : <<"Gateway", t>> \in rr'.want
    BY <1>1, <1>5, <2>2 DEF Live, createAdditionalGateways, Conflict
  <2> QED
    BY <1>1, <1>2, <1>3, <1>8, <2>1, <2>2, <2>3, <2>4, <2>5, SMT, SMTT(60)
<1> QED
  BY <1>6, <1>7, <1>8, Zenon DEF createGatewayInfrastructure, EndWithError

-----------------------------------------------------------------------------
(* Origins, step by step *)

(* An object that is left alone, deleted or taken by somebody else. *)
LEMMA OriginShrinks ==
  ASSUME Types, PassInv, NEW k \in Kinds, NEW t \in Targets, OriginOf(k, t),
         platform' = platform, (gen' = gen /\ spec' = spec) \/ gen' = gen + 1,
         \/ obj'[k][t].owner = obj[k][t].owner /\ obj'[k][t].gen = obj[k][t].gen
         \/ obj'[k][t].owner \in {"none", "foreign"} /\ obj'[k][t].gen = 0
  PROVE  OriginOf(k, t)'
<1>0. gen \in Nat /\ gen >= 1 /\ obj[k][t] \in Objects(gen) /\ obj[k][t].gen \in 0 .. gen
  BY DEF Types, ObjectsTyped, PassInv, Objects
<1>1. CASE obj'[k][t].owner \in {"none", "foreign"} /\ obj'[k][t].gen = 0
  BY <1>1 DEF OriginOf, Own
<1>2. CASE obj'[k][t].owner = obj[k][t].owner /\ obj'[k][t].gen = obj[k][t].gen
  <2>1. CASE gen' = gen /\ spec' = spec
    BY <1>2, <2>1, Zenon DEF OriginOf, Own, ModeOf
  <2>2. CASE gen' = gen + 1
    <3>1. obj'[k][t].gen # gen'
      BY <1>0, <1>2, <2>2
    <3> QED
      BY <1>2, <3>1, Zenon DEF OriginOf, Own
  <2> QED
    BY <2>1, <2>2
<1> QED
  BY <1>1, <1>2

LEMMA InfrastructureOrigin ==
  ASSUME Types, PassInv, PassInv', Origin, createGatewayInfrastructure
  PROVE  Origin'
<1>1. (gen' = gen /\ spec' = spec) \/ gen' = gen + 1
  BY InfrastructureResult, PinnedMode, Zenon
<1>2. ASSUME NEW k \in Kinds, NEW t \in Targets PROVE OriginOf(k, t)'
  <2>1. \/ obj'[k][t].owner = obj[k][t].owner /\ obj'[k][t].gen = obj[k][t].gen
        \/ obj'[k][t].owner \in {"none", "foreign"} /\ obj'[k][t].gen = 0
    <3>1. obj'[k][t] \in {obj[k][t], Absent}
      BY InfrastructureResult, Zenon
    <3> QED
      BY <3>1 DEF Absent
  <2> QED
    BY <1>1, <2>1, InfrastructureResult, OriginShrinks, Zenon DEF Origin
<1>3. PassOrigin'
  <2>1. CASE pc' = "idle"
    BY <2>1, Zenon DEF PassOrigin
  <2>2. CASE pc' = "cleanup"
    BY <2>2, InfrastructureResult, Zenon DEF PassOrigin
  <2>3. CASE pc' = "auth"
    <3>1. \A w \in rr'.want : \E t \in Live(rr') : w = <<"Gateway", t>>
      BY <2>3, Zenon DEF PassInv, FiltersWanted, Live, Conflict
    <3>2. rr'.spec = spec' /\ rr'.mode = ModeOf(spec)' /\ rr'.failed = {}
      BY <2>3, InfrastructureResult
    <3>3. \A k \in Kinds, t \in Targets : <<k, t>> \in rr'.want => t \in Live(rr')
      BY <3>1
    <3>4. <<"Route", Default>> \notin rr'.want
      BY <3>1
    <3> QED
      BY <3>2, <3>3, <3>4, Zenon DEF PassOrigin, ModeOf, Live, Conflict
  <2> QED
    BY <2>1, <2>2, <2>3, InfrastructureResult, Zenon
<1> QED
  BY <1>2, <1>3 DEF Origin

(* What a pass is like once its proxies are prepared. *)
LEMMA PreparedResult ==
  ASSUME Types, PassInv, pc = "auth", NEW fresh \in SessionKeys, rr' = PreparedPass(rr, fresh)
  PROVE  /\ rr'.spec = rr.spec /\ rr'.gen = rr.gen /\ rr'.mode = rr.mode /\ rr'.ing = rr.ing
         /\ rr'.failed = FailedTargets(rr) /\ rr'.requeue = (FailedTargets(rr) # {})
         /\ rr'.auth = [i \in Ingresses |-> AuthResult(rr, i)]
         /\ \A t \in Prepared(rr) : rr'.creds[t] = getAuthProxySecretValues(AuthMode(rr.spec), t, fresh)
         /\ rr'.want = rr.want \cup PoliciesOf(Live(rr), Bad(rr), ProxyDesired(rr.spec))
                               \cup ({"Secret", "Deployment"} \X Prepared(rr))
         /\ Live(rr') = Live(rr)
<1>1. rr \in Passes(gen) /\ rr.spec.extra \subseteq Ingresses /\ Prepared(rr) \subseteq Targets
  BY LiveTypes, Zenon DEF Types, Passes, GatewayConfigSpec
<1>2. /\ rr'.spec = rr.spec /\ rr'.gen = rr.gen /\ rr'.mode = rr.mode /\ rr'.ing = rr.ing
      /\ rr'.failed = FailedTargets(rr) /\ rr'.requeue = (FailedTargets(rr) # {})
      /\ rr'.auth = [i \in Ingresses |-> AuthResult(rr, i)]
      /\ rr'.creds = [t \in Targets |-> IF t \in Prepared(rr)
                        THEN getAuthProxySecretValues(AuthMode(rr.spec), t, fresh) ELSE Blank]
      /\ rr'.want = rr.want \cup PoliciesOf(Live(rr), Bad(rr), ProxyDesired(rr.spec))
                            \cup ({"Secret", "Deployment"} \X Prepared(rr))
  BY <1>1, Zenon DEF PreparedPass, Passes
<1>3. Live(rr') = Live(rr)
  BY <1>1, <1>2, LiveSame, Zenon
<1>4. \A t \in Prepared(rr) : rr'.creds[t] = getAuthProxySecretValues(AuthMode(rr.spec), t, fresh)
  BY <1>1, <1>2, Zenon
<1> QED
  BY <1>2, <1>3, <1>4

LEMMA PrepareOrigin ==
  ASSUME Types, PassInv, Origin, prepareAuthProxies
  PROVE  Origin'
<1>0. UNCHANGED <<platform, spec, gen>> /\ pc = "auth" /\ gen \in Nat /\ gen >= 1
  BY Zenon DEF prepareAuthProxies, Types, PassInv
<1>1. ASSUME NEW fresh \in SessionKeys, NEW mode, NEW ok \in SUBSET Prepared(rr), obj' = createSecret(ok, mode, fresh),
             NEW k \in Kinds, NEW t \in Targets
      PROVE  OriginOf(k, t)'
  <2>1. ok \in SUBSET Targets /\ \A u \in ok : u \in Live(rr) /\ obj["Secret"][u].owner # "foreign"
    BY PreparedFree, LiveTypes
  <2>2. /\ \A c \in Kinds \ {"Secret"} : obj'[c] = obj[c]
        /\ \A u \in Targets \ ok : obj'["Secret"][u] = obj["Secret"][u]
        /\ \A u \in ok : obj'["Secret"][u].owner = "own" /\ obj'["Secret"][u].gen = obj["Secret"][u].gen
    BY <1>1, <2>1, CreateSecretKeeps, Zenon
  <2>3. CASE k # "Secret" \/ t \notin ok
    <3>1. obj'[k][t] = obj[k][t]
      BY <2>2, <2>3
    <3> QED
      BY <1>0, <3>1, OriginShrinks DEF Origin
  <2>4. CASE k = "Secret" /\ t \in ok
    <3>1. OriginOf("Secret", t)
      BY <2>4 DEF Origin
    <3>2. obj'["Secret"][t].owner = "own" /\ obj'["Secret"][t].gen = obj["Secret"][t].gen
      BY <2>2, <2>4
    <3>3. obj["Secret"][t].gen = gen => t \in {Default} \cup spec.extra
      BY <1>0, <3>1 DEF OriginOf
    <3> QED
      BY <1>0, <2>4, <3>2, <3>3 DEF OriginOf, Own
  <2> QED
    BY <2>3, <2>4
<1>2. \A k \in Kinds, t \in Targets : OriginOf(k, t)'
  <2>1. CASE UNCHANGED obj
    BY <1>0, <2>1, OriginShrinks DEF Origin
  <2>2. Prepared(rr) \in SUBSET Prepared(rr)
    OBVIOUS
  <2> QED
    BY <1>1, <2>1, <2>2, PrepareObjects
<1>3. PassOrigin'
  <2>1. CASE pc' = "idle"
    BY <2>1, Zenon DEF PassOrigin
  <2>2. CASE pc' # "idle"
    <3>1. PICK fresh \in SessionKeys : rr' = PreparedPass(rr, fresh)
      BY <2>2, PrepareObjects
    <3>2. /\ rr'.spec = rr.spec /\ rr'.gen = rr.gen /\ rr'.mode = rr.mode /\ Live(rr') = Live(rr)
          /\ rr'.failed # {} => rr'.requeue
          /\ rr'.want = rr.want \cup PoliciesOf(Live(rr), Bad(rr), ProxyDesired(rr.spec))
                                \cup ({"Secret", "Deployment"} \X Prepared(rr))
      BY <1>0, <3>1, PreparedResult, Zenon
    <3>3. ASSUME NEW k \in Kinds, NEW t \in Targets, <<k, t>> \in rr'.want PROVE t \in Live(rr')
      <4>1. CASE <<k, t>> \in rr.want
        BY <1>0, <3>2, <4>1, Zenon DEF Origin, PassOrigin
      <4>2. CASE <<k, t>> \in PoliciesOf(Live(rr), Bad(rr), ProxyDesired(rr.spec))
        BY <3>2, <4>2 DEF PoliciesOf
      <4>3. CASE <<k, t>> \in {"Secret", "Deployment"} \X Prepared(rr)
        BY <3>2, <4>3, PreparedFree
      <4> QED
        BY <3>2, <3>3, <4>1, <4>2, <4>3
    <3>4. <<"Route", Default>> \in rr'.want => <<"Route", Default>> \in rr.want
      BY <3>2 DEF PoliciesOf
    <3>5. /\ rr'.gen = gen' => rr'.spec = spec'
          /\ rr'.mode \in {"", ModeOf(rr.spec)'}
          /\ <<"Route", Default>> \in rr'.want => rr'.mode = "OcpRoute"
          /\ rr'.failed # {} => rr'.requeue
      BY <1>0, <3>2, <3>4, Zenon DEF Origin, PassOrigin, ModeOf
    <3>6. (Live(rr))' = Live(rr')
      BY DEF Live, Conflict
    <3> QED
      BY <3>3, <3>5, <3>6, Zenon DEF PassOrigin
  <2> QED
    BY <2>1, <2>2
<1> QED
  BY <1>2, <1>3 DEF Origin

(* What a pass is like once routes and redirects are added. *)
LEMMA CleanupResult ==
  ASSUME Types, cleanupAndRoutes
  PROVE  /\ pc = "cleanup" /\ pc' = "deploy" /\ UNCHANGED <<platform, spec, gen, status>>
         /\ rr'.spec = rr.spec /\ rr'.gen = rr.gen /\ rr'.mode = rr.mode /\ rr'.config = rr.config
         /\ rr'.creds = rr.creds /\ rr'.failed = rr.failed /\ rr'.requeue = rr.requeue /\ rr'.auth = rr.auth
         /\ rr'.redirect = (platform = "OpenShift" /\ cluster.dashboard)
         /\ rr'.want = IF rr.mode # "OcpRoute" THEN rr.want
                       ELSE rr.want \cup {<<"Route", Default>>} \cup createAdditionalIngressRoutes(rr)
         /\ Live(rr') = Live(rr)
         /\ cluster' = [cluster EXCEPT !.redirects =
                          IF platform = "OpenShift" /\ ~cluster.dashboard THEN FALSE ELSE @]
<1>0. /\ rr \in Passes(gen) /\ rr.spec.extra \subseteq Ingresses /\ cluster \in Clusters
      /\ pc = "cleanup" /\ pc' = "deploy" /\ UNCHANGED <<platform, spec, gen, status>>
  BY DEF Types, Passes, GatewayConfigSpec, cleanupAndRoutes
<1> DEFINE ing == [i \in Ingresses |-> IF ForeignRoute(rr, i) /\ rr.ing[i] # NoStatus
                     THEN [rr.ing[i] EXCEPT !["RouteAdmitted"] = Condition("False", "OwnershipConflict", rr.gen)]
                     ELSE rr.ing[i]]
<1>1. rr' = [createOCPRoutes(rr) EXCEPT !.redirect = platform = "OpenShift" /\ cluster.dashboard]
  BY DEF cleanupAndRoutes, DashboardRedirectsWanted
<1>2. createOCPRoutes(rr) = IF rr.mode # "OcpRoute" THEN rr
        ELSE [rr EXCEPT !.want = rr.want \cup {<<"Route", Default>>} \cup createAdditionalIngressRoutes(rr),
                        !.ing = ing]
  BY <1>0, Zenon DEF createOCPRoutes, Passes
<1> HIDE DEF ing
<1>3. /\ rr'.spec = rr.spec /\ rr'.gen = rr.gen /\ rr'.mode = rr.mode /\ rr'.config = rr.config
      /\ rr'.creds = rr.creds /\ rr'.failed = rr.failed /\ rr'.requeue = rr.requeue /\ rr'.auth = rr.auth
      /\ rr'.redirect = (platform = "OpenShift" /\ cluster.dashboard)
      /\ rr'.want = IF rr.mode # "OcpRoute" THEN rr.want
                    ELSE rr.want \cup {<<"Route", Default>>} \cup createAdditionalIngressRoutes(rr)
      /\ rr'.ing \in {rr.ing, ing}
  BY <1>0, <1>1, <1>2, Zenon DEF Passes
<1>4. ASSUME NEW i \in Ingresses PROVE rr'.ing[i]["GatewayReady"] = rr.ing[i]["GatewayReady"]
  <2>1. rr.ing[i] \in Entries(gen)
    BY <1>0, Zenon DEF Passes
  <2> QED
    BY <1>3, <2>1, SMT, SMTT(60) DEF ing, Entries, ConditionTypes
<1>5. Live(rr') = Live(rr)
  BY <1>0, <1>3, <1>4, LiveSame, Zenon
<1>6. cluster' = [cluster EXCEPT !.redirects =
                    IF platform = "OpenShift" /\ ~cluster.dashboard THEN FALSE ELSE @]
  BY <1>0, Zenon DEF cleanupAndRoutes, DashboardRedirectsWanted, Clusters
<1> QED
  BY <1>0, <1>3, <1>5, <1>6

LEMMA CleanupOrigin ==
  ASSUME Types, PassInv, Origin, cleanupAndRoutes
  PROVE  Origin'
<1>0. /\ obj \in [Kinds -> [Targets -> Objects(gen)]]
      /\ pc = "cleanup" /\ pc' = "deploy" /\ UNCHANGED <<platform, spec, gen>>
  BY DEF Types, ObjectsTyped, cleanupAndRoutes
<1>1. \A k \in Kinds, t \in Targets : OriginOf(k, t)'
  <2>1. \A k \in Kinds, t \in Targets : obj'[k][t] \in {obj[k][t], Absent}
    BY <1>0, Zenon DEF cleanupAndRoutes, cleanupKubeAuthProxyResources, deleteKubeAuthProxyResource
  <2>2. \A k \in Kinds, t \in Targets :
          \/ obj'[k][t].owner = obj[k][t].owner /\ obj'[k][t].gen = obj[k][t].gen
          \/ obj'[k][t].owner \in {"none", "foreign"} /\ obj'[k][t].gen = 0
    BY <2>1 DEF Absent
  <2> QED
    BY <1>0, <2>2, OriginShrinks, Zenon DEF Origin
<1>2. /\ rr.gen = gen => rr.spec = spec
      /\ rr.mode \in {"", ModeOf(rr.spec)}
      /\ \A k \in Kinds, t \in Targets : <<k, t>> \in rr.want => t \in Live(rr)
      /\ <<"Route", Default>> \in rr.want => rr.mode = "OcpRoute"
      /\ rr.failed # {} => rr.requeue
  BY <1>0, Zenon DEF Origin, PassOrigin
<1>3. ASSUME NEW k \in Kinds, NEW t \in Targets, <<k, t>> \in rr'.want PROVE t \in Live(rr')
  <2>1. CASE <<k, t>> \in rr.want
    BY <1>2, <2>1, CleanupResult, Zenon
  <2>2. CASE <<k, t>> = <<"Route", Default>>
    BY <2>2 DEF Live, Conflict
  <2>3. CASE <<k, t>> \in createAdditionalIngressRoutes(rr)
    <3>1. t \in Live(rr)
      BY <2>3 DEF createAdditionalIngressRoutes, Live
    <3> QED
      BY <3>1, CleanupResult
  <2> QED
    BY <1>3, <2>1, <2>2, <2>3, CleanupResult
<1>4. (Live(rr))' = Live(rr')
  BY DEF Live, Conflict
<1>5. /\ rr'.gen = gen' => rr'.spec = spec'
      /\ rr'.mode \in {"", ModeOf(rr.spec)'}
      /\ <<"Route", Default>> \in rr'.want => rr'.mode = "OcpRoute"
      /\ rr'.failed # {} => rr'.requeue
  BY <1>0, <1>2, CleanupResult, Zenon DEF ModeOf
<1> QED
  BY <1>1, <1>3, <1>4, <1>5, Zenon DEF Origin, PassOrigin

LEMMA DeployOrigin ==
  ASSUME Types, PassInv, Origin, deploy
  PROVE  Origin'
<1>0. /\ pc = "deploy" /\ UNCHANGED <<platform, spec, gen>> /\ gen \in Nat /\ gen >= 1 /\ rr.gen \in Nat /\ rr.gen >= 1
  BY DeployResult DEF Types, Passes, PassInv, PassIsNewest
<1>1. PICK done \in SUBSET rr.want : obj' = Apply(done)
  BY DeployResult, Zenon
<1>2. ASSUME NEW k \in Kinds, NEW t \in Targets PROVE OriginOf(k, t)'
  <2>1. CASE obj'[k][t] = obj[k][t]
    BY <1>0, <2>1, OriginShrinks DEF Origin
  <2>2. CASE obj'[k][t] # obj[k][t]
    <3>1. <<k, t>> \in rr.want
      BY <1>1, <2>2, ApplyResult, Zenon
    <3>2. obj'[k][t].owner = "own" /\ obj'[k][t].gen = rr.gen
      BY <1>1, <2>2, ApplyResult, Zenon
    <3>3. /\ rr.gen = gen => rr.spec = spec
          /\ rr.mode \in {"", ModeOf(rr.spec)} /\ t \in Live(rr)
          /\ <<k, t>> = <<"Route", Default>> => rr.mode = "OcpRoute"
      BY <1>0, <3>1, Zenon DEF Origin, PassOrigin
    <3>4. t \in {Default} \cup rr.spec.extra
      BY <3>3, Zenon DEF Live
    <3>5. rr.gen = gen /\ k = "Route" /\ t = Default => ModeOf(spec)' = "OcpRoute"
      BY <1>0, <3>3, Zenon DEF ModeOf
    <3> QED
      BY <1>0, <3>2, <3>3, <3>4, <3>5, Zenon DEF OriginOf, Own
  <2> QED
    BY <2>1, <2>2
<1>3. PassOrigin'
  <2>1. CASE pc' = "idle"
    BY <2>1, Zenon DEF PassOrigin
  <2>2. CASE pc' # "idle"
    BY <1>0, <2>2, DeployResult, Zenon DEF Origin, PassOrigin, ModeOf, Live, Conflict
  <2> QED
    BY <2>1, <2>2
<1> QED
  BY <1>2, <1>3 DEF Origin

LEMMA FinishOrigin ==
  ASSUME Types, PassInv, Origin, finish
  PROVE  Origin'
<1>0. UNCHANGED <<platform, spec, gen>>
  BY DEF finish
<1>1. \A k \in Kinds, t \in Targets :
        \/ obj'[k][t].owner = obj[k][t].owner /\ obj'[k][t].gen = obj[k][t].gen
        \/ obj'[k][t].owner \in {"none", "foreign"} /\ obj'[k][t].gen = 0
  BY FinishResult DEF Absent
<1>2. \A k \in Kinds, t \in Targets : OriginOf(k, t)'
  BY <1>0, <1>1, OriginShrinks DEF Origin
<1> QED
  BY <1>2, FinishResult, Zenon DEF Origin, PassOrigin

LEMMA EnvironmentOrigin ==
  ASSUME Types, PassInv, Origin,
         \/ (\E s \in SpecEdits : EditSpec(s)) \/ ChangeCluster \/ ForeignObject
         \/ DeleteOwned \/ Progress \/ Provider
  PROVE  Origin'
<1>1. /\ ObjectsChange /\ UNCHANGED <<platform, pc, rr>>
      /\ (gen' = gen /\ spec' = spec) \/ gen' = gen + 1
  BY EnvironmentChange, Zenon
<1>2. ASSUME NEW k \in Kinds, NEW t \in Targets PROVE OriginOf(k, t)'
  <2>1. \/ obj'[k][t].owner = obj[k][t].owner /\ obj'[k][t].gen = obj[k][t].gen
        \/ obj'[k][t].owner \in {"none", "foreign"} /\ obj'[k][t].gen = 0
    BY <1>1, ObjectChange, Zenon
  <2> QED
    BY <1>1, <2>1, OriginShrinks, Zenon DEF Origin
<1>3. rr.gen \in Nat /\ rr.gen <= gen /\ gen \in Nat
  BY DEF Types, Passes
<1>4. PassOrigin'
  <2>1. (Live(rr))' = Live(rr) /\ (ModeOf(rr.spec))' = ModeOf(rr.spec)
    BY <1>1, Zenon DEF Live, Conflict, ModeOf
  <2>2. rr.gen = gen' => rr.gen = gen /\ spec' = spec
    BY <1>1, <1>3
  <2> QED
    BY <1>1, <2>1, <2>2, Zenon DEF Origin, PassOrigin
<1> QED
  BY <1>2, <1>4 DEF Origin

LEMMA OriginInit == Init => Origin
<1> SUFFICES ASSUME Init PROVE Origin
  OBVIOUS
<1>1. gen = 1 /\ pc = "idle"
  BY DEF Init
<1>2. \A k \in Kinds, t \in Targets :
        /\ obj[k][t].gen = 0 /\ obj[k][t].owner \in {"none", "legacy"}
        /\ obj[k][t].owner = "legacy" => k = "NetworkPolicy" /\ t = Default
  BY DEF Init, Absent
<1> QED
  BY <1>1, <1>2 DEF Origin, PassOrigin, OriginOf, Own

LEMMA OriginStep == Types /\ PassInv /\ PassInv' /\ Origin /\ [Next]_vars => Origin'
<1> SUFFICES ASSUME Types, PassInv, PassInv', Origin, [Next]_vars PROVE Origin'
  OBVIOUS
<1>1. CASE UNCHANGED vars
  BY <1>1, ZenonT(60) DEF vars, Origin, PassOrigin, OriginOf, Own, ModeOf, Live, Conflict
<1>2. CASE Pass
  BY <1>2, InfrastructureOrigin, PrepareOrigin, CleanupOrigin, DeployOrigin, FinishOrigin DEF Pass
<1>3. CASE Restart
  <2>1. UNCHANGED <<platform, spec, gen, obj>> /\ pc' = "idle"
    BY <1>3 DEF Restart
  <2> QED
    BY <2>1, ZenonT(60) DEF Origin, PassOrigin, OriginOf, Own, ModeOf
<1> QED
  BY <1>1, <1>2, <1>3, EnvironmentOrigin DEF Next

-----------------------------------------------------------------------------
(* Steps that leave nothing queued *)

LEMMA StillQueued == ASSUME queued' = TRUE PROVE SettledInv'
BY Zenon DEF SettledInv, Calm, GatewaySettled, ReadyIsTruthful, Rest

LEMMA NotAtRest == ASSUME pc' # "idle", Calm' PROVE SettledInv'
BY Zenon DEF SettledInv, GatewaySettled, ReadyIsTruthful, Rest

(* A calm pass works for the spec as it is. *)
LEMMA CalmPass ==
  ASSUME Origin, Calm, ~queued, pc # "idle"
  PROVE  /\ rr.spec = spec /\ rr.gen = gen
         /\ ModeKnown /\ PassIsCurrent /\ PassIsPrepared /\ PassIsCleaned /\ RedirectsFollow /\ PassIsDeployed
BY Zenon DEF Origin, PassOrigin, Calm, PassIsCurrent

(* What the settings ask for depends on the spec and on the cluster's own
   authentication only. *)
LEMMA SameSettings ==
  ASSUME platform' = platform, spec' = spec, cluster'.auth = cluster.auth
  PROVE  /\ Renderable' = Renderable /\ ModeOf(spec)' = ModeOf(spec)
         /\ rejectUnsupportedKubernetesGatewaySpec(spec)' = rejectUnsupportedKubernetesGatewaySpec(spec)
         /\ ProxyDesired(spec)' = ProxyDesired(spec)
         /\ getGatewayAuthenticationMode(spec)' = getGatewayAuthenticationMode(spec)
BY Zenon DEF Renderable, rejectUnsupportedKubernetesGatewaySpec, KubernetesValidationErrors,
   ErrDomainRequired, ModeOf, ProxyDesired, OIDCWithoutConfig, getGatewayAuthenticationMode

LEMMA InfrastructureCalm ==
  ASSUME Types, createGatewayInfrastructure
  PROVE  SettledInv'
<1>1. CASE queued' = TRUE
  BY <1>1, StillQueued
<1>2. CASE queued' # TRUE
  <2>1. ~ModePinned /\ spec' = spec /\ gen' = gen /\ platform' = platform /\ cluster'.svc = cluster.svc
    <3>1. ~ModePinned
      BY <1>2, InfrastructureResult, PinnedTypes, Zenon
    <3> QED
      BY <3>1, InfrastructureResult, PinnedMode, Zenon
  <2>2. ModeKnown'
    BY <2>1, Zenon DEF ModeKnown, ModePinned, Detects, rejectUnsupportedKubernetesGatewaySpec
  <2>3. CASE pc' = "cleanup"
    <3>1. /\ rr'.gen = gen' /\ rr'.mode = "" /\ rr'.want = {} /\ rr'.config = "False" /\ ~Renderable'
      BY <2>1, <2>3, InfrastructureResult, Zenon
    <3>2. PassIsCurrent' /\ PassIsPrepared'
      BY <2>3, <3>1, Zenon DEF PassIsCurrent, PassIsPrepared
    <3> QED
      BY <2>2, <2>3, <3>2, NotAtRest, Zenon DEF Calm, PassIsCleaned, RedirectsFollow, PassIsDeployed
  <2>4. CASE pc' = "auth"
    <3>1. /\ rr'.gen = gen' /\ rr'.mode = ModeOf(spec)' /\ Renderable'
          /\ \A t \in Live(rr') : <<"Gateway", t>> \in rr'.want
      BY <2>1, <2>4, InfrastructureResult
    <3>2. (Live(rr))' = Live(rr')
      BY DEF Live, Conflict
    <3>3. PassIsCurrent'
      BY <2>4, <3>1, <3>2 DEF PassIsCurrent
    <3> QED
      BY <2>2, <2>4, <3>3, NotAtRest DEF Calm, PassIsPrepared, PassIsCleaned, RedirectsFollow, PassIsDeployed
  <2> QED
    BY <1>2, <2>3, <2>4, InfrastructureResult, Zenon
<1> QED
  BY <1>1, <1>2, Zenon

(* A pass that asks for no proxies prepares none. *)
LEMMA NothingPrepared ==
  ASSUME ~ProxyDesired(rr.spec)
  PROVE  Prepared(rr) = {}
<1>1. CASE AuthMode(rr.spec) = "None"
  BY <1>1 DEF Prepared
<1>2. CASE AuthMode(rr.spec) # "None"
  <2>1. OIDCWithoutConfig(rr.spec) /\ AuthMode(rr.spec) = "OIDC" /\ ~rr.spec.oidc
    BY <1>2 DEF ProxyDesired, AuthMode, OIDCWithoutConfig
  <2>2. \A u : PreparationFails(rr.spec, AuthMode(rr.spec), u)
    BY <2>1, SMT, SMTT(60) DEF PreparationFails
  <2>3. Live(rr) \ Bad(rr) = {}
    BY <1>2, <2>2 DEF Bad
  <2> QED
    BY <1>2, <2>3 DEF Prepared
<1> QED
  BY <1>1, <1>2

LEMMA PrepareCalm ==
  ASSUME Types, PassInv, Origin, Calm, prepareAuthProxies
  PROVE  SettledInv'
<1>0. UNCHANGED <<platform, cluster, spec, gen>> /\ pc = "auth"
  BY DEF prepareAuthProxies
<1>1. CASE queued' = TRUE
  BY <1>1, StillQueued
<1>2. CASE queued' # TRUE
  <2>1. PICK fresh \in SessionKeys : rr' = PreparedPass(rr, fresh) /\ pc' = "cleanup" /\ ~queued
    BY <1>2, Zenon DEF prepareAuthProxies, EndWithError
  <2>2. rr.spec = spec /\ rr.gen = gen /\ ModeKnown /\ PassIsCurrent
    BY <1>0, <2>1, CalmPass
  <2>3. /\ rr'.spec = rr.spec /\ rr'.gen = rr.gen /\ rr'.mode = rr.mode
        /\ rr'.failed = FailedTargets(rr) /\ rr'.requeue = (FailedTargets(rr) # {})
        /\ \A t \in Prepared(rr) : rr'.creds[t] = getAuthProxySecretValues(AuthMode(rr.spec), t, fresh)
        /\ rr'.want = rr.want \cup PoliciesOf(Live(rr), Bad(rr), ProxyDesired(rr.spec))
                              \cup ({"Secret", "Deployment"} \X Prepared(rr))
        /\ (Live(rr))' = Live(rr)
    <3>1. (Live(rr))' = Live(rr')
      BY DEF Live, Conflict
    <3> QED
      BY <1>0, <2>1, <3>1, PreparedResult, Zenon
  <2>4. /\ Renderable /\ Renderable' /\ ModeOf(spec)' = ModeOf(spec)
        /\ ProxyDesired(spec)' = ProxyDesired(spec)
        /\ getGatewayAuthenticationMode(spec)' = getGatewayAuthenticationMode(spec)
    <3>1. Renderable
      BY <1>0, <2>2, Zenon DEF PassIsCurrent
    <3> QED
      BY <1>0, <3>1, SameSettings
  <2>5. ModeKnown'
    BY <1>0, <2>2, SameSettings, Zenon DEF ModeKnown
  <2>6. PassIsCurrent'
    BY <1>0, <2>1, <2>2, <2>3, <2>4, Zenon DEF PassIsCurrent
  <2>7. ASSUME NEW t \in Live(rr), ProxyDesired(spec), ~rr'.requeue PROVE ProxyPrepared(t)'
    <3>1. AuthMode(spec) = getGatewayAuthenticationMode(spec) /\ AuthMode(spec) # "None" /\ Bad(rr) = {}
      BY <2>2, <2>3, <2>7, Zenon DEF AuthMode, ProxyDesired, FailedTargets
    <3>2. t \in Prepared(rr) /\ t \notin Bad(rr)
      BY <2>2, <3>1 DEF Prepared
    <3>3. {<<"Secret", t>>, <<"Deployment", t>>, <<"NetworkPolicy", t>>} \subseteq rr'.want
      BY <2>2, <2>3, <2>7, <3>2, Zenon DEF PoliciesOf
    <3>4. getGatewayAuthenticationMode(spec) = "OIDC" => rr'.creds[t].client = cluster.client[t]
      BY <2>2, <2>3, <3>1, <3>2, Zenon DEF getAuthProxySecretValues, Blank
    <3> QED
      BY <1>0, <2>4, <3>3, <3>4 DEF ProxyPrepared
  <2>8. \A t \in Live(rr) : <<"EnvoyFilter", t>> \in rr'.want
    BY <2>3, Zenon DEF PoliciesOf
  <2>9. ASSUME ~ProxyDesired(spec), NEW t \in Targets
        PROVE  <<"Deployment", t>> \notin rr'.want /\ <<"NetworkPolicy", t>> \notin rr'.want
    <3>1. Prepared(rr) = {}
      BY <2>2, <2>9, NothingPrepared
    <3>2. <<"Deployment", t>> \notin rr.want /\ <<"NetworkPolicy", t>> \notin rr.want
      BY <1>0 DEF PassInv, FiltersWanted
    <3> QED
      BY <2>2, <2>3, <2>9, <3>1, <3>2, Zenon DEF PoliciesOf
  <2>10. ASSUME NEW t \in Live(rr), ~ProxyDesired(spec), t # Default
         PROVE  rr'.auth[t] \in {"AuthenticationBlocked", "InvalidAuthenticationConfig"}
    <3>0. t \in rr.spec.extra /\ t \in Ingresses
      BY <2>10 DEF Live, Types, Passes, GatewayConfigSpec
    <3>1. t \in rr.spec.extra /\ rr'.auth[t] = AuthResult(rr, t)
      <4>1. rr'.auth = [i \in Ingresses |-> AuthResult(rr, i)]
        BY <1>0, <2>1, PreparedResult, Zenon
      <4> QED
        BY <3>0, <4>1, Zenon
    <3>2. Prepared(rr) = {}
      BY <2>2, <2>10, NothingPrepared
    <3>3. CASE AuthMode(rr.spec) = "None"
      BY <3>1, <3>3, Zenon DEF AuthResult
    <3>4. CASE AuthMode(rr.spec) # "None"
      <4>1. OIDCWithoutConfig(rr.spec)
        BY <2>2, <2>10, <3>4, Zenon DEF ProxyDesired, AuthMode
      <4>2. FailedTargets(rr) = {} /\ t \in Bad(rr)
        BY <2>10, <3>2, <3>4, <4>1, SMT DEF FailedTargets, Prepared
      <4> QED
        BY <3>1, <3>2, <3>4, <4>2, Zenon DEF AuthResult
    <3> QED
      BY <3>3, <3>4, Zenon
  <2>11. PassIsPrepared'
    BY <2>1, <2>3, <2>4, <2>7, <2>8, <2>9, <2>10, Zenon DEF PassIsPrepared
  <2> QED
    BY <2>1, <2>5, <2>6, <2>11, NotAtRest, Zenon DEF Calm, PassIsCleaned, RedirectsFollow, PassIsDeployed
<1> QED
  BY <1>1, <1>2, Zenon

LEMMA CleanupCalm ==
  ASSUME Types, PassInv, Origin, Calm, cleanupAndRoutes
  PROVE  SettledInv'
<1>0. /\ UNCHANGED <<platform, spec, gen>> /\ pc = "cleanup" /\ pc' = "deploy"
      /\ queued' = (queued \/ obj' # obj) /\ obj' = cleanupKubeAuthProxyResources(rr.spec)
  BY DEF cleanupAndRoutes
<1>1. CASE queued' = TRUE
  BY <1>1, StillQueued
<1>2. CASE queued' # TRUE
  <2>1. ~queued /\ obj' = obj
    BY <1>0, <1>2, Zenon
  <2>2. rr.spec = spec /\ rr.gen = gen /\ ModeKnown /\ PassIsCurrent /\ PassIsPrepared
    BY <1>0, <2>1, CalmPass
  <2>3. /\ cluster'.auth = cluster.auth /\ cluster'.svc = cluster.svc /\ cluster'.client = cluster.client
        /\ cluster'.dashboard = cluster.dashboard
        /\ platform = "OpenShift" => (cluster'.redirects => cluster'.dashboard)
    <3>1. cluster' = [cluster EXCEPT !.redirects = IF platform = "OpenShift" /\ ~cluster.dashboard THEN FALSE ELSE @]
      BY CleanupResult, Zenon
    <3>2. cluster \in Clusters
      BY DEF Types
    <3> QED
      BY <3>1, <3>2 DEF Clusters
  <2>4. /\ rr'.spec = rr.spec /\ rr'.gen = rr.gen /\ rr'.mode = rr.mode /\ rr'.config = rr.config
        /\ rr'.creds = rr.creds /\ rr'.failed = rr.failed /\ rr'.requeue = rr.requeue /\ rr'.auth = rr.auth
        /\ rr'.redirect = (platform = "OpenShift" /\ cluster.dashboard)
        /\ rr'.want = IF rr.mode # "OcpRoute" THEN rr.want
                      ELSE rr.want \cup {<<"Route", Default>>} \cup createAdditionalIngressRoutes(rr)
        /\ (Live(rr))' = Live(rr)
    <3>1. (Live(rr))' = Live(rr')
      BY DEF Live, Conflict
    <3> QED
      BY <3>1, CleanupResult
  <2>5. \A k \in Kinds \ {"Route"}, t \in Targets : <<k, t>> \in rr'.want <=> <<k, t>> \in rr.want
    BY <2>4 DEF createAdditionalIngressRoutes
  <2>6. /\ Renderable' = Renderable /\ ModeOf(spec)' = ModeOf(spec)
        /\ rejectUnsupportedKubernetesGatewaySpec(spec)' = rejectUnsupportedKubernetesGatewaySpec(spec)
        /\ ProxyDesired(spec)' = ProxyDesired(spec)
        /\ getGatewayAuthenticationMode(spec)' = getGatewayAuthenticationMode(spec)
    BY <1>0, <2>3, SameSettings, Zenon
  <2>7. ModeKnown'
    BY <1>0, <2>2, <2>3, <2>6, Zenon DEF ModeKnown
  <2>8. PassIsCurrent'
    <3>1. ~Renderable => rr'.want = {}
      BY <1>0, <2>2, <2>4, Zenon DEF PassIsCurrent
    <3>2. Renderable => \A t \in Live(rr) : <<"Gateway", t>> \in rr'.want
      BY <1>0, <2>2, <2>4, Zenon DEF PassIsCurrent
    <3> QED
      BY <1>0, <2>2, <2>4, <2>6, <3>1, <3>2, Zenon DEF PassIsCurrent
  <2>9. \A t : ProxyPrepared(t) => ProxyPrepared(t)'
    BY <2>3, <2>4, <2>6, Zenon DEF ProxyPrepared
  <2>10. PassIsPrepared'
    <3>1. \A t \in Live(rr) : <<"EnvoyFilter", t>> \in rr.want => <<"EnvoyFilter", t>> \in rr'.want
      BY <2>4, SMT, SMTT(60)
    <3>2. \A t \in Targets : /\ <<"Deployment", t>> \in rr'.want => <<"Deployment", t>> \in rr.want
                             /\ <<"NetworkPolicy", t>> \in rr'.want => <<"NetworkPolicy", t>> \in rr.want
      BY <2>5 DEF Kinds
    <3> QED
      BY <1>0, <2>2, <2>4, <2>6, <2>9, <3>1, <3>2, Zenon DEF PassIsPrepared
  <2>11. ASSUME ~ProxyDesired(spec), NEW t \in {Default} \cup spec.extra, NEW k \in {"Deployment", "NetworkPolicy"}
         PROVE  obj[k][t].owner \notin {"own", "legacy"}
    <3>1. t \in Targets /\ k \in Kinds
      BY DEF Types, GatewayConfigSpec, Targets, Kinds
    <3>2. obj[k][t] = deleteKubeAuthProxyResource(obj[k][t])
      BY <1>0, <2>1, <2>2, <2>11, <3>1, SMT, SMTT(60) DEF cleanupKubeAuthProxyResources, Types, ObjectsTyped
    <3>3. Absent.owner = "none"
      BY DEF Absent
    <3> QED
      BY <3>2, <3>3 DEF deleteKubeAuthProxyResource
  <2>12. PassIsCleaned'
    BY <1>0, <2>1, <2>4, <2>6, <2>11, Zenon DEF PassIsCleaned
  <2>13. RedirectsFollow'
    <3>1. cluster.dashboard \in BOOLEAN
      BY DEF Types, Clusters
    <3> QED
      BY <1>0, <2>3, <2>4, <3>1, Zenon DEF RedirectsFollow
  <2> QED
    BY <1>0, <2>7, <2>8, <2>10, <2>12, <2>13, NotAtRest, SMT, SMTT(60) DEF Calm, PassIsDeployed
<1> QED
  BY <1>1, <1>2, Zenon

LEMMA DeployCalm ==
  ASSUME Types, PassInv, Origin, Calm, deploy
  PROVE  SettledInv'
<1>1. CASE queued' = TRUE
  BY <1>1, StillQueued
<1>2. CASE queued' # TRUE
  <2>1. /\ pc = "deploy" /\ pc' = "status" /\ UNCHANGED <<platform, spec, gen, rr, obj>> /\ ~queued
        /\ obj' = Apply(rr.want) /\ cluster' = [cluster EXCEPT !.redirects = @ \/ rr.redirect]
    <3>1. \/ queued' = TRUE
          \/ ~queued /\ obj' = obj
      BY Zenon DEF deploy, EndWithError, Types
    <3> QED
      BY <1>2, <3>1, DeployResult, Zenon
  <2>2. /\ rr.spec = spec /\ rr.gen = gen /\ ModeKnown /\ PassIsCurrent /\ PassIsPrepared
        /\ PassIsCleaned /\ RedirectsFollow
    BY <2>1, CalmPass
  <2>3. /\ cluster'.auth = cluster.auth /\ cluster'.svc = cluster.svc /\ cluster'.client = cluster.client
        /\ cluster'.dashboard = cluster.dashboard /\ cluster'.ca = cluster.ca
        /\ cluster'.redirects = (cluster.redirects \/ rr.redirect)
    <3>1. cluster \in Clusters
      BY DEF Types
    <3> QED
      BY <2>1, <3>1, Zenon DEF Clusters
  <2>4. /\ Renderable' = Renderable /\ ModeOf(spec)' = ModeOf(spec)
        /\ rejectUnsupportedKubernetesGatewaySpec(spec)' = rejectUnsupportedKubernetesGatewaySpec(spec)
        /\ ProxyDesired(spec)' = ProxyDesired(spec)
        /\ getGatewayAuthenticationMode(spec)' = getGatewayAuthenticationMode(spec)
        /\ (Live(rr))' = Live(rr)
    BY <2>1, <2>3, SameSettings DEF Live, Conflict
  <2>5. ModeKnown' /\ PassIsCurrent'
    BY <2>1, <2>2, <2>3, <2>4, Zenon DEF ModeKnown, PassIsCurrent
  <2>6. \A t : ProxyPrepared(t) => ProxyPrepared(t)'
    BY <2>1, <2>3, <2>4, Zenon DEF ProxyPrepared
  <2>7. PassIsPrepared' /\ PassIsCleaned'
    BY <2>1, <2>2, <2>4, <2>6 DEF PassIsPrepared, PassIsCleaned
  <2>8. RedirectsFollow'
    <3>1. cluster.redirects \in BOOLEAN /\ cluster.dashboard \in BOOLEAN
      BY DEF Types, Clusters
    <3> QED
      BY <2>1, <2>2, <2>3, <3>1, Zenon DEF RedirectsFollow
  <2>9. PassIsDeployed'
    <3> SUFFICES ASSUME NEW k \in Kinds, NEW t \in Targets, <<k, t>> \in rr.want
                 PROVE  Own(k, t) /\ obj[k][t].val = DesiredValue(k, t)'
      BY <2>1 DEF PassIsDeployed, Own
    <3>1. obj[k][t] = Applied(k, t)
      BY <2>1, ApplyResult
    <3>2. DesiredValue(k, t)' = DesiredValue(k, t)
      BY <2>1, <2>3 DEF DesiredValue
    <3> QED
      BY <3>1, <3>2, SMT, SMTT(60) DEF Applied, Own
  <2> QED
    BY <2>1, <2>5, <2>7, <2>8, <2>9, NotAtRest DEF Calm
<1> QED
  BY <1>1, <1>2, Zenon

(* Step 5 *)

(* An ingress whose readiness is looked at. *)
Served(i) == i \in rr.spec.extra /\ rr.ing[i] # NoStatus /\ ~Conflict(rr, i)

GatewayCondition(i) ==
  IF ~Exists("Gateway", i) THEN Pending(rr.gen)
  ELSE IF obj["Gateway"][i].ok THEN Condition("True", "Ready", rr.gen)
  ELSE Condition("False", "NotReady", rr.gen)

LEMMA ReadinessResult ==
  ASSUME Types, NEW r, r = syncAdditionalIngressReadiness(rr)
  PROVE  /\ r.spec = rr.spec /\ r.gen = rr.gen /\ r.config = rr.config /\ (rr.requeue => r.requeue)
         /\ \A i \in Ingresses :
              /\ Served(i) =>
                   /\ r.ing[i] = [rr.ing[i] EXCEPT !["GatewayReady"] = GatewayCondition(i),
                                    !["RouteAdmitted"] = syncAdditionalIngressRouteReadiness(i, rr.gen)]
                   /\ r.auth[i] = syncAdditionalIngressAuthReadiness(rr, i)
              /\ ~Served(i) => r.ing[i] = rr.ing[i] /\ r.auth[i] = rr.auth[i]
<1> DEFINE live == {i \in rr.spec.extra : rr.ing[i] # NoStatus /\ ~Conflict(rr, i)}
           auth == [i \in Ingresses |-> IF i \in live THEN syncAdditionalIngressAuthReadiness(rr, i) ELSE rr.auth[i]]
           ing == [i \in Ingresses |-> IF i \in live
                     THEN [rr.ing[i] EXCEPT !["GatewayReady"] = GatewayCondition(i),
                                            !["RouteAdmitted"] = syncAdditionalIngressRouteReadiness(i, rr.gen)]
                     ELSE rr.ing[i]]
           requeue == rr.requeue \/ \E i \in live : auth[i] \in {"NotReady", "AuthenticationUnavailable"}
<1>1. r = [rr EXCEPT !.ing = ing, !.auth = auth, !.requeue = requeue]
  BY Zenon DEF syncAdditionalIngressReadiness, GatewayCondition
<1>2. rr.requeue => requeue
  BY Zenon
<1>3. rr \in Passes(gen)
  BY DEF Types
<1>4. \A i \in Ingresses :
        /\ Served(i) =>
             /\ ing[i] = [rr.ing[i] EXCEPT !["GatewayReady"] = GatewayCondition(i),
                            !["RouteAdmitted"] = syncAdditionalIngressRouteReadiness(i, rr.gen)]
             /\ auth[i] = syncAdditionalIngressAuthReadiness(rr, i)
        /\ ~Served(i) => ing[i] = rr.ing[i] /\ auth[i] = rr.auth[i]
  BY Zenon DEF Served
<1> HIDE DEF ing, auth, requeue
<1>5. /\ r.spec = rr.spec /\ r.gen = rr.gen /\ r.config = rr.config
      /\ r.ing = ing /\ r.auth = auth /\ r.requeue = requeue
  BY <1>1, <1>3, Zenon DEF Passes
<1> QED
  BY <1>2, <1>4, <1>5, Zenon

(* A Route without an admission is not ready. *)
LEMMA NotAdmitted ==
  ASSUME NEW host, NEW controller, NEW g
  PROVE  additionalIngressRouteCondition(<<>>, host, controller, g).status = "False"
<1>1. DOMAIN <<>> = {}
  OBVIOUS
<1>2. additionalIngressRouteCondition(<<>>, host, controller, g) = Condition("False", "NotReady", g)
  BY <1>1 DEF additionalIngressRouteCondition
<1> QED
  BY <1>2 DEF Condition

LEMMA RouteAdmitted ==
  ASSUME Types, NEW i \in Ingresses, NEW g,
         syncAdditionalIngressRouteReadiness(i, g).status = "True"
  PROVE  Exists("Route", i) /\ obj["Route"][i].owner # "foreign" /\ obj["Route"][i].ok
<1>1. obj["Route"][i].owner \notin {"none", "foreign"}
  BY Zenon DEF syncAdditionalIngressRouteReadiness, Pending, Condition
<1>2. ASSUME ~obj["Route"][i].ok PROVE FALSE
  <2>1. syncAdditionalIngressRouteReadiness(i, g) = additionalIngressRouteCondition(<<>>, i, "own", g)
    BY <1>1, <1>2, Zenon DEF syncAdditionalIngressRouteReadiness
  <2> QED
    BY <2>1, NotAdmitted
<1> QED
  BY <1>1, <1>2, Zenon DEF Exists

(* What the pass publishes of an ingress. *)
LEMMA PublishedEntry ==
  ASSUME Types, rr.gen >= 1, NEW r, r = syncAdditionalIngressReadiness(rr), NEW i \in Ingresses, NEW entry,
         entry = publishAdditionalIngressAuthConditions(r)[i]
  PROVE  /\ ~Served(i) => entry["GatewayReady"] = rr.ing[i]["GatewayReady"]
         /\ Served(i) => /\ entry["GatewayReady"] = GatewayCondition(i)
                         /\ entry["RouteAdmitted"] = syncAdditionalIngressRouteReadiness(i, rr.gen)
                         /\ entry["AuthenticationReady"] =
                              AuthCondition(syncAdditionalIngressAuthReadiness(rr, i), rr.gen)
<1>0. rr.ing[i] \in Entries(gen) /\ rr.gen \in Nat
  BY DEF Types, Passes
<1>1. /\ r.spec = rr.spec /\ r.gen = rr.gen
      /\ Served(i) => /\ r.ing[i] = [rr.ing[i] EXCEPT !["GatewayReady"] = GatewayCondition(i),
                            !["RouteAdmitted"] = syncAdditionalIngressRouteReadiness(i, rr.gen)]
                      /\ r.auth[i] = syncAdditionalIngressAuthReadiness(rr, i)
      /\ ~Served(i) => r.ing[i] = rr.ing[i]
  BY ReadinessResult, SMT, SMTT(60)
<1>2. \/ entry = r.ing[i]
      \/ entry = [r.ing[i] EXCEPT !["AuthenticationReady"] = AuthCondition(r.auth[i], r.gen)]
  BY Zenon DEF publishAdditionalIngressAuthConditions
<1>3. CASE ~Served(i)
  BY <1>0, <1>1, <1>2, <1>3, Zenon DEF Entries, ConditionTypes
<1>4. CASE Served(i)
  <2> DEFINE g == GatewayCondition(i)
             a == syncAdditionalIngressRouteReadiness(i, rr.gen)
  <2>1. g.gen = rr.gen
    BY Zenon DEF GatewayCondition, Pending, Condition
  <2>2. r.auth[i] # "none"
    BY <1>1, <1>4, Zenon DEF syncAdditionalIngressAuthReadiness
  <2> HIDE DEF g, a
  <2>3. r.ing[i] = [rr.ing[i] EXCEPT !["GatewayReady"] = g, !["RouteAdmitted"] = a]
    BY <1>1, <1>4, Zenon DEF g, a
  <2>4. DOMAIN r.ing[i] = ConditionTypes /\ r.ing[i]["GatewayReady"] = g /\ r.ing[i]["RouteAdmitted"] = a
    BY <1>0, <2>3, Zenon DEF Entries, ConditionTypes
  <2>5. r.ing[i] # NoStatus
    <3>1. NoStatus["GatewayReady"].gen = 0
      BY DEF NoStatus, ConditionTypes, Pending, Condition
    <3> QED
      BY <1>0, <2>1, <2>4, <3>1, SMT, SMTT(60)
  <2>6. entry = [r.ing[i] EXCEPT !["AuthenticationReady"] = AuthCondition(r.auth[i], r.gen)]
    BY <1>1, <1>4, <2>2, <2>5, Zenon DEF publishAdditionalIngressAuthConditions, Served
  <2>7. entry["GatewayReady"] = g /\ entry["RouteAdmitted"] = a /\ entry["AuthenticationReady"] = AuthCondition(r.auth[i], r.gen)
    BY <2>4, <2>6, Zenon DEF ConditionTypes
  <2> QED
    BY <1>1, <1>4, <2>7, Zenon DEF g, a
<1> QED
  BY <1>3, <1>4, Zenon

(* The conflicts that are published are those the pass went by. *)
LEMMA PublishedConflict ==
  ASSUME Types, rr.gen >= 1, NEW r, r = syncAdditionalIngressReadiness(rr), NEW i \in Ingresses, i # Default
  PROVE  additionalIngressHasGatewayConflict(publishAdditionalIngressAuthConditions(r)[i], rr.gen) <=> Conflict(rr, i)
<1>1. CASE Served(i)
  <2>1. GatewayCondition(i).reason \notin {"OwnershipConflict", "HostnameConflict"}
    BY Zenon DEF GatewayCondition, Pending, Condition
  <2>2. publishAdditionalIngressAuthConditions(r)[i]["GatewayReady"] = GatewayCondition(i)
    BY <1>1, PublishedEntry, Zenon
  <2> QED
    BY <1>1, <2>1, <2>2, Zenon DEF additionalIngressHasGatewayConflict, Served
<1>2. CASE ~Served(i)
  <2>1. publishAdditionalIngressAuthConditions(r)[i]["GatewayReady"] = rr.ing[i]["GatewayReady"]
    BY <1>2, PublishedEntry, Zenon
  <2> QED
    BY <2>1, Zenon DEF additionalIngressHasGatewayConflict, Conflict
<1> QED
  BY <1>1, <1>2

(* An ingress is published as ready when all of it is. *)
LEMMA PublishedReady ==
  ASSUME Types, rr.gen >= 1, NEW r, r = syncAdditionalIngressReadiness(rr), NEW i \in Ingresses,
         i # Default, i \in rr.spec.extra,
         updateAdditionalIngressReadyCondition(publishAdditionalIngressAuthConditions(r)[i], rr.gen) = "True"
  PROVE  /\ Served(i)
         /\ Exists("Gateway", i) /\ obj["Gateway"][i].ok
         /\ Exists("Route", i) /\ obj["Route"][i].owner # "foreign" /\ obj["Route"][i].ok
         /\ Exists("Deployment", i) /\ obj["Deployment"][i].ok
         /\ rr.auth[i] \notin {"AuthenticationBlocked", "InvalidAuthenticationConfig"}
<1> DEFINE entry == publishAdditionalIngressAuthConditions(r)[i]
<1>0. rr.gen \in Nat
  BY SMT, SMTT(60) DEF Types, Passes
<1>1. \A c \in ConditionTypes : entry[c].gen = rr.gen /\ entry[c].status = "True"
  BY Zenon DEF updateAdditionalIngressReadyCondition
<1>2. /\ entry["GatewayReady"].gen = rr.gen /\ entry["GatewayReady"].status = "True"
      /\ entry["RouteAdmitted"].status = "True" /\ entry["AuthenticationReady"].status = "True"
  BY <1>1, Zenon DEF ConditionTypes
<1> HIDE DEF entry
<1>3. Served(i)
  <2>1. ASSUME ~Served(i) PROVE FALSE
    <3>1. entry["GatewayReady"] = rr.ing[i]["GatewayReady"]
      BY <2>1, PublishedEntry, Zenon DEF entry
    <3>2. CASE rr.ing[i] = NoStatus
      <4>1. NoStatus["GatewayReady"].gen = 0
        BY Zenon DEF NoStatus, ConditionTypes, Pending, Condition
      <4> QED
        BY <1>0, <1>2, <3>1, <3>2, <4>1, SMT, SMTT(60)
    <3>3. CASE Conflict(rr, i)
      BY <1>2, <3>1, <3>3, Zenon DEF Conflict, additionalIngressHasGatewayConflict
    <3> QED
      BY <2>1, <3>2, <3>3, SMT, SMTT(60) DEF Served
  <2> QED
    BY <2>1, Zenon
<1>4. /\ entry["GatewayReady"] = GatewayCondition(i)
      /\ entry["RouteAdmitted"] = syncAdditionalIngressRouteReadiness(i, rr.gen)
      /\ entry["AuthenticationReady"] = AuthCondition(syncAdditionalIngressAuthReadiness(rr, i), rr.gen)
  BY <1>3, PublishedEntry, Zenon DEF entry
<1>5. Exists("Gateway", i) /\ obj["Gateway"][i].ok
  <2>1. GatewayCondition(i).status = "True"
    BY <1>2, <1>4, Zenon
  <2>2. \A g : Pending(g).status # "True" /\ Condition("False", "NotReady", g).status # "True"
    BY Zenon DEF Pending, Condition
  <2> QED
    BY <2>1, <2>2, Zenon DEF GatewayCondition
<1>6. Exists("Route", i) /\ obj["Route"][i].owner # "foreign" /\ obj["Route"][i].ok
  BY <1>2, <1>4, RouteAdmitted, Zenon
<1>7. syncAdditionalIngressAuthReadiness(rr, i) = "Ready"
  <2>1. ASSUME NEW reason, AuthCondition(reason, rr.gen).status = "True" PROVE reason = "Ready"
    BY <2>1, Zenon DEF AuthCondition, Condition
  <2> QED
    BY <1>2, <1>4, <2>1, Zenon
<1>8. /\ Exists("Deployment", i) /\ obj["Deployment"][i].ok
      /\ rr.auth[i] \notin {"AuthenticationBlocked", "InvalidAuthenticationConfig"}
  BY <1>7, Zenon DEF syncAdditionalIngressAuthReadiness, checkKubeAuthProxyDeployment
<1> QED
  BY <1>3, <1>5, <1>6, <1>8, Zenon

LEMMA FinishStatus ==
  ASSUME Types, finish, queued' # TRUE, NEW r, r = syncAdditionalIngressReadiness(rr)
  PROVE  /\ UNCHANGED <<platform, cluster, spec, gen>>
         /\ status'.gen = r.gen /\ status'.ing = publishAdditionalIngressAuthConditions(r)
         /\ status'.ready = Happy({syncGatewayConfigStatus(r),
              updateAdditionalGatewaysReadyCondition(r.spec.extra, publishAdditionalIngressAuthConditions(r), r.gen)})
         /\ queued' = (queued \/ r.requeue \/ obj' # obj)
<1>1. PICK config, ing, domain :
        /\ config = syncGatewayConfigStatus(r) /\ ing = publishAdditionalIngressAuthConditions(r)
        /\ status' = [gen |-> r.gen, config |-> config, ing |-> ing,
                      ready |-> Happy({config, updateAdditionalGatewaysReadyCondition(r.spec.extra, ing, r.gen)}),
                      domain |-> domain]
        /\ queued' = (queued \/ r.requeue \/ obj' # obj)
        /\ UNCHANGED <<platform, cluster, spec, gen>>
  BY Zenon DEF finish
<1> QED
  BY <1>1, Zenon

(* Ready means that the default Gateway is accepted; a spec that cannot be
   rendered is never ready. *)
LEMMA ConfigReady ==
  ASSUME Types, PassIsCurrent, pc = "status", rr.spec = spec, NEW r, r = syncAdditionalIngressReadiness(rr),
         syncGatewayConfigStatus(r) = "True"
  PROVE  Renderable /\ Exists("Gateway", Default) /\ obj["Gateway"][Default].ok
<1>1. r.spec = spec /\ r.config = rr.config
  BY ReadinessResult, Zenon
<1>2. Renderable
  <2>1. ASSUME ~Renderable PROVE FALSE
    <3>1. r.config = "False"
      BY <1>1, <2>1, Zenon DEF PassIsCurrent
    <3> QED
      BY <3>1, Zenon DEF syncGatewayConfigStatus
  <2> QED
    BY <2>1
<1>3. ~rejectUnsupportedKubernetesGatewaySpec(r.spec) /\ GetGatewayDomain
  BY <1>1, <1>2, Zenon DEF Renderable, GetGatewayDomain
<1> QED
  BY <1>2, <1>3, Zenon DEF syncGatewayConfigStatus

(* The status that a calm pass leaves is true of the objects. *)
LEMMA FinishReady ==
  ASSUME Types, PassInv, Origin, Calm, finish, queued' # TRUE
  PROVE  ReadyIsTruthful'
<1> SUFFICES ASSUME status'.ready = "True"
             PROVE  /\ (Own("Gateway", Default) /\ obj["Gateway"][Default].ok)'
                    /\ \A i \in spec.extra, k \in {"Gateway", "Route", "Deployment"} : (Own(k, i) /\ obj[k][i].ok)'
  <2>1. spec' = spec
    BY Zenon DEF finish
  <2> QED
    BY <2>1, Zenon DEF ReadyIsTruthful
<1> DEFINE r == syncAdditionalIngressReadiness(rr)
           config == syncGatewayConfigStatus(r)
           others == updateAdditionalGatewaysReadyCondition(r.spec.extra, publishAdditionalIngressAuthConditions(r), r.gen)
<1>1. ~queued /\ pc = "status" /\ obj' = obj /\ ~r.requeue /\ status'.ready = Happy({config, others})
  BY FinishStatus, FinishResult, Zenon
<1>2. rr.spec = spec /\ rr.gen = gen /\ PassIsCurrent /\ PassIsPrepared /\ PassIsDeployed
  BY <1>1, CalmPass
<1>3. r.spec = rr.spec /\ r.gen = rr.gen /\ ~rr.requeue
  BY <1>1, ReadinessResult, Zenon
<1>4. config = "True" /\ others = "True"
  <2>1. others \in {"True", "False", "Unknown"}
    BY Zenon DEF updateAdditionalGatewaysReadyCondition
  <2>2. config \in {"True", "False", "Unknown"}
    <3>1. r \in Passes(gen)
      BY ReadinessType
    <3>2. r.config \in Statuses
      BY <3>1 DEF Passes
    <3> QED
      BY <3>2, Zenon DEF syncGatewayConfigStatus, Statuses
  <2> HIDE DEF config, others
  <2> QED
    BY <1>1, <2>1, <2>2, Zenon DEF Happy
<1>5. Renderable /\ Exists("Gateway", Default) /\ obj["Gateway"][Default].ok
  BY <1>1, <1>2, <1>4, ConfigReady, Zenon
<1>6. \A t \in Live(rr) : Own("Gateway", t)
  BY <1>1, <1>2, <1>5, LiveTypes, Zenon DEF PassIsCurrent, PassIsDeployed, Kinds
<1>7. Default \in Live(rr)
  BY Zenon DEF Live, Conflict
<1>8. ASSUME NEW i \in spec.extra, NEW k \in {"Gateway", "Route", "Deployment"} PROVE Own(k, i) /\ obj[k][i].ok
  <2>1. i \in Ingresses /\ i # Default /\ rr.gen >= 1 /\ i \in rr.spec.extra
    BY <1>1, <1>2, DefaultAssumption, Zenon DEF Types, GatewayConfigSpec, PassInv, PassIsNewest
  <2>2. updateAdditionalIngressReadyCondition(publishAdditionalIngressAuthConditions(r)[i], rr.gen) = "True"
    BY <1>2, <1>3, <1>4, Zenon DEF updateAdditionalGatewaysReadyCondition
  <2> HIDE DEF r
  <2>3. /\ Served(i)
        /\ Exists("Gateway", i) /\ obj["Gateway"][i].ok
        /\ Exists("Route", i) /\ obj["Route"][i].owner # "foreign" /\ obj["Route"][i].ok
        /\ Exists("Deployment", i) /\ obj["Deployment"][i].ok
        /\ rr.auth[i] \notin {"AuthenticationBlocked", "InvalidAuthenticationConfig"}
    BY <2>1, <2>2, PublishedReady, Zenon DEF r
  <2>4. i \in Live(rr)
    BY <2>3, Zenon DEF Served, Live
  <2>5. \A c \in {"Route", "Deployment"} : c \in Kinds /\ i \in Targets /\ OriginOf(c, i)
                /\ obj[c][i].owner \in {"none", "own", "legacy", "foreign"}
    BY <2>1, Zenon DEF Origin, Kinds, Targets, Types, ObjectsTyped, Objects
  <2>6. Own("Route", i) /\ Own("Deployment", i)
    <3>1. ProxyDesired(spec)
      BY <1>1, <1>2, <1>5, <2>1, <2>3, <2>4, Zenon DEF PassIsPrepared
    <3>2. <<"Deployment", i>> \in rr.want
      BY <1>1, <1>2, <1>3, <1>5, <2>4, <3>1, Zenon DEF PassIsPrepared, ProxyPrepared
    <3>3. Own("Deployment", i)
      BY <1>1, <1>2, <2>5, <3>2, Zenon DEF PassIsDeployed
    <3> QED
      BY <2>3, <2>5, <3>3, Zenon DEF OriginOf, Own, Exists
  <2> QED
    BY <1>6, <2>3, <2>4, <2>6, Zenon
<1> QED
  BY <1>1, <1>5, <1>6, <1>7, <1>8, Zenon DEF Own

(* Nothing was collected: what the operator owns is of this generation. *)
LEMMA NothingCollected ==
  ASSUME Types, PassInv, Origin, finish, queued' # TRUE, obj' = obj, rr.gen = gen, rr.failed = {},
         NEW k \in Kinds \ {"Secret"}, NEW t \in Targets, Own(k, t)
  PROVE  /\ t \in {Default} \cup spec.extra
         /\ k = "Route" /\ t = Default => ModeOf(spec) = "OcpRoute"
<1>1. ~gatewayAuthResourceCollectable(rr, k, t)
  <2>1. gatewayAuthResourceCollectable(rr, k, t) => obj[k][t] = Absent
    BY FinishResult, Zenon
  <2> QED
    BY <2>1, SMT, SMTT(60) DEF Own, Absent
<1>2. obj[k][t].gen >= 1 /\ OriginOf(k, t) /\ obj[k][t].gen \in Nat
  BY SMT, SMTT(60) DEF Origin, OriginOf, Types, ObjectsTyped, Objects
<1>3. obj[k][t].gen = gen
  BY <1>1, <1>2, SMT, SMTT(60) DEF gatewayAuthResourceCollectable
<1> QED
  BY <1>2, <1>3, Zenon DEF OriginOf

(* The property, conjunct by conjunct *)
ModeNow == IF spec.mode = "" THEN detectIngressMode ELSE spec.mode

LiveNow == {Default} \cup {i \in spec.extra : ~additionalIngressHasGatewayConflict(status.ing[i], gen)}

ProxySettled(t) ==
  /\ Own("Deployment", t) /\ Own("Secret", t) /\ Own("NetworkPolicy", t)
  /\ obj["Deployment"][t].val.client = obj["Secret"][t].val.client
  /\ obj["Deployment"][t].val.key = obj["Secret"][t].val.key
  /\ obj["Deployment"][t].val.ca = IF spec.ca THEN cluster.ca ELSE 0
  /\ getGatewayAuthenticationMode(spec) = "OIDC" => obj["Secret"][t].val.client = cluster.client[t]

RestSettled ==
  /\ Renderable =>
       /\ \A t \in LiveNow : Own("Gateway", t) /\ Own("EnvoyFilter", t)
       /\ obj["Gateway"][Default].val.mode = ModeNow
       /\ Own("Route", Default) <=> ModeNow = "OcpRoute"
       /\ \A t \in LiveNow : ProxyDesired(spec) => ProxySettled(t)

Settled ==
  /\ status.gen = gen
  /\ \A k \in DOMAIN obj, i \in Ingresses \ spec.extra : k = "Secret" \/ ~Own(k, i)
  /\ RestSettled
  /\ ~ProxyDesired(spec) => \A t \in Targets :
       {obj["Deployment"][t].owner, obj["NetworkPolicy"][t].owner} \cap {"own", "legacy"} = {}
  /\ platform = "OpenShift" => (cluster.redirects <=> DashboardRedirectsWanted)

(* The objects that a calm pass leaves are those the spec asks for. *)
LEMMA FinishSettled ==
  ASSUME Types, PassInv, Origin, Calm, finish, queued' # TRUE
  PROVE  GatewaySettled'
<1> DEFINE r == syncAdditionalIngressReadiness(rr)
<1>1. /\ ~queued /\ pc = "status" /\ obj' = obj /\ ~r.requeue /\ UNCHANGED <<platform, cluster, spec, gen>>
      /\ status'.gen = r.gen /\ status'.ing = publishAdditionalIngressAuthConditions(r)
  BY FinishStatus, FinishResult, Zenon
<1>2. /\ rr.spec = spec /\ rr.gen = gen /\ ModeKnown /\ PassIsCurrent /\ PassIsPrepared
      /\ PassIsCleaned /\ RedirectsFollow /\ PassIsDeployed
  BY <1>1, CalmPass, Zenon
<1>3. r.spec = rr.spec /\ r.gen = rr.gen /\ ~rr.requeue
  BY <1>1, ReadinessResult, Zenon
<1>4. rr.failed = {} /\ rr.gen >= 1 /\ rr.spec.extra \subseteq Ingresses /\ Live(rr) \subseteq Targets /\ Default \in Live(rr)
  <2>1. rr.failed = {} /\ rr.gen >= 1
    BY <1>1, <1>3, Zenon DEF Origin, PassOrigin, PassInv, PassIsNewest
  <2>2. Default \in Live(rr)
    BY Zenon DEF Live, Conflict
  <2> QED
    BY <2>1, <2>2, LiveTypes, Zenon DEF Types, Passes, GatewayConfigSpec
<1>5. LiveNow' = Live(rr)
  <2>1. \A i \in spec.extra : additionalIngressHasGatewayConflict(status'.ing[i], gen) <=> Conflict(rr, i)
    <3>1. ASSUME NEW i \in spec.extra
          PROVE  additionalIngressHasGatewayConflict(publishAdditionalIngressAuthConditions(r)[i], rr.gen) <=> Conflict(rr, i)
      <4>1. i \in Ingresses /\ i # Default
        BY <1>2, <1>4, DefaultAssumption
      <4> QED
        BY <1>4, <4>1, PublishedConflict, Zenon
    <3> QED
      BY <1>1, <1>2, <3>1, Zenon
  <2> HIDE DEF r
  <2>2. LiveNow' = {Default} \cup {i \in spec.extra : ~additionalIngressHasGatewayConflict(status'.ing[i], gen)}
    BY <1>1 DEF LiveNow
  <2> QED
    BY <1>2, <1>4, <2>1, <2>2, Zenon DEF Live, Conflict
<1> HIDE DEF r
<1>6. Renderable => ModeNow = ModeOf(spec) /\ rr.mode = ModeOf(spec)
  BY <1>1, <1>2, Zenon DEF ModeKnown, Renderable, ModeNow, ModeOf, detectIngressMode, PassIsCurrent
<1>7. ASSUME NEW k \in Kinds, NEW t \in Targets, <<k, t>> \in rr.want
      PROVE  Own(k, t) /\ obj[k][t].val = DesiredValue(k, t)
  BY <1>1, <1>2, <1>7, Zenon DEF PassIsDeployed
<1>8. ASSUME Renderable, NEW t \in Live(rr) PROVE Own("Gateway", t) /\ Own("EnvoyFilter", t)
  BY <1>1, <1>2, <1>4, <1>7, <1>8, Zenon DEF PassIsCurrent, PassIsPrepared, Kinds
<1>9. ASSUME Renderable PROVE obj["Gateway"][Default].val.mode = ModeNow
  <2>1. obj["Gateway"][Default].val = DesiredValue("Gateway", Default)
    BY <1>1, <1>2, <1>4, <1>7, <1>9, Zenon DEF PassIsCurrent, Kinds
  <2> QED
    BY <1>6, <1>9, <2>1, Zenon DEF DesiredValue, Blank
<1>10. ASSUME Renderable PROVE Own("Route", Default) <=> ModeNow = "OcpRoute"
  <2>1. "Route" \in Kinds \ {"Secret"} /\ Default \in Targets
    BY DEF Kinds, Targets
  <2>2. Own("Route", Default) => ModeOf(spec) = "OcpRoute"
    BY <1>1, <1>2, <1>4, <2>1, NothingCollected, Zenon
  <2>3. ModeOf(spec) = "OcpRoute" => Own("Route", Default)
    BY <1>1, <1>2, <1>6, <1>7, <1>10, <2>1, Zenon DEF PassIsCleaned
  <2> QED
    BY <1>6, <1>10, <2>2, <2>3
<1>11. ASSUME Renderable, ProxyDesired(spec), NEW t \in Live(rr) PROVE ProxySettled(t)
  <2>1. ProxyPrepared(t) /\ t \in Targets
    BY <1>1, <1>2, <1>3, <1>4, <1>11, Zenon DEF PassIsPrepared
  <2>2. /\ <<"Secret", t>> \in rr.want /\ <<"Deployment", t>> \in rr.want /\ <<"NetworkPolicy", t>> \in rr.want
        /\ getGatewayAuthenticationMode(spec) = "OIDC" => rr.creds[t].client = cluster.client[t]
    BY <2>1, Zenon DEF ProxyPrepared
  <2>3. /\ Own("Secret", t) /\ obj["Secret"][t].val = DesiredValue("Secret", t)
        /\ Own("Deployment", t) /\ obj["Deployment"][t].val = DesiredValue("Deployment", t)
        /\ Own("NetworkPolicy", t)
    BY <1>7, <2>1, <2>2, Zenon DEF Kinds
  <2>4. DesiredValue("Secret", t) = rr.creds[t]
    BY DEF DesiredValue
  <2>5. DesiredValue("Deployment", t) = [rr.creds[t] EXCEPT !.ca = IF spec.ca THEN cluster.ca ELSE 0]
    BY <1>2 DEF DesiredValue
  <2>6. rr.creds[t] \in Values
    BY <2>1, Zenon DEF Types, Passes
  <2>7. /\ DesiredValue("Deployment", t).client = rr.creds[t].client
        /\ DesiredValue("Deployment", t).key = rr.creds[t].key
        /\ DesiredValue("Deployment", t).ca = IF spec.ca THEN cluster.ca ELSE 0
    BY <2>5, <2>6, Zenon DEF Values
  <2> QED
    BY <2>2, <2>3, <2>4, <2>7, Zenon DEF ProxySettled
<1>12. ASSUME NEW k \in Kinds \ {"Secret"}, NEW i \in Ingresses \ spec.extra PROVE ~Own(k, i)
  <2>1. i \in Targets /\ i # Default
    BY DefaultAssumption, Zenon DEF Targets
  <2> QED
    BY <1>1, <1>2, <1>4, <2>1, NothingCollected, Zenon
<1>13. ASSUME ~ProxyDesired(spec), NEW t \in Targets, NEW k \in {"Deployment", "NetworkPolicy"}
       PROVE  obj[k][t].owner \notin {"own", "legacy"}
  <2>1. CASE t \in {Default} \cup spec.extra
    BY <1>1, <1>2, <1>13, <2>1, Zenon DEF PassIsCleaned
  <2>2. CASE t \notin {Default} \cup spec.extra
    <3>1. t \in Ingresses \ spec.extra /\ t # Default /\ k \in Kinds \ {"Secret"}
      BY <2>2 DEF Targets, Kinds
    <3>2. ~Own(k, t) /\ OriginOf(k, t)
      BY <1>12, <3>1, Zenon DEF Origin
    <3> QED
      BY <3>1, <3>2, Zenon DEF OriginOf, Own
  <2> QED
    BY <2>1, <2>2, Zenon
<1>14. platform = "OpenShift" => (cluster.redirects <=> cluster.dashboard)
  BY <1>1, <1>2, Zenon DEF RedirectsFollow
<1>15. DOMAIN obj = Kinds
  BY Zenon DEF Types, ObjectsTyped
<1>16. /\ LiveNow' = Live(rr) /\ ModeNow' = ModeNow /\ (Renderable' <=> Renderable)
       /\ (ProxyDesired(spec)' <=> ProxyDesired(spec)) /\ \A t \in Targets : ProxySettled(t)' <=> ProxySettled(t)
  <2>1. ModeNow' = ModeNow /\ (Renderable' <=> Renderable) /\ (ProxyDesired(spec)' <=> ProxyDesired(spec))
    BY <1>1, SameSettings DEF ModeNow, detectIngressMode
  <2>2. \A t \in Targets : ProxySettled(t)' <=> ProxySettled(t)
    BY <1>1, Zenon DEF ProxySettled, Own, getGatewayAuthenticationMode
  <2> QED
    BY <1>5, <2>1, <2>2
<1>17. RestSettled'
  <2>1. ASSUME Renderable'
        PROVE  /\ \A t \in LiveNow' : Own("Gateway", t)' /\ Own("EnvoyFilter", t)'
               /\ obj'["Gateway"][Default].val.mode = ModeNow'
               /\ Own("Route", Default)' <=> ModeNow' = "OcpRoute"
               /\ \A t \in LiveNow' : ProxyDesired(spec)' => ProxySettled(t)'
    <3>1. Renderable
      BY <1>16, <2>1, Zenon
    <3>2. \A t \in LiveNow' : Own("Gateway", t)' /\ Own("EnvoyFilter", t)'
      BY <1>1, <1>8, <1>16, <3>1, Zenon DEF Own
    <3>3. obj'["Gateway"][Default].val.mode = ModeNow' /\ (Own("Route", Default)' <=> ModeNow' = "OcpRoute")
      BY <1>1, <1>9, <1>10, <1>16, <3>1, Zenon DEF Own
    <3>4. \A t \in LiveNow' : ProxyDesired(spec)' => ProxySettled(t)'
      BY <1>4, <1>11, <1>16, <3>1, Zenon
    <3> QED
      BY <3>2, <3>3, <3>4, Zenon
  <2> QED
    BY <2>1, Zenon DEF RestSettled
<1>18. Settled'
  <2>1. /\ status'.gen = gen' /\ DOMAIN obj' = Kinds
        /\ \A k \in Kinds, i \in Ingresses \ spec'.extra : k = "Secret" \/ obj'[k][i].owner # "own"
    BY <1>1, <1>2, <1>3, <1>12, <1>15, Zenon DEF Own
  <2>2. ~ProxyDesired(spec)' => \A t \in Targets :
          {obj'["Deployment"][t].owner, obj'["NetworkPolicy"][t].owner} \cap {"own", "legacy"} = {}
    <3>1. ASSUME ~ProxyDesired(spec)', NEW t \in Targets
          PROVE  /\ obj'["Deployment"][t].owner \notin {"own", "legacy"}
                 /\ obj'["NetworkPolicy"][t].owner \notin {"own", "legacy"}
      BY <1>1, <1>13, <1>16, <3>1, Zenon
    <3> QED
      BY <3>1, Zenon
  <2>3. platform' = "OpenShift" => (cluster'.redirects <=> cluster'.dashboard)
    BY <1>1, <1>14, Zenon
  <2> QED
    BY <1>17, <2>1, <2>2, <2>3, Zenon DEF Settled, Own, DashboardRedirectsWanted
<1> QED
  BY <1>18, Zenon DEF Settled, RestSettled, ModeNow, LiveNow, ProxySettled, GatewaySettled

LEMMA FinishCalm ==
  ASSUME Types, PassInv, Origin, Calm, finish
  PROVE  SettledInv'
<1>1. CASE queued' = TRUE
  BY <1>1, StillQueued
<1>2. CASE queued' # TRUE
  <2> DEFINE r == syncAdditionalIngressReadiness(rr)
  <2>1. ~queued /\ pc = "status" /\ pc' = "idle" /\ UNCHANGED <<platform, cluster, spec>>
    BY <1>2, FinishStatus, FinishResult, Zenon
  <2>2. ModeKnown
    BY <2>1, CalmPass
  <2>3. ModeKnown'
    BY <2>1, <2>2, SameSettings, Zenon DEF ModeKnown
  <2>4. Calm'
    BY <2>1, <2>3, Zenon DEF Calm, PassIsCurrent, PassIsPrepared, PassIsCleaned, RedirectsFollow, PassIsDeployed
  <2> QED
    BY <1>2, <2>4, FinishReady, FinishSettled DEF SettledInv
<1> QED
  BY <1>1, <1>2, Zenon

(* What nobody tells the controller of: other people's objects, and what the
   spec makes no use of. *)
Quiet ==
  /\ UNCHANGED <<platform, spec, gen, status, pc, rr, queued>>
  /\ cluster'.auth = cluster.auth /\ cluster'.svc = cluster.svc
  /\ cluster'.dashboard = cluster.dashboard /\ cluster'.redirects = cluster.redirects
  /\ spec.oidc => cluster'.client = cluster.client
  /\ spec.ca => cluster'.ca = cluster.ca
  /\ \A k \in Kinds, t \in Targets :
       \/ obj'[k][t] = obj[k][t]
       \/ {obj[k][t].owner, obj'[k][t].owner} \subseteq {"none", "foreign"}

LEMMA EnvironmentIsQuiet ==
  ASSUME Types, queued' # TRUE,
         \/ Restart \/ (\E s \in SpecEdits : EditSpec(s)) \/ ChangeCluster \/ ForeignObject
         \/ DeleteOwned \/ Progress \/ Provider
  PROVE  Quiet
<1>0. obj \in [Kinds -> [Targets -> Objects(gen)]] /\ cluster \in Clusters /\ queued \in BOOLEAN
  BY Zenon DEF Types, ObjectsTyped
<1>1. ChangeCluster \/ ForeignObject
  BY Zenon DEF Restart, EditSpec, DeleteOwned, Progress, Provider
<1>2. CASE ChangeCluster
  <2>1. UNCHANGED <<platform, spec, gen, status, obj, pc, rr>> /\ ChangeOthers
    BY <1>2, Zenon DEF ChangeCluster
  <2>2. /\ ~queued /\ queued' = FALSE
        /\ \/ (\E t \in Targets, v \in 0..2 : cluster' = [cluster EXCEPT !.client[t] = v]) /\ ~spec.oidc
           \/ (\E v \in 0..2 : cluster' = [cluster EXCEPT !.ca = v]) /\ ~spec.ca
           \/ cluster' = [cluster EXCEPT !.router = 2]
    BY <1>0, <2>1, Zenon DEF ChangeOthers, IsGatewayReferencedSecret
  <2>3. /\ cluster'.auth = cluster.auth /\ cluster'.svc = cluster.svc
        /\ cluster'.dashboard = cluster.dashboard /\ cluster'.redirects = cluster.redirects
        /\ spec.oidc => cluster'.client = cluster.client
        /\ spec.ca => cluster'.ca = cluster.ca
    BY <1>0, <2>2 DEF Clusters
  <2> QED
    BY <1>0, <2>1, <2>2, <2>3, Zenon DEF Quiet
<1>3. CASE ForeignObject
  <2>1. UNCHANGED <<platform, cluster, spec, gen, status, queued, pc, rr>>
    BY <1>3, Zenon DEF ForeignObject
  <2>2. PICK k \in Kinds, j \in Targets :
          \/ ~Exists(k, j) /\ \E o \in Foreign(k) : obj' = [obj EXCEPT ![k][j] = o]
          \/ obj[k][j].owner = "foreign" /\ obj' = [obj EXCEPT ![k][j] = Absent]
    BY <1>3, Zenon DEF ForeignObject
  <2>3. obj[k][j].owner \in {"none", "foreign"}
    BY <2>2, Zenon DEF Exists
  <2>4. PICK o : obj' = [obj EXCEPT ![k][j] = o] /\ o.owner \in {"none", "foreign"}
    <3>1. Absent.owner = "none" /\ 0 \in Nat
      BY DEF Absent
    <3> QED
      BY <2>2, <3>1, ForeignType, Zenon
  <2>5. obj'[k][j] = o /\ \A c \in Kinds, t \in Targets : c # k \/ t # j => obj'[c][t] = obj[c][t]
    BY <1>0, <2>4
  <2>6. \A c \in Kinds, t \in Targets :
          obj'[c][t] = obj[c][t] \/ {obj[c][t].owner, obj'[c][t].owner} \subseteq {"none", "foreign"}
    BY <2>3, <2>4, <2>5, Zenon
  <2> QED
    BY <2>1, <2>6, Zenon DEF Quiet
<1> QED
  BY <1>1, <1>2, <1>3

LEMMA QuietObjects ==
  ASSUME Quiet, NEW k \in Kinds, NEW t \in Targets
  PROVE  /\ Own(k, t)' <=> Own(k, t)
         /\ Own(k, t) => obj'[k][t] = obj[k][t]
         /\ obj'[k][t].owner \in {"own", "legacy"} <=> obj[k][t].owner \in {"own", "legacy"}
<1>1. \/ obj'[k][t] = obj[k][t]
      \/ obj[k][t].owner \in {"none", "foreign"} /\ obj'[k][t].owner \in {"none", "foreign"}
  BY DEF Quiet
<1> QED
  BY <1>1, Zenon DEF Own

(* A controller that was told nothing has missed nothing. *)
LEMMA QuietCalm ==
  ASSUME Types, Origin, SettledInv, ~queued, Quiet
  PROVE  Calm'
<1>0. /\ UNCHANGED <<platform, spec, gen, status, pc, rr, queued>>
      /\ cluster'.auth = cluster.auth /\ cluster'.svc = cluster.svc
      /\ cluster'.dashboard = cluster.dashboard /\ cluster'.redirects = cluster.redirects
      /\ spec.oidc => cluster'.client = cluster.client
      /\ spec.ca => cluster'.ca = cluster.ca
  BY Zenon DEF Quiet
<1>1. Calm /\ ModeKnown /\ PassIsCurrent /\ PassIsPrepared /\ PassIsCleaned /\ RedirectsFollow /\ PassIsDeployed
  BY DEF SettledInv, Calm
<1>2. ModeKnown'
  BY <1>0, <1>1, SameSettings, Zenon DEF ModeKnown
<1>3. (Live(rr))' = Live(rr)
  BY <1>0, Zenon DEF Live, Conflict
<1>4. PassIsCurrent'
  BY <1>0, <1>1, <1>3, SameSettings, Zenon DEF PassIsCurrent
<1>5. ASSUME NEW t, ProxyDesired(spec), ProxyPrepared(t) PROVE ProxyPrepared(t)'
  <2>1. getGatewayAuthenticationMode(spec) = "OIDC" => cluster'.client = cluster.client
    BY <1>0, <1>5, Zenon DEF ProxyDesired, OIDCWithoutConfig
  <2> QED
    BY <1>0, <1>5, <2>1, SameSettings, Zenon DEF ProxyPrepared
<1>6. PassIsPrepared'
  BY <1>0, <1>1, <1>3, <1>5, SameSettings, Zenon DEF PassIsPrepared
<1>7. PassIsCleaned'
  <2>1. {Default} \cup spec.extra \subseteq Targets
    BY Zenon DEF Types, GatewayConfigSpec, Targets
  <2>2. \A t \in Targets, k \in {"Deployment", "NetworkPolicy"} :
          obj'[k][t].owner \in {"own", "legacy"} <=> obj[k][t].owner \in {"own", "legacy"}
    BY QuietObjects, Zenon DEF Kinds
  <2> QED
    BY <1>0, <1>1, <2>1, <2>2, SameSettings, Zenon DEF PassIsCleaned
<1>8. RedirectsFollow'
  BY <1>0, <1>1, Zenon DEF RedirectsFollow
<1>9. PassIsDeployed'
  <2>1. SUFFICES ASSUME pc = "status", NEW k \in Kinds, NEW t \in Targets, <<k, t>> \in rr.want
                 PROVE  Own(k, t)' /\ obj'[k][t].val = DesiredValue(k, t)'
    BY <1>0, Zenon DEF PassIsDeployed
  <2>2. Own(k, t) /\ obj[k][t].val = DesiredValue(k, t) /\ rr.spec = spec
    BY <1>1, <2>1, CalmPass, Zenon DEF PassIsDeployed
  <2>3. DesiredValue(k, t)' = DesiredValue(k, t)
    BY <1>0, <2>2 DEF DesiredValue
  <2> QED
    BY <2>2, <2>3, QuietObjects, Zenon
<1> QED
  BY <1>2, <1>4, <1>6, <1>7, <1>8, <1>9 DEF Calm

LEMMA QuietSettled ==
  ASSUME Types, Types', SettledInv, ~queued, Quiet, pc = "idle"
  PROVE  GatewaySettled' /\ ReadyIsTruthful'
<1>0. /\ UNCHANGED <<platform, spec, gen, status, pc, rr, queued>>
      /\ cluster'.auth = cluster.auth /\ cluster'.svc = cluster.svc
      /\ cluster'.dashboard = cluster.dashboard /\ cluster'.redirects = cluster.redirects
      /\ spec.oidc => cluster'.client = cluster.client
      /\ spec.ca => cluster'.ca = cluster.ca
  BY Zenon DEF Quiet
<1>1. Settled
  BY Zenon DEF SettledInv, GatewaySettled, Rest, Settled, RestSettled, ModeNow, LiveNow, ProxySettled
<1>2. {Default} \cup spec.extra \subseteq Targets /\ LiveNow \subseteq Targets /\ Ingresses \subseteq Targets
  BY Zenon DEF Types, GatewayConfigSpec, Targets, LiveNow
<1>3. DOMAIN obj = Kinds /\ DOMAIN obj' = Kinds
  BY Zenon DEF Types, ObjectsTyped
<1>4. /\ LiveNow' = LiveNow /\ ModeNow' = ModeNow /\ (Renderable' <=> Renderable)
      /\ ProxyDesired(spec)' <=> ProxyDesired(spec)
  BY <1>0, SameSettings DEF ModeNow, detectIngressMode, LiveNow
<1>5. \A k \in Kinds, t \in Targets :
        (Own(k, t)' <=> Own(k, t)) /\ (Own(k, t) => obj'[k][t] = obj[k][t])
  BY QuietObjects, Zenon
<1>6. ASSUME NEW t \in Targets, ProxyDesired(spec), ProxySettled(t) PROVE ProxySettled(t)'
  <2>1. getGatewayAuthenticationMode(spec) = "OIDC" => cluster'.client = cluster.client
    BY <1>0, <1>6, Zenon DEF ProxyDesired, OIDCWithoutConfig
  <2>2. /\ Own("Deployment", t)' /\ Own("Secret", t)' /\ Own("NetworkPolicy", t)'
        /\ obj'["Deployment"][t] = obj["Deployment"][t] /\ obj'["Secret"][t] = obj["Secret"][t]
    BY <1>5, <1>6, Zenon DEF ProxySettled, Kinds
  <2>3. (IF spec.ca THEN cluster.ca ELSE 0)' = IF spec.ca THEN cluster.ca ELSE 0
    BY <1>0, Zenon
  <2> QED
    BY <1>0, <1>6, <2>1, <2>2, <2>3, SameSettings, Zenon DEF ProxySettled
<1>7. RestSettled'
  <2> SUFFICES ASSUME Renderable
               PROVE  /\ \A t \in LiveNow : Own("Gateway", t)' /\ Own("EnvoyFilter", t)'
                      /\ obj'["Gateway"][Default].val.mode = ModeNow
                      /\ Own("Route", Default)' <=> ModeNow = "OcpRoute"
                      /\ \A t \in LiveNow : ProxyDesired(spec) => ProxySettled(t)'
    BY <1>4, Zenon DEF RestSettled
  <2>1. /\ \A t \in LiveNow : Own("Gateway", t) /\ Own("EnvoyFilter", t)
        /\ obj["Gateway"][Default].val.mode = ModeNow
        /\ Own("Route", Default) <=> ModeNow = "OcpRoute"
        /\ \A t \in LiveNow : ProxyDesired(spec) => ProxySettled(t)
    BY <1>1, Zenon DEF Settled, RestSettled
  <2>2. Default \in LiveNow /\ {"Gateway", "EnvoyFilter", "Route"} \subseteq Kinds
    BY Zenon DEF LiveNow, Kinds
  <2> QED
    BY <1>2, <1>5, <1>6, <2>1, <2>2, Zenon
<1>8. Settled'
  <2>1. \A k \in Kinds, i \in Ingresses \ spec.extra : k = "Secret" \/ ~Own(k, i)'
    BY <1>1, <1>2, <1>3, <1>5, Zenon DEF Settled
  <2>2. ~ProxyDesired(spec) => \A t \in Targets :
          {obj'["Deployment"][t].owner, obj'["NetworkPolicy"][t].owner} \cap {"own", "legacy"} = {}
    <3>1. ASSUME ~ProxyDesired(spec), NEW t \in Targets
          PROVE  /\ obj["Deployment"][t].owner \notin {"own", "legacy"}
                 /\ obj["NetworkPolicy"][t].owner \notin {"own", "legacy"}
      BY <1>1, <3>1, Zenon DEF Settled
    <3>2. ASSUME ~ProxyDesired(spec), NEW t \in Targets
          PROVE  /\ obj'["Deployment"][t].owner \notin {"own", "legacy"}
                 /\ obj'["NetworkPolicy"][t].owner \notin {"own", "legacy"}
      BY <3>1, <3>2, QuietObjects, Zenon DEF Kinds
    <3> QED
      BY <3>2, Zenon
  <2>3. platform' = "OpenShift" => (cluster'.redirects <=> cluster'.dashboard)
    BY <1>0, <1>1, Zenon DEF Settled, DashboardRedirectsWanted
  <2>4. status'.gen = gen'
    BY <1>0, <1>1, Zenon DEF Settled
  <2> QED
    BY <1>0, <1>3, <1>4, <1>7, <2>1, <2>2, <2>3, <2>4, Zenon DEF Settled, DashboardRedirectsWanted
<1>9. GatewaySettled'
  BY <1>8, Zenon DEF GatewaySettled, Rest, Settled, RestSettled, ModeNow, LiveNow, ProxySettled
<1>10. ReadyIsTruthful'
  <2> SUFFICES ASSUME status.ready = "True"
               PROVE  /\ Own("Gateway", Default)' /\ obj'["Gateway"][Default].ok
                      /\ \A i \in spec.extra, k \in {"Gateway", "Route", "Deployment"} : Own(k, i)' /\ obj'[k][i].ok
    BY <1>0, Zenon DEF ReadyIsTruthful
  <2>1. /\ Own("Gateway", Default) /\ obj["Gateway"][Default].ok
        /\ \A i \in spec.extra, k \in {"Gateway", "Route", "Deployment"} : Own(k, i) /\ obj[k][i].ok
    BY Zenon DEF SettledInv, ReadyIsTruthful, Rest
  <2>2. {"Gateway", "Route", "Deployment"} \subseteq Kinds
    BY DEF Kinds
  <2> QED
    BY <1>2, <1>5, <2>1, <2>2, Zenon
<1> QED
  BY <1>9, <1>10

LEMMA SettledInit == Init => SettledInv
BY SMT, SMTT(60) DEF Init, SettledInv, Calm, GatewaySettled, ReadyIsTruthful, Rest

LEMMA SettledStep ==
  Types /\ Types' /\ PassInv /\ Origin /\ SettledInv /\ [Next]_vars => SettledInv'
<1> SUFFICES ASSUME Types, Types', PassInv, Origin, SettledInv, [Next]_vars, queued' # TRUE PROVE SettledInv'
  BY StillQueued, Zenon
<1>0. Calm
  BY DEF SettledInv
<1>1. CASE Pass
  <2>1. CASE finish
    BY <1>0, <2>1, FinishCalm
  <2>2. CASE createGatewayInfrastructure
    BY <1>0, <2>2, InfrastructureCalm
  <2>3. CASE prepareAuthProxies
    BY <1>0, <2>3, PrepareCalm
  <2>4. CASE cleanupAndRoutes
    BY <1>0, <2>4, CleanupCalm
  <2>5. CASE deploy
    BY <1>0, <2>5, DeployCalm
  <2> QED
    BY <1>1, <2>1, <2>2, <2>3, <2>4, <2>5 DEF Pass
<1>2. CASE Quiet
  <2>1. ~queued /\ pc' = pc
    BY <1>2, Zenon DEF Quiet, Types
  <2>2. Calm'
    BY <1>2, <2>1, QuietCalm
  <2>3. CASE pc = "idle"
    BY <1>2, <2>1, <2>2, <2>3, QuietSettled DEF SettledInv
  <2>4. CASE pc # "idle"
    BY <2>1, <2>2, <2>4, NotAtRest
  <2> QED
    BY <2>3, <2>4, Zenon
<1>3. CASE UNCHANGED vars
  BY <1>2, <1>3, Zenon DEF Quiet, vars
<1> QED
  BY <1>1, <1>2, <1>3, EnvironmentIsQuiet DEF Next

LEMMA SettledHolds == Spec => [](Types /\ PassInv /\ Origin /\ SettledInv)
BY TypesInit, TypesStep, PassInit, PassStep, OriginInit, OriginStep, SettledInit, SettledStep, PTL DEF Spec

(* SettlesAsAsked: whenever the controller has nothing queued, after any history
   of spec edits, cluster changes, foreign objects, deletions, failed steps and
   restarts, the cluster is what the current GatewayConfig asks for. *)
THEOREM SettlesAsAsked == Spec => []GatewaySettled
BY SettledHolds, PTL DEF SettledInv

(* ReadyIsNoLie: a GatewayConfig at rest that says Ready has every Gateway
   accepted and every additional ingress routed and served by a proxy. *)
THEOREM ReadyIsNoLie == Spec => []ReadyIsTruthful
BY SettledHolds, PTL DEF SettledInv
=============================================================================
