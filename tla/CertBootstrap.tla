--------------------------- MODULE CertBootstrap ---------------------------
(***************************************************************************)
(* The cloud manager's PKI: with cert-manager's APIs there, a self-signed  *)
(* issuer, the root CA, the issuer backed by it and the certificate of the *)
(* operator's webhook are deployed with every pass.  cert-manager belongs  *)
(* to somebody else: its APIs come and go at any time.  One that is there  *)
(* is established and serves its version; what the check makes of others   *)
(* is in Preconditions.                                                    *)
(*                                                                         *)
(* An object is the generation it was applied for, 0 when it is absent.    *)
(***************************************************************************)
EXTENDS Preconditions

CONSTANT
    PKIEvents       \* bound on what users and cert-manager do

VARIABLE pki

PKIObjects == {"selfsigned", "rootCA", "caIssuer", "webhookCert"}
KindOf(o) == IF o \in {"selfsigned", "caIssuer"} THEN "ClusterIssuer" ELSE "Certificate"

requiredAPIList == {"Certificate", "Issuer", "ClusterIssuer"}

certManagerRequiredConditions ==
    [c \in {"controllerAvailable", "controllerDegraded"} |-> IF c = "controllerAvailable" THEN "True" ELSE "False"]

\* Degraded conditions other than those that are required to be False.
certManagerConditionFilter == {<<"staticResourcesDegraded", "True">>}

HealthConditions(cr) ==
    LET c(t, s) == [type |-> t, status |-> s]
    IN  CASE cr = "ok"       -> <<c("controllerAvailable", "True"), c("controllerDegraded", "False")>>
          [] cr = "degraded" -> <<c("controllerAvailable", "True"), c("controllerDegraded", "False"),
                                  c("staticResourcesDegraded", "True")>>
          [] OTHER           -> <<c("controllerAvailable", "True")>>

\* The health CR exists on OpenShift only: without its API there is no check.
operatorHealthPreCondition(p, read) ==
    [type |-> "DependenciesAvailable", severity |-> "Error", stop |-> FALSE,
     skip |-> IF p.health = "noAPI" THEN "skip" ELSE "no",
     result |-> CheckOperatorHealth(
        [filter |-> certManagerConditionFilter, required |-> certManagerRequiredConditions,
         requireCR |-> TRUE, noMatchAsUnknown |-> TRUE],
        [read |-> IF ~read THEN "error" ELSE IF p.health = "none" THEN "none" ELSE "found",
         conditions |-> HealthConditions(p.health)])]

RequiredAPIs(p) ==
    LET crd(k) == [read |-> IF k \in p.crds THEN "found" ELSE "none", terminating |-> FALSE,
                   established |-> TRUE, versions |-> [v \in {"v1"} |-> TRUE]]
    IN  CheckRequiredAPIs(<<crd("Certificate"), crd("Issuer"), crd("ClusterIssuer")>>, "v1")

preConditions(p, read) ==
    <<[type |-> "DependenciesAvailable", severity |-> "Error", stop |-> FALSE, skip |-> "no", result |-> RequiredAPIs(p)],
      operatorHealthPreCondition(p, read)>>

\* A mistake: what could not be found out is not asked again.
NoRetry(deps) == FALSE

requeueIfDependenciesIndeterminate(deps) == deps = "Unknown"

\* Nothing is deployed until both kinds can be.
NewBootstrapAction(p) == IF {"ClusterIssuer", "Certificate"} \subseteq p.crds THEN PKIObjects ELSE {}

\* A pass begins: the checks and what will be deployed; nothing stops it.
PKIBegin ==
    \E read \in IF pki.faults > 0 THEN BOOLEAN ELSE {TRUE} :
      LET deps == RunAll(preConditions(pki, read))["DependenciesAvailable"].status
      IN  /\ pki.pc = "idle" /\ pki.queued
          /\ pki' = [pki EXCEPT !.pc = "deploy", !.deps = deps, !.resources = NewBootstrapAction(pki),
                                !.queued = requeueIfDependenciesIndeterminate(deps), !.run = pki.gen,
                                !.generated = pki.run # pki.gen, !.faults = IF read THEN @ ELSE @ - 1]

\* Objects whose API is gone in the meantime cannot be applied.
PKIDeploy ==
    LET refused == {o \in pki.resources : KindOf(o) \notin pki.crds}
        done    == [pki EXCEPT !.obj = [o \in PKIObjects |-> IF o \in pki.resources \ refused THEN pki.run ELSE @[o]],
                               !.watched = @ \cup (pki.crds \cap {"ClusterIssuer", "Certificate"})]
    IN  /\ pki.pc = "deploy"
        /\ pki' = IF refused = {} THEN [done EXCEPT !.pc = "gc"]
                  ELSE [done EXCEPT !.pc = "idle", !.queued = TRUE]

\* A mistake: nothing is protected.
NothingProtected == {}

BootstrapProtectedObjects == {"selfsigned", "rootCA", "caIssuer"}

PKICollect ==
    /\ pki.pc = "gc"
    /\ pki' = [pki EXCEPT !.pc = "idle",
                  !.obj = [o \in PKIObjects |-> IF pki.generated /\ @[o] \notin {0, pki.run} /\ o \notin BootstrapProtectedObjects
                                                THEN 0 ELSE @[o]]]

-----------------------------------------------------------------------------
\* Users and cert-manager

PKIEvent(p, wakes) == [p EXCEPT !.events = @ + 1, !.queued = @ \/ wakes]
PKIMay == pki.events < PKIEvents

\* A mistake: the API the certificates come with stands for all of them.
CertificateOnly == {"Certificate", "health"}

watchedCRDs == requiredAPIList \cup {"health"}

\* The objects of an API that is removed go with it.
EditAPIs ==
    PKIMay /\ \E k \in requiredAPIList :
       pki' = PKIEvent(IF k \in pki.crds
                       THEN [pki EXCEPT !.crds = @ \ {k}, !.obj = [o \in PKIObjects |-> IF KindOf(o) = k THEN 0 ELSE @[o]]]
                       ELSE [pki EXCEPT !.crds = @ \cup {k}], k \in watchedCRDs)

EditHealth ==
    PKIMay /\ \E h \in {"noAPI", "none", "ok", "degraded", "partial"} \ {pki.health} :
       pki' = PKIEvent([pki EXCEPT !.health = h], "health" \in watchedCRDs)

\* Only the four objects by name are watched, once their API is known.
DeletePKI ==
    PKIMay /\ \E o \in PKIObjects :
       pki.obj[o] # 0 /\ pki' = PKIEvent([pki EXCEPT !.obj[o] = 0], KindOf(o) \in pki.watched)

NewGeneration == PKIMay /\ pki' = PKIEvent([pki EXCEPT !.gen = @ + 1], TRUE)

PKIInit ==
    pki = [gen |-> 1, crds |-> {}, health |-> "noAPI", obj |-> [o \in PKIObjects |-> 0], deps |-> "Unknown",
           pc |-> "idle", queued |-> TRUE, resources |-> {}, run |-> 0, generated |-> FALSE, watched |-> {},
           faults |-> 1, events |-> 0]

PKINext == PKIBegin \/ PKIDeploy \/ PKICollect \/ EditAPIs \/ EditHealth \/ DeletePKI \/ NewGeneration

-----------------------------------------------------------------------------
\* Properties

PKIRest == pki.pc = "idle" /\ ~pki.queued

\* At rest the chain is complete whenever cert-manager's APIs are there, in
\* whatever order they came, and a verdict that the dependencies are available,
\* or that they are not, is the right one.
PKISettled ==
    PKIRest =>
    /\ {"ClusterIssuer", "Certificate"} \subseteq pki.crds => \A o \in PKIObjects : pki.obj[o] # 0
    /\ pki.deps # "Unknown" =>
         (pki.deps = "True" <=> requiredAPIList \subseteq pki.crds /\ pki.health \in {"noAPI", "ok"})

\* What could not be found out is found out later: no pass leaves an unknown
\* verdict behind without being repeated.
PKINotLeftUnknown == PKIRest => pki.deps # "Unknown"

\* The issuers and the root CA, which everything issued so far is trusted
\* through, are never removed by the manager, also not in a pass that finds
\* only a part of cert-manager's APIs.
RootOfTrustKept ==
    [pki'.events = pki.events => \A o \in PKIObjects \ {"webhookCert"} : pki.obj[o] # 0 => pki'.obj[o] # 0]_pki

=============================================================================
