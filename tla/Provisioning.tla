---------------------------- MODULE Provisioning ----------------------------
(***************************************************************************)
(* Runlevel-ordered provisioning of one platform.                          *)
(*                                                                         *)
(* The Platform ("modules") controller cleans up disabled modules, walks   *)
(* the runlevel batches, checks the upgrade gates, deploys the module      *)
(* operators of the batches it passed and collects what is stale.  As it   *)
(* passes a batch it marks the runlevel cleared in an in-memory tracker,   *)
(* which opens the deploy gate of the in-tree component controllers.       *)
(* These controllers run concurrently with it, with the module operators   *)
(* (external), with users and administrators, and across restarts and      *)
(* upgrades of the operator.                                               *)
(*                                                                         *)
(* Time is kept as ages: stuck[o] is how long runlevel o has been stuck,   *)
(* counted up to its timeout, so no bound on the clock is needed.          *)
(***************************************************************************)
EXTENDS Integers, FiniteSets

CONSTANTS
    Modules,        \* out-of-tree modules (their operators are deployed)
    Components,     \* in-tree components (they have controllers here)
    Order,          \* runlevel order of every node
    Timeout,        \* timeout policy of every runlevel order, 0: block forever
    MaxVersion,     \* last operator version (bounds the upgrades)
    GateVersion,    \* the version each admin-ack gate is declared for
    ChartGates,     \* the gates each module's chart carries; the rest are in-tree
    OrderingDisabled \* the flag that turns runlevel ordering off

Nodes == Modules \cup Components
Orders == {Order[n] : n \in Nodes}
Gates == DOMAIN GateVersion
Versions == 1..MaxVersion

ASSUME NodesAssumption == Modules \cap Components = {}
ASSUME OrderAssumption == Order \in [Nodes -> Nat]
ASSUME TimeoutAssumption == Timeout \in [Orders -> Nat]
ASSUME VersionAssumption == MaxVersion \in Nat \ {0}
ASSUME GatesAssumption ==
    /\ GateVersion \in [Gates -> Versions]
    /\ ChartGates \in [Modules -> SUBSET Gates]
ASSUME FlagAssumption == OrderingDisabled \in BOOLEAN

NoCR == -1          \* there is no CR
Untracked == 0      \* the CR has no platform entry in .status.releases
None == 0           \* nothing is deployed, no version is recorded
NotStuck == -1      \* no timestamp is recorded

VARIABLES
    version,        \* version of the running operator
    enabled,        \* modules with managementState Managed in the Platform CR
    reported,       \* per node: NoCR, Untracked or the platform release it reports
    deployed,       \* per node: None, or the version of its manifests on the cluster
    fresh,          \* modules whose resources carry the current version and generation
    acked,          \* gates set to "true" in odh-upgrade-acks
    tracker,        \* RunlevelTracker: version and clearedUpTo
    stuck,          \* StuckTracker: age of the timestamp of each runlevel
    pc,             \* where the Platform reconcile is
    rr,             \* its ReconciliationRequest
    rendered,       \* the module manifests of the last render (the render cache)
    progress,       \* condition ProvisioningProgress in the Platform status
    pending,        \* the Platform request is in the work queue
    timer,          \* ticks until RequeueAfter fires, 0 when not armed
    waived          \* history: nodes exempt from readiness when the walk last passed them

clusterVars == <<enabled, reported, deployed, fresh, acked>>
memoryVars == <<tracker, stuck, pc, rr, rendered, pending, timer>>
vars == <<version, clusterVars, memoryVars, progress, waived>>

ProgressReasons ==
    {"Unknown", "True", "AwaitingReadiness", "RunlevelTimeoutExceeded", "AdminAckRequired"}

\* The enablement the reconcile read, the batches left to walk, the entries timed
\* out in this walk, the modules whose manifests it collected, whether the render was
\* a new one, the requeue it asks for and the ProvisioningProgress it will write.
Request ==
    [modules: SUBSET Modules, todo: SUBSET Orders, timedOut: SUBSET Nodes,
     manifests: SUBSET Modules, generated: BOOLEAN, requeue: Nat,
     progress: ProgressReasons]

IdleRequest ==
    [modules |-> {}, todo |-> {}, timedOut |-> {}, manifests |-> {},
     generated |-> FALSE, requeue |-> 0, progress |-> "Unknown"]

TypeOK ==
    /\ version \in Versions
    /\ enabled \subseteq Modules
    /\ reported \in [Nodes -> {NoCR, Untracked} \cup Versions]
    /\ deployed \in [Nodes -> {None} \cup Versions]
    /\ fresh \subseteq Modules
    /\ acked \subseteq Gates
    /\ tracker \in [version: {None} \cup Versions, upTo: Nat]
    /\ stuck \in [Orders -> Nat \cup {NotStuck}]
    /\ pc \in {"idle", "walk", "deploy"}
    /\ rr \in Request
    /\ rendered \subseteq Modules
    /\ progress \in ProgressReasons
    /\ pending \in BOOLEAN
    /\ timer \in Nat
    /\ waived \subseteq Nodes

(***************************************************************************)
(* RunlevelTracker and StuckTracker                                        *)
(***************************************************************************)

EmptyTracker == [version |-> None, upTo |-> 0]

MarkClearedOnce(o) == IF tracker.version # version THEN [version |-> version, upTo |-> o] ELSE tracker

MarkCleared(o) ==
    IF tracker.version # version \/ o > tracker.upTo
    THEN [version |-> version, upTo |-> o]
    ELSE tracker

IsCleared(o) == tracker.version = version /\ o <= tracker.upTo

\* The age of the timestamp Since returns, recorded now when there is none.
Since(o) == IF stuck[o] = NotStuck THEN 0 ELSE stuck[o]

(***************************************************************************)
(* Readiness                                                               *)
(***************************************************************************)

ComponentIsReady(c) == reported[c] \in {NoCR, Untracked, version}

ModuleHasCR(m) == m \in rr.modules => reported[m] # NoCR

ModuleIsReady(m) == m \in rr.modules => reported[m] \in {Untracked, version}

IsReady(n) == IF n \in Components THEN ComponentIsReady(n) ELSE ModuleIsReady(n)

Below(o) == {n \in Nodes : Order[n] < o}

\* Entries of prior batches that hold back runlevel o when the API server fails
\* the readiness lookups of the nodes in errs.
NotReadyInPrev(o, errs) ==
    {n \in Below(o) \ rr.timedOut : n \in errs \/ ~IsReady(n)}

\* A node that gets past the readiness check although it may still run, or go on
\* to report, another version: timed out, disabled, or a module that never reported.
Exempt(n, timedOut) ==
    \/ n \in timedOut
    \/ n \in Modules /\ (n \notin rr.modules \/ reported[n] = Untracked)

(***************************************************************************)
(* The Platform controller                                                 *)
(***************************************************************************)

RequeueAfter(d) == IF d = 0 THEN timer ELSE IF timer = 0 \/ d < timer THEN d ELSE timer

Disabled == Modules \ enabled

\* Disabled modules whose CR is gone: their operator resources are deleted.
Removable == {m \in Disabled : reported[m] = NoCR}

\* Start of a reconcile: the Platform spec is read and cleanupDisabledModules runs.
\* A disabled module that still has a CR keeps its operator in the manifests.
StartReconcile ==
    /\ pc = "idle" /\ pending
    /\ pending' = FALSE
    /\ deployed' = [n \in Nodes |-> IF n \in Removable THEN None ELSE deployed[n]]
    /\ fresh' = fresh \ Removable
    /\ rr' = [IdleRequest EXCEPT !.modules = enabled, !.todo = Orders,
                                 !.manifests = Disabled \ Removable,
                                 !.progress = "True"]
    /\ pc' = "walk"
    /\ UNCHANGED <<version, enabled, reported, acked, tracker, stuck,
                   rendered, timer, progress, waived>>

\* An API error aborts the cleanup part-way; the request is retried.
StartReconcileFails ==
    /\ pc = "idle" /\ pending
    /\ \E gone \in SUBSET Removable :
          /\ deployed' = [n \in Nodes |-> IF n \in gone THEN None ELSE deployed[n]]
          /\ fresh' = fresh \ gone
    /\ UNCHANGED <<version, enabled, reported, acked, memoryVars, progress, waived>>

NextBatch(o) == o \in rr.todo /\ \A p \in rr.todo : o <= p
FirstBatch(o) == \A p \in Orders : o <= p

\* What provisionModules takes from the batch of runlevel o: its enabled modules.
Provisioned(o) == {m \in rr.modules : Order[m] = o}

\* The walk clears runlevel o and collects the manifests of its enabled modules.
ClearAndProcess(o, timedOut, condition) ==
    /\ tracker' = MarkCleared(o)
    /\ stuck' = IF FirstBatch(o) THEN stuck ELSE [stuck EXCEPT ![o] = NotStuck]
    /\ rr' = [rr EXCEPT !.todo = @ \ {o}, !.timedOut = timedOut, !.progress = condition,
                        !.manifests = @ \cup Provisioned(o)]
    /\ waived' = (waived \ Below(o)) \cup {n \in Below(o) : Exempt(n, timedOut)}
    /\ UNCHANGED <<version, clusterVars, pc, rendered, pending, timer, progress>>

WalkReady(o) ==
    /\ pc = "walk" /\ NextBatch(o)
    /\ FirstBatch(o) \/ OrderingDisabled \/ NotReadyInPrev(o, {}) = {}
    /\ ClearAndProcess(o, rr.timedOut, rr.progress)

\* The runlevel has been stuck for its timeout: advance past the stuck entries.
WalkTimedOut(o, errs) ==
    /\ pc = "walk" /\ NextBatch(o) /\ ~FirstBatch(o) /\ ~OrderingDisabled
    /\ NotReadyInPrev(o, errs) # {}
    /\ Timeout[o] > 0 /\ Since(o) >= Timeout[o]
    /\ ClearAndProcess(o, rr.timedOut \cup NotReadyInPrev(o, errs), "RunlevelTimeoutExceeded")

NoRemaining(o) == 0

\* Until the timeout; a runlevel without one asks for no requeue.
Remaining(o) == IF Timeout[o] > Since(o) THEN Timeout[o] - Since(o) ELSE 0

\* The runlevel is blocked: the walk ends here and asks for a requeue.
WalkBlocked(o, errs) ==
    /\ pc = "walk" /\ NextBatch(o) /\ ~FirstBatch(o) /\ ~OrderingDisabled
    /\ NotReadyInPrev(o, errs) # {}
    /\ ~(Timeout[o] > 0 /\ Since(o) >= Timeout[o])
    /\ stuck' = [stuck EXCEPT ![o] = Since(o)]
    /\ rr' = [rr EXCEPT !.todo = {}, !.progress = "AwaitingReadiness",
                        !.requeue = Remaining(o)]
    /\ UNCHANGED <<version, clusterVars, tracker, pc, rendered, pending, timer, progress,
                   waived>>

InTreeGates == Gates \ UNION {ChartGates[m] : m \in Modules}

\* Gates of this version, in-tree or extracted from the charts of ms.
GatesInForce(ms) ==
    {g \in InTreeGates \cup UNION {ChartGates[m] : m \in ms} : GateVersion[g] = version}

GatesOpenWithoutCharts == rr.modules = {} \/ GatesInForce({}) \subseteq acked

\* checkUpgradeGates lets the chain go on; it looks at no gate while every module is
\* disabled.
GatesOpen == rr.modules = {} \/ GatesInForce(rr.manifests) \subseteq acked

\* After the walk the manifests are rendered, unless the cached render still applies,
\* and the gates are checked.
PassUpgradeGates ==
    /\ pc = "walk" /\ rr.todo = {} /\ GatesOpen
    /\ pc' = "deploy"
    /\ rr' = [rr EXCEPT !.generated = rr.manifests \notin {{}, rendered}]
    /\ rendered' = IF rr.manifests = {} THEN rendered ELSE rr.manifests
    /\ UNCHANGED <<version, clusterVars, tracker, stuck, pending, timer, progress, waived>>

\* Unacknowledged gates stop the chain; only a later event resumes it.
StopAtUpgradeGates ==
    /\ pc = "walk" /\ rr.todo = {} /\ ~GatesOpen
    /\ pc' = "idle"
    /\ rr' = IdleRequest
    /\ rendered' = IF rr.manifests = {} THEN rendered ELSE rr.manifests
    /\ progress' = "AdminAckRequired"
    /\ UNCHANGED <<version, clusterVars, tracker, stuck, pending, timer, waived>>

\* The render, or reading or writing the gates, fails: the request is retried.
UpgradeGatesFail ==
    /\ pc = "walk" /\ rr.todo = {}
    /\ pc' = "idle"
    /\ rr' = IdleRequest
    /\ rendered' \in {rendered, IF rr.manifests = {} THEN rendered ELSE rr.manifests}
    /\ progress' = rr.progress
    /\ pending' = TRUE
    /\ UNCHANGED <<version, clusterVars, tracker, stuck, timer, waived>>

Deployed(ms) == [n \in Nodes |-> IF n \in ms THEN version ELSE deployed[n]]

\* What the garbage collector deletes after a new render: module resources that
\* were not applied now and carry another version or generation.
Collected ==
    IF rr.generated THEN {m \in Modules : m \notin fresh \cup rr.manifests} ELSE {}

Deploy ==
    /\ pc = "deploy"
    /\ deployed' = [n \in Nodes |-> IF n \in Collected THEN None ELSE Deployed(rr.manifests)[n]]
    /\ fresh' = fresh \cup rr.manifests
    /\ timer' = RequeueAfter(rr.requeue)
    /\ progress' = rr.progress
    /\ pc' = "idle"
    /\ rr' = IdleRequest
    /\ UNCHANGED <<version, enabled, reported, acked, tracker, stuck, rendered, pending, waived>>

\* Some resources could not be applied: the chain ends with an error, before GC.
DeployFails ==
    /\ pc = "deploy"
    /\ \E ms \in SUBSET rr.manifests :
          deployed' = Deployed(ms) /\ fresh' = fresh \cup ms
    /\ progress' = rr.progress
    /\ pending' = TRUE
    /\ pc' = "idle"
    /\ rr' = IdleRequest
    /\ UNCHANGED <<version, enabled, reported, acked, tracker, stuck, rendered, timer, waived>>

(***************************************************************************)
(* In-tree component controllers                                           *)
(***************************************************************************)

\* RunlevelGateAction lets the deploy actions of c run.
GateOpen(c) == OrderingDisabled \/ IsCleared(Order[c])

StampsWhenHappy(c, happy) == happy

\* NewPostStatusFn stamps the platform release into the status of c.
Stamps(c, happy) == happy /\ GateOpen(c)

\* With the gate closed (SkipDeploy) nothing is applied and nothing is stamped; else
\* the manifests are applied, and a happy reconcile stamps the platform release.
ComponentReconcile(c, happy) ==
    /\ reported[c] # NoCR
    /\ deployed' = IF GateOpen(c) THEN [deployed EXCEPT ![c] = version] ELSE deployed
    /\ reported' = IF Stamps(c, happy) THEN [reported EXCEPT ![c] = version] ELSE reported
    /\ pending' = (pending \/ reported' # reported)
    /\ UNCHANGED <<version, enabled, fresh, acked, tracker, stuck, pc, rr,
                   rendered, timer, progress, waived>>

(***************************************************************************)
(* Module operators (external), the DSC controller's CRs, users and time   *)
(***************************************************************************)

\* The deployed operator of m reconciles the CR and reports its own release.
ModuleOperator(m) ==
    /\ reported[m] # NoCR /\ deployed[m] # None
    /\ reported' = [reported EXCEPT ![m] = deployed[m]]
    /\ pending' = (pending \/ reported' # reported)
    /\ UNCHANGED <<version, enabled, deployed, fresh, acked, tracker, stuck, pc, rr,
                   rendered, timer, progress, waived>>

\* The DSC controller creates a CR (for a module, only while it is enabled).
CreateCR(n) ==
    /\ reported[n] = NoCR
    /\ n \in Modules => n \in enabled
    /\ reported' = [reported EXCEPT ![n] = Untracked]
    /\ pending' = TRUE
    /\ UNCHANGED <<version, enabled, deployed, fresh, acked, tracker, stuck,
                   pc, rr, rendered, timer, progress, waived>>

\* A CR is deleted.  A module's CR goes when its operator has run the finalizer;
\* what a component deployed is owned by its CR and goes with it.
DeleteCR(n) ==
    /\ reported[n] # NoCR
    /\ n \in Modules => n \notin enabled /\ deployed[n] # None
    /\ reported' = [reported EXCEPT ![n] = NoCR]
    /\ deployed' = IF n \in Components THEN [deployed EXCEPT ![n] = None] ELSE deployed
    /\ pending' = TRUE
    /\ UNCHANGED <<version, enabled, fresh, acked, tracker, stuck, pc, rr, rendered,
                   timer, progress, waived>>

\* The DSC controller projects a changed management state into the Platform spec:
\* a new generation, so that no stamped resource and no cached render is current.
ToggleModule(m) ==
    /\ enabled' = IF m \in enabled THEN enabled \ {m} ELSE enabled \cup {m}
    /\ fresh' = {}
    /\ rendered' = {}
    /\ pending' = TRUE
    /\ UNCHANGED <<version, reported, deployed, acked, tracker, stuck, pc, rr,
                   timer, progress, waived>>

\* An administrator sets a gate to "true"; the ConfigMap is watched.
AckGate(g) ==
    /\ g \notin acked
    /\ acked' = acked \cup {g}
    /\ pending' = TRUE
    /\ UNCHANGED <<version, enabled, reported, deployed, fresh, tracker, stuck,
                   pc, rr, rendered, timer, progress, waived>>

\* Any other watched object changes (a condition, a CRD, a webhook configuration).
OtherEvent ==
    /\ pending' = TRUE
    /\ UNCHANGED <<version, clusterVars, tracker, stuck, pc, rr, rendered, timer,
                   progress, waived>>

\* Time passes: recorded timestamps age and the requeue timer runs.
Tick ==
    /\ timer > 0 \/ \E o \in Orders : stuck[o] # NotStuck /\ stuck[o] < Timeout[o]
    /\ stuck' = [o \in Orders |-> IF stuck[o] # NotStuck /\ stuck[o] < Timeout[o]
                                  THEN stuck[o] + 1 ELSE stuck[o]]
    /\ timer' = IF timer > 0 THEN timer - 1 ELSE 0
    /\ pending' = (pending \/ timer = 1)
    /\ UNCHANGED <<version, clusterVars, tracker, pc, rr, rendered, progress, waived>>

\* A new operator process: every in-memory structure starts empty and the informer
\* caches deliver the Platform CR once more.
ProcessStarts ==
    /\ tracker' = EmptyTracker
    /\ stuck' = [o \in Orders |-> NotStuck]
    /\ pc' = "idle"
    /\ rr' = IdleRequest
    /\ rendered' = {}
    /\ pending' = TRUE
    /\ timer' = 0
    /\ UNCHANGED <<enabled, reported, deployed, acked, progress>>

Restart == ProcessStarts /\ UNCHANGED <<version, fresh, waived>>

Upgrade ==
    /\ version < MaxVersion
    /\ version' = version + 1
    /\ fresh' = {}
    /\ waived' = {}
    /\ ProcessStarts

(***************************************************************************)
(* The specification                                                       *)
(***************************************************************************)

Init ==
    /\ version = 1
    /\ enabled \in SUBSET Modules
    /\ reported = [n \in Nodes |-> NoCR]
    /\ deployed = [n \in Nodes |-> None]
    /\ fresh = {}
    /\ acked = {}
    /\ tracker = EmptyTracker
    /\ stuck = [o \in Orders |-> NotStuck]
    /\ pc = "idle"
    /\ rr = IdleRequest
    /\ rendered = {}
    /\ progress = "Unknown"
    /\ pending = TRUE
    /\ timer = 0
    /\ waived = {}

Walk ==
    \E o \in Orders :
        \/ WalkReady(o)
        \/ \E errs \in SUBSET Below(o) : WalkTimedOut(o, errs) \/ WalkBlocked(o, errs)

Reconcile ==
    \/ StartReconcile
    \/ StartReconcileFails
    \/ Walk
    \/ PassUpgradeGates
    \/ StopAtUpgradeGates
    \/ UpgradeGatesFail
    \/ Deploy
    \/ DeployFails

Component == \E c \in Components, happy \in BOOLEAN : ComponentReconcile(c, happy)

Environment ==
    \/ \E m \in Modules : ModuleOperator(m)
    \/ \E n \in Nodes : CreateCR(n) \/ DeleteCR(n)
    \/ \E m \in Modules : ToggleModule(m)
    \/ \E g \in Gates : AckGate(g)
    \/ OtherEvent
    \/ Tick
    \/ Restart
    \/ Upgrade

Next == Reconcile \/ Component \/ Environment

Spec == Init /\ [][Next]_vars

(***************************************************************************)
(* Properties                                                              *)
(***************************************************************************)

AtVersion(n) == reported[n] \in {NoCR, Untracked, version}

\* Deploys follow the runlevels.  RunlevelGateAction reads the tracker of whatever walk
\* last wrote it, in another controller: still, once an in-tree component has been
\* deployed at the running version, no node of a lower runlevel reports another version,
\* except one that the walk was allowed to pass (timed out, disabled, never tracked).
ComponentOrder ==
    ~OrderingDisabled =>
        \A c \in Components, n \in Nodes :
            deployed[c] = version /\ Order[n] < Order[c] => n \in waived \/ AtVersion(n)

\* The platform release in a component's status is a promise that this version's
\* manifests were applied: NewPostStatusFn stamps nothing when the deploy was skipped.
StampFollowsDeploy ==
    \A c \in Components : reported[c] = version => deployed[c] = version

\* No operator of an upgraded module is deployed over an unacknowledged gate, unless all
\* modules are disabled and it is only kept for finalizers (checkUpgradeGates).
GatedDeploy ==
    [][\A m \in Modules :
          version' = version /\ deployed'[m] = version /\ deployed[m] # version =>
              GatesInForce({m}) \subseteq acked \/ rr.modules = {}]_vars

\* Neither cleanupDisabledModules nor the collector removes the operator of a module
\* that was disabled when the reconcile read the spec while its CR, whose finalizers only
\* that operator can run, still exists.
OperatorOutlivesCR ==
    [][\A m \in Modules :
          deployed[m] # None /\ deployed'[m] = None =>
              reported[m] = NoCR \/ (pc = "deploy" /\ m \in rr.modules)]_vars

\* The controller never rests on a false success: when nothing is queued and the status
\* says ProvisioningProgress=True, the running version's gates are acknowledged, every
\* runlevel is cleared and every enabled module's operator is deployed at that version.
ProgressTrueMeansDone ==
    pc = "idle" /\ ~pending /\ progress = "True" =>
        /\ enabled # {} => GatesInForce(enabled) \subseteq acked
        /\ \A o \in Orders : IsCleared(o)
        /\ \A m \in enabled : deployed[m] = version

\* A rest that is not a success has a way out: when nothing is queued and no timer runs,
\* the walk waits for an acknowledgement, for a status change of a lower node (each of
\* which is watched), or has advanced past its timeout.
WaitHasWakeup ==
    pc = "idle" /\ ~pending /\ timer = 0 =>
        \/ progress \in {"True", "RunlevelTimeoutExceeded"}
        \/ progress = "AdminAckRequired" /\ ~(GatesInForce(Modules) \subseteq acked)
        \/ progress = "AwaitingReadiness" /\ \E o \in Orders : stuck[o] # NotStuck /\ Timeout[o] = 0

(***************************************************************************)
(* What the documentation says and the code does not do                    *)
(***************************************************************************)

\* docs/dag-provisioning.md: "Before the DAG walk begins, the operator checks for upgrade
\* gates".  The walk opens the components' deploy gates before checkUpgradeGates runs, so
\* a component reaches the new version over an unacknowledged gate.
GatesBeforeWalk ==
    [][\A c \in Components :
          deployed[c] # version /\ deployed'[c] = version /\ version' = version
          /\ rr.modules # {} => GatesInForce({}) \subseteq acked]_vars

=============================================================================
