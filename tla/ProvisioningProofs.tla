------------------------- MODULE ProvisioningProofs -------------------------
(***************************************************************************)
(* Proofs about Provisioning, for every set of modules and components,     *)
(* every runlevel assignment, every timeout policy, every set of gates and *)
(* any number of upgrades.                                                 *)
(***************************************************************************)
EXTENDS Provisioning, TLAPS

\* Nothing on the cluster is ahead of the running operator.
NothingAhead ==
    /\ \A n \in Nodes : reported[n] <= version /\ deployed[n] <= version
    /\ tracker.version <= version

\* A module that reports the running version was deployed at it, and is not deployed
\* at another one since.
ReportFollowsDeploy ==
    \A m \in Modules : reported[m] = version => deployed[m] \in {None, version}

\* Nothing can make n report another version than the running one, unless the walk
\* had to exempt it.
Settled(n) ==
    \/ n \in waived
    \/ AtVersion(n) /\ (n \in Modules => deployed[n] \in {None, version})

\* What the walk cleared, and what components deployed, lies above settled nodes only.
ClearedOrder ==
    ~OrderingDisabled =>
        \A n \in Nodes :
            tracker.version = version /\ Order[n] < tracker.upTo => Settled(n)
DeployedOrder ==
    ~OrderingDisabled =>
        \A c \in Components, n \in Nodes :
            deployed[c] = version /\ Order[n] < Order[c] => Settled(n)

OrderInv == NothingAhead /\ ReportFollowsDeploy /\ ClearedOrder /\ DeployedOrder

-----------------------------------------------------------------------------

USE DEF NoCR, Untracked, None, NotStuck

LEMMA ConstantTypes ==
    /\ Modules \subseteq Nodes /\ Components \subseteq Nodes
    /\ \A n \in Nodes : Order[n] \in Nat /\ Order[n] \in Orders
    /\ Orders \subseteq Nat
    /\ \A o \in Orders : Timeout[o] \in Nat
    /\ Versions \subseteq Nat
  BY OrderAssumption, TimeoutAssumption DEF Nodes, Orders, Versions

LEMMA InitType == Init => TypeOK
  <1> SUFFICES ASSUME Init PROVE TypeOK
    OBVIOUS
  <1>1. 1 \in Versions
    BY VersionAssumption DEF Versions
  <1>2. rr \in Request
    BY DEF Init, IdleRequest, Request, ProgressReasons
  <1> QED
    BY <1>1, <1>2 DEF Init, TypeOK, EmptyTracker, ProgressReasons

LEMMA MarkClearedType ==
    ASSUME TypeOK, NEW o \in Orders
    PROVE  MarkCleared(o) \in [version: {None} \cup Versions, upTo: Nat]
  BY ConstantTypes DEF TypeOK, MarkCleared

LEMMA ClearAndProcessType ==
    ASSUME TypeOK, NEW o \in Orders, NEW timedOut \in SUBSET Nodes,
           NEW condition \in ProgressReasons, ClearAndProcess(o, timedOut, condition)
    PROVE  TypeOK'
  <1>1. tracker' \in [version: {None} \cup Versions, upTo: Nat]
    BY MarkClearedType DEF ClearAndProcess
  <1>2. stuck' \in [Orders -> Nat \cup {NotStuck}]
    BY DEF ClearAndProcess, TypeOK
  <1>3. rr' \in Request
    <2>1. Provisioned(o) \subseteq Modules
      BY DEF Provisioned, TypeOK, Request
    <2> QED
      BY <2>1, Zenon DEF ClearAndProcess, TypeOK, Request
  <1>4. waived' \subseteq Nodes
    BY DEF ClearAndProcess, TypeOK, Below
  <1> QED
    BY <1>1, <1>2, <1>3, <1>4 DEF ClearAndProcess, TypeOK, clusterVars

LEMMA IdleRequestType == IdleRequest \in Request
  BY DEF IdleRequest, Request, ProgressReasons

\* Every action keeps the types, whatever the constants.
LEMMA NextType == TypeOK /\ [Next]_vars => TypeOK'
  <1> SUFFICES ASSUME TypeOK, [Next]_vars PROVE TypeOK'
    OBVIOUS
  <1> USE ConstantTypes, IdleRequestType
  <1>1. CASE StartReconcile
    <2>1. rr' \in Request
      BY <1>1, Zenon DEF StartReconcile, TypeOK, Request, IdleRequest, Disabled, ProgressReasons
    <2>2. deployed' \in [Nodes -> {None} \cup Versions]
      BY <1>1 DEF StartReconcile, TypeOK
    <2> QED
      BY <1>1, <2>1, <2>2, Zenon DEF StartReconcile, TypeOK
  <1>2. CASE StartReconcileFails
    BY <1>2 DEF StartReconcileFails, TypeOK, memoryVars
  <1>3. CASE Walk
    <2>1. PICK o \in Orders :
             \/ WalkReady(o)
             \/ \E errs \in SUBSET Below(o) : WalkTimedOut(o, errs) \/ WalkBlocked(o, errs)
      BY <1>3 DEF Walk
    <2>2. CASE WalkReady(o)
      BY <2>2, ClearAndProcessType, Zenon DEF WalkReady, TypeOK, Request
    <2>3. ASSUME NEW errs \in SUBSET Below(o), WalkTimedOut(o, errs) PROVE TypeOK'
      <3>1. rr.timedOut \cup NotReadyInPrev(o, errs) \in SUBSET Nodes
        BY DEF NotReadyInPrev, Below, TypeOK, Request
      <3> QED
        BY <2>3, <3>1, ClearAndProcessType, Zenon DEF WalkTimedOut, ProgressReasons
    <2>4. ASSUME NEW errs \in SUBSET Below(o), WalkBlocked(o, errs) PROVE TypeOK'
      <3>1. Since(o) \in Nat /\ Remaining(o) \in Nat
        BY DEF Since, Remaining, TypeOK
      <3>2. rr' \in Request
        BY <2>4, <3>1, Zenon DEF WalkBlocked, TypeOK, Request, ProgressReasons
      <3> QED
        BY <2>4, <3>1, <3>2 DEF WalkBlocked, TypeOK, clusterVars
    <2> QED
      BY <2>1, <2>2, <2>3, <2>4
  <1>4. CASE PassUpgradeGates
    <2>1. rr' \in Request /\ rendered' \subseteq Modules
      BY <1>4, Zenon DEF PassUpgradeGates, TypeOK, Request
    <2> QED
      BY <1>4, <2>1 DEF PassUpgradeGates, TypeOK, clusterVars
  <1>5. CASE StopAtUpgradeGates
    <2>1. rendered' \subseteq Modules
      BY <1>5 DEF StopAtUpgradeGates, TypeOK, Request
    <2> QED
      BY <1>5, <2>1 DEF StopAtUpgradeGates, TypeOK, clusterVars, ProgressReasons
  <1>6. CASE UpgradeGatesFail
    <2>1. rendered' \subseteq Modules /\ progress' \in ProgressReasons
      BY <1>6 DEF UpgradeGatesFail, TypeOK, Request
    <2> QED
      BY <1>6, <2>1 DEF UpgradeGatesFail, TypeOK, clusterVars
  <1>7. CASE Deploy
    <2>1. rr.manifests \subseteq Modules /\ rr.progress \in ProgressReasons /\ rr.requeue \in Nat
      BY DEF TypeOK, Request
    <2>2. deployed' \in [Nodes -> {None} \cup Versions]
      BY <1>7 DEF Deploy, Deployed, TypeOK
    <2>3. timer' \in Nat
      BY <1>7, <2>1 DEF Deploy, RequeueAfter, TypeOK
    <2> QED
      BY <1>7, <2>1, <2>2, <2>3 DEF Deploy, TypeOK
  <1>8. CASE DeployFails
    <2>1. rr.manifests \subseteq Modules /\ rr.progress \in ProgressReasons
      BY DEF TypeOK, Request
    <2>2. PICK ms \in SUBSET rr.manifests : deployed' = Deployed(ms) /\ fresh' = fresh \cup ms
      BY <1>8 DEF DeployFails
    <2>3. deployed' \in [Nodes -> {None} \cup Versions] /\ fresh' \subseteq Modules
      BY <2>1, <2>2 DEF Deployed, TypeOK
    <2> QED
      BY <1>8, <2>1, <2>3 DEF DeployFails, TypeOK
  <1>9. CASE Component
    BY <1>9 DEF Component, ComponentReconcile, TypeOK
  <1>10. CASE Environment
    <2>1. CASE \E m \in Modules : ModuleOperator(m)
      BY <2>1 DEF ModuleOperator, TypeOK
    <2>2. CASE \E n \in Nodes : CreateCR(n) \/ DeleteCR(n)
      BY <2>2, ZenonT(60) DEF CreateCR, DeleteCR, TypeOK
    <2>3. CASE \E m \in Modules : ToggleModule(m)
      BY <2>3 DEF ToggleModule, TypeOK
    <2>4. CASE \E g \in Gates : AckGate(g)
      BY <2>4 DEF AckGate, TypeOK
    <2>5. CASE OtherEvent
      BY <2>5 DEF OtherEvent, TypeOK, clusterVars
    <2>6. CASE Tick
      BY <2>6 DEF Tick, TypeOK, clusterVars
    <2>7. CASE Restart
      BY <2>7 DEF Restart, ProcessStarts, EmptyTracker, TypeOK
    <2>8. CASE Upgrade
      <3>1. version' \in Versions
        BY <2>8, VersionAssumption DEF Upgrade, TypeOK, Versions
      <3> QED
        BY <2>8, <3>1 DEF Upgrade, ProcessStarts, EmptyTracker, TypeOK
    <2> QED
      BY <1>10, <2>1, <2>2, <2>3, <2>4, <2>5, <2>6, <2>7, <2>8 DEF Environment
  <1>11. CASE UNCHANGED vars
    BY <1>11 DEF vars, clusterVars, memoryVars, TypeOK
  <1> QED
    BY <1>1, <1>2, <1>3, <1>4, <1>5, <1>6, <1>7, <1>8, <1>9, <1>10, <1>11 DEF Next, Reconcile

\* The variables keep their types in every behaviour of the provisioning model.
THEOREM TypeCorrect == Spec => []TypeOK
  BY InitType, NextType, PTL DEF Spec

-----------------------------------------------------------------------------

LEMMA InitOrder == Init => OrderInv
  <1> SUFFICES ASSUME Init PROVE OrderInv
    OBVIOUS
  <1> QED
    BY ConstantTypes DEF Init, OrderInv, NothingAhead, ReportFollowsDeploy, ClearedOrder,
       DeployedOrder, EmptyTracker

\* What an entry looks like when the walk passes it without exempting it.
LEMMA PassedIsSettled ==
    ASSUME TypeOK, ReportFollowsDeploy, NEW n \in Nodes, NEW timedOut,
           ~Exempt(n, timedOut), IsReady(n)
    PROVE  AtVersion(n) /\ (n \in Modules => deployed[n] \in {None, version})
  <1>1. CASE n \in Components
    BY <1>1, NodesAssumption DEF IsReady, ComponentIsReady, AtVersion
  <1>2. CASE n \in Modules
    BY <1>2, NodesAssumption DEF IsReady, ModuleIsReady, Exempt, AtVersion, ReportFollowsDeploy
  <1> QED
    BY <1>1, <1>2 DEF Nodes

\* Clearing a runlevel keeps the order, provided what it passes is ready or exempt.
LEMMA ClearKeepsOrder ==
    ASSUME TypeOK, OrderInv, NEW o \in Orders, NEW timedOut, NEW condition,
           ClearAndProcess(o, timedOut, condition),
           ~OrderingDisabled => \A n \in Below(o) : n \in timedOut \/ IsReady(n)
    PROVE  OrderInv'
  <1> USE ConstantTypes
  <1>1. /\ UNCHANGED <<version, reported, deployed>>
        /\ tracker' = MarkCleared(o)
        /\ waived' = (waived \ Below(o)) \cup {n \in Below(o) : Exempt(n, timedOut)}
    BY DEF ClearAndProcess, clusterVars
  <1>2. NothingAhead'
    BY <1>1 DEF OrderInv, NothingAhead, MarkCleared, TypeOK
  <1>3. ReportFollowsDeploy'
    BY <1>1 DEF OrderInv, ReportFollowsDeploy
  <1>4. ASSUME ~OrderingDisabled, NEW n \in Nodes, Settled(n) \/ n \in Below(o)
        PROVE  Settled(n)'
    <2>1. CASE n \in Below(o)
      <3>1. CASE Exempt(n, timedOut)
        BY <1>1, <2>1, <3>1 DEF Settled
      <3>2. CASE ~Exempt(n, timedOut)
        <4>1. IsReady(n)
          BY <1>4, <2>1, <3>2 DEF Exempt
        <4>2. AtVersion(n) /\ (n \in Modules => deployed[n] \in {None, version})
          BY <3>2, <4>1, PassedIsSettled DEF OrderInv
        <4> QED
          BY <1>1, <4>2 DEF Settled, AtVersion
      <3> QED
        BY <3>1, <3>2
    <2>2. CASE n \notin Below(o)
      BY <1>1, <1>4, <2>2 DEF Settled, AtVersion
    <2> QED
      BY <2>1, <2>2
  <1>5. ClearedOrder'
    <2> SUFFICES ASSUME ~OrderingDisabled, NEW n \in Nodes,
                        tracker'.version = version', Order[n] < tracker'.upTo
                 PROVE  Settled(n)'
      BY DEF ClearedOrder
    <2>1. n \in Below(o) \/ (tracker.version = version /\ Order[n] < tracker.upTo)
      BY <1>1 DEF MarkCleared, Below
    <2> QED
      BY <1>4, <2>1 DEF OrderInv, ClearedOrder
  <1>6. DeployedOrder'
    BY <1>1, <1>4 DEF OrderInv, DeployedOrder
  <1> QED
    BY <1>2, <1>3, <1>5, <1>6 DEF OrderInv

\* A module's deployed version only moves to the running one or to none, and nothing
\* else the order depends on changes: the shape of the deploy and clean-up steps.
LEMMA DeployKeepsOrder ==
    ASSUME TypeOK, OrderInv, UNCHANGED <<version, reported, tracker, waived>>,
           \A c \in Components : deployed'[c] = deployed[c],
           \A m \in Modules : deployed'[m] \in {None, version, deployed[m]}
    PROVE  OrderInv'
  <1> USE ConstantTypes
  <1>1. NothingAhead'
    BY DEF OrderInv, NothingAhead, TypeOK, Nodes
  <1>2. ReportFollowsDeploy'
    BY Zenon DEF OrderInv, ReportFollowsDeploy
  <1>3. \A n \in Nodes : Settled(n) => Settled(n)'
    BY DEF Settled, AtVersion, Nodes
  <1> QED
    BY <1>1, <1>2, <1>3 DEF OrderInv, ClearedOrder, DeployedOrder

LEMMA OrderUnchanged ==
    ASSUME OrderInv, UNCHANGED <<version, reported, deployed, tracker, waived>>
    PROVE  OrderInv'
  BY DEF OrderInv, NothingAhead, ReportFollowsDeploy, ClearedOrder, DeployedOrder, Settled, AtVersion

\* A component that deploys does so above settled nodes: its gate was open.
LEMMA ComponentKeepsOrder ==
    ASSUME TypeOK, OrderInv, NEW c \in Components, NEW happy \in BOOLEAN,
           ComponentReconcile(c, happy)
    PROVE  OrderInv'
  <1> USE ConstantTypes
  <1>1. /\ UNCHANGED <<version, tracker, waived>>
        /\ \A n \in Nodes : deployed'[n] = deployed[n] \/ (n = c /\ GateOpen(c) /\ deployed'[n] = version)
        /\ \A n \in Nodes : reported'[n] = reported[n] \/ (n = c /\ reported'[n] = version)
        /\ \A n \in Modules : n # c
    BY NodesAssumption DEF ComponentReconcile, TypeOK
  <1>2. NothingAhead'
    BY <1>1 DEF OrderInv, NothingAhead, TypeOK
  <1>3. ReportFollowsDeploy'
    BY <1>1 DEF OrderInv, ReportFollowsDeploy
  <1>4. \A n \in Nodes : Settled(n) => Settled(n)'
    BY <1>1 DEF Settled, AtVersion
  <1>5. ClearedOrder'
    BY <1>1, <1>4 DEF OrderInv, ClearedOrder
  <1>6. DeployedOrder'
    <2> SUFFICES ASSUME ~OrderingDisabled, NEW d \in Components, NEW n \in Nodes,
                        deployed'[d] = version', Order[n] < Order[d]
                 PROVE  Settled(n)'
      BY DEF DeployedOrder
    <2>1. CASE deployed[d] = version
      BY <1>4, <2>1 DEF OrderInv, DeployedOrder
    <2>2. CASE deployed[d] # version
      <3>1. d = c /\ GateOpen(c)
        BY <1>1, <2>2
      <3>2. tracker.version = version /\ Order[d] <= tracker.upTo
        BY <3>1 DEF GateOpen, IsCleared
      <3>3. Order[n] < tracker.upTo
        BY <3>2 DEF TypeOK
      <3> QED
        BY <1>4, <3>2, <3>3 DEF OrderInv, ClearedOrder
    <2> QED
      BY <2>1, <2>2
  <1> QED
    BY <1>2, <1>3, <1>5, <1>6 DEF OrderInv

LEMMA WalkKeepsOrder ==
    ASSUME TypeOK, OrderInv, Walk
    PROVE  OrderInv'
  <1>1. PICK o \in Orders :
           \/ WalkReady(o)
           \/ \E errs \in SUBSET Below(o) : WalkTimedOut(o, errs) \/ WalkBlocked(o, errs)
    BY DEF Walk
  <1>2. CASE WalkReady(o)
    <2>1. ~OrderingDisabled => \A n \in Below(o) : n \in rr.timedOut \/ IsReady(n)
      <3>1. CASE FirstBatch(o)
        BY <3>1, ConstantTypes DEF FirstBatch, Below
      <3>2. CASE NotReadyInPrev(o, {}) = {}
        BY <3>2 DEF NotReadyInPrev
      <3> QED
        BY <1>2, <3>1, <3>2 DEF WalkReady
    <2> QED
      BY <1>2, <2>1, ClearKeepsOrder DEF WalkReady
  <1>3. ASSUME NEW errs \in SUBSET Below(o), WalkTimedOut(o, errs) PROVE OrderInv'
    <2> DEFINE late == rr.timedOut \cup NotReadyInPrev(o, errs)
    <2>1. \A n \in Below(o) : n \in late \/ IsReady(n)
      BY DEF NotReadyInPrev
    <2>2. ClearAndProcess(o, late, "RunlevelTimeoutExceeded")
      BY <1>3 DEF WalkTimedOut
    <2> HIDE DEF late
    <2> QED
      BY <2>1, <2>2, ClearKeepsOrder
  <1>4. ASSUME NEW errs \in SUBSET Below(o), WalkBlocked(o, errs) PROVE OrderInv'
    BY <1>4, OrderUnchanged DEF WalkBlocked, clusterVars
  <1> QED
    BY <1>1, <1>2, <1>3, <1>4

LEMMA NextOrder == TypeOK /\ OrderInv /\ [Next]_vars => OrderInv'
  <1> SUFFICES ASSUME TypeOK, OrderInv, [Next]_vars PROVE OrderInv'
    OBVIOUS
  <1> USE ConstantTypes
  <1>0. rr.manifests \subseteq Modules
    BY DEF TypeOK, Request
  <1>1. CASE StartReconcile
    BY <1>1, DeployKeepsOrder, NodesAssumption DEF StartReconcile, Removable, Disabled, TypeOK
  <1>2. CASE StartReconcileFails
    BY <1>2, DeployKeepsOrder, NodesAssumption DEF StartReconcileFails, Removable, Disabled, TypeOK, memoryVars
  <1>3. CASE Walk
    BY <1>3, WalkKeepsOrder
  <1>4. CASE PassUpgradeGates \/ StopAtUpgradeGates \/ UpgradeGatesFail
    BY <1>4, OrderUnchanged DEF PassUpgradeGates, StopAtUpgradeGates, UpgradeGatesFail, clusterVars
  <1>5. CASE Deploy
    <2>1. Collected \subseteq Modules
      BY DEF Collected
    <2> QED
      BY <1>0, <1>5, <2>1, DeployKeepsOrder, NodesAssumption DEF Deploy, Deployed, TypeOK
  <1>6. CASE DeployFails
    BY <1>0, <1>6, DeployKeepsOrder, NodesAssumption DEF DeployFails, Deployed, TypeOK
  <1>7. CASE Component
    BY <1>7, ComponentKeepsOrder DEF Component
  <1>8. CASE \E m \in Modules : ModuleOperator(m)
    <2>1. PICK m \in Modules : ModuleOperator(m)
      BY <1>8
    <2>2. /\ UNCHANGED <<version, deployed, tracker, waived>>
          /\ deployed[m] # None
          /\ \A n \in Nodes : reported'[n] = IF n = m THEN deployed[m] ELSE reported[n]
      BY <2>1 DEF ModuleOperator, TypeOK
    <2>3. NothingAhead'
      BY <2>2 DEF OrderInv, NothingAhead
    <2>4. ReportFollowsDeploy'
      BY <2>2 DEF OrderInv, ReportFollowsDeploy
    <2>5. \A n \in Nodes : Settled(n) => Settled(n)'
      BY <2>2 DEF Settled, AtVersion
    <2> QED
      BY <2>2, <2>3, <2>4, <2>5 DEF OrderInv, ClearedOrder, DeployedOrder
  <1>9. CASE \E n \in Nodes : CreateCR(n) \/ DeleteCR(n)
    <2>1. PICK k \in Nodes : CreateCR(k) \/ DeleteCR(k)
      BY <1>9
    <2>2. /\ UNCHANGED <<version, tracker, waived>>
          /\ \A n \in Nodes : reported'[n] = reported[n] \/ reported'[n] \in {NoCR, Untracked}
          /\ \A n \in Nodes : deployed'[n] = deployed[n] \/ deployed'[n] = None
      BY <2>1, SMT, SMTT(60) DEF CreateCR, DeleteCR, TypeOK
    <2>0. version \in Nat /\ version # 0
      BY DEF TypeOK, Versions
    <2>3. NothingAhead'
      BY <2>0, <2>2, SMT, SMTT(60) DEF OrderInv, NothingAhead
    <2>4. ReportFollowsDeploy'
      BY <2>0, <2>2 DEF OrderInv, ReportFollowsDeploy
    <2>5. \A n \in Nodes : Settled(n) => Settled(n)'
      BY <2>2 DEF Settled, AtVersion
    <2> QED
      BY <2>0, <2>2, <2>3, <2>4, <2>5, SMT, SMTT(60) DEF OrderInv, ClearedOrder, DeployedOrder
  <1>10. CASE (\E m \in Modules : ToggleModule(m)) \/ (\E g \in Gates : AckGate(g)) \/ OtherEvent \/ Tick
    BY <1>10, OrderUnchanged DEF ToggleModule, AckGate, OtherEvent, Tick, clusterVars
  <1>11. CASE Restart
    <2>0. version # 0 /\ version \in Nat
      BY DEF TypeOK, Versions
    <2>1. UNCHANGED <<version, reported, deployed, waived>> /\ tracker' = EmptyTracker
      BY <1>11 DEF Restart, ProcessStarts
    <2>2. \A n \in Nodes : Settled(n) => Settled(n)'
      BY <2>1 DEF Settled, AtVersion
    <2> QED
      BY <2>0, <2>1, <2>2, SMT, SMTT(60) DEF EmptyTracker, OrderInv, NothingAhead, ReportFollowsDeploy,
         ClearedOrder, DeployedOrder
  <1>12. CASE Upgrade
    <2>1. /\ version' = version + 1 /\ version \in Nat
          /\ UNCHANGED <<reported, deployed>> /\ tracker' = EmptyTracker
      BY <1>12 DEF Upgrade, ProcessStarts, TypeOK
    <2>2. \A n \in Nodes : reported[n] \in Int /\ deployed[n] \in Int
      BY DEF TypeOK, Versions
    <2>3. \A n \in Nodes : reported[n] < version' /\ deployed[n] < version'
      BY <2>1, <2>2 DEF OrderInv, NothingAhead
    <2> QED
      BY <2>1, <2>2, <2>3, SMT, SMTT(60) DEF EmptyTracker, OrderInv, NothingAhead, ReportFollowsDeploy,
         ClearedOrder, DeployedOrder
  <1>13. CASE UNCHANGED vars
    BY <1>13, OrderUnchanged DEF vars, clusterVars, memoryVars
  <1> QED
    BY <1>1, <1>2, <1>3, <1>4, <1>5, <1>6, <1>7, <1>8, <1>9, <1>10, <1>11, <1>12, <1>13
       DEF Next, Reconcile, Environment

\* Upgrades are ordered, for any runlevels, timeouts, failures, restarts and
\* interleaving: a component runs the new version only above nodes that are at it or
\* that the walk was allowed to pass.
THEOREM UpgradeOrder == Spec => []ComponentOrder
  <1>1. OrderInv => ComponentOrder
    BY DEF OrderInv, DeployedOrder, Settled, ComponentOrder
  <1> QED
    BY <1>1, InitType, NextType, InitOrder, NextOrder, PTL DEF Spec

-----------------------------------------------------------------------------

LEMMA StampStep == TypeOK /\ OrderInv /\ StampFollowsDeploy /\ [Next]_vars => StampFollowsDeploy'
  <1> SUFFICES ASSUME TypeOK, OrderInv, StampFollowsDeploy, [Next]_vars,
                      NEW c \in Components, reported'[c] = version'
               PROVE  deployed'[c] = version'
    BY DEF StampFollowsDeploy
  <1> USE ConstantTypes
  <1>0. /\ rr.manifests \subseteq Modules /\ Collected \subseteq Modules /\ Removable \subseteq Modules
        /\ c \notin Modules /\ version # 0
    BY NodesAssumption DEF TypeOK, Request, Collected, Removable, Disabled, Versions
  <1>1. CASE Component
    BY <1>1 DEF Component, ComponentReconcile, Stamps, StampFollowsDeploy, TypeOK
  <1>2. CASE StartReconcile \/ StartReconcileFails
    BY <1>0, <1>2 DEF StartReconcile, StartReconcileFails, StampFollowsDeploy, TypeOK
  <1>3. CASE Deploy \/ DeployFails
    BY <1>0, <1>3, Zenon DEF Deploy, DeployFails, Deployed, StampFollowsDeploy, TypeOK
  <1>4. CASE Walk
    BY <1>4, Zenon DEF Walk, WalkReady, WalkTimedOut, WalkBlocked, ClearAndProcess, clusterVars, StampFollowsDeploy
  <1>5. CASE PassUpgradeGates \/ StopAtUpgradeGates \/ UpgradeGatesFail
    BY <1>5 DEF PassUpgradeGates, StopAtUpgradeGates, UpgradeGatesFail, clusterVars, StampFollowsDeploy
  <1>6. CASE Upgrade
    <2>1. version' = version + 1 /\ version \in Nat /\ UNCHANGED <<reported, deployed>>
      BY <1>6 DEF Upgrade, ProcessStarts, TypeOK
    <2>2. reported[c] \in Int /\ reported[c] <= version
      BY DEF TypeOK, OrderInv, NothingAhead, Versions
    <2> QED
      BY <2>1, <2>2
  <1>7. CASE Environment /\ ~Upgrade
    <2>1. CASE \E m \in Modules : ModuleOperator(m)
      BY <1>0, <2>1, SMT, SMTT(60) DEF ModuleOperator, StampFollowsDeploy, TypeOK
    <2>2. CASE \E n \in Nodes : CreateCR(n) \/ DeleteCR(n)
      BY <1>0, <2>2 DEF CreateCR, DeleteCR, StampFollowsDeploy, TypeOK, Versions
    <2>3. CASE \/ \E m \in Modules : ToggleModule(m)
               \/ \E g \in Gates : AckGate(g)
               \/ OtherEvent \/ Tick \/ Restart
      BY <2>3, Zenon DEF ToggleModule, AckGate, OtherEvent, Tick, Restart, ProcessStarts, clusterVars,
         StampFollowsDeploy
    <2> QED
      BY <1>7, <2>1, <2>2, <2>3 DEF Environment
  <1>8. CASE UNCHANGED vars
    BY <1>8 DEF vars, clusterVars, StampFollowsDeploy
  <1> QED
    BY <1>1, <1>2, <1>3, <1>4, <1>5, <1>6, <1>7, <1>8, Zenon DEF Next, Reconcile

\* The release stamp in a component's status is never ahead of its manifests.
THEOREM StampIsHonest == Spec => []StampFollowsDeploy
  <1>1. Init => StampFollowsDeploy
    BY ConstantTypes DEF Init, StampFollowsDeploy
  <1> QED
    BY <1>1, InitType, NextType, InitOrder, NextOrder, StampStep, PTL DEF Spec

-----------------------------------------------------------------------------

\* What the reconcile in progress knows holds until it deploys: the gates it checked are
\* acknowledged, and a module it read as disabled is rendered or has no operator.
ChainInv ==
    /\ pc = "deploy" => GatesOpen
    /\ pc # "idle" => \A m \in Modules \ rr.modules : m \in rr.manifests \/ deployed[m] = None

LEMMA NextChain == TypeOK /\ ChainInv /\ [Next]_vars => ChainInv'
  <1> SUFFICES ASSUME TypeOK, ChainInv, [Next]_vars PROVE ChainInv'
    OBVIOUS
  <1> USE ConstantTypes
  <1>0. rr \in Request
    BY DEF TypeOK
  <1>1. CASE StartReconcile
    <2>1. /\ rr'.modules = enabled /\ rr'.manifests = Disabled \ Removable /\ pc' = "walk"
          /\ \A m \in Removable : m \in Nodes => deployed'[m] = None
      BY <1>1 DEF StartReconcile, IdleRequest, TypeOK
    <2> QED
      BY <2>1, Zenon DEF ChainInv, Disabled
  <1>2. CASE StartReconcileFails
    BY <1>2, Zenon DEF StartReconcileFails, memoryVars, ChainInv
  <1>3. CASE Walk
    <2>1. /\ pc = "walk" /\ UNCHANGED <<pc, deployed>>
          /\ rr'.modules = rr.modules /\ rr.manifests \subseteq rr'.manifests
      <3>1. PICK o \in Orders :
               \/ WalkReady(o)
               \/ \E errs \in SUBSET Below(o) : WalkTimedOut(o, errs) \/ WalkBlocked(o, errs)
        BY <1>3 DEF Walk
      <3>2. ASSUME NEW late, NEW condition, ClearAndProcess(o, late, condition)
            PROVE  /\ UNCHANGED <<pc, deployed>> /\ rr'.modules = rr.modules
                   /\ rr'.manifests = rr.manifests \cup Provisioned(o)
        BY <1>0, <3>2 DEF ClearAndProcess, clusterVars, Request
      <3>3. CASE \E errs \in SUBSET Below(o) : WalkBlocked(o, errs)
        BY <1>0, <3>3 DEF WalkBlocked, clusterVars, Request
      <3>4. CASE WalkReady(o) \/ \E errs \in SUBSET Below(o) : WalkTimedOut(o, errs)
        BY <3>2, <3>4, Zenon DEF WalkReady, WalkTimedOut
      <3> QED
        BY <3>1, <3>3, <3>4, Zenon
    <2> QED
      BY <2>1, Zenon DEF ChainInv
  <1>4. CASE PassUpgradeGates
    <2>1. /\ pc = "walk" /\ GatesOpen /\ UNCHANGED <<version, deployed, acked>>
          /\ rr'.modules = rr.modules /\ rr'.manifests = rr.manifests
      BY <1>0, <1>4 DEF PassUpgradeGates, clusterVars, Request
    <2> QED
      BY <2>1, Zenon DEF ChainInv, GatesOpen, GatesInForce
  <1>5. CASE StopAtUpgradeGates \/ UpgradeGatesFail \/ Deploy \/ DeployFails \/ Restart \/ Upgrade
    BY <1>5, Zenon DEF StopAtUpgradeGates, UpgradeGatesFail, Deploy, DeployFails, Restart, Upgrade,
       ProcessStarts, ChainInv
  <1>6. CASE Component
    BY <1>6, NodesAssumption, Zenon DEF Component, ComponentReconcile, ChainInv, GatesOpen, GatesInForce, TypeOK
  <1>7. CASE Environment /\ ~Restart /\ ~Upgrade
    <2>1. /\ UNCHANGED <<version, pc, rr>>
          /\ acked \subseteq acked'
          /\ \A m \in Modules : deployed'[m] = deployed[m]
      BY <1>7, NodesAssumption, Zenon DEF Environment, ModuleOperator, CreateCR, DeleteCR, ToggleModule, AckGate,
         OtherEvent, Tick, clusterVars, TypeOK
    <2> QED
      BY <2>1, Zenon DEF ChainInv, GatesOpen, GatesInForce
  <1>8. CASE UNCHANGED vars
    BY <1>8, Zenon DEF vars, clusterVars, memoryVars, ChainInv, GatesOpen, GatesInForce
  <1> QED
    BY <1>1, <1>2, <1>3, <1>4, <1>5, <1>6, <1>7, <1>8 DEF Next, Reconcile, Environment

\* Only these steps change what is deployed of a module within a version.
LEMMA ModuleDeploySteps ==
    ASSUME TypeOK, Next, NEW m \in Modules, deployed'[m] # deployed[m]
    PROVE  \/ pc = "deploy" /\ m \in rr.manifests /\ deployed'[m] = version
           \/ pc = "deploy" /\ m \notin rr.manifests /\ deployed'[m] = None
           \/ reported[m] = NoCR /\ deployed'[m] = None
  <1> USE ConstantTypes
  <1>1. CASE StartReconcile \/ StartReconcileFails
    BY <1>1 DEF StartReconcile, StartReconcileFails, Removable, TypeOK
  <1>2. CASE Deploy
    BY <1>2, Zenon DEF Deploy, Deployed, Collected, TypeOK
  <1>3. CASE DeployFails
    BY <1>3, Zenon DEF DeployFails, Deployed, TypeOK
  <1>4. CASE Walk
    BY <1>4, Zenon DEF Walk, WalkReady, WalkTimedOut, WalkBlocked, ClearAndProcess, clusterVars
  <1>5. CASE PassUpgradeGates \/ StopAtUpgradeGates \/ UpgradeGatesFail
    BY <1>5 DEF PassUpgradeGates, StopAtUpgradeGates, UpgradeGatesFail, clusterVars
  <1>6. CASE Component
    BY <1>6, NodesAssumption, Zenon DEF Component, ComponentReconcile, TypeOK
  <1>7. CASE Environment
    BY <1>7, NodesAssumption, SMT, SMTT(60) DEF Environment, ModuleOperator, CreateCR, DeleteCR, ToggleModule, AckGate,
       OtherEvent, Tick, Restart, Upgrade, ProcessStarts, clusterVars, TypeOK
  <1> QED
    BY <1>1, <1>2, <1>3, <1>4, <1>5, <1>6, <1>7, Zenon DEF Next, Reconcile

LEMMA InitChain == Init => ChainInv
  BY DEF Init, ChainInv

\* No module operator is deployed at a version whose gates are not acknowledged,
\* however acknowledgements, toggles and failures interleave with the reconcile.
THEOREM GatesHold == Spec => GatedDeploy
  <1>1. TypeOK /\ ChainInv /\ [Next]_vars =>
          [\A m \in Modules :
              version' = version /\ deployed'[m] = version /\ deployed[m] # version =>
                  GatesInForce({m}) \subseteq acked \/ rr.modules = {}]_vars
    <2> SUFFICES ASSUME TypeOK, ChainInv, Next, NEW m \in Modules,
                        deployed'[m] = version, deployed[m] # version
                 PROVE  GatesInForce({m}) \subseteq acked \/ rr.modules = {}
      BY Zenon
    <2>1. pc = "deploy" /\ m \in rr.manifests
      BY ModuleDeploySteps, SMT, SMTT(60) DEF TypeOK, Versions
    <2>2. GatesOpen
      BY <2>1, Zenon DEF ChainInv
    <2> QED
      BY <2>1, <2>2, Zenon DEF GatesOpen, GatesInForce
  <1> QED
    BY <1>1, InitType, NextType, InitChain, NextChain, PTL DEF Spec, GatedDeploy

\* The operator of a module that was read as disabled is not removed while its CR exists.
THEOREM FinalizersServed == Spec => OperatorOutlivesCR
  <1>1. TypeOK /\ ChainInv /\ [Next]_vars =>
          [\A m \in Modules :
              deployed[m] # None /\ deployed'[m] = None =>
                  reported[m] = NoCR \/ (pc = "deploy" /\ m \in rr.modules)]_vars
    <2> SUFFICES ASSUME TypeOK, ChainInv, Next, NEW m \in Modules,
                        deployed[m] # None, deployed'[m] = None, reported[m] # NoCR
                 PROVE  pc = "deploy" /\ m \in rr.modules
      OBVIOUS
    <2>1. pc = "deploy" /\ m \notin rr.manifests
      BY ModuleDeploySteps DEF TypeOK, Versions
    <2> QED
      BY <2>1, Zenon DEF ChainInv
  <1> QED
    BY <1>1, InitType, NextType, InitChain, NextChain, PTL DEF Spec, OperatorOutlivesCR
-----------------------------------------------------------------------------

\* What the reconcile in progress will report is already true of what it has walked: a
\* walk that was not held back has cleared and collected every batch behind it, one that
\* was held back has left a timestamp, and asks for a requeue if the runlevel has a timeout.
WalkInv ==
    pc # "idle" =>
        /\ rr.progress \in {"True", "AwaitingReadiness", "RunlevelTimeoutExceeded"}
        /\ pc = "deploy" => rr.todo = {}
        /\ pending \/ rr.modules = enabled
        /\ rr.progress # "AwaitingReadiness" =>
               \A o \in Orders \ rr.todo : IsCleared(o) /\ Provisioned(o) \subseteq rr.manifests
        /\ rr.progress = "AwaitingReadiness" =>
               /\ rr.todo = {}
               /\ \E o \in Orders : stuck[o] # NotStuck /\ (Timeout[o] = 0 \/ rr.requeue > 0)

RestInv == WalkInv /\ ProgressTrueMeansDone /\ WaitHasWakeup

LEMMA InitRest == Init => RestInv
  BY Zenon DEF Init, RestInv, WalkInv, ProgressTrueMeansDone, WaitHasWakeup

\* A step that wakes the controller, and leaves it idle, owes nothing.
LEMMA QueuedOwesNothing == pc' = "idle" /\ pending' => RestInv'
  BY Zenon DEF RestInv, WalkInv, ProgressTrueMeansDone, WaitHasWakeup

LEMMA ClearKeepsRest ==
    ASSUME TypeOK, RestInv, pc = "walk", NEW o \in Orders, NextBatch(o),
           NEW timedOut, NEW condition \in {"True", "RunlevelTimeoutExceeded"},
           ClearAndProcess(o, timedOut, condition)
    PROVE  RestInv'
  <1> USE ConstantTypes
  <1>1. /\ pc' = "walk" /\ UNCHANGED <<version, enabled, pending>>
        /\ rr' = [rr EXCEPT !.todo = @ \ {o}, !.timedOut = timedOut, !.progress = condition,
                            !.manifests = @ \cup Provisioned(o)]
        /\ tracker' = MarkCleared(o)
    BY DEF ClearAndProcess, clusterVars
  <1>2. /\ rr'.progress = condition /\ rr'.modules = rr.modules /\ rr'.todo = rr.todo \ {o}
        /\ rr'.manifests = rr.manifests \cup Provisioned(o)
    BY <1>1 DEF TypeOK, Request
  <1>3. o \in rr.todo /\ rr.progress # "AwaitingReadiness"
    BY Zenon DEF NextBatch, RestInv, WalkInv
  <1>4. \A p \in Orders : (p = o \/ IsCleared(p)) => IsCleared(p)'
    BY <1>1 DEF IsCleared, MarkCleared, TypeOK
  <1>5. \A p \in Orders : Provisioned(p)' = Provisioned(p)
    BY <1>2, Zenon DEF Provisioned
  <1>6. \A p \in Orders \ rr'.todo : IsCleared(p)' /\ Provisioned(p)' \subseteq rr'.manifests
    BY <1>2, <1>3, <1>4, <1>5, Zenon DEF RestInv, WalkInv
  <1>7. WalkInv'
    BY <1>1, <1>2, <1>6 DEF RestInv, WalkInv
  <1> QED
    BY <1>1, <1>7 DEF RestInv, ProgressTrueMeansDone, WaitHasWakeup

LEMMA WalkKeepsRest ==
    ASSUME TypeOK, RestInv, Walk
    PROVE  RestInv'
  <1> USE ConstantTypes
  <1>1. PICK o \in Orders :
           \/ WalkReady(o)
           \/ \E errs \in SUBSET Below(o) : WalkTimedOut(o, errs) \/ WalkBlocked(o, errs)
    BY DEF Walk
  <1>2. CASE WalkReady(o)
    <2>1. pc = "walk" /\ NextBatch(o) /\ ClearAndProcess(o, rr.timedOut, rr.progress)
      BY <1>2 DEF WalkReady
    <2>2. rr.progress \in {"True", "RunlevelTimeoutExceeded"}
      BY <2>1, Zenon DEF NextBatch, RestInv, WalkInv
    <2> QED
      BY <2>1, <2>2, ClearKeepsRest
  <1>3. CASE \E errs \in SUBSET Below(o) : WalkTimedOut(o, errs)
    BY <1>3, ClearKeepsRest, Zenon DEF WalkTimedOut
  <1>4. ASSUME NEW errs \in SUBSET Below(o), WalkBlocked(o, errs) PROVE RestInv'
    <2>1. /\ pc = "walk" /\ pc' = "walk" /\ UNCHANGED <<version, enabled, pending>>
          /\ ~(Timeout[o] > 0 /\ Since(o) >= Timeout[o])
          /\ stuck' = [stuck EXCEPT ![o] = Since(o)]
          /\ rr' = [rr EXCEPT !.todo = {}, !.progress = "AwaitingReadiness", !.requeue = Remaining(o)]
      BY <1>4 DEF WalkBlocked, clusterVars
    <2>2. /\ rr'.progress = "AwaitingReadiness" /\ rr'.todo = {} /\ rr'.requeue = Remaining(o)
          /\ rr'.modules = rr.modules
      BY <2>1 DEF TypeOK, Request
    <2>3. Since(o) \in Nat
      BY DEF Since, TypeOK
    <2>4. stuck'[o] # NotStuck
      BY <2>1, <2>3 DEF TypeOK
    <2>5. Timeout[o] = 0 \/ rr'.requeue > 0
      BY <2>1, <2>2, <2>3 DEF Remaining
    <2>6. WalkInv'
      BY <2>1, <2>2, <2>4, <2>5 DEF RestInv, WalkInv
    <2> QED
      BY <2>1, <2>6 DEF RestInv, ProgressTrueMeansDone, WaitHasWakeup
  <1> QED
    BY <1>1, <1>2, <1>3, <1>4

\* The reconcile comes to rest after a deploy that applied everything.
LEMMA DeployKeepsRest ==
    ASSUME TypeOK, RestInv, ChainInv, Deploy
    PROVE  RestInv'
  <1> USE ConstantTypes
  <1>1. /\ pc = "deploy" /\ pc' = "idle" /\ progress' = rr.progress
        /\ UNCHANGED <<version, enabled, acked, tracker, stuck, pending>>
        /\ deployed' = [n \in Nodes |-> IF n \in Collected THEN None ELSE Deployed(rr.manifests)[n]]
        /\ timer' = RequeueAfter(rr.requeue)
    BY Zenon DEF Deploy
  <1>2. rr.todo = {} /\ GatesOpen /\ (pending \/ rr.modules = enabled)
    BY <1>1, Zenon DEF RestInv, WalkInv, ChainInv
  <1>3. WalkInv'
    BY <1>1 DEF WalkInv
  <1>4. ProgressTrueMeansDone'
    <2> SUFFICES ASSUME ~pending, rr.progress = "True"
                 PROVE  /\ enabled # {} => (GatesInForce(enabled) \subseteq acked)'
                        /\ \A o \in Orders : IsCleared(o)'
                        /\ \A m \in enabled : deployed'[m] = version
      BY <1>1, Zenon DEF ProgressTrueMeansDone
    <2>1. \A o \in Orders : IsCleared(o) /\ Provisioned(o) \subseteq rr.manifests
      BY <1>1, <1>2, Zenon DEF RestInv, WalkInv
    <2>2. enabled \subseteq rr.manifests
      BY <1>2, <2>1, Zenon DEF Provisioned, TypeOK
    <2>3. enabled # {} => GatesInForce(enabled) \subseteq acked
      BY <1>2, <2>2, Zenon DEF GatesOpen, GatesInForce
    <2>4. \A m \in enabled : deployed'[m] = version
      BY <1>1, <2>2, Zenon DEF Deployed, Collected, TypeOK
    <2> QED
      BY <1>1, <2>1, <2>3, <2>4, Zenon DEF IsCleared, GatesInForce
  <1>5. WaitHasWakeup'
    <2>1. rr.requeue \in Nat /\ timer \in Nat
      BY DEF TypeOK, Request
    <2>2. rr.requeue > 0 => timer' # 0
      BY <1>1, <2>1 DEF RequeueAfter
    <2> QED
      BY <1>1, <2>1, <2>2, Zenon DEF RestInv, WalkInv, WaitHasWakeup
  <1> QED
    BY <1>3, <1>4, <1>5 DEF RestInv

\* What does not wake the controller leaves its rest as it was.
LEMMA UnwokenKeepsRest ==
    ASSUME TypeOK, RestInv, UNCHANGED <<version, enabled, acked, tracker, pc, rr, progress>>,
           pending => pending', timer' = 0 => timer = 0 \/ pending',
           \A o \in Orders : stuck[o] # NotStuck => stuck'[o] # NotStuck,
           \A m \in Modules : deployed'[m] = deployed[m]
    PROVE  RestInv'
  <1>1. WalkInv'
    BY Zenon DEF RestInv, WalkInv, IsCleared, Provisioned
  <1>2. ProgressTrueMeansDone'
    BY Zenon DEF RestInv, ProgressTrueMeansDone, IsCleared, GatesInForce, TypeOK
  <1>3. WaitHasWakeup'
    BY Zenon DEF RestInv, WaitHasWakeup, GatesInForce
  <1> QED
    BY <1>1, <1>2, <1>3, Zenon DEF RestInv

\* Something was queued while the reconcile runs.
LEMMA WokenKeepsRest ==
    ASSUME TypeOK, RestInv, UNCHANGED <<version, tracker, stuck, pc, rr>>, pending'
    PROVE  RestInv'
  <1>1. WalkInv'
    BY Zenon DEF RestInv, WalkInv, IsCleared, Provisioned
  <1>2. ProgressTrueMeansDone' /\ WaitHasWakeup'
    BY Zenon DEF ProgressTrueMeansDone, WaitHasWakeup
  <1> QED
    BY <1>1, <1>2 DEF RestInv

LEMMA NextRest == TypeOK /\ ChainInv /\ RestInv /\ [Next]_vars => RestInv'
  <1> SUFFICES ASSUME TypeOK, ChainInv, RestInv, [Next]_vars PROVE RestInv'
    OBVIOUS
  <1> USE ConstantTypes
  <1>0. rr \in Request
    BY Zenon DEF TypeOK
  <1>1. CASE StartReconcile
    <2>1. /\ pc' = "walk" /\ rr'.modules = enabled /\ rr'.todo = Orders /\ rr'.progress = "True"
          /\ enabled' = enabled
      BY <1>1 DEF StartReconcile, IdleRequest
    <2> QED
      BY <2>1, Zenon DEF RestInv, WalkInv, ProgressTrueMeansDone, WaitHasWakeup
  <1>2. CASE StartReconcileFails
    BY <1>2, QueuedOwesNothing, Zenon DEF StartReconcileFails, memoryVars
  <1>3. CASE Walk
    BY <1>3, WalkKeepsRest
  <1>4. CASE PassUpgradeGates
    <2>1. /\ pc = "walk" /\ rr.todo = {} /\ pc' = "deploy"
          /\ UNCHANGED <<version, enabled, tracker, stuck, pending>>
          /\ rr'.modules = rr.modules /\ rr'.manifests = rr.manifests /\ rr'.todo = rr.todo
          /\ rr'.progress = rr.progress /\ rr'.requeue = rr.requeue
      BY <1>0, <1>4 DEF PassUpgradeGates, clusterVars, Request
    <2>2. WalkInv'
      BY <2>1, Zenon DEF RestInv, WalkInv, IsCleared, Provisioned
    <2> QED
      BY <2>1, <2>2, Zenon DEF RestInv, ProgressTrueMeansDone, WaitHasWakeup
  <1>5. CASE StopAtUpgradeGates
    <2>1. /\ pc' = "idle" /\ progress' = "AdminAckRequired" /\ ~GatesOpen
          /\ UNCHANGED <<version, acked>>
      BY <1>5, Zenon DEF StopAtUpgradeGates, clusterVars
    <2>2. ~(GatesInForce(Modules) \subseteq acked)
      BY <1>0, <2>1, Zenon DEF GatesOpen, GatesInForce, Request
    <2> QED
      BY <2>1, <2>2, Zenon DEF RestInv, WalkInv, ProgressTrueMeansDone, WaitHasWakeup, GatesInForce
  <1>6. CASE UpgradeGatesFail \/ DeployFails \/ Restart \/ Upgrade
    BY <1>6, QueuedOwesNothing, Zenon DEF UpgradeGatesFail, DeployFails, Restart, Upgrade, ProcessStarts
  <1>7. CASE Deploy
    BY <1>7, DeployKeepsRest
  <1>8. CASE Component
    <2>1. /\ UNCHANGED <<version, enabled, acked, tracker, pc, rr, progress, stuck, timer>>
          /\ pending => pending'
          /\ \A m \in Modules : deployed'[m] = deployed[m]
      BY <1>8, NodesAssumption, Zenon DEF Component, ComponentReconcile, TypeOK
    <2> QED
      BY <2>1, UnwokenKeepsRest, Zenon
  <1>9. CASE \E m \in Modules : ModuleOperator(m)
    <2>1. /\ UNCHANGED <<version, enabled, acked, tracker, pc, rr, progress, stuck, timer, deployed>>
          /\ pending => pending'
      BY <1>9, Zenon DEF ModuleOperator
    <2> QED
      BY <2>1, UnwokenKeepsRest, Zenon
  <1>10. CASE Tick
    <2>1. /\ UNCHANGED <<version, enabled, acked, tracker, pc, rr, progress, deployed>>
          /\ timer' = (IF timer > 0 THEN timer - 1 ELSE 0) /\ timer \in Nat
          /\ pending' = (pending \/ timer = 1)
      BY <1>10, Zenon DEF Tick, clusterVars, TypeOK
    <2>2. \A o \in Orders : stuck[o] # NotStuck => stuck'[o] # NotStuck
      BY <1>10 DEF Tick, TypeOK
    <2>3. timer' = 0 => timer = 0 \/ timer = 1
      BY <2>1
    <2> QED
      BY <2>1, <2>2, <2>3, UnwokenKeepsRest, Zenon
  <1>11. CASE \/ \E n \in Nodes : CreateCR(n) \/ DeleteCR(n)
              \/ \E m \in Modules : ToggleModule(m)
              \/ \E g \in Gates : AckGate(g)
              \/ OtherEvent
    BY <1>11, WokenKeepsRest, Zenon DEF CreateCR, DeleteCR, ToggleModule, AckGate, OtherEvent
  <1>12. CASE UNCHANGED vars
    BY <1>12, UnwokenKeepsRest, Zenon DEF vars, clusterVars, memoryVars
  <1> QED
    BY <1>1, <1>2, <1>3, <1>4, <1>5, <1>6, <1>7, <1>8, <1>9, <1>10, <1>11, <1>12
      , Zenon DEF Next, Reconcile, Environment

\* RestInv holds throughout.
THEOREM RestInvariance == Spec => []RestInv
  BY InitType, NextType, InitChain, NextChain, InitRest, NextRest, PTL DEF Spec

\* ProvisioningProgress=True with nothing queued means that this version's gates are
\* acknowledged, every runlevel is cleared and every enabled module is deployed, for any
\* modules, runlevels and timeouts, through restarts, upgrades and failures.
THEOREM SuccessIsTrue == Spec => []ProgressTrueMeansDone
  <1>1. RestInv => ProgressTrueMeansDone
    BY DEF RestInv
  <1> QED
    BY <1>1, RestInvariance, PTL

\* The controller never rests without a timer, a watch or an acknowledgement that
\* will wake it, unless it succeeded or has advanced past a timeout.
THEOREM NoDeadRest == Spec => []WaitHasWakeup
  <1>1. RestInv => WaitHasWakeup
    BY DEF RestInv
  <1> QED
    BY <1>1, RestInvariance, PTL
=============================================================================
