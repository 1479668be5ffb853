------------------------ MODULE ModuleLifecycleProofs ------------------------
(***************************************************************************)
(* Proofs about ModuleLifecycle, for every set of modules and any number   *)
(* of edits and faults.                                                    *)
(***************************************************************************)
EXTENDS ModuleLifecycle, TLAPS

\* Configurations only grow, from the DSC through the reconcile to the CR, and a CR
\* that reported on itself has been seen by its operator.
ConfigInv ==
    \A m \in Modules :
        /\ want[m] <= edits /\ desired[m] <= edits /\ conf[m] <= edits
        /\ want[m] # 0 => conf[m] <= want[m] /\ desired[m] <= want[m]
        /\ desired[m] # 0 => conf[m] <= desired[m]
        /\ cr[m] # "absent" => conf[m] > 0
        /\ health[m] # "none" => obs[m] > 0

\* Where a reconcile is, and what it knows there.
ChainInv ==
    /\ pc["DSC"] \in {"idle", "read", "provision"}
    /\ pc["Platform"] \in {"idle", "cleanup", "deploy", "read"}
    /\ pc["DSC"] = "provision" => plat = On("DSC") /\ todo["DSC"] = {}

\* The modules controller c is to report on as enabled.
Asked(c) == IF c = "DSC" THEN {m \in Modules : want[m] # 0} ELSE plat

\* The modules whose CR changes reach controller c; the DSC controller has a request
\* whenever this is not every module.
Reached(c) == {m \in Modules : crd[m] = "established" => m \in watched[c]}

\* What a verdict that was read is worth now: a failed read says nothing, and of a CR
\* that was not there only the creation has gone unnoticed.
Matches(v, m, on) ==
    \/ v \in Errors
    \/ v = Verdict(m, on)
    \/ v = "notFound" /\ m \in on /\ Verdict(m, on) = "notReady"

\* As long as controller c has no request, what it shows or has evaluated so far is
\* what it would find now.
StatusInv(c) ==
    c \notin queue =>
        /\ pc[c] = "idle" => \A m \in Reached(c) : Matches(shown[c][m], m, Asked(c))
        /\ pc[c] # "idle" => On(c) = Asked(c)
        /\ pc[c] \in {"read", "provision"} =>
               \A m \in Reached(c) \ todo[c] : Matches(eval[c][m], m, On(c))

\* As long as the DSC controller has no request, it watches the CRs of every established
\* CRD, works on the configurations of the DSC, and has applied them when it is idle.
AppliedInv ==
    "DSC" \notin queue =>
        /\ Established \subseteq watched["DSC"]
        /\ pc["DSC"] # "idle" => desired = want
        /\ pc["DSC"] = "idle" =>
               \A m \in Modules : want[m] # 0 /\ cr[m] = "alive" => conf[m] = want[m]

IInv ==
    /\ TypeOK /\ ConfigInv /\ ChainInv /\ AppliedInv
    /\ \A c \in Controllers : StatusInv(c)

-----------------------------------------------------------------------------

LEMMA VerdictType ==
    ASSUME NEW m \in Modules, NEW on
    PROVE  Verdict(m, on) \in Verdicts \ Errors
  BY DEF Verdict, EnabledVerdict, DisabledVerdict, ReportedVerdict, Verdicts, Errors

\* The last conjunct of TypeOK.
Consistent ==
    \A m \in Modules :
        /\ crd[m] # "established" => cr[m] = "absent" /\ \A c \in Controllers : m \notin watched[c]
        /\ cr[m] = "absent" => conf[m] = 0 /\ health[m] = "none"
        /\ obs[m] <= conf[m]

LEMMA InitInv == Init => IInv
  <1> SUFFICES ASSUME Init PROVE IInv
    OBVIOUS
  <1> USE BoundsAssumption
  <1>1. 0 \in Configs /\ 0 \in 0 .. MaxFaults /\ 0 \in 0 .. MaxEdits /\ "removed" \in Verdicts
    BY DEF Configs, Verdicts
  <1>2. TypeOK
    <2>1. Consistent
      <3>1. \A m \in Modules : cr[m] = "absent" /\ conf[m] = 0 /\ health[m] = "none" /\ obs[m] = 0
        BY Zenon DEF Init
      <3>2. \A m \in Modules, c \in Controllers : m \notin watched[c]
        BY DEF Init
      <3>3. \A m \in Modules : obs[m] <= conf[m]
        <4>1. 0 <= 0
          OBVIOUS
        <4> QED
          BY <3>1, <4>1, Zenon
      <3> QED
        BY <3>1, <3>2, <3>3, Zenon DEF Consistent
    <2>2. /\ want \in [Modules -> Configs] /\ conf \in [Modules -> Configs] /\ obs \in [Modules -> Configs]
          /\ desired \in [Modules -> Configs]
          /\ eval \in [Controllers -> [Modules -> Verdicts]] /\ shown \in [Controllers -> [Modules -> Verdicts]]
          /\ edits \in 0 .. MaxEdits /\ faults \in 0 .. MaxFaults
      BY <1>1 DEF Init
    <2> QED
      BY <2>1, <2>2, Zenon DEF Init, TypeOK, Consistent
  <1>3. ConfigInv /\ ChainInv
    BY DEF Init, ConfigInv, ChainInv, Controllers
  <1> QED
    BY <1>2, <1>3 DEF Init, IInv, AppliedInv, StatusInv, Controllers

-----------------------------------------------------------------------------
\* Types and configurations

LEMMA TypeStep ==
    ASSUME TypeOK, ConfigInv, ChainInv, [Next]_vars
    PROVE  TypeOK'
  <1> USE BoundsAssumption
  <1>1. CASE DSCBegins
    BY <1>1, Zenon DEF DSCBegins, Begin, Established, TypeOK, Configs, Controllers, crVars
  <1>2. ASSUME NEW c \in Controllers, NEW m \in Modules, Evaluate(c, m) \/ EvaluateFails(c, m) PROVE TypeOK'
    <2>1. PICK v \in Verdicts : Evaluated(c, m, v)
      BY <1>2, VerdictType DEF Evaluate, EvaluateFails, Verdicts
    <2>2. eval' \in [Controllers -> [Modules -> Verdicts]] /\ todo' \in [Controllers -> SUBSET Modules]
      BY <2>1 DEF Evaluated, TypeOK
    <2>3. faults' \in 0 .. MaxFaults
      BY <1>2 DEF Evaluate, EvaluateFails, TypeOK
    <2> QED
      BY <2>1, <2>2, <2>3 DEF Evaluated, TypeOK, crVars
  <1>3. CASE SyncPlatformCR
    BY <1>3 DEF SyncPlatformCR, On, TypeOK, Controllers, crVars, locals
  <1>4. CASE ProvisionModuleCRs
    <2> DEFINE gone == {m \in DisabledCRs : obs[m] = 0}
               applied == {m \in On("DSC") \cap Established : cr[m] # "deleting"}
    <2>1. /\ cr' = [m \in Modules |-> CASE m \in gone -> "absent"
                                        [] m \in DisabledCRs \ gone -> "deleting"
                                        [] m \in applied -> "alive"
                                        [] OTHER -> cr[m]]
          /\ conf' = [m \in Modules |-> IF m \in gone THEN 0
                                        ELSE IF m \in applied THEN desired[m] ELSE conf[m]]
          /\ health' = [m \in Modules |-> IF m \in gone THEN "none" ELSE health[m]]
          /\ obs' = obs
      BY <1>4 DEF ProvisionModuleCRs
    <2>2. /\ cr' \in [Modules -> {"absent", "alive", "deleting"}]
          /\ conf' \in [Modules -> Configs]
          /\ health' \in [Modules -> {"none", "notReady", "degraded", "ready"}]
      BY <2>1 DEF TypeOK, Configs
    <2>3. \A m \in Modules :
             /\ crd[m] # "established" => cr'[m] = "absent"
             /\ cr'[m] = "absent" => conf'[m] = 0 /\ health'[m] = "none"
             /\ obs[m] <= conf'[m]
      <3> TAKE m \in Modules
      <3>1. obs[m] \in Nat /\ conf[m] \in Nat /\ desired[m] \in Nat /\ obs[m] <= conf[m]
        BY DEF TypeOK, Configs
      <3>2. CASE m \in gone
        BY <2>1, <3>1, <3>2 DEF DisabledCRs
      <3>3. CASE m \in applied
        BY <2>1, <3>1, <3>3 DEF On, DisabledCRs, Established, ConfigInv
      <3>4. CASE m \notin gone /\ m \notin applied
        BY <2>1, <3>1, <3>4 DEF DisabledCRs, TypeOK
      <3> QED
        BY <3>2, <3>3, <3>4
    <2>4. /\ UNCHANGED <<want, plat, crd, op, obs, watched, enabled, todo, keep, edits, faults>>
          /\ queue' \subseteq Controllers /\ timer' \in BOOLEAN
          /\ desired' \in [Modules -> Configs]
      BY <1>4 DEF ProvisionModuleCRs, Notified, Waking, RequeueAfter, TypeOK, Configs
    <2>5. /\ shown' \in [Controllers -> [Modules -> Verdicts]] /\ eval' \in [Controllers -> [Modules -> Verdicts]]
          /\ pc' \in [Controllers -> {"idle", "cleanup", "deploy", "read", "sync", "provision"}]
      BY <1>4, Zenon DEF ProvisionModuleCRs, Finish, TypeOK, Verdicts
    <2> HIDE DEF gone, applied
    <2> QED
      BY <2>2, <2>3, <2>4, <2>5 DEF TypeOK
  <1>5. CASE RequeueFires
    BY <1>5, Zenon DEF RequeueFires, TypeOK, Controllers, crVars, locals
  <1>6. CASE PlatformBegins
    BY <1>6 DEF PlatformBegins, Begin, Established, TypeOK, Controllers, crVars
  <1>7. CASE CleanupDisabledModules
    BY <1>7 DEF CleanupDisabledModules, KeptOperators, TypeOK, Controllers, crVars
  <1>8. CASE Deploy
    BY <1>8 DEF Deploy, TypeOK, Controllers, crVars
  <1>9. CASE UpdateModuleStatus
    BY <1>9 DEF UpdateModuleStatus, Finish, TypeOK, Controllers, crVars, Verdicts
  <1>10. ASSUME NEW c \in Controllers, ReconcileFails(c) PROVE TypeOK'
    BY <1>10 DEF ReconcileFails, Abandon, TypeOK, Controllers, crVars, Verdicts, Configs
  <1>11. CASE Restart
    <2>1. "removed" \in Verdicts /\ 0 \in Configs
      BY DEF Verdicts, Configs
    <2>2. faults' \in 0 .. MaxFaults
      BY <1>11 DEF Restart, Abandon, TypeOK
    <2> QED
      BY <1>11, <2>1, <2>2, Zenon DEF Restart, Abandon, TypeOK, Controllers, crVars
  <1>12. ASSUME NEW m \in Modules, Edit(m) PROVE TypeOK'
    BY <1>12 DEF Edit, TypeOK, Controllers, crVars, locals, Configs
  <1>13. ASSUME NEW m \in Modules, EstablishCRD(m) PROVE TypeOK'
    BY <1>13 DEF EstablishCRD, WatchDataScienceClusters, TypeOK, Controllers, crVars, locals
  <1>14. ASSUME NEW m \in Modules, Rollout(m) PROVE TypeOK'
    BY <1>14 DEF Rollout, TypeOK, Controllers, crVars, locals
  <1>15. ASSUME NEW m \in Modules, ReportsReady(m) \/ ReportsTrouble(m) PROVE TypeOK'
    <2>1. PICK h \in {"ready", "notReady", "degraded"} : Reports(m, h)
      BY <1>15 DEF ReportsReady, ReportsTrouble
    <2>2. faults' \in 0 .. MaxFaults
      BY <1>15 DEF ReportsReady, ReportsTrouble, TypeOK
    <2>3. obs' \in [Modules -> Configs] /\ \A n \in Modules : obs'[n] <= conf[n]
      BY <2>1 DEF Reports, TypeOK, Configs
    <2>4. health' \in [Modules -> {"none", "notReady", "degraded", "ready"}] /\ queue' \subseteq Controllers
      BY <2>1 DEF Reports, Notified, Waking, TypeOK
    <2>5. \A n \in Modules : cr[n] = "absent" => health'[n] = "none"
      BY <2>1 DEF Reports, TypeOK
    <2> QED
      BY <2>1, <2>2, <2>3, <2>4, <2>5, Zenon DEF Reports, TypeOK, locals
  <1>16. ASSUME NEW m \in Modules, Finalize(m) PROVE TypeOK'
    <2>1. /\ cr' \in [Modules -> {"absent", "alive", "deleting"}]
          /\ conf' \in [Modules -> Configs] /\ obs' \in [Modules -> Configs]
          /\ health' \in [Modules -> {"none", "notReady", "degraded", "ready"}]
          /\ queue' \subseteq Controllers
      BY <1>16 DEF Finalize, Notified, Waking, TypeOK, Configs
    <2>2. \A n \in Modules :
             /\ crd[n] # "established" => cr'[n] = "absent"
             /\ cr'[n] = "absent" => conf'[n] = 0 /\ health'[n] = "none"
             /\ obs'[n] <= conf'[n]
      BY <1>16 DEF Finalize, TypeOK
    <2>3. UNCHANGED <<want, plat, crd, op, timer, watched, pc, desired, enabled, todo, eval, keep, shown,
                      edits, faults>>
      BY <1>16 DEF Finalize, locals
    <2>4. Consistent'
      BY <2>2, <2>3, Zenon DEF Consistent, TypeOK
    <2> QED
      BY <2>1, <2>3, <2>4, Zenon DEF TypeOK, Consistent
  <1>17. CASE UNCHANGED vars
    BY <1>17, Zenon DEF vars, TypeOK
  <1> QED
    BY <1>1, <1>2, <1>3, <1>4, <1>5, <1>6, <1>7, <1>8, <1>9, <1>10, <1>11, <1>12, <1>13, <1>14,
       <1>15, <1>16, <1>17 DEF Next, DSCStep, PlatformStep, OperatorStep, Controllers

LEMMA ConfigStep ==
    ASSUME TypeOK, ConfigInv, ChainInv, AppliedInv, [Next]_vars
    PROVE  ConfigInv'
  <1>0. /\ \A m \in Modules : want[m] \in Nat /\ desired[m] \in Nat /\ conf[m] \in Nat /\ obs[m] \in Nat
        /\ edits \in Nat
    BY BoundsAssumption DEF TypeOK, Configs
  <1>1. CASE DSCBegins
    BY <1>0, <1>1 DEF DSCBegins, ConfigInv, crVars
  <1>2. CASE ProvisionModuleCRs
    <2> SUFFICES ASSUME NEW m \in Modules
                 PROVE  /\ conf'[m] <= edits
                        /\ want[m] # 0 => conf'[m] <= want[m]
                        /\ cr'[m] # "absent" => conf'[m] > 0
                        /\ health'[m] # "none" => obs[m] > 0
      <3>1. UNCHANGED <<want, edits, obs>> /\ \A m \in Modules : desired'[m] = 0
        BY <1>2 DEF ProvisionModuleCRs
      <3> QED
        BY <1>0, <3>1 DEF ConfigInv
    <2> DEFINE gone == {n \in DisabledCRs : obs[n] = 0}
               applied == {n \in On("DSC") \cap Established : cr[n] # "deleting"}
    <2>1. /\ cr'[m] = CASE m \in gone -> "absent"
                        [] m \in DisabledCRs \ gone -> "deleting"
                        [] m \in applied -> "alive"
                        [] OTHER -> cr[m]
          /\ conf'[m] = IF m \in gone THEN 0 ELSE IF m \in applied THEN desired[m] ELSE conf[m]
          /\ health'[m] = IF m \in gone THEN "none" ELSE health[m]
      BY <1>2 DEF ProvisionModuleCRs
    <2>2. CASE m \in gone
      BY <1>0, <2>1, <2>2 DEF DisabledCRs
    <2>3. CASE m \in applied
      BY <1>0, <2>1, <2>3 DEF On, DisabledCRs, ConfigInv
    <2>4. CASE m \notin gone /\ m \notin applied
      BY <1>0, <2>1, <2>4 DEF DisabledCRs, ConfigInv
    <2> QED
      BY <2>2, <2>3, <2>4
  <1>3. ASSUME NEW c \in Controllers, ReconcileFails(c) \/ Restart PROVE ConfigInv'
    <2>1. /\ UNCHANGED <<want, edits, crVars>>
          /\ desired' = desired \/ \A m \in Modules : desired'[m] = 0
      BY <1>3, Zenon DEF ReconcileFails, Restart, Abandon
    <2> QED
      BY <1>0, <2>1 DEF ConfigInv, crVars
  <1>4. ASSUME NEW n \in Modules, Edit(n) PROVE ConfigInv'
    BY <1>0, <1>4 DEF Edit, ConfigInv, crVars, locals, TypeOK
  <1>5. ASSUME NEW n \in Modules, ReportsReady(n) \/ ReportsTrouble(n) PROVE ConfigInv'
    <2>1. PICK h : Reports(n, h)
      BY <1>5 DEF ReportsReady, ReportsTrouble
    <2> QED
      BY <1>0, <2>1, Zenon DEF Reports, ConfigInv, locals, TypeOK
  <1>6. ASSUME NEW n \in Modules, Finalize(n) PROVE ConfigInv'
    BY <1>0, <1>6 DEF Finalize, ConfigInv, locals, TypeOK
  <1>7. ASSUME UNCHANGED <<want, desired, cr, conf, obs, health, edits>> PROVE ConfigInv'
    BY <1>7, Zenon DEF ConfigInv
  <1>8. CASE \/ SyncPlatformCR \/ RequeueFires \/ PlatformBegins \/ CleanupDisabledModules
             \/ Deploy \/ UpdateModuleStatus \/ UNCHANGED vars
    BY <1>7, <1>8, Zenon DEF SyncPlatformCR, RequeueFires, PlatformBegins, CleanupDisabledModules,
       Deploy, UpdateModuleStatus, vars, crVars, locals
  <1>9. CASE \E m \in Modules : \/ EstablishCRD(m) \/ Rollout(m)
                                \/ \E c \in Controllers : Evaluate(c, m) \/ EvaluateFails(c, m)
    BY <1>7, <1>9 DEF EstablishCRD, Rollout, Evaluate, EvaluateFails, Evaluated, crVars, locals
  <1> QED
    BY <1>1, <1>2, <1>3, <1>4, <1>5, <1>6, <1>8, <1>9
       DEF Next, DSCStep, PlatformStep, OperatorStep, Controllers

LEMMA ChainStep ==
    ASSUME TypeOK, ChainInv, [Next]_vars
    PROVE  ChainInv'
  <1> USE DEF Controllers
  <1>1. CASE DSCBegins
    BY <1>1 DEF DSCBegins, ChainInv, TypeOK
  <1>2. CASE SyncPlatformCR
    BY <1>2 DEF SyncPlatformCR, ChainInv, TypeOK, On, locals
  <1>3. CASE ProvisionModuleCRs \/ UpdateModuleStatus
    BY <1>3 DEF ProvisionModuleCRs, UpdateModuleStatus, Finish, ChainInv, TypeOK, On
  <1>4. CASE PlatformBegins \/ CleanupDisabledModules \/ Deploy
    BY <1>4 DEF PlatformBegins, CleanupDisabledModules, Deploy, ChainInv, TypeOK, On
  <1>5. ASSUME NEW c \in Controllers, NEW m \in Modules, Evaluate(c, m) \/ EvaluateFails(c, m) PROVE ChainInv'
    BY <1>5 DEF Evaluate, EvaluateFails, Evaluated, ChainInv, TypeOK, On
  <1>6. ASSUME NEW c \in Controllers, ReconcileFails(c) \/ Restart PROVE ChainInv'
    <2>1. PICK cs \in SUBSET Controllers : Abandon(cs)
      BY <1>6 DEF ReconcileFails, Restart
    <2> QED
      BY <2>1 DEF Abandon, ChainInv, TypeOK, On
  <1>7. CASE UNCHANGED <<plat, desired, todo, pc>>
    BY <1>7 DEF ChainInv, On
  <1>8. CASE RequeueFires \/ UNCHANGED vars \/ \E m \in Modules : OperatorStep(m) \/ Edit(m) \/ ReportsTrouble(m)
    BY <1>7, <1>8, ZenonT(60) DEF RequeueFires, vars, OperatorStep, EstablishCRD, Rollout, ReportsReady, Finalize,
       Edit, ReportsTrouble, Reports, locals
  <1> QED
    BY <1>1, <1>2, <1>3, <1>4, <1>5, <1>6, <1>8 DEF Next, DSCStep, PlatformStep

-----------------------------------------------------------------------------
\* Events

\* A step leaves what the status of m is computed from as it is, or creates its CR.
SameStatus(m) ==
    /\ crd'[m] = "established" <=> crd[m] = "established"
    /\ cr'[m] = cr[m] /\ conf'[m] = conf[m] /\ obs'[m] = obs[m] /\ health'[m] = health[m]
Created(m) ==
    /\ pc["DSC"] = "provision" /\ m \in On("DSC")
    /\ crd[m] = "established" /\ crd'[m] = "established"
    /\ cr[m] = "absent" /\ cr'[m] = "alive" /\ obs'[m] = 0 /\ health'[m] = "none"

\* A controller that a step leaves without a request has missed nothing of the modules
\* it watches but the creation of a CR.
LEMMA Unnoticed ==
    ASSUME TypeOK, Next, NEW c \in Controllers, c \notin queue', NEW m \in Reached(c)'
    PROVE  SameStatus(m) \/ Created(m)
  <1>0. m \in Modules /\ (crd'[m] = "established" => m \in watched'[c])
    BY DEF Reached
  <1>1. CASE UNCHANGED crVars /\ \A n \in Modules : crd'[n] = "established" <=> crd[n] = "established"
    BY <1>0, <1>1 DEF SameStatus, crVars
  <1>2. CASE DSCBegins \/ SyncPlatformCR \/ RequeueFires \/ PlatformBegins
             \/ CleanupDisabledModules \/ UpdateModuleStatus
    BY <1>1, <1>2, Zenon DEF DSCBegins, SyncPlatformCR, RequeueFires, PlatformBegins,
       CleanupDisabledModules, UpdateModuleStatus
  <1>3. CASE Deploy
    BY <1>1, <1>3 DEF Deploy, TypeOK
  <1>4. CASE Restart \/ \E d \in Controllers : ReconcileFails(d)
    BY <1>1, <1>4, Zenon DEF ReconcileFails, Restart, Abandon
  <1>5. CASE \E n \in Modules : Rollout(n) \/ Edit(n) \/ \E d \in Controllers : Evaluate(d, n) \/ EvaluateFails(d, n)
    BY <1>1, <1>5 DEF Rollout, Edit, Evaluate, EvaluateFails, Evaluated
  <1>6. ASSUME NEW n \in Modules, EstablishCRD(n) PROVE SameStatus(m)
    <2>1. c = "Platform" /\ UNCHANGED <<crVars, watched>>
      BY <1>6 DEF EstablishCRD, WatchDataScienceClusters, Controllers
    <2>2. m # n
      BY <1>0, <1>6, <2>1 DEF EstablishCRD, TypeOK
    <2> QED
      BY <1>0, <1>6, <2>1, <2>2 DEF EstablishCRD, SameStatus, TypeOK, crVars
  <1>7. ASSUME NEW n \in Modules, ReportsReady(n) \/ ReportsTrouble(n) \/ Finalize(n) PROVE SameStatus(m)
    <2>1. UNCHANGED <<crd, watched>> /\ cr[n] # "absent" /\ queue' = Notified({n})
      BY <1>7 DEF ReportsReady, ReportsTrouble, Reports, Finalize
    <2>2. m # n
      BY <1>0, <2>1 DEF Notified, Waking, TypeOK
    <2> QED
      BY <1>0, <1>7, <2>1, <2>2 DEF ReportsReady, ReportsTrouble, Reports, Finalize, SameStatus, TypeOK
  <1>8. CASE ProvisionModuleCRs
    <2> DEFINE gone == {n \in DisabledCRs : obs[n] = 0}
               applied == {n \in On("DSC") \cap Established : cr[n] # "deleting"}
    <2>1. /\ cr'[m] = CASE m \in gone -> "absent"
                        [] m \in DisabledCRs \ gone -> "deleting"
                        [] m \in applied -> "alive"
                        [] OTHER -> cr[m]
          /\ conf'[m] = IF m \in gone THEN 0 ELSE IF m \in applied THEN desired[m] ELSE conf[m]
          /\ health'[m] = IF m \in gone THEN "none" ELSE health[m]
          /\ UNCHANGED <<crd, obs, watched>> /\ pc["DSC"] = "provision"
      BY <1>0, <1>8 DEF ProvisionModuleCRs
    <2>2. queue' = Notified({n \in Modules : cr[n] # "absent" /\ (cr'[n] # cr[n] \/ conf'[n] # conf[n])})
      BY <1>8 DEF ProvisionModuleCRs
    <2>3. cr[m] # "absent" => cr'[m] = cr[m] /\ conf'[m] = conf[m]
      BY <1>0, <2>1, <2>2 DEF Notified, Waking, TypeOK
    <2>4. CASE cr[m] # "absent"
      BY <1>0, <2>1, <2>3, <2>4 DEF SameStatus, DisabledCRs
    <2>5. CASE cr[m] = "absent" /\ m \in applied
      <3>1. obs[m] = 0 /\ health[m] = "none"
        BY <1>0, <2>5, SMT, SMTT(60) DEF TypeOK, Configs
      <3> QED
        BY <1>0, <2>1, <2>5, <3>1 DEF Created, DisabledCRs, Established
    <2>6. CASE cr[m] = "absent" /\ m \notin applied
      BY <1>0, <2>1, <2>6 DEF SameStatus, DisabledCRs
    <2> QED
      BY <2>4, <2>5, <2>6
  <1> QED
    BY <1>2, <1>3, <1>4, <1>5, <1>6, <1>7, <1>8 DEF Next, DSCStep, PlatformStep, OperatorStep, Controllers

\* So what was read stays worth what it was.
LEMMA MatchCarries ==
    ASSUME NEW m \in Modules, SameStatus(m) \/ Created(m), NEW on, Created(m) => m \in on,
           NEW v, Matches(v, m, on)
    PROVE  Matches(v, m, on)'
  <1>1. CASE SameStatus(m)
    BY <1>1 DEF SameStatus, Matches, Verdict, EnabledVerdict, DisabledVerdict, ReportedVerdict
  <1>2. CASE Created(m)
    <2>1. Verdict(m, on) = "notFound"
      BY <1>2, Zenon DEF Created, Verdict, EnabledVerdict
    <2>2. Verdict(m, on)' = "notReady"
      BY <1>2 DEF Created, Verdict, EnabledVerdict, ReportedVerdict
    <2> QED
      BY <1>2, <2>1, <2>2 DEF Matches
  <1> QED
    BY <1>1, <1>2

-----------------------------------------------------------------------------
\* The reconciles

LEMMA AppliedStep ==
    ASSUME TypeOK, ChainInv, AppliedInv, [Next]_vars
    PROVE  AppliedInv'
  <1> SUFFICES ASSUME "DSC" \notin queue'
               PROVE  /\ Established' \subseteq watched'["DSC"]
                      /\ pc'["DSC"] # "idle" => desired' = want'
                      /\ pc'["DSC"] = "idle" =>
                             \A m \in Modules : want'[m] # 0 /\ cr'[m] = "alive" => conf'[m] = want'[m]
    BY Zenon DEF AppliedInv
  <1> USE DEF Controllers
  <1>1. CASE DSCBegins
    BY <1>1, Zenon DEF DSCBegins, Begin, Established, TypeOK
  <1>3. CASE ProvisionModuleCRs
    <2>1. /\ "DSC" \notin queue /\ pc["DSC"] = "provision" /\ pc'["DSC"] = "idle"
          /\ UNCHANGED <<want, crd, watched>>
      BY <1>3, Zenon DEF ProvisionModuleCRs, Notified, Waking, Finish, TypeOK
    <2>2. desired = want /\ Established' \subseteq watched'["DSC"]
      BY <2>1 DEF AppliedInv, Established
    <2>3. ASSUME NEW m \in Modules, want[m] # 0, cr'[m] = "alive" PROVE conf'[m] = want[m]
      <3>1. m \in On("DSC") /\ m \notin DisabledCRs
        BY <2>2, <2>3 DEF On, DisabledCRs
      <3>2. m \in Established => cr[m] # "deleting"
        BY <1>3, <2>3, <3>1 DEF ProvisionModuleCRs
      <3>3. m \in Established
        BY <1>3, <2>3, <3>1 DEF ProvisionModuleCRs, Established, TypeOK
      <3> QED
        BY <1>3, <2>2, <3>1, <3>2, <3>3 DEF ProvisionModuleCRs
    <2> QED
      BY <2>1, <2>2, <2>3, Zenon
  <1>4. CASE SyncPlatformCR \/ RequeueFires
    BY <1>4 DEF SyncPlatformCR, RequeueFires, AppliedInv, Established, TypeOK, crVars, locals
  <1>5. CASE PlatformBegins
    BY <1>5, Zenon DEF PlatformBegins, Begin, AppliedInv, Established, TypeOK, crVars
  <1>6. CASE CleanupDisabledModules \/ Deploy
    BY <1>6 DEF CleanupDisabledModules, Deploy, AppliedInv, Established, TypeOK, crVars
  <1>7. CASE UpdateModuleStatus
    BY <1>7, Zenon DEF UpdateModuleStatus, Finish, AppliedInv, Established, TypeOK, crVars
  <1>8. CASE \E c \in Controllers, m \in Modules : Evaluate(c, m) \/ EvaluateFails(c, m)
    BY <1>8, Zenon DEF Evaluate, EvaluateFails, Evaluated, AppliedInv, Established, crVars
  <1>9. CASE Restart \/ \E c \in Controllers : ReconcileFails(c)
    <2>1. ReconcileFails("Platform")
      BY <1>9, Zenon DEF Restart, ReconcileFails, Abandon
    <2> QED
      BY <2>1, Zenon DEF ReconcileFails, Abandon, AppliedInv, Established, TypeOK, crVars
  <1>10. CASE \E m \in Modules : EstablishCRD(m) \/ Edit(m)
    BY <1>10, Zenon DEF EstablishCRD, WatchDataScienceClusters, Edit
  <1>11. CASE \E m \in Modules : Rollout(m) \/ ReportsReady(m) \/ ReportsTrouble(m)
    BY <1>11 DEF Rollout, ReportsReady, ReportsTrouble, Reports, Notified, Waking, AppliedInv, Established,
       TypeOK, crVars, locals
  <1>12. CASE \E m \in Modules : Finalize(m)
    BY <1>12 DEF Finalize, Notified, Waking, AppliedInv, Established, TypeOK, locals
  <1>13. CASE UNCHANGED vars
    BY <1>13, Zenon DEF vars, AppliedInv, Established
  <1> QED
    BY <1>1, <1>3, <1>4, <1>5, <1>6, <1>7, <1>8, <1>9, <1>10, <1>11, <1>12, <1>13, Zenon
       DEF Next, DSCStep, PlatformStep, OperatorStep

\* The start of a reconcile of c takes its request and reads what c is asked for.
Begins(c) == (c = "DSC" /\ DSCBegins) \/ (c = "Platform" /\ PlatformBegins)

\* Otherwise, a step that leaves c without a request found it without one.
LEMMA NoRequest ==
    ASSUME TypeOK, Next, NEW c \in Controllers, c \notin queue', ~Begins(c)
    PROVE  /\ c \notin queue
           /\ Asked(c)' = Asked(c)
           /\ watched'[c] = watched[c]
           /\ Reached(c)' \subseteq Reached(c)
  <1> USE DEF Controllers
  <1>1. c \notin queue /\ watched'[c] = watched[c] /\ (c = "DSC" => want' = want) /\ (c = "Platform" => plat' = plat)
    <2>1. CASE DSCBegins \/ PlatformBegins
      BY <2>1, SMT, SMTT(60) DEF Begins, DSCBegins, PlatformBegins, Begin, TypeOK
    <2>2. CASE SyncPlatformCR \/ RequeueFires \/ CleanupDisabledModules \/ Deploy \/ UpdateModuleStatus
      BY <2>2 DEF SyncPlatformCR, RequeueFires, CleanupDisabledModules, Deploy, UpdateModuleStatus
    <2>3. CASE ProvisionModuleCRs
      BY <2>3 DEF ProvisionModuleCRs, Notified, Waking
    <2>4. CASE \E d \in Controllers, m \in Modules : Evaluate(d, m) \/ EvaluateFails(d, m)
      BY <2>4 DEF Evaluate, EvaluateFails, Evaluated
    <2>5. CASE Restart \/ \E d \in Controllers : ReconcileFails(d)
      BY <2>5, Zenon DEF Restart, ReconcileFails, Abandon
    <2>6. CASE \E m \in Modules : EstablishCRD(m) \/ Edit(m) \/ Rollout(m)
      BY <2>6 DEF EstablishCRD, Edit, Rollout
    <2>7. CASE \E m \in Modules : ReportsReady(m) \/ ReportsTrouble(m) \/ Finalize(m)
      BY <2>7, Zenon DEF ReportsReady, ReportsTrouble, Reports, Finalize, Notified, Waking
    <2> QED
      BY <2>1, <2>2, <2>3, <2>4, <2>5, <2>6, <2>7, Zenon DEF Next, DSCStep, PlatformStep, OperatorStep
  <1>2. \A m \in Modules : crd[m] = "established" => crd'[m] = "established"
    <2>1. CASE UNCHANGED crd
      BY <2>1
    <2>2. CASE Deploy
      BY <2>2 DEF Deploy, TypeOK
    <2>3. CASE \E m \in Modules : EstablishCRD(m)
      BY <2>3 DEF EstablishCRD, TypeOK
    <2>4. CASE DSCBegins \/ SyncPlatformCR \/ ProvisionModuleCRs \/ PlatformBegins \/ CleanupDisabledModules
               \/ UpdateModuleStatus \/ RequeueFires \/ Restart \/ \E d \in Controllers : ReconcileFails(d)
      BY <2>1, <2>4, Zenon DEF DSCBegins, SyncPlatformCR, ProvisionModuleCRs, PlatformBegins, CleanupDisabledModules,
         UpdateModuleStatus, RequeueFires, Restart, ReconcileFails, Abandon
    <2>5. CASE \E m \in Modules : \/ Edit(m) \/ Rollout(m) \/ ReportsReady(m) \/ ReportsTrouble(m) \/ Finalize(m)
                                  \/ \E d \in Controllers : Evaluate(d, m) \/ EvaluateFails(d, m)
      BY <2>1, <2>5, Zenon DEF Edit, Rollout, ReportsReady, ReportsTrouble, Reports, Finalize, Evaluate,
         EvaluateFails, Evaluated
    <2> QED
      BY <2>2, <2>3, <2>4, <2>5, Zenon DEF Next, DSCStep, PlatformStep, OperatorStep
  <1> QED
    BY <1>1, <1>2, Zenon DEF Asked, Reached

\* What c would find now.
Now(c, m) == Verdict(m, Asked(c))

LEMMA StatusStep ==
    ASSUME TypeOK, ChainInv, Next, NEW c \in Controllers, StatusInv(c)
    PROVE  StatusInv(c)'
  <1> SUFFICES ASSUME c \notin queue'
               PROVE  /\ pc'[c] = "idle" => \A m \in Reached(c)' : Matches(shown[c][m], m, Asked(c))'
                      /\ pc'[c] # "idle" => On(c)' = Asked(c)'
                      /\ pc'[c] \in {"read", "provision"} =>
                             \A m \in Reached(c)' \ todo'[c] : Matches(eval[c][m], m, On(c))'
    BY Zenon DEF StatusInv
  <1> USE DEF Controllers
  <1>1. CASE Begins(c)
    <2>1. CASE c = "DSC" /\ DSCBegins
      <3>1. pc'[c] = "read" /\ todo'[c] = Modules
        BY <2>1, Zenon DEF DSCBegins, TypeOK
      <3>2. On(c)' = Asked(c)'
        BY <2>1 DEF DSCBegins, On, Asked
      <3> QED
        BY <3>1, <3>2, SMT, SMTT(60) DEF Reached
    <2>2. CASE c = "Platform" /\ PlatformBegins
      <3>1. pc'[c] = "cleanup"
        BY <2>2, Zenon DEF PlatformBegins, TypeOK
      <3>2. On(c)' = Asked(c)'
        BY <2>2, Zenon DEF PlatformBegins, On, Asked
      <3> QED
        BY <3>1, <3>2, Zenon
    <2> QED
      BY <1>1, <2>1, <2>2, Zenon DEF Begins
  <1> SUFFICES ASSUME ~Begins(c)
               PROVE  /\ pc'[c] = "idle" => \A m \in Reached(c)' : Matches(shown[c][m], m, Asked(c))'
                      /\ pc'[c] # "idle" => On(c)' = Asked(c)'
                      /\ pc'[c] \in {"read", "provision"} =>
                             \A m \in Reached(c)' \ todo'[c] : Matches(eval[c][m], m, On(c))'
    BY <1>1, Zenon
  <1>2. c \notin queue /\ Asked(c)' = Asked(c) /\ Reached(c)' \subseteq Reached(c) /\ Reached(c)' \subseteq Modules
    BY NoRequest, Zenon DEF Reached
  <1>3. pc[c] # "idle" => On(c) = Asked(c)
    BY <1>2, Zenon DEF StatusInv
  <1>4. ASSUME NEW m \in Reached(c)', NEW v,
               v \in Errors \/ v = Now(c, m) \/ (v = "notFound" /\ m \in Asked(c) /\ Now(c, m) = "notReady")
        PROVE  v \in Errors \/ v = Now(c, m)' \/ (v = "notFound" /\ m \in Asked(c)' /\ Now(c, m)' = "notReady")
    <2>1. m \in Modules /\ (SameStatus(m) \/ Created(m))
      BY <1>2, Unnoticed
    <2>2. Created(m) => m \in Asked(c)
      BY <1>3, Zenon DEF Created, ChainInv, Asked
    <2>3. PICK on : on = Asked(c) /\ on = Asked(c)'
      BY <1>2
    <2>4. Matches(v, m, on)
      BY <1>4, <2>3 DEF Matches, Now
    <2>5. Matches(v, m, on)'
      BY <2>1, <2>2, <2>3, <2>4, MatchCarries
    <2> QED
      BY <2>3, <2>5, Zenon DEF Matches, Now, Verdict, EnabledVerdict, DisabledVerdict
  <1>5. CASE pc'[c] = pc[c] /\ On(c)' = On(c) /\ UNCHANGED <<shown[c], eval[c], todo[c]>>
    BY <1>2, <1>3, <1>4, <1>5, SMT, SMTT(60) DEF StatusInv, Matches, Now
  <1>6. CASE \E m \in Modules : Evaluate(c, m) \/ EvaluateFails(c, m)
    <2>1. PICK n \in Modules, w \in Verdicts :
              /\ pc[c] = "read" /\ Evaluated(c, n, w)
              /\ w \in Errors \/ w = Verdict(n, On(c))
      BY <1>6, VerdictType, SMT, SMTT(60) DEF Evaluate, EvaluateFails, Errors, Verdicts
    <2>2. /\ pc'[c] = "read" /\ On(c)' = On(c) /\ todo'[c] = todo[c] \ {n}
          /\ \A m \in Modules : eval'[c][m] = IF m = n THEN w ELSE eval[c][m]
      BY <2>1 DEF Evaluated, On, TypeOK
    <2>3. \A m \in Reached(c)' \ todo'[c] :
              \/ eval'[c][m] \in Errors \/ eval'[c][m] = Now(c, m)
              \/ eval'[c][m] = "notFound" /\ m \in Asked(c) /\ Now(c, m) = "notReady"
      BY <1>2, <1>3, <2>1, <2>2, ZenonT(60) DEF StatusInv, Matches, Now
    <2>4. On(c)' = Asked(c)'
      BY <1>2, <1>3, <2>1, <2>2, Zenon
    <2>5. \A m \in Reached(c)' \ todo'[c] :
              \/ eval'[c][m] \in Errors \/ eval'[c][m] = Now(c, m)'
              \/ eval'[c][m] = "notFound" /\ m \in Asked(c)' /\ Now(c, m)' = "notReady"
      BY <1>4, <2>3, Zenon
    <2> QED
      BY <2>2, <2>4, <2>5, Zenon DEF Matches, Now
  <1>7. CASE (c = "DSC" /\ ProvisionModuleCRs) \/ (c = "Platform" /\ UpdateModuleStatus)
    <2>1. pc'[c] = "idle" /\ shown'[c] = eval[c] /\ todo[c] = {} /\ pc[c] \in {"read", "provision"}
      BY <1>7 DEF ProvisionModuleCRs, UpdateModuleStatus, Finish, ChainInv, TypeOK
    <2> QED
      BY <1>2, <1>3, <1>4, <2>1, Zenon DEF StatusInv, Matches, Now
  <1>8. CASE c = "DSC" /\ SyncPlatformCR
    <2>1. /\ pc[c] = "read" /\ pc'[c] = "provision" /\ On(c)' = On(c)
          /\ UNCHANGED <<shown[c], eval[c], todo[c]>>
      BY <1>8, Zenon DEF SyncPlatformCR, On, locals, TypeOK
    <2> QED
      BY <1>2, <1>3, <1>4, <2>1, SMT, SMTT(60) DEF StatusInv, Matches, Now
  <1>9. CASE c = "Platform" /\ (CleanupDisabledModules \/ Deploy)
    <2>1. /\ pc[c] # "idle" /\ pc'[c] # "idle" /\ On(c)' = On(c)
          /\ pc'[c] = "deploy" \/ todo'[c] = Modules
      BY <1>9 DEF CleanupDisabledModules, Deploy, On, TypeOK
    <2> QED
      BY <1>2, <1>3, <2>1, Zenon
  <1>10. CASE \/ RequeueFires
              \/ \E m \in Modules : \/ OperatorStep(m) \/ Edit(m) \/ ReportsTrouble(m)
    BY <1>5, <1>10, ZenonT(60) DEF RequeueFires, OperatorStep, EstablishCRD, Rollout, ReportsReady, Finalize, Edit,
       ReportsTrouble, Reports, locals, On
  <1>11. CASE Restart \/ \E d \in Controllers : ReconcileFails(d)
    <2>1. PICK d \in Controllers \ {c} : ReconcileFails(d)
      BY <1>11, Zenon DEF Restart, ReconcileFails, Abandon
    <2>2. pc'[c] = pc[c] /\ On(c)' = On(c) /\ eval'[c] = eval[c] /\ todo'[c] = todo[c]
      BY <2>1, Zenon DEF ReconcileFails, Abandon, On
    <2>3. shown'[c] = shown[c]
      BY <2>1, SMT, SMTT(60) DEF ReconcileFails, TypeOK
    <2> QED
      BY <1>5, <2>2, <2>3, Zenon
  <1>12. CASE \E d \in Controllers \ {c}, m \in Modules : Evaluate(d, m) \/ EvaluateFails(d, m)
    <2>1. PICK d \in Controllers \ {c}, m \in Modules, w \in Verdicts : Evaluated(d, m, w)
      BY <1>12, VerdictType, Zenon DEF Evaluate, EvaluateFails, Verdicts
    <2>2. pc'[c] = pc[c] /\ On(c)' = On(c) /\ UNCHANGED <<shown[c], eval[c], todo[c]>>
      BY <2>1, Zenon DEF Evaluated, On, TypeOK
    <2> QED
      BY <1>5, <2>2, Zenon
  <1>13. CASE c = "Platform" /\ (DSCBegins \/ SyncPlatformCR \/ ProvisionModuleCRs)
    BY <1>5, <1>13 DEF DSCBegins, SyncPlatformCR, ProvisionModuleCRs, Finish, On, locals, TypeOK
  <1>14. CASE c = "DSC" /\ (PlatformBegins \/ CleanupDisabledModules \/ Deploy \/ UpdateModuleStatus)
    <2>1. pc'[c] = pc[c] /\ On(c)' = On(c) /\ UNCHANGED <<shown[c], eval[c], todo[c]>>
      BY <1>14 DEF PlatformBegins, CleanupDisabledModules, Deploy, UpdateModuleStatus, Finish, On, TypeOK
    <2> QED
      BY <1>5, <2>1, Zenon
  <1> QED
    BY <1>6, <1>7, <1>8, <1>9, <1>10, <1>11, <1>12, <1>13, <1>14, Zenon DEF Next, DSCStep, PlatformStep, Begins

-----------------------------------------------------------------------------
\* The results

\* The inductive invariant holds: as long as a controller has no request, what it shows,
\* or has evaluated so far in a reconcile, is what it would find now.
THEOREM Invariance == Spec => []IInv
  <1>1. ASSUME IInv, [Next]_vars PROVE IInv'
    <2>1. TypeOK' /\ ConfigInv' /\ ChainInv' /\ AppliedInv'
      BY <1>1, TypeStep, ConfigStep, ChainStep, AppliedStep DEF IInv
    <2>2. ASSUME NEW c \in Controllers PROVE StatusInv(c)'
      <3>1. CASE Next
        BY <1>1, <3>1, StatusStep DEF IInv
      <3>2. CASE UNCHANGED vars
        <4>1. StatusInv(c)
          BY <1>1 DEF IInv
        <4> QED
          BY <3>2, <4>1 DEF vars, StatusInv, Reached, Asked, On, Matches, Verdict, EnabledVerdict, DisabledVerdict,
             ReportedVerdict
      <3> QED
        BY <1>1, <3>1, <3>2
    <2> QED
      BY <2>1, <2>2 DEF IInv, Controllers
  <1> QED
    BY <1>1, InitInv, PTL DEF Spec

\* The types of the variables: no CR and no watch without an established CRD, nothing left
\* of a CR that is gone, no operator ahead of its CR.
THEOREM TypeCorrect == Spec => []TypeOK
  <1>1. IInv => TypeOK
    BY DEF IInv
  <1> QED
    BY <1>1, Invariance, PTL

\* Verdicts that differ only by the creation of a CR give the same conditions.
LEMMA SameConditions ==
    ASSUME NEW view, NEW now,
           \A m \in Modules : view[m] = now[m] \/ (view[m] = "notFound" /\ now[m] = "notReady")
    PROVE  /\ ModulesReady(view) = ModulesReady(now)
           /\ \A m \in Modules : ModuleReady(view, m) = ModuleReady(now, m)
  <1>1. \A m \in Modules :
            /\ view[m] \in NotReadyVerdicts <=> now[m] \in NotReadyVerdicts
            /\ view[m] \in {"degraded", "deletingDegraded"} <=> now[m] \in {"degraded", "deletingDegraded"}
            /\ view[m] \in {"pending", "pendingErr"} <=> now[m] \in {"pending", "pendingErr"}
            /\ view[m] \in {"ready", "deletingReady"} <=> now[m] \in {"ready", "deletingReady"}
    BY Zenon DEF NotReadyVerdicts
  <1>2. ModulesReady(view) = ModulesReady(now)
    BY <1>1, Zenon DEF ModulesReady
  <1>3. \A m \in Modules : ModuleReady(view, m) = ModuleReady(now, m)
    BY Zenon DEF ModuleReady
  <1> QED
    BY <1>2, <1>3

\* When nothing will wake a controller, the conditions it last wrote are the ones it would
\* write now (updateStatus, updateModuleStatus): no order of edits, reports, CRD events,
\* failed reconciles and restarts leaves the DSC or the Platform with a stale status.
THEOREM StatusIsFresh == Spec => []StatusSettles
  <1>1. ASSUME IInv, NEW c \in Controllers, Quiet(c), Established \subseteq watched[c]
        PROVE  \A m \in Modules : \/ shown[c][m] = Verdict(m, Asked(c))
                                  \/ shown[c][m] = "notFound" /\ Verdict(m, Asked(c)) = "notReady"
    <2>1. Reached(c) = Modules
      BY <1>1 DEF Reached, Established
    <2> QED
      BY <1>1, <2>1, Zenon DEF IInv, StatusInv, Quiet, Matches
  <1>2. IInv => DSCStatusSettles
    <2> SUFFICES ASSUME IInv, Quiet("DSC") PROVE Fresh("DSC", Asked("DSC"))
      BY DEF DSCStatusSettles, Asked
    <2>1. Established \subseteq watched["DSC"]
      BY DEF IInv, AppliedInv, Quiet
    <2> DEFINE now == [m \in Modules |-> Verdict(m, Asked("DSC"))]
    <2>2. \A m \in Modules : shown["DSC"][m] = now[m] \/ (shown["DSC"][m] = "notFound" /\ now[m] = "notReady")
      BY <1>1, <2>1, Zenon DEF Controllers
    <2> HIDE DEF now
    <2>3. /\ ModulesReady(shown["DSC"]) = ModulesReady(now)
          /\ \A m \in Modules : ModuleReady(shown["DSC"], m) = ModuleReady(now, m)
      BY <2>2, SameConditions, Zenon
    <2> QED
      BY <2>3, Zenon DEF Fresh, now
  <1>3. IInv => PlatformStatusSettles
    <2> SUFFICES ASSUME IInv, Quiet("Platform"), Established \subseteq watched["Platform"]
                 PROVE  ModulesReady(shown["Platform"]) = ModulesReady([m \in Modules |-> Verdict(m, plat)])
      BY DEF PlatformStatusSettles
    <2> DEFINE now == [m \in Modules |-> Verdict(m, plat)]
    <2>2. \A m \in Modules :
              shown["Platform"][m] = now[m] \/ (shown["Platform"][m] = "notFound" /\ now[m] = "notReady")
      BY <1>1, Zenon DEF Controllers, Asked
    <2> HIDE DEF now
    <2>3. ModulesReady(shown["Platform"]) = ModulesReady(now)
      BY <2>2, SameConditions, Zenon
    <2> QED
      BY <2>3 DEF now
  <1> QED
    BY <1>2, <1>3, Invariance, PTL DEF StatusSettles

\* A DSC at rest that shows a module as ready shows it for the configuration the user asked
\* for, although the status is read before the CR is applied (updateStatus runs first).
THEOREM ReadyIsCurrent == Spec => []ReadyMeansCurrent
  <1>1. IInv => ReadyMeansCurrent
    <2> SUFFICES ASSUME IInv, Quiet("DSC"), NEW m \in Modules, shown["DSC"][m] = "ready"
                 PROVE  obs[m] = want[m]
      BY DEF ReadyMeansCurrent
    <2>1. "DSC" \notin queue /\ pc["DSC"] = "idle" /\ Established \subseteq watched["DSC"]
      BY DEF IInv, AppliedInv, Quiet
    <2>2. Verdict(m, Asked("DSC")) = "ready"
      BY <2>1, Zenon DEF IInv, StatusInv, Matches, Reached, Established, Errors, Controllers
    <2>3. want[m] # 0 /\ cr[m] = "alive" /\ health[m] # "none" /\ ~(obs[m] > 0 /\ obs[m] < conf[m])
      BY <2>2 DEF Verdict, EnabledVerdict, DisabledVerdict, ReportedVerdict, Asked, IInv, TypeOK
    <2>4. conf[m] = want[m]
      BY <2>1, <2>3 DEF IInv, AppliedInv
    <2>5. obs[m] > 0 /\ obs[m] <= conf[m] /\ obs[m] \in Nat /\ conf[m] \in Nat
      BY <2>3, BoundsAssumption, SMT, SMTT(60) DEF IInv, ConfigInv, TypeOK, Configs
    <2> QED
      BY <2>3, <2>4, <2>5
  <1> QED
    BY <1>1, Invariance, PTL

=============================================================================
